------------------------------ MODULE Bencode -------------------------------
(***************************************************************************)
(* bencode.py: the encoder as a function, the recursive decoder as a state *)
(* machine that reads one item per step, with the calls under way as a     *)
(* stack.  Positions count from 0 and may be negative, as in Python.       *)
(***************************************************************************)
EXTENDS Bytes

CONSTANTS
  Values,   \* values to encode
  Inputs,   \* byte strings to decode
  MaxDepth  \* bound: calls before Python gives up, 1000 less the callers

Colon == 58  \* ":"
CharD == 100
CharE == 101
CharI == 105
CharL == 108

-----------------------------------------------------------------------------
(* The values bencode takes: [int |-> n], [str |-> s], [list |-> items] or *)
(* [dict |-> pairs], the pairs of a key and its value in no order.         *)

Atom == [int : Int] \cup [str : Seq(Byte)]

Dict(values) ==
  {d \in SUBSET (Seq(Byte) \X values) :
     IsFiniteSet(d) /\ \A p, q \in d : p[1] = q[1] => p = q}

(* Values whose lists and dictionaries are nested at most n deep.          *)
Value[n \in Nat] ==
  IF n = 0 THEN Atom
  ELSE Atom \cup [list : Seq(Value[n - 1])] \cup [dict : Dict(Value[n - 1])]

ASSUME BencodeAssumption ==
  /\ MaxDepth \in Nat
  /\ Values \subseteq Value[MaxDepth]
  /\ Inputs \subseteq Seq(Byte)

-----------------------------------------------------------------------------
(* bencode.                                                                *)

EncodeInt(n) == <<CharI>> \o Str(n) \o <<CharE>>

EncodeString(s) == Decimal[Len(s)] \o <<Colon>> \o s

(* A list or a dictionary from the codes of its parts.                     *)
Enclose(char, parts) == <<char>> \o FlattenSeq(parts) \o <<CharE>>

(* x.items(), sorted.                                                      *)
SortedItems(d) ==
  CHOOSE items \in [1 .. Cardinality(d) -> d] :
    /\ ToSet(items) = d
    /\ \A i, j \in DOMAIN items : i < j => Less(items[i][1], items[j][1])

(* `code` encodes what the value contains.                                 *)
EncodeWith(v, code) ==
  CASE "int" \in DOMAIN v -> EncodeInt(v.int)
    [] "str" \in DOMAIN v -> EncodeString(v.str)
    [] "list" \in DOMAIN v ->
         Enclose(CharL, [i \in DOMAIN v.list |-> code[v.list[i]]])
    [] "dict" \in DOMAIN v ->
         LET items == SortedItems(v.dict)
         IN Enclose(CharD, [i \in DOMAIN items |->
                              EncodeString(items[i][1]) \o code[items[i][2]]])

Code[n \in Nat] ==
  [v \in Value[n] |-> EncodeWith(v, IF n = 0 THEN <<>> ELSE Code[n - 1])]

Encode(v) == Code[MaxDepth][v]

-----------------------------------------------------------------------------
VARIABLES
  x,        \* the byte string
  f,        \* the position in it
  calls,    \* the calls of decode_list and decode_dict under way
  outcome,  \* "reading"; "ok", "ValueError" or "RuntimeError": how bdecode ends
  r         \* the value bdecode has decoded, <<>> until then

vars == <<x, f, calls, outcome, r>>

(* A call has decoded `items`; decode_dict also `keys`, of which the last  *)
(* may still wait for its value.                                           *)
CallRecord ==
  [kind : {"list", "dict"}, items : Seq(Value[MaxDepth]), keys : Seq(Seq(Byte))]

(* The k-th call decodes what is nested less deep; decode_dict has found   *)
(* its keys in strictly increasing order.                                  *)
CallOK(k) ==
  LET c == calls[k]
  IN /\ c.items \in Seq(Value[MaxDepth - k])
     /\ c.kind = "list" => c.keys = <<>>
     /\ c.kind = "dict" => Len(c.keys) - Len(c.items) \in {0, 1}
     /\ \A i, j \in DOMAIN c.keys : i < j => Less(c.keys[i], c.keys[j])

TypeOK ==
  /\ x \in Seq(Byte) /\ f \in Int
  /\ calls \in Seq(CallRecord) /\ Len(calls) <= MaxDepth
  /\ \A k \in DOMAIN calls : CallOK(k)
  /\ outcome \in {"reading", "ok", "ValueError", "RuntimeError"}
  /\ outcome = "ok" => r \in Value[MaxDepth]

Init ==
  /\ x \in Inputs /\ f = 0 /\ calls = <<>>
  /\ outcome = "reading" /\ r = <<>>

(* Python's x[i], x.index(c, i) and x[i:j]; negative indices count from    *)
(* the end.                                                                *)
FromStart(i) == IF i >= 0 THEN i ELSE IF i + Len(x) >= 0 THEN i + Len(x) ELSE 0

InBounds(i) == i \in -Len(x) .. Len(x) - 1

At(i) == x[(IF i < 0 THEN i + Len(x) ELSE i) + 1]

Found(c, i) == {j \in FromStart(i) .. Len(x) - 1 : x[j + 1] = c}

Index(c, i) == Min(Found(c, i))

Slice(i, j) ==
  SubSeq(x, FromStart(i) + 1, IF FromStart(j) < Len(x) THEN FromStart(j) ELSE Len(x))

(* Is there a character at i, one of cs?                                   *)
Reads(i, cs) == InBounds(i) /\ At(i) \in cs

(* decode_int: x[start : newf] is the number.                              *)
IntAllowed_LeadingZero(start, newf) == IsInt(Slice(start, newf))

IntAllowed(start, newf) ==
  /\ IsInt(Slice(start, newf))
  /\ ~(At(start) = Minus /\ At(start + 1) = 48)
  /\ ~(At(start) = 48 /\ newf # start + 1)

(* decode_string: is there a string at i, which one, and where it ends.    *)
IsString(i) ==
  LET colon == Index(Colon, i)
  IN /\ Found(Colon, i) # {}
     /\ IsInt(Slice(i, colon))
     /\ ~(At(i) = 48 /\ colon # i + 1)

StringEnd(i) == Index(Colon, i) + 1 + IntOf(Slice(i, Index(Colon, i)))

StringAt_OneShort(i) == Slice(Index(Colon, i) + 1, StringEnd(i) - 1)

StringAt(i) == Slice(Index(Colon, i) + 1, StringEnd(i))

-----------------------------------------------------------------------------
(* decode_dict is about to read a key or the end; decode_list or its       *)
(* caller about to read a value.                                           *)
AwaitsKey ==
  /\ calls # <<>> /\ Last(calls).kind = "dict"
  /\ Len(Last(calls).keys) = Len(Last(calls).items)

AwaitsEnd == calls # <<>> /\ (Last(calls).kind = "list" \/ AwaitsKey)

(* A key must be larger than the one before.                               *)
KeyAllowed_AnyOrder(k) == TRUE

KeyAllowed(k) ==
  Last(calls).keys # <<>> => Less(Last(Last(calls).keys), k)

(* What is at f, as far as the decoder accepts it.                         *)
ReadsInt ==
  /\ ~AwaitsKey /\ Reads(f, {CharI})
  /\ Found(CharE, f + 1) # {} /\ IntAllowed(f + 1, Index(CharE, f + 1))

ReadsString == ~AwaitsKey /\ Reads(f, Digit) /\ IsString(f)

ReadsCall == ~AwaitsKey /\ Reads(f, {CharL, CharD})

ReadsKey ==
  /\ AwaitsKey /\ InBounds(f) /\ ~Reads(f, {CharE})
  /\ IsString(f) /\ KeyAllowed(StringAt(f))

ReadsEnd == AwaitsEnd /\ Reads(f, {CharE})

(* v has been decoded, up to next, for the last call of cs or, if there is *)
(* none, for bdecode, which wants all of x to be used.                     *)
Return(cs, v, next) ==
  /\ f' = next
  /\ IF cs = <<>>
     THEN /\ calls' = <<>> /\ r' = v
          /\ outcome' = IF next = Len(x) THEN "ok" ELSE "ValueError"
     ELSE /\ calls' = [cs EXCEPT ![Len(cs)].items = Append(@, v)]
          /\ UNCHANGED <<outcome, r>>

DecodeInt ==
  LET newf == Index(CharE, f + 1)
  IN ReadsInt /\ Return(calls, [int |-> IntOf(Slice(f + 1, newf))], newf + 1)

DecodeString ==
  ReadsString /\ Return(calls, [str |-> StringAt(f)], StringEnd(f))

(* A call of decode_list or decode_dict.  The RuntimeError of a call too   *)
(* many passes through bdecode.                                            *)
Call ==
  /\ ReadsCall
  /\ IF Len(calls) = MaxDepth
     THEN outcome' = "RuntimeError" /\ UNCHANGED <<f, calls, r>>
     ELSE /\ calls' = Append(calls, [kind |-> IF At(f) = CharL THEN "list" ELSE "dict",
                                     items |-> <<>>, keys |-> <<>>])
          /\ f' = f + 1
          /\ UNCHANGED <<outcome, r>>

DecodeKey ==
  /\ ReadsKey
  /\ calls' = [calls EXCEPT ![Len(calls)].keys = Append(@, StringAt(f))]
  /\ f' = StringEnd(f)
  /\ UNCHANGED <<outcome, r>>

(* The list or dictionary a call returns.                                  *)
Collected(c) ==
  IF c.kind = "list"
  THEN [list |-> c.items]
  ELSE [dict |-> {<<c.keys[i], c.items[i]>> : i \in DOMAIN c.items}]

ReturnCollection == ReadsEnd /\ Return(Front(calls), Collected(Last(calls)), f + 1)

(* Whatever else is at f raises an IndexError, a KeyError or a ValueError, *)
(* which bdecode turns into a ValueError.                                  *)
Raise ==
  /\ ~(ReadsInt \/ ReadsString \/ ReadsCall \/ ReadsKey \/ ReadsEnd)
  /\ outcome' = "ValueError"
  /\ UNCHANGED <<f, calls, r>>

Next ==
  /\ outcome = "reading" /\ UNCHANGED x
  /\ DecodeInt \/ DecodeString \/ Call \/ DecodeKey \/ ReturnCollection \/ Raise

Spec == Init /\ [][Next]_vars

-----------------------------------------------------------------------------
(* Properties.                                                             *)

(* Whatever was encoded is decoded to the same value.                      *)
Codes == [v \in Values |-> Encode(v)]

RoundTrip ==
  \A v \in Values :
    outcome # "reading" /\ x = Codes[v] => outcome = "ok" /\ r = v

AllDigits(s) == \A i \in DOMAIN s : s[i] \in Digit

(* No number in x is written in a way only int() or long() understands:    *)
(* where x has a number before a ":" it is all digits, and between an "i"  *)
(* and an "e" at most a minus stands before them.                          *)
PlainNumbers ==
  \A i, j \in DOMAIN x :
    LET s == SubSeq(x, i, j)
    IN i <= j /\ j < Len(x) /\ IsInt(s) =>
         /\ x[j + 1] = Colon => AllDigits(s)
         /\ x[j + 1] = CharE /\ i > 1 /\ x[i - 1] = CharI =>
              AllDigits(s) \/ (s[1] = Minus /\ AllDigits(Tail(s)))

(* An accepted string is the encoding of the value it is decoded to, down  *)
(* to the byte, as long as its numbers are plain.  FileMeta relies on it:  *)
(* info_hash, by which the tracker knows the torrent, is the hash of the   *)
(* decoded info dictionary encoded again.                                  *)
SameBytes == outcome = "ok" /\ PlainNumbers => Encode(r) = x
=============================================================================
