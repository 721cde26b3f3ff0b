----------------------------- MODULE MCBencode ------------------------------
(***************************************************************************)
(* Module Bencode for TLC: a few values, and as inputs their encodings,    *)
(* everything one edit away from one of them, all short strings, and some  *)
(* strings of the test in bencode.py.                                      *)
(***************************************************************************)
EXTENDS Bencode

Ascii ==
  " " :> 32 @@ "+" :> 43 @@ "-" :> 45 @@ "0" :> 48 @@ "1" :> 49 @@ "2" :> 50 @@ "3" :> 51
  @@ "4" :> 52 @@ "5" :> 53 @@ "8" :> 56 @@ "9" :> 57 @@ ":" :> 58 @@ "a" :> 97 @@ "b" :> 98
  @@ "d" :> 100 @@ "e" :> 101 @@ "i" :> 105 @@ "l" :> 108 @@ "x" :> 120 @@ "y" :> 121

(* The byte string of a sequence of characters.                            *)
B(s) == [i \in DOMAIN s |-> Ascii[s[i]]]

I(n) == [int |-> n]

T(s) == [str |-> B(s)]

MCValues == {
  I(0), I(1), I(-1), I(10), I(-10), T(<<>>), T(<<"a">>), T(<<"e", "0">>),
  T(<<"0", "1", "a", "a", "a", "a", "a", "a", "a", "a", "l">>),
  [list |-> <<>>], [list |-> <<I(10), T(<<"l">>)>>],
  [list |-> << [list |-> <<I(1)>>], [dict |-> {}] >>],
  [dict |-> {<<B(<<"b">>), I(0)>>, <<B(<<"a">>), T(<<"a">>)>>}],
  [dict |-> {<< <<>>, [list |-> <<>>] >>, <<B(<<"a", "a">>), I(1)>>, <<B(<<"a">>), I(1)>>}],
  [dict |-> {<<B(<<"i">>), [dict |-> {<<B(<<"1">>), I(10)>>}]>>}]}

Edits == {Ascii[c] : c \in {" ", "-", "0", "1", "9", ":", "a", "b", "e", "i", "l", "d"}}

OneEdit(s) ==
  LET at(i, new, rest) == SubSeq(s, 1, i - 1) \o new \o SubSeq(s, rest, Len(s))
  IN {at(i, <<>>, i + 1) : i \in DOMAIN s}
       \cup {at(i, <<c>>, i + 1) : i \in DOMAIN s, c \in Edits}
       \cup {at(i, <<c>>, i) : i \in 1 .. Len(s) + 1, c \in Edits}

Tested == {
  B(<<"0", ":", "0", ":">>), B(<<"0", "2", ":", "x", "y">>), B(<<"i", "1", "2", "3">>),
  B(<<"d", "i", "1", "e", "0", ":", "e">>), B(<<"9", "9", "9", "9", ":", "x">>),
  B(<<"d", "1", ":", "b", "0", ":", "1", ":", "a", "0", ":", "e">>),
  B(<<"d", "1", ":", "a", "0", ":", "1", ":", "a", "0", ":", "e">>)}

(* A key whose length is negative: decode_dict goes back.                  *)
GoingBack ==
  B(<<"d", "1", ":", "a", "1", ":", "i", "-", "1", "5", ":", "b", "i", "5", "e", "e">>)

Short ==
  {B(s) : s \in UNION {[1 .. n -> {"-", "0", "1", ":", "e", "i", "l", "d"}] : n \in 0 .. 4}}

MCInputs ==
  LET codes == {Encode(v) : v \in MCValues}
  IN codes \cup UNION {OneEdit(s) : s \in codes} \cup Short \cup Tested \cup {GoingBack}
=============================================================================
