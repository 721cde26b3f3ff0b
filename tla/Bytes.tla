------------------------------- MODULE Bytes --------------------------------
(***************************************************************************)
(* Byte strings and numbers in Python 2, as bencode.py uses them.  A byte  *)
(* is its ASCII code, a string a sequence of bytes.                        *)
(***************************************************************************)
EXTENDS Integers, SequencesExt

Byte == 0 .. 255

Digit == 48 .. 57           \* "0" to "9"
Minus == 45                 \* "-"
Sign == {43, Minus}         \* "+" and "-"
White == 9 .. 13 \cup {32}  \* blanks, tabs and the like
LongSuffix == {76, 108}     \* "L" and "l"

(* s < t for two strings: at the first place where they differ s has the   *)
(* smaller byte or has ended.                                              *)
Less(s, t) ==
  \E n \in DOMAIN t :
    /\ n <= Len(s) + 1
    /\ \A i \in 1 .. n - 1 : s[i] = t[i]
    /\ n <= Len(s) => s[n] < t[n]

-----------------------------------------------------------------------------

(* str of a natural number, and of an integer.                             *)
Decimal[n \in Nat] ==
  IF n < 10 THEN <<48 + n>> ELSE Append(Decimal[n \div 10], 48 + (n % 10))

Str(n) == IF n < 0 THEN <<Minus>> \o Decimal[-n] ELSE Decimal[n]

(* The number written by a string of digits.                               *)
NaturalOf(s) ==
  LET value[n \in 0 .. Len(s)] ==
        IF n = 0 THEN 0 ELSE 10 * value[n - 1] + (s[n] - 48)
  IN value[Len(s)]

DigitsAt(s) == {i \in DOMAIN s : s[i] \in Digit}

SignsAt(s) == {i \in DOMAIN s : s[i] \in Sign}

(* What int(s) accepts or, if it does not, long(s): digits in one piece,   *)
(* perhaps a sign before them, perhaps an l behind them, blanks in         *)
(* between.                                                                *)
IsInt(s) ==
  \E first, last \in DOMAIN s :
    /\ first <= last /\ DigitsAt(s) = first .. last
    /\ \A i, j \in SignsAt(s) : i = j
    /\ \A i \in DOMAIN s \ DigitsAt(s) :
         \/ s[i] \in White
         \/ s[i] \in Sign /\ i < first
         \/ s[i] \in LongSuffix /\ i = last + 1

IntOf(s) ==
  LET n == NaturalOf(SubSeq(s, Min(DigitsAt(s)), Max(DigitsAt(s))))
  IN IF \E i \in DOMAIN s : s[i] = Minus THEN -n ELSE n
=============================================================================
