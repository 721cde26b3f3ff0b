--------------------------- MODULE Bencode_proofs ---------------------------
(***************************************************************************)
(* What holds of module Bencode for every set of values, every set of      *)
(* inputs and every depth: the types, the round trip and, for inputs whose *)
(* numbers are plain, the same bytes.                                      *)
(*                                                                         *)
(* Both long theorems say where in the input the text of each call under   *)
(* way stands (Laid).  SameBytes then follows because every step lays the  *)
(* code of what it reads behind these texts; RoundTrip because the code of *)
(* a value, from every such place on, lets the decoder take only one step, *)
(* the one towards that value (Doing).                                     *)
(*                                                                         *)
(* The library's induction theorems take an operator as a parameter, which *)
(* the provers cannot instantiate; Steps and StrongSteps below say the     *)
(* same of a set.                                                          *)
(***************************************************************************)
EXTENDS Bencode, SequenceTheorems, FiniteSetTheorems, WellFoundedInduction, TLAPS

-----------------------------------------------------------------------------
(* Induction over the natural numbers, for sets.                           *)

(* A set of natural numbers has a least element.                           *)
LEMMA Smallest ==
  ASSUME NEW T, T \subseteq Nat, T # {}
  PROVE  \E n \in T : \A m \in T : n <= m
<1> DEFINE Before == {ss \in Nat \X Nat : ss[1] < ss[2]}
<1>1. IsWellFoundedOn(Before, Nat)
  BY NatLessThanWellFounded, Zenon DEF OpToRel
<1>2. PICK n \in T : \A m \in T : <<m, n>> \notin Before
  BY <1>1, WFMin, Zenon
<1>3. ASSUME NEW m \in T PROVE n <= m
  <2>1. n \in Nat /\ m \in Nat /\ <<m, n>> \in Nat \X Nat
    OBVIOUS
  <2>2. ~ (<<m, n>>[1] < <<m, n>>[2])
    BY <1>2, <2>1
  <2> QED
    BY <2>1, <2>2
<1> QED
  BY <1>3

(* Induction from n to n + 1.                                              *)
LEMMA Steps ==
  ASSUME NEW T, 0 \in T, \A n \in Nat : n \in T => n + 1 \in T
  PROVE  \A n \in Nat : n \in T
<1> SUFFICES ASSUME Nat \ T # {} PROVE FALSE
  OBVIOUS
<1>1. PICK n \in Nat \ T : \A m \in Nat \ T : n <= m
  BY Smallest
<1>2. n # 0 /\ n - 1 \in Nat /\ (n - 1) + 1 = n
  OBVIOUS
<1>3. n - 1 \in T
  BY <1>1, <1>2
<1> QED
  BY <1>2, <1>3

(* Induction from all smaller numbers to n.                                *)
LEMMA StrongSteps ==
  ASSUME NEW T, \A n \in Nat : (\A m \in Nat : m < n => m \in T) => n \in T
  PROVE  \A n \in Nat : n \in T
<1> SUFFICES ASSUME Nat \ T # {} PROVE FALSE
  OBVIOUS
<1>1. PICK n \in Nat \ T : \A m \in Nat \ T : n <= m
  BY Smallest
<1>2. \A m \in Nat : m < n => m \in T
  BY <1>1
<1> QED
  BY <1>2

-----------------------------------------------------------------------------
(* Numbers and their digits.                                               *)

(* Division by ten.                                                        *)
LEMMA ByTen ==
  ASSUME NEW n \in Nat
  PROVE  /\ n \div 10 \in Nat /\ n % 10 \in 0 .. 9
         /\ n = 10 * (n \div 10) + (n % 10)
         /\ n >= 10 => n \div 10 < n /\ n \div 10 > 0
  OBVIOUS

(* The digits of n from those of the tenth part, as g gives them.          *)
DigitsStep(g, n) == IF n < 10 THEN <<48 + n>> ELSE Append(g[n \div 10], 48 + (n % 10))

(* The right-hand side of Decimal's equation.                              *)
LEMMA DecimalDef ==
  \A n \in Nat : Decimal[n] = DigitsStep(Decimal, n)
<1> DEFINE Upto(g, n) == g = [m \in 0 .. n |-> DigitsStep(g, m)]
<1>1. ASSUME NEW n \in Nat, NEW g, Upto(g, n), NEW m \in 0 .. n
      PROVE  g[m] = DigitsStep(g, m)
  BY <1>1
<1>2. ASSUME NEW n \in Nat, NEW k \in Nat, NEW g, NEW h, Upto(g, n), Upto(h, k)
      PROVE  \A m \in Nat : m <= n /\ m <= k => g[m] = h[m]
  <2> DEFINE T == {m \in Nat : m <= n /\ m <= k => g[m] = h[m]}
  <2>1. ASSUME NEW m \in Nat, \A l \in Nat : l < m => l \in T PROVE m \in T
    <3> SUFFICES ASSUME m <= n, m <= k PROVE g[m] = h[m]
      OBVIOUS
    <3>1. g[m] = DigitsStep(g, m) /\ h[m] = DigitsStep(h, m)
      <4>1. m \in 0 .. n /\ m \in 0 .. k
        OBVIOUS
      <4> HIDE DEF Upto
      <4> QED
        BY <1>1, <1>2, <4>1
    <3>2. m >= 10 => g[m \div 10] = h[m \div 10]
      BY <2>1, ByTen
    <3> QED
      BY <3>1, <3>2 DEF DigitsStep
  <2> HIDE DEF T
  <2>2. \A m \in Nat : m \in T
    BY <2>1, StrongSteps
  <2> QED
    BY <2>2 DEF T
<1>3. \A n \in Nat : \E g : Upto(g, n)
  <2> DEFINE T == {n \in Nat : \E g : Upto(g, n)}
  <2>1. 0 \in T
    <3> DEFINE g == [m \in 0 .. 0 |-> <<48 + m>>]
    <3>1. Upto(g, 0)
      BY DEF DigitsStep
    <3> QED
      BY <3>1
  <2>2. ASSUME NEW n \in Nat, n \in T PROVE n + 1 \in T
    <3>1. PICK g : Upto(g, n)
      BY <2>2
    <3> DEFINE h == [m \in 0 .. n + 1 |-> IF m = n + 1 THEN DigitsStep(g, m) ELSE g[m]]
    <3>2. ASSUME NEW m \in 0 .. n + 1 PROVE h[m] = DigitsStep(h, m)
      <4>1. h[m] = DigitsStep(g, m)
        BY <1>1, <3>1
      <4>2. m >= 10 => m \div 10 \in 0 .. n
        BY ByTen
      <4>3. m >= 10 => h[m \div 10] = g[m \div 10]
        BY <4>2
      <4> QED
        BY <4>1, <4>3 DEF DigitsStep
    <3>3. Upto(h, n + 1)
      BY <3>2
    <3> HIDE DEF Upto, h
    <3>4. \E k : Upto(k, n + 1)
      BY <3>3
    <3> QED
      BY <3>4
  <2> HIDE DEF T
  <2>3. \A n \in Nat : n \in T
    BY <2>1, <2>2, Steps
  <2> QED
    BY <2>3 DEF T
<1> DEFINE G == [n \in Nat |-> CHOOSE g : Upto(g, n)]
           F == [n \in Nat |-> G[n][n]]
<1>4. ASSUME NEW n \in Nat PROVE Upto(G[n], n)
  <2> HIDE DEF Upto
  <2>1. \E g : Upto(g, n)
    BY <1>3
  <2>2. Upto(CHOOSE g : Upto(g, n), n)
    BY <2>1, Zenon
  <2> QED
    BY <2>2
<1>5. ASSUME NEW n \in Nat PROVE F[n] = DigitsStep(F, n)
  <2>1. F[n] = DigitsStep(G[n], n)
    <3> HIDE DEF G, Upto
    <3>1. F[n] = G[n][n] /\ n \in 0 .. n
      OBVIOUS
    <3>2. G[n][n] = DigitsStep(G[n], n)
      BY <1>4, <1>1, <3>1
    <3> QED
      BY <3>1, <3>2
  <2>2. n >= 10 => F[n \div 10] = G[n][n \div 10]
    <3> HIDE DEF G, Upto
    <3> SUFFICES ASSUME n >= 10 PROVE F[n \div 10] = G[n][n \div 10]
      OBVIOUS
    <3>1. n \div 10 \in Nat /\ n \div 10 <= n
      BY ByTen
    <3>2. Upto(G[n], n) /\ Upto(G[n \div 10], n \div 10)
      BY <1>4, <3>1
    <3>3. G[n][n \div 10] = G[n \div 10][n \div 10]
      BY <1>2, <3>1, <3>2
    <3> QED
      BY <3>1, <3>3
  <2> HIDE DEF F
  <2> QED
    BY <2>1, <2>2 DEF DigitsStep
<1>6. F = [n \in Nat |-> DigitsStep(F, n)]
  <2>1. F = [n \in Nat |-> F[n]]
    OBVIOUS
  <2> HIDE DEF F
  <2> QED
    BY <1>5, <2>1
<1> HIDE DEF F
<1> DEFINE Eq(g) == g = [n \in Nat |-> DigitsStep(g, n)]
<1>7. Decimal = CHOOSE g : Eq(g)
  BY DEF Decimal, DigitsStep
<1>8. Eq(Decimal)
  <2> HIDE DEF Eq
  <2>1. \E g : Eq(g)
    BY <1>6 DEF Eq
  <2> QED
    BY <1>7, <2>1, Zenon
<1> QED
  BY <1>8

-----------------------------------------------------------------------------
(* Numbers and their digits.                                               *)

(* The two cases of Decimal.                                               *)
LEMMA DecimalRule ==
  ASSUME NEW n \in Nat
  PROVE  /\ n < 10 => Decimal[n] = <<48 + n>>
         /\ n >= 10 => Decimal[n] = Append(Decimal[n \div 10], 48 + (n % 10))
<1>1. Decimal[n] = DigitsStep(Decimal, n)
  BY DecimalDef
<1>2. CASE n < 10
  BY <1>1, <1>2 DEF DigitsStep
<1>3. CASE n >= 10
  BY <1>1, <1>3 DEF DigitsStep
<1> QED
  BY <1>2, <1>3

(* Digits as str writes them: at least one, and no zero in front of others.*)
Canonical(s) == s \in Seq(Digit) /\ s # <<>> /\ (s[1] = 48 => Len(s) = 1)

(* str writes no zero in front.                                            *)
LEMMA DecimalCanonical ==
  ASSUME NEW n \in Nat
  PROVE  Canonical(Decimal[n]) /\ (n > 0 => Decimal[n][1] # 48)
<1> DEFINE T == {m \in Nat : Canonical(Decimal[m]) /\ (m > 0 => Decimal[m][1] # 48)}
<1>1. ASSUME NEW m \in Nat, \A l \in Nat : l < m => l \in T PROVE m \in T
  <2>1. CASE m < 10
    <3>1. Decimal[m] = <<48 + m>>
      BY <2>1, DecimalRule
    <3>2. 48 + m \in Digit
      BY <2>1 DEF Digit
    <3>3. <<48 + m>> \in Seq(Digit) /\ <<48 + m>> # <<>> /\ Len(<<48 + m>>) = 1
      BY <3>2
    <3>4. <<48 + m>>[1] = 48 + m
      OBVIOUS
    <3>5. Canonical(<<48 + m>>) /\ (m > 0 => <<48 + m>>[1] # 48)
      BY <3>3, <3>4 DEF Canonical
    <3> QED
      BY <3>1, <3>5
  <2>2. CASE m >= 10
    <3>0. Decimal[m] = Append(Decimal[m \div 10], 48 + (m % 10))
      BY <2>2, DecimalRule
    <3> DEFINE l == m \div 10
               d == 48 + (m % 10)
    <3>1. l \in Nat /\ l < m /\ l > 0 /\ d \in Digit
      BY <2>2, ByTen DEF Digit
    <3>2. Decimal[m] = Append(Decimal[l], d)
      BY <3>0
    <3>3. Canonical(Decimal[l]) /\ Decimal[l][1] # 48
      BY <1>1, <3>1
    <3> HIDE DEF l, d
    <3>4. /\ Append(Decimal[l], d) \in Seq(Digit) /\ Append(Decimal[l], d) # <<>>
          /\ Append(Decimal[l], d)[1] = Decimal[l][1]
      BY <3>1, <3>3, AppendProperties DEF Canonical
    <3> QED
      BY <3>2, <3>3, <3>4 DEF Canonical
  <2> QED
    BY <2>1, <2>2
<1> HIDE DEF T
<1>2. \A m \in Nat : m \in T
  BY <1>1, StrongSteps
<1> QED
  BY <1>2 DEF T

(* The numbers written by the first digits of s, first none.               *)
Numbers(g, s) ==
  /\ g[0] = 0
  /\ \A n \in 1 .. Len(s) : g[n] = 10 * g[n - 1] + (s[n] - 48)
  /\ NaturalOf(s) = g[Len(s)]

(* The recursive function in NaturalOf exists.                             *)
LEMMA NaturalLoop ==
  ASSUME NEW s, Len(s) \in Nat
  PROVE  \E g : Numbers(g, s)
<1> DEFINE Body(g, i) == IF i = 0 THEN 0 ELSE 10 * g[i - 1] + (s[i] - 48)
           Upto(g, n) == g = [i \in 0 .. n |-> Body(g, i)]
<1>1. \A n \in Nat : \E g : Upto(g, n)
  <2> DEFINE T == {n \in Nat : \E g : Upto(g, n)}
  <2>1. 0 \in T
    <3>1. Upto([i \in 0 .. 0 |-> 0], 0)
      OBVIOUS
    <3> QED
      BY <3>1
  <2>2. ASSUME NEW n \in Nat, n \in T PROVE n + 1 \in T
    <3>1. PICK g : Upto(g, n)
      BY <2>2
    <3> DEFINE h == [i \in 0 .. n + 1 |-> IF i = n + 1 THEN Body(g, i) ELSE g[i]]
    <3>2. ASSUME NEW i \in 0 .. n + 1 PROVE h[i] = Body(h, i)
      <4>1. i # 0 => h[i - 1] = g[i - 1]
        OBVIOUS
      <4>2. h[i] = Body(g, i)
        BY <3>1
      <4> QED
        BY <4>1, <4>2
    <3>3. Upto(h, n + 1)
      BY <3>2
    <3> HIDE DEF Upto, h
    <3>4. \E k : Upto(k, n + 1)
      BY <3>3
    <3> QED
      BY <3>4
  <2> HIDE DEF T
  <2>3. \A n \in Nat : n \in T
    BY <2>1, <2>2, Steps
  <2> QED
    BY <2>3 DEF T
<1> DEFINE g == CHOOSE h : Upto(h, Len(s))
<1>2. Upto(g, Len(s))
  <2> HIDE DEF Upto
  <2> QED
    BY <1>1, Zenon
<1>3. NaturalOf(s) = g[Len(s)]
  BY DEF NaturalOf
<1> HIDE DEF g
<1>4. \A i \in 0 .. Len(s) : g[i] = Body(g, i)
  BY <1>2
<1>5. Numbers(g, s)
  BY <1>3, <1>4 DEF Numbers
<1> QED
  BY <1>5

(* Only one sequence of numbers belongs to the digits.                     *)
LEMMA NumbersAgree ==
  ASSUME NEW s \in Seq(Digit), NEW t \in Seq(Digit), NEW g, NEW h,
         Numbers(g, s), Numbers(h, t), Len(s) <= Len(t),
         \A i \in 1 .. Len(s) : s[i] = t[i]
  PROVE  \A n \in 0 .. Len(s) : g[n] = h[n] /\ g[n] \in Nat
<1> DEFINE T == {n \in Nat : n <= Len(s) => g[n] = h[n] /\ g[n] \in Nat}
<1>1. 0 \in T
  BY DEF Numbers
<1>2. ASSUME NEW n \in Nat, n \in T PROVE n + 1 \in T
  <2> SUFFICES ASSUME n + 1 <= Len(s) PROVE g[n + 1] = h[n + 1] /\ g[n + 1] \in Nat
    OBVIOUS
  <2>1. g[n] = h[n] /\ g[n] \in Nat
    BY <1>2
  <2>2. n + 1 \in 1 .. Len(s) /\ n + 1 \in 1 .. Len(t) /\ (n + 1) - 1 = n
    OBVIOUS
  <2>3. g[n + 1] = 10 * g[n] + (s[n + 1] - 48) /\ h[n + 1] = 10 * h[n] + (t[n + 1] - 48)
    BY <2>2 DEF Numbers
  <2>4. s[n + 1] \in Digit /\ s[n + 1] = t[n + 1]
    BY <2>2
  <2>5. \A a \in Nat, d \in Digit : 10 * a + (d - 48) \in Nat
    BY DEF Digit
  <2> QED
    BY <2>1, <2>3, <2>4, <2>5
<1> HIDE DEF T
<1>3. \A n \in Nat : n \in T
  BY <1>1, <1>2, Steps
<1> QED
  BY <1>3 DEF T

(* The number written by no digits, and by one more digit.                 *)
LEMMA NaturalOfAppend ==
  ASSUME NEW s \in Seq(Digit), NEW d \in Digit
  PROVE  /\ NaturalOf(<<>>) = 0
         /\ NaturalOf(s) \in Nat
         /\ NaturalOf(Append(s, d)) = 10 * NaturalOf(s) + (d - 48)
<1>1. PICK e : Numbers(e, <<>>)
  BY NaturalLoop
<1>2. PICK g : Numbers(g, s)
  BY NaturalLoop
<1> DEFINE t == Append(s, d)
<1>3. t \in Seq(Digit) /\ Len(t) = Len(s) + 1 /\ t[Len(s) + 1] = d
      /\ \A i \in 1 .. Len(s) : s[i] = t[i]
  OBVIOUS
<1> HIDE DEF t
<1>4. PICK h : Numbers(h, t)
  BY <1>3, NaturalLoop
<1>5. \A n \in 0 .. Len(s) : g[n] = h[n] /\ g[n] \in Nat
  BY <1>2, <1>3, <1>4, NumbersAgree
<1>6. h[Len(s) + 1] = 10 * h[Len(s)] + (d - 48)
  BY <1>3, <1>4 DEF Numbers
<1>7. NaturalOf(<<>>) = 0
  BY <1>1 DEF Numbers
<1>8. Len(s) \in 0 .. Len(s) /\ NaturalOf(s) = g[Len(s)] /\ NaturalOf(t) = h[Len(s) + 1]
  BY <1>2, <1>3, <1>4 DEF Numbers
<1> QED
  BY <1>5, <1>6, <1>7, <1>8 DEF t

(* The number written by one digit.                                        *)
LEMMA NaturalOfDigit ==
  ASSUME NEW d \in Digit
  PROVE  NaturalOf(<<d>>) = d - 48
<1>1. <<>> \in Seq(Digit) /\ Append(<<>>, d) = <<d>>
  OBVIOUS
<1>2. NaturalOf(<<>>) = 0 /\ NaturalOf(<<d>>) = 10 * NaturalOf(<<>>) + (d - 48)
  BY <1>1, NaturalOfAppend
<1> QED
  BY <1>2 DEF Digit

(* int gives back what str was given.                                      *)
LEMMA NaturalOfDecimal ==
  ASSUME NEW n \in Nat
  PROVE  NaturalOf(Decimal[n]) = n
<1> DEFINE T == {m \in Nat : NaturalOf(Decimal[m]) = m}
<1>1. ASSUME NEW m \in Nat, \A l \in Nat : l < m => l \in T PROVE m \in T
  <2>1. CASE m < 10
    <3>1. Decimal[m] = <<48 + m>> /\ 48 + m \in Digit
      BY <2>1, DecimalRule DEF Digit
    <3>2. NaturalOf(Decimal[m]) = (48 + m) - 48
      BY <3>1, NaturalOfDigit
    <3> QED
      BY <3>2
  <2>2. CASE m >= 10
    <3>0. Decimal[m] = Append(Decimal[m \div 10], 48 + (m % 10))
      BY <2>2, DecimalRule
    <3> DEFINE l == m \div 10
               d == 48 + (m % 10)
    <3>1. l \in Nat /\ l < m /\ d \in Digit /\ m = 10 * l + (d - 48)
      BY <2>2, ByTen DEF Digit
    <3>2. Decimal[m] = Append(Decimal[l], d)
      BY <3>0
    <3> HIDE DEF l, d
    <3>3. NaturalOf(Decimal[l]) = l
      BY <1>1, <3>1
    <3>4. Decimal[l] \in Seq(Digit)
      BY <3>1, DecimalCanonical DEF Canonical
    <3>5. NaturalOf(Append(Decimal[l], d)) = 10 * l + (d - 48)
      BY <3>1, <3>3, <3>4, NaturalOfAppend
    <3> QED
      BY <3>1, <3>2, <3>5
  <2> QED
    BY <2>1, <2>2
<1> HIDE DEF T
<1>2. \A m \in Nat : m \in T
  BY <1>1, StrongSteps
<1> QED
  BY <1>2 DEF T

(* str writes the digits a number was read from, unless there was a zero   *)
(* in front.                                                               *)
LEMMA DecimalOfNatural ==
  ASSUME NEW s, Canonical(s)
  PROVE  Decimal[NaturalOf(s)] = s
<1> DEFINE Right(t) == Decimal[NaturalOf(t)] = t /\ (t[1] # 48 => NaturalOf(t) > 0)
           T == {n \in Nat : \A t \in Seq(Digit) : Len(t) = n + 1 /\ Canonical(t) => Right(t)}
<1>1. 0 \in T
  <2> SUFFICES ASSUME NEW t \in Seq(Digit), Len(t) = 1 PROVE Right(t)
    OBVIOUS
  <2>1. t = <<t[1]>> /\ t[1] \in Digit
    <3>1. t[1] \in Digit
      BY ElementOfSeq
    <3>2. <<t[1]>> \in Seq(Digit) /\ Len(<<t[1]>>) = 1 /\ <<t[1]>>[1] = t[1]
      BY <3>1
    <3> QED
      BY <3>1, <3>2, SeqEqual
  <2>2. NaturalOf(t) = t[1] - 48
    BY <2>1, NaturalOfDigit
  <2>3. t[1] - 48 \in 0 .. 9 /\ 48 + (t[1] - 48) = t[1]
    BY <2>1 DEF Digit
  <2>4. Decimal[t[1] - 48] = <<t[1]>>
    <3> DEFINE d == t[1] - 48
    <3>1. d \in Nat /\ d < 10 /\ 48 + d = t[1]
      BY <2>3
    <3> HIDE DEF d
    <3>2. Decimal[d] = <<48 + d>>
      BY <3>1, DecimalRule
    <3> QED
      BY <3>1, <3>2 DEF d
  <2>5. t[1] # 48 => t[1] - 48 > 0
    BY <2>3
  <2> QED
    BY <2>1, <2>2, <2>4, <2>5
<1>2. ASSUME NEW n \in Nat, n \in T PROVE n + 1 \in T
  <2> SUFFICES ASSUME NEW t \in Seq(Digit), Len(t) = n + 2, Canonical(t) PROVE Right(t)
    OBVIOUS
  <2>1. PICK u \in Seq(Digit), d \in Digit : t = Append(u, d)
    BY SequenceEmptyOrAppend DEF Canonical
  <2>2. Len(u) = n + 1 /\ u # <<>> /\ u[1] = t[1] /\ t[1] # 48
    BY <2>1, AppendProperties DEF Canonical
  <2>3. Canonical(u)
    BY <2>2 DEF Canonical
  <2>4. Right(u)
    BY <1>2, <2>2, <2>3
  <2> DEFINE m == NaturalOf(u)
  <2>5. m \in Nat /\ NaturalOf(t) = 10 * m + (d - 48)
    BY <2>1, NaturalOfAppend
  <2>6. m > 0 /\ Decimal[m] = u
    BY <2>2, <2>4
  <2> HIDE DEF m
  <2> DEFINE k == 10 * m + (d - 48)
  <2>7. /\ k \in Nat /\ k >= 10 /\ k > 0
        /\ k \div 10 = m /\ 48 + (k % 10) = d
    <3> DEFINE e == d - 48
    <3>1. e \in 0 .. 9 /\ d = 48 + e /\ k = 10 * m + e
      BY DEF Digit
    <3> HIDE DEF e, k
    <3>2. k \in Nat /\ k >= 10 /\ k > 0
      BY <2>5, <2>6, <3>1
    <3>3. k \div 10 = m
      BY <2>5, <3>1, SMTT(30)
    <3>4. k % 10 = e
      BY <2>5, <3>1, SMTT(30)
    <3> QED
      BY <3>1, <3>2, <3>3, <3>4
  <2> HIDE DEF k
  <2>8. Decimal[k] = Append(Decimal[k \div 10], 48 + (k % 10))
    BY <2>7, DecimalRule
  <2>9. Decimal[k] = t
    BY <2>1, <2>6, <2>7, <2>8
  <2> QED
    BY <2>5, <2>7, <2>9 DEF k
<1> HIDE DEF T
<1>3. \A n \in Nat : n \in T
  BY <1>1, <1>2, Steps
<1>4. s \in Seq(Digit) /\ Len(s) - 1 \in Nat /\ Len(s) = (Len(s) - 1) + 1
  BY DEF Canonical
<1> QED
  BY <1>3, <1>4 DEF T

-----------------------------------------------------------------------------
(* int and str of a number.                                                *)

(* Every byte of a string of digits or of str's result.                    *)
LEMMA Characters ==
  /\ Digit \subseteq Byte /\ Minus \in Byte
  /\ Minus \notin Digit /\ Colon \notin Digit \cup {Minus} /\ CharE \notin Digit \cup {Minus}
  /\ CharI \notin Digit /\ CharL \notin Digit /\ CharD \notin Digit
  /\ {Colon, CharD, CharE, CharI, CharL} \subseteq Byte
  BY DEF Digit, Byte, Minus, Colon, CharD, CharE, CharI, CharL

(* The least and the greatest element of an interval.                      *)
LEMMA MinMaxInterval ==
  ASSUME NEW a \in Int, NEW b \in Int, a <= b
  PROVE  Min(a .. b) = a /\ Max(a .. b) = b
<1>1. a \in a .. b /\ b \in a .. b /\ \A c \in a .. b : a <= c /\ c <= b
  OBVIOUS
<1>2. \A c \in a .. b : (\A e \in a .. b : c <= e) => c = a
  OBVIOUS
<1>3. \A c \in a .. b : (\A e \in a .. b : c >= e) => c = b
  OBVIOUS
<1>4. Min(a .. b) = a
  BY <1>1, <1>2 DEF Min
<1>5. Max(a .. b) = b
  BY <1>1, <1>3 DEF Max
<1> QED
  BY <1>4, <1>5

(* int of digits alone.                                                    *)
LEMMA IntOfDigits ==
  ASSUME NEW s \in Seq(Digit), s # <<>>
  PROVE  IsInt(s) /\ IntOf(s) = NaturalOf(s)
<1>1. Len(s) \in Nat /\ Len(s) > 0 /\ DOMAIN s = 1 .. Len(s)
  OBVIOUS
<1>2. \A i \in 1 .. Len(s) : s[i] \in Digit /\ s[i] \notin Sign /\ s[i] # Minus
  <2>1. \A i \in 1 .. Len(s) : s[i] \in Digit
    BY ElementOfSeq
  <2> QED
    BY <2>1 DEF Digit, Sign, Minus
<1>3. DigitsAt(s) = 1 .. Len(s) /\ SignsAt(s) = {}
  BY <1>1, <1>2 DEF DigitsAt, SignsAt
<1>4. IsInt(s)
  <2>1. 1 \in DOMAIN s /\ Len(s) \in DOMAIN s /\ 1 <= Len(s)
    BY <1>1
  <2> QED
    BY <1>1, <1>3, <2>1 DEF IsInt
<1>5. Min(DigitsAt(s)) = 1 /\ Max(DigitsAt(s)) = Len(s)
  BY <1>1, <1>3, MinMaxInterval
<1>6. SubSeq(s, 1, Len(s)) = s
  BY SubSeqFull
<1>7. ~ \E i \in DOMAIN s : s[i] = Minus
  BY <1>1, <1>2
<1> QED
  BY <1>4, <1>5, <1>6, <1>7 DEF IntOf

(* int of digits after a minus.                                            *)
LEMMA IntOfMinus ==
  ASSUME NEW t \in Seq(Digit), t # <<>>
  PROVE  IsInt(<<Minus>> \o t) /\ IntOf(<<Minus>> \o t) = -NaturalOf(t)
<1> DEFINE s == <<Minus>> \o t
<1>1. Len(t) \in Nat /\ Len(t) > 0
  OBVIOUS
<1>2. /\ <<Minus>> \in Seq(Byte) /\ t \in Seq(Byte)
      /\ Len(<<Minus>>) = 1 /\ <<Minus>>[1] = Minus
  <2>1. t \in Seq(Byte)
    BY Characters, SeqMonotonic
  <2> QED
    BY <2>1, Characters
<1>3. /\ s \in Seq(Byte) /\ Len(s) = Len(t) + 1 /\ DOMAIN s = 1 .. Len(t) + 1
      /\ \A i \in 1 .. Len(t) + 1 : s[i] = IF i = 1 THEN Minus ELSE t[i - 1]
  <2>1. /\ s \in Seq(Byte) /\ Len(s) = 1 + Len(t)
        /\ \A i \in 1 .. 1 + Len(t) : s[i] = IF i <= 1 THEN <<Minus>>[i] ELSE t[i - 1]
    BY <1>2, ConcatProperties
  <2> QED
    BY <1>1, <1>2, <2>1
<1> HIDE DEF s
<1>4. \A i \in 1 .. Len(t) + 1 :
        IF i = 1 THEN s[i] = Minus ELSE s[i] \in Digit
  <2>1. \A i \in 1 .. Len(t) : t[i] \in Digit
    BY ElementOfSeq
  <2>2. \A i \in 1 .. Len(t) + 1 : i # 1 => i - 1 \in 1 .. Len(t)
    BY <1>1
  <2> QED
    BY <1>3, <2>1, <2>2
<1>5. DigitsAt(s) = 2 .. Len(t) + 1
  <2>1. \A i \in 2 .. Len(t) + 1 : i \in 1 .. Len(t) + 1 /\ i # 1
    BY <1>1
  <2>2. \A i \in 1 .. Len(t) + 1 : i = 1 \/ i \in 2 .. Len(t) + 1
    BY <1>1
  <2> QED
    BY <1>3, <1>4, <2>1, <2>2, Characters DEF DigitsAt
<1>6. SignsAt(s) = {1}
  <2>1. 1 \in DOMAIN s /\ s[1] = Minus /\ Minus \in Sign
    BY <1>1, <1>3 DEF Sign
  <2>2. \A d \in Digit : d \notin Sign
    BY DEF Digit, Sign, Minus
  <2> QED
    BY <1>3, <1>4, <2>1, <2>2 DEF SignsAt
<1>7. IsInt(s)
  <2>1. 2 \in DOMAIN s /\ Len(t) + 1 \in DOMAIN s /\ 2 <= Len(t) + 1
    BY <1>1, <1>3
  <2>2. \A i \in DOMAIN s \ DigitsAt(s) : s[i] \in Sign /\ i < 2
    <3>1. \A i \in 1 .. Len(t) + 1 : i = 1 \/ i \in 2 .. Len(t) + 1
      BY <1>1
    <3> QED
      BY <1>3, <1>4, <1>5, <3>1 DEF Sign
  <2> QED
    BY <1>5, <1>6, <2>1, <2>2 DEF IsInt
<1>8. Min(DigitsAt(s)) = 2 /\ Max(DigitsAt(s)) = Len(t) + 1
  BY <1>1, <1>5, MinMaxInterval
<1>9. SubSeq(s, 2, Len(t) + 1) = t
  <2>1. \A i \in 2 .. Len(t) + 1 : s[i] \in Byte
    BY <1>1, <1>3, ElementOfSeq
  <2>2. /\ SubSeq(s, 2, Len(t) + 1) \in Seq(Byte)
        /\ Len(SubSeq(s, 2, Len(t) + 1)) = Len(t)
        /\ \A i \in 1 .. Len(t) : SubSeq(s, 2, Len(t) + 1)[i] = s[i + 1]
    <3>1. /\ SubSeq(s, 2, Len(t) + 1) \in Seq(Byte)
          /\ Len(SubSeq(s, 2, Len(t) + 1)) = IF 2 <= Len(t) + 1 THEN (Len(t) + 1) - 2 + 1 ELSE 0
          /\ \A i \in 1 .. (Len(t) + 1) - 2 + 1 : SubSeq(s, 2, Len(t) + 1)[i] = s[2 + i - 1]
      BY <1>1, <2>1, SubSeqProperties
    <3>2. (Len(t) + 1) - 2 + 1 = Len(t) /\ \A i \in Int : 2 + i - 1 = i + 1
      BY <1>1
    <3> QED
      BY <1>1, <3>1, <3>2
  <2>3. \A i \in 1 .. Len(t) : i + 1 \in 1 .. Len(t) + 1 /\ i + 1 # 1 /\ (i + 1) - 1 = i
    BY <1>1
  <2>4. \A i \in 1 .. Len(t) : SubSeq(s, 2, Len(t) + 1)[i] = t[i]
    BY <1>3, <2>2, <2>3
  <2> QED
    BY <1>2, <2>2, <2>4, SeqEqual
<1>10. \E i \in DOMAIN s : s[i] = Minus
  BY <1>1, <1>3
<1> QED
  BY <1>7, <1>8, <1>9, <1>10 DEF IntOf, s

(* What str returns: int gives the number back, and decode_int's checks    *)
(* of the first characters let it pass.                                    *)
LEMMA StrOfInt ==
  ASSUME NEW n \in Int
  PROVE  /\ Str(n) \in Seq(Byte) /\ Len(Str(n)) > 0
         /\ \A i \in DOMAIN Str(n) : Str(n)[i] \in Digit \cup {Minus}
         /\ IsInt(Str(n)) /\ IntOf(Str(n)) = n
         /\ Str(n)[1] = 48 => Len(Str(n)) = 1
         /\ Str(n)[1] = Minus => Len(Str(n)) > 1 /\ Str(n)[2] # 48
<1>1. CASE n >= 0
  <2>1. n \in Nat /\ Str(n) = Decimal[n]
    BY <1>1 DEF Str
  <2>2. Canonical(Str(n)) /\ NaturalOf(Str(n)) = n
    BY <2>1, DecimalCanonical, NaturalOfDecimal
  <2>3. Str(n) \in Seq(Digit) /\ Str(n) # <<>> /\ (Str(n)[1] = 48 => Len(Str(n)) = 1)
    BY <2>2 DEF Canonical
  <2>4. IsInt(Str(n)) /\ IntOf(Str(n)) = n
    BY <2>2, <2>3, IntOfDigits
  <2>5. Str(n) \in Seq(Byte)
    BY <2>3, Characters, SeqMonotonic
  <2>6. \A i \in DOMAIN Str(n) : Str(n)[i] \in Digit
    BY <2>3, ElementOfSeq, LenProperties
  <2>7. Len(Str(n)) > 0 /\ 1 \in DOMAIN Str(n)
    BY <2>3
  <2>8. Str(n)[1] # Minus
    BY <2>6, <2>7, Characters
  <2> QED
    BY <2>3, <2>4, <2>5, <2>6, <2>7, <2>8
<1>2. CASE n < 0
  <2> DEFINE t == Decimal[-n]
  <2>1. -n \in Nat /\ -n > 0 /\ Str(n) = <<Minus>> \o t
    BY <1>2 DEF Str
  <2>2. Canonical(t) /\ NaturalOf(t) = -n /\ t[1] # 48
    BY <2>1, DecimalCanonical, NaturalOfDecimal
  <2> HIDE DEF t
  <2>3. t \in Seq(Digit) /\ t # <<>> /\ Len(t) \in Nat /\ Len(t) > 0
    BY <2>2 DEF Canonical
  <2>4. IsInt(Str(n)) /\ IntOf(Str(n)) = n
    BY <1>2, <2>1, <2>2, <2>3, IntOfMinus
  <2>5. t \in Seq(Byte) /\ <<Minus>> \in Seq(Byte) /\ Len(<<Minus>>) = 1 /\ <<Minus>>[1] = Minus
    <3>1. t \in Seq(Byte)
      BY <2>3, Characters, SeqMonotonic
    <3> QED
      BY <3>1, Characters
  <2>6. /\ Str(n) \in Seq(Byte) /\ Len(Str(n)) = 1 + Len(t)
        /\ \A i \in 1 .. 1 + Len(t) : Str(n)[i] = IF i <= 1 THEN <<Minus>>[i] ELSE t[i - 1]
    BY <2>1, <2>5, ConcatProperties
  <2>7. Str(n)[1] = Minus /\ Str(n)[2] = t[1]
    BY <2>3, <2>5, <2>6
  <2>8. \A i \in DOMAIN Str(n) : Str(n)[i] \in Digit \cup {Minus}
    <3>1. DOMAIN Str(n) = 1 .. 1 + Len(t)
      BY <2>6, LenProperties
    <3>2. \A i \in 1 .. Len(t) : t[i] \in Digit
      BY <2>3, ElementOfSeq
    <3>3. \A i \in 1 .. 1 + Len(t) : ~(i <= 1) => i - 1 \in 1 .. Len(t)
      BY <2>3
    <3>4. \A i \in 1 .. 1 + Len(t) : i <= 1 => i = 1
      OBVIOUS
    <3> QED
      BY <2>5, <2>6, <3>1, <3>2, <3>3, <3>4
  <2>9. Minus # 48
    BY DEF Minus
  <2> QED
    BY <2>2, <2>3, <2>4, <2>6, <2>7, <2>8, <2>9
<1> QED
  BY <1>1, <1>2

(* A number decode_int or decode_string accepts, if it is plain, is        *)
(* written as str writes it.                                               *)
LEMMA StrOfDigits ==
  ASSUME NEW s \in Seq(Digit), s # <<>>, s[1] = 48 => Len(s) = 1
  PROVE  IntOf(s) \in Nat /\ Str(IntOf(s)) = s /\ Decimal[IntOf(s)] = s
<1>1. Canonical(s)
  BY DEF Canonical
<1>2. IntOf(s) = NaturalOf(s) /\ Decimal[NaturalOf(s)] = s
  BY <1>1, IntOfDigits, DecimalOfNatural
<1>3. NaturalOf(s) \in Nat
  BY NaturalOfAppend, Characters DEF Digit
<1> QED
  BY <1>2, <1>3 DEF Str

(* A number written with a minus is written back with it.                  *)
LEMMA StrOfMinus ==
  ASSUME NEW t \in Seq(Digit), t # <<>>, t[1] # 48
  PROVE  IntOf(<<Minus>> \o t) \in Int /\ Str(IntOf(<<Minus>> \o t)) = <<Minus>> \o t
<1>1. Canonical(t)
  BY DEF Canonical
<1>2. IntOf(<<Minus>> \o t) = -NaturalOf(t) /\ Decimal[NaturalOf(t)] = t
  BY <1>1, IntOfMinus, DecimalOfNatural
<1>3. NaturalOf(t) \in Nat
  BY NaturalOfAppend, Characters DEF Digit
<1>4. NaturalOf(t) # 0
  <2> SUFFICES ASSUME NaturalOf(t) = 0 PROVE FALSE
    OBVIOUS
  <2>1. Decimal[0] = <<48 + 0>>
    BY DecimalRule
  <2>2. t = <<48>>
    BY <1>2, <2>1
  <2> QED
    BY <2>2
<1> DEFINE n == -NaturalOf(t)
<1>5. n \in Int /\ n < 0 /\ -n = NaturalOf(t)
  BY <1>3, <1>4
<1>6. Str(n) = <<Minus>> \o Decimal[-n]
  BY <1>5 DEF Str
<1> HIDE DEF n
<1>7. Str(n) = <<Minus>> \o t
  BY <1>2, <1>5, <1>6
<1> QED
  BY <1>2, <1>5, <1>7 DEF n

-----------------------------------------------------------------------------
(* Strings that stand in strings.                                          *)

(* t stands in s from position a on.                                       *)
Has(s, a, t) ==
  /\ a \in Nat /\ a + Len(t) <= Len(s)
  /\ \A i \in 1 .. Len(t) : s[a + i] = t[i]

(* Nothing stands everywhere, one character where it is.                   *)
LEMMA HasOne ==
  ASSUME NEW s \in Seq(Byte), NEW a \in Nat, NEW c
  PROVE  /\ a <= Len(s) => Has(s, a, <<>>)
         /\ Has(s, a, <<c>>) <=> a < Len(s) /\ s[a + 1] = c
<1>1. Len(<<c>>) = 1 /\ <<c>>[1] = c /\ Len(<<>>) = 0 /\ Len(s) \in Nat
  OBVIOUS
<1>2. a <= Len(s) => Has(s, a, <<>>)
  BY <1>1 DEF Has
<1>3. Has(s, a, <<c>>) <=> a + 1 <= Len(s) /\ \A i \in 1 .. 1 : s[a + i] = <<c>>[i]
  BY <1>1 DEF Has
<1>4. (\A i \in 1 .. 1 : s[a + i] = <<c>>[i]) <=> s[a + 1] = <<c>>[1]
  OBVIOUS
<1> QED
  BY <1>1, <1>2, <1>3, <1>4

(* Two strings one behind the other.                                       *)
LEMMA HasConcat ==
  ASSUME NEW s \in Seq(Byte), NEW t \in Seq(Byte), NEW u \in Seq(Byte), NEW a \in Nat
  PROVE  Has(s, a, t \o u) <=> Has(s, a, t) /\ Has(s, a + Len(t), u)
<1> DEFINE tu == t \o u
<1>1. /\ tu \in Seq(Byte) /\ Len(tu) = Len(t) + Len(u)
      /\ \A i \in 1 .. Len(t) + Len(u) : tu[i] = IF i <= Len(t) THEN t[i] ELSE u[i - Len(t)]
  BY ConcatProperties
<1>2. Len(t) \in Nat /\ Len(u) \in Nat /\ Len(s) \in Nat
  OBVIOUS
<1> HIDE DEF tu
<1>3. ASSUME Has(s, a, tu) PROVE Has(s, a, t) /\ Has(s, a + Len(t), u)
  <2>1. a + (Len(t) + Len(u)) <= Len(s) /\ \A i \in 1 .. Len(t) + Len(u) : s[a + i] = tu[i]
    BY <1>1, <1>3 DEF Has
  <2>2. \A i \in 1 .. Len(t) : s[a + i] = t[i]
    <3> SUFFICES ASSUME NEW i \in 1 .. Len(t) PROVE s[a + i] = t[i]
      OBVIOUS
    <3>1. i \in 1 .. Len(t) + Len(u) /\ i <= Len(t)
      BY <1>2
    <3> QED
      BY <1>1, <2>1, <3>1
  <2>3. \A i \in 1 .. Len(u) : s[(a + Len(t)) + i] = u[i]
    <3> SUFFICES ASSUME NEW i \in 1 .. Len(u) PROVE s[(a + Len(t)) + i] = u[i]
      OBVIOUS
    <3>1. /\ Len(t) + i \in 1 .. Len(t) + Len(u) /\ ~(Len(t) + i <= Len(t))
          /\ (Len(t) + i) - Len(t) = i /\ a + (Len(t) + i) = (a + Len(t)) + i
      BY <1>2
    <3> QED
      BY <1>1, <2>1, <3>1
  <2> QED
    BY <1>2, <2>1, <2>2, <2>3 DEF Has
<1>4. ASSUME Has(s, a, t), Has(s, a + Len(t), u) PROVE Has(s, a, tu)
  <2>1. \A i \in 1 .. Len(t) + Len(u) : s[a + i] = tu[i]
    <3> SUFFICES ASSUME NEW i \in 1 .. Len(t) + Len(u) PROVE s[a + i] = tu[i]
      OBVIOUS
    <3>1. CASE i <= Len(t)
      <4>1. i \in 1 .. Len(t)
        BY <3>1
      <4> QED
        BY <1>1, <1>4, <3>1, <4>1 DEF Has
    <3>2. CASE ~(i <= Len(t))
      <4>1. i - Len(t) \in 1 .. Len(u) /\ (a + Len(t)) + (i - Len(t)) = a + i
        BY <1>2, <3>2
      <4>2. s[(a + Len(t)) + (i - Len(t))] = u[i - Len(t)]
        BY <1>4, <4>1 DEF Has
      <4> QED
        BY <1>1, <3>2, <4>1, <4>2
    <3> QED
      BY <3>1, <3>2
  <2>2. a + (Len(t) + Len(u)) <= Len(s)
    BY <1>2, <1>4 DEF Has
  <2> QED
    BY <1>1, <2>1, <2>2 DEF Has
<1> QED
  BY <1>3, <1>4 DEF tu

(* What stands between two positions.                                      *)
LEMMA HasSubSeq ==
  ASSUME NEW s \in Seq(Byte), NEW a \in Nat, NEW b \in Nat, a <= b, b <= Len(s)
  PROVE  /\ SubSeq(s, a + 1, b) \in Seq(Byte) /\ Len(SubSeq(s, a + 1, b)) = b - a
         /\ \A i \in 1 .. b - a : SubSeq(s, a + 1, b)[i] = s[a + i]
         /\ Has(s, a, SubSeq(s, a + 1, b))
<1> DEFINE t == SubSeq(s, a + 1, b)
<1>1. \A i \in a + 1 .. b : s[i] \in Byte
  BY ElementOfSeq
<1>2. /\ t \in Seq(Byte) /\ Len(t) = IF a + 1 <= b THEN b - (a + 1) + 1 ELSE 0
      /\ \A i \in 1 .. b - (a + 1) + 1 : t[i] = s[(a + 1) + i - 1]
  BY <1>1, SubSeqProperties
<1> HIDE DEF t
<1>3. b - (a + 1) + 1 = b - a /\ \A i \in Int : (a + 1) + i - 1 = a + i
  OBVIOUS
<1>4. Len(t) = b - a
  BY <1>2, <1>3
<1>5. \A i \in 1 .. b - a : t[i] = s[a + i]
  BY <1>2, <1>3
<1> QED
  BY <1>2, <1>4, <1>5 DEF Has, t

(* The slice where t stands is t.                                          *)
LEMMA HasIsSubSeq ==
  ASSUME NEW s \in Seq(Byte), NEW t \in Seq(Byte), NEW a \in Nat, Has(s, a, t)
  PROVE  SubSeq(s, a + 1, a + Len(t)) = t
<1>1. a + Len(t) <= Len(s) /\ Len(t) \in Nat /\ (a + Len(t)) - a = Len(t) /\ a <= a + Len(t)
  BY DEF Has
<1> DEFINE u == SubSeq(s, a + 1, a + Len(t))
<1>2. u \in Seq(Byte) /\ Len(u) = Len(t) /\ \A i \in 1 .. Len(t) : u[i] = s[a + i]
  BY <1>1, HasSubSeq
<1> HIDE DEF u
<1>3. \A i \in 1 .. Len(u) : u[i] = t[i]
  BY <1>2 DEF Has
<1>4. u = t
  BY <1>2, <1>3, SeqEqual
<1> QED
  BY <1>4 DEF u

(* A string that stands at the beginning of one of the same length is that *)
(* one.                                                                    *)
LEMMA HasAll ==
  ASSUME NEW s \in Seq(Byte), NEW t \in Seq(Byte), Has(s, 0, t), Len(t) = Len(s)
  PROVE  t = s
<1>1. \A i \in 1 .. Len(t) : t[i] = s[0 + i] /\ 0 + i = i
  BY DEF Has
<1>2. \A i \in 1 .. Len(t) : t[i] = s[i]
  BY <1>1
<1> QED
  BY <1>2, SeqEqual

-----------------------------------------------------------------------------
(* FlattenSeq.                                                             *)

(* The concatenations of the first strings of q.                           *)
Joined(g, q) ==
  /\ \A i \in 1 .. Len(q) : g[i] = IF i = 1 THEN q[i] ELSE g[i - 1] \o q[i]
  /\ Len(q) > 0 => FlattenSeq(q) = g[Len(q)]

(* The function by which FlattenSeq is defined exists: it satisfies its    *)
(* equations.                                                              *)
LEMMA FlattenLoop ==
  ASSUME NEW q, Len(q) \in Nat
  PROVE  \E g : Joined(g, q)
<1> DEFINE Body(g, i) == IF i = 1 THEN q[i] ELSE g[i - 1] \o q[i]
           Upto(g, n) == g = [i \in 1 .. n |-> Body(g, i)]
<1>1. \A n \in Nat : \E g : Upto(g, n)
  <2> DEFINE T == {n \in Nat : \E g : Upto(g, n)}
  <2>1. 0 \in T
    <3>1. Upto([i \in 1 .. 0 |-> 0], 0)
      OBVIOUS
    <3> QED
      BY <3>1
  <2>2. ASSUME NEW n \in Nat, n \in T PROVE n + 1 \in T
    <3>1. PICK g : Upto(g, n)
      BY <2>2
    <3> DEFINE h == [i \in 1 .. n + 1 |-> IF i = n + 1 THEN Body(g, i) ELSE g[i]]
    <3>2. ASSUME NEW i \in 1 .. n + 1 PROVE h[i] = Body(h, i)
      <4>1. i # 1 => h[i - 1] = g[i - 1]
        OBVIOUS
      <4>2. i # n + 1 => i \in 1 .. n /\ h[i] = g[i]
        OBVIOUS
      <4>3. i = n + 1 => h[i] = Body(g, i)
        OBVIOUS
      <4>4. \A j \in 1 .. n : g[j] = Body(g, j)
        BY <3>1
      <4>5. h[i] = Body(g, i)
        <5> HIDE DEF h, Body
        <5> QED
          BY <4>2, <4>3, <4>4
      <4> QED
        BY <4>1, <4>5
    <3>3. Upto(h, n + 1)
      BY <3>2
    <3> HIDE DEF Upto, h
    <3>4. \E k : Upto(k, n + 1)
      BY <3>3
    <3> QED
      BY <3>4
  <2> HIDE DEF T
  <2>3. \A n \in Nat : n \in T
    BY <2>1, <2>2, Steps
  <2> QED
    BY <2>3 DEF T
<1> DEFINE g == CHOOSE h : Upto(h, Len(q))
<1>2. Upto(g, Len(q))
  <2> HIDE DEF Upto
  <2> QED
    BY <1>1, Zenon
<1>3. Len(q) > 0 => FlattenSeq(q) = g[Len(q)]
  BY DEF FlattenSeq
<1> HIDE DEF g
<1>4. \A i \in 1 .. Len(q) : g[i] = Body(g, i)
  BY <1>2
<1>5. Joined(g, q)
  BY <1>3, <1>4 DEF Joined
<1> QED
  BY <1>5

(* One more string.                                                        *)
LEMMA FlattenAppend ==
  ASSUME NEW q \in Seq(Seq(Byte)), NEW e \in Seq(Byte)
  PROVE  FlattenSeq(q) \in Seq(Byte) /\ FlattenSeq(Append(q, e)) = FlattenSeq(q) \o e
<1> DEFINE p == Append(q, e)
<1>1. /\ p \in Seq(Seq(Byte)) /\ Len(p) = Len(q) + 1 /\ p[Len(q) + 1] = e
      /\ \A i \in 1 .. Len(q) : p[i] = q[i]
  BY AppendProperties
<1> HIDE DEF p
<1>2. Len(q) \in Nat /\ Len(p) \in Nat /\ Len(p) > 0
  BY <1>1
<1>3. PICK g : Joined(g, q)
  BY <1>2, FlattenLoop
<1>4. PICK h : Joined(h, p)
  BY <1>2, FlattenLoop
<1> DEFINE T == {n \in Nat : n > 0 /\ n <= Len(q) => g[n] = h[n] /\ g[n] \in Seq(Byte)}
<1>5. 0 \in T
  OBVIOUS
<1>6. ASSUME NEW n \in Nat, n \in T PROVE n + 1 \in T
  <2> SUFFICES ASSUME n + 1 <= Len(q) PROVE g[n + 1] = h[n + 1] /\ g[n + 1] \in Seq(Byte)
    OBVIOUS
  <2>1. n + 1 \in 1 .. Len(q) /\ n + 1 \in 1 .. Len(p) /\ (n + 1) - 1 = n
    BY <1>1
  <2>2. g[n + 1] = IF n + 1 = 1 THEN q[n + 1] ELSE g[n] \o q[n + 1]
    BY <1>3, <2>1 DEF Joined
  <2>3. h[n + 1] = IF n + 1 = 1 THEN p[n + 1] ELSE h[n] \o p[n + 1]
    BY <1>4, <2>1 DEF Joined
  <2>4. p[n + 1] = q[n + 1] /\ q[n + 1] \in Seq(Byte)
    BY <1>1, <2>1, ElementOfSeq
  <2>5. n + 1 # 1 => g[n] = h[n] /\ g[n] \in Seq(Byte)
    BY <1>6
  <2> QED
    BY <2>2, <2>3, <2>4, <2>5, ConcatProperties
<1> HIDE DEF T
<1>7. \A n \in Nat : n \in T
  BY <1>5, <1>6, Steps
<1>8. Len(q) > 0 => FlattenSeq(q) = g[Len(q)] /\ g[Len(q)] = h[Len(q)] /\ g[Len(q)] \in Seq(Byte)
  BY <1>2, <1>3, <1>7 DEF T, Joined
<1>9. Len(q) = 0 => q = <<>> /\ FlattenSeq(q) = <<>>
  BY DEF FlattenSeq
<1>10. FlattenSeq(q) \in Seq(Byte)
  BY <1>2, <1>8, <1>9
<1>11. FlattenSeq(p) = h[Len(q) + 1]
  BY <1>1, <1>2, <1>4 DEF Joined
<1>12. h[Len(q) + 1] = IF Len(q) + 1 = 1 THEN e ELSE h[Len(q)] \o e
  <2>1. Len(q) + 1 \in 1 .. Len(p) /\ (Len(q) + 1) - 1 = Len(q)
    BY <1>1, <1>2
  <2>2. h[Len(q) + 1] = IF Len(q) + 1 = 1 THEN p[Len(q) + 1] ELSE h[(Len(q) + 1) - 1] \o p[Len(q) + 1]
    BY <1>4, <2>1 DEF Joined
  <2> QED
    BY <1>1, <2>1, <2>2
<1>13. CASE Len(q) = 0
  BY <1>9, <1>10, <1>11, <1>12, <1>13, ConcatEmptySeq DEF p
<1>14. CASE Len(q) > 0
  <2>1. Len(q) + 1 # 1
    BY <1>2, <1>14
  <2>2. h[Len(q) + 1] = h[Len(q)] \o e
    BY <1>12, <2>1
  <2>3. FlattenSeq(q) = h[Len(q)]
    BY <1>8, <1>14
  <2>4. FlattenSeq(p) = FlattenSeq(q) \o e
    BY <1>11, <2>2, <2>3
  <2> QED
    BY <1>10, <2>4 DEF p
<1> QED
  BY <1>2, <1>13, <1>14

(* Of no parts nothing comes.                                              *)
LEMMA FlattenEmpty ==
  FlattenSeq(<<>>) = <<>>
  BY DEF FlattenSeq

(* The first strings of q stand in front of the next one, and of the rest. *)
LEMMA FlattenPrefix ==
  ASSUME NEW q \in Seq(Seq(Byte)), NEW s \in Seq(Byte), NEW a \in Nat,
         Has(s, a, FlattenSeq(q)), NEW n \in 0 .. Len(q)
  PROVE  Has(s, a, FlattenSeq(SubSeq(q, 1, n)))
<1> DEFINE First(m) == SubSeq(q, 1, Len(q) - m)
           T == {m \in Nat : m <= Len(q) => Has(s, a, FlattenSeq(First(m)))}
<1>1. 0 \in T
  <2>1. First(0) = q
    <3>1. Len(q) - 0 = Len(q)
      OBVIOUS
    <3> QED
      BY <3>1, SubSeqFull
  <2> HIDE DEF First
  <2> QED
    BY <2>1
<1>2. ASSUME NEW m \in Nat, m \in T PROVE m + 1 \in T
  <2> SUFFICES ASSUME m + 1 <= Len(q) PROVE Has(s, a, FlattenSeq(First(m + 1)))
    OBVIOUS
  <2> DEFINE k == Len(q) - m
  <2>1. k \in 1 .. Len(q) /\ Len(q) - (m + 1) = k - 1
    OBVIOUS
  <2> HIDE DEF k
  <2>2. /\ SubSeq(q, 1, k - 1) \in Seq(Seq(Byte)) /\ q[k] \in Seq(Byte)
        /\ SubSeq(q, 1, k) = Append(SubSeq(q, 1, k - 1), q[k])
    <3>1. q[k] \in Seq(Byte)
      BY <2>1, ElementOfSeq
    <3>2. SubSeq(q, 1, k) = SubSeq(q, 1, k - 1) \o <<q[k]>>
      BY <2>1, SubSeqRecursiveSecond
    <3>3. \A i \in 1 .. k - 1 : q[i] \in Seq(Byte)
      BY <2>1, ElementOfSeq
    <3>4. SubSeq(q, 1, k - 1) \in Seq(Seq(Byte))
      BY <2>1, <3>3, SubSeqProperties
    <3> QED
      BY <3>1, <3>2, <3>4, AppendIsConcat
  <2>3. FlattenSeq(SubSeq(q, 1, k)) = FlattenSeq(SubSeq(q, 1, k - 1)) \o q[k]
        /\ FlattenSeq(SubSeq(q, 1, k - 1)) \in Seq(Byte)
    BY <2>2, FlattenAppend
  <2>4. Has(s, a, FlattenSeq(SubSeq(q, 1, k)))
    BY <1>2, <2>1 DEF k
  <2>5. Has(s, a, FlattenSeq(SubSeq(q, 1, k - 1)))
    <3> DEFINE p == FlattenSeq(SubSeq(q, 1, k - 1))
    <3>1. Has(s, a, p \o q[k])
      BY <2>3, <2>4
    <3> QED
      BY <2>2, <2>3, <3>1, HasConcat, Zenon
  <2> QED
    BY <2>1, <2>5
<1> HIDE DEF T
<1>3. \A m \in Nat : m \in T
  BY <1>1, <1>2, Steps
<1>4. Len(q) - n \in Nat /\ Len(q) - n <= Len(q) /\ Len(q) - (Len(q) - n) = n
  OBVIOUS
<1> QED
  BY <1>3, <1>4 DEF T

-----------------------------------------------------------------------------
(* The recursive functions of the encoder.                                 *)

(* The right-hand side of Value's equation.                                *)
ValueStep(g, n) ==
  IF n = 0 THEN Atom
  ELSE Atom \cup [list : Seq(g[n - 1])] \cup [dict : Dict(g[n - 1])]

(* Value satisfies its equation.                                           *)
LEMMA ValueDef ==
  \A n \in Nat : Value[n] = ValueStep(Value, n)
<1>0. ASSUME NEW g, NEW h, NEW n \in Nat, n # 0 => g[n - 1] = h[n - 1]
      PROVE  ValueStep(g, n) = ValueStep(h, n)
  <2>1. CASE n = 0
    BY <2>1 DEF ValueStep
  <2>2. CASE n # 0
    BY <1>0, <2>2 DEF ValueStep
  <2> QED
    BY <2>1, <2>2
<1> DEFINE Upto(g, n) == g = [m \in 0 .. n |-> ValueStep(g, m)]
<1>1. ASSUME NEW n \in Nat, NEW g, Upto(g, n), NEW m \in 0 .. n
      PROVE  g[m] = ValueStep(g, m)
  BY <1>1
<1>2. ASSUME NEW n \in Nat, NEW k \in Nat, NEW g, NEW h, Upto(g, n), Upto(h, k)
      PROVE  \A m \in Nat : m <= n /\ m <= k => g[m] = h[m]
  <2> DEFINE T == {m \in Nat : m <= n /\ m <= k => g[m] = h[m]}
  <2>1. ASSUME NEW m \in Nat, m <= n, m <= k PROVE g[m] = ValueStep(g, m) /\ h[m] = ValueStep(h, m)
    <3>1. m \in 0 .. n /\ m \in 0 .. k
      BY <2>1
    <3> HIDE DEF Upto
    <3> QED
      BY <1>1, <1>2, <3>1
  <2>2. 0 \in T
    <3>1. 0 <= n /\ 0 <= k
      OBVIOUS
    <3> QED
      BY <1>0, <2>1, <3>1
  <2>3. ASSUME NEW m \in Nat, m \in T PROVE m + 1 \in T
    <3> SUFFICES ASSUME m + 1 <= n, m + 1 <= k PROVE g[m + 1] = h[m + 1]
      OBVIOUS
    <3>1. g[m] = h[m] /\ (m + 1) - 1 = m
      BY <2>3
    <3>2. ValueStep(g, m + 1) = ValueStep(h, m + 1)
      BY <1>0, <3>1
    <3> QED
      BY <2>1, <3>2
  <2> HIDE DEF T
  <2>4. \A m \in Nat : m \in T
    BY <2>2, <2>3, Steps
  <2> QED
    BY <2>4 DEF T
<1>3. \A n \in Nat : \E g : Upto(g, n)
  <2> DEFINE T == {n \in Nat : \E g : Upto(g, n)}
  <2>1. 0 \in T
    <3> DEFINE g == [m \in 0 .. 0 |-> ValueStep(<<>>, m)]
    <3>1. \A m \in 0 .. 0 : m = 0 /\ g[m] = ValueStep(<<>>, m)
      OBVIOUS
    <3>2. \A m \in 0 .. 0 : g[m] = ValueStep(g, m)
      <4> HIDE DEF g
      <4> QED
        BY <1>0, <3>1
    <3>3. g = [m \in 0 .. 0 |-> g[m]]
      OBVIOUS
    <3> HIDE DEF g
    <3>4. Upto(g, 0)
      BY <3>2, <3>3
    <3> QED
      BY <3>4
  <2>2. ASSUME NEW n \in Nat, n \in T PROVE n + 1 \in T
    <3>1. PICK g : Upto(g, n)
      BY <2>2
    <3> DEFINE h == [m \in 0 .. n + 1 |-> IF m = n + 1 THEN ValueStep(g, m) ELSE g[m]]
    <3>2. ASSUME NEW m \in 0 .. n + 1 PROVE h[m] = ValueStep(h, m)
      <4>1. m # n + 1 => m \in 0 .. n /\ h[m] = g[m]
        OBVIOUS
      <4>2. m = n + 1 => h[m] = ValueStep(g, m)
        OBVIOUS
      <4>3. m # 0 => h[m - 1] = g[m - 1]
        OBVIOUS
      <4> HIDE DEF h, Upto
      <4>4. h[m] = ValueStep(g, m)
        BY <1>1, <3>1, <4>1, <4>2
      <4>5. m \in Nat
        OBVIOUS
      <4> QED
        BY <1>0, <4>3, <4>4, <4>5
    <3>3. h = [m \in 0 .. n + 1 |-> h[m]]
      OBVIOUS
    <3> HIDE DEF h
    <3>4. Upto(h, n + 1)
      BY <3>2, <3>3
    <3> HIDE DEF Upto
    <3>5. \E k : Upto(k, n + 1)
      BY <3>4
    <3> QED
      BY <3>5
  <2> HIDE DEF T
  <2>3. \A n \in Nat : n \in T
    BY <2>1, <2>2, Steps
  <2> QED
    BY <2>3 DEF T
<1> DEFINE G == [n \in Nat |-> CHOOSE g : Upto(g, n)]
           F == [n \in Nat |-> G[n][n]]
<1>4. ASSUME NEW n \in Nat PROVE Upto(G[n], n)
  <2> HIDE DEF Upto
  <2>1. \E g : Upto(g, n)
    BY <1>3
  <2>2. Upto(CHOOSE g : Upto(g, n), n)
    BY <2>1, Zenon
  <2> QED
    BY <2>2
<1>5. ASSUME NEW n \in Nat PROVE F[n] = ValueStep(F, n)
  <2>1. F[n] = G[n][n] /\ n \in 0 .. n
    OBVIOUS
  <2>2. n # 0 => n - 1 \in Nat /\ F[n - 1] = G[n - 1][n - 1]
    OBVIOUS
  <2> HIDE DEF F, G, Upto
  <2>3. G[n][n] = ValueStep(G[n], n)
    BY <1>1, <1>4, <2>1
  <2>4. n # 0 => F[n - 1] = G[n][n - 1]
    <3> SUFFICES ASSUME n # 0 PROVE F[n - 1] = G[n][n - 1]
      OBVIOUS
    <3>1. n - 1 \in Nat /\ n - 1 <= n /\ n - 1 <= n - 1
      OBVIOUS
    <3>2. Upto(G[n], n) /\ Upto(G[n - 1], n - 1)
      BY <1>4, <3>1
    <3>3. G[n][n - 1] = G[n - 1][n - 1]
      BY <1>2, <3>1, <3>2
    <3> QED
      BY <2>2, <3>1, <3>3
  <2>5. ValueStep(F, n) = ValueStep(G[n], n)
    BY <1>0, <2>4
  <2> QED
    BY <2>1, <2>3, <2>5
<1>6. F = [n \in Nat |-> ValueStep(F, n)]
  <2>1. F = [n \in Nat |-> F[n]]
    OBVIOUS
  <2> HIDE DEF F
  <2> QED
    BY <1>5, <2>1
<1> HIDE DEF F
<1> DEFINE Eq(g) == g = [n \in Nat |-> ValueStep(g, n)]
<1>7. Value = CHOOSE g : Eq(g)
  BY DEF Value, ValueStep
<1>8. Eq(Value)
  <2> HIDE DEF Eq
  <2>1. \E g : Eq(g)
    BY <1>6 DEF Eq
  <2> QED
    BY <1>7, <2>1, Zenon
<1> QED
  BY <1>8

(* The right-hand side of Code's equation.                                 *)
CodeStep(g, n) ==
  [v \in Value[n] |-> EncodeWith(v, IF n = 0 THEN <<>> ELSE g[n - 1])]

(* Code satisfies its equation.                                            *)
LEMMA CodeDef ==
  \A n \in Nat : Code[n] = CodeStep(Code, n)
<1>0. ASSUME NEW g, NEW h, NEW n \in Nat, n # 0 => g[n - 1] = h[n - 1]
      PROVE  CodeStep(g, n) = CodeStep(h, n)
  <2>1. CASE n = 0
    BY <2>1 DEF CodeStep
  <2>2. CASE n # 0
    BY <1>0, <2>2 DEF CodeStep
  <2> QED
    BY <2>1, <2>2
<1> DEFINE Upto(g, n) == g = [m \in 0 .. n |-> CodeStep(g, m)]
<1>1. ASSUME NEW n \in Nat, NEW g, Upto(g, n), NEW m \in 0 .. n
      PROVE  g[m] = CodeStep(g, m)
  BY <1>1
<1>2. ASSUME NEW n \in Nat, NEW k \in Nat, NEW g, NEW h, Upto(g, n), Upto(h, k)
      PROVE  \A m \in Nat : m <= n /\ m <= k => g[m] = h[m]
  <2> DEFINE T == {m \in Nat : m <= n /\ m <= k => g[m] = h[m]}
  <2>1. ASSUME NEW m \in Nat, m <= n, m <= k PROVE g[m] = CodeStep(g, m) /\ h[m] = CodeStep(h, m)
    <3>1. m \in 0 .. n /\ m \in 0 .. k
      BY <2>1
    <3> HIDE DEF Upto
    <3> QED
      BY <1>1, <1>2, <3>1
  <2>2. 0 \in T
    <3>1. 0 <= n /\ 0 <= k
      OBVIOUS
    <3> QED
      BY <1>0, <2>1, <3>1
  <2>3. ASSUME NEW m \in Nat, m \in T PROVE m + 1 \in T
    <3> SUFFICES ASSUME m + 1 <= n, m + 1 <= k PROVE g[m + 1] = h[m + 1]
      OBVIOUS
    <3>1. g[m] = h[m] /\ (m + 1) - 1 = m
      BY <2>3
    <3>2. CodeStep(g, m + 1) = CodeStep(h, m + 1)
      BY <1>0, <3>1
    <3> QED
      BY <2>1, <3>2
  <2> HIDE DEF T
  <2>4. \A m \in Nat : m \in T
    BY <2>2, <2>3, Steps
  <2> QED
    BY <2>4 DEF T
<1>3. \A n \in Nat : \E g : Upto(g, n)
  <2> DEFINE T == {n \in Nat : \E g : Upto(g, n)}
  <2>1. 0 \in T
    <3> DEFINE g == [m \in 0 .. 0 |-> CodeStep(<<>>, m)]
    <3>1. \A m \in 0 .. 0 : m = 0 /\ g[m] = CodeStep(<<>>, m)
      OBVIOUS
    <3>2. \A m \in 0 .. 0 : g[m] = CodeStep(g, m)
      <4> HIDE DEF g
      <4> QED
        BY <1>0, <3>1
    <3>3. g = [m \in 0 .. 0 |-> g[m]]
      OBVIOUS
    <3> HIDE DEF g
    <3>4. Upto(g, 0)
      BY <3>2, <3>3
    <3> QED
      BY <3>4
  <2>2. ASSUME NEW n \in Nat, n \in T PROVE n + 1 \in T
    <3>1. PICK g : Upto(g, n)
      BY <2>2
    <3> DEFINE h == [m \in 0 .. n + 1 |-> IF m = n + 1 THEN CodeStep(g, m) ELSE g[m]]
    <3>2. ASSUME NEW m \in 0 .. n + 1 PROVE h[m] = CodeStep(h, m)
      <4>1. m # n + 1 => m \in 0 .. n /\ h[m] = g[m]
        OBVIOUS
      <4>2. m = n + 1 => h[m] = CodeStep(g, m)
        OBVIOUS
      <4>3. m # 0 => h[m - 1] = g[m - 1]
        OBVIOUS
      <4> HIDE DEF h, Upto
      <4>4. h[m] = CodeStep(g, m)
        BY <1>1, <3>1, <4>1, <4>2
      <4>5. m \in Nat
        OBVIOUS
      <4> QED
        BY <1>0, <4>3, <4>4, <4>5
    <3>3. h = [m \in 0 .. n + 1 |-> h[m]]
      OBVIOUS
    <3> HIDE DEF h
    <3>4. Upto(h, n + 1)
      BY <3>2, <3>3
    <3> HIDE DEF Upto
    <3>5. \E k : Upto(k, n + 1)
      BY <3>4
    <3> QED
      BY <3>5
  <2> HIDE DEF T
  <2>3. \A n \in Nat : n \in T
    BY <2>1, <2>2, Steps
  <2> QED
    BY <2>3 DEF T
<1> DEFINE G == [n \in Nat |-> CHOOSE g : Upto(g, n)]
           F == [n \in Nat |-> G[n][n]]
<1>4. ASSUME NEW n \in Nat PROVE Upto(G[n], n)
  <2> HIDE DEF Upto
  <2>1. \E g : Upto(g, n)
    BY <1>3
  <2>2. Upto(CHOOSE g : Upto(g, n), n)
    BY <2>1, Zenon
  <2> QED
    BY <2>2
<1>5. ASSUME NEW n \in Nat PROVE F[n] = CodeStep(F, n)
  <2>1. F[n] = G[n][n] /\ n \in 0 .. n
    OBVIOUS
  <2>2. n # 0 => n - 1 \in Nat /\ F[n - 1] = G[n - 1][n - 1]
    OBVIOUS
  <2> HIDE DEF F, G, Upto
  <2>3. G[n][n] = CodeStep(G[n], n)
    BY <1>1, <1>4, <2>1
  <2>4. n # 0 => F[n - 1] = G[n][n - 1]
    <3> SUFFICES ASSUME n # 0 PROVE F[n - 1] = G[n][n - 1]
      OBVIOUS
    <3>1. n - 1 \in Nat /\ n - 1 <= n /\ n - 1 <= n - 1
      OBVIOUS
    <3>2. Upto(G[n], n) /\ Upto(G[n - 1], n - 1)
      BY <1>4, <3>1
    <3>3. G[n][n - 1] = G[n - 1][n - 1]
      BY <1>2, <3>1, <3>2
    <3> QED
      BY <2>2, <3>1, <3>3
  <2>5. CodeStep(F, n) = CodeStep(G[n], n)
    BY <1>0, <2>4
  <2> QED
    BY <2>1, <2>3, <2>5
<1>6. F = [n \in Nat |-> CodeStep(F, n)]
  <2>1. F = [n \in Nat |-> F[n]]
    OBVIOUS
  <2> HIDE DEF F
  <2> QED
    BY <1>5, <2>1
<1> HIDE DEF F
<1> DEFINE Eq(g) == g = [n \in Nat |-> CodeStep(g, n)]
<1>7. Code = CHOOSE g : Eq(g)
  BY DEF Code, CodeStep
<1>8. Eq(Code)
  <2> HIDE DEF Eq
  <2>1. \E g : Eq(g)
    BY <1>6 DEF Eq
  <2> QED
    BY <1>7, <2>1, Zenon
<1> QED
  BY <1>8

-----------------------------------------------------------------------------
(* The order of the keys.                                                  *)

(* The bytes of a string.                                                  *)
LEMMA BytesAreNumbers ==
  ASSUME NEW s \in Seq(Byte)
  PROVE  /\ Len(s) \in Nat /\ DOMAIN s = 1 .. Len(s)
         /\ \A i \in 1 .. Len(s) : s[i] \in Byte /\ s[i] \in Int
<1>1. \A c \in Byte : c \in Int
  BY DEF Byte
<1>2. \A i \in 1 .. Len(s) : s[i] \in Byte
  BY ElementOfSeq
<1> QED
  BY <1>1, <1>2

(* The order of the keys is a strict total order.                          *)
LEMMA LessAsymmetric ==
  ASSUME NEW s \in Seq(Byte), NEW t \in Seq(Byte), Less(s, t), Less(t, s)
  PROVE  FALSE
<1>1. Len(s) \in Nat /\ Len(t) \in Nat
  OBVIOUS
<1>2. PICK n \in 1 .. Len(t) :
        n <= Len(s) + 1 /\ (\A i \in 1 .. n - 1 : s[i] = t[i]) /\ (n <= Len(s) => s[n] < t[n])
  BY DEF Less
<1>3. PICK m \in 1 .. Len(s) :
        m <= Len(t) + 1 /\ (\A i \in 1 .. m - 1 : t[i] = s[i]) /\ (m <= Len(t) => t[m] < s[m])
  BY DEF Less
<1>4. \A i \in 1 .. Len(s) : s[i] \in Int
  BY BytesAreNumbers
<1>5. \A i \in 1 .. Len(t) : t[i] \in Int
  BY BytesAreNumbers
<1>6. CASE n < m
  <2>1. n \in 1 .. m - 1 /\ n <= Len(s) /\ n \in 1 .. Len(s)
    BY <1>1, <1>2, <1>3, <1>6
  <2>2. t[n] = s[n] /\ s[n] < t[n]
    BY <1>2, <1>3, <2>1
  <2> QED
    BY <1>4, <2>1, <2>2
<1>7. CASE m < n
  <2>1. m \in 1 .. n - 1 /\ m <= Len(t) /\ m \in 1 .. Len(t)
    BY <1>1, <1>2, <1>3, <1>7
  <2>2. s[m] = t[m] /\ t[m] < s[m]
    BY <1>2, <1>3, <2>1
  <2> QED
    BY <1>5, <2>1, <2>2
<1>8. CASE m = n
  <2>1. n \in 1 .. Len(s) /\ n \in 1 .. Len(t) /\ s[n] < t[n] /\ t[n] < s[n]
    BY <1>1, <1>2, <1>3, <1>8
  <2> QED
    BY <1>4, <1>5, <2>1
<1> QED
  BY <1>6, <1>7, <1>8

(* Of three keys in order the first is less than the last.                 *)
LEMMA LessTransitive ==
  ASSUME NEW s \in Seq(Byte), NEW t \in Seq(Byte), NEW u \in Seq(Byte),
         Less(s, t), Less(t, u)
  PROVE  Less(s, u)
<1>1. Len(s) \in Nat /\ Len(t) \in Nat /\ Len(u) \in Nat /\ DOMAIN u = 1 .. Len(u)
  OBVIOUS
<1>2. PICK n \in 1 .. Len(t) :
        n <= Len(s) + 1 /\ (\A i \in 1 .. n - 1 : s[i] = t[i]) /\ (n <= Len(s) => s[n] < t[n])
  BY DEF Less
<1>3. PICK m \in 1 .. Len(u) :
        m <= Len(t) + 1 /\ (\A i \in 1 .. m - 1 : t[i] = u[i]) /\ (m <= Len(t) => t[m] < u[m])
  BY DEF Less
<1>4. (\A i \in 1 .. Len(s) : s[i] \in Int) /\ (\A i \in 1 .. Len(t) : t[i] \in Int)
      /\ (\A i \in 1 .. Len(u) : u[i] \in Int)
  BY BytesAreNumbers
<1>5. CASE n < m
  <2>1. n \in 1 .. Len(u) /\ n \in 1 .. m - 1
    BY <1>1, <1>2, <1>3, <1>5
  <2>2. t[n] = u[n]
    BY <1>3, <2>1
  <2>3. \A i \in 1 .. n - 1 : s[i] = u[i]
    <3>1. \A i \in 1 .. n - 1 : i \in 1 .. m - 1
      BY <1>5
    <3> QED
      BY <1>2, <1>3, <3>1
  <2> QED
    BY <1>1, <1>2, <2>1, <2>2, <2>3 DEF Less
<1>6. CASE m < n
  <2>1. m \in 1 .. n - 1 /\ m <= Len(s) + 1 /\ m <= Len(t)
    BY <1>1, <1>2, <1>3, <1>6
  <2>2. s[m] = t[m] /\ t[m] < u[m]
    BY <1>2, <1>3, <2>1
  <2>3. \A i \in 1 .. m - 1 : s[i] = u[i]
    <3>1. \A i \in 1 .. m - 1 : i \in 1 .. n - 1
      BY <1>6
    <3> QED
      BY <1>2, <1>3, <3>1
  <2> QED
    BY <1>1, <1>3, <2>1, <2>2, <2>3 DEF Less
<1>7. CASE m = n
  <2>1. \A i \in 1 .. n - 1 : s[i] = u[i]
    BY <1>2, <1>3, <1>7
  <2>2. t[n] < u[n]
    BY <1>2, <1>3, <1>7
  <2>3. n <= Len(s) => s[n] < u[n]
    <3>1. n <= Len(s) => n \in 1 .. Len(s)
      OBVIOUS
    <3> QED
      BY <1>2, <1>3, <1>4, <1>7, <2>2, <3>1
  <2> QED
    BY <1>1, <1>2, <1>3, <1>7, <2>1, <2>3 DEF Less
<1> QED
  BY <1>5, <1>6, <1>7

(* Of two different keys one is less.                                      *)
LEMMA LessTotal ==
  ASSUME NEW s \in Seq(Byte), NEW t \in Seq(Byte), s # t
  PROVE  Less(s, t) \/ Less(t, s)
<1> DEFINE D == {n \in Nat \ {0} : /\ n <= Len(s) + 1 /\ n <= Len(t) + 1
                                   /\ n > Len(s) \/ n > Len(t) \/ s[n] # t[n]}
<1>1. Len(s) \in Nat /\ Len(t) \in Nat /\ DOMAIN s = 1 .. Len(s) /\ DOMAIN t = 1 .. Len(t)
  OBVIOUS
<1>2. D # {}
  <2>1. Len(s) <= Len(t) => Len(s) + 1 \in D
    BY <1>1
  <2>2. Len(t) <= Len(s) => Len(t) + 1 \in D
    BY <1>1
  <2> QED
    BY <1>1, <2>1, <2>2
<1>3. PICK n \in D : \A m \in D : n <= m
  <2>1. D \subseteq Nat
    OBVIOUS
  <2> HIDE DEF D
  <2> QED
    BY <1>2, <2>1, Smallest
<1>4. \A i \in 1 .. n - 1 : s[i] = t[i]
  <2>1. ASSUME NEW i \in 1 .. n - 1, s[i] # t[i] PROVE FALSE
    <3>1. i \in D
      BY <1>1, <1>3, <2>1
    <3> HIDE DEF D
    <3>2. n <= i /\ n \in Nat
      BY <1>3, <3>1 DEF D
    <3> QED
      BY <3>2
  <2> QED
    BY <2>1
<1>5. (\A i \in 1 .. Len(s) : s[i] \in Int) /\ (\A i \in 1 .. Len(t) : t[i] \in Int)
  BY BytesAreNumbers
<1>6. /\ n \in Nat \ {0} /\ n <= Len(s) + 1 /\ n <= Len(t) + 1
      /\ n > Len(s) \/ n > Len(t) \/ s[n] # t[n]
  BY <1>3
<1> HIDE DEF D
<1>7. CASE n <= Len(s) /\ n <= Len(t)
  <2>1. n \in 1 .. Len(s) /\ n \in 1 .. Len(t) /\ s[n] # t[n]
    BY <1>1, <1>6, <1>7
  <2>2. s[n] < t[n] \/ t[n] < s[n]
    BY <1>5, <2>1
  <2>3. CASE s[n] < t[n]
    BY <1>1, <1>4, <1>6, <2>1, <2>3 DEF Less
  <2>4. CASE t[n] < s[n]
    BY <1>1, <1>4, <1>6, <2>1, <2>4 DEF Less
  <2> QED
    BY <2>2, <2>3, <2>4
<1>8. CASE n > Len(s) /\ n <= Len(t)
  <2>1. n \in DOMAIN t /\ ~(n <= Len(s))
    BY <1>1, <1>6, <1>8
  <2> QED
    BY <1>4, <1>6, <2>1 DEF Less
<1>9. CASE n <= Len(s) /\ n > Len(t)
  <2>1. n \in DOMAIN s /\ ~(n <= Len(t))
    BY <1>1, <1>6, <1>9
  <2> QED
    BY <1>4, <1>6, <2>1 DEF Less
<1>10. CASE n > Len(s) /\ n > Len(t)
  <2>1. Len(s) = n - 1 /\ Len(t) = n - 1
    BY <1>1, <1>6, <1>10
  <2>2. s = t
    BY <1>4, <2>1, SeqEqual
  <2> QED
    BY <2>2
<1> QED
  BY <1>1, <1>6, <1>7, <1>8, <1>9, <1>10

-----------------------------------------------------------------------------
(* The items of a dictionary, sorted.                                      *)

(* A dictionary's pairs.                                                   *)
Keyed(d) ==
  /\ IsFiniteSet(d)
  /\ \A p \in d : p[1] \in Seq(Byte)
  /\ \A p, q \in d : p[1] = q[1] => p = q

(* What SortedItems chooses.                                               *)
SortedAs(items, d) ==
  /\ items \in [1 .. Cardinality(d) -> d] /\ ToSet(items) = d
  /\ \A i, j \in DOMAIN items : i < j => Less(items[i][1], items[j][1])

(* One pair has the greatest key.                                          *)
LEMMA GreatestKey ==
  ASSUME NEW d, Keyed(d), d # {}
  PROVE  \E p \in d : \A q \in d \ {p} : Less(q[1], p[1])
<1> DEFINE Top(c) == \E p \in c : \A q \in c \ {p} : Less(q[1], p[1])
           T == {n \in Nat : \A c : Keyed(c) /\ Cardinality(c) = n + 1 => Top(c)}
<1>1. 0 \in T
  <2> SUFFICES ASSUME NEW c, Keyed(c), Cardinality(c) = 0 + 1 PROVE Top(c)
    OBVIOUS
  <2>1. PICK p : c = {p}
    <3>1. IsFiniteSet(c) /\ Cardinality(c) = 1
      BY DEF Keyed
    <3> QED
      BY <3>1, FS_Singleton
  <2> QED
    BY <2>1
<1>2. ASSUME NEW n \in Nat, n \in T PROVE n + 1 \in T
  <2> SUFFICES ASSUME NEW c, Keyed(c), Cardinality(c) = (n + 1) + 1 PROVE Top(c)
    OBVIOUS
  <2>1. PICK e : e \in c
    <3>1. c # {}
      BY FS_EmptySet DEF Keyed
    <3> QED
      BY <3>1
  <2>2. Keyed(c \ {e}) /\ Cardinality(c \ {e}) = n + 1
    <3>1. IsFiniteSet(c \ {e}) /\ Cardinality(c \ {e}) = Cardinality(c) - 1
      BY <2>1, FS_RemoveElement DEF Keyed
    <3> QED
      BY <3>1 DEF Keyed
  <2>3. Top(c \ {e})
    BY <1>2, <2>2
  <2>4. PICK p \in c \ {e} : \A q \in (c \ {e}) \ {p} : Less(q[1], p[1])
    BY <2>3
  <2>5. e[1] # p[1] /\ e[1] \in Seq(Byte) /\ p[1] \in Seq(Byte)
    BY <2>1, <2>4 DEF Keyed
  <2>6. CASE Less(e[1], p[1])
    <3>1. \A q \in c \ {p} : Less(q[1], p[1])
      BY <2>4, <2>6
    <3> QED
      BY <2>4, <3>1
  <2>7. CASE Less(p[1], e[1])
    <3>1. \A q \in c \ {e} : Less(q[1], e[1])
      <4> SUFFICES ASSUME NEW q \in c \ {e}, q # p PROVE Less(q[1], e[1])
        BY <2>7
      <4>1. Less(q[1], p[1]) /\ q[1] \in Seq(Byte)
        BY <2>4 DEF Keyed
      <4> QED
        BY <2>5, <2>7, <4>1, LessTransitive
    <3> QED
      BY <2>1, <3>1
  <2> QED
    BY <2>5, <2>6, <2>7, LessTotal
<1> HIDE DEF T, Top
<1>3. \A n \in Nat : n \in T
  BY <1>1, <1>2, Steps
<1>4. Cardinality(d) - 1 \in Nat /\ Cardinality(d) = (Cardinality(d) - 1) + 1
  BY FS_EmptySet, FS_CardinalityType DEF Keyed
<1>5. Top(d)
  BY <1>3, <1>4 DEF T
<1> QED
  BY <1>5 DEF Top

(* A finite dictionary can be sorted: put the greatest key behind the      *)
(* others.                                                                 *)
LEMMA SortedExists ==
  ASSUME NEW d, Keyed(d)
  PROVE  \E items : SortedAs(items, d)
<1> DEFINE T == {n \in Nat : \A c : Keyed(c) /\ Cardinality(c) = n => \E items : SortedAs(items, c)}
<1>1. 0 \in T
  <2> SUFFICES ASSUME NEW c, Keyed(c), Cardinality(c) = 0 PROVE \E items : SortedAs(items, c)
    OBVIOUS
  <2>1. c = {}
    BY FS_EmptySet DEF Keyed
  <2> DEFINE items == [i \in 1 .. 0 |-> 0]
  <2>2. items \in [1 .. 0 -> c] /\ DOMAIN items = {}
    OBVIOUS
  <2> HIDE DEF items
  <2>3. ToSet(items) = {}
    BY <2>2 DEF ToSet
  <2>4. SortedAs(items, c)
    BY <2>1, <2>2, <2>3 DEF SortedAs
  <2> QED
    BY <2>4
<1>2. ASSUME NEW n \in Nat, n \in T PROVE n + 1 \in T
  <2> SUFFICES ASSUME NEW c, Keyed(c), Cardinality(c) = n + 1
               PROVE  \E items : SortedAs(items, c)
    OBVIOUS
  <2>1. PICK p \in c : \A q \in c \ {p} : Less(q[1], p[1])
    <3>1. c # {}
      BY FS_EmptySet DEF Keyed
    <3> QED
      BY <3>1, GreatestKey
  <2>2. Keyed(c \ {p}) /\ Cardinality(c \ {p}) = n
    <3>1. IsFiniteSet(c \ {p}) /\ Cardinality(c \ {p}) = Cardinality(c) - 1
      BY <2>1, FS_RemoveElement DEF Keyed
    <3> QED
      BY <3>1 DEF Keyed
  <2>3. PICK old : SortedAs(old, c \ {p})
    BY <1>2, <2>2
  <2>4. /\ old \in [1 .. n -> c \ {p}] /\ ToSet(old) = c \ {p} /\ DOMAIN old = 1 .. n
        /\ \A i, j \in 1 .. n : i < j => Less(old[i][1], old[j][1])
    BY <2>2, <2>3 DEF SortedAs
  <2> DEFINE items == [i \in 1 .. n + 1 |-> IF i = n + 1 THEN p ELSE old[i]]
  <2>5. /\ DOMAIN items = 1 .. n + 1 /\ items[n + 1] = p
        /\ \A i \in 1 .. n : items[i] = old[i] /\ i \in 1 .. n + 1
        /\ \A i \in 1 .. n + 1 : i = n + 1 \/ i \in 1 .. n
    OBVIOUS
  <2>6. items \in [1 .. n + 1 -> c]
    <3>1. \A i \in 1 .. n + 1 : items[i] \in c
      BY <2>4, <2>5
    <3> QED
      BY <3>1
  <2> HIDE DEF items
  <2>7. ToSet(items) = c
    <3>1. ASSUME NEW e \in c PROVE \E i \in 1 .. n + 1 : items[i] = e
      <4>1. CASE e = p
        BY <2>5, <4>1
      <4>2. CASE e # p
        <5>1. PICK i \in 1 .. n : old[i] = e
          BY <2>4, <4>2 DEF ToSet
        <5> QED
          BY <2>5, <5>1
      <4> QED
        BY <4>1, <4>2
    <3> QED
      BY <2>5, <2>6, <3>1 DEF ToSet
  <2>8. ASSUME NEW i \in 1 .. n + 1, NEW j \in 1 .. n + 1, i < j
        PROVE  Less(items[i][1], items[j][1])
    <3>1. i \in 1 .. n /\ items[i] = old[i] /\ old[i] \in c \ {p}
      BY <2>4, <2>5, <2>8
    <3>2. CASE j = n + 1
      BY <2>1, <2>5, <3>1, <3>2
    <3>3. CASE j \in 1 .. n
      BY <2>4, <2>5, <2>8, <3>1, <3>3
    <3> QED
      BY <2>5, <3>2, <3>3
  <2>9. SortedAs(items, c)
    BY <2>5, <2>6, <2>7, <2>8 DEF SortedAs
  <2> QED
    BY <2>9
<1> HIDE DEF T
<1>3. \A n \in Nat : n \in T
  BY <1>1, <1>2, Steps
<1>4. Cardinality(d) \in Nat
  BY FS_CardinalityType DEF Keyed
<1> QED
  BY <1>3, <1>4 DEF T

(* The items can be sorted in one way only.                                *)
LEMMA SortedUnique ==
  ASSUME NEW d, Keyed(d), NEW a, NEW b, SortedAs(a, d), SortedAs(b, d)
  PROVE  a = b
<1> DEFINE n == Cardinality(d)
<1>1. n \in Nat
  BY FS_CardinalityType DEF Keyed
<1> HIDE DEF n
<1>2. /\ a \in [1 .. n -> d] /\ b \in [1 .. n -> d] /\ DOMAIN a = 1 .. n /\ DOMAIN b = 1 .. n
      /\ ToSet(a) = d /\ ToSet(b) = d
      /\ \A i, j \in 1 .. n : i < j => Less(a[i][1], a[j][1])
      /\ \A i, j \in 1 .. n : i < j => Less(b[i][1], b[j][1])
  BY DEF SortedAs, n
<1> DEFINE T == {i \in Nat : i \in 1 .. n => a[i] = b[i]}
<1>3. ASSUME NEW i \in Nat, \A j \in Nat : j < i => j \in T PROVE i \in T
  <2> SUFFICES ASSUME i \in 1 .. n, a[i] # b[i] PROVE FALSE
    OBVIOUS
  <2>1. a[i] \in d /\ b[i] \in d
    BY <1>2
  <2>2. PICK j \in 1 .. n : b[j] = a[i]
    BY <1>2, <2>1 DEF ToSet
  <2>3. PICK k \in 1 .. n : a[k] = b[i]
    BY <1>2, <2>1 DEF ToSet
  <2>4. j > i
    <3>1. j # i
      BY <2>2
    <3>2. ASSUME j < i PROVE FALSE
      <4>1. a[j] = b[j]
        BY <1>3, <3>2
      <4>2. Less(a[j][1], a[i][1])
        BY <1>2, <3>2
      <4>3. a[j] = a[i] /\ a[i][1] \in Seq(Byte)
        BY <2>1, <2>2, <4>1 DEF Keyed
      <4> QED
        BY <4>2, <4>3, LessAsymmetric
    <3> QED
      BY <3>1, <3>2
  <2>5. k > i
    <3>1. k # i
      BY <2>3
    <3>2. ASSUME k < i PROVE FALSE
      <4>1. a[k] = b[k]
        BY <1>3, <3>2
      <4>2. Less(b[k][1], b[i][1])
        BY <1>2, <3>2
      <4>3. b[k] = b[i] /\ b[i][1] \in Seq(Byte)
        BY <2>1, <2>3, <4>1 DEF Keyed
      <4> QED
        BY <4>2, <4>3, LessAsymmetric
    <3> QED
      BY <3>1, <3>2
  <2>6. Less(b[i][1], a[i][1]) /\ Less(a[i][1], b[i][1])
    BY <1>2, <2>2, <2>3, <2>4, <2>5
  <2>7. a[i][1] \in Seq(Byte) /\ b[i][1] \in Seq(Byte)
    BY <2>1 DEF Keyed
  <2> QED
    BY <2>6, <2>7, LessAsymmetric
<1> HIDE DEF T
<1>4. \A i \in Nat : i \in T
  BY <1>3, StrongSteps
<1>5. \A i \in 1 .. n : a[i] = b[i]
  BY <1>1, <1>4 DEF T
<1>6. a = [i \in 1 .. n |-> a[i]] /\ b = [i \in 1 .. n |-> b[i]]
  BY <1>2
<1> QED
  BY <1>5, <1>6

(* What SortedItems returns.                                               *)
LEMMA SortedItemsOf ==
  ASSUME NEW d, Keyed(d)
  PROVE  /\ SortedAs(SortedItems(d), d)
         /\ \A items : SortedAs(items, d) => SortedItems(d) = items
<1>1. PICK items : SortedAs(items, d)
  BY SortedExists
<1>2. SortedAs(SortedItems(d), d)
  <2>1. items \in [1 .. Cardinality(d) -> d]
    BY <1>1 DEF SortedAs
  <2>2. \E e \in [1 .. Cardinality(d) -> d] : SortedAs(e, d)
    BY <1>1, <2>1
  <2>3. SortedItems(d) = CHOOSE e \in [1 .. Cardinality(d) -> d] : SortedAs(e, d)
    <3>1. \A e \in [1 .. Cardinality(d) -> d] :
            SortedAs(e, d) <=> /\ ToSet(e) = d
                               /\ \A i, j \in DOMAIN e : i < j => Less(e[i][1], e[j][1])
      BY DEF SortedAs
    <3> QED
      BY <3>1 DEF SortedItems
  <2>4. SortedAs(CHOOSE e \in [1 .. Cardinality(d) -> d] : SortedAs(e, d), d)
    BY <2>2, Zenon
  <2> QED
    BY <2>3, <2>4
<1> QED
  BY <1>2, SortedUnique

-----------------------------------------------------------------------------
(* Values and their codes.                                                 *)

(* Values and their nesting.                                               *)
LEMMA ValueRules ==
  ASSUME NEW n \in Nat
  PROVE  /\ \A k \in Int : [int |-> k] \in Value[n]
         /\ \A s \in Seq(Byte) : [str |-> s] \in Value[n]
         /\ \A q \in Seq(Value[n]) : [list |-> q] \in Value[n + 1]
         /\ \A d \in Dict(Value[n]) : [dict |-> d] \in Value[n + 1]
<1>1. Value[n] = ValueStep(Value, n) /\ Value[n + 1] = ValueStep(Value, n + 1)
  BY ValueDef
<1>2. Atom \subseteq Value[n]
  BY <1>1 DEF ValueStep
<1>3. \A k \in Int : [int |-> k] \in Atom
  BY DEF Atom
<1>4. \A s \in Seq(Byte) : [str |-> s] \in Atom
  BY DEF Atom
<1>5. n + 1 # 0 /\ (n + 1) - 1 = n
  OBVIOUS
<1>6. Value[n + 1] = Atom \cup [list : Seq(Value[n])] \cup [dict : Dict(Value[n])]
  BY <1>1, <1>5 DEF ValueStep
<1>7. \A q \in Seq(Value[n]) : [list |-> q] \in [list : Seq(Value[n])]
  OBVIOUS
<1>8. \A d \in Dict(Value[n]) : [dict |-> d] \in [dict : Dict(Value[n])]
  OBVIOUS
<1> QED
  BY <1>2, <1>3, <1>4, <1>6, <1>7, <1>8

(* A value is a number, a string, a list or a dictionary.                  *)
LEMMA ValueCases ==
  ASSUME NEW n \in Nat, NEW v \in Value[n]
  PROVE  \/ \E k \in Int : v = [int |-> k]
         \/ \E s \in Seq(Byte) : v = [str |-> s]
         \/ n # 0 /\ \E q \in Seq(Value[n - 1]) : v = [list |-> q]
         \/ n # 0 /\ \E d \in Dict(Value[n - 1]) : v = [dict |-> d]
<1>1. Value[n] = ValueStep(Value, n)
  BY ValueDef
<1>2. v \in Atom => (\E k \in Int : v = [int |-> k]) \/ (\E s \in Seq(Byte) : v = [str |-> s])
  BY DEF Atom
<1>3. n # 0 => v \in Atom \cup [list : Seq(Value[n - 1])] \cup [dict : Dict(Value[n - 1])]
  BY <1>1 DEF ValueStep
<1>4. n = 0 => v \in Atom
  BY <1>1 DEF ValueStep
<1>5. v \in [list : Seq(Value[n - 1])] => \E q \in Seq(Value[n - 1]) : v = [list |-> q]
  OBVIOUS
<1>6. v \in [dict : Dict(Value[n - 1])] => \E d \in Dict(Value[n - 1]) : v = [dict |-> d]
  OBVIOUS
<1> QED
  BY <1>2, <1>3, <1>4, <1>5, <1>6

(* What may be nested less deep may be nested deeper.                      *)
LEMMA ValueMonotone ==
  ASSUME NEW n \in Nat, NEW m \in Nat, n <= m
  PROVE  Value[n] \subseteq Value[m]
<1> DEFINE T == {k \in Nat : Value[k] \subseteq Value[k + 1]}
<1>1. 0 \in T
  <2> SUFFICES ASSUME NEW v \in Value[0] PROVE v \in Value[0 + 1]
    OBVIOUS
  <2>1. (\E i \in Int : v = [int |-> i]) \/ (\E s \in Seq(Byte) : v = [str |-> s])
    BY ValueCases
  <2>2. 0 + 1 \in Nat
    OBVIOUS
  <2> QED
    BY <2>1, <2>2, ValueRules
<1>2. ASSUME NEW k \in Nat, k \in T PROVE k + 1 \in T
  <2>1. Value[k] \subseteq Value[k + 1]
    BY <1>2
  <2>2. ASSUME NEW v \in Value[k + 1] PROVE v \in Value[(k + 1) + 1]
    <3>1. k + 1 \in Nat /\ (k + 1) - 1 = k
      OBVIOUS
    <3>2. CASE \E q \in Seq(Value[k]) : v = [list |-> q]
      <4>1. PICK q \in Seq(Value[k]) : v = [list |-> q]
        BY <3>2
      <4>2. q \in Seq(Value[k + 1])
        BY <2>1, SeqMonotonic
      <4> QED
        BY <3>1, <4>1, <4>2, ValueRules
    <3>3. CASE \E d \in Dict(Value[k]) : v = [dict |-> d]
      <4>1. PICK d \in Dict(Value[k]) : v = [dict |-> d]
        BY <3>3
      <4>2. d \in Dict(Value[k + 1])
        BY <2>1 DEF Dict
      <4> QED
        BY <3>1, <4>1, <4>2, ValueRules
    <3>4. \/ \E i \in Int : v = [int |-> i]
          \/ \E s \in Seq(Byte) : v = [str |-> s]
          \/ \E q \in Seq(Value[k]) : v = [list |-> q]
          \/ \E d \in Dict(Value[k]) : v = [dict |-> d]
      BY <3>1, ValueCases
    <3>5. (k + 1) + 1 \in Nat
      OBVIOUS
    <3> QED
      BY <3>2, <3>3, <3>4, <3>5, ValueRules
  <2> QED
    BY <2>2
<1> HIDE DEF T
<1>3. \A k \in Nat : k \in T
  BY <1>1, <1>2, Steps
<1> DEFINE U == {k \in Nat : Value[n] \subseteq Value[n + k]}
<1>4. 0 \in U
  <2>1. n + 0 = n
    OBVIOUS
  <2> QED
    BY <2>1
<1>5. ASSUME NEW k \in Nat, k \in U PROVE k + 1 \in U
  <2>1. n + k \in T /\ (n + k) + 1 = n + (k + 1)
    BY <1>3
  <2>2. Value[n + k] \subseteq Value[(n + k) + 1]
    BY <2>1 DEF T
  <2> QED
    BY <1>5, <2>1, <2>2
<1> HIDE DEF U
<1>6. m - n \in U /\ n + (m - n) = m
  BY <1>4, <1>5, Steps
<1> QED
  BY <1>6 DEF U

-----------------------------------------------------------------------------
(* Codes.                                                                  *)

(* A dictionary's pairs, sorted, are a sequence with as many elements.     *)
LEMMA DictItems ==
  ASSUME NEW V, NEW d \in Dict(V)
  PROVE  /\ Keyed(d) /\ SortedItems(d) \in Seq(d) /\ SortedAs(SortedItems(d), d)
         /\ Len(SortedItems(d)) = Cardinality(d)
         /\ \A i \in 1 .. Len(SortedItems(d)) :
              SortedItems(d)[i][1] \in Seq(Byte) /\ SortedItems(d)[i][2] \in V
<1>1. Keyed(d)
  <2>1. d \subseteq Seq(Byte) \X V
    BY DEF Dict
  <2>2. \A p \in d : p[1] \in Seq(Byte)
    BY <2>1
  <2> QED
    BY <2>2 DEF Dict, Keyed
<1>2. SortedAs(SortedItems(d), d)
  BY <1>1, SortedItemsOf
<1>3. Cardinality(d) \in Nat
  BY <1>1, FS_CardinalityType DEF Keyed
<1>4. SortedItems(d) \in [1 .. Cardinality(d) -> d]
  BY <1>2 DEF SortedAs
<1>5. SortedItems(d) \in Seq(d) /\ Len(SortedItems(d)) = Cardinality(d)
  BY <1>3, <1>4
<1>6. \A i \in 1 .. Cardinality(d) : SortedItems(d)[i] \in d
  BY <1>4
<1>7. \A p \in d : p[1] \in Seq(Byte) /\ p[2] \in V
  BY DEF Dict
<1> QED
  BY <1>1, <1>2, <1>5, <1>6, <1>7

(* The codes of the parts of a list and of a dictionary, by `code`.        *)
ListParts(q, code) == [i \in DOMAIN q |-> code[q[i]]]

(* The parts of a dictionary's code, in the order of `items`.              *)
DictParts(items, code) ==
  [i \in DOMAIN items |-> EncodeString(items[i][1]) \o code[items[i][2]]]

(* Code satisfies the rules of the encoder.                                *)
LEMMA CodeRules ==
  ASSUME NEW n \in Nat
  PROVE  /\ \A k \in Int : Code[n][[int |-> k]] = EncodeInt(k)
         /\ \A s \in Seq(Byte) : Code[n][[str |-> s]] = EncodeString(s)
         /\ \A q \in Seq(Value[n]) :
              Code[n + 1][[list |-> q]] = Enclose(CharL, ListParts(q, Code[n]))
         /\ \A d \in Dict(Value[n]) :
              Code[n + 1][[dict |-> d]] = Enclose(CharD, DictParts(SortedItems(d), Code[n]))
<1> DEFINE inner(m) == IF m = 0 THEN <<>> ELSE Code[m - 1]
<1>1. ASSUME NEW m \in Nat, NEW v \in Value[m] PROVE Code[m][v] = EncodeWith(v, inner(m))
  BY CodeDef DEF CodeStep
<1>2. n + 1 \in Nat /\ inner(n + 1) = Code[n]
  <2>1. n + 1 \in Nat /\ n + 1 # 0 /\ (n + 1) - 1 = n
    OBVIOUS
  <2> QED
    BY <2>1
<1> HIDE DEF inner
<1>3. ASSUME NEW k \in Int PROVE Code[n][[int |-> k]] = EncodeInt(k)
  <2>1. Code[n][[int |-> k]] = EncodeWith([int |-> k], inner(n))
    BY <1>1, ValueRules
  <2>2. "int" \in DOMAIN [int |-> k] /\ [int |-> k].int = k
        /\ "str" \notin DOMAIN [int |-> k] /\ "list" \notin DOMAIN [int |-> k]
        /\ "dict" \notin DOMAIN [int |-> k]
    OBVIOUS
  <2> QED
    BY <2>1, <2>2 DEF EncodeWith
<1>4. ASSUME NEW s \in Seq(Byte) PROVE Code[n][[str |-> s]] = EncodeString(s)
  <2>1. Code[n][[str |-> s]] = EncodeWith([str |-> s], inner(n))
    BY <1>1, ValueRules
  <2>2. "str" \in DOMAIN [str |-> s] /\ [str |-> s].str = s
        /\ "int" \notin DOMAIN [str |-> s] /\ "list" \notin DOMAIN [str |-> s]
        /\ "dict" \notin DOMAIN [str |-> s]
    OBVIOUS
  <2> QED
    BY <2>1, <2>2 DEF EncodeWith
<1>5. ASSUME NEW q \in Seq(Value[n])
      PROVE  Code[n + 1][[list |-> q]] = Enclose(CharL, ListParts(q, Code[n]))
  <2>1. Code[n + 1][[list |-> q]] = EncodeWith([list |-> q], Code[n])
    BY <1>1, <1>2, ValueRules
  <2>2. "list" \in DOMAIN [list |-> q] /\ [list |-> q].list = q
        /\ "int" \notin DOMAIN [list |-> q] /\ "str" \notin DOMAIN [list |-> q]
        /\ "dict" \notin DOMAIN [list |-> q]
    OBVIOUS
  <2> QED
    BY <2>1, <2>2 DEF EncodeWith, ListParts
<1>6. ASSUME NEW d \in Dict(Value[n])
      PROVE  Code[n + 1][[dict |-> d]] = Enclose(CharD, DictParts(SortedItems(d), Code[n]))
  <2>1. Code[n + 1][[dict |-> d]] = EncodeWith([dict |-> d], Code[n])
    BY <1>1, <1>2, ValueRules
  <2>2. "dict" \in DOMAIN [dict |-> d] /\ [dict |-> d].dict = d
        /\ "int" \notin DOMAIN [dict |-> d] /\ "str" \notin DOMAIN [dict |-> d]
        /\ "list" \notin DOMAIN [dict |-> d]
    OBVIOUS
  <2> QED
    BY <2>1, <2>2 DEF EncodeWith, DictParts
<1> QED
  BY <1>3, <1>4, <1>5, <1>6

(* The pieces of an encoding are byte strings.                             *)
LEMMA PiecesAreBytes ==
  /\ \A n \in Int : EncodeInt(n) \in Seq(Byte)
  /\ \A s \in Seq(Byte) : /\ EncodeString(s) \in Seq(Byte)
                          /\ Decimal[Len(s)] \in Seq(Digit) /\ Decimal[Len(s)] \in Seq(Byte)
  /\ \A c \in Byte : <<c>> \in Seq(Byte)
  /\ \A c \in Byte, q \in Seq(Seq(Byte)) : Enclose(c, q) \in Seq(Byte) /\ FlattenSeq(q) \in Seq(Byte)
<1>1. \A c \in Byte : <<c>> \in Seq(Byte)
  OBVIOUS
<1>2. ASSUME NEW n \in Int PROVE EncodeInt(n) \in Seq(Byte)
  <2>1. Str(n) \in Seq(Byte) /\ <<CharI>> \in Seq(Byte) /\ <<CharE>> \in Seq(Byte)
    BY <1>1, StrOfInt, Characters
  <2> QED
    BY <2>1, ConcatProperties DEF EncodeInt
<1>3. ASSUME NEW s \in Seq(Byte)
      PROVE  /\ EncodeString(s) \in Seq(Byte)
             /\ Decimal[Len(s)] \in Seq(Digit) /\ Decimal[Len(s)] \in Seq(Byte)
  <2>1. Decimal[Len(s)] \in Seq(Digit)
    BY DecimalCanonical DEF Canonical
  <2>2. Decimal[Len(s)] \in Seq(Byte) /\ <<Colon>> \in Seq(Byte)
    BY <1>1, <2>1, SeqMonotonic, Characters
  <2>3. Decimal[Len(s)] \o <<Colon>> \in Seq(Byte)
    BY <2>2, ConcatProperties
  <2>4. (Decimal[Len(s)] \o <<Colon>>) \o s \in Seq(Byte)
    BY <2>3, ConcatProperties
  <2> QED
    BY <2>1, <2>2, <2>4 DEF EncodeString
<1>4. ASSUME NEW c \in Byte, NEW q \in Seq(Seq(Byte))
      PROVE  Enclose(c, q) \in Seq(Byte) /\ FlattenSeq(q) \in Seq(Byte)
  <2>1. FlattenSeq(q) \in Seq(Byte)
    <3>1. <<>> \in Seq(Byte)
      OBVIOUS
    <3> QED
      BY <3>1, FlattenAppend
  <2>2. <<c>> \in Seq(Byte) /\ <<CharE>> \in Seq(Byte)
    BY <1>1, Characters
  <2>3. <<c>> \o FlattenSeq(q) \in Seq(Byte)
    BY <2>1, <2>2, ConcatProperties
  <2> QED
    BY <2>1, <2>2, <2>3, ConcatProperties DEF Enclose
<1> QED
  BY <1>1, <1>2, <1>3, <1>4

(* The code of every value is a byte string.                               *)
LEMMA CodeIsBytes ==
  \A n \in Nat : \A v \in Value[n] : Code[n][v] \in Seq(Byte)
<1> DEFINE T == {n \in Nat : \A v \in Value[n] : Code[n][v] \in Seq(Byte)}
<1>0. ASSUME NEW n \in Nat, NEW v,
             (\E k \in Int : v = [int |-> k]) \/ (\E s \in Seq(Byte) : v = [str |-> s])
      PROVE  Code[n][v] \in Seq(Byte)
  <2>1. CASE \E k \in Int : v = [int |-> k]
    <3>1. PICK k \in Int : v = [int |-> k]
      BY <2>1
    <3>2. Code[n][v] = EncodeInt(k)
      BY <3>1, CodeRules
    <3> QED
      BY <3>2, PiecesAreBytes
  <2>2. CASE \E s \in Seq(Byte) : v = [str |-> s]
    <3>1. PICK s \in Seq(Byte) : v = [str |-> s]
      BY <2>2
    <3>2. Code[n][v] = EncodeString(s)
      BY <3>1, CodeRules
    <3> QED
      BY <3>2, PiecesAreBytes
  <2> QED
    BY <1>0, <2>1, <2>2
<1>1. 0 \in T
  <2> SUFFICES ASSUME NEW v \in Value[0] PROVE Code[0][v] \in Seq(Byte)
    OBVIOUS
  <2>1. (\E k \in Int : v = [int |-> k]) \/ (\E s \in Seq(Byte) : v = [str |-> s])
    BY ValueCases
  <2> QED
    BY <1>0, <2>1
<1>2. ASSUME NEW n \in Nat, n \in T PROVE n + 1 \in T
  <2> SUFFICES ASSUME NEW v \in Value[n + 1] PROVE Code[n + 1][v] \in Seq(Byte)
    OBVIOUS
  <2>1. \A w \in Value[n] : Code[n][w] \in Seq(Byte)
    BY <1>2
  <2>2. n + 1 \in Nat /\ (n + 1) - 1 = n
    OBVIOUS
  <2>3. \/ \E k \in Int : v = [int |-> k]
        \/ \E s \in Seq(Byte) : v = [str |-> s]
        \/ \E q \in Seq(Value[n]) : v = [list |-> q]
        \/ \E d \in Dict(Value[n]) : v = [dict |-> d]
    BY <2>2, ValueCases
  <2>4. CASE (\E k \in Int : v = [int |-> k]) \/ (\E s \in Seq(Byte) : v = [str |-> s])
    BY <1>0, <2>2, <2>4
  <2>5. CASE \E q \in Seq(Value[n]) : v = [list |-> q]
    <3>1. PICK q \in Seq(Value[n]) : v = [list |-> q]
      BY <2>5
    <3>2. ListParts(q, Code[n]) \in Seq(Seq(Byte))
      <4>1. DOMAIN q = 1 .. Len(q) /\ Len(q) \in Nat
        OBVIOUS
      <4>2. \A i \in 1 .. Len(q) : Code[n][q[i]] \in Seq(Byte)
        BY <2>1, ElementOfSeq
      <4> QED
        BY <4>1, <4>2 DEF ListParts
    <3>3. Code[n + 1][v] = Enclose(CharL, ListParts(q, Code[n]))
      BY <3>1, CodeRules
    <3> QED
      BY <3>2, <3>3, PiecesAreBytes, Characters
  <2>6. CASE \E d \in Dict(Value[n]) : v = [dict |-> d]
    <3>1. PICK d \in Dict(Value[n]) : v = [dict |-> d]
      BY <2>6
    <3> DEFINE q == SortedItems(d)
    <3>2. /\ DOMAIN q = 1 .. Len(q) /\ Len(q) \in Nat
          /\ \A i \in 1 .. Len(q) : q[i][1] \in Seq(Byte) /\ q[i][2] \in Value[n]
      BY DictItems
    <3> HIDE DEF q
    <3>3. \A i \in 1 .. Len(q) : EncodeString(q[i][1]) \o Code[n][q[i][2]] \in Seq(Byte)
      BY <2>1, <3>2, PiecesAreBytes, ConcatProperties
    <3>4. DictParts(q, Code[n]) \in Seq(Seq(Byte))
      BY <3>2, <3>3 DEF DictParts
    <3>5. Code[n + 1][v] = Enclose(CharD, DictParts(q, Code[n]))
      BY <3>1, CodeRules DEF q
    <3> QED
      BY <3>4, <3>5, PiecesAreBytes, Characters
  <2> QED
    BY <2>3, <2>4, <2>5, <2>6
<1> HIDE DEF T
<1>3. \A n \in Nat : n \in T
  BY <1>1, <1>2, Steps
<1> QED
  BY <1>3 DEF T

-----------------------------------------------------------------------------
(* Positions and slices.                                                   *)

(* x.index finds the first place.                                          *)
LEMMA IndexFound ==
  ASSUME x \in Seq(Byte), NEW c, NEW i \in Int, Found(c, i) # {}
  PROVE  /\ Index(c, i) \in Nat /\ FromStart(i) <= Index(c, i) /\ Index(c, i) < Len(x)
         /\ x[Index(c, i) + 1] = c
         /\ \A j \in Nat : FromStart(i) <= j /\ j < Index(c, i) => x[j + 1] # c
<1>1. Len(x) \in Nat
  OBVIOUS
<1>2. FromStart(i) \in Nat
  BY <1>1 DEF FromStart
<1>3. Found(c, i) \subseteq Nat
  BY <1>1, <1>2 DEF Found
<1>4. \E j \in Found(c, i) : \A k \in Found(c, i) : j <= k
  BY <1>3, Smallest
<1>5. Index(c, i) \in Found(c, i) /\ \A k \in Found(c, i) : Index(c, i) <= k
  BY <1>4, Zenon DEF Index, Min
<1> DEFINE n == Index(c, i)
<1> HIDE DEF n
<1>6. n \in FromStart(i) .. Len(x) - 1 /\ x[n + 1] = c
  BY <1>5 DEF Found, n
<1>7. \A j \in Nat : FromStart(i) <= j /\ j < n => x[j + 1] # c
  <2> SUFFICES ASSUME NEW j \in Nat, FromStart(i) <= j, j < n, x[j + 1] = c PROVE FALSE
    OBVIOUS
  <2>1. j \in FromStart(i) .. Len(x) - 1
    BY <1>1, <1>2, <1>6
  <2>2. j \in Found(c, i)
    BY <2>1 DEF Found
  <2>3. n <= j /\ n \in Nat
    BY <1>2, <1>5, <1>6, <2>2 DEF n
  <2> QED
    BY <2>3
<1> QED
  BY <1>1, <1>2, <1>6, <1>7 DEF n

(* The other way round: a place with no such character before it.          *)
LEMMA IndexIs ==
  ASSUME x \in Seq(Byte), NEW c, NEW i \in Nat, NEW n \in Nat, i <= n, n < Len(x),
         x[n + 1] = c, \A j \in Nat : i <= j /\ j < n => x[j + 1] # c
  PROVE  Found(c, i) # {} /\ Index(c, i) = n
<1>1. Len(x) \in Nat /\ FromStart(i) = i
  BY DEF FromStart
<1>2. n \in Found(c, i)
  BY <1>1 DEF Found
<1>3. /\ Index(c, i) \in Nat /\ i <= Index(c, i) /\ x[Index(c, i) + 1] = c
      /\ \A j \in Nat : i <= j /\ j < Index(c, i) => x[j + 1] # c
  BY <1>1, <1>2, IndexFound
<1>4. ~(Index(c, i) < n)
  BY <1>3
<1>5. ~(n < Index(c, i))
  BY <1>3
<1> QED
  BY <1>2, <1>3, <1>4, <1>5

(* A slice is a byte string; between two positions inside x it is what     *)
(* stands between them.                                                    *)
LEMMA SliceIsBytes ==
  ASSUME x \in Seq(Byte), NEW i \in Int, NEW j \in Int
  PROVE  Slice(i, j) \in Seq(Byte)
<1> DEFINE a == FromStart(i)
           b == IF FromStart(j) < Len(x) THEN FromStart(j) ELSE Len(x)
<1>1. Len(x) \in Nat
  OBVIOUS
<1>2. a \in Nat /\ b \in Nat /\ b <= Len(x)
  BY <1>1 DEF FromStart
<1> HIDE DEF a, b
<1>3. \A k \in a + 1 .. b : x[k] \in Byte
  <2>1. \A k \in a + 1 .. b : k \in 1 .. Len(x)
    BY <1>1, <1>2
  <2> QED
    BY <2>1, ElementOfSeq
<1>4. SubSeq(x, a + 1, b) \in Seq(Byte)
  BY <1>2, <1>3, SubSeqProperties
<1> QED
  BY <1>4 DEF Slice, a, b

(* x[i:j] when neither index is negative; it ends where x ends.            *)
LEMMA SliceInside ==
  ASSUME x \in Seq(Byte), NEW i \in Nat, NEW j \in Nat
  PROVE  /\ j <= Len(x) => Slice(i, j) = SubSeq(x, i + 1, j)
         /\ j > Len(x) => Slice(i, j) = SubSeq(x, i + 1, Len(x))
<1>1. Len(x) \in Nat /\ FromStart(i) = i /\ FromStart(j) = j
  BY DEF FromStart
<1>2. j <= Len(x) => (IF j < Len(x) THEN j ELSE Len(x)) = j
  BY <1>1
<1>3. j > Len(x) => (IF j < Len(x) THEN j ELSE Len(x)) = Len(x)
  BY <1>1
<1> QED
  BY <1>1, <1>2, <1>3 DEF Slice

(* int and long return a number.                                           *)
LEMMA IntOfType ==
  ASSUME NEW s \in Seq(Byte), IsInt(s)
  PROVE  IntOf(s) \in Int
<1>1. PICK first \in 1 .. Len(s), last \in 1 .. Len(s) : first <= last /\ DigitsAt(s) = first .. last
  BY BytesAreNumbers DEF IsInt
<1>2. Min(DigitsAt(s)) = first /\ Max(DigitsAt(s)) = last
  BY <1>1, MinMaxInterval
<1>3. \A k \in first .. last : s[k] \in Digit
  BY <1>1 DEF DigitsAt
<1>4. SubSeq(s, first, last) \in Seq(Digit)
  BY <1>3, SubSeqProperties
<1>5. NaturalOf(SubSeq(s, first, last)) \in Nat
  <2>1. 48 \in Digit
    BY DEF Digit
  <2> QED
    BY <1>4, <2>1, NaturalOfAppend
<1> QED
  BY <1>2, <1>5 DEF IntOf

(* What decode_string returns.                                             *)
LEMMA StringType ==
  ASSUME x \in Seq(Byte), NEW i \in Int, IsString(i)
  PROVE  StringAt(i) \in Seq(Byte) /\ StringEnd(i) \in Int
<1>1. Found(Colon, i) # {} /\ IsInt(Slice(i, Index(Colon, i)))
  BY DEF IsString
<1>2. Index(Colon, i) \in Nat
  BY <1>1, IndexFound
<1>3. Slice(i, Index(Colon, i)) \in Seq(Byte)
  BY <1>2, SliceIsBytes
<1>4. IntOf(Slice(i, Index(Colon, i))) \in Int
  BY <1>1, <1>3, IntOfType
<1>5. StringEnd(i) \in Int
  BY <1>2, <1>4 DEF StringEnd
<1> QED
  BY <1>2, <1>5, SliceIsBytes DEF StringAt

(* What decode_int returns.                                                *)
LEMMA IntType ==
  ASSUME x \in Seq(Byte), f \in Int, ReadsInt
  PROVE  /\ Index(CharE, f + 1) \in Int
         /\ IntOf(Slice(f + 1, Index(CharE, f + 1))) \in Int
<1>1. Found(CharE, f + 1) # {} /\ IsInt(Slice(f + 1, Index(CharE, f + 1)))
  BY DEF ReadsInt, IntAllowed
<1>2. f + 1 \in Int
  OBVIOUS
<1>3. Index(CharE, f + 1) \in Nat
  BY <1>1, <1>2, IndexFound
<1>4. Slice(f + 1, Index(CharE, f + 1)) \in Seq(Byte)
  BY <1>2, <1>3, SliceIsBytes
<1> QED
  BY <1>1, <1>3, <1>4, IntOfType

-----------------------------------------------------------------------------
(* The calls under way.                                                    *)

(* CallOK of the k-th call c.                                              *)
CallFits(c, k) ==
  /\ c.items \in Seq(Value[MaxDepth - k])
  /\ c.kind = "list" => c.keys = <<>>
  /\ c.kind = "dict" => Len(c.keys) - Len(c.items) \in {0, 1}
  /\ \A i, j \in DOMAIN c.keys : i < j => Less(c.keys[i], c.keys[j])

(* The calls under way, each fit for its depth.                            *)
Stacked(cs) ==
  /\ cs \in Seq(CallRecord) /\ Len(cs) <= MaxDepth
  /\ \A k \in 1 .. Len(cs) : CallFits(cs[k], k)

(* Each of the first n calls has decoded the key of the value it waits for.*)
Waiting(cs, n) ==
  \A k \in 1 .. n : cs[k].kind = "dict" => Len(cs[k].keys) = Len(cs[k].items) + 1

(* A call's fields.                                                        *)
LEMMA CallFields ==
  ASSUME NEW c \in CallRecord
  PROVE  /\ c.kind \in {"list", "dict"} /\ c.items \in Seq(Value[MaxDepth])
         /\ c.keys \in Seq(Seq(Byte))
         /\ Len(c.items) \in Nat /\ Len(c.keys) \in Nat /\ DOMAIN c.keys = 1 .. Len(c.keys)
         /\ DOMAIN c.items = 1 .. Len(c.items)
<1>1. /\ c.kind \in {"list", "dict"} /\ c.items \in Seq(Value[MaxDepth])
      /\ c.keys \in Seq(Seq(Byte))
  BY DEF CallRecord
<1> QED
  BY <1>1, LenProperties

(* A sequence whose last element is replaced.                              *)
LEMMA LastReplaced ==
  ASSUME NEW S, NEW cs \in Seq(S), cs # <<>>, NEW d \in S,
         NEW new, new = [cs EXCEPT ![Len(cs)] = d]
  PROVE  /\ new \in Seq(S) /\ Len(new) = Len(cs)
         /\ \A k \in 1 .. Len(cs) : new[k] = IF k = Len(cs) THEN d ELSE cs[k]
<1>1. Len(cs) \in 1 .. Len(cs)
  OBVIOUS
<1> QED
  BY <1>1, ExceptSeq

(* The last call with one more item, or one more key.                      *)
WithItem(cs, v) == [cs EXCEPT ![Len(cs)].items = Append(@, v)]

WithKey(cs, key) == [cs EXCEPT ![Len(cs)].keys = Append(@, key)]

(* How the calls look when the last one gets an item.                      *)
LEMMA ItemAdded ==
  ASSUME NEW cs, Stacked(cs), cs # <<>>, Waiting(cs, Len(cs)),
         NEW v \in Value[MaxDepth - Len(cs)],
         NEW new, new = WithItem(cs, v)
  PROVE  /\ Len(new) = Len(cs) /\ Len(cs) \in Nat /\ Len(cs) > 0
         /\ \A k \in 1 .. Len(cs) - 1 : new[k] = cs[k]
         /\ new[Len(cs)].kind = cs[Len(cs)].kind
         /\ new[Len(cs)].keys = cs[Len(cs)].keys
         /\ new[Len(cs)].items = Append(cs[Len(cs)].items, v)
         /\ Stacked(new) /\ Waiting(new, Len(new) - 1)
<1> DEFINE L == Len(cs)
           c == cs[L]
           d == [c EXCEPT !.items = Append(@, v)]
<1>1. cs \in Seq(CallRecord) /\ L \in Nat /\ L > 0 /\ L <= MaxDepth /\ L \in 1 .. L
  BY DEF Stacked
<1>2. c \in CallRecord /\ CallFits(c, L) /\ (c.kind = "dict" => Len(c.keys) = Len(c.items) + 1)
  BY <1>1, ElementOfSeq DEF Stacked, Waiting
<1>3. MaxDepth - L \in Nat /\ MaxDepth - L <= MaxDepth /\ MaxDepth \in Nat
  BY <1>1, BencodeAssumption
<1>4. v \in Value[MaxDepth]
  BY <1>3, ValueMonotone
<1>5. d.kind = c.kind /\ d.keys = c.keys /\ d.items = Append(c.items, v)
  BY <1>2 DEF CallRecord
<1>6. d \in CallRecord
  <2>1. Append(c.items, v) \in Seq(Value[MaxDepth])
    BY <1>2, <1>4, CallFields, AppendProperties
  <2> QED
    BY <1>2, <2>1 DEF CallRecord
<1>7. CallFits(d, L)
  <2>1. Append(c.items, v) \in Seq(Value[MaxDepth - L]) /\ Len(Append(c.items, v)) = Len(c.items) + 1
    <3> DEFINE V == Value[MaxDepth - L]
               q == c.items
    <3>1. q \in Seq(V)
      BY <1>2 DEF CallFits
    <3>2. v \in V
      OBVIOUS
    <3> HIDE DEF V, q
    <3>3. Append(q, v) \in Seq(V) /\ Len(Append(q, v)) = Len(q) + 1
      BY <3>1, <3>2, AppendProperties
    <3> QED
      BY <3>3 DEF V, q
  <2>2. Len(c.items) \in Nat /\ Len(c.keys) \in Nat
    BY <1>2, CallFields
  <2>3. c.kind = "dict" => Len(c.keys) - Len(Append(c.items, v)) \in {0, 1}
    BY <1>2, <2>1, <2>2
  <2> HIDE DEF c, d
  <2> QED
    BY <1>2, <1>5, <2>1, <2>3 DEF CallFits
<1>8. new = [cs EXCEPT ![L] = d]
  BY <1>1 DEF WithItem
<1> HIDE DEF c, d
<1>9. /\ new \in Seq(CallRecord) /\ Len(new) = L
      /\ \A k \in 1 .. L : new[k] = IF k = L THEN d ELSE cs[k]
  BY <1>1, <1>6, <1>8, LastReplaced
<1>10. new[L] = d /\ \A k \in 1 .. L - 1 : new[k] = cs[k]
  BY <1>1, <1>9
<1>11. Stacked(new)
  <2>1. \A k \in 1 .. L : CallFits(new[k], k)
    BY <1>7, <1>9 DEF Stacked
  <2> QED
    BY <1>1, <1>9, <2>1 DEF Stacked
<1>12. Waiting(new, Len(new) - 1)
  <2>1. \A k \in 1 .. L - 1 : k \in 1 .. L
    BY <1>1
  <2> QED
    BY <1>9, <1>10, <2>1 DEF Waiting
<1> QED
  BY <1>1, <1>5, <1>9, <1>10, <1>11, <1>12 DEF c

(* How they look when decode_dict has read a key.                          *)
LEMMA KeyAdded ==
  ASSUME NEW cs, Stacked(cs), cs # <<>>, Waiting(cs, Len(cs) - 1),
         cs[Len(cs)].kind = "dict", Len(cs[Len(cs)].keys) = Len(cs[Len(cs)].items),
         NEW key \in Seq(Byte),
         cs[Len(cs)].keys # <<>> => Less(Last(cs[Len(cs)].keys), key),
         NEW new, new = WithKey(cs, key)
  PROVE  /\ Len(new) = Len(cs) /\ Len(cs) \in Nat /\ Len(cs) > 0
         /\ \A k \in 1 .. Len(cs) - 1 : new[k] = cs[k]
         /\ new[Len(cs)].kind = cs[Len(cs)].kind
         /\ new[Len(cs)].keys = Append(cs[Len(cs)].keys, key)
         /\ new[Len(cs)].items = cs[Len(cs)].items
         /\ Stacked(new) /\ Waiting(new, Len(new))
<1> DEFINE L == Len(cs)
           c == cs[L]
           d == [c EXCEPT !.keys = Append(@, key)]
<1>1. cs \in Seq(CallRecord) /\ L \in Nat /\ L > 0 /\ L <= MaxDepth /\ L \in 1 .. L
  BY DEF Stacked
<1>2. c \in CallRecord /\ CallFits(c, L) /\ c.kind = "dict" /\ Len(c.keys) = Len(c.items)
      /\ (c.keys # <<>> => Less(Last(c.keys), key))
  BY <1>1, ElementOfSeq DEF Stacked
<1>3. d.kind = c.kind /\ d.keys = Append(c.keys, key) /\ d.items = c.items
  BY <1>2 DEF CallRecord
<1>4. /\ c.keys \in Seq(Seq(Byte)) /\ Len(c.keys) \in Nat /\ DOMAIN c.keys = 1 .. Len(c.keys)
  BY <1>2, CallFields
<1>5. /\ Append(c.keys, key) \in Seq(Seq(Byte)) /\ Len(Append(c.keys, key)) = Len(c.keys) + 1
      /\ Append(c.keys, key)[Len(c.keys) + 1] = key
      /\ \A i \in 1 .. Len(c.keys) : Append(c.keys, key)[i] = c.keys[i]
      /\ DOMAIN Append(c.keys, key) = 1 .. Len(c.keys) + 1
  <2> DEFINE q == c.keys
  <2>1. q \in Seq(Seq(Byte))
    BY <1>4
  <2> HIDE DEF q
  <2>2. /\ Append(q, key) \in Seq(Seq(Byte)) /\ Len(Append(q, key)) = Len(q) + 1
        /\ Append(q, key)[Len(q) + 1] = key
        /\ \A i \in 1 .. Len(q) : Append(q, key)[i] = q[i]
    BY <2>1, AppendProperties
  <2>3. DOMAIN Append(q, key) = 1 .. Len(q) + 1
    BY <2>2, LenProperties
  <2> QED
    BY <2>2, <2>3 DEF q
<1>6. d \in CallRecord
  BY <1>2, <1>5 DEF CallRecord
<1> DEFINE ks == Append(c.keys, key)
<1>7. \A i, j \in 1 .. Len(c.keys) : i < j => Less(c.keys[i], c.keys[j])
  BY <1>2, <1>4 DEF CallFits
<1>8. \A i \in 1 .. Len(c.keys) : Less(c.keys[i], key)
  <2> SUFFICES ASSUME NEW i \in 1 .. Len(c.keys) PROVE Less(c.keys[i], key)
    OBVIOUS
  <2>1. c.keys # <<>> /\ Len(c.keys) \in 1 .. Len(c.keys)
    BY <1>4
  <2>2. Less(c.keys[Len(c.keys)], key)
    BY <1>2, <2>1 DEF Last
  <2>3. c.keys[i] \in Seq(Byte) /\ c.keys[Len(c.keys)] \in Seq(Byte)
    BY <1>4, <2>1, ElementOfSeq
  <2>4. CASE i < Len(c.keys)
    BY <1>7, <2>1, <2>2, <2>3, <2>4, LessTransitive
  <2>5. CASE i = Len(c.keys)
    BY <2>2, <2>5
  <2> QED
    BY <1>4, <2>4, <2>5
<1> HIDE DEF c, d, ks
<1>9. ASSUME NEW i \in DOMAIN ks, NEW j \in DOMAIN ks, i < j PROVE Less(ks[i], ks[j])
  <2>1. i \in 1 .. Len(c.keys) /\ ks[i] = c.keys[i] /\ j \in 1 .. Len(c.keys) + 1
    BY <1>4, <1>5, <1>9 DEF ks
  <2>2. CASE j = Len(c.keys) + 1
    <3>1. ks[j] = key
      BY <1>5, <2>2 DEF ks
    <3> QED
      BY <1>8, <2>1, <3>1
  <2>3. CASE j \in 1 .. Len(c.keys)
    <3>1. ks[j] = c.keys[j]
      BY <1>5, <2>3 DEF ks
    <3> QED
      BY <1>7, <1>9, <2>1, <2>3, <3>1
  <2>4. j = Len(c.keys) + 1 \/ j \in 1 .. Len(c.keys)
    <3>1. \A n \in Nat : \A m \in 1 .. n + 1 : m = n + 1 \/ m \in 1 .. n
      OBVIOUS
    <3> QED
      BY <1>4, <2>1, <3>1
  <2> QED
    BY <2>2, <2>3, <2>4
<1>10. CallFits(d, L)
  <2>1. Len(ks) - Len(c.items) = 1
    BY <1>2, <1>4, <1>5 DEF ks
  <2>2. d.keys = ks
    BY <1>3 DEF ks
  <2> QED
    BY <1>2, <1>3, <1>9, <2>1, <2>2 DEF CallFits
<1>11. new = [cs EXCEPT ![L] = d]
  BY <1>1 DEF c, d, WithKey
<1>12. /\ new \in Seq(CallRecord) /\ Len(new) = L
       /\ \A k \in 1 .. L : new[k] = IF k = L THEN d ELSE cs[k]
  BY <1>1, <1>6, <1>11, LastReplaced
<1>13. new[L] = d /\ \A k \in 1 .. L - 1 : new[k] = cs[k]
  BY <1>1, <1>12
<1>14. Stacked(new)
  <2>1. \A k \in 1 .. L : CallFits(new[k], k)
    BY <1>10, <1>12 DEF Stacked
  <2> QED
    BY <1>1, <1>12, <2>1 DEF Stacked
<1>15. Waiting(new, Len(new))
  <2>1. Len(d.keys) = Len(d.items) + 1
    BY <1>2, <1>3, <1>5
  <2>2. \A k \in 1 .. L : k = L \/ k \in 1 .. L - 1
    BY <1>1
  <2> QED
    BY <1>12, <1>13, <2>1, <2>2 DEF Waiting
<1> QED
  BY <1>1, <1>3, <1>12, <1>13, <1>14, <1>15 DEF c

(* A key that the last call accepts, and the calls when it has it.         *)
TakesKey(cs, key) ==
  /\ Stacked(cs) /\ cs # <<>> /\ Waiting(cs, Len(cs) - 1)
  /\ cs[Len(cs)].kind = "dict" /\ Len(cs[Len(cs)].keys) = Len(cs[Len(cs)].items)
  /\ key \in Seq(Byte)
  /\ cs[Len(cs)].keys # <<>> => Less(Last(cs[Len(cs)].keys), key)

(* The last call has one more key, the others are as they were.            *)
KeyTaken(new, cs, key) ==
  /\ Len(new) = Len(cs) /\ \A k \in 1 .. Len(cs) - 1 : new[k] = cs[k]
  /\ new[Len(cs)].kind = cs[Len(cs)].kind
  /\ new[Len(cs)].keys = Append(cs[Len(cs)].keys, key)
  /\ new[Len(cs)].items = cs[Len(cs)].items

(* KeyAdded, in these terms.                                               *)
LEMMA TakesItsKey ==
  ASSUME NEW cs, NEW key, TakesKey(cs, key)
  PROVE  KeyTaken(WithKey(cs, key), cs, key)
<1> DEFINE new == WithKey(cs, key)
<1>1. new = WithKey(cs, key)
  OBVIOUS
<1> HIDE DEF new
<1>2. KeyTaken(new, cs, key)
  BY <1>1, KeyAdded DEF TakesKey, KeyTaken
<1> QED
  BY <1>2 DEF new

-----------------------------------------------------------------------------
(* The type invariant: every reachable state is one of the types it        *)
(* states.                                                                 *)

(* The inductive invariant: besides the types, every call but the last     *)
(* waits for a value, decode_dict after its key.                           *)
IInv == TypeOK /\ Waiting(calls, Len(calls) - 1)

(* What the inductive invariant says of the state, for the steps below.    *)
LEMMA Types ==
  ASSUME IInv
  PROVE  /\ x \in Seq(Byte) /\ Len(x) \in Nat /\ f \in Int
         /\ Stacked(calls) /\ calls \in Seq(CallRecord) /\ Len(calls) \in Nat
         /\ Waiting(calls, Len(calls) - 1)
         /\ calls # <<>> => /\ Len(calls) > 0 /\ Last(calls) = calls[Len(calls)]
                            /\ Last(calls) \in CallRecord
                            /\ CallFits(Last(calls), Len(calls))
<1>1. x \in Seq(Byte) /\ f \in Int /\ calls \in Seq(CallRecord) /\ Len(calls) <= MaxDepth
      /\ \A k \in DOMAIN calls : CallOK(k)
  BY DEF IInv, TypeOK
<1>2. Len(calls) \in Nat /\ DOMAIN calls = 1 .. Len(calls) /\ Len(x) \in Nat
  BY <1>1, LenProperties
<1>3. \A k \in 1 .. Len(calls) : CallFits(calls[k], k)
  BY <1>1, <1>2 DEF CallOK, CallFits
<1>4. Stacked(calls)
  BY <1>1, <1>3 DEF Stacked
<1>5. calls # <<>> => Len(calls) > 0 /\ Len(calls) \in 1 .. Len(calls)
  BY <1>1, <1>2
<1>6. calls # <<>> => calls[Len(calls)] \in CallRecord /\ CallFits(calls[Len(calls)], Len(calls))
  BY <1>1, <1>3, <1>5, ElementOfSeq
<1> QED
  BY <1>1, <1>2, <1>4, <1>5, <1>6 DEF IInv, Last

(* A value is only read when the last call waits for one too.              *)
LEMMA ValueAwaited ==
  ASSUME IInv, ~AwaitsKey
  PROVE  Waiting(calls, Len(calls))
<1> SUFFICES ASSUME NEW k \in 1 .. Len(calls), calls[k].kind = "dict"
             PROVE  Len(calls[k].keys) = Len(calls[k].items) + 1
  BY DEF Waiting
<1>1. CASE k = Len(calls)
  <2>1. calls # <<>> /\ Last(calls) = calls[k] /\ Last(calls) \in CallRecord
        /\ CallFits(Last(calls), k)
    BY <1>1, Types
  <2>2. Len(Last(calls).keys) # Len(Last(calls).items)
    BY <2>1 DEF AwaitsKey
  <2>3. Len(Last(calls).keys) \in Nat /\ Len(Last(calls).items) \in Nat
    BY <2>1, CallFields
  <2>4. Len(Last(calls).keys) - Len(Last(calls).items) \in {0, 1}
    BY <2>1 DEF CallFits
  <2> QED
    BY <2>1, <2>2, <2>3, <2>4
<1>2. CASE k # Len(calls)
  <2>1. k \in 1 .. Len(calls) - 1
    BY <1>2, Types
  <2> QED
    BY <2>1, Types DEF Waiting
<1> QED
  BY <1>1, <1>2

(* The calls without the last one.                                         *)
LEMMA Popped ==
  ASSUME IInv, calls # <<>>
  PROVE  /\ Len(Front(calls)) = Len(calls) - 1 /\ Stacked(Front(calls))
         /\ Waiting(Front(calls), Len(calls) - 1)
         /\ \A k \in 1 .. Len(calls) - 1 : Front(calls)[k] = calls[k]
         /\ Front(calls) = <<>> => Len(calls) = 1
<1> DEFINE L == Len(calls)
           cs == Front(calls)
<1>1. calls \in Seq(CallRecord) /\ L \in Nat /\ L > 0 /\ Stacked(calls) /\ Waiting(calls, L - 1)
  BY Types
<1>2. \A k \in 1 .. L - 1 : calls[k] \in CallRecord
  BY <1>1, ElementOfSeq
<1>3. /\ SubSeq(calls, 1, L - 1) \in Seq(CallRecord)
      /\ Len(SubSeq(calls, 1, L - 1)) = IF 1 <= L - 1 THEN (L - 1) - 1 + 1 ELSE 0
      /\ \A k \in 1 .. (L - 1) - 1 + 1 : SubSeq(calls, 1, L - 1)[k] = calls[1 + k - 1]
  BY <1>1, <1>2, SubSeqProperties
<1>4. (L - 1) - 1 + 1 = L - 1 /\ (\A k \in Int : 1 + k - 1 = k)
      /\ (IF 1 <= L - 1 THEN (L - 1) - 1 + 1 ELSE 0) = L - 1
  <2>1. \A m \in Nat : m > 0 => /\ (m - 1) - 1 + 1 = m - 1
                               /\ (IF 1 <= m - 1 THEN (m - 1) - 1 + 1 ELSE 0) = m - 1
    OBVIOUS
  <2>2. \A k \in Int : 1 + k - 1 = k
    OBVIOUS
  <2> QED
    BY <1>1, <2>1, <2>2
<1>5. cs \in Seq(CallRecord) /\ Len(cs) = L - 1
  BY <1>3, <1>4 DEF Front
<1>6. \A k \in 1 .. L - 1 : cs[k] = calls[k]
  BY <1>3, <1>4 DEF Front
<1> HIDE DEF cs
<1>7. \A k \in 1 .. L - 1 : k \in 1 .. L
  BY <1>1
<1>8. Stacked(cs)
  <2>1. L - 1 <= MaxDepth
    BY <1>1, BencodeAssumption DEF Stacked
  <2> QED
    BY <1>1, <1>5, <1>6, <1>7, <2>1 DEF Stacked
<1>9. Waiting(cs, L - 1)
  BY <1>1, <1>6 DEF Waiting
<1>10. cs = <<>> => L = 1
  BY <1>1, <1>5
<1> QED
  BY <1>5, <1>6, <1>8, <1>9, <1>10 DEF cs

(* A dictionary decode_dict returns, and its pairs in the order they were  *)
(* read: the one bencode would write them in.                              *)
Pairs(c) == [i \in 1 .. Len(c.items) |-> <<c.keys[i], c.items[i]>>]

(* What decode_dict returns is a dictionary, and its items sorted are the  *)
(* pairs in the order in which they were read.                             *)
LEMMA CollectedDict ==
  ASSUME NEW c \in CallRecord, NEW k \in 1 .. MaxDepth, CallFits(c, k), c.kind = "dict",
         Len(c.keys) = Len(c.items)
  PROVE  \E d \in Dict(Value[MaxDepth - k]) :
           Collected(c) = [dict |-> d] /\ SortedItems(d) = Pairs(c)
<1> DEFINE n == Len(c.items)
           V == Value[MaxDepth - k]
           d == {<<c.keys[i], c.items[i]>> : i \in 1 .. n}
<1>1. /\ n \in Nat /\ DOMAIN c.items = 1 .. n /\ DOMAIN c.keys = 1 .. n
      /\ c.keys \in Seq(Seq(Byte))
  BY CallFields
<1>2. Collected(c) = [dict |-> d]
  BY <1>1 DEF Collected
<1>3. \A i \in 1 .. n : c.keys[i] \in Seq(Byte)
  BY <1>1, ElementOfSeq
<1>4. \A i \in 1 .. n : c.items[i] \in V
  <2>1. c.items \in Seq(V)
    BY DEF CallFits
  <2> HIDE DEF V
  <2> QED
    BY <2>1, ElementOfSeq
<1>5. \A i, j \in 1 .. n : i < j => Less(c.keys[i], c.keys[j])
  BY <1>1 DEF CallFits
<1>6. \A i, j \in 1 .. n : c.keys[i] = c.keys[j] => i = j
  <2> SUFFICES ASSUME NEW i \in 1 .. n, NEW j \in 1 .. n, c.keys[i] = c.keys[j], i # j PROVE FALSE
    OBVIOUS
  <2>1. c.keys[i] \in Seq(Byte)
    BY <1>3
  <2>2. Less(c.keys[i], c.keys[j]) \/ Less(c.keys[j], c.keys[i])
    <3>1. i < j \/ j < i
      BY <1>1
    <3> QED
      BY <1>5, <3>1
  <2>3. Less(c.keys[i], c.keys[i])
    BY <2>2
  <2> QED
    BY <2>1, <2>3, LessAsymmetric
<1>7. /\ \A i \in 1 .. n : Pairs(c)[i] = <<c.keys[i], c.items[i]>>
      /\ DOMAIN Pairs(c) = 1 .. n /\ Pairs(c) \in [1 .. n -> d]
  BY DEF Pairs
<1>8. IsFiniteSet(d) /\ Cardinality(d) = n
  <2>1. Pairs(c) \in Bijection(1 .. n, d)
    <3>1. \A i, j \in 1 .. n : Pairs(c)[i] = Pairs(c)[j] => i = j
      BY <1>6, <1>7
    <3>2. \A e \in d : \E i \in 1 .. n : Pairs(c)[i] = e
      BY <1>7
    <3> HIDE DEF d
    <3> QED
      BY <1>7, <3>1, <3>2 DEF Bijection, Injection, Surjection, IsInjective
  <2>2. ExistsBijection(1 .. n, d)
    BY <2>1 DEF ExistsBijection
  <2>3. IsFiniteSet(1 .. n) /\ Cardinality(1 .. n) = n
    BY <1>1, FS_Interval
  <2> HIDE DEF d, n
  <2> QED
    BY <2>2, <2>3, FS_Bijection
<1>9. d \in Dict(V)
  <2>1. \A e \in d : e \in Seq(Byte) \X V
    BY <1>3, <1>4
  <2>2. \A p, q \in d : p[1] = q[1] => p = q
    BY <1>6
  <2> HIDE DEF d, V
  <2> QED
    BY <1>8, <2>1, <2>2 DEF Dict
<1>10. SortedAs(Pairs(c), d)
  <2>1. ToSet(Pairs(c)) = d
    BY <1>7 DEF ToSet
  <2>2. \A i \in 1 .. n : Pairs(c)[i][1] = c.keys[i]
    BY <1>7
  <2> HIDE DEF d
  <2> QED
    BY <1>5, <1>7, <1>8, <2>1, <2>2 DEF SortedAs
<1>11. SortedItems(d) = Pairs(c)
  <2> HIDE DEF d, V
  <2> QED
    BY <1>9, <1>10, DictItems, SortedItemsOf
<1> QED
  BY <1>2, <1>9, <1>11

(* What a call returns is nested one level deeper than its items.          *)
LEMMA CollectedValue ==
  ASSUME IInv, AwaitsEnd
  PROVE  Collected(Last(calls)) \in Value[MaxDepth - (Len(calls) - 1)]
<1> DEFINE L == Len(calls)
           c == Last(calls)
<1>1. L \in Nat /\ L > 0 /\ L <= MaxDepth /\ c \in CallRecord /\ CallFits(c, L) /\ MaxDepth \in Nat
  BY Types, BencodeAssumption DEF AwaitsEnd, Stacked
<1>2. MaxDepth - L \in Nat /\ MaxDepth - (L - 1) = (MaxDepth - L) + 1 /\ L \in 1 .. MaxDepth
  BY <1>1
<1>3. c.kind \in {"list", "dict"} /\ (c.kind # "list" => Len(c.keys) = Len(c.items))
  BY <1>1, CallFields DEF AwaitsEnd, AwaitsKey
<1> HIDE DEF c, L
<1>4. CASE c.kind = "list"
  <2>1. Collected(c) = [list |-> c.items]
    BY <1>4 DEF Collected
  <2>2. c.items \in Seq(Value[MaxDepth - L])
    BY <1>1 DEF CallFits
  <2>3. [list |-> c.items] \in Value[(MaxDepth - L) + 1]
    BY <1>2, <2>2, ValueRules
  <2> QED
    BY <1>2, <2>1, <2>3 DEF c, L
<1>5. CASE c.kind # "list"
  <2>1. c.kind = "dict" /\ Len(c.keys) = Len(c.items)
    BY <1>3, <1>5
  <2>2. PICK d \in Dict(Value[MaxDepth - L]) : Collected(c) = [dict |-> d]
    BY <1>1, <1>2, <2>1, CollectedDict
  <2>3. [dict |-> d] \in Value[(MaxDepth - L) + 1]
    BY <1>2, ValueRules
  <2> QED
    BY <1>2, <2>2, <2>3 DEF c, L
<1> QED
  BY <1>4, <1>5

(* The inductive invariant holds at the start.                             *)
LEMMA InitInvariant ==
  Init => IInv
<1> SUFFICES ASSUME Init PROVE IInv
  OBVIOUS
<1>1. x \in Seq(Byte) /\ f = 0 /\ calls = <<>> /\ outcome = "reading" /\ r = <<>>
  BY BencodeAssumption DEF Init
<1>2. calls \in Seq(CallRecord) /\ Len(calls) = 0 /\ DOMAIN calls = {}
  BY <1>1
<1>3. Len(calls) <= MaxDepth
  BY <1>2, BencodeAssumption
<1>4. TypeOK
  BY <1>1, <1>2, <1>3 DEF TypeOK
<1>5. Waiting(calls, Len(calls) - 1)
  BY <1>2 DEF Waiting
<1> QED
  BY <1>4, <1>5 DEF IInv

(* The invariant from what it says of the calls.                           *)
LEMMA FromCalls ==
  ASSUME x' \in Seq(Byte), f' \in Int, Stacked(calls'), Waiting(calls', Len(calls') - 1),
         outcome' \in {"reading", "ok", "ValueError", "RuntimeError"},
         outcome' = "ok" => r' \in Value[MaxDepth]
  PROVE  IInv'
<1>1. /\ calls' \in Seq(CallRecord) /\ Len(calls') <= MaxDepth
      /\ \A k \in 1 .. Len(calls') : CallFits(calls'[k], k)
  BY DEF Stacked
<1>2. DOMAIN calls' = 1 .. Len(calls')
  BY <1>1, LenProperties
<1>3. \A k \in DOMAIN calls' : CallOK(k)'
  BY <1>1, <1>2 DEF CallOK, CallFits
<1>4. TypeOK'
  BY <1>1, <1>3 DEF TypeOK
<1> QED
  BY <1>4 DEF IInv

(* A decoded value keeps the invariant.                                    *)
LEMMA ReturnTypes ==
  ASSUME x \in Seq(Byte), x' = x, outcome = "reading",
         NEW cs, Stacked(cs), Waiting(cs, Len(cs)),
         NEW v \in Value[MaxDepth - Len(cs)], NEW next \in Int, Return(cs, v, next)
  PROVE  IInv'
<1>1. f' \in Int
  BY DEF Return
<1>2. CASE cs = <<>>
  <2>1. /\ calls' = <<>> /\ r' = v
        /\ outcome' = IF next = Len(x) THEN "ok" ELSE "ValueError"
    BY <1>2 DEF Return
  <2>2. Len(cs) = 0 /\ MaxDepth - 0 = MaxDepth
    BY <1>2, BencodeAssumption
  <2>3. r' \in Value[MaxDepth]
    BY <2>1, <2>2
  <2>4. outcome' \in {"reading", "ok", "ValueError", "RuntimeError"}
    BY <2>1
  <2>5. Stacked(calls') /\ Waiting(calls', Len(calls') - 1)
    <3>1. calls' = cs /\ Len(calls') = 0
      BY <1>2, <2>1
    <3> QED
      BY <3>1 DEF Waiting
  <2> QED
    BY <1>1, <2>3, <2>4, <2>5, FromCalls
<1>3. CASE cs # <<>>
  <2>1. calls' = WithItem(cs, v) /\ outcome' = outcome
    BY <1>3 DEF Return, WithItem
  <2>2. Stacked(calls') /\ Waiting(calls', Len(calls') - 1)
    BY <1>3, <2>1, ItemAdded
  <2>3. outcome' = "reading"
    BY <2>1
  <2> QED
    BY <1>1, <2>2, <2>3, FromCalls
<1> QED
  BY <1>2, <1>3

(* Every step keeps it, one case per action.                               *)
LEMMA StepInvariant ==
  IInv /\ [Next]_vars => IInv'
<1> SUFFICES ASSUME IInv, [Next]_vars PROVE IInv'
  OBVIOUS
<1>1. /\ x \in Seq(Byte) /\ f \in Int /\ Stacked(calls) /\ Waiting(calls, Len(calls) - 1)
      /\ Len(calls) \in Nat /\ Len(calls) <= MaxDepth /\ MaxDepth \in Nat
      /\ MaxDepth - Len(calls) \in Nat
  BY Types, BencodeAssumption DEF Stacked
<1>2. CASE UNCHANGED vars
  <2>1. x' = x /\ f' = f /\ calls' = calls /\ outcome' = outcome /\ r' = r
    BY <1>2 DEF vars
  <2>2. outcome' \in {"reading", "ok", "ValueError", "RuntimeError"}
        /\ (outcome' = "ok" => r' \in Value[MaxDepth])
    BY <2>1 DEF IInv, TypeOK
  <2> QED
    BY <1>1, <2>1, <2>2, FromCalls
<1>3. CASE Next
  <2>1. x' = x /\ outcome = "reading"
    BY <1>3 DEF Next
  <2>2. CASE DecodeInt
    <3>1. ReadsInt /\ ~AwaitsKey
          /\ Return(calls, [int |-> IntOf(Slice(f + 1, Index(CharE, f + 1)))],
                    Index(CharE, f + 1) + 1)
      BY <2>2 DEF DecodeInt, ReadsInt
    <3>2. Index(CharE, f + 1) + 1 \in Int /\ IntOf(Slice(f + 1, Index(CharE, f + 1))) \in Int
      BY <1>1, <3>1, IntType
    <3>3. [int |-> IntOf(Slice(f + 1, Index(CharE, f + 1)))] \in Value[MaxDepth - Len(calls)]
      BY <1>1, <3>2, ValueRules
    <3>4. Waiting(calls, Len(calls))
      BY <3>1, ValueAwaited
    <3> QED
      BY <1>1, <2>1, <3>1, <3>2, <3>3, <3>4, ReturnTypes
  <2>3. CASE DecodeString
    <3>1. ReadsString /\ ~AwaitsKey /\ IsString(f)
          /\ Return(calls, [str |-> StringAt(f)], StringEnd(f))
      BY <2>3 DEF DecodeString, ReadsString
    <3>2. StringAt(f) \in Seq(Byte) /\ StringEnd(f) \in Int
      BY <1>1, <3>1, StringType
    <3>3. [str |-> StringAt(f)] \in Value[MaxDepth - Len(calls)]
      BY <1>1, <3>2, ValueRules
    <3>4. Waiting(calls, Len(calls))
      BY <3>1, ValueAwaited
    <3> QED
      BY <1>1, <2>1, <3>1, <3>2, <3>3, <3>4, ReturnTypes
  <2>4. CASE Call
    <3>1. ~AwaitsKey
      BY <2>4 DEF Call, ReadsCall
    <3>2. Waiting(calls, Len(calls))
      BY <3>1, ValueAwaited
    <3>3. CASE Len(calls) = MaxDepth
      <4>1. outcome' = "RuntimeError" /\ f' = f /\ calls' = calls
        BY <2>4, <3>3 DEF Call
      <4> QED
        BY <1>1, <2>1, <4>1, FromCalls
    <3>4. CASE Len(calls) # MaxDepth
      <4> DEFINE c == [kind |-> IF At(f) = CharL THEN "list" ELSE "dict",
                       items |-> <<>>, keys |-> <<>>]
      <4>1. calls' = Append(calls, c) /\ f' = f + 1 /\ outcome' = outcome
        BY <2>4, <3>4 DEF Call
      <4>2. c \in CallRecord
        BY DEF CallRecord
      <4>3. CallFits(c, Len(calls) + 1)
        <5>1. c.keys = <<>> /\ c.items = <<>> /\ DOMAIN c.keys = {} /\ Len(c.keys) = 0
              /\ Len(c.items) = 0
          OBVIOUS
        <5>2. <<>> \in Seq(Value[MaxDepth - (Len(calls) + 1)])
          BY EmptySeq
        <5> HIDE DEF c
        <5> QED
          BY <5>1, <5>2 DEF CallFits
      <4> HIDE DEF c
      <4>4. /\ Append(calls, c) \in Seq(CallRecord) /\ Len(Append(calls, c)) = Len(calls) + 1
            /\ \A k \in 1 .. Len(calls) : Append(calls, c)[k] = calls[k]
            /\ Append(calls, c)[Len(calls) + 1] = c
        BY <1>1, <4>2, AppendProperties DEF Stacked
      <4>5. Stacked(calls')
        <5>1. \A k \in 1 .. Len(calls) + 1 : k \in 1 .. Len(calls) \/ k = Len(calls) + 1
          BY <1>1
        <5>2. \A k \in 1 .. Len(calls') : CallFits(calls'[k], k)
          BY <1>1, <4>1, <4>3, <4>4, <5>1 DEF Stacked
        <5>3. Len(calls) + 1 <= MaxDepth
          BY <1>1, <3>4
        <5> QED
          BY <4>1, <4>4, <5>2, <5>3 DEF Stacked
      <4>6. Waiting(calls', Len(calls') - 1)
        <5>1. Len(calls') - 1 = Len(calls)
          BY <1>1, <4>1, <4>4
        <5> QED
          BY <3>2, <4>1, <4>4, <5>1 DEF Waiting
      <4>7. f' \in Int /\ outcome' = "reading"
        BY <1>1, <2>1, <4>1
      <4> QED
        BY <1>1, <2>1, <4>5, <4>6, <4>7, FromCalls
    <3> QED
      BY <3>3, <3>4
  <2>5. CASE DecodeKey
    <3>1. ReadsKey /\ AwaitsKey /\ IsString(f) /\ KeyAllowed(StringAt(f))
          /\ calls' = WithKey(calls, StringAt(f)) /\ f' = StringEnd(f) /\ outcome' = outcome
      BY <2>5 DEF DecodeKey, ReadsKey, WithKey
    <3>2. StringAt(f) \in Seq(Byte) /\ StringEnd(f) \in Int
      BY <1>1, <3>1, StringType
    <3>3. /\ calls # <<>> /\ calls[Len(calls)].kind = "dict"
          /\ Len(calls[Len(calls)].keys) = Len(calls[Len(calls)].items)
          /\ calls[Len(calls)].keys # <<>> => Less(Last(calls[Len(calls)].keys), StringAt(f))
      BY <3>1 DEF AwaitsKey, KeyAllowed, Last
    <3>4. Stacked(calls') /\ Waiting(calls', Len(calls'))
      BY <1>1, <3>1, <3>2, <3>3, KeyAdded
    <3>5. Waiting(calls', Len(calls') - 1)
      <4>1. Len(calls') \in Nat
        BY <3>4 DEF Stacked
      <4>2. \A k \in 1 .. Len(calls') - 1 : k \in 1 .. Len(calls')
        BY <4>1
      <4> QED
        BY <3>4, <4>2 DEF Waiting
    <3>6. f' \in Int /\ outcome' = "reading"
      BY <2>1, <3>1, <3>2
    <3> QED
      BY <1>1, <2>1, <3>4, <3>5, <3>6, FromCalls
  <2>6. CASE ReturnCollection
    <3>1. AwaitsEnd /\ calls # <<>> /\ Return(Front(calls), Collected(Last(calls)), f + 1)
      BY <2>6 DEF ReturnCollection, ReadsEnd, AwaitsEnd
    <3>2. Collected(Last(calls)) \in Value[MaxDepth - (Len(calls) - 1)]
      BY <3>1, CollectedValue
    <3>3. /\ Len(Front(calls)) = Len(calls) - 1 /\ Stacked(Front(calls))
          /\ Waiting(Front(calls), Len(Front(calls)))
      BY <3>1, Popped
    <3>4. f + 1 \in Int
      BY <1>1
    <3> QED
      BY <1>1, <2>1, <3>1, <3>2, <3>3, <3>4, ReturnTypes
  <2>7. CASE Raise
    <3>1. outcome' = "ValueError" /\ f' = f /\ calls' = calls
      BY <2>7 DEF Raise
    <3> QED
      BY <1>1, <2>1, <3>1, FromCalls
  <2> QED
    BY <1>3, <2>2, <2>3, <2>4, <2>5, <2>6, <2>7 DEF Next
<1> QED
  BY <1>2, <1>3

(* So it holds in every reachable state.                                   *)
LEMMA Invariant ==
  Spec => []IInv
<1> QED
  BY InitInvariant, StepInvariant, PTL DEF Spec

(* Every value decoded so far fits where it stands, and every dictionary's *)
(* keys are in strictly increasing order.                                  *)
THEOREM TypeCorrect ==
  Spec => []TypeOK
<1>1. IInv => TypeOK
  BY DEF IInv
<1> QED
  BY <1>1, Invariant, PTL

-----------------------------------------------------------------------------
(* What a call has read.                                                   *)

(* What a call has read: its first character, the codes of its items and,  *)
(* in a dictionary, the key that waits for its value.                      *)
Part(kind, key, code) == IF kind = "list" THEN code ELSE EncodeString(key) \o code

(* The code of every item, after its key in a dictionary.                  *)
Parts(c, code) == [i \in 1 .. Len(c.items) |-> Part(c.kind, c.keys[i], code[c.items[i]])]

(* The character a list or a dictionary begins with.                       *)
Opening(c) == IF c.kind = "list" THEN CharL ELSE CharD

(* The code of the key that waits for its value.                           *)
PendingKey(c) ==
  IF c.kind = "dict" /\ Len(c.keys) = Len(c.items) + 1
  THEN EncodeString(c.keys[Len(c.keys)]) ELSE <<>>

(* All that the call has read.                                             *)
Text(c, code) == (<<Opening(c)>> \o FlattenSeq(Parts(c, code))) \o PendingKey(c)

(* The text is a byte string.                                              *)
LEMMA TextIsBytes ==
  ASSUME NEW c \in CallRecord, NEW k \in 1 .. MaxDepth, CallFits(c, k)
  PROVE  /\ Parts(c, Code[MaxDepth - k]) \in Seq(Seq(Byte))
         /\ FlattenSeq(Parts(c, Code[MaxDepth - k])) \in Seq(Byte)
         /\ <<Opening(c)>> \in Seq(Byte) /\ PendingKey(c) \in Seq(Byte)
         /\ <<Opening(c)>> \o FlattenSeq(Parts(c, Code[MaxDepth - k])) \in Seq(Byte)
         /\ Text(c, Code[MaxDepth - k]) \in Seq(Byte)
<1> DEFINE n == MaxDepth - k
           code == Code[n]
           P == Parts(c, code)
<1>1. n \in Nat
  BY BencodeAssumption
<1>2. \A v \in Value[n] : code[v] \in Seq(Byte)
  BY <1>1, CodeIsBytes
<1>3. /\ c.kind \in {"list", "dict"} /\ c.keys \in Seq(Seq(Byte))
      /\ Len(c.items) \in Nat /\ Len(c.keys) \in Nat
      /\ c.kind # "list" => Len(c.keys) - Len(c.items) \in {0, 1}
  BY CallFields DEF CallFits
<1>4. \A i \in 1 .. Len(c.items) : c.items[i] \in Value[n]
  <2> DEFINE V == Value[n]
  <2>1. c.items \in Seq(V)
    BY DEF CallFits
  <2> HIDE DEF V
  <2>2. \A i \in 1 .. Len(c.items) : c.items[i] \in V
    BY <2>1, ElementOfSeq
  <2> QED
    BY <2>2 DEF V
<1> HIDE DEF code
<1>5. \A i \in 1 .. Len(c.keys) : c.keys[i] \in Seq(Byte)
  BY <1>3, ElementOfSeq
<1>6. P \in Seq(Seq(Byte))
  <2>1. ASSUME NEW i \in 1 .. Len(c.items)
        PROVE Part(c.kind, c.keys[i], code[c.items[i]]) \in Seq(Byte)
    <3>1. code[c.items[i]] \in Seq(Byte)
      BY <1>2, <1>4
    <3>2. CASE c.kind # "list"
      <4>1. i \in 1 .. Len(c.keys)
        BY <1>3, <3>2
      <4>2. EncodeString(c.keys[i]) \in Seq(Byte)
        BY <1>5, <4>1, PiecesAreBytes
      <4> QED
        BY <3>1, <3>2, <4>2, ConcatProperties DEF Part
    <3>3. CASE c.kind = "list"
      BY <3>1, <3>3 DEF Part
    <3> QED
      BY <3>2, <3>3
  <2> QED
    BY <1>3, <2>1 DEF Parts
<1>7. FlattenSeq(P) \in Seq(Byte) /\ <<Opening(c)>> \in Seq(Byte)
  <2>1. CharL \in Byte /\ CharD \in Byte
    BY Characters
  <2>2. Opening(c) \in Byte
    BY <2>1 DEF Opening
  <2> HIDE DEF P
  <2> QED
    BY <1>6, <2>2, PiecesAreBytes
<1>8. PendingKey(c) \in Seq(Byte)
  <2>1. CASE c.kind = "dict" /\ Len(c.keys) = Len(c.items) + 1
    <3>1. Len(c.keys) \in 1 .. Len(c.keys)
      BY <1>3, <2>1
    <3>2. EncodeString(c.keys[Len(c.keys)]) \in Seq(Byte)
      BY <1>5, <3>1, PiecesAreBytes
    <3> QED
      BY <2>1, <3>2 DEF PendingKey
  <2>2. CASE ~(c.kind = "dict" /\ Len(c.keys) = Len(c.items) + 1)
    <3>1. <<>> \in Seq(Byte)
      OBVIOUS
    <3>2. PendingKey(c) = <<>>
      BY <2>2 DEF PendingKey
    <3> QED
      BY <3>1, <3>2
  <2> QED
    BY <2>1, <2>2
<1>9. <<Opening(c)>> \o FlattenSeq(P) \in Seq(Byte)
  <2> HIDE DEF P
  <2> QED
    BY <1>7, ConcatProperties
<1>10. Text(c, code) \in Seq(Byte)
  <2> HIDE DEF P
  <2>1. (<<Opening(c)>> \o FlattenSeq(P)) \o PendingKey(c) \in Seq(Byte)
    BY <1>8, <1>9, ConcatProperties
  <2> QED
    BY <2>1 DEF Text, P
<1> QED
  BY <1>6, <1>7, <1>8, <1>9, <1>10 DEF code

(* A new call has read one character.                                      *)
LEMMA TextOfNew ==
  ASSUME NEW c, c.items = <<>>, c.keys = <<>>, NEW code
  PROVE  Text(c, code) = <<Opening(c)>>
<1>1. Len(c.items) = 0 /\ Len(c.keys) = 0
  OBVIOUS
<1>2. Parts(c, code) = <<>>
  BY <1>1 DEF Parts
<1>3. PendingKey(c) = <<>>
  BY <1>1 DEF PendingKey
<1>4. Opening(c) \in Byte
  BY Characters DEF Opening
<1>5. <<Opening(c)>> \in Seq(Byte) /\ FlattenSeq(<<>>) = <<>>
  BY <1>4, FlattenEmpty
<1>6. (<<Opening(c)>> \o <<>>) \o <<>> = <<Opening(c)>>
  BY <1>5, ConcatEmptySeq
<1> QED
  BY <1>2, <1>3, <1>5, <1>6 DEF Text

(* The last call before and after it gets an item or a key.                *)
GotItem(d, c, v) == d.kind = c.kind /\ d.keys = c.keys /\ d.items = Append(c.items, v)

GotKey(d, c, key) == d.kind = c.kind /\ d.keys = Append(c.keys, key) /\ d.items = c.items

(* One string more in a sequence of strings.                               *)
IsAppend(a, p, e) == a = Append(p, e)

(* A function that continues a sequence by one element is the sequence     *)
(* with that element appended.                                             *)
LEMMA Extended ==
  ASSUME NEW p \in Seq(Seq(Byte)), NEW e \in Seq(Byte), NEW m \in Nat, Len(p) = m,
         NEW a, a = [i \in 1 .. m + 1 |-> a[i]], \A i \in 1 .. m : a[i] = p[i], a[m + 1] = e
  PROVE  IsAppend(a, p, e)
<1>1. /\ Append(p, e) \in Seq(Seq(Byte)) /\ Len(Append(p, e)) = m + 1
      /\ Append(p, e)[m + 1] = e /\ \A i \in 1 .. m : Append(p, e)[i] = p[i]
  BY AppendProperties
<1> DEFINE b == Append(p, e)
<1>2. b \in Seq(Seq(Byte)) /\ Len(b) = m + 1
  BY <1>1
<1> HIDE DEF b
<1>5. b = [i \in 1 .. m + 1 |-> b[i]]
  BY <1>2
<1>3. \A i \in 1 .. m + 1 : i \in 1 .. m \/ i = m + 1
  OBVIOUS
<1>4. \A i \in 1 .. m + 1 : a[i] = b[i]
  BY <1>1, <1>3 DEF b
<1>6. a = b
  BY <1>4, <1>5
<1> QED
  BY <1>6 DEF b, IsAppend

(* Concatenation may be grouped otherwise.                                 *)
Grouped(s, t, u) == (s \o t) \o u = s \o (t \o u)

(* It is so for byte strings.                                              *)
LEMMA BytesGrouped ==
  ASSUME NEW s \in Seq(Byte), NEW t \in Seq(Byte), NEW u \in Seq(Byte)
  PROVE  Grouped(s, t, u)
BY ConcatAssociative DEF Grouped

(* The text of a call that gets an item is its text, the code of the       *)
(* item's key and that of the item.                                        *)
SameText(o, p, q, t) == (o \o (p \o (q \o t))) \o <<>> = ((o \o p) \o q) \o t

(* The two groupings of these strings are equal.                           *)
LEMMA Regroup ==
  ASSUME NEW o \in Seq(Byte), NEW p \in Seq(Byte), NEW q \in Seq(Byte), NEW t \in Seq(Byte)
  PROVE  SameText(o, p, q, t)
<1>1. q \o t \in Seq(Byte) /\ o \o p \in Seq(Byte)
  BY ConcatProperties
<1>2. p \o (q \o t) \in Seq(Byte)
  BY <1>1, ConcatProperties
<1>3. o \o (p \o (q \o t)) \in Seq(Byte)
  BY <1>2, ConcatProperties
<1>4. Grouped(o, p, q \o t) /\ Grouped(o \o p, q, t)
  BY <1>1, BytesGrouped
<1> QED
  BY <1>3, <1>4, ConcatEmptySeq DEF SameText, Grouped

(* One item more is one code more.                                         *)
LEMMA TextWithItem ==
  ASSUME NEW c \in CallRecord, NEW k \in 1 .. MaxDepth, CallFits(c, k),
         c.kind = "dict" => Len(c.keys) = Len(c.items) + 1,
         NEW v \in Value[MaxDepth - k],
         NEW d, GotItem(d, c, v)
  PROVE  Text(d, Code[MaxDepth - k]) = Text(c, Code[MaxDepth - k]) \o Code[MaxDepth - k][v]
<1> DEFINE n == MaxDepth - k
           code == Code[n]
           m == Len(c.items)
<1>1. n \in Nat
  BY BencodeAssumption
<1>2. code[v] \in Seq(Byte)
  BY <1>1, CodeIsBytes
<1>3. /\ c.kind \in {"list", "dict"} /\ c.keys \in Seq(Seq(Byte)) /\ m \in Nat
      /\ Len(c.keys) \in Nat
  BY CallFields
<1>4. /\ Len(Append(c.items, v)) = m + 1 /\ Append(c.items, v)[m + 1] = v
      /\ \A i \in 1 .. m : Append(c.items, v)[i] = c.items[i]
  <2> DEFINE V == Value[n]
  <2>1. c.items \in Seq(V) /\ v \in V
    BY DEF CallFits
  <2> HIDE DEF V, n
  <2> QED
    BY <2>1, AppendProperties
<1> DEFINE P == Parts(c, code)
           last == Part(c.kind, c.keys[m + 1], code[v])
<1>5. /\ P \in Seq(Seq(Byte)) /\ <<Opening(c)>> \in Seq(Byte) /\ PendingKey(c) \in Seq(Byte)
      /\ FlattenSeq(P) \in Seq(Byte) /\ <<Opening(c)>> \o FlattenSeq(P) \in Seq(Byte)
  BY TextIsBytes
<1> HIDE DEF code, n
<1>6. last \in Seq(Byte) /\ last = PendingKey(c) \o code[v]
  <2>1. CASE c.kind = "list"
    <3>1. PendingKey(c) = <<>> /\ last = code[v]
      BY <2>1 DEF PendingKey, Part
    <3> QED
      BY <1>2, <3>1, ConcatEmptySeq
  <2>2. CASE c.kind = "dict"
    <3>1. PendingKey(c) = EncodeString(c.keys[m + 1]) /\ last = EncodeString(c.keys[m + 1]) \o code[v]
      BY <2>2 DEF PendingKey, Part
    <3> QED
      BY <1>2, <1>5, <3>1, ConcatProperties
  <2> QED
    BY <1>3, <2>1, <2>2
<1> DEFINE its == Append(c.items, v)
           kind == c.kind
           keys == c.keys
<1>7. Parts(d, code) = Append(P, last)
  <2>1. Parts(d, code) = [i \in 1 .. m + 1 |-> Part(kind, keys[i], code[its[i]])]
    BY <1>4 DEF Parts, GotItem
  <2>2. Len(P) = m /\ \A i \in 1 .. m : P[i] = Part(kind, keys[i], code[c.items[i]])
    BY <1>3 DEF Parts
  <2>3. \A i \in 1 .. m : its[i] = c.items[i]
    BY <1>4
  <2>4. its[m + 1] = v
    BY <1>4
  <2> DEFINE a == Parts(d, code)
  <2> HIDE DEF P, its, kind, keys
  <2>5. a = [i \in 1 .. m + 1 |-> a[i]] /\ \A i \in 1 .. m + 1 : a[i] = Part(kind, keys[i], code[its[i]])
    BY <2>1
  <2>6. m + 1 \in 1 .. m + 1 /\ \A i \in 1 .. m : i \in 1 .. m + 1
    BY <1>3
  <2> HIDE DEF a
  <2>7. \A i \in 1 .. m : a[i] = P[i]
    BY <2>2, <2>3, <2>5, <2>6
  <2>8. a[m + 1] = last
    BY <2>4, <2>5, <2>6 DEF kind, keys
  <2> HIDE DEF last, m
  <2>9. IsAppend(a, P, last)
    BY <1>3, <1>5, <1>6, <2>2, <2>5, <2>7, <2>8, Extended
  <2> QED
    BY <2>9 DEF a, IsAppend
<1> HIDE DEF P, last
<1>8. FlattenSeq(Parts(d, code)) = FlattenSeq(P) \o last
  BY <1>5, <1>6, <1>7, FlattenAppend
<1>9. PendingKey(d) = <<>> /\ Opening(d) = Opening(c)
  <2>1. Len(d.items) = m + 1 /\ d.kind = c.kind /\ d.keys = c.keys
    BY <1>4 DEF GotItem
  <2>2. ~(c.kind = "dict" /\ Len(c.keys) = (m + 1) + 1)
    BY <1>3
  <2> QED
    BY <2>1, <2>2 DEF PendingKey, Opening
<1> DEFINE O == <<Opening(c)>>
           F == FlattenSeq(P)
           K == PendingKey(c)
           C == code[v]
<1>10. O \in Seq(Byte) /\ F \in Seq(Byte) /\ K \in Seq(Byte) /\ C \in Seq(Byte)
  BY <1>2, <1>5
<1>11. Text(d, code) = (O \o (F \o (K \o C))) \o <<>>
  BY <1>6, <1>8, <1>9 DEF Text
<1>12. Text(c, code) = (O \o F) \o K
  BY DEF Text, P
<1> HIDE DEF O, F, K, C
<1>13. SameText(O, F, K, C)
  BY <1>10, Regroup
<1> QED
  BY <1>11, <1>12, <1>13 DEF code, C, n, SameText

(* a is b and c one behind the other.                                      *)
IsConcat(a, b, c) == a = b \o c

(* A key more is its code more.                                            *)
LEMMA TextWithKey ==
  ASSUME NEW c \in CallRecord, NEW k \in 1 .. MaxDepth, CallFits(c, k),
         c.kind = "dict", Len(c.keys) = Len(c.items), NEW key \in Seq(Byte),
         NEW d, GotKey(d, c, key), NEW code, code = Code[MaxDepth - k]
  PROVE  IsConcat(Text(d, code), Text(c, code), EncodeString(key))
<1> DEFINE m == Len(c.items)
<1>1. m \in Nat /\ c.keys \in Seq(Seq(Byte)) /\ Len(c.keys) = m
  BY CallFields
<1>2. <<Opening(c)>> \o FlattenSeq(Parts(c, code)) \in Seq(Byte)
  BY TextIsBytes
<1>3. /\ Len(Append(c.keys, key)) = m + 1 /\ Append(c.keys, key)[m + 1] = key
      /\ \A i \in 1 .. m : Append(c.keys, key)[i] = c.keys[i]
  BY <1>1, AppendProperties
<1>4. PendingKey(d) = EncodeString(key) /\ Opening(d) = Opening(c)
  BY <1>3 DEF PendingKey, Opening, GotKey
<1>5. PendingKey(c) = <<>>
  BY <1>1 DEF PendingKey
<1>6. Parts(d, code) = Parts(c, code)
  BY <1>3 DEF Parts, GotKey
<1>7. Text(c, code) = <<Opening(c)>> \o FlattenSeq(Parts(c, code))
  BY <1>2, <1>5, ConcatEmptySeq DEF Text
<1> QED
  BY <1>4, <1>6, <1>7 DEF Text, IsConcat

(* The code of what a call returns is all it has read, and the e.          *)
LEMMA TextCollected ==
  ASSUME NEW c \in CallRecord, NEW k \in 1 .. MaxDepth, CallFits(c, k),
         c.kind = "dict" => Len(c.keys) = Len(c.items)
  PROVE  Code[MaxDepth - (k - 1)][Collected(c)] = Text(c, Code[MaxDepth - k]) \o <<CharE>>
<1> DEFINE n == MaxDepth - k
<1>1. n \in Nat /\ MaxDepth - (k - 1) = n + 1
  BY BencodeAssumption
<1>2. c.kind \in {"list", "dict"} /\ Len(c.items) \in Nat /\ DOMAIN c.items = 1 .. Len(c.items)
  BY CallFields
<1>3. /\ <<Opening(c)>> \o FlattenSeq(Parts(c, Code[n])) \in Seq(Byte)
  BY TextIsBytes
<1>4. PendingKey(c) = <<>>
  BY <1>2 DEF PendingKey
<1>5. Text(c, Code[n]) = <<Opening(c)>> \o FlattenSeq(Parts(c, Code[n]))
  BY <1>3, <1>4, ConcatEmptySeq DEF Text
<1>6. CASE c.kind = "list"
  <2>1. Collected(c) = [list |-> c.items] /\ Opening(c) = CharL
    BY <1>6 DEF Collected, Opening
  <2>2. c.items \in Seq(Value[n])
    BY DEF CallFits
  <2>3. Code[n + 1][Collected(c)] = Enclose(CharL, ListParts(c.items, Code[n]))
    <3> HIDE DEF n
    <3> QED
      BY <1>1, <2>1, <2>2, CodeRules
  <2>4. ListParts(c.items, Code[n]) = Parts(c, Code[n])
    <3>1. DOMAIN ListParts(c.items, Code[n]) = 1 .. Len(c.items)
          /\ \A i \in 1 .. Len(c.items) : ListParts(c.items, Code[n])[i] = Code[n][c.items[i]]
      BY <1>2 DEF ListParts
    <3>2. ListParts(c.items, Code[n]) = [i \in 1 .. Len(c.items) |-> Code[n][c.items[i]]]
      BY <1>2 DEF ListParts
    <3>3. Parts(c, Code[n]) = [i \in 1 .. Len(c.items) |-> Code[n][c.items[i]]]
      BY <1>6 DEF Parts, Part
    <3> QED
      BY <3>2, <3>3
  <2> HIDE DEF n
  <2> QED
    BY <1>1, <1>5, <2>1, <2>3, <2>4 DEF Enclose, n
<1>7. CASE c.kind = "dict"
  <2>1. PICK d \in Dict(Value[n]) : Collected(c) = [dict |-> d] /\ SortedItems(d) = Pairs(c)
    BY <1>7, CollectedDict
  <2>2. Opening(c) = CharD
    BY <1>7 DEF Opening
  <2>3. Code[n + 1][Collected(c)] = Enclose(CharD, DictParts(Pairs(c), Code[n]))
    <3> HIDE DEF n
    <3> QED
      BY <1>1, <2>1, CodeRules
  <2>4. DictParts(Pairs(c), Code[n]) = Parts(c, Code[n])
    <3> DEFINE P == Pairs(c)
               code == Code[n]
    <3>1. /\ DOMAIN P = 1 .. Len(c.items)
          /\ \A i \in 1 .. Len(c.items) : P[i][1] = c.keys[i] /\ P[i][2] = c.items[i]
      BY DEF Pairs
    <3> HIDE DEF P, code
    <3>2. \A key, w : Part("dict", key, w) = EncodeString(key) \o w
      BY DEF Part
    <3>3. DictParts(P, code) = [i \in 1 .. Len(c.items) |-> Part("dict", P[i][1], code[P[i][2]])]
      BY <3>1 DEF DictParts, Part
    <3>4. DictParts(P, code) = [i \in 1 .. Len(c.items) |-> Part("dict", c.keys[i], code[c.items[i]])]
      BY <3>1, <3>3
    <3>5. Parts(c, code) = [i \in 1 .. Len(c.items) |-> Part("dict", c.keys[i], code[c.items[i]])]
      BY <1>7 DEF Parts
    <3> QED
      BY <3>4, <3>5 DEF P, code
  <2> HIDE DEF n
  <2> QED
    BY <1>1, <1>5, <2>2, <2>3, <2>4 DEF Enclose, n
<1> QED
  BY <1>2, <1>6, <1>7

-----------------------------------------------------------------------------
(* Reading plain numbers.                                                  *)

(* Three strings one behind the other.                                     *)
Three(t, u, w) == (t \o u) \o w

(* Three strings one behind the other are a string.                        *)
LEMMA ThreeType ==
  ASSUME NEW t \in Seq(Byte), NEW u \in Seq(Byte), NEW w \in Seq(Byte)
  PROVE  Three(t, u, w) \in Seq(Byte) /\ Len(Three(t, u, w)) = Len(t) + Len(u) + Len(w)
<1> DEFINE tu == t \o u
<1>1. tu \in Seq(Byte) /\ Len(tu) = Len(t) + Len(u)
  BY ConcatProperties
<1> HIDE DEF tu
<1>2. tu \o w \in Seq(Byte) /\ Len(tu \o w) = Len(tu) + Len(w)
  BY <1>1, ConcatProperties
<1>3. Three(t, u, w) = tu \o w
  BY DEF Three, tu
<1> QED
  BY <1>1, <1>2, <1>3

(* They stand in s where each of them does.                                *)
LEMMA HasThree ==
  ASSUME NEW s \in Seq(Byte), NEW a \in Nat,
         NEW t \in Seq(Byte), NEW u \in Seq(Byte), NEW w \in Seq(Byte),
         NEW b, b = a + Len(t), NEW c, c = a + Len(t) + Len(u)
  PROVE  Has(s, a, Three(t, u, w)) <=> Has(s, a, t) /\ Has(s, b, u) /\ Has(s, c, w)
<1> DEFINE tu == t \o u
<1>1. tu \in Seq(Byte) /\ Len(tu) = Len(t) + Len(u) /\ Len(t) \in Nat /\ Len(u) \in Nat
  BY ConcatProperties
<1>2. Has(s, a, tu) <=> Has(s, a, t) /\ Has(s, b, u)
  BY HasConcat
<1> HIDE DEF tu
<1>3. c = a + Len(tu)
  BY <1>1
<1>4. Has(s, a, tu \o w) <=> Has(s, a, tu) /\ Has(s, a + Len(tu), w)
  BY <1>1, HasConcat
<1>5. Three(t, u, w) = tu \o w
  BY DEF Three, tu
<1> QED
  BY <1>2, <1>3, <1>4, <1>5

(* The same for the parts of a code, in one direction.                     *)
LEMMA ThreeParts ==
  ASSUME NEW s \in Seq(Byte), NEW a \in Nat,
         NEW t \in Seq(Byte), NEW u \in Seq(Byte), NEW w \in Seq(Byte),
         Has(s, a, Three(t, u, w))
  PROVE  Has(s, a, t) /\ Has(s, a + Len(t), u) /\ Has(s, a + Len(t) + Len(u), w)
  BY HasThree

(* A string whose bytes are all digits is a sequence of digits.            *)
LEMMA DigitsOnly ==
  ASSUME NEW s \in Seq(Byte), AllDigits(s)
  PROVE  s \in Seq(Digit)
<1>1. Len(s) \in Nat /\ DOMAIN s = 1 .. Len(s) /\ s \in [1 .. Len(s) -> Byte]
  BY LenProperties
<1>2. \A i \in 1 .. Len(s) : s[i] \in Digit
  BY <1>1 DEF AllDigits
<1>3. s \in [1 .. Len(s) -> Digit]
  BY <1>1, <1>2
<1> QED
  BY <1>1, <1>3, SeqDef

(* A plain number is written as str writes it, so what decode_int and      *)
(* decode_string read is what bencode would write.                         *)
LEMMA ReadIntPlain ==
  ASSUME x \in Seq(Byte), f \in Nat, PlainNumbers, ReadsInt,
         NEW newf, newf = Index(CharE, f + 1), NEW n, n = IntOf(Slice(f + 1, newf))
  PROVE  /\ n \in Int /\ newf \in Nat /\ newf + 1 <= Len(x)
         /\ newf + 1 = f + Len(EncodeInt(n)) /\ Has(x, f, EncodeInt(n))
<1>1. /\ Reads(f, {CharI}) /\ Found(CharE, f + 1) # {} /\ IntAllowed(f + 1, newf)
  BY DEF ReadsInt
<1>2. Len(x) \in Nat /\ DOMAIN x = 1 .. Len(x) /\ f + 1 \in Nat /\ FromStart(f + 1) = f + 1
  BY DEF FromStart
<1>3. f < Len(x) /\ x[f + 1] = CharI
  BY <1>1, <1>2 DEF Reads, InBounds, At
<1>4. newf \in Nat /\ f + 1 <= newf /\ newf < Len(x) /\ x[newf + 1] = CharE
  BY <1>1, <1>2, IndexFound
<1> DEFINE s == SubSeq(x, (f + 1) + 1, newf)
<1>5. s \in Seq(Byte) /\ Len(s) = newf - (f + 1)
      /\ (\A i \in 1 .. newf - (f + 1) : s[i] = x[(f + 1) + i]) /\ Has(x, f + 1, s)
  <2>1. f + 1 \in Nat /\ newf \in Nat /\ f + 1 <= newf /\ newf <= Len(x)
    BY <1>2, <1>4
  <2> QED
    BY <2>1, HasSubSeq, Zenon
<1>6. Slice(f + 1, newf) = s
  <2>1. newf <= Len(x)
    BY <1>2, <1>4
  <2> QED
    BY <1>2, <1>4, <2>1, SliceInside, Zenon
<1>7. IsInt(s) /\ ~(At(f + 1) = Minus /\ At((f + 1) + 1) = 48)
      /\ ~(At(f + 1) = 48 /\ newf # (f + 1) + 1)
  BY <1>1, <1>6 DEF IntAllowed
<1>8. /\ AllDigits(s) \/ (s[1] = Minus /\ AllDigits(Tail(s)))
      /\ (f + 1) + 1 <= newf
  <2>1. DOMAIN s # {}
    BY <1>7 DEF IsInt
  <2> HIDE DEF s
  <2>2. DOMAIN s = 1 .. Len(s)
    BY <1>5
  <2>3. Len(s) >= 1
    BY <1>4, <1>5, <2>1, <2>2
  <2>4. (f + 1) + 1 <= newf
    BY <1>2, <1>4, <1>5, <2>3
  <2>5. (f + 1) + 1 \in DOMAIN x /\ newf \in DOMAIN x /\ (f + 1) + 1 > 1 /\ ((f + 1) + 1) - 1 = f + 1
    BY <1>2, <1>4, <2>4
  <2>6. AllDigits(s) \/ (s[1] = Minus /\ AllDigits(Tail(s)))
    BY <1>3, <1>4, <1>7, <2>4, <2>5, Zenon DEF PlainNumbers, s
  <2> QED
    BY <2>4, <2>6
<1> HIDE DEF s
<1>9. At(f + 1) = s[1] /\ s # <<>> /\ Len(s) > 0
  <2>1. At(f + 1) = x[(f + 1) + 1]
    BY <1>2 DEF At
  <2>2. 1 \in 1 .. newf - (f + 1)
    BY <1>2, <1>4, <1>8
  <2> QED
    BY <1>5, <2>1, <2>2
<1>10. n \in Int /\ Str(n) = s
  <2>1. CASE AllDigits(s)
    <3>1. s \in Seq(Digit)
      BY <1>5, <2>1, DigitsOnly, Zenon
    <3>2. s[1] = 48 => Len(s) = 1
      BY <1>2, <1>4, <1>5, <1>7, <1>9
    <3> QED
      BY <1>6, <1>9, <3>1, <3>2, StrOfDigits
  <2>2. CASE s[1] = Minus /\ AllDigits(Tail(s))
    <3> DEFINE t == Tail(s)
    <3>1. t \in Seq(Byte) /\ Len(t) = Len(s) - 1 /\ \A i \in 1 .. Len(s) - 1 : t[i] = s[i + 1]
      BY <1>5, <1>9, HeadTailProperties
    <3>2. <<Minus>> \in Seq(Byte) /\ <<Minus>> \o t = s
      BY <1>5, <1>9, <2>2, Characters
    <3> HIDE DEF t
    <3>3. t \in Seq(Digit)
      <4>1. AllDigits(t)
        BY <2>2 DEF t
      <4> QED
        BY <3>1, <4>1, DigitsOnly, Zenon
    <3>4. t # <<>>
      <4> SUFFICES ASSUME t = <<>> PROVE FALSE
        OBVIOUS
      <4>1. Len(s) = 1
        BY <1>5, <3>1
      <4>2. DigitsAt(s) = {}
        <5>1. DOMAIN s = 1 .. 1
          BY <1>5, <4>1, BytesAreNumbers
        <5>2. \A i \in 1 .. 1 : i = 1
          OBVIOUS
        <5>3. \A i \in DOMAIN s : s[i] \notin Digit
          BY <2>2, <5>1, <5>2, Characters
        <5> QED
          BY <5>3 DEF DigitsAt
      <4> QED
        <5>1. PICK first \in DOMAIN s, last \in DOMAIN s : first <= last /\ {} = first .. last
          BY <1>7, <4>2, Zenon DEF IsInt
        <5>2. first \in Int /\ last \in Int
          BY <1>5
        <5> QED
          BY <5>1, <5>2
    <3>5. Len(s) - 1 >= 1
      BY <1>5, <1>9, <3>1, <3>4
    <3>6. t[1] # 48
      <4>1. t[1] = s[2]
        BY <1>5, <3>1, <3>5
      <4>2. At((f + 1) + 1) = s[2]
        <5>1. At((f + 1) + 1) = x[((f + 1) + 1) + 1]
          BY <1>2 DEF At
        <5>2. 2 \in 1 .. newf - (f + 1) /\ (f + 1) + 2 = ((f + 1) + 1) + 1
          BY <1>2, <1>4, <1>5, <3>5
        <5> QED
          BY <1>5, <5>1, <5>2
      <4> QED
        BY <1>7, <1>9, <2>2, <4>1, <4>2
    <3>7. IntOf(<<Minus>> \o t) \in Int /\ Str(IntOf(<<Minus>> \o t)) = <<Minus>> \o t
      BY <3>3, <3>4, <3>6, StrOfMinus
    <3> QED
      BY <1>6, <3>2, <3>7
  <2> QED
    BY <1>8, <2>1, <2>2
<1> HIDE DEF AllDigits
<1>11. Has(x, f, EncodeInt(n)) /\ Len(EncodeInt(n)) = 1 + Len(s) + 1
  <2> DEFINE I == <<CharI>>
             E == <<CharE>>
  <2>1. I \in Seq(Byte) /\ E \in Seq(Byte) /\ Len(I) = 1 /\ Len(E) = 1
    BY Characters
  <2>2. Has(x, f, I) /\ Has(x, newf, E)
    BY <1>2, <1>3, <1>4, HasOne
  <2>3. (f + 1) + Len(s) = newf /\ f + (1 + Len(s)) = newf
    BY <1>2, <1>4, <1>5
  <2>4. EncodeInt(n) = Three(I, s, E)
    BY <1>10 DEF EncodeInt, Three
  <2> HIDE DEF I, E
  <2>5. Len(EncodeInt(n)) = 1 + Len(s) + 1
    <3>1. s \in Seq(Byte)
      BY <1>5
    <3>2. /\ Three(I, s, E) \in Seq(Byte)
          /\ Len(Three(I, s, E)) = Len(I) + Len(s) + Len(E)
      BY <2>1, <3>1, ThreeType
    <3> QED
      BY <2>1, <2>4, <3>2
  <2>6. f + 1 = f + Len(I) /\ newf = f + Len(I) + Len(s)
    BY <1>2, <1>4, <1>5, <2>1
  <2>7. Has(x, f, Three(I, s, E))
    BY <1>4, <1>5, <2>1, <2>2, <2>6, HasThree
  <2> QED
    BY <2>4, <2>5, <2>7
<1>12. newf + 1 = f + (1 + Len(s) + 1)
  BY <1>2, <1>4, <1>5
<1> QED
  BY <1>2, <1>4, <1>10, <1>11, <1>12

(* Where the numbers are plain decode_string reads exactly the code of the *)
(* string it returns, unless that runs over the end.                       *)
LEMMA ReadStringPlain ==
  ASSUME x \in Seq(Byte), f \in Nat, PlainNumbers, InBounds(f), IsString(f)
  PROVE  /\ StringEnd(f) \in Nat /\ StringAt(f) \in Seq(Byte)
         /\ StringEnd(f) > Len(x) \/ /\ Has(x, f, EncodeString(StringAt(f)))
                                     /\ StringEnd(f) = f + Len(EncodeString(StringAt(f)))
<1> DEFINE c == Index(Colon, f)
           s == SubSeq(x, f + 1, c)
<1>1. Found(Colon, f) # {} /\ IsInt(Slice(f, c)) /\ ~(At(f) = 48 /\ c # f + 1)
  BY DEF IsString
<1>2. Len(x) \in Nat /\ DOMAIN x = 1 .. Len(x) /\ FromStart(f) = f /\ f < Len(x)
  BY DEF FromStart, InBounds
<1>3. c \in Nat /\ f <= c /\ c < Len(x) /\ x[c + 1] = Colon
  BY <1>1, <1>2, IndexFound
<1> HIDE DEF c
<1>4. s \in Seq(Byte) /\ Len(s) = c - f
      /\ (\A i \in 1 .. c - f : s[i] = x[f + i]) /\ Has(x, f, s)
  <2>1. c \in Nat /\ f <= c /\ c <= Len(x)
    BY <1>2, <1>3
  <2> QED
    BY <2>1, HasSubSeq, Zenon
<1>5. Slice(f, c) = s
  <2>1. c <= Len(x)
    BY <1>2, <1>3
  <2> QED
    BY <1>3, <2>1, SliceInside, Zenon
<1>6. AllDigits(s) /\ f + 1 <= c
  <2>1. DOMAIN s # {}
    BY <1>1, <1>5 DEF IsInt
  <2> HIDE DEF s
  <2>2. DOMAIN s = 1 .. Len(s)
    BY <1>4
  <2>3. Len(s) >= 1
    BY <1>3, <1>4, <2>1, <2>2
  <2>4. f + 1 <= c
    BY <1>2, <1>3, <1>4, <2>3
  <2>5. f + 1 \in DOMAIN x /\ c \in DOMAIN x /\ IsInt(s)
    BY <1>1, <1>2, <1>3, <1>5, <2>4
  <2>6. AllDigits(s)
    BY <1>3, <2>4, <2>5, Zenon DEF PlainNumbers, s
  <2> QED
    BY <2>4, <2>6
<1> HIDE DEF s
<1>7. At(f) = s[1] /\ s # <<>>
  <2>1. At(f) = x[f + 1]
    BY <1>2 DEF At
  <2>2. 1 \in 1 .. c - f
    BY <1>2, <1>3, <1>6
  <2> QED
    BY <1>4, <2>1, <2>2
<1> DEFINE n == IntOf(s)
<1>8. n \in Nat /\ Decimal[n] = s
  <2>1. s \in Seq(Digit)
    BY <1>4, <1>6, DigitsOnly, Zenon
  <2>2. s[1] = 48 => Len(s) = 1
    BY <1>1, <1>2, <1>3, <1>4, <1>7
  <2> QED
    BY <1>7, <2>1, <2>2, StrOfDigits
<1> HIDE DEF n
<1>9. StringEnd(f) = c + 1 + n /\ StringAt(f) = Slice(c + 1, c + 1 + n)
  BY <1>5 DEF StringEnd, StringAt, c, n
<1>10. c + 1 \in Nat /\ c + 1 + n \in Nat
  BY <1>3, <1>8
<1>11. StringAt(f) \in Seq(Byte)
  BY <1>9, <1>10, SliceIsBytes
<1>12. ASSUME c + 1 + n <= Len(x)
       PROVE  /\ Has(x, f, EncodeString(StringAt(f)))
              /\ c + 1 + n = f + Len(EncodeString(StringAt(f)))
  <2> DEFINE t == StringAt(f)
             C == <<Colon>>
  <2>1. t = SubSeq(x, (c + 1) + 1, c + 1 + n)
    BY <1>9, <1>10, <1>12, SliceInside
  <2>2. c + 1 <= c + 1 + n /\ (c + 1 + n) - (c + 1) = n
    BY <1>3, <1>8
  <2>3. t \in Seq(Byte) /\ Len(t) = n /\ Has(x, c + 1, t)
    BY <1>10, <1>12, <2>1, <2>2, HasSubSeq
  <2>4. C \in Seq(Byte) /\ Len(C) = 1
    BY Characters
  <2>5. Has(x, c, C)
    BY <1>2, <1>3, HasOne
  <2>6. EncodeString(t) = Three(s, C, t)
    BY <1>8, <2>3 DEF EncodeString, Three
  <2> HIDE DEF t, C
  <2>7. Len(EncodeString(t)) = Len(s) + 1 + n
    <3>1. s \in Seq(Byte) /\ C \in Seq(Byte) /\ t \in Seq(Byte)
      BY <1>4, <2>3, <2>4
    <3>2. /\ Three(s, C, t) \in Seq(Byte)
          /\ Len(Three(s, C, t)) = Len(s) + Len(C) + Len(t)
      BY <3>1, ThreeType
    <3> QED
      BY <2>3, <2>4, <2>6, <3>2
  <2>8. c = f + Len(s) /\ c + 1 = f + Len(s) + Len(C)
    BY <1>2, <1>3, <1>4, <2>4
  <2>9. Has(x, f, Three(s, C, t))
    BY <1>4, <2>3, <2>4, <2>5, <2>8, HasThree
  <2>10. c + 1 + n = f + (Len(s) + 1 + n)
    BY <1>3, <1>4, <1>8
  <2> QED
    BY <2>6, <2>7, <2>9, <2>10 DEF t
<1>13. c + 1 + n > Len(x) \/ c + 1 + n <= Len(x)
  BY <1>2, <1>10
<1> QED
  BY <1>9, <1>10, <1>11, <1>12, <1>13

-----------------------------------------------------------------------------
(* The same bytes: what is accepted is the code of its value.              *)

(* What the k-th call has read.                                            *)
TextOf(cs, k) == Text(cs[k], Code[MaxDepth - k])

(* The texts of the calls stand one behind the other in s, the k-th from   *)
(* start[k] on, and end at pos.                                            *)
Laid(s, cs, start, pos) ==
  /\ start[1] = 0 /\ start[Len(cs) + 1] = pos /\ pos \in Nat /\ pos <= Len(s)
  /\ \A k \in 1 .. Len(cs) :
       Has(s, start[k], TextOf(cs, k)) /\ start[k + 1] = start[k] + Len(TextOf(cs, k))

(* a and b agree up to n: calls, or the places where their texts begin.    *)
Agree(a, b, n) == \A k \in 1 .. n : a[k] = b[k]

(* The texts of cs stand in s up to pos, the first n from where they did.  *)
Relaid(s, cs, pos, start, n) == \E b : Laid(s, cs, b, pos) /\ Agree(b, start, n)

(* What a call has read is a string.                                       *)
LEMMA TextOfType ==
  ASSUME NEW cs, Stacked(cs), NEW k \in 1 .. Len(cs)
  PROVE  /\ TextOf(cs, k) \in Seq(Byte) /\ Len(TextOf(cs, k)) \in Nat
         /\ k \in 1 .. MaxDepth /\ cs[k] \in CallRecord /\ CallFits(cs[k], k)
<1>1. cs \in Seq(CallRecord) /\ Len(cs) <= MaxDepth /\ Len(cs) \in Nat /\ CallFits(cs[k], k)
  BY DEF Stacked
<1>2. k \in 1 .. MaxDepth /\ cs[k] \in CallRecord
  BY <1>1, ElementOfSeq, BencodeAssumption
<1>3. Text(cs[k], Code[MaxDepth - k]) \in Seq(Byte)
  BY <1>1, <1>2, TextIsBytes
<1>4. TextOf(cs, k) \in Seq(Byte)
  BY <1>3 DEF TextOf
<1> HIDE DEF TextOf
<1>5. Len(TextOf(cs, k)) \in Nat
  BY <1>4
<1> QED
  BY <1>1, <1>2, <1>4, <1>5

(* The last call reads on.                                                 *)
LEMMA LaidOn ==
  ASSUME NEW s \in Seq(Byte), NEW cs, Stacked(cs), NEW L, L = Len(cs), L \in Nat, L > 0,
         NEW start, NEW pos, Laid(s, cs, start, pos),
         NEW new, Len(new) = L, Agree(new, cs, L - 1),
         NEW more \in Seq(Byte), IsConcat(TextOf(new, L), TextOf(cs, L), more),
         Has(s, pos, more), NEW next, next = pos + Len(more)
  PROVE  Relaid(s, new, next, start, L)
<1> DEFINE b == [k \in 1 .. L + 1 |-> IF k = L + 1 THEN next ELSE start[k]]
<1>1. /\ start[1] = 0 /\ start[L + 1] = pos /\ pos \in Nat /\ pos <= Len(s)
      /\ \A k \in 1 .. L :
           Has(s, start[k], TextOf(cs, k)) /\ start[k + 1] = start[k] + Len(TextOf(cs, k))
  BY DEF Laid
<1>2. b[L + 1] = next /\ \A k \in 1 .. L : b[k] = start[k]
  OBVIOUS
<1> HIDE DEF b
<1>3. L \in 1 .. L /\ 1 \in 1 .. L
  OBVIOUS
<1> DEFINE t == TextOf(cs, L)
           u == TextOf(new, L)
<1>4. t \in Seq(Byte) /\ Len(t) \in Nat /\ Len(more) \in Nat
  BY <1>3, TextOfType
<1>5. Has(s, start[L], t) /\ pos = start[L] + Len(t) /\ start[L] \in Nat
  <2>1. Has(s, start[L], t) /\ start[L + 1] = start[L] + Len(t)
    BY <1>1, <1>3
  <2>2. start[L] \in Nat
    BY <2>1 DEF Has
  <2> QED
    BY <1>1, <2>1, <2>2
<1>6. IsConcat(u, t, more)
  OBVIOUS
<1>7. \A k \in 1 .. L - 1 : TextOf(new, k) = TextOf(cs, k)
  BY DEF TextOf, Agree
<1>8. next \in Nat /\ next <= Len(s)
  BY <1>1, <1>4 DEF Has
<1> HIDE DEF t, u
<1>9. Has(s, start[L], u) /\ next = start[L] + Len(u)
  <2> DEFINE w == t \o more
             a == start[L]
  <2>1. w \in Seq(Byte) /\ Len(w) = Len(t) + Len(more)
    BY <1>4, ConcatProperties
  <2>2. a \in Nat /\ Has(s, a, t) /\ Has(s, a + Len(t), more)
    BY <1>5
  <2> HIDE DEF a
  <2>3. Has(s, a, t \o more)
    BY <1>4, <2>2, HasConcat
  <2>4. u = w
    BY <1>6 DEF IsConcat
  <2> HIDE DEF w
  <2>5. Has(s, a, w)
    BY <2>3 DEF w
  <2>6. Has(s, a, u) /\ Len(u) = Len(t) + Len(more)
    BY <2>1, <2>4, <2>5, Zenon
  <2>7. pos = a + Len(t) /\ a \in Nat
    BY <1>5 DEF a
  <2>8. next = a + Len(u)
    BY <1>4, <2>6, <2>7
  <2> QED
    BY <2>6, <2>8 DEF a
<1>10. Laid(s, new, b, next)
  <2>1. ASSUME NEW k \in 1 .. L
        PROVE  Has(s, b[k], TextOf(new, k)) /\ b[k + 1] = b[k] + Len(TextOf(new, k))
    <3>1. CASE k = L
      BY <1>2, <1>3, <1>9, <3>1 DEF u
    <3>2. CASE k # L
      <4>1. k \in 1 .. L - 1 /\ k + 1 \in 1 .. L
        BY <3>2
      <4> QED
        BY <1>1, <1>2, <1>7, <4>1
    <3> QED
      BY <3>1, <3>2
  <2> QED
    BY <1>1, <1>2, <1>3, <1>8, <2>1 DEF Laid
<1> QED
  BY <1>2, <1>10 DEF Relaid, Agree

(* A new call reads its first character.                                   *)
LEMMA LaidOpened ==
  ASSUME NEW s \in Seq(Byte), NEW cs, NEW L, L = Len(cs), L \in Nat,
         NEW start, NEW pos, Laid(s, cs, start, pos),
         NEW new, Len(new) = L + 1, Agree(new, cs, L),
         NEW more \in Seq(Byte), TextOf(new, L + 1) = more,
         Has(s, pos, more), NEW next, next = pos + Len(more)
  PROVE  Relaid(s, new, next, start, L + 1)
<1> DEFINE b == [k \in 1 .. L + 2 |-> IF k = L + 2 THEN next ELSE start[k]]
<1>1. /\ start[1] = 0 /\ start[L + 1] = pos /\ pos \in Nat /\ pos <= Len(s)
      /\ \A k \in 1 .. L :
           Has(s, start[k], TextOf(cs, k)) /\ start[k + 1] = start[k] + Len(TextOf(cs, k))
  BY DEF Laid
<1>2. b[L + 2] = next /\ \A k \in 1 .. L + 1 : b[k] = start[k]
  OBVIOUS
<1> HIDE DEF b
<1>3. \A k \in 1 .. L : TextOf(new, k) = TextOf(cs, k)
  BY DEF TextOf, Agree
<1>4. next \in Nat /\ next <= Len(s)
  BY <1>1 DEF Has
<1>5. ASSUME NEW k \in 1 .. L + 1
      PROVE  Has(s, b[k], TextOf(new, k)) /\ b[k + 1] = b[k] + Len(TextOf(new, k))
  <2>1. CASE k = L + 1
    <3>1. k + 1 = L + 2 /\ k \in 1 .. L + 1
      BY <2>1
    <3> QED
      BY <1>1, <1>2, <2>1, <3>1
  <2>2. CASE k # L + 1
    <3>1. k \in 1 .. L /\ k + 1 \in 1 .. L + 1
      BY <2>2
    <3> QED
      BY <1>1, <1>2, <1>3, <3>1
  <2> QED
    BY <2>1, <2>2
<1>6. (L + 1) + 1 = L + 2 /\ 1 \in 1 .. L + 1
  OBVIOUS
<1>7. Laid(s, new, b, next)
  BY <1>1, <1>2, <1>4, <1>5, <1>6 DEF Laid
<1> QED
  BY <1>2, <1>7 DEF Relaid, Agree

(* The last call returns.                                                  *)
LEMMA LaidClosed ==
  ASSUME NEW s \in Seq(Byte), NEW cs, Stacked(cs), NEW L, L = Len(cs), L \in Nat, L > 0,
         NEW start, NEW pos, Laid(s, cs, start, pos),
         NEW new, Len(new) = L - 1, Agree(new, cs, L - 1)
  PROVE  /\ Laid(s, new, start, start[L])
         /\ Has(s, start[L], TextOf(cs, L)) /\ pos = start[L] + Len(TextOf(cs, L))
<1>1. /\ start[1] = 0 /\ start[L + 1] = pos /\ pos \in Nat /\ pos <= Len(s)
      /\ \A k \in 1 .. L :
           Has(s, start[k], TextOf(cs, k)) /\ start[k + 1] = start[k] + Len(TextOf(cs, k))
  BY DEF Laid
<1>2. L \in 1 .. L /\ (L - 1) + 1 = L /\ \A k \in 1 .. L - 1 : k \in 1 .. L
  OBVIOUS
<1>3. Has(s, start[L], TextOf(cs, L)) /\ pos = start[L] + Len(TextOf(cs, L))
  BY <1>1, <1>2
<1>4. Len(TextOf(cs, L)) \in Nat /\ Len(s) \in Nat
  BY <1>2, TextOfType
<1>5. start[L] \in Nat /\ start[L] <= Len(s)
  BY <1>3, <1>4 DEF Has
<1>6. \A k \in 1 .. L - 1 : TextOf(new, k) = TextOf(cs, k)
  BY DEF TextOf, Agree
<1>7. Laid(s, new, start, start[L])
  BY <1>1, <1>2, <1>5, <1>6 DEF Laid
<1> QED
  BY <1>3, <1>7

(* The calls a value v is decoded for, when its code stands where they     *)
(* want it.                                                                *)
LEMMA LaidItem ==
  ASSUME NEW s \in Seq(Byte), NEW cs, Stacked(cs), Waiting(cs, Len(cs)), cs # <<>>,
         NEW v \in Value[MaxDepth - Len(cs)], NEW start, NEW pos, Laid(s, cs, start, pos),
         Has(s, pos, Code[MaxDepth - Len(cs)][v]),
         NEW next, next = pos + Len(Code[MaxDepth - Len(cs)][v]),
         NEW new, new = WithItem(cs, v)
  PROVE  Relaid(s, new, next, start, Len(cs))
<1> DEFINE L == Len(cs)
           code == Code[MaxDepth - L]
<1>1. /\ Len(new) = L /\ L \in Nat /\ L > 0
      /\ \A k \in 1 .. L - 1 : new[k] = cs[k]
      /\ new[L].kind = cs[L].kind /\ new[L].keys = cs[L].keys
      /\ new[L].items = Append(cs[L].items, v)
  BY ItemAdded
<1>2. L \in 1 .. L
  BY <1>1
<1>3. L \in 1 .. MaxDepth /\ cs[L] \in CallRecord /\ CallFits(cs[L], L)
  BY <1>2, TextOfType
<1>4. cs[L].kind = "dict" => Len(cs[L].keys) = Len(cs[L].items) + 1
  BY <1>2 DEF Waiting
<1>5. GotItem(new[L], cs[L], v)
  BY <1>1 DEF GotItem
<1>6. Text(new[L], code) = Text(cs[L], code) \o code[v]
  BY <1>3, <1>4, <1>5, TextWithItem, Zenon
<1>7. IsConcat(TextOf(new, L), TextOf(cs, L), code[v])
  BY <1>6 DEF IsConcat, TextOf
<1>8. Agree(new, cs, L - 1)
  BY <1>1 DEF Agree
<1>9. code[v] \in Seq(Byte)
  <2>1. MaxDepth - L \in Nat
    BY <1>3, BencodeAssumption
  <2> QED
    BY <2>1, CodeIsBytes
<1> QED
  BY <1>1, <1>7, <1>8, <1>9, LaidOn

(* All that was read is the texts of the calls under way.                  *)
Honest == outcome = "reading" => f > Len(x) \/ \E start : Laid(x, calls, start, f)

(* The result is encoded to the input.                                     *)
Same == outcome = "ok" => Encode(r) = x

(* The inductive invariant of SameBytes.                                   *)
SameInv == IInv /\ (PlainNumbers => Honest /\ Same)

(* A value whose code stands where the texts end leaves them in place,     *)
(* whether it goes to the last call or to bdecode.                         *)
LEMMA ReturnLaid ==
  ASSUME x \in Seq(Byte), x' = x, NEW cs, Stacked(cs), Waiting(cs, Len(cs)), Len(cs) \in Nat,
         NEW v \in Value[MaxDepth - Len(cs)], NEW start, NEW pos, Laid(x, cs, start, pos),
         Has(x, pos, Code[MaxDepth - Len(cs)][v]), outcome = "reading",
         NEW next, next = pos + Len(Code[MaxDepth - Len(cs)][v]), Return(cs, v, next)
  PROVE  Honest' /\ Same'
<1>1. f' = next
  BY DEF Return
<1>2. CASE cs = <<>>
  <2>1. r' = v /\ outcome' = IF next = Len(x) THEN "ok" ELSE "ValueError"
    BY <1>2 DEF Return
  <2>2. Len(cs) = 0 /\ MaxDepth - Len(cs) = MaxDepth /\ MaxDepth \in Nat
    BY <1>2, BencodeAssumption
  <2>3. pos = 0
    BY <2>2 DEF Laid
  <2>4. Honest'
    BY <2>1 DEF Honest
  <2> DEFINE code == Code[MaxDepth][v]
  <2>5. code \in Seq(Byte) /\ Has(x, 0, code) /\ next = 0 + Len(code)
    BY <2>2, <2>3, CodeIsBytes
  <2> HIDE DEF code
  <2>6. ASSUME next = Len(x) PROVE code = x
    <3>1. Len(code) = Len(x)
      BY <2>5, <2>6
    <3> QED
      BY <2>5, <3>1, HasAll
  <2>7. Same'
    BY <2>1, <2>6 DEF Same, Encode, code
  <2> QED
    BY <2>4, <2>7
<1>3. CASE cs # <<>>
  <2>1. calls' = WithItem(cs, v) /\ outcome' = outcome
    BY <1>3 DEF Return, WithItem
  <2> DEFINE new == calls'
  <2>2. new = WithItem(cs, v)
    BY <2>1
  <2> HIDE DEF new
  <2>3. Relaid(x, new, next, start, Len(cs))
    BY <1>3, <2>2, LaidItem
  <2>4. Honest'
    BY <1>1, <2>3 DEF Honest, Relaid, new
  <2>5. Same'
    BY <2>1 DEF Same
  <2> QED
    BY <2>4, <2>5
<1> QED
  BY <1>2, <1>3

(* Every step keeps SameInv, one case per action.                          *)
LEMMA SameStep ==
  ASSUME SameInv, IInv', [Next]_vars
  PROVE  SameInv'
<1> SUFFICES ASSUME PlainNumbers' PROVE Honest' /\ Same'
  BY DEF SameInv
<1>1. x' = x
  BY DEF Next, vars
<1>2. PlainNumbers
  BY <1>1 DEF PlainNumbers
<1>3. /\ IInv /\ Honest /\ Same /\ x \in Seq(Byte) /\ Len(x) \in Nat /\ f \in Int
      /\ Stacked(calls) /\ Len(calls) \in Nat /\ calls \in Seq(CallRecord)
      /\ Waiting(calls, Len(calls) - 1)
  BY <1>2, Types DEF SameInv
<1>4. CASE UNCHANGED vars
  <2>1. outcome' = outcome /\ f' = f /\ x' = x /\ calls' = calls /\ r' = r
    BY <1>4 DEF vars
  <2> QED
    BY <1>3, <2>1 DEF Honest, Same, Encode
<1>5. CASE Next /\ Raise
  <2>1. outcome' = "ValueError"
    BY <1>5 DEF Raise
  <2> QED
    BY <2>1 DEF Honest, Same
<1>6. CASE Next /\ ~Raise
  <2>1. outcome = "reading" /\ (DecodeInt \/ DecodeString \/ Call \/ DecodeKey \/ ReturnCollection)
    BY <1>6 DEF Next
  <2>2. InBounds(f)
    BY <2>1 DEF DecodeInt, DecodeString, Call, DecodeKey, ReturnCollection,
                ReadsInt, ReadsString, ReadsCall, ReadsKey, ReadsEnd, Reads
  <2>3. f < Len(x)
    BY <1>3, <2>2 DEF InBounds
  <2>4. PICK start : Laid(x, calls, start, f)
    BY <1>3, <2>1, <2>3 DEF Honest
  <2>5. f \in Nat
    BY <2>4 DEF Laid
  <2> DEFINE n == MaxDepth - Len(calls)
  <2>6. n \in Nat
    BY <1>3, BencodeAssumption DEF Stacked
  <2>7. CASE DecodeInt
    <3> DEFINE newf == Index(CharE, f + 1)
               i == IntOf(Slice(f + 1, newf))
    <3>1. ReadsInt /\ ~AwaitsKey /\ Return(calls, [int |-> i], newf + 1)
      BY <2>7 DEF DecodeInt, ReadsInt
    <3>2. i \in Int /\ newf + 1 = f + Len(EncodeInt(i)) /\ Has(x, f, EncodeInt(i))
      BY <1>2, <1>3, <2>5, <3>1, ReadIntPlain
    <3> HIDE DEF newf, i
    <3>3. [int |-> i] \in Value[n] /\ Code[n][[int |-> i]] = EncodeInt(i)
      BY <2>6, <3>2, ValueRules, CodeRules
    <3>4. Waiting(calls, Len(calls))
      BY <1>3, <3>1, ValueAwaited
    <3> QED
      BY <1>1, <1>3, <2>1, <2>4, <3>1, <3>2, <3>3, <3>4, ReturnLaid
  <2>8. CASE DecodeString
    <3> DEFINE s == StringAt(f)
               end == StringEnd(f)
    <3>1. ~AwaitsKey /\ IsString(f) /\ Return(calls, [str |-> s], end)
      BY <2>8 DEF DecodeString, ReadsString
    <3>2. /\ end \in Nat /\ s \in Seq(Byte)
          /\ end > Len(x) \/ /\ Has(x, f, EncodeString(s))
                             /\ end = f + Len(EncodeString(s))
      BY <1>2, <1>3, <2>2, <2>5, <3>1, ReadStringPlain
    <3> HIDE DEF s, end
    <3>3. [str |-> s] \in Value[n] /\ Code[n][[str |-> s]] = EncodeString(s)
      BY <2>6, <3>2, ValueRules, CodeRules
    <3>4. Waiting(calls, Len(calls))
      BY <1>3, <3>1, ValueAwaited
    <3>5. CASE end > Len(x)
      <4>1. f' = end /\ (outcome' = "ok" => end = Len(x) \/ outcome' = outcome)
        BY <3>1 DEF Return
      <4>2. outcome' # "ok"
        BY <1>3, <2>1, <3>2, <3>5, <4>1
      <4> QED
        BY <1>1, <3>5, <4>1, <4>2 DEF Honest, Same
    <3>6. CASE Has(x, f, EncodeString(s)) /\ end = f + Len(EncodeString(s))
      BY <1>1, <1>3, <2>1, <2>4, <3>1, <3>2, <3>3, <3>4, <3>6, ReturnLaid
    <3> QED
      BY <3>2, <3>5, <3>6
  <2>9. CASE Call
    <3>1. ReadsCall /\ ~AwaitsKey /\ Reads(f, {CharL, CharD})
      BY <2>9 DEF Call, ReadsCall
    <3>2. At(f) = x[f + 1] /\ At(f) \in {CharL, CharD}
      BY <1>3, <2>5, <3>1 DEF Reads, At
    <3>3. CASE Len(calls) = MaxDepth
      <4>1. outcome' = "RuntimeError"
        BY <2>9, <3>3 DEF Call
      <4> QED
        BY <4>1 DEF Honest, Same
    <3>4. CASE Len(calls) # MaxDepth
      <4> DEFINE c == [kind |-> IF At(f) = CharL THEN "list" ELSE "dict",
                       items |-> <<>>, keys |-> <<>>]
                 new == calls'
      <4>1. new = Append(calls, c) /\ f' = f + 1 /\ outcome' = outcome
        BY <2>9, <3>4 DEF Call
      <4>2. c \in CallRecord /\ c.items = <<>> /\ c.keys = <<>>
            /\ c.kind = IF At(f) = CharL THEN "list" ELSE "dict"
        BY DEF CallRecord
      <4> HIDE DEF c, new
      <4>3. /\ Len(new) = Len(calls) + 1 /\ \A k \in 1 .. Len(calls) : new[k] = calls[k]
            /\ new[Len(calls) + 1] = c
        BY <1>3, <4>1, <4>2, AppendProperties
      <4>4. Opening(c) = At(f)
        BY <3>2, <4>2, Characters DEF Opening, CharL, CharD
      <4> DEFINE o == <<At(f)>>
      <4>5. TextOf(new, Len(calls) + 1) = o
        BY <4>2, <4>3, <4>4, TextOfNew DEF TextOf
      <4>6. o \in Seq(Byte) /\ Len(o) = 1
        BY <3>2, Characters
      <4>7. Has(x, f, o)
        BY <1>3, <2>3, <2>5, <3>2, HasOne
      <4> HIDE DEF o
      <4>8. f + 1 = f + Len(o)
        BY <4>6
      <4>9. Agree(new, calls, Len(calls))
        BY <4>3 DEF Agree
      <4>10. Relaid(x, new, f + 1, start, Len(calls) + 1)
        BY <1>3, <2>4, <4>3, <4>5, <4>6, <4>7, <4>8, <4>9, LaidOpened
      <4> QED
        BY <1>1, <2>1, <4>1, <4>10 DEF Honest, Same, Relaid, new
    <3> QED
      BY <3>3, <3>4
  <2>10. CASE DecodeKey
    <3> DEFINE s == StringAt(f)
               end == StringEnd(f)
               L == Len(calls)
               new == calls'
    <3>1. /\ AwaitsKey /\ IsString(f) /\ KeyAllowed(s) /\ f' = end /\ outcome' = outcome
          /\ new = WithKey(calls, s)
      BY <2>10 DEF DecodeKey, ReadsKey, WithKey
    <3>2. /\ end \in Nat /\ s \in Seq(Byte)
          /\ end > Len(x) \/ /\ Has(x, f, EncodeString(s))
                             /\ end = f + Len(EncodeString(s))
      BY <1>2, <1>3, <2>2, <2>5, <3>1, ReadStringPlain
    <3>3. /\ calls # <<>> /\ calls[L].kind = "dict"
          /\ Len(calls[L].keys) = Len(calls[L].items)
          /\ calls[L].keys # <<>> => Less(Last(calls[L].keys), s)
      BY <3>1 DEF AwaitsKey, KeyAllowed, Last
    <3>4. CASE end > Len(x)
      BY <1>1, <2>1, <3>1, <3>4 DEF Honest, Same
    <3>5. CASE Has(x, f, EncodeString(s)) /\ end = f + Len(EncodeString(s))
      <4> HIDE DEF s, end, new, L
      <4>1. /\ Len(new) = L /\ L \in Nat /\ L > 0 /\ \A k \in 1 .. L - 1 : new[k] = calls[k]
            /\ new[L].kind = calls[L].kind /\ new[L].keys = Append(calls[L].keys, s)
            /\ new[L].items = calls[L].items
        BY <1>3, <3>1, <3>2, <3>3, KeyAdded DEF L
      <4>2. L \in 1 .. Len(calls)
        BY <4>1 DEF L
      <4>3. L \in 1 .. MaxDepth /\ calls[L] \in CallRecord /\ CallFits(calls[L], L)
        BY <1>3, <4>2, TextOfType
      <4>4. GotKey(new[L], calls[L], s)
        BY <4>1 DEF GotKey
      <4> DEFINE more == EncodeString(s)
      <4>5. IsConcat(TextOf(new, L), TextOf(calls, L), more)
        BY <3>2, <3>3, <4>3, <4>4, TextWithKey DEF TextOf
      <4>6. more \in Seq(Byte)
        BY <3>2, PiecesAreBytes
      <4> HIDE DEF more
      <4>7. Has(x, f, more) /\ end = f + Len(more) /\ L = Len(calls)
        BY <3>5 DEF more, L
      <4>8. Agree(new, calls, L - 1)
        BY <4>1 DEF Agree
      <4>9. Relaid(x, new, end, start, L)
        BY <1>3, <2>4, <4>1, <4>5, <4>6, <4>7, <4>8, LaidOn
      <4> QED
        BY <1>1, <2>1, <3>1, <4>9 DEF Honest, Same, Relaid, new
    <3> QED
      BY <3>2, <3>4, <3>5
  <2>11. CASE ReturnCollection
    <3> DEFINE L == Len(calls)
               c == Last(calls)
               cs == Front(calls)
               v == Collected(c)
    <3>1. AwaitsEnd /\ calls # <<>> /\ Reads(f, {CharE}) /\ Return(cs, v, f + 1)
      BY <2>11 DEF ReturnCollection, ReadsEnd, AwaitsEnd
    <3>2. v \in Value[MaxDepth - (L - 1)]
      BY <1>3, <3>1, CollectedValue
    <3>3. /\ Len(cs) = L - 1 /\ Stacked(cs) /\ Waiting(cs, L - 1)
          /\ Agree(cs, calls, L - 1)
      BY <1>3, <3>1, Popped DEF Agree
    <3>4. L > 0 /\ c = calls[L] /\ c \in CallRecord /\ CallFits(c, L) /\ L \in Nat
      BY <1>3, <3>1, Types
    <3>5. c.kind = "dict" => Len(c.keys) = Len(c.items)
      BY <3>1 DEF AwaitsEnd, AwaitsKey
    <3> HIDE DEF c, cs, v
    <3>6. /\ Laid(x, cs, start, start[L]) /\ Has(x, start[L], TextOf(calls, L))
          /\ f = start[L] + Len(TextOf(calls, L))
      BY <1>3, <2>4, <3>3, <3>4, LaidClosed
    <3>7. L \in 1 .. MaxDepth /\ L \in 1 .. Len(calls)
      BY <1>3, <3>4 DEF Stacked
    <3> DEFINE t == TextOf(calls, L)
               code == Code[MaxDepth - (L - 1)][v]
               e == <<CharE>>
    <3>8. code = t \o e
      <4>1. Code[MaxDepth - (L - 1)][Collected(c)] = Text(c, Code[MaxDepth - L]) \o <<CharE>>
        BY <3>4, <3>5, <3>7, TextCollected, Zenon
      <4>2. Text(c, Code[MaxDepth - L]) = t
        BY <3>4 DEF TextOf
      <4> QED
        BY <4>1, <4>2 DEF v
    <3>9. t \in Seq(Byte) /\ Len(t) \in Nat
      BY <1>3, <3>7, TextOfType
    <3>10. e \in Seq(Byte) /\ Len(e) = 1
      BY Characters
    <3>11. At(f) = CharE /\ x[f + 1] = CharE
      BY <2>5, <3>1 DEF Reads, At
    <3>12. Has(x, f, e)
      BY <1>3, <2>3, <2>5, <3>11, HasOne
    <3> HIDE DEF t, e
    <3> DEFINE a == start[L]
    <3>13. a \in Nat /\ Has(x, a, t) /\ f = a + Len(t)
      <4>1. Has(x, a, t) /\ f = a + Len(t)
        BY <3>6 DEF t
      <4> QED
        BY <4>1 DEF Has
    <3> HIDE DEF a
    <3>14. Has(x, a, t \o e)
      <4>1. Has(x, a + Len(t), e)
        BY <3>12, <3>13
      <4> QED
        BY <1>3, <3>9, <3>10, <3>13, <4>1, HasConcat
    <3>15. Len(t \o e) = Len(t) + 1
      BY <3>9, <3>10, ConcatProperties
    <3> HIDE DEF code
    <3>16. Has(x, a, code) /\ Len(code) = Len(t) + 1
      BY <3>8, <3>14, <3>15, Zenon
    <3>17. f + 1 = a + Len(code)
      BY <3>9, <3>13, <3>16
    <3>18. Has(x, a, Code[MaxDepth - Len(cs)][v]) /\ f + 1 = a + Len(Code[MaxDepth - Len(cs)][v])
           /\ v \in Value[MaxDepth - Len(cs)] /\ Laid(x, cs, start, a)
           /\ Waiting(cs, Len(cs)) /\ Len(cs) \in Nat
      BY <3>2, <3>3, <3>4, <3>6, <3>16, <3>17 DEF code, a
    <3> QED
      BY <1>1, <1>3, <2>1, <3>1, <3>3, <3>18, ReturnLaid
  <2> QED
    BY <2>1, <2>7, <2>8, <2>9, <2>10, <2>11
<1> QED
  BY <1>4, <1>5, <1>6

(* At the start nothing has been read.                                     *)
LEMMA SameInit ==
  Init => SameInv
<1> SUFFICES ASSUME Init PROVE IInv /\ Honest /\ Same
  BY DEF SameInv
<1>1. IInv
  BY InitInvariant
<1>2. f = 0 /\ calls = <<>> /\ outcome = "reading" /\ Len(x) \in Nat /\ Len(calls) = 0
  BY <1>1, Types DEF Init
<1> DEFINE start == [k \in 1 .. 1 |-> 0]
<1>3. start[1] = 0
  OBVIOUS
<1> HIDE DEF start
<1>4. Laid(x, calls, start, f)
  BY <1>2, <1>3 DEF Laid
<1> QED
  BY <1>1, <1>2, <1>4 DEF Honest, Same

(* What bdecode accepts, with plain numbers, is byte for byte what bencode *)
(* makes of the value it was decoded to.                                   *)
THEOREM SameBytesTheorem ==
  Spec => []SameBytes
<1>1. SameInv => SameBytes
  BY DEF SameInv, Same, SameBytes
<1>2. SameInv /\ IInv' /\ [Next]_vars => SameInv'
  BY SameStep
<1>3. IInv /\ [Next]_vars => IInv'
  BY StepInvariant
<1>4. SameInv => IInv
  BY DEF SameInv
<1> QED
  BY <1>1, <1>2, <1>3, <1>4, SameInit, PTL DEF Spec

-----------------------------------------------------------------------------
(* The round trip: the code of a value is decoded to it.                   *)

(* What decode_int and decode_string make of a number and a string that    *)
(* bencode has written.                                                    *)
LEMMA ReadIntBack ==
  ASSUME x \in Seq(Byte), f \in Nat, NEW n \in Int, Has(x, f, EncodeInt(n)),
         NEW newf, newf = Index(CharE, f + 1)
  PROVE  /\ InBounds(f) /\ At(f) = CharI
         /\ Found(CharE, f + 1) # {} /\ IntAllowed(f + 1, newf)
         /\ IntOf(Slice(f + 1, newf)) = n /\ newf + 1 = f + Len(EncodeInt(n))
<1> DEFINE s == Str(n)
           I == <<CharI>>
           E == <<CharE>>
           p == f + 1 + Len(s)
<1>1. /\ s \in Seq(Byte) /\ Len(s) \in Nat /\ Len(s) > 0 /\ DOMAIN s = 1 .. Len(s)
      /\ \A i \in 1 .. Len(s) : s[i] \in Digit \cup {Minus}
      /\ IsInt(s) /\ IntOf(s) = n
      /\ s[1] = 48 => Len(s) = 1
      /\ s[1] = Minus => Len(s) > 1 /\ s[2] # 48
  <2>1. s \in Seq(Byte) /\ Len(s) > 0
    BY StrOfInt
  <2>2. Len(s) \in Nat /\ DOMAIN s = 1 .. Len(s)
    BY <2>1, BytesAreNumbers
  <2> QED
    BY <2>1, <2>2, StrOfInt
<1>2. I \in Seq(Byte) /\ E \in Seq(Byte) /\ Len(I) = 1 /\ Len(E) = 1
  BY Characters
<1>3. EncodeInt(n) = Three(I, s, E)
  BY DEF EncodeInt, Three
<1> HIDE DEF s, I, E
<1>4. Len(EncodeInt(n)) = 1 + Len(s) + 1
  <2>1. s \in Seq(Byte)
    BY <1>1
  <2>2. Three(I, s, E) \in Seq(Byte) /\ Len(Three(I, s, E)) = Len(I) + Len(s) + Len(E)
    BY <1>2, <2>1, ThreeType
  <2> QED
    BY <1>2, <1>3, <2>2
<1>5. Has(x, f, I) /\ Has(x, f + 1, s) /\ Has(x, p, E)
  <2>1. f + 1 = f + Len(I) /\ p = f + Len(I) + Len(s)
    BY <1>1, <1>2
  <2>2. Has(x, f, Three(I, s, E)) /\ s \in Seq(Byte)
    BY <1>1, <1>3
  <2> HIDE DEF p
  <2> QED
    <3>1. Has(x, f, I) /\ Has(x, f + Len(I), s) /\ Has(x, f + Len(I) + Len(s), E)
      BY <1>2, <2>2, ThreeParts
    <3> QED
      BY <2>1, <3>1
<1>6. p \in Nat /\ f + 1 \in Nat /\ f + 1 <= p /\ Len(x) \in Nat
  BY <1>1
<1>7. f < Len(x) /\ x[f + 1] = CharI /\ p < Len(x) /\ x[p + 1] = CharE
  BY <1>5, <1>6, HasOne DEF I, E
<1>8. \A i \in 1 .. Len(s) : x[(f + 1) + i] = s[i]
  BY <1>5 DEF Has
<1> HIDE DEF p
<1>9. \A j \in Nat : f + 1 <= j /\ j < p => x[j + 1] # CharE
  <2> SUFFICES ASSUME NEW j \in Nat, f + 1 <= j, j < p PROVE x[j + 1] # CharE
    OBVIOUS
  <2>1. j - f \in 1 .. Len(s) /\ (f + 1) + (j - f) = j + 1
    BY <1>1, <1>6 DEF p
  <2>2. x[j + 1] = s[j - f]
    BY <1>8, <2>1
  <2> QED
    BY <1>1, <2>1, <2>2, Characters
<1>10. Found(CharE, f + 1) # {} /\ newf = p
  BY <1>6, <1>7, <1>9, IndexIs
<1>11. Slice(f + 1, newf) = s
  <2>1. p <= Len(x) /\ p = (f + 1) + Len(s)
    BY <1>1, <1>6, <1>7 DEF p
  <2>2. Slice(f + 1, p) = SubSeq(x, (f + 1) + 1, p)
    BY <1>6, <2>1, SliceInside, Zenon
  <2>3. SubSeq(x, (f + 1) + 1, (f + 1) + Len(s)) = s
    BY <1>1, <1>5, <1>6, HasIsSubSeq
  <2> QED
    BY <1>10, <2>1, <2>2, <2>3, Zenon
<1>12. InBounds(f) /\ At(f) = CharI /\ At(f + 1) = s[1]
  <2>1. At(f) = x[f + 1] /\ At(f + 1) = x[(f + 1) + 1]
    BY <1>6 DEF At
  <2>2. 1 \in 1 .. Len(s)
    BY <1>1
  <2> QED
    BY <1>6, <1>7, <1>8, <2>1, <2>2 DEF InBounds
<1>13. IntAllowed(f + 1, newf)
  <2>1. ASSUME s[1] = Minus PROVE At((f + 1) + 1) # 48
    <3>1. 2 \in 1 .. Len(s) /\ (f + 1) + 2 = ((f + 1) + 1) + 1
      BY <1>1, <2>1
    <3>2. At((f + 1) + 1) = x[((f + 1) + 1) + 1]
      BY <1>6 DEF At
    <3>3. At((f + 1) + 1) = s[2]
      BY <1>8, <3>1, <3>2
    <3> QED
      BY <1>1, <2>1, <3>3
  <2>2. s[1] = 48 => newf = (f + 1) + 1
    BY <1>1, <1>10 DEF p
  <2> QED
    BY <1>1, <1>11, <1>12, <2>1, <2>2 DEF IntAllowed
<1>14. newf + 1 = f + Len(EncodeInt(n))
  BY <1>1, <1>4, <1>10 DEF p
<1> QED
  BY <1>1, <1>10, <1>11, <1>12, <1>13, <1>14

(* A string that bencode has written is read back.                         *)
LEMMA ReadStringBack ==
  ASSUME x \in Seq(Byte), f \in Nat, NEW t \in Seq(Byte), Has(x, f, EncodeString(t))
  PROVE  /\ InBounds(f) /\ At(f) \in Digit /\ IsString(f) /\ StringAt(f) = t
         /\ StringEnd(f) = f + Len(EncodeString(t))
<1> DEFINE s == Decimal[Len(t)]
           C == <<Colon>>
           p == f + Len(s)
<1>1. /\ s \in Seq(Byte) /\ s \in Seq(Digit) /\ Len(s) \in Nat /\ Len(s) > 0
      /\ IsInt(s) /\ IntOf(s) = Len(t)
      /\ s[1] = 48 => Len(s) = 1
      /\ Len(t) \in Nat
  <2>1. Len(t) \in Nat /\ Len(t) \in Int
    OBVIOUS
  <2>2. Str(Len(t)) = s
    BY <2>1 DEF Str
  <2>3. /\ Str(Len(t)) \in Seq(Byte) /\ Len(Str(Len(t))) > 0
        /\ IsInt(Str(Len(t))) /\ IntOf(Str(Len(t))) = Len(t)
        /\ Str(Len(t))[1] = 48 => Len(Str(Len(t))) = 1
    BY <2>1, StrOfInt
  <2>4. s \in Seq(Digit)
    BY PiecesAreBytes
  <2> HIDE DEF s
  <2> QED
    BY <2>1, <2>2, <2>3, <2>4, BytesAreNumbers
<1>2. C \in Seq(Byte) /\ Len(C) = 1
  BY Characters
<1>3. EncodeString(t) = Three(s, C, t)
  BY DEF EncodeString, Three
<1> HIDE DEF s, C
<1>4. Len(EncodeString(t)) = Len(s) + 1 + Len(t)
  <2>1. s \in Seq(Byte)
    BY <1>1
  <2>2. Three(s, C, t) \in Seq(Byte) /\ Len(Three(s, C, t)) = Len(s) + Len(C) + Len(t)
    BY <1>2, <2>1, ThreeType
  <2> QED
    BY <1>2, <1>3, <2>2
<1>5. Has(x, f, s) /\ Has(x, p, C) /\ Has(x, p + 1, t)
  <2>1. p = f + Len(s) /\ p + 1 = f + Len(s) + Len(C)
    BY <1>1, <1>2
  <2>2. Has(x, f, Three(s, C, t)) /\ s \in Seq(Byte)
    BY <1>1, <1>3
  <2> HIDE DEF p
  <2> QED
    <3>1. Has(x, f, s) /\ Has(x, f + Len(s), C) /\ Has(x, f + Len(s) + Len(C), t)
      BY <1>2, <2>2, ThreeParts
    <3> QED
      BY <2>1, <3>1
<1>6. p \in Nat /\ f <= p /\ Len(x) \in Nat
  BY <1>1
<1>7. p < Len(x) /\ x[p + 1] = Colon
  BY <1>5, <1>6, HasOne DEF C
<1>8. \A i \in 1 .. Len(s) : x[f + i] = s[i]
  BY <1>5 DEF Has
<1>9. \A i \in 1 .. Len(s) : s[i] \in Digit
  BY <1>1
<1> HIDE DEF p
<1>10. \A j \in Nat : f <= j /\ j < p => x[j + 1] # Colon
  <2> SUFFICES ASSUME NEW j \in Nat, f <= j, j < p PROVE x[j + 1] # Colon
    OBVIOUS
  <2>1. (j + 1) - f \in 1 .. Len(s) /\ f + ((j + 1) - f) = j + 1
    BY <1>1, <1>6 DEF p
  <2>2. x[j + 1] = s[(j + 1) - f]
    BY <1>8, <2>1
  <2> QED
    BY <1>9, <2>1, <2>2, Characters
<1>11. Found(Colon, f) # {} /\ Index(Colon, f) = p
  BY <1>6, <1>7, <1>10, IndexIs
<1>12. Slice(f, p) = s
  <2>1. p <= Len(x) /\ p = f + Len(s)
    BY <1>6, <1>7 DEF p
  <2>2. Slice(f, p) = SubSeq(x, f + 1, p)
    BY <1>6, <2>1, SliceInside, Zenon
  <2>3. SubSeq(x, f + 1, f + Len(s)) = s
    BY <1>1, <1>5, <1>6, HasIsSubSeq
  <2> QED
    BY <2>1, <2>2, <2>3, Zenon
<1>13. f < Len(x) /\ InBounds(f) /\ At(f) = s[1] /\ At(f) \in Digit
  <2>1. At(f) = x[f + 1]
    BY DEF At
  <2>2. 1 \in 1 .. Len(s)
    BY <1>1
  <2> QED
    BY <1>6, <1>7, <1>8, <1>9, <2>1, <2>2 DEF InBounds
<1>14. IsString(f)
  <2>1. s[1] = 48 => p = f + 1
    BY <1>1 DEF p
  <2> QED
    BY <1>1, <1>11, <1>12, <1>13, <2>1 DEF IsString
<1>15. StringEnd(f) = p + 1 + Len(t)
  BY <1>1, <1>11, <1>12 DEF StringEnd
<1>16. StringAt(f) = t
  <2> DEFINE q == (p + 1) + Len(t)
  <2>1. p + 1 \in Nat /\ q \in Nat /\ q <= Len(x)
    BY <1>1, <1>5, <1>6 DEF Has
  <2>2. StringAt(f) = Slice(p + 1, q)
    BY <1>11, <1>15 DEF StringAt
  <2>3. SubSeq(x, (p + 1) + 1, (p + 1) + Len(t)) = t
    BY <1>5, <2>1, HasIsSubSeq
  <2> HIDE DEF q
  <2>4. Slice(p + 1, q) = SubSeq(x, (p + 1) + 1, q)
    BY <2>1, SliceInside, Zenon
  <2> QED
    BY <2>2, <2>3, <2>4, Zenon DEF q
<1>17. StringEnd(f) = f + Len(EncodeString(t))
  BY <1>1, <1>4, <1>15 DEF p
<1> QED
  BY <1>13, <1>14, <1>16, <1>17

(* A call that has decoded all of its list or dictionary.                  *)
Whole(c) == c.kind = "dict" => Len(c.keys) = Len(c.items)

(* c has decoded the beginning of what `whole` has decoded.                *)
Partial(c, whole) ==
  /\ c.kind = whole.kind
  /\ Len(c.items) <= Len(whole.items) /\ Len(c.keys) <= Len(whole.keys)
  /\ \A i \in 1 .. Len(c.items) : c.items[i] = whole.items[i]
  /\ \A i \in 1 .. Len(c.keys) : c.keys[i] = whole.keys[i]

(* Every value is a number, a string or what a call returns in the end.    *)
LEMMA CollectedFrom ==
  ASSUME NEW k \in 1 .. MaxDepth, NEW w \in Value[MaxDepth - (k - 1)]
  PROVE  \/ \E i \in Int : w = [int |-> i]
         \/ \E s \in Seq(Byte) : w = [str |-> s]
         \/ \E c \in CallRecord : CallFits(c, k) /\ Whole(c) /\ Collected(c) = w
<1> DEFINE n == MaxDepth - k
           V == Value[n]
<1>1. n \in Nat /\ n + 1 = MaxDepth - (k - 1) /\ n + 1 \in Nat /\ n + 1 # 0 /\ (n + 1) - 1 = n
      /\ n <= MaxDepth /\ MaxDepth \in Nat
  BY BencodeAssumption
<1>2. V \subseteq Value[MaxDepth]
  BY <1>1, ValueMonotone
<1> HIDE DEF V
<1>3. CASE \E q \in Seq(V) : w = [list |-> q]
  <2>1. PICK q \in Seq(V) : w = [list |-> q]
    BY <1>3
  <2> DEFINE c == [kind |-> "list", items |-> q, keys |-> <<>>]
  <2>2. c.kind = "list" /\ c.items = q /\ c.keys = <<>>
    OBVIOUS
  <2>3. c \in CallRecord
    <3>1. q \in Seq(Value[MaxDepth])
      BY <1>2, SeqMonotonic
    <3>2. <<>> \in Seq(Seq(Byte))
      BY EmptySeq
    <3> QED
      BY <3>1, <3>2 DEF CallRecord
  <2> HIDE DEF c
  <2>4. CallFits(c, k)
    <3>1. DOMAIN c.keys = {}
      BY <2>2
    <3>2. c.items \in Seq(Value[MaxDepth - k])
      BY <2>2 DEF V
    <3> QED
      BY <2>2, <3>1, <3>2 DEF CallFits
  <2>5. Whole(c) /\ Collected(c) = w
    BY <2>1, <2>2 DEF Whole, Collected
  <2> QED
    BY <2>3, <2>4, <2>5
<1>4. CASE \E d \in Dict(V) : w = [dict |-> d]
  <2>1. PICK d \in Dict(V) : w = [dict |-> d]
    BY <1>4
  <2> DEFINE its == SortedItems(d)
             N == Len(its)
  <2>2. /\ its \in Seq(d) /\ SortedAs(its, d) /\ N = Cardinality(d)
        /\ \A i \in 1 .. N : its[i][1] \in Seq(Byte) /\ its[i][2] \in V
    BY DictItems
  <2>3. N \in Nat /\ DOMAIN its = 1 .. N /\ ToSet(its) = d
        /\ \A i, j \in 1 .. N : i < j => Less(its[i][1], its[j][1])
    BY <2>2 DEF SortedAs
  <2>4. \A i \in 1 .. N : its[i] \in d
    BY <2>2
  <2>5. \A p \in d : p = <<p[1], p[2]>>
    BY DEF Dict
  <2> HIDE DEF its, N
  <2> DEFINE keys == [i \in 1 .. N |-> its[i][1]]
             items == [i \in 1 .. N |-> its[i][2]]
             c == [kind |-> "dict", items |-> items, keys |-> keys]
  <2>6. /\ keys \in Seq(Seq(Byte)) /\ items \in Seq(V) /\ Len(keys) = N /\ Len(items) = N
        /\ DOMAIN keys = 1 .. N /\ DOMAIN items = 1 .. N
        /\ \A i \in 1 .. N : keys[i] = its[i][1] /\ items[i] = its[i][2]
    <3> DEFINE B == Seq(Byte)
    <3>1. \A i \in 1 .. N : its[i][1] \in B /\ its[i][2] \in V
      BY <2>2
    <3> HIDE DEF B
    <3>2. keys \in [1 .. N -> B] /\ items \in [1 .. N -> V]
      BY <3>1
    <3>3. keys \in Seq(B) /\ items \in Seq(V) /\ Len(keys) = N /\ Len(items) = N
      BY <2>3, <3>2
    <3> QED
      BY <3>2, <3>3 DEF B
  <2> HIDE DEF keys, items
  <2>7. c.kind = "dict" /\ c.items = items /\ c.keys = keys
    OBVIOUS
  <2>8. c \in CallRecord
    <3>1. items \in Seq(Value[MaxDepth])
      BY <1>2, <2>6, SeqMonotonic
    <3> QED
      BY <2>6, <3>1 DEF CallRecord
  <2> HIDE DEF c
  <2>9. CallFits(c, k)
    <3>1. c.items \in Seq(Value[MaxDepth - k])
      BY <2>6, <2>7 DEF V
    <3>2. \A i, j \in DOMAIN c.keys : i < j => Less(c.keys[i], c.keys[j])
      <4> SUFFICES ASSUME NEW i \in 1 .. N, NEW j \in 1 .. N, i < j
                   PROVE  Less(keys[i], keys[j])
        BY <2>6, <2>7
      <4>1. Less(its[i][1], its[j][1])
        BY <2>3
      <4>2. keys[i] = its[i][1] /\ keys[j] = its[j][1]
        BY <2>6
      <4> QED
        BY <4>1, <4>2
    <3>3. Len(c.keys) - Len(c.items) = 0
      BY <2>3, <2>6, <2>7
    <3> QED
      BY <2>7, <3>1, <3>2, <3>3 DEF CallFits
  <2>10. Whole(c) /\ Collected(c) = w
    <3> DEFINE e == {<<keys[i], items[i]>> : i \in 1 .. N}
    <3>1. Collected(c) = [dict |-> e]
      BY <2>6, <2>7 DEF Collected
    <3>2. \A i \in 1 .. N : <<keys[i], items[i]>> = its[i]
      BY <2>4, <2>5, <2>6
    <3>3. e = {its[i] : i \in 1 .. N}
      BY <3>2
    <3>4. d = {its[i] : i \in 1 .. N}
      BY <2>3 DEF ToSet
    <3> QED
      BY <2>1, <2>6, <2>7, <3>1, <3>3, <3>4 DEF Whole
  <2> QED
    BY <2>8, <2>9, <2>10
<1>5. \/ \E i \in Int : w = [int |-> i]
      \/ \E s \in Seq(Byte) : w = [str |-> s]
      \/ \E q \in Seq(V) : w = [list |-> q]
      \/ \E d \in Dict(V) : w = [dict |-> d]
  BY <1>1, ValueCases DEF V
<1> QED
  BY <1>3, <1>4, <1>5

(* A call that has decoded all another has returns the same.               *)
LEMMA PartialWhole ==
  ASSUME NEW c \in CallRecord, NEW whole \in CallRecord, Partial(c, whole),
         Len(c.items) = Len(whole.items), Len(c.keys) = Len(whole.keys), NEW code
  PROVE  Text(c, code) = Text(whole, code) /\ Collected(c) = Collected(whole)
<1> DEFINE a == c.items
           b == whole.items
           p == c.keys
           q == whole.keys
           S == Value[MaxDepth]
<1>1. a \in Seq(S) /\ b \in Seq(S) /\ p \in Seq(Seq(Byte)) /\ q \in Seq(Seq(Byte))
  BY CallFields
<1>2. Len(a) = Len(b) /\ Len(p) = Len(q) /\ (\A i \in 1 .. Len(a) : a[i] = b[i])
      /\ (\A i \in 1 .. Len(p) : p[i] = q[i])
  BY DEF Partial
<1> HIDE DEF a, b, p, q, S
<1>3. a = b
  BY <1>1, <1>2, SeqEqual
<1>4. p = q
  BY <1>1, <1>2, SeqEqual
<1>5. c.kind = whole.kind
  BY DEF Partial
<1> QED
  BY <1>3, <1>4, <1>5 DEF a, b, p, q, Text, Collected, Parts, Opening, PendingKey

(* The first elements of a sequence.                                       *)
LEMMA Beginning ==
  ASSUME NEW S, NEW q \in Seq(S), NEW n \in Nat, n <= Len(q)
  PROVE  /\ SubSeq(q, 1, n) \in Seq(S) /\ Len(SubSeq(q, 1, n)) = n
         /\ \A i \in 1 .. n : SubSeq(q, 1, n)[i] = q[i]
<1> DEFINE p == SubSeq(q, 1, n)
<1>1. \A i \in 1 .. n : q[i] \in S
  BY ElementOfSeq
<1>2. /\ p \in Seq(S) /\ Len(p) = IF 1 <= n THEN n - 1 + 1 ELSE 0
      /\ \A i \in 1 .. n - 1 + 1 : p[i] = q[1 + i - 1]
  BY <1>1, SubSeqProperties
<1> HIDE DEF p
<1>3. n - 1 + 1 = n /\ \A i \in Int : 1 + i - 1 = i
  OBVIOUS
<1>4. Len(p) = n /\ \A i \in 1 .. n : p[i] = q[i]
  BY <1>2, <1>3
<1> QED
  BY <1>2, <1>4 DEF p

(* What stands behind the text of a call that has not decoded all: the     *)
(* code of its next item or, without the key, of its next key.             *)
LEMMA NextPiece ==
  ASSUME NEW s \in Seq(Byte), NEW k \in 1 .. MaxDepth,
         NEW c \in CallRecord, CallFits(c, k), NEW whole \in CallRecord, CallFits(whole, k),
         Whole(whole), Partial(c, whole), NEW code, code = Code[MaxDepth - k],
         NEW a \in Nat, Has(s, a, Text(whole, code)),
         NEW m, m = Len(c.items), m < Len(whole.items),
         NEW b, b = a + Len(Text(c, code))
  PROVE  /\ c.kind = "list" \/ Len(c.keys) = m + 1 => Has(s, b, code[whole.items[m + 1]])
         /\ c.kind = "dict" /\ Len(c.keys) = m => Has(s, b, EncodeString(whole.keys[m + 1]))
<1> DEFINE M == Len(whole.items)
           O == <<Opening(c)>>
           P == Parts(whole, code)
           p == Parts(c, code)
           F == FlattenSeq(p)
           K == PendingKey(c)
           last == P[m + 1]
           item == code[whole.items[m + 1]]
           key == EncodeString(whole.keys[m + 1])
<1>1. /\ P \in Seq(Seq(Byte)) /\ FlattenSeq(P) \in Seq(Byte)
      /\ p \in Seq(Seq(Byte)) /\ F \in Seq(Byte) /\ O \in Seq(Byte) /\ K \in Seq(Byte)
      /\ <<Opening(whole)>> \o FlattenSeq(P) \in Seq(Byte)
  BY TextIsBytes
<1>2. /\ c.kind \in {"list", "dict"} /\ c.kind = whole.kind
      /\ m \in Nat /\ Len(c.keys) \in Nat /\ M \in Nat /\ Len(whole.keys) \in Nat
      /\ c.kind = "dict" => Len(c.keys) >= m /\ Len(whole.keys) = M
      /\ \A i \in 1 .. m : c.items[i] = whole.items[i]
      /\ \A i \in 1 .. Len(c.keys) : c.keys[i] = whole.keys[i]
  BY CallFields DEF Partial, Whole, CallFits
<1>3. Opening(whole) = Opening(c) /\ PendingKey(whole) = <<>>
  BY <1>2 DEF Opening, PendingKey
<1>4. Text(whole, code) = O \o FlattenSeq(P)
  BY <1>1, <1>3, ConcatEmptySeq DEF Text
<1>5. Len(P) = M /\ Len(p) = m
      /\ (\A i \in 1 .. M : P[i] = Part(whole.kind, whole.keys[i], code[whole.items[i]]))
      /\ (\A i \in 1 .. m : p[i] = Part(c.kind, c.keys[i], code[c.items[i]]))
  BY <1>2 DEF Parts
<1> HIDE DEF P, p, M
<1>6. ASSUME NEW i \in 1 .. m PROVE p[i] = P[i]
  <2>1. i \in 1 .. M /\ c.items[i] = whole.items[i]
    BY <1>2 DEF M
  <2>2. CASE c.kind = "list"
    <3>1. P[i] = Part(whole.kind, whole.keys[i], code[whole.items[i]])
      BY <1>5, <2>1
    <3>2. p[i] = Part(c.kind, c.keys[i], code[c.items[i]])
      BY <1>5
    <3>3. c.kind = whole.kind
      BY <1>2
    <3> QED
      BY <2>1, <2>2, <3>1, <3>2, <3>3 DEF Part
  <2>3. CASE c.kind = "dict"
    <3>1. c.keys[i] = whole.keys[i]
      BY <1>2, <2>3
    <3> QED
      BY <1>2, <1>5, <2>1, <3>1
  <2> QED
    BY <1>2, <2>2, <2>3
<1>7. m + 1 \in 1 .. M /\ m + 1 \in 0 .. Len(P)
  BY <1>2, <1>5 DEF M
<1>8. last = Part(whole.kind, whole.keys[m + 1], item)
  BY <1>5, <1>7
<1>9. last \in Seq(Byte)
  BY <1>1, <1>5, <1>7, ElementOfSeq
<1> HIDE DEF F, K, last, item, key, O
<1>10. Has(s, a, O) /\ Has(s, a + 1, FlattenSeq(P))
  <2>1. Has(s, a, O) /\ Has(s, a + Len(O), FlattenSeq(P))
    BY <1>1, <1>4, HasConcat
  <2>2. Len(O) = 1
    BY DEF O
  <2> QED
    BY <2>1, <2>2
<1> DEFINE q == SubSeq(P, 1, m + 1)
<1>11. Has(s, a + 1, FlattenSeq(q))
  <2>1. a + 1 \in Nat
    OBVIOUS
  <2> HIDE DEF q
  <2>2. Has(s, a + 1, FlattenSeq(SubSeq(P, 1, m + 1)))
    BY <1>1, <1>7, <1>10, <2>1, FlattenPrefix
  <2> QED
    BY <2>2 DEF q
<1>12. IsAppend(q, p, last)
  <2>1. m + 1 \in Nat /\ m + 1 <= Len(P)
    BY <1>2, <1>7
  <2>2. /\ q \in Seq(Seq(Byte)) /\ Len(q) = m + 1
        /\ \A i \in 1 .. m + 1 : q[i] = P[i]
    BY <1>1, <2>1, Beginning, Zenon
  <2> HIDE DEF q
  <2>3. q = [i \in 1 .. m + 1 |-> q[i]]
    BY <2>2
  <2>4. (\A i \in 1 .. m : q[i] = p[i]) /\ q[m + 1] = last
    <3>1. m + 1 \in 1 .. m + 1 /\ \A i \in 1 .. m : i \in 1 .. m + 1
      BY <1>2
    <3> QED
      BY <1>6, <2>2, <3>1, Zenon DEF last
  <2> QED
    BY <1>1, <1>2, <1>5, <1>9, <2>3, <2>4, Extended
<1>13. FlattenSeq(q) = F \o last
  BY <1>1, <1>9, <1>12, FlattenAppend DEF IsAppend, F
<1> HIDE DEF q
<1> DEFINE e == a + 1 + Len(F)
<1>14. Has(s, e, last) /\ e \in Nat
  <2>1. Has(s, a + 1, F \o last) /\ a + 1 \in Nat /\ Len(F) \in Nat
    BY <1>1, <1>11, <1>13
  <2> DEFINE z == a + 1
  <2>2. z \in Nat /\ Has(s, z, F \o last) /\ e = z + Len(F) /\ e \in Nat
    BY <2>1
  <2> HIDE DEF z, e
  <2>3. Has(s, z + Len(F), last)
    BY <1>1, <1>9, <2>2, HasConcat
  <2> QED
    BY <2>2, <2>3
<1>15. b = e + Len(K)
  <2>1. Text(c, code) = Three(O, F, K)
    BY DEF Text, Three, O, F, K, p
  <2>2. Three(O, F, K) \in Seq(Byte) /\ Len(Three(O, F, K)) = Len(O) + Len(F) + Len(K)
    BY <1>1, ThreeType
  <2>3. Len(O) = 1
    BY DEF O
  <2>4. Len(F) \in Nat /\ Len(K) \in Nat
    BY <1>1
  <2> QED
    BY <2>1, <2>2, <2>3, <2>4
<1> HIDE DEF e
<1>16. CASE c.kind = "list"
  <2>1. last = item /\ K = <<>> /\ Len(K) = 0
    BY <1>2, <1>8, <1>16 DEF Part, PendingKey, K
  <2> QED
    BY <1>14, <1>15, <1>16, <2>1 DEF item
<1>17. CASE c.kind = "dict"
  <2>1. last = key \o item
    BY <1>2, <1>8, <1>17 DEF Part, key
  <2>2. key \in Seq(Byte) /\ item \in Seq(Byte)
    <3>1. whole.keys[m + 1] \in Seq(Byte)
      <4>1. whole.keys \in Seq(Seq(Byte)) /\ m + 1 \in 1 .. Len(whole.keys)
        BY <1>2, <1>7, <1>17, CallFields DEF M
      <4> QED
        BY <4>1, ElementOfSeq
    <3>2. whole.items[m + 1] \in Value[MaxDepth - k]
      <4> DEFINE V == Value[MaxDepth - k]
      <4>1. whole.items \in Seq(V) /\ m + 1 \in 1 .. Len(whole.items)
        BY <1>7 DEF CallFits, M
      <4> HIDE DEF V
      <4>2. whole.items[m + 1] \in V
        BY <4>1, ElementOfSeq
      <4> QED
        BY <4>2 DEF V
    <3>3. MaxDepth - k \in Nat
      BY BencodeAssumption
    <3> QED
      BY <3>1, <3>2, <3>3, PiecesAreBytes, CodeIsBytes DEF key, item
  <2>3. Has(s, e, key) /\ Has(s, e + Len(key), item)
    BY <1>14, <2>1, <2>2, HasConcat
  <2>4. CASE Len(c.keys) = m
    <3>1. K = <<>> /\ Len(K) = 0
      BY <1>2, <2>4 DEF K, PendingKey
    <3> QED
      BY <1>2, <1>14, <1>15, <1>17, <2>3, <2>4, <3>1 DEF key
  <2>5. CASE Len(c.keys) # m
    <3>1. CASE Len(c.keys) = m + 1
      <4>1. K = EncodeString(c.keys[m + 1]) /\ c.keys[m + 1] = whole.keys[m + 1]
        <5>1. K = EncodeString(c.keys[Len(c.keys)])
          BY <1>17, <3>1 DEF K, PendingKey
        <5>2. Len(c.keys) \in 1 .. Len(c.keys)
          BY <1>2, <3>1
        <5>3. c.keys[Len(c.keys)] = whole.keys[Len(c.keys)]
          BY <1>2, <5>2
        <5> QED
          BY <3>1, <5>1, <5>3
      <4> QED
        BY <1>15, <1>17, <2>3, <2>5, <4>1 DEF key, item
    <3>2. CASE Len(c.keys) # m + 1
      BY <1>17, <2>5, <3>2
    <3> QED
      BY <3>1, <3>2
  <2> QED
    BY <2>4, <2>5
<1> QED
  BY <1>2, <1>16, <1>17

(* While the code of v is decoded, done[k] is the k-th call as it will be  *)
(* when it returns; the n-th call still waits for a value.                 *)
WantsAt(cs, done, n) == n = 0 \/ Len(cs[n].items) < Len(done[n].items)

(* The value the n-th call now waits for; bdecode waits for v.             *)
WantedAt(v, cs, done, n) ==
  IF n = 0 THEN v ELSE done[n].items[Len(cs[n].items) + 1]

(* The k-th call c will become `whole`, whose code stands in s from a on.  *)
Built(s, c, whole, a, k) ==
  /\ whole \in CallRecord /\ CallFits(whole, k) /\ Whole(whole) /\ Partial(c, whole)
  /\ Has(s, a, Code[MaxDepth - (k - 1)][Collected(whole)])

(* Every call is on its way to what the call before it waits for.          *)
Doing(s, v, cs, done, start) ==
  \A k \in 1 .. Len(cs) :
    /\ Built(s, cs[k], done[k], start[k], k)
    /\ WantsAt(cs, done, k - 1) /\ Collected(done[k]) = WantedAt(v, cs, done, k - 1)

(* The last call gets on with the same list or dictionary.                 *)
LEMMA DoingOn ==
  ASSUME NEW s, NEW v, NEW cs, NEW done, NEW start, Doing(s, v, cs, done, start),
         NEW L, L = Len(cs), L \in Nat, L > 0,
         NEW new, Len(new) = L, Agree(new, cs, L - 1), Partial(new[L], done[L]),
         NEW b, Agree(b, start, L)
  PROVE  Doing(s, v, new, done, b)
<1> SUFFICES ASSUME NEW k \in 1 .. L
             PROVE  /\ Built(s, new[k], done[k], b[k], k) /\ WantsAt(new, done, k - 1)
                    /\ Collected(done[k]) = WantedAt(v, new, done, k - 1)
  BY DEF Doing
<1>1. /\ Built(s, cs[k], done[k], start[k], k) /\ WantsAt(cs, done, k - 1)
      /\ Collected(done[k]) = WantedAt(v, cs, done, k - 1)
  BY DEF Doing
<1>2. k - 1 = 0 \/ new[k - 1] = cs[k - 1]
  <2>1. k - 1 = 0 \/ k - 1 \in 1 .. L - 1
    OBVIOUS
  <2> QED
    BY <2>1 DEF Agree
<1>3. WantsAt(new, done, k - 1) /\ WantedAt(v, new, done, k - 1) = WantedAt(v, cs, done, k - 1)
  BY <1>1, <1>2 DEF WantsAt, WantedAt
<1>4. b[k] = start[k]
  BY DEF Agree
<1>5. Partial(new[k], done[k])
  <2>1. CASE k = L
    BY <2>1
  <2>2. CASE k # L
    <3>1. k \in 1 .. L - 1
      BY <2>2
    <3> QED
      BY <1>1, <3>1 DEF Agree, Built
  <2> QED
    BY <2>1, <2>2
<1> QED
  BY <1>1, <1>3, <1>4, <1>5 DEF Built

(* A new call begins with the value the last one waits for.                *)
LEMMA DoingOpened ==
  ASSUME NEW s, NEW v, NEW cs, NEW done, NEW start, Doing(s, v, cs, done, start),
         NEW L, L = Len(cs), L \in Nat, WantsAt(cs, done, L),
         NEW new, Len(new) = L + 1, Agree(new, cs, L),
         NEW whole, Built(s, new[L + 1], whole, start[L + 1], L + 1),
         Collected(whole) = WantedAt(v, cs, done, L),
         NEW b, Agree(b, start, L + 1)
  PROVE  \E all : Doing(s, v, new, all, b)
<1> DEFINE all == [k \in 1 .. L + 1 |-> IF k = L + 1 THEN whole ELSE done[k]]
<1>1. all[L + 1] = whole /\ \A k \in 1 .. L : all[k] = done[k]
  OBVIOUS
<1> HIDE DEF all
<1>2. ASSUME NEW k \in 1 .. L + 1
      PROVE  /\ Built(s, new[k], all[k], b[k], k) /\ WantsAt(new, all, k - 1)
             /\ Collected(all[k]) = WantedAt(v, new, all, k - 1)
  <2>1. b[k] = start[k]
    BY DEF Agree
  <2>2. k - 1 = 0 \/ k - 1 \in 1 .. L
    OBVIOUS
  <2>3. k - 1 = 0 \/ (new[k - 1] = cs[k - 1] /\ all[k - 1] = done[k - 1])
    BY <1>1, <2>2 DEF Agree
  <2>4. /\ WantsAt(new, all, k - 1) <=> WantsAt(cs, done, k - 1)
        /\ WantedAt(v, new, all, k - 1) = WantedAt(v, cs, done, k - 1)
    BY <2>3 DEF WantsAt, WantedAt
  <2>5. CASE k = L + 1
    <3>1. k - 1 = L
      BY <2>5
    <3> QED
      BY <1>1, <2>1, <2>4, <2>5, <3>1
  <2>6. CASE k # L + 1
    <3>1. k \in 1 .. L
      BY <2>6
    <3>2. /\ Built(s, cs[k], done[k], start[k], k) /\ WantsAt(cs, done, k - 1)
          /\ Collected(done[k]) = WantedAt(v, cs, done, k - 1)
      BY <3>1 DEF Doing
    <3>3. new[k] = cs[k] /\ all[k] = done[k]
      BY <1>1, <3>1 DEF Agree
    <3> QED
      BY <2>1, <2>4, <3>2, <3>3
  <2> QED
    BY <2>5, <2>6
<1> QED
  BY <1>2 DEF Doing

(* The value wanted is nested no deeper than the place allows.             *)
LEMMA WantedType ==
  ASSUME NEW s, NEW v \in Value[MaxDepth], NEW cs, Stacked(cs), NEW done, NEW start,
         Doing(s, v, cs, done, start), WantsAt(cs, done, Len(cs))
  PROVE  /\ MaxDepth - Len(cs) \in Nat
         /\ WantedAt(v, cs, done, Len(cs)) \in Value[MaxDepth - Len(cs)]
<1>1. MaxDepth \in Nat /\ Len(cs) \in Nat /\ Len(cs) <= MaxDepth /\ cs \in Seq(CallRecord)
  BY BencodeAssumption DEF Stacked
<1>2. CASE Len(cs) = 0
  BY <1>1, <1>2 DEF WantedAt
<1>3. CASE Len(cs) # 0
  <2> DEFINE L == Len(cs)
             V == Value[MaxDepth - L]
             whole == done[L]
             m == Len(cs[L].items)
  <2>1. L \in 1 .. L /\ cs[L] \in CallRecord
    BY <1>1, <1>3, ElementOfSeq
  <2>2. whole \in CallRecord /\ CallFits(whole, L)
    BY <2>1 DEF Doing, Built
  <2>3. m \in Nat /\ m < Len(whole.items) /\ Len(whole.items) \in Nat
    BY <1>3, <2>1, <2>2, CallFields DEF WantsAt
  <2>4. whole.items \in Seq(V)
    BY <2>2 DEF CallFits
  <2>5. WantedAt(v, cs, done, L) = whole.items[m + 1]
    BY <1>3 DEF WantedAt
  <2> HIDE DEF V, whole, m
  <2>6. m + 1 \in 1 .. Len(whole.items)
    BY <2>3
  <2>7. whole.items[m + 1] \in V
    BY <2>4, <2>6, ElementOfSeq
  <2> QED
    BY <1>1, <2>5, <2>7 DEF V
<1> QED
  BY <1>2, <1>3

(* What stands where the last call reads on.                               *)
LEMMA Expected ==
  ASSUME IInv, calls # <<>>, NEW v, NEW start, NEW done,
         Laid(x, calls, start, f), Doing(x, v, calls, done, start),
         NEW L, L = Len(calls), NEW c, c = calls[L], NEW whole, whole = done[L]
  PROVE  \/ /\ ~AwaitsKey /\ WantsAt(calls, done, L)
            /\ Has(x, f, Code[MaxDepth - L][WantedAt(v, calls, done, L)])
         \/ /\ AwaitsKey /\ Len(c.keys) < Len(whole.keys)
            /\ Has(x, f, EncodeString(whole.keys[Len(c.keys) + 1]))
         \/ /\ AwaitsEnd /\ Len(c.items) = Len(whole.items) /\ Len(c.keys) = Len(whole.keys)
            /\ Has(x, f, <<CharE>>)
<1>1. /\ x \in Seq(Byte) /\ Stacked(calls) /\ L \in Nat /\ L > 0 /\ Last(calls) = c
      /\ c \in CallRecord /\ CallFits(c, L)
  BY Types
<1>2. L \in 1 .. Len(calls)
  BY <1>1
<1>3. L \in 1 .. MaxDepth
  BY <1>1, <1>2, TextOfType
<1>4. /\ whole \in CallRecord /\ CallFits(whole, L) /\ Whole(whole) /\ Partial(c, whole)
      /\ Has(x, start[L], Code[MaxDepth - (L - 1)][Collected(whole)])
  BY <1>2 DEF Doing, Built
<1> DEFINE code == Code[MaxDepth - L]
           m == Len(c.items)
           M == Len(whole.items)
           a == start[L]
           t == Text(whole, code)
           e == <<CharE>>
<1>5. /\ c.kind \in {"list", "dict"} /\ c.kind = whole.kind
      /\ m \in Nat /\ M \in Nat /\ Len(c.keys) \in Nat /\ Len(whole.keys) \in Nat
      /\ m <= M /\ Len(c.keys) <= Len(whole.keys)
      /\ c.kind = "dict" => Len(c.keys) - m \in {0, 1} /\ Len(whole.keys) = M
      /\ c.kind = "list" => Len(c.keys) = 0 /\ Len(whole.keys) = 0
  BY <1>1, <1>4, CallFields DEF Partial, Whole, CallFits
<1>6. Has(x, a, TextOf(calls, L)) /\ f = a + Len(TextOf(calls, L))
  BY <1>2 DEF Laid
<1>7. a \in Nat /\ f = a + Len(Text(c, code))
  BY <1>6 DEF Has, TextOf
<1>8. Code[MaxDepth - (L - 1)][Collected(whole)] = t \o e
  <2>1. whole.kind = "dict" => Len(whole.keys) = Len(whole.items)
    BY <1>4 DEF Whole
  <2> QED
    BY <1>3, <1>4, <2>1, TextCollected, Zenon
<1>9. t \in Seq(Byte) /\ e \in Seq(Byte)
  <2>1. t \in Seq(Byte)
    BY <1>3, <1>4, TextIsBytes
  <2> QED
    BY <2>1, Characters
<1>10. Has(x, a, t \o e)
  BY <1>4, <1>8
<1> HIDE DEF t, e, a, code
<1>11. Has(x, a, t) /\ Has(x, a + Len(t), e)
  BY <1>1, <1>7, <1>9, <1>10, HasConcat
<1>12. AwaitsKey <=> c.kind = "dict" /\ Len(c.keys) = m
  BY <1>1 DEF AwaitsKey
<1>13. AwaitsEnd <=> c.kind = "list" \/ AwaitsKey
  BY <1>1 DEF AwaitsEnd
<1>14. ASSUME m < M
       PROVE  /\ c.kind = "list" \/ Len(c.keys) = m + 1 => Has(x, f, code[whole.items[m + 1]])
              /\ c.kind = "dict" /\ Len(c.keys) = m => Has(x, f, EncodeString(whole.keys[m + 1]))
  <2>1. Has(x, a, Text(whole, code)) /\ code = Code[MaxDepth - L]
    BY <1>11 DEF t, code
  <2> QED
    BY <1>1, <1>3, <1>4, <1>7, <1>14, <2>1, NextPiece
<1>15. CASE m < M /\ ~AwaitsKey
  <2>1. c.kind = "list" \/ Len(c.keys) = m + 1
    BY <1>5, <1>12, <1>15
  <2>2. WantsAt(calls, done, L) /\ WantedAt(v, calls, done, L) = whole.items[m + 1]
    BY <1>1, <1>15 DEF WantsAt, WantedAt
  <2> QED
    BY <1>14, <1>15, <2>1, <2>2 DEF code
<1>16. CASE m < M /\ AwaitsKey
  BY <1>5, <1>12, <1>14, <1>16
<1>17. CASE ~(m < M)
  <2>1. m = M /\ Len(c.keys) = Len(whole.keys) /\ AwaitsEnd
    BY <1>5, <1>12, <1>13, <1>17
  <2>2. Text(c, code) = t
    BY <1>1, <1>4, <2>1, PartialWhole DEF t
  <2>3. Has(x, f, e)
    BY <1>7, <1>11, <2>2
  <2> QED
    BY <2>1, <2>3 DEF e
<1> QED
  BY <1>15, <1>16, <1>17

(* What stands at the beginning of a value's code.                         *)
LEMMA FirstByte ==
  ASSUME x \in Seq(Byte), f \in Nat, NEW k \in Nat, k <= MaxDepth, NEW w \in Value[MaxDepth - k],
         Has(x, f, Code[MaxDepth - k][w])
  PROVE  \/ \E i \in Int : w = [int |-> i] /\ Code[MaxDepth - k][w] = EncodeInt(i)
         \/ \E s \in Seq(Byte) : w = [str |-> s] /\ Code[MaxDepth - k][w] = EncodeString(s)
         \/ /\ k < MaxDepth /\ InBounds(f)
            /\ \E c \in CallRecord : /\ CallFits(c, k + 1) /\ Whole(c) /\ Collected(c) = w
                                     /\ At(f) = Opening(c)
<1>1. MaxDepth \in Nat /\ MaxDepth - k \in Nat
  BY BencodeAssumption
<1>2. CASE \E i \in Int : w = [int |-> i]
  <2>1. PICK i \in Int : w = [int |-> i]
    BY <1>2
  <2> QED
    BY <1>1, <2>1, CodeRules
<1>3. CASE \E s \in Seq(Byte) : w = [str |-> s]
  <2>1. PICK s \in Seq(Byte) : w = [str |-> s]
    BY <1>3
  <2> QED
    BY <1>1, <2>1, CodeRules
<1>4. CASE ~(\E i \in Int : w = [int |-> i]) /\ ~(\E s \in Seq(Byte) : w = [str |-> s])
  <2>1. k < MaxDepth
    BY <1>1, <1>4, ValueCases
  <2>2. k + 1 \in 1 .. MaxDepth /\ (k + 1) - 1 = k
    BY <1>1, <2>1
  <2>3. PICK c \in CallRecord : CallFits(c, k + 1) /\ Whole(c) /\ Collected(c) = w
    BY <1>4, <2>2, CollectedFrom
  <2> DEFINE j == k + 1
             code == Code[MaxDepth - j]
             O == <<Opening(c)>>
             F == FlattenSeq(Parts(c, code))
             e == <<CharE>>
             t == Text(c, code)
  <2>4. Code[MaxDepth - k][w] = t \o e
    <3>1. j \in 1 .. MaxDepth /\ j - 1 = k /\ CallFits(c, j)
          /\ (c.kind = "dict" => Len(c.keys) = Len(c.items))
      BY <2>2, <2>3 DEF Whole
    <3> HIDE DEF j
    <3>2. Code[MaxDepth - (j - 1)][Collected(c)] = t \o e
      BY <3>1, TextCollected, Zenon
    <3> QED
      BY <2>3, <3>1, <3>2
  <2>5. /\ F \in Seq(Byte) /\ O \in Seq(Byte) /\ PendingKey(c) \in Seq(Byte) /\ t \in Seq(Byte)
    BY <2>2, <2>3, TextIsBytes
  <2>6. e \in Seq(Byte)
    BY Characters
  <2>7. t = Three(O, F, PendingKey(c))
    BY DEF Text, Three
  <2> HIDE DEF O, F, e, t
  <2>8. Has(x, f, t \o e)
    BY <2>4
  <2>9. Has(x, f, t)
    BY <2>5, <2>6, <2>8, HasConcat
  <2>10. Has(x, f, O)
    BY <2>5, <2>7, <2>9, ThreeParts
  <2>11. f < Len(x) /\ x[f + 1] = Opening(c)
    BY <2>10, HasOne DEF O
  <2>12. InBounds(f) /\ At(f) = Opening(c)
    BY <2>11 DEF InBounds, At
  <2> QED
    BY <2>1, <2>3, <2>12
<1> QED
  BY <1>2, <1>3, <1>4

(* While the code of v is decoded, every call under way decodes the part   *)
(* of v that stands where it began; in the end v comes out.                *)
Course(v) ==
  IF outcome = "reading"
  THEN \E start, done : Laid(x, calls, start, f) /\ Doing(x, v, calls, done, start)
  ELSE outcome = "ok" /\ r = v

(* The inductive invariant of RoundTrip.                                   *)
TripInv == IInv /\ \A v \in Values : x = Encode(v) => Course(v)

(* The value the last call wants has been decoded.                         *)
LEMMA ReturnDoing ==
  ASSUME x \in Seq(Byte), x' = x, outcome = "reading",
         NEW cs, Stacked(cs), Waiting(cs, Len(cs)), NEW v \in Value[MaxDepth], x = Encode(v),
         NEW start, NEW pos, Laid(x, cs, start, pos),
         NEW done, Doing(x, v, cs, done, start), WantsAt(cs, done, Len(cs)),
         NEW w, w = WantedAt(v, cs, done, Len(cs)), Has(x, pos, Code[MaxDepth - Len(cs)][w]),
         NEW next, next = pos + Len(Code[MaxDepth - Len(cs)][w]), Return(cs, w, next)
  PROVE  Course(v)'
<1>1. f' = next
  BY DEF Return
<1>2. MaxDepth - Len(cs) \in Nat /\ w \in Value[MaxDepth - Len(cs)]
  BY WantedType
<1>3. CASE cs = <<>>
  <2>1. r' = w /\ outcome' = IF next = Len(x) THEN "ok" ELSE "ValueError"
    BY <1>3 DEF Return
  <2>2. Len(cs) = 0 /\ MaxDepth - Len(cs) = MaxDepth
    BY <1>3, BencodeAssumption
  <2>3. pos = 0 /\ w = v
    BY <2>2 DEF Laid, WantedAt
  <2>4. x = Code[MaxDepth][w] /\ Len(x) \in Nat
    BY <2>3 DEF Encode
  <2>5. next = Len(x)
    BY <2>2, <2>3, <2>4
  <2> QED
    BY <2>1, <2>3, <2>5 DEF Course
<1>4. CASE cs # <<>>
  <2> DEFINE L == Len(cs)
             new == calls'
  <2>1. new = WithItem(cs, w) /\ outcome' = outcome
    BY <1>4 DEF Return, WithItem
  <2> HIDE DEF new
  <2>2. Relaid(x, new, next, start, L)
    BY <1>2, <1>4, <2>1, LaidItem
  <2>3. PICK b : Laid(x, new, b, next) /\ Agree(b, start, L)
    BY <2>2 DEF Relaid
  <2>4. /\ Len(new) = L /\ L \in Nat /\ L > 0
        /\ \A k \in 1 .. L - 1 : new[k] = cs[k]
        /\ new[L].kind = cs[L].kind /\ new[L].keys = cs[L].keys
        /\ new[L].items = Append(cs[L].items, w)
    BY <1>2, <1>4, <2>1, ItemAdded
  <2>5. Agree(new, cs, L - 1)
    BY <2>4 DEF Agree
  <2>6. Partial(new[L], done[L])
    <3> DEFINE q == cs[L].items
               d == done[L].items
               m == Len(q)
               V == Value[MaxDepth - L]
    <3>1. L \in 1 .. Len(cs)
      BY <2>4
    <3>2. CallFits(cs[L], L) /\ cs[L] \in CallRecord
      BY <3>1, TextOfType
    <3>3. Partial(cs[L], done[L]) /\ done[L] \in CallRecord
      BY <3>1 DEF Doing, Built
    <3>4. q \in Seq(V) /\ m \in Nat /\ Len(d) \in Nat
      BY <3>2, <3>3, CallFields DEF CallFits
    <3>5. m < Len(d) /\ w = d[m + 1]
      <4>1. Len(cs) # 0
        BY <2>4
      <4>2. m < Len(d)
        BY <4>1 DEF WantsAt
      <4>3. w = d[m + 1]
        BY <4>1 DEF WantedAt
      <4> QED
        BY <4>2, <4>3
    <3>6. w \in V /\ new[L].items = Append(q, w)
      BY <1>2, <2>4
    <3>7. \A i \in 1 .. m : q[i] = d[i]
      BY <3>3 DEF Partial
    <3> HIDE DEF q, d, m, V
    <3>8. Len(Append(q, w)) = m + 1 /\ Append(q, w)[m + 1] = w
          /\ \A i \in 1 .. m : Append(q, w)[i] = q[i]
      BY <3>4, <3>6, AppendProperties DEF m
    <3> DEFINE a == Append(q, w)
    <3>9. Len(a) = m + 1 /\ a[m + 1] = d[m + 1] /\ \A i \in 1 .. m : a[i] = d[i]
      BY <3>5, <3>7, <3>8
    <3>10. new[L].items = a
      BY <3>6
    <3> HIDE DEF a
    <3>11. ASSUME NEW i \in 1 .. m + 1 PROVE a[i] = d[i]
      <4>1. i \in 1 .. m \/ i = m + 1
        BY <3>4
      <4> QED
        BY <3>9, <4>1
    <3>12. Len(a) <= Len(d) /\ \A i \in 1 .. Len(a) : a[i] = d[i]
      BY <3>4, <3>5, <3>9, <3>11
    <3> QED
      BY <2>4, <3>3, <3>10, <3>12 DEF Partial, d
  <2>7. Doing(x, v, new, done, b)
    BY <2>3, <2>4, <2>5, <2>6, DoingOn
  <2> QED
    BY <1>1, <2>1, <2>3, <2>7 DEF Course, new
<1> QED
  BY <1>3, <1>4

(* Where a value is wanted it is decoded.                                  *)
LEMMA ValueStepOK ==
  ASSUME IInv, x' = x, outcome = "reading", Next, ~AwaitsKey,
         NEW v \in Value[MaxDepth], x = Encode(v),
         NEW start, Laid(x, calls, start, f), NEW done, Doing(x, v, calls, done, start),
         NEW L, L = Len(calls), WantsAt(calls, done, L),
         Has(x, f, Code[MaxDepth - L][WantedAt(v, calls, done, L)])
  PROVE  Course(v)'
<1> DEFINE w == WantedAt(v, calls, done, L)
           n == MaxDepth - L
<1>1. /\ x \in Seq(Byte) /\ Len(x) \in Nat /\ Stacked(calls) /\ L \in Nat /\ L <= MaxDepth
      /\ calls \in Seq(CallRecord)
  BY Types DEF Stacked
<1>2. f \in Nat
  BY DEF Laid
<1>3. n \in Nat /\ w \in Value[n]
  BY <1>1, WantedType
<1>4. Waiting(calls, L)
  BY ValueAwaited
<1>5. ~DecodeKey
  BY DEF DecodeKey, ReadsKey
<1>6. /\ w = WantedAt(v, calls, done, L) /\ Has(x, f, Code[n][w])
  OBVIOUS
<1> HIDE DEF w
<1>7. CASE \E i \in Int : w = [int |-> i] /\ Code[n][w] = EncodeInt(i)
  <2>1. PICK i \in Int : w = [int |-> i] /\ Code[n][w] = EncodeInt(i)
    BY <1>7
  <2> DEFINE newf == Index(CharE, f + 1)
  <2>2. /\ InBounds(f) /\ At(f) = CharI
        /\ Found(CharE, f + 1) # {} /\ IntAllowed(f + 1, newf)
        /\ IntOf(Slice(f + 1, newf)) = i /\ newf + 1 = f + Len(EncodeInt(i))
    BY <1>1, <1>2, <1>6, <2>1, ReadIntBack
  <2>3. ReadsInt
    BY <2>2 DEF ReadsInt, Reads
  <2>4. ~ReadsString /\ ~ReadsCall /\ ~ReadsEnd
    <3>1. CharI \notin Digit /\ CharI \notin {CharL, CharD} /\ CharI \notin {CharE}
      BY DEF CharI, CharL, CharD, CharE, Digit
    <3> QED
      BY <2>2, <3>1 DEF ReadsString, ReadsCall, ReadsEnd, Reads
  <2>5. DecodeInt
    BY <1>5, <2>3, <2>4 DEF Next, DecodeString, Call, ReturnCollection, Raise
  <2>6. Return(calls, w, newf + 1)
    BY <2>1, <2>2, <2>5 DEF DecodeInt
  <2> HIDE DEF newf
  <2>7. newf + 1 = f + Len(Code[n][w])
    BY <2>1, <2>2
  <2> QED
    BY <1>1, <1>4, <1>6, <2>6, <2>7, ReturnDoing
<1>8. CASE \E s \in Seq(Byte) : w = [str |-> s] /\ Code[n][w] = EncodeString(s)
  <2>1. PICK s \in Seq(Byte) : w = [str |-> s] /\ Code[n][w] = EncodeString(s)
    BY <1>8
  <2>2. /\ InBounds(f) /\ At(f) \in Digit /\ IsString(f) /\ StringAt(f) = s
        /\ StringEnd(f) = f + Len(EncodeString(s))
    BY <1>1, <1>2, <1>6, <2>1, ReadStringBack
  <2>3. ReadsString
    BY <2>2 DEF ReadsString, Reads
  <2>4. ~ReadsInt /\ ~ReadsCall /\ ~ReadsEnd
    <3>1. CharI \notin Digit /\ CharL \notin Digit /\ CharD \notin Digit /\ CharE \notin Digit
      BY DEF CharI, CharL, CharD, CharE, Digit
    <3> QED
      BY <2>2, <3>1 DEF ReadsInt, ReadsCall, ReadsEnd, Reads
  <2>5. DecodeString
    BY <1>5, <2>3, <2>4 DEF Next, DecodeInt, Call, ReturnCollection, Raise
  <2> DEFINE end == StringEnd(f)
  <2>6. Return(calls, w, end)
    BY <2>1, <2>2, <2>5 DEF DecodeString
  <2>7. end = f + Len(Code[n][w])
    BY <2>1, <2>2
  <2> HIDE DEF end
  <2> QED
    BY <1>1, <1>4, <1>6, <2>6, <2>7, ReturnDoing
<1>9. CASE /\ L < MaxDepth /\ InBounds(f)
           /\ \E c \in CallRecord : /\ CallFits(c, L + 1) /\ Whole(c) /\ Collected(c) = w
                                    /\ At(f) = Opening(c)
  <2>1. PICK whole \in CallRecord : /\ CallFits(whole, L + 1) /\ Whole(whole)
                                    /\ Collected(whole) = w /\ At(f) = Opening(whole)
    BY <1>9
  <2>2. At(f) \in {CharL, CharD}
    BY <2>1 DEF Opening
  <2>3. ~ReadsInt /\ ~ReadsString /\ ~ReadsEnd
    <3>1. /\ CharL \notin Digit /\ CharL # CharI /\ CharL # CharE
          /\ CharD \notin Digit /\ CharD # CharI /\ CharD # CharE
      BY DEF CharI, CharL, CharD, CharE, Digit
    <3> QED
      BY <2>2, <3>1 DEF ReadsInt, ReadsString, ReadsEnd, Reads
  <2>4. ReadsCall
    BY <1>9, <2>2 DEF ReadsCall, Reads
  <2>5. Call
    BY <1>5, <2>3, <2>4 DEF Next, DecodeInt, DecodeString, ReturnCollection, Raise
  <2> DEFINE c == [kind |-> IF At(f) = CharL THEN "list" ELSE "dict",
                   items |-> <<>>, keys |-> <<>>]
             new == calls'
             o == <<At(f)>>
  <2>6. new = Append(calls, c) /\ f' = f + 1 /\ outcome' = outcome
    BY <1>1, <1>9, <2>5 DEF Call
  <2>7. c \in CallRecord /\ c.items = <<>> /\ c.keys = <<>>
        /\ c.kind = IF At(f) = CharL THEN "list" ELSE "dict"
    BY DEF CallRecord
  <2> HIDE DEF c, new
  <2>8. c.kind = whole.kind /\ Opening(c) = At(f)
    <3>1. whole.kind \in {"list", "dict"} /\ CharL # CharD
      BY CallFields DEF CharL, CharD
    <3> QED
      BY <2>1, <2>7, <3>1 DEF Opening
  <2>9. Len(new) = L + 1 /\ Agree(new, calls, L) /\ new[L + 1] = c
    BY <1>1, <2>6, <2>7, AppendProperties DEF Agree
  <2>10. TextOf(new, L + 1) = o
    BY <2>7, <2>8, <2>9, TextOfNew DEF TextOf
  <2>11. o \in Seq(Byte) /\ Len(o) = 1
    BY <2>2, Characters
  <2>12. Has(x, f, o)
    <3>1. f < Len(x) /\ At(f) = x[f + 1]
      BY <1>1, <1>2, <1>9 DEF InBounds, At
    <3> QED
      BY <1>1, <1>2, <3>1, HasOne
  <2> HIDE DEF o
  <2>13. f + 1 = f + Len(o)
    BY <2>11
  <2>14. Relaid(x, new, f + 1, start, L + 1)
    BY <1>1, <2>9, <2>10, <2>11, <2>12, <2>13, LaidOpened
  <2>15. PICK b : Laid(x, new, b, f + 1) /\ Agree(b, start, L + 1)
    BY <2>14 DEF Relaid
  <2>16. start[L + 1] = f
    BY DEF Laid
  <2>17. Partial(c, whole)
    <3>1. Len(c.items) = 0 /\ Len(c.keys) = 0
      BY <2>7
    <3>2. Len(whole.items) \in Nat /\ Len(whole.keys) \in Nat
      BY CallFields
    <3> QED
      BY <2>8, <3>1, <3>2 DEF Partial
  <2>18. Built(x, new[L + 1], whole, start[L + 1], L + 1)
    <3>1. MaxDepth - ((L + 1) - 1) = n
      BY <1>1
    <3> QED
      BY <1>6, <2>1, <2>9, <2>16, <2>17, <3>1 DEF Built
  <2>19. \E all : Doing(x, v, new, all, b)
    BY <1>1, <1>6, <2>1, <2>9, <2>15, <2>18, DoingOpened
  <2> QED
    BY <2>6, <2>15, <2>19 DEF Course, new
<1> QED
  BY <1>1, <1>2, <1>3, <1>6, <1>7, <1>8, <1>9, FirstByte

(* Where a key stands it is decoded.                                       *)
LEMMA KeyStepOK ==
  ASSUME IInv, x' = x, outcome = "reading", Next, AwaitsKey, NEW v,
         NEW start, Laid(x, calls, start, f), NEW done, Doing(x, v, calls, done, start),
         NEW L, L = Len(calls), NEW c, c = calls[L], NEW whole, whole = done[L],
         Len(c.keys) < Len(whole.keys), Has(x, f, EncodeString(whole.keys[Len(c.keys) + 1]))
  PROVE  Course(v)'
<1> DEFINE m == Len(c.keys)
           key == whole.keys[m + 1]
<1>1. /\ calls # <<>> /\ Last(calls) = c /\ c.kind = "dict" /\ m = Len(c.items)
      /\ x \in Seq(Byte) /\ Stacked(calls) /\ L \in Nat /\ L > 0
      /\ Waiting(calls, L - 1) /\ c \in CallRecord /\ CallFits(c, L)
  BY Types DEF AwaitsKey
<1>2. L \in 1 .. Len(calls) /\ f \in Nat
  BY <1>1 DEF Laid
<1>3. L \in 1 .. MaxDepth
  BY <1>1, <1>2, TextOfType
<1>4. whole \in CallRecord /\ CallFits(whole, L) /\ Partial(c, whole)
  BY <1>2 DEF Doing, Built
<1>5. /\ m \in Nat /\ Len(whole.keys) \in Nat /\ m < Len(whole.keys)
      /\ c.keys \in Seq(Seq(Byte)) /\ whole.keys \in Seq(Seq(Byte))
      /\ DOMAIN whole.keys = 1 .. Len(whole.keys)
      /\ \A i \in 1 .. m : c.keys[i] = whole.keys[i]
  BY <1>1, <1>4, CallFields DEF Partial
<1>6. m + 1 \in 1 .. Len(whole.keys) /\ key \in Seq(Byte)
  <2>1. m + 1 \in 1 .. Len(whole.keys)
    BY <1>5
  <2> QED
    BY <1>5, <2>1, ElementOfSeq
<1>7. c.keys # <<>> => Less(Last(c.keys), key)
  <2> SUFFICES ASSUME c.keys # <<>> PROVE Less(Last(c.keys), key)
    OBVIOUS
  <2>1. m > 0
    BY <1>5
  <2>2. Last(c.keys) = whole.keys[m]
    <3>1. m \in 1 .. m
      BY <1>5, <2>1
    <3> QED
      BY <1>5, <3>1 DEF Last
  <2>3. m \in DOMAIN whole.keys /\ m + 1 \in DOMAIN whole.keys /\ m < m + 1
    <3> DEFINE n == Len(whole.keys)
    <3>1. m \in Nat /\ n \in Nat /\ m < n /\ DOMAIN whole.keys = 1 .. n
      BY <1>5
    <3> HIDE DEF m, n
    <3>2. m \in 1 .. n /\ m + 1 \in 1 .. n /\ m < m + 1
      BY <2>1, <3>1
    <3> QED
      BY <3>1, <3>2
  <2> QED
    BY <1>4, <2>2, <2>3 DEF CallFits
<1>8. Has(x, f, EncodeString(key))
  OBVIOUS
<1> HIDE DEF m, key
<1>9. /\ InBounds(f) /\ At(f) \in Digit /\ IsString(f) /\ StringAt(f) = key
      /\ StringEnd(f) = f + Len(EncodeString(key))
  BY <1>1, <1>2, <1>6, <1>8, ReadStringBack
<1>10. ~Reads(f, {CharE})
  <2>1. CharE \notin Digit
    BY DEF CharE, Digit
  <2> QED
    BY <1>9, <2>1 DEF Reads
<1>11. ReadsKey
  BY <1>1, <1>7, <1>9, <1>10 DEF ReadsKey, KeyAllowed
<1>12. DecodeKey
  BY <1>10, <1>11 DEF Next, DecodeInt, DecodeString, Call, ReturnCollection, Raise,
                      ReadsInt, ReadsString, ReadsCall, ReadsEnd
<1> DEFINE new == calls'
           next == StringEnd(f)
           more == EncodeString(key)
<1>13. new = WithKey(calls, key) /\ f' = next /\ outcome' = outcome
  BY <1>9, <1>12 DEF DecodeKey, WithKey
<1>14. next = f + Len(more)
  BY <1>9
<1> HIDE DEF new, next
<1>15. /\ Len(new) = L /\ \A k \in 1 .. L - 1 : new[k] = calls[k]
       /\ new[L].kind = c.kind /\ new[L].keys = Append(c.keys, key)
       /\ new[L].items = c.items
  <2>1. /\ calls[Len(calls)].kind = "dict"
        /\ Len(calls[Len(calls)].keys) = Len(calls[Len(calls)].items)
        /\ calls[Len(calls)].keys # <<>> => Less(Last(calls[Len(calls)].keys), key)
        /\ Waiting(calls, Len(calls) - 1)
    BY <1>1, <1>7 DEF m
  <2>2. TakesKey(calls, key)
    BY <1>1, <1>6, <2>1 DEF TakesKey
  <2>3. KeyTaken(new, calls, key)
    BY <1>13, <2>2, TakesItsKey, Zenon
  <2> QED
    BY <2>3 DEF KeyTaken
<1>16. Agree(new, calls, L - 1)
  BY <1>15 DEF Agree
<1>17. Relaid(x, new, next, start, L)
  <2>1. GotKey(new[L], c, key)
    BY <1>15 DEF GotKey
  <2>2. c.kind = "dict" /\ Len(c.keys) = Len(c.items)
    BY <1>1 DEF m
  <2>3. IsConcat(TextOf(new, L), TextOf(calls, L), more)
    BY <1>1, <1>3, <1>6, <2>1, <2>2, TextWithKey DEF TextOf
  <2>4. more \in Seq(Byte)
    BY <1>6, PiecesAreBytes
  <2> HIDE DEF more
  <2>5. Has(x, f, more)
    BY <1>8 DEF more
  <2> QED
    BY <1>1, <1>14, <1>15, <1>16, <2>3, <2>4, <2>5, LaidOn
<1>18. PICK b : Laid(x, new, b, next) /\ Agree(b, start, L)
  BY <1>17 DEF Relaid
<1>19. Partial(new[L], whole)
  <2> DEFINE q == c.keys
             a == Append(q, key)
             d == whole.keys
  <2>1. Len(a) = m + 1 /\ a[m + 1] = key /\ \A i \in 1 .. m : a[i] = q[i]
    BY <1>5, <1>6, AppendProperties DEF m
  <2>2. key = d[m + 1] /\ \A i \in 1 .. m : q[i] = d[i]
    BY <1>5 DEF key
  <2>3. new[L].keys = a /\ m \in Nat /\ m < Len(d) /\ Len(d) \in Nat
    BY <1>5, <1>15
  <2> HIDE DEF q, a, d
  <2>4. ASSUME NEW i \in 1 .. m + 1 PROVE a[i] = d[i]
    <3>1. i \in 1 .. m \/ i = m + 1
      BY <2>3
    <3> QED
      BY <2>1, <2>2, <3>1
  <2>5. Len(a) <= Len(d) /\ \A i \in 1 .. Len(a) : a[i] = d[i]
    BY <2>1, <2>3, <2>4
  <2> QED
    BY <1>4, <1>15, <2>3, <2>5 DEF Partial, d
<1>20. Doing(x, v, new, done, b)
  BY <1>1, <1>15, <1>16, <1>18, <1>19, DoingOn
<1> QED
  BY <1>13, <1>18, <1>20 DEF Course, new

(* Where the e stands the call returns.                                    *)
LEMMA EndStepOK ==
  ASSUME IInv, x' = x, outcome = "reading", Next, AwaitsEnd,
         NEW v \in Value[MaxDepth], x = Encode(v),
         NEW start, Laid(x, calls, start, f), NEW done, Doing(x, v, calls, done, start),
         NEW L, L = Len(calls), NEW c, c = calls[L], NEW whole, whole = done[L],
         Len(c.items) = Len(whole.items), Len(c.keys) = Len(whole.keys),
         Has(x, f, <<CharE>>)
  PROVE  Course(v)'
<1>1. /\ calls # <<>> /\ Last(calls) = c
      /\ x \in Seq(Byte) /\ Len(x) \in Nat /\ Stacked(calls) /\ L \in Nat /\ L > 0
      /\ c \in CallRecord
  BY Types DEF AwaitsEnd
<1>2. L \in 1 .. Len(calls) /\ f \in Nat
  BY <1>1 DEF Laid
<1>3. L \in 1 .. MaxDepth
  BY <1>1, <1>2, TextOfType
<1>4. f < Len(x) /\ x[f + 1] = CharE
  BY <1>1, <1>2, HasOne
<1>5. InBounds(f) /\ At(f) = CharE
  BY <1>1, <1>2, <1>4 DEF InBounds, At
<1>6. Reads(f, {CharE}) /\ ~Reads(f, {CharI}) /\ ~Reads(f, Digit) /\ ~Reads(f, {CharL, CharD})
  <2>1. CharE # CharI /\ CharE \notin Digit /\ CharE \notin {CharL, CharD}
    BY DEF CharE, CharI, CharL, CharD, Digit
  <2> QED
    BY <1>5, <2>1 DEF Reads
<1>7. ReturnCollection
  BY <1>6 DEF Next, DecodeInt, DecodeString, Call, DecodeKey, Raise,
              ReadsInt, ReadsString, ReadsCall, ReadsKey, ReadsEnd
<1> DEFINE cs == Front(calls)
           n == L - 1
           w == Collected(c)
           a == start[L]
<1>8. Return(cs, w, f + 1)
  BY <1>1, <1>7 DEF ReturnCollection
<1>9. Len(cs) = n /\ Stacked(cs) /\ Waiting(cs, n) /\ Agree(cs, calls, n) /\ n \in Nat
  BY <1>1, Popped DEF Agree
<1>10. /\ Built(x, c, whole, a, L) /\ WantsAt(calls, done, n)
       /\ Collected(whole) = WantedAt(v, calls, done, n)
  BY <1>2 DEF Doing
<1>11. /\ whole \in CallRecord /\ CallFits(whole, L) /\ Whole(whole) /\ Partial(c, whole)
       /\ Has(x, a, Code[MaxDepth - n][Collected(whole)])
  BY <1>10 DEF Built
<1> HIDE DEF cs, w, n, a
<1>12. Laid(x, cs, start, a) /\ f = a + Len(TextOf(calls, L)) /\ Len(cs) = L - 1
  <2>1. Len(cs) = L - 1 /\ Agree(cs, calls, L - 1)
    BY <1>9 DEF n
  <2> QED
    BY <1>1, <2>1, LaidClosed DEF a
<1>13. w = Collected(whole) /\ Text(c, Code[MaxDepth - L]) = Text(whole, Code[MaxDepth - L])
  BY <1>1, <1>11, PartialWhole DEF w
<1>14. f + 1 = a + Len(Code[MaxDepth - n][w])
  <2> DEFINE t == Text(whole, Code[MaxDepth - L])
             e == <<CharE>>
  <2>1. whole.kind = "dict" => Len(whole.keys) = Len(whole.items)
    BY <1>11 DEF Whole
  <2>2. Code[MaxDepth - n][w] = t \o e
    BY <1>3, <1>11, <1>13, <2>1, TextCollected, Zenon DEF n
  <2>3. t \in Seq(Byte)
    BY <1>3, <1>11, TextIsBytes
  <2>4. e \in Seq(Byte) /\ Len(e) = 1
    BY Characters
  <2>5. TextOf(calls, L) = t
    BY <1>13 DEF TextOf
  <2> HIDE DEF t, e
  <2>6. Len(t \o e) = Len(t) + 1 /\ Len(t) \in Nat
    BY <2>3, <2>4, ConcatProperties
  <2>7. a \in Nat
    BY <1>11 DEF Has
  <2>8. f = a + Len(t)
    BY <1>12, <2>5
  <2> DEFINE u == t \o e
  <2>9. Code[MaxDepth - n][w] = u /\ Len(u) = Len(t) + 1
    BY <2>2, <2>6
  <2> HIDE DEF u
  <2> QED
    BY <2>6, <2>7, <2>8, <2>9
<1>15. n = 0 \/ cs[n] = calls[n]
  <2>1. n = 0 \/ n \in 1 .. n
    BY <1>9
  <2> QED
    BY <1>9, <2>1 DEF Agree
<1>16. WantsAt(cs, done, n) /\ w = WantedAt(v, cs, done, n)
  BY <1>10, <1>13, <1>15 DEF WantsAt, WantedAt
<1>17. Doing(x, v, cs, done, start)
  <2> SUFFICES ASSUME NEW k \in 1 .. n
               PROVE  /\ Built(x, cs[k], done[k], start[k], k) /\ WantsAt(cs, done, k - 1)
                      /\ Collected(done[k]) = WantedAt(v, cs, done, k - 1)
    BY <1>9 DEF Doing
  <2>1. k \in 1 .. Len(calls) /\ k \in 1 .. n
    BY <1>1, <1>9 DEF n
  <2>2. /\ Built(x, calls[k], done[k], start[k], k) /\ WantsAt(calls, done, k - 1)
        /\ Collected(done[k]) = WantedAt(v, calls, done, k - 1)
    BY <2>1 DEF Doing
  <2>3. cs[k] = calls[k]
    BY <1>9, <2>1 DEF Agree
  <2>4. k - 1 = 0 \/ k - 1 \in 1 .. n
    BY <1>9
  <2>5. k - 1 = 0 \/ cs[k - 1] = calls[k - 1]
    BY <1>9, <2>4 DEF Agree
  <2>6. WantsAt(cs, done, k - 1) /\ WantedAt(v, cs, done, k - 1) = WantedAt(v, calls, done, k - 1)
    BY <2>2, <2>5 DEF WantsAt, WantedAt
  <2> QED
    BY <2>2, <2>3, <2>6
<1> DEFINE l == Len(cs)
<1>18. l = n
  BY <1>9
<1>19. /\ WantsAt(cs, done, l) /\ w = WantedAt(v, cs, done, l)
       /\ Has(x, a, Code[MaxDepth - l][w]) /\ f + 1 = a + Len(Code[MaxDepth - l][w])
       /\ Waiting(cs, l)
  BY <1>9, <1>11, <1>13, <1>14, <1>16, <1>18
<1> QED
  BY <1>1, <1>8, <1>9, <1>12, <1>17, <1>19, ReturnDoing

(* Every step keeps TripInv, one case per action.                          *)
LEMMA TripStep ==
  ASSUME TripInv, IInv', [Next]_vars
  PROVE  TripInv'
<1> SUFFICES ASSUME NEW v \in Values, x' = Encode(v) PROVE Course(v)'
  BY DEF TripInv, Encode
<1>1. x' = x
  BY DEF Next, vars
<1>2. IInv /\ x = Encode(v) /\ Course(v) /\ v \in Value[MaxDepth] /\ x \in Seq(Byte)
  BY <1>1, Types, BencodeAssumption DEF TripInv
<1>3. CASE UNCHANGED vars
  <2>1. outcome' = outcome /\ f' = f /\ x' = x /\ calls' = calls /\ r' = r
    BY <1>3 DEF vars
  <2> QED
    BY <1>2, <2>1 DEF Course
<1>4. CASE Next
  <2>1. outcome = "reading"
    BY <1>4 DEF Next
  <2>2. PICK start, done : Laid(x, calls, start, f) /\ Doing(x, v, calls, done, start)
    BY <1>2, <2>1 DEF Course
  <2> DEFINE L == Len(calls)
  <2>3. CASE calls = <<>>
    <3>1. L = 0 /\ MaxDepth - L = MaxDepth
      BY <2>3, BencodeAssumption
    <3>2. f = 0 /\ WantsAt(calls, done, L) /\ WantedAt(v, calls, done, L) = v /\ ~AwaitsKey
      BY <2>2, <2>3, <3>1 DEF Laid, WantsAt, WantedAt, AwaitsKey
    <3>3. Has(x, f, Code[MaxDepth][v])
      <4>1. x = Code[MaxDepth][v]
        BY <1>2 DEF Encode
      <4>2. Has(x, 0, x)
        BY <1>2 DEF Has
      <4> QED
        BY <3>2, <4>1, <4>2
    <3> QED
      BY <1>1, <1>2, <1>4, <2>1, <2>2, <3>1, <3>2, <3>3, ValueStepOK
  <2>4. CASE calls # <<>>
    <3> DEFINE c == calls[L]
               whole == done[L]
    <3>1. \/ /\ ~AwaitsKey /\ WantsAt(calls, done, L)
             /\ Has(x, f, Code[MaxDepth - L][WantedAt(v, calls, done, L)])
          \/ /\ AwaitsKey /\ Len(c.keys) < Len(whole.keys)
             /\ Has(x, f, EncodeString(whole.keys[Len(c.keys) + 1]))
          \/ /\ AwaitsEnd /\ Len(c.items) = Len(whole.items) /\ Len(c.keys) = Len(whole.keys)
             /\ Has(x, f, <<CharE>>)
      BY <1>2, <2>2, <2>4, Expected
    <3>2. CASE /\ ~AwaitsKey /\ WantsAt(calls, done, L)
               /\ Has(x, f, Code[MaxDepth - L][WantedAt(v, calls, done, L)])
      BY <1>1, <1>2, <1>4, <2>1, <2>2, <3>2, ValueStepOK
    <3>3. CASE /\ AwaitsKey /\ Len(c.keys) < Len(whole.keys)
               /\ Has(x, f, EncodeString(whole.keys[Len(c.keys) + 1]))
      BY <1>1, <1>2, <1>4, <2>1, <2>2, <3>3, KeyStepOK
    <3>4. CASE /\ AwaitsEnd /\ Len(c.items) = Len(whole.items) /\ Len(c.keys) = Len(whole.keys)
               /\ Has(x, f, <<CharE>>)
      BY <1>1, <1>2, <1>4, <2>1, <2>2, <3>4, EndStepOK
    <3> QED
      BY <3>1, <3>2, <3>3, <3>4
  <2> QED
    BY <2>3, <2>4
<1> QED
  BY <1>3, <1>4

(* At the start all of the code is still to be read.                       *)
LEMMA TripInit ==
  Init => TripInv
<1> SUFFICES ASSUME Init, NEW v \in Values, x = Encode(v) PROVE IInv /\ Course(v)
  BY InitInvariant DEF TripInv
<1>1. IInv
  BY InitInvariant
<1>2. f = 0 /\ calls = <<>> /\ outcome = "reading" /\ Len(x) \in Nat /\ Len(calls) = 0
  BY <1>1, Types DEF Init
<1> DEFINE start == [k \in 1 .. 1 |-> 0]
<1>3. start[1] = 0
  OBVIOUS
<1> HIDE DEF start
<1>4. Laid(x, calls, start, f) /\ Doing(x, v, calls, <<>>, start)
  BY <1>2, <1>3 DEF Laid, Doing
<1> QED
  BY <1>1, <1>2, <1>4 DEF Course

(* bdecode accepts the code of every value, whatever it contains, and      *)
(* returns the value.                                                      *)
THEOREM RoundTripTheorem ==
  Spec => []RoundTrip
<1>1. TripInv => RoundTrip
  BY DEF TripInv, Course, RoundTrip, Codes
<1>2. TripInv /\ IInv' /\ [Next]_vars => TripInv'
  BY TripStep
<1>3. IInv /\ [Next]_vars => IInv'
  BY StepInvariant
<1>4. TripInv => IInv
  BY DEF TripInv
<1> QED
  BY <1>1, <1>2, <1>3, <1>4, TripInit, PTL DEF Spec
=============================================================================
