--------------------------- MODULE Decimals_proofs ---------------------------
(* Proofs about Numerals and Decimals: what digits, numbers and decimals are  *)
(* to each other, for any base and any length, and what follows for bytes and *)
(* for blocks of powers of two.  Induction over naturals and sequences is     *)
(* that a set of naturals has a least element: the lemmas of the first part   *)
(* are about sets, not about formulas with a parameter.                       *)
EXTENDS Decimals, Integers, SequenceTheorems, WellFoundedInduction, TLAPS

\* A set of naturals has a least element.
LEMMA LeastElement ==
  ASSUME NEW T \in SUBSET Nat, T # {}
  PROVE  \E n \in T : \A m \in T : n <= m
<1> DEFINE R == OpToRel(<, Nat)
<1>1. PICK n \in T : \A m \in T : ~ (<<m, n>> \in R)
  BY NatLessThanWellFounded, WFMin
<1>2. \A m \in T : ~(m < n)
  BY <1>1 DEF OpToRel
<1> HIDE DEF R
<1>3. \A m \in T : n <= m
  BY <1>2
<1> QED  BY <1>3

\* A set of naturals with 0 and the next of each of its members is all of Nat.
LEMMA Induction ==
  ASSUME NEW P \in SUBSET Nat, 0 \in P, \A n \in P : n + 1 \in P
  PROVE  P = Nat
<1> SUFFICES ASSUME P # Nat PROVE FALSE
  OBVIOUS
<1>1. PICK n \in Nat \ P : \A m \in Nat \ P : n <= m
  BY LeastElement
<1>2. n - 1 \in Nat /\ n - 1 \in P
  BY <1>1
<1>3. (n - 1) + 1 \in P
  BY <1>2
<1> QED  BY <1>1, <1>2, <1>3

\* The same up to a number.
LEMMA InductionTo ==
  ASSUME NEW n \in Nat, NEW P, 0 \in P, \A k \in 0..(n - 1) : k \in P => k + 1 \in P
  PROVE  0..n \subseteq P
<1> DEFINE Q == {k \in Nat : k <= n => k \in P}
<1>1. 0 \in Q
  OBVIOUS
<1>2. ASSUME NEW k \in Q PROVE k + 1 \in Q
  <2>1. k \in Nat /\ (k + 1 <= n => k \in 0..(n - 1) /\ k \in P)
    OBVIOUS
  <2> QED  BY <2>1
<1>3. Q = Nat
  <2> HIDE DEF Q
  <2>1. Q \subseteq Nat
    BY DEF Q
  <2> QED  BY <1>1, <1>2, <2>1, Induction
<1> QED  BY <1>3

\* Functions that start alike and go on alike are alike.
Alike(f, g, n) == f[0] = g[0] /\ \A k \in 1..n : f[k - 1] = g[k - 1] => f[k] = g[k]

LEMMA Agreement ==
  ASSUME NEW n \in Nat, NEW f, NEW g, Alike(f, g, n)
  PROVE  \A k \in 0..n : f[k] = g[k]
<1> DEFINE P == {k \in 0..n : f[k] = g[k]}
<1>1. 0 \in P
  BY DEF Alike
<1>2. ASSUME NEW k \in 0..(n - 1), k \in P PROVE k + 1 \in P
  <2>1. k + 1 \in 1..n /\ (k + 1) - 1 = k
    OBVIOUS
  <2>2. f[k + 1] = g[k + 1]
    BY <1>2, <2>1 DEF Alike
  <2> QED  BY <2>1, <2>2
<1>3. 0..n \subseteq P
  <2> HIDE DEF P
  <2> QED  BY <1>1, <1>2, InductionTo
<1> QED  BY <1>3

\* What a recursion over 0..n defines: the step k is F[k].
Follows(f, n, b, F) == f[0] = b /\ \A k \in 1..n : f[k] = F[k][f[k - 1]]

\* A function that follows exists, so that a recursive definition has a value.
LEMMA Recursion ==
  ASSUME NEW S, NEW b \in S, NEW F \in [Nat -> [S -> S]], NEW n \in Nat
  PROVE  \E f \in [0..n -> S] : Follows(f, n, b, F)
<1> DEFINE P == {m \in Nat : \E f \in [0..m -> S] : Follows(f, m, b, F)}
<1>1. 0 \in P
  <2> DEFINE f == [k \in 0..0 |-> b]
  <2>1. f \in [0..0 -> S] /\ f[0] = b
    OBVIOUS
  <2>2. Follows(f, 0, b, F)
    BY <2>1 DEF Follows
  <2> QED  BY <2>1, <2>2
<1>2. ASSUME NEW m \in P PROVE m + 1 \in P
  <2>1. m \in Nat
    OBVIOUS
  <2>2. PICK f \in [0..m -> S] : Follows(f, m, b, F)
    OBVIOUS
  <2> DEFINE g == [k \in 0..(m + 1) |-> IF k = m + 1 THEN F[m + 1][f[m]] ELSE f[k]]
  <2>3. g \in [0..(m + 1) -> S]
    BY <2>1
  <2>4. g[m + 1] = F[m + 1][f[m]] /\ \A k \in 0..m : g[k] = f[k]
    BY <2>1
  <2> HIDE DEF g
  <2>5. Follows(g, m + 1, b, F)
    <3>1. g[0] = b
      <4>1. 0 \in 0..m /\ f[0] = b
        BY <2>1, <2>2 DEF Follows
      <4> QED  BY <2>4, <4>1
    <3>2. ASSUME NEW k \in 1..(m + 1) PROVE g[k] = F[k][g[k - 1]]
      <4>1. CASE k = m + 1
        <5>1. m \in 0..m /\ k - 1 = m
          BY <2>1, <4>1
        <5> QED  BY <2>4, <4>1, <5>1
      <4>2. CASE k \in 1..m
        <5>1. k \in 0..m /\ k - 1 \in 0..m
          BY <2>1, <4>2
        <5> QED  BY <2>2, <2>4, <4>2, <5>1 DEF Follows
      <4>3. k = m + 1 \/ k \in 1..m
        BY <2>1
      <4> QED  BY <4>1, <4>2, <4>3
    <3> QED  BY <3>1, <3>2 DEF Follows
  <2> QED  BY <2>1, <2>3, <2>5
<1>3. P = Nat
  <2> HIDE DEF P
  <2>1. P \subseteq Nat
    BY DEF P
  <2> QED  BY <1>1, <1>2, <2>1, Induction
<1> QED  BY <1>3

\* A power follows from the one below.
LEMMA PowerFollows ==
  ASSUME NEW base \in Nat, NEW n \in Nat
  PROVE  \E f \in [0..n -> Nat] :
           /\ f[0] = 1 /\ \A k \in 1..n : f[k] = base * f[k - 1]
           /\ Power(base, n) = f[n]
<1> DEFINE F == [k \in Nat |-> [p \in Nat |-> base * p]]
           G(f) == [k \in 0..n |-> IF k = 0 THEN 1 ELSE base * f[k - 1]]
<1>1. F \in [Nat -> [Nat -> Nat]] /\ 1 \in Nat
  OBVIOUS
<1>2. PICK f \in [0..n -> Nat] : Follows(f, n, 1, F)
  <2> HIDE DEF F
  <2> QED  BY <1>1, Recursion
<1>3. \A k \in 1..n : f[k] = base * f[k - 1]
  <2> SUFFICES ASSUME NEW k \in 1..n PROVE f[k] = base * f[k - 1]
    OBVIOUS
  <2>1. k \in Nat /\ k - 1 \in 0..n
      OBVIOUS
    <2>2. f[k] = F[k][f[k - 1]]
      BY <1>2 DEF Follows
    <2> QED  BY <2>1, <2>2
<1> HIDE DEF F
<1>4. f = G(f)
  <2>1. f[0] = 1 /\ 0 \in 0..n
    BY <1>2 DEF Follows
  <2> QED  BY <1>3, <2>1
<1> DEFINE power == CHOOSE g : g = [k \in 0..n |-> IF k = 0 THEN 1 ELSE base * g[k - 1]]
<1>5. power = G(power)
  BY <1>4
<1>6. Power(base, n) = power[n]
  BY DEF Power
<1> HIDE DEF power
<1>7. power[0] = 1 /\ \A k \in 1..n : power[k] = base * power[k - 1]
  BY <1>5
<1>8. \A k \in 0..n : power[k] = f[k]
  <2>1. Alike(power, f, n)
    BY <1>2, <1>3, <1>7 DEF Follows, Alike
  <2> QED  BY <2>1, Agreement
<1>9. f[0] = 1 /\ n \in 0..n
  BY <1>2 DEF Follows
<1>10. Power(base, n) = f[n]
  BY <1>6, <1>8, <1>9
<1> QED  BY <1>3, <1>9, <1>10

LEMMA PowerType ==
  ASSUME NEW base \in Nat, NEW n \in Nat
  PROVE  Power(base, n) \in Nat
<1>1. PICK f \in [0..n -> Nat] : Power(base, n) = f[n]
  BY PowerFollows
<1> QED  BY <1>1

LEMMA PowerOfZero ==
  ASSUME NEW base \in Nat
  PROVE  Power(base, 0) = 1
<1>1. PICK f \in [0..0 -> Nat] : f[0] = 1 /\ Power(base, 0) = f[0]
  BY PowerFollows
<1> QED  BY <1>1

LEMMA PowerOfNext ==
  ASSUME NEW base \in Nat, NEW n \in Nat
  PROVE  Power(base, n + 1) = base * Power(base, n)
<1>1. PICK f \in [0..n -> Nat] :
         f[0] = 1 /\ (\A k \in 1..n : f[k] = base * f[k - 1]) /\ Power(base, n) = f[n]
  BY PowerFollows
<1>2. n + 1 \in Nat /\ n \in 0..n /\ n + 1 \in 1..(n + 1) /\ (n + 1) - 1 = n /\ 1..n \subseteq 1..(n + 1)
  OBVIOUS
<1>3. PICK g \in [0..(n + 1) -> Nat] :
         /\ g[0] = 1 /\ \A k \in 1..(n + 1) : g[k] = base * g[k - 1]
         /\ Power(base, n + 1) = g[n + 1]
  BY <1>2, PowerFollows
<1>4. Alike(f, g, n)
  BY <1>1, <1>2, <1>3 DEF Alike
<1>5. \A k \in 0..n : f[k] = g[k]
  BY <1>4, Agreement
<1> QED  BY <1>1, <1>2, <1>3, <1>5
-----------------------------------------------------------------------------
(* The number that digits stand for.                                         *)
LEMMA NumberFollows ==
  ASSUME NEW base \in Nat, NEW d \in Seq(Nat)
  PROVE  \E f \in [0..Len(d) -> Nat] :
           /\ f[0] = 0 /\ \A k \in 1..Len(d) : f[k] = base * f[k - 1] + d[k]
           /\ Number(base, d) = f[Len(d)]
<1> DEFINE n == Len(d)
           F == [k \in Nat |-> [x \in Nat |-> base * x + (IF k \in 1..n THEN d[k] ELSE 0)]]
           G(f) == [k \in 0..n |-> IF k = 0 THEN 0 ELSE base * f[k - 1] + d[k]]
<1>0. n \in Nat /\ n \in 0..n /\ \A k \in 1..n : d[k] \in Nat
  BY LenProperties
<1>1. F \in [Nat -> [Nat -> Nat]] /\ 0 \in Nat
  <2> HIDE DEF n
  <2> QED  BY <1>0
<1>2. PICK f \in [0..n -> Nat] : Follows(f, n, 0, F)
  <2> HIDE DEF F, n
  <2> QED  BY <1>0, <1>1, Recursion
<1> HIDE DEF n
<1>3. \A k \in 1..n : f[k] = base * f[k - 1] + d[k]
  <2> SUFFICES ASSUME NEW k \in 1..n PROVE f[k] = base * f[k - 1] + d[k]
    OBVIOUS
  <2>1. k \in Nat /\ k - 1 \in 0..n
    BY <1>0
  <2>2. f[k] = F[k][f[k - 1]]
    BY <1>2 DEF Follows
  <2> QED  BY <2>1, <2>2
<1> HIDE DEF F
<1>4. f = G(f)
  <2>1. f[0] = 0 /\ 0 \in 0..n
    BY <1>0, <1>2 DEF Follows
  <2> QED  BY <1>3, <2>1
<1> DEFINE value == CHOOSE g : g = [k \in 0..Len(d) |-> IF k = 0 THEN 0 ELSE base * g[k - 1] + d[k]]
<1>5. value = G(value)
  BY <1>4 DEF n
<1>6. Number(base, d) = value[n]
  BY DEF Number, n
<1> HIDE DEF value
<1>7. value[0] = 0 /\ \A k \in 1..n : value[k] = base * value[k - 1] + d[k]
  BY <1>0, <1>5
<1>8. Alike(value, f, n)
  BY <1>2, <1>3, <1>7 DEF Follows, Alike
<1>9. \A k \in 0..n : value[k] = f[k]
  BY <1>0, <1>8, Agreement
<1>10. f[0] = 0
  BY <1>2 DEF Follows
<1> QED  BY <1>0, <1>3, <1>6, <1>9, <1>10 DEF n

LEMMA NumberType ==
  ASSUME NEW base \in Nat, NEW d \in Seq(Nat)
  PROVE  Number(base, d) \in Nat
<1>1. PICK f \in [0..Len(d) -> Nat] : Number(base, d) = f[Len(d)]
  BY NumberFollows
<1>2. Len(d) \in 0..Len(d)
  BY LenProperties
<1> QED  BY <1>1, <1>2

LEMMA NumberOfNothing ==
  ASSUME NEW base \in Nat
  PROVE  Number(base, <<>>) = 0
<1>1. <<>> \in Seq(Nat) /\ Len(<<>>) = 0
  OBVIOUS
<1>2. PICK f \in [0..Len(<<>>) -> Nat] : f[0] = 0 /\ Number(base, <<>>) = f[Len(<<>>)]
  BY <1>1, NumberFollows
<1> QED  BY <1>1, <1>2

LEMMA NumberOfAppend ==
  ASSUME NEW base \in Nat, NEW d \in Seq(Nat), NEW x \in Nat
  PROVE  Number(base, Append(d, x)) = base * Number(base, d) + x
<1>1. PICK f \in [0..Len(d) -> Nat] :
         /\ f[0] = 0 /\ \A k \in 1..Len(d) : f[k] = base * f[k - 1] + d[k]
         /\ Number(base, d) = f[Len(d)]
  BY NumberFollows
<1>2. /\ Append(d, x) \in Seq(Nat) /\ Len(Append(d, x)) = Len(d) + 1 /\ Append(d, x)[Len(d) + 1] = x
      /\ \A k \in 1..Len(d) : Append(d, x)[k] = d[k]
  BY AppendProperties
<1>3. PICK g \in [0..Len(Append(d, x)) -> Nat] :
         /\ g[0] = 0 /\ \A k \in 1..Len(Append(d, x)) : g[k] = base * g[k - 1] + Append(d, x)[k]
         /\ Number(base, Append(d, x)) = g[Len(Append(d, x))]
  BY <1>2, NumberFollows
<1>4. Len(d) \in Nat /\ Len(d) \in 0..Len(d) /\ Len(d) + 1 \in 1..(Len(d) + 1) /\ (Len(d) + 1) - 1 = Len(d)
      /\ 1..Len(d) \subseteq 1..(Len(d) + 1)
  BY LenProperties
<1>5. Alike(f, g, Len(d))
  BY <1>1, <1>2, <1>3, <1>4 DEF Alike
<1>6. \A k \in 0..Len(d) : f[k] = g[k]
  BY <1>4, <1>5, Agreement
<1>7. g[Len(d) + 1] = base * g[Len(d)] + x
  BY <1>2, <1>3, <1>4
<1> QED  BY <1>1, <1>2, <1>3, <1>4, <1>6, <1>7

\* A set of sequences with the empty one and closed under Append is all of Seq(S).
LEMMA SequenceInduction ==
  ASSUME NEW S, NEW P, <<>> \in P, \A s \in Seq(S), x \in S : s \in P => Append(s, x) \in P
  PROVE  Seq(S) \subseteq P
<1> DEFINE Q == {n \in Nat : \A s \in Seq(S) : Len(s) = n => s \in P}
<1>1. 0 \in Q
  BY EmptySeq
<1>2. ASSUME NEW n \in Q PROVE n + 1 \in Q
  <2>1. n \in Nat /\ \A s \in Seq(S) : Len(s) = n => s \in P
    OBVIOUS
  <2>2. ASSUME NEW s \in Seq(S), Len(s) = n + 1 PROVE s \in P
    <3> DEFINE t == SubSeq(s, 1, n)
    <3>1. t \in Seq(S) /\ Len(t) = n /\ \A i \in 1..n : t[i] = s[i]
      BY <2>1, <2>2, LenProperties, SubSeqProperties
    <3>2. s[n + 1] \in S
      BY <2>1, <2>2, ElementOfSeq
    <3>3. s = Append(t, s[n + 1])
      <4> HIDE DEF t
      <4>1. Append(t, s[n + 1]) \in Seq(S) /\ Len(Append(t, s[n + 1])) = n + 1
        BY <3>1, <3>2, AppendProperties
      <4>2. \A i \in 1..(n + 1) : Append(t, s[n + 1])[i] = s[i]
        BY <2>1, <3>1, <3>2, AppendProperties
      <4> QED  BY <2>2, <4>1, <4>2, SeqEqual
    <3> QED  BY <2>1, <3>1, <3>2, <3>3
  <2> QED  BY <2>1, <2>2
<1>3. Q = Nat
  <2> HIDE DEF Q
  <2>1. Q \subseteq Nat
    BY DEF Q
  <2> QED  BY <1>1, <1>2, <2>1, Induction
<1> QED  BY <1>3, LenProperties

LEMMA NextBelow ==
  ASSUME NEW b \in Nat, NEW n \in Nat, NEW p \in Nat, NEW x \in Nat, n < p, x < b
  PROVE  b * n + x < b * p
<1>1. PICK k \in Nat : p = n + 1 + k
  <2>1. p - (n + 1) \in Nat /\ p = n + 1 + (p - (n + 1))
    OBVIOUS
  <2> QED  BY <2>1
<1>2. b * p = b * n + b + b * k /\ b * k \in Nat /\ b * n \in Nat
  BY <1>1
<1> QED  BY <1>2

\* Digits behind a number shift it.
LEMMA NumberOfConcat ==
  ASSUME NEW base \in Nat, NEW d \in Seq(Nat), NEW e \in Seq(Nat)
  PROVE  Number(base, d \o e) = Number(base, d) * Power(base, Len(e)) + Number(base, e)
<1> DEFINE P == {f \in Seq(Nat) :
                   Number(base, d \o f) = Number(base, d) * Power(base, Len(f)) + Number(base, f)}
<1>1. <<>> \in P
  <2>1. d \o <<>> = d /\ Len(<<>>) = 0 /\ <<>> \in Seq(Nat)
    BY ConcatEmptySeq
  <2>2. Number(base, <<>>) = 0 /\ Power(base, 0) = 1 /\ Number(base, d) \in Nat
    BY NumberOfNothing, PowerOfZero, NumberType
  <2> QED  BY <2>1, <2>2
<1>2. ASSUME NEW f \in Seq(Nat), NEW x \in Nat, f \in P PROVE Append(f, x) \in P
  <2>1. /\ Append(f, x) \in Seq(Nat) /\ Len(Append(f, x)) = Len(f) + 1 /\ Len(f) \in Nat
        /\ d \o f \in Seq(Nat) /\ d \o Append(f, x) = Append(d \o f, x)
    BY AppendProperties, LenProperties, ConcatProperties
  <2>2. Number(base, Append(d \o f, x)) = base * Number(base, d \o f) + x
    BY <2>1, NumberOfAppend
  <2>3. Number(base, Append(f, x)) = base * Number(base, f) + x
    BY NumberOfAppend
  <2>4. Power(base, Len(f) + 1) = base * Power(base, Len(f)) /\ Power(base, Len(f)) \in Nat
    BY <2>1, PowerOfNext, PowerType
  <2>5. Number(base, d) \in Nat /\ Number(base, f) \in Nat
    BY NumberType
  <2>6. Number(base, d \o f) = Number(base, d) * Power(base, Len(f)) + Number(base, f)
    BY <1>2
  <2>7. base * (Number(base, d) * Power(base, Len(f)) + Number(base, f)) + x
          = Number(base, d) * (base * Power(base, Len(f))) + (base * Number(base, f) + x)
    BY SMTT(30), <2>4, <2>5
  <2>8. Number(base, d \o Append(f, x))
          = Number(base, d) * Power(base, Len(Append(f, x))) + Number(base, Append(f, x))
    BY <2>1, <2>2, <2>3, <2>4, <2>6, <2>7, Zenon
  <2> QED  BY <2>1, <2>8
<1>3. Seq(Nat) \subseteq P
  <2> HIDE DEF P
  <2> QED  BY <1>1, <1>2, SequenceInduction
<1> QED  BY <1>3

\* A number of n digits is below the n-th power of its base.
LEMMA NumberBelow ==
  ASSUME NEW base \in Nat \ {0}, NEW d \in Seq(0..(base - 1))
  PROVE  Number(base, d) \in Nat /\ Number(base, d) < Power(base, Len(d))
<1> DEFINE S == 0..(base - 1)
           P == {e \in Seq(S) : e \in Seq(Nat) /\ Number(base, e) < Power(base, Len(e))}
<1>1. <<>> \in P
  <2>1. <<>> \in Seq(S) /\ <<>> \in Seq(Nat) /\ Len(<<>>) = 0
    BY EmptySeq
  <2> QED  BY <2>1, NumberOfNothing, PowerOfZero
<1>2. ASSUME NEW e \in Seq(S), NEW x \in S, e \in P PROVE Append(e, x) \in P
  <2>1. x \in Nat /\ x < base /\ e \in Seq(Nat) /\ Len(e) \in Nat
    BY <1>2, LenProperties
  <2>2. /\ Append(e, x) \in Seq(S) /\ Append(e, x) \in Seq(Nat) /\ Len(Append(e, x)) = Len(e) + 1
    BY <2>1, AppendProperties
  <2>3. Number(base, Append(e, x)) = base * Number(base, e) + x
    BY <2>1, NumberOfAppend
  <2>4. Power(base, Len(e) + 1) = base * Power(base, Len(e)) /\ Power(base, Len(e)) \in Nat
    BY <2>1, PowerOfNext, PowerType
  <2>5. Number(base, e) \in Nat /\ Number(base, e) < Power(base, Len(e))
    BY <1>2, <2>1, NumberType
  <2>6. base * Number(base, e) + x < base * Power(base, Len(e))
    BY <2>1, <2>4, <2>5, NextBelow
  <2> QED  BY <2>2, <2>3, <2>4, <2>6
<1>3. Seq(S) \subseteq P
  <2> HIDE DEF P, S
  <2> QED  BY <1>1, <1>2, SequenceInduction
<1> QED  BY <1>3, NumberType

\* A set of naturals with each number that all smaller ones lead to is all of Nat.
LEMMA StrongInduction ==
  ASSUME NEW P, \A n \in Nat : (\A m \in 0..(n - 1) : m \in P) => n \in P
  PROVE  Nat \subseteq P
<1> SUFFICES ASSUME Nat \ P # {} PROVE FALSE
  OBVIOUS
<1>1. PICK n \in Nat \ P : \A m \in Nat \ P : n <= m
  BY LeastElement
<1>2. \A m \in 0..(n - 1) : m \in P
  BY <1>1
<1> QED  BY <1>1, <1>2

LEMMA Division ==
  ASSUME NEW b \in Nat \ {0}, NEW k \in Nat
  PROVE  /\ k \div b \in Nat /\ k % b \in 0..(b - 1) /\ k = b * (k \div b) + (k % b)
         /\ b > 1 /\ k > 0 => k \div b < k
OBVIOUS

\* The digits of k follow from those of k \div base.
Extends(f, base, k) == f[k] = IF k < base THEN <<k>> ELSE Append(f[k \div base], k % base)

LEMMA NumeralFollows ==
  ASSUME NEW base \in Nat \ {0, 1}, NEW n \in Nat
  PROVE  \E f \in [0..n -> Seq(0..(base - 1))] :
           (\A k \in 0..n : Extends(f, base, k)) /\ Numeral(base, n) = f[n]
<1> DEFINE D == 0..(base - 1)
           G(f, m) == [k \in 0..m |-> IF k < base THEN <<k>> ELSE Append(f[k \div base], k % base)]
           Defined(m) == \E f : f = G(f, m)
           P == {m \in Nat : Defined(m)}
<1>1. 0 \in P
  <2> DEFINE f == [k \in 0..0 |-> <<k>>]
  <2>1. f = G(f, 0)
    OBVIOUS
  <2> QED  BY <2>1
<1>2. ASSUME NEW m \in P PROVE m + 1 \in P
  <2>1. m \in Nat
    OBVIOUS
  <2>2. PICK f : f = G(f, m)
    OBVIOUS
  <2> DEFINE g == G(f, m + 1)
  <2> DEFINE E(k) == IF k < base THEN <<k>> ELSE Append(f[k \div base], k % base)
  <2>3. \A k \in 0..m : g[k] = f[k]
    <3>1. \A k \in 0..m : f[k] = E(k)
      BY <2>2
    <3>2. \A k \in 0..(m + 1) : g[k] = E(k)
      OBVIOUS
    <3>3. \A k \in 0..m : k \in 0..(m + 1)
      BY <2>1
    <3> HIDE DEF g, E
    <3> QED  BY <3>1, <3>2, <3>3
  <2>4. g = G(g, m + 1)
    <3> SUFFICES ASSUME NEW k \in 0..(m + 1), ~(k < base) PROVE g[k \div base] = f[k \div base]
      OBVIOUS
    <3>1. k \div base \in 0..m
      <4>1. k \in Nat /\ k > 0 /\ base > 1
        BY <2>1
      <4>2. k \div base \in Nat /\ k \div base < k
        BY <4>1, Division
      <4> QED  BY <2>1, <4>1, <4>2
    <3> HIDE DEF g
    <3> QED  BY <2>3, <3>1
  <2>5. Defined(m + 1)
    <3> HIDE DEF g
    <3> QED  BY <2>4
  <2> HIDE DEF Defined
  <2> QED  BY <2>1, <2>5
<1>3. P = Nat
  <2> HIDE DEF P
  <2>1. P \subseteq Nat
    BY DEF P
  <2> QED  BY <1>1, <1>2, <2>1, Induction
<1>4. PICK f : f = G(f, n)
  BY <1>3
<1> DEFINE digits == CHOOSE g : g = [k \in 0..n |-> IF k < base THEN <<k>> ELSE Append(g[k \div base], k % base)]
<1>5. digits = G(digits, n)
  BY <1>4
<1>6. Numeral(base, n) = digits[n]
  BY DEF Numeral
<1> HIDE DEF digits
<1>7. \A k \in 0..n : Extends(digits, base, k)
  BY <1>5 DEF Extends
<1>8. \A k \in 0..n : digits[k] \in Seq(D)
  <2> DEFINE Q == {k \in Nat : k <= n => digits[k] \in Seq(D)}
  <2>1. ASSUME NEW k \in Nat, \A m \in 0..(k - 1) : m \in Q PROVE k \in Q
    <3>1. SUFFICES ASSUME k <= n PROVE digits[k] \in Seq(D)
      OBVIOUS
    <3>2. k \in 0..n
      BY <3>1
    <3>3. CASE k < base
      <4>1. digits[k] = <<k>>
        BY <1>7, <3>2, <3>3 DEF Extends
      <4>2. k \in D
        BY <3>3
      <4> QED  BY <4>1, <4>2
    <3>4. CASE ~(k < base)
      <4>1. digits[k] = Append(digits[k \div base], k % base)
        BY <1>7, <3>2, <3>4 DEF Extends
      <4>2. k > 0 /\ base > 1
        BY <3>4
      <4>3. k \div base \in Nat /\ k \div base < k /\ k % base \in D
        BY <4>2, Division
      <4>4. k \div base \in 0..(k - 1) /\ k \div base <= n
        BY <3>1, <4>3
      <4>5. digits[k \div base] \in Seq(D)
        BY <2>1, <4>4
      <4> QED  BY <4>1, <4>3, <4>5, AppendProperties
    <3> QED  BY <3>3, <3>4
  <2>2. Nat \subseteq Q
    <3> HIDE DEF Q
    <3> QED  BY <2>1, StrongInduction
  <2> QED  BY <2>2
<1>9. digits \in [0..n -> Seq(D)]
  BY <1>5, <1>8
<1>10. n \in 0..n
  OBVIOUS
<1> QED  BY <1>6, <1>7, <1>9

\* What is known of the digits of n.
IsNumeral(base, n, d) ==
  /\ d \in Seq(0..(base - 1)) /\ d # <<>> /\ Number(base, d) = n
  /\ \A w \in Nat \ {0} : n < Power(base, w) => Len(d) <= w

LEMMA NumeralStep ==
  ASSUME NEW base \in Nat \ {0, 1}, NEW k \in Nat, NEW d,
         \/ k < base /\ d = <<k>>
         \/ k >= base /\ \E e : IsNumeral(base, k \div base, e) /\ d = Append(e, k % base)
  PROVE  IsNumeral(base, k, d)
<1> DEFINE D == 0..(base - 1)
<1>1. CASE k < base /\ d = <<k>>
  <2>1. k \in D
    BY <1>1
  <2>2. d = Append(<<>>, k) /\ <<>> \in Seq(Nat)
    BY <1>1
  <2>3. Number(base, d) = base * 0 + k
    BY ZenonT(30), <2>2, NumberOfAppend, NumberOfNothing
  <2>4. Len(d) = 1 /\ d # <<>> /\ d \in Seq(D)
    <3> HIDE DEF D
    <3> QED  BY <1>1, <2>1
  <2> QED  BY <2>3, <2>4 DEF IsNumeral
<1>2. ASSUME k >= base, NEW e, IsNumeral(base, k \div base, e), d = Append(e, k % base)
      PROVE  IsNumeral(base, k, d)
  <2>1. k \div base \in Nat /\ k % base \in D /\ k = base * (k \div base) + (k % base)
    BY Division
  <2> DEFINE r == k % base
  <2>2. e \in Seq(D) /\ e # <<>> /\ Number(base, e) = k \div base
    BY <1>2 DEF IsNumeral
  <2>3. e \in Seq(Nat) /\ k % base \in Nat /\ Len(e) \in Nat
    BY <2>1, <2>2, LenProperties
  <2>4. d \in Seq(D) /\ d # <<>> /\ Len(d) = Len(e) + 1
    <3>1. d = Append(e, r) /\ r \in D
      BY <1>2, <2>1
    <3> HIDE DEF r, D
    <3> QED  BY <2>2, <3>1, AppendProperties
  <2>5. Number(base, d) = k
    <3>1. d = Append(e, r) /\ r \in Nat /\ k = base * (k \div base) + r
      BY <1>2, <2>1
    <3> HIDE DEF r
    <3>2. Number(base, d) = base * Number(base, e) + r
      BY <2>3, <3>1, NumberOfAppend
    <3> QED  BY <2>2, <3>1, <3>2
  <2>6. ASSUME NEW w \in Nat \ {0}, k < Power(base, w) PROVE Len(d) <= w
    <3> DEFINE v == w - 1
    <3>1. v \in Nat /\ w = v + 1
      OBVIOUS
    <3>2. Power(base, w) = base * Power(base, v) /\ Power(base, v) \in Nat
      BY <3>1, PowerOfNext, PowerType
    <3> HIDE DEF v
    <3>3. k \div base < Power(base, v)
      <4>1. ASSUME NEW q \in Nat, NEW p \in Nat, NEW x \in Nat, base * q + x < base * p PROVE q < p
        <5>1. p <= q => base * p <= base * q
          <6>1. ASSUME NEW i \in Nat, q = p + i PROVE base * q = base * p + base * i /\ base * i \in Nat
            BY <6>1
          <6>2. p <= q => q - p \in Nat /\ q = p + (q - p)
            OBVIOUS
          <6> QED  BY <6>1, <6>2
        <5> QED  BY <4>1, <5>1
      <4>2. base * (k \div base) + r < base * Power(base, v) /\ r \in Nat
        BY <2>1, <2>6, <3>2
      <4> HIDE DEF r
      <4> QED  BY <2>1, <3>2, <4>1, <4>2
    <3>4. v # 0
      <4>1. SUFFICES ASSUME v = 0 PROVE FALSE
        OBVIOUS
      <4>2. k \div base < 1
        BY <3>3, <4>1, PowerOfZero
      <4>3. k \div base = 0
        BY <2>1, <4>2
      <4> QED  BY <1>2, <2>1, <4>3
    <3>5. Len(e) <= v
      BY <1>2, <3>1, <3>3, <3>4 DEF IsNumeral
    <3> QED  BY <2>3, <2>4, <3>1, <3>5
  <2> QED  BY <2>4, <2>5, <2>6 DEF IsNumeral
<1> QED  BY <1>1, <1>2

\* The digits of a number stand for it, without zeros in front.
LEMMA NumeralIsNumeral ==
  ASSUME NEW base \in Nat \ {0, 1}, NEW n \in Nat
  PROVE  IsNumeral(base, n, Numeral(base, n))
<1>1. PICK f \in [0..n -> Seq(0..(base - 1))] :
         (\A k \in 0..n : Extends(f, base, k)) /\ Numeral(base, n) = f[n]
  BY NumeralFollows
<1> DEFINE P == {k \in Nat : k <= n => IsNumeral(base, k, f[k])}
<1>2. ASSUME NEW k \in Nat, \A m \in 0..(k - 1) : m \in P PROVE k \in P
  <2>1. SUFFICES ASSUME k <= n PROVE IsNumeral(base, k, f[k])
    OBVIOUS
  <2>2. Extends(f, base, k)
    BY <1>1, <2>1
  <2>3. CASE k < base
    BY <2>2, <2>3, NumeralStep DEF Extends
  <2>4. CASE ~(k < base)
    <3>1. k > 0 /\ base > 1 /\ k >= base
      BY <2>4
    <3>2. k \div base \in 0..(k - 1) /\ k \div base <= n
      <4>1. k \div base \in Nat /\ k \div base < k
        BY <3>1, Division
      <4> QED  BY <2>1, <4>1
    <3>3. IsNumeral(base, k \div base, f[k \div base])
      BY <1>2, <3>2
    <3> QED  BY <2>2, <2>4, <3>1, <3>3, NumeralStep DEF Extends
  <2> QED  BY <2>3, <2>4
<1>3. Nat \subseteq P
  <2> HIDE DEF P
  <2> QED  BY <1>2, StrongInduction
<1> QED  BY <1>1, <1>3

LEMMA PowerOfSum ==
  ASSUME NEW base \in Nat, NEW m \in Nat, NEW n \in Nat
  PROVE  Power(base, m + n) = Power(base, m) * Power(base, n)
<1> DEFINE P == {k \in Nat : Power(base, m + k) = Power(base, m) * Power(base, k)}
<1>1. 0 \in P
  BY PowerOfZero, PowerType
<1>2. ASSUME NEW k \in P PROVE k + 1 \in P
  <2>1. k \in Nat /\ m + (k + 1) = (m + k) + 1 /\ m + k \in Nat
    OBVIOUS
  <2>2. Power(base, m + (k + 1)) = base * Power(base, m + k)
    BY <2>1, PowerOfNext
  <2>3. Power(base, k + 1) = base * Power(base, k)
    BY <2>1, PowerOfNext
  <2>4. Power(base, m) \in Nat /\ Power(base, k) \in Nat
    BY <2>1, PowerType
  <2>5. base * (Power(base, m) * Power(base, k)) = Power(base, m) * (base * Power(base, k))
    BY <2>4
  <2> QED  BY <2>1, <2>2, <2>3, <2>5
<1>3. P = Nat
  <2> HIDE DEF P
  <2>1. P \subseteq Nat
    BY DEF P
  <2> QED  BY <1>1, <1>2, <2>1, Induction
<1> QED  BY <1>3

LEMMA PowerPositive ==
  ASSUME NEW base \in Nat \ {0}, NEW n \in Nat
  PROVE  Power(base, n) \in Nat \ {0}
<1> DEFINE P == {k \in Nat : Power(base, k) # 0}
<1>1. 0 \in P
  BY PowerOfZero
<1>2. ASSUME NEW k \in P PROVE k + 1 \in P
  <2>1. k \in Nat /\ Power(base, k) \in Nat \ {0} /\ Power(base, k + 1) = base * Power(base, k)
    BY PowerType, PowerOfNext
  <2>2. base * Power(base, k) # 0
    BY <2>1
  <2> QED  BY <2>1, <2>2
<1>3. P = Nat
  <2> HIDE DEF P
  <2>1. P \subseteq Nat
    BY DEF P
  <2> QED  BY <1>1, <1>2, <2>1, Induction
<1> QED  BY <1>3, PowerType
-----------------------------------------------------------------------------
(* Decimals.                                                                 *)
LEMMA ZerosType ==
  ASSUME NEW n \in Nat
  PROVE  Zeros(n) \in Seq(Digit) /\ Zeros(n) \in Seq(Nat) /\ Len(Zeros(n)) = n /\ \A i \in 1..n : Zeros(n)[i] = 0
BY DEF Zeros, Digit

LEMMA ZerosAreZero ==
  ASSUME NEW base \in Nat, NEW n \in Nat
  PROVE  Number(base, Zeros(n)) = 0
<1> DEFINE P == {k \in Nat : Number(base, Zeros(k)) = 0}
<1>1. 0 \in P
  <2>1. Zeros(0) = <<>>
    BY DEF Zeros
  <2> QED  BY <2>1, NumberOfNothing
<1>2. ASSUME NEW k \in P PROVE k + 1 \in P
  <2>1. k \in Nat /\ k + 1 \in Nat /\ Number(base, Zeros(k)) = 0
    OBVIOUS
  <2>2. Zeros(k + 1) = Append(Zeros(k), 0)
    <3>1. /\ Append(Zeros(k), 0) \in Seq(Nat) /\ Len(Append(Zeros(k), 0)) = k + 1
          /\ \A i \in 1..(k + 1) : Append(Zeros(k), 0)[i] = 0
      BY SMTT(30), <2>1, ZerosType, AppendProperties
    <3>2. /\ Zeros(k + 1) \in Seq(Nat) /\ Len(Zeros(k + 1)) = k + 1
          /\ \A i \in 1..(k + 1) : Zeros(k + 1)[i] = 0
      BY <2>1, ZerosType
    <3> QED  BY <3>1, <3>2, SeqEqual
  <2>3. Number(base, Zeros(k + 1)) = base * Number(base, Zeros(k)) + 0
    <3>1. Zeros(k) \in Seq(Nat) /\ 0 \in Nat
      BY <2>1, ZerosType
    <3>2. Number(base, Append(Zeros(k), 0)) = base * Number(base, Zeros(k)) + 0
      BY <3>1, NumberOfAppend, Zenon
    <3> QED  BY <2>2, <3>2
  <2> QED  BY <2>1, <2>3
<1>3. P = Nat
  <2> HIDE DEF P
  <2>1. P \subseteq Nat
    BY DEF P
  <2> QED  BY <1>1, <1>2, <2>1, Induction
<1> QED  BY <1>3

LEMMA DigitsAreNumbers == \A d \in Seq(Digit) : d \in Seq(Nat) /\ Len(d) \in Nat
BY LenProperties, SeqMonotonic DEF Digit

\* Zeros in front do not change a number, those behind multiply it.
LEMMA PadStartType ==
  ASSUME NEW d \in Seq(Digit), NEW n \in Nat
  PROVE  /\ PadStart(d, n) \in Seq(Digit) /\ ValueOf(PadStart(d, n)) = ValueOf(d)
         /\ Len(PadStart(d, n)) = IF n > Len(d) THEN n ELSE Len(d)
<1>1. Len(d) \in Nat /\ d \in Seq(Nat)
  BY DigitsAreNumbers
<1>2. CASE n > Len(d)
  <2> DEFINE z == Zeros(n - Len(d))
  <2>1. PadStart(d, n) = z \o d
    BY <1>2 DEF PadStart
  <2>2. z \in Seq(Digit) /\ z \in Seq(Nat) /\ Len(z) = n - Len(d) /\ Number(10, z) = 0
    <3>1. n - Len(d) \in Nat
      BY <1>1, <1>2
    <3> QED  BY <3>1, ZerosType, ZerosAreZero
  <2> HIDE DEF z
  <2>3. ValueOf(z \o d) = 0 * Power(10, Len(d)) + ValueOf(d)
    BY <1>1, <2>2, NumberOfConcat DEF ValueOf
  <2>4. Power(10, Len(d)) \in Nat /\ ValueOf(d) \in Nat
    BY <1>1, PowerType, NumberType DEF ValueOf
  <2>5. z \o d \in Seq(Digit) /\ Len(z \o d) = Len(z) + Len(d)
    BY <2>2, ConcatProperties, Zenon
  <2>6. ValueOf(z \o d) = ValueOf(d)
    BY <2>3, <2>4
  <2>7. Len(z \o d) = n
    BY <1>1, <1>2, <2>2, <2>5
  <2> QED  BY <1>2, <2>1, <2>5, <2>6, <2>7, Zenon
<1>3. CASE ~(n > Len(d))
  <2>1. PadStart(d, n) = d
    BY <1>3, ConcatEmptySeq DEF PadStart
  <2> QED  BY <1>3, <2>1
<1> QED  BY <1>2, <1>3

LEMMA PadEndType ==
  ASSUME NEW d \in Seq(Digit), NEW n \in Nat, Len(d) <= n
  PROVE  /\ PadEnd(d, n) \in Seq(Digit) /\ Len(PadEnd(d, n)) = n
         /\ ValueOf(PadEnd(d, n)) = ValueOf(d) * Power(10, n - Len(d))
<1>1. Len(d) \in Nat /\ d \in Seq(Nat) /\ n - Len(d) \in Nat
  BY DigitsAreNumbers
<1> DEFINE z == Zeros(n - Len(d))
<1>2. z \in Seq(Digit) /\ z \in Seq(Nat) /\ Len(z) = n - Len(d) /\ Number(10, z) = 0
  BY <1>1, ZerosType, ZerosAreZero
<1>3. PadEnd(d, n) = d \o z
  <2>1. CASE n = Len(d)
    <3>1. z = <<>>
      BY <1>1, <2>1 DEF Zeros
    <3> QED  BY <1>1, <2>1, <3>1 DEF PadEnd
  <2>2. CASE n > Len(d)
    BY <2>2 DEF PadEnd
  <2> QED  BY <1>1, <2>1, <2>2
<1> HIDE DEF z
<1>4. ValueOf(d \o z) = ValueOf(d) * Power(10, n - Len(d)) + 0
  <2>1. 10 \in Nat
    OBVIOUS
  <2>2. Number(10, d \o z) = Number(10, d) * Power(10, Len(z)) + Number(10, z)
    BY <1>1, <1>2, <2>1, NumberOfConcat, Zenon
  <2> QED  BY <1>2, <2>2 DEF ValueOf
<1>5. ValueOf(d) \in Nat /\ Power(10, n - Len(d)) \in Nat
  BY <1>1, PowerType, NumberType DEF ValueOf
<1>6. ValueOf(d) * Power(10, n - Len(d)) \in Nat
  BY <1>5
<1> QED  BY <1>1, <1>2, <1>3, <1>4, <1>6, ConcatProperties

\* What is trimmed are zeros.
LEMMA TrimType ==
  ASSUME NEW d \in Seq(Digit)
  PROVE  /\ Trim(d) \in Seq(Digit) /\ Len(Trim(d)) <= Len(d)
         /\ d = Trim(d) \o Zeros(Len(d) - Len(Trim(d)))
         /\ ValueOf(d) = ValueOf(Trim(d)) * Power(10, Len(d) - Len(Trim(d)))
<1> DEFINE n == Len(d)
           Last(k) == (k > 0 => d[k] # 0) /\ \A i \in (k + 1)..n : d[i] = 0
           last == CHOOSE k \in 0..n : Last(k)
           t == SubSeq(d, 1, last)
           z == Zeros(n - last)
<1>1. n \in Nat /\ d \in Seq(Nat) /\ \A i \in 1..n : d[i] \in Digit
  BY DigitsAreNumbers, ElementOfSeq
<1>2. \E k \in 0..n : Last(k)
  <2> HIDE DEF n
  <2> DEFINE T == {k \in 0..n : \A i \in (k + 1)..n : d[i] = 0}
  <2>1. n \in T /\ T \subseteq Nat
    BY <1>1
  <2>2. PICK k \in T : \A m \in T : k <= m
    <3> HIDE DEF T
    <3> QED  BY <2>1, LeastElement
  <2>3. ASSUME k > 0, d[k] = 0 PROVE FALSE
    <3>1. k - 1 \in 0..n /\ \A i \in ((k - 1) + 1)..n : i = k \/ i \in (k + 1)..n
      BY <1>1, <2>3
    <3>2. k - 1 \in T
      BY <2>3, <3>1
    <3> QED  BY <2>2, <2>3, <3>2
  <2> QED  BY <2>2, <2>3
<1>3. last \in 0..n /\ Last(last)
  <2> HIDE DEF Last
  <2> QED  BY <1>2
<1>4. Trim(d) = t
  BY DEF Trim
<1> HIDE DEF last, n
<1>5. t \in Seq(Digit) /\ Len(t) = last /\ \A i \in 1..last : t[i] = d[i]
  <2>1. last \in Nat /\ last <= n /\ \A i \in 1..last : d[i] \in Digit
    BY <1>1, <1>3
  <2> QED  BY <2>1, SubSeqProperties
<1>6. n - last \in Nat
  BY <1>1, <1>3
<1>7. z \in Seq(Digit) /\ z \in Seq(Nat) /\ Len(z) = n - last /\ (\A i \in 1..(n - last) : z[i] = 0) /\ Number(10, z) = 0
  BY <1>6, ZerosType, ZerosAreZero
<1> HIDE DEF t, z
<1>8. d = t \o z
  <2>1. /\ t \o z \in Seq(Digit) /\ Len(t \o z) = Len(t) + Len(z)
        /\ \A i \in 1..(Len(t) + Len(z)) : (t \o z)[i] = IF i <= Len(t) THEN t[i] ELSE z[i - Len(t)]
    BY <1>5, <1>7, ConcatProperties
  <2>2. Len(t \o z) = Len(d)
    BY <1>1, <1>3, <1>5, <1>7, <2>1 DEF n
  <2>3. ASSUME NEW i \in 1..n PROVE (t \o z)[i] = d[i]
    <3>1. i \in Nat /\ last \in Nat /\ i \in 1..(Len(t) + Len(z))
      BY <1>1, <1>3, <1>5, <1>7
    <3>2. CASE i <= last
      BY <1>5, <2>1, <3>1, <3>2
    <3>3. CASE i > last
      <4>1. i - last \in 1..(n - last) /\ i \in (last + 1)..n
        BY <1>1, <3>1, <3>3
      <4>2. d[i] = 0 /\ z[i - last] = 0
        BY <1>3, <1>7, <4>1
      <4>3. (t \o z)[i] = z[i - last]
        BY <1>5, <2>1, <3>1, <3>3
      <4> QED  BY <4>2, <4>3
    <3> QED  BY <3>1, <3>2, <3>3
  <2> QED  BY <2>1, <2>2, <2>3, SeqEqual DEF n
<1>9. ValueOf(d) = ValueOf(t) * Power(10, n - last)
  <2>1. t \in Seq(Nat) /\ 10 \in Nat
    BY <1>5, DigitsAreNumbers
  <2>2. Number(10, t \o z) = Number(10, t) * Power(10, Len(z)) + Number(10, z)
    BY <1>7, <2>1, NumberOfConcat, Zenon
  <2>3. Number(10, t) \in Nat /\ Power(10, Len(z)) \in Nat
    BY <1>6, <1>7, <2>1, NumberType, PowerType
  <2>4. Number(10, t) * Power(10, Len(z)) \in Nat
    BY <2>3
  <2> QED  BY <1>7, <1>8, <2>2, <2>4 DEF ValueOf
<1>10. last <= n
  BY <1>1, <1>3
<1> QED  BY <1>4, <1>5, <1>8, <1>9, <1>10, Zenon DEF n, z

\* What is parsed and printed.
Texts == [whole : Seq(Digit), dot : BOOLEAN, fraction : Seq(Digit)]

LEMMA SameScale ==
  ASSUME NEW w \in Nat, NEW v \in Nat, NEW p \in Nat, NEW q \in Nat, NEW r \in Nat
  PROVE  (w * (q * r) + v * q) * (p * r) = (w * (p * r) + v * p) * (q * r)
OBVIOUS

LEMMA ValueOfConcat ==
  ASSUME NEW d \in Seq(Digit), NEW e \in Seq(Digit)
  PROVE  /\ d \o e \in Seq(Digit) /\ ValueOf(d) \in Nat /\ ValueOf(e) \in Nat
         /\ ValueOf(d \o e) = ValueOf(d) * Power(10, Len(e)) + ValueOf(e)
<1>1. d \in Seq(Nat) /\ e \in Seq(Nat) /\ 10 \in Nat
  BY DigitsAreNumbers
<1>2. Number(10, d \o e) = Number(10, d) * Power(10, Len(e)) + Number(10, e)
  BY <1>1, NumberOfConcat, Zenon
<1> QED  BY <1>1, <1>2, NumberType, ConcatProperties DEF ValueOf

\* A number that was parsed is what its text stands for.
LEMMA ParsedValue ==
  ASSUME NEW text \in Texts, NEW n \in Nat, NEW x \in fromUserInput(text, n)
  PROVE  /\ fromUserInput(text, n) = {x}
         /\ x.atomics \in Nat /\ x = [atomics |-> x.atomics, fractionalDigits |-> n]
         /\ x.atomics * Power(10, Len(text.fraction)) = ValueOf(text.whole \o text.fraction) * Power(10, n)
<1> DEFINE whole == IF text.whole = <<>> /\ ~text.dot THEN <<0>> ELSE text.whole
           f == text.fraction
           t == Trim(f)
           e == PadEnd(t, n)
           w == ValueOf(whole)
           v == ValueOf(t)
           p == Power(10, Len(f) - Len(t))
           q == Power(10, n - Len(t))
           r == Power(10, Len(t))
<1>1. x = [atomics |-> ValueOf(whole \o e), fractionalDigits |-> n] /\ Len(t) <= n /\ fromUserInput(text, n) = {x}
  <2>1. CASE (text.dot /\ f = <<>>) \/ Len(t) > n \/ whole \o e = <<>>
    <3>1. fromUserInput(text, n) = {}
      BY <2>1 DEF fromUserInput
    <3> QED  BY <3>1
  <2>2. CASE ~((text.dot /\ f = <<>>) \/ Len(t) > n \/ whole \o e = <<>>)
    <3>1. fromUserInput(text, n) = {[atomics |-> ValueOf(whole \o e), fractionalDigits |-> n]}
      BY <2>2 DEF fromUserInput
    <3>2. f \in Seq(Digit)
      BY DEF Texts
    <3>3. t \in Seq(Digit)
      BY <3>2, TrimType
    <3>4. Len(t) \in Nat
      BY <3>3, DigitsAreNumbers
    <3> HIDE DEF t, whole, e
    <3> QED  BY <2>2, <3>1, <3>4
  <2> QED  BY <2>1, <2>2
<1>2. f \in Seq(Digit) /\ text.whole \in Seq(Digit) /\ whole \in Seq(Digit) /\ Len(f) \in Nat
  <2>1. <<0>> \in Seq(Digit)
    BY DEF Digit
  <2> QED  BY <2>1, DigitsAreNumbers DEF Texts
<1>3. t \in Seq(Digit) /\ Len(t) \in Nat /\ Len(t) <= Len(f) /\ ValueOf(f) = v * p
  BY <1>2, TrimType, DigitsAreNumbers
<1>4. e \in Seq(Digit) /\ Len(e) = n /\ ValueOf(e) = v * q
  BY <1>1, <1>3, PadEndType
<1>5. ValueOf(text.whole \o f) = w * Power(10, Len(f)) + v * p
  <2>1. ValueOf(text.whole \o f) = ValueOf(text.whole) * Power(10, Len(f)) + ValueOf(f)
    BY <1>2, ValueOfConcat
  <2>2. ValueOf(text.whole) = w
    <3>1. ValueOf(<<>>) = 0
      BY NumberOfNothing DEF ValueOf
    <3>2. Number(10, <<0>>) = 10 * Number(10, <<>>) + 0
      <4>1. <<>> \in Seq(Nat) /\ 0 \in Nat /\ 10 \in Nat
        OBVIOUS
      <4>2. Number(10, Append(<<>>, 0)) = 10 * Number(10, <<>>) + 0
        BY <4>1, NumberOfAppend, Zenon
      <4>3. Append(<<>>, 0) = <<0>>
        OBVIOUS
      <4> QED  BY <4>2, <4>3, Zenon
    <3>3. ValueOf(<<0>>) = 0
      BY <3>1, <3>2 DEF ValueOf
    <3> QED  BY <3>1, <3>3
  <2> QED  BY <1>3, <2>1, <2>2
<1>6. ValueOf(whole \o e) = w * Power(10, n) + v * q
  BY ZenonT(30), <1>2, <1>4, ValueOfConcat
<1>7. n - Len(t) \in Nat /\ Len(f) - Len(t) \in Nat /\ n = (n - Len(t)) + Len(t) /\ Len(f) = (Len(f) - Len(t)) + Len(t)
  BY <1>1, <1>2, <1>3
<1>8. p \in Nat /\ q \in Nat /\ r \in Nat /\ Power(10, n) = q * r /\ Power(10, Len(f)) = p * r
  <2>1. p \in Nat /\ q \in Nat /\ r \in Nat
    BY <1>3, <1>7, PowerType
  <2>2. Power(10, (n - Len(t)) + Len(t)) = q * r /\ Power(10, (Len(f) - Len(t)) + Len(t)) = p * r
    BY <1>3, <1>7, PowerOfSum
  <2> QED  BY <1>7, <2>1, <2>2
<1>9. w \in Nat /\ v \in Nat
  BY <1>2, <1>3, ValueOfConcat
<1> HIDE DEF w, v, p, q, r, whole, f, t, e
<1>10. x.atomics = w * (q * r) + v * q
  BY <1>1, <1>6, <1>8
<1>11. x.atomics * (p * r) = (w * (p * r) + v * p) * (q * r)
  BY <1>8, <1>9, <1>10, SameScale
<1>12. x.atomics \in Nat
  BY <1>8, <1>9, <1>10
<1>13. x = [atomics |-> x.atomics, fractionalDigits |-> n]
  BY <1>1
<1> QED  BY <1>1, <1>5, <1>8, <1>11, <1>12, <1>13 DEF f

LEMMA Cancel ==
  ASSUME NEW a \in Nat, NEW b \in Nat, NEW p \in Nat \ {0}, a * p = b * p
  PROVE  a = b
OBVIOUS

LEMMA DigitsOfNumber ==
  ASSUME NEW n \in Nat
  PROVE  /\ DigitsOf(n) \in Seq(Digit) /\ DigitsOf(n) # <<>> /\ ValueOf(DigitsOf(n)) = n
         /\ \A w \in Nat \ {0} : n < Power(10, w) => Len(DigitsOf(n)) <= w
<1>1. IsNumeral(10, n, Numeral(10, n))
  BY NumeralIsNumeral
<1> QED  BY <1>1 DEF IsNumeral, DigitsOf, ValueOf, Digit

\* A number that was printed is what its text stands for, and can be parsed.
LEMMA PrintedText ==
  ASSUME NEW a \in Nat, NEW n \in Nat
  PROVE  LET text == toString([atomics |-> a, fractionalDigits |-> n])
         IN /\ text \in Texts /\ text.whole # <<>> /\ (text.dot <=> text.fraction # <<>>)
            /\ Len(text.fraction) <= n
            /\ a * Power(10, Len(text.fraction)) = ValueOf(text.whole \o text.fraction) * Power(10, n)
            /\ a % Power(10, n) = 0 => text.fraction = <<>>
<1> DEFINE d == [atomics |-> a, fractionalDigits |-> n]
           text == toString(d)
           F == Power(10, n)
           q == a \div F
           m == a % F
           t == Trim(PadStart(DigitsOf(m), n))
           f == IF m = 0 THEN <<>> ELSE t
<1>1. F \in Nat \ {0}
  BY PowerPositive
<1>2. q \in Nat /\ m \in 0..(F - 1) /\ a = F * q + m
  BY <1>1, Division
<1>3. text = [whole |-> DigitsOf(q), dot |-> f # <<>>, fraction |-> f]
  BY DEF toString, Text
<1>4. f \in Seq(Digit) /\ Len(f) \in Nat /\ Len(f) <= n /\ m = ValueOf(f) * Power(10, n - Len(f))
  <2>1. CASE m = 0
    <3>1. f = <<>> /\ f \in Seq(Digit) /\ Len(f) = 0
      BY <2>1
    <3>2. ValueOf(<<>>) = 0
      BY NumberOfNothing DEF ValueOf
    <3>3. Power(10, n - 0) \in Nat
      BY PowerType
    <3> QED  BY <2>1, <3>1, <3>2, <3>3
  <2>2. CASE m # 0
    <3>1. m \in Nat /\ m < F /\ n # 0
      <4>1. n = 0 => F = 1
        BY PowerOfZero
      <4> HIDE DEF F, m
      <4> QED  BY <1>1, <1>2, <2>2, <4>1
    <3>2. DigitsOf(m) \in Seq(Digit) /\ ValueOf(DigitsOf(m)) = m /\ Len(DigitsOf(m)) <= n /\ Len(DigitsOf(m)) \in Nat
      BY <3>1, DigitsOfNumber, DigitsAreNumbers
    <3>3. PadStart(DigitsOf(m), n) \in Seq(Digit) /\ ValueOf(PadStart(DigitsOf(m), n)) = m /\ Len(PadStart(DigitsOf(m), n)) = n
      BY <3>2, PadStartType
    <3>4. f = t
      BY <2>2
    <3> QED  BY <3>3, <3>4, TrimType, DigitsAreNumbers
  <2> QED  BY <2>1, <2>2
<1>5. DigitsOf(q) \in Seq(Digit) /\ DigitsOf(q) # <<>> /\ ValueOf(DigitsOf(q)) = q
  BY <1>2, DigitsOfNumber
<1>6. ValueOf(DigitsOf(q) \o f) = q * Power(10, Len(f)) + ValueOf(f) /\ ValueOf(f) \in Nat
  BY <1>4, <1>5, ValueOfConcat
<1>7. F = Power(10, n - Len(f)) * Power(10, Len(f)) /\ Power(10, n - Len(f)) \in Nat /\ Power(10, Len(f)) \in Nat
  <2>1. n - Len(f) \in Nat /\ n = (n - Len(f)) + Len(f)
    BY <1>4
  <2> HIDE DEF f
  <2>2. 10 \in Nat
    OBVIOUS
  <2>3. Power(10, (n - Len(f)) + Len(f)) = Power(10, n - Len(f)) * Power(10, Len(f))
    BY <1>4, <2>1, <2>2, PowerOfSum, Zenon
  <2> QED  BY <1>4, <2>1, <2>3, PowerType
<1>8. a * Power(10, Len(f)) = ValueOf(DigitsOf(q) \o f) * F
  <2> DEFINE v == ValueOf(f)
             s == Power(10, n - Len(f))
             r == Power(10, Len(f))
  <2>1. a = F * q + v * s /\ F = s * r /\ ValueOf(DigitsOf(q) \o f) = q * r + v
    BY <1>2, <1>4, <1>6, <1>7
  <2>2. q \in Nat /\ v \in Nat /\ s \in Nat /\ r \in Nat
    BY <1>2, <1>6, <1>7
  <2> HIDE DEF v, s, r, q, f, F
  <2>3. ((s * r) * q + v * s) * r = (q * r + v) * (s * r)
    BY <2>2
  <2>4. r = Power(10, Len(f))
    BY DEF r
  <2> QED  BY <2>1, <2>3, <2>4
<1> HIDE DEF q, m, f, F, text
<1>9. text.whole # <<>> /\ (text.dot <=> text.fraction # <<>>) /\ Len(text.fraction) <= n /\ text.fraction = f /\ text.whole = DigitsOf(q)
  BY <1>3, <1>4, <1>5
<1>10. text \in Texts
  BY <1>3, <1>4, <1>5 DEF Texts
<1>11. m = 0 => f = <<>>
  BY DEF f
<1> QED  BY <1>8, <1>9, <1>10, <1>11 DEF m, F, text

\* A number that was printed is parsed as the same.
LEMMA PrintedParses ==
  ASSUME NEW a \in Nat, NEW n \in Nat
  PROVE  fromUserInput(toString([atomics |-> a, fractionalDigits |-> n]), n)
           = {[atomics |-> a, fractionalDigits |-> n]}
<1> DEFINE text == toString([atomics |-> a, fractionalDigits |-> n])
           r == Power(10, Len(text.fraction))
<1>1. /\ text \in Texts /\ text.whole # <<>> /\ (text.dot <=> text.fraction # <<>>)
      /\ Len(text.fraction) <= n /\ a * r = ValueOf(text.whole \o text.fraction) * Power(10, n)
  BY PrintedText
<1> HIDE DEF text
<1>2. text.whole \in Seq(Digit) /\ text.fraction \in Seq(Digit) /\ Len(text.fraction) \in Nat
  BY <1>1, DigitsAreNumbers DEF Texts
<1>3. Len(Trim(text.fraction)) <= n /\ Trim(text.fraction) \in Seq(Digit)
  <2>1. Trim(text.fraction) \in Seq(Digit) /\ Len(Trim(text.fraction)) <= Len(text.fraction)
    BY <1>2, TrimType
  <2> QED  BY <1>1, <1>2, <2>1, DigitsAreNumbers
<1>4. fromUserInput(text, n) # {}
  <2> DEFINE e == PadEnd(Trim(text.fraction), n)
  <2>1. e \in Seq(Digit)
    BY <1>3, PadEndType
  <2>2. text.whole \o e # <<>>
    <3>1. Len(text.whole) \in Nat /\ Len(text.whole) # 0 /\ Len(e) \in Nat
      BY <1>1, <1>2, <2>1, EmptySeq, DigitsAreNumbers
    <3>2. Len(text.whole \o e) = Len(text.whole) + Len(e)
      BY <1>2, <2>1, ConcatProperties
    <3>3. Len(<<>>) = 0
      OBVIOUS
    <3> HIDE DEF e
    <3> QED  BY <3>1, <3>2, <3>3
  <2>3. Len(Trim(text.fraction)) \in Nat
    BY <1>3, DigitsAreNumbers
  <2> HIDE DEF e
  <2>4. fromUserInput(text, n) = {[atomics |-> ValueOf(text.whole \o e), fractionalDigits |-> n]}
    BY <1>1, <1>3, <2>2, <2>3 DEF fromUserInput, e
  <2> QED  BY <2>4
<1>5. PICK x \in fromUserInput(text, n) : TRUE
  BY <1>4
<1>6. /\ fromUserInput(text, n) = {x} /\ x.atomics \in Nat /\ x = [atomics |-> x.atomics, fractionalDigits |-> n]
      /\ x.atomics * r = ValueOf(text.whole \o text.fraction) * Power(10, n)
  BY <1>1, ParsedValue
<1>7. r \in Nat \ {0}
  <2>1. 10 \in Nat \ {0}
    OBVIOUS
  <2> QED  BY <1>2, <2>1, PowerPositive, Zenon
<1>8. x.atomics = a
  <2> HIDE DEF r
  <2>1. x.atomics * r = a * r
    BY <1>1, <1>6
  <2> QED  BY <1>6, <1>7, <2>1, Cancel
<1> QED  BY <1>6, <1>8 DEF text

LEMMA MultiplyOrder ==
  ASSUME NEW a \in Nat, NEW b \in Nat, NEW p \in Nat \ {0}
  PROVE  /\ a * p <= b * p <=> a <= b
         /\ a * p < b * p <=> a < b
<1>1. ASSUME NEW x \in Nat, NEW y \in Nat, x < y PROVE x * p < y * p
  <2>1. y - x \in Nat \ {0} /\ y = x + (y - x)
    BY <1>1
  <2>2. ASSUME NEW i \in Nat \ {0}, y = x + i PROVE x * p < y * p
    <3>1. i * p \in Nat \ {0} /\ x * p \in Nat
      OBVIOUS
    <3>2. (x + i) * p = x * p + i * p
      OBVIOUS
    <3> QED  BY <2>2, <3>1, <3>2
  <2> QED  BY <2>1, <2>2
<1>2. a < b \/ a = b \/ b < a
  OBVIOUS
<1>3. a * p \in Nat /\ b * p \in Nat
  OBVIOUS
<1>4. (a < b => a * p < b * p) /\ (b < a => b * p < a * p)
  BY <1>1
<1> QED  BY <1>2, <1>3, <1>4

\* A number rounded up is printed as a whole number.
LEMMA CeilPrinted ==
  ASSUME NEW a \in Nat, NEW n \in Nat
  PROVE  LET text == toString(ceil([atomics |-> a, fractionalDigits |-> n]))
         IN /\ text.fraction = <<>> /\ ValueOf(text.whole) \in Nat
            /\ a <= ValueOf(text.whole) * Power(10, n)
            /\ ValueOf(text.whole) * Power(10, n) < a + Power(10, n)
<1> DEFINE F == Power(10, n)
           c == IF a % F = 0 THEN a ELSE (a \div F + 1) * F
           text == toString([atomics |-> c, fractionalDigits |-> n])
<1>1. F \in Nat \ {0}
  BY PowerPositive
<1>2. a \div F \in Nat /\ a % F \in 0..(F - 1) /\ a = F * (a \div F) + (a % F)
  BY <1>1, Division
<1>3. PICK k \in Nat : c = k * F /\ a <= c /\ c < a + F
  <2>1. CASE a % F = 0
    <3>1. c = a /\ a = (a \div F) * F
      BY <1>1, <1>2, <2>1
    <3> HIDE DEF c, F
    <3>2. c = (a \div F) * F /\ a <= c /\ c < a + F
      BY <1>1, <3>1
    <3> QED  BY <1>2, <3>2
  <2>2. CASE a % F # 0
    <3>1. c = (a \div F + 1) * F
      BY <2>2
    <3> HIDE DEF c, F
    <3>2. (a \div F + 1) * F = F * (a \div F) + F /\ F * (a \div F) \in Nat
      BY <1>1, <1>2
    <3>3. a <= c /\ c < a + F
      BY <1>1, <1>2, <2>2, <3>1, <3>2
    <3> QED  BY <1>2, <3>1, <3>3
  <2> QED  BY <2>1, <2>2
<1>4. ceil([atomics |-> a, fractionalDigits |-> n]) = [atomics |-> c, fractionalDigits |-> n]
  BY DEF ceil
<1> HIDE DEF c
<1>5. c \in Nat /\ c % F = 0
  <2> HIDE DEF F
  <2>1. c \in Nat
    BY <1>1, <1>3
  <2>2. \A m \in Nat : (m * F) % F = 0
    <3> SUFFICES ASSUME NEW m \in Nat PROVE (m * F) % F = 0
      OBVIOUS
    <3> DEFINE b == m * F
               q == b \div F
               r == b % F
    <3>1. b \in Nat
      BY <1>1
    <3>2. q \in Nat /\ r \in 0..(F - 1) /\ b = F * q + r
      BY <1>1, <3>1, Division
    <3>3. r = F * m - F * q
      <4>1. b = F * m /\ F * m \in Nat /\ F * q \in Nat
        BY <1>1, <3>2
      <4> HIDE DEF b, q, r
      <4> QED  BY <1>1, <3>2, <4>1
    <3>4. r = 0
      <4> HIDE DEF b, q, r
      <4>1. m * F <= q * F + r /\ q * F <= m * F
        BY <1>1, <3>2, <3>3
      <4>2. q <= m
        BY <1>1, <3>2, <4>1, MultiplyOrder
      <4>3. m < q + 1
        <5>1. (q + 1) * F = q * F + F /\ m * F \in Nat /\ q * F \in Nat
          BY <1>1, <3>2
        <5>2. m * F < (q + 1) * F
          BY <1>1, <3>2, <4>1, <5>1
        <5> QED  BY <1>1, <3>2, <5>2, MultiplyOrder
      <4>4. m = q
        BY <3>2, <4>2, <4>3
      <4> QED  BY <1>1, <3>2, <3>3, <4>4
    <3> QED  BY <3>4
  <2> QED  BY <1>3, <2>1, <2>2
<1>6. /\ text \in Texts /\ text.fraction = <<>>
      /\ c * Power(10, Len(text.fraction)) = ValueOf(text.whole \o text.fraction) * Power(10, n)
  BY <1>5, PrintedText
<1> HIDE DEF text
<1>7. ValueOf(text.whole) \in Nat /\ text.whole \o text.fraction = text.whole
  <2>1. text.whole \in Seq(Digit)
    BY <1>6 DEF Texts
  <2> QED  BY <1>6, <2>1, ValueOfConcat, ConcatEmptySeq
<1>8. c = ValueOf(text.whole) * F
  <2>1. Power(10, Len(text.fraction)) = 1
    BY <1>6, PowerOfZero
  <2> QED  BY <1>5, <1>6, <1>7, <2>1
<1> HIDE DEF F
<1> QED  BY <1>3, <1>4, <1>6, <1>7, <1>8 DEF text, F

\* A whole amount bounded at the scale of a price is bounded at another scale.
LEMMA SameFee ==
  ASSUME NEW a \in Nat, NEW g \in Nat, NEW k \in Nat, NEW t \in Nat, NEW s \in Nat \ {0}, NEW f \in Nat \ {0},
         a * s = t * f, a * g <= k * f, k * f < a * g + f
  PROVE  k * s >= t * g /\ k * s < t * g + s
<1> DEFINE p == k * s
           q == t * g
           u == k * f
           v == a * g
<1>1. p \in Nat /\ q \in Nat /\ u \in Nat /\ v \in Nat /\ s \in Nat /\ q + s \in Nat /\ v + f \in Nat
  OBVIOUS
<1>2. v * s = q * f /\ u * s = p * f
  <2>1. (a * g) * s = (a * s) * g /\ (t * g) * f = (t * f) * g /\ (k * f) * s = (k * s) * f
    OBVIOUS
  <2> QED  BY <2>1
<1>3. (v + f) * s = (q + s) * f
  <2>1. (v + f) * s = v * s + f * s /\ (q + s) * f = q * f + s * f /\ f * s = s * f
    BY <1>1
  <2> QED  BY <1>2, <2>1
<1>4. v <= u /\ u < v + f
  OBVIOUS
<1> HIDE DEF p, q, u, v
<1>5. v * s <= u * s /\ u * s < (v + f) * s
  BY <1>1, <1>4, MultiplyOrder
<1>6. q * f <= p * f /\ p * f < (q + s) * f
  BY <1>2, <1>3, <1>5
<1>7. q <= p /\ p < q + s
  BY <1>1, <1>6, MultiplyOrder
<1> QED  BY <1>1, <1>7 DEF p, q

\* A quotient and a remainder that fit are those of the division.
LEMMA UniqueDivision ==
  ASSUME NEW q \in Nat, NEW p \in Nat \ {0}, NEW r \in 0..(p - 1)
  PROVE  (q * p + r) \div p = q /\ (q * p + r) % p = r
<1> DEFINE b == q * p + r
           u == b \div p
           v == b % p
<1>1. b \in Nat
  OBVIOUS
<1>2. u \in Nat /\ v \in 0..(p - 1) /\ b = p * u + v
  BY <1>1, Division
<1>3. q * p + r = u * p + v
  <2>1. p * u = u * p
    BY <1>2
  <2> QED  BY <1>2, <2>1
<1> HIDE DEF u, v
<1>4. (q + 1) * p = q * p + p /\ (u + 1) * p = u * p + p /\ q * p \in Nat /\ u * p \in Nat
  BY <1>2
<1>5. q * p < (u + 1) * p /\ u * p < (q + 1) * p
  BY <1>2, <1>3, <1>4
<1>6. q < u + 1 /\ u < q + 1
  BY <1>2, <1>5, MultiplyOrder
<1>7. u = q
  BY <1>2, <1>6
<1>8. v = r
  BY <1>2, <1>3, <1>4, <1>7
<1> QED  BY <1>7, <1>8 DEF u, v

\* A sequence is what comes before a place and what comes after it.
LEMMA Split ==
  ASSUME NEW S, NEW d \in Seq(S), NEW j \in 0..Len(d)
  PROVE  LET before == SubSeq(d, 1, j)
             after  == SubSeq(d, j + 1, Len(d))
         IN /\ before \in Seq(S) /\ Len(before) = j /\ \A i \in 1..j : before[i] = d[i]
            /\ after \in Seq(S) /\ Len(after) = Len(d) - j /\ \A i \in 1..(Len(d) - j) : after[i] = d[j + i]
            /\ d = before \o after
<1> DEFINE n == Len(d)
           a == SubSeq(d, 1, j)
           b == SubSeq(d, j + 1, n)
<1>1. n \in Nat /\ \A i \in 1..n : d[i] \in S
  BY LenProperties, ElementOfSeq
<1>2. a \in Seq(S) /\ Len(a) = j /\ \A i \in 1..j : a[i] = d[i]
  <2>1. 1 \in Int /\ j \in Int /\ \A i \in 1..j : d[i] \in S
    BY <1>1
  <2>2. a \in Seq(S) /\ Len(a) = (IF 1 <= j THEN j - 1 + 1 ELSE 0) /\ \A i \in 1..(j - 1 + 1) : a[i] = d[1 + i - 1]
    BY <2>1, SubSeqProperties
  <2> HIDE DEF a
  <2>3. j - 1 + 1 = j /\ (IF 1 <= j THEN j - 1 + 1 ELSE 0) = j /\ \A i \in 1..j : 1 + i - 1 = i
    BY <1>1
  <2> QED  BY <2>2, <2>3
<1>3. b \in Seq(S) /\ Len(b) = n - j /\ \A i \in 1..(n - j) : b[i] = d[j + i]
  <2>1. j + 1 \in Int /\ n \in Int /\ \A i \in (j + 1)..n : d[i] \in S
    BY <1>1
  <2>2. /\ b \in Seq(S) /\ Len(b) = (IF j + 1 <= n THEN n - (j + 1) + 1 ELSE 0)
        /\ \A i \in 1..(n - (j + 1) + 1) : b[i] = d[(j + 1) + i - 1]
    BY <2>1, SubSeqProperties
  <2> HIDE DEF b
  <2>3. /\ n - (j + 1) + 1 = n - j /\ (IF j + 1 <= n THEN n - (j + 1) + 1 ELSE 0) = n - j
        /\ \A i \in 1..(n - j) : (j + 1) + i - 1 = j + i
    BY <1>1
  <2> QED  BY <2>2, <2>3
<1> HIDE DEF a, b
<1>4. /\ a \o b \in Seq(S) /\ Len(a \o b) = Len(a) + Len(b)
      /\ \A i \in 1..(Len(a) + Len(b)) : (a \o b)[i] = IF i <= Len(a) THEN a[i] ELSE b[i - Len(a)]
  BY <1>2, <1>3, ConcatProperties
<1>5. Len(a) + Len(b) = n
  BY <1>1, <1>2, <1>3
<1>6. ASSUME NEW i \in 1..n PROVE (a \o b)[i] = d[i]
  <2>1. CASE i <= j
    <3>1. i \in 1..j
      BY <2>1
    <3> QED  BY <1>2, <1>4, <1>5, <3>1
  <2>2. CASE ~(i <= j)
    <3>1. i - j \in 1..(n - j) /\ j + (i - j) = i
      BY <1>1, <2>2
    <3> QED  BY <1>2, <1>3, <1>4, <1>5, <2>2, <3>1
  <2> QED  BY <2>1, <2>2
<1>7. d = a \o b
  BY <1>4, <1>5, <1>6, SeqEqual
<1> QED  BY <1>2, <1>3, <1>7 DEF a, b

\* What one digit of a number is.
LEMMA DigitAt ==
  ASSUME NEW base \in Nat \ {0}, NEW d \in Seq(0..(base - 1)), NEW j \in 1..Len(d)
  PROVE  (Number(base, d) \div Power(base, Len(d) - j)) % base = d[j]
<1> DEFINE D == 0..(base - 1)
           n == Len(d)
           a == SubSeq(d, 1, j)
           b == SubSeq(d, j + 1, n)
           c == SubSeq(a, 1, j - 1)
           e == SubSeq(a, j, j)
           p == Power(base, n - j)
<1>1. n \in Nat /\ j \in Nat /\ j \in 0..n /\ n - j \in Nat /\ j - 1 \in Nat
  BY LenProperties
<1>2. /\ a \in Seq(D) /\ Len(a) = j /\ \A i \in 1..j : a[i] = d[i]
      /\ b \in Seq(D) /\ Len(b) = n - j /\ d = a \o b
  <2>1. d \in Seq(D) /\ j \in 0..Len(d)
    BY <1>1
  <2>2. n - j = Len(d) - j
    OBVIOUS
  <2> HIDE DEF D
  <2>3. /\ SubSeq(d, 1, j) \in Seq(D) /\ Len(SubSeq(d, 1, j)) = j
        /\ \A i \in 1..j : SubSeq(d, 1, j)[i] = d[i]
        /\ SubSeq(d, j + 1, Len(d)) \in Seq(D) /\ Len(SubSeq(d, j + 1, Len(d))) = Len(d) - j
        /\ d = SubSeq(d, 1, j) \o SubSeq(d, j + 1, Len(d))
    <3> HIDE DEF n, a, b
    <3> QED  BY <2>1, Split
  <2> QED  BY <2>2, <2>3
<1> HIDE DEF b, D
<1>3. d[j] \in D /\ D \subseteq Nat
  BY <1>1, ElementOfSeq DEF D
<1>4. c \in Seq(D) /\ a = Append(c, d[j])
  <2>1. j - 1 \in 0..Len(a) /\ (j - 1) + 1 = j
    BY <1>1, <1>2
  <2> HIDE DEF a
  <2>2. c \in Seq(D) /\ Len(c) = j - 1 /\ \A i \in 1..(j - 1) : c[i] = a[i]
    BY <1>2, <2>1, Split
  <2> HIDE DEF c
  <2>3. /\ Append(c, d[j]) \in Seq(D) /\ Len(Append(c, d[j])) = j /\ Append(c, d[j])[j] = d[j]
        /\ \A i \in 1..(j - 1) : Append(c, d[j])[i] = c[i]
    BY <1>3, <2>1, <2>2, AppendProperties
  <2>4. ASSUME NEW i \in 1..j PROVE a[i] = Append(c, d[j])[i]
    <3>1. i = j \/ i \in 1..(j - 1)
      BY <1>1
    <3> QED  BY <1>2, <2>2, <2>3, <3>1
  <2> QED  BY <1>2, <2>2, <2>3, <2>4, SeqEqual
<1> HIDE DEF a, c, n
<1>5. a \in Seq(Nat) /\ b \in Seq(Nat) /\ c \in Seq(Nat) /\ base \in Nat
  BY <1>2, <1>3, <1>4, SeqMonotonic
<1>6. Number(base, d) = Number(base, a) * p + Number(base, b)
  BY <1>2, <1>5, NumberOfConcat
<1>7. Number(base, b) \in 0..(p - 1) /\ p \in Nat \ {0} /\ Number(base, a) \in Nat
  <2>1. Number(base, b) \in Nat /\ Number(base, b) < Power(base, Len(b))
    BY <1>2, NumberBelow DEF D
  <2>2. p \in Nat \ {0}
    BY <1>1, PowerPositive
  <2>3. Number(base, a) \in Nat
    BY <1>5, NumberType
  <2> QED  BY <1>2, <2>1, <2>2, <2>3
<1>8. Number(base, d) \div p = Number(base, a)
  <2> HIDE DEF p
  <2>1. (Number(base, a) * p + Number(base, b)) \div p = Number(base, a)
    BY <1>7, UniqueDivision, Zenon
  <2> QED  BY <1>6, <2>1
<1>9. Number(base, a) = base * Number(base, c) + d[j] /\ Number(base, c) \in Nat
  BY <1>3, <1>4, <1>5, NumberOfAppend, NumberType
<1>10. Number(base, a) = Number(base, c) * base + d[j]
  BY <1>3, <1>9
<1>11. Number(base, a) % base = d[j]
  <2>1. d[j] \in 0..(base - 1)
    BY <1>3 DEF D
  <2>2. (Number(base, c) * base + d[j]) % base = d[j]
    BY <1>9, <2>1, UniqueDivision, Zenon
  <2> QED  BY <1>10, <2>2
<1> QED  BY <1>8, <1>11 DEF n

\* The numbers with v digits.
WithDigits(base, v) ==
  \A y \in Nat : y < Power(base, v) => \E d \in Seq(0..(base - 1)) : Len(d) = v /\ Number(base, d) = y

LEMMA OneMoreDigit ==
  ASSUME NEW base \in Nat \ {0}, NEW v \in Nat, WithDigits(base, v)
  PROVE  WithDigits(base, v + 1)
<1> DEFINE D == 0..(base - 1)
<1> SUFFICES ASSUME NEW y \in Nat, y < Power(base, v + 1)
             PROVE  \E d \in Seq(D) : Len(d) = v + 1 /\ Number(base, d) = y
  BY DEF WithDigits
<1> DEFINE q == y \div base
           r == y % base
           p == Power(base, v)
<1>1. q \in Nat /\ r \in D /\ r \in Nat /\ y = base * q + r
  <2>1. q \in Nat /\ r \in D /\ y = base * q + r
    BY Division
  <2> QED  BY <2>1
<1>2. p \in Nat /\ Power(base, v + 1) = base * p
  BY PowerOfNext, PowerType
<1> HIDE DEF q, r, p
<1>3. q < p
  <2>1. q * base \in Nat /\ p * base \in Nat /\ q * base = base * q /\ p * base = base * p
    BY <1>1, <1>2
  <2>2. q * base < p * base
    BY <1>1, <1>2, <2>1
  <2> QED  BY <1>1, <1>2, <2>2, MultiplyOrder
<1>4. PICK d \in Seq(D) : Len(d) = v /\ Number(base, d) = q
  BY <1>1, <1>3 DEF WithDigits, p
<1>5. Append(d, r) \in Seq(D) /\ Len(Append(d, r)) = v + 1
  BY <1>1, <1>4, AppendProperties
<1>6. d \in Seq(Nat)
  <2>1. D \subseteq Nat
    OBVIOUS
  <2> HIDE DEF D
  <2> QED  BY <2>1, SeqMonotonic
<1>7. Number(base, Append(d, r)) = y
  BY <1>1, <1>4, <1>6, NumberOfAppend
<1> QED  BY <1>5, <1>7

\* Every number below a power has that many digits.
LEMMA HasDigits ==
  ASSUME NEW base \in Nat \ {0}, NEW w \in Nat, NEW x \in Nat, x < Power(base, w)
  PROVE  \E d \in Seq(0..(base - 1)) : Len(d) = w /\ Number(base, d) = x
<1> DEFINE P == {v \in Nat : WithDigits(base, v)}
<1>1. 0 \in P
  <2> SUFFICES ASSUME NEW y \in Nat, y < Power(base, 0)
               PROVE  \E d \in Seq(0..(base - 1)) : Len(d) = 0 /\ Number(base, d) = y
    BY DEF WithDigits
  <2>1. y = 0
    BY PowerOfZero
  <2>2. <<>> \in Seq(0..(base - 1)) /\ Len(<<>>) = 0 /\ Number(base, <<>>) = 0
    BY EmptySeq, NumberOfNothing
  <2> QED  BY <2>1, <2>2
<1>2. ASSUME NEW v \in P PROVE v + 1 \in P
  BY OneMoreDigit
<1>3. P = Nat
  <2> HIDE DEF P
  <2>1. P \subseteq Nat
    BY DEF P
  <2> QED  BY <1>1, <1>2, <2>1, Induction
<1> QED  BY <1>3 DEF WithDigits

\* The place of the j-th element of the k-th group, and back.
LEMMA PlaceInGroup ==
  ASSUME NEW w \in Nat \ {0}, NEW m \in Nat, NEW k \in 1..m, NEW j \in 1..w
  PROVE  LET i == (k - 1) * w + j
         IN i \in 1..(w * m) /\ (i - 1) \div w = k - 1 /\ (i - 1) % w = j - 1
<1> DEFINE h == k - 1
<1>1. h \in Nat /\ h + 1 <= m /\ j - 1 \in 0..(w - 1)
  OBVIOUS
<1> HIDE DEF h
<1>2. (h * w + (j - 1)) \div w = h /\ (h * w + (j - 1)) % w = j - 1
  BY <1>1, UniqueDivision
<1>3. h * w \in Nat /\ m * w \in Nat /\ m * w = w * m /\ (h + 1) * w = h * w + w
  BY <1>1
<1>4. (h + 1) * w <= m * w
  BY <1>1, MultiplyOrder
<1>5. h * w + j \in 1..(w * m) /\ (h * w + j) - 1 = h * w + (j - 1)
  BY <1>1, <1>3, <1>4
<1> QED  BY <1>2, <1>5 DEF h

LEMMA GroupOfPlace ==
  ASSUME NEW w \in Nat \ {0}, NEW m \in Nat, NEW i \in 1..(w * m)
  PROVE  LET k == (i - 1) \div w + 1
             j == ((i - 1) % w) + 1
         IN k \in 1..m /\ j \in 1..w /\ i = (k - 1) * w + j
<1> DEFINE q == (i - 1) \div w
           r == (i - 1) % w
<1>1. i - 1 \in Nat /\ i <= w * m /\ w * m \in Nat
  OBVIOUS
<1>2. q \in Nat /\ r \in 0..(w - 1) /\ i - 1 = w * q + r
  BY <1>1, Division
<1> HIDE DEF q, r
<1>3. w * q = q * w /\ w * m = m * w /\ q * w \in Nat
  BY <1>2
<1>4. q * w < m * w
  BY <1>1, <1>2, <1>3
<1>5. q < m
  BY <1>2, <1>4, MultiplyOrder
<1>6. i = q * w + (r + 1) /\ (q + 1) - 1 = q
  BY <1>1, <1>2, <1>3
<1> QED  BY <1>2, <1>5, <1>6 DEF q, r

\* The two parts of a sequence that was put together.
LEMMA PartsOfConcat ==
  ASSUME NEW S, NEW a \in Seq(S), NEW b \in Seq(S)
  PROVE  /\ a \o b \in Seq(S) /\ Len(a \o b) = Len(a) + Len(b)
         /\ SubSeq(a \o b, 1, Len(a)) = a
         /\ SubSeq(a \o b, Len(a) + 1, Len(a \o b)) = b
<1> DEFINE d == a \o b
           x == SubSeq(d, 1, Len(a))
           y == SubSeq(d, Len(a) + 1, Len(d))
<1>1. /\ d \in Seq(S) /\ Len(d) = Len(a) + Len(b) /\ Len(a) \in Nat /\ Len(b) \in Nat
      /\ \A i \in 1..(Len(a) + Len(b)) : d[i] = IF i <= Len(a) THEN a[i] ELSE b[i - Len(a)]
  BY ConcatProperties, LenProperties
<1> HIDE DEF d
<1>2. Len(a) \in 0..Len(d)
  BY <1>1
<1>3. /\ x \in Seq(S) /\ Len(x) = Len(a) /\ \A i \in 1..Len(a) : x[i] = d[i]
      /\ y \in Seq(S) /\ Len(y) = Len(d) - Len(a) /\ \A i \in 1..(Len(d) - Len(a)) : y[i] = d[Len(a) + i]
  BY <1>1, <1>2, Split
<1> HIDE DEF x, y
<1>4. x = a
  BY <1>1, <1>3, SeqEqual
<1>5. Len(d) - Len(a) = Len(b) /\ \A i \in 1..Len(b) :
        Len(a) + i \in 1..(Len(a) + Len(b)) /\ ~(Len(a) + i <= Len(a)) /\ (Len(a) + i) - Len(a) = i
  BY <1>1
<1>6. \A i \in 1..Len(b) : y[i] = b[i]
  BY <1>1, <1>3, <1>5
<1>7. y = b
  BY <1>3, <1>5, <1>6, SeqEqual
<1> QED  BY <1>1, <1>4, <1>7 DEF x, y, d
-----------------------------------------------------------------------------
(* The digits of an amount, and what is printed of it.                        *)
LEMMA Zero == DigitsOf(0) = <<0>>
<1>1. 10 \in Nat \ {0, 1} /\ 0 \in Nat /\ 0 \in 0..0 /\ 0 < 10
  OBVIOUS
<1>2. PICK f \in [0..0 -> Seq(0..(10 - 1))] :
        (\A k \in 0..0 : Extends(f, 10, k)) /\ Numeral(10, 0) = f[0]
  BY <1>1, NumeralFollows
<1>3. Extends(f, 10, 0)
  BY <1>1, <1>2
<1>4. f[0] = <<0>>
  BY <1>1, <1>3 DEF Extends
<1> QED  BY <1>2, <1>4 DEF DigitsOf

\* The digits of an amount with all of its fractional ones.
AllDigits(a, n) == Text(DigitsOf(a \div Power(10, n)), PadStart(DigitsOf(a % Power(10, n)), n))

LEMMA FractionDigits ==
  ASSUME NEW a \in Nat, NEW n \in Nat \ {0}
  PROVE  LET F == Power(10, n)
             p == PadStart(DigitsOf(a % F), n)
         IN /\ F \in Nat \ {0} /\ a \div F \in Nat /\ a % F \in 0..(F - 1) /\ a = F * (a \div F) + (a % F)
            /\ p \in Seq(Digit) /\ Len(p) = n /\ ValueOf(p) = a % F
<1> DEFINE F == Power(10, n)
           m == a % F
<1>1. F \in Nat \ {0}
  BY PowerPositive
<1>2. a \div F \in Nat /\ m \in 0..(F - 1) /\ a = F * (a \div F) + m
  BY <1>1, Division
<1>3. m \in Nat /\ m < F
  BY <1>1, <1>2
<1> HIDE DEF m
<1>4. DigitsOf(m) \in Seq(Digit) /\ ValueOf(DigitsOf(m)) = m /\ Len(DigitsOf(m)) <= n /\ Len(DigitsOf(m)) \in Nat
  BY <1>3, DigitsOfNumber, DigitsAreNumbers
<1>5. PadStart(DigitsOf(m), n) \in Seq(Digit) /\ ValueOf(PadStart(DigitsOf(m), n)) = m /\ Len(PadStart(DigitsOf(m), n)) = n
  BY <1>4, PadStartType
<1> QED  BY <1>1, <1>2, <1>5 DEF m

\* A printed amount, filled up with zeros, has all of its digits.
LEMMA PrintedAndPadded ==
  ASSUME NEW a \in Nat, NEW n \in Nat \ {0}
  PROVE  LET text == toString([atomics |-> a, fractionalDigits |-> n])
         IN /\ text.whole = DigitsOf(a \div Power(10, n))
            /\ text.dot <=> a % Power(10, n) # 0
            /\ Text(text.whole, PadEnd(text.fraction, n)) = AllDigits(a, n)
<1> DEFINE F == Power(10, n)
           m == a % F
           p == PadStart(DigitsOf(m), n)
           f == IF m = 0 THEN <<>> ELSE Trim(p)
           text == toString([atomics |-> a, fractionalDigits |-> n])
<1>1. text = [whole |-> DigitsOf(a \div F), dot |-> f # <<>>, fraction |-> f]
  BY DEF toString, Text
<1>5. AllDigits(a, n) = Text(DigitsOf(a \div F), p)
  BY DEF AllDigits
<1> HIDE DEF text
<1> SUFFICES /\ text.dot <=> m # 0
             /\ PadEnd(f, n) = p
  BY <1>1, <1>5 DEF text
<1>2. p \in Seq(Digit) /\ Len(p) = n /\ ValueOf(p) = m /\ m \in Nat
  BY FractionDigits
<1>3. CASE m = 0
  <2>1. f = <<>> /\ Len(f) = 0
    BY <1>3
  <2>2. p = Zeros(n - 1) \o <<0>>
    <3>1. p = PadStart(<<0>>, n) /\ Len(<<0>>) = 1
      BY <1>3, Zero
    <3>2. CASE n > 1
      BY <3>1, <3>2 DEF PadStart
    <3> HIDE DEF p
    <3>3. CASE n = 1
      <4>1. Zeros(n - 1) = <<>>
        BY <3>3 DEF Zeros
      <4>2. p = <<>> \o <<0>>
        BY <3>1, <3>3 DEF PadStart
      <4> QED  BY <4>1, <4>2
    <3> QED  BY <3>2, <3>3
  <2>3. PadEnd(f, n) = Zeros(n)
    <3>1. Zeros(n) \in Seq(Digit) /\ n - 0 = n /\ n > 0
      BY ZerosType
    <3>2. PadEnd(f, n) = <<>> \o Zeros(n)
      BY <2>1, <3>1 DEF PadEnd
    <3> QED  BY <3>1, <3>2, ConcatEmptySeq
  <2>4. Zeros(n - 1) \o <<0>> = Zeros(n)
    <3>1. /\ Zeros(n - 1) \in Seq(Nat) /\ Len(Zeros(n - 1)) = n - 1 /\ \A i \in 1..(n - 1) : Zeros(n - 1)[i] = 0
          /\ Zeros(n) \in Seq(Nat) /\ Len(Zeros(n)) = n /\ \A i \in 1..n : Zeros(n)[i] = 0
      BY ZerosType
    <3> DEFINE z == Zeros(n - 1)
    <3> HIDE DEF z
    <3>2. /\ z \o <<0>> \in Seq(Nat) /\ Len(z \o <<0>>) = n
          /\ \A i \in 1..n : (z \o <<0>>)[i] = 0
      BY <3>1 DEF z
    <3> QED  BY <3>1, <3>2, SeqEqual DEF z
  <2> HIDE DEF f, p, m
  <2> QED  BY <1>1, <1>3, <2>1, <2>2, <2>3, <2>4
<1>4. CASE m # 0
  <2>1. f = Trim(p)
    BY <1>4
  <2>2. f \in Seq(Digit) /\ Len(f) \in Nat /\ Len(f) <= n /\ p = f \o Zeros(n - Len(f))
        /\ ValueOf(p) = ValueOf(f) * Power(10, n - Len(f))
    BY <1>2, <2>1, TrimType, DigitsAreNumbers
  <2> HIDE DEF f, p, m
  <2>3. f # <<>>
    <3> SUFFICES ASSUME f = <<>> PROVE FALSE
      OBVIOUS
    <3>1. ValueOf(f) = 0
      BY NumberOfNothing DEF ValueOf
    <3>2. n - Len(f) \in Nat
      BY <2>2
    <3>3. Power(10, n - Len(f)) \in Nat
      BY <3>2, PowerType
    <3> QED  BY <1>2, <1>4, <2>2, <3>1, <3>3
  <2>4. PadEnd(f, n) = p
    <3>1. CASE n > Len(f)
      BY <2>2, <3>1 DEF PadEnd
    <3>2. CASE n = Len(f)
      <4>1. Zeros(n - Len(f)) = <<>>
        BY <2>2, <3>2 DEF Zeros
      <4> QED  BY <2>2, <3>2, <4>1 DEF PadEnd
    <3> QED  BY <2>2, <3>1, <3>2
  <2> QED  BY <1>1, <1>4, <2>3, <2>4
<1> QED  BY <1>3, <1>4

\* An amount with all of its digits is read as the same.
LEMMA AllDigitsAreRead ==
  ASSUME NEW a \in Nat, NEW n \in Nat \ {0}
  PROVE  fromUserInput(AllDigits(a, n), n) = {[atomics |-> a, fractionalDigits |-> n]}
<1> DEFINE F == Power(10, n)
           p == PadStart(DigitsOf(a % F), n)
           w == DigitsOf(a \div F)
           text == AllDigits(a, n)
<1>1. /\ F \in Nat \ {0} /\ a \div F \in Nat /\ a % F \in Nat /\ a = F * (a \div F) + (a % F)
      /\ p \in Seq(Digit) /\ Len(p) = n /\ ValueOf(p) = a % F
  BY FractionDigits
<1>2. w \in Seq(Digit) /\ w # <<>> /\ ValueOf(w) = a \div F
  BY <1>1, DigitsOfNumber
<1>3. p # <<>>
  BY <1>1
<1> HIDE DEF p, w, F
<1>4. text = [whole |-> w, dot |-> TRUE, fraction |-> p]
  BY <1>3 DEF AllDigits, Text, p, w, F
<1> HIDE DEF text
<1>5. text \in Texts
  BY <1>1, <1>2, <1>4 DEF Texts
<1>6. ValueOf(w \o p) = a
  <2>1. ValueOf(w \o p) = (a \div F) * F + (a % F)
    BY <1>1, <1>2, ValueOfConcat DEF F
  <2> QED  BY <1>1, <2>1
<1>7. fromUserInput(text, n) # {}
  <2> DEFINE t == Trim(p)
             e == PadEnd(t, n)
  <2>1. t \in Seq(Digit) /\ Len(t) \in Nat /\ Len(t) <= n
    BY <1>1, TrimType, DigitsAreNumbers
  <2>2. e \in Seq(Digit)
    BY <2>1, PadEndType
  <2>3. w \o e # <<>>
    <3>1. Len(w) \in Nat /\ Len(w) # 0 /\ Len(e) \in Nat
      BY <1>2, <2>2, EmptySeq, DigitsAreNumbers
    <3>2. Len(w \o e) = Len(w) + Len(e)
      BY <1>2, <2>2, ConcatProperties
    <3>3. Len(<<>>) = 0
      OBVIOUS
    <3> HIDE DEF e
    <3> QED  BY <3>1, <3>2, <3>3
  <2> HIDE DEF e
  <2>4. fromUserInput(text, n) = {[atomics |-> ValueOf(w \o e), fractionalDigits |-> n]}
    BY <1>3, <1>4, <2>1, <2>3 DEF fromUserInput, e
  <2> QED  BY <2>4
<1>8. PICK x \in fromUserInput(text, n) : TRUE
  BY <1>7
<1>9. /\ fromUserInput(text, n) = {x} /\ x.atomics \in Nat /\ x = [atomics |-> x.atomics, fractionalDigits |-> n]
      /\ x.atomics * Power(10, Len(text.fraction)) = ValueOf(text.whole \o text.fraction) * Power(10, n)
  BY <1>5, ParsedValue
<1>10. x.atomics = a
  BY <1>1, <1>4, <1>6, <1>9, Cancel DEF F
<1> QED  BY <1>9, <1>10 DEF text

\* Quotient and remainder of an integer, of whatever sign.
LEMMA SignedDivision ==
  ASSUME NEW q \in Int, NEW p \in Nat \ {0}, NEW r \in 0..(p - 1)
  PROVE  (q * p + r) \div p = q /\ (q * p + r) % p = r
<1> DEFINE b == q * p + r
           u == b \div p
           v == b % p
<1>1. b \in Int
  OBVIOUS
<1> HIDE DEF b
<1>2. u \in Int /\ v \in 0..(p - 1) /\ b = p * u + v
  BY <1>1
<1> HIDE DEF u, v
<1>3. b = q * p + r
  BY DEF b
<1>4. (q - u) * p = v - r
  <2>1. (q - u) * p = q * p - u * p /\ p * u = u * p
    BY <1>2
  <2> QED  BY <1>2, <1>3, <2>1
<1>5. q - u = 0
  <2>1. CASE q - u >= 1
    <3>1. (q - u) * p >= p
      BY <1>2, <2>1
    <3> QED  BY <1>2, <1>4, <3>1
  <2>2. CASE q - u <= -1
    <3>1. (q - u) * p <= -p
      BY <1>2, <2>2
    <3> QED  BY <1>2, <1>4, <3>1
  <2> QED  BY <1>2, <2>1, <2>2
<1>6. q = u /\ v = r
  BY <1>2, <1>4, <1>5
<1> QED  BY <1>6 DEF u, v, b

\* Powers of ten, as the lemmas below use them.
LEMMA PowersOfTen ==
  \A m, n \in Nat : /\ Power(10, m) \in Nat \ {0} /\ Power(10, m) \in Nat
                   /\ Power(10, m + n) = Power(10, m) * Power(10, n)
<1> SUFFICES ASSUME NEW m \in Nat, NEW n \in Nat
             PROVE  Power(10, m) \in Nat \ {0} /\ Power(10, m + n) = Power(10, m) * Power(10, n)
  OBVIOUS
<1>1. 10 \in Nat \ {0} /\ 10 \in Nat
  OBVIOUS
<1>2. Power(10, m) \in Nat \ {0}
  BY <1>1, PowerPositive, Zenon
<1>3. Power(10, m + n) = Power(10, m) * Power(10, n)
  BY <1>1, PowerOfSum, Zenon
<1> QED  BY <1>2, <1>3

\* Digits stand for less than the power of ten of their number.
LEMMA ValueBelow ==
  \A d \in Seq(Digit) : ValueOf(d) \in Nat /\ ValueOf(d) < Power(10, Len(d))
<1> SUFFICES ASSUME NEW d \in Seq(Digit) PROVE ValueOf(d) \in Nat /\ ValueOf(d) < Power(10, Len(d))
  OBVIOUS
<1>1. 10 \in Nat \ {0} /\ Digit = 0..(10 - 1)
  BY DEF Digit
<1>2. d \in Seq(0..(10 - 1))
  BY <1>1
<1> QED  BY <1>1, <1>2, NumberBelow, Zenon DEF ValueOf

\* A fraction of m + n digits: the first m and the others.
LEMMA FractionParts ==
  ASSUME NEW f \in Seq(Digit), NEW m \in Nat \ {0}, NEW n \in Nat \ {0}, Len(f) <= m + n
  PROVE  LET v == ValueOf(PadEnd(f, m + n))
             rest == SubSeq(f, m + 1, Len(f))
         IN /\ v \in 0..(Power(10, m) * Power(10, n) - 1)
            /\ ValueOf(SubSeq(PadEnd(f, m), 1, m)) = v \div Power(10, n)
            /\ ValueOf(PadEnd(rest, n)) = v % Power(10, n)
            /\ Len(f) <= m => ValueOf(PadEnd(<<>>, n)) = v % Power(10, n)
<1> DEFINE P == Power(10, n)
           v == ValueOf(PadEnd(f, m + n))
           l == Len(f)
           rest == SubSeq(f, m + 1, l)
           a == ValueOf(SubSeq(PadEnd(f, m), 1, m))
<1>1. l \in Nat /\ f \in Seq(Nat)
  BY DigitsAreNumbers
<1>2. P \in Nat \ {0} /\ Power(10, m) \in Nat \ {0} /\ Power(10, m + n) = Power(10, m) * P
  BY PowersOfTen
<1>3. v \in 0..(Power(10, m) * P - 1)
  <2>1. PadEnd(f, m + n) \in Seq(Digit) /\ Len(PadEnd(f, m + n)) = m + n
    BY PadEndType
  <2>2. v \in Nat /\ v < Power(10, m + n)
    BY <2>1, ValueBelow
  <2> QED  BY <1>2, <2>2
<1>4. v = ValueOf(f) * Power(10, m + n - l) /\ ValueOf(f) \in Nat
  BY <1>1, PadEndType, NumberType DEF ValueOf
<1>5. ValueOf(PadEnd(<<>>, n)) = 0
  <2>1. <<>> \in Seq(Digit) /\ Len(<<>>) = 0 /\ 0 <= n /\ n - 0 = n
    OBVIOUS
  <2>2. ValueOf(PadEnd(<<>>, n)) = ValueOf(<<>>) * Power(10, n - 0)
    BY <2>1, PadEndType
  <2> QED  BY <1>2, <2>1, <2>2, NumberOfNothing DEF ValueOf
<1>6. CASE l <= m
  <2> DEFINE e == PadEnd(f, m)
  <2>1. e \in Seq(Digit) /\ Len(e) = m /\ ValueOf(e) = ValueOf(f) * Power(10, m - l)
    BY <1>1, <1>6, PadEndType
  <2>2. SubSeq(e, 1, m) = e
    BY <2>1, SubSeqFull
  <2>3. Power(10, m + n - l) = Power(10, m - l) * P /\ Power(10, m - l) \in Nat
    <3>1. m - l \in Nat /\ m + n - l = (m - l) + n
      BY <1>1, <1>6
    <3> QED  BY <3>1, PowersOfTen
  <2>4. v = ValueOf(e) * P + 0
    BY <1>2, <1>4, <2>1, <2>3
  <2>5. ValueOf(e) \in Nat
    BY <1>4, <2>1, <2>3
  <2>6. v \div P = ValueOf(e) /\ v % P = 0
    <3>1. 0 \in 0..(P - 1)
      BY <1>2
    <3> HIDE DEF v, e, P
    <3> QED  BY <1>2, <2>4, <2>5, <3>1, UniqueDivision
  <2>7. rest = <<>>
    BY <1>1, <1>6
  <2> QED  BY <1>3, <1>5, <2>2, <2>6, <2>7
<1>7. CASE l > m
  <2> DEFINE b == SubSeq(f, 1, m)
             k == n - (l - m)
  <2>1. m \in 0..l /\ k \in Nat /\ m + n - l = k /\ l - m \in Nat
    BY <1>1, <1>7
  <2>2. /\ b \in Seq(Digit) /\ Len(b) = m /\ rest \in Seq(Digit) /\ Len(rest) = l - m
        /\ f = b \o rest
    BY <2>1, Split
  <2>3. PadEnd(f, m) = f
    BY <1>1, <1>7, ConcatEmptySeq DEF PadEnd
  <2> HIDE DEF b, rest
  <2>4. /\ ValueOf(f) = ValueOf(b) * Power(10, l - m) + ValueOf(rest)
        /\ ValueOf(b) \in Nat /\ ValueOf(rest) \in Nat
    <3>1. ValueOf(b \o rest) = ValueOf(b) * Power(10, Len(rest)) + ValueOf(rest)
      BY <2>2, ValueOfConcat, Zenon
    <3> QED  BY <2>2, <3>1, ValueBelow
  <2> DEFINE r == ValueOf(rest) * Power(10, k)
  <2>5. /\ PadEnd(rest, n) \in Seq(Digit) /\ Len(PadEnd(rest, n)) = n /\ ValueOf(PadEnd(rest, n)) = r
    <3>1. n \in Nat /\ l - m <= n /\ Len(rest) <= n /\ n - Len(rest) = k
      BY <1>1, <2>2
    <3> HIDE DEF k
    <3>2. /\ PadEnd(rest, n) \in Seq(Digit) /\ Len(PadEnd(rest, n)) = n
          /\ ValueOf(PadEnd(rest, n)) = ValueOf(rest) * Power(10, n - Len(rest))
      BY <2>2, <3>1, PadEndType, Zenon
    <3> QED  BY <3>1, <3>2
  <2>6. r \in 0..(P - 1)
    <3>1. ValueOf(PadEnd(rest, n)) \in Nat /\ ValueOf(PadEnd(rest, n)) < P
      BY <2>5, ValueBelow
    <3> QED  BY <1>2, <2>5, <3>1
  <2>7. P = Power(10, l - m) * Power(10, k) /\ Power(10, l - m) \in Nat /\ Power(10, k) \in Nat
    <3>1. (l - m) + k = n
      BY <1>1
    <3> QED  BY <2>1, <3>1, PowersOfTen
  <2>8. v = ValueOf(b) * P + r
    <3> DEFINE x == Power(10, l - m)
               y == Power(10, k)
               w == ValueOf(b)
               z == ValueOf(rest)
    <3>1. v = (w * x + z) * y /\ P = x * y /\ r = z * y
      BY <1>4, <2>1, <2>4, <2>7
    <3>2. w \in Nat /\ x \in Nat /\ y \in Nat /\ z \in Nat
      BY <2>4, <2>7
    <3> HIDE DEF x, y, w, z, P, v, r
    <3>3. (w * x + z) * y = w * (x * y) + z * y
      BY <3>2
    <3> QED  BY <3>1, <3>3 DEF w, r
  <2>9. v \div P = ValueOf(b) /\ v % P = r
    <3> HIDE DEF v, r, P
    <3> QED  BY <1>2, <2>4, <2>6, <2>8, UniqueDivision
  <2>10. a = ValueOf(b)
    BY <2>3 DEF b
  <2> HIDE DEF r
  <2> QED  BY <1>1, <1>3, <1>7, <2>5, <2>9, <2>10 DEF rest
<1> HIDE DEF v, P, l, rest, a
<1> QED  BY <1>1, <1>6, <1>7 DEF v, P, l, rest, a

\* A fraction put together of its two parts.
LEMMA JoinedFraction ==
  ASSUME NEW m \in Nat \ {0}, NEW n \in Nat \ {0}, NEW x \in 0..(Power(10, m) - 1), NEW y \in 0..(Power(10, n) - 1)
  PROVE  LET f == PadStart(DigitsOf(x), m) \o PadStart(DigitsOf(y), n)
         IN /\ f \in Seq(Digit) /\ Len(f) = m + n
            /\ ValueOf(PadEnd(f, m + n)) = x * Power(10, n) + y
<1>1. ASSUME NEW w \in Nat \ {0}, NEW z \in 0..(Power(10, w) - 1)
      PROVE  LET p == PadStart(DigitsOf(z), w) IN p \in Seq(Digit) /\ Len(p) = w /\ ValueOf(p) = z
  <2>1. Power(10, w) \in Nat
    BY PowerType
  <2>2. z \in Nat /\ z < Power(10, w)
    BY <2>1
  <2>3. DigitsOf(z) \in Seq(Digit) /\ ValueOf(DigitsOf(z)) = z /\ Len(DigitsOf(z)) <= w /\ Len(DigitsOf(z)) \in Nat
    BY <2>2, DigitsOfNumber, DigitsAreNumbers
  <2> QED  BY <2>3, PadStartType
<1> DEFINE a == PadStart(DigitsOf(x), m)
           b == PadStart(DigitsOf(y), n)
<1>2. a \in Seq(Digit) /\ Len(a) = m /\ ValueOf(a) = x /\ b \in Seq(Digit) /\ Len(b) = n /\ ValueOf(b) = y
  BY <1>1
<1> HIDE DEF a, b
<1>3. a \o b \in Seq(Digit) /\ Len(a \o b) = m + n /\ ValueOf(a \o b) = x * Power(10, n) + y
  BY <1>2, ValueOfConcat, ConcatProperties
<1>4. PadEnd(a \o b, m + n) = a \o b
  <2> DEFINE f == a \o b
  <2> HIDE DEF f
  <2>1. f \in Seq(Digit) /\ Len(f) = m + n
    BY <1>3 DEF f
  <2>2. PadEnd(f, m + n) = f
    BY <2>1, ConcatEmptySeq DEF PadEnd
  <2> QED  BY <2>2 DEF f
<1> QED  BY <1>3, <1>4 DEF a, b

\* Powers of two.
LEMMA PowersOfTwo ==
  \A m, n \in Nat : /\ Power(2, m) \in Nat \ {0} /\ Power(2, m) \in Nat
                   /\ Power(2, m + n) = Power(2, m) * Power(2, n)
                   /\ Power(2, 0) = 1 /\ Power(2, n + 1) = 2 * Power(2, n)
<1> SUFFICES ASSUME NEW m \in Nat, NEW n \in Nat
             PROVE  /\ Power(2, m) \in Nat \ {0} /\ Power(2, m + n) = Power(2, m) * Power(2, n)
                    /\ Power(2, 0) = 1 /\ Power(2, n + 1) = 2 * Power(2, n)
  OBVIOUS
<1>1. 2 \in Nat \ {0} /\ 2 \in Nat
  OBVIOUS
<1>2. Power(2, m) \in Nat \ {0}
  BY <1>1, PowerPositive, Zenon
<1>3. Power(2, m + n) = Power(2, m) * Power(2, n)
  BY <1>1, PowerOfSum, Zenon
<1>4. Power(2, 0) = 1 /\ Power(2, n + 1) = 2 * Power(2, n)
  BY <1>1, PowerOfZero, PowerOfNext, Zenon
<1> QED  BY <1>2, <1>3, <1>4

Octet == 0..255

\* Bytes as numbers; zeros in front do not count.
LEMMA OctetNumbers ==
  /\ \A b \in Seq(Octet) : b \in Seq(Nat) /\ Len(b) \in Nat /\ Number(256, b) \in Nat
  /\ \A n \in Nat : Zeros(n) \in Seq(Octet) /\ Len(Zeros(n)) = n /\ \A i \in 1..n : Zeros(n)[i] = 0
  /\ \A n \in Nat, b \in Seq(Octet) : Number(256, Zeros(n) \o b) = Number(256, b)
<1>1. \A b \in Seq(Octet) : b \in Seq(Nat) /\ Len(b) \in Nat
  <2>1. Octet \subseteq Nat
    BY DEF Octet
  <2> QED  BY <2>1, SeqMonotonic, LenProperties
<1>2. \A b \in Seq(Octet) : Number(256, b) \in Nat
  <2>1. 256 \in Nat
    OBVIOUS
  <2> QED  BY <1>1, <2>1, NumberType
<1>3. \A n \in Nat : Zeros(n) \in Seq(Octet) /\ Len(Zeros(n)) = n /\ \A i \in 1..n : Zeros(n)[i] = 0
  <2>1. \A b \in Seq(Digit) : b \in Seq(Octet)
    BY SeqMonotonic DEF Digit, Octet
  <2> QED  BY <2>1, ZerosType
<1>4. \A n \in Nat, b \in Seq(Octet) : Number(256, Zeros(n) \o b) = Number(256, b)
  <2> SUFFICES ASSUME NEW n \in Nat, NEW b \in Seq(Octet)
               PROVE  Number(256, Zeros(n) \o b) = Number(256, b)
    OBVIOUS
  <2> DEFINE z == Zeros(n)
  <2>1. 256 \in Nat /\ z \in Seq(Nat) /\ b \in Seq(Nat) /\ Len(b) \in Nat
    BY <1>1, <1>3
  <2>2. Number(256, z) = 0 /\ Power(256, Len(b)) \in Nat /\ Number(256, b) \in Nat
    BY <1>2, <2>1, ZerosAreZero, PowerType
  <2> HIDE DEF z
  <2>3. Number(256, z \o b) = Number(256, z) * Power(256, Len(b)) + Number(256, b)
    BY <2>1, NumberOfConcat
  <2> QED  BY <2>2, <2>3 DEF z
<1> QED  BY <1>1, <1>2, <1>3, <1>4

\* A part of a sequence, read off its elements.
LEMMA PartIs ==
  ASSUME NEW S, NEW d \in Seq(S), NEW c \in Seq(S), NEW j \in Nat, j + Len(c) <= Len(d),
         \A i \in 1..Len(c) : d[j + i] = c[i]
  PROVE  SubSeq(d, j + 1, j + Len(c)) = c
<1> DEFINE n == Len(c)
           e == SubSeq(d, j + 1, j + n)
<1>1. n \in Nat /\ Len(d) \in Nat /\ \A i \in 1..Len(d) : d[i] \in S
  BY LenProperties, ElementOfSeq
<1>2. /\ e \in Seq(S) /\ Len(e) = (IF j + 1 <= j + n THEN (j + n) - (j + 1) + 1 ELSE 0)
      /\ \A i \in 1..((j + n) - (j + 1) + 1) : e[i] = d[(j + 1) + i - 1]
  <2>1. j + 1 \in Int /\ j + n \in Int /\ \A i \in (j + 1)..(j + n) : d[i] \in S
    BY <1>1
  <2> QED  BY <2>1, SubSeqProperties
<1> HIDE DEF e
<1>3. Len(e) = n /\ (j + n) - (j + 1) + 1 = n /\ \A i \in 1..n : (j + 1) + i - 1 = j + i
  BY <1>1, <1>2
<1>4. \A i \in 1..n : e[i] = c[i]
  BY <1>2, <1>3
<1>5. e = c
  BY <1>2, <1>3, <1>4, SeqEqual
<1> QED  BY <1>5 DEF e

\* Two bytes before others.
LEMMA TwoBefore ==
  ASSUME NEW x \in Octet, NEW y \in Octet, NEW c \in Seq(Octet)
  PROVE  LET d == <<x, y>> \o c
         IN /\ d \in Seq(Octet) /\ Len(d) = 2 + Len(c) /\ Len(c) \in Nat
            /\ d[1] = x /\ d[2] = y /\ \A i \in 1..Len(c) : d[2 + i] = c[i]
<1>1. <<x, y>> \in Seq(Octet) /\ Len(<<x, y>>) = 2 /\ Len(c) \in Nat
  BY LenProperties
<1>2. \A i \in 1..Len(c) : 2 + i \in 1..(2 + Len(c)) /\ ~(2 + i <= 2) /\ (2 + i) - 2 = i
  BY <1>1
<1>3. 1 \in 1..(2 + Len(c)) /\ 2 \in 1..(2 + Len(c))
  BY <1>1
<1> DEFINE h == <<x, y>>
<1>4. h[1] = x /\ h[2] = y
  OBVIOUS
<1> HIDE DEF h
<1>5. /\ h \o c \in Seq(Octet) /\ Len(h \o c) = 2 + Len(c)
      /\ \A i \in 1..(2 + Len(c)) : (h \o c)[i] = IF i <= 2 THEN h[i] ELSE c[i - 2]
  <2>1. /\ h \o c \in Seq(Octet) /\ Len(h \o c) = Len(h) + Len(c)
        /\ \A i \in 1..(Len(h) + Len(c)) : (h \o c)[i] = IF i <= Len(h) THEN h[i] ELSE c[i - Len(h)]
    BY <1>1, ConcatProperties DEF h
  <2>2. Len(h) = 2
    BY <1>1 DEF h
  <2> QED  BY <2>1, <2>2
<1> QED  BY <1>1, <1>2, <1>3, <1>4, <1>5 DEF h

\* Powers of two grow, and faster than their exponents.
LEMMA PowersGrow ==
  /\ \A n \in Nat : n < Power(2, n)
  /\ \A m, n \in Nat : m <= n => Power(2, m) <= Power(2, n)
  /\ \A m, n \in Nat : m < n => 2 * Power(2, m) <= Power(2, n)
<1>1. \A n \in Nat : n < Power(2, n)
  <2> DEFINE P == {n \in Nat : n < Power(2, n)}
  <2>1. 0 \in P
    BY PowersOfTwo
  <2>2. ASSUME NEW n \in P PROVE n + 1 \in P
    <3> DEFINE x == Power(2, n)
    <3>1. n \in Nat /\ x \in Nat /\ n < x /\ Power(2, n + 1) = 2 * x
      BY PowersOfTwo
    <3> HIDE DEF x
    <3>2. n + 1 \in Nat /\ n + 1 < 2 * x
      BY <3>1
    <3> QED  BY <3>1, <3>2
  <2>3. P = Nat
    <3>1. P \subseteq Nat
      OBVIOUS
    <3> HIDE DEF P
    <3> QED  BY <2>1, <2>2, <3>1, Induction
  <2> QED  BY <2>3
<1>2. ASSUME NEW m \in Nat, NEW n \in Nat, m <= n PROVE Power(2, m) <= Power(2, n)
  <2> DEFINE x == Power(2, m)
             y == Power(2, n - m)
  <2>1. n - m \in Nat /\ m + (n - m) = n
    BY <1>2
  <2>2. x \in Nat \ {0} /\ y \in Nat \ {0} /\ Power(2, m + (n - m)) = x * y
    BY <2>1, PowersOfTwo
  <2> HIDE DEF x, y
  <2>3. x <= x * y
    BY <2>2
  <2> QED  BY <2>1, <2>2, <2>3 DEF x
<1>3. ASSUME NEW m \in Nat, NEW n \in Nat, m < n PROVE 2 * Power(2, m) <= Power(2, n)
  <2>1. m + 1 \in Nat /\ m + 1 <= n /\ Power(2, m + 1) = 2 * Power(2, m)
    BY <1>3, PowersOfTwo
  <2>2. Power(2, m + 1) <= Power(2, n)
    BY <1>2, <2>1
  <2> QED  BY <2>1, <2>2
<1> QED  BY <1>1, <1>2, <1>3

Lesser(a, b) == IF a <= b THEN a ELSE b

\* A node of the tree over n fields: block k of 2^l fields, the last one cut off.
IsNode(n, l, k, a, b) ==
  a = k * Power(2, l) /\ a < n /\ b = Lesser(n, a + Power(2, l))

Nodes(n) == {node \in Nat \X Nat : \E l, k \in Nat : IsNode(n, l, k, node[1], node[2])}

\* The same, shifted by s fields.
Shifted(s, nodes) == {<<s + node[1], s + node[2]>> : node \in nodes}

\* How multiples of q compare.
LEMMA Multiples ==
  ASSUME NEW k \in Nat, NEW m \in Nat, NEW q \in Nat \ {0}
  PROVE  /\ k * q \in Nat /\ 0 * q = 0 /\ 1 * q = q
         /\ k < m => k * q + q <= m * q
         /\ k >= m => k - m \in Nat /\ k * q = m * q + (k - m) * q /\ (k - m) * q \in Nat
         /\ (k + m) * q = k * q + m * q
         /\ k # 0 => q <= k * q
         /\ k * q < m * q => k < m
         /\ k <= k * q
<1>1. k * q \in Nat /\ m * q \in Nat /\ 0 * q = 0 /\ 1 * q = q
  OBVIOUS
<1>2. ASSUME NEW i \in Nat, NEW j \in Nat, i < j PROVE i * q + q <= j * q
  <2> DEFINE e == j - (i + 1)
  <2>1. e \in Nat /\ j = e + i + 1
    BY <1>2
  <2> HIDE DEF e
  <2>2. (e + i + 1) * q = e * q + i * q + q /\ e * q \in Nat /\ i * q \in Nat
    BY <2>1
  <2> QED  BY <2>1, <2>2
<1>3. ASSUME k >= m PROVE k - m \in Nat /\ k * q = m * q + (k - m) * q /\ (k - m) * q \in Nat
  <2> DEFINE e == k - m
  <2>1. e \in Nat /\ k = e + m
    BY <1>3
  <2> HIDE DEF e
  <2>2. k * q = m * q + e * q /\ e * q \in Nat
    BY <2>1
  <2> QED  BY <2>1, <2>2 DEF e
<1>4. (k + m) * q = k * q + m * q
  OBVIOUS
<1>5. k # 0 => q <= k * q
  BY <1>1, <1>2
<1>6. k * q < m * q => k < m
  <2> SUFFICES ASSUME k * q < m * q, ~(k < m) PROVE FALSE
    OBVIOUS
  <2>1. k = m \/ m < k
    OBVIOUS
  <2> QED  BY <1>1, <1>2, <2>1
<1>7. k <= k * q
  OBVIOUS
<1> QED  BY <1>1, <1>2, <1>3, <1>4, <1>5, <1>6, <1>7

\* Blocks that are no larger than the left tree, and those that are larger.
LEMMA SmallAndLarge ==
  ASSUME NEW p \in Nat, NEW l \in Nat
  PROVE  /\ Power(2, l) \in Nat \ {0} /\ Power(2, p) \in Nat \ {0}
         /\ l <= p => \E m \in Nat : Power(2, p) = m * Power(2, l)
         /\ l > p => 2 * Power(2, p) <= Power(2, l)
<1>1. Power(2, l) \in Nat \ {0} /\ Power(2, p) \in Nat \ {0}
  BY PowersOfTwo
<1>2. ASSUME l <= p PROVE \E m \in Nat : Power(2, p) = m * Power(2, l)
  <2>1. p - l \in Nat /\ (p - l) + l = p
    BY <1>2
  <2>2. Power(2, (p - l) + l) = Power(2, p - l) * Power(2, l) /\ Power(2, p - l) \in Nat
    BY <2>1, PowersOfTwo
  <2> QED  BY <2>1, <2>2
<1> QED  BY <1>1, <1>2, PowersGrow

\* A block of the whole tree is the tree, or in the left tree, or in the right one.
LEMMA NodeOfTree ==
  ASSUME NEW n \in Nat, NEW p \in Nat, Power(2, p) < n, n <= 2 * Power(2, p),
         NEW a \in Nat, NEW b \in Nat, NEW l \in Nat, NEW k \in Nat, IsNode(n, l, k, a, b)
  PROVE  LET s == Power(2, p)
         IN \/ a = 0 /\ b = n
            \/ \E i \in Nat : IsNode(s, l, i, a, b)
            \/ a - s \in Nat /\ b - s \in Nat /\ \E i \in Nat : IsNode(n - s, l, i, a - s, b - s)
<1> DEFINE s == Power(2, p)
           q == Power(2, l)
<1>1. /\ s \in Nat \ {0} /\ q \in Nat \ {0} /\ s < n /\ n <= 2 * s
      /\ a = k * q /\ a < n /\ b = Lesser(n, a + q)
      /\ l <= p => \E m \in Nat : s = m * q
      /\ l > p => 2 * s <= q
  BY SmallAndLarge DEF IsNode
<1>2. CASE l > p
  <2> HIDE DEF s, q
  <2>1. k = 0
    BY <1>1, <1>2, Multiples
  <2>2. a = 0
    BY <1>1, <2>1, Multiples
  <2>3. b = n
    BY <1>1, <1>2, <2>2 DEF Lesser
  <2> QED  BY <2>2, <2>3
<1>3. CASE l <= p
  <2>1. PICK m \in Nat : s = m * q
    BY <1>1, <1>3
  <2>2. CASE k < m
    <3>1. a + q <= s
      <4> HIDE DEF s, q
      <4> QED  BY <1>1, <2>1, <2>2, Multiples
    <3>2. a < s /\ b = Lesser(s, a + q)
      <4> HIDE DEF s, q
      <4> QED  BY <1>1, <3>1 DEF Lesser
    <3>3. IsNode(s, l, k, a, b)
      BY <1>1, <3>2 DEF IsNode
    <3> QED  BY <3>3
  <2>3. CASE k >= m
    <3> DEFINE i == k - m
               c == a - s
    <3>1. i \in Nat /\ c = i * q /\ c \in Nat /\ a = s + c
      <4> HIDE DEF s, q
      <4> QED  BY <1>1, <2>1, <2>3, Multiples
    <3>2. c < n - s /\ b - s = Lesser(n - s, c + q) /\ b - s \in Nat
      <4> HIDE DEF s, q, c
      <4> QED  BY <1>1, <3>1 DEF Lesser
    <3>3. IsNode(n - s, l, i, c, b - s)
      <4> HIDE DEF i, c, s
      <4> QED  BY <3>1, <3>2 DEF IsNode
    <3> QED  BY <3>1, <3>2, <3>3
  <2> QED  BY <2>2, <2>3
<1> QED  BY <1>2, <1>3

\* The tree itself is a block of the tree, and the blocks of the left tree are.
LEMMA NodesOfLeft ==
  ASSUME NEW n \in Nat, NEW p \in Nat, Power(2, p) < n, n <= 2 * Power(2, p)
  PROVE  /\ IsNode(n, p + 1, 0, 0, n)
         /\ \A a, b, l, k \in Nat :
              IsNode(Power(2, p), l, k, a, b) => \E j, i \in Nat : IsNode(n, j, i, a, b)
<1> DEFINE s == Power(2, p)
<1>1. s \in Nat \ {0} /\ s < n /\ n <= 2 * s /\ Power(2, p + 1) = 2 * s
  BY PowersOfTwo
<1>2. IsNode(n, p + 1, 0, 0, n)
  <2> HIDE DEF s
  <2> QED  BY <1>1 DEF IsNode, Lesser
<1>3. ASSUME NEW a \in Nat, NEW b \in Nat, NEW l \in Nat, NEW k \in Nat, IsNode(s, l, k, a, b)
      PROVE  \E j, i \in Nat : IsNode(n, j, i, a, b)
  <2> DEFINE q == Power(2, l)
  <2>1. /\ q \in Nat \ {0} /\ a = k * q /\ a < s /\ b = Lesser(s, a + q)
        /\ l <= p => \E m \in Nat : s = m * q
        /\ l > p => 2 * s <= q
    BY <1>3, SmallAndLarge DEF IsNode
  <2>2. CASE l > p
    <3>1. k = 0
      <4> HIDE DEF s, q
      <4> QED  BY <1>1, <2>1, <2>2, Multiples
    <3>2. a = 0
      <4> HIDE DEF s, q
      <4> QED  BY <2>1, <3>1, Multiples
    <3>3. b = s
      <4> HIDE DEF s, q
      <4> QED  BY <1>1, <2>1, <2>2, <3>2 DEF Lesser
    <3>4. IsNode(n, p, 0, a, b)
      <4>1. a = 0 * s /\ a < n /\ b = Lesser(n, a + s)
        <5> HIDE DEF s
        <5> QED  BY <1>1, <3>2, <3>3 DEF Lesser
      <4> QED  BY <4>1 DEF IsNode
    <3> QED  BY <3>4
  <2>3. CASE l <= p
    <3>1. PICK m \in Nat : s = m * q
      BY <2>1, <2>3
    <3>2. a + q <= s
      <4> HIDE DEF s, q
      <4> QED  BY <2>1, <3>1, Multiples
    <3>3. a < n /\ b = Lesser(n, a + q)
      <4> HIDE DEF s, q
      <4> QED  BY <1>1, <2>1, <3>2 DEF Lesser
    <3>4. IsNode(n, l, k, a, b)
      BY <2>1, <3>3 DEF IsNode
    <3> QED  BY <3>4
  <2> QED  BY <2>2, <2>3
<1> QED  BY <1>2, <1>3

\* So are the blocks of the right tree, shifted.
LEMMA NodesOfRight ==
  ASSUME NEW n \in Nat, NEW p \in Nat, Power(2, p) < n, n <= 2 * Power(2, p),
         NEW a \in Nat, NEW b \in Nat, NEW l \in Nat, NEW k \in Nat,
         IsNode(n - Power(2, p), l, k, a, b)
  PROVE  \E j, i \in Nat : IsNode(n, j, i, Power(2, p) + a, Power(2, p) + b)
<1> DEFINE s == Power(2, p)
           q == Power(2, l)
<1>1. /\ s \in Nat \ {0} /\ s < n /\ n <= 2 * s
      /\ q \in Nat \ {0} /\ a = k * q /\ a < n - s /\ b = Lesser(n - s, a + q)
      /\ l <= p => \E m \in Nat : s = m * q
      /\ l > p => 2 * s <= q
  BY SmallAndLarge DEF IsNode
<1>2. CASE l > p
  <2>1. k = 0
    <3> HIDE DEF s, q
    <3> QED  BY <1>1, <1>2, Multiples
  <2>2. a = 0
    <3> HIDE DEF s, q
    <3> QED  BY <1>1, <2>1, Multiples
  <2>3. s + b = n
    <3> HIDE DEF s, q
    <3> QED  BY <1>1, <1>2, <2>2 DEF Lesser
  <2>4. IsNode(n, p, 1, s + a, s + b)
    <3>1. s + a = 1 * s /\ s + a < n /\ s + b = Lesser(n, (s + a) + s)
      <4> HIDE DEF s, q
      <4>1. s + a = s /\ n <= s + s /\ 1 * s = s
        BY <1>1, <2>2
      <4> QED  BY <1>1, <2>3, <4>1 DEF Lesser
    <3> QED  BY <3>1 DEF IsNode
  <2> QED  BY <2>4
<1>3. CASE l <= p
  <2>1. PICK m \in Nat : s = m * q
    BY <1>1, <1>3
  <2>2. s + a = (k + m) * q
    <3> HIDE DEF s, q
    <3> QED  BY <1>1, <2>1, Multiples
  <2>3. s + a < n /\ s + b = Lesser(n, (s + a) + q)
    <3> HIDE DEF s, q
    <3> QED  BY <1>1 DEF Lesser
  <2>4. IsNode(n, l, k + m, s + a, s + b)
    BY <2>2, <2>3 DEF IsNode
  <2> QED  BY <2>4
<1> QED  BY <1>2, <1>3

\* The blocks of a tree are the tree, those of the left tree and those of the right one.
LEMMA NodesSplit ==
  ASSUME NEW n \in Nat, NEW p \in Nat, Power(2, p) < n, n <= 2 * Power(2, p)
  PROVE  LET s == Power(2, p)
         IN Nodes(n) = {<<0, n>>} \cup (Nodes(s) \cup Shifted(s, Nodes(n - s)))
<1> DEFINE s == Power(2, p)
           right == Shifted(s, Nodes(n - s))
<1>1. s \in Nat \ {0} /\ s < n /\ n - s \in Nat
  <2>1. s \in Nat \ {0} /\ s < n
    BY PowersOfTwo
  <2> HIDE DEF s
  <2> QED  BY <2>1
<1>2. ASSUME NEW x \in Nodes(n) PROVE x \in {<<0, n>>} \cup (Nodes(s) \cup right)
  <2> DEFINE a == x[1]
             b == x[2]
  <2>1. a \in Nat /\ b \in Nat /\ x = <<a, b>>
    BY DEF Nodes
  <2>2. PICK l \in Nat, k \in Nat : IsNode(n, l, k, a, b)
    BY DEF Nodes
  <2> HIDE DEF a, b
  <2>3. \/ a = 0 /\ b = n
        \/ \E i \in Nat : IsNode(s, l, i, a, b)
        \/ a - s \in Nat /\ b - s \in Nat /\ \E i \in Nat : IsNode(n - s, l, i, a - s, b - s)
    BY <2>1, <2>2, NodeOfTree
  <2>4. CASE a = 0 /\ b = n
    BY <2>1, <2>4
  <2>5. CASE \E i \in Nat : IsNode(s, l, i, a, b)
    BY <2>1, <2>5 DEF Nodes
  <2>6. CASE a - s \in Nat /\ b - s \in Nat /\ \E i \in Nat : IsNode(n - s, l, i, a - s, b - s)
    <3> DEFINE c == a - s
               e == b - s
    <3>1. a = s + c /\ b = s + e
      <4> HIDE DEF s
      <4> QED  BY <1>1, <2>1, <2>6
    <3>2. c \in Nat /\ e \in Nat /\ \E i \in Nat : IsNode(n - s, l, i, c, e)
      BY <2>6
    <3> HIDE DEF c, e, s
    <3>3. <<c, e>> \in Nodes(n - s)
      BY <3>2 DEF Nodes
    <3> QED  BY <2>1, <3>1, <3>3 DEF Shifted
  <2> QED  BY <2>3, <2>4, <2>5, <2>6
<1>3. <<0, n>> \in Nodes(n)
  <2>1. IsNode(n, p + 1, 0, 0, n) /\ p + 1 \in Nat /\ 0 \in Nat
    BY NodesOfLeft
  <2> QED  BY <2>1 DEF Nodes
<1>4. ASSUME NEW x \in Nodes(s) PROVE x \in Nodes(n)
  <2> DEFINE a == x[1]
             b == x[2]
  <2>1. a \in Nat /\ b \in Nat /\ x \in Nat \X Nat
    BY DEF Nodes
  <2>2. PICK l \in Nat, k \in Nat : IsNode(s, l, k, a, b)
    BY DEF Nodes
  <2> HIDE DEF a, b
  <2>3. \E j, i \in Nat : IsNode(n, j, i, a, b)
    BY <2>1, <2>2, NodesOfLeft
  <2> QED  BY <2>1, <2>3 DEF Nodes, a, b
<1>5. ASSUME NEW x \in right PROVE x \in Nodes(n)
  <2>1. PICK y \in Nodes(n - s) : x = <<s + y[1], s + y[2]>>
    BY DEF Shifted
  <2> DEFINE a == y[1]
             b == y[2]
  <2>2. a \in Nat /\ b \in Nat
    BY DEF Nodes
  <2>3. PICK l \in Nat, k \in Nat : IsNode(n - s, l, k, a, b)
    BY DEF Nodes
  <2> HIDE DEF a, b
  <2>4. \E j, i \in Nat : IsNode(n, j, i, s + a, s + b)
    BY <2>2, <2>3, NodesOfRight
  <2> HIDE DEF s
  <2>5. s + a \in Nat /\ s + b \in Nat /\ x = <<s + a, s + b>>
    BY <1>1, <2>1, <2>2 DEF a, b
  <2> QED  BY <2>4, <2>5 DEF Nodes
<1> HIDE DEF right, s
<1>6. Nodes(n) = {<<0, n>>} \cup (Nodes(s) \cup right)
  BY <1>2, <1>3, <1>4, <1>5
<1> QED  BY <1>6 DEF right, s

\* A tree of one field is that field.
LEMMA NodesOfOne == Nodes(1) = {<<0, 1>>}
<1>1. ASSUME NEW x \in Nodes(1) PROVE x = <<0, 1>>
  <2> DEFINE a == x[1]
             b == x[2]
  <2>1. a \in Nat /\ b \in Nat /\ x = <<a, b>>
    BY DEF Nodes
  <2>2. PICK l \in Nat, k \in Nat : IsNode(1, l, k, a, b)
    BY DEF Nodes
  <2> HIDE DEF a, b
  <2> DEFINE q == Power(2, l)
  <2>3. q \in Nat \ {0}
    BY PowersOfTwo
  <2>4. a < 1 /\ b = Lesser(1, a + q)
    BY <2>2 DEF IsNode
  <2> HIDE DEF q
  <2>5. a = 0 /\ b = 1
    BY <2>1, <2>3, <2>4 DEF Lesser
  <2> QED  BY <2>1, <2>5
<1>2. <<0, 1>> \in Nodes(1)
  <2>1. IsNode(1, 0, 0, 0, 1)
    BY PowersOfTwo DEF IsNode, Lesser
  <2> QED  BY <2>1 DEF Nodes
<1> QED  BY <1>1, <1>2
=============================================================================
