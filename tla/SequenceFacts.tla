---------------------------- MODULE SequenceFacts ----------------------------
(***************************************************************************)
(* What the sequence operators of the specifications return, for sequences *)
(* of every length. Where a fact needs an induction, it is a descent: of   *)
(* the positions where it fails there would be a least one.                *)
(***************************************************************************)
EXTENDS SequencesExt, SequenceTheorems, NaturalsInduction, WellFoundedInduction, TLAPS

LEMMA LeastNat ==
  ASSUME NEW T \in SUBSET Nat, T # {}
  PROVE  \E n \in T : \A m \in T : n <= m
  <1> DEFINE R == {ss \in Nat \X Nat : ss[1] < ss[2]}
  <1>0. IsWellFoundedOn(R, Nat)
    BY NatLessThanWellFounded DEF OpToRel
  <1>1. \E x \in T : \A y \in T : ~ (<<y, x>> \in R)
    <2> HIDE DEF R
    <2> QED
      BY <1>0, WFMin
  <1>2. \A x, y \in Nat : <<y, x>> \in R <=> y < x
    OBVIOUS
  <1> HIDE DEF R
  <1>3. PICK x \in T : \A y \in T : ~ (<<y, x>> \in R)
    BY <1>1
  <1>4. ASSUME NEW y \in T PROVE x <= y
    <2>1. x \in Nat /\ y \in Nat
      OBVIOUS
    <2>2. ~(y < x)
      BY <1>2, <1>3, <2>1
    <2> QED
      BY <2>1, <2>2
  <1> QED
    BY <1>4

\* The shape of every descent: a set of numbers that holds 1, and with every
\* number the next one, holds all of them.
LEMMA Climb ==
  ASSUME NEW n \in Nat, NEW T,
         n > 0 => 1 \in T,
         \A i \in 1..(n - 1) : i \in T => i + 1 \in T
  PROVE  1..n \subseteq T
  <1> SUFFICES ASSUME (1..n) \ T # {} PROVE FALSE
    OBVIOUS
  <1>1. (1..n) \ T \in SUBSET Nat
    OBVIOUS
  <1>2. PICK k \in (1..n) \ T : \A m \in (1..n) \ T : k <= m
    BY <1>1, LeastNat
  <1>3. k # 1 /\ k - 1 \in 1..(n - 1) /\ k - 1 + 1 = k
    BY <1>2
  <1>4. k - 1 \in T
    BY <1>2, <1>3
  <1> QED
    BY <1>2, <1>3, <1>4

LEMMA ElementsOfConcat ==
  ASSUME NEW S, NEW s \in Seq(S), NEW t \in Seq(S)
  PROVE  ToSet(s \o t) = ToSet(s) \cup ToSet(t)
  <1> DEFINE u == s \o t
             m == Len(s)
             n == Len(t)
  <1>1. /\ m \in Nat /\ DOMAIN s = 1..m /\ n \in Nat /\ DOMAIN t = 1..n
        /\ DOMAIN u = 1..(m + n)
        /\ \A i \in 1..(m + n) : u[i] = IF i <= m THEN s[i] ELSE t[i - m]
    BY ConcatProperties, LenProperties
  <1> HIDE DEF u, m, n
  <1>2. ASSUME NEW i \in DOMAIN u PROVE u[i] \in ToSet(s) \cup ToSet(t)
    <2>1. CASE i <= m
      <3>1. i \in DOMAIN s /\ u[i] = s[i]
        BY <1>1, <2>1
      <3> QED
        BY <3>1 DEF ToSet
    <2>2. CASE ~(i <= m)
      <3>1. i - m \in DOMAIN t /\ u[i] = t[i - m]
        BY <1>1, <2>2
      <3> QED
        BY <3>1 DEF ToSet
    <2> QED
      BY <2>1, <2>2
  <1>3. ASSUME NEW i \in DOMAIN s PROVE s[i] \in ToSet(u)
    BY <1>1 DEF ToSet
  <1>4. ASSUME NEW i \in DOMAIN t PROVE t[i] \in ToSet(u)
    <2>1. m + i \in DOMAIN u /\ u[m + i] = t[i]
      BY <1>1
    <2> QED
      BY <2>1 DEF ToSet
  <1>5. ToSet(u) = ToSet(s) \cup ToSet(t)
    BY <1>2, <1>3, <1>4 DEF ToSet
  <1> QED
    BY <1>5 DEF u

----------------------------------------------------------------------------
(* FlattenSeq *)

\* What FlattenSeq is computed by.
FlattenedBy(f, s) ==
  /\ DOMAIN f = 1..Len(s)
  /\ \A i \in 1..Len(s) : f[i] = IF i = 1 THEN s[i] ELSE f[i - 1] \o s[i]

LEMMA FlattenBy ==
  ASSUME NEW S, NEW s \in Seq(S)
  PROVE  /\ Len(s) = 0 => FlattenSeq(s) = <<>>
         /\ Len(s) > 0 => \E f : FlattenedBy(f, s) /\ FlattenSeq(s) = f[Len(s)]
  <1> DEFINE N == Len(s)
             Rec(f, n) == f = [i \in 1..n |-> IF i = 1 THEN s[i] ELSE f[i - 1] \o s[i]]
             T == {n \in 1..N : \E f : Rec(f, n)}
  <1>0. N \in Nat
    BY LenProperties
  <1>1. N > 0 => 1 \in T
    <2> DEFINE f == [i \in 1..1 |-> s[i]]
    <2>1. Rec(f, 1)
      OBVIOUS
    <2> HIDE DEF f
    <2>2. \E g : Rec(g, 1)
      BY <2>1
    <2> HIDE DEF Rec
    <2> QED
      BY <1>0, <2>2
  <1>2. ASSUME NEW n \in 1..(N - 1), n \in T PROVE n + 1 \in T
    <2>1. PICK f : Rec(f, n)
      BY <1>2
    <2> DEFINE g == [i \in 1..(n + 1) |-> IF i <= n THEN f[i] ELSE f[n] \o s[n + 1]]
    <2>2. Rec(g, n + 1)
      <3>1. ASSUME NEW i \in 1..(n + 1)
            PROVE  g[i] = IF i = 1 THEN s[i] ELSE g[i - 1] \o s[i]
        <4>1. CASE i = n + 1
          <5>1. i # 1 /\ i - 1 = n /\ n \in 1..(n + 1) /\ ~(i <= n)
            BY <1>0, <4>1
          <5>2. g[n + 1] = f[n] \o s[n + 1] /\ g[n] = f[n]
            <6>1. n \in 1..(n + 1) /\ n + 1 \in 1..(n + 1) /\ n <= n /\ ~(n + 1 <= n)
              BY <1>0
            <6> QED
              BY <6>1
          <5> QED
            <6> HIDE DEF g
            <6> QED
              BY <4>1, <5>1, <5>2
        <4>2. CASE i <= n
          <5>1. i \in 1..n /\ g[i] = f[i]
            BY <1>0, <4>2
          <5>2. f[i] = IF i = 1 THEN s[i] ELSE f[i - 1] \o s[i]
            <6> HIDE DEF g
            <6> QED
              BY <2>1, <5>1
          <5>3. i # 1 => i - 1 \in 1..(n + 1) /\ i - 1 <= n
            BY <1>0, <5>1
          <5>4. i # 1 => g[i - 1] = f[i - 1]
            BY <5>3
          <5> HIDE DEF g
          <5> QED
            BY <5>1, <5>2, <5>4
        <4> QED
          BY <1>0, <4>1, <4>2
      <3>2. g = [i \in 1..(n + 1) |-> g[i]]
        OBVIOUS
      <3> HIDE DEF g
      <3> QED
        BY <3>1, <3>2
    <2>3. \E h : Rec(h, n + 1)
      <3> HIDE DEF g, Rec
      <3> QED
        BY <2>2
    <2> HIDE DEF g, Rec
    <2> QED
      BY <1>0, <2>3
  <1>3. 1..N \subseteq T
    <2> HIDE DEF T, N
    <2> QED
      BY <1>0, <1>1, <1>2, Climb
  <1>4. CASE N = 0
    <2>1. s = <<>>
      BY <1>4, EmptySeq
    <2> QED
      BY <1>4, <2>1 DEF FlattenSeq
  <1>5. CASE N > 0
    <2> DEFINE f == CHOOSE f : Rec(f, N)
    <2>1. \E h : Rec(h, N)
      <3>1. N \in T
        <4> HIDE DEF T, N
        <4> QED
          BY <1>0, <1>3, <1>5
      <3> HIDE DEF Rec
      <3> QED
        BY <3>1
    <2>2. Rec(f, N)
      <3> HIDE DEF Rec
      <3> QED
        BY <2>1
    <2>3. FlattenSeq(s) = f[N]
      BY <1>5 DEF FlattenSeq
    <2> HIDE DEF f
    <2>4. FlattenedBy(f, s)
      BY <2>2 DEF FlattenedBy
    <2> QED
      BY <1>5, <2>3, <2>4
  <1> QED
    BY <1>0, <1>4, <1>5

\* The parts of a sequence of n sequences, flattened up to each of them.
FlattenedUpTo(S, n, f, s) ==
  /\ \A i \in 1..n : s[i] \in Seq(S) /\ f[i] \in Seq(S)
  /\ n > 0 => f[1] = s[1]
  /\ \A i \in 1..(n - 1) : f[i + 1] = f[i] \o s[i + 1]

LEMMA FlattenSteps ==
  ASSUME NEW S, NEW s \in Seq(Seq(S)), NEW n \in Nat, Len(s) = n, NEW f, FlattenedBy(f, s)
  PROVE  FlattenedUpTo(S, n, f, s)
  <1> DEFINE T == {i \in 1..n : f[i] \in Seq(S)}
  <1>1. ASSUME NEW i \in 1..n PROVE s[i] \in Seq(S)
    BY ElementOfSeq
  <1>2. ASSUME NEW i \in 1..n PROVE f[i] = IF i = 1 THEN s[i] ELSE f[i - 1] \o s[i]
    BY DEF FlattenedBy
  <1>3. n > 0 => f[1] = s[1]
    <2> SUFFICES ASSUME n > 0 PROVE f[1] = s[1]
      OBVIOUS
    <2>1. 1 \in 1..n
      OBVIOUS
    <2> QED
      BY <1>2, <2>1
  <1>4. ASSUME NEW i \in 1..(n - 1) PROVE f[i + 1] = f[i] \o s[i + 1]
    <2> DEFINE j == i + 1
    <2>1. j \in 1..n /\ j # 1 /\ j - 1 = i
      OBVIOUS
    <2> HIDE DEF j
    <2>2. f[j] = f[j - 1] \o s[j]
      BY <1>2, <2>1
    <2>3. f[j] = f[i] \o s[j]
      BY <2>1, <2>2
    <2> QED
      BY <2>3 DEF j
  <1>5. n > 0 => 1 \in T
    <2> SUFFICES ASSUME n > 0 PROVE 1 \in T
      OBVIOUS
    <2>1. 1 \in 1..n
      OBVIOUS
    <2> QED
      BY <1>1, <1>3, <2>1
  <1>6. ASSUME NEW i \in 1..(n - 1), i \in T PROVE i + 1 \in T
    <2>1. i + 1 \in 1..n
      OBVIOUS
    <2>2. s[i + 1] \in Seq(S) /\ f[i] \in Seq(S)
      BY <1>1, <1>6, <2>1
    <2>3. f[i] \o s[i + 1] \in Seq(S)
      BY <2>2, ConcatProperties
    <2> QED
      BY <1>4, <2>1, <2>3
  <1>7. 1..n \subseteq T
    <2> HIDE DEF T
    <2> QED
      BY <1>5, <1>6, Climb
  <1>8. \A i \in 1..n : f[i] \in Seq(S)
    BY <1>7
  <1> QED
    BY <1>1, <1>3, <1>4, <1>8 DEF FlattenedUpTo

\* Two sequences that agree are flattened alike, step by step.
AgreeUpTo(m, s, t) == \A i \in 1..m : s[i] = t[i]

LEMMA FlattenAgrees ==
  ASSUME NEW S, NEW T, NEW s, NEW t, NEW f, NEW g, NEW m \in Nat, NEW n \in Nat, m <= n,
         FlattenedUpTo(S, m, f, s), FlattenedUpTo(T, n, g, t), AgreeUpTo(m, s, t)
  PROVE  AgreeUpTo(m, f, g)
  <1> DEFINE A == {i \in 1..m : f[i] = g[i]}
  <1>1. /\ m > 0 => f[1] = s[1]
        /\ \A i \in 1..(m - 1) : f[i + 1] = f[i] \o s[i + 1]
    BY DEF FlattenedUpTo
  <1>2. /\ n > 0 => g[1] = t[1]
        /\ \A i \in 1..(n - 1) : g[i + 1] = g[i] \o t[i + 1]
    BY DEF FlattenedUpTo
  <1>3. m > 0 => 1 \in A
    <2> SUFFICES ASSUME m > 0 PROVE 1 \in A
      OBVIOUS
    <2>1. 1 \in 1..m /\ n > 0
      OBVIOUS
    <2>2. s[1] = t[1]
      BY <2>1 DEF AgreeUpTo
    <2> QED
      BY <1>1, <1>2, <2>1, <2>2
  <1>4. ASSUME NEW i \in 1..(m - 1), i \in A PROVE i + 1 \in A
    <2>1. i \in 1..(n - 1) /\ i + 1 \in 1..m /\ f[i] = g[i]
      BY <1>4
    <2>2. s[i + 1] = t[i + 1]
      BY <2>1 DEF AgreeUpTo
    <2>3. f[i + 1] = f[i] \o s[i + 1] /\ g[i + 1] = g[i] \o t[i + 1]
      BY <1>1, <1>2, <2>1
    <2> QED
      BY <2>1, <2>2, <2>3
  <1>5. 1..m \subseteq A
    <2> HIDE DEF A
    <2> QED
      BY <1>3, <1>4, Climb
  <1> QED
    BY <1>5 DEF AgreeUpTo

\* A sequence of sequences is flattened step by step, if it is not empty.
LEMMA FlattenSome ==
  ASSUME NEW S, NEW s \in Seq(Seq(S))
  PROVE  /\ Len(s) \in Nat
         /\ Len(s) = 0 => s = <<>> /\ FlattenSeq(s) = <<>>
         /\ Len(s) > 0 => \E f : FlattenedBy(f, s) /\ FlattenSeq(s) = f[Len(s)]
         /\ FlattenSeq(s) \in Seq(S)
  <1> DEFINE SS == Seq(S)
  <1>1. s \in Seq(SS)
    OBVIOUS
  <1> HIDE DEF SS
  <1>2. Len(s) \in Nat
    BY <1>1, LenProperties
  <1>3. Len(s) = 0 => s = <<>>
    BY <1>1, EmptySeq
  <1>4. Len(s) = 0 => FlattenSeq(s) = <<>>
    BY <1>1, FlattenBy
  <1>5. Len(s) > 0 => \E f : FlattenedBy(f, s) /\ FlattenSeq(s) = f[Len(s)]
    BY <1>1, FlattenBy
  <1>6. FlattenSeq(s) \in Seq(S)
    <2>1. CASE Len(s) = 0
      BY <1>4, <2>1, EmptySeq
    <2>2. CASE Len(s) > 0
      <3>1. PICK f : FlattenedBy(f, s) /\ FlattenSeq(s) = f[Len(s)]
        BY <1>5, <2>2
      <3>2. FlattenedUpTo(S, Len(s), f, s)
        BY <1>2, <3>1, FlattenSteps
      <3>3. Len(s) \in 1..Len(s)
        BY <1>2, <2>2
      <3> QED
        BY <3>1, <3>2, <3>3 DEF FlattenedUpTo
    <2> QED
      BY <1>2, <2>1, <2>2
  <1> QED
    BY <1>2, <1>3, <1>4, <1>5, <1>6

\* Concatenation, of sequences of any elements, in terms of two lengths.
LEMMA ConcatParts ==
  ASSUME NEW S, NEW s \in Seq(S), NEW t \in Seq(S)
  PROVE  /\ Len(s) \in Nat /\ Len(t) \in Nat
         /\ s \o t \in Seq(S) /\ Len(s \o t) = Len(s) + Len(t)
         /\ \A i \in 1..Len(s) : (s \o t)[i] = s[i]
         /\ \A i \in 1..Len(t) : (s \o t)[Len(s) + i] = t[i]
  <1> DEFINE u == s \o t
             m == Len(s)
             n == Len(t)
  <1>1. m \in Nat /\ n \in Nat
    BY LenProperties
  <1>2. u \in Seq(S) /\ Len(u) = m + n
    BY ConcatProperties
  <1>3. \A i \in 1..(m + n) : u[i] = IF i <= m THEN s[i] ELSE t[i - m]
    BY ConcatProperties
  <1> HIDE DEF u, m, n
  <1>4. ASSUME NEW i \in 1..m PROVE u[i] = s[i]
    BY <1>1, <1>3
  <1>5. ASSUME NEW i \in 1..n PROVE u[m + i] = t[i]
    <2> DEFINE j == m + i
    <2>1. j \in 1..(m + n) /\ ~(j <= m) /\ j - m = i
      BY <1>1
    <2> HIDE DEF j
    <2>2. u[j] = t[j - m]
      BY <1>3, <2>1
    <2>3. u[j] = t[i]
      BY <2>1, <2>2
    <2> QED
      BY <2>3 DEF j
  <1> QED
    BY <1>1, <1>2, <1>4, <1>5 DEF u, m, n

\* Flattening goes part by part.
LEMMA FlattenConcat ==
  ASSUME NEW S, NEW s \in Seq(Seq(S)), NEW t \in Seq(Seq(S))
  PROVE  /\ s \o t \in Seq(Seq(S))
         /\ FlattenSeq(s) \in Seq(S) /\ FlattenSeq(t) \in Seq(S)
         /\ FlattenSeq(s \o t) = FlattenSeq(s) \o FlattenSeq(t)
  <1> DEFINE SS == Seq(S)
             u == s \o t
             m == Len(s)
             n == Len(t)
  <1>1. s \in Seq(SS) /\ t \in Seq(SS)
    OBVIOUS
  <1>2. /\ m \in Nat /\ n \in Nat
        /\ u \in Seq(SS) /\ Len(u) = m + n
        /\ \A i \in 1..m : u[i] = s[i]
        /\ \A i \in 1..n : u[m + i] = t[i]
    <2> HIDE DEF SS
    <2> QED
      BY <1>1, ConcatParts
  <1> HIDE DEF u
  <1>3. u \in Seq(Seq(S))
    BY <1>2
  <1> HIDE DEF SS
  <1>4. FlattenSeq(s) \in Seq(S) /\ FlattenSeq(t) \in Seq(S)
    BY FlattenSome
  <1>5. CASE n = 0
    <2>1. t = <<>> /\ FlattenSeq(t) = <<>>
      BY <1>5, FlattenSome
    <2>2. u = s
      BY <1>1, <2>1, ConcatEmptySeq DEF u
    <2>3. FlattenSeq(s) \o <<>> = FlattenSeq(s)
      BY <1>4, ConcatEmptySeq
    <2> QED
      BY <1>3, <1>4, <2>1, <2>2, <2>3 DEF u
  <1>6. CASE m = 0
    <2>1. s = <<>> /\ FlattenSeq(s) = <<>>
      BY <1>6, FlattenSome
    <2>2. u = t
      BY <1>1, <2>1, ConcatEmptySeq DEF u
    <2>3. <<>> \o FlattenSeq(t) = FlattenSeq(t)
      BY <1>4, ConcatEmptySeq
    <2> QED
      BY <1>3, <1>4, <2>1, <2>2, <2>3 DEF u
  <1>7. CASE m > 0 /\ n > 0
    <2>1. PICK f : FlattenedBy(f, s) /\ FlattenSeq(s) = f[m]
      BY <1>7, FlattenSome
    <2>2. PICK g : FlattenedBy(g, t) /\ FlattenSeq(t) = g[n]
      BY <1>7, FlattenSome
    <2>3. Len(u) > 0
      BY <1>2, <1>7
    <2>4. PICK h : FlattenedBy(h, u) /\ FlattenSeq(u) = h[Len(u)]
      BY <1>3, <2>3, FlattenSome
    <2>5. FlattenSeq(u) = h[m + n]
      BY <1>2, <2>4
    <2>6. FlattenedUpTo(S, m, f, s) /\ FlattenedUpTo(S, n, g, t)
      BY <1>2, <2>1, <2>2, FlattenSteps
    <2>7. FlattenedUpTo(S, m + n, h, u)
      <3> DEFINE k == m + n
      <3>1. k \in Nat /\ Len(u) = k
        BY <1>2
      <3> HIDE DEF k
      <3>2. FlattenedUpTo(S, k, h, u)
        BY <1>3, <2>4, <3>1, FlattenSteps
      <3> QED
        BY <3>2 DEF k
    <2> HIDE DEF m, n
    <2>8. h[m] = f[m] /\ f[m] \in Seq(S)
      <3> DEFINE k == m + n
      <3>1. m \in 1..m /\ m <= k /\ k \in Nat
        BY <1>2, <1>7
      <3>2. AgreeUpTo(m, s, u)
        BY <1>2 DEF AgreeUpTo
      <3>3. FlattenedUpTo(S, k, h, u)
        BY <2>7
      <3> HIDE DEF k
      <3>4. AgreeUpTo(m, f, h)
        BY <1>2, <2>6, <3>1, <3>2, <3>3, FlattenAgrees
      <3> QED
        BY <2>6, <3>1, <3>4 DEF AgreeUpTo, FlattenedUpTo
    <2>9. /\ \A i \in 1..n : t[i] \in Seq(S) /\ g[i] \in Seq(S)
          /\ n > 0 => g[1] = t[1]
          /\ \A i \in 1..(n - 1) : g[i + 1] = g[i] \o t[i + 1]
          /\ \A i \in 1..((m + n) - 1) : h[i + 1] = h[i] \o u[i + 1]
      <3>1. /\ \A i \in 1..n : t[i] \in Seq(S) /\ g[i] \in Seq(S)
            /\ n > 0 => g[1] = t[1]
            /\ \A i \in 1..(n - 1) : g[i + 1] = g[i] \o t[i + 1]
        BY <2>6 DEF FlattenedUpTo
      <3>2. \A i \in 1..((m + n) - 1) : h[i + 1] = h[i] \o u[i + 1]
        BY <2>7 DEF FlattenedUpTo
      <3> QED
        BY <3>1, <3>2
    <2> HIDE DEF m, n
    <2> DEFINE T == {i \in 1..n : h[m + i] = f[m] \o g[i]}
    <2>10. n > 0 => 1 \in T
      <3>1. m \in 1..((m + n) - 1) /\ 1 \in 1..n
        BY <1>2, <1>7
      <3>2. h[m + 1] = h[m] \o u[m + 1] /\ u[m + 1] = t[1]
        BY <1>2, <2>9, <3>1
      <3> QED
        BY <1>7, <2>8, <2>9, <3>1, <3>2
    <2>11. ASSUME NEW i \in 1..(n - 1), i \in T PROVE i + 1 \in T
      <3>1. m + i \in 1..((m + n) - 1) /\ i \in 1..n /\ i + 1 \in 1..n /\ m + i + 1 = m + (i + 1)
        BY <1>2
      <3>2. h[m + i + 1] = h[m + i] \o u[m + i + 1]
        BY <2>9, <3>1
      <3>3. u[m + (i + 1)] = t[i + 1]
        BY <1>2, <3>1
      <3>4. h[m + (i + 1)] = (f[m] \o g[i]) \o t[i + 1]
        BY <2>11, <3>1, <3>2, <3>3
      <3> DEFINE a == f[m]
                 b == g[i]
                 c == t[i + 1]
      <3>5. a \in Seq(S) /\ b \in Seq(S) /\ c \in Seq(S)
        BY <2>8, <2>9, <3>1
      <3>6. (a \o b) \o c = a \o (b \o c)
        <4> HIDE DEF a, b, c
        <4> QED
          BY <3>5, ConcatAssociative
      <3>7. g[i + 1] = g[i] \o t[i + 1]
        BY <2>9
      <3> QED
        BY <3>1, <3>4, <3>6, <3>7
    <2>12. 1..n \subseteq T
      <3> HIDE DEF T
      <3> QED
        BY <1>2, <2>10, <2>11, Climb
    <2>13. h[m + n] = f[m] \o g[n]
      <3>1. n \in 1..n
        BY <1>2, <1>7
      <3> QED
        BY <2>12, <3>1
    <2> QED
      BY <1>3, <1>4, <2>1, <2>2, <2>5, <2>13 DEF u
  <1> QED
    BY <1>2, <1>5, <1>6, <1>7

LEMMA FlattenSmall ==
  ASSUME NEW S, NEW a \in Seq(S), NEW b \in Seq(S)
  PROVE  /\ FlattenSeq(<<>>) = <<>>
         /\ <<a>> \in Seq(Seq(S)) /\ FlattenSeq(<<a>>) = a
         /\ <<a, b>> \in Seq(Seq(S)) /\ FlattenSeq(<<a, b>>) = a \o b
  <1>1. FlattenSeq(<<>>) = <<>>
    <2>1. <<>> \in Seq(S) /\ Len(<<>>) = 0
      BY EmptySeq
    <2> QED
      BY <2>1, FlattenBy
  <1>2. <<a>> \in Seq(Seq(S)) /\ FlattenSeq(<<a>>) = a
    <2> DEFINE s == <<a>>
    <2>1. s \in Seq(Seq(S)) /\ Len(s) = 1 /\ s[1] = a
      OBVIOUS
    <2> HIDE DEF s
    <2>2. PICK f : FlattenedBy(f, s) /\ FlattenSeq(s) = f[Len(s)]
      <3>1. Len(s) > 0
        BY <2>1
      <3> QED
        BY <2>1, <3>1, FlattenSome
    <2>3. FlattenedUpTo(S, 1, f, s)
      BY <2>1, <2>2, FlattenSteps
    <2>4. FlattenSeq(s) = a
      BY <2>1, <2>2, <2>3 DEF FlattenedUpTo
    <2> QED
      BY <2>1, <2>4 DEF s
  <1>3. <<a, b>> \in Seq(Seq(S)) /\ FlattenSeq(<<a, b>>) = a \o b
    <2> DEFINE s == <<a, b>>
    <2>1. s \in Seq(Seq(S)) /\ Len(s) = 2 /\ s[1] = a /\ s[2] = b
      OBVIOUS
    <2> HIDE DEF s
    <2>2. PICK f : FlattenedBy(f, s) /\ FlattenSeq(s) = f[Len(s)]
      <3>1. Len(s) > 0
        BY <2>1
      <3> QED
        BY <2>1, <3>1, FlattenSome
    <2>3. FlattenedUpTo(S, 2, f, s)
      BY <2>1, <2>2, FlattenSteps
    <2>4. f[1] = s[1]
      BY <2>3 DEF FlattenedUpTo
    <2>5. f[1 + 1] = f[1] \o s[1 + 1]
      <3>1. 1 \in 1..(2 - 1)
        OBVIOUS
      <3> QED
        BY <2>3, <3>1 DEF FlattenedUpTo
    <2>6. FlattenSeq(s) = a \o b
      BY <2>1, <2>2, <2>4, <2>5
    <2> QED
      BY <2>1, <2>6 DEF s
  <1> QED
    BY <1>1, <1>2, <1>3

\* The elements of the parts, and nothing else, are left when they are joined.
LEMMA FlattenElements ==
  ASSUME NEW S, NEW s \in Seq(Seq(S))
  PROVE  ToSet(FlattenSeq(s)) = UNION {ToSet(s[i]) : i \in DOMAIN s}
  <1> DEFINE n == Len(s)
  <1>1. n \in Nat
    BY FlattenSome
  <1>2. DOMAIN s = 1..n
    BY LenProperties
  <1>3. CASE n = 0
    <2>1. FlattenSeq(s) = <<>>
      BY <1>3, FlattenSome
    <2>2. DOMAIN <<>> = {} /\ 1..n = {}
      BY <1>3
    <2> HIDE DEF n
    <2> QED
      BY <1>2, <2>1, <2>2 DEF ToSet
  <1>4. CASE n > 0
    <2>1. PICK f : FlattenedBy(f, s) /\ FlattenSeq(s) = f[n]
      BY <1>4, FlattenSome
    <2>2. /\ \A i \in 1..n : s[i] \in Seq(S) /\ f[i] \in Seq(S)
          /\ n > 0 => f[1] = s[1]
          /\ \A i \in 1..(n - 1) : f[i + 1] = f[i] \o s[i + 1]
      <3>1. FlattenedUpTo(S, n, f, s)
        BY <1>1, <2>1, FlattenSteps
      <3> QED
        BY <3>1 DEF FlattenedUpTo
    <2> HIDE DEF n
    <2> DEFINE Upto(i) == UNION {ToSet(s[j]) : j \in 1..i}
               T == {i \in 1..n : ToSet(f[i]) = Upto(i)}
    <2>3. n > 0 => 1 \in T
      <3>1. 1..1 = {1} /\ 1 \in 1..n
        BY <1>1, <1>4
      <3>2. Upto(1) = ToSet(s[1])
        BY <3>1
      <3> HIDE DEF Upto
      <3> QED
        BY <1>4, <2>2, <3>1, <3>2
    <2>4. ASSUME NEW i \in 1..(n - 1), i \in T PROVE i + 1 \in T
      <3>1. i + 1 \in 1..n /\ i \in 1..n /\ 1..(i + 1) = 1..i \cup {i + 1}
        BY <1>1
      <3>2. f[i] \in Seq(S) /\ s[i + 1] \in Seq(S)
        BY <2>2, <3>1
      <3>3. ToSet(f[i] \o s[i + 1]) = ToSet(f[i]) \cup ToSet(s[i + 1])
        BY <3>2, ElementsOfConcat
      <3>4. Upto(i + 1) = Upto(i) \cup ToSet(s[i + 1])
        BY <3>1
      <3> HIDE DEF Upto
      <3> QED
        BY <2>2, <2>4, <3>1, <3>3, <3>4
    <2>5. 1..n \subseteq T
      <3> HIDE DEF T
      <3> QED
        BY <1>1, <2>3, <2>4, Climb
    <2>6. ToSet(f[n]) = Upto(n)
      <3> HIDE DEF Upto
      <3>1. n \in 1..n
        BY <1>1, <1>4
      <3> QED
        BY <2>5, <3>1
    <2> QED
      BY <1>2, <2>1, <2>6
  <1> QED
    BY <1>1, <1>3, <1>4

----------------------------------------------------------------------------
(* Sequences made of others *)

LEMMA FunctionIsSeq ==
  ASSUME NEW S, NEW n \in Nat, NEW f \in [1..n -> S]
  PROVE  f \in Seq(S) /\ Len(f) = n
  <1>1. f \in Seq(S)
    BY SeqDef
  <1>2. Len(f) \in Nat /\ DOMAIN f = 1..Len(f) /\ DOMAIN f = 1..n
    BY <1>1, LenProperties
  <1> QED
    BY <1>1, <1>2

\* A sequence that begins like one and goes on like another is the two joined.
LEMMA ConcatIs ==
  ASSUME NEW S, NEW s \in Seq(S), NEW t \in Seq(S), NEW u \in Seq(S),
         Len(u) = Len(s) + Len(t),
         \A i \in 1..Len(s) : u[i] = s[i],
         \A i \in 1..Len(t) : u[Len(s) + i] = t[i]
  PROVE  u = s \o t
  <1> DEFINE m == Len(s)
             n == Len(t)
             v == s \o t
  <1>1. /\ m \in Nat /\ n \in Nat /\ v \in Seq(S) /\ Len(v) = m + n
        /\ \A i \in 1..m : v[i] = s[i]
        /\ \A i \in 1..n : v[m + i] = t[i]
    BY ConcatParts
  <1>2. /\ Len(u) = m + n
        /\ \A i \in 1..m : u[i] = s[i]
        /\ \A i \in 1..n : u[m + i] = t[i]
    OBVIOUS
  <1> HIDE DEF m, n, v
  <1>3. ASSUME NEW i \in 1..Len(u) PROVE u[i] = v[i]
    <2>1. CASE i <= m
      BY <1>1, <1>2, <2>1
    <2>2. CASE ~(i <= m)
      <3> DEFINE j == i - m
      <3>1. j \in 1..n /\ i = m + j
        BY <1>1, <1>2, <2>2
      <3> HIDE DEF j
      <3> QED
        BY <1>1, <1>2, <3>1
    <2> QED
      BY <2>1, <2>2
  <1>4. u = v
    BY <1>1, <1>2, <1>3, SeqEqual
  <1> QED
    BY <1>4 DEF v

LEMMA TuplesJoined ==
  ASSUME NEW a, NEW b, NEW c, NEW d
  PROVE  /\ <<a, b>> = <<a>> \o <<b>>
         /\ <<a, b, c>> = <<a, b>> \o <<c>>
         /\ <<a, b, c, d>> = <<a, b>> \o <<c, d>>
  <1> DEFINE S == {a, b, c, d}
  <1>1. /\ <<a>> \in Seq(S) /\ <<b>> \in Seq(S) /\ <<c>> \in Seq(S)
        /\ <<a, b>> \in Seq(S) /\ <<c, d>> \in Seq(S) /\ <<a, b, c>> \in Seq(S)
        /\ <<a, b, c, d>> \in Seq(S)
    OBVIOUS
  <1>2. /\ Len(<<a>>) = 1 /\ Len(<<b>>) = 1 /\ Len(<<c>>) = 1
        /\ Len(<<a, b>>) = 2 /\ Len(<<c, d>>) = 2 /\ Len(<<a, b, c>>) = 3
        /\ Len(<<a, b, c, d>>) = 4
    OBVIOUS
  <1>3. <<a, b>> = <<a>> \o <<b>>
    <2>1. Len(<<a, b>>) = Len(<<a>>) + Len(<<b>>)
      BY <1>2
    <2>2. \A i \in 1..Len(<<a>>) : <<a, b>>[i] = <<a>>[i]
      BY <1>2
    <2>3. \A i \in 1..Len(<<b>>) : <<a, b>>[Len(<<a>>) + i] = <<b>>[i]
      BY <1>2
    <2> HIDE DEF S
    <2> QED
      BY <1>1, <2>1, <2>2, <2>3, ConcatIs
  <1>4. <<a, b, c>> = <<a, b>> \o <<c>>
    <2>1. Len(<<a, b, c>>) = Len(<<a, b>>) + Len(<<c>>)
      BY <1>2
    <2>2. \A i \in 1..Len(<<a, b>>) : <<a, b, c>>[i] = <<a, b>>[i]
      BY <1>2
    <2>3. \A i \in 1..Len(<<c>>) : <<a, b, c>>[Len(<<a, b>>) + i] = <<c>>[i]
      BY <1>2
    <2> HIDE DEF S
    <2> QED
      BY <1>1, <2>1, <2>2, <2>3, ConcatIs
  <1>5. <<a, b, c, d>> = <<a, b>> \o <<c, d>>
    <2>1. Len(<<a, b, c, d>>) = Len(<<a, b>>) + Len(<<c, d>>)
      BY <1>2
    <2>2. \A i \in 1..Len(<<a, b>>) : <<a, b, c, d>>[i] = <<a, b>>[i]
      BY <1>2
    <2>3. \A i \in 1..Len(<<c, d>>) : <<a, b, c, d>>[Len(<<a, b>>) + i] = <<c, d>>[i]
      BY <1>2
    <2> HIDE DEF S
    <2> QED
      BY <1>1, <2>1, <2>2, <2>3, ConcatIs
  <1> QED
    BY <1>3, <1>4, <1>5

----------------------------------------------------------------------------
(* Numbers in a row *)

\* The k numbers that follow n, and a sequence of sequences that holds them.
Consecutive(n, k) == [i \in 1..k |-> n + i]
Lays(s, n, k) == s \in Seq(Seq(Nat)) /\ FlattenSeq(s) = Consecutive(n, k)

LEMMA RunTyped ==
  ASSUME NEW n \in Nat, NEW k \in Nat
  PROVE  Consecutive(n, k) \in Seq(Nat) /\ Len(Consecutive(n, k)) = k /\ Consecutive(n, 0) = <<>> /\ Consecutive(n, 1) = <<n + 1>>
  <1>1. Consecutive(n, k) \in [1..k -> Nat]
    BY DEF Consecutive
  <1>2. Consecutive(n, k) \in Seq(Nat) /\ Len(Consecutive(n, k)) = k
    BY <1>1, FunctionIsSeq
  <1>3. Consecutive(n, 0) = <<>>
    BY DEF Consecutive
  <1>4. Consecutive(n, 1) = <<n + 1>>
    <2>1. 1..1 = {1}
      OBVIOUS
    <2>2. <<n + 1>> = [i \in {1} |-> n + i]
      OBVIOUS
    <2> QED
      BY <2>1, <2>2 DEF Consecutive
  <1> QED
    BY <1>2, <1>3, <1>4

LEMMA RunsJoined ==
  ASSUME NEW n \in Nat, NEW k \in Nat, NEW l \in Nat
  PROVE  Consecutive(n, k) \o Consecutive(n + k, l) = Consecutive(n, k + l)
  <1> DEFINE s == Consecutive(n, k)
             t == Consecutive(n + k, l)
             u == Consecutive(n, k + l)
  <1>1. /\ s \in Seq(Nat) /\ t \in Seq(Nat) /\ u \in Seq(Nat)
        /\ Len(s) = k /\ Len(t) = l /\ Len(u) = k + l
    <2>1. n + k \in Nat /\ k + l \in Nat
      OBVIOUS
    <2> QED
      BY <2>1, RunTyped
  <1>2. \A i \in 1..k : u[i] = s[i]
    BY DEF Consecutive
  <1>3. ASSUME NEW i \in 1..l PROVE u[k + i] = t[i]
    <2>1. k + i \in 1..(k + l) /\ n + (k + i) = n + k + i
      OBVIOUS
    <2> QED
      BY <2>1 DEF Consecutive
  <1>4. u = s \o t
    <2> HIDE DEF s, t, u
    <2>1. Len(u) = Len(s) + Len(t)
      BY <1>1
    <2>2. \A i \in 1..Len(s) : u[i] = s[i]
      BY <1>1, <1>2
    <2>3. \A i \in 1..Len(t) : u[Len(s) + i] = t[i]
      BY <1>1, <1>3
    <2> QED
      BY <1>1, <2>1, <2>2, <2>3, ConcatIs
  <1> QED
    BY <1>4

LEMMA LaysJoined ==
  ASSUME NEW s, NEW t, NEW n \in Nat, NEW k \in Nat, NEW l \in Nat,
         Lays(s, n, k), Lays(t, n + k, l)
  PROVE  Lays(s \o t, n, k + l)
  <1>1. s \in Seq(Seq(Nat)) /\ t \in Seq(Seq(Nat))
    BY DEF Lays
  <1>2. s \o t \in Seq(Seq(Nat)) /\ FlattenSeq(s \o t) = FlattenSeq(s) \o FlattenSeq(t)
    BY <1>1, FlattenConcat
  <1>3. FlattenSeq(s) = Consecutive(n, k) /\ FlattenSeq(t) = Consecutive(n + k, l)
    BY DEF Lays
  <1>4. Consecutive(n, k) \o Consecutive(n + k, l) = Consecutive(n, k + l)
    BY RunsJoined
  <1> QED
    BY <1>2, <1>3, <1>4 DEF Lays

\* Nothing in every place is nothing, one number in every place a run.
LEMMA LaysPlaces ==
  ASSUME NEW n \in Nat, NEW k \in Nat, NEW s, DOMAIN s = 1..k, s = [i \in 1..k |-> s[i]]
  PROVE  /\ (\A i \in 1..k : s[i] = <<>>) => Lays(s, n, 0)
         /\ (\A i \in 1..k : s[i] = <<n + i>>) => Lays(s, n, k)
  <1>1. ASSUME NEW g, DOMAIN g = 0..k, g[0] = <<>>,
               \A i \in 1..k : s[i] \in Seq(Nat) /\ g[i] = g[i - 1] \o s[i] /\ g[i] \in Seq(Nat)
        PROVE  s \in Seq(Seq(Nat)) /\ FlattenSeq(s) = g[k]
    <2>1. s \in Seq(Seq(Nat)) /\ Len(s) = k
      <3>1. s \in [1..k -> Seq(Nat)]
        BY <1>1
      <3> QED
        BY <3>1, FunctionIsSeq
    <2>2. CASE k = 0
      BY <1>1, <2>1, <2>2, FlattenSome
    <2>3. CASE k > 0
      <3>1. PICK f : FlattenedBy(f, s) /\ FlattenSeq(s) = f[k]
        BY <2>1, <2>3, FlattenSome
      <3>2. FlattenedUpTo(Nat, k, f, s)
        BY <2>1, <3>1, FlattenSteps
      <3>3. f[1] = s[1] /\ \A i \in 1..(k - 1) : f[i + 1] = f[i] \o s[i + 1]
        BY <2>3, <3>2 DEF FlattenedUpTo
      <3> DEFINE T == {i \in 1..k : f[i] = g[i]}
      <3>4. k > 0 => 1 \in T
        <4>1. 1 \in 1..k /\ 1 - 1 = 0
          BY <2>3
        <4>2. s[1] \in Seq(Nat) /\ g[1] = g[1 - 1] \o s[1]
          BY <1>1, <4>1
        <4>3. g[1] = <<>> \o s[1]
          BY <1>1, <4>1, <4>2
        <4>4. <<>> \o s[1] = s[1]
          BY <4>2, ConcatEmptySeq
        <4> QED
          BY <3>3, <4>1, <4>3, <4>4
      <3>5. ASSUME NEW i \in 1..(k - 1), i \in T PROVE i + 1 \in T
        <4> DEFINE j == i + 1
        <4>1. j \in 1..k /\ j - 1 = i
          OBVIOUS
        <4>2. f[j] = f[i] \o s[j] /\ f[i] = g[i]
          BY <3>3, <3>5
        <4> HIDE DEF j
        <4>3. g[j] = g[j - 1] \o s[j]
          BY <1>1, <4>1
        <4>4. j \in T
          BY <4>1, <4>2, <4>3
        <4> QED
          BY <4>4 DEF j
      <3>6. 1..k \subseteq T
        <4> HIDE DEF T
        <4> QED
          BY <3>4, <3>5, Climb
      <3>7. k \in 1..k
        BY <2>3
      <3> QED
        BY <2>1, <3>1, <3>6, <3>7
    <2> QED
      BY <2>2, <2>3
  <1>2. ASSUME \A i \in 1..k : s[i] = <<>> PROVE Lays(s, n, 0)
    <2> DEFINE g == [i \in 0..k |-> <<>>]
    <2>1. <<>> \in Seq(Nat) /\ <<>> \o <<>> = <<>>
      BY EmptySeq, ConcatEmptySeq
    <2>2. /\ DOMAIN g = 0..k /\ g[0] = <<>> /\ g[k] = <<>>
          /\ \A i \in 1..k : s[i] \in Seq(Nat) /\ g[i] = g[i - 1] \o s[i] /\ g[i] \in Seq(Nat)
      <3>1. 0 \in 0..k /\ k \in 0..k /\ \A i \in 1..k : i \in 0..k /\ i - 1 \in 0..k
        OBVIOUS
      <3> QED
        BY <1>2, <2>1, <3>1
    <2> HIDE DEF g
    <2>3. s \in Seq(Seq(Nat)) /\ FlattenSeq(s) = g[k]
      BY <1>1, <2>2
    <2> QED
      BY <2>2, <2>3, RunTyped DEF Lays
  <1>3. ASSUME \A i \in 1..k : s[i] = <<n + i>> PROVE Lays(s, n, k)
    <2> DEFINE g == [i \in 0..k |-> Consecutive(n, i)]
    <2>1. DOMAIN g = 0..k /\ g[0] = <<>> /\ g[k] = Consecutive(n, k)
      BY RunTyped
    <2>2. ASSUME NEW i \in 1..k
          PROVE  s[i] \in Seq(Nat) /\ g[i] = g[i - 1] \o s[i] /\ g[i] \in Seq(Nat)
      <3> DEFINE j == i - 1
      <3>1. i \in Nat /\ i \in 0..k /\ j \in Nat /\ j \in 0..k /\ j + 1 = i /\ n + j \in Nat
            /\ n + j + 1 = n + i
        OBVIOUS
      <3>2. g[i] = Consecutive(n, i) /\ g[j] = Consecutive(n, j)
        BY <3>1
      <3> HIDE DEF g, j
      <3>3. Consecutive(n + j, 1) = <<n + i>>
        BY <3>1, RunTyped
      <3>4. Consecutive(n, j) \o Consecutive(n + j, 1) = Consecutive(n, i)
        <4>1. Consecutive(n, j) \o Consecutive(n + j, 1) = Consecutive(n, j + 1)
          BY <3>1, RunsJoined
        <4> QED
          BY <3>1, <4>1
      <3>5. Consecutive(n, i) \in Seq(Nat) /\ Consecutive(n + j, 1) \in Seq(Nat)
        BY <3>1, RunTyped
      <3> QED
        BY <1>3, <3>2, <3>3, <3>4, <3>5 DEF j
    <2> HIDE DEF g
    <2>3. s \in Seq(Seq(Nat)) /\ FlattenSeq(s) = g[k]
      BY <1>1, <2>1, <2>2
    <2> QED
      BY <2>1, <2>3 DEF Lays
  <1> QED
    BY <1>2, <1>3
=============================================================================
