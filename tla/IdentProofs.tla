---------------------------- MODULE IdentProofs ----------------------------
(***************************************************************************)
(* For every set of names, however long: what is printed between quotes is *)
(* read back as it was given, and the CTEs of a statement have names of    *)
(* their own as long as Postgres keeps them whole.                         *)
(***************************************************************************)
EXTENDS Idents, SequenceFacts, FiniteSetTheorems

Chars == Seq(Char)

LEMMA SmallTexts ==
  /\ Quote \in Char /\ <<>> \in Chars
  /\ \A c \in Char : <<c>> \in Chars /\ Len(<<c>>) = 1 /\ <<c>>[1] = c
  /\ \A c, d \in Char : <<c, d>> \in Chars /\ Len(<<c, d>>) = 2 /\ <<c, d>>[1] = c /\ <<c, d>>[2] = d
  <1>1. ASSUME NEW S, NEW a \in S, NEW b \in S
        PROVE  <<>> \in Seq(S) /\ <<a>> \in Seq(S) /\ <<a, b>> \in Seq(S)
    OBVIOUS
  <1>2. <<>> \in Chars
    BY DEF Chars
  <1>3. Quote \in Char
    BY CharAssumption
  <1>4. ASSUME NEW c \in Char
        PROVE  <<c>> \in Chars /\ Len(<<c>>) = 1 /\ <<c>>[1] = c
    BY <1>1 DEF Chars
  <1>5. ASSUME NEW c \in Char, NEW d \in Char
        PROVE  <<c, d>> \in Chars /\ Len(<<c, d>>) = 2 /\ <<c, d>>[1] = c /\ <<c, d>>[2] = d
    BY <1>1 DEF Chars
  <1> QED
    BY <1>2, <1>3, <1>4, <1>5

----------------------------------------------------------------------------
(* Counting quotes *)

LEMMA QuotesStep ==
  ASSUME NEW x, NEW n \in Nat
  PROVE  /\ Quotes(x, 0) = 0
         /\ Quotes(x, n) \in Nat
         /\ Quotes(x, n + 1) = Quotes(x, n) + (IF x[n + 1] = Quote THEN 1 ELSE 0)
  <1> DEFINE Q(k) == {i \in 1..k : x[i] = Quote}
  <1>1. \A k : Quotes(x, k) = Cardinality(Q(k))
    BY DEF Quotes
  <1>2. Q(0) = {}
    OBVIOUS
  <1>3. IsFiniteSet(Q(n))
    <2>1. IsFiniteSet(1..n)
      BY FS_Interval
    <2>2. Q(n) \in SUBSET (1..n)
      OBVIOUS
    <2> HIDE DEF Q
    <2> QED
      BY <2>1, <2>2, FS_Subset
  <1>4. Q(n + 1) = IF x[n + 1] = Quote THEN Q(n) \cup {n + 1} ELSE Q(n)
    <2>1. 1..(n + 1) = 1..n \cup {n + 1}
      OBVIOUS
    <2> QED
      BY <2>1
  <1>5. n + 1 \notin Q(n)
    OBVIOUS
  <1> HIDE DEF Q
  <1>6. Quotes(x, 0) = 0 /\ Quotes(x, n) \in Nat
    <2>1. Cardinality({}) = 0 /\ Cardinality(Q(n)) \in Nat
      BY <1>3, FS_EmptySet, FS_CardinalityType
    <2> QED
      BY <1>1, <1>2, <2>1
  <1>7. Cardinality(Q(n) \cup {n + 1}) = Cardinality(Q(n)) + 1
    BY <1>3, <1>5, FS_AddElement
  <1>8. CASE x[n + 1] = Quote
    <2>1. Q(n + 1) = Q(n) \cup {n + 1}
      BY <1>4, <1>8
    <2>2. Quotes(x, n + 1) = Quotes(x, n) + 1
      BY <1>1, <1>7, <2>1
    <2> QED
      BY <1>6, <1>8, <2>2
  <1>9. CASE x[n + 1] # Quote
    <2>1. Quotes(x, n + 1) = Quotes(x, n)
      BY <1>1, <1>4, <1>9
    <2> QED
      BY <1>6, <1>9, <2>1
  <1> QED
    BY <1>6, <1>8, <1>9

\* Two texts that agree have as many quotes.
LEMMA QuotesAgree ==
  ASSUME NEW x, NEW y, NEW n \in Nat, \A i \in 1..n : x[i] = y[i]
  PROVE  Quotes(x, n) = Quotes(y, n)
  <1>1. {i \in 1..n : x[i] = Quote} = {i \in 1..n : y[i] = Quote}
    OBVIOUS
  <1> QED
    BY <1>1 DEF Quotes

LEMMA QuotesOfConcat ==
  ASSUME NEW x \in Chars, NEW y \in Chars
  PROVE  /\ \A i \in 0..Len(x) : Quotes(x \o y, i) = Quotes(x, i)
         /\ \A j \in 0..Len(y) : Quotes(x \o y, Len(x) + j) = Quotes(x, Len(x)) + Quotes(y, j)
  <1> DEFINE z == x \o y
             m == Len(x)
             n == Len(y)
  <1>1. /\ m \in Nat /\ n \in Nat
        /\ \A i \in 1..m : z[i] = x[i]
        /\ \A i \in 1..n : z[m + i] = y[i]
    BY ConcatParts DEF Chars
  <1> HIDE DEF z, m, n
  <1>2. ASSUME NEW i \in 0..m PROVE Quotes(z, i) = Quotes(x, i)
    <2>1. i \in Nat /\ \A k \in 1..i : z[k] = x[k]
      BY <1>1
    <2> QED
      BY <2>1, QuotesAgree
  <1> DEFINE T == {j \in 1..n : Quotes(z, m + j) = Quotes(x, m) + Quotes(y, j)}
  <1>3. \A j \in Nat : j < n /\ Quotes(z, m + j) = Quotes(x, m) + Quotes(y, j) => j + 1 \in T
    <2> SUFFICES ASSUME NEW j \in Nat, j < n, Quotes(z, m + j) = Quotes(x, m) + Quotes(y, j)
                 PROVE  j + 1 \in T
      OBVIOUS
    <2>1. z[(m + j) + 1] = y[j + 1]
      <3>1. j + 1 \in 1..n /\ (m + j) + 1 = m + (j + 1)
        BY <1>1
      <3> QED
        BY <1>1, <3>1
    <2>2. /\ Quotes(z, (m + j) + 1) = Quotes(z, m + j) + (IF z[(m + j) + 1] = Quote THEN 1 ELSE 0)
          /\ Quotes(z, m + j) \in Nat
      <3>1. m + j \in Nat
        BY <1>1
      <3> QED
        BY <3>1, QuotesStep
    <2>3. /\ Quotes(y, j + 1) = Quotes(y, j) + (IF y[j + 1] = Quote THEN 1 ELSE 0)
          /\ Quotes(y, j) \in Nat
      BY QuotesStep
    <2>4. Quotes(x, m) \in Nat
      BY <1>1, QuotesStep
    <2>5. Quotes(z, (m + j) + 1) = Quotes(x, m) + Quotes(y, j + 1)
      BY <2>1, <2>2, <2>3, <2>4
    <2>6. (m + j) + 1 = m + (j + 1) /\ j + 1 \in 1..n
      BY <1>1
    <2> QED
      BY <2>5, <2>6
  <1>4. Quotes(z, m + 0) = Quotes(x, m) + Quotes(y, 0)
    <2>1. Quotes(z, m) = Quotes(x, m) /\ Quotes(x, m) \in Nat /\ Quotes(y, 0) = 0
      BY <1>1, <1>2, QuotesStep
    <2> QED
      BY <1>1, <2>1
  <1>5. n > 0 => 1 \in T
    BY <1>1, <1>3, <1>4
  <1>6. \A j \in 1..(n - 1) : j \in T => j + 1 \in T
    BY <1>1, <1>3
  <1>7. 1..n \subseteq T
    <2> HIDE DEF T
    <2> QED
      BY <1>1, <1>5, <1>6, Climb
  <1>8. \A j \in 0..n : Quotes(z, m + j) = Quotes(x, m) + Quotes(y, j)
    BY <1>1, <1>4, <1>7
  <1> QED
    BY <1>2, <1>8 DEF z, m, n

----------------------------------------------------------------------------
(* Escaped texts *)

\* What is left of a text between quotes when two quotes are one, and the text
\* it is read as: no quote of it is the last one of an odd number.
Singled(u) ==
  [i \in 1..Len(u) |-> IF u[i] = Quote /\ Quotes(u, i) % 2 = 0 THEN <<>> ELSE <<u[i]>>]
Doubled(u) ==
  /\ Quotes(u, Len(u)) % 2 = 0
  /\ \A i \in 1..Len(u) : u[i] = Quote /\ Quotes(u, i) % 2 = 1 => i < Len(u) /\ u[i + 1] = Quote
ReadsAs(u, x) == u \in Chars /\ x \in Chars /\ Doubled(u) /\ FlattenSeq(Singled(u)) = x

LEMMA SingledTyped ==
  ASSUME NEW u \in Chars
  PROVE  Singled(u) \in Seq(Chars) /\ Len(Singled(u)) = Len(u) /\ Len(u) \in Nat
  <1>1. Len(u) \in Nat /\ \A i \in 1..Len(u) : u[i] \in Char
    BY LenProperties, ElementOfSeq DEF Chars
  <1>2. <<>> \in Chars /\ \A c \in Char : <<c>> \in Chars
    BY SmallTexts
  <1>3. Singled(u) \in [1..Len(u) -> Chars]
    BY <1>1, <1>2 DEF Singled
  <1> QED
    BY <1>1, <1>3, FunctionIsSeq

LEMMA DoubledConcat ==
  ASSUME NEW u \in Chars, NEW v \in Chars, Doubled(u), Doubled(v)
  PROVE  Doubled(u \o v) /\ Singled(u \o v) = Singled(u) \o Singled(v)
  <1> DEFINE w == u \o v
             m == Len(u)
             n == Len(v)
  <1>1. /\ m \in Nat /\ n \in Nat /\ w \in Chars /\ Len(w) = m + n
        /\ \A i \in 1..m : w[i] = u[i]
        /\ \A i \in 1..n : w[m + i] = v[i]
    BY ConcatParts DEF Chars
  <1>2. /\ \A i \in 0..m : Quotes(w, i) = Quotes(u, i)
        /\ \A i \in 0..n : Quotes(w, m + i) = Quotes(u, m) + Quotes(v, i)
    BY QuotesOfConcat
  <1>3. \A i \in Nat : Quotes(u, i) \in Nat /\ Quotes(v, i) \in Nat
    BY QuotesStep
  <1>4. Quotes(u, m) % 2 = 0 /\ Quotes(v, n) % 2 = 0
    BY DEF Doubled
  <1>5. \A i \in 1..n : Quotes(w, m + i) % 2 = Quotes(v, i) % 2
    <2> SUFFICES ASSUME NEW i \in 1..n PROVE Quotes(w, m + i) % 2 = Quotes(v, i) % 2
      OBVIOUS
    <2>1. Quotes(w, m + i) = Quotes(u, m) + Quotes(v, i) /\ Quotes(u, m) \in Nat /\ Quotes(v, i) \in Nat
      BY <1>1, <1>2, <1>3
    <2> QED
      BY <1>4, <2>1
  <1>6. Quotes(w, Len(w)) % 2 = 0
    <2>1. Quotes(w, m + n) = Quotes(u, m) + Quotes(v, n) /\ Quotes(u, m) \in Nat /\ Quotes(v, n) \in Nat
      BY <1>1, <1>2, <1>3
    <2> QED
      BY <1>1, <1>4, <2>1
  <1>7. /\ \A i \in 1..m : u[i] = Quote /\ Quotes(u, i) % 2 = 1 => i < m /\ u[i + 1] = Quote
        /\ \A i \in 1..n : v[i] = Quote /\ Quotes(v, i) % 2 = 1 => i < n /\ v[i + 1] = Quote
    BY DEF Doubled
  <1>8. /\ Singled(u) \in Seq(Chars) /\ Len(Singled(u)) = m
        /\ Singled(v) \in Seq(Chars) /\ Len(Singled(v)) = n
        /\ Singled(w) \in Seq(Chars) /\ Len(Singled(w)) = m + n
    BY <1>1, SingledTyped
  <1>9. /\ \A i \in 1..m : Singled(u)[i] = IF u[i] = Quote /\ Quotes(u, i) % 2 = 0 THEN <<>> ELSE <<u[i]>>
        /\ \A i \in 1..n : Singled(v)[i] = IF v[i] = Quote /\ Quotes(v, i) % 2 = 0 THEN <<>> ELSE <<v[i]>>
        /\ \A i \in 1..(m + n) :
             Singled(w)[i] = IF w[i] = Quote /\ Quotes(w, i) % 2 = 0 THEN <<>> ELSE <<w[i]>>
    BY <1>1 DEF Singled
  <1> HIDE DEF w, m, n
  <1>10. ASSUME NEW i \in 1..(m + n), w[i] = Quote, Quotes(w, i) % 2 = 1
         PROVE  i < m + n /\ w[i + 1] = Quote
    <2>1. CASE i <= m
      <3>1. u[i] = Quote /\ Quotes(u, i) % 2 = 1 /\ i \in 1..m
        BY <1>1, <1>2, <1>10, <2>1
      <3>2. i < m /\ u[i + 1] = Quote
        BY <1>7, <3>1
      <3> QED
        BY <1>1, <3>2
    <2>2. CASE i > m
      <3>1. i - m \in 1..n /\ m + (i - m) = i
        BY <1>1, <2>2
      <3>2. v[i - m] = Quote /\ Quotes(v, i - m) % 2 = 1
        BY <1>1, <1>5, <1>10, <3>1
      <3>3. i - m < n /\ v[(i - m) + 1] = Quote
        BY <1>7, <3>1, <3>2
      <3>4. (i - m) + 1 \in 1..n /\ m + ((i - m) + 1) = i + 1
        BY <1>1, <3>1, <3>3
      <3> QED
        BY <1>1, <3>1, <3>3, <3>4
    <2> QED
      BY <1>1, <2>1, <2>2
  <1>11. Doubled(w)
    BY <1>1, <1>6, <1>10 DEF Doubled
  <1>12. \A i \in 1..m : Singled(w)[i] = Singled(u)[i]
    <2> SUFFICES ASSUME NEW i \in 1..m PROVE Singled(w)[i] = Singled(u)[i]
      OBVIOUS
    <2>1. w[i] = u[i] /\ Quotes(w, i) = Quotes(u, i) /\ i \in 1..(m + n)
      BY <1>1, <1>2
    <2> QED
      BY <1>9, <2>1
  <1>13. \A i \in 1..n : Singled(w)[m + i] = Singled(v)[i]
    <2> SUFFICES ASSUME NEW i \in 1..n PROVE Singled(w)[m + i] = Singled(v)[i]
      OBVIOUS
    <2>1. w[m + i] = v[i] /\ Quotes(w, m + i) % 2 = Quotes(v, i) % 2 /\ m + i \in 1..(m + n)
      BY <1>1, <1>5
    <2> QED
      BY <1>9, <2>1
  <1>14. Singled(w) = Singled(u) \o Singled(v)
    BY <1>8, <1>12, <1>13, ConcatIs
  <1> QED
    BY <1>11, <1>14 DEF w

LEMMA ReadsConcat ==
  ASSUME NEW u, NEW v, NEW x, NEW y, ReadsAs(u, x), ReadsAs(v, y)
  PROVE  ReadsAs(u \o v, x \o y)
  <1>1. /\ u \in Chars /\ v \in Chars /\ x \in Chars /\ y \in Chars
        /\ Doubled(u) /\ Doubled(v) /\ FlattenSeq(Singled(u)) = x /\ FlattenSeq(Singled(v)) = y
    BY DEF ReadsAs
  <1>2. u \o v \in Chars /\ x \o y \in Chars
    BY <1>1 DEF Chars
  <1>3. Doubled(u \o v) /\ Singled(u \o v) = Singled(u) \o Singled(v)
    BY <1>1, DoubledConcat
  <1>4. Singled(u) \in Seq(Chars) /\ Singled(v) \in Seq(Chars)
    BY <1>1, SingledTyped
  <1>5. FlattenSeq(Singled(u) \o Singled(v)) = FlattenSeq(Singled(u)) \o FlattenSeq(Singled(v))
    BY <1>4, FlattenConcat DEF Chars
  <1> QED
    BY <1>1, <1>2, <1>3, <1>5 DEF ReadsAs

\* Nothing, a character that is no quote, and a quote.
LEMMA ReadsOne ==
  /\ ReadsAs(<<>>, <<>>)
  /\ \A c \in Char \ {Quote} : ReadsAs(<<c>>, <<c>>)
  /\ ReadsAs(<<Quote, Quote>>, <<Quote>>)
  <1>1. \A u : Quotes(u, 0) = 0
    BY QuotesStep
  <1>2. \A u : Quotes(u, 1) = IF u[1] = Quote THEN 1 ELSE 0
    <2> SUFFICES ASSUME NEW u PROVE Quotes(u, 1) = IF u[1] = Quote THEN 1 ELSE 0
      OBVIOUS
    <2>1. Quotes(u, 0 + 1) = Quotes(u, 0) + (IF u[0 + 1] = Quote THEN 1 ELSE 0)
      BY QuotesStep
    <2> QED
      BY <1>1, <2>1
  <1>3. ReadsAs(<<>>, <<>>)
    <2>1. Len(<<>>) = 0 /\ <<>> \in Chars
      BY EmptySeq DEF Chars
    <2>2. Singled(<<>>) = <<>>
      BY <2>1 DEF Singled
    <2>3. FlattenSeq(<<>>) = <<>>
      <3>1. <<>> \in Chars
        BY <2>1
      <3> QED
        BY <3>1, FlattenSmall DEF Chars
    <2> QED
      BY <1>1, <2>1, <2>2, <2>3 DEF ReadsAs, Doubled
  <1>4. ASSUME NEW c \in Char \ {Quote} PROVE ReadsAs(<<c>>, <<c>>)
    <2> DEFINE u == <<c>>
    <2>1. u \in Chars /\ Len(u) = 1 /\ u[1] = c
      BY SmallTexts
    <2>2. Quotes(u, 1) = 0
      BY <1>2, <2>1
    <2>3. Singled(u) = <<u>>
      <3> DEFINE s == Singled(u)
                 t == <<u>>
      <3>1. s \in Seq(Chars) /\ Len(s) = 1
        BY <2>1, SingledTyped
      <3>2. s[1] = <<u[1]>>
        <4>1. u[1] # Quote
          BY <2>1
        <4> HIDE DEF u
        <4>2. s = [i \in 1..1 |-> IF u[i] = Quote /\ Quotes(u, i) % 2 = 0 THEN <<>> ELSE <<u[i]>>]
          BY <2>1 DEF Singled
        <4> HIDE DEF s
        <4> QED
          BY <4>1, <4>2
      <3>3. t \in Seq(Chars) /\ Len(t) = 1 /\ t[1] = u
        <4> HIDE DEF u
        <4> QED
          BY <2>1
      <3> HIDE DEF s, t
      <3>4. \A i \in 1..Len(s) : s[i] = t[i]
        <4>1. <<u[1]>> = u
          BY <2>1
        <4>2. s[1] = t[1]
          BY <3>2, <3>3, <4>1
        <4> QED
          BY <3>1, <4>2
      <3>5. s = t
        BY <3>1, <3>3, <3>4, SeqEqual
      <3> QED
        BY <3>5 DEF s, t
    <2>4. FlattenSeq(<<u>>) = u
      <3> HIDE DEF u
      <3>1. u \in Seq(Char)
        BY <2>1 DEF Chars
      <3> QED
        BY <3>1, FlattenSmall
    <2> HIDE DEF u
    <2>5. Doubled(u)
      BY <2>1, <2>2 DEF Doubled
    <2>6. ReadsAs(u, u)
      BY <2>1, <2>3, <2>4, <2>5 DEF ReadsAs
    <2> QED
      BY <2>6 DEF u
  <1>5. ReadsAs(<<Quote, Quote>>, <<Quote>>)
    <2> DEFINE u == <<Quote, Quote>>
               x == <<Quote>>
    <2>1. u \in Chars /\ Len(u) = 2 /\ u[1] = Quote /\ u[2] = Quote /\ x \in Chars /\ <<>> \in Chars
      BY SmallTexts
    <2>2. Quotes(u, 1) = 1 /\ Quotes(u, 2) = 2
      <3>1. Quotes(u, 1) = 1
        BY <1>2, <2>1
      <3>2. Quotes(u, 1 + 1) = Quotes(u, 1) + (IF u[1 + 1] = Quote THEN 1 ELSE 0)
        BY QuotesStep
      <3> QED
        BY <2>1, <3>1, <3>2
    <2>3. Singled(u) = <<x, <<>>>>
      <3>1. Singled(u) = [i \in 1..2 |-> IF i = 2 THEN <<>> ELSE x]
        BY <2>1, <2>2 DEF Singled
      <3> QED
        BY <3>1
    <2>4. FlattenSeq(<<x, <<>>>>) = x
      <3> HIDE DEF x
      <3>1. x \in Seq(Char) /\ <<>> \in Seq(Char)
        BY <2>1 DEF Chars
      <3> DEFINE e == <<>>
      <3>2. e \in Seq(Char)
        BY <3>1
      <3> HIDE DEF e
      <3>3. FlattenSeq(<<x, e>>) = x \o e
        BY <3>1, <3>2, FlattenSmall
      <3>4. x \o <<>> = x
        BY <3>1, ConcatEmptySeq
      <3> QED
        BY <3>3, <3>4 DEF e
    <2> HIDE DEF u, x
    <2>5. Doubled(u)
      BY <2>1, <2>2 DEF Doubled
    <2>6. ReadsAs(u, x)
      BY <2>1, <2>3, <2>4, <2>5 DEF ReadsAs
    <2> QED
      BY <2>6 DEF u, x
  <1> QED
    BY <1>3, <1>4, <1>5

\* A text without quotes is read as it is.
LEMMA ReadsPlain ==
  ASSUME NEW x \in Seq(Char \ {Quote})
  PROVE  ReadsAs(x, x)
  <1> DEFINE n == Len(x)
             part(k) == SubSeq(x, 1, k)
             T == {k \in 1..n : ReadsAs(part(k), part(k))}
  <1>1. n \in Nat /\ \A i \in 1..n : x[i] \in Char \ {Quote}
    BY LenProperties, ElementOfSeq
  <1>2. part(0) = <<>> /\ part(n) = x
    BY SubSeqEmpty, SubSeqFull, <1>1
  <1>3. \A k \in 1..n : part(k) = part(k - 1) \o <<x[k]>>
    <2> SUFFICES ASSUME NEW k \in 1..n PROVE part(k) = part(k - 1) \o <<x[k]>>
      OBVIOUS
    <2>1. 1 \in 1..Len(x) /\ k \in 1..Len(x)
      BY <1>1
    <2> QED
      BY <2>1, SubSeqRecursiveSecond
  <1> HIDE DEF n, part
  <1>4. ASSUME NEW k \in 1..n, ReadsAs(part(k - 1), part(k - 1)) PROVE k \in T
    <2>1. ReadsAs(<<x[k]>>, <<x[k]>>)
      BY <1>1, ReadsOne
    <2>2. ReadsAs(part(k - 1) \o <<x[k]>>, part(k - 1) \o <<x[k]>>)
      BY <1>4, <2>1, ReadsConcat
    <2> QED
      BY <1>3, <2>2
  <1>5. ReadsAs(part(0), part(0))
    BY <1>2, ReadsOne
  <1>6. n > 0 => 1 \in T
    <2> SUFFICES ASSUME n > 0 PROVE 1 \in T
      OBVIOUS
    <2>1. 1 \in 1..n /\ 1 - 1 = 0
      BY <1>1
    <2> QED
      BY <1>4, <1>5, <2>1
  <1>7. ASSUME NEW k \in 1..(n - 1), k \in T PROVE k + 1 \in T
    <2>1. k + 1 \in 1..n /\ (k + 1) - 1 = k
      BY <1>1
    <2> QED
      BY <1>4, <1>7, <2>1
  <1>8. 1..n \subseteq T
    <2> HIDE DEF T
    <2> QED
      BY <1>1, <1>6, <1>7, Climb
  <1>9. CASE n = 0
    BY <1>2, <1>5, <1>9
  <1>10. CASE n > 0
    <2>1. n \in T
      BY <1>1, <1>8, <1>10
    <2> QED
      BY <1>2, <2>1
  <1> QED
    BY <1>1, <1>9, <1>10

\* check_routine: whatever the name, what is made of it is read back as the name.
LEMMA CheckedReads ==
  ASSUME NEW x \in Chars
  PROVE  ReadsAs(Checked(x), x) /\ (x = <<>> <=> Checked(x) = <<>>)
  <1> DEFINE n == Len(x)
             s == [i \in DOMAIN x |-> IF x[i] = Quote THEN <<Quote, Quote>> ELSE <<x[i]>>]
             part(k) == SubSeq(x, 1, k)
  <1>1. n \in Nat /\ DOMAIN x = 1..n /\ \A i \in 1..n : x[i] \in Char
    BY LenProperties, ElementOfSeq DEF Chars
  <1>2. Checked(x) = FlattenSeq(s)
    BY DEF Checked
  <1>3. \A i \in 1..n : s[i] \in Chars /\ ReadsAs(s[i], <<x[i]>>)
    <2> SUFFICES ASSUME NEW i \in 1..n PROVE s[i] \in Chars /\ ReadsAs(s[i], <<x[i]>>)
      OBVIOUS
    <2>1. s[i] = IF x[i] = Quote THEN <<Quote, Quote>> ELSE <<x[i]>>
      BY <1>1
    <2>2. ReadsAs(s[i], <<x[i]>>)
      BY <1>1, <2>1, ReadsOne
    <2> QED
      BY <2>2 DEF ReadsAs
  <1>4. s \in Seq(Chars) /\ Len(s) = n
    <2>1. s \in [1..n -> Chars]
      BY <1>1, <1>3
    <2> HIDE DEF s
    <2> QED
      BY <1>1, <2>1, FunctionIsSeq
  <1> HIDE DEF s
  <1>5. part(0) = <<>> /\ part(n) = x
    BY SubSeqEmpty, SubSeqFull, <1>1 DEF Chars
  <1>6. \A k \in 1..n : part(k) = part(k - 1) \o <<x[k]>>
    <2> SUFFICES ASSUME NEW k \in 1..n PROVE part(k) = part(k - 1) \o <<x[k]>>
      OBVIOUS
    <2>1. 1 \in 1..Len(x) /\ k \in 1..Len(x)
      BY <1>1
    <2> QED
      BY <2>1, SubSeqRecursiveSecond DEF Chars
  <1> HIDE DEF n, part
  <1>7. CASE n = 0
    <2>1. FlattenSeq(s) = <<>>
      BY <1>4, <1>7, FlattenSome DEF Chars
    <2> QED
      BY <1>2, <1>5, <1>7, <2>1, ReadsOne
  <1>8. CASE n > 0
    <2>1. PICK f : FlattenedBy(f, s) /\ FlattenSeq(s) = f[n]
      BY <1>4, <1>8, FlattenSome DEF Chars
    <2>2. \A i \in 1..n : f[i] = IF i = 1 THEN s[i] ELSE f[i - 1] \o s[i]
      BY <1>4, <2>1 DEF FlattenedBy
    <2> DEFINE T == {k \in 1..n : ReadsAs(f[k], part(k))}
    <2>3. 1 \in T
      <3>1. 1 \in 1..n /\ 1 - 1 = 0
        BY <1>1, <1>8
      <3>2. part(1) = <<>> \o <<x[1]>> /\ <<>> \o <<x[1]>> = <<x[1]>>
        <4>1. part(1) = <<>> \o <<x[1]>>
          BY <1>5, <1>6, <3>1
        <4>2. <<x[1]>> \in Chars
          BY <1>1, <3>1, SmallTexts
        <4> QED
          BY <4>1, <4>2, ConcatEmptySeq DEF Chars
      <3> QED
        BY <1>3, <2>2, <3>1, <3>2
    <2>4. ASSUME NEW k \in 1..(n - 1), k \in T PROVE k + 1 \in T
      <3>1. k + 1 \in 1..n /\ (k + 1) - 1 = k /\ k + 1 # 1
        BY <1>1
      <3>2. f[k + 1] = f[k] \o s[k + 1] /\ part(k + 1) = part(k) \o <<x[k + 1]>>
        BY <1>6, <2>2, <3>1
      <3>3. ReadsAs(f[k], part(k)) /\ ReadsAs(s[k + 1], <<x[k + 1]>>)
        BY <1>3, <2>4, <3>1
      <3>4. ReadsAs(f[k] \o s[k + 1], part(k) \o <<x[k + 1]>>)
        BY <3>3, ReadsConcat
      <3> QED
        BY <3>1, <3>2, <3>4
    <2>5. 1..n \subseteq T
      <3> HIDE DEF T
      <3> QED
        BY <1>1, <2>3, <2>4, Climb
    <2>6. ReadsAs(f[n], x)
      BY <1>1, <1>5, <1>8, <2>5
    <2>7. x # <<>>
      BY <1>1, <1>8, EmptySeq DEF n
    <2>8. FlattenSeq(s) # <<>>
      <3>1. ASSUME FlattenSeq(s) = <<>> PROVE FALSE
        <4>1. ReadsAs(<<>>, x)
          BY <2>1, <2>6, <3>1
        <4>2. FlattenSeq(Singled(<<>>)) = <<>> /\ FlattenSeq(Singled(<<>>)) = x
          BY <4>1, ReadsOne DEF ReadsAs
        <4> QED
          BY <2>7, <4>2
      <3> QED
        BY <3>1
    <2> QED
      BY <1>2, <2>1, <2>6, <2>7, <2>8
  <1> QED
    BY <1>1, <1>7, <1>8

\* Two quotes around a text that reads as another: one name, to its last
\* character, and the other text is what it says.
LEMMA PrintedReads ==
  ASSUME NEW u, NEW x, ReadsAs(u, x)
  PROVE  /\ Quoted(u) \in Chars
         /\ Ends(Quoted(u)) = {Len(Quoted(u))} /\ Min(Ends(Quoted(u))) = Len(Quoted(u))
         /\ Name(Quoted(u)) = x
  <1> DEFINE a == <<Quote>>
             b == a \o u
             p == b \o a
             n == Len(u)
  <1>1. u \in Chars /\ x \in Chars /\ Doubled(u) /\ FlattenSeq(Singled(u)) = x
    BY DEF ReadsAs
  <1>2. a \in Chars /\ Len(a) = 1 /\ a[1] = Quote
    BY SmallTexts
  <1> HIDE DEF a
  <1>3. /\ n \in Nat /\ b \in Chars /\ Len(b) = 1 + n
        /\ b[1] = Quote /\ \A i \in 1..n : b[1 + i] = u[i]
    <2>1. /\ n \in Nat /\ b \in Chars /\ Len(b) = Len(a) + n
          /\ \A i \in 1..Len(a) : b[i] = a[i]
          /\ \A i \in 1..n : b[Len(a) + i] = u[i]
      <3>1. a \in Seq(Char) /\ u \in Seq(Char)
        BY <1>1, <1>2 DEF Chars
      <3>2. /\ Len(u) \in Nat /\ (a \o u) \in Seq(Char) /\ Len(a \o u) = Len(a) + Len(u)
            /\ \A i \in 1..Len(a) : (a \o u)[i] = a[i]
            /\ \A i \in 1..Len(u) : (a \o u)[Len(a) + i] = u[i]
        BY <3>1, ConcatParts
      <3> QED
        BY <3>2 DEF Chars
    <2> HIDE DEF b, n
    <2> QED
      BY <1>2, <2>1
  <1> HIDE DEF b, n
  <1>4. /\ p \in Chars /\ Len(p) = n + 2
        /\ p[1] = Quote /\ p[n + 2] = Quote /\ \A i \in 1..n : p[1 + i] = u[i]
    <2>1. /\ p \in Chars /\ Len(p) = Len(b) + Len(a)
          /\ \A i \in 1..Len(b) : p[i] = b[i]
          /\ \A i \in 1..Len(a) : p[Len(b) + i] = a[i]
      <3>1. a \in Seq(Char) /\ b \in Seq(Char)
        BY <1>2, <1>3 DEF Chars
      <3>2. /\ (b \o a) \in Seq(Char) /\ Len(b \o a) = Len(b) + Len(a)
            /\ \A i \in 1..Len(b) : (b \o a)[i] = b[i]
            /\ \A i \in 1..Len(a) : (b \o a)[Len(b) + i] = a[i]
        BY <3>1, ConcatParts
      <3> QED
        BY <3>2 DEF Chars
    <2> HIDE DEF p
    <2>2. p[(1 + n) + 1] = Quote /\ (1 + n) + 1 = n + 2
      BY <1>2, <1>3, <2>1
    <2>3. \A i \in 1..n : p[1 + i] = u[i]
      <3> SUFFICES ASSUME NEW i \in 1..n PROVE p[1 + i] = u[i]
        OBVIOUS
      <3>1. 1 + i \in 1..Len(b)
        BY <1>3
      <3> QED
        BY <1>3, <2>1, <3>1
    <2>4. p[1] = Quote /\ Len(p) = n + 2
      BY <1>2, <1>3, <2>1
    <2> QED
      BY <2>1, <2>2, <2>3, <2>4
  <1>5. /\ \A j \in 0..n : Quotes(p, 1 + j) = 1 + Quotes(u, j) /\ Quotes(u, j) \in Nat
        /\ Quotes(p, n + 2) = 2 + Quotes(u, n)
    <2>1. Quotes(a, 1) = 1
      <3>1. Quotes(a, 0 + 1) = Quotes(a, 0) + (IF a[0 + 1] = Quote THEN 1 ELSE 0) /\ Quotes(a, 0) = 0
        BY QuotesStep
      <3> QED
        BY <1>2, <3>1
    <2>2. /\ \A i \in 0..Len(b) : Quotes(p, i) = Quotes(b, i)
          /\ \A j \in 0..Len(a) : Quotes(p, Len(b) + j) = Quotes(b, Len(b)) + Quotes(a, j)
      BY <1>2, <1>3, QuotesOfConcat
    <2>3. \A j \in 0..n : Quotes(b, 1 + j) = 1 + Quotes(u, j)
      <3>1. \A j \in 0..Len(u) : Quotes(a \o u, Len(a) + j) = Quotes(a, Len(a)) + Quotes(u, j)
        BY <1>1, <1>2, QuotesOfConcat
      <3>2. \A j \in 0..n : Quotes(b, Len(a) + j) = Quotes(a, Len(a)) + Quotes(u, j)
        BY <3>1 DEF b, n
      <3> QED
        BY <1>2, <2>1, <3>2
    <2>4. \A j \in 0..n : Quotes(u, j) \in Nat
      BY <1>3, QuotesStep
    <2> HIDE DEF p
    <2>5. \A j \in 0..n : Quotes(p, 1 + j) = 1 + Quotes(u, j)
      <3> SUFFICES ASSUME NEW j \in 0..n PROVE Quotes(p, 1 + j) = 1 + Quotes(u, j)
        OBVIOUS
      <3>1. 1 + j \in 0..Len(b)
        BY <1>3
      <3> QED
        BY <2>2, <2>3, <3>1
    <2>6. Quotes(p, n + 2) = 2 + Quotes(u, n)
      <3>1. Quotes(p, Len(b) + 1) = Quotes(b, Len(b)) + Quotes(a, 1)
        BY <1>2, <2>2
      <3>2. Len(b) + 1 = n + 2 /\ Len(b) = 1 + n /\ n \in 0..n
        BY <1>3
      <3>3. Quotes(b, 1 + n) = 1 + Quotes(u, n) /\ Quotes(u, n) \in Nat
        BY <2>3, <2>4, <3>2
      <3> QED
        BY <2>1, <3>1, <3>2, <3>3
    <2> QED
      BY <2>4, <2>5, <2>6
  <1> HIDE DEF p
  <1>6. /\ Quotes(u, n) % 2 = 0
        /\ \A j \in 1..n : u[j] = Quote /\ Quotes(u, j) % 2 = 1 => j < n /\ u[j + 1] = Quote
    BY <1>1 DEF Doubled, n
  <1>7. \A i \in 2..(n + 1) :
          /\ i - 1 \in 1..n /\ p[i] = u[i - 1]
          /\ Quotes(p, i) % 2 = 0 <=> Quotes(u, i - 1) % 2 = 1
          /\ Quotes(p, i) % 2 = 1 <=> Quotes(u, i - 1) % 2 = 0
    <2> SUFFICES ASSUME NEW i \in 2..(n + 1)
                 PROVE  /\ i - 1 \in 1..n /\ p[i] = u[i - 1]
                        /\ Quotes(p, i) % 2 = 0 <=> Quotes(u, i - 1) % 2 = 1
                        /\ Quotes(p, i) % 2 = 1 <=> Quotes(u, i - 1) % 2 = 0
      OBVIOUS
    <2>1. i - 1 \in 1..n /\ 1 + (i - 1) = i
      BY <1>3
    <2>2. Quotes(p, i) = 1 + Quotes(u, i - 1) /\ Quotes(u, i - 1) \in Nat
      BY <1>3, <1>5, <2>1
    <2>3. p[i] = u[i - 1]
      BY <1>4, <2>1
    <2> HIDE DEF n
    <2> QED
      BY <2>1, <2>2, <2>3
  <1>8. Ends(p) = {n + 2}
    <2>1. Ends(p) = {i \in 2..(n + 2) : /\ p[i] = Quote /\ Quotes(p, i) % 2 = 0
                                        /\ i = n + 2 \/ p[i + 1] # Quote}
      BY <1>4 DEF Ends
    <2>2. n + 2 \in 2..(n + 2) /\ p[n + 2] = Quote /\ Quotes(p, n + 2) % 2 = 0
      <3>1. Quotes(u, n) \in Nat
        BY <1>3, <1>5
      <3> QED
        BY <1>3, <1>4, <1>5, <1>6, <3>1
    <2>3. ASSUME NEW i \in 2..(n + 1), p[i] = Quote, Quotes(p, i) % 2 = 0
          PROVE  p[i + 1] = Quote
      <3>1. i - 1 \in 1..n /\ u[i - 1] = Quote /\ Quotes(u, i - 1) % 2 = 1
        BY <1>7, <2>3
      <3>2. i - 1 < n /\ u[(i - 1) + 1] = Quote
        BY <1>6, <3>1
      <3>3. i \in 1..n /\ (i - 1) + 1 = i /\ 1 + i = i + 1
        BY <1>3, <3>2
      <3> QED
        BY <1>4, <3>2, <3>3
    <2>4. \A i \in 2..(n + 2) : i = n + 2 \/ i \in 2..(n + 1)
      BY <1>3
    <2> QED
      BY <2>1, <2>2, <2>3, <2>4
  <1>9. Min(Ends(p)) = n + 2
    <2>1. \A x_1 \in {n + 2} : x_1 = n + 2
      OBVIOUS
    <2>2. n + 2 =< n + 2
      BY <1>3
    <2>3. \E x_1 \in {n + 2} : \A y_1 \in {n + 2} : x_1 =< y_1
      BY <2>2
    <2> QED
      BY <1>8, <2>3 DEF Min
  <1> DEFINE s == Singled(u)
             e == <<<<>>>>
             g == [i \in 1..(n + 2) |-> IF i \in {1, n + 2} \/ (p[i] = Quote /\ Quotes(p, i) % 2 = 1)
                                          THEN <<>> ELSE <<p[i]>>]
  <1>10. Name(p) = FlattenSeq(g)
    BY <1>9 DEF Name
  <1>11. s \in Seq(Chars) /\ Len(s) = n /\ \A j \in 1..n : s[j] = IF u[j] = Quote /\ Quotes(u, j) % 2 = 0 THEN <<>> ELSE <<u[j]>>
    BY <1>1, SingledTyped DEF Singled, n
  <1>12. e \in Seq(Chars) /\ Len(e) = 1 /\ e[1] = <<>> /\ <<>> \in Chars /\ FlattenSeq(e) = <<>>
    <2>1. <<>> \in Chars
      BY SmallTexts
    <2> DEFINE z == <<>>
    <2>2. z \in Seq(Char)
      BY <2>1 DEF Chars
    <2> HIDE DEF z
    <2>3. <<z>> \in Seq(Seq(Char)) /\ FlattenSeq(<<z>>) = z
      BY <2>2, FlattenSmall
    <2>4. Len(<<z>>) = 1 /\ <<z>>[1] = z
      OBVIOUS
    <2> QED
      BY <2>1, <2>3, <2>4 DEF z, Chars
  <1> HIDE DEF e
  <1>13. \A i \in 1..(n + 2) : g[i] \in Chars
    <2> SUFFICES ASSUME NEW i \in 1..(n + 2) PROVE g[i] \in Chars
      OBVIOUS
    <2>1. p[i] \in Char
      BY <1>4, ElementOfSeq DEF Chars
    <2>2. <<p[i]>> \in Chars
      BY <2>1, SmallTexts
    <2> QED
      BY <1>12, <2>2
  <1>14. g \in Seq(Chars) /\ Len(g) = n + 2
    <2>1. g \in [1..(n + 2) -> Chars] /\ n + 2 \in Nat
      BY <1>3, <1>13
    <2> HIDE DEF g
    <2> QED
      BY <2>1, FunctionIsSeq
  <1>15. g[1] = <<>> /\ g[n + 2] = <<>> /\ \A j \in 1..n : g[1 + j] = s[j]
    <2>1. g[1] = <<>> /\ g[n + 2] = <<>>
      BY <1>3
    <2>2. ASSUME NEW j \in 1..n PROVE g[1 + j] = s[j]
      <3>1. 1 + j \in 2..(n + 1) /\ (1 + j) - 1 = j /\ 1 + j \in 1..(n + 2) /\ 1 + j \notin {1, n + 2}
        BY <1>3
      <3>2. p[1 + j] = u[j] /\ (Quotes(p, 1 + j) % 2 = 1 <=> Quotes(u, j) % 2 = 0)
        BY <1>7, <3>1
      <3>3. g[1 + j] = IF p[1 + j] = Quote /\ Quotes(p, 1 + j) % 2 = 1 THEN <<>> ELSE <<p[1 + j]>>
        BY <3>1
      <3> HIDE DEF g, s
      <3> QED
        BY <1>11, <3>2, <3>3
    <2> QED
      BY <2>1, <2>2
  <1> HIDE DEF g, s
  <1>16. (e \o s) \in Seq(Chars) /\ Len(e \o s) = 1 + n
         /\ (e \o s)[1] = <<>> /\ \A j \in 1..n : (e \o s)[1 + j] = s[j]
    <2> DEFINE t == e \o s
    <2>1. /\ t \in Seq(Chars) /\ Len(t) = Len(e) + Len(s)
          /\ \A i \in 1..Len(e) : t[i] = e[i]
          /\ \A i \in 1..Len(s) : t[Len(e) + i] = s[i]
      <3>1. /\ (e \o s) \in Seq(Chars) /\ Len(e \o s) = Len(e) + Len(s)
            /\ \A i \in 1..Len(e) : (e \o s)[i] = e[i]
            /\ \A i \in 1..Len(s) : (e \o s)[Len(e) + i] = s[i]
        <4> DEFINE SS == Chars
        <4>1. e \in Seq(SS) /\ s \in Seq(SS)
          BY <1>11, <1>12
        <4> HIDE DEF SS
        <4>2. /\ (e \o s) \in Seq(SS) /\ Len(e \o s) = Len(e) + Len(s)
              /\ \A i \in 1..Len(e) : (e \o s)[i] = e[i]
              /\ \A i \in 1..Len(s) : (e \o s)[Len(e) + i] = s[i]
          BY <4>1, ConcatParts
        <4> QED
          BY <4>2 DEF SS
      <3> QED
        BY <3>1
    <2> HIDE DEF t
    <2>2. Len(t) = 1 + n /\ t[1] = <<>> /\ \A j \in 1..n : t[1 + j] = s[j]
      BY <1>3, <1>11, <1>12, <2>1
    <2> QED
      BY <2>1, <2>2 DEF t
  <1>17. g = (e \o s) \o e
    <2> DEFINE t == e \o s
    <2>1. t \in Seq(Chars) /\ Len(t) = 1 + n /\ t[1] = <<>> /\ \A j \in 1..n : t[1 + j] = s[j]
      BY <1>16
    <2> HIDE DEF t
    <2>2. Len(g) = Len(t) + Len(e)
      BY <1>3, <1>12, <1>14, <2>1
    <2>3. \A i \in 1..Len(t) : g[i] = t[i]
      <3> SUFFICES ASSUME NEW i \in 1..(1 + n) PROVE g[i] = t[i]
        BY <2>1
      <3>1. CASE i = 1
        BY <1>15, <2>1, <3>1
      <3>2. CASE i # 1
        <4>1. i - 1 \in 1..n /\ 1 + (i - 1) = i
          BY <1>3, <3>2
        <4> QED
          BY <1>15, <2>1, <4>1
      <3> QED
        BY <3>1, <3>2
    <2>4. \A i \in 1..Len(e) : g[Len(t) + i] = e[i]
      <3>1. (1 + n) + 1 = n + 2
        BY <1>3
      <3> QED
        BY <1>12, <1>15, <2>1, <3>1
    <2>5. g = t \o e
      BY <1>12, <1>14, <2>1, <2>2, <2>3, <2>4, ConcatIs
    <2> QED
      BY <2>5 DEF t
  <1>18. FlattenSeq(g) = x
    <2>1. FlattenSeq(e \o s) = FlattenSeq(e) \o FlattenSeq(s)
      BY <1>11, <1>12, FlattenConcat DEF Chars
    <2>2. FlattenSeq((e \o s) \o e) = FlattenSeq(e \o s) \o FlattenSeq(e)
      BY <1>12, <1>16, FlattenConcat DEF Chars
    <2>3. FlattenSeq(s) = x
      BY <1>1 DEF s
    <2>4. FlattenSeq(g) = (<<>> \o x) \o <<>>
      BY <1>12, <1>17, <2>1, <2>2, <2>3
    <2>5. <<>> \o x = x /\ x \o <<>> = x
      BY <1>1, ConcatEmptySeq DEF Chars
    <2> QED
      BY <2>4, <2>5
  <1>19. Quoted(u) = p
    BY DEF Quoted, p, b, a
  <1> QED
    BY <1>4, <1>8, <1>9, <1>10, <1>18, <1>19

----------------------------------------------------------------------------
(* What to_writer puts together *)

\* The texts the builder has of its own hold no quote.
LEMMA OwnTexts ==
  /\ ReadsAs(<<"_">>, <<"_">>) /\ ReadsAs(<<"c", "t", "e", "_">>, <<"c", "t", "e", "_">>)
  /\ \A n \in 0..MaxCtes : ReadsAs(Numeral[n], Numeral[n])
  /\ \A prefix \in CtePrefix : ReadsAs(prefix, prefix)
  /\ \A suffix \in CteSuffix : ReadsAs(suffix, suffix)
  <1> DEFINE own == Char \ {Quote}
  <1>1. Letter \subseteq own /\ Digit \subseteq own
    BY CharAssumption DEF Letter, Digit, Quote
  <1>2. ASSUME NEW S, S \subseteq own, NEW x \in Seq(S) PROVE ReadsAs(x, x)
    <2>1. Len(x) \in Nat /\ DOMAIN x = 1..Len(x) /\ x \in [1..Len(x) -> S]
      BY LenProperties, <1>2
    <2>2. x \in [1..Len(x) -> own]
      BY <1>2, <2>1
    <2>3. x \in Seq(own)
      BY <2>1, <2>2, FunctionIsSeq
    <2> QED
      BY <2>3, ReadsPlain
  <1>3. ASSUME NEW n \in 0..MaxCtes PROVE ReadsAs(Numeral[n], Numeral[n])
    <2>1. Numeral[n] \in Seq(Digit)
      BY NumeralAssumption
    <2> QED
      BY <1>1, <1>2, <2>1
  <1>4. /\ <<"_">> \in Seq(Letter) /\ <<"c", "t", "e", "_">> \in Seq(Letter)
        /\ <<>> \in Seq(Letter) /\ <<"r", "e", "l">> \in Seq(Letter)
        /\ <<"d", "a", "t", "a">> \in Seq(Letter)
    BY DEF Letter
  <1>5. <<"i", "n", "s", "e", "r", "t">> \in Seq(Letter)
    BY DEF Letter
  <1>6. <<"u", "p", "d", "a", "t", "e">> \in Seq(Letter)
    BY DEF Letter
  <1>7. ASSUME NEW prefix \in CtePrefix PROVE prefix \in Seq(Letter)
    BY <1>4 DEF CtePrefix
  <1>8. ASSUME NEW suffix \in CteSuffix PROVE suffix \in Seq(Letter)
    BY <1>4, <1>5, <1>6 DEF CteSuffix
  <1> QED
    BY <1>1, <1>2, <1>3, <1>4, <1>7, <1>8

PrefixPart(id) == IF id.prefix = <<>> THEN <<>> ELSE id.prefix \o <<"_">>
SuffixPart(id) == IF id.suffix = <<>> THEN <<>> ELSE <<"_">> \o id.suffix
IndexPart(id) == IF id.index = NoNumber THEN <<>> ELSE <<"_">> \o Numeral[id.index]
NamePart(id) == PrefixPart(id) \o id.inner \o SuffixPart(id)

\* The parts of an identifier read as those of another one, and are there when
\* they are.
PartsRead(id, giv) ==
  /\ ReadsAs(id.prefix, giv.prefix) /\ (id.prefix = <<>> <=> giv.prefix = <<>>)
  /\ ReadsAs(id.inner, giv.inner)
  /\ ReadsAs(id.suffix, giv.suffix) /\ (id.suffix = <<>> <=> giv.suffix = <<>>)
  /\ id.index = giv.index /\ giv.index \in {NoNumber} \cup 0..MaxCtes

LEMMA WriterReads ==
  ASSUME NEW id, NEW giv, PartsRead(id, giv)
  PROVE  /\ ReadsAs(NamePart(id), NamePart(giv)) /\ ReadsAs(IndexPart(id), IndexPart(giv))
         /\ ReadsAs(ToWriter(id), ToWriter(giv))
  <1>1. /\ ReadsAs(id.prefix, giv.prefix) /\ (id.prefix = <<>> <=> giv.prefix = <<>>)
        /\ ReadsAs(id.inner, giv.inner)
        /\ ReadsAs(id.suffix, giv.suffix) /\ (id.suffix = <<>> <=> giv.suffix = <<>>)
        /\ id.index = giv.index /\ giv.index \in {NoNumber} \cup 0..MaxCtes
    BY DEF PartsRead
  <1>2. ReadsAs(<<"_">>, <<"_">>) /\ ReadsAs(<<>>, <<>>)
    BY OwnTexts, ReadsOne
  <1> DEFINE dash == <<"_">>
  <1>3. ReadsAs(dash, dash)
    BY <1>2
  <1> HIDE DEF dash
  <1>4. ReadsAs(PrefixPart(id), PrefixPart(giv))
    <2>1. ReadsAs(id.prefix \o dash, giv.prefix \o dash)
      BY <1>1, <1>3, ReadsConcat
    <2> QED
      BY <1>1, <1>2, <2>1 DEF PrefixPart, dash
  <1>5. ReadsAs(SuffixPart(id), SuffixPart(giv))
    <2>1. ReadsAs(dash \o id.suffix, dash \o giv.suffix)
      BY <1>1, <1>3, ReadsConcat
    <2> QED
      BY <1>1, <1>2, <2>1 DEF SuffixPart, dash
  <1>6. ReadsAs(IndexPart(id), IndexPart(giv))
    <2>1. CASE giv.index = NoNumber
      BY <1>1, <1>2, <2>1 DEF IndexPart
    <2>2. CASE giv.index # NoNumber
      <3>1. ReadsAs(Numeral[giv.index], Numeral[giv.index])
        BY <1>1, <2>2, OwnTexts
      <3>2. ReadsAs(dash \o Numeral[giv.index], dash \o Numeral[giv.index])
        BY <1>3, <3>1, ReadsConcat
      <3> QED
        BY <1>1, <2>2, <3>2 DEF IndexPart, dash
    <2> QED
      BY <2>1, <2>2
  <1>7. ReadsAs(NamePart(id), NamePart(giv))
    <2>1. ReadsAs(PrefixPart(id) \o id.inner, PrefixPart(giv) \o giv.inner)
      BY <1>1, <1>4, ReadsConcat
    <2>2. ReadsAs((PrefixPart(id) \o id.inner) \o SuffixPart(id), (PrefixPart(giv) \o giv.inner) \o SuffixPart(giv))
      BY <1>5, <2>1, ReadsConcat
    <2> QED
      BY <2>2 DEF NamePart
  <1>8. ReadsAs(NamePart(id) \o IndexPart(id), NamePart(giv) \o IndexPart(giv))
    BY <1>6, <1>7, ReadsConcat
  <1>9. ToWriter(id) = NamePart(id) \o IndexPart(id) /\ ToWriter(giv) = NamePart(giv) \o IndexPart(giv)
    BY DEF ToWriter, NamePart, PrefixPart, SuffixPart, IndexPart
  <1> QED
    BY <1>6, <1>7, <1>8, <1>9

----------------------------------------------------------------------------
(* The invariant *)

IsIdent(id) == id \in [prefix : Chars, inner : Chars, suffix : Chars, index : {NoNumber, 0}]

\* The identifier reads as what it was made from, part by part.
ReadsGiven == IsIdent(given) /\ IsIdent(ident) /\ PartsRead(ident, given)

\* The name of a CTE is read to its last character, and ends with its index.
Numbered(k, text) ==
  \E w \in Chars, a \in Chars :
    text = Quoted(w) /\ ReadsAs(w, a \o (<<"_">> \o Numeral[k - 1]))
NumberedInv ==
  /\ made \in Seq(Chars) /\ Len(made) <= MaxCtes
  /\ \A k \in 1..Len(made) : Numbered(k, made[k])

IdentInv == ReadsGiven /\ NumberedInv

LEMMA PlainReads ==
  ASSUME NEW u, NEW x, ReadsAs(u, x)
  PROVE  IsIdent(Plain(u)) /\ IsIdent(Plain(x)) /\ PartsRead(Plain(u), Plain(x))
  <1>1. u \in Chars /\ x \in Chars /\ <<>> \in Chars /\ ReadsAs(<<>>, <<>>)
    BY ReadsOne, SmallTexts DEF ReadsAs
  <1>2. /\ Plain(u) = [prefix |-> <<>>, inner |-> u, suffix |-> <<>>, index |-> NoNumber]
        /\ Plain(x) = [prefix |-> <<>>, inner |-> x, suffix |-> <<>>, index |-> NoNumber]
    BY DEF Plain, Ident
  <1> QED
    BY <1>1, <1>2 DEF IsIdent, PartsRead

\* to_cte: one more name, numbered after the others.
LEMMA CteNumbered ==
  ASSUME ReadsGiven, NEW k \in 1..MaxCtes, NEW prefix \in CtePrefix, NEW suffix \in CteSuffix
  PROVE  /\ Quoted(CteWriter(Ident(prefix, ident.inner, suffix, k - 1))) \in Chars
         /\ Numbered(k, Quoted(CteWriter(Ident(prefix, ident.inner, suffix, k - 1))))
  <1> DEFINE id == Ident(prefix, ident.inner, suffix, k - 1)
             giv == Ident(prefix, given.inner, suffix, k - 1)
             cte == <<"c", "t", "e", "_">>
             dash == <<"_">>
  <1>1. /\ id.prefix = prefix /\ id.inner = ident.inner /\ id.suffix = suffix /\ id.index = k - 1
        /\ giv.prefix = prefix /\ giv.inner = given.inner /\ giv.suffix = suffix /\ giv.index = k - 1
    BY DEF Ident
  <1>2. k - 1 \in 0..MaxCtes /\ k - 1 # NoNumber
    BY LimitAssumption DEF NoNumber
  <1>3. ReadsAs(ident.inner, given.inner)
    BY DEF ReadsGiven, PartsRead
  <1> HIDE DEF id, giv
  <1>4. PartsRead(id, giv)
    BY <1>1, <1>2, <1>3, OwnTexts DEF PartsRead
  <1>5. /\ ReadsAs(NamePart(id), NamePart(giv)) /\ ReadsAs(IndexPart(id), IndexPart(giv))
        /\ ReadsAs(ToWriter(id), ToWriter(giv))
    BY <1>4, WriterReads
  <1>6. ReadsAs(cte, cte)
    BY OwnTexts
  <1>7. IndexPart(giv) = dash \o Numeral[k - 1]
    BY <1>1, <1>2 DEF IndexPart
  <1>8. CteWriter(id) = cte \o ToWriter(id) /\ CteWriter(giv) = cte \o ToWriter(giv)
    BY DEF CteWriter
  <1>9. ToWriter(giv) = NamePart(giv) \o IndexPart(giv)
    BY DEF ToWriter, NamePart, PrefixPart, SuffixPart, IndexPart
  <1> HIDE DEF cte, dash
  <1>10. ReadsAs(CteWriter(id), CteWriter(giv))
    BY <1>5, <1>6, <1>8, ReadsConcat
  <1>11. cte \in Chars /\ NamePart(giv) \in Chars /\ IndexPart(giv) \in Chars
    BY <1>5, <1>6 DEF ReadsAs
  <1>12. /\ CteWriter(giv) = (cte \o NamePart(giv)) \o (dash \o Numeral[k - 1])
         /\ cte \o NamePart(giv) \in Chars
    <2>1. cte \o (NamePart(giv) \o IndexPart(giv)) = (cte \o NamePart(giv)) \o IndexPart(giv)
      BY <1>11, ConcatAssociative DEF Chars
    <2>2. cte \o NamePart(giv) \in Chars
      BY <1>11, ConcatProperties DEF Chars
    <2> QED
      BY <1>7, <1>8, <1>9, <2>1, <2>2
  <1>13. CteWriter(id) \in Chars
    BY <1>10 DEF ReadsAs
  <1>14. Numbered(k, Quoted(CteWriter(id)))
    <2>1. ReadsAs(CteWriter(id), (cte \o NamePart(giv)) \o (<<"_">> \o Numeral[k - 1]))
      BY <1>10, <1>12 DEF dash
    <2> QED
      BY <1>12, <1>13, <2>1 DEF Numbered
  <1>15. Quoted(CteWriter(id)) \in Chars
    BY <1>10, PrintedReads
  <1> QED
    BY <1>14, <1>15 DEF id

LEMMA InitReads == Init => IdentInv
  <1> SUFFICES ASSUME Init PROVE IdentInv
    OBVIOUS
  <1>1. ReadsGiven
    <2>1. ReadsAs(<<>>, <<>>)
      BY ReadsOne
    <2>2. IsIdent(Plain(<<>>)) /\ PartsRead(Plain(<<>>), Plain(<<>>))
      BY <2>1, PlainReads
    <2> QED
      BY <2>2 DEF Init, ReadsGiven
  <1>2. NumberedInv
    <2>1. made = <<>> /\ <<>> \in Seq(Chars) /\ Len(<<>>) = 0
      BY EmptySeq DEF Init
    <2> QED
      BY <2>1, LimitAssumption DEF NumberedInv
  <1> QED
    BY <1>1, <1>2 DEF IdentInv

LEMMA NextReads == IdentInv /\ [Next]_vars => IdentInv'
  <1> SUFFICES ASSUME IdentInv, [Next]_vars PROVE IdentInv'
    OBVIOUS
  <1> USE DEF IdentInv
  <1>1. IsIdent(given) /\ IsIdent(ident) /\ PartsRead(ident, given)
    BY DEF ReadsGiven
  <1>2. \A text \in Text : text \in Chars
    BY TextAssumption DEF Chars
  <1>3. \A text \in Chars : /\ ReadsAs(Checked(text), text) /\ Checked(text) \in Chars
                            /\ text = <<>> <=> Checked(text) = <<>>
    BY CheckedReads DEF ReadsAs
  <1>4. UNCHANGED made => NumberedInv'
    BY DEF NumberedInv
  <1>5. UNCHANGED <<given, ident>> => ReadsGiven'
    BY DEF ReadsGiven
  <1>6. CASE Refuse
    BY <1>4, <1>5, <1>6 DEF Refuse
  <1>7. CASE TryFrom
    <2>1. PICK text \in Text : given' = Plain(text) /\ ident' = Plain(Checked(text))
      BY <1>7 DEF TryFrom
    <2>2. ReadsAs(Checked(text), text)
      BY <1>2, <1>3
    <2>3. IsIdent(Plain(Checked(text))) /\ IsIdent(Plain(text)) /\ PartsRead(Plain(Checked(text)), Plain(text))
      BY <2>2, PlainReads
    <2>4. ReadsGiven'
      BY <2>1, <2>3 DEF ReadsGiven
    <2> QED
      BY <1>4, <1>7, <2>4 DEF TryFrom
  <1>8. CASE AddPrefix
    <2>1. PICK text \in Text : /\ given' = [given EXCEPT !.prefix = text]
                               /\ ident' = [ident EXCEPT !.prefix = Checked(text)]
      BY <1>8 DEF AddPrefix
    <2>2. /\ text \in Chars /\ ReadsAs(Checked(text), text) /\ Checked(text) \in Chars
          /\ text = <<>> <=> Checked(text) = <<>>
      BY <1>2, <1>3
    <2>3. /\ given'.prefix = text /\ given'.inner = given.inner
          /\ given'.suffix = given.suffix /\ given'.index = given.index /\ IsIdent(given')
      BY <1>1, <2>1, <2>2 DEF IsIdent
    <2>4. /\ ident'.prefix = Checked(text) /\ ident'.inner = ident.inner
          /\ ident'.suffix = ident.suffix /\ ident'.index = ident.index /\ IsIdent(ident')
      BY <1>1, <2>1, <2>2 DEF IsIdent
    <2>5. PartsRead(ident', given')
      BY <1>1, <2>2, <2>3, <2>4 DEF PartsRead
    <2>6. ReadsGiven'
      BY <2>3, <2>4, <2>5 DEF ReadsGiven
    <2> QED
      BY <1>4, <1>8, <2>6 DEF AddPrefix
  <1>9. CASE AddSuffix
    <2>1. PICK text \in Text : /\ given' = [given EXCEPT !.suffix = text]
                               /\ ident' = [ident EXCEPT !.suffix = Checked(text)]
      BY <1>9 DEF AddSuffix
    <2>2. /\ text \in Chars /\ ReadsAs(Checked(text), text) /\ Checked(text) \in Chars
          /\ text = <<>> <=> Checked(text) = <<>>
      BY <1>2, <1>3
    <2>3. /\ given'.suffix = text /\ given'.inner = given.inner
          /\ given'.prefix = given.prefix /\ given'.index = given.index /\ IsIdent(given')
      BY <1>1, <2>1, <2>2 DEF IsIdent
    <2>4. /\ ident'.suffix = Checked(text) /\ ident'.inner = ident.inner
          /\ ident'.prefix = ident.prefix /\ ident'.index = ident.index /\ IsIdent(ident')
      BY <1>1, <2>1, <2>2 DEF IsIdent
    <2>5. PartsRead(ident', given')
      BY <1>1, <2>2, <2>3, <2>4 DEF PartsRead
    <2>6. ReadsGiven'
      BY <2>3, <2>4, <2>5 DEF ReadsGiven
    <2> QED
      BY <1>4, <1>9, <2>6 DEF AddSuffix
  <1>10. CASE AddIndex
    <2>1. given' = [given EXCEPT !.index = 0] /\ ident' = [ident EXCEPT !.index = 0]
      BY <1>10 DEF AddIndex
    <2>2. /\ given'.prefix = given.prefix /\ given'.inner = given.inner
          /\ given'.suffix = given.suffix /\ given'.index = 0 /\ IsIdent(given')
      BY <1>1, <2>1 DEF IsIdent
    <2>3. /\ ident'.prefix = ident.prefix /\ ident'.inner = ident.inner
          /\ ident'.suffix = ident.suffix /\ ident'.index = 0 /\ IsIdent(ident')
      BY <1>1, <2>1 DEF IsIdent
    <2>4. PartsRead(ident', given')
      BY <1>1, <2>2, <2>3, LimitAssumption DEF PartsRead
    <2>5. ReadsGiven'
      BY <2>2, <2>3, <2>4 DEF ReadsGiven
    <2> QED
      BY <1>4, <1>10, <2>5 DEF AddIndex
  <1>11. CASE Copy
    <2>1. ReadsAs(ident.inner, given.inner)
      BY <1>1 DEF PartsRead
    <2>2. /\ IsIdent(Plain(ident.inner)) /\ IsIdent(Plain(given.inner))
          /\ PartsRead(Plain(ident.inner), Plain(given.inner))
      BY <2>1, PlainReads
    <2>3. given' = Plain(given.inner) /\ ident' = Plain(ident.inner)
      BY <1>11 DEF Copy
    <2>4. ReadsGiven'
      BY <2>2, <2>3 DEF ReadsGiven
    <2> QED
      BY <1>4, <1>11, <2>4 DEF Copy
  <1>12. CASE ToCte
    <2> DEFINE n == Len(made)
               name(prefix, suffix) == Quoted(CteWriter(Ident(prefix, ident.inner, suffix, Len(made))))
    <2>1. PICK prefix \in CtePrefix, suffix \in CteSuffix : made' = Append(made, name(prefix, suffix))
      BY <1>12 DEF ToCte
    <2>2. /\ made \in Seq(Chars) /\ n \in Nat /\ n < MaxCtes
          /\ \A k \in 1..n : Numbered(k, made[k])
      BY <1>12, LenProperties DEF ToCte, NumberedInv
    <2>3. name(prefix, suffix) \in Chars /\ Numbered(n + 1, name(prefix, suffix))
      <3>1. n + 1 \in 1..MaxCtes /\ (n + 1) - 1 = n
        BY <2>2, LimitAssumption
      <3>2. /\ Quoted(CteWriter(Ident(prefix, ident.inner, suffix, (n + 1) - 1))) \in Chars
            /\ Numbered(n + 1, Quoted(CteWriter(Ident(prefix, ident.inner, suffix, (n + 1) - 1))))
        BY <3>1, CteNumbered
      <3> QED
        BY <3>1, <3>2
    <2> HIDE DEF name
    <2>4. /\ made' \in Seq(Chars) /\ Len(made') = n + 1
          /\ made'[n + 1] = name(prefix, suffix) /\ \A k \in 1..n : made'[k] = made[k]
      BY <2>1, <2>2, <2>3, AppendProperties
    <2>5. \A k \in 1..(n + 1) : Numbered(k, made'[k])
      <3> SUFFICES ASSUME NEW k \in 1..(n + 1) PROVE Numbered(k, made'[k])
        OBVIOUS
      <3>1. CASE k \in 1..n
        BY <2>2, <2>4, <3>1
      <3>2. CASE k = n + 1
        BY <2>3, <2>4, <3>2
      <3> QED
        BY <2>2, <3>1, <3>2
    <2>6. NumberedInv'
      <3>1. n + 1 <= MaxCtes
        BY <2>2, LimitAssumption
      <3> QED
        BY <2>4, <2>5, <3>1 DEF NumberedInv, Numbered
    <2> QED
      BY <1>5, <1>12, <2>6 DEF ToCte
  <1>13. CASE UNCHANGED vars
    BY <1>4, <1>5, <1>13 DEF vars
  <1> QED
    BY <1>6, <1>7, <1>8, <1>9, <1>10, <1>11, <1>12, <1>13 DEF Next, Refused

LEMMA AlwaysReads == Spec => []IdentInv
  <1>1. Init => IdentInv
    BY InitReads
  <1>2. IdentInv /\ [Next]_vars => IdentInv'
    BY NextReads
  <1> QED
    BY <1>1, <1>2, PTL DEF Spec

\* Whatever the names, however long, and however often prefixes, suffixes and
\* indices were put on them: what is printed between quotes is one name, the
\* one that was given (check_routine, add_modifier, to_writer).
THEOREM NamesReadBack == Spec => []ReadsBack
  <1>1. IdentInv => ReadsBack
    <2> SUFFICES ASSUME IdentInv PROVE ReadsBack
      OBVIOUS
    <2>1. ReadsAs(ToWriter(ident), ToWriter(given))
      BY WriterReads DEF IdentInv, ReadsGiven
    <2>2. /\ Ends(Quoted(ToWriter(ident))) = {Len(Quoted(ToWriter(ident)))}
          /\ Min(Ends(Quoted(ToWriter(ident)))) = Len(Quoted(ToWriter(ident)))
          /\ Name(Quoted(ToWriter(ident))) = ToWriter(given)
      BY <2>1, PrintedReads
    <2>3. Ends(Quoted(ToWriter(ident))) # {}
      BY <2>2
    <2> QED
      BY <2>2, <2>3 DEF ReadsBack
  <1> QED
    BY <1>1, AlwaysReads, PTL

----------------------------------------------------------------------------
(* Names apart *)

LEMMA SeqWithin ==
  ASSUME NEW S, NEW T, S \subseteq T, NEW x \in Seq(S)
  PROVE  x \in Seq(T)
  <1>1. Len(x) \in Nat /\ x \in [1..Len(x) -> S]
    BY LenProperties
  <1>2. x \in [1..Len(x) -> T]
    BY <1>1
  <1> QED
    BY <1>1, <1>2, FunctionIsSeq

\* A text, "_" and another one.
Dash == "_"
Dashed(w, x, y) ==
  /\ Len(x) \in Nat /\ Len(y) \in Nat /\ Len(w) = Len(x) + 1 + Len(y)
  /\ w[Len(x) + 1] = Dash /\ \A i \in 1..Len(y) : w[Len(x) + 1 + i] = y[i]

IsDash(d) == d \in Chars /\ Len(d) = 1 /\ d[1] = Dash

LEMMA DashedConcat ==
  ASSUME NEW x \in Chars, NEW y \in Chars, NEW d, IsDash(d)
  PROVE  Dashed(x \o (d \o y), x, y)
  <1>1. x \in Seq(Char) /\ y \in Seq(Char) /\ d \in Seq(Char)
    BY DEF Chars, IsDash
  <1> DEFINE v == d \o y
             w == x \o v
  <1>2. /\ Len(y) \in Nat /\ (d \o y) \in Seq(Char) /\ Len(d \o y) = Len(d) + Len(y)
        /\ \A i \in 1..Len(d) : (d \o y)[i] = d[i]
        /\ \A i \in 1..Len(y) : (d \o y)[Len(d) + i] = y[i]
    BY <1>1, ConcatParts
  <1> HIDE DEF v
  <1> DEFINE k == Len(x)
             n == Len(y)
             l == Len(v)
  <1>3. /\ n \in Nat /\ v \in Seq(Char) /\ l = 1 + n /\ v[1] = Dash
        /\ \A i \in 1..n : v[1 + i] = y[i]
    <2>1. Len(d) = 1 /\ d[1] = Dash
      BY DEF IsDash
    <2> HIDE DEF n
    <2>2. /\ n \in Nat /\ (d \o y) \in Seq(Char) /\ Len(d \o y) = 1 + n
          /\ \A i \in 1..1 : (d \o y)[i] = d[i]
          /\ \A i \in 1..n : (d \o y)[1 + i] = y[i]
      BY <1>2, <2>1 DEF n
    <2>3. (d \o y)[1] = Dash
      BY <2>1, <2>2
    <2> QED
      BY <2>2, <2>3 DEF v
  <1>4. /\ Len(x) \in Nat /\ Len(x \o v) = Len(x) + Len(v)
        /\ \A i \in 1..Len(v) : (x \o v)[Len(x) + i] = v[i]
    <2>1. v \in Seq(Char)
      BY <1>3
    <2> QED
      BY <1>1, <2>1, ConcatParts
  <1> HIDE DEF w, k, n, l
  <1>5. /\ k \in Nat /\ Len(w) = k + l
        /\ \A i \in 1..l : w[k + i] = v[i]
    BY <1>4 DEF w, k, l
  <1>6. w[k + 1] = Dash /\ Len(w) = k + 1 + n
    BY <1>3, <1>5
  <1>7. \A i \in 1..n : w[k + 1 + i] = y[i]
    <2> SUFFICES ASSUME NEW i \in 1..n PROVE w[k + 1 + i] = y[i]
      OBVIOUS
    <2>1. 1 + i \in 1..l /\ k + (1 + i) = k + 1 + i
      <3>1. n \in Nat /\ l = 1 + n /\ k \in Nat
        BY <1>3, <1>5
      <3> QED
        BY <3>1
    <2>2. w[k + (1 + i)] = v[1 + i]
      BY <1>5, <2>1
    <2> QED
      BY <1>3, <2>1, <2>2
  <1>8. Dashed(w, x, y)
    BY <1>3, <1>5, <1>6, <1>7 DEF Dashed, k, n
  <1> QED
    BY <1>8 DEF w, v

LEMMA DashedTexts ==
  ASSUME NEW a \in Chars, NEW n \in Seq(Digit)
  PROVE  Dashed(a \o (<<"_">> \o n), a, n)
  <1>1. Dash \in Char /\ Digit \subseteq Char
    BY CharAssumption DEF Letter, Dash
  <1>2. IsDash(<<Dash>>)
    BY <1>1, SmallTexts DEF IsDash
  <1>3. n \in Chars
    BY <1>1, SeqWithin DEF Chars
  <1> DEFINE d == <<Dash>>
  <1>4. IsDash(d)
    BY <1>2
  <1> HIDE DEF d
  <1>5. Dashed(a \o (d \o n), a, n)
    BY <1>3, <1>4, DashedConcat
  <1>6. d = <<"_">>
    BY DEF d, Dash
  <1> QED
    BY <1>5, <1>6

\* What comes after the last "_" of a text.
LEMMA LastParts ==
  ASSUME NEW w, NEW a, NEW b, NEW m \in Seq(Digit), NEW n \in Seq(Digit),
         Dashed(w, a, m), Dashed(w, b, n)
  PROVE  m = n
  <1>1. Dash \notin Digit
    BY DEF Digit, Dash
  <1>2. /\ \A i \in 1..Len(m) : m[i] \in Digit
        /\ \A i \in 1..Len(n) : n[i] \in Digit
    BY ElementOfSeq
  <1> DEFINE ka == Len(a)
             kb == Len(b)
             km == Len(m)
             kn == Len(n)
             kw == Len(w)
  <1>3. /\ ka \in Nat /\ km \in Nat /\ kw = ka + 1 + km
        /\ w[ka + 1] = Dash /\ \A i \in 1..km : w[ka + 1 + i] = m[i] /\ m[i] \in Digit
    BY <1>2 DEF Dashed
  <1>4. /\ kb \in Nat /\ kn \in Nat /\ kw = kb + 1 + kn
        /\ w[kb + 1] = Dash /\ \A i \in 1..kn : w[kb + 1 + i] = n[i] /\ n[i] \in Digit
    BY <1>2 DEF Dashed
  <1> HIDE DEF ka, kb, km, kn, kw
  <1>5. ka = kb
    <2>1. ASSUME ka < kb PROVE FALSE
      <3>1. kb - ka \in 1..km /\ ka + 1 + (kb - ka) = kb + 1
        BY <1>3, <1>4, <2>1
      <3>2. w[kb + 1] \in Digit
        BY <1>3, <3>1
      <3> QED
        BY <1>1, <1>4, <3>2
    <2>2. ASSUME kb < ka PROVE FALSE
      <3>1. ka - kb \in 1..kn /\ kb + 1 + (ka - kb) = ka + 1
        BY <1>3, <1>4, <2>2
      <3>2. w[ka + 1] \in Digit
        BY <1>4, <3>1
      <3> QED
        BY <1>1, <1>3, <3>2
    <2> QED
      BY <1>3, <1>4, <2>1, <2>2
  <1>6. km = kn
    BY <1>3, <1>4, <1>5
  <1>7. \A i \in 1..km : m[i] = n[i]
    BY <1>3, <1>4, <1>5, <1>6
  <1>8. Len(m) = Len(n) /\ \A i \in 1..Len(m) : m[i] = n[i]
    BY <1>6, <1>7 DEF km, kn
  <1> QED
    BY <1>8, SeqEqual

\* However the types are called, and however many CTEs there are: no two that
\* Postgres keeps whole have the same name, and none has the final one's
\* (to_cte, to_writer).
THEOREM CtesKeepApart == Spec => []CtesApart
  <1>1. IdentInv => CtesApart
    <2> SUFFICES ASSUME IdentInv PROVE CtesApart
      OBVIOUS
    <2> DEFINE n == Len(made)
               read == [i \in DOMAIN made |-> Name(made[i])]
               names == Append(read, FinalName)
    <2>1. n \in Nat /\ n <= MaxCtes /\ DOMAIN made = 1..n /\ \A k \in 1..n : Numbered(k, made[k])
      BY LenProperties DEF IdentInv, NumberedInv
    <2>2. \A k \in 1..n : \E a \in Chars : /\ Name(made[k]) = a \o (<<"_">> \o Numeral[k - 1])
                                         /\ Name(made[k]) \in Chars
      <3> SUFFICES ASSUME NEW k \in 1..n
                   PROVE  \E a \in Chars : /\ Name(made[k]) = a \o (<<"_">> \o Numeral[k - 1])
                                           /\ Name(made[k]) \in Chars
        OBVIOUS
      <3>1. PICK w \in Chars, a \in Chars :
              made[k] = Quoted(w) /\ ReadsAs(w, a \o (<<"_">> \o Numeral[k - 1]))
        BY <2>1 DEF Numbered
      <3>2. Name(Quoted(w)) = a \o (<<"_">> \o Numeral[k - 1])
        BY <3>1, PrintedReads
      <3>3. a \o (<<"_">> \o Numeral[k - 1]) \in Chars
        BY <3>1 DEF ReadsAs
      <3> QED
        BY <3>1, <3>2, <3>3
    <2>3. \A k \in 1..n : /\ k - 1 \in 0..MaxCtes /\ Numeral[k - 1] \in Seq(Digit) /\ Numeral[k - 1] # <<>>
      BY <2>1, NumeralAssumption, LimitAssumption
    <2>4. FinalName \in Chars /\ Len(FinalName) = 19 /\ FinalName[19] = "a"
      <3>1. FinalName \in Seq(Letter) /\ Len(FinalName) = 19 /\ FinalName[19] = "a"
        BY DEF FinalName, Letter
      <3>2. FinalName \in Seq(Char)
        BY <3>1, CharAssumption
      <3> QED
        BY <3>1, <3>2 DEF Chars
    <2>5. /\ names \in Seq(Chars) /\ Len(names) = n + 1 /\ DOMAIN names = 1..(n + 1)
          /\ names[n + 1] = FinalName /\ \A k \in 1..n : names[k] = Name(made[k])
      <3>1. read \in [1..n -> Chars]
        BY <2>1, <2>2
      <3>2. read \in Seq(Chars) /\ Len(read) = n
        BY <2>1, <3>1, FunctionIsSeq
      <3>3. \A k \in 1..n : read[k] = Name(made[k])
        BY <2>1
      <3> HIDE DEF read
      <3>4. /\ names \in Seq(Chars) /\ Len(names) = n + 1
            /\ names[n + 1] = FinalName /\ \A k \in 1..n : names[k] = read[k]
        BY <2>4, <3>2, AppendProperties
      <3>5. DOMAIN names = 1..(n + 1)
        BY <3>4, LenProperties
      <3> QED
        BY <3>3, <3>4, <3>5
    <2> HIDE DEF n, names
    <2>6. ASSUME NEW i \in 1..(n + 1), NEW j \in 1..(n + 1), i < j, names[i] = names[j]
          PROVE  FALSE
      <3>1. i \in 1..n /\ names[i] = Name(made[i])
        BY <2>1, <2>5, <2>6
      <3>2. PICK a \in Chars : Name(made[i]) = a \o (<<"_">> \o Numeral[i - 1])
        BY <2>2, <3>1
      <3>3. CASE j = n + 1
        <4> DEFINE num == Numeral[i - 1]
        <4>1. num \in Seq(Digit) /\ num # <<>>
          BY <2>3, <3>1
        <4>2. Dashed(a \o (<<"_">> \o num), a, num)
          BY <4>1, DashedTexts
        <4>3. a \o (<<"_">> \o num) = FinalName
          BY <2>5, <2>6, <3>1, <3>2, <3>3
        <4> HIDE DEF num
        <4>4. Len(num) \in Nat \ {0} /\ \A k \in 1..Len(num) : num[k] \in Digit
          BY <4>1, EmptySeq, LenProperties, ElementOfSeq
        <4>5. FinalName[19] \in Digit
          <5>1. Dashed(FinalName, a, num)
            BY <4>2, <4>3
          <5> DEFINE w == FinalName
                     ka == Len(a)
                     kn == Len(num)
          <5>2. /\ ka \in Nat /\ kn \in Nat \ {0} /\ Len(w) = ka + 1 + kn
                /\ \A k \in 1..kn : w[ka + 1 + k] = num[k] /\ num[k] \in Digit
            BY <4>4, <5>1 DEF Dashed
          <5>3. Len(w) = 19
            BY <2>4
          <5> HIDE DEF w, ka, kn
          <5>4. kn \in 1..kn /\ ka + 1 + kn = 19
            <6>1. ka \in Nat /\ kn \in Nat \ {0} /\ ka + 1 + kn = 19
              <7>1. Len(w) = ka + 1 + kn
                BY <5>2
              <7> QED
                BY <5>2, <5>3, <7>1
            <6> QED
              BY <6>1
          <5>5. w[19] \in Digit
            BY <5>2, <5>4
          <5> QED
            BY <5>5 DEF w
        <4> QED
          BY <2>4, <4>5 DEF Digit
      <3>4. CASE j # n + 1
        <4>1. j \in 1..n /\ names[j] = Name(made[j])
          BY <2>1, <2>5, <3>4
        <4>2. PICK b \in Chars : Name(made[j]) = b \o (<<"_">> \o Numeral[j - 1])
          BY <2>2, <4>1
        <4>3. Numeral[i - 1] = Numeral[j - 1]
          <5>1. a \o (<<"_">> \o Numeral[i - 1]) = b \o (<<"_">> \o Numeral[j - 1])
            BY <2>6, <3>1, <3>2, <4>1, <4>2
          <5>2. Numeral[i - 1] \in Seq(Digit) /\ Numeral[j - 1] \in Seq(Digit)
            BY <2>3, <3>1, <4>1
          <5> DEFINE w == a \o (<<"_">> \o Numeral[i - 1])
          <5>3. Dashed(w, a, Numeral[i - 1]) /\ Dashed(w, b, Numeral[j - 1])
            <6>1. Dashed(w, a, Numeral[i - 1])
              BY <5>2, DashedTexts
            <6>2. Dashed(b \o (<<"_">> \o Numeral[j - 1]), b, Numeral[j - 1])
              BY <5>2, DashedTexts
            <6> QED
              BY <5>1, <6>1, <6>2
          <5> HIDE DEF w
          <5> QED
            BY <5>2, <5>3, LastParts
        <4>4. i - 1 = j - 1
          BY <2>3, <3>1, <4>1, <4>3, NumeralAssumption
        <4> QED
          BY <2>1, <2>6, <4>4
      <3> QED
        BY <3>3, <3>4
    <2>7. ASSUME NEW i \in 1..(n + 1), NEW j \in 1..(n + 1), i < j, Cut(names[i]) = Cut(names[j])
          PROVE  Len(names[i]) > Limit \/ Len(names[j]) > Limit
      <3>1. Len(names[i]) \in Nat /\ Len(names[j]) \in Nat
        <4>1. names[i] \in Seq(Char) /\ names[j] \in Seq(Char)
          BY <2>5, ElementOfSeq DEF Chars
        <4> QED
          BY <4>1, LenProperties
      <3>2. ASSUME Len(names[i]) <= Limit, Len(names[j]) <= Limit PROVE FALSE
        BY <2>6, <2>7, <3>2 DEF Cut
      <3> QED
        BY <3>1, <3>2, LimitAssumption
    <2>8. \A i, j \in DOMAIN names : i < j /\ Cut(names[i]) = Cut(names[j]) =>
            Len(names[i]) > Limit \/ Len(names[j]) > Limit
      BY <2>5, <2>7
    <2> QED
      BY <2>8 DEF CtesApart, names
  <1> QED
    BY <1>1, AlwaysReads, PTL
=============================================================================
