---------------------------- MODULE ColumnProofs ----------------------------
(***************************************************************************)
(* For every store, table store and set of requests: every column a        *)
(* statement names is exposed, once, by a table it sees.                   *)
(***************************************************************************)
EXTENDS PlanProofs

----------------------------------------------------------------------------
(* Sequences without repetition *)

LEMMA ConcatApart ==
  ASSUME NEW S, NEW s \in Seq(S), NEW t \in Seq(S), IsInjective(s), IsInjective(t),
         ToSet(s) \cap ToSet(t) = {}
  PROVE  IsInjective(s \o t)
  <1> DEFINE m == Len(s)
             n == Len(t)
             u == s \o t
  <1>1. /\ m \in Nat /\ n \in Nat /\ u \in Seq(S) /\ Len(u) = m + n
        /\ \A i \in 1..m : u[i] = s[i]
        /\ \A i \in 1..n : u[m + i] = t[i]
    BY ConcatParts
  <1>2. DOMAIN s = 1..m /\ DOMAIN t = 1..n
    BY LenProperties
  <1>3. DOMAIN u = 1..(m + n)
    BY <1>1, LenProperties
  <1> HIDE DEF m, n, u
  <1>4. \A i \in 1..(m + n) : i \in 1..m \/ \E j \in 1..n : i = m + j
    <2> SUFFICES ASSUME NEW i \in 1..(m + n), i \notin 1..m PROVE \E j \in 1..n : i = m + j
      OBVIOUS
    <2>1. i - m \in 1..n /\ i = m + (i - m)
      BY <1>1
    <2> QED
      BY <2>1
  <1>5. \A i \in 1..m, j \in 1..n : s[i] # t[j]
    BY <1>2 DEF ToSet
  <1>6. \A i, j \in 1..m : s[i] = s[j] => i = j
    BY <1>2 DEF IsInjective
  <1>7. \A i, j \in 1..n : t[i] = t[j] => i = j
    BY <1>2 DEF IsInjective
  <1>8. ASSUME NEW i \in 1..(m + n), NEW j \in 1..(m + n), u[i] = u[j] PROVE i = j
    <2>1. CASE i \in 1..m /\ j \in 1..m
      BY <1>1, <1>6, <1>8, <2>1
    <2>2. CASE i \in 1..m /\ j \notin 1..m
      <3>1. PICK l \in 1..n : j = m + l
        BY <1>4, <2>2
      <3> QED
        BY <1>1, <1>5, <1>8, <2>2, <3>1
    <2>3. CASE i \notin 1..m /\ j \in 1..m
      <3>1. PICK k \in 1..n : i = m + k
        BY <1>4, <2>3
      <3> QED
        BY <1>1, <1>5, <1>8, <2>3, <3>1
    <2>4. CASE i \notin 1..m /\ j \notin 1..m
      <3>1. PICK k \in 1..n : i = m + k
        BY <1>4, <2>4
      <3>2. PICK l \in 1..n : j = m + l
        BY <1>4, <2>4
      <3> QED
        BY <1>1, <1>7, <1>8, <3>1, <3>2
    <2> QED
      BY <2>1, <2>2, <2>3, <2>4
  <1> QED
    BY <1>3, <1>8 DEF IsInjective, u

\* Sequences without repetition, no two of which share an element, are joined
\* to one without repetition.
PartsApart(s) ==
  /\ \A i \in DOMAIN s : IsInjective(s[i])
  /\ \A i, j \in DOMAIN s : i # j => ToSet(s[i]) \cap ToSet(s[j]) = {}

LEMMA NothingApart == IsInjective(<<>>)
  BY DEF IsInjective

LEMMA FlattenApart ==
  ASSUME NEW S, NEW s \in Seq(Seq(S)), PartsApart(s)
  PROVE  IsInjective(FlattenSeq(s))
  <1> DEFINE n == Len(s)
  <1>1. n \in Nat
    BY FlattenSome
  <1>2. DOMAIN s = 1..n
    BY LenProperties
  <1>3. CASE n = 0
    <2>1. FlattenSeq(s) = <<>>
      BY <1>3, FlattenSome
    <2> QED
      BY <2>1, NothingApart
  <1>4. CASE n > 0
    <2>1. PICK f : FlattenedBy(f, s) /\ FlattenSeq(s) = f[n]
      BY <1>4, FlattenSome
    <2>2. /\ \A i \in 1..n : s[i] \in Seq(S) /\ f[i] \in Seq(S)
          /\ n > 0 => f[1] = s[1]
          /\ \A i \in 1..(n - 1) : f[i + 1] = f[i] \o s[i + 1]
      <3>1. FlattenedUpTo(S, n, f, s)
        BY <1>1, <2>1, FlattenSteps
      <3> QED
        BY <3>1 DEF FlattenedUpTo
    <2> HIDE DEF n
    <2> DEFINE T == {i \in 1..n : IsInjective(f[i]) /\ \A x \in ToSet(f[i]) : \E j \in 1..i : x \in ToSet(s[j])}
    <2>3. n > 0 => 1 \in T
      <3>1. 1 \in 1..n /\ 1 \in 1..1
        BY <1>1, <1>4
      <3>2. IsInjective(f[1]) /\ \A x \in ToSet(f[1]) : \E j \in 1..1 : x \in ToSet(s[j])
        BY <1>2, <1>4, <2>2, <3>1 DEF PartsApart
      <3> QED
        BY <3>1, <3>2
    <2>4. ASSUME NEW i \in 1..(n - 1), i \in T PROVE i + 1 \in T
      <3>1. i + 1 \in 1..n /\ i \in 1..n /\ (\A j \in 1..i : j \in 1..n /\ j # i + 1 /\ j \in 1..(i + 1)) /\ i + 1 \in 1..(i + 1)
        BY <1>1
      <3>2. f[i] \in Seq(S) /\ s[i + 1] \in Seq(S) /\ f[i + 1] = f[i] \o s[i + 1]
        BY <2>2, <3>1
      <3>3. IsInjective(f[i]) /\ \A x \in ToSet(f[i]) : \E j \in 1..i : x \in ToSet(s[j])
        BY <2>4
      <3>4. IsInjective(s[i + 1]) /\ \A j \in 1..i : ToSet(s[j]) \cap ToSet(s[i + 1]) = {}
        BY <1>2, <3>1 DEF PartsApart
      <3>5. ToSet(f[i]) \cap ToSet(s[i + 1]) = {}
        BY <3>3, <3>4
      <3>6. IsInjective(f[i + 1])
        BY <3>2, <3>3, <3>4, <3>5, ConcatApart
      <3>7. ToSet(f[i + 1]) = ToSet(f[i]) \cup ToSet(s[i + 1])
        BY <3>2, ElementsOfConcat
      <3>8. \A x \in ToSet(f[i + 1]) : \E j \in 1..(i + 1) : x \in ToSet(s[j])
        BY <3>1, <3>3, <3>7
      <3> QED
        BY <3>1, <3>6, <3>8
    <2>5. 1..n \subseteq T
      <3> HIDE DEF T
      <3> QED
        BY <1>1, <2>3, <2>4, Climb
    <2>6. n \in 1..n
      BY <1>1, <1>4
    <2> QED
      BY <2>1, <2>5, <2>6
  <1> QED
    BY <1>1, <1>3, <1>4

\* What is kept of a sequence without repetition is one.
LEMMA KeptApart ==
  ASSUME NEW S, NEW s \in Seq(S), NEW P, \A i, j \in DOMAIN s \cap P : s[i] = s[j] => i = j
  PROVE  IsInjective(Kept(s, P))
  <1> DEFINE n == Len(s)
             f == [i \in DOMAIN s |-> IF i \in P THEN <<s[i]>> ELSE <<>>]
  <1>1. n \in Nat /\ DOMAIN s = 1..n /\ \A i \in 1..n : s[i] \in S
    BY LenProperties, ElementOfSeq
  <1> HIDE DEF n
  <1>2. DOMAIN f = 1..n /\ \A i \in 1..n : f[i] = IF i \in P THEN <<s[i]>> ELSE <<>>
    BY <1>1
  <1>3. f = [i \in 1..n |-> f[i]]
    BY <1>1
  <1> HIDE DEF f
  <1>4. \A i \in 1..n : f[i] \in Seq(S)
    <2> SUFFICES ASSUME NEW i \in 1..n PROVE f[i] \in Seq(S)
      OBVIOUS
    <2>1. <<s[i]>> \in Seq(S) /\ <<>> \in Seq(S)
      BY <1>1
    <2> QED
      BY <1>2, <2>1
  <1>5. f \in Seq(Seq(S))
    <2>1. f \in [1..n -> Seq(S)]
      BY <1>3, <1>4
    <2> QED
      BY <1>1, <2>1, FunctionIsSeq
  <1>6. \A x : IsInjective(<<x>>) /\ ToSet(<<x>>) = {x}
    <2>1. \A x : DOMAIN <<x>> = {1} /\ <<x>>[1] = x
      OBVIOUS
    <2> QED
      BY <2>1 DEF IsInjective, ToSet
  <1>7. ToSet(<<>>) = {}
    BY DEF ToSet
  <1>8. \A i \in 1..n : IsInjective(f[i]) /\ ToSet(f[i]) = IF i \in P THEN {s[i]} ELSE {}
    BY <1>2, <1>6, <1>7, NothingApart
  <1>9. ASSUME NEW i \in 1..n, NEW j \in 1..n, i # j PROVE ToSet(f[i]) \cap ToSet(f[j]) = {}
    <2>1. i \in P /\ j \in P => s[i] # s[j]
      BY <1>1, <1>9
    <2>2. ToSet(f[i]) = IF i \in P THEN {s[i]} ELSE {}
      BY <1>8
    <2>3. ToSet(f[j]) = IF j \in P THEN {s[j]} ELSE {}
      BY <1>8
    <2> HIDE DEF n
    <2> QED
      BY <2>1, <2>2, <2>3
  <1>10. PartsApart(f)
    BY <1>2, <1>8, <1>9 DEF PartsApart
  <1>11. IsInjective(FlattenSeq(f))
    BY <1>5, <1>10, FlattenApart
  <1> QED
    BY <1>11 DEF Kept, f

LEMMA ReverseApart ==
  ASSUME NEW s, IsSeq(s), IsInjective(s)
  PROVE  IsInjective(Reverse(s))
  <1> DEFINE n == Len(s)
             r == Reverse(s)
  <1>1. n \in Nat /\ DOMAIN s = 1..n
    BY LenProperties DEF IsSeq
  <1>2. r = [i \in 1..n |-> s[(n - i) + 1]]
    BY DEF Reverse
  <1> HIDE DEF n, r
  <1>3. \A i \in 1..n : (n - i) + 1 \in 1..n
    BY <1>1
  <1>4. \A i, j \in 1..n : (n - i) + 1 = (n - j) + 1 => i = j
    BY <1>1
  <1>5. DOMAIN r = 1..n /\ \A i \in 1..n : r[i] = s[(n - i) + 1]
    BY <1>2
  <1>6. \A i, j \in 1..n : r[i] = r[j] => i = j
    BY <1>1, <1>3, <1>4, <1>5 DEF IsInjective
  <1>7. IsInjective(r)
    BY <1>5, <1>6 DEF IsInjective
  <1> QED
    BY <1>7 DEF r

\* Chains are gone through in order, and what they give is apart.
LEMMA GivenApart ==
  ASSUME NEW t, NEW S, IsFiniteSet(S), \A c \in S : IsChain(t, c), NEW f, \A c \in S : IsSeq(f[c]),
         \A c \in S : IsInjective(f[c]),
         \A c, d \in S : c # d => ToSet(f[c]) \cap ToSet(f[d]) = {}
  PROVE  IsInjective(FlattenSeq([i \in DOMAIN InOrder(S) |-> f[InOrder(S)[i]]]))
  <1> DEFINE n == Cardinality(S)
             g == InOrder(S)
             h == [i \in DOMAIN g |-> f[g[i]]]
             E == UNION {ToSet(f[c]) : c \in S}
  <1>1. /\ n \in Nat /\ DOMAIN g = 1..n
        /\ \A i \in 1..n : g[i] \in S
        /\ \A i, j \in 1..n : g[i] = g[j] => i = j
    BY InOrderGoesThrough
  <1> HIDE DEF n, g
  <1>2. DOMAIN h = 1..n /\ \A i \in 1..n : h[i] = f[g[i]]
    BY <1>1
  <1>3. h = [i \in 1..n |-> h[i]]
    BY <1>2
  <1>4. \A c \in S : f[c] \in Seq(E)
    <2> SUFFICES ASSUME NEW c \in S PROVE f[c] \in Seq(E)
      OBVIOUS
    <2>1. ToSet(f[c]) \subseteq E
      OBVIOUS
    <2> HIDE DEF E
    <2> QED
      BY <2>1, SeqMonotonic DEF IsSeq
  <1> HIDE DEF h, E
  <1>5. h \in [1..n -> Seq(E)]
    BY <1>1, <1>2, <1>3, <1>4
  <1>6. h \in Seq(Seq(E))
    BY <1>1, <1>5, FunctionIsSeq
  <1>7. PartsApart(h)
    <2>1. \A i \in 1..n : IsInjective(h[i])
      BY <1>1, <1>2
    <2>2. \A i, j \in 1..n : i # j => ToSet(h[i]) \cap ToSet(h[j]) = {}
      BY <1>1, <1>2
    <2> QED
      BY <1>2, <2>1, <2>2 DEF PartsApart
  <1> QED
    BY <1>6, <1>7, FlattenApart DEF h, g

----------------------------------------------------------------------------
(* Columns that are there *)

\* A table that is there exposes a column once, or not at all.
IsThere(b, tbl) == IsBase(tbl) \/ tbl \in Ctes(b)
Shows(b, tbl, col) == IsThere(b, tbl) /\ Exposes(b, tbl, col) = 1
Hides(b, tbl, col) == tbl \in Ctes(b) /\ Exposes(b, tbl, col) = 0

\* What the ON of join j sees, and what the whole of a statement does.
SeenBy(stmt, j) == {stmt.from} \cup {stmt.joins[i].tbl : i \in 1..j}
Seen(stmt) == {stmt.from} \cup {stmt.joins[i].tbl : i \in DOMAIN stmt.joins}
ScopeApart(stmt) ==
  /\ \A i, j \in DOMAIN stmt.joins : stmt.joins[i].tbl = stmt.joins[j].tbl => i = j
  /\ \A i \in DOMAIN stmt.joins : stmt.joins[i].tbl # stmt.from
ReadsRef(b, ref, tbls) == ref.qualified /\ ref.tbl \in tbls /\ Shows(b, ref.tbl, ref.col)

OutsRead(b, outs, tbls) == \A i \in DOMAIN outs : \A j \in DOMAIN outs[i].refs : ReadsRef(b, outs[i].refs[j], tbls)
SetsFit(sets, t) ==
  \A k \in DOMAIN sets :
    /\ sets[k].col \in BaseColumns(t)
    /\ \A l \in DOMAIN sets : sets[l].col = sets[k].col => l = k

\* A statement that reads tables that are there, each of them once, and names
\* every column with its table.
StmtReads(b, stmt) ==
  /\ IsSeq(stmt.joins) /\ ScopeApart(stmt)
  /\ OutsRead(b, stmt.outs, Seen(stmt))
  /\ \A j \in DOMAIN stmt.joins : \A k \in 1..2 : ReadsRef(b, stmt.joins[j].on[k], SeenBy(stmt, j))
  /\ \A k \in DOMAIN stmt.where : ReadsRef(b, stmt.where[k].ref, Seen(stmt)) /\ (k > 1 => stmt.where[k].and)
  /\ SetsFit(stmt.sets, stmt.from.type)
SelectReads(b, tok) ==
  /\ \A col \in ResponseColumns : Shows(b, tok.tbl, col)
  /\ \A k \in DOMAIN tok.order : Shows(b, tok.tbl, tok.order[k].col)

\* Every statement of the buffer reads what is there.
AllRead(b) ==
  /\ \A i \in Positions(b, {"cte", "write"}) : StmtReads(b, b[i].stmt)
  /\ \A i \in Positions(b, {"select"}) : SelectReads(b, b[i])
FinalsOver(b) == \A i \in Positions(b, {"cte"}) : b[i].stmt.q = "final" => b[i].stmt.from \in Ctes(b)

\* What is there stays there, and shows what it showed.
GrownFrom(b, c) ==
  \E toks : /\ IsSeq(b) /\ IsSeq(toks) /\ c = b \o toks
            /\ NamesUnique(b) /\ NamesUnique(c) /\ FinalsOver(b)

\* The CTE of a name is the one there is.
LEMMA StmtNamedIn ==
  ASSUME NEW b, NamesUnique(b), NEW i \in Positions(b, {"cte"})
  PROVE  StmtIn(b, b[i].tbl) = b[i].stmt /\ b[i].tbl \in Ctes(b)
  <1>1. \A k \in Positions(b, {"cte"}) : b[k].tbl = b[i].tbl <=> k = i
    BY DEF NamesUnique
  <1>2. (CHOOSE k \in Positions(b, {"cte"}) : b[k].tbl = b[i].tbl) = i
    BY <1>1
  <1> QED
    BY <1>2 DEF StmtIn, Ctes

LEMMA StmtStays ==
  ASSUME NEW b, NEW c, GrownFrom(b, c), NEW tbl \in Ctes(b)
  PROVE  StmtIn(c, tbl) = StmtIn(b, tbl) /\ tbl \in Ctes(c)
  <1>1. PICK toks : IsSeq(b) /\ IsSeq(toks) /\ c = b \o toks /\ NamesUnique(b) /\ NamesUnique(c)
    BY DEF GrownFrom
  <1>2. PICK i \in Positions(b, {"cte"}) : b[i].tbl = tbl
    BY DEF Ctes
  <1>3. i \in Positions(c, {"cte"}) /\ c[i] = b[i]
    BY <1>1, <1>2, PositionsBefore
  <1>4. StmtIn(b, b[i].tbl) = b[i].stmt
    BY <1>1, <1>2, StmtNamedIn
  <1>5. StmtIn(c, c[i].tbl) = c[i].stmt /\ c[i].tbl \in Ctes(c)
    BY <1>1, <1>3, StmtNamedIn
  <1> QED
    BY <1>2, <1>3, <1>4, <1>5

LEMMA ExposesStays ==
  ASSUME NEW b, NEW c, GrownFrom(b, c), NEW tbl, IsThere(b, tbl)
  PROVE  IsThere(c, tbl) /\ \A col : Exposes(c, tbl, col) = Exposes(b, tbl, col)
  <1>1. CASE IsBase(tbl)
    BY <1>1 DEF IsThere, Exposes
  <1>2. CASE ~IsBase(tbl)
    <2>1. tbl \in Ctes(b)
      BY <1>2 DEF IsThere
    <2>2. StmtIn(c, tbl) = StmtIn(b, tbl) /\ tbl \in Ctes(c)
      BY <2>1, StmtStays
    <2>3. PICK i \in Positions(b, {"cte"}) : b[i].tbl = tbl
      BY <2>1 DEF Ctes
    <2>4. NamesUnique(b) /\ FinalsOver(b)
      BY DEF GrownFrom
    <2>5. StmtIn(b, tbl) = b[i].stmt
      BY <2>3, <2>4, StmtNamedIn
    <2>6. StmtIn(b, tbl).q = "final" => StmtIn(b, tbl).from \in Ctes(b)
      BY <2>3, <2>4, <2>5 DEF FinalsOver
    <2>7. StmtIn(b, tbl).q = "final" => StmtIn(c, StmtIn(b, tbl).from) = StmtIn(b, StmtIn(b, tbl).from)
      BY <2>6, StmtStays
    <2>8. IsThere(c, tbl)
      BY <2>2 DEF IsThere
    <2>9. \A col : Exposes(c, tbl, col) = Exposes(b, tbl, col)
      BY <1>2, <2>2, <2>7 DEF Exposes
    <2> QED
      BY <2>8, <2>9
  <1> QED
    BY <1>1, <1>2

LEMMA ShowsStays ==
  ASSUME NEW b, NEW c, GrownFrom(b, c)
  PROVE  /\ \A tbl, col : Shows(b, tbl, col) => Shows(c, tbl, col)
         /\ \A tbl, col : Hides(b, tbl, col) => Hides(c, tbl, col)
  <1>1. \A tbl, col : Shows(b, tbl, col) => Shows(c, tbl, col)
    BY ExposesStays DEF Shows
  <1>2. ASSUME NEW tbl, NEW col, Hides(b, tbl, col) PROVE Hides(c, tbl, col)
    <2>1. tbl \in Ctes(b) /\ IsThere(b, tbl) /\ Exposes(b, tbl, col) = 0
      BY <1>2 DEF Hides, IsThere
    <2>2. tbl \in Ctes(c) /\ Exposes(c, tbl, col) = 0
      BY <2>1, StmtStays, ExposesStays
    <2> QED
      BY <2>2 DEF Hides
  <1> QED
    BY <1>1, <1>2

\* What reads what is there goes on reading it.
LEMMA ReadsStay ==
  ASSUME NEW b, NEW c, GrownFrom(b, c)
  PROVE  /\ \A stmt : StmtReads(b, stmt) => StmtReads(c, stmt)
         /\ \A tok : SelectReads(b, tok) => SelectReads(c, tok)
  <1>1. \A ref, tbls : ReadsRef(b, ref, tbls) => ReadsRef(c, ref, tbls)
    BY ShowsStays DEF ReadsRef
  <1>2. \A stmt : StmtReads(b, stmt) => StmtReads(c, stmt)
    BY <1>1 DEF StmtReads, OutsRead
  <1>3. \A tok : SelectReads(b, tok) => SelectReads(c, tok)
    BY ShowsStays DEF SelectReads
  <1> QED
    BY <1>2, <1>3

LEMMA AllReadMore ==
  ASSUME NEW b, NEW toks, NEW c, c = b \o toks, IsSeq(b), IsSeq(toks), NamesUnique(b), NamesUnique(c),
         AllRead(b), FinalsOver(b),
         \A i \in Positions(toks, {"cte", "write"}) : StmtReads(c, toks[i].stmt),
         \A i \in Positions(toks, {"select"}) : SelectReads(c, toks[i]),
         \A i \in Positions(toks, {"cte"}) : toks[i].stmt.q = "final" => toks[i].stmt.from \in Ctes(b)
  PROVE  AllRead(c) /\ FinalsOver(c)
  <1>1. GrownFrom(b, c)
    BY DEF GrownFrom
  <1>2. ASSUME NEW i \in Positions(c, {"cte", "write"}) PROVE StmtReads(c, c[i].stmt)
    <2>1. ComesFrom(c, i, b, toks, {"cte", "write"})
      BY PositionsOfJoined
    <2>2. CASE i \in Positions(b, {"cte", "write"}) /\ c[i] = b[i]
      BY <1>1, <2>2, ReadsStay DEF AllRead
    <2>3. CASE \E j \in Positions(toks, {"cte", "write"}) : c[i] = toks[j]
      BY <2>3
    <2> QED
      BY <2>1, <2>2, <2>3 DEF ComesFrom
  <1>3. ASSUME NEW i \in Positions(c, {"select"}) PROVE SelectReads(c, c[i])
    <2>1. ComesFrom(c, i, b, toks, {"select"})
      BY PositionsOfJoined
    <2>2. CASE i \in Positions(b, {"select"}) /\ c[i] = b[i]
      BY <1>1, <2>2, ReadsStay DEF AllRead
    <2>3. CASE \E j \in Positions(toks, {"select"}) : c[i] = toks[j]
      BY <2>3
    <2> QED
      BY <2>1, <2>2, <2>3 DEF ComesFrom
  <1>4. ASSUME NEW i \in Positions(c, {"cte"}), c[i].stmt.q = "final" PROVE c[i].stmt.from \in Ctes(c)
    <2>1. ComesFrom(c, i, b, toks, {"cte"})
      BY PositionsOfJoined
    <2>2. CASE i \in Positions(b, {"cte"}) /\ c[i] = b[i]
      BY <1>1, <1>4, <2>2, StmtStays DEF FinalsOver
    <2>3. CASE \E j \in Positions(toks, {"cte"}) : c[i] = toks[j]
      BY <1>1, <1>4, <2>3, StmtStays
    <2> QED
      BY <2>1, <2>2, <2>3 DEF ComesFrom
  <1> QED
    BY <1>2, <1>3, <1>4 DEF AllRead, FinalsOver

----------------------------------------------------------------------------
(* The columns of tables and CTEs *)

\* No column of a list has that name.
NoneNamed(outs, name) == \A n \in DOMAIN outs : outs[n].name # name

LEMMA CountIs ==
  ASSUME NEW stmt, NEW col
  PROVE  /\ \A k : OnlyOne(stmt.outs, col, k) => Count(stmt, col) = 1
         /\ NoneNamed(stmt.outs, col) => Count(stmt, col) = 0
  <1> DEFINE there == {i \in DOMAIN stmt.outs : stmt.outs[i].name = col}
  <1>1. \A k : OnlyOne(stmt.outs, col, k) => there = {k}
    BY DEF OnlyOne
  <1>2. NoneNamed(stmt.outs, col) => there = {}
    BY DEF NoneNamed
  <1>3. Count(stmt, col) = Cardinality(there)
    BY DEF Count
  <1> HIDE DEF there
  <1>4. \A k : Cardinality({k}) = 1
    BY FS_Singleton
  <1>5. Cardinality({}) = 0
    BY FS_EmptySet
  <1> QED
    BY <1>1, <1>2, <1>3, <1>4, <1>5

\* A base table shows its columns, and so does a CTE that writes.
LEMMA BaseShows ==
  ASSUME NEW b, NEW tbl, IsBase(tbl), NEW col \in BaseColumns(tbl.type)
  PROVE  Shows(b, tbl, col)
  BY DEF Shows, IsThere, Exposes

LEMMA RowShows ==
  ASSUME NEW b, NamesUnique(b), NEW i \in Positions(b, {"cte"}), NEW tbl, NEW stmt,
         b[i].tbl = tbl, b[i].stmt = stmt, tbl.is_cte, stmt.q \notin {"select", "final"},
         NEW col \in BaseColumns(tbl.type)
  PROVE  Shows(b, tbl, col)
  <1>1. StmtIn(b, tbl) = stmt /\ tbl \in Ctes(b)
    BY StmtNamedIn
  <1>2. ~IsBase(tbl)
    BY DEF IsBase
  <1>3. Exposes(b, tbl, col) = 1
    BY <1>1, <1>2 DEF Exposes
  <1> QED
    BY <1>1, <1>3 DEF Shows, IsThere

\* A CTE that selects shows the columns of its list.
LEMMA ListShows ==
  ASSUME NEW b, NamesUnique(b), NEW i \in Positions(b, {"cte"}), NEW tbl, NEW stmt,
         b[i].tbl = tbl, b[i].stmt = stmt, tbl.is_cte, stmt.q = "select"
  PROVE  /\ \A col, k : OnlyOne(stmt.outs, col, k) => Shows(b, tbl, col)
         /\ \A col : NoneNamed(stmt.outs, col) => Hides(b, tbl, col)
         /\ tbl \in Ctes(b) /\ StmtIn(b, tbl) = stmt
  <1>1. StmtIn(b, tbl) = stmt /\ tbl \in Ctes(b)
    BY StmtNamedIn
  <1>2. ~IsBase(tbl)
    BY DEF IsBase
  <1>3. \A col : Exposes(b, tbl, col) = Count(stmt, col)
    BY <1>1, <1>2 DEF Exposes
  <1>4. \A col, k : OnlyOne(stmt.outs, col, k) => Shows(b, tbl, col)
    BY <1>1, <1>3, CountIs DEF Shows, IsThere
  <1>5. \A col : NoneNamed(stmt.outs, col) => Hides(b, tbl, col)
    BY <1>1, <1>3, CountIs DEF Hides
  <1> QED
    BY <1>1, <1>4, <1>5

\* The final CTE shows the columns of its list and those of the CTE it selects
\* from, unless they meet.
LEMMA FinalShows ==
  ASSUME NEW b, NamesUnique(b), NEW i \in Positions(b, {"cte"}), NEW tbl, NEW stmt,
         b[i].tbl = tbl, b[i].stmt = stmt, ~IsBase(tbl), stmt.q = "final",
         stmt.from \in Ctes(b), stmt.from.is_cte, StmtIn(b, stmt.from).q = "select"
  PROVE  /\ \A col, k : OnlyOne(stmt.outs, col, k) /\ Hides(b, stmt.from, col) => Shows(b, tbl, col)
         /\ \A col : NoneNamed(stmt.outs, col) /\ Shows(b, stmt.from, col) => Shows(b, tbl, col)
  <1>1. StmtIn(b, tbl) = stmt /\ tbl \in Ctes(b)
    BY StmtNamedIn
  <1>2. ~IsBase(stmt.from)
    BY DEF IsBase
  <1>3. \A col : Exposes(b, stmt.from, col) = Count(StmtIn(b, stmt.from), col)
    BY <1>2 DEF Exposes
  <1>4. \A col : Exposes(b, tbl, col) = Count(stmt, col) + Exposes(b, stmt.from, col)
    BY <1>1, <1>3 DEF Exposes
  <1>5. \A col, k : OnlyOne(stmt.outs, col, k) /\ Hides(b, stmt.from, col) => Shows(b, tbl, col)
    BY <1>1, <1>4, CountIs DEF Shows, Hides, IsThere
  <1>6. \A col : NoneNamed(stmt.outs, col) /\ Shows(b, stmt.from, col) => Shows(b, tbl, col)
    BY <1>1, <1>4, CountIs DEF Shows, IsThere
  <1> QED
    BY <1>5, <1>6

----------------------------------------------------------------------------
(* A statement that reads what is there resolves *)

LEMMA SameEnd ==
  ASSUME NEW m \in Nat, NEW n \in Nat, 1..m = 1..(1 + n)
  PROVE  m = n + 1
  <1>1. 1 + n \in 1..m
    OBVIOUS
  <1>2. m \in 1..(1 + n)
    BY <1>1
  <1> QED
    BY <1>1, <1>2

\* The tables of a statement, in the order it names them.
LEMMA ScopeIs ==
  ASSUME NEW stmt, IsSeq(stmt.joins)
  PROVE  LET scope == Scope(stmt)
             n == Len(stmt.joins) IN
         /\ n \in Nat /\ DOMAIN stmt.joins = 1..n
         /\ IsSeq(scope) /\ Len(scope) = n + 1 /\ DOMAIN scope = 1..(n + 1)
         /\ scope[1] = stmt.from
         /\ \A j \in 1..n : scope[j + 1] = stmt.joins[j].tbl
  <1> DEFINE scope == Scope(stmt)
             n == Len(stmt.joins)
             tables == JoinTablesOf(stmt)
  <1>1. FunctionOn(tables, DOMAIN stmt.joins)
    BY DEF FunctionOn, JoinTablesOf
  <1>2. IsSeq(tables) /\ Len(tables) = n /\ DOMAIN tables = DOMAIN stmt.joins /\ n \in Nat /\ DOMAIN stmt.joins = 1..n
    BY <1>1, MapIsSeq
  <1>3. \A j \in DOMAIN stmt.joins : tables[j] = stmt.joins[j].tbl
    BY DEF JoinTablesOf
  <1>4. scope = <<stmt.from>> \o tables
    BY DEF Scope
  <1>5. IsSeq(<<stmt.from>>) /\ Len(<<stmt.from>>) = 1 /\ <<stmt.from>>[1] = stmt.from
    BY TupleIsSeq
  <1> HIDE DEF scope, n, tables
  <1> DEFINE one == <<stmt.from>>
  <1>6. one[1] = stmt.from /\ IsSeq(one) /\ Len(one) = 1
    BY <1>5
  <1>7. scope = one \o tables
    BY <1>4
  <1> HIDE DEF one
  <1>8. /\ IsSeq(scope) /\ DOMAIN scope = 1..(1 + n)
        /\ \A i \in 1..1 : scope[i] = one[i]
        /\ \A i \in 1..n : scope[1 + i] = tables[i]
    <2>1. /\ DOMAIN scope = 1..(Len(one) + Len(tables)) /\ IsSeq(scope)
          /\ \A i \in 1..Len(one) : scope[i] = one[i]
          /\ \A i \in 1..Len(tables) : scope[Len(one) + i] = tables[i]
      <3>1. /\ DOMAIN (one \o tables) = 1..(Len(one) + Len(tables)) /\ IsSeq(one \o tables)
            /\ \A i \in 1..Len(one) : (one \o tables)[i] = one[i]
            /\ \A i \in 1..Len(tables) : (one \o tables)[Len(one) + i] = tables[i]
        <4>1. IsSeq(one) /\ IsSeq(tables)
          BY <1>2, <1>6
        <4> QED
          BY <4>1, ConcatIsSeq
      <3> QED
        BY <1>7, <3>1
    <2> QED
      BY <1>2, <1>6, <2>1
  <1>9. scope[1] = stmt.from
    BY <1>6, <1>8
  <1>10. \A j \in 1..n : scope[j + 1] = stmt.joins[j].tbl
    <2>1. \A j \in 1..n : j + 1 = 1 + j /\ j \in DOMAIN stmt.joins
      BY <1>2
    <2> QED
      BY <1>3, <1>8, <2>1
  <1>11. Len(scope) = n + 1
    <2>1. DOMAIN scope = 1..Len(scope) /\ Len(scope) \in Nat
      BY <1>8, LenProperties DEF IsSeq
    <2>2. 1 + n \in Nat /\ 1..Len(scope) = 1..(1 + n)
      BY <1>2, <1>8, <2>1
    <2> DEFINE m == Len(scope)
    <2> HIDE DEF n, m
    <2> QED
      BY <1>2, <2>1, <2>2, SameEnd DEF m
  <1> QED
    BY <1>2, <1>8, <1>9, <1>10, <1>11 DEF scope, n

LEMMA TimesOnce ==
  ASSUME NEW s, IsInjective(s), NEW tbl \in ToSet(s)
  PROVE  Times(tbl, s) = 1
  <1>1. PICK i \in DOMAIN s : s[i] = tbl
    BY DEF ToSet
  <1>2. {k \in DOMAIN s : s[k] = tbl} = {i}
    BY <1>1 DEF IsInjective
  <1> QED
    BY <1>2, FS_Singleton DEF Times

LEMMA RefResolves ==
  ASSUME NEW b, NEW ref, NEW tbls, NEW scope, ReadsRef(b, ref, tbls), IsInjective(scope),
         tbls \subseteq ToSet(scope)
  PROVE  Resolves(b, ref, scope)
  <1>1. ref.qualified /\ ref.tbl \in ToSet(scope) /\ Exposes(b, ref.tbl, ref.col) = 1
    BY DEF ReadsRef, Shows
  <1>2. Times(ref.tbl, scope) = 1
    BY <1>1, TimesOnce
  <1> QED
    BY <1>1, <1>2 DEF Resolves

LEMMA StmtReadsResolve ==
  ASSUME NEW b, NEW stmt, StmtReads(b, stmt)
  PROVE  StmtResolves(b, stmt)
  <1> DEFINE scope == Scope(stmt)
             n == Len(stmt.joins)
  <1>1. /\ n \in Nat /\ DOMAIN stmt.joins = 1..n
        /\ IsSeq(scope) /\ Len(scope) = n + 1 /\ DOMAIN scope = 1..(n + 1)
        /\ scope[1] = stmt.from
        /\ \A j \in 1..n : scope[j + 1] = stmt.joins[j].tbl
    BY ScopeIs DEF StmtReads
  <1> HIDE DEF scope, n
  <1>2. \A i \in 1..(n + 1) : i = 1 \/ \E j \in 1..n : i = j + 1
    <2> SUFFICES ASSUME NEW i \in 1..(n + 1), i # 1 PROVE \E j \in 1..n : i = j + 1
      OBVIOUS
    <2>1. i - 1 \in 1..n /\ i = (i - 1) + 1
      BY <1>1
    <2> QED
      BY <2>1
  <1>3. \A j \in 1..n : stmt.joins[j].tbl # stmt.from
    BY <1>1 DEF StmtReads, ScopeApart
  <1>4. \A i, j \in 1..n : stmt.joins[i].tbl = stmt.joins[j].tbl => i = j
    BY <1>1 DEF StmtReads, ScopeApart
  <1>5. ASSUME NEW i \in 1..(n + 1), NEW j \in 1..(n + 1), scope[i] = scope[j] PROVE i = j
    <2>1. CASE i = 1 /\ j = 1
      BY <2>1
    <2>2. CASE i = 1 /\ j # 1
      <3>1. PICK l \in 1..n : j = l + 1
        BY <1>2, <2>2
      <3> QED
        BY <1>1, <1>3, <1>5, <2>2, <3>1
    <2>3. CASE i # 1 /\ j = 1
      <3>1. PICK k \in 1..n : i = k + 1
        BY <1>2, <2>3
      <3> QED
        BY <1>1, <1>3, <1>5, <2>3, <3>1
    <2>4. CASE i # 1 /\ j # 1
      <3>1. PICK k \in 1..n : i = k + 1
        BY <1>2, <2>4
      <3>2. PICK l \in 1..n : j = l + 1
        BY <1>2, <2>4
      <3> QED
        BY <1>1, <1>4, <1>5, <3>1, <3>2
    <2> QED
      BY <2>1, <2>2, <2>3, <2>4
  <1>6. IsInjective(scope)
    BY <1>1, <1>5 DEF IsInjective
  <1>7. Seen(stmt) \subseteq ToSet(scope)
    <2>1. 1 \in 1..(n + 1) /\ \A j \in 1..n : j + 1 \in 1..(n + 1)
      BY <1>1
    <2>2. \A i \in 1..(n + 1) : scope[i] \in ToSet(scope)
      BY <1>1 DEF ToSet
    <2> QED
      BY <1>1, <2>1, <2>2 DEF Seen
  <1>8. ASSUME NEW j \in 1..n
        PROVE  LET sub == SubSeq(scope, 1, j + 1) IN IsInjective(sub) /\ SeenBy(stmt, j) \subseteq ToSet(sub)
    <2> DEFINE sub == SubSeq(scope, 1, j + 1)
    <2>1. j + 1 \in 1..(n + 1) /\ 1..(j + 1) \subseteq 1..(n + 1) /\ j \in Nat
      BY <1>1
    <2>2. sub = [i \in 1..(j + 1) |-> scope[i]]
      <3>1. \A i \in 1..(j + 1) : scope[i] \in ToSet(scope)
        BY <1>1, <2>1 DEF ToSet
      <3>2. sub \in Seq(ToSet(scope)) /\ Len(sub) = j + 1 /\ \A i \in 1..(j + 1) : sub[i] = scope[i]
        BY <2>1, <3>1, SubSeqProperties
      <3>3. DOMAIN sub = 1..(j + 1) /\ sub = [i \in DOMAIN sub |-> sub[i]]
        BY <3>2, LenProperties
      <3> HIDE DEF sub
      <3> QED
        BY <3>2, <3>3
    <2> HIDE DEF sub
    <2>3. DOMAIN sub = 1..(j + 1) /\ \A i \in 1..(j + 1) : sub[i] = scope[i]
      BY <2>2
    <2>4. IsInjective(sub)
      BY <1>5, <2>1, <2>3 DEF IsInjective
    <2>5. \A i \in 1..(j + 1) : scope[i] \in ToSet(sub)
      BY <2>3 DEF ToSet
    <2>6. 1 \in 1..(j + 1) /\ \A i \in 1..j : i + 1 \in 1..(j + 1) /\ i \in 1..n
      BY <1>1, <2>1
    <2>7. SeenBy(stmt, j) \subseteq ToSet(sub)
      BY <1>1, <2>5, <2>6 DEF SeenBy
    <2> QED
      BY <2>4, <2>7 DEF sub
  <1>9. \A i \in DOMAIN scope : Times(scope[i], scope) = 1
    BY <1>6, TimesOnce DEF ToSet
  <1>10. \A i \in DOMAIN stmt.outs : \A j \in DOMAIN stmt.outs[i].refs : Resolves(b, stmt.outs[i].refs[j], scope)
    BY <1>6, <1>7, RefResolves DEF StmtReads, OutsRead
  <1>11. \A k \in DOMAIN stmt.where : Resolves(b, stmt.where[k].ref, scope)
    BY <1>6, <1>7, RefResolves DEF StmtReads
  <1>12. \A j \in DOMAIN stmt.joins : \A k \in 1..2 :
           Resolves(b, stmt.joins[j].on[k], SubSeq(scope, 1, j + 1))
    BY <1>1, <1>8, RefResolves DEF StmtReads
  <1>13. SetsFit(stmt.sets, stmt.from.type)
    BY DEF StmtReads
  <1> QED
    BY <1>9, <1>10, <1>11, <1>12, <1>13 DEF StmtResolves, SetsFit, scope

\* A statement of the buffer that is handed over resolves.
LEMMA AllReadResolve ==
  ASSUME AllRead(buf)
  PROVE  StatementResolves
  <1>1. \A i \in StmtPositions : StmtResolves(buf, buf[i].stmt)
    BY StmtReadsResolve DEF AllRead, StmtPositions
  <1>2. \A i \in SelectPositions : SelectResolves(buf, buf[i])
    BY DEF AllRead, SelectPositions, SelectReads, SelectResolves, Shows
  <1> QED
    BY <1>1, <1>2 DEF StatementResolves

----------------------------------------------------------------------------
(* Keys of one column *)

\* What a type with a plain key is known by, wherever its key is named.
HasPlainKey(t) ==
  /\ DOMAIN PrimaryKey(t) = {1} /\ PrimaryKey(t)[1].col = Id
  /\ KeyIdent(t) = Id /\ Id \in BaseColumns(t)

LEMMA KeyNamed ==
  ASSUME NEW t, PrimaryKey(t) = <<[kind |-> "Number", col |-> Id]>> \/ PrimaryKey(t) = <<[kind |-> "Uuid", col |-> Id]>>
  PROVE  HasPlainKey(t)
  <1>1. DOMAIN PrimaryKey(t) = {1} /\ PrimaryKey(t)[1].col = Id
    BY DEF Id
  <1>2. KeyIdent(t) = Id
    <2> DEFINE f == [i \in DOMAIN PrimaryKey(t) |-> (IF i = 1 THEN <<>> ELSE <<", ">>) \o PrimaryKey(t)[i].col]
    <2>1. KeyIdent(t) = FlattenSeq(f)
      BY Zenon DEF KeyIdent
    <2>2. DOMAIN f = {1} /\ f[1] = <<>> \o Id
      <3>1. DOMAIN f = {1}
        BY <1>1, Zenon
      <3>2. 1 \in DOMAIN PrimaryKey(t)
        BY <1>1
      <3>3. f[1] = (IF 1 = 1 THEN <<>> ELSE <<", ">>) \o PrimaryKey(t)[1].col
        BY <3>2, Zenon
      <3>4. f[1] = <<>> \o PrimaryKey(t)[1].col
        BY <3>3, Zenon
      <3> QED
        BY <1>1, <3>1, <3>4, Zenon
    <2>3. f = [i \in {1} |-> f[i]]
      BY <2>2, Zenon
    <2> HIDE DEF f
    <2>4. Id \in Seq({"id"}) /\ <<>> \o Id = Id
      BY DEF Id
    <2>5. f = <<Id>>
      BY <2>2, <2>3, <2>4
    <2>6. FlattenSeq(<<Id>>) = Id
      BY <2>4, FlattenSmall
    <2> QED
      BY <2>1, <2>5, <2>6
  <1>3. Id \in BaseColumns(t)
    BY <1>1 DEF BaseColumns
  <1> QED
    BY <1>1, <1>2, <1>3 DEF HasPlainKey

LEMMA KeysArePlain ==
  ASSUME NEW t, PlainKey(t)
  PROVE  HasPlainKey(t) /\ ~(Len(PrimaryKey(t)) = 1 /\ PrimaryKey(t)[1].kind = "Text")
  <1>1. PrimaryKey(t) = <<[kind |-> "Number", col |-> Id]>> \/ PrimaryKey(t) = <<[kind |-> "Uuid", col |-> Id]>>
    BY DEF PlainKey
  <1>2. PrimaryKey(t)[1].kind # "Text"
    BY <1>1
  <1> QED
    BY <1>1, <1>2, KeyNamed

\* The references to the key of a table are to its one column.
OneRef(refs, tbl) == DOMAIN refs = {1} /\ refs[1] = Ref(tbl, Id)
LEMMA KeyRefsPlain ==
  ASSUME NEW tbl, PlainKey(tbl.type)
  PROVE  OneRef(KeyRefs(tbl), tbl) /\ OneRef(PrettyRefs(tbl), tbl)
  <1>1. /\ HasPlainKey(tbl.type)
        /\ ~(Len(PrimaryKey(tbl.type)) = 1 /\ PrimaryKey(tbl.type)[1].kind = "Text")
    BY KeysArePlain
  <1>2. OneRef(KeyRefs(tbl), tbl)
    BY <1>1 DEF OneRef, KeyRefs, HasPlainKey
  <1>3. PrettyRefs(tbl) = KeyRefs(tbl)
    BY <1>1, Zenon DEF PrettyRefs
  <1> QED
    BY <1>2, <1>3

\* A filter on the key of a table reads its one column, so that the AND that is
\* not written is not missed.
WhereReads(b, where, tbls) ==
  \A k \in DOMAIN where : ReadsRef(b, where[k].ref, tbls) /\ (k > 1 => where[k].and)
LEMMA FilterReads ==
  ASSUME NEW b, NEW tbl, PlainKey(tbl.type), Shows(b, tbl, Id), NEW tbls, tbl \in tbls, NEW n
  PROVE  WhereReads(b, ComparePkey(tbl, n), tbls)
  <1>1. HasPlainKey(tbl.type)
    BY KeysArePlain
  <1>2. DOMAIN ComparePkey(tbl, n) = {1} /\ ComparePkey(tbl, n)[1].ref = Ref(tbl, Id)
    BY <1>1 DEF ComparePkey, HasPlainKey
  <1>3. ReadsRef(b, Ref(tbl, Id), tbls)
    BY DEF ReadsRef, Ref
  <1> QED
    BY <1>2, <1>3 DEF WhereReads

LEMMA NothingRead ==
  ASSUME NEW b, NEW tbls, NEW t
  PROVE  OutsRead(b, <<>>, tbls) /\ WhereReads(b, <<>>, tbls) /\ SetsFit(<<>>, t)
  BY DEF OutsRead, WhereReads, SetsFit

----------------------------------------------------------------------------
(* Joins *)

\* The joins of a statement are of tables that are there, and read by their ON
\* what has been joined.
JoinsFit(b, stmt) ==
  /\ IsSeq(stmt.joins) /\ ScopeApart(stmt)
  /\ \A j \in DOMAIN stmt.joins : \A k \in 1..2 : ReadsRef(b, stmt.joins[j].on[k], SeenBy(stmt, j))

LEMMA NoJoins ==
  ASSUME NEW b, NEW stmt, stmt.joins = <<>>
  PROVE  JoinsFit(b, stmt) /\ Seen(stmt) = {stmt.from}
  BY TupleIsSeq DEF JoinsFit, ScopeApart, Seen, IsSeq, ToSet

LEMMA OneJoin ==
  ASSUME NEW b, NEW stmt, NEW left, NEW x, NEW y, stmt.joins = <<InnerJoin(left, x, y)>>,
         left # stmt.from, \A ref \in {x, y} : ReadsRef(b, ref, {stmt.from, left})
  PROVE  JoinsFit(b, stmt) /\ {stmt.from, left} \subseteq Seen(stmt)
  <1> DEFINE j1 == InnerJoin(left, x, y)
             joins == stmt.joins
  <1>1. DOMAIN joins = {1} /\ joins[1] = j1 /\ IsSeq(joins)
    <2>1. joins = <<j1>>
      OBVIOUS
    <2> HIDE DEF j1, joins
    <2>2. <<j1>>[1] = j1
      OBVIOUS
    <2> QED
      BY <2>1, <2>2, TupleIsSeq
  <1>2. j1.tbl = left /\ j1.on[1] = x /\ j1.on[2] = y
    BY DEF InnerJoin
  <1> HIDE DEF j1, joins
  <1>3. ScopeApart(stmt)
    BY <1>1, <1>2 DEF ScopeApart, joins
  <1>4. {stmt.from, left} = SeenBy(stmt, 1) /\ {stmt.from, left} = Seen(stmt)
    BY <1>1, <1>2 DEF SeenBy, Seen, joins
  <1>5. \A k \in 1..2 : k = 1 \/ k = 2
    OBVIOUS
  <1>6. \A k \in 1..2 : ReadsRef(b, joins[1].on[k], SeenBy(stmt, 1))
    BY <1>1, <1>2, <1>4, <1>5
  <1> QED
    BY <1>1, <1>3, <1>4, <1>6 DEF JoinsFit, joins

LEMMA TwoJoins ==
  ASSUME NEW b, NEW stmt, NEW bucket, NEW left, NEW x, NEW y, NEW v, NEW w,
         stmt.joins = <<InnerJoin(bucket, x, y), InnerJoin(left, v, w)>>,
         left # stmt.from, bucket # stmt.from, left # bucket,
         \A ref \in {x, y} : ReadsRef(b, ref, {stmt.from, bucket}),
         \A ref \in {v, w} : ReadsRef(b, ref, {stmt.from, bucket, left})
  PROVE  JoinsFit(b, stmt) /\ {stmt.from, left} \subseteq Seen(stmt)
  <1> DEFINE j1 == InnerJoin(bucket, x, y)
             j2 == InnerJoin(left, v, w)
             joins == stmt.joins
  <1>1. DOMAIN joins = {1, 2} /\ joins[1] = j1 /\ joins[2] = j2 /\ IsSeq(joins)
    <2>1. joins = <<j1, j2>>
      OBVIOUS
    <2> HIDE DEF j1, j2, joins
    <2>2. <<j1, j2>>[1] = j1 /\ <<j1, j2>>[2] = j2
      OBVIOUS
    <2> QED
      BY <2>1, <2>2, TupleIsSeq
  <1>2. j1.tbl = bucket /\ j1.on[1] = x /\ j1.on[2] = y /\ j2.tbl = left /\ j2.on[1] = v /\ j2.on[2] = w
    BY DEF InnerJoin
  <1> HIDE DEF j1, j2, joins
  <1>3. ScopeApart(stmt)
    BY <1>1, <1>2 DEF ScopeApart, joins
  <1>4. 1..1 = {1} /\ 1..2 = {1, 2}
    OBVIOUS
  <1>5. /\ SeenBy(stmt, 1) = {stmt.from, bucket} /\ SeenBy(stmt, 2) = {stmt.from, bucket, left}
        /\ Seen(stmt) = {stmt.from, bucket, left}
    BY <1>1, <1>2, <1>4 DEF SeenBy, Seen, joins
  <1>6. \A k \in 1..2 : ReadsRef(b, joins[1].on[k], SeenBy(stmt, 1)) /\ ReadsRef(b, joins[2].on[k], SeenBy(stmt, 2))
    BY <1>1, <1>2, <1>4, <1>5
  <1> QED
    BY <1>1, <1>3, <1>5, <1>6 DEF JoinsFit, joins

\* A relationship is followed from the base table of its owner, or from a CTE
\* that has the columns of a response and leads to it.
Carried(b, tbl) ==
  /\ tbl \in Ctes(b) /\ tbl.is_cte /\ StmtIn(b, tbl).q = "select"
  /\ \A col \in ResponseColumns \cup {MainId} : Shows(b, tbl, col)
Leads(b, tbl, r) ==
  /\ tbl.type = Relation[r].owner
  /\ IsManyToOne(r) => Shows(b, tbl, RelName(Relation[r].key))
FollowedFrom(b, tbl, r) ==
  \/ tbl = BaseTable(Relation[r].owner)
  \/ Carried(b, tbl) /\ Leads(b, tbl, r)

LEMMA KeyHeld ==
  ASSUME NEW t, NEW key, HoldsKey(t, key)
  PROVE  key \in BaseColumns(t)
  BY DEF HoldsKey, BaseColumns, IsManyToOne

\* How a join names the key and a foreign key of a table that is followed.
LEMMA FollowedReads ==
  ASSUME NEW b, NEW r \in Rel, PlainKey(Relation[r].owner), NEW tbl, FollowedFrom(b, tbl, r)
  PROVE  /\ Shows(b, tbl, JoinKey(tbl).col) /\ Shows(b, tbl, Id)
         /\ IsManyToOne(r) => Shows(b, tbl, ForeignKey(tbl, Relation[r].key).col)
         /\ tbl.type = Relation[r].owner /\ Relation[r].owner \in Type
         /\ tbl.is_cte \/ tbl = BaseTable(Relation[r].owner)
  <1>1. Relation[r].owner \in Type
    BY RelationAssumption
  <1>2. CASE tbl = BaseTable(Relation[r].owner)
    <2>1. tbl.type = Relation[r].owner /\ IsBase(tbl) /\ ~tbl.is_cte
      BY <1>2, BaseIsBase DEF BaseTable
    <2>2. HasPlainKey(tbl.type)
      BY <1>1, <2>1, KeysArePlain
    <2>3. JoinKey(tbl).col = Id
      BY <2>1, <2>2 DEF JoinKey, Ref, HasPlainKey
    <2>4. Shows(b, tbl, Id)
      BY <2>1, <2>2, BaseShows DEF HasPlainKey
    <2>5. ASSUME IsManyToOne(r) PROVE Shows(b, tbl, ForeignKey(tbl, Relation[r].key).col)
      <3>1. ForeignKey(tbl, Relation[r].key).col = Relation[r].key
        BY <2>1 DEF ForeignKey, Ref
      <3>2. Relation[r].key \in BaseColumns(tbl.type)
        BY <2>1, <2>5 DEF BaseColumns
      <3> QED
        BY <2>1, <3>1, <3>2, BaseShows
    <2> QED
      BY <1>1, <1>2, <2>1, <2>3, <2>4, <2>5
  <1>3. CASE Carried(b, tbl) /\ Leads(b, tbl, r)
    <2>1. tbl.is_cte /\ Shows(b, tbl, MainId) /\ Shows(b, tbl, Id) /\ tbl.type = Relation[r].owner
      BY <1>3 DEF Carried, Leads, ResponseColumns
    <2>2. JoinKey(tbl).col = MainId
      BY <2>1 DEF JoinKey, Ref
    <2>3. ForeignKey(tbl, Relation[r].key).col = RelName(Relation[r].key)
      BY <2>1 DEF ForeignKey, Ref
    <2> QED
      BY <1>1, <1>3, <2>1, <2>2, <2>3 DEF Leads
  <1> QED
    BY <1>2, <1>3 DEF FollowedFrom

LEMMA RefsOfJoins ==
  ASSUME NEW tbl, NEW key, NEW col
  PROVE  /\ JoinKey(tbl).tbl = tbl /\ JoinKey(tbl).qualified
         /\ ForeignKey(tbl, key).tbl = tbl /\ ForeignKey(tbl, key).qualified
         /\ Ref(tbl, col).tbl = tbl /\ Ref(tbl, col).qualified /\ Ref(tbl, col).col = col
  BY DEF JoinKey, ForeignKey, Ref

\* gen_inner_join reads tables that are there, whatever the relationship and
\* whatever it is followed from.
LEMMA InnerJoinsFit ==
  ASSUME NEW b, NEW r \in Rel, PlainKey(Relation[r].owner), PlainKey(RelatedType(r)), NEW left, FollowedFrom(b, left, r), NEW stmt,
         stmt.from = BaseTable(RelatedType(r)), left # stmt.from,
         stmt.joins = GenInnerJoin(r, left, stmt.from)
  PROVE  JoinsFit(b, stmt) /\ {stmt.from, left} \subseteq Seen(stmt)
  <1> DEFINE right == stmt.from
             key == Relation[r].key
             bucket == BaseTable(Relation[r].bucket)
  <1>1. /\ Shows(b, left, JoinKey(left).col)
        /\ IsManyToOne(r) => Shows(b, left, ForeignKey(left, key).col)
        /\ left.type = Relation[r].owner
        /\ left.is_cte \/ left = BaseTable(Relation[r].owner)
    BY FollowedReads
  <1>2. RelatedType(r) \in Type /\ Relation[r].owner \in Type
    BY RelationAssumption DEF RelatedType
  <1>3. right.type = RelatedType(r) /\ IsBase(right) /\ ~right.is_cte
    BY BaseIsBase DEF BaseTable
  <1>4. HasPlainKey(RelatedType(r))
    BY <1>2, KeysArePlain
  <1>5. Shows(b, right, JoinKey(right).col)
    <2>1. JoinKey(right).col = Id
      BY <1>3, <1>4 DEF JoinKey, Ref, HasPlainKey
    <2> QED
      BY <1>3, <1>4, <2>1, BaseShows DEF HasPlainKey
  <1>6. CASE Relation[r].kind = "ManyToMany"
    <2> DEFINE k1 == KeysForType(r, RelatedType(r))
               k2 == KeysForType(r, left.type)
    <2>1. \A t \in {Relation[r].owner, Relation[r].related} :
            Relation[r].bucket # t /\ HoldsKey(Relation[r].bucket, Relation[r].keys[t])
      BY <1>6, ColumnsAssumption
    <2>2. bucket.type = Relation[r].bucket /\ IsBase(bucket) /\ ~bucket.is_cte
      BY BaseIsBase DEF BaseTable
    <2>3. bucket # right /\ bucket # left
      BY <1>1, <1>3, <2>1, <2>2 DEF RelatedType
    <2>4. k1 \in BaseColumns(Relation[r].bucket) /\ k2 \in BaseColumns(Relation[r].bucket)
      BY <1>1, <2>1, KeyHeld DEF KeysForType, RelatedType
    <2>5. Shows(b, bucket, k1) /\ Shows(b, bucket, k2)
      BY <2>2, <2>4, BaseShows
    <2>6. stmt.joins = <<InnerJoin(bucket, Ref(bucket, k1), JoinKey(right)),
                         InnerJoin(left, JoinKey(left), Ref(bucket, k2))>>
      BY <1>6, Zenon DEF GenInnerJoin
    <2> HIDE DEF bucket, k1, k2
    <2>7. /\ ReadsRef(b, Ref(bucket, k1), {right, bucket}) /\ ReadsRef(b, JoinKey(right), {right, bucket})
          /\ ReadsRef(b, JoinKey(left), {right, bucket, left}) /\ ReadsRef(b, Ref(bucket, k2), {right, bucket, left})
      BY <1>1, <1>5, <2>5, RefsOfJoins DEF ReadsRef
    <2> QED
      BY <2>3, <2>6, <2>7, TwoJoins
  <1>7. CASE Relation[r].kind = "OneToMany"
    <2>1. HoldsKey(RelatedType(r), key)
      BY <1>7, ColumnsAssumption DEF RelatedType
    <2>2. BaseTable(ManyResource(r)) = right
      BY <1>7 DEF ManyResource, IsManyToOne
    <2>3. stmt.joins = <<InnerJoin(left, JoinKey(left), Ref(right, key))>>
      BY <1>7, <2>2, Zenon DEF GenInnerJoin
    <2>4. Shows(b, right, key)
      BY <1>3, <2>1, KeyHeld, BaseShows
    <2>5. ReadsRef(b, JoinKey(left), {right, left}) /\ ReadsRef(b, Ref(right, key), {right, left})
      BY <1>1, <2>4, RefsOfJoins DEF ReadsRef
    <2> QED
      BY <2>3, <2>5, OneJoin
  <1>8. CASE Relation[r].kind = "ManyToOne"
    <2>1. IsManyToOne(r)
      BY <1>8 DEF IsManyToOne
    <2>2. stmt.joins = <<InnerJoin(left, ForeignKey(left, key), JoinKey(right))>>
      BY <1>8, Zenon DEF GenInnerJoin
    <2>3. ReadsRef(b, ForeignKey(left, key), {right, left}) /\ ReadsRef(b, JoinKey(right), {right, left})
      BY <1>1, <1>5, <2>1, RefsOfJoins DEF ReadsRef
    <2> QED
      BY <2>2, <2>3, OneJoin
  <1>9. Relation[r].kind \in RelKind
    BY RelationAssumption
  <1> QED
    BY <1>6, <1>7, <1>8, <1>9 DEF RelKind

----------------------------------------------------------------------------
(* The columns of a data CTE *)

\* A list of columns that begins with the six every data CTE has.
DataColumns(outs, additional) ==
  LET m == Len(additional) IN
  /\ m \in Nat /\ DOMAIN additional = 1..m /\ DOMAIN outs = 1..(6 + m)
  /\ outs[1].name = Id /\ outs[2].name = MainId /\ outs[3].name = RelatedId
  /\ outs[4].name = RelatedTypeCol /\ outs[5].name = <<"type">> /\ outs[6].name = <<"data">>
  /\ \A i \in 1..m : outs[6 + i].name = additional[i].name

\* What the columns of a data CTE that reads table tbl refer to.
HeadRefs(relating) ==
  IF relating = <<>> THEN <<>> ELSE <<Ref(relating[1].tbl, KeyIdent(relating[1].tbl.type))>>
JsonRefs(tbl, t, fields) == MapSeq(LAMBDA f : Ref(tbl, f), PlainFields(fields, t))
DataRefs(outs, tbl, t, relating, additional, fields) ==
  /\ outs[1].refs = PrettyRefs(tbl) /\ outs[2].refs = KeyRefs(tbl) /\ outs[3].refs = HeadRefs(relating)
  /\ outs[4].refs = <<>> /\ outs[5].refs = <<>> /\ outs[6].refs = JsonRefs(tbl, t, fields)
  /\ \A i \in 1..Len(additional) : outs[6 + i].refs = <<Ref(tbl, additional[i].col)>>

LEMMA HeadIs ==
  ASSUME NEW relating, NEW n
  PROVE  \E a, b, c :
           /\ HeadOuts(relating, n) = <<a, b, c>>
           /\ a.name = RelatedId /\ b.name = RelatedTypeCol /\ c.name = <<"type">>
           /\ a.refs = HeadRefs(relating) /\ b.refs = <<>> /\ c.refs = <<>>
  <1>1. CASE relating = <<>>
    <2> DEFINE a == Out(RelatedId, <<>>, <<>>)
               b == Out(RelatedTypeCol, <<>>, <<>>)
               c == Out(<<"type">>, <<>>, <<n + 1>>)
    <2>1. HeadOuts(relating, n) = <<a, b, c>>
      BY <1>1 DEF HeadOuts
    <2>2. /\ a.name = RelatedId /\ b.name = RelatedTypeCol /\ c.name = <<"type">>
          /\ a.refs = <<>> /\ b.refs = <<>> /\ c.refs = <<>>
      BY DEF Out
    <2>3. HeadRefs(relating) = <<>>
      BY <1>1 DEF HeadRefs
    <2> HIDE DEF a, b, c
    <2> QED
      BY <2>1, <2>2, <2>3
  <1>2. CASE relating # <<>>
    <2> DEFINE h == <<Ref(relating[1].tbl, KeyIdent(relating[1].tbl.type))>>
               a == Out(RelatedId, h, <<>>)
               b == Out(RelatedTypeCol, <<>>, <<n + 1>>)
               c == Out(<<"type">>, <<>>, <<n + 2>>)
    <2>1. HeadOuts(relating, n) = <<a, b, c>>
      BY <1>2 DEF HeadOuts
    <2>2. HeadRefs(relating) = h
      BY <1>2, Zenon DEF HeadRefs
    <2> HIDE DEF h
    <2>3. /\ a.name = RelatedId /\ b.name = RelatedTypeCol /\ c.name = <<"type">>
          /\ a.refs = h /\ b.refs = <<>> /\ c.refs = <<>>
      BY DEF Out
    <2> HIDE DEF a, b, c
    <2> QED
      BY <2>1, <2>2, <2>3
  <1> QED
    BY <1>1, <1>2

LEMMA ColumnsAre ==
  ASSUME NEW tbl, NEW t, NEW relating, NEW additional, NamedApart(additional), NEW fields, NEW n
  PROVE  LET outs == SelectOuts(tbl, t, relating, additional, fields, n) IN
         DataColumns(outs, additional) /\ DataRefs(outs, tbl, t, relating, additional, fields)
  <1> DEFINE x == Out(Id, PrettyRefs(tbl), <<>>)
             y == Out(MainId, KeyRefs(tbl), <<>>)
             json == JsonOut(tbl, t, fields, n + Len(HeadParams(t, relating)))
             adds == MapSeq(LAMBDA f : Out(f.name, <<Ref(tbl, f.col)>>, <<>>), additional)
             outs == SelectOuts(tbl, t, relating, additional, fields, n)
             m == Len(additional)
  <1>1. outs = <<x, y>> \o HeadOuts(relating, n) \o <<json>> \o adds
    BY Zenon DEF SelectOuts
  <1>2. PICK a, b, c :
          /\ HeadOuts(relating, n) = <<a, b, c>>
          /\ a.name = RelatedId /\ b.name = RelatedTypeCol /\ c.name = <<"type">>
          /\ a.refs = HeadRefs(relating) /\ b.refs = <<>> /\ c.refs = <<>>
    BY HeadIs
  <1>3. x.name = Id /\ y.name = MainId /\ x.refs = PrettyRefs(tbl) /\ y.refs = KeyRefs(tbl)
    BY DEF Out
  <1>4. json.name = <<"data">> /\ json.refs = JsonRefs(tbl, t, fields)
    BY DEF JsonOut, JsonRefs
  <1>5. adds = [i \in DOMAIN additional |-> Out(additional[i].name, <<Ref(tbl, additional[i].col)>>, <<>>)]
    BY Zenon DEF MapSeq
  <1>6. /\ IsSeq(adds) /\ Len(adds) = m /\ m \in Nat /\ DOMAIN additional = 1..m
        /\ \A i \in 1..m : adds[i].name = additional[i].name /\ adds[i].refs = <<Ref(tbl, additional[i].col)>>
    <2> HIDE DEF adds
    <2>1. /\ FunctionOn(adds, DOMAIN additional)
          /\ \A i \in DOMAIN additional : /\ adds[i].name = additional[i].name
                                          /\ adds[i].refs = <<Ref(tbl, additional[i].col)>>
      BY <1>5 DEF FunctionOn, Out
    <2>2. IsSeq(adds) /\ Len(adds) = m /\ m \in Nat /\ DOMAIN additional = 1..m
      BY <2>1, MapIsSeq DEF NamedApart
    <2> QED
      BY <2>1, <2>2
  <1> HIDE DEF x, y, json, adds, outs, m
  <1>7. outs = <<x, y>> \o <<a, b, c>> \o <<json>> \o adds
    BY <1>1, <1>2, Zenon
  <1>8. /\ DOMAIN outs = 1..(6 + Len(adds)) /\ DOMAIN adds = 1..Len(adds)
        /\ outs[1] = x /\ outs[2] = y /\ outs[3] = a /\ outs[4] = b /\ outs[5] = c /\ outs[6] = json
        /\ \A i \in DOMAIN adds : outs[6 + i] = adds[i]
    BY <1>6, <1>7, SixOuts
  <1>9. DataColumns(outs, additional)
    BY <1>2, <1>3, <1>4, <1>6, <1>8 DEF DataColumns, m
  <1>10. DataRefs(outs, tbl, t, relating, additional, fields)
    BY <1>2, <1>3, <1>4, <1>6, <1>8 DEF DataRefs, m
  <1> QED
    BY <1>9, <1>10 DEF outs

\* Additional columns of type t, each named once.
AddsFit(additional, t) ==
  /\ NamedApart(additional)
  /\ \A i \in DOMAIN additional :
       /\ additional[i].col \in BaseColumns(t)
       /\ \A j \in DOMAIN additional : additional[j].name = additional[i].name => j = i

\* The six columns are named once, and so is every additional one.
SixNames == {Id, MainId, RelatedId, RelatedTypeCol, <<"type">>, <<"data">>}
LEMMA SixNamed ==
  /\ \A name \in SixNames : name[1] \notin {"rel", "sort"}
  /\ RelatedId # RelatedTypeCol
  <1>1. RelatedId[2] = "id" /\ RelatedTypeCol[2] = "type"
    BY DEF RelatedId, RelatedTypeCol
  <1>2. \A name \in SixNames : name[1] \notin {"rel", "sort"}
    BY NamesOfColumns DEF SixNames
  <1> QED
    BY <1>1, <1>2

LEMMA ColumnsOnce ==
  ASSUME NEW outs, NEW additional, NEW t, AddsFit(additional, t), DataColumns(outs, additional)
  PROVE  /\ \A name \in SixNames : \E k : OnlyOne(outs, name, k)
         /\ \A i \in DOMAIN additional : OnlyOne(outs, additional[i].name, 6 + i)
         /\ \A name : name \notin SixNames /\ (\A i \in DOMAIN additional : additional[i].name # name)
              => NoneNamed(outs, name)
  <1> DEFINE m == Len(additional)
  <1>1. /\ m \in Nat /\ DOMAIN additional = 1..m /\ DOMAIN outs = 1..(6 + m)
        /\ outs[1].name = Id /\ outs[2].name = MainId /\ outs[3].name = RelatedId
        /\ outs[4].name = RelatedTypeCol /\ outs[5].name = <<"type">> /\ outs[6].name = <<"data">>
        /\ \A i \in 1..m : outs[6 + i].name = additional[i].name
    BY DEF DataColumns
  <1> HIDE DEF m
  <1>2. \A k \in 1..(6 + m) : k \in 1..6 \/ \E i \in 1..m : k = 6 + i
    <2> SUFFICES ASSUME NEW k \in 1..(6 + m), k \notin 1..6 PROVE \E i \in 1..m : k = 6 + i
      OBVIOUS
    <2>1. k - 6 \in 1..m /\ k = 6 + (k - 6)
      BY <1>1
    <2> QED
      BY <2>1
  <1>3. \A i \in 1..m : 6 + i \in 1..(6 + m) /\ 6 + i \notin 1..6 /\ \A j \in 1..m : 6 + i = 6 + j => i = j
    BY <1>1
  <1>4. \A i \in 1..m : additional[i].name[1] \in {"rel", "sort"}
    BY <1>1 DEF AddsFit, NamedApart
  <1>5. \A i, j \in 1..m : additional[j].name = additional[i].name => j = i
    BY <1>1 DEF AddsFit
  <1>6. 1..6 = {1, 2, 3, 4, 5, 6} /\ 1..6 \subseteq 1..(6 + m)
    BY <1>1
  <1>7. \A k \in 1..6 : outs[k].name \in SixNames
    BY <1>1, <1>6 DEF SixNames
  <1>8. \A k, l \in 1..6 : outs[k].name = outs[l].name => k = l
    <2>1. /\ outs[1].name[1] = "id" /\ outs[2].name[1] = "main" /\ outs[3].name[1] = "related"
          /\ outs[4].name[1] = "related" /\ outs[5].name[1] = "type" /\ outs[6].name[1] = "data"
      BY <1>1, NamesOfColumns
    <2>2. outs[3].name # outs[4].name
      BY <1>1, SixNamed
    <2> QED
      BY <1>6, <2>1, <2>2
  <1>9. ASSUME NEW name \in SixNames PROVE \E k : OnlyOne(outs, name, k)
    <2>1. PICK k \in 1..6 : outs[k].name = name
      BY <1>1, <1>6 DEF SixNames
    <2>2. \A i \in 1..m : outs[6 + i].name # name
      BY <1>1, <1>4, SixNamed
    <2>3. \A l \in 1..(6 + m) : outs[l].name = name <=> l = k
      BY <1>2, <1>8, <2>1, <2>2
    <2>4. OnlyOne(outs, name, k)
      BY <1>1, <1>6, <2>1, <2>3 DEF OnlyOne
    <2> QED
      BY <2>4
  <1>10. ASSUME NEW i \in 1..m PROVE OnlyOne(outs, additional[i].name, 6 + i)
    <2>1. \A k \in 1..6 : outs[k].name # additional[i].name
      BY <1>4, <1>7, SixNamed
    <2>2. \A j \in 1..m : outs[6 + j].name = additional[i].name <=> 6 + j = 6 + i
      BY <1>1, <1>3, <1>5
    <2>3. ASSUME NEW l \in 1..(6 + m) PROVE outs[l].name = additional[i].name <=> l = 6 + i
      <3>1. CASE l \in 1..6
        BY <1>3, <2>1, <3>1
      <3>2. CASE \E j \in 1..m : l = 6 + j
        BY <2>2, <3>2
      <3> QED
        BY <1>2, <3>1, <3>2
    <2> QED
      BY <1>1, <1>3, <2>3 DEF OnlyOne
  <1>11. ASSUME NEW name, name \notin SixNames, \A i \in 1..m : additional[i].name # name
         PROVE  NoneNamed(outs, name)
    <2>1. ASSUME NEW l \in 1..(6 + m) PROVE outs[l].name # name
      <3>1. CASE l \in 1..6
        BY <1>7, <1>11, <3>1
      <3>2. CASE \E j \in 1..m : l = 6 + j
        BY <1>1, <1>11, <3>2
      <3> QED
        BY <1>2, <3>1, <3>2
    <2> QED
      BY <1>1, <2>1 DEF NoneNamed
  <1> QED
    BY <1>1, <1>9, <1>10, <1>11

\* A data CTE is carried, and shows its additional columns; it hides what is
\* named like none of its columns.
DataCte(tbl, stmt, additional, t) ==
  /\ tbl.is_cte /\ tbl.type = t /\ stmt.q = "select"
  /\ AddsFit(additional, t) /\ DataColumns(stmt.outs, additional)
LEMMA DataCteShows ==
  ASSUME NEW b, NamesUnique(b), NEW i \in Positions(b, {"cte"}), NEW tbl, NEW stmt,
         b[i].tbl = tbl, b[i].stmt = stmt, NEW additional, NEW t, DataCte(tbl, stmt, additional, t)
  PROVE  /\ Carried(b, tbl)
         /\ \A k \in DOMAIN additional : Shows(b, tbl, additional[k].name)
         /\ \A name : name \notin SixNames /\ (\A k \in DOMAIN additional : additional[k].name # name)
              => Hides(b, tbl, name)
  <1>1. /\ \A col, k : OnlyOne(stmt.outs, col, k) => Shows(b, tbl, col)
        /\ \A col : NoneNamed(stmt.outs, col) => Hides(b, tbl, col)
        /\ tbl \in Ctes(b) /\ StmtIn(b, tbl) = stmt /\ tbl.is_cte /\ stmt.q = "select"
    BY ListShows DEF DataCte
  <1>2. /\ \A name \in SixNames : \E k : OnlyOne(stmt.outs, name, k)
        /\ \A k \in DOMAIN additional : OnlyOne(stmt.outs, additional[k].name, 6 + k)
        /\ \A name : name \notin SixNames /\ (\A k \in DOMAIN additional : additional[k].name # name)
             => NoneNamed(stmt.outs, name)
    BY ColumnsOnce DEF DataCte
  <1>3. Carried(b, tbl)
    BY <1>1, <1>2 DEF Carried, ResponseColumns, SixNames
  <1> QED
    BY <1>1, <1>2, <1>3

----------------------------------------------------------------------------
(* Additional columns *)

Named(additional) == {additional[i].name : i \in DOMAIN additional}
SortNames(c) == {SortName(req.sort[k].field) : k \in {j \in DOMAIN req.sort : req.sort[j].chain = c}}
SortedFrom(c, t) == \A k \in DOMAIN req.sort : req.sort[k].chain = c => req.sort[k].field \in AttrNames(t)

\* Identifiers that print alike behind the same word are equal.
LEMMA WordApart ==
  ASSUME NEW w, NEW x, NEW y, IsSeq(x), IsSeq(y), <<w>> \o x = <<w>> \o y
  PROVE  x = y
  <1> DEFINE s == <<w>>
             m == Len(x)
             n == Len(y)
             c == s \o x
             d == s \o y
  <1>1. IsSeq(s) /\ Len(s) = 1
    BY TupleIsSeq
  <1> HIDE DEF s
  <1>2. m \in Nat /\ DOMAIN x = 1..m /\ DOMAIN c = 1..(Len(s) + m) /\ \A i \in 1..m : c[Len(s) + i] = x[i]
    <2>1. IsSeq(s) /\ IsSeq(x)
      BY <1>1
    <2> QED
      BY <2>1, ConcatIsSeq
  <1>3. n \in Nat /\ DOMAIN y = 1..n /\ DOMAIN d = 1..(Len(s) + n) /\ \A i \in 1..n : d[Len(s) + i] = y[i]
    <2>1. IsSeq(s) /\ IsSeq(y)
      BY <1>1
    <2> QED
      BY <2>1, ConcatIsSeq
  <1>4. c = d
    BY DEF s
  <1>5. x = [i \in DOMAIN x |-> x[i]] /\ y = [i \in DOMAIN y |-> y[i]]
    BY LenProperties DEF IsSeq
  <1> HIDE DEF c, d, m, n
  <1>6. 1..(1 + m) = 1..(1 + n)
    BY <1>1, <1>2, <1>3, <1>4
  <1>7. m = n
    BY <1>2, <1>3, <1>6
  <1>8. \A i \in 1..m : x[i] = y[i]
    BY <1>1, <1>2, <1>3, <1>4, <1>7
  <1> QED
    BY <1>2, <1>3, <1>5, <1>7, <1>8

LEMMA AttrsAreColumns ==
  ASSUME NEW t
  PROVE  AttrNames(t) \subseteq BaseColumns(t)
  BY DEF AttrNames, BaseColumns

\* The foreign keys a type carries along: those of its many-to-one
\* relationships, each of them once.
LEMMA RelFieldsFit ==
  ASSUME NEW t \in Type
  PROVE  /\ AddsFit(RelFields(t), t)
         /\ \A name \in Named(RelFields(t)) : name[1] = "rel"
         /\ \A r \in Rel : IsManyToOne(r) /\ Relation[r].owner = t => RelName(Relation[r].key) \in Named(RelFields(t))
  <1> DEFINE rels == RelsOf(t)
             P == {i \in DOMAIN rels : IsManyToOne(rels[i])}
             kept == Kept(rels, P)
             f == [i \in DOMAIN kept |-> RelField(kept[i])]
  <1>1. RelFields(t) = MapSeq(RelField, kept)
    BY Zenon DEF RelFields
  <1>2. MapSeq(RelField, kept) = f
    BY Zenon DEF MapSeq
  <1>3. rels \in Seq(Rel) /\ rels = Resource[t].rels
    BY ResourceAssumption DEF RelsOf
  <1>4. \A i \in DOMAIN rels : Relation[rels[i]].owner = t
    BY <1>3, ColumnsAssumption
  <1>5. \A i, j \in DOMAIN rels : rels[i] = rels[j] => i = j
    BY <1>3, ColumnsAssumption
  <1> HIDE DEF rels
  <1>6. kept \in Seq(Rel) /\ ToSet(kept) = {rels[i] : i \in DOMAIN rels \cap P}
    BY <1>3, KeptTyped, KeptElements
  <1>7. IsInjective(kept)
    BY <1>3, <1>5, KeptApart
  <1>8. \A i \in DOMAIN kept : kept[i] \in Rel /\ IsManyToOne(kept[i]) /\ Relation[kept[i]].owner = t
    <2>1. \A i \in DOMAIN kept : kept[i] \in ToSet(kept)
      BY DEF ToSet
    <2>2. \A i \in DOMAIN kept : kept[i] \in Rel
      BY <1>6, LenProperties, ElementOfSeq
    <2>3. \A r \in ToSet(kept) : IsManyToOne(r) /\ Relation[r].owner = t
      BY <1>4, <1>6
    <2> HIDE DEF kept
    <2> QED
      BY <2>1, <2>2, <2>3
  <1>9. \A r \in Rel : IsManyToOne(r) /\ Relation[r].owner = t => \E i \in DOMAIN kept : kept[i] = r
    <2> SUFFICES ASSUME NEW r \in Rel, IsManyToOne(r), Relation[r].owner = t PROVE r \in ToSet(kept)
      BY DEF ToSet
    <2>1. PICK i \in DOMAIN rels : rels[i] = r
      BY <1>3, ColumnsAssumption DEF IsManyToOne
    <2> QED
      BY <1>6, <2>1
  <1> HIDE DEF kept
  <1>10. \A i \in DOMAIN f : /\ f[i].name = RelName(Relation[kept[i]].key) /\ f[i].col = Relation[kept[i]].key
                             /\ Relation[kept[i]].key \in Ident
    BY <1>8, RelationAssumption DEF RelField
  <1>11. DOMAIN f = DOMAIN kept
    OBVIOUS
  <1> HIDE DEF f
  <1>12. ASSUME NEW i \in DOMAIN kept PROVE f[i].name[1] = "rel" /\ f[i].col \in BaseColumns(t)
    <2>1. f[i].name[1] = "rel"
      BY <1>10, <1>11, FirstWord DEF RelName
    <2>2. f[i].col \in BaseColumns(t)
      BY <1>8, <1>10, <1>11 DEF BaseColumns
    <2> QED
      BY <2>1, <2>2
  <1>13. ASSUME NEW i \in DOMAIN kept, NEW j \in DOMAIN kept, f[j].name = f[i].name PROVE j = i
    <2>1. IsSeq(Relation[kept[i]].key) /\ IsSeq(Relation[kept[j]].key)
      BY <1>10, <1>11, SeqIsSeq DEF Ident
    <2>2. <<"rel">> \o Relation[kept[i]].key = <<"rel">> \o Relation[kept[j]].key
      BY <1>10, <1>11, <1>13 DEF RelName
    <2>3. Relation[kept[i]].key = Relation[kept[j]].key
      BY <2>1, <2>2, WordApart
    <2>4. kept[i] = kept[j]
      BY <1>8, <2>3, ColumnsAssumption DEF IsManyToOne
    <2> QED
      BY <1>7, <2>4 DEF IsInjective
  <1>14. NamedApart(f)
    BY <1>1, <1>2, RelFieldsApart
  <1>15. AddsFit(f, t)
    BY <1>11, <1>12, <1>13, <1>14 DEF AddsFit
  <1>16. \A name \in Named(f) : name[1] = "rel"
    BY <1>11, <1>12 DEF Named
  <1>17. \A r \in Rel : IsManyToOne(r) /\ Relation[r].owner = t => RelName(Relation[r].key) \in Named(f)
    BY <1>9, <1>10, <1>11 DEF Named
  <1> QED
    BY <1>1, <1>2, <1>15, <1>16, <1>17

\* A write to a relationship carries its own key along.
LEMMA PathFieldFits ==
  ASSUME NEW r \in Rel, IsManyToOne(r)
  PROVE  /\ AddsFit(<<RelField(r)>>, Relation[r].owner)
         /\ Named(<<RelField(r)>>) = {RelName(Relation[r].key)}
  <1> DEFINE x == RelField(r)
             f == <<x>>
  <1>1. x.name = RelName(Relation[r].key) /\ x.col = Relation[r].key /\ Relation[r].key \in Ident
    BY RelationAssumption DEF RelField
  <1>2. x.name[1] = "rel"
    BY <1>1, FirstWord DEF RelName
  <1>3. x.col \in BaseColumns(Relation[r].owner)
    BY <1>1 DEF BaseColumns
  <1>4. DOMAIN f = {1} /\ f[1] = x /\ IsSeq(f)
    <2> HIDE DEF x
    <2> QED
      BY TupleIsSeq
  <1> HIDE DEF f, x
  <1>5. AddsFit(f, Relation[r].owner)
    BY <1>2, <1>3, <1>4 DEF AddsFit, NamedApart
  <1>6. Named(f) = {RelName(Relation[r].key)}
    BY <1>1, <1>4 DEF Named
  <1> QED
    BY <1>5, <1>6 DEF f, x

\* The elements sorted by in a chain, each of them once.
LEMMA SortsApart ==
  ASSUME IsRequest(req), DistinctSorts, NEW c
  PROVE  LET s == Reverse(SortsOf(req, c)) IN
         /\ IsSeq(s) /\ IsInjective(s)
         /\ ToSet(s) = {req.sort[i] : i \in {j \in DOMAIN req.sort : req.sort[j].chain = c}}
  <1> DEFINE S == [chain : Seq(Rel), field : Ident, desc : BOOLEAN]
             P == {j \in DOMAIN req.sort : req.sort[j].chain = c}
             s == SortsOf(req, c)
  <1>1. req.sort \in Seq(S)
    BY DEF IsRequest
  <1>2. s = Kept(req.sort, P)
    BY DEF SortsOf
  <1>3. DOMAIN req.sort \cap P = P
    OBVIOUS
  <1>4. \A i, j \in DOMAIN req.sort \cap P : req.sort[i] = req.sort[j] => i = j
    BY DEF DistinctSorts
  <1> HIDE DEF S, P, s
  <1>5. Kept(req.sort, P) \in Seq(S) /\ ToSet(Kept(req.sort, P)) = {req.sort[i] : i \in P}
    BY <1>1, <1>3, KeptTyped, KeptElements
  <1>6. IsInjective(Kept(req.sort, P))
    BY <1>1, <1>4, KeptApart
  <1>7. IsSeq(s) /\ IsInjective(s) /\ ToSet(s) = {req.sort[i] : i \in P}
    BY <1>2, <1>5, <1>6, SeqIsSeq
  <1> QED
    BY <1>7, ElementsOfReverse, ReverseApart DEF s, P

LEMMA SortFieldsFit ==
  ASSUME IsRequest(req), DistinctSorts, NEW c, NEW t, SortedFrom(c, t)
  PROVE  LET adds == MapSeq(SortField, Reverse(SortsOf(req, c))) IN
         AddsFit(adds, t) /\ Named(adds) = SortNames(c) /\ \A name \in Named(adds) : name[1] = "sort"
  <1> DEFINE s == Reverse(SortsOf(req, c))
             f == [i \in DOMAIN s |-> SortField(s[i])]
             P == {j \in DOMAIN req.sort : req.sort[j].chain = c}
             adds == MapSeq(SortField, s)
  <1>1. adds = f
    BY Zenon DEF MapSeq
  <1>2. IsSeq(s) /\ IsInjective(s) /\ ToSet(s) = {req.sort[i] : i \in P}
    BY SortsApart
  <1>3. Sorts(s)
    BY SortsOfChain
  <1> HIDE DEF s
  <1>4. NamedApart(adds)
    BY <1>3, SortFieldsApart
  <1>5. DOMAIN f = DOMAIN s
    OBVIOUS
  <1>6. \A i \in DOMAIN s : \E k \in P : s[i] = req.sort[k]
    BY <1>2 DEF ToSet
  <1>7. \A k \in P : \E i \in DOMAIN s : s[i] = req.sort[k]
    BY <1>2 DEF ToSet
  <1>8. \A i \in DOMAIN s : f[i].name = SortName(s[i].field) /\ f[i].col = s[i].field /\ s[i].field \in Ident
    BY <1>3 DEF SortField, Sorts
  <1> HIDE DEF f
  <1>9. ASSUME NEW i \in DOMAIN s PROVE f[i].name[1] = "sort" /\ f[i].col \in BaseColumns(t)
    <2>1. f[i].name[1] = "sort"
      BY <1>8, FirstWord DEF SortName
    <2>2. s[i].field \in AttrNames(t)
      BY <1>6 DEF SortedFrom
    <2> QED
      BY <1>8, <2>1, <2>2, AttrsAreColumns
  <1>10. ASSUME NEW i \in DOMAIN s, NEW j \in DOMAIN s, f[j].name = f[i].name PROVE j = i
    <2>1. IsSeq(s[i].field) /\ IsSeq(s[j].field)
      BY <1>8, SeqIsSeq DEF Ident
    <2>2. <<"sort">> \o s[i].field = <<"sort">> \o s[j].field
      BY <1>8, <1>10 DEF SortName
    <2>3. s[i].field = s[j].field
      BY <2>1, <2>2, WordApart
    <2>4. PICK k \in P : s[i] = req.sort[k]
      BY <1>6
    <2>5. PICK l \in P : s[j] = req.sort[l]
      BY <1>6
    <2>6. k = l
      BY <2>3, <2>4, <2>5 DEF DistinctSorts
    <2>7. s[i] = s[j]
      BY <2>4, <2>5, <2>6
    <2> QED
      BY <1>2, <2>7 DEF IsInjective
  <1>11. AddsFit(f, t)
    BY <1>1, <1>4, <1>5, <1>9, <1>10 DEF AddsFit
  <1>12. Named(f) = SortNames(c)
    BY <1>5, <1>6, <1>7, <1>8 DEF Named, SortNames
  <1>13. \A name \in Named(f) : name[1] = "sort"
    BY <1>5, <1>9 DEF Named
  <1> QED
    BY <1>1, <1>11, <1>12, <1>13 DEF s

LEMMA NoAdds ==
  ASSUME NEW t
  PROVE  AddsFit(<<>>, t) /\ Named(<<>>) = {}
  BY NoneApart DEF AddsFit, Named

LEMMA MainSortsFit ==
  ASSUME IsRequest(req), DistinctSorts, NEW t, SortedFrom(<<>>, t)
  PROVE  LET adds == SortKeysForMain(req) IN
         AddsFit(adds, t) /\ Named(adds) = SortNames(<<>>) /\ \A name \in Named(adds) : name[1] = "sort"
  <1>1. CASE <<>> \in SortChains(req)
    <2>1. BuildInclusionMap(req)[<<>>].sorts = Reverse(SortsOf(req, <<>>))
      BY <1>1 DEF BuildInclusionMap
    <2>2. SortKeysForMain(req) = MapSeq(SortField, Reverse(SortsOf(req, <<>>)))
      BY <1>1, <2>1 DEF SortKeysForMain
    <2> QED
      BY <2>2, SortFieldsFit
  <1>2. CASE <<>> \notin SortChains(req)
    <2>1. SortNames(<<>>) = {}
      BY <1>2 DEF SortNames, SortChains
    <2>2. SortKeysForMain(req) = <<>>
      BY <1>2 DEF SortKeysForMain
    <2> QED
      BY <2>1, <2>2, NoAdds
  <1> QED
    BY <1>1, <1>2

\* Foreign keys, then sorting elements.
LEMMA AddsJoined ==
  ASSUME NEW a, NEW b, NEW t, AddsFit(a, t), AddsFit(b, t), Named(a) \cap Named(b) = {}
  PROVE  AddsFit(a \o b, t) /\ Named(a \o b) = Named(a) \cup Named(b)
  <1> DEFINE c == a \o b
             m == Len(a)
             n == Len(b)
  <1>1. NamedApart(c)
    BY ApartJoined DEF AddsFit
  <1>2. /\ m \in Nat /\ DOMAIN a = 1..m /\ n \in Nat /\ DOMAIN b = 1..n
        /\ DOMAIN c = 1..(m + n)
        /\ \A i \in 1..m : c[i] = a[i]
        /\ \A i \in 1..n : c[m + i] = b[i]
    BY ConcatIsSeq DEF AddsFit, NamedApart
  <1> HIDE DEF c, m, n
  <1>3. \A i \in 1..(m + n) : i \in 1..m \/ \E j \in 1..n : i = m + j
    <2> SUFFICES ASSUME NEW i \in 1..(m + n), i \notin 1..m PROVE \E j \in 1..n : i = m + j
      OBVIOUS
    <2>1. i - m \in 1..n /\ i = m + (i - m)
      BY <1>2
    <2> QED
      BY <2>1
  <1>4. (\A i \in 1..m : i \in 1..(m + n)) /\ (\A j \in 1..n : m + j \in 1..(m + n))
    BY <1>2
  <1>5. \A i \in 1..m, j \in 1..n : a[i].name # b[j].name
    BY <1>2 DEF Named
  <1>6. ASSUME NEW i \in 1..(m + n) PROVE c[i].col \in BaseColumns(t)
    <2>1. CASE i \in 1..m
      BY <1>2, <2>1 DEF AddsFit
    <2>2. CASE \E j \in 1..n : i = m + j
      <3>1. PICK j \in 1..n : i = m + j
        BY <2>2
      <3>2. c[i] = b[j] /\ j \in DOMAIN b
        BY <1>2, <3>1
      <3> QED
        BY <3>2 DEF AddsFit
    <2> QED
      BY <1>3, <2>1, <2>2
  <1>7. ASSUME NEW i \in 1..(m + n), NEW j \in 1..(m + n), c[j].name = c[i].name PROVE j = i
    <2>1. CASE i \in 1..m /\ j \in 1..m
      BY <1>2, <1>7, <2>1 DEF AddsFit
    <2>2. CASE i \in 1..m /\ \E l \in 1..n : j = m + l
      <3>1. PICK l \in 1..n : j = m + l
        BY <2>2
      <3>2. a[i].name = b[l].name
        BY <1>2, <1>7, <2>2, <3>1
      <3> QED
        BY <1>5, <2>2, <3>2
    <2>3. CASE j \in 1..m /\ \E k \in 1..n : i = m + k
      <3>1. PICK k \in 1..n : i = m + k
        BY <2>3
      <3>2. a[j].name = b[k].name
        BY <1>2, <1>7, <2>3, <3>1
      <3> QED
        BY <1>5, <2>3, <3>2
    <2>4. CASE (\E k \in 1..n : i = m + k) /\ \E l \in 1..n : j = m + l
      <3>1. PICK k \in 1..n : i = m + k
        BY <2>4
      <3>2. PICK l \in 1..n : j = m + l
        BY <2>4
      <3>3. b[l].name = b[k].name
        BY <1>2, <1>7, <3>1, <3>2
      <3>4. l = k
        BY <1>2, <3>3 DEF AddsFit
      <3> QED
        BY <3>1, <3>2, <3>4
    <2>5. i \in 1..m \/ \E k \in 1..n : i = m + k
      BY <1>3
    <2>6. j \in 1..m \/ \E l \in 1..n : j = m + l
      BY <1>3
    <2> QED
      BY <2>1, <2>2, <2>3, <2>4, <2>5, <2>6
  <1>8. AddsFit(c, t)
    BY <1>1, <1>2, <1>6, <1>7 DEF AddsFit
  <1>9. Named(c) = Named(a) \cup Named(b)
    <2>1. Named(c) \subseteq Named(a) \cup Named(b)
      <3> SUFFICES ASSUME NEW i \in 1..(m + n) PROVE c[i].name \in Named(a) \cup Named(b)
        BY <1>2 DEF Named
      <3>1. CASE i \in 1..m
        BY <1>2, <3>1 DEF Named
      <3>2. CASE \E j \in 1..n : i = m + j
        <4>1. PICK j \in 1..n : i = m + j
          BY <3>2
        <4>2. c[i] = b[j] /\ j \in DOMAIN b
          BY <1>2, <4>1
        <4> QED
          BY <4>2 DEF Named
      <3>3. i \in 1..m \/ \E j \in 1..n : i = m + j
        BY <1>3
      <3> QED
        BY <3>1, <3>2, <3>3
    <2>2. Named(a) \subseteq Named(c)
      BY <1>2, <1>4 DEF Named
    <2>3. Named(b) \subseteq Named(c)
      BY <1>2, <1>4 DEF Named
    <2> QED
      BY <2>1, <2>2, <2>3
  <1> QED
    BY <1>8, <1>9 DEF c

----------------------------------------------------------------------------
(* What a data CTE reads *)

FieldsFit(fields, t) == fields \in Seq(Ident) /\ ~UnknownField(fields, t)

\* The rows are related to those of a table in scope, by its key.
HeadReads(b, relating, tbls) ==
  relating # <<>> =>
    PlainKey(relating[1].tbl.type) /\ ReadsRef(b, Ref(relating[1].tbl, Id), tbls)

LEMMA JsonReads ==
  ASSUME NEW t, NEW fields, FieldsFit(fields, t), NEW tbl
  PROVE  \A j \in DOMAIN JsonRefs(tbl, t, fields) :
           \E col \in BaseColumns(t) : JsonRefs(tbl, t, fields)[j] = Ref(tbl, col)
  <1> DEFINE P == {i \in DOMAIN fields : fields[i] \notin ObjNames(t)}
             plain == Kept(fields, P)
             f == [i \in DOMAIN plain |-> Ref(tbl, plain[i])]
  <1>1. PlainFields(fields, t) = plain
    BY DEF PlainFields
  <1>2. MapSeq(LAMBDA g : Ref(tbl, g), plain) = f
    BY Zenon DEF MapSeq
  <1>3. JsonRefs(tbl, t, fields) = f
    BY <1>1, <1>2, Zenon DEF JsonRefs
  <1>4. ToSet(plain) = {fields[i] : i \in DOMAIN fields \cap P}
    BY KeptElements DEF FieldsFit
  <1> HIDE DEF plain
  <1>5. \A i \in DOMAIN plain : plain[i] \in AttrNames(t)
    <2>1. \A i \in DOMAIN plain : plain[i] \in ToSet(plain)
      BY DEF ToSet
    <2>2. \A x \in ToSet(plain) : x \in AttrNames(t)
      BY <1>4 DEF FieldsFit, UnknownField
    <2> QED
      BY <2>1, <2>2
  <1>6. \A j \in DOMAIN f : \E col \in BaseColumns(t) : f[j] = Ref(tbl, col)
    BY <1>5, AttrsAreColumns
  <1> HIDE DEF f
  <1> QED
    BY <1>3, <1>6

\* Every column of a data CTE is read from the table selected from, when it
\* shows the columns of its type, or relates the rows to others.
LEMMA DataOutsRead ==
  ASSUME NEW b, NEW t \in Type, PlainKey(t), NEW tbl, tbl.type = t,
         \A col \in BaseColumns(t) : Shows(b, tbl, col),
         NEW outs, NEW additional, AddsFit(additional, t), DataColumns(outs, additional),
         NEW relating, NEW fields, FieldsFit(fields, t), DataRefs(outs, tbl, t, relating, additional, fields),
         NEW tbls, tbl \in tbls, HeadReads(b, relating, tbls)
  PROVE  OutsRead(b, outs, tbls)
  <1> DEFINE m == Len(additional)
             RefsRead(refs) == \A j \in DOMAIN refs : ReadsRef(b, refs[j], tbls)
  <1>1. m \in Nat /\ DOMAIN additional = 1..m /\ DOMAIN outs = 1..(6 + m)
    BY DEF DataColumns
  <1>2. /\ outs[1].refs = PrettyRefs(tbl) /\ outs[2].refs = KeyRefs(tbl) /\ outs[3].refs = HeadRefs(relating)
        /\ outs[4].refs = <<>> /\ outs[5].refs = <<>> /\ outs[6].refs = JsonRefs(tbl, t, fields)
        /\ \A i \in 1..m : outs[6 + i].refs = <<Ref(tbl, additional[i].col)>>
    BY DEF DataRefs
  <1>3. \A col \in BaseColumns(t) : ReadsRef(b, Ref(tbl, col), tbls)
    BY DEF ReadsRef, Ref
  <1>4. HasPlainKey(t)
    BY KeysArePlain
  <1>5. RefsRead(PrettyRefs(tbl)) /\ RefsRead(KeyRefs(tbl))
    <2>1. OneRef(KeyRefs(tbl), tbl) /\ OneRef(PrettyRefs(tbl), tbl)
      BY KeyRefsPlain
    <2>2. ReadsRef(b, Ref(tbl, Id), tbls)
      BY <1>3, <1>4 DEF HasPlainKey
    <2> QED
      BY <2>1, <2>2 DEF OneRef
  <1>6. RefsRead(<<>>)
    OBVIOUS
  <1>7. \A x : ReadsRef(b, x, tbls) => RefsRead(<<x>>)
    <2>1. \A x : DOMAIN <<x>> = {1} /\ <<x>>[1] = x
      OBVIOUS
    <2> QED
      BY <2>1
  <1>8. RefsRead(HeadRefs(relating))
    <2>1. CASE relating = <<>>
      BY <1>6, <2>1 DEF HeadRefs
    <2>2. CASE relating # <<>>
      <3> DEFINE source == relating[1].tbl
      <3>1. PlainKey(source.type) /\ ReadsRef(b, Ref(source, Id), tbls)
        BY <2>2 DEF HeadReads
      <3>2. KeyIdent(source.type) = Id
        BY <3>1, KeysArePlain DEF HasPlainKey
      <3>3. HeadRefs(relating) = <<Ref(source, KeyIdent(source.type))>>
        BY <2>2, Zenon DEF HeadRefs
      <3>4. HeadRefs(relating) = <<Ref(source, Id)>>
        BY <3>2, <3>3
      <3> HIDE DEF RefsRead, source
      <3> QED
        BY <1>7, <3>1, <3>4
    <2> QED
      BY <2>1, <2>2
  <1>9. RefsRead(JsonRefs(tbl, t, fields))
    BY <1>3, JsonReads
  <1>10. \A i \in 1..m : RefsRead(<<Ref(tbl, additional[i].col)>>)
    <2> SUFFICES ASSUME NEW i \in 1..m PROVE RefsRead(<<Ref(tbl, additional[i].col)>>)
      OBVIOUS
    <2>1. ReadsRef(b, Ref(tbl, additional[i].col), tbls)
      BY <1>1, <1>3 DEF AddsFit
    <2> HIDE DEF RefsRead
    <2> QED
      BY <1>7, <2>1
  <1> HIDE DEF RefsRead, m
  <1>11. ASSUME NEW k \in 1..(6 + m) PROVE RefsRead(outs[k].refs)
    <2>1. CASE k \in 1..6
      <3>1. k = 1 \/ k = 2 \/ k = 3 \/ k = 4 \/ k = 5 \/ k = 6
        BY <2>1
      <3> QED
        BY <1>2, <1>5, <1>6, <1>8, <1>9, <3>1
    <2>2. CASE k \notin 1..6
      <3>1. k - 6 \in 1..m /\ k = 6 + (k - 6)
        BY <1>1, <2>2
      <3> QED
        BY <1>2, <1>10, <3>1
    <2> QED
      BY <2>1, <2>2
  <1> QED
    BY <1>1, <1>11 DEF OutsRead, RefsRead

\* A data CTE reads what is there, and is carried.
DataStmt(tbl, additional, relating, fields, n, joins, where) ==
  Stmt("select", tbl, SelectOuts(tbl, tbl.type, relating, additional, fields, n), joins, <<>>, where)
LEMMA DataStmtReads ==
  ASSUME NEW b, NEW tbl, tbl.type \in Type, PlainKey(tbl.type),
         \A col \in BaseColumns(tbl.type) : Shows(b, tbl, col), NEW additional, AddsFit(additional, tbl.type), NEW relating, NEW fields, FieldsFit(fields, tbl.type),
         NEW n, NEW joins, NEW where, NEW stmt,
         stmt = DataStmt(tbl, additional, relating, fields, n, joins, where), JoinsFit(b, stmt),
         HeadReads(b, relating, Seen(stmt)), WhereReads(b, where, Seen(stmt))
  PROVE  StmtReads(b, stmt) /\ stmt.q = "select" /\ DataColumns(stmt.outs, additional)
  <1> DEFINE outs == SelectOuts(tbl, tbl.type, relating, additional, fields, n)
  <1>1. DataColumns(outs, additional) /\ DataRefs(outs, tbl, tbl.type, relating, additional, fields)
    BY ColumnsAre DEF AddsFit
  <1> HIDE DEF outs
  <1>2. stmt = Stmt("select", tbl, outs, joins, <<>>, where)
    BY DEF DataStmt, outs
  <1>3. stmt.from = tbl /\ stmt.outs = outs /\ stmt.where = where /\ stmt.sets = <<>> /\ stmt.q = "select"
    BY <1>2 DEF Stmt
  <1>4. tbl \in Seen(stmt)
    BY <1>3 DEF Seen
  <1>5. OutsRead(b, stmt.outs, Seen(stmt))
    BY <1>1, <1>3, <1>4, DataOutsRead
  <1>6. SetsFit(stmt.sets, stmt.from.type)
    BY <1>3, NothingRead
  <1> QED
    BY <1>1, <1>3, <1>5, <1>6 DEF StmtReads, JoinsFit, WhereReads

\* A statement without joins and without columns.
LEMMA PlainStmtReads ==
  ASSUME NEW b, NEW q, NEW tbl, NEW sets, SetsFit(sets, tbl.type), NEW where, WhereReads(b, where, {tbl})
  PROVE  StmtReads(b, Stmt(q, tbl, <<>>, <<>>, sets, where))
  <1> DEFINE stmt == Stmt(q, tbl, <<>>, <<>>, sets, where)
  <1>1. /\ stmt.from = tbl /\ stmt.outs = <<>> /\ stmt.where = where /\ stmt.sets = sets
        /\ stmt.joins = <<>>
    BY DEF Stmt
  <1> HIDE DEF stmt
  <1>2. JoinsFit(b, stmt) /\ Seen(stmt) = {tbl}
    BY <1>1, NoJoins
  <1>3. OutsRead(b, stmt.outs, Seen(stmt))
    BY <1>1, NothingRead
  <1>4. StmtReads(b, stmt)
    BY <1>1, <1>2, <1>3 DEF StmtReads, JoinsFit, WhereReads
  <1> QED
    BY <1>4 DEF stmt

----------------------------------------------------------------------------
(* The columns that are set *)

ValuesFit(values, t) ==
  /\ IsSeq(values)
  /\ \A i \in DOMAIN values :
       /\ values[i].col \in BaseColumns(t)
       /\ \A j \in DOMAIN values : values[j].col = values[i].col => j = i

LEMMA SetsOfValues ==
  ASSUME NEW values, NEW t, ValuesFit(values, t), NEW n
  PROVE  SetsFit(SetList(values, n), t)
  <1> DEFINE f == SetList(values, n)
  <1>1. DOMAIN f = DOMAIN values /\ \A i \in DOMAIN values : f[i].col = values[i].col
    BY DEF SetList
  <1> HIDE DEF f
  <1>2. SetsFit(f, t)
    BY <1>1 DEF SetsFit, ValuesFit
  <1> QED
    BY <1>2 DEF f

\* Attributes, then foreign keys.
LEMMA ValuesJoined ==
  ASSUME NEW a, NEW b, NEW t, ValuesFit(a, t), ValuesFit(b, t),
         \A i \in DOMAIN a, j \in DOMAIN b : a[i].col # b[j].col
  PROVE  ValuesFit(a \o b, t)
  <1> DEFINE c == a \o b
             m == Len(a)
             n == Len(b)
  <1>1. /\ IsSeq(c) /\ m \in Nat /\ DOMAIN a = 1..m /\ n \in Nat /\ DOMAIN b = 1..n
        /\ DOMAIN c = 1..(m + n)
        /\ \A i \in 1..m : c[i] = a[i]
        /\ \A i \in 1..n : c[m + i] = b[i]
    BY ConcatIsSeq DEF ValuesFit
  <1> HIDE DEF c, m, n
  <1>2. ASSUME NEW i \in 1..(m + n)
        PROVE  (i \in 1..m /\ c[i] = a[i]) \/ \E j \in 1..n : i = m + j /\ c[i] = b[j]
    <2>1. CASE i \in 1..m
      BY <1>1, <2>1
    <2>2. CASE i \notin 1..m
      <3>1. i - m \in 1..n /\ i = m + (i - m)
        BY <1>1, <2>2
      <3> QED
        BY <1>1, <3>1
    <2> QED
      BY <2>1, <2>2
  <1>3. ASSUME NEW i \in 1..(m + n) PROVE c[i].col \in BaseColumns(t)
    <2>1. CASE i \in 1..m /\ c[i] = a[i]
      BY <1>1, <2>1 DEF ValuesFit
    <2>2. CASE \E j \in 1..n : i = m + j /\ c[i] = b[j]
      BY <1>1, <2>2 DEF ValuesFit
    <2> QED
      BY <1>2, <2>1, <2>2
  <1>4. ASSUME NEW i \in 1..(m + n), NEW j \in 1..(m + n), c[j].col = c[i].col PROVE j = i
    <2>1. CASE i \in 1..m /\ c[i] = a[i]
      <3>1. CASE j \in 1..m /\ c[j] = a[j]
        BY <1>1, <1>4, <2>1, <3>1 DEF ValuesFit
      <3>2. CASE \E l \in 1..n : j = m + l /\ c[j] = b[l]
        BY <1>1, <1>4, <2>1, <3>2
      <3> QED
        BY <1>2, <3>1, <3>2
    <2>2. CASE \E k \in 1..n : i = m + k /\ c[i] = b[k]
      <3>1. CASE j \in 1..m /\ c[j] = a[j]
        BY <1>1, <1>4, <2>2, <3>1
      <3>2. CASE \E l \in 1..n : j = m + l /\ c[j] = b[l]
        BY <1>1, <1>4, <2>2, <3>2 DEF ValuesFit
      <3> QED
        BY <1>2, <3>1, <3>2
    <2> QED
      BY <1>2, <2>1, <2>2
  <1>5. ValuesFit(c, t)
    BY <1>1, <1>3, <1>4 DEF ValuesFit
  <1> QED
    BY <1>5 DEF c

\* The values given for the attributes of the main type: each of them once.
AttrsFit(attrs, t) ==
  /\ attrs \in Seq([name : Ident, absent : BOOLEAN])
  /\ \A i, j \in DOMAIN attrs :
       attrs[i].name \in AttrNames(t) /\ (attrs[i].name = attrs[j].name => i = j)
LEMMA AttributeValuesFit ==
  ASSUME NEW attrs, NEW t, AttrsFit(attrs, t)
  PROVE  /\ ValuesFit(AttributeValues(attrs), t)
         /\ \A i \in DOMAIN AttributeValues(attrs) : AttributeValues(attrs)[i].col \in AttrNames(t)
  <1> DEFINE S == [name : Ident, absent : BOOLEAN]
             P == {i \in DOMAIN attrs : ~attrs[i].absent}
             kept == Kept(attrs, P)
             f == [i \in DOMAIN kept |-> Value("attr", kept[i].name)]
             values == AttributeValues(attrs)
  <1>1. values = f
    BY Zenon DEF AttributeValues, MapSeq
  <1>2. attrs \in Seq(S)
    BY DEF AttrsFit
  <1> HIDE DEF S
  <1>3. kept \in Seq(S) /\ ToSet(kept) = {attrs[i] : i \in DOMAIN attrs \cap P}
    BY <1>2, KeptTyped, KeptElements
  <1>4. \A i, j \in DOMAIN attrs \cap P : attrs[i] = attrs[j] => i = j
    BY DEF AttrsFit
  <1>5. IsInjective(kept)
    BY <1>2, <1>4, KeptApart
  <1> HIDE DEF kept, P
  <1>6. \A i \in DOMAIN kept : \E k \in DOMAIN attrs : kept[i] = attrs[k]
    BY <1>3 DEF ToSet
  <1>7. FunctionOn(f, DOMAIN kept) /\ \A i \in DOMAIN kept : f[i].col = kept[i].name
    BY DEF FunctionOn, Value
  <1> HIDE DEF f
  <1>8. IsSeq(f) /\ DOMAIN f = DOMAIN kept
    BY <1>3, <1>7, SeqIsSeq, MapIsSeq
  <1>9. \A i \in DOMAIN f : f[i].col \in AttrNames(t)
    BY <1>6, <1>7, <1>8 DEF AttrsFit
  <1>10. ASSUME NEW i \in DOMAIN f, NEW j \in DOMAIN f, f[j].col = f[i].col PROVE j = i
    <2>1. PICK k \in DOMAIN attrs : kept[i] = attrs[k]
      BY <1>6, <1>8
    <2>2. PICK l \in DOMAIN attrs : kept[j] = attrs[l]
      BY <1>6, <1>8
    <2>3. attrs[k].name = attrs[l].name
      BY <1>7, <1>8, <1>10, <2>1, <2>2
    <2>4. kept[i] = kept[j]
      BY <2>1, <2>2, <2>3 DEF AttrsFit
    <2> QED
      BY <1>5, <1>8, <2>4 DEF IsInjective
  <1>11. ValuesFit(f, t)
    BY <1>8, <1>9, <1>10, AttrsAreColumns DEF ValuesFit
  <1> QED
    BY <1>1, <1>9, <1>11 DEF values

\* Those given for its relationships.
RelationshipValues(body, t, P) == MapSeq(LAMBDA r : RelationshipValue(r, body.rels[r]), Kept(RelsOf(t), P))
LEMMA RelationshipValuesFit ==
  ASSUME NEW t \in Type, NEW body, NEW P, P \subseteq {i \in DOMAIN RelsOf(t) : IsManyToOne(RelsOf(t)[i])}
  PROVE  LET values == RelationshipValues(body, t, P) IN
         /\ ValuesFit(values, t)
         /\ \A i \in DOMAIN values : \E r \in Rel : /\ IsManyToOne(r) /\ Relation[r].owner = t
                                                    /\ values[i].col = Relation[r].key
  <1> DEFINE rels == RelsOf(t)
             kept == Kept(rels, P)
             f == [i \in DOMAIN kept |-> RelationshipValue(kept[i], body.rels[kept[i]])]
  <1>1. RelationshipValues(body, t, P) = f
    BY Zenon DEF RelationshipValues, MapSeq
  <1>2. rels \in Seq(Rel) /\ rels = Resource[t].rels
    BY ResourceAssumption DEF RelsOf
  <1>3. \A i \in DOMAIN rels : Relation[rels[i]].owner = t
    BY <1>2, ColumnsAssumption
  <1>4. \A i, j \in DOMAIN rels \cap P : rels[i] = rels[j] => i = j
    BY <1>2, ColumnsAssumption
  <1>5. \A i \in P : i \in DOMAIN rels /\ IsManyToOne(rels[i])
    OBVIOUS
  <1> HIDE DEF rels
  <1>6. kept \in Seq(Rel) /\ ToSet(kept) = {rels[i] : i \in DOMAIN rels \cap P}
    BY <1>2, KeptTyped, KeptElements
  <1>7. IsInjective(kept)
    BY <1>2, <1>4, KeptApart
  <1> HIDE DEF kept
  <1>8. \A i \in DOMAIN kept : kept[i] \in Rel /\ IsManyToOne(kept[i]) /\ Relation[kept[i]].owner = t
    <2>1. \A i \in DOMAIN kept : kept[i] \in ToSet(kept)
      BY DEF ToSet
    <2>2. \A i \in DOMAIN kept : kept[i] \in Rel
      BY <1>6, LenProperties, ElementOfSeq
    <2>3. \A r \in ToSet(kept) : IsManyToOne(r) /\ Relation[r].owner = t
      BY <1>3, <1>5, <1>6
    <2> QED
      BY <2>1, <2>2, <2>3
  <1>9. FunctionOn(f, DOMAIN kept) /\ \A i \in DOMAIN kept : f[i].col = Relation[kept[i]].key
    BY DEF FunctionOn, RelationshipValue, Value
  <1> HIDE DEF f
  <1>10. IsSeq(f) /\ DOMAIN f = DOMAIN kept
    BY <1>6, <1>9, SeqIsSeq, MapIsSeq
  <1>11. \A i \in DOMAIN f : f[i].col \in BaseColumns(t)
    BY <1>8, <1>9, <1>10 DEF BaseColumns
  <1>12. ASSUME NEW i \in DOMAIN f, NEW j \in DOMAIN f, f[j].col = f[i].col PROVE j = i
    <2>1. kept[i] = kept[j]
      BY <1>8, <1>9, <1>10, <1>12, ColumnsAssumption DEF IsManyToOne
    <2> QED
      BY <1>7, <1>10, <2>1 DEF IsInjective
  <1>13. ValuesFit(f, t)
    BY <1>10, <1>11, <1>12 DEF ValuesFit
  <1>14. \A i \in DOMAIN f : \E r \in Rel : IsManyToOne(r) /\ Relation[r].owner = t /\ f[i].col = Relation[r].key
    BY <1>8, <1>9, <1>10
  <1> QED
    BY <1>1, <1>13, <1>14 DEF kept, rels

\* What a body gives for the attributes and the relationships of a type.
LEMMA ExtractedFit ==
  ASSUME NEW t \in Type, NEW body, AttrsFit(body.attrs, t)
  PROVE  ValuesFit(ExtractData(body, t).values, t) /\ ExtractData(body, t).fields = RelFields(t)
  <1> DEFINE rels == RelsOf(t)
             P == {i \in DOMAIN rels : IsManyToOne(rels[i]) /\ body.rels[rels[i]] \in {"one", "null"}}
             a == AttributeValues(body.attrs)
             b == RelationshipValues(body, t, P)
  <1>1. ExtractData(body, t).values = a \o b /\ ExtractData(body, t).fields = RelFields(t)
    BY Zenon DEF ExtractData, RelationshipValues
  <1>2. P \subseteq {i \in DOMAIN RelsOf(t) : IsManyToOne(RelsOf(t)[i])}
    OBVIOUS
  <1> HIDE DEF P
  <1>3. ValuesFit(a, t) /\ \A i \in DOMAIN a : a[i].col \in AttrNames(t)
    BY AttributeValuesFit
  <1>4. /\ ValuesFit(b, t)
        /\ \A i \in DOMAIN b : \E r \in Rel : /\ IsManyToOne(r) /\ Relation[r].owner = t
                                              /\ b[i].col = Relation[r].key
    BY <1>2, RelationshipValuesFit
  <1> HIDE DEF a, b
  <1>5. \A r \in Rel : IsManyToOne(r) /\ Relation[r].owner = t => Relation[r].key \notin AttrNames(t)
    <2> SUFFICES ASSUME NEW r \in Rel, IsManyToOne(r), Relation[r].owner = t,
                        NEW i \in DOMAIN Resource[t].attrs
                 PROVE  Resource[t].attrs[i].name # Relation[r].key
      BY DEF AttrNames
    <2>1. Relation[r].kind = "ManyToOne"
      BY DEF IsManyToOne
    <2> QED
      BY <2>1, ColumnsAssumption
  <1>6. \A i \in DOMAIN a, j \in DOMAIN b : a[i].col # b[j].col
    BY <1>3, <1>4, <1>5
  <1>7. ValuesFit(a \o b, t)
    BY <1>3, <1>4, <1>6, ValuesJoined
  <1> QED
    BY <1>1, <1>7

\* A write to a relationship that says what to write sets its key.
LEMMA RelExtractedFit ==
  ASSUME NEW r \in Rel, NEW data \in {"one", "null"}, IsManyToOne(r)
  PROVE  /\ ValuesFit(ExtractRelData(r, data).values, Relation[r].owner)
         /\ ExtractRelData(r, data).fields = <<RelField(r)>>
  <1> DEFINE x == RelationshipValue(r, data)
             f == <<x>>
  <1>1. ExtractRelData(r, data).values = f /\ ExtractRelData(r, data).fields = <<RelField(r)>>
    BY Zenon DEF ExtractRelData
  <1>2. x.col = Relation[r].key
    BY DEF RelationshipValue, Value
  <1>3. DOMAIN f = {1} /\ f[1] = x /\ IsSeq(f)
    <2> HIDE DEF x
    <2> QED
      BY TupleIsSeq
  <1>4. x.col \in BaseColumns(Relation[r].owner)
    BY <1>2 DEF BaseColumns
  <1> HIDE DEF f, x
  <1>5. ValuesFit(f, Relation[r].owner)
    BY <1>3, <1>4 DEF ValuesFit
  <1> QED
    BY <1>1, <1>5

----------------------------------------------------------------------------
(* What is refused before anything is written *)

LEMMA FieldsChecked ==
  ASSUME IsRequest(req), NEW t \in Type, NEW include \in BOOLEAN, JsonError(t, include) = "none"
  PROVE  FieldsFit(JsonFields(req.sparse, t, include), t)
  <1>1. ~UnknownField(JsonFields(req.sparse, t, include), t)
    BY DEF JsonError, Unless
  <1> QED
    BY <1>1, FieldsTyped DEF FieldsFit

\* Among two to five checks none has failed when the first error is none.
LEMMA NoneFailed ==
  ASSUME NEW a \in EarlyError, NEW b \in EarlyError, NEW c \in EarlyError, NEW d \in EarlyError,
         NEW e \in EarlyError
  PROVE  /\ FirstError(<<a, b>>) = "none" => b = "none"
         /\ FirstError(<<a, b, c, d>>) = "none" => d = "none"
         /\ FirstError(<<a, b, c, d, e>>) = "none" => c = "none" /\ d = "none" /\ e = "none"
  <1>1. ASSUME FirstError(<<a, b>>) = "none" PROVE b = "none"
    <2> DEFINE errs == <<a, b>>
    <2>1. DOMAIN errs = {1, 2} /\ \A i \in {1, 2} : errs[i] \in EarlyError
      OBVIOUS
    <2>2. FirstError(errs) = "none" /\ errs[2] = b
      BY <1>1
    <2> HIDE DEF errs
    <2> QED
      BY <2>1, <2>2, FirstErrorTyped
  <1>2. ASSUME FirstError(<<a, b, c, d>>) = "none" PROVE d = "none"
    <2> DEFINE errs == <<a, b, c, d>>
    <2>1. DOMAIN errs = {1, 2, 3, 4} /\ \A i \in {1, 2, 3, 4} : errs[i] \in EarlyError
      OBVIOUS
    <2>2. FirstError(errs) = "none" /\ errs[4] = d
      BY <1>2
    <2> HIDE DEF errs
    <2> QED
      BY <2>1, <2>2, FirstErrorTyped
  <1>3. ASSUME FirstError(<<a, b, c, d, e>>) = "none" PROVE c = "none" /\ d = "none" /\ e = "none"
    <2> DEFINE errs == <<a, b, c, d, e>>
    <2>1. DOMAIN errs = {1, 2, 3, 4, 5} /\ \A i \in {1, 2, 3, 4, 5} : errs[i] \in EarlyError
      OBVIOUS
    <2>2. FirstError(errs) = "none" /\ errs[3] = c /\ errs[4] = d /\ errs[5] = e
      BY <1>3
    <2> HIDE DEF errs
    <2> QED
      BY <2>1, <2>2, FirstErrorTyped
  <1> QED
    BY <1>1, <1>2, <1>3

\* The checks that have not failed, one by one.
LEMMA EachCheckPassed ==
  /\ req.path.kind # "TypeIdRelationship" /\ SelectError = "none" => JsonError(MainTable.type, TRUE) = "none"
  /\ InsertError = "none" => JsonError(MainTable.type, TRUE) = "none"
  /\ UpdateMainError = "none" => JsonError(MainTable.type, TRUE) = "none"
  /\ UpdateRelError = "none" =>
       /\ JsonError(PathTable.type, TRUE) = "none" /\ req.body.kind = "rel"
       /\ ExtractRelData(PathRel, req.body.data).err = "none"
  /\ \A r : SelectRelError(r) = "none" => JsonError(RelatedType(r), Returned(r, at.resp)) = "none"
  <1>1. ASSUME req.path.kind # "TypeIdRelationship", SelectError = "none"
        PROVE  JsonError(MainTable.type, TRUE) = "none"
    <2> DEFINE a == Missing({MainTable.type})
               b == JsonError(MainTable.type, TRUE)
               c == Missing({PathTable.type} \cup JoinTables(PathRel))
    <2>1. a \in EarlyError /\ b \in EarlyError /\ c \in EarlyError
      BY ChecksTyped
    <2>2. SelectError = FirstError(<<a, b, c>>) \/ SelectError = FirstError(<<a, b>>)
      BY <1>1, Zenon DEF SelectError
    <2> HIDE DEF a, b, c
    <2>3. FirstError(<<a, b, c>>) = "none" => b = "none"
      <3> DEFINE errs == <<a, b, c>>
      <3>1. DOMAIN errs = {1, 2, 3} /\ \A i \in {1, 2, 3} : errs[i] \in EarlyError
        BY <2>1
      <3>2. errs[2] = b
        OBVIOUS
      <3> HIDE DEF errs
      <3>3. FirstError(errs) = "none" => b = "none"
        BY <3>1, <3>2, FirstErrorTyped
      <3> QED
        BY <3>3 DEF errs
    <2>4. b = "none"
      BY <1>1, <2>1, <2>2, <2>3, NoneFailed
    <2> QED
      BY <2>4 DEF b
  <1>2. ASSUME InsertError = "none" PROVE JsonError(MainTable.type, TRUE) = "none"
    <2> DEFINE a == CheckInsertRequest(req.body)
               b == Missing({MainTable.type})
               c == ExtractData(req.body, MainTable.type).err
               d == JsonError(MainTable.type, TRUE)
    <2>1. a \in EarlyError /\ b \in EarlyError /\ c \in EarlyError /\ d \in EarlyError
      BY ChecksTyped, ExtractionTyped
    <2>2. FirstError(<<a, b, c, d>>) = "none"
      BY <1>2, Zenon DEF InsertError
    <2> HIDE DEF a, b, c, d
    <2>3. d = "none"
      BY <2>1, <2>2, NoneFailed
    <2> QED
      BY <2>3 DEF d
  <1>3. ASSUME UpdateMainError = "none" PROVE JsonError(MainTable.type, TRUE) = "none"
    <2> DEFINE a == Missing({MainTable.type})
               b == Unless(req.body.kind = "main", "ManyRelationshipDirectWrite")
               c == ExtractData(req.body, MainTable.type).err
               d == JsonError(MainTable.type, TRUE)
    <2>1. a \in EarlyError /\ b \in EarlyError /\ c \in EarlyError /\ d \in EarlyError
      BY ChecksTyped, ExtractionTyped
    <2>2. FirstError(<<a, b, c, d>>) = "none"
      BY <1>3, Zenon DEF UpdateMainError
    <2> HIDE DEF a, b, c, d
    <2>3. d = "none"
      BY <2>1, <2>2, NoneFailed
    <2> QED
      BY <2>3 DEF d
  <1>4. ASSUME UpdateRelError = "none"
        PROVE  /\ JsonError(PathTable.type, TRUE) = "none" /\ req.body.kind = "rel"
               /\ ExtractRelData(PathRel, req.body.data).err = "none"
    <2> DEFINE a == Missing({PathTable.type})
               b == Missing({MainTable.type})
               c == Unless(req.body.kind = "rel", "UpdatingMainObject")
               d == ExtractRelData(PathRel, req.body.data).err
               e == JsonError(PathTable.type, TRUE)
    <2>1. a \in EarlyError /\ b \in EarlyError /\ c \in EarlyError /\ d \in EarlyError /\ e \in EarlyError
      BY ChecksTyped, ExtractionTyped
    <2> DEFINE errs == <<a, b, c, d, e>>
    <2>2. FirstError(errs) = "none"
      BY <1>4, Zenon DEF UpdateRelError
    <2> HIDE DEF a, b, c, d, e
    <2>3. c = "none" /\ d = "none" /\ e = "none"
      <3>1. DOMAIN errs = {1, 2, 3, 4, 5} /\ \A i \in {1, 2, 3, 4, 5} : errs[i] \in EarlyError
        BY <2>1
      <3>2. errs[3] = c /\ errs[4] = d /\ errs[5] = e
        OBVIOUS
      <3> HIDE DEF errs
      <3> QED
        BY <2>2, <3>1, <3>2, FirstErrorTyped
    <2>4. req.body.kind = "rel"
      BY <2>3 DEF c, Unless
    <2> QED
      BY <2>3, <2>4 DEF d, e
  <1>5. ASSUME NEW r, SelectRelError(r) = "none"
        PROVE  JsonError(RelatedType(r), Returned(r, at.resp)) = "none"
    <2> DEFINE errs == <<Missing({RelatedType(r)}), JsonError(RelatedType(r), Returned(r, at.resp)),
                         Missing(JoinTables(r))>>
    <2>1. SelectRelError(r) = FirstError(errs)
      BY Zenon DEF SelectRelError
    <2>2. DOMAIN errs = {1, 2, 3} /\ \A i \in {1, 2, 3} : errs[i] \in EarlyError
      BY ChecksTyped
    <2>3. errs[2] = JsonError(RelatedType(r), Returned(r, at.resp))
      OBVIOUS
    <2> HIDE DEF errs
    <2>4. errs[2] = "none"
      BY <1>5, <2>1, <2>2, FirstErrorTyped
    <2> QED
      BY <2>3, <2>4
  <1> QED
    BY <1>1, <1>2, <1>3, <1>4, <1>5

LEMMA DeletionChecked ==
  ASSUME NEW r \in Rel, DeleteRelError(r) = "none"
  PROVE  Relation[r].key \in BaseColumns(ManyResource(r))
  <1>1. Relation[r].kind # "ManyToMany"
    BY DEF DeleteRelError
  <1>2. CASE Relation[r].kind = "ManyToOne"
    BY <1>2 DEF ManyResource, IsManyToOne, BaseColumns
  <1>3. CASE Relation[r].kind = "OneToMany"
    <2>1. HoldsKey(RelatedType(r), Relation[r].key)
      BY <1>3, ColumnsAssumption DEF RelatedType
    <2> QED
      BY <1>3, <2>1, KeyHeld DEF ManyResource, IsManyToOne
  <1>4. Relation[r].kind \in RelKind
    BY RelationAssumption
  <1> QED
    BY <1>1, <1>2, <1>3, <1>4 DEF RelKind

----------------------------------------------------------------------------
(* The invariant *)

\* The columns of the sorting elements of chain c; and none that is named like
\* a column of the final CTE.
ShowsSorts(b, tbl, c) ==
  \A k \in DOMAIN req.sort : req.sort[k].chain = c => Shows(b, tbl, SortName(req.sort[k].field))
HidesAliases(b, tbl) == \A k \in DOMAIN req.sort : Hides(b, tbl, SortAlias(req.sort[k]))

\* The chain whose sorting elements the rows of chain c are carried with.
SortedAs(c) == IF WritesRel THEN <<>> ELSE c

\* What select_rels holds on to has the columns of the joins and the sorting
\* to come: the main data, the map, the chain that is followed and the working
\* tables.
MainHeld(b, tbl) ==
  /\ Carried(b, tbl)
  /\ \A c \in TargetChains : c # <<>> => Leads(b, tbl, c[1])
  /\ ~WritesRel => ShowsSorts(b, tbl, <<>>) /\ HidesAliases(b, tbl)
SortedFor(c, sorts) == c \in TargetChains /\ sorts = Reverse(SortsOf(req, SortedAs(c)))
MapHeld(map) == \A c \in DOMAIN map : SortedFor(c, map[c].sorts)
ChainHeld(b, here) ==
  /\ Carried(b, here.tbl)
  /\ here.chain # <<>> => SortedFor(here.chain, here.sorts)
  /\ here.i # Len(here.chain) => Leads(b, here.tbl, here.chain[here.i + 1])
RowsHeld(b, c, tbl) ==
  /\ Carried(b, tbl) /\ c # <<>> /\ ShowsSorts(b, tbl, SortedAs(c))
  /\ WritesRel => c = req.path.rels /\ HidesAliases(b, tbl)
TablesHeld(b, wt, tbl) ==
  /\ \A c \in DOMAIN wt : RowsHeld(b, c, wt[c].tbl) /\ wt[c].tbl # tbl
  /\ \A c, d \in DOMAIN wt : wt[c].tbl = wt[d].tbl => c = d
Holding ==
  pc = "rels" =>
    MainHeld(buf, main) /\ MapHeld(todo) /\ ChainHeld(buf, at) /\ TablesHeld(buf, working_tables, main)

\* The requests whose statements resolve.
Fit == PlainSorts /\ SaysWhat /\ PlainKeys /\ ~SelfJoined /\ ~NamesMeet

\* Every statement reads what is there, and every CTE that is held has the
\* columns its readers will name.
ColumnsHeld ==
  /\ AllRead(buf) /\ FinalsOver(buf)
  /\ Holding
  /\ pc = "start" => DOMAIN working_tables = {}
  /\ \A c \in DOMAIN taken : Carried(buf, taken[c].tbl)
ColumnInv == NamesFields(req) /\ (Fit => ColumnsHeld)

----------------------------------------------------------------------------
(* What is held stays held *)

LEMMA CarriedStays ==
  ASSUME NEW b, NEW c, GrownFrom(b, c)
  PROVE  /\ \A tbl : Carried(b, tbl) => Carried(c, tbl)
         /\ \A tbl, r : Leads(b, tbl, r) => Leads(c, tbl, r)
         /\ \A tbl, d : ShowsSorts(b, tbl, d) => ShowsSorts(c, tbl, d)
         /\ \A tbl : HidesAliases(b, tbl) => HidesAliases(c, tbl)
  <1>1. ASSUME NEW tbl, Carried(b, tbl) PROVE Carried(c, tbl)
    <2>1. tbl \in Ctes(c) /\ StmtIn(c, tbl) = StmtIn(b, tbl)
      BY <1>1, StmtStays DEF Carried
    <2> QED
      BY <1>1, <2>1, ShowsStays DEF Carried
  <1>2. \A tbl, r : Leads(b, tbl, r) => Leads(c, tbl, r)
    BY ShowsStays DEF Leads
  <1>3. \A tbl, d : ShowsSorts(b, tbl, d) => ShowsSorts(c, tbl, d)
    BY ShowsStays DEF ShowsSorts
  <1>4. \A tbl : HidesAliases(b, tbl) => HidesAliases(c, tbl)
    BY ShowsStays DEF HidesAliases
  <1> QED
    BY <1>1, <1>2, <1>3, <1>4

LEMMA HeldStays ==
  ASSUME NEW b, NEW c, GrownFrom(b, c)
  PROVE  /\ \A tbl : MainHeld(b, tbl) => MainHeld(c, tbl)
         /\ \A here : ChainHeld(b, here) => ChainHeld(c, here)
         /\ \A d, tbl : RowsHeld(b, d, tbl) => RowsHeld(c, d, tbl)
         /\ \A wt, tbl : TablesHeld(b, wt, tbl) => TablesHeld(c, wt, tbl)
  <1>1. \A tbl : MainHeld(b, tbl) => MainHeld(c, tbl)
    BY CarriedStays DEF MainHeld
  <1>2. \A here : ChainHeld(b, here) => ChainHeld(c, here)
    BY CarriedStays DEF ChainHeld
  <1>3. \A d, tbl : RowsHeld(b, d, tbl) => RowsHeld(c, d, tbl)
    BY CarriedStays DEF RowsHeld
  <1>4. \A wt, tbl : TablesHeld(b, wt, tbl) => TablesHeld(c, wt, tbl)
    BY <1>3 DEF TablesHeld
  <1> QED
    BY <1>1, <1>2, <1>3, <1>4

\* A step that only adds to the buffer: its tokens read what is there.
Adds(toks) ==
  /\ IsSeq(toks) /\ buf' = buf \o toks
  /\ \A i \in Positions(toks, {"cte", "write"}) : StmtReads(buf', toks[i].stmt)
  /\ \A i \in Positions(toks, {"select"}) : SelectReads(buf', toks[i])
  /\ \A i \in Positions(toks, {"cte"}) : toks[i].stmt.q = "final" => toks[i].stmt.from \in Ctes(buf)
LEMMA AddsToAll ==
  ASSUME IInv, IInv', AllRead(buf), FinalsOver(buf), NEW toks, Adds(toks)
  PROVE  GrownFrom(buf, buf') /\ AllRead(buf)' /\ FinalsOver(buf)'
  <1> DEFINE c == buf'
  <1>1. IsSeq(buf) /\ NamesUnique(buf) /\ NamesUnique(c)
    BY DEF IInv, BufferInv, CteNamesUnique
  <1>2. IsSeq(toks) /\ c = buf \o toks
    BY DEF Adds
  <1>3. /\ \A i \in Positions(toks, {"cte", "write"}) : StmtReads(c, toks[i].stmt)
        /\ \A i \in Positions(toks, {"select"}) : SelectReads(c, toks[i])
        /\ \A i \in Positions(toks, {"cte"}) : toks[i].stmt.q = "final" => toks[i].stmt.from \in Ctes(buf)
    BY DEF Adds
  <1> HIDE DEF c
  <1>4. GrownFrom(buf, c)
    BY <1>1, <1>2 DEF GrownFrom
  <1>5. AllRead(c) /\ FinalsOver(c)
    BY <1>1, <1>2, <1>3, AllReadMore
  <1>6. AllRead(buf)' <=> AllRead(c)
    BY DEF c, AllRead, Positions, StmtReads, SelectReads
  <1>7. FinalsOver(buf)' <=> FinalsOver(c)
    BY DEF c, FinalsOver, Positions, Ctes
  <1> QED
    BY <1>4, <1>5, <1>6, <1>7 DEF c

\* Who is fit, and what is to be held, is decided by the request.
LEMMA FitStays ==
  ASSUME req' = req
  PROVE  (Fit' <=> Fit) /\ (NamesFields(req)' <=> NamesFields(req))
  <1>1. PlainSorts' <=> PlainSorts
    BY DEF PlainSorts, DistinctSorts, SortedByPath, WritesRel
  <1>2. SaysWhat' <=> SaysWhat
    BY DEF SaysWhat, WritesRel
  <1>3. SelfJoined' <=> SelfJoined
    BY DEF SelfJoined
  <1>4. NamesMeet' <=> NamesMeet
    BY DEF NamesMeet
  <1>5. PlainKeys' <=> PlainKeys
    BY DEF PlainKeys, TypesSeen
  <1>6. NamesFields(req)' <=> NamesFields(req)
    BY DEF NamesFields
  <1> QED
    BY <1>1, <1>2, <1>3, <1>4, <1>5, <1>6 DEF Fit

LEMMA HoldingNext ==
  ASSUME req' = req,
         pc' = "rels" => /\ MainHeld(buf', main') /\ MapHeld(todo') /\ ChainHeld(buf', at')
                         /\ TablesHeld(buf', working_tables', main')
  PROVE  Holding'
  <1>1. WritesRel' <=> WritesRel
    BY DEF WritesRel
  <1>2. TargetChains' = TargetChains
    BY AskedStays
  <1>3. MainHeld(buf, main)' <=> MainHeld(buf', main')
    BY <1>1, <1>2 DEF MainHeld, ShowsSorts, HidesAliases, Carried, Leads
  <1>4. MapHeld(todo)' <=> MapHeld(todo')
    BY <1>1, <1>2 DEF MapHeld, SortedFor, SortedAs
  <1>5. ChainHeld(buf, at)' <=> ChainHeld(buf', at')
    BY <1>1, <1>2 DEF ChainHeld, SortedFor, SortedAs, Carried, Leads
  <1>6. TablesHeld(buf, working_tables, main)' <=> TablesHeld(buf', working_tables', main')
    BY <1>1, <1>2 DEF TablesHeld, RowsHeld, SortedAs, ShowsSorts, HidesAliases, Carried
  <1> QED
    BY <1>3, <1>4, <1>5, <1>6 DEF Holding

----------------------------------------------------------------------------
(* The shape of a step *)

\* A CTE that has just been written is none of those there were.
LEMMA NewTable ==
  ASSUME NEW b, NEW toks, IsSeq(b), IsSeq(toks), NamesUnique(b \o toks), NEW j \in Positions(toks, {"cte"})
  PROVE  toks[j].tbl \notin Ctes(b)
  <1> DEFINE c == b \o toks
             n == Len(b)
  <1>1. \A k \in Positions(b, {"cte"}) : k \in Positions(c, {"cte"}) /\ c[k] = b[k]
    BY PositionsBefore
  <1>2. \A k \in Positions(toks, {"cte"}) : Len(b) + k \in Positions(c, {"cte"}) /\ c[Len(b) + k] = toks[k]
    BY PositionsAfter
  <1>3. n \in Nat /\ DOMAIN b = 1..n /\ Len(toks) \in Nat /\ DOMAIN toks = 1..Len(toks)
    BY ConcatIsSeq
  <1>4. j \in Nat /\ j > 0
    BY <1>3 DEF Positions
  <1>5. NamesUnique(c)
    OBVIOUS
  <1>6. n + j \in Positions(c, {"cte"}) /\ c[n + j] = toks[j]
    BY <1>2
  <1> HIDE DEF n, c
  <1>7. ASSUME NEW i \in Positions(b, {"cte"}), b[i].tbl = toks[j].tbl PROVE FALSE
    <2>1. i = n + j
      BY <1>1, <1>5, <1>6, <1>7 DEF NamesUnique
    <2>2. i \in 1..n
      BY <1>3 DEF Positions
    <2> QED
      BY <1>3, <1>4, <2>1, <2>2
  <1> QED
    BY <1>7 DEF Ctes

\* Every step adds to the buffer; what is held afterwards is in it.
LEMMA StepHeld ==
  ASSUME IInv, IInv', ColumnsHeld, req' = req, NEW toks, Adds(toks), pc' # "start",
         pc' = "rels" => /\ MainHeld(buf', main') /\ MapHeld(todo') /\ ChainHeld(buf', at')
                         /\ TablesHeld(buf', working_tables', main'),
         \A c \in DOMAIN taken' : Carried(buf', taken'[c].tbl)
  PROVE  ColumnsHeld'
  <1>1. AllRead(buf)' /\ FinalsOver(buf)'
    BY AddsToAll DEF ColumnsHeld
  <1>2. Holding'
    BY HoldingNext
  <1>3. (\A c \in DOMAIN taken : Carried(buf, taken[c].tbl))' <=> (\A c \in DOMAIN taken' : Carried(buf', taken'[c].tbl))
    BY DEF Carried
  <1> QED
    BY <1>1, <1>2, <1>3 DEF ColumnsHeld

\* select_rels begins from the CTE of the main data.
LEMMA BeginHeld ==
  ASSUME IInv, IInv', ColumnsHeld, pc = "start", NEW toks, Adds(toks), NEW data, NEW map,
         SelectRelsFrom(data, map), MainHeld(buf', data), MapHeld(map)
  PROVE  ColumnsHeld'
  <1>1. /\ req' = req /\ pc' = "rels" /\ main' = data /\ todo' = map /\ at' = Nowhere(data)
        /\ working_tables' = working_tables /\ taken' = taken
    BY DEF SelectRelsFrom
  <1>2. ChainHeld(buf', Nowhere(data))
    <2> DEFINE here == Nowhere(data)
    <2>1. here.chain = <<>> /\ here.i = 0 /\ here.tbl = data /\ Len(<<>>) = 0
      BY DEF Nowhere, Enter
    <2>2. Carried(buf', data)
      BY DEF MainHeld
    <2> HIDE DEF here
    <2>3. ChainHeld(buf', here)
      BY <2>1, <2>2 DEF ChainHeld
    <2> QED
      BY <2>3 DEF here
  <1>3. TablesHeld(buf', working_tables, data)
    BY DEF TablesHeld, ColumnsHeld
  <1>4. GrownFrom(buf, buf')
    BY AddsToAll DEF ColumnsHeld
  <1>5. \A c \in DOMAIN taken : Carried(buf', taken[c].tbl)
    BY <1>4, CarriedStays DEF ColumnsHeld
  <1>6. MainHeld(buf', main') /\ MapHeld(todo') /\ ChainHeld(buf', at') /\ TablesHeld(buf', working_tables', main')
    BY <1>1, <1>2, <1>3
  <1>7. \A c \in DOMAIN taken' : Carried(buf', taken'[c].tbl)
    BY <1>1, <1>5
  <1>8. req' = req /\ pc' # "start"
    BY <1>1
  <1> QED
    BY <1>6, <1>7, <1>8, StepHeld

----------------------------------------------------------------------------
(* What a request says of its chains and of its sorting *)

\* The rows select_rels begins with are of this type.
RowsType == IF WritesRel THEN req.path.type ELSE MainType(req.path)
LEMMA ChainsFrom ==
  ASSUME IsRequest(req)
  PROVE  /\ \A c \in TargetChains :
              /\ IsChain(RowsType, c) /\ c \in Seq(Rel) /\ Len(c) \in Nat /\ DOMAIN c = 1..Len(c)
              /\ c # <<>> => Len(c) > 0 /\ c[1] \in Rel /\ Relation[c[1]].owner = RowsType
              /\ \A i \in 1..Len(c) : c[i] \in Rel
         /\ WritesRel => Len(req.path.rels) = 1
         /\ ~WritesRel => SortChains(req) \subseteq TargetChains /\ TargetChains = req.include \cup SortChains(req)
  <1>1. WritesRel => Len(req.path.rels) = 1
    BY PathRelTyped DEF WritesRel
  <1>2. ~WritesRel => TargetChains = req.include \cup SortChains(req)
    BY ChainsOfRequest DEF TargetChains
  <1>3. ASSUME NEW c \in TargetChains PROVE IsChain(RowsType, c)
    <2>1. CASE WritesRel
      BY <2>1 DEF TargetChains, RowsType, IsRequest
    <2>2. CASE ~WritesRel
      BY <2>2, ChainsOfRequest DEF TargetChains, RowsType
    <2> QED
      BY <2>1, <2>2
  <1>4. ASSUME NEW c \in TargetChains
        PROVE  /\ c \in Seq(Rel) /\ Len(c) \in Nat /\ DOMAIN c = 1..Len(c)
               /\ c # <<>> => Len(c) > 0 /\ c[1] \in Rel /\ Relation[c[1]].owner = RowsType
               /\ \A i \in 1..Len(c) : c[i] \in Rel
    <2>1. c \in Seq(Rel) /\ \A i \in DOMAIN c :
             Relation[c[i]].owner = IF i = 1 THEN RowsType ELSE RelatedType(c[i - 1])
      BY <1>3 DEF IsChain
    <2>2. Len(c) \in Nat /\ DOMAIN c = 1..Len(c) /\ (c # <<>> => Len(c) > 0)
      BY <2>1
    <2>3. \A i \in 1..Len(c) : c[i] \in Rel
      BY <2>1
    <2>4. c # <<>> => 1 \in 1..Len(c)
      BY <2>2
    <2> QED
      BY <2>1, <2>2, <2>3, <2>4
  <1> QED
    BY <1>1, <1>2, <1>3, <1>4

\* A sorting element names a field of the type its chain leads to.
LEMMA SortedFromTypes ==
  ASSUME NamesFields(req)
  PROVE  /\ SortedFrom(<<>>, MainType(req.path))
         /\ \A c : c # <<>> => SortedFrom(c, RelatedType(Last(c)))
  BY DEF NamesFields, SortedFrom

\* The columns of the final CTE begin with a word of their own.
LEMMA AliasWord ==
  ASSUME IsRequest(req)
  PROVE  \A k \in DOMAIN req.sort : SortAlias(req.sort[k])[1] = "sort" /\ SortName(req.sort[k].field)[1] = "sort"
  <1> SUFFICES ASSUME NEW k \in DOMAIN req.sort
               PROVE  SortAlias(req.sort[k])[1] = "sort" /\ SortName(req.sort[k].field)[1] = "sort"
    OBVIOUS
  <1> DEFINE s == req.sort[k]
  <1>1. s.chain \in Seq(Rel) /\ s.field \in Ident
    <2> DEFINE S == [chain : Seq(Rel), field : Ident, desc : BOOLEAN]
    <2>1. req.sort \in Seq(S)
      BY DEF IsRequest
    <2>2. s \in S
      <3> HIDE DEF S
      <3> QED
        BY <2>1
    <2> HIDE DEF s
    <2> QED
      BY <2>2
  <1> HIDE DEF s
  <1>2. SortName(s.field)[1] = "sort"
    BY <1>1, FirstWord DEF SortName
  <1> DEFINE w == <<"sort">>
             a == AliasWords(s.chain)
  <1>3. IsSeq(w) /\ Len(w) = 1 /\ w[1] = "sort"
    BY TupleIsSeq
  <1>4. IsSeq(a)
    <2>1. CASE s.chain = <<>>
      BY <2>1, TupleIsSeq, Zenon DEF AliasWords, EmptyWord
    <2>2. CASE s.chain # <<>>
      <3> DEFINE m == MapSeq(Alias, s.chain)
      <3>1. Len(s.chain) \in Nat /\ m \in [1..Len(s.chain) -> Seq(STRING)]
        BY <1>1, RelationAssumption DEF MapSeq, Alias, Ident
      <3>2. a = FlattenSeq(m)
        BY <2>2, Zenon DEF AliasWords
      <3> HIDE DEF m, a
      <3>3. m \in Seq(Seq(STRING))
        BY <3>1, FunctionIsSeq
      <3>4. FlattenSeq(m) \in Seq(STRING)
        BY <3>3, FlattenSome
      <3> QED
        BY <3>2, <3>4, SeqIsSeq
    <2> QED
      BY <2>1, <2>2
  <1>5. IsSeq(s.field)
    BY <1>1, SeqIsSeq DEF Ident
  <1>6. SortAlias(s) = w \o a \o s.field
    BY DEF SortAlias
  <1> DEFINE x == s.field
             y == w \o a
  <1>7. IsSeq(x) /\ SortAlias(s) = y \o x
    BY <1>5, <1>6
  <1> HIDE DEF w, a, x
  <1>8. IsSeq(y) /\ Len(a) \in Nat /\ DOMAIN y = 1..(Len(w) + Len(a)) /\ \A i \in 1..Len(w) : y[i] = w[i]
    BY <1>3, <1>4, ConcatIsSeq
  <1>9. DOMAIN y = 1..(1 + Len(a)) /\ y[1] = "sort"
    BY <1>3, <1>8
  <1> HIDE DEF y
  <1>10. Len(y) \in Nat /\ DOMAIN y = 1..Len(y) /\ \A i \in 1..Len(y) : (y \o x)[i] = y[i]
    BY <1>7, <1>8, ConcatIsSeq
  <1>11. 1 \in DOMAIN y
    BY <1>8, <1>9
  <1>12. (y \o x)[1] = "sort"
    BY <1>9, <1>10, <1>11
  <1>13. SortAlias(s)[1] = "sort"
    BY <1>7, <1>12
  <1> QED
    BY <1>2, <1>13 DEF s

\* They are none of the columns of a data CTE that is carried with foreign keys
\* and with the sorting elements of its rows.
LEMMA AliasesApart ==
  ASSUME IsRequest(req), ~NamesMeet, NEW additional,
         \A name \in Named(additional) : name[1] = "rel" \/ name \in SortNames(<<>>)
  PROVE  \A k \in DOMAIN req.sort :
           /\ SortAlias(req.sort[k]) \notin SixNames
           /\ \A i \in DOMAIN additional : additional[i].name # SortAlias(req.sort[k])
  <1> SUFFICES ASSUME NEW k \in DOMAIN req.sort
               PROVE  /\ SortAlias(req.sort[k]) \notin SixNames
                      /\ SortAlias(req.sort[k]) \notin Named(additional)
    BY DEF Named
  <1>1. SortAlias(req.sort[k])[1] = "sort"
    BY AliasWord
  <1>2. SortAlias(req.sort[k]) \notin SixNames
    BY <1>1, SixNamed
  <1>3. SortAlias(req.sort[k]) \notin SortNames(<<>>)
    BY DEF NamesMeet, SortNames
  <1>4. "sort" # "rel"
    OBVIOUS
  <1> QED
    BY <1>1, <1>2, <1>3, <1>4

----------------------------------------------------------------------------
(* The data CTEs *)

\* A data CTE of type t is carried with its foreign keys and with the sorting
\* elements of chain c.
CarriedWith(adds, t, c) ==
  AddsFit(adds, t) /\ Named(adds) = Named(RelFields(t)) \cup SortNames(c)

LEMMA AddsForSorts ==
  ASSUME NEW t \in Type, NEW c, NEW sorts, AddsFit(sorts, t), Named(sorts) = SortNames(c),
         \A name \in Named(sorts) : name[1] = "sort"
  PROVE  CarriedWith(RelFields(t) \o sorts, t, c)
  <1>1. AddsFit(RelFields(t), t) /\ \A name \in Named(RelFields(t)) : name[1] = "rel"
    BY RelFieldsFit
  <1>2. Named(RelFields(t)) \cap Named(sorts) = {}
    <2>1. "rel" # "sort"
      OBVIOUS
    <2> QED
      BY <1>1, <2>1
  <1>3. AddsFit(RelFields(t) \o sorts, t) /\ Named(RelFields(t) \o sorts) = Named(RelFields(t)) \cup Named(sorts)
    BY <1>1, <1>2, AddsJoined
  <1> QED
    BY <1>3 DEF CarriedWith

LEMMA AddsForMain ==
  ASSUME IsRequest(req), NamesFields(req), DistinctSorts
  PROVE  MainType(req.path) \in Type
         /\ CarriedWith(RelFields(MainType(req.path)) \o SortKeysForMain(req), MainType(req.path), <<>>)
  <1> DEFINE t == MainType(req.path)
             sorts == SortKeysForMain(req)
  <1>1. t \in Type
    BY RequestTyped, BaseIsBase DEF MainTable
  <1>2. SortedFrom(<<>>, t)
    BY SortedFromTypes
  <1>3. AddsFit(sorts, t) /\ Named(sorts) = SortNames(<<>>) /\ \A name \in Named(sorts) : name[1] = "sort"
    BY <1>2, MainSortsFit
  <1> HIDE DEF t, sorts
  <1>4. CarriedWith(RelFields(t) \o sorts, t, <<>>)
    BY <1>1, <1>3, AddsForSorts
  <1> QED
    BY <1>1, <1>4 DEF t, sorts

\* Such a CTE leads to every relationship of its type.
LEMMA CarriedCte ==
  ASSUME IsRequest(req), ~NamesMeet, NEW b, NamesUnique(b), NEW i \in Positions(b, {"cte"}),
         NEW tbl, NEW stmt, b[i].tbl = tbl, b[i].stmt = stmt, NEW t \in Type, NEW adds,
         DataCte(tbl, stmt, adds, t), NEW c, CarriedWith(adds, t, c)
  PROVE  /\ Carried(b, tbl)
         /\ \A r \in Rel : Relation[r].owner = t => Leads(b, tbl, r)
         /\ ShowsSorts(b, tbl, c)
         /\ c = <<>> => HidesAliases(b, tbl)
  <1>1. /\ Carried(b, tbl)
        /\ \A k \in DOMAIN adds : Shows(b, tbl, adds[k].name)
        /\ \A name : name \notin SixNames /\ (\A k \in DOMAIN adds : adds[k].name # name) => Hides(b, tbl, name)
    BY DataCteShows
  <1>2. \A name \in Named(adds) : Shows(b, tbl, name)
    BY <1>1 DEF Named
  <1>3. Named(adds) = Named(RelFields(t)) \cup SortNames(c)
    BY DEF CarriedWith
  <1>4. /\ \A name \in Named(RelFields(t)) : name[1] = "rel"
        /\ \A r \in Rel : IsManyToOne(r) /\ Relation[r].owner = t => RelName(Relation[r].key) \in Named(RelFields(t))
    BY RelFieldsFit
  <1>5. ASSUME NEW r \in Rel, Relation[r].owner = t PROVE Leads(b, tbl, r)
    <2>1. tbl.type = t
      BY DEF DataCte
    <2>2. IsManyToOne(r) => RelName(Relation[r].key) \in Named(adds)
      BY <1>3, <1>4, <1>5
    <2> QED
      BY <1>2, <1>5, <2>1, <2>2 DEF Leads
  <1>6. ShowsSorts(b, tbl, c)
    <2> SUFFICES ASSUME NEW k \in DOMAIN req.sort, req.sort[k].chain = c
                 PROVE  Shows(b, tbl, SortName(req.sort[k].field))
      BY DEF ShowsSorts
    <2>1. SortName(req.sort[k].field) \in SortNames(c)
      BY DEF SortNames
    <2> QED
      BY <1>2, <1>3, <2>1
  <1>7. ASSUME c = <<>> PROVE HidesAliases(b, tbl)
    <2>1. \A name \in Named(adds) : name[1] = "rel" \/ name \in SortNames(<<>>)
      BY <1>3, <1>4, <1>7
    <2>2. \A k \in DOMAIN req.sort :
            /\ SortAlias(req.sort[k]) \notin SixNames
            /\ \A j \in DOMAIN adds : adds[j].name # SortAlias(req.sort[k])
      BY <2>1, AliasesApart
    <2> QED
      BY <1>1, <2>2 DEF HidesAliases
  <1> QED
    BY <1>1, <1>5, <1>6, <1>7

\* The main data is held by its data CTE.
LEMMA MainIsHeld ==
  ASSUME IsRequest(req), NamesFields(req), Fit, ~WritesRel, NEW b, NamesUnique(b),
         NEW i \in Positions(b, {"cte"}), NEW tbl, NEW stmt, b[i].tbl = tbl, b[i].stmt = stmt,
         NEW adds, DataCte(tbl, stmt, adds, MainType(req.path)), CarriedWith(adds, MainType(req.path), <<>>)
  PROVE  MainHeld(b, tbl)
  <1> DEFINE t == MainType(req.path)
  <1>1. t \in Type
    BY AddsForMain DEF Fit, PlainSorts
  <1>2. /\ Carried(b, tbl)
        /\ \A r \in Rel : Relation[r].owner = t => Leads(b, tbl, r)
        /\ ShowsSorts(b, tbl, <<>>)
        /\ HidesAliases(b, tbl)
    BY <1>1, CarriedCte DEF Fit
  <1>3. RowsType = t
    BY DEF RowsType
  <1>4. \A c \in TargetChains : c # <<>> => c[1] \in Rel /\ Relation[c[1]].owner = t
    BY <1>3, ChainsFrom
  <1> QED
    BY <1>2, <1>4 DEF MainHeld

LEMMA MapsHeld ==
  /\ ~WritesRel => MapHeld(BuildInclusionMap(req)) /\ MapHeld(Unwanted(BuildInclusionMap(req)))
  /\ WritesRel => \A resp : MapHeld([c \in {req.path.rels} |-> [resp |-> resp, sorts |-> Reverse(SortsOf(req, <<>>))]])
  <1>1. ASSUME ~WritesRel PROVE MapHeld(BuildInclusionMap(req))
    BY <1>1 DEF MapHeld, SortedFor, SortedAs, TargetChains, BuildInclusionMap
  <1>2. ASSUME ~WritesRel PROVE MapHeld(Unwanted(BuildInclusionMap(req)))
    <2> DEFINE map == BuildInclusionMap(req)
    <2>1. DOMAIN Unwanted(map) = DOMAIN map /\ \A c \in DOMAIN map : Unwanted(map)[c].sorts = map[c].sorts
      BY DEF Unwanted, BuildInclusionMap
    <2>2. MapHeld(map)
      BY <1>1, <1>2
    <2> HIDE DEF map
    <2>3. MapHeld(Unwanted(map))
      BY <2>1, <2>2 DEF MapHeld
    <2> QED
      BY <2>3 DEF map
  <1>3. ASSUME WritesRel, NEW resp
        PROVE  MapHeld([c \in {req.path.rels} |-> [resp |-> resp, sorts |-> Reverse(SortsOf(req, <<>>))]])
    BY <1>3 DEF MapHeld, SortedFor, SortedAs, TargetChains
  <1> QED
    BY <1>1, <1>2, <1>3

----------------------------------------------------------------------------
(* The steps that begin *)

\* The tables of the path, at the two ends of its relationship or at its one
\* end.
LEMMA PathTables ==
  ASSUME IsRequest(req)
  PROVE  /\ MainTable = BaseTable(MainType(req.path)) /\ MainTable.type = MainType(req.path)
         /\ PathTable.type = req.path.type /\ PathTable.type \in Type /\ MainTable.type \in Type
         /\ \A b : \A col \in BaseColumns(MainTable.type) : Shows(b, MainTable, col)
         /\ \A b : \A col \in BaseColumns(PathTable.type) : Shows(b, PathTable, col)
         /\ req.path.rels = <<>> => PathTable = MainTable
         /\ req.path.kind \in {"TypeIdRelated", "TypeIdRelationship"} =>
              /\ PathRel \in Rel /\ RelatedType(PathRel) = MainType(req.path) /\ req.path.rels # <<>>
              /\ PathTable = BaseTable(Relation[PathRel].owner)
         /\ req.path.kind \notin {"TypeIdRelated", "TypeIdRelationship"} => req.path.rels = <<>>
  <1>1. IsBase(MainTable) /\ IsBase(PathTable) /\ PathTable.type \in Type /\ MainTable.type \in Type
    BY RequestTyped
  <1>2. MainTable = BaseTable(MainType(req.path)) /\ PathTable = BaseTable(req.path.type)
    BY DEF MainTable, PathTable
  <1>3. MainTable.type = MainType(req.path) /\ PathTable.type = req.path.type
    BY <1>2, BaseIsBase
  <1>4. /\ \A b : \A col \in BaseColumns(MainTable.type) : Shows(b, MainTable, col)
        /\ \A b : \A col \in BaseColumns(PathTable.type) : Shows(b, PathTable, col)
    BY <1>1, BaseShows
  <1>5. req.path.rels = <<>> => PathTable = MainTable
    BY <1>2 DEF MainType
  <1>6. ASSUME req.path.kind \in {"TypeIdRelated", "TypeIdRelationship"}
        PROVE  /\ PathRel \in Rel /\ RelatedType(PathRel) = MainType(req.path) /\ req.path.rels # <<>>
               /\ PathTable = BaseTable(Relation[PathRel].owner)
    <2>1. req.path.rels \in Seq(Rel) /\ Len(req.path.rels) = 1 /\ PathRel \in Rel
      BY <1>6, PathRelTyped
    <2>2. req.path.rels # <<>> /\ 1 \in DOMAIN req.path.rels
      BY <2>1
    <2>3. Relation[PathRel].owner = req.path.type
      BY <2>2 DEF IsRequest, IsChain, PathRel
    <2> QED
      BY <1>2, <2>1, <2>2, <2>3 DEF MainType, PathRel
  <1>7. ASSUME req.path.kind \notin {"TypeIdRelated", "TypeIdRelationship"} PROVE req.path.rels = <<>>
    <2>1. req.path.rels \in Seq(Rel) /\ Len(req.path.rels) = 0
      BY <1>7 DEF IsRequest, IsChain
    <2> QED
      BY <2>1
  <1> QED
    BY <1>1, <1>2, <1>3, <1>4, <1>5, <1>6, <1>7

\* The types at both ends of every link that is followed are among those the
\* request is about.
LEMMA LinksSeen ==
  ASSUME IsRequest(req)
  PROVE  /\ PathTable.type \in TypesSeen /\ MainTable.type \in TypesSeen
         /\ \A c \in TargetChains : \A i \in 1..Len(c) :
              RelatedType(c[i]) \in TypesSeen /\ Relation[c[i]].owner \in TypesSeen
  <1>1. req.path.type \in TypesSeen /\ MainType(req.path) \in TypesSeen
    BY DEF TypesSeen
  <1>2. PathTable.type = req.path.type /\ MainTable.type = MainType(req.path)
    BY PathTables
  <1>3. ASSUME NEW c \in TargetChains PROVE \A i \in 1..Len(c) : RelatedType(c[i]) \in TypesSeen
    <2>1. CASE WritesRel
      <3>1. c = req.path.rels /\ Len(c) = 1 /\ DOMAIN c = 1..1
        BY <2>1, ChainsFrom DEF TargetChains
      <3>2. MainType(req.path) = RelatedType(c[1])
        BY <3>1, PathTables DEF MainType, WritesRel
      <3> QED
        BY <1>1, <3>1, <3>2
    <2>2. CASE ~WritesRel
      <3>1. c \in req.include \cup SortChains(req) /\ DOMAIN c = 1..Len(c)
        BY <2>2, ChainsFrom
      <3> QED
        BY <3>1 DEF TypesSeen, ToSet
    <2> QED
      BY <2>1, <2>2
  <1>4. ASSUME NEW c \in TargetChains, NEW i \in 1..Len(c) PROVE Relation[c[i]].owner \in TypesSeen
    <2>1. c \in Seq(Rel) /\ Relation[c[i]].owner = IF i = 1 THEN RowsType ELSE RelatedType(c[i - 1])
      BY ChainsFrom DEF IsChain
    <2>2. CASE i = 1
      BY <1>1, <2>1, <2>2 DEF RowsType
    <2>3. CASE i # 1
      <3>1. i - 1 \in 1..Len(c)
        BY <2>1, <2>3
      <3> QED
        BY <1>3, <2>1, <2>3, <3>1
    <2> QED
      BY <2>2, <2>3
  <1> QED
    BY <1>1, <1>2, <1>3, <1>4

\* So their keys are plain.
LEMMA KeysSeen ==
  ASSUME IsRequest(req), PlainKeys
  PROVE  /\ PlainKey(PathTable.type) /\ PlainKey(MainTable.type)
         /\ \A c \in TargetChains : \A i \in 1..Len(c) :
              PlainKey(RelatedType(c[i])) /\ PlainKey(Relation[c[i]].owner)
  BY LinksSeen DEF PlainKeys

\* A filter on the row of the path.
LEMMA PathFilter ==
  ASSUME IsRequest(req), PlainKeys, NEW b, NEW tbls, NEW n
  PROVE  /\ PathTable \in tbls => WhereReads(b, ComparePkey(PathTable, n), tbls)
         /\ MainTable \in tbls => WhereReads(b, ComparePkey(MainTable, n), tbls)
  <1>1. PlainKey(PathTable.type) /\ PlainKey(MainTable.type)
    BY KeysSeen
  <1>2. Id \in BaseColumns(PathTable.type) /\ Id \in BaseColumns(MainTable.type)
    BY <1>1, KeysArePlain DEF HasPlainKey
  <1>3. Shows(b, PathTable, Id) /\ Shows(b, MainTable, Id)
    BY <1>2, PathTables
  <1> QED
    BY <1>1, <1>3, FilterReads

\* The first CTE of a read joins the table its path begins at to the main one.
LEMMA PathJoins ==
  ASSUME IsRequest(req), PlainKeys, ~SelfJoined, req.op = "read",
         req.path.kind \in {"TypeIdRelated", "TypeIdRelationship"}, NEW b, NEW stmt,
         stmt.from = MainTable, stmt.joins = GenInnerJoin(PathRel, PathTable, MainTable)
  PROVE  JoinsFit(b, stmt) /\ {MainTable, PathTable} \subseteq Seen(stmt)
  <1>1. /\ PathRel \in Rel /\ RelatedType(PathRel) = MainType(req.path) /\ req.path.rels # <<>>
        /\ PathTable = BaseTable(Relation[PathRel].owner)
        /\ MainTable = BaseTable(MainType(req.path))
        /\ MainTable.type = MainType(req.path) /\ PathTable.type = req.path.type
    BY PathTables
  <1>2. PathTable # MainTable
    BY <1>1 DEF SelfJoined
  <1>3. FollowedFrom(b, PathTable, PathRel)
    BY <1>1 DEF FollowedFrom
  <1>4. stmt.from = BaseTable(RelatedType(PathRel))
    BY <1>1
  <1> DEFINE r == PathRel
             left == PathTable
  <1>5. /\ r \in Rel /\ FollowedFrom(b, left, r) /\ stmt.from = BaseTable(RelatedType(r))
        /\ left # stmt.from /\ stmt.joins = GenInnerJoin(r, left, stmt.from)
    BY <1>1, <1>2, <1>3, <1>4
  <1>6. PlainKey(Relation[r].owner) /\ PlainKey(RelatedType(r))
    BY <1>1, KeysSeen DEF BaseTable
  <1> HIDE DEF r, left
  <1>7. JoinsFit(b, stmt) /\ {stmt.from, left} \subseteq Seen(stmt)
    BY <1>5, <1>6, InnerJoinsFit
  <1> QED
    BY <1>7 DEF left

\* Where the CTEs that are written are in the buffer.
CteAt(b, tbl, stmt) == \E i \in Positions(b, {"cte"}) : b[i].tbl = tbl /\ b[i].stmt = stmt
LEMMA CteAfter ==
  ASSUME NEW b, NEW toks, IsSeq(b), IsSeq(toks), NEW j \in Positions(toks, {"cte"})
  PROVE  CteAt(b \o toks, toks[j].tbl, toks[j].stmt)
  <1> DEFINE c == b \o toks
  <1>1. \A k \in Positions(toks, {"cte"}) : Len(b) + k \in Positions(c, {"cte"}) /\ c[Len(b) + k] = toks[k]
    BY PositionsAfter
  <1> DEFINE n == Len(b) + j
  <1>2. n \in Positions(c, {"cte"}) /\ c[n] = toks[j]
    BY <1>1
  <1> HIDE DEF n, c
  <1>3. CteAt(c, toks[j].tbl, toks[j].stmt)
    BY <1>2 DEF CteAt
  <1> QED
    BY <1>3 DEF c

\* One CTE is added, or two, or nothing but a CTE.
LEMMA AddsOne ==
  ASSUME IsSeq(buf), NEW sep \in {With, Comma}, NEW tbl, NEW stmt, buf' = buf \o <<sep, Cte(tbl, stmt)>>
  PROVE  /\ CteAt(buf', tbl, stmt)
         /\ NamesUnique(buf') => tbl \notin Ctes(buf)
         /\ StmtReads(buf', stmt) /\ stmt.q # "final" => Adds(<<sep, Cte(tbl, stmt)>>)
  <1> DEFINE tok == Cte(tbl, stmt)
             toks == <<sep, tok>>
  <1>1. sep.t \in {"with", "comma"}
    BY DEF With, Comma
  <1>2. tok.t = "cte" /\ tok.tbl = tbl /\ tok.stmt = stmt
    BY DEF Cte
  <1>3. buf' = buf \o toks
    OBVIOUS
  <1> HIDE DEF tok
  <1>4. IsSeq(toks) /\ DOMAIN toks = {1, 2} /\ toks[1] = sep /\ toks[2] = tok
    BY TupleIsSeq
  <1> HIDE DEF toks
  <1>5. /\ Positions(toks, {"cte"}) = {2} /\ Positions(toks, {"cte", "write"}) = {2}
        /\ Positions(toks, {"select"}) = {}
    BY <1>1, <1>2, <1>4 DEF Positions
  <1>6. CteAt(buf \o toks, toks[2].tbl, toks[2].stmt)
    BY <1>4, <1>5, CteAfter
  <1>7. NamesUnique(buf \o toks) => toks[2].tbl \notin Ctes(buf)
    BY <1>4, <1>5, NewTable
  <1>8. ASSUME StmtReads(buf', stmt), stmt.q # "final" PROVE Adds(toks)
    BY <1>2, <1>3, <1>4, <1>5, <1>8 DEF Adds
  <1> QED
    BY <1>2, <1>3, <1>4, <1>6, <1>7, <1>8 DEF toks, tok

LEMMA AddsTwo ==
  ASSUME IsSeq(buf), NEW tbl, NEW stmt, NEW tbl2, NEW stmt2,
         buf' = buf \o <<With, Cte(tbl, stmt), Comma, Cte(tbl2, stmt2)>>
  PROVE  /\ CteAt(buf', tbl, stmt) /\ CteAt(buf', tbl2, stmt2)
         /\ StmtReads(buf', stmt) /\ stmt.q # "final" /\ StmtReads(buf', stmt2) /\ stmt2.q # "final" =>
              Adds(<<With, Cte(tbl, stmt), Comma, Cte(tbl2, stmt2)>>)
  <1> DEFINE x == With
             a == Cte(tbl, stmt)
             y == Comma
             b == Cte(tbl2, stmt2)
             toks == <<x, a, y, b>>
  <1>1. x.t = "with" /\ y.t = "comma"
    BY DEF With, Comma
  <1>2. a.t = "cte" /\ a.tbl = tbl /\ a.stmt = stmt /\ b.t = "cte" /\ b.tbl = tbl2 /\ b.stmt = stmt2
    BY DEF Cte
  <1>3. buf' = buf \o toks
    OBVIOUS
  <1> HIDE DEF a, b, x, y
  <1>4. IsSeq(toks) /\ DOMAIN toks = {1, 2, 3, 4} /\ toks[1] = x /\ toks[2] = a /\ toks[3] = y /\ toks[4] = b
    BY TupleIsSeq
  <1> HIDE DEF toks
  <1>5. /\ Positions(toks, {"cte"}) = {2, 4} /\ Positions(toks, {"cte", "write"}) = {2, 4}
        /\ Positions(toks, {"select"}) = {}
    <2>1. toks[1].t = "with" /\ toks[2].t = "cte" /\ toks[3].t = "comma" /\ toks[4].t = "cte"
      BY <1>1, <1>2, <1>4
    <2>2. Positions(toks, {"cte"}) = {2, 4}
      BY <1>4, <2>1 DEF Positions
    <2>3. Positions(toks, {"cte", "write"}) = {2, 4}
      BY <1>4, <2>1 DEF Positions
    <2>4. Positions(toks, {"select"}) = {}
      BY <1>4, <2>1 DEF Positions
    <2> QED
      BY <2>2, <2>3, <2>4
  <1>6. CteAt(buf \o toks, toks[2].tbl, toks[2].stmt) /\ CteAt(buf \o toks, toks[4].tbl, toks[4].stmt)
    BY <1>4, <1>5, CteAfter
  <1>7. ASSUME StmtReads(buf', stmt), stmt.q # "final", StmtReads(buf', stmt2), stmt2.q # "final"
        PROVE  Adds(toks)
    BY <1>2, <1>3, <1>4, <1>5, <1>7 DEF Adds
  <1> QED
    BY <1>2, <1>3, <1>4, <1>6, <1>7 DEF toks, a, b, x, y

LEMMA GenSelectHeld ==
  ASSUME IInv, IInv', NamesFields(req), Fit, ColumnsHeld, GenSelect
  PROVE  ColumnsHeld'
  <1> DEFINE t == MainTable.type
             fields == JsonFields(req.sparse, t, TRUE)
             data == ToCte(t, "plain", "data", cte_index)
             pushed == SelectParams(t, <<>>, fields)
             related == req.path.kind = "TypeIdRelated"
             joins == IF related THEN GenInnerJoin(PathRel, PathTable, MainTable) ELSE <<>>
             where == IF req.path.kind = "Type" THEN <<>> ELSE ComparePkey(PathTable, Len(pushed))
             adds == RelFields(t) \o SortKeysForMain(req)
             stmt == DataStmt(MainTable, adds, <<>>, fields, 0, joins, where)
             map == BuildInclusionMap(req)
  <1>1. /\ pc = "start" /\ req.op = "read" /\ req.path.kind # "TypeIdRelationship" /\ SelectError = "none"
        /\ buf' = buf \o <<With, Cte(data, stmt)>>
        /\ SelectRelsFrom(data, map)
    BY DEF GenSelect, DataStmt
  <1>2. IsRequest(req) /\ IsSeq(buf) /\ NamesUnique(buf') /\ ~WritesRel
    BY <1>1 DEF IInv, BufferInv, CteNamesUnique, WritesRel
  <1>3. /\ t = MainType(req.path) /\ t \in Type
        /\ \A col \in BaseColumns(t) : Shows(buf', MainTable, col)
    BY <1>2, PathTables
  <1>4. data.is_cte /\ data.type = t
    BY DEF ToCte
  <1>5. FieldsFit(fields, t)
    BY <1>1, <1>2, <1>3, EachCheckPassed, FieldsChecked
  <1>6. CarriedWith(adds, t, <<>>)
    BY <1>2, <1>3, AddsForMain DEF Fit, PlainSorts
  <1> HIDE DEF fields, adds, data, pushed
  <1>7. stmt.from = MainTable /\ stmt.joins = joins
    BY DEF DataStmt, Stmt
  <1>8. JoinsFit(buf', stmt) /\ MainTable \in Seen(stmt) /\ (req.path.kind # "Type" => PathTable \in Seen(stmt))
    <2>1. CASE related
      <3>1. stmt.joins = GenInnerJoin(PathRel, PathTable, MainTable)
        BY <1>7, <2>1
      <3> HIDE DEF stmt
      <3> QED
        BY <1>1, <1>2, <1>7, <2>1, <3>1, PathJoins DEF Fit
    <2>2. CASE ~related
      <3>1. stmt.joins = <<>>
        BY <1>7, <2>2
      <3>2. req.path.rels = <<>>
        BY <1>1, <1>2, <2>2, PathTables
      <3>3. PathTable = MainTable
        BY <1>2, <3>2, PathTables
      <3> HIDE DEF stmt
      <3>4. JoinsFit(buf', stmt) /\ Seen(stmt) = {MainTable}
        BY <1>7, <3>1, NoJoins
      <3> QED
        BY <3>3, <3>4
    <2> QED
      BY <2>1, <2>2
  <1>9. WhereReads(buf', where, Seen(stmt))
    <2> HIDE DEF stmt
    <2>1. CASE req.path.kind = "Type"
      BY <2>1, NothingRead
    <2>2. CASE req.path.kind # "Type"
      BY <1>2, <1>8, <2>2, PathFilter DEF Fit
    <2> QED
      BY <2>1, <2>2
  <1>10. HeadReads(buf', <<>>, Seen(stmt))
    BY DEF HeadReads
  <1> HIDE DEF joins, where
  <1>11. StmtReads(buf', stmt) /\ stmt.q = "select" /\ DataColumns(stmt.outs, adds)
    <2>1. AddsFit(adds, t) /\ stmt = DataStmt(MainTable, adds, <<>>, fields, 0, joins, where)
      BY <1>6 DEF CarriedWith
    <2> HIDE DEF stmt
    <2> QED
      BY <1>2, <1>3, <1>5, <1>8, <1>9, <1>10, <2>1, KeysSeen, DataStmtReads DEF Fit
  <1> HIDE DEF stmt
  <1> DEFINE toks == <<With, Cte(data, stmt)>>
  <1>12. CteAt(buf', data, stmt) /\ (StmtReads(buf', stmt) /\ stmt.q # "final" => Adds(toks))
    BY <1>1, <1>2, AddsOne
  <1> HIDE DEF toks
  <1>13. Adds(toks)
    BY <1>11, <1>12
  <1>14. MainHeld(buf', data)
    <2>1. PICK i \in Positions(buf', {"cte"}) : buf'[i].tbl = data /\ buf'[i].stmt = stmt
      BY <1>12 DEF CteAt
    <2>2. DataCte(data, stmt, adds, MainType(req.path)) /\ CarriedWith(adds, MainType(req.path), <<>>)
      BY <1>3, <1>4, <1>6, <1>11 DEF DataCte, CarriedWith
    <2> QED
      BY <1>2, <2>1, <2>2, MainIsHeld
  <1>15. MapHeld(map)
    BY <1>2, MapsHeld
  <1> HIDE DEF map
  <1> QED
    BY <1>1, <1>13, <1>14, <1>15, BeginHeld

LEMMA NoFields ==
  ASSUME NEW t
  PROVE  FieldsFit(<<>>, t)
  <1>1. <<>> \in Seq(Ident)
    OBVIOUS
  <1>2. ~UnknownField(<<>>, t)
    BY DEF UnknownField
  <1> QED
    BY <1>1, <1>2 DEF FieldsFit

\* The related rows, and the row they are related to.
LEMMA GenSelectRelationshipsHeld ==
  ASSUME IInv, IInv', NamesFields(req), Fit, ColumnsHeld, GenSelectRelationships
  PROVE  ColumnsHeld'
  <1> DEFINE t == MainTable.type
             u == PathTable.type
             data == ToCte(t, "plain", "data", cte_index)
             owner == ToCte(u, "rel", "data", cte_index + 1)
             relating == <<[tbl |-> PathTable, chain |-> req.path.rels]>>
             pushed == SelectParams(t, relating, <<>>)
             n == Len(pushed) + Len(PrimaryKey(u))
             m == n + Len(SelectParams(u, <<>>, <<>>))
             adds == RelFields(t) \o SortKeysForMain(req)
             joins == GenInnerJoin(PathRel, PathTable, MainTable)
             where == ComparePkey(PathTable, Len(pushed))
             where2 == ComparePkey(PathTable, m)
             a == DataStmt(MainTable, adds, relating, <<>>, 0, joins, where)
             b == DataStmt(PathTable, RelFields(u), <<>>, <<>>, n, <<>>, where2)
             map == Unwanted(BuildInclusionMap(req))
  <1>1. /\ pc = "start" /\ req.op = "read" /\ req.path.kind = "TypeIdRelationship"
        /\ buf' = buf \o <<With, Cte(data, a), Comma, Cte(owner, b)>>
        /\ SelectRelsFrom(data, map)
    BY DEF GenSelectRelationships, DataStmt
  <1>2. IsRequest(req) /\ IsSeq(buf) /\ NamesUnique(buf') /\ ~WritesRel
    BY <1>1 DEF IInv, BufferInv, CteNamesUnique, WritesRel
  <1>3. /\ t = MainType(req.path) /\ t \in Type /\ u \in Type
        /\ \A col \in BaseColumns(t) : Shows(buf', MainTable, col)
        /\ \A col \in BaseColumns(u) : Shows(buf', PathTable, col)
    BY <1>2, PathTables
  <1>4. data.is_cte /\ data.type = t
    BY DEF ToCte
  <1>5. FieldsFit(<<>>, t) /\ FieldsFit(<<>>, u)
    BY NoFields
  <1>6. CarriedWith(adds, t, <<>>) /\ AddsFit(RelFields(u), u)
    BY <1>2, <1>3, AddsForMain, RelFieldsFit DEF Fit, PlainSorts
  <1>7. relating # <<>> /\ relating[1].tbl = PathTable
    OBVIOUS
  <1> HIDE DEF adds, data, owner, pushed, n, m, relating
  <1>8. a.from = MainTable /\ a.joins = joins /\ b.from = PathTable /\ b.joins = <<>>
    BY DEF DataStmt, Stmt
  <1>9. JoinsFit(buf', a) /\ {MainTable, PathTable} \subseteq Seen(a)
    <2> HIDE DEF a
    <2> QED
      BY <1>1, <1>2, <1>8, PathJoins DEF Fit
  <1>10. JoinsFit(buf', b) /\ Seen(b) = {PathTable}
    <2> HIDE DEF b
    <2> QED
      BY <1>8, NoJoins
  <1>11. WhereReads(buf', where, Seen(a)) /\ WhereReads(buf', where2, Seen(b))
    <2>1. PathTable \in Seen(a) /\ PathTable \in Seen(b)
      BY <1>9, <1>10
    <2> HIDE DEF a, b
    <2> QED
      BY <1>2, <2>1, PathFilter DEF Fit
  <1>12. HeadReads(buf', relating, Seen(a)) /\ HeadReads(buf', <<>>, Seen(b))
    <2>1. Id \in BaseColumns(u)
      BY <1>2, KeysSeen, KeysArePlain DEF Fit, HasPlainKey
    <2>2. ReadsRef(buf', Ref(PathTable, Id), Seen(a))
      BY <1>3, <1>9, <2>1, RefsOfJoins DEF ReadsRef
    <2> HIDE DEF a, b
    <2> QED
      BY <1>2, <1>7, <2>2, KeysSeen DEF HeadReads, Fit
  <1> HIDE DEF joins, where, where2
  <1>13. StmtReads(buf', a) /\ a.q = "select" /\ DataColumns(a.outs, adds)
    <2>1. AddsFit(adds, t) /\ a = DataStmt(MainTable, adds, relating, <<>>, 0, joins, where)
      BY <1>6 DEF CarriedWith
    <2> HIDE DEF a
    <2> QED
      BY <1>2, <1>3, <1>5, <1>9, <1>11, <1>12, <2>1, KeysSeen, DataStmtReads DEF Fit
  <1>14. StmtReads(buf', b) /\ b.q = "select"
    <2>1. b = DataStmt(PathTable, RelFields(u), <<>>, <<>>, n, <<>>, where2)
      OBVIOUS
    <2> HIDE DEF b
    <2> QED
      BY <1>2, <1>3, <1>5, <1>6, <1>10, <1>11, <1>12, <2>1, KeysSeen, DataStmtReads DEF Fit
  <1> HIDE DEF a, b
  <1> DEFINE toks == <<With, Cte(data, a), Comma, Cte(owner, b)>>
  <1>15. /\ CteAt(buf', data, a)
         /\ StmtReads(buf', a) /\ a.q # "final" /\ StmtReads(buf', b) /\ b.q # "final" => Adds(toks)
    BY <1>1, <1>2, AddsTwo
  <1> HIDE DEF toks
  <1>16. Adds(toks)
    BY <1>13, <1>14, <1>15
  <1>17. MainHeld(buf', data)
    <2>1. PICK i \in Positions(buf', {"cte"}) : buf'[i].tbl = data /\ buf'[i].stmt = a
      BY <1>15 DEF CteAt
    <2>2. DataCte(data, a, adds, MainType(req.path)) /\ CarriedWith(adds, MainType(req.path), <<>>)
      BY <1>3, <1>4, <1>6, <1>13 DEF DataCte, CarriedWith
    <2> QED
      BY <1>2, <2>1, <2>2, MainIsHeld
  <1>18. MapHeld(map)
    BY <1>2, MapsHeld
  <1> HIDE DEF map
  <1> QED
    BY <1>1, <1>16, <1>17, <1>18, BeginHeld

\* What is written is read by the data CTE, which is the main data when its
\* columns are those the chains to come need.
LEMMA WriteThenSelectHeld ==
  ASSUME IInv, IInv', NamesFields(req), Fit, ColumnsHeld, pc = "start",
         NEW t \in Type, PlainKey(t), NEW suffix, NEW stmt, NEW written, NEW additional, NEW map,
         WriteThenSelect(t, suffix, stmt, written, additional, map),
         JsonError(t, TRUE) = "none", stmt.q \notin {"select", "final"}, StmtReads(buf', stmt),
         AddsFit(additional, t), MapHeld(map),
         \A tbl, from : DataCte(tbl, from, additional, t) /\ CteAt(buf', tbl, from) => MainHeld(buf', tbl)
  PROVE  ColumnsHeld'
  <1> DEFINE row == ToCte(t, "plain", suffix, cte_index)
             data == ToCte(t, "plain", "data", cte_index + 1)
             fields == JsonFields(req.sparse, t, TRUE)
             b == DataStmt(row, additional, <<>>, fields, Len(written), <<>>, <<>>)
  <1>1. row.is_cte /\ row.type = t /\ data.is_cte /\ data.type = t
    BY DEF ToCte
  <1>2. /\ buf' = buf \o <<With, Cte(row, stmt), Comma, Cte(data, b)>>
        /\ SelectRelsFrom(data, map)
    BY <1>1 DEF WriteThenSelect, DataStmt
  <1>3. IsRequest(req) /\ IsSeq(buf) /\ NamesUnique(buf')
    BY DEF IInv, BufferInv, CteNamesUnique
  <1>4. FieldsFit(fields, t)
    BY <1>3, FieldsChecked
  <1> HIDE DEF row, data, fields
  <1>5. b.from = row /\ b.joins = <<>>
    BY DEF DataStmt, Stmt
  <1> HIDE DEF b
  <1> DEFINE toks == <<With, Cte(row, stmt), Comma, Cte(data, b)>>
  <1>6. /\ CteAt(buf', row, stmt) /\ CteAt(buf', data, b)
        /\ StmtReads(buf', stmt) /\ stmt.q # "final" /\ StmtReads(buf', b) /\ b.q # "final" => Adds(toks)
    BY <1>2, <1>3, AddsTwo
  <1> HIDE DEF toks
  <1>7. \A col \in BaseColumns(row.type) : Shows(buf', row, col)
    <2>1. PICK i \in Positions(buf', {"cte"}) : buf'[i].tbl = row /\ buf'[i].stmt = stmt
      BY <1>6 DEF CteAt
    <2> QED
      BY <1>1, <1>3, <2>1, RowShows
  <1>8. JoinsFit(buf', b)
    BY <1>5, NoJoins
  <1>9. HeadReads(buf', <<>>, Seen(b)) /\ WhereReads(buf', <<>>, Seen(b))
    BY NothingRead DEF HeadReads
  <1>10. StmtReads(buf', b) /\ b.q = "select" /\ DataColumns(b.outs, additional)
    <2>1. b = DataStmt(row, additional, <<>>, fields, Len(written), <<>>, <<>>)
      BY DEF b
    <2>2. row.type \in Type /\ PlainKey(row.type) /\ AddsFit(additional, row.type) /\ FieldsFit(fields, row.type)
      BY <1>1, <1>4
    <2> QED
      BY <1>7, <1>8, <1>9, <2>1, <2>2, DataStmtReads DEF Fit
  <1>11. Adds(toks)
    BY <1>6, <1>10
  <1>12. MainHeld(buf', data)
    BY <1>1, <1>6, <1>10 DEF DataCte
  <1> QED
    BY <1>2, <1>11, <1>12, BeginHeld

\* The rows of the main type that are written are carried like those that are
\* read.
LEMMA WriteMainHeld ==
  ASSUME IInv, IInv', NamesFields(req), Fit, ColumnsHeld, pc = "start", ~WritesRel,
         NEW suffix, NEW stmt, NEW written, NEW additional,
         WriteThenSelect(MainType(req.path), suffix, stmt, written, additional, BuildInclusionMap(req)),
         additional = RelFields(MainType(req.path)) \o SortKeysForMain(req),
         JsonError(MainType(req.path), TRUE) = "none", stmt.q \notin {"select", "final"}, StmtReads(buf', stmt)
  PROVE  ColumnsHeld'
  <1> DEFINE t == MainType(req.path)
  <1>1. IsRequest(req) /\ NamesUnique(buf')
    BY DEF IInv, BufferInv, CteNamesUnique
  <1>2. t \in Type /\ CarriedWith(additional, t, <<>>) /\ PlainKey(t)
    BY <1>1, AddsForMain DEF Fit, PlainSorts, PlainKeys, TypesSeen
  <1>3. AddsFit(additional, t)
    BY <1>2 DEF CarriedWith
  <1>4. ASSUME NEW tbl, NEW from, DataCte(tbl, from, additional, t), CteAt(buf', tbl, from)
        PROVE  MainHeld(buf', tbl)
    <2>1. PICK i \in Positions(buf', {"cte"}) : buf'[i].tbl = tbl /\ buf'[i].stmt = from
      BY <1>4 DEF CteAt
    <2> QED
      BY <1>1, <1>2, <1>4, <2>1, MainIsHeld
  <1>5. MapHeld(BuildInclusionMap(req))
    BY MapsHeld
  <1> DEFINE map == BuildInclusionMap(req)
  <1>6. WriteThenSelect(t, suffix, stmt, written, additional, map) /\ MapHeld(map) /\ JsonError(t, TRUE) = "none"
    BY <1>5
  <1> HIDE DEF t, map
  <1> QED
    BY <1>2, <1>3, <1>4, <1>6, WriteThenSelectHeld

----------------------------------------------------------------------------
(* What is written *)

\* The attributes of the body of a creation, or of a write to the main data,
\* are those of the main type.
LEMMA BodyFits ==
  ASSUME IsRequest(req), NamesFields(req), req.op = "create" \/ req.path.rels = <<>>
  PROVE  LET data == ExtractData(req.body, MainType(req.path)) IN
         ValuesFit(data.values, MainType(req.path)) /\ data.fields = RelFields(MainType(req.path))
  <1>1. MainType(req.path) \in Type
    BY PathTables
  <1>2. AttrsFit(req.body.attrs, MainType(req.path))
    BY DEF IsRequest, NamesFields, AttrsFit
  <1> QED
    BY <1>1, <1>2, ExtractedFit

\* A statement that writes columns that are there reads nothing else than the
\* key it filters on.
LEMMA WriteReads ==
  ASSUME IsRequest(req), PlainKeys, NEW tbl \in {MainTable, PathTable}, NEW b, NEW values,
         ValuesFit(values, tbl.type), NEW n
  PROVE  /\ StmtReads(b, Stmt("insert", tbl, <<>>, <<>>, SetList(values, n), <<>>))
         /\ StmtReads(b, UpdateStmt(tbl, values))
         /\ StmtReads(b, Stmt("star", tbl, <<>>, <<>>, <<>>, ComparePkey(tbl, n)))
         /\ StmtReads(b, Stmt("delete", tbl, <<>>, <<>>, <<>>, ComparePkey(tbl, n)))
  <1>1. SetsFit(SetList(values, n), tbl.type) /\ SetsFit(SetList(values, 0), tbl.type)
    BY SetsOfValues
  <1>2. WhereReads(b, <<>>, {tbl}) /\ SetsFit(<<>>, tbl.type)
    BY NothingRead
  <1>3. WhereReads(b, ComparePkey(tbl, n), {tbl}) /\ WhereReads(b, ComparePkey(tbl, Len(values)), {tbl})
    BY PathFilter
  <1>4. StmtReads(b, Stmt("insert", tbl, <<>>, <<>>, SetList(values, n), <<>>))
    BY <1>1, <1>2, PlainStmtReads
  <1>5. StmtReads(b, UpdateStmt(tbl, values))
    BY <1>1, <1>3, PlainStmtReads DEF UpdateStmt
  <1>6. StmtReads(b, Stmt("star", tbl, <<>>, <<>>, <<>>, ComparePkey(tbl, n)))
    BY <1>2, <1>3, PlainStmtReads
  <1>7. StmtReads(b, Stmt("delete", tbl, <<>>, <<>>, <<>>, ComparePkey(tbl, n)))
    BY <1>2, <1>3, PlainStmtReads
  <1> QED
    BY <1>4, <1>5, <1>6, <1>7

LEMMA GenInsertHeld ==
  ASSUME IInv, IInv', NamesFields(req), Fit, ColumnsHeld, GenInsert
  PROVE  ColumnsHeld'
  <1> DEFINE t == MainType(req.path)
             data == ExtractData(req.body, t)
             stmt == Stmt("insert", MainTable, <<>>, <<>>, SetList(data.values, 0), <<>>)
             additional == data.fields \o SortKeysForMain(req)
             written == ValueParams(data.values)
  <1>1. IsRequest(req) /\ PlainKeys
    BY DEF IInv, Fit
  <1>2. MainTable.type = t
    BY <1>1, PathTables
  <1>3. /\ pc = "start" /\ req.op = "create" /\ InsertError = "none"
        /\ WriteThenSelect(t, "insert", stmt, written, additional, BuildInclusionMap(req))
    BY <1>2 DEF GenInsert
  <1>4. ValuesFit(data.values, t) /\ data.fields = RelFields(t)
    BY <1>1, <1>3, BodyFits
  <1>5. StmtReads(buf', stmt)
    BY <1>1, <1>2, <1>4, WriteReads
  <1>6. additional = RelFields(MainType(req.path)) \o SortKeysForMain(req)
    BY <1>4
  <1>7. stmt.q \notin {"select", "final"}
    BY DEF Stmt
  <1>8. JsonError(MainType(req.path), TRUE) = "none"
    BY <1>2, <1>3, EachCheckPassed
  <1>9. ~WritesRel
    BY <1>3 DEF WritesRel
  <1>10. WriteThenSelect(MainType(req.path), "insert", stmt, written, additional, BuildInclusionMap(req))
    BY <1>3
  <1> HIDE DEF t, data, stmt, additional, written
  <1> QED
    BY <1>3, <1>5, <1>6, <1>7, <1>8, <1>9, <1>10, WriteMainHeld

LEMMA GenUpdateMainHeld ==
  ASSUME IInv, IInv', NamesFields(req), Fit, ColumnsHeld, GenUpdateMain
  PROVE  ColumnsHeld'
  <1> DEFINE t == MainType(req.path)
             data == ExtractData(req.body, t)
             star == Stmt("star", MainTable, <<>>, <<>>, <<>>, ComparePkey(MainTable, 0))
             stmt == IF data.values = <<>> THEN star ELSE UpdateStmt(MainTable, data.values)
             additional == data.fields \o SortKeysForMain(req)
             written == ValueParams(data.values) \o PkeyParams(t)
  <1>1. IsRequest(req) /\ PlainKeys
    BY DEF IInv, Fit
  <1>2. MainTable.type = t
    BY <1>1, PathTables
  <1>3. /\ pc = "start" /\ WritesMain /\ UpdateMainError = "none"
        /\ WriteThenSelect(t, "update", stmt, written, additional, BuildInclusionMap(req))
    BY <1>2 DEF GenUpdateMain
  <1>4. req.path.rels = <<>> /\ ~WritesRel
    BY <1>1, <1>3, PathTables DEF WritesMain, WritesRel
  <1>5. ValuesFit(data.values, t) /\ data.fields = RelFields(t)
    BY <1>1, <1>4, BodyFits
  <1>6. StmtReads(buf', star) /\ StmtReads(buf', UpdateStmt(MainTable, data.values))
    BY <1>1, <1>2, <1>5, WriteReads
  <1>7. StmtReads(buf', stmt)
    BY <1>6
  <1>8. additional = RelFields(MainType(req.path)) \o SortKeysForMain(req)
    BY <1>5
  <1>9. stmt.q \notin {"select", "final"}
    BY DEF Stmt, UpdateStmt
  <1>10. JsonError(MainType(req.path), TRUE) = "none"
    BY <1>2, <1>3, EachCheckPassed
  <1>11. WriteThenSelect(MainType(req.path), "update", stmt, written, additional, BuildInclusionMap(req))
    BY <1>3
  <1> HIDE DEF t, data, star, stmt, additional, written
  <1> QED
    BY <1>3, <1>4, <1>7, <1>8, <1>9, <1>10, <1>11, WriteMainHeld

\* The row a relationship is written in is carried with the key that is
\* written, and nothing but the related rows is followed from it.
LEMMA GenUpdateRelHeld ==
  ASSUME IInv, IInv', NamesFields(req), Fit, ColumnsHeld, GenUpdateRel
  PROVE  ColumnsHeld'
  <1> DEFINE t == PathTable.type
             data == ExtractRelData(PathRel, req.body.data)
             stmt == UpdateStmt(PathTable, data.values)
             written == ValueParams(data.values) \o PkeyParams(t)
             additional == data.fields
             map == [c \in {req.path.rels} |-> [resp |-> "Id", sorts |-> Reverse(SortsOf(req, <<>>))]]
  <1>1. /\ pc = "start" /\ WritesRel /\ UpdateRelError = "none"
        /\ WriteThenSelect(t, "update", stmt, written, additional, map)
    BY DEF GenUpdateRel
  <1>2. IsRequest(req) /\ PlainKeys /\ SaysWhat /\ NamesUnique(buf')
    BY DEF IInv, Fit, BufferInv, CteNamesUnique
  <1>3. /\ PathRel \in Rel /\ req.path.rels # <<>> /\ t \in Type /\ t = Relation[PathRel].owner
    <2>1. req.path.kind = "TypeIdRelationship"
      BY <1>1 DEF WritesRel
    <2> QED
      BY <1>2, <2>1, PathTables DEF BaseTable
  <1>4. JsonError(t, TRUE) = "none" /\ req.body.kind = "rel" /\ data.err = "none"
    BY <1>1, EachCheckPassed
  <1>5. req.body.data \in {"one", "null"} /\ IsManyToOne(PathRel)
    <2>1. req.body.data \in RelData \ {"omitted"}
      BY <1>2, <1>4 DEF IsRequest
    <2>2. req.body.data # "absent"
      BY <1>1, <1>2 DEF SaysWhat
    <2>3. req.body.data # "many" /\ IsManyToOne(PathRel)
      BY <1>4 DEF ExtractRelData
    <2> QED
      BY <2>1, <2>2, <2>3 DEF RelData
  <1>6. ValuesFit(data.values, t) /\ additional = <<RelField(PathRel)>>
    BY <1>3, <1>5, RelExtractedFit
  <1>7. AddsFit(additional, t) /\ Named(additional) = {RelName(Relation[PathRel].key)}
    BY <1>3, <1>5, <1>6, PathFieldFits
  <1>8. StmtReads(buf', stmt) /\ stmt.q \notin {"select", "final"}
    <2>1. stmt.q = "update"
      BY DEF Stmt, UpdateStmt
    <2> QED
      BY <1>2, <1>6, <2>1, WriteReads
  <1>9. MapHeld(map)
    BY <1>1, MapsHeld
  <1>10. \A c \in TargetChains : c # <<>> => c[1] = PathRel
    BY <1>1 DEF TargetChains, PathRel
  <1>11. PlainKey(t)
    BY <1>2, KeysSeen
  <1> HIDE DEF data, stmt, written, additional, map
  <1>12. ASSUME NEW tbl, NEW from, DataCte(tbl, from, additional, t), CteAt(buf', tbl, from)
         PROVE  MainHeld(buf', tbl)
    <2>1. PICK i \in Positions(buf', {"cte"}) : buf'[i].tbl = tbl /\ buf'[i].stmt = from
      BY <1>12 DEF CteAt
    <2>2. Carried(buf', tbl) /\ \A k \in DOMAIN additional : Shows(buf', tbl, additional[k].name)
      BY <1>2, <1>12, <2>1, DataCteShows
    <2>3. tbl.type = t
      BY <1>12 DEF DataCte
    <2>4. Shows(buf', tbl, RelName(Relation[PathRel].key))
      BY <1>7, <2>2 DEF Named
    <2>5. Leads(buf', tbl, PathRel)
      BY <1>3, <2>3, <2>4 DEF Leads
    <2> QED
      BY <1>1, <1>10, <2>2, <2>5 DEF MainHeld
  <1> HIDE DEF t
  <1> QED
    BY <1>1, <1>3, <1>4, <1>7, <1>8, <1>9, <1>12, <1>11, WriteThenSelectHeld

\* A deletion reads the key of the row of the path.
LEMMA WriteOnlyHeld ==
  ASSUME IInv, IInv', ColumnsHeld, NEW stmt, WriteOnly(stmt), StmtReads(buf', stmt)
  PROVE  ColumnsHeld'
  <1> DEFINE x == Write(stmt)
             toks == <<x>>
  <1>1. x.t = "write" /\ x.stmt = stmt /\ buf' = buf \o toks
    BY DEF Write, WriteOnly
  <1> HIDE DEF x
  <1>2. IsSeq(toks) /\ DOMAIN toks = {1} /\ toks[1] = x
    BY TupleIsSeq
  <1> HIDE DEF toks
  <1>3. Positions(toks, {"cte"}) = {} /\ Positions(toks, {"select"}) = {} /\ Positions(toks, {"cte", "write"}) = {1}
    BY <1>1, <1>2 DEF Positions
  <1>4. Adds(toks)
    BY <1>1, <1>2, <1>3 DEF Adds
  <1>5. GrownFrom(buf, buf')
    BY <1>4, AddsToAll DEF ColumnsHeld
  <1>6. \A c \in DOMAIN taken' : Carried(buf', taken'[c].tbl)
    BY <1>5, CarriedStays DEF WriteOnly, ColumnsHeld
  <1>7. req' = req /\ pc' = "finish"
    BY DEF WriteOnly
  <1> QED
    BY <1>4, <1>6, <1>7, StepHeld

LEMMA DeletionsHeld ==
  ASSUME IInv, IInv', NamesFields(req), Fit, ColumnsHeld, GenDeleteNormal \/ GenDeleteRel
  PROVE  ColumnsHeld'
  <1>1. IsRequest(req) /\ PlainKeys
    BY DEF IInv, Fit
  <1>2. CASE GenDeleteNormal
    <2> DEFINE stmt == Stmt("delete", PathTable, <<>>, <<>>, <<>>, ComparePkey(PathTable, 0))
    <2>1. WriteOnly(stmt)
      BY <1>2 DEF GenDeleteNormal
    <2>2. ValuesFit(<<>>, PathTable.type)
      <3>1. <<>> \in Seq({}) /\ DOMAIN <<>> = {}
        OBVIOUS
      <3>2. IsSeq(<<>>)
        BY <3>1, SeqIsSeq
      <3> QED
        BY <3>1, <3>2 DEF ValuesFit
    <2>3. StmtReads(buf', stmt)
      BY <1>1, <2>2, WriteReads
    <2> HIDE DEF stmt
    <2> QED
      BY <2>1, <2>3, WriteOnlyHeld
  <1>3. CASE GenDeleteRel
    <2>1. PICK r \in AliasesTo(req.path.type, MainType(req.path)) :
            /\ DeleteRelError(r) = "none"
            /\ WriteOnly(Stmt("update", BaseTable(ManyResource(r)), <<>>, <<>>, <<[col |-> Relation[r].key, param |-> 0]>>,
                              ComparePkey(BaseTable(ManyResource(r)), 0)))
      BY <1>3 DEF GenDeleteRel
    <2>2. r \in Rel
      BY DEF AliasesTo
    <2> DEFINE many == BaseTable(ManyResource(r))
               sets == <<[col |-> Relation[r].key, param |-> 0]>>
               stmt == Stmt("update", many, <<>>, <<>>, sets, ComparePkey(many, 0))
    <2>3. many.type = ManyResource(r) /\ IsBase(many) /\ many.type \in Type /\ PlainKey(many.type)
      <3>1. many.type = ManyResource(r) /\ IsBase(many) /\ many.type \in Type
        BY <2>2, RelationAssumption DEF BaseTable, IsBase, ManyResource, RelatedType
      <3>2. many.type \in {req.path.type, MainType(req.path)}
        BY <2>1, <3>1 DEF AliasesTo, ManyResource
      <3> QED
        BY <1>1, <3>1, <3>2 DEF PlainKeys, TypesSeen
    <2>4. SetsFit(sets, many.type)
      BY <2>1, <2>2, <2>3, DeletionChecked DEF SetsFit
    <2>5. Shows(buf', many, Id)
      BY <2>3, KeysArePlain, BaseShows DEF HasPlainKey
    <2>6. WhereReads(buf', ComparePkey(many, 0), {many})
      BY <2>3, <2>5, FilterReads
    <2>7. WriteOnly(stmt)
      BY <2>1
    <2> HIDE DEF many, sets
    <2>8. StmtReads(buf', stmt)
      BY <2>4, <2>6, PlainStmtReads
    <2> HIDE DEF stmt
    <2> QED
      BY <2>7, <2>8, WriteOnlyHeld
  <1> QED
    BY <1>2, <1>3

----------------------------------------------------------------------------
(* Going through the map *)

\* A step that writes nothing.
LEMMA AddsNothing ==
  ASSUME IsSeq(buf), buf' = buf
  PROVE  Adds(<<>>)
  <1>1. <<>> \in Seq({}) /\ DOMAIN <<>> = {}
    OBVIOUS
  <1>2. IsSeq(<<>>)
    BY <1>1, SeqIsSeq
  <1>3. buf \o <<>> = buf
    BY DEF IsSeq
  <1>4. \A kinds : Positions(<<>>, kinds) = {}
    BY <1>1 DEF Positions
  <1> QED
    BY <1>2, <1>3, <1>4 DEF Adds

\* What is taken out of the builder stays carried.
LEMMA TakenStays ==
  ASSUME IInv, IInv', ColumnsHeld, NEW toks, Adds(toks), taken' = taken
  PROVE  \A c \in DOMAIN taken' : Carried(buf', taken'[c].tbl)
  <1>1. GrownFrom(buf, buf')
    BY AddsToAll DEF ColumnsHeld
  <1> QED
    BY <1>1, CarriedStays DEF ColumnsHeld

LEMMA NextEntryHeld ==
  ASSUME IInv, IInv', NamesFields(req), Fit, ColumnsHeld, NextEntry
  PROVE  ColumnsHeld'
  <1>1. PICK c \in DOMAIN todo : at' = Enter(c, todo[c], main) /\ todo' = Without(todo, c)
    BY DEF NextEntry
  <1>2. /\ pc = "rels" /\ pc' = "rels" /\ req' = req /\ buf' = buf /\ main' = main /\ taken' = taken
        /\ working_tables' = working_tables
    BY DEF NextEntry
  <1>3. MainHeld(buf, main) /\ MapHeld(todo) /\ TablesHeld(buf, working_tables, main)
    BY <1>2 DEF ColumnsHeld, Holding
  <1>4. IsRequest(req) /\ IsSeq(buf)
    BY DEF IInv, BufferInv
  <1>5. c \in TargetChains /\ SortedFor(c, todo[c].sorts)
    BY <1>3 DEF MapHeld, SortedFor
  <1>6. MapHeld(todo')
    BY <1>1, <1>3 DEF MapHeld, Without
  <1>7. at'.chain = c /\ at'.i = 0 /\ at'.tbl = main /\ at'.sorts = todo[c].sorts
    BY <1>1 DEF Enter
  <1>8. ChainHeld(buf', at')
    <2>1. Carried(buf, main) /\ (c # <<>> => Leads(buf, main, c[1]))
      BY <1>3, <1>5 DEF MainHeld
    <2>2. c # <<>> \/ Len(c) = 0
      OBVIOUS
    <2>3. at'.i + 1 = 1
      BY <1>7
    <2>4. at'.i # Len(at'.chain) => Leads(buf', at'.tbl, at'.chain[at'.i + 1])
      BY <1>2, <1>7, <2>1, <2>2, <2>3
    <2>5. Carried(buf', at'.tbl) /\ SortedFor(at'.chain, at'.sorts)
      BY <1>2, <1>5, <1>7, <2>1
    <2> QED
      BY <2>4, <2>5 DEF ChainHeld
  <1>9. Adds(<<>>)
    BY <1>2, <1>4, AddsNothing
  <1>10. \A d \in DOMAIN taken' : Carried(buf', taken'[d].tbl)
    BY <1>2, <1>9, TakenStays
  <1>11. MainHeld(buf', main') /\ TablesHeld(buf', working_tables', main')
    BY <1>2, <1>3
  <1>12. pc' # "start"
    BY <1>2
  <1> QED
    BY <1>2, <1>6, <1>8, <1>9, <1>10, <1>11, <1>12, StepHeld

\* A refusal, the end, and a step of nothing leave everything where it is.
LEMMA StayHeld ==
  ASSUME IInv, IInv', ColumnsHeld, Refuse \/ RefuseRel \/ RefuseSort \/ UNCHANGED vars
  PROVE  ColumnsHeld'
  <1>1. CASE UNCHANGED vars
    <2>1. /\ AllRead(buf)' /\ FinalsOver(buf)' /\ (pc = "start" => DOMAIN working_tables = {})'
          /\ (\A c \in DOMAIN taken : Carried(buf, taken[c].tbl))'
      BY <1>1 DEF ColumnsHeld, vars, AllRead, FinalsOver
    <2>2. req' = req
      BY <1>1 DEF vars
    <2>3. pc' = "rels" => /\ MainHeld(buf', main') /\ MapHeld(todo') /\ ChainHeld(buf', at')
                          /\ TablesHeld(buf', working_tables', main')
      BY <1>1 DEF ColumnsHeld, Holding, vars
    <2>4. Holding'
      BY <2>2, <2>3, HoldingNext
    <2> QED
      BY <2>1, <2>4 DEF ColumnsHeld
  <1>2. CASE Refuse \/ RefuseRel \/ RefuseSort
    <2>1. pc' = "failed" /\ req' = req /\ buf' = buf /\ taken' = taken
      BY <1>2 DEF Refuse, RefuseRel, RefuseSort, Fail
    <2>2. Adds(<<>>)
      BY <2>1, AddsNothing DEF IInv, BufferInv
    <2>3. \A d \in DOMAIN taken' : Carried(buf', taken'[d].tbl)
      BY <2>1, <2>2, TakenStays
    <2>4. pc' # "start" /\ pc' # "rels"
      BY <2>1
    <2> QED
      BY <2>1, <2>2, <2>3, <2>4, StepHeld
  <1> QED
    BY <1>1, <1>2

----------------------------------------------------------------------------
(* Following a link *)

\* The link that is followed, from rows that lead to it.
LEMMA LinkIs ==
  ASSUME IInv, ColumnsHeld, pc = "rels", ~EntryDone
  PROVE  LET n == at.i + 1
             r == at.chain[n]
             here == CurrentRelChain IN
         /\ n \in 1..Len(at.chain) /\ r \in Rel /\ RelatedType(r) \in Type
         /\ here = Prefix(at.chain, n) /\ here # <<>> /\ Last(here) = r
         /\ (n = Len(at.chain) => here = at.chain) /\ Len(here) = n
         /\ Carried(buf, at.tbl) /\ Leads(buf, at.tbl, r)
         /\ SortedFor(at.chain, at.sorts)
         /\ WritesRel => at.chain = req.path.rels /\ n = 1 /\ here = req.path.rels /\ RelatedType(r) = MainType(req.path)
         /\ n # Len(at.chain) => at.chain[n + 1] \in Rel /\ Relation[at.chain[n + 1]].owner = RelatedType(r)
  <1> DEFINE c == at.chain
             n == at.i + 1
             r == c[n]
             here == Prefix(c, n)
  <1>1. IsRequest(req) /\ c \in Seq(Rel) /\ at.i \in 0..Len(c) /\ Len(c) \in Nat /\ at.i # Len(c)
    <2>1. at.chain \in Seq(Rel) /\ at.i \in 0..Len(at.chain)
      BY DEF IInv, TypeOK
    <2> QED
      BY <2>1 DEF IInv, EntryDone
  <1>2. n \in 1..Len(c) /\ (n # Len(c) => n + 1 \in 1..Len(c)) /\ Len(c) # 0
    <2> DEFINE l == Len(c)
               i == at.i
    <2>1. l \in Nat /\ i \in 0..l /\ i # l
      BY <1>1
    <2> HIDE DEF l, i
    <2>2. i + 1 \in 1..l /\ (i + 1 # l => i + 1 + 1 \in 1..l) /\ l # 0
      BY <2>1
    <2> QED
      BY <2>2 DEF l, i
  <1>3. /\ r \in Rel /\ here \in Seq(Rel) /\ Len(here) = n /\ Last(here) = r /\ Prefix(c, Len(c)) = c
        /\ \A m \in 1..Len(c) : c[m] \in Rel
    BY <1>1, <1>2, PrefixProperties, ElementOfSeq
  <1>4. here # <<>>
    <2>1. n # 0
      BY <1>1
    <2>2. Len(<<>>) = 0
      OBVIOUS
    <2> HIDE DEF n, here
    <2> QED
      BY <1>3, <2>1, <2>2
  <1>5. RelatedType(r) \in Type
    BY <1>3, RelationAssumption DEF RelatedType
  <1>6. ChainHeld(buf, at)
    BY DEF ColumnsHeld, Holding
  <1>7. Carried(buf, at.tbl) /\ Leads(buf, at.tbl, r)
    BY <1>1, <1>6 DEF ChainHeld
  <1>8. c # <<>>
    <2>1. Len(<<>>) = 0
      OBVIOUS
    <2> QED
      BY <1>2, <2>1
  <1>9. SortedFor(c, at.sorts)
    BY <1>6, <1>8 DEF ChainHeld
  <1>10. IsChain(RowsType, c)
    BY <1>1, <1>9, ChainsFrom DEF SortedFor
  <1>11. ASSUME n # Len(c) PROVE c[n + 1] \in Rel /\ Relation[c[n + 1]].owner = RelatedType(r)
    <2>1. n + 1 \in DOMAIN c /\ n + 1 # 1 /\ (n + 1) - 1 = n
      BY <1>1, <1>2, <1>11
    <2>2. Relation[c[n + 1]].owner = RelatedType(c[(n + 1) - 1])
      BY <1>10, <2>1 DEF IsChain
    <2> QED
      BY <1>2, <1>3, <1>11, <2>1, <2>2
  <1>12. ASSUME WritesRel
         PROVE  c = req.path.rels /\ n = 1 /\ here = req.path.rels /\ RelatedType(r) = MainType(req.path)
    <2>1. c = req.path.rels /\ Len(req.path.rels) = 1
      BY <1>1, <1>9, <1>12, ChainsFrom DEF SortedFor, TargetChains
    <2>2. n = 1
      BY <1>2, <2>1
    <2>3. MainType(req.path) = RelatedType(c[1])
      BY <1>8, <2>1 DEF MainType
    <2> QED
      BY <1>3, <2>1, <2>2, <2>3
  <1> QED
    BY <1>2, <1>3, <1>4, <1>5, <1>7, <1>9, <1>11, <1>12 DEF CurrentRelChain

\* The rows of every link carry the columns of the sorting elements of the
\* whole chain: they have those columns, and the elements of the chain up to
\* here, if there are any, are these.
LEMMA LinkSorted ==
  ASSUME IInv, NamesFields(req), Fit, ColumnsHeld, pc = "rels", ~EntryDone
  PROVE  LET t == RelatedType(at.chain[at.i + 1])
             c == SortedAs(at.chain) IN
         /\ SortedFrom(c, t)
         /\ \A b, tbl : ShowsSorts(b, tbl, c) => ShowsSorts(b, tbl, SortedAs(CurrentRelChain))
         /\ WritesRel => c = <<>>
  <1> DEFINE n == at.i + 1
             r == at.chain[n]
             here == CurrentRelChain
             c == SortedAs(at.chain)
  <1>1. /\ n \in 1..Len(at.chain) /\ here = Prefix(at.chain, n) /\ here # <<>> /\ Last(here) = r
        /\ (n = Len(at.chain) => here = at.chain) /\ Len(here) = n
        /\ SortedFor(at.chain, at.sorts)
        /\ WritesRel => at.chain = req.path.rels /\ n = 1 /\ here = req.path.rels /\ RelatedType(r) = MainType(req.path)
    BY LinkIs
  <1>2. IsRequest(req) /\ PlainSorts
    BY DEF IInv, Fit
  <1>3. CASE WritesRel
    <2>1. c = <<>> /\ SortedAs(here) = <<>>
      BY <1>3 DEF SortedAs
    <2>2. SortedFrom(<<>>, MainType(req.path))
      BY SortedFromTypes
    <2> QED
      BY <1>1, <1>3, <2>1, <2>2
  <1>4. CASE ~WritesRel
    <2>1. c = at.chain /\ SortedAs(here) = here
      BY <1>4 DEF SortedAs
    <2>2. at.chain \in Seq(Rel) /\ Len(at.chain) \in Nat /\ at.chain \in req.include \cup SortChains(req)
      BY <1>1, <1>2, <1>4, ChainsFrom DEF SortedFor
    <2>3. ASSUME at.chain \in SortChains(req) PROVE n = Len(at.chain) /\ here = at.chain
      <3>1. Len(at.chain) <= 1
        BY <1>2, <2>3 DEF PlainSorts
      <3> DEFINE l == Len(at.chain)
      <3>2. l \in Nat /\ l <= 1 /\ n \in 1..l
        BY <1>1, <2>2, <3>1
      <3> HIDE DEF l, n
      <3>3. n = l
        BY <3>2
      <3> QED
        BY <1>1, <3>3 DEF l
    <2>4. SortedFrom(at.chain, RelatedType(r))
      <3>1. CASE at.chain \in SortChains(req)
        BY <1>1, <2>3, <3>1, SortedFromTypes
      <3>2. CASE at.chain \notin SortChains(req)
        BY <3>2 DEF SortedFrom, SortChains
      <3> QED
        BY <3>1, <3>2
    <2>5. ASSUME NEW b, NEW tbl, ShowsSorts(b, tbl, at.chain) PROVE ShowsSorts(b, tbl, here)
      <3>1. CASE here \notin SortChains(req)
        BY <3>1 DEF ShowsSorts, SortChains
      <3>2. CASE here = at.chain
        BY <2>5, <3>2
      <3>3. CASE here \in SortChains(req) /\ here # at.chain
        <4>1. at.chain \in req.include
          BY <2>2, <2>3, <3>3
        <4>2. IsPrefixChain(here, at.chain)
          <5> DEFINE l == Len(at.chain)
          <5>1. l \in Nat /\ n \in 1..l
            BY <1>1, <2>2
          <5> HIDE DEF l, n
          <5>2. n <= l
            BY <5>1
          <5> QED
            BY <1>1, <5>2 DEF IsPrefixChain, l
        <4> QED
          BY <1>1, <1>2, <3>3, <4>1, <4>2 DEF PlainSorts
      <3> QED
        BY <3>1, <3>2, <3>3
    <2> QED
      BY <1>4, <2>1, <2>4, <2>5
  <1> QED
    BY <1>3, <1>4

\* The statement that follows a link reads what is there, and the rows it
\* leads to are carried.
LinkAdds(t) == RelFields(t) \o MapSeq(SortField, at.sorts)
LEMMA LinkAddsFit ==
  ASSUME IInv, NamesFields(req), Fit, ColumnsHeld, pc = "rels", ~EntryDone
  PROVE  LET t == RelatedType(at.chain[at.i + 1]) IN CarriedWith(LinkAdds(t), t, SortedAs(at.chain))
  <1> DEFINE t == RelatedType(at.chain[at.i + 1])
             c == SortedAs(at.chain)
             sorts == MapSeq(SortField, at.sorts)
  <1>1. t \in Type /\ SortedFor(at.chain, at.sorts) /\ SortedFrom(c, t)
    BY LinkIs, LinkSorted
  <1>2. IsRequest(req) /\ DistinctSorts
    BY DEF IInv, Fit, PlainSorts
  <1>3. at.sorts = Reverse(SortsOf(req, c))
    BY <1>1 DEF SortedFor
  <1>4. LinkAdds(t) = RelFields(t) \o sorts
    BY DEF LinkAdds
  <1>5. sorts = MapSeq(SortField, Reverse(SortsOf(req, c)))
    BY <1>3
  <1> HIDE DEF t, c, sorts
  <1>6. AddsFit(sorts, t) /\ Named(sorts) = SortNames(c) /\ \A name \in Named(sorts) : name[1] = "sort"
    BY <1>1, <1>2, <1>5, SortFieldsFit
  <1>7. CarriedWith(RelFields(t) \o sorts, t, c)
    BY <1>1, <1>6, AddsForSorts
  <1> QED
    BY <1>4, <1>7 DEF t, c

LEMMA SelectRelReads ==
  ASSUME IInv, IInv', NamesFields(req), Fit, ColumnsHeld, SelectRel
  PROVE  LET t == RelatedType(at.chain[at.i + 1])
             cte == ToCte(t, "rel", "data", cte_index) IN
         \E stmt : /\ buf' = buf \o <<Comma, Cte(cte, stmt)>>
                   /\ StmtReads(buf', stmt) /\ stmt.q = "select" /\ DataColumns(stmt.outs, LinkAdds(t))
  <1> DEFINE r == at.chain[at.i + 1]
             t == RelatedType(r)
             cte == ToCte(t, "rel", "data", cte_index)
             base == BaseTable(t)
             relating == <<[tbl |-> at.tbl, chain |-> CurrentRelChain]>>
             fields == JsonFields(req.sparse, t, Returned(r, at.resp))
             additional == LinkAdds(t)
             joins == GenInnerJoin(r, at.tbl, base)
             stmt == DataStmt(base, additional, relating, fields, Len(params), joins, <<>>)
  <1>1. pc = "rels" /\ ~EntryDone /\ SelectRelError(r) = "none"
    BY DEF SelectRel
  <1>2. base.type = t /\ IsBase(base) /\ base = BaseTable(t) /\ ~base.is_cte
    BY DEF BaseTable, IsBase
  <1>3. buf' = buf \o <<Comma, Cte(cte, stmt)>>
    BY <1>2 DEF SelectRel, DataStmt, LinkAdds
  <1>4. r \in Rel /\ t \in Type /\ Carried(buf, at.tbl) /\ Leads(buf, at.tbl, r)
    BY <1>1, LinkIs
  <1>5. IsRequest(req) /\ PlainKeys
    BY DEF IInv, Fit
  <1>6. PlainKey(Relation[r].owner) /\ PlainKey(t)
    <2>1. at.chain \in TargetChains /\ at.i + 1 \in 1..Len(at.chain)
      BY <1>1, LinkIs DEF SortedFor
    <2> QED
      BY <1>5, <2>1, KeysSeen
  <1>7. AddsFit(additional, t)
    BY <1>1, LinkAddsFit DEF CarriedWith
  <1>8. FieldsFit(fields, t)
    <2>1. Returned(r, at.resp) \in BOOLEAN
      BY DEF Returned
    <2>2. JsonError(t, Returned(r, at.resp)) = "none"
      BY <1>1, EachCheckPassed
    <2> QED
      BY <1>4, <1>5, <2>1, <2>2, FieldsChecked
  <1>9. relating # <<>> /\ relating[1].tbl = at.tbl
    OBVIOUS
  <1> HIDE DEF cte, base, relating, fields, additional
  <1>10. FollowedFrom(buf', at.tbl, r)
    <2> DEFINE toks == <<Comma, Cte(cte, stmt)>>
    <2>1. IsSeq(buf) /\ NamesUnique(buf) /\ NamesUnique(buf') /\ FinalsOver(buf)
      BY DEF IInv, BufferInv, CteNamesUnique, ColumnsHeld
    <2>2. IsSeq(toks) /\ buf' = buf \o toks
      BY <1>3, TupleIsSeq
    <2> HIDE DEF toks, stmt
    <2>3. GrownFrom(buf, buf')
      BY <2>1, <2>2 DEF GrownFrom
    <2> QED
      BY <1>4, <2>3, CarriedStays DEF FollowedFrom
  <1>11. stmt.from = base /\ stmt.joins = joins
    BY DEF DataStmt, Stmt
  <1>12. at.tbl # base
    BY <1>2, <1>4 DEF Carried
  <1>13. JoinsFit(buf', stmt) /\ {base, at.tbl} \subseteq Seen(stmt)
    <2>1. stmt.from = BaseTable(RelatedType(r)) /\ at.tbl # stmt.from /\ stmt.joins = GenInnerJoin(r, at.tbl, stmt.from)
      BY <1>2, <1>11, <1>12
    <2> HIDE DEF stmt
    <2>2. JoinsFit(buf', stmt) /\ {stmt.from, at.tbl} \subseteq Seen(stmt)
      BY <1>4, <1>10, <1>6, <2>1, InnerJoinsFit
    <2> QED
      BY <1>11, <2>2
  <1>14. HeadReads(buf', relating, Seen(stmt))
    <2>1. Shows(buf', at.tbl, Id) /\ PlainKey(at.tbl.type)
      BY <1>4, <1>10, <1>6, FollowedReads
    <2> HIDE DEF stmt
    <2>2. ReadsRef(buf', Ref(at.tbl, Id), Seen(stmt))
      BY <1>13, <2>1, RefsOfJoins DEF ReadsRef
    <2> QED
      BY <1>9, <2>1, <2>2 DEF HeadReads
  <1>15. WhereReads(buf', <<>>, Seen(stmt))
    BY NothingRead
  <1>16. \A col \in BaseColumns(base.type) : Shows(buf', base, col)
    BY <1>2, BaseShows
  <1>17. StmtReads(buf', stmt) /\ stmt.q = "select" /\ DataColumns(stmt.outs, additional)
    <2>1. stmt = DataStmt(base, additional, relating, fields, Len(params), joins, <<>>)
      OBVIOUS
    <2>2. base.type \in Type /\ PlainKey(base.type) /\ AddsFit(additional, base.type) /\ FieldsFit(fields, base.type)
      BY <1>2, <1>4, <1>7, <1>8, <1>6
    <2> HIDE DEF stmt, joins
    <2> QED
      BY <1>13, <1>14, <1>15, <1>16, <2>1, <2>2, DataStmtReads
  <1> HIDE DEF stmt
  <1> QED
    BY <1>3, <1>17 DEF cte, additional

LEMMA SelectRelHeld ==
  ASSUME IInv, IInv', NamesFields(req), Fit, ColumnsHeld, SelectRel
  PROVE  ColumnsHeld'
  <1> DEFINE n == at.i + 1
             r == at.chain[n]
             t == RelatedType(r)
             here == CurrentRelChain
             cte == ToCte(t, "rel", "data", cte_index)
             c == SortedAs(at.chain)
             additional == LinkAdds(t)
  <1>1. /\ pc = "rels" /\ ~EntryDone /\ req' = req /\ pc' = "rels" /\ main' = main /\ todo' = todo /\ taken' = taken
        /\ working_tables' =
             [d \in DOMAIN working_tables \cup {here} |->
                IF d = here THEN [tbl |-> cte, resp |-> at.resp] ELSE working_tables[d]]
        /\ at' = [at EXCEPT !.i = n, !.tbl = cte]
    BY DEF SelectRel
  <1>2. PICK stmt : /\ buf' = buf \o <<Comma, Cte(cte, stmt)>>
                    /\ StmtReads(buf', stmt) /\ stmt.q = "select" /\ DataColumns(stmt.outs, additional)
    BY SelectRelReads
  <1>3. cte.is_cte /\ cte.type = t
    BY DEF ToCte
  <1>4. /\ r \in Rel /\ t \in Type /\ here # <<>>
        /\ WritesRel => here = req.path.rels
        /\ n # Len(at.chain) => at.chain[n + 1] \in Rel /\ Relation[at.chain[n + 1]].owner = t
        /\ SortedFor(at.chain, at.sorts)
    BY <1>1, LinkIs
  <1>5. /\ \A b, tbl : ShowsSorts(b, tbl, c) => ShowsSorts(b, tbl, SortedAs(here))
        /\ WritesRel => c = <<>>
        /\ CarriedWith(additional, t, c)
    BY <1>1, LinkSorted, LinkAddsFit
  <1>6. DataCte(cte, stmt, additional, t)
    BY <1>2, <1>3, <1>5 DEF DataCte, CarriedWith
  <1>7. DOMAIN at = {"chain", "i", "tbl", "resp", "sorts"}
    BY DEF IInv, TypeOK
  <1>8. at'.chain = at.chain /\ at'.i = n /\ at'.tbl = cte /\ at'.sorts = at.sorts
    BY <1>1, <1>7
  <1>9. IsSeq(buf) /\ NamesUnique(buf') /\ IsRequest(req) /\ ~NamesMeet
    BY DEF IInv, BufferInv, CteNamesUnique, Fit
  <1> HIDE DEF cte, c, additional, here, t, n
  <1>10. /\ CteAt(buf', cte, stmt)
         /\ cte \notin Ctes(buf)
         /\ StmtReads(buf', stmt) /\ stmt.q # "final" => Adds(<<Comma, Cte(cte, stmt)>>)
    BY <1>2, <1>9, AddsOne
  <1> DEFINE toks == <<Comma, Cte(cte, stmt)>>
  <1>11. Adds(toks)
    BY <1>2, <1>10
  <1> HIDE DEF toks
  <1>12. GrownFrom(buf, buf')
    BY <1>11, AddsToAll DEF ColumnsHeld
  <1>13. /\ Carried(buf', cte)
         /\ \A q \in Rel : Relation[q].owner = t => Leads(buf', cte, q)
         /\ ShowsSorts(buf', cte, c)
         /\ c = <<>> => HidesAliases(buf', cte)
    <2>1. PICK i \in Positions(buf', {"cte"}) : buf'[i].tbl = cte /\ buf'[i].stmt = stmt
      BY <1>10 DEF CteAt
    <2> QED
      BY <1>4, <1>5, <1>6, <1>9, <2>1, CarriedCte
  <1>14. MainHeld(buf, main) /\ MapHeld(todo) /\ TablesHeld(buf, working_tables, main)
    BY <1>1 DEF ColumnsHeld, Holding
  <1>15. MainHeld(buf', main') /\ MapHeld(todo') /\ TablesHeld(buf', working_tables, main)
    BY <1>1, <1>12, <1>14, HeldStays
  <1>16. RowsHeld(buf', here, cte)
    BY <1>4, <1>5, <1>13 DEF RowsHeld
  <1>17. TablesHeld(buf', working_tables', main')
    <2>1. main # cte
      BY <1>10, <1>14 DEF MainHeld, Carried
    <2>2. \A d \in DOMAIN working_tables : working_tables[d].tbl # cte
      BY <1>10, <1>14 DEF TablesHeld, RowsHeld, Carried
    <2>3. \A d \in DOMAIN working_tables' :
            \/ d = here /\ working_tables'[d].tbl = cte
            \/ d # here /\ d \in DOMAIN working_tables /\ working_tables'[d].tbl = working_tables[d].tbl
      BY <1>1
    <2> DEFINE wt == working_tables'
    <2> HIDE DEF wt
    <2>4. \A d \in DOMAIN wt : RowsHeld(buf', d, wt[d].tbl) /\ wt[d].tbl # main
      BY <1>15, <1>16, <2>1, <2>3 DEF TablesHeld, wt
    <2>5. \A d, e \in DOMAIN wt : wt[d].tbl = wt[e].tbl => d = e
      BY <1>14, <2>2, <2>3 DEF TablesHeld, wt
    <2> QED
      BY <1>1, <2>4, <2>5 DEF TablesHeld, wt
  <1>18. ChainHeld(buf', at')
    BY <1>4, <1>8, <1>13 DEF ChainHeld
  <1>19. \A d \in DOMAIN taken' : Carried(buf', taken'[d].tbl)
    BY <1>1, <1>11, TakenStays
  <1>20. pc' # "start"
    BY <1>1
  <1> QED
    BY <1>1, <1>11, <1>15, <1>17, <1>18, <1>19, <1>20, StepHeld

----------------------------------------------------------------------------
(* The end *)

\* Tokens without a CTE, whose selects are of carried CTEs and have no order.
Plain(b, toks) ==
  /\ IsSeq(toks)
  /\ \A i \in DOMAIN toks :
       \/ toks[i].t \in {"union", "semicolon"}
       \/ toks[i].t = "select" /\ Carried(b, toks[i].tbl) /\ toks[i].order = <<>>
LEMMA PlainAdds ==
  ASSUME IInv, IInv', ColumnsHeld, NEW toks, Plain(buf, toks), buf' = buf \o toks
  PROVE  Adds(toks)
  <1>1. IsSeq(toks) /\ Positions(toks, {"cte"}) = {} /\ Positions(toks, {"cte", "write"}) = {}
    BY DEF Plain, Positions
  <1>2. GrownFrom(buf, buf')
    BY <1>1 DEF GrownFrom, IInv, BufferInv, CteNamesUnique, ColumnsHeld
  <1>3. ASSUME NEW i \in Positions(toks, {"select"}) PROVE SelectReads(buf', toks[i])
    <2>1. Carried(buf, toks[i].tbl) /\ toks[i].order = <<>>
      BY DEF Plain, Positions
    <2>2. Carried(buf', toks[i].tbl)
      BY <1>2, <2>1, CarriedStays
    <2> QED
      BY <2>1, <2>2 DEF SelectReads, Carried
  <1> QED
    BY <1>1, <1>3 DEF Adds

\* After select_rels only what was taken out is held.
LEMMA EndHeld ==
  ASSUME IInv, IInv', ColumnsHeld, req' = req, pc' \in {"finish", "built"}, NEW toks, Adds(toks),
         \A c \in DOMAIN taken' : Carried(buf, taken'[c].tbl)
  PROVE  ColumnsHeld'
  <1>1. GrownFrom(buf, buf')
    BY AddsToAll DEF ColumnsHeld
  <1>2. \A c \in DOMAIN taken' : Carried(buf', taken'[c].tbl)
    BY <1>1, CarriedStays
  <1>3. pc' # "start" /\ pc' # "rels"
    OBVIOUS
  <1> QED
    BY <1>2, <1>3, StepHeld

LEMMA FinishTableHeld ==
  ASSUME IInv, IInv', ColumnsHeld, FinishTable
  PROVE  ColumnsHeld'
  <1>1. PICK c \in DOMAIN taken :
          /\ buf' = IF taken[c].resp = "None" THEN buf ELSE buf \o <<Union, Select(taken[c].tbl, <<>>)>>
          /\ taken' = Without(taken, c)
    BY DEF FinishTable
  <1>2. req' = req /\ pc' = "finish"
    BY DEF FinishTable
  <1>3. Carried(buf, taken[c].tbl)
    BY DEF ColumnsHeld
  <1>4. \A d \in DOMAIN taken' : Carried(buf, taken'[d].tbl)
    BY <1>1 DEF ColumnsHeld, Without
  <1>5. CASE taken[c].resp = "None"
    <2>1. Adds(<<>>)
      BY <1>1, <1>5, AddsNothing DEF IInv, BufferInv
    <2> QED
      BY <1>2, <1>4, <2>1, EndHeld
  <1>6. CASE taken[c].resp # "None"
    <2> DEFINE x == Union
               y == Select(taken[c].tbl, <<>>)
               toks == <<x, y>>
    <2>1. x.t = "union" /\ y.t = "select" /\ y.tbl = taken[c].tbl /\ y.order = <<>>
      BY DEF Union, Select
    <2>2. buf' = buf \o toks
      BY <1>1, <1>6
    <2> HIDE DEF x, y
    <2>3. IsSeq(toks) /\ DOMAIN toks = {1, 2} /\ toks[1] = x /\ toks[2] = y
      BY TupleIsSeq
    <2> HIDE DEF toks
    <2>4. Plain(buf, toks)
      BY <1>3, <2>1, <2>3 DEF Plain
    <2>5. Adds(toks)
      BY <2>2, <2>4, PlainAdds
    <2> QED
      BY <1>2, <1>4, <2>5, EndHeld
  <1> QED
    BY <1>5, <1>6

LEMMA BuildHeld ==
  ASSUME IInv, IInv', ColumnsHeld, Build
  PROVE  ColumnsHeld'
  <1> DEFINE x == Semicolon
             toks == <<x>>
  <1>1. x.t = "semicolon" /\ buf' = buf \o toks /\ req' = req /\ pc' = "built" /\ taken' = taken
    BY DEF Semicolon, Build
  <1> HIDE DEF x
  <1>2. IsSeq(toks) /\ DOMAIN toks = {1} /\ toks[1] = x
    BY TupleIsSeq
  <1> HIDE DEF toks
  <1>3. Plain(buf, toks)
    BY <1>1, <1>2 DEF Plain
  <1>4. Adds(toks)
    BY <1>1, <1>3, PlainAdds
  <1>5. \A c \in DOMAIN taken' : Carried(buf, taken'[c].tbl)
    BY <1>1 DEF ColumnsHeld
  <1> QED
    BY <1>1, <1>4, <1>5, EndHeld

\* What the finish goes through: the CTE that is selected from and the working
\* tables that are left are carried; the one is none of the others, and these
\* are apart.
RemainingHeld ==
  /\ Carried(buf, Selected)
  /\ \A c \in DOMAIN Remaining : Carried(buf, Remaining[c].tbl) /\ Remaining[c].tbl # Selected
  /\ \A c, d \in DOMAIN Remaining : Remaining[c].tbl = Remaining[d].tbl => c = d
LEMMA FinishFrom ==
  ASSUME IInv, ColumnsHeld, RelsDone
  PROVE  /\ RemainingHeld
         /\ HidesAliases(buf, Selected) /\ ShowsSorts(buf, Selected, <<>>)
         /\ ~WritesRel => /\ Selected = main /\ MainHeld(buf, main)
                          /\ \A c \in DOMAIN Remaining : ShowsSorts(buf, Remaining[c].tbl, c)
  <1>1. MainHeld(buf, main) /\ TablesHeld(buf, working_tables, main)
    BY DEF ColumnsHeld, Holding, RelsDone
  <1>2. CASE ~WritesRel
    <2>1. Selected = main /\ Remaining = working_tables
      BY <1>2 DEF Selected, Remaining
    <2>2. \A c \in DOMAIN Remaining : ShowsSorts(buf, Remaining[c].tbl, c)
      BY <1>1, <1>2, <2>1 DEF TablesHeld, RowsHeld, SortedAs
    <2>3. RemainingHeld
      BY <1>1, <2>1 DEF RemainingHeld, MainHeld, TablesHeld, RowsHeld
    <2> QED
      BY <1>1, <1>2, <2>1, <2>2, <2>3 DEF MainHeld
  <1>3. CASE WritesRel
    <2>1. req.path.rels \in DOMAIN working_tables
      <3>1. pc = "rels" /\ EntryDone /\ req.path.rels \notin DOMAIN todo
        BY EmptyMap DEF RelsDone
      <3> QED
        BY <1>3, <3>1, PathChainDone DEF IInv, ChainsInv, Relating
    <2> DEFINE p == req.path.rels
    <2>2. /\ Selected = working_tables[p].tbl /\ DOMAIN Remaining = DOMAIN working_tables
          /\ \A c \in DOMAIN Remaining : Remaining[c].tbl = IF c = p THEN main ELSE working_tables[c].tbl
      BY <1>3, <2>1 DEF Selected, Remaining
    <2> HIDE DEF p
    <2>3. RowsHeld(buf, p, Selected) /\ Selected # main
      BY <1>1, <2>1, <2>2 DEF TablesHeld, p
    <2>4. HidesAliases(buf, Selected) /\ ShowsSorts(buf, Selected, <<>>) /\ Carried(buf, Selected)
      BY <1>3, <2>3 DEF RowsHeld, SortedAs
    <2>5. RemainingHeld
      <3>1. \A c \in DOMAIN Remaining : c = p
        BY <1>1, <1>3, <2>2 DEF TablesHeld, RowsHeld, p
      <3>2. Carried(buf, main)
        BY <1>1 DEF MainHeld
      <3> QED
        BY <2>2, <2>3, <2>4, <3>1, <3>2 DEF RemainingHeld
    <2> QED
      BY <1>3, <2>4, <2>5
  <1> QED
    BY <1>2, <1>3

LEMMA FinishMainHeld ==
  ASSUME IInv, IInv', ColumnsHeld, FinishMain
  PROVE  ColumnsHeld'
  <1> DEFINE x == Select(Selected, <<>>)
             toks == <<x>>
  <1>1. x.t = "select" /\ x.tbl = Selected /\ x.order = <<>> /\ buf' = buf \o toks
    BY DEF Select, FinishMain
  <1>2. RelsDone /\ req' = req /\ pc' = "finish" /\ taken' = Remaining
    BY DEF FinishMain, TakeWorkingTables
  <1>3. RemainingHeld
    BY <1>2, FinishFrom
  <1> HIDE DEF x
  <1>4. IsSeq(toks) /\ DOMAIN toks = {1} /\ toks[1] = x
    BY TupleIsSeq
  <1> HIDE DEF toks
  <1>5. Plain(buf, toks)
    BY <1>1, <1>3, <1>4 DEF Plain, RemainingHeld
  <1>6. Adds(toks)
    BY <1>1, <1>5, PlainAdds
  <1>7. \A c \in DOMAIN taken' : Carried(buf, taken'[c].tbl)
    BY <1>2, <1>3 DEF RemainingHeld
  <1> QED
    BY <1>2, <1>6, <1>7, EndHeld

----------------------------------------------------------------------------
(* The columns and the joins of the final CTE *)

\* Every link is joined once.
LEMMA SortLinksApart ==
  ASSUME IsRequest(req)
  PROVE  IsInjective(SortLinks(BuildInclusionMap(req)))
  <1> DEFINE map == BuildInclusionMap(req)
             S == SortChains(req)
             g == SortedChains(map)
             steps(c) == [i \in DOMAIN c |-> [chain |-> c, i |-> i]]
             f == [c \in S |-> steps(c)]
             links == SortLinks(map)
             t == MainType(req.path)
  <1>1. links = FlattenSeq([i \in DOMAIN g |-> steps(g[i])])
    BY Zenon DEF SortLinks, MapSeq
  <1>2. /\ g = InOrder(S) /\ \A i \in DOMAIN g : g[i] \in S
        /\ IsFiniteSet(S) /\ \A c \in S : IsChain(t, c)
    BY ChainsSorted
  <1> HIDE DEF g, links, map
  <1>3. [i \in DOMAIN g |-> steps(g[i])] = [i \in DOMAIN g |-> f[g[i]]]
    <2> HIDE DEF steps
    <2> QED
      BY <1>2
  <1>4. ASSUME NEW c \in S
        PROVE  IsSeq(f[c]) /\ IsInjective(f[c]) /\ \A x \in ToSet(f[c]) : x.chain = c
    <2> DEFINE h == steps(c)
    <2>1. FunctionOn(h, DOMAIN c)
      BY DEF FunctionOn
    <2>2. IsInjective(h)
      BY DEF IsInjective
    <2>3. \A x \in ToSet(h) : x.chain = c
      BY DEF ToSet
    <2>4. IsSeq(c)
      BY <1>2, SeqIsSeq DEF IsChain
    <2>5. f[c] = h
      OBVIOUS
    <2> HIDE DEF h, f
    <2>6. IsSeq(h)
      BY <2>1, <2>4, MapIsSeq
    <2> QED
      BY <2>2, <2>3, <2>5, <2>6
  <1> HIDE DEF f, steps
  <1>5. links = FlattenSeq([i \in DOMAIN InOrder(S) |-> f[InOrder(S)[i]]])
    BY <1>1, <1>2, <1>3
  <1>6. \A c, d \in S : c # d => ToSet(f[c]) \cap ToSet(f[d]) = {}
    BY <1>4
  <1>7. (\A c \in S : IsSeq(f[c])) /\ (\A c \in S : IsInjective(f[c]))
    BY <1>4
  <1> HIDE DEF S, t
  <1>8. IsInjective(FlattenSeq([i \in DOMAIN InOrder(S) |-> f[InOrder(S)[i]]]))
    BY <1>2, <1>6, <1>7, GivenApart
  <1> QED
    BY <1>5, <1>8 DEF links, map

\* Every sorting element has a column of its own.
LEMMA SortOutsApart ==
  ASSUME IsRequest(req), DistinctSorts, ~NamesMeet, NEW tbl, NEW wt
  PROVE  IsInjective(SortOuts(tbl, wt))
  <1> DEFINE map == BuildInclusionMap(req)
             S == SortChains(req)
             g == SortedChains(map)
             columns(c) == [k \in DOMAIN map[c].sorts |-> SortOut(tbl, wt, c, map[c].sorts[k])]
             f == [c \in S |-> columns(c)]
             outs == SortOuts(tbl, wt)
             t == MainType(req.path)
  <1>1. outs = FlattenSeq([i \in DOMAIN g |-> columns(g[i])])
    BY Zenon DEF SortOuts, MapSeq, SortOut
  <1>2. /\ g = InOrder(S) /\ \A i \in DOMAIN g : g[i] \in S
        /\ IsFiniteSet(S) /\ S \subseteq DOMAIN map
        /\ \A c \in S : IsChain(t, c)
    BY ChainsSorted
  <1>3. ASSUME NEW c \in S
        PROVE  LET s == map[c].sorts IN
               /\ IsSeq(s) /\ IsInjective(s)
               /\ ToSet(s) = {req.sort[i] : i \in {j \in DOMAIN req.sort : req.sort[j].chain = c}}
    <2>1. map[c].sorts = Reverse(SortsOf(req, c))
      <3>1. c \in req.include \cup SortChains(req)
        OBVIOUS
      <3> QED
        BY <3>1 DEF BuildInclusionMap
    <2> HIDE DEF map
    <2> QED
      BY <2>1, SortsApart
  <1> HIDE DEF g, outs, map
  <1>4. [i \in DOMAIN g |-> columns(g[i])] = [i \in DOMAIN g |-> f[g[i]]]
    <2> HIDE DEF columns
    <2> QED
      BY <1>2
  <1>5. \A i, j \in DOMAIN req.sort : SortAlias(req.sort[i]) = SortAlias(req.sort[j]) => i = j
    BY DEF NamesMeet
  <1>6. ASSUME NEW c \in S
        PROVE  /\ IsSeq(f[c]) /\ IsInjective(f[c])
               /\ \A x \in ToSet(f[c]) : \E i \in DOMAIN req.sort : req.sort[i].chain = c /\ x.name = SortAlias(req.sort[i])
    <2> DEFINE h == columns(c)
               s == map[c].sorts
    <2>1. IsSeq(s) /\ IsInjective(s) /\ ToSet(s) = {req.sort[i] : i \in {j \in DOMAIN req.sort : req.sort[j].chain = c}}
      BY <1>3
    <2>2. FunctionOn(h, DOMAIN s) /\ DOMAIN h = DOMAIN s
      BY DEF FunctionOn
    <2>3. \A k \in DOMAIN s : h[k].name = SortAlias(s[k])
      BY DEF SortOut, Out
    <2>4. \A k \in DOMAIN s : \E i \in DOMAIN req.sort : req.sort[i].chain = c /\ s[k] = req.sort[i]
      <3>1. \A k \in DOMAIN s : s[k] \in ToSet(s)
        BY DEF ToSet
      <3> QED
        BY <2>1, <3>1
    <2>5. f[c] = h
      OBVIOUS
    <2> HIDE DEF h, f, s
    <2>6. IsSeq(h)
      BY <2>1, <2>2, MapIsSeq
    <2>7. IsInjective(h)
      <3> SUFFICES ASSUME NEW k \in DOMAIN s, NEW l \in DOMAIN s, h[k] = h[l]
                   PROVE  k = l
        BY <2>2 DEF IsInjective
      <3>1. PICK i \in DOMAIN req.sort : req.sort[i].chain = c /\ s[k] = req.sort[i]
        BY <2>4
      <3>2. PICK j \in DOMAIN req.sort : req.sort[j].chain = c /\ s[l] = req.sort[j]
        BY <2>4
      <3>3. SortAlias(req.sort[i]) = SortAlias(req.sort[j])
        BY <2>3, <3>1, <3>2
      <3>4. s[k] = s[l]
        BY <1>5, <3>1, <3>2, <3>3
      <3> QED
        BY <2>1, <3>4 DEF IsInjective
    <2>8. \A x \in ToSet(h) : \E i \in DOMAIN req.sort : req.sort[i].chain = c /\ x.name = SortAlias(req.sort[i])
      <3> SUFFICES ASSUME NEW k \in DOMAIN h
                   PROVE  \E i \in DOMAIN req.sort : req.sort[i].chain = c /\ h[k].name = SortAlias(req.sort[i])
        BY DEF ToSet
      <3> QED
        BY <2>2, <2>3, <2>4
    <2> QED
      BY <2>5, <2>6, <2>7, <2>8
  <1> HIDE DEF f, columns
  <1>7. outs = FlattenSeq([i \in DOMAIN InOrder(S) |-> f[InOrder(S)[i]]])
    BY <1>1, <1>2, <1>4
  <1>8. \A c, d \in S : c # d => ToSet(f[c]) \cap ToSet(f[d]) = {}
    <2> SUFFICES ASSUME NEW c \in S, NEW d \in S, NEW x \in ToSet(f[c]), x \in ToSet(f[d])
                 PROVE  c = d
      OBVIOUS
    <2>1. PICK i \in DOMAIN req.sort : req.sort[i].chain = c /\ x.name = SortAlias(req.sort[i])
      BY <1>6
    <2>2. PICK j \in DOMAIN req.sort : req.sort[j].chain = d /\ x.name = SortAlias(req.sort[j])
      BY <1>6
    <2> QED
      BY <1>5, <2>1, <2>2
  <1>9. (\A c \in S : IsSeq(f[c])) /\ (\A c \in S : IsInjective(f[c]))
    BY <1>6
  <1> HIDE DEF S, t
  <1>10. IsInjective(FlattenSeq([i \in DOMAIN InOrder(S) |-> f[InOrder(S)[i]]]))
    BY <1>2, <1>8, <1>9, GivenApart
  <1> QED
    BY <1>7, <1>10 DEF outs

\* The list of the final CTE: every column of the CTE it selects from, and one
\* for every sorting element.
FinalOuts(tbl, wt) == <<Out(<<"*">>, <<Ref(tbl, MainId)>>, <<>>)>> \o SortOuts(tbl, wt)
LEMMA FinalColumns ==
  ASSUME IsRequest(req), DistinctSorts, ~NamesMeet, NEW tbl, NEW wt
  PROVE  LET outs == FinalOuts(tbl, wt) IN
         /\ \A k \in DOMAIN req.sort : \E i : OnlyOne(outs, SortAlias(req.sort[k]), i)
         /\ \A name \in ResponseColumns : NoneNamed(outs, name)
         /\ \A i \in DOMAIN outs :
              \/ outs[i].refs = <<Ref(tbl, MainId)>>
              \/ \E k \in DOMAIN req.sort : outs[i] = SortOut(tbl, wt, req.sort[k].chain, req.sort[k])
  <1> DEFINE star == Out(<<"*">>, <<Ref(tbl, MainId)>>, <<>>)
             rest == SortOuts(tbl, wt)
             outs == FinalOuts(tbl, wt)
             n == Len(rest)
  <1>1. star.name = <<"*">> /\ star.refs = <<Ref(tbl, MainId)>>
    BY DEF Out
  <1>2. outs = <<star>> \o rest
    BY DEF FinalOuts
  <1>3. /\ IsSeq(rest)
        /\ \A i \in DOMAIN rest : \E k \in DOMAIN req.sort :
             rest[i] = SortOut(tbl, wt, req.sort[k].chain, req.sort[k])
        /\ \A k \in DOMAIN req.sort : \E i \in DOMAIN rest :
             rest[i] = SortOut(tbl, wt, req.sort[k].chain, req.sort[k])
    BY SortOutsAre
  <1>4. IsInjective(rest)
    BY SortOutsApart
  <1> HIDE DEF star, rest, outs
  <1>5. n \in Nat /\ DOMAIN rest = 1..n /\ DOMAIN outs = 1..(n + 1) /\ outs[1] = star
        /\ \A i \in 1..n : outs[i + 1] = rest[i]
    <2>1. IsSeq(<<star>>) /\ DOMAIN <<star>> = {1} /\ <<star>>[1] = star /\ Len(<<star>>) = 1
      BY TupleIsSeq
    <2> DEFINE one == <<star>>
    <2> HIDE DEF one
    <2>2. /\ Len(rest) \in Nat /\ DOMAIN rest = 1..Len(rest)
          /\ DOMAIN (one \o rest) = 1..(1 + Len(rest))
          /\ (one \o rest)[1] = one[1]
          /\ \A i \in 1..Len(rest) : (one \o rest)[i + 1] = rest[i]
      BY <1>3, <2>1 DEF IsSeq, one
    <2> QED
      BY <1>2, <2>1, <2>2 DEF one
  <1> HIDE DEF n
  <1>6. \A k \in DOMAIN req.sort : SortAlias(req.sort[k])[1] = "sort"
    BY AliasWord
  <1>7. \A s, chain : SortOut(tbl, wt, chain, s).name = SortAlias(s)
    BY DEF SortOut, Out
  <1>8. \A i \in DOMAIN outs :
          \/ i = 1 /\ outs[i] = star
          \/ i - 1 \in DOMAIN rest /\ outs[i] = rest[i - 1]
    <2> SUFFICES ASSUME NEW i \in 1..(n + 1), i # 1
                 PROVE  i - 1 \in 1..n /\ outs[i] = rest[i - 1]
      BY <1>5
    <2>1. i - 1 \in 1..n /\ (i - 1) + 1 = i
      BY <1>5
    <2> QED
      BY <1>5, <2>1
  <1>9. \A i \in DOMAIN outs :
          \/ outs[i].refs = <<Ref(tbl, MainId)>>
          \/ \E k \in DOMAIN req.sort : outs[i] = SortOut(tbl, wt, req.sort[k].chain, req.sort[k])
    BY <1>1, <1>3, <1>8
  <1>10. ASSUME NEW name \in ResponseColumns PROVE NoneNamed(outs, name)
    <2>1. name[1] # "sort" /\ name[1] # "*"
      BY DEF ResponseColumns, Id, RelatedTypeCol, RelatedId
    <2>2. \A i \in DOMAIN outs : outs[i].name[1] \in {"sort", "*"}
      BY <1>1, <1>3, <1>6, <1>7, <1>8
    <2> QED
      BY <2>1, <2>2 DEF NoneNamed
  <1>11. ASSUME NEW k \in DOMAIN req.sort PROVE \E i : OnlyOne(outs, SortAlias(req.sort[k]), i)
    <2>1. PICK i \in DOMAIN rest : rest[i] = SortOut(tbl, wt, req.sort[k].chain, req.sort[k])
      BY <1>3
    <2>2. \A j \in DOMAIN rest : rest[j].name = SortAlias(req.sort[k]) => j = i
      <3> SUFFICES ASSUME NEW j \in DOMAIN rest, rest[j].name = SortAlias(req.sort[k])
                   PROVE  rest[j] = rest[i]
        BY <1>4 DEF IsInjective
      <3>1. PICK l \in DOMAIN req.sort : rest[j] = SortOut(tbl, wt, req.sort[l].chain, req.sort[l])
        BY <1>3
      <3>2. SortAlias(req.sort[l]) = SortAlias(req.sort[k])
        BY <1>7, <3>1
      <3>3. l = k
        BY <3>2 DEF NamesMeet
      <3> QED
        BY <2>1, <3>1, <3>3
    <2>3. star.name # SortAlias(req.sort[k])
      <3>1. star.name[1] = "*"
        BY <1>1
      <3> QED
        BY <1>6, <3>1
    <2>4. i \in 1..n /\ i + 1 \in DOMAIN outs /\ outs[i + 1] = rest[i]
      BY <1>5
    <2>5. \A j \in DOMAIN outs : outs[j].name = SortAlias(req.sort[k]) => j = i + 1
      <3> SUFFICES ASSUME NEW j \in DOMAIN outs, outs[j].name = SortAlias(req.sort[k])
                   PROVE  j = i + 1
        OBVIOUS
      <3>1. j - 1 \in DOMAIN rest /\ outs[j] = rest[j - 1]
        BY <1>8, <2>3
      <3>2. j - 1 = i
        BY <2>2, <3>1
      <3>3. j \in Int /\ i \in Int
        BY <1>5, <2>4
      <3> QED
        BY <3>2, <3>3
    <2>6. outs[i + 1].name = SortAlias(req.sort[k])
      BY <1>7, <2>1, <2>4
    <2> QED
      BY <2>4, <2>5, <2>6 DEF OnlyOne
  <1> QED
    BY <1>9, <1>10, <1>11 DEF outs

\* A chain that is sorted by is one relationship, which leads from the CTE that
\* is selected from to a working table that carries the columns sorted by.
SortHeld(c) ==
  /\ DOMAIN c = {1} /\ Prefix(c, 1) = c /\ c[1] \in Rel /\ IsManyToOne(c[1])
  /\ c \in DOMAIN Remaining /\ ShowsSorts(buf, Remaining[c].tbl, c)
  /\ Leads(buf, Selected, c[1])
LEMMA SortsHeld ==
  ASSUME IInv, Fit, ColumnsHeld, RelsDone,
         \A n \in DOMAIN SortErrors(Remaining) : SortErrors(Remaining)[n] = "none"
  PROVE  /\ \A c \in SortChains(req) : c # <<>> => SortHeld(c)
         /\ <<>> \notin DOMAIN Remaining
  <1>1. IsRequest(req) /\ PlainSorts
    BY DEF IInv, Fit
  <1>2. DOMAIN Remaining = DOMAIN working_tables
    BY RemainingChains
  <1>3. TablesHeld(buf, working_tables, main)
    BY DEF ColumnsHeld, Holding, RelsDone
  <1>4. <<>> \notin DOMAIN Remaining
    BY <1>2, <1>3 DEF TablesHeld, RowsHeld
  <1>5. ASSUME NEW c \in SortChains(req), c # <<>> PROVE SortHeld(c)
    <2>1. c \in Seq(Rel) /\ Len(c) \in Nat /\ DOMAIN c = 1..Len(c)
      BY <1>1, SortChainsTyped
    <2>2. Len(c) = 1
      <3>1. Len(c) <= 1 /\ Len(c) # 0
        BY <1>1, <1>5, <2>1 DEF PlainSorts
      <3> DEFINE l == Len(c)
      <3> HIDE DEF l
      <3>2. l \in Nat /\ l <= 1 /\ l # 0 => l = 1
        OBVIOUS
      <3> QED
        BY <2>1, <3>1, <3>2 DEF l
    <2>3. DOMAIN c = {1} /\ 1 \in 1..Len(c)
      BY <2>1, <2>2
    <2>4. Prefix(c, 1) = c /\ c[1] \in Rel
      BY <2>1, <2>2, <2>3, PrefixProperties
    <2>5. c \in DOMAIN Remaining /\ IsManyToOne(c[1])
      BY <1>1, <1>2, <2>3, <2>4, LinksAccepted
    <2>6. ~WritesRel
      <3> SUFFICES ASSUME WritesRel PROVE FALSE
        OBVIOUS
      <3>1. c = req.path.rels
        BY <1>2, <1>3, <2>5 DEF TablesHeld, RowsHeld
      <3> QED
        BY <1>1, <3>1 DEF PlainSorts, SortedByPath
    <2>7. Selected = main /\ MainHeld(buf, main) /\ ShowsSorts(buf, Remaining[c].tbl, c)
      BY <2>5, <2>6, FinishFrom
    <2>8. c \in TargetChains
      BY <1>1, <2>6, ChainsFrom
    <2> QED
      BY <1>5, <2>3, <2>4, <2>5, <2>7, <2>8 DEF SortHeld, MainHeld
  <1> QED
    BY <1>4, <1>5

\* The final CTE joins the working tables of the chains that are sorted by,
\* each of them once, to the CTE that is selected from.
LEMMA FinalJoins ==
  ASSUME IsRequest(req), RemainingHeld, \A c \in SortChains(req) : c # <<>> => SortHeld(c),
         NEW stmt, stmt.from = Selected, stmt.joins = SortJoins(Selected, Remaining)
  PROVE  /\ JoinsFit(buf, stmt) /\ Selected \in Seen(stmt)
         /\ \A c \in SortChains(req) : c # <<>> => Remaining[c].tbl \in Seen(stmt)
  <1> DEFINE links == SortLinks(BuildInclusionMap(req))
             wt == Remaining
             tbl == Selected
             joins == SortJoins(tbl, wt)
             f == [n \in DOMAIN links |->
                     GenLeftJoin(links[n].chain[links[n].i], wt[Prefix(links[n].chain, links[n].i)].tbl,
                       IF links[n].i = 1 THEN tbl ELSE wt[Prefix(links[n].chain, links[n].i - 1)].tbl)]
  <1>1. joins = f
    BY Zenon DEF SortJoins, MapSeq
  <1>2. /\ IsSeq(links)
        /\ \A n \in DOMAIN links : links[n].chain \in SortChains(req) /\ links[n].i \in DOMAIN links[n].chain
        /\ \A c \in SortChains(req) : \A i \in DOMAIN c :
             \E n \in DOMAIN links : links[n].chain = c /\ links[n].i = i
    BY SortLinksAre
  <1>3. IsInjective(links)
    BY SortLinksApart
  <1>4. \A n \in DOMAIN links : \A m \in DOMAIN links :
          links[n].chain = links[m].chain /\ links[n].i = links[m].i => links[n] = links[m]
    <2>1. \A n \in DOMAIN links : links[n] = [chain |-> links[n].chain, i |-> links[n].i]
      BY SortLinksAre
    <2> HIDE DEF links
    <2> QED
      BY <2>1
  <1> HIDE DEF links
  <1>5. ASSUME NEW n \in DOMAIN links
        PROVE  LET c == links[n].chain IN
               /\ c \in SortChains(req) /\ SortHeld(c) /\ links[n].i = 1
               /\ f[n] = GenLeftJoin(c[1], wt[c].tbl, tbl)
    <2> DEFINE c == links[n].chain
               i == links[n].i
    <2>1. c \in SortChains(req) /\ i \in DOMAIN c
      BY <1>2
    <2>2. c # <<>>
      BY <2>1
    <2>3. SortHeld(c)
      BY <2>1, <2>2
    <2>4. i = 1 /\ Prefix(c, 1) = c
      BY <2>1, <2>3 DEF SortHeld
    <2>5. f[n] = GenLeftJoin(c[i], wt[Prefix(c, i)].tbl, IF i = 1 THEN tbl ELSE wt[Prefix(c, i - 1)].tbl)
      OBVIOUS
    <2> HIDE DEF f, c, i
    <2>6. f[n] = GenLeftJoin(c[1], wt[c].tbl, tbl)
      BY <2>4, <2>5
    <2> QED
      BY <2>1, <2>3, <2>4, <2>6 DEF c, i
  <1>6. DOMAIN f = DOMAIN links /\ FunctionOn(f, DOMAIN links)
    BY DEF FunctionOn
  <1> HIDE DEF f
  <1>7. IsSeq(f)
    BY <1>2, <1>6, MapIsSeq
  <1> HIDE DEF joins
  <1>8. stmt.joins = f /\ stmt.from = tbl
    BY <1>1 DEF joins
  <1> HIDE DEF wt, tbl
  <1>9. \A n \in DOMAIN f : LET c == links[n].chain IN
          /\ f[n].tbl = wt[c].tbl
          /\ f[n].on[1] = JoinKey(wt[c].tbl) /\ f[n].on[2] = ForeignKey(tbl, Relation[c[1]].key)
    BY <1>5, <1>6 DEF GenLeftJoin, LeftJoin
  <1>10. ScopeApart(stmt)
    <2>1. \A n \in DOMAIN f : f[n].tbl # tbl
      BY <1>5, <1>6, <1>9 DEF RemainingHeld, SortHeld, wt, tbl
    <2>2. ASSUME NEW n \in DOMAIN f, NEW m \in DOMAIN f, f[n].tbl = f[m].tbl PROVE n = m
      <3>1. links[n].chain = links[m].chain
        BY <1>5, <1>6, <1>9, <2>2 DEF RemainingHeld, SortHeld, wt, tbl
      <3>2. links[n].i = links[m].i
        BY <1>5, <1>6
      <3>3. links[n] = links[m]
        BY <1>4, <1>6, <3>1, <3>2
      <3> QED
        BY <1>3, <1>6, <3>3 DEF IsInjective
    <2> QED
      BY <1>8, <2>1, <2>2 DEF ScopeApart
  <1>11. ASSUME NEW n \in DOMAIN f, NEW k \in 1..2 PROVE ReadsRef(buf, f[n].on[k], SeenBy(stmt, n))
    <2> DEFINE c == links[n].chain
    <2>1. SortHeld(c)
      BY <1>5, <1>6
    <2>2. Carried(buf, tbl) /\ Carried(buf, wt[c].tbl)
      BY <2>1 DEF RemainingHeld, SortHeld, wt, tbl
    <2>3. tbl.is_cte /\ wt[c].tbl.is_cte /\ Shows(buf, wt[c].tbl, MainId)
      BY <2>2 DEF Carried
    <2>4. Shows(buf, tbl, RelName(Relation[c[1]].key))
      BY <2>1 DEF SortHeld, Leads, tbl
    <2>5. n \in 1..n
      BY <1>7 DEF IsSeq
    <2>6. tbl \in SeenBy(stmt, n) /\ wt[c].tbl \in SeenBy(stmt, n)
      BY <1>8, <1>9, <2>5 DEF SeenBy
    <2>7. ReadsRef(buf, JoinKey(wt[c].tbl), SeenBy(stmt, n))
      BY <2>3, <2>6 DEF ReadsRef, JoinKey, Ref
    <2>8. ReadsRef(buf, ForeignKey(tbl, Relation[c[1]].key), SeenBy(stmt, n))
      BY <2>3, <2>4, <2>6 DEF ReadsRef, ForeignKey, Ref
    <2>9. k = 1 \/ k = 2
      OBVIOUS
    <2> QED
      BY <1>9, <2>7, <2>8, <2>9
  <1>12. JoinsFit(buf, stmt)
    BY <1>7, <1>8, <1>10, <1>11 DEF JoinsFit
  <1>13. tbl \in Seen(stmt)
    BY <1>8 DEF Seen
  <1>14. ASSUME NEW c \in SortChains(req), c # <<>> PROVE wt[c].tbl \in Seen(stmt)
    <2>1. 1 \in DOMAIN c
      BY <1>14 DEF SortHeld
    <2>2. PICK n \in DOMAIN links : links[n].chain = c
      BY <1>2, <2>1
    <2> QED
      BY <1>6, <1>8, <1>9, <2>2 DEF Seen
  <1> QED
    BY <1>12, <1>13, <1>14 DEF wt, tbl

\* The final CTE reads what is there.
LEMMA FinalReads ==
  ASSUME IInv, Fit, ColumnsHeld, RelsDone,
         \A n \in DOMAIN SortErrors(Remaining) : SortErrors(Remaining)[n] = "none"
  PROVE  StmtReads(buf, FinalStmt(Selected, Remaining))
  <1> DEFINE tbl == Selected
             wt == Remaining
             stmt == FinalStmt(tbl, wt)
             outs == FinalOuts(tbl, wt)
  <1>1. IsRequest(req) /\ DistinctSorts /\ ~NamesMeet
    BY DEF IInv, Fit, PlainSorts
  <1>2. /\ stmt.from = tbl /\ stmt.joins = SortJoins(tbl, wt) /\ stmt.outs = outs
        /\ stmt.where = <<>> /\ stmt.sets = <<>>
    BY DEF FinalStmt, FinalOuts, Stmt
  <1>3. RemainingHeld /\ ShowsSorts(buf, tbl, <<>>)
    BY FinishFrom
  <1>4. (\A c \in SortChains(req) : c # <<>> => SortHeld(c)) /\ <<>> \notin DOMAIN wt
    BY SortsHeld
  <1>5. \A i \in DOMAIN outs :
          \/ outs[i].refs = <<Ref(tbl, MainId)>>
          \/ \E k \in DOMAIN req.sort : outs[i] = SortOut(tbl, wt, req.sort[k].chain, req.sort[k])
    BY <1>1, FinalColumns
  <1> HIDE DEF stmt, outs
  <1>6. /\ JoinsFit(buf, stmt) /\ tbl \in Seen(stmt)
        /\ \A c \in SortChains(req) : c # <<>> => wt[c].tbl \in Seen(stmt)
    BY <1>1, <1>2, <1>3, <1>4, FinalJoins
  <1>7. ReadsRef(buf, Ref(tbl, MainId), Seen(stmt))
    BY <1>3, <1>6, RefsOfJoins DEF ReadsRef, RemainingHeld, Carried
  <1>8. ASSUME NEW k \in DOMAIN req.sort
        PROVE  LET c == req.sort[k].chain IN
               ReadsRef(buf, Ref(IF c \in DOMAIN wt THEN wt[c].tbl ELSE tbl, SortName(req.sort[k].field)), Seen(stmt))
    <2> DEFINE c == req.sort[k].chain
               from == IF c \in DOMAIN wt THEN wt[c].tbl ELSE tbl
    <2>1. c \in SortChains(req)
      BY DEF SortChains
    <2>2. from \in Seen(stmt) /\ Shows(buf, from, SortName(req.sort[k].field))
      <3>1. CASE c = <<>>
        BY <1>3, <1>4, <1>6, <3>1 DEF ShowsSorts
      <3>2. CASE c # <<>>
        BY <1>4, <1>6, <2>1, <3>2 DEF SortHeld, ShowsSorts
      <3> QED
        BY <3>1, <3>2
    <2> HIDE DEF from
    <2>3. ReadsRef(buf, Ref(from, SortName(req.sort[k].field)), Seen(stmt))
      BY <2>2, RefsOfJoins DEF ReadsRef
    <2> QED
      BY <2>3 DEF from
  <1>9. OutsRead(buf, outs, Seen(stmt))
    <2> SUFFICES ASSUME NEW i \in DOMAIN outs, NEW j \in DOMAIN outs[i].refs
                 PROVE  ReadsRef(buf, outs[i].refs[j], Seen(stmt))
      BY DEF OutsRead
    <2> HIDE DEF tbl, wt
    <2>1. CASE outs[i].refs = <<Ref(tbl, MainId)>>
      BY <1>7, <2>1
    <2>2. ASSUME NEW k \in DOMAIN req.sort, outs[i] = SortOut(tbl, wt, req.sort[k].chain, req.sort[k])
          PROVE  ReadsRef(buf, outs[i].refs[j], Seen(stmt))
      <3> DEFINE c == req.sort[k].chain
                 ref == Ref(IF c \in DOMAIN wt THEN wt[c].tbl ELSE tbl, SortName(req.sort[k].field))
      <3>1. outs[i].refs = <<ref>>
        BY <2>2 DEF SortOut, Out
      <3>2. ReadsRef(buf, ref, Seen(stmt))
        BY <1>8 DEF wt, tbl
      <3> HIDE DEF ref
      <3> QED
        BY <3>1, <3>2
    <2> QED
      BY <1>5, <2>1, <2>2
  <1>10. WhereReads(buf, <<>>, Seen(stmt)) /\ SetsFit(<<>>, stmt.from.type)
    BY NothingRead
  <1>11. StmtReads(buf, stmt)
    BY <1>2, <1>6, <1>9, <1>10 DEF StmtReads, JoinsFit, WhereReads
  <1> QED
    BY <1>11 DEF stmt

\* The select of the final CTE finds the columns of a response, and those it
\* orders by.
LEMMA FinalSelected ==
  ASSUME IInv, Fit, ColumnsHeld, RelsDone, NEW b, NamesUnique(b), NEW i \in Positions(b, {"cte"}),
         b[i].tbl = FinalTable(Selected.type), b[i].stmt = FinalStmt(Selected, Remaining),
         Carried(b, Selected), HidesAliases(b, Selected)
  PROVE  SelectReads(b, Select(FinalTable(Selected.type), OrderBy))
  <1> DEFINE final == FinalTable(Selected.type)
             stmt == FinalStmt(Selected, Remaining)
             outs == FinalOuts(Selected, Remaining)
             tok == Select(final, OrderBy)
  <1>1. IsRequest(req) /\ DistinctSorts /\ ~NamesMeet
    BY DEF IInv, Fit, PlainSorts
  <1>2. stmt.from = Selected /\ stmt.outs = outs /\ stmt.q = "final"
    BY DEF FinalStmt, FinalOuts, Stmt
  <1>3. ~IsBase(final)
    BY DEF FinalTable, IsBase
  <1>4. tok.tbl = final /\ tok.order = OrderBy
    BY DEF Select
  <1>5. DOMAIN OrderBy = DOMAIN req.sort /\ \A k \in DOMAIN req.sort : OrderBy[k].col = SortAlias(req.sort[k])
    BY DEF OrderBy, MapSeq
  <1>6. b[i].tbl = final /\ b[i].stmt = stmt
    OBVIOUS
  <1>7. /\ \A k \in DOMAIN req.sort : \E j : OnlyOne(outs, SortAlias(req.sort[k]), j)
        /\ \A name \in ResponseColumns : NoneNamed(outs, name)
    BY <1>1, FinalColumns
  <1> HIDE DEF stmt, outs, final, tok
  <1>8. /\ \A col, j : OnlyOne(outs, col, j) /\ Hides(b, Selected, col) => Shows(b, final, col)
        /\ \A col : NoneNamed(outs, col) /\ Shows(b, Selected, col) => Shows(b, final, col)
    <2>1. Selected \in Ctes(b) /\ Selected.is_cte /\ StmtIn(b, Selected).q = "select"
      BY DEF Carried
    <2> QED
      BY <1>2, <1>3, <1>6, <2>1, FinalShows
  <1>9. \A col \in ResponseColumns : Shows(b, final, col)
    BY <1>7, <1>8 DEF Carried
  <1>10. \A k \in DOMAIN req.sort : Shows(b, final, SortAlias(req.sort[k]))
    BY <1>7, <1>8 DEF HidesAliases
  <1>11. SelectReads(b, tok)
    BY <1>4, <1>5, <1>9, <1>10 DEF SelectReads
  <1> QED
    BY <1>11 DEF tok, final

LEMMA FinishMainSortedHeld ==
  ASSUME IInv, IInv', Fit, ColumnsHeld, FinishMainSorted
  PROVE  ColumnsHeld'
  <1> DEFINE final == FinalTable(Selected.type)
             stmt == FinalStmt(Selected, Remaining)
             x == Comma
             y == Cte(final, stmt)
             z == Select(final, OrderBy)
             toks == <<x, y, z>>
  <1>1. /\ x.t = "comma" /\ y.t = "cte" /\ y.tbl = final /\ y.stmt = stmt /\ z.t = "select"
        /\ stmt.q = "final" /\ stmt.from = Selected
    BY DEF Comma, Cte, Select, FinalStmt, Stmt
  <1>2. /\ RelsDone /\ req' = req /\ pc' = "finish" /\ taken' = Remaining
        /\ \A n \in DOMAIN SortErrors(Remaining) : SortErrors(Remaining)[n] = "none"
        /\ buf' = buf \o toks
    BY DEF FinishMainSorted, TakeWorkingTables
  <1>3. RemainingHeld /\ HidesAliases(buf, Selected)
    BY <1>2, FinishFrom
  <1>4. StmtReads(buf, stmt)
    BY <1>2, FinalReads
  <1>5. /\ IsSeq(buf) /\ NamesUnique(buf) /\ NamesUnique(buf') /\ FinalsOver(buf)
    BY DEF IInv, BufferInv, CteNamesUnique, ColumnsHeld
  <1>6. z = Select(FinalTable(Selected.type), OrderBy) /\ stmt = FinalStmt(Selected, Remaining)
        /\ final = FinalTable(Selected.type)
    OBVIOUS
  <1> HIDE DEF x, y, z, stmt, final
  <1>7. IsSeq(toks) /\ DOMAIN toks = {1, 2, 3} /\ toks[1] = x /\ toks[2] = y /\ toks[3] = z
    BY TupleIsSeq
  <1> HIDE DEF toks
  <1>8. /\ Positions(toks, {"cte"}) = {2} /\ Positions(toks, {"cte", "write"}) = {2}
        /\ Positions(toks, {"select"}) = {3}
    BY <1>1, <1>7 DEF Positions
  <1>9. GrownFrom(buf, buf')
    BY <1>2, <1>5, <1>7 DEF GrownFrom
  <1>10. StmtReads(buf', stmt)
    BY <1>4, <1>9, ReadsStay
  <1>11. Carried(buf', Selected) /\ HidesAliases(buf', Selected)
    BY <1>3, <1>9, CarriedStays DEF RemainingHeld
  <1>12. SelectReads(buf', z)
    <2>1. CteAt(buf \o toks, toks[2].tbl, toks[2].stmt)
      BY <1>5, <1>7, <1>8, CteAfter
    <2>2. PICK i \in Positions(buf', {"cte"}) : buf'[i].tbl = final /\ buf'[i].stmt = stmt
      BY <1>1, <1>2, <1>7, <2>1 DEF CteAt
    <2> QED
      BY <1>2, <1>5, <1>6, <1>11, <2>2, FinalSelected
  <1>13. Selected \in Ctes(buf)
    BY <1>3 DEF RemainingHeld, Carried
  <1>14. Adds(toks)
    BY <1>1, <1>2, <1>7, <1>8, <1>10, <1>12, <1>13 DEF Adds
  <1>15. \A c \in DOMAIN taken' : Carried(buf, taken'[c].tbl)
    BY <1>2, <1>3 DEF RemainingHeld
  <1> QED
    BY <1>2, <1>14, <1>15, EndHeld

----------------------------------------------------------------------------
(* Every step *)

LEMMA InitColumns == Init => ColumnInv
  <1> SUFFICES ASSUME Init PROVE ColumnInv
    OBVIOUS
  <1>1. NamesFields(req)
    BY FieldsAssumption DEF Init
  <1>2. buf = <<>> /\ pc = "start" /\ DOMAIN working_tables = {} /\ DOMAIN taken = {}
    BY EmptyMap DEF Init
  <1>3. \A kinds : Positions(buf, kinds) = {}
    BY <1>2 DEF Positions
  <1>4. AllRead(buf) /\ FinalsOver(buf)
    BY <1>3 DEF AllRead, FinalsOver
  <1>5. ColumnsHeld
    BY <1>2, <1>4 DEF ColumnsHeld, Holding
  <1> QED
    BY <1>1, <1>5 DEF ColumnInv

LEMMA NextColumns ==
  ASSUME IInv, ColumnInv, [Next]_vars
  PROVE  ColumnInv'
  <1>1. IInv'
    BY NextInv
  <1>2. req' = req
    BY DEF Next, vars, Refuse, Fail, GenSelect, GenSelectRelationships, GenInsert, GenUpdateMain, GenUpdateRel,
           GenDeleteNormal, GenDeleteRel, NextEntry, SelectRel, RefuseRel, FinishMain, FinishMainSorted,
           RefuseSort, FinishTable, Build, Terminated, WriteThenSelect, WriteOnly, SelectRelsFrom
  <1>3. (Fit' <=> Fit) /\ (NamesFields(req)' <=> NamesFields(req))
    BY <1>2, FitStays
  <1>4. ASSUME Fit PROVE ColumnsHeld'
    <2>1. NamesFields(req) /\ ColumnsHeld
      BY <1>4 DEF ColumnInv
    <2>2. CASE GenSelect \/ GenSelectRelationships
      BY <1>1, <1>4, <2>1, <2>2, GenSelectHeld, GenSelectRelationshipsHeld
    <2>3. CASE GenInsert \/ GenUpdateMain \/ GenUpdateRel
      BY <1>1, <1>4, <2>1, <2>3, GenInsertHeld, GenUpdateMainHeld, GenUpdateRelHeld
    <2>4. CASE GenDeleteNormal \/ GenDeleteRel
      BY <1>1, <1>4, <2>1, <2>4, DeletionsHeld
    <2>5. CASE NextEntry \/ SelectRel
      BY <1>1, <1>4, <2>1, <2>5, NextEntryHeld, SelectRelHeld
    <2>6. CASE FinishMain \/ FinishMainSorted
      BY <1>1, <1>4, <2>1, <2>6, FinishMainHeld, FinishMainSortedHeld
    <2>7. CASE FinishTable \/ Build
      BY <1>1, <2>1, <2>7, FinishTableHeld, BuildHeld
    <2>8. CASE Refuse \/ RefuseRel \/ RefuseSort \/ Terminated \/ UNCHANGED vars
      <3>1. Refuse \/ RefuseRel \/ RefuseSort \/ UNCHANGED vars
        BY <2>8 DEF Terminated
      <3> QED
        BY <1>1, <2>1, <3>1, StayHeld
    <2> QED
      BY <2>2, <2>3, <2>4, <2>5, <2>6, <2>7, <2>8 DEF Next
  <1> QED
    BY <1>3, <1>4 DEF ColumnInv

LEMMA ColumnsSuffice == ColumnInv => ColumnsResolve
  BY AllReadResolve DEF ColumnInv, ColumnsHeld, Fit, ColumnsResolve

\* A statement that is handed over resolves, for every store, table store and
\* request it is for: every column it names is exposed, once, by a table that
\* is in scope where it is named, and no column is set twice. This is what each
\* CTE must carry along for the joins and the sorting that come after it
\* (gen_select_cte, gen_inner_join, gen_left_join, gen_select_cte_final).
THEOREM ColumnsAreResolved == Spec => []ColumnsResolve
  <1>1. Init => IInv /\ ColumnInv
    BY InitInv, InitColumns
  <1>2. IInv /\ ColumnInv /\ [Next]_vars => (IInv /\ ColumnInv)'
    BY NextInv, NextColumns
  <1> QED
    BY <1>1, <1>2, ColumnsSuffice, PTL DEF Spec
=============================================================================
