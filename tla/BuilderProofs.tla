---------------------------- MODULE BuilderProofs ----------------------------
(***************************************************************************)
(* For every store, table store and set of requests: the types, the names  *)
(* of the CTEs, their definition before their use, and the working tables  *)
(* of the chains; the chains of a request are gone through in one order,   *)
(* each of them once, and a sort is refused for the reason the error gives. *)
(***************************************************************************)
EXTENDS BuilderProperties, SequenceFacts, FiniteSetTheorems

----------------------------------------------------------------------------
(* Sequences and buffers *)

\* A sequence over any set is one over its elements.
LEMMA SeqIsSeq ==
  ASSUME NEW S, NEW s \in Seq(S)
  PROVE  IsSeq(s)
  <1>1. s \in [1..Len(s) -> S] /\ Len(s) \in Nat /\ DOMAIN s = 1..Len(s)
    BY LenProperties
  <1>2. s \in [1..Len(s) -> ToSet(s)]
    BY <1>1 DEF ToSet
  <1> QED
    BY <1>1, <1>2, SeqDef DEF IsSeq

\* What concatenation does (the buffer grows by concatenation only).
LEMMA ConcatIsSeq ==
  ASSUME NEW s, NEW t, IsSeq(s), IsSeq(t)
  PROVE  /\ IsSeq(s \o t)
         /\ Len(s) \in Nat /\ DOMAIN s = 1..Len(s)
         /\ Len(t) \in Nat /\ DOMAIN t = 1..Len(t)
         /\ DOMAIN (s \o t) = 1..(Len(s) + Len(t))
         /\ \A i \in 1..Len(s) : (s \o t)[i] = s[i]
         /\ \A i \in 1..Len(t) : (s \o t)[Len(s) + i] = t[i]
  <1> DEFINE S == ToSet(s) \cup ToSet(t)
  <1>1. s \in Seq(S) /\ t \in Seq(S)
    BY SeqMonotonic DEF IsSeq
  <1> HIDE DEF S
  <1>2. /\ s \o t \in Seq(S)
        /\ Len(s \o t) = Len(s) + Len(t)
        /\ \A i \in 1..Len(s) + Len(t) :
             (s \o t)[i] = IF i <= Len(s) THEN s[i] ELSE t[i - Len(s)]
    BY <1>1, ConcatProperties
  <1>3. /\ Len(s) \in Nat /\ DOMAIN s = 1..Len(s)
        /\ Len(t) \in Nat /\ DOMAIN t = 1..Len(t)
        /\ DOMAIN (s \o t) = 1..(Len(s) + Len(t))
    BY <1>1, <1>2, LenProperties
  <1>4. IsSeq(s \o t)
    BY <1>2, SeqIsSeq
  <1>5. \A i \in 1..Len(s) : (s \o t)[i] = s[i]
    BY <1>2, <1>3
  <1>6. \A i \in 1..Len(t) : (s \o t)[Len(s) + i] = t[i]
    <2> SUFFICES ASSUME NEW i \in 1..Len(t) PROVE (s \o t)[Len(s) + i] = t[i]
      OBVIOUS
    <2>1. Len(s) + i \in 1..(Len(s) + Len(t)) /\ ~(Len(s) + i <= Len(s)) /\ Len(s) + i - Len(s) = i
      BY <1>3
    <2> QED
      BY <1>2, <2>1
  <1> QED
    BY <1>3, <1>4, <1>5, <1>6

\* The CTEs of a buffer are those of its parts.
LEMMA CtesOfConcat ==
  ASSUME NEW b, NEW toks, IsSeq(b), IsSeq(toks)
  PROVE  Ctes(b \o toks) = Ctes(b) \cup Ctes(toks)
  <1> DEFINE c == b \o toks
  <1>1. /\ Len(b) \in Nat /\ Len(toks) \in Nat
        /\ DOMAIN b = 1..Len(b) /\ DOMAIN toks = 1..Len(toks)
        /\ DOMAIN c = 1..(Len(b) + Len(toks))
        /\ \A i \in 1..Len(b) : c[i] = b[i]
        /\ \A i \in 1..Len(toks) : c[Len(b) + i] = toks[i]
    BY ConcatIsSeq
  <1> HIDE DEF c
  <1>2. ASSUME NEW i \in DOMAIN c, c[i].t = "cte"
        PROVE  c[i].tbl \in Ctes(b) \cup Ctes(toks)
    <2>1. CASE i <= Len(b)
      BY <1>1, <1>2, <2>1 DEF Ctes, Positions
    <2>2. CASE i > Len(b)
      <3>1. i - Len(b) \in 1..Len(toks) /\ c[i] = toks[i - Len(b)]
        BY <1>1, <2>2
      <3> QED
        BY <1>1, <1>2, <3>1 DEF Ctes, Positions
    <2> QED
      BY <1>1, <2>1, <2>2
  <1>3. ASSUME NEW i \in DOMAIN b, b[i].t = "cte"
        PROVE  b[i].tbl \in Ctes(c)
    BY <1>1, <1>3 DEF Ctes, Positions
  <1>4. ASSUME NEW i \in DOMAIN toks, toks[i].t = "cte"
        PROVE  toks[i].tbl \in Ctes(c)
    <2>1. Len(b) + i \in DOMAIN c /\ c[Len(b) + i] = toks[i]
      BY <1>1
    <2> QED
      BY <1>4, <2>1 DEF Ctes, Positions
  <1>5. Ctes(c) = Ctes(b) \cup Ctes(toks)
    BY <1>2, <1>3, <1>4 DEF Ctes, Positions
  <1> QED
    BY <1>5 DEF c

\* Tokens that use what was written, or what they write themselves first, keep
\* a buffer in order.
LEMMA UsesDefinedConcat ==
  ASSUME NEW b, NEW toks, IsSeq(b), IsSeq(toks), UsesDefined(b),
         \A i \in DOMAIN toks : \A tbl \in Uses(toks[i]) :
           \/ IsBase(tbl)
           \/ tbl \in Ctes(b)
           \/ \E j \in 1..(i - 1) : toks[j].t = "cte" /\ toks[j].tbl = tbl
  PROVE  UsesDefined(b \o toks)
  <1> DEFINE c == b \o toks
  <1>1. /\ Len(b) \in Nat /\ Len(toks) \in Nat
        /\ DOMAIN b = 1..Len(b) /\ DOMAIN toks = 1..Len(toks)
        /\ DOMAIN c = 1..(Len(b) + Len(toks))
        /\ \A i \in 1..Len(b) : c[i] = b[i]
        /\ \A i \in 1..Len(toks) : c[Len(b) + i] = toks[i]
    BY ConcatIsSeq
  <1> HIDE DEF c
  <1> SUFFICES ASSUME NEW i \in DOMAIN c, NEW tbl \in Uses(c[i]), ~IsBase(tbl)
               PROVE  \E j \in 1..(i - 1) : c[j].t = "cte" /\ c[j].tbl = tbl
    BY DEF UsesDefined, c
  <1>2. CASE i <= Len(b)
    <2>1. i \in DOMAIN b /\ c[i] = b[i]
      BY <1>1, <1>2
    <2>2. PICK j \in 1..(i - 1) : b[j].t = "cte" /\ b[j].tbl = tbl
      BY <2>1 DEF UsesDefined
    <2> QED
      BY <1>1, <1>2, <2>2
  <1>3. CASE i > Len(b)
    <2>1. i - Len(b) \in DOMAIN toks /\ c[i] = toks[i - Len(b)]
      BY <1>1, <1>3
    <2>2. CASE tbl \in Ctes(b)
      <3>1. PICK j \in DOMAIN b : b[j].t = "cte" /\ b[j].tbl = tbl
        BY <2>2 DEF Ctes, Positions
      <3> QED
        BY <1>1, <1>3, <3>1
    <2>3. CASE \E j \in 1..(i - Len(b) - 1) : toks[j].t = "cte" /\ toks[j].tbl = tbl
      <3>1. PICK j \in 1..(i - Len(b) - 1) : toks[j].t = "cte" /\ toks[j].tbl = tbl
        BY <2>3
      <3>2. Len(b) + j \in 1..(i - 1) /\ c[Len(b) + j] = toks[j]
        BY <1>1, <2>1, <3>1
      <3> QED
        BY <3>1, <3>2
    <2> QED
      BY <2>1, <2>2, <2>3
  <1> QED
    BY <1>1, <1>2, <1>3

\* Distinct names stay distinct when the names that are added are new.
LEMMA NamesUniqueConcat ==
  ASSUME NEW b, NEW toks, IsSeq(b), IsSeq(toks), NamesUnique(b), NamesUnique(toks),
         Ctes(b) \cap Ctes(toks) = {}
  PROVE  NamesUnique(b \o toks)
  <1> DEFINE c == b \o toks
  <1>1. /\ Len(b) \in Nat /\ Len(toks) \in Nat
        /\ DOMAIN b = 1..Len(b) /\ DOMAIN toks = 1..Len(toks)
        /\ DOMAIN c = 1..(Len(b) + Len(toks))
        /\ \A i \in 1..Len(b) : c[i] = b[i]
        /\ \A i \in 1..Len(toks) : c[Len(b) + i] = toks[i]
    BY ConcatIsSeq
  <1> HIDE DEF c
  <1>2. ASSUME NEW i \in Positions(c, {"cte"}), i > Len(b)
        PROVE  /\ i - Len(b) \in Positions(toks, {"cte"})
               /\ c[i] = toks[i - Len(b)]
               /\ c[i].tbl \in Ctes(toks)
    <2>1. i - Len(b) \in 1..Len(toks) /\ c[i] = toks[i - Len(b)]
      BY <1>1, <1>2 DEF Positions
    <2> QED
      BY <1>1, <1>2, <2>1 DEF Positions, Ctes
  <1>3. ASSUME NEW i \in Positions(c, {"cte"}), i <= Len(b)
        PROVE  /\ i \in Positions(b, {"cte"})
               /\ c[i] = b[i]
               /\ c[i].tbl \in Ctes(b)
    BY <1>1, <1>3 DEF Positions, Ctes
  <1> SUFFICES ASSUME NEW i \in Positions(c, {"cte"}), NEW j \in Positions(c, {"cte"}),
                      c[i].tbl = c[j].tbl
               PROVE  i = j
    BY DEF NamesUnique, c
  <1>4. i \in Int /\ j \in Int
    BY <1>1 DEF Positions
  <1>5. CASE i <= Len(b) /\ j <= Len(b)
    BY <1>3, <1>5 DEF NamesUnique
  <1>6. CASE i > Len(b) /\ j > Len(b)
    <2>1. i - Len(b) = j - Len(b)
      BY <1>2, <1>6 DEF NamesUnique
    <2> QED
      BY <1>1, <1>4, <2>1
  <1>7. CASE (i > Len(b)) # (j > Len(b))
    BY <1>1, <1>2, <1>3, <1>4, <1>7
  <1> QED
    BY <1>1, <1>4, <1>5, <1>6, <1>7

----------------------------------------------------------------------------
(* Tables, tokens and errors *)

LEMMA TupleIsSeq ==
  ASSUME NEW a, NEW b, NEW c, NEW d
  PROVE  /\ IsSeq(<<a>>) /\ DOMAIN <<a>> = {1}
         /\ IsSeq(<<a, b>>) /\ DOMAIN <<a, b>> = {1, 2}
         /\ IsSeq(<<a, b, c>>) /\ DOMAIN <<a, b, c>> = {1, 2, 3}
         /\ IsSeq(<<a, b, c, d>>) /\ DOMAIN <<a, b, c, d>> = {1, 2, 3, 4}
  <1> DEFINE S == {a, b, c, d}
  <1>1. <<a>> \in Seq(S) /\ <<a, b>> \in Seq(S) /\ <<a, b, c>> \in Seq(S) /\ <<a, b, c, d>> \in Seq(S)
    OBVIOUS
  <1>2. IsSeq(<<a>>) /\ IsSeq(<<a, b>>) /\ IsSeq(<<a, b, c>>) /\ IsSeq(<<a, b, c, d>>)
    BY <1>1, SeqIsSeq
  <1>3. /\ DOMAIN <<a>> = {1} /\ DOMAIN <<a, b>> = {1, 2}
        /\ DOMAIN <<a, b, c>> = {1, 2, 3} /\ DOMAIN <<a, b, c, d>> = {1, 2, 3, 4}
    OBVIOUS
  <1> QED
    BY <1>2, <1>3

LEMMA TablesTyped ==
  ASSUME NEW t \in Type, NEW n \in Nat, NEW p \in TablePrefix, NEW x \in TableSuffix
  PROVE  /\ BaseTable(t) \in Table
         /\ ToCte(t, p, x, n) \in Table
         /\ ToCte(t, p, x, n).is_cte /\ ToCte(t, p, x, n).index = n
         /\ ToCte(t, p, x, n).type = t
         /\ FinalTable(t) \in Table /\ ~FinalTable(t).is_cte
  BY DEF BaseTable, ToCte, FinalTable, Table, TablePrefix, TableSuffix, NoIndex

\* The tables of the CTEs an action writes, the first or the second.
LEMMA CtesTyped ==
  ASSUME NEW t \in Type, NEW n \in Nat
  PROVE  \A m \in {n, n + 1} :
           /\ \A x \in TableSuffix :
                /\ ToCte(t, "plain", x, m) \in Table
                /\ ToCte(t, "plain", x, m).is_cte /\ ToCte(t, "plain", x, m).index = m
           /\ \A p \in {"plain", "rel"} :
                /\ ToCte(t, p, "data", m) \in Table
                /\ ToCte(t, p, "data", m).is_cte /\ ToCte(t, p, "data", m).index = m
                /\ ToCte(t, p, "data", m).type = t
  <1>1. TablePrefix = {"plain", "rel"} /\ "data" \in TableSuffix
    BY DEF TablePrefix, TableSuffix
  <1>2. n + 1 \in Nat
    OBVIOUS
  <1> QED
    BY <1>1, <1>2, TablesTyped

LEMMA BaseIsBase ==
  ASSUME NEW t
  PROVE  IsBase(BaseTable(t)) /\ BaseTable(t).type = t
  BY DEF BaseTable, IsBase

LEMMA RequestTyped ==
  ASSUME IsRequest(req)
  PROVE  /\ MainTable.type \in Type /\ MainTable \in Table /\ IsBase(MainTable)
         /\ PathTable.type \in Type /\ PathTable \in Table /\ IsBase(PathTable)
  <1>1. req.path.type \in Type
    BY DEF IsRequest
  <1>2. MainType(req.path) \in Type
    <2>1. CASE req.path.rels = <<>>
      BY <1>1, <2>1 DEF MainType
    <2>2. CASE req.path.rels # <<>>
      <3>1. req.path.rels \in Seq(Rel)
        BY DEF IsRequest, IsChain
      <3>2. 1 \in 1..Len(req.path.rels)
        BY <2>2, <3>1, EmptySeq
      <3>3. req.path.rels[1] \in Rel
        BY <3>1, <3>2, ElementOfSeq
      <3>4. RelatedType(req.path.rels[1]) \in Type
        BY <3>3, RelationAssumption DEF RelatedType
      <3> QED
        BY <2>2, <3>4 DEF MainType
    <2> QED
      BY <2>1, <2>2
  <1> QED
    BY <1>1, <1>2 DEF MainTable, PathTable, BaseTable, IsBase, Table, TablePrefix, TableSuffix, NoIndex

\* gen_inner_join joins the table it is asked to reach, through a base table.
LEMMA JoinsUse ==
  ASSUME NEW r, NEW left, NEW right
  PROVE  \A j \in DOMAIN GenInnerJoin(r, left, right) :
           \/ GenInnerJoin(r, left, right)[j].tbl = left
           \/ IsBase(GenInnerJoin(r, left, right)[j].tbl)
  <1> DEFINE bucket == BaseTable(Relation[r].bucket)
  <1>1. IsBase(bucket)
    BY BaseIsBase
  <1> HIDE DEF bucket
  <1>2. CASE Relation[r].kind = "ManyToMany"
    <2>1. \A p, q, u, v : LET js == <<InnerJoin(bucket, p, q), InnerJoin(left, u, v)>> IN
            \A j \in DOMAIN js : js[j].tbl \in {left, bucket}
      BY DEF InnerJoin
    <2> QED
      BY <1>1, <1>2, <2>1 DEF GenInnerJoin, bucket
  <1>3. CASE Relation[r].kind # "ManyToMany"
    <2>1. \A u, v : LET js == <<InnerJoin(left, u, v)>> IN
            \A j \in DOMAIN js : js[j].tbl = left
      BY DEF InnerJoin
    <2> QED
      BY <1>3, <2>1 DEF GenInnerJoin
  <1> QED
    BY <1>2, <1>3

LEMMA CteToken ==
  ASSUME NEW tbl, NEW q, NEW from, NEW outs, NEW joins, NEW sets, NEW where
  PROVE  LET tok == Cte(tbl, Stmt(q, from, outs, joins, sets, where)) IN
         /\ tok.t = "cte" /\ tok.tbl = tbl /\ tok.stmt.from = from
         /\ Uses(tok) = {from} \cup {joins[j].tbl : j \in DOMAIN joins}
  BY DEF Cte, Stmt, Uses, JoinTablesOf, ToSet

LEMMA CteTokenAlone ==
  ASSUME NEW tbl, NEW q, NEW from, NEW outs, NEW sets, NEW where
  PROVE  LET tok == Cte(tbl, Stmt(q, from, outs, <<>>, sets, where)) IN
         tok.t = "cte" /\ tok.tbl = tbl /\ tok.stmt.from = from /\ Uses(tok) = {from}
  <1> DEFINE tok == Cte(tbl, Stmt(q, from, outs, <<>>, sets, where))
  <1>1. Uses(tok) = {from} \cup {<<>>[j].tbl : j \in DOMAIN <<>>}
    BY CteToken
  <1>2. DOMAIN <<>> = {}
    OBVIOUS
  <1>3. {<<>>[j].tbl : j \in DOMAIN <<>>} = {}
    BY <1>2
  <1>4. tok.t = "cte" /\ tok.tbl = tbl /\ tok.stmt.from = from
    BY CteToken
  <1> QED
    BY <1>1, <1>3, <1>4

LEMMA OtherTokens ==
  ASSUME NEW tbl, NEW order
  PROVE  /\ With.t = "with" /\ Uses(With) = {}
         /\ Comma.t = "comma" /\ Uses(Comma) = {}
         /\ Union.t = "union" /\ Uses(Union) = {}
         /\ Semicolon.t = "semicolon" /\ Uses(Semicolon) = {}
         /\ Select(tbl, order).t = "select" /\ Uses(Select(tbl, order)) = {tbl}
  BY DEF With, Comma, Union, Semicolon, Select, Uses

\* The errors of the checks: those of the sorting are met by none of them.
EarlyError == Error \ {"UnknownError", "SortingByMultiRel"}

\* Among at most five checks, one of those that fail is the first.
LEMMA FirstErrorTyped ==
  ASSUME NEW errs, DOMAIN errs \in {{1, 2}, {1, 2, 3}, {1, 2, 3, 4}, {1, 2, 3, 4, 5}},
         \A i \in DOMAIN errs : errs[i] \in EarlyError
  PROVE  /\ FirstError(errs) \in EarlyError
         /\ FirstError(errs) = "none" => \A i \in DOMAIN errs : errs[i] = "none"
  <1>1. CASE \A i \in DOMAIN errs : errs[i] = "none"
    BY <1>1 DEF FirstError, EarlyError, Error
  <1>2. CASE \E i \in DOMAIN errs : errs[i] # "none"
    <2>1. \E n \in DOMAIN errs : IsFirst(n, errs)
      <3>1. CASE errs[1] # "none"
        BY <3>1 DEF IsFirst
      <3>2. CASE errs[1] = "none" /\ errs[2] # "none"
        <4>1. IsFirst(2, errs)
          BY <3>2 DEF IsFirst
        <4> QED
          BY <4>1 DEF IsFirst
      <3>3. CASE errs[1] = "none" /\ errs[2] = "none" /\ 3 \in DOMAIN errs /\ errs[3] # "none"
        <4>1. IsFirst(3, errs)
          BY <3>3 DEF IsFirst
        <4> QED
          BY <4>1 DEF IsFirst
      <3>4. CASE /\ errs[1] = "none" /\ errs[2] = "none" /\ 3 \in DOMAIN errs /\ errs[3] = "none"
                 /\ 4 \in DOMAIN errs /\ errs[4] # "none"
        <4>1. IsFirst(4, errs)
          BY <3>4 DEF IsFirst
        <4> QED
          BY <4>1 DEF IsFirst
      <3>5. CASE /\ errs[1] = "none" /\ errs[2] = "none" /\ 3 \in DOMAIN errs /\ errs[3] = "none"
                 /\ 4 \in DOMAIN errs /\ errs[4] = "none"
        <4>1. IsFirst(5, errs)
          BY <1>2, <3>5 DEF IsFirst
        <4> QED
          BY <4>1 DEF IsFirst
      <3> QED
        BY <1>2, <3>1, <3>2, <3>3, <3>4, <3>5
    <2> DEFINE first == CHOOSE n \in DOMAIN errs : IsFirst(n, errs)
    <2>2. first \in DOMAIN errs /\ IsFirst(first, errs)
      BY <2>1
    <2>3. FirstError(errs) = errs[first] /\ errs[first] # "none"
      BY <1>2, <2>2 DEF FirstError, IsFirst
    <2> QED
      BY <2>2, <2>3
  <1> QED
    BY <1>1, <1>2

LEMMA ChecksTyped ==
  /\ \A types : Missing(types) \in EarlyError
  /\ \A ok : Unless(ok, "UnknownField") \in EarlyError
  /\ \A ok : Unless(ok, "ManyRelationshipDirectWrite") \in EarlyError
  /\ \A ok : Unless(ok, "UpdatingMainObject") \in EarlyError
  /\ \A ok : Unless(ok, "MissingRelationship") \in EarlyError
  /\ \A t, include : JsonError(t, include) \in EarlyError
  /\ \A r, data : RelationshipError(r, data) \in EarlyError
  /\ \A body : CheckInsertRequest(body) \in EarlyError
  BY DEF Missing, Unless, JsonError, RelationshipError, CheckInsertRequest, EarlyError, Error

LEMMA ExtractionTyped ==
  ASSUME NEW body, NEW t, NEW r, NEW data
  PROVE  ExtractData(body, t).err \in EarlyError /\ ExtractRelData(r, data).err \in EarlyError
  <1>1. ExtractRelData(r, data).err \in EarlyError
    BY DEF ExtractRelData, EarlyError, Error
  <1>2. ExtractData(body, t).err \in EarlyError
    BY ChecksTyped DEF ExtractData, EarlyError, Error
  <1> QED
    BY <1>1, <1>2

\* Whatever a builder refuses, it refuses with an error of its type.
LEMMA ErrorsTyped ==
  /\ SelectError \in EarlyError
  /\ InsertError \in EarlyError
  /\ UpdateMainError \in EarlyError
  /\ UpdateRelError \in EarlyError
  /\ \A r : DeleteRelError(r) \in EarlyError
  /\ \A r : SelectRelError(r) \in EarlyError
  /\ \A l, wt : LinkError(l, wt) \in Error
  /\ EarlyError \subseteq Error
  <1>1. ASSUME NEW a \in EarlyError, NEW b \in EarlyError, NEW c \in EarlyError, NEW d \in EarlyError, NEW e \in EarlyError
        PROVE  /\ FirstError(<<a, b>>) \in EarlyError
               /\ FirstError(<<a, b, c>>) \in EarlyError
               /\ FirstError(<<a, b, c, d>>) \in EarlyError
               /\ FirstError(<<a, b, c, d, e>>) \in EarlyError
    <2>1. FirstError(<<a, b>>) \in EarlyError
      <3> DEFINE errs == <<a, b>>
      <3>1. DOMAIN errs = {1, 2} /\ \A i \in DOMAIN errs : errs[i] \in EarlyError
        OBVIOUS
      <3> HIDE DEF errs
      <3>2. FirstError(errs) \in EarlyError
        BY <3>1, FirstErrorTyped
      <3> QED
        BY <3>2 DEF errs
    <2>2. FirstError(<<a, b, c>>) \in EarlyError
      <3> DEFINE errs == <<a, b, c>>
      <3>1. DOMAIN errs = {1, 2, 3} /\ \A i \in DOMAIN errs : errs[i] \in EarlyError
        OBVIOUS
      <3> HIDE DEF errs
      <3>2. FirstError(errs) \in EarlyError
        BY <3>1, FirstErrorTyped
      <3> QED
        BY <3>2 DEF errs
    <2>3. FirstError(<<a, b, c, d>>) \in EarlyError
      <3> DEFINE errs == <<a, b, c, d>>
      <3>1. DOMAIN errs = {1, 2, 3, 4} /\ \A i \in DOMAIN errs : errs[i] \in EarlyError
        OBVIOUS
      <3> HIDE DEF errs
      <3>2. FirstError(errs) \in EarlyError
        BY <3>1, FirstErrorTyped
      <3> QED
        BY <3>2 DEF errs
    <2>4. FirstError(<<a, b, c, d, e>>) \in EarlyError
      <3> DEFINE errs == <<a, b, c, d, e>>
      <3>1. DOMAIN errs = {1, 2, 3, 4, 5} /\ \A i \in DOMAIN errs : errs[i] \in EarlyError
        OBVIOUS
      <3> HIDE DEF errs
      <3>2. FirstError(errs) \in EarlyError
        BY <3>1, FirstErrorTyped
      <3> QED
        BY <3>2 DEF errs
    <2> QED
      BY <2>1, <2>2, <2>3, <2>4
  <1>2. SelectError \in EarlyError
    BY <1>1, ChecksTyped DEF SelectError
  <1>3. InsertError \in EarlyError
    BY <1>1, ChecksTyped, ExtractionTyped DEF InsertError
  <1>4. UpdateMainError \in EarlyError
    BY <1>1, ChecksTyped, ExtractionTyped DEF UpdateMainError
  <1>5. UpdateRelError \in EarlyError
    BY <1>1, ChecksTyped, ExtractionTyped DEF UpdateRelError
  <1>6. \A r : DeleteRelError(r) \in EarlyError
    <2>1. "ManyRelationshipDirectWrite" \in EarlyError
      BY DEF EarlyError, Error
    <2> QED
      BY <1>1, <2>1, ChecksTyped DEF DeleteRelError
  <1>7. \A r : SelectRelError(r) \in EarlyError
    BY <1>1, ChecksTyped DEF SelectRelError
  <1>8. \A l, wt : LinkError(l, wt) \in Error
    BY DEF LinkError, Unless, Error
  <1>9. EarlyError \subseteq Error
    BY DEF EarlyError
  <1> QED
    BY <1>2, <1>3, <1>4, <1>5, <1>6, <1>7, <1>8, <1>9

----------------------------------------------------------------------------
(* The buffer *)

\* The state predicates about the buffer survive tokens that name new CTEs,
\* numbered from cte_index, and use what is written. A CTE without a number is
\* written when select_rels is over.
LEMMA BufferGrows ==
  ASSUME BufferInv, StatementsTyped, cte_index \in Nat, cte_index' \in Nat,
         cte_index <= cte_index',
         pc' \in {"start", "rels"} => pc \in {"start", "rels"},
         NEW toks, IsSeq(toks), buf' = buf \o toks,
         NamesUnique(toks),
         \A i \in Positions(toks, {"cte"}) :
           IF toks[i].tbl.is_cte THEN toks[i].tbl.index \in cte_index..(cte_index' - 1)
           ELSE pc \in {"start", "rels"} /\ pc' \notin {"start", "rels"},
         \A i \in DOMAIN toks : \A tbl \in Uses(toks[i]) :
           \/ IsBase(tbl)
           \/ tbl \in Ctes(buf)
           \/ \E j \in 1..(i - 1) : toks[j].t = "cte" /\ toks[j].tbl = tbl,
         \A i \in Positions(toks, {"cte", "write"}) : toks[i].stmt.from \in Table
  PROVE  BufferInv' /\ StatementsTyped' /\ Ctes(buf') = Ctes(buf) \cup Ctes(toks)
  <1>1. IsSeq(buf)
    BY DEF BufferInv
  <1>2. /\ IsSeq(buf')
        /\ Len(buf) \in Nat /\ Len(toks) \in Nat
        /\ DOMAIN buf = 1..Len(buf) /\ DOMAIN toks = 1..Len(toks)
        /\ DOMAIN buf' = 1..(Len(buf) + Len(toks))
        /\ \A i \in 1..Len(buf) : buf'[i] = buf[i]
        /\ \A i \in 1..Len(toks) : buf'[Len(buf) + i] = toks[i]
    BY <1>1, ConcatIsSeq
  <1>3. \A i \in DOMAIN buf' :
          \/ i \in DOMAIN buf /\ buf'[i] = buf[i]
          \/ i - Len(buf) \in DOMAIN toks /\ buf'[i] = toks[i - Len(buf)]
    BY <1>2
  <1>4. Ctes(buf') = Ctes(buf) \cup Ctes(toks)
    BY <1>1, CtesOfConcat
  <1>5. Numbered'
    <2> SUFFICES ASSUME NEW i \in DOMAIN buf', buf'[i].t = "cte"
                 PROVE  /\ buf'[i].tbl.is_cte => buf'[i].tbl.index \in 0..(cte_index' - 1)
                        /\ pc' \in {"start", "rels"} => buf'[i].tbl.is_cte
      BY DEF Numbered, CtePositions, Positions
    <2>1. CASE i \in DOMAIN buf /\ buf'[i] = buf[i]
      <3>1. /\ buf[i].tbl.is_cte => buf[i].tbl.index \in 0..(cte_index - 1)
            /\ pc \in {"start", "rels"} => buf[i].tbl.is_cte
        BY <2>1 DEF BufferInv, Numbered, CtePositions, Positions
      <3> QED
        BY <2>1, <3>1
    <2>2. CASE i - Len(buf) \in DOMAIN toks /\ buf'[i] = toks[i - Len(buf)]
      BY <2>2 DEF Positions
    <2> QED
      BY <1>3, <2>1, <2>2
  <1>6. Ctes(buf) \cap Ctes(toks) = {}
    <2> SUFFICES ASSUME NEW x \in Ctes(buf), x \in Ctes(toks) PROVE FALSE
      OBVIOUS
    <2>1. /\ x.is_cte => x.index \in 0..(cte_index - 1)
          /\ pc \in {"start", "rels"} => x.is_cte
      BY DEF BufferInv, Numbered, CtePositions, Ctes
    <2>2. IF x.is_cte THEN x.index \in cte_index..(cte_index' - 1)
          ELSE pc \in {"start", "rels"}
      BY DEF Ctes
    <2> QED
      BY <2>1, <2>2
  <1>7. CteNamesUnique'
    BY <1>1, <1>6, NamesUniqueConcat DEF BufferInv, CteNamesUnique
  <1>8. DefinedBeforeUse'
    BY <1>1, UsesDefinedConcat DEF BufferInv, DefinedBeforeUse
  <1>9. StatementsTyped'
    BY <1>3 DEF StatementsTyped, StmtPositions, Positions
  <1> QED
    BY <1>2, <1>4, <1>5, <1>7, <1>8, <1>9 DEF BufferInv

\* The shapes the actions add to the buffer: a CTE, two CTEs of which the second
\* may use the first, tokens without a CTE, and the final CTE with its select.
LEMMA OneCte ==
  ASSUME BufferInv, StatementsTyped, cte_index \in Nat, cte_index' = cte_index + 1,
         pc \in {"start", "rels"},
         NEW sep \in {With, Comma}, NEW tok, buf' = buf \o <<sep, tok>>,
         tok.t = "cte", tok.tbl.is_cte, tok.tbl.index = cte_index, tok.stmt.from \in Table,
         \A tbl \in Uses(tok) : IsBase(tbl) \/ tbl \in Ctes(buf)
  PROVE  BufferInv' /\ StatementsTyped' /\ Ctes(buf') = Ctes(buf) \cup {tok.tbl}
  <1> DEFINE toks == <<sep, tok>>
  <1>1. IsSeq(toks) /\ DOMAIN toks = {1, 2} /\ toks[1] = sep /\ toks[2] = tok
    BY TupleIsSeq
  <1>2. sep.t \notin {"cte", "write"} /\ Uses(sep) = {}
    BY OtherTokens
  <1>3. buf' = buf \o toks
    OBVIOUS
  <1> HIDE DEF toks
  <1>4. Positions(toks, {"cte"}) = {2} /\ Positions(toks, {"cte", "write"}) = {2}
    BY <1>1, <1>2 DEF Positions
  <1>5. Ctes(toks) = {tok.tbl} /\ NamesUnique(toks)
    BY <1>1, <1>4 DEF Ctes, NamesUnique
  <1>6. cte_index' \in Nat /\ cte_index <= cte_index' /\ tok.tbl.index \in cte_index..(cte_index' - 1)
    OBVIOUS
  <1>7. \A i \in DOMAIN toks : \A tbl \in Uses(toks[i]) : IsBase(tbl) \/ tbl \in Ctes(buf)
    BY <1>1, <1>2
  <1> QED
    BY <1>1, <1>3, <1>4, <1>5, <1>6, <1>7, BufferGrows

LEMMA TwoCtes ==
  ASSUME BufferInv, StatementsTyped, cte_index \in Nat, cte_index' = cte_index + 2,
         pc \in {"start", "rels"},
         NEW a, NEW b, buf' = buf \o <<With, a, Comma, b>>,
         a.t = "cte", a.tbl.is_cte, a.tbl.index = cte_index, a.stmt.from \in Table,
         b.t = "cte", b.tbl.is_cte, b.tbl.index = cte_index + 1, b.stmt.from \in Table,
         \A tbl \in Uses(a) : IsBase(tbl) \/ tbl \in Ctes(buf),
         \A tbl \in Uses(b) : IsBase(tbl) \/ tbl \in Ctes(buf) \/ tbl = a.tbl
  PROVE  BufferInv' /\ StatementsTyped' /\ Ctes(buf') = Ctes(buf) \cup {a.tbl, b.tbl}
  <1> DEFINE toks == <<With, a, Comma, b>>
  <1>1. /\ IsSeq(toks) /\ DOMAIN toks = {1, 2, 3, 4}
        /\ toks[1] = With /\ toks[2] = a /\ toks[3] = Comma /\ toks[4] = b
    <2>1. \A w, c : IsSeq(<<w, a, c, b>>)
      BY TupleIsSeq
    <2>2. /\ DOMAIN toks = {1, 2, 3, 4}
          /\ toks[1] = With /\ toks[2] = a /\ toks[3] = Comma /\ toks[4] = b
      OBVIOUS
    <2> QED
      BY <2>1, <2>2
  <1>2. /\ With.t \notin {"cte", "write"} /\ Uses(With) = {}
        /\ Comma.t \notin {"cte", "write"} /\ Uses(Comma) = {}
    BY OtherTokens
  <1>3. buf' = buf \o toks
    OBVIOUS
  <1> HIDE DEF toks
  <1>4. Positions(toks, {"cte"}) = {2, 4} /\ Positions(toks, {"cte", "write"}) = {2, 4}
    BY <1>1, <1>2 DEF Positions
  <1>5. a.tbl # b.tbl
    OBVIOUS
  <1>6. Ctes(toks) = {a.tbl, b.tbl} /\ NamesUnique(toks)
    BY <1>1, <1>4, <1>5 DEF Ctes, NamesUnique
  <1>7. /\ cte_index' \in Nat /\ cte_index <= cte_index'
        /\ \A i \in Positions(toks, {"cte"}) :
             toks[i].tbl.is_cte /\ toks[i].tbl.index \in cte_index..(cte_index' - 1)
    BY <1>1, <1>4
  <1>8. \A i \in DOMAIN toks : \A tbl \in Uses(toks[i]) :
          \/ IsBase(tbl)
          \/ tbl \in Ctes(buf)
          \/ \E j \in 1..(i - 1) : toks[j].t = "cte" /\ toks[j].tbl = tbl
    <2> SUFFICES ASSUME NEW i \in DOMAIN toks, NEW tbl \in Uses(toks[i]),
                        ~IsBase(tbl), tbl \notin Ctes(buf)
                 PROVE  \E j \in 1..(i - 1) : toks[j].t = "cte" /\ toks[j].tbl = tbl
      OBVIOUS
    <2>1. i = 4 /\ tbl = a.tbl
      BY <1>1, <1>2
    <2>2. 2 \in 1..(i - 1)
      BY <2>1
    <2> QED
      BY <1>1, <2>1, <2>2
  <1>9. \A i \in Positions(toks, {"cte", "write"}) : toks[i].stmt.from \in Table
    BY <1>1, <1>4
  <1> QED
    BY <1>1, <1>3, <1>6, <1>7, <1>8, <1>9, BufferGrows

LEMMA NoCte ==
  ASSUME BufferInv, StatementsTyped, cte_index \in Nat, cte_index' = cte_index,
         pc' \in {"start", "rels"} => pc \in {"start", "rels"},
         NEW toks, IsSeq(toks), buf' = buf \o toks,
         \A i \in DOMAIN toks :
           /\ toks[i].t # "cte"
           /\ toks[i].t = "write" => toks[i].stmt.from \in Table
           /\ \A tbl \in Uses(toks[i]) : IsBase(tbl) \/ tbl \in Ctes(buf)
  PROVE  BufferInv' /\ StatementsTyped' /\ Ctes(buf') = Ctes(buf)
  <1>1. Positions(toks, {"cte"}) = {}
    BY DEF Positions
  <1>2. NamesUnique(toks) /\ Ctes(toks) = {}
    BY <1>1 DEF NamesUnique, Ctes
  <1>3. \A i \in Positions(toks, {"cte", "write"}) : toks[i].stmt.from \in Table
    BY DEF Positions
  <1>4. cte_index' \in Nat /\ cte_index <= cte_index'
    OBVIOUS
  <1> QED
    BY <1>1, <1>2, <1>3, <1>4, BufferGrows

LEMMA FinalCte ==
  ASSUME BufferInv, StatementsTyped, cte_index \in Nat, cte_index' = cte_index,
         pc = "rels", pc' = "finish",
         NEW tok, NEW order, buf' = buf \o <<Comma, tok, Select(tok.tbl, order)>>,
         tok.t = "cte", ~tok.tbl.is_cte, tok.stmt.from \in Table,
         \A tbl \in Uses(tok) : tbl \in Ctes(buf)
  PROVE  BufferInv' /\ StatementsTyped' /\ Ctes(buf') = Ctes(buf) \cup {tok.tbl}
  <1> DEFINE last == Select(tok.tbl, order)
             toks == <<Comma, tok, last>>
  <1>1. /\ IsSeq(toks) /\ DOMAIN toks = {1, 2, 3}
        /\ toks[1] = Comma /\ toks[2] = tok /\ toks[3] = last
    BY TupleIsSeq
  <1>2. /\ Comma.t \notin {"cte", "write"} /\ Uses(Comma) = {}
        /\ last.t \notin {"cte", "write"} /\ Uses(last) = {tok.tbl}
    BY OtherTokens
  <1>3. buf' = buf \o toks
    OBVIOUS
  <1> HIDE DEF toks, last
  <1>4. Positions(toks, {"cte"}) = {2} /\ Positions(toks, {"cte", "write"}) = {2}
    BY <1>1, <1>2 DEF Positions
  <1>5. Ctes(toks) = {tok.tbl} /\ NamesUnique(toks)
    BY <1>1, <1>4 DEF Ctes, NamesUnique
  <1>6. \A i \in DOMAIN toks : \A tbl \in Uses(toks[i]) :
          \/ IsBase(tbl)
          \/ tbl \in Ctes(buf)
          \/ \E j \in 1..(i - 1) : toks[j].t = "cte" /\ toks[j].tbl = tbl
    <2> SUFFICES ASSUME NEW i \in DOMAIN toks, NEW tbl \in Uses(toks[i]), tbl \notin Ctes(buf)
                 PROVE  \E j \in 1..(i - 1) : toks[j].t = "cte" /\ toks[j].tbl = tbl
      OBVIOUS
    <2>1. i = 3 /\ tbl = tok.tbl
      BY <1>1, <1>2
    <2>2. 2 \in 1..(i - 1)
      BY <2>1
    <2> QED
      BY <1>1, <2>1, <2>2
  <1>7. cte_index' \in Nat /\ cte_index <= cte_index'
    OBVIOUS
  <1>8. \A i \in Positions(toks, {"cte"}) : ~toks[i].tbl.is_cte
    BY <1>1, <1>4
  <1>9. \A i \in Positions(toks, {"cte", "write"}) : toks[i].stmt.from \in Table
    BY <1>1, <1>4
  <1> QED
    BY <1>1, <1>3, <1>5, <1>6, <1>7, <1>8, <1>9, BufferGrows

----------------------------------------------------------------------------
(* Chains *)

LEMMA PrefixProperties ==
  ASSUME NEW S, NEW c \in Seq(S), NEW n \in 1..Len(c)
  PROVE  /\ Prefix(c, n) \in Seq(S) /\ Len(Prefix(c, n)) = n
         /\ Last(Prefix(c, n)) = c[n] /\ c[n] \in S
         /\ Prefix(c, Len(c)) = c
         /\ \A i \in 1..n : Prefix(Prefix(c, n), i) = Prefix(c, i)
  <1>1. Len(c) \in Nat /\ n \in Int /\ 1 \in Int /\ \A i \in 1..n : c[i] \in S
    BY LenProperties, ElementOfSeq
  <1>2. /\ SubSeq(c, 1, n) \in Seq(S)
        /\ Len(SubSeq(c, 1, n)) = n
        /\ \A i \in 1..n : SubSeq(c, 1, n)[i] = c[i]
    <2>1. 1 <= n /\ n - 1 + 1 = n /\ \A i \in 1..n : 1 + i - 1 = i
      BY <1>1
    <2>2. \A i \in 1..(n - 1 + 1) : SubSeq(c, 1, n)[i] = c[1 + i - 1]
      BY <1>1, SubSeqProperties
    <2>3. SubSeq(c, 1, n) \in Seq(S) /\ Len(SubSeq(c, 1, n)) = n - 1 + 1
      BY <1>1, <2>1, SubSeqProperties
    <2> QED
      BY <2>1, <2>2, <2>3
  <1>3. Last(SubSeq(c, 1, n)) = c[n] /\ c[n] \in S
    BY <1>1, <1>2 DEF Last
  <1>4. SubSeq(c, 1, Len(c)) = c
    BY SubSeqFull
  <1>5. ASSUME NEW i \in 1..n
        PROVE  SubSeq(SubSeq(c, 1, n), 1, i) = SubSeq(c, 1, i)
    <2>1. /\ 1 \in 1..Len(c) /\ n \in 1..Len(c)
          /\ 1 \in 1..(n - 1 + 1) /\ i \in 1..(n - 1 + 1)
          /\ 1 + 1 - 1 = 1 /\ 1 + i - 1 = i
      BY <1>1
    <2> QED
      BY <2>1, SubSeqOfSubSeq
  <1> QED
    BY <1>2, <1>3, <1>4, <1>5 DEF Prefix

\* Every chain of an inclusion map is one of the request.
LEMMA InclusionMapTyped ==
  ASSUME IsRequest(req)
  PROVE  /\ \A c \in DOMAIN BuildInclusionMap(req) :
              c \in Seq(Rel) /\ BuildInclusionMap(req)[c].resp \in ResponseType
         /\ \A c \in DOMAIN Unwanted(BuildInclusionMap(req)) :
              c \in Seq(Rel) /\ Unwanted(BuildInclusionMap(req))[c].resp \in ResponseType
  <1>1. req.include \cup SortChains(req) \subseteq Seq(Rel)
    <2>1. \A i \in DOMAIN req.sort : req.sort[i].chain \in Seq(Rel)
      <3> DEFINE S == [chain : Seq(Rel), field : Ident, desc : BOOLEAN]
                 s == req.sort
      <3>1. s \in Seq(S)
        BY DEF IsRequest, IsChain
      <3>2. \A x \in S : x.chain \in Seq(Rel)
        OBVIOUS
      <3> HIDE DEF S, s
      <3>3. DOMAIN s = 1..Len(s) /\ \A i \in 1..Len(s) : s[i] \in S
        BY <3>1, LenProperties, ElementOfSeq
      <3>4. \A i \in DOMAIN s : s[i].chain \in Seq(Rel)
        BY <3>2, <3>3
      <3> QED
        BY <3>4 DEF s
    <2> QED
      BY <2>1 DEF IsRequest, IsChain, SortChains
  <1>2. DOMAIN BuildInclusionMap(req) = req.include \cup SortChains(req)
    BY DEF BuildInclusionMap
  <1>3. \A c \in DOMAIN BuildInclusionMap(req) : BuildInclusionMap(req)[c].resp \in ResponseType
    BY DEF BuildInclusionMap, ResponseType
  <1>4. /\ DOMAIN Unwanted(BuildInclusionMap(req)) = DOMAIN BuildInclusionMap(req)
        /\ \A c \in DOMAIN BuildInclusionMap(req) : Unwanted(BuildInclusionMap(req))[c].resp = "None"
    BY DEF Unwanted, BuildInclusionMap
  <1> QED
    BY <1>1, <1>2, <1>3, <1>4 DEF ResponseType

\* The path of a relationship is a chain of one link.
LEMMA PathRelTyped ==
  ASSUME IsRequest(req), req.path.kind \in {"TypeIdRelated", "TypeIdRelationship"}
  PROVE  /\ req.path.rels \in Seq(Rel) /\ Len(req.path.rels) = 1 /\ PathRel \in Rel
  BY ElementOfSeq DEF IsRequest, IsChain, PathRel

----------------------------------------------------------------------------
(* The initial states *)

LEMMA EmptyMap == DOMAIN NoChains = {}
  BY DEF NoChains

LEMMA InitInv == Init => IInv
  <1> SUFFICES ASSUME Init PROVE IInv
    OBVIOUS
  <1>1. IsRequest(req)
    BY RequestsAssumption DEF Init
  <1>2. DOMAIN working_tables = {} /\ DOMAIN taken = {} /\ DOMAIN todo = {}
    BY EmptyMap DEF Init
  <1>3. buf = <<>> /\ DOMAIN buf = {} /\ IsSeq(buf)
    <2>1. buf = <<>> /\ buf \in Seq({})
      BY DEF Init
    <2>2. IsSeq(buf)
      BY <2>1, SeqIsSeq
    <2> QED
      BY <2>1, <2>2
  <1>4. /\ at.tbl = MainTable /\ at.chain = <<>> /\ at.i = 0 /\ at.resp = "None"
        /\ main = MainTable
    BY DEF Init, Nowhere, Enter
  <1>5. MainTable \in Table
    BY <1>1, RequestTyped
  <1>6. TypeOK
    <2>1. at.chain \in Seq(Rel) /\ at.i \in 0..Len(at.chain) /\ at.resp \in ResponseType
      BY <1>4 DEF ResponseType
    <2>2. DOMAIN at = {"chain", "i", "tbl", "resp", "sorts"}
      BY DEF Init, Nowhere, Enter
    <2>3. StatementsTyped
      BY <1>3 DEF StatementsTyped, StmtPositions, Positions
    <2> QED
      BY <1>2, <1>4, <1>5, <2>1, <2>2, <2>3 DEF TypeOK, Init, Error
  <1>7. BufferInv
    BY <1>3 DEF BufferInv, Numbered, CtePositions, Positions, CteNamesUnique, NamesUnique,
                DefinedBeforeUse, UsesDefined
  <1>8. ChainsInv
    BY <1>2 DEF Init, ChainsInv, HandlesWritten, Climbing, Relating, ChainsHaveParents
  <1> QED
    BY <1>1, <1>6, <1>7, <1>8 DEF IInv

----------------------------------------------------------------------------
(* The steps *)

\* A refusal keeps everything but where the generation is.
LEMMA FailInv ==
  ASSUME IInv, NEW e \in Error, e # "none", Fail(e)
  PROVE  IInv'
  <1> USE DEF Fail
  <1>1. TypeOK'
    BY DEF IInv, TypeOK, StatementsTyped, StmtPositions, Positions
  <1>2. BufferInv'
    BY DEF IInv, BufferInv, Numbered, CtePositions, Positions, CteNamesUnique, NamesUnique,
           DefinedBeforeUse, UsesDefined
  <1>3. ChainsInv'
    BY DEF IInv, ChainsInv, HandlesWritten, Climbing, Relating, ChainsHaveParents, Ctes, Positions,
           WritesRel
  <1> QED
    BY <1>1, <1>2, <1>3 DEF IInv

\* The beginning of select_rels, whatever was written before.
LEMMA SelectRelsFromInv ==
  ASSUME IInv, NEW data, NEW map, SelectRelsFrom(data, map),
         BufferInv', StatementsTyped', cte_index' \in Nat,
         Ctes(buf) \subseteq Ctes(buf'), data \in Ctes(buf'), data \in Table,
         \A c \in DOMAIN map : c \in Seq(Rel) /\ map[c].resp \in ResponseType,
         pc = "start",
         WritesRel => req.path.rels \in DOMAIN map
  PROVE  IInv'
  <1> USE DEF SelectRelsFrom
  <1>1. /\ at'.tbl = data /\ at'.chain = <<>> /\ at'.i = 0 /\ at'.resp = "None"
        /\ DOMAIN at' = {"chain", "i", "tbl", "resp", "sorts"}
        /\ main' = data /\ todo' = map /\ pc' = "rels"
        /\ UNCHANGED <<req, err, working_tables, taken>>
    BY DEF Nowhere, Enter
  <1>2. TypeOK'
    <2>1. at'.chain \in Seq(Rel) /\ at'.i \in 0..Len(at'.chain) /\ at'.resp \in ResponseType
      BY <1>1 DEF ResponseType
    <2>2. \A m \in {working_tables', taken'} : \A c \in DOMAIN m :
            /\ c \in Seq(Rel)
            /\ m[c].tbl \in Table
            /\ m[c].resp \in ResponseType
      BY <1>1 DEF IInv, TypeOK
    <2>3. err' \in Error /\ ((err' = "none") <=> (pc' # "failed"))
      BY <1>1 DEF IInv, TypeOK
    <2> QED
      BY <1>1, <2>1, <2>2, <2>3 DEF TypeOK
  <1>3. HandlesWritten' /\ Climbing' /\ ChainsHaveParents'
    BY <1>1 DEF IInv, ChainsInv, HandlesWritten, Climbing, ChainsHaveParents
  <1>4. Relating'
    BY <1>1 DEF Relating, WritesRel
  <1>5. IsRequest(req)'
    BY <1>1 DEF IInv
  <1> QED
    BY <1>2, <1>3, <1>4, <1>5 DEF IInv, ChainsInv

LEMMA GenSelectInv ==
  ASSUME IInv, GenSelect
  PROVE  IInv'
  <1> DEFINE t == MainTable.type
             fields == JsonFields(req.sparse, t, TRUE)
             data == ToCte(t, "plain", "data", cte_index)
             pushed == SelectParams(t, <<>>, fields)
             joins == IF req.path.kind = "TypeIdRelated"
                      THEN GenInnerJoin(PathRel, PathTable, MainTable) ELSE <<>>
             where == IF req.path.kind = "Type" THEN <<>> ELSE ComparePkey(PathTable, Len(pushed))
             outs == SelectOuts(MainTable, t, <<>>, RelFields(t) \o SortKeysForMain(req), fields, 0)
             tok == Cte(data, Stmt("select", MainTable, outs, joins, <<>>, where))
  <1>1. /\ pc = "start" /\ req.op = "read"
        /\ cte_index' = cte_index + 1
        /\ buf' = buf \o <<With, tok>>
        /\ SelectRelsFrom(data, BuildInclusionMap(req))
    BY DEF GenSelect
  <1> HIDE DEF fields, pushed, joins, where, outs
  <1>2. IsRequest(req) /\ BufferInv /\ StatementsTyped /\ cte_index \in Nat
    BY DEF IInv, TypeOK
  <1>3. MainTable \in Table /\ IsBase(MainTable) /\ IsBase(PathTable) /\ t \in Type
    BY <1>2, RequestTyped
  <1>4. data \in Table /\ data.is_cte /\ data.index = cte_index
    BY <1>2, <1>3, CtesTyped
  <1>5. /\ tok.t = "cte" /\ tok.tbl = data /\ tok.stmt.from = MainTable
        /\ Uses(tok) = {MainTable} \cup {joins[j].tbl : j \in DOMAIN joins}
    BY CteToken
  <1>6. \A j \in DOMAIN joins : IsBase(joins[j].tbl)
    BY <1>3, JoinsUse DEF joins
  <1> HIDE DEF tok, data
  <1>7. BufferInv' /\ StatementsTyped' /\ Ctes(buf') = Ctes(buf) \cup {data}
    <2>1. /\ tok.tbl.is_cte /\ tok.tbl.index = cte_index /\ tok.stmt.from \in Table
          /\ pc \in {"start", "rels"} /\ With \in {With, Comma}
      BY <1>1, <1>3, <1>4, <1>5
    <2>2. \A tbl \in Uses(tok) : IsBase(tbl) \/ tbl \in Ctes(buf)
      BY <1>3, <1>5, <1>6
    <2>3. BufferInv' /\ StatementsTyped' /\ Ctes(buf') = Ctes(buf) \cup {tok.tbl}
      BY <1>1, <1>2, <1>5, <2>1, <2>2, OneCte
    <2> QED
      BY <1>5, <2>3
  <1> QED
    <2>1. /\ cte_index' \in Nat /\ Ctes(buf) \subseteq Ctes(buf') /\ data \in Ctes(buf')
          /\ ~WritesRel
      BY <1>1, <1>2, <1>7 DEF WritesRel
    <2> QED
      BY <1>1, <1>2, <1>4, <1>7, <2>1, InclusionMapTyped, SelectRelsFromInv

LEMMA GenSelectRelationshipsInv ==
  ASSUME IInv, GenSelectRelationships
  PROVE  IInv'
  <1> DEFINE t == MainTable.type
             data == ToCte(t, "plain", "data", cte_index)
             owner == ToCte(PathTable.type, "rel", "data", cte_index + 1)
             relating == <<[tbl |-> PathTable, chain |-> req.path.rels]>>
             pushed == SelectParams(t, relating, <<>>)
             n == Len(pushed) + Len(PrimaryKey(PathTable.type))
             ownerPushed == SelectParams(PathTable.type, <<>>, <<>>)
             outs == SelectOuts(MainTable, t, relating, RelFields(t) \o SortKeysForMain(req), <<>>, 0)
             joins == GenInnerJoin(PathRel, PathTable, MainTable)
             where == ComparePkey(PathTable, Len(pushed))
             ownerOuts == SelectOuts(PathTable, PathTable.type, <<>>, RelFields(PathTable.type), <<>>, n)
             ownerWhere == ComparePkey(PathTable, n + Len(ownerPushed))
             a == Cte(data, Stmt("select", MainTable, outs, joins, <<>>, where))
             b == Cte(owner, Stmt("select", PathTable, ownerOuts, <<>>, <<>>, ownerWhere))
  <1>1. /\ pc = "start" /\ req.op = "read"
        /\ cte_index' = cte_index + 2
        /\ buf' = buf \o <<With, a, Comma, b>>
        /\ SelectRelsFrom(data, Unwanted(BuildInclusionMap(req)))
    BY DEF GenSelectRelationships
  <1> HIDE DEF relating, pushed, n, ownerPushed, outs, joins, where, ownerOuts, ownerWhere,
               a, b, data, owner
  <1>2. IsRequest(req) /\ BufferInv /\ StatementsTyped /\ cte_index \in Nat
    BY DEF IInv, TypeOK
  <1>3. /\ MainTable \in Table /\ IsBase(MainTable) /\ t \in Type
        /\ PathTable \in Table /\ IsBase(PathTable) /\ PathTable.type \in Type
    BY <1>2, RequestTyped
  <1>4. /\ data \in Table /\ data.is_cte /\ data.index = cte_index
        /\ owner.is_cte /\ owner.index = cte_index + 1
    BY <1>2, <1>3, CtesTyped DEF data, owner
  <1>5. /\ a.t = "cte" /\ a.tbl = data /\ a.stmt.from = MainTable
        /\ Uses(a) = {MainTable} \cup {joins[j].tbl : j \in DOMAIN joins}
    BY CteToken DEF a
  <1>6. \A j \in DOMAIN joins : IsBase(joins[j].tbl)
    BY <1>3, JoinsUse DEF joins
  <1>7. b.t = "cte" /\ b.tbl = owner /\ b.stmt.from = PathTable /\ Uses(b) = {PathTable}
    BY CteTokenAlone DEF b
  <1>8. BufferInv' /\ StatementsTyped' /\ Ctes(buf') = Ctes(buf) \cup {data, owner}
    <2>1. /\ a.tbl.is_cte /\ a.tbl.index = cte_index /\ a.stmt.from \in Table
          /\ b.tbl.is_cte /\ b.tbl.index = cte_index + 1 /\ b.stmt.from \in Table
          /\ pc \in {"start", "rels"}
      BY <1>1, <1>3, <1>4, <1>5, <1>7
    <2>2. /\ \A tbl \in Uses(a) : IsBase(tbl) \/ tbl \in Ctes(buf)
          /\ \A tbl \in Uses(b) : IsBase(tbl) \/ tbl \in Ctes(buf) \/ tbl = a.tbl
      BY <1>3, <1>5, <1>6, <1>7
    <2>3. BufferInv' /\ StatementsTyped' /\ Ctes(buf') = Ctes(buf) \cup {a.tbl, b.tbl}
      BY <1>1, <1>2, <1>5, <1>7, <2>1, <2>2, TwoCtes
    <2> QED
      BY <1>5, <1>7, <2>3
  <1> QED
    <2>1. /\ cte_index' \in Nat /\ Ctes(buf) \subseteq Ctes(buf') /\ data \in Ctes(buf')
          /\ ~WritesRel
      <3>1. cte_index' = cte_index + 2 /\ cte_index \in Nat
        BY <1>1, <1>2
      <3>2. ~WritesRel
        BY <1>1 DEF WritesRel
      <3> QED
        BY <3>1, <3>2, <1>8
    <2> QED
      BY <1>1, <1>2, <1>4, <1>8, <2>1, InclusionMapTyped, SelectRelsFromInv

\* The two CTEs of a write: the second selects from the first.
LEMMA WriteThenSelectInv ==
  ASSUME IInv, pc = "start", NEW tbl \in Table, IsBase(tbl), tbl.type \in Type,
         NEW suffix \in TableSuffix, NEW q, NEW souts, NEW sets, NEW where,
         NEW written, NEW additional, NEW map,
         WriteThenSelect(tbl.type, suffix, Stmt(q, tbl, souts, <<>>, sets, where),
                         written, additional, map),
         \A c \in DOMAIN map : c \in Seq(Rel) /\ map[c].resp \in ResponseType,
         WritesRel => req.path.rels \in DOMAIN map
  PROVE  IInv'
  <1> DEFINE t == tbl.type
             row == ToCte(t, "plain", suffix, cte_index)
             data == ToCte(t, "plain", "data", cte_index + 1)
             fields == JsonFields(req.sparse, t, TRUE)
             outs == SelectOuts(row, t, <<>>, additional, fields, Len(written))
             a == Cte(row, Stmt(q, tbl, souts, <<>>, sets, where))
             b == Cte(data, Stmt("select", row, outs, <<>>, <<>>, <<>>))
  <1>1. /\ cte_index' = cte_index + 2
        /\ buf' = buf \o <<With, a, Comma, b>>
        /\ SelectRelsFrom(data, map)
    BY DEF WriteThenSelect
  <1> HIDE DEF outs, fields, a, b, data, row
  <1>2. BufferInv /\ StatementsTyped /\ cte_index \in Nat
    BY DEF IInv, TypeOK
  <1>3. /\ data \in Table /\ data.is_cte /\ data.index = cte_index + 1
        /\ row \in Table /\ row.is_cte /\ row.index = cte_index
    BY <1>2, CtesTyped DEF data, row
  <1>4. a.t = "cte" /\ a.tbl = row /\ a.stmt.from = tbl /\ Uses(a) = {tbl}
    BY CteTokenAlone DEF a
  <1>5. b.t = "cte" /\ b.tbl = data /\ b.stmt.from = row /\ Uses(b) = {row}
    BY CteTokenAlone DEF b
  <1>6. BufferInv' /\ StatementsTyped' /\ Ctes(buf') = Ctes(buf) \cup {row, data}
    <2>1. /\ a.tbl.is_cte /\ a.tbl.index = cte_index /\ a.stmt.from \in Table
          /\ b.tbl.is_cte /\ b.tbl.index = cte_index + 1 /\ b.stmt.from \in Table
          /\ pc \in {"start", "rels"}
      BY <1>3, <1>4, <1>5
    <2>2. /\ \A x \in Uses(a) : IsBase(x) \/ x \in Ctes(buf)
          /\ \A x \in Uses(b) : IsBase(x) \/ x \in Ctes(buf) \/ x = a.tbl
      BY <1>4, <1>5
    <2>3. BufferInv' /\ StatementsTyped' /\ Ctes(buf') = Ctes(buf) \cup {a.tbl, b.tbl}
      BY <1>1, <1>2, <1>4, <1>5, <2>1, <2>2, TwoCtes
    <2> QED
      BY <1>4, <1>5, <2>3
  <1> QED
    <2>1. cte_index' \in Nat /\ Ctes(buf) \subseteq Ctes(buf') /\ data \in Ctes(buf')
      <3>1. cte_index' = cte_index + 2 /\ cte_index \in Nat
        BY <1>1, <1>2
      <3> QED
        BY <3>1, <1>6
    <2> QED
      BY <1>1, <1>3, <1>6, <2>1, SelectRelsFromInv

LEMMA GenInsertInv ==
  ASSUME IInv, GenInsert
  PROVE  IInv'
  <1> DEFINE t == MainTable.type
             data == ExtractData(req.body, t)
             sets == SetList(data.values, 0)
  <1>1. /\ pc = "start" /\ req.op = "create"
        /\ WriteThenSelect(t, "insert", Stmt("insert", MainTable, <<>>, <<>>, sets, <<>>),
             ValueParams(data.values), data.fields \o SortKeysForMain(req), BuildInclusionMap(req))
    BY DEF GenInsert
  <1>2. IsRequest(req) /\ "insert" \in TableSuffix
    BY DEF IInv, TableSuffix
  <1>3. MainTable \in Table /\ IsBase(MainTable) /\ t \in Type
    BY <1>2, RequestTyped
  <1> HIDE DEF data, sets
  <1> QED
    BY <1>1, <1>2, <1>3, InclusionMapTyped, WriteThenSelectInv DEF WritesRel

LEMMA GenUpdateMainInv ==
  ASSUME IInv, GenUpdateMain
  PROVE  IInv'
  <1> DEFINE t == MainTable.type
             data == ExtractData(req.body, t)
             where == ComparePkey(MainTable, 0)
             sets == SetList(data.values, 0)
             rowWhere == ComparePkey(MainTable, Len(data.values))
             q == IF data.values = <<>> THEN "star" ELSE "update"
             cond == IF data.values = <<>> THEN where ELSE rowWhere
             set == IF data.values = <<>> THEN <<>> ELSE sets
  <1>1. /\ pc = "start" /\ WritesMain
        /\ WriteThenSelect(t, "update", Stmt(q, MainTable, <<>>, <<>>, set, cond),
             ValueParams(data.values) \o PkeyParams(t),
             data.fields \o SortKeysForMain(req), BuildInclusionMap(req))
    BY DEF GenUpdateMain, UpdateStmt
  <1>2. IsRequest(req) /\ "update" \in TableSuffix /\ ~WritesRel
    BY <1>1 DEF IInv, TableSuffix, WritesMain, WritesRel
  <1>3. MainTable \in Table /\ IsBase(MainTable) /\ t \in Type
    BY <1>2, RequestTyped
  <1> HIDE DEF data, q, set, cond
  <1> QED
    BY <1>1, <1>2, <1>3, InclusionMapTyped, WriteThenSelectInv

LEMMA GenUpdateRelInv ==
  ASSUME IInv, GenUpdateRel
  PROVE  IInv'
  <1> DEFINE t == PathTable.type
             data == ExtractRelData(PathRel, req.body.data)
             entry == [resp |-> "Id", sorts |-> Reverse(SortsOf(req, <<>>))]
             map == [c \in {req.path.rels} |-> entry]
             sets == SetList(data.values, 0)
             where == ComparePkey(PathTable, Len(data.values))
  <1>1. /\ pc = "start" /\ WritesRel
        /\ WriteThenSelect(t, "update", Stmt("update", PathTable, <<>>, <<>>, sets, where),
             ValueParams(data.values) \o PkeyParams(t), data.fields, map)
    BY DEF GenUpdateRel, UpdateStmt
  <1>2. IsRequest(req) /\ "update" \in TableSuffix
    BY DEF IInv, TableSuffix
  <1>3. PathTable \in Table /\ IsBase(PathTable) /\ t \in Type
    BY <1>2, RequestTyped
  <1>4. req.path.rels \in Seq(Rel)
    BY <1>2 DEF IsRequest, IsChain
  <1>5. /\ DOMAIN map = {req.path.rels}
        /\ \A c \in DOMAIN map : c \in Seq(Rel) /\ map[c].resp \in ResponseType
    BY <1>4 DEF ResponseType
  <1> HIDE DEF data, map, sets, where
  <1> QED
    BY <1>1, <1>2, <1>3, <1>5, WriteThenSelectInv

LEMMA WriteOnlyInv ==
  ASSUME IInv, pc = "start", NEW tbl \in Table, IsBase(tbl),
         NEW q, NEW sets, NEW where, WriteOnly(Stmt(q, tbl, <<>>, <<>>, sets, where))
  PROVE  IInv'
  <1> DEFINE tok == Write(Stmt(q, tbl, <<>>, <<>>, sets, where))
             toks == <<tok>>
  <1>1. /\ buf' = buf \o toks /\ pc' = "finish"
        /\ UNCHANGED <<req, err, cte_index, working_tables, main, todo, at, taken>>
    BY DEF WriteOnly
  <1>2. tok.t = "write" /\ tok.stmt.from = tbl /\ Uses(tok) = {tbl}
    <2>1. /\ tok.t = "write" /\ tok.stmt.from = tbl
          /\ Uses(tok) = {tbl} \cup {<<>>[j].tbl : j \in DOMAIN <<>>}
      BY DEF Write, Stmt, Uses, JoinTablesOf, ToSet
    <2>2. DOMAIN <<>> = {}
      OBVIOUS
    <2> QED
      BY <2>1, <2>2
  <1>3. IsSeq(toks) /\ DOMAIN toks = {1} /\ toks[1] = tok
    BY TupleIsSeq
  <1>4. BufferInv /\ StatementsTyped /\ cte_index \in Nat
    BY DEF IInv, TypeOK
  <1> HIDE DEF tok, toks
  <1>5. BufferInv' /\ StatementsTyped' /\ Ctes(buf') = Ctes(buf)
    <2>1. \A i \in DOMAIN toks :
            /\ toks[i].t # "cte"
            /\ toks[i].t = "write" => toks[i].stmt.from \in Table
            /\ \A x \in Uses(toks[i]) : IsBase(x) \/ x \in Ctes(buf)
      BY <1>2, <1>3
    <2> QED
      BY <1>1, <1>3, <1>4, <2>1, NoCte
  <1>6. TypeOK'
    BY <1>1, <1>5 DEF IInv, TypeOK
  <1>7. ChainsInv'
    BY <1>1, <1>5 DEF IInv, ChainsInv, HandlesWritten, Climbing, Relating, ChainsHaveParents
  <1> QED
    BY <1>1, <1>5, <1>6, <1>7 DEF IInv

LEMMA GenDeleteInv ==
  ASSUME IInv, GenDeleteNormal \/ GenDeleteRel
  PROVE  IInv'
  <1>1. IsRequest(req)
    BY DEF IInv
  <1>2. CASE GenDeleteNormal
    <2> DEFINE where == ComparePkey(PathTable, 0)
    <2>1. pc = "start" /\ WriteOnly(Stmt("delete", PathTable, <<>>, <<>>, <<>>, where))
      BY <1>2 DEF GenDeleteNormal
    <2> HIDE DEF where
    <2> QED
      BY <1>1, <2>1, RequestTyped, WriteOnlyInv
  <1>3. CASE GenDeleteRel
    <2>1. PICK r \in AliasesTo(req.path.type, MainType(req.path)) :
            WriteOnly(Stmt("update", BaseTable(ManyResource(r)), <<>>, <<>>,
                           <<[col |-> Relation[r].key, param |-> 0]>>,
                           ComparePkey(BaseTable(ManyResource(r)), 0)))
      BY <1>3 DEF GenDeleteRel
    <2> DEFINE many == BaseTable(ManyResource(r))
               sets == <<[col |-> Relation[r].key, param |-> 0]>>
               where == ComparePkey(many, 0)
    <2>2. pc = "start" /\ WriteOnly(Stmt("update", many, <<>>, <<>>, sets, where))
      BY <1>3, <2>1 DEF GenDeleteRel
    <2>3. r \in Rel
      BY DEF AliasesTo
    <2>4. ManyResource(r) \in Type
      BY <2>3, RelationAssumption DEF ManyResource, RelatedType
    <2>5. many \in Table /\ IsBase(many)
      BY <2>4, BaseIsBase DEF BaseTable, Table, TablePrefix, TableSuffix, NoIndex
    <2> HIDE DEF many, sets, where
    <2> QED
      BY <2>2, <2>5, WriteOnlyInv
  <1> QED
    BY <1>2, <1>3

\* When select_rels is over with the chain of the path, it has a working table.
LEMMA PathChainDone ==
  ASSUME IInv, pc = "rels", EntryDone, WritesRel, req.path.rels = at.chain
  PROVE  req.path.rels \in DOMAIN working_tables
  <1>1. /\ req.path.rels \in Seq(Rel) /\ Len(req.path.rels) = 1
    BY PathRelTyped DEF IInv, WritesRel
  <1>2. at.i = 1 /\ 1 \in 1..1
    BY <1>1 DEF EntryDone
  <1>3. Prefix(at.chain, 1) = at.chain
    BY <1>1, <1>2, PrefixProperties
  <1>4. Prefix(at.chain, 1) \in DOMAIN working_tables
    BY <1>2 DEF IInv, ChainsInv, Climbing
  <1> QED
    BY <1>3, <1>4

\* Nothing is written when the next chain is taken; the chain of the path, when
\* it is the one that is over, has its working table.
LEMMA NextEntryInv ==
  ASSUME IInv, NextEntry
  PROVE  IInv'
  <1>1. PICK c \in DOMAIN todo :
          at' = Enter(c, todo[c], main) /\ todo' = Without(todo, c)
    BY DEF NextEntry
  <1>2. /\ pc = "rels" /\ EntryDone
        /\ UNCHANGED <<req, pc, err, cte_index, params, buf, working_tables, main, taken>>
    BY DEF NextEntry
  <1>3. /\ at'.chain = c /\ at'.i = 0 /\ at'.tbl = main /\ at'.resp = todo[c].resp
        /\ DOMAIN at' = {"chain", "i", "tbl", "resp", "sorts"}
    BY <1>1 DEF Enter
  <1>4. DOMAIN todo' = DOMAIN todo \ {c} /\ \A d \in DOMAIN todo' : todo'[d] = todo[d]
    BY <1>1 DEF Without
  <1>5. TypeOK'
    <2>1. c \in Seq(Rel) /\ Len(c) \in Nat /\ todo[c].resp \in ResponseType
      BY LenProperties DEF IInv, TypeOK
    <2>2. at'.tbl \in Table /\ at'.chain \in Seq(Rel) /\ at'.i \in 0..Len(at'.chain)
          /\ at'.resp \in ResponseType
      BY <1>3, <2>1 DEF IInv, TypeOK
    <2>3. \A d \in DOMAIN todo' : d \in Seq(Rel) /\ todo'[d].resp \in ResponseType
      BY <1>4 DEF IInv, TypeOK
    <2>4. StatementsTyped'
      BY <1>2 DEF IInv, TypeOK, StatementsTyped, StmtPositions, Positions
    <2> QED
      BY <1>2, <1>3, <2>2, <2>3, <2>4 DEF IInv, TypeOK
  <1>6. BufferInv'
    BY <1>2 DEF IInv, BufferInv, Numbered, CtePositions, Positions, CteNamesUnique, NamesUnique,
                DefinedBeforeUse, UsesDefined
  <1>7. HandlesWritten' /\ ChainsHaveParents'
    BY <1>2, <1>3 DEF IInv, ChainsInv, HandlesWritten, ChainsHaveParents, Ctes, Positions
  <1>8. Climbing'
    BY <1>3 DEF Climbing
  <1>9. Relating'
    <2> SUFFICES ASSUME WritesRel
                 PROVE  \/ req.path.rels \in DOMAIN todo'
                        \/ req.path.rels = at'.chain
                        \/ req.path.rels \in DOMAIN working_tables'
      BY <1>2 DEF Relating, WritesRel
    <2>1. CASE req.path.rels \in DOMAIN todo
      BY <1>3, <1>4, <2>1
    <2>2. CASE req.path.rels = at.chain
      BY <1>2, <2>2, PathChainDone
    <2>3. CASE req.path.rels \in DOMAIN working_tables
      BY <1>2, <2>3
    <2> QED
      BY <1>2, <2>1, <2>2, <2>3 DEF IInv, ChainsInv, Relating
  <1> QED
    BY <1>2, <1>5, <1>6, <1>7, <1>8, <1>9 DEF IInv, ChainsInv

LEMMA SelectRelInv ==
  ASSUME IInv, SelectRel
  PROVE  IInv'
  <1> DEFINE n == at.i + 1
             r == at.chain[n]
             t == RelatedType(r)
             here == Prefix(at.chain, n)
             cte == ToCte(t, "rel", "data", cte_index)
             relating == <<[tbl |-> at.tbl, chain |-> here]>>
             fields == JsonFields(req.sparse, t, Returned(r, at.resp))
             additional == RelFields(t) \o MapSeq(SortField, at.sorts)
             outs == SelectOuts(BaseTable(t), t, relating, additional, fields, Len(params))
             joins == GenInnerJoin(r, at.tbl, BaseTable(t))
             tok == Cte(cte, Stmt("select", BaseTable(t), outs, joins, <<>>, <<>>))
  <1>1. /\ pc = "rels" /\ ~EntryDone
        /\ cte_index' = cte_index + 1
        /\ buf' = buf \o <<Comma, tok>>
        /\ working_tables' = [c \in DOMAIN working_tables \cup {here} |->
                                IF c = here THEN [tbl |-> cte, resp |-> at.resp]
                                            ELSE working_tables[c]]
        /\ at' = [at EXCEPT !.i = n, !.tbl = cte]
        /\ UNCHANGED <<req, pc, err, main, todo, taken>>
    BY DEF SelectRel, CurrentRelChain
  <1> HIDE DEF relating, fields, additional, outs, joins, tok, cte, t
  <1>2. /\ IsRequest(req) /\ BufferInv /\ StatementsTyped /\ cte_index \in Nat
        /\ at.chain \in Seq(Rel) /\ at.i \in 0..Len(at.chain) /\ at.resp \in ResponseType
        /\ at.tbl \in Ctes(buf)
    BY <1>1 DEF IInv, TypeOK, ChainsInv, HandlesWritten
  <1>3. n \in 1..Len(at.chain)
    BY <1>1, <1>2, LenProperties DEF EntryDone
  <1>4. /\ here \in Seq(Rel) /\ Len(here) = n /\ Last(here) = r /\ r \in Rel
        /\ \A i \in 1..n : Prefix(here, i) = Prefix(at.chain, i)
    BY <1>2, <1>3, PrefixProperties
  <1>5. t \in Type
    BY <1>4, RelationAssumption DEF t, RelatedType
  <1>6. BaseTable(t) \in Table /\ IsBase(BaseTable(t))
    BY <1>5, BaseIsBase DEF BaseTable, Table, TablePrefix, TableSuffix, NoIndex
  <1>7. cte \in Table /\ cte.is_cte /\ cte.index = cte_index /\ cte.type = t
    BY <1>2, <1>5, CtesTyped DEF cte
  <1>8. /\ tok.t = "cte" /\ tok.tbl = cte /\ tok.stmt.from = BaseTable(t)
        /\ Uses(tok) = {BaseTable(t)} \cup {joins[j].tbl : j \in DOMAIN joins}
    BY CteToken DEF tok
  <1>9. \A j \in DOMAIN joins : joins[j].tbl = at.tbl \/ IsBase(joins[j].tbl)
    BY JoinsUse DEF joins
  <1>10. BufferInv' /\ StatementsTyped' /\ Ctes(buf') = Ctes(buf) \cup {cte}
    <2>1. /\ tok.tbl.is_cte /\ tok.tbl.index = cte_index /\ tok.stmt.from \in Table
          /\ pc \in {"start", "rels"} /\ Comma \in {With, Comma}
      BY <1>1, <1>6, <1>7, <1>8
    <2>2. \A tbl \in Uses(tok) : IsBase(tbl) \/ tbl \in Ctes(buf)
      BY <1>2, <1>6, <1>8, <1>9
    <2>3. BufferInv' /\ StatementsTyped' /\ Ctes(buf') = Ctes(buf) \cup {tok.tbl}
      BY <1>1, <1>2, <1>8, <2>1, <2>2, OneCte
    <2> QED
      BY <1>8, <2>3
  <1>11. /\ at'.chain = at.chain /\ at'.resp = at.resp
         /\ at'.i = n /\ at'.tbl = cte
         /\ DOMAIN at' = {"chain", "i", "tbl", "resp", "sorts"}
    BY <1>1 DEF IInv, TypeOK
  <1>12. /\ DOMAIN working_tables' = DOMAIN working_tables \cup {here}
         /\ working_tables'[here].tbl = cte /\ working_tables'[here].resp = at.resp
         /\ \A c \in DOMAIN working_tables : c # here => working_tables'[c] = working_tables[c]
    BY <1>1
  <1> HIDE DEF here, r
  <1>13. TypeOK'
    <2>1. /\ at'.tbl \in Table /\ at'.chain \in Seq(Rel) /\ at'.i \in 0..Len(at'.chain)
          /\ at'.resp \in ResponseType
      BY <1>2, <1>3, <1>7, <1>11
    <2>2. \A c \in DOMAIN working_tables' :
            /\ c \in Seq(Rel)
            /\ working_tables'[c].tbl \in Table
            /\ working_tables'[c].resp \in ResponseType
      BY <1>2, <1>4, <1>7, <1>12 DEF IInv, TypeOK
    <2>3. cte_index' \in Nat
      BY <1>1, <1>2
    <2> QED
      BY <1>1, <1>10, <1>11, <2>1, <2>2, <2>3 DEF IInv, TypeOK
  <1>14. HandlesWritten'
    BY <1>1, <1>10, <1>11, <1>12 DEF IInv, ChainsInv, HandlesWritten
  <1>15. Climbing'
    <2>1. \A i \in 1..n : i \in 1..at.i \/ i = n
      BY <1>2, <1>3
    <2>2. \A i \in 1..n : Prefix(at.chain, i) \in DOMAIN working_tables'
      BY <1>1, <1>12, <2>1 DEF IInv, ChainsInv, Climbing, here
    <2> QED
      BY <1>11, <2>2 DEF Climbing
  <1>16. Relating'
    BY <1>1, <1>11, <1>12 DEF IInv, ChainsInv, Relating, WritesRel
  <1>17. ChainsHaveParents'
    <2> SUFFICES ASSUME NEW c \in DOMAIN working_tables'
                 PROVE  /\ \A i \in 1..Len(c) : Prefix(c, i) \in DOMAIN working_tables'
                        /\ working_tables'[c].tbl.type = RelatedType(Last(c))
      BY DEF ChainsHaveParents
    <2>1. CASE c = here
      <3>1. \A i \in 1..n : Prefix(at.chain, i) \in DOMAIN working_tables'
        BY <1>1, <1>11, <1>15 DEF Climbing
      <3> QED
        BY <1>4, <1>7, <1>12, <2>1, <3>1 DEF t
    <2>2. CASE c # here
      BY <1>12, <2>2 DEF IInv, ChainsInv, ChainsHaveParents
    <2> QED
      BY <2>1, <2>2
  <1> QED
    BY <1>1, <1>2, <1>10, <1>13, <1>14, <1>15, <1>16, <1>17 DEF IInv, ChainsInv

\* What the main select reads is written; so is what finish_request goes
\* through afterwards.
LEMMA RemainingWritten ==
  ASSUME IInv, RelsDone
  PROVE  /\ Selected \in Ctes(buf) /\ Selected \in Table
         /\ \A c \in DOMAIN Remaining :
              /\ c \in Seq(Rel)
              /\ Remaining[c].tbl \in Ctes(buf)
              /\ Remaining[c].tbl \in Table
              /\ Remaining[c].resp \in ResponseType
  <1>1. pc = "rels" /\ EntryDone /\ DOMAIN todo = {}
    BY EmptyMap DEF RelsDone
  <1>2. /\ main \in Ctes(buf) /\ main \in Table
        /\ \A c \in DOMAIN working_tables :
             /\ c \in Seq(Rel)
             /\ working_tables[c].tbl \in Ctes(buf)
             /\ working_tables[c].tbl \in Table
             /\ working_tables[c].resp \in ResponseType
    BY <1>1 DEF IInv, TypeOK, ChainsInv, HandlesWritten
  <1>3. CASE WritesRel
    <2> DEFINE c == req.path.rels
    <2>1. c \in DOMAIN working_tables
      BY <1>1, <1>3, PathChainDone DEF IInv, ChainsInv, Relating
    <2>2. /\ DOMAIN Remaining = DOMAIN working_tables
          /\ Remaining[c].tbl = main /\ Remaining[c].resp = "Id"
          /\ \A d \in DOMAIN working_tables : d # c => Remaining[d] = working_tables[d]
      BY <1>3, <2>1 DEF Remaining
    <2> HIDE DEF c
    <2>3. Selected = working_tables[c].tbl
      BY <1>3 DEF Selected, c
    <2> QED
      BY <1>2, <2>1, <2>2, <2>3 DEF ResponseType
  <1>4. CASE ~WritesRel
    BY <1>2, <1>4 DEF Selected, Remaining
  <1> QED
    BY <1>3, <1>4

\* Once select_rels is over nothing is added to the working tables.
LEMMA TakeInv ==
  ASSUME IInv, RelsDone, TakeWorkingTables, BufferInv', StatementsTyped',
         Ctes(buf) \subseteq Ctes(buf'),
         UNCHANGED <<req, err, cte_index, params, main, todo, at>>
  PROVE  IInv'
  <1>1. /\ pc = "rels" /\ pc' = "finish" /\ DOMAIN working_tables' = {} /\ taken' = Remaining
    BY EmptyMap DEF RelsDone, TakeWorkingTables
  <1>2. \A c \in DOMAIN taken' :
          /\ c \in Seq(Rel)
          /\ taken'[c].tbl \in Ctes(buf')
          /\ taken'[c].tbl \in Table
          /\ taken'[c].resp \in ResponseType
    BY <1>1, RemainingWritten
  <1>3. TypeOK'
    <2>1. \A map \in {working_tables', taken'} : \A c \in DOMAIN map :
            /\ c \in Seq(Rel)
            /\ map[c].tbl \in Table
            /\ map[c].resp \in ResponseType
      BY <1>1, <1>2
    <2>2. err' = "none"
      BY <1>1 DEF IInv, TypeOK
    <2> QED
      BY <1>1, <2>1, <2>2 DEF IInv, TypeOK
  <1>4. ChainsInv'
    BY <1>1, <1>2 DEF ChainsInv, HandlesWritten, Climbing, Relating, ChainsHaveParents
  <1> QED
    BY <1>3, <1>4 DEF IInv

LEMMA FinishMainInv ==
  ASSUME IInv, FinishMain
  PROVE  IInv'
  <1> DEFINE tok == Select(Selected, <<>>)
             toks == <<tok>>
  <1>1. /\ RelsDone /\ pc = "rels" /\ pc' = "finish" /\ TakeWorkingTables
        /\ buf' = buf \o toks
        /\ UNCHANGED <<req, err, cte_index, params, main, todo, at>>
    BY DEF FinishMain, RelsDone, TakeWorkingTables
  <1>2. tok.t = "select" /\ Uses(tok) = {Selected}
    BY OtherTokens
  <1>3. IsSeq(toks) /\ DOMAIN toks = {1} /\ toks[1] = tok
    BY TupleIsSeq
  <1>4. BufferInv /\ StatementsTyped /\ cte_index \in Nat
    BY DEF IInv, TypeOK
  <1> HIDE DEF tok, toks
  <1>5. \A i \in DOMAIN toks :
          /\ toks[i].t # "cte"
          /\ toks[i].t = "write" => toks[i].stmt.from \in Table
          /\ \A x \in Uses(toks[i]) : IsBase(x) \/ x \in Ctes(buf)
    BY <1>1, <1>2, <1>3, RemainingWritten
  <1>6. BufferInv' /\ StatementsTyped' /\ Ctes(buf') = Ctes(buf)
    BY <1>1, <1>3, <1>4, <1>5, NoCte
  <1> QED
    BY <1>1, <1>6, TakeInv

LEMMA FinishMainSortedInv ==
  ASSUME IInv, FinishMainSorted
  PROVE  IInv'
  <1> DEFINE final == FinalTable(Selected.type)
             outs == <<Out(<<"*">>, <<Ref(Selected, MainId)>>, <<>>)>> \o SortOuts(Selected, Remaining)
             links == SortLinks(BuildInclusionMap(req))
             joins == SortJoins(Selected, Remaining)
             order == OrderBy
             tok == Cte(final, Stmt("final", Selected, outs, joins, <<>>, <<>>))
  <1>1. /\ RelsDone /\ pc = "rels" /\ pc' = "finish" /\ TakeWorkingTables
        /\ buf' = buf \o <<Comma, tok, Select(final, order)>>
        /\ UNCHANGED <<req, err, cte_index, params, main, todo, at>>
    BY DEF FinishMainSorted, FinalStmt, RelsDone, TakeWorkingTables
  <1>2. \A n \in DOMAIN SortErrors(Remaining) : SortErrors(Remaining)[n] = "none"
    BY DEF FinishMainSorted
  <1> HIDE DEF outs, joins, order, tok, links
  <1>3. BufferInv /\ StatementsTyped /\ cte_index \in Nat
    BY DEF IInv, TypeOK
  <1>4. Selected \in Table /\ Selected \in Ctes(buf) /\ Selected.type \in Type
    BY <1>1, RemainingWritten DEF Table
  <1>5. ~final.is_cte
    BY DEF FinalTable
  <1>6. /\ tok.t = "cte" /\ tok.tbl = final /\ tok.stmt.from = Selected
        /\ Uses(tok) = {Selected} \cup {joins[j].tbl : j \in DOMAIN joins}
    BY CteToken DEF tok
  <1> HIDE DEF final
  <1>7. \A j \in DOMAIN joins : joins[j].tbl \in Ctes(buf)
    <2> SUFFICES ASSUME NEW j \in DOMAIN joins PROVE joins[j].tbl \in Ctes(buf)
      OBVIOUS
    <2> DEFINE c == Prefix(links[j].chain, links[j].i)
    <2>1. j \in DOMAIN links /\ joins[j].tbl = Remaining[c].tbl
      BY DEF joins, SortJoins, links, MapSeq, GenLeftJoin, LeftJoin
    <2>2. j \in DOMAIN SortErrors(Remaining) /\ SortErrors(Remaining)[j] = LinkError(links[j], Remaining)
      BY <2>1 DEF SortErrors, links, MapSeq
    <2>3. LinkError(links[j], Remaining) = "none"
      BY <1>2, <2>2
    <2>4. c \in DOMAIN Remaining
      BY <2>3 DEF LinkError
    <2> HIDE DEF c
    <2> QED
      BY <1>1, <2>1, <2>4, RemainingWritten
  <1>8. BufferInv' /\ StatementsTyped' /\ Ctes(buf') = Ctes(buf) \cup {final}
    <2>1. /\ cte_index' = cte_index /\ ~tok.tbl.is_cte /\ tok.stmt.from \in Table
          /\ buf' = buf \o <<Comma, tok, Select(tok.tbl, order)>>
      BY <1>1, <1>4, <1>5, <1>6
    <2>2. \A tbl \in Uses(tok) : tbl \in Ctes(buf)
      BY <1>4, <1>6, <1>7
    <2> QED
      BY <1>1, <1>3, <1>6, <2>1, <2>2, FinalCte
  <1> QED
    BY <1>1, <1>8, TakeInv

LEMMA FinishTableInv ==
  ASSUME IInv, FinishTable
  PROVE  IInv'
  <1>1. /\ pc = "finish" /\ pc' = "finish"
        /\ UNCHANGED <<req, err, cte_index, params, working_tables, main, todo, at>>
    BY DEF FinishTable
  <1>2. PICK c \in DOMAIN taken :
          /\ buf' = IF taken[c].resp = "None" THEN buf
                    ELSE buf \o <<Union, Select(taken[c].tbl, <<>>)>>
          /\ taken' = Without(taken, c)
    BY DEF FinishTable
  <1>3. DOMAIN taken' \subseteq DOMAIN taken /\ \A d \in DOMAIN taken' : taken'[d] = taken[d]
    BY <1>2 DEF Without
  <1>4. BufferInv /\ StatementsTyped /\ cte_index \in Nat
    BY DEF IInv, TypeOK
  <1>5. BufferInv' /\ StatementsTyped' /\ Ctes(buf') = Ctes(buf)
    <2>1. CASE taken[c].resp = "None"
      <3>1. buf' = buf /\ pc' = pc /\ cte_index' = cte_index
        BY <1>1, <1>2, <2>1
      <3> QED
        BY <1>4, <3>1 DEF BufferInv, Numbered, CtePositions, StmtPositions, Positions, CteNamesUnique,
                          NamesUnique, DefinedBeforeUse, UsesDefined, StatementsTyped, Ctes
    <2>2. CASE taken[c].resp # "None"
      <3> DEFINE last == Select(taken[c].tbl, <<>>)
                 toks == <<Union, last>>
      <3>1. last.t = "select" /\ Uses(last) = {taken[c].tbl} /\ Union.t = "union" /\ Uses(Union) = {}
        BY OtherTokens
      <3>2. IsSeq(toks) /\ DOMAIN toks = {1, 2} /\ toks[1] = Union /\ toks[2] = last
        <4>1. \A u : IsSeq(<<u, last>>)
          BY TupleIsSeq
        <4>2. DOMAIN toks = {1, 2} /\ toks[1] = Union /\ toks[2] = last
          OBVIOUS
        <4> QED
          BY <4>1, <4>2
      <3>3. buf' = buf \o toks
        BY <1>2, <2>2
      <3> HIDE DEF last, toks
      <3>4. taken[c].tbl \in Ctes(buf)
        BY DEF IInv, ChainsInv, HandlesWritten
      <3>5. \A i \in DOMAIN toks :
              /\ toks[i].t # "cte"
              /\ toks[i].t = "write" => toks[i].stmt.from \in Table
              /\ \A x \in Uses(toks[i]) : IsBase(x) \/ x \in Ctes(buf)
        BY <3>1, <3>2, <3>4
      <3> QED
        BY <1>1, <1>4, <3>2, <3>3, <3>5, NoCte
    <2> QED
      BY <2>1, <2>2
  <1>6. TypeOK'
    <2>1. \A map \in {working_tables', taken'} : \A d \in DOMAIN map :
            /\ d \in Seq(Rel)
            /\ map[d].tbl \in Table
            /\ map[d].resp \in ResponseType
      BY <1>1, <1>3 DEF IInv, TypeOK
    <2> QED
      BY <1>1, <1>5, <2>1 DEF IInv, TypeOK
  <1>7. ChainsInv'
    BY <1>1, <1>3, <1>5 DEF IInv, ChainsInv, HandlesWritten, Climbing, Relating, ChainsHaveParents
  <1> QED
    BY <1>1, <1>5, <1>6, <1>7 DEF IInv

LEMMA BuildInv ==
  ASSUME IInv, Build
  PROVE  IInv'
  <1> DEFINE toks == <<Semicolon>>
  <1>1. /\ pc = "finish" /\ pc' = "built" /\ buf' = buf \o toks
        /\ UNCHANGED <<req, err, cte_index, params, working_tables, main, todo, at, taken>>
    BY DEF Build
  <1>2. IsSeq(toks) /\ DOMAIN toks = {1} /\ toks[1] = Semicolon
    <2>1. \A s : IsSeq(<<s>>)
      BY TupleIsSeq
    <2> QED
      BY <2>1
  <1> HIDE DEF toks
  <1>3. BufferInv /\ StatementsTyped /\ cte_index \in Nat
    BY DEF IInv, TypeOK
  <1>4. \A i \in DOMAIN toks :
          /\ toks[i].t # "cte"
          /\ toks[i].t = "write" => toks[i].stmt.from \in Table
          /\ \A x \in Uses(toks[i]) : IsBase(x) \/ x \in Ctes(buf)
    BY <1>2, OtherTokens
  <1>5. BufferInv' /\ StatementsTyped' /\ Ctes(buf') = Ctes(buf)
    BY <1>1, <1>2, <1>3, <1>4, NoCte
  <1>6. TypeOK'
    BY <1>1, <1>5 DEF IInv, TypeOK
  <1>7. ChainsInv'
    BY <1>1, <1>5 DEF IInv, ChainsInv, HandlesWritten, Climbing, Relating, ChainsHaveParents
  <1> QED
    BY <1>1, <1>5, <1>6, <1>7 DEF IInv

\* Every refusal is one of FailInv.
LEMMA RefusalsInv ==
  ASSUME IInv, Refuse \/ RefuseRel \/ RefuseSort
  PROVE  IInv'
  <1> SUFFICES \E e \in Error : e # "none" /\ Fail(e)
    BY FailInv
  <1>1. CASE Refuse
    <2>1. "UnknownTable" \in Error
      BY DEF Error
    <2> QED
      BY <1>1, <2>1, ErrorsTyped DEF Refuse
  <1>2. CASE RefuseRel
    BY <1>2, ErrorsTyped DEF RefuseRel
  <1>3. CASE RefuseSort
    <2>1. PICK n \in DOMAIN SortErrors(Remaining) :
            IsFirst(n, SortErrors(Remaining)) /\ Fail(SortErrors(Remaining)[n])
      BY <1>3 DEF RefuseSort
    <2>2. SortErrors(Remaining)[n] \in Error
      BY ErrorsTyped DEF SortErrors, MapSeq
    <2> QED
      BY <2>1, <2>2 DEF IsFirst
  <1> QED
    BY <1>1, <1>2, <1>3

LEMMA StutterInv ==
  ASSUME IInv, UNCHANGED vars
  PROVE  IInv'
  BY DEF vars, IInv, TypeOK, StatementsTyped, StmtPositions, BufferInv, Numbered, CtePositions,
         Positions, CteNamesUnique, NamesUnique, DefinedBeforeUse, UsesDefined, ChainsInv,
         HandlesWritten, Climbing, Relating, ChainsHaveParents, Ctes, WritesRel

LEMMA NextInv ==
  ASSUME IInv, [Next]_vars
  PROVE  IInv'
  <1>1. CASE Refuse \/ RefuseRel \/ RefuseSort
    BY <1>1, RefusalsInv
  <1>2. CASE GenSelect
    BY <1>2, GenSelectInv
  <1>3. CASE GenSelectRelationships
    BY <1>3, GenSelectRelationshipsInv
  <1>4. CASE GenInsert
    BY <1>4, GenInsertInv
  <1>5. CASE GenUpdateMain
    BY <1>5, GenUpdateMainInv
  <1>6. CASE GenUpdateRel
    BY <1>6, GenUpdateRelInv
  <1>7. CASE GenDeleteNormal \/ GenDeleteRel
    BY <1>7, GenDeleteInv
  <1>8. CASE NextEntry
    BY <1>8, NextEntryInv
  <1>9. CASE SelectRel
    BY <1>9, SelectRelInv
  <1>10. CASE FinishMain
    BY <1>10, FinishMainInv
  <1>11. CASE FinishMainSorted
    BY <1>11, FinishMainSortedInv
  <1>12. CASE FinishTable
    BY <1>12, FinishTableInv
  <1>13. CASE Build
    BY <1>13, BuildInv
  <1>14. CASE Terminated
    BY <1>14, StutterInv DEF Terminated
  <1>15. CASE UNCHANGED vars
    BY <1>15, StutterInv
  <1> QED
    BY <1>1, <1>2, <1>3, <1>4, <1>5, <1>6, <1>7, <1>8, <1>9, <1>10, <1>11, <1>12, <1>13,
       <1>14, <1>15 DEF Next

----------------------------------------------------------------------------
(* The theorems *)

\* The invariant holds of every state of the builder, whatever the store, the
\* tables and the requests: gen_select, gen_insert, gen_update and gen_delete,
\* select_rels and finish_request keep it.
THEOREM Invariant == Spec => []IInv
  <1>1. IInv /\ [Next]_vars => IInv'
    BY NextInv
  <1> QED
    BY <1>1, InitInv, PTL DEF Spec

\* The builder holds what its fields are declared to hold, and keeps an error
\* exactly when it has failed.
THEOREM TypeCorrect == Spec => []TypeOK
  <1>1. IInv => TypeOK
    BY DEF IInv
  <1> QED
    BY <1>1, Invariant, PTL

\* No two CTEs of a statement share a name, however many relationships a
\* request follows and however often it follows them (get_new_cte_index).
THEOREM NamesAreUnique == Spec => []CteNamesUnique
  <1>1. IInv => CteNamesUnique
    BY DEF IInv, BufferInv
  <1> QED
    BY <1>1, Invariant, PTL

\* A statement never mentions a CTE before the CTE is written: neither the
\* joins of select_rels, nor the final CTE, nor the selects of finish_request.
THEOREM UsesAreDefined == Spec => []DefinedBeforeUse
  <1>1. IInv => DefinedBeforeUse
    BY DEF IInv, BufferInv
  <1> QED
    BY <1>1, Invariant, PTL

\* A chain that has a working table has one for every chain it extends, of
\* the type the chain leads to (select_rels).
THEOREM ParentsAreThere == Spec => []ChainsHaveParents
  <1>1. IInv => ChainsHaveParents
    BY DEF IInv, ChainsInv
  <1> QED
    BY <1>1, Invariant, PTL

----------------------------------------------------------------------------
(* Sequences that are mapped and filtered *)

FunctionOn(f, positions) == f = [i \in positions |-> f[i]]

LEMMA MapIsSeq ==
  ASSUME NEW s, IsSeq(s), NEW f, FunctionOn(f, DOMAIN s)
  PROVE  /\ IsSeq(f) /\ Len(f) = Len(s) /\ DOMAIN f = DOMAIN s
         /\ Len(s) \in Nat /\ DOMAIN s = 1..Len(s)
  <1> DEFINE n == Len(s)
             S == {f[i] : i \in 1..n}
  <1>1. n \in Nat /\ DOMAIN s = 1..n
    BY LenProperties DEF IsSeq
  <1> HIDE DEF n
  <1>2. DOMAIN f = 1..n /\ f \in [1..n -> S]
    BY <1>1 DEF FunctionOn
  <1> HIDE DEF S
  <1>3. f \in Seq(S) /\ Len(f) = n
    BY <1>1, <1>2, FunctionIsSeq
  <1>4. IsSeq(f)
    BY <1>3, SeqIsSeq
  <1> QED
    BY <1>1, <1>2, <1>3, <1>4 DEF n

\* What is kept of a sequence is one.
LEMMA KeptTyped ==
  ASSUME NEW S, NEW s \in Seq(S), NEW P
  PROVE  Kept(s, P) \in Seq(S)
  <1> DEFINE n == Len(s)
             f == [i \in DOMAIN s |-> IF i \in P THEN <<s[i]>> ELSE <<>>]
  <1>1. n \in Nat /\ DOMAIN s = 1..n /\ \A i \in 1..n : s[i] \in S
    BY LenProperties, ElementOfSeq
  <1> HIDE DEF n
  <1>2. \A i \in 1..n : f[i] \in Seq(S)
    <2> SUFFICES ASSUME NEW i \in 1..n PROVE f[i] \in Seq(S)
      OBVIOUS
    <2>1. <<s[i]>> \in Seq(S) /\ <<>> \in Seq(S)
      BY <1>1
    <2>2. f[i] = <<s[i]>> \/ f[i] = <<>>
      BY <1>1
    <2> QED
      BY <2>1, <2>2
  <1>3. f \in [1..n -> Seq(S)]
    <2>1. f = [i \in 1..n |-> f[i]]
      BY <1>1
    <2> HIDE DEF f
    <2> QED
      BY <1>2, <2>1
  <1> HIDE DEF f
  <1>4. f \in Seq(Seq(S))
    BY <1>1, <1>3, FunctionIsSeq
  <1>5. FlattenSeq(f) \in Seq(S)
    BY <1>4, FlattenSome
  <1> QED
    BY <1>5 DEF Kept, f

\* The sorting elements of a chain, as the inclusion map holds them.
LEMMA SortsTyped ==
  ASSUME IsRequest(req), NEW c
  PROVE  IsSeq(Reverse(SortsOf(req, c)))
  <1> DEFINE s == SortsOf(req, c)
             n == Len(s)
             S == [chain : Seq(Rel), field : Ident, desc : BOOLEAN]
             r == Reverse(s)
  <1>1. s \in Seq(S)
    BY KeptTyped DEF IsRequest, SortsOf
  <1> HIDE DEF s, S
  <1>2. n \in Nat /\ \A i \in 1..n : s[i] \in S
    BY <1>1, LenProperties, ElementOfSeq
  <1>3. r = [i \in 1..n |-> s[(n - i) + 1]]
    BY DEF Reverse
  <1> HIDE DEF n, r
  <1>4. \A i \in 1..n : (n - i) + 1 \in 1..n
    BY <1>2
  <1>5. r \in [1..n -> S]
    BY <1>2, <1>3, <1>4
  <1>6. r \in Seq(S)
    BY <1>2, <1>5, FunctionIsSeq
  <1> QED
    BY <1>6, SeqIsSeq DEF r, s

LEMMA MapSortsTyped ==
  ASSUME IsRequest(req)
  PROVE  \A c \in DOMAIN BuildInclusionMap(req) :
           /\ IsSeq(BuildInclusionMap(req)[c].sorts)
           /\ IsSeq(Unwanted(BuildInclusionMap(req))[c].sorts)
  <1> DEFINE map == BuildInclusionMap(req)
  <1>1. \A c \in DOMAIN map : map[c].sorts = Reverse(SortsOf(req, c))
    BY DEF BuildInclusionMap
  <1>2. \A c \in DOMAIN map : IsSeq(map[c].sorts)
    BY <1>1, SortsTyped
  <1>3. \A c \in DOMAIN map : map[c] = [resp |-> map[c].resp, sorts |-> map[c].sorts]
    BY DEF BuildInclusionMap
  <1> HIDE DEF map
  <1>4. \A c \in DOMAIN map : Unwanted(map)[c].sorts = map[c].sorts
    BY <1>3 DEF Unwanted
  <1> QED
    BY <1>2, <1>4 DEF map

\* What is kept of a sequence is what it has at the positions kept.
LEMMA KeptElements ==
  ASSUME NEW S, NEW s \in Seq(S), NEW P
  PROVE  ToSet(Kept(s, P)) = {s[i] : i \in DOMAIN s \cap P}
  <1> DEFINE n == Len(s)
             f == [i \in DOMAIN s |-> IF i \in P THEN <<s[i]>> ELSE <<>>]
  <1>1. n \in Nat /\ DOMAIN s = 1..n /\ \A i \in 1..n : s[i] \in S
    BY LenProperties, ElementOfSeq
  <1> HIDE DEF n
  <1>2. DOMAIN f = 1..n /\ \A i \in 1..n : f[i] = IF i \in P THEN <<s[i]>> ELSE <<>>
    BY <1>1
  <1>3. f = [i \in 1..n |-> f[i]]
    BY <1>1
  <1> HIDE DEF f
  <1>4. \A i \in 1..n : f[i] \in Seq(S)
    <2> SUFFICES ASSUME NEW i \in 1..n PROVE f[i] \in Seq(S)
      OBVIOUS
    <2>1. <<s[i]>> \in Seq(S) /\ <<>> \in Seq(S)
      BY <1>1
    <2> QED
      BY <1>2, <2>1
  <1>5. f \in Seq(Seq(S))
    <2>1. f \in [1..n -> Seq(S)]
      BY <1>3, <1>4
    <2> QED
      BY <1>1, <2>1, FunctionIsSeq
  <1>6. \A i \in 1..n : ToSet(f[i]) = IF i \in P THEN {s[i]} ELSE {}
    <2>1. \A x : ToSet(<<x>>) = {x}
      BY DEF ToSet
    <2>2. ToSet(<<>>) = {}
      BY DEF ToSet
    <2> QED
      BY <1>2, <2>1, <2>2
  <1>7. ToSet(FlattenSeq(f)) = UNION {ToSet(f[i]) : i \in 1..n}
    BY <1>2, <1>5, FlattenElements
  <1>8. UNION {ToSet(f[i]) : i \in 1..n} = {s[i] : i \in (1..n) \cap P}
    BY <1>6
  <1> QED
    BY <1>1, <1>7, <1>8 DEF Kept, f

LEMMA ElementsOfReverse ==
  ASSUME NEW s, IsSeq(s)
  PROVE  IsSeq(Reverse(s)) /\ ToSet(Reverse(s)) = ToSet(s)
  <1> DEFINE n == Len(s)
             r == Reverse(s)
  <1>1. n \in Nat /\ DOMAIN s = 1..n
    BY LenProperties DEF IsSeq
  <1>2. r = [i \in 1..n |-> s[(n - i) + 1]]
    BY DEF Reverse
  <1> HIDE DEF n, r
  <1>3. \A i \in 1..n : (n - i) + 1 \in 1..n /\ (n - ((n - i) + 1)) + 1 = i
    BY <1>1
  <1>4. DOMAIN r = 1..n /\ \A i \in 1..n : r[i] \in ToSet(s)
    BY <1>1, <1>2, <1>3 DEF ToSet
  <1>5. \A i \in 1..n : s[i] = r[(n - i) + 1]
    BY <1>2, <1>3
  <1>6. \A i \in 1..n : s[i] \in ToSet(r)
    BY <1>3, <1>4, <1>5 DEF ToSet
  <1>7. ToSet(r) = ToSet(s)
    BY <1>1, <1>4, <1>6 DEF ToSet
  <1>8. r \in [1..n -> ToSet(s)]
    BY <1>2, <1>4
  <1>9. r \in Seq(ToSet(s))
    BY <1>1, <1>8, FunctionIsSeq
  <1>10. IsSeq(r)
    BY <1>9, SeqIsSeq
  <1> QED
    BY <1>7, <1>10 DEF r

LEMMA NoElements ==
  ASSUME NEW s, IsSeq(s)
  PROVE  s = <<>> <=> ToSet(s) = {}
  <1>1. Len(s) \in Nat /\ DOMAIN s = 1..Len(s) /\ s \in Seq(ToSet(s))
    BY LenProperties DEF IsSeq
  <1>2. ASSUME s # <<>> PROVE ToSet(s) # {}
    <2>1. Len(s) # 0
      BY <1>1, <1>2, EmptySeq
    <2>2. 1 \in DOMAIN s
      BY <1>1, <2>1
    <2> QED
      BY <2>2 DEF ToSet
  <1>3. ASSUME s = <<>> PROVE ToSet(s) = {}
    BY <1>3 DEF ToSet
  <1> QED
    BY <1>2, <1>3

\* The sorting elements of a chain are those of the request for that chain.
LEMMA SortsOfRequest ==
  ASSUME IsRequest(req)
  PROVE  LET map == BuildInclusionMap(req) IN
         \A c \in DOMAIN map :
           /\ ToSet(map[c].sorts) = {req.sort[i] : i \in {j \in DOMAIN req.sort : req.sort[j].chain = c}}
           /\ map[c].sorts # <<>> <=> c \in SortChains(req)
  <1> DEFINE map == BuildInclusionMap(req)
             S == [chain : Seq(Rel), field : Ident, desc : BOOLEAN]
             places(c) == {j \in DOMAIN req.sort : req.sort[j].chain = c}
  <1>1. req.sort \in Seq(S)
    BY DEF IsRequest
  <1> SUFFICES ASSUME NEW c \in DOMAIN map
               PROVE  /\ ToSet(map[c].sorts) = {req.sort[i] : i \in places(c)}
                      /\ map[c].sorts # <<>> <=> c \in SortChains(req)
    OBVIOUS
  <1> DEFINE s == SortsOf(req, c)
  <1>2. map[c].sorts = Reverse(s)
    BY DEF BuildInclusionMap
  <1>3. IsSeq(s) /\ ToSet(s) = {req.sort[i] : i \in places(c)}
    <2> HIDE DEF S
    <2>1. Kept(req.sort, places(c)) \in Seq(S) /\ ToSet(Kept(req.sort, places(c))) = {req.sort[i] : i \in DOMAIN req.sort \cap places(c)}
      BY <1>1, KeptTyped, KeptElements
    <2>2. DOMAIN req.sort \cap places(c) = places(c)
      OBVIOUS
    <2>3. s = Kept(req.sort, places(c))
      BY DEF SortsOf
    <2> HIDE DEF s, places
    <2> QED
      BY <2>1, <2>2, <2>3, SeqIsSeq
  <1> HIDE DEF s
  <1>4. IsSeq(Reverse(s)) /\ ToSet(Reverse(s)) = {req.sort[i] : i \in places(c)}
    BY <1>3, ElementsOfReverse
  <1>5. (Reverse(s) = <<>>) <=> ({req.sort[i] : i \in places(c)} = {})
    BY <1>4, NoElements
  <1>6. c \in SortChains(req) <=> places(c) # {}
    BY DEF SortChains
  <1> QED
    BY <1>2, <1>4, <1>5, <1>6

----------------------------------------------------------------------------
(* The order of chains *)

\* A chain as the ranks of its links, and nothing after them.
Key(c) == [i \in Nat |-> IF i \in 1..Len(c) THEN Relation[c[i]].rank + 1 ELSE 0]

LexLess(f, g) == \E i \in Nat : f[i] < g[i] /\ \A j \in 0..(i - 1) : f[j] = g[j]

LEMMA LexOrder ==
  ASSUME NEW f \in [Nat -> Nat], NEW g \in [Nat -> Nat], NEW h \in [Nat -> Nat]
  PROVE  /\ ~LexLess(f, f)
         /\ LexLess(f, g) /\ LexLess(g, h) => LexLess(f, h)
         /\ f # g => LexLess(f, g) \/ LexLess(g, f)
  <1>1. ~LexLess(f, f)
    <2>1. \A i \in Nat : f[i] \in Nat
      OBVIOUS
    <2> QED
      BY <2>1 DEF LexLess
  <1>2. ASSUME LexLess(f, g), LexLess(g, h) PROVE LexLess(f, h)
    <2>1. PICK i \in Nat : f[i] < g[i] /\ \A j \in 0..(i - 1) : f[j] = g[j]
      BY <1>2 DEF LexLess
    <2>2. PICK k \in Nat : g[k] < h[k] /\ \A j \in 0..(k - 1) : g[j] = h[j]
      BY <1>2 DEF LexLess
    <2>3. CASE i < k
      <3>1. f[i] < h[i] /\ \A j \in 0..(i - 1) : f[j] = h[j]
        BY <2>1, <2>2, <2>3
      <3> QED
        BY <3>1 DEF LexLess
    <2>4. CASE i = k
      <3>1. f[i] \in Nat /\ g[i] \in Nat /\ h[i] \in Nat
        OBVIOUS
      <3>2. f[i] < h[i] /\ \A j \in 0..(i - 1) : f[j] = h[j]
        BY <2>1, <2>2, <2>4, <3>1
      <3> QED
        BY <3>2 DEF LexLess
    <2>5. CASE k < i
      <3>1. f[k] < h[k] /\ \A j \in 0..(k - 1) : f[j] = h[j]
        BY <2>1, <2>2, <2>5
      <3> QED
        BY <3>1 DEF LexLess
    <2> QED
      BY <2>3, <2>4, <2>5
  <1>3. ASSUME f # g PROVE LexLess(f, g) \/ LexLess(g, f)
    <2> DEFINE T == {i \in Nat : f[i] # g[i]}
    <2>1. T \in SUBSET Nat /\ T # {}
      BY <1>3
    <2>2. PICK i \in T : \A j \in T : i <= j
      BY <2>1, LeastNat
    <2>3. i \in Nat /\ f[i] # g[i] /\ f[i] \in Nat /\ g[i] \in Nat
      BY <2>2
    <2>4. \A j \in 0..(i - 1) : f[j] = g[j]
      <3> SUFFICES ASSUME NEW j \in 0..(i - 1), f[j] # g[j] PROVE FALSE
        OBVIOUS
      <3>1. j \in T /\ j < i /\ j \in Nat
        BY <2>3
      <3> QED
        BY <2>2, <2>3, <3>1
    <2>5. f[i] < g[i] \/ g[i] < f[i]
      BY <2>3
    <2> QED
      BY <2>3, <2>4, <2>5 DEF LexLess
  <1> QED
    BY <1>1, <1>2, <1>3

LEMMA KeyTyped ==
  ASSUME NEW c \in Seq(Rel)
  PROVE  /\ Key(c) \in [Nat -> Nat] /\ Len(c) \in Nat
         /\ \A i \in 1..Len(c) : Key(c)[i] = Relation[c[i]].rank + 1 /\ c[i] \in Rel
                                   /\ Relation[c[i]].rank \in Nat
         /\ \A i \in Nat : i \notin 1..Len(c) => Key(c)[i] = 0
  <1>1. Len(c) \in Nat /\ \A i \in 1..Len(c) : c[i] \in Rel
    BY LenProperties, ElementOfSeq
  <1>2. \A i \in 1..Len(c) : Relation[c[i]].rank \in Nat
    BY <1>1, RelationAssumption
  <1>3. \A i \in 1..Len(c) : i \in Nat
    BY <1>1
  <1> QED
    BY <1>1, <1>2, <1>3 DEF Key

\* Chains from the same type whose links rank alike are alike.
LEMMA SameLinks ==
  ASSUME NEW t, NEW c, NEW d, IsChain(t, c), IsChain(t, d),
         NEW n \in Nat, n <= Len(c), n <= Len(d),
         \A j \in 1..n : Key(c)[j] = Key(d)[j]
  PROVE  \A j \in 1..n : c[j] = d[j]
  <1>1. c \in Seq(Rel) /\ d \in Seq(Rel)
    BY DEF IsChain
  <1>2. DOMAIN c = 1..Len(c) /\ DOMAIN d = 1..Len(d) /\ Len(c) \in Nat /\ Len(d) \in Nat
    BY <1>1, LenProperties
  <1>3. \A j \in 1..n : c[j] \in Rel /\ d[j] \in Rel /\ Relation[c[j]].rank = Relation[d[j]].rank
    <2> SUFFICES ASSUME NEW j \in 1..n
                 PROVE  c[j] \in Rel /\ d[j] \in Rel /\ Relation[c[j]].rank = Relation[d[j]].rank
      OBVIOUS
    <2>1. j \in 1..Len(c) /\ j \in 1..Len(d) /\ Key(c)[j] = Key(d)[j]
      BY <1>2
    <2>2. /\ Key(c)[j] = Relation[c[j]].rank + 1 /\ c[j] \in Rel /\ Relation[c[j]].rank \in Nat
          /\ Key(d)[j] = Relation[d[j]].rank + 1 /\ d[j] \in Rel /\ Relation[d[j]].rank \in Nat
      BY <1>1, <2>1, KeyTyped
    <2> QED
      BY <2>1, <2>2
  <1> DEFINE T == {j \in 1..n : c[j] = d[j]}
  <1>4. n > 0 => 1 \in T
    <2> SUFFICES ASSUME n > 0 PROVE 1 \in T
      OBVIOUS
    <2>1. 1 \in 1..n /\ 1 \in DOMAIN c /\ 1 \in DOMAIN d
      BY <1>2
    <2>2. Relation[c[1]].owner = t /\ Relation[d[1]].owner = t
      BY <2>1 DEF IsChain
    <2>3. c[1] = d[1]
      BY <1>3, <2>1, <2>2, RankAssumption
    <2> QED
      BY <2>1, <2>3
  <1>5. ASSUME NEW i \in 1..(n - 1), i \in T PROVE i + 1 \in T
    <2> DEFINE j == i + 1
    <2>1. j \in 1..n /\ j \in DOMAIN c /\ j \in DOMAIN d /\ j # 1 /\ j - 1 = i /\ c[i] = d[i]
      BY <1>2, <1>5
    <2> HIDE DEF j
    <2>2. Relation[c[j]].owner = RelatedType(c[i]) /\ Relation[d[j]].owner = RelatedType(d[i])
      <3>1. /\ Relation[c[j]].owner = IF j = 1 THEN t ELSE RelatedType(c[j - 1])
            /\ Relation[d[j]].owner = IF j = 1 THEN t ELSE RelatedType(d[j - 1])
        BY <2>1 DEF IsChain
      <3> QED
        BY <2>1, <3>1
    <2>3. c[j] = d[j]
      BY <1>3, <2>1, <2>2, RankAssumption
    <2>4. j \in T
      BY <2>1, <2>3
    <2> QED
      BY <2>4 DEF j
  <1> HIDE DEF T
  <1>6. 1..n \subseteq T
    BY <1>4, <1>5, Climb
  <1> QED
    BY <1>6 DEF T

LEMMA SamePrefix ==
  ASSUME NEW c \in Seq(Rel), NEW d \in Seq(Rel), NEW n \in Nat, n <= Len(c), n <= Len(d)
  PROVE  SubSeq(c, 1, n) = SubSeq(d, 1, n) <=> \A j \in 1..n : c[j] = d[j]
  <1> DEFINE p == SubSeq(c, 1, n)
             q == SubSeq(d, 1, n)
  <1>1. /\ Len(c) \in Nat /\ Len(d) \in Nat
        /\ \A j \in 1..n : c[j] \in Rel /\ d[j] \in Rel
    <2>1. Len(c) \in Nat /\ Len(d) \in Nat
      BY LenProperties
    <2> QED
      BY <2>1, ElementOfSeq
  <1>2. 1 \in Int /\ n \in Int /\ n - 1 + 1 = n /\ \A j \in 1..n : 1 + j - 1 = j
    OBVIOUS
  <1>3. p \in Seq(Rel) /\ q \in Seq(Rel) /\ Len(p) = n /\ Len(q) = n
    BY <1>1, <1>2, SubSeqProperties
  <1>4. \A j \in 1..n : p[j] = c[j] /\ q[j] = d[j]
    <2>1. \A j \in 1..(n - 1 + 1) : p[j] = c[1 + j - 1] /\ q[j] = d[1 + j - 1]
      BY <1>1, <1>2, SubSeqProperties
    <2> QED
      BY <1>2, <2>1
  <1> HIDE DEF p, q
  <1>5. ASSUME \A j \in 1..n : c[j] = d[j] PROVE p = q
    BY <1>3, <1>4, <1>5, SeqEqual
  <1>6. ASSUME p = q PROVE \A j \in 1..n : c[j] = d[j]
    BY <1>4, <1>6
  <1> QED
    BY <1>5, <1>6 DEF p, q

\* The order of the builder's maps is the lexicographic one of the ranks.
LEMMA LessIsLex ==
  ASSUME NEW t, NEW c, NEW d, IsChain(t, c), IsChain(t, d)
  PROVE  ChainLess(c, d) <=> LexLess(Key(c), Key(d))
  <1>1. c \in Seq(Rel) /\ d \in Seq(Rel)
    BY DEF IsChain
  <1> DEFINE m == Len(c)
             n == Len(d)
             f == Key(c)
             g == Key(d)
  <1>2. /\ m \in Nat /\ f \in [Nat -> Nat]
        /\ \A i \in 1..m : f[i] = Relation[c[i]].rank + 1 /\ c[i] \in Rel /\ Relation[c[i]].rank \in Nat
        /\ \A i \in Nat : i \notin 1..m => f[i] = 0
    BY <1>1, KeyTyped
  <1>3. /\ n \in Nat /\ g \in [Nat -> Nat]
        /\ \A i \in 1..n : g[i] = Relation[d[i]].rank + 1 /\ d[i] \in Rel /\ Relation[d[i]].rank \in Nat
        /\ \A i \in Nat : i \notin 1..n => g[i] = 0
    BY <1>1, KeyTyped
  <1>4. SubSeq(c, 1, m) = c
    BY <1>1, SubSeqFull
  <1>5. \A k \in Nat : k <= m /\ k <= n =>
          (SubSeq(c, 1, k) = SubSeq(d, 1, k) <=> \A j \in 1..k : c[j] = d[j])
    BY <1>1, SamePrefix
  <1>6. ASSUME NEW k \in Nat, k <= m, k <= n, \A j \in 1..k : f[j] = g[j]
        PROVE  \A j \in 1..k : c[j] = d[j]
    <2>1. k <= Len(c) /\ k <= Len(d) /\ \A j \in 1..k : Key(c)[j] = Key(d)[j]
      BY <1>6
    <2> HIDE DEF m, n, f, g
    <2> QED
      BY <2>1, SameLinks
  <1> HIDE DEF m, n, f, g
  <1>7. ASSUME NEW k \in Nat, k <= m, k <= n, SubSeq(c, 1, k) = SubSeq(d, 1, k)
        PROVE  \A j \in 0..k : f[j] = g[j]
    <2> SUFFICES ASSUME NEW j \in 0..k PROVE f[j] = g[j]
      OBVIOUS
    <2>1. CASE j = 0
      <3>1. 0 \in Nat /\ 0 \notin 1..m /\ 0 \notin 1..n
        OBVIOUS
      <3> QED
        BY <1>2, <1>3, <2>1, <3>1
    <2>2. CASE j # 0
      <3>1. m \in Nat /\ n \in Nat
        BY <1>2, <1>3
      <3>2. j \in 1..k /\ j \in 1..m /\ j \in 1..n
        BY <1>7, <2>2, <3>1
      <3>3. c[j] = d[j]
        BY <1>5, <1>7, <3>2
      <3> QED
        BY <1>2, <1>3, <3>2, <3>3
    <2> QED
      BY <2>1, <2>2
  <1>8. ASSUME m < n, c = SubSeq(d, 1, m) PROVE LexLess(f, g)
    <2> DEFINE i == m + 1
    <2>1. i \in Nat /\ i \notin 1..m /\ i \in 1..n /\ i - 1 = m /\ m <= m /\ m <= n
      BY <1>2, <1>3, <1>8
    <2> HIDE DEF i
    <2>2. f[i] < g[i]
      BY <1>2, <1>3, <2>1
    <2>3. \A j \in 0..m : f[j] = g[j]
      BY <1>2, <1>4, <1>7, <1>8, <2>1
    <2> QED
      BY <2>1, <2>2, <2>3 DEF LexLess
  <1>9. ASSUME NEW i \in 1..m, i <= n, SubSeq(c, 1, i - 1) = SubSeq(d, 1, i - 1), RelLess(c[i], d[i])
        PROVE  LexLess(f, g)
    <2> DEFINE k == i - 1
    <2>1. k \in Nat /\ k <= m /\ k <= n /\ i \in Nat /\ i \in 1..n
      BY <1>2, <1>3, <1>9
    <2>2. SubSeq(c, 1, k) = SubSeq(d, 1, k)
      BY <1>9
    <2> HIDE DEF k
    <2>3. \A j \in 0..k : f[j] = g[j]
      BY <1>7, <2>1, <2>2
    <2>4. f[i] < g[i]
      BY <1>2, <1>3, <1>9, <2>1 DEF RelLess
    <2> QED
      BY <2>1, <2>3, <2>4 DEF LexLess, k
  <1>10. ASSUME LexLess(f, g) PROVE ChainLess(c, d)
    <2>1. PICK i \in Nat : f[i] < g[i] /\ \A j \in 0..(i - 1) : f[j] = g[j]
      BY <1>10 DEF LexLess
    <2>2. i \in 1..n
      <3>1. f[i] \in Nat
        BY <1>2
      <3>2. g[i] # 0
        BY <2>1, <3>1
      <3> QED
        BY <1>3, <3>2
    <2>3. i <= m + 1
      <3> SUFFICES ASSUME i > m + 1 PROVE FALSE
        BY <1>2
      <3> DEFINE j == m + 1
      <3>1. j \in 0..(i - 1) /\ j \in Nat /\ j \notin 1..m /\ j \in 1..n
        BY <1>2, <1>3, <2>2
      <3> HIDE DEF j
      <3>2. f[j] = 0 /\ g[j] = Relation[d[j]].rank + 1 /\ Relation[d[j]].rank \in Nat
        BY <1>2, <1>3, <3>1
      <3> QED
        BY <2>1, <3>1, <3>2
    <2> DEFINE k == i - 1
    <2>4. k \in Nat /\ k <= m /\ k <= n /\ \A j \in 1..k : f[j] = g[j]
      BY <1>2, <1>3, <2>1, <2>2, <2>3
    <2> HIDE DEF k
    <2>5. SubSeq(c, 1, k) = SubSeq(d, 1, k)
      BY <1>5, <1>6, <2>4
    <2>6. CASE k = m
      <3>1. m < n
        BY <1>2, <1>3, <2>2, <2>6 DEF k
      <3>2. c = SubSeq(d, 1, m)
        BY <1>4, <2>5, <2>6
      <3> QED
        BY <3>1, <3>2 DEF ChainLess, m, n
    <2>7. CASE k # m
      <3>1. i \in 1..m /\ i <= n
        BY <1>2, <2>2, <2>4, <2>7 DEF k
      <3>2. RelLess(c[i], d[i])
        BY <1>2, <1>3, <2>1, <2>2, <3>1 DEF RelLess
      <3> QED
        BY <2>5, <3>1, <3>2 DEF ChainLess, m, n, k
    <2> QED
      BY <2>6, <2>7
  <1>11. ASSUME ChainLess(c, d) PROVE LexLess(f, g)
    BY <1>8, <1>9, <1>11 DEF ChainLess, m, n
  <1> QED
    BY <1>10, <1>11 DEF f, g

\* Chains from the same type have keys of their own.
LEMMA KeysApart ==
  ASSUME NEW t, NEW c, NEW d, IsChain(t, c), IsChain(t, d), Key(c) = Key(d)
  PROVE  c = d
  <1>1. c \in Seq(Rel) /\ d \in Seq(Rel)
    BY DEF IsChain
  <1> DEFINE m == Len(c)
             n == Len(d)
             f == Key(c)
  <1>2. /\ m \in Nat /\ n \in Nat
        /\ \A i \in 1..m : f[i] = Relation[c[i]].rank + 1 /\ Relation[c[i]].rank \in Nat
        /\ \A i \in Nat : i \notin 1..m => f[i] = 0
        /\ \A i \in 1..n : f[i] = Relation[d[i]].rank + 1 /\ Relation[d[i]].rank \in Nat
        /\ \A i \in Nat : i \notin 1..n => f[i] = 0
    BY <1>1, KeyTyped
  <1>3. m = n
    <2> HIDE DEF m, n, f
    <2>1. CASE m < n
      <3>1. n \in Nat /\ n \in 1..n /\ n \notin 1..m
        BY <1>2, <2>1
      <3>2. f[n] = 0 /\ f[n] = Relation[d[n]].rank + 1 /\ Relation[d[n]].rank \in Nat
        BY <1>2, <3>1
      <3> QED
        BY <3>2
    <2>2. CASE n < m
      <3>1. m \in Nat /\ m \in 1..m /\ m \notin 1..n
        BY <1>2, <2>2
      <3>2. f[m] = 0 /\ f[m] = Relation[c[m]].rank + 1 /\ Relation[c[m]].rank \in Nat
        BY <1>2, <3>1
      <3> QED
        BY <3>2
    <2> QED
      BY <1>2, <2>1, <2>2
  <1>4. m <= m /\ m <= n /\ \A j \in 1..m : Key(c)[j] = Key(d)[j]
    BY <1>2, <1>3
  <1>5. \A j \in 1..m : c[j] = d[j]
    BY <1>2, <1>4, SameLinks
  <1> QED
    BY <1>1, <1>3, <1>5, SeqEqual

\* ChainLess is a strict total order on the chains from a type.
LEMMA ChainOrder ==
  ASSUME NEW t
  PROVE  /\ \A c : IsChain(t, c) => ~ChainLess(c, c)
         /\ \A a, b, c : IsChain(t, a) /\ IsChain(t, b) /\ IsChain(t, c)
                           /\ ChainLess(a, b) /\ ChainLess(b, c) => ChainLess(a, c)
         /\ \A c, d : IsChain(t, c) /\ IsChain(t, d) /\ c # d => ChainLess(c, d) \/ ChainLess(d, c)
  <1>1. \A c : IsChain(t, c) => Key(c) \in [Nat -> Nat]
    BY KeyTyped DEF IsChain
  <1>2. \A c, d : IsChain(t, c) /\ IsChain(t, d) => (ChainLess(c, d) <=> LexLess(Key(c), Key(d)))
    BY LessIsLex
  <1>3. ASSUME NEW c, IsChain(t, c) PROVE ~ChainLess(c, c)
    BY <1>1, <1>2, <1>3, LexOrder
  <1>4. ASSUME NEW a, NEW b, NEW c, IsChain(t, a), IsChain(t, b), IsChain(t, c),
               ChainLess(a, b), ChainLess(b, c)
        PROVE  ChainLess(a, c)
    <2>1. LexLess(Key(a), Key(b)) /\ LexLess(Key(b), Key(c))
      BY <1>2, <1>4
    <2>2. Key(a) \in [Nat -> Nat] /\ Key(b) \in [Nat -> Nat] /\ Key(c) \in [Nat -> Nat]
      BY <1>1, <1>4
    <2>3. LexLess(Key(a), Key(c))
      BY <2>1, <2>2, LexOrder
    <2> QED
      BY <1>2, <1>4, <2>3
  <1>5. ASSUME NEW c, NEW d, IsChain(t, c), IsChain(t, d), c # d
        PROVE  ChainLess(c, d) \/ ChainLess(d, c)
    <2>1. Key(c) # Key(d)
      BY <1>5, KeysApart
    <2>2. Key(c) \in [Nat -> Nat] /\ Key(d) \in [Nat -> Nat]
      BY <1>1, <1>5
    <2>3. LexLess(Key(c), Key(d)) \/ LexLess(Key(d), Key(c))
      BY <2>1, <2>2, LexOrder
    <2> QED
      BY <1>2, <1>5, <2>3
  <1> QED
    BY <1>3, <1>4, <1>5

----------------------------------------------------------------------------
(* Going through a set of chains *)

Earlier(S, c) == {d \in S : ChainLess(d, c)}

LEMMA FewerBefore ==
  ASSUME NEW t, NEW S, IsFiniteSet(S), \A c \in S : IsChain(t, c)
  PROVE  /\ \A c \in S : Cardinality(Earlier(S, c)) \in 0..(Cardinality(S) - 1)
         /\ \A c, d \in S : Cardinality(Earlier(S, c)) = Cardinality(Earlier(S, d)) => c = d
  <1>1. Cardinality(S) \in Nat
    BY FS_CardinalityType
  <1>2. \A c \in S : IsFiniteSet(Earlier(S, c)) /\ Cardinality(Earlier(S, c)) \in Nat
    <2> SUFFICES ASSUME NEW c \in S PROVE IsFiniteSet(Earlier(S, c)) /\ Cardinality(Earlier(S, c)) \in Nat
      OBVIOUS
    <2>1. Earlier(S, c) \in SUBSET S
      BY DEF Earlier
    <2>2. IsFiniteSet(Earlier(S, c))
      BY <2>1, FS_Subset
    <2> QED
      BY <2>2, FS_CardinalityType
  <1>3. ASSUME NEW c \in S PROVE Cardinality(Earlier(S, c)) \in 0..(Cardinality(S) - 1)
    <2>1. Earlier(S, c) \in SUBSET S /\ c \notin Earlier(S, c)
      BY ChainOrder DEF Earlier
    <2>2. Earlier(S, c) # S
      BY <2>1
    <2>3. Cardinality(Earlier(S, c)) <= Cardinality(S) /\ Cardinality(S) # Cardinality(Earlier(S, c))
      BY <2>1, <2>2, FS_Subset
    <2> QED
      BY <1>1, <1>2, <2>3
  <1>4. ASSUME NEW c \in S, NEW d \in S, ChainLess(c, d)
        PROVE  Cardinality(Earlier(S, c)) # Cardinality(Earlier(S, d))
    <2>1. IsChain(t, c) /\ IsChain(t, d) /\ ~ChainLess(c, c)
      BY ChainOrder
    <2>2. Earlier(S, c) \in SUBSET Earlier(S, d)
      <3> SUFFICES ASSUME NEW e \in S, ChainLess(e, c) PROVE ChainLess(e, d)
        BY DEF Earlier
      <3>1. IsChain(t, e)
        OBVIOUS
      <3> QED
        BY <1>4, <2>1, <3>1, ChainOrder
    <2>3. c \in Earlier(S, d) /\ c \notin Earlier(S, c)
      BY <1>4, <2>1 DEF Earlier
    <2>4. Earlier(S, d) # Earlier(S, c)
      BY <2>3
    <2>5. IsFiniteSet(Earlier(S, d))
      BY <1>2
    <2> QED
      BY <2>2, <2>4, <2>5, FS_Subset
  <1>5. ASSUME NEW c \in S, NEW d \in S, Cardinality(Earlier(S, c)) = Cardinality(Earlier(S, d))
        PROVE  c = d
    <2> SUFFICES ASSUME c # d PROVE FALSE
      OBVIOUS
    <2>1. ChainLess(c, d) \/ ChainLess(d, c)
      BY ChainOrder
    <2>2. ~ChainLess(c, d)
      BY <1>4, <1>5
    <2>3. ~ChainLess(d, c)
      BY <1>4, <1>5
    <2> QED
      BY <2>1, <2>2, <2>3
  <1> QED
    BY <1>3, <1>5

\* The keys of a map are gone through once each.
LEMMA InOrderGoesThrough ==
  ASSUME NEW t, NEW S, IsFiniteSet(S), \A c \in S : IsChain(t, c)
  PROVE  /\ Cardinality(S) \in Nat
         /\ InOrder(S) \in [1..Cardinality(S) -> S]
         /\ \A c \in S : \E i \in 1..Cardinality(S) : InOrder(S)[i] = c
         /\ \A i, j \in 1..Cardinality(S) : InOrder(S)[i] = InOrder(S)[j] => i = j
  <1> DEFINE n == Cardinality(S)
             N == 0..(n - 1)
             f == [c \in S |-> Cardinality(Earlier(S, c))]
             g == InOrder(S)
  <1>1. n \in Nat
    BY FS_CardinalityType
  <1>2. /\ \A c \in S : f[c] \in N
        /\ \A c, d \in S : f[c] = f[d] => c = d
    BY FewerBefore
  <1>3. g = [i \in 1..n |-> CHOOSE c \in S : Cardinality({d \in S : ChainLess(d, c)}) = i - 1]
    BY DEF InOrder
  <1>4. \A c \in S : f[c] = Cardinality({d \in S : ChainLess(d, c)})
    BY DEF Earlier
  <1>5. DOMAIN f = S /\ f = [c \in S |-> f[c]]
    OBVIOUS
  <1> HIDE DEF n, f, g
  <1>6. IsFiniteSet(N) /\ Cardinality(N) = n
    <2>1. 0 \in Int /\ n - 1 \in Int
      BY <1>1
    <2>2. IsFiniteSet(N) /\ Cardinality(N) = IF 0 > n - 1 THEN 0 ELSE n - 1 - 0 + 1
      BY <2>1, FS_Interval
    <2> QED
      BY <1>1, <2>2
  <1> HIDE DEF N
  <1>7. f \in Injection(S, N)
    <2>1. f \in [S -> N]
      BY <1>2, <1>5
    <2>2. IsInjective(f)
      BY <1>2, <1>5 DEF IsInjective
    <2> QED
      BY <2>1, <2>2 DEF Injection
  <1>8. \A k \in N : \E c \in S : f[c] = k
    <2>1. f \in Surjection(S, N)
      BY <1>6, <1>7, FS_Injection DEF n
    <2> QED
      BY <2>1 DEF Surjection
  <1>9. \A i \in 1..n : g[i] \in S /\ f[g[i]] = i - 1
    <2> SUFFICES ASSUME NEW i \in 1..n PROVE g[i] \in S /\ f[g[i]] = i - 1
      OBVIOUS
    <2>1. i - 1 \in N
      BY <1>1 DEF N
    <2>2. \E c \in S : Cardinality({d \in S : ChainLess(d, c)}) = i - 1
      BY <1>4, <1>8, <2>1
    <2>3. g[i] = CHOOSE c \in S : Cardinality({d \in S : ChainLess(d, c)}) = i - 1
      BY <1>3
    <2>4. g[i] \in S /\ Cardinality({d \in S : ChainLess(d, g[i])}) = i - 1
      BY <2>2, <2>3
    <2> QED
      BY <1>4, <2>4
  <1>10. g \in [1..n -> S]
    <2>1. g = [i \in 1..n |-> g[i]]
      BY <1>3
    <2> QED
      BY <1>9, <2>1
  <1>11. ASSUME NEW c \in S PROVE \E i \in 1..n : g[i] = c
    <2> DEFINE i == f[c] + 1
    <2>1. f[c] \in N
      BY <1>2
    <2>2. i \in 1..n /\ i - 1 = f[c]
      BY <1>1, <2>1 DEF N
    <2> HIDE DEF i
    <2>3. g[i] \in S /\ f[g[i]] = f[c]
      BY <1>9, <2>2
    <2>4. g[i] = c
      BY <1>2, <2>3
    <2> QED
      BY <2>2, <2>4
  <1>12. ASSUME NEW i \in 1..n, NEW j \in 1..n, g[i] = g[j] PROVE i = j
    <2>1. i - 1 = j - 1
      BY <1>9, <1>12
    <2> QED
      BY <1>1, <2>1
  <1> QED
    BY <1>1, <1>10, <1>11, <1>12 DEF n, g

\* The chains of a request are finitely many, and start at its main type.
LEMMA ChainsOfRequest ==
  ASSUME IsRequest(req)
  PROVE  /\ DOMAIN BuildInclusionMap(req) = req.include \cup SortChains(req)
         /\ IsFiniteSet(DOMAIN BuildInclusionMap(req))
         /\ \A c \in DOMAIN BuildInclusionMap(req) : IsChain(MainType(req.path), c)
  <1> DEFINE s == req.sort
             n == Len(s)
             S == [chain : Seq(Rel), field : Ident, desc : BOOLEAN]
             f == [i \in 1..n |-> s[i].chain]
  <1>1. DOMAIN BuildInclusionMap(req) = req.include \cup SortChains(req)
    BY DEF BuildInclusionMap
  <1>2. s \in Seq(S)
    BY DEF IsRequest
  <1>3. n \in Nat /\ DOMAIN s = 1..n
    <2> HIDE DEF S
    <2> QED
      BY <1>2, LenProperties
  <1>4. SortChains(req) = {s[i].chain : i \in 1..n}
    BY <1>3 DEF SortChains
  <1> HIDE DEF n
  <1>5. IsFiniteSet(SortChains(req))
    <2>1. IsFiniteSet(1..n)
      <3>1. 1 \in Int /\ n \in Int
        BY <1>3
      <3> QED
        BY <3>1, FS_Interval
    <2>2. f \in Surjection(1..n, SortChains(req))
      BY <1>4 DEF Surjection
    <2> HIDE DEF f
    <2> QED
      BY <2>1, <2>2, FS_Surjection
  <1>6. IsFiniteSet(req.include \cup SortChains(req))
    BY <1>5, FS_Union DEF IsRequest
  <1>7. \A c \in req.include : IsChain(MainType(req.path), c)
    BY DEF IsRequest
  <1>8. \A i \in DOMAIN s : IsChain(MainType(req.path), s[i].chain)
    BY DEF IsRequest
  <1> QED
    BY <1>1, <1>3, <1>4, <1>6, <1>7, <1>8

----------------------------------------------------------------------------
(* The columns a sorted request adds *)

\* Chains are gone through in order, and each of them gives a sequence: what is
\* got is what they give.
LEMMA GivenInOrder ==
  ASSUME NEW t, NEW S, IsFiniteSet(S), \A c \in S : IsChain(t, c), NEW f, \A c \in S : IsSeq(f[c])
  PROVE  LET all == FlattenSeq([i \in DOMAIN InOrder(S) |-> f[InOrder(S)[i]]]) IN
         /\ IsSeq(all)
         /\ \A x : x \in ToSet(all) <=> \E c \in S : x \in ToSet(f[c])
  <1> DEFINE n == Cardinality(S)
             g == InOrder(S)
             h == [i \in DOMAIN g |-> f[g[i]]]
             E == UNION {ToSet(f[c]) : c \in S}
  <1>1. /\ n \in Nat /\ DOMAIN g = 1..n
        /\ \A i \in 1..n : g[i] \in S
        /\ \A c \in S : \E i \in 1..n : g[i] = c
    BY InOrderGoesThrough
  <1> HIDE DEF n, g
  <1>2. DOMAIN h = 1..n /\ \A i \in 1..n : h[i] = f[g[i]]
    BY <1>1
  <1>3. h = [i \in 1..n |-> h[i]]
    BY <1>2
  <1>4. \A c \in S : f[c] \in Seq(E)
    <2> SUFFICES ASSUME NEW c \in S PROVE f[c] \in Seq(E)
      OBVIOUS
    <2>1. ToSet(f[c]) \subseteq E
      OBVIOUS
    <2> HIDE DEF E
    <2> QED
      BY <2>1, SeqMonotonic DEF IsSeq
  <1> HIDE DEF h, E
  <1>5. h \in [1..n -> Seq(E)]
    BY <1>1, <1>2, <1>3, <1>4
  <1>6. h \in Seq(Seq(E))
    BY <1>1, <1>5, FunctionIsSeq
  <1>7. FlattenSeq(h) \in Seq(E) /\ ToSet(FlattenSeq(h)) = UNION {ToSet(h[i]) : i \in 1..n}
    BY <1>2, <1>6, FlattenSome, FlattenElements
  <1>8. IsSeq(FlattenSeq(h))
    BY <1>7, SeqIsSeq
  <1>9. \A x : x \in ToSet(FlattenSeq(h)) <=> \E c \in S : x \in ToSet(f[c])
    BY <1>1, <1>2, <1>7
  <1> QED
    BY <1>8, <1>9 DEF h, g

\* The chains a request sorts by, as the final CTE goes through them.
LEMMA ChainsSorted ==
  ASSUME IsRequest(req)
  PROVE  LET map == BuildInclusionMap(req)
             S == SortChains(req) IN
         /\ SortedChains(map) = InOrder(S) /\ DOMAIN SortedChains(map) = 1..Cardinality(S)
         /\ \A i \in DOMAIN SortedChains(map) : SortedChains(map)[i] \in S
         /\ IsFiniteSet(S) /\ S \subseteq DOMAIN map
         /\ \A c \in S : IsChain(MainType(req.path), c)
  <1> DEFINE map == BuildInclusionMap(req)
             S == SortChains(req)
  <1>1. /\ DOMAIN map = req.include \cup S /\ IsFiniteSet(DOMAIN map)
        /\ \A c \in DOMAIN map : IsChain(MainType(req.path), c)
    BY ChainsOfRequest
  <1>2. \A c \in DOMAIN map : map[c].sorts # <<>> <=> c \in S
    BY SortsOfRequest
  <1> HIDE DEF map, S
  <1>3. {c \in DOMAIN map : map[c].sorts # <<>>} = S
    BY <1>1, <1>2
  <1>4. IsFiniteSet(S)
    <2>1. S \in SUBSET DOMAIN map
      BY <1>1
    <2> QED
      BY <1>1, <2>1, FS_Subset
  <1>5. SortedChains(map) = InOrder(S)
    BY <1>3 DEF SortedChains
  <1>6. \A c \in S : IsChain(MainType(req.path), c)
    BY <1>1
  <1>7. DOMAIN InOrder(S) = 1..Cardinality(S) /\ \A i \in DOMAIN InOrder(S) : InOrder(S)[i] \in S
    BY <1>4, <1>6, InOrderGoesThrough
  <1> QED
    BY <1>1, <1>4, <1>5, <1>6, <1>7 DEF map, S

\* The column for a sorting element of chain c.
SortOut(tbl, wt, c, s) ==
  Out(SortAlias(s), <<Ref(IF c \in DOMAIN wt THEN wt[c].tbl ELSE tbl, SortName(s.field))>>, <<>>)

\* The final CTE has a column for every sorting element, and no others besides
\* those of the CTE it selects from.
LEMMA SortOutsAre ==
  ASSUME IsRequest(req), NEW tbl, NEW wt
  PROVE  LET outs == SortOuts(tbl, wt) IN
         /\ IsSeq(outs)
         /\ \A i \in DOMAIN outs : \E k \in DOMAIN req.sort :
              outs[i] = SortOut(tbl, wt, req.sort[k].chain, req.sort[k])
         /\ \A k \in DOMAIN req.sort : \E i \in DOMAIN outs :
              outs[i] = SortOut(tbl, wt, req.sort[k].chain, req.sort[k])
  <1> DEFINE map == BuildInclusionMap(req)
             S == SortChains(req)
             g == SortedChains(map)
             columns(c) == [k \in DOMAIN map[c].sorts |-> SortOut(tbl, wt, c, map[c].sorts[k])]
             f == [c \in S |-> columns(c)]
             outs == SortOuts(tbl, wt)
  <1>1. outs = FlattenSeq([i \in DOMAIN g |-> columns(g[i])])
    BY Zenon DEF SortOuts, MapSeq, SortOut
  <1>2. /\ g = InOrder(S) /\ \A i \in DOMAIN g : g[i] \in S
        /\ IsFiniteSet(S) /\ S \subseteq DOMAIN map
        /\ \A c \in S : IsChain(MainType(req.path), c)
    BY ChainsSorted
  <1>3. /\ \A c \in S : IsSeq(map[c].sorts)
        /\ \A c \in S : ToSet(map[c].sorts) = {req.sort[i] : i \in {j \in DOMAIN req.sort : req.sort[j].chain = c}}
    BY <1>2, MapSortsTyped, SortsOfRequest
  <1> HIDE DEF g, outs, map
  <1>4. [i \in DOMAIN g |-> columns(g[i])] = [i \in DOMAIN g |-> f[g[i]]]
    <2> HIDE DEF columns
    <2> QED
      BY <1>2
  <1>5. \A c \in S : IsSeq(f[c]) /\ ToSet(f[c]) = {SortOut(tbl, wt, c, s) : s \in ToSet(map[c].sorts)}
    <2> SUFFICES ASSUME NEW c \in S
                 PROVE  /\ IsSeq(columns(c))
                        /\ ToSet(columns(c)) = {SortOut(tbl, wt, c, s) : s \in ToSet(map[c].sorts)}
      OBVIOUS
    <2> DEFINE h == columns(c)
    <2>1. FunctionOn(h, DOMAIN map[c].sorts)
      BY DEF FunctionOn
    <2>2. ToSet(h) = {SortOut(tbl, wt, c, s) : s \in ToSet(map[c].sorts)}
      BY DEF ToSet
    <2> HIDE DEF h
    <2>3. IsSeq(h)
      BY <1>3, <2>1, MapIsSeq
    <2> QED
      BY <2>2, <2>3 DEF h
  <1> HIDE DEF f, columns
  <1>6. IsSeq(outs) /\ \A x : x \in ToSet(outs) <=> \E c \in S : x \in ToSet(f[c])
    <2>1. outs = FlattenSeq([i \in DOMAIN InOrder(S) |-> f[InOrder(S)[i]]])
      BY <1>1, <1>2, <1>4
    <2> DEFINE t == MainType(req.path)
    <2>2. IsFiniteSet(S) /\ \A c \in S : IsChain(t, c)
      BY <1>2
    <2>3. \A c \in S : IsSeq(f[c])
      BY <1>5
    <2> HIDE DEF S, t
    <2> QED
      BY <2>1, <2>2, <2>3, GivenInOrder
  <1>7. ASSUME NEW i \in DOMAIN outs
        PROVE  \E k \in DOMAIN req.sort : outs[i] = SortOut(tbl, wt, req.sort[k].chain, req.sort[k])
    <2>1. outs[i] \in ToSet(outs)
      BY DEF ToSet
    <2>2. PICK c \in S : outs[i] \in ToSet(f[c])
      BY <1>6, <2>1
    <2>3. PICK s \in ToSet(map[c].sorts) : outs[i] = SortOut(tbl, wt, c, s)
      BY <1>5, <2>2
    <2>4. PICK k \in DOMAIN req.sort : req.sort[k].chain = c /\ s = req.sort[k]
      BY <1>3
    <2> QED
      BY <2>3, <2>4
  <1>8. ASSUME NEW k \in DOMAIN req.sort
        PROVE  \E i \in DOMAIN outs : outs[i] = SortOut(tbl, wt, req.sort[k].chain, req.sort[k])
    <2> DEFINE c == req.sort[k].chain
               o == SortOut(tbl, wt, c, req.sort[k])
    <2>1. c \in S
      BY DEF SortChains
    <2>2. req.sort[k] \in ToSet(map[c].sorts)
      BY <1>3, <2>1
    <2>3. o \in ToSet(f[c])
      BY <1>5, <2>1, <2>2
    <2>4. o \in ToSet(outs)
      BY <1>6, <2>1, <2>3
    <2> QED
      BY <2>4 DEF ToSet
  <1> QED
    BY <1>6, <1>7, <1>8 DEF outs

\* The links the final CTE joins are those of the chains a request sorts by.
LEMMA SortLinksAre ==
  ASSUME IsRequest(req)
  PROVE  LET links == SortLinks(BuildInclusionMap(req)) IN
         /\ IsSeq(links)
         /\ \A n \in DOMAIN links : /\ links[n].chain \in SortChains(req)
                                    /\ links[n].i \in DOMAIN links[n].chain
                                    /\ links[n] = [chain |-> links[n].chain, i |-> links[n].i]
         /\ \A c \in SortChains(req) : \A i \in DOMAIN c :
              \E n \in DOMAIN links : links[n].chain = c /\ links[n].i = i
  <1> DEFINE map == BuildInclusionMap(req)
             S == SortChains(req)
             g == SortedChains(map)
             steps(c) == [i \in DOMAIN c |-> [chain |-> c, i |-> i]]
             f == [c \in S |-> steps(c)]
             links == SortLinks(map)
  <1>1. links = FlattenSeq([i \in DOMAIN g |-> steps(g[i])])
    BY Zenon DEF SortLinks, MapSeq
  <1>2. /\ g = InOrder(S) /\ \A i \in DOMAIN g : g[i] \in S
        /\ IsFiniteSet(S)
        /\ \A c \in S : IsChain(MainType(req.path), c)
    BY ChainsSorted
  <1> HIDE DEF g, links, map
  <1>3. [i \in DOMAIN g |-> steps(g[i])] = [i \in DOMAIN g |-> f[g[i]]]
    <2> HIDE DEF steps
    <2> QED
      BY <1>2
  <1>4. \A c \in S : IsSeq(f[c]) /\ ToSet(f[c]) = {[chain |-> c, i |-> i] : i \in DOMAIN c}
    <2> SUFFICES ASSUME NEW c \in S
                 PROVE  IsSeq(steps(c)) /\ ToSet(steps(c)) = {[chain |-> c, i |-> i] : i \in DOMAIN c}
      OBVIOUS
    <2> DEFINE h == steps(c)
    <2>1. FunctionOn(h, DOMAIN c)
      BY DEF FunctionOn
    <2>2. ToSet(h) = {[chain |-> c, i |-> i] : i \in DOMAIN c}
      BY DEF ToSet
    <2>3. IsSeq(c)
      BY <1>2, SeqIsSeq DEF IsChain
    <2> HIDE DEF h
    <2>4. IsSeq(h)
      BY <2>1, <2>3, MapIsSeq
    <2> QED
      BY <2>2, <2>4 DEF h
  <1> HIDE DEF f, steps
  <1>5. IsSeq(links) /\ \A x : x \in ToSet(links) <=> \E c \in S : x \in ToSet(f[c])
    <2>1. links = FlattenSeq([i \in DOMAIN InOrder(S) |-> f[InOrder(S)[i]]])
      BY <1>1, <1>2, <1>3
    <2> DEFINE t == MainType(req.path)
    <2>2. IsFiniteSet(S) /\ \A c \in S : IsChain(t, c)
      BY <1>2
    <2>3. \A c \in S : IsSeq(f[c])
      BY <1>4
    <2> HIDE DEF S, t
    <2> QED
      BY <2>1, <2>2, <2>3, GivenInOrder
  <1>6. ASSUME NEW n \in DOMAIN links
        PROVE  /\ links[n].chain \in S /\ links[n].i \in DOMAIN links[n].chain
               /\ links[n] = [chain |-> links[n].chain, i |-> links[n].i]
    <2>1. links[n] \in ToSet(links)
      BY DEF ToSet
    <2>2. PICK c \in S : links[n] \in ToSet(f[c])
      BY <1>5, <2>1
    <2>3. PICK i \in DOMAIN c : links[n] = [chain |-> c, i |-> i]
      BY <1>4, <2>2
    <2> QED
      BY <2>3
  <1>7. ASSUME NEW c \in S, NEW i \in DOMAIN c PROVE \E n \in DOMAIN links : links[n].chain = c /\ links[n].i = i
    <2> DEFINE l == [chain |-> c, i |-> i]
    <2>1. l \in ToSet(f[c])
      BY <1>4
    <2>2. l.chain = c /\ l.i = i
      OBVIOUS
    <2> HIDE DEF l
    <2>3. l \in ToSet(links)
      BY <1>5, <2>1
    <2> QED
      BY <2>2, <2>3 DEF ToSet
  <1> QED
    BY <1>5, <1>6, <1>7 DEF links, map

----------------------------------------------------------------------------
(* Why a sort is refused *)

\* select_rels goes through every chain the request sorts by: one is still to
\* be taken, or is the one it follows, or has a working table for every link. A
\* write to a relationship goes through the chain of its path alone.
GoesThroughSorts ==
  pc = "rels" /\ ~WritesRel =>
    \A c \in SortChains(req) :
      \/ c \in DOMAIN todo \/ c = at.chain
      \/ \A i \in 1..Len(c) : Prefix(c, i) \in DOMAIN working_tables

\* A sort that is accepted stays accepted.
SortAccepted ==
  pc \in {"finish", "built"} /\ req.op # "delete" =>
    \A c \in SortChains(req) : \A i \in DOMAIN c : IsManyToOne(c[i])

\* An error of the sorting has its cause in the request.
SortRefused ==
  /\ err = "SortingByMultiRel" => \E c \in SortChains(req) : \E i \in DOMAIN c : ~IsManyToOne(c[i])
  /\ UnknownErrorOnlyWritingRel

RefusalInv == GoesThroughSorts /\ SortAccepted /\ SortRefused

\* What SortRefused says is about the request and the error alone.
LEMMA ErrorKept ==
  ASSUME SortRefused, UNCHANGED req, err' = err \/ err' \in EarlyError
  PROVE  SortRefused'
  BY DEF SortRefused, UnknownErrorOnlyWritingRel, WritesRel, EarlyError

LEMMA SortErrorsAre ==
  ASSUME NEW wt
  PROVE  LET links == SortLinks(BuildInclusionMap(req)) IN
         /\ DOMAIN SortErrors(wt) = DOMAIN links
         /\ \A n \in DOMAIN links : SortErrors(wt)[n] = LinkError(links[n], wt)
  BY DEF SortErrors, MapSeq

LEMMA RemainingChains == DOMAIN Remaining = DOMAIN working_tables
  BY DEF Remaining

\* The links of a sort that no check refuses.
LEMMA LinksAccepted ==
  ASSUME IsRequest(req), \A n \in DOMAIN SortErrors(Remaining) : SortErrors(Remaining)[n] = "none"
  PROVE  \A c \in SortChains(req) : \A i \in DOMAIN c :
           Prefix(c, i) \in DOMAIN working_tables /\ IsManyToOne(c[i])
  <1> SUFFICES ASSUME NEW c \in SortChains(req), NEW i \in DOMAIN c
               PROVE  Prefix(c, i) \in DOMAIN working_tables /\ IsManyToOne(c[i])
    OBVIOUS
  <1> DEFINE links == SortLinks(BuildInclusionMap(req))
  <1>1. PICK n \in DOMAIN links : links[n].chain = c /\ links[n].i = i
    BY SortLinksAre
  <1>2. LinkError(links[n], Remaining) = "none"
    BY SortErrorsAre
  <1> HIDE DEF links
  <1> QED
    BY <1>1, <1>2, RemainingChains DEF LinkError, Unless

\* The link a sort is refused for.
LEMMA LinkRefused ==
  ASSUME IsRequest(req), NEW n \in DOMAIN SortErrors(Remaining), SortErrors(Remaining)[n] # "none"
  PROVE  \E c \in SortChains(req) : \E i \in DOMAIN c :
           \/ SortErrors(Remaining)[n] = "UnknownError" /\ Prefix(c, i) \notin DOMAIN working_tables
           \/ SortErrors(Remaining)[n] = "SortingByMultiRel" /\ ~IsManyToOne(c[i])
  <1> DEFINE links == SortLinks(BuildInclusionMap(req))
             e == SortErrors(Remaining)[n]
  <1>1. n \in DOMAIN links /\ e = LinkError(links[n], Remaining)
    BY SortErrorsAre
  <1>2. links[n].chain \in SortChains(req) /\ links[n].i \in DOMAIN links[n].chain
    BY <1>1, SortLinksAre
  <1> HIDE DEF links
  <1>3. PICK c \in SortChains(req) : \E i \in DOMAIN c : links[n].chain = c /\ links[n].i = i
    BY <1>2
  <1>4. e \in {"UnknownError", "SortingByMultiRel"}
    BY <1>1 DEF LinkError, Unless
  <1>5. CASE e = "UnknownError"
    BY <1>1, <1>3, <1>5, RemainingChains DEF LinkError, Unless
  <1>6. CASE e = "SortingByMultiRel"
    BY <1>1, <1>3, <1>6 DEF LinkError, Unless
  <1> QED
    BY <1>4, <1>5, <1>6

\* Chains sorted by are chains, and one of them is the empty one or not.
LEMMA SortChainsTyped ==
  ASSUME IsRequest(req), NEW c \in SortChains(req)
  PROVE  c \in Seq(Rel) /\ Len(c) \in Nat /\ DOMAIN c = 1..Len(c)
  <1>1. IsChain(MainType(req.path), c)
    BY ChainsSorted
  <1> QED
    BY <1>1, LenProperties DEF IsChain

LEMMA RefuseSortRefusal ==
  ASSUME IInv, RefusalInv, RefuseSort
  PROVE  RefusalInv'
  <1>1. PICK n \in DOMAIN SortErrors(Remaining) :
          IsFirst(n, SortErrors(Remaining)) /\ Fail(SortErrors(Remaining)[n])
    BY DEF RefuseSort, IsFirst
  <1> DEFINE e == SortErrors(Remaining)[n]
  <1>2. e # "none" /\ err' = e /\ pc' = "failed" /\ req' = req
    BY <1>1 DEF IsFirst, Fail
  <1>3. PICK c \in SortChains(req) : \E i \in DOMAIN c :
          \/ e = "UnknownError" /\ Prefix(c, i) \notin DOMAIN working_tables
          \/ e = "SortingByMultiRel" /\ ~IsManyToOne(c[i])
    <2>1. IsRequest(req) /\ n \in DOMAIN SortErrors(Remaining) /\ SortErrors(Remaining)[n] # "none"
      BY <1>2 DEF IInv
    <2> HIDE DEF e
    <2>2. \E c \in SortChains(req) : \E i \in DOMAIN c :
            \/ SortErrors(Remaining)[n] = "UnknownError" /\ Prefix(c, i) \notin DOMAIN working_tables
            \/ SortErrors(Remaining)[n] = "SortingByMultiRel" /\ ~IsManyToOne(c[i])
      BY <2>1, LinkRefused
    <2> QED
      BY <2>2 DEF e
  <1> HIDE DEF e
  <1>4. PICK i \in DOMAIN c :
          \/ e = "UnknownError" /\ Prefix(c, i) \notin DOMAIN working_tables
          \/ e = "SortingByMultiRel" /\ ~IsManyToOne(c[i])
    BY <1>3
  <1>5. c \in Seq(Rel) /\ Len(c) \in Nat /\ DOMAIN c = 1..Len(c)
    BY SortChainsTyped DEF IInv
  <1>6. pc = "rels" /\ EntryDone /\ todo = NoChains
    BY DEF RefuseSort, RelsDone
  <1>7. ASSUME e = "UnknownError" PROVE WritesRel /\ c # <<>>
    <2>1. Prefix(c, i) \notin DOMAIN working_tables
      BY <1>4, <1>7
    <2>2. c \notin DOMAIN todo
      BY <1>6, EmptyMap
    <2>3. c # at.chain
      BY <1>5, <1>6, <2>1 DEF EntryDone, IInv, ChainsInv, Climbing
    <2>4. WritesRel
      BY <1>5, <1>6, <2>1, <2>2, <2>3 DEF RefusalInv, GoesThroughSorts
    <2>5. c # <<>>
      OBVIOUS
    <2> QED
      BY <2>4, <2>5
  <1>8. SortRefused'
    <2>1. (err = "UnknownError" => WritesRel /\ \E d \in SortChains(req) : d # <<>>)'
      BY <1>2, <1>7 DEF WritesRel
    <2>2. (err = "SortingByMultiRel" => \E d \in SortChains(req) : \E j \in DOMAIN d : ~IsManyToOne(d[j]))'
      BY <1>2, <1>4
    <2> QED
      BY <2>1, <2>2 DEF SortRefused, UnknownErrorOnlyWritingRel
  <1> QED
    BY <1>2, <1>8 DEF RefusalInv, GoesThroughSorts, SortAccepted

LEMMA RefuseRefusal ==
  ASSUME RefusalInv, Refuse \/ RefuseRel
  PROVE  RefusalInv'
  <1>1. \E e \in EarlyError : Fail(e)
    <2>1. "UnknownTable" \in EarlyError
      BY DEF EarlyError, Error
    <2>2. CASE Refuse
      BY <2>1, <2>2, ErrorsTyped DEF Refuse
    <2>3. CASE RefuseRel
      BY <2>3, ErrorsTyped DEF RefuseRel
    <2> QED
      BY <2>2, <2>3
  <1>2. pc' = "failed" /\ UNCHANGED req /\ err' \in EarlyError
    BY <1>1 DEF Fail
  <1> QED
    BY <1>2, ErrorKept DEF RefusalInv, GoesThroughSorts, SortAccepted

\* The generation begins with the whole inclusion map, or writes to a
\* relationship.
LEMMA GenRefusal ==
  ASSUME IInv, RefusalInv,
         GenSelect \/ GenSelectRelationships \/ GenInsert \/ GenUpdateMain \/ GenUpdateRel
  PROVE  RefusalInv'
  <1>1. UNCHANGED <<req, err>> /\ pc' = "rels"
    BY DEF GenSelect, GenSelectRelationships, GenInsert, GenUpdateMain, GenUpdateRel,
           WriteThenSelect, SelectRelsFrom
  <1>2. WritesRel \/ DOMAIN todo' = DOMAIN BuildInclusionMap(req)
    <2>1. CASE GenSelect
      BY <2>1 DEF GenSelect, SelectRelsFrom
    <2>2. CASE GenSelectRelationships
      BY <2>2 DEF GenSelectRelationships, SelectRelsFrom, Unwanted
    <2>3. CASE GenInsert
      BY <2>3 DEF GenInsert, WriteThenSelect, SelectRelsFrom
    <2>4. CASE GenUpdateMain
      BY <2>4 DEF GenUpdateMain, WriteThenSelect, SelectRelsFrom
    <2>5. CASE GenUpdateRel
      BY <2>5 DEF GenUpdateRel
    <2> QED
      BY <2>1, <2>2, <2>3, <2>4, <2>5
  <1>3. SortChains(req) \subseteq DOMAIN BuildInclusionMap(req)
    BY ChainsSorted DEF IInv
  <1>4. GoesThroughSorts'
    BY <1>1, <1>2, <1>3 DEF GoesThroughSorts, WritesRel
  <1>5. SortRefused'
    BY <1>1, ErrorKept DEF RefusalInv
  <1> QED
    BY <1>1, <1>4, <1>5 DEF RefusalInv, SortAccepted

LEMMA RelsRefusal ==
  ASSUME IInv, RefusalInv, NextEntry \/ SelectRel
  PROVE  RefusalInv'
  <1>1. pc = "rels" /\ UNCHANGED <<req, err, pc>>
    BY DEF NextEntry, SelectRel
  <1>2. ASSUME NextEntry PROVE GoesThroughSorts'
    <2>1. PICK c \in DOMAIN todo : at' = Enter(c, todo[c], main) /\ todo' = Without(todo, c)
      BY <1>2 DEF NextEntry
    <2>2. /\ UNCHANGED working_tables /\ EntryDone
          /\ at'.chain = c /\ DOMAIN todo' = DOMAIN todo \ {c}
      BY <1>2, <2>1 DEF NextEntry, Enter, Without
    <2>3. \A i \in 1..Len(at.chain) : Prefix(at.chain, i) \in DOMAIN working_tables
      BY <1>1, <2>2 DEF EntryDone, IInv, ChainsInv, Climbing
    <2> QED
      BY <1>1, <2>2, <2>3 DEF RefusalInv, GoesThroughSorts, WritesRel
  <1>3. ASSUME SelectRel PROVE GoesThroughSorts'
    <2>1. /\ UNCHANGED todo /\ at'.chain = at.chain
          /\ DOMAIN working_tables \subseteq DOMAIN working_tables'
      BY <1>3 DEF SelectRel, IInv, TypeOK
    <2> QED
      BY <1>1, <2>1 DEF RefusalInv, GoesThroughSorts, WritesRel
  <1> QED
    BY <1>1, <1>2, <1>3, ErrorKept DEF RefusalInv, SortAccepted

LEMMA FinishRefusal ==
  ASSUME IInv, RefusalInv,
         GenDeleteNormal \/ GenDeleteRel \/ FinishMain \/ FinishMainSorted \/ FinishTable \/ Build
  PROVE  RefusalInv'
  <1>1. UNCHANGED <<req, err>> /\ pc' \in {"finish", "built"}
    BY DEF GenDeleteNormal, GenDeleteRel, WriteOnly, FinishMain, FinishMainSorted, TakeWorkingTables,
           FinishTable, Build
  <1>2. SortAccepted'
    <2>1. CASE GenDeleteNormal \/ GenDeleteRel
      BY <1>1, <2>1 DEF GenDeleteNormal, GenDeleteRel, SortAccepted
    <2>2. CASE FinishMain
      <3>1. SortChains(req) = {}
        BY <2>2 DEF FinishMain, SortChains
      <3> QED
        BY <1>1, <3>1 DEF SortAccepted
    <2>3. CASE FinishMainSorted
      <3>1. \A n \in DOMAIN SortErrors(Remaining) : SortErrors(Remaining)[n] = "none"
        BY <2>3 DEF FinishMainSorted
      <3>2. \A c \in SortChains(req) : \A i \in DOMAIN c : IsManyToOne(c[i])
        BY <3>1, LinksAccepted DEF IInv
      <3> QED
        BY <1>1, <3>2 DEF SortAccepted
    <2>4. CASE FinishTable \/ Build
      BY <1>1, <2>4 DEF FinishTable, Build, RefusalInv, SortAccepted
    <2> QED
      BY <2>1, <2>2, <2>3, <2>4
  <1> QED
    BY <1>1, <1>2, ErrorKept DEF RefusalInv, GoesThroughSorts

LEMMA InitRefusal == Init => RefusalInv
  BY DEF Init, RefusalInv, GoesThroughSorts, SortAccepted, SortRefused, UnknownErrorOnlyWritingRel

LEMMA NextRefusal ==
  ASSUME IInv, RefusalInv, [Next]_vars
  PROVE  RefusalInv'
  <1>1. CASE Refuse \/ RefuseRel
    BY <1>1, RefuseRefusal
  <1>2. CASE GenSelect \/ GenSelectRelationships \/ GenInsert \/ GenUpdateMain \/ GenUpdateRel
    BY <1>2, GenRefusal
  <1>3. CASE NextEntry \/ SelectRel
    BY <1>3, RelsRefusal
  <1>4. CASE GenDeleteNormal \/ GenDeleteRel \/ FinishMain \/ FinishMainSorted \/ FinishTable \/ Build
    BY <1>4, FinishRefusal
  <1>5. CASE RefuseSort
    BY <1>5, RefuseSortRefusal
  <1>6. CASE Terminated \/ UNCHANGED vars
    BY <1>6 DEF Terminated, vars, RefusalInv, GoesThroughSorts, SortAccepted, SortRefused,
                UnknownErrorOnlyWritingRel, WritesRel
  <1> QED
    BY <1>1, <1>2, <1>3, <1>4, <1>5, <1>6 DEF Next

LEMMA RefusalsHaveCauses == Spec => [](IInv /\ RefusalInv)
  <1>1. IInv /\ RefusalInv /\ [Next]_vars => (IInv /\ RefusalInv)'
    BY NextInv, NextRefusal
  <1>2. Init => IInv /\ RefusalInv
    BY InitInv, InitRefusal
  <1> QED
    BY <1>1, <1>2, PTL DEF Spec

\* A sort by a relationship that leads to several rows is never compiled, and
\* SortingByMultiRel is never the answer to another one, however many chains
\* the request sorts by and however long they are (gen_select_cte_final).
THEOREM MultiSortsAreRefused == Spec => []MultiSortRefused
  <1>1. RefusalInv => MultiSortRefused
    BY DEF RefusalInv, SortAccepted, SortRefused, MultiSortRefused
  <1> QED
    BY <1>1, RefusalsHaveCauses, PTL

\* The joins of the final CTE find a working table for every link of every
\* chain sorted by, unless the request writes to a relationship: whatever the
\* order select_rels takes the chains in, it has been through all of them.
THEOREM LinksAreFound == Spec => []UnknownErrorOnlyWritingRel
  <1>1. RefusalInv => UnknownErrorOnlyWritingRel
    BY DEF RefusalInv, SortRefused
  <1> QED
    BY <1>1, RefusalsHaveCauses, PTL
=============================================================================
