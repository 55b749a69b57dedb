--------------------------- MODULE ExecutionProofs ---------------------------
(***************************************************************************)
(* The builder inside an execution: whatever other clients do to the       *)
(* database, and whatever becomes of the statement, what is sent is what   *)
(* the builder made, whole; and what it does to the database, if Postgres  *)
(* takes it, is what the request says, to the row and to the value.        *)
(***************************************************************************)
EXTENDS ExecutionProperties, StatementProofs, ColumnProofs

\* The builder moves before the statement is sent, and is done by then.
SentWhenBuilt == phase # "generating" => pc = "built"

ExecInv ==
  /\ IInv /\ PunctuationInv /\ WritesInPlace /\ AskedInv /\ ParamsInv /\ ColumnInv
  /\ SentWhenBuilt

\* A step of an execution is a step of the builder, or one the builder does
\* not see.
LEMMA StepOfBuilder ==
  ASSUME [ExecNext]_<<vars, execVars>>
  PROVE  [Next]_vars
  BY DEF ExecNext, Generate, Send, Run, Read, ReadFails, Done

LEMMA PhaseInv ==
  ASSUME SentWhenBuilt, [ExecNext]_<<vars, execVars>>
  PROVE  SentWhenBuilt'
  <1>1. CASE Generate
    BY <1>1 DEF Generate, SentWhenBuilt, execVars
  <1>2. CASE Send \/ Run \/ Read \/ ReadFails \/ Done \/ UNCHANGED <<vars, execVars>>
    BY <1>2 DEF Send, Run, Read, ReadFails, Done, SentWhenBuilt, vars, execVars
  <1> QED
    BY <1>1, <1>2 DEF ExecNext

\* The invariants of the builder hold of an execution, whoever writes to the
\* database meanwhile, and the statement is built before it is sent.
THEOREM ExecutionInvariant == ExecSpec => []ExecInv
  <1>1. ExecInit => ExecInv
    BY InitInv, InitPunctuated, InitWrites, InitAsked, InitParams, InitColumns
    DEF ExecInit, ExecInv, SentWhenBuilt
  <1>2. ExecInv /\ [ExecNext]_<<vars, execVars>> => ExecInv'
    <2> SUFFICES ASSUME ExecInv, [ExecNext]_<<vars, execVars>> PROVE ExecInv'
      OBVIOUS
    <2>1. [Next]_vars
      BY StepOfBuilder
    <2> QED
      BY <2>1, NextInv, NextPunctuated, NextWrites, NextAsked, NextParams, NextColumns, PhaseInv DEF ExecInv
  <1> QED
    BY <1>1, <1>2, PTL DEF ExecSpec

\* What Postgres is handed is the whole of a statement whose CTEs have names of
\* their own and are written before they are used, with the parameters its
\* placeholders ask for, and it writes what the request asks and nothing else;
\* nobody changes it after (Ciboulette2PgBuilder::build).
SentIsWhole ==
  phase # "generating" =>
    /\ pc = "built" /\ Punctuated /\ CteNamesUnique /\ DefinedBeforeUse
    /\ PlaceholdersInOrder /\ ParamsAligned
    /\ WritesInPlace /\ WritesAsAsked /\ ColumnsResolve

THEOREM WholeStatementsAreSent == ExecSpec => []SentIsWhole /\ [][phase # "generating" => UNCHANGED vars]_vars
  <1>1. ExecInv => SentIsWhole
    BY PunctuationSuffices, AskedSuffices, ParamsSuffice, ColumnsSuffice
    DEF ExecInv, SentWhenBuilt, SentIsWhole, IInv, BufferInv
  <1>2. ExecInv /\ [ExecNext]_<<vars, execVars>> => [phase # "generating" => UNCHANGED vars]_vars
    BY DEF ExecInv, SentWhenBuilt, ExecNext, Generate, Send, Run, Read, ReadFails, Done
  <1> QED
    BY <1>1, <1>2, ExecutionInvariant, PTL DEF ExecSpec

----------------------------------------------------------------------------
(* What a statement leaves alone *)

\* Only the deletion of a row reaches further than its table, by the
\* constraints of the tables that refer to it.
DeletesRow == req.op = "delete" /\ req.path.rels = <<>>

LeftAlone(before, after) ==
  /\ req.op = "read" => after = before
  /\ ~DeletesRow => \A t \in DOMAIN before \ {WrittenTable.type} : after[t] = before[t]

LEMMA LeavesAlone ==
  ASSUME WritesInPlace, NEW ps, NEW g, NEW d
  PROVE  LeftAlone(d, Leaves(buf, ps, g, d))
  <1> DEFINE writes == {i \in DOMAIN buf : /\ buf[i].t \in {"cte", "write"}
                                         /\ buf[i].stmt.q \in {"insert", "update", "delete"}}
             i == CHOOSE j \in writes : TRUE
  <1>1. writes = WritePositions
    BY DEF WritePositions, StmtPositions, Positions
  <1>2. CASE writes = {}
    BY <1>2 DEF Leaves, LeftAlone
  <1>3. CASE writes # {}
    <2>1. i \in WritePositions
      BY <1>1, <1>3
    <2>2. InPlace(buf[i].stmt) /\ buf[i].stmt.q \in {"insert", "update", "delete"}
      BY <2>1 DEF WritesInPlace, WritePositions
    <2>3. Leaves(buf, ps, g, d) = After(buf[i].stmt, ps, g, d)
      BY <1>3 DEF Leaves
    <2> HIDE DEF i
    <2>4. PICK stmt : stmt = buf[i].stmt
      OBVIOUS
    <2>5. req.op # "read" /\ stmt.from = WrittenTable
      BY <2>2, <2>4 DEF InPlace
    <2>6. ASSUME ~DeletesRow, NEW t \in DOMAIN d \ {WrittenTable.type}
          PROVE  After(stmt, ps, g, d)[t] = d[t]
      <3>1. stmt.q \in {"insert", "update"}
        BY <2>2, <2>4, <2>6 DEF InPlace, DeletesRow
      <3>2. PICK old, new : After(stmt, ps, g, d) = Replaced(d, stmt.from.type, old, new)
        BY <3>1 DEF After
      <3>3. t # stmt.from.type
        BY <2>5
      <3> QED
        BY <3>2, <3>3 DEF Replaced
    <2> QED
      BY <2>3, <2>4, <2>5, <2>6 DEF LeftAlone
  <1> QED
    BY <1>2, <1>3

\* Whatever database a statement finds, running it changes nothing when the
\* request is a read, and no table but that of the path when the request
\* creates or updates a row or writes a relationship, whichever tables the
\* statement goes through (gen_select, gen_insert, gen_update, gen_delete_rel).
THEOREM RunsInPlace == ExecSpec => [][Run => LeftAlone(db, db')]_<<vars, execVars>>
  <1>1. ExecInv => (Run => LeftAlone(db, db'))
    <2> SUFFICES ASSUME ExecInv, Run PROVE LeftAlone(db, db')
      OBVIOUS
    <2>1. db' = db \/ db' = Leaves(buf, params, given, db)
      BY DEF Run
    <2>2. LeftAlone(db, db)
      BY DEF LeftAlone
    <2>3. LeftAlone(db, Leaves(buf, params, given, db))
      BY LeavesAlone DEF ExecInv
    <2> QED
      BY <2>1, <2>2, <2>3
  <1> QED
    BY <1>1, ExecutionInvariant, PTL DEF ExecSpec

----------------------------------------------------------------------------
(* The rows a statement touches *)

LEMMA SetAsSeq ==
  ASSUME NEW S, IsFiniteSet(S)
  PROVE  IsSeq(SetToSeq(S)) /\ ToSet(SetToSeq(S)) = S
  <1> DEFINE n == Cardinality(S)
             s == SetToSeq(S)
  <1>1. n \in Nat /\ ExistsBijection(1..n, S)
    BY FS_CardinalityType
  <1>2. PICK f \in Bijection(1..n, S) : TRUE
    BY <1>1 DEF ExistsBijection
  <1>3. \E h \in [1..n -> S] : IsInjective(h)
    <2>1. f \in Injection(1..n, S)
      BY <1>2 DEF Bijection
    <2> QED
      BY <2>1 DEF Injection, IsInjective
  <1>4. s \in [1..n -> S] /\ IsInjective(s)
    BY <1>3 DEF SetToSeq
  <1> HIDE DEF s
  <1>5. s \in Injection(1..n, S)
    BY <1>4 DEF Injection, IsInjective
  <1>6. IsFiniteSet(1..n) /\ Cardinality(1..n) = n
    BY <1>1, FS_Interval
  <1>7. s \in Surjection(1..n, S)
    BY <1>5, <1>6, FS_Injection
  <1>8. \A x \in S : \E i \in 1..n : s[i] = x
    BY <1>7 DEF Surjection
  <1>9. s \in Seq(S)
    BY <1>1, <1>4, FunctionIsSeq
  <1>10. ToSet(s) = S
    BY <1>4, <1>8 DEF ToSet
  <1> QED
    BY <1>9, <1>10 DEF s, IsSeq

\* A statement without joins sees the rows of its table, each by itself.
LEMMA RowsAlone ==
  ASSUME NEW stmt, stmt.joins = <<>>, IsBase(stmt.from), NEW ctes, NEW d, IsFiniteSet(d[stmt.from.type])
  PROVE  /\ IsSeq(Joined(stmt, ctes, d))
         /\ ToSet(Joined(stmt, ctes, d)) = {<<row>> : row \in d[stmt.from.type]}
  <1> DEFINE s == RowsOf(stmt.from, ctes, d)
             m == Len(stmt.joins)
             first == MapSeq(LAMBDA row : <<row>>, s)
             step(f, n) == JoinedTo(stmt, stmt.joins[n], f[n - 1], ctes, d)
             by(f) == f = [n \in 0..m |-> IF n = 0 THEN first ELSE step(f, n)]
             h == CHOOSE f : by(f)
  <1>1. IsSeq(s) /\ ToSet(s) = d[stmt.from.type]
    BY SetAsSeq DEF RowsOf
  <1>2. m = 0
    BY EmptySeq
  <1>3. Joined(stmt, ctes, d) = h[m]
    BY Zenon DEF Joined
  <1>4. first = [i \in DOMAIN s |-> <<s[i]>>]
    BY Zenon DEF MapSeq
  <1> HIDE DEF m, s, first, step
  <1>5. by([n \in 0..m |-> first])
    BY <1>2
  <1>6. by(h)
    BY <1>5
  <1> HIDE DEF h
  <1>7. h[m] = first
    BY <1>2, <1>6
  <1>8. IsSeq(first) /\ DOMAIN first = DOMAIN s
    BY <1>1, <1>4, MapIsSeq DEF FunctionOn
  <1>9. ToSet(first) = {<<row>> : row \in ToSet(s)}
    BY <1>4 DEF ToSet
  <1> QED
    BY <1>1, <1>3, <1>7, <1>8, <1>9

LEMMA RowsPassed ==
  ASSUME NEW stmt, stmt.joins = <<>>, IsBase(stmt.from), NEW ps, NEW g, NEW ctes, NEW d,
         IsFiniteSet(d[stmt.from.type])
  PROVE  ToSet(Filtered(stmt, ps, g, ctes, d))
           = {<<row>> : row \in {r \in d[stmt.from.type] : Passes(stmt, ps, g, <<r>>)}}
  <1> DEFINE joined == Joined(stmt, ctes, d)
             P == {i \in DOMAIN joined : Passes(stmt, ps, g, joined[i])}
  <1>1. IsSeq(joined) /\ ToSet(joined) = {<<row>> : row \in d[stmt.from.type]}
    BY RowsAlone
  <1>2. Filtered(stmt, ps, g, ctes, d) = Kept(joined, P)
    BY DEF Filtered, Passing
  <1> HIDE DEF joined
  <1>3. ToSet(Kept(joined, P)) = {joined[i] : i \in DOMAIN joined \cap P}
    BY <1>1, KeptElements DEF IsSeq
  <1>4. {joined[i] : i \in DOMAIN joined \cap P} = {r \in ToSet(joined) : Passes(stmt, ps, g, r)}
    BY DEF ToSet
  <1> QED
    BY <1>1, <1>2, <1>3, <1>4

\* A statement that reads its own table only, and filters on it.
Alone(stmt) ==
  /\ stmt.joins = <<>>
  /\ \A k \in DOMAIN stmt.where : stmt.where[k].ref.tbl = stmt.from

LEMMA CellAlone ==
  ASSUME NEW stmt, stmt.joins = <<>>, NEW row, NEW ref, ref.tbl = stmt.from
  PROVE  Cell(stmt, <<row>>, ref) = IF ref.col \in DOMAIN row THEN row[ref.col] ELSE Null
  <1>1. MapSeq(LAMBDA j : j.tbl, stmt.joins) = <<>>
    <2>1. MapSeq(LAMBDA j : j.tbl, stmt.joins) = [i \in DOMAIN stmt.joins |-> stmt.joins[i].tbl]
      BY Zenon DEF MapSeq
    <2>2. DOMAIN stmt.joins = {}
      BY NoneIsSeq
    <2> QED
      BY <2>1, <2>2
  <1>2. Tables(stmt) = <<stmt.from>>
    BY <1>1, TupleIsSeq, NoneJoined DEF Tables
  <1> DEFINE c == CHOOSE i \in DOMAIN Tables(stmt) : Tables(stmt)[i] = ref.tbl
             tuple == <<row>>
  <1>3. c = 1
    BY <1>2
  <1>4. Cell(stmt, tuple, ref) = IF ref.col \in DOMAIN tuple[c] THEN tuple[c][ref.col] ELSE Null
    BY Zenon DEF Cell
  <1> HIDE DEF c
  <1>5. tuple[c] = row
    BY <1>3
  <1> HIDE DEF tuple
  <1> QED
    BY <1>4, <1>5 DEF tuple

\* The filter on the key of a table lets the row pass that the request names.
LEMMA KeyPasses ==
  ASSUME NEW stmt, Alone(stmt), FiltersOnKey(stmt), NEW ps, IsSeq(ps), StmtBinds(ps, stmt), NEW g, NEW t, t = stmt.from.type,
         NEW row, KeyColumns(t) \subseteq DOMAIN row, \A col \in KeyColumns(t) : row[col] # Null
  PROVE  Passes(stmt, ps, g, <<row>>) <=> HasKey(t, row, g.id)
  <1>1. {stmt.where[k].ref.col : k \in DOMAIN stmt.where} = KeyColumns(t)
    BY DEF FiltersOnKey, KeyColumns
  <1>2. ASSUME NEW k \in DOMAIN stmt.where
        PROVE  LET w == stmt.where[k] IN
               SameCell(Cell(stmt, <<row>>, w.ref), BoundValue(ps, w.param, g)) <=> row[w.ref.col] = g.id[w.ref.col]
    <2> DEFINE w == stmt.where[k]
    <2>1. w.ref.col \in KeyColumns(t)
      BY <1>1, <1>2
    <2>2. Cell(stmt, <<row>>, w.ref) = row[w.ref.col]
      BY <1>2, <2>1, CellAlone DEF Alone
    <2>3. BoundValue(ps, w.param, g) = g.id[w.ref.col]
      <3>1. Bound(ps, w.param, [v |-> "id", of |-> w.ref.col])
        BY <1>2 DEF StmtBinds
      <3>2. w.param # 0 /\ ps[w.param] = [v |-> "id", of |-> w.ref.col]
        BY <3>1 DEF Bound, IsSeq
      <3> HIDE DEF w
      <3>3. BoundValue(ps, w.param, g) = ParamValue([v |-> "id", of |-> w.ref.col], g)
        BY <3>2 DEF BoundValue
      <3> QED
        BY <3>3 DEF ParamValue
    <2> QED
      BY <2>1, <2>2, <2>3 DEF SameCell
  <1> QED
    BY <1>1, <1>2 DEF Passes, HasKey

----------------------------------------------------------------------------
(* The rows a request names *)

\* The promise speaks of keys, rows and constraints as the statement does.
LEMMA SameWords ==
  ASSUME NEW d, NEW t, NEW g, NEW old, NEW new, NEW row, NEW values
  PROVE  /\ Promise!HasKey(t, row, g) <=> HasKey(t, row, g)
         /\ Promise!Constrained(d) <=> Constrained(d)
         /\ Promise!NewRow(t, values, g) = NewRow(t, values, g)
         /\ Promise!Changed(row, values) = Changed(row, values)
         /\ Promise!Replaced(d, t, old, new) = Replaced(d, t, old, new)
         /\ Promise!Deleted(d, t, old) = Deleted(d, t, old)
  <1>1. Promise!HasKey(t, row, g) <=> HasKey(t, row, g)
    BY DEF Promise!HasKey, HasKey, Promise!KeyColumns, KeyColumns, Promise!PrimaryKey, PrimaryKey
  <1>2. Promise!Constrained(d) <=> Constrained(d)
    BY DEF Promise!Constrained, Constrained, Promise!HasKey, HasKey, Promise!KeyColumns, KeyColumns,
           Promise!PrimaryKey, PrimaryKey, Promise!ForeignKeys, ForeignKeys, Promise!IsManyToOne, IsManyToOne,
           Promise!Refers, Refers, Promise!RelatedType, RelatedType, Promise!KeyCell, KeyCell,
           Promise!Null, Null
  <1>3. Promise!NewRow(t, values, g) = NewRow(t, values, g)
    BY DEF Promise!NewRow, NewRow, Promise!BaseColumns, BaseColumns, Promise!KeyColumns, KeyColumns,
           Promise!PrimaryKey, PrimaryKey, Promise!IsManyToOne, IsManyToOne, Promise!Null, Null
  <1>4. Promise!Changed(row, values) = Changed(row, values)
    BY DEF Promise!Changed, Changed
  <1>5. Promise!Replaced(d, t, old, new) = Replaced(d, t, old, new)
    BY DEF Promise!Replaced, Replaced
  <1>6. Promise!Deleted(d, t, old) = Deleted(d, t, old)
    BY DEF Promise!Deleted, Deleted, Promise!Settled, Settled, Promise!Refers, Refers,
           Promise!PrimaryKey, PrimaryKey, Promise!ForeignKeys, ForeignKeys, Promise!IsManyToOne, IsManyToOne,
           Promise!RelatedType, RelatedType, Promise!KeyCell, KeyCell, Promise!Null, Null,
           Promise!Cardinality, Cardinality
  <1> QED
    BY <1>1, <1>2, <1>3, <1>4, <1>5, <1>6

\* A statement that filters on the key of its table touches the rows that have
\* the id of the request, in whatever database it runs.
LEMMA TouchesNamed ==
  ASSUME NEW d \in Databases, NEW stmt, stmt.from.type \in TableStore, IsBase(stmt.from),
         Alone(stmt), FiltersOnKey(stmt), NEW ps, IsSeq(ps), StmtBinds(ps, stmt), NEW g
  PROVE  LET t == stmt.from.type IN Touched(stmt, ps, g, d) = {row \in d[t] : HasKey(t, row, g.id)}
  <1> DEFINE t == stmt.from.type
             P == {r \in d[t] : Passes(stmt, ps, g, <<r>>)}
             passed == ToSet(Filtered(stmt, ps, g, <<>>, d))
  <1>1. /\ IsFiniteSet(d[t])
        /\ \A row \in d[t] : row = [col \in BaseColumns(t) |-> row[col]]
        /\ Constrained(d)
    BY DatabasesAssumption
  <1>2. passed = {<<row>> : row \in P}
    <2>1. stmt.joins = <<>> /\ IsFiniteSet(d[stmt.from.type])
      BY <1>1 DEF Alone
    <2> QED
      BY <2>1, RowsPassed
  <1>3. KeyColumns(t) \subseteq BaseColumns(t)
    BY DEF KeyColumns, BaseColumns
  <1>4. ASSUME NEW row \in d[t] PROVE Passes(stmt, ps, g, <<row>>) <=> HasKey(t, row, g.id)
    <2>1. DOMAIN row = BaseColumns(t)
      BY <1>1
    <2>2. KeyColumns(t) \subseteq DOMAIN row
      BY <1>3, <2>1
    <2>3. \A col \in KeyColumns(t) : row[col] # Null
      BY <1>1 DEF Constrained
    <2> QED
      BY <2>2, <2>3, KeyPasses
  <1>5. Touched(stmt, ps, g, d) = {x[1] : x \in passed}
    BY DEF Touched
  <1>6. P = {row \in d[t] : HasKey(t, row, g.id)}
    BY <1>4
  <1> HIDE DEF passed, P
  <1>7. {x[1] : x \in passed} = P
    <2> DEFINE one(row) == <<row>>
    <2>1. \A row : one(row)[1] = row
      OBVIOUS
    <2>2. passed = {one(row) : row \in P}
      BY <1>2
    <2> HIDE DEF one
    <2> QED
      BY <2>1, <2>2
  <1> QED
    BY <1>5, <1>6, <1>7

----------------------------------------------------------------------------
(* The values a request asks to write *)

AskedValues ==
  CASE req.op = "create" \/ WritesMain -> GivenValues(req.body, MainType(req.path))
    [] WritesRel -> {RelationshipValue(PathRel, req.body.data)}
    [] OTHER -> {Value("null", Relation[PathRel].key)}

\* The relationships a body gives are those its table has a column for.
OnlyLinksGiven ==
  req.op = "create" \/ WritesMain => \A r \in GivenRels(req.body, MainType(req.path)) : IsManyToOne(r)

\* The values the promise speaks of are the ones the request asks to write, each
\* in its own column, whatever the request holds.
GivesAsked(values, g) ==
  /\ values = [col \in AskedColumns |-> values[col]]
  /\ \A v \in AskedValues : v.col \in AskedColumns /\ values[v.col] = ParamValue(v.value, g)

LEMMA BodyAskedFor ==
  ASSUME IsRequest(req), NamesFields(req), OnlyLinksGiven, req.op = "create" \/ WritesMain, req.path.rels = <<>>, NEW g
  PROVE  GivesAsked(Promise!Values(req, g), g)
  <1> DEFINE body == req.body
             t == req.path.type
             attrs == {body.attrs[i].name : i \in {j \in DOMAIN body.attrs : ~body.attrs[j].absent}}
             F == {r \in ForeignKeys(t) : body.rels[r] \in {"one", "null"}}
             keys == {Relation[r].key : r \in F}
             rels == [col \in keys |-> IF \E r \in F : Relation[r].key = col /\ body.rels[r] = "one" THEN g.ref[col] ELSE Null]
             values == [col \in attrs \cup DOMAIN rels |-> IF col \in attrs THEN g.attr[col] ELSE rels[col]]
  <1>1. Promise!Values(req, g) = values
    <2>1. ~Promise!OnRel(req)
      BY DEF Promise!OnRel
    <2>2. Promise!Values(req, g) = Promise!BodyValues(req, g)
      BY <2>1 DEF Promise!Values
    <2>3. Promise!BodyValues(req, g) = values
      BY DEF Promise!BodyValues, Promise!Given, Promise!ForeignKeys, ForeignKeys, Promise!IsManyToOne, IsManyToOne,
             Promise!Null, Null
    <2> QED
      BY <2>2, <2>3
  <1>2. MainType(req.path) = t /\ t \in Type
    BY DEF MainType, IsRequest
  <1>3. F = GivenRels(body, t)
    <2>1. ASSUME NEW r \in F PROVE r \in GivenRels(body, t)
      <3>1. r \in Rel /\ Relation[r].kind = "ManyToOne" /\ Relation[r].owner = t
        BY DEF ForeignKeys, IsManyToOne
      <3>2. \E i \in DOMAIN Resource[t].rels : Resource[t].rels[i] = r
        BY <3>1, ColumnsAssumption
      <3> QED
        BY <3>2 DEF GivenRels, ToSet, RelsOf
    <2>2. ASSUME NEW r \in GivenRels(body, t) PROVE r \in F
      <3>1. PICK i \in DOMAIN Resource[t].rels : Resource[t].rels[i] = r
        BY DEF GivenRels, ToSet, RelsOf
      <3>2. Resource[t].rels \in Seq(Rel) /\ Relation[r].owner = t
        <4>1. Resource[t].rels \in Seq(Rel)
          BY <1>2, ResourceAssumption
        <4>2. Relation[Resource[t].rels[i]].owner = t
          BY <1>2, ColumnsAssumption
        <4> QED
          BY <3>1, <4>1, <4>2
      <3>3. r \in Rel
        <4> DEFINE s == Resource[t].rels
        <4>1. s \in [1..Len(s) -> Rel]
          BY <3>2, LenProperties
        <4> HIDE DEF s
        <4>2. i \in DOMAIN s /\ s[i] = r
          BY <3>1 DEF s
        <4> QED
          BY <4>1, <4>2
      <3>4. IsManyToOne(r)
        BY <1>2 DEF OnlyLinksGiven
      <3> QED
        BY <3>2, <3>3, <3>4 DEF ForeignKeys, GivenRels
    <2> QED
      BY <2>1, <2>2
  <1>4. attrs \cup keys = GivenColumns(body, t) /\ DOMAIN rels = keys
    BY <1>3 DEF GivenColumns
  <1>5. AskedColumns = GivenColumns(body, t) /\ AskedValues = GivenValues(body, t)
    BY <1>2 DEF AskedColumns, AskedValues, WritesMain, WritesRel
  <1>6. ASSUME NEW i \in {j \in DOMAIN body.attrs : ~body.attrs[j].absent}
        PROVE  LET v == Value("attr", body.attrs[i].name) IN
               v.col \in AskedColumns /\ values[v.col] = ParamValue(v.value, g)
    <2> DEFINE v == Value("attr", body.attrs[i].name)
    <2>1. v.col = body.attrs[i].name /\ v.value = [v |-> "attr", of |-> body.attrs[i].name]
      BY DEF Value
    <2>2. v.col \in attrs
      BY <1>6, <2>1
    <2>3. values[v.col] = g.attr[v.col]
      BY <2>2
    <2>4. ParamValue([v |-> "attr", of |-> body.attrs[i].name], g) = g.attr[body.attrs[i].name]
      BY DEF ParamValue
    <2> QED
      BY <1>4, <1>5, <2>1, <2>2, <2>3, <2>4
  <1>7. ASSUME NEW r \in GivenRels(body, t)
        PROVE  LET v == RelationshipValue(r, body.rels[r]) IN
               v.col \in AskedColumns /\ values[v.col] = ParamValue(v.value, g)
    <2> DEFINE v == RelationshipValue(r, body.rels[r])
               key == Relation[r].key
    <2>1. /\ v.col = key
          /\ v.value = [v |-> IF body.rels[r] = "one" THEN "ref" ELSE "null", of |-> key]
      BY DEF RelationshipValue, Value
    <2>2. r \in F /\ r \in Rel /\ Relation[r].kind = "ManyToOne" /\ Relation[r].owner = t
      BY <1>3 DEF ForeignKeys, IsManyToOne
    <2>3. key \in keys
      BY <2>2
    <2>4. key \notin attrs
      <3>1. \A i \in DOMAIN Resource[t].attrs : Resource[t].attrs[i].name # key
        BY <2>2, ColumnsAssumption
      <3>2. attrs \subseteq AttrNames(t)
        BY <1>2 DEF NamesFields
      <3> QED
        BY <3>1, <3>2 DEF AttrNames
    <2>5. (\E s \in F : Relation[s].key = key /\ body.rels[s] = "one") <=> body.rels[r] = "one"
      <3>1. ASSUME NEW s \in F, Relation[s].key = key PROVE s = r
        BY <2>2, <3>1, ColumnsAssumption DEF ForeignKeys, IsManyToOne
      <3> QED
        BY <2>2, <3>1
    <2>6. values[key] = IF body.rels[r] = "one" THEN g.ref[key] ELSE Null
      <3>1. values[key] = rels[key]
        BY <2>3, <2>4
      <3>2. rels[key] = IF \E s \in F : Relation[s].key = key /\ body.rels[s] = "one" THEN g.ref[key] ELSE Null
        BY <2>3
      <3> QED
        BY <2>5, <3>1, <3>2
    <2>7. ParamValue(v.value, g) = IF body.rels[r] = "one" THEN g.ref[key] ELSE Null
      BY <2>1 DEF ParamValue
    <2> QED
      BY <1>4, <1>5, <2>1, <2>3, <2>6, <2>7
  <1>8. values = [col \in AskedColumns |-> values[col]]
    BY <1>4, <1>5
  <1>9. \A v \in AskedValues : v.col \in AskedColumns /\ values[v.col] = ParamValue(v.value, g)
    BY <1>5, <1>6, <1>7 DEF GivenValues
  <1> HIDE DEF values
  <1> QED
    BY <1>1, <1>8, <1>9 DEF GivesAsked

\* A path that names a relationship is about its key.
LEMMA LinkAskedFor ==
  ASSUME req.path.rels # <<>>, WritesRel \/ req.op = "delete", NEW g
  PROVE  GivesAsked(Promise!Values(req, g), g)
  <1> DEFINE key == Relation[PathRel].key
             data == IF req.op = "delete" THEN "null" ELSE req.body.data
             values == [col \in {key} |-> IF data = "one" THEN g.ref[col] ELSE Null]
  <1>1. Promise!Values(req, g) = values
    <2>1. Promise!OnRel(req)
      BY DEF Promise!OnRel
    <2>2. Promise!Values(req, g) = Promise!Given(g, {PathRel}, [s \in {PathRel} |-> data])
      BY <2>1 DEF Promise!Values, PathRel
    <2> QED
      BY <2>2 DEF Promise!Given, Promise!Null, Null
  <1>2. AskedColumns = {key} /\ AskedValues = {RelationshipValue(PathRel, data)}
    BY DEF AskedColumns, AskedValues, WritesMain, WritesRel, RelationshipValue
  <1> DEFINE v == RelationshipValue(PathRel, data)
  <1>3. v.col = key /\ v.value = [v |-> IF data = "one" THEN "ref" ELSE "null", of |-> key]
    BY DEF RelationshipValue, Value
  <1>4. ParamValue(v.value, g) = IF data = "one" THEN g.ref[key] ELSE Null
    BY <1>3 DEF ParamValue
  <1>5. values[key] = IF data = "one" THEN g.ref[key] ELSE Null
    OBVIOUS
  <1>6. values = [col \in AskedColumns |-> values[col]]
    BY <1>2
  <1> HIDE DEF values, v
  <1> QED
    BY <1>1, <1>2, <1>3, <1>4, <1>5, <1>6 DEF GivesAsked, v

\* A column that is set gets a value the request asks to write in that column.
Meant(ps, s) ==
  \E v \in AskedValues :
    s.col = v.col /\ IF s.param = 0 THEN v.value.v = "null" ELSE Bound(ps, s.param, v.value)

LEMMA SetsGive ==
  ASSUME NEW stmt, NEW ps, NEW g, NEW values, GivesAsked(values, g), SetColumns(stmt) = AskedColumns,
         \A k \in DOMAIN stmt.sets : Meant(ps, stmt.sets[k])
  PROVE  SetValues(stmt, ps, g) = values
  <1>1. ASSUME NEW k \in DOMAIN stmt.sets
        PROVE  BoundValue(ps, stmt.sets[k].param, g) = values[stmt.sets[k].col]
    <2> DEFINE s == stmt.sets[k]
    <2>1. PICK v \in AskedValues :
            s.col = v.col /\ IF s.param = 0 THEN v.value.v = "null" ELSE Bound(ps, s.param, v.value)
      BY <1>1 DEF Meant
    <2>2. values[v.col] = ParamValue(v.value, g)
      BY DEF GivesAsked
    <2> HIDE DEF s
    <2>3. CASE s.param = 0
      <3>1. v.value.v = "null"
        BY <2>1, <2>3
      <3>2. ParamValue(v.value, g) = Null
        BY <3>1 DEF ParamValue
      <3>3. BoundValue(ps, s.param, g) = Null
        BY <2>3 DEF BoundValue
      <3> QED
        BY <2>1, <2>2, <3>2, <3>3 DEF s
    <2>4. CASE s.param # 0
      <3>1. ps[s.param] = v.value
        BY <2>1, <2>4 DEF Bound
      <3>2. BoundValue(ps, s.param, g) = ParamValue(v.value, g)
        BY <2>4, <3>1 DEF BoundValue
      <3> QED
        BY <2>1, <2>2, <3>2 DEF s
    <2> QED
      BY <2>3, <2>4
  <1> DEFINE cols == {stmt.sets[k].col : k \in DOMAIN stmt.sets}
             at1(col) == CHOOSE k \in DOMAIN stmt.sets : stmt.sets[k].col = col
             given1(col) == BoundValue(ps, stmt.sets[at1(col)].param, g)
  <1>2. SetValues(stmt, ps, g) = [col \in cols |-> given1(col)]
    BY DEF SetValues
  <1>3. ASSUME NEW col \in cols PROVE given1(col) = values[col]
    <2>1. at1(col) \in DOMAIN stmt.sets /\ stmt.sets[at1(col)].col = col
      OBVIOUS
    <2> HIDE DEF at1
    <2> QED
      BY <1>1, <2>1
  <1> HIDE DEF given1
  <1>4. cols = AskedColumns
    BY DEF SetColumns
  <1> HIDE DEF cols
  <1>5. values = [col \in cols |-> values[col]]
    BY <1>4 DEF GivesAsked
  <1> QED
    BY <1>2, <1>3, <1>5

LEMMA ValuesMeant ==
  ASSUME NEW ps, NEW values, IsSeq(values), ToSet(values) \subseteq AskedValues,
         Holds(ps, 0, ValueParams(values)), NEW stmt, stmt.sets = SetList(values, 0)
  PROVE  \A k \in DOMAIN stmt.sets : Meant(ps, stmt.sets[k])
  <1>1. ValueParams(values) = [k \in DOMAIN values |-> values[k].value]
    BY Zenon DEF ValueParams, MapSeq
  <1>2. Len(values) \in Nat /\ DOMAIN values = 1..Len(values)
    BY LenProperties DEF IsSeq
  <1>3. ASSUME NEW k \in DOMAIN values PROVE Meant(ps, SetList(values, 0)[k])
    <2>1. values[k] \in AskedValues
      BY <1>3 DEF ToSet
    <2>2. Bound(ps, 0 + k, values[k].value)
      BY <1>1, <1>3 DEF Holds
    <2>3. 0 + k # 0
      BY <1>2, <1>3
    <2>4. SetList(values, 0)[k] = [col |-> values[k].col, param |-> 0 + k]
      BY <1>3 DEF SetList
    <2> QED
      BY <2>1, <2>2, <2>3, <2>4 DEF Meant
  <1>4. DOMAIN stmt.sets = DOMAIN values
    BY DEF SetList
  <1> QED
    BY <1>3, <1>4

----------------------------------------------------------------------------
(* The invariant *)

\* What a statement that writes is made of: its own table, the filter on the key
\* of that table, the values asked for.
MadeAsAsked(ps, stmt) ==
  Alone(stmt) /\ (OnlyAlias => \A k \in DOMAIN stmt.sets : Meant(ps, stmt.sets[k]))

\* What the checks before it have shown of the request.
Accepted ==
  /\ req.op \in {"read", "create", "delete"} \/ WritesMain \/ WritesRel
  /\ req.op # "read" => WrittenTable.type \in TableStore
  /\ OnlyLinksGiven

MadeInv ==
  /\ req.op = "create" => req.path.kind = "Type"
  /\ \A i \in WritePositions : MadeAsAsked(params, buf[i].stmt)
  /\ pc \in {"rels", "finish", "built"} =>
       /\ Accepted
       /\ ~SaysWhat => \E i \in WritePositions : buf[i].stmt.sets = <<>>

LEMMA ValuesStay ==
  ASSUME req' = req
  PROVE  AskedValues' = AskedValues /\ (Accepted' <=> Accepted)
  <1>1. AskedValues' = AskedValues
    BY DEF AskedValues, WritesMain, WritesRel, PathRel
  <1>2. Accepted' <=> Accepted
    BY DEF Accepted, OnlyLinksGiven, WritesMain, WritesRel, WrittenTable, MainTable, PathTable
  <1> QED
    BY <1>1, <1>2

\* What is made stays made when more is pushed.
LEMMA StaysMade ==
  ASSUME NEW ps, NEW qs, \A n, v : Bound(ps, n, v) => Bound(qs, n, v),
         NEW stmt, MadeAsAsked(ps, stmt)
  PROVE  MadeAsAsked(qs, stmt)
  <1>1. \A s : Meant(ps, s) => Meant(qs, s)
    BY DEF Meant
  <1> QED
    BY <1>1 DEF MadeAsAsked

\* And when the request does.
LEMMA MadeOf ==
  ASSUME req' = req, \A i \in WritePositions' : MadeAsAsked(params', buf'[i].stmt)
  PROVE  \A i \in WritePositions' : MadeAsAsked(params, buf[i].stmt)'
  <1>1. AskedValues' = AskedValues
    BY ValuesStay
  <1>2. OnlyAlias' <=> OnlyAlias
    BY RequestStays
  <1>3. \A s : Meant(params', s) => Meant(params, s)'
    BY <1>1 DEF Meant
  <1> QED
    BY <1>2, <1>3 DEF MadeAsAsked

LEMMA FirstMade ==
  ASSUME IInv, PunctuationInv, MadeInv, pc = "start", NEW stmt, WritesFirst(stmt),
         MadeAsAsked(params', stmt), Accepted, ~SaysWhat => stmt.q = "update" /\ stmt.sets = <<>>
  PROVE  MadeInv'
  <1>1. PICK toks, k :
          /\ IsSeq(toks) /\ buf' = buf \o toks
          /\ k \in DOMAIN toks /\ toks[k].t \in {"cte", "write"} /\ toks[k].stmt = stmt
          /\ \A i \in DOMAIN toks : Writing(toks[i]) => i = k
    BY DEF WritesFirst
  <1>2. req' = req
    BY DEF WritesFirst
  <1>3. WritePositions = {}
    BY DEF PunctuationInv, Stages, WritePositions, StmtPositions, Positions
  <1>4. \A i \in WritePositions' : buf'[i] = toks[k]
    BY <1>1, <1>3, WhereItWrites
  <1>5. Writing(toks[k]) => Len(buf) + k \in WritePositions'
    BY <1>1, WhereItWrites
  <1>6. \A i \in WritePositions' : MadeAsAsked(params', buf'[i].stmt)
    BY <1>1, <1>4
  <1>7. \A i \in WritePositions' : MadeAsAsked(params, buf[i].stmt)'
    BY <1>2, <1>6, MadeOf
  <1>8. ~SaysWhat => \E i \in WritePositions' : buf'[i].stmt.sets = <<>>
    <2> SUFFICES ASSUME ~SaysWhat PROVE \E i \in WritePositions' : buf'[i].stmt.sets = <<>>
      OBVIOUS
    <2>1. Writing(toks[k])
      BY <1>1 DEF Writing
    <2> QED
      BY <1>1, <1>4, <1>5, <2>1
  <1>9. Accepted' /\ (SaysWhat' <=> SaysWhat)
    <2>1. Accepted'
      BY <1>2, ValuesStay
    <2>2. SaysWhat' <=> SaysWhat
      BY <1>2, RequestStays
    <2> QED
      BY <2>1, <2>2
  <1>10. req'.op = "create" => req'.path.kind = "Type"
    BY <1>2 DEF MadeInv
  <1> QED
    BY <1>7, <1>8, <1>9, <1>10 DEF MadeInv

----------------------------------------------------------------------------
(* What the checks have shown *)

LEMMA TablesPassed ==
  ASSUME IInv
  PROVE  /\ InsertError = "none" \/ UpdateMainError = "none" => MainTable.type \in TableStore
         /\ UpdateRelError = "none" => PathTable.type \in TableStore
         /\ \A r : DeleteRelError(r) = "none" => PathTable.type \in TableStore
  <1> DEFINE t == MainTable.type
             main1 == Missing({t})
             path1 == Missing({PathTable.type})
             data == ExtractData(req.body, t).err
             rel == ExtractRelData(PathRel, req.body.data).err
             id == CheckInsertRequest(req.body)
             json == JsonError(t, TRUE)
             jsonOfPath == JsonError(PathTable.type, TRUE)
             mainKind == Unless(req.body.kind = "main", "ManyRelationshipDirectWrite")
             relKind == Unless(req.body.kind = "rel", "UpdatingMainObject")
  <1>1. /\ data \in EarlyError /\ rel \in EarlyError /\ id \in EarlyError
        /\ json \in EarlyError /\ jsonOfPath \in EarlyError
        /\ mainKind \in EarlyError /\ relKind \in EarlyError
        /\ main1 \in EarlyError /\ path1 \in EarlyError
    BY ChecksTyped, ExtractionTyped DEF EarlyError
  <1>2. /\ InsertError = FirstError(<<id, main1, data, json>>)
        /\ UpdateMainError = FirstError(<<main1, mainKind, data, json>>)
        /\ UpdateRelError = FirstError(<<path1, main1, relKind, rel, jsonOfPath>>)
    BY DEF InsertError, UpdateMainError, UpdateRelError
  <1>3. \A u : Missing({u}) = "none" => u \in TableStore
    BY DEF Missing
  <1> HIDE DEF data, rel, id, json, jsonOfPath, mainKind, relKind
  <1>4. ASSUME NEW a \in EarlyError, NEW b \in EarlyError, NEW c \in EarlyError, NEW d \in EarlyError,
               FirstError(<<a, b, c, d>>) = "none"
        PROVE  a = "none" /\ b = "none"
    <2> DEFINE errs == <<a, b, c, d>>
    <2>1. DOMAIN errs = {1, 2, 3, 4} /\ errs[1] = a /\ errs[2] = b /\ \A i \in DOMAIN errs : errs[i] \in EarlyError
      OBVIOUS
    <2>2. FirstError(errs) = "none"
      BY <1>4
    <2> HIDE DEF errs
    <2> QED
      BY <2>1, <2>2, FirstErrorTyped
  <1>5. ASSUME NEW a \in EarlyError, NEW b \in EarlyError, NEW c \in EarlyError, NEW d \in EarlyError,
               NEW e \in EarlyError, FirstError(<<a, b, c, d, e>>) = "none"
        PROVE  a = "none"
    <2> DEFINE errs == <<a, b, c, d, e>>
    <2>1. DOMAIN errs = {1, 2, 3, 4, 5} /\ errs[1] = a /\ \A i \in DOMAIN errs : errs[i] \in EarlyError
      OBVIOUS
    <2>2. FirstError(errs) = "none"
      BY <1>5
    <2> HIDE DEF errs
    <2> QED
      BY <2>1, <2>2, FirstErrorTyped
  <1>6. (InsertError = "none" \/ UpdateMainError = "none") => main1 = "none"
    <2> HIDE DEF main1
    <2> QED
      BY <1>1, <1>2, <1>4
  <1>7. UpdateRelError = "none" => path1 = "none"
    <2> HIDE DEF main1, path1
    <2> QED
      BY <1>1, <1>2, <1>5
  <1>8. ASSUME NEW r, DeleteRelError(r) = "none" PROVE PathTable.type \in TableStore
    <2> DEFINE a == Unless(Relation[r].optional, "MissingRelationship")
               b == Missing({ManyResource(r)})
    <2>1. ManyResource(r) = req.path.type /\ FirstError(<<a, b>>) = "none"
      BY <1>8 DEF DeleteRelError
    <2>2. a \in EarlyError /\ b \in EarlyError
      BY ChecksTyped
    <2>3. b = "none"
      <3> HIDE DEF a, b
      <3> QED
        BY <2>1, <2>2, NoneFailed
    <2> QED
      BY <1>3, <2>1, <2>3 DEF PathTable, BaseTable
  <1> QED
    BY <1>3, <1>6, <1>7, <1>8

\* A body that was extracted gives only relationships its table has a column for.
LEMMA ExtractedLinks ==
  ASSUME IsRequest(req), ExtractData(req.body, MainTable.type).err = "none"
  PROVE  OnlyLinksGiven
  <1>1. MainTable.type \in Type /\ MainTable.type = MainType(req.path)
    BY RequestTyped DEF MainTable, BaseTable
  <1>2. \A i \in DOMAIN RelsOf(MainTable.type) :
          req.body.rels[RelsOf(MainTable.type)[i]] \in {"one", "null"} => IsManyToOne(RelsOf(MainTable.type)[i])
    BY <1>1, LinksExtracted
  <1> QED
    BY <1>1, <1>2 DEF OnlyLinksGiven, GivenRels, ToSet

----------------------------------------------------------------------------
(* What each request makes *)

LEMMA BodyGives ==
  ASSUME req.op = "create" \/ WritesMain
  PROVE  AskedValues = GivenValues(req.body, MainType(req.path))
  BY DEF AskedValues, WritesMain, WritesRel

\* What is pushed first is bound to the first placeholders.
LEMMA FirstHolds ==
  ASSUME IsRequest(req), ParamsInv, pc = "start", NEW t \in Type, NEW suffix, NEW stmt, NEW written,
         NEW additional, NEW map, WriteThenSelect(t, suffix, stmt, written, additional, map), IsSeq(written)
  PROVE  Holds(params', 0, written)
  <1> DEFINE fields == JsonFields(req.sparse, t, TRUE)
             pushed == SelectParams(t, <<>>, fields)
  <1>1. params' = params \o written \o pushed
    BY DEF WriteThenSelect
  <1>2. IsSeq(pushed)
    BY FieldsTyped, SelectParamsTyped
  <1> HIDE DEF pushed
  <1>3. params = <<>> /\ IsSeq(<<>>) /\ Len(<<>>) = 0
    BY NoneIsSeq DEF ParamsInv
  <1>4. IsSeq(written \o pushed) /\ params' = <<>> \o (written \o pushed)
    BY <1>1, <1>2, <1>3, ConcatLen, NoneJoined
  <1>5. Holds(params', 0, written \o pushed)
    <2> DEFINE vs == written \o pushed
    <2>1. IsSeq(vs) /\ params' = <<>> \o vs
      BY <1>4
    <2> HIDE DEF vs
    <2>2. Holds(<<>> \o vs, Len(<<>>), vs)
      BY <1>3, <2>1, HoldsPushed
    <2> QED
      BY <1>3, <2>1, <2>2 DEF vs
  <1> QED
    BY <1>2, <1>5, HoldsJoined

\* A statement on the table it filters.
LEMMA StmtAlone ==
  ASSUME NEW q, NEW tbl, NEW sets, NEW n
  PROVE  /\ Alone(Stmt(q, tbl, <<>>, <<>>, sets, ComparePkey(tbl, n)))
         /\ Alone(Stmt(q, tbl, <<>>, <<>>, sets, <<>>))
  <1>1. ASSUME NEW where, \A k \in DOMAIN where : where[k].ref.tbl = tbl
        PROVE  Alone(Stmt(q, tbl, <<>>, <<>>, sets, where))
    BY <1>1 DEF Alone, Stmt
  <1>2. \A k \in DOMAIN ComparePkey(tbl, n) : ComparePkey(tbl, n)[k].ref.tbl = tbl
    BY DEF ComparePkey, Ref
  <1>3. DOMAIN <<>> = {}
    BY NoneIsSeq
  <1> QED
    BY <1>1, <1>2, <1>3

LEMMA GenInsertMade ==
  ASSUME IInv, PunctuationInv, ParamsInv, MadeInv, GenInsert
  PROVE  MadeInv'
  <1> DEFINE t == MainTable.type
             data == ExtractData(req.body, t)
             values == data.values
             stmt == Stmt("insert", MainTable, <<>>, <<>>, SetList(values, 0), <<>>)
  <1>1. pc = "start" /\ req.op = "create" /\ InsertError = "none" /\ WritesFirst(stmt)
    BY GenInsertFirst
  <1>2. IsRequest(req) /\ t \in Type /\ t = MainType(req.path)
    BY RequestTyped DEF IInv, MainTable, BaseTable
  <1>3. data.err = "none"
    BY <1>1, ChecksPassed
  <1>4. Valued(values) /\ IsSeq(values) /\ ToSet(values) = GivenValues(req.body, t)
    BY <1>2, <1>3, ExtractionValued, ExtractedValues
  <1>5. ToSet(values) = AskedValues
    <2>1. AskedValues = GivenValues(req.body, MainType(req.path))
      BY <1>1, BodyGives
    <2> HIDE DEF values
    <2> QED
      BY <1>2, <1>4, <2>1
  <1>6. PICK additional, map : WriteThenSelect(t, "insert", stmt, ValueParams(values), additional, map)
    BY DEF GenInsert
  <1>7. stmt.sets = SetList(values, 0)
    BY DEF Stmt
  <1>8. Alone(stmt)
    BY StmtAlone
  <1> HIDE DEF values, stmt
  <1>9. Holds(params', 0, ValueParams(values))
    BY <1>1, <1>2, <1>4, <1>6, FirstHolds, ValueSets
  <1>10. \A k \in DOMAIN stmt.sets : Meant(params', stmt.sets[k])
    BY <1>4, <1>5, <1>7, <1>9, ValuesMeant
  <1>11. MadeAsAsked(params', stmt)
    BY <1>8, <1>10 DEF MadeAsAsked
  <1>12. Accepted
    <2>1. OnlyLinksGiven
      BY <1>2, <1>3, ExtractedLinks
    <2>2. t \in TableStore
      BY <1>1, TablesPassed
    <2> QED
      BY <1>1, <2>1, <2>2 DEF Accepted, WrittenTable
  <1>13. SaysWhat
    BY <1>1 DEF SaysWhat, WritesRel
  <1> QED
    BY <1>1, <1>11, <1>12, <1>13, FirstMade

LEMMA GenUpdateMainMade ==
  ASSUME IInv, PunctuationInv, ParamsInv, MadeInv, GenUpdateMain
  PROVE  MadeInv'
  <1> DEFINE t == MainTable.type
             data == ExtractData(req.body, t)
             values == data.values
             written == ValueParams(values) \o PkeyParams(t)
             star == Stmt("star", MainTable, <<>>, <<>>, <<>>, ComparePkey(MainTable, 0))
             update == UpdateStmt(MainTable, values)
             stmt == IF values = <<>> THEN star ELSE update
  <1>1. /\ pc = "start" /\ WritesMain /\ UpdateMainError = "none" /\ MainTable = PathTable
        /\ WritesFirst(stmt)
    BY GenUpdateMainFirst
  <1>2. IsRequest(req) /\ t \in Type /\ t = MainType(req.path)
    BY RequestTyped DEF IInv, MainTable, BaseTable
  <1>3. data.err = "none"
    BY <1>1, ChecksPassed
  <1>4. Valued(values) /\ IsSeq(values) /\ ToSet(values) = GivenValues(req.body, t)
    BY <1>2, <1>3, ExtractionValued, ExtractedValues
  <1>5. ToSet(values) = AskedValues
    <2>1. AskedValues = GivenValues(req.body, MainType(req.path))
      BY <1>1, BodyGives
    <2> HIDE DEF values
    <2> QED
      BY <1>2, <1>4, <2>1
  <1>6. PICK additional, map : WriteThenSelect(t, "update", stmt, written, additional, map)
    BY DEF GenUpdateMain
  <1>7. update.sets = SetList(values, 0) /\ star.sets = <<>>
    BY UpdateIs DEF Stmt
  <1>8. Alone(star) /\ Alone(update)
    BY StmtAlone DEF UpdateStmt
  <1>9. IsSeq(ValueParams(values)) /\ IsSeq(PkeyParams(t)) /\ IsSeq(written)
    <2>1. IsSeq(ValueParams(values))
      <3> HIDE DEF values
      <3> QED
        BY <1>4, ValueSets
    <2>2. IsSeq(PkeyParams(t))
      BY <1>2, KeyWhere
    <2> QED
      BY <2>1, <2>2, ConcatLen
  <1> HIDE DEF values, star, update
  <1>10. Holds(params', 0, written)
    <2> HIDE DEF written, stmt
    <2> QED
      BY <1>1, <1>2, <1>6, <1>9, FirstHolds
  <1>11. Holds(params', 0, ValueParams(values))
    BY <1>9, <1>10, HoldsJoined
  <1>12. \A k \in DOMAIN update.sets : Meant(params', update.sets[k])
    BY <1>4, <1>5, <1>7, <1>11, ValuesMeant
  <1>13. MadeAsAsked(params', update) /\ MadeAsAsked(params', star)
    <2>1. \A k \in DOMAIN star.sets : Meant(params', star.sets[k])
      BY <1>7, NoneIsSeq
    <2> QED
      BY <1>8, <1>12, <2>1 DEF MadeAsAsked
  <1>14. MadeAsAsked(params', stmt)
    BY <1>13
  <1>15. Accepted
    <2>1. OnlyLinksGiven
      BY <1>2, <1>3, ExtractedLinks
    <2>2. t \in TableStore
      BY <1>1, TablesPassed
    <2> QED
      BY <1>1, <2>1, <2>2 DEF Accepted, WrittenTable
  <1>16. SaysWhat
    BY <1>1 DEF SaysWhat, WritesRel, WritesMain
  <1> HIDE DEF stmt
  <1> QED
    BY <1>1, <1>14, <1>15, <1>16, FirstMade

LEMMA GenUpdateRelMade ==
  ASSUME IInv, PunctuationInv, ParamsInv, MadeInv, GenUpdateRel
  PROVE  MadeInv'
  <1> DEFINE t == PathTable.type
             data == req.body.data
             values == ExtractRelData(PathRel, data).values
             written == ValueParams(values) \o PkeyParams(t)
             stmt == UpdateStmt(PathTable, values)
  <1>1. pc = "start" /\ WritesRel /\ UpdateRelError = "none" /\ WritesFirst(stmt)
    BY GenUpdateRelFirst
  <1>2. IsRequest(req) /\ t \in Type
    BY RequestTyped DEF IInv
  <1>3. Valued(values) /\ IsSeq(values)
    BY RelExtractionValued DEF Valued
  <1>4. ToSet(values) \subseteq AskedValues
    <2>1. AskedValues = {RelationshipValue(PathRel, data)}
      BY <1>1 DEF AskedValues, WritesRel, WritesMain
    <2>2. values = <<RelationshipValue(PathRel, data)>> \/ values = <<>>
      BY DEF ExtractRelData
    <2> HIDE DEF values
    <2>3. ToSet(<<>>) = {} /\ \A v : ToSet(<<v>>) = {v}
      BY DEF ToSet
    <2> QED
      BY <2>1, <2>2, <2>3
  <1>5. PICK additional, map : WriteThenSelect(t, "update", stmt, written, additional, map)
    BY DEF GenUpdateRel
  <1>6. stmt.sets = SetList(values, 0) /\ stmt.q = "update"
    BY UpdateIs
  <1>7. Alone(stmt)
    BY StmtAlone DEF UpdateStmt
  <1>8. ~SaysWhat => values = <<>>
    BY DEF SaysWhat, ExtractRelData
  <1>9. IsSeq(ValueParams(values)) /\ IsSeq(PkeyParams(t)) /\ IsSeq(written)
    <2>1. IsSeq(ValueParams(values))
      <3> HIDE DEF values
      <3> QED
        BY <1>3, ValueSets
    <2>2. IsSeq(PkeyParams(t))
      BY <1>2, KeyWhere
    <2> QED
      BY <2>1, <2>2, ConcatLen
  <1> HIDE DEF values, stmt
  <1>10. Holds(params', 0, written)
    <2> HIDE DEF written
    <2> QED
      BY <1>1, <1>2, <1>5, <1>9, FirstHolds
  <1>11. Holds(params', 0, ValueParams(values))
    BY <1>9, <1>10, HoldsJoined
  <1>12. \A k \in DOMAIN stmt.sets : Meant(params', stmt.sets[k])
    BY <1>3, <1>4, <1>6, <1>11, ValuesMeant
  <1>13. MadeAsAsked(params', stmt)
    BY <1>7, <1>12 DEF MadeAsAsked
  <1>14. Accepted
    <2>1. OnlyLinksGiven
      BY <1>1 DEF OnlyLinksGiven, WritesRel, WritesMain
    <2>2. t \in TableStore
      BY <1>1, TablesPassed
    <2> QED
      BY <1>1, <2>1, <2>2 DEF Accepted, WrittenTable, WritesRel
  <1>15. ~SaysWhat => stmt.q = "update" /\ stmt.sets = <<>>
    <2>1. values = <<>> => SetList(values, 0) = <<>>
      BY NoneIsSeq DEF SetList
    <2> QED
      BY <1>6, <1>8, <2>1
  <1> QED
    BY <1>1, <1>13, <1>14, <1>15, FirstMade

LEMMA GenDeleteMade ==
  ASSUME IInv, PunctuationInv, MadeInv, GenDeleteNormal \/ GenDeleteRel
  PROVE  MadeInv'
  <1>1. ASSUME req.op = "delete", PathTable.type \in TableStore PROVE Accepted /\ SaysWhat
    BY <1>1 DEF Accepted, OnlyLinksGiven, WrittenTable, WritesMain, WritesRel, SaysWhat
  <1>2. CASE GenDeleteNormal
    <2> DEFINE stmt == Stmt("delete", PathTable, <<>>, <<>>, <<>>, ComparePkey(PathTable, 0))
    <2>1. pc = "start" /\ req.op = "delete" /\ WritesFirst(stmt)
      BY <1>2, GenDeleteNormalFirst
    <2>2. stmt.sets = <<>> /\ Alone(stmt)
      BY StmtAlone DEF Stmt
    <2>3. PathTable.type \in TableStore
      BY <1>2 DEF GenDeleteNormal
    <2> HIDE DEF stmt
    <2>4. MadeAsAsked(params', stmt)
      BY <2>2, NoneIsSeq DEF MadeAsAsked
    <2> QED
      BY <1>1, <2>1, <2>3, <2>4, FirstMade
  <1>3. CASE GenDeleteRel
    <2>1. pc = "start" /\ req.op = "delete" /\ req.path.rels # <<>>
      BY <1>3, GenDeleteRelFirst
    <2>2. PICK r \in AliasesTo(req.path.type, MainType(req.path)) : DeleteRelError(r) = "none" /\ WritesFirst(ClearsKey(r))
      BY <1>3, GenDeleteRelFirst
    <2>3. PathTable.type \in TableStore
      BY <2>2, TablesPassed
    <2>4. Alone(ClearsKey(r)) /\ ClearsKey(r).sets = <<[col |-> Relation[r].key, param |-> 0]>>
      BY StmtAlone DEF ClearsKey, Stmt
    <2>5. ASSUME OnlyAlias, NEW k \in DOMAIN ClearsKey(r).sets PROVE Meant(params', ClearsKey(r).sets[k])
      <3> DEFINE v == Value("null", Relation[PathRel].key)
      <3>1. r = PathRel
        BY <2>1, <2>2, <2>5 DEF OnlyAlias
      <3>2. v \in AskedValues
        BY <2>1 DEF AskedValues, WritesMain, WritesRel
      <3>3. v.col = Relation[r].key /\ v.value.v = "null"
        BY <3>1 DEF Value
      <3>4. ClearsKey(r).sets[k] = [col |-> Relation[r].key, param |-> 0]
        BY <2>4, <2>5
      <3> HIDE DEF v
      <3> QED
        BY <3>2, <3>3, <3>4 DEF Meant
    <2>6. MadeAsAsked(params', ClearsKey(r))
      BY <2>4, <2>5 DEF MadeAsAsked
    <2> QED
      BY <1>1, <2>1, <2>2, <2>3, <2>6, FirstMade
  <1> QED
    BY <1>2, <1>3

----------------------------------------------------------------------------
(* The steps *)

\* What was pushed stays where it is.
LEMMA PushedStays ==
  ASSUME IInv, ParamsInv,
         \/ SelectRel \/ FinishMain \/ FinishMainSorted \/ FinishTable \/ Build
         \/ Refuse \/ RefuseRel \/ RefuseSort \/ NextEntry \/ Terminated \/ UNCHANGED vars
  PROVE  \A n, v : Bound(params, n, v) => Bound(params', n, v)
  <1>1. CASE SelectRel
    <2> DEFINE r == at.chain[at.i + 1]
               fields == JsonFields(req.sparse, RelatedType(r), Returned(r, at.resp))
               pushed == SelectParams(RelatedType(r), <<[tbl |-> at.tbl, chain |-> CurrentRelChain]>>, fields)
    <2>1. params' = params \o pushed /\ ~EntryDone
      BY <1>1 DEF SelectRel
    <2>2. RelatedType(r) \in Type
      <3>1. at.chain \in Seq(Rel) /\ at.i \in 0..Len(at.chain)
        BY DEF IInv, TypeOK
      <3>2. at.i # Len(at.chain) /\ Len(at.chain) \in Nat
        BY <2>1, <3>1, LenProperties DEF EntryDone
      <3> DEFINE n == at.i + 1
      <3>3. n \in 1..Len(at.chain)
        BY <3>1, <3>2
      <3> HIDE DEF n
      <3>4. at.chain[n] \in Rel
        BY <3>1, <3>3, ElementOfSeq
      <3> QED
        BY <3>4, RelationAssumption DEF RelatedType, n
    <2>3. fields \in Seq(Ident)
      BY <2>2, FieldsTyped DEF IInv
    <2> HIDE DEF fields
    <2>4. IsSeq(pushed) /\ IsSeq(params)
      BY <2>3, SelectParamsTyped DEF ParamsInv
    <2> HIDE DEF pushed
    <2> QED
      BY <2>1, <2>4, HoldsPushed
  <1>2. CASE \/ FinishMain \/ FinishMainSorted \/ FinishTable \/ Build
             \/ Refuse \/ RefuseRel \/ RefuseSort \/ NextEntry \/ Terminated \/ UNCHANGED vars
    <2>1. params' = params
      BY <1>2 DEF FinishMain, FinishMainSorted, FinishTable, Build, Refuse, RefuseRel, RefuseSort, NextEntry,
                  Terminated, Fail, vars
    <2> QED
      BY <2>1
  <1> QED
    BY <1>1, <1>2

LEMMA InitMade == Init => MadeInv
  <1> SUFFICES ASSUME Init PROVE MadeInv
    OBVIOUS
  <1>1. pc = "start" /\ buf = <<>> /\ req \in Requests
    BY DEF Init
  <1>2. WritePositions = {}
    BY <1>1 DEF WritePositions, StmtPositions, Positions
  <1>3. req.op = "create" => req.path.kind = "Type"
    BY <1>1, CreationAssumption
  <1> QED
    BY <1>1, <1>2, <1>3 DEF MadeInv

LEMMA NextMade ==
  ASSUME IInv, PunctuationInv, ParamsInv, MadeInv, [Next]_vars
  PROVE  MadeInv'
  <1>1. CASE GenSelect \/ GenSelectRelationships
    <2>1. pc = "start" /\ req.op = "read" /\ ReadsOn
      BY <1>1, GenSelectReads
    <2>2. WritePositions = {}
      BY <2>1 DEF PunctuationInv, Stages, WritePositions, StmtPositions, Positions
    <2>3. req' = req /\ WritePositions' = {}
      BY <2>1, <2>2, ReadingAsked
    <2>4. Accepted /\ SaysWhat
      BY <2>1 DEF Accepted, OnlyLinksGiven, WritesMain, SaysWhat, WritesRel
    <2>5. Accepted' /\ SaysWhat'
      BY <2>3, <2>4, ValuesStay, RequestStays
    <2>6. req'.op = "create" => req'.path.kind = "Type"
      BY <2>3 DEF MadeInv
    <2> QED
      BY <2>3, <2>5, <2>6 DEF MadeInv
  <1>2. CASE GenInsert \/ GenUpdateMain \/ GenUpdateRel \/ GenDeleteNormal \/ GenDeleteRel
    BY <1>2, GenInsertMade, GenUpdateMainMade, GenUpdateRelMade, GenDeleteMade
  <1>3. ASSUME req' = req, WritePositions' = WritePositions,
               \A i \in WritePositions : buf'[i] = buf[i],
               \A n, v : Bound(params, n, v) => Bound(params', n, v),
               pc' \in {"rels", "finish", "built"} => pc \in {"rels", "finish", "built"}
        PROVE  MadeInv'
    <2>1. \A i \in WritePositions' : MadeAsAsked(params', buf'[i].stmt)
      BY <1>3, StaysMade DEF MadeInv
    <2>2. \A i \in WritePositions' : MadeAsAsked(params, buf[i].stmt)'
      BY <1>3, <2>1, MadeOf
    <2>3. (Accepted' <=> Accepted) /\ (SaysWhat' <=> SaysWhat)
      <3>1. Accepted' <=> Accepted
        BY <1>3, ValuesStay
      <3>2. SaysWhat' <=> SaysWhat
        BY <1>3, RequestStays
      <3> QED
        BY <3>1, <3>2
    <2>4. pc' \in {"rels", "finish", "built"} =>
            /\ Accepted'
            /\ ~SaysWhat' => \E i \in WritePositions' : buf'[i].stmt.sets = <<>>
      BY <1>3, <2>3 DEF MadeInv
    <2>5. req'.op = "create" => req'.path.kind = "Type"
      BY <1>3 DEF MadeInv
    <2> QED
      BY <2>2, <2>4, <2>5 DEF MadeInv
  <1>4. CASE SelectRel \/ FinishMain \/ FinishMainSorted \/ FinishTable \/ Build
    <2>1. pc \in {"rels", "finish"} /\ ReadsOn
      BY <1>4, LaterReads
    <2>2. req' = req /\ WritePositions' = WritePositions /\ \A i \in WritePositions : buf'[i] = buf[i]
      BY <2>1, ReadingAsked
    <2>3. \A n, v : Bound(params, n, v) => Bound(params', n, v)
      BY <1>4, PushedStays
    <2> QED
      BY <1>3, <2>1, <2>2, <2>3
  <1>5. CASE Refuse \/ RefuseRel \/ RefuseSort \/ NextEntry \/ Terminated \/ UNCHANGED vars
    <2>1. UNCHANGED <<buf, req>> /\ (pc' = pc \/ pc' = "failed")
      BY <1>5, QuietSteps
    <2>2. WritePositions' = WritePositions
      BY <2>1 DEF WritePositions, StmtPositions
    <2>3. \A n, v : Bound(params, n, v) => Bound(params', n, v)
      BY <1>5, PushedStays
    <2> QED
      BY <1>3, <2>1, <2>2, <2>3
  <1> QED
    BY <1>1, <1>2, <1>4, <1>5 DEF Next

\* The request is the client's.
LEMMA RequestKept ==
  ASSUME IInv, PunctuationInv, [Next]_vars
  PROVE  req' = req
  <1>1. CASE GenSelect \/ GenSelectRelationships
    BY <1>1, GenSelectReads DEF ReadsOn
  <1>2. CASE GenInsert \/ GenUpdateMain \/ GenUpdateRel \/ GenDeleteNormal \/ GenDeleteRel
    BY <1>2, GenInsertFirst, GenUpdateMainFirst, GenUpdateRelFirst, GenDeleteNormalFirst, GenDeleteRelFirst
    DEF WritesFirst
  <1>3. CASE SelectRel \/ FinishMain \/ FinishMainSorted \/ FinishTable \/ Build
    BY <1>3, LaterReads DEF ReadsOn
  <1>4. CASE Refuse \/ RefuseRel \/ RefuseSort \/ NextEntry \/ Terminated \/ UNCHANGED vars
    BY <1>4, QuietSteps
  <1> QED
    BY <1>1, <1>2, <1>3, <1>4 DEF Next

----------------------------------------------------------------------------
(* The effect *)

\* The rows a request names, as they are and as they are changed.
NamedRows(d, g) == {row \in d[req.path.type] : HasKey(req.path.type, row, g.id)}
ChangedRows(d, g, values) == {Changed(row, values) : row \in NamedRows(d, g)}

\* What the promise says of a request, in the words of the statement.
LEMMA EffectIs ==
  ASSUME NEW d, NEW g
  PROVE  LET t == req.path.type
             named == NamedRows(d, g)
             values == Promise!Values(req, g)
             effect == Promise!Effect(d, req, g)
         IN /\ req.op = "read" => effect = d
            /\ req.op = "create" => effect = Replaced(d, t, {}, {NewRow(t, values, g.fresh)})
            /\ req.op = "delete" /\ req.path.rels = <<>> => effect = Deleted(d, t, named)
            /\ req.op \notin {"read", "create", "delete"} \/ (req.op = "delete" /\ req.path.rels # <<>>) =>
                 effect = Replaced(d, t, named, ChangedRows(d, g, values))
  <1> DEFINE t == req.path.type
             named == NamedRows(d, g)
             values == Promise!Values(req, g)
             effect == Promise!Effect(d, req, g)
             changed == ChangedRows(d, g, values)
             created == NewRow(t, values, g.fresh)
  <1>1. Promise!Named(d, req, g) = named
    BY SameWords DEF Promise!Named, NamedRows
  <1>2. Promise!Created(req, g) = created
    BY SameWords DEF Promise!Created
  <1>3. {Promise!Changed(row, values) : row \in named} = changed
    BY SameWords DEF ChangedRows
  <1>4. Promise!OnRel(req) <=> req.path.rels # <<>>
    BY DEF Promise!OnRel
  <1>5. effect = CASE req.op = "read" -> d
                   [] req.op = "create" -> Promise!Replaced(d, t, {}, {created})
                   [] req.op = "delete" /\ req.path.rels = <<>> -> Promise!Deleted(d, t, named)
                   [] OTHER -> Promise!Replaced(d, t, named, {Promise!Changed(row, values) : row \in named})
    <2> HIDE DEF named, created, values
    <2> QED
      BY <1>1, <1>2, <1>4, Zenon DEF Promise!Effect, values
  <1> HIDE DEF named, created, changed, effect, values
  <1>6. /\ Promise!Replaced(d, t, {}, {created}) = Replaced(d, t, {}, {created})
        /\ Promise!Deleted(d, t, named) = Deleted(d, t, named)
        /\ Promise!Replaced(d, t, named, changed) = Replaced(d, t, named, changed)
    BY SameWords
  <1>7. /\ req.op = "read" => effect = d
        /\ req.op = "create" => effect = Replaced(d, t, {}, {created})
        /\ req.op = "delete" /\ req.path.rels = <<>> => effect = Deleted(d, t, named)
        /\ req.op \notin {"read", "create", "delete"} \/ (req.op = "delete" /\ req.path.rels # <<>>) =>
             effect = Replaced(d, t, named, changed)
    BY <1>3, <1>5, <1>6
  <1> QED
    BY <1>7 DEF named, created, changed, effect, values

\* The values a request asks for are those the promise speaks of, whatever the
\* request writes to.
LEMMA RequestAskedFor ==
  ASSUME IsRequest(req), NamesFields(req), Accepted, req.op = "create" => req.path.kind = "Type",
         req.op # "read", ~DeletesRow, NEW g
  PROVE  /\ GivesAsked(Promise!Values(req, g), g)
         /\ req.op = "create" \/ WritesMain => req.path.rels = <<>>
         /\ WrittenTable = PathTable
  <1> DEFINE values == Promise!Values(req, g)
  <1>1. req.path.rels \in Seq(Rel)
    BY DEF IsRequest, IsChain
  <1>2. req.op = "create" \/ WritesMain => req.path.rels = <<>>
    BY <1>1, EmptySeq DEF IsRequest, WritesMain
  <1>3. WritesRel => req.path.rels # <<>>
    <2>1. ASSUME WritesRel PROVE Len(req.path.rels) = 1
      BY <2>1 DEF IsRequest, WritesRel
    <2> QED
      BY <2>1, NoneIsSeq
  <1>4. req.op = "create" \/ WritesMain => GivesAsked(values, g)
    BY <1>2, BodyAskedFor DEF Accepted
  <1>5. WritesRel => GivesAsked(values, g)
    BY <1>3, LinkAskedFor
  <1>6. req.op = "delete" => GivesAsked(values, g)
    BY LinkAskedFor DEF DeletesRow
  <1>7. WrittenTable = PathTable
    BY <1>2 DEF WrittenTable, MainTable, PathTable, MainType
  <1> HIDE DEF values
  <1>8. GivesAsked(values, g)
    BY <1>4, <1>5, <1>6 DEF Accepted
  <1> QED
    BY <1>2, <1>7, <1>8 DEF values

\* What is asked for is in columns, so an empty body changes nothing.
LEMMA NothingChanges ==
  ASSUME NEW d \in Databases, NEW t \in TableStore, t = req.path.type, NEW g, NEW values, GivesAsked(values, g), AskedColumns = {}
  PROVE  Replaced(d, t, NamedRows(d, g), ChangedRows(d, g, values)) = d
  <1> DEFINE named == NamedRows(d, g)
  <1>1. d = [u \in TableStore |-> d[u]]
    BY DatabasesAssumption
  <1>2. \A row \in d[t] : row = [col \in BaseColumns(t) |-> row[col]]
    BY DatabasesAssumption
  <1>3. DOMAIN values = {}
    BY DEF GivesAsked
  <1>4. ASSUME NEW row \in d[t] PROVE Changed(row, values) = row
    <2>1. Changed(row, values) = [col \in DOMAIN row |-> row[col]]
      BY <1>3 DEF Changed
    <2> QED
      BY <1>2, <2>1
  <1>5. ChangedRows(d, g, values) = named
    BY <1>4 DEF ChangedRows, NamedRows
  <1>6. (d[t] \ named) \cup named = d[t]
    BY DEF NamedRows
  <1> HIDE DEF named
  <1>7. Replaced(d, t, named, named) = d
    BY <1>1, <1>6 DEF Replaced
  <1> QED
    BY <1>5, <1>7 DEF named

\* Each statement that writes has the effect its request promises.
LEMMA WriteHasEffect ==
  ASSUME IInv, WritesInPlace, ParamsInv, ColumnInv, MadeInv, Accepted, OnlyAlias,
         NEW i \in WritePositions, AsAsked(buf[i].stmt), NEW d \in Databases, NEW g
  PROVE  After(buf[i].stmt, params, g, d) = Promise!Effect(d, req, g)
  <1> DEFINE stmt == buf[i].stmt
             t == req.path.type
             named == NamedRows(d, g)
             values == Promise!Values(req, g)
  <1>1. /\ InPlace(stmt) /\ MadeAsAsked(params, stmt) /\ stmt.q \in {"insert", "update", "delete"}
        /\ IsSeq(params) /\ StmtBinds(params, stmt)
    <2>1. i \in StmtPositions /\ stmt.q \in {"insert", "update", "delete"}
      BY DEF WritePositions
    <2>2. ParamsAligned /\ IsSeq(params)
      BY ParamsSuffice DEF ParamsInv
    <2> QED
      BY <2>1, <2>2 DEF WritesInPlace, MadeInv, ParamsAligned
  <1>2. SetColumns(stmt) = AskedColumns
    BY DEF AsAsked
  <1>3. IsRequest(req) /\ NamesFields(req) /\ (req.op = "create" => req.path.kind = "Type")
    BY DEF IInv, ColumnInv, MadeInv
  <1> HIDE DEF stmt
  <1>4. req.op # "read" /\ stmt.from = WrittenTable
    BY <1>1 DEF InPlace
  <1>5. PathTable.type = t /\ IsBase(PathTable)
    BY <1>3, RequestTyped DEF PathTable, BaseTable
  <1>6. ASSUME stmt.from = PathTable, t \in TableStore, stmt.q # "insert"
        PROVE  Touched(stmt, params, g, d) = named
    <2>1. FiltersOnKey(stmt) /\ Alone(stmt)
      BY <1>1, <1>6 DEF InPlace, MadeAsAsked
    <2>2. stmt.from.type = t /\ IsBase(stmt.from)
      BY <1>5, <1>6
    <2> QED
      BY <1>1, <1>6, <2>1, <2>2, TouchesNamed DEF NamedRows
  <1>7. ASSUME GivesAsked(values, g) PROVE SetValues(stmt, params, g) = values
    <2>1. \A k \in DOMAIN stmt.sets : Meant(params, stmt.sets[k])
      BY <1>1 DEF MadeAsAsked
    <2> HIDE DEF values
    <2> QED
      BY <1>2, <1>7, <2>1, SetsGive
  <1>8. CASE DeletesRow
    <2>1. req.op = "delete" /\ req.path.rels = <<>>
      BY <1>8 DEF DeletesRow
    <2>2. stmt.q = "delete"
      BY <1>1, <2>1 DEF InPlace
    <2>3. stmt.from = PathTable /\ t \in TableStore
      BY <1>4, <1>5, <2>1 DEF WrittenTable, Accepted
    <2>4. Promise!Effect(d, req, g) = Deleted(d, t, named)
      BY <2>1, EffectIs
    <2>5. After(stmt, params, g, d) = Deleted(d, t, Touched(stmt, params, g, d))
      BY <1>5, <2>2, <2>3 DEF After
    <2>6. Touched(stmt, params, g, d) = named
      BY <1>6, <2>2, <2>3
    <2> QED
      BY <2>4, <2>5, <2>6 DEF stmt
  <1>9. CASE ~DeletesRow
    <2>1. /\ GivesAsked(values, g)
          /\ req.op = "create" \/ WritesMain => req.path.rels = <<>>
          /\ WrittenTable = PathTable
      BY <1>3, <1>4, <1>9, RequestAskedFor
    <2>2. SetValues(stmt, params, g) = values
      BY <1>7, <2>1
    <2>3. stmt.from = PathTable /\ stmt.from.type = t /\ t \in TableStore
      BY <1>4, <1>5, <2>1 DEF Accepted
    <2> HIDE DEF values
    <2>4. CASE req.op = "create"
      <3>1. stmt.q = "insert"
        BY <1>1, <2>4 DEF InPlace
      <3>2. Promise!Effect(d, req, g) = Replaced(d, t, {}, {NewRow(t, values, g.fresh)})
        BY <2>4, EffectIs DEF values
      <3>3. Written(stmt, params, g, d) = {NewRow(t, values, g.fresh)}
        BY <2>2, <2>3, <3>1 DEF Written
      <3>4. After(stmt, params, g, d) = Replaced(d, t, {}, Written(stmt, params, g, d))
        BY <2>3, <3>1 DEF After
      <3> QED
        BY <3>2, <3>3, <3>4 DEF stmt
    <2>5. CASE req.op # "create"
      <3>1. stmt.q = "update"
        BY <1>1, <1>9, <2>5 DEF InPlace, DeletesRow
      <3>2. req.op \notin {"read", "create", "delete"} \/ (req.op = "delete" /\ req.path.rels # <<>>)
        BY <1>4, <1>9, <2>5 DEF DeletesRow
      <3>3. Promise!Effect(d, req, g) = Replaced(d, t, NamedRows(d, g), ChangedRows(d, g, values))
        BY <3>2, EffectIs DEF values
      <3>4. Touched(stmt, params, g, d) = named
        BY <1>6, <2>3, <3>1
      <3>5. Written(stmt, params, g, d) = ChangedRows(d, g, values)
        BY <2>2, <3>1, <3>4 DEF Written, ChangedRows
      <3>6. After(stmt, params, g, d) = Replaced(d, t, named, Written(stmt, params, g, d))
        BY <2>3, <3>1, <3>4 DEF After
      <3> QED
        BY <3>3, <3>5, <3>6 DEF stmt
    <2> QED
      BY <2>4, <2>5
  <1> QED
    BY <1>8, <1>9

\* What a statement leaves of any database is what its request promises, if
\* Postgres can parse it.
LEMMA LeavesEffect ==
  ASSUME ExecInv, MadeInv, pc = "built", OnlyAlias, Parses, NEW d \in Databases, NEW g
  PROVE  Leaves(buf, params, g, d) = Promise!Effect(d, req, g)
  <1> DEFINE writes == {i \in DOMAIN buf : /\ buf[i].t \in {"cte", "write"}
                                         /\ buf[i].stmt.q \in {"insert", "update", "delete"}}
  <1>1. writes = WritePositions
    BY DEF WritePositions, StmtPositions, Positions
  <1>2. Accepted /\ (~SaysWhat => \E i \in WritePositions : buf[i].stmt.sets = <<>>)
    BY DEF MadeInv
  <1>3. SaysWhat
    <2> SUFFICES ASSUME ~SaysWhat PROVE FALSE
      OBVIOUS
    <2>1. PICK i \in WritePositions : buf[i].stmt.sets = <<>>
      BY <1>2
    <2>2. req.op = "update" /\ InPlace(buf[i].stmt) /\ i \in StmtPositions
          /\ buf[i].stmt.q \in {"insert", "update", "delete"}
      BY <2>1 DEF SaysWhat, WritesRel, ExecInv, WritesInPlace, WritePositions
    <2>3. buf[i].stmt.q = "update"
      BY <2>2 DEF InPlace
    <2> QED
      BY <2>1, <2>2, <2>3 DEF Parses
  <1>4. ((WritePositions = {}) <=> NothingAsked) /\ \A i \in WritePositions : AsAsked(buf[i].stmt)
    BY <1>3 DEF ExecInv, AskedInv
  <1>5. CASE WritePositions = {}
    <2>1. Leaves(buf, params, g, d) = d
      BY <1>1, <1>5 DEF Leaves
    <2>2. CASE req.op = "read"
      BY <2>1, <2>2, EffectIs
    <2>3. CASE req.op # "read"
      <3> DEFINE t == req.path.type
                 values == Promise!Values(req, g)
                 named == NamedRows(d, g)
      <3>1. WritesMain /\ AskedColumns = {}
        BY <1>4, <1>5, <2>3 DEF NothingAsked
      <3>2. req.op = "update" /\ ~DeletesRow
        BY <3>1 DEF WritesMain, DeletesRow
      <3>3. GivesAsked(values, g) /\ WrittenTable = PathTable
        BY <1>2, <3>2, RequestAskedFor DEF ExecInv, IInv, ColumnInv
      <3>4. t \in TableStore
        BY <1>2, <2>3, <3>3 DEF Accepted, PathTable, BaseTable
      <3>5. Promise!Effect(d, req, g) = Replaced(d, t, NamedRows(d, g), ChangedRows(d, g, values))
        BY <3>2, EffectIs
      <3> HIDE DEF values
      <3>6. Replaced(d, t, NamedRows(d, g), ChangedRows(d, g, values)) = d
        BY <3>1, <3>3, <3>4, NothingChanges
      <3> QED
        BY <2>1, <3>5, <3>6
    <2> QED
      BY <2>2, <2>3
  <1>6. CASE WritePositions # {}
    <2> DEFINE i == CHOOSE j \in writes : TRUE
    <2>1. i \in WritePositions
      BY <1>1, <1>6
    <2>2. Leaves(buf, params, g, d) = After(buf[i].stmt, params, g, d)
      BY <1>1, <1>6 DEF Leaves
    <2> HIDE DEF i
    <2>3. AsAsked(buf[i].stmt)
      BY <1>4, <2>1
    <2>4. After(buf[i].stmt, params, g, d) = Promise!Effect(d, req, g)
      BY <1>2, <2>1, <2>3, WriteHasEffect DEF ExecInv
    <2> QED
      BY <2>2, <2>4
  <1> QED
    BY <1>5, <1>6

----------------------------------------------------------------------------
(* The refinement *)

\* What a statement may be sent to.
SentInv == phase = "sent" => db \in Databases

EffectInv == ExecInv /\ MadeInv /\ SentInv

\* A statement in the making writes, if it writes at all, the values the
\* request gives, each in its own column, with a filter on its own table alone,
\* and is sent to a database the constraints hold in (gen_insert, gen_update,
\* compare_pkey, insert_params).
THEOREM EffectInvariant == ExecSpec => []EffectInv
  <1>1. ExecInit => MadeInv /\ SentInv
    BY InitMade DEF ExecInit, SentInv
  <1>2. ExecInv /\ MadeInv /\ SentInv /\ [ExecNext]_<<vars, execVars>> => MadeInv' /\ SentInv'
    <2> SUFFICES ASSUME ExecInv, MadeInv, SentInv, [ExecNext]_<<vars, execVars>> PROVE MadeInv' /\ SentInv'
      OBVIOUS
    <2>1. MadeInv'
      BY StepOfBuilder, NextMade DEF ExecInv
    <2>2. SentInv'
      BY DEF SentInv, ExecNext, Generate, Send, Run, Read, ReadFails, Done, execVars
    <2> QED
      BY <2>1, <2>2
  <1> QED
    BY <1>1, <1>2, ExecutionInvariant, PTL DEF ExecSpec, EffectInv

\* What a step of an execution is to whoever sees the database only.
LEMMA StepHasEffect ==
  ASSUME EffectInv, OnlyAlias, [ExecNext]_<<vars, execVars>>
  PROVE  [Promise!EffectNext]_<<req, given, db, Status>>
  <1>1. req' = req
    <2>1. [Next]_vars
      BY StepOfBuilder
    <2> QED
      BY <2>1, RequestKept DEF EffectInv, ExecInv
  <1>2. CASE Generate
    <2>1. UNCHANGED <<given, db, phase>> /\ phase = "generating" /\ pc # "failed"
      BY <1>2 DEF Generate, execVars, EffectInv, ExecInv, SentWhenBuilt
    <2>2. Status = "pending" /\ Status' \in {"pending", "refused"}
      BY <2>1 DEF Status
    <2> QED
      BY <1>1, <2>1, <2>2 DEF Promise!EffectNext, Promise!OthersWrite, Promise!Refused
  <1>3. CASE Send
    <2>1. pc = "built" /\ pc' = pc /\ phase = "generating" /\ phase' = "sent"
      BY <1>3 DEF Send, vars
    <2>2. Status = "pending" /\ Status' = "pending"
      BY <2>1 DEF Status
    <2> QED
      BY <1>1, <2>2 DEF Promise!EffectNext, Promise!OthersWrite
  <1>4. CASE Run
    <2>1. phase = "sent" /\ pc = "built" /\ pc' = pc /\ given' = given
      BY <1>4 DEF Run, EffectInv, ExecInv, SentWhenBuilt, vars
    <2>2. Status = "pending"
      BY <2>1 DEF Status
    <2>3. CASE Runs
      <3>1. phase' = "ran" /\ db' = Leaves(buf, params, given, db)
        BY <1>4, <2>3 DEF Run
      <3>2. Parses /\ Constrained(Leaves(buf, params, given, db))
        BY <2>3 DEF Runs
      <3>3. db \in Databases
        BY <2>1 DEF EffectInv, SentInv
      <3>4. Leaves(buf, params, given, db) = Promise!Effect(db, req, given)
        BY <2>1, <3>2, <3>3, LeavesEffect DEF EffectInv
      <3>5. Promise!Constrained(db')
        BY <3>1, <3>2, SameWords
      <3>6. Status' = "answered"
        BY <2>1, <3>1 DEF Status
      <3> QED
        BY <1>1, <2>1, <2>2, <3>1, <3>4, <3>5, <3>6 DEF Promise!EffectNext, Promise!TakeEffect
    <2>4. CASE ~Runs
      <3>1. phase' = "rejected" /\ db' = db
        BY <1>4, <2>4 DEF Run
      <3>2. Status' = "refused"
        BY <3>1 DEF Status
      <3> QED
        BY <1>1, <2>1, <2>2, <3>1, <3>2 DEF Promise!EffectNext, Promise!Refused
    <2> QED
      BY <2>3, <2>4
  <1>5. CASE Read \/ ReadFails
    <2>1. phase = "ran" /\ phase' \in {"read", "unread"} /\ UNCHANGED <<pc, given, db>> /\ pc = "built"
      BY <1>5 DEF Read, ReadFails, vars, EffectInv, ExecInv, SentWhenBuilt
    <2>2. Status = "answered" /\ Status' = "answered"
      BY <2>1 DEF Status
    <2> QED
      BY <1>1, <2>1, <2>2
  <1>6. CASE Done \/ UNCHANGED <<vars, execVars>>
    <2>1. UNCHANGED <<req, pc, given, db, phase>>
      BY <1>6 DEF Done, vars, execVars
    <2>2. Status' = Status
      BY <2>1 DEF Status
    <2> QED
      BY <2>1, <2>2
  <1> QED
    BY <1>2, <1>3, <1>4, <1>5, <1>6 DEF ExecNext

\* Whatever the statement goes through, and whatever other clients do to the
\* database until it runs, a request leaves the rows it is about as it wants
\* them and every other row as it found it, with the constraints kept, or
\* nothing happens; for a deletion by alias, when the type it leads to has one
\* (gen_insert, gen_update, gen_delete, compare_pkey, insert_params).
THEOREM EffectIsImplemented == ExecSpec /\ OnlyAlias => ImplementsEffects
  <1>1. ExecInit => Status = "pending"
    BY DEF ExecInit, Init, Status
  <1>2. EffectInv /\ OnlyAlias /\ [ExecNext]_<<vars, execVars>> => [Promise!EffectNext]_<<req, given, db, Status>>
    BY StepHasEffect
  <1>3. EffectInv /\ OnlyAlias /\ [ExecNext]_<<vars, execVars>> => OnlyAlias'
    <2> SUFFICES ASSUME EffectInv, OnlyAlias, [ExecNext]_<<vars, execVars>> PROVE OnlyAlias'
      OBVIOUS
    <2>1. req' = req
      BY StepOfBuilder, RequestKept DEF EffectInv, ExecInv
    <2> QED
      BY <2>1, RequestStays
  <1> QED
    BY <1>1, <1>2, <1>3, EffectInvariant, PTL DEF ExecSpec, ImplementsEffects, Promise!EffectSpec

----------------------------------------------------------------------------
(* The members of the JSON objects *)

\* No member that a response asks for is an object: a nested object is written
\* without the key of its member (gen_json_builder).
PlainMembers == \A t \in TypesSeen : ToSet(JsonFields(req.sparse, t, TRUE)) \cap ObjNames(t) = {}

\* Every member of the JSON objects a CTE selects has its key.
HasKeys(stmt) == stmt.q = "select" => \A o \in DOMAIN stmt.outs : stmt.outs[o].bare = 0
MembersHeld == \A i \in CtePositions : HasKeys(buf[i].stmt)
MembersInv == Fit /\ PlainMembers => MembersHeld

LEMMA KeptWhole ==
  ASSUME NEW S, NEW s \in Seq(S)
  PROVE  Len(Kept(s, DOMAIN s)) = Len(s)
  <1> DEFINE n == Len(s)
             f == [i \in DOMAIN s |-> IF i \in DOMAIN s THEN <<s[i]>> ELSE <<>>]
  <1>1. n \in Nat /\ DOMAIN s = 1..n /\ \A i \in 1..n : s[i] \in S
    BY LenProperties, ElementOfSeq
  <1> HIDE DEF n
  <1>2. /\ f = [i \in 1..n |-> f[i]]
        /\ \A i \in 1..n : f[i] \in Seq(S) /\ Len(f[i]) = 1
    BY <1>1
  <1>3. Kept(s, DOMAIN s) = FlattenSeq(f)
    BY DEF Kept
  <1> HIDE DEF f
  <1>4. f \in Seq(Seq(S)) /\ Len(f) = n
    <2>1. f \in [1..n -> Seq(S)]
      BY <1>2
    <2> QED
      BY <1>1, <2>1, FunctionIsSeq
  <1>5. CASE n = 0
    <2>1. FlattenSeq(f) = <<>>
      BY <1>4, <1>5, FlattenSome
    <2> QED
      BY <1>3, <1>5, <2>1 DEF n
  <1>6. CASE n > 0
    <2>1. PICK g : FlattenedBy(g, f) /\ FlattenSeq(f) = g[n]
      BY <1>4, <1>6, FlattenSome
    <2>2. FlattenedUpTo(S, n, g, f)
      BY <1>1, <1>4, <2>1, FlattenSteps
    <2> DEFINE T == {i \in 1..n : Len(g[i]) = i}
    <2>3. 1 \in T
      BY <1>1, <1>2, <1>6, <2>2 DEF FlattenedUpTo
    <2>4. ASSUME NEW i \in 1..(n - 1), i \in T PROVE i + 1 \in T
      <3>1. i \in 1..n /\ i + 1 \in 1..n /\ Len(g[i]) = i
        BY <1>1, <2>4
      <3>2. g[i + 1] = g[i] \o f[i + 1] /\ g[i] \in Seq(S) /\ f[i + 1] \in Seq(S) /\ Len(f[i + 1]) = 1
        BY <1>2, <2>2, <3>1 DEF FlattenedUpTo
      <3>3. Len(g[i + 1]) = i + 1
        <4>1. Len(g[i] \o f[i + 1]) = Len(g[i]) + Len(f[i + 1])
          <5>1. \A a, b \in Seq(S) : Len(a \o b) = Len(a) + Len(b)
            BY ConcatParts
          <5> QED
            BY <3>2, <5>1
        <4>2. Len(g[i + 1]) = Len(g[i]) + 1
          BY <3>2, <4>1
        <4> QED
          BY <3>1, <4>2
      <3> QED
        BY <3>1, <3>3
    <2>5. 1..n \subseteq T
      <3> HIDE DEF T
      <3> QED
        BY <1>1, <2>3, <2>4, Climb
    <2>6. n \in 1..n
      BY <1>1, <1>6
    <2> QED
      BY <1>3, <2>1, <2>5, <2>6 DEF n
  <1> QED
    BY <1>1, <1>5, <1>6

\* Fields none of which is an object.
NoObjects(fields, t) == fields \in Seq(Ident) /\ ToSet(fields) \cap ObjNames(t) = {}
LEMMA NothingBare ==
  ASSUME NEW t, NEW fields, NoObjects(fields, t), NEW tbl, NEW n
  PROVE  JsonOut(tbl, t, fields, n).bare = 0
  <1>1. fields \in Seq(Ident) /\ \A i \in DOMAIN fields : fields[i] \notin ObjNames(t)
    BY DEF NoObjects, ToSet
  <1>2. {i \in DOMAIN fields : fields[i] \notin ObjNames(t)} = DOMAIN fields
    BY <1>1
  <1>3. PlainFields(fields, t) = Kept(fields, DOMAIN fields)
    BY <1>2 DEF PlainFields
  <1>4. Len(PlainFields(fields, t)) = Len(fields) /\ Len(fields) \in Nat
    BY <1>1, <1>3, KeptWhole, LenProperties
  <1>5. JsonOut(tbl, t, fields, n).bare = Len(fields) - Len(PlainFields(fields, t))
    BY DEF JsonOut
  <1> QED
    BY <1>4, <1>5

\* The fields a request asks for, of a type it is about.
LEMMA FieldsPlain ==
  ASSUME IsRequest(req), PlainMembers, NEW t \in Type, t \in TypesSeen, NEW include \in BOOLEAN
  PROVE  NoObjects(JsonFields(req.sparse, t, include), t)
  <1>1. JsonFields(req.sparse, t, include) \in Seq(Ident)
    BY FieldsTyped
  <1>2. CASE include = TRUE
    BY <1>1, <1>2 DEF PlainMembers, NoObjects
  <1>3. CASE include = FALSE
    <2>1. JsonFields(req.sparse, t, include) = <<>>
      BY <1>3 DEF JsonFields
    <2> QED
      BY <1>1, <2>1 DEF NoObjects, ToSet
  <1> QED
    BY <1>2, <1>3

\* The list of a data CTE.
LEMMA DataHasKeys ==
  ASSUME NEW tbl, NEW fields, NoObjects(fields, tbl.type), NEW relating, NEW additional, IsSeq(additional),
         NEW n, NEW joins, NEW where
  PROVE  HasKeys(DataStmt(tbl, additional, relating, fields, n, joins, where))
  <1> DEFINE t == tbl.type
             x == Out(Id, PrettyRefs(tbl), <<>>)
             y == Out(MainId, KeyRefs(tbl), <<>>)
             json == JsonOut(tbl, t, fields, n + Len(HeadParams(t, relating)))
             adds == MapSeq(LAMBDA f : Out(f.name, <<Ref(tbl, f.col)>>, <<>>), additional)
             outs == SelectOuts(tbl, t, relating, additional, fields, n)
  <1>1. outs = <<x, y>> \o HeadOuts(relating, n) \o <<json>> \o adds
    BY Zenon DEF SelectOuts
  <1>2. \E a, b, c : HeadOuts(relating, n) = <<a, b, c>> /\ a.bare = 0 /\ b.bare = 0 /\ c.bare = 0
    <2> DEFINE none == <<Out(RelatedId, <<>>, <<>>), Out(RelatedTypeCol, <<>>, <<>>), Out(<<"type">>, <<>>, <<n + 1>>)>>
               head == <<Out(RelatedId, <<Ref(relating[1].tbl, KeyIdent(relating[1].tbl.type))>>, <<>>),
                         Out(RelatedTypeCol, <<>>, <<n + 1>>), Out(<<"type">>, <<>>, <<n + 2>>)>>
    <2>1. HeadOuts(relating, n) = none \/ HeadOuts(relating, n) = head
      BY Zenon DEF HeadOuts
    <2>2. \A name, refs, ps : Out(name, refs, ps).bare = 0
      BY DEF Out
    <2> QED
      BY <2>1, <2>2, Zenon
  <1>3. PICK a, b, c : HeadOuts(relating, n) = <<a, b, c>> /\ a.bare = 0 /\ b.bare = 0 /\ c.bare = 0
    BY <1>2
  <1>4. x.bare = 0 /\ y.bare = 0
    BY DEF Out
  <1>5. json.bare = 0
    BY NothingBare
  <1>6. adds = [i \in DOMAIN additional |-> Out(additional[i].name, <<Ref(tbl, additional[i].col)>>, <<>>)]
    BY Zenon DEF MapSeq
  <1>7. FunctionOn(adds, DOMAIN additional) /\ \A i \in DOMAIN additional : adds[i].bare = 0
    <2> HIDE DEF adds
    <2> QED
      BY <1>6 DEF FunctionOn, Out
  <1> HIDE DEF x, y, json, adds
  <1>8. IsSeq(adds) /\ DOMAIN adds = DOMAIN additional
    BY <1>7, MapIsSeq
  <1>9. outs = <<x, y>> \o <<a, b, c>> \o <<json>> \o adds
    BY <1>1, <1>3, Zenon
  <1> HIDE DEF outs
  <1>10. /\ DOMAIN outs = 1..(6 + Len(adds)) /\ Len(adds) \in Nat /\ DOMAIN adds = 1..Len(adds)
         /\ outs[1] = x /\ outs[2] = y /\ outs[3] = a /\ outs[4] = b /\ outs[5] = c /\ outs[6] = json
         /\ \A i \in DOMAIN adds : outs[6 + i] = adds[i]
    BY <1>8, <1>9, SixOuts
  <1>11. ASSUME NEW o \in DOMAIN outs PROVE outs[o].bare = 0
    <2>1. CASE o \in 1..6
      <3>1. o = 1 \/ o = 2 \/ o = 3 \/ o = 4 \/ o = 5 \/ o = 6
        BY <2>1
      <3> QED
        BY <1>3, <1>4, <1>5, <1>10, <3>1
    <2>2. CASE o \notin 1..6
      <3>1. o - 6 \in DOMAIN adds /\ o = 6 + (o - 6)
        BY <1>10, <2>2
      <3>2. outs[o] = adds[o - 6]
        BY <1>10, <3>1
      <3> QED
        BY <1>7, <1>8, <3>1, <3>2
    <2> QED
      BY <2>1, <2>2
  <1>12. DataStmt(tbl, additional, relating, fields, n, joins, where).outs = outs
    BY DEF DataStmt, Stmt, outs
  <1> QED
    BY <1>11, <1>12 DEF HasKeys

\* One CTE is added, or two, and nothing else is changed.
LEMMA MembersAdded ==
  ASSUME IsSeq(buf), MembersHeld, NEW toks, IsSeq(toks), buf' = buf \o toks,
         \A j \in DOMAIN toks : toks[j].t = "cte" => HasKeys(toks[j].stmt)
  PROVE  MembersHeld'
  <1>1. ASSUME NEW i \in Positions(buf', {"cte"}) PROVE HasKeys(buf'[i].stmt)
    <2>1. ComesFrom(buf', i, buf, toks, {"cte"})
      BY PositionsOfJoined
    <2>2. CASE i \in Positions(buf, {"cte"}) /\ buf'[i] = buf[i]
      BY <2>2 DEF MembersHeld, CtePositions
    <2>3. CASE \E j \in Positions(toks, {"cte"}) : buf'[i] = toks[j]
      BY <2>3 DEF Positions
    <2> QED
      BY <2>1, <2>2, <2>3 DEF ComesFrom
  <1>2. CtePositions' = Positions(buf', {"cte"})
    BY DEF CtePositions, Positions
  <1>3. \A stmt : HasKeys(stmt)' <=> HasKeys(stmt)
    BY DEF HasKeys
  <1> QED
    BY <1>1, <1>2 DEF MembersHeld, HasKeys

LEMMA OneMore ==
  ASSUME IsSeq(buf), MembersHeld, NEW sep \in {With, Comma}, NEW tbl, NEW stmt, HasKeys(stmt),
         buf' = buf \o <<sep, Cte(tbl, stmt)>>
  PROVE  MembersHeld'
  <1> DEFINE toks == <<sep, Cte(tbl, stmt)>>
  <1>1. IsSeq(toks) /\ DOMAIN toks = {1, 2} /\ toks[1] = sep /\ toks[2].stmt = stmt
    BY TupleIsSeq DEF Cte
  <1>2. sep.t # "cte"
    BY DEF With, Comma
  <1> HIDE DEF toks
  <1>3. \A j \in DOMAIN toks : toks[j].t = "cte" => HasKeys(toks[j].stmt)
    BY <1>1, <1>2
  <1> QED
    BY <1>1, <1>3, MembersAdded DEF toks

LEMMA TwoMore ==
  ASSUME IsSeq(buf), MembersHeld, NEW tbl, NEW stmt, HasKeys(stmt), NEW tbl2, NEW stmt2, HasKeys(stmt2),
         buf' = buf \o <<With, Cte(tbl, stmt), Comma, Cte(tbl2, stmt2)>>
  PROVE  MembersHeld'
  <1> DEFINE toks == <<With, Cte(tbl, stmt), Comma, Cte(tbl2, stmt2)>>
  <1>1. /\ IsSeq(toks) /\ DOMAIN toks = {1, 2, 3, 4}
        /\ toks[1].t # "cte" /\ toks[2].stmt = stmt /\ toks[3].t # "cte" /\ toks[4].stmt = stmt2
    <2>1. IsSeq(toks)
      BY TupleIsSeq
    <2>2. DOMAIN toks = {1, 2, 3, 4}
      OBVIOUS
    <2>3. toks[1].t # "cte" /\ toks[3].t # "cte"
      BY DEF With, Comma
    <2>4. toks[2].stmt = stmt /\ toks[4].stmt = stmt2
      BY DEF Cte
    <2> QED
      BY <2>1, <2>2, <2>3, <2>4
  <1> HIDE DEF toks
  <1>2. \A j \in DOMAIN toks : toks[j].t = "cte" => HasKeys(toks[j].stmt)
    BY <1>1
  <1> QED
    BY <1>1, <1>2, MembersAdded DEF toks

\* A statement that selects no list of a data CTE.
LEMMA NotSelected ==
  ASSUME NEW stmt, stmt.q # "select"
  PROVE  HasKeys(stmt)
  BY DEF HasKeys

\* The additional columns of a data CTE are a list.
LEMMA AddsAreSeq ==
  ASSUME IsRequest(req), NamesFields(req), Fit
  PROVE  /\ IsSeq(RelFields(MainType(req.path)) \o SortKeysForMain(req))
         /\ IsSeq(RelFields(PathTable.type))
         /\ \A data : IsSeq(ExtractRelData(PathRel, data).fields)
  <1>1. IsSeq(RelFields(MainType(req.path)) \o SortKeysForMain(req))
    BY AddsForMain DEF Fit, PlainSorts, CarriedWith, AddsFit, NamedApart
  <1>2. IsSeq(RelFields(PathTable.type))
    BY RequestTyped, RelFieldsTyped
  <1>3. ASSUME NEW data PROVE IsSeq(ExtractRelData(PathRel, data).fields)
    <2> DEFINE f == RelField(PathRel)
    <2>1. ExtractRelData(PathRel, data).fields = IF data \in {"one", "null"} THEN <<f>> ELSE <<>>
      BY DEF ExtractRelData
    <2>2. IsSeq(<<f>>) /\ IsSeq(<<>>)
      BY TupleIsSeq, NoneIsSeq
    <2> HIDE DEF f
    <2> QED
      BY <2>1, <2>2
  <1> QED
    BY <1>1, <1>2, <1>3

LEMMA GenSelectMembers ==
  ASSUME IInv, NamesFields(req), Fit, PlainMembers, MembersHeld, GenSelect
  PROVE  MembersHeld'
  <1> DEFINE t == MainTable.type
             fields == JsonFields(req.sparse, t, TRUE)
             data == ToCte(t, "plain", "data", cte_index)
             pushed == SelectParams(t, <<>>, fields)
             joins == IF req.path.kind = "TypeIdRelated" THEN GenInnerJoin(PathRel, PathTable, MainTable) ELSE <<>>
             where == IF req.path.kind = "Type" THEN <<>> ELSE ComparePkey(PathTable, Len(pushed))
             adds == RelFields(t) \o SortKeysForMain(req)
             stmt == DataStmt(MainTable, adds, <<>>, fields, 0, joins, where)
  <1>1. buf' = buf \o <<With, Cte(data, stmt)>>
    BY DEF GenSelect, DataStmt
  <1>2. IsRequest(req) /\ IsSeq(buf)
    BY DEF IInv, BufferInv
  <1>3. t = MainType(req.path) /\ t \in Type /\ t \in TypesSeen
    BY <1>2, PathTables, LinksSeen
  <1>4. NoObjects(fields, t) /\ IsSeq(adds)
    BY <1>2, <1>3, FieldsPlain, AddsAreSeq
  <1> HIDE DEF fields, data, pushed, joins, where, adds
  <1>5. HasKeys(stmt)
    BY <1>4, DataHasKeys
  <1> HIDE DEF stmt
  <1> QED
    BY <1>1, <1>2, <1>5, OneMore

LEMMA GenSelectRelationshipsMembers ==
  ASSUME IInv, NamesFields(req), Fit, PlainMembers, MembersHeld, GenSelectRelationships
  PROVE  MembersHeld'
  <1> DEFINE t == MainTable.type
             u == PathTable.type
             data == ToCte(t, "plain", "data", cte_index)
             owner == ToCte(u, "rel", "data", cte_index + 1)
             relating == <<[tbl |-> PathTable, chain |-> req.path.rels]>>
             pushed == SelectParams(t, relating, <<>>)
             n == Len(pushed) + Len(PrimaryKey(u))
             m == n + Len(SelectParams(u, <<>>, <<>>))
             adds == RelFields(t) \o SortKeysForMain(req)
             joins == GenInnerJoin(PathRel, PathTable, MainTable)
             where == ComparePkey(PathTable, Len(pushed))
             where2 == ComparePkey(PathTable, m)
             a == DataStmt(MainTable, adds, relating, <<>>, 0, joins, where)
             b == DataStmt(PathTable, RelFields(u), <<>>, <<>>, n, <<>>, where2)
  <1>1. buf' = buf \o <<With, Cte(data, a), Comma, Cte(owner, b)>>
    BY DEF GenSelectRelationships, DataStmt
  <1>2. IsRequest(req) /\ IsSeq(buf)
    BY DEF IInv, BufferInv
  <1>3. t = MainType(req.path)
    BY <1>2, PathTables
  <1>4. IsSeq(adds) /\ IsSeq(RelFields(u))
    BY <1>2, <1>3, AddsAreSeq
  <1>5. NoObjects(<<>>, t) /\ NoObjects(<<>>, u)
    <2>1. <<>> \in Seq(Ident) /\ ToSet(<<>>) = {}
      BY DEF ToSet
    <2> QED
      BY <2>1 DEF NoObjects
  <1> HIDE DEF data, owner, relating, pushed, n, m, adds, joins, where, where2
  <1>6. HasKeys(a)
    BY <1>4, <1>5, DataHasKeys
  <1>7. HasKeys(b)
    BY <1>4, <1>5, DataHasKeys
  <1> HIDE DEF a, b
  <1> QED
    BY <1>1, <1>2, <1>6, <1>7, TwoMore

\* The data CTE of what is written has the members of its type.
LEMMA WriteThenSelectMembers ==
  ASSUME IInv, PlainMembers, MembersHeld, NEW t \in Type, t \in TypesSeen, NEW suffix, NEW stmt, stmt.q # "select",
         NEW written, NEW additional, IsSeq(additional), NEW map,
         WriteThenSelect(t, suffix, stmt, written, additional, map)
  PROVE  MembersHeld'
  <1> DEFINE row == ToCte(t, "plain", suffix, cte_index)
             data == ToCte(t, "plain", "data", cte_index + 1)
             fields == JsonFields(req.sparse, t, TRUE)
             read == DataStmt(row, additional, <<>>, fields, Len(written), <<>>, <<>>)
  <1>1. row.type = t
    BY DEF ToCte
  <1>2. buf' = buf \o <<With, Cte(row, stmt), Comma, Cte(data, read)>>
    BY <1>1 DEF WriteThenSelect, DataStmt
  <1>3. IsRequest(req) /\ IsSeq(buf)
    BY DEF IInv, BufferInv
  <1>4. NoObjects(fields, row.type)
    BY <1>1, <1>3, FieldsPlain
  <1> HIDE DEF row, data, fields
  <1>5. HasKeys(read)
    BY <1>4, DataHasKeys
  <1>6. HasKeys(stmt)
    BY NotSelected
  <1> HIDE DEF read
  <1> QED
    BY <1>2, <1>3, <1>5, <1>6, TwoMore

LEMMA WritesMembers ==
  ASSUME IInv, NamesFields(req), Fit, PlainMembers, MembersHeld, GenInsert \/ GenUpdateMain \/ GenUpdateRel
  PROVE  MembersHeld'
  <1>1. /\ IsRequest(req) /\ MainTable.type = MainType(req.path)
        /\ MainTable.type \in Type /\ MainTable.type \in TypesSeen
        /\ PathTable.type \in Type /\ PathTable.type \in TypesSeen
    BY PathTables, LinksSeen DEF IInv
  <1>2. \A t, body : ExtractData(body, t).fields = RelFields(t)
    BY DEF ExtractData
  <1>3. CASE GenInsert
    <2> DEFINE t == MainTable.type
               data == ExtractData(req.body, t)
               stmt == Stmt("insert", MainTable, <<>>, <<>>, SetList(data.values, 0), <<>>)
               written == ValueParams(data.values)
               adds == data.fields \o SortKeysForMain(req)
    <2>1. WriteThenSelect(t, "insert", stmt, written, adds, BuildInclusionMap(req))
      BY <1>3 DEF GenInsert
    <2>2. stmt.q # "select"
      BY DEF Stmt
    <2>3. IsSeq(adds)
      BY <1>1, <1>2, AddsAreSeq
    <2> HIDE DEF data, stmt, written, adds
    <2> QED
      BY <1>1, <2>1, <2>2, <2>3, WriteThenSelectMembers
  <1>4. CASE GenUpdateMain
    <2> DEFINE t == MainTable.type
               data == ExtractData(req.body, t)
               star == Stmt("star", MainTable, <<>>, <<>>, <<>>, ComparePkey(MainTable, 0))
               stmt == IF data.values = <<>> THEN star ELSE UpdateStmt(MainTable, data.values)
               written == ValueParams(data.values) \o PkeyParams(t)
               adds == data.fields \o SortKeysForMain(req)
    <2>1. WriteThenSelect(t, "update", stmt, written, adds, BuildInclusionMap(req))
      BY <1>4 DEF GenUpdateMain
    <2>2. stmt.q # "select"
      BY DEF Stmt, UpdateStmt
    <2>3. IsSeq(adds)
      BY <1>1, <1>2, AddsAreSeq
    <2> HIDE DEF data, stmt, written, adds
    <2> QED
      BY <1>1, <2>1, <2>2, <2>3, WriteThenSelectMembers
  <1>5. CASE GenUpdateRel
    <2> DEFINE t == PathTable.type
               data == ExtractRelData(PathRel, req.body.data)
               stmt == UpdateStmt(PathTable, data.values)
               written == ValueParams(data.values) \o PkeyParams(t)
               map == [c \in {req.path.rels} |-> [resp |-> "Id", sorts |-> Reverse(SortsOf(req, <<>>))]]
    <2>1. WriteThenSelect(t, "update", stmt, written, data.fields, map)
      BY <1>5 DEF GenUpdateRel
    <2>2. stmt.q # "select"
      BY DEF Stmt, UpdateStmt
    <2>3. IsSeq(data.fields)
      BY <1>1, AddsAreSeq
    <2> HIDE DEF data, stmt, written, map
    <2> QED
      BY <1>1, <2>1, <2>2, <2>3, WriteThenSelectMembers
  <1> QED
    BY <1>3, <1>4, <1>5

LEMMA SelectRelMembers ==
  ASSUME IInv, NamesFields(req), Fit, PlainMembers, ColumnsHeld, MembersHeld, SelectRel
  PROVE  MembersHeld'
  <1> DEFINE r == at.chain[at.i + 1]
             t == RelatedType(r)
             cte == ToCte(t, "rel", "data", cte_index)
             base == BaseTable(t)
             relating == <<[tbl |-> at.tbl, chain |-> CurrentRelChain]>>
             fields == JsonFields(req.sparse, t, Returned(r, at.resp))
             additional == LinkAdds(t)
             joins == GenInnerJoin(r, at.tbl, base)
             stmt == DataStmt(base, additional, relating, fields, Len(params), joins, <<>>)
  <1>1. pc = "rels" /\ ~EntryDone
    BY DEF SelectRel
  <1>2. base.type = t
    BY DEF BaseTable
  <1>3. buf' = buf \o <<Comma, Cte(cte, stmt)>>
    BY <1>2 DEF SelectRel, DataStmt, LinkAdds
  <1>4. IsRequest(req) /\ IsSeq(buf)
    BY DEF IInv, BufferInv
  <1>5. t \in Type /\ t \in TypesSeen
    <2>1. at.chain \in TargetChains /\ at.i + 1 \in 1..Len(at.chain) /\ t \in Type
      BY <1>1, LinkIs DEF SortedFor
    <2> QED
      BY <1>4, <2>1, LinksSeen
  <1>6. NoObjects(fields, base.type)
    <2>1. Returned(r, at.resp) \in BOOLEAN
      BY DEF Returned
    <2> QED
      BY <1>2, <1>4, <1>5, <2>1, FieldsPlain
  <1>7. IsSeq(additional)
    BY <1>1, LinkAddsFit DEF CarriedWith, AddsFit, NamedApart
  <1> HIDE DEF cte, base, relating, fields, additional, joins
  <1>8. HasKeys(stmt)
    BY <1>6, <1>7, DataHasKeys
  <1> HIDE DEF stmt
  <1> QED
    BY <1>3, <1>4, <1>8, OneMore

\* Nothing is selected by a list after that: the final CTE repeats what it
\* selects from.
LEMMA EndMembers ==
  ASSUME IInv, MembersHeld, FinishMain \/ FinishMainSorted \/ FinishTable \/ Build \/ GenDeleteNormal \/ GenDeleteRel
  PROVE  MembersHeld'
  <1>1. IsSeq(buf)
    BY DEF IInv, BufferInv
  <1>2. ASSUME NEW toks, IsSeq(toks), buf' = buf \o toks, \A j \in DOMAIN toks : toks[j].t # "cte"
        PROVE  MembersHeld'
    BY <1>1, <1>2, MembersAdded
  <1>3. \A tbl, order : Select(tbl, order).t # "cte"
    BY DEF Select
  <1>4. CASE FinishMain
    <2> DEFINE toks == <<Select(Selected, <<>>)>>
    <2>1. buf' = buf \o toks
      BY <1>4 DEF FinishMain
    <2>2. IsSeq(toks) /\ DOMAIN toks = {1} /\ toks[1].t # "cte"
      BY <1>3, TupleIsSeq
    <2> HIDE DEF toks
    <2> QED
      BY <1>2, <2>1, <2>2
  <1>5. CASE FinishMainSorted
    <2> DEFINE final == FinalTable(Selected.type)
               stmt == FinalStmt(Selected, Remaining)
               toks == <<Comma, Cte(final, stmt), Select(final, OrderBy)>>
    <2>1. buf' = buf \o toks
      BY <1>5 DEF FinishMainSorted
    <2>2. stmt.q # "select"
      BY DEF FinalStmt, Stmt
    <2> HIDE DEF final, stmt
    <2>3. /\ IsSeq(toks) /\ DOMAIN toks = {1, 2, 3}
          /\ toks[1].t # "cte" /\ toks[2].stmt = stmt /\ toks[3].t # "cte"
      BY <1>3, TupleIsSeq DEF Comma, Cte
    <2> HIDE DEF toks
    <2>4. \A j \in DOMAIN toks : toks[j].t = "cte" => HasKeys(toks[j].stmt)
      BY <2>2, <2>3, NotSelected
    <2> QED
      BY <1>1, <2>1, <2>3, <2>4, MembersAdded
  <1>6. CASE FinishTable
    <2>1. PICK c : buf' = IF taken[c].resp = "None" THEN buf ELSE buf \o <<Union, Select(taken[c].tbl, <<>>)>>
      BY <1>6 DEF FinishTable
    <2>2. CASE buf' = buf
      BY <2>2 DEF MembersHeld, CtePositions, Positions, HasKeys
    <2>3. CASE buf' = buf \o <<Union, Select(taken[c].tbl, <<>>)>>
      <3> DEFINE toks == <<Union, Select(taken[c].tbl, <<>>)>>
      <3>1. IsSeq(toks) /\ DOMAIN toks = {1, 2} /\ toks[1].t # "cte" /\ toks[2].t # "cte"
        BY <1>3, TupleIsSeq DEF Union
      <3>2. buf' = buf \o toks
        BY <2>3
      <3> HIDE DEF toks
      <3> QED
        BY <1>2, <3>1, <3>2
    <2> QED
      BY <2>1, <2>2, <2>3
  <1>7. CASE Build
    <2> DEFINE toks == <<Semicolon>>
    <2>1. buf' = buf \o toks
      BY <1>7 DEF Build
    <2>2. IsSeq(toks) /\ DOMAIN toks = {1} /\ toks[1].t # "cte"
      BY TupleIsSeq DEF Semicolon
    <2> HIDE DEF toks
    <2> QED
      BY <1>2, <2>1, <2>2
  <1>8. CASE GenDeleteNormal \/ GenDeleteRel
    <2>1. PICK stmt : buf' = buf \o <<Write(stmt)>>
      BY <1>8 DEF GenDeleteNormal, GenDeleteRel, WriteOnly
    <2> DEFINE toks == <<Write(stmt)>>
    <2>2. IsSeq(toks) /\ DOMAIN toks = {1} /\ toks[1].t # "cte"
      BY TupleIsSeq DEF Write
    <2>3. buf' = buf \o toks
      BY <2>1
    <2> HIDE DEF toks
    <2> QED
      BY <1>2, <2>2, <2>3
  <1> QED
    BY <1>4, <1>5, <1>6, <1>7, <1>8

LEMMA InitMembers == Init => MembersInv
  BY DEF Init, MembersInv, MembersHeld, CtePositions, Positions

LEMMA MembersStay ==
  ASSUME req' = req
  PROVE  PlainMembers' <=> PlainMembers
  BY DEF PlainMembers, TypesSeen

LEMMA NextMembers ==
  ASSUME IInv, PunctuationInv, ColumnInv, MembersInv, [Next]_vars
  PROVE  MembersInv'
  <1>1. req' = req
    BY RequestKept
  <1>2. (Fit' <=> Fit) /\ (PlainMembers' <=> PlainMembers)
    BY <1>1, FitStays, MembersStay
  <1>3. ASSUME Fit, PlainMembers PROVE MembersHeld'
    <2>1. NamesFields(req) /\ ColumnsHeld /\ MembersHeld
      BY <1>3 DEF ColumnInv, MembersInv
    <2>2. CASE GenSelect \/ GenSelectRelationships
      BY <1>3, <2>1, <2>2, GenSelectMembers, GenSelectRelationshipsMembers
    <2>3. CASE GenInsert \/ GenUpdateMain \/ GenUpdateRel
      BY <1>3, <2>1, <2>3, WritesMembers
    <2>4. CASE SelectRel
      BY <1>3, <2>1, <2>4, SelectRelMembers
    <2>5. CASE FinishMain \/ FinishMainSorted \/ FinishTable \/ Build \/ GenDeleteNormal \/ GenDeleteRel
      BY <2>1, <2>5, EndMembers
    <2>6. CASE Refuse \/ RefuseRel \/ RefuseSort \/ NextEntry \/ Terminated \/ UNCHANGED vars
      <3>1. buf' = buf
        BY <2>6, QuietSteps
      <3> QED
        BY <2>1, <3>1 DEF MembersHeld, CtePositions, Positions, HasKeys
    <2> QED
      BY <2>2, <2>3, <2>4, <2>5, <2>6 DEF Next
  <1> QED
    BY <1>2, <1>3 DEF MembersInv

----------------------------------------------------------------------------
(* What Postgres refuses *)

\* The requests whose statements can fail for what is in the database only.
Servable == OnlyAlias /\ PlainSorts /\ PlainKeys /\ PlainMembers

\* What is filtered on is one column, and something is set.
LEMMA FitParses ==
  ASSUME AskedInv, ColumnInv, pc = "built", Fit, OnlyAlias
  PROVE  Parses
  <1> SUFFICES ASSUME NEW i \in StmtPositions
               PROVE  /\ \A k \in DOMAIN buf[i].stmt.where : k > 1 => buf[i].stmt.where[k].and
                      /\ buf[i].stmt.q = "update" => buf[i].stmt.sets # <<>>
    BY DEF Parses
  <1>1. StmtReads(buf, buf[i].stmt)
    BY DEF ColumnInv, ColumnsHeld, AllRead, StmtPositions
  <1>2. \A k \in DOMAIN buf[i].stmt.where : k > 1 => buf[i].stmt.where[k].and
    BY <1>1 DEF StmtReads
  <1>3. ASSUME buf[i].stmt.q = "update" PROVE buf[i].stmt.sets # <<>>
    <2>1. i \in WritePositions
      BY <1>3 DEF WritePositions
    <2>2. AsAsked(buf[i].stmt)
      BY <2>1 DEF AskedInv, Fit
    <2> QED
      BY <1>3, <2>2 DEF AsAsked
  <1> QED
    BY <1>2, <1>3

\* A statement of such a request that Postgres does not run would break a
\* constraint.
LEMMA RefusedByConstraint ==
  ASSUME EffectInv, MembersInv, Servable, ~Unfit, phase = "sent", ~Runs
  PROVE  ~Constrained(Promise!Effect(db, req, given))
  <1>1. pc = "built" /\ db \in Databases
    BY DEF EffectInv, ExecInv, SentWhenBuilt, SentInv
  <1>2. Fit /\ OnlyAlias
    BY DEF Servable, Unfit, Fit
  <1>3. Parses
    BY <1>1, <1>2, FitParses DEF EffectInv, ExecInv
  <1>4. StatementResolves
    BY <1>2, ColumnsSuffice DEF EffectInv, ExecInv, ColumnsResolve, Fit
  <1>5. ~KeylessJson(buf, params, given, db)
    <2>1. MembersHeld
      BY <1>2 DEF MembersInv, Servable
    <2>2. ASSUME NEW i \in DOMAIN buf, buf[i].t = "cte", buf[i].stmt.q = "select", NEW o \in DOMAIN buf[i].stmt.outs
          PROVE  ~(buf[i].stmt.outs[o].bare > 0)
      <3>1. buf[i].stmt.outs[o].bare = 0
        BY <2>1, <2>2 DEF MembersHeld, CtePositions, Positions, HasKeys
      <3> QED
        BY <3>1
    <2> QED
      BY <2>2 DEF KeylessJson
  <1>6. ~Constrained(Leaves(buf, params, given, db))
    BY <1>3, <1>4, <1>5 DEF Runs
  <1>7. Leaves(buf, params, given, db) = Promise!Effect(db, req, given)
    BY <1>1, <1>2, <1>3, LeavesEffect DEF EffectInv
  <1> QED
    BY <1>6, <1>7

LEMMA ServableStays ==
  ASSUME req' = req
  PROVE  (Servable' <=> Servable) /\ (Unfit' <=> Unfit)
  <1>1. (OnlyAlias' <=> OnlyAlias) /\ (SaysWhat' <=> SaysWhat)
    BY RequestStays
  <1>2. PlainSorts' <=> PlainSorts
    BY DEF PlainSorts, DistinctSorts, SortedByPath, WritesRel
  <1>3. PlainKeys' <=> PlainKeys
    BY DEF PlainKeys, TypesSeen
  <1>4. PlainMembers' <=> PlainMembers
    BY MembersStay
  <1>5. (SelfJoined' <=> SelfJoined) /\ (NamesMeet' <=> NamesMeet)
    BY DEF SelfJoined, NamesMeet
  <1> QED
    BY <1>1, <1>2, <1>3, <1>4, <1>5 DEF Servable, Unfit

CauseInv == Servable => RefusedForCause

LEMMA CauseKept ==
  ASSUME EffectInv, MembersInv, CauseInv, [ExecNext]_<<vars, execVars>>
  PROVE  CauseInv'
  <1>1. req' = req
    BY StepOfBuilder, RequestKept DEF EffectInv, ExecInv
  <1>2. (Servable' <=> Servable) /\ (Unfit' <=> Unfit)
    BY <1>1, ServableStays
  <1> SUFFICES ASSUME Servable, phase' = "rejected"
               PROVE  Unfit \/ ~Constrained(Promise!Effect(db', req', given'))
    BY <1>2 DEF CauseInv, RefusedForCause
  <1>3. CASE Run
    <2>1. phase = "sent" /\ ~Runs /\ db' = db /\ given' = given
      BY <1>3 DEF Run
    <2> QED
      BY <1>1, <2>1, RefusedByConstraint
  <1>4. CASE ~Run
    <2>1. phase = "rejected" /\ db' = db /\ given' = given
      BY <1>4 DEF ExecNext, Generate, Send, Read, ReadFails, Done, execVars
    <2> QED
      BY <1>1, <2>1 DEF CauseInv, RefusedForCause
  <1> QED
    BY <1>3, <1>4

\* Postgres refuses the statement of a request for what the database holds and
\* the request says: in any other case the statement parses, its columns are
\* found, its objects are built, and what it leaves keeps the constraints; for
\* the requests whose keys, sorting elements and members the builder has a
\* statement for (gen_select_cte, gen_json_builder, gen_inner_join, compare_pkey).
THEOREM RefusalsHaveCause == ExecSpec => [](Servable => RefusedForCause)
  <1>1. ExecInit => MembersInv /\ CauseInv
    BY InitMembers DEF ExecInit, CauseInv, RefusedForCause
  <1>2. EffectInv /\ MembersInv /\ CauseInv /\ [ExecNext]_<<vars, execVars>> => MembersInv' /\ CauseInv'
    <2> SUFFICES ASSUME EffectInv, MembersInv, CauseInv, [ExecNext]_<<vars, execVars>> PROVE MembersInv' /\ CauseInv'
      OBVIOUS
    <2>1. MembersInv'
      BY StepOfBuilder, NextMembers DEF EffectInv, ExecInv
    <2> QED
      BY <2>1, CauseKept
  <1> QED
    BY <1>1, <1>2, EffectInvariant, PTL DEF ExecSpec, CauseInv
=============================================================================
