------------------------------ MODULE Builder ------------------------------
(***************************************************************************)
(* Ciboulette2PgBuilder: one request is compiled to one Postgres statement *)
(* and its parameters. The statement is a WITH of CTEs (what is written,   *)
(* the main data, one CTE per relationship on the way to what is included  *)
(* or sorted by), then a UNION ALL of selects; a deletion is a plain       *)
(* statement. An error abandons the builder.                               *)
(***************************************************************************)
EXTENDS Sql

CONSTANT Requests   \* the typed requests ciboulette may hand over

\* A path names one relationship when it is the path of one, none otherwise;
\* what is included and sorted by is reached from the main type.
IsRequest(q) ==
  /\ q.path.type \in Type
  /\ IsChain(q.path.type, q.path.rels)
  /\ Len(q.path.rels) = IF q.path.kind \in {"TypeIdRelated", "TypeIdRelationship"} THEN 1 ELSE 0
  /\ IsFiniteSet(q.include) /\ \A c \in q.include : IsChain(MainType(q.path), c)
  /\ q.sort \in Seq([chain : Seq(Rel), field : Ident, desc : BOOLEAN])
  /\ \A i \in DOMAIN q.sort : IsChain(MainType(q.path), q.sort[i].chain)
  /\ \A t \in DOMAIN q.sparse : q.sparse[t] \in Seq(Ident)
  /\ q.body.attrs \in Seq([name : Ident, absent : BOOLEAN])
  /\ q.body.kind = "rel" => q.body.data \in RelData \ {"omitted"}

ASSUME RequestsAssumption == \A q \in Requests : IsRequest(q)

\* What ciboulette checks against the schemas: a sorting element names a field
\* of the type its chain leads to, and a body gives each of the attributes of
\* the main type once at most.
NamesFields(q) ==
  /\ \A i \in DOMAIN q.sort :
       LET c == q.sort[i].chain IN
       q.sort[i].field \in AttrNames(IF c = <<>> THEN MainType(q.path) ELSE RelatedType(Last(c)))
  /\ q.op = "create" \/ q.path.rels = <<>> =>
       \A i, j \in DOMAIN q.body.attrs :
         /\ q.body.attrs[i].name \in AttrNames(MainType(q.path))
         /\ q.body.attrs[i].name = q.body.attrs[j].name => i = j

ASSUME FieldsAssumption == \A q \in Requests : NamesFields(q)

VARIABLES
  req,             \* the request being compiled
  pc,              \* where the generation is
  err,             \* the error returned, or "none"
  cte_index,       \* the next CTE index
  params,          \* the parameters pushed
  buf,             \* the tokens written
  working_tables,  \* chain -> [tbl, resp]: the CTE that stands for a chain
  main,            \* main_cte_data
  todo,            \* what select_rels has not taken from its inclusion map
  at,              \* the loop variables of select_rels
  taken            \* the working tables finish_request has not gone through

vars == <<req, pc, err, cte_index, params, buf, working_tables, main, todo, at, taken>>

Error == {"none", "UnknownTable", "UnknownField", "UnknownError", "SortingByMultiRel",
          "MissingRelationship", "RequiredSingleRelationship", "ManyRelationshipDirectWrite",
          "UpdatingMainObject", "MultiIdsForSingleRelationships", "ProvidedIdOnInserts",
          "MissingAttributes"}

NoChains == [c \in {} |-> {}]
Without(map, c) == [d \in DOMAIN map \ {c} |-> map[d]]

\* The loop variables of select_rels when an entry of the map is taken.
Bug_Enter(chain, entry, tbl) ==
  [chain |-> chain, i |-> IF chain = <<>> THEN 0 ELSE 1, tbl |-> tbl, resp |-> entry.resp,
   sorts |-> entry.sorts]
Enter(chain, entry, tbl) ==
  [chain |-> chain, i |-> 0, tbl |-> tbl, resp |-> entry.resp, sorts |-> entry.sorts]
Nowhere(tbl) == Enter(<<>>, [resp |-> "None", sorts |-> <<>>], tbl)

MainTable == BaseTable(MainType(req.path))
PathTable == BaseTable(req.path.type)
PathRel == req.path.rels[1]

WritesMain == req.op = "update" /\ req.path.kind = "TypeId"
WritesRel == req.op = "update" /\ req.path.kind = "TypeIdRelationship"

----------------------------------------------------------------------------
(* Refusals *)

\* The first check that fails decides.
IsFirst(n, errs) ==
  n \in DOMAIN errs /\ errs[n] # "none" /\ \A i \in 1..(n - 1) : errs[i] = "none"
FirstError(errs) ==
  IF \A i \in DOMAIN errs : errs[i] = "none" THEN "none"
  ELSE errs[CHOOSE n \in DOMAIN errs : IsFirst(n, errs)]

Missing(types) == IF types \subseteq TableStore THEN "none" ELSE "UnknownTable"
Unless(ok, e) == IF ok THEN "none" ELSE e
JsonError(t, include) ==
  Unless(~UnknownField(JsonFields(req.sparse, t, include), t), "UnknownField")

\* The first error met before select_rels, in the order of the checks.
SelectError ==
  CASE req.path.kind = "TypeIdRelationship" ->
         FirstError(<<Missing({MainTable.type}), Missing({PathTable.type}),
                      Missing(JoinTables(PathRel))>>)
    [] req.path.kind = "TypeIdRelated" ->
         FirstError(<<Missing({MainTable.type}), JsonError(MainTable.type, TRUE),
                      Missing({PathTable.type} \cup JoinTables(PathRel))>>)
    [] OTHER -> FirstError(<<Missing({MainTable.type}), JsonError(MainTable.type, TRUE)>>)

InsertError ==
  FirstError(<<CheckInsertRequest(req.body), Missing({MainTable.type}),
               ExtractData(req.body, MainTable.type).err, JsonError(MainTable.type, TRUE)>>)

UpdateMainError ==
  FirstError(<<Missing({MainTable.type}),
               Unless(req.body.kind = "main", "ManyRelationshipDirectWrite"),
               ExtractData(req.body, MainTable.type).err, JsonError(MainTable.type, TRUE)>>)

UpdateRelError ==
  FirstError(<<Missing({PathTable.type}), Missing({MainTable.type}),
               Unless(req.body.kind = "rel", "UpdatingMainObject"),
               ExtractRelData(PathRel, req.body.data).err, JsonError(PathTable.type, TRUE)>>)

Bug_DeleteRelError(r) ==
  IF Relation[r].kind # "ManyToMany"
  THEN FirstError(<<Unless(Relation[r].optional, "MissingRelationship"),
                    Missing({ManyResource(r)})>>)
  ELSE "ManyRelationshipDirectWrite"
\* handle_delete_rel, once the alias is resolved to relationship r.
DeleteRelError(r) ==
  IF /\ Relation[r].kind # "ManyToMany"
     /\ ManyResource(r) = req.path.type
     /\ OneResource(r) = MainType(req.path)
  THEN FirstError(<<Unless(Relation[r].optional, "MissingRelationship"),
                    Missing({ManyResource(r)})>>)
  ELSE "ManyRelationshipDirectWrite"

Bug_Fail(e) ==
  /\ pc' = "failed"
  /\ UNCHANGED <<req, err, cte_index, params, buf, working_tables, main, todo, at, taken>>
Fail(e) ==
  /\ pc' = "failed"
  /\ err' = e
  /\ UNCHANGED <<req, cte_index, params, buf, working_tables, main, todo, at, taken>>

Refuse ==
  /\ pc = "start"
  /\ \/ req.op = "read" /\ SelectError # "none" /\ Fail(SelectError)
     \/ req.op = "create" /\ InsertError # "none" /\ Fail(InsertError)
     \/ WritesMain /\ UpdateMainError # "none" /\ Fail(UpdateMainError)
     \/ WritesRel /\ UpdateRelError # "none" /\ Fail(UpdateRelError)
     \/ /\ req.op = "delete" /\ req.path.rels = <<>>
        /\ PathTable.type \notin TableStore
        /\ Fail("UnknownTable")
     \/ /\ req.op = "delete" /\ req.path.rels # <<>>
        /\ \E r \in AliasesTo(req.path.type, MainType(req.path)) :
             DeleteRelError(r) # "none" /\ Fail(DeleteRelError(r))

----------------------------------------------------------------------------
(* gen_select *)

\* Hand over to select_rels, which will go through `map` from CTE `data`.
Bug_SelectRelsFrom(data, map) ==
  LET again == [data EXCEPT !.index = data.index + 1] IN
  /\ main' = again
  /\ todo' = map
  /\ at' = Nowhere(again)
  /\ pc' = "rels"
  /\ UNCHANGED <<req, err, working_tables, taken>>
SelectRelsFrom(data, map) ==
  /\ main' = data
  /\ todo' = map
  /\ at' = Nowhere(data)
  /\ pc' = "rels"
  /\ UNCHANGED <<req, err, working_tables, taken>>

\* /type, /type/id and /type/id/rel.
GenSelect ==
  LET t == MainTable.type
      fields == JsonFields(req.sparse, t, TRUE)
      data == ToCte(t, "plain", "data", cte_index)
      related == req.path.kind = "TypeIdRelated"
      pushed == SelectParams(t, <<>>, fields)
      joins == IF related THEN GenInnerJoin(PathRel, PathTable, MainTable) ELSE <<>>
      where == IF req.path.kind = "Type" THEN <<>> ELSE ComparePkey(PathTable, Len(pushed))
  IN /\ pc = "start"
     /\ req.op = "read" /\ req.path.kind # "TypeIdRelationship"
     /\ SelectError = "none"
     /\ cte_index' = cte_index + 1
     /\ buf' = buf \o <<With,
                 Cte(data, Stmt("select", MainTable,
                       SelectOuts(MainTable, t, <<>>, RelFields(t) \o SortKeysForMain(req), fields, 0),
                       joins, <<>>, where))>>
     /\ params' = params \o pushed
                    \o (IF req.path.kind = "Type" THEN <<>> ELSE PkeyParams(req.path.type))
     /\ SelectRelsFrom(data, BuildInclusionMap(req))

\* /type/id/relationships/rel: the related rows without their data, then the
\* row they are related to, which no select of the response mentions.
GenSelectRelationships ==
  LET t == MainTable.type
      data == ToCte(t, "plain", "data", cte_index)
      owner == ToCte(PathTable.type, "rel", "data", cte_index + 1)
      relating == <<[tbl |-> PathTable, chain |-> req.path.rels]>>
      pushed == SelectParams(t, relating, <<>>)
      n == Len(pushed) + Len(PrimaryKey(PathTable.type))
      ownerPushed == SelectParams(PathTable.type, <<>>, <<>>)
  IN /\ pc = "start"
     /\ req.op = "read" /\ req.path.kind = "TypeIdRelationship"
     /\ SelectError = "none"
     /\ cte_index' = cte_index + 2
     /\ buf' = buf \o <<With,
          Cte(data, Stmt("select", MainTable,
                SelectOuts(MainTable, t, relating, RelFields(t) \o SortKeysForMain(req), <<>>, 0),
                GenInnerJoin(PathRel, PathTable, MainTable), <<>>,
                ComparePkey(PathTable, Len(pushed)))),
          Comma,
          Cte(owner, Stmt("select", PathTable,
                SelectOuts(PathTable, PathTable.type, <<>>, RelFields(PathTable.type), <<>>, n),
                <<>>, <<>>, ComparePkey(PathTable, n + Len(ownerPushed))))>>
     /\ params' = params \o pushed \o PkeyParams(PathTable.type)
                    \o ownerPushed \o PkeyParams(PathTable.type)
     /\ SelectRelsFrom(data, Unwanted(BuildInclusionMap(req)))

----------------------------------------------------------------------------
(* gen_insert, gen_update and gen_delete *)

\* A CTE that writes (or, with nothing to write, reads) table t, then the data
\* CTE that selects from it.
WriteThenSelect(t, suffix, stmt, written, additional, map) ==
  LET row == ToCte(t, "plain", suffix, cte_index)
      data == ToCte(t, "plain", "data", cte_index + 1)
      fields == JsonFields(req.sparse, t, TRUE)
  IN /\ cte_index' = cte_index + 2
     /\ buf' = buf \o <<With, Cte(row, stmt), Comma,
          Cte(data, Stmt("select", row,
                SelectOuts(row, t, <<>>, additional, fields, Len(written)), <<>>, <<>>, <<>>))>>
     /\ params' = params \o written \o SelectParams(t, <<>>, fields)
     /\ SelectRelsFrom(data, map)

UpdateStmt(tbl, values) ==
  Stmt("update", tbl, <<>>, <<>>, SetList(values, 0), ComparePkey(tbl, Len(values)))

GenInsert ==
  LET t == MainTable.type
      data == ExtractData(req.body, t)
  IN /\ pc = "start"
     /\ req.op = "create"
     /\ InsertError = "none"
     /\ WriteThenSelect(t, "insert",
          Stmt("insert", MainTable, <<>>, <<>>, SetList(data.values, 0), <<>>),
          ValueParams(data.values), data.fields \o SortKeysForMain(req), BuildInclusionMap(req))

GenUpdateMain ==
  LET t == MainTable.type
      data == ExtractData(req.body, t)
      star == Stmt("star", MainTable, <<>>, <<>>, <<>>, ComparePkey(MainTable, 0))
  IN /\ pc = "start"
     /\ WritesMain
     /\ UpdateMainError = "none"
     /\ WriteThenSelect(t, "update",
          IF data.values = <<>> THEN star ELSE UpdateStmt(MainTable, data.values),
          ValueParams(data.values) \o PkeyParams(t),
          data.fields \o SortKeysForMain(req), BuildInclusionMap(req))

\* The relationship takes the place of the whole inclusion map; the related
\* rows are sorted by the sorting elements of the empty chain.
GenUpdateRel ==
  LET t == PathTable.type
      data == ExtractRelData(PathRel, req.body.data)
      entry == [resp |-> "Id", sorts |-> Reverse(SortsOf(req, <<>>))]
  IN /\ pc = "start"
     /\ WritesRel
     /\ UpdateRelError = "none"
     /\ WriteThenSelect(t, "update", UpdateStmt(PathTable, data.values),
          ValueParams(data.values) \o PkeyParams(t), data.fields,
          [c \in {req.path.rels} |-> entry])

\* A deletion is one statement: no CTE, no response.
WriteOnly(stmt) ==
  /\ buf' = buf \o <<Write(stmt)>>
  /\ params' = params \o PkeyParams(stmt.from.type)
  /\ pc' = "finish"
  /\ UNCHANGED <<req, err, cte_index, working_tables, main, todo, at, taken>>

GenDeleteNormal ==
  /\ pc = "start"
  /\ req.op = "delete" /\ req.path.rels = <<>>
  /\ PathTable.type \in TableStore
  /\ WriteOnly(Stmt("delete", PathTable, <<>>, <<>>, <<>>, ComparePkey(PathTable, 0)))

GenDeleteRel ==
  /\ pc = "start"
  /\ req.op = "delete" /\ req.path.rels # <<>>
  /\ \E r \in AliasesTo(req.path.type, MainType(req.path)) :
       LET many == BaseTable(ManyResource(r)) IN
       /\ DeleteRelError(r) = "none"
       /\ WriteOnly(Stmt("update", many, <<>>, <<>>, <<[col |-> Relation[r].key, param |-> 0]>>,
                         ComparePkey(many, 0)))

----------------------------------------------------------------------------
(* select_rels: one CTE for every link of every chain of the map *)

EntryDone == at.i = Len(at.chain)

NextEntry ==
  /\ pc = "rels" /\ EntryDone
  /\ \E c \in DOMAIN todo :
       /\ IsLeast(c, DOMAIN todo)
       /\ at' = Enter(c, todo[c], main)
       /\ todo' = Without(todo, c)
  /\ UNCHANGED <<req, pc, err, cte_index, params, buf, working_tables, main, taken>>

\* The two ends of a bucket table are not returned when reached from it.
Returned(r, resp) ==
  resp = "Object" /\ ~(IsManyToOne(r) /\ Relation[r].part_of_many_to_many)

SelectRelError(r) ==
  FirstError(<<Missing({RelatedType(r)}), JsonError(RelatedType(r), Returned(r, at.resp)),
               Missing(JoinTables(r))>>)

\* The chain up to the link that is selected now.
Bug_CurrentRelChain == at.chain
CurrentRelChain == Prefix(at.chain, at.i + 1)

SelectRel ==
  LET r == at.chain[at.i + 1]
      t == RelatedType(r)
      here == CurrentRelChain
      cte == ToCte(t, "rel", "data", cte_index)
      relating == <<[tbl |-> at.tbl, chain |-> here]>>
      fields == JsonFields(req.sparse, t, Returned(r, at.resp))
      additional == RelFields(t) \o MapSeq(SortField, at.sorts)
  IN /\ pc = "rels" /\ ~EntryDone
     /\ SelectRelError(r) = "none"
     /\ cte_index' = cte_index + 1
     /\ buf' = buf \o <<Comma, Cte(cte,
          Stmt("select", BaseTable(t),
               SelectOuts(BaseTable(t), t, relating, additional, fields, Len(params)),
               GenInnerJoin(r, at.tbl, BaseTable(t)), <<>>, <<>>))>>
     /\ params' = params \o SelectParams(t, relating, fields)
     /\ working_tables' =
          [c \in DOMAIN working_tables \cup {here} |->
             IF c = here THEN [tbl |-> cte, resp |-> at.resp] ELSE working_tables[c]]
     /\ at' = [at EXCEPT !.i = at.i + 1, !.tbl = cte]
     /\ UNCHANGED <<req, pc, err, main, todo, taken>>

RefuseRel ==
  /\ pc = "rels" /\ ~EntryDone
  /\ SelectRelError(at.chain[at.i + 1]) # "none"
  /\ Fail(SelectRelError(at.chain[at.i + 1]))

----------------------------------------------------------------------------
(* The main select and, when sorting, the CTE it needs *)

SortedChains(map) ==
  InOrder({c \in DOMAIN map : map[c].sorts # <<>>})

SortAlias(s) == <<"sort">> \o AliasWords(s.chain) \o s.field

\* The links of the chains sorted by, in the order they are joined.
SortLinks(map) ==
  FlattenSeq(MapSeq(LAMBDA c : [i \in DOMAIN c |-> [chain |-> c, i |-> i]], SortedChains(map)))

Bug_LinkError(l, wt) ==
  IF Prefix(l.chain, l.i - 1) \notin DOMAIN wt THEN "UnknownError"
  ELSE Unless(IsManyToOne(l.chain[l.i]), "SortingByMultiRel")
Bug_LinkErrorFirstOnly(l, wt) ==
  IF Prefix(l.chain, l.i) \notin DOMAIN wt THEN "UnknownError"
  ELSE Unless(l.i > 1 \/ IsManyToOne(l.chain[l.i]), "SortingByMultiRel")
LinkError(l, wt) ==
  IF Prefix(l.chain, l.i) \notin DOMAIN wt THEN "UnknownError"
  ELSE Unless(IsManyToOne(l.chain[l.i]), "SortingByMultiRel")

\* The outcome of every join of the final CTE.
SortErrors(wt) == MapSeq(LAMBDA l : LinkError(l, wt), SortLinks(BuildInclusionMap(req)))

\* gen_select_cte_final_rel_inclusion
SortOuts(tbl, wt) ==
  LET map == BuildInclusionMap(req)
      source(c) == IF c \in DOMAIN wt THEN wt[c].tbl ELSE tbl
      outs(c) == MapSeq(LAMBDA s : Out(SortAlias(s), <<Ref(source(c), SortName(s.field))>>, <<>>),
                        map[c].sorts)
  IN FlattenSeq(MapSeq(outs, SortedChains(map)))

SortJoins(tbl, wt) ==
  MapSeq(LAMBDA l : GenLeftJoin(l.chain[l.i], wt[Prefix(l.chain, l.i)].tbl,
                      IF l.i = 1 THEN tbl ELSE wt[Prefix(l.chain, l.i - 1)].tbl),
         SortLinks(BuildInclusionMap(req)))

\* gen_select_cte_final: DISTINCT ON and ORDER BY the key, and every column.
FinalStmt(tbl, wt) ==
  Stmt("final", tbl, <<Out(<<"*">>, <<Ref(tbl, MainId)>>, <<>>)>> \o SortOuts(tbl, wt),
       SortJoins(tbl, wt), <<>>, <<>>)

Bug_OrderBy == MapSeq(LAMBDA s : [col |-> SortAlias(s), desc |-> s.desc], Reverse(req.sort))
OrderBy == MapSeq(LAMBDA s : [col |-> SortAlias(s), desc |-> s.desc], req.sort)

RelsDone == pc = "rels" /\ EntryDone /\ todo = NoChains

\* A write to a relationship selects the related rows first, and puts the row
\* that was written in their place among the working tables.
Selected == IF WritesRel THEN working_tables[req.path.rels].tbl ELSE main
Remaining ==
  IF WritesRel THEN [working_tables EXCEPT ![req.path.rels] = [tbl |-> main, resp |-> "Id"]]
               ELSE working_tables

\* finish_request begins: the working tables are taken out of the builder.
TakeWorkingTables ==
  /\ taken' = Remaining
  /\ working_tables' = NoChains
  /\ pc' = "finish"

FinishMain ==
  /\ RelsDone
  /\ req.sort = <<>>
  /\ buf' = buf \o <<Select(Selected, <<>>)>>
  /\ TakeWorkingTables
  /\ UNCHANGED <<req, err, cte_index, params, main, todo, at>>

FinishMainSorted ==
  LET final == FinalTable(Selected.type) IN
  /\ RelsDone
  /\ req.sort # <<>>
  /\ \A n \in DOMAIN SortErrors(Remaining) : SortErrors(Remaining)[n] = "none"
  /\ buf' = buf \o <<Comma, Cte(final, FinalStmt(Selected, Remaining)), Select(final, OrderBy)>>
  /\ TakeWorkingTables
  /\ UNCHANGED <<req, err, cte_index, params, main, todo, at>>

RefuseSort ==
  /\ RelsDone
  /\ req.sort # <<>>
  /\ \E n \in DOMAIN SortErrors(Remaining) :
       IsFirst(n, SortErrors(Remaining)) /\ Fail(SortErrors(Remaining)[n])

----------------------------------------------------------------------------
(* The rest of finish_request, and build *)

Bug_FinishTable ==
  /\ pc = "finish"
  /\ \E c \in DOMAIN taken :
       /\ IsLeast(c, DOMAIN taken)
       /\ buf' = IF taken[c].resp = "None" THEN buf ELSE Append(buf, Select(taken[c].tbl, <<>>))
       /\ taken' = Without(taken, c)
  /\ UNCHANGED <<req, pc, err, cte_index, params, working_tables, main, todo, at>>
Bug_FinishTableStuck ==
  /\ pc = "finish"
  /\ \E c \in DOMAIN taken :
       /\ IsLeast(c, DOMAIN taken)
       /\ IF taken[c].resp = "None" THEN UNCHANGED <<buf, taken>>
          ELSE buf' = buf \o <<Union, Select(taken[c].tbl, <<>>)>> /\ taken' = Without(taken, c)
  /\ UNCHANGED <<req, pc, err, cte_index, params, working_tables, main, todo, at>>
FinishTable ==
  /\ pc = "finish"
  /\ \E c \in DOMAIN taken :
       /\ IsLeast(c, DOMAIN taken)
       /\ buf' = IF taken[c].resp = "None" THEN buf
                 ELSE buf \o <<Union, Select(taken[c].tbl, <<>>)>>
       /\ taken' = Without(taken, c)
  /\ UNCHANGED <<req, pc, err, cte_index, params, working_tables, main, todo, at>>

Build ==
  /\ pc = "finish" /\ taken = NoChains
  /\ buf' = buf \o <<Semicolon>>
  /\ pc' = "built"
  /\ UNCHANGED <<req, err, cte_index, params, working_tables, main, todo, at, taken>>

Terminated == pc \in {"built", "failed"} /\ UNCHANGED vars

----------------------------------------------------------------------------

Init ==
  /\ req \in Requests
  /\ pc = "start"
  /\ err = "none"
  /\ cte_index = 0
  /\ params = <<>>
  /\ buf = <<>>
  /\ working_tables = NoChains
  /\ main = MainTable
  /\ todo = NoChains
  /\ at = Nowhere(MainTable)
  /\ taken = NoChains

Next ==
  \/ Refuse
  \/ GenSelect
  \/ GenSelectRelationships
  \/ GenInsert
  \/ GenUpdateMain
  \/ GenUpdateRel
  \/ GenDeleteNormal
  \/ GenDeleteRel
  \/ NextEntry
  \/ SelectRel
  \/ RefuseRel
  \/ FinishMain
  \/ FinishMainSorted
  \/ RefuseSort
  \/ FinishTable
  \/ Build
  \/ Terminated

\* The generator is a straight line of calls: it never waits.
Spec == Init /\ [][Next]_vars /\ WF_vars(Next)
=============================================================================
