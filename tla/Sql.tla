-------------------------------- MODULE Sql --------------------------------
(***************************************************************************)
(* The SQL the builder writes, at the level of clauses: tables and CTEs,   *)
(* column references, select lists, joins, filters, and the tokens the     *)
(* buffer is a sequence of. Placeholders are the numbers $n prints.        *)
(***************************************************************************)
EXTENDS Request

NoIndex == -1

\* Ciboulette2PgTable. The name of a CTE is its prefix, the name of the table
\* it is made from, its suffix and its index.
TablePrefix == {"plain", "rel"}
TableSuffix == {"plain", "insert", "update", "data", "final"}
Table == [is_cte : BOOLEAN, type : Type, prefix : TablePrefix, suffix : TableSuffix,
          index : Nat \cup {NoIndex}]

BaseTable(t) ==
  [is_cte |-> FALSE, type |-> t, prefix |-> "plain", suffix |-> "plain", index |-> NoIndex]
Bug_ToCte(t, prefix, suffix, index) ==
  [is_cte |-> TRUE, type |-> t, prefix |-> prefix, suffix |-> suffix, index |-> 0]
ToCte(t, prefix, suffix, index) ==
  [is_cte |-> TRUE, type |-> t, prefix |-> prefix, suffix |-> suffix, index |-> index]
\* cte_final_main_data: a CTE whose name is fixed, and not flagged as a CTE.
FinalTable(t) ==
  [is_cte |-> FALSE, type |-> t, prefix |-> "plain", suffix |-> "final", index |-> NoIndex]

IsBase(tbl) == ~tbl.is_cte /\ tbl.suffix = "plain"

----------------------------------------------------------------------------
(* Column references *)

Id == <<"id">>
MainId == <<"main", "id">>
RelatedId == <<"related", "id">>
RelatedTypeCol == <<"related", "type">>

PrimaryKey(t) == Resource[t].pk

Ref(tbl, col) == [tbl |-> tbl, col |-> col, qualified |-> TRUE]
BareRef(tbl, col) == [tbl |-> tbl, col |-> col, qualified |-> FALSE]

\* The key of a table as ONE quoted identifier: the names of the columns of a
\* composite key are printed between the same quotes, separated by ", ".
KeyIdent(t) ==
  FlattenSeq([i \in DOMAIN PrimaryKey(t) |->
                (IF i = 1 THEN <<>> ELSE <<", ">>) \o PrimaryKey(t)[i].col])

\* How a join names the key of a table: a CTE exposes it as main_id.
JoinKey(tbl) == Ref(tbl, IF tbl.is_cte THEN MainId ELSE KeyIdent(tbl.type))
\* How a join names a foreign key: a data CTE exposes it with a prefix.
ForeignKey(tbl, key) == Ref(tbl, IF tbl.is_cte THEN RelName(key) ELSE key)

\* The columns of the table of a type.
BaseColumns(t) ==
  {PrimaryKey(t)[i].col : i \in DOMAIN PrimaryKey(t)}
    \cup {Resource[t].attrs[i].name : i \in DOMAIN Resource[t].attrs}
    \cup {Relation[r].key : r \in {s \in Rel : IsManyToOne(s) /\ Relation[s].owner = t}}

----------------------------------------------------------------------------
(* Joins and filters *)

InnerJoin(tbl, a, b) == [left |-> FALSE, tbl |-> tbl, on |-> <<a, b>>]
LeftJoin(tbl, a, b) == [left |-> TRUE, tbl |-> tbl, on |-> <<a, b>>]

Bug_GenInnerJoin(r, left, right) ==
  LET bucket == BaseTable(Relation[r].bucket) IN
  CASE Relation[r].kind = "ManyToMany" ->
         <<InnerJoin(bucket, Ref(bucket, KeysForType(r, RelatedType(r))), JoinKey(right)),
           InnerJoin(left, JoinKey(left), Ref(bucket, KeysForType(r, left.type)))>>
    [] Relation[r].kind = "OneToMany" ->
         <<InnerJoin(left, JoinKey(left), Ref(BaseTable(ManyResource(r)), Relation[r].key))>>
    [] OTHER -> <<InnerJoin(left, Ref(left, Relation[r].key), JoinKey(right))>>

Bug_GenInnerJoinByType(r, left, right) ==
  LET bucket == BaseTable(Relation[r].bucket) IN
  CASE Relation[r].kind = "ManyToMany" ->
         <<InnerJoin(bucket, Ref(bucket, KeysForType(r, RelatedType(r))), JoinKey(right)),
           InnerJoin(left, JoinKey(left), Ref(bucket, KeysForType(r, left.type)))>>
    [] Relation[r].kind # "ManyToMany" /\ left.type = ManyResource(r) ->
         <<InnerJoin(left, ForeignKey(left, Relation[r].key), JoinKey(right))>>
    [] OTHER -> <<InnerJoin(left, JoinKey(left), Ref(BaseTable(ManyResource(r)), Relation[r].key))>>
\* gen_inner_join: reach `left` from `right`, the table selected from.
GenInnerJoin(r, left, right) ==
  LET bucket == BaseTable(Relation[r].bucket) IN
  CASE Relation[r].kind = "ManyToMany" ->
         <<InnerJoin(bucket, Ref(bucket, KeysForType(r, RelatedType(r))), JoinKey(right)),
           InnerJoin(left, JoinKey(left), Ref(bucket, KeysForType(r, left.type)))>>
    [] Relation[r].kind = "OneToMany" ->
         <<InnerJoin(left, JoinKey(left), Ref(BaseTable(ManyResource(r)), Relation[r].key))>>
    [] OTHER -> <<InnerJoin(left, ForeignKey(left, Relation[r].key), JoinKey(right))>>

\* The tables gen_inner_join looks up in the table store.
JoinTables(r) ==
  CASE Relation[r].kind = "ManyToMany" -> {Relation[r].bucket}
    [] Relation[r].kind = "OneToMany" -> {ManyResource(r)}
    [] OTHER -> {}

\* gen_left_join, for a many-to-one link.
GenLeftJoin(r, left, right) ==
  LeftJoin(left, JoinKey(left), ForeignKey(right, Relation[r].key))

\* compare_pkey: one comparison per key column, written one after the other
\* without an AND between them; n parameters were pushed before.
Bug_ComparePkey(tbl, n) ==
  [i \in DOMAIN PrimaryKey(tbl.type) |->
     [ref |-> Ref(tbl, PrimaryKey(tbl.type)[i].col), param |-> i, and |-> FALSE]]
ComparePkey(tbl, n) ==
  [i \in DOMAIN PrimaryKey(tbl.type) |->
     [ref |-> Ref(tbl, PrimaryKey(tbl.type)[i].col), param |-> n + i, and |-> FALSE]]
PkeyParams(t) == [i \in DOMAIN PrimaryKey(t) |-> [v |-> "id", of |-> PrimaryKey(t)[i].col]]

----------------------------------------------------------------------------
(* Select lists: every output column with the references, the placeholders *)
(* and the keyless NULLs its expression is made of.                        *)

Out(name, refs, params) == [name |-> name, refs |-> refs, params |-> params, bare |-> 0]

KeyRefs(tbl) ==
  [i \in DOMAIN PrimaryKey(tbl.type) |-> Ref(tbl, PrimaryKey(tbl.type)[i].col)]

\* select_main_id_pretty: a single Text key is encoded without its table.
PrettyRefs(tbl) ==
  LET pk == PrimaryKey(tbl.type) IN
  IF Len(pk) = 1 /\ pk[1].kind = "Text" THEN <<BareRef(tbl, pk[1].col)>> ELSE KeyRefs(tbl)

\* gen_json_builder: the sparse fields of the type, or its whole schema, or
\* nothing when the data is not to be returned.
JsonFields(sparse, t, include) ==
  IF ~include THEN <<>>
  ELSE IF t \in DOMAIN sparse THEN sparse[t]
  ELSE MapSeq(LAMBDA a : a.name, Resource[t].attrs)

AttrNames(t) == {Resource[t].attrs[i].name : i \in DOMAIN Resource[t].attrs}
ObjNames(t) == {Resource[t].attrs[i].name : i \in {j \in DOMAIN Resource[t].attrs : Resource[t].attrs[j].obj}}
UnknownField(fields, t) == \E i \in DOMAIN fields : fields[i] \notin AttrNames(t)
\* A nested object is written as NULL::json, without the key of its member.
PlainFields(fields, t) == Kept(fields, {i \in DOMAIN fields : fields[i] \notin ObjNames(t)})

JsonOut(tbl, t, fields, n) ==
  LET plain == PlainFields(fields, t) IN
  [name |-> <<"data">>,
   refs |-> MapSeq(LAMBDA f : Ref(tbl, f), plain),
   params |-> [i \in DOMAIN plain |-> n + i],
   bare |-> Len(fields) - Len(plain)]

\* relation_alias() joined with "_" for the names of the sort columns, and
\* with "." for the label of the rows a chain leads to.
AliasWords(chain) ==
  IF chain = <<>> THEN EmptyWord ELSE FlattenSeq(MapSeq(Alias, chain))
ChainLabel(chain) ==
  FlattenSeq([i \in DOMAIN chain |-> (IF i = 1 THEN <<>> ELSE <<".">>) \o Alias(chain[i])])

\* What select_rels, or a relationship path, relates the rows to: the table
\* they come from and the chain that leads to them.
HeadParams(t, relating) ==
  IF relating = <<>> THEN <<[v |-> "type", of |-> <<t>>]>>
  ELSE <<[v |-> "type", of |-> <<relating[1].tbl.type>>],
         [v |-> "chain", of |-> ChainLabel(relating[1].chain)]>>

SelectParams(t, relating, fields) ==
  HeadParams(t, relating)
    \o MapSeq(LAMBDA f : [v |-> "key", of |-> f], PlainFields(fields, t))

HeadOuts(relating, n) ==
  IF relating = <<>>
  THEN <<Out(RelatedId, <<>>, <<>>), Out(RelatedTypeCol, <<>>, <<>>), Out(<<"type">>, <<>>, <<n + 1>>)>>
  ELSE <<Out(RelatedId, <<Ref(relating[1].tbl, KeyIdent(relating[1].tbl.type))>>, <<>>),
         Out(RelatedTypeCol, <<>>, <<n + 1>>), Out(<<"type">>, <<>>, <<n + 2>>)>>

\* The column list of gen_select_cte, n parameters being pushed before.
SelectOuts(tbl, t, relating, additional, fields, n) ==
  <<Out(Id, PrettyRefs(tbl), <<>>), Out(MainId, KeyRefs(tbl), <<>>)>>
    \o HeadOuts(relating, n)
    \o <<JsonOut(tbl, t, fields, n + Len(HeadParams(t, relating)))>>
    \o MapSeq(LAMBDA f : Out(f.name, <<Ref(tbl, f.col)>>, <<>>), additional)

----------------------------------------------------------------------------
(* Statements and the tokens of the buffer *)

\* One shape for every statement: a part a statement does not have is empty.
Stmt(q, from, outs, joins, sets, where) ==
  [q |-> q, from |-> from, outs |-> outs, joins |-> joins, sets |-> sets, where |-> where]

\* SET and VALUES lists; the parameter 0 stands for the literal NULL.
SetList(values, n) == [i \in DOMAIN values |-> [col |-> values[i].col, param |-> n + i]]
Bug_ValueParams(values) == Reverse(MapSeq(LAMBDA v : v.value, values))
ValueParams(values) == MapSeq(LAMBDA v : v.value, values)

Cte(tbl, stmt) == [t |-> "cte", tbl |-> tbl, stmt |-> stmt]
Write(stmt) == [t |-> "write", stmt |-> stmt]
Select(tbl, order) == [t |-> "select", tbl |-> tbl, order |-> order]
With == [t |-> "with"]
Comma == [t |-> "comma"]
Union == [t |-> "union"]
Semicolon == [t |-> "semicolon"]
=============================================================================
