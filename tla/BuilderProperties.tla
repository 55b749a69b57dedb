------------------------- MODULE BuilderProperties -------------------------
(***************************************************************************)
(* What a statement handed over by the builder must be: one Postgres can   *)
(* parse, resolve and bind, that writes what was asked for and answers     *)
(* with what was asked for.                                                *)
(***************************************************************************)
EXTENDS Builder, FiniteSets

----------------------------------------------------------------------------
(* Reading the buffer *)

Positions(b, kinds) == {i \in DOMAIN b : b[i].t \in kinds}
CtePositions == Positions(buf, {"cte"})
StmtPositions == Positions(buf, {"cte", "write"})
SelectPositions == Positions(buf, {"select"})

\* The CTEs of a buffer, and the tables a token reads or writes.
Ctes(b) == {b[i].tbl : i \in Positions(b, {"cte"})}
JoinTablesOf(stmt) == [j \in DOMAIN stmt.joins |-> stmt.joins[j].tbl]
Uses(tok) ==
  IF tok.t \in {"cte", "write"} THEN {tok.stmt.from} \cup ToSet(JoinTablesOf(tok.stmt))
  ELSE IF tok.t = "select" THEN {tok.tbl} ELSE {}

----------------------------------------------------------------------------
(* Types *)

StatementsTyped == \A i \in StmtPositions : buf[i].stmt.from \in Table

\* The state of a builder: see the VARIABLES of Builder. The tables it holds
\* are tables, an error is kept exactly when the generation has failed.
TypeOK ==
  /\ pc \in {"start", "rels", "finish", "built", "failed"}
  /\ err \in Error
  /\ (err = "none") <=> (pc # "failed")
  /\ cte_index \in Nat
  /\ main \in Table
  /\ DOMAIN at = {"chain", "i", "tbl", "resp", "sorts"}
  /\ at.tbl \in Table
  /\ at.chain \in Seq(Rel) /\ at.i \in 0..Len(at.chain)
  /\ at.resp \in ResponseType
  /\ \A map \in {working_tables, taken} : \A c \in DOMAIN map :
       /\ c \in Seq(Rel)
       /\ map[c].tbl \in Table
       /\ map[c].resp \in ResponseType
  /\ \A c \in DOMAIN todo : c \in Seq(Rel) /\ todo[c].resp \in ResponseType
  /\ StatementsTyped

----------------------------------------------------------------------------
(* Names *)

\* Every CTE of the statement has a name of its own, whatever relationships
\* are followed several times, in several chains, in the same statement
\* (get_new_cte_index, Ciboulette2PgTable::to_cte).
NamesUnique(b) ==
  \A i, j \in Positions(b, {"cte"}) : b[i].tbl = b[j].tbl => i = j
CteNamesUnique == NamesUnique(buf)

\* A statement selects from, joins and returns base tables and CTEs that were
\* written before it, never one that is still to be written or that the
\* builder has only planned.
UsesDefined(b) ==
  \A i \in DOMAIN b : \A tbl \in Uses(b[i]) :
    IsBase(tbl) \/ \E j \in 1..(i - 1) : b[j].t = "cte" /\ b[j].tbl = tbl
DefinedBeforeUse == UsesDefined(buf)

----------------------------------------------------------------------------
(* Columns *)

StmtIn(b, tbl) == b[CHOOSE i \in Positions(b, {"cte"}) : b[i].tbl = tbl].stmt
StmtOf(tbl) == StmtIn(buf, tbl)
Count(stmt, col) == Cardinality({i \in DOMAIN stmt.outs : stmt.outs[i].name = col})

\* How many columns of that name a table, or a CTE of a buffer, exposes: a CTE
\* that writes returns the columns of its table, the final CTE those of the CTE
\* it selects from besides its own.
Exposes(b, tbl, col) ==
  IF IsBase(tbl) THEN IF col \in BaseColumns(tbl.type) THEN 1 ELSE 0
  ELSE LET stmt == StmtIn(b, tbl) IN
    CASE stmt.q = "select" -> Count(stmt, col)
      [] stmt.q = "final" -> Count(stmt, col) + Count(StmtIn(b, stmt.from), col)
      [] OTHER -> IF col \in BaseColumns(tbl.type) THEN 1 ELSE 0

Scope(stmt) == <<stmt.from>> \o JoinTablesOf(stmt)
Times(tbl, scope) == Cardinality({i \in DOMAIN scope : scope[i] = tbl})
\* The tables of the scope that expose a column: an unqualified name needs one.
Holders(b, scope, col) == {i \in DOMAIN scope : Exposes(b, scope[i], col) > 0}

Resolves(b, ref, scope) ==
  /\ Times(ref.tbl, scope) = 1
  /\ Exposes(b, ref.tbl, ref.col) = 1
  /\ ref.qualified \/ Cardinality(Holders(b, scope, ref.col)) = 1

\* The ON of a join sees the tables joined so far; the lists and the filter
\* see all of them. A SET or VALUES list names columns once each.
StmtResolves(b, stmt) ==
  LET scope == Scope(stmt) IN
  /\ \A i \in DOMAIN scope : Times(scope[i], scope) = 1
  /\ \A i \in DOMAIN stmt.outs : \A j \in DOMAIN stmt.outs[i].refs :
       Resolves(b, stmt.outs[i].refs[j], scope)
  /\ \A j \in DOMAIN stmt.joins : \A k \in 1..2 :
       Resolves(b, stmt.joins[j].on[k], SubSeq(scope, 1, j + 1))
  /\ \A k \in DOMAIN stmt.where : Resolves(b, stmt.where[k].ref, scope)
  /\ \A k \in DOMAIN stmt.sets :
       /\ stmt.sets[k].col \in BaseColumns(stmt.from.type)
       /\ \A l \in DOMAIN stmt.sets : stmt.sets[l].col = stmt.sets[k].col => l = k

ResponseColumns == {Id, <<"type">>, <<"data">>, RelatedTypeCol, RelatedId}

SelectResolves(b, tok) ==
  /\ \A col \in ResponseColumns : Exposes(b, tok.tbl, col) = 1
  /\ \A k \in DOMAIN tok.order : Exposes(b, tok.tbl, tok.order[k].col) = 1

\* Every column the statement names is exposed, once, by a table in scope.
StatementResolves ==
  pc = "built" =>
    /\ \A i \in StmtPositions : StmtResolves(buf, buf[i].stmt)
    /\ \A i \in SelectPositions : SelectResolves(buf, buf[i])

----------------------------------------------------------------------------
(* The requests the builder compiles to a statement that resolves *)

\* Sorting elements that name different fields.
DistinctSorts ==
  \A i, j \in DOMAIN req.sort :
    req.sort[i].chain = req.sort[j].chain /\ req.sort[i].field = req.sort[j].field => i = j

\* A write to a relationship from a type to itself, sorted by this very
\* relationship: the final CTE would read what it sorts by from the row that
\* was written, which has no such column (gen_update_rel, add_working_table).
SortedByPath == WritesRel /\ req.path.rels \in SortChains(req)

\* The main data is sorted by its own fields and by those of direct
\* relationships through which nothing further is included.
PlainSorts ==
  /\ DistinctSorts
  /\ ~SortedByPath
  /\ \A c \in SortChains(req) :
       /\ Len(c) <= 1
       /\ c # <<>> => \A d \in req.include : IsPrefixChain(c, d) => c = d

\* A write to a relationship says what to write: see the README.
SaysWhat == ~(WritesRel /\ req.body.data = "absent")

\* The types a request is about: those of its path, and those its chains lead
\* through. Their keys are single columns, called id and not a Text.
TypesSeen ==
  {req.path.type, MainType(req.path)}
    \cup {RelatedType(r) : r \in UNION {ToSet(c) : c \in req.include \cup SortChains(req)}}
PlainKey(t) == PrimaryKey(t) \in {<<[kind |-> k, col |-> Id]>> : k \in {"Number", "Uuid"}}
PlainKeys == \A t \in TypesSeen : PlainKey(t)

\* A read of the path of a relationship joins the tables at its two ends,
\* without an alias.
SelfJoined == req.op = "read" /\ req.path.rels # <<>> /\ MainType(req.path) = req.path.type

\* Columns to sort by are named by words joined with "_": those of the final
\* CTE meet each other, or one the main data is carried with.
NamesMeet ==
  \E i, j \in DOMAIN req.sort :
    \/ i # j /\ SortAlias(req.sort[i]) = SortAlias(req.sort[j])
    \/ req.sort[i].chain = <<>> /\ SortName(req.sort[i].field) = SortAlias(req.sort[j])

\* A handed-over statement of such a request resolves: whatever the path, the
\* relationships followed, the tables joined and the columns carried from one
\* CTE to the next for the joins and the sorting to come
\* (gen_select_cte, gen_inner_join, gen_left_join, gen_select_cte_final).
ColumnsResolve ==
  PlainSorts /\ SaysWhat /\ PlainKeys /\ ~SelfJoined /\ ~NamesMeet => StatementResolves

----------------------------------------------------------------------------
(* Parameters *)

\* The placeholders of every output column, of every column that is set (a
\* literal NULL is none), of a statement and of every token of a buffer.
ListPlaceholders(outs) == [k \in DOMAIN outs |-> outs[k].params]
SetPlaceholders(sets) == [k \in DOMAIN sets |-> IF sets[k].param = 0 THEN <<>> ELSE <<sets[k].param>>]
Placeholders(stmt) ==
  FlattenSeq(ListPlaceholders(stmt.outs))
    \o FlattenSeq(SetPlaceholders(stmt.sets))
    \o [k \in DOMAIN stmt.where |-> stmt.where[k].param]
Printed(b) ==
  [i \in DOMAIN b |-> IF b[i].t \in {"cte", "write"} THEN Placeholders(b[i].stmt) ELSE <<>>]

\* The placeholders, in the order they are printed in, are $1, $2, ... up to
\* the number of parameters: each parameter is pushed where its placeholder is
\* written, by whichever function writes it (insert_params).
PlaceholdersInOrder == FlattenSeq(Printed(buf)) = [n \in DOMAIN params |-> n]

Bound(ps, n, value) == n \in DOMAIN ps /\ ps[n] = value

\* The members of the JSON object of a CTE: a key bound to the name of the
\* column that follows it.
JsonBinds(ps, out) ==
  \A k \in DOMAIN out.params : Bound(ps, out.params[k], [v |-> "key", of |-> out.refs[k].col])

\* The row a statement filters on is the one the request names, by every
\* column of its key, and every column it sets is bound to the value the body
\* gives for that column.
StmtBinds(ps, stmt) ==
  /\ \A k \in DOMAIN stmt.where :
       Bound(ps, stmt.where[k].param, [v |-> "id", of |-> stmt.where[k].ref.col])
  /\ \A k \in DOMAIN stmt.sets : stmt.sets[k].param # 0 =>
       \E v \in {"attr", "ref", "null"} : Bound(ps, stmt.sets[k].param, [v |-> v, of |-> stmt.sets[k].col])
  /\ \A k \in DOMAIN stmt.outs : stmt.outs[k].name = <<"data">> => JsonBinds(ps, stmt.outs[k])

\* The value bound to a placeholder is the one meant for that place: filters
\* get the id of the request, SET and VALUES lists the value of their column,
\* JSON keys the name of their member.
ParamsAligned == \A i \in StmtPositions : StmtBinds(params, buf[i].stmt)

----------------------------------------------------------------------------
(* Writes *)

WritePositions == {i \in StmtPositions : buf[i].stmt.q \in {"insert", "update", "delete"}}
WriteStmts == {buf[i].stmt : i \in WritePositions}

\* The whole key of the table, each column once, and nothing else.
FiltersOnKey(stmt) ==
  /\ Len(stmt.where) = Len(PrimaryKey(stmt.from.type))
  /\ {stmt.where[k].ref.col : k \in DOMAIN stmt.where}
       = {PrimaryKey(stmt.from.type)[k].col : k \in DOMAIN PrimaryKey(stmt.from.type)}

\* The columns a request asks to write, by its body or by its path.
GivenRels(body, t) == {r \in ToSet(RelsOf(t)) : body.rels[r] \in {"one", "null"}}
GivenColumns(body, t) ==
  {body.attrs[i].name : i \in {j \in DOMAIN body.attrs : ~body.attrs[j].absent}}
    \cup {Relation[r].key : r \in GivenRels(body, t)}
AskedColumns ==
  CASE req.op = "create" \/ WritesMain -> GivenColumns(req.body, MainType(req.path))
    [] WritesRel \/ (req.op = "delete" /\ req.path.rels # <<>>) -> {Relation[PathRel].key}
    [] OTHER -> {}

SetColumns(stmt) == {stmt.sets[k].col : k \in DOMAIN stmt.sets}

\* The table a request may write to.
WrittenTable == IF req.op = "create" THEN MainTable ELSE PathTable

\* What a write may do, once it is written.
InPlace(stmt) ==
  /\ req.op # "read"
  /\ stmt.from = WrittenTable
  /\ stmt.q = "insert" \/ FiltersOnKey(stmt)
  /\ (stmt.q = "insert") <=> (req.op = "create")
  /\ (stmt.q = "delete") <=> (req.op = "delete" /\ req.path.rels = <<>>)

\* A statement writes in one place at most, and a read in none: to one row of
\* the table of the path, named by its whole key, or to a new one; the table at
\* the other end of a relationship is never written, nor is a row deleted when
\* a relationship is (gen_insert, gen_update, gen_delete, handle_delete_rel).
WritesInPlace ==
  /\ \A i, j \in WritePositions : i = j
  /\ \A i \in WritePositions : InPlace(buf[i].stmt)

\* The columns set are those the request asks for, and there is something set.
AsAsked(stmt) == SetColumns(stmt) = AskedColumns /\ (stmt.q = "update" => stmt.sets # <<>>)
NothingAsked == req.op = "read" \/ (WritesMain /\ AskedColumns = {})

\* A deletion of a relationship finds it by the type it leads to: which one it
\* takes of several is the external crate's choice.
OnlyAlias ==
  req.op = "delete" /\ req.path.rels # <<>> =>
    AliasesTo(req.path.type, MainType(req.path)) = {PathRel}

\* The columns set are those the body or the path asks for, each absent
\* attribute left out and each null one written, and a statement without a
\* write is the one of a request that has nothing to set.
WritesAsAsked ==
  pc = "built" /\ SaysWhat /\ OnlyAlias =>
    /\ (WriteStmts = {}) <=> NothingAsked
    /\ \A stmt \in WriteStmts : AsAsked(stmt)

----------------------------------------------------------------------------
(* Punctuation *)

Kinds == [i \in DOMAIN buf |-> buf[i].t]

\* What may follow a token: the comma between two CTEs is written by the first
\* in some functions and by the second in others, the UNION ALL by the select
\* that comes after the main one.
Follows(a, b) ==
  CASE a = "with" -> b = "cte"
    [] a = "cte" -> b \in {"comma", "select"}
    [] a = "comma" -> b = "cte"
    [] a = "select" -> b \in {"union", "semicolon"}
    [] a = "union" -> b = "select"
    [] a = "write" -> b = "semicolon"
    [] OTHER -> FALSE

\* At every moment the buffer is the beginning of a statement, and the whole
\* of one when it is handed over.
Punctuated ==
  /\ buf # <<>> => buf[1].t \in {"with", "write"}
  /\ \A i \in 2..Len(buf) : Follows(buf[i - 1].t, buf[i].t)
  /\ pc = "built" => Last(buf).t = "semicolon"

----------------------------------------------------------------------------
(* Working tables and sorting *)

\* A chain has a working table only when the chains it extends have one, and
\* the table is one of the type the chain leads to: this is what the final
\* CTE's LEFT JOINs walk along (gen_select_cte_final).
ChainsHaveParents ==
  \A c \in DOMAIN working_tables :
    /\ \A i \in 1..Len(c) : Prefix(c, i) \in DOMAIN working_tables
    /\ working_tables[c].tbl.type = RelatedType(Last(c))

\* UnknownError is for what cannot happen. It does happen for a write to a
\* relationship that is sorted by a relationship of the related type, and for
\* nothing else.
UnknownErrorOnlyWritingRel ==
  err = "UnknownError" => WritesRel /\ \E c \in SortChains(req) : c # <<>>

\* A sort is accepted exactly when every link of its chains is many-to-one:
\* one row of the main data has one value to be sorted by. A deletion answers
\* with no rows, and never looks at how to sort them.
MultiSortRefused ==
  /\ pc = "built" /\ req.op # "delete" =>
       \A c \in SortChains(req) : \A i \in DOMAIN c : IsManyToOne(c[i])
  /\ err = "SortingByMultiRel" => \E c \in SortChains(req) : \E i \in DOMAIN c : ~IsManyToOne(c[i])

\* The label the rows of a data CTE carry in their "type" column: the aliases
\* of the chain that leads to them, or the name of the type of the main data.
LabelOf(tbl) ==
  LET stmt == StmtOf(tbl)
      out == CHOOSE i \in DOMAIN stmt.outs : stmt.outs[i].name = <<"type">>
  IN params[stmt.outs[out].params[1]].of

FinalStmts == {buf[i].stmt : i \in {j \in CtePositions : buf[j].stmt.q = "final"}}

\* Every sorting element is read from the rows its chain leads to, and the
\* main select is ordered by all of them, in the order of the request.
SortsByTheChain ==
  pc = "built" /\ ~SortedByPath =>
    \A stmt \in FinalStmts : \A k \in DOMAIN req.sort :
      LET s == req.sort[k] IN
      \E o \in DOMAIN stmt.outs :
        /\ stmt.outs[o].name = SortAlias(s)
        /\ stmt.outs[o].refs[1].col = SortName(s.field)
        /\ IF s.chain = <<>> THEN stmt.outs[o].refs[1].tbl = stmt.from
                             ELSE LabelOf(stmt.outs[o].refs[1].tbl) = ChainLabel(s.chain)
        /\ \E i \in SelectPositions : \E n \in DOMAIN buf[i].order :
             n = k /\ buf[i].order[n] = [col |-> SortAlias(s), desc |-> s.desc]

----------------------------------------------------------------------------
(* The inductive invariant *)

IsSeq(s) == s \in Seq(ToSet(s))

\* Indices below cte_index are taken; the one CTE without an index is written
\* once select_rels is over.
Numbered ==
  \A i \in CtePositions :
    /\ buf[i].tbl.is_cte => buf[i].tbl.index \in 0..(cte_index - 1)
    /\ pc \in {"start", "rels"} => buf[i].tbl.is_cte

\* The tables the builder holds on to are CTEs it has written.
HandlesWritten ==
  /\ pc = "rels" => {main, at.tbl} \subseteq Ctes(buf)
  /\ \A c \in DOMAIN working_tables : working_tables[c].tbl \in Ctes(buf)
  /\ \A c \in DOMAIN taken : taken[c].tbl \in Ctes(buf)

\* select_rels has a working table for every link of its chain it is past.
Climbing == pc = "rels" => \A n \in 1..at.i : Prefix(at.chain, n) \in DOMAIN working_tables

\* A write to a relationship goes through the chain of its path.
Relating ==
  WritesRel /\ pc = "rels" =>
    \/ req.path.rels \in DOMAIN todo
    \/ req.path.rels = at.chain
    \/ req.path.rels \in DOMAIN working_tables

BufferInv == IsSeq(buf) /\ Numbered /\ CteNamesUnique /\ DefinedBeforeUse
ChainsInv == HandlesWritten /\ Climbing /\ Relating /\ ChainsHaveParents

\* TypeOK, CteNamesUnique, DefinedBeforeUse and ChainsHaveParents, made
\* inductive: names are unique because indices only grow; what is selected or
\* joined is written because every handle is; a chain has its parents because
\* select_rels climbs it from its first link.
IInv == IsRequest(req) /\ TypeOK /\ BufferInv /\ ChainsInv
=============================================================================
