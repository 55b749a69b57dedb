------------------------------ MODULE Postgres ------------------------------
(***************************************************************************)
(* What Postgres does with a statement of the builder: the tokens of the   *)
(* buffer and the parameters bound to its placeholders. A table is a       *)
(* sequence of rows, since a statement may answer a row twice. All the     *)
(* parts of one statement read the database as it was before it; what a    *)
(* part writes is seen by the others only through the rows it returns.     *)
(***************************************************************************)
EXTENDS Database

\* The value of a parameter: names are what they are, the others come from
\* the request; g is [id, attr, ref] by column.
ParamValue(p, g) ==
  CASE p.v \in {"type", "chain", "key"} -> p.of
    [] p.v \in {"id", "attr", "ref"} -> g[p.v][p.of]
    [] p.v = "null" -> Null
BoundValue(ps, n, g) == IF n = 0 THEN Null ELSE ParamValue(ps[n], g)

----------------------------------------------------------------------------
(* One part of a statement *)

Tables(stmt) == <<stmt.from>> \o MapSeq(LAMBDA j : j.tbl, stmt.joins)

\* The cell of a reference, in the rows joined; a LEFT JOIN that found no row
\* leaves one without columns.
NoRow == [col \in {} |-> Null]
Cell(stmt, rows, ref) ==
  LET row == rows[CHOOSE i \in DOMAIN Tables(stmt) : Tables(stmt)[i] = ref.tbl] IN
  IF ref.col \in DOMAIN row THEN row[ref.col] ELSE Null

\* NULL equals nothing.
SameCell(a, b) == a # Null /\ a = b

\* The rows of a table, in the database or in the CTEs so far.
RowsOf(tbl, ctes, d) == IF IsBase(tbl) THEN SetToSeq(d[tbl.type]) ELSE ctes[tbl]

\* The rows of one more table that a join lets through, each beside the rows
\* joined so far; a LEFT JOIN keeps these when there is none.
Matching(stmt, join, beside) ==
  Kept(beside, {i \in DOMAIN beside : SameCell(Cell(stmt, beside[i], join.on[1]), Cell(stmt, beside[i], join.on[2]))})
OrNoRow(join, rows, matching) ==
  IF matching = <<>> /\ join.left THEN <<Append(rows, NoRow)>> ELSE matching

\* The rows joined so far, with those of one more table.
JoinedTo(stmt, join, joined, ctes, d) ==
  LET matches(rows) ==
        OrNoRow(join, rows,
                Matching(stmt, join, MapSeq(LAMBDA row : Append(rows, row), RowsOf(join.tbl, ctes, d))))
  IN FlattenSeq(MapSeq(matches, joined))

\* Every combination of rows that the joins let through.
Joined(stmt, ctes, d) ==
  LET after[n \in 0..Len(stmt.joins)] ==
        IF n = 0 THEN MapSeq(LAMBDA row : <<row>>, RowsOf(stmt.from, ctes, d))
        ELSE JoinedTo(stmt, stmt.joins[n], after[n - 1], ctes, d)
  IN after[Len(stmt.joins)]

\* Those among them that the WHERE is true of.
Passes(stmt, ps, g, rows) ==
  \A k \in DOMAIN stmt.where :
    SameCell(Cell(stmt, rows, stmt.where[k].ref), BoundValue(ps, stmt.where[k].param, g))
Passing(stmt, ps, g, joined) == Kept(joined, {i \in DOMAIN joined : Passes(stmt, ps, g, joined[i])})
Filtered(stmt, ps, g, ctes, d) == Passing(stmt, ps, g, Joined(stmt, ctes, d))

\* The value of an output column. The id is the key as a TEXT, encoded when
\* select_main_id_pretty says so; the main id is the key as it is.
OutValue(stmt, ps, g, rows, out) ==
  LET cells == MapSeq(LAMBDA ref : Cell(stmt, rows, ref), out.refs)
      first == IF cells = <<>> THEN Null ELSE cells[1]
  IN CASE out.name = Id -> KeyText(stmt.from.type, cells)
       [] out.name = MainId -> IF Len(cells) = 1 THEN first ELSE cells
       [] out.name \in {RelatedTypeCol, <<"type">>} ->
            IF out.params = <<>> THEN Null ELSE BoundValue(ps, out.params[1], g)
       [] out.name = <<"data">> -> {<<BoundValue(ps, out.params[k], g), cells[k]>> : k \in DOMAIN cells}
       [] OTHER -> first

OutNames(stmt) == {stmt.outs[i].name : i \in DOMAIN stmt.outs}
OutOf(stmt, name) == stmt.outs[CHOOSE i \in DOMAIN stmt.outs : stmt.outs[i].name = name]

SelectedRows(stmt, ps, g, ctes, d) ==
  MapSeq(LAMBDA rows : [name \in OutNames(stmt) |-> OutValue(stmt, ps, g, rows, OutOf(stmt, name))],
         Filtered(stmt, ps, g, ctes, d))

\* The rows of the final CTE, of those joined: all the columns of the CTE it
\* selects from and those to sort by.
FinalRows(stmt, ps, g, joined) ==
  LET names == OutNames(stmt) \ {<<"*">>}
      row(rows) == [col \in DOMAIN rows[1] \cup names |->
                      IF col \in names THEN OutValue(stmt, ps, g, rows, OutOf(stmt, col)) ELSE rows[1][col]]
  IN MapSeq(row, joined)

Bug_Distinct(joined) == joined
\* DISTINCT ON the main id keeps one row of each.
Distinct(joined) ==
  LET main(i) == joined[i][1][MainId]
      kept == {i \in DOMAIN joined : \A j \in 1..(i - 1) : main(j) # main(i)}
  IN MapSeq(LAMBDA i : joined[i], SetToSortSeq(kept, <))

----------------------------------------------------------------------------
(* Writes *)

SetValues(stmt, ps, g) ==
  [col \in {stmt.sets[k].col : k \in DOMAIN stmt.sets} |->
     BoundValue(ps, stmt.sets[CHOOSE k \in DOMAIN stmt.sets : stmt.sets[k].col = col].param, g)]

\* The rows a part that writes touches, and what it returns of them.
Touched(stmt, ps, g, d) == {rows[1] : rows \in ToSet(Filtered(stmt, ps, g, <<>>, d))}
Written(stmt, ps, g, d) ==
  CASE stmt.q = "insert" -> {NewRow(stmt.from.type, SetValues(stmt, ps, g), g.fresh)}
    [] stmt.q = "update" -> {Changed(row, SetValues(stmt, ps, g)) : row \in Touched(stmt, ps, g, d)}
    [] OTHER -> Touched(stmt, ps, g, d)

After(stmt, ps, g, d) ==
  LET t == stmt.from.type IN
  CASE stmt.q = "insert" -> Replaced(d, t, {}, Written(stmt, ps, g, d))
    [] stmt.q = "update" -> Replaced(d, t, Touched(stmt, ps, g, d), Written(stmt, ps, g, d))
    [] stmt.q = "delete" -> Deleted(d, t, Touched(stmt, ps, g, d))
    [] OTHER -> d

----------------------------------------------------------------------------
(* The whole statement *)

StmtRows(stmt, ps, g, ctes, d) ==
  CASE stmt.q = "select" -> SelectedRows(stmt, ps, g, ctes, d)
    [] stmt.q = "final" -> FinalRows(stmt, ps, g, Distinct(Joined(stmt, ctes, d)))
    [] OTHER -> SetToSeq(Written(stmt, ps, g, d))

\* The rows of every CTE, each computed from the ones before it.
CteRows(b, ps, g, d) ==
  LET after[n \in 0..Len(b)] ==
        IF n = 0 THEN [tbl \in {} |-> <<>>]
        ELSE IF b[n].t # "cte" THEN after[n - 1]
        ELSE [tbl \in DOMAIN after[n - 1] \cup {b[n].tbl} |->
                IF tbl = b[n].tbl THEN StmtRows(b[n].stmt, ps, g, after[n - 1], d)
                ELSE after[n - 1][tbl]]
  IN after[Len(b)]

\* ASC puts NULLs last, DESC puts them first. Rows that tie keep their order.
Precedes(a, b, desc) ==
  IF desc THEN b # Null /\ (a = Null \/ a[1] > b[1]) ELSE a # Null /\ (b = Null \/ a[1] < b[1])
Before(x, y, order) ==
  \E k \in DOMAIN order :
    /\ Precedes(x[order[k].col], y[order[k].col], order[k].desc)
    /\ \A j \in 1..(k - 1) : x[order[j].col] = y[order[j].col]
Ordered(rows, order) ==
  LET precedes(i, j) == \/ Before(rows[i], rows[j], order)
                        \/ i < j /\ ~Before(rows[j], rows[i], order)
  IN MapSeq(LAMBDA i : rows[i], SetToSortSeq(DOMAIN rows, precedes))

\* The columns of a response, under the names rows are read by.
ResponseRow(row) ==
  [id |-> row[Id], type |-> row[<<"type">>], data |-> row[<<"data">>],
   related_type |-> row[RelatedTypeCol], related_id |-> row[RelatedId]]

\* The UNION ALL of the selects, one after the other.
Returns(b, ps, g, d) ==
  LET ctes == CteRows(b, ps, g, d)
      rows(tok) == IF tok.order = <<>> THEN ctes[tok.tbl] ELSE Ordered(ctes[tok.tbl], tok.order)
  IN FlattenSeq(MapSeq(LAMBDA tok : MapSeq(ResponseRow, rows(tok)),
                       SelectSeq(b, LAMBDA tok : tok.t = "select")))

\* The database afterwards: a statement writes in one place at most.
Leaves(b, ps, g, d) ==
  LET writes == {i \in DOMAIN b : b[i].t \in {"cte", "write"} /\ b[i].stmt.q \in {"insert", "update", "delete"}}
  IN IF writes = {} THEN d ELSE After(b[CHOOSE i \in writes : TRUE].stmt, ps, g, d)

\* JSON_BUILD_OBJECT fails on a row when a key is missing.
KeylessJson(b, ps, g, d) ==
  \E i \in DOMAIN b : /\ b[i].t = "cte" /\ b[i].stmt.q = "select"
                      /\ \E o \in DOMAIN b[i].stmt.outs : b[i].stmt.outs[o].bare > 0
                      /\ Filtered(b[i].stmt, ps, g, CteRows(b, ps, g, d), d) # <<>>
=============================================================================
