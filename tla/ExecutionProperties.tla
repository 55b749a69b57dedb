------------------------ MODULE ExecutionProperties ------------------------
(***************************************************************************)
(* What must hold of a request that is served, from the rows of the        *)
(* database it found to the elements of its response.                      *)
(***************************************************************************)
EXTENDS Execution

----------------------------------------------------------------------------
(* The promise *)

Status ==
  CASE phase \in {"ran", "read", "unread"} -> "answered"
    [] pc = "failed" \/ phase = "rejected" -> "refused"
    [] OTHER -> "pending"

Promise == INSTANCE Api WITH request <- req, reply <- ToSet(rows), status <- Status

\* A statement does to the database what its request says, and answers with
\* the rows that are reached from the main data by the relationships asked
\* for, in the database it leaves: whichever tables, CTEs and joins it goes
\* through, in one step, or not at all (gen_select, gen_insert, gen_update,
\* gen_delete, select_rels, finish_request).
ImplementsApi == Promise!ApiSpec

\* What is left of this promise for whoever sees the database only, whatever
\* the request answers with: a statement leaves the rows its request is about
\* as the request wants them, and every other row as it found it, or nothing
\* happens (gen_insert, gen_update, gen_delete, compare_pkey).
ImplementsEffects == Promise!EffectSpec

Answered == phase \in {"ran", "read", "unread"}

\* What no statement is made for that Postgres accepts: a table joined to
\* itself, sort columns of one name, an UPDATE that sets nothing.
Unfit == SelfJoined \/ NamesMeet \/ ~SaysWhat

\* Postgres refuses a statement of the builder for a reason only: it would leave
\* a row without a key, twice the same key, or a reference to nothing, or the
\* request is one the builder has no good statement for. Whatever it reads,
\* joins, carries along and filters on, it parses, finds its columns and builds
\* its objects (gen_select_cte, gen_json_builder, gen_inner_join, compare_pkey).
RefusedForCause == phase = "rejected" => Unfit \/ ~Constrained(Promise!Effect(db, req, given))

\* And what the builder has no good statement for is never answered: the table
\* joined to itself, the columns that meet, the empty SET are seen by Postgres,
\* whichever rows it finds (gen_select, gen_cte_main_final_sorting, gen_update_rel).
UnfitRefused == Answered /\ req.op # "delete" => ~Unfit

----------------------------------------------------------------------------
(* The order of the main data *)

IsMain(row) == row.type = <<MainType(req.path)>> /\ row.related_type = Null
RowOf(t, id) == CHOOSE row \in db[t] : IdText(t, row) = id

\* What a main row is sorted by: a field of the row its chain leads to.
SortCell(row, s) ==
  LET t == MainType(req.path)
      ends == Promise!Reached(db, t, {RowOf(t, row.id)}, s.chain)
  IN IF ends = {} THEN Null ELSE (CHOOSE e \in ends : TRUE)[s.field]

\* Row y has to come before row x.
Misplaced(x, y) ==
  \E k \in DOMAIN req.sort :
    /\ Precedes(SortCell(y, req.sort[k]), SortCell(x, req.sort[k]), req.sort[k].desc)
    /\ \A j \in 1..(k - 1) : SortCell(x, req.sort[j]) = SortCell(y, req.sort[j])

\* The main rows come in the order asked for, judged by the rows themselves:
\* each sorting element follows its own chain of relationships, the first one
\* that tells two rows apart decides, in its direction, and a row without the
\* relationship keeps its place among the main data
\* (gen_select_cte_final, gen_cte_main_final_sorting, gen_left_join).
SortedAsAsked ==
  Answered /\ req.op # "delete" =>
    \A i, j \in DOMAIN rows : i < j /\ IsMain(rows[i]) /\ IsMain(rows[j]) => ~Misplaced(rows[i], rows[j])

----------------------------------------------------------------------------
(* Rows and elements *)

\* A row is answered once, however many rows of the main data lead to it and
\* however often the final CTE joins it to sort by, when nothing is included
\* through something else that is included.
RowsOnce ==
  Answered /\ (\A c \in req.include : Len(c) <= 1) =>
    \A i, j \in DOMAIN rows : rows[i] = rows[j] => i = j

\* What an element says it is related to is an element of the same response,
\* under the same id, unless the path asks for linkage alone: a response is
\* put together by those ids (build_response_elements).
RelatedAnswered ==
  phase = "read" /\ ~(req.op = "read" /\ req.path.kind = "TypeIdRelationship") =>
    \A i \in DOMAIN elements : elements[i].related # <<>> =>
      \E j \in DOMAIN elements : elements[j].id = elements[i].related[1].id

\* The ids of a response fit in a URL, and stay apart: two rows of a type whose
\* keys differ have different ids after the base64 of a Text key is broken into
\* lines, the breaks are taken out and "/" and "+" replaced (check_identifier,
\* select_main_id_pretty).
IdsApart ==
  phase = "read" =>
    /\ \A i \in DOMAIN elements : ToSet(elements[i].id) \cap {"/", "+", "\n"} = {}
    /\ \A i, j \in DOMAIN elements :
         elements[i].type = elements[j].type /\ rows[i].id # rows[j].id => elements[i].id # elements[j].id
    /\ req.path.kind = "Type" /\ req.op = "read" =>
         Cardinality({elements[i].id : i \in {k \in DOMAIN elements : IsMain(rows[k])}})
           = Cardinality(db[req.path.type])
=============================================================================
