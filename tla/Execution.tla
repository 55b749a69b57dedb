----------------------------- MODULE Execution -----------------------------
(***************************************************************************)
(* A request from end to end: the builder compiles it, the statement and   *)
(* its parameters are sent to Postgres, which runs it on the database it   *)
(* finds, and the rows that come back are read. The generation looks at    *)
(* no database: other clients write to it until the statement runs.        *)
(***************************************************************************)
EXTENDS BuilderProperties, Postgres, Rows

CONSTANTS
  Databases,  \* the databases the statement may find
  Keys,       \* [Type -> the keys that requests name]
  NewAttr,    \* the value a request gives to an attribute
  Fresh       \* [Type -> the key of a new row]

\* Finitely many rows in every table, each with the columns of its table.
ASSUME DatabasesAssumption ==
  \A d \in Databases :
    /\ d = [t \in TableStore |-> d[t]]
    /\ \A t \in TableStore :
         /\ IsFiniteSet(d[t])
         /\ \A row \in d[t] : row = [col \in BaseColumns(t) |-> row[col]]
    /\ Constrained(d)

\* A creation is asked for at the path of a type.
ASSUME CreationAssumption ==
  \A q \in Requests : q.op = "create" => q.path.kind = "Type"

VARIABLES
  db,        \* the database
  given,     \* the values the request holds
  phase,     \* where the request is, once it is compiled
  rows,      \* the rows Postgres returns
  elements   \* the response elements made from them

execVars == <<db, given, phase, rows, elements>>

----------------------------------------------------------------------------
(* The values of a request *)

\* The relationships that hold an identifier.
RelsGiven(q) ==
  {r \in ForeignKeys(q.path.type) :
     \/ q.op # "delete" /\ q.path.rels = <<r>> /\ q.body.data = "one"
     \/ q.op \in {"create", "update"} /\ q.path.rels = <<>> /\ q.body.rels[r] = "one"}
RefsGiven(q) ==
  LET rels == RelsGiven(q)
      some == {f \in [rels -> UNION {Keys[RelatedType(r)] : r \in rels}] :
                 \A r \in rels : f[r] \in Keys[RelatedType(r)]}
  IN {[col \in {Relation[r].key : r \in rels} |-> f[CHOOSE r \in rels : Relation[r].key = col]] :
        f \in some}
IdsGiven(q) ==
  {[col \in KeyColumns(q.path.type) |-> k] :
     k \in IF q.path.kind = "Type" THEN {Null} ELSE Keys[q.path.type]}

Givens(q) ==
  {[id |-> i, attr |-> [col \in AttrNames(q.path.type) |-> NewAttr], ref |-> f,
    fresh |-> Fresh[q.path.type]] : i \in IdsGiven(q), f \in RefsGiven(q)}

----------------------------------------------------------------------------
(* What Postgres accepts *)

\* A comparison follows another one after an AND, and an UPDATE sets something.
Parses ==
  \A i \in StmtPositions :
    /\ \A k \in DOMAIN buf[i].stmt.where : k > 1 => buf[i].stmt.where[k].and
    /\ buf[i].stmt.q = "update" => buf[i].stmt.sets # <<>>

Runs ==
  /\ Parses
  /\ StatementResolves
  /\ ~KeylessJson(buf, params, given, db)
  /\ Constrained(Leaves(buf, params, given, db))

----------------------------------------------------------------------------

Generate == pc \notin {"built", "failed"} /\ Next /\ UNCHANGED execVars

\* sqlx::query_with(query, args): the database is what it is by then.
Send ==
  /\ pc = "built" /\ phase = "generating"
  /\ db' \in Databases
  /\ given' \in Givens(req)
  /\ phase' = "sent"
  /\ UNCHANGED <<vars, rows, elements>>

\* A statement runs as a whole, or not at all.
Run ==
  /\ phase = "sent"
  /\ IF Runs THEN /\ db' = Leaves(buf, params, given, db)
                  /\ rows' = Returns(buf, params, given, db)
                  /\ phase' = "ran"
             ELSE phase' = "rejected" /\ UNCHANGED <<db, rows>>
  /\ UNCHANGED <<vars, given, elements>>

\* from_raw and build_response_elements.
Read ==
  /\ phase = "ran"
  /\ elements' = BuildResponseElements(rows)
  /\ phase' = "read"
  /\ UNCHANGED <<vars, db, given, rows>>

\* CibouletteResponseElement::build may refuse a row: nothing is returned.
ReadFails ==
  /\ phase = "ran" /\ rows # <<>>
  /\ phase' = "unread"
  /\ UNCHANGED <<vars, db, given, rows, elements>>

Done ==
  /\ pc = "failed" \/ phase \in {"rejected", "read", "unread"}
  /\ UNCHANGED <<vars, execVars>>

NoValues == [col \in {} |-> Null]
ExecInit ==
  /\ Init
  /\ db = CHOOSE d \in Databases : TRUE
  /\ given = [id |-> NoValues, attr |-> NoValues, ref |-> NoValues, fresh |-> Null]
  /\ phase = "generating"
  /\ rows = <<>>
  /\ elements = <<>>

ExecNext == Generate \/ Send \/ Run \/ Read \/ ReadFails \/ Done

ExecSpec == ExecInit /\ [][ExecNext]_<<vars, execVars>>
=============================================================================
