-------------------------------- MODULE Api --------------------------------
(***************************************************************************)
(* What a request promises, whatever statement it is compiled to: the rows *)
(* it leaves in the database, and the rows it answers with, found by       *)
(* following relationships from row to row in the database it leaves.      *)
(***************************************************************************)
EXTENDS Database

VARIABLES
  request,  \* the typed request
  given,    \* its values: [id, attr, ref: by column, fresh: the next key]
  db,       \* the database
  reply,    \* the rows answered
  status    \* "pending", "answered" or "refused"

apiVars == <<request, given, db, reply, status>>

----------------------------------------------------------------------------
(* The effect of a request *)

Writing(q) == q.op # "read"
OnRel(q) == q.path.rels # <<>>

\* What the body gives: the attributes that are there, and the relationships
\* that hold one identifier or null.
Given(g, rels, data) ==
  [col \in {Relation[r].key : r \in rels} |->
     IF \E r \in rels : Relation[r].key = col /\ data[r] = "one" THEN g.ref[col] ELSE Null]
BodyValues(q, g) ==
  LET attrs == {q.body.attrs[i].name : i \in {j \in DOMAIN q.body.attrs : ~q.body.attrs[j].absent}}
      rels == Given(g, {r \in ForeignKeys(q.path.type) : q.body.rels[r] \in {"one", "null"}}, q.body.rels)
  IN [col \in attrs \cup DOMAIN rels |-> IF col \in attrs THEN g.attr[col] ELSE rels[col]]

\* A path that names a relationship is about its key only.
Values(q, g) ==
  IF OnRel(q) THEN LET r == q.path.rels[1] IN
                   Given(g, {r}, [s \in {r} |-> IF q.op = "delete" THEN "null" ELSE q.body.data])
              ELSE BodyValues(q, g)

Named(d, q, g) == {row \in d[q.path.type] : HasKey(q.path.type, row, g.id)}
Created(q, g) == NewRow(q.path.type, Values(q, g), g.fresh)

Effect(d, q, g) ==
  LET t == q.path.type IN
  CASE q.op = "read" -> d
    [] q.op = "create" -> Replaced(d, t, {}, {Created(q, g)})
    [] q.op = "delete" /\ ~OnRel(q) -> Deleted(d, t, Named(d, q, g))
    [] OTHER -> Replaced(d, t, Named(d, q, g), {Changed(row, Values(q, g)) : row \in Named(d, q, g)})

----------------------------------------------------------------------------
(* The answer to a request *)

Item(id, label, data, related_type, related_id) ==
  [id |-> id, type |-> label, data |-> data, related_type |-> related_type, related_id |-> related_id]

\* The attributes asked for, or none.
Attributes(q, t, row, wanted) == {<<f, row[f]>> : f \in ToSet(JsonFields(q.sparse, t, wanted))}

Items(q, t, rows) == {Item(IdText(t, row), <<t>>, Attributes(q, t, row, TRUE), Null, Null) : row \in rows}

TypeAfter(t, chain, n) == IF n = 0 THEN t ELSE RelatedType(chain[n])

\* The rows a chain leads to from some rows of type t, link by link.
Reached(d, t, rows, chain) ==
  LET after[n \in 0..Len(chain)] ==
        IF n = 0 THEN rows
        ELSE {b \in d[RelatedType(chain[n])] : \E a \in after[n - 1] : Linked(d, chain[n], a, b)}
  IN after[Len(chain)]

\* A row is answered once for every row it is reached from.
ChainItems(d, q, t, rows, chain, wanted) ==
  LET r == Last(chain)
      u == TypeAfter(t, chain, Len(chain) - 1)
      from == Reached(d, t, rows, Front(chain))
  IN UNION {{Item(IdText(RelatedType(r), b), ChainLabel(chain), Attributes(q, RelatedType(r), b, wanted),
                  <<u>>, IdText(u, a)) :
               b \in {c \in d[RelatedType(r)] : Linked(d, r, a, c)}} : a \in from}

MainRows(d, q, g) ==
  CASE q.op = "create" -> {Created(q, g)}
    [] q.op # "create" /\ q.path.kind = "Type" -> d[q.path.type]
    [] q.path.kind = "TypeIdRelated" -> Reached(d, q.path.type, Named(d, q, g), q.path.rels)
    [] OTHER -> Named(d, q, g)

\* The main rows, and those of every chain on the way to what is included,
\* without attributes when they are the ends of a bucket table; for the path
\* of a relationship the linkage, and the row that was written.
Answer(d, q, g) ==
  LET t == MainType(q.path)
      linkage == ChainItems(d, q, q.path.type, Named(d, q, g), q.path.rels, FALSE)
      chains == UNION {{Prefix(c, i) : i \in 1..Len(c)} : c \in q.include}
  IN CASE q.op = "delete" -> {}
       [] q.path.kind = "TypeIdRelationship" /\ q.op = "read" -> linkage
       [] q.path.kind = "TypeIdRelationship" /\ q.op = "update" ->
            linkage \cup Items(q, q.path.type, Named(d, q, g))
       [] OTHER -> Items(q, t, MainRows(d, q, g)) \cup
            UNION {ChainItems(d, q, t, MainRows(d, q, g), c, ~Relation[Last(c)].part_of_many_to_many) :
                     c \in chains}

----------------------------------------------------------------------------

ApiInit == status = "pending" /\ reply = {}

\* Until the request is served, other clients change the database, and the
\* values of the request are whatever the client sent.
OthersWrite == status = "pending" /\ UNCHANGED <<request, status>>

\* A request is served at once: the constraints hold in what it leaves, and
\* what it answers is read there.
TakeEffect ==
  /\ status = "pending" /\ status' = "answered"
  /\ UNCHANGED <<request, given>>
  /\ db' = Effect(db, request, given)
  /\ Constrained(db')
Serve == TakeEffect /\ reply' = Answer(db', request, given)

\* Or it is refused, and nothing happens.
Refused ==
  /\ status = "pending" /\ status' = "refused"
  /\ UNCHANGED <<request, given, db>>

ApiNext == Serve \/ ((OthersWrite \/ Refused) /\ UNCHANGED reply)
ApiSpec == ApiInit /\ [][ApiNext]_apiVars

\* The same for whoever sees the database only.
EffectNext == OthersWrite \/ TakeEffect \/ Refused
EffectSpec == status = "pending" /\ [][EffectNext]_<<request, given, db, status>>
=============================================================================
