--------------------------- MODULE ExecutionClaims ---------------------------
(***************************************************************************)
(* What the documentation and the comments say of an executed request,     *)
(* where the program does otherwise. Every claim is checked by a run of    *)
(* its own.                                                                *)
(***************************************************************************)
EXTENDS ExecutionProperties

\* The type of the rows a label stands for: the name of a type, or a chain.
TypeOfLabel(label) ==
  IF \E t \in Type : label = <<t>> THEN CHOOSE t \in Type : label = <<t>>
  ELSE LET chains == UNION {{Prefix(c, i) : i \in 1..Len(c)} : c \in req.include \cup SortChains(req) \cup {req.path.rels}}
       IN RelatedType(Last(CHOOSE c \in chains : ChainLabel(c) = label))

\* "The first CTE will be the one applying the action of the request", "a
\* second CTE will be used to select the data modified by the first CTE", "After
\* that, all the required (either included or required for sorting)
\* relationships will be used" (src/lib.rs:27-31): a response has one version of
\* every resource, the one the action leaves.
OneVersion ==
  Answered => \A i, j \in DOMAIN rows :
    /\ rows[i].id = rows[j].id /\ TypeOfLabel(rows[i].type) = TypeOfLabel(rows[j].type)
    /\ rows[i].data # {} /\ rows[j].data # {}
    => rows[i].data = rows[j].data

\* "Fails if trying to delete a non optional many-to-one relationships"
\* (builder/delete/mod.rs:9): a deletion that is compiled is of an optional one.
DeletesOptionalOnes ==
  pc = "built" /\ req.op = "delete" /\ req.path.rels # <<>> => Relation[req.path.rels[1]].optional
=============================================================================
