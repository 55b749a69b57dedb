---------------------------- MODULE BuilderPlan ----------------------------
(***************************************************************************)
(* The builder implements QueryPlan: the sections a request asks for, and  *)
(* the sections the selects of the buffer send.                            *)
(***************************************************************************)
EXTENDS BuilderProperties

\* A section: the label of its rows and whether they carry attributes.
Section(label, t, data) ==
  [label |-> label, data |-> data /\ JsonFields(req.sparse, t, TRUE) # <<>>]

TypeSection(t) == Section(<<t>>, t, TRUE)
\* Included rows carry attributes, except those a bucket table refers to.
ChainSection(c) ==
  Section(ChainLabel(c), RelatedType(Last(c)),
          ~(IsManyToOne(Last(c)) /\ Relation[Last(c)].part_of_many_to_many))
LinkageSection(c) == Section(ChainLabel(c), RelatedType(Last(c)), FALSE)

ReadsRel == req.op = "read" /\ req.path.kind = "TypeIdRelationship"

\* A relationship path asks for linkage; a deletion asks for nothing.
AskedLead ==
  CASE req.op = "delete" -> {}
    [] ReadsRel \/ WritesRel -> {LinkageSection(req.path.rels)}
    [] OTHER -> {TypeSection(MainType(req.path))}

\* An included chain brings the chains it goes through; a write to a
\* relationship also answers with the row that was written.
IncludedChains == UNION {{Prefix(c, i) : i \in 1..Len(c)} : c \in req.include}
AskedOthers ==
  CASE WritesRel -> {TypeSection(req.path.type)}
    [] ReadsRel \/ req.op = "delete" -> {}
    [] OTHER -> {ChainSection(c) : c \in IncludedChains}

\* What a request has to be for its plan to be kept: a chain sorted by, and not
\* included, goes through no included rows (select_rels keeps one response type
\* for the rows of a chain, see the README); and what it asks for has labels of
\* its own, which the aliases of a store need not have.
SortsAside ==
  \A c \in SortChains(req) \ req.include : \A i \in 1..Len(c) : Prefix(c, i) \notin IncludedChains
LabelsApart ==
  /\ \A c, d \in IncludedChains : ChainLabel(c) = ChainLabel(d) => c = d
  /\ \A c \in IncludedChains : ChainLabel(c) # <<MainType(req.path)>>
  /\ WritesRel => ChainLabel(req.path.rels) # <<req.path.type>>

\* What a select sends: the rows of a data CTE, those of the main one through
\* the final CTE when they are sorted.
Source(tbl) == IF tbl.suffix = "final" THEN StmtOf(tbl).from ELSE tbl
SentSection(tbl) ==
  LET stmt == StmtOf(tbl)
      out == stmt.outs[CHOOSE i \in DOMAIN stmt.outs : stmt.outs[i].name = <<"data">>]
  IN [label |-> LabelOf(tbl), data |-> out.refs # <<>> \/ out.bare > 0]

Sent ==
  FlattenSeq([i \in DOMAIN buf |->
                IF buf[i].t = "select" THEN <<SentSection(Source(buf[i].tbl))>> ELSE <<>>])

Verdict ==
  CASE pc = "built" -> "answered" [] pc = "failed" -> "refused" [] OTHER -> "pending"

Plan == INSTANCE QueryPlan WITH
  lead <- AskedLead, others <- AskedOthers, sent <- Sent, verdict <- Verdict

\* The builder implements the plan: main data first, then every chain on the
\* way to what is included, once each and with its attributes; nothing that is
\* there only for the sorting or the joins; nothing missing when the statement
\* is handed over (select_rels, finish_request). The union of the selects is
\* one section after the other.
ImplementsPlan == Plan!PlanSpec

\* The generation comes to an end, with a statement or an error, for every
\* request: the loops of select_rels and finish_request run out of chains.
Ends == <>(pc \in {"built", "failed"})
=============================================================================
