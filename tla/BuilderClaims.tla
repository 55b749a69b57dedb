---------------------------- MODULE BuilderClaims ----------------------------
(***************************************************************************)
(* What the documentation and the comments say of the statements, where    *)
(* the builder does otherwise. Every claim is checked by a run of its own, *)
(* which finds a statement that refutes it.                                *)
(***************************************************************************)
EXTENDS BuilderPlan

\* "Select the relationships of the main data, including every included
\* relationships" (select/rel.rs:4): an included chain is answered, in every
\* response with the attributes of the main data.
IncludesAnswered ==
  pc = "built" /\ AskedOthers = {ChainSection(c) : c \in IncludedChains} =>
    \A c \in req.include : ChainLabel(c) \in {Sent[i].label : i \in DOMAIN Sent}

\* "Add the sorting key to the CTE table so that future table can reference
\* them" (select/sorting.rs:4-5): sorting by several links, or through a link
\* something is included by, gives a statement that resolves.
SortsResolve == DistinctSorts /\ SaysWhat /\ PlainKeys => StatementResolves

\* "Compare the primary key(s) of a table to the provided CibouletteId"
\* (builder/utils.rs:273): the comparisons of a filter make one condition.
FilterIsOneCondition ==
  pc = "built" => \A i \in StmtPositions : \A k \in DOMAIN buf[i].stmt.where :
                    k > 1 => buf[i].stmt.where[k].and

\* "The `id` of the resource it relates to" (src/lib.rs:24), "The identifier of
\* the resource, in TEXT format" (src/lib.rs:21): those two columns can be
\* computed, whatever the key of the types is.
IdentifiersResolve ==
  pc = "built" => \A i \in CtePositions :
    LET stmt == buf[i].stmt IN
    \A o \in DOMAIN stmt.outs : stmt.outs[o].name \in {Id, RelatedId} =>
      \A j \in DOMAIN stmt.outs[o].refs : Resolves(buf, stmt.outs[o].refs[j], Scope(stmt))

\* "If it relates to another relationship of the main data, it should contains
\* the relationship chain" (src/lib.rs:25), of the column related_type: rows that
\* are selected through the CTE of a relationship name the chain that leads to
\* that CTE.
RelatesToChain ==
  pc = "built" => \A i \in CtePositions : buf[i].stmt.q = "select" =>
    LET stmt == buf[i].stmt
        over == {j \in DOMAIN stmt.joins : stmt.joins[j].tbl.prefix = "rel"}
        out == CHOOSE o \in DOMAIN stmt.outs : stmt.outs[o].name = RelatedTypeCol
    IN \A j \in over : params[stmt.outs[out].params[1]].of = LabelOf(stmt.joins[j].tbl)
=============================================================================
