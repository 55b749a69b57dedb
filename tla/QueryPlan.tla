----------------------------- MODULE QueryPlan -----------------------------
(***************************************************************************)
(* What compiling a request promises, whatever the statement looks like:   *)
(* the request is refused before anything is answered, or answered with    *)
(* the sections it asks for, each of them once, the leading one first.     *)
(* A section is the rows of one relationship chain.                        *)
(***************************************************************************)
EXTENDS Naturals, Sequences, SequencesExt

VARIABLES
  lead,     \* the section that comes first, as a set of at most one
  others,   \* the other sections asked for
  sent,     \* the sections of the answer so far
  verdict   \* "pending", "answered" or "refused"

planVars == <<lead, others, sent, verdict>>

PlanInit ==
  /\ sent = <<>>
  /\ verdict = "pending"

\* One more section, that was not sent yet.
Send ==
  /\ verdict = "pending"
  /\ \E s \in (IF sent = <<>> THEN lead ELSE others) \ ToSet(sent) : sent' = Append(sent, s)
  /\ UNCHANGED <<lead, others, verdict>>

\* Nothing that was asked for is missing.
Answer ==
  /\ verdict = "pending"
  /\ ToSet(sent) = lead \cup others
  /\ verdict' = "answered"
  /\ UNCHANGED <<lead, others, sent>>

Refusal ==
  /\ verdict = "pending" /\ sent = <<>>
  /\ verdict' = "refused"
  /\ UNCHANGED <<lead, others, sent>>

PlanNext == Send \/ Answer \/ Refusal

PlanSpec == PlanInit /\ [][PlanNext]_planVars
=============================================================================
