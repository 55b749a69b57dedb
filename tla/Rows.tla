-------------------------------- MODULE Rows --------------------------------
(***************************************************************************)
(* Ciboulette2PgRow: the rows of an answer become the elements of a        *)
(* ciboulette response. An identifier is a sequence of characters.         *)
(***************************************************************************)
EXTENDS Integers, Sequences, SequencesExt, FiniteSetsExt

Bug_UrlSafe(c) ==
  CASE c \in {"/", "+"} -> <<"_">> [] c \in {"\n", " "} -> <<>> [] OTHER -> <<c>>
\* What a character of an identifier becomes once one of them has to change.
UrlSafe(c) ==
  CASE c = "/" -> <<"_">> [] c = "+" -> <<"-">> [] c \in {"\n", " "} -> <<>> [] OTHER -> <<c>>

\* check_identifier_routine: the characters before `begins_at` are copied.
CheckIdentifierRoutine(begins_at, id) ==
  SubSeq(id, 1, begins_at - 1)
    \o FlattenSeq([i \in 1..(Len(id) - begins_at + 1) |-> UrlSafe(id[begins_at + i - 1])])

\* check_identifier: a space alone changes nothing.
CheckIdentifier(id) ==
  LET unsafe == {i \in DOMAIN id : id[i] \in {"/", "+", "\n"}} IN
  IF unsafe = {} THEN id ELSE CheckIdentifierRoutine(Min(unsafe), id)

\* One element for a row; a row is related when it has both the type and the
\* id of what it is related to.
Element(row) ==
  [id |-> CheckIdentifier(row.id), type |-> row.type, data |-> row.data,
   related |-> IF row.related_type = <<>> \/ row.related_id = <<>> THEN <<>>
               ELSE <<[type |-> row.related_type, id |-> row.related_id]>>]

BuildResponseElements(rows) == [i \in DOMAIN rows |-> Element(rows[i])]
=============================================================================
