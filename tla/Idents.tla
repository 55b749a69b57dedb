------------------------------- MODULE Idents -------------------------------
(***************************************************************************)
(* Ciboulette2PgSafeIdent: names that come from the store are checked and  *)
(* escaped once, prefixed, suffixed and numbered afterwards, and printed   *)
(* between quotes wherever a table or a column is named. A text is a       *)
(* sequence of characters, printed text is read as Postgres reads it.      *)
(***************************************************************************)
EXTENDS Integers, Sequences, SequencesExt, FiniteSetsExt

CONSTANTS
  Char,     \* the characters there are
  Text,     \* the names types, columns and fields may have
  Ascii,    \* the characters that are ASCII, NUL included
  Limit,    \* the bytes Postgres keeps of a name, 63
  MaxCtes,  \* how many CTEs are named
  Numeral   \* how a number is printed

ASSUME TextAssumption == Text \subseteq Seq(Char) /\ Ascii \subseteq Char
ASSUME LimitAssumption == Limit \in Nat /\ MaxCtes \in Nat

\* A number is printed in digits, and no two of them alike.
Digit == {"0", "1", "2", "3", "4", "5", "6", "7", "8", "9"}
ASSUME NumeralAssumption ==
  /\ Numeral \in [0..MaxCtes -> Seq(Digit)]
  /\ \A n \in 0..MaxCtes : Numeral[n] # <<>>
  /\ \A m, n \in 0..MaxCtes : Numeral[m] = Numeral[n] => m = n

Nul == "NUL"
Quote == "QUOTE"
NoNumber == -1

\* What the builder writes itself: quotes, digits and the letters of its names.
Letter == {"_", "a", "c", "d", "e", "f", "i", "l", "m", "n", "p", "r", "s", "t", "u"}
ASSUME CharAssumption == Letter \cup Digit \cup {Quote, Nul} \subseteq Char

VARIABLES
  given,  \* what the identifier is made from: [prefix, inner, suffix, index]
  ident,  \* the identifier
  err,    \* what refused a name, or "none"
  made    \* the names of the CTEs made so far

vars == <<given, ident, err, made>>

----------------------------------------------------------------------------
(* check_routine *)

CheckError(val) ==
  CASE Contains(val, Nul) -> "NullCharIdent"
    [] ~Contains(val, Nul) /\ ~(ToSet(val) \subseteq Ascii) -> "NonAsciiCharInIdent"
    [] OTHER -> "none"

Bug_Checked(val) == val
Checked(val) == FlattenSeq([i \in DOMAIN val |-> IF val[i] = Quote THEN <<Quote, Quote>> ELSE <<val[i]>>])

Ident(prefix, inner, suffix, index) ==
  [prefix |-> prefix, inner |-> inner, suffix |-> suffix, index |-> index]
Plain(inner) == Ident(<<>>, inner, <<>>, NoNumber)

----------------------------------------------------------------------------
(* to_writer *)

\* The parts that are there, joined with "_"; the inner one is always there.
Bug_ToWriter(id) ==
  (IF id.prefix = <<>> THEN <<>> ELSE id.prefix \o <<"_">>)
    \o id.inner
    \o (IF id.suffix = <<>> THEN <<>> ELSE <<"_">> \o id.suffix)
    \o (IF id.index = NoNumber \/ id.prefix # <<>> THEN <<>> ELSE <<"_">> \o Numeral[id.index])
ToWriter(id) ==
  (IF id.prefix = <<>> THEN <<>> ELSE id.prefix \o <<"_">>)
    \o id.inner
    \o (IF id.suffix = <<>> THEN <<>> ELSE <<"_">> \o id.suffix)
    \o (IF id.index = NoNumber THEN <<>> ELSE <<"_">> \o Numeral[id.index])

Quoted(text) == <<Quote>> \o text \o <<Quote>>

\* The prefixes and suffixes of CTEs, and the name of the final one.
CtePrefix == {<<>>, <<"r", "e", "l">>}
CteSuffix ==
  {<<"d", "a", "t", "a">>, <<"i", "n", "s", "e", "r", "t">>, <<"u", "p", "d", "a", "t", "e">>}
FinalName == <<"c", "t", "e", "_", "f", "i", "n", "a", "l", "_", "m", "a", "i", "n", "_", "d", "a", "t", "a">>

\* Ciboulette2PgTable::to_writer, of a CTE.
CteWriter(id) == <<"c", "t", "e", "_">> \o ToWriter(id)

----------------------------------------------------------------------------

Init ==
  /\ given = Plain(<<>>)
  /\ ident = Plain(<<>>)
  /\ err = "none"
  /\ made = <<>>

\* A name is accepted, or refused and nothing more is made of it.
Accept(text) ==
  err = "none" /\ CheckError(text) = "none" /\ UNCHANGED err
Refuse ==
  /\ err = "none"
  /\ \E text \in Text : CheckError(text) # "none" /\ err' = CheckError(text)
  /\ UNCHANGED <<given, ident, made>>

TryFrom ==
  /\ \E text \in Text : Accept(text) /\ given' = Plain(text) /\ ident' = Plain(Checked(text))
  /\ UNCHANGED made

\* add_modifier. The name of a table has none.
AddPrefix ==
  /\ made = <<>> /\ UNCHANGED made
  /\ \E text \in Text : /\ Accept(text)
                        /\ given' = [given EXCEPT !.prefix = text]
                        /\ ident' = [ident EXCEPT !.prefix = Checked(text)]
AddSuffix ==
  /\ made = <<>> /\ UNCHANGED made
  /\ \E text \in Text : /\ Accept(text)
                        /\ given' = [given EXCEPT !.suffix = text]
                        /\ ident' = [ident EXCEPT !.suffix = Checked(text)]
AddIndex ==
  /\ made = <<>> /\ err = "none" /\ UNCHANGED <<err, made>>
  /\ given' = [given EXCEPT !.index = 0]
  /\ ident' = [ident EXCEPT !.index = 0]

\* From<&Ciboulette2PgSafeIdent>: what was escaped is not escaped again.
Copy ==
  /\ err = "none" /\ UNCHANGED <<err, made>>
  /\ given' = Plain(given.inner)
  /\ ident' = Plain(ident.inner)

\* to_cte, from the table whose name the identifier is.
ToCte ==
  /\ err = "none" /\ Len(made) < MaxCtes
  /\ ident = Plain(ident.inner)
  /\ \E prefix \in CtePrefix, suffix \in CteSuffix :
       made' = Append(made, Quoted(CteWriter(Ident(prefix, ident.inner, suffix, Len(made)))))
  /\ UNCHANGED <<given, ident, err>>

Refused == err # "none" /\ UNCHANGED vars

Next == Refuse \/ TryFrom \/ AddPrefix \/ AddSuffix \/ AddIndex \/ Copy \/ ToCte \/ Refused
Spec == Init /\ [][Next]_vars

----------------------------------------------------------------------------
(* How Postgres reads a name *)

Quotes(text, n) == Cardinality({i \in 1..n : text[i] = Quote})
\* Where the name a text begins with ends: at the first quote that closes.
Ends(text) ==
  {i \in 2..Len(text) : /\ text[i] = Quote /\ Quotes(text, i) % 2 = 0
                        /\ i = Len(text) \/ text[i + 1] # Quote}
\* What is between the quotes, where two quotes are one, cut at the limit.
Name(text) ==
  FlattenSeq([i \in 1..Min(Ends(text)) |->
    IF i \in {1, Min(Ends(text))} \/ (text[i] = Quote /\ Quotes(text, i) % 2 = 1) THEN <<>> ELSE <<text[i]>>])
Cut(name) == IF Len(name) <= Limit THEN name ELSE SubSeq(name, 1, Limit)

----------------------------------------------------------------------------
(* Properties *)

\* However an identifier was put together, escaped parts and all, and whatever
\* characters its parts have, what is printed between quotes is one name, to
\* its last character, and it is the name that was given: a name with a quote
\* in it neither ends early nor comes back with two (check_routine,
\* add_modifier, to_writer).
ReadsBack ==
  LET printed == Quoted(ToWriter(ident)) IN
  /\ Ends(printed) # {} /\ Min(Ends(printed)) = Len(printed)
  /\ Name(printed) = ToWriter(given)

\* The CTEs of a statement, the final one included, have names Postgres tells
\* apart, whatever the types are called ("_", digits and all), unless it has to
\* cut one of them: the index comes last (to_cte, to_writer).
CtesApart ==
  LET names == Append([i \in DOMAIN made |-> Name(made[i])], FinalName) IN
  \A i, j \in DOMAIN names : i < j /\ Cut(names[i]) = Cut(names[j]) =>
    Len(names[i]) > Limit \/ Len(names[j]) > Limit
=============================================================================
