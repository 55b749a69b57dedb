------------------------------ MODULE MCIdents ------------------------------
(***************************************************************************)
(* Names with every kind of character, names that look like what is put    *)
(* around them, and names as long as Postgres keeps them.                  *)
(***************************************************************************)
EXTENDS Idents

MCAscii == Letter \cup Digit \cup {Nul, Quote, "A", "-"}
MCNumeral == [n \in 0..MaxCtes |-> <<ToString(n)>>]
Long(n) == [i \in 1..n |-> "a"]
\* The character "e'" stands for one that is not ASCII.
MCChar == MCAscii \cup {"e'"}
MCText ==
  {<<>>, <<Quote>>, <<"a", Quote, Quote, "a">>, <<Quote, "a", "-">>, <<"A">>,
   <<"a">>, <<"a", "_", "d", "a", "t", "a">>, <<"f", "i", "n", "a", "l">>, <<"a", "_", "0">>,
   Long(54), <<"a", Nul>>, <<"a", "e'">>}
=============================================================================
