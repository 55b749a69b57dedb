--------------------------- MODULE StatementProofs ---------------------------
(***************************************************************************)
(* For every store, table store and set of requests: the buffer is the     *)
(* beginning of a statement at every moment, and a whole one in the end;   *)
(* what a statement writes, and where.                                     *)
(***************************************************************************)
EXTENDS BuilderProofs

\* Tokens that may follow each other.
Chained(b) == \A i \in 2..Len(b) : Follows(b[i - 1].t, b[i].t)
Started(b) == b # <<>> => b[1].t \in {"with", "write"}

\* What each stage of the generation leaves at the end of the buffer: the
\* functions that write a statement's start end with a CTE, or write it whole;
\* select_rels ends with a CTE; finish_request with a select, and it has
\* nothing to add to a deletion.
Stages ==
  /\ pc = "start" => buf = <<>> /\ taken = NoChains
  /\ pc = "rels" => buf # <<>> /\ Last(buf).t = "cte"
  /\ pc = "finish" =>
       /\ buf # <<>> /\ Last(buf).t \in {"select", "write"}
       /\ Last(buf).t = "write" => taken = NoChains
  /\ pc = "built" => Last(buf).t = "semicolon"

PunctuationInv == Started(buf) /\ Chained(buf) /\ Stages

----------------------------------------------------------------------------
(* Buffers that grow *)

\* The tokens added follow each other, and the first of them the last one
\* before.
LEMMA ChainedConcat ==
  ASSUME NEW b, NEW toks, IsSeq(b), IsSeq(toks), toks # <<>>,
         Started(b), Chained(b), Chained(toks),
         b = <<>> => toks[1].t \in {"with", "write"},
         b # <<>> => Follows(Last(b).t, toks[1].t)
  PROVE  /\ Started(b \o toks) /\ Chained(b \o toks)
         /\ b \o toks # <<>> /\ Last(b \o toks) = Last(toks)
  <1> DEFINE c == b \o toks
  <1>1. /\ IsSeq(c)
        /\ Len(b) \in Nat /\ Len(toks) \in Nat
        /\ DOMAIN b = 1..Len(b) /\ DOMAIN toks = 1..Len(toks)
        /\ DOMAIN c = 1..(Len(b) + Len(toks))
        /\ \A i \in 1..Len(b) : c[i] = b[i]
        /\ \A i \in 1..Len(toks) : c[Len(b) + i] = toks[i]
    BY ConcatIsSeq
  <1>2. Len(c) = Len(b) + Len(toks)
    <2>1. Len(c) \in Nat /\ DOMAIN c = 1..Len(c)
      BY <1>1, LenProperties DEF IsSeq
    <2> QED
      BY <1>1, <2>1
  <1>3. Len(toks) > 0 /\ (b # <<>> => Len(b) > 0) /\ (b = <<>> => Len(b) = 0)
    <2>1. toks \in Seq(ToSet(toks)) /\ b \in Seq(ToSet(b))
      BY DEF IsSeq
    <2> QED
      BY <1>1, <2>1, EmptySeq
  <1> HIDE DEF c
  <1>4. Started(c)
    <2>1. CASE b = <<>>
      <3>1. c[1] = toks[1]
        BY <1>1, <1>3, <2>1
      <3> QED
        BY <2>1, <3>1 DEF Started
    <2>2. CASE b # <<>>
      <3>1. c[1] = b[1]
        BY <1>1, <1>3, <2>2
      <3> QED
        BY <2>2, <3>1 DEF Started
    <2> QED
      BY <2>1, <2>2
  <1>5. Chained(c)
    <2> SUFFICES ASSUME NEW i \in 2..Len(c) PROVE Follows(c[i - 1].t, c[i].t)
      BY DEF Chained
    <2>1. CASE i <= Len(b)
      <3>1. i \in 2..Len(b) /\ c[i] = b[i] /\ c[i - 1] = b[i - 1]
        BY <1>1, <2>1
      <3> QED
        BY <3>1 DEF Chained
    <2>2. CASE i = Len(b) + 1
      <3>1. b # <<>>
        BY <1>3, <2>2
      <3>2. c[i] = toks[1] /\ c[i - 1] = Last(b)
        BY <1>1, <1>3, <2>2, <3>1 DEF Last
      <3> QED
        BY <3>1, <3>2
    <2>3. CASE i > Len(b) + 1
      <3>1. i - Len(b) \in 2..Len(toks) /\ i - Len(b) - 1 \in 1..Len(toks)
        BY <1>1, <1>2, <2>3
      <3>2. c[i] = toks[i - Len(b)] /\ c[i - 1] = toks[i - Len(b) - 1]
        <4>1. Len(b) + (i - Len(b)) = i /\ Len(b) + (i - Len(b) - 1) = i - 1
          BY <1>1, <1>2
        <4>2. c[Len(b) + (i - Len(b))] = toks[i - Len(b)]
          BY <1>1, <3>1
        <4>3. c[Len(b) + (i - Len(b) - 1)] = toks[i - Len(b) - 1]
          BY <1>1, <3>1
        <4> QED
          BY <4>1, <4>2, <4>3
      <3> QED
        BY <3>1, <3>2 DEF Chained
    <2>4. i <= Len(b) \/ i = Len(b) + 1 \/ i > Len(b) + 1
      BY <1>1, <1>2
    <2> QED
      BY <2>1, <2>2, <2>3, <2>4
  <1>6. Last(c) = Last(toks) /\ c # <<>>
    <2>1. c[Len(c)] = toks[Len(toks)]
      BY <1>1, <1>2, <1>3
    <2>2. Len(c) > 0
      BY <1>1, <1>2, <1>3
    <2>3. c # <<>>
      BY <2>2
    <2> QED
      BY <2>1, <2>3 DEF Last
  <1> QED
    BY <1>4, <1>5, <1>6 DEF c

\* One token to four, each of which may follow the one before.
LEMMA OneToken ==
  ASSUME NEW a
  PROVE  IsSeq(<<a>>) /\ <<a>> # <<>> /\ Chained(<<a>>) /\ Last(<<a>>) = a /\ <<a>>[1] = a
  <1>1. IsSeq(<<a>>)
    BY TupleIsSeq
  <1>2. Chained(<<a>>) /\ Last(<<a>>) = a /\ <<a>> # <<>> /\ <<a>>[1] = a
    BY DEF Chained, Last
  <1> QED
    BY <1>1, <1>2

LEMMA TwoTokens ==
  ASSUME NEW a, NEW b, Follows(a.t, b.t)
  PROVE  /\ IsSeq(<<a, b>>) /\ <<a, b>> # <<>> /\ Chained(<<a, b>>)
         /\ Last(<<a, b>>) = b /\ <<a, b>>[1] = a
  <1>1. IsSeq(<<a, b>>)
    BY TupleIsSeq
  <1>2. Last(<<a, b>>) = b /\ <<a, b>> # <<>> /\ <<a, b>>[1] = a
    BY DEF Last
  <1>3. \A i \in 2..2 : i = 2
    OBVIOUS
  <1>4. Chained(<<a, b>>)
    BY <1>3 DEF Chained
  <1> QED
    BY <1>1, <1>2, <1>4

LEMMA ThreeTokens ==
  ASSUME NEW a, NEW b, NEW c, Follows(a.t, b.t), Follows(b.t, c.t)
  PROVE  /\ IsSeq(<<a, b, c>>) /\ <<a, b, c>> # <<>> /\ Chained(<<a, b, c>>)
         /\ Last(<<a, b, c>>) = c /\ <<a, b, c>>[1] = a
  <1>1. IsSeq(<<a, b, c>>)
    BY TupleIsSeq
  <1>2. Last(<<a, b, c>>) = c /\ <<a, b, c>> # <<>> /\ <<a, b, c>>[1] = a
    BY DEF Last
  <1>3. \A i \in 2..3 : i = 2 \/ i = 3
    OBVIOUS
  <1>4. Chained(<<a, b, c>>)
    BY <1>3 DEF Chained
  <1> QED
    BY <1>1, <1>2, <1>4

LEMMA FourTokens ==
  ASSUME NEW a, NEW b, NEW c, NEW d, Follows(a.t, b.t), Follows(b.t, c.t), Follows(c.t, d.t)
  PROVE  /\ IsSeq(<<a, b, c, d>>) /\ <<a, b, c, d>> # <<>> /\ Chained(<<a, b, c, d>>)
         /\ Last(<<a, b, c, d>>) = d /\ <<a, b, c, d>>[1] = a
  <1>1. IsSeq(<<a, b, c, d>>)
    BY TupleIsSeq
  <1>2. Last(<<a, b, c, d>>) = d /\ <<a, b, c, d>> # <<>> /\ <<a, b, c, d>>[1] = a
    BY DEF Last
  <1>3. \A i \in 2..4 : i = 2 \/ i = 3 \/ i = 4
    OBVIOUS
  <1>4. Chained(<<a, b, c, d>>)
    BY <1>3 DEF Chained
  <1> QED
    BY <1>1, <1>2, <1>4

\* The tokens of a statement that may follow each other.
LEMMA TokensFollow ==
  ASSUME NEW tbl, NEW stmt, NEW order, NEW other
  PROVE  /\ With.t = "with" /\ Comma.t = "comma" /\ Union.t = "union"
         /\ Cte(tbl, stmt).t = "cte" /\ Select(tbl, order).t = "select"
         /\ Semicolon.t = "semicolon" /\ Write(stmt).t = "write"
         /\ Follows(With.t, Cte(tbl, stmt).t) /\ Follows(Cte(tbl, stmt).t, Comma.t)
         /\ Follows(Comma.t, Cte(tbl, stmt).t) /\ Follows(Cte(tbl, stmt).t, Select(other, order).t)
         /\ Follows(Union.t, Select(tbl, order).t)
         /\ Follows("cte", Comma.t) /\ Follows("cte", Select(tbl, order).t)
         /\ Follows("select", Union.t)
         /\ Follows("select", Semicolon.t) /\ Follows("write", Semicolon.t)
  BY DEF With, Comma, Union, Semicolon, Cte, Select, Write, Follows

\* The buffer of the builder grows in order.
LEMMA BufferChained ==
  ASSUME IInv, PunctuationInv, NEW toks, IsSeq(toks), toks # <<>>, Chained(toks),
         buf = <<>> => toks[1].t \in {"with", "write"},
         buf # <<>> => Follows(Last(buf).t, toks[1].t),
         buf' = buf \o toks
  PROVE  /\ Started(buf') /\ Chained(buf')
         /\ buf' # <<>> /\ Last(buf') = Last(toks)
  <1>1. IsSeq(buf) /\ Started(buf) /\ Chained(buf)
    BY DEF IInv, BufferInv, PunctuationInv
  <1> QED
    BY <1>1, ChainedConcat

----------------------------------------------------------------------------
(* The steps *)

\* gen_select, gen_insert and gen_update start a statement: WITH, and one CTE
\* or two with a comma between them.
LEMMA FirstCte ==
  ASSUME NEW data, NEW stmt
  PROVE  LET toks == <<With, Cte(data, stmt)>> IN
         IsSeq(toks) /\ toks # <<>> /\ Chained(toks) /\ Last(toks).t = "cte" /\ toks[1].t = "with"
  <1>1. With.t = "with" /\ Cte(data, stmt).t = "cte" /\ Follows(With.t, Cte(data, stmt).t)
    BY TokensFollow
  <1> QED
    BY <1>1, TwoTokens

LEMMA FirstCtes ==
  ASSUME NEW row, NEW write, NEW data, NEW stmt
  PROVE  LET toks == <<With, Cte(row, write), Comma, Cte(data, stmt)>> IN
         IsSeq(toks) /\ toks # <<>> /\ Chained(toks) /\ Last(toks).t = "cte" /\ toks[1].t = "with"
  <1>1. /\ Follows(With.t, Cte(row, write).t) /\ Follows(Cte(row, write).t, Comma.t)
        /\ Follows(Comma.t, Cte(data, stmt).t) /\ Cte(data, stmt).t = "cte" /\ With.t = "with"
    BY TokensFollow
  <1> QED
    BY <1>1, FourTokens

LEMMA StartPunctuated ==
  ASSUME IInv, PunctuationInv, pc = "start",
         NEW toks, IsSeq(toks), toks # <<>>, Chained(toks), Last(toks).t = "cte", toks[1].t = "with",
         buf' = buf \o toks, pc' = "rels"
  PROVE  PunctuationInv'
  <1>1. buf = <<>>
    BY DEF PunctuationInv, Stages
  <1>2. Started(buf') /\ Chained(buf') /\ buf' # <<>> /\ Last(buf').t = "cte"
    BY <1>1, BufferChained
  <1> QED
    BY <1>2 DEF PunctuationInv, Stages, Started, Chained

LEMMA WriteThenSelectPunctuated ==
  ASSUME IInv, PunctuationInv, pc = "start",
         NEW t, NEW suffix, NEW stmt, NEW written, NEW additional, NEW map,
         WriteThenSelect(t, suffix, stmt, written, additional, map)
  PROVE  PunctuationInv'
  <1>1. PICK data, read, row, write : buf' = buf \o <<With, Cte(row, write), Comma, Cte(data, read)>>
    BY DEF WriteThenSelect
  <1>2. pc' = "rels"
    BY DEF WriteThenSelect, SelectRelsFrom
  <1> DEFINE toks == <<With, Cte(row, write), Comma, Cte(data, read)>>
  <1>3. IsSeq(toks) /\ toks # <<>> /\ Chained(toks) /\ Last(toks).t = "cte" /\ toks[1].t = "with"
    BY FirstCtes
  <1> QED
    BY <1>1, <1>2, <1>3, StartPunctuated

LEMMA GenPunctuated ==
  ASSUME IInv, PunctuationInv,
         GenSelect \/ GenSelectRelationships \/ GenInsert \/ GenUpdateMain \/ GenUpdateRel
  PROVE  PunctuationInv'
  <1>1. CASE GenSelect
    <2>1. PICK data, stmt : buf' = buf \o <<With, Cte(data, stmt)>>
      BY <1>1 DEF GenSelect
    <2>2. pc = "start" /\ pc' = "rels"
      BY <1>1 DEF GenSelect, SelectRelsFrom
    <2> DEFINE toks == <<With, Cte(data, stmt)>>
    <2>3. IsSeq(toks) /\ toks # <<>> /\ Chained(toks) /\ Last(toks).t = "cte" /\ toks[1].t = "with"
      BY FirstCte
    <2> QED
      BY <2>1, <2>2, <2>3, StartPunctuated
  <1>2. CASE GenSelectRelationships
    <2>1. PICK data, stmt, owner, linked :
            buf' = buf \o <<With, Cte(data, stmt), Comma, Cte(owner, linked)>>
      BY <1>2 DEF GenSelectRelationships
    <2>2. pc = "start" /\ pc' = "rels"
      BY <1>2 DEF GenSelectRelationships, SelectRelsFrom
    <2> DEFINE toks == <<With, Cte(data, stmt), Comma, Cte(owner, linked)>>
    <2>3. IsSeq(toks) /\ toks # <<>> /\ Chained(toks) /\ Last(toks).t = "cte" /\ toks[1].t = "with"
      BY FirstCtes
    <2> QED
      BY <2>1, <2>2, <2>3, StartPunctuated
  <1>3. CASE GenInsert
    BY <1>3, WriteThenSelectPunctuated DEF GenInsert
  <1>4. CASE GenUpdateMain
    BY <1>4, WriteThenSelectPunctuated DEF GenUpdateMain
  <1>5. CASE GenUpdateRel
    BY <1>5, WriteThenSelectPunctuated DEF GenUpdateRel
  <1> QED
    BY <1>1, <1>2, <1>3, <1>4, <1>5

\* A deletion is written whole, and finish_request adds nothing to it.
LEMMA DeletePunctuated ==
  ASSUME IInv, PunctuationInv, GenDeleteNormal \/ GenDeleteRel
  PROVE  PunctuationInv'
  <1>1. PICK stmt : WriteOnly(stmt)
    BY DEF GenDeleteNormal, GenDeleteRel
  <1>2. pc = "start" /\ buf = <<>> /\ taken = NoChains
    BY DEF GenDeleteNormal, GenDeleteRel, PunctuationInv, Stages
  <1> DEFINE toks == <<Write(stmt)>>
  <1>3. /\ IsSeq(toks) /\ toks # <<>> /\ Chained(toks)
        /\ Last(toks) = Write(stmt) /\ toks[1] = Write(stmt) /\ Write(stmt).t = "write"
    BY OneToken, TokensFollow
  <1>4. buf' = buf \o toks /\ pc' = "finish" /\ taken' = NoChains
    BY <1>1, <1>2 DEF WriteOnly
  <1> HIDE DEF toks
  <1>5. Started(buf') /\ Chained(buf') /\ buf' # <<>> /\ Last(buf').t = "write"
    BY <1>2, <1>3, <1>4, BufferChained
  <1> QED
    BY <1>4, <1>5 DEF PunctuationInv, Stages, Started, Chained

\* select_rels: a comma and a CTE after a CTE.
LEMMA SelectRelPunctuated ==
  ASSUME IInv, PunctuationInv, SelectRel
  PROVE  PunctuationInv'
  <1>1. PICK tbl, stmt : buf' = buf \o <<Comma, Cte(tbl, stmt)>>
    BY DEF SelectRel
  <1> DEFINE toks == <<Comma, Cte(tbl, stmt)>>
  <1>2. /\ Cte(tbl, stmt).t = "cte"
        /\ Follows("cte", Comma.t) /\ Follows(Comma.t, Cte(tbl, stmt).t)
    BY TokensFollow
  <1>3. /\ IsSeq(toks) /\ toks # <<>> /\ Chained(toks)
        /\ Last(toks) = Cte(tbl, stmt) /\ toks[1] = Comma
    BY <1>2, TwoTokens
  <1>4. pc = "rels" /\ pc' = "rels" /\ buf # <<>> /\ Last(buf).t = "cte"
    BY DEF SelectRel, PunctuationInv, Stages
  <1> HIDE DEF toks
  <1>5. Started(buf') /\ Chained(buf') /\ buf' # <<>> /\ Last(buf').t = "cte"
    BY <1>1, <1>2, <1>3, <1>4, BufferChained DEF toks
  <1> QED
    BY <1>4, <1>5 DEF PunctuationInv, Stages, Started, Chained

\* finish_request: the main select, after the final CTE when it is sorted.
LEMMA FinishMainPunctuated ==
  ASSUME IInv, PunctuationInv, FinishMain \/ FinishMainSorted
  PROVE  PunctuationInv'
  <1>1. pc = "rels" /\ pc' = "finish" /\ buf # <<>> /\ Last(buf).t = "cte"
    BY DEF FinishMain, FinishMainSorted, RelsDone, TakeWorkingTables, PunctuationInv, Stages
  <1>2. Follows("cte", "select") /\ Follows("cte", "comma")
    BY DEF Follows
  <1>3. PICK toks :
          /\ buf' = buf \o toks /\ IsSeq(toks) /\ toks # <<>> /\ Chained(toks)
          /\ Last(toks).t = "select" /\ toks[1].t \in {"select", "comma"}
    <2>1. CASE FinishMain
      <3> DEFINE toks == <<Select(Selected, <<>>)>>
      <3>1. Select(Selected, <<>>).t = "select"
        BY DEF Select
      <3>2. /\ IsSeq(toks) /\ toks # <<>> /\ Chained(toks)
            /\ Last(toks) = Select(Selected, <<>>) /\ toks[1] = Select(Selected, <<>>)
        BY OneToken
      <3>3. buf' = buf \o toks
        BY <2>1 DEF FinishMain
      <3> QED
        BY <3>1, <3>2, <3>3
    <2>2. CASE FinishMainSorted
      <3>1. PICK tbl, stmt, order : buf' = buf \o <<Comma, Cte(tbl, stmt), Select(tbl, order)>>
        BY <2>2 DEF FinishMainSorted
      <3> DEFINE toks == <<Comma, Cte(tbl, stmt), Select(tbl, order)>>
      <3>2. /\ Comma.t = "comma" /\ Select(tbl, order).t = "select"
            /\ Follows(Comma.t, Cte(tbl, stmt).t) /\ Follows(Cte(tbl, stmt).t, Select(tbl, order).t)
        BY TokensFollow
      <3>3. /\ IsSeq(toks) /\ toks # <<>> /\ Chained(toks)
            /\ Last(toks) = Select(tbl, order) /\ toks[1] = Comma
        BY <3>2, ThreeTokens
      <3> QED
        BY <3>1, <3>2, <3>3
    <2> QED
      BY <2>1, <2>2
  <1>4. Started(buf') /\ Chained(buf') /\ buf' # <<>> /\ Last(buf').t = "select"
    BY <1>1, <1>2, <1>3, BufferChained
  <1> QED
    BY <1>1, <1>4 DEF PunctuationInv, Stages, Started, Chained

\* A working table adds UNION ALL and a select, or nothing; there are none
\* when a deletion was written.
LEMMA FinishTablePunctuated ==
  ASSUME IInv, PunctuationInv, FinishTable
  PROVE  PunctuationInv'
  <1>1. pc = "finish" /\ pc' = "finish" /\ buf # <<>> /\ Last(buf).t \in {"select", "write"}
    BY DEF FinishTable, PunctuationInv, Stages
  <1>2. PICK c \in DOMAIN taken :
          buf' = IF taken[c].resp = "None" THEN buf ELSE buf \o <<Union, Select(taken[c].tbl, <<>>)>>
    BY DEF FinishTable
  <1>3. Last(buf).t = "select"
    BY <1>1, <1>2, EmptyMap DEF PunctuationInv, Stages
  <1>4. Started(buf') /\ Chained(buf') /\ buf' # <<>> /\ Last(buf').t = "select"
    <2>1. CASE taken[c].resp = "None"
      BY <1>1, <1>2, <1>3, <2>1 DEF PunctuationInv, Started, Chained
    <2>2. CASE taken[c].resp # "None"
      <3> DEFINE sel == Select(taken[c].tbl, <<>>)
                 toks == <<Union, sel>>
      <3>1. sel.t = "select" /\ Follows(Union.t, sel.t) /\ Follows("select", Union.t)
        BY TokensFollow
      <3> HIDE DEF sel
      <3>2. /\ IsSeq(toks) /\ toks # <<>> /\ Chained(toks) /\ Last(toks) = sel /\ toks[1] = Union
        BY <3>1, TwoTokens
      <3>3. buf' = buf \o toks
        BY <1>2, <2>2 DEF sel
      <3> HIDE DEF toks
      <3> QED
        BY <1>1, <1>3, <3>1, <3>2, <3>3, BufferChained
    <2> QED
      BY <2>1, <2>2
  <1> QED
    BY <1>1, <1>4 DEF PunctuationInv, Stages, Started, Chained

LEMMA BuildPunctuated ==
  ASSUME IInv, PunctuationInv, Build
  PROVE  PunctuationInv'
  <1> DEFINE toks == <<Semicolon>>
  <1>1. /\ Semicolon.t = "semicolon"
        /\ Follows("select", Semicolon.t) /\ Follows("write", Semicolon.t)
    BY TokensFollow
  <1>2. /\ IsSeq(toks) /\ toks # <<>> /\ Chained(toks) /\ Last(toks) = Semicolon /\ toks[1] = Semicolon
    BY OneToken
  <1>3. /\ buf # <<>> /\ Last(buf).t \in {"select", "write"}
        /\ buf' = buf \o toks /\ pc' = "built"
    BY DEF Build, PunctuationInv, Stages
  <1> HIDE DEF toks
  <1>4. Started(buf') /\ Chained(buf') /\ Last(buf').t = "semicolon"
    BY <1>1, <1>2, <1>3, BufferChained
  <1> QED
    BY <1>3, <1>4 DEF PunctuationInv, Stages, Started, Chained

\* What writes nothing: refusals, the next entry of select_rels, stuttering.
LEMMA QuietPunctuated ==
  ASSUME PunctuationInv,
         Refuse \/ RefuseRel \/ RefuseSort \/ NextEntry \/ Terminated \/ UNCHANGED vars
  PROVE  PunctuationInv'
  <1>1. UNCHANGED <<buf, taken>> /\ (pc' = "failed" \/ pc' = pc)
    BY DEF Refuse, RefuseRel, RefuseSort, Fail, NextEntry, Terminated, vars
  <1> QED
    BY <1>1 DEF PunctuationInv, Stages, Started, Chained

LEMMA InitPunctuated == Init => PunctuationInv
  BY DEF Init, PunctuationInv, Stages, Started, Chained

LEMMA NextPunctuated ==
  ASSUME IInv, PunctuationInv, [Next]_vars
  PROVE  PunctuationInv'
  <1>1. CASE GenSelect \/ GenSelectRelationships \/ GenInsert \/ GenUpdateMain \/ GenUpdateRel
    BY <1>1, GenPunctuated
  <1>2. CASE GenDeleteNormal \/ GenDeleteRel
    BY <1>2, DeletePunctuated
  <1>3. CASE SelectRel
    BY <1>3, SelectRelPunctuated
  <1>4. CASE FinishMain \/ FinishMainSorted
    BY <1>4, FinishMainPunctuated
  <1>5. CASE FinishTable
    BY <1>5, FinishTablePunctuated
  <1>6. CASE Build
    BY <1>6, BuildPunctuated
  <1>7. CASE Refuse \/ RefuseRel \/ RefuseSort \/ NextEntry \/ Terminated \/ UNCHANGED vars
    BY <1>7, QuietPunctuated
  <1> QED
    BY <1>1, <1>2, <1>3, <1>4, <1>5, <1>6, <1>7 DEF Next

LEMMA PunctuationSuffices == PunctuationInv => Punctuated
  BY DEF PunctuationInv, Stages, Started, Chained, Punctuated

----------------------------------------------------------------------------
(* The theorem *)

\* Whatever functions write a statement, and in whatever order the relationships
\* are followed, commas stand between the CTEs, UNION ALL between the selects,
\* and a statement that is handed over is whole (select_rels, finish_request,
\* build).
THEOREM StatementsPunctuated == Spec => []Punctuated
  <1>1. IInv /\ PunctuationInv /\ [Next]_vars => PunctuationInv'
    BY NextPunctuated
  <1> QED
    BY <1>1, InitPunctuated, PunctuationSuffices, Invariant, PTL DEF Spec

----------------------------------------------------------------------------
(* What a statement writes, and where *)

\* The tokens that write, and those that only read.
Writing(tok) == tok.t \in {"cte", "write"} /\ tok.stmt.q \in {"insert", "update", "delete"}
Reading(toks) == \A i \in DOMAIN toks : ~Writing(toks[i])

\* A step that writes one statement, and one that only reads.
WritesFirst(stmt) ==
  /\ req' = req
  /\ \E toks, k :
       /\ IsSeq(toks) /\ buf' = buf \o toks
       /\ k \in DOMAIN toks /\ toks[k].t \in {"cte", "write"} /\ toks[k].stmt = stmt
       /\ \A i \in DOMAIN toks : Writing(toks[i]) => i = k
ReadsOn ==
  /\ req' = req
  /\ \E toks : IsSeq(toks) /\ Reading(toks) /\ buf' = buf \o toks

----------------------------------------------------------------------------
(* Tokens *)

\* A select, and the final CTE, are not writes.
LEMMA ReadingTokens ==
  ASSUME NEW tbl, NEW from, NEW outs, NEW joins, NEW sets, NEW where, NEW order
  PROVE  /\ ~Writing(With) /\ ~Writing(Comma) /\ ~Writing(Union) /\ ~Writing(Semicolon)
         /\ ~Writing(Select(tbl, order))
         /\ \A q \in {"select", "star", "final"} :
              ~Writing(Cte(tbl, Stmt(q, from, outs, joins, sets, where)))
  BY DEF Writing, With, Comma, Union, Semicolon, Select, Cte, Stmt

LEMMA ReadingSeq ==
  ASSUME NEW a, NEW b, NEW c, NEW d, ~Writing(a), ~Writing(b), ~Writing(c), ~Writing(d)
  PROVE  /\ IsSeq(<<a>>) /\ Reading(<<a>>)
         /\ IsSeq(<<a, b>>) /\ Reading(<<a, b>>)
         /\ IsSeq(<<a, b, c>>) /\ Reading(<<a, b, c>>)
         /\ IsSeq(<<a, b, c, d>>) /\ Reading(<<a, b, c, d>>)
  <1>1. /\ IsSeq(<<a>>) /\ IsSeq(<<a, b>>) /\ IsSeq(<<a, b, c>>) /\ IsSeq(<<a, b, c, d>>)
        /\ DOMAIN <<a>> = {1} /\ DOMAIN <<a, b>> = {1, 2} /\ DOMAIN <<a, b, c>> = {1, 2, 3}
        /\ DOMAIN <<a, b, c, d>> = {1, 2, 3, 4}
    BY TupleIsSeq
  <1>2. Reading(<<a>>) /\ Reading(<<a, b>>)
    BY <1>1 DEF Reading
  <1>3. Reading(<<a, b, c>>) /\ Reading(<<a, b, c, d>>)
    BY <1>1 DEF Reading
  <1> QED
    BY <1>1, <1>2, <1>3

\* compare_pkey compares every column of the key, once each.
LEMMA ComparesKey ==
  ASSUME NEW tbl, tbl.type \in Type, NEW n, NEW q, NEW outs, NEW joins, NEW sets
  PROVE  FiltersOnKey(Stmt(q, tbl, outs, joins, sets, ComparePkey(tbl, n)))
  <1> DEFINE pk == PrimaryKey(tbl.type)
             where == ComparePkey(tbl, n)
  <1>1. pk \in Seq([kind : IdKind, col : Ident])
    BY ResourceAssumption DEF PrimaryKey
  <1>2. Len(pk) \in Nat /\ DOMAIN pk = 1..Len(pk)
    BY <1>1, LenProperties
  <1>3. DOMAIN where = DOMAIN pk /\ \A k \in DOMAIN pk : where[k].ref.col = pk[k].col
    BY DEF ComparePkey, Ref
  <1>4. where = [k \in 1..Len(pk) |-> where[k]]
    BY <1>2 DEF ComparePkey
  <1> DEFINE S == {where[k] : k \in 1..Len(pk)}
  <1>5. where \in [1..Len(pk) -> S]
    BY <1>4
  <1>6. where \in Seq(S)
    BY <1>2, <1>5, SeqDef
  <1>7. Len(where) \in Nat /\ DOMAIN where = 1..Len(where)
    BY <1>6, LenProperties
  <1>8. Len(where) = Len(pk)
    BY <1>2, <1>3, <1>7
  <1>9. {where[k].ref.col : k \in DOMAIN where} = {pk[k].col : k \in DOMAIN pk}
    BY <1>3
  <1> HIDE DEF where
  <1>10. Stmt(q, tbl, outs, joins, sets, where).where = where
    BY DEF Stmt
  <1>11. Stmt(q, tbl, outs, joins, sets, where).from = tbl
    BY DEF Stmt
  <1> QED
    BY <1>8, <1>9, <1>10, <1>11 DEF FiltersOnKey, where

----------------------------------------------------------------------------
(* Buffers that grow *)

\* Where a buffer of the builder writes.
LEMMA WhereItWrites ==
  ASSUME IInv, NEW toks, IsSeq(toks), buf' = buf \o toks
  PROVE  /\ \A i \in WritePositions' :
              \/ i \in WritePositions /\ buf'[i] = buf[i]
              \/ /\ i - Len(buf) \in DOMAIN toks
                 /\ buf'[i] = toks[i - Len(buf)]
                 /\ Writing(toks[i - Len(buf)])
         /\ \A i \in WritePositions' : i \in Int
         /\ \A i \in WritePositions : i \in WritePositions'
         /\ \A i \in DOMAIN toks : Writing(toks[i]) => Len(buf) + i \in WritePositions'
         /\ Len(buf) \in Nat
  <1>1. /\ Len(buf) \in Nat /\ Len(toks) \in Nat
        /\ DOMAIN buf = 1..Len(buf) /\ DOMAIN toks = 1..Len(toks)
        /\ DOMAIN buf' = 1..(Len(buf) + Len(toks))
        /\ \A i \in 1..Len(buf) : buf'[i] = buf[i]
        /\ \A i \in 1..Len(toks) : buf'[Len(buf) + i] = toks[i]
    BY ConcatIsSeq DEF IInv, BufferInv
  <1>5. \A i \in WritePositions : i \in WritePositions'
    BY <1>1 DEF WritePositions, StmtPositions, Positions
  <1>6. \A i \in DOMAIN toks : Writing(toks[i]) => Len(buf) + i \in WritePositions'
    BY <1>1 DEF WritePositions, StmtPositions, Positions, Writing
  <1> SUFFICES ASSUME NEW i \in WritePositions'
               PROVE  /\ \/ i \in WritePositions /\ buf'[i] = buf[i]
                         \/ /\ i - Len(buf) \in DOMAIN toks
                            /\ buf'[i] = toks[i - Len(buf)]
                            /\ Writing(toks[i - Len(buf)])
                      /\ i \in Int
    BY <1>1, <1>5, <1>6
  <1>2. i \in DOMAIN buf' /\ Writing(buf'[i])
    BY DEF WritePositions, StmtPositions, Positions, Writing
  <1>3. CASE i <= Len(buf)
    <2>1. i \in DOMAIN buf /\ buf'[i] = buf[i]
      BY <1>1, <1>2, <1>3
    <2> QED
      BY <1>1, <1>2, <2>1 DEF WritePositions, StmtPositions, Positions, Writing
  <1>4. CASE i > Len(buf)
    <2>1. i - Len(buf) \in 1..Len(toks) /\ Len(buf) + (i - Len(buf)) = i
      BY <1>1, <1>2, <1>4
    <2>2. buf'[i] = toks[i - Len(buf)]
      BY <1>1, <2>1
    <2> QED
      BY <1>1, <1>2, <2>1, <2>2
  <1> QED
    BY <1>1, <1>2, <1>3, <1>4

----------------------------------------------------------------------------
(* What the steps write *)

LEMMA TokensRead ==
  ASSUME NEW toks, IsSeq(toks), Reading(toks), buf' = buf \o toks, req' = req
  PROVE  ReadsOn
  BY DEF ReadsOn

LEMMA GenSelectReads ==
  ASSUME GenSelect \/ GenSelectRelationships
  PROVE  pc = "start" /\ req.op = "read" /\ ReadsOn
  <1>1. pc = "start" /\ req.op = "read" /\ req' = req
    BY DEF GenSelect, GenSelectRelationships, SelectRelsFrom
  <1>2. CASE GenSelect
    <2>1. PICK tbl, from, outs, joins, sets, where :
            buf' = buf \o <<With, Cte(tbl, Stmt("select", from, outs, joins, sets, where))>>
      BY <1>2 DEF GenSelect
    <2> DEFINE cte == Cte(tbl, Stmt("select", from, outs, joins, sets, where))
               toks == <<With, cte>>
    <2>2. ~Writing(With) /\ ~Writing(cte)
      BY ReadingTokens
    <2> HIDE DEF cte
    <2>3. IsSeq(toks) /\ Reading(toks)
      BY <2>2, ReadingSeq
    <2>4. buf' = buf \o toks
      BY <2>1 DEF cte
    <2> HIDE DEF toks
    <2> QED
      BY <1>1, <2>3, <2>4, TokensRead
  <1>3. CASE GenSelectRelationships
    <2>1. PICK tbl, outs, joins, where, tbl2, outs2, where2 :
            buf' = buf \o <<With, Cte(tbl, Stmt("select", MainTable, outs, joins, <<>>, where)),
                            Comma, Cte(tbl2, Stmt("select", PathTable, outs2, <<>>, <<>>, where2))>>
      BY <1>3 DEF GenSelectRelationships
    <2> DEFINE cte == Cte(tbl, Stmt("select", MainTable, outs, joins, <<>>, where))
               owner == Cte(tbl2, Stmt("select", PathTable, outs2, <<>>, <<>>, where2))
               toks == <<With, cte, Comma, owner>>
    <2>2. ~Writing(With) /\ ~Writing(cte) /\ ~Writing(Comma) /\ ~Writing(owner)
      BY ReadingTokens
    <2> HIDE DEF cte, owner
    <2>3. IsSeq(toks) /\ Reading(toks)
      BY <2>2, ReadingSeq
    <2>4. buf' = buf \o toks
      BY <2>1 DEF cte, owner
    <2> HIDE DEF toks
    <2> QED
      BY <1>1, <2>3, <2>4, TokensRead
  <1> QED
    BY <1>2, <1>3

\* The row that is written, or read when there is nothing to write, and the
\* data CTE, which is never a write.
LEMMA WriteThenSelectFirst ==
  ASSUME NEW t, NEW suffix, NEW stmt, NEW written, NEW additional, NEW map,
         WriteThenSelect(t, suffix, stmt, written, additional, map)
  PROVE  WritesFirst(stmt)
  <1>1. PICK row, tbl, from, outs, joins, sets, where :
          buf' = buf \o <<With, Cte(row, stmt), Comma,
                          Cte(tbl, Stmt("select", from, outs, joins, sets, where))>>
    BY DEF WriteThenSelect
  <1>2. req' = req
    BY DEF WriteThenSelect, SelectRelsFrom
  <1> DEFINE first == Cte(row, stmt)
             data == Cte(tbl, Stmt("select", from, outs, joins, sets, where))
             toks == <<With, first, Comma, data>>
  <1>3. ~Writing(With) /\ ~Writing(Comma) /\ ~Writing(data)
    BY ReadingTokens
  <1>4. first.t = "cte" /\ first.stmt = stmt
    BY DEF Cte
  <1> HIDE DEF first, data
  <1>5. IsSeq(toks) /\ DOMAIN toks = {1, 2, 3, 4}
    BY TupleIsSeq
  <1>6. /\ \A i \in DOMAIN toks : Writing(toks[i]) => i = 2
        /\ 2 \in DOMAIN toks /\ toks[2].t = "cte" /\ toks[2].stmt = stmt
    BY <1>3, <1>4, <1>5
  <1>7. buf' = buf \o toks
    BY <1>1 DEF first, data
  <1> HIDE DEF toks
  <1> QED
    BY <1>2, <1>5, <1>6, <1>7 DEF WritesFirst

LEMMA WriteOnlyFirst ==
  ASSUME NEW stmt, WriteOnly(stmt)
  PROVE  WritesFirst(stmt)
  <1>1. req' = req /\ buf' = buf \o <<Write(stmt)>>
    BY DEF WriteOnly
  <1>2. Write(stmt).t = "write" /\ Write(stmt).stmt = stmt
    BY DEF Write
  <1> DEFINE toks == <<Write(stmt)>>
  <1>3. IsSeq(toks) /\ DOMAIN toks = {1} /\ toks[1] = Write(stmt)
    BY TupleIsSeq
  <1>4. buf' = buf \o toks
    BY <1>1
  <1> HIDE DEF toks
  <1> QED
    BY <1>1, <1>2, <1>3, <1>4 DEF WritesFirst

LEMMA UpdateIs ==
  ASSUME NEW tbl, NEW values
  PROVE  LET stmt == UpdateStmt(tbl, values) IN
         stmt.q = "update" /\ stmt.from = tbl /\ stmt.sets = SetList(values, 0)
  BY DEF UpdateStmt, Stmt

\* What each request writes, when it writes.
LEMMA GenInsertFirst ==
  ASSUME GenInsert
  PROVE  /\ pc = "start" /\ pc' = "rels" /\ req.op = "create" /\ InsertError = "none"
         /\ WritesFirst(Stmt("insert", MainTable, <<>>, <<>>,
                             SetList(ExtractData(req.body, MainTable.type).values, 0), <<>>))
  <1>1. PICK written, additional, map :
          WriteThenSelect(MainTable.type, "insert",
                          Stmt("insert", MainTable, <<>>, <<>>,
                               SetList(ExtractData(req.body, MainTable.type).values, 0), <<>>),
                          written, additional, map)
    BY DEF GenInsert
  <1>2. pc = "start" /\ pc' = "rels" /\ req.op = "create" /\ InsertError = "none"
    BY DEF GenInsert, WriteThenSelect, SelectRelsFrom
  <1> QED
    BY <1>1, <1>2, WriteThenSelectFirst

LEMMA GenUpdateMainFirst ==
  ASSUME IInv, GenUpdateMain
  PROVE  /\ pc = "start" /\ pc' = "rels" /\ WritesMain /\ UpdateMainError = "none"
         /\ MainTable = PathTable
         /\ LET values == ExtractData(req.body, MainTable.type).values IN
            WritesFirst(IF values = <<>>
                        THEN Stmt("star", MainTable, <<>>, <<>>, <<>>, ComparePkey(MainTable, 0))
                        ELSE UpdateStmt(PathTable, values))
  <1>1. pc = "start" /\ pc' = "rels" /\ WritesMain /\ UpdateMainError = "none"
    BY DEF GenUpdateMain, WriteThenSelect, SelectRelsFrom
  <1>2. MainTable = PathTable
    <2>1. Len(req.path.rels) = 0 /\ req.path.rels \in Seq(Rel)
      BY <1>1 DEF IInv, IsRequest, IsChain, WritesMain
    <2>2. req.path.rels = <<>>
      BY <2>1, EmptySeq
    <2> QED
      BY <2>2 DEF MainTable, PathTable, MainType
  <1> DEFINE values == ExtractData(req.body, MainTable.type).values
             stmt == IF values = <<>>
                     THEN Stmt("star", MainTable, <<>>, <<>>, <<>>, ComparePkey(MainTable, 0))
                     ELSE UpdateStmt(MainTable, values)
  <1>3. PICK written, additional, map :
          WriteThenSelect(MainTable.type, "update", stmt, written, additional, map)
    BY DEF GenUpdateMain
  <1> HIDE DEF stmt
  <1>4. WritesFirst(stmt)
    BY <1>3, WriteThenSelectFirst
  <1> QED
    BY <1>1, <1>2, <1>4 DEF stmt

LEMMA GenUpdateRelFirst ==
  ASSUME GenUpdateRel
  PROVE  /\ pc = "start" /\ pc' = "rels" /\ WritesRel /\ UpdateRelError = "none"
         /\ WritesFirst(UpdateStmt(PathTable, ExtractRelData(PathRel, req.body.data).values))
  <1>1. PICK written, additional, map :
          WriteThenSelect(PathTable.type, "update",
                          UpdateStmt(PathTable, ExtractRelData(PathRel, req.body.data).values),
                          written, additional, map)
    BY DEF GenUpdateRel
  <1>2. pc = "start" /\ pc' = "rels" /\ WritesRel /\ UpdateRelError = "none"
    BY DEF GenUpdateRel, WriteThenSelect, SelectRelsFrom
  <1> QED
    BY <1>1, <1>2, WriteThenSelectFirst

LEMMA GenDeleteNormalFirst ==
  ASSUME GenDeleteNormal
  PROVE  /\ pc = "start" /\ pc' = "finish" /\ req.op = "delete" /\ req.path.rels = <<>>
         /\ WritesFirst(Stmt("delete", PathTable, <<>>, <<>>, <<>>, ComparePkey(PathTable, 0)))
  <1>1. /\ pc = "start" /\ pc' = "finish" /\ req.op = "delete" /\ req.path.rels = <<>>
        /\ WriteOnly(Stmt("delete", PathTable, <<>>, <<>>, <<>>, ComparePkey(PathTable, 0)))
    BY DEF GenDeleteNormal, WriteOnly
  <1> QED
    BY <1>1, WriteOnlyFirst

\* The alias stands for a relationship whose key the table of the path holds.
ClearsKey(r) ==
  Stmt("update", PathTable, <<>>, <<>>, <<[col |-> Relation[r].key, param |-> 0]>>, ComparePkey(PathTable, 0))

LEMMA GenDeleteRelFirst ==
  ASSUME GenDeleteRel
  PROVE  /\ pc = "start" /\ pc' = "finish" /\ req.op = "delete" /\ req.path.rels # <<>>
         /\ \E r \in AliasesTo(req.path.type, MainType(req.path)) :
              DeleteRelError(r) = "none" /\ WritesFirst(ClearsKey(r))
  <1>1. pc = "start" /\ pc' = "finish" /\ req.op = "delete" /\ req.path.rels # <<>>
    BY DEF GenDeleteRel, WriteOnly
  <1>2. PICK r \in AliasesTo(req.path.type, MainType(req.path)) :
          /\ DeleteRelError(r) = "none"
          /\ WriteOnly(Stmt("update", BaseTable(ManyResource(r)), <<>>, <<>>,
                            <<[col |-> Relation[r].key, param |-> 0]>>,
                            ComparePkey(BaseTable(ManyResource(r)), 0)))
    BY DEF GenDeleteRel
  <1>3. ManyResource(r) = req.path.type
    BY <1>2 DEF DeleteRelError
  <1>4. BaseTable(ManyResource(r)) = PathTable
    BY <1>3 DEF PathTable
  <1>5. WriteOnly(ClearsKey(r))
    BY <1>2, <1>4 DEF ClearsKey
  <1>6. WritesFirst(ClearsKey(r))
    BY <1>5, WriteOnlyFirst
  <1> QED
    BY <1>1, <1>2, <1>6

\* select_rels and finish_request only read.
LEMMA LaterReads ==
  ASSUME IInv, SelectRel \/ FinishMain \/ FinishMainSorted \/ FinishTable \/ Build
  PROVE  pc \in {"rels", "finish"} /\ pc' \in {"rels", "finish", "built"} /\ ReadsOn
  <1>1. pc \in {"rels", "finish"} /\ pc' \in {"rels", "finish", "built"} /\ req' = req
    BY DEF SelectRel, FinishMain, FinishMainSorted, FinishTable, Build, RelsDone, TakeWorkingTables
  <1>2. CASE SelectRel
    <2>1. PICK tbl, from, outs, joins, sets, where :
            buf' = buf \o <<Comma, Cte(tbl, Stmt("select", from, outs, joins, sets, where))>>
      BY <1>2 DEF SelectRel
    <2> DEFINE cte == Cte(tbl, Stmt("select", from, outs, joins, sets, where))
               toks == <<Comma, cte>>
    <2>2. ~Writing(Comma) /\ ~Writing(cte)
      BY ReadingTokens
    <2> HIDE DEF cte
    <2>3. IsSeq(toks) /\ Reading(toks)
      BY <2>2, ReadingSeq
    <2>4. buf' = buf \o toks
      BY <2>1 DEF cte
    <2> HIDE DEF toks
    <2> QED
      BY <1>1, <2>3, <2>4, TokensRead
  <1>3. CASE FinishMain
    <2>1. buf' = buf \o <<Select(Selected, <<>>)>>
      BY <1>3 DEF FinishMain
    <2>2. IsSeq(<<Select(Selected, <<>>)>>) /\ Reading(<<Select(Selected, <<>>)>>)
      BY ReadingTokens, ReadingSeq
    <2> QED
      BY <1>1, <2>1, <2>2, TokensRead
  <1>4. CASE FinishMainSorted
    <2>1. PICK tbl, from, outs, joins, sets, where, order :
            buf' = buf \o <<Comma, Cte(tbl, Stmt("final", from, outs, joins, sets, where)),
                            Select(tbl, order)>>
      BY <1>4 DEF FinishMainSorted, FinalStmt
    <2> DEFINE cte == Cte(tbl, Stmt("final", from, outs, joins, sets, where))
               sel == Select(tbl, order)
               toks == <<Comma, cte, sel>>
    <2>2. ~Writing(Comma) /\ ~Writing(cte) /\ ~Writing(sel)
      BY ReadingTokens
    <2> HIDE DEF cte, sel
    <2>3. IsSeq(toks) /\ Reading(toks)
      BY <2>2, ReadingSeq
    <2>4. buf' = buf \o toks
      BY <2>1 DEF cte, sel
    <2> HIDE DEF toks
    <2> QED
      BY <1>1, <2>3, <2>4, TokensRead
  <1>5. CASE FinishTable
    <2>1. PICK c \in DOMAIN taken :
            buf' = IF taken[c].resp = "None" THEN buf ELSE buf \o <<Union, Select(taken[c].tbl, <<>>)>>
      BY <1>5 DEF FinishTable
    <2>2. CASE taken[c].resp = "None"
      <3> DEFINE toks == <<>>
      <3>1. IsSeq(toks) /\ Reading(toks)
        <4>1. <<>> \in Seq({}) /\ DOMAIN <<>> = {}
          OBVIOUS
        <4> QED
          BY <4>1, SeqIsSeq DEF Reading
      <3>2. buf' = buf \o toks
        BY <2>1, <2>2, ConcatEmptySeq DEF IInv, BufferInv, IsSeq
      <3> HIDE DEF toks
      <3> QED
        BY <1>1, <3>1, <3>2, TokensRead
    <2>3. CASE taken[c].resp # "None"
      <3> DEFINE sel == Select(taken[c].tbl, <<>>)
                 toks == <<Union, sel>>
      <3>1. ~Writing(Union) /\ ~Writing(sel)
        BY ReadingTokens
      <3>2. buf' = buf \o toks
        BY <2>1, <2>3
      <3> HIDE DEF sel
      <3>3. IsSeq(toks) /\ Reading(toks)
        BY <3>1, ReadingSeq
      <3> HIDE DEF toks
      <3> QED
        BY <1>1, <3>2, <3>3, TokensRead
    <2> QED
      BY <2>2, <2>3
  <1>6. CASE Build
    <2>1. buf' = buf \o <<Semicolon>>
      BY <1>6 DEF Build
    <2>2. IsSeq(<<Semicolon>>) /\ Reading(<<Semicolon>>)
      BY ReadingTokens, ReadingSeq
    <2> QED
      BY <1>1, <2>1, <2>2, TokensRead
  <1> QED
    BY <1>2, <1>3, <1>4, <1>5, <1>6

LEMMA QuietSteps ==
  ASSUME Refuse \/ RefuseRel \/ RefuseSort \/ NextEntry \/ Terminated \/ UNCHANGED vars
  PROVE  UNCHANGED <<buf, req>> /\ (pc' = pc \/ pc' = "failed")
  BY DEF Refuse, RefuseRel, RefuseSort, Fail, NextEntry, Terminated, vars

----------------------------------------------------------------------------
(* Writes are in place *)

\* What is written once is in place.
LEMMA FirstWrite ==
  ASSUME IInv, PunctuationInv, pc = "start", NEW stmt, WritesFirst(stmt), stmt.q = "star" \/ InPlace(stmt)
  PROVE  WritesInPlace'
  <1>1. PICK toks, k :
          /\ IsSeq(toks) /\ buf' = buf \o toks
          /\ k \in DOMAIN toks /\ toks[k].t \in {"cte", "write"} /\ toks[k].stmt = stmt
          /\ \A i \in DOMAIN toks : Writing(toks[i]) => i = k
    BY DEF WritesFirst
  <1>2. req' = req
    BY DEF WritesFirst
  <1>3. WritePositions = {} /\ Len(buf) \in Nat
    BY <1>1, WhereItWrites DEF PunctuationInv, Stages, WritePositions, StmtPositions, Positions
  <1>4. ASSUME NEW i \in WritePositions'
        PROVE  i - Len(buf) = k /\ i \in Int /\ InPlace(buf[i].stmt)'
    <2>1. i - Len(buf) = k /\ i \in Int /\ buf'[i] = toks[k] /\ Writing(toks[k])
      BY <1>1, <1>3, WhereItWrites
    <2>2. InPlace(toks[k].stmt)
      BY <1>1, <2>1 DEF Writing
    <2> QED
      BY <1>2, <2>1, <2>2 DEF InPlace, WrittenTable, MainTable, PathTable
  <1>5. ASSUME NEW i \in WritePositions', NEW j \in WritePositions' PROVE i = j
    <2>1. i - Len(buf) = j - Len(buf) /\ i \in Int /\ j \in Int
      BY <1>4
    <2> QED
      BY <1>3, <2>1
  <1> QED
    BY <1>4, <1>5 DEF WritesInPlace

\* Reading adds no write, and the request does not change.
LEMMA ReadingKeeps ==
  ASSUME IInv, WritesInPlace, ReadsOn
  PROVE  WritesInPlace'
  <1>1. req' = req /\ \A i \in WritePositions' : i \in WritePositions /\ buf'[i] = buf[i]
    BY WhereItWrites DEF ReadsOn, Reading
  <1>2. ASSUME NEW i \in WritePositions' PROVE InPlace(buf[i].stmt)'
    <2>1. InPlace(buf[i].stmt) /\ buf'[i] = buf[i]
      BY <1>1 DEF WritesInPlace
    <2> QED
      BY <1>1, <2>1 DEF InPlace, WrittenTable, MainTable, PathTable
  <1> QED
    BY <1>1, <1>2 DEF WritesInPlace

\* An UPDATE names its row by the key of the table.
LEMMA UpdateInPlace ==
  ASSUME IInv, NEW stmt, stmt.q = "update", stmt.from = PathTable, FiltersOnKey(stmt),
         req.op = "update" \/ (req.op = "delete" /\ req.path.rels # <<>>)
  PROVE  InPlace(stmt)
  BY DEF InPlace, WrittenTable

LEMMA GenWriteWrites ==
  ASSUME IInv, PunctuationInv,
         GenInsert \/ GenUpdateMain \/ GenUpdateRel \/ GenDeleteNormal \/ GenDeleteRel
  PROVE  WritesInPlace'
  <1>1. PathTable.type \in Type
    BY RequestTyped DEF IInv
  <1>2. ASSUME NEW values PROVE FiltersOnKey(UpdateStmt(PathTable, values))
    BY <1>1, ComparesKey DEF UpdateStmt
  <1>3. CASE GenInsert
    <2> DEFINE stmt == Stmt("insert", MainTable, <<>>, <<>>,
                            SetList(ExtractData(req.body, MainTable.type).values, 0), <<>>)
    <2>1. pc = "start" /\ req.op = "create" /\ WritesFirst(stmt)
      BY <1>3, GenInsertFirst
    <2>2. InPlace(stmt)
      BY <2>1 DEF InPlace, WrittenTable, Stmt
    <2> HIDE DEF stmt
    <2> QED
      BY <2>1, <2>2, FirstWrite
  <1>4. CASE GenUpdateMain
    <2> DEFINE values == ExtractData(req.body, MainTable.type).values
               star == Stmt("star", MainTable, <<>>, <<>>, <<>>, ComparePkey(MainTable, 0))
               stmt == IF values = <<>> THEN star ELSE UpdateStmt(PathTable, values)
    <2>1. pc = "start" /\ req.op = "update" /\ WritesFirst(stmt)
      BY <1>4, GenUpdateMainFirst DEF WritesMain
    <2>2. InPlace(UpdateStmt(PathTable, values))
      BY <1>2, <2>1, UpdateIs, UpdateInPlace
    <2>3. star.q = "star"
      BY DEF Stmt
    <2>4. stmt.q = "star" \/ InPlace(stmt)
      BY <2>2, <2>3
    <2> HIDE DEF stmt
    <2> QED
      BY <2>1, <2>4, FirstWrite
  <1>5. CASE GenUpdateRel
    <2> DEFINE stmt == UpdateStmt(PathTable, ExtractRelData(PathRel, req.body.data).values)
    <2>1. pc = "start" /\ req.op = "update" /\ WritesFirst(stmt)
      BY <1>5, GenUpdateRelFirst DEF WritesRel
    <2>2. InPlace(stmt)
      BY <1>2, <2>1, UpdateIs, UpdateInPlace
    <2> HIDE DEF stmt
    <2> QED
      BY <2>1, <2>2, FirstWrite
  <1>6. CASE GenDeleteNormal
    <2> DEFINE stmt == Stmt("delete", PathTable, <<>>, <<>>, <<>>, ComparePkey(PathTable, 0))
    <2>1. pc = "start" /\ req.op = "delete" /\ req.path.rels = <<>> /\ WritesFirst(stmt)
      BY <1>6, GenDeleteNormalFirst
    <2>2. FiltersOnKey(stmt)
      BY <1>1, ComparesKey
    <2>3. stmt.q = "delete" /\ stmt.from = PathTable
      BY DEF Stmt
    <2> HIDE DEF stmt
    <2>4. InPlace(stmt)
      BY <2>1, <2>2, <2>3 DEF InPlace, WrittenTable
    <2> QED
      BY <2>1, <2>4, FirstWrite
  <1>7. CASE GenDeleteRel
    <2>1. PICK r : WritesFirst(ClearsKey(r))
      BY <1>7, GenDeleteRelFirst
    <2>2. pc = "start" /\ req.op = "delete" /\ req.path.rels # <<>>
      BY <1>7, GenDeleteRelFirst
    <2>3. FiltersOnKey(ClearsKey(r))
      <3> DEFINE sets == <<[col |-> Relation[r].key, param |-> 0]>>
      <3> HIDE DEF sets
      <3>1. FiltersOnKey(Stmt("update", PathTable, <<>>, <<>>, sets, ComparePkey(PathTable, 0)))
        BY <1>1, ComparesKey
      <3> QED
        BY <3>1 DEF sets, ClearsKey
    <2>4. ClearsKey(r).q = "update" /\ ClearsKey(r).from = PathTable
      BY DEF ClearsKey, Stmt
    <2>5. InPlace(ClearsKey(r))
      BY <2>2, <2>3, <2>4, UpdateInPlace
    <2> QED
      BY <2>1, <2>2, <2>5, FirstWrite
  <1> QED
    BY <1>3, <1>4, <1>5, <1>6, <1>7

LEMMA InitWrites == Init => WritesInPlace
  <1> SUFFICES ASSUME buf = <<>> PROVE WritesInPlace
    BY DEF Init
  <1>1. DOMAIN buf = {}
    OBVIOUS
  <1> QED
    BY <1>1 DEF WritesInPlace, WritePositions, StmtPositions, Positions

LEMMA NextWrites ==
  ASSUME IInv, PunctuationInv, WritesInPlace, [Next]_vars
  PROVE  WritesInPlace'
  <1>1. CASE GenSelect \/ GenSelectRelationships
    BY <1>1, GenSelectReads, ReadingKeeps
  <1>2. CASE GenInsert \/ GenUpdateMain \/ GenUpdateRel \/ GenDeleteNormal \/ GenDeleteRel
    BY <1>2, GenWriteWrites
  <1>3. CASE SelectRel \/ FinishMain \/ FinishMainSorted \/ FinishTable \/ Build
    BY <1>3, LaterReads, ReadingKeeps
  <1>4. CASE Refuse \/ RefuseRel \/ RefuseSort \/ NextEntry \/ Terminated \/ UNCHANGED vars
    <2>1. UNCHANGED <<buf, req>>
      BY <1>4, QuietSteps
    <2> QED
      BY <2>1 DEF WritesInPlace, WritePositions, StmtPositions, InPlace, WrittenTable, MainTable, PathTable
  <1> QED
    BY <1>1, <1>2, <1>3, <1>4 DEF Next

\* Whatever relationships a statement goes through, it writes in one place at
\* most, a read in none: to the table of the path, in the row its whole key
\* names, or a new row of it (gen_insert, gen_update, gen_delete).
THEOREM OneWriteInPlace == Spec => []WritesInPlace
  <1>1. IInv /\ PunctuationInv /\ [Next]_vars => PunctuationInv'
    BY NextPunctuated
  <1>2. IInv /\ PunctuationInv /\ WritesInPlace /\ [Next]_vars => WritesInPlace'
    BY NextWrites
  <1> QED
    BY <1>1, <1>2, InitPunctuated, InitWrites, Invariant, PTL DEF Spec

----------------------------------------------------------------------------
(* Writes are as asked *)

Columns(values) == {values[k].col : k \in DOMAIN values}

LEMMA ElementsJoined ==
  ASSUME NEW a, NEW b, IsSeq(a), IsSeq(b)
  PROVE  IsSeq(a \o b) /\ ToSet(a \o b) = ToSet(a) \cup ToSet(b)
  <1> DEFINE S == ToSet(a) \cup ToSet(b)
  <1>1. a \in Seq(S) /\ b \in Seq(S)
    BY SeqMonotonic DEF IsSeq
  <1> HIDE DEF S
  <1> QED
    BY <1>1, ElementsOfConcat, ConcatIsSeq

\* A body whose relationships are all accepted is written value by value.
GivenValues(body, t) ==
  {Value("attr", body.attrs[i].name) : i \in {j \in DOMAIN body.attrs : ~body.attrs[j].absent}}
    \cup {RelationshipValue(r, body.rels[r]) : r \in GivenRels(body, t)}

\* What the extraction accepts is in the columns of a table.
LEMMA LinksExtracted ==
  ASSUME NEW t \in Type, ExtractData(req.body, t).err = "none"
  PROVE  \A i \in DOMAIN RelsOf(t) : req.body.rels[RelsOf(t)[i]] \in {"one", "null"} => IsManyToOne(RelsOf(t)[i])
  <1> DEFINE body == req.body
             rels == RelsOf(t)
             B == {i \in DOMAIN rels : RelationshipError(rels[i], body.rels[rels[i]]) # "none"}
             bad == Kept(rels, B)
  <1>1. ExtractData(body, t).err = IF bad = <<>> THEN "none" ELSE RelationshipError(bad[1], body.rels[bad[1]])
    BY DEF ExtractData
  <1>2. rels \in Seq(Rel)
    BY ResourceAssumption DEF RelsOf
  <1>3. bad \in Seq(Rel) /\ ToSet(bad) = {rels[i] : i \in DOMAIN rels \cap B}
    BY <1>2, KeptTyped, KeptElements
  <1>4. bad = <<>>
    <2> DEFINE e == RelationshipError(bad[1], body.rels[bad[1]])
    <2>1. IF bad = <<>> THEN TRUE ELSE e = "none"
      BY <1>1
    <2> SUFFICES ASSUME bad # <<>> PROVE FALSE
      OBVIOUS
    <2> DEFINE z == bad
    <2>2. z \in Seq(Rel) /\ z # <<>>
      BY <1>3
    <2>3. ToSet(z) = {z[i] : i \in DOMAIN z}
      BY DEF ToSet
    <2>4. ToSet(z) = {rels[i] : i \in DOMAIN rels \cap B}
      BY <1>3
    <2> HIDE DEF z
    <2>5. 1 \in DOMAIN z
      BY <2>2, EmptySeq, LenProperties
    <2>6. z[1] \in ToSet(z)
      BY <2>3, <2>5
    <2> HIDE DEF rels
    <2>7. RelationshipError(z[1], body.rels[z[1]]) # "none"
      BY <2>4, <2>6
    <2>8. e = RelationshipError(z[1], body.rels[z[1]])
      BY DEF z
    <2> HIDE DEF bad, e
    <2> QED
      BY <2>1, <2>7, <2>8
  <1>5. {rels[i] : i \in DOMAIN rels \cap B} = {}
    <2> HIDE DEF B, rels, bad
    <2>1. ToSet(bad) = {}
      BY <1>4 DEF ToSet
    <2> QED
      BY <1>3, <2>1
  <1>6. \A i \in DOMAIN rels : RelationshipError(rels[i], body.rels[rels[i]]) = "none"
    <2> HIDE DEF rels, bad
    <2> QED
      BY <1>5
  <1> QED
    BY <1>6 DEF RelationshipError

LEMMA ExtractedValues ==
  ASSUME IsRequest(req), NEW t \in Type, ExtractData(req.body, t).err = "none"
  PROVE  /\ IsSeq(ExtractData(req.body, t).values)
         /\ ToSet(ExtractData(req.body, t).values) = GivenValues(req.body, t)
  <1> DEFINE body == req.body
             P == {i \in DOMAIN body.attrs : ~body.attrs[i].absent}
             attrs == Kept(body.attrs, P)
             rels == RelsOf(t)
             Q == {i \in DOMAIN rels : IsManyToOne(rels[i]) /\ body.rels[rels[i]] \in {"one", "null"}}
             given == Kept(rels, Q)
             f == [i \in DOMAIN attrs |-> Value("attr", attrs[i].name)]
             g == [i \in DOMAIN given |-> RelationshipValue(given[i], body.rels[given[i]])]
  <1>1. AttributeValues(body.attrs) = f
    BY Zenon DEF AttributeValues, MapSeq
  <1>2. MapSeq(LAMBDA r : RelationshipValue(r, body.rels[r]), given) = g
    BY Zenon DEF MapSeq
  <1>3. ExtractData(body, t).values = f \o g
    BY <1>1, <1>2 DEF ExtractData
  <1>4. rels \in Seq(Rel) /\ body.attrs \in Seq([name : Ident, absent : BOOLEAN])
    BY ResourceAssumption DEF IsRequest, RelsOf
  <1>5. /\ IsSeq(attrs) /\ ToSet(attrs) = {body.attrs[i] : i \in DOMAIN body.attrs \cap P}
        /\ IsSeq(given) /\ ToSet(given) = {rels[i] : i \in DOMAIN rels \cap Q}
    BY <1>4, KeptTyped, KeptElements, SeqIsSeq
  <1>6. \A i \in DOMAIN rels : body.rels[rels[i]] \in {"one", "null"} => IsManyToOne(rels[i])
    BY LinksExtracted
  <1>7. ToSet(given) = GivenRels(body, t)
    <2>1. ToSet(rels) = {rels[i] : i \in DOMAIN rels}
      BY DEF ToSet
    <2> HIDE DEF rels
    <2>2. {r \in ToSet(rels) : body.rels[r] \in {"one", "null"}} = {rels[i] : i \in DOMAIN rels \cap Q}
      BY <1>6, <2>1
    <2> QED
      BY <1>5, <2>2 DEF GivenRels, rels
  <1> HIDE DEF attrs, given
  <1>8. IsSeq(f) /\ ToSet(f) = {Value("attr", body.attrs[i].name) : i \in P}
    <2>1. FunctionOn(f, DOMAIN attrs)
      BY DEF FunctionOn
    <2>2. \A i \in DOMAIN attrs : f[i] = Value("attr", attrs[i].name)
      OBVIOUS
    <2> HIDE DEF f
    <2>3. IsSeq(f) /\ DOMAIN f = DOMAIN attrs
      BY <1>5, <2>1, MapIsSeq
    <2>4. ToSet(f) = {Value("attr", a.name) : a \in ToSet(attrs)}
      BY <2>2, <2>3 DEF ToSet
    <2> QED
      BY <1>5, <2>3, <2>4
  <1>9. IsSeq(g) /\ ToSet(g) = {RelationshipValue(r, body.rels[r]) : r \in GivenRels(body, t)}
    <2>1. FunctionOn(g, DOMAIN given)
      BY DEF FunctionOn
    <2>2. \A i \in DOMAIN given : g[i] = RelationshipValue(given[i], body.rels[given[i]])
      OBVIOUS
    <2> HIDE DEF g
    <2>3. IsSeq(g) /\ DOMAIN g = DOMAIN given
      BY <1>5, <2>1, MapIsSeq
    <2>4. ToSet(g) = {RelationshipValue(r, body.rels[r]) : r \in ToSet(given)}
      BY <2>2, <2>3 DEF ToSet
    <2> QED
      BY <1>7, <2>3, <2>4
  <1> HIDE DEF f, g
  <1>10. IsSeq(f \o g) /\ ToSet(f \o g) = ToSet(f) \cup ToSet(g)
    BY <1>8, <1>9, ElementsJoined
  <1> QED
    BY <1>3, <1>8, <1>9, <1>10 DEF GivenValues

\* And column by column.
LEMMA ExtractedColumns ==
  ASSUME IsRequest(req), NEW t \in Type, ExtractData(req.body, t).err = "none"
  PROVE  /\ IsSeq(ExtractData(req.body, t).values)
         /\ Columns(ExtractData(req.body, t).values) = GivenColumns(req.body, t)
  <1> DEFINE values == ExtractData(req.body, t).values
             attrs == {j \in DOMAIN req.body.attrs : ~req.body.attrs[j].absent}
  <1>1. IsSeq(values) /\ ToSet(values) = GivenValues(req.body, t)
    BY ExtractedValues
  <1> HIDE DEF values
  <1>2. Columns(values) = {v.col : v \in ToSet(values)}
    BY DEF Columns, ToSet
  <1>3. /\ \A name : Value("attr", name).col = name
        /\ \A r, data : RelationshipValue(r, data).col = Relation[r].key
    BY DEF Value, RelationshipValue
  <1>4. {v.col : v \in GivenValues(req.body, t)} = GivenColumns(req.body, t)
    <2>1. {v.col : v \in {Value("attr", req.body.attrs[i].name) : i \in attrs}}
            = {req.body.attrs[i].name : i \in attrs}
      <3> HIDE DEF attrs
      <3>1. \A i \in attrs : Value("attr", req.body.attrs[i].name).col = req.body.attrs[i].name
        BY <1>3
      <3> QED
        BY <3>1
    <2>2. {v.col : v \in {RelationshipValue(r, req.body.rels[r]) : r \in GivenRels(req.body, t)}}
            = {Relation[r].key : r \in GivenRels(req.body, t)}
      BY <1>3
    <2> QED
      BY <2>1, <2>2 DEF GivenValues, GivenColumns
  <1> QED
    BY <1>1, <1>2, <1>4 DEF values

\* The columns a statement sets are those of its values.
LEMMA ColumnsSet ==
  ASSUME NEW values, NEW n
  PROVE  /\ {SetList(values, n)[k].col : k \in DOMAIN SetList(values, n)} = Columns(values)
         /\ SetList(values, n) = <<>> => DOMAIN values = {}
  <1>1. SetList(values, n) = [i \in DOMAIN values |-> [col |-> values[i].col, param |-> n + i]]
    BY DEF SetList
  <1> DEFINE s == SetList(values, n)
  <1>2. DOMAIN s = DOMAIN values /\ \A k \in DOMAIN values : s[k].col = values[k].col
    BY <1>1
  <1>3. DOMAIN <<>> = {}
    OBVIOUS
  <1> HIDE DEF s
  <1>4. {s[k].col : k \in DOMAIN s} = Columns(values)
    BY <1>2 DEF Columns
  <1> QED
    BY <1>2, <1>3, <1>4 DEF s

\* A statement is the one the request asks for.
AskedFor(stmt) ==
  IF stmt.q \in {"insert", "update", "delete"} THEN ~NothingAsked /\ AsAsked(stmt) ELSE NothingAsked

\* The checks a write has passed.
LEMMA ChecksPassed ==
  ASSUME IInv
  PROVE  /\ InsertError = "none" => ExtractData(req.body, MainTable.type).err = "none"
         /\ UpdateMainError = "none" => ExtractData(req.body, MainTable.type).err = "none"
         /\ UpdateRelError = "none" => /\ ExtractRelData(PathRel, req.body.data).err = "none"
                                       /\ req.body.kind = "rel"
  <1>1. ASSUME NEW a \in EarlyError, NEW b \in EarlyError, NEW c \in EarlyError, NEW d \in EarlyError,
               FirstError(<<a, b, c, d>>) = "none"
        PROVE  c = "none"
    <2> DEFINE errs == <<a, b, c, d>>
    <2>1. DOMAIN errs = {1, 2, 3, 4} /\ errs[3] = c /\ \A i \in DOMAIN errs : errs[i] \in EarlyError
      OBVIOUS
    <2>2. FirstError(errs) = "none"
      BY <1>1
    <2> HIDE DEF errs
    <2>3. \A i \in DOMAIN errs : errs[i] = "none"
      BY <2>1, <2>2, FirstErrorTyped
    <2> QED
      BY <2>1, <2>3
  <1>2. ASSUME NEW a \in EarlyError, NEW b \in EarlyError, NEW c \in EarlyError, NEW d \in EarlyError,
               NEW e \in EarlyError, FirstError(<<a, b, c, d, e>>) = "none"
        PROVE  c = "none" /\ d = "none"
    <2> DEFINE errs == <<a, b, c, d, e>>
    <2>1. DOMAIN errs = {1, 2, 3, 4, 5} /\ errs[3] = c /\ errs[4] = d /\ \A i \in DOMAIN errs : errs[i] \in EarlyError
      OBVIOUS
    <2>2. FirstError(errs) = "none"
      BY <1>2
    <2> HIDE DEF errs
    <2>3. \A i \in DOMAIN errs : errs[i] = "none"
      BY <2>1, <2>2, FirstErrorTyped
    <2> QED
      BY <2>1, <2>3
  <1> DEFINE t == MainTable.type
             data == ExtractData(req.body, t).err
             rel == ExtractRelData(PathRel, req.body.data).err
             id == CheckInsertRequest(req.body)
             json == JsonError(t, TRUE)
             jsonOfPath == JsonError(PathTable.type, TRUE)
             mainKind == Unless(req.body.kind = "main", "ManyRelationshipDirectWrite")
             relKind == Unless(req.body.kind = "rel", "UpdatingMainObject")
  <1>3. /\ data \in EarlyError /\ rel \in EarlyError /\ id \in EarlyError
        /\ json \in EarlyError /\ jsonOfPath \in EarlyError
        /\ mainKind \in EarlyError /\ relKind \in EarlyError
        /\ Missing({t}) \in EarlyError /\ Missing({PathTable.type}) \in EarlyError
    BY ChecksTyped, ExtractionTyped DEF EarlyError
  <1>4. /\ InsertError = FirstError(<<id, Missing({t}), data, json>>)
        /\ UpdateMainError = FirstError(<<Missing({t}), mainKind, data, json>>)
        /\ UpdateRelError = FirstError(<<Missing({PathTable.type}), Missing({t}), relKind, rel, jsonOfPath>>)
    BY DEF InsertError, UpdateMainError, UpdateRelError
  <1> HIDE DEF data, rel, id, json, jsonOfPath, mainKind, relKind
  <1>5. InsertError = "none" => data = "none"
    BY <1>1, <1>3, <1>4
  <1>6. UpdateMainError = "none" => data = "none"
    BY <1>1, <1>3, <1>4
  <1>7. UpdateRelError = "none" => rel = "none" /\ relKind = "none"
    BY <1>2, <1>3, <1>4
  <1>8. relKind = "none" => req.body.kind = "rel"
    BY DEF relKind, Unless
  <1> QED
    BY <1>5, <1>6, <1>7, <1>8 DEF data, rel

----------------------------------------------------------------------------
(* What is asked is a matter of the request *)

LEMMA RequestStays ==
  ASSUME req' = req
  PROVE  /\ NothingAsked' <=> NothingAsked
         /\ SaysWhat' <=> SaysWhat
         /\ OnlyAlias' <=> OnlyAlias
         /\ AskedColumns' = AskedColumns
  <1>1. AskedColumns' = AskedColumns
    BY DEF AskedColumns, WritesMain, WritesRel, PathRel
  <1>2. NothingAsked' <=> NothingAsked
    BY <1>1 DEF NothingAsked, WritesMain
  <1>3. (SaysWhat' <=> SaysWhat) /\ (OnlyAlias' <=> OnlyAlias)
    BY DEF SaysWhat, OnlyAlias, WritesRel, PathRel
  <1> QED
    BY <1>1, <1>2, <1>3

\* The statement that follows the checks writes what is asked.
AskedInv ==
  SaysWhat /\ OnlyAlias =>
    /\ pc \in {"rels", "finish", "built"} => ((WritePositions = {}) <=> NothingAsked)
    /\ \A i \in WritePositions : AsAsked(buf[i].stmt)

LEMMA FirstAsked ==
  ASSUME IInv, PunctuationInv, pc = "start", NEW stmt, WritesFirst(stmt),
         SaysWhat /\ OnlyAlias => AskedFor(stmt)
  PROVE  AskedInv'
  <1>1. PICK toks, k :
          /\ IsSeq(toks) /\ buf' = buf \o toks
          /\ k \in DOMAIN toks /\ toks[k].t \in {"cte", "write"} /\ toks[k].stmt = stmt
          /\ \A i \in DOMAIN toks : Writing(toks[i]) => i = k
    BY DEF WritesFirst
  <1>2. req' = req
    BY DEF WritesFirst
  <1>3. WritePositions = {}
    BY DEF PunctuationInv, Stages, WritePositions, StmtPositions, Positions
  <1>4. \A i \in WritePositions' : buf'[i] = toks[k] /\ Writing(toks[k])
    BY <1>1, <1>3, WhereItWrites
  <1>5. Writing(toks[k]) => Len(buf) + k \in WritePositions'
    BY <1>1, WhereItWrites
  <1>6. Writing(toks[k]) <=> stmt.q \in {"insert", "update", "delete"}
    BY <1>1 DEF Writing
  <1>7. (WritePositions' = {}) <=> stmt.q \notin {"insert", "update", "delete"}
    BY <1>4, <1>5, <1>6
  <1>8. ASSUME SaysWhat, OnlyAlias
        PROVE  /\ (WritePositions' = {}) <=> NothingAsked
               /\ \A i \in WritePositions' : AsAsked(buf'[i].stmt)
    <2>1. AskedFor(stmt)
      BY <1>8
    <2>2. (WritePositions' = {}) <=> NothingAsked
      BY <1>7, <2>1 DEF AskedFor
    <2>3. \A i \in WritePositions' : buf'[i].stmt = stmt /\ AsAsked(stmt)
      BY <1>1, <1>4, <1>6, <2>1 DEF AskedFor
    <2> QED
      BY <2>2, <2>3
  <1>9. ASSUME SaysWhat', OnlyAlias'
        PROVE  /\ (WritePositions' = {}) <=> NothingAsked'
               /\ \A i \in WritePositions' : AsAsked(buf[i].stmt)'
    <2>1. SaysWhat /\ OnlyAlias
      BY <1>2, <1>9, RequestStays
    <2>2. (WritePositions' = {}) <=> NothingAsked'
      BY <1>2, <1>8, <2>1, RequestStays
    <2>3. \A i \in WritePositions' : AsAsked(buf'[i].stmt)
      BY <1>8, <2>1
    <2>4. AskedColumns' = AskedColumns
      BY <1>2, RequestStays
    <2> QED
      BY <2>2, <2>3, <2>4 DEF AsAsked, SetColumns
  <1> QED
    BY <1>9 DEF AskedInv

----------------------------------------------------------------------------
(* What each request asks *)

\* A body is written column by column, or not at all when there is nothing in it.
LEMMA BodyAsked ==
  ASSUME IInv, req.op = "create" \/ WritesMain, ExtractData(req.body, MainTable.type).err = "none"
  PROVE  LET values == ExtractData(req.body, MainTable.type).values IN
         /\ Columns(values) = AskedColumns
         /\ (values = <<>>) <=> (AskedColumns = {})
  <1> DEFINE values == ExtractData(req.body, MainTable.type).values
  <1>1. MainTable.type \in Type /\ MainTable.type = MainType(req.path)
    BY RequestTyped DEF IInv, MainTable, BaseTable
  <1>2. IsSeq(values) /\ Columns(values) = GivenColumns(req.body, MainTable.type)
    BY <1>1, ExtractedColumns DEF IInv
  <1>3. AskedColumns = GivenColumns(req.body, MainTable.type)
    <2>1. AskedColumns = GivenColumns(req.body, MainType(req.path))
      <3> HIDE DEF values
      <3> QED
        BY DEF AskedColumns, WritesMain, WritesRel
    <2> QED
      BY <1>1, <2>1
  <1> HIDE DEF values
  <1>4. (values = <<>>) <=> (Columns(values) = {})
    <2>1. CASE values = <<>>
      BY <2>1 DEF Columns
    <2>2. CASE values # <<>>
      <3>1. values \in Seq(ToSet(values))
        BY <1>2 DEF IsSeq, ToSet
      <3>2. Len(values) \in Nat \ {0} /\ DOMAIN values = 1..Len(values)
        BY <2>2, <3>1, EmptySeq, LenProperties
      <3>3. 1 \in DOMAIN values
        BY <3>2
      <3> QED
        BY <2>2, <3>3 DEF Columns
    <2> QED
      BY <2>1, <2>2
  <1> QED
    BY <1>2, <1>3, <1>4 DEF values

\* A statement of values sets their columns.
LEMMA SetsColumns ==
  ASSUME NEW stmt, NEW values, stmt.sets = SetList(values, 0)
  PROVE  /\ SetColumns(stmt) = Columns(values)
         /\ stmt.sets = <<>> => Columns(values) = {}
  <1>1. /\ {SetList(values, 0)[k].col : k \in DOMAIN SetList(values, 0)} = Columns(values)
        /\ SetList(values, 0) = <<>> => DOMAIN values = {}
    BY ColumnsSet
  <1>2. SetColumns(stmt) = Columns(values)
    BY <1>1 DEF SetColumns
  <1>3. DOMAIN values = {} => Columns(values) = {}
    BY DEF Columns
  <1> QED
    BY <1>1, <1>2, <1>3

LEMMA GenInsertAsked ==
  ASSUME IInv, PunctuationInv, GenInsert
  PROVE  AskedInv'
  <1> DEFINE values == ExtractData(req.body, MainTable.type).values
             stmt == Stmt("insert", MainTable, <<>>, <<>>, SetList(values, 0), <<>>)
  <1>1. pc = "start" /\ req.op = "create" /\ InsertError = "none" /\ WritesFirst(stmt)
    BY GenInsertFirst
  <1>2. ExtractData(req.body, MainTable.type).err = "none"
    BY <1>1, ChecksPassed
  <1>3. Columns(values) = AskedColumns
    BY <1>1, <1>2, BodyAsked
  <1>4. stmt.q = "insert" /\ stmt.sets = SetList(values, 0)
    BY DEF Stmt
  <1> HIDE DEF values, stmt
  <1>5. AsAsked(stmt)
    BY <1>3, <1>4, SetsColumns DEF AsAsked
  <1>6. ~NothingAsked
    BY <1>1 DEF NothingAsked, WritesMain
  <1>7. AskedFor(stmt)
    BY <1>4, <1>5, <1>6 DEF AskedFor
  <1> QED
    BY <1>1, <1>7, FirstAsked

LEMMA GenUpdateMainAsked ==
  ASSUME IInv, PunctuationInv, GenUpdateMain
  PROVE  AskedInv'
  <1> DEFINE values == ExtractData(req.body, MainTable.type).values
             star == Stmt("star", MainTable, <<>>, <<>>, <<>>, ComparePkey(MainTable, 0))
             update == UpdateStmt(PathTable, values)
             stmt == IF values = <<>> THEN star ELSE update
  <1>1. pc = "start" /\ WritesMain /\ UpdateMainError = "none" /\ WritesFirst(stmt)
    BY GenUpdateMainFirst
  <1>2. ExtractData(req.body, MainTable.type).err = "none"
    BY <1>1, ChecksPassed
  <1>3. Columns(values) = AskedColumns /\ ((values = <<>>) <=> (AskedColumns = {}))
    BY <1>1, <1>2, BodyAsked
  <1>4. star.q = "star"
    BY DEF Stmt
  <1>5. update.q = "update" /\ update.sets = SetList(values, 0)
    BY UpdateIs
  <1>6. req.op # "read"
    BY <1>1 DEF WritesMain
  <1> HIDE DEF values, star, update
  <1> USE DEF stmt
  <1>7. ASSUME values = <<>> PROVE AskedFor(stmt)
    <2>1. stmt.q = "star" /\ NothingAsked
      BY <1>1, <1>3, <1>4, <1>7 DEF NothingAsked
    <2> HIDE DEF stmt
    <2> QED
      BY <2>1 DEF AskedFor
  <1>8. ASSUME values # <<>> PROVE AskedFor(stmt)
    <2>1. SetColumns(update) = Columns(values) /\ (update.sets = <<>> => Columns(values) = {})
      BY <1>5, SetsColumns
    <2>2. ~NothingAsked /\ AsAsked(update)
      BY <1>3, <1>6, <1>8, <2>1 DEF NothingAsked, AsAsked
    <2>3. stmt = update
      BY <1>8
    <2> HIDE DEF stmt
    <2> QED
      BY <1>5, <2>2, <2>3 DEF AskedFor
  <1>9. AskedFor(stmt)
    BY <1>7, <1>8
  <1> HIDE DEF stmt
  <1> QED
    BY <1>1, <1>9, FirstAsked

LEMMA GenUpdateRelAsked ==
  ASSUME IInv, PunctuationInv, GenUpdateRel
  PROVE  AskedInv'
  <1> DEFINE data == req.body.data
             values == ExtractRelData(PathRel, data).values
             stmt == UpdateStmt(PathTable, values)
  <1>1. pc = "start" /\ WritesRel /\ UpdateRelError = "none" /\ WritesFirst(stmt)
    BY GenUpdateRelFirst
  <1>2. ExtractRelData(PathRel, data).err = "none" /\ req.body.kind = "rel"
    BY <1>1, ChecksPassed
  <1>3. stmt.q = "update" /\ stmt.sets = SetList(values, 0)
    BY UpdateIs
  <1>4. req.op = "update" /\ ~WritesMain
    BY <1>1 DEF WritesRel, WritesMain
  <1>5. AskedColumns = {Relation[PathRel].key}
    BY <1>1, <1>4 DEF AskedColumns
  <1>6. ASSUME SaysWhat PROVE Columns(values) = {Relation[PathRel].key}
    <2>1. data \in RelData \ {"omitted", "many", "absent"}
      BY <1>1, <1>2, <1>6 DEF IInv, IsRequest, ExtractRelData, SaysWhat
    <2>2. values = <<RelationshipValue(PathRel, data)>>
      BY <2>1 DEF ExtractRelData, RelData
    <2>3. DOMAIN values = {1} /\ values[1].col = Relation[PathRel].key
      BY <2>2 DEF RelationshipValue, Value
    <2> QED
      BY <2>3 DEF Columns
  <1> HIDE DEF values, stmt
  <1>7. SetColumns(stmt) = Columns(values) /\ (stmt.sets = <<>> => Columns(values) = {})
    BY <1>3, SetsColumns
  <1>8. SaysWhat /\ OnlyAlias => AskedFor(stmt)
    BY <1>3, <1>4, <1>5, <1>6, <1>7 DEF AskedFor, NothingAsked, AsAsked
  <1> QED
    BY <1>1, <1>8, FirstAsked

LEMMA GenDeleteAsked ==
  ASSUME IInv, PunctuationInv, GenDeleteNormal \/ GenDeleteRel
  PROVE  AskedInv'
  <1>1. CASE GenDeleteNormal
    <2> DEFINE stmt == Stmt("delete", PathTable, <<>>, <<>>, <<>>, ComparePkey(PathTable, 0))
    <2>1. pc = "start" /\ req.op = "delete" /\ req.path.rels = <<>> /\ WritesFirst(stmt)
      BY <1>1, GenDeleteNormalFirst
    <2>2. stmt.q = "delete" /\ stmt.sets = <<>>
      BY DEF Stmt
    <2> HIDE DEF stmt
    <2>3. AskedColumns = {} /\ ~NothingAsked
      BY <2>1 DEF AskedColumns, NothingAsked, WritesMain, WritesRel
    <2>4. SetColumns(stmt) = {}
      BY <2>2 DEF SetColumns
    <2>5. AskedFor(stmt)
      BY <2>2, <2>3, <2>4 DEF AskedFor, AsAsked
    <2> QED
      BY <2>1, <2>5, FirstAsked
  <1>2. CASE GenDeleteRel
    <2>1. pc = "start" /\ req.op = "delete" /\ req.path.rels # <<>>
      BY <1>2, GenDeleteRelFirst
    <2>2. PICK r \in AliasesTo(req.path.type, MainType(req.path)) : WritesFirst(ClearsKey(r))
      BY <1>2, GenDeleteRelFirst
    <2>3. AskedColumns = {Relation[PathRel].key} /\ ~NothingAsked
      BY <2>1 DEF AskedColumns, NothingAsked, WritesMain, WritesRel
    <2>4. OnlyAlias => r = PathRel
      BY <2>1, <2>2 DEF OnlyAlias
    <2>5. ClearsKey(r).q = "update" /\ ClearsKey(r).sets = <<[col |-> Relation[r].key, param |-> 0]>>
      BY DEF ClearsKey, Stmt
    <2>6. SetColumns(ClearsKey(r)) = {Relation[r].key} /\ ClearsKey(r).sets # <<>>
      BY <2>5 DEF SetColumns
    <2>7. OnlyAlias => AskedFor(ClearsKey(r))
      BY <2>3, <2>4, <2>5, <2>6 DEF AskedFor, AsAsked
    <2> QED
      BY <2>1, <2>2, <2>7, FirstAsked
  <1> QED
    BY <1>1, <1>2

----------------------------------------------------------------------------
(* The other steps *)

\* Reading changes neither what is written nor what is asked.
LEMMA ReadingAsked ==
  ASSUME IInv, ReadsOn, NEW S, S = WritePositions
  PROVE  /\ req' = req
         /\ WritePositions' = S
         /\ \A i \in S : buf'[i] = buf[i]
  BY WhereItWrites DEF ReadsOn, Reading

LEMMA InitAsked == Init => AskedInv
  <1> SUFFICES ASSUME buf = <<>>, pc = "start" PROVE AskedInv
    BY DEF Init
  <1>1. WritePositions = {}
    BY DEF WritePositions, StmtPositions, Positions
  <1> QED
    BY <1>1 DEF AskedInv

LEMMA NextAsked ==
  ASSUME IInv, PunctuationInv, AskedInv, [Next]_vars
  PROVE  AskedInv'
  <1>1. CASE GenSelect \/ GenSelectRelationships
    <2>1. pc = "start" /\ req.op = "read" /\ ReadsOn
      BY <1>1, GenSelectReads
    <2>2. WritePositions = {}
      BY <2>1 DEF PunctuationInv, Stages, WritePositions, StmtPositions, Positions
    <2>3. req' = req /\ WritePositions' = {}
      BY <2>1, <2>2, ReadingAsked
    <2>4. NothingAsked'
      BY <2>1, <2>3 DEF NothingAsked
    <2> QED
      BY <2>3, <2>4 DEF AskedInv
  <1>2. CASE GenInsert \/ GenUpdateMain \/ GenUpdateRel \/ GenDeleteNormal \/ GenDeleteRel
    BY <1>2, GenInsertAsked, GenUpdateMainAsked, GenUpdateRelAsked, GenDeleteAsked
  <1>3. ASSUME req' = req, WritePositions' = WritePositions,
               \A i \in WritePositions : buf'[i] = buf[i],
               pc' \in {"rels", "finish", "built"} => pc \in {"rels", "finish", "built"}
        PROVE  AskedInv'
    <2>1. \A i \in WritePositions : AsAsked(buf[i].stmt) => AsAsked(buf[i].stmt)'
      BY <1>3, RequestStays DEF AsAsked, SetColumns
    <2> QED
      BY <1>3, <2>1, RequestStays DEF AskedInv
  <1>4. CASE SelectRel \/ FinishMain \/ FinishMainSorted \/ FinishTable \/ Build
    <2>1. pc \in {"rels", "finish"} /\ ReadsOn
      BY <1>4, LaterReads
    <2>2. req' = req /\ WritePositions' = WritePositions /\ \A i \in WritePositions : buf'[i] = buf[i]
      BY <2>1, ReadingAsked
    <2> QED
      BY <1>3, <2>1, <2>2
  <1>5. CASE Refuse \/ RefuseRel \/ RefuseSort \/ NextEntry \/ Terminated \/ UNCHANGED vars
    <2>1. UNCHANGED <<buf, req>> /\ (pc' = pc \/ pc' = "failed")
      BY <1>5, QuietSteps
    <2>2. WritePositions' = WritePositions
      BY <2>1 DEF WritePositions, StmtPositions
    <2> QED
      BY <1>3, <2>1, <2>2
  <1> QED
    BY <1>1, <1>2, <1>4, <1>5 DEF Next

LEMMA AskedSuffices == AskedInv => WritesAsAsked
  <1>1. (WriteStmts = {}) <=> (WritePositions = {})
    BY DEF WriteStmts
  <1> QED
    BY <1>1 DEF AskedInv, WritesAsAsked, WriteStmts

\* A statement handed over sets the columns the request asks for and no other,
\* every absent attribute left out and every null one written, and it writes
\* nothing just when the request is a read or an update without a value
\* (extract_data, gen_insert, gen_update, handle_delete_rel).
THEOREM WrittenAsAsked == Spec => []WritesAsAsked
  <1>1. Init => IInv /\ PunctuationInv /\ AskedInv
    BY InitInv, InitPunctuated, InitAsked
  <1>2. IInv /\ PunctuationInv /\ AskedInv /\ [Next]_vars => AskedInv'
    BY NextAsked
  <1>3. IInv /\ PunctuationInv /\ [Next]_vars => PunctuationInv'
    BY NextPunctuated
  <1>4. AskedInv => WritesAsAsked
    BY AskedSuffices
  <1> QED
    BY <1>1, <1>2, <1>3, <1>4, Invariant, PTL DEF Spec
==============================================================================
