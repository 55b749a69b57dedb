----------------------------- MODULE PlanProofs -----------------------------
(***************************************************************************)
(* For every store, table store and set of requests: the rows of a CTE are *)
(* labelled by the chain that leads to them, a sorted request reads every  *)
(* sorting element from the rows its chain leads to, and the builder       *)
(* implements QueryPlan.                                                   *)
(***************************************************************************)
EXTENDS ParameterProofs, BuilderPlan

----------------------------------------------------------------------------
(* Reading sections *)

OnlyOne(outs, name, k) == k \in DOMAIN outs /\ \A n \in DOMAIN outs : outs[n].name = name <=> n = k

\* One column of a statement is bound to the label of section s, and another
\* holds the data the section says.
Labelled(stmt, ps, s) ==
  \E i, j \in DOMAIN stmt.outs :
    /\ OnlyOne(stmt.outs, <<"type">>, i) /\ OnlyOne(stmt.outs, <<"data">>, j)
    /\ \E v \in ParamKind : Bound(ps, stmt.outs[i].params[1], [v |-> v, of |-> s.label])
    /\ s = [label |-> s.label, data |-> stmt.outs[j].refs # <<>> \/ stmt.outs[j].bare > 0]

\* The CTE tbl of a buffer answers with section s.
Answers(b, ps, tbl, s) ==
  \E i \in Positions(b, {"cte"}) : b[i].tbl = tbl /\ Labelled(b[i].stmt, ps, s)

\* Positions of a buffer that has grown: the earlier ones, those of what was
\* written, and no others.
LEMMA PositionsBefore ==
  ASSUME NEW a, NEW b, IsSeq(a), IsSeq(b), NEW kinds
  PROVE  \A i \in Positions(a, kinds) : i \in Positions(a \o b, kinds) /\ (a \o b)[i] = a[i]
  <1> DEFINE c == a \o b
  <1>1. /\ Len(a) \in Nat /\ DOMAIN a = 1..Len(a) /\ Len(b) \in Nat
        /\ DOMAIN c = 1..(Len(a) + Len(b))
        /\ \A i \in 1..Len(a) : c[i] = a[i]
    BY ConcatIsSeq
  <1> HIDE DEF c
  <1>2. \A i \in Positions(a, kinds) : i \in Positions(c, kinds) /\ c[i] = a[i]
    BY <1>1 DEF Positions
  <1> QED
    BY <1>2 DEF c

LEMMA PositionsAfter ==
  ASSUME NEW a, NEW b, IsSeq(a), IsSeq(b), NEW kinds
  PROVE  \A j \in Positions(b, kinds) :
           Len(a) + j \in Positions(a \o b, kinds) /\ (a \o b)[Len(a) + j] = b[j]
  <1> DEFINE c == a \o b
             m == Len(a)
             n == Len(b)
  <1>1. /\ m \in Nat /\ n \in Nat /\ DOMAIN b = 1..n /\ DOMAIN c = 1..(m + n)
        /\ \A i \in 1..n : c[m + i] = b[i]
    BY ConcatIsSeq
  <1> HIDE DEF c, m, n
  <1>2. ASSUME NEW j \in Positions(b, kinds) PROVE m + j \in Positions(c, kinds) /\ c[m + j] = b[j]
    <2>1. j \in 1..n /\ b[j].t \in kinds
      BY <1>1 DEF Positions
    <2>2. m + j \in DOMAIN c /\ c[m + j] = b[j]
      BY <1>1, <2>1
    <2> QED
      BY <2>1, <2>2 DEF Positions
  <1> QED
    BY <1>2 DEF c, m

ComesFrom(c, p, a, b, kinds) ==
  \/ p \in Positions(a, kinds) /\ c[p] = a[p]
  \/ \E j \in Positions(b, kinds) : c[p] = b[j]

LEMMA PositionsOfJoined ==
  ASSUME NEW a, NEW b, IsSeq(a), IsSeq(b), NEW kinds
  PROVE  \A p \in Positions(a \o b, kinds) : ComesFrom(a \o b, p, a, b, kinds)
  <1> DEFINE c == a \o b
             m == Len(a)
             n == Len(b)
  <1>1. /\ m \in Nat /\ DOMAIN a = 1..m /\ n \in Nat /\ DOMAIN b = 1..n
        /\ DOMAIN c = 1..(m + n)
        /\ \A i \in 1..m : c[i] = a[i]
        /\ \A i \in 1..n : c[m + i] = b[i]
    BY ConcatIsSeq
  <1> HIDE DEF c, m, n
  <1>2. ASSUME NEW i \in Positions(c, kinds)
        PROVE  \/ i \in Positions(a, kinds) /\ c[i] = a[i]
               \/ \E j \in Positions(b, kinds) : c[i] = b[j]
    <2>1. i \in 1..(m + n) /\ c[i].t \in kinds
      BY <1>1 DEF Positions
    <2>2. CASE i <= m
      <3>1. i \in DOMAIN a /\ c[i] = a[i]
        BY <1>1, <2>1, <2>2
      <3> QED
        BY <2>1, <3>1 DEF Positions
    <2>3. CASE ~(i <= m)
      <3> DEFINE j == i - m
      <3>1. j \in DOMAIN b /\ i = m + j
        BY <1>1, <2>1, <2>3
      <3> HIDE DEF j
      <3>2. c[i] = b[j]
        BY <1>1, <3>1
      <3>3. j \in Positions(b, kinds)
        BY <2>1, <3>1, <3>2 DEF Positions
      <3> QED
        BY <3>2, <3>3
    <2> QED
      BY <2>2, <2>3
  <1> QED
    BY <1>2 DEF c, ComesFrom

\* What a CTE answers with stays what it is when more is written and pushed.
LEMMA AnswersMore ==
  ASSUME NEW a, NEW b, IsSeq(a), IsSeq(b), NEW ps, NEW qs,
         \A n, v : Bound(ps, n, v) => Bound(qs, n, v),
         NEW tbl, NEW s, Answers(a, ps, tbl, s)
  PROVE  Answers(a \o b, qs, tbl, s)
  <1> DEFINE c == a \o b
  <1>1. PICK i \in Positions(a, {"cte"}) : a[i].tbl = tbl /\ Labelled(a[i].stmt, ps, s)
    BY DEF Answers
  <1>2. \A k \in Positions(a, {"cte"}) : k \in Positions(c, {"cte"}) /\ c[k] = a[k]
    BY PositionsBefore
  <1> HIDE DEF c
  <1>3. Labelled(a[i].stmt, qs, s)
    BY <1>1 DEF Labelled
  <1>4. Answers(c, qs, tbl, s)
    BY <1>1, <1>2, <1>3 DEF Answers
  <1> QED
    BY <1>4 DEF c

\* A CTE that has just been written.
LEMMA AnswersNew ==
  ASSUME NEW a, NEW b, IsSeq(a), IsSeq(b), NEW ps, NEW j \in Positions(b, {"cte"}),
         NEW s, Labelled(b[j].stmt, ps, s)
  PROVE  Answers(a \o b, ps, b[j].tbl, s)
  <1> DEFINE c == a \o b
             i == Len(a) + j
  <1>1. \A k \in Positions(b, {"cte"}) : Len(a) + k \in Positions(c, {"cte"}) /\ c[Len(a) + k] = b[k]
    BY PositionsAfter
  <1>2. i \in Positions(c, {"cte"}) /\ c[i] = b[j]
    BY <1>1
  <1> HIDE DEF c, i
  <1>3. Answers(c, ps, b[j].tbl, s)
    BY <1>2 DEF Answers
  <1> QED
    BY <1>3 DEF c

\* The select of a CTE that answers with a section sends it.
LEMMA AnswersRead ==
  ASSUME CteNamesUnique, NEW tbl, NEW s, Answers(buf, params, tbl, s)
  PROVE  LabelOf(tbl) = s.label /\ SentSection(tbl) = s
  <1>1. PICK i \in Positions(buf, {"cte"}) : buf[i].tbl = tbl /\ Labelled(buf[i].stmt, params, s)
    BY DEF Answers
  <1> DEFINE stmt == buf[i].stmt
             outs == stmt.outs
  <1>2. StmtOf(tbl) = stmt
    <2>1. \A k \in CtePositions : buf[k].tbl = tbl <=> k = i
      BY <1>1 DEF CteNamesUnique, NamesUnique, CtePositions
    <2>2. (CHOOSE k \in CtePositions : buf[k].tbl = tbl) = i
      BY <1>1, <2>1 DEF CtePositions
    <2> QED
      BY <2>2 DEF StmtOf, StmtIn, CtePositions
  <1> HIDE DEF stmt
  <1>3. PICK m, n \in DOMAIN outs :
          /\ OnlyOne(outs, <<"type">>, m) /\ OnlyOne(outs, <<"data">>, n)
          /\ \E v \in ParamKind : Bound(params, outs[m].params[1], [v |-> v, of |-> s.label])
          /\ s = [label |-> s.label, data |-> outs[n].refs # <<>> \/ outs[n].bare > 0]
    BY <1>1 DEF Labelled, stmt
  <1>4. (CHOOSE k \in DOMAIN outs : outs[k].name = <<"type">>) = m
    BY <1>3 DEF OnlyOne
  <1>5. (CHOOSE k \in DOMAIN outs : outs[k].name = <<"data">>) = n
    BY <1>3 DEF OnlyOne
  <1>6. params[outs[m].params[1]].of = s.label
    BY <1>3 DEF Bound
  <1>7. LabelOf(tbl) = s.label
    BY <1>2, <1>4, <1>6 DEF LabelOf
  <1>8. SentSection(tbl) = [label |-> LabelOf(tbl), data |-> outs[n].refs # <<>> \/ outs[n].bare > 0]
    BY <1>2, <1>5 DEF SentSection
  <1> QED
    BY <1>3, <1>7, <1>8

----------------------------------------------------------------------------
(* The label and the data of the rows of a data CTE *)

\* Additional columns are named apart from those every data CTE has.
NamedApart(additional) ==
  /\ IsSeq(additional)
  /\ \A i \in DOMAIN additional : additional[i].name[1] \in {"rel", "sort"}

LEMMA ApartJoined ==
  ASSUME NEW a, NEW b, NamedApart(a), NamedApart(b)
  PROVE  NamedApart(a \o b)
  <1> DEFINE c == a \o b
             m == Len(a)
             n == Len(b)
  <1>1. /\ IsSeq(c)
        /\ m \in Nat /\ DOMAIN a = 1..m /\ n \in Nat /\ DOMAIN b = 1..n
        /\ DOMAIN c = 1..(m + n)
        /\ \A i \in 1..m : c[i] = a[i]
        /\ \A i \in 1..n : c[m + i] = b[i]
    BY ConcatIsSeq DEF NamedApart
  <1> HIDE DEF c, m, n
  <1>2. ASSUME NEW i \in DOMAIN c PROVE c[i].name[1] \in {"rel", "sort"}
    <2>1. CASE i <= m
      <3>1. i \in DOMAIN a /\ c[i] = a[i]
        BY <1>1, <1>2, <2>1
      <3> QED
        BY <3>1 DEF NamedApart
    <2>2. CASE ~(i <= m)
      <3> DEFINE j == i - m
      <3>1. j \in DOMAIN b /\ i = m + j
        BY <1>1, <1>2, <2>2
      <3> HIDE DEF j
      <3>2. c[i] = b[j]
        BY <1>1, <3>1
      <3> QED
        BY <3>1, <3>2 DEF NamedApart
    <2> QED
      BY <2>1, <2>2
  <1> QED
    BY <1>1, <1>2 DEF NamedApart, c

\* A word in front of an identifier is its first word.
LEMMA FirstWord ==
  ASSUME NEW ident \in Ident
  PROVE  (<<"rel">> \o ident)[1] = "rel" /\ (<<"sort">> \o ident)[1] = "sort"
  <1>1. ASSUME NEW w PROVE (<<w>> \o ident)[1] = w
    <2> DEFINE s == <<w>>
               c == s \o ident
    <2>1. IsSeq(s) /\ DOMAIN s = {1} /\ s[1] = w /\ IsSeq(ident)
      BY TupleIsSeq, SeqIsSeq DEF Ident
    <2> HIDE DEF s
    <2>2. Len(s) \in Nat /\ DOMAIN s = 1..Len(s) /\ \A i \in 1..Len(s) : c[i] = s[i]
      BY <2>1, ConcatIsSeq
    <2> HIDE DEF c
    <2>3. 1 \in 1..Len(s)
      BY <2>1, <2>2
    <2>4. c[1] = w
      BY <2>1, <2>2, <2>3
    <2> QED
      BY <2>4 DEF c, s
  <1> QED
    BY <1>1, Zenon

LEMMA NoneApart == NamedApart(<<>>)
  BY NoneIsSeq DEF NamedApart

\* The foreign keys of a type, and sorting elements, are named apart.
LEMMA RelFieldsApart ==
  ASSUME NEW t \in Type
  PROVE  NamedApart(RelFields(t))
  <1> DEFINE rels == RelsOf(t)
             kept == Kept(rels, {i \in DOMAIN rels : IsManyToOne(rels[i])})
             f == [i \in DOMAIN kept |-> RelField(kept[i])]
  <1>1. RelFields(t) = MapSeq(RelField, kept)
    BY Zenon DEF RelFields
  <1>2. MapSeq(RelField, kept) = f
    BY Zenon DEF MapSeq
  <1>3. rels \in Seq(Rel)
    BY ResourceAssumption DEF RelsOf
  <1> HIDE DEF rels
  <1>4. kept \in Seq(Rel)
    BY <1>3, KeptTyped
  <1> HIDE DEF kept
  <1>5. ASSUME NEW i \in DOMAIN kept PROVE f[i].name[1] = "rel"
    <2>1. kept[i] \in Rel
      BY <1>4, LenProperties, ElementOfSeq
    <2>2. Relation[kept[i]].key \in Ident
      BY <2>1, RelationAssumption
    <2>3. f[i].name = <<"rel">> \o Relation[kept[i]].key
      BY DEF RelField, RelName
    <2> HIDE DEF f
    <2> QED
      BY <2>2, <2>3, FirstWord
  <1>6. IsSeq(RelFields(t))
    BY RelFieldsTyped
  <1> QED
    BY <1>1, <1>2, <1>5, <1>6 DEF NamedApart

\* Sorting elements that name identifiers.
Sorts(s) == IsSeq(s) /\ \A i \in DOMAIN s : s[i].field \in Ident

LEMMA SortFieldsApart ==
  ASSUME NEW s, Sorts(s)
  PROVE  NamedApart(MapSeq(SortField, s))
  <1> DEFINE f == [i \in DOMAIN s |-> SortField(s[i])]
  <1>1. MapSeq(SortField, s) = f
    BY Zenon DEF MapSeq
  <1>2. ASSUME NEW i \in DOMAIN s PROVE f[i].name[1] = "sort"
    <2>1. f[i].name = <<"sort">> \o s[i].field /\ s[i].field \in Ident
      BY DEF SortField, SortName, Sorts
    <2> HIDE DEF f
    <2> QED
      BY <2>1, FirstWord
  <1>3. IsSeq(MapSeq(SortField, s))
    BY SortFieldsTyped DEF Sorts
  <1> QED
    BY <1>1, <1>2, <1>3 DEF NamedApart

\* A CTE says whether its rows carry data.
LEMMA JsonData ==
  ASSUME NEW tbl, NEW t, NEW fields \in Seq(Ident), NEW n
  PROVE  LET o == JsonOut(tbl, t, fields, n) IN
         o.name = <<"data">> /\ (o.refs # <<>> \/ o.bare > 0 <=> fields # <<>>)
  <1> DEFINE plain == PlainFields(fields, t)
             refs == MapSeq(LAMBDA f : Ref(tbl, f), plain)
             o == JsonOut(tbl, t, fields, n)
             P == {i \in DOMAIN fields : fields[i] \notin ObjNames(t)}
  <1>1. o.name = <<"data">> /\ o.refs = refs /\ o.bare = Len(fields) - Len(plain)
    BY DEF JsonOut
  <1>2. plain \in Seq(Ident) /\ ToSet(plain) = {fields[i] : i \in DOMAIN fields \cap P}
    <2> HIDE DEF P
    <2>1. plain = Kept(fields, P)
      BY DEF PlainFields, P
    <2> HIDE DEF plain
    <2> QED
      BY <2>1, KeptTyped, KeptElements
  <1>3. refs = [i \in DOMAIN plain |-> Ref(tbl, plain[i])]
    BY Zenon DEF MapSeq
  <1> HIDE DEF o, plain, refs, P
  <1>4. Len(plain) \in Nat /\ DOMAIN plain = 1..Len(plain) /\ Len(fields) \in Nat /\ DOMAIN fields = 1..Len(fields)
    BY <1>2, LenProperties
  <1>5. (refs = <<>>) <=> (plain = <<>>)
    <2>1. FunctionOn(refs, DOMAIN plain) /\ IsSeq(plain)
      BY <1>2, <1>3, SeqIsSeq DEF FunctionOn
    <2>2. IsSeq(refs) /\ DOMAIN refs = DOMAIN plain
      BY <2>1, MapIsSeq
    <2>3. (refs = <<>>) <=> (ToSet(refs) = {})
      BY <2>2, NoElements
    <2>4. (plain = <<>>) <=> (ToSet(plain) = {})
      BY <2>1, NoElements
    <2> QED
      BY <2>2, <2>3, <2>4 DEF ToSet
  <1>6. CASE fields = <<>>
    <2>1. ToSet(plain) = {}
      BY <1>2, <1>6
    <2>2. IsSeq(plain)
      BY <1>2, SeqIsSeq
    <2>3. plain = <<>>
      BY <2>1, <2>2, NoElements
    <2>4. Len(plain) = 0 /\ Len(fields) = 0
      BY <1>6, <2>3
    <2> QED
      BY <1>1, <1>5, <1>6, <2>3, <2>4 DEF o
  <1>7. CASE fields # <<>>
    <2>1. Len(fields) > 0
      BY <1>4, <1>7, EmptySeq
    <2>2. CASE plain = <<>>
      <3>1. Len(plain) = 0
        BY <2>2
      <3>2. o.bare > 0
        BY <1>1, <1>4, <2>1, <3>1
      <3> QED
        BY <1>1, <1>7, <3>2 DEF o
    <2>3. CASE plain # <<>>
      BY <1>1, <1>5, <1>7, <2>3 DEF o
    <2> QED
      BY <2>2, <2>3
  <1> QED
    BY <1>6, <1>7

\* The label of a data CTE, bound by the last parameter of its head.
SelectLabel(t, relating) == IF relating = <<>> THEN <<t>> ELSE ChainLabel(relating[1].chain)

LEMMA HeadLabelled ==
  ASSUME NEW ps, NEW n \in Nat, NEW t, NEW relating, Holds(ps, n, HeadParams(t, relating))
  PROVE  \E a, b, c :
           /\ HeadOuts(relating, n) = <<a, b, c>>
           /\ a.name = RelatedId /\ b.name = RelatedTypeCol /\ c.name = <<"type">>
           /\ \E v \in ParamKind : Bound(ps, c.params[1], [v |-> v, of |-> SelectLabel(t, relating)])
  <1>1. CASE relating = <<>>
    <2> DEFINE a == Out(RelatedId, <<>>, <<>>)
               b == Out(RelatedTypeCol, <<>>, <<>>)
               c == Out(<<"type">>, <<>>, <<n + 1>>)
               v == [v |-> "type", of |-> <<t>>]
    <2>1. HeadOuts(relating, n) = <<a, b, c>> /\ HeadParams(t, relating) = <<v>>
      BY <1>1 DEF HeadOuts, HeadParams
    <2>2. 1 \in DOMAIN <<v>> /\ <<v>>[1] = v
      OBVIOUS
    <2>3. Bound(ps, n + 1, v)
      BY <2>1, <2>2 DEF Holds
    <2>4. SelectLabel(t, relating) = <<t>>
      BY <1>1 DEF SelectLabel
    <2>5. a.name = RelatedId /\ b.name = RelatedTypeCol /\ c.name = <<"type">> /\ c.params[1] = n + 1
      BY DEF Out
    <2>6. v.v \in ParamKind /\ v = [v |-> v.v, of |-> SelectLabel(t, relating)]
      BY <2>4 DEF ParamKind
    <2> HIDE DEF a, b, c, v
    <2> QED
      BY <2>1, <2>3, <2>5, <2>6
  <1>2. CASE relating # <<>>
    <2> DEFINE a == Out(RelatedId, <<Ref(relating[1].tbl, KeyIdent(relating[1].tbl.type))>>, <<>>)
               b == Out(RelatedTypeCol, <<>>, <<n + 1>>)
               c == Out(<<"type">>, <<>>, <<n + 2>>)
               u == [v |-> "type", of |-> <<relating[1].tbl.type>>]
               v == [v |-> "chain", of |-> ChainLabel(relating[1].chain)]
    <2>1. HeadOuts(relating, n) = <<a, b, c>> /\ HeadParams(t, relating) = <<u, v>>
      BY <1>2 DEF HeadOuts, HeadParams
    <2>2. 2 \in DOMAIN <<u, v>> /\ <<u, v>>[2] = v
      OBVIOUS
    <2>3. Bound(ps, n + 2, v)
      <3> HIDE DEF u, v
      <3> QED
        BY <2>1, <2>2 DEF Holds
    <2>4. SelectLabel(t, relating) = ChainLabel(relating[1].chain)
      BY <1>2 DEF SelectLabel
    <2>5. a.name = RelatedId /\ b.name = RelatedTypeCol /\ c.name = <<"type">> /\ c.params[1] = n + 2
      BY DEF Out
    <2>6. v.v \in ParamKind /\ v = [v |-> v.v, of |-> SelectLabel(t, relating)]
      BY <2>4 DEF ParamKind
    <2> HIDE DEF a, b, c, v
    <2> QED
      BY <2>1, <2>3, <2>5, <2>6
  <1> QED
    BY <1>1, <1>2

\* The columns of a data CTE: the six every one has, then the additional ones.
LEMMA SixOuts ==
  ASSUME NEW x, NEW y, NEW a, NEW b, NEW c, NEW json, NEW adds, IsSeq(adds)
  PROVE  LET outs == <<x, y>> \o <<a, b, c>> \o <<json>> \o adds IN
         /\ DOMAIN outs = 1..(6 + Len(adds)) /\ Len(adds) \in Nat /\ DOMAIN adds = 1..Len(adds)
         /\ outs[1] = x /\ outs[2] = y /\ outs[3] = a /\ outs[4] = b /\ outs[5] = c /\ outs[6] = json
         /\ \A i \in DOMAIN adds : outs[6 + i] = adds[i]
  <1> DEFINE six == <<x, y, a, b, c, json>>
             all == <<x, y>> \o <<a, b, c>> \o <<json>> \o adds
  <1>1. <<x, y>> \o <<a, b, c>> \o <<json>> = six
    <2> DEFINE S == {x, y, a, b, c, json}
               two == <<x, y>>
               three == <<a, b, c>>
               five == <<x, y, a, b, c>>
               one == <<json>>
    <2>1. /\ two \in Seq(S) /\ three \in Seq(S) /\ five \in Seq(S) /\ one \in Seq(S) /\ six \in Seq(S)
          /\ Len(two) = 2 /\ Len(three) = 3 /\ Len(five) = 5 /\ Len(one) = 1 /\ Len(six) = 6
      OBVIOUS
    <2>2. \A i \in 1..2 : five[i] = two[i]
      OBVIOUS
    <2>3. \A i \in 1..3 : five[2 + i] = three[i]
      OBVIOUS
    <2>4. \A i \in 1..5 : six[i] = five[i]
      OBVIOUS
    <2>5. \A i \in 1..1 : six[5 + i] = one[i]
      OBVIOUS
    <2> HIDE DEF S, two, three, five, one, six
    <2>6. five = two \o three
      <3>1. Len(five) = Len(two) + Len(three)
        BY <2>1
      <3>2. \A i \in 1..Len(two) : five[i] = two[i]
        BY <2>1, <2>2
      <3>3. \A i \in 1..Len(three) : five[Len(two) + i] = three[i]
        BY <2>1, <2>3
      <3> QED
        BY <2>1, <3>1, <3>2, <3>3, ConcatIs
    <2>7. six = five \o one
      <3>1. Len(six) = Len(five) + Len(one)
        BY <2>1
      <3>2. \A i \in 1..Len(five) : six[i] = five[i]
        BY <2>1, <2>4
      <3>3. \A i \in 1..Len(one) : six[Len(five) + i] = one[i]
        BY <2>1, <2>5
      <3> QED
        BY <2>1, <3>1, <3>2, <3>3, ConcatIs
    <2> QED
      BY <2>6, <2>7 DEF two, three, one
  <1>2. IsSeq(six) /\ Len(six) = 6
    <2> DEFINE S == {x, y, a, b, c, json}
    <2>1. six \in Seq(S) /\ Len(six) = 6
      OBVIOUS
    <2> HIDE DEF six
    <2> QED
      BY <2>1, SeqIsSeq
  <1>3. six[1] = x /\ six[2] = y /\ six[3] = a /\ six[4] = b /\ six[5] = c /\ six[6] = json
    OBVIOUS
  <1>4. all = six \o adds
    BY <1>1
  <1> HIDE DEF six, all
  <1>5. /\ Len(adds) \in Nat /\ DOMAIN adds = 1..Len(adds)
        /\ DOMAIN all = 1..(6 + Len(adds))
        /\ \A i \in 1..6 : all[i] = six[i]
        /\ \A i \in 1..Len(adds) : all[6 + i] = adds[i]
    <2> DEFINE m == Len(six)
               n == Len(adds)
    <2>1. /\ n \in Nat /\ DOMAIN adds = 1..n
          /\ DOMAIN all = 1..(m + n)
          /\ \A i \in 1..m : all[i] = six[i]
          /\ \A i \in 1..n : all[m + i] = adds[i]
      <3>1. IsSeq(six)
        BY <1>2
      <3> HIDE DEF m, n
      <3>2. /\ Len(adds) \in Nat /\ DOMAIN adds = 1..Len(adds)
            /\ DOMAIN all = 1..(Len(six) + Len(adds))
            /\ \A i \in 1..Len(six) : all[i] = six[i]
            /\ \A i \in 1..Len(adds) : all[Len(six) + i] = adds[i]
        BY <1>4, <3>1, ConcatIsSeq
      <3> QED
        BY <3>2 DEF m, n
    <2>2. m = 6
      BY <1>2
    <2> HIDE DEF m
    <2>3. /\ n \in Nat /\ DOMAIN adds = 1..n
          /\ DOMAIN all = 1..(6 + n)
          /\ \A i \in 1..6 : all[i] = six[i]
          /\ \A i \in 1..n : all[6 + i] = adds[i]
      BY <2>1, <2>2
    <2> QED
      BY <2>3
  <1>6. 1 \in 1..6 /\ 2 \in 1..6 /\ 3 \in 1..6 /\ 4 \in 1..6 /\ 5 \in 1..6 /\ 6 \in 1..6
    OBVIOUS
  <1>7. all[1] = x /\ all[2] = y /\ all[3] = a /\ all[4] = b /\ all[5] = c /\ all[6] = json
    BY <1>3, <1>5, <1>6
  <1> QED
    BY <1>5, <1>7 DEF all

\* The first words of the names of the columns of a data CTE.
LEMMA NamesOfColumns ==
  /\ Id[1] = "id" /\ MainId[1] = "main" /\ RelatedId[1] = "related" /\ RelatedTypeCol[1] = "related"
  /\ <<"type">>[1] = "type" /\ <<"data">>[1] = "data"
  BY DEF Id, MainId, RelatedId, RelatedTypeCol

LEMMA SelectLabelled ==
  ASSUME NEW ps, NEW n \in Nat, NEW stmt, NEW tbl, NEW t, NEW relating, NEW fields \in Seq(Ident),
         NEW additional, NamedApart(additional),
         stmt.outs = SelectOuts(tbl, t, relating, additional, fields, n),
         Holds(ps, n, SelectParams(t, relating, fields))
  PROVE  Labelled(stmt, ps, [label |-> SelectLabel(t, relating), data |-> fields # <<>>])
  <1> DEFINE head == HeadParams(t, relating)
             keys == MapSeq(LAMBDA f : [v |-> "key", of |-> f], PlainFields(fields, t))
             x == Out(Id, PrettyRefs(tbl), <<>>)
             y == Out(MainId, KeyRefs(tbl), <<>>)
             m == n + Len(head)
             json == JsonOut(tbl, t, fields, m)
             adds == MapSeq(LAMBDA f : Out(f.name, <<Ref(tbl, f.col)>>, <<>>), additional)
             pushed == SelectParams(t, relating, fields)
             outs == stmt.outs
             label == SelectLabel(t, relating)
  <1>1. pushed = head \o keys
    BY Zenon DEF SelectParams
  <1>2. outs = <<x, y>> \o HeadOuts(relating, n) \o <<json>> \o adds
    BY Zenon DEF SelectOuts
  <1>3. IsSeq(head)
    BY HeadsCarry
  <1>4. IsSeq(keys)
    <2> DEFINE plain == PlainFields(fields, t)
    <2>1. plain \in Seq(Ident)
      BY KeptTyped DEF PlainFields
    <2>2. IsSeq(plain)
      BY <2>1, SeqIsSeq
    <2>3. keys = [i \in DOMAIN plain |-> [v |-> "key", of |-> plain[i]]]
      BY Zenon DEF MapSeq
    <2> HIDE DEF plain, keys
    <2>4. FunctionOn(keys, DOMAIN plain)
      BY <2>3 DEF FunctionOn
    <2> QED
      BY <2>2, <2>4, MapIsSeq
  <1>5. Holds(ps, n, head)
    <2> HIDE DEF pushed, head, keys
    <2>1. Holds(ps, n, head \o keys)
      BY <1>1 DEF pushed
    <2> QED
      BY <1>3, <1>4, <2>1, HoldsJoined
  <1>6. PICK a, b, c :
          /\ HeadOuts(relating, n) = <<a, b, c>>
          /\ a.name = RelatedId /\ b.name = RelatedTypeCol /\ c.name = <<"type">>
          /\ \E v \in ParamKind : Bound(ps, c.params[1], [v |-> v, of |-> label])
    BY <1>5, HeadLabelled
  <1>7. x.name = Id /\ y.name = MainId
    BY DEF Out
  <1>8. json.name = <<"data">> /\ (json.refs # <<>> \/ json.bare > 0 <=> fields # <<>>)
    BY JsonData
  <1>9. adds = [i \in DOMAIN additional |-> Out(additional[i].name, <<Ref(tbl, additional[i].col)>>, <<>>)]
    BY Zenon DEF MapSeq
  <1>10. IsSeq(adds) /\ \A i \in DOMAIN adds : adds[i].name[1] \in {"rel", "sort"}
    <2> HIDE DEF adds
    <2>1. FunctionOn(adds, DOMAIN additional) /\ \A i \in DOMAIN additional : adds[i].name = additional[i].name
      BY <1>9 DEF FunctionOn, Out
    <2>2. IsSeq(adds) /\ DOMAIN adds = DOMAIN additional
      BY <2>1, MapIsSeq DEF NamedApart
    <2> QED
      BY <2>1, <2>2 DEF NamedApart
  <1> HIDE DEF x, y, json, adds, outs, head, keys, pushed, label
  <1>11. outs = <<x, y>> \o <<a, b, c>> \o <<json>> \o adds
    BY <1>2, <1>6, Zenon
  <1>12. /\ DOMAIN outs = 1..(6 + Len(adds)) /\ Len(adds) \in Nat /\ DOMAIN adds = 1..Len(adds)
         /\ outs[1] = x /\ outs[2] = y /\ outs[3] = a /\ outs[4] = b /\ outs[5] = c /\ outs[6] = json
         /\ \A i \in DOMAIN adds : outs[6 + i] = adds[i]
    BY <1>10, <1>11, SixOuts
  <1>13. /\ outs[1].name[1] = "id" /\ outs[2].name[1] = "main"
         /\ outs[3].name[1] = "related" /\ outs[4].name[1] = "related"
         /\ outs[5].name = <<"type">> /\ outs[6].name = <<"data">>
    BY <1>6, <1>7, <1>8, <1>12, NamesOfColumns
  <1>14. ASSUME NEW k \in DOMAIN outs, k \notin 1..6 PROVE outs[k].name[1] \in {"rel", "sort"}
    <2> DEFINE i == k - 6
    <2>1. i \in DOMAIN adds /\ k = 6 + i
      BY <1>12, <1>14
    <2> HIDE DEF i
    <2>2. outs[k] = adds[i]
      BY <1>12, <2>1
    <2> QED
      BY <1>10, <2>1, <2>2
  <1>15. \A k \in DOMAIN outs : k = 1 \/ k = 2 \/ k = 3 \/ k = 4 \/ k = 5 \/ k = 6 \/ k \notin 1..6
    BY <1>12
  <1>16. 5 \in DOMAIN outs /\ 6 \in DOMAIN outs
    BY <1>12
  <1>17. OnlyOne(outs, <<"type">>, 5)
    BY <1>13, <1>14, <1>15, <1>16, NamesOfColumns DEF OnlyOne
  <1>18. OnlyOne(outs, <<"data">>, 6)
    BY <1>13, <1>14, <1>15, <1>16, NamesOfColumns DEF OnlyOne
  <1>19. \E v \in ParamKind : Bound(ps, outs[5].params[1], [v |-> v, of |-> label])
    BY <1>6, <1>12
  <1>20. fields # <<>> <=> outs[6].refs # <<>> \/ outs[6].bare > 0
    BY <1>8, <1>12
  <1> DEFINE s == [label |-> label, data |-> fields # <<>>]
  <1>21. s.label = label /\ s = [label |-> s.label, data |-> outs[6].refs # <<>> \/ outs[6].bare > 0]
    BY <1>20, Zenon
  <1> HIDE DEF s
  <1>22. Labelled(stmt, ps, s)
    BY <1>16, <1>17, <1>18, <1>19, <1>21 DEF Labelled, outs
  <1> QED
    BY <1>22 DEF s, label

----------------------------------------------------------------------------
(* The invariant *)

\* The section of the main data, and that of the rows a chain leads to.
MainSection ==
  IF ReadsRel THEN LinkageSection(req.path.rels)
  ELSE IF WritesRel THEN TypeSection(req.path.type)
  ELSE TypeSection(MainType(req.path))
RowsSection(c, resp) == Section(ChainLabel(c), RelatedType(Last(c)), Returned(Last(c), resp))

\* A column of the final CTE for sorting element k, and a select ordered by it.
ReadsSort(b, ps, stmt, k) ==
  LET s == req.sort[k] IN
  /\ \E o \in DOMAIN stmt.outs :
       /\ stmt.outs[o].name = SortAlias(s)
       /\ stmt.outs[o].refs[1].col = SortName(s.field)
       /\ IF s.chain = <<>> THEN stmt.outs[o].refs[1].tbl = stmt.from
          ELSE \E d \in BOOLEAN :
                 Answers(b, ps, stmt.outs[o].refs[1].tbl, [label |-> ChainLabel(s.chain), data |-> d])
  /\ \E i \in Positions(b, {"select"}) :
       k \in DOMAIN b[i].order /\ b[i].order[k] = [col |-> SortAlias(s), desc |-> s.desc]

\* The final CTE, once it is written, reads every sorting element.
FinalsRead(b, ps) ==
  \A i \in Positions(b, {"cte"}) : b[i].stmt.q = "final" /\ ~SortedByPath =>
    \A k \in DOMAIN req.sort : ReadsSort(b, ps, b[i].stmt, k)

\* What select_rels holds on to answers for what it stands for.
AnswersKept ==
  /\ pc = "rels" =>
       /\ Answers(buf, params, main, MainSection)
       /\ Sorts(at.sorts) /\ \A c \in DOMAIN todo : Sorts(todo[c].sorts)
  /\ \A c \in DOMAIN working_tables :
       c # <<>> /\ Answers(buf, params, working_tables[c].tbl, RowsSection(c, working_tables[c].resp))

AnswerInv == AnswersKept /\ FinalsRead(buf, params)

----------------------------------------------------------------------------
(* What is written and pushed *)

Grows(toks, vs) ==
  buf' = buf \o toks /\ params' = params \o vs /\ IsSeq(toks) /\ IsSeq(vs)

LEMMA AnswersGrow ==
  ASSUME IInv, ParamsInv, NEW toks, NEW vs, Grows(toks, vs)
  PROVE  \A tbl, s : Answers(buf, params, tbl, s) => Answers(buf', params', tbl, s)
  <1>1. IsSeq(buf) /\ IsSeq(params)
    BY DEF IInv, BufferInv, ParamsInv
  <1>2. \A n, v : Bound(params, n, v) => Bound(params', n, v)
    BY <1>1, HoldsPushed DEF Grows
  <1>3. ASSUME NEW tbl, NEW s, Answers(buf, params, tbl, s) PROVE Answers(buf', params', tbl, s)
    <2>1. Answers(buf \o toks, params', tbl, s)
      BY <1>1, <1>2, <1>3, AnswersMore DEF Grows
    <2> QED
      BY <2>1 DEF Grows
  <1> QED
    BY <1>3

LEMMA AnswersWritten ==
  ASSUME IInv, ParamsInv, NEW toks, NEW vs, Grows(toks, vs),
         NEW j \in Positions(toks, {"cte"}), NEW s, Labelled(toks[j].stmt, params', s)
  PROVE  Answers(buf', params', toks[j].tbl, s)
  <1>1. IsSeq(buf) /\ IsSeq(toks)
    BY DEF IInv, BufferInv, Grows
  <1>2. Answers(buf \o toks, params', toks[j].tbl, s)
    BY <1>1, AnswersNew
  <1> QED
    BY <1>2 DEF Grows

\* What a final CTE reads it goes on reading.
LEMMA ReadsGrow ==
  ASSUME IInv, ParamsInv, NEW toks, NEW vs, Grows(toks, vs), NEW stmt, NEW k,
         ReadsSort(buf, params, stmt, k)
  PROVE  ReadsSort(buf', params', stmt, k)
  <1>1. \A tbl, s : Answers(buf, params, tbl, s) => Answers(buf', params', tbl, s)
    BY AnswersGrow
  <1>2. IsSeq(buf) /\ IsSeq(toks) /\ buf' = buf \o toks
    BY DEF IInv, BufferInv, Grows
  <1>3. \A i \in Positions(buf, {"select"}) : i \in Positions(buf', {"select"}) /\ buf'[i] = buf[i]
    BY <1>2, PositionsBefore
  <1> QED
    BY <1>1, <1>3 DEF ReadsSort

LEMMA FinalsGrow ==
  ASSUME IInv, ParamsInv, FinalsRead(buf, params), NEW toks, NEW vs, Grows(toks, vs), req' = req,
         \A j \in Positions(toks, {"cte"}) : toks[j].stmt.q = "final" /\ ~SortedByPath =>
           \A k \in DOMAIN req.sort : ReadsSort(buf', params', toks[j].stmt, k)
  PROVE  FinalsRead(buf, params)'
  <1>1. IsSeq(buf) /\ IsSeq(toks) /\ buf' = buf \o toks
    BY DEF IInv, BufferInv, Grows
  <1>2. ASSUME NEW i \in Positions(buf', {"cte"}), buf'[i].stmt.q = "final", ~SortedByPath,
               NEW k \in DOMAIN req.sort
        PROVE  ReadsSort(buf', params', buf'[i].stmt, k)
    <2>1. \/ i \in Positions(buf, {"cte"}) /\ buf'[i] = buf[i]
          \/ \E j \in Positions(toks, {"cte"}) : buf'[i] = toks[j]
      <3>1. \A l \in Positions(buf \o toks, {"cte"}) : ComesFrom(buf \o toks, l, buf, toks, {"cte"})
        BY <1>1, PositionsOfJoined
      <3>2. ComesFrom(buf', i, buf, toks, {"cte"})
        BY <1>1, <3>1
      <3> QED
        BY <3>2 DEF ComesFrom
    <2>2. CASE i \in Positions(buf, {"cte"}) /\ buf'[i] = buf[i]
      <3>1. ReadsSort(buf, params, buf[i].stmt, k)
        BY <1>2, <2>2 DEF FinalsRead
      <3> QED
        BY <2>2, <3>1, ReadsGrow
    <2>3. CASE \E j \in Positions(toks, {"cte"}) : buf'[i] = toks[j]
      BY <1>2, <2>3
    <2> QED
      BY <2>1, <2>2, <2>3
  <1>3. SortedByPath' = SortedByPath
    BY DEF SortedByPath, WritesRel
  <1> SUFFICES ASSUME NEW i \in Positions(buf', {"cte"}), buf'[i].stmt.q = "final", ~SortedByPath,
                      NEW k \in DOMAIN req.sort
               PROVE  ReadsSort(buf, params, buf[i].stmt, k)'
    BY <1>3 DEF FinalsRead
  <1>4. ReadsSort(buf', params', buf'[i].stmt, k)
    BY <1>2
  <1> QED
    BY <1>4 DEF ReadsSort

----------------------------------------------------------------------------
(* The steps that begin *)

\* The rows of type t, with their attributes or without.
LEMMA SectionIs ==
  ASSUME NEW label, NEW t, NEW include \in BOOLEAN
  PROVE  [label |-> label, data |-> JsonFields(req.sparse, t, include) # <<>>] = Section(label, t, include)
  <1> DEFINE f(i) == JsonFields(req.sparse, t, i) # <<>>
  <1>1. f(include) = (include /\ f(TRUE))
    <2>1. CASE include = TRUE
      BY <2>1
    <2>2. CASE include = FALSE
      <3>1. JsonFields(req.sparse, t, FALSE) = <<>>
        BY DEF JsonFields
      <3> QED
        BY <2>2, <3>1
    <2> QED
      BY <2>1, <2>2
  <1> HIDE DEF f
  <1>2. [label |-> label, data |-> f(include)] = [label |-> label, data |-> include /\ f(TRUE)]
    BY <1>1, Zenon
  <1> QED
    BY <1>2, Zenon DEF Section, f

\* The sorting elements of a chain name identifiers.
LEMMA SortsOfChain ==
  ASSUME IsRequest(req), NEW c
  PROVE  Sorts(Reverse(SortsOf(req, c)))
  <1> DEFINE s == SortsOf(req, c)
             S == [chain : Seq(Rel), field : Ident, desc : BOOLEAN]
             r == Reverse(s)
  <1>1. s \in Seq(S)
    BY KeptTyped DEF IsRequest, SortsOf
  <1>2. \A e \in S : e.field \in Ident
    OBVIOUS
  <1> HIDE DEF s, S, r
  <1>3. IsSeq(s) /\ \A i \in DOMAIN s : s[i] \in S
    BY <1>1, SeqIsSeq, LenProperties, ElementOfSeq
  <1>4. IsSeq(r) /\ ToSet(r) = ToSet(s)
    BY <1>3, ElementsOfReverse DEF r
  <1>5. ASSUME NEW i \in DOMAIN r PROVE r[i].field \in Ident
    <2>1. r[i] \in ToSet(s)
      BY <1>4 DEF ToSet
    <2>2. r[i] \in S
      BY <1>3, <2>1 DEF ToSet
    <2> QED
      BY <1>2, <2>2
  <1> QED
    BY <1>4, <1>5 DEF Sorts, r, s

LEMMA MapSorts ==
  ASSUME IsRequest(req)
  PROVE  \A c \in DOMAIN BuildInclusionMap(req) :
           /\ Sorts(BuildInclusionMap(req)[c].sorts)
           /\ Sorts(Unwanted(BuildInclusionMap(req))[c].sorts)
  <1> DEFINE map == BuildInclusionMap(req)
  <1>1. \A c \in DOMAIN map : map[c].sorts = Reverse(SortsOf(req, c))
    BY DEF BuildInclusionMap
  <1>2. \A c \in DOMAIN map : Sorts(map[c].sorts)
    BY <1>1, SortsOfChain
  <1>3. \A c \in DOMAIN map : map[c] = [resp |-> map[c].resp, sorts |-> map[c].sorts]
    BY DEF BuildInclusionMap
  <1> HIDE DEF map
  <1>4. \A c \in DOMAIN map : Unwanted(map)[c].sorts = map[c].sorts
    BY <1>3 DEF Unwanted
  <1> QED
    BY <1>2, <1>4 DEF map

LEMMA SortKeysApart ==
  ASSUME IsRequest(req)
  PROVE  NamedApart(SortKeysForMain(req))
  <1>1. CASE <<>> \in SortChains(req)
    <2>1. <<>> \in DOMAIN BuildInclusionMap(req)
      BY <1>1 DEF BuildInclusionMap
    <2>2. Sorts(BuildInclusionMap(req)[<<>>].sorts)
      BY <2>1, MapSorts
    <2>3. NamedApart(MapSeq(SortField, BuildInclusionMap(req)[<<>>].sorts))
      BY <2>2, SortFieldsApart
    <2> QED
      BY <1>1, <2>3 DEF SortKeysForMain
  <1>2. CASE <<>> \notin SortChains(req)
    BY <1>2, NoneApart DEF SortKeysForMain
  <1> QED
    BY <1>1, <1>2

\* Where the CTEs and the selects of what is written are.
LEMMA TokensAt ==
  ASSUME NEW a, NEW b, a.t \notin {"cte", "select"}, b.t = "cte"
  PROVE  /\ Positions(<<a, b>>, {"cte"}) = {2} /\ <<a, b>>[2] = b /\ IsSeq(<<a, b>>)
         /\ Positions(<<a, b>>, {"select"}) = {}
  <1> DEFINE s == <<a, b>>
  <1>1. DOMAIN s = {1, 2} /\ s[1] = a /\ s[2] = b /\ IsSeq(s)
    BY TupleIsSeq
  <1> HIDE DEF s
  <1>2. Positions(s, {"cte"}) = {2} /\ Positions(s, {"select"}) = {}
    BY <1>1 DEF Positions
  <1> QED
    BY <1>1, <1>2 DEF s

LEMMA FourTokensAt ==
  ASSUME NEW a, NEW b, NEW c, NEW d, a.t \notin {"cte", "select"}, c.t \notin {"cte", "select"},
         b.t = "cte", d.t = "cte"
  PROVE  /\ Positions(<<a, b, c, d>>, {"cte"}) = {2, 4} /\ IsSeq(<<a, b, c, d>>)
         /\ <<a, b, c, d>>[2] = b /\ <<a, b, c, d>>[4] = d
         /\ Positions(<<a, b, c, d>>, {"select"}) = {}
  <1> DEFINE s == <<a, b, c, d>>
  <1>1. DOMAIN s = {1, 2, 3, 4} /\ s[1] = a /\ s[2] = b /\ s[3] = c /\ s[4] = d /\ IsSeq(s)
    <2>1. DOMAIN s = {1, 2, 3, 4} /\ IsSeq(s)
      <3> DEFINE S == {a, b, c, d}
      <3>1. s \in Seq(S)
        OBVIOUS
      <3>2. DOMAIN s = {1, 2, 3, 4}
        OBVIOUS
      <3> HIDE DEF s, S
      <3> QED
        BY <3>1, <3>2, SeqIsSeq
    <2>2. s[1] = a /\ s[2] = b /\ s[3] = c /\ s[4] = d
      OBVIOUS
    <2> QED
      BY <2>1, <2>2
  <1> HIDE DEF s
  <1>2. Positions(s, {"cte"}) = {2, 4} /\ Positions(s, {"select"}) = {}
    BY <1>1 DEF Positions
  <1> QED
    BY <1>1, <1>2 DEF s

\* select_rels begins to go through a map of chains; no select is written yet.
Begins(map) ==
  \E toks, vs, data :
    /\ Grows(toks, vs) /\ Positions(toks, {"select"}) = {}
    /\ data.suffix = "data" /\ SelectRelsFrom(data, map)

\* select_rels begins from the CTE of the main data.
LEMMA SelectRelsFromAnswers ==
  ASSUME IInv, ParamsInv, AnswerInv, NEW toks, NEW vs, Grows(toks, vs), NEW data, NEW map,
         SelectRelsFrom(data, map), \A c \in DOMAIN map : Sorts(map[c].sorts),
         \A i \in Positions(toks, {"cte"}) : toks[i].stmt.q # "final",
         Positions(toks, {"select"}) = {}, data.suffix = "data",
         NEW j \in Positions(toks, {"cte"}), toks[j].tbl = data,
         Labelled(toks[j].stmt, params', MainSection)
  PROVE  AnswerInv' /\ Begins(map)
  <1>1. /\ main' = data /\ todo' = map /\ at'.sorts = <<>>
        /\ UNCHANGED <<req, working_tables>>
    BY DEF SelectRelsFrom, Nowhere, Enter
  <1>2. Answers(buf', params', main', MainSection)
    BY <1>1, AnswersWritten
  <1>3. MainSection' = MainSection /\ \A c, resp : RowsSection(c, resp)' = RowsSection(c, resp)
    BY <1>1 DEF MainSection, RowsSection, Section, LinkageSection, TypeSection, ReadsRel, WritesRel
  <1>4. \A tbl, s : Answers(buf, params, tbl, s) => Answers(buf', params', tbl, s)
    BY AnswersGrow
  <1>5. FinalsRead(buf, params)'
    BY <1>1, FinalsGrow DEF AnswerInv
  <1>6. Sorts(<<>>)
    BY NoneIsSeq DEF Sorts
  <1>7. AnswersKept'
    BY <1>1, <1>2, <1>3, <1>4, <1>6 DEF AnswerInv, AnswersKept
  <1>8. Begins(map)
    BY DEF Begins
  <1> QED
    BY <1>5, <1>7, <1>8 DEF AnswerInv

\* What the parameters of a first statement, and of a second one, are bound to.
LEMMA FirstPushed ==
  ASSUME ParamsInv, pc = "start", NEW a, NEW b, IsSeq(a), IsSeq(b), params' = params \o a \o b
  PROVE  /\ params' = params \o (a \o b) /\ IsSeq(a \o b)
         /\ Holds(params', 0, a) /\ Holds(params', Len(a), b) /\ Len(a) \in Nat
  <1> DEFINE c == a \o b
  <1>1. params = <<>> /\ IsSeq(params)
    BY DEF ParamsInv
  <1>2. IsSeq(c) /\ Len(a) \in Nat
    BY ConcatLen
  <1>3. params \o a = a /\ params \o c = c
    BY <1>1, <1>2, NoneJoined
  <1>4. params' = params \o c
    BY <1>3
  <1> HIDE DEF c
  <1>5. Holds(params \o c, Len(params), c)
    BY <1>1, <1>2, HoldsPushed
  <1>6. Len(params) = 0 /\ 0 \in Nat /\ 0 + Len(a) = Len(a)
    BY <1>1, <1>2
  <1>7. Holds(params', 0, a \o b)
    BY <1>4, <1>5, <1>6 DEF c
  <1>8. Holds(params', 0, a) /\ Holds(params', 0 + Len(a), b)
    BY <1>6, <1>7, HoldsJoined
  <1> QED
    BY <1>2, <1>4, <1>6, <1>8 DEF c

LEMMA TokensOf ==
  /\ With.t \notin {"cte", "select"} /\ Comma.t \notin {"cte", "select"}
  /\ \A tbl, stmt : Cte(tbl, stmt).t = "cte" /\ Cte(tbl, stmt).tbl = tbl /\ Cte(tbl, stmt).stmt = stmt
  /\ \A q, from, outs, joins, sets, where :
       Stmt(q, from, outs, joins, sets, where).q = q /\ Stmt(q, from, outs, joins, sets, where).outs = outs
  BY DEF With, Comma, Cte, Stmt

LEMMA GenSelectAnswers ==
  ASSUME IInv, ParamsInv, AnswerInv, GenSelect
  PROVE  AnswerInv' /\ Begins(BuildInclusionMap(req))
  <1> DEFINE t == MainTable.type
             fields == JsonFields(req.sparse, t, TRUE)
             data == ToCte(t, "plain", "data", cte_index)
             pushed == SelectParams(t, <<>>, fields)
             joins == IF req.path.kind = "TypeIdRelated"
                      THEN GenInnerJoin(PathRel, PathTable, MainTable) ELSE <<>>
             where == IF req.path.kind = "Type" THEN <<>> ELSE ComparePkey(PathTable, Len(pushed))
             w == IF req.path.kind = "Type" THEN <<>> ELSE PkeyParams(req.path.type)
             adds == RelFields(t) \o SortKeysForMain(req)
             outs == SelectOuts(MainTable, t, <<>>, adds, fields, 0)
             stmt == Stmt("select", MainTable, outs, joins, <<>>, where)
             tok == Cte(data, stmt)
             map == BuildInclusionMap(req)
  <1>1. /\ pc = "start" /\ req.op = "read" /\ req.path.kind # "TypeIdRelationship"
        /\ buf' = buf \o <<With, tok>>
        /\ params' = params \o pushed \o w
        /\ SelectRelsFrom(data, map) /\ data.suffix = "data"
    BY DEF GenSelect, ToCte
  <1>2. /\ IsRequest(req) /\ t \in Type /\ t = MainType(req.path)
        /\ PathTable.type \in Type /\ PathTable.type = req.path.type
    BY RequestTyped DEF IInv, PathTable, MainTable, BaseTable
  <1>3. fields \in Seq(Ident) /\ NamedApart(adds)
    BY <1>2, FieldsTyped, RelFieldsApart, SortKeysApart, ApartJoined
  <1>4. SelectLabel(t, <<>>) = <<t>>
    BY DEF SelectLabel
  <1>5. MainSection = [label |-> <<t>>, data |-> fields # <<>>]
    <2>1. MainSection = TypeSection(t)
      BY <1>1, <1>2 DEF MainSection, ReadsRel, WritesRel
    <2> HIDE DEF t
    <2>2. [label |-> <<t>>, data |-> fields # <<>>] = Section(<<t>>, t, TRUE)
      BY SectionIs
    <2> QED
      BY <2>1, <2>2 DEF TypeSection
  <1> HIDE DEF fields, adds, joins, data
  <1>6. IsSeq(pushed)
    BY <1>3, SelectParamsTyped
  <1>7. IsSeq(w)
    <2>1. IsSeq(PkeyParams(PathTable.type))
      <3>1. 0 \in Nat
        OBVIOUS
      <3> QED
        BY <1>2, <3>1, KeyWhere
    <2> QED
      BY <1>2, <2>1, NoneIsSeq
  <1> HIDE DEF w, where
  <1>8. params' = params \o (pushed \o w) /\ IsSeq(pushed \o w) /\ Holds(params', 0, pushed)
    <2> HIDE DEF pushed
    <2> QED
      BY <1>1, <1>6, <1>7, FirstPushed
  <1>9. stmt.q = "select" /\ stmt.outs = outs
    BY TokensOf
  <1>10. Labelled(stmt, params', MainSection)
    <2>1. 0 \in Nat /\ stmt.outs = SelectOuts(MainTable, t, <<>>, adds, fields, 0)
      BY <1>9
    <2> HIDE DEF stmt, t
    <2>2. Labelled(stmt, params', [label |-> SelectLabel(t, <<>>), data |-> fields # <<>>])
      BY <1>3, <1>8, <2>1, SelectLabelled
    <2> QED
      BY <1>4, <1>5, <2>2
  <1> HIDE DEF stmt, pushed
  <1>11. With.t \notin {"cte", "select"} /\ tok.t = "cte" /\ tok.tbl = data /\ tok.stmt = stmt
    BY TokensOf
  <1> HIDE DEF tok
  <1> DEFINE toks == <<With, tok>>
  <1>12. Positions(toks, {"cte"}) = {2} /\ toks[2] = tok /\ IsSeq(toks) /\ Positions(toks, {"select"}) = {}
    BY <1>11, TokensAt
  <1>13. \A c \in DOMAIN map : Sorts(map[c].sorts)
    BY <1>2, MapSorts
  <1> HIDE DEF toks, map
  <1>14. Grows(toks, pushed \o w)
    BY <1>1, <1>8, <1>12 DEF Grows, toks
  <1>15. /\ \A i \in Positions(toks, {"cte"}) : toks[i].stmt.q # "final"
         /\ 2 \in Positions(toks, {"cte"}) /\ toks[2].tbl = data
         /\ Labelled(toks[2].stmt, params', MainSection)
    BY <1>9, <1>10, <1>11, <1>12
  <1>16. AnswerInv' /\ Begins(map)
    BY <1>1, <1>12, <1>13, <1>14, <1>15, SelectRelsFromAnswers
  <1> QED
    BY <1>16 DEF map

\* The two CTEs of a write.
LEMMA WriteThenSelectAnswers ==
  ASSUME IInv, ParamsInv, AnswerInv, pc = "start", NEW t \in Type, NEW suffix, NEW stmt, NEW written,
         NEW additional, NEW map, WriteThenSelect(t, suffix, stmt, written, additional, map),
         IsSeq(written), NamedApart(additional), stmt.q # "final",
         \A c \in DOMAIN map : Sorts(map[c].sorts), MainSection = TypeSection(t)
  PROVE  AnswerInv' /\ Begins(map)
  <1> DEFINE row == ToCte(t, "plain", suffix, cte_index)
             data == ToCte(t, "plain", "data", cte_index + 1)
             fields == JsonFields(req.sparse, t, TRUE)
             pushed == SelectParams(t, <<>>, fields)
             n == Len(written)
             outs == SelectOuts(row, t, <<>>, additional, fields, n)
             b == Stmt("select", row, outs, <<>>, <<>>, <<>>)
             ca == Cte(row, stmt)
             cb == Cte(data, b)
             toks == <<With, ca, Comma, cb>>
  <1>1. /\ buf' = buf \o toks /\ params' = params \o written \o pushed
        /\ SelectRelsFrom(data, map) /\ data.suffix = "data"
    BY DEF WriteThenSelect, ToCte
  <1>2. fields \in Seq(Ident)
    BY FieldsTyped DEF IInv
  <1>3. SelectLabel(t, <<>>) = <<t>>
    BY DEF SelectLabel
  <1>4. MainSection = [label |-> <<t>>, data |-> fields # <<>>]
    <2>1. [label |-> <<t>>, data |-> fields # <<>>] = Section(<<t>>, t, TRUE)
      BY SectionIs
    <2> QED
      BY <2>1 DEF TypeSection
  <1> HIDE DEF fields, row, data
  <1>5. IsSeq(pushed)
    BY <1>2, SelectParamsTyped
  <1>6. /\ params' = params \o (written \o pushed) /\ IsSeq(written \o pushed)
        /\ Holds(params', n, pushed) /\ n \in Nat
    <2> HIDE DEF pushed
    <2> QED
      BY <1>1, <1>5, FirstPushed
  <1>7. b.q = "select" /\ b.outs = outs
    BY TokensOf
  <1>8. Labelled(b, params', MainSection)
    <2>1. b.outs = SelectOuts(row, t, <<>>, additional, fields, n)
      BY <1>7
    <2> HIDE DEF b, n
    <2>2. Labelled(b, params', [label |-> SelectLabel(t, <<>>), data |-> fields # <<>>])
      BY <1>2, <1>6, <2>1, SelectLabelled
    <2> QED
      BY <1>3, <1>4, <2>2
  <1> HIDE DEF b, pushed
  <1>9. /\ With.t \notin {"cte", "select"} /\ Comma.t \notin {"cte", "select"}
        /\ ca.t = "cte" /\ ca.stmt = stmt /\ cb.t = "cte" /\ cb.tbl = data /\ cb.stmt = b
    BY TokensOf
  <1> HIDE DEF ca, cb
  <1>10. /\ Positions(toks, {"cte"}) = {2, 4} /\ toks[2] = ca /\ toks[4] = cb /\ IsSeq(toks)
         /\ Positions(toks, {"select"}) = {}
    BY <1>9, FourTokensAt
  <1> HIDE DEF toks
  <1>11. Grows(toks, written \o pushed)
    BY <1>1, <1>6, <1>10 DEF Grows
  <1>12. /\ \A i \in Positions(toks, {"cte"}) : toks[i].stmt.q # "final"
         /\ 4 \in Positions(toks, {"cte"}) /\ toks[4].tbl = data
         /\ Labelled(toks[4].stmt, params', MainSection)
    BY <1>7, <1>8, <1>9, <1>10
  <1> QED
    BY <1>1, <1>10, <1>11, <1>12, SelectRelsFromAnswers

\* The two CTEs of a relationship path: the related rows, without their data,
\* and the row they are related to.
LEMMA GenSelectRelationshipsAnswers ==
  ASSUME IInv, ParamsInv, AnswerInv, GenSelectRelationships
  PROVE  AnswerInv' /\ Begins(Unwanted(BuildInclusionMap(req)))
  <1> DEFINE t == MainTable.type
             u == PathTable.type
             rels == req.path.rels
             data == ToCte(t, "plain", "data", cte_index)
             owner == ToCte(u, "rel", "data", cte_index + 1)
             relating == <<[tbl |-> PathTable, chain |-> rels]>>
             pushed == SelectParams(t, relating, <<>>)
             key == PkeyParams(u)
             n == Len(pushed) + Len(PrimaryKey(u))
             ownerPushed == SelectParams(u, <<>>, <<>>)
             adds == RelFields(t) \o SortKeysForMain(req)
             outs == SelectOuts(MainTable, t, relating, adds, <<>>, 0)
             ownerOuts == SelectOuts(PathTable, u, <<>>, RelFields(u), <<>>, n)
             a == Stmt("select", MainTable, outs, GenInnerJoin(PathRel, PathTable, MainTable), <<>>,
                       ComparePkey(PathTable, Len(pushed)))
             b == Stmt("select", PathTable, ownerOuts, <<>>, <<>>,
                       ComparePkey(PathTable, n + Len(ownerPushed)))
             ca == Cte(data, a)
             cb == Cte(owner, b)
             toks == <<With, ca, Comma, cb>>
             map == BuildInclusionMap(req)
             rest == key \o (ownerPushed \o key)
  <1>1. /\ pc = "start" /\ req.op = "read" /\ req.path.kind = "TypeIdRelationship"
        /\ buf' = buf \o toks
        /\ params' = params \o pushed \o key \o ownerPushed \o key
        /\ SelectRelsFrom(data, Unwanted(map)) /\ data.suffix = "data"
    BY DEF GenSelectRelationships, ToCte
  <1>2. IsRequest(req) /\ t \in Type /\ u \in Type /\ <<>> \in Seq(Ident)
    BY RequestTyped DEF IInv
  <1>3. NamedApart(adds)
    BY <1>2, RelFieldsApart, SortKeysApart, ApartJoined
  <1>4. a.q = "select" /\ a.outs = outs /\ b.q = "select"
    BY TokensOf
  <1>5. /\ ca.t = "cte" /\ ca.tbl = data /\ ca.stmt = a /\ cb.t = "cte" /\ cb.stmt = b
        /\ With.t \notin {"cte", "select"} /\ Comma.t \notin {"cte", "select"}
    BY TokensOf
  <1>6. MainSection = [label |-> ChainLabel(rels), data |-> <<>> # <<>>]
    <2>1. MainSection = LinkageSection(rels)
      BY <1>1 DEF MainSection, ReadsRel
    <2>2. LinkageSection(rels) = Section(ChainLabel(rels), RelatedType(Last(rels)), FALSE)
      BY Zenon DEF LinkageSection
    <2>3. Section(ChainLabel(rels), RelatedType(Last(rels)), FALSE) = [label |-> ChainLabel(rels), data |-> FALSE]
      BY DEF Section
    <2> QED
      BY <2>1, <2>2, <2>3
  <1>7. SelectLabel(t, relating) = ChainLabel(rels)
    BY DEF SelectLabel
  <1> HIDE DEF map, relating, data, owner, adds
  <1>8. IsSeq(pushed) /\ IsSeq(ownerPushed)
    BY <1>2, SelectParamsTyped
  <1>9. IsSeq(key)
    <2>1. 0 \in Nat
      OBVIOUS
    <2> QED
      BY <1>2, <2>1, KeyWhere
  <1> HIDE DEF key, ownerPushed, b, n, cb
  <1>10. IsSeq(ownerPushed \o key) /\ IsSeq(rest)
    BY <1>8, <1>9, ConcatLen
  <1>11. params' = params \o pushed \o rest
    <2> DEFINE p == params \o pushed
    <2> HIDE DEF pushed
    <2>1. IsSeq(p)
      BY <1>8, ConcatLen DEF ParamsInv
    <2>2. IsSeq(p \o key)
      BY <1>9, <2>1, ConcatLen
    <2>3. params' = (p \o key) \o ownerPushed \o key
      BY <1>1
    <2> HIDE DEF p
    <2>4. (p \o key) \o ownerPushed \o key = (p \o key) \o (ownerPushed \o key)
      BY <1>8, <1>9, <2>2, ConcatAssoc
    <2>5. (p \o key) \o (ownerPushed \o key) = p \o (key \o (ownerPushed \o key))
      BY <1>9, <1>10, <2>1, ConcatAssoc
    <2> QED
      BY <2>3, <2>4, <2>5 DEF p
  <1> HIDE DEF rest
  <1>12. params' = params \o (pushed \o rest) /\ IsSeq(pushed \o rest) /\ Holds(params', 0, pushed)
    <2> HIDE DEF pushed
    <2> QED
      BY <1>1, <1>8, <1>10, <1>11, FirstPushed
  <1>13. Labelled(a, params', MainSection)
    <2>1. 0 \in Nat /\ a.outs = SelectOuts(MainTable, t, relating, adds, <<>>, 0)
      BY <1>4
    <2> HIDE DEF a, t
    <2>2. Labelled(a, params', [label |-> SelectLabel(t, relating), data |-> <<>> # <<>>])
      BY <1>2, <1>3, <1>12, <2>1, SelectLabelled
    <2> QED
      BY <1>6, <1>7, <2>2
  <1> HIDE DEF a, ca, pushed
  <1>14. /\ Positions(toks, {"cte"}) = {2, 4} /\ toks[2] = ca /\ toks[4] = cb /\ IsSeq(toks)
         /\ Positions(toks, {"select"}) = {}
    BY <1>5, FourTokensAt
  <1>15. \A c \in DOMAIN Unwanted(map) : Sorts(Unwanted(map)[c].sorts)
    <2>1. DOMAIN Unwanted(map) = DOMAIN map
      BY DEF Unwanted
    <2> QED
      BY <1>2, <2>1, MapSorts DEF map
  <1> HIDE DEF toks
  <1>16. Grows(toks, pushed \o rest)
    BY <1>1, <1>12, <1>14 DEF Grows
  <1>17. /\ \A i \in Positions(toks, {"cte"}) : toks[i].stmt.q # "final"
         /\ 2 \in Positions(toks, {"cte"}) /\ toks[2].tbl = data
         /\ Labelled(toks[2].stmt, params', MainSection)
    BY <1>4, <1>5, <1>13, <1>14
  <1>18. AnswerInv' /\ Begins(Unwanted(map))
    BY <1>1, <1>14, <1>15, <1>16, <1>17, SelectRelsFromAnswers
  <1> QED
    BY <1>18 DEF map

LEMMA GenInsertAnswers ==
  ASSUME IInv, ParamsInv, AnswerInv, GenInsert
  PROVE  AnswerInv' /\ Begins(BuildInclusionMap(req))
  <1> DEFINE t == MainTable.type
             data == ExtractData(req.body, t)
             written == ValueParams(data.values)
             stmt == Stmt("insert", MainTable, <<>>, <<>>, SetList(data.values, 0), <<>>)
             adds == data.fields \o SortKeysForMain(req)
             map == BuildInclusionMap(req)
  <1>1. pc = "start" /\ req.op = "create" /\ WriteThenSelect(t, "insert", stmt, written, adds, map)
    BY DEF GenInsert
  <1>2. IsRequest(req) /\ t \in Type /\ t = MainType(req.path)
    BY RequestTyped DEF IInv, MainTable, BaseTable
  <1>3. stmt.q = "insert"
    BY TokensOf
  <1>4. data.fields = RelFields(t)
    BY DEF ExtractData
  <1>5. IsSeq(written)
    BY <1>2, ExtractionValued, ValueSets
  <1> HIDE DEF data
  <1>6. NamedApart(adds)
    BY <1>2, <1>4, RelFieldsApart, SortKeysApart, ApartJoined
  <1>7. MainSection = TypeSection(t)
    BY <1>1, <1>2 DEF MainSection, ReadsRel, WritesRel
  <1>8. \A c \in DOMAIN map : Sorts(map[c].sorts)
    BY <1>2, MapSorts
  <1> HIDE DEF stmt, written, adds, map, t
  <1>9. AnswerInv' /\ Begins(map)
    BY <1>1, <1>2, <1>3, <1>5, <1>6, <1>7, <1>8, WriteThenSelectAnswers
  <1> QED
    BY <1>9 DEF map

LEMMA GenUpdateMainAnswers ==
  ASSUME IInv, ParamsInv, AnswerInv, GenUpdateMain
  PROVE  AnswerInv' /\ Begins(BuildInclusionMap(req))
  <1> DEFINE t == MainTable.type
             data == ExtractData(req.body, t)
             written == ValueParams(data.values) \o PkeyParams(t)
             star == Stmt("star", MainTable, <<>>, <<>>, <<>>, ComparePkey(MainTable, 0))
             stmt == IF data.values = <<>> THEN star ELSE UpdateStmt(MainTable, data.values)
             adds == data.fields \o SortKeysForMain(req)
             map == BuildInclusionMap(req)
  <1>1. pc = "start" /\ WritesMain /\ WriteThenSelect(t, "update", stmt, written, adds, map)
    BY DEF GenUpdateMain
  <1>2. IsRequest(req) /\ t \in Type /\ t = MainType(req.path)
    BY RequestTyped DEF IInv, MainTable, BaseTable
  <1>3. stmt.q # "final"
    BY TokensOf DEF UpdateStmt
  <1>4. data.fields = RelFields(t)
    BY DEF ExtractData
  <1>5. IsSeq(written)
    BY <1>2, ExtractionValued, UpdateCarries
  <1> HIDE DEF data
  <1>6. NamedApart(adds)
    BY <1>2, <1>4, RelFieldsApart, SortKeysApart, ApartJoined
  <1>7. MainSection = TypeSection(t)
    BY <1>1, <1>2 DEF MainSection, ReadsRel, WritesRel, WritesMain
  <1>8. \A c \in DOMAIN map : Sorts(map[c].sorts)
    BY <1>2, MapSorts
  <1> HIDE DEF stmt, written, adds, map, t
  <1>9. AnswerInv' /\ Begins(map)
    BY <1>1, <1>2, <1>3, <1>5, <1>6, <1>7, <1>8, WriteThenSelectAnswers
  <1> QED
    BY <1>9 DEF map

LEMMA GenUpdateRelAnswers ==
  ASSUME IInv, ParamsInv, AnswerInv, GenUpdateRel
  PROVE  AnswerInv' /\ \E sorts : Begins([c \in {req.path.rels} |-> [resp |-> "Id", sorts |-> sorts]])
  <1> DEFINE t == PathTable.type
             data == ExtractRelData(PathRel, req.body.data)
             written == ValueParams(data.values) \o PkeyParams(t)
             stmt == UpdateStmt(PathTable, data.values)
             entry == [resp |-> "Id", sorts |-> Reverse(SortsOf(req, <<>>))]
             map == [c \in {req.path.rels} |-> entry]
  <1>1. pc = "start" /\ WritesRel /\ WriteThenSelect(t, "update", stmt, written, data.fields, map)
    BY DEF GenUpdateRel
  <1>2. IsRequest(req) /\ t \in Type /\ t = req.path.type
    BY RequestTyped DEF IInv, PathTable, BaseTable
  <1>3. stmt.q # "final"
    BY TokensOf DEF UpdateStmt
  <1>4. IsSeq(written)
    BY <1>2, RelExtractionValued, UpdateCarries
  <1>5. NamedApart(data.fields)
    <2>1. data.fields = <<RelField(PathRel)>> \/ data.fields = <<>>
      BY DEF ExtractRelData
    <2>2. RelField(PathRel).name[1] = "rel"
      <3>1. Relation[PathRel].key \in Ident
        BY <1>1, <1>2, PathRelTyped, RelationAssumption DEF WritesRel
      <3>2. RelField(PathRel).name = <<"rel">> \o Relation[PathRel].key
        BY DEF RelField, RelName
      <3> QED
        BY <3>1, <3>2, FirstWord
    <2> DEFINE f == RelField(PathRel)
               s == <<f>>
    <2>3. IsSeq(s) /\ DOMAIN s = {1} /\ s[1] = f
      BY TupleIsSeq
    <2> HIDE DEF f
    <2>4. f.name[1] \in {"rel", "sort"}
      BY <2>2 DEF f
    <2> HIDE DEF s
    <2>5. NamedApart(s)
      BY <2>3, <2>4 DEF NamedApart
    <2> HIDE DEF data
    <2> QED
      BY <2>1, <2>5, NoneApart DEF s, f
  <1>6. MainSection = TypeSection(t)
    BY <1>1, <1>2 DEF MainSection, ReadsRel, WritesRel
  <1>7. \A c \in DOMAIN map : Sorts(map[c].sorts)
    BY <1>2, SortsOfChain
  <1> HIDE DEF data, stmt, written, map, t
  <1>8. AnswerInv' /\ Begins(map)
    BY <1>1, <1>2, <1>3, <1>4, <1>5, <1>6, <1>7, WriteThenSelectAnswers
  <1> QED
    BY <1>8 DEF map

----------------------------------------------------------------------------
(* The steps that go on *)

\* Where the selects of what is written are.
LEMMA OneTokenAt ==
  ASSUME NEW a
  PROVE  /\ IsSeq(<<a>>) /\ <<a>>[1] = a
         /\ \A kinds : Positions(<<a>>, kinds) = IF a.t \in kinds THEN {1} ELSE {}
  <1> DEFINE s == <<a>>
  <1>1. DOMAIN s = {1} /\ s[1] = a /\ IsSeq(s)
    BY TupleIsSeq
  <1> HIDE DEF s
  <1>2. \A kinds : Positions(s, kinds) = IF a.t \in kinds THEN {1} ELSE {}
    BY <1>1 DEF Positions
  <1> QED
    BY <1>1, <1>2 DEF s

\* A step that pushes nothing and writes no final CTE.
LEMMA QuietAnswers ==
  ASSUME IInv, ParamsInv, AnswerInv, NEW toks, IsSeq(toks), buf' = buf \o toks,
         Positions(toks, {"cte"}) = {}, UNCHANGED <<req, params>>, pc' # "rels",
         working_tables' = working_tables \/ DOMAIN working_tables' = {}
  PROVE  AnswerInv'
  <1>1. Grows(toks, <<>>)
    <2>1. params \o <<>> = params
      BY NoneJoined DEF ParamsInv
    <2> QED
      BY <2>1, NoneIsSeq DEF Grows
  <1>2. \A tbl, s : Answers(buf, params, tbl, s) => Answers(buf', params', tbl, s)
    BY <1>1, AnswersGrow
  <1>3. FinalsRead(buf, params)'
    BY <1>1, FinalsGrow DEF AnswerInv
  <1>4. \A c, resp : RowsSection(c, resp)' = RowsSection(c, resp)
    BY DEF RowsSection, Section
  <1>5. AnswersKept'
    BY <1>2, <1>4 DEF AnswerInv, AnswersKept
  <1> QED
    BY <1>3, <1>5 DEF AnswerInv

\* A step that only pushes, and writes no CTE.
LEMMA WriteOnlyAnswers ==
  ASSUME IInv, ParamsInv, AnswerInv, pc = "start", NEW stmt, WriteOnly(stmt), stmt.from.type \in Type
  PROVE  AnswerInv'
  <1> DEFINE tok == Write(stmt)
             vs == PkeyParams(stmt.from.type)
  <1>1. /\ buf' = buf \o <<tok>> /\ params' = params \o vs /\ pc' = "finish"
        /\ UNCHANGED <<req, working_tables>>
    BY DEF WriteOnly
  <1>2. IsSeq(vs)
    <2>1. 0 \in Nat
      OBVIOUS
    <2> QED
      BY <2>1, KeyWhere
  <1>3. tok.t \notin {"cte"}
    BY DEF Write
  <1> HIDE DEF tok, vs
  <1>4. IsSeq(<<tok>>) /\ Positions(<<tok>>, {"cte"}) = {}
    BY <1>3, OneTokenAt
  <1>5. Grows(<<tok>>, vs)
    BY <1>1, <1>2, <1>4 DEF Grows
  <1>6. \A tbl, s : Answers(buf, params, tbl, s) => Answers(buf', params', tbl, s)
    BY <1>5, AnswersGrow
  <1>7. FinalsRead(buf, params)'
    BY <1>1, <1>4, <1>5, FinalsGrow DEF AnswerInv
  <1>8. \A c, resp : RowsSection(c, resp)' = RowsSection(c, resp)
    BY <1>1 DEF RowsSection, Section
  <1>9. AnswersKept'
    BY <1>1, <1>6, <1>8 DEF AnswerInv, AnswersKept
  <1> QED
    BY <1>7, <1>9 DEF AnswerInv

LEMMA GenDeleteAnswers ==
  ASSUME IInv, ParamsInv, AnswerInv, GenDeleteNormal \/ GenDeleteRel
  PROVE  AnswerInv'
  <1>1. CASE GenDeleteNormal
    <2> DEFINE stmt == Stmt("delete", PathTable, <<>>, <<>>, <<>>, ComparePkey(PathTable, 0))
    <2>1. pc = "start" /\ WriteOnly(stmt)
      BY <1>1 DEF GenDeleteNormal
    <2>2. stmt.from = PathTable
      BY DEF Stmt
    <2>3. PathTable.type \in Type
      BY RequestTyped DEF IInv
    <2> HIDE DEF stmt
    <2> QED
      BY <2>1, <2>2, <2>3, WriteOnlyAnswers
  <1>2. CASE GenDeleteRel
    <2>1. PICK r \in AliasesTo(req.path.type, MainType(req.path)) :
            WriteOnly(Stmt("update", BaseTable(ManyResource(r)), <<>>, <<>>,
                           <<[col |-> Relation[r].key, param |-> 0]>>,
                           ComparePkey(BaseTable(ManyResource(r)), 0)))
      BY <1>2 DEF GenDeleteRel
    <2> DEFINE many == BaseTable(ManyResource(r))
               stmt == Stmt("update", many, <<>>, <<>>, <<[col |-> Relation[r].key, param |-> 0]>>,
                            ComparePkey(many, 0))
    <2>2. pc = "start" /\ WriteOnly(stmt)
      BY <1>2, <2>1 DEF GenDeleteRel
    <2>3. stmt.from = many
      BY DEF Stmt
    <2>4. many.type \in Type
      <3>1. r \in Rel
        BY DEF AliasesTo
      <3> QED
        BY <3>1, RelationAssumption DEF ManyResource, RelatedType, BaseTable
    <2> HIDE DEF stmt, many
    <2> QED
      BY <2>2, <2>3, <2>4, WriteOnlyAnswers
  <1> QED
    BY <1>1, <1>2

LEMMA NextEntryAnswers ==
  ASSUME AnswerInv, NextEntry
  PROVE  AnswerInv'
  <1>1. PICK c \in DOMAIN todo : at' = Enter(c, todo[c], main) /\ todo' = Without(todo, c)
    BY DEF NextEntry
  <1>2. pc = "rels" /\ UNCHANGED <<req, pc, params, buf, working_tables, main>>
    BY DEF NextEntry
  <1>3. at'.sorts = todo[c].sorts
    BY <1>1 DEF Enter
  <1>4. \A d \in DOMAIN todo' : d \in DOMAIN todo /\ todo'[d] = todo[d]
    BY <1>1 DEF Without
  <1>5. MainSection' = MainSection /\ \A d, resp : RowsSection(d, resp)' = RowsSection(d, resp)
    BY <1>2 DEF MainSection, RowsSection, Section, LinkageSection, TypeSection, ReadsRel, WritesRel
  <1>6. AnswersKept'
    BY <1>2, <1>3, <1>4, <1>5 DEF AnswerInv, AnswersKept
  <1>7. FinalsRead(buf, params)'
    <2>1. SortedByPath' = SortedByPath
      BY <1>2 DEF SortedByPath, WritesRel
    <2>2. \A stmt, k : ReadsSort(buf, params, stmt, k) => ReadsSort(buf, params, stmt, k)'
      BY <1>2 DEF ReadsSort
    <2> QED
      BY <1>2, <2>1, <2>2 DEF AnswerInv, FinalsRead
  <1> QED
    BY <1>6, <1>7 DEF AnswerInv

LEMMA SelectRelAnswers ==
  ASSUME IInv, ParamsInv, AnswerInv, SelectRel
  PROVE  AnswerInv'
  <1> DEFINE n == at.i + 1
             r == at.chain[n]
             t == RelatedType(r)
             here == Prefix(at.chain, n)
             cte == ToCte(t, "rel", "data", cte_index)
             relating == <<[tbl |-> at.tbl, chain |-> here]>>
             fields == JsonFields(req.sparse, t, Returned(r, at.resp))
             adds == RelFields(t) \o MapSeq(SortField, at.sorts)
             outs == SelectOuts(BaseTable(t), t, relating, adds, fields, Len(params))
             joins == GenInnerJoin(r, at.tbl, BaseTable(t))
             stmt == Stmt("select", BaseTable(t), outs, joins, <<>>, <<>>)
             tok == Cte(cte, stmt)
             toks == <<Comma, tok>>
             pushed == SelectParams(t, relating, fields)
             section == RowsSection(here, at.resp)
             k == Len(params)
  <1>1. /\ pc = "rels" /\ ~EntryDone
        /\ buf' = buf \o toks
        /\ params' = params \o pushed
        /\ working_tables' = [c \in DOMAIN working_tables \cup {here} |->
                                IF c = here THEN [tbl |-> cte, resp |-> at.resp]
                                            ELSE working_tables[c]]
        /\ at' = [at EXCEPT !.i = n, !.tbl = cte]
        /\ UNCHANGED <<req, pc, main, todo>>
    BY DEF SelectRel, CurrentRelChain
  <1>2. /\ IsRequest(req) /\ at.chain \in Seq(Rel) /\ at.i \in 0..Len(at.chain)
        /\ at.resp \in ResponseType
    BY DEF IInv, TypeOK
  <1>3. n \in 1..Len(at.chain)
    <2>1. at.i # Len(at.chain) /\ Len(at.chain) \in Nat
      BY <1>1, <1>2, LenProperties DEF EntryDone
    <2> QED
      BY <1>2, <2>1
  <1> HIDE DEF tok, pushed
  <1>4. here \in Seq(Rel) /\ Len(here) = n /\ Last(here) = r /\ r \in Rel
    BY <1>2, <1>3, PrefixProperties
  <1>5. t \in Type /\ here # <<>>
    <2>1. t \in Type
      BY <1>4, RelationAssumption DEF RelatedType
    <2>2. Len(here) # 0
      BY <1>3, <1>4
    <2> HIDE DEF here, t
    <2> QED
      BY <2>1, <2>2
  <1>6. at'.sorts = at.sorts
    BY <1>1 DEF IInv, TypeOK
  <1>7. Returned(r, at.resp) \in BOOLEAN
    BY DEF Returned
  <1>8. section = [label |-> SelectLabel(t, relating), data |-> fields # <<>>]
    <2>1. SelectLabel(t, relating) = ChainLabel(here)
      BY DEF SelectLabel
    <2>2. section = Section(ChainLabel(here), t, Returned(r, at.resp))
      BY <1>4 DEF RowsSection
    <2>3. [label |-> ChainLabel(here), data |-> fields # <<>>]
            = Section(ChainLabel(here), t, Returned(r, at.resp))
      BY <1>7, SectionIs
    <2> QED
      BY <2>1, <2>2, <2>3
  <1>9. fields \in Seq(Ident)
    BY <1>2, <1>5, FieldsTyped
  <1>10. NamedApart(adds)
    <2>1. NamedApart(MapSeq(SortField, at.sorts))
      BY <1>1, SortFieldsApart DEF AnswerInv, AnswersKept
    <2> QED
      BY <1>5, <2>1, RelFieldsApart, ApartJoined
  <1>11. stmt.q = "select" /\ stmt.outs = outs
    BY TokensOf
  <1>12. Comma.t \notin {"cte", "select"} /\ tok.t = "cte" /\ tok.tbl = cte /\ tok.stmt = stmt
    BY TokensOf DEF tok
  <1> HIDE DEF relating, fields, adds, joins, cte, t, here, r, section
  <1>13. IsSeq(params) /\ k \in Nat
    BY LenProperties DEF ParamsInv, IsSeq
  <1>14. IsSeq(pushed)
    BY <1>9, SelectParamsTyped DEF pushed
  <1>15. Holds(params', k, pushed)
    BY <1>1, <1>13, <1>14, HoldsPushed
  <1>16. Labelled(stmt, params', section)
    <2>1. stmt.outs = SelectOuts(BaseTable(t), t, relating, adds, fields, k)
      BY <1>11
    <2> HIDE DEF stmt, k
    <2>2. Labelled(stmt, params', [label |-> SelectLabel(t, relating), data |-> fields # <<>>])
      BY <1>9, <1>10, <1>13, <1>15, <2>1, SelectLabelled DEF pushed
    <2> QED
      BY <1>8, <2>2
  <1> HIDE DEF stmt
  <1>17. Positions(toks, {"cte"}) = {2} /\ toks[2] = tok /\ IsSeq(toks)
    BY <1>12, TokensAt
  <1> HIDE DEF toks
  <1>18. Grows(toks, pushed)
    BY <1>1, <1>14, <1>17 DEF Grows
  <1>19. Answers(buf', params', cte, section)
    <2>1. 2 \in Positions(toks, {"cte"}) /\ Labelled(toks[2].stmt, params', section) /\ toks[2].tbl = cte
      BY <1>12, <1>16, <1>17
    <2>2. Answers(buf', params', toks[2].tbl, section)
      BY <1>18, <2>1, AnswersWritten
    <2> QED
      BY <2>1, <2>2
  <1>20. \A tbl, s : Answers(buf, params, tbl, s) => Answers(buf', params', tbl, s)
    BY <1>18, AnswersGrow
  <1>21. FinalsRead(buf, params)'
    <2>1. \A j \in Positions(toks, {"cte"}) : toks[j].stmt.q # "final"
      BY <1>11, <1>12, <1>17
    <2> QED
      BY <1>1, <1>18, <2>1, FinalsGrow DEF AnswerInv
  <1>22. MainSection' = MainSection /\ \A d, resp : RowsSection(d, resp)' = RowsSection(d, resp)
    BY <1>1 DEF MainSection, RowsSection, Section, LinkageSection, TypeSection, ReadsRel, WritesRel
  <1>23. \A c \in DOMAIN working_tables' :
           c # <<>> /\ Answers(buf', params', working_tables'[c].tbl, RowsSection(c, working_tables'[c].resp))
    <2> SUFFICES ASSUME NEW c \in DOMAIN working_tables'
                 PROVE  /\ c # <<>>
                        /\ Answers(buf', params', working_tables'[c].tbl, RowsSection(c, working_tables'[c].resp))
      OBVIOUS
    <2>1. CASE c = here
      <3>1. working_tables'[c].tbl = cte /\ working_tables'[c].resp = at.resp
        BY <1>1, <2>1
      <3> QED
        BY <1>5, <1>19, <2>1, <3>1 DEF section
    <2>2. CASE c # here
      <3>1. c \in DOMAIN working_tables /\ working_tables'[c] = working_tables[c]
        BY <1>1, <2>2
      <3> QED
        BY <1>20, <3>1 DEF AnswerInv, AnswersKept
    <2> QED
      BY <2>1, <2>2
  <1>24. AnswersKept'
    BY <1>1, <1>6, <1>20, <1>22, <1>23 DEF AnswerInv, AnswersKept
  <1> QED
    BY <1>21, <1>24 DEF AnswerInv

----------------------------------------------------------------------------
(* The steps that end *)

\* A chain a request sorts by, once its sort is accepted, has a CTE that holds
\* its rows; a write to a relationship puts another in the place of one chain
\* only, that of its path.
LEMMA SortedRows ==
  ASSUME IInv, AnswerInv, RelsDone, ~SortedByPath,
         \A n \in DOMAIN SortErrors(Remaining) : SortErrors(Remaining)[n] = "none",
         NEW c \in SortChains(req)
  PROVE  IF c = <<>> THEN c \notin DOMAIN Remaining
         ELSE /\ c \in DOMAIN Remaining
              /\ \E d \in BOOLEAN : Answers(buf, params, Remaining[c].tbl, [label |-> ChainLabel(c), data |-> d])
  <1>1. c \in Seq(Rel) /\ IsRequest(req)
    BY SortChainsTyped DEF IInv
  <1>2. CASE c = <<>>
    BY <1>2, RemainingChains DEF AnswerInv, AnswersKept
  <1>3. CASE c # <<>>
    <2> DEFINE n == Len(c)
    <2>1. n \in Nat /\ DOMAIN c = 1..n
      BY <1>1, LenProperties
    <2>2. n # 0
      BY <1>1, <1>3, EmptySeq
    <2> HIDE DEF n
    <2>3. n \in DOMAIN c /\ n \in 1..n
      BY <2>1, <2>2
    <2>4. Prefix(c, n) \in DOMAIN working_tables
      BY <1>1, <2>3, LinksAccepted
    <2>5. Prefix(c, n) = c
      BY <1>1, <2>3, PrefixProperties DEF n
    <2>6. c \in DOMAIN working_tables /\ c \in DOMAIN Remaining
      BY <2>4, <2>5, RemainingChains
    <2>7. Remaining[c] = working_tables[c]
      <3>1. CASE WritesRel
        <4>1. c # req.path.rels
          BY <3>1 DEF SortedByPath
        <4> QED
          BY <2>6, <3>1, <4>1 DEF Remaining
      <3>2. CASE ~WritesRel
        BY <3>2 DEF Remaining
      <3> QED
        BY <3>1, <3>2
    <2> DEFINE section == RowsSection(c, working_tables[c].resp)
    <2>8. Answers(buf, params, Remaining[c].tbl, section)
      BY <2>6, <2>7 DEF AnswerInv, AnswersKept
    <2>9. \E d \in BOOLEAN : section = [label |-> ChainLabel(c), data |-> d]
      <3>1. \A include \in BOOLEAN : \E d \in BOOLEAN :
              Section(ChainLabel(c), RelatedType(Last(c)), include) = [label |-> ChainLabel(c), data |-> d]
        BY DEF Section
      <3>2. Returned(Last(c), working_tables[c].resp) \in BOOLEAN
        BY DEF Returned
      <3> QED
        BY <3>1, <3>2 DEF RowsSection
    <2> HIDE DEF section
    <2> QED
      BY <1>3, <2>6, <2>8, <2>9
  <1> QED
    BY <1>2, <1>3

FinishTokens(a, b, c) ==
  /\ IsSeq(<<a, b, c>>)
  /\ Positions(<<a, b, c>>, {"cte"}) = {2} /\ <<a, b, c>>[2] = b
  /\ Positions(<<a, b, c>>, {"select"}) = {3} /\ <<a, b, c>>[3] = c

LEMMA ThreeTokensAt ==
  ASSUME NEW a, NEW b, NEW c, a.t \notin {"cte", "select"}, b.t = "cte", c.t = "select"
  PROVE  FinishTokens(a, b, c)
  <1> DEFINE s == <<a, b, c>>
  <1>1. DOMAIN s = {1, 2, 3} /\ s[1] = a /\ s[2] = b /\ s[3] = c /\ IsSeq(s)
    <2> DEFINE S == {a, b, c}
    <2>1. s \in Seq(S)
      OBVIOUS
    <2>2. DOMAIN s = {1, 2, 3} /\ s[1] = a /\ s[2] = b /\ s[3] = c
      OBVIOUS
    <2> HIDE DEF s, S
    <2> QED
      BY <2>1, <2>2, SeqIsSeq
  <1> HIDE DEF s
  <1>2. Positions(s, {"cte"}) = {2} /\ Positions(s, {"select"}) = {3}
    BY <1>1 DEF Positions
  <1> QED
    BY <1>1, <1>2 DEF s, FinishTokens

LEMMA FinishMainAnswers ==
  ASSUME IInv, ParamsInv, AnswerInv, FinishMain \/ FinishTable \/ Build
  PROVE  AnswerInv'
  <1>1. UNCHANGED <<req, params>> /\ pc' # "rels"
        /\ (working_tables' = working_tables \/ DOMAIN working_tables' = {})
    BY EmptyMap DEF FinishMain, TakeWorkingTables, FinishTable, Build
  <1>2. CASE FinishMain
    <2> DEFINE tok == Select(Selected, <<>>)
    <2>1. buf' = buf \o <<tok>>
      BY <1>2 DEF FinishMain
    <2>2. tok.t \notin {"cte"}
      BY DEF Select
    <2> HIDE DEF tok
    <2>3. IsSeq(<<tok>>) /\ Positions(<<tok>>, {"cte"}) = {}
      BY <2>2, OneTokenAt
    <2> QED
      BY <1>1, <2>1, <2>3, QuietAnswers
  <1>3. CASE FinishTable
    <2>1. PICK c \in DOMAIN taken :
            buf' = IF taken[c].resp = "None" THEN buf ELSE buf \o <<Union, Select(taken[c].tbl, <<>>)>>
      BY <1>3 DEF FinishTable
    <2>2. CASE taken[c].resp = "None"
      <3>1. buf' = buf \o <<>>
        BY <2>1, <2>2, NoneJoined DEF IInv, BufferInv
      <3>2. Positions(<<>>, {"cte"}) = {}
        BY NoneIsSeq DEF Positions
      <3> QED
        BY <1>1, <3>1, <3>2, NoneIsSeq, QuietAnswers
    <2>3. CASE taken[c].resp # "None"
      <3> DEFINE tok == Select(taken[c].tbl, <<>>)
                 toks == <<Union, tok>>
      <3>1. buf' = buf \o toks
        BY <2>1, <2>3
      <3>2. tok.t \notin {"cte"} /\ Union.t \notin {"cte"}
        BY DEF Select, Union
      <3> HIDE DEF tok
      <3>3. DOMAIN toks = {1, 2} /\ toks[1] = Union /\ toks[2] = tok /\ IsSeq(toks)
        BY TupleIsSeq
      <3> HIDE DEF toks
      <3>4. Positions(toks, {"cte"}) = {}
        BY <3>2, <3>3 DEF Positions
      <3> QED
        BY <1>1, <3>1, <3>3, <3>4, QuietAnswers
    <2> QED
      BY <2>2, <2>3
  <1>4. CASE Build
    <2>1. buf' = buf \o <<Semicolon>>
      BY <1>4 DEF Build
    <2>2. Semicolon.t \notin {"cte"}
      BY DEF Semicolon
    <2>3. IsSeq(<<Semicolon>>) /\ Positions(<<Semicolon>>, {"cte"}) = {}
      BY <2>2, OneTokenAt
    <2> QED
      BY <1>1, <2>1, <2>3, QuietAnswers
  <1> QED
    BY <1>2, <1>3, <1>4

\* The final CTE has a column for every sorting element, read from its rows,
\* and the main select is ordered by all of them.
LEMMA FinishMainSortedAnswers ==
  ASSUME IInv, ParamsInv, AnswerInv, FinishMainSorted
  PROVE  AnswerInv'
  <1> DEFINE final == FinalTable(Selected.type)
             sorts == SortOuts(Selected, Remaining)
             star == Out(<<"*">>, <<Ref(Selected, MainId)>>, <<>>)
             stmt == FinalStmt(Selected, Remaining)
             cte == Cte(final, stmt)
             select == Select(final, OrderBy)
             toks == <<Comma, cte, select>>
  <1>1. /\ RelsDone /\ UNCHANGED <<req, params>> /\ pc' = "finish" /\ DOMAIN working_tables' = {}
        /\ buf' = buf \o toks
        /\ \A n \in DOMAIN SortErrors(Remaining) : SortErrors(Remaining)[n] = "none"
    BY EmptyMap DEF FinishMainSorted, TakeWorkingTables
  <1>2. stmt.from = Selected /\ stmt.outs = <<star>> \o sorts
    BY DEF FinalStmt, Stmt
  <1>3. /\ Comma.t \notin {"cte", "select"} /\ cte.t = "cte" /\ cte.stmt = stmt
        /\ select.t = "select" /\ select.order = OrderBy
    BY TokensOf DEF Select
  <1>4. IsSeq(sorts) /\ \A k \in DOMAIN req.sort : \E i \in DOMAIN sorts :
          sorts[i] = SortOut(Selected, Remaining, req.sort[k].chain, req.sort[k])
    BY SortOutsAre DEF IInv
  <1> HIDE DEF star, sorts, stmt, cte, select, final
  <1>5. FinishTokens(Comma, cte, select)
    BY <1>3, ThreeTokensAt
  <1>6. IsSeq(toks) /\ Positions(toks, {"cte"}) = {2} /\ toks[2] = cte
        /\ Positions(toks, {"select"}) = {3} /\ toks[3] = select
    BY <1>5 DEF FinishTokens
  <1> HIDE DEF toks
  <1>7. Grows(toks, <<>>)
    <2>1. params \o <<>> = params
      BY NoneJoined DEF ParamsInv
    <2> QED
      BY <1>1, <1>6, <2>1, NoneIsSeq DEF Grows
  <1>8. \A tbl, s : Answers(buf, params, tbl, s) => Answers(buf', params', tbl, s)
    BY <1>7, AnswersGrow
  <1>9. \E i \in Positions(buf', {"select"}) : buf'[i] = select
    <2>1. IsSeq(buf) /\ IsSeq(toks)
      BY <1>6 DEF IInv, BufferInv
    <2>2. \A j \in Positions(toks, {"select"}) :
            Len(buf) + j \in Positions(buf \o toks, {"select"}) /\ (buf \o toks)[Len(buf) + j] = toks[j]
      BY <2>1, PositionsAfter
    <2> QED
      BY <1>1, <1>6, <2>2
  <1>10. ASSUME ~SortedByPath, NEW k \in DOMAIN req.sort PROVE ReadsSort(buf', params', stmt, k)
    <2> DEFINE s == req.sort[k]
               out == SortOut(Selected, Remaining, s.chain, s)
               source == IF s.chain \in DOMAIN Remaining THEN Remaining[s.chain].tbl ELSE Selected
    <2>1. PICK o \in DOMAIN stmt.outs : stmt.outs[o] = out
      <3>1. PICK i \in DOMAIN sorts : sorts[i] = out
        BY <1>4
      <3> HIDE DEF out
      <3> DEFINE a == <<star>>
      <3>2. IsSeq(a) /\ Len(a) = 1
        <4>1. IsSeq(a)
          BY TupleIsSeq
        <4>2. Len(a) = 1
          OBVIOUS
        <4> QED
          BY <4>1, <4>2
      <3> HIDE DEF a
      <3>3. /\ Len(sorts) \in Nat /\ DOMAIN sorts = 1..Len(sorts)
            /\ DOMAIN (a \o sorts) = 1..(Len(a) + Len(sorts))
            /\ \A j \in 1..Len(sorts) : (a \o sorts)[Len(a) + j] = sorts[j]
        <4>1. IsSeq(a) /\ IsSeq(sorts)
          BY <1>4, <3>2
        <4> QED
          BY <4>1, ConcatIsSeq
      <3>4. 1 + i \in DOMAIN (a \o sorts) /\ (a \o sorts)[1 + i] = sorts[i]
        BY <3>1, <3>2, <3>3
      <3> QED
        BY <1>2, <3>1, <3>4 DEF a
    <2>2. out.name = SortAlias(s) /\ out.refs[1] = Ref(source, SortName(s.field))
      BY DEF SortOut, Out
    <2>3. out.refs[1].tbl = source /\ out.refs[1].col = SortName(s.field)
      BY <2>2 DEF Ref
    <2>4. s.chain \in SortChains(req)
      BY DEF SortChains
    <2>5. IF s.chain = <<>> THEN source = Selected
          ELSE \E d \in BOOLEAN : Answers(buf, params, source, [label |-> ChainLabel(s.chain), data |-> d])
      <3> DEFINE c == s.chain
      <3> HIDE DEF s
      <3>1. c \in SortChains(req)
        BY <2>4
      <3> HIDE DEF c
      <3>2. IF c = <<>> THEN c \notin DOMAIN Remaining
            ELSE /\ c \in DOMAIN Remaining
                 /\ \E d \in BOOLEAN :
                      Answers(buf, params, Remaining[c].tbl, [label |-> ChainLabel(c), data |-> d])
        BY <1>1, <1>10, <3>1, SortedRows
      <3> QED
        BY <3>2 DEF c
    <2>6. IF s.chain = <<>> THEN source = stmt.from
          ELSE \E d \in BOOLEAN : Answers(buf', params', source, [label |-> ChainLabel(s.chain), data |-> d])
      BY <1>2, <1>8, <2>5
    <2>7. \E i \in Positions(buf', {"select"}) :
            k \in DOMAIN buf'[i].order /\ buf'[i].order[k] = [col |-> SortAlias(s), desc |-> s.desc]
      <3>1. OrderBy = [i \in DOMAIN req.sort |-> [col |-> SortAlias(req.sort[i]), desc |-> req.sort[i].desc]]
        BY Zenon DEF OrderBy, MapSeq
      <3>2. k \in DOMAIN OrderBy /\ OrderBy[k] = [col |-> SortAlias(s), desc |-> s.desc]
        BY <3>1
      <3> QED
        BY <1>3, <1>9, <3>2
    <2> HIDE DEF out, source
    <2>8. /\ stmt.outs[o].name = SortAlias(req.sort[k])
          /\ stmt.outs[o].refs[1].col = SortName(req.sort[k].field)
          /\ IF req.sort[k].chain = <<>> THEN stmt.outs[o].refs[1].tbl = stmt.from
             ELSE \E d \in BOOLEAN :
                    Answers(buf', params', stmt.outs[o].refs[1].tbl,
                            [label |-> ChainLabel(req.sort[k].chain), data |-> d])
      BY <2>1, <2>2, <2>3, <2>6
    <2> HIDE DEF s
    <2> QED
      BY <2>7, <2>8 DEF ReadsSort, s
  <1>11. FinalsRead(buf, params)'
    <2>1. \A j \in Positions(toks, {"cte"}) : toks[j].stmt.q = "final" /\ ~SortedByPath =>
            \A k \in DOMAIN req.sort : ReadsSort(buf', params', toks[j].stmt, k)
      BY <1>3, <1>6, <1>10
    <2> QED
      BY <1>1, <1>7, <2>1, FinalsGrow DEF AnswerInv
  <1>12. AnswersKept'
    BY <1>1 DEF AnswersKept
  <1> QED
    BY <1>11, <1>12 DEF AnswerInv

LEMMA StayAnswers ==
  ASSUME AnswerInv, Refuse \/ RefuseRel \/ RefuseSort \/ Terminated \/ UNCHANGED vars
  PROVE  AnswerInv'
  <1>1. UNCHANGED <<req, params, buf, at, todo, main, working_tables>> /\ (pc' = pc \/ pc' = "failed")
    BY DEF Refuse, RefuseRel, RefuseSort, Terminated, vars, Fail
  <1>2. MainSection' = MainSection /\ \A d, resp : RowsSection(d, resp)' = RowsSection(d, resp)
    BY <1>1 DEF MainSection, RowsSection, Section, LinkageSection, TypeSection, ReadsRel, WritesRel
  <1>3. AnswersKept'
    BY <1>1, <1>2 DEF AnswerInv, AnswersKept
  <1>4. FinalsRead(buf, params)'
    <2>1. SortedByPath' = SortedByPath
      BY <1>1 DEF SortedByPath, WritesRel
    <2>2. \A stmt, k : ReadsSort(buf, params, stmt, k) => ReadsSort(buf, params, stmt, k)'
      BY <1>1 DEF ReadsSort
    <2> QED
      BY <1>1, <2>1, <2>2 DEF AnswerInv, FinalsRead
  <1> QED
    BY <1>3, <1>4 DEF AnswerInv

LEMMA InitAnswers == Init => AnswerInv
  <1> SUFFICES ASSUME Init PROVE AnswerInv
    OBVIOUS
  <1>1. pc = "start" /\ DOMAIN working_tables = {} /\ buf = <<>>
    BY EmptyMap DEF Init
  <1>2. Positions(<<>>, {"cte"}) = {}
    BY NoneIsSeq DEF Positions
  <1> QED
    BY <1>1, <1>2 DEF AnswerInv, AnswersKept, FinalsRead

LEMMA NextAnswers ==
  ASSUME IInv, ParamsInv, AnswerInv, [Next]_vars
  PROVE  AnswerInv'
  <1>1. CASE Refuse \/ RefuseRel \/ RefuseSort \/ Terminated \/ UNCHANGED vars
    BY <1>1, StayAnswers
  <1>2. CASE GenSelect
    BY <1>2, GenSelectAnswers
  <1>3. CASE GenSelectRelationships
    BY <1>3, GenSelectRelationshipsAnswers
  <1>4. CASE GenInsert
    BY <1>4, GenInsertAnswers
  <1>5. CASE GenUpdateMain
    BY <1>5, GenUpdateMainAnswers
  <1>6. CASE GenUpdateRel
    BY <1>6, GenUpdateRelAnswers
  <1>7. CASE GenDeleteNormal \/ GenDeleteRel
    BY <1>7, GenDeleteAnswers
  <1>8. CASE NextEntry
    BY <1>8, NextEntryAnswers
  <1>9. CASE SelectRel
    BY <1>9, SelectRelAnswers
  <1>10. CASE FinishMain \/ FinishTable \/ Build
    BY <1>10, FinishMainAnswers
  <1>11. CASE FinishMainSorted
    BY <1>11, FinishMainSortedAnswers
  <1> QED
    BY <1>1, <1>2, <1>3, <1>4, <1>5, <1>6, <1>7, <1>8, <1>9, <1>10, <1>11 DEF Next

LEMMA AnswersAreKept == Spec => [](IInv /\ ParamsInv /\ AnswerInv)
  <1>1. IInv /\ ParamsInv /\ AnswerInv /\ [Next]_vars => (IInv /\ ParamsInv /\ AnswerInv)'
    BY NextInv, NextParams, NextAnswers
  <1>2. Init => IInv /\ ParamsInv /\ AnswerInv
    BY InitInv, InitParams, InitAnswers
  <1> QED
    BY <1>1, <1>2, PTL DEF Spec

\* What a final CTE reads, told by the labels of the rows.
LEMMA ReadsByTheChain ==
  ASSUME IInv, AnswerInv
  PROVE  SortsByTheChain
  <1> SUFFICES ASSUME ~SortedByPath, NEW n \in {j \in CtePositions : buf[j].stmt.q = "final"},
                      NEW k \in DOMAIN req.sort
               PROVE  LET s == req.sort[k]
                          stmt == buf[n].stmt IN
                      \E o \in DOMAIN stmt.outs :
                        /\ stmt.outs[o].name = SortAlias(s)
                        /\ stmt.outs[o].refs[1].col = SortName(s.field)
                        /\ IF s.chain = <<>> THEN stmt.outs[o].refs[1].tbl = stmt.from
                                             ELSE LabelOf(stmt.outs[o].refs[1].tbl) = ChainLabel(s.chain)
                        /\ \E i \in SelectPositions : \E m \in DOMAIN buf[i].order :
                             m = k /\ buf[i].order[m] = [col |-> SortAlias(s), desc |-> s.desc]
    BY DEF SortsByTheChain, FinalStmts
  <1> DEFINE s == req.sort[k]
             stmt == buf[n].stmt
  <1>1. ReadsSort(buf, params, stmt, k)
    BY DEF AnswerInv, FinalsRead, CtePositions
  <1>2. CteNamesUnique
    BY DEF IInv, BufferInv
  <1>3. \A tbl, section : Answers(buf, params, tbl, section) => LabelOf(tbl) = section.label
    BY <1>2, AnswersRead
  <1> HIDE DEF s, stmt
  <1>4. PICK o \in DOMAIN stmt.outs :
          /\ stmt.outs[o].name = SortAlias(s)
          /\ stmt.outs[o].refs[1].col = SortName(s.field)
          /\ IF s.chain = <<>> THEN stmt.outs[o].refs[1].tbl = stmt.from
             ELSE \E d \in BOOLEAN :
                    Answers(buf, params, stmt.outs[o].refs[1].tbl, [label |-> ChainLabel(s.chain), data |-> d])
    BY <1>1 DEF ReadsSort, s
  <1>5. \E i \in Positions(buf, {"select"}) :
          k \in DOMAIN buf[i].order /\ buf[i].order[k] = [col |-> SortAlias(s), desc |-> s.desc]
    BY <1>1 DEF ReadsSort, s
  <1>6. ASSUME s.chain # <<>> PROVE LabelOf(stmt.outs[o].refs[1].tbl) = ChainLabel(s.chain)
    <2> DEFINE tbl == stmt.outs[o].refs[1].tbl
    <2>1. PICK d \in BOOLEAN : Answers(buf, params, tbl, [label |-> ChainLabel(s.chain), data |-> d])
      BY <1>4, <1>6
    <2> DEFINE section == [label |-> ChainLabel(s.chain), data |-> d]
    <2>2. section.label = ChainLabel(s.chain) /\ Answers(buf, params, tbl, section)
      BY <2>1
    <2> HIDE DEF section, tbl
    <2> QED
      BY <1>3, <2>2 DEF tbl
  <1> QED
    BY <1>4, <1>5, <1>6 DEF SelectPositions, s, stmt

\* A sorted statement reads every sorting element from the CTE of the rows its
\* chain leads to, under the name the main select is ordered by, whatever the
\* store and whatever else is included or sorted by: select_rels labels the
\* rows it selects by their chain, and the final CTE finds them by it.
THEOREM SortsFollowChains == Spec => []SortsByTheChain
  <1>1. IInv /\ ParamsInv /\ AnswerInv => SortsByTheChain
    BY ReadsByTheChain
  <1> QED
    BY <1>1, AnswersAreKept, PTL

----------------------------------------------------------------------------
(* What is kept on the way *)

\* The rows a select of table tbl reads are those of section s.
ReadsRows(b, ps, tbl, s) ==
  IF tbl.suffix = "final"
  THEN \E i \in Positions(b, {"cte"}) : b[i].tbl = tbl /\ Answers(b, ps, b[i].stmt.from, s)
  ELSE Answers(b, ps, tbl, s)

\* The chains select_rels goes through, and what is wanted of their rows.
TargetChains == IF WritesRel THEN {req.path.rels} ELSE DOMAIN BuildInclusionMap(req)
Wanted(c) ==
  IF WritesRel THEN "Id" ELSE IF ReadsRel \/ c \notin req.include THEN "None" ELSE "Object"

\* Every chain is waited for, followed, or has been followed to its end.
FollowsChains ==
  pc = "rels" =>
    /\ req.op # "delete"
    /\ main.suffix = "data"
    /\ \A c \in DOMAIN todo : c \in TargetChains /\ todo[c].resp = Wanted(c)
    /\ at.chain # <<>> => at.chain \in TargetChains /\ at.resp = Wanted(at.chain)
    /\ \A c \in TargetChains :
         \/ c \in DOMAIN todo
         \/ c = at.chain
         \/ \A i \in 1..Len(c) : Prefix(c, i) \in DOMAIN working_tables

\* The CTE of a chain is there for a chain that goes through it.
ServesChain(d, resp) ==
  \E c \in TargetChains : \E i \in 1..Len(c) : d = Prefix(c, i) /\ resp = Wanted(c)
ServesChains ==
  \A d \in DOMAIN working_tables :
    working_tables[d].tbl.suffix = "data" /\ ServesChain(d, working_tables[d].resp)

\* Every select of the buffer sends the section it reads.
SelectsRead == \A i \in SelectPositions : ReadsRows(buf, params, buf[i].tbl, SentSection(Source(buf[i].tbl)))

\* Nothing is sent before finish_request, and what is sent is what was asked.
SelectsLast ==
  /\ pc \in {"start", "rels", "failed"} => SelectPositions = {}
  /\ pc = "start" => DOMAIN taken = {} /\ DOMAIN working_tables = {}
  /\ SelectsRead

\* What finish_request has still to send.
Pending == {c \in DOMAIN taken : taken[c].resp # "None"}
PendingSection(c) == IF WritesRel THEN TypeSection(req.path.type) ELSE ChainSection(c)

\* What is sent and what is pending is what was asked, and nothing twice.
SendsTheRest ==
  pc = "finish" =>
    /\ Pending # {} => Sent # <<>>
    /\ {PendingSection(c) : c \in Pending} \cup ToSet(Sent) = AskedLead \cup AskedOthers
    /\ \A c \in Pending :
         /\ PendingSection(c) \in AskedOthers \ ToSet(Sent)
         /\ taken[c].tbl.suffix = "data"
         /\ Answers(buf, params, taken[c].tbl, PendingSection(c))
    /\ \A c, d \in Pending : PendingSection(c) = PendingSection(d) => c = d

PlanInv ==
  SortsAside /\ LabelsApart /\ FollowsChains /\ ServesChains /\ SelectsLast /\ SendsTheRest

----------------------------------------------------------------------------
(* What is sent *)

\* The sections of the selects of a buffer, nothing for its other tokens.
Parts(b, sections) ==
  [i \in DOMAIN b |-> IF b[i].t = "select" THEN <<sections[i]>> ELSE <<>>]

LEMMA PartsTyped ==
  ASSUME NEW S, NEW b, IsSeq(b), NEW sections, \A i \in Positions(b, {"select"}) : sections[i] \in S
  PROVE  Parts(b, sections) \in Seq(Seq(S))
  <1>1. Len(b) \in Nat /\ DOMAIN b = 1..Len(b)
    BY LenProperties DEF IsSeq
  <1>2. ASSUME NEW i \in DOMAIN b PROVE Parts(b, sections)[i] \in Seq(S)
    <2>1. CASE b[i].t = "select"
      <3>1. sections[i] \in S
        BY <2>1 DEF Positions
      <3> QED
        BY <2>1, <3>1 DEF Parts
    <2>2. CASE b[i].t # "select"
      BY <2>2 DEF Parts
    <2> QED
      BY <2>1, <2>2
  <1>3. Parts(b, sections) \in [1..Len(b) -> Seq(S)]
    <2>1. DOMAIN Parts(b, sections) = DOMAIN b /\ Parts(b, sections) = [i \in DOMAIN b |-> Parts(b, sections)[i]]
      BY DEF Parts
    <2> QED
      BY <1>1, <1>2, <2>1
  <1> QED
    BY <1>1, <1>3, FunctionIsSeq

LEMMA PartsOfJoined ==
  ASSUME NEW a, NEW b, IsSeq(a), IsSeq(b), NEW f, NEW g, NEW h,
         \A i \in Positions(a, {"select"}) : h[i] = f[i],
         \A j \in Positions(b, {"select"}) : h[Len(a) + j] = g[j]
  PROVE  Parts(a \o b, h) = Parts(a, f) \o Parts(b, g)
  <1> DEFINE c == a \o b
             x == Parts(a, f)
             y == Parts(b, g)
             z == Parts(c, h)
  <1>1. /\ Len(a) \in Nat /\ DOMAIN a = 1..Len(a)
        /\ Len(b) \in Nat /\ DOMAIN b = 1..Len(b)
        /\ DOMAIN c = 1..(Len(a) + Len(b))
        /\ \A i \in 1..Len(a) : c[i] = a[i]
        /\ \A i \in 1..Len(b) : c[Len(a) + i] = b[i]
    BY ConcatIsSeq
  <1>2. FunctionOn(x, DOMAIN a) /\ FunctionOn(y, DOMAIN b) /\ FunctionOn(z, DOMAIN (a \o b))
    BY DEF Parts, FunctionOn
  <1> HIDE DEF c
  <1>3. ASSUME NEW i \in DOMAIN a PROVE z[i] = x[i]
    <2>1. i \in DOMAIN c /\ c[i] = a[i]
      BY <1>1
    <2> QED
      BY <2>1 DEF Parts, Positions
  <1>4. ASSUME NEW i \in DOMAIN b PROVE z[Len(a) + i] = y[i]
    <2>1. Len(a) + i \in DOMAIN c /\ c[Len(a) + i] = b[i]
      BY <1>1
    <2> QED
      BY <2>1 DEF Parts, Positions
  <1> HIDE DEF x, y, z
  <1>5. GoesOn(a, b, x, y, z)
    BY <1>2, <1>3, <1>4 DEF GoesOn
  <1>6. z = x \o y
    BY <1>5, MapJoined
  <1> QED
    BY <1>6 DEF x, y, z, c

SectionsGoOn(a, b, f, g, h) ==
  /\ \A i \in Positions(a, {"select"}) : h[i] = f[i]
  /\ \A j \in Positions(b, {"select"}) : h[Len(a) + j] = g[j]

\* The sections of two joined buffers are those of the first, then those of
\* the second.
LEMMA SectionsJoined ==
  ASSUME NEW a, NEW b, IsSeq(a), IsSeq(b), NEW f, NEW g, NEW h, SectionsGoOn(a, b, f, g, h)
  PROVE  /\ FlattenSeq(Parts(a \o b, h)) = FlattenSeq(Parts(a, f)) \o FlattenSeq(Parts(b, g))
         /\ IsSeq(FlattenSeq(Parts(a, f))) /\ IsSeq(FlattenSeq(Parts(b, g)))
  <1> DEFINE S == {f[i] : i \in DOMAIN a} \cup {g[i] : i \in DOMAIN b}
  <1>1. /\ \A i \in Positions(a, {"select"}) : f[i] \in S
        /\ \A i \in Positions(b, {"select"}) : g[i] \in S
    BY DEF Positions
  <1> HIDE DEF S
  <1>2. Parts(a, f) \in Seq(Seq(S)) /\ Parts(b, g) \in Seq(Seq(S))
    BY <1>1, PartsTyped
  <1>3. Parts(a \o b, h) = Parts(a, f) \o Parts(b, g)
    BY PartsOfJoined DEF SectionsGoOn
  <1>4. /\ FlattenSeq(Parts(a, f) \o Parts(b, g)) = FlattenSeq(Parts(a, f)) \o FlattenSeq(Parts(b, g))
        /\ FlattenSeq(Parts(a, f)) \in Seq(S) /\ FlattenSeq(Parts(b, g)) \in Seq(S)
    BY <1>2, FlattenConcat
  <1> QED
    BY <1>3, <1>4, SeqIsSeq

\* Tokens none of which is a select send nothing, and one that is sends one.
LEMMA QuietSections ==
  ASSUME NEW b, IsSeq(b), Positions(b, {"select"}) = {}, NEW f
  PROVE  FlattenSeq(Parts(b, f)) = <<>>
  <1>1. Parts(b, f) \in Seq(Seq({}))
    BY PartsTyped
  <1>2. FlattenSeq(Parts(b, f)) \in Seq({})
    BY <1>1, FlattenSome
  <1> DEFINE s == FlattenSeq(Parts(b, f))
  <1> HIDE DEF s
  <1>3. s \in Seq({})
    BY <1>2 DEF s
  <1>4. Len(s) \in Nat /\ DOMAIN s = 1..Len(s) /\ \A i \in 1..Len(s) : s[i] \in {}
    BY <1>3, LenProperties
  <1>5. Len(s) = 0
    BY <1>4
  <1>6. s = <<>>
    BY <1>3, <1>5, EmptySeq
  <1> QED
    BY <1>6 DEF s

LEMMA OneSection ==
  ASSUME NEW tok, tok.t = "select", NEW f
  PROVE  FlattenSeq(Parts(<<tok>>, f)) = <<f[1]>>
  <1>1. Parts(<<tok>>, f) = <<<<f[1]>>>>
    BY DEF Parts
  <1> DEFINE S == {f[1]}
  <1>2. <<f[1]>> \in Seq(S)
    OBVIOUS
  <1>3. FlattenSeq(<<<<f[1]>>>>) = <<f[1]>>
    <2> DEFINE a == <<f[1]>>
    <2> HIDE DEF a, S
    <2>1. a \in Seq(S)
      BY <1>2 DEF a
    <2>2. FlattenSeq(<<a>>) = a
      BY <2>1, FlattenSmall
    <2> QED
      BY <2>2 DEF a
  <1> QED
    BY <1>1, <1>3

LEMMA LastSection ==
  ASSUME NEW rest, IsSeq(rest), Positions(rest, {"select"}) = {}, NEW tok, tok.t = "select", NEW f
  PROVE  FlattenSeq(Parts(rest \o <<tok>>, f)) = <<f[Len(rest) + 1]>>
  <1> DEFINE one == <<tok>>
             g == [j \in {1} |-> f[Len(rest) + 1]]
  <1>1. IsSeq(one) /\ Positions(one, {"select"}) = {1} /\ g[1] = f[Len(rest) + 1]
    <2>1. IsSeq(<<tok>>) /\ Positions(<<tok>>, {"select"}) = IF tok.t \in {"select"} THEN {1} ELSE {}
      BY OneTokenAt
    <2> QED
      BY <2>1
  <1>2. FlattenSeq(Parts(one, g)) = <<f[Len(rest) + 1]>>
    BY <1>1, OneSection
  <1> HIDE DEF one, g
  <1>3. SectionsGoOn(rest, one, f, g, f)
    BY <1>1 DEF SectionsGoOn
  <1>4. FlattenSeq(Parts(rest \o one, f)) = FlattenSeq(Parts(rest, f)) \o FlattenSeq(Parts(one, g))
    BY <1>1, <1>3, SectionsJoined
  <1>5. FlattenSeq(Parts(rest, f)) = <<>>
    BY QuietSections
  <1>6. <<>> \o <<f[Len(rest) + 1]>> = <<f[Len(rest) + 1]>>
    BY NoneJoined, OneTokenAt
  <1> QED
    BY <1>2, <1>4, <1>5, <1>6 DEF one

\* The CTE of a name is the one there is.
LEMMA StmtNamed ==
  ASSUME CteNamesUnique, NEW i \in Positions(buf, {"cte"})
  PROVE  StmtOf(buf[i].tbl) = buf[i].stmt
  <1>1. \A k \in CtePositions : buf[k].tbl = buf[i].tbl <=> k = i
    BY DEF CteNamesUnique, NamesUnique, CtePositions
  <1>2. (CHOOSE k \in CtePositions : buf[k].tbl = buf[i].tbl) = i
    BY <1>1 DEF CtePositions
  <1> QED
    BY <1>2 DEF StmtOf, StmtIn, CtePositions

\* A select sends the section its rows are of.
RowsAreSent == \A tbl, s : ReadsRows(buf, params, tbl, s) => SentSection(Source(tbl)) = s

LEMMA RowsRead == CteNamesUnique => RowsAreSent
  <1> SUFFICES ASSUME CteNamesUnique, NEW tbl, NEW s, ReadsRows(buf, params, tbl, s)
               PROVE  SentSection(Source(tbl)) = s
    BY DEF RowsAreSent
  <1>1. CASE tbl.suffix = "final"
    <2>1. PICK i \in Positions(buf, {"cte"}) : buf[i].tbl = tbl /\ Answers(buf, params, buf[i].stmt.from, s)
      BY <1>1 DEF ReadsRows
    <2>2. StmtOf(tbl) = buf[i].stmt
      BY <2>1, StmtNamed
    <2>3. Source(tbl) = buf[i].stmt.from
      BY <1>1, <2>2 DEF Source
    <2> QED
      BY <2>1, <2>3, AnswersRead
  <1>2. CASE tbl.suffix # "final"
    <2>1. Source(tbl) = tbl /\ Answers(buf, params, tbl, s)
      BY <1>2 DEF Source, ReadsRows
    <2> QED
      BY <2>1, AnswersRead
  <1> QED
    BY <1>1, <1>2

\* What a select reads it goes on reading.
LEMMA RowsGrow ==
  ASSUME IInv, ParamsInv, NEW toks, NEW vs, Grows(toks, vs)
  PROVE  \A tbl, s : ReadsRows(buf, params, tbl, s) => ReadsRows(buf', params', tbl, s)
  <1>1. \A tbl, s : Answers(buf, params, tbl, s) => Answers(buf', params', tbl, s)
    BY AnswersGrow
  <1>2. \A i \in Positions(buf, {"cte"}) : i \in Positions(buf', {"cte"}) /\ buf'[i] = buf[i]
    <2>1. IsSeq(buf) /\ IsSeq(toks) /\ buf' = buf \o toks
      BY DEF IInv, BufferInv, Grows
    <2>2. \A i \in Positions(buf, {"cte"}) : i \in Positions(buf \o toks, {"cte"}) /\ (buf \o toks)[i] = buf[i]
      BY <2>1, PositionsBefore
    <2> QED
      BY <2>1, <2>2
  <1> SUFFICES ASSUME NEW tbl, NEW s, ReadsRows(buf, params, tbl, s)
               PROVE  ReadsRows(buf', params', tbl, s)
    OBVIOUS
  <1>3. CASE tbl.suffix = "final"
    <2>1. PICK i \in Positions(buf, {"cte"}) : buf[i].tbl = tbl /\ Answers(buf, params, buf[i].stmt.from, s)
      BY <1>3 DEF ReadsRows
    <2>2. i \in Positions(buf', {"cte"}) /\ buf'[i].tbl = tbl /\ Answers(buf', params', buf'[i].stmt.from, s)
      BY <1>1, <1>2, <2>1
    <2> QED
      BY <1>3, <2>2 DEF ReadsRows
  <1>4. CASE tbl.suffix # "final"
    BY <1>1, <1>4 DEF ReadsRows
  <1> QED
    BY <1>3, <1>4

Sections == [i \in DOMAIN buf |-> SentSection(Source(buf[i].tbl))]

LEMMA SentIs == Sent = FlattenSeq(Parts(buf, Sections))
  <1>1. Parts(buf, Sections)
          = [i \in DOMAIN buf |-> IF buf[i].t = "select" THEN <<SentSection(Source(buf[i].tbl))>> ELSE <<>>]
    BY DEF Parts, Sections
  <1> QED
    BY <1>1 DEF Sent

\* The sections sent before a step are those its buffer began with.
LEMMA SectionsKept ==
  ASSUME IInv, ParamsInv, IInv', SelectsRead, NEW toks, NEW vs, Grows(toks, vs)
  PROVE  \A i \in Positions(buf, {"select"}) :
           /\ i \in Positions(buf', {"select"}) /\ buf'[i] = buf[i] /\ Sections'[i] = Sections[i]
           /\ ReadsRows(buf', params', buf'[i].tbl, SentSection(Source(buf[i].tbl))')
  <1>1. IsSeq(buf) /\ IsSeq(toks) /\ buf' = buf \o toks
    BY DEF IInv, BufferInv, Grows
  <1>2. \A i \in Positions(buf, {"select"}) : i \in Positions(buf \o toks, {"select"}) /\ (buf \o toks)[i] = buf[i]
    BY <1>1, PositionsBefore
  <1>3. RowsAreSent'
    <2>1. (CteNamesUnique => RowsAreSent)'
      BY RowsRead, PTL
    <2>2. CteNamesUnique'
      BY DEF IInv, BufferInv
    <2> QED
      BY <2>1, <2>2
  <1> SUFFICES ASSUME NEW i \in Positions(buf, {"select"})
               PROVE  /\ i \in Positions(buf', {"select"}) /\ buf'[i] = buf[i] /\ Sections'[i] = Sections[i]
                      /\ ReadsRows(buf', params', buf'[i].tbl, SentSection(Source(buf[i].tbl))')
    OBVIOUS
  <1> DEFINE tbl == buf[i].tbl
             s == SentSection(Source(tbl))
  <1>4. i \in Positions(buf', {"select"}) /\ buf'[i] = buf[i]
    BY <1>1, <1>2
  <1>5. ReadsRows(buf, params, tbl, s)
    BY DEF SelectsRead, SelectPositions
  <1>6. ReadsRows(buf', params', tbl, s)
    BY <1>5, RowsGrow
  <1>7. SentSection(Source(buf[i].tbl))' = s
    BY <1>3, <1>4, <1>6 DEF RowsAreSent
  <1>8. Sections[i] = s /\ Sections'[i] = s
    BY <1>4, <1>7 DEF Sections, Positions
  <1> QED
    BY <1>4, <1>6, <1>7, <1>8

\* A step that writes no select sends nothing, and one that ends in a select
\* sends what it reads.
LEMMA SentStays ==
  ASSUME IInv, ParamsInv, IInv', SelectsRead, NEW toks, NEW vs, Grows(toks, vs),
         Positions(toks, {"select"}) = {}
  PROVE  Sent' = Sent /\ IsSeq(Sent) /\ SelectsRead' /\ SelectPositions' = SelectPositions
  <1>1. IsSeq(buf) /\ IsSeq(toks) /\ buf' = buf \o toks
    BY DEF IInv, BufferInv, Grows
  <1>2. \A i \in Positions(buf, {"select"}) :
          /\ i \in Positions(buf', {"select"}) /\ buf'[i] = buf[i] /\ Sections'[i] = Sections[i]
          /\ ReadsRows(buf', params', buf'[i].tbl, SentSection(Source(buf[i].tbl))')
    BY SectionsKept
  <1>3. SelectPositions' = SelectPositions
    <2>1. \A i \in Positions(buf \o toks, {"select"}) : ComesFrom(buf \o toks, i, buf, toks, {"select"})
      BY <1>1, PositionsOfJoined
    <2>2. \A i \in Positions(buf', {"select"}) : i \in Positions(buf, {"select"})
      BY <1>1, <2>1 DEF ComesFrom
    <2> QED
      BY <1>2, <2>2 DEF SelectPositions
  <1>4. SelectsRead'
    BY <1>2, <1>3 DEF SelectsRead, SelectPositions
  <1>5. /\ FlattenSeq(Parts(buf \o toks, Sections')) = FlattenSeq(Parts(buf, Sections)) \o FlattenSeq(Parts(toks, <<>>))
        /\ IsSeq(FlattenSeq(Parts(buf, Sections)))
    <2> DEFINE f == Sections
               g == <<>>
               h == Sections'
    <2>1. SectionsGoOn(buf, toks, f, g, h)
      BY <1>2 DEF SectionsGoOn
    <2> HIDE DEF f, g, h
    <2>2. /\ FlattenSeq(Parts(buf \o toks, h)) = FlattenSeq(Parts(buf, f)) \o FlattenSeq(Parts(toks, g))
          /\ IsSeq(FlattenSeq(Parts(buf, f)))
      BY <1>1, <2>1, SectionsJoined
    <2> QED
      BY <2>2 DEF f, g, h
  <1>6. FlattenSeq(Parts(toks, <<>>)) = <<>>
    BY <1>1, QuietSections
  <1>7. Sent = FlattenSeq(Parts(buf, Sections)) /\ Sent' = FlattenSeq(Parts(buf', Sections'))
    <2>1. (Sent = FlattenSeq(Parts(buf, Sections)))'
      BY SentIs, PTL
    <2> QED
      BY <2>1, SentIs
  <1>8. IsSeq(Sent) /\ Sent' = Sent \o <<>>
    BY <1>1, <1>5, <1>6, <1>7
  <1>9. Sent \o <<>> = Sent
    BY <1>8, NoneJoined
  <1> QED
    BY <1>3, <1>4, <1>8, <1>9

LEMMA SentMore ==
  ASSUME IInv, ParamsInv, IInv', SelectsRead, NEW rest, NEW tok, NEW vs, IsSeq(rest),
         Grows(rest \o <<tok>>, vs), Positions(rest, {"select"}) = {}, tok.t = "select",
         NEW s, ReadsRows(buf', params', tok.tbl, s)
  PROVE  Sent' = Sent \o <<s>> /\ IsSeq(Sent) /\ SelectsRead'
  <1> DEFINE toks == rest \o <<tok>>
             n == Len(rest) + 1
             g == [j \in {n} |-> s]
  <1>0. Grows(toks, vs)
    OBVIOUS
  <1>1. IsSeq(buf) /\ IsSeq(toks) /\ buf' = buf \o toks
    BY <1>0 DEF IInv, BufferInv, Grows
  <1>2. Positions(toks, {"select"}) = {n} /\ toks[n] = tok
    <2>1. IsSeq(<<tok>>) /\ <<tok>>[1] = tok /\ Positions(<<tok>>, {"select"}) = {1}
      BY OneTokenAt
    <2>2. \A i \in Positions(toks, {"select"}) : ComesFrom(toks, i, rest, <<tok>>, {"select"})
      BY <2>1, PositionsOfJoined
    <2>3. /\ Len(rest) \in Nat /\ DOMAIN rest = 1..Len(rest)
          /\ Len(<<tok>>) = 1
          /\ DOMAIN toks = 1..(Len(rest) + 1)
          /\ \A i \in 1..Len(rest) : toks[i] = rest[i]
          /\ toks[Len(rest) + 1] = tok
      <3>1. Len(<<tok>>) = 1
        OBVIOUS
      <3> DEFINE one == <<tok>>
      <3> HIDE DEF one
      <3>2. /\ Len(rest) \in Nat /\ DOMAIN rest = 1..Len(rest)
            /\ DOMAIN (rest \o one) = 1..(Len(rest) + Len(one))
            /\ \A i \in 1..Len(rest) : (rest \o one)[i] = rest[i]
            /\ \A i \in 1..Len(one) : (rest \o one)[Len(rest) + i] = one[i]
        BY <2>1, ConcatIsSeq DEF one
      <3>3. Len(one) = 1 /\ one[1] = tok
        BY <3>1 DEF one
      <3>4. (rest \o one)[Len(rest) + 1] = tok
        BY <3>2, <3>3
      <3> QED
        BY <3>1, <3>2, <3>3, <3>4 DEF one
    <2>4. \A i \in DOMAIN rest : rest[i].t # "select"
      BY DEF Positions
    <2> HIDE DEF toks
    <2>5. \A i \in DOMAIN toks : toks[i].t = "select" <=> i = n
      BY <2>3, <2>4
    <2>6. n \in DOMAIN toks
      BY <2>3
    <2> QED
      BY <2>3, <2>5, <2>6 DEF Positions
  <1> HIDE DEF toks, n
  <1>3. \A i \in Positions(buf, {"select"}) :
          /\ i \in Positions(buf', {"select"}) /\ buf'[i] = buf[i] /\ Sections'[i] = Sections[i]
          /\ ReadsRows(buf', params', buf'[i].tbl, SentSection(Source(buf[i].tbl))')
    BY <1>0, SectionsKept
  <1> DEFINE k == Len(buf) + n
  <1>4. k \in Positions(buf', {"select"}) /\ buf'[k] = tok
    <2>1. \A j \in Positions(toks, {"select"}) :
            Len(buf) + j \in Positions(buf \o toks, {"select"}) /\ (buf \o toks)[Len(buf) + j] = toks[j]
      BY <1>1, PositionsAfter
    <2> QED
      BY <1>1, <1>2, <2>1
  <1> HIDE DEF k
  <1>5. SentSection(Source(tok.tbl))' = s
    <2>1. (CteNamesUnique => RowsAreSent)'
      BY RowsRead, PTL
    <2>2. CteNamesUnique'
      BY DEF IInv, BufferInv
    <2> QED
      BY <2>1, <2>2 DEF RowsAreSent
  <1>6. Sections'[k] = s
    BY <1>4, <1>5 DEF Sections, Positions
  <1>7. SelectsRead'
    <2> SUFFICES ASSUME NEW i \in Positions(buf', {"select"})
                 PROVE  ReadsRows(buf', params', buf'[i].tbl, SentSection(Source(buf[i].tbl))')
      BY DEF SelectsRead, SelectPositions
    <2>1. ComesFrom(buf \o toks, i, buf, toks, {"select"})
      BY <1>1, PositionsOfJoined
    <2>2. CASE i \in Positions(buf, {"select"})
      BY <1>3, <2>2
    <2>3. CASE buf'[i] = tok
      BY <1>5, <2>3
    <2> QED
      BY <1>1, <1>2, <2>1, <2>2, <2>3 DEF ComesFrom
  <1>8. /\ FlattenSeq(Parts(buf \o toks, Sections')) = FlattenSeq(Parts(buf, Sections)) \o FlattenSeq(Parts(toks, g))
        /\ IsSeq(FlattenSeq(Parts(buf, Sections)))
    <2> DEFINE f == Sections
               h == Sections'
    <2>1. SectionsGoOn(buf, toks, f, g, h)
      BY <1>2, <1>3, <1>6 DEF SectionsGoOn, k
    <2> HIDE DEF f, g, h
    <2>2. /\ FlattenSeq(Parts(buf \o toks, h)) = FlattenSeq(Parts(buf, f)) \o FlattenSeq(Parts(toks, g))
          /\ IsSeq(FlattenSeq(Parts(buf, f)))
      BY <1>1, <2>1, SectionsJoined
    <2> QED
      BY <2>2 DEF f, h
  <1>9. FlattenSeq(Parts(toks, g)) = <<s>>
    <2>1. g[n] = s
      OBVIOUS
    <2> HIDE DEF g
    <2>2. FlattenSeq(Parts(rest \o <<tok>>, g)) = <<g[Len(rest) + 1]>>
      BY LastSection
    <2> QED
      BY <2>1, <2>2 DEF toks, n
  <1>10. Sent = FlattenSeq(Parts(buf, Sections)) /\ Sent' = FlattenSeq(Parts(buf', Sections'))
    <2>1. (Sent = FlattenSeq(Parts(buf, Sections)))'
      BY SentIs, PTL
    <2> QED
      BY <2>1, SentIs
  <1> QED
    BY <1>1, <1>7, <1>8, <1>9, <1>10

----------------------------------------------------------------------------
(* What is asked *)

LEMMA AskedStays ==
  ASSUME req' = req
  PROVE  /\ SortsAside' <=> SortsAside
         /\ LabelsApart' <=> LabelsApart
         /\ AskedLead' = AskedLead /\ AskedOthers' = AskedOthers
         /\ TargetChains' = TargetChains /\ MainSection' = MainSection
  <1> USE DEF TypeSection, ChainSection, LinkageSection, Section, ReadsRel, WritesRel
  <1>1. IncludedChains' = IncludedChains
    BY DEF IncludedChains
  <1>2. SortsAside' <=> SortsAside
    BY <1>1 DEF SortsAside
  <1>3. LabelsApart' <=> LabelsApart
    BY <1>1 DEF LabelsApart
  <1>4. AskedLead' = AskedLead
    BY DEF AskedLead
  <1>5. AskedOthers' = AskedOthers
    BY <1>1 DEF AskedOthers
  <1>6. TargetChains' = TargetChains
    BY DEF TargetChains
  <1>7. MainSection' = MainSection
    BY DEF MainSection
  <1> QED
    BY <1>2, <1>3, <1>4, <1>5, <1>6, <1>7

LEMMA ChainsStay ==
  ASSUME req' = req
  PROVE  \A c, resp : /\ Wanted(c)' = Wanted(c)
                      /\ PendingSection(c)' = PendingSection(c)
                      /\ RowsSection(c, resp)' = RowsSection(c, resp)
  <1> SUFFICES ASSUME NEW c, NEW resp
               PROVE  /\ Wanted(c)' = Wanted(c)
                      /\ PendingSection(c)' = PendingSection(c)
                      /\ RowsSection(c, resp)' = RowsSection(c, resp)
    OBVIOUS
  <1>1. Wanted(c)' = Wanted(c)
    BY DEF Wanted, WritesRel, ReadsRel
  <1>2. PendingSection(c)' = PendingSection(c)
    BY DEF PendingSection, WritesRel, TypeSection, ChainSection, Section
  <1>3. RowsSection(c, resp)' = RowsSection(c, resp)
    BY DEF RowsSection, Section
  <1> QED
    BY <1>1, <1>2, <1>3

\* What a map of the chains gone through says is wanted of them.
AsksFor(map) == DOMAIN map = TargetChains /\ \A c \in DOMAIN map : map[c].resp = Wanted(c)

LEMMA MapsAsk ==
  /\ ~WritesRel /\ ~ReadsRel => AsksFor(BuildInclusionMap(req))
  /\ ReadsRel => AsksFor(Unwanted(BuildInclusionMap(req)))
  /\ \A sorts : WritesRel => AsksFor([c \in {req.path.rels} |-> [resp |-> "Id", sorts |-> sorts]])
  <1> DEFINE map == BuildInclusionMap(req)
  <1>1. \A c \in DOMAIN map : map[c].resp = IF c \in req.include THEN "Object" ELSE "None"
    BY DEF BuildInclusionMap
  <1>2. DOMAIN Unwanted(map) = DOMAIN map
    BY DEF Unwanted
  <1>3. \A c \in DOMAIN map : Unwanted(map)[c].resp = "None"
    BY DEF Unwanted, BuildInclusionMap
  <1> HIDE DEF map
  <1>4. ReadsRel => ~WritesRel
    BY DEF ReadsRel, WritesRel
  <1>5. ~WritesRel /\ ~ReadsRel => AsksFor(map)
    BY <1>1 DEF AsksFor, TargetChains, Wanted, map
  <1>6. ReadsRel => AsksFor(Unwanted(map))
    BY <1>2, <1>3, <1>4 DEF AsksFor, TargetChains, Wanted, map
  <1>7. ASSUME NEW sorts, WritesRel PROVE AsksFor([c \in {req.path.rels} |-> [resp |-> "Id", sorts |-> sorts]])
    BY <1>7 DEF AsksFor, TargetChains, Wanted
  <1> QED
    BY <1>5, <1>6, <1>7 DEF map

----------------------------------------------------------------------------
(* The plan is kept while select_rels goes on *)

\* select_rels begins.
LEMMA BeginsPlan ==
  ASSUME IInv, ParamsInv, IInv', PlanInv, pc = "start", req.op # "delete",
         NEW map, AsksFor(map), Begins(map)
  PROVE  PlanInv'
  <1>0. PICK toks, vs, data :
          /\ Grows(toks, vs) /\ Positions(toks, {"select"}) = {}
          /\ data.suffix = "data" /\ SelectRelsFrom(data, map)
    BY DEF Begins
  <1>1. /\ main' = data /\ todo' = map /\ pc' = "rels" /\ at'.chain = <<>>
        /\ UNCHANGED <<req, working_tables, taken>>
    BY <1>0 DEF SelectRelsFrom, Nowhere, Enter
  <1>2. SelectsLast /\ SelectsRead
    BY DEF PlanInv, SelectsLast
  <1>3. SelectsRead' /\ SelectPositions' = SelectPositions
    BY <1>0, <1>2, SentStays
  <1>4. SelectsLast'
    BY <1>1, <1>2, <1>3 DEF SelectsLast
  <1>5. TargetChains' = TargetChains /\ SortsAside' /\ LabelsApart'
    BY <1>1, AskedStays DEF PlanInv
  <1>6. \A c, resp : Wanted(c)' = Wanted(c)
    BY <1>1, ChainsStay
  <1>7. FollowsChains'
    BY <1>0, <1>1, <1>5, <1>6 DEF FollowsChains, AsksFor
  <1>8. ServesChains'
    BY <1>1, <1>2 DEF ServesChains, SelectsLast
  <1>9. SendsTheRest'
    BY <1>1 DEF SendsTheRest
  <1> QED
    BY <1>4, <1>5, <1>7, <1>8, <1>9 DEF PlanInv

\* A read, an insertion and an update begin to go through the chains asked for.
LEMMA GenPlan ==
  ASSUME IInv, ParamsInv, AnswerInv, IInv', PlanInv,
         GenSelect \/ GenSelectRelationships \/ GenInsert \/ GenUpdateMain \/ GenUpdateRel
  PROVE  PlanInv'
  <1>1. pc = "start" /\ req.op # "delete"
    BY DEF GenSelect, GenSelectRelationships, GenInsert, GenUpdateMain, GenUpdateRel, WritesMain, WritesRel
  <1>2. CASE GenSelect
    <2>1. ~WritesRel /\ ~ReadsRel
      BY <1>2 DEF GenSelect, WritesRel, ReadsRel
    <2> QED
      BY <1>1, <1>2, <2>1, GenSelectAnswers, MapsAsk, BeginsPlan
  <1>3. CASE GenSelectRelationships
    <2>1. ReadsRel
      BY <1>3 DEF GenSelectRelationships, ReadsRel
    <2> QED
      BY <1>1, <1>3, <2>1, GenSelectRelationshipsAnswers, MapsAsk, BeginsPlan
  <1>4. CASE GenInsert
    <2>1. ~WritesRel /\ ~ReadsRel
      BY <1>4 DEF GenInsert, WritesRel, ReadsRel
    <2> QED
      BY <1>1, <1>4, <2>1, GenInsertAnswers, MapsAsk, BeginsPlan
  <1>5. CASE GenUpdateMain
    <2>1. ~WritesRel /\ ~ReadsRel
      BY <1>5 DEF GenUpdateMain, WritesMain, WritesRel, ReadsRel
    <2> QED
      BY <1>1, <1>5, <2>1, GenUpdateMainAnswers, MapsAsk, BeginsPlan
  <1>6. CASE GenUpdateRel
    <2>1. WritesRel
      BY <1>6 DEF GenUpdateRel
    <2>2. PICK sorts : Begins([c \in {req.path.rels} |-> [resp |-> "Id", sorts |-> sorts]])
      BY <1>6, GenUpdateRelAnswers
    <2> QED
      BY <1>1, <2>1, <2>2, MapsAsk, BeginsPlan
  <1> QED
    BY <1>2, <1>3, <1>4, <1>5, <1>6

\* The next chain is taken once the last one has been followed to its end.
LEMMA NextEntryPlan ==
  ASSUME IInv, PlanInv, NextEntry
  PROVE  PlanInv'
  <1>1. PICK c \in DOMAIN todo : at' = Enter(c, todo[c], main) /\ todo' = Without(todo, c)
    BY DEF NextEntry
  <1>2. /\ pc = "rels" /\ EntryDone
        /\ UNCHANGED <<req, pc, params, buf, working_tables, main, taken>>
    BY DEF NextEntry
  <1>3. /\ at'.chain = c /\ at'.resp = todo[c].resp
        /\ DOMAIN todo' = DOMAIN todo \ {c}
        /\ \A d \in DOMAIN todo' : todo'[d] = todo[d]
    BY <1>1 DEF Enter, Without
  <1>4. \A i \in 1..Len(at.chain) : Prefix(at.chain, i) \in DOMAIN working_tables
    BY <1>2 DEF EntryDone, IInv, ChainsInv, Climbing
  <1>5. TargetChains' = TargetChains /\ SortsAside' /\ LabelsApart'
    BY <1>2, AskedStays DEF PlanInv
  <1>6. \A d, resp : Wanted(d)' = Wanted(d)
    BY <1>2, ChainsStay
  <1>7. FollowsChains'
    BY <1>2, <1>3, <1>4, <1>5, <1>6 DEF PlanInv, FollowsChains
  <1>8. ServesChains'
    BY <1>2, <1>5, <1>6 DEF PlanInv, ServesChains, ServesChain
  <1>9. SelectsLast'
    BY <1>2 DEF PlanInv, SelectsLast, SelectsRead, SelectPositions, ReadsRows, SentSection, Source,
                StmtOf, StmtIn, LabelOf, CtePositions
  <1>10. SendsTheRest'
    BY <1>2 DEF SendsTheRest
  <1> QED
    BY <1>5, <1>7, <1>8, <1>9, <1>10 DEF PlanInv

\* The rows of one more link are there for the chain that is followed.
LEMMA SelectRelPlan ==
  ASSUME IInv, ParamsInv, IInv', PlanInv, SelectRel
  PROVE  PlanInv'
  <1> DEFINE n == at.i + 1
             here == Prefix(at.chain, n)
             r == at.chain[n]
             t == RelatedType(r)
             cte == ToCte(t, "rel", "data", cte_index)
             relating == <<[tbl |-> at.tbl, chain |-> here]>>
             fields == JsonFields(req.sparse, t, Returned(r, at.resp))
             adds == RelFields(t) \o MapSeq(SortField, at.sorts)
             stmt == Stmt("select", BaseTable(t),
                          SelectOuts(BaseTable(t), t, relating, adds, fields, Len(params)),
                          GenInnerJoin(r, at.tbl, BaseTable(t)), <<>>, <<>>)
             tok == Cte(cte, stmt)
             vs == SelectParams(t, relating, fields)
             toks == <<Comma, tok>>
  <1>1. /\ pc = "rels" /\ ~EntryDone
        /\ buf' = buf \o toks
        /\ params' = params \o vs
        /\ working_tables' = [c \in DOMAIN working_tables \cup {here} |->
                                IF c = here THEN [tbl |-> cte, resp |-> at.resp]
                                            ELSE working_tables[c]]
        /\ at' = [at EXCEPT !.i = n, !.tbl = cte]
        /\ UNCHANGED <<req, pc, main, todo, taken>>
    BY DEF SelectRel, CurrentRelChain
  <1>2. cte.suffix = "data" /\ tok.t = "cte"
    BY TokensOf DEF ToCte
  <1> HIDE DEF tok
  <1>3. IsRequest(req) /\ at.chain \in Seq(Rel) /\ at.i \in 0..Len(at.chain)
    BY DEF IInv, TypeOK
  <1>4. n \in 1..Len(at.chain)
    <2>1. at.i # Len(at.chain) /\ Len(at.chain) \in Nat
      BY <1>1, <1>3, LenProperties DEF EntryDone
    <2> QED
      BY <1>3, <2>1
  <1>5. t \in Type
    <2>1. r \in Rel
      BY <1>3, <1>4, PrefixProperties
    <2> QED
      BY <2>1, RelationAssumption DEF RelatedType
  <1>6. IsSeq(vs)
    <2>1. fields \in Seq(Ident)
      BY <1>3, <1>5, FieldsTyped
    <2> QED
      BY <2>1, SelectParamsTyped
  <1> HIDE DEF vs, cte
  <1>7. at'.chain = at.chain /\ at'.resp = at.resp
    BY <1>1 DEF IInv, TypeOK
  <1>8. IsSeq(toks) /\ Positions(toks, {"select"}) = {}
    BY <1>2, TokensOf, TokensAt
  <1>9. Grows(toks, vs)
    BY <1>1, <1>6, <1>8 DEF Grows
  <1> HIDE DEF toks
  <1>10. SelectsRead' /\ SelectPositions' = SelectPositions
    <2>1. SelectsRead
      BY DEF PlanInv, SelectsLast
    <2> QED
      BY <1>8, <1>9, <2>1, SentStays
  <1>11. SelectsLast'
    BY <1>1, <1>10 DEF PlanInv, SelectsLast
  <1>12. TargetChains' = TargetChains /\ SortsAside' /\ LabelsApart'
    BY <1>1, AskedStays DEF PlanInv
  <1>13. \A d, resp : Wanted(d)' = Wanted(d)
    BY <1>1, ChainsStay
  <1>14. DOMAIN working_tables \subseteq DOMAIN working_tables'
    BY <1>1
  <1>15. FollowsChains'
    BY <1>1, <1>7, <1>12, <1>13, <1>14 DEF PlanInv, FollowsChains
  <1>16. at.chain \in TargetChains /\ at.resp = Wanted(at.chain)
    <2>1. at.chain # <<>>
      BY <1>4
    <2> QED
      BY <1>1, <2>1 DEF PlanInv, FollowsChains
  <1>17. ServesChain(here, at.resp)
    BY <1>4, <1>16 DEF ServesChain
  <1> HIDE DEF here
  <1>18. ServesChains'
    <2> SUFFICES ASSUME NEW d \in DOMAIN working_tables'
                 PROVE  working_tables'[d].tbl.suffix = "data" /\ ServesChain(d, working_tables'[d].resp)
      BY <1>12, <1>13 DEF ServesChains, ServesChain
    <2>1. CASE d = here
      BY <1>1, <1>2, <1>17, <2>1
    <2>2. CASE d # here
      BY <1>1, <2>2 DEF PlanInv, ServesChains
    <2> QED
      BY <2>1, <2>2
  <1>19. SendsTheRest'
    BY <1>1 DEF SendsTheRest
  <1> QED
    BY <1>11, <1>12, <1>15, <1>18, <1>19 DEF PlanInv

----------------------------------------------------------------------------
(* What finish_request begins with *)

\* Nothing is sent before finish_request begins, nor by a builder abandoned.
NothingSent == pc \in {"start", "rels", "failed"} => Sent = <<>>

LEMMA NoneSent == IInv /\ SelectsLast => NothingSent
  <1> SUFFICES ASSUME IInv, SelectsLast, pc \in {"start", "rels", "failed"}
               PROVE  Sent = <<>>
    BY DEF NothingSent
  <1>1. IsSeq(buf) /\ Positions(buf, {"select"}) = {}
    BY DEF IInv, BufferInv, SelectsLast, SelectPositions
  <1> DEFINE f == Sections
  <1> HIDE DEF f
  <1>2. FlattenSeq(Parts(buf, f)) = <<>>
    BY <1>1, QuietSections
  <1> QED
    BY <1>2, SentIs DEF f

LEMMA Asked ==
  /\ WritesRel => /\ AskedLead = {LinkageSection(req.path.rels)}
                  /\ AskedOthers = {TypeSection(req.path.type)}
  /\ ReadsRel => AskedLead = {LinkageSection(req.path.rels)} /\ AskedOthers = {}
  /\ req.op = "delete" => AskedLead = {} /\ AskedOthers = {}
  /\ ~WritesRel /\ ~ReadsRel /\ req.op # "delete" =>
       /\ AskedLead = {TypeSection(MainType(req.path))}
       /\ AskedOthers = {ChainSection(c) : c \in IncludedChains}
  <1>1. /\ WritesRel => ~ReadsRel /\ req.op # "delete"
        /\ ReadsRel => req.op # "delete"
    BY DEF WritesRel, ReadsRel
  <1>2. CASE WritesRel
    BY <1>1, <1>2 DEF AskedLead, AskedOthers
  <1>3. CASE ReadsRel
    BY <1>1, <1>3 DEF AskedLead, AskedOthers
  <1>4. CASE req.op = "delete"
    BY <1>1, <1>4 DEF AskedLead, AskedOthers
  <1>5. CASE ~WritesRel /\ ~ReadsRel /\ req.op # "delete"
    BY <1>1, <1>5 DEF AskedLead, AskedOthers
  <1> QED
    BY <1>1, <1>2, <1>3, <1>4, <1>5

\* The sections of a chain, by what is wanted of its rows.
LEMMA SectionsOfRows ==
  ASSUME NEW c
  PROVE  RowsSection(c, "Object") = ChainSection(c) /\ RowsSection(c, "Id") = LinkageSection(c)
  <1> DEFINE bucket == IsManyToOne(Last(c)) /\ Relation[Last(c)].part_of_many_to_many
  <1>1. Returned(Last(c), "Object") = ~bucket
    BY DEF Returned
  <1>2. Returned(Last(c), "Id") = FALSE
    BY DEF Returned
  <1> QED
    BY <1>1, <1>2 DEF RowsSection, ChainSection, LinkageSection

\* Every chain of the map has been followed to its end.
LEMMA ChainsFollowed ==
  ASSUME IInv, FollowsChains, RelsDone
  PROVE  \A c \in TargetChains : \A i \in 1..Len(c) : Prefix(c, i) \in DOMAIN working_tables
  <1>1. pc = "rels" /\ EntryDone /\ DOMAIN todo = {}
    BY EmptyMap DEF RelsDone
  <1>2. \A i \in 1..Len(at.chain) : Prefix(at.chain, i) \in DOMAIN working_tables
    BY <1>1 DEF EntryDone, IInv, ChainsInv, Climbing
  <1> QED
    BY <1>1, <1>2 DEF FollowsChains

\* The chains whose rows are wanted are those on the way to what is included.
LEMMA WantedChains ==
  ASSUME IInv, SortsAside, FollowsChains, ServesChains, RelsDone, ~WritesRel, ~ReadsRel
  PROVE  /\ {c \in DOMAIN working_tables : working_tables[c].resp # "None"} = IncludedChains
         /\ \A c \in IncludedChains : working_tables[c].resp = "Object"
  <1>1. TargetChains = req.include \cup SortChains(req)
    BY DEF TargetChains, BuildInclusionMap
  <1>2. \A c : Wanted(c) = IF c \in req.include THEN "Object" ELSE "None"
    BY DEF Wanted
  <1>3. ASSUME NEW d \in DOMAIN working_tables
        PROVE  \E c \in TargetChains : \E i \in 1..Len(c) :
                 d = Prefix(c, i) /\ working_tables[d].resp = Wanted(c)
    BY DEF ServesChains, ServesChain
  <1>4. ASSUME NEW d \in DOMAIN working_tables, working_tables[d].resp # "None"
        PROVE  d \in IncludedChains
    BY <1>2, <1>3, <1>4 DEF IncludedChains
  <1>5. ASSUME NEW d \in IncludedChains
        PROVE  d \in DOMAIN working_tables /\ working_tables[d].resp = "Object"
    <2>1. PICK c \in req.include : \E i \in 1..Len(c) : d = Prefix(c, i)
      BY DEF IncludedChains
    <2>2. d \in DOMAIN working_tables
      BY <1>1, <2>1, ChainsFollowed
    <2>3. PICK e \in TargetChains : \E i \in 1..Len(e) : d = Prefix(e, i) /\ working_tables[d].resp = Wanted(e)
      BY <1>3, <2>2
    <2>4. e \in req.include
      BY <1>1, <2>3 DEF SortsAside
    <2> QED
      BY <1>2, <2>2, <2>3, <2>4
  <1> QED
    BY <1>4, <1>5

\* What finish_request has to send: the rows of the main select are those of
\* section s, and the others are those of what is left.
Rest == {c \in DOMAIN Remaining : Remaining[c].resp # "None"}
ReadyToSend(s) ==
  /\ AskedLead = {s} /\ s \notin AskedOthers
  /\ Selected.suffix = "data" /\ Answers(buf, params, Selected, s)
  /\ {PendingSection(c) : c \in Rest} = AskedOthers
  /\ \A c \in Rest : /\ Remaining[c].tbl.suffix = "data"
                     /\ Answers(buf, params, Remaining[c].tbl, PendingSection(c))
  /\ \A c, d \in Rest : PendingSection(c) = PendingSection(d) => c = d

LEMMA ReadyToFinish ==
  ASSUME IInv, AnswerInv, PlanInv, RelsDone
  PROVE  \E s : ReadyToSend(s)
  <1>1. /\ pc = "rels" /\ req.op # "delete" /\ main.suffix = "data"
        /\ Answers(buf, params, main, MainSection)
    BY DEF RelsDone, PlanInv, FollowsChains, AnswerInv, AnswersKept
  <1>2. \A label, t, d : Section(label, t, d).label = label
    BY DEF Section
  <1>3. CASE WritesRel
    <2> DEFINE rels == req.path.rels
    <2>1. rels \in Seq(Rel) /\ Len(rels) = 1 /\ Prefix(rels, 1) = rels
      <3>1. rels \in Seq(Rel) /\ Len(rels) = 1
        BY <1>3, PathRelTyped DEF IInv, WritesRel
      <3> HIDE DEF rels
      <3>2. 1 \in 1..Len(rels)
        BY <3>1
      <3>3. Prefix(rels, Len(rels)) = rels
        BY <3>1, <3>2, PrefixProperties
      <3> QED
        BY <3>1, <3>3
    <2>2. TargetChains = {rels} /\ Wanted(rels) = "Id"
      BY <1>3 DEF TargetChains, Wanted
    <2>3. rels \in DOMAIN working_tables
      BY <2>1, <2>2, ChainsFollowed DEF PlanInv
    <2>4. ASSUME NEW d \in DOMAIN working_tables
          PROVE  d = rels /\ working_tables[d].resp = "Id" /\ working_tables[d].tbl.suffix = "data"
      <3> HIDE DEF rels
      <3>1. working_tables[d].tbl.suffix = "data" /\ ServesChain(d, working_tables[d].resp)
        BY DEF PlanInv, ServesChains
      <3>2. PICK c \in TargetChains :
              \E i \in 1..Len(c) : d = Prefix(c, i) /\ working_tables[d].resp = Wanted(c)
        BY <3>1 DEF ServesChain
      <3>3. c = rels /\ \A i \in 1..1 : i = 1
        BY <2>2, <3>2
      <3> QED
        BY <2>1, <2>2, <3>1, <3>2, <3>3
    <2>5. /\ DOMAIN Remaining = {rels} /\ Remaining[rels].tbl = main /\ Remaining[rels].resp = "Id"
          /\ Selected = working_tables[rels].tbl
      BY <1>3, <2>3, <2>4 DEF Remaining, Selected
    <2>6. PendingSection(rels) = TypeSection(req.path.type) /\ MainSection = TypeSection(req.path.type)
      <3>1. ~ReadsRel
        BY <1>3 DEF WritesRel, ReadsRel
      <3> QED
        BY <1>3, <3>1 DEF PendingSection, MainSection
    <2>7. Answers(buf, params, Selected, LinkageSection(rels))
      <3>1. Answers(buf, params, working_tables[rels].tbl, RowsSection(rels, "Id"))
        BY <2>3, <2>4 DEF AnswerInv, AnswersKept
      <3> QED
        BY <2>5, <3>1, SectionsOfRows
    <2>8. AskedLead = {LinkageSection(rels)} /\ AskedOthers = {TypeSection(req.path.type)}
      BY <1>3, Asked
    <2>9. LinkageSection(rels) # TypeSection(req.path.type)
      <3>1. LinkageSection(rels).label = ChainLabel(rels)
        BY <1>2 DEF LinkageSection
      <3>2. TypeSection(req.path.type).label = <<req.path.type>>
        BY <1>2 DEF TypeSection
      <3>3. ChainLabel(rels) # <<req.path.type>>
        BY <1>3 DEF PlanInv, LabelsApart
      <3> QED
        BY <3>1, <3>2, <3>3
    <2>10. Rest = {rels}
      BY <2>5 DEF Rest
    <2> DEFINE s == LinkageSection(rels)
               o == TypeSection(req.path.type)
    <2> HIDE DEF rels, s, o
    <2>11. /\ AskedLead = {s} /\ AskedOthers = {o} /\ s # o
           /\ Selected.suffix = "data" /\ Answers(buf, params, Selected, s)
           /\ PendingSection(rels) = o /\ Answers(buf, params, main, o)
      BY <1>1, <2>3, <2>4, <2>5, <2>6, <2>7, <2>8, <2>9 DEF s, o
    <2>12. ReadyToSend(s)
      BY <1>1, <2>5, <2>10, <2>11 DEF ReadyToSend
    <2> QED
      BY <2>12
  <1>4. CASE ReadsRel
    <2>1. ~WritesRel
      BY <1>4 DEF WritesRel, ReadsRel
    <2>2. Remaining = working_tables /\ Selected = main
      BY <2>1 DEF Remaining, Selected
    <2>3. \A c : Wanted(c) = "None"
      BY <1>4, <2>1 DEF Wanted
    <2>4. Rest = {}
      BY <2>2, <2>3 DEF Rest, PlanInv, ServesChains, ServesChain
    <2>5. MainSection = LinkageSection(req.path.rels)
      BY <1>4 DEF MainSection
    <2>6. ReadyToSend(MainSection)
      BY <1>1, <1>4, <2>2, <2>4, <2>5, Asked DEF ReadyToSend
    <2> QED
      BY <2>6
  <1>5. CASE ~WritesRel /\ ~ReadsRel
    <2>1. Remaining = working_tables /\ Selected = main
      BY <1>5 DEF Remaining, Selected
    <2>2. Rest = IncludedChains /\ \A c \in IncludedChains : working_tables[c].resp = "Object"
      BY <1>5, <2>1, WantedChains DEF Rest, PlanInv
    <2>3. \A c : PendingSection(c) = ChainSection(c)
      BY <1>5 DEF PendingSection
    <2>4. \A c : ChainSection(c).label = ChainLabel(c)
      BY <1>2 DEF ChainSection
    <2>5. MainSection = TypeSection(MainType(req.path)) /\ MainSection.label = <<MainType(req.path)>>
      BY <1>2, <1>5 DEF MainSection, TypeSection
    <2>6. ASSUME NEW c \in Rest
          PROVE  Remaining[c].tbl.suffix = "data" /\ Answers(buf, params, Remaining[c].tbl, PendingSection(c))
      <3>1. c \in DOMAIN working_tables /\ working_tables[c].resp = "Object"
        BY <2>1, <2>2 DEF Rest
      <3>2. Answers(buf, params, working_tables[c].tbl, RowsSection(c, "Object"))
        BY <3>1 DEF AnswerInv, AnswersKept
      <3>3. working_tables[c].tbl.suffix = "data"
        BY <3>1 DEF PlanInv, ServesChains
      <3> QED
        BY <2>1, <2>3, <3>2, <3>3, SectionsOfRows
    <2>7. AskedLead = {MainSection} /\ AskedOthers = {ChainSection(c) : c \in IncludedChains}
      BY <1>1, <1>5, <2>5, Asked
    <2>8. MainSection \notin AskedOthers
      BY <2>4, <2>5, <2>7 DEF PlanInv, LabelsApart
    <2>9. {PendingSection(c) : c \in Rest} = AskedOthers
      BY <2>2, <2>3, <2>7
    <2>10. \A c, d \in Rest : PendingSection(c) = PendingSection(d) => c = d
      BY <2>2, <2>3, <2>4 DEF PlanInv, LabelsApart
    <2>11. ReadyToSend(MainSection)
      BY <1>1, <2>1, <2>6, <2>7, <2>8, <2>9, <2>10 DEF ReadyToSend
    <2> QED
      BY <2>11
  <1> QED
    BY <1>3, <1>4, <1>5

----------------------------------------------------------------------------
(* The plan is kept while finish_request goes on *)

LEMMA OneElement ==
  ASSUME NEW s
  PROVE  ToSet(<<s>>) = {s} /\ <<s>> # <<>>
  <1> DEFINE one == <<s>>
  <1>1. DOMAIN one = {1} /\ one[1] = s
    OBVIOUS
  <1>2. Len(one) = 1 /\ Len(<<>>) = 0
    OBVIOUS
  <1> HIDE DEF one
  <1>3. ToSet(one) = {s} /\ one # <<>>
    BY <1>1, <1>2 DEF ToSet
  <1> QED
    BY <1>3 DEF one

LEMMA TripleJoined ==
  ASSUME NEW a, NEW b, NEW c
  PROVE  <<a, b, c>> = <<a, b>> \o <<c>>
  <1> DEFINE S == {a, b, c}
  <1>1. /\ <<a, b>> \in Seq(S) /\ <<c>> \in Seq(S) /\ <<a, b, c>> \in Seq(S)
        /\ Len(<<a, b, c>>) = Len(<<a, b>>) + Len(<<c>>)
        /\ \A i \in 1..Len(<<a, b>>) : <<a, b, c>>[i] = <<a, b>>[i]
        /\ \A i \in 1..Len(<<c>>) : <<a, b, c>>[Len(<<a, b>>) + i] = <<c>>[i]
    OBVIOUS
  <1> HIDE DEF S
  <1> QED
    BY <1>1, ConcatIs

\* The main select sends the section asked for first, and what is asked for
\* besides it is what is left to send.
SendsLead == \E s : AskedLead = {s} /\ Sent = <<>> /\ Sent' = <<s>>

LEMMA MainSent ==
  ASSUME IInv, ParamsInv, IInv', PlanInv, RelsDone, TakeWorkingTables, req' = req,
         NEW s, ReadyToSend(s), NEW rest, NEW tok, IsSeq(rest), Grows(rest \o <<tok>>, <<>>),
         Positions(rest, {"select"}) = {}, tok.t = "select", ReadsRows(buf', params', tok.tbl, s)
  PROVE  PlanInv' /\ SendsLead
  <1>1. /\ pc = "rels" /\ pc' = "finish" /\ taken' = Remaining /\ DOMAIN working_tables' = {}
    BY EmptyMap DEF RelsDone, TakeWorkingTables
  <1>2. SelectsRead /\ SelectsLast
    BY DEF PlanInv, SelectsLast
  <1>3. Sent' = Sent \o <<s>> /\ SelectsRead'
    BY <1>2, SentMore
  <1>4. Sent = <<>> /\ Sent' = <<s>>
    <2>1. Sent = <<>>
      BY <1>1, <1>2, NoneSent DEF NothingSent
    <2>2. <<>> \o <<s>> = <<s>>
      BY NoneJoined, OneTokenAt
    <2> QED
      BY <1>3, <2>1, <2>2
  <1>5. SortsAside' /\ LabelsApart' /\ AskedLead' = AskedLead /\ AskedOthers' = AskedOthers
    BY AskedStays DEF PlanInv
  <1>6. \A c : PendingSection(c)' = PendingSection(c)
    BY ChainsStay
  <1>7. Pending' = Rest
    BY <1>1 DEF Pending, Rest
  <1>8. ToSet(Sent') = {s} /\ Sent' # <<>>
    BY <1>4, OneElement
  <1>9. \A tbl, e : Answers(buf, params, tbl, e) => Answers(buf', params', tbl, e)
    <2> DEFINE toks == rest \o <<tok>>
    <2>1. Grows(toks, <<>>)
      OBVIOUS
    <2> HIDE DEF toks
    <2> QED
      BY <2>1, AnswersGrow
  <1>10. SendsTheRest'
    <2>1. {PendingSection(c)' : c \in Rest} \cup ToSet(Sent') = AskedLead' \cup AskedOthers'
      BY <1>5, <1>6, <1>8 DEF ReadyToSend
    <2>2. ASSUME NEW c \in Rest
          PROVE  /\ PendingSection(c)' \in AskedOthers' \ ToSet(Sent')
                 /\ taken'[c].tbl.suffix = "data"
                 /\ Answers(buf', params', taken'[c].tbl, PendingSection(c)')
      <3>1. PendingSection(c) \in AskedOthers \ {s}
        BY DEF ReadyToSend
      <3>2. taken'[c].tbl.suffix = "data" /\ Answers(buf, params, taken'[c].tbl, PendingSection(c))
        BY <1>1 DEF ReadyToSend
      <3> QED
        BY <1>5, <1>6, <1>8, <1>9, <3>1, <3>2
    <2>3. \A c, d \in Rest : PendingSection(c)' = PendingSection(d)' => c = d
      BY <1>6 DEF ReadyToSend
    <2> QED
      BY <1>7, <1>8, <2>1, <2>2, <2>3 DEF SendsTheRest
  <1>11. SelectsLast' /\ FollowsChains' /\ ServesChains'
    BY <1>1, <1>3 DEF SelectsLast, FollowsChains, ServesChains
  <1> QED
    BY <1>4, <1>5, <1>10, <1>11 DEF PlanInv, ReadyToSend, SendsLead

LEMMA FinishMainPlan ==
  ASSUME IInv, ParamsInv, AnswerInv, IInv', PlanInv, FinishMain
  PROVE  PlanInv' /\ SendsLead
  <1> DEFINE tok == Select(Selected, <<>>)
  <1>1. RelsDone /\ TakeWorkingTables /\ buf' = buf \o <<tok>> /\ UNCHANGED <<req, params>>
    BY DEF FinishMain
  <1>2. tok.t = "select" /\ tok.tbl = Selected
    BY DEF Select
  <1>3. PICK s : ReadyToSend(s)
    BY <1>1, ReadyToFinish
  <1> HIDE DEF tok
  <1>4. IsSeq(<<>>) /\ Positions(<<>>, {"select"}) = {}
    BY NoneIsSeq DEF Positions
  <1>5. Grows(<<tok>>, <<>>)
    <2>1. params \o <<>> = params
      BY NoneJoined DEF ParamsInv
    <2> QED
      BY <1>1, <2>1, NoneIsSeq, OneTokenAt DEF Grows
  <1>6. Grows(<<>> \o <<tok>>, <<>>)
    BY <1>5, NoneJoined, OneTokenAt
  <1>7. ReadsRows(buf', params', tok.tbl, s)
    <2>1. Answers(buf', params', Selected, s)
      BY <1>3, <1>5, AnswersGrow DEF ReadyToSend
    <2>2. Selected.suffix # "final"
      BY <1>3 DEF ReadyToSend
    <2> QED
      BY <1>2, <2>1, <2>2 DEF ReadsRows
  <1> DEFINE rest == <<>>
  <1> HIDE DEF rest
  <1>8. IsSeq(rest) /\ Grows(rest \o <<tok>>, <<>>) /\ Positions(rest, {"select"}) = {}
    BY <1>4, <1>6 DEF rest
  <1> QED
    BY <1>1, <1>2, <1>3, <1>7, <1>8, MainSent

\* The final CTE selects from the rows the main select is to send.
LEMMA FinishMainSortedPlan ==
  ASSUME IInv, ParamsInv, AnswerInv, IInv', PlanInv, FinishMainSorted
  PROVE  PlanInv' /\ SendsLead
  <1> DEFINE final == FinalTable(Selected.type)
             stmt == FinalStmt(Selected, Remaining)
             cte == Cte(final, stmt)
             tok == Select(final, OrderBy)
             rest == <<Comma, cte>>
             toks == <<Comma, cte, tok>>
  <1>1. RelsDone /\ TakeWorkingTables /\ buf' = buf \o toks /\ UNCHANGED <<req, params>>
    BY DEF FinishMainSorted
  <1>2. tok.t = "select" /\ tok.tbl = final /\ final.suffix = "final" /\ stmt.from = Selected
    BY DEF Select, FinalTable, FinalStmt, Stmt
  <1>3. Comma.t \notin {"cte", "select"} /\ cte.t = "cte" /\ cte.stmt = stmt /\ cte.tbl = final
    BY TokensOf
  <1>4. PICK s : ReadyToSend(s)
    BY <1>1, ReadyToFinish
  <1> HIDE DEF tok, cte, stmt, final
  <1>5. IsSeq(rest) /\ Positions(rest, {"select"}) = {}
    BY <1>3, TokensAt
  <1>6. toks = rest \o <<tok>>
    BY TripleJoined
  <1>7. IsSeq(toks) /\ Positions(toks, {"cte"}) = {2} /\ toks[2] = cte
    BY <1>2, <1>3, ThreeTokensAt DEF FinishTokens
  <1> HIDE DEF toks, rest
  <1>8. Grows(toks, <<>>)
    <2>1. params \o <<>> = params
      BY NoneJoined DEF ParamsInv
    <2> QED
      BY <1>1, <1>7, <2>1, NoneIsSeq DEF Grows
  <1>9. ReadsRows(buf', params', tok.tbl, s)
    <2>1. Answers(buf', params', Selected, s)
      BY <1>4, <1>8, AnswersGrow DEF ReadyToSend
    <2>2. \E i \in Positions(buf', {"cte"}) : buf'[i] = cte
      <3>1. IsSeq(buf) /\ IsSeq(toks)
        BY <1>7 DEF IInv, BufferInv
      <3>2. \A j \in Positions(toks, {"cte"}) :
              Len(buf) + j \in Positions(buf \o toks, {"cte"}) /\ (buf \o toks)[Len(buf) + j] = toks[j]
        BY <3>1, PositionsAfter
      <3> QED
        BY <1>1, <1>7, <3>2
    <2>3. \E i \in Positions(buf', {"cte"}) : buf'[i].tbl = final /\ Answers(buf', params', buf'[i].stmt.from, s)
      BY <1>2, <1>3, <2>1, <2>2
    <2> QED
      BY <1>2, <2>3 DEF ReadsRows
  <1> QED
    BY <1>1, <1>2, <1>4, <1>5, <1>6, <1>8, <1>9, MainSent

SendsOther == \E s \in AskedOthers \ ToSet(Sent) : IsSeq(Sent) /\ Sent # <<>> /\ Sent' = Sent \o <<s>>

\* One more working table is gone through: what it sends was asked for.
LEMMA FinishTablePlan ==
  ASSUME IInv, ParamsInv, IInv', PlanInv, FinishTable
  PROVE  PlanInv' /\ (Sent' = Sent \/ SendsOther)
  <1>1. PICK c \in DOMAIN taken :
          /\ buf' = IF taken[c].resp = "None" THEN buf ELSE buf \o <<Union, Select(taken[c].tbl, <<>>)>>
          /\ taken' = Without(taken, c)
    BY DEF FinishTable
  <1>2. pc = "finish" /\ UNCHANGED <<req, pc, params, working_tables>>
    BY DEF FinishTable
  <1>3. DOMAIN taken' = DOMAIN taken \ {c} /\ \A d \in DOMAIN taken' : taken'[d] = taken[d]
    BY <1>1 DEF Without
  <1>4. SelectsRead /\ SendsTheRest
    BY DEF PlanInv, SelectsLast
  <1>5. SortsAside' /\ LabelsApart' /\ AskedLead' = AskedLead /\ AskedOthers' = AskedOthers
    BY <1>2, AskedStays DEF PlanInv
  <1>6. \A d : PendingSection(d)' = PendingSection(d)
    BY <1>2, ChainsStay
  <1>7. params' = params \o <<>>
    BY <1>2, NoneJoined DEF ParamsInv
  <1>8. CASE taken[c].resp = "None"
    <2>1. Grows(<<>>, <<>>)
      BY <1>1, <1>7, <1>8, NoneIsSeq, NoneJoined DEF Grows, IInv, BufferInv
    <2>2. Positions(<<>>, {"select"}) = {}
      BY NoneIsSeq DEF Positions
    <2> DEFINE toks == <<>>
    <2> HIDE DEF toks
    <2>3. Grows(toks, <<>>) /\ Positions(toks, {"select"}) = {}
      BY <2>1, <2>2 DEF toks
    <2>4. Sent' = Sent /\ SelectsRead'
      BY <1>4, <2>3, SentStays
    <2>5. Pending' = Pending /\ \A d \in Pending : taken'[d] = taken[d]
      BY <1>3, <1>8 DEF Pending
    <2>6. \A tbl, e : Answers(buf, params, tbl, e) => Answers(buf', params', tbl, e)
      BY <2>3, AnswersGrow
    <2>7. SendsTheRest'
      BY <1>2, <1>4, <1>5, <1>6, <2>4, <2>5, <2>6 DEF SendsTheRest
    <2>8. SelectsLast' /\ FollowsChains' /\ ServesChains'
      <3>1. \A d, resp : Wanted(d)' = Wanted(d)
        BY <1>2, ChainsStay
      <3>2. TargetChains' = TargetChains
        BY <1>2, AskedStays
      <3> QED
        BY <1>2, <2>4, <3>1, <3>2 DEF PlanInv, SelectsLast, FollowsChains, ServesChains, ServesChain
    <2> QED
      BY <1>5, <2>4, <2>7, <2>8 DEF PlanInv
  <1>9. CASE taken[c].resp # "None"
    <2> DEFINE tok == Select(taken[c].tbl, <<>>)
               s == PendingSection(c)
               rest == <<Union>>
    <2>1. c \in Pending
      BY <1>9 DEF Pending
    <2>2. s \in AskedOthers \ ToSet(Sent) /\ Sent # <<>>
      BY <1>2, <1>4, <2>1 DEF SendsTheRest
    <2>3. taken[c].tbl.suffix = "data" /\ Answers(buf, params, taken[c].tbl, s)
      BY <1>2, <1>4, <2>1 DEF SendsTheRest
    <2>4. tok.t = "select" /\ tok.tbl = taken[c].tbl
      BY DEF Select
    <2>5. buf' = buf \o (rest \o <<tok>>)
      BY <1>1, <1>9, TuplesJoined
    <2> HIDE DEF tok, s
    <2>6. IsSeq(rest) /\ Positions(rest, {"select"}) = {}
      <3>1. Union.t \notin {"select"}
        BY DEF Union
      <3> QED
        BY <3>1, OneTokenAt
    <2> HIDE DEF rest
    <2>7. IsSeq(rest \o <<tok>>)
      BY <2>6, OneTokenAt, ConcatLen
    <2>8. Grows(rest \o <<tok>>, <<>>)
      BY <1>7, <2>5, <2>7, NoneIsSeq DEF Grows
    <2>9. \A tbl, e : Answers(buf, params, tbl, e) => Answers(buf', params', tbl, e)
      <3> DEFINE toks == rest \o <<tok>>
      <3>1. Grows(toks, <<>>)
        BY <2>8
      <3> HIDE DEF toks
      <3> QED
        BY <3>1, AnswersGrow
    <2>10. ReadsRows(buf', params', tok.tbl, s)
      BY <2>3, <2>4, <2>9 DEF ReadsRows
    <2>11. Sent' = Sent \o <<s>> /\ IsSeq(Sent) /\ SelectsRead'
      BY <1>4, <2>4, <2>6, <2>8, <2>10, SentMore
    <2>12. ToSet(Sent') = ToSet(Sent) \cup {s} /\ Sent' # <<>>
      <3>1. ToSet(Sent \o <<s>>) = ToSet(Sent) \cup ToSet(<<s>>)
        <4> DEFINE S == ToSet(Sent) \cup {s}
        <4>1. Sent \in Seq(ToSet(Sent)) /\ ToSet(Sent) \subseteq S
          BY <2>11 DEF IsSeq
        <4>2. <<s>> \in Seq(S)
          OBVIOUS
        <4>3. ToSet(<<s>>) = {s}
          BY OneElement
        <4> HIDE DEF S
        <4>4. Sent \in Seq(S)
          BY <4>1, SeqMonotonic
        <4> QED
          BY <4>2, <4>4, ElementsOfConcat
      <3>2. ToSet(Sent') = ToSet(Sent) \cup {s}
        BY <2>11, <3>1, OneElement
      <3>3. ToSet(<<>>) = {}
        BY NoneIsSeq DEF ToSet
      <3> QED
        BY <3>2, <3>3
    <2>13. Pending' = Pending \ {c} /\ \A d \in Pending' : taken'[d] = taken[d]
      BY <1>3 DEF Pending
    <2>14. SendsTheRest'
      <3>1. {PendingSection(d)' : d \in Pending'} \cup ToSet(Sent') = AskedLead' \cup AskedOthers'
        <4>1. {PendingSection(d) : d \in Pending} = {PendingSection(d) : d \in Pending'} \cup {s}
          BY <2>1, <2>13 DEF s
        <4>2. {PendingSection(d) : d \in Pending} \cup ToSet(Sent) = AskedLead \cup AskedOthers
          BY <1>2, <1>4 DEF SendsTheRest
        <4> QED
          BY <1>5, <1>6, <2>12, <4>1, <4>2
      <3>2. ASSUME NEW d \in Pending'
            PROVE  /\ PendingSection(d)' \in AskedOthers' \ ToSet(Sent')
                   /\ taken'[d].tbl.suffix = "data"
                   /\ Answers(buf', params', taken'[d].tbl, PendingSection(d)')
        <4>1. d \in Pending /\ d # c /\ taken'[d] = taken[d]
          BY <2>13
        <4>2. /\ PendingSection(d) \in AskedOthers \ ToSet(Sent)
              /\ taken[d].tbl.suffix = "data"
              /\ Answers(buf, params, taken[d].tbl, PendingSection(d))
          BY <1>2, <1>4, <4>1 DEF SendsTheRest
        <4>3. PendingSection(d) # s
          BY <1>2, <1>4, <2>1, <4>1 DEF SendsTheRest, s
        <4> QED
          BY <1>5, <1>6, <2>9, <2>12, <4>1, <4>2, <4>3
      <3>3. \A d, e \in Pending' : PendingSection(d)' = PendingSection(e)' => d = e
        BY <1>2, <1>4, <1>6, <2>13 DEF SendsTheRest
      <3> QED
        BY <2>12, <3>1, <3>2, <3>3 DEF SendsTheRest
    <2>15. SelectsLast' /\ FollowsChains' /\ ServesChains'
      <3>1. \A d, resp : Wanted(d)' = Wanted(d)
        BY <1>2, ChainsStay
      <3>2. TargetChains' = TargetChains
        BY <1>2, AskedStays
      <3> QED
        BY <1>2, <2>11, <3>1, <3>2 DEF PlanInv, SelectsLast, FollowsChains, ServesChains, ServesChain
    <2> QED
      BY <1>5, <2>2, <2>11, <2>14, <2>15 DEF PlanInv, SendsOther
  <1> QED
    BY <1>8, <1>9

\* The statement is handed over: nothing asked for is missing.
LEMMA BuildPlan ==
  ASSUME IInv, ParamsInv, IInv', PlanInv, Build
  PROVE  PlanInv' /\ Sent' = Sent /\ ToSet(Sent) = AskedLead \cup AskedOthers
  <1>1. /\ pc = "finish" /\ DOMAIN taken = {} /\ pc' = "built" /\ buf' = buf \o <<Semicolon>>
        /\ UNCHANGED <<req, params, working_tables>>
    BY EmptyMap DEF Build
  <1>2. SelectsRead
    BY DEF PlanInv, SelectsLast
  <1>3. IsSeq(<<Semicolon>>) /\ Positions(<<Semicolon>>, {"select"}) = {}
    <2>1. Semicolon.t \notin {"select"}
      BY DEF Semicolon
    <2> QED
      BY <2>1, OneTokenAt
  <1> DEFINE toks == <<Semicolon>>
  <1> HIDE DEF toks
  <1>4. Grows(toks, <<>>) /\ Positions(toks, {"select"}) = {}
    <2>1. params \o <<>> = params
      BY NoneJoined DEF ParamsInv
    <2> QED
      BY <1>1, <1>3, <2>1, NoneIsSeq DEF Grows, toks
  <1>5. Sent' = Sent /\ SelectsRead'
    BY <1>2, <1>4, SentStays
  <1>6. Pending = {}
    BY <1>1 DEF Pending
  <1>7. ToSet(Sent) = AskedLead \cup AskedOthers
    BY <1>1, <1>6 DEF PlanInv, SendsTheRest
  <1>8. SortsAside' /\ LabelsApart' /\ TargetChains' = TargetChains
    BY <1>1, AskedStays DEF PlanInv
  <1>9. \A d, resp : Wanted(d)' = Wanted(d)
    BY <1>1, ChainsStay
  <1>10. SelectsLast' /\ FollowsChains' /\ ServesChains' /\ SendsTheRest'
    BY <1>1, <1>5, <1>8, <1>9 DEF PlanInv, SelectsLast, FollowsChains, ServesChains, ServesChain, SendsTheRest
  <1> QED
    BY <1>5, <1>7, <1>8, <1>10 DEF PlanInv

\* A deletion answers with nothing, as was asked.
LEMMA WriteOnlyPlan ==
  ASSUME IInv, ParamsInv, IInv', PlanInv, pc = "start", req.op = "delete",
         NEW stmt, WriteOnly(stmt), stmt.from.type \in Type
  PROVE  PlanInv' /\ Sent' = Sent
  <1> DEFINE tok == Write(stmt)
             vs == PkeyParams(stmt.from.type)
             toks == <<tok>>
  <1>1. /\ buf' = buf \o toks /\ params' = params \o vs /\ pc' = "finish"
        /\ UNCHANGED <<req, working_tables, taken>>
    BY DEF WriteOnly
  <1>2. IsSeq(vs)
    <2>1. 0 \in Nat
      OBVIOUS
    <2> QED
      BY <2>1, KeyWhere
  <1>3. tok.t \notin {"select"}
    BY DEF Write
  <1> HIDE DEF tok, vs
  <1>4. IsSeq(toks) /\ Positions(toks, {"select"}) = {}
    BY <1>3, OneTokenAt
  <1> HIDE DEF toks
  <1>5. Grows(toks, vs)
    BY <1>1, <1>2, <1>4 DEF Grows
  <1>6. SelectsRead /\ DOMAIN taken = {} /\ DOMAIN working_tables = {}
    BY DEF PlanInv, SelectsLast
  <1>7. Sent' = Sent /\ SelectsRead'
    BY <1>4, <1>5, <1>6, SentStays
  <1>8. Sent = <<>>
    BY NoneSent DEF PlanInv, NothingSent
  <1>9. ToSet(<<>>) = {}
    BY NoneIsSeq DEF ToSet
  <1>10. /\ SortsAside' /\ LabelsApart'
         /\ AskedLead' = AskedLead /\ AskedOthers' = AskedOthers
    BY <1>1, AskedStays DEF PlanInv
  <1>11. Pending' = {}
    BY <1>1, <1>6 DEF Pending
  <1>12. SendsTheRest'
    <2>1. AskedLead \cup AskedOthers = {}
      BY Asked
    <2>2. {PendingSection(c)' : c \in Pending'} = {}
      BY <1>11
    <2>3. ToSet(Sent') = {}
      BY <1>7, <1>8, <1>9
    <2> QED
      BY <1>10, <1>11, <2>1, <2>2, <2>3 DEF SendsTheRest
  <1>13. SelectsLast' /\ FollowsChains' /\ ServesChains'
    BY <1>1, <1>6, <1>7 DEF SelectsLast, FollowsChains, ServesChains
  <1> QED
    BY <1>7, <1>10, <1>12, <1>13 DEF PlanInv

LEMMA GenDeletePlan ==
  ASSUME IInv, ParamsInv, IInv', PlanInv, GenDeleteNormal \/ GenDeleteRel
  PROVE  PlanInv' /\ Sent' = Sent
  <1>1. CASE GenDeleteNormal
    <2> DEFINE stmt == Stmt("delete", PathTable, <<>>, <<>>, <<>>, ComparePkey(PathTable, 0))
    <2>1. pc = "start" /\ req.op = "delete" /\ WriteOnly(stmt)
      BY <1>1 DEF GenDeleteNormal
    <2>2. stmt.from = PathTable
      BY DEF Stmt
    <2>3. PathTable.type \in Type
      BY RequestTyped DEF IInv
    <2> HIDE DEF stmt
    <2> QED
      BY <2>1, <2>2, <2>3, WriteOnlyPlan
  <1>2. CASE GenDeleteRel
    <2>1. PICK r \in AliasesTo(req.path.type, MainType(req.path)) :
            WriteOnly(Stmt("update", BaseTable(ManyResource(r)), <<>>, <<>>,
                           <<[col |-> Relation[r].key, param |-> 0]>>,
                           ComparePkey(BaseTable(ManyResource(r)), 0)))
      BY <1>2 DEF GenDeleteRel
    <2> DEFINE many == BaseTable(ManyResource(r))
               stmt == Stmt("update", many, <<>>, <<>>, <<[col |-> Relation[r].key, param |-> 0]>>,
                            ComparePkey(many, 0))
    <2>2. pc = "start" /\ req.op = "delete" /\ WriteOnly(stmt)
      BY <1>2, <2>1 DEF GenDeleteRel
    <2>3. stmt.from = many
      BY DEF Stmt
    <2>4. many.type \in Type
      <3>1. r \in Rel
        BY DEF AliasesTo
      <3> QED
        BY <3>1, RelationAssumption DEF ManyResource, RelatedType, BaseTable
    <2> HIDE DEF stmt, many
    <2> QED
      BY <2>2, <2>3, <2>4, WriteOnlyPlan
  <1> QED
    BY <1>1, <1>2

LEMMA StayPlan ==
  ASSUME PlanInv, Refuse \/ RefuseRel \/ RefuseSort \/ Terminated \/ UNCHANGED vars
  PROVE  PlanInv' /\ Sent' = Sent
  <1>1. /\ UNCHANGED <<req, params, buf, working_tables, main, todo, at, taken>>
        /\ pc' = pc \/ (pc \in {"start", "rels"} /\ pc' = "failed")
    BY DEF Refuse, RefuseRel, RefuseSort, RelsDone, Terminated, vars, Fail
  <1>9. \A tbl : SentSection(Source(tbl))' = SentSection(Source(tbl))
    <2>1. \A tbl : StmtOf(tbl)' = StmtOf(tbl) /\ LabelOf(tbl)' = LabelOf(tbl)
      BY <1>1 DEF StmtOf, StmtIn, LabelOf, CtePositions
    <2> QED
      BY <2>1 DEF SentSection, Source
  <1>2. Sent' = Sent
    BY <1>1, <1>9 DEF Sent
  <1>3. SelectsLast'
    <2>1. CASE pc' = pc
      <3>1. SelectPositions' = SelectPositions
        BY <1>1 DEF SelectPositions
      <3>2. SelectsRead'
        BY <1>1, <1>9, <3>1 DEF PlanInv, SelectsLast, SelectsRead
      <3> QED
        BY <1>1, <2>1, <3>1, <3>2 DEF PlanInv, SelectsLast
    <2>2. CASE pc \in {"start", "rels"} /\ pc' = "failed"
      <3>1. SelectPositions' = SelectPositions /\ SelectPositions = {}
        BY <1>1, <2>2 DEF PlanInv, SelectsLast, SelectPositions
      <3>2. SelectsRead'
        BY <3>1 DEF SelectsRead
      <3> QED
        BY <2>2, <3>1, <3>2 DEF SelectsLast
    <2> QED
      BY <1>1, <2>1, <2>2
  <1>4. /\ SortsAside' /\ LabelsApart' /\ TargetChains' = TargetChains
        /\ AskedLead' = AskedLead /\ AskedOthers' = AskedOthers
    BY <1>1, AskedStays DEF PlanInv
  <1>5. \A c, resp : Wanted(c)' = Wanted(c) /\ PendingSection(c)' = PendingSection(c)
    BY <1>1, ChainsStay
  <1>6. FollowsChains'
    BY <1>1, <1>4, <1>5 DEF PlanInv, FollowsChains
  <1>7. ServesChains'
    BY <1>1, <1>4, <1>5 DEF PlanInv, ServesChains, ServesChain
  <1>8. SendsTheRest'
    <2>1. Pending' = Pending
      BY <1>1 DEF Pending
    <2> QED
      BY <1>1, <1>2, <1>4, <1>5, <2>1 DEF PlanInv, SendsTheRest
  <1> QED
    BY <1>2, <1>3, <1>4, <1>6, <1>7, <1>8 DEF PlanInv

----------------------------------------------------------------------------
(* Every step is one of the plan *)

LEMMA InitPlan == Init /\ SortsAside /\ LabelsApart => PlanInv
  <1> SUFFICES ASSUME Init, SortsAside, LabelsApart PROVE PlanInv
    OBVIOUS
  <1>1. pc = "start" /\ buf = <<>> /\ DOMAIN taken = {} /\ DOMAIN working_tables = {}
    BY EmptyMap DEF Init
  <1>2. SelectPositions = {}
    BY <1>1, NoneIsSeq DEF SelectPositions, Positions
  <1>3. SelectsLast
    BY <1>1, <1>2 DEF SelectsLast, SelectsRead
  <1>4. FollowsChains /\ SendsTheRest
    BY <1>1 DEF FollowsChains, SendsTheRest
  <1>5. ServesChains
    BY <1>1 DEF ServesChains
  <1> QED
    BY <1>3, <1>4, <1>5 DEF PlanInv

LEMMA NextPlan ==
  ASSUME IInv, ParamsInv, AnswerInv, IInv', PlanInv, [Next]_vars
  PROVE  PlanInv'
  <1>1. CASE Refuse \/ RefuseRel \/ RefuseSort \/ Terminated \/ UNCHANGED vars
    BY <1>1, StayPlan
  <1>2. CASE GenSelect \/ GenSelectRelationships \/ GenInsert \/ GenUpdateMain \/ GenUpdateRel
    BY <1>2, GenPlan
  <1>3. CASE GenDeleteNormal \/ GenDeleteRel
    BY <1>3, GenDeletePlan
  <1>4. CASE NextEntry
    BY <1>4, NextEntryPlan
  <1>5. CASE SelectRel
    BY <1>5, SelectRelPlan
  <1>6. CASE FinishMain
    BY <1>6, FinishMainPlan
  <1>7. CASE FinishMainSorted
    BY <1>7, FinishMainSortedPlan
  <1>8. CASE FinishTable
    BY <1>8, FinishTablePlan
  <1>9. CASE Build
    BY <1>9, BuildPlan
  <1> QED
    BY <1>1, <1>2, <1>3, <1>4, <1>5, <1>6, <1>7, <1>8, <1>9 DEF Next

\* A step that sends nothing and decides nothing is none of the plan's.
PlanStays == req' = req /\ Sent' = Sent /\ Verdict' = Verdict

LEMMA StaysAside ==
  ASSUME PlanStays
  PROVE  UNCHANGED Plan!planVars
  BY AskedStays DEF PlanStays, Plan!planVars

\* Up to finish_request nothing is sent, by the step either.
LEMMA QuietPlan ==
  ASSUME NothingSent, NothingSent', pc \in {"start", "rels"}, pc' \in {"rels", "failed"}, req' = req
  PROVE  [Plan!PlanNext]_(Plan!planVars)
  <1>1. Sent = <<>> /\ Sent' = <<>>
    BY DEF NothingSent
  <1>2. AskedLead' = AskedLead /\ AskedOthers' = AskedOthers
    BY AskedStays
  <1>3. Verdict = "pending"
    BY DEF Verdict
  <1>4. CASE pc' = "rels"
    <2>1. Verdict' = "pending"
      BY <1>4 DEF Verdict
    <2> QED
      BY <1>1, <1>3, <2>1, StaysAside DEF PlanStays
  <1>5. CASE pc' = "failed"
    <2>1. Verdict' = "refused"
      BY <1>5 DEF Verdict
    <2> QED
      BY <1>1, <1>2, <1>3, <2>1 DEF Plan!PlanNext, Plan!Refusal
  <1> QED
    BY <1>4, <1>5

LEMMA SendingPlan ==
  ASSUME SendsLead \/ SendsOther, req' = req, pc \in {"rels", "finish"}, pc' = "finish"
  PROVE  Plan!PlanNext
  <1>1. AskedLead' = AskedLead /\ AskedOthers' = AskedOthers
    BY AskedStays
  <1>2. Verdict = "pending" /\ Verdict' = "pending"
    BY DEF Verdict
  <1>3. PICK s \in (IF Sent = <<>> THEN AskedLead ELSE AskedOthers) \ ToSet(Sent) : Sent' = Append(Sent, s)
    <2>1. CASE SendsLead
      <3>1. PICK s : AskedLead = {s} /\ Sent = <<>> /\ Sent' = <<s>>
        BY <2>1 DEF SendsLead
      <3>2. ToSet(<<>>) = {}
        BY NoneIsSeq DEF ToSet
      <3>3. Append(<<>>, s) = <<s>>
        OBVIOUS
      <3> QED
        BY <3>1, <3>2, <3>3
    <2>2. CASE SendsOther
      <3>1. PICK s \in AskedOthers \ ToSet(Sent) : IsSeq(Sent) /\ Sent # <<>> /\ Sent' = Sent \o <<s>>
        BY <2>2 DEF SendsOther
      <3> DEFINE S == ToSet(Sent) \cup {s}
      <3>2. Sent \in Seq(S)
        BY <3>1, SeqMonotonic DEF IsSeq
      <3>3. s \in S
        OBVIOUS
      <3> HIDE DEF S
      <3>4. Append(Sent, s) = Sent \o <<s>>
        BY <3>2, <3>3, AppendIsConcat
      <3> QED
        BY <3>1, <3>4
    <2> QED
      BY <2>1, <2>2
  <1>4. Plan!ToSet(Sent) = ToSet(Sent)
    BY DEF ToSet, Plan!ToSet
  <1> QED
    BY <1>1, <1>2, <1>3, <1>4 DEF Plan!PlanNext, Plan!Send

\* Every step of the builder is one of the plan, or none.
LEMMA StepOfPlan ==
  ASSUME IInv, ParamsInv, AnswerInv, IInv', PlanInv, NothingSent, NothingSent', [Next]_vars
  PROVE  [Plan!PlanNext]_(Plan!planVars)
  <1>1. CASE Refuse \/ RefuseRel \/ RefuseSort
    <2>1. pc \in {"start", "rels"} /\ pc' = "failed" /\ req' = req
      BY <1>1 DEF Refuse, RefuseRel, RefuseSort, RelsDone, Fail
    <2> QED
      BY <2>1, QuietPlan
  <1>2. CASE Terminated \/ UNCHANGED vars
    <2>1. Sent' = Sent /\ req' = req /\ pc' = pc
      BY <1>2, StayPlan DEF Terminated, vars
    <2> QED
      BY <2>1, StaysAside DEF PlanStays, Verdict
  <1>3. CASE GenSelect \/ GenSelectRelationships \/ GenInsert \/ GenUpdateMain \/ GenUpdateRel
    <2>1. pc = "start" /\ pc' = "rels" /\ req' = req
      BY <1>3 DEF GenSelect, GenSelectRelationships, GenInsert, GenUpdateMain, GenUpdateRel,
                  SelectRelsFrom, WriteThenSelect
    <2> QED
      BY <2>1, QuietPlan
  <1>4. CASE GenDeleteNormal \/ GenDeleteRel
    <2>1. pc = "start" /\ pc' = "finish" /\ req' = req
      BY <1>4 DEF GenDeleteNormal, GenDeleteRel, WriteOnly
    <2>2. Sent' = Sent
      BY <1>4, GenDeletePlan
    <2> QED
      BY <2>1, <2>2, StaysAside DEF PlanStays, Verdict
  <1>5. CASE NextEntry \/ SelectRel
    <2>1. pc = "rels" /\ pc' = "rels" /\ req' = req
      BY <1>5 DEF NextEntry, SelectRel
    <2> QED
      BY <2>1, QuietPlan
  <1>6. CASE FinishMain \/ FinishMainSorted
    <2>1. pc = "rels" /\ pc' = "finish" /\ req' = req
      BY <1>6 DEF FinishMain, FinishMainSorted, RelsDone, TakeWorkingTables
    <2>2. SendsLead
      BY <1>6, FinishMainPlan, FinishMainSortedPlan
    <2> QED
      BY <2>1, <2>2, SendingPlan
  <1>7. CASE FinishTable
    <2>1. pc = "finish" /\ pc' = "finish" /\ req' = req
      BY <1>7 DEF FinishTable
    <2>2. CASE Sent' = Sent
      BY <2>1, <2>2, StaysAside DEF PlanStays, Verdict
    <2>3. CASE SendsOther
      BY <2>1, <2>3, SendingPlan
    <2> QED
      BY <1>7, <2>2, <2>3, FinishTablePlan
  <1>8. CASE Build
    <2>1. pc = "finish" /\ pc' = "built" /\ req' = req
      BY <1>8 DEF Build
    <2>2. Sent' = Sent /\ ToSet(Sent) = AskedLead \cup AskedOthers
      BY <1>8, BuildPlan
    <2>3. AskedLead' = AskedLead /\ AskedOthers' = AskedOthers
      BY <2>1, AskedStays
    <2>4. Verdict = "pending" /\ Verdict' = "answered"
      BY <2>1 DEF Verdict
    <2>5. Plan!ToSet(Sent) = ToSet(Sent)
      BY DEF ToSet, Plan!ToSet
    <2> QED
      BY <2>2, <2>3, <2>4, <2>5 DEF Plan!PlanNext, Plan!Answer
  <1> QED
    BY <1>1, <1>2, <1>3, <1>4, <1>5, <1>6, <1>7, <1>8 DEF Next

\* The builder implements QueryPlan for every store and every request it can
\* hold, provided that the request sorts aside of what it includes and that its
\* labels are apart: the leading section first, then every chain on the way to
\* what is included, once each, nothing besides and nothing missing
\* (select_rels, finish_request).
THEOREM BuilderImplementsPlan == Spec /\ SortsAside /\ LabelsApart => ImplementsPlan
  <1>1. Init /\ SortsAside /\ LabelsApart => PlanInv
    BY InitPlan
  <1>2. IInv /\ ParamsInv /\ AnswerInv /\ IInv' /\ PlanInv /\ [Next]_vars => PlanInv'
    BY NextPlan
  <1>3. IInv /\ PlanInv => NothingSent
    BY NoneSent DEF PlanInv
  <1>4. IInv /\ ParamsInv /\ AnswerInv /\ IInv' /\ PlanInv /\ NothingSent /\ NothingSent' /\ [Next]_vars
          => [Plan!PlanNext]_(Plan!planVars)
    BY StepOfPlan
  <1>5. Init /\ NothingSent => Plan!PlanInit
    BY DEF Init, NothingSent, Verdict, Plan!PlanInit
  <1>6. Spec => [](IInv /\ ParamsInv /\ AnswerInv)
    BY AnswersAreKept
  <1> QED
    BY <1>1, <1>2, <1>3, <1>4, <1>5, <1>6, PTL DEF Spec, ImplementsPlan, Plan!PlanSpec
=============================================================================
