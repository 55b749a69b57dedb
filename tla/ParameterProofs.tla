--------------------------- MODULE ParameterProofs ---------------------------
(***************************************************************************)
(* For every store, table store and set of requests: the placeholders of a *)
(* statement are $1, $2, ... up to the parameters that are sent beside it, *)
(* and every value is bound where it is meant.                             *)
(***************************************************************************)
EXTENDS BuilderProofs

----------------------------------------------------------------------------
(* Parameters that are pushed *)

\* The values vs are bound to the placeholders after n.
Holds(ps, n, vs) == \A i \in DOMAIN vs : Bound(ps, n + i, vs[i])

\* A statement, and a list of tokens, whose placeholders are the k after n and
\* whose values are bound by ps.
Carries(toks, ps, n, k) ==
  /\ IsSeq(toks)
  /\ Lays(Printed(toks), n, k)
  /\ \A i \in DOMAIN toks : toks[i].t \in {"cte", "write"} => StmtBinds(ps, toks[i].stmt)

LEMMA HoldsPushed ==
  ASSUME NEW ps, NEW vs, IsSeq(ps), IsSeq(vs)
  PROVE  /\ Holds(ps \o vs, Len(ps), vs)
         /\ \A n, v : Bound(ps, n, v) => Bound(ps \o vs, n, v)
  <1> DEFINE qs == ps \o vs
  <1>1. /\ Len(ps) \in Nat /\ DOMAIN ps = 1..Len(ps)
        /\ Len(vs) \in Nat /\ DOMAIN vs = 1..Len(vs)
        /\ DOMAIN qs = 1..(Len(ps) + Len(vs))
        /\ \A i \in 1..Len(ps) : qs[i] = ps[i]
        /\ \A i \in 1..Len(vs) : qs[Len(ps) + i] = vs[i]
    BY ConcatIsSeq
  <1> HIDE DEF qs
  <1>2. ASSUME NEW i \in DOMAIN vs PROVE Bound(qs, Len(ps) + i, vs[i])
    <2>1. i \in 1..Len(vs) /\ Len(ps) + i \in DOMAIN qs
      BY <1>1
    <2> QED
      BY <1>1, <2>1 DEF Bound
  <1>3. ASSUME NEW n, NEW v, Bound(ps, n, v) PROVE Bound(qs, n, v)
    <2>1. n \in 1..Len(ps) /\ ps[n] = v
      BY <1>1, <1>3 DEF Bound
    <2>2. n \in DOMAIN qs
      BY <1>1, <2>1
    <2> QED
      BY <1>1, <2>1, <2>2 DEF Bound
  <1> QED
    BY <1>2, <1>3 DEF Holds, qs

LEMMA HoldsJoined ==
  ASSUME NEW ps, NEW n \in Nat, NEW a, NEW b, IsSeq(a), IsSeq(b), Holds(ps, n, a \o b)
  PROVE  Holds(ps, n, a) /\ Holds(ps, n + Len(a), b)
  <1> DEFINE c == a \o b
  <1>1. /\ Len(a) \in Nat /\ DOMAIN a = 1..Len(a)
        /\ Len(b) \in Nat /\ DOMAIN b = 1..Len(b)
        /\ DOMAIN c = 1..(Len(a) + Len(b))
        /\ \A i \in 1..Len(a) : c[i] = a[i]
        /\ \A i \in 1..Len(b) : c[Len(a) + i] = b[i]
    BY ConcatIsSeq
  <1>2. \A i \in DOMAIN c : Bound(ps, n + i, c[i])
    BY DEF Holds
  <1> HIDE DEF c
  <1>3. ASSUME NEW i \in DOMAIN a PROVE Bound(ps, n + i, a[i])
    <2>1. i \in DOMAIN c /\ c[i] = a[i]
      BY <1>1
    <2> QED
      BY <1>2, <2>1
  <1>4. ASSUME NEW i \in DOMAIN b PROVE Bound(ps, n + Len(a) + i, b[i])
    <2>1. Len(a) + i \in DOMAIN c /\ c[Len(a) + i] = b[i] /\ n + (Len(a) + i) = n + Len(a) + i
      BY <1>1
    <2>2. Bound(ps, n + (Len(a) + i), c[Len(a) + i])
      BY <1>2, <2>1
    <2> QED
      BY <2>1, <2>2
  <1> QED
    BY <1>3, <1>4 DEF Holds

\* What a statement binds stays bound when more is pushed.
LEMMA BindsMore ==
  ASSUME NEW ps, NEW qs, \A n, v : Bound(ps, n, v) => Bound(qs, n, v), NEW stmt, StmtBinds(ps, stmt)
  PROVE  StmtBinds(qs, stmt)
  BY DEF StmtBinds, JsonBinds

----------------------------------------------------------------------------
(* Buffers that grow *)

GoesOn(a, b, f, g, h) ==
  /\ FunctionOn(f, DOMAIN a) /\ FunctionOn(g, DOMAIN b) /\ FunctionOn(h, DOMAIN (a \o b))
  /\ \A i \in DOMAIN a : h[i] = f[i]
  /\ \A i \in DOMAIN b : h[Len(a) + i] = g[i]

\* What is computed of every element of two joined sequences.
LEMMA MapJoined ==
  ASSUME NEW a, NEW b, IsSeq(a), IsSeq(b), NEW f, NEW g, NEW h, GoesOn(a, b, f, g, h)
  PROVE  h = f \o g
  <1> DEFINE c == a \o b
             m == Len(a)
             n == Len(b)
             S == {h[i] : i \in DOMAIN c}
  <1> USE DEF FunctionOn, GoesOn
  <1>1. m \in Nat /\ n \in Nat /\ DOMAIN a = 1..m /\ DOMAIN b = 1..n /\ DOMAIN c = 1..(m + n)
    BY ConcatIsSeq
  <1>m. \A i \in DOMAIN b : h[m + i] = g[i]
    OBVIOUS
  <1> HIDE DEF c, m, n
  <1>2. f \in [1..m -> S]
    <2>1. ASSUME NEW i \in 1..m PROVE f[i] \in S
      <3>1. i \in DOMAIN a /\ i \in DOMAIN c
        BY <1>1
      <3>2. h[i] = f[i]
        BY <3>1
      <3> QED
        BY <3>1, <3>2
    <2> HIDE DEF S
    <2> QED
      BY <1>1, <2>1
  <1>3. g \in [1..n -> S]
    <2>1. ASSUME NEW i \in 1..n PROVE g[i] \in S
      <3> DEFINE j == m + i
      <3>1. i \in DOMAIN b /\ j \in DOMAIN c
        BY <1>1
      <3>2. h[j] = g[i]
        BY <1>m, <3>1
      <3> HIDE DEF j
      <3> QED
        BY <3>1, <3>2
    <2> HIDE DEF S
    <2> QED
      BY <1>1, <2>1
  <1>4. h \in [1..(m + n) -> S]
    BY <1>1 DEF c
  <1> HIDE DEF S
  <1>5. f \in Seq(S) /\ Len(f) = m /\ g \in Seq(S) /\ Len(g) = n
    BY <1>1, <1>2, <1>3, FunctionIsSeq
  <1>6. h \in Seq(S) /\ Len(h) = m + n
    <2>1. m + n \in Nat
      BY <1>1
    <2> QED
      BY <1>4, <2>1, FunctionIsSeq
  <1>7. Len(h) = Len(f) + Len(g)
    BY <1>5, <1>6
  <1>8. \A i \in 1..Len(f) : h[i] = f[i]
    BY <1>1, <1>5
  <1>9. \A i \in 1..Len(g) : h[Len(f) + i] = g[i]
    BY <1>1, <1>m, <1>5
  <1> QED
    BY <1>5, <1>6, <1>7, <1>8, <1>9, ConcatIs

LEMMA PrintedJoined ==
  ASSUME NEW a, NEW b, IsSeq(a), IsSeq(b)
  PROVE  Printed(a \o b) = Printed(a) \o Printed(b)
  <1> DEFINE c == a \o b
             f == Printed(a)
             g == Printed(b)
             h == Printed(c)
  <1>1. /\ Len(a) \in Nat /\ DOMAIN a = 1..Len(a)
        /\ Len(b) \in Nat /\ DOMAIN b = 1..Len(b)
        /\ DOMAIN c = 1..(Len(a) + Len(b))
        /\ \A i \in 1..Len(a) : c[i] = a[i]
        /\ \A i \in 1..Len(b) : c[Len(a) + i] = b[i]
    BY ConcatIsSeq
  <1>2. FunctionOn(f, DOMAIN a) /\ FunctionOn(g, DOMAIN b) /\ FunctionOn(h, DOMAIN (a \o b))
    BY DEF Printed, FunctionOn
  <1> HIDE DEF c
  <1>3. ASSUME NEW i \in DOMAIN a PROVE h[i] = f[i]
    <2>1. i \in DOMAIN c /\ c[i] = a[i]
      BY <1>1
    <2> QED
      BY <2>1 DEF Printed
  <1>4. ASSUME NEW i \in DOMAIN b PROVE h[Len(a) + i] = g[i]
    <2>1. Len(a) + i \in DOMAIN c /\ c[Len(a) + i] = b[i]
      BY <1>1
    <2> QED
      BY <2>1 DEF Printed
  <1> HIDE DEF f, g, h
  <1>5. GoesOn(a, b, f, g, h)
    BY <1>2, <1>3, <1>4 DEF GoesOn
  <1>6. h = f \o g
    BY <1>5, MapJoined
  <1> QED
    BY <1>6 DEF f, g, h, c

LEMMA ListJoined ==
  ASSUME NEW a, NEW b, IsSeq(a), IsSeq(b)
  PROVE  ListPlaceholders(a \o b) = ListPlaceholders(a) \o ListPlaceholders(b)
  <1> DEFINE c == a \o b
             f == ListPlaceholders(a)
             g == ListPlaceholders(b)
             h == ListPlaceholders(c)
  <1>1. /\ Len(a) \in Nat /\ DOMAIN a = 1..Len(a)
        /\ Len(b) \in Nat /\ DOMAIN b = 1..Len(b)
        /\ DOMAIN c = 1..(Len(a) + Len(b))
        /\ \A i \in 1..Len(a) : c[i] = a[i]
        /\ \A i \in 1..Len(b) : c[Len(a) + i] = b[i]
    BY ConcatIsSeq
  <1>2. FunctionOn(f, DOMAIN a) /\ FunctionOn(g, DOMAIN b) /\ FunctionOn(h, DOMAIN (a \o b))
    BY DEF ListPlaceholders, FunctionOn
  <1> HIDE DEF c
  <1>3. ASSUME NEW i \in DOMAIN a PROVE h[i] = f[i]
    <2>1. i \in DOMAIN c /\ c[i] = a[i]
      BY <1>1
    <2> QED
      BY <2>1 DEF ListPlaceholders
  <1>4. ASSUME NEW i \in DOMAIN b PROVE h[Len(a) + i] = g[i]
    <2>1. Len(a) + i \in DOMAIN c /\ c[Len(a) + i] = b[i]
      BY <1>1
    <2> QED
      BY <2>1 DEF ListPlaceholders
  <1> HIDE DEF f, g, h
  <1>5. GoesOn(a, b, f, g, h)
    BY <1>2, <1>3, <1>4 DEF GoesOn
  <1>6. h = f \o g
    BY <1>5, MapJoined
  <1> QED
    BY <1>6 DEF f, g, h, c

LEMMA CarriesJoined ==
  ASSUME NEW a, NEW b, NEW ps, NEW n \in Nat, NEW k \in Nat, NEW l \in Nat,
         Carries(a, ps, n, k), Carries(b, ps, n + k, l)
  PROVE  Carries(a \o b, ps, n, k + l)
  <1>1. IsSeq(a) /\ IsSeq(b) /\ Lays(Printed(a), n, k) /\ Lays(Printed(b), n + k, l)
    BY DEF Carries
  <1>2. Lays(Printed(a \o b), n, k + l)
    <2>1. Lays(Printed(a) \o Printed(b), n, k + l)
      BY <1>1, LaysJoined
    <2> QED
      BY <1>1, <2>1, PrintedJoined
  <1> DEFINE c == a \o b
  <1>3. /\ IsSeq(c)
        /\ Len(a) \in Nat /\ DOMAIN a = 1..Len(a)
        /\ Len(b) \in Nat /\ DOMAIN b = 1..Len(b)
        /\ DOMAIN c = 1..(Len(a) + Len(b))
        /\ \A i \in 1..Len(a) : c[i] = a[i]
        /\ \A i \in 1..Len(b) : c[Len(a) + i] = b[i]
    BY <1>1, ConcatIsSeq
  <1> HIDE DEF c
  <1>4. ASSUME NEW i \in DOMAIN c, c[i].t \in {"cte", "write"} PROVE StmtBinds(ps, c[i].stmt)
    <2>1. CASE i <= Len(a)
      <3>1. i \in DOMAIN a /\ c[i] = a[i]
        BY <1>3, <2>1
      <3> QED
        BY <1>4, <3>1 DEF Carries
    <2>2. CASE ~(i <= Len(a))
      <3> DEFINE j == i - Len(a)
      <3>1. j \in DOMAIN b /\ Len(a) + j = i
        BY <1>3, <2>2
      <3> HIDE DEF j
      <3>2. c[i] = b[j]
        BY <1>3, <3>1
      <3> QED
        BY <1>4, <3>1, <3>2 DEF Carries
    <2> QED
      BY <2>1, <2>2
  <1> QED
    BY <1>2, <1>3, <1>4 DEF Carries, c

\* What the builder writes goes on where its buffer ends.
LEMMA CarriesPushed ==
  ASSUME NEW b, NEW ps, IsSeq(ps), Carries(b, ps, 0, Len(ps)),
         NEW vs, IsSeq(vs), NEW toks, Carries(toks, ps \o vs, Len(ps), Len(vs))
  PROVE  IsSeq(ps \o vs) /\ Carries(b \o toks, ps \o vs, 0, Len(ps \o vs))
  <1>1. IsSeq(ps \o vs) /\ Len(ps) \in Nat /\ Len(vs) \in Nat /\ Len(ps \o vs) = Len(ps) + Len(vs)
    <2>1. IsSeq(ps \o vs) /\ Len(ps) \in Nat /\ Len(vs) \in Nat
          /\ DOMAIN (ps \o vs) = 1..(Len(ps) + Len(vs))
      BY ConcatIsSeq
    <2>2. Len(ps \o vs) \in Nat /\ DOMAIN (ps \o vs) = 1..Len(ps \o vs)
      BY <2>1, LenProperties DEF IsSeq
    <2> QED
      BY <2>1, <2>2
  <1>2. Carries(b, ps \o vs, 0, Len(ps))
    <2>1. \A n, v : Bound(ps, n, v) => Bound(ps \o vs, n, v)
      BY HoldsPushed
    <2>2. ASSUME NEW stmt, StmtBinds(ps, stmt) PROVE StmtBinds(ps \o vs, stmt)
      BY <2>1, <2>2, BindsMore
    <2> QED
      BY <2>2 DEF Carries
  <1>3. 0 + Len(ps) = Len(ps) /\ 0 \in Nat
    BY <1>1
  <1>4. Carries(b \o toks, ps \o vs, 0, Len(ps) + Len(vs))
    BY <1>1, <1>2, <1>3, CarriesJoined
  <1> QED
    BY <1>1, <1>4

----------------------------------------------------------------------------
(* Places *)

LEMMA QuietPlaces ==
  ASSUME NEW n \in Nat, NEW s, IsSeq(s), NEW f, FunctionOn(f, DOMAIN s), \A i \in DOMAIN s : f[i] = <<>>
  PROVE  Lays(f, n, 0)
  <1> DEFINE k == Len(s)
  <1>1. k \in Nat /\ DOMAIN f = 1..k /\ DOMAIN s = 1..k
    BY MapIsSeq
  <1> HIDE DEF k
  <1>2. f = [i \in 1..k |-> f[i]] /\ \A i \in 1..k : f[i] = <<>>
    BY <1>1 DEF FunctionOn
  <1> QED
    BY <1>1, <1>2, LaysPlaces

LEMMA OnePlace ==
  ASSUME NEW n \in Nat, NEW k \in Nat
  PROVE  Lays(<<Consecutive(n, k)>>, n, k)
  <1>1. Consecutive(n, k) \in Seq(Nat)
    BY RunTyped
  <1> QED
    BY <1>1, FlattenSmall DEF Lays

----------------------------------------------------------------------------
(* Select lists *)

\* Output columns whose placeholders are the k after n, the members of a JSON
\* object among them being bound by ps.
OutsCarry(outs, ps, n, k) ==
  /\ IsSeq(outs)
  /\ Lays(ListPlaceholders(outs), n, k)
  /\ \A i \in DOMAIN outs : outs[i].name = <<"data">> => JsonBinds(ps, outs[i])

LEMMA OutsJoined ==
  ASSUME NEW a, NEW b, NEW ps, NEW n \in Nat, NEW k \in Nat, NEW l \in Nat,
         OutsCarry(a, ps, n, k), OutsCarry(b, ps, n + k, l)
  PROVE  OutsCarry(a \o b, ps, n, k + l)
  <1>1. IsSeq(a) /\ IsSeq(b) /\ Lays(ListPlaceholders(a), n, k) /\ Lays(ListPlaceholders(b), n + k, l)
    BY DEF OutsCarry
  <1>2. Lays(ListPlaceholders(a \o b), n, k + l)
    <2>1. Lays(ListPlaceholders(a) \o ListPlaceholders(b), n, k + l)
      BY <1>1, LaysJoined
    <2> QED
      BY <1>1, <2>1, ListJoined
  <1> DEFINE c == a \o b
  <1>3. /\ IsSeq(c)
        /\ Len(a) \in Nat /\ DOMAIN a = 1..Len(a)
        /\ Len(b) \in Nat /\ DOMAIN b = 1..Len(b)
        /\ DOMAIN c = 1..(Len(a) + Len(b))
        /\ \A i \in 1..Len(a) : c[i] = a[i]
        /\ \A i \in 1..Len(b) : c[Len(a) + i] = b[i]
    BY <1>1, ConcatIsSeq
  <1> HIDE DEF c
  <1>4. ASSUME NEW i \in DOMAIN c, c[i].name = <<"data">> PROVE JsonBinds(ps, c[i])
    <2>1. CASE i <= Len(a)
      <3>1. i \in DOMAIN a /\ c[i] = a[i]
        BY <1>3, <2>1
      <3> QED
        BY <1>4, <3>1 DEF OutsCarry
    <2>2. CASE ~(i <= Len(a))
      <3> DEFINE j == i - Len(a)
      <3>1. j \in DOMAIN b /\ Len(a) + j = i
        BY <1>3, <2>2
      <3> HIDE DEF j
      <3>2. c[i] = b[j]
        BY <1>3, <3>1
      <3> QED
        BY <1>4, <3>1, <3>2 DEF OutsCarry
    <2> QED
      BY <2>1, <2>2
  <1> QED
    BY <1>2, <1>3, <1>4 DEF OutsCarry, c

LEMMA QuietOuts ==
  ASSUME NEW outs, IsSeq(outs), NEW ps, NEW n \in Nat, \A i \in DOMAIN outs : outs[i].params = <<>>
  PROVE  OutsCarry(outs, ps, n, 0)
  <1> DEFINE f == ListPlaceholders(outs)
  <1>1. FunctionOn(f, DOMAIN outs) /\ \A i \in DOMAIN outs : f[i] = <<>>
    BY DEF ListPlaceholders, FunctionOn
  <1> HIDE DEF f
  <1>2. Lays(f, n, 0)
    BY <1>1, QuietPlaces
  <1>3. ASSUME NEW i \in DOMAIN outs PROVE JsonBinds(ps, outs[i])
    <2>1. DOMAIN outs[i].params = {}
      OBVIOUS
    <2> QED
      BY <2>1 DEF JsonBinds
  <1> QED
    BY <1>2, <1>3 DEF OutsCarry, f

LEMMA OneOut ==
  ASSUME NEW o, NEW ps, NEW n \in Nat, NEW k \in Nat, o.params = Consecutive(n, k),
         o.name = <<"data">> => JsonBinds(ps, o)
  PROVE  OutsCarry(<<o>>, ps, n, k)
  <1> DEFINE outs == <<o>>
  <1>1. IsSeq(outs) /\ DOMAIN outs = {1} /\ outs[1] = o
    BY TupleIsSeq
  <1>2. ListPlaceholders(outs) = <<Consecutive(n, k)>>
    <2> DEFINE p == o.params
    <2>1. ListPlaceholders(outs) = [i \in {1} |-> p]
      BY <1>1 DEF ListPlaceholders
    <2> HIDE DEF p
    <2>2. [i \in {1} |-> p] = <<p>>
      OBVIOUS
    <2> QED
      BY <2>1, <2>2 DEF p
  <1>3. Lays(ListPlaceholders(outs), n, k)
    BY <1>2, OnePlace
  <1> HIDE DEF outs
  <1>4. OutsCarry(outs, ps, n, k)
    BY <1>1, <1>3 DEF OutsCarry
  <1> QED
    BY <1>4 DEF outs

LEMMA FieldsTyped ==
  ASSUME IsRequest(req), NEW t \in Type, NEW include
  PROVE  JsonFields(req.sparse, t, include) \in Seq(Ident)
  <1>1. CASE ~include
    BY <1>1 DEF JsonFields
  <1>2. CASE include /\ t \in DOMAIN req.sparse
    BY <1>2 DEF JsonFields, IsRequest
  <1>3. CASE include /\ t \notin DOMAIN req.sparse
    <2> DEFINE as == Resource[t].attrs
               n == Len(as)
               f == [i \in DOMAIN as |-> as[i].name]
    <2>1. as \in Seq([name : Ident, obj : BOOLEAN])
      BY ResourceAssumption
    <2>2. n \in Nat /\ DOMAIN as = 1..n /\ \A i \in 1..n : as[i] \in [name : Ident, obj : BOOLEAN]
      BY <2>1, LenProperties, ElementOfSeq
    <2>3. JsonFields(req.sparse, t, include) = f
      BY <1>3, Zenon DEF JsonFields, MapSeq
    <2> HIDE DEF n, as
    <2>4. f \in [1..n -> Ident]
      BY <2>2
    <2> HIDE DEF f
    <2> QED
      BY <2>2, <2>3, <2>4, FunctionIsSeq
  <1> QED
    BY <1>1, <1>2, <1>3

LEMMA QuietOut ==
  ASSUME NEW ps, NEW n \in Nat, NEW x, x.params = <<>>, NEW y, y.params = <<>>
  PROVE  OutsCarry(<<x>>, ps, n, 0) /\ OutsCarry(<<x, y>>, ps, n, 0)
  <1>1. ASSUME NEW o, o.params = <<>> PROVE OutsCarry(<<o>>, ps, n, 0)
    <2>1. DOMAIN o.params = {} /\ o.params = Consecutive(n, 0) /\ 0 \in Nat
      BY <1>1, RunTyped
    <2>2. JsonBinds(ps, o)
      BY <2>1 DEF JsonBinds
    <2> QED
      BY <2>1, <2>2, OneOut
  <1>2. OutsCarry(<<x>>, ps, n, 0) /\ OutsCarry(<<y>>, ps, n, 0)
    BY <1>1
  <1>3. n + 0 = n /\ 0 + 0 = 0 /\ 0 \in Nat
    OBVIOUS
  <1>4. OutsCarry(<<x>> \o <<y>>, ps, n, 0 + 0)
    BY <1>2, <1>3, OutsJoined
  <1> QED
    BY <1>2, <1>3, <1>4, TuplesJoined

\* The first columns of a data CTE, and its first parameters.
LEMMA HeadsCarry ==
  ASSUME NEW ps, NEW n \in Nat, NEW t, NEW relating
  PROVE  /\ IsSeq(HeadParams(t, relating)) /\ Len(HeadParams(t, relating)) \in Nat
         /\ OutsCarry(HeadOuts(relating, n), ps, n, Len(HeadParams(t, relating)))
  <1>1. <<"data">> # <<"type">> /\ <<"data">> # RelatedTypeCol
    BY DEF RelatedTypeCol
  <1>2. \A name, refs : Out(name, refs, <<>>).params = <<>>
    BY DEF Out
  <1>3. ASSUME NEW m \in Nat, NEW name, name # <<"data">>, NEW refs
        PROVE  OutsCarry(<<Out(name, refs, <<m + 1>>)>>, ps, m, 1)
    <2> DEFINE o == Out(name, refs, <<m + 1>>)
    <2>1. o.params = Consecutive(m, 1) /\ o.name = name
      BY RunTyped DEF Out
    <2> HIDE DEF o
    <2>2. OutsCarry(<<o>>, ps, m, 1)
      BY <1>3, <2>1, OneOut
    <2> QED
      BY <2>2 DEF o
  <1>4. CASE relating = <<>>
    <2> DEFINE x == Out(RelatedId, <<>>, <<>>)
               y == Out(RelatedTypeCol, <<>>, <<>>)
               z == Out(<<"type">>, <<>>, <<n + 1>>)
               p == [v |-> "type", of |-> <<t>>]
    <2>1. HeadParams(t, relating) = <<p>> /\ HeadOuts(relating, n) = <<x, y, z>>
      BY <1>4 DEF HeadParams, HeadOuts
    <2>2. x.params = <<>> /\ y.params = <<>> /\ OutsCarry(<<z>>, ps, n, 1)
      BY <1>1, <1>2, <1>3
    <2> HIDE DEF x, y, z, p
    <2>3. <<x, y, z>> = <<x, y>> \o <<z>>
      OBVIOUS
    <2>4. OutsCarry(<<x, y>>, ps, n, 0)
      BY <2>2, QuietOut
    <2>5. n + 0 = n /\ 0 + 1 = 1 /\ 0 \in Nat /\ 1 \in Nat
      OBVIOUS
    <2>6. OutsCarry(<<x, y>> \o <<z>>, ps, n, 0 + 1)
      BY <2>2, <2>4, <2>5, OutsJoined
    <2>7. IsSeq(HeadParams(t, relating))
      BY <2>1, TupleIsSeq
    <2>8. Len(HeadParams(t, relating)) = 1
      BY <2>1
    <2>9. HeadOuts(relating, n) = <<x, y>> \o <<z>>
      BY <2>1, <2>3
    <2>10. OutsCarry(HeadOuts(relating, n), ps, n, 1)
      BY <2>5, <2>6, <2>9
    <2> QED
      BY <2>5, <2>7, <2>8, <2>10
  <1>5. CASE relating # <<>>
    <2> DEFINE refs == <<Ref(relating[1].tbl, KeyIdent(relating[1].tbl.type))>>
               x == Out(RelatedId, refs, <<>>)
               y == Out(RelatedTypeCol, <<>>, <<n + 1>>)
               z == Out(<<"type">>, <<>>, <<n + 2>>)
               p == [v |-> "type", of |-> <<relating[1].tbl.type>>]
               q == [v |-> "chain", of |-> ChainLabel(relating[1].chain)]
    <2>1. HeadParams(t, relating) = <<p, q>> /\ HeadOuts(relating, n) = <<x, y, z>>
      BY <1>5 DEF HeadParams, HeadOuts
    <2>2. n + 2 = (n + 1) + 1 /\ n + 1 \in Nat /\ n + 0 = n /\ 0 + 1 = 1 /\ 1 + 1 = 2
      OBVIOUS
    <2>3. x.params = <<>> /\ OutsCarry(<<y>>, ps, n, 1)
      BY <1>1, <1>2, <1>3
    <2>4. OutsCarry(<<z>>, ps, n + 1, 1)
      <3>1. OutsCarry(<<Out(<<"type">>, <<>>, <<(n + 1) + 1>>)>>, ps, n + 1, 1)
        BY <1>1, <1>3, <2>2
      <3> QED
        BY <2>2, <3>1
    <2> HIDE DEF x, y, z, p, q, refs
    <2>5. <<x, y, z>> = <<x, y>> \o <<z>>
      OBVIOUS
    <2>6. OutsCarry(<<x>>, ps, n, 0)
      BY <2>3, QuietOut
    <2>7. 0 \in Nat /\ 1 \in Nat /\ 2 \in Nat
      OBVIOUS
    <2>8. OutsCarry(<<x>> \o <<y>>, ps, n, 0 + 1)
      BY <2>2, <2>3, <2>6, <2>7, OutsJoined
    <2>9. OutsCarry(<<x, y>>, ps, n, 1)
      BY <2>2, <2>8, TuplesJoined
    <2>10. OutsCarry(<<x, y>> \o <<z>>, ps, n, 1 + 1)
      BY <2>2, <2>4, <2>7, <2>9, OutsJoined
    <2>11. IsSeq(HeadParams(t, relating))
      BY <2>1, TupleIsSeq
    <2>12. Len(HeadParams(t, relating)) = 2
      BY <2>1
    <2>13. HeadOuts(relating, n) = <<x, y>> \o <<z>>
      BY <2>1, <2>5
    <2>14. OutsCarry(HeadOuts(relating, n), ps, n, 2)
      BY <2>2, <2>10, <2>13
    <2> QED
      BY <2>7, <2>11, <2>12, <2>14
  <1> QED
    BY <1>4, <1>5

\* The JSON object of a data CTE: a key, then the column of that name.
LEMMA JsonCarries ==
  ASSUME NEW ps, NEW n \in Nat, NEW tbl, NEW t, NEW fields \in Seq(Ident),
         NEW keys, keys = MapSeq(LAMBDA f : [v |-> "key", of |-> f], PlainFields(fields, t)),
         Holds(ps, n, keys)
  PROVE  /\ IsSeq(keys) /\ Len(keys) \in Nat
         /\ OutsCarry(<<JsonOut(tbl, t, fields, n)>>, ps, n, Len(keys))
  <1> DEFINE plain == PlainFields(fields, t)
             k == Len(plain)
             refs == MapSeq(LAMBDA f : Ref(tbl, f), plain)
             o == JsonOut(tbl, t, fields, n)
  <1>1. plain \in Seq(Ident)
    BY KeptTyped DEF PlainFields
  <1>2. IsSeq(plain)
    BY <1>1, SeqIsSeq
  <1>3. keys = [i \in DOMAIN plain |-> [v |-> "key", of |-> plain[i]]]
    BY Zenon DEF MapSeq
  <1>4. refs = [i \in DOMAIN plain |-> Ref(tbl, plain[i])]
    BY Zenon DEF MapSeq
  <1>5. o.name = <<"data">> /\ o.refs = refs /\ o.params = [i \in DOMAIN plain |-> n + i]
    BY DEF JsonOut
  <1> HIDE DEF plain, refs, o
  <1>6. FunctionOn(keys, DOMAIN plain)
    BY <1>3 DEF FunctionOn
  <1>7. /\ IsSeq(keys) /\ Len(keys) = k /\ DOMAIN keys = DOMAIN plain
        /\ k \in Nat /\ DOMAIN plain = 1..k
    BY <1>2, <1>6, MapIsSeq
  <1> HIDE DEF k
  <1>8. o.params = Consecutive(n, k)
    BY <1>5, <1>7 DEF Consecutive
  <1>9. JsonBinds(ps, o)
    <2> SUFFICES ASSUME NEW i \in DOMAIN o.params
                 PROVE  Bound(ps, o.params[i], [v |-> "key", of |-> o.refs[i].col])
      BY DEF JsonBinds
    <2>1. i \in DOMAIN plain /\ o.params[i] = n + i
      BY <1>5
    <2>2. keys[i] = [v |-> "key", of |-> plain[i]] /\ i \in DOMAIN keys
      BY <1>3, <1>7, <2>1
    <2>3. o.refs[i].col = plain[i]
      <3>1. refs[i] = Ref(tbl, plain[i])
        BY <1>4, <2>1
      <3>2. Ref(tbl, plain[i]).col = plain[i]
        BY DEF Ref
      <3> QED
        BY <1>5, <3>1, <3>2
    <2>4. Bound(ps, n + i, keys[i])
      BY <2>2 DEF Holds
    <2> QED
      BY <2>1, <2>2, <2>3, <2>4
  <1>10. OutsCarry(<<o>>, ps, n, k)
    BY <1>7, <1>8, <1>9, OneOut
  <1> QED
    BY <1>7, <1>10 DEF o

\* The columns of a data CTE.
LEMMA SelectOutsCarry ==
  ASSUME NEW ps, NEW n \in Nat, NEW tbl, NEW t, NEW relating, NEW fields \in Seq(Ident),
         NEW additional, IsSeq(additional),
         Holds(ps, n, SelectParams(t, relating, fields))
  PROVE  OutsCarry(SelectOuts(tbl, t, relating, additional, fields, n), ps, n,
                   Len(SelectParams(t, relating, fields)))
  <1> DEFINE head == HeadParams(t, relating)
             keys == MapSeq(LAMBDA f : [v |-> "key", of |-> f], PlainFields(fields, t))
             x == Out(Id, PrettyRefs(tbl), <<>>)
             y == Out(MainId, KeyRefs(tbl), <<>>)
             m == n + Len(head)
             json == JsonOut(tbl, t, fields, m)
             adds == MapSeq(LAMBDA f : Out(f.name, <<Ref(tbl, f.col)>>, <<>>), additional)
             heads == HeadOuts(relating, n)
             pushed == SelectParams(t, relating, fields)
             outs == SelectOuts(tbl, t, relating, additional, fields, n)
             k == Len(head)
             l == Len(keys)
  <1>1. pushed = head \o keys
    BY Zenon DEF SelectParams
  <1>2. outs = <<x, y>> \o heads \o <<json>> \o adds
    BY Zenon DEF SelectOuts
  <1>3. IsSeq(head) /\ k \in Nat /\ OutsCarry(heads, ps, n, k)
    BY HeadsCarry
  <1>4. x.params = <<>> /\ y.params = <<>>
    BY DEF Out
  <1>5. OutsCarry(<<x, y>>, ps, n, 0)
    <2> HIDE DEF x, y
    <2> QED
      BY <1>4, QuietOut
  <1>6. adds = [i \in DOMAIN additional |-> Out(additional[i].name, <<Ref(tbl, additional[i].col)>>, <<>>)]
    BY Zenon DEF MapSeq
  <1>7. IsSeq(adds) /\ \A i \in DOMAIN adds : adds[i].params = <<>>
    <2> HIDE DEF adds
    <2>1. FunctionOn(adds, DOMAIN additional) /\ \A i \in DOMAIN additional : adds[i].params = <<>>
      BY <1>6 DEF FunctionOn, Out
    <2>2. IsSeq(adds) /\ DOMAIN adds = DOMAIN additional
      BY <2>1, MapIsSeq
    <2> QED
      BY <2>1, <2>2
  <1>8. IsSeq(keys)
    <2> DEFINE plain == PlainFields(fields, t)
    <2>1. plain \in Seq(Ident)
      BY KeptTyped DEF PlainFields
    <2>2. IsSeq(plain)
      BY <2>1, SeqIsSeq
    <2>3. keys = [i \in DOMAIN plain |-> [v |-> "key", of |-> plain[i]]]
      BY Zenon DEF MapSeq
    <2> HIDE DEF plain, keys
    <2>4. FunctionOn(keys, DOMAIN plain)
      BY <2>3 DEF FunctionOn
    <2> QED
      BY <2>2, <2>4, MapIsSeq
  <1>9. m \in Nat
    BY <1>3
  <1>10. Holds(ps, m, keys)
    <2> HIDE DEF pushed, head, keys
    <2>1. Holds(ps, n, head \o keys)
      BY <1>1 DEF pushed
    <2>2. Holds(ps, n + Len(head), keys)
      BY <1>3, <1>8, <2>1, HoldsJoined
    <2> QED
      BY <2>2
  <1>11. l \in Nat /\ OutsCarry(<<json>>, ps, m, l)
    BY <1>9, <1>10, JsonCarries
  <1> HIDE DEF x, y, json, adds, heads, pushed, outs, keys, head
  <1>12. Len(pushed) = k + l /\ n + 0 = n /\ 0 + k = k /\ m = n + k /\ 0 \in Nat
    <2>1. DOMAIN (head \o keys) = 1..(k + l) /\ IsSeq(head \o keys)
      BY <1>3, <1>8, ConcatIsSeq
    <2>2. IsSeq(pushed) /\ DOMAIN pushed = 1..(k + l)
      BY <1>1, <2>1
    <2>3. Len(pushed) \in Nat /\ DOMAIN pushed = 1..Len(pushed)
      BY <2>2, LenProperties DEF IsSeq
    <2>4. k + l \in Nat
      BY <1>3, <1>11
    <2> HIDE DEF k, l
    <2>5. Len(pushed) = k + l
      BY <2>2, <2>3, <2>4
    <2> QED
      BY <1>3, <2>5 DEF k
  <1> HIDE DEF k, l, m
  <1>13. OutsCarry(<<x, y>> \o heads, ps, n, k)
    BY <1>3, <1>5, <1>12, OutsJoined
  <1>14. OutsCarry(<<x, y>> \o heads \o <<json>>, ps, n, k + l)
    BY <1>3, <1>11, <1>12, <1>13, OutsJoined
  <1>15. k + l \in Nat /\ k + l + 0 = k + l /\ n + (k + l) \in Nat
    BY <1>3, <1>11
  <1>16. OutsCarry(adds, ps, n + (k + l), 0)
    BY <1>7, <1>15, QuietOuts
  <1>17. OutsCarry(outs, ps, n, k + l)
    <2> DEFINE kl == k + l
               a == <<x, y>> \o heads \o <<json>>
    <2>1. OutsCarry(a, ps, n, kl) /\ OutsCarry(adds, ps, n + kl, 0) /\ kl \in Nat /\ kl + 0 = kl
      BY <1>14, <1>15, <1>16
    <2>2. outs = a \o adds
      BY <1>2
    <2> HIDE DEF kl, a
    <2>3. OutsCarry(a \o adds, ps, n, kl + 0)
      BY <1>12, <2>1, OutsJoined
    <2>4. OutsCarry(outs, ps, n, kl)
      BY <2>1, <2>2, <2>3
    <2> QED
      BY <2>4 DEF kl
  <1> QED
    BY <1>12, <1>17 DEF outs, pushed

----------------------------------------------------------------------------
(* Statements *)

\* The same of the columns that are set, of a filter and of a statement.
SetBound(ps, s) ==
  s.param # 0 => \E v \in {"attr", "ref", "null"} : Bound(ps, s.param, [v |-> v, of |-> s.col])
SetsCarry(sets, ps, n, k) ==
  Lays(SetPlaceholders(sets), n, k) /\ \A i \in DOMAIN sets : SetBound(ps, sets[i])
WhereCarries(where, ps, n, k) ==
  /\ [i \in DOMAIN where |-> where[i].param] = Consecutive(n, k)
  /\ \A i \in DOMAIN where : Bound(ps, where[i].param, [v |-> "id", of |-> where[i].ref.col])
StmtCarries(stmt, ps, n, k) == Placeholders(stmt) = Consecutive(n, k) /\ StmtBinds(ps, stmt)

LEMMA StmtParts ==
  ASSUME NEW ps, NEW n \in Nat, NEW k \in Nat, NEW l \in Nat, NEW m \in Nat,
         NEW q, NEW from, NEW outs, NEW joins, NEW sets, NEW where,
         OutsCarry(outs, ps, n, k), SetsCarry(sets, ps, n + k, l), WhereCarries(where, ps, n + k + l, m)
  PROVE  StmtCarries(Stmt(q, from, outs, joins, sets, where), ps, n, k + l + m)
  <1> DEFINE stmt == Stmt(q, from, outs, joins, sets, where)
  <1>1. stmt.outs = outs /\ stmt.sets = sets /\ stmt.where = where
    BY DEF Stmt
  <1> HIDE DEF stmt
  <1>2. Placeholders(stmt) = Consecutive(n, k) \o Consecutive(n + k, l) \o Consecutive(n + k + l, m)
    <2>1. FlattenSeq(ListPlaceholders(outs)) = Consecutive(n, k)
      BY DEF OutsCarry, Lays
    <2>2. FlattenSeq(SetPlaceholders(sets)) = Consecutive(n + k, l)
      BY DEF SetsCarry, Lays
    <2>3. [i \in DOMAIN where |-> where[i].param] = Consecutive(n + k + l, m)
      BY DEF WhereCarries
    <2>4. Placeholders(stmt) = FlattenSeq(ListPlaceholders(outs)) \o FlattenSeq(SetPlaceholders(sets))
                                 \o [i \in DOMAIN where |-> where[i].param]
      BY <1>1 DEF Placeholders
    <2> QED
      BY <2>1, <2>2, <2>3, <2>4
  <1>3. Consecutive(n, k) \o Consecutive(n + k, l) = Consecutive(n, k + l)
    BY RunsJoined
  <1>4. n + k + l = n + (k + l) /\ k + l \in Nat
    OBVIOUS
  <1>5. Consecutive(n, k + l) \o Consecutive(n + (k + l), m) = Consecutive(n, k + l + m)
    BY <1>4, RunsJoined
  <1>6. Placeholders(stmt) = Consecutive(n, k + l + m)
    BY <1>2, <1>3, <1>4, <1>5
  <1>7. StmtBinds(ps, stmt)
    <2>1. \A i \in DOMAIN stmt.where :
            Bound(ps, stmt.where[i].param, [v |-> "id", of |-> stmt.where[i].ref.col])
      BY <1>1 DEF WhereCarries
    <2>2. \A i \in DOMAIN stmt.sets : stmt.sets[i].param # 0 =>
            \E v \in {"attr", "ref", "null"} : Bound(ps, stmt.sets[i].param, [v |-> v, of |-> stmt.sets[i].col])
      BY <1>1 DEF SetsCarry, SetBound
    <2>3. \A i \in DOMAIN stmt.outs : stmt.outs[i].name = <<"data">> => JsonBinds(ps, stmt.outs[i])
      BY <1>1 DEF OutsCarry
    <2> QED
      BY <2>1, <2>2, <2>3 DEF StmtBinds
  <1> QED
    BY <1>6, <1>7 DEF StmtCarries, stmt

\* A statement without one of its parts.
LEMMA NoParts ==
  ASSUME NEW ps, NEW n \in Nat
  PROVE  OutsCarry(<<>>, ps, n, 0) /\ SetsCarry(<<>>, ps, n, 0) /\ WhereCarries(<<>>, ps, n, 0)
  <1> DEFINE none == <<>>
  <1>1. none \in Seq({}) /\ DOMAIN none = {}
    OBVIOUS
  <1>2. IsSeq(none)
    BY <1>1, SeqIsSeq
  <1>3. Consecutive(n, 0) = none
    BY RunTyped
  <1>4. [i \in DOMAIN none |-> none[i].param] = Consecutive(n, 0)
    <2>1. [i \in DOMAIN none |-> none[i].param] = <<>>
      BY <1>1
    <2> QED
      BY <1>3, <2>1
  <1>5. FunctionOn(SetPlaceholders(none), DOMAIN none)
    BY DEF SetPlaceholders, FunctionOn
  <1> HIDE DEF none
  <1>6. OutsCarry(none, ps, n, 0)
    BY <1>1, <1>2, QuietOuts
  <1>7. SetsCarry(none, ps, n, 0)
    <2>1. \A i \in DOMAIN none : SetPlaceholders(none)[i] = <<>>
      BY <1>1
    <2>2. Lays(SetPlaceholders(none), n, 0)
      BY <1>2, <1>5, <2>1, QuietPlaces
    <2> QED
      BY <1>1, <2>2 DEF SetsCarry
  <1>8. WhereCarries(none, ps, n, 0)
    BY <1>1, <1>4 DEF WhereCarries
  <1> QED
    BY <1>6, <1>7, <1>8 DEF none

\* The filter on the key of a table takes the id of the request.
LEMMA KeyWhere ==
  ASSUME NEW ps, NEW n \in Nat, NEW tbl, tbl.type \in Type
  PROVE  LET pushed == PkeyParams(tbl.type) IN
         /\ IsSeq(pushed) /\ Len(pushed) \in Nat /\ Len(pushed) = Len(PrimaryKey(tbl.type))
         /\ Holds(ps, n, pushed) => WhereCarries(ComparePkey(tbl, n), ps, n, Len(pushed))
  <1> DEFINE pk == PrimaryKey(tbl.type)
             k == Len(pk)
             pushed == PkeyParams(tbl.type)
             where == ComparePkey(tbl, n)
  <1>1. IsSeq(pk)
    BY ResourceAssumption, SeqIsSeq DEF PrimaryKey
  <1>2. pushed = [i \in DOMAIN pk |-> [v |-> "id", of |-> pk[i].col]]
    BY DEF PkeyParams
  <1>3. where = [i \in DOMAIN pk |-> [ref |-> Ref(tbl, pk[i].col), param |-> n + i, and |-> FALSE]]
    BY DEF ComparePkey
  <1> HIDE DEF pk, pushed, where
  <1>4. FunctionOn(pushed, DOMAIN pk)
    BY <1>2 DEF FunctionOn
  <1>5. IsSeq(pushed) /\ Len(pushed) = k /\ DOMAIN pushed = DOMAIN pk /\ k \in Nat /\ DOMAIN pk = 1..k
    BY <1>1, <1>4, MapIsSeq
  <1> HIDE DEF k
  <1>6. ASSUME Holds(ps, n, pushed) PROVE WhereCarries(where, ps, n, k)
    <2>1. /\ DOMAIN where = 1..k
          /\ \A i \in 1..k : where[i].param = n + i /\ where[i].ref.col = pk[i].col
      BY <1>3, <1>5 DEF Ref
    <2>2. [i \in DOMAIN where |-> where[i].param] = Consecutive(n, k)
      BY <2>1 DEF Consecutive
    <2>3. ASSUME NEW i \in DOMAIN where
          PROVE  Bound(ps, where[i].param, [v |-> "id", of |-> where[i].ref.col])
      <3>1. i \in DOMAIN pushed /\ pushed[i] = [v |-> "id", of |-> pk[i].col]
        BY <1>2, <1>5, <2>1
      <3>2. Bound(ps, n + i, pushed[i])
        BY <1>6, <3>1 DEF Holds
      <3>3. where[i].param = n + i /\ where[i].ref.col = pk[i].col
        BY <2>1
      <3> QED
        BY <3>1, <3>2, <3>3
    <2> QED
      BY <2>2, <2>3 DEF WhereCarries
  <1> QED
    BY <1>5, <1>6 DEF pushed, where, k, pk

\* The values of a body, each for its own column.
Valued(values) ==
  /\ IsSeq(values)
  /\ \A i \in DOMAIN values : \E v \in {"attr", "ref", "null"} :
       values[i].value = [v |-> v, of |-> values[i].col]

LEMMA ValueSets ==
  ASSUME NEW ps, NEW values, Valued(values)
  PROVE  LET pushed == ValueParams(values) IN
         /\ IsSeq(pushed) /\ Len(pushed) \in Nat /\ Len(pushed) = Len(values)
         /\ Holds(ps, 0, pushed) => SetsCarry(SetList(values, 0), ps, 0, Len(pushed))
  <1> DEFINE k == Len(values)
             pushed == ValueParams(values)
             sets == SetList(values, 0)
             f == SetPlaceholders(sets)
  <1>1. IsSeq(values)
    BY DEF Valued
  <1>2. pushed = [i \in DOMAIN values |-> values[i].value]
    BY Zenon DEF ValueParams, MapSeq
  <1>3. sets = [i \in DOMAIN values |-> [col |-> values[i].col, param |-> 0 + i]]
    BY DEF SetList
  <1>4. f = [i \in DOMAIN sets |-> IF sets[i].param = 0 THEN <<>> ELSE <<sets[i].param>>]
    BY DEF SetPlaceholders
  <1> HIDE DEF pushed, sets, f
  <1>5. FunctionOn(pushed, DOMAIN values)
    BY <1>2 DEF FunctionOn
  <1>6. IsSeq(pushed) /\ Len(pushed) = k /\ DOMAIN pushed = DOMAIN values /\ k \in Nat /\ DOMAIN values = 1..k
    BY <1>1, <1>5, MapIsSeq
  <1> HIDE DEF k
  <1>7. /\ DOMAIN sets = 1..k
        /\ \A i \in 1..k : sets[i].param = 0 + i /\ sets[i].param # 0 /\ sets[i].col = values[i].col
    <2>1. \A i \in 1..k : sets[i] = [col |-> values[i].col, param |-> 0 + i]
      BY <1>3, <1>6
    <2>2. \A i \in 1..k : 0 + i # 0
      BY <1>6
    <2> QED
      BY <1>3, <1>6, <2>1, <2>2
  <1>8. ASSUME Holds(ps, 0, pushed) PROVE SetsCarry(sets, ps, 0, k)
    <2>1. Lays(f, 0, k)
      <3>1. DOMAIN f = 1..k /\ f = [i \in 1..k |-> f[i]]
        BY <1>4, <1>7
      <3>2. \A i \in 1..k : f[i] = <<0 + i>>
        BY <1>4, <1>7
      <3>3. 0 \in Nat
        OBVIOUS
      <3> QED
        BY <1>6, <3>1, <3>2, <3>3, LaysPlaces
    <2>2. ASSUME NEW i \in DOMAIN sets PROVE SetBound(ps, sets[i])
      <3>1. i \in DOMAIN pushed /\ i \in DOMAIN values /\ pushed[i] = values[i].value
        BY <1>2, <1>6, <1>7
      <3>2. PICK v \in {"attr", "ref", "null"} : values[i].value = [v |-> v, of |-> values[i].col]
        BY <3>1 DEF Valued
      <3>3. Bound(ps, 0 + i, pushed[i])
        BY <1>8, <3>1 DEF Holds
      <3>4. sets[i].param = 0 + i /\ sets[i].col = values[i].col
        BY <1>7
      <3>5. Bound(ps, sets[i].param, [v |-> v, of |-> sets[i].col])
        BY <3>1, <3>2, <3>3, <3>4
      <3> QED
        BY <3>5 DEF SetBound
    <2> QED
      BY <2>1, <2>2 DEF SetsCarry, f
  <1> QED
    BY <1>6, <1>8 DEF pushed, sets, k

\* A key that is set to the literal NULL takes no parameter.
LEMMA NullSet ==
  ASSUME NEW ps, NEW n \in Nat, NEW col
  PROVE  SetsCarry(<<[col |-> col, param |-> 0]>>, ps, n, 0)
  <1> DEFINE x == [col |-> col, param |-> 0]
             sets == <<x>>
             f == SetPlaceholders(sets)
  <1>1. IsSeq(sets) /\ DOMAIN sets = {1} /\ sets[1] = x
    BY TupleIsSeq
  <1>2. x.param = 0
    OBVIOUS
  <1> HIDE DEF x, sets
  <1>3. FunctionOn(f, DOMAIN sets)
    BY DEF SetPlaceholders, FunctionOn
  <1>4. ASSUME NEW i \in DOMAIN sets PROVE f[i] = <<>> /\ SetBound(ps, sets[i])
    <2>1. sets[i] = x
      BY <1>1
    <2> QED
      BY <1>2, <2>1 DEF SetPlaceholders, SetBound
  <1> HIDE DEF f
  <1>5. \A i \in DOMAIN sets : f[i] = <<>>
    BY <1>4
  <1>6. Lays(f, n, 0)
    BY <1>1, <1>3, <1>5, QuietPlaces
  <1>7. SetsCarry(sets, ps, n, 0)
    BY <1>4, <1>6 DEF SetsCarry, f
  <1> QED
    BY <1>7 DEF sets, x

----------------------------------------------------------------------------
(* Tokens *)

LEMMA OneTokenCarries ==
  ASSUME NEW tok, NEW ps, NEW n \in Nat
  PROVE  /\ tok.t \notin {"cte", "write"} => Carries(<<tok>>, ps, n, 0)
         /\ \A k \in Nat : tok.t \in {"cte", "write"} /\ StmtCarries(tok.stmt, ps, n, k)
                             => Carries(<<tok>>, ps, n, k)
  <1> DEFINE toks == <<tok>>
             p == IF tok.t \in {"cte", "write"} THEN Placeholders(tok.stmt) ELSE <<>>
  <1>1. IsSeq(toks) /\ DOMAIN toks = {1} /\ toks[1] = tok
    BY TupleIsSeq
  <1>2. Printed(toks) = <<p>>
    <2>1. Printed(toks) = [i \in {1} |-> p]
      BY <1>1 DEF Printed
    <2> HIDE DEF p
    <2>2. [i \in {1} |-> p] = <<p>>
      OBVIOUS
    <2> QED
      BY <2>1, <2>2
  <1> HIDE DEF toks
  <1>3. ASSUME tok.t \notin {"cte", "write"} PROVE Carries(toks, ps, n, 0)
    <2>1. p = Consecutive(n, 0) /\ 0 \in Nat
      BY <1>3, RunTyped
    <2> HIDE DEF p
    <2>2. Lays(<<p>>, n, 0)
      BY <2>1, OnePlace
    <2>3. \A i \in DOMAIN toks : ~(toks[i].t \in {"cte", "write"})
      BY <1>1, <1>3
    <2> QED
      BY <1>1, <1>2, <2>2, <2>3 DEF Carries
  <1>4. ASSUME NEW k \in Nat, tok.t \in {"cte", "write"}, StmtCarries(tok.stmt, ps, n, k)
        PROVE  Carries(toks, ps, n, k)
    <2>1. p = Consecutive(n, k)
      BY <1>4 DEF StmtCarries
    <2> HIDE DEF p
    <2>2. Lays(<<p>>, n, k)
      BY <2>1, OnePlace
    <2>3. \A i \in DOMAIN toks : StmtBinds(ps, toks[i].stmt)
      BY <1>1, <1>4 DEF StmtCarries
    <2> QED
      BY <1>1, <1>2, <2>2, <2>3 DEF Carries
  <1> QED
    BY <1>3, <1>4 DEF toks

\* Tokens an action writes: one or two statements, each after a quiet token.
LEMMA CteCarries ==
  ASSUME NEW w, NEW a, NEW ps, NEW n \in Nat, NEW k \in Nat,
         w.t \notin {"cte", "write"}, a.t \in {"cte", "write"}, StmtCarries(a.stmt, ps, n, k)
  PROVE  Carries(<<w, a>>, ps, n, k)
  <1>1. 0 \in Nat /\ n + 0 = n /\ 0 + k = k
    OBVIOUS
  <1>2. Carries(<<w>>, ps, n, 0) /\ Carries(<<a>>, ps, n, k)
    BY OneTokenCarries
  <1>3. Carries(<<w>> \o <<a>>, ps, n, 0 + k)
    BY <1>1, <1>2, CarriesJoined
  <1>4. <<w, a>> = <<w>> \o <<a>>
    BY TuplesJoined
  <1> QED
    BY <1>1, <1>3, <1>4

LEMMA CtesCarry ==
  ASSUME NEW w, NEW a, NEW c, NEW b, NEW ps, NEW n \in Nat, NEW k \in Nat, NEW l \in Nat,
         w.t \notin {"cte", "write"}, a.t \in {"cte", "write"}, StmtCarries(a.stmt, ps, n, k),
         c.t \notin {"cte", "write"}, b.t \in {"cte", "write"}, StmtCarries(b.stmt, ps, n + k, l)
  PROVE  Carries(<<w, a, c, b>>, ps, n, k + l)
  <1>1. n + k \in Nat
    OBVIOUS
  <1>2. Carries(<<w, a>>, ps, n, k)
    BY CteCarries
  <1>3. Carries(<<c, b>>, ps, n + k, l)
    BY <1>1, CteCarries
  <1>4. Carries(<<w, a>> \o <<c, b>>, ps, n, k + l)
    BY <1>2, <1>3, CarriesJoined
  <1>5. <<w, a, c, b>> = <<w, a>> \o <<c, b>>
    OBVIOUS
  <1> QED
    BY <1>4, <1>5

LEMMA QuietTokensCarry ==
  ASSUME NEW a, NEW b, NEW ps, NEW n \in Nat, a.t \notin {"cte", "write"}, b.t \notin {"cte", "write"}
  PROVE  Carries(<<a, b>>, ps, n, 0)
  <1>1. 0 \in Nat /\ n + 0 = n /\ 0 + 0 = 0
    OBVIOUS
  <1>2. Carries(<<a>>, ps, n, 0) /\ Carries(<<b>>, ps, n, 0)
    BY OneTokenCarries
  <1>3. Carries(<<a>> \o <<b>>, ps, n, 0 + 0)
    BY <1>1, <1>2, CarriesJoined
  <1>4. <<a, b>> = <<a>> \o <<b>>
    BY TuplesJoined
  <1> QED
    BY <1>1, <1>3, <1>4

----------------------------------------------------------------------------
(* What is extracted from a request *)

LEMMA RelFieldsTyped ==
  ASSUME NEW t \in Type
  PROVE  IsSeq(RelFields(t))
  <1> DEFINE rels == RelsOf(t)
             kept == Kept(rels, {i \in DOMAIN rels : IsManyToOne(rels[i])})
             f == [i \in DOMAIN kept |-> RelField(kept[i])]
  <1>1. RelFields(t) = MapSeq(RelField, kept)
    BY Zenon DEF RelFields
  <1>2. MapSeq(RelField, kept) = f
    BY Zenon DEF MapSeq
  <1>3. rels \in Seq(Rel)
    BY ResourceAssumption DEF RelsOf
  <1> HIDE DEF rels
  <1>4. kept \in Seq(Rel)
    BY <1>3, KeptTyped
  <1>5. IsSeq(kept)
    BY <1>4, SeqIsSeq
  <1>6. FunctionOn(f, DOMAIN kept)
    BY DEF FunctionOn
  <1> HIDE DEF f, kept
  <1>7. IsSeq(f)
    BY <1>5, <1>6, MapIsSeq
  <1> QED
    BY <1>1, <1>2, <1>7

LEMMA SortFieldsTyped ==
  ASSUME NEW s, IsSeq(s)
  PROVE  IsSeq(MapSeq(SortField, s))
  <1> DEFINE f == [i \in DOMAIN s |-> SortField(s[i])]
  <1>1. MapSeq(SortField, s) = f
    BY Zenon DEF MapSeq
  <1>2. FunctionOn(f, DOMAIN s)
    BY DEF FunctionOn
  <1> HIDE DEF f
  <1>3. IsSeq(f)
    BY <1>2, MapIsSeq
  <1> QED
    BY <1>1, <1>3

LEMMA SortKeysTyped ==
  ASSUME IsRequest(req)
  PROVE  IsSeq(SortKeysForMain(req))
  <1>1. CASE <<>> \in SortChains(req)
    <2>1. <<>> \in DOMAIN BuildInclusionMap(req)
      BY <1>1 DEF BuildInclusionMap
    <2>2. IsSeq(BuildInclusionMap(req)[<<>>].sorts)
      BY <2>1, MapSortsTyped
    <2>3. IsSeq(MapSeq(SortField, BuildInclusionMap(req)[<<>>].sorts))
      BY <2>2, SortFieldsTyped
    <2> QED
      BY <1>1, <2>3 DEF SortKeysForMain
  <1>2. CASE <<>> \notin SortChains(req)
    <2>1. <<>> \in Seq({})
      OBVIOUS
    <2>2. IsSeq(<<>>)
      BY <2>1, SeqIsSeq
    <2> QED
      BY <1>2, <2>2 DEF SortKeysForMain
  <1> QED
    BY <1>1, <1>2

LEMMA RelationValued ==
  ASSUME NEW r, NEW data
  PROVE  \E v \in {"attr", "ref", "null"} :
           RelationshipValue(r, data).value = [v |-> v, of |-> RelationshipValue(r, data).col]
  <1> DEFINE v == IF data = "one" THEN "ref" ELSE "null"
  <1>1. v \in {"attr", "ref", "null"}
    OBVIOUS
  <1>2. RelationshipValue(r, data) = [col |-> Relation[r].key, value |-> [v |-> v, of |-> Relation[r].key]]
    BY DEF RelationshipValue, Value
  <1> HIDE DEF v
  <1>3. RelationshipValue(r, data).value = [v |-> v, of |-> RelationshipValue(r, data).col]
    BY <1>2
  <1> QED
    BY <1>1, <1>3

LEMMA ValuedJoined ==
  ASSUME NEW a, NEW b, Valued(a), Valued(b)
  PROVE  Valued(a \o b)
  <1> DEFINE c == a \o b
             Fits(x) == \E v \in {"attr", "ref", "null"} : x.value = [v |-> v, of |-> x.col]
  <1>1. IsSeq(a) /\ IsSeq(b)
    BY DEF Valued
  <1>2. /\ IsSeq(c)
        /\ Len(a) \in Nat /\ DOMAIN a = 1..Len(a)
        /\ Len(b) \in Nat /\ DOMAIN b = 1..Len(b)
        /\ DOMAIN c = 1..(Len(a) + Len(b))
        /\ \A i \in 1..Len(a) : c[i] = a[i]
        /\ \A i \in 1..Len(b) : c[Len(a) + i] = b[i]
    BY <1>1, ConcatIsSeq
  <1>3. /\ \A i \in DOMAIN a : Fits(a[i])
        /\ \A i \in DOMAIN b : Fits(b[i])
    BY DEF Valued
  <1> HIDE DEF c, Fits
  <1>4. ASSUME NEW i \in DOMAIN c PROVE Fits(c[i])
    <2>1. CASE i <= Len(a)
      <3>1. i \in DOMAIN a /\ c[i] = a[i]
        BY <1>2, <2>1
      <3> QED
        BY <1>3, <3>1
    <2>2. CASE ~(i <= Len(a))
      <3> DEFINE j == i - Len(a)
      <3>1. j \in DOMAIN b /\ Len(a) + j = i
        BY <1>2, <2>2
      <3> HIDE DEF j
      <3>2. c[i] = b[j]
        BY <1>2, <3>1
      <3> QED
        BY <1>3, <3>1, <3>2
    <2> QED
      BY <2>1, <2>2
  <1> QED
    BY <1>2, <1>4 DEF Valued, Fits, c

\* Whatever a body holds, every value is written in its own column.
LEMMA ExtractionValued ==
  ASSUME IsRequest(req), NEW t \in Type
  PROVE  /\ Valued(ExtractData(req.body, t).values)
         /\ IsSeq(ExtractData(req.body, t).fields)
  <1> DEFINE body == req.body
             attrs == Kept(body.attrs, {i \in DOMAIN body.attrs : ~body.attrs[i].absent})
             rels == RelsOf(t)
             given == Kept(rels, {i \in DOMAIN rels :
                                    IsManyToOne(rels[i]) /\ body.rels[rels[i]] \in {"one", "null"}})
             f == [i \in DOMAIN attrs |-> Value("attr", attrs[i].name)]
             g == [i \in DOMAIN given |-> RelationshipValue(given[i], body.rels[given[i]])]
  <1>1. AttributeValues(body.attrs) = f
    BY Zenon DEF AttributeValues, MapSeq
  <1>2. MapSeq(LAMBDA r : RelationshipValue(r, body.rels[r]), given) = g
    BY Zenon DEF MapSeq
  <1>3. ExtractData(body, t).values = AttributeValues(body.attrs)
                                        \o MapSeq(LAMBDA r : RelationshipValue(r, body.rels[r]), given)
    BY DEF ExtractData
  <1>4. ExtractData(body, t).fields = RelFields(t)
    BY DEF ExtractData
  <1>5. IsSeq(attrs)
    <2>1. body.attrs \in Seq([name : Ident, absent : BOOLEAN])
      BY DEF IsRequest
    <2> QED
      BY <2>1, KeptTyped, SeqIsSeq
  <1>6. IsSeq(given)
    <2>1. rels \in Seq(Rel)
      BY ResourceAssumption DEF RelsOf
    <2> QED
      BY <2>1, KeptTyped, SeqIsSeq
  <1> HIDE DEF attrs, given
  <1>7. Valued(f)
    <2>1. FunctionOn(f, DOMAIN attrs)
      BY DEF FunctionOn
    <2>2. ASSUME NEW i \in DOMAIN f
          PROVE  \E v \in {"attr", "ref", "null"} : f[i].value = [v |-> v, of |-> f[i].col]
      <3>1. f[i] = [col |-> attrs[i].name, value |-> [v |-> "attr", of |-> attrs[i].name]]
        BY DEF Value
      <3> HIDE DEF f
      <3>2. f[i].value = [v |-> "attr", of |-> f[i].col]
        BY <3>1
      <3> QED
        BY <3>2
    <2> HIDE DEF f
    <2>3. IsSeq(f)
      BY <1>5, <2>1, MapIsSeq
    <2> QED
      BY <2>2, <2>3 DEF Valued
  <1>8. Valued(g)
    <2>1. FunctionOn(g, DOMAIN given)
      BY DEF FunctionOn
    <2>2. ASSUME NEW i \in DOMAIN g
          PROVE  \E v \in {"attr", "ref", "null"} : g[i].value = [v |-> v, of |-> g[i].col]
      <3>1. g[i] = RelationshipValue(given[i], body.rels[given[i]])
        OBVIOUS
      <3> HIDE DEF g
      <3> QED
        BY <3>1, RelationValued
    <2> HIDE DEF g
    <2>3. IsSeq(g)
      BY <1>6, <2>1, MapIsSeq
    <2> QED
      BY <2>2, <2>3 DEF Valued
  <1> HIDE DEF f, g, body
  <1>9. ExtractData(body, t).values = f \o g
    BY <1>1, <1>2, <1>3
  <1>10. Valued(ExtractData(body, t).values)
    BY <1>7, <1>8, <1>9, ValuedJoined
  <1> QED
    BY <1>4, <1>10, RelFieldsTyped DEF body

LEMMA NoneIsSeq == IsSeq(<<>>) /\ DOMAIN <<>> = {} /\ Len(<<>>) = 0
  <1>1. <<>> \in Seq({}) /\ DOMAIN <<>> = {} /\ Len(<<>>) = 0
    OBVIOUS
  <1> QED
    BY <1>1, SeqIsSeq

LEMMA RelExtractionValued ==
  ASSUME NEW r, NEW data
  PROVE  Valued(ExtractRelData(r, data).values) /\ IsSeq(ExtractRelData(r, data).fields)
  <1> DEFINE x == RelationshipValue(r, data)
             d == ExtractRelData(r, data)
  <1>1. CASE data \in {"one", "null"}
    <2>1. d.values = <<x>> /\ d.fields = <<RelField(r)>>
      BY <1>1 DEF ExtractRelData
    <2>2. \E v \in {"attr", "ref", "null"} : x.value = [v |-> v, of |-> x.col]
      BY RelationValued
    <2> HIDE DEF x, d
    <2>3. IsSeq(<<x>>) /\ DOMAIN <<x>> = {1} /\ <<x>>[1] = x /\ IsSeq(<<RelField(r)>>)
      BY TupleIsSeq
    <2>4. Valued(<<x>>)
      BY <2>2, <2>3 DEF Valued
    <2> QED
      BY <2>1, <2>3, <2>4 DEF d
  <1>2. CASE data \notin {"one", "null"}
    <2>1. d.values = <<>> /\ d.fields = <<>>
      BY <1>2 DEF ExtractRelData
    <2>2. Valued(<<>>)
      BY NoneIsSeq DEF Valued
    <2> HIDE DEF d
    <2> QED
      BY <2>1, <2>2, NoneIsSeq DEF d
  <1> QED
    BY <1>1, <1>2

LEMMA ConcatLen ==
  ASSUME NEW a, NEW b, IsSeq(a), IsSeq(b)
  PROVE  /\ IsSeq(a \o b) /\ Len(a) \in Nat /\ Len(b) \in Nat
         /\ Len(a \o b) = Len(a) + Len(b)
  <1> DEFINE c == a \o b
             m == Len(a)
             n == Len(b)
  <1>1. IsSeq(c) /\ m \in Nat /\ n \in Nat /\ DOMAIN c = 1..(m + n)
    BY ConcatIsSeq
  <1> HIDE DEF c, m, n
  <1>2. Len(c) \in Nat /\ DOMAIN c = 1..Len(c)
    BY <1>1, LenProperties DEF IsSeq
  <1> QED
    BY <1>1, <1>2 DEF c, m, n

LEMMA NoneJoined ==
  ASSUME NEW s, IsSeq(s)
  PROVE  <<>> \o s = s /\ s \o <<>> = s
  BY ConcatEmptySeq DEF IsSeq

LEMMA SelectParamsTyped ==
  ASSUME NEW t, NEW relating, NEW fields \in Seq(Ident)
  PROVE  IsSeq(SelectParams(t, relating, fields)) /\ Len(SelectParams(t, relating, fields)) \in Nat
  <1> DEFINE head == HeadParams(t, relating)
             plain == PlainFields(fields, t)
             keys == [i \in DOMAIN plain |-> [v |-> "key", of |-> plain[i]]]
  <1>1. MapSeq(LAMBDA f : [v |-> "key", of |-> f], plain) = keys
    BY Zenon DEF MapSeq
  <1>2. SelectParams(t, relating, fields) = head \o MapSeq(LAMBDA f : [v |-> "key", of |-> f], plain)
    BY Zenon DEF SelectParams
  <1>3. IsSeq(head)
    <2>1. 0 \in Nat
      OBVIOUS
    <2> QED
      BY <2>1, HeadsCarry
  <1>4. IsSeq(keys)
    <2>1. plain \in Seq(Ident)
      BY KeptTyped DEF PlainFields
    <2>2. IsSeq(plain)
      BY <2>1, SeqIsSeq
    <2>3. FunctionOn(keys, DOMAIN plain)
      BY DEF FunctionOn
    <2> HIDE DEF plain, keys
    <2> QED
      BY <2>2, <2>3, MapIsSeq
  <1> HIDE DEF head, keys, plain
  <1>5. IsSeq(head \o keys) /\ Len(head \o keys) \in Nat
    BY <1>3, <1>4, ConcatLen
  <1> QED
    BY <1>1, <1>2, <1>5

----------------------------------------------------------------------------
(* The invariant *)

\* What is written agrees with what is pushed, and the sorting elements the
\* builder holds on to are sequences.
ParamsInv ==
  /\ IsSeq(params)
  /\ Carries(buf, params, 0, Len(params))
  /\ pc = "start" => params = <<>>
  /\ IsSeq(at.sorts)
  /\ \A c \in DOMAIN todo : IsSeq(todo[c].sorts)

LEMMA ParamsSuffice ==
  ASSUME ParamsInv
  PROVE  PlaceholdersInOrder /\ ParamsAligned
  <1>1. Len(params) \in Nat /\ DOMAIN params = 1..Len(params)
    BY LenProperties DEF ParamsInv, IsSeq
  <1>2. FlattenSeq(Printed(buf)) = Consecutive(0, Len(params))
    BY DEF ParamsInv, Carries, Lays
  <1>3. Consecutive(0, Len(params)) = [n \in DOMAIN params |-> n]
    BY <1>1 DEF Consecutive
  <1>4. PlaceholdersInOrder
    BY <1>2, <1>3 DEF PlaceholdersInOrder
  <1>5. ParamsAligned
    BY DEF ParamsInv, Carries, ParamsAligned, StmtPositions, Positions
  <1> QED
    BY <1>4, <1>5

LEMMA InitParams == Init => ParamsInv
  <1> SUFFICES ASSUME Init PROVE ParamsInv
    OBVIOUS
  <1>1. buf = <<>> /\ params = <<>> /\ DOMAIN todo = {} /\ at.sorts = <<>>
    BY EmptyMap DEF Init, Nowhere, Enter
  <1>2. Carries(<<>>, <<>>, 0, 0)
    <2>1. FunctionOn(Printed(<<>>), DOMAIN <<>>)
      BY DEF Printed, FunctionOn
    <2>2. 0 \in Nat /\ \A i \in DOMAIN <<>> : Printed(<<>>)[i] = <<>>
      BY NoneIsSeq
    <2>3. Lays(Printed(<<>>), 0, 0)
      BY <2>1, <2>2, NoneIsSeq, QuietPlaces
    <2> QED
      BY <2>3, NoneIsSeq DEF Carries
  <1> QED
    BY <1>1, <1>2, NoneIsSeq DEF ParamsInv

\* The step of the invariant that an action has to show.
Pushes(toks, vs) ==
  /\ buf' = buf \o toks /\ params' = params \o vs
  /\ IsSeq(vs)
  /\ Holds(params', Len(params), vs) => Carries(toks, params', Len(params), Len(vs))

LEMMA PushesKeep ==
  ASSUME ParamsInv, NEW toks, NEW vs, Pushes(toks, vs)
  PROVE  IsSeq(params') /\ Carries(buf', params', 0, Len(params'))
  <1>1. IsSeq(params) /\ Carries(buf, params, 0, Len(params)) /\ IsSeq(vs)
    BY DEF ParamsInv, Pushes
  <1>2. Holds(params \o vs, Len(params), vs)
    BY <1>1, HoldsPushed
  <1>3. Carries(toks, params \o vs, Len(params), Len(vs))
    BY <1>2 DEF Pushes
  <1>4. IsSeq(params \o vs) /\ Carries(buf \o toks, params \o vs, 0, Len(params \o vs))
    BY <1>1, <1>3, CarriesPushed
  <1> QED
    BY <1>4 DEF Pushes

\* A statement that reads: a filter, or none, after the select list.
LEMMA SelectCarries ==
  ASSUME NEW ps, NEW n \in Nat, NEW from, NEW tbl, NEW t, NEW relating, NEW fields \in Seq(Ident),
         NEW additional, IsSeq(additional), NEW joins, NEW where, NEW w, IsSeq(w),
         Holds(ps, n, SelectParams(t, relating, fields) \o w),
         Holds(ps, n + Len(SelectParams(t, relating, fields)), w)
           => WhereCarries(where, ps, n + Len(SelectParams(t, relating, fields)), Len(w))
  PROVE  StmtCarries(Stmt("select", from, SelectOuts(tbl, t, relating, additional, fields, n), joins, <<>>, where),
                     ps, n, Len(SelectParams(t, relating, fields) \o w))
  <1> DEFINE pushed == SelectParams(t, relating, fields)
             k == Len(pushed)
             m == Len(w)
             outs == SelectOuts(tbl, t, relating, additional, fields, n)
  <1>1. IsSeq(pushed)
    BY SelectParamsTyped
  <1>2. Holds(ps, n, pushed) /\ Holds(ps, n + k, w)
    <2> HIDE DEF pushed
    <2>1. Holds(ps, n, pushed \o w)
      BY DEF pushed
    <2> QED
      BY <1>1, <2>1, HoldsJoined
  <1>3. k \in Nat /\ m \in Nat /\ Len(pushed \o w) = k + m
    <2> HIDE DEF pushed
    <2> QED
      BY <1>1, ConcatLen
  <1>4. OutsCarry(outs, ps, n, k)
    BY <1>2, SelectOutsCarry
  <1>5. WhereCarries(where, ps, n + k, m)
    BY <1>2
  <1> HIDE DEF pushed, outs, k, m
  <1>6. n + k \in Nat /\ n + k + 0 = n + k /\ k + 0 = k /\ 0 \in Nat
    BY <1>3
  <1>7. SetsCarry(<<>>, ps, n + k, 0)
    BY <1>6, NoParts
  <1>8. WhereCarries(where, ps, n + k + 0, m)
    BY <1>5, <1>6
  <1>9. StmtCarries(Stmt("select", from, outs, joins, <<>>, where), ps, n, k + 0 + m)
    BY <1>3, <1>4, <1>6, <1>7, <1>8, StmtParts
  <1> QED
    BY <1>3, <1>6, <1>9 DEF pushed, outs

----------------------------------------------------------------------------
(* The steps *)

\* Where the generation begins nothing is pushed.
LEMMA PushesFirst ==
  ASSUME ParamsInv, pc = "start", NEW toks, NEW vs, IsSeq(vs),
         buf' = buf \o toks, params' = params \o vs,
         Holds(params', 0, vs) => Carries(toks, params', 0, Len(vs))
  PROVE  Pushes(toks, vs)
  <1>1. params = <<>>
    BY DEF ParamsInv
  <1>2. Len(params) = 0
    BY <1>1
  <1>3. Holds(params', Len(params), vs) => Carries(toks, params', Len(params), Len(vs))
    BY <1>2
  <1> QED
    BY <1>3 DEF Pushes

LEMMA SelectRelsFromParams ==
  ASSUME ParamsInv, NEW toks, NEW vs, Pushes(toks, vs), NEW data, NEW map, SelectRelsFrom(data, map),
         \A c \in DOMAIN map : IsSeq(map[c].sorts)
  PROVE  ParamsInv'
  <1>1. IsSeq(params') /\ Carries(buf', params', 0, Len(params'))
    BY PushesKeep
  <1>2. pc' = "rels" /\ at'.sorts = <<>> /\ todo' = map
    BY DEF SelectRelsFrom, Nowhere, Enter
  <1>3. IsSeq(at'.sorts)
    BY <1>2, NoneIsSeq
  <1> QED
    BY <1>1, <1>2, <1>3 DEF ParamsInv

LEMMA AdditionalTyped ==
  ASSUME IsRequest(req), NEW t \in Type, NEW s, IsSeq(s)
  PROVE  IsSeq(RelFields(t) \o s) /\ IsSeq(s \o SortKeysForMain(req)) /\ IsSeq(RelFields(t) \o SortKeysForMain(req))
  BY RelFieldsTyped, SortKeysTyped, ConcatLen

LEMMA QuietKinds ==
  /\ With.t \notin {"cte", "write"} /\ Comma.t \notin {"cte", "write"}
  /\ Union.t \notin {"cte", "write"} /\ Semicolon.t \notin {"cte", "write"}
  /\ \A tbl, order : Select(tbl, order).t \notin {"cte", "write"}
  /\ \A tbl, stmt : Cte(tbl, stmt).t \in {"cte", "write"} /\ Cte(tbl, stmt).stmt = stmt
  /\ \A stmt : Write(stmt).t \in {"cte", "write"} /\ Write(stmt).stmt = stmt
  BY DEF With, Comma, Union, Semicolon, Select, Cte, Write

LEMMA GenSelectParams ==
  ASSUME IInv, ParamsInv, GenSelect
  PROVE  ParamsInv'
  <1> DEFINE t == MainTable.type
             fields == JsonFields(req.sparse, t, TRUE)
             data == ToCte(t, "plain", "data", cte_index)
             pushed == SelectParams(t, <<>>, fields)
             joins == IF req.path.kind = "TypeIdRelated"
                      THEN GenInnerJoin(PathRel, PathTable, MainTable) ELSE <<>>
             where == IF req.path.kind = "Type" THEN <<>> ELSE ComparePkey(PathTable, Len(pushed))
             w == IF req.path.kind = "Type" THEN <<>> ELSE PkeyParams(req.path.type)
             adds == RelFields(t) \o SortKeysForMain(req)
             outs == SelectOuts(MainTable, t, <<>>, adds, fields, 0)
             stmt == Stmt("select", MainTable, outs, joins, <<>>, where)
             vs == pushed \o w
  <1>1. /\ pc = "start"
        /\ buf' = buf \o <<With, Cte(data, stmt)>>
        /\ params' = params \o pushed \o w
        /\ SelectRelsFrom(data, BuildInclusionMap(req))
    BY DEF GenSelect
  <1>2. IsRequest(req) /\ t \in Type /\ PathTable.type \in Type /\ PathTable.type = req.path.type
    BY RequestTyped DEF IInv, PathTable, BaseTable
  <1>3. fields \in Seq(Ident) /\ IsSeq(adds)
    BY <1>2, FieldsTyped, AdditionalTyped, NoneIsSeq
  <1> HIDE DEF fields, adds, joins, data
  <1>4. IsSeq(pushed) /\ Len(pushed) \in Nat /\ 0 + Len(pushed) = Len(pushed)
    BY <1>3, SelectParamsTyped
  <1>5. /\ IsSeq(w)
        /\ Holds(params', 0 + Len(pushed), w) => WhereCarries(where, params', 0 + Len(pushed), Len(w))
    <2>1. CASE req.path.kind = "Type"
      <3>1. w = <<>> /\ where = <<>>
        BY <2>1
      <3> HIDE DEF w, where, pushed
      <3>2. WhereCarries(<<>>, params', Len(pushed), 0)
        BY <1>4, NoParts
      <3> QED
        BY <1>4, <3>1, <3>2, NoneIsSeq
    <2>2. CASE req.path.kind # "Type"
      <3>1. w = PkeyParams(PathTable.type) /\ where = ComparePkey(PathTable, Len(pushed))
        BY <1>2, <2>2
      <3> HIDE DEF w, where, pushed
      <3> QED
        BY <1>2, <1>4, <3>1, KeyWhere
    <2> QED
      BY <2>1, <2>2
  <1> HIDE DEF w, where
  <1>6. ASSUME Holds(params', 0, vs) PROVE Carries(<<With, Cte(data, stmt)>>, params', 0, Len(vs))
    <2>1. 0 \in Nat
      OBVIOUS
    <2>2. StmtCarries(stmt, params', 0, Len(vs))
      BY <1>3, <1>5, <1>6, <2>1, SelectCarries
    <2>3. Len(vs) \in Nat
      <3> HIDE DEF pushed
      <3>1. Len(vs) = Len(pushed) + Len(w) /\ Len(pushed) \in Nat /\ Len(w) \in Nat
        BY <1>4, <1>5, ConcatLen
      <3> QED
        BY <3>1
    <2> HIDE DEF stmt, vs
    <2> QED
      BY <2>1, <2>2, <2>3, QuietKinds, CteCarries
  <1> HIDE DEF stmt, pushed
  <1>7. IsSeq(vs) /\ params' = params \o vs
    <2>1. params = <<>>
      BY <1>1 DEF ParamsInv
    <2>2. IsSeq(vs)
      BY <1>4, <1>5, ConcatLen
    <2>3. params \o pushed = pushed /\ params \o vs = vs
      BY <1>4, <2>1, <2>2, NoneJoined
    <2> QED
      BY <1>1, <2>2, <2>3
  <1> HIDE DEF vs
  <1>8. Pushes(<<With, Cte(data, stmt)>>, vs)
    BY <1>1, <1>6, <1>7, PushesFirst
  <1>9. \A c \in DOMAIN BuildInclusionMap(req) : IsSeq(BuildInclusionMap(req)[c].sorts)
    BY <1>2, MapSortsTyped
  <1> QED
    BY <1>1, <1>8, <1>9, SelectRelsFromParams

LEMMA ConcatAssoc ==
  ASSUME NEW a, NEW b, NEW c, IsSeq(a), IsSeq(b), IsSeq(c)
  PROVE  (a \o b) \o c = a \o (b \o c)
  <1> DEFINE S == ToSet(a) \cup ToSet(b) \cup ToSet(c)
  <1>1. a \in Seq(S) /\ b \in Seq(S) /\ c \in Seq(S)
    BY SeqMonotonic DEF IsSeq
  <1> HIDE DEF S
  <1> QED
    BY <1>1, ConcatAssociative

LEMMA GenSelectRelationshipsParams ==
  ASSUME IInv, ParamsInv, GenSelectRelationships
  PROVE  ParamsInv'
  <1> DEFINE t == MainTable.type
             u == PathTable.type
             data == ToCte(t, "plain", "data", cte_index)
             owner == ToCte(u, "rel", "data", cte_index + 1)
             relating == <<[tbl |-> PathTable, chain |-> req.path.rels]>>
             pushed == SelectParams(t, relating, <<>>)
             key == PkeyParams(u)
             n == Len(pushed) + Len(PrimaryKey(u))
             ownerPushed == SelectParams(u, <<>>, <<>>)
             adds == RelFields(t) \o SortKeysForMain(req)
             ownerAdds == RelFields(u)
             joins == GenInnerJoin(PathRel, PathTable, MainTable)
             where == ComparePkey(PathTable, Len(pushed))
             ownerWhere == ComparePkey(PathTable, n + Len(ownerPushed))
             outs == SelectOuts(MainTable, t, relating, adds, <<>>, 0)
             ownerOuts == SelectOuts(PathTable, u, <<>>, ownerAdds, <<>>, n)
             a == Stmt("select", MainTable, outs, joins, <<>>, where)
             b == Stmt("select", PathTable, ownerOuts, <<>>, <<>>, ownerWhere)
             toks == <<With, Cte(data, a), Comma, Cte(owner, b)>>
             vs == pushed \o key
             us == ownerPushed \o key
  <1>1. /\ pc = "start"
        /\ buf' = buf \o toks
        /\ params' = params \o pushed \o key \o ownerPushed \o key
        /\ SelectRelsFrom(data, Unwanted(BuildInclusionMap(req)))
    BY DEF GenSelectRelationships
  <1>2. IsRequest(req) /\ t \in Type /\ u \in Type
    BY RequestTyped DEF IInv
  <1>3. <<>> \in Seq(Ident) /\ IsSeq(adds) /\ IsSeq(ownerAdds)
    BY <1>2, AdditionalTyped, RelFieldsTyped, NoneIsSeq
  <1> HIDE DEF adds, ownerAdds, joins, data, owner, relating
  <1>4. /\ IsSeq(pushed) /\ Len(pushed) \in Nat /\ 0 + Len(pushed) = Len(pushed)
        /\ IsSeq(ownerPushed) /\ Len(ownerPushed) \in Nat
    <2>1. IsSeq(pushed) /\ Len(pushed) \in Nat
      BY <1>3, SelectParamsTyped
    <2>2. IsSeq(ownerPushed) /\ Len(ownerPushed) \in Nat
      BY <1>3, SelectParamsTyped
    <2> HIDE DEF pushed, ownerPushed
    <2> QED
      BY <2>1, <2>2
  <1> HIDE DEF pushed, ownerPushed
  <1>5. /\ IsSeq(key) /\ Len(key) \in Nat /\ Len(key) = Len(PrimaryKey(u))
        /\ n \in Nat /\ n + Len(ownerPushed) \in Nat
    <2>1. IsSeq(key) /\ Len(key) \in Nat /\ Len(key) = Len(PrimaryKey(u))
      BY <1>2, KeyWhere
    <2> HIDE DEF key
    <2> QED
      BY <1>4, <2>1
  <1>6. /\ IsSeq(vs) /\ IsSeq(us) /\ Len(vs) \in Nat /\ Len(us) \in Nat
        /\ n = Len(vs) /\ 0 + Len(vs) = Len(vs)
    <2> HIDE DEF key
    <2>1. /\ IsSeq(vs) /\ Len(vs) = Len(pushed) + Len(key)
          /\ IsSeq(us) /\ Len(us) = Len(ownerPushed) + Len(key)
      BY <1>4, <1>5, ConcatLen
    <2> QED
      BY <1>4, <1>5, <2>1
  <1>7. /\ Holds(params', 0 + Len(pushed), key) => WhereCarries(where, params', 0 + Len(pushed), Len(key))
        /\ Holds(params', n + Len(ownerPushed), key)
             => WhereCarries(ownerWhere, params', n + Len(ownerPushed), Len(key))
    <2>1. 0 + Len(pushed) \in Nat
      BY <1>4
    <2> HIDE DEF n
    <2> QED
      BY <1>2, <1>4, <1>5, <2>1, KeyWhere
  <1> HIDE DEF where, ownerWhere, key, n
  <1>8. ASSUME Holds(params', 0, vs \o us) PROVE Carries(toks, params', 0, Len(vs \o us))
    <2>1. 0 \in Nat
      OBVIOUS
    <2>2. Holds(params', 0, vs) /\ Holds(params', n, us)
      <3> HIDE DEF vs, us
      <3>1. Holds(params', 0, vs) /\ Holds(params', 0 + Len(vs), us)
        BY <1>6, <1>8, <2>1, HoldsJoined
      <3> QED
        BY <1>6, <3>1
    <2>3. StmtCarries(a, params', 0, Len(vs))
      BY <1>3, <1>5, <1>7, <2>1, <2>2, SelectCarries DEF pushed
    <2>4. StmtCarries(b, params', n, Len(us))
      BY <1>3, <1>5, <1>7, <2>2, SelectCarries DEF ownerPushed
    <2> HIDE DEF a, b, vs, us
    <2>5. StmtCarries(b, params', 0 + Len(vs), Len(us))
      BY <1>6, <2>4
    <2>6. Carries(toks, params', 0, Len(vs) + Len(us))
      <3> DEFINE ca == Cte(data, a)
                 cb == Cte(owner, b)
      <3>1. /\ With.t \notin {"cte", "write"} /\ Comma.t \notin {"cte", "write"}
            /\ ca.t \in {"cte", "write"} /\ ca.stmt = a
            /\ cb.t \in {"cte", "write"} /\ cb.stmt = b
        BY QuietKinds
      <3> HIDE DEF ca, cb
      <3>2. StmtCarries(ca.stmt, params', 0, Len(vs)) /\ StmtCarries(cb.stmt, params', 0 + Len(vs), Len(us))
        BY <2>3, <2>5, <3>1
      <3>3. Carries(<<With, ca, Comma, cb>>, params', 0, Len(vs) + Len(us))
        BY <1>6, <2>1, <3>1, <3>2, CtesCarry
      <3> QED
        BY <3>3 DEF ca, cb
    <2>7. Len(vs \o us) = Len(vs) + Len(us)
      BY <1>6, ConcatLen
    <2> QED
      BY <2>6, <2>7
  <1> HIDE DEF a, b, toks
  <1>9. IsSeq(vs \o us) /\ params' = params \o (vs \o us)
    <2>1. params = <<>>
      BY <1>1 DEF ParamsInv
    <2>2. params' = vs \o ownerPushed \o key
      <3>1. params \o pushed = pushed
        BY <1>4, <2>1, NoneJoined
      <3> QED
        BY <1>1, <3>1
    <2>3. vs \o ownerPushed \o key = vs \o us
      <3>1. IsSeq(vs) /\ IsSeq(ownerPushed) /\ IsSeq(key)
        BY <1>4, <1>5, <1>6
      <3> HIDE DEF vs
      <3> QED
        BY <3>1, ConcatAssoc
    <2> HIDE DEF vs, us
    <2>4. IsSeq(vs \o us)
      BY <1>6, ConcatLen
    <2> QED
      BY <2>1, <2>2, <2>3, <2>4, NoneJoined
  <1> HIDE DEF vs, us
  <1>10. Pushes(toks, vs \o us)
    BY <1>1, <1>8, <1>9, PushesFirst
  <1>11. \A c \in DOMAIN Unwanted(BuildInclusionMap(req)) : IsSeq(Unwanted(BuildInclusionMap(req))[c].sorts)
    <2>1. DOMAIN Unwanted(BuildInclusionMap(req)) = DOMAIN BuildInclusionMap(req)
      BY DEF Unwanted
    <2> QED
      BY <1>2, <2>1, MapSortsTyped
  <1> QED
    BY <1>1, <1>10, <1>11, SelectRelsFromParams

\* The two CTEs of a write, whatever the first one does with its values.
LEMMA WriteThenSelectParams ==
  ASSUME ParamsInv, IsRequest(req), pc = "start", NEW t \in Type, NEW suffix, NEW stmt, NEW written,
         NEW additional, NEW map, WriteThenSelect(t, suffix, stmt, written, additional, map),
         IsSeq(written), IsSeq(additional),
         Holds(params', 0, written) => StmtCarries(stmt, params', 0, Len(written)),
         \A c \in DOMAIN map : IsSeq(map[c].sorts)
  PROVE  ParamsInv'
  <1> DEFINE row == ToCte(t, "plain", suffix, cte_index)
             data == ToCte(t, "plain", "data", cte_index + 1)
             fields == JsonFields(req.sparse, t, TRUE)
             pushed == SelectParams(t, <<>>, fields)
             outs == SelectOuts(row, t, <<>>, additional, fields, Len(written))
             b == Stmt("select", row, outs, <<>>, <<>>, <<>>)
             toks == <<With, Cte(row, stmt), Comma, Cte(data, b)>>
             vs == written \o pushed
  <1>1. buf' = buf \o toks /\ params' = params \o written \o pushed /\ SelectRelsFrom(data, map)
    BY DEF WriteThenSelect
  <1>2. fields \in Seq(Ident)
    BY FieldsTyped
  <1> HIDE DEF fields, row, data
  <1>3. IsSeq(pushed)
    BY <1>2, SelectParamsTyped
  <1>4. pushed \o <<>> = pushed
    BY <1>3, NoneJoined
  <1>5. Len(written) \in Nat /\ Len(pushed) \in Nat /\ IsSeq(vs) /\ Len(vs) = Len(written) + Len(pushed)
    <2> HIDE DEF pushed
    <2> QED
      BY <1>3, ConcatLen
  <1>6. ASSUME Holds(params', 0, vs) PROVE Carries(toks, params', 0, Len(vs))
    <2>1. 0 \in Nat /\ 0 + Len(written) = Len(written)
      BY <1>5
    <2>2. Holds(params', 0, written) /\ Holds(params', Len(written), pushed)
      <3> HIDE DEF pushed
      <3>1. Holds(params', 0, written) /\ Holds(params', 0 + Len(written), pushed)
        BY <1>3, <1>6, <2>1, HoldsJoined
      <3> QED
        BY <2>1, <3>1
    <2>3. StmtCarries(b, params', Len(written), Len(pushed))
      <3>1. Holds(params', Len(written), SelectParams(t, <<>>, fields) \o <<>>)
        BY <1>4, <2>2
      <3>2. WhereCarries(<<>>, params', Len(written) + Len(SelectParams(t, <<>>, fields)), Len(<<>>))
        <4>1. Len(written) + Len(pushed) \in Nat
          BY <1>5
        <4> HIDE DEF pushed
        <4>2. WhereCarries(<<>>, params', Len(written) + Len(pushed), 0)
          BY <4>1, NoParts
        <4> QED
          BY <4>2, NoneIsSeq DEF pushed
      <3>3. StmtCarries(b, params', Len(written), Len(SelectParams(t, <<>>, fields) \o <<>>))
        BY <1>2, <1>5, <3>1, <3>2, NoneIsSeq, SelectCarries
      <3> QED
        BY <1>4, <3>3
    <2> HIDE DEF b, pushed
    <2>4. StmtCarries(stmt, params', 0, Len(written)) /\ StmtCarries(b, params', 0 + Len(written), Len(pushed))
      BY <2>1, <2>2, <2>3
    <2>5. Carries(toks, params', 0, Len(written) + Len(pushed))
      <3> DEFINE ca == Cte(row, stmt)
                 cb == Cte(data, b)
      <3>1. /\ With.t \notin {"cte", "write"} /\ Comma.t \notin {"cte", "write"}
            /\ ca.t \in {"cte", "write"} /\ ca.stmt = stmt
            /\ cb.t \in {"cte", "write"} /\ cb.stmt = b
        BY QuietKinds
      <3> HIDE DEF ca, cb
      <3>2. StmtCarries(ca.stmt, params', 0, Len(written))
            /\ StmtCarries(cb.stmt, params', 0 + Len(written), Len(pushed))
        BY <2>4, <3>1
      <3>3. Carries(<<With, ca, Comma, cb>>, params', 0, Len(written) + Len(pushed))
        BY <1>5, <2>1, <3>1, <3>2, CtesCarry
      <3> QED
        BY <3>3 DEF ca, cb
    <2> QED
      BY <1>5, <2>5
  <1> HIDE DEF b, pushed, toks
  <1>7. params' = params \o vs
    <2>1. params = <<>>
      BY DEF ParamsInv
    <2>2. params \o written = written /\ params \o vs = vs
      BY <1>5, <2>1, NoneJoined
    <2> QED
      BY <1>1, <2>2
  <1> HIDE DEF vs
  <1>8. Pushes(toks, vs)
    BY <1>1, <1>5, <1>6, <1>7, PushesFirst
  <1> QED
    BY <1>1, <1>8, SelectRelsFromParams

\* An UPDATE takes the values and then the id of its row.
LEMMA UpdateCarries ==
  ASSUME NEW ps, NEW tbl, tbl.type \in Type, NEW values, Valued(values)
  PROVE  LET written == ValueParams(values) \o PkeyParams(tbl.type) IN
         /\ IsSeq(written)
         /\ Holds(ps, 0, written) => StmtCarries(UpdateStmt(tbl, values), ps, 0, Len(written))
  <1> DEFINE a == ValueParams(values)
             b == PkeyParams(tbl.type)
             sets == SetList(values, 0)
             where == ComparePkey(tbl, Len(values))
             k == Len(a)
             l == Len(b)
  <1>1. /\ IsSeq(a) /\ k \in Nat /\ k = Len(values)
        /\ Holds(ps, 0, a) => SetsCarry(sets, ps, 0, k)
    BY ValueSets
  <1>2. /\ IsSeq(b) /\ l \in Nat
        /\ Holds(ps, k, b) => WhereCarries(ComparePkey(tbl, k), ps, k, l)
    BY <1>1, KeyWhere
  <1>3. UpdateStmt(tbl, values) = Stmt("update", tbl, <<>>, <<>>, sets, where)
    BY DEF UpdateStmt
  <1>4. where = ComparePkey(tbl, k)
    BY <1>1
  <1> HIDE DEF a, b, sets, where
  <1>5. IsSeq(a \o b) /\ Len(a \o b) = k + l
    BY <1>1, <1>2, ConcatLen
  <1>6. ASSUME Holds(ps, 0, a \o b)
        PROVE  StmtCarries(Stmt("update", tbl, <<>>, <<>>, sets, where), ps, 0, k + l)
    <2>1. 0 \in Nat /\ 0 + k = k /\ 0 + 0 = 0 /\ 0 + 0 + k = k /\ 0 + k + l = k + l
      BY <1>1, <1>2
    <2>2. Holds(ps, 0, a) /\ Holds(ps, 0 + Len(a), b)
      BY <1>1, <1>2, <1>6, <2>1, HoldsJoined
    <2> HIDE DEF k, l
    <2>3. Holds(ps, k, b)
      BY <2>1, <2>2 DEF k
    <2>4. SetsCarry(sets, ps, 0 + 0, k)
      BY <1>1, <2>1, <2>2
    <2>5. WhereCarries(where, ps, 0 + 0 + k, l)
      BY <1>2, <1>4, <2>1, <2>3
    <2>6. OutsCarry(<<>>, ps, 0, 0)
      BY <2>1, NoParts
    <2>7. StmtCarries(Stmt("update", tbl, <<>>, <<>>, sets, where), ps, 0, 0 + k + l)
      BY <1>1, <1>2, <2>1, <2>4, <2>5, <2>6, StmtParts
    <2> QED
      BY <2>1, <2>7
  <1> HIDE DEF k, l
  <1>7. IsSeq(a \o b)
        /\ (Holds(ps, 0, a \o b) => StmtCarries(UpdateStmt(tbl, values), ps, 0, Len(a \o b)))
    BY <1>3, <1>5, <1>6
  <1> QED
    BY <1>7 DEF a, b

LEMMA GenInsertParams ==
  ASSUME IInv, ParamsInv, GenInsert
  PROVE  ParamsInv'
  <1> DEFINE t == MainTable.type
             data == ExtractData(req.body, t)
             values == data.values
             written == ValueParams(values)
             sets == SetList(values, 0)
             stmt == Stmt("insert", MainTable, <<>>, <<>>, sets, <<>>)
             adds == data.fields \o SortKeysForMain(req)
             map == BuildInclusionMap(req)
  <1>1. pc = "start" /\ WriteThenSelect(t, "insert", stmt, written, adds, map)
    BY DEF GenInsert
  <1>2. IsRequest(req) /\ t \in Type
    BY RequestTyped DEF IInv
  <1>3. Valued(values) /\ IsSeq(adds)
    <2>1. Valued(values) /\ IsSeq(data.fields)
      BY <1>2, ExtractionValued
    <2> QED
      BY <1>2, <2>1, AdditionalTyped
  <1> HIDE DEF values, adds
  <1>4. /\ IsSeq(written) /\ Len(written) \in Nat
        /\ Holds(params', 0, written) => SetsCarry(sets, params', 0, Len(written))
    BY <1>3, ValueSets
  <1> HIDE DEF written, sets
  <1>5. ASSUME Holds(params', 0, written) PROVE StmtCarries(stmt, params', 0, Len(written))
    <2> DEFINE k == Len(written)
    <2>1. 0 \in Nat /\ k \in Nat /\ 0 + 0 = 0 /\ 0 + 0 + k = k /\ 0 + k + 0 = k
      BY <1>4
    <2>2. OutsCarry(<<>>, params', 0, 0) /\ SetsCarry(sets, params', 0 + 0, k)
      BY <1>4, <1>5, <2>1, NoParts
    <2> HIDE DEF k
    <2>3. WhereCarries(<<>>, params', 0 + 0 + k, 0)
      BY <2>1, NoParts
    <2>4. StmtCarries(Stmt("insert", MainTable, <<>>, <<>>, sets, <<>>), params', 0, 0 + k + 0)
      BY <2>1, <2>2, <2>3, StmtParts
    <2> QED
      BY <2>1, <2>4 DEF k
  <1>6. \A c \in DOMAIN map : IsSeq(map[c].sorts)
    BY <1>2, MapSortsTyped
  <1> HIDE DEF stmt, map
  <1> QED
    BY <1>1, <1>2, <1>3, <1>4, <1>5, <1>6, WriteThenSelectParams

LEMMA GenUpdateMainParams ==
  ASSUME IInv, ParamsInv, GenUpdateMain
  PROVE  ParamsInv'
  <1> DEFINE t == MainTable.type
             data == ExtractData(req.body, t)
             values == data.values
             key == PkeyParams(t)
             written == ValueParams(values) \o key
             where == ComparePkey(MainTable, 0)
             star == Stmt("star", MainTable, <<>>, <<>>, <<>>, where)
             stmt == IF values = <<>> THEN star ELSE UpdateStmt(MainTable, values)
             adds == data.fields \o SortKeysForMain(req)
             map == BuildInclusionMap(req)
  <1>1. pc = "start" /\ WriteThenSelect(t, "update", stmt, written, adds, map)
    BY DEF GenUpdateMain
  <1>2. IsRequest(req) /\ t \in Type
    BY RequestTyped DEF IInv
  <1>3. Valued(values) /\ IsSeq(adds)
    <2>1. Valued(values) /\ IsSeq(data.fields)
      BY <1>2, ExtractionValued
    <2> QED
      BY <1>2, <2>1, AdditionalTyped
  <1> HIDE DEF values, adds
  <1>4. /\ IsSeq(written)
        /\ Holds(params', 0, written) => StmtCarries(UpdateStmt(MainTable, values), params', 0, Len(written))
    BY <1>2, <1>3, UpdateCarries
  <1>5. ASSUME values = <<>>, Holds(params', 0, written)
        PROVE  StmtCarries(star, params', 0, Len(written))
    <2> DEFINE k == Len(key)
    <2>1. 0 \in Nat /\ 0 + 0 = 0 /\ 0 + 0 + 0 = 0
      OBVIOUS
    <2>2. /\ IsSeq(key) /\ k \in Nat
          /\ Holds(params', 0, key) => WhereCarries(where, params', 0, k)
      BY <1>2, <2>1, KeyWhere
    <2> HIDE DEF key, where
    <2>3. written = key
      <3>1. ValueParams(values) = [i \in DOMAIN values |-> values[i].value]
        BY Zenon DEF ValueParams, MapSeq
      <3>2. ValueParams(values) = <<>>
        BY <1>5, <3>1
      <3> QED
        BY <2>2, <3>2, NoneJoined
    <2>4. WhereCarries(where, params', 0 + 0 + 0, k)
      BY <1>5, <2>1, <2>2, <2>3
    <2>5. OutsCarry(<<>>, params', 0, 0) /\ SetsCarry(<<>>, params', 0 + 0, 0)
      BY <2>1, NoParts
    <2> HIDE DEF k, written
    <2>6. StmtCarries(Stmt("star", MainTable, <<>>, <<>>, <<>>, where), params', 0, 0 + 0 + k)
      BY <2>1, <2>2, <2>4, <2>5, StmtParts
    <2>7. 0 + 0 + k = k
      BY <2>2
    <2> QED
      BY <2>3, <2>6, <2>7 DEF k
  <1> HIDE DEF written, star
  <1>6. Holds(params', 0, written) => StmtCarries(stmt, params', 0, Len(written))
    BY <1>4, <1>5
  <1>7. \A c \in DOMAIN map : IsSeq(map[c].sorts)
    BY <1>2, MapSortsTyped
  <1> HIDE DEF stmt, map
  <1> QED
    BY <1>1, <1>2, <1>3, <1>4, <1>6, <1>7, WriteThenSelectParams

LEMMA GenUpdateRelParams ==
  ASSUME IInv, ParamsInv, GenUpdateRel
  PROVE  ParamsInv'
  <1> DEFINE t == PathTable.type
             data == ExtractRelData(PathRel, req.body.data)
             values == data.values
             written == ValueParams(values) \o PkeyParams(t)
             stmt == UpdateStmt(PathTable, values)
             adds == data.fields
             entry == [resp |-> "Id", sorts |-> Reverse(SortsOf(req, <<>>))]
             map == [c \in {req.path.rels} |-> entry]
  <1>1. pc = "start" /\ WriteThenSelect(t, "update", stmt, written, adds, map)
    BY DEF GenUpdateRel
  <1>2. IsRequest(req) /\ t \in Type
    BY RequestTyped DEF IInv
  <1>3. Valued(values) /\ IsSeq(adds)
    BY RelExtractionValued
  <1> HIDE DEF values, adds
  <1>4. /\ IsSeq(written)
        /\ Holds(params', 0, written) => StmtCarries(stmt, params', 0, Len(written))
    BY <1>2, <1>3, UpdateCarries
  <1>5. \A c \in DOMAIN map : IsSeq(map[c].sorts)
    BY <1>2, SortsTyped
  <1> HIDE DEF stmt, map, written
  <1> QED
    BY <1>1, <1>2, <1>3, <1>4, <1>5, WriteThenSelectParams

\* A deletion is one statement.
LEMMA WriteOnlyParams ==
  ASSUME ParamsInv, pc = "start", NEW stmt, WriteOnly(stmt),
         LET vs == PkeyParams(stmt.from.type) IN
         /\ IsSeq(vs) /\ Len(vs) \in Nat
         /\ Holds(params', 0, vs) => StmtCarries(stmt, params', 0, Len(vs))
  PROVE  ParamsInv'
  <1> DEFINE vs == PkeyParams(stmt.from.type)
             tok == Write(stmt)
             toks == <<tok>>
  <1>1. buf' = buf \o toks /\ params' = params \o vs /\ pc' = "finish" /\ UNCHANGED <<at, todo>>
    BY DEF WriteOnly
  <1>2. tok.t \in {"cte", "write"} /\ tok.stmt = stmt /\ 0 \in Nat
    BY QuietKinds
  <1>3. IsSeq(vs) /\ Len(vs) \in Nat
        /\ (Holds(params', 0, vs) => StmtCarries(stmt, params', 0, Len(vs)))
    OBVIOUS
  <1> HIDE DEF vs, tok
  <1>4. Holds(params', 0, vs) => Carries(toks, params', 0, Len(vs))
    BY <1>2, <1>3, OneTokenCarries
  <1> HIDE DEF toks
  <1>5. Pushes(toks, vs)
    BY <1>1, <1>3, <1>4, PushesFirst
  <1>6. IsSeq(params') /\ Carries(buf', params', 0, Len(params'))
    BY <1>5, PushesKeep
  <1> QED
    BY <1>1, <1>6 DEF ParamsInv

\* A statement that only filters.
LEMMA FilterCarries ==
  ASSUME NEW ps, NEW q, NEW tbl, NEW sets, NEW where, NEW k \in Nat,
         SetsCarry(sets, ps, 0, 0), WhereCarries(where, ps, 0, k)
  PROVE  StmtCarries(Stmt(q, tbl, <<>>, <<>>, sets, where), ps, 0, k)
  <1>1. 0 \in Nat /\ 0 + 0 = 0 /\ 0 + 0 + 0 = 0 /\ 0 + 0 + k = k
    OBVIOUS
  <1>2. OutsCarry(<<>>, ps, 0, 0)
    BY <1>1, NoParts
  <1>3. SetsCarry(sets, ps, 0 + 0, 0) /\ WhereCarries(where, ps, 0 + 0 + 0, k)
    BY <1>1
  <1>4. StmtCarries(Stmt(q, tbl, <<>>, <<>>, sets, where), ps, 0, 0 + 0 + k)
    BY <1>1, <1>2, <1>3, StmtParts
  <1> QED
    BY <1>1, <1>4

LEMMA GenDeleteParams ==
  ASSUME IInv, ParamsInv, GenDeleteNormal \/ GenDeleteRel
  PROVE  ParamsInv'
  <1>1. IsRequest(req) /\ 0 \in Nat
    BY DEF IInv
  <1>2. ASSUME NEW q, NEW tbl, tbl.type \in Type, NEW sets, SetsCarry(sets, params', 0, 0),
               pc = "start", WriteOnly(Stmt(q, tbl, <<>>, <<>>, sets, ComparePkey(tbl, 0)))
        PROVE  ParamsInv'
    <2> DEFINE where == ComparePkey(tbl, 0)
               stmt == Stmt(q, tbl, <<>>, <<>>, sets, where)
               vs == PkeyParams(tbl.type)
    <2>1. stmt.from = tbl /\ WriteOnly(stmt)
      BY <1>2 DEF Stmt
    <2>2. /\ IsSeq(vs) /\ Len(vs) \in Nat
          /\ Holds(params', 0, vs) => WhereCarries(where, params', 0, Len(vs))
      BY <1>1, <1>2, KeyWhere
    <2> HIDE DEF where, vs
    <2>3. Holds(params', 0, vs) => StmtCarries(stmt, params', 0, Len(vs))
      BY <1>2, <2>2, FilterCarries
    <2> HIDE DEF stmt
    <2>4. /\ IsSeq(PkeyParams(stmt.from.type)) /\ Len(PkeyParams(stmt.from.type)) \in Nat
          /\ Holds(params', 0, PkeyParams(stmt.from.type))
               => StmtCarries(stmt, params', 0, Len(PkeyParams(stmt.from.type)))
      BY <2>1, <2>2, <2>3 DEF vs
    <2> QED
      BY <1>2, <2>1, <2>4, WriteOnlyParams
  <1>3. CASE GenDeleteNormal
    <2>1. pc = "start" /\ WriteOnly(Stmt("delete", PathTable, <<>>, <<>>, <<>>, ComparePkey(PathTable, 0)))
      BY <1>3 DEF GenDeleteNormal
    <2>2. PathTable.type \in Type /\ SetsCarry(<<>>, params', 0, 0)
      BY <1>1, RequestTyped, NoParts
    <2> QED
      BY <1>2, <2>1, <2>2
  <1>4. CASE GenDeleteRel
    <2>1. PICK r \in AliasesTo(req.path.type, MainType(req.path)) :
            WriteOnly(Stmt("update", BaseTable(ManyResource(r)), <<>>, <<>>,
                           <<[col |-> Relation[r].key, param |-> 0]>>,
                           ComparePkey(BaseTable(ManyResource(r)), 0)))
      BY <1>4 DEF GenDeleteRel
    <2> DEFINE many == BaseTable(ManyResource(r))
               sets == <<[col |-> Relation[r].key, param |-> 0]>>
    <2>2. pc = "start" /\ WriteOnly(Stmt("update", many, <<>>, <<>>, sets, ComparePkey(many, 0)))
      BY <1>4, <2>1 DEF GenDeleteRel
    <2>3. r \in Rel
      BY DEF AliasesTo
    <2>4. many.type \in Type
      BY <2>3, RelationAssumption DEF ManyResource, RelatedType, BaseTable
    <2>5. SetsCarry(sets, params', 0, 0)
      BY <1>1, NullSet
    <2> HIDE DEF many, sets
    <2> QED
      BY <1>2, <2>2, <2>4, <2>5
  <1> QED
    BY <1>3, <1>4

LEMMA NextEntryParams ==
  ASSUME ParamsInv, NextEntry
  PROVE  ParamsInv'
  <1>1. PICK c \in DOMAIN todo : at' = Enter(c, todo[c], main) /\ todo' = Without(todo, c)
    BY DEF NextEntry
  <1>2. UNCHANGED <<pc, params, buf>>
    BY DEF NextEntry
  <1>3. at'.sorts = todo[c].sorts
    BY <1>1 DEF Enter
  <1>4. \A d \in DOMAIN todo' : d \in DOMAIN todo /\ todo'[d] = todo[d]
    BY <1>1 DEF Without
  <1> QED
    BY <1>2, <1>3, <1>4 DEF ParamsInv

LEMMA SelectRelParams ==
  ASSUME IInv, ParamsInv, SelectRel
  PROVE  ParamsInv'
  <1> DEFINE n == at.i + 1
             r == at.chain[n]
             t == RelatedType(r)
             here == Prefix(at.chain, n)
             cte == ToCte(t, "rel", "data", cte_index)
             relating == <<[tbl |-> at.tbl, chain |-> here]>>
             fields == JsonFields(req.sparse, t, Returned(r, at.resp))
             adds == RelFields(t) \o MapSeq(SortField, at.sorts)
             outs == SelectOuts(BaseTable(t), t, relating, adds, fields, Len(params))
             joins == GenInnerJoin(r, at.tbl, BaseTable(t))
             stmt == Stmt("select", BaseTable(t), outs, joins, <<>>, <<>>)
             tok == Cte(cte, stmt)
             pushed == SelectParams(t, relating, fields)
             k == Len(params)
  <1>1. /\ pc = "rels" /\ ~EntryDone
        /\ buf' = buf \o <<Comma, tok>>
        /\ params' = params \o pushed
        /\ at' = [at EXCEPT !.i = n, !.tbl = cte]
        /\ UNCHANGED <<pc, todo>>
    BY DEF SelectRel, CurrentRelChain
  <1>2. IsRequest(req) /\ t \in Type
    <2>1. /\ IsRequest(req) /\ at.chain \in Seq(Rel) /\ at.i \in 0..Len(at.chain)
      BY DEF IInv, TypeOK
    <2>2. at.i # Len(at.chain) /\ Len(at.chain) \in Nat
      BY <1>1, <2>1, LenProperties DEF EntryDone
    <2> HIDE DEF r, tok, pushed
    <2>3. n \in 1..Len(at.chain)
      BY <2>1, <2>2
    <2>4. r \in Rel
      BY <2>1, <2>3, ElementOfSeq DEF r
    <2> QED
      BY <2>1, <2>4, RelationAssumption DEF RelatedType
  <1>3. at'.sorts = at.sorts
    BY <1>1 DEF IInv, TypeOK
  <1>4. fields \in Seq(Ident)
    BY <1>2, FieldsTyped
  <1>5. IsSeq(adds)
    <2>1. IsSeq(MapSeq(SortField, at.sorts))
      BY SortFieldsTyped DEF ParamsInv
    <2> QED
      BY <1>2, <2>1, AdditionalTyped
  <1>6. IsSeq(params) /\ k \in Nat
    BY LenProperties DEF ParamsInv, IsSeq
  <1> HIDE DEF relating, fields, adds, joins, cte, t, here, r
  <1>7. IsSeq(pushed) /\ Len(pushed) \in Nat /\ pushed \o <<>> = pushed
    BY <1>4, SelectParamsTyped, NoneJoined
  <1>8. ASSUME Holds(params', k, pushed) PROVE Carries(<<Comma, tok>>, params', k, Len(pushed))
    <2>1. Holds(params', k, SelectParams(t, relating, fields) \o <<>>)
      BY <1>7, <1>8
    <2>2. WhereCarries(<<>>, params', k + Len(SelectParams(t, relating, fields)), Len(<<>>))
      <3>1. k + Len(pushed) \in Nat
        BY <1>6, <1>7
      <3> HIDE DEF pushed, k
      <3>2. WhereCarries(<<>>, params', k + Len(pushed), 0)
        BY <3>1, NoParts
      <3> QED
        BY <3>2, NoneIsSeq DEF pushed
    <2> HIDE DEF k
    <2>3. StmtCarries(Stmt("select", BaseTable(t), SelectOuts(BaseTable(t), t, relating, adds, fields, k),
                           joins, <<>>, <<>>), params', k, Len(SelectParams(t, relating, fields) \o <<>>))
      BY <1>4, <1>5, <1>6, <2>1, <2>2, NoneIsSeq, SelectCarries
    <2>4. StmtCarries(stmt, params', k, Len(pushed))
      BY <1>7, <2>3 DEF k
    <2> HIDE DEF stmt, pushed, tok
    <2>5. Comma.t \notin {"cte", "write"} /\ tok.t \in {"cte", "write"} /\ tok.stmt = stmt
      BY QuietKinds DEF tok
    <2>6. StmtCarries(tok.stmt, params', k, Len(pushed))
      BY <2>4, <2>5
    <2> QED
      BY <1>6, <1>7, <2>5, <2>6, CteCarries
  <1> HIDE DEF tok, pushed, stmt
  <1>9. Pushes(<<Comma, tok>>, pushed)
    BY <1>1, <1>7, <1>8 DEF Pushes
  <1>10. IsSeq(params') /\ Carries(buf', params', 0, Len(params'))
    BY <1>9, PushesKeep
  <1> QED
    BY <1>1, <1>3, <1>10 DEF ParamsInv

\* Tokens without a statement push nothing.
LEMMA QuietStep ==
  ASSUME ParamsInv, NEW toks, buf' = buf \o toks, Carries(toks, params', Len(params), 0),
         UNCHANGED <<params, at, todo>>, pc' # "start"
  PROVE  ParamsInv'
  <1>1. params' = params \o <<>>
    BY NoneJoined DEF ParamsInv
  <1>2. Pushes(toks, <<>>)
    BY <1>1, NoneIsSeq DEF Pushes
  <1>3. IsSeq(params') /\ Carries(buf', params', 0, Len(params'))
    BY <1>2, PushesKeep
  <1> QED
    BY <1>3 DEF ParamsInv

LEMMA FinishParams ==
  ASSUME ParamsInv, FinishMain \/ FinishTable \/ Build
  PROVE  ParamsInv'
  <1> DEFINE n == Len(params)
  <1>1. n \in Nat
    BY LenProperties DEF ParamsInv, IsSeq
  <1>2. UNCHANGED <<params, at, todo>> /\ pc' # "start"
    BY DEF FinishMain, TakeWorkingTables, FinishTable, Build
  <1> HIDE DEF n
  <1>3. CASE FinishMain
    <2> DEFINE tok == Select(Selected, <<>>)
    <2>1. buf' = buf \o <<tok>>
      BY <1>3 DEF FinishMain
    <2>2. tok.t \notin {"cte", "write"}
      BY QuietKinds
    <2> HIDE DEF tok
    <2>3. Carries(<<tok>>, params', n, 0)
      BY <1>1, <2>2, OneTokenCarries
    <2> QED
      BY <1>2, <2>1, <2>3, QuietStep DEF n
  <1>4. CASE FinishTable
    <2>1. PICK c \in DOMAIN taken :
            buf' = IF taken[c].resp = "None" THEN buf ELSE buf \o <<Union, Select(taken[c].tbl, <<>>)>>
      BY <1>4 DEF FinishTable
    <2>2. CASE taken[c].resp = "None"
      <3>1. buf' = buf /\ pc' = pc
        BY <1>4, <2>1, <2>2 DEF FinishTable
      <3> QED
        BY <1>2, <3>1 DEF ParamsInv
    <2>3. CASE taken[c].resp # "None"
      <3> DEFINE tok == Select(taken[c].tbl, <<>>)
      <3>1. buf' = buf \o <<Union, tok>>
        BY <2>1, <2>3
      <3>2. tok.t \notin {"cte", "write"} /\ Union.t \notin {"cte", "write"}
        BY QuietKinds
      <3> HIDE DEF tok
      <3>3. Carries(<<Union, tok>>, params', n, 0)
        BY <1>1, <3>2, QuietTokensCarry
      <3> QED
        BY <1>2, <3>1, <3>3, QuietStep DEF n
    <2> QED
      BY <2>2, <2>3
  <1>5. CASE Build
    <2>1. buf' = buf \o <<Semicolon>>
      BY <1>5 DEF Build
    <2>2. Carries(<<Semicolon>>, params', n, 0)
      BY <1>1, QuietKinds, OneTokenCarries
    <2> QED
      BY <1>2, <2>1, <2>2, QuietStep DEF n
  <1> QED
    BY <1>3, <1>4, <1>5

LEMMA UnchangedParams ==
  ASSUME ParamsInv, Refuse \/ RefuseRel \/ RefuseSort \/ Terminated \/ UNCHANGED vars
  PROVE  ParamsInv'
  <1>1. UNCHANGED <<params, buf, at, todo>> /\ (pc' = pc \/ pc' = "failed")
    BY DEF Refuse, RefuseRel, RefuseSort, Terminated, vars, Fail
  <1> QED
    BY <1>1 DEF ParamsInv

\* The final CTE binds nothing: it selects what others have bound.
LEMMA FinalCarries ==
  ASSUME IsRequest(req), NEW tbl, NEW wt, NEW ps, NEW n \in Nat
  PROVE  StmtCarries(FinalStmt(tbl, wt), ps, n, 0)
  <1> DEFINE star == Out(<<"*">>, <<Ref(tbl, MainId)>>, <<>>)
             sorts == SortOuts(tbl, wt)
             joins == SortJoins(tbl, wt)
             outs == <<star>> \o sorts
  <1>1. FinalStmt(tbl, wt) = Stmt("final", tbl, outs, joins, <<>>, <<>>)
    BY DEF FinalStmt
  <1>2. IsSeq(sorts) /\ \A i \in DOMAIN sorts : sorts[i].params = <<>>
    BY SortOutsAre DEF SortOut, Out
  <1>3. star.params = <<>>
    BY DEF Out
  <1> HIDE DEF star, sorts, joins
  <1>4. OutsCarry(<<star>>, ps, n, 0)
    BY <1>3, QuietOut
  <1>5. OutsCarry(sorts, ps, n, 0)
    BY <1>2, QuietOuts
  <1>6. n + 0 = n /\ 0 + 0 = 0 /\ n + 0 + 0 = n /\ 0 + 0 + 0 = 0 /\ 0 \in Nat
    OBVIOUS
  <1>7. OutsCarry(outs, ps, n, 0)
    <2>1. OutsCarry(sorts, ps, n + 0, 0)
      BY <1>5, <1>6
    <2>2. OutsCarry(<<star>> \o sorts, ps, n, 0 + 0)
      BY <1>4, <1>6, <2>1, OutsJoined
    <2> QED
      BY <1>6, <2>2
  <1> HIDE DEF outs
  <1>8. SetsCarry(<<>>, ps, n + 0, 0) /\ WhereCarries(<<>>, ps, n + 0 + 0, 0)
    BY <1>6, NoParts
  <1>9. StmtCarries(Stmt("final", tbl, outs, joins, <<>>, <<>>), ps, n, 0 + 0 + 0)
    BY <1>6, <1>7, <1>8, StmtParts
  <1> QED
    BY <1>1, <1>6, <1>9

LEMMA FinishMainSortedParams ==
  ASSUME IInv, ParamsInv, FinishMainSorted
  PROVE  ParamsInv'
  <1> DEFINE n == Len(params)
             final == FinalTable(Selected.type)
             stmt == FinalStmt(Selected, Remaining)
             cte == Cte(final, stmt)
             select == Select(final, OrderBy)
  <1>1. n \in Nat
    BY LenProperties DEF ParamsInv, IsSeq
  <1>2. /\ UNCHANGED <<params, at, todo>> /\ pc' # "start"
        /\ buf' = buf \o <<Comma, cte, select>>
    BY DEF FinishMainSorted, TakeWorkingTables
  <1> HIDE DEF n
  <1>3. StmtCarries(stmt, params', n, 0)
    BY <1>1, FinalCarries DEF IInv
  <1> HIDE DEF stmt
  <1>4. /\ Comma.t \notin {"cte", "write"} /\ select.t \notin {"cte", "write"}
        /\ cte.t \in {"cte", "write"} /\ cte.stmt = stmt
    BY QuietKinds
  <1> HIDE DEF cte, select
  <1>5. Carries(<<Comma, cte>>, params', n, 0)
    <2>1. StmtCarries(cte.stmt, params', n, 0)
      BY <1>3, <1>4
    <2> QED
      BY <1>1, <1>4, <2>1, CteCarries
  <1>6. Carries(<<select>>, params', n, 0)
    BY <1>1, <1>4, OneTokenCarries
  <1>7. Carries(<<Comma, cte>> \o <<select>>, params', n, 0)
    <2>1. n + 0 = n /\ 0 + 0 = 0
      BY <1>1
    <2>2. Carries(<<select>>, params', n + 0, 0)
      BY <1>6, <2>1
    <2>3. Carries(<<Comma, cte>> \o <<select>>, params', n, 0 + 0)
      BY <1>1, <1>5, <2>2, CarriesJoined
    <2> QED
      BY <2>1, <2>3
  <1>8. Carries(<<Comma, cte, select>>, params', n, 0)
    <2>1. <<Comma, cte, select>> = <<Comma, cte>> \o <<select>>
      OBVIOUS
    <2> QED
      BY <1>7, <2>1, Zenon
  <1> QED
    BY <1>2, <1>8, QuietStep DEF n

LEMMA NextParams ==
  ASSUME IInv, ParamsInv, [Next]_vars
  PROVE  ParamsInv'
  <1>1. CASE Refuse \/ RefuseRel \/ RefuseSort \/ Terminated \/ UNCHANGED vars
    BY <1>1, UnchangedParams
  <1>2. CASE GenSelect
    BY <1>2, GenSelectParams
  <1>3. CASE GenSelectRelationships
    BY <1>3, GenSelectRelationshipsParams
  <1>4. CASE GenInsert
    BY <1>4, GenInsertParams
  <1>5. CASE GenUpdateMain
    BY <1>5, GenUpdateMainParams
  <1>6. CASE GenUpdateRel
    BY <1>6, GenUpdateRelParams
  <1>7. CASE GenDeleteNormal \/ GenDeleteRel
    BY <1>7, GenDeleteParams
  <1>8. CASE NextEntry
    BY <1>8, NextEntryParams
  <1>9. CASE SelectRel
    BY <1>9, SelectRelParams
  <1>10. CASE FinishMain \/ FinishTable \/ Build
    BY <1>10, FinishParams
  <1>11. CASE FinishMainSorted
    BY <1>11, FinishMainSortedParams
  <1> QED
    BY <1>1, <1>2, <1>3, <1>4, <1>5, <1>6, <1>7, <1>8, <1>9, <1>10, <1>11 DEF Next

----------------------------------------------------------------------------
(* The theorems *)

\* At every moment of the generation the placeholders of the buffer go on from
\* one another, and the parameters pushed are those they ask for.
THEOREM ParametersKept == Spec => [](IInv /\ ParamsInv)
  <1>1. IInv /\ ParamsInv /\ [Next]_vars => (IInv /\ ParamsInv)'
    BY NextInv, NextParams
  <1>2. Init => IInv /\ ParamsInv
    BY InitInv, InitParams
  <1> QED
    BY <1>1, <1>2, PTL DEF Spec

\* The placeholders of a statement are $1, $2, ... in the order it prints them
\* in, up to the number of parameters sent beside it, whatever the CTEs, the
\* relationships and the body it was made of (insert_params).
THEOREM PlaceholdersAreInOrder == Spec => []PlaceholdersInOrder
  <1>1. ParamsInv => PlaceholdersInOrder
    BY ParamsSuffice
  <1> QED
    BY <1>1, ParametersKept, PTL

\* Every placeholder is bound to the value meant for its place: a filter to
\* the part of the id of its column, a column that is set to what the body
\* gives for it, a JSON key to the name of the column beside it.
THEOREM ParametersAreBound == Spec => []ParamsAligned
  <1>1. ParamsInv => ParamsAligned
    BY ParamsSuffice
  <1> QED
    BY <1>1, ParametersKept, PTL
=============================================================================
