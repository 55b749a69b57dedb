---------------------------- MODULE MCExecution ----------------------------
(***************************************************************************)
(* Requests executed on small databases of the store of the tests.         *)
(***************************************************************************)
EXTENDS MCBuilder, ExecutionClaims

----------------------------------------------------------------------------
(* Databases: up to two people, articles, comments and colors *)

K(name) == <<name>>
N(n) == <<n>>

People(id, age, color) ==
  (<<"id">> :> K(id)) @@ (<<"age">> :> age) @@ (<<"first-name">> :> N(1))
    @@ (<<"favorite", "color">> :> color)
Article(id, n) == (<<"id">> :> K(id)) @@ (<<"body">> :> N(n)) @@ (<<"title">> :> N(3 - n))
Comment(id, n, author, article) ==
  (<<"id">> :> K(id)) @@ (<<"body">> :> N(n)) @@ (<<"author">> :> K(author)) @@ (<<"article">> :> article)
Color(id, n) == (<<"id">> :> K(id)) @@ (<<"color">> :> n)
Bucket(people, article) == (<<"people", "id">> :> K(people)) @@ (<<"article", "id">> :> K(article))

\* The authors and articles of two comments, the color of the second people,
\* and who wrote what.
Db(a1, a2, r1, r2, color, wrote) ==
  [t \in MCTableStore |->
     CASE t = "peoples" -> {People("p1", N(2), Null), People("p2", N(1), color)}
       [] t = "articles" -> {Article("a1", 1), Article("a2", 2)}
       [] t = "comments" -> {Comment("c1", 1, a1, r1), Comment("c2", 2, a2, r2)}
       [] t = "favorite_color" -> {Color("f1", N(1)), Color("f2", Null)}
       [] OTHER -> {Bucket(w[1], w[2]) : w \in wrote}]

\* What may be where: [authors, articles, color, wrote].
Contents ==
  [authors : {<<"p1", "p1">>, <<"p2", "p1">>},
   articles : {<<Null, K("a1")>>, <<K("a2"), K("a2")>>, <<K("a2"), K("a1")>>},
   color : {Null, K("f1")},
   wrote : {{}, {<<"p1", "a1">>, <<"p2", "a1">>}, {<<"p1", "a1">>, <<"p1", "a2">>, <<"p2", "a2">>}}]
DbOf(c) == Db(c.authors[1], c.authors[2], c.articles[1], c.articles[2], c.color, c.wrote)

EmptyDb == [t \in MCTableStore |-> {}]
MCDatabases == {EmptyDb} \cup {DbOf(c) : c \in Contents}

MCKeys ==
  [t \in MCType |->
     CASE t = "peoples" -> {K("p1"), K("p9")} [] t = "articles" -> {K("a1"), K("a9")}
       [] t = "comments" -> {K("c2")} [] t = "favorite_color" -> {K("f1"), K("f9")} [] OTHER -> {K("p1")}]
MCNewAttr == N(1)
MCFresh == [t \in MCType |-> K("new")]

MCCode == [c \in {"?"} |-> 63]

----------------------------------------------------------------------------
(* Requests served as they promise: reads with one include at most, and writes *)

ComesBack(q) ==
  \E c \in q.include \cup SortChains(q) : \E i \in DOMAIN c : MCRelation[c[i]].related = q.path.type
Composite(q) ==
  LET chains == q.include \cup SortChains(q) IN
  \/ q.path.kind # "Type" /\ q.path.type = "people-article"
  \/ MainType(q.path) = "people-article" /\ chains \ {<<>>} # {}
  \/ \E c \in chains : \E i \in 1..(Len(c) - 1) : MCRelation[c[i]].related = "people-article"
ServedPlainly(q) ==
  PlainSortsOf(q) /\ ~Composite(q) /\ (q.op = "read" \/ ~ComesBack(q))

OneInclude(q) == Cardinality(q.include) <= 1
ServedReads ==
  {q \in UNION {Reads(t, 1) : t \in {"comments", "peoples", "people-article"}} \cup SparseReads :
     OneInclude(q) /\ ServedPlainly(q)}
ServedWrites == {q \in Writes(TestTypes) : ServedPlainly(q)}
ServedRequests == ServedReads \cup ServedWrites

\* Updates whose includes come back to the type they write.
Returning == {q \in Writes({"comments"}) : q.op = "update" /\ OneInclude(q) /\ q.sort = <<>>}
CommentUpdates ==
  Returning \cup {[q EXCEPT !.include = {<<"c_author", "p_comments">>}] :
                  q \in {p \in Returning : p.path.kind = "TypeId"}}
=============================================================================
