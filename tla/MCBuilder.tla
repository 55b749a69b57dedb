----------------------------- MODULE MCBuilder -----------------------------
(***************************************************************************)
(* Small instances of BuilderPlan over the store of the tests. A set of    *)
(* requests is given to each run.                                          *)
(***************************************************************************)
EXTENDS MCSchema, BuilderClaims

----------------------------------------------------------------------------
(* Chains and sorting elements from a type *)

Steps(t) == {<<r>> : r \in ToSet(MCResource[t].rels)}
Chains1(t) == Steps(t)
Chains2(t) == UNION {{c \o s : s \in Steps(MCRelation[c[1]].related)} : c \in Steps(t)}
EndOf(t, chain) == IF chain = <<>> THEN t ELSE MCRelation[Last(chain)].related
FirstField(t) == MCResource[t].attrs[1].name

SortBy(t, chains) ==
  {[chain |-> c, field |-> FirstField(EndOf(t, c)), desc |-> Len(c) = 1] :
     c \in {d \in chains : MCResource[EndOf(t, d)].attrs # <<>>}}
AtMostOne(S) == {{}} \cup {{a} : a \in S}
AtMostTwo(S) == {{}} \cup {{p[1], p[2]} : p \in S \X S}
SortLists(S) == {<<>>} \cup {<<s>> : s \in S} \cup {<<p[1], p[2]>> : p \in (S \X S) \ {<<s, s>> : s \in S}}

----------------------------------------------------------------------------
(* Requests *)

Path(kind, t, rels) == [kind |-> kind, type |-> t, rels |-> rels]
Paths(t) ==
  {Path("Type", t, <<>>), Path("TypeId", t, <<>>)}
    \cup {Path(k, t, c) : k \in {"TypeIdRelated", "TypeIdRelationship"}, c \in Steps(t)}

NoSparse == [t \in {} |-> <<>>]
SparseTitle == [t \in {"articles", "favorite_color"} |->
                  IF t = "articles" THEN <<<<"title">>>> ELSE <<>>]
SparseUnknown == [t \in {"comments"} |-> <<<<"title">>>>]
NoRels == [r \in MCRel |-> "omitted"]
Body(kind, id, has_attrs, attrs, rels, data) ==
  [kind |-> kind, id |-> id, has_attrs |-> has_attrs, attrs |-> attrs, rels |-> rels, data |-> data]
NoBody == Body("none", FALSE, FALSE, <<>>, NoRels, "omitted")

Req(op, path, include, sort, sparse, body) ==
  [op |-> op, path |-> path, include |-> include, sort |-> sort, sparse |-> sparse, body |-> body]

\* Requests for a path, whose chains start at the main type: two includes, or
\* an include and a sorting element, or two sorting elements.
Queries(op, path, body, chains, sorts) ==
  LET by == SortBy(MainType(path), sorts)
      ask(inc, s) == Req(op, path, inc, s, NoSparse, body)
  IN {ask(inc, <<>>) : inc \in AtMostTwo(chains)}
       \cup {ask(inc, <<s>>) : inc \in AtMostOne(chains), s \in by}
       \cup {ask({}, s) : s \in SortLists(by)}

\* Every chain of up to two links is included; sorting follows up to n links.
Reads(t, n) ==
  UNION {LET m == MainType(p) IN
         Queries("read", p, NoBody, Chains1(m) \cup Chains2(m),
                 {<<>>} \cup Chains1(m) \cup (IF n > 1 THEN Chains2(m) ELSE {})) : p \in Paths(t)}

SparseReads ==
  {Req("read", Path(k, "articles", <<>>), inc, <<>>, sparse, NoBody) :
     k \in {"Type", "TypeId"}, inc \in AtMostOne(Chains1("articles") \cup Chains2("articles")),
     sparse \in {SparseTitle, SparseUnknown}}
  \cup {Req("read", Path("TypeId", t, <<>>), {}, <<>>, SparseUnknown, NoBody) : t \in {"comments"}}

\* Several sorting elements of one chain, in both orders, included or not.
SortsOfOneChain ==
  LET body == [chain |-> <<"c_article">>, field |-> <<"body">>, desc |-> FALSE]
      title == [chain |-> <<"c_article">>, field |-> <<"title">>, desc |-> TRUE]
      own == [chain |-> <<>>, field |-> <<"body">>, desc |-> TRUE]
  IN {Req("read", Path("Type", "comments", <<>>), inc, s, NoSparse, NoBody) :
        inc \in AtMostOne({<<"c_article">>, <<"c_author">>}),
        s \in {<<body, title>>, <<title, body>>, <<body, own, title>>, <<title, own, body>>}}

UnknownTables ==
  {Req("read", Path("Type", "ghosts", <<>>), {}, <<>>, NoSparse, NoBody),
   Req("delete", Path("TypeId", "ghosts", <<>>), {}, <<>>, NoSparse, NoBody)}

\* Bodies: at most one relationship of the type is given, in every way, beside
\* no attribute, one, or one that is there without a value.
Given(t) == {NoRels} \cup {[NoRels EXCEPT ![c[1]] = d] : c \in Steps(t), d \in RelData}
AttrLists(t) ==
  {<<>>} \cup (IF MCResource[t].attrs = <<>> THEN {}
               ELSE {<<[name |-> FirstField(t), absent |-> a]>> : a \in BOOLEAN})
MainBodies(t) == {Body("main", FALSE, TRUE, a, g, "omitted") : a \in AttrLists(t), g \in Given(t)}
BadBodies(t) == {Body("main", TRUE, TRUE, <<>>, NoRels, "omitted"),
                 Body("main", FALSE, FALSE, <<>>, NoRels, "omitted")}
RelBodies == {Body("rel", FALSE, FALSE, <<>>, NoRels, d) : d \in RelData \ {"omitted"}}
AllBodies(t) == MainBodies(t) \cup BadBodies(t) \cup RelBodies

\* Writes with every body, then one body with every query.
Simple(op, path, bodies) == {Req(op, path, {}, <<>>, NoSparse, b) : b \in bodies}
OneBody(t) == Body("main", FALSE, TRUE, IF MCResource[t].attrs = <<>> THEN <<>>
                     ELSE <<[name |-> FirstField(t), absent |-> FALSE]>>, NoRels, "omitted")
OneRel == Body("rel", FALSE, FALSE, <<>>, NoRels, "one")

Creates(t) ==
  Simple("create", Path("Type", t, <<>>), MainBodies(t) \cup BadBodies(t))
  \cup Queries("create", Path("Type", t, <<>>), OneBody(t), Chains1(t), {<<>>} \cup Chains1(t))
UpdatesMain(t) ==
  Simple("update", Path("TypeId", t, <<>>), AllBodies(t))
  \cup Queries("update", Path("TypeId", t, <<>>), OneBody(t), Chains1(t), {<<>>} \cup Chains1(t))
UpdatesRel(t) ==
  UNION {Simple("update", Path("TypeIdRelationship", t, c), AllBodies(t))
         \cup Queries("update", Path("TypeIdRelationship", t, c), OneRel,
                {}, {<<>>} \cup Chains1(MCRelation[c[1]].related)) : c \in Steps(t)}
Deletes(t) ==
  Simple("delete", Path("TypeId", t, <<>>), {NoBody})
  \cup UNION {Simple("delete", Path("TypeIdRelationship", t, c), {NoBody}) : c \in Steps(t)}

TestTypes == MCType \ {"ghosts"}
Writes(types) == UNION {Creates(t) \cup UpdatesMain(t) \cup UpdatesRel(t) \cup Deletes(t) : t \in types}

\* Sorting elements with up to two links, whatever is included.
MixedRequests ==
  Reads("comments", 2) \cup Reads("people-article", 1) \cup Reads("favorite_color", 1)
    \cup SparseReads \cup SortsOfOneChain \cup UnknownTables \cup Writes(TestTypes)

\* Requests of PlainSorts: the others lose an included chain or a sort column.
PlainSortsOf(q) ==
  LET chains == {q.sort[i].chain : i \in DOMAIN q.sort} IN
  \A c \in chains : Len(c) <= 1 /\ (c # <<>> => \A d \in q.include : IsPrefixChain(c, d) => c = d)
PlainRequests ==
  {q \in UNION {Reads(t, 1) : t \in {"comments", "peoples"}} \cup SparseReads \cup UnknownTables
           \cup Writes({"comments", "peoples"}) : PlainSortsOf(q)}

----------------------------------------------------------------------------
(* Requests for the claims *)

CommentsType == Path("Type", "comments", <<>>)
AuthorColor == <<"c_author", "p_color">>
Sort(chain) == [chain |-> chain, field |-> FirstField(EndOf("comments", chain)), desc |-> FALSE]

\* Includes, and one sorting element that follows up to two links.
SortedIncludes ==
  {Req("read", p, inc, <<s>>, NoSparse, NoBody) :
     p \in {CommentsType, Path("TypeId", "comments", <<>>)},
     inc \in AtMostOne(Chains1("comments") \cup Chains2("comments")),
     s \in {Sort(<<>>), Sort(<<"c_author">>), Sort(<<"c_article">>), Sort(AuthorColor)}}
\* One link to sort by, and an include that may go further; two links to sort
\* by, and nothing included.
SortedPrefixes == {q \in SortedIncludes : Len(q.sort[1].chain) <= 1}
NestedSorts == {q \in SortedIncludes : q.include = {}}

\* Reads of every path, and of the bucket, without sorting.
UnsortedReads ==
  {q \in UNION {Reads(t, 1) : t \in {"comments", "people-article"}} : q.sort = <<>>}
=============================================================================
