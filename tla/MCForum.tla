------------------------------- MODULE MCForum -------------------------------
(***************************************************************************)
(* A forum beside the store of the tests, for what that store does not     *)
(* have: two relationships from one type to another, one from a type to    *)
(* itself, and names that meet when they are joined with "_".              *)
(***************************************************************************)
EXTENDS MCExecution

ForumType == {"users", "posts", "teams"}
ForumRel == {"post_author", "post_parent", "post_replies", "post_reviewer", "post_team", "user_posts", "team_posts"}

ForumResource ==
  [t \in ForumType |->
     CASE t = "users" -> Res(UuidId, <<<<"name">>, <<"team", "name">>>>, <<"user_posts">>)
       [] t = "posts" -> Res(UuidId, <<<<"author", "name">>, <<"title">>>>,
                            <<"post_author", "post_team", "post_parent", "post_replies", "post_reviewer">>)
       [] OTHER -> Res(UuidId, <<<<"name">>>>, <<"team_posts">>)]

ForumLinks ==
  {<<"post_author", "ManyToOne", "posts", <<"author">>, "users", <<"author">>, FALSE, 1>>,
   <<"post_team", "ManyToOne", "posts", <<"author", "team">>, "teams", <<"team">>, TRUE, 2>>,
   <<"post_parent", "ManyToOne", "posts", <<"parent">>, "posts", <<"parent">>, TRUE, 3>>,
   <<"post_replies", "OneToMany", "posts", <<"replies">>, "posts", <<"parent">>, TRUE, 4>>,
   <<"post_reviewer", "ManyToOne", "posts", <<"reviewer">>, "users", <<"reviewer">>, TRUE, 5>>,
   <<"user_posts", "OneToMany", "users", <<"posts">>, "posts", <<"author">>, FALSE, 1>>,
   <<"team_posts", "OneToMany", "teams", <<"posts">>, "posts", <<"team">>, TRUE, 1>>}
ForumRelation == RelationsOf(ForumRel, ForumLinks)

----------------------------------------------------------------------------
(* Databases: two users, a team, two posts, the second a reply *)

User(id, n) == (<<"id">> :> K(id)) @@ (<<"name">> :> N(n)) @@ (<<"team", "name">> :> N(3 - n))
Team(id, n) == (<<"id">> :> K(id)) @@ (<<"name">> :> N(n))
Post(id, n, author, reviewer, team, parent) ==
  (<<"id">> :> K(id)) @@ (<<"title">> :> N(n)) @@ (<<"author", "name">> :> N(3 - n)) @@ (<<"author">> :> K(author))
    @@ (<<"reviewer">> :> reviewer) @@ (<<"team">> :> team) @@ (<<"parent">> :> parent)

Forum(author, reviewer, own) ==
  [t \in ForumType |->
     CASE t = "users" -> {User("u1", 2), User("u2", 1)}
       [] t = "teams" -> {Team("t1", 1)}
       [] OTHER -> {Post("x1", 1, "u1", reviewer, K("t1"), own), Post("x2", 2, author, Null, Null, K("x1"))}]
ForumDatabases ==
  {Forum(author, reviewer, own) : author \in {"u1", "u2"}, reviewer \in {Null, K("u2")}, own \in {Null, K("x2")}}

ForumKeys ==
  [t \in ForumType |-> CASE t = "users" -> {K("u2")} [] t = "posts" -> {K("x2"), K("x9")} [] OTHER -> {K("t1")}]
ForumFresh == [t \in ForumType |-> K("new")]

----------------------------------------------------------------------------
(* Requests *)

ForumBody == Body("none", FALSE, FALSE, <<>>, [r \in ForumRel |-> "omitted"], "omitted")
ForumRel1(data) == [ForumBody EXCEPT !.kind = "rel", !.data = data]
ForumRead(path, include, sort) == Req("read", path, include, sort, NoSparse, ForumBody)
ForumLinksOf(t) == {<<r>> : r \in ToSet(ForumResource[t].rels)}
ForumChains(t) ==
  ForumLinksOf(t) \cup UNION {{c \o d : d \in ForumLinksOf(ForumRelation[c[1]].related)} : c \in ForumLinksOf(t)}
ByField(chain, field) == [chain |-> chain, field |-> field, desc |-> FALSE]
ForumSorts ==
  {ByField(<<>>, <<"title">>), ByField(<<"post_author">>, <<"name">>),
   ByField(<<"post_reviewer">>, <<"name">>), ByField(<<"post_parent">>, <<"title">>)}
\* Two of these have one name, sort_author_team_name, and two of those:
\* sort_author_name.
MeetingSorts == {ByField(<<"post_author">>, <<"team", "name">>), ByField(<<"post_team">>, <<"name">>)}
CarriedSorts == {ByField(<<>>, <<"author", "name">>), ByField(<<"post_author">>, <<"name">>)}

ForumReads ==
  UNION {{ForumRead(Path(k, t, <<>>), inc, <<>>) : k \in {"Type", "TypeId"}, inc \in AtMostTwo(ForumChains(t))} :
           t \in {"users", "teams"}}
    \cup {ForumRead(Path(k, "posts", <<>>), inc, <<>>) : k \in {"Type", "TypeId"}, inc \in AtMostOne(ForumChains("posts"))}
    \cup {ForumRead(Path("Type", "posts", <<>>), inc, s) :
             inc \in AtMostOne(ForumLinksOf("posts")), s \in SortLists(ForumSorts) \cup SortLists(MeetingSorts)
                                                    \cup SortLists(CarriedSorts)}
    \cup {ForumRead(Path(k, "posts", c), {}, <<>>) :
             k \in {"TypeIdRelated", "TypeIdRelationship"}, c \in ForumLinksOf("posts")}

\* A post that changes hands, or is taken away from its thread. A deletion takes
\* any of the relationships to a type: these types have one.
ForumUpdate(path, include, body) == Req("update", path, include, <<>>, NoSparse, body)
ForumWrites ==
  {ForumUpdate(Path("TypeId", "posts", <<>>), inc,
     Body("main", FALSE, TRUE, <<[name |-> <<"title">>, absent |-> FALSE]>>,
          [ForumBody.rels EXCEPT ![r] = d], "omitted")) :
     inc \in AtMostTwo({<<"post_author">>, <<"post_reviewer">>, <<"post_team">>}),
     r \in {"post_author", "post_reviewer", "post_parent"}, d \in {"one", "null"}}
    \cup {ForumUpdate(Path("TypeIdRelationship", "posts", <<r>>), {}, ForumRel1(d)) :
             r \in {"post_author", "post_reviewer", "post_parent"}, d \in {"one", "null", "absent"}}
    \cup {Req("delete", p, {}, <<>>, NoSparse, ForumBody) :
             p \in {Path("TypeId", t, <<>>) : t \in ForumType} \cup {Path("TypeIdRelationship", "posts", <<"post_team">>)}}

\* Deletions of every relationship of a post.
ForumDeletes ==
  {Req("delete", Path("TypeIdRelationship", "posts", c), {}, <<>>, NoSparse, ForumBody) :
     c \in ForumLinksOf("posts")}

----------------------------------------------------------------------------
(* The two stores side by side. The databases of the one vary with those   *)
(* of the other: no request reads both.                                    *)

\* Tags have a Text key, and no relationship: with one, nothing is accepted.
\* Their keys differ in one digit of their code, or by where its lines break.
Marks(n) == [i \in 1..n |-> "?"]
TagKeys == {Marks(n) : n \in {1, 3, 6, 7}} \cup {<<"?", "?", ">">>, <<">", ">", ">">>}
TagResource == Res(<<[kind |-> "Text", col |-> <<"id">>]>>, <<<<"name">>>>, <<>>)
Tags == {(<<"id">> :> k) @@ (<<"name">> :> N(1)) : k \in TagKeys}
TagReads == {ForumRead(Path(k, "tags", <<>>), {}, <<>>) : k \in {"Type", "TypeId"}}
TagWrites ==
  {Req("delete", Path("TypeId", "tags", <<>>), {}, <<>>, NoSparse, ForumBody)}

BothType == MCType \cup ForumType \cup {"tags"}
BothRel == MCRel \cup ForumRel
\* What a type has in the store it belongs to.
OfBoth(mc, forum, tags) ==
  [t \in BothType |-> CASE t \in MCType -> mc[t] [] t \in ForumType -> forum[t] [] OTHER -> tags]
BothResource == OfBoth(CompositeResource, ForumResource, TagResource)
BothRelation == RelationsOf(BothRel, MCLinks \cup ForumLinks)
BothTableStore == MCTableStore \cup ForumType \cup {"tags"}
BothKeys == OfBoth(MCKeys, ForumKeys, {Marks(3), Marks(4)})
BothFresh == OfBoth(MCFresh, ForumFresh, Marks(2))
BothCode == ("?" :> 63) @@ (">" :> 62)

ForumBeside(c) ==
  Forum(IF c.authors[1] = "p1" THEN "u1" ELSE "u2", IF c.color = Null THEN Null ELSE K("u2"),
        IF c.articles[1] = Null THEN Null ELSE K("x2"))
BothDatabases ==
  {EmptyDb @@ [t \in ForumType \cup {"tags"} |-> {}]}
    \cup {DbOf(c) @@ ForumBeside(c) @@ ("tags" :> Tags) : c \in Contents}

BothRequests == ServedRequests \cup ForumReads \cup ForumWrites \cup TagReads \cup TagWrites

\* The values of the constants: TLC evaluates a definition that a constant is
\* replaced by at every use, and the definitions it refers to once.
ServedType == BothType
ServedRel == BothRel
ServedResource == BothResource
ServedRelation == BothRelation
ServedTableStore == BothTableStore
ServedKeys == BothKeys
ServedFresh == BothFresh
ServedCode == BothCode
ServedDatabases == BothDatabases
ServedByBoth == BothRequests
=============================================================================
