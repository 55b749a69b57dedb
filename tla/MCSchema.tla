------------------------------ MODULE MCSchema ------------------------------
(***************************************************************************)
(* The store and the tables of the repository's tests, cut down to two     *)
(* attributes per type, with a type that has no table.                     *)
(***************************************************************************)
EXTENDS Naturals, Sequences

MCType == {"peoples", "articles", "comments", "favorite_color", "people-article", "ghosts"}

Attr(name) == [name |-> name, obj |-> FALSE]
UuidId == <<[kind |-> "Uuid", col |-> <<"id">>]>>
BucketId == <<[kind |-> "Uuid", col |-> <<"people", "id">>],
              [kind |-> "Uuid", col |-> <<"article", "id">>]>>

Res(pk, attrs, rels) ==
  [pk |-> pk, attrs |-> [i \in DOMAIN attrs |-> Attr(attrs[i])], rels |-> rels]

MCRel == {"p_articles", "p_comments", "p_color", "p_bucket", "a_comments", "a_peoples",
          "c_article", "c_author", "f_ghosts", "f_peoples", "b_article", "b_people", "g_color"}

Resources(bucket) ==
  [t \in MCType |->
    CASE t = "peoples" -> Res(UuidId, <<<<"age">>, <<"first-name">>>>,
                              <<"p_articles", "p_comments", "p_color", "p_bucket">>)
      [] t = "articles" -> Res(UuidId, <<<<"body">>, <<"title">>>>, <<"a_comments", "a_peoples">>)
      [] t = "comments" -> Res(UuidId, <<<<"body">>>>, <<"c_article", "c_author">>)
      [] t = "favorite_color" -> Res(UuidId, <<<<"color">>>>, <<"f_ghosts", "f_peoples">>)
      [] t = "people-article" -> Res(bucket, <<>>, <<"b_article", "b_people">>)
      [] OTHER -> Res(UuidId, <<<<"body">>>>, <<"g_color">>)]

MCResource == Resources(UuidId)
\* The bucket with a composite key, and every key a Text.
CompositeResource == Resources(BucketId)
TextResource == [t \in MCType |-> [MCResource[t] EXCEPT !.pk = <<[kind |-> "Text", col |-> <<"id">>]>>]]

BucketKeys == [t \in {"peoples", "articles"} |->
                 IF t = "peoples" THEN <<"people", "id">> ELSE <<"article", "id">>]

\* A relationship: its name, kind, owner, alias, related type and key, whether
\* it is optional, and its place in the alias order of its type.
MCLinks ==
  {<<"p_articles", "ManyToMany", "peoples", <<"articles">>, "articles", <<>>, FALSE, 1>>,
   <<"p_comments", "OneToMany", "peoples", <<"comments">>, "comments", <<"author">>, FALSE, 2>>,
   <<"p_color", "ManyToOne", "peoples", <<"favorite", "color">>, "favorite_color", <<"favorite", "color">>, TRUE, 3>>,
   <<"p_bucket", "OneToMany", "peoples", <<"people-article">>, "people-article", <<"people", "id">>, FALSE, 4>>,
   <<"a_comments", "OneToMany", "articles", <<"comments">>, "comments", <<"article">>, TRUE, 1>>,
   <<"a_peoples", "ManyToMany", "articles", <<"peoples">>, "peoples", <<>>, FALSE, 2>>,
   <<"c_article", "ManyToOne", "comments", <<"article">>, "articles", <<"article">>, TRUE, 1>>,
   <<"c_author", "ManyToOne", "comments", <<"author">>, "peoples", <<"author">>, FALSE, 2>>,
   <<"f_ghosts", "OneToMany", "favorite_color", <<"ghosts">>, "ghosts", <<"color">>, FALSE, 1>>,
   <<"f_peoples", "OneToMany", "favorite_color", <<"peoples">>, "peoples", <<"favorite", "color">>, TRUE, 2>>,
   <<"b_article", "ManyToOne", "people-article", <<"article">>, "articles", <<"article", "id">>, FALSE, 1>>,
   <<"b_people", "ManyToOne", "people-article", <<"people">>, "peoples", <<"people", "id">>, FALSE, 2>>,
   <<"g_color", "ManyToOne", "ghosts", <<"color">>, "favorite_color", <<"color">>, FALSE, 1>>}

RelationOf(l) ==
  [kind |-> l[2], owner |-> l[3], alias |-> l[4], related |-> l[5], key |-> l[6],
   optional |-> l[7], rank |-> l[8],
   part_of_many_to_many |-> l[1] \in {"p_bucket", "b_article", "b_people"},
   bucket |-> IF l[2] = "ManyToMany" THEN "people-article" ELSE l[3],
   keys |-> [t \in IF l[2] = "ManyToMany" THEN DOMAIN BucketKeys ELSE {} |-> BucketKeys[t]]]
RelationsOf(rels, links) ==
  [r \in rels |-> CHOOSE relation \in {RelationOf(l) : l \in {k \in links : k[1] = r}} : TRUE]

MCRelation == RelationsOf(MCRel, MCLinks)

MCTableStore == MCType \ {"ghosts"}
=============================================================================
