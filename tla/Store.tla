------------------------------- MODULE Store -------------------------------
(***************************************************************************)
(* What the query builder reads and never writes: the ciboulette store     *)
(* (resource types and their relationships, an external crate seen through *)
(* the accessors the builder calls) and the Postgres table store.          *)
(*                                                                         *)
(* An identifier is the sequence of the words Ciboulette2PgSafeIdent joins *)
(* with "_", so that prefixing, suffixing and printing are concatenation   *)
(* and two identifiers that print alike are equal.                         *)
(***************************************************************************)
EXTENDS Integers, Sequences, FiniteSets

CONSTANTS
  Type,       \* the resource types of the store
  Rel,        \* the relationships, one element per direction
  Resource,   \* [Type -> [pk, attrs, rels]]: key columns, schema, relationships
  Relation,   \* [Rel -> ...]: what CibouletteResourceRelationshipDetails holds
  TableStore  \* the types that have a table

IdKind == {"Number", "Uuid", "Text"}
RelKind == {"ManyToOne", "OneToMany", "ManyToMany"}
Ident == Seq(STRING)

ASSUME ResourceAssumption ==
  /\ DOMAIN Resource = Type
  /\ Type \subseteq STRING
  /\ \A t \in Type :
       /\ Resource[t].pk \in Seq([kind : IdKind, col : Ident])
       /\ Len(Resource[t].pk) > 0
       /\ Resource[t].attrs \in Seq([name : Ident, obj : BOOLEAN])
       /\ Resource[t].rels \in Seq(Rel)

\* part_of_many_to_many is set on the links a bucket table has to its two
\* ends; bucket and keys are those of CibouletteRelationshipManyToManyOption.
ASSUME RelationAssumption ==
  /\ DOMAIN Relation = Rel
  /\ \A r \in Rel :
       /\ {Relation[r].owner, Relation[r].related, Relation[r].bucket} \subseteq Type
       /\ Relation[r].kind \in RelKind
       /\ Relation[r].alias \in Ident /\ Len(Relation[r].alias) > 0
       /\ Relation[r].key \in Ident
       /\ Relation[r].optional \in BOOLEAN
       /\ Relation[r].part_of_many_to_many \in BOOLEAN
       /\ Relation[r].rank \in Nat

\* The relationships of a type are kept by their alias.
ASSUME RankAssumption ==
  \A r, s \in Rel :
    Relation[r].owner = Relation[s].owner /\ Relation[r].rank = Relation[s].rank => r = s

\* The columns of the tables: a key is carried by one many-to-one link of its
\* owner and is no attribute of it; both directions of a one-to-many share it,
\* and a bucket is a third table that links to the two ends it has keys for.
HoldsKey(t, key) ==
  \E s \in Rel : Relation[s].kind = "ManyToOne" /\ Relation[s].owner = t /\ Relation[s].key = key
ASSUME ColumnsAssumption ==
  /\ \A t \in Type : \A i, j \in DOMAIN Resource[t].rels :
       /\ Relation[Resource[t].rels[i]].owner = t
       /\ Resource[t].rels[i] = Resource[t].rels[j] => i = j
  /\ \A r \in Rel : Relation[r].kind = "ManyToOne" =>
       /\ \E i \in DOMAIN Resource[Relation[r].owner].rels : Resource[Relation[r].owner].rels[i] = r
       /\ \A s \in Rel : Relation[s].kind = "ManyToOne" /\ Relation[s].owner = Relation[r].owner
                          /\ Relation[s].key = Relation[r].key => s = r
       /\ \A i \in DOMAIN Resource[Relation[r].owner].attrs :
            Resource[Relation[r].owner].attrs[i].name # Relation[r].key
  /\ \A r \in Rel : Relation[r].kind = "OneToMany" => HoldsKey(Relation[r].related, Relation[r].key)
  /\ \A r \in Rel : Relation[r].kind = "ManyToMany" => \A t \in {Relation[r].owner, Relation[r].related} :
       Relation[r].bucket # t /\ HoldsKey(Relation[r].bucket, Relation[r].keys[t])

ASSUME TableStoreAssumption == TableStore \subseteq Type

----------------------------------------------------------------------------

Alias(r) == Relation[r].alias
RelatedType(r) == Relation[r].related
IsManyToOne(r) == Relation[r].kind = "ManyToOne"

\* The end of a many-to-one or one-to-many link that holds the key.
ManyResource(r) == IF IsManyToOne(r) THEN Relation[r].owner ELSE RelatedType(r)
OneResource(r) == IF IsManyToOne(r) THEN RelatedType(r) ELSE Relation[r].owner

\* The column of the bucket that refers to type t.
KeysForType(r, t) == Relation[r].keys[t]

\* main_type.relationships(): the relationships of a type, in alias order.
RelsOf(t) == Resource[t].rels

\* get_alias(name) answers with one alias of the relationships that lead from
\* t to the type of that name; which one is the external crate's choice.
AliasesTo(t, related) == {r \in Rel : Relation[r].owner = t /\ RelatedType(r) = related}

\* The order of the relationships of a type in the store's BTreeMaps.
RelLess(r, s) == Relation[r].rank < Relation[s].rank

\* The order of the builder's BTreeMaps, whose keys are relationship chains:
\* lexicographic, a chain before its extensions.
ChainLess(c, d) ==
  \/ Len(c) < Len(d) /\ c = SubSeq(d, 1, Len(c))
  \/ \E i \in 1..Len(c) :
       /\ i <= Len(d)
       /\ SubSeq(c, 1, i - 1) = SubSeq(d, 1, i - 1)
       /\ RelLess(c[i], d[i])

\* The keys in the order a BTreeMap iterator yields them, and the first one.
InOrder(chains) ==
  [n \in 1..Cardinality(chains) |->
     CHOOSE c \in chains : Cardinality({d \in chains : ChainLess(d, c)}) = n - 1]
IsLeast(c, chains) == c \in chains /\ \A d \in chains \ {c} : ChainLess(c, d)

Prefix(chain, n) == SubSeq(chain, 1, n)
IsPrefixChain(c, d) == Len(c) <= Len(d) /\ c = Prefix(d, Len(c))

\* A chain follows relationships from type to type.
IsChain(t, chain) ==
  /\ chain \in Seq(Rel)
  /\ \A i \in DOMAIN chain :
       Relation[chain[i]].owner = IF i = 1 THEN t ELSE RelatedType(chain[i - 1])
=============================================================================
