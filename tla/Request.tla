------------------------------ MODULE Request ------------------------------
(***************************************************************************)
(* A typed ciboulette request as the builder sees it, the inclusion map of *)
(* the builder state, and the extraction of the values to write and of the *)
(* fields to carry along from the body of the request.                     *)
(***************************************************************************)
EXTENDS Store, SequencesExt

\* A column name made of the empty identifier, as "" joined with others.
EmptyWord == <<"">>

\* What a relationship of a body may hold: no entry at all, one resource
\* identifier, several, an explicit null, or an entry without data.
RelData == {"omitted", "one", "many", "null", "absent"}

\* A parameter sent beside the query: the name of a type, the aliases of a
\* chain, the key of a JSON object, the request's id for a column, the value
\* of an attribute, the identifier in a relationship, or a typed NULL.
ParamKind == {"type", "chain", "key", "id", "attr", "ref", "null"}
Param == [v : ParamKind, of : Ident]

ResponseType == {"Object", "Id", "None"}

\* CiboulettePath: rels is empty, or holds the one relationship of the path.
PathKind == {"Type", "TypeId", "TypeIdRelated", "TypeIdRelationship"}
MainType(path) == IF path.rels = <<>> THEN path.type ELSE RelatedType(path.rels[1])

\* The elements of a sequence at some of its positions, in their order.
Kept(s, positions) == FlattenSeq([i \in DOMAIN s |-> IF i \in positions THEN <<s[i]>> ELSE <<>>])

----------------------------------------------------------------------------
(* The inclusion map: what to include and how to sort, by chain. *)

SortChains(req) == {req.sort[i].chain : i \in DOMAIN req.sort}
SortsOf(req, chain) == Kept(req.sort, {i \in DOMAIN req.sort : req.sort[i].chain = chain})

Bug_InclusionMap(req) ==
  [c \in req.include \cup SortChains(req) |->
     [resp  |-> IF c \in SortChains(req) THEN "None" ELSE "Object",
      sorts |-> Reverse(SortsOf(req, c))]]

\* Every insertion of a sorting element puts itself in front of the elements
\* the chain had; a chain that is included keeps its response type.
BuildInclusionMap(req) ==
  [c \in req.include \cup SortChains(req) |->
     [resp  |-> IF c \in req.include THEN "Object" ELSE "None",
      sorts |-> Reverse(SortsOf(req, c))]]

\* The map a read of /type/id/relationships/rel uses: the same chains, none
\* of them wanted in the response.
Unwanted(map) == [c \in DOMAIN map |-> [map[c] EXCEPT !.resp = "None"]]

----------------------------------------------------------------------------
(* Additional fields: [name, col], the column of a table and the name a data *)
(* CTE gives it.                                                             *)

RelName(key) == <<"rel">> \o key
SortName(field) == <<"sort">> \o field

RelField(r) == [name |-> RelName(Relation[r].key), col |-> Relation[r].key]
SortField(s) == [name |-> SortName(s.field), col |-> s.field]

MapSeq(Op(_), s) == [i \in DOMAIN s |-> Op(s[i])]

\* extract_data_no_body(..).single_relationships_additional_fields(): also
\* what a body leads to, whatever it says of the relationships.
RelFields(t) ==
  MapSeq(RelField, Kept(RelsOf(t), {i \in DOMAIN RelsOf(t) : IsManyToOne(RelsOf(t)[i])}))

\* The sorting elements of the main data are those of the empty chain.
SortKeysForMain(req) ==
  IF <<>> \in SortChains(req) THEN MapSeq(SortField, BuildInclusionMap(req)[<<>>].sorts)
                              ELSE <<>>

----------------------------------------------------------------------------
(* Values to write: [col, value]. *)

Value(kind, col) == [col |-> col, value |-> [v |-> kind, of |-> col]]

\* An attribute that is absent is left out, one that is null is written.
Bug_AttributeValues(attrs) == MapSeq(LAMBDA a : Value("attr", a.name), attrs)
AttributeValues(attrs) ==
  MapSeq(LAMBDA a : Value("attr", a.name), Kept(attrs, {i \in DOMAIN attrs : ~attrs[i].absent}))

\* What the data given for relationship r makes the extraction fail with.
RelationshipError(r, data) ==
  CASE data = "omitted" -> "none"
    [] data # "omitted" /\ ~IsManyToOne(r) -> "ManyRelationshipDirectWrite"
    [] data = "many" /\ IsManyToOne(r) -> "RequiredSingleRelationship"
    [] data \in {"null", "absent"} /\ IsManyToOne(r) /\ ~Relation[r].optional -> "MissingRelationship"
    [] OTHER -> "none"

Bug_RelationshipValue(r, data) == Value("null", Relation[r].key)
RelationshipValue(r, data) ==
  Value(IF data = "one" THEN "ref" ELSE "null", Relation[r].key)

\* extract_data_from_ciboulette_request(.., fails_on_many = true): the first
\* relationship that fails, in alias order, decides.
ExtractData(body, t) ==
  LET rels == RelsOf(t)
      bad == Kept(rels, {i \in DOMAIN rels : RelationshipError(rels[i], body.rels[rels[i]]) # "none"})
      given == Kept(rels, {i \in DOMAIN rels :
                             IsManyToOne(rels[i]) /\ body.rels[rels[i]] \in {"one", "null"}})
  IN [err |-> IF bad = <<>> THEN "none" ELSE RelationshipError(bad[1], body.rels[bad[1]]),
      values |-> AttributeValues(body.attrs)
                   \o MapSeq(LAMBDA r : RelationshipValue(r, body.rels[r]), given),
      fields |-> RelFields(t)]

Bug_ExtractRelData(r, data) ==
  [err |-> IF ~IsManyToOne(r) THEN "ManyRelationshipDirectWrite"
           ELSE IF data = "many" THEN "MultiIdsForSingleRelationships" ELSE "none",
   values |-> <<RelationshipValue(r, data)>>,
   fields |-> <<RelField(r)>>]
\* extract_rels_data_from_ciboulette_request: the body of a write to
\* /type/id/relationships/r. Nothing is checked against `optional` here, and
\* a body without data writes, and carries along, nothing.
ExtractRelData(r, data) ==
  [err |-> IF ~IsManyToOne(r) THEN "ManyRelationshipDirectWrite"
           ELSE IF data = "many" THEN "MultiIdsForSingleRelationships" ELSE "none",
   values |-> IF data \in {"one", "null"} THEN <<RelationshipValue(r, data)>> ELSE <<>>,
   fields |-> IF data \in {"one", "null"} THEN <<RelField(r)>> ELSE <<>>]

\* check_insert_request
CheckInsertRequest(body) ==
  IF body.id THEN "ProvidedIdOnInserts"
  ELSE IF ~body.has_attrs THEN "MissingAttributes" ELSE "none"
=============================================================================
