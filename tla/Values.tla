------------------------------- MODULE Values -------------------------------
(***************************************************************************)
(* Ciboulette2PgValue: the values of a request become the parameters of    *)
(* the query, and these the arguments Postgres is sent: a type, and bytes  *)
(* or NULL. Bytes are a sequence of strings, whatever they encode.         *)
(***************************************************************************)
EXTENDS Integers, Sequences, SequencesExt

CONSTANTS
  Sources,  \* what a parameter may come from
  Count     \* how many parameters a query has

\* An attribute, [at, schema, json], or an identifier or a null in the place
\* of a key, [at, schema, json] with the kind of the key as schema. A JSON
\* value has the schema a null was expected to have in `expected`.
Schema == {"bool", "number", "string", "uuid", "array", "obj"}
Json(json, text, elements, expected) ==
  [json |-> json, text |-> text, elements |-> elements, expected |-> expected]

ASSUME SourcesAssumption ==
  \A s \in Sources : s.at \in {"attr", "key"} /\ s.schema \in Schema

VARIABLES
  sources,  \* what the parameters come from
  params,   \* Ciboulette2PgArguments
  args,     \* PgArguments: [type, null, bytes]
  pc        \* "converting", "adding", "sent" or "panicked"

vars == <<sources, params, args, pc>>

----------------------------------------------------------------------------
(* Conversions *)

Value(kind, some, bytes, elements) ==
  [kind |-> kind, some |-> some, bytes |-> bytes, elements |-> elements]
Some(kind, bytes) == Value(kind, TRUE, bytes, <<>>)
None(kind) == Value(kind, FALSE, <<>>, <<>>)
Panic == None("panic")

Bug_KindOf(schema) ==
  CASE schema = "bool" -> "Boolean" [] schema = "number" -> "Numeric" [] schema = "uuid" -> "Uuid"
    [] schema = "array" -> "Array" [] OTHER -> "Text"
KindOf(schema) ==
  CASE schema = "bool" -> "Boolean" [] schema = "number" -> "Numeric" [] schema = "string" -> "Text"
    [] schema = "uuid" -> "Uuid" [] schema = "array" -> "Array" [] OTHER -> "panic"

Bug_NullValue(schema) == IF schema = "uuid" THEN None("Text") ELSE None(KindOf(schema))
\* The null of an attribute, or of a key: None, of the kind expected.
NullValue(schema) == None(KindOf(schema))

\* TryFrom<&MessyJsonValue>: objects are not implemented, wherever they are.
RECURSIVE TryFrom(_)
TryFrom(j) ==
  LET elements == [i \in DOMAIN j.elements |-> TryFrom(j.elements[i])] IN
  CASE j.json = "null" -> NullValue(j.expected)
    [] j.json = "array" -> IF \E i \in DOMAIN elements : elements[i] = Panic THEN Panic
                           ELSE Value("Array", TRUE, <<>>, elements)
    [] OTHER -> IF j.json = "obj" THEN Panic ELSE Some(KindOf(j.json), j.text)

\* From<&CibouletteId>, and From<&CibouletteIdType> for a null: the kinds of
\* keys are Number, Text and Uuid.
FromKey(j) == IF j.json = "null" THEN NullValue(j.expected) ELSE Some(KindOf(j.json), j.text)

----------------------------------------------------------------------------
(* Encode *)

\* produces(): an array matches on itself once more, where it produces no
\* type, and sqlx falls back to type_info(), which is that of a &str.
Produces(v) ==
  CASE v.kind = "Boolean" -> "BOOL" [] v.kind = "Numeric" -> "NUMERIC" [] v.kind = "Uuid" -> "UUID"
    [] OTHER -> "TEXT"

Bug_EncodeScalar(v) == [null |-> v.bytes = <<>>, bytes |-> v.bytes]
EncodeScalar(v) == [null |-> ~v.some, bytes |-> v.bytes]

\* encode(): an array is what its elements write, one after the other, and
\* NULL when none of them writes anything.
RECURSIVE Encode(_)
Encode(v) ==
  LET elements == [i \in DOMAIN v.elements |-> Encode(v.elements[i])] IN
  IF v.kind # "Array" THEN EncodeScalar(v)
  ELSE [null |-> \A i \in DOMAIN elements : elements[i].null,
        bytes |-> FlattenSeq([i \in DOMAIN elements |-> elements[i].bytes])]

Argument(v) == [type |-> Produces(v), null |-> Encode(v).null, bytes |-> Encode(v).bytes]

----------------------------------------------------------------------------

Init ==
  /\ sources \in [1..Count -> Sources]
  /\ params = <<>>
  /\ args = <<>>
  /\ pc = "converting"

\* A value is extracted from the request and pushed.
Push ==
  LET s == sources[Len(params) + 1]
      v == IF s.at = "key" THEN FromKey(s.json) ELSE TryFrom(s.json)
  IN /\ pc = "converting" /\ Len(params) < Count
     /\ params' = IF v = Panic THEN params ELSE Append(params, v)
     /\ pc' = IF v = Panic THEN "panicked" ELSE pc
     /\ UNCHANGED <<sources, args>>

\* into_arguments: the parameters are taken out, one after the other.
IntoArguments == pc = "converting" /\ Len(params) = Count /\ pc' = "adding" /\ UNCHANGED <<sources, params, args>>
Add ==
  /\ pc = "adding" /\ params # <<>>
  /\ args' = Append(args, Argument(Head(params)))
  /\ params' = Tail(params)
  /\ UNCHANGED <<sources, pc>>
Send == pc = "adding" /\ params = <<>> /\ pc' = "sent" /\ UNCHANGED <<sources, params, args>>

Done == pc \in {"sent", "panicked"} /\ UNCHANGED vars

Next == Push \/ IntoArguments \/ Add \/ Send \/ Done
Spec == Init /\ [][Next]_vars

----------------------------------------------------------------------------
(* Properties *)

SameColumn(i, j) == sources[i].at = sources[j].at /\ sources[i].schema = sources[j].schema
RECURSIVE HasObject(_)
HasObject(j) ==
  \/ j.json = "obj" \/ (j.json = "null" /\ j.expected = "obj")
  \/ \E i \in DOMAIN j.elements : HasObject(j.elements[i])

\* The type an argument is sent with depends on its column alone: not on the
\* value, and not on whether it is null; Postgres is given no two types for one
\* placeholder of one statement (TryFrom, From<&CibouletteIdType>, produces).
TypeOfColumn ==
  pc = "sent" => \A i, j \in 1..Count : SameColumn(i, j) => args[i].type = args[j].type

\* Two values of a column that differ are sent as different arguments, an empty
\* text and a null among them, unless the column is one of arrays (encode).
ScalarsApart ==
  pc = "sent" => \A i, j \in 1..Count :
    SameColumn(i, j) /\ sources[i].schema # "array" /\ args[i] = args[j] => sources[i] = sources[j]

\* What is given up on midway, without an error for the caller, is a request
\* with an object, or a null where an object is expected, at any depth of its
\* attributes, and every one of those (unimplemented!()).
PanicsOnObjects ==
  LET objects == {i \in 1..Count : HasObject(sources[i].json)} IN
  /\ pc = "panicked" => objects # {}
  /\ pc = "sent" => objects = {}
=============================================================================
