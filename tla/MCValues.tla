------------------------------ MODULE MCValues ------------------------------
(***************************************************************************)
(* Two parameters of every kind, arrays of up to two elements, and arrays  *)
(* and objects inside arrays.                                              *)
(***************************************************************************)
EXTENDS Values

Of(json, text) == Json(json, text, <<>>, json)
NullOf(schema) == Json("null", <<>>, <<>>, schema)
Array(elements) == Json("array", <<>>, elements, "array")

Scalars ==
  {Of("bool", <<"t">>), Of("bool", <<"f">>), Of("number", <<"1">>), Of("number", <<"2">>),
   Of("string", <<>>), Of("string", <<"1">>), Of("string", <<"1", "2">>), Of("uuid", <<"u">>)}
Objects == {Of("obj", <<>>), NullOf("obj")}
Elements == {Of("string", <<"1">>), Of("string", <<"2">>), Of("string", <<"1", "2">>), NullOf("string"),
             Array(<<Of("string", <<"1">>)>>)} \cup Objects
Arrays == {Array(<<>>)} \cup {Array(<<e>>) : e \in Elements} \cup {Array(<<e, f>>) : e, f \in Elements}

Attr(j) == [at |-> "attr", schema |-> j.expected, json |-> j]
Key(j) == [at |-> "key", schema |-> j.expected, json |-> j]
KeyKinds == {"number", "string", "uuid"}

MCSources ==
  {Attr(j) : j \in Scalars \cup Objects \cup Arrays \cup {NullOf(s) : s \in Schema}}
    \cup {Key(j) : j \in {s \in Scalars : s.json \in KeyKinds} \cup {NullOf(k) : k \in KeyKinds}}
=============================================================================
