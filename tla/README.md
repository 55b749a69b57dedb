# Ciboulette2Pg: specifications

*Ciboulette2Pg* compiles a typed JSON:API request (*ciboulette*) to **one**
Postgres statement and its parameters, and turns the rows of the answer back
into response elements. This directory models all three: TLA+ modules that
follow the code function by function, an execution of what it generates on
small databases, TLC runs over the schema of the repository's tests and a second
one, and TLAPS proofs for every schema and every request.

Paths below are relative to `src/src/`.

## 1. The system

| Component | Code | State | Operations |
|---|---|---|---|
| Builder | `builder/mod.rs`, `builder/builder_state.rs` | `cte_index`, `params`, `buf`, `working_tables`; the read-only state of the request (main type and table, inclusion map) | `default`, `add_working_table`, `get_new_cte_index`, `build_inclusion_map` |
| SELECT | `builder/select/main.rs` | the builder's | `gen_select` and one function per kind of path |
| Relationship CTEs | `builder/select/rel.rs` | loop variables; writes `working_tables` | `select_rels` |
| Finishing and sorting | `builder/select/{finish,sorting,left_joins}.rs` | takes `working_tables` | `finish_request`, `gen_cte_main_final_sorting`, `gen_select_cte_final`, `gen_left_join` |
| Clauses | `builder/select/{json,utils,inner_joins}.rs`, `builder/{utils,table_field,additional_fields,relating_field}.rs` | pushes to `params`, writes `buf` | `gen_select_cte`, `gen_inner_join`, `gen_json_builder`, `compare_pkey`, `insert_params` |
| INSERT, UPDATE, DELETE | `builder/{insert,update,delete}/` | the builder's | `gen_insert`, `gen_update_main`, `gen_update_rel`, `gen_delete` |
| Data extraction | `builder/extracting_data/` | none | values to write, fields to carry along, refusals |
| Tables, identifiers | `table_store.rs`, `safe_ident.rs` | none after start-up | lookup, `to_cte`, escaping, modifiers, printing |
| Parameters | `value.rs` | none | conversions from JSON values and keys, `encode`, `produces` |
| Rows | `ciboulette_row.rs` | none | `from_raw`, `build_response_elements`, `check_identifier` |
| External | crates *ciboulette*, *sqlx*, Postgres | the store, the database | typed requests, execution |

A request goes `gen_*` → (`extract_*`) → write and data CTEs → `select_rels` →
main select (directly, or through the final CTE when there is sorting) →
`finish_request` → `build`. The caller sends the statement and its arguments
through *sqlx*, and hands the rows to `from_raw` and `build_response_elements`.

A builder is owned by one call; nothing is shared but the two read-only stores
and the database, there is no callback, no retry and nothing persisted. The
builder never looks at the database: other clients write to it until the
statement runs, so everything the request promises has to be in that one
statement, which runs as a whole or not at all. What is hard here is that this
statement is written by some thirty functions that communicate through four mutable
fields, so that each of them relies on what the others have already
written, pushed or stored:

- names: a CTE is named, written, and used in three different places;
- placeholders: a number is the length of `params` at the time of writing;
- columns: what a CTE must expose is decided by joins and sorts written later;
- `working_tables`: one map, keyed by chain, that chains overwrite for their
  common prefixes, that one caller uses for its old value, and that the final
  sort reads;
- punctuation: who writes a comma, a parenthesis, a `UNION ALL` is a convention;
- errors discovered after half of the statement is written;
- a statement that is well formed can still join the wrong columns, lose or
  repeat rows, or read a table as it was before its own write.

`PROJECT.json` lists every hazard at its line with the property that covers it,
or the reason why none does.

## 2. The modules

| Module | What it models |
|---|---|
| `Store` | CONSTANTS for the ciboulette store (types, relationships, keys) and the table store, with their assumptions; the accessors the builder calls; the order of chains in a map |
| `Request` | the typed request: response types, paths, the inclusion map, the extraction of values and fields |
| `Sql` | tables and CTEs, column references, joins, filters, select lists, tokens |
| `Builder` | the builder itself: state, one action per generating function or loop iteration, refusals |
| `BuilderProperties` | what a statement must be: types, names, columns, parameters, writes, punctuation, sorting; the inductive invariant `IInv` |
| `QueryPlan`, `BuilderPlan` | the abstract specification (a request is refused, or answered by its sections, each once, the main one first), and the refinement mapping from `Builder`; termination |
| `Encoding`, `Database` | external: `ENCODE(.., 'base64')`; tables, cells, constraints, what a deletion does to references |
| `Postgres` | external: what the statements of the builder do and return on a database |
| `Rows` | `check_identifier` and `build_response_elements` |
| `Execution` | a request from end to end: `Builder`, `Postgres` and `Rows` composed, with other clients |
| `Api` | the abstract specifications of that, without statements: what a request does to a database and answers (`ApiSpec`), and what it does to it alone (`EffectSpec`) |
| `ExecutionProperties` | the two refinements of `Api`, refusals, order, rows and elements |
| `Idents` | checking, escaping, modifiers, printing of identifiers, and how Postgres reads them |
| `Values` | parameters: conversions, encoding, the arguments sent |
| `BuilderClaims`, `ExecutionClaims` | what the documentation says and the code does not do |
| `SequenceFacts` | lemmas about sequences that are joined and flattened |
| `BuilderProofs`, `StatementProofs`, `ParameterProofs`, `PlanProofs`, `ColumnProofs`, `ExecutionProofs`, `IdentProofs` | the theorems |
| `MCSchema`, `MCBuilder`, `MCExecution`, `MCForum`, `MCIdents`, `MCValues` | the instances TLC runs on |

By EXTENDS: `Store` ← `Request` ← `Sql` ← `Builder` ← `BuilderProperties` ←
`BuilderPlan` ← `BuilderClaims` ← `MCBuilder`, and `Sql`, `Encoding` ← `Database`
← `Postgres`. `Execution` extends `BuilderProperties`, `Postgres` and `Rows`;
`MCExecution` extends `MCBuilder` and `ExecutionClaims`, `MCForum` extends
`MCExecution`. By INSTANCE: `BuilderPlan` takes `QueryPlan`,
`ExecutionProperties` takes `Api`. `Idents` and `Values` stand alone: `Sql` keeps
a name as the words it is made of and a parameter as what it is bound to, and
these two modules are about what is below that. The proofs: `BuilderProperties` ←
`BuilderProofs` (with `SequenceFacts`) ← `StatementProofs` and `ParameterProofs`;
`ParameterProofs` ← `PlanProofs` (with `BuilderPlan`) ← `ColumnProofs`;
`ExecutionProofs` extends `Execution`, `StatementProofs` and `ColumnProofs`,
`IdentProofs` extends `Idents` and `SequenceFacts`.

### The builder: state and actions

| Variable | Code |
|---|---|
| `req` | the request, with the path, the query and the body |
| `cte_index`, `params`, `buf`, `working_tables` | the fields of `Ciboulette2PgBuilder`; `buf` is a sequence of tokens |
| `main` | `main_cte_data` |
| `todo`, `at` | what `select_rels` has left of its map, and its loop variables (`included_list`, the index, `current_table`, response type, sort fields) |
| `taken` | the working tables `finish_request` took and has not gone through |
| `pc`, `err` | where the generation is, and the `Err` it returned |

| Action | Code |
|---|---|
| `GenSelect` | `gen_select` up to `select_rels`, for `Type`, `TypeId`, `TypeIdRelated` paths |
| `GenSelectRelationships` | the same for `TypeIdRelationship`: the linkage CTE and the owner's |
| `GenInsert`, `GenUpdateMain`, `GenUpdateRel` | the write CTE and the data CTE; `GenUpdateRel` also makes the one-entry inclusion map |
| `GenDeleteNormal`, `GenDeleteRel` | the plain `DELETE`, and the `UPDATE ... SET key = NULL` for any relationship the alias may resolve to |
| `Refuse`, `RefuseRel`, `RefuseSort` | every early return before, in, and after `select_rels`, first error first |
| `NextEntry`, `SelectRel` | an iteration of the outer and of the inner loop of `select_rels` |
| `FinishMain`, `FinishMainSorted` | the main select, without and with the final CTE; with it the swap of `working_tables` by `gen_update_rel` |
| `FinishTable`, `Build` | an iteration of the loop of `finish_request`; `build` |

An action stands for everything its function does before it hands over. The
builder is not observable in between (a caller gets it, or the error), so the
steps are chosen where the loops are.

### Execution

| Variable | Meaning |
|---|---|
| `db` | the database: of every table the set of its rows |
| `given` | the values the request holds: the id of its path, attributes, references, the key a new row gets |
| `phase` | `generating`, `sent`, `ran`, `rejected`, `read`, `unread` |
| `rows`, `elements` | what Postgres returned; what the rows were made into |

| Action | Code |
|---|---|
| `Generate` | a step of `Builder` |
| `Send` | `build` has returned; the database is by now any of `Databases` |
| `Run` | Postgres runs the statement on it, or rejects it and nothing happens |
| `Read`, `ReadFails` | `from_raw` and `build_response_elements`; an element the crate *ciboulette* refuses to build |

The rows of a request are looked at nowhere before `Run`, so that everything
other clients do between two steps of the generation is the one choice of `db`
in `Send`, together with that of the values.

`Api` has the same database and no statements: `Serve` does to it what the
request says, in one step, and answers the rows found by following
relationships from row to row in the database it leaves; `Refused` does nothing;
`OthersWrite` is what stands for other clients until then. `TakeEffect` is `Serve`
without the answer: `EffectSpec` is what is promised to whoever looks at the database
and never at the response, and it is promised of more requests.

Assumed of Postgres, as the code in `src/` relies on it: a statement is atomic;
all its parts read one snapshot, and what a data-modifying CTE writes is seen by
the others only through its RETURNING; a WITH query that writes runs whether it
is read or not; `UNION ALL` keeps the order of its selects, and that of an
ordered one; NULL equals nothing, comes last in ascending order; a name is
ambiguous when two tables in scope have it; identifiers are cut at 63 bytes;
base64 text is broken into lines of 76. On deletion an optional reference is
emptied and the row of a mandatory one goes too, the constraints that
`tests/delete/delete_success.rs:45` sets up.

### Identifiers and parameters

`Idents` has the identifier as `given` and as escaped (`ident`), and the names of
the CTEs `made` so far; an action is one operation of `safe_ident.rs` or
`to_cte`: `TryFrom`, `AddPrefix`, `AddSuffix`, `AddIndex`, `Copy`, `ToCte`,
`Refuse`. `Name` is the reference definition: how Postgres reads a quoted name.

`Values` takes `Count` parameters from their `sources` to `params` (`Push`) and
from there to `args` (`IntoArguments`, `Add`, `Send`); an object anywhere panics
(`unimplemented!`, `value.rs:72`).

### Abstractions

An identifier is the sequence of the words that are joined by `_`. A statement
is a record of the clauses it has. A select list is its output columns, each
with the references and placeholder numbers of its expression; casts, quotes and
schema names are left out. A parameter is what it is bound to (an id column, an
attribute, a foreign key, a JSON key, a type name, a chain). The literal `NULL`
of a deletion is the placeholder 0. The final CTE has a fixed name and is not
marked as a CTE in the code (`Ciboulette2PgTable::new`): `FinalTable` keeps that.
A cell is empty (NULL), a number, or the characters of a key. In `Rows` the
position of a character stands for its byte: identifiers are UUIDs, numbers or
base64, all ASCII, so the slice of `ciboulette_row.rs:70` is at a boundary.

Operators called `Bug_...` are seeded faults, each a small change of the
operator that follows it. They are used by no specification: replacing the
operator by its faulty form must make the property listed with it under
"mutants" fail, which shows that the property can.

## 3. The runs

The tests' store: `peoples`, `articles`, `comments`, `favorite_color` and the
bucket `people-article`, with their keys and relationships, at most two
attributes per type, plus `ghosts`, a type that has no table. It has every kind
of relationship in both directions, two to-one relationships out of one type, a
many-to-many through a bucket, relationships with and without `optional`. The
forum (`MCForum`) has what that store lacks: two relationships to one type
(`author`, `reviewer`), one from a type to itself (`parent`, `replies`), a key
column with another name than its relationship, names that meet when joined; and
`tags`, alone, have a Text key.

| Run | Instance | Checks | States |
|---|---|---|---|
| `statements` | `MixedRequests`: reads of `comments`, the bucket and `favorite_color` by all four kinds of path, with two included chains of up to two links, or one and a sorting element, or two sorting elements; several elements of one chain; sparse fields, known and unknown; creations, updates and deletions of every type with every body | the type invariant, eleven safety properties of the statement, and `IInv` | 25 000 |
| `plan` | `PlainRequests`: reads of `comments` and `peoples` and all their writes, with plain sorts | refinement of `QueryPlan`, termination | 15 000 |
| `served` | `BothRequests` on 37 databases: both stores side by side; reads of each with one include (two in the forum), writes to every type with two, sorts, sparse fields, every body and keys that are there or not | refinement of `Api` and of its effects, two properties of what is refused, four of rows and elements | 177 000 |
| `idents` | names with every kind of character, names like what is put around them, names of 54 characters and, with modifiers, over 63; two CTEs | `ReadsBack`, `CtesApart` | 116 000 |
| `values` | every pair of 8 scalars, nulls of every schema, keys, arrays of up to two elements nested twice, objects | `TypeOfColumn`, `ScalarsApart`, `PanicsOnObjects` | 29 000 |
| `included`, `nested_sort`, `composite_filter`, `text_key`, `related_type`, `stale_include`, `delete_alias` | requests that meet the case | expected violations, see 4 | |

Every request of `statements`, `plan` and `served` ends in a statement or an
error; the only stuttering is at the end (`Terminated`, `Done`, `Refused`), so
deadlock is checked everywhere: nothing gets stuck on the way.

Why these bounds are enough to meet the cases that matter: `working_tables`
conflicts need two chains with a common prefix, which two chains of up to two
links have in every shape (equal, one a prefix of the other, same first link,
disjoint); a table's position in a chain matters only as first (from the main
CTE), middle or last; the order of sorting elements shows with two, and three of
two chains are included; all the branches of the joins are taken from a base
table and from a CTE. Two rows per table are what a wrong join, a lost filter, a
repetition or a wrong order shows on. The databases of `served` are the empty
one and 36 others: two authors or one, no, one or two articles commented on, a
person without and with a color, a bucket table empty, with one article of two
people, and with both shared unevenly; beside each stands a forum with a reviewer or
none, a thread of posts that ends or is a circle, and six tags whose encoded keys
hold "/" or "+", differ in that digit alone, or fill a line and overflow it
(lines of 8 instead of 76, to keep the keys short). Nothing counts up but
`cte_index` and the number of parameters, which the requests bound; `Idents` is bounded by
`MaxCtes` and `Values` by `Count`, and properties of both compare two.

The properties, with the question each answers:

- `CteNamesUnique`, `DefinedBeforeUse`: does every CTE have a name of its own,
  and is everything that is read, joined or returned written before?
- `ColumnsResolve`: does every reference name a column that exactly one table in
  scope exposes, for joins, lists, filters, SET and VALUES, the final CTE, and
  the ORDER BY?
- `PlaceholdersInOrder`, `ParamsAligned`: are the placeholders `$1, $2, ...` in
  the order they are printed in, and is each one of a filter, a SET, a VALUES or a
  JSON key bound to the value meant there? (What rows are labelled with is for
  `SortsByTheChain` and `ImplementsApi`.)
- `WritesInPlace`: does a statement write in one place at most, to the table of
  the path and the row its whole key names, and a read in none?
- `WritesAsAsked`: are exactly the columns written that the request gives, and
  none when it gives none?
- `Punctuated`: is the buffer, at every step, the beginning of a statement?
- `ChainsHaveParents`, `UnknownErrorOnlyWritingRel`: can the final sort fail on
  a chain that is not there? (Only for a write to a relationship that is sorted
  by something of the related type: `gen_update_rel` does not build the chain.)
- `MultiSortRefused`, `SortsByTheChain`: are sorts through to-many relationships
  refused, and the others read from the rows their chain leads to, in order?
- `ImplementsPlan`: is everything that was asked for answered, once, and nothing
  that was only there for the joins or the sorting?
- `Ends`: do the loops end? (They go over finite maps: this judges the model, which
  must not get stuck, more than the code.)
- `ImplementsApi`: whatever others write before the statement runs, does it do
  in one step what the request says, and answer the rows its relationships lead
  to in the database it leaves?
- `ImplementsEffects`: whatever it answers with, does a statement change the rows its
  request names, to the values it gives, each in its column, and no other, with the
  constraints kept?
- `RefusedForCause`: does Postgres refuse only what would break a constraint, and
  three shapes of request (`Unfit`, see 4)? `UnfitRefused`: and these three
  whatever is in the database?
- `SortedAsAsked`, `RowsOnce`: judged by the rows themselves, is the main data in
  the order asked for, the rows without the relationship sorted by among it, and
  no row there twice?
- `RelatedAnswered`: is what an element is related to in the same response,
  under the same id? (No relationship leads to `tags`: for a Text key it would not
  be, see 4.)
- `IdsApart`: are ids URL-safe, and do rows with different keys keep different
  ones through encoding, line breaks and replacement?
- `ReadsBack`, `CtesApart`: does Postgres read the names that were given, and
  tell the CTEs apart unless it cuts one of their names?
- `TypeOfColumn`, `ScalarsApart`, `PanicsOnObjects`: does the type of an argument
  depend on its column alone, do different values stay different, and is it only
  objects that nothing is sent for?

**Premises.** Outside of them the code does not do what its documentation says:
those are the cases of section 4.

- `PlainSorts`: no element twice, chains of at most one link, and nothing
  further included through them. `PlainKeys`: the keys of the types the request is
  about (that of its path, those its chains go through: `TypesSeen`) are single
  columns called `id` and not a Text.
- `SelfJoined`, `NamesMeet` (excluded from `ColumnsResolve`, refused in
  `UnfitRefused`): a table joined to itself without an alias, sort columns of
  one name.
- `SaysWhat`: a write to a relationship says what to write. `OnlyAlias`: the
  relationship that is deleted is the only one to its type.
- `SortedByPath`: a write to a relationship of a type to itself is not sorted by
  this relationship. A deletion is sorted by nothing.
- `SortsAside`, `LabelsApart` (for the refinement of `QueryPlan`): a chain that is
  sorted by and not included goes through no included rows, and what is answered
  has labels of its own.
- `ServedPlainly` (the requests of `served` in the tests' store): plain sorts, no
  composite key in the path or passed through by a chain, and no write whose
  chains come back to the type it writes. In the forum, no two included chains
  that leave a post (one is enough to meet every join of its relationships),
  and deletions of relationships only of `team`, the only one to its type.
- `RowsOnce` is about includes of one link: through something else that is
  included, a row is answered once for every way it is reached.

**Fairness.** `Spec` of `Builder` has weak fairness of `Next`. The generator is
straight-line code in one call: while it can take a step it does. Only `Ends`
needs it. `ExecSpec`, and those of `Idents` and `Values`, state none: a caller
may drop the builder, the connection may never answer, and no code here retries
or times out.

## 4. Where the code and the documentation disagree

| Run | What it shows |
|---|---|
| `included` | include `author` and sort by `author.color`: the entry of `[author]` in `working_tables` is overwritten with the response type of the longer chain, None, and the author is not answered |
| `nested_sort` | sort by `author.color`: the colour's column is also selected from `peoples` |
| `composite_filter` | the comparisons of a composite key have no AND between them |
| `text_key` | the `id` of a type with a Text key is not qualified, and ambiguous as soon as a table is joined |
| `related_type` | at depth two, `related_type` is the type, where the documentation says the chain |
| `stale_include` | update a comment and include `author.comments`: the comment is answered twice, with its new data and with its old |
| `delete_alias` | delete the mandatory `author` of a post: `get_alias` may return the optional `reviewer`, whose key is set to NULL |

Each run checks one property that holds of what the quoted text says and fails
of what the code does; `PROJECT.json` quotes the lines.

Two more cases of these properties, each seen by changing one line of the cfg:

- `SortsResolve` with `Requests <- SortedPrefixes`: sort by a field of `article`
  and include `article.comments`; the CTE of `[article]` is replaced by one
  without the sort column, which the final CTE still reads
  (`select/rel.rs:64`).
- `IdentifiersResolve` with `Resource <- CompositeResource`: the `related_id` of
  rows reached from a type with a composite key is one quoted name made of all
  its columns (`select/finish.rs:176`).

Met while modelling, and without a run of their own:

- `select/inner_joins.rs:165`: the path of a relationship from a type to itself
  joins its table without an alias; Postgres refuses it (`SelfJoined`).
- `select/finish.rs:306`: two sorts may have one name, `author` with
  `team_name` and `author_team` with `name`, or one element twice; the ORDER BY
  is ambiguous (`NamesMeet`). It was the proof of `ColumnsResolve` that showed the
  third case: the main data is carried with `sort_author_name` for an attribute
  `author_name` it is sorted by, and the final CTE adds a column of that name for
  the `name` of its `author`.
- `extracting_data/rels/many_to_one.rs:72`: a write to a relationship whose data
  is absent is an UPDATE with an empty SET, where an update of the main type
  without values is a SELECT (`SaysWhat`).
- `select/json.rs:31`: a member that is an object is `NULL::json` without a key
  in front of it, which shifts the arguments of JSON_BUILD_OBJECT; no row can be
  read (`KeylessJson`).
- `update/rel.rs:104` stores the row that was written with the response type Id,
  described as identifiers only; it is answered with its attributes. `Api` says
  what the code does.
- `ciboulette_row.rs:74` makes the `id` of a row URL-safe and leaves `related_id`
  alone, and `select/finish.rs:176` does not encode it at all: for a Text key they differ.
- `utils.rs:112`: the key inside `ENCODE(...)` is the one identifier printed
  without quotes; a column named otherwise than in lower case letters, digits
  and `_` is refused or read as another.
- `update/rel.rs:104` again: an update of the relationship of a type to itself,
  sorted by this very relationship, reads the sort column from the CTE of the
  row that was written, which has no such column (`SortedByPath`).
- `delete/mod.rs` never looks at the sorting of its request: a deletion sorted
  through a to-many relationship is compiled, where every other request is
  refused (`MultiSortRefused`).
- `select/finish.rs` labels the rows of a chain by the aliases joined: two chains
  of different aliases may be labelled alike, and so may a chain and the main
  data (`LabelsApart`).
- `table_store.rs:133`: the index at the end of a CTE's name is the first thing a
  cut takes. With ten CTEs or more one cut name is enough to meet one that is
  whole: `..._data_1` of 63 bytes and `..._data_10` of 64. `CtesApart` excepts
  names that are cut; it was the proof that asked for the exception to be for
  either of the two and not for both.
- `value.rs:153`: the elements of an array are written one after the other,
  without a header or lengths: `["1", "2"]` and `["12"]` are the same bytes.

## 5. The proofs

For every store, table store and set of requests that satisfy the assumptions of
`Store` and `Builder`; for those of `ExecutionProofs` every set of databases, and
for those of `IdentProofs` every set of names, of any length:

| Module | Theorem | Statement |
|---|---|---|
| `BuilderProofs` | `Invariant` | `Spec => []IInv` |
| | `TypeCorrect` | `Spec => []TypeOK` |
| | `NamesAreUnique` | `Spec => []CteNamesUnique` |
| | `UsesAreDefined` | `Spec => []DefinedBeforeUse` |
| | `ParentsAreThere` | `Spec => []ChainsHaveParents` |
| | `MultiSortsAreRefused` | `Spec => []MultiSortRefused` |
| | `LinksAreFound` | `Spec => []UnknownErrorOnlyWritingRel` |
| `StatementProofs` | `StatementsPunctuated` | `Spec => []Punctuated` |
| | `OneWriteInPlace` | `Spec => []WritesInPlace` |
| | `WrittenAsAsked` | `Spec => []WritesAsAsked` |
| `ParameterProofs` | `PlaceholdersAreInOrder` | `Spec => []PlaceholdersInOrder` |
| | `ParametersAreBound` | `Spec => []ParamsAligned` |
| `PlanProofs` | `SortsFollowChains` | `Spec => []SortsByTheChain` |
| | `BuilderImplementsPlan` | `Spec /\ SortsAside /\ LabelsApart => ImplementsPlan` |
| `ColumnProofs` | `ColumnsAreResolved` | `Spec => []ColumnsResolve` |
| `ExecutionProofs` | `ExecutionInvariant` | `ExecSpec => []ExecInv` |
| | `WholeStatementsAreSent` | what Postgres is handed is whole, punctuated, its CTEs named apart and written before they are used, its columns resolved, its parameters bound in order, and writes in place what was asked for; and nothing changes it after |
| | `RunsInPlace` | running the statement of a read leaves the database as it is, and that of any other request but the deletion of a row leaves every table but the one of the path as it is |
| | `EffectInvariant` | `ExecSpec => []EffectInv` |
| | `EffectIsImplemented` | `ExecSpec /\ OnlyAlias => ImplementsEffects` |
| | `RefusalsHaveCause` | `ExecSpec => [](Servable => RefusedForCause)` |
| `IdentProofs` | `NamesReadBack` | `Spec => []ReadsBack` |
| | `CtesKeepApart` | `Spec => []CtesApart` |

Assumptions: `ResourceAssumption`, `RelationAssumption`, `RankAssumption`,
`TableStoreAssumption` (the shape of the two stores; a relationship joins types of
the store, and those of a type are in an order), `ColumnsAssumption` (the tables
are those of the store: a many-to-one link of a type has a column of its own
there, the key a one-to-many link names is one of its other end, and a bucket is a
third table that links to both ends), `RequestsAssumption` (chains are sequences of
relationships; a path names one relationship or none; the body of a write to a
relationship is one of those the parser makes) and `FieldsAssumption` (*ciboulette*
has checked names against the schemas: sorting elements name a field of the type
they lead to, a body names attributes of its type, each once). For `Execution`:
`DatabasesAssumption` (a database is a finite table of rows for every type that has
one, with the columns of that type, and its constraints hold) and
`CreationAssumption` (a creation is asked for at the path of a type). For `Idents`:
`TextAssumption` and `CharAssumption` (names are made of characters),
`LimitAssumption`, and `NumeralAssumption` (numbers are printed in digits, no two
alike). TLC evaluates them in every run.

Two theorems are about some of the requests. `OnlyAlias` is needed for what
a deletion by alias clears (the run `delete_alias` shows why). `Servable` adds the
requests whose statements can be expected to run: `PlainSorts`, `PlainKeys`, and
`PlainMembers`, that no member asked for is a nested object, which is written
without its key (`KeylessJson`, see 4). The requests of `served` are among them
but for those about `tags`, whose key is a Text, or the bucket, whose key has two
columns; requests about composite and Text keys that fail are those of the runs
`composite_filter` and `text_key`.

None of these properties is inductive.

**Names, definitions, chains** (`BuilderProofs`). `CteNamesUnique` needs that indices
already given are below `cte_index` and that the one CTE without an index, the
final one, is written once, after `select_rels` (`Numbered`). `DefinedBeforeUse`
needs that every table the builder holds on to (`main`, the current table of
`select_rels`, the working tables, those that were taken) is one it has written
(`HandlesWritten`), and for the final CTE that every link of a sorted chain has a
working table, which `SortErrors` tests. `ChainsHaveParents` needs that
`select_rels` has stored every link of its chain it is past (`Climbing`).
`GenUpdateRel` adds one fact of its own: its only chain is still to be done, being
done, or stored (`Relating`), so that the table it swaps out exists. `IInv` is the
conjunction of the request's type, `TypeOK`, and these; it is also checked by TLC.

**Punctuation and writes** (`StatementProofs`). `Punctuated` says of a buffer that
every token may follow the one before. Which token is last when a function takes
over is a convention between some ten functions: `Stages` writes it down (a CTE
when `select_rels` runs, a select or a whole deletion when `finish_request` does),
with the reason a deletion gets nothing appended: it has no working tables.
`WritesInPlace` is inductive beside those two, as long as the buffer is empty when
a generating function starts (`Stages`): only the first tokens of a statement may
write (`FirstWrite`), all that come later read (`ReadingKeeps`). That the table
written is the one of the path rests on a path with an id naming no relationship
for an update of the main data, and on the guard of `handle_delete_rel` on the end
that holds the key. The model of Postgres takes one write of a statement and no
second (`Leaves`): this theorem is why it may. `WritesAsAsked` adds to it
(`AskedInv`) that the first statement is as asked as soon as the buffer is not
empty; it comes down to what `ExtractData` keeps of a body (selections over the
attributes and the relationships of a type) and which columns `SetList` makes of
that, in the same order.

**Parameters** (`ParameterProofs`). `ParamsInv` says that the placeholders printed so
far are 1 to the length of `params`, that each is bound to what the clause it
stands in means, and that what is bound stays bound when more is pushed. Every
action appends tokens whose placeholders begin where `params` ended (`Carries`);
the lemmas are about the order in which the clauses of a statement are printed:
the list, then SET or VALUES, then the filter.

**Sorting** (`BuilderProofs`, `PlanProofs`). The error of a sort is that of the first link
that has one, in an order of chains the store gives; `RefusalInv` says that a
refusal is one of these errors, and that a statement with a final CTE had none.
That the working table of every link is found is the invariant of `select_rels`
(`GoesThroughSorts`): every chain sorted by is still to be taken, is the one at
work, or has a working table for every link. `SortsByTheChain`
needs beside it that the type column of every working table is bound to the label
of its chain (`AnswerInv`), however often a chain was overwritten by another with
the same prefix: that label is what tells which rows a column is read from.

**The plan** (`PlanProofs`). `PlanInv` says that what the selects of the buffer send and
what is pending in `taken` is what was asked for, nothing of it twice
(`SendsTheRest`), and before that, which chains `select_rels` goes through and
with which response types (`FollowsChains`, `ServesChains`). The functions before
`finish_request`, and the tables that answer nothing, stutter. The response type of a chain is the one it was entered with only if no
longer chain overwrites it, which is `SortsAside`; `LabelsApart` makes sections of
different chains different.

**Columns** (`ColumnProofs`). `ColumnsResolve` is about what is written early and read
late: a data CTE is closed long before `select_rels` joins it, the final CTE sorts
by it, and a select returns it. `ColumnInv` says for the requests it is about
(`Fit`) that every token already written resolves (`AllRead`), and that every table
the builder still holds exposes, once, what is going to be asked of it: the five
columns of a response and `main_id` (`Carried`), the key of a link that leaves from
it (`Leads`), the columns of the sorting elements of its chain (`ShowsSorts`), and
none named like a column the final CTE will add (`HidesAliases`). Which link
leaves from a table is known from the chains that are still to be gone through
(`TargetChains`, `MapHeld`, `ChainHeld`). That a name is exposed once comes down to
the lists of a data CTE being without repetition and apart from each other
(`IsInjective`): the six fixed names, those with `rel_` and those with `sort_` in
front. A CTE that was written exposes later what it did (`StmtStays`, `ShowsStays`,
`CarriedStays`), since names are unique. The keys that are compared and joined are
those of types the request goes through (`LinksSeen`, `KeysSeen`): what the others
are like does not matter. The cases are then the scopes: a base table joined with a CTE, a bucket
between them, the final CTE with one table for each chain, whose tables are apart
because their chains are (`TablesHeld`); and the swap of `gen_update_rel`, where the
row that was written takes the place of the table of its chain.

**Executions** (`ExecutionProofs`). `ExecutionInvariant` carries these invariants over
to `ExecSpec`: a step of an execution is a step of the builder or one it does not
see, and the builder has come to its end when the statement is sent.

`EffectIsImplemented` compares two descriptions that have nothing in common: what
Postgres makes of the tokens (`Leaves`, with its scopes, filters and parameters),
and what the request says (`Effect`, rows by their key and values by their column).
What connects them is an invariant of the generation (`MadeInv`): a statement that
writes has its own table alone in scope and filters on its key (`Alone`), the value
bound to each column it sets is the one asked for it (`Meant`), and once the
generator is past its checks, these have shown that there is a table to write and a
column for every relationship a body gives (`Accepted`, `OnlyLinksGiven`). With the bindings
of `ParamsInv`, the columns of `AskedInv` and the place of `WritesInPlace`, the
rows that pass the filter are those named (`TouchesNamed`), what they are set to is
what is given (`SetsGive`), and the table that results is the one promised
(`EffectIs`, `LeavesEffect`). Nothing is assumed of the database between the
generation and the run but the constraints, so that other clients may do what they
want until then. The theorem is about more requests than `served` has: those with
keys of several columns or chains that come back to the row that is written.

`RefusalsHaveCause` goes through the reasons for which Postgres refuses in the
model. A statement parses: the filters of a plain key have one comparison
(`ColumnInv`), and one that sets nothing is `Unfit` (`AskedInv`). Its columns are
found (`ColumnsSuffice`). Its JSON objects have a key for every member: the
invariant `MembersInv`, where a data CTE is given lists that hold no objects
(`DataHasKeys`). What is left is a constraint, and since what the statement leaves
is what the request says (`LeavesEffect`), it is the request that breaks it.

**Identifiers** (`IdentProofs`). `ReadsAs(u, x)`: the escaped text `u`, between
quotes, is read as `x`. It holds of a character and itself, of two quotes and one,
and of what is joined from two texts it holds of, which is why parts can be escaped
one at a time and joined after: no part ends in half a quote (`Doubled`). The
invariant (`IdentInv`) is that every part of the identifier reads as the part that was
given, and is empty when it is; and that every CTE's name ends with "_" and its
number, in which there is no "_".

The proofs have one lemma per action (`GenSelectInv`, ..., `BuildInv`). They rest
on lemmas about a buffer and an extension of it (`CtesOfConcat`,
`UsesDefinedConcat`, `NamesUniqueConcat`, `ChainedConcat`), which others
specialise to what the actions append, and on those of `SequenceFacts`. These
reason about `FlattenSeq`, which is a recursive function, without an induction
rule: of the positions where a claim fails there would be a least one (`LeastNat`,
`Climb`).

Only model-checked: liveness (`Ends`, and the termination it gives), out of the
prover's reach; what a request is answered with (`ImplementsApi`; its effect on the
database is proved), and what else is said of rows and elements (`SortedAsAsked`,
`RowsOnce`, `RelatedAnswered`, `IdsApart`), which is about the rows of joins of
joins and was left to TLC; `UnfitRefused`, which is about what Postgres does and not
only about what is sent; and the properties of `Values`, which go through trees of
JSON by recursion (`RECURSIVE` operators, induction over data).

## 6. Not modelled

- Casts, schema names, the wire format of scalars, `size_hint` (a capacity),
  the messages of errors, number, UTF-8 and I/O errors, the derived conversions.
- The `multi_relationships` of the extraction, computed and read by no
  generator; `new_cte`, called by tests only.
- The filling of the table store: it happens before any request, and is a
  constant here.
- Response types beyond the three a working table has: the conversion from
  *ciboulette*'s type fills a field no generator reads.
- Keys that hold a backslash, which BYTEA reads as an escape (`utils.rs:113`).
- Two statements running at the same time: an isolation level decides what the
  parts of one see of the other, and the code sets none. Other clients are
  between the generation and the run, where the code itself leaves room.
- `examples/insert.rs`, commented out from its first line to its last.

## 7. Plan

Done: the builder and its plan, the execution on a database with other clients
and its abstract specifications, a second store, identifiers, parameters, rows;
the theorems of section 5, among them the effect of a request and the reasons for
which it can be refused.

Left: proofs of the properties of `Rows` that need no database (`IdsApart`), and of
what a request is answered with.
