------------------------------ MODULE Database ------------------------------
(***************************************************************************)
(* The rows behind the tables, which no code of the repository holds: what *)
(* the statements of the builder are about. A database maps every type to  *)
(* the set of the rows of its table, a row maps columns to cells, a cell   *)
(* is Null or a sequence: the characters of a key, one number for the      *)
(* value of an attribute.                                                  *)
(***************************************************************************)
EXTENDS Sql, Encoding, FiniteSets

Null == <<>>

KeyColumns(t) == {PrimaryKey(t)[i].col : i \in DOMAIN PrimaryKey(t)}
\* The first column of a key is the whole of it for the types that other
\* types refer to.
KeyCell(t, row) == row[PrimaryKey(t)[1].col]
\* The id of a row in a response: its key as a TEXT.
KeyText(t, cells) ==
  LET texts == [i \in DOMAIN cells |->
                  IF PrimaryKey(t)[i].kind = "Text" THEN Encode64(cells[i]) ELSE cells[i]]
  IN FlattenSeq([i \in DOMAIN texts |-> (IF i = 1 THEN <<>> ELSE <<",">>) \o texts[i]])
IdText(t, row) == KeyText(t, [i \in DOMAIN PrimaryKey(t) |-> row[PrimaryKey(t)[i].col]])
HasKey(t, row, id) == \A col \in KeyColumns(t) : row[col] = id[col]

\* Relationship r leads from row a to row b.
Linked(db, r, a, b) ==
  LET t == Relation[r].owner u == RelatedType(r) IN
  CASE Relation[r].kind = "ManyToOne" -> a[Relation[r].key] = KeyCell(u, b)
    [] Relation[r].kind = "OneToMany" -> b[Relation[r].key] = KeyCell(t, a)
    [] OTHER -> \E w \in db[Relation[r].bucket] : /\ w[KeysForType(r, t)] = KeyCell(t, a)
                                                  /\ w[KeysForType(r, u)] = KeyCell(u, b)

----------------------------------------------------------------------------
(* Constraints: keys are unique and there, a reference refers to a row, and *)
(* only an optional relationship may be empty.                              *)

\* The many-to-one links of type t, the ones its table has a column for.
ForeignKeys(t) == {r \in Rel : IsManyToOne(r) /\ Relation[r].owner = t}

Refers(db, r, row) ==
  IF row[Relation[r].key] = Null THEN Relation[r].optional
  ELSE \E b \in db[RelatedType(r)] : row[Relation[r].key] = KeyCell(RelatedType(r), b)

Constrained(db) ==
  \A t \in TableStore : \A row \in db[t] :
    /\ \A col \in KeyColumns(t) : row[col] # Null
    /\ \A other \in db[t] : HasKey(t, other, row) => other = row
    /\ \A r \in ForeignKeys(t) : Refers(db, r, row)

----------------------------------------------------------------------------
(* Changes *)

\* A new row: a column that is given no value is empty, or, for a column of
\* the key, has the value the table generates.
NewRow(t, values, fresh) ==
  [col \in BaseColumns(t) |->
     IF col \in DOMAIN values THEN values[col] ELSE IF col \in KeyColumns(t) THEN fresh ELSE Null]
Changed(row, values) ==
  [col \in DOMAIN row |-> IF col \in DOMAIN values THEN values[col] ELSE row[col]]

\* What the references to rows that are gone become: an optional one is
\* emptied, and a row with another one goes too.
Settled(db) ==
  LET gone(r, row) == row[Relation[r].key] # Null /\ ~Refers(db, r, row)
      emptied(t, row) ==
        [col \in DOMAIN row |->
           IF \E r \in ForeignKeys(t) : Relation[r].key = col /\ gone(r, row) THEN Null ELSE row[col]]
  IN [t \in TableStore |->
        {emptied(t, row) : row \in {w \in db[t] : \A r \in ForeignKeys(t) :
                                                    gone(r, w) => Relation[r].optional}}]

\* A deletion settles the references to what it deletes, and so on until
\* nothing changes.
Deleted(db, t, rows) ==
  LET after[n \in 0..Cardinality(TableStore)] ==
        IF n = 0 THEN [db EXCEPT ![t] = db[t] \ rows]
        ELSE LET before == after[n - 1] IN IF Settled(before) = before THEN before ELSE Settled(before)
  IN after[Cardinality(TableStore)]

\* A database with rows `new` where it had rows `old`.
Replaced(db, t, old, new) == [db EXCEPT ![t] = (db[t] \ old) \cup new]
=============================================================================
