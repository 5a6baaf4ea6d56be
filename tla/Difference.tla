----------------------------- MODULE Difference -----------------------------
(***************************************************************************)
(* The data of a sync, as functions: what the comparer finds between two   *)
(* snapshots of a sheet, and what the loader makes of it in the data       *)
(* source's table.                                                         *)
(*                                                                         *)
(* A snapshot is what a downloader uploads for one version: the type of    *)
(* each field and the cells of each row, the rows known by their ids. A    *)
(* field is named by a hash of its header, and only the order of the       *)
(* hashes matters: fields are numbers in that order. Of the types String   *)
(* and Number are kept (Date is compared as String, Boolean like Number    *)
(* has a default that is a value).                                         *)
(***************************************************************************)
EXTENDS Naturals, FiniteSets

Blank == ""
ErrorValue == "__Error"
Types == {"String", "Number"}

\* A value of the destination table, and what an empty cell becomes there.
Null == [type |-> "null", raw |-> Blank]

\* The empty snapshot: there was no previous version.
NoSnapshot == [type |-> << >>, rows |-> << >>]

FieldsOf(s) == DOMAIN s.type
IdsOf(s) == DOMAIN s.rows

Value(s, id, f) ==
  IF s.rows[id][f] = Blank THEN Null ELSE [type |-> s.type[f], raw |-> s.rows[id][f]]

-----------------------------------------------------------------------------
(* The comparer                                                            *)

\* assumeNotNull: the default of the type in the place of a null.
AssumeNotNull(s, id, f) ==
  IF s.rows[id][f] # Blank
  THEN Value(s, id, f)
  ELSE [type |-> s.type[f], raw |-> IF s.type[f] = "Number" THEN "0" ELSE Blank]

\* The i-th of a set of fields in the order of their names.
FieldAt(F, i) == CHOOSE f \in F : Cardinality({g \in F : g < f}) = i - 1

\* cityHash64 of the row's values in the order of the fields, taken to be
\* injective. (The id is hashed with them and is the same in both rows.)
RowHash(s, id) ==
  [i \in 1 .. Cardinality(FieldsOf(s)) |-> AssumeNotNull(s, id, FieldAt(FieldsOf(s), i))]

AddedIds(p, c) == IdsOf(c) \ IdsOf(p)
DeletedIds(p, c) == IdsOf(p) \ IdsOf(c)

\* The diff table: the rows of both whose hashes differ.
ChangedIds(p, c) == {id \in IdsOf(p) \cap IdsOf(c) : RowHash(p, id) # RowHash(c, id)}

KeptFields(p, c) == FieldsOf(p) \cap FieldsOf(c)
AddedFields(p, c) == FieldsOf(c) \ FieldsOf(p)
DeletedFields(p, c) == FieldsOf(p) \ FieldsOf(c)

\* The fields of a changed row marked 'updateNull'.
Nulled(p, c, id) ==
  {f \in KeptFields(p, c) :
     id \in ChangedIds(p, c) /\ p.rows[id][f] # Blank /\ c.rows[id][f] = Blank}

\* Those marked 'update', without the nulls, which the query strips.
Updated(p, c, id) ==
  {f \in KeptFields(p, c) :
     /\ id \in ChangedIds(p, c)
     /\ c.rows[id][f] # Blank
     /\ AssumeNotNull(p, id, f) # AssumeNotNull(c, id, f)}

\* What the files of the difference hold for a row: the fields of an added row,
\* the added fields of every row, the updated fields of a changed one.
Sent(p, c, id) ==
  IF id \in AddedIds(p, c)
  THEN FieldsOf(c)
  ELSE IF id \in IdsOf(c) THEN AddedFields(p, c) \cup Updated(p, c, id) ELSE {}

-----------------------------------------------------------------------------
(* The loader: a table is a function from ids to rows                      *)

IsDataChanged(p, c) ==
  \/ AddedIds(p, c) # {}
  \/ DeletedIds(p, c) # {}
  \/ \E id \in IdsOf(c) : Sent(p, c, id) \cup Nulled(p, c, id) # {}

\* addRowError: a value sent for the row is the error value.
GotError(p, c, id) == \E f \in Sent(p, c, id) : c.rows[id][f] = ErrorValue

HasError(data) == \E f \in DOMAIN data : data[f].raw = ErrorValue

\* loadAddedRows: a COPY, which fails if an id is in the table, deleted or not.
Conflicting(table, p, c) == AddedIds(p, c) \cap DOMAIN table

Inserted(p, c, id) ==
  [data |-> [f \in FieldsOf(c) |-> Value(c, id, f)],
   deleted |-> FALSE,
   error |-> GotError(p, c, id)]

\* A faulty loader: what became null is not written.
LoadedDataWithoutNulls(p, c, id, data) ==
  [f \in (DOMAIN data \ DeletedFields(p, c)) \cup Sent(p, c, id) |->
     IF f \in Sent(p, c, id) THEN Value(c, id, f) ELSE data[f]]

\* loadSchemaChange removes the deleted fields, from deleted rows too;
\* loadUpdateFields and loadAddedFields set what was sent, loadDeletedFields
\* what became null.
LoadedData(p, c, id, data) ==
  [f \in (DOMAIN data \ DeletedFields(p, c)) \cup Sent(p, c, id) |->
     IF f \in Sent(p, c, id) THEN Value(c, id, f)
     ELSE IF f \in Nulled(p, c, id) THEN Null
     ELSE data[f]]

\* A faulty mark: only updated fields are looked at.
ErrorMarkOfUpdates(p, c, row, id, data) ==
  (row.error \/ \E f \in Updated(p, c, id) : c.rows[id][f] = ErrorValue) /\ HasError(data)

\* loadRowErrorMetadata: rows that got an error are marked, marked rows that
\* hold none are cleaned; not at all unless data changed.
ErrorMark(p, c, row, id, data) ==
  IF IsDataChanged(p, c)
  THEN (row.error \/ GotError(p, c, id)) /\ HasError(data)
  ELSE row.error

LoadedRow(p, c, row, id) ==
  LET data == LoadedData(p, c, id, row.data) IN
  [data |-> data,
   deleted |-> row.deleted \/ id \in DeletedIds(p, c),
   error |-> ErrorMark(p, c, row, id, data)]

\* Load, for a table the difference from p was made for. With no previous
\* version (p is NoSnapshot) every row of c is inserted in an empty table.
Loaded(table, p, c) ==
  [id \in DOMAIN table \cup AddedIds(p, c) |->
     IF id \in AddedIds(p, c)
     THEN Inserted(p, c, id)
     ELSE LoadedRow(p, c, table[id], id)]

-----------------------------------------------------------------------------
(* What a load is for                                                      *)

\* The rows a reader sees are the rows of the snapshot, and no others, with all
\* its fields and values.
Shows(table, s) ==
  /\ {id \in DOMAIN table : ~table[id].deleted} = IdsOf(s)
  /\ \A id \in IdsOf(s) : table[id].data = [f \in FieldsOf(s) |-> Value(s, id, f)]
=============================================================================
