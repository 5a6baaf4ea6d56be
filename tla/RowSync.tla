------------------------------- MODULE RowSync ------------------------------
(***************************************************************************)
(* The rows of one sheet on their way to the destination table, sync after *)
(* sync, while the user edits the sheet: the downloader reads it and gives *)
(* ids to rows that have none, writing them back by row number; the        *)
(* snapshot is compared with the last one loaded; the difference is        *)
(* applied to the table. A sync may fail at any of these steps, and the    *)
(* next one starts from what the failed one left behind.                   *)
(*                                                                         *)
(* That the syncs follow one another is the business of ExcelSync and      *)
(* GoogleSync and taken from there.                                        *)
(***************************************************************************)
EXTENDS Difference, IdColumn

CONSTANTS
  Fields,          \* the columns the sheet may have: numbers, ordered as names
  Cells,           \* what a cell may hold, as it is downloaded
  Sheets,          \* the sheets a first sync may find
  MaxRows,         \* bound: rows of the sheet
  MaxEdits,        \* bound: edits of the sheet
  Replacing        \* a column may be replaced by another between two syncs

ASSUME RowSyncAssumption ==
  /\ Fields \subseteq Nat /\ IsFiniteSet(Fields)
  /\ Blank \in Cells
  /\ MaxRows \in Nat \ {0}
  /\ MaxEdits \in Nat
  /\ Replacing \in BOOLEAN

VARIABLES
  sheet,           \* the user's sheet: header, columns, rows in order
  file,            \* its columns and rows as they were downloaded, or NoFile
  snapshot,        \* the version that was uploaded, while its sync goes on
  base,            \* the version loaded last: the previous version
  table,           \* the data source's table in the destination database
  rowsNumber,      \* the data source's statistics
  pc,              \* where the sync is
  nextId,          \* the next id to be generated
  edits,           \* how often the sheet was edited
  touched,         \* it was edited since the sync began (history)
  restored         \* the ids the user brought back (history)

vars == <<sheet, file, snapshot, base, table, rowsNumber, pc, nextId, edits,
          touched, restored>>

-----------------------------------------------------------------------------
(* Sheets and snapshots                                                    *)

EmptyCells(columns) == [f \in columns |-> Blank]

RowsOf(columns) == [id : IdCells, cells : [columns -> Cells]]

IsSheet(s) ==
  s \in [idColumn : BOOLEAN, columns : SUBSET Fields, rows : Seq(RowsOf(s.columns))]

\* A cell is in the id column only if there is one.
ASSUME SheetsAssumption ==
  \A s \in Sheets :
    /\ IsSheet(s)
    /\ Len(s.rows) <= MaxRows
    /\ \A i \in DOMAIN s.rows : s.rows[i].id # NoId => s.idColumn

IsEmptyRow(row) == row.id = NoId /\ \A f \in DOMAIN row.cells : row.cells[f] = Blank

\* The empty rows at the end of the sheet are not downloaded.
Trimmed(rows) ==
  SubSeq(rows, 1, Max({0} \cup {i \in DOMAIN rows : ~IsEmptyRow(rows[i])}))

NoFile == [columns |-> {}, rows |-> << >>]

Downloaded(s) == [columns |-> s.columns, rows |-> Trimmed(s.rows)]

IdsIn(rows) == [i \in DOMAIN rows |-> rows[i].id]

Numeric(cell) == cell \in {"0", "1", "2"}

\* A column is of numbers if every cell that is not empty is one; the type of a
\* column without data is String.
ColumnType(rows, f) ==
  LET full == {rows[i].cells[f] : i \in DOMAIN rows} \ {Blank} IN
  IF full # {} /\ \A cell \in full : Numeric(cell) THEN "Number" ELSE "String"

SnapshotOf(d, ids) ==
  [type |-> [f \in d.columns |-> ColumnType(d.rows, f)],
   rows |-> [id \in Range(ids) |-> d.rows[CHOOSE i \in DOMAIN ids : ids[i] = id].cells]]

-----------------------------------------------------------------------------
(* The provider's end of update-id-column                                  *)

\* The rows of the sheet a batch is written to, by their numbers.
RowsWritten(batches) ==
  UNION {r .. r + Len(batches[r]) - 1 : r \in DOMAIN batches}

IdWritten(batches, n) ==
  LET r == CHOOSE r \in DOMAIN batches : n \in r .. r + Len(batches[r]) - 1 IN
  batches[r][n - r + 1]

\* The sheet after the batches were written to it as it is now, which may not be
\* as it was downloaded. Cells beyond the last row make new rows. Without its
\* header the column is no id column, and its cells are not read again.
Written(s, batches) ==
  LET numbers == RowsWritten(batches)
      present == s.idColumn \/ 1 \in numbers
      length == Max({Len(s.rows)} \cup {n - 1 : n \in numbers})
      old(i) == IF i <= Len(s.rows) THEN s.rows[i]
                ELSE [id |-> NoId, cells |-> EmptyCells(s.columns)]
  IN [s EXCEPT
        !.idColumn = present,
        !.rows = [i \in 1 .. length |->
                    IF present /\ i + 1 \in numbers
                    THEN [old(i) EXCEPT !.id = IdWritten(batches, i + 1)]
                    ELSE old(i)]]

\* The sheet may be a copy of one that was synced before, with its ids; a
\* generated id is none of them.
FirstNewId(s) == 1 + Max({0} \cup (Range(IdsIn(s.rows)) \cap Ids))

-----------------------------------------------------------------------------
(* The sync                                                                *)

Init ==
  /\ sheet \in Sheets
  /\ file = NoFile
  /\ snapshot = NoSnapshot
  /\ base = NoSnapshot
  /\ table = << >>
  /\ rowsNumber = 0
  /\ pc = "idle"
  /\ nextId = FirstNewId(sheet)
  /\ edits = 0
  /\ touched = FALSE
  /\ restored = {}

Download ==
  /\ pc = "idle"
  /\ file' = Downloaded(sheet)
  /\ pc' = "downloaded"
  /\ UNCHANGED <<sheet, snapshot, base, table, rowsNumber, nextId, edits, touched,
                 restored>>

\* The sync is over: its files are deleted or read no more.
End ==
  /\ file' = NoFile
  /\ snapshot' = NoSnapshot
  /\ pc' = "idle"
  /\ touched' = FALSE

NewIds == Cardinality(Replaced(IdsIn(file.rows)))

EnoughIds == nextId + NewIds <= MaxIds + 1

\* The ids found are right, or they are replaced and all written back; the rows
\* are uploaded with their ids.
FixIdsAndUpload ==
  LET ids == IdsIn(file.rows)
      fixed == FixedIds(ids, nextId)
  IN /\ pc = "downloaded"
     /\ EnoughIds
     /\ sheet' = IF NewIds = 0 THEN sheet ELSE Written(sheet, Batches(ids, fixed))
     /\ snapshot' = SnapshotOf(file, fixed)
     /\ nextId' = nextId + NewIds
     /\ pc' = "uploaded"
     /\ file' = NoFile
     /\ UNCHANGED <<base, table, rowsNumber, edits, touched, restored>>

\* The batches are written at the same time; some were before one failed, or
\* the script failed later.
FixIdsFails ==
  LET ids == IdsIn(file.rows)
      batches == Batches(ids, FixedIds(ids, nextId))
  IN /\ pc = "downloaded"
     /\ NewIds # 0
     /\ EnoughIds
     /\ \E done \in SUBSET DOMAIN batches :
          sheet' = Written(sheet, [r \in done |-> batches[r]])
     /\ nextId' = nextId + NewIds
     /\ End
     /\ UNCHANGED <<base, table, rowsNumber, edits, restored>>

\* A faulty count: deleted rows are not subtracted.
LoadCountingAdded ==
  /\ pc = "uploaded"
  /\ Conflicting(table, base, snapshot) = {}
  /\ table' = Loaded(table, base, snapshot)
  /\ rowsNumber' = rowsNumber + Cardinality(AddedIds(base, snapshot))
  /\ base' = snapshot
  /\ End
  /\ UNCHANGED <<sheet, nextId, edits, restored>>

\* Compare and load; the post-processor adds what the load reported.
Load ==
  /\ pc = "uploaded"
  /\ Conflicting(table, base, snapshot) = {}
  /\ table' = Loaded(table, base, snapshot)
  /\ rowsNumber' = rowsNumber + Cardinality(AddedIds(base, snapshot))
                     - Cardinality(DeletedIds(base, snapshot))
  /\ base' = snapshot
  /\ End
  /\ UNCHANGED <<sheet, nextId, edits, restored>>

\* The sync fails and is given up: the load's transaction is rolled back.
GiveUp ==
  /\ pc # "idle"
  /\ End
  /\ UNCHANGED <<sheet, base, table, rowsNumber, nextId, edits, restored>>

-----------------------------------------------------------------------------
(* The user                                                                *)

Edit(s) ==
  /\ edits < MaxEdits
  /\ sheet' = s
  /\ edits' = edits + 1
  /\ touched' = (pc # "idle")
  /\ UNCHANGED <<file, snapshot, base, table, rowsNumber, pc, nextId>>

SetCell(i, f, cell) ==
  /\ sheet.rows[i].cells[f] # cell
  /\ Edit([sheet EXCEPT !.rows[i].cells[f] = cell])

PutRow(i, row) ==
  /\ Len(sheet.rows) < MaxRows
  /\ Edit([sheet EXCEPT !.rows = InsertAt(@, i, row)])

DeleteRow(i) == Edit([sheet EXCEPT !.rows = RemoveAt(@, i)])

\* The id column is the user's too: its cells are cleared or typed over.
SpoilId(i, cell) ==
  /\ sheet.idColumn
  /\ sheet.rows[i].id # cell
  /\ Edit([sheet EXCEPT !.rows[i].id = cell])

DeleteIdColumn ==
  /\ sheet.idColumn
  /\ pc # "downloaded"
  /\ Edit([sheet EXCEPT !.idColumn = FALSE,
             !.rows = [i \in DOMAIN @ |-> [@[i] EXCEPT !.id = NoId]]])

\* Columns stay where they are while ids are written back by their place.
SetColumns(columns) ==
  /\ pc # "downloaded"
  /\ \/ Replacing
     \/ \A s \in {base, snapshot} : columns \subseteq FieldsOf(s) \/ FieldsOf(s) \subseteq columns
  /\ Edit([sheet EXCEPT
       !.columns = columns,
       !.rows = [i \in DOMAIN @ |->
                   [id |-> @[i].id,
                    cells |-> [f \in columns |->
                                 IF f \in DOMAIN @[i].cells THEN @[i].cells[f] ELSE Blank]]]])

\* An undone deletion, a restored revision: the row comes back with its id.
RestoreRow(id) ==
  /\ sheet.idColumn
  /\ table[id].deleted
  /\ restored' = restored \cup {id}
  /\ PutRow(Len(sheet.rows) + 1, [id |-> id, cells |-> EmptyCells(sheet.columns)])

UserEdits ==
  \/ \E i \in DOMAIN sheet.rows, f \in sheet.columns, cell \in Cells : SetCell(i, f, cell)
  \/ \E i \in 1 .. Len(sheet.rows) + 1 :
       \/ PutRow(i, [id |-> NoId, cells |-> EmptyCells(sheet.columns)])
       \/ \E j \in DOMAIN sheet.rows : PutRow(i, sheet.rows[j])
  \/ \E i \in DOMAIN sheet.rows :
       \/ DeleteRow(i)
       \/ \E cell \in {NoId, Invalid} : SpoilId(i, cell)
  \/ DeleteIdColumn
  \/ \E f \in Fields : SetColumns(sheet.columns \cup {f}) \/ SetColumns(sheet.columns \ {f})

Next ==
  \/ Download
  \/ FixIdsAndUpload
  \/ FixIdsFails
  \/ Load
  \/ GiveUp
  \/ UserEdits /\ UNCHANGED restored
  \/ \E id \in DOMAIN table : RestoreRow(id)

Spec == Init /\ [][Next]_vars

-----------------------------------------------------------------------------
(* Properties                                                              *)

IsSnapshot(s) ==
  /\ FieldsOf(s) \subseteq Fields
  /\ s.type \in [FieldsOf(s) -> Types]
  /\ IdsOf(s) \subseteq Ids
  /\ s.rows \in [IdsOf(s) -> [FieldsOf(s) -> Cells]]

TypeOK ==
  /\ IsSheet(sheet)
  /\ file \in [columns : SUBSET Fields, rows : Seq(RowsOf(file.columns))]
  /\ IsSnapshot(snapshot)
  /\ IsSnapshot(base)
  /\ DOMAIN table \subseteq Ids
  /\ rowsNumber \in 0 .. MaxRows
  /\ pc \in {"idle", "downloaded", "uploaded"}
  /\ nextId \in 1 .. MaxIds + 1
  /\ edits \in 0 .. MaxEdits
  /\ touched \in BOOLEAN
  /\ restored \subseteq Ids

\* After each load the rows a reader of the table sees are exactly those of the
\* loaded version, whatever was edited, replaced, deleted or given up since the
\* last: the difference of two versions, though it is computed by hashes and
\* applied field by field, is all of it.
TableIsSnapshot == Shows(table, base)

\* Ids are generated for rows whose ids were cleared, copied or typed over, and
\* syncs fail half-way, and still a row that is added never has the id of a row
\* that is in the table, visible or deleted, on which the load would fail; unless
\* the user has brought back a deleted row with its id.
NeverConflicts == pc = "uploaded" => Conflicting(table, base, snapshot) \subseteq restored

\* Unless the user edits the sheet meanwhile, each new id is written to the very
\* row it was given to, for all batches and whatever rows needed none; the next
\* sync finds every row under the id it was uploaded with.
IdsReachTheirRows ==
  pc = "uploaded" /\ ~touched
    => /\ sheet.idColumn \/ IdsOf(snapshot) = {}
       /\ SnapshotOf(Downloaded(sheet), IdsIn(Trimmed(sheet.rows))) = snapshot

\* The number of rows kept by adding and subtracting what each load reported is
\* the number of rows in the table.
RowsNumberIsRows == rowsNumber = Cardinality({id \in DOMAIN table : ~table[id].deleted})

\* A visible row that holds an error is marked, however the error got there: with
\* a new row, an update, a new column.
ErrorsAreMarked ==
  \A id \in DOMAIN table : ~table[id].deleted /\ HasError(table[id].data) => table[id].error
=============================================================================
