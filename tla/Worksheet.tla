------------------------------ MODULE Worksheet ------------------------------
(***************************************************************************)
(* The rows of a worksheet as form sync writes them, through the calls it  *)
(* makes of Microsoft Graph and of Google Sheets.                          *)
(*                                                                         *)
(* A sheet is the sequence of the rows under the header, so that the row   *)
(* at index p is the one at position p of the sheet, counting from 0: the  *)
(* position the metadata keeps. A row is the id in its id cell, and whose  *)
(* data its other cells show. Rows past the last used one do not exist.    *)
(***************************************************************************)
EXTENDS Integers, SequencesExt

CONSTANT Blank   \* no value in a cell

BlankRow == [id |-> Blank, data |-> Blank]

\* The used range ends with the last row that has a value.
Used(rows) ==
  LET last == Max({0} \cup {p \in DOMAIN rows : rows[p] # BlankRow})
  IN  SubSeq(rows, 1, last)

ShiftDown(rows, p) ==
  IF p > Len(rows) THEN rows ELSE Used(InsertAt(rows, p, BlankRow))
ShiftUp(rows, p) ==
  IF p > Len(rows) THEN rows ELSE Used(RemoveAt(rows, p))
\* A null value leaves the cell as it is.
Over(row, values) ==
  [id   |-> IF values.id = Blank THEN row.id ELSE values.id,
   data |-> IF values.data = Blank THEN row.data ELSE values.data]
Written(rows, p, values) ==
  LET size == IF p > Len(rows) THEN p ELSE Len(rows)
  IN  Used([q \in 1 .. size |->
              LET row == IF q > Len(rows) THEN BlankRow ELSE rows[q]
              IN  IF q = p THEN Over(row, values) ELSE row])

\* Microsoft Graph: a range over the columns of the table is a row of it.
getWorksheetCellValue(rows, p) == IF p > Len(rows) THEN Blank ELSE rows[p].id
insertWorksheetRange(rows, p) == ShiftDown(rows, p)
updateWorksheetRange(rows, p, values) == Written(rows, p, values)
deleteWorksheetRange(rows, p) == ShiftUp(rows, p)

\* Google Sheets: whole rows are inserted and deleted.
getCellValue(rows, p) == IF p > Len(rows) THEN Blank ELSE rows[p].id
addEmptyRow(rows, p) == ShiftDown(rows, p)
updateRangeValue(rows, p, values) == Written(rows, p, values)
deleteRow(rows, p) == ShiftUp(rows, p)
=============================================================================
