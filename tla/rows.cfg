SPECIFICATION Spec

CONSTANTS
  MaxIds = 6
  MaxBatchSize = 2
  Fields = {1, 2, 3}
  Cells = {"", "1", "a", "__Error"}
  Sheets <- MCSheets
  MaxRows = 3
  MaxEdits = 2
  Replacing = FALSE

INVARIANTS
  TypeOK
  TableIsSnapshot
  NeverConflicts
  IdsReachTheirRows
  RowsNumberIsRows
  ErrorsAreMarked

(* The bound on ids stops the syncs. *)
CHECK_DEADLOCK FALSE
