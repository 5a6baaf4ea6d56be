SPECIFICATION Spec
CONSTANTS
  Blank = blank
  Forms = {f1, f2}
  Initial = {r1}
  MaxEdits = 1
  MaxFails = 0
  MaxDeletes = 0
INVARIANTS
  TypeOK
  PositionsExact
  InsertedOnce
PROPERTIES
  RightRow
CHECK_DEADLOCK FALSE
