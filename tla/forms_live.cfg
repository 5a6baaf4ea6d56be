SPECIFICATION Spec
CONSTANTS
  Blank = blank
  Forms = {f1}
  Initial = {r1, r2}
  MaxEdits = 1
  MaxFails = 1
  MaxDeletes = 1
PROPERTIES
  DelayedSettles
CHECK_DEADLOCK FALSE
