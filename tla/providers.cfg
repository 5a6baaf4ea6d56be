SPECIFICATION Spec
CONSTANTS
  Sources = {s1, s2}
  MaxProviders = 2
  MaxEdits = 2
  MaxSyncs = 2
INVARIANTS
  TypeOK
  Anchored
  Fresh
CHECK_DEADLOCK FALSE
