SPECIFICATION Spec
CONSTANTS
  MaxConnections = 2
  LostAnswers = TRUE
INVARIANTS
  TypeOK
  OneConnection
  NoSyncAfterDeletion
CHECK_DEADLOCK FALSE
