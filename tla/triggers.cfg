SPECIFICATION Spec
CONSTANTS
  MaxConnections = 1
  LostAnswers = TRUE
  MaxChannels = 3
  MaxCrashes = 1
INVARIANTS
  TypeOK
  Watched
PROPERTIES
  FirstSyncTriggered
  JobRemoved
CHECK_DEADLOCK FALSE
