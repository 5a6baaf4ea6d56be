SPECIFICATION Spec
CONSTANTS
  None = none
  Sources = {s1}
  Hooks = {h1, h2}
  Topics = {"connection-created", "syncflow-succeed", "data-source-deleted"}
  MaxVersions = 1
  MaxCalls = 2
  Attempts = 2
  MaxFails = 2
  MaxJobs = 4
INVARIANTS
  TypeOK
  Refreshed
PROPERTIES
  Delivered
CHECK_DEADLOCK FALSE
