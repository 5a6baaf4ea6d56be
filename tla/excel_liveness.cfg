SPECIFICATION FairSpec

CONSTANTS
  Controllers = {c1, c2}
  PostProcessors = {p1}
  MaxVersion = 2
  Redelivery = FALSE
  Crashes = FALSE
  MaxEdits = 1
  ProviderErrors = FALSE
  ExternalErrors = FALSE
  InternalErrors = FALSE
  Abandoned = TRUE

INVARIANTS
  RowsCountedOnce

PROPERTIES
  Settles
  ScheduledIsLoaded

(* The bounds on versions end every behaviour: the system stops there. *)
CHECK_DEADLOCK FALSE
