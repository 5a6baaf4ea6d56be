SPECIFICATION FairSpec

CONSTANTS
  Controllers = {c1}
  PostProcessors = {p1}
  MaxVersion = 2
  Redelivery = FALSE
  Crashes = FALSE
  MaxEdits = 0
  ProviderErrors = FALSE
  ExternalErrors = FALSE
  InternalErrors = TRUE
  Abandoned = FALSE

PROPERTIES
  Settles

(* The bounds on versions end every behaviour: the system stops there. *)
CHECK_DEADLOCK FALSE
