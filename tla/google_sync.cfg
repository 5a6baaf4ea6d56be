SPECIFICATION FairSpec

CONSTANTS
  Controllers = {c1}
  PostProcessors = {p1}
  MaxVersion = 3
  Redelivery = FALSE
  Crashes = FALSE
  Errors = TRUE
  Abandoned = FALSE

INVARIANTS
  TypeOK
  OneSync
  LoadOnBase

PROPERTIES
  Sequential
  Settles

(* The bounds on versions end every behaviour: the system stops there. *)
CHECK_DEADLOCK FALSE
