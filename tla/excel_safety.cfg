SPECIFICATION Spec

CONSTANTS
  Controllers = {c1, c2}
  PostProcessors = {p1}
  MaxVersion = 2
  Redelivery = TRUE
  Crashes = TRUE
  MaxEdits = 0
  ProviderErrors = TRUE
  ExternalErrors = TRUE
  InternalErrors = TRUE
  Abandoned = TRUE

SYMMETRY Symmetry

INVARIANTS
  TypeOK
  OneSync
  LoadOnBase
  BaseKept
  OnlyLastMarked

PROPERTIES
  Sequential

(* The bounds on versions end every behaviour: the system stops there. *)
CHECK_DEADLOCK FALSE
