SPECIFICATION Spec

CONSTANTS
  Controllers = {c1, c2}
  PostProcessors = {p1}
  MaxVersion = 2
  Redelivery = TRUE
  Crashes = TRUE
  Errors = FALSE
  Abandoned = TRUE

INVARIANTS
  OneSync
  LoadOnBase

SYMMETRY Symmetry

(* The bounds on versions end every behaviour: the system stops there. *)
CHECK_DEADLOCK FALSE
