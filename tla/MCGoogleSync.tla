---------------------------- MODULE MCGoogleSync ----------------------------
(* GoogleSync for TLC: interchangeable controllers, for the runs that check *)
(* no liveness.                                                             *)
EXTENDS GoogleSync, TLC

Symmetry == Permutations(Controllers)
=============================================================================
