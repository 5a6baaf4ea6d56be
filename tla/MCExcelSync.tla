----------------------------- MODULE MCExcelSync ----------------------------
(* ExcelSync for TLC: interchangeable controllers, for the runs that check  *)
(* no liveness.                                                             *)
EXTENDS ExcelSync, TLC

Symmetry == Permutations(Controllers)
=============================================================================
