------------------------------ MODULE MCRowSync -----------------------------
(* RowSync for TLC: a sheet without an id column, and a copy of one that    *)
(* was synced before, with an id that was copied with its row.              *)
EXTENDS RowSync

Row(id, cells) == [id |-> id, cells |-> cells]

MCSheets ==
  {[idColumn |-> FALSE,
    columns |-> {1, 2},
    rows |-> <<Row(NoId, 1 :> "1" @@ 2 :> Blank), Row(NoId, 1 :> "1" @@ 2 :> ErrorValue)>>],
   [idColumn |-> TRUE,
    columns |-> {2},
    rows |-> <<Row(1, 2 :> "a"), Row(NoId, 2 :> "1"), Row(1, 2 :> "1")>>]}
=============================================================================
