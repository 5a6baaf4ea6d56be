--------------------------- MODULE SequentialSync ---------------------------
(***************************************************************************)
(* What a syncflow promises to the owner of the destination table: one     *)
(* sync at a time; each load applies the difference from the version the   *)
(* table holds; a success is announced for a version after it is loaded    *)
(* and before the next one begins; a sync that does not succeed is either  *)
(* tried again under its number or replaced by the next number.            *)
(***************************************************************************)
EXTENDS Naturals

VARIABLES
  current,       \* the version being synced, or to be synced next
  begun,         \* a sync of current was begun
  running,       \* ... and is going on
  loaded,        \* the version the table holds, 0: none
  announced      \* the last version announced as a success, 0: none

abstractVars == <<current, begun, running, loaded, announced>>

Init ==
  /\ current = 1
  /\ begun = FALSE
  /\ running = FALSE
  /\ loaded = 0
  /\ announced = 0

\* A sync of the current version begins, for the first time or again. Once
\* loaded a version is not synced again.
Begin ==
  /\ ~running
  /\ loaded = announced
  /\ running' = TRUE
  /\ begun' = TRUE
  /\ UNCHANGED <<current, loaded, announced>>

\* The difference between the announced version and the current one is applied
\* to a table that holds the announced version. It may be the work of an
\* attempt whose sync has ended by then.
Load ==
  /\ begun
  /\ loaded = announced
  /\ loaded' = current
  /\ UNCHANGED <<current, begun, running, announced>>

Announce ==
  /\ running
  /\ loaded = current
  /\ announced' = current
  /\ UNCHANGED <<current, begun, running, loaded>>

\* The sync ends after its success was announced.
Succeed ==
  /\ running
  /\ announced = current
  /\ current' = current + 1
  /\ running' = FALSE
  /\ begun' = FALSE
  /\ UNCHANGED <<loaded, announced>>

\* The sync ends without success and keeps its number, or gives it up if
\* nothing was loaded under it.
Fail ==
  /\ running
  /\ announced # current
  /\ running' = FALSE
  /\ \/ UNCHANGED <<current, begun>>
     \/ /\ loaded = announced
        /\ current' = current + 1
        /\ begun' = FALSE
  /\ UNCHANGED <<loaded, announced>>

Next == Begin \/ Load \/ Announce \/ Succeed \/ Fail

Spec == Init /\ [][Next]_abstractVars
=============================================================================
