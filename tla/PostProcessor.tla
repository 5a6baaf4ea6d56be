---------------------------- MODULE PostProcessor ---------------------------
(***************************************************************************)
(* The post-processing layer for one syncflow: the topics SYNCFLOW_SUCCEED *)
(* and SYNCFLOW_FAILED (with DATA_SOURCE_ERROR, handled the same way), the *)
(* cleaner that deletes the previous version's files from the object       *)
(* store, the row statistics of the data source, and the connection that   *)
(* is stopped after a failure.                                             *)
(*                                                                         *)
(* The statistics are a number of rows to which each success adds its own  *)
(* difference; what matters is how often a version was added, and this is  *)
(* counted up to CountCap, which stands for "more than once". The number   *)
(* is read with the data source, the files are deleted, and the new number *)
(* is written: instances that handle successes side by side may overwrite  *)
(* each other's.                                                           *)
(***************************************************************************)
EXTENDS SyncflowControl

CONSTANT PostProcessors   \* instances, each handling one success at a time

VARIABLES
  store,         \* versions whose data and schema files are in the store
  succeeded,     \* every message ever published to SYNCFLOW_SUCCEED
  unhandled,     \* those no handler has finished with
  handling,      \* per instance: the success it handles, the counts it has read
  counted,       \* how often rowsNumber includes each version's difference
  failed         \* versions a failure was ever published for

postVars == <<store, succeeded, unhandled, handling, counted, failed>>

CountCap == 2
Counts == [Versions -> 0 .. CountCap]
NoCounts == [v \in Versions |-> 0]
Waiting == [msg |-> NoMessage, read |-> NoCounts]

PostTypeOK ==
  /\ store \subseteq Versions
  /\ succeeded \subseteq Message
  /\ unhandled \subseteq succeeded
  /\ handling \in [PostProcessors -> [msg : Message, read : Counts] \cup {Waiting}]
  /\ counted \in Counts
  /\ failed \subseteq Versions

PostInit ==
  /\ store = {}
  /\ succeeded = {}
  /\ unhandled = {}
  /\ handling = [p \in PostProcessors |-> Waiting]
  /\ counted = NoCounts
  /\ failed = {}

\* Files are written under the version's name, over those of an earlier run.
Save(v) ==
  /\ store' = store \cup {v}
  /\ UNCHANGED <<succeeded, unhandled, handling, counted, failed>>

PublishSucceed(m) ==
  /\ succeeded' = succeeded \cup {m}
  /\ unhandled' = unhandled \cup {m}
  /\ UNCHANGED <<store, handling, counted, failed>>

PublishFailed(v) ==
  /\ failed' = failed \cup {v}
  /\ UNCHANGED <<store, succeeded, unhandled, handling, counted>>

\* A faulty cleaner: the files of the version just loaded are deleted.
CleanVersion(m) == store' = store \ {m.version}

\* The workflow cleaner deletes the files of prevSyncVersion.
CleanPrevious(m) == store' = store \ {m.prevVersion}

\* handleSyncflowSucceed: it reads the data source and cleans.
BeginSucceed(p, m) ==
  /\ handling[p] = Waiting
  /\ \/ m \in unhandled /\ \A q \in PostProcessors : handling[q].msg # m
     \/ Redelivery /\ m \in succeeded
  /\ handling' = [handling EXCEPT ![p] = [msg |-> m, read |-> counted]]
  /\ CleanPrevious(m)
  /\ UNCHANGED <<succeeded, unhandled, counted, failed>>

\* updateStatistics: the rows that were read and those of one version more.
updateStatistics(read, v) ==
  counted' = [read EXCEPT ![v] = IF @ < CountCap THEN @ + 1 ELSE @]

Finish(p) ==
  /\ handling[p] # Waiting
  /\ handling' = [handling EXCEPT ![p] = Waiting]
  /\ unhandled' = unhandled \ {handling[p].msg}
  /\ UNCHANGED <<store, succeeded, failed>>

\* A faulty handler: with no previous files to clean it returns early.
EndWithoutPrevious(p) ==
  /\ Finish(p)
  /\ IF handling[p].msg.prevVersion = 0 THEN UNCHANGED counted
     ELSE updateStatistics(handling[p].read, handling[p].msg.version)

\* Then it adds the difference to the rows and tells the user.
EndSucceed(p) ==
  /\ Finish(p)
  /\ updateStatistics(handling[p].read, handling[p].msg.version)

\* The instance dies, or its cleaner throws: the message comes again.
HandlerDies(p) ==
  /\ Crashes
  /\ handling[p] # Waiting
  /\ handling' = [handling EXCEPT ![p] = Waiting]
  /\ UNCHANGED <<store, succeeded, unhandled, counted, failed>>

\* The handler of SYNCFLOW_SUCCEED at instance p.
HandleSucceed(p) == (\E m \in succeeded : BeginSucceed(p, m)) \/ EndSucceed(p) \/ HandlerDies(p)

\* handleSyncflowFailed, handleDataSourceError: the connection is stopped. The
\* message may be delivered again at any time, the stop has no memory.
StopSyncConnection(v) ==
  /\ v \in failed
  /\ updateConnectionState("INACTIVE")
  /\ UNCHANGED <<syncflow, ctl, sent, pending>>
  /\ UNCHANGED postVars
=============================================================================
