-------------------------- MODULE SyncflowControl --------------------------
(***************************************************************************)
(* The controller layer and the state it shares with the workers, for one  *)
(* syncflow: its document in MongoDB, the status of its sync connection,   *)
(* the controllers that consume WORKFLOW_TRIGGERED, and the topic          *)
(* SYNCFLOW_SCHEDULED on the way to the worker's broker controller.        *)
(*                                                                         *)
(* A controller reads the document in a MongoDB transaction, runs the      *)
(* provider's own check, writes SCHEDULED with an update that does not use *)
(* the transaction's session, reads the document again and publishes what  *)
(* it read. These are steps of their own here, so that two controllers, a  *)
(* workflow and a crash can fall between any two of them.                  *)
(*                                                                         *)
(* The module has no Next: a provider's module adds the provider's check   *)
(* and the workflows, and composes.                                        *)
(***************************************************************************)
EXTENDS Naturals

CONSTANTS
  Controllers,   \* consumers of WORKFLOW_TRIGGERED that may run at a time
  MaxVersion,    \* bound: no sync of a later version is scheduled or started
  Redelivery,    \* the broker may deliver a consumed message again
  Crashes        \* a controller may die between two of its steps

ASSUME ControlAssumption ==
  /\ MaxVersion \in Nat \ {0}
  /\ Redelivery \in BOOLEAN
  /\ Crashes \in BOOLEAN

VARIABLES
  syncflow,      \* the syncflow's state in MongoDB
  connection,    \* the status of the sync connection of its data source
  ctl,           \* per controller: its place in handleWorkflowTriggered
  sent,          \* every message ever published to SYNCFLOW_SCHEDULED
  pending        \* those published and not yet consumed

controlVars == <<syncflow, connection, ctl, sent, pending>>

\* One more than MaxVersion: the version a syncflow has after its last sync.
Versions == 1 .. MaxVersion + 1

\* Of the sync connection: whether syncs may be scheduled.
SyncConnectionStatus == {"ACTIVE", "INACTIVE"}
\* WorkflowStatus.
Status == {"IDLING", "SCHEDULED", "RUNNING"}

SyncflowState == [status : Status, version : Versions, prevVersion : 0 .. MaxVersion]

\* What the workers read of a SyncflowScheduledPayload.
Message == [version : Versions, prevVersion : 0 .. MaxVersion]
\* Messages whose version is within the bound: those a workflow is started with.
Runnable == [version : 1 .. MaxVersion, prevVersion : 0 .. MaxVersion]
NoMessage == [version |-> 0, prevVersion |-> 0]

ControllerState ==
  [pc : {"idle", "run", "write", "reread"}, msg : {NoMessage}] \cup [pc : {"emit"}, msg : Message]

ControlTypeOK ==
  /\ syncflow \in SyncflowState
  /\ connection \in SyncConnectionStatus
  /\ ctl \in [Controllers -> ControllerState]
  /\ sent \subseteq Message
  /\ pending \subseteq sent

Idle == [pc |-> "idle", msg |-> NoMessage]

\* The entity of a new syncflow: IDLING, version 1, no previous version.
ControlInit ==
  /\ syncflow = [status |-> "IDLING", version |-> 1, prevVersion |-> 0]
  /\ connection = "ACTIVE"
  /\ ctl = [c \in Controllers |-> Idle]
  /\ sent = {}
  /\ pending = {}

-----------------------------------------------------------------------------
(* Controller: WorkflowService.handleWorkflowTriggered                     *)

\* A trigger arrives, first delivery or not, and passes the checks made on one
\* snapshot of the database. A trigger that fails one of them is dropped
\* (UnacceptableActivityError is logged and swallowed) and changes nothing.
TakeTrigger(c) ==
  /\ ctl[c].pc = "idle"
  /\ syncflow.status = "IDLING"
  /\ connection = "ACTIVE"
  /\ ctl' = [ctl EXCEPT ![c].pc = "run"]
  /\ UNCHANGED <<syncflow, connection, sent, pending>>

\* The provider's check let the trigger through / dropped it.
Admit(c) ==
  /\ ctl[c].pc = "run"
  /\ ctl' = [ctl EXCEPT ![c].pc = "write"]
  /\ UNCHANGED <<syncflow, connection, sent, pending>>

Refuse(c) ==
  /\ ctl[c].pc = "run"
  /\ ctl' = [ctl EXCEPT ![c] = Idle]
  /\ UNCHANGED <<syncflow, connection, sent, pending>>

\* updateState({status: SCHEDULED}): unconditional, outside the transaction.
WriteScheduled(c) ==
  /\ ctl[c].pc = "write"
  /\ syncflow.version <= MaxVersion
  /\ syncflow' = [syncflow EXCEPT !.status = "SCHEDULED"]
  /\ ctl' = [ctl EXCEPT ![c].pc = "reread"]
  /\ UNCHANGED <<connection, sent, pending>>

\* A faulty query: the version is increased when the syncflow is scheduled.
RereadIncreased(c) ==
  /\ ctl[c].pc = "reread"
  /\ ctl' = [ctl EXCEPT ![c] =
       [pc |-> "emit",
        msg |-> [version |-> syncflow.version + 1, prevVersion |-> syncflow.prevVersion]]]
  /\ UNCHANGED <<syncflow, connection, sent, pending>>

\* {new: true}: the document is read again, by a query of its own.
Reread(c) ==
  /\ ctl[c].pc = "reread"
  /\ ctl' = [ctl EXCEPT ![c] =
       [pc |-> "emit",
        msg |-> [version |-> syncflow.version, prevVersion |-> syncflow.prevVersion]]]
  /\ UNCHANGED <<syncflow, connection, sent, pending>>

\* SYNCFLOW_SCHEDULED is published after the transaction.
EmitScheduled(c) ==
  /\ ctl[c].pc = "emit"
  /\ sent' = sent \cup {ctl[c].msg}
  /\ pending' = pending \cup {ctl[c].msg}
  /\ ctl' = [ctl EXCEPT ![c] = Idle]
  /\ UNCHANGED <<syncflow, connection>>

\* The process dies, or the fire-and-forget publication fails: what is written
\* stays written, the rest of the handler is lost. The trigger may come again.
Crash(c) ==
  /\ Crashes
  /\ ctl[c].pc # "idle"
  /\ ctl' = [ctl EXCEPT ![c] = Idle]
  /\ UNCHANGED <<syncflow, connection, sent, pending>>

\* What a controller does whatever the provider is.
ControllerStep(c) ==
  \/ WriteScheduled(c)
  \/ Reread(c)
  \/ EmitScheduled(c)

-----------------------------------------------------------------------------
(* The worker's end of the topic, and the connection                       *)

\* The message is consumed: for the first time, or again (its offset was not
\* committed: the consumer died, or the group was rebalanced).
Consume(m) ==
  /\ m.version <= MaxVersion
  /\ \/ m \in pending /\ pending' = pending \ {m}
     \/ Redelivery /\ m \in sent /\ UNCHANGED pending
  /\ UNCHANGED sent

\* A faulty policy: any closed execution may be started again.
MayStartClosed(execution) == execution \in {"none", "failed", "completed"}

\* WORKFLOW_ID_REUSE_POLICY_ALLOW_DUPLICATE_FAILED_ONLY: a workflow id can be
\* started if it never was, or if its last execution closed as failed.
MayStart(execution) == execution \in {"none", "failed"}

\* The connection's status is overwritten, whatever it was.
updateConnectionState(status) == connection' = status

\* The configurator's PATCH of the connection: the user stops it or starts it.
SetConnection(status) ==
  /\ updateConnectionState(status)
  /\ UNCHANGED <<syncflow, ctl, sent, pending>>
=============================================================================
