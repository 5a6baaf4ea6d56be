----------------------------- MODULE Lifecycle ------------------------------
(***************************************************************************)
(* Connections and data sources that come and go while their syncflows are *)
(* triggered, scheduled and run: the configurator of Configurator with one *)
(* controller and the worker. Triggers come at any time; the trigger layer *)
(* is the subject of Triggers.                                             *)
(*                                                                         *)
(* How a sync reaches its end is the subject of ExcelSync and GoogleSync.  *)
(* Here a sync is followed only as far as deletions can meet it: the       *)
(* messages on its way, the workflows it is made of, and what each of them *)
(* reads before it works. Excel has one workflow, Google three in a chain. *)
(***************************************************************************)
EXTENDS Configurator

VARIABLES
  provider,  \* of the data source
  flow,      \* per connection: the status of its syncflow
  ctl,       \* the connection whose trigger the controller has let through
  run        \* per connection: where its sync is

vars == <<configVars, provider, flow, ctl, run>>
syncVars == <<provider, flow, ctl, run>>
documents == <<source, conn, wf, drop, created, removed>>

\* A message waits to be consumed; an execution is about to read syncflow or
\* data source; it works on the sheet or the table; its activity throws and is
\* repeated for ever.
Run == [at : {"none", "message", "check", "read", "work", "stuck", "terminated"},
        workflow : 1 .. 3]
NoRun == [at |-> "none", workflow |-> 1]

LifecycleTypeOK ==
  /\ provider \in {"excel", "google"}
  /\ flow \in [Connections -> {"IDLING", "SCHEDULED", "RUNNING"}]
  /\ ctl \in 0 .. MaxConnections
  /\ run \in [Connections -> Run]

Init ==
  /\ ConfigInit
  /\ provider \in {"excel", "google"}
  /\ flow = [c \in Connections |-> "IDLING"]
  /\ ctl = NoConnection
  /\ run = [c \in Connections |-> NoRun]

\* Documents marked deleted are not found.
getById(c) == conn[c] = "active"

\* Updates of a syncflow find only documents that are not deleted.
SetStatus(c, status) == flow' = IF conn[c] = "active" THEN [flow EXCEPT ![c] = status] ELSE flow

-----------------------------------------------------------------------------
(* The controller                                                          *)

\* WORKFLOW_TRIGGERED is consumed: a tick, a notification or a first trigger, as
\* late as it may come. It goes on only if syncflow, trigger, data source and
\* connection are not deleted and the syncflow is IDLING; the other syncflows of
\* the data source are not asked.
TakeTrigger(c) ==
  /\ ctl = NoConnection
  /\ getById(c)
  /\ flow[c] = "IDLING"
  /\ ctl' = c
  /\ UNCHANGED <<documents, provider, flow, run>>

\* SCHEDULED is written, read back and published. A syncflow deleted meanwhile is
\* not found again: the handler throws, and nothing is published.
Schedule ==
  /\ ctl # NoConnection
  /\ SetStatus(ctl, "SCHEDULED")
  /\ run' = IF getById(ctl) /\ run[ctl].at \in {"none", "terminated"}
            THEN [run EXCEPT ![ctl] = [at |-> "message", workflow |-> 1]]
            ELSE run
  /\ ctl' = NoConnection
  /\ UNCHANGED <<documents, provider>>

-----------------------------------------------------------------------------
(* The worker                                                              *)

To(c, at) == run' = [run EXCEPT ![c].at = at]

\* The message starts a workflow. The first of a sync checks the syncflow.
Start(c) ==
  /\ run[c].at = "message"
  /\ To(c, IF run[c].workflow = 1 THEN "check" ELSE "read")
  /\ UNCHANGED <<documents, provider, flow, ctl>>

\* checkAndUpdateStatusBeforeStartSyncflow. Of a syncflow that is not found it
\* reads the id, for the message of its error: a TypeError, which is retried.
Check(c) ==
  /\ run[c].at = "check"
  /\ To(c, IF getById(c) THEN "read" ELSE "stuck")
  /\ SetStatus(c, "RUNNING")
  /\ UNCHANGED <<documents, provider, ctl>>

\* The workflow reads its data source. Google's first then goes on to the second
\* by a message. A missing data source ends the later workflows of Google; in
\* the other cases the error is not one that ends the activity.
Read(c) ==
  /\ run[c].at = "read"
  /\ run' = [run EXCEPT ![c] =
       IF source = "deleted"
       THEN IF @.workflow = 1 THEN [@ EXCEPT !.at = "stuck"] ELSE NoRun
       ELSE IF provider = "google" /\ @.workflow = 1
            THEN [at |-> "message", workflow |-> 2]
            ELSE [@ EXCEPT !.at = "work"]]
  /\ UNCHANGED <<documents, provider, flow, ctl>>

\* A faulty Work: every workflow of Google is followed by another.
WorkGoesOn(c) ==
  /\ run[c].at = "work"
  /\ IF provider = "google"
     THEN /\ run' = [run EXCEPT ![c] = [at |-> "message", workflow |-> @.workflow + 1]]
          /\ UNCHANGED flow
     ELSE /\ run' = [run EXCEPT ![c] = NoRun]
          /\ SetStatus(c, "IDLING")
  /\ UNCHANGED <<documents, provider, ctl>>

\* The work is done: Google's second workflow ends in a message, the last one of
\* either provider sets the syncflow IDLING.
Work(c) ==
  /\ run[c].at = "work"
  /\ IF run[c].workflow = 2
     THEN /\ run' = [run EXCEPT ![c] = [at |-> "message", workflow |-> 3]]
          /\ UNCHANGED flow
     ELSE /\ run' = [run EXCEPT ![c] = NoRun]
          /\ SetStatus(c, "IDLING")
  /\ UNCHANGED <<documents, provider, ctl>>

\* terminateDataSourceWorkflows: every open execution of the data source.
Terminate ==
  /\ TerminateWorkflows
  /\ run' = [c \in Connections |->
       IF run[c].at \in {"check", "read", "work", "stuck"}
       THEN [at |-> "terminated", workflow |-> 1] ELSE run[c]]
  /\ UNCHANGED <<provider, flow, ctl>>

-----------------------------------------------------------------------------
Configure == ConfiguratorStep /\ UNCHANGED syncVars
DropOne(c) == Drop(c) /\ UNCHANGED syncVars
Ask == Request /\ UNCHANGED syncVars
SyncStep(c) == Start(c) \/ Check(c) \/ Read(c) \/ Work(c)

Next ==
  \/ Configure
  \/ Terminate
  \/ Ask
  \/ Schedule
  \/ \E c \in Connections : DropOne(c) \/ TakeTrigger(c) \/ SyncStep(c)

Spec == Init /\ [][Next]_vars

-----------------------------------------------------------------------------
(* Properties                                                              *)

TypeOK == ConfigTypeOK /\ LifecycleTypeOK

\* A data source has at most one connection that is not deleted, and none once
\* it is deleted itself: the collection has no unique index, only the workflow
\* id and the look before the insert keep it so.
OneConnection ==
  /\ \A c, d \in Active : c = d
  /\ source = "deleted" => Active = {}

\* After deleteDataSourceWf has terminated the workflows of its data source none
\* works on the sheet or the table: what is started by messages still on their
\* way does not get past its reads.
NoSyncAfterDeletion ==
  source = "deleted" /\ wf.step \notin {"delete", "terminate"}
    => \A c \in Connections : run[c].at # "work"
=============================================================================
