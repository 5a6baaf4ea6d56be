------------------------------ MODULE ExcelSync -----------------------------
(***************************************************************************)
(* A Microsoft Excel syncflow end to end: the controllers, the workflow    *)
(* excelFullSync run by Temporal, the loader and the post-processor.       *)
(*                                                                         *)
(* The workflow's id is the syncflow and the version, so executions are a  *)
(* function of the version. Temporal retries an activity until it answers  *)
(* or fails for good, hence a workflow's step either happens or is a       *)
(* failure the code tells apart (external, internal); the step before it   *)
(* may have been repeated, which changes nothing more.                     *)
(***************************************************************************)
EXTENDS PostProcessor, Loader, ActivityErrors

CONSTANTS
  MaxEdits,        \* bound: how often the workbook is edited
  ProviderErrors,  \* Microsoft Graph may fail to answer a controller
  ExternalErrors,  \* downloader or comparer may report the user's mistake
  InternalErrors,  \* a processor may report an error of its own
  Abandoned        \* a load attempt may be given up and retried

ASSUME ExcelAssumption ==
  /\ MaxEdits \in Nat
  /\ ProviderErrors \in BOOLEAN
  /\ ExternalErrors \in BOOLEAN
  /\ InternalErrors \in BOOLEAN
  /\ Abandoned \in BOOLEAN

VARIABLES
  wf,              \* per version: the execution of excelFullSync
  cTag,            \* the workbook's tag at the provider, new with each edit
  cursor,          \* state.cursor.ctag in the database, 0: none
  seen             \* per controller: the cursor in its snapshot

excelVars == <<wf, cTag, cursor, seen>>
vars == <<controlVars, postVars, loaderVars, excelVars>>

Executing ==
  {"check", "download", "compare", "load", "announce", "advance",
   "extIdle", "extEmit", "intIdle", "intEmit"}

Execution == [pc : Executing \cup {"none", "failed", "completed"}, prev : 0 .. MaxVersion]

TypeOK ==
  /\ ControlTypeOK
  /\ PostTypeOK
  /\ table \in 0 .. MaxVersion
  /\ marks \subseteq 0 .. MaxVersion
  /\ abandoned \subseteq Runnable
  /\ wf \in [Versions -> Execution]
  /\ cTag \in 1 .. MaxEdits + 1
  /\ cursor \in 0 .. MaxEdits + 1
  /\ seen \in [Controllers -> 0 .. MaxEdits + 1]

Init ==
  /\ ControlInit
  /\ PostInit
  /\ LoaderInit
  /\ wf = [v \in Versions |-> [pc |-> "none", prev |-> 0]]
  /\ cTag = 1
  /\ cursor = 0
  /\ seen = [c \in Controllers |-> 0]

\* The message the workflow of version v was started with, as its data.
Run(v) == [version |-> v, prevVersion |-> wf[v].prev]

Goto(v, pc) == wf' = [wf EXCEPT ![v].pc = pc]

-----------------------------------------------------------------------------
(* The controller's check of the provider                                  *)

\* The fields of SyncflowStateModel, the database's schema of the state.
SchemaFields == {"downloadedAt", "ingestedAt", "status", "version", "prevVersion"}

\* Mongoose drops what the schema does not declare from an update.
Stored(field, old, new) == IF field \in SchemaFields THEN new ELSE old

ExcelTakeTrigger(c) ==
  /\ TakeTrigger(c)
  /\ seen' = [seen EXCEPT ![c] = cursor]
  /\ UNCHANGED <<postVars, loaderVars, wf, cTag, cursor>>

\* MicrosoftExcelSyncflowController.run: the workbook changed since the cursor.
ExcelAdmit(c) ==
  /\ cTag # seen[c]
  /\ Admit(c)
  /\ cursor' = Stored("cursor", cursor, cTag)
  /\ UNCHANGED <<postVars, loaderVars, wf, cTag, seen>>

\* The workbook did not change ("skipping"), or the provider did not answer.
ExcelRefuse(c) ==
  /\ cTag # seen[c] => ProviderErrors
  /\ Refuse(c)
  /\ UNCHANGED <<postVars, loaderVars, excelVars>>

Controller(c) ==
  /\ ControllerStep(c)
  /\ UNCHANGED <<postVars, loaderVars, excelVars>>

ControllerCrash(c) ==
  /\ Crash(c)
  /\ UNCHANGED <<postVars, loaderVars, excelVars>>

-----------------------------------------------------------------------------
(* The worker: BrokerController.handleSyncflowScheduledEvent               *)

StartWorkflow(m) ==
  /\ Consume(m)
  /\ MayStart(wf[m.version].pc)
  /\ wf' = [wf EXCEPT ![m.version] = [pc |-> "check", prev |-> m.prevVersion]]
  /\ UNCHANGED <<syncflow, connection, ctl, postVars, loaderVars, cTag, cursor, seen>>

\* WorkflowExecutionAlreadyStartedError is swallowed, the message is gone.
DropScheduled(m) ==
  /\ Consume(m)
  /\ ~MayStart(wf[m.version].pc)
  /\ UNCHANGED <<syncflow, connection, ctl, postVars, loaderVars, excelVars>>

-----------------------------------------------------------------------------
(* The workflow: excelFullSync                                             *)

\* Everything but wf and what a step of the workflow names itself.
workerFrame == <<connection, ctl, sent, pending, cTag, cursor, seen>>

\* checkAndUpdateStatusBeforeStartSyncflow: RUNNING already is no obstacle.
Check(v) ==
  /\ wf[v].pc = "check"
  /\ syncflow' = [syncflow EXCEPT !.status = "RUNNING"]
  /\ Goto(v, "download")
  /\ UNCHANGED <<workerFrame, postVars, loaderVars>>

\* getSyncDataExcel, downloadExcel.
Download(v) ==
  /\ wf[v].pc = "download"
  /\ Save(v)
  /\ Goto(v, "compare")
  /\ UNCHANGED <<workerFrame, syncflow, loaderVars>>

Compare(v) ==
  /\ wf[v].pc = "compare"
  /\ Goto(v, "load")
  /\ UNCHANGED <<workerFrame, syncflow, postVars, loaderVars>>

\* A faulty step: the workflow goes on without the load.
LoadSkipped(v) ==
  /\ wf[v].pc = "load"
  /\ Goto(v, "announce")
  /\ UNCHANGED <<workerFrame, syncflow, postVars, loaderVars>>

LoadExcel(v) ==
  /\ wf[v].pc = "load"
  /\ Apply(Run(v))
  /\ Goto(v, "announce")
  /\ UNCHANGED <<workerFrame, syncflow, postVars, abandoned>>

\* The attempt timed out: a new one is made, the old one may still commit.
RetryLoad(v) ==
  /\ Abandoned
  /\ wf[v].pc = "load"
  /\ Abandon(Run(v))
  /\ UNCHANGED <<workerFrame, syncflow, postVars, wf>>

\* A faulty order: the state is updated before the success is announced.
AnnounceLate(v) ==
  /\ wf[v].pc = "announce"
  /\ PublishSucceed(Run(v))
  /\ syncflow' = [status |-> "IDLING", version |-> v + 1, prevVersion |-> v]
  /\ Goto(v, "advance")
  /\ UNCHANGED <<workerFrame, loaderVars>>

Announce(v) ==
  /\ wf[v].pc = "announce"
  /\ PublishSucceed(Run(v))
  /\ Goto(v, "advance")
  /\ UNCHANGED <<workerFrame, syncflow, loaderVars>>

\* A faulty update: prevVersion is left as it was.
AdvanceVersionOnly(v) ==
  /\ wf[v].pc = "advance"
  /\ syncflow' = [syncflow EXCEPT !.status = "IDLING", !.version = v + 1]
  /\ Goto(v, "completed")
  /\ UNCHANGED <<workerFrame, postVars, loaderVars>>

\* A faulty update: the status is left RUNNING.
AdvanceRunning(v) ==
  /\ wf[v].pc = "advance"
  /\ syncflow' = [syncflow EXCEPT !.version = v + 1, !.prevVersion = v]
  /\ Goto(v, "completed")
  /\ UNCHANGED <<workerFrame, postVars, loaderVars>>

\* updateSyncflowState, after which nothing is left to do: it is completed.
Advance(v) ==
  /\ wf[v].pc = "advance"
  /\ syncflow' = [status |-> "IDLING", version |-> v + 1, prevVersion |-> v]
  /\ Goto(v, "completed")
  /\ UNCHANGED <<workerFrame, postVars, loaderVars>>

-----------------------------------------------------------------------------
(* The workflow: its catch block                                           *)

\* The downloader or the comparer says that the user must mend the data source.
FailExternal(v) ==
  /\ ExternalErrors
  /\ wf[v].pc \in DOMAIN ExcelErrors
  /\ "external" \in ExcelErrors[wf[v].pc]
  /\ Goto(v, "extIdle")
  /\ UNCHANGED <<workerFrame, syncflow, postVars, loaderVars>>

\* A processor failed: the loader's transaction, if any, is rolled back.
FailInternal(v) ==
  /\ InternalErrors
  /\ wf[v].pc \in DOMAIN ExcelErrors
  /\ "internal" \in ExcelErrors[wf[v].pc]
  /\ Goto(v, "intIdle")
  /\ UNCHANGED <<workerFrame, syncflow, postVars, loaderVars>>

\* updateSyncflowStatus(IDLING), before anybody is told.
ResetStatus(v) ==
  /\ wf[v].pc \in {"extIdle", "intIdle"}
  /\ syncflow' = [syncflow EXCEPT !.status = "IDLING"]
  /\ Goto(v, IF wf[v].pc = "extIdle" THEN "extEmit" ELSE "intEmit")
  /\ UNCHANGED <<workerFrame, postVars, loaderVars>>

\* The failure is published; only an external error is thrown again, so that
\* the execution closes as failed. After an internal one it is completed.
EmitFailure(v) ==
  /\ wf[v].pc \in {"extEmit", "intEmit"}
  /\ PublishFailed(v)
  /\ Goto(v, IF wf[v].pc = "extEmit" THEN "failed" ELSE "completed")
  /\ UNCHANGED <<workerFrame, syncflow, loaderVars>>

Workflow(v) ==
  \/ Check(v) \/ Download(v) \/ Compare(v) \/ LoadExcel(v) \/ Announce(v) \/ Advance(v)
  \/ FailExternal(v) \/ FailInternal(v) \/ ResetStatus(v) \/ EmitFailure(v)

-----------------------------------------------------------------------------
(* The loader on its own, the post-processor, the user                     *)

LateLoad(m) ==
  /\ AbandonedEnds(m)
  /\ UNCHANGED <<controlVars, postVars, excelVars>>

PostSucceed(p) ==
  /\ HandleSucceed(p)
  /\ UNCHANGED <<controlVars, loaderVars, excelVars>>

PostFailed(v) ==
  /\ StopSyncConnection(v)
  /\ UNCHANGED <<loaderVars, excelVars>>

UserSetsConnection(status) ==
  /\ SetConnection(status)
  /\ UNCHANGED <<postVars, loaderVars, excelVars>>

UserEditsWorkbook ==
  /\ cTag <= MaxEdits
  /\ cTag' = cTag + 1
  /\ UNCHANGED <<controlVars, postVars, loaderVars, wf, cursor, seen>>

Next ==
  \/ \E c \in Controllers :
       ExcelTakeTrigger(c) \/ ExcelAdmit(c) \/ ExcelRefuse(c) \/ Controller(c) \/ ControllerCrash(c)
  \/ \E m \in sent : StartWorkflow(m) \/ DropScheduled(m)
  \/ \E v \in 1 .. MaxVersion : Workflow(v) \/ RetryLoad(v)
  \/ \E m \in abandoned : LateLoad(m)
  \/ \E p \in PostProcessors : PostSucceed(p)
  \/ \E v \in failed : PostFailed(v)
  \/ \E status \in SyncConnectionStatus : UserSetsConnection(status)
  \/ UserEditsWorkbook

Spec == Init /\ [][Next]_vars

\* Nothing makes triggers come, users act or attempts end late. A controller
\* that took a trigger goes on; a message of the topic is consumed; Temporal
\* drives a started execution to its end.
Fairness ==
  /\ \A c \in Controllers : WF_vars(ExcelAdmit(c) \/ ExcelRefuse(c) \/ Controller(c))
  /\ \A m \in Message : WF_vars(StartWorkflow(m) \/ DropScheduled(m))
  /\ \A v \in 1 .. MaxVersion : WF_vars(Workflow(v))
  /\ \A p \in PostProcessors : WF_vars(PostSucceed(p))

FairSpec == Spec /\ Fairness

-----------------------------------------------------------------------------
(* Properties                                                              *)

\* However often SYNCFLOW_SCHEDULED is published or delivered for a syncflow,
\* by racing controllers or a broker that repeats itself, at most one of its
\* excelFullSync executions is open.
OneSync ==
  \A u, v \in 1 .. MaxVersion :
    wf[u].pc \in Executing /\ wf[v].pc \in Executing => u = v

\* A load that will be applied (its version is not marked), asked for by the
\* running workflow or left behind by a timeout, finds the table at the version
\* its difference was computed from.
LoadOnBase ==
  \A m \in {Run(v) : v \in {u \in 1 .. MaxVersion : wf[u].pc = "load"}}
             \cup {a \in abandoned : table <= a.version} :
    m.version \notin marks => table = m.prevVersion

\* The comparer finds the files of both versions it compares: the cleaner, which
\* may handle an old success late or twice, never deletes a base still needed.
BaseKept ==
  \A v \in 1 .. MaxVersion :
    wf[v].pc = "compare" => {v, wf[v].prev} \ {0} \subseteq store

\* The idempotency table marks the version the destination table holds and no
\* other, whatever was retried: an old mark would outlive its use, a missing
\* one would let the last load be applied twice.
OnlyLastMarked == marks = {table} \ {0}

\* When no sync executes and no success waits to be handled, the rowsNumber of
\* the data source has counted each loaded version exactly once: if a success is
\* not delivered again once it was handled, and by one instance of the service.
RowsCountedOnce ==
  (/\ unhandled = {}
   /\ \A v \in 1 .. MaxVersion : wf[v].pc \notin Executing)
    => \A v \in 1 .. MaxVersion : counted[v] = IF v <= table THEN 1 ELSE 0

Promise == INSTANCE SequentialSync WITH
  current <- syncflow.version,
  begun <- wf[syncflow.version].pc # "none",
  running <- \E v \in Versions : wf[v].pc \in Executing,
  loaded <- table,
  announced <- IF wf[syncflow.version].pc = "advance"
               THEN syncflow.version ELSE syncflow.prevVersion

\* The whole of it implements the abstract syncflow: versions are loaded one
\* after the other, each on its predecessor, each announced before the next.
Sequential == Promise!Spec

\* A syncflow that is scheduled or running becomes idle again: otherwise the
\* controllers refuse every trigger from then on.
Settles == (syncflow.status # "IDLING") ~> (syncflow.status = "IDLING")

\* A published schedule is not lost among duplicates and refusals: the version
\* it names is loaded in the end.
ScheduledIsLoaded ==
  \A m \in Runnable : (m \in pending) ~> (table >= m.version)
=============================================================================
