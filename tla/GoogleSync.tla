------------------------------ MODULE GoogleSync ----------------------------
(***************************************************************************)
(* A Google Sheets syncflow end to end. The sync is cut into three         *)
(* workflows that hand over to each other through topics of their own:     *)
(* googleSheetsFullSync publishes GOOGLE_SHEETS_DOWNLOAD, the download     *)
(* publishes GOOGLE_SHEETS_PROCEED_SYNC, and googleSheetsProceedSync       *)
(* ingests, compares, loads and announces. Each has its own workflow id    *)
(* per version. The error handler they share gives the version up.         *)
(***************************************************************************)
EXTENDS PostProcessor, Loader, ActivityErrors

CONSTANTS
  Errors,          \* a processor may report an external or internal error
  Abandoned        \* a load attempt may be given up and retried

ASSUME GoogleAssumption ==
  /\ Errors \in BOOLEAN
  /\ Abandoned \in BOOLEAN

VARIABLES
  ex,              \* per workflow and version: its execution
  topic            \* per later workflow: the topic that starts it

googleVars == <<ex, topic>>
vars == <<controlVars, postVars, loaderVars, googleVars>>

Later == {"download", "proceed"}
Kinds == {"full"} \cup Later

Executing ==
  {"check", "download", "ingest", "compare", "load", "announce", "advance",
   "handover", "giveUp", "emitFailure"}

Execution == [pc : Executing \cup {"none", "failed", "completed"}, prev : 0 .. MaxVersion]

TypeOK ==
  /\ ControlTypeOK
  /\ PostTypeOK
  /\ table \in 0 .. MaxVersion
  /\ marks \subseteq 0 .. MaxVersion
  /\ abandoned \subseteq Runnable
  /\ ex \in [Kinds -> [Versions -> Execution]]
  /\ topic \in [Later -> [sent : SUBSET Message, pending : SUBSET Message]]

Init ==
  /\ ControlInit
  /\ PostInit
  /\ LoaderInit
  /\ ex = [k \in Kinds |-> [v \in Versions |-> [pc |-> "none", prev |-> 0]]]
  /\ topic = [k \in Later |-> [sent |-> {}, pending |-> {}]]

At(k, v, pc) == ex[k][v].pc = pc

Goto(k, v, pc) == ex' = [ex EXCEPT ![k][v].pc = pc]

\* The payload every workflow of a version was started with and hands on.
Run(k, v) == [version |-> v, prevVersion |-> ex[k][v].prev]

-----------------------------------------------------------------------------
(* The controller: GoogleSheetsSyncflowController.run checks nothing       *)

Controller(c) ==
  /\ TakeTrigger(c) \/ Admit(c) \/ ControllerStep(c)
  /\ UNCHANGED <<postVars, loaderVars, googleVars>>

ControllerCrash(c) ==
  /\ Crash(c)
  /\ UNCHANGED <<postVars, loaderVars, googleVars>>

-----------------------------------------------------------------------------
(* The worker's broker controller: an event starts a workflow or is dropped *)

\* What a topic is after one of its messages was delivered.
Delivered(t, m) ==
  {[t EXCEPT !.pending = @ \ {m}] : n \in t.pending \cap {m}}
    \cup {t : n \in IF Redelivery THEN t.sent \cap {m} ELSE {}}

\* The workflow's first step.
FirstStep == [full |-> "check", download |-> "download", proceed |-> "ingest"]

Start(k, m) ==
  ex' = IF MayStart(ex[k][m.version].pc)
        THEN [ex EXCEPT ![k][m.version] = [pc |-> FirstStep[k], prev |-> m.prevVersion]]
        ELSE ex

StartFull(m) ==
  /\ Consume(m)
  /\ Start("full", m)
  /\ UNCHANGED <<syncflow, connection, ctl, postVars, loaderVars, topic>>

StartLater(k, m) ==
  /\ \E t \in Delivered(topic[k], m) : topic' = [topic EXCEPT ![k] = t]
  /\ Start(k, m)
  /\ UNCHANGED <<controlVars, postVars, loaderVars>>

Publish(k, m) ==
  topic' = [topic EXCEPT ![k] = [sent |-> @.sent \cup {m}, pending |-> @.pending \cup {m}]]

-----------------------------------------------------------------------------
(* googleSheetsFullSync and googleSheetsDownload                           *)

\* What no step of a workflow changes.
workerFrame == <<connection, ctl, sent, pending>>

Check(v) ==
  /\ At("full", v, "check")
  /\ syncflow' = [syncflow EXCEPT !.status = "RUNNING"]
  /\ Goto("full", v, "handover")
  /\ UNCHANGED <<workerFrame, postVars, loaderVars, topic>>

\* The spreadsheet is downloaded for all its syncflows, or was just now for
\* another of them: nothing that is kept per syncflow tells one from the other.
Download(v) ==
  /\ At("download", v, "download")
  /\ Goto("download", v, "handover")
  /\ UNCHANGED <<workerFrame, syncflow, postVars, loaderVars, topic>>

\* The workflow publishes the event that starts the next one, and completes.
HandOver(k, v) ==
  /\ k # "proceed"
  /\ At(k, v, "handover")
  /\ Publish(IF k = "full" THEN "download" ELSE "proceed", Run(k, v))
  /\ Goto(k, v, "completed")
  /\ UNCHANGED <<workerFrame, syncflow, postVars, loaderVars>>

-----------------------------------------------------------------------------
(* googleSheetsProceedSync                                                 *)

Ingest(v) ==
  /\ At("proceed", v, "ingest")
  /\ Save(v)
  /\ Goto("proceed", v, "compare")
  /\ UNCHANGED <<workerFrame, syncflow, loaderVars, topic>>

\* A faulty step: the workflow goes on without the load.
CompareSkippingLoad(v) ==
  /\ At("proceed", v, "compare")
  /\ Goto("proceed", v, "announce")
  /\ UNCHANGED <<workerFrame, syncflow, postVars, loaderVars, topic>>

Compare(v) ==
  /\ At("proceed", v, "compare")
  /\ Goto("proceed", v, "load")
  /\ UNCHANGED <<workerFrame, syncflow, postVars, loaderVars, topic>>

LoadGoogleSheets(v) ==
  /\ At("proceed", v, "load")
  /\ Apply(Run("proceed", v))
  /\ Goto("proceed", v, "announce")
  /\ UNCHANGED <<workerFrame, syncflow, postVars, abandoned, topic>>

RetryLoad(v) ==
  /\ Abandoned
  /\ At("proceed", v, "load")
  /\ Abandon(Run("proceed", v))
  /\ UNCHANGED <<workerFrame, syncflow, postVars, googleVars>>

\* A faulty order: the state is updated before the success is announced.
AnnounceLate(v) ==
  /\ At("proceed", v, "announce")
  /\ PublishSucceed(Run("proceed", v))
  /\ syncflow' = [status |-> "IDLING", version |-> v + 1, prevVersion |-> v]
  /\ Goto("proceed", v, "advance")
  /\ UNCHANGED <<workerFrame, loaderVars, topic>>

Announce(v) ==
  /\ At("proceed", v, "announce")
  /\ PublishSucceed(Run("proceed", v))
  /\ Goto("proceed", v, "advance")
  /\ UNCHANGED <<workerFrame, syncflow, loaderVars, topic>>

\* A faulty end: the state is left RUNNING.
AdvanceRunning(v) ==
  /\ At("proceed", v, "advance")
  /\ syncflow' = [syncflow EXCEPT !.version = v + 1, !.prevVersion = v]
  /\ Goto("proceed", v, "completed")
  /\ UNCHANGED <<workerFrame, postVars, loaderVars, topic>>

Advance(v) ==
  /\ At("proceed", v, "advance")
  /\ syncflow' = [status |-> "IDLING", version |-> v + 1, prevVersion |-> v]
  /\ Goto("proceed", v, "completed")
  /\ UNCHANGED <<workerFrame, postVars, loaderVars, topic>>

-----------------------------------------------------------------------------
(* GoogleSheetsFullSyncErrorHandler                                        *)

\* An error with a type, which this handler treats alike.
Fail(k, v) ==
  /\ Errors
  /\ \E pc \in DOMAIN GoogleErrors : At(k, v, pc) /\ GoogleErrors[pc] # {}
  /\ Goto(k, v, "giveUp")
  /\ UNCHANGED <<workerFrame, syncflow, postVars, loaderVars, topic>>

\* A faulty handler: the version given up becomes the base of the next.
GiveUpAsDone(k, v) ==
  /\ At(k, v, "giveUp")
  /\ syncflow' = [status |-> "IDLING", version |-> v + 1, prevVersion |-> v]
  /\ Goto(k, v, "emitFailure")
  /\ UNCHANGED <<workerFrame, postVars, loaderVars, topic>>

\* A faulty handler: an increment that is made twice when it is retried.
GiveUpTwice(k, v) ==
  /\ At(k, v, "giveUp")
  /\ \E n \in 1 .. 2 :
       syncflow' = [syncflow EXCEPT !.status = "IDLING", !.version = v + n]
  /\ Goto(k, v, "emitFailure")
  /\ UNCHANGED <<workerFrame, postVars, loaderVars, topic>>

\* The next version replaces this one, from the same previous version.
GiveUp(k, v) ==
  /\ At(k, v, "giveUp")
  /\ syncflow' = [syncflow EXCEPT !.status = "IDLING", !.version = v + 1]
  /\ Goto(k, v, "emitFailure")
  /\ UNCHANGED <<workerFrame, postVars, loaderVars, topic>>

\* Both kinds of error are published, thrown again and fail the execution.
EmitFailure(k, v) ==
  /\ At(k, v, "emitFailure")
  /\ PublishFailed(v)
  /\ Goto(k, v, "failed")
  /\ UNCHANGED <<workerFrame, syncflow, loaderVars, topic>>

Workflow(k, v) ==
  \/ k = "full" /\ Check(v)
  \/ k = "download" /\ Download(v)
  \/ k = "proceed" /\ (Ingest(v) \/ Compare(v) \/ LoadGoogleSheets(v) \/ Announce(v) \/ Advance(v))
  \/ HandOver(k, v) \/ Fail(k, v) \/ GiveUp(k, v) \/ EmitFailure(k, v)

-----------------------------------------------------------------------------
(* The loader on its own, the post-processor, the user                     *)

LateLoad(m) ==
  /\ AbandonedEnds(m)
  /\ UNCHANGED <<controlVars, postVars, googleVars>>

PostSucceed(p) ==
  /\ HandleSucceed(p)
  /\ UNCHANGED <<controlVars, loaderVars, googleVars>>

PostFailed(v) ==
  /\ StopSyncConnection(v)
  /\ UNCHANGED <<loaderVars, googleVars>>

UserSetsConnection(status) ==
  /\ SetConnection(status)
  /\ UNCHANGED <<postVars, loaderVars, googleVars>>

Next ==
  \/ \E c \in Controllers : Controller(c) \/ ControllerCrash(c)
  \/ \E m \in sent : StartFull(m)
  \/ \E k \in Later : \E m \in topic[k].sent : StartLater(k, m)
  \/ \E k \in Kinds, v \in 1 .. MaxVersion : Workflow(k, v)
  \/ \E v \in 1 .. MaxVersion : RetryLoad(v)
  \/ \E m \in abandoned : LateLoad(m)
  \/ \E p \in PostProcessors : PostSucceed(p)
  \/ \E v \in failed : PostFailed(v)
  \/ \E status \in SyncConnectionStatus : UserSetsConnection(status)

Spec == Init /\ [][Next]_vars

\* As for Excel: a trigger taken is handled to the end, messages are consumed,
\* executions proceed. No trigger, user or abandoned attempt need ever act.
Fairness ==
  /\ \A c \in Controllers : WF_vars(ctl[c].pc # "idle" /\ Controller(c))
  /\ \A m \in Message : WF_vars(StartFull(m))
  /\ \A k \in Later, m \in Message : WF_vars(StartLater(k, m))
  /\ \A k \in Kinds, v \in 1 .. MaxVersion : WF_vars(Workflow(k, v))

FairSpec == Spec /\ Fairness

-----------------------------------------------------------------------------
(* Properties                                                              *)

\* At most one version of the data source is on its way to the table.
OneSync ==
  \A u, v \in 1 .. MaxVersion :
    /\ ex["proceed"][u].pc \in Executing \ {"emitFailure"}
    /\ ex["proceed"][v].pc \in Executing \ {"emitFailure"}
    => u = v

\* A load that will be applied, by the workflow or by an attempt it gave up
\* waiting for, finds the table at the version its difference starts from.
LoadOnBase ==
  \A m \in {Run("proceed", v) : v \in {u \in 1 .. MaxVersion : At("proceed", u, "load")}}
             \cup {a \in abandoned : table <= a.version} :
    m.version \notin marks => table = m.prevVersion

\* The sync of the current version has begun; it goes on, through all three
\* workflows, until the version advances or is given up.
Underway == ex["full"][syncflow.version].pc \notin {"none", "check"}

Promise == INSTANCE SequentialSync WITH
  current <- syncflow.version,
  begun <- Underway,
  running <- Underway,
  loaded <- table,
  announced <- IF At("proceed", syncflow.version, "advance")
               THEN syncflow.version ELSE syncflow.prevVersion

\* The three workflows together implement the abstract syncflow.
Sequential == Promise!Spec

\* A syncflow that is scheduled or running becomes idle again, through errors of
\* the processors too.
Settles == (syncflow.status # "IDLING") ~> (syncflow.status = "IDLING")
=============================================================================
