--------------------------- MODULE ExcelSyncProofs --------------------------
(***************************************************************************)
(* Theorems about ExcelSync, for every number of controllers, every bound  *)
(* on versions and edits, and every combination of faults.                 *)
(***************************************************************************)
EXTENDS ExcelSync, TLAPS

-----------------------------------------------------------------------------
(* Typing                                                                  *)

LEMMA InitTyped == Init => TypeOK
  BY ControlAssumption, ExcelAssumption
  DEF Init, ControlInit, PostInit, LoaderInit, TypeOK, ControlTypeOK, SyncConnectionStatus, PostTypeOK,
      SyncflowState, Status, Versions, Message, Runnable, NoMessage, ControllerState, Idle,
      Execution, Executing, CountCap, Counts, NoCounts, Waiting

LEMMA RunTyped ==
  ASSUME TypeOK, NEW v \in 1 .. MaxVersion
  PROVE  Run(v) \in Runnable
  BY ControlAssumption DEF TypeOK, Run, Runnable, Execution, Versions

LEMMA RunnableTyped == Runnable \subseteq Message
  BY ControlAssumption DEF Runnable, Message, Versions

LEMMA MessageTyped ==
  ASSUME NEW m \in Message
  PROVE  m.version \in Versions /\ m.prevVersion \in 0 .. MaxVersion
  BY DEF Message

LEMMA RunnableFields ==
  ASSUME NEW m \in Runnable
  PROVE  m.version \in 1 .. MaxVersion /\ m.prevVersion \in 0 .. MaxVersion
  BY DEF Runnable

LEMMA GotoTyped ==
  ASSUME TypeOK, NEW v \in 1 .. MaxVersion,
         NEW pc \in Executing \cup {"none", "failed", "completed"}, Goto(v, pc)
  PROVE  wf' \in [Versions -> Execution]
  BY ControlAssumption DEF TypeOK, Goto, Execution, Versions

\* The steps that an error ends are those that call a processor.
LEMMA FailingSteps == DOMAIN ExcelErrors = {"download", "compare", "load"}
  BY DEF ExcelErrors

\* The loader blames nobody but itself: no load ends in an external error.
LEMMA LoadNotExternal == "external" \notin ExcelErrors["load"]
<1>1. ExcelErrors["load"] = Ending(ProcessorErrors({"internal"}))
  <2>1. ExcelErrors["load"] = EndingOf("loadExcel", ExcelOptions, ProcessorErrors({"internal"}))
    BY DEF ExcelErrors, ExcelEnding
  <2>2. "loadExcel" \in WorkerActivities
    BY DEF WorkerActivities
  <2>3. TriesForEver(ExcelOptions["loadExcel"])
    BY DEF TriesForEver, ExcelOptions, Options, ProcessorRetryPolicy
  <2> QED
    BY <2>1, <2>2, <2>3 DEF EndingOf
<1>2. ProcessorErrors({"internal"}) = {"internal", Untyped}
  BY DEF ProcessorErrors, processorApiWrapper, ErrorType, Untyped
<1>3. "external" \notin Ending({"internal", Untyped})
  BY DEF Ending, NonRetryable, processorWrapper, UnacceptableActivityError, ErrorType, Untyped
<1> QED
  BY <1>1, <1>2, <1>3

LEMMA ApplyTyped ==
  ASSUME TypeOK, NEW m \in Runnable, Apply(m)
  PROVE  table' \in 0 .. MaxVersion /\ marks' \subseteq 0 .. MaxVersion
  <1> m.version \in 1 .. MaxVersion /\ m.prevVersion \in 0 .. MaxVersion
    BY RunnableFields
  <1>1. CASE m.version \in marks
    BY <1>1 DEF TypeOK, Apply
  <1>2. CASE m.version \notin marks
    <2>1. table' = m.version /\ marks' = (marks \cup {m.version}) \ {m.prevVersion}
      BY <1>2 DEF Apply
    <2>2. marks \subseteq 0 .. MaxVersion /\ m.version \in 0 .. MaxVersion
      BY ControlAssumption DEF TypeOK
    <2> QED BY <2>1, <2>2
  <1> QED BY <1>1, <1>2

\* What an instance handles is a message it took, and the counts it read then.
LEMMA HandlingTyped ==
  ASSUME PostTypeOK, NEW p \in PostProcessors, handling[p] # Waiting
  PROVE  handling[p].msg \in Message /\ handling[p].read \in Counts
  BY DEF PostTypeOK

LEMMA SucceedTyped ==
  ASSUME PostTypeOK, NEW p \in PostProcessors, HandleSucceed(p)
  PROVE  PostTypeOK'
<1> USE DEF PostTypeOK
<1>1. ASSUME NEW m \in succeeded, BeginSucceed(p, m) PROVE PostTypeOK'
  <2>1. handling' = [handling EXCEPT ![p] = [msg |-> m, read |-> counted]]
    BY <1>1 DEF BeginSucceed
  <2>2. [msg |-> m, read |-> counted] \in [msg : Message, read : Counts]
    OBVIOUS
  <2>3. handling' \in [PostProcessors -> [msg : Message, read : Counts] \cup {Waiting}]
    BY <2>1, <2>2
  <2> QED
    BY <1>1, <2>3 DEF BeginSucceed, CleanPrevious
<1>2. CASE EndSucceed(p)
  <2>1. handling[p] # Waiting
    BY <1>2 DEF EndSucceed, Finish
  <2>2. handling[p].msg.version \in Versions /\ handling[p].read \in [Versions -> 0 .. CountCap]
    BY <2>1, HandlingTyped, MessageTyped DEF Counts
  <2>3. counted' \in Counts
    BY <1>2, <2>2 DEF EndSucceed, updateStatistics, Counts, CountCap
  <2> QED
    BY <1>2, <2>3 DEF EndSucceed, Finish
<1>3. CASE HandlerDies(p)
  BY <1>3 DEF HandlerDies
<1> QED
  BY <1>1, <1>2, <1>3 DEF HandleSucceed

\* All that a handler does to the files is the cleaning of a success's base.
LEMMA SucceedCleans ==
  ASSUME NEW p \in PostProcessors, HandleSucceed(p)
  PROVE  /\ UNCHANGED succeeded
         /\ UNCHANGED store \/ \E m \in succeeded : store' = store \ {m.prevVersion}
  BY DEF HandleSucceed, BeginSucceed, EndSucceed, HandlerDies, Finish, CleanPrevious

LEMMA NextTyped == TypeOK /\ [Next]_vars => TypeOK'
<1> USE ControlAssumption, ExcelAssumption
<1> SUFFICES ASSUME TypeOK, [Next]_vars PROVE TypeOK'
  OBVIOUS
<1> USE DEF TypeOK, ControlTypeOK, SyncConnectionStatus, PostTypeOK, controlVars, postVars, loaderVars, excelVars,
            workerFrame
<1>a. \A v \in 1 .. MaxVersion : v \in Versions /\ v + 1 \in Versions
  BY DEF Versions
<1>1. ASSUME NEW c \in Controllers, ExcelTakeTrigger(c) PROVE TypeOK'
  BY <1>1 DEF ExcelTakeTrigger, TakeTrigger, ControllerState
<1>2. ASSUME NEW c \in Controllers, ExcelAdmit(c) PROVE TypeOK'
  BY <1>2 DEF ExcelAdmit, Admit, Stored, SchemaFields, ControllerState
<1>3. ASSUME NEW c \in Controllers, ExcelRefuse(c) PROVE TypeOK'
  BY <1>3 DEF ExcelRefuse, Refuse, Idle, ControllerState
<1>4. ASSUME NEW c \in Controllers, Controller(c) PROVE TypeOK'
  <2>1. CASE WriteScheduled(c)
    BY <1>4, <2>1 DEF Controller, WriteScheduled, SyncflowState, Status, ControllerState
  <2>2. CASE Reread(c)
    <3>1. [version |-> syncflow.version, prevVersion |-> syncflow.prevVersion] \in Message
      BY DEF Message, SyncflowState
    <3> QED BY <1>4, <2>2, <3>1 DEF Controller, Reread, ControllerState
  <2>3. CASE EmitScheduled(c)
    <3>1. ctl[c].msg \in Message
      BY <2>3 DEF EmitScheduled, ControllerState
    <3>2. ctl' \in [Controllers -> ControllerState]
      BY <2>3 DEF EmitScheduled, ControllerState, Idle
    <3> QED BY <1>4, <2>3, <3>1, <3>2 DEF Controller, EmitScheduled
  <2> QED BY <1>4, <2>1, <2>2, <2>3 DEF Controller, ControllerStep
<1>5. ASSUME NEW c \in Controllers, ControllerCrash(c) PROVE TypeOK'
  BY <1>5 DEF ControllerCrash, Crash, Idle, ControllerState
<1>6. ASSUME NEW m \in sent, StartWorkflow(m) PROVE TypeOK'
  <2>1. m.version \in Versions /\ m.prevVersion \in 0 .. MaxVersion
    BY MessageTyped
  <2>2. wf' \in [Versions -> Execution]
    BY <1>6, <2>1 DEF StartWorkflow, Execution, Executing
  <2> QED BY <1>6, <2>2 DEF StartWorkflow, Consume
<1>7. ASSUME NEW m \in sent, DropScheduled(m) PROVE TypeOK'
  BY <1>7 DEF DropScheduled, Consume
<1>8. ASSUME NEW v \in 1 .. MaxVersion, Workflow(v) PROVE TypeOK'
  <2>1. CASE Check(v)
    <3>1. syncflow' \in SyncflowState
      BY <2>1 DEF Check, SyncflowState, Status
    <3> QED BY <2>1, <3>1, GotoTyped DEF Check, Executing
  <2>2. CASE Download(v)
    BY <2>2, <1>a, GotoTyped DEF Download, Save, Executing
  <2>3. CASE Compare(v)
    BY <2>3, GotoTyped DEF Compare, Executing
  <2>4. CASE LoadExcel(v)
    <3>1. wf' \in [Versions -> Execution]
      BY <2>4, GotoTyped DEF LoadExcel, Executing
    <3>2. table' \in 0 .. MaxVersion /\ marks' \subseteq 0 .. MaxVersion
      BY <2>4, RunTyped, ApplyTyped DEF LoadExcel
    <3> QED BY <2>4, <3>1, <3>2 DEF LoadExcel
  <2>5. CASE Announce(v)
    <3>1. wf' \in [Versions -> Execution]
      BY <2>5, GotoTyped DEF Announce, Executing
    <3>2. Run(v) \in Message
      BY RunTyped, RunnableTyped
    <3> QED BY <2>5, <3>1, <3>2 DEF Announce, PublishSucceed
  <2>6. CASE Advance(v)
    <3>1. wf' \in [Versions -> Execution]
      BY <2>6, GotoTyped DEF Advance, Executing
    <3>2. syncflow' \in SyncflowState
      BY <2>6, <1>a DEF Advance, SyncflowState, Status
    <3> QED BY <2>6, <3>1, <3>2 DEF Advance
  <2>7. CASE FailExternal(v)
    BY <2>7, GotoTyped, FailingSteps DEF FailExternal, Executing
  <2>8. CASE FailInternal(v)
    BY <2>8, GotoTyped, FailingSteps DEF FailInternal, Executing
  <2>9. CASE ResetStatus(v)
    <3>1. syncflow' \in SyncflowState
      BY <2>9 DEF ResetStatus, SyncflowState, Status
    <3>2. wf' \in [Versions -> Execution]
      BY <2>9, GotoTyped DEF ResetStatus, Executing
    <3> QED BY <2>9, <3>1, <3>2 DEF ResetStatus
  <2>10. CASE EmitFailure(v)
    <3>1. wf' \in [Versions -> Execution]
      BY <2>10, GotoTyped DEF EmitFailure, Executing
    <3> QED BY <2>10, <1>a, <3>1 DEF EmitFailure, PublishFailed
  <2> QED BY <1>8, <2>1, <2>2, <2>3, <2>4, <2>5, <2>6, <2>7, <2>8, <2>9, <2>10 DEF Workflow
<1>9. ASSUME NEW v \in 1 .. MaxVersion, RetryLoad(v) PROVE TypeOK'
  BY <1>9, RunTyped DEF RetryLoad, Abandon
<1>10. ASSUME NEW m \in abandoned, LateLoad(m) PROVE TypeOK'
  <2>1. table' \in 0 .. MaxVersion /\ marks' \subseteq 0 .. MaxVersion
    BY <1>10, ApplyTyped DEF LateLoad, AbandonedEnds
  <2> QED BY <1>10, <2>1 DEF LateLoad, AbandonedEnds
<1>11. ASSUME NEW p \in PostProcessors, PostSucceed(p) PROVE TypeOK'
  <2>1. PostTypeOK'
    BY <1>11, SucceedTyped DEF PostSucceed
  <2> QED BY <1>11, <2>1 DEF PostSucceed
<1>12. ASSUME NEW v \in failed, PostFailed(v) PROVE TypeOK'
  BY <1>12 DEF PostFailed, StopSyncConnection, updateConnectionState
<1>13. ASSUME NEW status \in SyncConnectionStatus, UserSetsConnection(status) PROVE TypeOK'
  BY <1>13 DEF UserSetsConnection, SetConnection, updateConnectionState
<1>14. CASE UserEditsWorkbook
  BY <1>14 DEF UserEditsWorkbook
<1>15. CASE UNCHANGED vars
  BY <1>15 DEF vars
<1> QED
  BY <1>1, <1>2, <1>3, <1>4, <1>5, <1>6, <1>7, <1>8, <1>9, <1>10, <1>11, <1>12, <1>13,
     <1>14, <1>15 DEF Next

\* The variables only hold what their types allow: in particular no sync runs
\* under a version the syncflow has not reached, and the database's state keeps
\* to its three statuses whatever order controllers and workflows write it in.
THEOREM TypeCorrect == Spec => []TypeOK
  BY InitTyped, NextTyped, PTL DEF Spec

-----------------------------------------------------------------------------
(* The inductive invariant                                                 *)

\* The state of the execution of the syncflow's current version.
Now == wf[syncflow.version].pc

\* Only the last step of an execution advances the version, so every earlier
\* execution is completed, none later exists, and the previous version of
\* anything is its predecessor.
VersionsInv ==
  /\ syncflow.version = syncflow.prevVersion + 1
  /\ \A v \in Versions :
       /\ v < syncflow.version => wf[v].pc = "completed"
       /\ v > syncflow.version => wf[v].pc = "none"
       /\ wf[v].pc # "none" => v = wf[v].prev + 1

\* A message names a version the syncflow has reached, with its predecessor.
Current(m) == m.version = m.prevVersion + 1 /\ m.version <= syncflow.version

MessagesInv ==
  /\ \A m \in sent : Current(m)
  /\ \A c \in Controllers : ctl[c].pc = "emit" => Current(ctl[c].msg)

\* The table holds the previous version, or already the current one if its load
\* was asked for; it is the one marked version.
LoadInv ==
  /\ table \in {syncflow.prevVersion, syncflow.version}
  /\ Now \in {"none", "check", "download", "compare", "extIdle", "extEmit", "failed"}
       => table = syncflow.prevVersion
  /\ Now \in {"announce", "advance"} => table = syncflow.version
  /\ marks = {table} \ {0}

\* An abandoned attempt is one of a load asked for.
AbandonedInv ==
  \A a \in abandoned :
    /\ Current(a)
    /\ a.version = syncflow.version
         => Now \in {"load", "announce", "advance", "intIdle", "intEmit", "completed"}

\* The files of the previous version are kept until the current one's success
\* is announced, those of the current one from its download on.
StoreInv ==
  /\ Now # "advance" /\ syncflow.prevVersion # 0 => syncflow.prevVersion \in store
  /\ Now \in {"compare", "load", "announce", "advance"} => syncflow.version \in store
  /\ \A m \in succeeded :
       /\ Current(m)
       /\ m.version = syncflow.version => Now = "advance"

IInv == TypeOK /\ VersionsInv /\ MessagesInv /\ LoadInv /\ AbandonedInv /\ StoreInv

LEMMA InitInv == Init => IInv
<1> SUFFICES ASSUME Init PROVE IInv
  OBVIOUS
<1>1. TypeOK
  BY InitTyped
<1>2. syncflow.version = 1 /\ syncflow.prevVersion = 0 /\ 1 \in Versions
  BY ControlAssumption DEF Init, ControlInit, Versions
<1>3. \A v \in Versions : wf[v].pc = "none" /\ v >= 1
  BY ControlAssumption DEF Init, Versions
<1>4. Now = "none"
  BY <1>2, <1>3 DEF Now
<1>5. VersionsInv
  BY <1>2, <1>3 DEF VersionsInv, Versions
<1>6. MessagesInv
  BY DEF Init, ControlInit, Idle, MessagesInv
<1>7. LoadInv /\ AbandonedInv /\ StoreInv
  BY <1>2, <1>4 DEF Init, LoaderInit, PostInit, LoadInv, AbandonedInv, StoreInv
<1> QED BY <1>1, <1>5, <1>6, <1>7 DEF IInv

\* A version that executes is the current one.
LEMMA ExecutingNow ==
  ASSUME TypeOK, VersionsInv, NEW v \in 1 .. MaxVersion, wf[v].pc \in Executing
  PROVE  /\ v = syncflow.version
         /\ wf[v].prev = syncflow.prevVersion
         /\ Now = wf[v].pc
<1>1. v \in Versions /\ syncflow.version \in Versions /\ syncflow.prevVersion \in 0 .. MaxVersion
  BY ControlAssumption DEF TypeOK, ControlTypeOK, SyncflowState, Versions
<1>2. wf[v].pc \notin {"none", "completed"}
  BY DEF Executing
<1>3. v = syncflow.version
  BY <1>1, <1>2 DEF VersionsInv, Versions
<1>4. wf[v].prev \in 0 .. MaxVersion
  BY <1>1 DEF TypeOK, Execution
<1> QED BY <1>1, <1>2, <1>3, <1>4 DEF VersionsInv, Now, Versions

\* A workflow that moves from step to step under its version keeps VersionsInv.
LEMMA MoveKeepsVersions ==
  ASSUME TypeOK, TypeOK', VersionsInv, NEW v \in 1 .. MaxVersion, wf[v].pc \in Executing,
         NEW pc \in Executing \cup {"failed", "completed"}, Goto(v, pc),
         syncflow'.version = syncflow.version, syncflow'.prevVersion = syncflow.prevVersion
  PROVE  VersionsInv' /\ Now' = pc
<1>1. v \in Versions /\ v = syncflow.version
  BY ExecutingNow, ControlAssumption DEF Versions
<1>2. wf'[v].pc = pc /\ wf'[v].prev = wf[v].prev
  BY <1>1 DEF Goto, TypeOK, Execution
<1>3. \A u \in Versions \ {v} : wf'[u] = wf[u]
  BY <1>1 DEF Goto, TypeOK
<1>4. wf[v].pc # "none"
  BY DEF Executing
<1>5. \A u \in Versions :
        /\ u < syncflow.version => wf'[u].pc = "completed"
        /\ u > syncflow.version => wf'[u].pc = "none"
        /\ wf'[u].pc # "none" => u = wf'[u].prev + 1
  <2> TAKE u \in Versions
  <2>1. CASE u = v
    BY <2>1, <1>1, <1>2, <1>4 DEF VersionsInv, Versions
  <2>2. CASE u # v
    BY <2>2, <1>3 DEF VersionsInv
  <2> QED BY <2>1, <2>2
<1> QED BY <1>1, <1>2, <1>5 DEF VersionsInv, Now

\* What steps that do not move a workflow preserve.
LEMMA QuietStep ==
  ASSUME IInv, TypeOK', MessagesInv',
         UNCHANGED <<wf, table, marks, abandoned, store, succeeded>>,
         syncflow'.version = syncflow.version, syncflow'.prevVersion = syncflow.prevVersion
  PROVE  IInv'
  BY DEF IInv, VersionsInv, LoadInv, AbandonedInv, StoreInv, Current, Now

\* Messages stay current while nothing is said and the version does not recede.
LEMMA MessagesKept ==
  ASSUME TypeOK, MessagesInv, UNCHANGED sent, syncflow'.version >= syncflow.version,
         syncflow'.version \in Nat,
         \A c \in Controllers : ctl'[c].pc = "emit" => ctl'[c] = ctl[c]
  PROVE  MessagesInv'
<1>1. \A m \in Message : Current(m) => Current(m)'
  BY DEF Message, Versions, Current, TypeOK, ControlTypeOK, SyncflowState
<1>2. \A m \in sent : m \in Message
  BY DEF TypeOK, ControlTypeOK
<1>3. \A c \in Controllers : ctl[c].pc = "emit" => ctl[c].msg \in Message
  BY DEF TypeOK, ControlTypeOK, ControllerState
<1> QED BY <1>1, <1>2, <1>3 DEF MessagesInv

\* The controllers write no more than the status, and publish what they read.
LEMMA ControllerKeepsInv ==
  ASSUME IInv, TypeOK', NEW c \in Controllers, Controller(c)
  PROVE  IInv'
<1> USE DEF controlVars, postVars, loaderVars, excelVars
<1>t. TypeOK /\ MessagesInv
  BY DEF IInv
<1>n. syncflow.version \in Nat /\ syncflow.prevVersion \in Nat
  BY <1>t DEF TypeOK, ControlTypeOK, SyncflowState, Versions
<1>1. CASE WriteScheduled(c)
  <2>1. /\ syncflow'.version = syncflow.version
        /\ syncflow'.prevVersion = syncflow.prevVersion
        /\ UNCHANGED sent
        /\ \A d \in Controllers : ctl'[d].pc = "emit" => ctl'[d] = ctl[d]
    BY <1>1, <1>t DEF WriteScheduled, TypeOK, ControlTypeOK, SyncflowState, ControllerState
  <2>2. MessagesInv'
    BY <1>t, <1>n, <2>1, MessagesKept
  <2> QED BY <1>1, <2>1, <2>2, QuietStep DEF Controller, WriteScheduled
<1>2. CASE Reread(c)
  <2>1. UNCHANGED <<syncflow, sent>>
    BY <1>2 DEF Reread
  <2>2. \A d \in Controllers \ {c} : ctl'[d] = ctl[d]
    BY <1>2, <1>t DEF Reread, TypeOK, ControlTypeOK
  <2>3. ctl'[c].msg = [version |-> syncflow.version, prevVersion |-> syncflow.prevVersion]
    BY <1>2, <1>t DEF Reread, TypeOK, ControlTypeOK
  <2>4. Current(ctl'[c].msg)
    BY <1>n, <2>3 DEF IInv, VersionsInv, Current
  <2>5. MessagesInv'
    BY <1>t, <2>1, <2>2, <2>4 DEF MessagesInv, Current
  <2> QED BY <1>2, <2>1, <2>5, QuietStep DEF Controller, Reread
<1>3. CASE EmitScheduled(c)
  <2>1. UNCHANGED syncflow /\ sent' = sent \cup {ctl[c].msg} /\ ctl[c].pc = "emit"
    BY <1>3 DEF EmitScheduled
  <2>2. \A d \in Controllers : ctl'[d].pc = "emit" => ctl'[d] = ctl[d]
    BY <1>3, <1>t DEF EmitScheduled, Idle, TypeOK, ControlTypeOK
  <2>3. Current(ctl[c].msg)
    BY <1>t, <2>1 DEF MessagesInv
  <2>4. MessagesInv'
    BY <1>t, <2>1, <2>2, <2>3 DEF MessagesInv, Current
  <2> QED BY <1>3, <2>1, <2>4, QuietStep DEF Controller, EmitScheduled
<1> QED BY <1>1, <1>2, <1>3 DEF Controller, ControllerStep

\* A workflow starts only for the current version, from its previous one.
LEMMA StartKeepsInv ==
  ASSUME IInv, TypeOK', NEW m \in sent, StartWorkflow(m)
  PROVE  IInv'
<1> USE DEF controlVars, postVars, loaderVars, excelVars
<1>t. TypeOK /\ MessagesInv /\ VersionsInv
  BY DEF IInv
<1>1. m.version \in Versions /\ m.prevVersion \in 0 .. MaxVersion /\ Current(m)
  BY <1>t, MessageTyped DEF TypeOK, ControlTypeOK, MessagesInv
<1>2. wf[m.version].pc \in {"none", "failed"}
  BY DEF StartWorkflow, MayStart
<1>3. syncflow.version \in Versions /\ syncflow.prevVersion \in 0 .. MaxVersion
  BY <1>t DEF TypeOK, ControlTypeOK, SyncflowState
<1>4. m.version = syncflow.version /\ m.prevVersion = syncflow.prevVersion
  BY <1>t, <1>1, <1>2, <1>3 DEF VersionsInv, Current, Versions
<1>5. /\ UNCHANGED <<syncflow, sent, ctl>>
      /\ UNCHANGED <<table, marks, abandoned, store, succeeded>>
  BY DEF StartWorkflow, Consume
<1>6. /\ wf'[m.version].pc = "check" /\ wf'[m.version].prev = m.prevVersion
      /\ \A u \in Versions \ {m.version} : wf'[u] = wf[u]
  BY <1>t, <1>1 DEF StartWorkflow, TypeOK
<1>7. Now \in {"none", "failed"} /\ Now' = "check"
  BY <1>2, <1>4, <1>5, <1>6 DEF Now
<1>8. VersionsInv'
  <2> SUFFICES ASSUME NEW u \in Versions
               PROVE  /\ u < syncflow.version => wf'[u].pc = "completed"
                      /\ u > syncflow.version => wf'[u].pc = "none"
                      /\ wf'[u].pc # "none" => u = wf'[u].prev + 1
    BY <1>t, <1>5 DEF VersionsInv
  <2>1. CASE u = m.version
    BY <2>1, <1>1, <1>4, <1>6 DEF Current, Versions
  <2>2. CASE u # m.version
    BY <2>2, <1>t, <1>6 DEF VersionsInv
  <2> QED BY <2>1, <2>2
<1>9. MessagesInv'
  BY <1>t, <1>5 DEF MessagesInv, Current
<1>10. LoadInv' /\ AbandonedInv' /\ StoreInv'
  BY <1>5, <1>7 DEF IInv, LoadInv, AbandonedInv, StoreInv, Current
<1> QED BY <1>8, <1>9, <1>10 DEF IInv

\* Each step of a workflow: what its version's files, its load and its messages
\* are before and after.
LEMMA WorkflowKeepsInv ==
  ASSUME IInv, TypeOK', NEW v \in 1 .. MaxVersion, Workflow(v)
  PROVE  IInv'
<1> USE DEF workerFrame, postVars, loaderVars
<1>t. TypeOK /\ VersionsInv /\ MessagesInv /\ LoadInv /\ AbandonedInv /\ StoreInv
  BY DEF IInv
<1>x. wf[v].pc \in Executing
  BY FailingSteps
     DEF Workflow, Check, Download, Compare, LoadExcel, Announce, Advance, FailExternal,
         FailInternal, ResetStatus, EmitFailure, Executing
<1>v. v = syncflow.version /\ wf[v].prev = syncflow.prevVersion /\ Now = wf[v].pc
  BY <1>t, <1>x, ExecutingNow
<1>n. /\ v \in Versions /\ v \in Nat /\ syncflow.prevVersion \in Nat /\ v # 0
      /\ v = syncflow.prevVersion + 1
  BY <1>t, <1>v, ControlAssumption DEF VersionsInv, Versions, TypeOK, ControlTypeOK, SyncflowState
\* Steps that keep the version: only the files, the table and the topics matter.
<1>m. ASSUME NEW pc \in Executing \cup {"failed", "completed"}, Goto(v, pc),
             syncflow'.version = syncflow.version, syncflow'.prevVersion = syncflow.prevVersion,
             UNCHANGED <<sent, ctl>>
      PROVE  VersionsInv' /\ MessagesInv' /\ Now' = pc
  BY <1>t, <1>x, <1>m, MoveKeepsVersions DEF MessagesInv, Current
<1>1. CASE Check(v)
  <2>1. syncflow'.version = syncflow.version /\ syncflow'.prevVersion = syncflow.prevVersion
    BY <1>1, <1>t DEF Check, TypeOK, ControlTypeOK, SyncflowState
  <2>2. VersionsInv' /\ MessagesInv' /\ Now' = "download"
    BY <1>1, <1>m, <2>1 DEF Check, Executing
  <2> QED BY <1>1, <1>t, <1>v, <2>1, <2>2
      DEF Check, IInv, LoadInv, AbandonedInv, StoreInv, Current
<1>2. CASE Download(v)
  <2>1. VersionsInv' /\ MessagesInv' /\ Now' = "compare"
    BY <1>2, <1>m DEF Download, Save, Executing
  <2>2. store' = store \cup {v} /\ UNCHANGED <<syncflow, succeeded, table, marks, abandoned>>
    BY <1>2 DEF Download, Save
  <2> QED BY <1>2, <1>t, <1>v, <2>1, <2>2
      DEF Download, IInv, LoadInv, AbandonedInv, StoreInv, Current
<1>3. CASE Compare(v)
  <2>1. VersionsInv' /\ MessagesInv' /\ Now' = "load"
    BY <1>3, <1>m DEF Compare, Executing
  <2> QED BY <1>3, <1>t, <1>v, <2>1
      DEF Compare, IInv, LoadInv, AbandonedInv, StoreInv, Current
<1>4. CASE LoadExcel(v)
  <2>1. VersionsInv' /\ MessagesInv' /\ Now' = "announce"
    BY <1>4, <1>m DEF LoadExcel, Executing
  <2>2. UNCHANGED <<syncflow, abandoned, store, succeeded>>
    BY <1>4 DEF LoadExcel
  <2>3. table' = v /\ marks' = {v}
    <3>1. Run(v).version = v /\ Run(v).prevVersion = syncflow.prevVersion
      BY <1>v DEF Run
    <3>2. CASE v \in marks
      BY <1>4, <1>t, <3>1, <3>2 DEF LoadExcel, Apply, LoadInv
    <3>3. CASE v \notin marks
      <4>1. table = syncflow.prevVersion
        BY <1>t, <1>v, <1>n, <3>3 DEF LoadInv
      <4> QED BY <1>4, <1>t, <1>n, <3>1, <3>3, <4>1 DEF LoadExcel, Apply, LoadInv
    <3> QED BY <3>2, <3>3
  <2>4. LoadInv'
    BY <1>v, <1>n, <2>1, <2>2, <2>3 DEF LoadInv
  <2>5. wf[v].pc = "load"
    BY <1>4 DEF LoadExcel
  <2>6. AbandonedInv' /\ StoreInv'
    BY <1>t, <1>v, <2>1, <2>2, <2>5 DEF AbandonedInv, StoreInv, Current
  <2> QED BY <2>1, <2>4, <2>6 DEF IInv
<1>5. CASE Announce(v)
  <2>1. VersionsInv' /\ MessagesInv' /\ Now' = "advance"
    BY <1>5, <1>m DEF Announce, Executing
  <2>2. Current(Run(v))
    BY <1>v, <1>n DEF Run, Current
  <2>3. succeeded' = succeeded \cup {Run(v)}
        /\ UNCHANGED <<syncflow, store, table, marks, abandoned>>
    BY <1>5 DEF Announce, PublishSucceed
  <2> QED BY <1>5, <1>t, <1>v, <2>1, <2>2, <2>3
      DEF Announce, IInv, LoadInv, AbandonedInv, StoreInv, Current
<1>6. CASE Advance(v)
  <2>1. /\ syncflow'.version = v + 1 /\ syncflow'.prevVersion = v
        /\ UNCHANGED <<sent, ctl, table, marks, abandoned, store, succeeded>>
        /\ wf[v].pc = "advance"
    BY <1>6 DEF Advance
  <2>2. wf'[v].pc = "completed" /\ wf'[v].prev = wf[v].prev
    BY <1>6, <1>t, <1>n DEF Advance, Goto, TypeOK, Execution
  <2>3. \A u \in Versions \ {v} : wf'[u] = wf[u]
    BY <1>6, <1>t DEF Advance, Goto, TypeOK
  <2>4. v + 1 \in Versions
    BY ControlAssumption DEF Versions
  <2>5. VersionsInv'
    <3> SUFFICES ASSUME NEW u \in Versions
                 PROVE  /\ u < v + 1 => wf'[u].pc = "completed"
                        /\ u > v + 1 => wf'[u].pc = "none"
                        /\ wf'[u].pc # "none" => u = wf'[u].prev + 1
      BY <2>1 DEF VersionsInv
    <3>1. CASE u = v
      BY <3>1, <1>v, <1>n, <2>2
    <3>2. CASE u # v
      <4>1. wf'[u] = wf[u]
        BY <3>2, <2>3
      <4>2. u \in Nat
        BY DEF Versions
      <4>3. /\ u < v => wf[u].pc = "completed"
            /\ u > v => wf[u].pc = "none"
            /\ wf[u].pc # "none" => u = wf[u].prev + 1
        BY <1>t, <1>v DEF VersionsInv
      <4> QED BY <3>2, <4>1, <4>2, <4>3, <1>n
    <3> QED BY <3>1, <3>2
  <2>6. wf[v + 1].pc = "none"
    BY <1>t, <1>v, <1>n, <2>4 DEF VersionsInv
  <2>7. Now' = "none"
    BY <1>n, <2>1, <2>3, <2>4, <2>6 DEF Now
  <2>8. MessagesInv'
    BY <1>t, <1>v, <1>n, <2>1, MessagesKept
  <2>9. LoadInv'
    BY <1>t, <1>v, <2>1, <2>7 DEF LoadInv
  <2>10. AbandonedInv'
    <3> SUFFICES ASSUME NEW a \in abandoned
                 PROVE  a.version = a.prevVersion + 1 /\ a.version <= v + 1 /\ a.version # v + 1
      BY <2>1 DEF AbandonedInv, Current
    <3>1. a.version \in Nat
      BY <1>t DEF TypeOK, Runnable
    <3> QED BY <1>t, <1>v, <1>n, <3>1 DEF AbandonedInv, Current
  <2>11. StoreInv'
    <3>1. \A m \in succeeded : m.version = m.prevVersion + 1 /\ m.version <= v + 1 /\ m.version # v + 1
      <4> SUFFICES ASSUME NEW m \in succeeded
                   PROVE  m.version = m.prevVersion + 1 /\ m.version <= v + 1 /\ m.version # v + 1
        OBVIOUS
      <4>1. m.version \in Nat
        BY <1>t DEF TypeOK, PostTypeOK, Message, Versions
      <4> QED BY <1>t, <1>v, <1>n, <4>1 DEF StoreInv, Current
    <3>2. v \in store
      BY <1>t, <1>v, <2>1 DEF StoreInv
    <3> QED BY <2>1, <2>7, <3>1, <3>2 DEF StoreInv, Current
  <2> QED BY <2>5, <2>8, <2>9, <2>10, <2>11 DEF IInv
<1>7. CASE FailExternal(v)
  <2>1. VersionsInv' /\ MessagesInv' /\ Now' = "extIdle"
    BY <1>7, <1>m, FailingSteps DEF FailExternal, Executing
  <2>2. LoadInv'
    BY <1>7, <1>t, <1>v, <2>1, FailingSteps, LoadNotExternal DEF FailExternal, LoadInv
  <2>3. AbandonedInv' /\ StoreInv'
    BY <1>7, <1>t, <1>v, <2>1, FailingSteps, LoadNotExternal DEF FailExternal, AbandonedInv, StoreInv, Current
  <2> QED BY <2>1, <2>2, <2>3 DEF IInv
<1>8. CASE FailInternal(v)
  <2>1. VersionsInv' /\ MessagesInv' /\ Now' = "intIdle"
    BY <1>8, <1>m, FailingSteps DEF FailInternal, Executing
  <2>2. LoadInv'
    BY <1>8, <1>t, <1>v, <2>1, FailingSteps DEF FailInternal, LoadInv
  <2>3. AbandonedInv' /\ StoreInv'
    BY <1>8, <1>t, <1>v, <2>1, FailingSteps DEF FailInternal, AbandonedInv, StoreInv, Current
  <2> QED BY <2>1, <2>2, <2>3 DEF IInv
<1>9. CASE ResetStatus(v)
  <2>1. syncflow'.version = syncflow.version /\ syncflow'.prevVersion = syncflow.prevVersion
    BY <1>9, <1>t DEF ResetStatus, TypeOK, ControlTypeOK, SyncflowState
  <2>2. /\ VersionsInv' /\ MessagesInv'
        /\ \/ Now = "extIdle" /\ Now' = "extEmit"
           \/ Now = "intIdle" /\ Now' = "intEmit"
    <3>1. CASE wf[v].pc = "extIdle"
      <4>1. Goto(v, "extEmit") /\ UNCHANGED <<sent, ctl>>
        BY <1>9, <3>1 DEF ResetStatus
      <4> QED BY <1>m, <1>v, <2>1, <3>1, <4>1 DEF Executing
    <3>2. CASE wf[v].pc = "intIdle"
      <4>1. Goto(v, "intEmit") /\ UNCHANGED <<sent, ctl>>
        BY <1>9, <3>2 DEF ResetStatus
      <4> QED BY <1>m, <1>v, <2>1, <3>2, <4>1 DEF Executing
    <3> QED BY <1>9, <3>1, <3>2 DEF ResetStatus
  <2> QED BY <1>9, <1>t, <1>v, <2>1, <2>2
      DEF ResetStatus, IInv, LoadInv, AbandonedInv, StoreInv, Current
<1>10. CASE EmitFailure(v)
  <2>1. /\ VersionsInv' /\ MessagesInv'
        /\ \/ Now = "extEmit" /\ Now' = "failed"
           \/ Now = "intEmit" /\ Now' = "completed"
    <3>1. CASE wf[v].pc = "extEmit"
      <4>1. Goto(v, "failed") /\ UNCHANGED <<syncflow, sent, ctl>>
        BY <1>10, <3>1 DEF EmitFailure
      <4> QED BY <1>m, <1>v, <3>1, <4>1
    <3>2. CASE wf[v].pc = "intEmit"
      <4>1. Goto(v, "completed") /\ UNCHANGED <<syncflow, sent, ctl>>
        BY <1>10, <3>2 DEF EmitFailure
      <4> QED BY <1>m, <1>v, <3>2, <4>1
    <3> QED BY <1>10, <3>1, <3>2 DEF EmitFailure
  <2>2. UNCHANGED <<syncflow, table, marks, abandoned, store, succeeded>>
    BY <1>10 DEF EmitFailure, PublishFailed
  <2> QED BY <1>t, <1>v, <2>1, <2>2
      DEF IInv, LoadInv, AbandonedInv, StoreInv, Current
<1> QED BY <1>1, <1>2, <1>3, <1>4, <1>5, <1>6, <1>7, <1>8, <1>9, <1>10 DEF Workflow

\* The rest of the steps.
LEMMA NextInv == IInv /\ [Next]_vars => IInv'
<1> SUFFICES ASSUME IInv, [Next]_vars PROVE IInv'
  OBVIOUS
<1> USE DEF controlVars, postVars, loaderVars, excelVars
<1>t. /\ TypeOK /\ VersionsInv /\ MessagesInv /\ LoadInv /\ AbandonedInv /\ StoreInv
      /\ TypeOK'
  BY NextTyped DEF IInv
<1>n. syncflow.version \in Nat
  BY <1>t DEF TypeOK, ControlTypeOK, SyncflowState, Versions
\* A step that touches neither the syncflow, its workflows, its data nor a message.
<1>q. ASSUME UNCHANGED <<syncflow, sent, wf, table, marks, abandoned, store, succeeded>>,
             \A c \in Controllers : ctl'[c].pc = "emit" => ctl'[c] = ctl[c]
      PROVE  IInv'
  BY <1>t, <1>n, <1>q, MessagesKept, QuietStep
<1>1. ASSUME NEW c \in Controllers, ExcelTakeTrigger(c) PROVE IInv'
  <2>1. \A d \in Controllers : ctl'[d].pc = "emit" => ctl'[d] = ctl[d]
    BY <1>1, <1>t DEF ExcelTakeTrigger, TakeTrigger, TypeOK, ControlTypeOK, ControllerState
  <2> QED BY <1>1, <1>q, <2>1 DEF ExcelTakeTrigger, TakeTrigger
<1>2. ASSUME NEW c \in Controllers, ExcelAdmit(c) PROVE IInv'
  <2>1. \A d \in Controllers : ctl'[d].pc = "emit" => ctl'[d] = ctl[d]
    BY <1>2, <1>t DEF ExcelAdmit, Admit, TypeOK, ControlTypeOK, ControllerState
  <2> QED BY <1>2, <1>q, <2>1 DEF ExcelAdmit, Admit
<1>3. ASSUME NEW c \in Controllers, ExcelRefuse(c) PROVE IInv'
  <2>1. \A d \in Controllers : ctl'[d].pc = "emit" => ctl'[d] = ctl[d]
    BY <1>3, <1>t DEF ExcelRefuse, Refuse, Idle, TypeOK, ControlTypeOK
  <2> QED BY <1>3, <1>q, <2>1 DEF ExcelRefuse, Refuse
<1>4. ASSUME NEW c \in Controllers, Controller(c) PROVE IInv'
  BY <1>4, <1>t, ControllerKeepsInv
<1>5. ASSUME NEW c \in Controllers, ControllerCrash(c) PROVE IInv'
  <2>1. \A d \in Controllers : ctl'[d].pc = "emit" => ctl'[d] = ctl[d]
    BY <1>5, <1>t DEF ControllerCrash, Crash, Idle, TypeOK, ControlTypeOK
  <2> QED BY <1>5, <1>q, <2>1 DEF ControllerCrash, Crash
<1>6. ASSUME NEW m \in sent, StartWorkflow(m) PROVE IInv'
  BY <1>6, <1>t, StartKeepsInv
<1>7. ASSUME NEW m \in sent, DropScheduled(m) PROVE IInv'
  BY <1>7, <1>q DEF DropScheduled, Consume
<1>8. ASSUME NEW v \in 1 .. MaxVersion, Workflow(v) PROVE IInv'
  BY <1>8, <1>t, WorkflowKeepsInv
<1>9. ASSUME NEW v \in 1 .. MaxVersion, RetryLoad(v) PROVE IInv'
  <2>1. UNCHANGED <<syncflow, sent, ctl, wf, table, marks, store, succeeded>>
        /\ abandoned' = abandoned \cup {Run(v)} /\ wf[v].pc = "load"
    BY <1>9 DEF RetryLoad, Abandon, workerFrame
  <2>2. v = syncflow.version /\ wf[v].prev = syncflow.prevVersion /\ Now = "load"
    BY <1>t, <2>1, ExecutingNow DEF Executing
  <2>3. Current(Run(v))
    BY <1>t, <1>n, <2>2 DEF Run, Current, VersionsInv
  <2>4. MessagesInv' /\ VersionsInv' /\ LoadInv' /\ StoreInv'
    BY <1>t, <2>1 DEF MessagesInv, VersionsInv, LoadInv, StoreInv, Current, Now
  <2>5. AbandonedInv'
    BY <1>t, <2>1, <2>2, <2>3 DEF AbandonedInv, Current, Now
  <2> QED BY <1>t, <2>4, <2>5 DEF IInv
<1>10. ASSUME NEW m \in abandoned, LateLoad(m) PROVE IInv'
  <2>1. /\ UNCHANGED <<syncflow, sent, ctl, wf, store, succeeded>>
        /\ table <= m.version /\ Apply(m) /\ abandoned' = abandoned \ {m}
    BY <1>10 DEF LateLoad, AbandonedEnds
  <2>2. m.version \in 1 .. MaxVersion /\ Current(m)
    BY <1>t, RunnableFields DEF TypeOK, AbandonedInv
  <2>3. syncflow.version = syncflow.prevVersion + 1 /\ syncflow.prevVersion \in Nat
    BY <1>t DEF VersionsInv, TypeOK, ControlTypeOK, SyncflowState
  <2>4. \/ UNCHANGED <<table, marks>>
        \/ /\ m.version = syncflow.version /\ m.prevVersion = syncflow.prevVersion
           /\ table' = m.version /\ marks' = {m.version}
    <3>1. CASE m.version \in marks
      BY <2>1, <3>1 DEF Apply
    <3>2. CASE m.version \notin marks
      <4>1. m.version # table
        BY <1>t, <2>2, <3>2 DEF LoadInv
      <4>2. table = syncflow.prevVersion /\ m.version = syncflow.version
        BY <1>t, <1>n, <2>1, <2>2, <2>3, <4>1 DEF LoadInv, Current
      <4>3. m.prevVersion = syncflow.prevVersion
        BY <1>t, <2>2, <2>3, <4>2, RunnableFields DEF Current, TypeOK
      <4>4. marks = {table} \ {0}
        BY <1>t DEF LoadInv
      <4>5. table' = m.version /\ marks' = (marks \cup {m.version}) \ {m.prevVersion}
        BY <2>1, <3>2 DEF Apply
      <4>6. m.version # m.prevVersion
        BY <2>3, <4>2, <4>3
      <4> QED BY <4>2, <4>3, <4>4, <4>5, <4>6
    <3> QED BY <3>1, <3>2
  <2>5. MessagesInv' /\ VersionsInv' /\ StoreInv' /\ AbandonedInv'
    BY <1>t, <2>1 DEF MessagesInv, VersionsInv, StoreInv, AbandonedInv, Current, Now
  <2>6. LoadInv'
    <3>1. CASE UNCHANGED <<table, marks>>
      BY <1>t, <2>1, <3>1 DEF LoadInv, Now
    <3>2. CASE /\ m.version = syncflow.version
               /\ table' = m.version /\ marks' = {m.version}
      <4>1. Now \in {"load", "announce", "advance", "intIdle", "intEmit", "completed"}
        BY <1>t, <3>2 DEF AbandonedInv
      <4>2. Now' = Now
        BY <2>1 DEF Now
      <4> QED BY <2>1, <2>2, <3>2, <4>1, <4>2 DEF LoadInv
    <3> QED BY <2>4, <3>1, <3>2
  <2> QED BY <1>t, <2>5, <2>6 DEF IInv
<1>11. ASSUME NEW p \in PostProcessors, PostSucceed(p) PROVE IInv'
  <2>0. /\ UNCHANGED <<syncflow, sent, ctl, wf, table, marks, abandoned, succeeded>>
        /\ UNCHANGED store \/ \E m \in succeeded : store' = store \ {m.prevVersion}
    BY <1>11, SucceedCleans DEF PostSucceed
  <2>a. CASE UNCHANGED store
    BY <1>q, <2>0, <2>a
  <2>b. CASE \E m \in succeeded : store' = store \ {m.prevVersion}
    <3> PICK m \in succeeded : store' = store \ {m.prevVersion}
      BY <2>b
    <3>2. m.version = m.prevVersion + 1 /\ m.version <= syncflow.version
          /\ m.version \in Nat /\ m.prevVersion \in Nat
          /\ (m.version = syncflow.version => Now = "advance")
      BY <1>t DEF StoreInv, Current, TypeOK, PostTypeOK, Message, Versions
    <3>3. syncflow.version = syncflow.prevVersion + 1 /\ syncflow.prevVersion \in Nat
      BY <1>t DEF VersionsInv, TypeOK, ControlTypeOK, SyncflowState
    <3>4. m.prevVersion # syncflow.version
      BY <1>n, <3>2
    <3>5. Now # "advance" => m.prevVersion # syncflow.prevVersion
      BY <1>n, <3>2, <3>3
    <3>6. StoreInv'
      BY <1>t, <2>0, <3>4, <3>5 DEF StoreInv, Current, Now
    <3>7. MessagesInv' /\ VersionsInv' /\ LoadInv' /\ AbandonedInv'
      BY <1>t, <2>0 DEF MessagesInv, VersionsInv, LoadInv, AbandonedInv, Current, Now
    <3> QED BY <1>t, <3>6, <3>7 DEF IInv
  <2> QED BY <2>0, <2>a, <2>b
<1>12. ASSUME NEW v \in failed, PostFailed(v) PROVE IInv'
  BY <1>12, <1>q DEF PostFailed, StopSyncConnection, updateConnectionState
<1>13. ASSUME NEW status \in SyncConnectionStatus, UserSetsConnection(status) PROVE IInv'
  BY <1>13, <1>q DEF UserSetsConnection, SetConnection, updateConnectionState
<1>14. CASE UserEditsWorkbook
  BY <1>14, <1>q DEF UserEditsWorkbook
<1>15. CASE UNCHANGED vars
  BY <1>15, <1>q DEF vars
<1> QED
  BY <1>1, <1>2, <1>3, <1>4, <1>5, <1>6, <1>7, <1>8, <1>9, <1>10, <1>11, <1>12, <1>13,
     <1>14, <1>15 DEF Next

LEMMA Invariance == Spec => []IInv
  BY InitInv, NextInv, PTL DEF Spec

-----------------------------------------------------------------------------
(* The invariants that matter follow from IInv.                            *)

\* At most one excelFullSync execution of the syncflow is open, for any number
\* of controllers, whatever is redelivered and whoever crashes.
THEOREM OneSyncAlways == Spec => []OneSync
<1>1. IInv => OneSync
  BY ExecutingNow DEF IInv, OneSync
<1> QED BY <1>1, Invariance, PTL

\* A load that will still be applied starts from the version the table holds.
\* For the workflow's own load that is LoadInv; an abandoned attempt that is not
\* of the current version is of an older one and has nothing left to apply.
THEOREM LoadOnBaseAlways == Spec => []LoadOnBase
<1>1. ASSUME IInv PROVE LoadOnBase
  <2>t. TypeOK /\ VersionsInv /\ LoadInv /\ AbandonedInv
    BY <1>1 DEF IInv
  <2>1. ASSUME NEW v \in 1 .. MaxVersion, wf[v].pc = "load", v \notin marks
        PROVE  table = wf[v].prev
    <3>1. v = syncflow.version /\ wf[v].prev = syncflow.prevVersion
      BY <2>t, <2>1, ExecutingNow DEF Executing
    <3>2. v # 0
      OBVIOUS
    <3> QED BY <2>t, <2>1, <3>1, <3>2 DEF LoadInv
  <2>2. ASSUME NEW a \in abandoned, table <= a.version, a.version \notin marks
        PROVE  table = a.prevVersion
    <3>1. a.version \in 1 .. MaxVersion /\ Current(a) /\ a.prevVersion \in 0 .. MaxVersion
      BY <2>t, RunnableFields DEF TypeOK, AbandonedInv, Runnable
    <3>2. syncflow.version = syncflow.prevVersion + 1 /\ syncflow.prevVersion \in Nat
      BY <2>t DEF VersionsInv, TypeOK, ControlTypeOK, SyncflowState
    <3>3. a.version # table
      BY <2>t, <2>2, <3>1 DEF LoadInv
    <3> QED BY <2>t, <2>2, <3>1, <3>2, <3>3 DEF LoadInv, Current
  <2> QED BY <2>1, <2>2 DEF LoadOnBase, Run
<1> QED BY <1>1, Invariance, PTL

\* The cleaner never deletes a file the comparer is about to read.
THEOREM BaseKeptAlways == Spec => []BaseKept
<1>1. ASSUME IInv PROVE BaseKept
  <2> SUFFICES ASSUME NEW v \in 1 .. MaxVersion, wf[v].pc = "compare"
               PROVE  {v, wf[v].prev} \ {0} \subseteq store
    BY DEF BaseKept
  <2>1. v = syncflow.version /\ wf[v].prev = syncflow.prevVersion /\ Now = "compare"
    BY <1>1, ExecutingNow DEF IInv, Executing
  <2> QED BY <1>1, <2>1 DEF IInv, StoreInv
<1> QED BY <1>1, Invariance, PTL

\* The idempotency table marks the version the table holds and no other.
THEOREM OnlyLastMarkedAlways == Spec => []OnlyLastMarked
<1>1. IInv => OnlyLastMarked
  BY DEF IInv, LoadInv, OnlyLastMarked
<1> QED BY <1>1, Invariance, PTL

-----------------------------------------------------------------------------
(* The rows that were counted                                              *)

\* The success of a version was published.
Announced(v) == v <= syncflow.prevVersion \/ (v = syncflow.version /\ Now = "advance")

\* What a version changed is counted once its success was handled.
CountInv ==
  \A v \in Versions :
    counted[v] = IF Announced(v) /\ \A m \in unhandled : m.version # v THEN 1 ELSE 0

\* Only an abandoned attempt loads a version behind the workflow's back, and only
\* after an internal error a version is given up whose load may have been made.
TableInv ==
  /\ wf[MaxVersion + 1].pc = "none"
  /\ ~Abandoned => /\ abandoned = {}
                   /\ Now \notin {"announce", "advance"} => table = syncflow.prevVersion
  /\ ~InternalErrors => Now \notin {"intIdle", "intEmit", "completed"}

\* A success is handled by one instance at a time, which holds the latest counts.
HandlingInv ==
  \A p \in PostProcessors :
    handling[p] # Waiting => handling[p].msg \in unhandled /\ handling[p].read = counted

LEMMA CountInit ==
  ASSUME Init
  PROVE  CountInv /\ TableInv
<1>1. syncflow = [status |-> "IDLING", version |-> 1, prevVersion |-> 0]
  BY DEF Init, ControlInit
<1>2. /\ wf = [v \in Versions |-> [pc |-> "none", prev |-> 0]]
      /\ counted = [v \in Versions |-> 0] /\ table = 0 /\ abandoned = {}
  BY DEF Init, PostInit, LoaderInit, NoCounts
<1>3. 1 \in Versions /\ MaxVersion + 1 \in Versions
  BY ControlAssumption DEF Versions
<1>4. Now = "none"
  BY <1>1, <1>2, <1>3 DEF Now
<1>5. \A v \in Versions : ~Announced(v)
  BY <1>1, <1>4 DEF Announced, Versions
<1> QED
  BY <1>1, <1>2, <1>3, <1>4, <1>5 DEF CountInv, TableInv

\* A step that publishes and handles no success and leaves the versions alone.
LEMMA CountSame ==
  ASSUME CountInv, UNCHANGED <<unhandled, counted>>,
         syncflow'.version = syncflow.version, syncflow'.prevVersion = syncflow.prevVersion,
         Now # "advance", Now' # "advance"
  PROVE  CountInv'
  BY DEF CountInv, Announced

\* A step outside the workflows and the loader.
LEMMA CountQuiet ==
  ASSUME CountInv, TableInv, UNCHANGED <<wf, unhandled, counted, table, abandoned>>,
         syncflow'.version = syncflow.version, syncflow'.prevVersion = syncflow.prevVersion
  PROVE  CountInv' /\ TableInv'
  BY DEF CountInv, TableInv, Announced, Now

LEMMA StartCounts ==
  ASSUME IInv, CountInv, TableInv, NEW m \in sent, StartWorkflow(m)
  PROVE  CountInv' /\ TableInv'
<1> USE DEF controlVars, postVars, loaderVars, excelVars
<1>t. TypeOK /\ MessagesInv /\ VersionsInv
  BY DEF IInv
<1>1. /\ m.version \in 1 .. MaxVersion /\ m.version \in Versions /\ Current(m)
      /\ m.prevVersion \in 0 .. MaxVersion
  BY <1>t, MessageTyped, ControlAssumption
     DEF TypeOK, ControlTypeOK, MessagesInv, StartWorkflow, Consume, Versions
<1>2. wf[m.version].pc \in {"none", "failed"}
  BY DEF StartWorkflow, MayStart
<1>3. syncflow.version \in Versions /\ syncflow.prevVersion \in 0 .. MaxVersion
  BY <1>t DEF TypeOK, ControlTypeOK, SyncflowState
<1>4. m.version = syncflow.version
  BY <1>t, <1>1, <1>2, <1>3 DEF VersionsInv, Current, Versions
<1>5. UNCHANGED <<syncflow, unhandled, counted, table, abandoned>>
  BY DEF StartWorkflow
<1>6. /\ wf'[m.version].pc = "check"
      /\ \A u \in Versions \ {m.version} : wf'[u] = wf[u]
  BY <1>t, <1>1 DEF StartWorkflow, TypeOK
<1>7. Now \in {"none", "failed"} /\ Now' = "check"
  BY <1>2, <1>4, <1>5, <1>6 DEF Now
<1>8. wf'[MaxVersion + 1].pc = "none"
  BY <1>1, <1>6, ControlAssumption DEF TableInv, Versions
<1>9. CountInv'
  BY <1>5, <1>7, CountSame
<1> QED
  BY <1>5, <1>7, <1>8, <1>9 DEF TableInv

LEMMA WorkflowCounts ==
  ASSUME IInv, TypeOK', CountInv, TableInv, NEW v \in 1 .. MaxVersion, Workflow(v)
  PROVE  CountInv' /\ TableInv'
<1> USE DEF workerFrame, postVars, loaderVars
<1>t. TypeOK /\ VersionsInv /\ LoadInv
  BY DEF IInv
<1>x. wf[v].pc \in Executing
  BY FailingSteps
     DEF Workflow, Check, Download, Compare, LoadExcel, Announce, Advance, FailExternal,
         FailInternal, ResetStatus, EmitFailure, Executing
<1>v. v = syncflow.version /\ wf[v].prev = syncflow.prevVersion /\ Now = wf[v].pc
  BY <1>t, <1>x, ExecutingNow
<1>n. /\ v \in Versions /\ v + 1 \in Versions /\ MaxVersion + 1 \in Versions /\ MaxVersion + 1 # v
      /\ v \in Nat /\ syncflow.prevVersion \in Nat /\ v = syncflow.prevVersion + 1
  BY <1>t, <1>v, ControlAssumption DEF VersionsInv, Versions, TypeOK, ControlTypeOK, SyncflowState
<1>g. ASSUME NEW pc, Goto(v, pc)
      PROVE  wf'[v].pc = pc /\ \A u \in Versions \ {v} : wf'[u] = wf[u]
  BY <1>t, <1>n, <1>g DEF Goto, TypeOK, Execution
<1>l. ASSUME NEW pc, Goto(v, pc) PROVE wf'[MaxVersion + 1].pc = "none"
  BY <1>n, <1>g, <1>l DEF TableInv
<1>m. ASSUME NEW pc, Goto(v, pc), syncflow'.version = v
      PROVE  Now' = pc
  BY <1>g, <1>m DEF Now
\* Steps on the way that publish nothing.
<1>s. ASSUME NEW pc, Goto(v, pc), UNCHANGED <<unhandled, counted, abandoned>>,
             pc # "advance", Now # "advance",
             syncflow'.version = v, syncflow'.prevVersion = syncflow.prevVersion,
             \/ pc = "announce"
             \/ table' = table /\ Now # "announce",
             pc \in {"intIdle", "intEmit", "completed"} => InternalErrors
      PROVE  CountInv' /\ TableInv'
  <2>1. Now' = pc /\ wf'[MaxVersion + 1].pc = "none"
    BY <1>s, <1>m, <1>l
  <2>2. CountInv'
    BY <1>s, <1>v, <2>1, CountSame
  <2>3. TableInv'
    BY <1>s, <2>1 DEF TableInv
  <2> QED
    BY <2>2, <2>3
<1>y. \A s \in SyncflowState : \A status :
        /\ [s EXCEPT !.status = status].version = s.version
        /\ [s EXCEPT !.status = status].prevVersion = s.prevVersion
  BY DEF SyncflowState
<1>k. syncflow \in SyncflowState
  BY <1>t DEF TypeOK, ControlTypeOK
<1>1. CASE Check(v)
  BY <1>1, <1>s, <1>v, <1>y, <1>k DEF Check
<1>2. CASE Download(v)
  BY <1>2, <1>s, <1>v DEF Download, Save
<1>3. CASE Compare(v)
  BY <1>3, <1>s, <1>v DEF Compare
<1>4. CASE LoadExcel(v)
  BY <1>4, <1>s, <1>v DEF LoadExcel
<1>5. CASE Announce(v)
  <2>1. /\ UNCHANGED <<syncflow, counted, table, abandoned>>
        /\ unhandled' = unhandled \cup {Run(v)} /\ Run(v).version = v
        /\ Now = "announce" /\ Now' = "advance" /\ wf'[MaxVersion + 1].pc = "none"
    BY <1>5, <1>v, <1>m, <1>l DEF Announce, PublishSucceed, Run
  <2>2. CountInv'
    <3> SUFFICES ASSUME NEW u \in Versions
                 PROVE  counted[u] = IF Announced(u)' /\ \A m \in unhandled' : m.version # u
                                     THEN 1 ELSE 0
      BY <2>1 DEF CountInv
    <3>1. CASE u = v
      BY <1>v, <1>n, <2>1, <3>1 DEF CountInv, Announced
    <3>2. CASE u # v
      BY <1>v, <2>1, <3>2 DEF CountInv, Announced
    <3> QED
      BY <3>1, <3>2
  <2>3. TableInv'
    BY <2>1 DEF TableInv
  <2> QED
    BY <2>2, <2>3
<1>6. CASE Advance(v)
  <2>1. /\ syncflow'.version = v + 1 /\ syncflow'.prevVersion = v
        /\ UNCHANGED <<unhandled, counted, table, abandoned>>
        /\ Goto(v, "completed") /\ Now = "advance"
    BY <1>6, <1>v DEF Advance
  <2>2. wf[v + 1].pc = "none"
    BY <1>t, <1>v, <1>n DEF VersionsInv
  <2>3. Now' = "none" /\ wf'[MaxVersion + 1].pc = "none"
    BY <1>g, <1>l, <1>n, <2>1, <2>2 DEF Now
  <2>4. \A u \in Versions : Announced(u)' <=> Announced(u)
    BY <1>v, <1>n, <2>1, <2>3 DEF Announced, Versions
  <2>5. CountInv'
    BY <2>1, <2>4 DEF CountInv
  <2>6. table' = syncflow'.prevVersion
    BY <1>t, <1>v, <2>1 DEF LoadInv
  <2> QED
    BY <2>1, <2>3, <2>5, <2>6 DEF TableInv
<1>7. CASE FailExternal(v)
  BY <1>7, <1>s, <1>v, FailingSteps DEF FailExternal
<1>8. CASE FailInternal(v)
  BY <1>8, <1>s, <1>v, FailingSteps DEF FailInternal
<1>9. CASE ResetStatus(v)
  BY <1>9, <1>s, <1>v, <1>y, <1>k DEF ResetStatus, TableInv
<1>10. CASE EmitFailure(v)
  BY <1>10, <1>s, <1>v DEF EmitFailure, PublishFailed, TableInv
<1> QED
  BY <1>1, <1>2, <1>3, <1>4, <1>5, <1>6, <1>7, <1>8, <1>9, <1>10 DEF Workflow

\* The handling of a success, which counts what it announces.
LEMMA SuccessCounts ==
  ASSUME IInv, CountInv, TableInv, HandlingInv, NEW p \in PostProcessors,
         EndSucceed(p), UNCHANGED <<controlVars, loaderVars, excelVars>>
  PROVE  CountInv' /\ TableInv'
<1> USE DEF controlVars, loaderVars, excelVars
<1>t. TypeOK /\ StoreInv /\ VersionsInv
  BY DEF IInv
<1> DEFINE m == handling[p].msg
<1>1. /\ UNCHANGED <<syncflow, wf, table, abandoned>>
      /\ m \in unhandled /\ unhandled' = unhandled \ {m}
      /\ counted' = [counted EXCEPT ![m.version] = IF @ < CountCap THEN @ + 1 ELSE @]
  BY DEF EndSucceed, Finish, updateStatistics, HandlingInv
<1> HIDE DEF m
<1>2. /\ unhandled \subseteq succeeded /\ succeeded \subseteq Message
      /\ counted \in [Versions -> 0 .. CountCap]
      /\ syncflow.version \in Nat /\ syncflow.prevVersion \in Nat
      /\ syncflow.version = syncflow.prevVersion + 1
  BY <1>t DEF TypeOK, PostTypeOK, Counts, ControlTypeOK, SyncflowState, Versions, VersionsInv
<1>3. \A n \in unhandled : /\ n.version \in Nat /\ n.prevVersion \in Nat /\ n.version \in Versions
                           /\ n = [version |-> n.version, prevVersion |-> n.prevVersion]
  BY <1>2 DEF Message, Versions
<1>4. \A n \in unhandled : n.version = n.prevVersion + 1 /\ n.version <= syncflow.version
                           /\ (n.version = syncflow.version => Now = "advance")
  BY <1>2, <1>t DEF StoreInv, Current
<1>5. \A n \in unhandled : n.version = m.version => n = m
  <2> SUFFICES ASSUME NEW n \in unhandled, n.version = m.version PROVE n = m
    OBVIOUS
  <2>1. n.prevVersion = m.prevVersion
    BY <1>1, <1>3, <1>4
  <2> QED
    BY <1>1, <1>3, <2>1
<1>6. Announced(m.version)
  BY <1>1, <1>2, <1>3, <1>4 DEF Announced
<1>7. counted[m.version] = 0
  BY <1>1, <1>3 DEF CountInv
<1>8. CountInv'
  <2> SUFFICES ASSUME NEW u \in Versions
               PROVE  counted'[u] = IF Announced(u)' /\ \A n \in unhandled' : n.version # u
                                    THEN 1 ELSE 0
    BY DEF CountInv
  <2>1. Announced(u)' <=> Announced(u)
    BY <1>1 DEF Announced, Now
  <2>2. CASE u = m.version
    <3>1. counted'[u] = 1
      BY <1>1, <1>2, <1>7, <2>2 DEF CountCap
    <3>2. \A n \in unhandled' : n.version # u
      BY <1>1, <1>5, <2>2
    <3> QED
      BY <1>6, <2>1, <2>2, <3>1, <3>2
  <2>3. CASE u # m.version
    <3>1. counted'[u] = counted[u]
      BY <1>1, <1>2, <2>3
    <3>2. (\A n \in unhandled' : n.version # u) <=> (\A n \in unhandled : n.version # u)
      BY <1>1, <2>3
    <3> QED
      BY <2>1, <3>1, <3>2 DEF CountInv
  <2> QED
    BY <2>2, <2>3
<1>9. TableInv'
  BY <1>1 DEF TableInv, Now
<1> QED
  BY <1>8, <1>9

\* One instance that is given each success once begins, dies and ends in turn.
LEMMA HandlingNext ==
  ASSUME ~Redelivery, \A p, q \in PostProcessors : p = q, IInv, HandlingInv, [Next]_vars
  PROVE  HandlingInv'
<1> USE DEF controlVars, postVars, loaderVars, excelVars, workerFrame
<1>t. handling \in [PostProcessors -> [msg : Message, read : Counts] \cup {Waiting}]
  BY DEF IInv, TypeOK, PostTypeOK
<1>q. ASSUME UNCHANGED <<handling, counted>>, unhandled \subseteq unhandled'
      PROVE  HandlingInv'
  BY <1>q DEF HandlingInv
<1>1. ASSUME NEW c \in Controllers,
             \/ ExcelTakeTrigger(c) \/ ExcelAdmit(c) \/ ExcelRefuse(c) \/ Controller(c)
             \/ ControllerCrash(c)
      PROVE  HandlingInv'
  BY <1>1, <1>q
     DEF ExcelTakeTrigger, ExcelAdmit, ExcelRefuse, Controller, ControllerCrash
<1>2. ASSUME NEW m \in sent, StartWorkflow(m) \/ DropScheduled(m) PROVE HandlingInv'
  BY <1>2, <1>q DEF StartWorkflow, DropScheduled
<1>3. ASSUME NEW v \in 1 .. MaxVersion, Workflow(v) \/ RetryLoad(v) PROVE HandlingInv'
  <2>1. UNCHANGED <<handling, counted>> /\ unhandled \subseteq unhandled'
    BY <1>3
       DEF Workflow, Check, Download, Save, Compare, LoadExcel, Announce, PublishSucceed, Advance,
           FailExternal, FailInternal, ResetStatus, EmitFailure, PublishFailed, RetryLoad
  <2> QED
    BY <2>1, <1>q
<1>4. ASSUME NEW m \in abandoned, LateLoad(m) PROVE HandlingInv'
  BY <1>4, <1>q DEF LateLoad
<1>5. ASSUME NEW p \in PostProcessors, PostSucceed(p) PROVE HandlingInv'
  <2> SUFFICES ASSUME handling'[p] # Waiting
               PROVE  handling'[p].msg \in unhandled' /\ handling'[p].read = counted'
    BY DEF HandlingInv
  <2>1. ASSUME NEW m \in succeeded, BeginSucceed(p, m)
        PROVE  handling'[p].msg \in unhandled' /\ handling'[p].read = counted'
    <3>1. /\ m \in unhandled /\ UNCHANGED <<unhandled, counted>>
          /\ handling' = [handling EXCEPT ![p] = [msg |-> m, read |-> counted]]
      BY <2>1 DEF BeginSucceed
    <3>2. handling'[p] = [msg |-> m, read |-> counted]
      BY <1>t, <3>1
    <3> QED
      BY <3>1, <3>2
  <2>2. EndSucceed(p) \/ HandlerDies(p) => handling'[p] = Waiting
    BY <1>t DEF EndSucceed, HandlerDies, Finish
  <2> QED
    BY <1>5, <2>1, <2>2 DEF PostSucceed, HandleSucceed
<1>6. ASSUME NEW v \in failed, PostFailed(v) PROVE HandlingInv'
  BY <1>6, <1>q DEF PostFailed, StopSyncConnection
<1>7. ASSUME NEW status \in SyncConnectionStatus, UserSetsConnection(status) PROVE HandlingInv'
  BY <1>7, <1>q DEF UserSetsConnection
<1>8. CASE UserEditsWorkbook \/ UNCHANGED vars
  BY <1>8, <1>q DEF UserEditsWorkbook, vars
<1> QED
  BY <1>1, <1>2, <1>3, <1>4, <1>5, <1>6, <1>7, <1>8 DEF Next

LEMMA CountNext ==
  ASSUME IInv, CountInv, TableInv, HandlingInv, [Next]_vars
  PROVE  CountInv' /\ TableInv'
<1> USE DEF controlVars, postVars, loaderVars, excelVars
<1>t. TypeOK /\ TypeOK'
  BY NextTyped DEF IInv
<1>q. ASSUME UNCHANGED <<syncflow, wf, unhandled, counted, table, abandoned>>
      PROVE  CountInv' /\ TableInv'
  BY <1>q, CountQuiet
<1>1. ASSUME NEW c \in Controllers, ExcelTakeTrigger(c) PROVE CountInv' /\ TableInv'
  BY <1>1, <1>q DEF ExcelTakeTrigger, TakeTrigger
<1>2. ASSUME NEW c \in Controllers, ExcelAdmit(c) PROVE CountInv' /\ TableInv'
  BY <1>2, <1>q DEF ExcelAdmit, Admit
<1>3. ASSUME NEW c \in Controllers, ExcelRefuse(c) PROVE CountInv' /\ TableInv'
  BY <1>3, <1>q DEF ExcelRefuse, Refuse
<1>4. ASSUME NEW c \in Controllers, Controller(c) PROVE CountInv' /\ TableInv'
  <2>1. /\ syncflow'.version = syncflow.version /\ syncflow'.prevVersion = syncflow.prevVersion
        /\ UNCHANGED <<wf, unhandled, counted, table, abandoned>>
    BY <1>4, <1>t
       DEF Controller, ControllerStep, WriteScheduled, Reread, EmitScheduled, TypeOK,
           ControlTypeOK, SyncflowState
  <2> QED
    BY <2>1, CountQuiet
<1>5. ASSUME NEW c \in Controllers, ControllerCrash(c) PROVE CountInv' /\ TableInv'
  BY <1>5, <1>q DEF ControllerCrash, Crash
<1>6. ASSUME NEW m \in sent, StartWorkflow(m) PROVE CountInv' /\ TableInv'
  BY <1>6, StartCounts
<1>7. ASSUME NEW m \in sent, DropScheduled(m) PROVE CountInv' /\ TableInv'
  BY <1>7, <1>q DEF DropScheduled
<1>8. ASSUME NEW v \in 1 .. MaxVersion, Workflow(v) PROVE CountInv' /\ TableInv'
  BY <1>8, <1>t, WorkflowCounts
<1>9. ASSUME NEW v \in 1 .. MaxVersion, RetryLoad(v) PROVE CountInv' /\ TableInv'
  <2>1. /\ Abandoned /\ UNCHANGED <<syncflow, wf, unhandled, counted, table>>
    BY <1>9 DEF RetryLoad, Abandon, workerFrame
  <2> QED
    BY <2>1 DEF CountInv, TableInv, Announced, Now
<1>10. ASSUME NEW m \in abandoned, LateLoad(m) PROVE CountInv' /\ TableInv'
  <2>1. Abandoned
    BY <1>10 DEF TableInv
  <2>2. UNCHANGED <<syncflow, wf, unhandled, counted>>
    BY <1>10 DEF LateLoad
  <2> QED
    BY <2>1, <2>2 DEF CountInv, TableInv, Announced, Now
<1>11. ASSUME NEW p \in PostProcessors, PostSucceed(p) PROVE CountInv' /\ TableInv'
  <2>1. CASE EndSucceed(p)
    BY <1>11, <2>1, SuccessCounts DEF PostSucceed
  <2>2. CASE ~EndSucceed(p)
    BY <1>11, <2>2, <1>q DEF PostSucceed, HandleSucceed, BeginSucceed, HandlerDies
  <2> QED
    BY <2>1, <2>2
<1>12. ASSUME NEW v \in failed, PostFailed(v) PROVE CountInv' /\ TableInv'
  BY <1>12, <1>q DEF PostFailed, StopSyncConnection
<1>13. ASSUME NEW status \in SyncConnectionStatus, UserSetsConnection(status)
       PROVE  CountInv' /\ TableInv'
  BY <1>13, <1>q DEF UserSetsConnection, SetConnection
<1>14. CASE UserEditsWorkbook
  BY <1>14, <1>q DEF UserEditsWorkbook
<1>15. CASE UNCHANGED vars
  BY <1>15, <1>q DEF vars
<1> QED
  BY <1>1, <1>2, <1>3, <1>4, <1>5, <1>6, <1>7, <1>8, <1>9, <1>10, <1>11, <1>12, <1>13,
     <1>14, <1>15 DEF Next

\* Once no sync executes and no success waits, each loaded version is counted, and
\* once, for any controllers, crashes and external errors: if a success is delivered
\* again only until it is handled, if one instance handles them all, and if a load
\* that no success follows does not commit. It does if its attempt is abandoned and
\* the next one reports an internal error.
THEOREM RowsAlwaysCountedOnce ==
  ASSUME ~Redelivery, \A p, q \in PostProcessors : p = q, ~(InternalErrors /\ Abandoned)
  PROVE  Spec => []RowsCountedOnce
<1>1. ASSUME IInv, CountInv, TableInv PROVE RowsCountedOnce
  <2> SUFFICES ASSUME unhandled = {}, \A v \in 1 .. MaxVersion : wf[v].pc \notin Executing,
                      NEW v \in 1 .. MaxVersion
               PROVE  counted[v] = IF v <= table THEN 1 ELSE 0
    BY DEF RowsCountedOnce
  <2>1. syncflow.version \in Versions /\ v \in Versions
    BY <1>1, ControlAssumption DEF IInv, TypeOK, ControlTypeOK, SyncflowState, Versions
  <2>2. Now \notin Executing
    <3>1. CASE syncflow.version = MaxVersion + 1
      BY <1>1, <3>1 DEF TableInv, Now, Executing
    <3>2. CASE syncflow.version # MaxVersion + 1
      <4>1. syncflow.version \in 1 .. MaxVersion
        BY <2>1, <3>2, ControlAssumption DEF Versions
      <4> QED
        BY <4>1 DEF Now
    <3> QED
      BY <3>1, <3>2
  <2>3. Now \in {"none", "failed", "completed"}
    BY <1>1, <2>1, <2>2 DEF IInv, TypeOK, Execution, Now
  <2>4. table = syncflow.prevVersion
    BY <1>1, <2>3 DEF TableInv, IInv, LoadInv
  <2> QED
    BY <1>1, <2>1, <2>3, <2>4 DEF CountInv, Announced
<1>2. IInv /\ CountInv /\ TableInv /\ HandlingInv /\ [Next]_vars
        => CountInv' /\ TableInv' /\ HandlingInv'
  BY CountNext, HandlingNext
<1>3. Init => CountInv /\ TableInv /\ HandlingInv
  BY CountInit DEF Init, PostInit, HandlingInv
<1> QED
  BY <1>1, <1>2, <1>3, Invariance, PTL DEF Spec

-----------------------------------------------------------------------------
(* The system implements SequentialSync. Four values determine the mapped  *)
(* state: Now, the version, the previous version and the table.            *)

\* Whether any execution is open is told by the one of the current version.
LEMMA OpenIsNow == IInv => ((\E v \in Versions : wf[v].pc \in Executing) <=> Now \in Executing)
<1> SUFFICES ASSUME IInv
             PROVE  (\E v \in Versions : wf[v].pc \in Executing) <=> Now \in Executing
  OBVIOUS
<1>1. syncflow.version \in Versions
  BY DEF IInv, TypeOK, ControlTypeOK, SyncflowState
<1>2. ASSUME NEW v \in Versions, wf[v].pc \in Executing PROVE v = syncflow.version
  <2>1. wf[v].pc \notin {"none", "completed"}
    BY <1>2 DEF Executing
  <2> QED BY <1>1, <2>1 DEF IInv, VersionsInv, Versions
<1> QED BY <1>1, <1>2 DEF Now

LEMMA OpenIsNowNext ==
  IInv' => ((\E v \in Versions : wf'[v].pc \in Executing) <=> Now' \in Executing)
<1>1. (IInv => ((\E v \in Versions : wf[v].pc \in Executing) <=> Now \in Executing))'
  BY OpenIsNow, PTL
<1> QED BY <1>1

\* A step that leaves the four values alone, but for moves between steps of the
\* workflow the abstract syncflow does not tell apart, is a stutter.
LEMMA StutterMaps ==
  ASSUME IInv, IInv', UNCHANGED table,
         syncflow'.version = syncflow.version, syncflow'.prevVersion = syncflow.prevVersion,
         \/ Now' = Now
         \/ {Now, Now'} \subseteq Executing \ {"advance"}
  PROVE  UNCHANGED Promise!abstractVars
<1>1. (Now' # "none") = (Now # "none") /\ (Now' = "advance") = (Now = "advance")
  BY DEF Executing
<1>2. (\E v \in Versions : wf[v].pc \in Executing)' = (\E v \in Versions : wf[v].pc \in Executing)
  BY OpenIsNow, OpenIsNowNext
<1> QED BY <1>1, <1>2 DEF Promise!abstractVars, Now

LEMMA BeginMaps ==
  ASSUME IInv, IInv', UNCHANGED <<syncflow, table>>, Now \in {"none", "failed"}, Now' = "check"
  PROVE  Promise!Begin
<1>1. ~\E v \in Versions : wf[v].pc \in Executing
  BY OpenIsNow DEF Executing
<1>2. (\E v \in Versions : wf[v].pc \in Executing)'
  BY OpenIsNowNext DEF Executing
<1>3. table = syncflow.prevVersion
  BY DEF IInv, LoadInv
<1> QED BY <1>1, <1>2, <1>3 DEF Promise!Begin, Now

\* A load that changes the table, by the workflow or by an abandoned attempt.
LEMMA LoadMaps ==
  ASSUME IInv, IInv', UNCHANGED syncflow, table # syncflow.version, table' = syncflow.version,
         Now # "none",
         Now' = Now \/ (Now = "load" /\ Now' = "announce")
  PROVE  Promise!Load
<1>1. table = syncflow.prevVersion /\ Now # "advance"
  BY DEF IInv, LoadInv
<1>2. (\E v \in Versions : wf[v].pc \in Executing)' = (\E v \in Versions : wf[v].pc \in Executing)
  BY OpenIsNow, OpenIsNowNext DEF Executing
<1>3. Now' # "none" /\ Now' # "advance"
  BY <1>1
<1> QED BY <1>1, <1>2, <1>3 DEF Promise!Load, Now

LEMMA AnnounceMaps ==
  ASSUME IInv, IInv', UNCHANGED <<syncflow, table>>, Now = "announce", Now' = "advance"
  PROVE  Promise!Announce
<1>1. \E v \in Versions : wf[v].pc \in Executing
  BY OpenIsNow DEF Executing
<1>2. (\E v \in Versions : wf[v].pc \in Executing)'
  BY OpenIsNowNext DEF Executing
<1>3. table = syncflow.version
  BY DEF IInv, LoadInv
<1> QED BY <1>1, <1>2, <1>3 DEF Promise!Announce, Now

LEMMA SucceedMaps ==
  ASSUME IInv, IInv', UNCHANGED table, Now = "advance", Now' = "none",
         syncflow'.version = syncflow.version + 1, syncflow'.prevVersion = syncflow.version
  PROVE  Promise!Succeed
<1>1. \E v \in Versions : wf[v].pc \in Executing
  BY OpenIsNow DEF Executing
<1>2. ~(\E v \in Versions : wf[v].pc \in Executing)'
  BY OpenIsNowNext DEF Executing
<1> QED BY <1>1, <1>2 DEF Promise!Succeed, Now

LEMMA FailMaps ==
  ASSUME IInv, IInv', UNCHANGED <<syncflow, table>>, Now \in {"extEmit", "intEmit"},
         Now' \in {"failed", "completed"}
  PROVE  Promise!Fail
<1>1. \E v \in Versions : wf[v].pc \in Executing
  BY OpenIsNow DEF Executing
<1>2. ~(\E v \in Versions : wf[v].pc \in Executing)'
  BY OpenIsNowNext DEF Executing
<1>3. syncflow.prevVersion # syncflow.version
  BY DEF IInv, VersionsInv, TypeOK, ControlTypeOK, SyncflowState
<1> QED BY <1>1, <1>2, <1>3 DEF Promise!Fail, Now

LEMMA InitMaps == Init => Promise!Init
<1> SUFFICES ASSUME Init PROVE Promise!Init
  OBVIOUS
<1>1. syncflow.version = 1 /\ syncflow.prevVersion = 0 /\ table = 0
  BY DEF Init, ControlInit, LoaderInit
<1>2. \A v \in Versions : wf[v].pc = "none"
  BY DEF Init
<1>3. 1 \in Versions
  BY ControlAssumption DEF Versions
<1> QED BY <1>1, <1>2, <1>3 DEF Promise!Init, Executing

LEMMA WorkflowMaps ==
  ASSUME IInv, IInv', NEW v \in 1 .. MaxVersion, Workflow(v)
  PROVE  [Promise!Next]_(Promise!abstractVars)
<1> USE DEF workerFrame, postVars, loaderVars
<1>t. TypeOK /\ VersionsInv /\ LoadInv
  BY DEF IInv
<1>x. wf[v].pc \in Executing
  BY FailingSteps
     DEF Workflow, Check, Download, Compare, LoadExcel, Announce, Advance, FailExternal,
         FailInternal, ResetStatus, EmitFailure, Executing
<1>v. v = syncflow.version /\ wf[v].prev = syncflow.prevVersion /\ Now = wf[v].pc /\ v \in Versions
  BY <1>t, <1>x, ExecutingNow DEF TypeOK, ControlTypeOK, SyncflowState
\* Where a move under the same version leads.
<1>m. ASSUME NEW pc, Goto(v, pc), syncflow'.version = syncflow.version
      PROVE  Now' = pc
  <2>1. wf'[v].pc = pc
    BY <1>m, <1>t, <1>v DEF Goto, TypeOK, Execution
  <2> QED BY <1>m, <1>v, <2>1 DEF Now
<1>1. CASE Check(v) \/ ResetStatus(v)
  <2>1. syncflow'.version = syncflow.version /\ syncflow'.prevVersion = syncflow.prevVersion
    BY <1>1, <1>t DEF Check, ResetStatus, TypeOK, ControlTypeOK, SyncflowState
  <2>2. {Now, Now'} \subseteq Executing \ {"advance"} /\ UNCHANGED table
    <3>1. CASE Check(v)
      BY <1>m, <1>v, <2>1, <3>1 DEF Check, Executing
    <3>2. CASE ResetStatus(v)
      <4>1. Goto(v, "extEmit") \/ Goto(v, "intEmit")
        BY <3>2 DEF ResetStatus
      <4>2. Now' \in {"extEmit", "intEmit"}
        BY <1>m, <2>1, <4>1
      <4> QED BY <1>v, <3>2, <4>2 DEF ResetStatus, Executing
    <3> QED BY <1>1, <3>1, <3>2
  <2> QED BY <2>1, <2>2, StutterMaps
<1>2. CASE Download(v) \/ Compare(v) \/ FailExternal(v) \/ FailInternal(v)
  <2>1. UNCHANGED <<syncflow, table>>
    BY <1>2 DEF Download, Save, Compare, FailExternal, FailInternal
  <2>2. Goto(v, "compare") \/ Goto(v, "load") \/ Goto(v, "extIdle") \/ Goto(v, "intIdle")
    BY <1>2 DEF Download, Compare, FailExternal, FailInternal
  <2>3. Now' \in {"compare", "load", "extIdle", "intIdle"}
    BY <1>m, <2>1, <2>2
  <2>4. Now \in {"download", "compare", "load"}
    BY <1>2, <1>v, FailingSteps DEF Download, Compare, FailExternal, FailInternal
  <2> QED BY <2>1, <2>3, <2>4, StutterMaps DEF Executing
<1>3. CASE LoadExcel(v)
  <2>1. UNCHANGED syncflow /\ Apply(Run(v)) /\ Now = "load" /\ Now' = "announce"
    BY <1>3, <1>m, <1>v DEF LoadExcel
  <2>2. CASE v \in marks
    <3>1. UNCHANGED table
      BY <2>1, <2>2 DEF Apply, Run
    <3> QED BY <2>1, <3>1, StutterMaps DEF Executing
  <2>3. CASE v \notin marks
    <3>1. table' = syncflow.version
      BY <1>v, <2>1, <2>3 DEF Apply, Run
    <3>2. table # syncflow.version
      BY <1>t, <1>v, <2>3 DEF LoadInv
    <3>3. Promise!Load
      BY <2>1, <3>1, <3>2, LoadMaps
    <3> QED BY <3>3 DEF Promise!Next
  <2> QED BY <2>2, <2>3
<1>4. CASE Announce(v)
  <2>1. UNCHANGED <<syncflow, table>> /\ Now = "announce" /\ Now' = "advance"
    BY <1>4, <1>m, <1>v DEF Announce
  <2>2. Promise!Announce
    BY <2>1, AnnounceMaps
  <2> QED BY <2>2 DEF Promise!Next
<1>5. CASE Advance(v)
  <2>1. /\ UNCHANGED table /\ Now = "advance"
        /\ syncflow'.version = syncflow.version + 1 /\ syncflow'.prevVersion = syncflow.version
    BY <1>5, <1>v DEF Advance
  <2>2. v + 1 \in Versions /\ v + 1 # v /\ v + 1 > v
    BY ControlAssumption DEF Versions
  <2>3. wf'[v + 1] = wf[v + 1]
    BY <1>5, <1>t, <2>2 DEF Advance, Goto, TypeOK
  <2>4. Now' = "none"
    BY <1>t, <1>v, <2>1, <2>2, <2>3 DEF VersionsInv, Now
  <2>5. Promise!Succeed
    BY <2>1, <2>4, SucceedMaps
  <2> QED BY <2>5 DEF Promise!Next
<1>6. CASE EmitFailure(v)
  <2>1. UNCHANGED <<syncflow, table>> /\ Now \in {"extEmit", "intEmit"}
    BY <1>6, <1>v DEF EmitFailure, PublishFailed
  <2>2. Goto(v, "failed") \/ Goto(v, "completed")
    BY <1>6 DEF EmitFailure
  <2>3. Promise!Fail
    BY <1>m, <2>1, <2>2, FailMaps
  <2> QED BY <2>3 DEF Promise!Next
<1> QED BY <1>1, <1>2, <1>3, <1>4, <1>5, <1>6 DEF Workflow

LEMMA StepMaps ==
  ASSUME IInv, IInv', [Next]_vars
  PROVE  [Promise!Next]_(Promise!abstractVars)
<1> USE DEF controlVars, postVars, loaderVars, excelVars
<1>t. TypeOK /\ VersionsInv /\ LoadInv /\ AbandonedInv /\ MessagesInv
  BY DEF IInv
\* Whoever leaves the workflows and the table alone and writes at most a status.
<1>q. ASSUME UNCHANGED <<wf, table>>,
             syncflow'.version = syncflow.version, syncflow'.prevVersion = syncflow.prevVersion
      PROVE  UNCHANGED Promise!abstractVars
  <2>1. Now' = Now
    BY <1>q DEF Now
  <2> QED BY <1>q, <2>1, StutterMaps
<1>1. ASSUME NEW c \in Controllers,
             ExcelTakeTrigger(c) \/ ExcelAdmit(c) \/ ExcelRefuse(c) \/ ControllerCrash(c)
      PROVE  UNCHANGED Promise!abstractVars
  BY <1>1, <1>q DEF ExcelTakeTrigger, TakeTrigger, ExcelAdmit, Admit, ExcelRefuse, Refuse,
                    ControllerCrash, Crash
<1>2. ASSUME NEW c \in Controllers, Controller(c)
      PROVE  UNCHANGED Promise!abstractVars
  <2>1. syncflow'.version = syncflow.version /\ syncflow'.prevVersion = syncflow.prevVersion
    BY <1>2, <1>t DEF Controller, ControllerStep, WriteScheduled, Reread, EmitScheduled,
                      TypeOK, ControlTypeOK, SyncflowState
  <2> QED BY <1>2, <1>q, <2>1 DEF Controller
<1>3. ASSUME NEW m \in sent, StartWorkflow(m) PROVE Promise!Begin
  <2>1. m.version \in Versions /\ Current(m) /\ m.prevVersion \in 0 .. MaxVersion
    BY <1>t, MessageTyped DEF TypeOK, ControlTypeOK, MessagesInv
  <2>2. wf[m.version].pc \in {"none", "failed"} /\ UNCHANGED <<syncflow, table>>
    BY <1>3 DEF StartWorkflow, MayStart
  <2>3. m.version = syncflow.version
    BY <1>t, <2>1, <2>2 DEF VersionsInv, Current, Versions, TypeOK, ControlTypeOK, SyncflowState
  <2>4. wf'[m.version].pc = "check"
    BY <1>3, <1>t, <2>1 DEF StartWorkflow, TypeOK
  <2> QED BY <2>2, <2>3, <2>4, BeginMaps DEF Now
<1>4. ASSUME NEW m \in sent, DropScheduled(m) PROVE UNCHANGED Promise!abstractVars
  BY <1>4, <1>q DEF DropScheduled
<1>5. ASSUME NEW v \in 1 .. MaxVersion, RetryLoad(v) PROVE UNCHANGED Promise!abstractVars
  BY <1>5, <1>q DEF RetryLoad, Abandon, workerFrame
<1>6. ASSUME NEW m \in abandoned, LateLoad(m) PROVE [Promise!Next]_(Promise!abstractVars)
  <2>1. UNCHANGED <<syncflow, wf>> /\ table <= m.version /\ Apply(m)
    BY <1>6 DEF LateLoad, AbandonedEnds
  <2>2. CASE UNCHANGED table
    BY <1>q, <2>1, <2>2
  <2>3. CASE m.version \notin marks
    <3>1. m.version \in 1 .. MaxVersion /\ Current(m)
      BY <1>t, RunnableFields DEF TypeOK, AbandonedInv
    <3>2. syncflow.version = syncflow.prevVersion + 1 /\ syncflow.prevVersion \in Nat
      BY <1>t DEF VersionsInv, TypeOK, ControlTypeOK, SyncflowState
    <3>3. m.version = syncflow.version /\ table # syncflow.version
      BY <1>t, <2>1, <2>3, <3>1, <3>2 DEF LoadInv, Current
    <3>4. table' = syncflow.version
      BY <2>1, <2>3, <3>3 DEF Apply
    <3>5. Now # "none"
      BY <1>t, <3>3 DEF AbandonedInv
    <3>6. UNCHANGED syncflow /\ Now' = Now
      BY <2>1 DEF Now
    <3>7. Promise!Load
      BY <2>1, <3>3, <3>4, <3>5, <3>6, LoadMaps
    <3> QED BY <3>7 DEF Promise!Next
  <2> QED BY <2>1, <2>2, <2>3 DEF Apply
<1>7. ASSUME NEW p \in PostProcessors, PostSucceed(p) PROVE UNCHANGED Promise!abstractVars
  BY <1>7, <1>q DEF PostSucceed
<1>8. ASSUME NEW v \in failed, PostFailed(v) PROVE UNCHANGED Promise!abstractVars
  BY <1>8, <1>q DEF PostFailed, StopSyncConnection, updateConnectionState
<1>9. ASSUME NEW status \in SyncConnectionStatus, UserSetsConnection(status)
      PROVE  UNCHANGED Promise!abstractVars
  BY <1>9, <1>q DEF UserSetsConnection, SetConnection, updateConnectionState
<1>10. CASE UserEditsWorkbook \/ UNCHANGED vars
  BY <1>10, <1>q DEF UserEditsWorkbook, vars
<1> QED BY <1>1, <1>2, <1>3, <1>4, <1>5, <1>6, <1>7, <1>8, <1>9, <1>10, WorkflowMaps
        DEF Next, Promise!Next

\* The Excel syncflow implements the abstract one, for any number of controllers
\* and versions: one sync at a time, each load on its predecessor's data, each
\* success announced after its load and before the next sync.
THEOREM ImplementsSequential == Spec => Sequential
<1>1. Init => Promise!Init
  BY InitMaps
<1>2. IInv /\ IInv' /\ [Next]_vars => [Promise!Next]_(Promise!abstractVars)
  BY StepMaps
<1> QED BY <1>1, <1>2, Invariance, PTL DEF Spec, Sequential, Promise!Spec

=============================================================================
