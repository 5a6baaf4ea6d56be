-------------------------- MODULE GoogleSyncProofs --------------------------
(***************************************************************************)
(* Theorems about GoogleSync, for every number of controllers and bound on *)
(* versions and whatever crashes: its types always; OneSync unless errors  *)
(* of the processors and redelivery come together; LoadOnBase and that it  *)
(* implements SequentialSync unless errors come with redelivery or with    *)
(* abandoned loads.                                                        *)
(***************************************************************************)
EXTENDS GoogleSync, TLAPS

-----------------------------------------------------------------------------
(* Typing                                                                  *)

PC == Executing \cup {"none", "failed", "completed"}
TopicOK == [sent : SUBSET Message, pending : SUBSET Message]

\* The workflows' part of TypeOK: what none of the other modules' steps changes.
GoogleTypeOK ==
  /\ ex \in [Kinds -> [Versions -> Execution]]
  /\ topic \in [Later -> TopicOK]
LoaderTypeOK ==
  /\ table \in 0 .. MaxVersion
  /\ marks \subseteq 0 .. MaxVersion
  /\ abandoned \subseteq Runnable

LEMMA TypeParts == TypeOK <=> ControlTypeOK /\ PostTypeOK /\ LoaderTypeOK /\ GoogleTypeOK
  BY DEF TypeOK, LoaderTypeOK, GoogleTypeOK, TopicOK

LEMMA InitTyped == Init => TypeOK
<1> SUFFICES ASSUME Init PROVE TypeOK
  OBVIOUS
<1> USE ControlAssumption
<1>1. ControlTypeOK /\ PostTypeOK
  BY DEF Init, ControlInit, PostInit, ControlTypeOK, SyncConnectionStatus, PostTypeOK, SyncflowState,
         Status, Versions, NoMessage, ControllerState, Idle, CountCap, Counts, NoCounts, Waiting
<1>2. LoaderTypeOK
  BY DEF Init, LoaderInit, LoaderTypeOK
<1>3. GoogleTypeOK
  BY DEF Init, GoogleTypeOK, TopicOK, Execution
<1> QED
  BY <1>1, <1>2, <1>3, TypeParts

\* A run's payload is a message a workflow may be started with.
LEMMA RunTyped ==
  ASSUME GoogleTypeOK, NEW k \in Kinds, NEW v \in 1 .. MaxVersion
  PROVE  Run(k, v) \in Runnable /\ Run(k, v) \in Message
  BY ControlAssumption DEF GoogleTypeOK, Run, Runnable, Message, Execution, Versions

LEMMA GotoTyped ==
  ASSUME GoogleTypeOK, NEW k \in Kinds, NEW v \in 1 .. MaxVersion, NEW pc \in PC, Goto(k, v, pc)
  PROVE  /\ ex' \in [Kinds -> [Versions -> Execution]]
         /\ ex'[k][v].pc = pc /\ ex'[k][v].prev = ex[k][v].prev
         /\ \A j \in Kinds, u \in Versions : j # k \/ u # v => ex'[j][u] = ex[j][u]
<1> DEFINE moved == [ex[k][v] EXCEPT !.pc = pc]
<1>1. v \in Versions
  BY ControlAssumption DEF Versions
<1>2. ex[k] \in [Versions -> Execution] /\ ex[k][v] \in Execution
  BY <1>1 DEF GoogleTypeOK
<1>3. moved \in Execution /\ moved.pc = pc /\ moved.prev = ex[k][v].prev
  BY <1>2 DEF Execution, PC
<1>4. ex' = [ex EXCEPT ![k] = [ex[k] EXCEPT ![v] = moved]]
  BY DEF Goto
<1>5. [ex[k] EXCEPT ![v] = moved] \in [Versions -> Execution]
  BY <1>2, <1>3
<1>6. ex' \in [Kinds -> [Versions -> Execution]]
  BY <1>4, <1>5 DEF GoogleTypeOK
<1>7. ex'[k] = [ex[k] EXCEPT ![v] = moved] /\ \A j \in Kinds \ {k} : ex'[j] = ex[j]
  BY <1>4 DEF GoogleTypeOK
<1>8. ex'[k][v] = moved /\ \A u \in Versions \ {v} : ex'[k][u] = ex[k][u]
  BY <1>1, <1>2, <1>7
<1> QED
  BY <1>3, <1>6, <1>7, <1>8

\* A workflow is started at its first step, with the message's payload.
LEMMA StartTyped ==
  ASSUME GoogleTypeOK, NEW k \in Kinds, NEW m \in Message, Start(k, m)
  PROVE  /\ ex' \in [Kinds -> [Versions -> Execution]]
         /\ \A j \in Kinds, u \in Versions : j # k \/ u # m.version => ex'[j][u] = ex[j][u]
         /\ \/ ex'[k][m.version] = ex[k][m.version]
            \/ /\ ex[k][m.version].pc \in {"none", "failed"}
               /\ ex'[k][m.version] = [pc |-> FirstStep[k], prev |-> m.prevVersion]
<1>1. m.version \in Versions /\ m.prevVersion \in 0 .. MaxVersion
  BY DEF Message
<1>2. FirstStep[k] \in Executing
  BY DEF FirstStep, Kinds, Later, Executing
<1>3. [pc |-> FirstStep[k], prev |-> m.prevVersion] \in Execution
  BY <1>1, <1>2 DEF Execution
<1> QED
  BY <1>1, <1>3 DEF GoogleTypeOK, Start, MayStart

LEMMA PublishTyped ==
  ASSUME GoogleTypeOK, NEW k \in Later, NEW m \in Message, Publish(k, m)
  PROVE  /\ topic' \in [Later -> TopicOK]
         /\ topic'[k].sent = topic[k].sent \cup {m}
         /\ \A j \in Later \ {k} : topic'[j] = topic[j]
  BY DEF GoogleTypeOK, Publish, TopicOK

\* A delivery changes what is pending only.
LEMMA DeliveredTyped ==
  ASSUME GoogleTypeOK, NEW k \in Later, NEW m, NEW t \in Delivered(topic[k], m),
         topic' = [topic EXCEPT ![k] = t]
  PROVE  topic' \in [Later -> TopicOK] /\ \A j \in Later : topic'[j].sent = topic[j].sent
<1>1. t \in TopicOK /\ t.sent = topic[k].sent
  BY DEF GoogleTypeOK, Delivered, TopicOK
<1> QED
  BY <1>1 DEF GoogleTypeOK

LEMMA ApplyTyped ==
  ASSUME LoaderTypeOK, NEW m \in Runnable, Apply(m)
  PROVE  table' \in 0 .. MaxVersion /\ marks' \subseteq 0 .. MaxVersion
<1>1. m.version \in 0 .. MaxVersion /\ m.prevVersion \in 0 .. MaxVersion
  BY ControlAssumption DEF Runnable
<1> QED
  BY <1>1 DEF LoaderTypeOK, Apply

LEMMA ParkedTyped ==
  ASSUME ControlTypeOK, NEW c \in Controllers,
         TakeTrigger(c) \/ Admit(c) \/ ControllerStep(c) \/ Crash(c)
  PROVE  /\ ControlTypeOK'
         /\ syncflow'.version = syncflow.version /\ syncflow'.prevVersion = syncflow.prevVersion
<1> USE DEF ControlTypeOK, ControllerState
<1>1. CASE TakeTrigger(c) \/ Admit(c)
  BY <1>1 DEF TakeTrigger, Admit
<1>2. CASE Crash(c)
  BY <1>2 DEF Crash, Idle
<1>3. CASE WriteScheduled(c)
  BY <1>3 DEF WriteScheduled, SyncflowState, Status
<1>4. CASE Reread(c)
  <2>1. [version |-> syncflow.version, prevVersion |-> syncflow.prevVersion] \in Message
    BY DEF Message, SyncflowState
  <2> QED
    BY <1>4, <2>1 DEF Reread
<1>5. CASE EmitScheduled(c)
  <2>1. ctl[c].msg \in Message
    BY <1>5 DEF EmitScheduled
  <2>2. ctl' \in [Controllers -> ControllerState]
    BY <1>5 DEF EmitScheduled, Idle
  <2> QED
    BY <1>5, <2>1, <2>2 DEF EmitScheduled
<1> QED
  BY <1>1, <1>2, <1>3, <1>4, <1>5 DEF ControllerStep

\* A step of a workflow begins at a step that executes.
LEMMA FailingSteps == DOMAIN GoogleErrors = {"download", "ingest", "compare", "load"}
  BY DEF GoogleErrors

LEMMA WorkflowTyped ==
  ASSUME TypeOK, NEW k \in Kinds, NEW v \in 1 .. MaxVersion, Workflow(k, v)
  PROVE  TypeOK'
<1> USE DEF workerFrame, postVars, loaderVars, TypeOK, ControlTypeOK, PostTypeOK, LoaderTypeOK, GoogleTypeOK, TopicOK
<1>t. ControlTypeOK /\ PostTypeOK /\ LoaderTypeOK /\ GoogleTypeOK
  BY TypeParts
<1>v. v \in Versions /\ v + 1 \in Versions /\ v \in 0 .. MaxVersion
  BY ControlAssumption DEF Versions
<1>k. "full" \in Kinds /\ Later \subseteq Kinds /\ "proceed" \in Kinds /\ "download" \in Kinds
  BY DEF Kinds, Later
\* A move that only its workflow sees.
<1>m. ASSUME NEW j \in Kinds, NEW pc \in PC, Goto(j, v, pc), UNCHANGED topic
      PROVE  GoogleTypeOK'
  BY <1>m, <1>t, GotoTyped DEF GoogleTypeOK
<1>1. CASE Check(v)
  <2>1. syncflow' \in SyncflowState
    BY <1>1, <1>t DEF Check, SyncflowState, Status
  <2> QED
    BY <1>1, <1>t, <1>k, <1>m, <2>1 DEF Check, PC, Executing
<1>2. CASE Download(v) \/ Compare(v) \/ Fail(k, v)
  BY <1>2, <1>t, <1>k, <1>m DEF Download, Compare, Fail, PC, Executing
<1>3. CASE HandOver(k, v)
  <2>1. GoogleTypeOK'
    <3> DEFINE j == IF k = "full" THEN "download" ELSE "proceed"
    <3>1. j \in Later /\ Publish(j, Run(k, v)) /\ Goto(k, v, "completed")
      BY <1>3 DEF HandOver, Later
    <3>2. Run(k, v) \in Message
      BY <1>t, RunTyped
    <3>3. topic' \in [Later -> TopicOK]
      BY <1>t, <3>1, <3>2, PublishTyped
    <3>4. ex' \in [Kinds -> [Versions -> Execution]]
      BY <1>t, <3>1, GotoTyped DEF PC
    <3> QED
      BY <3>3, <3>4 DEF GoogleTypeOK
  <2> QED
    BY <1>3, <1>t, <2>1 DEF HandOver
<1>4. CASE Ingest(v)
  BY <1>4, <1>t, <1>v, <1>k, <1>m DEF Ingest, Save, PC, Executing
<1>5. CASE LoadGoogleSheets(v)
  <2>1. table' \in 0 .. MaxVersion /\ marks' \subseteq 0 .. MaxVersion
    BY <1>5, <1>t, <1>k, RunTyped, ApplyTyped DEF LoadGoogleSheets
  <2> QED
    BY <1>5, <1>t, <1>k, <1>m, <2>1 DEF LoadGoogleSheets, PC, Executing
<1>6. CASE Announce(v)
  <2>1. Run("proceed", v) \in Message
    BY <1>t, <1>k, RunTyped
  <2> QED
    BY <1>6, <1>t, <1>k, <1>m, <2>1 DEF Announce, PublishSucceed, PC, Executing
<1>7. CASE Advance(v)
  <2>1. syncflow' \in SyncflowState
    BY <1>7, <1>v DEF Advance, SyncflowState, Status
  <2> QED
    BY <1>7, <1>t, <1>k, <1>m, <2>1 DEF Advance, PC
<1>8. CASE GiveUp(k, v)
  <2>1. syncflow' \in SyncflowState
    BY <1>8, <1>t, <1>v DEF GiveUp, SyncflowState, Status
  <2> QED
    BY <1>8, <1>t, <1>m, <2>1 DEF GiveUp, PC, Executing
<1>9. CASE EmitFailure(k, v)
  BY <1>9, <1>t, <1>v, <1>m DEF EmitFailure, PublishFailed, PC
<1> QED
  BY <1>1, <1>2, <1>3, <1>4, <1>5, <1>6, <1>7, <1>8, <1>9 DEF Workflow

\* What an instance handles is a message it took, and the counts it read then.
LEMMA HandlingTyped ==
  ASSUME PostTypeOK, NEW p \in PostProcessors, handling[p] # Waiting
  PROVE  handling[p].msg \in Message /\ handling[p].read \in Counts
  BY DEF PostTypeOK

LEMMA SucceedTyped ==
  ASSUME PostTypeOK, NEW p \in PostProcessors, HandleSucceed(p)
  PROVE  PostTypeOK'
<1> USE DEF PostTypeOK
<1>1. ASSUME NEW m \in succeeded, BeginSucceed(p, m) PROVE PostTypeOK'
  <2>1. handling' = [handling EXCEPT ![p] = [msg |-> m, read |-> counted]]
    BY <1>1 DEF BeginSucceed
  <2>2. [msg |-> m, read |-> counted] \in [msg : Message, read : Counts]
    OBVIOUS
  <2>3. handling' \in [PostProcessors -> [msg : Message, read : Counts] \cup {Waiting}]
    BY <2>1, <2>2
  <2> QED
    BY <1>1, <2>3 DEF BeginSucceed, CleanPrevious
<1>2. CASE EndSucceed(p)
  <2>1. handling[p] # Waiting
    BY <1>2 DEF EndSucceed, Finish
  <2>2. handling[p].msg.version \in Versions /\ handling[p].read \in [Versions -> 0 .. CountCap]
    BY <2>1, HandlingTyped DEF Counts, Message
  <2>3. counted' \in Counts
    BY <1>2, <2>2 DEF EndSucceed, updateStatistics, Counts, CountCap
  <2> QED
    BY <1>2, <2>3 DEF EndSucceed, Finish
<1>3. CASE HandlerDies(p)
  BY <1>3 DEF HandlerDies
<1> QED
  BY <1>1, <1>2, <1>3 DEF HandleSucceed

LEMMA NextTyped == TypeOK /\ [Next]_vars => TypeOK'
<1> SUFFICES ASSUME TypeOK, [Next]_vars PROVE TypeOK'
  OBVIOUS
<1> USE DEF postVars, loaderVars, googleVars, TypeOK, PostTypeOK, LoaderTypeOK, GoogleTypeOK, TopicOK
<1>t. ControlTypeOK /\ PostTypeOK /\ LoaderTypeOK /\ GoogleTypeOK
  BY TypeParts
<1>1. ASSUME NEW c \in Controllers, Controller(c) \/ ControllerCrash(c) PROVE TypeOK'
  <2>1. ControlTypeOK'
    BY <1>1, <1>t, ParkedTyped DEF Controller, ControllerCrash
  <2> QED
    BY <1>1, <1>t, <2>1 DEF Controller, ControllerCrash
<1>2. ASSUME NEW m \in sent, StartFull(m) PROVE TypeOK'
  <2>1. ControlTypeOK'
    BY <1>2, <1>t DEF StartFull, Consume, ControlTypeOK
  <2>2. ex' \in [Kinds -> [Versions -> Execution]]
    <3>1. m \in Message /\ "full" \in Kinds
      BY <1>t DEF ControlTypeOK, Kinds
    <3> QED
      BY <1>2, <1>t, <3>1, StartTyped DEF StartFull
  <2> QED
    BY <1>2, <1>t, <2>1, <2>2 DEF StartFull
<1>3. ASSUME NEW k \in Later, NEW m \in topic[k].sent, StartLater(k, m) PROVE TypeOK'
  <2>1. m \in Message /\ k \in Kinds
    BY <1>t DEF TopicOK, Kinds
  <2>2. ex' \in [Kinds -> [Versions -> Execution]]
    BY <1>3, <1>t, <2>1, StartTyped DEF StartLater
  <2>3. topic' \in [Later -> TopicOK]
    BY <1>3, <1>t, DeliveredTyped DEF StartLater
  <2>4. ControlTypeOK'
    BY <1>3, <1>t DEF StartLater, controlVars, ControlTypeOK
  <2> QED
    BY <1>3, <1>t, <2>2, <2>3, <2>4 DEF StartLater
<1>4. ASSUME NEW k \in Kinds, NEW v \in 1 .. MaxVersion, Workflow(k, v) PROVE TypeOK'
  BY <1>4, WorkflowTyped
<1>5. ASSUME NEW v \in 1 .. MaxVersion, RetryLoad(v) PROVE TypeOK'
  <2>1. Run("proceed", v) \in Runnable
    BY <1>t, RunTyped DEF Kinds, Later
  <2> QED
    BY <1>5, <1>t, <2>1 DEF RetryLoad, Abandon, workerFrame, ControlTypeOK
<1>6. ASSUME NEW m \in abandoned, LateLoad(m) PROVE TypeOK'
  <2>1. table' \in 0 .. MaxVersion /\ marks' \subseteq 0 .. MaxVersion
    BY <1>6, <1>t, ApplyTyped DEF LateLoad, AbandonedEnds
  <2> QED
    BY <1>6, <1>t, <2>1 DEF LateLoad, AbandonedEnds, controlVars, ControlTypeOK
<1>7. ASSUME NEW p \in PostProcessors, PostSucceed(p) PROVE TypeOK'
  <2>1. PostTypeOK'
    BY <1>7, <1>t, SucceedTyped DEF PostSucceed
  <2> QED
    BY <1>7, <1>t, <2>1 DEF PostSucceed, controlVars, ControlTypeOK
<1>8. ASSUME NEW v \in failed, PostFailed(v) PROVE TypeOK'
  BY <1>8, <1>t
     DEF PostFailed, StopSyncConnection, updateConnectionState, ControlTypeOK, SyncConnectionStatus
<1>9. ASSUME NEW status \in SyncConnectionStatus, UserSetsConnection(status) PROVE TypeOK'
  BY <1>9, <1>t DEF UserSetsConnection, SetConnection, updateConnectionState, ControlTypeOK
<1>10. CASE UNCHANGED vars
  BY <1>10, <1>t DEF vars, controlVars, ControlTypeOK
<1> QED
  BY <1>1, <1>2, <1>3, <1>4, <1>5, <1>6, <1>7, <1>8, <1>9, <1>10 DEF Next

\* The variables hold what their types allow, whatever errors, crashes and
\* redeliveries there are: no workflow is started under a version beyond the
\* last, and the two writers of the syncflow's state keep to its statuses.
THEOREM TypeCorrect == Spec => []TypeOK
  BY InitTyped, NextTyped, PTL DEF Spec

-----------------------------------------------------------------------------
(* The order of the syncs. A processor's error closes a workflow as        *)
(* failed, so that a message delivered twice could start the version that  *)
(* was given up beside the next one (see the README): errors and           *)
(* redelivery are not combined.                                            *)

\* The state of the workflow that loads the syncflow's current version.
Now == ex["proceed"][syncflow.version].pc

Failing == {"giveUp", "emitFailure", "failed"}

\* The steps of each workflow while nothing fails.
Steps ==
  [full |-> {"check", "handover"},
   download |-> {"download", "handover"},
   proceed |-> {"ingest", "compare", "load", "announce", "advance"}]

\* Each workflow keeps to its own steps; the first has no processor to fail it.
StepsInv ==
  \A k \in Kinds, v \in Versions :
    \/ ex[k][v].pc \in Steps[k] \cup {"none", "completed"}
    \/ Errors /\ k # "full" /\ ex[k][v].pc \in Failing

\* What a message or an execution may name: a version the syncflow has reached,
\* and with the current one the current predecessor.
Reached(v, p) ==
  /\ v <= syncflow.version
  /\ v = syncflow.version => p = syncflow.prevVersion
  /\ Errors \/ v = p + 1

Current(m) == Reached(m.version, m.prevVersion)

\* Only the end of a sync, or its being given up, advances the version. Then no
\* workflow of it is at work, and the first of the three is closed for good.
VersionsInv ==
  /\ syncflow.prevVersion < syncflow.version
  /\ Errors \/ syncflow.version = syncflow.prevVersion + 1
  /\ \A k \in Kinds, v \in Versions :
       /\ v > syncflow.version => ex[k][v].pc = "none"
       /\ v = syncflow.version => ex[k][v].pc \notin {"emitFailure", "failed"}
       /\ v < syncflow.version =>
            \/ ex[k][v].pc = "completed"
            \/ Errors /\ k # "full" /\ ex[k][v].pc \in {"none", "emitFailure", "failed"}
       /\ ex[k][v].pc # "none" => Reached(v, ex[k][v].prev)

MessagesInv ==
  /\ \A m \in sent : Current(m)
  /\ \A c \in Controllers : ctl[c].pc = "emit" => Current(ctl[c].msg)

\* The workflow that hands over to another.
Before == [download |-> "full", proceed |-> "download"]

\* A workflow is started by the message of the one before, which completed with
\* it: whoever is at work on a version is alone.
ChainInv ==
  \A k \in Later :
    /\ \A v \in Versions : ex[k][v].pc # "none" => ex[Before[k]][v].pc = "completed"
    /\ \A m \in topic[k].sent : Current(m) /\ ex[Before[k]][m.version].pc = "completed"
    /\ topic[k].pending \subseteq topic[k].sent

\* Where workflows fail, a message that waits is the first for its workflow, and
\* none waits for a version that was given up.
PendingInv ==
  Errors => \A k \in Later : \A m \in topic[k].pending :
              m.version = syncflow.version /\ ex[k][m.version].pc = "none"

OrderInv ==
  /\ ~(Errors /\ Redelivery)
  /\ TypeOK /\ StepsInv /\ VersionsInv /\ MessagesInv /\ ChainInv /\ PendingInv

LEMMA Names ==
  /\ Kinds = {"full", "download", "proceed"} /\ Later = {"download", "proceed"}
  /\ Later \subseteq Kinds
  /\ \A k \in Later : Before[k] \in Kinds /\ Before[k] # k
  /\ Before["download"] = "full" /\ Before["proceed"] = "download"
  BY DEF Kinds, Later, Before

LEMMA Numbers ==
  ASSUME TypeOK
  PROVE  /\ syncflow.version \in Versions /\ syncflow.version \in Nat /\ syncflow.version # 0
         /\ syncflow.prevVersion \in 0 .. MaxVersion /\ syncflow.prevVersion \in Nat
  BY ControlAssumption DEF TypeOK, ControlTypeOK, SyncflowState, Versions

LEMMA InitOrder == ~(Errors /\ Redelivery) /\ Init => OrderInv
<1> SUFFICES ASSUME ~(Errors /\ Redelivery), Init PROVE OrderInv
  OBVIOUS
<1>1. TypeOK
  BY InitTyped
<1>2. syncflow.version = 1 /\ syncflow.prevVersion = 0 /\ 1 \in Versions
  BY ControlAssumption DEF Init, ControlInit, Versions
<1>3. \A k \in Kinds, v \in Versions : ex[k][v].pc = "none" /\ v >= 1
  BY DEF Init, Versions
<1>4. VersionsInv
  BY <1>2, <1>3 DEF VersionsInv, Versions
<1>5. MessagesInv
  BY DEF Init, ControlInit, Idle, MessagesInv
<1>6. ChainInv /\ PendingInv
  BY <1>3 DEF Init, ChainInv, PendingInv, Kinds
<1>7. StepsInv
  BY <1>3 DEF StepsInv
<1> QED
  BY <1>1, <1>4, <1>5, <1>6, <1>7 DEF OrderInv

\* What was reached stays so while the version stays or grows by one.
LEMMA ReachedKept ==
  ASSUME TypeOK, NEW v \in Versions, NEW p, Reached(v, p),
         \/ syncflow'.version = syncflow.version /\ syncflow'.prevVersion = syncflow.prevVersion
         \/ syncflow'.version = syncflow.version + 1
  PROVE  Reached(v, p)'
<1>1. v \in Nat /\ syncflow.version \in Nat
  BY Numbers DEF Versions
<1> QED
  BY <1>1 DEF Reached

\* A version at work, until it is given up, is the current one.
LEMMA ExecutingNow ==
  ASSUME TypeOK, VersionsInv, NEW k \in Kinds, NEW v \in 1 .. MaxVersion,
         ex[k][v].pc \in Executing \ {"emitFailure"}
  PROVE  v = syncflow.version /\ ex[k][v].prev = syncflow.prevVersion /\ v \in Versions
<1>1. v \in Versions /\ v \in Nat
  BY ControlAssumption DEF Versions
<1>2. ex[k][v].pc \notin {"none", "completed", "emitFailure", "failed"}
  BY DEF Executing
<1>3. v = syncflow.version
  BY <1>1, <1>2, Numbers DEF VersionsInv
<1> QED
  BY <1>1, <1>2, <1>3 DEF VersionsInv, Reached

\* Messages stay current while nothing is said and the version does not recede.
LEMMA MessagesKept ==
  ASSUME TypeOK, MessagesInv, UNCHANGED sent,
         \/ syncflow'.version = syncflow.version /\ syncflow'.prevVersion = syncflow.prevVersion
         \/ syncflow'.version = syncflow.version + 1,
         \A c \in Controllers : ctl'[c].pc = "emit" => ctl'[c] = ctl[c]
  PROVE  MessagesInv'
<1>1. \A m \in Message : Current(m) => Current(m)'
  BY ReachedKept DEF Message, Current
<1>2. \A m \in sent : m \in Message
  BY DEF TypeOK, ControlTypeOK
<1>3. \A c \in Controllers : ctl[c].pc = "emit" => ctl[c].msg \in Message
  BY DEF TypeOK, ControlTypeOK, ControllerState
<1> QED
  BY <1>1, <1>2, <1>3 DEF MessagesInv

\* What steps that move no workflow preserve.
LEMMA QuietStep ==
  ASSUME OrderInv, TypeOK', MessagesInv', UNCHANGED ex,
         \A k \in Later : topic'[k].sent = topic[k].sent /\ topic'[k].pending \subseteq topic[k].pending,
         syncflow'.version = syncflow.version, syncflow'.prevVersion = syncflow.prevVersion
  PROVE  OrderInv'
<1>1. VersionsInv' /\ StepsInv'
  BY DEF OrderInv, VersionsInv, StepsInv, Reached
<1>2. ChainInv' /\ PendingInv'
  BY DEF OrderInv, ChainInv, PendingInv, Current, Reached
<1> QED
  BY <1>1, <1>2 DEF OrderInv

\* The controllers write no more than the status, and publish what they read.
LEMMA ControllerKeepsOrder ==
  ASSUME OrderInv, TypeOK', NEW c \in Controllers, Controller(c) \/ ControllerCrash(c)
  PROVE  OrderInv'
<1> USE DEF postVars, loaderVars, googleVars
<1>t. TypeOK /\ ControlTypeOK /\ MessagesInv
  BY DEF OrderInv, TypeOK
<1>s. /\ TakeTrigger(c) \/ Admit(c) \/ ControllerStep(c) \/ Crash(c)
      /\ UNCHANGED <<ex, topic>>
  BY DEF Controller, ControllerCrash
<1>v. syncflow'.version = syncflow.version /\ syncflow'.prevVersion = syncflow.prevVersion
  BY <1>s, <1>t, ParkedTyped
\* A step that publishes nothing, and whose controller is about to publish only
\* what it was before.
<1>k. ASSUME UNCHANGED sent, \A d \in Controllers : ctl'[d].pc = "emit" => ctl'[d] = ctl[d]
      PROVE  MessagesInv'
  BY <1>k, <1>t, <1>v, MessagesKept
<1>1. CASE TakeTrigger(c) \/ Admit(c) \/ WriteScheduled(c)
  <2>1. \A d \in Controllers : ctl'[d].pc = "emit" => ctl'[d] = ctl[d]
    BY <1>1, <1>t DEF TakeTrigger, Admit, WriteScheduled, ControlTypeOK, ControllerState
  <2>2. UNCHANGED sent
    BY <1>1 DEF TakeTrigger, Admit, WriteScheduled
  <2> QED
    BY <1>k, <1>s, <1>v, <2>1, <2>2, QuietStep
<1>2. CASE Crash(c)
  <2>1. \A d \in Controllers : ctl'[d].pc = "emit" => ctl'[d] = ctl[d]
    BY <1>2, <1>t DEF Crash, Idle, ControlTypeOK
  <2>2. UNCHANGED sent
    BY <1>2 DEF Crash
  <2> QED
    BY <1>k, <1>s, <1>v, <2>1, <2>2, QuietStep
<1>3. CASE Reread(c)
  <2>1. UNCHANGED <<syncflow, sent>>
    BY <1>3 DEF Reread
  <2>2. \A d \in Controllers \ {c} : ctl'[d] = ctl[d]
    BY <1>3, <1>t DEF Reread, ControlTypeOK
  <2>3. ctl'[c].msg = [version |-> syncflow.version, prevVersion |-> syncflow.prevVersion]
    BY <1>3, <1>t DEF Reread, ControlTypeOK
  <2>4. Current(ctl'[c].msg)
    BY <1>t, <2>3, Numbers DEF OrderInv, VersionsInv, Current, Reached
  <2>5. MessagesInv'
    BY <1>t, <2>1, <2>2, <2>4 DEF MessagesInv, Current, Reached
  <2> QED
    BY <1>s, <1>v, <2>5, QuietStep
<1>4. CASE EmitScheduled(c)
  <2>1. UNCHANGED syncflow /\ sent' = sent \cup {ctl[c].msg} /\ ctl[c].pc = "emit"
    BY <1>4 DEF EmitScheduled
  <2>2. \A d \in Controllers : ctl'[d].pc = "emit" => ctl'[d] = ctl[d]
    BY <1>4, <1>t DEF EmitScheduled, Idle, ControlTypeOK
  <2>3. Current(ctl[c].msg)
    BY <1>t, <2>1 DEF MessagesInv
  <2>4. MessagesInv'
    BY <1>t, <2>1, <2>2, <2>3 DEF MessagesInv, Current, Reached
  <2> QED
    BY <1>s, <1>v, <2>4, QuietStep
<1> QED
  BY <1>s, <1>1, <1>2, <1>3, <1>4 DEF ControllerStep

\* An event starts a workflow of the current version, or is dropped.
LEMMA StartKeepsOrder ==
  ASSUME OrderInv, TypeOK', NEW k \in Kinds, NEW m \in Message, Current(m), Start(k, m),
         k \in Later => /\ ex[Before[k]][m.version].pc = "completed"
                        /\ Errors => m \in topic[k].pending /\ m \notin topic'[k].pending,
         UNCHANGED <<syncflow, ctl, sent>>,
         \A j \in Later : topic'[j].sent = topic[j].sent /\ topic'[j].pending \subseteq topic[j].pending
  PROVE  /\ OrderInv'
         /\ \/ UNCHANGED ex
            \/ /\ m.version = syncflow.version /\ ex[k][m.version].pc = "none"
               /\ ex'[k][m.version].pc = FirstStep[k]
               /\ \A j \in Kinds, u \in Versions : j # k \/ u # m.version => ex'[j][u] = ex[j][u]
<1>t. /\ TypeOK /\ GoogleTypeOK /\ VersionsInv /\ MessagesInv /\ ChainInv /\ StepsInv /\ PendingInv
  BY TypeParts DEF OrderInv
<1>m. m.version \in Versions /\ m.version \in Nat /\ m.prevVersion \in 0 .. MaxVersion
  BY DEF Message, Versions
<1>1. MessagesInv'
  BY <1>t DEF MessagesInv, Current, Reached
<1>2. CASE UNCHANGED ex
  BY <1>1, <1>2, QuietStep
<1>3. CASE ~UNCHANGED ex
  <2>1. ex[k][m.version].pc \in {"none", "failed"}
    BY <1>3 DEF Start, MayStart
  <2>2. m.version = syncflow.version
    <3>1. m.version <= syncflow.version
      BY DEF Current, Reached
    <3>2. CASE Errors /\ k # "full"
      BY <1>t, <3>2, Names DEF PendingInv
    <3>3. CASE ~(Errors /\ k # "full")
      BY <1>t, <1>m, <2>1, <3>1, <3>3, Numbers DEF VersionsInv
    <3> QED
      BY <3>2, <3>3
  <2>3. ex[k][m.version].pc = "none"
    BY <1>t, <1>m, <2>1, <2>2 DEF VersionsInv
  <2>4. ex' = [ex EXCEPT ![k][m.version] = [pc |-> FirstStep[k], prev |-> m.prevVersion]]
    BY <1>3 DEF Start
  <2>5. /\ ex'[k][m.version].pc = FirstStep[k] /\ ex'[k][m.version].prev = m.prevVersion
        /\ \A j \in Kinds, u \in Versions : j # k \/ u # m.version => ex'[j][u] = ex[j][u]
    BY <1>t, <1>m, <2>4 DEF GoogleTypeOK
  <2>6. FirstStep[k] \in Steps[k] /\ FirstStep[k] \notin {"none", "completed", "emitFailure", "failed"}
    BY DEF FirstStep, Steps, Kinds, Later
  <2>7. VersionsInv'
    <3> SUFFICES ASSUME NEW j \in Kinds, NEW u \in Versions
                 PROVE  /\ u > syncflow.version => ex'[j][u].pc = "none"
                        /\ u = syncflow.version => ex'[j][u].pc \notin {"emitFailure", "failed"}
                        /\ u < syncflow.version =>
                             \/ ex'[j][u].pc = "completed"
                             \/ Errors /\ j # "full" /\ ex'[j][u].pc \in {"none", "emitFailure", "failed"}
                        /\ ex'[j][u].pc # "none" => Reached(u, ex'[j][u].prev)
      BY <1>t DEF VersionsInv, Reached
    <3>1. CASE j = k /\ u = m.version
      BY <1>m, <2>2, <2>5, <2>6, <3>1 DEF Current
    <3>2. CASE j # k \/ u # m.version
      BY <1>t, <2>5, <3>2 DEF VersionsInv
    <3> QED
      BY <3>1, <3>2
  <2>8. ChainInv'
    <3>1. ASSUME NEW j \in Later, NEW u \in Versions, ex'[j][u].pc # "none"
          PROVE  ex'[Before[j]][u].pc = "completed"
      <4>1. ex[Before[j]][u].pc = "completed"
        BY <1>t, <2>5, <3>1, Names DEF ChainInv
      <4> QED
        BY <2>3, <2>5, <4>1, Names
    <3>2. ASSUME NEW j \in Later, NEW n \in topic[j].sent
          PROVE  Current(n)' /\ ex'[Before[j]][n.version].pc = "completed"
      <4>1. n.version \in Versions /\ Current(n) /\ ex[Before[j]][n.version].pc = "completed"
        BY <1>t DEF ChainInv, GoogleTypeOK, TopicOK, Message
      <4> QED
        BY <2>3, <2>5, <4>1, Names DEF Current, Reached
    <3> QED
      BY <1>t, <3>1, <3>2 DEF ChainInv
  <2>9. StepsInv'
    BY <1>t, <2>5, <2>6 DEF StepsInv
  <2>10. PendingInv'
    <3> SUFFICES ASSUME Errors, NEW j \in Later, NEW n \in topic'[j].pending
                 PROVE  n.version = syncflow.version /\ ex'[j][n.version].pc = "none"
      BY DEF PendingInv
    <3>1. /\ n \in topic[j].pending /\ n \in topic[j].sent /\ n \in Message
          /\ n.version = syncflow.version /\ ex[j][n.version].pc = "none" /\ n.version \in Versions
      BY <1>t DEF PendingInv, ChainInv, GoogleTypeOK, TopicOK, Message
    <3>2. j # k
      <4> SUFFICES ASSUME j = k PROVE FALSE
        OBVIOUS
      <4>1. n.prevVersion = syncflow.prevVersion /\ m.prevVersion = syncflow.prevVersion
        BY <1>t, <2>2, <3>1 DEF ChainInv, Current, Reached
      <4>2. n = m
        BY <2>2, <3>1, <4>1 DEF Message
      <4> QED
        BY <4>2
    <3> QED
      BY <2>5, <3>1, <3>2, Names
  <2> QED
    BY <1>1, <1>t, <2>2, <2>3, <2>5, <2>7, <2>8, <2>9, <2>10 DEF OrderInv
<1> QED
  BY <1>2, <1>3

\* A workflow moves from step to step under the current version; completing, it
\* may hand over.
LEMMA MoveKeepsOrder ==
  ASSUME OrderInv, TypeOK', NEW k \in Kinds, NEW v \in 1 .. MaxVersion,
         ex[k][v].pc \in Executing \ {"emitFailure"},
         NEW pc, Goto(k, v, pc),
         pc \in Steps[k] \cup {"completed"} \/ (Errors /\ k # "full" /\ pc = "giveUp"),
         syncflow'.version = syncflow.version, syncflow'.prevVersion = syncflow.prevVersion,
         UNCHANGED <<ctl, sent>>,
         \/ UNCHANGED topic
         \/ \E j \in Later : pc = "completed" /\ Before[j] = k /\ Publish(j, Run(k, v))
  PROVE  /\ v = syncflow.version /\ ex[k][v].prev = syncflow.prevVersion /\ OrderInv'
         /\ ex'[k][v].pc = pc
         /\ \A j \in Kinds, u \in Versions : j # k \/ u # v => ex'[j][u] = ex[j][u]
         /\ IF k = "proceed" THEN Now = ex[k][v].pc /\ Now' = pc ELSE Now' = Now
<1>t. /\ TypeOK /\ GoogleTypeOK /\ VersionsInv /\ MessagesInv /\ ChainInv /\ StepsInv /\ PendingInv
  BY TypeParts DEF OrderInv
<1>p. pc \in PC \ {"none", "emitFailure", "failed"}
  BY DEF Steps, PC, Executing, Kinds, Later
<1>1. v = syncflow.version /\ ex[k][v].prev = syncflow.prevVersion /\ v \in Versions
  BY <1>t, ExecutingNow
<1>2. /\ ex'[k][v].pc = pc /\ ex'[k][v].prev = ex[k][v].prev
      /\ \A j \in Kinds, u \in Versions : j # k \/ u # v => ex'[j][u] = ex[j][u]
  BY <1>t, <1>p, GotoTyped
<1>3. ex[k][v].pc \notin {"completed", "none"}
  BY DEF Executing
<1>4. VersionsInv'
  <2> SUFFICES ASSUME NEW j \in Kinds, NEW u \in Versions
               PROVE  /\ u > syncflow.version => ex'[j][u].pc = "none"
                      /\ u = syncflow.version => ex'[j][u].pc \notin {"emitFailure", "failed"}
                      /\ u < syncflow.version =>
                           \/ ex'[j][u].pc = "completed"
                           \/ Errors /\ j # "full" /\ ex'[j][u].pc \in {"none", "emitFailure", "failed"}
                      /\ ex'[j][u].pc # "none" => Reached(u, ex'[j][u].prev)
    BY <1>t DEF VersionsInv, Reached
  <2>1. CASE j = k /\ u = v
    <3>1. Reached(v, ex[k][v].prev)
      BY <1>t, <1>1, <1>3 DEF VersionsInv
    <3> QED
      BY <1>1, <1>2, <1>p, <2>1, <3>1, Numbers, <1>t
  <2>2. CASE j # k \/ u # v
    BY <1>t, <1>2, <2>2 DEF VersionsInv
  <2> QED
    BY <2>1, <2>2
<1>5. MessagesInv'
  BY <1>t DEF MessagesInv, Current, Reached
<1>r. Run(k, v).version = v /\ Run(k, v) \in Message /\ Current(Run(k, v))
  BY <1>t, <1>1, <1>3, RunTyped DEF Run, Current, VersionsInv
\* What is published is what the completed workflow hands over.
<1>6. ASSUME NEW j \in Later
      PROVE  /\ topic'[j].pending \subseteq topic'[j].sent
             /\ \A m \in topic'[j].sent :
                  m \in topic[j].sent \/ (pc = "completed" /\ Before[j] = k /\ m = Run(k, v))
             /\ \A m \in topic'[j].pending :
                  m \in topic[j].pending \/ (pc = "completed" /\ Before[j] = k /\ m = Run(k, v))
  <2>1. topic[j].pending \subseteq topic[j].sent
    BY <1>t DEF ChainInv
  <2>2. CASE UNCHANGED topic
    BY <2>1, <2>2
  <2>3. ASSUME NEW i \in Later, pc = "completed", Before[i] = k, Publish(i, Run(k, v))
        PROVE  /\ topic'[j].pending \subseteq topic'[j].sent
               /\ \A m \in topic'[j].sent :
                    m \in topic[j].sent \/ (pc = "completed" /\ Before[j] = k /\ m = Run(k, v))
               /\ \A m \in topic'[j].pending :
                    m \in topic[j].pending \/ (pc = "completed" /\ Before[j] = k /\ m = Run(k, v))
    <3>1. topic'[j] = IF j = i THEN [sent |-> topic[i].sent \cup {Run(k, v)},
                                     pending |-> topic[i].pending \cup {Run(k, v)}]
                      ELSE topic[j]
      BY <1>t, <2>3 DEF Publish, GoogleTypeOK
    <3>2. CASE j = i
      BY <2>1, <2>3, <3>1, <3>2
    <3>3. CASE j # i
      BY <2>1, <3>1, <3>3
    <3> QED
      BY <3>2, <3>3
  <2> QED
    BY <2>2, <2>3
<1>7. ChainInv'
  <2>1. ASSUME NEW j \in Later, NEW u \in Versions, ex'[j][u].pc # "none"
        PROVE  ex'[Before[j]][u].pc = "completed"
    <3>1. ex[j][u].pc # "none"
      BY <1>2, <1>3, <2>1, Names
    <3>2. ex[Before[j]][u].pc = "completed"
      BY <1>t, <3>1 DEF ChainInv
    <3> QED
      BY <1>2, <1>3, <3>2, Names
  <2>2. ASSUME NEW j \in Later, NEW m \in topic'[j].sent
        PROVE  Current(m)' /\ ex'[Before[j]][m.version].pc = "completed"
    <3>1. CASE m \in topic[j].sent
      <4>1. Current(m) /\ ex[Before[j]][m.version].pc = "completed" /\ m.version \in Versions
        BY <1>t, <3>1 DEF ChainInv, GoogleTypeOK, TopicOK, Message
      <4> QED
        BY <1>2, <1>3, <4>1, Names DEF Current, Reached
    <3>2. CASE pc = "completed" /\ Before[j] = k /\ m = Run(k, v)
      BY <1>2, <1>r, <3>2 DEF Current, Reached
    <3> QED
      BY <1>6, <2>2, <3>1, <3>2
  <2> QED
    BY <1>6, <2>1, <2>2 DEF ChainInv
<1>8. PendingInv'
  <2> SUFFICES ASSUME Errors, NEW j \in Later, NEW m \in topic'[j].pending
               PROVE  m.version = syncflow.version /\ ex'[j][m.version].pc = "none"
    BY DEF PendingInv
  <2>1. CASE m \in topic[j].pending
    <3>1. m.version = syncflow.version /\ ex[j][m.version].pc = "none"
      BY <1>t, <2>1 DEF PendingInv
    <3> QED
      BY <1>1, <1>2, <1>3, <3>1, Names
  <2>2. CASE pc = "completed" /\ Before[j] = k /\ m = Run(k, v)
    <3>1. ex[j][v].pc = "none"
      BY <1>t, <1>1, <1>3, <2>2 DEF ChainInv
    <3> QED
      BY <1>1, <1>2, <1>r, <2>2, <3>1, Names
  <2> QED
    BY <1>6, <2>1, <2>2
<1>9. StepsInv'
  BY <1>t, <1>1, <1>2 DEF StepsInv, Failing
<1>10. IF k = "proceed" THEN Now = ex[k][v].pc /\ Now' = pc ELSE Now' = Now
  BY <1>1, <1>2, Names DEF Now
<1> QED
  BY <1>1, <1>2, <1>4, <1>5, <1>7, <1>8, <1>9, <1>10, <1>t DEF OrderInv

\* Who executes after the first workflow has no message waiting for it, nor for
\* the other: where workflows fail none is left over.
LEMMA NothingWaits ==
  ASSUME OrderInv, Errors, NEW k \in Later, ex[k][syncflow.version].pc \notin {"none", "completed"},
         NEW j \in Later
  PROVE  topic[j].pending = {}
<1>t. TypeOK /\ ChainInv /\ PendingInv /\ syncflow.version \in Versions
  BY Numbers DEF OrderInv
<1> SUFFICES ASSUME NEW m \in topic[j].pending PROVE FALSE
  OBVIOUS
<1>1. m.version = syncflow.version /\ ex[j][syncflow.version].pc = "none"
  BY <1>t DEF PendingInv
<1>2. ex[Before[j]][syncflow.version].pc = "completed"
  BY <1>t, <1>1 DEF ChainInv
<1>3. ex[Before[k]][syncflow.version].pc = "completed"
  BY <1>t DEF ChainInv
<1> QED
  BY <1>1, <1>2, <1>3, Names

\* The last workflow ends the sync, or the handler of a later workflow gives the
\* version up.
LEMMA EndKeepsOrder ==
  ASSUME OrderInv, TypeOK', NEW k \in Later, NEW v \in 1 .. MaxVersion,
         ex[k][v].pc \in Executing \ {"emitFailure"}, UNCHANGED <<ctl, sent, topic>>,
         syncflow'.version = v + 1,
         NEW pc, Goto(k, v, pc),
         \/ k = "proceed" /\ pc = "completed" /\ syncflow'.prevVersion = v
         \/ Errors /\ pc = "emitFailure" /\ syncflow'.prevVersion = syncflow.prevVersion
  PROVE  /\ v = syncflow.version /\ ex[k][v].prev = syncflow.prevVersion /\ OrderInv'
         /\ ex["full"][v].pc = "completed"
         /\ \A j \in Kinds : ex'[j][v + 1].pc = "none"
<1>t. /\ TypeOK /\ GoogleTypeOK /\ VersionsInv /\ MessagesInv /\ ChainInv /\ StepsInv /\ PendingInv
  BY TypeParts DEF OrderInv
<1>k. k \in Kinds /\ k # "full"
  BY Names
<1>1. v = syncflow.version /\ ex[k][v].prev = syncflow.prevVersion /\ v \in Versions /\ v \in Nat
  BY <1>t, <1>k, ExecutingNow
<1>2. /\ ex'[k][v].pc = pc /\ ex'[k][v].prev = ex[k][v].prev
      /\ \A j \in Kinds, u \in Versions : j # k \/ u # v => ex'[j][u] = ex[j][u]
  BY <1>t, <1>k, GotoTyped DEF PC, Executing
<1>3. ex[k][v].pc \notin {"none", "completed"}
  BY DEF Executing
<1>4. ex["full"][v].pc = "completed" /\ (k = "proceed" => ex["download"][v].pc = "completed")
  <2>1. ex[Before[k]][v].pc = "completed"
    BY <1>t, <1>1, <1>3 DEF ChainInv
  <2>2. CASE k = "download"
    BY <2>1, <2>2, Names
  <2>3. CASE k = "proceed"
    <3>1. ex["download"][v].pc = "completed"
      BY <2>1, <2>3, Names
    <3> QED
      BY <1>t, <1>1, <3>1, Names DEF ChainInv
  <2> QED
    BY <2>2, <2>3, Names
<1>5. k = "download" => ex["proceed"][v].pc = "none"
  BY <1>t, <1>1, <1>3, Names DEF ChainInv
<1>n. /\ v + 1 \in Versions /\ v + 1 \in Nat /\ syncflow'.version = syncflow.version + 1
      /\ syncflow.prevVersion < v /\ syncflow.prevVersion \in Nat
  BY <1>t, <1>1, ControlAssumption, Numbers DEF Versions, VersionsInv
<1>6. VersionsInv'
  <2>1. syncflow'.prevVersion < syncflow'.version
    BY <1>1, <1>n
  <2>2. Errors \/ syncflow'.version = syncflow'.prevVersion + 1
    OBVIOUS
  <2>3. ASSUME NEW j \in Kinds, NEW u \in Versions
        PROVE  /\ u > v + 1 => ex'[j][u].pc = "none"
               /\ u = v + 1 => ex'[j][u].pc \notin {"emitFailure", "failed"}
               /\ u < v + 1 =>
                    \/ ex'[j][u].pc = "completed"
                    \/ Errors /\ j # "full" /\ ex'[j][u].pc \in {"none", "emitFailure", "failed"}
               /\ ex'[j][u].pc # "none" => Reached(u, ex[j][u].prev)'
    <3>u. u \in Nat
      BY DEF Versions
    <3>1. ex'[j][u].pc # "none" => Reached(u, ex[j][u].prev)'
      <4> SUFFICES ASSUME ex'[j][u].pc # "none" PROVE Reached(u, ex[j][u].prev)'
        OBVIOUS
      <4>1. ex[j][u].pc # "none" /\ ex'[j][u].prev = ex[j][u].prev
        BY <1>2, <1>3, <1>k
      <4>2. Reached(u, ex[j][u].prev)
        BY <1>t, <4>1 DEF VersionsInv
      <4>3. u <= syncflow.version /\ (Errors \/ u = ex'[j][u].prev + 1)
        BY <4>1, <4>2 DEF Reached
      <4>4. u <= syncflow'.version /\ u # syncflow'.version
        BY <3>u, <1>n, <1>1, <4>3
      <4> QED
        BY <4>3, <4>4 DEF Reached
    <3>2. CASE u = v
      <4>1. CASE j = k
        BY <1>2, <1>k, <1>n, <3>1, <3>2, <4>1
      <4>2. CASE j # k
        <5>1. ex'[j][u] = ex[j][u]
          BY <1>2, <4>2
        <5>2. ex[j][u].pc = "completed" \/ (k = "download" /\ j = "proceed" /\ ex[j][u].pc = "none")
          BY <1>4, <1>5, <3>2, <4>2, Names
        <5>3. k = "download" => Errors
          OBVIOUS
        <5> QED
          BY <1>n, <1>1, <3>1, <3>2, <5>1, <5>2, <5>3
      <4> QED
        BY <4>1, <4>2
    <3>3. CASE u # v
      <4>1. ex'[j][u] = ex[j][u]
        BY <1>2, <3>3
      <4>2. /\ u > v => ex[j][u].pc = "none"
            /\ u < v => \/ ex[j][u].pc = "completed"
                        \/ Errors /\ j # "full" /\ ex[j][u].pc \in {"none", "emitFailure", "failed"}
        BY <1>t, <1>1 DEF VersionsInv
      <4>3. u > v + 1 => u > v
        BY <3>u, <1>1
      <4>4. u = v + 1 => u > v
        BY <3>u, <1>1
      <4>5. u < v + 1 => u < v
        BY <3>u, <1>1, <3>3
      <4> QED
        BY <3>1, <4>1, <4>2, <4>3, <4>4, <4>5
    <3> QED
      BY <3>2, <3>3
  <2> QED
    BY <2>1, <2>2, <2>3 DEF VersionsInv
<1>7. MessagesInv'
  BY <1>t, <1>n, MessagesKept
<1>8. ChainInv'
  <2>1. ASSUME NEW j \in Later, NEW u \in Versions, ex'[j][u].pc # "none"
        PROVE  ex'[Before[j]][u].pc = "completed"
    <3>1. ex[j][u].pc # "none"
      BY <1>2, <1>3, <2>1, Names
    <3>2. ex[Before[j]][u].pc = "completed"
      BY <1>t, <3>1 DEF ChainInv
    <3> QED
      BY <1>2, <1>3, <3>2, Names
  <2>2. ASSUME NEW j \in Later, NEW m \in topic[j].sent
        PROVE  Current(m)' /\ ex'[Before[j]][m.version].pc = "completed"
    <3>1. Current(m) /\ ex[Before[j]][m.version].pc = "completed" /\ m.version \in Versions
      BY <1>t DEF ChainInv, GoogleTypeOK, TopicOK, Message
    <3>2. Current(m)'
      BY <1>t, <1>n, <3>1, ReachedKept DEF Current
    <3> QED
      BY <1>2, <1>3, <3>1, <3>2, Names
  <2> QED
    BY <1>t, <2>1, <2>2 DEF ChainInv
<1>9. PendingInv'
  <2> SUFFICES ASSUME Errors, NEW j \in Later PROVE topic[j].pending = {}
    BY DEF PendingInv
  <2> QED
    BY <1>1, <1>3, NothingWaits
<1>10. StepsInv'
  BY <1>t, <1>k, <1>1, <1>2 DEF StepsInv, Failing
<1>11. \A j \in Kinds : ex'[j][v + 1].pc = "none"
  BY <1>t, <1>1, <1>n, <1>2 DEF VersionsInv
<1> QED
  BY <1>1, <1>4, <1>6, <1>7, <1>8, <1>9, <1>10, <1>11, <1>t DEF OrderInv

\* The handler's last step, under a version that was given up.
LEMMA FailureKeepsOrder ==
  ASSUME OrderInv, TypeOK', NEW k \in Kinds, NEW v \in 1 .. MaxVersion, ex[k][v].pc = "emitFailure",
         Goto(k, v, "failed"), UNCHANGED <<syncflow, ctl, sent, topic>>
  PROVE  /\ v < syncflow.version /\ OrderInv'
         /\ \A j \in Kinds, u \in Versions : j # k \/ u # v => ex'[j][u] = ex[j][u]
<1>t. /\ TypeOK /\ GoogleTypeOK /\ VersionsInv /\ MessagesInv /\ ChainInv /\ StepsInv /\ PendingInv
  BY TypeParts DEF OrderInv
<1>v. v \in Versions /\ v \in Nat
  BY ControlAssumption DEF Versions
<1>1. v < syncflow.version
  BY <1>t, <1>v, Numbers DEF VersionsInv
<1>e. Errors /\ k # "full"
  BY <1>t, <1>v, <1>1 DEF VersionsInv
<1>2. /\ ex'[k][v].pc = "failed" /\ ex'[k][v].prev = ex[k][v].prev
      /\ \A j \in Kinds, u \in Versions : j # k \/ u # v => ex'[j][u] = ex[j][u]
  BY <1>t, GotoTyped DEF PC
<1>3. VersionsInv'
  <2> SUFFICES ASSUME NEW j \in Kinds, NEW u \in Versions
               PROVE  /\ u > syncflow.version => ex'[j][u].pc = "none"
                      /\ u = syncflow.version => ex'[j][u].pc \notin {"emitFailure", "failed"}
                      /\ u < syncflow.version =>
                           \/ ex'[j][u].pc = "completed"
                           \/ Errors /\ j # "full" /\ ex'[j][u].pc \in {"none", "emitFailure", "failed"}
                      /\ ex'[j][u].pc # "none" => Reached(u, ex'[j][u].prev)
    BY <1>t DEF VersionsInv, Reached
  <2>1. CASE j = k /\ u = v
    <3>1. Reached(v, ex[k][v].prev)
      BY <1>t, <1>v DEF VersionsInv
    <3>2. ~(v > syncflow.version) /\ v # syncflow.version
      BY <1>1, <1>v, <1>t, Numbers
    <3> QED
      BY <1>2, <1>e, <2>1, <3>1, <3>2
  <2>2. CASE j # k \/ u # v
    BY <1>t, <1>2, <2>2 DEF VersionsInv
  <2> QED
    BY <2>1, <2>2
<1>4. MessagesInv'
  BY <1>t DEF MessagesInv, Current, Reached
<1>5. ChainInv'
  <2>1. ASSUME NEW j \in Later, NEW u \in Versions, ex'[j][u].pc # "none"
        PROVE  ex'[Before[j]][u].pc = "completed"
    <3>1. ex[Before[j]][u].pc = "completed"
      BY <1>t, <1>2, <2>1, Names DEF ChainInv
    <3> QED
      BY <1>2, <3>1, Names
  <2>2. ASSUME NEW j \in Later, NEW m \in topic[j].sent
        PROVE  Current(m)' /\ ex'[Before[j]][m.version].pc = "completed"
    <3>1. Current(m) /\ ex[Before[j]][m.version].pc = "completed" /\ m.version \in Versions
      BY <1>t DEF ChainInv, GoogleTypeOK, TopicOK, Message
    <3> QED
      BY <1>2, <3>1, Names DEF Current, Reached
  <2> QED
    BY <1>t, <2>1, <2>2 DEF ChainInv
<1>6. PendingInv'
  BY <1>t, <1>1, <1>2, <1>v, Numbers, Names DEF PendingInv
<1>7. StepsInv'
  BY <1>t, <1>e, <1>2 DEF StepsInv, Failing
<1> QED
  BY <1>1, <1>2, <1>3, <1>4, <1>5, <1>6, <1>7, <1>t DEF OrderInv

-----------------------------------------------------------------------------
(* What a step does, in the terms of the two invariants and of the         *)
(* abstract syncflow: whether the current version is Underway, where the   *)
(* last workflow is, and the values that the loads depend on.              *)

SameSync == syncflow'.version = syncflow.version /\ syncflow'.prevVersion = syncflow.prevVersion

\* Nothing that matters, or the last workflow moves on or fails.
Stays ==
  /\ SameSync /\ Underway' = Underway /\ UNCHANGED <<table, marks>> /\ abandoned' \subseteq abandoned
  /\ \/ Now' = Now
     \/ Now = "none" /\ Now' = "ingest"
     \/ Now = "ingest" /\ Now' = "compare"
     \/ Now = "compare" /\ Now' = "load"
     \/ Errors /\ Now \in {"ingest", "compare", "load"} /\ Now' = "giveUp"

Begins ==
  /\ SameSync /\ UNCHANGED <<table, marks, abandoned>>
  /\ ~Underway /\ Underway' /\ Now = "none" /\ Now' = "none"

\* The load, by the workflow or by an attempt it no longer waits for.
Loads ==
  /\ SameSync /\ Underway /\ Underway' /\ abandoned' \subseteq abandoned
  /\ Apply([version |-> syncflow.version, prevVersion |-> syncflow.prevVersion])
  /\ \/ Now = "load" /\ Now' = "announce"
     \/ Abandoned /\ Now \in {"load", "announce", "advance"} /\ Now' = Now

Announces ==
  /\ SameSync /\ UNCHANGED <<table, marks, abandoned>>
  /\ Underway /\ Underway' /\ Now = "announce" /\ Now' = "advance"

Ends ==
  /\ syncflow'.version = syncflow.version + 1 /\ UNCHANGED <<table, marks, abandoned>>
  /\ Underway /\ ~Underway' /\ Now' = "none"
  /\ \/ Now = "advance" /\ syncflow'.prevVersion = syncflow.version
     \/ Errors /\ Now \in {"none", "giveUp"} /\ syncflow'.prevVersion = syncflow.prevVersion

\* Later workflows only execute in a sync that has begun.
LEMMA UnderwayWith ==
  ASSUME OrderInv, NEW k \in Later, ex[k][syncflow.version].pc # "none"
  PROVE  Underway
<1>1. ChainInv /\ syncflow.version \in Versions
  BY Numbers DEF OrderInv
<1>2. ex[Before[k]][syncflow.version].pc = "completed"
  BY <1>1 DEF ChainInv
<1>3. CASE k = "download"
  BY <1>2, <1>3, Names DEF Underway
<1>4. CASE k = "proceed"
  <2>1. ex["download"][syncflow.version].pc = "completed"
    BY <1>2, <1>4, Names
  <2> QED
    BY <1>1, <2>1, Names DEF ChainInv, Underway
<1> QED
  BY <1>3, <1>4, Names

\* The first workflow's step before the others exist.
LEMMA AloneAtFirst ==
  ASSUME OrderInv, ex["full"][syncflow.version].pc # "completed"
  PROVE  Now = "none"
<1>1. ChainInv /\ syncflow.version \in Versions
  BY Numbers DEF OrderInv
<1>2. ex["download"][syncflow.version].pc = "none"
  BY <1>1, Names DEF ChainInv
<1> QED
  BY <1>1, <1>2, Names DEF ChainInv, Now

\* A move of a later workflow leaves the sync begun.
LEMMA MoveIsUnderway ==
  ASSUME OrderInv, NEW k \in Later, NEW v \in Versions, v = syncflow.version, SameSync,
         ex[k][v].pc # "none",
         \A j \in Kinds, u \in Versions : j # k \/ u # v => ex'[j][u] = ex[j][u]
  PROVE  Underway /\ Underway'
<1>1. Underway
  BY UnderwayWith
<1>2. ex'["full"][v] = ex["full"][v]
  BY Names
<1> QED
  BY <1>1, <1>2 DEF Underway, SameSync

\* Each step of a workflow keeps the order and does one of these.
LEMMA WorkflowDoes ==
  ASSUME OrderInv, TypeOK', NEW k \in Kinds, NEW v \in 1 .. MaxVersion, Workflow(k, v)
  PROVE  OrderInv' /\ (Stays \/ Begins \/ Loads \/ Announces \/ Ends)
<1> USE DEF workerFrame, postVars, loaderVars
<1>t. TypeOK /\ GoogleTypeOK /\ StepsInv /\ VersionsInv
  BY TypeParts DEF OrderInv
<1>n. v \in Versions
  BY ControlAssumption DEF Versions
<1>1. CASE k = "full" /\ Check(v)
  <2>1. SameSync
    BY <1>1, <1>t DEF Check, TypeOK, ControlTypeOK, SyncflowState, SameSync
  <2>2. /\ ex[k][v].pc = "check" /\ Goto(k, v, "handover")
        /\ UNCHANGED <<ctl, sent, topic, table, marks, abandoned>>
    BY <1>1 DEF Check, At
  <2>3. /\ OrderInv' /\ v = syncflow.version /\ Now' = Now /\ ex'[k][v].pc = "handover"
    BY <1>1, <2>1, <2>2, MoveKeepsOrder, Names DEF Steps, Executing, SameSync
  <2>4. Now = "none"
    BY <1>1, <2>2, <2>3, AloneAtFirst
  <2>5. ~Underway /\ Underway'
    BY <1>1, <2>1, <2>2, <2>3 DEF Underway, SameSync
  <2> QED
    BY <2>1, <2>2, <2>3, <2>4, <2>5 DEF Begins
<1>2. CASE k = "download" /\ Download(v)
  <2>1. /\ ex[k][v].pc = "download" /\ Goto(k, v, "handover") /\ SameSync
        /\ UNCHANGED <<ctl, sent, topic, table, marks, abandoned>>
    BY <1>2 DEF Download, At, SameSync
  <2>2. /\ OrderInv' /\ v = syncflow.version /\ Now' = Now
        /\ \A j \in Kinds, u \in Versions : j # k \/ u # v => ex'[j][u] = ex[j][u]
    BY <1>2, <2>1, MoveKeepsOrder, Names DEF Steps, Executing, SameSync
  <2>3. Underway /\ Underway'
    BY <1>2, <1>n, <2>1, <2>2, MoveIsUnderway, Names
  <2> QED
    BY <2>1, <2>2, <2>3 DEF Stays
<1>3. CASE HandOver(k, v)
  <2> DEFINE j == IF k = "full" THEN "download" ELSE "proceed"
  <2>1. /\ ex[k][v].pc = "handover" /\ Goto(k, v, "completed") /\ SameSync
        /\ UNCHANGED <<syncflow, ctl, sent, table, marks, abandoned>>
        /\ Publish(j, Run(k, v)) /\ k # "proceed"
    BY <1>3 DEF HandOver, At, SameSync
  <2>2. j \in Later /\ Before[j] = k
    BY <2>1, Names
  <2> HIDE DEF j
  <2>3. /\ OrderInv' /\ v = syncflow.version /\ Now' = Now /\ ex'[k][v].pc = "completed"
        /\ \A i \in Kinds, u \in Versions : i # k \/ u # v => ex'[i][u] = ex[i][u]
    BY <2>1, <2>2, MoveKeepsOrder DEF Executing, SameSync
  <2>4. Underway' = Underway
    <3>1. CASE k = "full"
      BY <2>1, <2>3, <3>1 DEF Underway, SameSync
    <3>2. CASE k # "full"
      <4>1. k \in Later /\ ex[k][v].pc # "none"
        BY <2>1, <3>2, Names
      <4>2. Underway /\ Underway'
        BY <1>n, <2>1, <2>3, <4>1, MoveIsUnderway
      <4> QED
        BY <4>2
    <3> QED
      BY <3>1, <3>2
  <2> QED
    BY <2>1, <2>3, <2>4 DEF Stays
\* A step of the last workflow under the current version.
<1>p. ASSUME k = "proceed", ex[k][v].pc \in Executing \ {"emitFailure"},
             NEW pc \in Steps["proceed"], Goto(k, v, pc), SameSync, UNCHANGED <<ctl, sent, topic>>
      PROVE  /\ OrderInv' /\ v = syncflow.version /\ ex[k][v].prev = syncflow.prevVersion
             /\ Now = ex[k][v].pc /\ Now' = pc /\ Underway /\ Underway'
  <2>1. /\ OrderInv' /\ v = syncflow.version /\ ex[k][v].prev = syncflow.prevVersion
        /\ Now = ex[k][v].pc /\ Now' = pc
        /\ \A i \in Kinds, u \in Versions : i # k \/ u # v => ex'[i][u] = ex[i][u]
    BY <1>p, MoveKeepsOrder DEF SameSync
  <2>2. ex[k][v].pc # "none"
    BY <1>p DEF Executing
  <2> QED
    BY <1>n, <1>p, <2>1, <2>2, MoveIsUnderway, Names
<1>4. CASE k = "proceed" /\ Ingest(v)
  <2>1. /\ ex[k][v].pc = "ingest" /\ Goto(k, v, "compare") /\ SameSync
        /\ UNCHANGED <<ctl, sent, topic, table, marks, abandoned>>
    BY <1>4 DEF Ingest, At, SameSync
  <2>2. OrderInv' /\ Now = "ingest" /\ Now' = "compare" /\ Underway /\ Underway'
    BY <1>4, <1>p, <2>1 DEF Steps, Executing
  <2> QED
    BY <2>1, <2>2 DEF Stays
<1>5. CASE k = "proceed" /\ Compare(v)
  <2>1. /\ ex[k][v].pc = "compare" /\ Goto(k, v, "load") /\ SameSync
        /\ UNCHANGED <<ctl, sent, topic, table, marks, abandoned>>
    BY <1>5 DEF Compare, At, SameSync
  <2>2. OrderInv' /\ Now = "compare" /\ Now' = "load" /\ Underway /\ Underway'
    BY <1>5, <1>p, <2>1 DEF Steps, Executing
  <2> QED
    BY <2>1, <2>2 DEF Stays
<1>6. CASE k = "proceed" /\ LoadGoogleSheets(v)
  <2>1. /\ ex[k][v].pc = "load" /\ Goto(k, v, "announce") /\ SameSync /\ Apply(Run(k, v))
        /\ UNCHANGED <<ctl, sent, topic, abandoned>>
    BY <1>6 DEF LoadGoogleSheets, At, SameSync
  <2>2. /\ OrderInv' /\ v = syncflow.version /\ ex[k][v].prev = syncflow.prevVersion
        /\ Now = "load" /\ Now' = "announce" /\ Underway /\ Underway'
    BY <1>6, <1>p, <2>1 DEF Steps, Executing
  <2> QED
    BY <2>1, <2>2 DEF Loads, Run
<1>7. CASE k = "proceed" /\ Announce(v)
  <2>1. /\ ex[k][v].pc = "announce" /\ Goto(k, v, "advance") /\ SameSync
        /\ UNCHANGED <<ctl, sent, topic, table, marks, abandoned>>
    BY <1>7 DEF Announce, At, SameSync
  <2> QED
    BY <1>7, <1>p, <2>1 DEF Steps, Executing, Announces
<1>8. CASE k = "proceed" /\ Advance(v)
  <2>1. /\ ex[k][v].pc = "advance" /\ Goto(k, v, "completed")
        /\ syncflow'.version = v + 1 /\ syncflow'.prevVersion = v
        /\ UNCHANGED <<ctl, sent, topic, table, marks, abandoned>>
    BY <1>8 DEF Advance, At
  <2>2. /\ v = syncflow.version /\ OrderInv' /\ ex["full"][v].pc = "completed"
        /\ \A j \in Kinds : ex'[j][v + 1].pc = "none"
    BY <1>8, <2>1, EndKeepsOrder, Names DEF Executing
  <2> QED
    BY <1>8, <2>1, <2>2, Names DEF Ends, Underway, Now
<1>9. CASE Fail(k, v)
  <2>1. /\ Errors /\ Goto(k, v, "giveUp") /\ SameSync
        /\ UNCHANGED <<ctl, sent, topic, table, marks, abandoned>>
        /\ ex[k][v].pc \in {"download", "ingest", "compare", "load"}
    BY <1>9, FailingSteps DEF Fail, At, SameSync
  <2>2. k # "full" /\ k \in Later
    BY <1>t, <1>n, <2>1, Names DEF StepsInv, Steps
  <2>3. k = "proceed" => ex[k][v].pc \in {"ingest", "compare", "load"}
    BY <1>t, <1>n, <2>1 DEF StepsInv, Steps, Failing
  <2>4. /\ OrderInv' /\ v = syncflow.version
        /\ \A i \in Kinds, u \in Versions : i # k \/ u # v => ex'[i][u] = ex[i][u]
        /\ IF k = "proceed" THEN Now = ex[k][v].pc /\ Now' = "giveUp" ELSE Now' = Now
    BY <2>1, <2>2, MoveKeepsOrder DEF Executing, SameSync
  <2>5. Underway /\ Underway'
    BY <1>n, <2>1, <2>2, <2>4, MoveIsUnderway
  <2> QED
    BY <2>1, <2>3, <2>4, <2>5 DEF Stays
<1>10. CASE GiveUp(k, v)
  <2>1. /\ ex[k][v].pc = "giveUp" /\ Goto(k, v, "emitFailure")
        /\ UNCHANGED <<ctl, sent, topic, table, marks, abandoned>>
        /\ syncflow'.version = v + 1 /\ syncflow'.prevVersion = syncflow.prevVersion
    BY <1>10, <1>t DEF GiveUp, At, TypeOK, ControlTypeOK, SyncflowState
  <2>2. Errors /\ k \in Later
    BY <1>t, <1>n, <2>1, Names DEF StepsInv, Steps
  <2>3. /\ v = syncflow.version /\ OrderInv' /\ ex["full"][v].pc = "completed"
        /\ \A j \in Kinds : ex'[j][v + 1].pc = "none"
    BY <2>1, <2>2, EndKeepsOrder DEF Executing
  <2>4. Now \in {"none", "giveUp"}
    <3>1. CASE k = "proceed"
      BY <2>1, <2>3, <3>1 DEF Now
    <3>2. CASE k = "download"
      BY <1>n, <2>1, <2>3, <3>2, Names DEF OrderInv, ChainInv, Now
    <3> QED
      BY <2>2, <3>1, <3>2, Names
  <2> QED
    BY <2>1, <2>2, <2>3, <2>4, Names DEF Ends, Underway, Now
<1>11. CASE EmitFailure(k, v)
  <2>1. /\ ex[k][v].pc = "emitFailure" /\ Goto(k, v, "failed")
        /\ UNCHANGED <<syncflow, ctl, sent, topic, table, marks, abandoned>>
    BY <1>11 DEF EmitFailure, At
  <2>2. /\ v < syncflow.version /\ OrderInv'
        /\ \A j \in Kinds, u \in Versions : j # k \/ u # v => ex'[j][u] = ex[j][u]
    BY <2>1, FailureKeepsOrder
  <2>3. v # syncflow.version /\ syncflow.version \in Versions
    BY <1>t, <1>n, <2>2, Numbers DEF Versions
  <2>4. \A j \in Kinds : ex'[j][syncflow.version] = ex[j][syncflow.version]
    BY <2>2, <2>3
  <2> QED
    BY <2>1, <2>2, <2>4, Names DEF Stays, SameSync, Underway, Now
<1> QED
  BY <1>1, <1>2, <1>3, <1>4, <1>5, <1>6, <1>7, <1>8, <1>9, <1>10, <1>11 DEF Workflow

\* A step by which a workflow starts, likewise.
LEMMA StartDoes ==
  ASSUME OrderInv, TypeOK', NEW k \in Kinds, NEW m \in Message, Current(m), Start(k, m),
         k \in Later => /\ ex[Before[k]][m.version].pc = "completed"
                        /\ Errors => m \in topic[k].pending /\ m \notin topic'[k].pending,
         UNCHANGED <<syncflow, ctl, sent, table, marks, abandoned>>,
         \A j \in Later : topic'[j].sent = topic[j].sent /\ topic'[j].pending \subseteq topic[j].pending
  PROVE  OrderInv' /\ Stays
<1>1. /\ OrderInv'
      /\ \/ UNCHANGED ex
         \/ /\ m.version = syncflow.version /\ ex[k][m.version].pc = "none"
            /\ ex'[k][m.version].pc = FirstStep[k]
            /\ \A j \in Kinds, u \in Versions : j # k \/ u # m.version => ex'[j][u] = ex[j][u]
  BY StartKeepsOrder
<1>2. CASE UNCHANGED ex
  BY <1>1, <1>2 DEF Stays, SameSync, Underway, Now
<1>3. CASE /\ m.version = syncflow.version /\ ex[k][m.version].pc = "none"
           /\ ex'[k][m.version].pc = FirstStep[k]
           /\ \A j \in Kinds, u \in Versions : j # k \/ u # m.version => ex'[j][u] = ex[j][u]
  <2>v. syncflow.version \in Versions
    BY Numbers DEF OrderInv
  <2>1. Underway' = Underway
    <3>1. CASE k = "full"
      BY <1>3, <3>1 DEF Underway, FirstStep
    <3>2. CASE k # "full"
      <4>1. ex'["full"][syncflow.version] = ex["full"][syncflow.version]
        BY <1>3, <2>v, <3>2, Names
      <4> QED
        BY <4>1 DEF Underway
    <3> QED
      BY <3>1, <3>2
  <2>2. Now' = Now \/ (Now = "none" /\ Now' = "ingest")
    <3>1. CASE k = "proceed"
      BY <1>3, <3>1 DEF Now, FirstStep
    <3>2. CASE k # "proceed"
      BY <1>3, <2>v, <3>2, Names DEF Now
    <3> QED
      BY <3>1, <3>2
  <2> QED
    BY <1>1, <2>1, <2>2 DEF Stays, SameSync
<1> QED
  BY <1>1, <1>2, <1>3

\* A retried load leaves an attempt behind; one that was left behind commits.
Retries ==
  /\ SameSync /\ UNCHANGED <<ex, table, marks>> /\ Abandoned /\ Now = "load"
  /\ abandoned' = abandoned \cup {[version |-> syncflow.version, prevVersion |-> syncflow.prevVersion]}

Commits ==
  /\ SameSync /\ UNCHANGED ex
  /\ \E m \in abandoned : table <= m.version /\ Apply(m) /\ abandoned' = abandoned \ {m}

LEMMA NextDoes ==
  ASSUME OrderInv, [Next]_vars
  PROVE  OrderInv' /\ (Stays \/ Begins \/ Loads \/ Announces \/ Ends \/ Retries \/ Commits)
<1> USE DEF controlVars, postVars, loaderVars, googleVars
<1>t. /\ TypeOK /\ ControlTypeOK /\ GoogleTypeOK /\ TypeOK' /\ MessagesInv /\ ChainInv
      /\ VersionsInv /\ ~(Errors /\ Redelivery)
  BY NextTyped, TypeParts DEF OrderInv
\* A step that touches no message and no workflow, and of the syncflow at most its status.
<1>q. ASSUME UNCHANGED <<ctl, sent, ex, topic>>, SameSync PROVE OrderInv'
  <2>1. MessagesInv'
    BY <1>q, <1>t DEF MessagesInv, Current, Reached, SameSync
  <2> QED
    BY <1>q, <1>t, <2>1, QuietStep DEF ChainInv, SameSync
<1>s. ASSUME UNCHANGED <<ex, table, marks, abandoned>>, SameSync PROVE Stays
  BY <1>s DEF Stays, Underway, Now, SameSync
<1>1. ASSUME NEW c \in Controllers, Controller(c) \/ ControllerCrash(c) PROVE OrderInv' /\ Stays
  <2>1. SameSync
    BY <1>1, <1>t, ParkedTyped DEF Controller, ControllerCrash, SameSync
  <2>2. UNCHANGED <<ex, table, marks, abandoned>>
    BY <1>1 DEF Controller, ControllerCrash
  <2> QED
    BY <1>1, <1>s, <1>t, <2>1, <2>2, ControllerKeepsOrder
<1>2. ASSUME NEW m \in sent, StartFull(m) PROVE OrderInv' /\ Stays
  <2>1. m \in Message /\ Current(m) /\ "full" \in Kinds /\ "full" \notin Later
    BY <1>t DEF ControlTypeOK, MessagesInv, Kinds, Later
  <2> QED
    BY <1>2, <1>t, <2>1, StartDoes DEF StartFull, Consume
<1>3. ASSUME NEW k \in Later, NEW m \in topic[k].sent, StartLater(k, m) PROVE OrderInv' /\ Stays
  <2>1. m \in Message /\ k \in Kinds /\ Current(m) /\ ex[Before[k]][m.version].pc = "completed"
    BY <1>t, Names DEF GoogleTypeOK, TopicOK, ChainInv
  <2>2. PICK t \in Delivered(topic[k], m) : topic' = [topic EXCEPT ![k] = t]
    BY <1>3 DEF StartLater
  <2>3. /\ t.sent = topic[k].sent /\ t.pending \subseteq topic[k].pending
        /\ Errors => m \in topic[k].pending /\ m \notin t.pending
    BY <1>t DEF Delivered, GoogleTypeOK, TopicOK
  <2>4. topic'[k] = t /\ \A j \in Later \ {k} : topic'[j] = topic[j]
    BY <1>t, <2>2 DEF GoogleTypeOK
  <2>5. \A j \in Later : topic'[j].sent = topic[j].sent /\ topic'[j].pending \subseteq topic[j].pending
    BY <2>3, <2>4
  <2>6. Errors => m \in topic[k].pending /\ m \notin topic'[k].pending
    BY <2>3, <2>4
  <2> QED
    BY <1>3, <1>t, <2>1, <2>5, <2>6, StartDoes DEF StartLater
<1>4. ASSUME NEW k \in Kinds, NEW v \in 1 .. MaxVersion, Workflow(k, v)
      PROVE  OrderInv' /\ (Stays \/ Begins \/ Loads \/ Announces \/ Ends)
  BY <1>4, <1>t, WorkflowDoes
<1>5. ASSUME NEW v \in 1 .. MaxVersion, RetryLoad(v) PROVE OrderInv' /\ Retries
  <2>1. /\ UNCHANGED <<syncflow, sent, ctl, ex, topic, table, marks>> /\ Abandoned
        /\ abandoned' = abandoned \cup {Run("proceed", v)} /\ ex["proceed"][v].pc = "load"
    BY <1>5 DEF RetryLoad, Abandon, workerFrame, At
  <2>2. v = syncflow.version /\ ex["proceed"][v].prev = syncflow.prevVersion /\ Now = "load"
    BY <1>t, <2>1, ExecutingNow, Names DEF Executing, Now
  <2> QED
    BY <1>q, <2>1, <2>2 DEF Retries, Run, SameSync
<1>6. ASSUME NEW m \in abandoned, LateLoad(m) PROVE OrderInv' /\ Commits
  BY <1>6, <1>q DEF LateLoad, AbandonedEnds, Commits, SameSync
<1>7. ASSUME NEW p \in PostProcessors, PostSucceed(p) PROVE OrderInv' /\ Stays
  BY <1>7, <1>q, <1>s DEF PostSucceed, SameSync
<1>8. ASSUME NEW v \in failed, PostFailed(v) PROVE OrderInv' /\ Stays
  BY <1>8, <1>q, <1>s DEF PostFailed, StopSyncConnection, updateConnectionState, SameSync
<1>9. ASSUME NEW status \in SyncConnectionStatus, UserSetsConnection(status) PROVE OrderInv' /\ Stays
  BY <1>9, <1>q, <1>s DEF UserSetsConnection, SetConnection, updateConnectionState, SameSync
<1>10. CASE UNCHANGED vars
  BY <1>10, <1>q, <1>s DEF vars, SameSync
<1> QED
  BY <1>1, <1>2, <1>3, <1>4, <1>5, <1>6, <1>7, <1>8, <1>9, <1>10 DEF Next

LEMMA OrderInvariance == ~(Errors /\ Redelivery) /\ Spec => []OrderInv
<1>1. OrderInv /\ [Next]_vars => OrderInv'
  BY NextDoes
<1> QED
  BY <1>1, InitOrder, PTL DEF Spec

\* At most one version is on its way to the table, whichever controllers race or
\* die and whatever loads are given up: with every processor's errors if no
\* message comes twice, and with any redelivery on the three topics if no
\* processor reports an error.
THEOREM OneSyncAlways == ~(Errors /\ Redelivery) /\ Spec => []OneSync
<1>1. ASSUME OrderInv PROVE OneSync
  BY <1>1, ExecutingNow, Names DEF OrderInv, OneSync
<1> QED
  BY <1>1, OrderInvariance, PTL

-----------------------------------------------------------------------------
(* The loads. An attempt nobody waits for may commit although its retry    *)
(* reports an error, and the version that follows starts from the wrong    *)
(* base (see the README): errors and abandoned attempts are not combined.  *)

\* The table holds the previous version, or already the current one if its load
\* was asked for; it is the one marked version.
LoadInv ==
  /\ table \in {syncflow.prevVersion, syncflow.version}
  /\ Now \in {"none", "ingest", "compare", "giveUp"} => table = syncflow.prevVersion
  /\ Now = "load" /\ ~Abandoned => table = syncflow.prevVersion
  /\ Now \in {"announce", "advance"} => table = syncflow.version
  /\ marks = {table} \ {0}

\* An abandoned attempt is one of a load asked for.
AbandonedInv ==
  /\ abandoned # {} => Abandoned
  /\ \A a \in abandoned :
       /\ Current(a)
       /\ a.version = syncflow.version => Now \in {"load", "announce", "advance"}

IInv == ~(Errors /\ Abandoned) /\ OrderInv /\ LoadInv /\ AbandonedInv

LEMMA InitInv == ~(Errors /\ Redelivery) /\ ~(Errors /\ Abandoned) /\ Init => IInv
<1> SUFFICES ASSUME ~(Errors /\ Redelivery), ~(Errors /\ Abandoned), Init PROVE IInv
  OBVIOUS
<1>1. syncflow.version = 1 /\ syncflow.prevVersion = 0 /\ 1 \in Versions
  BY ControlAssumption DEF Init, ControlInit, Versions
<1>2. Now = "none"
  BY <1>1, Names DEF Init, Now
<1>3. LoadInv /\ AbandonedInv
  BY <1>1, <1>2 DEF Init, LoaderInit, LoadInv, AbandonedInv
<1> QED
  BY <1>3, InitOrder DEF IInv

\* An attempt that commits loads the current version on its base, or nothing.
LEMMA CommitIsLoad ==
  ASSUME IInv, Commits
  PROVE  Stays \/ Loads
<1>t. /\ TypeOK /\ VersionsInv /\ LoadInv /\ AbandonedInv /\ OrderInv
      /\ syncflow.version \in Versions
  BY Numbers DEF IInv, OrderInv
<1>1. PICK m \in abandoned : table <= m.version /\ Apply(m) /\ abandoned' = abandoned \ {m}
  BY DEF Commits
<1>2. /\ SameSync /\ Now' = Now /\ Underway' = Underway /\ abandoned' \subseteq abandoned /\ Abandoned
      /\ ~Errors
  BY <1>1, <1>t DEF Commits, SameSync, Now, Underway, AbandonedInv, IInv
<1>3. m.version \in 1 .. MaxVersion /\ m.prevVersion \in 0 .. MaxVersion /\ Current(m)
  BY <1>t DEF TypeOK, Runnable, AbandonedInv
<1>4. CASE UNCHANGED <<table, marks>>
  BY <1>2, <1>4 DEF Stays
<1>5. CASE m.version \notin marks
  <2>1. m.version # table
    BY <1>t, <1>3, <1>5 DEF LoadInv
  <2>2. syncflow.version = syncflow.prevVersion + 1
    BY <1>t, <1>2 DEF VersionsInv
  <2>3. m.version <= syncflow.version
    BY <1>3 DEF Current, Reached
  <2>4. m.version = syncflow.version
    BY <1>t, <1>1, <1>3, <2>1, <2>2, <2>3, Numbers DEF LoadInv
  <2>5. m.prevVersion = syncflow.prevVersion
    BY <1>3, <2>4 DEF Current, Reached
  <2>6. Apply([version |-> syncflow.version, prevVersion |-> syncflow.prevVersion])
    BY <1>1, <2>4, <2>5 DEF Apply
  <2>7. Now \in {"load", "announce", "advance"}
    BY <1>t, <2>4 DEF AbandonedInv
  <2>8. Underway
    BY <1>t, <2>7, UnderwayWith, Names DEF Now
  <2> QED
    BY <1>2, <2>6, <2>7, <2>8 DEF Loads
<1> QED
  BY <1>1, <1>4, <1>5 DEF Apply

\* The load leaves the current version in the table, whether it was there or not.
LEMMA LoadEffect ==
  ASSUME IInv, Apply([version |-> syncflow.version, prevVersion |-> syncflow.prevVersion])
  PROVE  /\ table' = syncflow.version /\ marks' = {syncflow.version}
         /\ table = syncflow.version => UNCHANGED table
<1>t. TypeOK /\ VersionsInv /\ LoadInv
  BY DEF IInv, OrderInv
<1>n. /\ syncflow.version \in Nat /\ syncflow.prevVersion \in Nat /\ syncflow.version # 0
      /\ syncflow.version # syncflow.prevVersion
  BY <1>t, Numbers DEF VersionsInv
<1>1. CASE syncflow.version \in marks
  BY <1>t, <1>n, <1>1 DEF Apply, LoadInv
<1>2. CASE syncflow.version \notin marks
  <2>1. table = syncflow.prevVersion
    BY <1>t, <1>n, <1>2 DEF LoadInv
  <2> QED
    BY <1>t, <1>n, <1>2, <2>1 DEF Apply, LoadInv
<1> QED
  BY <1>1, <1>2

LEMMA NextInv == IInv /\ [Next]_vars => IInv'
<1> SUFFICES ASSUME IInv, [Next]_vars PROVE IInv'
  OBVIOUS
<1>t. /\ OrderInv /\ TypeOK /\ VersionsInv /\ LoadInv /\ AbandonedInv /\ ~(Errors /\ Abandoned)
      /\ abandoned \subseteq Runnable
  BY DEF IInv, OrderInv, TypeOK
<1>o. OrderInv' /\ (Stays \/ Begins \/ Loads \/ Announces \/ Ends \/ Retries \/ Commits)
  BY <1>t, NextDoes
<1>a. \A a \in abandoned : a.version \in Versions /\ Current(a)
  BY <1>t, ControlAssumption DEF Runnable, Versions, AbandonedInv
\* Attempts stay those of a load asked for while the last workflow does not go back.
<1>k. ASSUME SameSync, abandoned' \subseteq abandoned,
             Now \in {"load", "announce", "advance"} => Now' \in {"load", "announce", "advance"} \/ Errors
      PROVE  AbandonedInv'
  <2>1. \A a \in abandoned' : Abandoned /\ ~Errors
    BY <1>k, <1>t DEF AbandonedInv
  <2> QED
    BY <1>k, <1>t, <2>1 DEF AbandonedInv, Current, Reached, SameSync
<1>1. CASE Stays
  <2>1. LoadInv'
    <3>1. UNCHANGED <<table, marks>> /\ SameSync
      BY <1>1 DEF Stays
    <3>2. CASE Now' = Now
      BY <1>t, <3>1, <3>2 DEF LoadInv, SameSync
    <3>3. CASE \/ Now = "none" /\ Now' = "ingest"
               \/ Now = "ingest" /\ Now' = "compare"
               \/ Now = "compare" /\ Now' = "load"
      BY <1>t, <3>1, <3>3 DEF LoadInv, SameSync
    <3>4. CASE Errors /\ Now \in {"ingest", "compare", "load"} /\ Now' = "giveUp"
      <4>1. table = syncflow.prevVersion
        BY <1>t, <3>4 DEF LoadInv
      <4> QED
        BY <1>t, <3>1, <3>4, <4>1 DEF LoadInv, SameSync
    <3> QED
      BY <1>1, <3>2, <3>3, <3>4 DEF Stays
  <2>2. AbandonedInv'
    BY <1>1, <1>k DEF Stays
  <2> QED
    BY <1>o, <1>t, <2>1, <2>2 DEF IInv
<1>2. CASE Begins
  <2>1. LoadInv' /\ AbandonedInv'
    BY <1>2, <1>k, <1>t DEF Begins, LoadInv, SameSync
  <2> QED
    BY <1>o, <1>t, <2>1 DEF IInv
<1>3. ASSUME Loads PROVE IInv'
  <2>1. SameSync /\ table' = syncflow.version /\ marks' = {syncflow.version}
    BY <1>3, LoadEffect DEF Loads
  <2>2. /\ Now' \in {"announce", "advance"} \/ (Abandoned /\ Now' = "load")
        /\ abandoned' \subseteq abandoned
    BY <1>3 DEF Loads
  <2>3. syncflow.version # 0
    BY <1>t, Numbers
  <2>4. LoadInv'
    BY <2>1, <2>2, <2>3 DEF LoadInv, SameSync
  <2>5. AbandonedInv'
    BY <1>k, <2>1, <2>2
  <2> QED
    BY <1>o, <1>t, <2>4, <2>5 DEF IInv
<1>4. CASE Announces
  <2>1. LoadInv'
    BY <1>4, <1>t DEF Announces, LoadInv, SameSync
  <2>2. AbandonedInv'
    BY <1>4, <1>k DEF Announces
  <2> QED
    BY <1>o, <1>t, <2>1, <2>2 DEF IInv
<1>5. CASE Ends
  <2>1. table = syncflow'.prevVersion
    BY <1>5, <1>t DEF Ends, LoadInv
  <2>2. LoadInv'
    BY <1>5, <1>t, <2>1 DEF Ends, LoadInv
  <2>3. AbandonedInv'
    <3>1. \A a \in abandoned : Current(a)'
      BY <1>5, <1>a, <1>t, ReachedKept DEF Ends, Current
    <3>2. \A a \in abandoned : a.version # syncflow'.version
      <4>1. \A a \in abandoned : a.version <= syncflow.version /\ a.version \in Nat
        BY <1>a DEF Current, Reached, Versions
      <4> QED
        BY <1>5, <1>t, <4>1, Numbers DEF Ends
    <3> QED
      BY <1>5, <1>t, <3>1, <3>2 DEF Ends, AbandonedInv
  <2> QED
    BY <1>o, <1>t, <2>2, <2>3 DEF IInv
<1>6. CASE Retries
  <2> DEFINE m == [version |-> syncflow.version, prevVersion |-> syncflow.prevVersion]
  <2>1. Now' = Now /\ LoadInv'
    BY <1>6, <1>t DEF Retries, LoadInv, SameSync, Now
  <2>2. Current(m)
    BY <1>t, Numbers DEF Current, Reached, VersionsInv
  <2>3. Current(m)' /\ \A a \in abandoned : Current(a)'
    BY <1>6, <1>t, <2>2 DEF Retries, SameSync, Current, Reached, AbandonedInv
  <2>4. AbandonedInv'
    BY <1>6, <1>t, <2>1, <2>3 DEF Retries, SameSync, AbandonedInv
  <2> QED
    BY <1>o, <1>t, <2>1, <2>4 DEF IInv
<1>7. CASE Commits
  BY <1>1, <1>3, <1>7, CommitIsLoad
<1> QED
  BY <1>o, <1>1, <1>2, <1>3, <1>4, <1>5, <1>6, <1>7

LEMMA Invariance == ~(Errors /\ Redelivery) /\ ~(Errors /\ Abandoned) /\ Spec => []IInv
  BY InitInv, NextInv, PTL DEF Spec

\* A load that will still be applied, by the workflow or by an attempt it no
\* longer waits for, finds the table at the version it starts from. So it is
\* with every error of the processors if loads are waited for and no message
\* comes twice, and with abandoned loads and redelivery if there are no errors.
THEOREM LoadOnBaseAlways ==
  ~(Errors /\ Redelivery) /\ ~(Errors /\ Abandoned) /\ Spec => []LoadOnBase
<1>1. ASSUME IInv PROVE LoadOnBase
  <2>t. TypeOK /\ VersionsInv /\ LoadInv /\ AbandonedInv /\ ~(Errors /\ Abandoned)
    BY <1>1 DEF IInv, OrderInv
  <2>1. ASSUME NEW v \in 1 .. MaxVersion, ex["proceed"][v].pc = "load", v \notin marks
        PROVE  table = ex["proceed"][v].prev
    <3>1. v = syncflow.version /\ ex["proceed"][v].prev = syncflow.prevVersion /\ v # 0
      BY <2>t, <2>1, ExecutingNow, Names DEF Executing
    <3> QED
      BY <2>t, <2>1, <3>1 DEF LoadInv
  <2>2. ASSUME NEW a \in abandoned, table <= a.version, a.version \notin marks
        PROVE  table = a.prevVersion
    <3>1. a.version \in 1 .. MaxVersion /\ a.prevVersion \in 0 .. MaxVersion /\ Current(a) /\ ~Errors
      BY <2>t DEF TypeOK, Runnable, AbandonedInv
    <3>2. a.version # table
      BY <2>t, <2>2, <3>1 DEF LoadInv
    <3>3. syncflow.version = syncflow.prevVersion + 1 /\ a.version <= syncflow.version
      BY <2>t, <3>1 DEF VersionsInv, Current, Reached
    <3>4. table = syncflow.prevVersion /\ a.version = syncflow.version
      BY <2>t, <2>2, <3>1, <3>2, <3>3, Numbers DEF LoadInv
    <3> QED
      BY <3>1, <3>4 DEF Current, Reached
  <2> QED
    BY <2>1, <2>2 DEF LoadOnBase, Run, At
<1> QED
  BY <1>1, Invariance, PTL

-----------------------------------------------------------------------------
(* The three workflows implement SequentialSync                            *)

Announced == IF Now = "advance" THEN syncflow.version ELSE syncflow.prevVersion

LEMMA InitMaps == Init => Promise!Init
<1> SUFFICES ASSUME Init PROVE Promise!Init
  OBVIOUS
<1>1. syncflow.version = 1 /\ syncflow.prevVersion = 0 /\ table = 0 /\ 1 \in Versions
  BY ControlAssumption DEF Init, ControlInit, LoaderInit, Versions
<1>2. ex["full"][1].pc = "none" /\ ex["proceed"][1].pc = "none"
  BY <1>1, Names DEF Init
<1> QED
  BY <1>1, <1>2 DEF Promise!Init, At, Underway

LEMMA StepMaps ==
  ASSUME IInv, [Next]_vars
  PROVE  [Promise!Next]_(Promise!abstractVars)
<1>t. OrderInv /\ TypeOK /\ VersionsInv /\ LoadInv
  BY DEF IInv, OrderInv
<1>n. syncflow.prevVersion # syncflow.version /\ syncflow.version \in Nat
  BY <1>t, Numbers DEF VersionsInv
<1>o. Stays \/ Begins \/ Loads \/ Announces \/ Ends \/ Retries \/ Commits
  BY <1>t, NextDoes
\* The state the abstract syncflow has, in these terms.
<1> USE DEF At
<1>m. /\ Promise!abstractVars = <<syncflow.version, Underway, Underway, table, Announced>>
      /\ Promise!abstractVars' = <<syncflow.version, Underway, Underway, table, Announced>>'
  BY DEF Promise!abstractVars, Underway, Announced, Now
<1>1. CASE Stays
  <2>1. Announced' = Announced
    BY <1>1 DEF Stays, SameSync, Announced
  <2> QED
    BY <1>1, <1>m, <2>1 DEF Stays, SameSync
<1>2. CASE Begins
  <2>1. Promise!Begin
    BY <1>2, <1>t DEF Begins, SameSync, Promise!Begin, Underway, Now, LoadInv
  <2> QED
    BY <2>1 DEF Promise!Next
<1>3. ASSUME Loads PROVE [Promise!Next]_(Promise!abstractVars)
  <2>1. table' = syncflow.version /\ (table = syncflow.version => UNCHANGED table)
    BY <1>3, LoadEffect DEF Loads
  <2>2. SameSync /\ Underway /\ Underway' /\ Announced' = Announced
    BY <1>3 DEF Loads, SameSync, Announced
  <2>3. CASE table = syncflow.version
    BY <1>m, <2>1, <2>2, <2>3 DEF SameSync
  <2>4. CASE table # syncflow.version
    <3>1. table = syncflow.prevVersion /\ Now # "advance"
      BY <1>t, <2>4 DEF LoadInv
    <3>2. Announced = table
      BY <3>1 DEF Announced
    <3>3. Promise!Load
      BY <2>1, <2>2, <3>2 DEF SameSync, Promise!Load, Underway, Announced, Now
    <3> QED
      BY <3>3 DEF Promise!Next
  <2> QED
    BY <2>3, <2>4
<1>4. CASE Announces
  <2>1. Promise!Announce
    BY <1>4, <1>t DEF Announces, SameSync, Promise!Announce, Underway, Now, LoadInv
  <2> QED
    BY <2>1 DEF Promise!Next
<1>5. CASE Ends
  <2>1. CASE Now = "advance" /\ syncflow'.prevVersion = syncflow.version
    <3>1. Promise!Succeed
      BY <1>5, <2>1 DEF Ends, Promise!Succeed, Underway, Now
    <3> QED
      BY <3>1 DEF Promise!Next
  <2>2. CASE Errors /\ Now \in {"none", "giveUp"} /\ syncflow'.prevVersion = syncflow.prevVersion
    <3>1. table = syncflow.prevVersion
      BY <1>t, <2>2 DEF LoadInv
    <3>2. Promise!Fail
      BY <1>5, <1>n, <2>2, <3>1 DEF Ends, Promise!Fail, Underway, Now
    <3> QED
      BY <3>2 DEF Promise!Next
  <2> QED
    BY <1>5, <2>1, <2>2 DEF Ends
<1>6. CASE Retries
  <2>1. Announced' = Announced /\ Underway' = Underway
    BY <1>6 DEF Retries, SameSync, Announced, Underway, Now
  <2> QED
    BY <1>6, <1>m, <2>1 DEF Retries, SameSync
<1>7. CASE Commits
  BY <1>1, <1>3, <1>7, CommitIsLoad
<1> QED
  BY <1>o, <1>1, <1>2, <1>3, <1>4, <1>5, <1>6, <1>7

\* The three workflows, the controllers, the loader and the broker together
\* implement the abstract syncflow: versions are loaded one after the other, each
\* on the one announced last; one that fails is given up before it is loaded.
THEOREM ImplementsSequential ==
  ~(Errors /\ Redelivery) /\ ~(Errors /\ Abandoned) /\ Spec => Sequential
  BY Invariance, InitMaps, StepMaps, PTL DEF Spec, Sequential, Promise!Spec

=============================================================================
