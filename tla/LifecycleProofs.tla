-------------------------- MODULE LifecycleProofs --------------------------
(***************************************************************************)
(* Theorems about Lifecycle: its types, that a data source has at most one *)
(* connection, and that no sync works on a data source whose deletion has  *)
(* terminated its workflows. For any number of connections, with and       *)
(* without lost answers.                                                   *)
(***************************************************************************)
EXTENDS Lifecycle, TLAPS

\* Why one workflow id suffices: whoever is about to insert a connection has
\* found none, and the data source, and nobody else inserts one or deletes the
\* data source meanwhile; deleteSyncConnectionWf runs beside, but only deletes.
LookedInv == wf.step = "insert" => Active = {} /\ source = "present"

-----------------------------------------------------------------------------
LEMMA ClosedTyped ==
  Closed \in [step : {"closed", "look", "insert", "announceCreated",
                     "delete", "terminate", "announceDeleted"},
             conn : 0 .. MaxConnections]
  BY ConfiguratorAssumption, SMT DEF Closed, NoConnection

LEMMA PendingTyped ==
  ASSUME NEW events \in [Connections -> Event], NEW c
  PROVE  [events EXCEPT ![c] = "pending"] \in [Connections -> Event]
  BY DEF Event

\* The values Init, a step of the workflows and a request give to variables are
\* of their types.
THEOREM TypeCorrect == Spec => []TypeOK
<1>1. Init => TypeOK
  BY ConfiguratorAssumption, SMT
     DEF Init, ConfigInit, TypeOK, ConfigTypeOK, SyncConnection, LifecycleTypeOK, Closed, NoRun, Run,
         NoConnection, Connections, Event
<1>2. ASSUME TypeOK, [Next]_vars
      PROVE  TypeOK'
  <2> USE <1>2, ConfiguratorAssumption DEF TypeOK, ConfigTypeOK, SyncConnection, LifecycleTypeOK
  <2>1. CASE Configure
    <3>1. LifecycleTypeOK'
      BY <2>1 DEF Configure, syncVars
    <3>2. ASSUME Look
          PROVE  ConfigTypeOK'
      BY <3>2, SMT DEF Look, At, Closed, NoConnection, Connections
    <3>3. ASSUME Insert
          PROVE  ConfigTypeOK'
      BY <3>3, SMT DEF Insert, At, NoConnection, Connections
    <3>4. ASSUME AnnounceCreated
          PROVE  ConfigTypeOK'
      <4>2. created' \in [Connections -> Event]
        BY <3>4, PendingTyped DEF AnnounceCreated
      <4> QED
        BY <3>4, <4>2, ClosedTyped DEF AnnounceCreated
    <3>5. ASSUME DeleteSource
          PROVE  ConfigTypeOK'
      BY <3>5, SMT DEF DeleteSource, At, NoConnection, Connections, Active
    <3>6. ASSUME AnnounceDeleted
          PROVE  ConfigTypeOK'
      <4>2. removed' \in [Connections -> Event]
        BY <3>6, PendingTyped DEF AnnounceDeleted
      <4> QED
        BY <3>6, <4>2, ClosedTyped DEF AnnounceDeleted
    <3> QED
      BY <2>1, <3>1, <3>2, <3>3, <3>4, <3>5, <3>6 DEF Configure, ConfiguratorStep
  <2>2. CASE Terminate
    BY <2>2, SMT DEF Terminate, TerminateWorkflows, At, Closed, NoConnection, Connections, Run
  <2>3. CASE Ask
    <3>1. ASSUME RequestCreate \/ RequestDelete
          PROVE  ConfigTypeOK'
      BY <3>1, SMT DEF RequestCreate, RequestDelete, At, NoConnection
    <3>2. ASSUME NEW c \in Connections, RequestDrop(c)
          PROVE  ConfigTypeOK'
      BY <3>2, SMT DEF RequestDrop
    <3>3. LifecycleTypeOK'
      BY <2>3 DEF Ask, syncVars
    <3> QED
      BY <2>3, <3>1, <3>2, <3>3 DEF Ask, Request
  <2>4. CASE Schedule
    BY <2>4, SMT DEF Schedule, SetStatus, getById, documents, NoConnection, Connections, Run
  <2>5. ASSUME NEW c \in Connections, DropOne(c)
        PROVE  TypeOK'
    BY <2>5, SMT DEF DropOne, Drop, deleteConnection, getConnectionById, Active, syncVars
  <2>6. ASSUME NEW c \in Connections, TakeTrigger(c)
        PROVE  TypeOK'
    BY <2>6, SMT DEF TakeTrigger, documents, Connections
  <2>7. ASSUME NEW c \in Connections, SyncStep(c)
        PROVE  TypeOK'
    <3>1. CASE Start(c)
      BY <3>1, SMT DEF Start, To, documents, Run
    <3>2. CASE Check(c)
      BY <3>2, SMT DEF Check, To, SetStatus, getById, documents, Run
    <3>3. CASE Read(c)
      BY <3>3, SMT DEF Read, documents, Run, NoRun
    <3>4. CASE Work(c)
      <4>1. flow' \in [Connections -> {"IDLING", "SCHEDULED", "RUNNING"}]
        BY <3>4, SMT DEF Work, SetStatus
      <4>2. run' \in [Connections -> Run]
        BY <3>4, SMT DEF Work, Run, NoRun
      <4> QED
        BY <3>4, <4>1, <4>2 DEF Work, documents
    <3> QED
      BY <2>7, <3>1, <3>2, <3>3, <3>4 DEF SyncStep
  <2>8. CASE UNCHANGED vars
    BY <2>8 DEF vars, configVars
  <2> QED
    BY <2>1, <2>2, <2>3, <2>4, <2>5, <2>6, <2>7, <2>8 DEF Next
<1> QED
  BY <1>1, <1>2, PTL DEF Spec

-----------------------------------------------------------------------------
\* Syncs leave the documents alone, and so do requests but for the workflow they
\* start.
LEMMA SyncsKeepConnections ==
  ASSUME [Next]_vars, ~ Configure, \A c \in Connections : ~ DropOne(c)
  PROVE  /\ UNCHANGED <<source, conn>>
         /\ wf'.step = "insert" => wf.step = "insert"
<1>1. CASE Terminate
  BY <1>1, SMT DEF Terminate, TerminateWorkflows, At, Closed
<1>2. CASE Ask
  BY <1>2, SMT DEF Ask, Request, RequestCreate, RequestDelete, RequestDrop, At
<1>3. CASE Schedule
  BY <1>3 DEF Schedule, documents
<1>4. ASSUME NEW c \in Connections, TakeTrigger(c) \/ SyncStep(c)
      PROVE  UNCHANGED documents
  BY <1>4 DEF TakeTrigger, SyncStep, Start, Check, Read, Work
<1>5. CASE UNCHANGED vars
  BY <1>5 DEF vars, configVars
<1> QED
  BY <1>1, <1>2, <1>3, <1>4, <1>5 DEF Next, documents

\* A data source has at most one connection, and a deleted one has none: the
\* workflow id does what no unique index does.
THEOREM OneConnectionAlways == Spec => []OneConnection
<1>1. Init => LookedInv /\ OneConnection
  BY SMT DEF Init, ConfigInit, LookedInv, OneConnection, Active, Closed
<1>2. ASSUME TypeOK, LookedInv, OneConnection, [Next]_vars
      PROVE  LookedInv' /\ OneConnection'
  <2> USE <1>2 DEF LookedInv, OneConnection, Active, TypeOK, ConfigTypeOK, SyncConnection
  <2>1. CASE Configure
    <3>1. CASE Look
      BY <3>1, SMT DEF Look, At, Closed
    <3>2. CASE Insert
      BY <3>2, SMT DEF Insert, At
    <3>3. CASE AnnounceCreated \/ AnnounceDeleted
      BY <3>3, SMT DEF AnnounceCreated, AnnounceDeleted, Closed
    <3>4. CASE DeleteSource
      BY <3>4, SMT DEF DeleteSource, At
    <3> QED
      BY <2>1, <3>1, <3>2, <3>3, <3>4 DEF Configure, ConfiguratorStep
  <2>2. ASSUME NEW c \in Connections, DropOne(c)
        PROVE  LookedInv' /\ OneConnection'
    BY <2>2, SMT DEF DropOne, Drop, deleteConnection, getConnectionById, Active
  <2>3. CASE ~ Configure /\ \A c \in Connections : ~ DropOne(c)
    BY <2>3, SyncsKeepConnections
  <2> QED
    BY <2>1, <2>2, <2>3
<1> QED
  BY <1>1, <1>2, TypeCorrect, PTL DEF Spec

\* Once the deletion of a data source has terminated its workflows none works
\* on it: a sync that starts later does not get past reading its data source.
THEOREM NoSyncAfterDeletionEver == Spec => []NoSyncAfterDeletion
<1>1. Init => NoSyncAfterDeletion
  BY DEF Init, ConfigInit, NoSyncAfterDeletion
<1>2. ASSUME TypeOK, NoSyncAfterDeletion, [Next]_vars
      PROVE  NoSyncAfterDeletion'
  <2> USE <1>2 DEF NoSyncAfterDeletion, TypeOK, ConfigTypeOK, SyncConnection, LifecycleTypeOK
  <2>1. CASE Configure
    BY <2>1, SMT DEF Configure, ConfiguratorStep, Look, Insert, AnnounceCreated, DeleteSource,
                     AnnounceDeleted, At, Closed, syncVars
  <2>2. CASE Terminate
    BY <2>2, SMT DEF Terminate
  <2>3. CASE Ask
    BY <2>3, SMT DEF Ask, Request, RequestCreate, RequestDelete, RequestDrop, At, Closed, syncVars
  <2>4. CASE Schedule
    BY <2>4, SMT DEF Schedule, getById, documents, Run
  <2>5. ASSUME NEW c \in Connections, DropOne(c) \/ TakeTrigger(c)
        PROVE  NoSyncAfterDeletion'
    BY <2>5, SMT DEF DropOne, Drop, deleteConnection, getConnectionById, Active, TakeTrigger, documents, syncVars
  <2>6. ASSUME NEW c \in Connections, SyncStep(c)
        PROVE  NoSyncAfterDeletion'
    <3>1. source' = source /\ wf' = wf
      BY <2>6 DEF SyncStep, Start, Check, Read, Work, documents
    <3>2. \A d \in Connections : run'[d].at = "work" => run[d].at = "work" \/ source # "deleted"
      BY <2>6, SMT DEF SyncStep, Start, Check, Read, Work, To, Run, NoRun
    <3> QED
      BY <3>1, <3>2
  <2>7. CASE UNCHANGED vars
    BY <2>7 DEF vars, configVars
  <2> QED
    BY <2>1, <2>2, <2>3, <2>4, <2>5, <2>6, <2>7 DEF Next
<1> QED
  BY <1>1, <1>2, TypeCorrect, PTL DEF Spec
=============================================================================
