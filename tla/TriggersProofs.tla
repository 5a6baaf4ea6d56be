--------------------------- MODULE TriggersProofs ---------------------------
(***************************************************************************)
(* Theorems about Triggers: its types, and that a connection whose         *)
(* creation is handled is watched. For any number of connections and       *)
(* channels, with and without lost answers, and for any number of crashes  *)
(* and repeated deliveries.                                                *)
(***************************************************************************)
EXTENDS Triggers, TLAPS

\* Whoever is at work works for a connection.
BusyInv == \A p \in DOMAIN proc : proc[p].step # "idle" => proc[p].conn \in Connections

Processes == {"consumer", "refresher"}

-----------------------------------------------------------------------------
LEMMA EventTyped ==
  ASSUME NEW events \in [Connections -> Event], NEW c, NEW e \in Event
  PROVE  [events EXCEPT ![c] = e] \in [Connections -> Event]
  BY Zenon

LEMMA ConfigsTyped == buildTriggerData \subseteq TriggerConfig /\ NoConfig \in TriggerConfig
<1>1. CronOutcomes \subseteq BOOLEAN
  BY DEF CronOutcomes, IsExpression
<1>2. NoConfig \in TriggerConfig
  BY TriggersAssumption, SMT DEF NoConfig, TriggerConfig, NoChannel
<1>3. \A b \in BOOLEAN : [NoConfig EXCEPT !.cron = b] \in TriggerConfig
  BY <1>2, SMT DEF TriggerConfig
<1> QED
  BY <1>1, <1>2, <1>3 DEF buildTriggerData

LEMMA FreeTyped == Free \in Process
  BY ConfigsTyped, ConfiguratorAssumption, SMT DEF Free, Process, NoConnection

\* What a trigger's provider decides.
LEMMA WebhookIsGoogle ==
  ASSUME provider \in {"excel", "google"}
  PROVE  IsWebhook <=> provider = "google"
  BY DEF IsWebhook, SyncflowRegistry, ExcelSyncflow, GoogleSyncflow

\* How a process goes on.
LEMMA Begins ==
  ASSUME TypeOK, NEW p \in Processes, NEW c \in Connections,
         NEW step \in {"register", "add", "stop", "remove"}, Begin(p, step, c)
  PROVE  /\ proc' \in [Processes -> Process]
         /\ proc'[p].step = step
         /\ proc'[p].conn = c
         /\ proc'[p].read = config[c]
         /\ \A q \in Processes \ {p} : proc'[q] = proc[q]
<1> USE DEF TypeOK, TriggersTypeOK, Processes
<1>1. [step |-> step, conn |-> c, read |-> config[c]] \in Process
  BY ConfiguratorAssumption, SMT DEF Process, Connections
<1> QED
  BY <1>1 DEF Begin

LEMMA Goes ==
  ASSUME TypeOK, NEW p \in Processes,
         NEW step \in {"add", "interval", "trigger", "remove", "register"}, ToStep(p, step)
  PROVE  /\ proc' \in [Processes -> Process]
         /\ proc'[p].step = step
         /\ proc'[p].conn = proc[p].conn
         /\ proc'[p].read = proc[p].read
         /\ \A q \in Processes \ {p} : proc'[q] = proc[q]
  BY SMT DEF TypeOK, TriggersTypeOK, Processes, ToStep, Process

LEMMA Opens ==
  ASSUME TypeOK, NEW p \in Processes, NEW n \in Channels,
         proc' = [proc EXCEPT ![p].step = "store", ![p].read.channel = n]
  PROVE  /\ proc' \in [Processes -> Process]
         /\ proc'[p].step = "store"
         /\ proc'[p].conn = proc[p].conn
         /\ proc'[p].read.channel = n
         /\ \A q \in Processes \ {p} : proc'[q] = proc[q]
<1> USE DEF TypeOK, TriggersTypeOK, Processes
<1>1. [proc[p].read EXCEPT !.channel = n] \in TriggerConfig
  <2>1. proc[p].read \in TriggerConfig
    BY SMT DEF Process
  <2> QED
    BY <2>1, SMT DEF TriggerConfig, Channels
<1>2. [[proc[p] EXCEPT !.step = "store"] EXCEPT !.read = [proc[p].read EXCEPT !.channel = n]] \in Process
  <2>1. [proc[p] EXCEPT !.step = "store"] \in Process
    BY Zenon DEF Process
  <2>2. \A r \in Process, t \in TriggerConfig : [r EXCEPT !.read = t] \in Process
    BY Zenon DEF Process
  <2> QED
    BY <1>1, <2>1, <2>2
<1>3. proc' \in [Processes -> Process]
  BY <1>2
<1>4. proc'[p].step = "store" /\ proc'[p].conn = proc[p].conn
  BY SMT DEF Process
<1>5. proc'[p].read.channel = n
  BY SMT DEF Process, TriggerConfig
<1> QED
  BY <1>3, <1>4, <1>5

LEMMA MarksInterval ==
  ASSUME TypeOK, NEW c \in Connections, config' = [config EXCEPT ![c].interval = TRUE]
  PROVE  /\ config' \in [Connections -> TriggerConfig]
         /\ \A d \in Connections : config'[d].channel = config[d].channel
<1> USE DEF TypeOK, TriggersTypeOK
<1>1. [config[c] EXCEPT !.interval = TRUE] \in TriggerConfig
  BY Zenon DEF TriggerConfig
<1>2. config' \in [Connections -> TriggerConfig]
  BY <1>1
<1>3. \A d \in Connections : config'[d].channel = config[d].channel
  BY SMT DEF TriggerConfig
<1> QED
  BY <1>2, <1>3

LEMMA Ends ==
  ASSUME TypeOK, NEW p \in Processes, End(p)
  PROVE  /\ proc' \in [Processes -> Process]
         /\ created' \in [Connections -> Event]
         /\ proc'[p] = Free
         /\ \A q \in Processes \ {p} : proc'[q] = proc[q]
         /\ \A c \in Connections :
              created'[c] = IF p = "consumer" /\ c = proc[p].conn THEN "handled" ELSE created[c]
<1> USE DEF TypeOK, ConfigTypeOK, TriggersTypeOK, Processes, End
<1>1. proc' \in [Processes -> Process] /\ proc'[p] = Free
      /\ \A q \in Processes \ {p} : proc'[q] = proc[q]
  BY FreeTyped
<1>2. created' \in [Connections -> Event]
  BY EventTyped, SMT DEF Event
<1>3. \A c \in Connections :
        created'[c] = IF p = "consumer" /\ c = proc[p].conn THEN "handled" ELSE created[c]
  BY SMT
<1> QED
  BY <1>1, <1>2, <1>3

LEMMA Remembers ==
  ASSUME TypeOK, NEW c \in Connections, NEW n \in 0 .. MaxChannels,
         config' = [config EXCEPT ![c].channel = n]
  PROVE  /\ config' \in [Connections -> TriggerConfig]
         /\ config'[c].channel = n
         /\ \A d \in Connections \ {c} : config'[d] = config[d]
  BY SMT DEF TypeOK, TriggersTypeOK, TriggerConfig

-----------------------------------------------------------------------------
\* What the configurator, its users and its workflows do to the connections.
ConfigNext == Configure \/ Ask \/ \E c \in Connections : DropOne(c)

LEMMA ClosedTyped ==
  Closed \in [step : {"closed", "look", "insert", "announceCreated",
                     "delete", "terminate", "announceDeleted"},
             conn : 0 .. MaxConnections]
  BY ConfiguratorAssumption, SMT DEF Closed, NoConnection

LEMMA ConfigTypes ==
  ASSUME TypeOK, ConfigNext
  PROVE  TypeOK' /\ UNCHANGED triggerVars
<1> USE ConfiguratorAssumption DEF TypeOK, ConfigTypeOK, SyncConnection
<1>1. UNCHANGED triggerVars
  BY DEF ConfigNext, Configure, Ask, DropOne
<1>2. TriggersTypeOK'
  BY <1>1 DEF TriggersTypeOK, triggerVars
<1>3. ASSUME Look
      PROVE  ConfigTypeOK'
  BY <1>3, SMT DEF Look, At, Closed, NoConnection, Connections
<1>4. ASSUME Insert
      PROVE  ConfigTypeOK'
  BY <1>4, SMT DEF Insert, At, NoConnection, Connections
<1>5. ASSUME AnnounceCreated
      PROVE  ConfigTypeOK'
  <2>1. created' \in [Connections -> Event]
    BY <1>5, EventTyped, SMT DEF AnnounceCreated, Event
  <2> QED
    BY <1>5, <2>1, ClosedTyped DEF AnnounceCreated
<1>6. ASSUME DeleteSource
      PROVE  ConfigTypeOK'
  BY <1>6, SMT DEF DeleteSource, At, NoConnection, Connections, Active
<1>7. ASSUME AnnounceDeleted
      PROVE  ConfigTypeOK'
  <2>1. removed' \in [Connections -> Event]
    BY <1>7, EventTyped, SMT DEF AnnounceDeleted, Event
  <2> QED
    BY <1>7, <2>1, ClosedTyped DEF AnnounceDeleted
<1>8. ASSUME TerminateWorkflows
      PROVE  ConfigTypeOK'
  BY <1>8, SMT DEF TerminateWorkflows, At, Closed, NoConnection, Connections
<1>9. ASSUME RequestCreate \/ RequestDelete
      PROVE  ConfigTypeOK'
  BY <1>9, SMT DEF RequestCreate, RequestDelete, At, NoConnection
<1>10. ASSUME NEW c \in Connections, RequestDrop(c)
       PROVE  ConfigTypeOK'
  BY <1>10, SMT DEF RequestDrop
<1>11. ASSUME NEW c \in Connections, Drop(c)
       PROVE  ConfigTypeOK'
  BY <1>11, SMT DEF Drop, deleteConnection, getConnectionById, Active
<1> QED
  BY <1>1, <1>2, <1>3, <1>4, <1>5, <1>6, <1>7, <1>8, <1>9, <1>10, <1>11
     DEF ConfigNext, Configure, ConfiguratorStep, Ask, Request, DropOne

\* The trigger layer leaves the documents alone.
TriggersNext ==
  \/ ConsumerStep
  \/ RefresherStep
  \/ TriggersEvent
  \/ \E c \in Connections : TakeTrigger(c)

LEMMA TriggersTypes ==
  ASSUME TypeOK, BusyInv, TriggersNext
  PROVE  TypeOK' /\ BusyInv' /\ UNCHANGED <<documents, provider>>
<1> USE ConfiguratorAssumption, TriggersAssumption
    DEF TypeOK, ConfigTypeOK, TriggersTypeOK, BusyInv, documents, Processes
<1>1. ASSUME NEW c \in Connections, HandleCreated(c)
      PROVE  TypeOK' /\ BusyInv' /\ UNCHANGED <<documents, provider>>
  <2>1. created' \in [Connections -> Event]
    BY <1>1, EventTyped, SMT DEF HandleCreated, Event
  <2>2. ASSUME NEW step \in {"register", "add"}, Begin("consumer", step, c)
        PROVE  proc' \in [Processes -> Process] /\ BusyInv'
    BY <2>2, Begins
  <2> QED
    BY <1>1, <2>1, <2>2, Zenon DEF HandleCreated
<1>2. ASSUME NEW c \in Connections, HandleRemoved(c)
      PROVE  TypeOK' /\ BusyInv' /\ UNCHANGED <<documents, provider>>
  <2>1. ASSUME NEW step \in {"stop", "remove"}, Begin("consumer", step, c)
        PROVE  proc' \in [Processes -> Process] /\ BusyInv'
    BY <2>1, Begins
  <2> QED
    BY <1>2, <2>1, Zenon DEF HandleRemoved
<1>3. ASSUME NEW p \in Processes, Register(p)
      PROVE  TypeOK' /\ BusyInv' /\ UNCHANGED <<documents, provider>>
  <2>1. ASSUME NEW n \in Channels, registerFileChangeWebhook(n, proc[p].conn),
               proc' = [proc EXCEPT ![p].step = "store", ![p].read.channel = n],
               UNCHANGED <<created, unwatched>>
        PROVE  TypeOK' /\ BusyInv' /\ UNCHANGED <<documents, provider>>
    <3>1. channels' \in [Channels -> 0 .. MaxConnections]
      BY <1>3, <2>1, SMT DEF registerFileChangeWebhook, Connections, Register
    <3>2. proc' \in [Processes -> Process] /\ BusyInv'
      BY <1>3, <2>1, Opens DEF Register
    <3> QED
      BY <1>3, <2>1, <3>1, <3>2 DEF Register
  <2>2. ASSUME unwatched' = unwatched \cup {proc[p].conn}, End(p), UNCHANGED channels
        PROVE  TypeOK' /\ BusyInv' /\ UNCHANGED <<documents, provider>>
    <3>1. proc' \in [Processes -> Process] /\ created' \in [Connections -> Event] /\ BusyInv'
      BY <2>2, Ends DEF Free
    <3> QED
      BY <1>3, <2>2, <3>1 DEF Register
  <2> QED
    BY <1>3, <2>1, <2>2 DEF Register
<1>4. ASSUME NEW p \in Processes, Store(p)
      PROVE  TypeOK' /\ BusyInv' /\ UNCHANGED <<documents, provider>>
  <2>1. proc[p].conn \in Connections /\ proc[p].read.channel \in 0 .. MaxChannels
    BY <1>4 DEF Store, Process, TriggerConfig
  <2>2. config' \in [Connections -> TriggerConfig] /\ unwatched' \subseteq Connections
    BY <1>4, <2>1, Remembers DEF Store
  <2>3. proc' \in [Processes -> Process] /\ created' \in [Connections -> Event] /\ BusyInv'
    <3>1. CASE End(p)
      BY <3>1, Ends DEF Free
    <3>2. CASE ToStep(p, "add") /\ UNCHANGED created
      BY <3>2, <2>1, Goes
    <3> QED
      BY <1>4, <3>1, <3>2 DEF Store
  <2> QED
    BY <1>4, <2>2, <2>3 DEF Store
<1>5. ASSUME AddJob
      PROVE  TypeOK' /\ BusyInv' /\ UNCHANGED <<documents, provider>>
  <2>1. proc["consumer"].conn \in Connections
    BY <1>5 DEF AddJob
  <2>2. proc' \in [Processes -> Process] /\ created' \in [Connections -> Event] /\ BusyInv'
    <3>1. CASE proc' = [proc EXCEPT !["consumer"] = Free]
      BY <1>5, <3>1, FreeTyped DEF AddJob, Free
    <3>2. CASE ToStep("consumer", "interval") \/ ToStep("consumer", "trigger")
      BY <1>5, <3>2, <2>1, Goes DEF AddJob
    <3> QED
      BY <1>5, <3>1, <3>2 DEF AddJob
  <2> QED
    BY <1>5, <2>1, <2>2 DEF AddJob
<1>6. ASSUME StoreInterval
      PROVE  TypeOK' /\ BusyInv' /\ UNCHANGED <<documents, provider>>
  <2>1. proc["consumer"].conn \in Connections
    BY <1>6 DEF StoreInterval
  <2>2. config' \in [Connections -> TriggerConfig]
    BY <1>6, <2>1, MarksInterval DEF StoreInterval
  <2>3. proc' \in [Processes -> Process] /\ created' \in [Connections -> Event] /\ BusyInv'
    <3>1. CASE End("consumer")
      BY <3>1, Ends DEF Free
    <3>2. CASE ToStep("consumer", "trigger") /\ UNCHANGED created
      BY <3>2, <2>1, Goes
    <3> QED
      BY <1>6, <3>1, <3>2 DEF StoreInterval
  <2> QED
    BY <1>6, <2>2, <2>3 DEF StoreInterval
<1>7. ASSUME FirstTrigger
      PROVE  TypeOK' /\ BusyInv' /\ UNCHANGED <<documents, provider>>
  BY <1>7, Ends DEF FirstTrigger, Free
<1>8. ASSUME NEW p \in Processes, Stop(p)
      PROVE  TypeOK' /\ BusyInv' /\ UNCHANGED <<documents, provider>>
  <2>1. channels' \in [Channels -> 0 .. MaxConnections]
    BY <1>8, SMT DEF Stop, stopFileChangeWebhook, NoConnection
  <2>2. proc' \in [Processes -> Process] /\ BusyInv'
    BY <1>8, Goes DEF Stop
  <2> QED
    BY <1>8, <2>1, <2>2 DEF Stop
<1>9. ASSUME RemoveJob
      PROVE  TypeOK' /\ BusyInv' /\ UNCHANGED <<documents, provider>>
  <2>1. removed' \in [Connections -> Event]
    BY <1>9, EventTyped, SMT DEF RemoveJob, Event
  <2>2. proc' \in [Processes -> Process] /\ BusyInv'
    BY <1>9, FreeTyped DEF RemoveJob, Free
  <2> QED
    BY <1>9, <2>1, <2>2 DEF RemoveJob
<1>10. ASSUME NEW c \in Connections, Refresh(c)
       PROVE  TypeOK' /\ BusyInv' /\ UNCHANGED <<documents, provider>>
  <2>0. Begin("refresher", "stop", c)
    BY <1>10 DEF Refresh
  <2>1. proc' \in [Processes -> Process] /\ BusyInv'
    BY <2>0, Begins
  <2> QED
    BY <1>10, <2>1 DEF Refresh
<1>11. ASSUME ServiceCrashes
       PROVE  TypeOK' /\ BusyInv' /\ UNCHANGED <<documents, provider>>
  <2>1. proc' \in [Processes -> Process] /\ BusyInv'
    BY <1>11, FreeTyped DEF ServiceCrashes, Free
  <2>2. unwatched' \subseteq Connections
    BY <1>11 DEF ServiceCrashes
  <2>3. crashes' \in 0 .. MaxCrashes
    BY <1>11, SMT DEF ServiceCrashes
  <2> QED
    BY <1>11, <2>1, <2>2, <2>3 DEF ServiceCrashes
<1>12. ASSUME NEW c \in Connections, Redeliver(c)
       PROVE  TypeOK' /\ BusyInv' /\ UNCHANGED <<documents, provider>>
  <2>1. created' \in [Connections -> Event] /\ removed' \in [Connections -> Event]
    BY <1>12, EventTyped, SMT DEF Redeliver, Event
  <2>2. crashes' \in 0 .. MaxCrashes
    BY <1>12, SMT DEF Redeliver
  <2> QED
    BY <1>12, <2>1, <2>2 DEF Redeliver
<1>13. ASSUME NEW n \in Channels, Expire(n)
       PROVE  TypeOK' /\ BusyInv' /\ UNCHANGED <<documents, provider>>
  BY <1>13, SMT DEF Expire, NoConnection, configVars
<1>14. ASSUME NEW c \in Connections, Trigger(c)
       PROVE  TypeOK' /\ BusyInv' /\ UNCHANGED <<documents, provider>>
  BY <1>14 DEF Trigger, configVars
<1>15. ASSUME NEW n \in Channels, Notify(n)
       PROVE  TypeOK' /\ BusyInv' /\ UNCHANGED <<documents, provider>>
  <2>1. channels[n] \in Connections
    BY <1>15, SMT DEF Notify, NoConnection, Connections
  <2> QED
    BY <1>15, <2>1, <1>14 DEF Notify
<1>16. ASSUME NEW c \in Connections, TakeTrigger(c)
       PROVE  TypeOK' /\ BusyInv' /\ UNCHANGED <<documents, provider>>
  BY <1>16 DEF TakeTrigger, configVars
<1> HIDE DEF TypeOK, BusyInv, documents
<1> QED
  BY <1>1, <1>2, <1>3, <1>4, <1>5, <1>6, <1>7, <1>8, <1>9, <1>10, <1>11, <1>12, <1>13,
     <1>14, <1>15, <1>16
     DEF TriggersNext, ConsumerStep, RefresherStep, TriggersEvent, Tick, ManualTrigger,
         ManualTriggerOfSource

LEMMA StartsTyped ==
  ASSUME Init
  PROVE  TypeOK /\ BusyInv
<1> USE ConfiguratorAssumption, TriggersAssumption DEF Init
<1>1. ConfigTypeOK
  BY ClosedTyped DEF ConfigInit, ConfigTypeOK, SyncConnection, Event
<1>2. config \in [Connections -> TriggerConfig]
  BY ConfigsTyped, Zenon DEF TriggersInit
<1>3. channels \in [Channels -> 0 .. MaxConnections] /\ crashes \in 0 .. MaxCrashes
  BY SMT DEF TriggersInit, NoConnection
<1>4. proc \in [Processes -> Process]
  BY FreeTyped DEF TriggersInit, Processes
<1> QED
  BY <1>1, <1>2, <1>3, <1>4 DEF TypeOK, TriggersTypeOK, BusyInv, TriggersInit, Processes, Free

\* The values the services and the configurator give to variables are of their
\* types: whoever handles a message, or a job, does so for a connection.
THEOREM TriggerTypes == Spec => []TypeOK
<1>1. Init => TypeOK /\ BusyInv
  BY StartsTyped
<1>2. TypeOK /\ BusyInv /\ [Next]_vars => TypeOK' /\ BusyInv'
  <2>1. ASSUME TypeOK, BusyInv, UNCHANGED vars
        PROVE  TypeOK' /\ BusyInv'
    BY <2>1 DEF vars, configVars, triggerVars, TypeOK, ConfigTypeOK, TriggersTypeOK, BusyInv
  <2>2. ASSUME TypeOK, BusyInv, ConfigNext
        PROVE  TypeOK' /\ BusyInv'
    BY <2>2, ConfigTypes DEF BusyInv, triggerVars
  <2> QED
    BY <2>1, <2>2, TriggersTypes DEF Next, ConfigNext, TriggersNext
<1> QED
  BY <1>1, <1>2, PTL DEF Spec


-----------------------------------------------------------------------------
(* Why a connection is watched                                             *)

\* What is announced has happened. A deletion is announced for a connection that
\* is deleted already, and so for good.
EventsInv ==
  /\ \A c \in Connections : created[c] # "none" => conn[c] # "none"
  /\ \A c \in Connections : removed[c] # "none" => conn[c] = "deleted"
  /\ wf.step = "announceCreated" => wf.conn \in Connections /\ conn[wf.conn] # "none"
  /\ wf.step \in {"terminate", "announceDeleted"} /\ wf.conn \in Connections
       => conn[wf.conn] = "deleted"

Creating == {"register", "store", "add", "interval", "trigger"}
Removing == {"stop", "remove"}
Refreshing == {"stop", "register", "store"}

\* A message stays pending until its handler ends. What the refresher refreshes
\* has its job, unless it is deleted meanwhile.
StepsInv ==
  /\ proc["consumer"].step \in Creating => created[proc["consumer"].conn] = "pending"
  /\ proc["consumer"].step \in Removing => removed[proc["consumer"].conn] = "pending"
  /\ proc["refresher"].step # "idle" => proc["refresher"].step \in Refreshing
  /\ proc["refresher"].step # "idle" =>
       (proc["refresher"].conn \in jobs \/ conn[proc["refresher"].conn] = "deleted")

\* A channel that a trigger remembers, or a process has read, lives for that
\* connection or not at all; one that is about to be stored lives, and nobody
\* else knows it.
Holds(c, n) == n \in Channels => channels[n] \in {NoConnection, c}
New(p) ==
  /\ proc[p].read.channel \in Channels
  /\ channels[proc[p].read.channel] = proc[p].conn
  /\ \A c \in Connections : config[c].channel # proc[p].read.channel
  /\ \A q \in Processes \ {p} : proc[q].read.channel # proc[p].read.channel
ChannelsInv ==
  /\ \A c \in Connections : Holds(c, config[c].channel)
  /\ \A p \in Processes : Holds(proc[p].conn, proc[p].read.channel)
  /\ \A p \in Processes : proc[p].step = "store" => New(p)

\* A connection is watched while its channel is not being replaced, and what its
\* handler has done so far holds before the handler ends.
Replacing(c) == proc["refresher"].step \in {"register", "store"} /\ proc["refresher"].conn = c
Past(c, steps) ==
  \/ created[c] = "handled"
  \/ proc["consumer"].step \in steps /\ proc["consumer"].conn = c
Alive(c) == config[c].channel \in Channels /\ channels[config[c].channel] = c
WatchInv ==
  \A c \in Connections :
    conn[c] = "active" /\ c \notin unwatched /\ ~ Replacing(c) =>
      /\ Past(c, {"interval", "trigger"}) => c \in jobs
      /\ provider = "google" /\ Past(c, {"add", "interval", "trigger"}) => Alive(c)

SafeInv == StepsInv /\ ChannelsInv /\ WatchInv
KnownInv == TypeOK /\ BusyInv /\ EventsInv /\ SafeInv

-----------------------------------------------------------------------------
\* The configurator announces creations and never takes a deletion back; a
\* connection it creates was never heard of.
Announces ==
  \A c \in Connections :
    /\ created'[c] \in {created[c], "pending"}
    /\ removed'[c] \in {removed[c], "pending"}
    /\ conn[c] = "deleted" => conn'[c] = "deleted"
    /\ conn'[c] = "active" => conn[c] \in {"none", "active"}

LEMMA ConfigEvents ==
  ASSUME TypeOK, EventsInv, ConfigNext
  PROVE  EventsInv' /\ Announces
<1> USE ConfiguratorAssumption
    DEF TypeOK, ConfigTypeOK, SyncConnection, EventsInv, Announces
<1>1. CASE Look
  BY <1>1, SMT DEF Look, At, Closed
<1>2. CASE Insert
  BY <1>2, SMT DEF Insert, At
<1>3. CASE AnnounceCreated
  BY <1>3, SMT DEF AnnounceCreated, Closed, Event
<1>4. CASE DeleteSource
  BY <1>4, SMT DEF DeleteSource, At, Active, NoConnection, Connections
<1>5. CASE AnnounceDeleted
  BY <1>5, SMT DEF AnnounceDeleted, Closed, Event
<1>6. CASE TerminateWorkflows
  BY <1>6, SMT DEF TerminateWorkflows, At, Closed
<1>7. CASE RequestCreate \/ RequestDelete
  BY <1>7, SMT DEF RequestCreate, RequestDelete, At
<1>8. ASSUME NEW c \in Connections, RequestDrop(c)
      PROVE  EventsInv' /\ Announces
  BY <1>8, SMT DEF RequestDrop
<1>9. ASSUME NEW c \in Connections, Drop(c)
      PROVE  EventsInv' /\ Announces
  BY <1>9, SMT DEF Drop, deleteConnection, getConnectionById, Active
<1> QED
  BY <1>1, <1>2, <1>3, <1>4, <1>5, <1>6, <1>7, <1>8, <1>9
     DEF ConfigNext, Configure, ConfiguratorStep, Ask, Request, DropOne

LEMMA ConfigSafe ==
  ASSUME TypeOK, BusyInv, EventsInv, SafeInv, ConfigNext
  PROVE  SafeInv'
<1> USE ConfigEvents, ConfigTypes DEF SafeInv, triggerVars
<1>1. StepsInv'
  BY SMT DEF StepsInv, Announces, BusyInv, TypeOK, TriggersTypeOK, Creating, Removing
<1>2. ChannelsInv'
  BY DEF ChannelsInv, Holds, New
<1>3. WatchInv'
  <2> SUFFICES ASSUME NEW c \in Connections, conn'[c] = "active", c \notin unwatched, ~ Replacing(c)
               PROVE  /\ Past(c, {"interval", "trigger"})' => c \in jobs
                      /\ provider = "google" /\ Past(c, {"add", "interval", "trigger"})' => Alive(c)
    BY DEF WatchInv, Replacing, Alive
  <2>1. created'[c] \in {created[c], "pending"}
    BY DEF Announces
  <2>2. CASE conn[c] = "active"
    BY <2>1, <2>2 DEF WatchInv, Past
  <2>3. CASE conn[c] = "none"
    BY <2>1, <2>3, SMT DEF EventsInv, StepsInv, Past, Creating
  <2> QED
    BY <2>2, <2>3 DEF Announces
<1> QED
  BY <1>1, <1>2, <1>3


-----------------------------------------------------------------------------
\* The trigger layer handles what was announced, and no more.
LEMMA TriggersEvents ==
  ASSUME TypeOK, BusyInv, EventsInv, StepsInv, TriggersNext
  PROVE  EventsInv'
<1> USE DEF TypeOK, ConfigTypeOK, TriggersTypeOK, Processes
<1> DEFINE Kept == /\ \A c \in Connections : created'[c] # "none" => created[c] # "none"
                   /\ \A c \in Connections : removed'[c] # "none" => removed[c] # "none"
<1>1. ASSUME NEW p \in Processes, End(p), UNCHANGED removed,
             p = "consumer" => created[proc[p].conn] = "pending"
      PROVE  Kept
  BY <1>1, Ends
<1>2. ASSUME NEW p \in Processes, Register(p) \/ Store(p) \/ Stop(p)
      PROVE  Kept
  BY <1>1, <1>2 DEF Register, Store, Stop, StepsInv, Creating
<1>3. ASSUME AddJob \/ StoreInterval \/ FirstTrigger
      PROVE  Kept
  BY <1>1, <1>3 DEF AddJob, StoreInterval, FirstTrigger, StepsInv, Creating
<1>4. ASSUME NEW c \in Connections,
             HandleCreated(c) \/ HandleRemoved(c) \/ Redeliver(c) \/ Refresh(c) \/ TakeTrigger(c) \/ Trigger(c)
      PROVE  Kept
  BY <1>4, SMT DEF HandleCreated, HandleRemoved, Redeliver, Refresh, TakeTrigger, Trigger, configVars
<1>5. ASSUME ServiceCrashes
      PROVE  Kept
  BY <1>5 DEF ServiceCrashes
<1>6. ASSUME RemoveJob
      PROVE  Kept
  BY <1>6, SMT DEF RemoveJob, StepsInv, Removing
<1>7. ASSUME NEW n \in Channels, Expire(n) \/ Notify(n)
      PROVE  Kept
  BY <1>7 DEF Expire, Notify, Trigger, configVars
<1>8. UNCHANGED documents
  BY TriggersTypes
<1> QED
  <2>1. Kept
    BY <1>2, <1>3, <1>4, <1>5, <1>6, <1>7
       DEF TriggersNext, ConsumerStep, RefresherStep, TriggersEvent, Tick, ManualTrigger,
           ManualTriggerOfSource
  <2> QED
    BY <2>1, <1>8 DEF EventsInv, documents

LEMMA HandleCreatedSafe ==
  ASSUME KnownInv, NEW c \in Connections, HandleCreated(c)
  PROVE  SafeInv'
<1> USE DEF KnownInv, TypeOK, ConfigTypeOK, TriggersTypeOK
<1>1. ASSUME NEW step \in {"register", "add"}, Begin("consumer", step, c), UNCHANGED created,
             step = "add" => provider = "excel"
      PROVE  SafeInv'
  <2> USE <1>1, Begins DEF Processes, SafeInv, HandleCreated, documents
  <2>1. StepsInv'
    BY DEF StepsInv, Creating, Removing
  <2>2. ChannelsInv'
    BY DEF ChannelsInv, Holds, New
  <2>3. WatchInv'
    BY DEF WatchInv, Replacing, Past, Alive
  <2> QED
    BY <2>1, <2>2, <2>3
<1>2. ASSUME conn[c] # "active", created' = [created EXCEPT ![c] = "handled"], UNCHANGED proc
      PROVE  SafeInv'
  <2> USE <1>2 DEF SafeInv, HandleCreated, documents
  <2>1. StepsInv'
    BY DEF StepsInv, Creating, Removing, Free
  <2>2. ChannelsInv'
    BY DEF ChannelsInv, Holds, New
  <2>3. WatchInv'
    BY DEF WatchInv, Replacing, Past, Alive
  <2> QED
    BY <2>1, <2>2, <2>3
<1> QED
  BY <1>1, <1>2, WebhookIsGoogle DEF HandleCreated, getByWorkflowId

LEMMA HandleRemovedSafe ==
  ASSUME KnownInv, NEW c \in Connections, HandleRemoved(c)
  PROVE  SafeInv'
<1> USE DEF KnownInv, TypeOK, ConfigTypeOK, TriggersTypeOK
<1>1. ASSUME NEW step \in {"stop", "remove"}, Begin("consumer", step, c)
      PROVE  SafeInv'
  <2> USE <1>1, Begins DEF Processes, SafeInv, HandleRemoved, documents
  <2>1. StepsInv'
    BY DEF StepsInv, Creating, Removing, EventsInv
  <2>2. ChannelsInv'
    BY DEF ChannelsInv, Holds, New
  <2>3. WatchInv'
    BY DEF WatchInv, Replacing, Past, Alive
  <2> QED
    BY <2>1, <2>2, <2>3
<1> QED
  BY <1>1, Zenon DEF HandleRemoved

LEMMA RefreshSafe ==
  ASSUME KnownInv, NEW c \in Connections, Refresh(c)
  PROVE  SafeInv'
<1>1. Begin("refresher", "stop", c)
  BY DEF Refresh
<1> USE <1>1, Begins DEF KnownInv, TypeOK, ConfigTypeOK, TriggersTypeOK, Processes, SafeInv,
                         Refresh, documents
<1>2. StepsInv'
  BY DEF StepsInv, Creating, Removing, Refreshing
<1>3. ChannelsInv'
  BY DEF ChannelsInv, Holds, New
<1>4. WatchInv'
  BY DEF WatchInv, Replacing, Past, Alive, Free
<1> QED
  BY <1>2, <1>3, <1>4

LEMMA RegisterSafe ==
  ASSUME KnownInv, NEW p \in Processes, Register(p)
  PROVE  SafeInv'
<1> USE DEF KnownInv, TypeOK, ConfigTypeOK, TriggersTypeOK
<1>0. proc[p].conn \in Connections
  BY DEF Register, BusyInv, Processes
<1>1. ASSUME NEW n \in Channels, registerFileChangeWebhook(n, proc[p].conn),
             proc' = [proc EXCEPT ![p].step = "store", ![p].read.channel = n],
             UNCHANGED <<created, unwatched>>
      PROVE  SafeInv'
  <2>1. /\ channels[n] = NoConnection
        /\ \A c \in Connections : config[c].channel # n
        /\ \A q \in Processes : proc[q].read.channel # n
        /\ channels' = [channels EXCEPT ![n] = proc[p].conn]
    BY <1>1 DEF registerFileChangeWebhook, Fresh, Unused, Remembering, Processes
  <2>o. /\ proc'[p].step = "store" /\ proc'[p].conn = proc[p].conn
        /\ proc'[p].read.channel = n
        /\ \A q \in Processes \ {p} : proc'[q] = proc[q]
    BY <1>1, Opens
  <2> USE <1>1, <2>1, <1>0, <2>o DEF Processes, SafeInv, Register, documents
  <2>2. StepsInv'
    BY DEF StepsInv, Creating, Removing, Refreshing
  <2>3. ChannelsInv'
    <3>1. \A c \in Connections : Holds(c, config[c].channel)'
      BY DEF ChannelsInv, Holds
    <3>2. \A q \in Processes : Holds(proc[q].conn, proc[q].read.channel)'
      BY DEF ChannelsInv, Holds
    <3>3. New(p)'
      BY DEF New
    <3>4. \A q \in Processes \ {p} : proc[q].step = "store" => New(q)'
      BY DEF ChannelsInv, New
    <3> QED
      BY <3>1, <3>2, <3>3, <3>4 DEF ChannelsInv
  <2>4. WatchInv'
    BY DEF WatchInv, Replacing, Past, Alive
  <2> QED
    BY <2>2, <2>3, <2>4
<1>2. ASSUME unwatched' = unwatched \cup {proc[p].conn}, End(p), UNCHANGED channels
      PROVE  SafeInv'
  <2> USE <1>0, <1>2, Ends DEF Processes, SafeInv, Register, documents, Free
  <2>1. StepsInv'
    BY DEF StepsInv, Creating, Removing, Refreshing
  <2>2. ChannelsInv'
    BY DEF ChannelsInv, Holds, New, NoConfig, NoChannel, Channels
  <2>3. WatchInv'
    BY DEF WatchInv, Replacing, Past, Alive
  <2> QED
    BY <2>1, <2>2, <2>3
<1> QED
  BY <1>1, <1>2 DEF Register


LEMMA StoreSafe ==
  ASSUME KnownInv, NEW p \in Processes, Store(p)
  PROVE  SafeInv'
<1> DEFINE c == proc[p].conn
           n == proc[p].read.channel
<1> USE DEF KnownInv, TypeOK, ConfigTypeOK, TriggersTypeOK
<1>1. c \in Connections /\ n \in Channels /\ channels[n] = c
  BY DEF Store, BusyInv, Processes, SafeInv, ChannelsInv, New
<1>2. ASSUME conn[c] # "active", UNCHANGED <<config, unwatched>>, End(p)
      PROVE  SafeInv'
  <2>e. /\ proc'[p] = Free /\ \A q \in Processes \ {p} : proc'[q] = proc[q]
        /\ \A d \in Connections : created'[d] = IF p = "consumer" /\ d = c THEN "handled" ELSE created[d]
    BY <1>2, Ends
  <2> USE <1>1, <1>2, <2>e DEF Processes, SafeInv, Store, documents, Free
  <2>1. StepsInv'
    BY DEF BusyInv, StepsInv, Creating, Removing, Refreshing
  <2>2. ChannelsInv'
    BY DEF ChannelsInv, Holds, New, NoConfig, NoChannel, Channels
  <2>3. WatchInv'
    BY DEF WatchInv, Replacing, Past, Alive
  <2> QED
    BY <2>1, <2>2, <2>3
<1>3. ASSUME conn[c] = "active", config' = [config EXCEPT ![c].channel = n], unwatched' = unwatched \ {c}
      PROVE  SafeInv'
  <2>r. /\ config'[c].channel = n
        /\ \A d \in Connections \ {c} : config'[d] = config[d]
    BY <1>1, <1>3, Remembers DEF Channels
  <2>1. ASSUME p = "consumer", ToStep(p, "add"), UNCHANGED created
        PROVE  SafeInv'
    <3>g. /\ proc'[p].step = "add" /\ proc'[p].conn = c /\ proc'[p].read = proc[p].read
          /\ \A q \in Processes \ {p} : proc'[q] = proc[q]
      BY <2>1, Goes
    <3> USE <1>1, <1>3, <2>r, <2>1, <3>g DEF Processes, SafeInv, Store, documents
    <3>1. StepsInv'
      BY DEF StepsInv, Creating, Removing, Refreshing
    <3>2. ChannelsInv'
      BY DEF ChannelsInv, Holds, New
    <3>3. WatchInv'
      BY DEF WatchInv, StepsInv, Replacing, Past, Alive, Creating
    <3> QED
      BY <3>1, <3>2, <3>3
  <2>2. ASSUME p = "refresher", End(p)
        PROVE  SafeInv'
    <3>e. /\ proc'[p] = Free /\ \A q \in Processes \ {p} : proc'[q] = proc[q]
          /\ \A d \in Connections : created'[d] = created[d]
      BY <2>2, Ends
    <3> USE <1>1, <1>3, <2>r, <2>2, <3>e DEF Processes, SafeInv, Store, documents, Free
    <3>1. StepsInv'
      BY DEF BusyInv, StepsInv, Creating, Removing, Refreshing
    <3>2. ChannelsInv'
      BY DEF ChannelsInv, Holds, New, NoConfig, NoChannel, Channels
    <3>3. WatchInv'
      BY DEF WatchInv, StepsInv, Replacing, Past, Alive
    <3> QED
      BY <3>1, <3>2, <3>3
  <2> QED
    BY <1>3, <2>1, <2>2 DEF Store, Processes
<1> QED
  BY <1>2, <1>3 DEF Store

LEMMA AddJobSafe ==
  ASSUME KnownInv, AddJob
  PROVE  SafeInv'
<1> DEFINE c == proc["consumer"].conn
<1> USE DEF KnownInv, TypeOK, ConfigTypeOK, TriggersTypeOK
<1>0. c \in Connections
  BY DEF AddJob, BusyInv
<1>1. ASSUME NEW step \in {"interval", "trigger"}, ToStep("consumer", step),
             jobs' = jobs \cup {c}
      PROVE  SafeInv'
  <2>g. /\ proc'["consumer"].step = step /\ proc'["consumer"].conn = c
        /\ proc'["consumer"].read = proc["consumer"].read
        /\ proc'["refresher"] = proc["refresher"]
    BY <1>1, Goes DEF Processes
  <2> USE <1>0, <1>1, <2>g DEF Processes, SafeInv, AddJob, documents
  <2>1. StepsInv'
    BY DEF StepsInv, Creating, Removing, Refreshing
  <2>2. ChannelsInv'
    BY DEF ChannelsInv, Holds, New
  <2>3. WatchInv'
    BY DEF WatchInv, Replacing, Past, Alive
  <2> QED
    BY <2>1, <2>2, <2>3
<1>2. ASSUME proc' = [proc EXCEPT !["consumer"] = Free], UNCHANGED jobs
      PROVE  SafeInv'
  <2>e. proc'["consumer"] = Free /\ proc'["refresher"] = proc["refresher"]
    BY <1>2
  <2> USE <1>0, <1>2, <2>e DEF Processes, SafeInv, AddJob, documents, Free
  <2>1. StepsInv'
    BY DEF StepsInv, Creating, Removing, Refreshing
  <2>2. ChannelsInv'
    BY DEF ChannelsInv, Holds, New, NoConfig, NoChannel, Channels
  <2>3. WatchInv'
    BY DEF WatchInv, Replacing, Past, Alive
  <2> QED
    BY <2>1, <2>2, <2>3
<1> QED
  BY <1>1, <1>2 DEF AddJob

LEMMA StoreIntervalSafe ==
  ASSUME KnownInv, StoreInterval
  PROVE  SafeInv'
<1> DEFINE c == proc["consumer"].conn
<1> USE DEF KnownInv, TypeOK, ConfigTypeOK, TriggersTypeOK
<1>0. c \in Connections
  BY DEF StoreInterval, BusyInv
<1>1. ASSUME config' = [config EXCEPT ![c].interval = TRUE], ToStep("consumer", "trigger"),
             UNCHANGED created
      PROVE  SafeInv'
  <2>g. /\ proc'["consumer"].step = "trigger" /\ proc'["consumer"].conn = c
        /\ proc'["consumer"].read = proc["consumer"].read
        /\ proc'["refresher"] = proc["refresher"]
    BY <1>1, Goes DEF Processes
  <2>m. \A d \in Connections : config'[d].channel = config[d].channel
    BY <1>0, <1>1, MarksInterval
  <2> USE <1>0, <1>1, <2>g, <2>m DEF Processes, SafeInv, StoreInterval, documents
  <2>1. StepsInv'
    BY DEF StepsInv, Creating, Removing, Refreshing
  <2>2. ChannelsInv'
    BY DEF ChannelsInv, Holds, New
  <2>3. WatchInv'
    BY DEF WatchInv, Replacing, Past, Alive
  <2> QED
    BY <2>1, <2>2, <2>3
<1>2. ASSUME conn[c] # "active", UNCHANGED config, End("consumer")
      PROVE  SafeInv'
  <2>e. /\ proc'["consumer"] = Free /\ proc'["refresher"] = proc["refresher"]
        /\ \A d \in Connections : created'[d] = IF d = c THEN "handled" ELSE created[d]
    BY <1>2, Ends DEF Processes
  <2> USE <1>0, <1>2, <2>e DEF Processes, SafeInv, StoreInterval, documents, Free
  <2>1. StepsInv'
    BY DEF StepsInv, Creating, Removing, Refreshing
  <2>2. ChannelsInv'
    BY DEF ChannelsInv, Holds, New, NoConfig, NoChannel, Channels
  <2>3. WatchInv'
    BY DEF WatchInv, Replacing, Past, Alive
  <2> QED
    BY <2>1, <2>2, <2>3
<1> QED
  BY <1>1, <1>2 DEF StoreInterval

\* The last step of the handler: all it had to do is done.
LEMMA FirstTriggerSafe ==
  ASSUME KnownInv, FirstTrigger
  PROVE  SafeInv'
<1> DEFINE c == proc["consumer"].conn
<1> USE DEF KnownInv, TypeOK, ConfigTypeOK, TriggersTypeOK
<1>1. /\ proc'["consumer"] = Free /\ proc'["refresher"] = proc["refresher"]
      /\ \A d \in Connections : created'[d] = IF d = c THEN "handled" ELSE created[d]
  BY Ends DEF FirstTrigger, Processes
<1> USE <1>1 DEF Processes, SafeInv, FirstTrigger, documents, Free
<1>2. StepsInv'
  BY DEF StepsInv, Creating, Removing, Refreshing
<1>3. ChannelsInv'
  BY DEF ChannelsInv, Holds, New, NoConfig, NoChannel, Channels
<1>4. WatchInv'
  BY DEF WatchInv, Replacing, Past, Alive
<1> QED
  BY <1>2, <1>3, <1>4


LEMMA StopSafe ==
  ASSUME KnownInv, NEW p \in Processes, Stop(p)
  PROVE  SafeInv'
<1> DEFINE n == proc[p].read.channel
           step == IF p = "consumer" THEN "remove" ELSE "register"
<1> USE DEF KnownInv, TypeOK, ConfigTypeOK, TriggersTypeOK
<1>1. /\ proc'[p].step = step /\ proc'[p].conn = proc[p].conn /\ proc'[p].read = proc[p].read
      /\ \A q \in Processes \ {p} : proc'[q] = proc[q]
  BY Goes DEF Stop
<1>2. /\ proc[p].conn \in Connections
      /\ p = "consumer" => conn[proc[p].conn] = "deleted"
  BY DEF Stop, BusyInv, Processes, SafeInv, StepsInv, Removing, EventsInv
\* The channel that stops, if one does, is nobody else's.
<1>3. \A m \in Channels : channels'[m] = channels[m] \/ (m = n /\ channels'[m] = NoConnection)
  BY DEF Stop, stopFileChangeWebhook
<1> USE <1>1, <1>2, <1>3 DEF Processes, SafeInv, Stop, documents
<1>4. StepsInv'
  BY DEF StepsInv, Creating, Removing, Refreshing
<1>5. ChannelsInv'
  BY DEF ChannelsInv, Holds, New
<1>6. WatchInv'
  <2> SUFFICES ASSUME NEW c \in Connections, conn[c] = "active", c \notin unwatched, ~ Replacing(c)'
               PROVE  /\ Past(c, {"interval", "trigger"})' => c \in jobs
                      /\ provider = "google" /\ Past(c, {"add", "interval", "trigger"})' => Alive(c)'
    BY DEF WatchInv
  <2>1. /\ ~ Replacing(c)
        /\ \A steps \in {{"interval", "trigger"}, {"add", "interval", "trigger"}} :
             Past(c, steps)' => Past(c, steps)
    BY DEF Replacing, Past
  <2>2. c # proc[p].conn
    BY DEF Replacing
  <2>3. Alive(c) => Alive(c)'
    BY <2>2, SMT DEF Alive, ChannelsInv, Holds, NoConnection, Connections
  <2> QED
    BY <2>1, <2>3 DEF WatchInv
<1> QED
  BY <1>4, <1>5, <1>6

LEMMA RemoveJobSafe ==
  ASSUME KnownInv, RemoveJob
  PROVE  SafeInv'
<1> DEFINE c == proc["consumer"].conn
<1> USE DEF KnownInv, TypeOK, ConfigTypeOK, TriggersTypeOK
<1>1. c \in Connections /\ conn[c] = "deleted"
  BY DEF RemoveJob, BusyInv, SafeInv, StepsInv, Removing, EventsInv
<1>2. jobs \ {c} \subseteq jobs'
  BY DEF RemoveJob
<1>3. proc'["consumer"] = Free /\ proc'["refresher"] = proc["refresher"]
  BY DEF RemoveJob
<1> USE <1>1, <1>2, <1>3 DEF Processes, SafeInv, RemoveJob, documents, Free
<1>4. StepsInv'
  BY DEF StepsInv, Creating, Removing, Refreshing
<1>5. ChannelsInv'
  BY DEF ChannelsInv, Holds, New, NoConfig, NoChannel, Channels
<1>6. WatchInv'
  BY DEF WatchInv, Replacing, Past, Alive
<1> QED
  BY <1>4, <1>5, <1>6

\* Nothing is forgotten in a crash but the channel that was being replaced.
LEMMA ServiceCrashesSafe ==
  ASSUME KnownInv, ServiceCrashes
  PROVE  SafeInv'
<1> USE DEF KnownInv, TypeOK, ConfigTypeOK, TriggersTypeOK
<1>1. \A q \in Processes : proc'[q] = Free
  BY DEF ServiceCrashes, Processes
<1> USE <1>1 DEF Processes, SafeInv, ServiceCrashes, documents, Free
<1>2. StepsInv'
  BY DEF StepsInv, Creating, Removing, Refreshing
<1>3. ChannelsInv'
  BY DEF ChannelsInv, Holds, New, NoConfig, NoChannel, Channels
<1>4. WatchInv'
  BY DEF WatchInv, Replacing, Past, Alive
<1> QED
  BY <1>2, <1>3, <1>4

LEMMA RedeliverSafe ==
  ASSUME KnownInv, NEW c \in Connections, Redeliver(c)
  PROVE  SafeInv'
<1> USE DEF KnownInv, TypeOK, ConfigTypeOK, TriggersTypeOK, SafeInv, Redeliver, documents
<1>1. \A d \in Connections : /\ created'[d] \in {created[d], "pending"}
                             /\ removed'[d] \in {removed[d], "pending"}
  BY SMT
<1>2. StepsInv'
  BY <1>1, SMT DEF StepsInv, BusyInv, Creating, Removing
<1>3. ChannelsInv'
  BY DEF ChannelsInv, Holds, New
<1>4. WatchInv'
  BY <1>1, SMT DEF WatchInv, Replacing, Past, Alive
<1> QED
  BY <1>2, <1>3, <1>4

LEMMA ExpireSafe ==
  ASSUME KnownInv, NEW n \in Channels, Expire(n)
  PROVE  SafeInv'
<1> USE DEF KnownInv, TypeOK, ConfigTypeOK, TriggersTypeOK, SafeInv, Expire, configVars
<1>1. /\ \A c \in Connections : config[c].channel # n
      /\ \A p \in Processes : proc[p].read.channel # n
  BY DEF Remembering, Processes
<1>2. \A m \in Channels : channels'[m] = IF m = n THEN NoConnection ELSE channels[m]
  OBVIOUS
<1>3. StepsInv'
  BY DEF StepsInv
<1>4. ChannelsInv'
  BY <1>1, <1>2 DEF ChannelsInv, Holds, New
<1>5. WatchInv'
  BY <1>1, <1>2 DEF WatchInv, Replacing, Past, Alive
<1> QED
  BY <1>3, <1>4, <1>5

LEMMA TriggerSafe ==
  ASSUME SafeInv, NEW c, Trigger(c) \/ TakeTrigger(c)
  PROVE  SafeInv'
  BY DEF Trigger, TakeTrigger, configVars, SafeInv, StepsInv, ChannelsInv, Holds, New, WatchInv,
         Replacing, Past, Alive

-----------------------------------------------------------------------------
LEMMA StartsSafe ==
  ASSUME Init
  PROVE  EventsInv /\ SafeInv
<1> USE DEF Init, ConfigInit, TriggersInit
<1>1. EventsInv
  BY SMT DEF EventsInv, Closed
<1>2. StepsInv
  BY DEF StepsInv, Creating, Removing, Free
<1>3. ChannelsInv
  BY DEF ChannelsInv, Holds, Processes, Free
<1>4. WatchInv
  BY DEF WatchInv
<1> QED
  BY <1>1, <1>2, <1>3, <1>4 DEF SafeInv

LEMMA StepSafe ==
  ASSUME KnownInv, TriggersNext
  PROVE  SafeInv'
<1>1. ASSUME ConsumerStep \/ RefresherStep
      PROVE  SafeInv'
  BY <1>1, HandleCreatedSafe, HandleRemovedSafe, RegisterSafe, StoreSafe, AddJobSafe,
     StoreIntervalSafe, FirstTriggerSafe, StopSafe, RemoveJobSafe
     DEF ConsumerStep, RefresherStep, Processes
<1>2. ASSUME TriggersEvent
      PROVE  SafeInv'
  BY <1>2, RefreshSafe, RedeliverSafe, ExpireSafe, ServiceCrashesSafe, TriggerSafe
     DEF TriggersEvent, Tick, ManualTrigger, ManualTriggerOfSource, Notify, KnownInv
<1>3. ASSUME NEW c \in Connections, TakeTrigger(c)
      PROVE  SafeInv'
  BY <1>3, TriggerSafe DEF KnownInv
<1> QED
  BY <1>1, <1>2, <1>3 DEF TriggersNext

\* A connection whose creation is handled has its job and, for Google, the
\* channel its trigger remembers is alive, unless its last channel was refused
\* or a crash lost it: however the handler of the creation, a refreshment of
\* the same connection, the deletion, crashes and repeated deliveries fall
\* together.
THEOREM WatchedAlways == Spec => []Watched
<1>1. Init => KnownInv
  BY StartsTyped, StartsSafe DEF KnownInv
<1>2. KnownInv /\ [Next]_vars => KnownInv'
  <2>1. ASSUME KnownInv, UNCHANGED vars
        PROVE  KnownInv'
    BY <2>1 DEF vars, configVars, triggerVars, KnownInv, TypeOK, ConfigTypeOK, TriggersTypeOK,
                BusyInv, EventsInv, SafeInv, StepsInv, ChannelsInv, Holds, New, WatchInv,
                Replacing, Past, Alive
  <2>2. ASSUME KnownInv, ConfigNext
        PROVE  KnownInv'
    <3>1. BusyInv'
      BY <2>2, ConfigTypes DEF KnownInv, BusyInv, triggerVars
    <3> QED
      BY <2>2, <3>1, ConfigTypes, ConfigEvents, ConfigSafe DEF KnownInv
  <2>3. ASSUME KnownInv, TriggersNext
        PROVE  KnownInv'
    BY <2>3, TriggersTypes, TriggersEvents, StepSafe DEF KnownInv, SafeInv
  <2> QED
    BY <2>1, <2>2, <2>3 DEF Next, ConfigNext, TriggersNext
<1>3. KnownInv => Watched
  <2> SUFFICES ASSUME KnownInv, NEW c \in Active, created[c] = "handled", c \notin unwatched,
                      \A p \in DOMAIN proc : proc[p].conn # c
               PROVE  c \in jobs /\ (provider = "google" => channels[config[c].channel] = c)
    BY DEF Watched
  <2>1. "refresher" \in DOMAIN proc
    BY DEF KnownInv, TypeOK, TriggersTypeOK
  <2> QED
    BY <2>1 DEF KnownInv, SafeInv, WatchInv, Active, Replacing, Past, Alive
<1> QED
  BY <1>1, <1>2, <1>3, PTL DEF Spec
=============================================================================
