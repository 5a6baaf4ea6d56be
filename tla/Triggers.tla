------------------------------ MODULE Triggers ------------------------------
(***************************************************************************)
(* The trigger layer: the services that turn a connection into triggers of *)
(* its syncflow. An Excel connection has a repeatable cron job; a Google   *)
(* one has a channel on which the provider sends notifications and a       *)
(* repeatable job that replaces the channel before it expires.             *)
(*                                                                         *)
(* A service consumes CONNECTION_CREATED and CONNECTION_DELETED, one       *)
(* message at a time; a message whose handler dies comes again. Beside the *)
(* consumer runs the processor of the refreshment jobs. An error in the    *)
(* webhook service's handlers is swallowed, and the message with it; one   *)
(* in the cron service's brings the message again, like a crash.           *)
(***************************************************************************)
EXTENDS Configurator, Integers

CONSTANTS
  MaxChannels,   \* bound: channels that live or are remembered at a time
  MaxCrashes     \* bound: crashes of the service and repeated deliveries

ASSUME TriggersAssumption ==
  /\ MaxChannels \in Nat \ {0}
  /\ MaxCrashes \in Nat

VARIABLES
  provider,    \* of the data source: it decides which service is in charge
  config,      \* per connection: the config of its trigger
  jobs,        \* connections with a repeatable job in Redis
  channels,    \* per channel: the connection it notifies of, while it lives
  proc,        \* the consumer and the refresher: the step to come
  unwatched,   \* connections whose last channel was refused, or lost in a crash
  triggered,   \* connections with a WORKFLOW_TRIGGERED on its way
  crashes

triggerVars == <<provider, config, jobs, channels, proc, unwatched, triggered, crashes>>

Channels == 1 .. MaxChannels
NoChannel == 0

\* Of an Excel trigger, whether its cron is a cron expression.
TriggerConfig == [channel : 0 .. MaxChannels, interval : BOOLEAN, cron : BOOLEAN]
NoConfig == [channel |-> NoChannel, interval |-> FALSE, cron |-> FALSE]

\* In half minutes: the numbers a request may give as its frequency, and the
\* minutes an expression names. The first minute is random.
Frequencies(body) == IF body.frequency = "right" THEN {-8, 0, 3, 8, 120, 122} ELSE {0}
createCronExpressionFromFrequency(halves) ==
  {[first |-> m, step |-> halves] :
     m \in IF halves > 0 THEN 0 .. (halves - 1) \div 2 ELSE halves \div 2 .. 0}
IsExpression(cron) == cron.first \in 0 .. 59 /\ cron.step > 0 /\ cron.step % 2 = 0
\* Whether it is one, after it is computed from a request or from the default.
CronOutcomes ==
  {IsExpression(cron) : cron \in UNION {createCronExpressionFromFrequency(IF h = 0 THEN 8 ELSE h) :
                                        h \in UNION {Frequencies(b) : b \in SyncConnectionRequests}}}
buildTriggerData ==
  IF provider = "excel" THEN {[NoConfig EXCEPT !.cron = b] : b \in CronOutcomes} ELSE {NoConfig}

\* "read" is the config in the trigger that was read, or the new channel.
Process == [step : {"idle", "register", "store", "add", "interval", "trigger",
                    "stop", "remove"},
            conn : 0 .. MaxConnections, read : TriggerConfig]
Free == [step |-> "idle", conn |-> NoConnection, read |-> NoConfig]

TriggersTypeOK ==
  /\ provider \in {"excel", "google"}
  /\ config \in [Connections -> TriggerConfig]
  /\ jobs \subseteq Connections
  /\ channels \in [Channels -> 0 .. MaxConnections]
  /\ proc \in [{"consumer", "refresher"} -> Process]
  /\ unwatched \subseteq Connections
  /\ triggered \subseteq Connections
  /\ crashes \in 0 .. MaxCrashes

TriggersInit ==
  /\ provider \in {"excel", "google"}
  /\ config \in [Connections -> buildTriggerData]
  /\ jobs = {}
  /\ channels = [n \in Channels |-> NoConnection]
  /\ proc = [p \in {"consumer", "refresher"} |-> Free]
  /\ unwatched = {}
  /\ triggered = {}
  /\ crashes = 0

\* Which trigger a provider's only syncflow has.
ExcelSyncflow == [trigger |-> "cron"]
GoogleSyncflow == [trigger |-> "webhook"]
SyncflowRegistry == [excel |-> ExcelSyncflow, google |-> GoogleSyncflow]
IsWebhook == SyncflowRegistry[provider].trigger = "webhook"

\* A trigger as the database finds it, unless it is deleted: by its id, by its
\* syncflow's, all of the data source, and by the channel in its config.
getById(c) == conn[c] = "active"
getByWorkflowId(c) == conn[c] = "active"
getByDataSourceId == {c \in Connections : conn[c] = "active"}
Remembering(n) == {c \in Connections : config[c].channel = n}
getByConfig(n) == {c \in Remembering(n) : conn[c] = "active"}

\* An id nothing holds stands for a new uuid: the least one, as ids are alike.
Unused(n) == /\ channels[n] = NoConnection
             /\ Remembering(n) = {}
             /\ \A p \in DOMAIN proc : proc[p].read.channel # n
Fresh(n) == Unused(n) /\ \A m \in 1 .. n - 1 : ~Unused(m)

ToStep(p, step) == proc' = [proc EXCEPT ![p].step = step]
Begin(p, step, c) == proc' = [proc EXCEPT ![p] = [step |-> step, conn |-> c, read |-> config[c]]]
\* The handler of CONNECTION_CREATED, or the refreshment job, ends.
End(p) ==
  /\ proc' = [proc EXCEPT ![p] = Free]
  /\ created' = IF p = "consumer" THEN [created EXCEPT ![proc[p].conn] = "handled"] ELSE created

\* What the trigger layer leaves alone of the configurator.
documents == <<source, conn, wf, drop>>

-----------------------------------------------------------------------------
(* Creating a channel: on CONNECTION_CREATED and when it is refreshed      *)

\* As a bug would: the message is gone before it is handled.
HandleCreatedAtOnce(c) ==
  /\ proc["consumer"] = Free
  /\ created[c] = "pending"
  /\ created' = [created EXCEPT ![c] = "handled"]
  /\ IF conn[c] = "active"
     THEN Begin("consumer", IF IsWebhook THEN "register" ELSE "add", c)
     ELSE UNCHANGED proc
  /\ UNCHANGED <<documents, removed, provider, config, jobs, channels, unwatched,
                 triggered, crashes>>

\* CONNECTION_CREATED, if the trigger is not deleted.
HandleCreated(c) ==
  /\ proc["consumer"] = Free
  /\ created[c] = "pending"
  /\ IF getByWorkflowId(c)
     THEN /\ Begin("consumer", IF IsWebhook THEN "register" ELSE "add", c)
          /\ UNCHANGED created
     ELSE created' = [created EXCEPT ![c] = "handled"] /\ UNCHANGED proc
  /\ UNCHANGED <<documents, removed, provider, config, jobs, channels, unwatched,
                 triggered, crashes>>

\* The provider opens the channel, or refuses.
registerFileChangeWebhook(n, c) == Fresh(n) /\ channels' = [channels EXCEPT ![n] = c]
Register(p) ==
  /\ proc[p].step = "register"
  /\ \/ \E n \in Channels :
          /\ registerFileChangeWebhook(n, proc[p].conn)
          /\ proc' = [proc EXCEPT ![p].step = "store", ![p].read.channel = n]
          /\ UNCHANGED <<created, unwatched>>
     \/ /\ unwatched' = unwatched \cup {proc[p].conn}
        /\ End(p)
        /\ UNCHANGED channels
  /\ UNCHANGED <<documents, removed, provider, config, jobs, triggered, crashes>>

\* A faulty update: replaces the config instead of changing it.
StoreReplaces(p) ==
  LET c == proc[p].conn IN
  /\ proc[p].step = "store"
  /\ IF conn[c] = "active"
     THEN /\ config' = [config EXCEPT ![c] = [channel |-> proc[p].read.channel]]
          /\ unwatched' = unwatched \ {c}
          /\ IF p = "consumer" THEN ToStep(p, "add") /\ UNCHANGED created ELSE End(p)
     ELSE UNCHANGED <<config, unwatched>> /\ End(p)
  /\ UNCHANGED <<documents, removed, provider, jobs, channels, triggered, crashes>>

\* A faulty refreshment: the new channel is not remembered.
StoreFirstOnly(p) ==
  LET c == proc[p].conn IN
  /\ proc[p].step = "store"
  /\ unwatched' = unwatched \ {c}
  /\ IF p = "consumer" /\ conn[c] = "active"
     THEN /\ config' = [config EXCEPT ![c].channel = proc[p].read.channel]
          /\ ToStep(p, "add")
          /\ UNCHANGED created
     ELSE UNCHANGED config /\ End(p)
  /\ UNCHANGED <<documents, removed, provider, jobs, channels, triggered, crashes>>

\* updateConfig throws if the trigger has been deleted: the new channel is then
\* known to nobody.
Store(p) ==
  LET c == proc[p].conn IN
  /\ proc[p].step = "store"
  /\ IF conn[c] = "active"
     THEN /\ config' = [config EXCEPT ![c].channel = proc[p].read.channel]
          /\ unwatched' = unwatched \ {c}
          /\ IF p = "consumer" THEN ToStep(p, "add") /\ UNCHANGED created ELSE End(p)
     ELSE UNCHANGED <<config, unwatched>> /\ End(p)
  /\ UNCHANGED <<documents, removed, provider, jobs, channels, triggered, crashes>>

\* The repeatable job: the cron job, or the refreshment job. A cron that is no
\* expression is refused: the handler throws, and the message comes again.
AddJob ==
  /\ proc["consumer"].step = "add"
  /\ IF IsWebhook \/ proc["consumer"].read.cron
     THEN /\ jobs' = jobs \cup {proc["consumer"].conn}
          /\ ToStep("consumer", IF IsWebhook THEN "interval" ELSE "trigger")
     ELSE proc' = [proc EXCEPT !["consumer"] = Free] /\ UNCHANGED jobs
  /\ UNCHANGED <<documents, created, removed, provider, config, channels, unwatched, triggered, crashes>>

\* The interval of the job, without which the job is not found again.
StoreInterval ==
  LET c == proc["consumer"].conn IN
  /\ proc["consumer"].step = "interval"
  /\ IF conn[c] = "active"
     THEN /\ config' = [config EXCEPT ![c].interval = TRUE]
          /\ ToStep("consumer", "trigger")
          /\ UNCHANGED created
     ELSE UNCHANGED config /\ End("consumer")
  /\ UNCHANGED <<documents, removed, provider, jobs, channels, unwatched, triggered, crashes>>

\* The first sync is triggered at once.
FirstTrigger ==
  /\ proc["consumer"].step = "trigger"
  /\ triggered' = triggered \cup {proc["consumer"].conn}
  /\ End("consumer")
  /\ UNCHANGED <<documents, removed, provider, config, jobs, channels, unwatched, crashes>>

-----------------------------------------------------------------------------
(* Stopping a channel: on CONNECTION_DELETED and when it is refreshed      *)

\* CONNECTION_DELETED: the trigger is read, deleted or not.
HandleRemoved(c) ==
  /\ proc["consumer"] = Free
  /\ removed[c] = "pending"
  /\ Begin("consumer", IF IsWebhook THEN "stop" ELSE "remove", c)
  /\ UNCHANGED <<documents, created, removed, provider, config, jobs, channels, unwatched,
                 triggered, crashes>>

\* A refreshment job runs; without a trigger it does nothing.
Refresh(c) ==
  /\ IsWebhook
  /\ c \in jobs
  /\ proc["refresher"] = Free
  /\ getById(c)
  /\ Begin("refresher", "stop", c)
  /\ UNCHANGED <<documents, created, removed, provider, config, jobs, channels, unwatched,
                 triggered, crashes>>

\* The channel stops, unless the provider fails, which is swallowed.
stopFileChangeWebhook(n) ==
  \/ n # NoChannel /\ channels' = [channels EXCEPT ![n] = NoConnection]
  \/ UNCHANGED channels
Stop(p) ==
  /\ proc[p].step = "stop"
  /\ stopFileChangeWebhook(proc[p].read.channel)
  /\ ToStep(p, IF p = "consumer" THEN "remove" ELSE "register")
  /\ UNCHANGED <<documents, created, removed, provider, config, jobs, unwatched,
                 triggered, crashes>>

\* A faulty handler: removes the job only of a trigger that still exists.
RemoveJobOfActive ==
  LET c == proc["consumer"].conn IN
  /\ proc["consumer"].step = "remove"
  /\ jobs' = IF conn[c] = "active" THEN jobs \ {c} ELSE jobs
  /\ removed' = [removed EXCEPT ![c] = "handled"]
  /\ proc' = [proc EXCEPT !["consumer"] = Free]
  /\ UNCHANGED <<documents, created, provider, config, channels, unwatched, triggered, crashes>>

\* The job is removed: a cron job by the expression in the config, which was
\* there from the start, a refreshment job by the interval, if it was stored.
RemoveJob ==
  LET c == proc["consumer"].conn IN
  /\ proc["consumer"].step = "remove"
  /\ jobs' = IF ~IsWebhook \/ proc["consumer"].read.interval THEN jobs \ {c} ELSE jobs
  /\ removed' = [removed EXCEPT ![c] = "handled"]
  /\ proc' = [proc EXCEPT !["consumer"] = Free]
  /\ UNCHANGED <<documents, created, provider, config, channels, unwatched, triggered, crashes>>

-----------------------------------------------------------------------------
(* Crashes, and what asks for syncs                                        *)

\* The service dies. The message it was handling is still pending; a channel
\* it was about to replace may be stopped already.
ServiceCrashes ==
  LET r == proc["refresher"] IN
  /\ crashes < MaxCrashes
  /\ \E p \in DOMAIN proc : proc[p] # Free
  /\ proc' = [p \in DOMAIN proc |-> Free]
  /\ unwatched' = IF r.step \in {"register", "store"} THEN unwatched \cup {r.conn} ELSE unwatched
  /\ crashes' = crashes + 1
  /\ UNCHANGED <<documents, created, removed, provider, config, jobs, channels, triggered>>

\* A message is delivered again.
Redeliver(c) ==
  /\ crashes < MaxCrashes
  /\ crashes' = crashes + 1
  /\ \/ created[c] = "handled" /\ created' = [created EXCEPT ![c] = "pending"] /\ UNCHANGED removed
     \/ removed[c] = "handled" /\ removed' = [removed EXCEPT ![c] = "pending"] /\ UNCHANGED created
  /\ UNCHANGED <<documents, provider, config, jobs, channels, proc, unwatched, triggered>>

\* A channel that is not refreshed expires.
Expire(n) ==
  /\ channels[n] # NoConnection
  /\ Remembering(n) = {}
  /\ ~ \E p \in DOMAIN proc : proc[p].read.channel = n
  /\ channels' = [channels EXCEPT ![n] = NoConnection]
  /\ UNCHANGED <<configVars, provider, config, jobs, proc, unwatched, triggered, crashes>>

Trigger(c) ==
  /\ triggered' = triggered \cup {c}
  /\ UNCHANGED <<configVars, provider, config, jobs, channels, proc, unwatched, crashes>>

\* A cron job is due: the trigger must not have been deleted.
Tick(c) == ~IsWebhook /\ c \in jobs /\ getById(c) /\ Trigger(c)

\* A notification: its channel must be that of some trigger, and the trigger
\* its URL names must not have been deleted.
Notify(n) ==
  /\ channels[n] # NoConnection
  /\ getByConfig(n) # {}
  /\ getById(channels[n])
  /\ Trigger(channels[n])

\* Of the data source's triggers, the one that is found again by its id.
getTriggerOfDataSource == {c \in getByDataSourceId : getById(c)}

\* POST /triggers/:id/manual.
ManualTrigger(c) == ByIdRequests # {} /\ getById(c) /\ Trigger(c)
\* POST /datasources/:id/triggers/manual.
ManualTriggerOfSource(c) ==
  /\ ByIdRequests # {}
  /\ source = "present"
  /\ c \in getTriggerOfDataSource
  /\ Trigger(c)

ConsumerStep ==
  \/ \E c \in Connections : HandleCreated(c) \/ HandleRemoved(c)
  \/ Register("consumer")
  \/ Store("consumer")
  \/ AddJob
  \/ StoreInterval
  \/ FirstTrigger
  \/ Stop("consumer")
  \/ RemoveJob

RefresherStep == Register("refresher") \/ Store("refresher") \/ Stop("refresher")

\* The controller layer takes the trigger.
TakeTrigger(c) ==
  /\ c \in triggered
  /\ triggered' = triggered \ {c}
  /\ UNCHANGED <<configVars, provider, config, jobs, channels, proc, unwatched, crashes>>

\* What happens when it happens.
TriggersEvent ==
  \/ \E c \in Connections : \/ Refresh(c) \/ Redeliver(c) \/ Tick(c)
                              \/ ManualTrigger(c) \/ ManualTriggerOfSource(c)
  \/ \E n \in Channels : Expire(n) \/ Notify(n)
  \/ ServiceCrashes

-----------------------------------------------------------------------------
vars == <<configVars, triggerVars>>

Init == ConfigInit /\ TriggersInit

Configure == (ConfiguratorStep \/ TerminateWorkflows) /\ UNCHANGED triggerVars
Ask == Request /\ UNCHANGED triggerVars
DropOne(c) == Drop(c) /\ UNCHANGED triggerVars

Next ==
  \/ Configure
  \/ Ask
  \/ ConsumerStep
  \/ RefresherStep
  \/ TriggersEvent
  \/ \E c \in Connections : DropOne(c) \/ TakeTrigger(c)

\* Temporal drives the workflows on, Kafka the consumer. Nobody need ask for
\* anything, and no job or notification need come.
Spec == Init /\ [][Next]_vars /\ WF_vars(Configure) /\ WF_vars(ConsumerStep)

-----------------------------------------------------------------------------
(* Properties                                                              *)

TypeOK == ConfigTypeOK /\ TriggersTypeOK

\* A connection whose creation is handled is watched: it has its job and, for
\* Google, the channel its trigger remembers is alive, however handler,
\* refreshment, crashes and repeated deliveries fall together; unless the
\* provider refused the last channel, or a crash lost it. The creation of one
\* whose frequency makes no cron expression is never handled.
Watched ==
  \A c \in Active :
    created[c] = "handled" /\ c \notin unwatched /\ (\A p \in DOMAIN proc : proc[p].conn # c)
    => /\ c \in jobs
       /\ provider = "google" => channels[config[c].channel] = c

\* A connection that is announced gets its first sync triggered, unless it is
\* deleted or its channel or cron is refused, and although the service crashes.
FirstSyncTriggered ==
  \A c \in Connections :
    created[c] = "pending" /\ (provider = "excel" => config[c].cron)
      ~> c \in triggered \/ conn[c] = "deleted" \/ c \in unwatched

\* A deletion that is announced removes the cron job for good.
JobRemoved ==
  \A c \in Connections :
    provider = "excel" /\ removed[c] = "pending" ~> [](c \notin jobs)
=============================================================================
