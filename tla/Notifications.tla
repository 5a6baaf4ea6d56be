---------------------------- MODULE Notifications ----------------------------
(***************************************************************************)
(* Notifications: the webhook service consumes the platform's events, and  *)
(* for each webhook that asks for one it queues a job in Redis, under the  *)
(* webhook's id, that posts the event to the webhook's address.            *)
(*                                                                         *)
(* Each event has a topic of its own; the order of events is kept within a *)
(* topic only, and a message whose consumer dies comes again. A single     *)
(* processor runs the jobs: it waits for an answer for a while, and a post *)
(* that fails or is not answered in time is tried again after a delay.     *)
(* The receiver goes on with a post nobody waits for any more.             *)
(***************************************************************************)
EXTENDS Integers, Sequences, SequencesExt, TLC

CONSTANTS
  Sources,      \* data sources
  None,         \* no data source, no webhook
  Hooks,        \* ids of webhooks
  Topics,       \* the events that happen
  MaxVersions,  \* bound: syncs of a data source
  MaxCalls,     \* bound: posts the receiver works on at a time
  Attempts,     \* of a job: 5 in the code
  MaxFails      \* bound: failed posts, late answers, repeated messages

\* The event each type of webhook asks for.
WebhookType ==
     "connection-created" :> "sync-connection-created"
  @@ "syncflow-scheduled" :> "syncflow-scheduled"
  @@ "syncflow-succeed"   :> "syncflow-succeed"
  @@ "syncflow-completed" :> "syncflow-completed"
  @@ "syncflow-failed"    :> "syncflow-failed"
  @@ "data-source-deleted" :> "data-source-deleted"
  @@ "data-source-error"  :> "data-source-error"

ASSUME NotificationsAssumption ==
  /\ Topics \subseteq DOMAIN WebhookType
  /\ None \notin Sources \cup Hooks
  /\ {MaxVersions, MaxFails} \subseteq Nat
  /\ {MaxCalls, Attempts} \subseteq Nat \ {0}

VARIABLES
  stage,    \* per data source: its life, and its schema's version
  topics,   \* per event: the messages not consumed yet
  hook,     \* per id: the webhook in the database
  job,      \* per webhook: the job with its id in the queue
  active,   \* the webhook whose job the processor runs, and the post's number
  calls,    \* per number: the post the receiver works on
  fails

noteVars == <<stage, topics, hook, job, active, calls, fails>>

Calls == 1 .. MaxCalls
Payload == [source : Sources, version : 0 .. MaxVersions]
NoPayload == [source |-> None, version |-> 0]
\* A webhook without a source is of global scope.
Webhook == [type : {WebhookType[e] : e \in Topics}, source : Sources \cup {None}]
NoHook == [type |-> "none", source |-> None]
NoJob == [left |-> 0, payload |-> NoPayload]
Idle == [hook |-> None, call |-> 0]
NoCall == [hook |-> None, payload |-> NoPayload, step |-> "none", read |-> 0]

Stage(life, version) == [life |-> life, version |-> version]
Stages == [life : {"new", "live", "deleted"}, version : 0 .. MaxVersions]

NotificationsInit ==
  /\ stage = [d \in Sources |-> Stage("new", 0)]
  /\ topics = [e \in Topics |-> <<>>]
  /\ hook = [w \in Hooks |-> NoHook]
  /\ job = [w \in Hooks |-> NoJob]
  /\ active = Idle
  /\ calls = [k \in Calls |-> NoCall]
  /\ fails = 0

\* The platform: a connection is created, its data source is synced, each
\* time with another schema, and deleted in the end; the schema is kept.
Publish(d, event, life, version) ==
  /\ event \in Topics
  /\ topics' = [topics EXCEPT ![event] = Append(@, [source |-> d, version |-> version])]
  /\ stage' = [stage EXCEPT ![d] = Stage(life, version)]
  /\ UNCHANGED <<hook, job, active, calls, fails>>
Platform(d) ==
  LET version == stage[d].version IN
  \/ stage[d].life = "new" /\ Publish(d, "connection-created", "live", 0)
  \/ /\ stage[d].life = "live"
     /\ \/ version < MaxVersions /\ Publish(d, "syncflow-succeed", "live", version + 1)
        \/ Publish(d, "data-source-deleted", "deleted", version)

\* POST /webhooks and /webhooks/bulk: of one webhook, or of several at once,
\* of which one for a data source that is unknown spoils all.
Created(type, source) == [type |-> type, source |-> source]
Creatable(source) == \A d \in Sources : d = source => stage[d].life = "live"
create(w, type, source) ==
  /\ hook[w] = NoHook
  /\ Creatable(source)
  /\ hook' = [hook EXCEPT ![w] = Created(type, source)]
  /\ UNCHANGED <<stage, topics, job, active, calls, fails>>
bulkCreate(request) ==
  /\ \A w \in DOMAIN request : hook[w] = NoHook /\ Creatable(request[w].source)
  /\ hook' = [w \in Hooks |-> IF w \in DOMAIN request
                              THEN Created(request[w].type, request[w].source) ELSE hook[w]]
  /\ UNCHANGED <<stage, topics, job, active, calls, fails>>
\* All webhooks are: no code makes one inactive, or deletes one.
getActiveWebhooksByType(type, source) ==
  {w \in Hooks : hook[w].type = type /\ hook[w].source \in {None, source}}

\* A job is added for each webhook: none if one with its id is still there.
addWebhookExecution(event, payload) ==
  job' = [w \in Hooks |->
            IF w \in getActiveWebhooksByType(WebhookType[event], payload.source) /\ job[w] = NoJob
            THEN [left |-> Attempts, payload |-> payload]
            ELSE job[w]]

\* A message is consumed, or handled without being consumed.
Consume(event) ==
  /\ topics[event] # <<>>
  /\ addWebhookExecution(event, Head(topics[event]))
  /\ \/ topics' = [topics EXCEPT ![event] = Tail(@)] /\ UNCHANGED fails
     \/ fails < MaxFails /\ fails' = fails + 1 /\ UNCHANGED topics
  /\ UNCHANGED <<stage, hook, active, calls>>

\* The processor: it posts.
Free(k) == calls[k] = NoCall /\ \A j \in 1 .. k - 1 : calls[j] # NoCall
executeWebhook(w) ==
  /\ active = Idle
  /\ job[w] # NoJob
  /\ \E k \in Calls :
       /\ Free(k)
       /\ active' = [hook |-> w, call |-> k]
       /\ calls' = [calls EXCEPT ![k] = [hook |-> w, payload |-> job[w].payload,
                                         step |-> "begin", read |-> 0]]
  /\ UNCHANGED <<stage, topics, hook, job, fails>>

\* As a bug would: the attempts are counted and never looked at.
RetriesForEver(w) == [job[w] EXCEPT !.left = @ - 1]
\* A job that failed waits to be tried again, or has been tried often enough.
Retries(w) == IF job[w].left > 1 THEN [job[w] EXCEPT !.left = @ - 1] ELSE NoJob
\* The answer to a post: to the processor if it still waits for it.
AwaitedBy(k) == active.call = k
Answered(k) ==
  /\ calls' = [calls EXCEPT ![k] = NoCall]
  /\ active' = IF AwaitedBy(k) THEN Idle ELSE active
  /\ job' = IF AwaitedBy(k) THEN [job EXCEPT ![active.hook] = NoJob] ELSE job
\* As a bug would: the error is logged and not thrown again.
RefusedForGood(k) ==
  /\ calls[k] # NoCall
  /\ fails < MaxFails
  /\ fails' = fails + 1
  /\ Answered(k)
  /\ UNCHANGED <<stage, topics, hook>>
\* The receiver dies of the post, or was not to be reached.
Refused(k) ==
  /\ calls[k] # NoCall
  /\ fails < MaxFails
  /\ fails' = fails + 1
  /\ calls' = [calls EXCEPT ![k] = NoCall]
  /\ active' = IF AwaitedBy(k) THEN Idle ELSE active
  /\ job' = IF AwaitedBy(k) THEN [job EXCEPT ![active.hook] = Retries(active.hook)] ELSE job
  /\ UNCHANGED <<stage, topics, hook>>
\* The job's time is up, or the answer is lost; the receiver does not know.
TimesOut ==
  /\ active # Idle
  /\ fails < MaxFails
  /\ fails' = fails + 1
  /\ job' = [job EXCEPT ![active.hook] = Retries(active.hook)]
  /\ active' = Idle
  /\ UNCHANGED <<stage, topics, hook, calls>>
=============================================================================
