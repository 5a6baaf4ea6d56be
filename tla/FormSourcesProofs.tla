------------------------- MODULE FormSourcesProofs -------------------------
(***************************************************************************)
(* Theorems about FormSources: its types, and that form sync's data        *)
(* sources keep their metadata jobs (Refreshed, if a job has more than     *)
(* one attempt). For any data sources, webhooks, events, and numbers of    *)
(* posts at a time, attempts and failures.                                 *)
(***************************************************************************)
EXTENDS FormSources, TLAPS

USE NotificationsAssumption, FormSourcesAssumption

-----------------------------------------------------------------------------
(* Types                                                                   *)

Call == [hook : Hooks, payload : Payload,
         step : {"begin", "add", "update", "clean", "remove", "delete"}, read : 0 .. MaxJobs + MaxVersions]
Job == [left : 1 .. Attempts, payload : Payload]
DataSource == [there : {TRUE}, metadataJob : JobIds, schema : 0 .. MaxVersions]

\* A post that is there is none of the free numbers, and so with jobs.
LEMMA Absent ==
  /\ NoCall \notin Call /\ NoJob \notin Job
  /\ \A d \in Sources : NoCall.payload.source # d /\ NoJob.payload.source # d
  /\ Idle \notin [hook : Hooks, call : Calls]
<1>1. NoCall \notin Call
  BY SMT DEF NoCall, Call
<1>2. NoJob \notin Job
  BY SMT DEF NoJob, Job
<1>3. \A d \in Sources : NoCall.payload.source # d /\ NoJob.payload.source # d
  BY SMT DEF NoCall, NoJob, NoPayload
<1>4. Idle \notin [hook : Hooks, call : Calls]
  BY SMT DEF Idle
<1> QED
  BY <1>1, <1>2, <1>3, <1>4

\* What the types say of one post, one job and the processor.
LEMMA Typed ==
  ASSUME TypeOK
  PROVE  /\ \A k \in Calls : calls[k] = NoCall \/ calls[k] \in Call
         /\ \A k \in Calls : calls[k].step # "none" => calls[k] \in Call /\ calls[k] # NoCall
         /\ \A w \in Hooks : job[w] = NoJob \/ job[w] \in Job
         /\ active = Idle \/ (active.hook \in Hooks /\ active.call \in Calls /\ job[active.hook] \in Job)
         /\ \A k \in Calls : AwaitedBy(k) => active # Idle
<1>1. \A k \in Calls : calls[k] = NoCall \/ calls[k] \in Call
  BY DEF TypeOK, Call
<1>2. \A k \in Calls : calls[k].step # "none" => calls[k] \in Call /\ calls[k] # NoCall
  BY <1>1 DEF NoCall
<1>3. \A w \in Hooks : job[w] = NoJob \/ job[w] \in Job
  BY DEF TypeOK, Job
<1>4. active = Idle \/ (active.hook \in Hooks /\ active.call \in Calls /\ job[active.hook] \in Job)
  BY <1>3 DEF TypeOK
<1>5. \A k \in Calls : AwaitedBy(k) => active # Idle
  BY SMT DEF AwaitedBy, Idle, Calls
<1> QED
  BY <1>1, <1>2, <1>3, <1>4, <1>5

TypesOf(cs, js, a) ==
  /\ cs \in [Calls -> Call \cup {NoCall}]
  /\ js \in [Hooks -> Job \cup {NoJob}]
  /\ a \in [hook : Hooks, call : Calls] \cup {Idle}
  /\ a # Idle => js[a.hook] # NoJob

\* A post is done with: it was answered.
LEMMA Answers ==
  ASSUME TypeOK, NEW k \in Calls, Answered(k)
  PROVE  /\ TypesOf(calls, job, active)'
         /\ calls'[k] = NoCall
         /\ \A j \in Calls \ {k} : calls'[j] = calls[j]
         /\ active' = IF AwaitedBy(k) THEN Idle ELSE active
         /\ AwaitedBy(k) => job'[active.hook] = NoJob
         /\ \A w \in Hooks : ~ (AwaitedBy(k) /\ w = active.hook) => job'[w] = job[w]
<1> USE DEF Answered, TypeOK, Call, Job
<1>1. /\ calls' \in [Calls -> Call \cup {NoCall}]
      /\ calls'[k] = NoCall
      /\ \A j \in Calls \ {k} : calls'[j] = calls[j]
  BY DEF TypeOK
<1>2. CASE AwaitedBy(k)
  <2>1. active # Idle /\ active.hook \in Hooks
    BY <1>2, Typed
  <2>2. /\ job' \in [Hooks -> Job \cup {NoJob}] /\ job'[active.hook] = NoJob
        /\ \A w \in Hooks \ {active.hook} : job'[w] = job[w]
    BY <1>2, <2>1
  <2> QED
    BY <1>1, <1>2, <2>2 DEF TypesOf
<1>3. CASE ~ AwaitedBy(k)
  BY <1>1, <1>3 DEF TypesOf
<1> QED
  BY <1>2, <1>3

\* A job whose post failed is tried again, if it may be.
LEMMA RetriesTyped ==
  ASSUME TypeOK, NEW w \in Hooks, job[w] # NoJob
  PROVE  /\ Retries(w) \in Job \cup {NoJob}
         /\ job[w].left > 1 => Retries(w) \in Job /\ Retries(w).payload = job[w].payload
<1>1. job[w] \in Job
  BY Typed
<1>2. ASSUME job[w].left > 1
      PROVE  [job[w] EXCEPT !.left = @ - 1] \in Job
             /\ [job[w] EXCEPT !.left = @ - 1].payload = job[w].payload
  BY <1>1, <1>2, SMT DEF Job
<1> QED
  BY <1>1, <1>2 DEF Retries

\* A post failed.
LEMMA Fails ==
  ASSUME TypeOK, NEW k \in Calls, Refused(k)
  PROVE  /\ TypesOf(calls, job, active)'
         /\ calls'[k] = NoCall
         /\ \A j \in Calls \ {k} : calls'[j] = calls[j]
         /\ active' = IF AwaitedBy(k) THEN Idle ELSE active
         /\ AwaitedBy(k) => active.hook \in Hooks /\ job'[active.hook] = Retries(active.hook)
         /\ \A w \in Hooks : ~ (AwaitedBy(k) /\ w = active.hook) => job'[w] = job[w]
<1> USE DEF Refused, TypeOK, Call, Job
<1>1. /\ calls' \in [Calls -> Call \cup {NoCall}]
      /\ calls'[k] = NoCall
      /\ \A j \in Calls \ {k} : calls'[j] = calls[j]
  BY DEF TypeOK
<1>2. CASE AwaitedBy(k)
  <2>1. active # Idle /\ active.hook \in Hooks
    BY <1>2, Typed
  <2>2. Retries(active.hook) \in Job \cup {NoJob}
    BY <2>1, RetriesTyped
  <2>3. /\ job' \in [Hooks -> Job \cup {NoJob}] /\ job'[active.hook] = Retries(active.hook)
        /\ \A w \in Hooks \ {active.hook} : job'[w] = job[w]
    BY <1>2, <2>1, <2>2
  <2> QED
    BY <1>1, <1>2, <2>1, <2>3 DEF TypesOf
<1>3. CASE ~ AwaitedBy(k)
  BY <1>1, <1>3 DEF TypesOf
<1> QED
  BY <1>2, <1>3

\* Nobody waits any longer for the post.
LEMMA Times ==
  ASSUME TypeOK, TimesOut
  PROVE  /\ TypesOf(calls, job, active)'
         /\ active' = Idle
         /\ active.hook \in Hooks /\ job[active.hook] # NoJob
         /\ job'[active.hook] = Retries(active.hook)
         /\ \A w \in Hooks \ {active.hook} : job'[w] = job[w]
<1> USE DEF TimesOut, TypeOK, Call, Job
<1>1. active.hook \in Hooks /\ job[active.hook] # NoJob
  BY Typed
<1>2. Retries(active.hook) \in Job \cup {NoJob}
  BY <1>1, RetriesTyped
<1>3. /\ job' \in [Hooks -> Job \cup {NoJob}] /\ job'[active.hook] = Retries(active.hook)
      /\ \A w \in Hooks \ {active.hook} : job'[w] = job[w]
  BY <1>1, <1>2
<1> QED
  BY <1>1, <1>3 DEF TypesOf

\* The receiver's next step of a post.
LEMMA Goes ==
  ASSUME TypeOK, NEW k \in Calls, calls[k] \in Call,
         NEW step \in {"add", "update", "clean", "remove", "delete"}, NEW read \in 0 .. MaxJobs + MaxVersions,
         Proceeds(k, step, read)
  PROVE  /\ calls' \in [Calls -> Call \cup {NoCall}]
         /\ calls'[k] \in Call
         /\ calls'[k].step = step /\ calls'[k].read = read
         /\ calls'[k].hook = calls[k].hook /\ calls'[k].payload = calls[k].payload
         /\ \A j \in Calls \ {k} : calls'[j] = calls[j]
<1>1. calls \in [Calls -> Call \cup {NoCall}]
  BY DEF TypeOK, Call
<1>2. calls' = [calls EXCEPT ![k] = [[calls[k] EXCEPT !.step = step] EXCEPT !.read = read]]
  BY <1>1, Zenon DEF Proceeds
<1>3. [[calls[k] EXCEPT !.step = step] EXCEPT !.read = read] \in Call
  <2>1. \A c \in Call, s \in {"add", "update", "clean", "remove", "delete"} : [c EXCEPT !.step = s] \in Call
    BY Zenon DEF Call
  <2>2. \A c \in Call, r \in 0 .. MaxJobs + MaxVersions : [c EXCEPT !.read = r] \in Call
    BY Zenon DEF Call
  <2> QED
    BY <2>1, <2>2
<1>4. calls'[k] = [[calls[k] EXCEPT !.step = step] EXCEPT !.read = read]
  BY <1>1, <1>2
<1>5. /\ calls'[k].step = step /\ calls'[k].read = read
      /\ calls'[k].hook = calls[k].hook /\ calls'[k].payload = calls[k].payload
  BY <1>4, SMT DEF Call
<1> QED
  BY <1>1, <1>2, <1>3, <1>4, <1>5

\* What the queue, the processor and the receiver leave alone, but for failures.
Unheard == UNCHANGED <<stage, topics, hook>>
RestTyped ==
  /\ stage \in [Sources -> Stages]
  /\ topics \in [Topics -> Seq(Payload)]
  /\ hook \in [Hooks -> Webhook \cup {NoHook}]
  /\ fails \in 0 .. MaxFails
  /\ row \in [Sources -> DataSource \cup {NoRow}]
  /\ repeat \subseteq JobIds \X Sources
  /\ heard \subseteq Hooks \X Payload

LEMMA TypeParts ==
  /\ TypeOK <=> (RestTyped /\ TypesOf(calls, job, active))
  /\ TypeOK' <=> (RestTyped' /\ TypesOf(calls, job, active)')
  BY Zenon DEF TypeOK, RestTyped, TypesOf, Call, Job, DataSource

\* What a post has read is what its step needs.
ReadInv ==
  \A k \in Calls :
    /\ calls[k].step = "add" => calls[k].read \in JobIds
    /\ calls[k].step = "update" => calls[k].read \in 0 .. MaxVersions

LEMMA HeardTyped ==
  ASSUME TypeOK, NEW k \in Calls, calls[k].step # "none", heard' = heard \cup {Heard(k)}
  PROVE  heard' \subseteq Hooks \X Payload
<1>1. calls[k] \in Call
  BY Typed
<1>2. Heard(k) \in Hooks \X Payload
  BY <1>1 DEF Heard, Call
<1> QED
  BY <1>2 DEF TypeOK

LEMMA SourceTyped ==
  ASSUME TypeOK, NEW k \in Calls, calls[k].step # "none"
  PROVE  SourceOf(k) \in Sources /\ calls[k] \in Call /\ calls[k] # NoCall
  BY Typed DEF SourceOf, Call, Payload

LEMMA ReceiverTypes ==
  ASSUME TypeOK, ReadInv, NEW k \in Calls, Receiver(k)
  PROVE  TypeOK' /\ ReadInv' /\ Unheard
<1> USE DEF RestTyped
<1>0. calls[k].step # "none"
  BY DEF Receiver, createDataSource, handleSyncflowSucceed, deleteDataSource, AtStep
<1> DEFINE d == SourceOf(k)
<1>s. d \in Sources /\ calls[k] \in Call /\ calls[k] # NoCall
  BY <1>0, SourceTyped
<1>t. RestTyped /\ TypesOf(calls, job, active)
  BY TypeParts
\* The step ends the post, or goes on with it.
<1>1. ASSUME Finishes(k), row' \in [Sources -> DataSource \cup {NoRow}],
             repeat' \subseteq JobIds \X Sources
      PROVE  TypeOK' /\ ReadInv' /\ Unheard
  <2>1. TypesOf(calls, job, active)'
    BY <1>1, Answers DEF Finishes
  <2>2. heard' \subseteq Hooks \X Payload
    BY <1>0, <1>1, HeardTyped DEF Finishes
  <2>3. RestTyped'
    BY <1>t, <1>1, <2>2 DEF Finishes
  <2>4. ReadInv'
    BY <1>1, Answers DEF Finishes, ReadInv, NoCall
  <2>5. Unheard
    BY <1>1 DEF Finishes, Unheard
  <2> QED
    BY <2>1, <2>3, <2>4, <2>5, TypeParts, Zenon
<1>2. ASSUME NEW step \in {"add", "update", "clean", "remove", "delete"},
             NEW read \in 0 .. MaxJobs + MaxVersions,
             step = "add" => read \in JobIds, step = "update" => read \in 0 .. MaxVersions,
             Proceeds(k, step, read), row' \in [Sources -> DataSource \cup {NoRow}],
             repeat' \subseteq JobIds \X Sources
      PROVE  TypeOK' /\ ReadInv' /\ Unheard
  <2>1. /\ calls' \in [Calls -> Call \cup {NoCall}]
        /\ calls'[k].step = step /\ calls'[k].read = read
        /\ \A j \in Calls \ {k} : calls'[j] = calls[j]
    BY <1>s, <1>2, Goes
  <2>2. TypesOf(calls, job, active)'
    BY <1>t, <1>2, <2>1 DEF Proceeds, TypesOf
  <2>3. RestTyped'
    BY <1>t, <1>2 DEF Proceeds
  <2>4. ReadInv'
    BY <1>2, <2>1 DEF ReadInv
  <2>5. Unheard
    BY <1>2 DEF Proceeds, Unheard
  <2> QED
    BY <2>2, <2>3, <2>4, <2>5, TypeParts, Zenon
<1>3. CASE createDataSource(k)
  <2>1. ASSUME NEW i \in JobIds, Saved(d, i)
        PROVE  row' \in [Sources -> DataSource \cup {NoRow}] /\ i \in 0 .. MaxJobs + MaxVersions
    <3>1. [[row[d] EXCEPT !.there = TRUE] EXCEPT !.metadataJob = i] \in DataSource
      <4>1. row[d] \in [there : BOOLEAN, metadataJob : 0 .. MaxJobs, schema : 0 .. MaxVersions]
        <5>1. NoRow \in [there : BOOLEAN, metadataJob : 0 .. MaxJobs, schema : 0 .. MaxVersions]
          BY SMT DEF NoRow
        <5>2. DataSource \subseteq [there : BOOLEAN, metadataJob : 0 .. MaxJobs, schema : 0 .. MaxVersions]
          <6>1. JobIds \subseteq 0 .. MaxJobs /\ {TRUE} \subseteq BOOLEAN
            BY SMT DEF JobIds
          <6> QED
            BY <6>1, Zenon DEF DataSource
        <5> QED
          BY <1>t, <1>s, <5>1, <5>2
      <4>2. [row[d] EXCEPT !.there = TRUE] \in [there : {TRUE}, metadataJob : 0 .. MaxJobs, schema : 0 .. MaxVersions]
        BY <4>1, Zenon
      <4> QED
        BY <4>2, Zenon DEF DataSource
    <3>2. row' = [row EXCEPT ![d] = [[row[d] EXCEPT !.there = TRUE] EXCEPT !.metadataJob = i]]
      BY <1>t, <1>s, <2>1, Zenon DEF Saved
    <3> QED
      BY <1>t, <1>s, <3>1, <3>2, SMT DEF JobIds
  <2>2. ASSUME NEW i \in JobIds, Saved(d, i), Proceeds(k, "add", i), UNCHANGED repeat
        PROVE  TypeOK' /\ ReadInv' /\ Unheard
    BY <1>t, <1>2, <2>1, <2>2
  <2>3. ASSUME AtStep(k, "sync-connection-created", "add"),
               repeat' = repeat \cup {<<calls[k].read, d>>}, Finishes(k), UNCHANGED row
        PROVE  TypeOK' /\ ReadInv' /\ Unheard
    <3>1. repeat' \subseteq JobIds \X Sources
      <4>1. calls[k].read \in JobIds
        <5>1. calls[k].step = "add"
          BY <2>3, Zenon DEF AtStep
        <5> QED
          BY <5>1 DEF ReadInv
      <4>2. <<calls[k].read, d>> \in JobIds \X Sources
        BY <1>s, <4>1
      <4> QED
        BY <1>t, <2>3, <4>2, Zenon
    <3> QED
      BY <1>t, <1>1, <2>3, <3>1
  <2> QED
    BY <1>3, <2>2, <2>3 DEF createDataSource
<1>4. CASE handleSyncflowSucceed(k)
  <2>1. ASSUME Proceeds(k, "update", stage[d].version), UNCHANGED <<row, repeat>>
        PROVE  TypeOK' /\ ReadInv' /\ Unheard
    <3>1. stage[d].version \in 0 .. MaxVersions /\ stage[d].version \in 0 .. MaxJobs + MaxVersions
      BY <1>t, <1>s, SMT DEF Stages
    <3> QED
      BY <1>t, <1>2, <2>1, <3>1
  <2>2. ASSUME calls[k].step = "update", Finishes(k), UNCHANGED repeat,
               row' = IF row[d].there /\ calls[k].read # 0
                      THEN [row EXCEPT ![d].schema = calls[k].read] ELSE row
        PROVE  TypeOK' /\ ReadInv' /\ Unheard
    <3>1. ASSUME row[d].there
          PROVE  [row[d] EXCEPT !.schema = calls[k].read] \in DataSource
      <4>1. row[d] \in DataSource
        BY <1>t, <1>s, <3>1 DEF NoRow
      <4>2. calls[k].read \in 0 .. MaxVersions
        BY <2>2 DEF ReadInv
      <4> QED
        BY <4>1, <4>2, Zenon DEF DataSource
    <3> QED
      BY <1>t, <1>s, <1>1, <2>2, <3>1
  <2> QED
    BY <1>4, <2>1, <2>2 DEF handleSyncflowSucceed, AtStep
<1>5. CASE deleteDataSource(k)
  <2>0. ASSUME Proceeds(k, "clean", 0), UNCHANGED <<row, repeat>>
        PROVE  TypeOK' /\ ReadInv' /\ Unheard
    <3>1. 0 \in 0 .. MaxJobs + MaxVersions
      BY SMT
    <3> QED
      BY <1>t, <1>2, <2>0, <3>1
  <2>1. ASSUME row[d].there, Proceeds(k, "remove", row[d].metadataJob), UNCHANGED <<row, repeat>>
        PROVE  TypeOK' /\ ReadInv' /\ Unheard
    <3>1. row[d] \in DataSource
      BY <1>t, <1>s, <2>1 DEF NoRow
    <3>2. row[d].metadataJob \in 0 .. MaxJobs + MaxVersions
      <4>1. row[d].metadataJob \in 1 .. MaxJobs
        BY <3>1 DEF DataSource, JobIds
      <4>2. MaxJobs \in Nat /\ MaxVersions \in Nat
        OBVIOUS
      <4> QED
        BY <4>1, <4>2, SMT
    <3> QED
      BY <1>t, <1>2, <2>1, <3>2
  <2>2. ASSUME Proceeds(k, "delete", 0), UNCHANGED row, repeat' \subseteq repeat
        PROVE  TypeOK' /\ ReadInv' /\ Unheard
    <3>1. 0 \in 0 .. MaxJobs + MaxVersions
      BY SMT
    <3>2. repeat' \subseteq JobIds \X Sources
      BY <1>t, <2>2
    <3> QED
      BY <1>t, <1>2, <2>2, <3>1, <3>2
  <2>3. ASSUME Finishes(k), row' = row \/ row' = [row EXCEPT ![d] = NoRow], UNCHANGED repeat
        PROVE  TypeOK' /\ ReadInv' /\ Unheard
    BY <1>t, <1>s, <1>1, <2>3
  <2>4. repeat \ {<<calls[k].read, SourceOf(k)>>} \subseteq repeat
    OBVIOUS
  <2> QED
    BY <1>5, <2>0, <2>1, <2>2, <2>3, <2>4 DEF deleteDataSource
<1> QED
  BY <1>3, <1>4, <1>5 DEF Receiver


LEMMA PlatformTypes ==
  ASSUME TypeOK, NEW d \in Sources, Platform(d), Keeps
  PROVE  TypeOK' /\ UNCHANGED <<hook, job, active, calls, fails, row, repeat, heard>>
<1> USE DEF TypeOK
<1>1. ASSUME NEW event, NEW life \in {"new", "live", "deleted"}, NEW version \in 0 .. MaxVersions,
             Publish(d, event, life, version)
      PROVE  TypeOK' /\ UNCHANGED <<hook, job, active, calls, fails, row, repeat, heard>>
  <2>1. stage' \in [Sources -> Stages]
    <3>1. Stage(life, version) \in Stages
      BY Zenon DEF Stage, Stages
    <3> QED
      BY <1>1, <3>1 DEF Publish
  <2>2. topics' \in [Topics -> Seq(Payload)]
    <3>1. [source |-> d, version |-> version] \in Payload
      BY Zenon DEF Payload
    <3>2. \A s \in Seq(Payload), p \in Payload : Append(s, p) \in Seq(Payload)
      OBVIOUS
    <3> QED
      BY <1>1, <3>1, <3>2 DEF Publish
  <2> QED
    BY <1>1, <2>1, <2>2 DEF Publish, Keeps
<1>2. stage[d] \in Stages
  OBVIOUS
<1>3. /\ 0 \in 0 .. MaxVersions /\ stage[d].version \in 0 .. MaxVersions
      /\ stage[d].version < MaxVersions => stage[d].version + 1 \in 0 .. MaxVersions
  BY <1>2, SMT DEF Stages
<1> QED
  BY <1>1, <1>3 DEF Platform

LEMMA HookTypes ==
  ASSUME TypeOK, Keeps, UNCHANGED <<stage, topics, job, active, calls, fails>>,
         hook' \in [Hooks -> Webhook \cup {NoHook}]
  PROVE  TypeOK'
  BY DEF TypeOK, Keeps

LEMMA CreateTypes ==
  ASSUME TypeOK, Keeps, NEW w \in Hooks, NEW e \in Topics, NEW d \in Sources \cup {None},
         create(w, WebhookType[e], d)
  PROVE  TypeOK' /\ \A v \in Hooks : hook[v] # NoHook => hook'[v] = hook[v]
<1>1. Created(WebhookType[e], d) \in Webhook
  BY Zenon DEF Created, Webhook
<1>2. hook' \in [Hooks -> Webhook \cup {NoHook}]
  BY <1>1 DEF create, TypeOK
<1>3. \A v \in Hooks : hook[v] # NoHook => hook'[v] = hook[v]
  BY DEF create, TypeOK
<1> QED
  BY <1>2, <1>3, HookTypes DEF create

LEMMA BulkCreateTypes ==
  ASSUME TypeOK, Keeps,
         NEW request \in [Hooks -> [type : {WebhookType[e] : e \in Topics}, source : {None}]],
         bulkCreate(request)
  PROVE  TypeOK' /\ \A v \in Hooks : hook[v] # NoHook => hook'[v] = hook[v]
<1>1. \A w \in Hooks : Created(request[w].type, request[w].source) \in Webhook
  <2> TAKE w \in Hooks
  <2>1. request[w].type \in {WebhookType[e] : e \in Topics} /\ request[w].source = None
    OBVIOUS
  <2> QED
    BY <2>1, Zenon DEF Created, Webhook
<1>2. hook' \in [Hooks -> Webhook \cup {NoHook}]
  BY <1>1 DEF bulkCreate, TypeOK
<1>3. \A v \in Hooks : hook[v] # NoHook => hook'[v] = hook[v]
  BY DEF bulkCreate, TypeOK
<1> QED
  BY <1>2, <1>3, HookTypes DEF bulkCreate

LEMMA ConsumeTypes ==
  ASSUME TypeOK, Keeps, NEW e \in Topics, Consume(e)
  PROVE  /\ TypeOK'
         /\ \A w \in Hooks : job[w] # NoJob => job'[w] = job[w]
         /\ \A w \in Hooks : job[w] = NoJob /\ job'[w] # NoJob => job'[w].left = Attempts
         /\ UNCHANGED <<stage, hook, active, calls, row, repeat, heard>>
         /\ fails' \in Nat /\ fails' >= fails
<1> DEFINE payload == Head(topics[e])
           new == [left |-> Attempts, payload |-> payload]
<1>1. topics[e] \in Seq(Payload) /\ topics[e] # <<>>
  BY DEF TypeOK, Consume
<1>2. payload \in Payload /\ Tail(topics[e]) \in Seq(Payload)
  BY <1>1
<1>3. new \in Job /\ new.left = Attempts
  <2>1. Attempts \in 1 .. Attempts
    BY SMT
  <2> QED
    BY <1>2, <2>1, Zenon DEF Job
<1> HIDE DEF payload, new
<1>4. \A w \in Hooks : job'[w] = job[w] \/ (job[w] = NoJob /\ job'[w] = new)
  BY DEF Consume, addWebhookExecution, new, payload
<1>5. job' \in [Hooks -> Job \cup {NoJob}]
  <2>1. job' = [w \in Hooks |-> job'[w]]
    BY DEF Consume, addWebhookExecution
  <2>2. \A w \in Hooks : job'[w] \in Job \cup {NoJob}
    BY <1>3, <1>4, Typed
  <2> QED
    BY <2>1, <2>2, Zenon
<1>6. \A w \in Hooks : job[w] # NoJob => job'[w] = job[w]
  BY <1>4
<1>7. active # Idle => job'[active.hook] # NoJob
  BY <1>6, Typed DEF TypeOK
<1>8. topics' \in [Topics -> Seq(Payload)] /\ fails' \in 0 .. MaxFails /\ fails' >= fails
  <2>1. topics' \in [Topics -> Seq(Payload)]
    BY <1>2 DEF Consume, TypeOK
  <2>2. fails \in 0 .. MaxFails /\ (fails' = fails \/ (fails < MaxFails /\ fails' = fails + 1))
    BY DEF Consume, TypeOK
  <2> QED
    BY <2>1, <2>2, SMT
<1>9. UNCHANGED <<stage, hook, active, calls, row, repeat, heard>>
  BY DEF Consume, Keeps
<1>10. RestTyped' /\ TypesOf(calls, job, active)'
  <2>1. RestTyped /\ TypesOf(calls, job, active)
    BY TypeParts
  <2> QED
    BY <2>1, <1>5, <1>7, <1>8, <1>9 DEF RestTyped, TypesOf
<1> QED
  BY <1>10, <1>3, <1>4, <1>6, <1>8, <1>9, TypeParts

LEMMA ExecuteTypes ==
  ASSUME TypeOK, Keeps, NEW w \in Hooks, executeWebhook(w)
  PROVE  /\ TypeOK'
         /\ active = Idle /\ active'.hook = w /\ active'.call \in Calls
         /\ calls[active'.call] = NoCall
         /\ calls'[active'.call].hook = w /\ calls'[active'.call].step = "begin"
         /\ calls'[active'.call].payload = job[w].payload
         /\ \A j \in Calls \ {active'.call} : calls'[j] = calls[j]
         /\ UNCHANGED <<stage, topics, hook, job, fails, row, repeat, heard>>
<1> DEFINE post == [hook |-> w, payload |-> job[w].payload, step |-> "begin", read |-> 0]
<1>1. PICK k \in Calls : /\ Free(k) /\ active' = [hook |-> w, call |-> k]
                         /\ calls' = [calls EXCEPT ![k] = post]
  BY DEF executeWebhook
<1>2. post \in Call
  <2>1. job[w].payload \in Payload
    BY Typed DEF Job, executeWebhook
  <2>2. 0 \in 0 .. MaxJobs + MaxVersions
    BY SMT
  <2> QED
    BY <2>1, <2>2, Zenon DEF Call
<1>3. TypesOf(calls, job, active)'
  <2>1. calls' \in [Calls -> Call \cup {NoCall}]
    BY <1>1, <1>2, Zenon DEF TypeOK, Call
  <2>2. active' \in [hook : Hooks, call : Calls] /\ active'.hook = w
    BY <1>1
  <2> QED
    BY <2>1, <2>2, TypeParts DEF TypesOf, executeWebhook
<1>4. RestTyped'
  BY TypeParts DEF executeWebhook, Keeps, RestTyped
<1>5. calls' [k] = post /\ \A j \in Calls \ {k} : calls'[j] = calls[j]
  BY <1>1 DEF TypeOK
<1>6. active'.hook = w /\ active'.call = k
  BY <1>1
<1> QED
  BY <1>1, <1>3, <1>4, <1>5, <1>6, TypeParts DEF executeWebhook, Keeps, Free

LEMMA RefusedTypes ==
  ASSUME TypeOK, Keeps, NEW k \in Calls, Refused(k)
  PROVE  TypeOK' /\ fails' = fails + 1 /\ UNCHANGED <<stage, topics, hook, row, repeat, heard>>
<1>1. fails' \in 0 .. MaxFails
  BY SMT DEF Refused, TypeOK
<1>2. RestTyped'
  BY <1>1, TypeParts DEF Refused, Keeps, RestTyped
<1> QED
  BY <1>2, Fails, TypeParts DEF Refused, Keeps

LEMMA TimesOutTypes ==
  ASSUME TypeOK, Keeps, TimesOut
  PROVE  TypeOK' /\ fails' = fails + 1 /\ UNCHANGED <<stage, topics, hook, calls, row, repeat, heard>>
<1>1. fails' \in 0 .. MaxFails
  BY SMT DEF TimesOut, TypeOK
<1>2. RestTyped'
  BY <1>1, TypeParts DEF TimesOut, Keeps, RestTyped
<1> QED
  BY <1>2, Times, TypeParts DEF TimesOut, Keeps

LEMMA StartsTyped ==
  ASSUME Init
  PROVE  TypeOK /\ ReadInv
<1>1. RestTyped
  <2>1. stage \in [Sources -> Stages]
    <3>1. Stage("new", 0) \in Stages
      <4>1. 0 \in 0 .. MaxVersions
        BY SMT
      <4> QED
        BY <4>1, Zenon DEF Stage, Stages
    <3> QED
      BY <3>1 DEF Init, NotificationsInit
  <2>2. topics \in [Topics -> Seq(Payload)]
    BY DEF Init, NotificationsInit
  <2>3. fails \in 0 .. MaxFails
    BY SMT DEF Init, NotificationsInit
  <2> QED
    BY <2>1, <2>2, <2>3 DEF RestTyped, Init, NotificationsInit
<1>2. TypesOf(calls, job, active)
  BY DEF TypesOf, Init, NotificationsInit
<1>3. ReadInv
  BY DEF ReadInv, Init, NotificationsInit, NoCall
<1> QED
  BY <1>1, <1>2, <1>3, TypeParts

\* The values the services and the receivers give to variables are of their
\* types; above all, the processor never runs a job that is gone.
THEOREM SourceTypes == Spec => []TypeOK
<1>1. Init => TypeOK /\ ReadInv
  BY StartsTyped
<1>2. TypeOK /\ ReadInv /\ [Next]_vars => TypeOK' /\ ReadInv'
  <2> SUFFICES ASSUME TypeOK, ReadInv, [Next]_vars PROVE TypeOK' /\ ReadInv'
    OBVIOUS
  <2>1. ASSUME NEW d \in Sources, Platform(d), Keeps
        PROVE  TypeOK' /\ ReadInv'
    BY <2>1, PlatformTypes DEF ReadInv
  <2>2. ASSUME NEW w \in Hooks, NEW e \in Topics, NEW d \in Sources \cup {None},
               create(w, WebhookType[e], d), Keeps
        PROVE  TypeOK' /\ ReadInv'
    BY <2>2, CreateTypes DEF ReadInv, create
  <2>3. ASSUME NEW request \in [Hooks -> [type : {WebhookType[e] : e \in Topics}, source : {None}]],
               bulkCreate(request), Keeps
        PROVE  TypeOK' /\ ReadInv'
    BY <2>3, BulkCreateTypes DEF ReadInv, bulkCreate
  <2>4. ASSUME NEW w \in Hooks, executeWebhook(w), Keeps
        PROVE  TypeOK' /\ ReadInv'
    <3>1. \A k \in Calls : calls'[k].step = "begin" \/ calls'[k] = calls[k]
      BY <2>4, ExecuteTypes
    <3> QED
      BY <2>4, <3>1, ExecuteTypes DEF ReadInv
  <2>5. ASSUME NEW e \in Topics, Consume(e), Keeps
        PROVE  TypeOK' /\ ReadInv'
    BY <2>5, ConsumeTypes DEF ReadInv
  <2>6. ASSUME NEW k \in Calls, Refused(k), Keeps
        PROVE  TypeOK' /\ ReadInv'
    BY <2>6, RefusedTypes, Fails DEF ReadInv, NoCall
  <2>7. ASSUME TimesOut, Keeps
        PROVE  TypeOK' /\ ReadInv'
    BY <2>7, TimesOutTypes DEF ReadInv
  <2>8. CASE UNCHANGED vars
    BY <2>8 DEF vars, noteVars, TypeOK, ReadInv
  <2> QED
    BY <2>1, <2>2, <2>3, <2>4, <2>5, <2>6, <2>7, <2>8, ReceiverTypes DEF Next
<1> QED
  BY <1>1, <1>2, PTL DEF Spec


-----------------------------------------------------------------------------
(* Why a data source keeps its metadata job                                *)

Creation == "sync-connection-created"
Deletion == "data-source-deleted"

\* The steps at which a post can leave a data source without its job.
StepTypes ==
  \A k \in Calls :
    /\ calls[k].step = "add" => hook[calls[k].hook].type = Creation
    /\ calls[k].step \in {"clean", "remove", "delete"} => hook[calls[k].hook].type = Deletion

\* The processor waits for a post of the job it runs.
ActiveInv ==
  active # Idle =>
    /\ calls[active.call].hook = active.hook
    /\ calls[active.call].payload = job[active.hook].payload

\* While nothing has failed nothing is worked on that the processor does not wait
\* for, and each job has all its attempts.
FirstInv ==
  fails = 0 =>
    /\ \A k \in Calls : calls[k] # NoCall => AwaitedBy(k)
    /\ \A w \in Hooks : job[w] # NoJob => job[w].left = Attempts

\* What makes up for a row without its job: a post that is about to add it or to
\* delete the row, or a job that will do either from the start.
Adds(k, d) ==
  /\ calls[k].step = "add"
  /\ SourceOf(k) = d
  /\ calls[k].read = row[d].metadataJob
Deletes(k, d) == calls[k].step = "delete" /\ SourceOf(k) = d
Added(w) == active.hook = w /\ calls[active.call].step = "add"
Repeats(w, d) ==
  /\ job[w].payload.source = d
  /\ \/ hook[w].type = Deletion
     \/ hook[w].type = Creation /\ ~ Added(w)
Mended(d) ==
  \/ <<row[d].metadataJob, d>> \in repeat
  \/ \E k \in Calls : Adds(k, d) \/ Deletes(k, d)
  \/ \E w \in Hooks : Repeats(w, d)
MendedInv == fails <= 1 => \A d \in Sources : row[d].there => Mended(d)

CallsInv == StepTypes /\ ActiveInv /\ FirstInv
SafeInv == TypeOK /\ ReadInv /\ CallsInv /\ MendedInv

\* A webhook stays what it is.
LEMMA HooksStay ==
  ASSUME SafeInv, TypeOK', UNCHANGED <<job, active, calls, fails, row, repeat>>,
         \A v \in Hooks : hook[v] # NoHook => hook'[v] = hook[v]
  PROVE  SafeInv'
<1> USE DEF SafeInv, CallsInv
<1>1. \A v \in Hooks : hook[v].type \in {Creation, Deletion} => hook'[v] = hook[v]
  BY DEF NoHook, Creation, Deletion
<1>2. \A k \in Calls : calls[k].step # "none" => calls[k].hook \in Hooks
  BY Typed DEF Call
<1>3. StepTypes'
  BY <1>1, <1>2 DEF StepTypes
<1>4. ReadInv' /\ ActiveInv' /\ FirstInv'
  BY DEF ReadInv, ActiveInv, FirstInv, AwaitedBy
<1>5. MendedInv'
  BY <1>1 DEF MendedInv, Mended, Adds, Deletes, Repeats, Added, SourceOf
<1> QED
  BY <1>3, <1>4, <1>5

LEMMA ConsumeSafe ==
  ASSUME SafeInv, NEW e \in Topics, Consume(e), Keeps
  PROVE  SafeInv'
<1> USE DEF SafeInv, CallsInv
<1>1. /\ TypeOK'
      /\ \A w \in Hooks : job[w] # NoJob => job'[w] = job[w]
      /\ \A w \in Hooks : job[w] = NoJob /\ job'[w] # NoJob => job'[w].left = Attempts
      /\ UNCHANGED <<stage, hook, active, calls, row, repeat, heard>>
      /\ fails' \in Nat /\ fails' >= fails
  BY ConsumeTypes
<1>2. fails \in Nat
  BY DEF TypeOK
<1>3. StepTypes' /\ ReadInv'
  BY <1>1 DEF StepTypes, ReadInv
<1>4. ActiveInv'
  BY <1>1, Typed, Absent DEF ActiveInv
<1>5. FirstInv'
  BY <1>1, <1>2 DEF FirstInv, AwaitedBy
<1>6. ASSUME NEW d \in Sources, NEW w \in Hooks, Repeats(w, d)
      PROVE  Repeats(w, d)'
  <2>1. job[w] # NoJob
    BY <1>6, Absent DEF Repeats
  <2> QED
    BY <1>1, <1>6, <2>1 DEF Repeats, Added
<1>7. MendedInv'
  BY <1>1, <1>2, <1>6 DEF MendedInv, Mended, Adds, Deletes, SourceOf
<1> QED
  BY <1>1, <1>3, <1>4, <1>5, <1>7

LEMMA ExecuteSafe ==
  ASSUME SafeInv, NEW w \in Hooks, executeWebhook(w), Keeps
  PROVE  SafeInv'
<1> USE DEF SafeInv, CallsInv
<1> DEFINE k == active'.call
<1>1. /\ TypeOK'
      /\ active = Idle /\ active'.hook = w /\ k \in Calls
      /\ calls[k] = NoCall
      /\ calls'[k].hook = w /\ calls'[k].step = "begin"
      /\ calls'[k].payload = job[w].payload
      /\ \A j \in Calls \ {k} : calls'[j] = calls[j]
      /\ UNCHANGED <<stage, topics, hook, job, fails, row, repeat, heard>>
  BY ExecuteTypes
<1> HIDE DEF k
<1>2. StepTypes' /\ ReadInv'
  BY <1>1 DEF StepTypes, ReadInv
<1>3. ActiveInv'
  BY <1>1 DEF ActiveInv, k
<1>4. FirstInv'
  <2>1. fails = 0 => \A j \in Calls : calls[j] = NoCall
    BY <1>1, Typed DEF FirstInv
  <2>2. fails = 0 => \A j \in Calls \ {k} : calls'[j] = NoCall
    BY <1>1, <2>1
  <2> QED
    BY <1>1, <2>2 DEF FirstInv, AwaitedBy, k
<1>5. \A d \in Sources : /\ \A j \in Calls : Adds(j, d) => Adds(j, d)'
                         /\ \A j \in Calls : Deletes(j, d) => Deletes(j, d)'
  BY <1>1 DEF Adds, Deletes, SourceOf, NoCall
<1>6. \A d \in Sources, v \in Hooks : Repeats(v, d) => Repeats(v, d)'
  BY <1>1 DEF Repeats, Added, k
<1>7. MendedInv'
  BY <1>1, <1>5, <1>6 DEF MendedInv, Mended
<1> QED
  BY <1>1, <1>2, <1>3, <1>4, <1>7

\* A failure: the post that fails is awaited if it is the first, and then its job
\* is tried again, and stands in for it.
LEMMA RefusedSafe ==
  ASSUME Attempts > 1, SafeInv, NEW k \in Calls, Refused(k), Keeps
  PROVE  SafeInv'
<1> USE DEF SafeInv, CallsInv
<1>1. TypeOK' /\ fails' = fails + 1 /\ UNCHANGED <<stage, topics, hook, row, repeat, heard>>
  BY RefusedTypes
<1>2. /\ calls'[k] = NoCall
      /\ \A j \in Calls \ {k} : calls'[j] = calls[j]
      /\ active' = IF AwaitedBy(k) THEN Idle ELSE active
      /\ AwaitedBy(k) => active.hook \in Hooks /\ job'[active.hook] = Retries(active.hook)
      /\ \A w \in Hooks : ~ (AwaitedBy(k) /\ w = active.hook) => job'[w] = job[w]
  BY Fails
<1>3. fails \in Nat /\ fails' # 0 /\ (fails' <= 1 => fails = 0)
  <2>1. fails \in 0 .. MaxFails
    BY DEF TypeOK
  <2> QED
    BY <1>1, <2>1, SMT
<1>4. StepTypes' /\ ReadInv'
  BY <1>1, <1>2 DEF StepTypes, ReadInv, NoCall
<1>5. ActiveInv'
  BY <1>2, Typed DEF ActiveInv, AwaitedBy
<1>6. FirstInv'
  BY <1>3 DEF FirstInv
<1>7. MendedInv'
  <2> SUFFICES ASSUME fails = 0, NEW d \in Sources, row[d].there
               PROVE  Mended(d)'
    BY <1>1, <1>3 DEF MendedInv
  <2>1. Mended(d)
    BY <1>3 DEF MendedInv
  <2>2. /\ AwaitedBy(k) /\ active # Idle /\ active.call = k
        /\ active.hook \in Hooks /\ job[active.hook] # NoJob
        /\ calls[k].hook = active.hook /\ calls[k].payload = job[active.hook].payload
    BY Typed, Absent DEF FirstInv, Refused, ActiveInv, AwaitedBy
  <2>3. job'[active.hook] # NoJob /\ job'[active.hook].payload = job[active.hook].payload
    <3>1. job[active.hook].left > 1
      BY <2>2 DEF FirstInv
    <3> QED
      BY <1>2, <2>2, <3>1, RetriesTyped, Absent
  <2>4. \A v \in Hooks : job'[v].payload = job[v].payload
    BY <1>2, <2>3
  <2>5. \A v \in Hooks : ~ Added(v)'
    BY <1>2, <2>2 DEF Added, Idle
  <2>6. ASSUME NEW v \in Hooks, Repeats(v, d)
        PROVE  Mended(d)'
    BY <1>1, <2>4, <2>5, <2>6 DEF Mended, Repeats
  <2>7. ASSUME NEW j \in Calls, Adds(j, d) \/ Deletes(j, d)
        PROVE  Mended(d)'
    <3>1. CASE j = k
      BY <1>1, <2>2, <2>4, <2>5, <2>7, <3>1 DEF Adds, Deletes, Mended, Repeats, SourceOf, StepTypes
    <3>2. CASE j # k
      BY <1>1, <1>2, <2>7, <3>2 DEF Adds, Deletes, Mended, SourceOf
    <3> QED
      BY <3>1, <3>2
  <2> QED
    BY <1>1, <2>1, <2>6, <2>7 DEF Mended
<1> QED
  BY <1>1, <1>4, <1>5, <1>6, <1>7

LEMMA TimesOutSafe ==
  ASSUME Attempts > 1, SafeInv, TimesOut, Keeps
  PROVE  SafeInv'
<1> USE DEF SafeInv, CallsInv
<1>1. TypeOK' /\ fails' = fails + 1 /\ UNCHANGED <<stage, topics, hook, calls, row, repeat, heard>>
  BY TimesOutTypes
<1>2. /\ active' = Idle
      /\ active.hook \in Hooks /\ job[active.hook] # NoJob
      /\ job'[active.hook] = Retries(active.hook)
      /\ \A w \in Hooks \ {active.hook} : job'[w] = job[w]
  BY Times
<1>3. fails \in Nat /\ fails' # 0 /\ (fails' <= 1 => fails = 0)
  <2>1. fails \in 0 .. MaxFails
    BY DEF TypeOK
  <2> QED
    BY <1>1, <2>1, SMT
<1>4. StepTypes' /\ ReadInv'
  BY <1>1 DEF StepTypes, ReadInv
<1>5. ActiveInv' /\ FirstInv'
  BY <1>2, <1>3 DEF ActiveInv, FirstInv
<1>6. MendedInv'
  <2> SUFFICES ASSUME fails = 0, NEW d \in Sources, row[d].there
               PROVE  Mended(d)'
    BY <1>1, <1>3 DEF MendedInv
  <2>1. Mended(d)
    BY <1>3 DEF MendedInv
  <2>2. job[active.hook].left > 1
    BY <1>2 DEF FirstInv
  <2>3. \A v \in Hooks : job'[v].payload = job[v].payload
    BY <1>2, <2>2, RetriesTyped
  <2>4. \A v \in Hooks : ~ Added(v)'
    <3>1. \A v \in Hooks : v # None
      OBVIOUS
    <3> QED
      BY <1>2, <3>1 DEF Added, Idle
  <2> QED
    BY <1>1, <2>1, <2>3, <2>4 DEF Mended, Adds, Deletes, Repeats, SourceOf
<1> QED
  BY <1>1, <1>4, <1>5, <1>6


\* The receiver's step for a data source d: what it leaves of the mending.
LEMMA FinishesKeeps ==
  ASSUME SafeInv, NEW k \in Calls, Finishes(k), calls[k].step # "none"
  PROVE  /\ CallsInv'
         /\ \A d \in Sources, j \in Calls \ {k} : SourceOf(j)' = SourceOf(j) /\ calls'[j] = calls[j]
         /\ \A d \in Sources, w \in Hooks :
              Repeats(w, d) => Repeats(w, d)' \/ (AwaitedBy(k) /\ w = calls[k].hook /\ SourceOf(k) = d)
<1> USE DEF SafeInv, CallsInv
<1>1. /\ calls'[k] = NoCall
      /\ \A j \in Calls \ {k} : calls'[j] = calls[j]
      /\ active' = IF AwaitedBy(k) THEN Idle ELSE active
      /\ AwaitedBy(k) => job'[active.hook] = NoJob
      /\ \A w \in Hooks : ~ (AwaitedBy(k) /\ w = active.hook) => job'[w] = job[w]
  BY Answers DEF Finishes
<1>2. UNCHANGED <<hook, fails>>
  BY DEF Finishes
<1>3. AwaitedBy(k) => /\ active # Idle /\ active.call = k /\ calls[k].hook = active.hook
                      /\ SourceOf(k) = job[active.hook].payload.source
  BY Typed DEF ActiveInv, AwaitedBy, SourceOf
<1>4. StepTypes'
  BY <1>1, <1>2 DEF StepTypes, NoCall
<1>5. ActiveInv'
  BY <1>1, Typed DEF ActiveInv, AwaitedBy
<1>6. FirstInv'
  BY <1>1, <1>2 DEF FirstInv, AwaitedBy
<1>7. \A j \in Calls \ {k} : SourceOf(j)' = SourceOf(j)
  BY <1>1 DEF SourceOf
<1>8. ASSUME NEW d \in Sources, NEW w \in Hooks, Repeats(w, d),
             ~ (AwaitedBy(k) /\ w = calls[k].hook /\ SourceOf(k) = d)
      PROVE  Repeats(w, d)'
  <2>1. job'[w] = job[w]
    BY <1>1, <1>3, <1>8 DEF Repeats
  <2>2. ~ Added(w) => ~ Added(w)'
    <3>1. CASE AwaitedBy(k)
      BY <1>1, <3>1 DEF Added, Idle
    <3>2. CASE ~ AwaitedBy(k)
      BY <1>1, <3>2, Typed DEF Added, AwaitedBy, Idle
    <3> QED
      BY <3>1, <3>2
  <2> QED
    BY <1>2, <1>8, <2>1, <2>2 DEF Repeats
<1> QED
  BY <1>1, <1>4, <1>5, <1>6, <1>7, <1>8

LEMMA ProceedsKeeps ==
  ASSUME SafeInv, NEW k \in Calls, calls[k] \in Call, calls[k].step # "none",
         NEW step \in {"add", "update", "clean", "remove", "delete"}, NEW read \in 0 .. MaxJobs + MaxVersions,
         Proceeds(k, step, read),
         step = "add" => hook[calls[k].hook].type = Creation,
         step \in {"clean", "remove", "delete"} => hook[calls[k].hook].type = Deletion
  PROVE  /\ CallsInv'
         /\ \A j \in Calls : SourceOf(j)' = SourceOf(j)
         /\ calls'[k].step = step /\ calls'[k].read = read
         /\ \A j \in Calls \ {k} : calls'[j] = calls[j]
         /\ \A d \in Sources, w \in Hooks :
              Repeats(w, d) => Repeats(w, d)' \/ (step = "add" /\ w = calls[k].hook /\ SourceOf(k) = d)
<1> USE DEF SafeInv, CallsInv
<1>1. /\ calls'[k].step = step /\ calls'[k].read = read
      /\ calls'[k].hook = calls[k].hook /\ calls'[k].payload = calls[k].payload
      /\ \A j \in Calls \ {k} : calls'[j] = calls[j]
      /\ calls'[k] \in Call
  BY Goes
<1>2. UNCHANGED <<hook, job, active, fails>>
  BY DEF Proceeds
<1>3. StepTypes'
  BY <1>1, <1>2 DEF StepTypes
<1>4. ActiveInv'
  BY <1>1, <1>2, Typed DEF ActiveInv
<1>5. FirstInv'
  <2>1. calls[k] # NoCall
    BY DEF NoCall
  <2> QED
    BY <1>1, <1>2, <2>1 DEF FirstInv, AwaitedBy
<1>6. \A j \in Calls : SourceOf(j)' = SourceOf(j)
  BY <1>1 DEF SourceOf
<1>7. ASSUME NEW d \in Sources, NEW w \in Hooks, Repeats(w, d),
             ~ (step = "add" /\ w = calls[k].hook /\ SourceOf(k) = d)
      PROVE  Repeats(w, d)'
  <2>1. hook[w].type = Creation /\ ~ Added(w) => ~ Added(w)'
    <3>1. CASE active.hook = w /\ active.call = k /\ step = "add"
      <4>1. active # Idle
        BY <3>1, Typed DEF AwaitedBy
      <4> QED
        BY <1>7, <3>1, <4>1 DEF ActiveInv, Repeats, SourceOf
    <3>2. CASE ~ (active.hook = w /\ active.call = k /\ step = "add")
      BY <1>1, <1>2, <3>2, Typed DEF Added, Idle
    <3> QED
      BY <3>1, <3>2
  <2> QED
    BY <1>2, <1>7, <2>1 DEF Repeats
<1> QED
  BY <1>1, <1>3, <1>4, <1>5, <1>6, <1>7

LEMMA RowTyped ==
  ASSUME TypeOK, NEW d \in Sources, row[d].there
  PROVE  row[d] \in DataSource /\ row[d].metadataJob \in JobIds
<1>1. row[d] \in DataSource
  <2>1. row \in [Sources -> DataSource \cup {NoRow}]
    BY TypeParts DEF RestTyped
  <2> QED
    BY <2>1 DEF NoRow
<1> QED
  BY <1>1 DEF DataSource

LEMMA ReceiverSafe ==
  ASSUME SafeInv, NEW k \in Calls, Receiver(k), NEW s \in Sources, s = SourceOf(k)
  PROVE  SafeInv'
<1>0. calls[k].step # "none"
  BY DEF Receiver, createDataSource, handleSyncflowSucceed, deleteDataSource, AtStep
<1>1. TypeOK' /\ ReadInv' /\ Unheard
  BY ReceiverTypes DEF SafeInv
<1>2. calls[k] \in Call /\ row \in [Sources -> DataSource \cup {NoRow}]
  BY <1>0, SourceTyped, TypeParts DEF SafeInv, RestTyped
<1>3. \A d \in Sources : fails <= 1 /\ row[d].there => Mended(d)
  BY DEF SafeInv, MendedInv
\* What a step may do to the rows and jobs of the others.
<1>4. ASSUME \A d \in Sources \ {s} : row'[d] = row[d],
             \A d \in Sources \ {s}, i \in JobIds : <<i, d>> \in repeat => <<i, d>> \in repeat',
             \A d \in Sources \ {s}, w \in Hooks : Repeats(w, d) => Repeats(w, d)',
             \A j \in Calls \ {k} : SourceOf(j)' = SourceOf(j) /\ calls'[j] = calls[j]
      PROVE  \A d \in Sources \ {s} : row[d].there /\ Mended(d) => Mended(d)'
  <2> SUFFICES ASSUME NEW d \in Sources \ {s}, row[d].there, Mended(d)
               PROVE  Mended(d)'
    OBVIOUS
  <2>1. row[d].metadataJob \in JobIds
    BY RowTyped DEF SafeInv
  <2> QED
    BY <1>4, <2>1 DEF Mended, Adds, Deletes
<1>5. fails' = fails \/ fails' > 1
  BY DEF Receiver, createDataSource, handleSyncflowSucceed, deleteDataSource, Finishes, Proceeds
<1>6. ASSUME CallsInv', row'[s].there /\ fails <= 1 => Mended(s)',
             \A d \in Sources \ {s} : row'[d] = row[d],
             \A d \in Sources \ {s}, i \in JobIds : <<i, d>> \in repeat => <<i, d>> \in repeat',
             \A d \in Sources \ {s}, w \in Hooks : Repeats(w, d) => Repeats(w, d)',
             \A j \in Calls \ {k} : SourceOf(j)' = SourceOf(j) /\ calls'[j] = calls[j],
             fails' = fails
      PROVE  SafeInv'
  <2>1. ASSUME NEW d \in Sources, fails <= 1, row'[d].there
        PROVE  Mended(d)'
    <3>1. CASE d = s
      BY <1>6, <2>1, <3>1
    <3>2. CASE d # s
      BY <1>3, <1>4, <1>6, <2>1, <3>2
    <3> QED
      BY <3>1, <3>2
  <2>2. MendedInv'
    BY <1>6, <2>1 DEF MendedInv
  <2> QED
    BY <1>1, <1>6, <2>2 DEF SafeInv
<1>7. CASE createDataSource(k)
  <2>1. ASSUME AtStep(k, Creation, "begin"), NEW i \in JobIds, Saved(s, i), Proceeds(k, "add", i),
               UNCHANGED repeat
        PROVE  SafeInv'
    <3>1. i \in 0 .. MaxJobs + MaxVersions
      BY SMT DEF JobIds
    <3>2. row'[s].metadataJob = i /\ \A d \in Sources \ {s} : row'[d] = row[d]
      BY <1>2, <2>1, SMT DEF Saved, DataSource, NoRow
    <3>3. /\ CallsInv'
          /\ \A j \in Calls : SourceOf(j)' = SourceOf(j)
          /\ calls'[k].step = "add" /\ calls'[k].read = i
          /\ \A j \in Calls \ {k} : calls'[j] = calls[j]
          /\ \A d \in Sources, w \in Hooks : Repeats(w, d) => Repeats(w, d)' \/ s = d
      BY <1>0, <1>2, <2>1, <3>1, ProceedsKeeps DEF AtStep
    <3>4. Adds(k, s)'
      BY <3>2, <3>3 DEF Adds
    <3>5. Mended(s)'
      BY <3>4 DEF Mended
    <3> QED
      BY <1>6, <2>1, <3>2, <3>3, <3>5 DEF Proceeds
  <2>2. ASSUME AtStep(k, Creation, "add"), repeat' = repeat \cup {<<calls[k].read, s>>}, Finishes(k),
               UNCHANGED row
        PROVE  SafeInv'
    <3>1. /\ CallsInv'
          /\ \A j \in Calls \ {k} : SourceOf(j)' = SourceOf(j) /\ calls'[j] = calls[j]
          /\ \A d \in Sources, w \in Hooks :
              Repeats(w, d) => Repeats(w, d)' \/ (AwaitedBy(k) /\ w = calls[k].hook /\ s = d)
      BY <1>0, <1>2, <2>2, FinishesKeeps
    <3>2. \A w \in Hooks : Repeats(w, s) => Repeats(w, s)'
      <4>1. AwaitedBy(k) => Added(calls[k].hook)
        BY <2>2, Typed DEF SafeInv, CallsInv, ActiveInv, AwaitedBy, Added, AtStep
      <4>2. hook[calls[k].hook].type = Creation
        BY <2>2 DEF AtStep
      <4>3. AwaitedBy(k) => ~ Repeats(calls[k].hook, s)
        BY <4>1, <4>2 DEF Repeats, Creation, Deletion
      <4> QED
        BY <3>1, <4>3
    <3>3. row[s].there /\ fails <= 1 => Mended(s)'
      <4>1. CASE row[s].metadataJob = calls[k].read
        BY <2>2, <4>1 DEF Mended
      <4>2. CASE row[s].metadataJob # calls[k].read
        BY <1>2, <1>3, <2>2, <3>1, <3>2, <4>2 DEF Mended, Adds, Deletes, AtStep
      <4> QED
        BY <4>1, <4>2
    <3> QED
      BY <1>6, <2>2, <3>1, <3>3 DEF Finishes
  <2> QED
    BY <1>7, <2>1, <2>2 DEF createDataSource, Creation
<1>8. CASE handleSyncflowSucceed(k)
  <2>0. hook[calls[k].hook].type \notin {Creation, Deletion} /\ UNCHANGED repeat
    BY <1>8 DEF handleSyncflowSucceed, AtStep, Creation, Deletion
  <2>1. /\ \A d \in Sources : row'[d].there = row[d].there /\ row'[d].metadataJob = row[d].metadataJob
        /\ \A d \in Sources \ {s} : row'[d] = row[d]
    <3>1. \A d \in Sources : d # s => row'[d] = row[d]
      BY <1>2, <1>8 DEF handleSyncflowSucceed
    <3>2. row'[s].there = row[s].there /\ row'[s].metadataJob = row[s].metadataJob
      <4>1. CASE row' = row
        BY <4>1
      <4>2. CASE row' = [row EXCEPT ![s].schema = calls[k].read]
        BY <1>2, <4>2, SMT DEF DataSource, NoRow
      <4> QED
        BY <1>8, <4>1, <4>2 DEF handleSyncflowSucceed
    <3> QED
      BY <3>1, <3>2
  <2>2. ASSUME Finishes(k)
        PROVE  SafeInv'
    <3>1. /\ CallsInv'
          /\ \A j \in Calls \ {k} : SourceOf(j)' = SourceOf(j) /\ calls'[j] = calls[j]
          /\ \A d \in Sources, w \in Hooks : Repeats(w, d) => Repeats(w, d)' \/ w = calls[k].hook
      BY <1>0, <2>2, FinishesKeeps
    <3>2. \A d \in Sources, w \in Hooks : Repeats(w, d) => Repeats(w, d)'
      BY <2>0, <3>1 DEF Repeats
    <3>3. row[s].there /\ fails <= 1 => Mended(s)'
      <4>1. calls[k].step \in {"begin", "update"}
        BY <1>8 DEF handleSyncflowSucceed, AtStep
      <4> QED
        BY <1>2, <1>3, <2>0, <2>1, <3>1, <3>2, <4>1 DEF Mended, Adds, Deletes
    <3> QED
      BY <1>6, <2>0, <2>1, <2>2, <3>1, <3>2, <3>3, <1>2 DEF Finishes
  <2>3. ASSUME calls[k].step = "begin", Proceeds(k, "update", stage[s].version)
        PROVE  SafeInv'
    <3>1. stage[s].version \in 0 .. MaxJobs + MaxVersions
      BY <1>2, SMT DEF Stages, SafeInv, TypeOK
    <3>2. /\ CallsInv'
          /\ \A j \in Calls : SourceOf(j)' = SourceOf(j)
          /\ \A j \in Calls \ {k} : calls'[j] = calls[j]
          /\ \A d \in Sources, w \in Hooks : Repeats(w, d) => Repeats(w, d)'
      BY <1>0, <1>2, <2>3, <3>1, ProceedsKeeps
    <3>3. row[s].there /\ fails <= 1 => Mended(s)'
      BY <1>2, <1>3, <2>0, <2>1, <2>3, <3>2 DEF Mended, Adds, Deletes
    <3> QED
      BY <1>6, <2>0, <2>1, <2>3, <3>2, <3>3, <1>2 DEF Proceeds
  <2> QED
    BY <1>8, <2>2, <2>3 DEF handleSyncflowSucceed, AtStep
<1>9. CASE deleteDataSource(k)
  <2>0. hook[calls[k].hook].type = Deletion
    BY <1>9 DEF deleteDataSource, AtStep, Deletion
  <2>r. /\ 0 \in 0 .. MaxJobs + MaxVersions
        /\ row[s].there => row[s].metadataJob \in 0 .. MaxJobs + MaxVersions
    <3>1. row[s].there => row[s].metadataJob \in 1 .. MaxJobs
      BY RowTyped DEF SafeInv, JobIds
    <3>2. MaxJobs \in Nat /\ MaxVersions \in Nat
      OBVIOUS
    <3> QED
      BY <3>1, <3>2, SMT
  <2>1. ASSUME NEW step \in {"clean", "remove"}, NEW read \in 0 .. MaxJobs + MaxVersions,
               calls[k].step \in {"begin", "clean"}, Proceeds(k, step, read), UNCHANGED <<row, repeat>>
        PROVE  SafeInv'
    <3>1. /\ CallsInv'
          /\ \A j \in Calls : SourceOf(j)' = SourceOf(j)
          /\ \A j \in Calls \ {k} : calls'[j] = calls[j]
          /\ \A d \in Sources, w \in Hooks : Repeats(w, d) => Repeats(w, d)'
      BY <1>0, <1>2, <2>0, <2>1, ProceedsKeeps
    <3>2. row[s].there /\ fails <= 1 => Mended(s)'
      BY <1>2, <1>3, <2>1, <3>1 DEF Mended, Adds, Deletes
    <3> QED
      BY <1>6, <2>1, <3>1, <3>2, <1>2 DEF Proceeds
  <2>2. ASSUME calls[k].step \in {"clean", "remove"}, repeat' \in {repeat, repeat \ {<<calls[k].read, s>>}},
               Proceeds(k, "delete", 0), UNCHANGED row
        PROVE  SafeInv'
    <3>1. /\ CallsInv'
          /\ \A j \in Calls : SourceOf(j)' = SourceOf(j)
          /\ calls'[k].step = "delete"
          /\ \A j \in Calls \ {k} : calls'[j] = calls[j]
          /\ \A d \in Sources, w \in Hooks : Repeats(w, d) => Repeats(w, d)'
      BY <1>0, <1>2, <2>r, <2>0, <2>2, ProceedsKeeps
    <3>2. Deletes(k, s)'
      BY <3>1 DEF Deletes
    <3>3. Mended(s)'
      BY <3>2 DEF Mended
    <3> QED
      BY <1>6, <2>2, <3>1, <3>3, <1>2 DEF Proceeds
  <2>3. ASSUME Finishes(k), row' \in {row, [row EXCEPT ![s] = NoRow]}, ~ row'[s].there,
               UNCHANGED repeat
        PROVE  SafeInv'
    <3>1. /\ CallsInv'
          /\ \A j \in Calls \ {k} : SourceOf(j)' = SourceOf(j) /\ calls'[j] = calls[j]
          /\ \A d \in Sources, w \in Hooks : Repeats(w, d) => Repeats(w, d)' \/ s = d
      BY <1>0, <2>3, FinishesKeeps
    <3>2. \A d \in Sources \ {s} : row'[d] = row[d]
      BY <1>2, <2>3
    <3> QED
      BY <1>6, <2>3, <3>1, <3>2, <1>2 DEF Finishes
  <2>4. [row EXCEPT ![s] = NoRow][s] = NoRow /\ ~ NoRow.there
    BY <1>2 DEF NoRow
  <2> QED
    BY <1>9, <2>r, <2>1, <2>2, <2>3, <2>4 DEF deleteDataSource, AtStep
<1> QED
  BY <1>7, <1>8, <1>9 DEF Receiver

LEMMA AnyReceiverSafe ==
  ASSUME SafeInv, NEW k \in Calls, Receiver(k)
  PROVE  SafeInv'
<1>1. calls[k].step # "none"
  BY DEF Receiver, createDataSource, handleSyncflowSucceed, deleteDataSource, AtStep
<1>2. SourceOf(k) \in Sources
  BY <1>1, SourceTyped DEF SafeInv
<1> QED
  BY <1>2, ReceiverSafe

\* A data source that is there has the metadata job its row names as soon as
\* nothing about it is on its way, if at most one post failed, came late or was
\* repeated: whatever notifications of it, creation and deletion, are worked on
\* at the same time, and twice. Once is enough to lose it if a job has one
\* attempt; it has five.
THEOREM RefreshedAlways ==
  ASSUME Attempts > 1
  PROVE  Spec => []Refreshed
<1>1. Init => SafeInv
  <2> SUFFICES ASSUME Init PROVE SafeInv
    OBVIOUS
  <2>1. TypeOK /\ ReadInv
    BY StartsTyped
  <2>2. CallsInv
    BY DEF CallsInv, StepTypes, ActiveInv, FirstInv, Init, NotificationsInit, NoCall
  <2>3. MendedInv
    BY DEF MendedInv, Init, NoRow
  <2> QED
    BY <2>1, <2>2, <2>3 DEF SafeInv
<1>2. SafeInv /\ [Next]_vars => SafeInv'
  <2> SUFFICES ASSUME SafeInv, [Next]_vars PROVE SafeInv'
    OBVIOUS
  <2>1. ASSUME NEW d \in Sources, Platform(d), Keeps
        PROVE  SafeInv'
    BY <2>1, PlatformTypes, HooksStay DEF SafeInv
  <2>2. ASSUME NEW w \in Hooks, NEW e \in Topics, NEW d \in Sources \cup {None},
               create(w, WebhookType[e], d), Keeps
        PROVE  SafeInv'
    BY <2>2, CreateTypes, HooksStay DEF SafeInv, create, Keeps
  <2>3. ASSUME NEW request \in [Hooks -> [type : {WebhookType[e] : e \in Topics}, source : {None}]],
               bulkCreate(request), Keeps
        PROVE  SafeInv'
    BY <2>3, BulkCreateTypes, HooksStay DEF SafeInv, bulkCreate, Keeps
  <2>4. CASE UNCHANGED vars
    <3>1. TypeOK'
      BY <2>4 DEF vars, noteVars, SafeInv, TypeOK
    <3> QED
      BY <2>4, <3>1, HooksStay DEF vars, noteVars
  <2> QED
    BY <2>1, <2>2, <2>3, <2>4, ExecuteSafe, ConsumeSafe, RefusedSafe, TimesOutSafe, AnyReceiverSafe
       DEF Next
<1>3. SafeInv => Refreshed
  BY DEF SafeInv, MendedInv, Mended, Adds, Deletes, Repeats, Refreshed, Pending
<1> QED
  BY <1>1, <1>2, <1>3, PTL DEF Spec
=============================================================================
