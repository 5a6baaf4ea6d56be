----------------------------- MODULE FormSources -----------------------------
(***************************************************************************)
(* The data sources of form sync, which follow the notifications it gets:  *)
(* one is created with the connection, with a repeatable job that refreshes *)
(* its metadata, gets its schema after a sync, and is deleted, its job     *)
(* first. Notifications of different webhooks come in any order, and the   *)
(* same one may come twice, and be worked on twice at a time.              *)
(***************************************************************************)
EXTENDS Notifications

CONSTANT MaxJobs   \* bound: repeatable jobs, each under a new id

VARIABLES
  row,      \* per data source: whether it is in the database, the id of its
            \* metadata job there, and the version of its schema
  repeat,   \* the repeatable jobs in Redis, with their data sources
  heard     \* history: the notifications a handler has worked off

vars == <<noteVars, row, repeat, heard>>

ASSUME FormSourcesAssumption == MaxJobs \in Nat \ {0}

JobIds == 1 .. MaxJobs
NoRow == [there |-> FALSE, metadataJob |-> 0, schema |-> 0]
Heard(k) == <<calls[k].hook, calls[k].payload>>

TypeOK ==
  /\ stage \in [Sources -> Stages]
  /\ topics \in [Topics -> Seq(Payload)]
  /\ hook \in [Hooks -> Webhook \cup {NoHook}]
  /\ job \in [Hooks -> [left : 1 .. Attempts, payload : Payload] \cup {NoJob}]
  /\ active \in [hook : Hooks, call : Calls] \cup {Idle}
  /\ active # Idle => job[active.hook] # NoJob
  /\ calls \in [Calls -> [hook : Hooks, payload : Payload,
                          step : {"begin", "add", "update", "clean", "remove", "delete"},
                          read : 0 .. MaxJobs + MaxVersions] \cup {NoCall}]
  /\ fails \in 0 .. MaxFails
  /\ row \in [Sources -> [there : {TRUE}, metadataJob : JobIds, schema : 0 .. MaxVersions]
                         \cup {NoRow}]
  /\ repeat \subseteq JobIds \X Sources
  /\ heard \subseteq Hooks \X Payload

Init ==
  /\ NotificationsInit
  /\ row = [d \in Sources |-> NoRow]
  /\ repeat = {}
  /\ heard = {}

\* An id nothing holds stands for a new uuid.
InUse(i) == \/ \E d \in Sources : <<i, d>> \in repeat \/ row[d].metadataJob = i
            \/ \E k \in Calls : calls[k].step \in {"add", "remove"} /\ calls[k].read = i
Unused(i) == ~InUse(i) /\ \A j \in 1 .. i - 1 : InUse(j)

AtStep(k, type, step) ==
  /\ calls[k].step = step
  /\ hook[calls[k].hook].type = type
SourceOf(k) == calls[k].payload.source
Proceeds(k, step, read) ==
  /\ calls' = [calls EXCEPT ![k].step = step, ![k].read = read]
  /\ UNCHANGED <<stage, topics, hook, job, active, fails, heard>>
Finishes(k) ==
  /\ Answered(k)
  /\ heard' = heard \cup {Heard(k)}
  /\ UNCHANGED <<stage, topics, hook, fails>>

\* The data source and its own table's row are saved in one transaction: a
\* row that is there already is overwritten, but for its schema.
Saved(d, i) == row' = [row EXCEPT ![d].there = TRUE, ![d].metadataJob = i]
\* As a bug would: a data source that is there is taken to have its job.
createDataSourceOnce(k) ==
  \/ /\ AtStep(k, "sync-connection-created", "begin")
     /\ IF row[SourceOf(k)].there THEN Finishes(k) /\ UNCHANGED row
        ELSE \E i \in JobIds : Unused(i) /\ Saved(SourceOf(k), i) /\ Proceeds(k, "add", i)
     /\ UNCHANGED repeat
  \/ /\ AtStep(k, "sync-connection-created", "add")
     /\ repeat' = repeat \cup {<<calls[k].read, SourceOf(k)>>}
     /\ Finishes(k)
     /\ UNCHANGED row
\* createExcelDataSource and createGoogleSheetsDataSource: then the job is
\* added.
createDataSource(k) ==
  \/ /\ AtStep(k, "sync-connection-created", "begin")
     /\ \E i \in JobIds : Unused(i) /\ Saved(SourceOf(k), i) /\ Proceeds(k, "add", i)
     /\ UNCHANGED repeat
  \/ /\ AtStep(k, "sync-connection-created", "add")
     /\ repeat' = repeat \cup {<<calls[k].read, SourceOf(k)>>}
     /\ Finishes(k)
     /\ UNCHANGED row

\* The schema is fetched after a first sync or one that changed it, and
\* written to a data source that may not be there.
handleSyncflowSucceed(k) ==
  /\ \/ /\ AtStep(k, "syncflow-succeed", "begin")
        /\ Proceeds(k, "update", stage[SourceOf(k)].version)
        /\ UNCHANGED row
     \/ /\ AtStep(k, "syncflow-succeed", "update")
        /\ row' = IF row[SourceOf(k)].there /\ calls[k].read # 0
                  THEN [row EXCEPT ![SourceOf(k)].schema = calls[k].read] ELSE row
        /\ Finishes(k)
  /\ UNCHANGED repeat

\* The job goes first: the one the provider's row names when the cleaner reads
\* it. That row is saved and deleted with the common one, which was read before.
deleteDataSource(k) ==
  \/ /\ AtStep(k, "data-source-deleted", "begin")
     /\ IF row[SourceOf(k)].there THEN Proceeds(k, "clean", 0) ELSE Finishes(k)
     /\ UNCHANGED <<row, repeat>>
  \/ /\ AtStep(k, "data-source-deleted", "clean")
     /\ IF row[SourceOf(k)].there
        THEN Proceeds(k, "remove", row[SourceOf(k)].metadataJob)
        ELSE Proceeds(k, "delete", 0)
     /\ UNCHANGED <<row, repeat>>
  \/ /\ AtStep(k, "data-source-deleted", "remove")
     /\ repeat' = repeat \ {<<calls[k].read, SourceOf(k)>>}
     /\ Proceeds(k, "delete", 0)
     /\ UNCHANGED row
  \/ /\ AtStep(k, "data-source-deleted", "delete")
     /\ row' = [row EXCEPT ![SourceOf(k)] = NoRow]
     /\ Finishes(k)
     /\ UNCHANGED repeat

Receiver(k) == createDataSource(k) \/ handleSyncflowSucceed(k) \/ deleteDataSource(k)
Keeps == UNCHANGED <<row, repeat, heard>>

Next ==
  \/ \E d \in Sources : Platform(d) /\ Keeps
  \/ \E w \in Hooks, e \in Topics, d \in Sources \cup {None} :
       create(w, WebhookType[e], d) /\ Keeps
  \/ \E request \in [Hooks -> [type : {WebhookType[e] : e \in Topics}, source : {None}]] :
       bulkCreate(request) /\ Keeps
  \/ \E w \in Hooks : executeWebhook(w) /\ Keeps
  \/ \E e \in Topics : Consume(e) /\ Keeps
  \/ \E k \in Calls : Receiver(k) \/ (Refused(k) /\ Keeps)
  \/ TimesOut /\ Keeps

\* Messages are consumed, jobs run and posts worked off.
Fairness ==
  /\ \A e \in Topics : WF_vars(Consume(e) /\ Keeps)
  /\ \A w \in Hooks : SF_vars(executeWebhook(w) /\ Keeps)
  /\ \A k \in Calls : WF_vars(Receiver(k))

Spec == Init /\ [][Next]_vars /\ Fairness

-----------------------------------------------------------------------------

Pending(d) ==
  \/ \E k \in Calls : SourceOf(k) = d
  \/ \E w \in Hooks : job[w].payload.source = d

\* Once nothing about it is on its way, a data source that is there has the
\* metadata job its row names, whatever single post failed, came late or was
\* worked on twice: without it, its delayed requests would never be looked at
\* again. Two failures can do it harm: an attempt nobody waits for any more
\* overwrites the row its retry made, and then fails to add its job.
Refreshed ==
  fails <= 1 =>
    \A d \in Sources :
      row[d].there /\ ~Pending(d) => <<row[d].metadataJob, d>> \in repeat

\* A notification that was queued is heard, if fewer posts fail than a job has
\* attempts.
Delivered ==
  \A w \in Hooks : \A p \in Payload :
    job[w].payload = p ~>
      (<<w, p>> \in heard \/ fails >= Attempts)
=============================================================================
