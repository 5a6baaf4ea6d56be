# Starion Sync: a verification project

Starion Sync copies spreadsheets (Google Sheets, Microsoft Excel) into tables of a
destination PostgreSQL database and keeps them up to date. A user connects a *data
source*; *triggers* (a timer, a provider's webhook) ask for a sync of its *syncflow*;
a controller admits or refuses the trigger; a worker runs the sync as Temporal
workflows that call the downloader, the comparer and the loader; a post-processor
cleans up and keeps statistics. A webhook service tells others what happened, and *form
sync*, which writes single records back into the sheets, lives on what it is told. This
directory holds TLA+ models of that system, the TLC configurations that check them and
the proofs that TLAPS checks.

## 1. The system

| Component | State | Operations | Talks to |
| --- | --- | --- | --- |
| Configurator (`apps/configurator`): sync connections, their workflows | documents in MongoDB (data source, connection, syncflow, trigger) | create and delete a connection, delete a data source, terminate workflows, manual trigger | publishes CONNECTION_CREATED, CONNECTION_DELETED, DATA_SOURCE_DELETED, WORKFLOW_TRIGGERED; runs workflows of its own in Temporal |
| Discoverers and providers (`apps/configurator`) | documents in MongoDB (data provider, data source) | create a provider; create a data source after checks of the user's sheet; delete a data source, and with the last one its provider | the providers' APIs; publishes DATA_PROVIDER_DELETED |
| Cron trigger (`apps/triggers/cron`) | repeatable jobs in Redis (Bull) | register a job, remove it, tick | consumes CONNECTION_*; publishes WORKFLOW_TRIGGERED |
| Webhook trigger (`apps/triggers/webhook`) | the provider's channels, refresh jobs, the trigger's config | create, refresh and stop a channel, receive a notification | as cron |
| Controller layer (`apps/controller`) | none of its own; the syncflow document | `handleWorkflowTriggered`: check, provider's check, write SCHEDULED, read back, publish | consumes WORKFLOW_TRIGGERED; publishes SYNCFLOW_SCHEDULED |
| Worker's broker controller and Temporal client (`apps/worker/src/modules`) | executions in Temporal, by workflow id | start a workflow for a message, or drop the message | consumes SYNCFLOW_SCHEDULED, GOOGLE_SHEETS_DOWNLOAD, GOOGLE_SHEETS_PROCEED_SYNC |
| Excel workflow (`apps/worker/src/workflows/microsoft-excel`) | a position in `excelFullSync`; the syncflow document | check, download, compare, load, announce, advance; a catch block for external and internal errors | calls the processors; publishes SYNCFLOW_SUCCEED, SYNCFLOW_FAILED |
| Google Sheets workflows (`apps/worker/src/workflows/google-sheets`) | positions in three workflows; the provider's time of download | the same, in three workflows chained by topics, with an error handler that gives a version up; a spreadsheet is downloaded once for the data sources that share it | as Excel |
| Downloader (`apps/processors/downloader`) | the user's sheet, files in an object store | download, find and replace row ids, write them back in batches, infer types, upload | the providers' APIs, S3 |
| Comparer (`apps/processors/comparer`) | files in the object store | the difference of two versions: schema, added, deleted, updated rows and fields | S3, DuckDB |
| Loader (`apps/processors/loader`) | the table, schema and idempotency tables of the destination | one transaction per version | PostgreSQL |
| Post-processor (`apps/post-processor`) | files in the object store, `statistics.rowsNumber`, the connection's status | handle success, failure, data source error and the deletion of a provider | consumes SYNCFLOW_SUCCEED, SYNCFLOW_FAILED, DATA_SOURCE_ERROR, DATA_PROVIDER_DELETED |
| Webhook notifications (`apps/webhook`) | webhooks in MongoDB, a Bull queue in Redis | create webhooks, queue an event for each that asks for it, post it, retry | consumes syncflow, connection and data source events; posts to form sync, among others |
| Form sync (`form-sync`) | requests in PostgreSQL, positions of rows in MongoDB, jobs in Redis, the user's sheet | insert, update or delete one record; delay a request; refresh the positions; follow the data sources by notifications | Microsoft Graph, Google Sheets, a metadata service |
| Rate limiter (`harmonies/rate-limiter`), destination reader and clients (`libs/modules`), infrastructure | see section 8 | | |

What is hard about it:

* **Nothing excludes two syncs by a lock.** The controller reads the syncflow in a
  transaction and then writes SCHEDULED *outside* it, unconditionally; the broker
  delivers at least once; two controllers race. Only the version number, as part of a
  Temporal workflow id, and the id reuse policy stand between that and two concurrent
  loads. (`OneSync`, `Sequential`.)
* **A difference is right for one base only.** A load applies the difference of two
  versions. It may be retried while its first attempt still runs, and the error paths
  change the version without knowing whether the load committed. (`LoadOnBase`,
  `OnlyLastMarked`.)
* **Consumers of announcements run late and twice**, and delete files. (`BaseKept`,
  `RowsCountedOnce`.)
* **Any error path that leaves the status other than IDLING, or keeps a version whose
  execution is closed, ends all syncs for good.** (`Settles`, `ScheduledIsLoaded`.)
* **Row identity lives in the user's sheet**, in a column the user edits, copies and
  deletes while ids are written back by row number. (`NeverConflicts`,
  `IdsReachTheirRows`.)
* **The table is never rewritten**: it must stay equal to the last version although each
  load only applies hashes, updated fields and nulls. (`TableIsSnapshot`,
  `ErrorsAreMarked`, `RowsNumberIsRows`.)
* **Connections come and go while all this runs**: jobs, channels and workflows must not
  outlive them, nor come back by a message that is late. (`OneConnection`,
  `NoSyncAfterDeletion`, `Watched`, `FirstSyncTriggered`, `JobRemoved`.)
* **Data sources share a provider and its file**: the first brings it, the last takes it
  away, and a sync may use what another one has downloaded. (`Anchored`, `Fresh`.)
* **Form sync finds a record by a position it read some time ago**, in a sheet that
  others write, and acts a call later. (`RightRow`, `PositionsExact`, `InsertedOnce`,
  `DelayedSettles`.)
* **Notifications are posted, timed out and posted again** to a receiver that works on
  both posts. (`Delivered`, `Refreshed`.)

PROJECT.json lists every hazard with the line where it bites.

## 2. The modules

```
SequentialSync            what a syncflow promises            (abstract)
   ^  implemented by
ExcelSync, GoogleSync     one syncflow end to end, per provider
   |-- PostProcessor      post-processing layer
   |     `-- SyncflowControl   controllers, syncflow document, SYNCFLOW_SCHEDULED
   |-- Loader             the destination table as a version, its marks
   `-- ActivityErrors     which errors of an activity reach its workflow
        `-- Orchestrator activities, their timeouts and retries, how values travel
ExcelSyncProofs, GoogleSyncProofs    theorems about the two

RowSync                   the rows of a sheet, sync after sync
   |-- Difference         comparer and loader as functions on snapshots
   `-- IdColumn           row ids and the batches that write them back
RowSyncProofs             theorems about RowSync and Difference

Configurator              connections and the data source, their workflows and events
   |-- Lifecycle          ... with a controller and the worker's syncs
   |-- Triggers           ... with the cron and webhook trigger services
   `-- Api                what the HTTP layer lets through to a handler (and Orchestrator)
LifecycleProofs, TriggersProofs      theorems about the two

Spreadsheet               the file the data sources of a provider share
   `-- Catalog            providers and data sources, created and deleted (with Api)
SpreadsheetProofs         theorems about Spreadsheet

FormSync                  requests, the sheet's user, the refresh, all at once
   |-- ExcelForms         the handlers and the refresh for Excel
   |-- GoogleForms        ... and for Google Sheets
   |     `-- FormStore    what both share: tables, metadata, queue
   |           `-- Worksheet    rows under insertion, deletion and writing
FormSyncProofs            theorems about FormSync
FormSources               form sync's data sources follow the notifications
   `-- Notifications      webhooks, their jobs and posts
FormSourcesProofs         theorems about FormSources

MCExcelSync, MCGoogleSync, MCRowSync    constants for TLC
```

The first group looks at a sync as a unit: data is a version number, the question is
which versions are loaded, when, and on what. The second group takes from the first that
syncs of one data source follow one another and looks inside one: which rows and cells
the table holds. The third asks what becomes of syncs, jobs and channels while
connections come and go, the fourth what the data sources of one spreadsheet do to one
another, and the last is form sync with the service that notifies it.

### SyncflowControl, PostProcessor, Loader

`syncflow` is the state document (`status`, `version`, `prevVersion`). `ctl[c]` is the
place of controller `c` in `handleWorkflowTriggered`: `TakeTrigger` (the checks on one
snapshot of the database), the provider's `Admit` or `Refuse`, `WriteScheduled` (the
update that ignores the session), `Reread` (`new: true`, a query of its own),
`EmitScheduled` (after the transaction). A crash may fall between any two. `sent` and
`pending` are the topic: a message is consumed from `pending`, or again from `sent` when
`Redelivery` holds. `Consume`, `MayStart` are the worker's end: the workflow id is made
of syncflow and version, and ALLOW_DUPLICATE_FAILED_ONLY lets an id be used again only
after a failure; an already-started error is swallowed and the message is gone.

`Loader`: `table` is the version whose difference was applied last, `marks` the
idempotency table. A load is one transaction and loads of one version exclude each other
by an advisory lock, so it is one step. `Abandon` is an attempt the activity no longer
waits for; `AbandonedEnds` is its commit, after the retry or before.

`PostProcessor`: `store` is the set of versions whose files exist, `counted[v]` how often
`rowsNumber` includes version `v`, `failed` the versions a failure was published for.
`handling[p]` is the success instance `p` of the service is at work on, with the statistics it
has read: `BeginSucceed` reads the data source and deletes the previous version's files,
`EndSucceed` writes the statistics, and in between the instance may die (`HandlerDies`), so
that the message comes again.

### ExcelSync, GoogleSync, ActivityErrors, Orchestrator

`wf[v]` (`ex[k][v]` for the three Google workflows) is the execution with that id: its
position, named after the activity to come, and the `prevVersion` of its payload. Each
activity is a step. Temporal repeats an activity until it answers or fails for good, and
all but the load are idempotent, so a step either happens or is one of the failures the
code tells apart: external (the user's data) and internal (a processor's).
`ActivityErrors` says which of the two each activity can end with: an error passes the
provider's error handler or the processor's answer, then `processorWrapper` and
`activityWrapper`, and only one with a type reaches the workflow; Temporal retries the
others. The catch blocks are modelled statement by statement: Excel resets the status,
publishes, and rethrows only external errors; Google gives the version up (`version + 1`,
same `prevVersion`), publishes and rethrows both. Excel's controller compares the
workbook's cTag with the stored cursor; `Stored` is what mongoose does with a field that
the schema does not declare. `Orchestrator` lists the activities of the workers with their
timeouts and retry policies (no number of attempts is set, so they are tried for ever) and
says how a time travels: EJSON brings a Date back from a Temporal payload, JSON in a
message of the broker makes it a string.

Both providers implement `SequentialSync`: syncs of a syncflow follow one another, and each
is loaded on the one before. In the mapping of GoogleSync a sync has begun when the first of
its three workflows is past its check (`Underway`), and not when the status says RUNNING:
with a second controller or a crash the status can be overwritten while a sync is at work.

### Difference, IdColumn, RowSync

`Difference` has no state: it gives, for two snapshots, what each comparer query returns
(added, deleted and changed ids, updated and nulled fields, added and deleted fields)
and what the loader's statements make of a table, in their order: `LoadedData`,
`ErrorMark`, `Inserted`, `Loaded`. A row hash is the sequence of the values in the order of
the fields, without names, with nulls replaced by the type's default, as in the query.

`IdColumn` is find-and-fix-id-col (`KeepsId`, `FixedIds`) and update-id-column: `Batches`
runs the loop over the records of the file of new ids (`ReadRecord`, which closes a full
batch) as a recursive function, and saves the last, started batch (`Save`).

`RowSync` puts them in a loop with a user: `Download`, `FixIdsAndUpload`, `FixIdsFails`
(some batches written, others not), `Load`, `GiveUp`, and edits at any moment: a cell,
a new row, a copied row, a deleted row, an id cleared or typed over, the id column
deleted, a column added or removed, a deleted row restored. Ids may be in a sheet, and twice
in it, before its first sync (`FirstNewId`). `SetColumns` keeps the columns comparable with
those of the base *and* of a version on its way: an earlier form asked for the base only,
and the attempt to prove `TableIsSnapshot` showed that more edits than the runs make could
then replace a column between two loads.

### Configurator, Lifecycle, Triggers

`Configurator` has one data source. `wf` is the workflow whose id is the data source's id:
createSyncConnectionWf (`Look`, `Insert`, `AnnounceCreated`) or deleteDataSourceWf
(`DeleteSource`, `TerminateWorkflows`, `AnnounceDeleted`), at most one at a time, as an id
admits one open execution. `drop` are the connections with a deleteSyncConnectionWf, whose
id is the connection's. `conn` is a connection's document with its syncflow and trigger,
which one transaction creates and deletes together. `created` and `removed` are the two
events. An activity may commit and its answer be lost (`LostAnswers`); it then finds its
own work. A dropped connection is not announced: the test in deleteSyncConnectionWf is the
wrong way round. Requests come through `Api`: a guard that looks for the API key, then a
pipe that holds the body against the class a handler declares (its fields, required or
optional, and their types). What a handler can meet is a set of such bodies; a handler that
declares no body gets none.

`Lifecycle` adds, per connection, the status of the syncflow and where its sync is: a
message on its way, about to check the syncflow, about to read the data source, at work,
stuck (an activity that throws for ever), terminated. Only reads of documents and the
termination matter here; the rest of a sync is the subject of the first group. `Terminate`
ends every open execution and no message.

`Triggers` adds the two trigger services, chosen by `provider`. `proc` is the consumer of
the connection events, and beside it the processor of refreshment jobs: both run
`Register`, `Store` and `Stop` on the same trigger. `channels` is the provider's side,
`config` what the trigger remembers, `jobs` what Redis holds. The frequency of a connection
becomes a cron expression (`createCronExpressionFromFrequency`), which need not be one
(`IsExpression`): then the job is refused. The cron service catches nothing, so that the message
of a refused job comes again, and is refused again; in the webhook service a refused channel and
errors of deleted documents end the handler without a trace, as the catch blocks do.

### Catalog, Spreadsheet

`Catalog` has the data sources of one spreadsheet and its providers, of which a second may
only be made once the first is deleted. A creation goes through `FindProvider` (which
makes one if there is none, and does not wait for its insertion, `Save`), `CheckSource`
and `InsertSource`, without a transaction. `Sheet` is what a check may meet at the
provider, `ExcelCheckDataSource` and `GoogleCheckDataSource` the requests it makes of it,
in turn: a token without all scopes, a file that cannot be read, a sheet that is not
listed, an empty header, an id column that is there twice. A provider is found by an
external id made of what the request names (the spreadsheet, or the workbook with its
drive), so that the same workbook with and without its drive has two providers. Google's
header is read from A1:Z1, so that an id column further right is not seen. A deletion is a
transaction with a snapshot: `BeginDeletion` reads the provider's other data sources,
`CommitDeletion` deletes the provider if there were none. `orphaned` remembers the data
sources inserted in between.

`Spreadsheet` adds what the Google workflows do with the provider's one `file`: decide
whether the download of another data source's sync will do (`TakesOver`), download, upload,
note the time, ingest, each a step of `googleSheetsDownload` or `googleSheetsProceedSync`.
The comparison of times is modelled by what JavaScript makes of it: `ingestedAt` comes as a
string with a message, and a string that is no number is not less than a Date, so that only
a data source that has never ingested takes a download over. `CleanProvider` deletes the
file some time after the provider.

### Worksheet, FormStore, ExcelForms, GoogleForms, FormSync

`Worksheet` says what the calls of Microsoft Graph and Google Sheets do to the rows.
`FormStore` has the state: `form`, `saved` and `delayed` are the rows of the requests in
PostgreSQL, `pos` and `rowCount` the metadata, `queue` the jobs, `run[f]` the step of a
request's handler with the position it has read. A request is `Submit`ted and run at once,
beside all others (`ExcelRun`); if the metadata stands in its way it is delayed. The
refresh job updates the positions through the metadata service (`Downloads`, `Uploads`; when
the id column is missing the script leaves no file, nothing is uploaded and the call succeeds),
then finds the delayed requests and queues them (`FindsDelayed`, `AddsJobs`), and one
processor runs those (`ExcelRunRespectMetadata`), after which they are gone whatever
hindered them. `current` abstracts the cTags: which of the copies is that of the workbook
as it is. `ExcelForms` and `GoogleForms` differ where the services do: Excel makes the
empty row before it knows that it has a value for it, and skips the refresh of a workbook
that has not changed. `FormSync` composes them with the user, failing calls and the
deletion of the data source.

### Notifications, FormSources

`topics` are the events, each with an order of its own; `job[w]` is the job with webhook
`w`'s id, which one processor runs (`executeWebhook`, `active`); `calls` are the posts the
receiver works on, of which the processor waits for at most one (`AwaitedBy`). `Refused`
and `TimesOut` are the two ways of a retry: the second leaves the receiver at work.
`FormSources` is the receiver, form sync's webhook service: `createDataSource` saves the
row with a new job id and then adds the repeatable job, `handleSyncflowSucceed` fetches the
schema and then writes it, `deleteDataSource` reads the common row, lets the cleaner read the
provider's row and remove the job it names, and then deletes both rows.

## 3. The runs

| Run | Bounds | Shows |
| --- | --- | --- |
| `excel_safety` | 2 controllers, versions to 2, every fault on | 692,226 states. Safety, and the refinement of SequentialSync, under redelivery, crashes, every error and abandoned loads. |
| `excel_liveness` | 2 controllers, versions to 2, one edit, abandoned loads; no errors, crashes, redelivery | 50,448 states. A scheduled sync is carried out, the status returns to IDLING, rows are counted once. |
| `excel_internal` | 1 controller, versions to 2, internal errors | `Settles` is violated, see section 4. |
| `google_sync` | 1 controller, versions to 3, processor errors | 8,150 states. Safety, the refinement and `Settles`, through versions given up one after another. |
| `google_faults` | 2 controllers, versions to 2, redelivery, crashes, abandoned loads; no processor errors | 1,581,698 states. `OneSync` and `LoadOnBase` of three chained workflows. |
| `rows` | sheets of up to 3 rows and 3 columns, 2 edits, 6 ids, batches of 2, cells `""`, `"1"`, `"a"`, `"__Error"`; a first sheet without ids and one with a copied id | 331,786 states. Row identity, and the table equal to the snapshot. |
| `lifecycle` | 2 connections, lost answers | 27,963 states. A connection dropped and created again and the data source deleted, with syncs of both connections anywhere. |
| `triggers` | 1 connection, 3 channels, 1 crash or repeated message, lost answers | 516,026 states. Jobs and channels of one connection, for both providers; the first sync and the removal of the job under fairness. |
| `providers` | 2 data sources, 2 providers, 2 edits, 2 syncs of each | 4,704,186 states. Creations, syncs and deletions of two data sources of one spreadsheet. |
| `forms` | 2 requests, 1 record, 1 edit, no failing call | 1,817,046 states. Requests, user and refresh interleaved, for both providers. |
| `forms_live` | 1 request, 2 records, 1 edit, 1 failing call, the data source may be deleted | 339,297 states. A delayed request is settled. |
| `notifications` | 1 data source with 1 sync, 2 webhooks, 3 events, 2 posts at a time, 2 attempts, 2 failures, 4 job ids | 267,628 states. The chain from an event to form sync's tables, and delivery under fairness. |

Why the bounds are enough. Two versions are the shortest history with a base, a mark to
replace and files to clean; an execution of version 1 can then meet everything of version
2. Three are needed where a version may be given up (the table is then two versions
behind). Two controllers show every race of the read, write, re-read and publish steps. One instance
of the post-processor handles successes: with two, `RowsCountedOnce` fails, as section 4 says.
Three rows with batches of two give a full batch, a started one and, as the header is
counted, a boundary between them; two edits suffice for a copied row that is then changed,
or an edit before and one after the download. Connections do not meet in `Triggers`, where
every step of a service is about one connection; one suffices there, with a channel each
for the old, its replacement and a creation handled again. In `Lifecycle` the second
connection is the one created after a drop. Two data sources are the last and the one that
is created or synced meanwhile; a third could only repeat a role. Two edits tell the
content of a file, of a download on its way and of the spreadsheet apart. In `forms` one
request acts while the other moves rows under it, and the record that was there is the one
that may be hit by mistake; the edit is a second cause of the same. `forms_live` needs one
request only, as its question is whether some step of a delayed request's way can lose it.
In `notifications` two webhooks are a creation and a success, or a deletion, out of order,
and with two attempts each job can be tried again once.

Everything that counts is capped by a constant in a guard: `MaxVersion` in `WriteScheduled`
and `Consume` (a last message that would exceed it waits for ever), `MaxEdits`, `MaxIds`,
`MaxRows`, `MaxConnections`, `MaxChannels`, `MaxCrashes`, `MaxProviders`, `MaxSyncs`,
`MaxFails`, `MaxVersions`, `MaxCalls`, `MaxJobs`; `MaxDeletes` says whether the data source
of a form may be deleted. Because those bounds end behaviours, the runs set
CHECK_DEADLOCK FALSE.

## 4. Findings

`excel_internal` is a run that TLC violates in the model of what the code does: after one
internal error `excelFullSync` neither increments the version nor throws; the execution is
completed, its id can never be started again, and the syncflow stays SCHEDULED. The
comment of the Google workflow's handler says why a version must be incremented.

Other places where the code does less than one would expect are modelled as they are, and
a property leaves out exactly what they break; each is a hazard in PROJECT.json:

* the cursor that lets an unchanged workbook be skipped is not in the mongoose schema,
  hence never stored (`Stored`);
* a message of a Google version that was given up starts it again, beside the next version
  (redelivery and errors are checked in two runs);
* a load that committed without an answer, followed by a retry that reports an internal
  error: the next version is loaded with the wrong base (abandoned loads and errors likewise);
* removing the column that held a row's only error leaves the row marked (`ErrorsAreMarked`
  asks the other direction only);
* a success that is delivered again after it was handled is counted again, and two instances
  that handle successes side by side overwrite each other's statistics: `excel_liveness` with
  `PostProcessors = {p1, p2}` violates `RowsCountedOnce` (both read the rows, then both write);
* a dropped connection is not announced, so its job stays;
* an insert into a form whose answer is lost is repeated (`InsertedOnce` without failures);
* a request that is delayed is dropped on its second run if its record is still not where
  the metadata says, and positions stay wrong after a failure of the metadata service until
  the workbook changes again (`PositionsExact` without failures);
* form sync brings a data source back when its creation is handled after its deletion, and
  loses a schema that comes before the creation;
* no code sets a webhook INACTIVE, and its option `assure` is stored and never read;
* a third column with the same name makes form sync loop for ever (`excel/index.ts:546`,
  `google-sheets/index.ts:525`);
* `cleaner.factory.ts:46` of the post-processor returns the Google cleaner for the provider
  of an Excel file, too;
* POST /datasources/:id/connections lacks `@Body` (`data-source.controller.ts:64`), so its
  configuration is always the default, and a connection that is there makes a TypeError;
* PUT /dataproviders changes credentials of which the data sources keep copies, and those
  are what a sync uses;
* a fractional or negative frequency can make a cron expression that is none
  (`trigger.service.ts:27`): the job is refused each time the message is delivered, which has
  no end, and the connection never gets its first sync (`FirstSyncTriggered` excepts it);
* without an id column the refresh of a sheet leaves the positions and the number of rows as
  they were and stamps the tag all the same (`PositionsExact` holds, as no row has an id then);
* a request for Google without a spreadsheet makes a provider without an external id, and a
  workbook with and without its drive is two providers;
* Google's error for missing scopes makes the error handler itself throw, and is retried
  for ever instead of stopping the connection.

## 5. Fairness

Fairness is weak, and only where something in the system drives the step: Temporal drives
a started execution (`Workflow`), Kafka consumers consume what is there (`StartWorkflow`
or `DropScheduled`, `StartLater`, `PostSucceed` at each instance), a controller that took a
trigger goes on.
No trigger need come, no user need act, no abandoned attempt need end. `Settles` and
`ScheduledIsLoaded` therefore speak of a sync that has been scheduled. The runs that check
them assume no crash of a controller between its write and its publication: with it the
status does stay SCHEDULED, a loss the code does not guard against. In `Triggers` the
configurator's workflows and the consumer are fair, the refreshment, ticks, notifications
and requests are not.

In `FormSync` a handler that runs goes on, the one processor takes the next job, and the
refresh, which a cron fires again and again, goes on; neither the user nor a failure need
come. In `FormSources` messages are consumed and posts worked off under weak fairness. The
posting of a webhook's job is strongly fair: one processor takes the jobs of all webhooks in
turn, so that each is possible again and again, but not all the time. Failures are bounded,
and `Delivered` asks nothing once there are as many as a job has attempts.

## 6. Assumptions and abstractions

Assumed, and not shown:

* A load attempt nobody waits for commits before a later version is loaded, or dies. The
  mark of a version is deleted with the next load, so a longer-lived attempt would be
  applied twice (a hazard in PROJECT.json).
* Attempts of the other activities are over when they are retried.
* A workflow's last activity and the close of its execution are one step.
* A trigger service is one process that handles one event at a time. With two, a creation
  that overlaps the deletion of its connection can leave a job behind.
* Temporal's visibility store answers the termination's query at once; attempts of the
  configurator's activities are over when they are retried (a late one could insert a
  second connection, as no index forbids it).
* A channel expires only when no trigger remembers it: refreshments come in time.
* `Watched` excludes a connection whose last channel the provider refused, or a crash lost
  between its registration and its storing: the code gives up on those. A job of a deleted
  Google trigger may stay (its interval was not stored, or its deletion not announced); its
  refreshment finds no trigger and does nothing, so `JobRemoved` speaks of cron jobs. When
  a job fires is left open.
* Two syncflows of one data source can be at work at a time after a drop: the dropped
  connection's sync is not terminated, and the controller asks about one syncflow only.
  No property claims the opposite here.
* A document of mongoose keeps the session it was read with, and its `updateOne` uses it: what
  `deleteConnection` writes through documents it read in the transaction is part of it. An
  update through the model without a session, like that of SCHEDULED, is not.
* The loader's transaction is atomic, and cityHash64 is injective.
* In `rows`: columns stay in place while ids are being written back; between two syncs
  columns are added or removed but not both (`Replacing` FALSE), and no cell is `"0"`.
  These two are real limits of the code, not of the model: rows are hashed without field
  names and with empty numbers as 0, so that a change from empty to 0, or a replaced column
  with equal values, is not seen. With either TLC finds `TableIsSnapshot` violated; both
  are listed as hazards. A restored row keeps the id of a deleted one, on which every load
  fails; `NeverConflicts` allows exactly these conflicts.
* In `Spreadsheet` the minute within which a download may be taken over is left open, so
  that first syncs may ingest content of any age; `Fresh` speaks of the others. Snapshot
  isolation of MongoDB's transactions is taken from its documentation.
* In `FormSync` the reads at the start of a handler (the data source, the header or schema,
  the metadata) are one step, and so are the two uploads of the metadata service, as no
  handler reads both; one refresh runs at a time; the id column changes only while no handler
  runs, because a handler keeps the columns it has read; headers are distinct; the ids of
  requests are alike, so `Submit` takes them in one order. `Fail` stands for a call that
  fails and for one whose answer is lost: the steps before it have happened or not.
  `moved` is history: the handlers under which the sheet has changed since their check.
  `RightRow` excepts those, because the code has nothing that would hold them off.
* In `FormSources` a data source is synced a bounded number of times, each time with another
  schema, and `Refreshed` allows one failure: with two, an attempt nobody waits for can
  overwrite the row of its retry and then fail to add its job.

## 7. What is proved

Every safety and action property that a run checks is also a theorem, for every value of the
constants: any number of controllers, versions, edits, rows, connections, channels, data
sources, requests and faults. Where a theorem has hypotheses, they are the ones under which
the run checks the property, and the paragraph says what goes wrong without them.
The constants are assumed to be of their types, and nothing else (`ControlAssumption`,
`ExcelAssumption`, `GoogleAssumption`, `IdColumnAssumption`, `RowSyncAssumption`,
`ConfiguratorAssumption`, `TriggersAssumption`, `CatalogAssumption`,
`SpreadsheetAssumption`, `FormStoreAssumption`, `NotificationsAssumption`,
`FormSourcesAssumption`); `SheetsAssumption` says that the sheets a user may start with are
sheets, and that ids are only where there is an id column. Each inductive invariant below was
checked by TLC before it was proved.

**ExcelSync** (`ExcelSyncProofs`), for every combination of faults: `TypeOK`, `OneSync`,
`LoadOnBase`, `BaseKept`, `OnlyLastMarked`, and that ExcelSync implements SequentialSync.
They rest on

```
IInv == TypeOK /\ VersionsInv /\ MessagesInv /\ LoadInv /\ AbandonedInv /\ StoreInv
```

None of the properties is inductive: that no two executions are open follows only from
which versions can have an execution at all. `VersionsInv` says that executions of versions
before the current one are completed and none exist after it; this holds because only
`Advance` changes the version, and it completes the execution of the old one, so that
ALLOW_DUPLICATE_FAILED_ONLY keeps it closed. `MessagesInv` says that every message of the
current version carries the current `prevVersion`; `LoadInv` that the table holds
`prevVersion`, or the current version once its load was applied, and what is marked;
`AbandonedInv` that abandoned attempts are of the current version or marked; `StoreInv` that
the base's files are not yet named by any success that could be handled. The refinement
follows action by action from `IInv`.

`RowsCountedOnce` is proved for one instance of the post-processor, without redelivery of what
was handled, and unless internal errors and abandoned loads come together. A success handled
twice is counted twice, two instances overwrite each other's statistics, and after an internal
error the load of a version that nobody announces may have committed. `CountInv` says which
versions are counted (those announced whose success no handler has finished with),
`HandlingInv` that the success being handled is one of the unfinished and that the statistics
read for it are the latest, `TableInv` that without those faults the table holds no version
whose success will not be announced.

**GoogleSync** (`GoogleSyncProofs`): `TypeOK` always; `OneSync` unless processors report errors
*and* messages are delivered twice; `LoadOnBase`, and that GoogleSync implements
SequentialSync, if errors come neither with redelivery nor with abandoned loads. Both runs,
`google_sync` and `google_faults`, are within these hypotheses, which leave racing controllers
and crashes free. With errors and redelivery a version that was given up is closed as failed,
its id may be used again, and a message delivered twice starts it beside the next; with errors
and abandoned loads a load that reports an error may have committed (section 4).

`OrderInv` is about the order of the workflows. `StepsInv` says which steps each of the three
takes, `VersionsInv` what is left of versions before the current one, `MessagesInv` and
`Reached` which versions a message or an execution may name. `ChainInv`: a workflow is started
only by the message of the one before, which completed with it; so whoever is at work on a
version is alone. `PendingInv` is what makes errors harmless without redelivery: the first
workflow has no processor that could fail it, hence hands over once, so each message is the
first for its workflow and none waits for a version that was given up. `LoadInv` and
`AbandonedInv` are those of ExcelSync. Each action is summarised by what it means for a sync
(`Stays`, `Begins`, `Loads`, `Announces`, `Ends`, `Retries`, `Commits`), and the invariant as
well as the refinement are proved of the summaries.

**RowSync** (`RowSyncProofs`). `LoadShows` is about one load: for two downloaded snapshots of any
size, a load of their difference on a table that shows the first makes it show the second.
The lemmas follow the code: equal row hashes mean equal values when fields were only added or
only removed (`SameHash`; the hash has no names, so equal lengths are what aligns the fields)
and no cell equals its type's default (`SameValue`); a field that is not sent is unchanged
(`UnsentUnchanged`); and the order append, delete, merge gives exactly the ids of the new
version (`LoadedIds`). The theorems of the specification then are:

* `TypeOK` and `RowsNumberIsRows`, from `RowsInv`: what the sizes of sheets and files are, which
  files are there at which step, that the rows a reader sees are those of the version loaded
  last (`VisibleInv`) and that the statistics count them (`CountInv`). Types include that the
  loop of `Batches` writes within the sheet, which its loop invariant (`LoopInv`) shows.
* `TableIsSnapshot`, when columns are not replaced and no cell is `"0"`, from `NestedInv`: the
  columns of the sheet, the base and the version on its way are pairwise comparable, which is
  what `LoadShows` asks. Both hypotheses are limits of the code (section 6).
* `ErrorsAreMarked`, from what a load marks.
* `NeverConflicts`, from `IdsInv`: no generated id is in use (`FreshInv`), ids of deleted rows
  come back by the user only (`GoneInv`), and what is in the sheet during a sync was
  downloaded by it or brought back since (`SeenInv`).
* `IdsReachTheirRows`, from `ReadInv`: while the user does not touch the sheet, what was
  downloaded is still there, so that the batches, which write by row number, meet their rows.

**Lifecycle** (`LifecycleProofs`): `TypeOK`, `OneConnection` and `NoSyncAfterDeletion`. The second
needs `LookedInv`: who is about to insert a connection has found none, and the data source
present, and it stays so, because whatever inserts or deletes the data source has the same
workflow id and deleteSyncConnectionWf only deletes. The third is inductive by itself: only
`Read` makes a sync work and only on a data source that is present, and deletion leads to the
termination in every case, also when the activity's answer was lost.

**Triggers** (`TriggersProofs`): `TypeOK` and `Watched`, for any crashes and repeated messages, and
both providers. `EventsInv` says that what is announced has happened, `StepsInv` that a message
stays pending until its handler ends, and that who is refreshed has its job or is deleted.
`ChannelsInv` is the part that is easy to get wrong in code: a channel that a trigger remembers
or a process has read lives for that connection or not at all, and one about to be stored is
known to nobody else; so neither the consumer nor the refresher stops a channel that is in
use. `WatchInv` is `Watched` before its handler ends, step by step.

**Spreadsheet** (`SpreadsheetProofs`): `Anchored`, `TypeOK` and `Fresh`. For `Anchored` what is
missing is what a deletion in progress has seen: `SnapshotInv` says that a data source its
snapshot does not hold was inserted after it began and is orphaned, so that a provider is
deleted only over such data sources; `RequestsInv` that a data source is there only between
its creation and its deletion, so that no snapshot can miss an older one. For `Fresh`,
`FreshInv` bounds from below what every download on its way brings, of whichever data source:
the shared file may be overwritten by another's, but by none that is older than the oldest
that was on its way when the sync began. `FilesInv` says that the file is there to be read.

**FormSync** (`FormSyncProofs`), for any requests, records, rows, edits and failing calls and for
both providers: `RightRow`, `TypeOK`, `InsertedOnce`, `PositionsExact`. `RightRow` (a handler
under which the sheet has not moved since its check takes no record but its own out of the
sheet) rests on `RowsInv`, what each step of a handler knows: before an update or a deletion its
position holds a row with its record's id; before it fills an inserted row, a blank one. A step
of another handler, of the user or of the refresh either leaves the rows alone or puts the
handler into `moved`, and the lemmas on `ShiftDown`, `ShiftUp` and `Written` say what becomes of
the rows of all the others. That the last row exists needs the initial rows to be finite,
which `FormStoreAssumption` states. For the other three, `JobsInv` says that a request is run
at once or waits, and not both, and that the processor's is the first of the queue; `IdsInv`
that, while nothing has failed, no id has two rows and that of a new record none before its
handler wrote it; `TagInv` that equal tags mean equal rows: what the refresh has downloaded is
the sheet as long as the tag it read is that of the workbook; and `GoneInv` that no row has an
id without the id column, so that positions a refresh then leaves alone are exact.

**FormSources** (`FormSourcesProofs`): `TypeOK`, and `Refreshed` (with at most one failure, as
section 6 says, and if a job has more than one attempt). `MendedInv` says what makes up for a
row that has lost its job: a post about to add it or to delete the row, or a job that does
either from the start. `CallsInv` has what keeps that true: the steps belong to the type of their
webhook, the processor waits for a post of the job it runs, and while nothing has failed each
post is awaited and each job has all its attempts.

Only model-checked: liveness (`Settles`, `ScheduledIsLoaded`, `FirstSyncTriggered`,
`JobRemoved`, `DelayedSettles`, `Delivered`), which is out of the prover's reach. Conditions on
reachable states that no theorem drops: the hypotheses named above, and what section 6 assumes
of the world.

## 8. Plan, and what is not modelled

Done: SyncflowControl, Loader, PostProcessor, ExcelSync, GoogleSync, SequentialSync;
Difference, IdColumn, RowSync; Configurator, Lifecycle, Triggers; Catalog, Spreadsheet;
Worksheet, FormStore, ExcelForms, GoogleForms, FormSync; Notifications, FormSources;
ActivityErrors, Orchestrator, Api; the proofs of section 7.

Left to prove: what a receiver of notifications may rely on when posts are repeated, stated
as an abstract specification that Notifications implements, and statements about the
operators of Difference beyond `LoadShows`. Left to model: the schema tables of the
destination, and Triggers with two instances of a service.

Not modelled, and why:

* The rate limiter is the configuration of a third-party limiter; the destination reader
  runs queries; the clients of `libs/modules` are I/O, except their error handlers, which
  are in ActivityErrors; infrastructure has no behaviour of the program.
* Code nothing calls: `apps/*/common/utils.ts` from a template, the idempotency repository
  that is injected and not used, `handleWorkflowTriggeredWf` and its activities in the
  controller (the handler that starts it is commented out), `terminateWorkflowsByAttributes`,
  `unregisterTrigger`, the triggers' `executeWorkflow`, `getDataStateGoogleSheets`,
  `getSpreadSheetDataGoogleSheets`, `checkDataSourceInProvider`.
* Updates of the metadata and credentials of providers and data sources, which no modelled
  step reads, and the lists of spreadsheets and worksheets shown to the user. No code changes
  a connection's schedule.
* In the modelled parts: the normalisation of headers, numbers and dates, enum and Boolean
  columns, the schema tables of the destination, SYNCFLOW_COMPLETED, the signature of
  notifications, and form sync's endpoints that refresh by hand.
