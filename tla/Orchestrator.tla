---------------------------- MODULE Orchestrator ----------------------------
(***************************************************************************)
(* What the program tells Temporal: the activities its workers carry out,  *)
(* for how long an attempt at one may run and how often it is tried, and   *)
(* in what form values travel between workflows and activities.            *)
(***************************************************************************)
EXTENDS Naturals

\* The activities a worker has. One that no worker has is tried for ever.
WorkerActivities ==
  {"emitEvent",
   "checkAndUpdateStatusBeforeStartSyncflow", "updateSyncflowStatus", "updateSyncflowState",
   "getSyncDataExcel", "downloadExcel", "compareExcel", "loadExcel",
   "getDownloadDataGoogleSheets", "getDataSourceProviderGoogleSheets",
   "getSyncDataGoogleSheets", "updateProviderStateGoogleSheets",
   "downloadGoogleSheets", "ingestGoogleSheets", "compareGoogleSheets", "loadGoogleSheets"}
ConfiguratorActivities ==
  {"emitEvent", "createSyncConnection", "deleteSyncConnection",
   "deleteDataSource", "terminateDataSourceWorkflows"}

\* Seconds. An attempt that takes longer counts as failed with an error that has
\* no type. Intervals grow to their maximum; the number of attempts is not bounded.
ProcessorRetryPolicy == [initialInterval |-> 1, backoffCoefficient |-> 2, maximumInterval |-> 100]
Options(startToCloseTimeout) ==
  [startToCloseTimeout |-> startToCloseTimeout, retry |-> ProcessorRetryPolicy]

ExcelOptions ==
  [downloadExcel |-> Options(240), compareExcel |-> Options(60), loadExcel |-> Options(300)]
GoogleOptions ==
  [downloadGoogleSheets |-> Options(240), ingestGoogleSheets |-> Options(240),
   compareGoogleSheets |-> Options(60), loadGoogleSheets |-> Options(300)]

TriesForEver(options) == "maximumAttempts" \notin DOMAIN options.retry

\* The kinds of value a time can be, on its way: EJSON marks a Date, and makes it
\* one again. In a message of the broker, which is JSON, it becomes a string.
toPayload(kind) == IF kind = "Date" THEN "$date" ELSE kind
fromPayload(payload) == IF payload = "$date" THEN "Date" ELSE payload
Passed(kind) == fromPayload(toPayload(kind))
Published(kind) == IF kind = "Date" THEN "string" ELSE kind

\* < is false of a string that is no number and a Date, and of undefined.
Comparable(kind1, kind2) == kind1 = "Date" /\ kind2 = "Date"
=============================================================================
