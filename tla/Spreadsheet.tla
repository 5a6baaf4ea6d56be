----------------------------- MODULE Spreadsheet -----------------------------
(***************************************************************************)
(* The spreadsheet the data sources of a Google Sheets provider share. It  *)
(* is downloaded as a whole, to one file per provider, from which each     *)
(* data source's sync ingests its own sheet. A sync may take over a file   *)
(* that another one has just downloaded. Deleting the provider has the     *)
(* file cleaned, whatever syncs are doing with it.                         *)
(***************************************************************************)
EXTENDS Catalog, Orchestrator, FiniteSetsExt

CONSTANTS
  MaxEdits,  \* bound: edits of the spreadsheet
  MaxSyncs   \* bound: syncs of a data source

ASSUME SpreadsheetAssumption == {MaxEdits, MaxSyncs} \subseteq Nat

VARIABLES
  edits,         \* the spreadsheet's content: the edits made so far
  file,          \* per provider: the content of its file in the store, if any
  downloadedAt,  \* per provider: whether its state has a time of download
  sync,          \* per data source: the sync that is on its way
  done,          \* per data source: the syncs it has ingested
  since          \* data sources whose provider was downloaded after they ingested

sheetVars == <<edits, file, downloadedAt, sync, done, since>>
vars == <<catalogVars, sheetVars>>

NoFile == MaxEdits + 1
Contents == 0 .. MaxEdits
\* What a sync is at, the content it has read, whether it was scheduled before
\* the data source had ever ingested anything, and, as history, the oldest
\* content a download then under way may have read.
NoSync == [step |-> "idle", read |-> 0, first |-> FALSE, oldest |-> 0]

TypeOK ==
  /\ CatalogTypeOK
  /\ edits \in Contents
  /\ file \in [Providers -> Contents \cup {NoFile}]
  /\ downloadedAt \subseteq Providers
  /\ sync \in [Sources -> [step : {"idle", "decide", "download", "upload", "note", "ingest",
                                   "ingested", "stuck"},
                           read : Contents, first : BOOLEAN, oldest : Contents]]
  /\ done \in [Sources -> 0 .. MaxSyncs]
  /\ since \subseteq Sources

Init ==
  /\ CatalogInit
  /\ edits = 0
  /\ file = [p \in Providers |-> NoFile]
  /\ downloadedAt = {}
  /\ sync = [d \in Sources |-> NoSync]
  /\ done = [d \in Sources |-> 0]
  /\ since = {}

ProviderOf(d) == source[d].provider
At(d, step) == sync[d].step = step
Goto(d, step) == sync' = [sync EXCEPT ![d].step = step]

Edit ==
  /\ edits < MaxEdits
  /\ edits' = edits + 1
  /\ UNCHANGED <<catalogVars, file, downloadedAt, sync, done, since>>

\* The syncflow's document goes into the message as it is when it is scheduled.
Schedule(d) ==
  /\ source[d].state = "live" /\ At(d, "idle") /\ done[d] < MaxSyncs
  /\ sync' = [sync EXCEPT ![d] =
       [step |-> "decide", read |-> 0, first |-> done[d] = 0,
        oldest |-> Min({edits} \cup {sync[e].read : e \in {e \in Sources : At(e, "upload")}})]]
  /\ UNCHANGED <<catalogVars, edits, file, downloadedAt, done, since>>

\* As a bug would: the provider was downloaded after this data source ingested.
TakesNewer(d) ==
  /\ ProviderOf(d) \in downloadedAt
  /\ sync[d].first \/ d \in since
\* As another would: whether there was a download is not looked at.
TakesOverUnseen(d) == sync[d].first

\* The times the decision is made by, as they reach the workflow: one is in the
\* syncflow that was published, the other an activity reads in the database.
ingestedAt(d) == Passed(Published(IF sync[d].first THEN "undefined" ELSE "Date"))
providerDownloadedAt(d) ==
  Passed(IF ProviderOf(d) \in downloadedAt THEN "Date" ELSE "undefined")

\* The file is taken over if the provider has been downloaded, within the last
\* minute, which is left open, if this data source has never ingested; else
\* after it did, which < does not tell of a string and a Date.
TakesOver(d) ==
  /\ providerDownloadedAt(d) # "undefined"
  /\ \/ ingestedAt(d) = "undefined"
     \/ Comparable(ingestedAt(d), providerDownloadedAt(d)) /\ d \in since

\* The provider's state gets its time of download.
updateProviderState(p) == downloadedAt' = downloadedAt \cup {p}

\* The activity finds no provider that is deleted, and the workflow ends.
updateProviderStateGoogleSheets(d) ==
  IF provider[ProviderOf(d)] = "live"
  THEN /\ updateProviderState(ProviderOf(d))
       /\ since' = since \cup {e \in Sources : ProviderOf(e) = ProviderOf(d) /\ done[e] > 0}
       /\ Goto(d, "ingest")
  ELSE Goto(d, "stuck") /\ UNCHANGED <<downloadedAt, since>>

\* Without its data source or provider the workflow completes, and the
\* syncflow stays RUNNING.
Found(d) == source[d].state = "live" /\ provider[ProviderOf(d)] = "live"
googleSheetsDownload(d) ==
  \/ /\ At(d, "decide")
     /\ \/ Found(d) /\ TakesOver(d) /\ Goto(d, "ingest")
        \/ Found(d) /\ Goto(d, "download")
        \/ ~Found(d) /\ Goto(d, "stuck")
     /\ UNCHANGED <<file, downloadedAt, since>>
  \/ /\ At(d, "download")
     /\ sync' = [sync EXCEPT ![d].step = "upload", ![d].read = edits]
     /\ UNCHANGED <<file, downloadedAt, since>>
  \/ /\ At(d, "upload")
     /\ file' = [file EXCEPT ![ProviderOf(d)] = sync[d].read]
     /\ Goto(d, "note")
     /\ UNCHANGED <<downloadedAt, since>>
  \/ /\ At(d, "note")
     /\ updateProviderStateGoogleSheets(d)
     /\ UNCHANGED file

\* The file is there to be ingested: TypeOK holds of what is read.
googleSheetsProceedSync(d) ==
  \/ /\ At(d, "ingest")
     /\ IF Found(d)
        THEN sync' = [sync EXCEPT ![d].step = "ingested", ![d].read = file[ProviderOf(d)]]
        ELSE Goto(d, "stuck")
     /\ UNCHANGED <<done, since>>
  \/ /\ At(d, "ingested")
     /\ done' = [done EXCEPT ![d] = @ + 1]
     /\ since' = since \ {d}
     /\ sync' = [sync EXCEPT ![d] = NoSync]

\* terminateDataSourceWorkflows, once the data source is deleted.
Terminate(d) ==
  /\ source[d].state = "deleted" /\ ~At(d, "idle")
  /\ sync' = [sync EXCEPT ![d] = NoSync]
  /\ UNCHANGED <<catalogVars, edits, file, downloadedAt, done, since>>

\* DATA_PROVIDER_DELETED: the file is deleted.
cleanSpreadsheetData(p) == file' = [file EXCEPT ![p] = NoFile]
CleanProvider(p) ==
  /\ p \in cleaning
  /\ cleaning' = cleaning \ {p}
  /\ cleanSpreadsheetData(p)
  /\ UNCHANGED <<provider, source, creation, deletion, orphaned, edits, downloadedAt,
                 sync, done, since>>

Next ==
  \/ (CatalogRequest \/ CatalogStep) /\ UNCHANGED sheetVars
  \/ Edit
  \/ \E d \in Sources :
       \/ Schedule(d) \/ Terminate(d)
       \/ googleSheetsDownload(d) /\ UNCHANGED <<catalogVars, edits, done>>
       \/ googleSheetsProceedSync(d) /\ UNCHANGED <<catalogVars, edits, file, downloadedAt>>
  \/ \E p \in Providers : CleanProvider(p)

Spec == Init /\ [][Next]_vars

-----------------------------------------------------------------------------
\* A sync other than the data source's first ingests every edit made before it
\* was scheduled, but those that a download already under way did not see, and
\* wrote over a newer file.
Fresh ==
  \A d \in Sources :
    At(d, "ingested") /\ ~sync[d].first => sync[d].read >= sync[d].oldest
=============================================================================
