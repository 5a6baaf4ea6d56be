----------------------------- MODULE GoogleForms -----------------------------
(***************************************************************************)
(* Form sync of Google sheets: GoogleSheetsFormSyncService and the         *)
(* processors of its queues. Unlike Excel's it looks for a value before it *)
(* makes a row, and refreshes the metadata whether or not the sheet has    *)
(* changed.                                                                *)
(***************************************************************************)
EXTENDS FormStore

\* MetadataService: documents of their own, used as those of Excel are.
getGoogleSheetsRowPos(f) == pos[form[f].rec]
getGoogleSheetsRowCount == rowCount
increaseGoogleSheetsRowCount ==
  rowCount' = IF getGoogleSheetsRowCount = 0 THEN 0 ELSE rowCount + 1

GoogleFinds(f) ==
  /\ source
  /\ Quiet
  /\ IF getGoogleSheetsRowPos(f) = 0 THEN Go(f, "metadata")
     ELSE IF ~HasIdColumn THEN Go(f, "cannot")
     ELSE GoAt(f, "check", getGoogleSheetsRowPos(f))
GoogleMatches(f) == getCellValue(sheet, run[f].at) = form[f].rec

GoogleHandleInsert(f) ==
  /\ Asks(f, "insert")
  /\ \/ /\ At("google", f, "read") /\ source /\ Quiet
        /\ IF getGoogleSheetsRowCount = 0 THEN Go(f, "metadata")
           ELSE IF NothingToInsert(f) THEN Go(f, "cannot")
           ELSE GoAt(f, "insert", getGoogleSheetsRowCount)
     \/ /\ At("google", f, "insert")
        /\ Writes(addEmptyRow(sheet, run[f].at))
        /\ Go(f, "write")
     \/ /\ At("google", f, "write")
        /\ Writes(updateRangeValue(sheet, run[f].at, InsertValues(f)))
        /\ Go(f, "count")
     \/ /\ At("google", f, "count")
        /\ Go(f, "done")
        /\ increaseGoogleSheetsRowCount
        /\ UNCHANGED <<provider, source, book, pos, form, table, queue, refresh, edits, fails>>

GoogleHandleDelete(f) ==
  /\ Asks(f, "delete")
  /\ \/ At("google", f, "read") /\ GoogleFinds(f)
     \/ /\ At("google", f, "check") /\ Quiet
        /\ IF GoogleMatches(f) THEN Go(f, "act") ELSE Go(f, "metadata")
     \/ /\ At("google", f, "act")
        /\ Writes(deleteRow(sheet, run[f].at))
        /\ Go(f, "done")

GoogleHandleUpdate(f) ==
  /\ Asks(f, "update")
  /\ \/ At("google", f, "read") /\ GoogleFinds(f)
     \/ /\ At("google", f, "check") /\ Quiet
        /\ IF ~GoogleMatches(f) THEN Go(f, "metadata")
           ELSE IF form[f].known THEN Go(f, "act") ELSE Go(f, "cannot")
     \/ /\ At("google", f, "act")
        /\ Writes(updateRangeValue(sheet, run[f].at, UpdateValues(f)))
        /\ Go(f, "done")

GoogleRun(f) ==
  /\ run[f].mode = "direct"
  /\ \/ At("google", f, "read") /\ ~source /\ Throws(f)
     \/ run[f].step \in {"done", "cannot"} /\ provider = "google" /\ DeletesForm(f)
     \/ At("google", f, "metadata") /\ DelaysForm(f)

GoogleRunRespectMetadata(f) ==
  /\ run[f].mode = "respect"
  /\ \/ At("google", f, "read") /\ ~source /\ Throws(f)
     \/ run[f].step \in Outcomes /\ provider = "google" /\ DeletesForm(f)

GoogleRespectMetadataProcessor == provider = "google" /\ TakesJob

GoogleUpdateMetadata ==
  /\ provider = "google"
  /\ \/ /\ refresh = Still
        /\ refresh' = IF source THEN [refresh EXCEPT !.step = "download"] ELSE Returned
        /\ RefreshKeeps /\ UNCHANGED <<metadata, current, queue, fails>>
     \/ PostFails
     \/ /\ refresh.step = "stamp"   \* metadataSyncedAt, which nothing reads
        /\ refresh' = Returned
        /\ RefreshKeeps /\ UNCHANGED <<metadata, current, queue, fails>>

\* The metadata service's part of it.
GoogleMetadataService ==
  /\ provider = "google"
  /\ Downloads \/ Uploads

\* The rest of the job.
GoogleUpdateMetadataProcessor ==
  /\ provider = "google"
  /\ FindsDelayed \/ AddsJobs

GoogleHandler(f) ==
  \/ GoogleHandleInsert(f) \/ GoogleHandleDelete(f) \/ GoogleHandleUpdate(f)
  \/ GoogleRun(f) \/ GoogleRunRespectMetadata(f)
GoogleRefresh == GoogleUpdateMetadata \/ GoogleMetadataService \/ GoogleUpdateMetadataProcessor
=============================================================================
