------------------------------ MODULE ExcelForms ------------------------------
(***************************************************************************)
(* Form sync of Excel worksheets: ExcelFormSyncService, the processors of  *)
(* its two queues, and the part of the metadata service it calls.          *)
(***************************************************************************)
EXTENDS FormStore

\* MetadataDoesNotExistError comes before the id column is looked for.
ExcelFinds(f) ==
  /\ source
  /\ Quiet
  /\ IF getRowPos(f) = 0 THEN Go(f, "metadata")
     ELSE IF ~HasIdColumn THEN Go(f, "cannot")
     ELSE GoAt(f, "check", getRowPos(f))
ExcelMatchesAny(f) == TRUE   \* as a bug would: not compared
ExcelMatches(f) == getWorksheetCellValue(sheet, run[f].at) = form[f].rec

\* The empty row is made before it is known whether there is a value for it.
ExcelHandleInsert(f) ==
  /\ Asks(f, "insert")
  /\ \/ /\ At("excel", f, "read") /\ source /\ Quiet
        /\ IF NoRowCount THEN Go(f, "metadata") ELSE GoAt(f, "insert", rowCount)
     \/ /\ At("excel", f, "insert")
        /\ Writes(insertWorksheetRange(sheet, run[f].at))
        /\ IF NothingToInsert(f) THEN Go(f, "cannot") ELSE Go(f, "write")
     \/ /\ At("excel", f, "write")
        /\ Writes(updateWorksheetRange(sheet, run[f].at, InsertValues(f)))
        /\ Go(f, "count")
     \/ /\ At("excel", f, "count")
        /\ Go(f, "done")
        /\ increaseRowCount
        /\ UNCHANGED <<provider, source, book, pos, form, table, queue, refresh, edits, fails>>

ExcelHandleDelete(f) ==
  /\ Asks(f, "delete")
  /\ \/ At("excel", f, "read") /\ ExcelFinds(f)
     \/ /\ At("excel", f, "check") /\ Quiet
        /\ IF ExcelMatches(f) THEN Go(f, "act") ELSE Go(f, "metadata")
     \/ /\ At("excel", f, "act")
        /\ Writes(deleteWorksheetRange(sheet, run[f].at))
        /\ Go(f, "done")

ExcelHandleUpdate(f) ==
  /\ Asks(f, "update")
  /\ \/ At("excel", f, "read") /\ ExcelFinds(f)
     \/ /\ At("excel", f, "check") /\ Quiet
        /\ IF ~ExcelMatches(f) THEN Go(f, "metadata")
           ELSE IF form[f].known THEN Go(f, "act") ELSE Go(f, "cannot")
     \/ /\ At("excel", f, "act")
        /\ Writes(updateWorksheetRange(sheet, run[f].at, UpdateValues(f)))
        /\ Go(f, "done")

\* A request run at once: one the metadata stands in the way of is delayed.
ExcelRun(f) ==
  /\ run[f].mode = "direct"
  /\ \/ At("excel", f, "read") /\ ~source /\ Throws(f)
     \/ run[f].step \in {"done", "cannot"} /\ provider = "excel" /\ DeletesForm(f)
     \/ At("excel", f, "metadata") /\ DelaysForm(f)

\* A delayed one: it is deleted however its handler ends. The error of a
\* missing data source is thrown before anything handles it.
ExcelRunRespectMetadata(f) ==
  /\ run[f].mode = "respect"
  /\ \/ At("excel", f, "read") /\ ~source /\ Throws(f)
     \/ run[f].step \in Outcomes /\ provider = "excel" /\ DeletesForm(f)

ExcelRespectMetadataProcessor == provider = "excel" /\ TakesJob

\* As bugs would: the job ends when the tag is unchanged; the tag is read again
\* before it is stamped.
ExcelReadsTagOrStops ==
  /\ refresh = Still
  /\ source /\ "cTag" \notin current
  /\ refresh' = [refresh EXCEPT !.step = "download"]
  /\ current' = {"tag"}
  /\ RefreshKeeps /\ UNCHANGED <<metadata, queue, fails>>
ExcelStampsAnew ==
  /\ refresh.step = "stamp"
  /\ current' = IF ~NoRowCount THEN {"cTag"} ELSE {}
  /\ refresh' = Returned
  /\ RefreshKeeps /\ UNCHANGED <<metadata, queue, fails>>

\* The tag is read before the sheet is downloaded, and stamped after, also
\* when the metadata service failed. There may be no document to stamp.
ExcelReadsTag ==
  /\ refresh = Still
  /\ IF source /\ "cTag" \notin current
     THEN /\ refresh' = [refresh EXCEPT !.step = "download"]
          /\ current' = {"tag"}
     ELSE refresh' = Returned /\ UNCHANGED current
  /\ RefreshKeeps /\ UNCHANGED <<metadata, queue, fails>>
ExcelStamps ==
  /\ refresh.step = "stamp"
  /\ current' = IF ~NoRowCount /\ "tag" \in current THEN {"cTag"} ELSE {}
  /\ refresh' = Returned
  /\ RefreshKeeps /\ UNCHANGED <<metadata, queue, fails>>
ExcelUpdateMetadata ==
  /\ provider = "excel"
  /\ ExcelReadsTag \/ PostFails \/ ExcelStamps

\* The metadata service's part of it.
ExcelMetadataService ==
  /\ provider = "excel"
  /\ Downloads \/ Uploads

\* The rest of the job, which starts with updateMetadata on each turn of its
\* cron.
ExcelUpdateMetadataProcessor ==
  /\ provider = "excel"
  /\ FindsDelayed \/ AddsJobs

ExcelHandler(f) ==
  \/ ExcelHandleInsert(f) \/ ExcelHandleDelete(f) \/ ExcelHandleUpdate(f)
  \/ ExcelRun(f) \/ ExcelRunRespectMetadata(f)
ExcelRefresh == ExcelUpdateMetadata \/ ExcelMetadataService \/ ExcelUpdateMetadataProcessor
=============================================================================
