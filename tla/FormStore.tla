------------------------------ MODULE FormStore ------------------------------
(***************************************************************************)
(* What the two form sync services share: the requests in Postgres, the    *)
(* positions of the rows in MongoDB, the queue of delayed requests in      *)
(* Redis, the worksheet itself, and how far each handler has come.         *)
(*                                                                         *)
(* A request is run at once, beside all others. One whose record is not    *)
(* where the metadata says is delayed; the job that refreshes the metadata *)
(* queues the delayed ones, and a single processor runs them one by one.   *)
(***************************************************************************)
EXTENDS Worksheet, TLC

CONSTANTS
  Forms,      \* the requests there may be
  Initial,    \* the records in the sheet at first
  MaxEdits,   \* bound: edits by the user of the sheet
  MaxFails,   \* bound: calls that fail, in all
  MaxDeletes  \* bound: whether the data source is ever deleted

ASSUME FormStoreAssumption ==
  /\ IsFiniteSet(Initial)
  /\ Initial \cap Forms = {}
  /\ Blank \notin Initial \cup Forms
  /\ MaxEdits \in Nat
  /\ MaxFails \in Nat
  /\ MaxDeletes \in 0 .. 1

VARIABLES
  provider,   \* of the data source: the service its requests are given to
  source,     \* the data source is in the database
  idColumn,   \* where the id column is in the sheet: later, first or gone
  sheet,      \* its rows
  rowCount,   \* of the common metadata document: 0 while there is none
  pos,        \* per record: the position in its metadata, 0 if there is none
  current,    \* the copies of the workbook's cTag that are that of the workbook
              \* as it is: in the common metadata ("cTag"), or read by a
              \* refresh ("tag")
  form,       \* per request: its row as it was saved
  saved,      \* the requests with a row in the database
  delayed,    \* the requests with a row among the delayed ones
  queue,      \* the jobs that wait or run, the running one first
  run,        \* per request: the handler's step and the position it read
  refresh,    \* the run of updateMetadata and of the job around it
  edits, fails

table == <<saved, delayed>>
metadata == <<rowCount, pos>>
book == <<idColumn, sheet, current>>

\* The id of the record a request inserts is new: the request stands for it.
Records == Initial \cup Forms
Typed == "typed"   \* data the user typed in
NoForm == [type |-> "none", rec |-> Blank, known |-> FALSE]
PastForm == [NoForm EXCEPT !.type = "past"]
FormSyncType == {"insert", "update", "delete"}
\* known: a column of the sheet takes one of the values given.
FormSyncDto == [type : FormSyncType, rec : Records, known : BOOLEAN]
FormRows == {NoForm, PastForm} \cup FormSyncDto

\* How a handler of the sheet ends: well, by a CanNotBeDoneError, or by a
\* MetadataError.
Outcomes == {"done", "cannot", "metadata"}
Idle == [mode |-> "none", step |-> "idle", at |-> 0]
Running(f) == run[f].step # "idle"
Still == [step |-> "idle", rows |-> <<>>, found |-> {}]

FormInit ==
  /\ provider \in {"excel", "google"}
  /\ source = TRUE
  /\ idColumn = "later"
  /\ sheet = LET s == SetToSeq(Initial) IN [p \in DOMAIN s |-> [id |-> s[p], data |-> s[p]]]
  /\ rowCount = 0
  /\ pos = [r \in Records |-> 0]
  /\ current = {}
  /\ form = [f \in Forms |-> NoForm]
  /\ saved = {}
  /\ delayed = {}
  /\ queue = <<>>
  /\ run = [f \in Forms |-> Idle]
  /\ refresh = Still
  /\ edits = 0
  /\ fails = 0

At(p, f, step) == provider = p /\ run[f].step = step
Asks(f, type) == form[f].type = type
Go(f, step) ==
  run' = [run EXCEPT ![f].step = step, ![f].at = IF step \in Outcomes THEN 0 ELSE @]
GoAt(f, step, position) == run' = [run EXCEPT ![f].step = step, ![f].at = position]

\* The steps of a handler that change the sheet, and those that do not.
Quiet == UNCHANGED <<provider, source, book, metadata, form, table, queue, refresh, edits, fails>>
Writes(rows) ==
  /\ sheet' = rows
  /\ current' = {}
  /\ UNCHANGED <<provider, source, idColumn, metadata, form, table, queue, refresh, edits, fails>>

\* The end of a handler. A job leaves its queue whatever became of it.
Ends(f) ==
  /\ run' = [run EXCEPT ![f] = Idle]
  /\ queue' = IF run[f].mode = "respect" THEN Tail(queue) ELSE queue
  /\ UNCHANGED <<provider, source, book, metadata, refresh, edits>>
\* As bugs would: the request is not deleted; its delayed row outlives it.
KeepsForm(f) == Ends(f) /\ UNCHANGED <<form, table, fails>>
DeletesFormOnly(f) ==
  /\ Ends(f)
  /\ form' = [form EXCEPT ![f] = PastForm]
  /\ saved' = saved \ {f}
  /\ UNCHANGED <<delayed, fails>>
\* The row of a delayed request goes with that of the request.
DeletesForm(f) ==
  /\ Ends(f)
  /\ form' = [form EXCEPT ![f] = PastForm]
  /\ saved' = saved \ {f}
  /\ delayed' = delayed \ {f}
  /\ UNCHANGED fails
DelaysForm(f) ==
  /\ Ends(f)
  /\ delayed' = delayed \cup {f}
  /\ UNCHANGED <<form, saved, fails>>
\* An error that nothing handles: both rows stay as they are.
Throws(f) == Ends(f) /\ UNCHANGED <<form, table, fails>>

\* MetadataService. There may be no document whose count could be increased.
getRowPos(f) == pos[form[f].rec]
NoRowCount == rowCount = 0
increaseRowCount == rowCount' = IF NoRowCount THEN 0 ELSE rowCount + 1

\* The id column's position among the headers; the handlers' test of it takes
\* the first column, 0, for none.
idColPos == CASE idColumn = "later" -> {1} [] idColumn = "first" -> {0} [] OTHER -> {}
HasIdColumn == \E position \in idColPos : position # 0

\* The values of a request's columns, the id cell included.
InsertValues(f) ==
  [id   |-> IF idColPos = {} THEN Blank ELSE form[f].rec,
   data |-> IF form[f].known THEN form[f].rec ELSE Blank]
UpdateValues(f) == [id |-> Blank, data |-> form[f].rec]
NothingToInsert(f) == InsertValues(f) = BlankRow

\* POST /formsync: the request is saved before its handler starts.
Submit(f, type, rec, known) ==
  /\ source
  /\ form[f] = NoForm
  /\ f = CHOOSE g \in Forms : form[g] = NoForm   \* ids are alike
  /\ type = "insert" <=> rec = f
  /\ rec \in Initial \cup {f} \cup {sheet[p].id : p \in DOMAIN sheet}
  /\ (type = "delete" \/ (type = "insert" /\ idColPos # {})) => known
  /\ form' = [form EXCEPT ![f] = [type |-> type, rec |-> rec, known |-> known]]
  /\ saved' = saved \cup {f}
  /\ run' = [run EXCEPT ![f] = [mode |-> "direct", step |-> "read", at |-> 0]]
  /\ UNCHANGED <<provider, source, book, metadata, delayed, queue, refresh, edits, fails>>

\* The call of any step fails, or its answer is lost and the next one fails.
Fail(f) ==
  /\ Running(f)
  /\ fails < MaxFails
  /\ fails' = fails + 1
  /\ Ends(f)
  /\ UNCHANGED <<form, table>>

\* The processor of delayed requests takes the next job; the row of the
\* request may be gone, and the handler then dies of it.
TakesJob ==
  /\ queue # <<>>
  /\ \A f \in Forms : run[f].mode # "respect"
  /\ LET f == Head(queue)
     IN  IF f \in saved
         THEN /\ run' = [run EXCEPT ![f] = [mode |-> "respect", step |-> "read", at |-> 0]]
              /\ UNCHANGED queue
         ELSE queue' = Tail(queue) /\ UNCHANGED run
  /\ UNCHANGED <<provider, source, book, metadata, form, table, refresh, edits, fails>>

RefreshKeeps == UNCHANGED <<provider, source, idColumn, sheet, form, table, run, edits>>
\* updateMetadata has returned: the job goes on.
Returned == [Still EXCEPT !.step = "find"]

\* The job finds the delayed requests of its data source, then queues those
\* that have no job yet, in the order the database gave them.
FindsDelayed ==
  /\ refresh.step = "find"
  /\ refresh' = [refresh EXCEPT !.step = "add", !.found = delayed]
  /\ RefreshKeeps /\ UNCHANGED <<metadata, current, queue, fails>>
AddsJobs ==
  /\ refresh.step = "add"
  /\ \E new \in SetToSeqs(refresh.found \ ToSet(queue)) : queue' = queue \o new
  /\ refresh' = Still
  /\ RefreshKeeps /\ UNCHANGED <<metadata, current, fails>>
\* The job throws: Bull tries it again, or the next turn of its cron does.
RefreshThrows ==
  /\ refresh.step # "idle"
  /\ fails < MaxFails
  /\ fails' = fails + 1
  /\ refresh' = Still
  /\ RefreshKeeps /\ UNCHANGED <<metadata, current, queue>>

\* The metadata service has downloaded the sheet. Its script leaves before it
\* writes a file when the id column is missing; both uploads then find none,
\* which is logged only, and the call succeeds.
Downloads ==
  /\ refresh.step = "download"
  /\ refresh' = IF idColPos = {} THEN [Still EXCEPT !.step = "stamp"]
                ELSE [refresh EXCEPT !.step = "upload", !.rows = sheet]
  /\ RefreshKeeps /\ UNCHANGED <<metadata, current, queue, fails>>
\* The number of rows and the positions are uploaded side by side: one step,
\* as no handler reads both. An upload that fails is only logged. Positions
\* are written if they changed, in any order should an id be there twice; the
\* one of a record that is in the sheet no more is kept.
NewPositions(r) ==
  LET moves == {p \in DOMAIN refresh.rows : refresh.rows[p].id = r} \ {pos[r]}
  IN  IF moves = {} THEN {pos[r]} ELSE moves
Uploads ==
  /\ refresh.step = "upload"
  /\ \E halves \in SUBSET {"common", "rows"} :
       /\ fails + 2 - Cardinality(halves) <= MaxFails
       /\ fails' = fails + 2 - Cardinality(halves)
       /\ rowCount' = IF "common" \in halves THEN Len(refresh.rows) + 1 ELSE rowCount
       /\ IF "rows" \in halves
          THEN pos' \in {new \in [Records -> UNION {NewPositions(r) : r \in Records}] :
                           \A r \in Records : new[r] \in NewPositions(r)}
          ELSE UNCHANGED pos
  /\ refresh' = [Still EXCEPT !.step = "stamp"]
  /\ RefreshKeeps /\ UNCHANGED <<current, queue>>
\* A call of the metadata service that fails is swallowed.
PostFails ==
  /\ refresh.step \in {"download", "upload"}
  /\ fails < MaxFails
  /\ fails' = fails + 1
  /\ refresh' = [Still EXCEPT !.step = "stamp"]
  /\ RefreshKeeps /\ UNCHANGED <<metadata, current, queue>>

\* The user of the sheet types in a row, deletes one, or moves the id column
\* to the front or deletes it with its ids. A handler keeps the columns it
\* read: they are changed while none runs, which is a bound.
Edits ==
  /\ edits < MaxEdits
  /\ edits' = edits + 1
  /\ current' = {}
  /\ UNCHANGED <<provider, source, metadata, form, table, queue, run, refresh, fails>>
UserInsertsRow ==
  /\ Edits
  /\ \E p \in 1 .. Len(sheet) + 1 :
       sheet' = InsertAt(sheet, p, [id |-> Blank, data |-> Typed])
  /\ UNCHANGED idColumn
UserDeletesRow ==
  /\ Edits
  /\ \E p \in DOMAIN sheet : sheet' = ShiftUp(sheet, p)
  /\ UNCHANGED idColumn
UserChangesIdColumn ==
  /\ Edits
  /\ \A f \in Forms : ~Running(f)
  /\ idColumn = "later"
  /\ \/ idColumn' = "first" /\ UNCHANGED sheet
     \/ idColumn' = "gone" /\ sheet' = [p \in DOMAIN sheet |-> [sheet[p] EXCEPT !.id = Blank]]

\* The data source is deleted: its requests stay.
DeleteSource ==
  /\ source
  /\ MaxDeletes = 1
  /\ source' = FALSE
  /\ UNCHANGED <<provider, book, metadata, form, table, queue, run, refresh, edits, fails>>
=============================================================================
