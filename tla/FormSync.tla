------------------------------- MODULE FormSync -------------------------------
(***************************************************************************)
(* Form sync as a whole: a data source of either provider, its requests,   *)
(* the user of the sheet, and the refresh of the metadata, which meets     *)
(* them all.                                                               *)
(***************************************************************************)
EXTENDS ExcelForms, GoogleForms

VARIABLE moved   \* history: handlers under which the sheet changed since they
                 \* checked their row, or made it

store == <<provider, source, idColumn, sheet, current, rowCount, pos, form,
           saved, delayed, queue, run, refresh, edits, fails>>
vars == <<store, moved>>

TypeOK ==
  /\ provider \in {"excel", "google"}
  /\ source \in BOOLEAN
  /\ idColumn \in {"later", "first", "gone"}
  /\ sheet \in Seq([id : Records \cup {Blank}, data : Records \cup {Blank, Typed}])
  /\ rowCount \in Nat
  /\ current \subseteq {"cTag", "tag"}
  /\ pos \in [Records -> Nat]
  /\ form \in [Forms -> FormRows]
  /\ saved \subseteq Forms
  /\ delayed \subseteq saved
  /\ queue \in Seq(Forms)
  /\ run \in [Forms -> [mode : {"none", "direct", "respect"},
                        step : {"idle", "read", "insert", "write", "count", "check", "act"} \cup Outcomes,
                        at : Nat]]
  /\ refresh.step \in {"idle", "download", "upload", "stamp", "find", "add"}
  /\ edits \in 0 .. MaxEdits
  /\ fails \in 0 .. MaxFails
  /\ moved \subseteq Forms

Init == FormInit /\ moved = {}

\* The step of a handler whose row others may move before it is taken.
Exposed(f) == run[f].step \in {"write", "act"}
Remembers ==
  moved' = {f \in Forms : /\ Exposed(f) /\ run'[f] = run[f]
                          /\ f \in moved \/ sheet' # sheet}

Handler(f) == ExcelHandler(f) \/ GoogleHandler(f)
Refresh == ExcelRefresh \/ GoogleRefresh
Processor == ExcelRespectMetadataProcessor \/ GoogleRespectMetadataProcessor

Next ==
  /\ \/ \E f \in Forms :
          \/ \E type \in FormSyncType, rec \in Records, known \in BOOLEAN :
               Submit(f, type, rec, known)
          \/ Handler(f)
          \/ Fail(f)
     \/ Processor
     \/ Refresh
     \/ RefreshThrows
     \/ UserInsertsRow \/ UserDeletesRow \/ UserChangesIdColumn
     \/ DeleteSource
  /\ Remembers

\* Running code goes on, and the cron fires again and again.
Fairness ==
  /\ \A f \in Forms : WF_vars(Handler(f) /\ Remembers)
  /\ WF_vars(Processor /\ Remembers)
  /\ WF_vars(Refresh /\ Remembers)

Spec == Init /\ [][Next]_vars /\ Fairness

-----------------------------------------------------------------------------

Shows(rows, r) == \E p \in DOMAIN rows : rows[p] = [id |-> r, data |-> r]

\* A record leaves the sheet, or is written over, only by an edit of the user
\* or by its own delete request, as long as nothing moves the rows between the
\* check of the id cell, or the making of the new row, and the write that
\* follows it: however stale the positions are, and whichever requests and
\* refreshes run meanwhile.
RightRow ==
  [][\A r \in Records :
       Shows(sheet, r) /\ ~Shows(sheet', r) =>
         \/ edits' # edits
         \/ \E f \in Forms : run'[f] # run[f] /\ (f \in moved \/ form[f].rec = r)]_vars

\* A refresh that finds the tag unchanged may be left out: the positions are
\* those of the sheet, unless a call of the metadata service failed.
PositionsExact ==
  provider = "excel" /\ "cTag" \in current /\ fails = 0 =>
    \A p \in DOMAIN sheet : sheet[p].id # Blank => pos[sheet[p].id] = p

\* A record is inserted once, delayed or not, unless a call failed after the
\* row was made.
InsertedOnce ==
  fails = 0 => \A f \in Forms : Cardinality({p \in DOMAIN sheet : sheet[p].id = f}) <= 1

\* A delayed request is run again and settled, whatever fails meanwhile, as
\* long as its data source is there.
DelayedSettles ==
  \A f \in Forms : f \in delayed ~> (f \notin delayed \/ ~source)
=============================================================================
