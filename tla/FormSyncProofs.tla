-------------------------- MODULE FormSyncProofs --------------------------
(***************************************************************************)
(* Theorems about FormSync, for any requests, any number of rows, edits    *)
(* and failing calls, and both providers: RightRow, TypeOK, InsertedOnce   *)
(* and PositionsExact.                                                     *)
(*                                                                         *)
(* The proof first follows the rows through the calls that move and write  *)
(* them. It then takes the handlers apart into the steps both services     *)
(* make, shows what each finds at the position it has (FormInv), and last  *)
(* who may run a request, and what the copies of the tag are worth         *)
(* (AllInv).                                                               *)
(***************************************************************************)
EXTENDS FormSync, FiniteSetTheorems, WellFoundedInduction, TLAPS

Row == [id : Records \cup {Blank}, data : Records \cup {Blank, Typed}]

\* A set of numbers with a bound has a greatest one.
LEMMA Greatest ==
  ASSUME NEW n \in Nat, NEW S \in SUBSET (0 .. n), S # {}
  PROVE  Max(S) \in S /\ \A x \in S : x <= Max(S)
<1> DEFINE Below == {n - x : x \in S}
<1>0. \A x \in S : n - x \in Nat
  OBVIOUS
<1>1. Below \subseteq Nat /\ Below # {}
  BY <1>0, Zenon
<1>2. PICK least \in Below : \A y \in Below : ~ (<<y, least>> \in OpToRel(<, Nat))
  <2> HIDE DEF Below
  <2> QED
    BY <1>1, WFMin, NatLessThanWellFounded, Zenon
<1>3. \A y \in Below : least <= y
  <2> HIDE DEF Below
  <2> TAKE y \in Below
  <2>1. least \in Nat /\ y \in Nat
    BY <1>1
  <2>2. y < least => <<y, least>> \in OpToRel(<, Nat)
    BY <2>1 DEF OpToRel
  <2> QED
    <3>1. ~ (y < least)
      BY <1>2, <2>2, Zenon
    <3> QED
      BY <2>1, <3>1
<1>4. PICK max \in S : least = n - max
  OBVIOUS
<1>5. \A x \in S : x <= max
  <2> TAKE x \in S
  <2>1. n - max <= n - x
    BY <1>3, <1>4
  <2> QED
    BY <2>1
<1>6. \E m \in S : \A x \in S : m >= x
  BY <1>5
<1> HIDE DEF Below
<1>7. Max(S) \in S /\ \A x \in S : Max(S) >= x
  BY <1>6 DEF Max
<1> QED
  BY <1>7

\* Used leaves out rows at the end, and only blank ones.
LEMMA UsedRows ==
  ASSUME NEW rows \in Seq(Row)
  PROVE  /\ Used(rows) \in Seq(Row)
         /\ Len(Used(rows)) <= Len(rows)
         /\ \A p \in 1 .. Len(Used(rows)) : Used(rows)[p] = rows[p]
         /\ \A p \in 1 .. Len(rows) : rows[p] # BlankRow => p <= Len(Used(rows))
<1> DEFINE Full == {0} \cup {p \in DOMAIN rows : rows[p] # BlankRow}
<1>1. Full \in SUBSET (0 .. Len(rows)) /\ Full # {} /\ Len(rows) \in Nat
  OBVIOUS
<1>2. Max(Full) \in Full /\ \A p \in Full : p <= Max(Full)
  <2> HIDE DEF Full
  <2> QED
    BY <1>1, Greatest
<1>3. Max(Full) \in 0 .. Len(rows)
  BY <1>1, <1>2
<1>4. Used(rows) = SubSeq(rows, 1, Max(Full))
  BY DEF Used
<1>5. \A p \in 1 .. Len(rows) : rows[p] # BlankRow => p <= Max(Full)
  BY <1>2
<1> HIDE DEF Full
<1> QED
  BY <1>3, <1>4, <1>5

\* A new row moves those below it and leaves none out.
LEMMA InsertedRow ==
  ASSUME NEW rows \in Seq(Row), NEW p \in 1 .. Len(rows) + 1, NEW row \in Row
  PROVE  /\ InsertAt(rows, p, row) \in Seq(Row)
         /\ Len(InsertAt(rows, p, row)) = Len(rows) + 1
         /\ InsertAt(rows, p, row)[p] = row
         /\ \A q \in 1 .. Len(rows) :
              InsertAt(rows, p, row)[IF q < p THEN q ELSE q + 1] = rows[q]
<1> DEFINE above == SubSeq(rows, 1, p - 1)
           below == SubSeq(rows, p, Len(rows))
<1>1. above \in Seq(Row) /\ Len(above) = p - 1 /\ \A q \in 1 .. p - 1 : above[q] = rows[q]
  OBVIOUS
<1>2. /\ below \in Seq(Row) /\ Len(below) = Len(rows) - p + 1
      /\ \A q \in 1 .. Len(rows) - p + 1 : below[q] = rows[p + q - 1]
  OBVIOUS
<1>3. InsertAt(rows, p, row) = (above \o <<row>>) \o below
  BY DEF InsertAt
<1> HIDE DEF above, below
<1>4. /\ above \o <<row>> \in Seq(Row) /\ Len(above \o <<row>>) = p
      /\ (above \o <<row>>)[p] = row
      /\ \A q \in 1 .. p - 1 : (above \o <<row>>)[q] = above[q]
  BY <1>1
<1> DEFINE new == (above \o <<row>>) \o below
<1>5. /\ new \in Seq(Row) /\ Len(new) = Len(rows) + 1
      /\ \A q \in 1 .. p : new[q] = (above \o <<row>>)[q]
      /\ \A q \in 1 .. Len(rows) - p + 1 : new[p + q] = below[q]
  BY <1>2, <1>4
<1> HIDE DEF new
<1>6. ASSUME NEW q \in 1 .. Len(rows)
      PROVE  new[IF q < p THEN q ELSE q + 1] = rows[q]
  <2>1. CASE q < p
    BY <1>1, <1>4, <1>5, <2>1
  <2>2. CASE q >= p
    <3>1. PICK k \in 1 .. Len(rows) - p + 1 : q = p + k - 1 /\ q + 1 = p + k
      BY <2>2
    <3>2. below[k] = rows[q]
      BY <1>2, <3>1
    <3>3. new[q + 1] = below[k]
      BY <1>5, <3>1
    <3> QED
      BY <2>2, <3>2, <3>3
  <2> QED
    BY <2>1, <2>2
<1>7. InsertAt(rows, p, row) = new
  BY <1>3 DEF new
<1> QED
  BY <1>4, <1>5, <1>6, <1>7

\* Without a row those below it move up.
LEMMA RemovedRow ==
  ASSUME NEW rows \in Seq(Row), NEW p \in 1 .. Len(rows)
  PROVE  /\ RemoveAt(rows, p) \in Seq(Row)
         /\ Len(RemoveAt(rows, p)) = Len(rows) - 1
         /\ \A q \in 1 .. Len(rows) \ {p} :
              RemoveAt(rows, p)[IF q < p THEN q ELSE q - 1] = rows[q]
<1> DEFINE above == SubSeq(rows, 1, p - 1)
           below == SubSeq(rows, p + 1, Len(rows))
<1>1. above \in Seq(Row) /\ Len(above) = p - 1 /\ \A q \in 1 .. p - 1 : above[q] = rows[q]
  OBVIOUS
<1>2. /\ below \in Seq(Row) /\ Len(below) = Len(rows) - p
      /\ \A q \in 1 .. Len(rows) - p : below[q] = rows[p + q]
  OBVIOUS
<1>3. RemoveAt(rows, p) = above \o below
  BY DEF RemoveAt
<1> DEFINE new == above \o below
<1> HIDE DEF above, below
<1>4. /\ new \in Seq(Row) /\ Len(new) = Len(rows) - 1
      /\ \A q \in 1 .. p - 1 : new[q] = above[q]
      /\ \A q \in 1 .. Len(rows) - p : new[p - 1 + q] = below[q]
  <2>1. new \in Seq(Row) /\ Len(new) = Len(rows) - 1
    BY <1>1, <1>2
  <2>2. \A q \in 1 .. p - 1 : new[q] = above[q]
    BY <1>1, <1>2
  <2>3. \A q \in 1 .. Len(rows) - p : new[p - 1 + q] = below[q]
    BY <1>1, <1>2
  <2> QED
    BY <2>1, <2>2, <2>3
<1> HIDE DEF new
<1>5. ASSUME NEW q \in 1 .. Len(rows) \ {p}
      PROVE  new[IF q < p THEN q ELSE q - 1] = rows[q]
  <2>1. CASE q < p
    BY <1>1, <1>4, <2>1
  <2>2. CASE q > p
    <3>1. PICK k \in 1 .. Len(rows) - p : q = p + k /\ q - 1 = p - 1 + k
      BY <2>2
    <3>2. below[k] = rows[q]
      BY <1>2, <3>1
    <3>3. new[q - 1] = below[k]
      BY <1>4, <3>1
    <3> QED
      BY <2>2, <3>2, <3>3
  <2> QED
    BY <2>1, <2>2
<1>6. RemoveAt(rows, p) = new
  BY <1>3 DEF new
<1> QED
  BY <1>4, <1>5, <1>6

-----------------------------------------------------------------------------
\* What the calls do to the rows that show a record.

\* A blank row shows no record.
LEMMA RowTypes ==
  /\ BlankRow \in Row
  /\ \A r \in Records : r # Blank /\ [id |-> r, data |-> r] # BlankRow
  BY FormStoreAssumption DEF Row, BlankRow, Records

\* Leaving out blank rows loses no record and brings none.
LEMMA UsedShows ==
  ASSUME NEW rows \in Seq(Row), NEW r \in Records
  PROVE  Shows(rows, r) <=> Shows(Used(rows), r)
<1> DEFINE used == Used(rows)
<1>1. /\ used \in Seq(Row) /\ Len(used) <= Len(rows)
      /\ \A p \in 1 .. Len(used) : used[p] = rows[p]
      /\ \A p \in 1 .. Len(rows) : rows[p] # BlankRow => p <= Len(used)
  BY UsedRows
<1> HIDE DEF used
<1>2. [id |-> r, data |-> r] # BlankRow
  BY RowTypes
<1>3. Shows(rows, r) => Shows(used, r)
  BY <1>1, <1>2 DEF Shows
<1>4. Shows(used, r) => Shows(rows, r)
  BY <1>1 DEF Shows
<1> QED
  BY <1>3, <1>4 DEF used

\* Making a row loses no record, and leaves the position without one.
LEMMA ShiftedDown ==
  ASSUME NEW rows \in Seq(Row), NEW p \in Nat \ {0}
  PROVE  /\ ShiftDown(rows, p) \in Seq(Row)
         /\ p > Len(ShiftDown(rows, p)) \/ ShiftDown(rows, p)[p] = BlankRow
         /\ \A r \in Records : Shows(rows, r) => Shows(ShiftDown(rows, p), r)
<1>1. CASE p > Len(rows)
  BY <1>1 DEF ShiftDown
<1>2. CASE p <= Len(rows)
  <2> DEFINE new == InsertAt(rows, p, BlankRow)
  <2>1. p \in 1 .. Len(rows) + 1 /\ ShiftDown(rows, p) = Used(new)
    BY <1>2 DEF ShiftDown
  <2>2. /\ new \in Seq(Row) /\ Len(new) = Len(rows) + 1 /\ new[p] = BlankRow
        /\ \A q \in 1 .. Len(rows) : new[IF q < p THEN q ELSE q + 1] = rows[q]
    BY <2>1, InsertedRow, RowTypes
  <2> HIDE DEF new
  <2>3. ASSUME NEW r \in Records, Shows(rows, r)
        PROVE  Shows(Used(new), r)
    <3>1. PICK q \in 1 .. Len(rows) : rows[q] = [id |-> r, data |-> r]
      BY <2>3 DEF Shows
    <3>2. PICK k \in 1 .. Len(new) : new[k] = [id |-> r, data |-> r]
      BY <1>2, <2>2, <3>1
    <3>3. Shows(new, r)
      BY <2>2, <3>2 DEF Shows
    <3> QED
      BY <2>2, <3>3, UsedShows
  <2>4. Used(new) \in Seq(Row) /\ (p > Len(Used(new)) \/ Used(new)[p] = BlankRow)
    BY <2>1, <2>2, UsedRows
  <2> QED
    BY <2>1, <2>3, <2>4
<1> QED
  BY <1>1, <1>2

\* Removing a row loses no record but the one with the id of that row.
LEMMA ShiftedUp ==
  ASSUME NEW rows \in Seq(Row), NEW p \in Nat \ {0}
  PROVE  /\ ShiftUp(rows, p) \in Seq(Row)
         /\ \A r \in Records : Shows(rows, r) /\ ~ Shows(ShiftUp(rows, p), r) =>
              p <= Len(rows) /\ rows[p].id = r
<1>1. CASE p > Len(rows)
  BY <1>1 DEF ShiftUp
<1>2. CASE p <= Len(rows)
  <2> DEFINE new == RemoveAt(rows, p)
  <2>1. p \in 1 .. Len(rows) /\ ShiftUp(rows, p) = Used(new)
    BY <1>2 DEF ShiftUp
  <2>2. /\ new \in Seq(Row) /\ Len(new) = Len(rows) - 1
        /\ \A q \in 1 .. Len(rows) \ {p} : new[IF q < p THEN q ELSE q - 1] = rows[q]
    BY <2>1, RemovedRow
  <2> HIDE DEF new
  <2>3. ASSUME NEW r \in Records, Shows(rows, r), rows[p].id # r
        PROVE  Shows(Used(new), r)
    <3>1. PICK q \in 1 .. Len(rows) : rows[q] = [id |-> r, data |-> r]
      BY <2>3 DEF Shows
    <3>2. q # p
      BY <2>3, <3>1
    <3>3. PICK k \in 1 .. Len(new) : new[k] = [id |-> r, data |-> r]
      BY <1>2, <2>2, <3>1, <3>2
    <3>4. Shows(new, r)
      BY <2>2, <3>3 DEF Shows
    <3> QED
      BY <2>2, <3>4, UsedShows
  <2>4. Used(new) \in Seq(Row)
    BY <2>2, UsedRows
  <2> QED
    BY <1>2, <2>1, <2>3, <2>4
<1> QED
  BY <1>1, <1>2

\* Writing a row loses no record but the one that row showed.
LEMMA WrittenRow ==
  ASSUME NEW rows \in Seq(Row), NEW p \in Nat \ {0}, NEW values \in Row
  PROVE  /\ Written(rows, p, values) \in Seq(Row)
         /\ \A r \in Records : Shows(rows, r) /\ ~ Shows(Written(rows, p, values), r) =>
              p <= Len(rows) /\ rows[p] = [id |-> r, data |-> r]
<1> DEFINE size == IF p > Len(rows) THEN p ELSE Len(rows)
           row(q) == IF q > Len(rows) THEN BlankRow ELSE rows[q]
           new == [q \in 1 .. size |-> IF q = p THEN Over(row(q), values) ELSE row(q)]
<1>1. size \in Nat /\ size >= Len(rows) /\ Written(rows, p, values) = Used(new)
  BY DEF Written
<1>2. \A q \in 1 .. size : row(q) \in Row
  BY RowTypes
<1>3. \A old \in Row : Over(old, values) \in Row
  BY DEF Over, Row
<1>4. new \in Seq(Row) /\ Len(new) = size
  <2>1. \A q \in 1 .. size : new[q] \in Row
    BY <1>2, <1>3
  <2> QED
    BY <1>1, <2>1
<1>5. \A q \in 1 .. Len(rows) : q # p => new[q] = rows[q]
  BY <1>1
<1> HIDE DEF new, size
<1>6. ASSUME NEW r \in Records, Shows(rows, r), ~ (p <= Len(rows) /\ rows[p] = [id |-> r, data |-> r])
      PROVE  Shows(Used(new), r)
  <2>1. PICK q \in 1 .. Len(rows) : rows[q] = [id |-> r, data |-> r]
    BY <1>6 DEF Shows
  <2>2. q # p
    BY <1>6, <2>1
  <2>3. Shows(new, r)
    BY <1>1, <1>4, <1>5, <2>1, <2>2 DEF Shows
  <2> QED
    BY <1>4, <2>3, UsedShows
<1> QED
  BY <1>1, <1>4, <1>6, UsedRows
-----------------------------------------------------------------------------
\* How far a handler has come.
Runs == [mode : {"none", "direct", "respect"},
         step : {"idle", "read", "insert", "write", "count", "check", "act"} \cup Outcomes,
         at : Nat]
Refreshes == [step : {"idle", "download", "upload", "stamp", "find", "add"},
              rows : Seq(Row), found : SUBSET Forms]
TypesInv ==
  /\ sheet \in Seq(Row)
  /\ rowCount \in Nat
  /\ pos \in [Records -> Nat]
  /\ form \in [Forms -> FormRows]
  /\ delayed \subseteq Forms
  /\ run \in [Forms -> Runs]
  /\ refresh \in Refreshes
  /\ moved \subseteq Forms
  /\ edits \in Nat

\* A handler that has a position has that of a row.
HasRow(f) == run[f].step \in {"insert", "check", "act", "write"} => run[f].at # 0
\* The row it has checked is that of its record, the row it has made is blank.
OnRow(f) ==
  /\ run[f].step = "act" => run[f].at <= Len(sheet) /\ sheet[run[f].at].id = form[f].rec
  /\ run[f].step = "write" => run[f].at > Len(sheet) \/ sheet[run[f].at] = BlankRow
RowsInv == \A f \in Forms : HasRow(f) /\ (f \notin moved => OnRow(f))
FormInv == TypesInv /\ RowsInv

\* What a step of one handler does, but for the history.
Loses(r) == Shows(sheet, r) /\ ~ Shows(sheet', r)
OwnStep(f) ==
  /\ sheet' \in Seq(Row) /\ form' \in [Forms -> FormRows] /\ run' \in [Forms -> Runs]
  /\ rowCount' \in Nat /\ delayed' \subseteq Forms
  /\ UNCHANGED <<pos, refresh, edits>>
  /\ \A g \in Forms \ {f} : form'[g] = form[g] /\ run'[g] = run[g]
  /\ HasRow(f)' /\ OnRow(f)'
  /\ \A r \in Records : Loses(r) => run'[f] # run[f] /\ (f \in moved \/ form[f].rec = r)

-----------------------------------------------------------------------------
\* A request that asks for something names a record.
LEMMA Asking ==
  ASSUME TypesInv, NEW f \in Forms, form[f].type \in FormSyncType
  PROVE  form[f] \in FormSyncDto /\ form[f].rec \in Records /\ form[f].rec # Blank
  BY FormStoreAssumption
     DEF TypesInv, FormRows, NoForm, PastForm, FormSyncDto, FormSyncType, Records

\* What it writes is a row.
LEMMA ValueRows ==
  ASSUME TypesInv, NEW f \in Forms, form[f].type \in FormSyncType
  PROVE  InsertValues(f) \in Row /\ UpdateValues(f) \in Row
  BY Asking DEF InsertValues, UpdateValues, Row

\* A step that reads: to where no row is checked, or to a row that was.
LEMMA QuietStep ==
  ASSUME FormInv, NEW f \in Forms, NEW step \in Outcomes, Quiet, Go(f, step)
  PROVE  OwnStep(f)
  BY DEF FormInv, TypesInv, Quiet, Go, OwnStep, HasRow, OnRow, Outcomes, Runs, Loses, book, metadata, table

\* A position that was read is that of a row.
LEMMA PositionStep ==
  ASSUME FormInv, NEW f \in Forms, NEW step \in {"insert", "check"}, NEW p \in Nat \ {0},
         Quiet, GoAt(f, step, p)
  PROVE  OwnStep(f)
  BY DEF FormInv, TypesInv, Quiet, GoAt, OwnStep, HasRow, OnRow, Runs, Loses, book, metadata, table

\* A row that was checked is the record's.
LEMMA CheckStep ==
  ASSUME FormInv, NEW f \in Forms, Quiet, Go(f, "act"), run[f].step = "check",
         run[f].at <= Len(sheet), sheet[run[f].at].id = form[f].rec
  PROVE  OwnStep(f)
  BY DEF FormInv, TypesInv, RowsInv, Quiet, Go, OwnStep, HasRow, OnRow, Outcomes, Runs, Loses, book,
         metadata, table

\* The row that is made.
LEMMA InsertStep ==
  ASSUME FormInv, NEW f \in Forms, run[f].step = "insert", NEW step \in {"write", "cannot"},
         Writes(ShiftDown(sheet, run[f].at)), Go(f, step)
  PROVE  OwnStep(f)
<1>1. run[f].at \in Nat \ {0} /\ sheet \in Seq(Row)
  BY DEF FormInv, TypesInv, RowsInv, HasRow, Runs
<1>2. /\ sheet' \in Seq(Row)
      /\ run[f].at > Len(sheet') \/ sheet'[run[f].at] = BlankRow
      /\ \A r \in Records : ~ Loses(r)
  BY <1>1, ShiftedDown DEF Writes, Loses
<1>3. run' \in [Forms -> Runs] /\ run'[f].step = step /\ (step = "write" => run'[f].at = run[f].at)
  BY <1>1 DEF FormInv, TypesInv, Go, Outcomes, Runs
<1> QED
  BY <1>1, <1>2, <1>3 DEF FormInv, TypesInv, Writes, Go, OwnStep, HasRow, OnRow, metadata, table

\* The row that is written.
LEMMA WriteStep ==
  ASSUME FormInv, NEW f \in Forms, run[f].step \in {"write", "act"}, NEW step \in {"count", "done"},
         NEW values \in Row, Writes(Written(sheet, run[f].at, values)), Go(f, step)
  PROVE  OwnStep(f)
<1>1. run[f].at \in Nat \ {0} /\ sheet \in Seq(Row)
  BY DEF FormInv, TypesInv, RowsInv, HasRow, Runs
<1>2. /\ sheet' \in Seq(Row)
      /\ \A r \in Records : Loses(r) =>
           run[f].at <= Len(sheet) /\ sheet[run[f].at] = [id |-> r, data |-> r]
  BY <1>1, WrittenRow DEF Writes, Loses
<1>3. run' \in [Forms -> Runs] /\ run'[f].step = step /\ run'[f] # run[f]
  BY <1>1 DEF FormInv, TypesInv, Go, Outcomes, Runs
<1>4. \A r \in Records : Loses(r) => f \in moved \/ form[f].rec = r
  <2> SUFFICES ASSUME NEW r \in Records, Loses(r), f \notin moved
               PROVE  form[f].rec = r
    OBVIOUS
  <2>1. OnRow(f)
    BY DEF FormInv, RowsInv
  <2>2. run[f].at <= Len(sheet) /\ sheet[run[f].at] = [id |-> r, data |-> r]
    BY <1>2
  <2>3. ~ (run[f].at > Len(sheet)) /\ sheet[run[f].at] # BlankRow /\ sheet[run[f].at].id = r
    BY <1>1, <2>2, RowTypes
  <2> QED
    BY <2>1, <2>3 DEF OnRow
<1> QED
  BY <1>1, <1>2, <1>3, <1>4 DEF FormInv, TypesInv, Writes, Go, OwnStep, HasRow, OnRow, metadata, table

\* The row that is removed.
LEMMA RemoveStep ==
  ASSUME FormInv, NEW f \in Forms, run[f].step = "act",
         Writes(ShiftUp(sheet, run[f].at)), Go(f, "done")
  PROVE  OwnStep(f)
<1>1. run[f].at \in Nat \ {0} /\ sheet \in Seq(Row)
  BY DEF FormInv, TypesInv, RowsInv, HasRow, Runs
<1>2. /\ sheet' \in Seq(Row)
      /\ \A r \in Records : Loses(r) => run[f].at <= Len(sheet) /\ sheet[run[f].at].id = r
  BY <1>1, ShiftedUp DEF Writes, Loses
<1>3. run' \in [Forms -> Runs] /\ run'[f].step = "done" /\ run'[f] # run[f]
  BY <1>1 DEF FormInv, TypesInv, Go, Outcomes, Runs
<1>4. \A r \in Records : Loses(r) => f \in moved \/ form[f].rec = r
  BY <1>2 DEF FormInv, RowsInv, OnRow
<1> QED
  BY <1>1, <1>2, <1>3, <1>4 DEF FormInv, TypesInv, Writes, Go, OwnStep, HasRow, OnRow, metadata, table

\* The count of rows grows.
LEMMA CountStep ==
  ASSUME FormInv, NEW f \in Forms, increaseRowCount, Go(f, "done"),
         UNCHANGED <<sheet, pos, form, delayed, refresh, edits>>
  PROVE  OwnStep(f)
<1>1. rowCount' \in Nat
  BY DEF FormInv, TypesInv, increaseRowCount, NoRowCount
<1>2. run' \in [Forms -> Runs] /\ run'[f].step = "done" /\ \A g \in Forms \ {f} : run'[g] = run[g]
  BY DEF FormInv, TypesInv, Go, Outcomes, Runs
<1> QED
  BY <1>1, <1>2 DEF FormInv, TypesInv, OwnStep, HasRow, OnRow, Loses

\* The end of a handler, whatever becomes of the request.
LEMMA EndStep ==
  ASSUME FormInv, NEW f \in Forms, DeletesForm(f) \/ DelaysForm(f) \/ Throws(f) \/ Fail(f)
  PROVE  OwnStep(f)
<1>1. Ends(f)
  BY DEF DeletesForm, DelaysForm, Throws, Fail
<1>2. run' = [run EXCEPT ![f] = Idle] /\ UNCHANGED <<sheet, rowCount, pos, refresh, edits>>
  BY <1>1 DEF Ends, book, metadata
<1>3. (form' = form \/ form' = [form EXCEPT ![f] = PastForm]) /\ delayed' \subseteq Forms
  BY DEF DeletesForm, DelaysForm, Throws, Fail, table, FormInv, TypesInv
<1>4. form' \in [Forms -> FormRows] /\ \A g \in Forms \ {f} : form'[g] = form[g]
  BY <1>3 DEF FormInv, TypesInv, FormRows
<1>5. run' \in [Forms -> Runs] /\ run'[f] = Idle /\ \A g \in Forms \ {f} : run'[g] = run[g]
  BY <1>2 DEF FormInv, TypesInv, Runs, Idle
<1>6. run'[f].step = "idle"
  BY <1>5 DEF Idle
<1> QED
  BY <1>2, <1>3, <1>4, <1>5, <1>6 DEF FormInv, TypesInv, OwnStep, HasRow, OnRow, Loses

\* POST /formsync.
LEMMA SubmitStep ==
  ASSUME FormInv, NEW f \in Forms, NEW type \in FormSyncType, NEW rec \in Records, NEW known \in BOOLEAN,
         Submit(f, type, rec, known)
  PROVE  OwnStep(f)
  BY DEF FormInv, TypesInv, Submit, FormRows, FormSyncDto, Runs, OwnStep, HasRow, OnRow, Loses, book, metadata

-----------------------------------------------------------------------------
\* The steps the handlers of both services are made of: a read that settles the
\* request, one that finds a position, a check that agrees, the row that is
\* made, filled, changed or removed, the count, and the end.
Answers(f) ==
  run[f].step \in {"read", "check"} /\ Quiet /\ \E step \in Outcomes : Go(f, step)
Locates(f) ==
  run[f].step = "read" /\ Quiet /\ \E step \in {"insert", "check"}, p \in Nat \ {0} : GoAt(f, step, p)
Agrees(f) ==
  /\ run[f].step = "check" /\ Quiet /\ Go(f, "act")
  /\ run[f].at <= Len(sheet) /\ sheet[run[f].at].id = form[f].rec
MakesRow(f) ==
  /\ run[f].step = "insert" /\ Writes(ShiftDown(sheet, run[f].at))
  /\ \E step \in {"write", "cannot"} : Go(f, step)
FillsRow(f) ==
  /\ run[f].step = "write" /\ Asks(f, "insert") /\ Go(f, "count")
  /\ Writes(Written(sheet, run[f].at, InsertValues(f)))
ChangesRow(f) ==
  /\ run[f].step = "act" /\ Asks(f, "update") /\ Go(f, "done")
  /\ Writes(Written(sheet, run[f].at, UpdateValues(f)))
RemovesRow(f) ==
  /\ run[f].step = "act" /\ Asks(f, "delete") /\ Go(f, "done")
  /\ Writes(ShiftUp(sheet, run[f].at))
CountsRow(f) ==
  /\ run[f].step = "count" /\ Go(f, "done") /\ increaseRowCount
  /\ UNCHANGED <<provider, source, book, pos, form, table, queue, refresh, edits, fails>>
Settles(f) ==
  \/ run[f].step \in Outcomes /\ DeletesForm(f)
  \/ run[f].step = "metadata" /\ DelaysForm(f)
  \/ run[f].step = "read" /\ Throws(f)
HandlerStep(f) ==
  \/ Answers(f) \/ Locates(f) \/ Agrees(f)
  \/ MakesRow(f) \/ FillsRow(f) \/ ChangesRow(f) \/ RemovesRow(f) \/ CountsRow(f)
  \/ Settles(f)

\* What a step of one handler does to the rows.
LEMMA OwnSteps ==
  ASSUME FormInv, NEW f \in Forms, HandlerStep(f) \/ Fail(f)
  PROVE  OwnStep(f)
<1>1. CASE FillsRow(f) \/ ChangesRow(f)
  <2>1. form[f].type \in FormSyncType /\ FormInv /\ TypesInv
    BY <1>1 DEF FillsRow, ChangesRow, Asks, FormSyncType, FormInv
  <2> QED
    BY <1>1, <2>1, WriteStep, ValueRows DEF FillsRow, ChangesRow
<1>2. CASE CountsRow(f)
  BY <1>2, CountStep DEF CountsRow, book, table
<1>3. CASE Settles(f) \/ Fail(f)
  BY <1>3, EndStep DEF Settles
<1> QED
  BY <1>1, <1>2, <1>3, QuietStep, PositionStep, CheckStep, InsertStep, RemoveStep
     DEF HandlerStep, Answers, Locates, Agrees, MakesRow, RemovesRow

-----------------------------------------------------------------------------
\* The handlers of both services are made of these steps.

\* For Excel.
LEMMA ExcelHandles ==
  ASSUME FormInv, NEW f \in Forms, ExcelHandler(f)
  PROVE  HandlerStep(f)
<1> DEFINE Asked == form[f].type \in FormSyncType
<1>1. ASSUME Asked, ExcelFinds(f), run[f].step = "read"
      PROVE  Answers(f) \/ Locates(f)
  <2>1. getRowPos(f) \in Nat
    BY <1>1, Asking DEF getRowPos, FormInv, TypesInv
  <2> QED
    BY <1>1, <2>1 DEF ExcelFinds, Outcomes, Answers, Locates
<1>2. ASSUME Asked, ExcelMatches(f), run[f].step = "check", Quiet, Go(f, "act")
      PROVE  Agrees(f)
  <2>1. run[f].at <= Len(sheet) /\ sheet[run[f].at].id = form[f].rec
    BY <1>2, Asking DEF ExcelMatches, getWorksheetCellValue, FormInv, TypesInv, Runs
  <2> QED
    BY <1>2, <2>1 DEF Agrees
<1>3. CASE ExcelHandleInsert(f)
  <2>1. rowCount \in Nat
    BY DEF FormInv, TypesInv
  <2>2. CASE At("excel", f, "read") /\ Quiet
             /\ IF NoRowCount THEN Go(f, "metadata") ELSE GoAt(f, "insert", rowCount)
    BY <2>1, <2>2 DEF At, Outcomes, NoRowCount, Answers, Locates, HandlerStep
  <2>3. CASE At("excel", f, "insert") /\ MakesRow(f)
    BY <2>3 DEF HandlerStep
  <2>4. CASE At("excel", f, "write") /\ FillsRow(f)
    BY <2>4 DEF HandlerStep
  <2>5. CASE At("excel", f, "count") /\ CountsRow(f)
    BY <2>5 DEF HandlerStep
  <2> QED
    BY <1>3, <2>2, <2>3, <2>4, <2>5
       DEF ExcelHandleInsert, At, insertWorksheetRange, updateWorksheetRange, MakesRow, FillsRow, CountsRow, increaseRowCount
<1>4. CASE ExcelHandleDelete(f)
  <2>1. Asked
    BY <1>4 DEF ExcelHandleDelete, Asks, FormSyncType
  <2>2. CASE At("excel", f, "check") /\ Quiet
             /\ IF ExcelMatches(f) THEN Go(f, "act") ELSE Go(f, "metadata")
    BY <1>2, <2>1, <2>2 DEF At, Outcomes, Answers, HandlerStep
  <2>3. CASE At("excel", f, "act") /\ Go(f, "done") /\ Writes(deleteWorksheetRange(sheet, run[f].at))
    BY <1>4, <2>3 DEF At, ExcelHandleDelete, deleteWorksheetRange, RemovesRow, HandlerStep
  <2> QED
    BY <1>1, <1>4, <2>1, <2>2, <2>3 DEF ExcelHandleDelete, At, HandlerStep
<1>5. CASE ExcelHandleUpdate(f)
  <2>1. Asked
    BY <1>5 DEF ExcelHandleUpdate, Asks, FormSyncType
  <2>2. CASE /\ At("excel", f, "check") /\ Quiet
             /\ IF ~ExcelMatches(f) THEN Go(f, "metadata")
                ELSE IF form[f].known THEN Go(f, "act") ELSE Go(f, "cannot")
    BY <1>2, <2>1, <2>2 DEF At, Outcomes, Answers, HandlerStep
  <2>3. CASE At("excel", f, "act") /\ Go(f, "done")
             /\ Writes(updateWorksheetRange(sheet, run[f].at, UpdateValues(f)))
    BY <1>5, <2>3 DEF At, ExcelHandleUpdate, updateWorksheetRange, ChangesRow, HandlerStep
  <2> QED
    BY <1>1, <1>5, <2>1, <2>2, <2>3 DEF ExcelHandleUpdate, At, HandlerStep
<1>6. CASE ExcelRun(f) \/ ExcelRunRespectMetadata(f)
  BY <1>6 DEF ExcelRun, ExcelRunRespectMetadata, At, Settles, Outcomes, HandlerStep
<1> QED
  BY <1>1, <1>3, <1>4, <1>5, <1>6 DEF ExcelHandler, HandlerStep

\* For Google Sheets.
LEMMA GoogleHandles ==
  ASSUME FormInv, NEW f \in Forms, GoogleHandler(f)
  PROVE  HandlerStep(f)
<1> DEFINE Asked == form[f].type \in FormSyncType
<1>1. ASSUME Asked, GoogleFinds(f), run[f].step = "read"
      PROVE  Answers(f) \/ Locates(f)
  <2>1. getGoogleSheetsRowPos(f) \in Nat
    BY <1>1, Asking DEF getGoogleSheetsRowPos, FormInv, TypesInv
  <2> QED
    BY <1>1, <2>1 DEF GoogleFinds, Outcomes, Answers, Locates
<1>2. ASSUME Asked, GoogleMatches(f), run[f].step = "check", Quiet, Go(f, "act")
      PROVE  Agrees(f)
  <2>1. run[f].at <= Len(sheet) /\ sheet[run[f].at].id = form[f].rec
    BY <1>2, Asking DEF GoogleMatches, getCellValue, FormInv, TypesInv, Runs
  <2> QED
    BY <1>2, <2>1 DEF Agrees
<1>3. CASE GoogleHandleInsert(f)
  <2>1. rowCount \in Nat
    BY DEF FormInv, TypesInv
  <2>2. CASE At("google", f, "read") /\ Quiet
             /\ IF getGoogleSheetsRowCount = 0 THEN Go(f, "metadata")
                ELSE IF NothingToInsert(f) THEN Go(f, "cannot")
                ELSE GoAt(f, "insert", getGoogleSheetsRowCount)
    BY <2>1, <2>2 DEF At, Outcomes, getGoogleSheetsRowCount, Answers, Locates, HandlerStep
  <2>3. CASE At("google", f, "insert") /\ MakesRow(f)
    BY <2>3 DEF HandlerStep
  <2>4. CASE At("google", f, "write") /\ FillsRow(f)
    BY <2>4 DEF HandlerStep
  <2>5. CASE At("google", f, "count") /\ CountsRow(f)
    BY <2>5 DEF HandlerStep
  <2> QED
    BY <1>3, <2>2, <2>3, <2>4, <2>5
       DEF GoogleHandleInsert, At, addEmptyRow, updateRangeValue, MakesRow, FillsRow, CountsRow, increaseRowCount, increaseGoogleSheetsRowCount,
           NoRowCount, getGoogleSheetsRowCount
<1>4. CASE GoogleHandleDelete(f)
  <2>1. Asked
    BY <1>4 DEF GoogleHandleDelete, Asks, FormSyncType
  <2>2. CASE At("google", f, "check") /\ Quiet
             /\ IF GoogleMatches(f) THEN Go(f, "act") ELSE Go(f, "metadata")
    BY <1>2, <2>1, <2>2 DEF At, Outcomes, Answers, HandlerStep
  <2>3. CASE At("google", f, "act") /\ Go(f, "done") /\ Writes(deleteRow(sheet, run[f].at))
    BY <1>4, <2>3 DEF At, GoogleHandleDelete, deleteRow, RemovesRow, HandlerStep
  <2> QED
    BY <1>1, <1>4, <2>1, <2>2, <2>3 DEF GoogleHandleDelete, At, HandlerStep
<1>5. CASE GoogleHandleUpdate(f)
  <2>1. Asked
    BY <1>5 DEF GoogleHandleUpdate, Asks, FormSyncType
  <2>2. CASE /\ At("google", f, "check") /\ Quiet
             /\ IF ~GoogleMatches(f) THEN Go(f, "metadata")
                ELSE IF form[f].known THEN Go(f, "act") ELSE Go(f, "cannot")
    BY <1>2, <2>1, <2>2 DEF At, Outcomes, Answers, HandlerStep
  <2>3. CASE At("google", f, "act") /\ Go(f, "done")
             /\ Writes(updateRangeValue(sheet, run[f].at, UpdateValues(f)))
    BY <1>5, <2>3 DEF At, GoogleHandleUpdate, updateRangeValue, ChangesRow, HandlerStep
  <2> QED
    BY <1>1, <1>5, <2>1, <2>2, <2>3 DEF GoogleHandleUpdate, At, HandlerStep
<1>6. CASE GoogleRun(f) \/ GoogleRunRespectMetadata(f)
  BY <1>6 DEF GoogleRun, GoogleRunRespectMetadata, At, Settles, Outcomes, HandlerStep
<1> QED
  BY <1>1, <1>3, <1>4, <1>5, <1>6 DEF GoogleHandler, HandlerStep

-----------------------------------------------------------------------------
\* What the steps of the others do: rows are lost by an edit only.
OthersStep ==
  /\ sheet' \in Seq(Row) /\ rowCount' \in Nat /\ pos' \in [Records -> Nat]
  /\ run' \in [Forms -> Runs] /\ refresh' \in Refreshes
  /\ UNCHANGED <<form, delayed>>
  /\ \A f \in Forms : run'[f] = run[f] \/ run'[f].step = "read"
  /\ edits' \in Nat /\ (sheet' # sheet => edits' # edits)

\* The processor starts a handler.
LEMMA JobTaken ==
  ASSUME FormInv, TakesJob
  PROVE  OthersStep
<1>1. /\ UNCHANGED <<sheet, rowCount, pos, refresh, form, delayed, edits>>
      /\ run' = run \/ \E f : run' = [run EXCEPT ![f] = [mode |-> "respect", step |-> "read", at |-> 0]]
  BY DEF TakesJob, book, metadata, table
<1>2. [mode |-> "respect", step |-> "read", at |-> 0] \in Runs
  BY DEF Runs
<1> QED
  BY <1>1, <1>2 DEF FormInv, TypesInv, OthersStep

\* The refresh changes positions, and no row.
LEMMA Refreshing ==
  ASSUME FormInv, Refresh \/ RefreshThrows
  PROVE  OthersStep
<1>1. RefreshKeeps
  BY DEF Refresh, ExcelRefresh, GoogleRefresh, ExcelUpdateMetadata, ExcelMetadataService,
         ExcelUpdateMetadataProcessor, GoogleUpdateMetadata, GoogleMetadataService,
         GoogleUpdateMetadataProcessor, ExcelReadsTag, ExcelStamps, PostFails, Downloads, Uploads,
         FindsDelayed, AddsJobs, RefreshThrows
<1>2. UNCHANGED <<sheet, form, delayed, run, edits>>
  BY <1>1 DEF RefreshKeeps, table
<1>3. Still \in Refreshes /\ Returned \in Refreshes
  <2>1. <<>> \in Seq(Row) /\ {} \in SUBSET Forms
    OBVIOUS
  <2> QED
    BY <2>1 DEF Still, Returned, Refreshes
<1>4. refresh' \in Refreshes
  BY <1>3 DEF FormInv, TypesInv, Refreshes, Still, Returned, Refresh, ExcelRefresh, GoogleRefresh,
         ExcelUpdateMetadata, ExcelMetadataService,
         ExcelUpdateMetadataProcessor, GoogleUpdateMetadata, GoogleMetadataService,
         GoogleUpdateMetadataProcessor, ExcelReadsTag, ExcelStamps, PostFails, Downloads, Uploads,
         FindsDelayed, AddsJobs, RefreshThrows
<1>5. ~ Uploads => UNCHANGED <<rowCount, pos>>
  BY DEF metadata, Refresh, ExcelRefresh, GoogleRefresh, ExcelUpdateMetadata, ExcelMetadataService,
         ExcelUpdateMetadataProcessor, GoogleUpdateMetadata, GoogleMetadataService,
         GoogleUpdateMetadataProcessor, ExcelReadsTag, ExcelStamps, PostFails, Downloads,
         FindsDelayed, AddsJobs, RefreshThrows
<1>6. CASE Uploads
  <2>1. rowCount' \in Nat
    BY <1>6 DEF Uploads, FormInv, TypesInv, Refreshes
  <2>2. \A r \in Records : NewPositions(r) \subseteq Nat
    BY DEF NewPositions, FormInv, TypesInv, Refreshes
  <2>3. pos' \in [Records -> Nat]
    BY <1>6, <2>2 DEF Uploads, FormInv, TypesInv
  <2> QED
    BY <1>2, <1>4, <2>1, <2>3 DEF OthersStep, FormInv, TypesInv
<1> QED
  BY <1>2, <1>4, <1>5, <1>6 DEF OthersStep, FormInv, TypesInv

\* The user changes rows; the data source is deleted.
LEMMA UserOrDeletion ==
  ASSUME FormInv, UserInsertsRow \/ UserDeletesRow \/ UserChangesIdColumn \/ DeleteSource
  PROVE  OthersStep
<1>0. sheet \in Seq(Row)
  BY DEF FormInv, TypesInv
<1>1. CASE UserInsertsRow
  <2>1. [id |-> Blank, data |-> Typed] \in Row
    BY DEF Row
  <2>2. sheet' \in Seq(Row)
    BY <1>0, <1>1, <2>1, InsertedRow DEF UserInsertsRow
  <2> QED
    BY <1>1, <2>2, FormStoreAssumption DEF UserInsertsRow, Edits, OthersStep, FormInv, TypesInv, metadata, table
<1>2. CASE UserDeletesRow
  <2>1. sheet' \in Seq(Row)
    BY <1>0, <1>2, ShiftedUp DEF UserDeletesRow
  <2> QED
    BY <1>2, <2>1 DEF UserDeletesRow, Edits, OthersStep, FormInv, TypesInv, metadata, table
<1>3. CASE UserChangesIdColumn
  <2>1. ASSUME NEW p \in DOMAIN sheet
        PROVE  [sheet[p] EXCEPT !.id = Blank] \in Row
    <3>1. sheet[p] \in Row
      BY <1>0
    <3> QED
      BY <3>1 DEF Row
  <2>2. sheet' \in Seq(Row)
    BY <1>0, <1>3, <2>1 DEF UserChangesIdColumn
  <2> QED
    BY <1>3, <2>2 DEF UserChangesIdColumn, Edits, OthersStep, FormInv, TypesInv, metadata, table
<1>4. CASE DeleteSource
  BY <1>4 DEF DeleteSource, OthersStep, FormInv, TypesInv, book, metadata, table
<1> QED
  BY <1>1, <1>2, <1>3, <1>4

-----------------------------------------------------------------------------
\* At first no handler has a row.
LEMMA InitialRows == Init => FormInv
<1> SUFFICES ASSUME Init
             PROVE  FormInv
  OBVIOUS
<1>1. SetToSeq(Initial) \in Seq(Initial)
  <2>1. \E s \in [1 .. Cardinality(Initial) -> Initial] : IsInjective(s)
    BY FS_CardinalityType, FormStoreAssumption DEF ExistsBijection, Bijection, Injection
  <2>2. SetToSeq(Initial) \in [1 .. Cardinality(Initial) -> Initial]
    BY <2>1 DEF SetToSeq
  <2> QED
    BY <2>2, FS_CardinalityType, FormStoreAssumption
<1>2. sheet \in Seq(Row)
  <2>1. \A r \in Initial : [id |-> r, data |-> r] \in Row
    BY DEF Row, Records
  <2> QED
    BY <1>1, <2>1 DEF Init, FormInit
<1>3. <<>> \in Seq(Row)
  OBVIOUS
<1>4. Idle \in Runs /\ Still \in Refreshes /\ NoForm \in FormRows
  BY <1>3 DEF Idle, Runs, Still, Refreshes, FormRows
<1>5. TypesInv
  BY <1>2, <1>4 DEF TypesInv, Init, FormInit
<1>6. \A f \in Forms : run[f].step = "idle"
  BY DEF Init, FormInit, Idle
<1> QED
  BY <1>5, <1>6 DEF FormInv, RowsInv, HasRow, OnRow

\* The history sees whatever changes the sheet under a handler that is about to
\* write: one that has taken no step, and is not in it, finds what it left.
LEMMA Follows ==
  ASSUME FormInv, Remembers, NEW f \in Forms, run'[f] = run[f], form'[f] = form[f],
         f \notin moved'
  PROVE  OnRow(f)'
<1>1. CASE Exposed(f)
  <2>1. f \notin moved /\ sheet' = sheet
    BY <1>1 DEF Remembers
  <2> QED
    BY <2>1 DEF FormInv, RowsInv, OnRow
<1>2. CASE ~ Exposed(f)
  BY <1>2 DEF Exposed, OnRow
<1> QED
  BY <1>1, <1>2

\* Every step is one of a handler or of the others.
LEMMA Steps ==
  ASSUME FormInv, Next
  PROVE  Remembers /\ (OthersStep \/ \E f \in Forms : OwnStep(f))
<1>1. ASSUME NEW f \in Forms, Handler(f) \/ Fail(f)
      PROVE  OwnStep(f)
  BY <1>1, ExcelHandles, GoogleHandles, OwnSteps DEF Handler
<1>2. ASSUME Processor
      PROVE  OthersStep
  BY <1>2, JobTaken DEF Processor, ExcelRespectMetadataProcessor, GoogleRespectMetadataProcessor
<1> QED
  BY <1>1, <1>2, SubmitStep, Refreshing, UserOrDeletion DEF Next

\* The invariant is kept.
LEMMA RowsFollowed ==
  ASSUME FormInv, Next
  PROVE  FormInv'
<1>0. Remembers /\ moved' \subseteq Forms
  BY Steps DEF Remembers
<1>1. CASE OthersStep
  <2>1. TypesInv'
    BY <1>0, <1>1 DEF FormInv, TypesInv, OthersStep
  <2>2. ASSUME NEW f \in Forms
        PROVE  HasRow(f)' /\ (f \notin moved' => OnRow(f)')
    <3>1. CASE run'[f] = run[f]
      BY <1>0, <1>1, <3>1, Follows DEF OthersStep, FormInv, RowsInv, HasRow
    <3>2. CASE run'[f].step = "read"
      BY <3>2 DEF HasRow, OnRow
    <3> QED
      BY <1>1, <3>1, <3>2 DEF OthersStep
  <2> QED
    BY <2>1, <2>2 DEF FormInv, RowsInv
<1>2. ASSUME NEW g \in Forms, OwnStep(g)
      PROVE  FormInv'
  <2>1. TypesInv'
    BY <1>0, <1>2 DEF FormInv, TypesInv, OwnStep
  <2>2. ASSUME NEW f \in Forms
        PROVE  HasRow(f)' /\ (f \notin moved' => OnRow(f)')
    <3>1. CASE f = g
      BY <1>2, <3>1 DEF OwnStep
    <3>2. CASE f # g
      BY <1>0, <1>2, <3>2, Follows DEF OwnStep, FormInv, RowsInv, HasRow
    <3> QED
      BY <3>1, <3>2
  <2> QED
    BY <2>1, <2>2 DEF FormInv, RowsInv
<1> QED
  BY <1>1, <1>2, Steps

\* A record leaves the sheet only by an edit, by a request of its own, or in the
\* gap between a handler's check and its write: handleDelete and handleUpdate
\* compare the id cell, handleInsert makes its row, and neither stale positions
\* nor other requests and refreshes make them touch another record.
THEOREM RightRowAlways == Spec => RightRow
<1> DEFINE Stays ==
      \A r \in Records :
        Shows(sheet, r) /\ ~Shows(sheet', r) =>
          \/ edits' # edits
          \/ \E f \in Forms : run'[f] # run[f] /\ (f \in moved \/ form[f].rec = r)
<1>1. Init => FormInv
  BY InitialRows
<1>2. FormInv /\ [Next]_vars => FormInv'
  <2>1. FormInv /\ UNCHANGED vars => FormInv'
    BY DEF FormInv, TypesInv, RowsInv, HasRow, OnRow, vars, store
  <2> QED
    BY <2>1, RowsFollowed
<1>3. FormInv /\ [Next]_vars => [Stays]_vars
  <2> SUFFICES ASSUME FormInv, Next
               PROVE  Stays
    OBVIOUS
  <2>1. CASE OthersStep
    BY <2>1 DEF OthersStep
  <2>2. ASSUME NEW f \in Forms, OwnStep(f)
        PROVE  Stays
    BY <2>2 DEF OwnStep, Loses
  <2> QED
    BY <2>1, <2>2, Steps
<1> QED
  BY <1>1, <1>2, <1>3, PTL DEF Spec, RightRow

-----------------------------------------------------------------------------
\* The ids in the sheet: none has two rows, or none has one.
None(rows, r) == \A p \in DOMAIN rows : rows[p].id # r
One(rows, r) == \A p, q \in DOMAIN rows : rows[p].id = r /\ rows[q].id = r => p = q
KeepsIds(old, new) ==
  \A r \in Records : (None(old, r) => None(new, r)) /\ (One(old, r) => One(new, r))

\* Leaving out blank rows.
LEMMA UsedIds ==
  ASSUME NEW rows \in Seq(Row)
  PROVE  KeepsIds(rows, Used(rows))
<1>1. /\ Used(rows) \in Seq(Row) /\ Len(Used(rows)) <= Len(rows)
      /\ \A p \in 1 .. Len(Used(rows)) : Used(rows)[p] = rows[p]
  BY UsedRows
<1> QED
  BY <1>1 DEF KeepsIds, None, One

\* A row without an id that is put in.
LEMMA InsertedIds ==
  ASSUME NEW rows \in Seq(Row), NEW p \in 1 .. Len(rows) + 1, NEW row \in Row, row.id = Blank
  PROVE  KeepsIds(rows, InsertAt(rows, p, row))
<1> DEFINE new == InsertAt(rows, p, row)
<1>1. /\ new \in Seq(Row) /\ Len(new) = Len(rows) + 1 /\ new[p] = row
      /\ \A q \in 1 .. Len(rows) : new[IF q < p THEN q ELSE q + 1] = rows[q]
  BY InsertedRow
<1> HIDE DEF new
<1>2. ASSUME NEW k \in 1 .. Len(new), k # p
      PROVE  /\ (IF k < p THEN k ELSE k - 1) \in 1 .. Len(rows)
             /\ new[k] = rows[IF k < p THEN k ELSE k - 1]
  <2>1. CASE k < p
    BY <1>1, <2>1
  <2>2. CASE k > p
    <3>1. k - 1 \in 1 .. Len(rows) /\ ~ (k - 1 < p) /\ (k - 1) + 1 = k
      BY <1>1, <2>2
    <3> QED
      BY <1>1, <2>2, <3>1
  <2> QED
    BY <1>2, <2>1, <2>2
<1>3. \A r \in Records : r # Blank
  BY FormStoreAssumption DEF Records
<1>4. \A r \in Records : None(rows, r) => None(new, r)
  BY <1>1, <1>2, <1>3 DEF None
<1>5. ASSUME NEW r \in Records, One(rows, r), NEW k \in 1 .. Len(new), NEW l \in 1 .. Len(new),
             new[k].id = r, new[l].id = r
      PROVE  k = l
  <2>1. k # p /\ l # p
    BY <1>1, <1>3, <1>5
  <2> QED
    BY <1>2, <1>5, <2>1 DEF One
<1>6. \A r \in Records : One(rows, r) => One(new, r)
  BY <1>1, <1>5 DEF One
<1> QED
  BY <1>4, <1>6 DEF KeepsIds, new

\* A row that is taken out.
LEMMA RemovedIds ==
  ASSUME NEW rows \in Seq(Row), NEW p \in 1 .. Len(rows)
  PROVE  KeepsIds(rows, RemoveAt(rows, p))
<1> DEFINE new == RemoveAt(rows, p)
<1>1. /\ new \in Seq(Row) /\ Len(new) = Len(rows) - 1
      /\ \A q \in 1 .. Len(rows) \ {p} : new[IF q < p THEN q ELSE q - 1] = rows[q]
  BY RemovedRow
<1> HIDE DEF new
<1>2. ASSUME NEW k \in 1 .. Len(new)
      PROVE  /\ (IF k < p THEN k ELSE k + 1) \in 1 .. Len(rows)
             /\ new[k] = rows[IF k < p THEN k ELSE k + 1]
  <2>1. CASE k < p
    BY <1>1, <2>1
  <2>2. CASE k >= p
    <3>1. k + 1 \in 1 .. Len(rows) \ {p} /\ ~ (k + 1 < p) /\ (k + 1) - 1 = k
      BY <1>1, <2>2
    <3> QED
      BY <1>1, <2>2, <3>1
  <2> QED
    BY <2>1, <2>2
<1>0. DOMAIN new = 1 .. Len(new) /\ DOMAIN rows = 1 .. Len(rows)
  BY <1>1
<1>3. \A r \in Records : None(rows, r) => None(new, r)
  BY <1>0, <1>2 DEF None
<1>4. ASSUME NEW r \in Records, One(rows, r), NEW k \in 1 .. Len(new), NEW l \in 1 .. Len(new),
             new[k].id = r, new[l].id = r
      PROVE  k = l
  <2> DEFINE Back(m) == IF m < p THEN m ELSE m + 1
  <2>1. Back(k) \in DOMAIN rows /\ Back(l) \in DOMAIN rows
    BY <1>0, <1>2
  <2>2. rows[Back(k)].id = r /\ rows[Back(l)].id = r
    BY <1>2, <1>4
  <2>3. Back(k) = Back(l)
    <3> HIDE DEF Back
    <3> QED
      BY <1>4, <2>1, <2>2 DEF One
  <2> QED
    BY <1>1, <2>3
<1>5. \A r \in Records : One(rows, r) => One(new, r)
  BY <1>0, <1>4 DEF One
<1> QED
  BY <1>3, <1>5 DEF KeepsIds, new

\* What the calls do to the ids: the two that shift rows bring none, the one
\* that writes brings that of its values.
LEMMA CalledIds ==
  ASSUME NEW rows \in Seq(Row), NEW p \in Nat \ {0}, NEW values \in Row
  PROVE  /\ KeepsIds(rows, ShiftDown(rows, p))
         /\ KeepsIds(rows, ShiftUp(rows, p))
         /\ \A r \in Records :
              LET new == Written(rows, p, values)
              IN  /\ values.id # r => (None(rows, r) => None(new, r)) /\ (One(rows, r) => One(new, r))
                  /\ None(rows, r) => One(new, r)
<1>0. KeepsIds(rows, rows) /\ p \in Nat
  BY DEF KeepsIds
<1>1. ASSUME NEW new \in Seq(Row), KeepsIds(rows, new)
      PROVE  KeepsIds(rows, Used(new))
  BY <1>1, UsedIds DEF KeepsIds
<1>2. KeepsIds(rows, ShiftDown(rows, p))
  <2>1. CASE p <= Len(rows)
    <3>1. p \in 1 .. Len(rows) + 1 /\ InsertAt(rows, p, BlankRow) \in Seq(Row)
      BY <2>1, InsertedRow, RowTypes
    <3>2. KeepsIds(rows, InsertAt(rows, p, BlankRow))
      BY <3>1, InsertedIds, RowTypes DEF BlankRow
    <3> QED
      BY <1>1, <2>1, <3>1, <3>2 DEF ShiftDown
  <2> QED
    BY <1>0, <2>1 DEF ShiftDown
<1>3. KeepsIds(rows, ShiftUp(rows, p))
  <2>1. CASE p <= Len(rows)
    <3>1. p \in 1 .. Len(rows) /\ RemoveAt(rows, p) \in Seq(Row)
      BY <2>1, RemovedRow
    <3>2. KeepsIds(rows, RemoveAt(rows, p))
      BY <3>1, RemovedIds
    <3> QED
      BY <1>1, <2>1, <3>1, <3>2 DEF ShiftUp
  <2> QED
    BY <1>0, <2>1 DEF ShiftUp
<1> DEFINE size == IF p > Len(rows) THEN p ELSE Len(rows)
           row(q) == IF q > Len(rows) THEN BlankRow ELSE rows[q]
           new == [q \in 1 .. size |-> IF q = p THEN Over(row(q), values) ELSE row(q)]
<1>4. size \in Nat /\ size >= Len(rows) /\ Written(rows, p, values) = Used(new)
  BY DEF Written
<1>5. new \in Seq(Row) /\ Len(new) = size
  <2>1. \A q \in 1 .. size : row(q) \in Row
    BY RowTypes
  <2>2. \A old \in Row : Over(old, values) \in Row
    BY DEF Over, Row
  <2>3. \A q \in 1 .. size : new[q] \in Row
    BY <2>1, <2>2
  <2> QED
    BY <1>4, <2>3
<1>6. \A r \in Records : r # Blank
  BY FormStoreAssumption DEF Records
<1>7. ASSUME NEW q \in 1 .. size, NEW r \in Records, new[q].id = r
      PROVE  (q = p /\ values.id = r) \/ (q \in 1 .. Len(rows) /\ rows[q].id = r)
  <2>1. row(q).id = r => q \in 1 .. Len(rows) /\ rows[q].id = r
    BY <1>4, <1>6 DEF BlankRow
  <2>2. CASE q = p
    <3>1. new[q] = Over(row(q), values)
      BY <2>2
    <3> HIDE DEF new, row
    <3>2. row(q).id = r \/ values.id = r
      BY <1>7, <3>1 DEF Over
    <3> QED
      BY <2>1, <2>2, <3>2
  <2>3. CASE q # p
    BY <1>7, <2>1, <2>3
  <2> QED
    BY <2>2, <2>3
<1> HIDE DEF new, size
<1>8. ASSUME NEW r \in Records
      PROVE  /\ values.id # r => (None(rows, r) => None(new, r)) /\ (One(rows, r) => One(new, r))
             /\ None(rows, r) => One(new, r)
  BY <1>5, <1>7 DEF None, One
<1>9. \A r \in Records : (None(new, r) => None(Used(new), r)) /\ (One(new, r) => One(Used(new), r))
  BY <1>5, UsedIds DEF KeepsIds
<1> QED
  BY <1>2, <1>3, <1>4, <1>8, <1>9

-----------------------------------------------------------------------------
\* A request with a row in the database asks for something; a running one has
\* its row; one the processor runs is the first of the queue; one that waits,
\* or was found by a refresh, has been made and does not run at once.
Asked(f) == form[f] \in FormSyncDto /\ (form[f].type = "insert" <=> form[f].rec = f)
Waiting == delayed \cup ToSet(queue) \cup refresh.found
JobsInv ==
  /\ \A f \in saved : Asked(f)
  /\ \A f \in Forms : /\ run[f].mode = "none" <=> run[f].step = "idle"
                      /\ Running(f) => f \in saved
                      /\ run[f].mode = "respect" => queue # <<>> /\ f = Head(queue)
  /\ \A f \in Waiting : form[f] # NoForm /\ run[f].mode # "direct"
\* While no call has failed: no id has two rows, that of a new record none
\* before its handler has written it.
Wrote(f) == form[f] = PastForm \/ (form[f].type = "insert" /\ run[f].step \in {"count", "done"})
IdsInv ==
  fails = 0 => /\ \A r \in Records : One(sheet, r)
               /\ \A f \in Forms : ~Wrote(f) => None(sheet, f)
\* The copies of the tag tell what the positions are those of.
Exact == \A p \in DOMAIN sheet : sheet[p].id # Blank => pos[sheet[p].id] = p
TagInv ==
  provider = "excel" =>
    /\ refresh.step \in {"download", "upload", "stamp"} => "cTag" \notin current
    /\ "tag" \in current /\ refresh.step = "upload" => refresh.rows = sheet
    /\ "tag" \in current /\ refresh.step = "stamp" /\ fails = 0 => Exact
    /\ "cTag" \in current /\ fails = 0 => Exact
\* Without the id column there is no id, for the refresh that leaves no positions.
GoneInv == idColumn = "gone" => \A r \in Records : None(sheet, r)
StoreInv ==
  /\ provider \in {"excel", "google"} /\ source \in BOOLEAN
  /\ idColumn \in {"later", "first", "gone"}
  /\ current \subseteq {"cTag", "tag"}
  /\ saved \subseteq Forms /\ delayed \subseteq saved /\ IsFiniteSet(saved)
  /\ queue \in Seq(Forms)
  /\ IsFiniteSet(refresh.found)
  /\ edits \in 0 .. MaxEdits /\ fails \in 0 .. MaxFails
AllInv == FormInv /\ StoreInv /\ JobsInv /\ IdsInv /\ TagInv /\ GoneInv

\* A handler on its way: the request, the queue and the refresh stay.
GoesOn(f) ==
  /\ UNCHANGED <<provider, source, idColumn, form, saved, delayed, queue, refresh, edits, fails>>
  /\ run' \in [Forms -> Runs] /\ \A g \in Forms \ {f} : run'[g] = run[g]
  /\ Running(f) /\ Running(f)' /\ run'[f].mode = run[f].mode
  /\ UNCHANGED <<sheet, pos, current>> \/ current' = {}

LEMMA GoingOn ==
  ASSUME FormInv, NEW f \in Forms, HandlerStep(f), ~Settles(f)
  PROVE  GoesOn(f)
<1>1. \A step : Go(f, step) =>
        /\ \A g \in Forms \ {f} : run'[g] = run[g]
        /\ run'[f].mode = run[f].mode /\ run'[f].step = step
  BY DEF FormInv, TypesInv, Go, Runs
<1>2. run' \in [Forms -> Runs]
  BY OwnSteps DEF OwnStep
<1>3. CASE Answers(f) \/ Agrees(f) \/ CountsRow(f)
  BY <1>1, <1>2, <1>3 DEF Answers, Agrees, CountsRow, Quiet, GoesOn, Running, Outcomes, book, metadata, table
<1>4. CASE Locates(f)
  <2>1. PICK step \in {"insert", "check"}, p \in Nat \ {0} : GoAt(f, step, p)
    BY <1>4 DEF Locates
  <2>2. /\ \A g \in Forms \ {f} : run'[g] = run[g]
        /\ run'[f].mode = run[f].mode /\ run'[f].step = step
    BY <2>1 DEF FormInv, TypesInv, GoAt, Runs
  <2> QED
    BY <1>2, <1>4, <2>2 DEF Locates, Quiet, GoesOn, Running, book, metadata, table
<1>5. CASE MakesRow(f) \/ FillsRow(f) \/ ChangesRow(f) \/ RemovesRow(f)
  <2>1. current' = {} /\ UNCHANGED <<provider, source, idColumn, metadata, form, table, queue, refresh, edits, fails>>
    BY <1>5 DEF MakesRow, FillsRow, ChangesRow, RemovesRow, Writes
  <2> QED
    BY <1>1, <1>2, <1>5, <2>1 DEF MakesRow, FillsRow, ChangesRow, RemovesRow, GoesOn, Running, metadata, table
<1> QED
  BY <1>3, <1>4, <1>5 DEF HandlerStep

\* It changes nothing of the rest, but for the ids.
LEMMA GoesOnKeeps ==
  ASSUME AllInv, NEW f \in Forms, GoesOn(f)
  PROVE  StoreInv' /\ JobsInv' /\ TagInv'
<1>1. StoreInv'
  BY DEF AllInv, StoreInv, GoesOn
<1>2. JobsInv'
  <2>1. \A g \in Forms : run'[g].mode = run[g].mode /\ (Running(g)' <=> Running(g))
    BY DEF GoesOn, Running
  <2>2. Waiting \subseteq Forms /\ Waiting' = Waiting
    BY DEF AllInv, FormInv, TypesInv, Refreshes, StoreInv, Waiting, GoesOn, ToSet
  <2>3. \A g \in Forms : Asked(g)' <=> Asked(g)
    BY DEF GoesOn, Asked
  <2> QED
    BY <2>1, <2>2, <2>3 DEF AllInv, StoreInv, JobsInv, GoesOn, Running
<1>3. TagInv'
  BY DEF AllInv, TagInv, GoesOn, Exact
<1> QED
  BY <1>1, <1>2, <1>3

\* Its ids are written in one step.
LEMMA GoesOnIds ==
  ASSUME AllInv, NEW f \in Forms, HandlerStep(f), ~Settles(f)
  PROVE  IdsInv'
<1> SUFFICES ASSUME fails' = 0
             PROVE  IdsInv'
  BY DEF IdsInv
<1>1. /\ UNCHANGED <<form, fails>>
      /\ \A g \in Forms \ {f} : run'[g] = run[g]
      /\ f \in saved /\ Asked(f) /\ form[f] # PastForm
  BY GoingOn, FormStoreAssumption
     DEF AllInv, GoesOn, JobsInv, Asked, FormSyncDto, FormSyncType, PastForm, NoForm
<1>2. /\ sheet \in Seq(Row) /\ Forms \subseteq Records /\ f # Blank
      /\ \A r \in Records : One(sheet, r)
      /\ \A g \in Forms : ~Wrote(g) => None(sheet, g)
  BY <1>1, FormStoreAssumption DEF AllInv, FormInv, TypesInv, IdsInv, Records
<1>3. \A g \in Forms \ {f} : Wrote(g)' <=> Wrote(g)
  BY <1>1 DEF Wrote
<1>4. ASSUME KeepsIds(sheet, sheet'), Wrote(f) => Wrote(f)'
      PROVE  IdsInv'
  BY <1>2, <1>3, <1>4 DEF KeepsIds, IdsInv
<1>5. \A step : Go(f, step) => run'[f].step = step
  BY DEF AllInv, FormInv, TypesInv, Go, Runs
<1>6. run[f].step \in {"insert", "write", "act"} => run[f].at \in Nat \ {0}
  BY DEF AllInv, FormInv, TypesInv, RowsInv, HasRow, Runs
<1>7. InsertValues(f) \in Row /\ UpdateValues(f) \in Row
  BY <1>1, ValueRows DEF AllInv, FormInv, Asked, FormSyncDto
<1>8. CASE Answers(f) \/ Locates(f) \/ Agrees(f) \/ CountsRow(f)
  <2>1. KeepsIds(sheet, sheet')
    BY <1>8 DEF Answers, Locates, Agrees, CountsRow, Quiet, book, KeepsIds
  <2>2. Wrote(f) => Wrote(f)'
    BY <1>1, <1>5, <1>8 DEF Answers, Locates, Agrees, CountsRow, Wrote
  <2> QED
    BY <1>4, <2>1, <2>2
<1>9. CASE MakesRow(f) \/ RemovesRow(f)
  <2>1. KeepsIds(sheet, sheet')
    BY <1>2, <1>6, <1>7, <1>9, CalledIds DEF MakesRow, RemovesRow, Writes
  <2>2. ~Wrote(f)
    BY <1>1, <1>9 DEF MakesRow, RemovesRow, Wrote
  <2> QED
    BY <1>4, <2>1, <2>2
<1>10. CASE ChangesRow(f)
  <2>1. KeepsIds(sheet, sheet')
    <3>1. \A r \in Records : UpdateValues(f).id # r
      BY FormStoreAssumption DEF Records, UpdateValues
    <3> QED
      BY <1>2, <1>6, <1>7, <1>10, <3>1, CalledIds DEF ChangesRow, Writes, KeepsIds
  <2>2. ~Wrote(f)
    BY <1>1, <1>10 DEF ChangesRow, Wrote
  <2> QED
    BY <1>4, <2>1, <2>2
<1>11. CASE FillsRow(f)
  <2>1. sheet' = Written(sheet, run[f].at, InsertValues(f)) /\ run[f].at \in Nat \ {0}
    BY <1>6, <1>11 DEF FillsRow, Writes
  <2>2. \A r \in Records : /\ InsertValues(f).id # r => (None(sheet, r) => None(sheet', r)) /\ (One(sheet, r) => One(sheet', r))
                           /\ None(sheet, r) => One(sheet', r)
    BY <1>2, <1>7, <2>1, CalledIds
  <2>3. InsertValues(f).id \in {Blank, f}
    BY <1>1, <1>11 DEF InsertValues, FillsRow, Asks, Asked
  <2>4. Wrote(f)' /\ None(sheet, f)
    BY <1>1, <1>2, <1>5, <1>11 DEF FillsRow, Asks, Wrote
  <2>5. \A r \in Records \ {f} : InsertValues(f).id # r
    BY <2>3, FormStoreAssumption DEF Records
  <2> QED
    BY <1>2, <1>3, <2>2, <2>4, <2>5 DEF IdsInv
<1> QED
  BY <1>8, <1>9, <1>10, <1>11 DEF HandlerStep


\* What waits is made of requests, and a shorter queue holds no others.
LEMMA WaitingForms ==
  ASSUME AllInv
  PROVE  /\ Waiting \subseteq Forms
         /\ Tail(queue) \in Seq(Forms) /\ ToSet(Tail(queue)) \subseteq ToSet(queue)
<1>1. queue \in Seq(Forms) /\ refresh.found \subseteq Forms /\ delayed \subseteq Forms
  BY DEF AllInv, FormInv, TypesInv, StoreInv, Refreshes
<1>2. Waiting \subseteq Forms
  BY <1>1 DEF Waiting, ToSet
<1>3. CASE queue = <<>>
  <2>1. Tail(queue) = <<>>
    BY <1>3
  <2> QED
    BY <1>2, <1>3, <2>1
<1>4. CASE queue # <<>>
  <2>1. /\ Tail(queue) \in Seq(Forms) /\ DOMAIN Tail(queue) = 1 .. Len(queue) - 1
        /\ \A i \in 1 .. Len(queue) - 1 : Tail(queue)[i] = queue[i + 1] /\ i + 1 \in DOMAIN queue
    BY <1>1, <1>4
  <2> QED
    BY <1>2, <2>1 DEF ToSet
<1> QED
  BY <1>3, <1>4

\* The end of a handler: its request is deleted, delayed, or left.
LEMMA EndKeeps ==
  ASSUME AllInv, NEW f \in Forms, Settles(f) \/ Fail(f)
  PROVE  StoreInv' /\ JobsInv' /\ IdsInv' /\ TagInv'
<1>1. /\ run' = [run EXCEPT ![f] = Idle]
      /\ queue' = IF run[f].mode = "respect" THEN Tail(queue) ELSE queue
      /\ UNCHANGED <<provider, source, idColumn, sheet, current, pos, refresh, edits>>
  BY DEF Settles, DeletesForm, DelaysForm, Throws, Fail, Ends, book, metadata
<1>2. /\ run'[f] = Idle /\ \A g \in Forms \ {f} : run'[g] = run[g]
      /\ Idle.step = "idle" /\ Idle.mode = "none"
  BY <1>1 DEF AllInv, FormInv, TypesInv, Idle
<1>3. Running(f) /\ f \in saved /\ Asked(f)
  BY DEF Settles, Fail, Running, Outcomes, AllInv, JobsInv
<1>4. form[f] # PastForm /\ form[f] # NoForm /\ PastForm # NoForm
  BY <1>3 DEF Asked, FormSyncDto, FormSyncType, PastForm, NoForm
<1>5. \/ fails' = fails /\ form' = [form EXCEPT ![f] = PastForm] /\ saved' = saved \ {f} /\ delayed' = delayed \ {f}
      \/ fails' = fails /\ ~Wrote(f) /\ UNCHANGED <<form, saved>> /\ delayed' = delayed \cup {f}
      \/ fails' = fails /\ ~Wrote(f) /\ UNCHANGED <<form, saved, delayed>>
      \/ fails' = fails + 1 /\ fails < MaxFails /\ UNCHANGED <<form, saved, delayed>>
  BY <1>4 DEF Settles, DeletesForm, DelaysForm, Throws, Fail, table, Wrote
<1>6. \A g \in Forms \ {f} : form'[g] = form[g] /\ (g \in saved' <=> g \in saved)
  BY <1>5 DEF AllInv, FormInv, TypesInv
<1>7. /\ saved \subseteq Forms /\ IsFiniteSet(saved) /\ delayed \subseteq saved
      /\ form \in [Forms -> FormRows]
      /\ fails \in 0 .. MaxFails /\ MaxFails \in Nat
  BY FormStoreAssumption DEF AllInv, StoreInv, FormInv, TypesInv
<1>8. StoreInv'
  <2>1. IsFiniteSet(saved')
    BY <1>5, <1>7, FS_RemoveElement
  <2>2. saved' \subseteq Forms /\ delayed' \subseteq saved' /\ fails' \in 0 .. MaxFails
    BY <1>3, <1>5, <1>7
  <2>3. queue' \in Seq(Forms)
    BY <1>1, WaitingForms DEF AllInv, StoreInv
  <2> QED
    BY <1>1, <2>1, <2>2, <2>3 DEF AllInv, StoreInv
<1>9. JobsInv'
  <2>1. \A g \in saved' : Asked(g)'
    BY <1>3, <1>5, <1>6, <1>7 DEF AllInv, JobsInv, Asked
  <2>2. ASSUME NEW g \in Forms
        PROVE  /\ run'[g].mode = "none" <=> run'[g].step = "idle"
               /\ Running(g)' => g \in saved'
               /\ run'[g].mode = "respect" => queue' # <<>> /\ g = Head(queue')
    <3>1. CASE g = f
      BY <1>2, <3>1 DEF Running
    <3>2. CASE g # f
      <4>1. /\ run'[g].mode = "none" <=> run'[g].step = "idle"
            /\ Running(g)' => g \in saved'
        BY <1>2, <1>6, <3>2 DEF AllInv, JobsInv, Running
      <4>2. run'[g].mode = "respect" => queue' = queue
        BY <1>1, <1>2, <3>2 DEF AllInv, JobsInv
      <4> QED
        BY <1>2, <3>2, <4>1, <4>2 DEF AllInv, JobsInv
    <3> QED
      BY <3>1, <3>2
  <2>3. Waiting' \subseteq Waiting \cup {f}
    BY <1>1, <1>5, WaitingForms DEF Waiting
  <2>4. \A g \in Waiting' : form'[g] # NoForm /\ run'[g].mode # "direct"
    <3>1. form'[f] # NoForm
      BY <1>4, <1>5, <1>7
    <3> QED
      BY <1>2, <1>6, <2>3, <3>1, WaitingForms DEF AllInv, JobsInv
  <2> QED
    BY <2>1, <2>2, <2>4 DEF JobsInv
<1>10. IdsInv'
  <2> SUFFICES ASSUME fails' = 0
               PROVE  IdsInv'
    BY DEF IdsInv
  <2>1. fails = 0 /\ (Wrote(f) => Wrote(f)')
    BY <1>5, <1>7 DEF Wrote
  <2>2. \A g \in Forms \ {f} : Wrote(g)' <=> Wrote(g)
    BY <1>2, <1>6 DEF Wrote
  <2> QED
    BY <1>1, <2>1, <2>2 DEF AllInv, IdsInv
<1>11. TagInv'
  <2>1. fails' = 0 => fails = 0
    BY <1>5, <1>7
  <2> QED
    BY <1>1, <2>1 DEF AllInv, TagInv, Exact
<1> QED
  BY <1>8, <1>9, <1>10, <1>11

\* POST /formsync: a request that was not there.
LEMMA SubmitKeeps ==
  ASSUME AllInv, NEW f \in Forms, NEW type \in FormSyncType, NEW rec \in Records, NEW known \in BOOLEAN,
         Submit(f, type, rec, known)
  PROVE  StoreInv' /\ JobsInv' /\ IdsInv' /\ TagInv'
<1> DEFINE dto == [type |-> type, rec |-> rec, known |-> known]
<1>1. /\ form[f] = NoForm /\ form' = [form EXCEPT ![f] = dto] /\ saved' = saved \cup {f}
      /\ run' = [run EXCEPT ![f] = [mode |-> "direct", step |-> "read", at |-> 0]]
      /\ UNCHANGED <<provider, source, idColumn, sheet, current, pos, delayed, queue, refresh, edits, fails>>
      /\ type = "insert" <=> rec = f
  BY DEF Submit, book, metadata
<1>2. /\ run'[f].step = "read" /\ run'[f].mode = "direct" /\ form'[f] = dto
      /\ \A g \in Forms \ {f} : run'[g] = run[g] /\ form'[g] = form[g]
  BY <1>1 DEF AllInv, FormInv, TypesInv
<1>3. NoForm # PastForm /\ NoForm \notin FormSyncDto /\ NoForm.type # "insert" /\ dto \in FormSyncDto
  BY DEF NoForm, PastForm, FormSyncDto, FormSyncType
<1>4. f \notin saved /\ f \notin Waiting /\ ~Wrote(f)
  BY <1>1, <1>3 DEF AllInv, JobsInv, Asked, Wrote
<1>5. Waiting' = Waiting /\ Waiting \subseteq Forms
  BY <1>1, WaitingForms DEF Waiting
<1>6. Asked(f)' /\ dto # PastForm
  BY <1>1, <1>2, <1>3 DEF Asked, PastForm, NoForm, FormSyncType
<1> HIDE DEF dto
<1>7. StoreInv'
  <2>1. IsFiniteSet(saved')
    BY <1>1, FS_AddElement DEF AllInv, StoreInv
  <2> QED
    BY <1>1, <2>1 DEF AllInv, StoreInv
<1>8. JobsInv'
  <2>1. \A g \in saved' : Asked(g)'
    BY <1>1, <1>2, <1>6 DEF AllInv, StoreInv, JobsInv, Asked
  <2>2. \A g \in Forms : /\ run'[g].mode = "none" <=> run'[g].step = "idle"
                         /\ Running(g)' => g \in saved'
                         /\ run'[g].mode = "respect" => queue' # <<>> /\ g = Head(queue')
    BY <1>1, <1>2 DEF AllInv, JobsInv, Running
  <2>3. \A g \in Waiting' : form'[g] # NoForm /\ run'[g].mode # "direct"
    BY <1>2, <1>4, <1>5 DEF AllInv, JobsInv
  <2> QED
    BY <2>1, <2>2, <2>3 DEF JobsInv
<1>9. IdsInv'
  BY <1>1, <1>2, <1>4 DEF AllInv, IdsInv, Wrote
<1>10. TagInv'
  BY <1>1 DEF AllInv, TagInv, Exact
<1> QED
  BY <1>7, <1>8, <1>9, <1>10

\* The processor takes the first job, or drops it.
LEMMA JobKeeps ==
  ASSUME AllInv, TakesJob
  PROVE  StoreInv' /\ JobsInv' /\ IdsInv' /\ TagInv'
<1> DEFINE first == Head(queue)
<1>1. /\ UNCHANGED <<provider, source, idColumn, sheet, current, pos, form, saved, delayed, refresh, edits, fails>>
      /\ queue # <<>> /\ queue \in Seq(Forms)
      /\ \A f \in Forms : run[f].mode # "respect"
  BY DEF TakesJob, book, metadata, table, AllInv, StoreInv
<1>2. first \in Forms /\ first \in Waiting
  <2>1. 1 \in DOMAIN queue /\ first = queue[1]
    BY <1>1
  <2> QED
    BY <1>1, <2>1, WaitingForms DEF Waiting, ToSet
<1> HIDE DEF first
<1>3. Waiting' \subseteq Waiting /\ queue' \in Seq(Forms)
  BY <1>1, WaitingForms DEF TakesJob, Waiting
<1>4. run[first].mode = "none" /\ ~Running(first)
  <2>1. run[first].mode \in {"none", "direct", "respect"}
    BY <1>2 DEF AllInv, FormInv, TypesInv, Runs
  <2> QED
    BY <1>1, <1>2, <2>1 DEF AllInv, JobsInv, Running
<1>5. /\ \A f \in Forms \ {first} : run'[f] = run[f]
      /\ \/ run' = run
         \/ /\ run'[first].mode = "respect" /\ run'[first].step = "read"
            /\ first \in saved /\ queue' = queue
  BY <1>2 DEF TakesJob, AllInv, FormInv, TypesInv, first
<1>6. StoreInv'
  BY <1>1, <1>3 DEF AllInv, StoreInv
<1>7. JobsInv'
  <2>1. \A f \in saved' : Asked(f)'
    BY <1>1 DEF AllInv, JobsInv, Asked
  <2>2. \A f \in Forms : /\ run'[f].mode = "none" <=> run'[f].step = "idle"
                         /\ Running(f)' => f \in saved'
                         /\ run'[f].mode = "respect" => queue' # <<>> /\ f = Head(queue')
    BY <1>1, <1>5 DEF AllInv, JobsInv, Running, first
  <2>3. \A f \in Waiting' : form'[f] # NoForm /\ run'[f].mode # "direct"
    BY <1>1, <1>3, <1>5, WaitingForms DEF AllInv, JobsInv
  <2> QED
    BY <2>1, <2>2, <2>3 DEF JobsInv
<1>8. IdsInv'
  <2>1. \A f \in Forms : Wrote(f) => Wrote(f)'
    BY <1>1, <1>4, <1>5 DEF Wrote, Running
  <2> QED
    BY <1>1, <2>1 DEF AllInv, IdsInv
<1>9. TagInv'
  BY <1>1 DEF AllInv, TagInv, Exact
<1> QED
  BY <1>6, <1>7, <1>8, <1>9


\* The queue grows at its end, by requests the refresh has found.
LEMMA QueueGrows ==
  ASSUME AllInv, AddsJobs
  PROVE  /\ queue' \in Seq(Forms) /\ ToSet(queue') \subseteq ToSet(queue) \cup refresh.found
         /\ queue # <<>> => queue' # <<>> /\ Head(queue') = Head(queue)
<1>1. PICK new \in SetToSeqs(refresh.found \ ToSet(queue)) : queue' = queue \o new
  BY DEF AddsJobs
<1>2. refresh.found \subseteq Forms /\ queue \in Seq(Forms)
  BY DEF AllInv, FormInv, TypesInv, StoreInv, Refreshes
<1> DEFINE rest == refresh.found \ ToSet(queue)
<1>3. Cardinality(rest) \in Nat
  BY FS_Subset, FS_CardinalityType DEF AllInv, StoreInv
<1>4. new \in [1 .. Cardinality(rest) -> rest]
  BY <1>1 DEF SetToSeqs
<1>5. new \in Seq(Forms) /\ \A i \in DOMAIN new : new[i] \in refresh.found
  <2>1. rest \subseteq refresh.found /\ rest \subseteq Forms
    BY <1>2
  <2>2. \A n \in Nat : \A s \in [1 .. n -> rest] :
          s \in Seq(Forms) /\ \A i \in DOMAIN s : s[i] \in refresh.found
    <3> HIDE DEF rest
    <3> QED
      BY <2>1
  <2> QED
    BY <1>3, <1>4, <2>2
<1>6. /\ queue \o new \in Seq(Forms)
      /\ \A i \in DOMAIN (queue \o new) :
           (queue \o new)[i] \in ToSet(queue) \cup refresh.found
  <2>1. ASSUME NEW i \in DOMAIN (queue \o new)
        PROVE  (queue \o new)[i] \in ToSet(queue) \cup refresh.found
    <3>1. CASE i <= Len(queue)
      BY <1>2, <1>5, <3>1 DEF ToSet
    <3>2. CASE i > Len(queue)
      <4>1. i - Len(queue) \in DOMAIN new /\ (queue \o new)[i] = new[i - Len(queue)]
        BY <1>2, <1>5, <3>2
      <4> QED
        BY <1>5, <4>1
    <3> QED
      BY <1>2, <1>5, <3>1, <3>2
  <2> QED
    BY <1>2, <1>5, <2>1
<1>7. ToSet(queue') \subseteq ToSet(queue) \cup refresh.found
  BY <1>1, <1>6 DEF ToSet
<1>8. queue # <<>> => queue' # <<>> /\ Head(queue') = Head(queue)
  BY <1>1, <1>2, <1>5
<1> QED
  BY <1>1, <1>6, <1>7, <1>8

\* At most two halves of an upload arrive.
LEMMA HalvesUploaded ==
  ASSUME NEW halves \in SUBSET {"common", "rows"}
  PROVE  /\ Cardinality(halves) \in 0 .. 2
         /\ Cardinality(halves) = 2 => "rows" \in halves
<1>1. IsFiniteSet({"common"}) /\ Cardinality({"common"}) = 1
  BY FS_Singleton
<1>2. {"common", "rows"} = {"common"} \cup {"rows"} /\ "rows" \notin {"common"}
  OBVIOUS
<1>3. IsFiniteSet({"common", "rows"}) /\ Cardinality({"common", "rows"}) = 2
  BY <1>1, <1>2, FS_AddElement
<1>4. Cardinality(halves) \in 0 .. 2
  <2>1. IsFiniteSet(halves) /\ Cardinality(halves) <= 2
    BY <1>3, FS_Subset
  <2> QED
    BY <2>1, FS_CardinalityType
<1>5. "rows" \notin halves => Cardinality(halves) <= 1
  <2>1. "rows" \notin halves => halves \subseteq {"common"}
    OBVIOUS
  <2> QED
    BY <1>1, <2>1, FS_Subset
<1> QED
  BY <1>4, <1>5

\* The positions the metadata service uploads are those of the rows it has,
\* when no id has two of them.
LEMMA UploadedPositions ==
  ASSUME AllInv, Uploads, fails' = 0, refresh.rows = sheet
  PROVE  Exact'
<1>1. fails = 0 /\ pos' \in [Records -> UNION {NewPositions(r) : r \in Records}]
      /\ \A r \in Records : pos'[r] \in NewPositions(r)
  <2>1. PICK halves \in SUBSET {"common", "rows"} :
          /\ fails' = fails + 2 - Cardinality(halves)
          /\ IF "rows" \in halves
             THEN pos' \in {new \in [Records -> UNION {NewPositions(r) : r \in Records}] :
                              \A r \in Records : new[r] \in NewPositions(r)}
             ELSE UNCHANGED pos
    BY DEF Uploads
  <2>2. fails \in Nat
    BY FormStoreAssumption DEF AllInv, StoreInv
  <2>3. fails = 0 /\ Cardinality(halves) = 2
    BY <2>1, <2>2, HalvesUploaded
  <2>4. "rows" \in halves
    BY <2>3, HalvesUploaded
  <2> QED
    BY <2>1, <2>3, <2>4
<1>2. sheet' = sheet /\ sheet \in Seq(Row)
  BY DEF Uploads, RefreshKeeps, AllInv, FormInv, TypesInv
<1>3. ASSUME NEW p \in DOMAIN sheet, sheet[p].id # Blank
      PROVE  pos'[sheet[p].id] = p
  <2> DEFINE r == sheet[p].id
  <2>1. r \in Records /\ One(sheet, r)
    <3>1. sheet[p] \in Row
      BY <1>2
    <3>2. r \in Records
      BY <1>3, <3>1 DEF Row
    <3> QED
      BY <1>1, <3>2 DEF AllInv, IdsInv
  <2>2. {q \in DOMAIN sheet : sheet[q].id = r} = {p}
    BY <2>1 DEF One
  <2>3. NewPositions(r) = {p}
    BY <2>2 DEF NewPositions
  <2> QED
    BY <1>1, <2>1, <2>3
<1> QED
  BY <1>2, <1>3 DEF Exact

\* Without the id column no position can be wrong.
LEMMA WithoutIds ==
  ASSUME AllInv, idColPos = {}
  PROVE  Exact
<1>1. idColumn = "gone"
  BY DEF idColPos, AllInv, StoreInv
<1>2. \A p \in DOMAIN sheet : sheet[p].id \in Records \cup {Blank}
  <2>1. \A p \in DOMAIN sheet : sheet[p] \in Row
    BY DEF AllInv, FormInv, TypesInv
  <2> QED
    BY <2>1 DEF Row
<1> QED
  BY <1>1, <1>2 DEF AllInv, GoneInv, None, Exact

\* A refresh, also one that throws.
LEMMA RefreshSteps ==
  ASSUME AllInv, Refresh \/ RefreshThrows
  PROVE  StoreInv' /\ JobsInv' /\ IdsInv' /\ TagInv'
<1> USE DEF Refresh, ExcelRefresh, GoogleRefresh, ExcelUpdateMetadata, ExcelMetadataService,
            ExcelUpdateMetadataProcessor, GoogleUpdateMetadata, GoogleMetadataService,
            GoogleUpdateMetadataProcessor
<1>1. UNCHANGED <<provider, source, idColumn, sheet, form, saved, delayed, run, edits>>
  BY DEF RefreshKeeps, table, ExcelReadsTag, ExcelStamps, PostFails, Downloads, Uploads, FindsDelayed, AddsJobs, RefreshThrows
<1>2. fails \in 0 .. MaxFails /\ fails' \in fails .. MaxFails /\ MaxFails \in Nat
  <2>1. fails \in 0 .. MaxFails /\ MaxFails \in Nat
    BY FormStoreAssumption DEF AllInv, StoreInv
  <2>2. CASE Uploads
    <3>1. PICK halves \in SUBSET {"common", "rows"} :
            fails + 2 - Cardinality(halves) <= MaxFails /\ fails' = fails + 2 - Cardinality(halves)
      BY <2>2 DEF Uploads
    <3> QED
      BY <2>1, <3>1, HalvesUploaded
  <2>3. CASE PostFails \/ RefreshThrows
    BY <2>1, <2>3 DEF PostFails, RefreshThrows
  <2>4. CASE fails' = fails
    BY <2>1, <2>4
  <2> QED
    BY <2>2, <2>3, <2>4 DEF ExcelReadsTag, ExcelStamps, Downloads, FindsDelayed, AddsJobs
<1>3. /\ current' \subseteq {"cTag", "tag"}
      /\ refresh'.found \in {refresh.found, {}, delayed}
  <2>1. current' \subseteq {"cTag", "tag"}
    BY DEF AllInv, StoreInv, ExcelReadsTag, ExcelStamps, PostFails, Downloads, Uploads, FindsDelayed, AddsJobs,
           RefreshThrows
  <2>2. refresh \in Refreshes /\ Still.found = {}
    BY DEF AllInv, FormInv, TypesInv, Still
  <2>3. \A step : /\ [refresh EXCEPT !.step = step].found = refresh.found
                  /\ [refresh EXCEPT !.step = step, !.rows = sheet].found = refresh.found
                  /\ [refresh EXCEPT !.step = step, !.found = delayed].found = delayed
                  /\ [Still EXCEPT !.step = step].found = {}
    BY <2>2 DEF Refreshes, Still
  <2>4. refresh'.found \in {refresh.found, {}, delayed}
    BY <2>2, <2>3 DEF Returned, ExcelReadsTag, ExcelStamps, PostFails, Downloads, Uploads, FindsDelayed,
         AddsJobs, RefreshThrows
  <2> QED
    BY <2>1, <2>4
<1>4. /\ queue' \in Seq(Forms) /\ ToSet(queue') \subseteq ToSet(queue) \cup refresh.found
      /\ queue # <<>> => queue' # <<>> /\ Head(queue') = Head(queue)
  <2>1. CASE AddsJobs
    BY <2>1, QueueGrows
  <2>2. CASE queue' = queue
    BY <2>2 DEF AllInv, StoreInv
  <2> QED
    BY <2>1, <2>2 DEF ExcelReadsTag, ExcelStamps, PostFails, Downloads, Uploads, FindsDelayed, RefreshThrows
<1>5. StoreInv'
  <2>1. IsFiniteSet(refresh'.found)
    BY <1>3, FS_EmptySet, FS_Subset DEF AllInv, StoreInv
  <2> QED
    BY <1>1, <1>2, <1>3, <1>4, <2>1 DEF AllInv, StoreInv
<1>6. JobsInv'
  <2>1. Waiting' \subseteq Waiting /\ Waiting \subseteq Forms
    BY <1>1, <1>3, <1>4, WaitingForms DEF Waiting
  <2>2. \A f \in saved' : Asked(f)'
    BY <1>1 DEF AllInv, JobsInv, Asked
  <2>3. \A f \in Waiting' : form'[f] # NoForm /\ run'[f].mode # "direct"
    BY <1>1, <2>1 DEF AllInv, JobsInv
  <2>4. \A f \in Forms : /\ run'[f].mode = "none" <=> run'[f].step = "idle"
                         /\ Running(f)' => f \in saved'
                         /\ run'[f].mode = "respect" => queue' # <<>> /\ f = Head(queue')
    BY <1>1, <1>4 DEF AllInv, JobsInv, Running
  <2> QED
    BY <2>2, <2>3, <2>4 DEF JobsInv
<1>7. fails' = 0 => fails = 0
  BY <1>2
<1>8. IdsInv'
  BY <1>1, <1>7 DEF AllInv, IdsInv, Wrote
<1>9. TagInv'
  <2> SUFFICES ASSUME provider = "excel"
               PROVE  TagInv'
    BY <1>1 DEF TagInv
  <2>1. CASE Uploads
    <3>1. refresh.step = "upload" /\ refresh'.step = "stamp" /\ current' = current
      BY <2>1 DEF Uploads, Still
    <3>2. "cTag" \notin current /\ ("tag" \in current => refresh.rows = sheet)
      BY <3>1 DEF AllInv, TagInv
    <3>3. "tag" \in current /\ fails' = 0 => Exact'
      BY <2>1, <3>2, UploadedPositions
    <3> QED
      BY <3>1, <3>2, <3>3 DEF TagInv
  <2>2. CASE pos' = pos
    <3>1. Exact' <=> Exact
      BY <1>1, <2>2 DEF Exact
    <3>2. CASE ExcelReadsTag
      <4>1. refresh'.step \in {"download", "find"} /\ (refresh'.step = "download" => current' = {"tag"})
            /\ (current' = current \/ current' = {"tag"})
        BY <3>2 DEF ExcelReadsTag, Still, Returned
      <4> QED
        BY <1>7, <3>1, <4>1 DEF AllInv, TagInv
    <3>3. CASE ExcelStamps
      <4>1. /\ refresh'.step = "find" /\ refresh.step = "stamp"
            /\ current' \subseteq {"cTag"} /\ ("cTag" \in current' => "tag" \in current)
        BY <3>3 DEF ExcelStamps, Still, Returned
      <4> QED
        BY <1>7, <3>1, <4>1 DEF AllInv, TagInv
    <3>4. CASE Downloads
      <4>1. /\ refresh.step = "download" /\ current' = current
            /\ \/ refresh'.step = "upload" /\ refresh'.rows = sheet
               \/ refresh'.step = "stamp" /\ idColPos = {}
        BY <3>4 DEF Downloads, AllInv, FormInv, TypesInv, Refreshes, Still
      <4>2. idColPos = {} => Exact
        BY WithoutIds
      <4> QED
        BY <1>1, <1>7, <3>1, <4>1, <4>2 DEF AllInv, TagInv
    <3>5. CASE PostFails
      <4>1. /\ refresh'.step = "stamp" /\ refresh.step \in {"download", "upload"}
            /\ current' = current /\ fails' # 0
        BY <1>2, <3>5 DEF PostFails, Still
      <4> QED
        BY <3>1, <4>1 DEF AllInv, TagInv
    <3>6. CASE FindsDelayed \/ AddsJobs \/ RefreshThrows
      <4>1. refresh'.step \in {"idle", "add"} /\ current' = current
        <5>1. refresh \in Refreshes /\ Still.step = "idle"
          BY DEF AllInv, FormInv, TypesInv, Still
        <5>2. [refresh EXCEPT !.step = "add", !.found = delayed].step = "add"
          BY <5>1 DEF Refreshes
        <5> QED
          BY <3>6, <5>1, <5>2 DEF FindsDelayed, AddsJobs, RefreshThrows
      <4> QED
        BY <1>7, <3>1, <4>1 DEF AllInv, TagInv
    <3> QED
      BY <2>1, <3>2, <3>3, <3>4, <3>5, <3>6
  <2> QED
    BY <2>1, <2>2 DEF metadata, ExcelReadsTag, ExcelStamps, PostFails, Downloads, FindsDelayed, AddsJobs, RefreshThrows
<1> QED
  BY <1>5, <1>6, <1>8, <1>9

\* Nothing is left of a deleted id column.
LEMMA ClearedIds ==
  ASSUME FormInv, sheet' = [p \in DOMAIN sheet |-> [sheet[p] EXCEPT !.id = Blank]]
  PROVE  \A r \in Records : None(sheet', r)
<1>1. sheet \in Seq(Row) /\ \A r \in Records : r # Blank
  BY FormStoreAssumption DEF FormInv, TypesInv, Records
<1>2. ASSUME NEW p \in DOMAIN sheet
      PROVE  sheet'[p].id = Blank
  <2>1. sheet[p] \in Row
    BY <1>1
  <2>2. [sheet[p] EXCEPT !.id = Blank].id = Blank
    BY <2>1 DEF Row
  <2> QED
    BY <2>2
<1> QED
  BY <1>1, <1>2 DEF None

\* An edit brings no id.
LEMMA EditedIds ==
  ASSUME AllInv, UserInsertsRow \/ UserDeletesRow \/ UserChangesIdColumn \/ DeleteSource
  PROVE  KeepsIds(sheet, sheet')
<1>1. sheet \in Seq(Row) /\ \A r \in Records : r # Blank
  BY FormStoreAssumption DEF AllInv, FormInv, TypesInv, Records
<1>2. CASE UserInsertsRow
  <2>1. [id |-> Blank, data |-> Typed] \in Row
    BY DEF Row
  <2> QED
    BY <1>1, <1>2, <2>1, InsertedIds DEF UserInsertsRow
<1>3. CASE UserDeletesRow
  <2>1. \A p \in DOMAIN sheet : KeepsIds(sheet, ShiftUp(sheet, p))
    BY <1>1, CalledIds, RowTypes
  <2> QED
    BY <1>3, <2>1 DEF UserDeletesRow
<1>4. CASE UserChangesIdColumn
  <2>1. CASE sheet' = sheet
    BY <2>1 DEF KeepsIds
  <2>2. CASE sheet' = [p \in DOMAIN sheet |-> [sheet[p] EXCEPT !.id = Blank]]
    <3>1. \A r \in Records : None(sheet', r)
      BY <2>2, ClearedIds DEF AllInv
    <3> QED
      BY <3>1 DEF KeepsIds, None, One
  <2> QED
    BY <1>4, <2>1, <2>2 DEF UserChangesIdColumn
<1>5. CASE DeleteSource
  BY <1>5 DEF DeleteSource, book, KeepsIds
<1> QED
  BY <1>2, <1>3, <1>4, <1>5

\* The id column is deleted with its ids.
LEMMA ColumnGone ==
  ASSUME AllInv, UserChangesIdColumn
  PROVE  GoneInv'
<1>1. CASE idColumn' = "first"
  BY <1>1 DEF GoneInv
<1>2. CASE sheet' = [p \in DOMAIN sheet |-> [sheet[p] EXCEPT !.id = Blank]]
  BY <1>2, ClearedIds DEF AllInv, GoneInv
<1> QED
  BY <1>1, <1>2 DEF UserChangesIdColumn

\* The user and the deletion of the data source: an edit brings no id.
LEMMA OthersKeep ==
  ASSUME AllInv, UserInsertsRow \/ UserDeletesRow \/ UserChangesIdColumn \/ DeleteSource
  PROVE  StoreInv' /\ JobsInv' /\ IdsInv' /\ TagInv'
<1>1. UNCHANGED <<provider, pos, form, saved, delayed, queue, run, refresh, fails>>
  BY DEF UserInsertsRow, UserDeletesRow, UserChangesIdColumn, DeleteSource, Edits, metadata, table
<1>2. (sheet' = sheet /\ current' = current) \/ current' = {}
  BY DEF UserInsertsRow, UserDeletesRow, UserChangesIdColumn, DeleteSource, Edits, book
<1>3. KeepsIds(sheet, sheet')
  BY EditedIds
<1>4. StoreInv'
  <2>1. edits' \in 0 .. MaxEdits
    BY FormStoreAssumption DEF AllInv, StoreInv, UserInsertsRow, UserDeletesRow, UserChangesIdColumn, DeleteSource,
         Edits
  <2>2. source' \in BOOLEAN
    BY DEF AllInv, StoreInv, UserInsertsRow, UserDeletesRow, UserChangesIdColumn, DeleteSource, Edits
  <2>3. idColumn' \in {"later", "first", "gone"}
    BY DEF AllInv, StoreInv, UserInsertsRow, UserDeletesRow, UserChangesIdColumn, DeleteSource, book
  <2> QED
    BY <1>1, <1>2, <2>1, <2>2, <2>3 DEF AllInv, StoreInv
<1>5. JobsInv'
  BY <1>1 DEF AllInv, JobsInv, Asked, Running, Waiting
<1>6. IdsInv'
  <2>1. \A f \in Forms : (Wrote(f)' <=> Wrote(f)) /\ f \in Records
    BY <1>1 DEF Wrote, Records
  <2> QED
    BY <1>1, <1>3, <2>1 DEF AllInv, IdsInv, KeepsIds
<1>7. TagInv'
  BY <1>1, <1>2 DEF AllInv, TagInv, Exact
<1> QED
  BY <1>4, <1>5, <1>6, <1>7


\* Once the id column is gone nothing writes an id.
LEMMA StaysGone ==
  ASSUME AllInv, Next
  PROVE  GoneInv'
<1>0. ASSUME KeepsIds(sheet, sheet'), idColumn' = idColumn
      PROVE  GoneInv'
  BY <1>0 DEF AllInv, GoneInv, KeepsIds
<1>1. ASSUME sheet' = sheet, idColumn' = idColumn
      PROVE  GoneInv'
  BY <1>1 DEF AllInv, GoneInv
<1>2. ASSUME NEW f \in Forms, HandlerStep(f)
      PROVE  GoneInv'
  <2>1. /\ sheet \in Seq(Row) /\ (\A r \in Records : r # Blank)
        /\ run[f].step \in {"insert", "write", "act"} => run[f].at \in Nat \ {0}
    BY FormStoreAssumption DEF AllInv, FormInv, TypesInv, RowsInv, HasRow, Runs, Records
  <2>2. /\ UpdateValues(f) \in Row /\ UpdateValues(f).id = Blank
        /\ InsertValues(f) \in Row /\ (idColumn = "gone" => InsertValues(f).id = Blank)
    <3>1. CASE f \in saved
      BY <3>1, ValueRows DEF AllInv, FormInv, JobsInv, Asked, FormSyncDto, UpdateValues, InsertValues, idColPos
    <3>2. CASE f \notin saved
      BY <1>2, <3>2 DEF AllInv, JobsInv, Running, HandlerStep, Answers, Locates, Agrees, MakesRow, FillsRow,
           ChangesRow, RemovesRow, CountsRow, Settles, Outcomes
    <3> QED
      BY <3>1, <3>2
  <2>3. CASE Answers(f) \/ Locates(f) \/ Agrees(f) \/ CountsRow(f) \/ Settles(f)
    BY <1>1, <2>3 DEF Answers, Locates, Agrees, CountsRow, Settles, DeletesForm, DelaysForm, Throws, Ends, Quiet, book
  <2>4. CASE MakesRow(f) \/ RemovesRow(f)
    BY <1>0, <2>1, <2>2, <2>4, CalledIds DEF MakesRow, RemovesRow, Writes
  <2>5. CASE ChangesRow(f)
    BY <2>1, <2>2, <2>5, CalledIds DEF ChangesRow, Writes, AllInv, GoneInv
  <2>6. CASE FillsRow(f)
    BY <2>1, <2>2, <2>6, CalledIds DEF FillsRow, Writes, AllInv, GoneInv
  <2> QED
    BY <1>2, <2>3, <2>4, <2>5, <2>6 DEF HandlerStep
<1>3. ASSUME NEW f \in Forms, Handler(f) \/ Fail(f)
      PROVE  GoneInv'
  <2>1. CASE Fail(f)
    BY <1>1, <2>1 DEF Fail, Ends, book
  <2>2. CASE Handler(f)
    BY <1>2, <2>2, ExcelHandles, GoogleHandles DEF Handler, AllInv
  <2> QED
    BY <1>3, <2>1, <2>2
<1>4. ASSUME NEW f \in Forms, NEW type \in FormSyncType, NEW rec \in Records, NEW known \in BOOLEAN,
             Submit(f, type, rec, known)
      PROVE  GoneInv'
  BY <1>1, <1>4 DEF Submit, book
<1>5. Processor => GoneInv'
  BY <1>1 DEF Processor, ExcelRespectMetadataProcessor, GoogleRespectMetadataProcessor, TakesJob, book
<1>6. Refresh \/ RefreshThrows => GoneInv'
  BY <1>1 DEF RefreshKeeps, Refresh, ExcelRefresh, GoogleRefresh, ExcelUpdateMetadata, ExcelMetadataService,
       ExcelUpdateMetadataProcessor, GoogleUpdateMetadata, GoogleMetadataService,
       GoogleUpdateMetadataProcessor, ExcelReadsTag, ExcelStamps, PostFails, Downloads, Uploads,
       FindsDelayed, AddsJobs, RefreshThrows
<1>7. CASE UserInsertsRow \/ UserDeletesRow \/ UserChangesIdColumn \/ DeleteSource
  <2>1. KeepsIds(sheet, sheet')
    BY <1>7, EditedIds
  <2>2. CASE UserChangesIdColumn
    BY <2>2, ColumnGone
  <2>3. CASE idColumn' = idColumn
    BY <1>0, <2>1, <2>3
  <2> QED
    BY <1>7, <2>2, <2>3 DEF UserInsertsRow, UserDeletesRow, DeleteSource, book
<1> QED
  BY <1>3, <1>4, <1>5, <1>6, <1>7 DEF Next

\* At first nothing is asked, and each record of the sheet has one row.
LEMMA InitialAll == Init => AllInv
<1> SUFFICES ASSUME Init
             PROVE  AllInv
  OBVIOUS
<1>1. FormInv
  BY InitialRows
<1>2. /\ Cardinality(Initial) \in Nat
      /\ SetToSeq(Initial) \in [1 .. Cardinality(Initial) -> Initial] /\ IsInjective(SetToSeq(Initial))
  <2>1. \E s \in [1 .. Cardinality(Initial) -> Initial] : IsInjective(s)
    BY FS_CardinalityType, FormStoreAssumption DEF ExistsBijection, Bijection, Injection
  <2> QED
    BY <2>1, FS_CardinalityType, FormStoreAssumption DEF SetToSeq
<1>3. /\ DOMAIN sheet = DOMAIN SetToSeq(Initial)
      /\ \A p \in DOMAIN sheet : sheet[p].id = SetToSeq(Initial)[p]
  BY DEF Init, FormInit
<1>4. \A r \in Records : One(sheet, r)
  BY <1>2, <1>3 DEF One, IsInjective
<1>5. \A f \in Forms : None(sheet, f)
  BY <1>2, <1>3, FormStoreAssumption DEF None
<1>6. \A f \in Forms : run[f] = Idle /\ form[f] = NoForm
  BY DEF Init, FormInit
<1>7. Waiting = {}
  BY DEF Waiting, ToSet, Init, FormInit, Still
<1>8. StoreInv
  BY FS_EmptySet, FormStoreAssumption DEF StoreInv, Init, FormInit, Still
<1>9. JobsInv
  <2>1. saved = {}
    BY DEF Init, FormInit
  <2> QED
    BY <1>6, <1>7, <2>1 DEF JobsInv, Idle, Running
<1>10. IdsInv
  BY <1>4, <1>5 DEF IdsInv
<1>11. TagInv /\ GoneInv
  BY DEF TagInv, GoneInv, Init, FormInit, Still
<1> QED
  BY <1>1, <1>8, <1>9, <1>10, <1>11 DEF AllInv

\* The invariant is kept by every step.
LEMMA AllKept ==
  ASSUME AllInv, [Next]_vars
  PROVE  AllInv'
<1>0. CASE UNCHANGED vars
  BY <1>0 DEF AllInv, FormInv, TypesInv, RowsInv, HasRow, OnRow, StoreInv, JobsInv, Asked, Waiting, Running,
         IdsInv, Wrote, TagInv, GoneInv, Exact, vars, store
<1> SUFFICES ASSUME Next
             PROVE  AllInv'
  BY <1>0
<1>1. FormInv /\ FormInv'
  BY RowsFollowed DEF AllInv
<1>2. ASSUME NEW f \in Forms, HandlerStep(f) \/ Fail(f)
      PROVE  StoreInv' /\ JobsInv' /\ IdsInv' /\ TagInv'
  <2>1. CASE Settles(f) \/ Fail(f)
    BY <2>1, EndKeeps
  <2>2. CASE HandlerStep(f) /\ ~Settles(f)
    BY <1>1, <2>2, GoingOn, GoesOnKeeps, GoesOnIds
  <2> QED
    BY <1>2, <2>1, <2>2
<1>3. ASSUME NEW f \in Forms, Handler(f) \/ Fail(f)
      PROVE  StoreInv' /\ JobsInv' /\ IdsInv' /\ TagInv'
  BY <1>1, <1>2, <1>3, ExcelHandles, GoogleHandles DEF Handler
<1>4. ASSUME NEW f \in Forms, NEW type \in FormSyncType, NEW rec \in Records, NEW known \in BOOLEAN,
             Submit(f, type, rec, known)
      PROVE  StoreInv' /\ JobsInv' /\ IdsInv' /\ TagInv'
  BY <1>4, SubmitKeeps
<1>5. Processor => StoreInv' /\ JobsInv' /\ IdsInv' /\ TagInv'
  BY JobKeeps DEF Processor, ExcelRespectMetadataProcessor, GoogleRespectMetadataProcessor
<1>6. StoreInv' /\ JobsInv' /\ IdsInv' /\ TagInv'
  BY <1>3, <1>4, <1>5, RefreshSteps, OthersKeep DEF Next
<1>7. GoneInv'
  BY StaysGone
<1> QED
  BY <1>1, <1>6, <1>7 DEF AllInv

LEMMA FormsFollowed == Spec => []AllInv
  BY InitialAll, AllKept, PTL DEF Spec

\* Every variable keeps its type: no request is delayed without its row in the
\* database, and the queue holds requests only, however refreshes, the
\* processor and the handlers interleave.
THEOREM FormTypes == Spec => []TypeOK
<1>1. AllInv => TypeOK
  <2> SUFFICES ASSUME AllInv
               PROVE  TypeOK
    OBVIOUS
  <2>1. refresh.step \in {"idle", "download", "upload", "stamp", "find", "add"}
    BY DEF AllInv, FormInv, TypesInv, Refreshes
  <2> QED
    BY <2>1 DEF TypeOK, AllInv, FormInv, TypesInv, StoreInv, Runs, Row
<1> QED
  BY <1>1, FormsFollowed, PTL

\* While no call has failed no record is inserted twice: a request is not run
\* again once its handler has written its row, though it is delayed, found by
\* refreshes and queued meanwhile.
THEOREM InsertedOnceAlways == Spec => []InsertedOnce
<1>1. AllInv => InsertedOnce
  <2> SUFFICES ASSUME AllInv, fails = 0, NEW f \in Forms
               PROVE  Cardinality({p \in DOMAIN sheet : sheet[p].id = f}) <= 1
    BY DEF InsertedOnce
  <2> DEFINE rows == {p \in DOMAIN sheet : sheet[p].id = f}
  <2>1. \A p, q \in rows : p = q
    BY DEF AllInv, IdsInv, One, Records
  <2>2. rows = {} \/ \E p : rows = {p}
    BY <2>1, Zenon
  <2> HIDE DEF rows
  <2>3. Cardinality(rows) \in {0, 1}
    BY <2>2, FS_EmptySet, FS_Singleton
  <2> QED
    BY <2>3 DEF rows
<1> QED
  BY <1>1, FormsFollowed, PTL

\* A refresh left out for an unchanged cTag leaves nothing out: while no call
\* has failed the positions under that tag are those of the sheet, whatever
\* moves rows between the refresh's reading of the tag, its download, its upload
\* and its stamp.
THEOREM PositionsStayExact == Spec => []PositionsExact
<1>1. AllInv => PositionsExact
  BY DEF AllInv, TagInv, Exact, PositionsExact
<1> QED
  BY <1>1, FormsFollowed, PTL
=============================================================================
