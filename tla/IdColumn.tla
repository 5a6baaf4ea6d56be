------------------------------ MODULE IdColumn ------------------------------
(***************************************************************************)
(* The id column a downloader keeps in the user's sheet: which ids of the  *)
(* downloaded rows are kept, which rows get a new one, and the batches in  *)
(* which the new ids are written back, addressed by row number.            *)
(*                                                                         *)
(* Row numbers are those of the sheet: the header is row 1, the i-th row   *)
(* of data is row i + 1. A cell of the id column is a number: 0 if it is   *)
(* empty, Invalid if it holds something that is not a UUID, else an id.    *)
(***************************************************************************)
EXTENDS Naturals, Sequences, SequencesExt, FiniteSets

CONSTANTS
  MaxIds,          \* bound: ids that are ever generated
  MaxBatchSize     \* MAX_BATCH_SIZE, the header counted

ASSUME IdColumnAssumption ==
  /\ MaxIds \in Nat \ {0}
  /\ MaxBatchSize \in Nat \ {0}

Ids == 1 .. MaxIds
NoId == 0
Invalid == MaxIds + 1
IdCells == 0 .. MaxIds + 1

-----------------------------------------------------------------------------
(* find-and-fix-id-col                                                     *)

\* Row i keeps its id: it is a UUID, and no row before has the same one.
KeepsId(ids, i) == ids[i] \in Ids /\ \A j \in 1 .. i - 1 : ids[j] # ids[i]

Replaced(ids) == {i \in DOMAIN ids : ~KeepsId(ids, i)}

\* A faulty generator: the new id is derived from the place of the row.
FixedIdsByPlace(ids, next) ==
  [i \in DOMAIN ids |->
     IF KeepsId(ids, i) THEN ids[i]
     ELSE CHOOSE n \in i .. MaxIds : \A j \in DOMAIN ids : ids[j] # n]

\* The others get new ids, unlike any other; the first new one is next.
FixedIds(ids, next) ==
  [i \in DOMAIN ids |->
     IF KeepsId(ids, i) THEN ids[i]
     ELSE next + Cardinality({j \in Replaced(ids) : j < i})]

-----------------------------------------------------------------------------
(* update-id-column: generateUpdateIdData                                  *)

\* A faulty start, as without a header: the batch is empty and begins at row 2.
StartWithoutHeader == [saved |-> << >>, batch |-> << >>, first |-> 2, last |-> 2]

\* The loop's state: the batches saved so far by their first rows, the batch
\* being made, its first row, and the row number read last.
StartOfBatches == [saved |-> << >>, batch |-> <<Invalid>>, first |-> 1, last |-> 1]

Save(b) ==
  [r \in {b.first} \cup DOMAIN b.saved |-> IF r = b.first THEN b.batch ELSE b.saved[r]]

\* One record of the file of new ids: it continues the batch if it is the next
\* row and there is room, or begins a new one.
ReadRecord(b, record) ==
  IF b.last + 1 = record.row /\ Len(b.batch) < MaxBatchSize
  THEN [b EXCEPT !.batch = Append(@, record.id), !.last = record.row]
  ELSE [saved |-> Save(b), batch |-> <<record.id>>, first |-> record.row, last |-> record.row]

\* The batches to write, after all the records of the file of new ids were read:
\* there is one for each replaced row, in order, with its row number. The header
\* is always written: the script passes the flag and its value as two arguments,
\* which sets a Boolean flag whatever the value is; its cell is written as
\* Invalid, it is not an id.
Batches(ids, fixed) ==
  LET read[i \in 0 .. Len(ids)] ==
        IF i = 0 THEN StartOfBatches
        ELSE IF i \in Replaced(ids)
        THEN ReadRecord(read[i - 1], [id |-> fixed[i], row |-> i + 1])
        ELSE read[i - 1]
  IN Save(read[Len(ids)])
=============================================================================
