---------------------------- MODULE RowSyncProofs ---------------------------
(***************************************************************************)
(* Theorems about RowSync, for sheets of any size, any number of syncs and *)
(* edits and batches of any size.                                          *)
(*                                                                         *)
(* First the operators, one by one: the difference of two versions and its *)
(* load (LoadShows), the loop that cuts the batches of ids (BatchesWrite,  *)
(* by the invariant LoopInv of the loop), the ids that are kept and given  *)
(* (Fixed), the rows that are read and written (TrimmedRows, WrittenSheet) *)
(* and the user's edits (each makes an Edited sheet). Then each action is  *)
(* summed up in a predicate (UserDid, UploadDid, UploadFailed) that says   *)
(* what the invariants need of it.                                         *)
(*                                                                         *)
(* RowsInv is inductive; the other invariants are inductive with it:       *)
(* NestedInv for what the table shows, IdsInv for the ids, ReachInv for    *)
(* the rows the ids are written to.                                        *)
(***************************************************************************)
EXTENDS RowSync, FiniteSetTheorems, SequenceTheorems, WellFoundedInduction, TLAPS

\* A downloaded snapshot: finitely many fields.
IsDownloaded(s) == FieldsOf(s) \in SUBSET Nat /\ IsFiniteSet(FieldsOf(s))

\* Between the versions fields were only added or only removed.
Nested(p, c) == FieldsOf(p) \subseteq FieldsOf(c) \/ FieldsOf(c) \subseteq FieldsOf(p)

\* No cell is the default of a type, as which assumeNotNull hashes an empty one.
NoDefaults(s) == \A id \in IdsOf(s), f \in FieldsOf(s) : s.rows[id][f] # "0"

-----------------------------------------------------------------------------
(* The order of the fields                                                 *)

LEMMA FieldAtOnto ==
  ASSUME NEW F \in SUBSET Nat, IsFiniteSet(F), NEW f \in F
  PROVE  \E i \in 1 .. Cardinality(F) : f = FieldAt(F, i)
<1> DEFINE Below(x) == {g \in F : g < x}
<1>1. \A x \in F : /\ IsFiniteSet(Below(x))
                   /\ Cardinality(Below(x)) \in Nat
                   /\ Cardinality(Below(x)) < Cardinality(F)
  <2> TAKE x \in F
  <2>1. Below(x) \subseteq F /\ x \notin Below(x)
    OBVIOUS
  <2>2. IsFiniteSet(Below(x)) /\ Cardinality(Below(x)) <= Cardinality(F)
        /\ (Cardinality(F) = Cardinality(Below(x)) => F = Below(x))
    BY <2>1, FS_Subset, FS_CardinalityType
  <2>3. Cardinality(Below(x)) \in Nat /\ Cardinality(F) \in Nat
    BY <2>2, FS_CardinalityType
  <2> QED BY <2>1, <2>2, <2>3
<1>2. \A x, y \in F : x < y => Cardinality(Below(x)) < Cardinality(Below(y))
  <2> SUFFICES ASSUME NEW x \in F, NEW y \in F, x < y
               PROVE  Cardinality(Below(x)) < Cardinality(Below(y))
    OBVIOUS
  <2>0. \A g \in F : g < x => g < y
    OBVIOUS
  <2>1. Below(x) \subseteq Below(y) /\ x \in Below(y) /\ x \notin Below(x)
    <3>1. Below(x) \subseteq Below(y)
      BY <2>0
    <3>2. ~(x < x)
      OBVIOUS
    <3> QED BY <3>1, <3>2
  <2>2. Cardinality(Below(x)) <= Cardinality(Below(y))
        /\ (Cardinality(Below(y)) = Cardinality(Below(x)) => Below(y) = Below(x))
    BY <1>1, <2>1, FS_Subset
  <2>3. Cardinality(Below(x)) \in Nat /\ Cardinality(Below(y)) \in Nat
    BY <1>1
  <2> HIDE DEF Below
  <2> QED BY <2>1, <2>2, <2>3
<1> DEFINE i == Cardinality(Below(f)) + 1
<1>3. i \in 1 .. Cardinality(F)
  <2>1. Cardinality(F) \in Nat
    BY FS_CardinalityType
  <2> QED BY <1>1, <2>1
<1>4. \A h \in F : Cardinality(Below(h)) = i - 1 => h = f
  <2> SUFFICES ASSUME NEW h \in F, Cardinality(Below(h)) = i - 1 PROVE h = f
    OBVIOUS
  <2>1. Cardinality(Below(h)) = Cardinality(Below(f))
    BY <1>1
  <2>2. ~(h < f) /\ ~(f < h)
    <3> HIDE DEF Below
    <3> QED BY <1>1, <1>2, <2>1
  <2> QED BY <2>2
<1>5. Cardinality(Below(f)) = i - 1
  BY <1>1
<1>6. FieldAt(F, i) = f
  BY <1>4, <1>5 DEF FieldAt
<1> QED BY <1>3, <1>6

LEMMA NestedSameSize ==
  ASSUME NEW F, NEW G, IsFiniteSet(F), IsFiniteSet(G), F \subseteq G \/ G \subseteq F,
         Cardinality(F) = Cardinality(G)
  PROVE  F = G
  BY FS_Subset

-----------------------------------------------------------------------------
(* The difference misses nothing                                           *)

\* Rows with the same hash agree field by field.
LEMMA SameHash ==
  ASSUME NEW p, NEW c, NEW id, IsDownloaded(p), IsDownloaded(c), Nested(p, c),
         RowHash(p, id) = RowHash(c, id)
  PROVE  /\ FieldsOf(p) = FieldsOf(c)
         /\ \A f \in FieldsOf(c) : AssumeNotNull(p, id, f) = AssumeNotNull(c, id, f)
<1> DEFINE F == FieldsOf(p)
           G == FieldsOf(c)
<1>1. DOMAIN RowHash(p, id) = 1 .. Cardinality(F) /\ DOMAIN RowHash(c, id) = 1 .. Cardinality(G)
  BY DEF RowHash
<1>2. Cardinality(F) \in Nat /\ Cardinality(G) \in Nat
  BY FS_CardinalityType DEF IsDownloaded
<1>3. Cardinality(F) = Cardinality(G)
  <2> DEFINE m == Cardinality(F)
             n == Cardinality(G)
  <2>1. 1 .. m = 1 .. n
    BY <1>1
  <2>2. m \in Nat /\ n \in Nat
    BY <1>2
  <2> HIDE DEF m, n
  <2>3. m = n
    BY <2>1, <2>2
  <2> QED BY <2>3 DEF m, n
<1>4. F = G
  BY <1>3, NestedSameSize DEF IsDownloaded, Nested
<1>5. ASSUME NEW f \in G PROVE AssumeNotNull(p, id, f) = AssumeNotNull(c, id, f)
  <2>1. PICK i \in 1 .. Cardinality(G) : f = FieldAt(G, i)
    BY FieldAtOnto DEF IsDownloaded
  <2>2. RowHash(p, id)[i] = AssumeNotNull(p, id, FieldAt(F, i))
    BY <1>3, <2>1 DEF RowHash
  <2>3. RowHash(c, id)[i] = AssumeNotNull(c, id, FieldAt(G, i))
    BY <2>1 DEF RowHash
  <2> QED BY <1>4, <2>1, <2>2, <2>3
<1> QED BY <1>4, <1>5

\* A cell that is no default and is hashed as before has the value it had.
LEMMA SameValue ==
  ASSUME NEW p, NEW c, NEW id \in IdsOf(p) \cap IdsOf(c), NEW f \in KeptFields(p, c),
         NoDefaults(p), NoDefaults(c),
         AssumeNotNull(p, id, f) = AssumeNotNull(c, id, f)
  PROVE  Value(p, id, f) = Value(c, id, f)
<1>1. p.rows[id][f] # "0" /\ c.rows[id][f] # "0"
  BY DEF NoDefaults, KeptFields
<1> DEFINE x == p.rows[id][f]
           y == c.rows[id][f]
<1>2. CASE x = Blank /\ y = Blank
  BY <1>2 DEF Value
<1>3. CASE x # Blank /\ y # Blank
  BY <1>3 DEF AssumeNotNull
<1>4. CASE x = Blank /\ y # Blank
  BY <1>1, <1>4 DEF AssumeNotNull, Value, Blank
<1>5. CASE x # Blank /\ y = Blank
  BY <1>1, <1>5 DEF AssumeNotNull, Value, Blank
<1> QED BY <1>2, <1>3, <1>4, <1>5

\* Of a row in both versions, what is neither sent nor set to null did not change.
LEMMA UnsentUnchanged ==
  ASSUME NEW p, NEW c, IsDownloaded(p), IsDownloaded(c), Nested(p, c),
         NoDefaults(p), NoDefaults(c),
         NEW id \in IdsOf(p) \cap IdsOf(c),
         NEW f \in FieldsOf(c), f \notin Sent(p, c, id), f \notin Nulled(p, c, id)
  PROVE  f \in FieldsOf(p) /\ Value(p, id, f) = Value(c, id, f)
<1>1. f \in KeptFields(p, c) /\ f \notin Updated(p, c, id)
  BY DEF Sent, AddedIds, AddedFields, KeptFields
<1>2. CASE id \notin ChangedIds(p, c)
  <2>1. RowHash(p, id) = RowHash(c, id)
    BY <1>2 DEF ChangedIds
  <2>2. AssumeNotNull(p, id, f) = AssumeNotNull(c, id, f)
    BY <2>1, SameHash
  <2> QED BY <1>1, <2>2, SameValue DEF KeptFields
<1>3. CASE id \in ChangedIds(p, c) /\ c.rows[id][f] = Blank
  <2>1. p.rows[id][f] = Blank
    BY <1>1, <1>3 DEF Nulled
  <2> QED BY <1>1, <1>3, <2>1 DEF Value, KeptFields
<1>4. CASE id \in ChangedIds(p, c) /\ c.rows[id][f] # Blank
  <2>1. AssumeNotNull(p, id, f) = AssumeNotNull(c, id, f)
    BY <1>1, <1>4 DEF Updated
  <2> QED BY <1>1, <2>1, SameValue DEF KeptFields
<1> QED BY <1>2, <1>3, <1>4

-----------------------------------------------------------------------------
(* The load                                                                *)

\* The visible rows after a load.
LEMMA LoadedIds ==
  ASSUME NEW t, NEW p, NEW c, {id \in DOMAIN t : ~t[id].deleted} = IdsOf(p),
         Conflicting(t, p, c) = {}
  PROVE  /\ {id \in DOMAIN Loaded(t, p, c) : ~Loaded(t, p, c)[id].deleted} = IdsOf(c)
         /\ DOMAIN Loaded(t, p, c) = DOMAIN t \cup AddedIds(p, c)
         /\ \A id \in DOMAIN Loaded(t, p, c) : Loaded(t, p, c)[id].deleted =>
              \/ id \in DOMAIN t /\ t[id].deleted
              \/ id \in DeletedIds(p, c)
<1> DEFINE after == Loaded(t, p, c)
<1>1. DOMAIN after = DOMAIN t \cup AddedIds(p, c)
  BY DEF Loaded
<1>2. \A id \in AddedIds(p, c) : ~after[id].deleted
  BY DEF Loaded, Inserted
<1>3. \A id \in DOMAIN t : after[id].deleted <=> t[id].deleted \/ id \in DeletedIds(p, c)
  BY DEF Loaded, LoadedRow, Conflicting
<1>4. IdsOf(p) \subseteq DOMAIN t /\ \A id \in DOMAIN t : id \in IdsOf(p) <=> ~t[id].deleted
  OBVIOUS
<1> HIDE DEF after
<1>5. ASSUME NEW id \in DOMAIN after PROVE ~after[id].deleted <=> id \in IdsOf(c)
  BY <1>1, <1>2, <1>3, <1>4, <1>5 DEF AddedIds, DeletedIds, Conflicting
<1>6. IdsOf(c) \subseteq DOMAIN after
  BY <1>1, <1>4 DEF AddedIds
<1> QED BY <1>1, <1>2, <1>3, <1>5, <1>6 DEF after

\* The data of a row in both versions after a load.
LEMMA LoadedValues ==
  ASSUME NEW p, NEW c, IsDownloaded(p), IsDownloaded(c), Nested(p, c),
         NoDefaults(p), NoDefaults(c),
         NEW id \in IdsOf(p) \cap IdsOf(c)
  PROVE  LoadedData(p, c, id, [f \in FieldsOf(p) |-> Value(p, id, f)])
           = [f \in FieldsOf(c) |-> Value(c, id, f)]
<1> DEFINE data == [f \in FieldsOf(p) |-> Value(p, id, f)]
<1>1. (DOMAIN data \ DeletedFields(p, c)) \cup Sent(p, c, id) = FieldsOf(c)
  BY DEF DeletedFields, Sent, AddedIds, AddedFields, Updated, KeptFields
<1>2. ASSUME NEW f \in FieldsOf(c)
      PROVE  (IF f \in Sent(p, c, id) THEN Value(c, id, f)
              ELSE IF f \in Nulled(p, c, id) THEN Null
              ELSE data[f]) = Value(c, id, f)
  <2>1. CASE f \in Sent(p, c, id)
    BY <2>1
  <2>2. CASE f \notin Sent(p, c, id) /\ f \in Nulled(p, c, id)
    BY <2>2 DEF Nulled, Value
  <2>3. CASE f \notin Sent(p, c, id) /\ f \notin Nulled(p, c, id)
    <3>1. f \in FieldsOf(p) /\ Value(p, id, f) = Value(c, id, f)
      BY <2>3, UnsentUnchanged
    <3> QED BY <2>3, <3>1
  <2> QED BY <2>1, <2>2, <2>3
<1> QED BY <1>1, <1>2 DEF LoadedData

\* A load of c, made as the difference from p, on a table that shows p makes it
\* show c: the rows and fields the comparer finds by hashes and the loader's
\* statements apply one by one are all that changed. It needs that fields were
\* only added or only removed and that no cell is the default of its type.
THEOREM LoadShows ==
  ASSUME NEW t, NEW p, NEW c, IsDownloaded(p), IsDownloaded(c), Nested(p, c),
         NoDefaults(p), NoDefaults(c),
         Shows(t, p), Conflicting(t, p, c) = {}
  PROVE  Shows(Loaded(t, p, c), c)
<1>1. {id \in DOMAIN Loaded(t, p, c) : ~Loaded(t, p, c)[id].deleted} = IdsOf(c)
  <2>1. {id \in DOMAIN t : ~t[id].deleted} = IdsOf(p)
    BY DEF Shows
  <2> QED BY <2>1, LoadedIds
<1>2. ASSUME NEW id \in IdsOf(c)
      PROVE  Loaded(t, p, c)[id].data = [f \in FieldsOf(c) |-> Value(c, id, f)]
  <2>1. CASE id \in AddedIds(p, c)
    BY <2>1 DEF Loaded, Inserted
  <2>2. CASE id \notin AddedIds(p, c)
    <3>1. id \in IdsOf(p) \cap IdsOf(c)
      BY <2>2 DEF AddedIds
    <3>2. id \in DOMAIN t /\ t[id].data = [f \in FieldsOf(p) |-> Value(p, id, f)]
      BY <3>1 DEF Shows
    <3>3. Loaded(t, p, c)[id].data = LoadedData(p, c, id, t[id].data)
      BY <2>2, <3>2 DEF Loaded, LoadedRow
    <3> QED BY <3>1, <3>2, <3>3, LoadedValues
  <2> QED BY <2>1, <2>2
<1> QED BY <1>1, <1>2 DEF Shows
-----------------------------------------------------------------------------
(* Numbers                                                                 *)

\* A set of numbers has a least one.
LEMMA Least ==
  ASSUME NEW S \in SUBSET Nat, S # {}
  PROVE  \E m \in S : \A x \in S : m <= x
<1>1. PICK m \in S : \A x \in S : ~ (<<x, m>> \in OpToRel(<, Nat))
  BY WFMin, NatLessThanWellFounded, Zenon
<1>2. ASSUME NEW x \in S PROVE m <= x
  <2>1. m \in Nat /\ x \in Nat
    OBVIOUS
  <2>2. x < m => <<x, m>> \in OpToRel(<, Nat)
    BY <2>1 DEF OpToRel
  <2>3. ~ (x < m)
    BY <1>1, <2>2, Zenon
  <2> QED
    BY <2>1, <2>3
<1> QED
  BY <1>2

\* Induction, for a set.
LEMMA AllNumbers ==
  ASSUME NEW S \in SUBSET Nat, 0 \in S, \A n \in S : n + 1 \in S
  PROVE  S = Nat
<1> SUFFICES ASSUME Nat \ S # {} PROVE FALSE
  OBVIOUS
<1>1. PICK m \in Nat \ S : \A x \in Nat \ S : m <= x
  BY Least
<1>2. m - 1 \in Nat /\ ~ (m <= m - 1)
  BY <1>1
<1>3. m - 1 \in S
  BY <1>1, <1>2
<1> QED
  BY <1>1, <1>3

\* A set of numbers with a bound has a greatest one.
LEMMA Greatest ==
  ASSUME NEW n \in Nat, NEW S \in SUBSET (0 .. n), S # {}
  PROVE  Max(S) \in S /\ \A x \in S : x <= Max(S)
<1> DEFINE Below == {n - x : x \in S}
<1>1. \A x \in S : x \in Nat /\ n - x \in Nat
  OBVIOUS
<1>2. Below \subseteq Nat /\ Below # {}
  BY <1>1, Zenon
<1>3. PICK least \in Below : \A y \in Below : least <= y
  <2> HIDE DEF Below
  <2> QED
    BY <1>2, Least
<1>4. PICK m \in S : least = n - m
  OBVIOUS
<1>5. ASSUME NEW x \in S PROVE x <= m
  <2>1. n - m <= n - x
    BY <1>3, <1>4
  <2>2. m \in 0 .. n /\ x \in 0 .. n
    OBVIOUS
  <2> HIDE DEF Below
  <2> QED
    BY <2>1, <2>2, Z3
<1>6. \E x \in S : \A y \in S : x >= y
  BY <1>5
<1> HIDE DEF Below
<1>7. Max(S) \in S /\ \A y \in S : Max(S) >= y
  BY <1>6 DEF Max
<1> QED
  BY <1>7

-----------------------------------------------------------------------------
(* The batches of ids                                                      *)

\* The loop: what was read after i rows.
LEMMA Reading ==
  ASSUME NEW ids, Len(ids) \in Nat, NEW fixed
  PROVE  \E read :
           /\ Batches(ids, fixed) = Save(read[Len(ids)])
           /\ read[0] = StartOfBatches
           /\ \A i \in 1 .. Len(ids) :
                read[i] = IF i \in Replaced(ids)
                          THEN ReadRecord(read[i - 1], [id |-> fixed[i], row |-> i + 1])
                          ELSE read[i - 1]
<1> DEFINE After(b, i) ==
             IF i \in Replaced(ids) THEN ReadRecord(b, [id |-> fixed[i], row |-> i + 1]) ELSE b
           Is(g, n) == g = [i \in 0 .. n |-> IF i = 0 THEN StartOfBatches ELSE After(g[i - 1], i)]
           Good == {n \in Nat : \E g : Is(g, n)}
<1>1. 0 \in Good
  <2>1. Is([i \in 0 .. 0 |-> StartOfBatches], 0)
    OBVIOUS
  <2> HIDE DEF After, Is
  <2> QED
    BY <2>1
<1>2. ASSUME NEW n \in Good PROVE n + 1 \in Good
  <2>1. PICK g : Is(g, n)
    OBVIOUS
  <2> DEFINE h == [i \in 0 .. n + 1 |-> IF i = n + 1 THEN After(g[n], n + 1) ELSE g[i]]
  <2> HIDE DEF After
  <2>2. ASSUME NEW i \in 0 .. n + 1
        PROVE  h[i] = IF i = 0 THEN StartOfBatches ELSE After(h[i - 1], i)
    <3>1. CASE i = 0
      BY <2>1, <3>1
    <3>2. CASE i = n + 1
      BY <3>2
    <3>3. CASE i \in 1 .. n
      BY <2>1, <3>3
    <3> QED
      BY <3>1, <3>2, <3>3
  <2>3. Is(h, n + 1)
    BY <2>2
  <2> HIDE DEF After, Is
  <2> QED
    BY <2>3
<1>3. Good = Nat
  <2> HIDE DEF Good
  <2> QED
    BY <1>1, <1>2, AllNumbers DEF Good
<1> DEFINE read == CHOOSE g : Is(g, Len(ids))
<1>4. Is(read, Len(ids))
  <2>1. \E g : Is(g, Len(ids))
    BY <1>3
  <2> HIDE DEF After, Is
  <2> QED
    BY <2>1, Zenon
<1>5. Batches(ids, fixed) = Save(read[Len(ids)])
  BY Zenon DEF Batches
<1> HIDE DEF read, After
<1>6. read[0] = StartOfBatches /\ \A i \in 1 .. Len(ids) : read[i] = After(read[i - 1], i)
  BY <1>4
<1> QED
  BY <1>5, <1>6 DEF After

\* What is to be written in the id column of row n.
CellFor(fixed, n) == IF n = 1 THEN Invalid ELSE fixed[n - 1]

\* The rows that are written when the first i rows of data were read.
WrittenRows(ids, i) == {1} \cup {j + 1 : j \in {k \in Replaced(ids) : k <= i}}

\* Batches write their rows, each what is for it, and no others.
WriteRows(batches, fixed, rows) ==
  /\ \A r \in DOMAIN batches : /\ r \in Nat \ {0}
                               /\ batches[r] \in Seq(IdCells)
                               /\ \A k \in 1 .. Len(batches[r]) :
                                    batches[r][k] = CellFor(fixed, r + k - 1)
  /\ RowsWritten(batches) = rows

\* What the loop keeps: the batch being made is the last, it has a row, and it ends
\* with the row read last.
LoopInv(b, ids, fixed, i) ==
  /\ b = [saved |-> b.saved, batch |-> b.batch, first |-> b.first, last |-> b.last]
  /\ b.first \in Nat \ {0}
  /\ b.batch \in Seq(IdCells) /\ Len(b.batch) >= 1
  /\ b.last = b.first + Len(b.batch) - 1
  /\ b.last <= i + 1
  /\ \A r \in DOMAIN b.saved : r < b.first
  /\ WriteRows(Save(b), fixed, WrittenRows(ids, i))

LEMMA Saved ==
  ASSUME NEW b
  PROVE  /\ DOMAIN Save(b) = {b.first} \cup DOMAIN b.saved
         /\ Save(b)[b.first] = b.batch
         /\ \A r \in DOMAIN b.saved : r # b.first => Save(b)[r] = b.saved[r]
BY DEF Save

LEMMA LoopStarts ==
  ASSUME NEW ids, NEW fixed, Replaced(ids) \subseteq Nat \ {0}
  PROVE  LoopInv(StartOfBatches, ids, fixed, 0)
<1> DEFINE w == Save(StartOfBatches)
<1>1. /\ StartOfBatches.first = 1 /\ StartOfBatches.last = 1
      /\ StartOfBatches.batch = <<Invalid>> /\ StartOfBatches.saved = << >>
      /\ DOMAIN StartOfBatches.saved = {}
  BY DEF StartOfBatches
<1>2. DOMAIN w = {1} /\ w[1] = <<Invalid>>
  BY <1>1, Saved
<1>3. Invalid \in IdCells
  BY IdColumnAssumption DEF Invalid, IdCells
<1> HIDE DEF w
<1>4. <<Invalid>> \in Seq(IdCells) /\ Len(<<Invalid>>) = 1 /\ <<Invalid>>[1] = Invalid
  BY <1>3
<1>5. RowsWritten(w) = {1}
  <2>1. RowsWritten(w) = 1 .. 1 + 1 - 1
    BY <1>2, <1>4 DEF RowsWritten
  <2> QED
    BY <2>1
<1>6. WrittenRows(ids, 0) = {1}
  BY DEF WrittenRows
<1>7. WriteRows(w, fixed, {1})
  <2>1. ASSUME NEW k \in 1 .. Len(<<Invalid>>)
        PROVE  <<Invalid>>[k] = CellFor(fixed, 1 + k - 1)
    <3>1. k = 1
      BY <1>4
    <3>2. 1 + 1 - 1 = 1
      OBVIOUS
    <3> QED
      BY <1>4, <3>1, <3>2 DEF CellFor
  <2> DEFINE s == <<Invalid>>
  <2>2. w[1] = s /\ s \in Seq(IdCells) /\ \A k \in 1 .. Len(s) : s[k] = CellFor(fixed, 1 + k - 1)
    BY <1>2, <1>4, <2>1
  <2> HIDE DEF s
  <2> QED
    BY <1>2, <1>5, <2>2 DEF WriteRows
<1> QED
  <2>1. StartOfBatches = [saved |-> StartOfBatches.saved, batch |-> StartOfBatches.batch,
                          first |-> StartOfBatches.first, last |-> StartOfBatches.last]
    BY DEF StartOfBatches
  <2>2. WriteRows(Save(StartOfBatches), fixed, WrittenRows(ids, 0))
    BY <1>6, <1>7 DEF w
  <2> DEFINE b == StartOfBatches
  <2>3. /\ b.batch \in Seq(IdCells) /\ Len(b.batch) = 1
        /\ b.first = 1 /\ b.last = 1 /\ b.saved = << >>
    BY <1>1, <1>4
  <2>4. b.last = b.first + Len(b.batch) - 1
    BY <2>3
  <2>5. \A r \in DOMAIN b.saved : r < b.first
    BY <1>1
  <2> HIDE DEF b
  <2> QED
    BY <2>1, <2>2, <2>3, <2>4, <2>5 DEF LoopInv, b

LEMMA NoRecord ==
  ASSUME NEW b, NEW ids, NEW fixed, NEW i \in Nat, i + 1 \notin Replaced(ids),
         Replaced(ids) \subseteq Nat \ {0}, LoopInv(b, ids, fixed, i)
  PROVE  LoopInv(b, ids, fixed, i + 1)
<1>1. \A k \in Replaced(ids) : k <= i + 1 <=> k <= i
  OBVIOUS
<1>2. WrittenRows(ids, i + 1) = WrittenRows(ids, i)
  BY <1>1 DEF WrittenRows
<1>3. b.last \in Int /\ b.last <= i + 1 + 1
  BY DEF LoopInv
<1> QED
  BY <1>2, <1>3 DEF LoopInv

\* One more row is written.
LEMMA OneMoreRow ==
  ASSUME NEW ids, NEW i \in Nat, i + 1 \in Replaced(ids), Replaced(ids) \subseteq Nat \ {0}
  PROVE  WrittenRows(ids, i + 1) = WrittenRows(ids, i) \cup {i + 2}
<1>1. \A k \in Replaced(ids) : k <= i + 1 <=> k <= i \/ k = i + 1
  OBVIOUS
<1>2. {k \in Replaced(ids) : k <= i + 1} = {k \in Replaced(ids) : k <= i} \cup {i + 1}
  BY <1>1
<1>3. (i + 1) + 1 = i + 2
  OBVIOUS
<1> QED
  BY <1>2, <1>3 DEF WrittenRows

\* The batch goes on.
LEMMA BatchGrows ==
  ASSUME NEW b, NEW ids, NEW fixed, NEW i \in Nat, i + 1 \in Replaced(ids),
         Replaced(ids) \subseteq Nat \ {0}, fixed[i + 1] \in IdCells,
         LoopInv(b, ids, fixed, i), b.last + 1 = i + 2,
         NEW c, c = [b EXCEPT !.batch = Append(@, fixed[i + 1]), !.last = i + 2]
  PROVE  LoopInv(c, ids, fixed, i + 1)
<1> DEFINE new == Append(b.batch, fixed[i + 1])
           n == Len(b.batch)
<1>1. c = [saved |-> b.saved, batch |-> new, first |-> b.first, last |-> i + 2]
  BY DEF LoopInv
<1>2. /\ c.saved = b.saved /\ c.batch = new /\ c.first = b.first /\ c.last = i + 2
      /\ c = [saved |-> c.saved, batch |-> c.batch, first |-> c.first, last |-> c.last]
  BY <1>1
<1>3. /\ b.first \in Nat \ {0} /\ b.batch \in Seq(IdCells) /\ n \in Nat /\ n >= 1
      /\ b.first + n = i + 2
  BY DEF LoopInv
<1>4. /\ new \in Seq(IdCells) /\ Len(new) = n + 1
      /\ \A k \in 1 .. n : new[k] = b.batch[k]
      /\ new[n + 1] = fixed[i + 1]
  BY <1>3
<1> DEFINE v == Save(b)
           w == Save(c)
<1>5. /\ DOMAIN w = DOMAIN v /\ b.first \in DOMAIN v
      /\ v[b.first] = b.batch /\ w[b.first] = new
      /\ \A r \in DOMAIN v : r # b.first => w[r] = v[r]
  <2>b. /\ DOMAIN v = {b.first} \cup DOMAIN b.saved
        /\ v[b.first] = b.batch
        /\ \A r \in DOMAIN b.saved : r # b.first => v[r] = b.saved[r]
    BY Saved
  <2>c. /\ DOMAIN w = {c.first} \cup DOMAIN c.saved
        /\ w[c.first] = c.batch
        /\ \A r \in DOMAIN c.saved : r # c.first => w[r] = c.saved[r]
    BY Saved
  <2> HIDE DEF v, w
  <2>1. DOMAIN w = DOMAIN v /\ b.first \in DOMAIN v /\ v[b.first] = b.batch /\ w[b.first] = new
    BY <1>2, <2>b, <2>c
  <2>2. ASSUME NEW r \in DOMAIN v, r # b.first PROVE w[r] = v[r]
    <3>1. r \in DOMAIN b.saved
      BY <2>2, <2>b
    <3> QED
      BY <1>2, <2>2, <3>1, <2>b, <2>c
  <2> QED
    BY <2>1, <2>2
<1>6. WriteRows(v, fixed, WrittenRows(ids, i))
  BY DEF LoopInv
<1> HIDE DEF new, v, w
<1>7. ASSUME NEW k \in 1 .. Len(new) PROVE new[k] = CellFor(fixed, b.first + k - 1)
  <2>1. CASE k \in 1 .. n
    BY <1>4, <1>5, <1>6, <2>1 DEF WriteRows
  <2>2. CASE k = n + 1
    <3>1. b.first + k - 1 = i + 2 /\ i + 2 # 1 /\ (i + 2) - 1 = i + 1
      BY <1>3, <2>2
    <3> QED
      BY <1>4, <2>2, <3>1 DEF CellFor
  <2> QED
    BY <1>3, <1>4, <2>1, <2>2
<1>8. RowsWritten(w) = RowsWritten(v) \cup {i + 2}
  <2>1. b.first .. b.first + Len(new) - 1 = (b.first .. b.first + Len(b.batch) - 1) \cup {i + 2}
    BY <1>3, <1>4
  <2>2. \A x : x \in RowsWritten(w) <=>
          \E r \in DOMAIN v : x \in r .. r + Len(w[r]) - 1
    BY <1>5, Zenon DEF RowsWritten
  <2>3. \A x : x \in RowsWritten(v) <=>
          \E r \in DOMAIN v : x \in r .. r + Len(v[r]) - 1
    BY Zenon DEF RowsWritten
  <2>4. ASSUME NEW x PROVE x \in RowsWritten(w) <=> x \in RowsWritten(v) \/ x = i + 2
    <3>1. ASSUME x \in RowsWritten(w) PROVE x \in RowsWritten(v) \/ x = i + 2
      <4>1. PICK r \in DOMAIN v : x \in r .. r + Len(w[r]) - 1
        BY <2>2, <3>1
      <4>2. CASE r = b.first
        <5>1. x \in b.first .. b.first + Len(new) - 1
          BY <1>5, <4>1, <4>2
        <5>2. x \in b.first .. b.first + Len(b.batch) - 1 \/ x = i + 2
          BY <2>1, <5>1, Zenon
        <5> QED
          BY <1>5, <2>3, <5>2, Zenon
      <4>3. CASE r # b.first
        BY <1>5, <2>3, <4>1, <4>3, Zenon
      <4> QED
        BY <4>2, <4>3
    <3>2. ASSUME x = i + 2 PROVE x \in RowsWritten(w)
      <4>1. x \in b.first .. b.first + Len(new) - 1
        BY <2>1, <3>2, Zenon
      <4> QED
        BY <1>5, <2>2, <4>1, Zenon
    <3>3. ASSUME x \in RowsWritten(v) PROVE x \in RowsWritten(w)
      <4>1. PICK r \in DOMAIN v : x \in r .. r + Len(v[r]) - 1
        BY <2>3, <3>3
      <4>2. CASE r = b.first
        <5>1. x \in b.first .. b.first + Len(new) - 1
          BY <1>5, <2>1, <4>1, <4>2, Zenon
        <5> QED
          BY <1>5, <2>2, <5>1, Zenon
      <4>3. CASE r # b.first
        BY <1>5, <2>2, <4>1, <4>3, Zenon
      <4> QED
        BY <4>2, <4>3
    <3> QED
      BY <3>1, <3>2, <3>3
  <2> QED
    BY <2>4, Zenon
<1>9. WriteRows(w, fixed, WrittenRows(ids, i + 1))
  <2>1. ASSUME NEW r \in DOMAIN w
        PROVE  /\ r \in Nat \ {0}
               /\ w[r] \in Seq(IdCells)
               /\ \A k \in 1 .. Len(w[r]) : w[r][k] = CellFor(fixed, r + k - 1)
    <3>1. CASE r = b.first
      BY <1>3, <1>4, <1>5, <1>7, <3>1
    <3>2. CASE r # b.first
      BY <1>5, <1>6, <3>2 DEF WriteRows
    <3> QED
      BY <3>1, <3>2
  <2>2. RowsWritten(w) = WrittenRows(ids, i + 1)
    BY <1>6, <1>8, OneMoreRow DEF WriteRows
  <2> QED
    BY <2>1, <2>2 DEF WriteRows
<1>10. \A r \in DOMAIN c.saved : r < c.first
  BY <1>2 DEF LoopInv
<1>11. c.last = c.first + Len(c.batch) - 1 /\ c.last <= i + 1 + 1
  BY <1>2, <1>3, <1>4
<1> QED
  BY <1>2, <1>3, <1>4, <1>9, <1>10, <1>11 DEF LoopInv, w

\* A new batch begins.
LEMMA BatchBegins ==
  ASSUME NEW b, NEW ids, NEW fixed, NEW i \in Nat, i + 1 \in Replaced(ids),
         Replaced(ids) \subseteq Nat \ {0}, fixed[i + 1] \in IdCells,
         LoopInv(b, ids, fixed, i),
         NEW c, c = [saved |-> Save(b), batch |-> <<fixed[i + 1]>>,
                     first |-> i + 2, last |-> i + 2]
  PROVE  LoopInv(c, ids, fixed, i + 1)
<1> DEFINE new == <<fixed[i + 1]>>
           v == Save(b)
           w == Save(c)
<1>1. /\ c.saved = v /\ c.batch = new /\ c.first = i + 2 /\ c.last = i + 2
      /\ c = [saved |-> c.saved, batch |-> c.batch, first |-> c.first, last |-> c.last]
  OBVIOUS
<1>2. new \in Seq(IdCells) /\ Len(new) = 1 /\ new[1] = fixed[i + 1]
  OBVIOUS
<1>3. \A r \in DOMAIN v : r \in Nat \ {0} /\ r < i + 2
  <2>1. /\ DOMAIN v = {b.first} \cup DOMAIN b.saved
        /\ v[b.first] = b.batch
        /\ \A r \in DOMAIN b.saved : r # b.first => v[r] = b.saved[r]
    BY Saved
  <2>2. \A r \in DOMAIN v : r \in Nat \ {0}
    BY DEF LoopInv, WriteRows
  <2>3. b.first \in Nat /\ b.first <= i + 1
    BY DEF LoopInv
  <2>4. \A r \in DOMAIN b.saved : r < b.first
    BY DEF LoopInv
  <2> HIDE DEF v
  <2> QED
    BY <2>1, <2>2, <2>3, <2>4
<1>4. DOMAIN w = {i + 2} \cup DOMAIN v /\ w[i + 2] = new /\ \A r \in DOMAIN v : w[r] = v[r]
  <2>1. /\ DOMAIN w = {c.first} \cup DOMAIN c.saved
        /\ w[c.first] = c.batch
        /\ \A r \in DOMAIN c.saved : r # c.first => w[r] = c.saved[r]
    BY Saved
  <2> HIDE DEF v, w, new
  <2> QED
    BY <1>1, <1>3, <2>1
<1>5. WriteRows(v, fixed, WrittenRows(ids, i))
  BY DEF LoopInv
<1> HIDE DEF new, v, w
<1>6. RowsWritten(w) = RowsWritten(v) \cup {i + 2}
  <2>1. i + 2 .. i + 2 + Len(new) - 1 = {i + 2}
    BY <1>2
  <2>2. \A x : x \in RowsWritten(w) <=>
          \E r \in DOMAIN w : x \in r .. r + Len(w[r]) - 1
    BY Zenon DEF RowsWritten
  <2>3. \A x : x \in RowsWritten(v) <=>
          \E r \in DOMAIN v : x \in r .. r + Len(v[r]) - 1
    BY Zenon DEF RowsWritten
  <2>4. ASSUME NEW x PROVE x \in RowsWritten(w) <=> x \in RowsWritten(v) \/ x = i + 2
    <3>1. ASSUME x \in RowsWritten(w) PROVE x \in RowsWritten(v) \/ x = i + 2
      <4>1. PICK r \in DOMAIN w : x \in r .. r + Len(w[r]) - 1
        BY <2>2, <3>1
      <4> QED
        BY <1>4, <2>1, <2>3, <4>1, Zenon
    <3>2. ASSUME x \in RowsWritten(v) \/ x = i + 2 PROVE x \in RowsWritten(w)
      BY <1>4, <2>1, <2>2, <2>3, <3>2, Zenon
    <3> QED
      BY <3>1, <3>2
  <2> QED
    BY <2>4, Zenon
<1>7. WriteRows(w, fixed, WrittenRows(ids, i + 1))
  <2>1. ASSUME NEW r \in DOMAIN w
        PROVE  /\ r \in Nat \ {0}
               /\ w[r] \in Seq(IdCells)
               /\ \A k \in 1 .. Len(w[r]) : w[r][k] = CellFor(fixed, r + k - 1)
    <3>1. CASE r = i + 2
      <4>1. \A k \in 1 .. 1 : k = 1
        OBVIOUS
      <4>2. (i + 2) + 1 - 1 # 1 /\ ((i + 2) + 1 - 1) - 1 = i + 1
        OBVIOUS
      <4>3. new[1] = CellFor(fixed, (i + 2) + 1 - 1)
        BY <1>2, <4>2 DEF CellFor
      <4>4. r \in Nat \ {0}
        BY <3>1
      <4> QED
        BY <1>2, <1>4, <3>1, <4>1, <4>3, <4>4
    <3>2. CASE r \in DOMAIN v
      BY <1>4, <1>5, <3>2 DEF WriteRows
    <3> QED
      BY <1>4, <3>1, <3>2
  <2>2. RowsWritten(w) = WrittenRows(ids, i + 1)
    BY <1>5, <1>6, OneMoreRow DEF WriteRows
  <2> QED
    BY <2>1, <2>2 DEF WriteRows
<1>8. \A r \in DOMAIN c.saved : r < c.first
  BY <1>1, <1>3
<1>9. c.last = c.first + Len(c.batch) - 1 /\ c.last <= i + 1 + 1 /\ c.first \in Nat \ {0}
  BY <1>1, <1>2
<1> QED
  BY <1>1, <1>2, <1>7, <1>8, <1>9 DEF LoopInv, w

\* The batches write exactly the header and the replaced rows, each its own id,
\* however they are cut.
LEMMA BatchesWrite ==
  ASSUME NEW ids, Len(ids) \in Nat, NEW fixed, Replaced(ids) \subseteq 1 .. Len(ids),
         \A i \in Replaced(ids) : fixed[i] \in IdCells
  PROVE  WriteRows(Batches(ids, fixed), fixed, {1} \cup {i + 1 : i \in Replaced(ids)})
<1>1. PICK read :
        /\ Batches(ids, fixed) = Save(read[Len(ids)])
        /\ read[0] = StartOfBatches
        /\ \A i \in 1 .. Len(ids) :
             read[i] = IF i \in Replaced(ids)
                       THEN ReadRecord(read[i - 1], [id |-> fixed[i], row |-> i + 1])
                       ELSE read[i - 1]
  BY Reading
<1>2. Replaced(ids) \subseteq Nat \ {0}
  OBVIOUS
<1> DEFINE Good == {i \in Nat : i <= Len(ids) => LoopInv(read[i], ids, fixed, i)}
<1>3. 0 \in Good
  BY <1>1, <1>2, LoopStarts
<1>4. ASSUME NEW i \in Good PROVE i + 1 \in Good
  <2> SUFFICES ASSUME i + 1 <= Len(ids) PROVE LoopInv(read[i + 1], ids, fixed, i + 1)
    OBVIOUS
  <2>1. i \in Nat /\ LoopInv(read[i], ids, fixed, i)
    OBVIOUS
  <2>2. i + 1 \in 1 .. Len(ids) /\ (i + 1) - 1 = i /\ (i + 1) + 1 = i + 2
    BY <2>1
  <2> DEFINE b == read[i]
             record == [id |-> fixed[i + 1], row |-> i + 2]
  <2>3. CASE i + 1 \notin Replaced(ids)
    <3>1. read[i + 1] = b
      BY <1>1, <2>2, <2>3
    <3> QED
      BY <1>2, <2>1, <2>3, <3>1, NoRecord
  <2>4. CASE i + 1 \in Replaced(ids)
    <3>1. read[i + 1] = ReadRecord(b, record)
      BY <1>1, <2>2, <2>4
    <3>2. fixed[i + 1] \in IdCells
      BY <2>4
    <3>3. record.row = i + 2 /\ record.id = fixed[i + 1]
      OBVIOUS
    <3> HIDE DEF Good, b, record
    <3>4. LoopInv(b, ids, fixed, i)
      BY <2>1 DEF b
    <3>5. CASE b.last + 1 = i + 2 /\ Len(b.batch) < MaxBatchSize
      <4>1. read[i + 1] = [b EXCEPT !.batch = Append(@, fixed[i + 1]), !.last = i + 2]
        BY <3>1, <3>3, <3>5 DEF ReadRecord
      <4> QED
        BY <1>2, <2>1, <2>4, <3>2, <3>4, <3>5, <4>1, BatchGrows
    <3>6. CASE ~ (b.last + 1 = i + 2 /\ Len(b.batch) < MaxBatchSize)
      <4>1. read[i + 1] = [saved |-> Save(b), batch |-> <<fixed[i + 1]>>,
                           first |-> i + 2, last |-> i + 2]
        BY <3>1, <3>3, <3>6 DEF ReadRecord
      <4> QED
        BY <1>2, <2>1, <2>4, <3>2, <3>4, <4>1, BatchBegins
    <3> QED
      BY <3>5, <3>6
  <2> QED
    BY <2>3, <2>4
<1>5. Good = Nat
  <2> HIDE DEF Good
  <2> QED
    BY <1>3, <1>4, AllNumbers DEF Good
<1>6. LoopInv(read[Len(ids)], ids, fixed, Len(ids))
  BY <1>5
<1>7. WrittenRows(ids, Len(ids)) = {1} \cup {i + 1 : i \in Replaced(ids)}
  <2>1. {k \in Replaced(ids) : k <= Len(ids)} = Replaced(ids)
    OBVIOUS
  <2> QED
    BY <2>1 DEF WrittenRows
<1> QED
  BY <1>1, <1>6, <1>7 DEF LoopInv

-----------------------------------------------------------------------------
(* The ids                                                                 *)

\* The ids of the rows; cells that are empty or hold something else are none.
IdsAt(rows) == Range(IdsIn(rows)) \cap Ids

\* A function on 1 .. n is a sequence.
LEMMA IsSequence ==
  ASSUME NEW n \in Nat, NEW S, NEW s \in [1 .. n -> S]
  PROVE  s \in Seq(S) /\ Len(s) = n /\ DOMAIN s = 1 .. n
<1>1. s \in Seq(S)
  BY SeqDef
<1>2. Len(s) \in Nat /\ 1 .. Len(s) = 1 .. n
  BY <1>1, LenProperties
<1> QED
  BY <1>1, <1>2

LEMMA RowIds ==
  ASSUME NEW columns, NEW rows \in Seq(RowsOf(columns))
  PROVE  /\ IdsIn(rows) \in Seq(IdCells)
         /\ Len(IdsIn(rows)) = Len(rows)
         /\ DOMAIN IdsIn(rows) = 1 .. Len(rows) /\ DOMAIN rows = 1 .. Len(rows)
         /\ \A i \in 1 .. Len(rows) : IdsIn(rows)[i] = rows[i].id
<1>1. Len(rows) \in Nat /\ DOMAIN rows = 1 .. Len(rows)
  BY LenProperties
<1>2. \A i \in 1 .. Len(rows) : rows[i].id \in IdCells
  <2> TAKE i \in 1 .. Len(rows)
  <2>1. rows[i] \in RowsOf(columns)
    BY ElementOfSeq
  <2> QED
    BY <2>1 DEF RowsOf
<1>3. IdsIn(rows) \in [1 .. Len(rows) -> IdCells]
  BY <1>1, <1>2 DEF IdsIn
<1>4. \A i \in 1 .. Len(rows) : IdsIn(rows)[i] = rows[i].id
  BY <1>1 DEF IdsIn
<1> HIDE DEF IdsIn
<1> QED
  BY <1>1, <1>3, <1>4, IsSequence

\* The replaced rows get new ids, the others keep theirs.
LEMMA Fixed ==
  ASSUME NEW ids \in Seq(IdCells), NEW next \in 1 .. MaxIds + 1,
         next + Cardinality(Replaced(ids)) <= MaxIds + 1
  PROVE  /\ Replaced(ids) \subseteq 1 .. Len(ids)
         /\ Cardinality(Replaced(ids)) \in Nat
         /\ FixedIds(ids, next) \in [1 .. Len(ids) -> Ids]
         /\ \A i \in (1 .. Len(ids)) \ Replaced(ids) : FixedIds(ids, next)[i] = ids[i]
         /\ \A i \in Replaced(ids) :
              FixedIds(ids, next)[i] \in next .. next + Cardinality(Replaced(ids)) - 1
<1> DEFINE R == Replaced(ids)
           before(i) == {j \in R : j < i}
<1>1. Len(ids) \in Nat /\ DOMAIN ids = 1 .. Len(ids) /\ R \subseteq 1 .. Len(ids)
  BY DEF Replaced
<1>2. IsFiniteSet(R) /\ Cardinality(R) \in Nat
  <2>1. IsFiniteSet(1 .. Len(ids))
    BY <1>1, FS_Interval
  <2> QED
    BY <1>1, <2>1, FS_Subset, FS_CardinalityType
<1>3. \A i \in R : Cardinality(before(i)) \in Nat /\ Cardinality(before(i)) < Cardinality(R)
  <2> TAKE i \in R
  <2>1. i \in Nat /\ ~ (i < i)
    BY <1>1
  <2>2. before(i) \subseteq R /\ i \notin before(i)
    BY <2>1
  <2>3. IsFiniteSet(before(i)) /\ Cardinality(before(i)) <= Cardinality(R)
        /\ (Cardinality(R) = Cardinality(before(i)) => R = before(i))
    BY <1>2, <2>2, FS_Subset
  <2>4. Cardinality(before(i)) \in Nat
    BY <2>3, FS_CardinalityType
  <2> HIDE DEF before, R
  <2> QED
    BY <1>2, <2>2, <2>3, <2>4
<1> DEFINE f == FixedIds(ids, next)
<1>4. f = [i \in 1 .. Len(ids) |-> IF i \in R THEN next + Cardinality(before(i)) ELSE ids[i]]
  BY <1>1 DEF FixedIds, Replaced
<1>5. \A i \in R : f[i] = next + Cardinality(before(i))
  BY <1>1, <1>4
<1>6. \A i \in (1 .. Len(ids)) \ R : f[i] = ids[i] /\ ids[i] \in Ids
  BY <1>1, <1>4 DEF Replaced, KeepsId
<1>7. MaxIds \in Nat
  BY IdColumnAssumption
<1>8. \A i \in R : f[i] \in next .. next + Cardinality(R) - 1
  <2> HIDE DEF f, before, R
  <2> TAKE i \in R
  <2>1. f[i] = next + Cardinality(before(i)) /\ Cardinality(before(i)) \in Nat
        /\ Cardinality(before(i)) < Cardinality(R)
    BY <1>3, <1>5
  <2> QED
    BY <1>2, <1>7, <2>1
<1>9. next .. next + Cardinality(R) - 1 \subseteq Ids
  BY <1>2, <1>7 DEF Ids
<1>10. \A i \in 1 .. Len(ids) : f[i] \in Ids
  BY <1>6, <1>8, <1>9
<1> QED
  BY <1>1, <1>2, <1>4, <1>6, <1>8, <1>10

\* The ids found stay, the new ones are new.
LEMMA FixedRange ==
  ASSUME NEW ids \in Seq(IdCells), NEW next \in 1 .. MaxIds + 1,
         next + Cardinality(Replaced(ids)) <= MaxIds + 1
  PROVE  LET fixed == FixedIds(ids, next) IN
         /\ Range(ids) \cap Ids \subseteq Range(fixed)
         /\ Range(fixed) \subseteq
              (Range(ids) \cap Ids) \cup next .. next + Cardinality(Replaced(ids)) - 1
         /\ Range(fixed) \subseteq Ids
<1> DEFINE fixed == FixedIds(ids, next)
           R == Replaced(ids)
           n == Len(ids)
<1>1. /\ R \subseteq 1 .. n
      /\ fixed \in [1 .. n -> Ids]
      /\ \A i \in (1 .. n) \ R : fixed[i] = ids[i]
      /\ \A i \in R : fixed[i] \in next .. next + Cardinality(R) - 1
  BY Fixed
<1>2. n \in Nat /\ DOMAIN ids = 1 .. n
  OBVIOUS
<1>3. ASSUME NEW x \in Range(ids) \cap Ids PROVE x \in Range(fixed)
  <2> DEFINE S == {i \in 1 .. n : ids[i] = x}
  <2>1. S \subseteq Nat /\ S # {}
    BY <1>2 DEF Range
  <2>2. PICK m \in S : \A i \in S : m <= i
    <3> HIDE DEF S
    <3> QED
      BY <2>1, Least
  <2>3. m \in 1 .. n /\ ids[m] = x /\ x \in Ids
    OBVIOUS
  <2>4. \A j \in 1 .. m - 1 : ids[j] # ids[m]
    <3> SUFFICES ASSUME NEW j \in 1 .. m - 1, ids[j] = x PROVE FALSE
      BY <2>3
    <3>1. j \in S
      BY <1>2, <2>3
    <3>2. ~ (m <= j)
      BY <2>3
    <3> QED
      BY <2>2, <3>1, <3>2
  <2>5. m \notin R
    BY <1>2, <2>3, <2>4 DEF Replaced, KeepsId
  <2> HIDE DEF fixed, R, S, n
  <2>6. fixed[m] = x
    BY <1>1, <2>3, <2>5
  <2> QED
    BY <1>1, <2>3, <2>6 DEF Range
<1>4. ASSUME NEW x \in Range(fixed)
      PROVE  x \in (Range(ids) \cap Ids) \cup next .. next + Cardinality(R) - 1
  <2> HIDE DEF fixed, R, n
  <2>1. PICK i \in 1 .. n : fixed[i] = x
    BY <1>1 DEF Range
  <2>2. CASE i \in R
    BY <1>1, <2>1, <2>2
  <2>3. CASE i \notin R
    BY <1>1, <1>2, <2>1, <2>3 DEF Range
  <2> QED
    BY <2>2, <2>3
<1>5. Range(fixed) \subseteq Ids
  <2> HIDE DEF fixed, R, n
  <2> QED
    BY <1>1 DEF Range
<1> HIDE DEF fixed, R, n
<1> QED
  BY <1>3, <1>4, <1>5 DEF fixed, R

\* Without a replaced row all stay as they are.
LEMMA NothingFixed ==
  ASSUME NEW ids \in Seq(IdCells), NEW next \in 1 .. MaxIds + 1, Cardinality(Replaced(ids)) = 0
  PROVE  FixedIds(ids, next) = ids
<1>1. Replaced(ids) = {}
  <2>1. Len(ids) \in Nat /\ DOMAIN ids = 1 .. Len(ids)
    OBVIOUS
  <2>2. Replaced(ids) \subseteq 1 .. Len(ids)
    BY <2>1 DEF Replaced
  <2>3. IsFiniteSet(1 .. Len(ids))
    BY <2>1, FS_Interval
  <2> QED
    BY <2>2, <2>3, FS_Subset, FS_EmptySet
<1>2. DOMAIN ids = 1 .. Len(ids) /\ ids = [i \in 1 .. Len(ids) |-> ids[i]]
  OBVIOUS
<1>3. \A i \in DOMAIN ids : KeepsId(ids, i)
  BY <1>1 DEF Replaced
<1>4. FixedIds(ids, next) = [i \in DOMAIN ids |-> ids[i]]
  BY <1>3 DEF FixedIds
<1> QED
  BY <1>2, <1>4

\* There are no more ids than rows.
LEMMA RangeSize ==
  ASSUME NEW n \in Nat, NEW S, NEW f \in [1 .. n -> S]
  PROVE  /\ IsFiniteSet(Range(f))
         /\ Cardinality(Range(f)) \in Nat
         /\ Cardinality(Range(f)) <= n
<1>1. f \in Surjection(1 .. n, Range(f))
  BY DEF Surjection, Range
<1>2. IsFiniteSet(1 .. n) /\ Cardinality(1 .. n) = n
  BY FS_Interval
<1> QED
  BY <1>1, <1>2, FS_Surjection, FS_CardinalityType

-----------------------------------------------------------------------------
(* The rows                                                                *)

\* Trimming leaves out rows at the end, and only empty ones.
LEMMA TrimmedRows ==
  ASSUME NEW columns, NEW rows \in Seq(RowsOf(columns))
  PROVE  /\ Trimmed(rows) \in Seq(RowsOf(columns))
         /\ Len(Trimmed(rows)) <= Len(rows)
         /\ \A i \in 1 .. Len(Trimmed(rows)) : Trimmed(rows)[i] = rows[i]
         /\ \A i \in 1 .. Len(rows) : i > Len(Trimmed(rows)) => IsEmptyRow(rows[i])
         /\ Len(Trimmed(rows)) = 0 \/ ~IsEmptyRow(rows[Len(Trimmed(rows))])
<1> DEFINE F == {0} \cup {i \in DOMAIN rows : ~IsEmptyRow(rows[i])}
           n == Max(F)
<1>1. Len(rows) \in Nat /\ DOMAIN rows = 1 .. Len(rows)
  OBVIOUS
<1>2. F \subseteq 0 .. Len(rows) /\ F # {}
  BY <1>1
<1>3. n \in F /\ \A i \in F : i <= n
  <2> HIDE DEF F
  <2> QED
    BY <1>1, <1>2, Greatest
<1>4. Trimmed(rows) = SubSeq(rows, 1, n)
  BY DEF Trimmed
<1>5. n \in 0 .. Len(rows)
  BY <1>2, <1>3
<1>6. \A i \in 1 .. Len(rows) : ~IsEmptyRow(rows[i]) => i <= n
  BY <1>1, <1>3
<1>9. n = 0 \/ ~IsEmptyRow(rows[n])
  BY <1>3
<1> HIDE DEF F, n
<1>7. \A i \in 1 .. n : rows[i] \in RowsOf(columns)
  BY <1>1, <1>5, ElementOfSeq
<1>8. /\ Trimmed(rows) \in Seq(RowsOf(columns))
      /\ Len(Trimmed(rows)) = n
      /\ \A i \in 1 .. n : Trimmed(rows)[i] = rows[i]
  BY <1>4, <1>5, <1>7
<1> QED
  BY <1>1, <1>5, <1>6, <1>8, <1>9

\* The rows up to the last that is not empty.
LEMMA TrimmedAt ==
  ASSUME NEW columns, NEW rows \in Seq(RowsOf(columns)), NEW n \in 1 .. Len(rows),
         ~IsEmptyRow(rows[n]),
         \A i \in 1 .. Len(rows) : i > n => IsEmptyRow(rows[i])
  PROVE  Len(Trimmed(rows)) = n
<1> DEFINE t == Len(Trimmed(rows))
<1>1. t \in Nat /\ t <= Len(rows) /\ Len(rows) \in Nat
  BY TrimmedRows, LenProperties
<1>2. \A i \in 1 .. Len(rows) : i > t => IsEmptyRow(rows[i])
  BY TrimmedRows
<1>3. t = 0 \/ ~IsEmptyRow(rows[t])
  BY TrimmedRows
<1> HIDE DEF t
<1>4. ~ (n > t)
  BY <1>2
<1>5. ~ (t > n)
  BY <1>1, <1>3
<1> QED
  BY <1>1, <1>4, <1>5 DEF t

\* Trimming leaves out no id.
LEMMA TrimmedIds ==
  ASSUME NEW columns, NEW rows \in Seq(RowsOf(columns))
  PROVE  IdsAt(Trimmed(rows)) = IdsAt(rows)
<1> DEFINE t == Trimmed(rows)
<1>1. /\ t \in Seq(RowsOf(columns)) /\ Len(t) \in Nat /\ Len(rows) \in Nat /\ Len(t) <= Len(rows)
      /\ \A i \in 1 .. Len(t) : t[i] = rows[i]
      /\ \A i \in 1 .. Len(rows) : i > Len(t) => IsEmptyRow(rows[i])
  BY TrimmedRows, LenProperties
<1> HIDE DEF t
<1>2. /\ DOMAIN IdsIn(rows) = 1 .. Len(rows) /\ DOMAIN IdsIn(t) = 1 .. Len(t)
      /\ \A i \in 1 .. Len(rows) : IdsIn(rows)[i] = rows[i].id
      /\ \A i \in 1 .. Len(t) : IdsIn(t)[i] = t[i].id
  BY <1>1, RowIds
<1>3. NoId \notin Ids
  BY DEF NoId, Ids
<1>4. ASSUME NEW x \in IdsAt(t) PROVE x \in IdsAt(rows)
  <2>1. PICK i \in 1 .. Len(t) : t[i].id = x
    BY <1>2 DEF IdsAt, Range
  <2>2. i \in 1 .. Len(rows) /\ rows[i].id = x /\ x \in Ids
    BY <1>1, <2>1 DEF IdsAt
  <2> QED
    BY <1>2, <2>2 DEF IdsAt, Range
<1>5. ASSUME NEW x \in IdsAt(rows) PROVE x \in IdsAt(t)
  <2>1. PICK i \in 1 .. Len(rows) : rows[i].id = x
    BY <1>2 DEF IdsAt, Range
  <2>2. x \in Ids
    BY DEF IdsAt
  <2>3. i <= Len(t)
    <3>1. ~IsEmptyRow(rows[i])
      BY <1>3, <2>1, <2>2 DEF IsEmptyRow
    <3> QED
      BY <1>1, <3>1
  <2>4. i \in 1 .. Len(t) /\ t[i].id = x
    BY <1>1, <2>1, <2>3
  <2> QED
    BY <1>2, <2>2, <2>4 DEF IdsAt, Range
<1> QED
  BY <1>4, <1>5 DEF t

\* A version: the file with an id for each of its rows.
LEMMA SnapshotIs ==
  ASSUME NEW d, d.columns \in SUBSET Fields, d.rows \in Seq(RowsOf(d.columns)),
         NEW ids \in [1 .. Len(d.rows) -> Ids]
  PROVE  LET s == SnapshotOf(d, ids) IN
         /\ IsSnapshot(s)
         /\ FieldsOf(s) = d.columns
         /\ IdsOf(s) = Range(ids)
         /\ Cardinality(IdsOf(s)) \in Nat
         /\ Cardinality(IdsOf(s)) <= Len(d.rows)
<1> DEFINE s == SnapshotOf(d, ids)
           place(id) == CHOOSE i \in DOMAIN ids : ids[i] = id
<1>1. Len(d.rows) \in Nat /\ DOMAIN d.rows = 1 .. Len(d.rows) /\ DOMAIN ids = 1 .. Len(d.rows)
  BY LenProperties
<1>2. s.type = [f \in d.columns |-> ColumnType(d.rows, f)]
  BY DEF SnapshotOf
<1>3. s.rows = [id \in Range(ids) |-> d.rows[place(id)].cells]
  BY DEF SnapshotOf
<1>4. FieldsOf(s) = d.columns /\ IdsOf(s) = Range(ids)
  BY <1>2, <1>3 DEF FieldsOf, IdsOf
<1>5. s.type \in [d.columns -> Types]
  <2>1. \A f \in d.columns : ColumnType(d.rows, f) \in Types
    BY DEF ColumnType, Types
  <2> QED
    BY <1>2, <2>1
<1>6. \A id \in Range(ids) : place(id) \in 1 .. Len(d.rows)
  <2>1. \A id \in Range(ids) : \E i \in DOMAIN ids : ids[i] = id
    BY DEF Range
  <2> QED
    BY <1>1, <2>1
<1>7. \A i \in 1 .. Len(d.rows) : d.rows[i].cells \in [d.columns -> Cells]
  <2> TAKE i \in 1 .. Len(d.rows)
  <2>1. d.rows[i] \in RowsOf(d.columns)
    BY ElementOfSeq
  <2> QED
    BY <2>1 DEF RowsOf
<1> HIDE DEF place, s
<1>8. s.rows \in [Range(ids) -> [d.columns -> Cells]]
  BY <1>3, <1>6, <1>7
<1>9. Range(ids) \subseteq Ids
  BY DEF Range
<1>10. Cardinality(Range(ids)) \in Nat /\ Cardinality(Range(ids)) <= Len(d.rows)
  BY <1>1, RangeSize
<1>11. IsSnapshot(s)
  BY <1>4, <1>5, <1>8, <1>9 DEF IsSnapshot
<1> QED
  BY <1>4, <1>10, <1>11 DEF s

-----------------------------------------------------------------------------
(* Writing the ids                                                         *)

\* Cells of the id column are filled only if there is one.
HasHeader(s) == \A i \in DOMAIN s.rows : s.rows[i].id # NoId => s.idColumn

\* Some of the batches write some of the rows, as all of them would.
LEMMA SomeBatches ==
  ASSUME NEW w, NEW fixed, NEW rows, WriteRows(w, fixed, rows),
         NEW done \in SUBSET DOMAIN w
  PROVE  LET some == [r \in done |-> w[r]] IN
         /\ RowsWritten(some) \subseteq rows
         /\ WriteRows(some, fixed, RowsWritten(some))
<1> DEFINE some == [r \in done |-> w[r]]
<1>1. DOMAIN some = done /\ \A r \in done : r \in DOMAIN w /\ some[r] = w[r]
  OBVIOUS
<1> HIDE DEF some
<1>2. \A x : x \in RowsWritten(some) <=> \E r \in done : x \in r .. r + Len(some[r]) - 1
  BY <1>1, Zenon DEF RowsWritten
<1>3. \A x : x \in RowsWritten(w) <=> \E r \in DOMAIN w : x \in r .. r + Len(w[r]) - 1
  BY Zenon DEF RowsWritten
<1>4. RowsWritten(some) \subseteq RowsWritten(w)
  BY <1>1, <1>2, <1>3, Zenon
<1>5. RowsWritten(w) = rows
  BY DEF WriteRows
<1>6. WriteRows(some, fixed, RowsWritten(some))
  BY <1>1 DEF WriteRows
<1> QED
  BY <1>4, <1>5, <1>6 DEF some

\* A row that is written gets what is for it.
LEMMA IdIsWritten ==
  ASSUME NEW w, NEW fixed, NEW rows, WriteRows(w, fixed, rows), NEW n \in rows
  PROVE  /\ n \in Nat
         /\ IdWritten(w, n) = CellFor(fixed, n)
<1>1. RowsWritten(w) = rows
  BY DEF WriteRows
<1>2. \E r \in DOMAIN w : n \in r .. r + Len(w[r]) - 1
  BY <1>1, Zenon DEF RowsWritten
<1> DEFINE r == CHOOSE r \in DOMAIN w : n \in r .. r + Len(w[r]) - 1
<1>3. r \in DOMAIN w /\ n \in r .. r + Len(w[r]) - 1
  BY <1>2, Zenon
<1>4. IdWritten(w, n) = w[r][n - r + 1]
  BY DEF IdWritten
<1> HIDE DEF r
<1>5. r \in Nat \ {0} /\ Len(w[r]) \in Nat
  BY <1>3 DEF WriteRows
<1>6. n \in Nat /\ n - r + 1 \in 1 .. Len(w[r]) /\ r + (n - r + 1) - 1 = n
  BY <1>3, <1>5
<1>7. w[r][n - r + 1] = CellFor(fixed, r + (n - r + 1) - 1)
  BY <1>3, <1>6 DEF WriteRows
<1> QED
  BY <1>4, <1>6, <1>7

\* The sheet after rows were written to it.
LEMMA WrittenSheet ==
  ASSUME NEW s, IsSheet(s), Len(s.rows) <= MaxRows, HasHeader(s),
         NEW w, NEW fixed, NEW rows \in SUBSET (1 .. MaxRows + 1), WriteRows(w, fixed, rows),
         \A n \in rows \ {1} : fixed[n - 1] \in IdCells
  PROVE  LET t == Written(s, w) IN
         /\ IsSheet(t) /\ HasHeader(t)
         /\ t.columns = s.columns
         /\ t.idColumn = (s.idColumn \/ 1 \in rows)
         /\ Len(t.rows) <= MaxRows /\ Len(s.rows) <= Len(t.rows)
         /\ rows \subseteq 1 .. Len(s.rows) + 1 => Len(t.rows) = Len(s.rows)
         /\ \A i \in 1 .. Len(t.rows) :
              t.rows[i].id = IF t.idColumn /\ i + 1 \in rows THEN fixed[i]
                             ELSE IF i <= Len(s.rows) THEN s.rows[i].id ELSE NoId
         /\ \A i \in 1 .. Len(s.rows) : t.rows[i].cells = s.rows[i].cells
<1> DEFINE L == {Len(s.rows)} \cup {n - 1 : n \in rows}
           length == Max(L)
           present == s.idColumn \/ 1 \in rows
           old(i) == IF i <= Len(s.rows) THEN s.rows[i]
                     ELSE [id |-> NoId, cells |-> EmptyCells(s.columns)]
           new(i) == IF present /\ i + 1 \in rows
                     THEN [old(i) EXCEPT !.id = IdWritten(w, i + 1)] ELSE old(i)
           t == Written(s, w)
<1>1. /\ s.idColumn \in BOOLEAN /\ s.columns \subseteq Fields /\ s.rows \in Seq(RowsOf(s.columns))
      /\ s = [idColumn |-> s.idColumn, columns |-> s.columns, rows |-> s.rows]
  BY DEF IsSheet
<1>2. Len(s.rows) \in Nat /\ DOMAIN s.rows = 1 .. Len(s.rows)
      /\ \A i \in 1 .. Len(s.rows) : s.rows[i] \in RowsOf(s.columns)
  BY <1>1, LenProperties, ElementOfSeq
<1>3. MaxRows \in Nat /\ Blank \in Cells
  BY RowSyncAssumption
<1>4. RowsWritten(w) = rows
  BY DEF WriteRows
<1>5. length \in L /\ \A x \in L : x <= length
  <2>1. L \subseteq 0 .. MaxRows /\ L # {}
    BY <1>2, <1>3
  <2> HIDE DEF L
  <2> QED
    BY <1>3, <2>1, Greatest
<1>6. length \in Nat /\ length <= MaxRows /\ Len(s.rows) <= length
  BY <1>2, <1>3, <1>5
<1>7. rows \subseteq 1 .. Len(s.rows) + 1 => length = Len(s.rows)
  <2> SUFFICES ASSUME rows \subseteq 1 .. Len(s.rows) + 1 PROVE length = Len(s.rows)
    OBVIOUS
  <2>1. \A x \in L : x <= Len(s.rows)
    BY <1>2
  <2> HIDE DEF L, length
  <2> QED
    BY <1>2, <1>5, <1>6, <2>1
<1>8. t = [s EXCEPT !.idColumn = present, !.rows = [i \in 1 .. length |-> new(i)]]
  BY <1>4 DEF Written
<1>9. \A i \in 1 .. length : old(i) \in RowsOf(s.columns)
  <2>1. [id |-> NoId, cells |-> EmptyCells(s.columns)] \in RowsOf(s.columns)
    <3>1. EmptyCells(s.columns) \in [s.columns -> Cells]
      BY <1>3 DEF EmptyCells
    <3>2. NoId \in IdCells
      BY IdColumnAssumption DEF IdCells, NoId
    <3> HIDE DEF old, new
    <3> QED
      BY <3>1, <3>2, Zenon DEF RowsOf
  <2>2. ASSUME NEW i \in 1 .. length PROVE old(i) \in RowsOf(s.columns)
    <3>1. CASE i <= Len(s.rows)
      BY <1>2, <1>6, <3>1
    <3>2. CASE ~ (i <= Len(s.rows))
      BY <2>1, <3>2
    <3> QED
      BY <3>1, <3>2
  <2> QED
    BY <2>2
<1>10. \A i \in 1 .. length : i + 1 \in rows =>
         IdWritten(w, i + 1) = fixed[i] /\ fixed[i] \in IdCells
  <2> SUFFICES ASSUME NEW i \in 1 .. length, i + 1 \in rows
               PROVE  IdWritten(w, i + 1) = fixed[i] /\ fixed[i] \in IdCells
    OBVIOUS
  <2>1. i + 1 # 1 /\ (i + 1) - 1 = i
    BY <1>6
  <2>2. IdWritten(w, i + 1) = CellFor(fixed, i + 1)
    BY IdIsWritten
  <2>3. fixed[i] \in IdCells
    BY <2>1
  <2> QED
    BY <2>1, <2>2, <2>3 DEF CellFor
<1> HIDE DEF L, length, present, t
<1>11. ASSUME NEW i \in 1 .. length
       PROVE  /\ new(i) \in RowsOf(s.columns)
              /\ new(i).cells = old(i).cells
              /\ new(i).id = IF present /\ i + 1 \in rows THEN fixed[i] ELSE old(i).id
  <2>1. old(i) \in RowsOf(s.columns)
    BY <1>9
  <2> HIDE DEF old
  <2>2. CASE present /\ i + 1 \in rows
    <3>1. new(i) = [old(i) EXCEPT !.id = fixed[i]]
      BY <1>10, <2>2
    <3> HIDE DEF new
    <3> QED
      BY <1>10, <2>1, <2>2, <3>1 DEF RowsOf
  <2>3. CASE ~ (present /\ i + 1 \in rows)
    BY <2>1, <2>3
  <2> QED
    BY <2>2, <2>3
<1> DEFINE made == [i \in 1 .. length |-> new(i)]
<1>12. made \in [1 .. length -> RowsOf(s.columns)]
  <2> HIDE DEF new
  <2> QED
    BY <1>11
<1>13. \A i \in 1 .. length : made[i] = new(i)
  OBVIOUS
<1> HIDE DEF made, new
<1>14. made \in Seq(RowsOf(s.columns)) /\ Len(made) = length /\ DOMAIN made = 1 .. length
  BY <1>6, <1>12, IsSequence
<1>15. present \in BOOLEAN
  BY DEF present
<1>16. /\ t.idColumn = present /\ t.columns = s.columns /\ t.rows = made
       /\ t = [idColumn |-> present, columns |-> s.columns, rows |-> made]
  BY <1>1, <1>8 DEF made
<1>17. IsSheet(t)
  BY <1>1, <1>14, <1>15, <1>16 DEF IsSheet
<1>18. \A i \in 1 .. length : old(i).id = IF i <= Len(s.rows) THEN s.rows[i].id ELSE NoId
  OBVIOUS
<1>19. \A i \in 1 .. length :
         made[i].id = IF present /\ i + 1 \in rows THEN fixed[i]
                      ELSE IF i <= Len(s.rows) THEN s.rows[i].id ELSE NoId
  BY <1>11, <1>13, <1>18
<1>20. \A i \in 1 .. Len(s.rows) : made[i].cells = s.rows[i].cells
  <2>1. \A i \in 1 .. Len(s.rows) : i \in 1 .. length /\ old(i) = s.rows[i]
    BY <1>2, <1>6
  <2> QED
    BY <1>11, <1>13, <2>1
<1>21. HasHeader(t)
  <2> SUFFICES ASSUME NEW i \in 1 .. length, made[i].id # NoId PROVE present
    BY <1>14, <1>16 DEF HasHeader
  <2>1. CASE present /\ i + 1 \in rows
    BY <2>1
  <2>2. CASE ~ (present /\ i + 1 \in rows)
    <3>1. i <= Len(s.rows) /\ s.rows[i].id # NoId
      BY <1>19, <2>2
    <3>2. i \in DOMAIN s.rows
      BY <1>2, <1>6, <3>1
    <3>3. s.idColumn
      BY <3>1, <3>2 DEF HasHeader
    <3> QED
      BY <3>3 DEF present
  <2> QED
    BY <2>1, <2>2
<1>22. /\ IsSheet(t) /\ HasHeader(t)
       /\ t.columns = s.columns
       /\ t.idColumn = (s.idColumn \/ 1 \in rows)
       /\ Len(t.rows) <= MaxRows /\ Len(s.rows) <= Len(t.rows)
       /\ rows \subseteq 1 .. Len(s.rows) + 1 => Len(t.rows) = Len(s.rows)
  BY <1>6, <1>7, <1>14, <1>16, <1>17, <1>21 DEF present
<1>23. \A i \in 1 .. Len(t.rows) :
         t.rows[i].id = IF t.idColumn /\ i + 1 \in rows THEN fixed[i]
                        ELSE IF i <= Len(s.rows) THEN s.rows[i].id ELSE NoId
  BY <1>14, <1>16, <1>19
<1>24. \A i \in 1 .. Len(s.rows) : t.rows[i].cells = s.rows[i].cells
  BY <1>16, <1>20
<1> QED
  BY <1>22, <1>23, <1>24 DEF t

-----------------------------------------------------------------------------
(* The user's edits                                                        *)

\* The rows a sheet with an id column or without it, and with these columns and
\* ids, may have.
Allowed(idColumn, columns, ids) ==
  {row \in RowsOf(columns) :
     /\ row.id # NoId => idColumn
     /\ row.id \in Ids => row.id \in ids}

LEMMA RowsAreAllowed ==
  ASSUME NEW s, IsSheet(s), HasHeader(s)
  PROVE  /\ s = [idColumn |-> s.idColumn, columns |-> s.columns, rows |-> s.rows]
         /\ s.idColumn \in BOOLEAN /\ s.columns \subseteq Fields
         /\ s.rows \in Seq(Allowed(s.idColumn, s.columns, IdsAt(s.rows)))
         /\ Len(s.rows) \in Nat /\ DOMAIN s.rows = 1 .. Len(s.rows)
<1> DEFINE A == Allowed(s.idColumn, s.columns, IdsAt(s.rows))
<1>1. /\ s.idColumn \in BOOLEAN /\ s.columns \subseteq Fields /\ s.rows \in Seq(RowsOf(s.columns))
      /\ s = [idColumn |-> s.idColumn, columns |-> s.columns, rows |-> s.rows]
  BY DEF IsSheet
<1>2. Len(s.rows) \in Nat /\ DOMAIN s.rows = 1 .. Len(s.rows)
      /\ \A i \in 1 .. Len(s.rows) : s.rows[i] \in RowsOf(s.columns)
  BY <1>1, LenProperties, ElementOfSeq
<1>3. \A i \in 1 .. Len(s.rows) : s.rows[i].id \in Ids => s.rows[i].id \in IdsAt(s.rows)
  BY <1>1, <1>2, RowIds DEF IdsAt, Range
<1>4. \A i \in 1 .. Len(s.rows) : s.rows[i] \in A
  BY <1>2, <1>3 DEF Allowed, HasHeader
<1>5. s.rows \in [1 .. Len(s.rows) -> A]
  <2> HIDE DEF A
  <2> QED
    BY <1>1, <1>2, <1>4, LenProperties
<1>6. s.rows \in Seq(A)
  <2> HIDE DEF A
  <2> QED
    BY <1>2, <1>5, IsSequence
<1> QED
  BY <1>1, <1>2, <1>6

LEMMA AllowedRows ==
  ASSUME NEW t, NEW idColumn \in BOOLEAN, NEW columns \in SUBSET Fields, NEW rows, NEW ids,
         t = [idColumn |-> idColumn, columns |-> columns, rows |-> rows],
         rows \in Seq(Allowed(idColumn, columns, ids))
  PROVE  IsSheet(t) /\ HasHeader(t) /\ IdsAt(t.rows) \subseteq ids
<1> DEFINE A == Allowed(idColumn, columns, ids)
<1>1. A \subseteq RowsOf(columns)
  BY DEF Allowed
<1>0. rows \in Seq(A)
  OBVIOUS
<1>2. rows \in Seq(RowsOf(columns))
  <2> HIDE DEF A
  <2> QED
    BY <1>0, <1>1, SeqMonotonic
<1>3. t.idColumn = idColumn /\ t.columns = columns /\ t.rows = rows
  OBVIOUS
<1>4. IsSheet(t)
  BY <1>2, <1>3 DEF IsSheet
<1>5. DOMAIN rows = 1 .. Len(rows) /\ \A i \in 1 .. Len(rows) : rows[i] \in A
  <2> HIDE DEF A
  <2> QED
    BY <1>0, LenProperties, ElementOfSeq
<1>6. HasHeader(t)
  BY <1>3, <1>5 DEF HasHeader, Allowed
<1>7. IdsAt(rows) \subseteq ids
  BY <1>2, <1>5, RowIds DEF IdsAt, Range, Allowed
<1> QED
  BY <1>3, <1>4, <1>6, <1>7

LEMMA InsertedRow ==
  ASSUME NEW S, NEW rows \in Seq(S), NEW i \in 1 .. Len(rows) + 1, NEW row \in S
  PROVE  InsertAt(rows, i, row) \in Seq(S) /\ Len(InsertAt(rows, i, row)) = Len(rows) + 1
<1> DEFINE above == SubSeq(rows, 1, i - 1)
           below == SubSeq(rows, i, Len(rows))
<1>1. Len(rows) \in Nat /\ \A j \in 1 .. Len(rows) : rows[j] \in S
  BY LenProperties, ElementOfSeq
<1>2. above \in Seq(S) /\ Len(above) = i - 1
  BY <1>1
<1>3. below \in Seq(S) /\ Len(below) = Len(rows) - i + 1
  BY <1>1
<1>4. <<row>> \in Seq(S) /\ Len(<<row>>) = 1
  OBVIOUS
<1>5. InsertAt(rows, i, row) = (above \o <<row>>) \o below
  BY DEF InsertAt
<1> HIDE DEF above, below
<1>6. above \o <<row>> \in Seq(S) /\ Len(above \o <<row>>) = i
  BY <1>2, <1>4, ConcatProperties
<1> DEFINE upper == above \o <<row>>
<1> HIDE DEF upper
<1>7. upper \o below \in Seq(S) /\ Len(upper \o below) = Len(upper) + Len(below)
  BY <1>3, <1>6, ConcatProperties DEF upper
<1>8. i + (Len(rows) - i + 1) = Len(rows) + 1
  BY <1>1
<1> QED
  BY <1>3, <1>5, <1>6, <1>7, <1>8 DEF upper

LEMMA RemovedRow ==
  ASSUME NEW S, NEW rows \in Seq(S), NEW i \in 1 .. Len(rows)
  PROVE  RemoveAt(rows, i) \in Seq(S) /\ Len(RemoveAt(rows, i)) = Len(rows) - 1
<1> DEFINE above == SubSeq(rows, 1, i - 1)
           below == SubSeq(rows, i + 1, Len(rows))
<1>1. Len(rows) \in Nat /\ \A j \in 1 .. Len(rows) : rows[j] \in S
  BY LenProperties, ElementOfSeq
<1>2. above \in Seq(S) /\ Len(above) = i - 1
  BY <1>1
<1>3. below \in Seq(S) /\ Len(below) = Len(rows) - i
  BY <1>1
<1>4. RemoveAt(rows, i) = above \o below
  BY DEF RemoveAt
<1> HIDE DEF above, below
<1>5. above \o below \in Seq(S) /\ Len(above \o below) = Len(above) + Len(below)
  BY <1>2, <1>3, ConcatProperties
<1>6. (i - 1) + (Len(rows) - i) = Len(rows) - 1
  BY <1>1
<1> QED
  BY <1>2, <1>3, <1>4, <1>5, <1>6

\* What an edit may make of the sheet s: a sheet whose ids are those of s, and back.
Edited(s, t, back) ==
  /\ IsSheet(t) /\ HasHeader(t)
  /\ Len(t.rows) <= MaxRows
  /\ IdsAt(t.rows) \subseteq IdsAt(s.rows) \cup back

LEMMA CellIsSet ==
  ASSUME NEW s, IsSheet(s), HasHeader(s), Len(s.rows) <= MaxRows,
         NEW i \in DOMAIN s.rows, NEW f \in s.columns, NEW cell \in Cells
  PROVE  LET t == [s EXCEPT !.rows[i].cells[f] = cell] IN
         Edited(s, t, {}) /\ t.columns = s.columns
<1> DEFINE t == [s EXCEPT !.rows[i].cells[f] = cell]
           A == Allowed(s.idColumn, s.columns, IdsAt(s.rows))
           row == [s.rows[i] EXCEPT !.cells[f] = cell]
           rows == [s.rows EXCEPT ![i] = row]
<1>1. /\ s = [idColumn |-> s.idColumn, columns |-> s.columns, rows |-> s.rows]
      /\ s.idColumn \in BOOLEAN /\ s.columns \subseteq Fields
      /\ s.rows \in Seq(A) /\ Len(s.rows) \in Nat /\ i \in 1 .. Len(s.rows)
  BY RowsAreAllowed
<1>2. t = [idColumn |-> s.idColumn, columns |-> s.columns, rows |-> rows]
  <2>1. t = [s EXCEPT !.rows = rows]
    OBVIOUS
  <2> HIDE DEF t, rows
  <2> QED
    BY <1>1, <2>1
<1>3. s.rows[i] \in A
  <2> HIDE DEF A
  <2> QED
    BY <1>1, ElementOfSeq
<1>4. row \in A
  <2>1. s.rows[i] \in [id : IdCells, cells : [s.columns -> Cells]]
    BY <1>3 DEF Allowed, RowsOf
  <2>2. row.id = s.rows[i].id /\ row \in [id : IdCells, cells : [s.columns -> Cells]]
    BY <2>1
  <2> HIDE DEF row
  <2> QED
    BY <1>3, <2>2 DEF Allowed, RowsOf
<1> HIDE DEF A, row
<1>5. rows \in Seq(A) /\ Len(rows) = Len(s.rows)
  BY <1>1, <1>4, ExceptSeq
<1> HIDE DEF rows, t
<1>6. IsSheet(t) /\ HasHeader(t) /\ IdsAt(t.rows) \subseteq IdsAt(s.rows)
  BY <1>1, <1>2, <1>5, AllowedRows DEF A
<1>7. t.rows = rows /\ t.columns = s.columns
  BY <1>2
<1> QED
  BY <1>5, <1>6, <1>7 DEF Edited, t

LEMMA IdIsSpoilt ==
  ASSUME NEW s, IsSheet(s), HasHeader(s), Len(s.rows) <= MaxRows,
         NEW i \in DOMAIN s.rows, NEW cell \in {NoId, Invalid}, s.idColumn
  PROVE  LET t == [s EXCEPT !.rows[i].id = cell] IN
         Edited(s, t, {}) /\ t.columns = s.columns
<1> DEFINE t == [s EXCEPT !.rows[i].id = cell]
           A == Allowed(s.idColumn, s.columns, IdsAt(s.rows))
           row == [s.rows[i] EXCEPT !.id = cell]
           rows == [s.rows EXCEPT ![i] = row]
<1>1. /\ s = [idColumn |-> s.idColumn, columns |-> s.columns, rows |-> s.rows]
      /\ s.idColumn \in BOOLEAN /\ s.columns \subseteq Fields
      /\ s.rows \in Seq(A) /\ Len(s.rows) \in Nat /\ i \in 1 .. Len(s.rows)
  BY RowsAreAllowed
<1>2. t = [idColumn |-> s.idColumn, columns |-> s.columns, rows |-> rows]
  <2>1. t = [s EXCEPT !.rows = rows]
    OBVIOUS
  <2> HIDE DEF t, rows
  <2> QED
    BY <1>1, <2>1
<1>3. s.rows[i] \in A
  <2> HIDE DEF A
  <2> QED
    BY <1>1, ElementOfSeq
<1>4. row \in A
  <2>1. s.rows[i] \in [id : IdCells, cells : [s.columns -> Cells]]
    BY <1>3 DEF Allowed, RowsOf
  <2>2. cell \in IdCells /\ cell \notin Ids
    BY IdColumnAssumption DEF IdCells, Ids, NoId, Invalid
  <2>3. row.id = cell /\ row \in [id : IdCells, cells : [s.columns -> Cells]]
    BY <2>1, <2>2
  <2> HIDE DEF row
  <2> QED
    BY <2>2, <2>3 DEF Allowed, RowsOf
<1> HIDE DEF A, row
<1>5. rows \in Seq(A) /\ Len(rows) = Len(s.rows)
  BY <1>1, <1>4, ExceptSeq
<1> HIDE DEF rows, t
<1>6. IsSheet(t) /\ HasHeader(t) /\ IdsAt(t.rows) \subseteq IdsAt(s.rows)
  BY <1>1, <1>2, <1>5, AllowedRows DEF A
<1>7. t.rows = rows /\ t.columns = s.columns
  BY <1>2
<1> QED
  BY <1>5, <1>6, <1>7 DEF Edited, t

LEMMA RowIsPut ==
  ASSUME NEW s, IsSheet(s), HasHeader(s), Len(s.rows) < MaxRows,
         NEW i \in 1 .. Len(s.rows) + 1, NEW row \in RowsOf(s.columns),
         row.id # NoId => s.idColumn
  PROVE  LET t == [s EXCEPT !.rows = InsertAt(@, i, row)] IN
         Edited(s, t, {row.id}) /\ t.columns = s.columns
<1> DEFINE t == [s EXCEPT !.rows = InsertAt(@, i, row)]
           A == Allowed(s.idColumn, s.columns, IdsAt(s.rows))
           B == Allowed(s.idColumn, s.columns, IdsAt(s.rows) \cup {row.id})
           rows == InsertAt(s.rows, i, row)
<1>1. /\ s = [idColumn |-> s.idColumn, columns |-> s.columns, rows |-> s.rows]
      /\ s.idColumn \in BOOLEAN /\ s.columns \subseteq Fields
      /\ s.rows \in Seq(A) /\ Len(s.rows) \in Nat
  BY RowsAreAllowed
<1>2. t = [idColumn |-> s.idColumn, columns |-> s.columns, rows |-> rows]
  BY <1>1
<1>3. A \subseteq B /\ row \in B
  BY DEF Allowed
<1> HIDE DEF A, B
<1>4. s.rows \in Seq(B)
  BY <1>1, <1>3, SeqMonotonic
<1>5. rows \in Seq(B) /\ Len(rows) = Len(s.rows) + 1
  BY <1>3, <1>4, InsertedRow
<1> HIDE DEF rows, t
<1>6. IsSheet(t) /\ HasHeader(t) /\ IdsAt(t.rows) \subseteq IdsAt(s.rows) \cup {row.id}
  BY <1>1, <1>2, <1>5, AllowedRows DEF B
<1>7. t.rows = rows /\ t.columns = s.columns
  BY <1>2
<1>8. Len(rows) <= MaxRows
  BY <1>1, <1>5, RowSyncAssumption
<1> QED
  BY <1>6, <1>7, <1>8 DEF Edited, t

LEMMA RowIsDeleted ==
  ASSUME NEW s, IsSheet(s), HasHeader(s), Len(s.rows) <= MaxRows, NEW i \in DOMAIN s.rows
  PROVE  LET t == [s EXCEPT !.rows = RemoveAt(@, i)] IN
         Edited(s, t, {}) /\ t.columns = s.columns
<1> DEFINE t == [s EXCEPT !.rows = RemoveAt(@, i)]
           A == Allowed(s.idColumn, s.columns, IdsAt(s.rows))
           rows == RemoveAt(s.rows, i)
<1>1. /\ s = [idColumn |-> s.idColumn, columns |-> s.columns, rows |-> s.rows]
      /\ s.idColumn \in BOOLEAN /\ s.columns \subseteq Fields
      /\ s.rows \in Seq(A) /\ Len(s.rows) \in Nat /\ i \in 1 .. Len(s.rows)
  BY RowsAreAllowed
<1>2. t = [idColumn |-> s.idColumn, columns |-> s.columns, rows |-> rows]
  BY <1>1
<1> HIDE DEF A
<1>3. rows \in Seq(A) /\ Len(rows) = Len(s.rows) - 1
  BY <1>1, RemovedRow
<1> HIDE DEF rows, t
<1>4. IsSheet(t) /\ HasHeader(t) /\ IdsAt(t.rows) \subseteq IdsAt(s.rows)
  BY <1>1, <1>2, <1>3, AllowedRows DEF A
<1>5. t.rows = rows /\ t.columns = s.columns
  BY <1>2
<1>6. Len(rows) <= MaxRows
  BY <1>1, <1>3, RowSyncAssumption
<1> QED
  BY <1>4, <1>5, <1>6 DEF Edited, t

LEMMA IdColumnIsDeleted ==
  ASSUME NEW s, IsSheet(s), HasHeader(s), Len(s.rows) <= MaxRows
  PROVE  LET t == [s EXCEPT !.idColumn = FALSE,
                     !.rows = [i \in DOMAIN @ |-> [@[i] EXCEPT !.id = NoId]]] IN
         Edited(s, t, {}) /\ t.columns = s.columns
<1> DEFINE t == [s EXCEPT !.idColumn = FALSE,
                   !.rows = [i \in DOMAIN @ |-> [@[i] EXCEPT !.id = NoId]]]
           A == Allowed(s.idColumn, s.columns, IdsAt(s.rows))
           B == Allowed(FALSE, s.columns, IdsAt(s.rows))
           row(i) == [s.rows[i] EXCEPT !.id = NoId]
           rows == [i \in 1 .. Len(s.rows) |-> row(i)]
<1>1. /\ s = [idColumn |-> s.idColumn, columns |-> s.columns, rows |-> s.rows]
      /\ s.idColumn \in BOOLEAN /\ s.columns \subseteq Fields
      /\ s.rows \in Seq(A) /\ Len(s.rows) \in Nat /\ DOMAIN s.rows = 1 .. Len(s.rows)
  BY RowsAreAllowed
<1>2. t = [idColumn |-> FALSE, columns |-> s.columns, rows |-> rows]
  <2>1. t = [s EXCEPT !.idColumn = FALSE, !.rows = rows]
    BY <1>1
  <2> HIDE DEF t, rows
  <2> QED
    BY <1>1, <2>1
<1>3. ASSUME NEW i \in 1 .. Len(s.rows) PROVE row(i) \in B
  <2>1. s.rows[i] \in A
    <3> HIDE DEF A
    <3> QED
      BY <1>1, ElementOfSeq
  <2>2. s.rows[i] \in [id : IdCells, cells : [s.columns -> Cells]]
    BY <2>1 DEF Allowed, RowsOf
  <2>3. NoId \in IdCells /\ NoId \notin Ids
    BY IdColumnAssumption DEF IdCells, Ids, NoId
  <2>4. row(i).id = NoId /\ row(i) \in [id : IdCells, cells : [s.columns -> Cells]]
    BY <2>2, <2>3
  <2> HIDE DEF row
  <2> QED
    BY <2>3, <2>4 DEF Allowed, RowsOf
<1> HIDE DEF B, row
<1>4. rows \in [1 .. Len(s.rows) -> B]
  BY <1>3
<1> HIDE DEF rows, t
<1>5. rows \in Seq(B) /\ Len(rows) = Len(s.rows)
  BY <1>1, <1>4, IsSequence
<1>6. IsSheet(t) /\ HasHeader(t) /\ IdsAt(t.rows) \subseteq IdsAt(s.rows)
  BY <1>1, <1>2, <1>5, AllowedRows DEF B
<1>7. t.rows = rows /\ t.columns = s.columns
  BY <1>2
<1> QED
  BY <1>5, <1>6, <1>7 DEF Edited, t

LEMMA ColumnsAreSet ==
  ASSUME NEW s, IsSheet(s), HasHeader(s), Len(s.rows) <= MaxRows,
         NEW columns \in SUBSET Fields
  PROVE  LET t == [s EXCEPT
                     !.columns = columns,
                     !.rows = [i \in DOMAIN @ |->
                                 [id |-> @[i].id,
                                  cells |-> [f \in columns |->
                                               IF f \in DOMAIN @[i].cells THEN @[i].cells[f]
                                               ELSE Blank]]]] IN
         Edited(s, t, {}) /\ t.columns = columns
<1> DEFINE t == [s EXCEPT
                   !.columns = columns,
                   !.rows = [i \in DOMAIN @ |->
                               [id |-> @[i].id,
                                cells |-> [f \in columns |->
                                             IF f \in DOMAIN @[i].cells THEN @[i].cells[f]
                                             ELSE Blank]]]]
           A == Allowed(s.idColumn, s.columns, IdsAt(s.rows))
           B == Allowed(s.idColumn, columns, IdsAt(s.rows))
           cells(i) == [f \in columns |-> IF f \in DOMAIN s.rows[i].cells THEN s.rows[i].cells[f]
                                          ELSE Blank]
           row(i) == [id |-> s.rows[i].id, cells |-> cells(i)]
           rows == [i \in 1 .. Len(s.rows) |-> row(i)]
<1>1. /\ s = [idColumn |-> s.idColumn, columns |-> s.columns, rows |-> s.rows]
      /\ s.idColumn \in BOOLEAN /\ s.columns \subseteq Fields
      /\ s.rows \in Seq(A) /\ Len(s.rows) \in Nat /\ DOMAIN s.rows = 1 .. Len(s.rows)
  BY RowsAreAllowed
<1>2. t = [idColumn |-> s.idColumn, columns |-> columns, rows |-> rows]
  <2>1. t = [s EXCEPT !.columns = columns, !.rows = rows]
    BY <1>1
  <2> HIDE DEF t, rows
  <2> QED
    BY <1>1, <2>1
<1>3. ASSUME NEW i \in 1 .. Len(s.rows) PROVE row(i) \in B
  <2>1. s.rows[i] \in A
    <3> HIDE DEF A
    <3> QED
      BY <1>1, ElementOfSeq
  <2>2. s.rows[i].id \in IdCells /\ s.rows[i].cells \in [s.columns -> Cells]
    BY <2>1 DEF Allowed, RowsOf
  <2>3. cells(i) \in [columns -> Cells]
    BY <2>2, RowSyncAssumption
  <2> HIDE DEF cells
  <2>4. row(i).id = s.rows[i].id /\ row(i) \in RowsOf(columns)
    BY <2>2, <2>3 DEF RowsOf
  <2> HIDE DEF row
  <2> QED
    BY <2>1, <2>4 DEF Allowed
<1> HIDE DEF B, row, cells
<1>4. rows \in [1 .. Len(s.rows) -> B]
  BY <1>3
<1> HIDE DEF rows, t
<1>5. rows \in Seq(B) /\ Len(rows) = Len(s.rows)
  BY <1>1, <1>4, IsSequence
<1>6. IsSheet(t) /\ HasHeader(t) /\ IdsAt(t.rows) \subseteq IdsAt(s.rows)
  BY <1>1, <1>2, <1>5, AllowedRows DEF B
<1>7. t.rows = rows /\ t.columns = columns
  BY <1>2
<1> QED
  BY <1>5, <1>6, <1>7 DEF Edited, t

-----------------------------------------------------------------------------
(* The invariants                                                          *)

\* The rows that were deleted: they stay in the table, and their ids with them.
Gone == {id \in DOMAIN table : table[id].deleted}

\* The user's rows fit in a sheet, and so do the rows of every version of it.
SizesInv ==
  /\ Len(sheet.rows) <= MaxRows
  /\ Len(file.rows) <= MaxRows
  /\ Cardinality(IdsOf(snapshot)) <= MaxRows
  /\ Cardinality(IdsOf(base)) <= MaxRows

\* Outside their steps a sync's files are not there, and nothing was touched.
StepInv ==
  /\ pc # "downloaded" => file = NoFile
  /\ pc # "uploaded" => snapshot = NoSnapshot
  /\ pc = "idle" => ~touched

\* The rows a reader sees are those of the version loaded last.
VisibleInv == {id \in DOMAIN table : ~table[id].deleted} = IdsOf(base)

\* The statistics count the rows of the version loaded last.
CountInv == rowsNumber = Cardinality(IdsOf(base))

\* Inductive by itself.
RowsInv ==
  /\ TypeOK
  /\ SizesInv
  /\ HasHeader(sheet)
  /\ StepInv
  /\ VisibleInv
  /\ CountInv

\* The next id to be generated is nowhere yet, and none after it.
FreshInv ==
  IdsAt(sheet.rows) \cup IdsAt(file.rows) \cup IdsOf(snapshot) \cup DOMAIN table
    \subseteq 1 .. nextId - 1

\* Only the user brings deleted rows back.
GoneInv ==
  (IdsAt(sheet.rows) \cup IdsAt(file.rows) \cup IdsOf(snapshot)) \cap Gone \subseteq restored

\* What is in the sheet during a sync was downloaded by it, or brought back since.
SeenInv ==
  /\ pc = "downloaded" => IdsAt(sheet.rows) \subseteq IdsAt(file.rows) \cup restored
  /\ pc = "uploaded" => IdsAt(sheet.rows) \subseteq IdsOf(snapshot) \cup restored

\* What was downloaded is still in the sheet unless it was edited.
ReadInv == pc = "downloaded" /\ ~touched => file = Downloaded(sheet)

\* What Nested says of two versions, of two sets of columns.
NestedSets(F, G) == F \subseteq G \/ G \subseteq F

\* Fields are only added or only removed from one version to the next.
NestedInv ==
  /\ pc = "downloaded" => file.columns = sheet.columns
  /\ ~Replacing =>
       /\ NestedSets(sheet.columns, FieldsOf(base))
       /\ NestedSets(sheet.columns, FieldsOf(snapshot))
       /\ NestedSets(FieldsOf(base), FieldsOf(snapshot))

\* What an edit leaves alone, and what it may do to the sheet.
UserDid(back) ==
  /\ back \subseteq Gone
  /\ Edited(sheet, sheet', back)
  /\ restored' = restored \cup back
  /\ edits' \in 0 .. MaxEdits
  /\ touched' = (pc # "idle")
  /\ pc = "downloaded" => sheet'.columns = sheet.columns
  /\ \/ sheet'.columns = sheet.columns
     \/ Replacing
     \/ NestedSets(sheet'.columns, FieldsOf(base)) /\ NestedSets(sheet'.columns, FieldsOf(snapshot))
  /\ UNCHANGED <<file, snapshot, base, table, rowsNumber, pc, nextId>>

LEMMA EditCounts ==
  ASSUME TypeOK, NEW s, Edit(s)
  PROVE  edits' \in 0 .. MaxEdits
BY RowSyncAssumption DEF TypeOK, Edit

LEMMA UserEditsDo ==
  ASSUME TypeOK, HasHeader(sheet), Len(sheet.rows) <= MaxRows,
         UserEdits, UNCHANGED restored
  PROVE  UserDid({})
<1>1. IsSheet(sheet) /\ sheet.columns \subseteq Fields /\ sheet.rows \in Seq(RowsOf(sheet.columns))
  BY DEF TypeOK, IsSheet
<1>2. /\ DOMAIN sheet.rows = 1 .. Len(sheet.rows) /\ Len(sheet.rows) \in Nat
      /\ \A i \in DOMAIN sheet.rows : sheet.rows[i] \in RowsOf(sheet.columns)
  BY <1>1, LenProperties, ElementOfSeq
<1>3. \A s : Edit(s) => edits' \in 0 .. MaxEdits
  BY EditCounts
<1>4. restored' = restored \cup {}
  OBVIOUS
<1>5. ASSUME NEW s, Edit(s), Edited(sheet, s, {}), s.columns = sheet.columns
      PROVE  UserDid({})
  BY <1>3, <1>4, <1>5 DEF UserDid, Edit
<1>6. ASSUME NEW i \in DOMAIN sheet.rows, NEW f \in sheet.columns, NEW cell \in Cells,
             SetCell(i, f, cell)
      PROVE  UserDid({})
  <2> DEFINE t == [sheet EXCEPT !.rows[i].cells[f] = cell]
  <2>1. Edit(t)
    BY <1>6 DEF SetCell
  <2>2. Edited(sheet, t, {}) /\ t.columns = sheet.columns
    BY <1>1, CellIsSet
  <2> HIDE DEF t
  <2> QED
    BY <1>5, <2>1, <2>2
<1>7. ASSUME NEW i \in 1 .. Len(sheet.rows) + 1, NEW row \in RowsOf(sheet.columns),
             row.id # NoId => sheet.idColumn, row.id \in Ids => row.id \in IdsAt(sheet.rows),
             PutRow(i, row)
      PROVE  UserDid({})
  <2> DEFINE t == [sheet EXCEPT !.rows = InsertAt(@, i, row)]
  <2>1. Len(sheet.rows) < MaxRows /\ Edit(t)
    BY <1>7 DEF PutRow
  <2>2. Edited(sheet, t, {row.id}) /\ t.columns = sheet.columns
    BY <1>1, <1>7, <2>1, RowIsPut
  <2> HIDE DEF t
  <2>3. IdsAt(t.rows) \subseteq IdsAt(sheet.rows)
    BY <1>7, <2>2 DEF Edited, IdsAt
  <2>4. Edited(sheet, t, {})
    BY <2>2, <2>3 DEF Edited
  <2> QED
    BY <1>5, <2>1, <2>2, <2>4
<1>8. ASSUME NEW i \in 1 .. Len(sheet.rows) + 1,
             PutRow(i, [id |-> NoId, cells |-> EmptyCells(sheet.columns)])
      PROVE  UserDid({})
  <2> DEFINE row == [id |-> NoId, cells |-> EmptyCells(sheet.columns)]
  <2>1. EmptyCells(sheet.columns) \in [sheet.columns -> Cells]
    BY RowSyncAssumption DEF EmptyCells
  <2>2. NoId \in IdCells /\ NoId \notin Ids
    BY IdColumnAssumption DEF IdCells, Ids, NoId
  <2>3. row \in RowsOf(sheet.columns) /\ row.id = NoId
    BY <2>1, <2>2, Zenon DEF RowsOf
  <2> HIDE DEF row
  <2>4. PutRow(i, row)
    BY <1>8 DEF row
  <2> QED
    BY <1>7, <2>2, <2>3, <2>4
<1>9. ASSUME NEW i \in 1 .. Len(sheet.rows) + 1, NEW j \in DOMAIN sheet.rows,
             PutRow(i, sheet.rows[j])
      PROVE  UserDid({})
  <2>1. sheet.rows[j] \in RowsOf(sheet.columns)
    BY <1>2
  <2>2. sheet.rows[j].id # NoId => sheet.idColumn
    BY DEF HasHeader
  <2>3. sheet.rows[j].id \in Ids => sheet.rows[j].id \in IdsAt(sheet.rows)
    BY <1>1, <1>2, RowIds DEF IdsAt, Range
  <2> QED
    BY <1>7, <1>9, <2>1, <2>2, <2>3
<1>10. ASSUME NEW i \in DOMAIN sheet.rows, DeleteRow(i) PROVE UserDid({})
  BY <1>1, <1>5, <1>10, RowIsDeleted DEF DeleteRow
<1>11. ASSUME NEW i \in DOMAIN sheet.rows, NEW cell \in {NoId, Invalid}, SpoilId(i, cell)
       PROVE  UserDid({})
  <2>1. sheet.idColumn /\ Edit([sheet EXCEPT !.rows[i].id = cell])
    BY <1>11 DEF SpoilId
  <2> QED
    BY <1>1, <1>5, <2>1, IdIsSpoilt
<1>12. ASSUME DeleteIdColumn PROVE UserDid({})
  <2> DEFINE t == [sheet EXCEPT !.idColumn = FALSE,
                     !.rows = [i \in DOMAIN @ |-> [@[i] EXCEPT !.id = NoId]]]
  <2>1. Edit(t)
    BY <1>12 DEF DeleteIdColumn
  <2>2. Edited(sheet, t, {}) /\ t.columns = sheet.columns
    BY <1>1, IdColumnIsDeleted
  <2> HIDE DEF t
  <2> QED
    BY <1>5, <2>1, <2>2
<1>13. ASSUME NEW columns \in SUBSET Fields, SetColumns(columns) PROVE UserDid({})
  <2> DEFINE t == [sheet EXCEPT
                     !.columns = columns,
                     !.rows = [i \in DOMAIN @ |->
                                 [id |-> @[i].id,
                                  cells |-> [f \in columns |->
                                               IF f \in DOMAIN @[i].cells THEN @[i].cells[f]
                                               ELSE Blank]]]]
  <2>1. /\ pc # "downloaded"
        /\ Edit(t)
    BY <1>13 DEF SetColumns
  <2>3. \/ Replacing
        \/ \A s \in {base, snapshot} : columns \subseteq FieldsOf(s) \/ FieldsOf(s) \subseteq columns
    BY <1>13 DEF SetColumns
  <2>4. \/ Replacing
        \/ NestedSets(columns, FieldsOf(base)) /\ NestedSets(columns, FieldsOf(snapshot))
    BY <2>3 DEF NestedSets
  <2>2. Edited(sheet, t, {}) /\ t.columns = columns
    BY <1>1, ColumnsAreSet
  <2> HIDE DEF t
  <2> QED
    BY <1>3, <1>4, <2>1, <2>2, <2>4 DEF UserDid, Edit
<1>14. \A f \in Fields : sheet.columns \cup {f} \in SUBSET Fields
                         /\ sheet.columns \ {f} \in SUBSET Fields
  BY <1>1
<1> QED
  BY <1>6, <1>8, <1>9, <1>10, <1>11, <1>12, <1>13, <1>14, Zenon DEF UserEdits

LEMMA RestoreDoes ==
  ASSUME TypeOK, HasHeader(sheet), Len(sheet.rows) <= MaxRows,
         NEW id \in DOMAIN table, RestoreRow(id)
  PROVE  UserDid({id})
<1> DEFINE row == [id |-> id, cells |-> EmptyCells(sheet.columns)]
           i == Len(sheet.rows) + 1
           t == [sheet EXCEPT !.rows = InsertAt(@, i, row)]
<1>1. IsSheet(sheet) /\ sheet.columns \subseteq Fields /\ Len(sheet.rows) \in Nat /\ id \in Ids
  BY LenProperties DEF TypeOK, IsSheet
<1>2. EmptyCells(sheet.columns) \in [sheet.columns -> Cells]
  BY RowSyncAssumption DEF EmptyCells
<1>3. id \in IdCells
  BY <1>1, IdColumnAssumption DEF IdCells, Ids
<1>4. row \in RowsOf(sheet.columns) /\ row.id = id
  BY <1>2, <1>3, Zenon DEF RowsOf
<1>5. /\ sheet.idColumn /\ table[id].deleted /\ restored' = restored \cup {id}
      /\ Len(sheet.rows) < MaxRows /\ Edit(t)
  BY DEF RestoreRow, PutRow
<1>6. i \in 1 .. Len(sheet.rows) + 1
  BY <1>1
<1> HIDE DEF row, i
<1>7. Edited(sheet, t, {id}) /\ t.columns = sheet.columns
  BY <1>1, <1>4, <1>5, <1>6, RowIsPut
<1> HIDE DEF t
<1>8. {id} \subseteq Gone
  BY <1>5 DEF Gone
<1>9. edits' \in 0 .. MaxEdits
  BY <1>5, EditCounts
<1> QED
  BY <1>5, <1>7, <1>8, <1>9 DEF UserDid, Edit

-----------------------------------------------------------------------------
(* What a sync does to the sheet                                           *)

FileIds == IdsIn(file.rows)
NewFileIds == FixedIds(FileIds, nextId)
GivenIds == {NewFileIds[i] : i \in Replaced(FileIds)}
RowsToWrite == {1} \cup {i + 1 : i \in Replaced(FileIds)}

LEMMA FileFacts ==
  ASSUME TypeOK, SizesInv
  PROVE  /\ file.columns \in SUBSET Fields /\ file.rows \in Seq(RowsOf(file.columns))
         /\ Len(file.rows) \in Nat /\ Len(file.rows) <= MaxRows
         /\ FileIds \in Seq(IdCells) /\ Len(FileIds) = Len(file.rows)
         /\ \A i \in 1 .. Len(file.rows) : FileIds[i] = file.rows[i].id
         /\ NewIds = Cardinality(Replaced(FileIds)) /\ NewIds \in Nat
         /\ Replaced(FileIds) \subseteq 1 .. Len(file.rows)
<1>1. /\ file.columns \in SUBSET Fields /\ file.rows \in Seq(RowsOf(file.columns))
      /\ Len(file.rows) <= MaxRows
  BY DEF TypeOK, SizesInv
<1>2. /\ FileIds \in Seq(IdCells) /\ Len(FileIds) = Len(file.rows) /\ Len(file.rows) \in Nat
      /\ DOMAIN FileIds = 1 .. Len(file.rows)
      /\ \A i \in 1 .. Len(file.rows) : FileIds[i] = file.rows[i].id
  BY <1>1, RowIds, LenProperties DEF FileIds
<1>3. NewIds = Cardinality(Replaced(FileIds))
  BY DEF NewIds, FileIds
<1>4. Replaced(FileIds) \subseteq 1 .. Len(file.rows)
  BY <1>2 DEF Replaced
<1>5. Cardinality(Replaced(FileIds)) \in Nat
  <2>1. IsFiniteSet(1 .. Len(file.rows))
    BY <1>2, FS_Interval
  <2> QED
    BY <1>4, <2>1, FS_Subset, FS_CardinalityType
<1> QED
  BY <1>1, <1>2, <1>3, <1>4, <1>5

LEMMA NewFileFacts ==
  ASSUME TypeOK, SizesInv, EnoughIds
  PROVE  /\ NewFileIds \in [1 .. Len(file.rows) -> Ids]
         /\ \A i \in (1 .. Len(file.rows)) \ Replaced(FileIds) : NewFileIds[i] = FileIds[i]
         /\ \A i \in Replaced(FileIds) : NewFileIds[i] \in GivenIds
         /\ IdsAt(file.rows) \subseteq Range(NewFileIds)
         /\ Range(NewFileIds) \subseteq IdsAt(file.rows) \cup nextId .. nextId + NewIds - 1
         /\ Range(NewFileIds) \subseteq Ids
         /\ GivenIds \subseteq Range(NewFileIds)
         /\ GivenIds \subseteq nextId .. nextId + NewIds - 1
         /\ nextId + NewIds \in 1 .. MaxIds + 1
         /\ GivenIds \subseteq Ids
         /\ WriteRows(Batches(FileIds, NewFileIds), NewFileIds, RowsToWrite)
         /\ RowsToWrite \subseteq 1 .. Len(file.rows) + 1
<1>1. /\ FileIds \in Seq(IdCells) /\ Len(FileIds) = Len(file.rows) /\ Len(file.rows) \in Nat
      /\ NewIds = Cardinality(Replaced(FileIds)) /\ NewIds \in Nat
      /\ Replaced(FileIds) \subseteq 1 .. Len(file.rows)
  BY FileFacts
<1>2. nextId \in 1 .. MaxIds + 1 /\ nextId + Cardinality(Replaced(FileIds)) <= MaxIds + 1
  BY <1>1 DEF TypeOK, EnoughIds
<1>3. /\ NewFileIds \in [1 .. Len(FileIds) -> Ids]
      /\ \A i \in (1 .. Len(FileIds)) \ Replaced(FileIds) : NewFileIds[i] = FileIds[i]
      /\ \A i \in Replaced(FileIds) :
           NewFileIds[i] \in nextId .. nextId + Cardinality(Replaced(FileIds)) - 1
  BY <1>1, <1>2, Fixed DEF NewFileIds
<1>4. /\ Range(FileIds) \cap Ids \subseteq Range(NewFileIds)
      /\ Range(NewFileIds) \subseteq
           (Range(FileIds) \cap Ids) \cup nextId .. nextId + Cardinality(Replaced(FileIds)) - 1
      /\ Range(NewFileIds) \subseteq Ids
  BY <1>1, <1>2, FixedRange DEF NewFileIds
<1>5. IdsAt(file.rows) = Range(FileIds) \cap Ids
  BY DEF IdsAt, FileIds
<1>6. MaxIds \in Nat
  BY IdColumnAssumption
<1>7. nextId + NewIds \in 1 .. MaxIds + 1
  BY <1>1, <1>2, <1>6
<1>8. /\ GivenIds \subseteq Ids /\ GivenIds \subseteq Range(NewFileIds)
      /\ GivenIds \subseteq nextId .. nextId + NewIds - 1
  <2>1. DOMAIN NewFileIds = 1 .. Len(FileIds)
    BY <1>3
  <2> QED
    BY <1>1, <1>3, <2>1 DEF GivenIds, Range
<1>9. Ids \subseteq IdCells
  BY <1>6 DEF Ids, IdCells
<1>10. \A i \in Replaced(FileIds) : NewFileIds[i] \in IdCells
  BY <1>1, <1>3, <1>9
<1>11. WriteRows(Batches(FileIds, NewFileIds), NewFileIds, RowsToWrite)
  BY <1>1, <1>10, BatchesWrite DEF RowsToWrite
<1>12. RowsToWrite \subseteq 1 .. Len(file.rows) + 1
  BY <1>1 DEF RowsToWrite
<1> QED
  BY <1>1, <1>3, <1>4, <1>5, <1>7, <1>8, <1>11, <1>12 DEF GivenIds

\* All the batches, or some of them, give the sheet no other ids than new ones.
LEMMA IdsAreWritten ==
  ASSUME TypeOK, SizesInv, HasHeader(sheet), EnoughIds,
         NEW w, NEW rows \in SUBSET RowsToWrite, WriteRows(w, NewFileIds, rows)
  PROVE  /\ Edited(sheet, Written(sheet, w), GivenIds)
         /\ Written(sheet, w).columns = sheet.columns
<1> DEFINE t == Written(sheet, w)
<1>1. /\ Len(file.rows) \in Nat /\ Len(file.rows) <= MaxRows
      /\ Replaced(FileIds) \subseteq 1 .. Len(file.rows)
  BY FileFacts
<1>2. /\ NewFileIds \in [1 .. Len(file.rows) -> Ids]
      /\ \A i \in Replaced(FileIds) : NewFileIds[i] \in GivenIds
      /\ RowsToWrite \subseteq 1 .. Len(file.rows) + 1
  BY NewFileFacts
<1>3. Ids \subseteq IdCells /\ NoId \notin Ids /\ MaxRows \in Nat
  BY IdColumnAssumption, RowSyncAssumption DEF Ids, IdCells, NoId
<1>4. rows \in SUBSET (1 .. MaxRows + 1)
  BY <1>1, <1>2, <1>3
<1>5. ASSUME NEW i \in Nat \ {0}, i + 1 \in rows PROVE i \in Replaced(FileIds)
  <2>1. PICK j \in Replaced(FileIds) : i + 1 = j + 1 \/ i + 1 = 1
    BY <1>5 DEF RowsToWrite
  <2> QED
    BY <1>1, <2>1
<1>6. \A n \in rows \ {1} : NewFileIds[n - 1] \in IdCells
  <2> TAKE n \in rows \ {1}
  <2>1. n - 1 \in Nat \ {0} /\ (n - 1) + 1 = n
    BY <1>4
  <2>2. n - 1 \in Replaced(FileIds)
    BY <1>5, <2>1
  <2> QED
    BY <1>1, <1>2, <1>3, <2>2
<1>7. IsSheet(sheet) /\ Len(sheet.rows) <= MaxRows
  BY DEF TypeOK, SizesInv
<1>8. /\ IsSheet(t) /\ HasHeader(t)
      /\ t.columns = sheet.columns
      /\ Len(t.rows) <= MaxRows
      /\ \A i \in 1 .. Len(t.rows) :
           t.rows[i].id = IF t.idColumn /\ i + 1 \in rows THEN NewFileIds[i]
                          ELSE IF i <= Len(sheet.rows) THEN sheet.rows[i].id ELSE NoId
  BY <1>4, <1>6, <1>7, WrittenSheet
<1> HIDE DEF t
<1>9. /\ t.rows \in Seq(RowsOf(t.columns)) /\ Len(t.rows) \in Nat
      /\ sheet.rows \in Seq(RowsOf(sheet.columns)) /\ Len(sheet.rows) \in Nat
  BY <1>7, <1>8, LenProperties DEF IsSheet
<1>10. ASSUME NEW x \in IdsAt(t.rows) PROVE x \in IdsAt(sheet.rows) \cup GivenIds
  <2>1. PICK i \in 1 .. Len(t.rows) : t.rows[i].id = x
    BY <1>9, RowIds DEF IdsAt, Range
  <2>2. x \in Ids
    BY DEF IdsAt
  <2>3. CASE t.idColumn /\ i + 1 \in rows
    <3>1. i \in Replaced(FileIds)
      BY <1>5, <1>9, <2>3
    <3> QED
      BY <1>2, <1>8, <2>1, <2>3, <3>1
  <2>4. CASE ~ (t.idColumn /\ i + 1 \in rows)
    <3>1. i <= Len(sheet.rows) /\ sheet.rows[i].id = x
      BY <1>3, <1>8, <2>1, <2>2, <2>4
    <3>2. i \in 1 .. Len(sheet.rows)
      BY <1>9, <3>1
    <3> QED
      BY <1>9, <2>2, <3>1, <3>2, RowIds DEF IdsAt, Range
  <2> QED
    BY <2>3, <2>4
<1> QED
  BY <1>8, <1>10 DEF Edited, t

\* What an upload does.
UploadDid ==
  /\ pc = "downloaded" /\ EnoughIds
  /\ Edited(sheet, sheet', GivenIds)
  /\ sheet'.columns = sheet.columns
  /\ IsSnapshot(snapshot')
  /\ FieldsOf(snapshot') = file.columns
  /\ IdsOf(snapshot') = Range(NewFileIds)
  /\ Cardinality(IdsOf(snapshot')) <= MaxRows
  /\ nextId' = nextId + NewIds
  /\ pc' = "uploaded" /\ file' = NoFile
  /\ UNCHANGED <<base, table, rowsNumber, edits, touched, restored>>

LEMMA SheetIsEdited ==
  ASSUME NEW s, IsSheet(s), HasHeader(s), Len(s.rows) <= MaxRows, NEW back
  PROVE  Edited(s, s, back)
BY DEF Edited

LEMMA UploadDoes ==
  ASSUME TypeOK, SizesInv, HasHeader(sheet), FixIdsAndUpload
  PROVE  UploadDid
<1>1. /\ pc = "downloaded" /\ EnoughIds
      /\ sheet' = IF NewIds = 0 THEN sheet ELSE Written(sheet, Batches(FileIds, NewFileIds))
      /\ snapshot' = SnapshotOf(file, NewFileIds)
      /\ nextId' = nextId + NewIds
      /\ pc' = "uploaded" /\ file' = NoFile
      /\ UNCHANGED <<base, table, rowsNumber, edits, touched, restored>>
  BY DEF FixIdsAndUpload, FileIds, NewFileIds
<1>2. /\ file.columns \in SUBSET Fields /\ file.rows \in Seq(RowsOf(file.columns))
      /\ Len(file.rows) \in Nat /\ Len(file.rows) <= MaxRows
  BY FileFacts
<1>3. /\ NewFileIds \in [1 .. Len(file.rows) -> Ids]
      /\ WriteRows(Batches(FileIds, NewFileIds), NewFileIds, RowsToWrite)
  BY <1>1, NewFileFacts
<1>4. /\ IsSnapshot(snapshot')
      /\ FieldsOf(snapshot') = file.columns
      /\ IdsOf(snapshot') = Range(NewFileIds)
      /\ Cardinality(IdsOf(snapshot')) \in Nat
      /\ Cardinality(IdsOf(snapshot')) <= Len(file.rows)
  <2> DEFINE s == SnapshotOf(file, NewFileIds)
  <2>1. /\ IsSnapshot(s)
        /\ FieldsOf(s) = file.columns
        /\ IdsOf(s) = Range(NewFileIds)
        /\ Cardinality(IdsOf(s)) \in Nat
        /\ Cardinality(IdsOf(s)) <= Len(file.rows)
    BY <1>2, <1>3, SnapshotIs
  <2>2. snapshot' = s
    BY <1>1
  <2> HIDE DEF s
  <2> QED
    BY <2>1, <2>2
<1>5. Cardinality(IdsOf(snapshot')) <= MaxRows
  BY <1>2, <1>4, RowSyncAssumption
<1>6. Edited(sheet, sheet', GivenIds) /\ sheet'.columns = sheet.columns
  <2>1. CASE NewIds = 0
    BY <1>1, <2>1, SheetIsEdited DEF TypeOK, SizesInv
  <2>2. CASE NewIds # 0
    <3>1. sheet' = Written(sheet, Batches(FileIds, NewFileIds))
      BY <1>1, <2>2
    <3>2. /\ Edited(sheet, Written(sheet, Batches(FileIds, NewFileIds)), GivenIds)
          /\ Written(sheet, Batches(FileIds, NewFileIds)).columns = sheet.columns
      BY <1>1, <1>3, IdsAreWritten
    <3> QED
      BY <3>1, <3>2
  <2> QED
    BY <2>1, <2>2
<1> QED
  BY <1>1, <1>4, <1>5, <1>6 DEF UploadDid

\* What a failing upload leaves behind.
UploadFailed ==
  /\ pc = "downloaded" /\ EnoughIds
  /\ Edited(sheet, sheet', GivenIds)
  /\ sheet'.columns = sheet.columns
  /\ nextId' = nextId + NewIds
  /\ End
  /\ UNCHANGED <<base, table, rowsNumber, edits, restored>>

LEMMA UploadFails ==
  ASSUME TypeOK, SizesInv, HasHeader(sheet), FixIdsFails
  PROVE  UploadFailed
<1> DEFINE w == Batches(FileIds, NewFileIds)
<1>1. /\ pc = "downloaded" /\ EnoughIds
      /\ \E done \in SUBSET DOMAIN w : sheet' = Written(sheet, [r \in done |-> w[r]])
      /\ nextId' = nextId + NewIds
      /\ End
      /\ UNCHANGED <<base, table, rowsNumber, edits, restored>>
  BY DEF FixIdsFails, FileIds, NewFileIds
<1>2. WriteRows(w, NewFileIds, RowsToWrite)
  BY <1>1, NewFileFacts
<1> HIDE DEF w
<1>3. PICK done \in SUBSET DOMAIN w : sheet' = Written(sheet, [r \in done |-> w[r]])
  BY <1>1
<1> DEFINE some == [r \in done |-> w[r]]
<1>4. /\ RowsWritten(some) \subseteq RowsToWrite
      /\ WriteRows(some, NewFileIds, RowsWritten(some))
  BY <1>2, SomeBatches
<1>5. sheet' = Written(sheet, some)
  BY <1>3
<1> HIDE DEF some
<1>6. /\ Edited(sheet, Written(sheet, some), GivenIds)
      /\ Written(sheet, some).columns = sheet.columns
  BY <1>1, <1>4, IdsAreWritten
<1> QED
  BY <1>1, <1>5, <1>6 DEF UploadFailed

-----------------------------------------------------------------------------
(* The sheet, the table and the number of rows                             *)

LEMMA NoSnapshotIs ==
  /\ IsSnapshot(NoSnapshot)
  /\ FieldsOf(NoSnapshot) = {} /\ IdsOf(NoSnapshot) = {}
  /\ Cardinality(IdsOf(NoSnapshot)) = 0
<1>1. FieldsOf(NoSnapshot) = {} /\ IdsOf(NoSnapshot) = {}
  BY DEF FieldsOf, IdsOf, NoSnapshot
<1>2. NoSnapshot.type \in [{} -> Types] /\ NoSnapshot.rows \in [{} -> [{} -> Cells]]
  BY DEF NoSnapshot
<1>3. Cardinality({}) = 0
  BY FS_EmptySet
<1> QED
  BY <1>1, <1>2, <1>3 DEF IsSnapshot

LEMMA NoFileIs ==
  /\ NoFile \in [columns : SUBSET Fields, rows : Seq(RowsOf(NoFile.columns))]
  /\ NoFile.columns = {} /\ NoFile.rows = << >> /\ Len(NoFile.rows) = 0
BY DEF NoFile

LEMMA SnapshotIsFinite ==
  ASSUME NEW s, IsSnapshot(s)
  PROVE  IsFiniteSet(IdsOf(s)) /\ Cardinality(IdsOf(s)) \in Nat
<1>1. IdsOf(s) \subseteq 1 .. MaxIds
  BY DEF IsSnapshot, Ids
<1>2. IsFiniteSet(1 .. MaxIds)
  BY FS_Interval, IdColumnAssumption
<1> QED
  BY <1>1, <1>2, FS_Subset, FS_CardinalityType

LEMMA FirstNewIdIs ==
  ASSUME NEW s, IsSheet(s)
  PROVE  /\ FirstNewId(s) \in 1 .. MaxIds + 1
         /\ IdsAt(s.rows) \subseteq 1 .. FirstNewId(s) - 1
<1> DEFINE S == {0} \cup IdsAt(s.rows)
<1>1. MaxIds \in Nat
  BY IdColumnAssumption
<1>2. S \subseteq 0 .. MaxIds /\ S # {}
  BY <1>1 DEF IdsAt, Ids
<1>3. FirstNewId(s) = 1 + Max(S)
  BY DEF FirstNewId, IdsAt
<1> HIDE DEF S
<1>4. Max(S) \in S /\ \A x \in S : x <= Max(S)
  BY <1>1, <1>2, Greatest
<1>5. Max(S) \in 0 .. MaxIds
  BY <1>2, <1>4
<1>6. IdsAt(s.rows) \subseteq 1 .. MaxIds /\ IdsAt(s.rows) \subseteq S
  BY DEF IdsAt, Ids, S
<1>7. ASSUME NEW x \in IdsAt(s.rows) PROVE x \in 1 .. FirstNewId(s) - 1
  <2>1. x \in 1 .. MaxIds /\ x <= Max(S)
    BY <1>4, <1>6
  <2> QED
    BY <1>1, <1>3, <1>5, <2>1
<1> QED
  BY <1>1, <1>3, <1>5, <1>7

LEMMA SheetIsFound ==
  ASSUME Init
  PROVE  IsSheet(sheet) /\ HasHeader(sheet) /\ Len(sheet.rows) <= MaxRows
BY SheetsAssumption DEF Init, HasHeader

LEMMA RowsInit ==
  ASSUME Init
  PROVE  RowsInv
<1>1. /\ file = NoFile /\ snapshot = NoSnapshot /\ base = NoSnapshot
      /\ table = << >> /\ rowsNumber = 0 /\ pc = "idle" /\ nextId = FirstNewId(sheet)
      /\ edits = 0 /\ touched = FALSE /\ restored = {}
  BY DEF Init
<1>2. IsSheet(sheet) /\ HasHeader(sheet) /\ Len(sheet.rows) <= MaxRows
  BY SheetIsFound
<1>3. nextId \in 1 .. MaxIds + 1
  BY <1>1, <1>2, FirstNewIdIs
<1>4. DOMAIN table = {}
  BY <1>1
<1>5. MaxRows \in Nat /\ MaxEdits \in Nat
  BY RowSyncAssumption
<1>6. IsSnapshot(snapshot) /\ IsSnapshot(base) /\ IdsOf(base) = {}
      /\ Cardinality(IdsOf(base)) = 0 /\ Cardinality(IdsOf(snapshot)) = 0
  BY <1>1, NoSnapshotIs
<1>7. file \in [columns : SUBSET Fields, rows : Seq(RowsOf(file.columns))] /\ Len(file.rows) = 0
  BY <1>1, NoFileIs
<1>8. rowsNumber \in 0 .. MaxRows /\ edits \in 0 .. MaxEdits /\ restored \subseteq Ids
  BY <1>1, <1>5
<1>9. TypeOK
  BY <1>1, <1>2, <1>3, <1>4, <1>6, <1>7, <1>8 DEF TypeOK
<1>10. SizesInv
  BY <1>2, <1>5, <1>6, <1>7 DEF SizesInv
<1>11. VisibleInv
  BY <1>4, <1>6 DEF VisibleInv
<1>12. StepInv /\ CountInv
  BY <1>1, <1>6 DEF StepInv, CountInv
<1> QED
  BY <1>2, <1>9, <1>10, <1>11, <1>12 DEF RowsInv

\* What the end of a sync leaves.
LEMMA Ended ==
  ASSUME End
  PROVE  /\ file' = NoFile /\ snapshot' = NoSnapshot /\ pc' = "idle" /\ touched' = FALSE
         /\ IsSnapshot(snapshot') /\ IdsOf(snapshot') = {} /\ FieldsOf(snapshot') = {}
         /\ Cardinality(IdsOf(snapshot')) = 0
         /\ file' \in [columns : SUBSET Fields, rows : Seq(RowsOf(file'.columns))]
         /\ file'.rows = << >> /\ Len(file'.rows) = 0
         /\ StepInv'
BY NoFileIs, NoSnapshotIs DEF End, StepInv

LEMMA DownloadedIs ==
  ASSUME IsSheet(sheet), Len(sheet.rows) <= MaxRows, Download
  PROVE  /\ file' \in [columns : SUBSET Fields, rows : Seq(RowsOf(file'.columns))]
         /\ file'.columns = sheet.columns
         /\ file'.rows = Trimmed(sheet.rows)
         /\ Len(file'.rows) <= MaxRows
<1>1. sheet.columns \in SUBSET Fields /\ sheet.rows \in Seq(RowsOf(sheet.columns))
  BY DEF IsSheet
<1>2. Trimmed(sheet.rows) \in Seq(RowsOf(sheet.columns))
      /\ Len(Trimmed(sheet.rows)) <= Len(sheet.rows)
      /\ Len(Trimmed(sheet.rows)) \in Nat /\ Len(sheet.rows) \in Nat
  BY <1>1, TrimmedRows, LenProperties
<1>3. file' = [columns |-> sheet.columns, rows |-> Trimmed(sheet.rows)]
  BY DEF Download, Downloaded
<1>4. Len(Trimmed(sheet.rows)) <= MaxRows
  BY <1>2, RowSyncAssumption
<1> QED
  BY <1>1, <1>2, <1>3, <1>4

LEMMA RowsUser ==
  ASSUME RowsInv, NEW back, UserDid(back)
  PROVE  RowsInv'
<1>1. IsSheet(sheet') /\ HasHeader(sheet') /\ Len(sheet'.rows) <= MaxRows
  BY DEF UserDid, Edited
<1>2. /\ file' = file /\ snapshot' = snapshot /\ base' = base /\ table' = table
      /\ rowsNumber' = rowsNumber /\ pc' = pc /\ nextId' = nextId
  BY DEF UserDid
<1>3. restored' \subseteq Ids /\ edits' \in 0 .. MaxEdits /\ touched' \in BOOLEAN
  <2>1. back \subseteq Ids /\ restored \subseteq Ids
    BY DEF UserDid, Gone, RowsInv, TypeOK
  <2> QED
    BY <2>1 DEF UserDid
<1>4. TypeOK'
  BY <1>1, <1>2, <1>3 DEF RowsInv, TypeOK
<1>5. SizesInv'
  BY <1>1, <1>2 DEF RowsInv, SizesInv
<1>6. StepInv'
  <2>1. touched' = (pc # "idle")
    BY DEF UserDid
  <2> QED
    BY <1>2, <2>1 DEF RowsInv, StepInv
<1>7. VisibleInv' /\ CountInv'
  BY <1>2 DEF RowsInv, VisibleInv, CountInv
<1> QED
  BY <1>1, <1>4, <1>5, <1>6, <1>7 DEF RowsInv

LEMMA RowsDownload ==
  ASSUME RowsInv, Download
  PROVE  RowsInv'
<1>1. IsSheet(sheet) /\ HasHeader(sheet) /\ Len(sheet.rows) <= MaxRows
  BY DEF RowsInv, TypeOK, SizesInv
<1>2. /\ pc = "idle" /\ pc' = "downloaded"
      /\ sheet' = sheet /\ snapshot' = snapshot /\ base' = base /\ table' = table
      /\ rowsNumber' = rowsNumber /\ nextId' = nextId /\ edits' = edits
      /\ touched' = touched /\ restored' = restored
  BY DEF Download
<1>3. /\ file' \in [columns : SUBSET Fields, rows : Seq(RowsOf(file'.columns))]
      /\ Len(file'.rows) <= MaxRows
  BY <1>1, DownloadedIs
<1>4. TypeOK'
  BY <1>2, <1>3 DEF RowsInv, TypeOK
<1>5. SizesInv'
  BY <1>2, <1>3 DEF RowsInv, SizesInv
<1>6. StepInv'
  BY <1>2 DEF RowsInv, StepInv
<1>7. VisibleInv' /\ CountInv'
  BY <1>2 DEF RowsInv, VisibleInv, CountInv
<1>8. HasHeader(sheet)'
  BY <1>1, <1>2
<1> QED
  BY <1>4, <1>5, <1>6, <1>7, <1>8 DEF RowsInv

LEMMA RowsUpload ==
  ASSUME RowsInv, UploadDid
  PROVE  RowsInv'
<1>1. IsSheet(sheet') /\ HasHeader(sheet') /\ Len(sheet'.rows) <= MaxRows
  BY DEF UploadDid, Edited
<1>2. /\ pc' = "uploaded" /\ file' = NoFile /\ nextId' = nextId + NewIds /\ EnoughIds
      /\ base' = base /\ table' = table /\ rowsNumber' = rowsNumber
      /\ edits' = edits /\ touched' = touched /\ restored' = restored
      /\ IsSnapshot(snapshot') /\ Cardinality(IdsOf(snapshot')) <= MaxRows
  BY DEF UploadDid
<1>3. nextId' \in 1 .. MaxIds + 1
  BY <1>2, NewFileFacts DEF RowsInv
<1>4. /\ file' \in [columns : SUBSET Fields, rows : Seq(RowsOf(file'.columns))]
      /\ Len(file'.rows) <= MaxRows
  BY <1>2, NoFileIs, RowSyncAssumption
<1>5. TypeOK'
  BY <1>1, <1>2, <1>3, <1>4 DEF RowsInv, TypeOK
<1>6. SizesInv'
  BY <1>1, <1>2, <1>4 DEF RowsInv, SizesInv
<1>7. StepInv'
  BY <1>2 DEF StepInv
<1>8. VisibleInv' /\ CountInv'
  BY <1>2 DEF RowsInv, VisibleInv, CountInv
<1> QED
  BY <1>1, <1>5, <1>6, <1>7, <1>8 DEF RowsInv

\* A sync that ends without a load.
LEMMA RowsEnd ==
  ASSUME RowsInv, IsSheet(sheet'), HasHeader(sheet'), Len(sheet'.rows) <= MaxRows,
         nextId' \in 1 .. MaxIds + 1, End,
         UNCHANGED <<base, table, rowsNumber, edits, restored>>
  PROVE  RowsInv'
<1>1. /\ pc' = "idle" /\ touched' = FALSE
      /\ IsSnapshot(snapshot') /\ Cardinality(IdsOf(snapshot')) = 0
      /\ file' \in [columns : SUBSET Fields, rows : Seq(RowsOf(file'.columns))]
      /\ Len(file'.rows) = 0
      /\ StepInv'
  BY Ended
<1>2. MaxRows \in Nat
  BY RowSyncAssumption
<1>3. TypeOK'
  BY <1>1 DEF RowsInv, TypeOK
<1>4. SizesInv'
  BY <1>1, <1>2 DEF RowsInv, SizesInv
<1>5. VisibleInv' /\ CountInv'
  BY DEF RowsInv, VisibleInv, CountInv
<1> QED
  BY <1>1, <1>3, <1>4, <1>5 DEF RowsInv

\* Two versions differ in size by what was added and deleted.
LEMMA CountedRows ==
  ASSUME NEW p, NEW c, IsSnapshot(p), IsSnapshot(c)
  PROVE  /\ Cardinality(AddedIds(p, c)) \in Nat /\ Cardinality(DeletedIds(p, c)) \in Nat
         /\ Cardinality(IdsOf(c)) = Cardinality(IdsOf(p)) + Cardinality(AddedIds(p, c))
                                      - Cardinality(DeletedIds(p, c))
<1> DEFINE P == IdsOf(p)
           C == IdsOf(c)
<1>1. IsFiniteSet(P) /\ IsFiniteSet(C) /\ Cardinality(P) \in Nat /\ Cardinality(C) \in Nat
  BY SnapshotIsFinite
<1> HIDE DEF P, C
<1>2. IsFiniteSet(C \ P) /\ Cardinality(C \ P) = Cardinality(C) - Cardinality(C \cap P)
  BY <1>1, FS_Difference
<1>3. IsFiniteSet(P \ C) /\ Cardinality(P \ C) = Cardinality(P) - Cardinality(P \cap C)
  BY <1>1, FS_Difference
<1>4. P \cap C = C \cap P /\ IsFiniteSet(C \cap P)
  BY <1>1, FS_Subset
<1>5. /\ Cardinality(C \ P) \in Nat /\ Cardinality(P \ C) \in Nat
      /\ Cardinality(C \cap P) \in Nat
  BY <1>2, <1>3, <1>4, FS_CardinalityType
<1>6. Cardinality(C) = Cardinality(P) + Cardinality(C \ P) - Cardinality(P \ C)
  <2> DEFINE p1 == Cardinality(P)
             c1 == Cardinality(C)
             both == Cardinality(C \cap P)
             added == Cardinality(C \ P)
             deleted == Cardinality(P \ C)
  <2>1. added = c1 - both /\ deleted = p1 - both
    BY <1>2, <1>3, <1>4
  <2>2. p1 \in Nat /\ c1 \in Nat /\ both \in Nat
    BY <1>1, <1>5
  <2> HIDE DEF p1, c1, both, added, deleted
  <2>3. c1 = p1 + added - deleted
    BY <2>1, <2>2
  <2> QED
    BY <2>3 DEF p1, c1, added, deleted
<1> QED
  BY <1>5, <1>6 DEF AddedIds, DeletedIds, P, C

LEMMA RowsLoad ==
  ASSUME RowsInv, Load
  PROVE  RowsInv'
<1>1. /\ pc = "uploaded" /\ Conflicting(table, base, snapshot) = {}
      /\ table' = Loaded(table, base, snapshot)
      /\ rowsNumber' = rowsNumber + Cardinality(AddedIds(base, snapshot))
                         - Cardinality(DeletedIds(base, snapshot))
      /\ base' = snapshot
      /\ End
      /\ sheet' = sheet /\ nextId' = nextId /\ edits' = edits /\ restored' = restored
  BY DEF Load
<1>2. /\ pc' = "idle" /\ touched' = FALSE
      /\ IsSnapshot(snapshot') /\ Cardinality(IdsOf(snapshot')) = 0
      /\ file' \in [columns : SUBSET Fields, rows : Seq(RowsOf(file'.columns))]
      /\ Len(file'.rows) = 0
      /\ StepInv'
  BY <1>1, Ended
<1>3. /\ IsSnapshot(base) /\ IsSnapshot(snapshot)
      /\ Cardinality(IdsOf(snapshot)) <= MaxRows /\ Cardinality(IdsOf(snapshot)) \in Nat
      /\ IdsOf(snapshot) \subseteq Ids /\ DOMAIN table \subseteq Ids
      /\ {id \in DOMAIN table : ~table[id].deleted} = IdsOf(base)
      /\ rowsNumber = Cardinality(IdsOf(base))
  BY SnapshotIsFinite DEF RowsInv, TypeOK, SizesInv, VisibleInv, CountInv, IsSnapshot
<1>4. /\ {id \in DOMAIN Loaded(table, base, snapshot) :
            ~Loaded(table, base, snapshot)[id].deleted} = IdsOf(snapshot)
      /\ DOMAIN Loaded(table, base, snapshot) = DOMAIN table \cup AddedIds(base, snapshot)
  BY <1>1, <1>3, LoadedIds
<1>5. DOMAIN table' \subseteq Ids
  BY <1>1, <1>3, <1>4 DEF AddedIds
<1>6. rowsNumber' = Cardinality(IdsOf(snapshot))
  BY <1>1, <1>3, CountedRows
<1>7. MaxRows \in Nat
  BY RowSyncAssumption
<1>8. rowsNumber' \in 0 .. MaxRows
  BY <1>3, <1>6, <1>7
<1>9. TypeOK'
  BY <1>1, <1>2, <1>3, <1>5, <1>8 DEF RowsInv, TypeOK
<1>10. SizesInv'
  BY <1>1, <1>2, <1>3, <1>7 DEF RowsInv, SizesInv
<1>11. VisibleInv' /\ CountInv'
  BY <1>1, <1>4, <1>6 DEF VisibleInv, CountInv
<1>12. HasHeader(sheet)'
  BY <1>1 DEF RowsInv
<1> QED
  BY <1>2, <1>9, <1>10, <1>11, <1>12 DEF RowsInv

LEMMA RowsNext ==
  ASSUME RowsInv, [Next]_vars
  PROVE  RowsInv'
<1>1. TypeOK /\ SizesInv /\ HasHeader(sheet) /\ IsSheet(sheet) /\ Len(sheet.rows) <= MaxRows
  BY DEF RowsInv, TypeOK, SizesInv
<1>2. CASE Download
  BY <1>2, RowsDownload
<1>3. CASE FixIdsAndUpload
  BY <1>1, <1>3, UploadDoes, RowsUpload
<1>4. CASE FixIdsFails
  <2>1. UploadFailed
    BY <1>1, <1>4, UploadFails
  <2>2. nextId' \in 1 .. MaxIds + 1
    BY <1>1, <2>1, NewFileFacts DEF UploadFailed
  <2> QED
    BY <2>1, <2>2, RowsEnd DEF UploadFailed, Edited
<1>5. CASE Load
  BY <1>5, RowsLoad
<1>6. CASE GiveUp
  BY <1>1, <1>6, RowsEnd DEF GiveUp, TypeOK
<1>7. CASE UserEdits /\ UNCHANGED restored
  BY <1>1, <1>7, UserEditsDo, RowsUser
<1>8. CASE \E id \in DOMAIN table : RestoreRow(id)
  BY <1>1, <1>8, RestoreDoes, RowsUser
<1>9. CASE UNCHANGED vars
  BY <1>9 DEF vars, RowsInv, TypeOK, SizesInv, StepInv, VisibleInv, CountInv
<1> QED
  BY <1>2, <1>3, <1>4, <1>5, <1>6, <1>7, <1>8, <1>9 DEF Next

\* Each step keeps the types and the sizes, shows the reader the rows of the version
\* loaded last, and counts them.
THEOREM RowsAlways == Spec => []RowsInv
<1>1. RowsInv /\ [Next]_vars => RowsInv'
  BY RowsNext
<1> QED
  BY RowsInit, <1>1, PTL DEF Spec

\* The types; and that no version has more rows than the sheet may have.
THEOREM RowTypes == Spec => []TypeOK
<1>1. RowsInv => TypeOK
  BY DEF RowsInv
<1> QED
  BY <1>1, RowsAlways, PTL

\* The number of rows, kept by adding and subtracting what each load reported, is
\* the number of rows in the table.
THEOREM RowsAreCounted == Spec => []RowsNumberIsRows
<1>1. RowsInv => RowsNumberIsRows
  BY DEF RowsInv, VisibleInv, CountInv, RowsNumberIsRows
<1> QED
  BY <1>1, RowsAlways, PTL

-----------------------------------------------------------------------------
(* Errors, and what a reader of the table sees                             *)

LEMMA BlankIsNoError == Blank # ErrorValue
BY DEF Blank, ErrorValue

\* A value of a version is the error value only if its cell is.
LEMMA ErrorOfValue ==
  ASSUME NEW s, NEW id, NEW f, Value(s, id, f).raw = ErrorValue
  PROVE  s.rows[id][f] = ErrorValue
<1>1. CASE s.rows[id][f] = Blank
  BY <1>1, BlankIsNoError DEF Value, Null
<1>2. CASE s.rows[id][f] # Blank
  BY <1>2 DEF Value
<1> QED
  BY <1>1, <1>2

\* A row that gets an error is marked, and one that had it stays marked.
LEMMA LoadMarks ==
  ASSUME NEW t, NEW p, NEW c, NEW id \in DOMAIN Loaded(t, p, c),
         id \in DOMAIN t /\ ~t[id].deleted /\ HasError(t[id].data) => t[id].error,
         ~Loaded(t, p, c)[id].deleted, HasError(Loaded(t, p, c)[id].data)
  PROVE  Loaded(t, p, c)[id].error
<1> DEFINE row == Loaded(t, p, c)[id]
<1>1. CASE id \in AddedIds(p, c)
  <2>1. row = Inserted(p, c, id)
    BY <1>1 DEF Loaded
  <2>2. /\ row.data = [f \in FieldsOf(c) |-> Value(c, id, f)]
        /\ row.error = GotError(p, c, id)
    BY <2>1 DEF Inserted
  <2> HIDE DEF row
  <2>3. PICK f \in FieldsOf(c) : Value(c, id, f).raw = ErrorValue
    BY <2>2 DEF HasError, row
  <2>4. c.rows[id][f] = ErrorValue
    BY <2>3, ErrorOfValue
  <2>5. f \in Sent(p, c, id)
    BY <1>1, <2>3 DEF Sent
  <2>6. GotError(p, c, id)
    BY <2>4, <2>5, Zenon DEF GotError
  <2> QED
    BY <2>2, <2>6 DEF row
<1>2. CASE id \notin AddedIds(p, c)
  <2> DEFINE data == LoadedData(p, c, id, t[id].data)
  <2>1. id \in DOMAIN t /\ row = LoadedRow(p, c, t[id], id)
    BY <1>2 DEF Loaded
  <2>2. /\ row.data = data
        /\ row.deleted = (t[id].deleted \/ id \in DeletedIds(p, c))
        /\ row.error = ErrorMark(p, c, t[id], id, data)
    BY <2>1 DEF LoadedRow
  <2> HIDE DEF row
  <2>3. ~t[id].deleted /\ HasError(data)
    BY <2>2 DEF row
  <2> HIDE DEF data
  <2>4. ASSUME ~GotError(p, c, id) PROVE t[id].error
    <3>1. PICK f \in DOMAIN data : data[f].raw = ErrorValue
      BY <2>3 DEF HasError
    <3>2. /\ DOMAIN data = (DOMAIN t[id].data \ DeletedFields(p, c)) \cup Sent(p, c, id)
          /\ data[f] = IF f \in Sent(p, c, id) THEN Value(c, id, f)
                       ELSE IF f \in Nulled(p, c, id) THEN Null
                       ELSE t[id].data[f]
      BY <3>1 DEF data, LoadedData
    <3>3. f \notin Sent(p, c, id)
      <4> SUFFICES ASSUME f \in Sent(p, c, id) PROVE FALSE
        OBVIOUS
      <4>1. c.rows[id][f] = ErrorValue
        BY <3>1, <3>2, ErrorOfValue
      <4> QED
        BY <2>4, <4>1, Zenon DEF GotError
    <3>4. f \notin Nulled(p, c, id)
      <4>1. Null.raw # ErrorValue
        BY BlankIsNoError DEF Null
      <4> QED
        BY <3>1, <3>2, <3>3, <4>1
    <3>5. f \in DOMAIN t[id].data /\ t[id].data[f].raw = ErrorValue
      BY <3>1, <3>2, <3>3, <3>4
    <3>6. HasError(t[id].data)
      BY <3>5, Zenon DEF HasError
    <3> QED
      BY <2>1, <2>3, <3>6
  <2>5. IsDataChanged(p, c) => t[id].error \/ GotError(p, c, id)
    BY <2>4
  <2>6. ~IsDataChanged(p, c) => t[id].error
    <3> SUFFICES ASSUME ~IsDataChanged(p, c) PROVE ~GotError(p, c, id)
      BY <2>4
    <3>1. Sent(p, c, id) = {}
      <4>1. CASE id \in IdsOf(c)
        BY <4>1 DEF IsDataChanged
      <4>2. CASE id \notin IdsOf(c)
        BY <1>2, <4>2 DEF Sent
      <4> QED
        BY <4>1, <4>2
    <3> QED
      BY <3>1 DEF GotError
  <2>7. ErrorMark(p, c, t[id], id, data)
    BY <2>3, <2>5, <2>6, Zenon DEF ErrorMark
  <2> QED
    BY <2>2, <2>7 DEF row
<1> QED
  BY <1>1, <1>2

\* Only a load changes the table and the version that was loaded last.
LEMMA OnlyLoads ==
  ASSUME [Next]_vars, ~Load
  PROVE  table' = table /\ base' = base
<1>1. CASE Download
  BY <1>1 DEF Download
<1>2. CASE FixIdsAndUpload
  BY <1>2 DEF FixIdsAndUpload
<1>3. CASE FixIdsFails
  BY <1>3 DEF FixIdsFails
<1>4. CASE GiveUp
  BY <1>4 DEF GiveUp
<1>5. \A s : Edit(s) => table' = table /\ base' = base
  BY DEF Edit
<1>6. CASE UserEdits
  BY <1>5, <1>6 DEF UserEdits, SetCell, PutRow, DeleteRow, SpoilId, DeleteIdColumn, SetColumns
<1>7. CASE \E id \in DOMAIN table : RestoreRow(id)
  BY <1>5, <1>7 DEF RestoreRow, PutRow
<1>8. CASE UNCHANGED vars
  BY <1>8 DEF vars
<1> QED
  BY <1>1, <1>2, <1>3, <1>4, <1>6, <1>7, <1>8 DEF Next

\* A visible row that holds an error is marked, however the error got there.
THEOREM ErrorsAlwaysMarked == Spec => []ErrorsAreMarked
<1>1. Init => ErrorsAreMarked
  <2> SUFFICES ASSUME Init PROVE ErrorsAreMarked
    OBVIOUS
  <2>1. DOMAIN table = {}
    BY DEF Init
  <2> QED
    BY <2>1 DEF ErrorsAreMarked
<1>2. ErrorsAreMarked /\ [Next]_vars => ErrorsAreMarked'
  <2> SUFFICES ASSUME ErrorsAreMarked, [Next]_vars PROVE ErrorsAreMarked'
    OBVIOUS
  <2>1. CASE Load
    <3>1. table' = Loaded(table, base, snapshot)
      BY <2>1 DEF Load
    <3>2. \A id \in DOMAIN table : ~table[id].deleted /\ HasError(table[id].data) => table[id].error
      BY DEF ErrorsAreMarked
    <3> DEFINE after == Loaded(table, base, snapshot)
    <3>3. ASSUME NEW id \in DOMAIN after, ~after[id].deleted, HasError(after[id].data)
          PROVE  after[id].error
      BY <3>2, <3>3, LoadMarks
    <3> HIDE DEF after
    <3>4. table' = after
      BY <3>1 DEF after
    <3> QED
      BY <3>3, <3>4 DEF ErrorsAreMarked
  <2>2. CASE table' = table
    BY <2>2 DEF ErrorsAreMarked
  <2>3. Load \/ table' = table
    BY OnlyLoads
  <2> QED
    BY <2>1, <2>2, <2>3
<1> QED
  BY <1>1, <1>2, PTL DEF Spec

LEMMA NestedInit ==
  ASSUME Init
  PROVE  NestedInv
<1>1. pc = "idle" /\ base = NoSnapshot /\ snapshot = NoSnapshot
  BY DEF Init
<1> QED
  BY <1>1, NoSnapshotIs DEF NestedInv, NestedSets

LEMMA NestedNext ==
  ASSUME RowsInv, NestedInv, [Next]_vars
  PROVE  NestedInv'
<1>1. TypeOK /\ SizesInv /\ HasHeader(sheet) /\ IsSheet(sheet) /\ Len(sheet.rows) <= MaxRows
  BY DEF RowsInv, TypeOK, SizesInv
<1>2. /\ pc = "downloaded" => file.columns = sheet.columns
      /\ ~Replacing =>
           /\ NestedSets(sheet.columns, FieldsOf(base))
           /\ NestedSets(sheet.columns, FieldsOf(snapshot))
           /\ NestedSets(FieldsOf(base), FieldsOf(snapshot))
  BY DEF NestedInv
<1>3. ASSUME pc' = "downloaded" => file'.columns = sheet'.columns,
             ~Replacing =>
               /\ NestedSets(sheet'.columns, FieldsOf(base'))
               /\ NestedSets(sheet'.columns, FieldsOf(snapshot'))
               /\ NestedSets(FieldsOf(base'), FieldsOf(snapshot'))
      PROVE  NestedInv'
  BY <1>3 DEF NestedInv, NestedSets, FieldsOf
<1>4. ASSUME NEW F PROVE NestedSets(F, F) /\ NestedSets(F, {})
  BY DEF NestedSets
<1>5. \A F, G : NestedSets(F, G) => NestedSets(G, F)
  BY DEF NestedSets
<1>6. CASE Download
  <2>1. /\ sheet' = sheet /\ base' = base /\ snapshot' = snapshot
        /\ file'.columns = sheet.columns
    BY <1>1, <1>6, DownloadedIs DEF Download
  <2> QED
    BY <1>2, <1>3, <2>1
<1>7. CASE FixIdsAndUpload
  <2>1. /\ pc = "downloaded" /\ pc' = "uploaded" /\ sheet'.columns = sheet.columns
        /\ FieldsOf(snapshot') = file.columns /\ base' = base
    BY <1>1, <1>7, UploadDoes DEF UploadDid
  <2> QED
    BY <1>2, <1>3, <1>4, <1>5, <2>1
<1>8. ASSUME End, sheet'.columns = sheet.columns, base' = base PROVE NestedInv'
  <2>1. pc' = "idle" /\ FieldsOf(snapshot') = {}
    BY <1>8, Ended
  <2> QED
    BY <1>2, <1>3, <1>4, <1>8, <2>1
<1>9. CASE FixIdsFails
  BY <1>1, <1>8, <1>9, UploadFails DEF UploadFailed
<1>10. CASE Load
  <2>1. base' = snapshot /\ sheet' = sheet /\ End
    BY <1>10 DEF Load
  <2>2. pc' = "idle" /\ FieldsOf(snapshot') = {}
    BY <2>1, Ended
  <2> QED
    BY <1>2, <1>3, <1>4, <2>1, <2>2
<1>11. CASE GiveUp
  BY <1>8, <1>11 DEF GiveUp
<1>12. ASSUME NEW back, UserDid(back) PROVE NestedInv'
  <2>1. /\ pc = "downloaded" => sheet'.columns = sheet.columns
        /\ \/ sheet'.columns = sheet.columns
           \/ Replacing
           \/ /\ NestedSets(sheet'.columns, FieldsOf(base))
              /\ NestedSets(sheet'.columns, FieldsOf(snapshot))
        /\ file' = file /\ snapshot' = snapshot /\ base' = base /\ pc' = pc
    BY <1>12 DEF UserDid
  <2> QED
    BY <1>2, <1>3, <2>1
<1>13. CASE UserEdits /\ UNCHANGED restored
  BY <1>1, <1>12, <1>13, UserEditsDo
<1>14. CASE \E id \in DOMAIN table : RestoreRow(id)
  BY <1>1, <1>12, <1>14, RestoreDoes
<1>15. CASE UNCHANGED vars
  BY <1>15 DEF vars, NestedInv
<1> QED
  BY <1>6, <1>7, <1>9, <1>10, <1>11, <1>13, <1>14, <1>15 DEF Next

\* The two conditions of the comparer's row hash, for the sheet's versions.
LEMMA VersionIsDownloaded ==
  ASSUME NEW s, IsSnapshot(s), "0" \notin Cells
  PROVE  IsDownloaded(s) /\ NoDefaults(s)
<1>1. FieldsOf(s) \subseteq Fields /\ s.rows \in [IdsOf(s) -> [FieldsOf(s) -> Cells]]
  BY DEF IsSnapshot
<1>2. FieldsOf(s) \subseteq Nat /\ IsFiniteSet(FieldsOf(s))
  BY <1>1, RowSyncAssumption, FS_Subset
<1>3. \A id \in IdsOf(s), f \in FieldsOf(s) : s.rows[id][f] \in Cells
  BY <1>1
<1> QED
  BY <1>2, <1>3 DEF IsDownloaded, NoDefaults

\* After each load the rows a reader of the table sees are exactly those of the
\* loaded version, with all their fields and values, whatever was edited, replaced,
\* deleted or given up since the last: if columns are added or removed between two
\* syncs, not replaced by others, and no cell is 0, which the row hash takes for
\* an empty one.
THEOREM TableAlwaysSnapshot ==
  ASSUME ~Replacing, "0" \notin Cells
  PROVE  Spec => []TableIsSnapshot
<1>1. Init => TableIsSnapshot
  <2> SUFFICES ASSUME Init PROVE TableIsSnapshot
    OBVIOUS
  <2>1. DOMAIN table = {} /\ base = NoSnapshot
    BY DEF Init
  <2> QED
    BY <2>1, NoSnapshotIs DEF TableIsSnapshot, Shows
<1>2. RowsInv /\ NestedInv /\ TableIsSnapshot /\ [Next]_vars => TableIsSnapshot'
  <2> SUFFICES ASSUME RowsInv, NestedInv, TableIsSnapshot, [Next]_vars PROVE TableIsSnapshot'
    OBVIOUS
  <2>1. CASE Load
    <3>1. /\ table' = Loaded(table, base, snapshot) /\ base' = snapshot
          /\ Conflicting(table, base, snapshot) = {}
      BY <2>1 DEF Load
    <3>2. IsSnapshot(base) /\ IsSnapshot(snapshot)
      BY DEF RowsInv, TypeOK
    <3>3. /\ IsDownloaded(base) /\ NoDefaults(base)
          /\ IsDownloaded(snapshot) /\ NoDefaults(snapshot)
      BY <3>2, VersionIsDownloaded
    <3>4. Nested(base, snapshot)
      BY DEF NestedInv, NestedSets, Nested
    <3>5. Shows(table, base)
      BY DEF TableIsSnapshot
    <3>6. Shows(Loaded(table, base, snapshot), snapshot)
      BY <3>1, <3>3, <3>4, <3>5, LoadShows
    <3>7. Shows(table', base')
      BY <3>1, <3>6
    <3> QED
      BY <3>7 DEF TableIsSnapshot, Shows, IdsOf, FieldsOf, Value
  <2>2. CASE table' = table /\ base' = base
    <3>1. Shows(table', base')
      BY <2>2 DEF TableIsSnapshot
    <3> QED
      BY <3>1 DEF TableIsSnapshot, Shows, IdsOf, FieldsOf, Value
  <2>3. Load \/ (table' = table /\ base' = base)
    BY OnlyLoads
  <2> QED
    BY <2>1, <2>2, <2>3
<1>3. RowsInv /\ NestedInv /\ [Next]_vars => NestedInv'
  BY NestedNext
<1> QED
  BY <1>1, <1>2, <1>3, NestedInit, RowsAlways, PTL DEF Spec

-----------------------------------------------------------------------------
(* Ids                                                                     *)

\* Where ids are, and which the user brought back.
IdsInv == FreshInv /\ GoneInv /\ SeenInv

LEMMA NoIdsInNoFile == IdsAt(NoFile.rows) = {}
<1>1. NoFile.rows = << >>
  BY NoFileIs
<1>2. IdsIn(<< >>) = << >>
  BY DEF IdsIn
<1>3. Range(<< >>) = {}
  BY DEF Range
<1> QED
  BY <1>1, <1>2, <1>3 DEF IdsAt

LEMMA IdsInit ==
  ASSUME Init
  PROVE  IdsInv
<1>1. /\ file = NoFile /\ snapshot = NoSnapshot /\ pc = "idle" /\ nextId = FirstNewId(sheet)
      /\ DOMAIN table = {}
  BY DEF Init
<1>2. IdsAt(file.rows) = {} /\ IdsOf(snapshot) = {} /\ Gone = {}
  BY <1>1, NoIdsInNoFile, NoSnapshotIs DEF Gone
<1>3. IdsAt(sheet.rows) \subseteq 1 .. nextId - 1
  BY <1>1, SheetIsFound, FirstNewIdIs
<1> QED
  BY <1>1, <1>2, <1>3 DEF IdsInv, FreshInv, GoneInv, SeenInv

LEMMA IdsUser ==
  ASSUME IdsInv, NEW back, UserDid(back)
  PROVE  IdsInv'
<1>1. /\ back \subseteq Gone
      /\ IdsAt(sheet'.rows) \subseteq IdsAt(sheet.rows) \cup back
      /\ restored' = restored \cup back
      /\ file' = file /\ snapshot' = snapshot /\ table' = table /\ pc' = pc /\ nextId' = nextId
  BY DEF UserDid, Edited
<1>2. Gone' = Gone /\ Gone \subseteq DOMAIN table
  BY <1>1 DEF Gone
<1>3. FreshInv'
  BY <1>1, <1>2 DEF IdsInv, FreshInv
<1>4. GoneInv'
  BY <1>1, <1>2 DEF IdsInv, GoneInv
<1>5. SeenInv'
  BY <1>1 DEF IdsInv, SeenInv
<1> QED
  BY <1>3, <1>4, <1>5 DEF IdsInv

LEMMA IdsDownload ==
  ASSUME IdsInv, IsSheet(sheet), Len(sheet.rows) <= MaxRows, Download
  PROVE  IdsInv'
<1>1. sheet.rows \in Seq(RowsOf(sheet.columns))
  BY DEF IsSheet
<1>2. file'.rows = Trimmed(sheet.rows)
  BY DownloadedIs
<1>3. IdsAt(file'.rows) = IdsAt(sheet.rows)
  BY <1>1, <1>2, TrimmedIds
<1>4. /\ sheet' = sheet /\ snapshot' = snapshot /\ table' = table /\ restored' = restored
      /\ pc = "idle" /\ pc' = "downloaded" /\ nextId' = nextId
  BY DEF Download
<1>5. Gone' = Gone
  BY <1>4 DEF Gone
<1> QED
  BY <1>3, <1>4, <1>5 DEF IdsInv, FreshInv, GoneInv, SeenInv

\* The ids a sync may use up are new.
LEMMA GivenIdsAreNew ==
  ASSUME TypeOK, SizesInv, EnoughIds, IdsInv
  PROVE  /\ 1 .. nextId - 1 \subseteq 1 .. nextId + NewIds - 1
         /\ nextId .. nextId + NewIds - 1 \subseteq 1 .. nextId + NewIds - 1
         /\ (nextId .. nextId + NewIds - 1) \cap DOMAIN table = {}
<1>1. nextId \in Nat \ {0} /\ NewIds \in Nat
  BY FileFacts DEF TypeOK
<1>2. DOMAIN table \subseteq 1 .. nextId - 1
  BY DEF IdsInv, FreshInv
<1>3. (nextId .. nextId + NewIds - 1) \cap (1 .. nextId - 1) = {}
  BY <1>1
<1> QED
  BY <1>1, <1>2, <1>3

LEMMA IdsUpload ==
  ASSUME TypeOK, SizesInv, IdsInv, UploadDid
  PROVE  IdsInv'
<1>1. /\ pc = "downloaded" /\ EnoughIds /\ pc' = "uploaded" /\ file' = NoFile
      /\ IdsAt(sheet'.rows) \subseteq IdsAt(sheet.rows) \cup GivenIds
      /\ IdsOf(snapshot') = Range(NewFileIds)
      /\ nextId' = nextId + NewIds /\ table' = table /\ restored' = restored
  BY DEF UploadDid, Edited
<1> DEFINE new == nextId .. nextId + NewIds - 1
           old == 1 .. nextId - 1
           all == 1 .. nextId + NewIds - 1
<1>2. /\ IdsAt(file.rows) \subseteq Range(NewFileIds)
      /\ Range(NewFileIds) \subseteq IdsAt(file.rows) \cup new
      /\ GivenIds \subseteq Range(NewFileIds) /\ GivenIds \subseteq new
  BY <1>1, NewFileFacts
<1>3. old \subseteq all /\ new \subseteq all /\ new \cap DOMAIN table = {}
  BY <1>1, GivenIdsAreNew
<1>4. IdsAt(file'.rows) = {}
  BY <1>1, NoIdsInNoFile
<1>5. /\ IdsAt(sheet.rows) \cup IdsAt(file.rows) \cup DOMAIN table \subseteq old
      /\ (IdsAt(sheet.rows) \cup IdsAt(file.rows)) \cap Gone \subseteq restored
      /\ IdsAt(sheet.rows) \subseteq IdsAt(file.rows) \cup restored
  BY <1>1 DEF IdsInv, FreshInv, GoneInv, SeenInv
<1>6. Gone' = Gone /\ Gone \subseteq DOMAIN table
  BY <1>1 DEF Gone
<1>7. 1 .. nextId' - 1 = all
  <2>1. nextId' = nextId + NewIds
    BY <1>1
  <2>2. nextId \in Nat /\ NewIds \in Nat
    BY FileFacts DEF TypeOK
  <2> HIDE DEF NewIds
  <2>3. nextId' - 1 = nextId + NewIds - 1
    BY <2>1, <2>2
  <2> QED
    BY <2>3
<1> HIDE DEF new, old, all
<1>8. FreshInv'
  BY <1>1, <1>2, <1>3, <1>4, <1>5, <1>7 DEF FreshInv
<1>9. GoneInv'
  BY <1>1, <1>2, <1>3, <1>4, <1>5, <1>6 DEF GoneInv
<1>10. SeenInv'
  BY <1>1, <1>2, <1>5 DEF SeenInv
<1> QED
  BY <1>8, <1>9, <1>10 DEF IdsInv

LEMMA IdsFail ==
  ASSUME TypeOK, SizesInv, IdsInv, UploadFailed
  PROVE  IdsInv'
<1>1. /\ EnoughIds /\ End
      /\ IdsAt(sheet'.rows) \subseteq IdsAt(sheet.rows) \cup GivenIds
      /\ nextId' = nextId + NewIds /\ table' = table /\ restored' = restored
  BY DEF UploadFailed, Edited
<1> DEFINE new == nextId .. nextId + NewIds - 1
           old == 1 .. nextId - 1
           all == 1 .. nextId + NewIds - 1
<1>2. GivenIds \subseteq new
  BY <1>1, NewFileFacts
<1>3. old \subseteq all /\ new \subseteq all /\ new \cap DOMAIN table = {}
  BY <1>1, GivenIdsAreNew
<1>4. /\ file' = NoFile /\ pc' = "idle" /\ IdsOf(snapshot') = {}
  BY <1>1, Ended
<1>5. IdsAt(file'.rows) = {}
  BY <1>4, NoIdsInNoFile
<1>6. /\ IdsAt(sheet.rows) \cup DOMAIN table \subseteq old
      /\ IdsAt(sheet.rows) \cap Gone \subseteq restored
  BY DEF IdsInv, FreshInv, GoneInv
<1>7. Gone' = Gone /\ Gone \subseteq DOMAIN table
  BY <1>1 DEF Gone
<1>8. 1 .. nextId' - 1 = all
  <2>1. nextId' = nextId + NewIds
    BY <1>1
  <2>2. nextId \in Nat /\ NewIds \in Nat
    BY FileFacts DEF TypeOK
  <2> HIDE DEF NewIds
  <2>3. nextId' - 1 = nextId + NewIds - 1
    BY <2>1, <2>2
  <2> QED
    BY <2>3
<1> HIDE DEF new, old, all
<1> QED
  BY <1>1, <1>2, <1>3, <1>4, <1>5, <1>6, <1>7, <1>8 DEF IdsInv, FreshInv, GoneInv, SeenInv

LEMMA IdsGiveUp ==
  ASSUME IdsInv, GiveUp
  PROVE  IdsInv'
<1>1. /\ End /\ sheet' = sheet /\ nextId' = nextId /\ table' = table /\ restored' = restored
  BY DEF GiveUp
<1>2. /\ file' = NoFile /\ pc' = "idle" /\ IdsOf(snapshot') = {}
  BY <1>1, Ended
<1>3. IdsAt(file'.rows) = {} /\ Gone' = Gone
  BY <1>1, <1>2, NoIdsInNoFile DEF Gone
<1> QED
  BY <1>1, <1>2, <1>3 DEF IdsInv, FreshInv, GoneInv, SeenInv

LEMMA IdsLoad ==
  ASSUME VisibleInv, IdsInv, Load
  PROVE  IdsInv'
<1>1. /\ pc = "uploaded" /\ Conflicting(table, base, snapshot) = {}
      /\ table' = Loaded(table, base, snapshot)
      /\ End /\ sheet' = sheet /\ nextId' = nextId /\ restored' = restored
  BY DEF Load
<1>2. /\ file' = NoFile /\ pc' = "idle" /\ IdsOf(snapshot') = {}
  BY <1>1, Ended
<1>3. IdsAt(file'.rows) = {}
  BY <1>2, NoIdsInNoFile
<1> DEFINE after == Loaded(table, base, snapshot)
<1>4. /\ DOMAIN after = DOMAIN table \cup AddedIds(base, snapshot)
      /\ \A id \in DOMAIN after : after[id].deleted =>
           \/ id \in DOMAIN table /\ table[id].deleted
           \/ id \in DeletedIds(base, snapshot)
  BY <1>1, LoadedIds DEF VisibleInv
<1> HIDE DEF after
<1>5. table' = after
  BY <1>1 DEF after
<1>6. Gone' \subseteq Gone \cup DeletedIds(base, snapshot)
  BY <1>4, <1>5 DEF Gone
<1>7. DOMAIN table' \subseteq DOMAIN table \cup IdsOf(snapshot)
  BY <1>4, <1>5 DEF AddedIds
<1>8. DeletedIds(base, snapshot) \cap IdsOf(snapshot) = {}
  BY DEF DeletedIds
<1>9. /\ IdsAt(sheet.rows) \cup IdsOf(snapshot) \cup DOMAIN table \subseteq 1 .. nextId - 1
      /\ IdsAt(sheet.rows) \cap Gone \subseteq restored
      /\ IdsAt(sheet.rows) \subseteq IdsOf(snapshot) \cup restored
  BY <1>1 DEF IdsInv, FreshInv, GoneInv, SeenInv
<1>10. FreshInv'
  BY <1>1, <1>2, <1>3, <1>7, <1>9 DEF FreshInv
<1>11. GoneInv'
  BY <1>1, <1>2, <1>3, <1>6, <1>8, <1>9 DEF GoneInv
<1>12. SeenInv'
  BY <1>2 DEF SeenInv
<1> QED
  BY <1>10, <1>11, <1>12 DEF IdsInv

LEMMA IdsNext ==
  ASSUME RowsInv, IdsInv, [Next]_vars
  PROVE  IdsInv'
<1>1. /\ TypeOK /\ SizesInv /\ HasHeader(sheet) /\ VisibleInv
      /\ IsSheet(sheet) /\ Len(sheet.rows) <= MaxRows
  BY DEF RowsInv, TypeOK, SizesInv
<1>2. CASE Download
  BY <1>1, <1>2, IdsDownload
<1>3. CASE FixIdsAndUpload
  BY <1>1, <1>3, UploadDoes, IdsUpload
<1>4. CASE FixIdsFails
  BY <1>1, <1>4, UploadFails, IdsFail
<1>5. CASE Load
  BY <1>1, <1>5, IdsLoad
<1>6. CASE GiveUp
  BY <1>6, IdsGiveUp
<1>7. CASE UserEdits /\ UNCHANGED restored
  BY <1>1, <1>7, UserEditsDo, IdsUser
<1>8. CASE \E id \in DOMAIN table : RestoreRow(id)
  BY <1>1, <1>8, RestoreDoes, IdsUser
<1>9. CASE UNCHANGED vars
  BY <1>9 DEF vars, IdsInv, FreshInv, GoneInv, SeenInv, Gone
<1> QED
  BY <1>2, <1>3, <1>4, <1>5, <1>6, <1>7, <1>8, <1>9 DEF Next

\* Each step keeps new ids new, and deleted rows' ids with the user who restores them.
THEOREM IdsAlways == Spec => []IdsInv
<1>1. RowsInv /\ IdsInv /\ [Next]_vars => IdsInv'
  BY IdsNext
<1> QED
  BY IdsInit, <1>1, RowsAlways, PTL DEF Spec

\* A row that is added never has the id of a row of the table, visible or deleted, on
\* which the load would fail: unless the user brought it back.
THEOREM ConflictsNever == Spec => []NeverConflicts
<1>1. RowsInv /\ IdsInv => NeverConflicts
  <2> SUFFICES ASSUME RowsInv, IdsInv, pc = "uploaded",
                      NEW id \in Conflicting(table, base, snapshot)
               PROVE  id \in restored
    BY DEF NeverConflicts
  <2>1. id \in IdsOf(snapshot) /\ id \notin IdsOf(base) /\ id \in DOMAIN table
    BY DEF Conflicting, AddedIds
  <2>2. {x \in DOMAIN table : ~table[x].deleted} = IdsOf(base)
    BY DEF RowsInv, VisibleInv
  <2>3. id \in Gone
    BY <2>1, <2>2 DEF Gone
  <2> QED
    BY <2>1, <2>3 DEF IdsInv, GoneInv
<1> QED
  BY <1>1, RowsAlways, IdsAlways, PTL

-----------------------------------------------------------------------------
(* Ids reach their rows                                                    *)

\* A version depends on the cells of its rows and on the ids they are given, not on
\* what the id column holds.
LEMMA SameSnapshot ==
  ASSUME NEW d, NEW e, NEW ids, d.columns = e.columns,
         DOMAIN d.rows = DOMAIN ids, DOMAIN e.rows = DOMAIN ids,
         \A i \in DOMAIN ids : d.rows[i].cells = e.rows[i].cells
  PROVE  SnapshotOf(d, ids) = SnapshotOf(e, ids)
<1> DEFINE place(id) == CHOOSE i \in DOMAIN ids : ids[i] = id
<1>1. ASSUME NEW f PROVE ColumnType(d.rows, f) = ColumnType(e.rows, f)
  <2>1. {d.rows[i].cells[f] : i \in DOMAIN ids} = {e.rows[i].cells[f] : i \in DOMAIN ids}
    OBVIOUS
  <2> QED
    BY <2>1 DEF ColumnType
<1>2. \A id \in Range(ids) : place(id) \in DOMAIN ids
  BY DEF Range
<1> HIDE DEF place
<1>3. [id \in Range(ids) |-> d.rows[place(id)].cells] = [id \in Range(ids) |-> e.rows[place(id)].cells]
  BY <1>2
<1>4. [f \in d.columns |-> ColumnType(d.rows, f)] = [f \in e.columns |-> ColumnType(e.rows, f)]
  BY <1>1
<1> QED
  BY <1>3, <1>4 DEF SnapshotOf, place

\* All the batches written to a sheet that is as it was downloaded: each row has the
\* id it was uploaded with, and no row came or went.
LEMMA AllIdsAreWritten ==
  ASSUME TypeOK, SizesInv, HasHeader(sheet), EnoughIds, file = Downloaded(sheet), NewIds # 0
  PROVE  LET t == Written(sheet, Batches(FileIds, NewFileIds)) IN
         /\ t.idColumn
         /\ SnapshotOf(Downloaded(t), IdsIn(Trimmed(t.rows))) = SnapshotOf(file, NewFileIds)
<1> DEFINE w == Batches(FileIds, NewFileIds)
           t == Written(sheet, w)
           n == Len(file.rows)
<1>1. /\ n \in Nat /\ n <= MaxRows
      /\ \A i \in 1 .. n : FileIds[i] = file.rows[i].id
      /\ Replaced(FileIds) \subseteq 1 .. n
      /\ NewIds = Cardinality(Replaced(FileIds))
      /\ file.rows \in Seq(RowsOf(file.columns))
  BY FileFacts
<1>2. /\ NewFileIds \in [1 .. n -> Ids]
      /\ \A i \in (1 .. n) \ Replaced(FileIds) : NewFileIds[i] = FileIds[i]
      /\ WriteRows(w, NewFileIds, RowsToWrite)
      /\ RowsToWrite \subseteq 1 .. n + 1
  BY NewFileFacts
<1>3. file.rows = Trimmed(sheet.rows) /\ file.columns = sheet.columns
  BY DEF Downloaded
<1>4. /\ IsSheet(sheet) /\ Len(sheet.rows) <= MaxRows
      /\ sheet.rows \in Seq(RowsOf(sheet.columns)) /\ Len(sheet.rows) \in Nat
  BY LenProperties DEF TypeOK, SizesInv, IsSheet
<1>5. /\ n <= Len(sheet.rows)
      /\ \A i \in 1 .. n : file.rows[i] = sheet.rows[i]
      /\ \A i \in 1 .. Len(sheet.rows) : i > n => IsEmptyRow(sheet.rows[i])
  BY <1>3, <1>4, TrimmedRows
<1>6. Ids \subseteq IdCells /\ NoId \notin Ids /\ MaxRows \in Nat
  BY IdColumnAssumption, RowSyncAssumption DEF Ids, IdCells, NoId
<1> HIDE DEF n, w
<1>7. RowsToWrite \in SUBSET (1 .. MaxRows + 1) /\ RowsToWrite \subseteq 1 .. Len(sheet.rows) + 1
  BY <1>1, <1>2, <1>4, <1>5, <1>6
<1>8. \A x \in RowsToWrite \ {1} : NewFileIds[x - 1] \in IdCells
  <2> TAKE x \in RowsToWrite \ {1}
  <2>1. x - 1 \in 1 .. n
    BY <1>1, <1>2
  <2> QED
    BY <1>2, <1>6, <2>1
<1>9. 1 \in RowsToWrite
  BY DEF RowsToWrite
<1>10. /\ IsSheet(t)
       /\ t.columns = sheet.columns
       /\ Len(t.rows) = Len(sheet.rows)
       /\ \A i \in 1 .. Len(t.rows) :
            t.rows[i].id = IF t.idColumn /\ i + 1 \in RowsToWrite THEN NewFileIds[i]
                           ELSE IF i <= Len(sheet.rows) THEN sheet.rows[i].id ELSE NoId
       /\ \A i \in 1 .. Len(sheet.rows) : t.rows[i].cells = sheet.rows[i].cells
  <2>1. IsSheet(t) /\ t.columns = sheet.columns
    BY <1>2, <1>4, <1>7, <1>8, WrittenSheet
  <2>2. RowsToWrite \subseteq 1 .. Len(sheet.rows) + 1 => Len(t.rows) = Len(sheet.rows)
    BY <1>2, <1>4, <1>7, <1>8, WrittenSheet, Zenon
  <2>3. \A i \in 1 .. Len(t.rows) :
          t.rows[i].id = IF t.idColumn /\ i + 1 \in RowsToWrite THEN NewFileIds[i]
                         ELSE IF i <= Len(sheet.rows) THEN sheet.rows[i].id ELSE NoId
    <3> HIDE DEF t
    <3>1. t = Written(sheet, w)
      BY DEF t
    <3>2. WriteRows(w, NewFileIds, RowsToWrite)
      BY <1>2
    <3> QED
      BY <1>4, <1>7, <1>8, <3>1, <3>2, WrittenSheet, SMTT(40)
  <2>4. \A i \in 1 .. Len(sheet.rows) : t.rows[i].cells = sheet.rows[i].cells
    BY <1>2, <1>4, <1>7, <1>8, WrittenSheet
  <2> QED
    BY <1>7, <2>1, <2>2, <2>3, <2>4, Zenon
<1>23. t.idColumn = (sheet.idColumn \/ 1 \in RowsToWrite)
  BY <1>2, <1>4, <1>7, <1>8, WrittenSheet, Zenon
<1> HIDE DEF t
<1>11. /\ t.idColumn /\ Len(t.rows) = Len(sheet.rows)
       /\ t.rows \in Seq(RowsOf(t.columns))
  BY <1>7, <1>9, <1>10, <1>23 DEF IsSheet
<1>12. ASSUME NEW i \in 1 .. n
       PROVE  t.rows[i].id = NewFileIds[i] /\ t.rows[i].cells = file.rows[i].cells
  <2>1. i \in 1 .. Len(sheet.rows) /\ i \in 1 .. Len(t.rows)
    BY <1>1, <1>4, <1>5, <1>11
  <2>2. t.rows[i].cells = file.rows[i].cells
    BY <1>5, <1>10, <2>1
  <2>3. CASE i + 1 \in RowsToWrite
    BY <1>10, <1>11, <2>1, <2>2, <2>3
  <2>4. CASE i + 1 \notin RowsToWrite
    <3>1. i \notin Replaced(FileIds)
      BY <2>4 DEF RowsToWrite
    <3>2. NewFileIds[i] = sheet.rows[i].id
      BY <1>1, <1>2, <1>5, <3>1
    <3>3. t.rows[i].id = sheet.rows[i].id
      BY <1>4, <1>10, <2>1, <2>4
    <3> QED
      BY <2>2, <3>2, <3>3
  <2> QED
    BY <2>3, <2>4
<1>13. ASSUME NEW i \in 1 .. Len(t.rows), i > n PROVE IsEmptyRow(t.rows[i])
  <2>1. i \in 1 .. Len(sheet.rows) /\ i + 1 \notin RowsToWrite
    BY <1>1, <1>2, <1>11, <1>13
  <2>2. t.rows[i].id = sheet.rows[i].id /\ t.rows[i].cells = sheet.rows[i].cells
    BY <1>4, <1>10, <1>11, <2>1
  <2>3. IsEmptyRow(sheet.rows[i])
    BY <1>5, <1>13, <2>1
  <2> QED
    BY <2>2, <2>3 DEF IsEmptyRow
<1>14. n \in 1 .. Len(t.rows)
  <2>1. Replaced(FileIds) # {}
    BY <1>1, FS_EmptySet
  <2>2. PICK i \in 1 .. n : i \in Replaced(FileIds)
    BY <1>1, <2>1
  <2> QED
    BY <1>1, <1>4, <1>5, <1>11, <2>2
<1>15. ~IsEmptyRow(t.rows[n])
  <2>1. n \in 1 .. n
    BY <1>1, <1>14
  <2>2. t.rows[n].id \in Ids
    BY <1>2, <1>12, <2>1
  <2> QED
    BY <1>6, <2>2 DEF IsEmptyRow
<1> DEFINE rows == Trimmed(t.rows)
<1>16. /\ rows \in Seq(RowsOf(t.columns)) /\ Len(rows) = n
       /\ \A i \in 1 .. Len(rows) : rows[i] = t.rows[i]
  <2>1. Len(rows) = n
    BY <1>11, <1>13, <1>14, <1>15, TrimmedAt
  <2> QED
    BY <1>11, <2>1, TrimmedRows
<1> HIDE DEF rows
<1>17. /\ DOMAIN rows = 1 .. n /\ IdsIn(rows) \in Seq(IdCells)
       /\ DOMAIN IdsIn(rows) = 1 .. n
       /\ \A i \in 1 .. n : IdsIn(rows)[i] = NewFileIds[i]
  BY <1>12, <1>16, RowIds
<1>18. IdsIn(rows) = NewFileIds
  <2>1. IdsIn(rows) = [i \in 1 .. n |-> IdsIn(rows)[i]]
    BY <1>17 DEF IdsIn
  <2>2. NewFileIds = [i \in 1 .. n |-> NewFileIds[i]]
    BY <1>2
  <2> QED
    BY <1>17, <2>1, <2>2
<1>19. Downloaded(t).columns = file.columns /\ Downloaded(t).rows = rows
  BY <1>3, <1>10 DEF Downloaded, rows
<1>20. DOMAIN NewFileIds = 1 .. n /\ DOMAIN file.rows = 1 .. n
  BY <1>1, <1>2, LenProperties DEF n
<1>21. \A i \in DOMAIN NewFileIds : rows[i].cells = file.rows[i].cells
  BY <1>12, <1>16, <1>20
<1>22. SnapshotOf(Downloaded(t), NewFileIds) = SnapshotOf(file, NewFileIds)
  BY <1>17, <1>19, <1>20, <1>21, SameSnapshot
<1> QED
  BY <1>11, <1>18, <1>22 DEF t, w, rows

\* Nothing to write: every row was found with its id.
LEMMA NoIdIsWritten ==
  ASSUME TypeOK, SizesInv, HasHeader(sheet), EnoughIds, file = Downloaded(sheet), NewIds = 0
  PROVE  /\ sheet.idColumn \/ Range(NewFileIds) = {}
         /\ SnapshotOf(Downloaded(sheet), IdsIn(Trimmed(sheet.rows)))
              = SnapshotOf(file, NewFileIds)
<1>1. /\ FileIds \in Seq(IdCells) /\ NewIds = Cardinality(Replaced(FileIds))
      /\ \A i \in 1 .. Len(file.rows) : FileIds[i] = file.rows[i].id
  BY FileFacts
<1>2. nextId \in 1 .. MaxIds + 1
  BY DEF TypeOK
<1>3. NewFileIds = FileIds
  BY <1>1, <1>2, NothingFixed DEF NewFileIds
<1>4. file.rows = Trimmed(sheet.rows)
  BY DEF Downloaded
<1>5. ASSUME NEW x \in Range(NewFileIds) PROVE sheet.idColumn
  <2>1. NewFileIds \in [1 .. Len(file.rows) -> Ids]
    BY NewFileFacts
  <2>2. PICK i \in 1 .. Len(file.rows) : file.rows[i].id \in Ids
    BY <1>1, <1>3, <2>1 DEF Range
  <2>3. sheet.rows \in Seq(RowsOf(sheet.columns))
    BY DEF TypeOK, IsSheet
  <2>4. i \in DOMAIN sheet.rows /\ sheet.rows[i] = file.rows[i]
    <3>1. /\ Len(file.rows) <= Len(sheet.rows) /\ file.rows[i] = sheet.rows[i]
          /\ Len(file.rows) \in Nat
      BY <1>4, <2>3, FileFacts, TrimmedRows
    <3>2. DOMAIN sheet.rows = 1 .. Len(sheet.rows) /\ Len(sheet.rows) \in Nat
      BY <2>3, LenProperties
    <3> QED
      BY <3>1, <3>2
  <2>5. sheet.rows[i].id # NoId
    BY <2>2, <2>4 DEF Ids, NoId
  <2> QED
    BY <2>4, <2>5 DEF HasHeader
<1> QED
  BY <1>3, <1>4, <1>5 DEF FileIds

\* What was downloaded is still so, and what was written too, while nobody edits.
ReachInv == ReadInv /\ IdsReachTheirRows

LEMMA ReachNext ==
  ASSUME RowsInv, ReachInv, [Next]_vars
  PROVE  ReachInv'
<1>1. TypeOK /\ SizesInv /\ HasHeader(sheet) /\ IsSheet(sheet) /\ Len(sheet.rows) <= MaxRows
  BY DEF RowsInv, TypeOK, SizesInv
<1>2. CASE Download
  BY <1>2 DEF Download, ReachInv, ReadInv, IdsReachTheirRows
<1>3. CASE FixIdsAndUpload
  <2>1. /\ pc = "downloaded" /\ pc' = "uploaded" /\ touched' = touched
        /\ EnoughIds
        /\ sheet' = IF NewIds = 0 THEN sheet ELSE Written(sheet, Batches(FileIds, NewFileIds))
        /\ snapshot' = SnapshotOf(file, NewFileIds)
    BY <1>3 DEF FixIdsAndUpload, FileIds, NewFileIds
  <2>2. IdsOf(snapshot') = Range(NewFileIds)
    BY <1>1, <1>3, UploadDoes DEF UploadDid
  <2>3. ASSUME ~touched
        PROVE  /\ sheet'.idColumn \/ IdsOf(snapshot') = {}
               /\ SnapshotOf(Downloaded(sheet'), IdsIn(Trimmed(sheet'.rows))) = snapshot'
    <3>1. file = Downloaded(sheet)
      BY <2>1, <2>3 DEF ReachInv, ReadInv
    <3>2. CASE NewIds = 0
      BY <1>1, <2>1, <2>2, <3>1, <3>2, NoIdIsWritten
    <3>3. CASE NewIds # 0
      BY <1>1, <2>1, <3>1, <3>3, AllIdsAreWritten
    <3> QED
      BY <3>2, <3>3
  <2> QED
    BY <2>1, <2>3 DEF ReachInv, ReadInv, IdsReachTheirRows
<1>4. ASSUME End PROVE ReachInv'
  BY <1>4, Ended DEF ReachInv, ReadInv, IdsReachTheirRows
<1>5. CASE FixIdsFails
  BY <1>4, <1>5 DEF FixIdsFails
<1>6. CASE Load
  BY <1>4, <1>6 DEF Load
<1>7. CASE GiveUp
  BY <1>4, <1>7 DEF GiveUp
<1>8. ASSUME NEW back, UserDid(back) PROVE ReachInv'
  <2>1. touched' = (pc # "idle") /\ pc' = pc
    BY <1>8 DEF UserDid
  <2> QED
    BY <2>1 DEF ReachInv, ReadInv, IdsReachTheirRows
<1>9. CASE UserEdits /\ UNCHANGED restored
  BY <1>1, <1>8, <1>9, UserEditsDo
<1>10. CASE \E id \in DOMAIN table : RestoreRow(id)
  BY <1>1, <1>8, <1>10, RestoreDoes
<1>11. CASE UNCHANGED vars
  BY <1>11 DEF vars, ReachInv, ReadInv, IdsReachTheirRows
<1> QED
  BY <1>2, <1>3, <1>5, <1>6, <1>7, <1>9, <1>10, <1>11 DEF Next

\* Unless the user edits the sheet meanwhile, each new id is in the very row it was
\* given to once the sync has uploaded its rows, for all batches and whatever rows
\* needed none: the next sync reads what was uploaded.
THEOREM IdsAlwaysReach == Spec => []IdsReachTheirRows
<1>1. Init => ReachInv
  BY DEF Init, ReachInv, ReadInv, IdsReachTheirRows
<1>2. RowsInv /\ ReachInv /\ [Next]_vars => ReachInv'
  BY ReachNext
<1>3. ReachInv => IdsReachTheirRows
  BY DEF ReachInv
<1> QED
  BY <1>1, <1>2, <1>3, RowsAlways, PTL DEF Spec
=============================================================================
