-------------------------- MODULE SpreadsheetProofs --------------------------
(***************************************************************************)
(* Theorems about Spreadsheet, for any data sources, and any number of     *)
(* providers, edits and syncs: Anchored, TypeOK and Fresh.                 *)
(*                                                                         *)
(* CatalogInv says what the snapshot of a deletion leaves out. SheetInv    *)
(* adds when a provider's file is there, and how old it may be.            *)
(***************************************************************************)
EXTENDS Spreadsheet, WellFoundedInduction, TLAPS

\* A data source is created before there is one, and deleted only after.
RequestsInv ==
  \A d \in Sources :
    /\ creation[d] # NoCreation => source[d].state = "none"
    /\ deletion[d] # NoDeletion => source[d].state # "none"
    /\ source[d].state = "deleted" => deletion[d] # NoDeletion

\* The data sources the snapshot of a deletion does not hold, and which will
\* be without provider when it commits, were inserted after it began.
Doomed(e) == deletion[e].step = "commit" /\ IsLast(deletion[e].others)
SnapshotInv ==
  \A d, e \in Sources :
    Doomed(e) /\ d # e /\ source[d].state = "live"
      /\ source[d].provider = source[e].provider => d \in orphaned

CatalogInv == CatalogTypeOK /\ RequestsInv /\ SnapshotInv /\ Anchored

-----------------------------------------------------------------------------
\* What the documents can be.
LEMMA SourceKinds ==
  ASSUME CatalogTypeOK, NEW d \in Sources
  PROVE  /\ source[d].state \in {"none", "live", "deleted"}
         /\ source[d].state = "none" <=> source[d] = NoSource
         /\ source[d].state # "none" => source[d].provider \in Providers
         /\ source[d].state = "live" =>
              source[d] = [state |-> "live", provider |-> source[d].provider]
  BY DEF CatalogTypeOK, DataSource, NoSource

\* A deletion that takes the provider takes only its own data source.
LEMMA DeletesOnlyItself ==
  ASSUME NEW d \in Sources
  PROVE  deleteDataSource(d) = {d}
  BY DEF deleteDataSource, deleteDataProvider, IsLast

\* The documents are of their types after a request or a step of one.
LEMMA TypesKept ==
  ASSUME CatalogTypeOK, RequestsInv, CatalogRequest \/ CatalogStep
  PROVE  CatalogTypeOK'
<1> USE DEF CatalogTypeOK
<1>1. ASSUME NEW p \in Providers, RequestProvider(p) \/ Save(p)
      PROVE  CatalogTypeOK'
  BY <1>1 DEF RequestProvider, createDataProvider, Save, DataProvider
<1>2. ASSUME NEW d \in Sources, RequestSource(d)
      PROVE  CatalogTypeOK'
  BY <1>2 DEF RequestSource, Goes, NoCreation, NoProvider
<1>3. ASSUME NEW d \in Sources, RequestDeletion(d)
      PROVE  CatalogTypeOK'
  BY <1>3 DEF RequestDeletion
<1>4. ASSUME NEW d \in Sources, FindProvider(d)
      PROVE  CatalogTypeOK'
  BY <1>4 DEF FindProvider, createDataProvider, Goes, DataProvider
<1>5. ASSUME NEW d \in Sources, CheckSource(d)
      PROVE  CatalogTypeOK'
  BY <1>5 DEF CheckSource, NoCreation
<1>6. ASSUME NEW d \in Sources, InsertSource(d)
      PROVE  CatalogTypeOK'
  BY <1>6 DEF InsertSource, createDataSource, NoCreation, DataSource
<1>7. ASSUME NEW d \in Sources, BeginDeletion(d)
      PROVE  CatalogTypeOK'
  BY <1>7 DEF BeginDeletion, getByProviderId
<1>8. ASSUME NEW d \in Sources, CommitDeletion(d)
      PROVE  CatalogTypeOK'
  <2>1. source' = [e \in Sources |-> IF e = d THEN [source[e] EXCEPT !.state = "deleted"]
                                      ELSE source[e]]
    BY <1>8, DeletesOnlyItself DEF CommitDeletion
  <2>2. source[d].state # "none" /\ source[d].provider \in Providers
    BY <1>8, SourceKinds DEF CommitDeletion, RequestsInv, NoDeletion
  <2>3. source' \in [Sources -> DataSource]
    <3>1. [source[d] EXCEPT !.state = "deleted"] = [state |-> "deleted", provider |-> source[d].provider]
      BY DEF DataSource, NoSource
    <3>2. [source[d] EXCEPT !.state = "deleted"] \in DataSource
      BY <2>2, <3>1 DEF DataSource
    <3> QED
      BY <2>1, <3>2
  <2>4. provider' \in [Providers -> DataProvider] /\ cleaning' \subseteq Providers
    BY <1>8, <2>2 DEF CommitDeletion, DataProvider
  <2> QED
    BY <1>8, <2>3, <2>4 DEF CommitDeletion
<1> QED
  BY <1>1, <1>2, <1>3, <1>4, <1>5, <1>6, <1>7, <1>8 DEF CatalogRequest, CatalogStep

\* A request or a step of one keeps the invariant.
LEMMA CatalogKept ==
  ASSUME CatalogInv, CatalogRequest \/ CatalogStep
  PROVE  CatalogInv'
<1> USE DEF CatalogInv
<1>0. CatalogTypeOK'
  BY TypesKept
<1> DEFINE Kept == RequestsInv' /\ SnapshotInv' /\ Anchored'
<1>1. ASSUME NEW p \in Providers, RequestProvider(p) \/ Save(p)
      PROVE  Kept
  <2>1. /\ \A q \in Providers : provider'[q] = "deleted" => provider[q] = "deleted"
        /\ UNCHANGED <<source, creation, deletion, orphaned>>
    BY <1>1 DEF RequestProvider, createDataProvider, Save, CatalogTypeOK
  <2> QED
    BY <2>1, SourceKinds DEF RequestsInv, SnapshotInv, Doomed, Anchored
<1>2. ASSUME NEW d \in Sources, RequestSource(d)
      PROVE  Kept
  BY <1>2, SourceKinds DEF RequestSource, Goes, CatalogTypeOK, RequestsInv, SnapshotInv, Doomed, Anchored
<1>3. ASSUME NEW d \in Sources, RequestDeletion(d)
      PROVE  Kept
  BY <1>3, SourceKinds
     DEF RequestDeletion, CatalogTypeOK, RequestsInv, SnapshotInv, Doomed, Anchored, NoDeletion
<1>4. ASSUME NEW d \in Sources, FindProvider(d)
      PROVE  Kept
  <2>1. \A q \in Providers : provider'[q] = "deleted" => provider[q] = "deleted"
    BY <1>4 DEF FindProvider, createDataProvider, CatalogTypeOK
  <2>2. source[d].state = "none"
    BY <1>4 DEF FindProvider, RequestsInv, NoCreation
  <2>3. \A e \in Sources \ {d} : creation'[e] = creation[e]
    BY <1>4 DEF FindProvider, Goes, CatalogTypeOK
  <2>4. UNCHANGED <<source, deletion, orphaned>>
    BY <1>4 DEF FindProvider
  <2> QED
    BY <2>1, <2>2, <2>3, <2>4, SourceKinds DEF RequestsInv, SnapshotInv, Doomed, Anchored
<1>5. ASSUME NEW d \in Sources, CheckSource(d)
      PROVE  Kept
  <2>1. source[d].state = "none"
    BY <1>5 DEF CheckSource, RequestsInv, NoCreation
  <2>2. \A e \in Sources \ {d} : creation'[e] = creation[e]
    BY <1>5 DEF CheckSource, CatalogTypeOK
  <2>3. UNCHANGED <<provider, source, deletion, orphaned>>
    BY <1>5 DEF CheckSource
  <2> QED
    BY <2>1, <2>2, <2>3, SourceKinds DEF RequestsInv, SnapshotInv, Doomed, Anchored
<1>6. ASSUME NEW d \in Sources, InsertSource(d)
      PROVE  Kept
  <2> DEFINE p == creation[d].provider
  <2>1. source[d].state = "none" /\ deletion[d] = NoDeletion
    BY <1>6 DEF InsertSource, RequestsInv, NoCreation
  <2>2. /\ source'[d] = [state |-> "live", provider |-> p]
        /\ \A e \in Sources \ {d} : source'[e] = source[e]
        /\ UNCHANGED <<provider, deletion>>
    BY <1>6 DEF InsertSource, createDataSource, CatalogTypeOK
  <2>3. /\ creation'[d] = NoCreation
        /\ \A e \in Sources \ {d} : creation'[e] = creation[e]
    BY <1>6 DEF InsertSource, CatalogTypeOK
  <2>4. orphaned \subseteq orphaned' /\ (Emptied(p) => d \in orphaned')
    BY <1>6 DEF InsertSource
  <2>5. RequestsInv'
    BY <2>1, <2>2, <2>3 DEF RequestsInv
  <2>6. SnapshotInv'
    <3> SUFFICES ASSUME NEW c \in Sources, NEW e \in Sources, Doomed(e)', c # e,
                        source'[c].state = "live", source'[c].provider = source'[e].provider
                 PROVE  c \in orphaned'
      BY DEF SnapshotInv
    <3>1. Doomed(e) /\ e # d
      BY <2>1, <2>2 DEF Doomed, NoDeletion
    <3>2. CASE c = d
      BY <2>2, <2>4, <3>1, <3>2 DEF Emptied, Doomed
    <3>3. CASE c # d
      BY <2>2, <2>4, <3>1, <3>3 DEF SnapshotInv
    <3> QED
      BY <3>2, <3>3
  <2>7. Anchored'
    <3>1. d \notin orphaned' => provider'[p] # "deleted"
      BY <2>2, <2>4 DEF Emptied
    <3> QED
      BY <2>2, <2>4, <3>1 DEF Anchored
  <2> QED
    BY <2>5, <2>6, <2>7
<1>7. ASSUME NEW d \in Sources, BeginDeletion(d)
      PROVE  Kept
  <2>1. /\ deletion'[d] = [step |-> "commit", others |-> getByProviderId(source[d].provider) \ {d}]
        /\ \A e \in Sources \ {d} : deletion'[e] = deletion[e]
        /\ UNCHANGED <<provider, source, creation, orphaned>>
    BY <1>7 DEF BeginDeletion, CatalogTypeOK
  <2>2. source[d].state # "none" /\ deletion[d] # NoDeletion /\ deletion'[d] # NoDeletion
    BY <1>7, <2>1 DEF BeginDeletion, RequestsInv, NoDeletion
  <2>3. RequestsInv'
    BY <2>1, <2>2 DEF RequestsInv
  <2>4. SnapshotInv'
    <3> SUFFICES ASSUME NEW c \in Sources, NEW e \in Sources, Doomed(e)', c # e,
                        source[c].state = "live", source[c].provider = source[e].provider
                 PROVE  c \in orphaned
      BY <2>1 DEF SnapshotInv
    <3>1. CASE e = d
      BY <2>1, <3>1, SourceKinds DEF Doomed, IsLast, getByProviderId
    <3>2. CASE e # d
      BY <2>1, <3>2 DEF Doomed, SnapshotInv
    <3> QED
      BY <3>1, <3>2
  <2>5. Anchored'
    BY <2>1, <2>2 DEF Anchored
  <2> QED
    BY <2>3, <2>4, <2>5
<1>8. ASSUME NEW d \in Sources, CommitDeletion(d)
      PROVE  Kept
  <2>1. deletion[d].step = "commit" /\ source[d].state # "none"
    BY <1>8 DEF CommitDeletion, RequestsInv, NoDeletion
  <2>2. /\ source'[d] = [source[d] EXCEPT !.state = "deleted"]
        /\ \A e \in Sources \ {d} : source'[e] = source[e]
    BY <1>8, DeletesOnlyItself DEF CommitDeletion
  <2>3. source'[d].state = "deleted" /\ source'[d].provider = source[d].provider
    BY <2>2 DEF CatalogTypeOK, DataSource, NoSource
  <2>4. /\ deletion'[d].step = "done" /\ deletion'[d] # NoDeletion
        /\ \A e \in Sources \ {d} : deletion'[e] = deletion[e]
        /\ UNCHANGED <<creation, orphaned>>
    BY <1>8 DEF CommitDeletion, CatalogTypeOK, NoDeletion
  <2>5. RequestsInv'
    BY <2>1, <2>2, <2>3, <2>4 DEF RequestsInv, NoDeletion
  <2>6. SnapshotInv'
    BY <2>2, <2>3, <2>4 DEF SnapshotInv, Doomed
  <2>7. \A e \in Sources : source'[e].state = "live" /\ e \notin orphaned =>
                            provider'[source[e].provider] # "deleted"
    <3> SUFFICES ASSUME NEW e \in Sources, source'[e].state = "live", e \notin orphaned
                 PROVE  provider'[source[e].provider] # "deleted"
      OBVIOUS
    <3>1. e # d /\ source[e].state = "live"
      BY <2>2, <2>3
    <3>2. provider[source[e].provider] # "deleted"
      BY <3>1 DEF Anchored
    <3>3. IsLast(deletion[d].others) => source[e].provider # source[d].provider
      BY <2>1, <3>1 DEF SnapshotInv, Doomed
    <3>4. CASE IsLast(deletion[d].others)
      BY <1>8, <3>1, <3>2, <3>3, <3>4, SourceKinds DEF CommitDeletion, CatalogTypeOK
    <3>5. CASE ~IsLast(deletion[d].others)
      BY <1>8, <3>2, <3>5 DEF CommitDeletion
    <3> QED
      BY <3>4, <3>5
  <2>8. Anchored'
    <3>1. \A e \in Sources : source'[e].provider = source[e].provider
      BY <2>2, <2>3
    <3>2. \A e \in Sources :
            source'[e].state # "none" /\ deletion'[e] = NoDeletion => source'[e].state = "live"
      BY <2>2, <2>4 DEF Anchored
    <3> QED
      BY <2>4, <2>7, <3>1, <3>2 DEF Anchored
  <2> QED
    BY <2>5, <2>6, <2>8
<1> QED
  BY <1>0, <1>1, <1>2, <1>3, <1>4, <1>5, <1>6, <1>7, <1>8 DEF CatalogRequest, CatalogStep

\* Anchored is an invariant: POST and DELETE of data sources, however their steps
\* and the syncs fall together, leave every other data source and its provider.
THEOREM AnchoredAlways == Spec => []Anchored
<1>1. Init => CatalogInv
  BY SMT DEF Init, CatalogInit, CatalogInv, CatalogTypeOK, RequestsInv, SnapshotInv, Doomed,
             Anchored, DataProvider, DataSource, NoSource, NoCreation, NoDeletion
<1>2. CatalogInv /\ [Next]_vars => CatalogInv'
  <2> SUFFICES ASSUME CatalogInv, [Next]_vars
               PROVE  CatalogInv'
    OBVIOUS
  <2>1. CASE CatalogRequest \/ CatalogStep
    BY <2>1, CatalogKept
  <2>2. CASE UNCHANGED <<provider, source, creation, deletion, orphaned>> /\ cleaning' \subseteq cleaning
    BY <2>2 DEF CatalogInv, CatalogTypeOK, RequestsInv, SnapshotInv, Doomed, Anchored
  <2> QED
    BY <2>1, <2>2 DEF Next, vars, catalogVars, Edit, Schedule, Terminate, CleanProvider
<1>3. CatalogInv => Anchored
  BY DEF CatalogInv
<1> QED
  BY <1>1, <1>2, <1>3, PTL DEF Spec

-----------------------------------------------------------------------------
\* The file of a provider is there from its first download until the provider
\* is deleted; a sync is one of a data source that was created.
HasFile(p) == file[p] # NoFile \/ provider[p] = "deleted"
FilesInv ==
  /\ \A p \in cleaning : provider[p] = "deleted"
  /\ \A p \in downloadedAt : HasFile(p)
  /\ \A d \in Sources :
       /\ ~At(d, "idle") => source[d].state # "none" /\ done[d] < MaxSyncs
       /\ At(d, "note") \/ At(d, "ingest") => HasFile(ProviderOf(d))

\* No download that is on its way brings a content older than the oldest that
\* was when the sync was scheduled; nor does the sync's own file, once it has
\* downloaded one, whoever wrote it.
Newer(d) ==
  /\ sync[d].oldest <= edits
  /\ \A e \in Sources : At(e, "upload") => sync[e].read >= sync[d].oldest
  /\ ~sync[d].first =>
       /\ At(d, "note") \/ At(d, "ingest") => file[ProviderOf(d)] >= sync[d].oldest
       /\ At(d, "ingested") => sync[d].read >= sync[d].oldest
FreshInv == \A d \in Sources : Newer(d)

Syncs == [step : {"idle", "decide", "download", "upload", "note", "ingest", "ingested", "stuck"},
          read : Contents, first : BOOLEAN, oldest : Contents]
SheetInv == CatalogInv /\ TypeOK /\ FilesInv /\ FreshInv

\* The constants and what a content is.
LEMMA ContentTypes ==
  /\ MaxEdits \in Nat /\ MaxSyncs \in Nat /\ NoFile \in Nat
  /\ \A c \in Contents : c \in Nat /\ c # NoFile /\ c < NoFile
  BY SpreadsheetAssumption DEF Contents, NoFile

\* The least of some numbers.
LEMMA Least ==
  ASSUME NEW S \in SUBSET Nat, S # {}
  PROVE  Min(S) \in S /\ \A x \in S : Min(S) <= x
<1>1. PICK least \in S : \A y \in S : ~ (<<y, least>> \in OpToRel(<, Nat))
  BY WFMin, NatLessThanWellFounded, Zenon
<1>2. \A y \in S : least <= y
  <2> TAKE y \in S
  <2>1. y < least => <<y, least>> \in OpToRel(<, Nat)
    BY DEF OpToRel
  <2>2. ~ (y < least)
    BY <1>1, <2>1, Zenon
  <2> QED
    BY <2>2
<1> QED
  BY <1>2 DEF Min

\* What a request, or a step of one, does to what syncs hold on to: a provider
\* that is deleted stays so, a data source keeps its provider.
LEMMA CatalogSteps ==
  ASSUME CatalogInv, CatalogRequest \/ CatalogStep
  PROVE  /\ \A p \in Providers : provider[p] = "deleted" => provider'[p] = "deleted"
         /\ \A p \in cleaning' : p \in cleaning \/ provider'[p] = "deleted"
         /\ \A d \in Sources : source[d].state # "none" =>
              source'[d].state # "none" /\ source'[d].provider = source[d].provider
<1> DEFINE Stay == \A d \in Sources : source[d].state # "none" =>
              source'[d].state # "none" /\ source'[d].provider = source[d].provider
<1>0. ASSUME NEW p \in Providers, createDataProvider(p)
      PROVE  \A q \in Providers : provider[q] = "deleted" => provider'[q] = "deleted"
  <2>1. provider[p] = "none"
    BY <1>0, CatalogAssumption DEF createDataProvider, NextProvider, Providers
  <2> QED
    BY <1>0, <2>1 DEF createDataProvider, CatalogInv, CatalogTypeOK
<1>1. ASSUME NEW p \in Providers, RequestProvider(p) \/ Save(p)
      PROVE  (\A q \in Providers : provider[q] = "deleted" => provider'[q] = "deleted")
             /\ cleaning' = cleaning /\ source' = source
  BY <1>0, <1>1 DEF RequestProvider, Save, CatalogInv, CatalogTypeOK
<1>2. ASSUME NEW d \in Sources, FindProvider(d)
      PROVE  (\A q \in Providers : provider[q] = "deleted" => provider'[q] = "deleted")
             /\ cleaning' = cleaning /\ source' = source
  BY <1>0, <1>2 DEF FindProvider
<1>3. ASSUME NEW d \in Sources, RequestSource(d) \/ RequestDeletion(d) \/ CheckSource(d) \/ BeginDeletion(d)
      PROVE  provider' = provider /\ cleaning' = cleaning /\ source' = source
  BY <1>3 DEF RequestSource, RequestDeletion, CheckSource, BeginDeletion
<1>4. ASSUME NEW d \in Sources, InsertSource(d)
      PROVE  provider' = provider /\ cleaning' = cleaning /\ Stay
  <2>1. source[d].state = "none"
    BY <1>4 DEF InsertSource, CatalogInv, RequestsInv, NoCreation
  <2> QED
    BY <1>4, <2>1 DEF InsertSource, createDataSource, CatalogInv, CatalogTypeOK
<1>5. ASSUME NEW d \in Sources, CommitDeletion(d)
      PROVE  /\ \A p \in Providers : provider[p] = "deleted" => provider'[p] = "deleted"
             /\ \A p \in cleaning' : p \in cleaning \/ provider'[p] = "deleted"
             /\ Stay
  <2>1. source[d].state # "none" /\ source[d].provider \in Providers
    <3>1. deletion[d] # NoDeletion
      BY <1>5 DEF CommitDeletion, NoDeletion
    <3> QED
      BY <3>1, SourceKinds DEF CatalogInv, RequestsInv
  <2>2. /\ source'[d] = [source[d] EXCEPT !.state = "deleted"]
        /\ \A e \in Sources \ {d} : source'[e] = source[e]
    BY <1>5, DeletesOnlyItself DEF CommitDeletion
  <2>3. source'[d].state = "deleted" /\ source'[d].provider = source[d].provider
    BY <2>2 DEF CatalogInv, CatalogTypeOK, DataSource, NoSource
  <2>4. Stay
    BY <2>2, <2>3
  <2> QED
    BY <1>5, <2>1, <2>4 DEF CommitDeletion, CatalogInv, CatalogTypeOK
<1> QED
  BY <1>1, <1>2, <1>3, <1>4, <1>5 DEF CatalogRequest, CatalogStep

\* So syncs find what they found before.
LEMMA CatalogStepsKeep ==
  ASSUME SheetInv, CatalogRequest \/ CatalogStep, UNCHANGED sheetVars
  PROVE  SheetInv'
<1>1. CatalogInv'
  BY CatalogKept DEF SheetInv
<1>2. CatalogInv /\ CatalogTypeOK /\ cleaning \subseteq Providers /\ downloadedAt \subseteq Providers
  BY DEF SheetInv, CatalogInv, CatalogTypeOK, TypeOK
<1>3. TypeOK'
  BY <1>1 DEF CatalogInv, SheetInv, TypeOK, sheetVars
<1>4. \A d \in Sources : ~At(d, "idle") =>
        /\ source[d].state # "none" /\ ProviderOf(d) \in Providers
        /\ source'[d].state # "none" /\ ProviderOf(d)' = ProviderOf(d)
  BY <1>2, CatalogSteps, SourceKinds DEF SheetInv, FilesInv, ProviderOf
<1>5. \A p \in Providers : HasFile(p) => HasFile(p)'
  BY <1>2, CatalogSteps DEF HasFile, sheetVars, NoFile
<1>6. UNCHANGED <<edits, file, downloadedAt, sync, done, since>> /\ \A d, step : At(d, step)' <=> At(d, step)
  BY DEF sheetVars, At
<1>7. FilesInv'
  <2>1. \A p \in cleaning' : provider'[p] = "deleted"
    BY <1>2, CatalogSteps DEF SheetInv, FilesInv
  <2>2. \A p \in downloadedAt' : HasFile(p)'
    BY <1>2, <1>5, <1>6 DEF SheetInv, FilesInv
  <2>3. ASSUME NEW d \in Sources
        PROVE  /\ ~At(d, "idle")' => source'[d].state # "none" /\ done'[d] < MaxSyncs
               /\ At(d, "note")' \/ At(d, "ingest")' => HasFile(ProviderOf(d))'
    <3>1. At(d, "note") \/ At(d, "ingest") => ~At(d, "idle")
      BY DEF At
    <3>2. At(d, "note") \/ At(d, "ingest") => HasFile(ProviderOf(d))
      BY DEF SheetInv, FilesInv
    <3>3. ~At(d, "idle") => done'[d] < MaxSyncs
      BY <1>6 DEF SheetInv, FilesInv
    <3> QED
      BY <1>4, <1>5, <1>6, <3>1, <3>2, <3>3 DEF HasFile
  <2> QED
    BY <2>1, <2>2, <2>3 DEF FilesInv
<1>8. FreshInv'
  <2>1. ASSUME NEW d \in Sources
        PROVE  Newer(d)'
    <3>1. Newer(d)
      BY DEF SheetInv, FreshInv
    <3>2. At(d, "note") \/ At(d, "ingest") => ProviderOf(d)' = ProviderOf(d)
      BY <1>4 DEF At
    <3> QED
      BY <1>6, <3>1, <3>2 DEF Newer
  <2> QED
    BY <2>1 DEF FreshInv
<1> QED
  BY <1>1, <1>3, <1>7, <1>8 DEF SheetInv


\* While documents stay, but for providers that are cleaned.
DocumentsStay == UNCHANGED <<provider, source, creation, deletion, orphaned>> /\ cleaning' \subseteq cleaning
LEMMA CatalogStays ==
  ASSUME CatalogInv, DocumentsStay
  PROVE  CatalogInv'
  BY DEF DocumentsStay, CatalogInv, CatalogTypeOK, RequestsInv, SnapshotInv, Doomed, Anchored

\* What one sync's step changes: its own record, and how far it has come.
OwnStep(d) ==
  /\ DocumentsStay /\ edits' = edits
  /\ sync' \in [Sources -> Syncs] /\ \A e \in Sources \ {d} : sync'[e] = sync[e]
  /\ ~At(d, "idle")
  /\ sync'[d].oldest = sync[d].oldest /\ sync'[d].first = sync[d].first
LEMMA SyncGoesOn ==
  ASSUME SheetInv, NEW d \in Sources, ~At(d, "idle"), DocumentsStay, edits' = edits,
         NEW step \in {"ingest", "download", "upload", "note", "ingested", "stuck"}
  PROVE  /\ Goto(d, step) => OwnStep(d) /\ sync'[d].step = step /\ sync'[d].read = sync[d].read
         /\ \A read \in Contents : sync' = [sync EXCEPT ![d].step = step, ![d].read = read] =>
              OwnStep(d) /\ sync'[d].step = step /\ sync'[d].read = read
<1>1. sync \in [Sources -> Syncs]
  BY DEF SheetInv, TypeOK, Syncs
<1> QED
  BY <1>1 DEF OwnStep, Goto, Syncs

\* Such a step keeps the invariant, if a file it writes, or takes, is there and new
\* enough.
LEMMA OwnStepKeeps ==
  ASSUME SheetInv, NEW d \in Sources, OwnStep(d),
         file' \in [Providers -> Contents \cup {NoFile}], downloadedAt' \subseteq Providers,
         done' = done, since' \subseteq Sources,
         \A p \in Providers : HasFile(p) => HasFile(p)',
         \A p \in downloadedAt' : HasFile(p)',
         sync'[d].step \in {"note", "ingest"} => HasFile(ProviderOf(d))',
         sync'[d].step = "upload" => sync'[d].read = edits,
         \A p \in Providers, e \in Sources : file'[p] # file[p] => file'[p] >= sync[e].oldest,
         ~sync[d].first /\ sync'[d].step \in {"note", "ingest"} => file'[ProviderOf(d)] >= sync[d].oldest,
         ~sync[d].first /\ sync'[d].step = "ingested" => sync'[d].read >= sync[d].oldest
  PROVE  SheetInv'
<1>1. CatalogInv'
  BY CatalogStays DEF SheetInv, OwnStep
<1>2. TypeOK'
  BY <1>1 DEF SheetInv, TypeOK, CatalogInv, OwnStep, Syncs
<1>3. \A e \in Sources : ProviderOf(e)' = ProviderOf(e) /\ (~At(e, "idle") => ProviderOf(e) \in Providers)
  BY SourceKinds DEF SheetInv, FilesInv, ProviderOf, OwnStep, DocumentsStay, CatalogInv
<1>4. FilesInv'
  <2>1. \A p \in cleaning' : provider'[p] = "deleted"
    BY DEF SheetInv, FilesInv, OwnStep, DocumentsStay
  <2>2. ASSUME NEW e \in Sources
        PROVE  /\ ~At(e, "idle")' => source'[e].state # "none" /\ done'[e] < MaxSyncs
               /\ At(e, "note")' \/ At(e, "ingest")' => HasFile(ProviderOf(e))'
    <3>1. CASE e = d
      BY <1>3, <3>1 DEF SheetInv, FilesInv, OwnStep, DocumentsStay, At, HasFile
    <3>2. CASE e # d
      <4>1. /\ ~At(e, "idle") => source[e].state # "none" /\ done[e] < MaxSyncs
            /\ At(e, "note") \/ At(e, "ingest") => HasFile(ProviderOf(e))
        BY DEF SheetInv, FilesInv
      <4>2. sync'[e] = sync[e] /\ source' = source
        BY <3>2 DEF OwnStep, DocumentsStay
      <4> QED
        BY <1>3, <4>1, <4>2 DEF At, HasFile
    <3> QED
      BY <3>1, <3>2
  <2> QED
    BY <2>1, <2>2 DEF FilesInv
<1>5. FreshInv'
  <2>1. sync \in [Sources -> Syncs] /\ edits \in Nat /\ edits' = edits /\ Contents \subseteq Nat
        /\ file' \in [Providers -> Nat]
    BY ContentTypes DEF SheetInv, TypeOK, Syncs, OwnStep
  <2>2. ASSUME NEW c \in Sources
        PROVE  Newer(c)'
    <3>1. Newer(c)
      BY DEF SheetInv, FreshInv
    <3>2. sync'[c].oldest = sync[c].oldest /\ sync'[c].first = sync[c].first /\ sync[c].oldest \in Nat
      BY <2>1 DEF OwnStep, Syncs
    <3>3. \A e \in Sources : At(e, "upload")' => sync'[e].read >= sync'[c].oldest
      BY <2>1, <3>1, <3>2 DEF OwnStep, Newer, At
    <3>4. ~sync[c].first /\ (At(c, "note")' \/ At(c, "ingest")') => file'[ProviderOf(c)] >= sync[c].oldest
      <4>1. CASE c = d
        BY <4>1 DEF At
      <4>2. CASE c # d
        BY <1>3, <3>1, <4>2 DEF Newer, OwnStep, At
      <4> QED
        BY <4>1, <4>2
    <3>5. ~sync[c].first /\ At(c, "ingested")' => sync'[c].read >= sync[c].oldest
      <4>1. CASE c = d
        BY <4>1 DEF At
      <4>2. CASE c # d
        BY <3>1, <4>2 DEF Newer, OwnStep, At
      <4> QED
        BY <4>1, <4>2
    <3> QED
      BY <1>3, <2>1, <3>1, <3>2, <3>3, <3>4, <3>5 DEF Newer
  <2> QED
    BY <2>2 DEF FreshInv
<1> QED
  BY <1>1, <1>2, <1>4, <1>5 DEF SheetInv

\* A sync other than a data source's first never takes a file over: of the two
\* times one comes as a string.
LEMMA TakesOverOnce ==
  ASSUME NEW d \in Sources, TakesOver(d)
  PROVE  sync[d].first /\ ProviderOf(d) \in downloadedAt
<1>1. ~Comparable(ingestedAt(d), providerDownloadedAt(d)) \/ sync[d].first
  BY DEF Comparable, ingestedAt, Passed, Published, toPayload, fromPayload
<1>2. ingestedAt(d) = "undefined" => sync[d].first
  BY DEF ingestedAt, Passed, Published, toPayload, fromPayload
<1>3. providerDownloadedAt(d) # "undefined" => ProviderOf(d) \in downloadedAt
  BY DEF providerDownloadedAt, Passed, toPayload, fromPayload
<1> QED
  BY <1>1, <1>2, <1>3 DEF TakesOver

\* The download of a sync.
LEMMA DownloadKeeps ==
  ASSUME SheetInv, NEW d \in Sources, googleSheetsDownload(d), UNCHANGED <<catalogVars, edits, done>>
  PROVE  SheetInv'
<1>1. DocumentsStay /\ edits' = edits /\ done' = done /\ ProviderOf(d)' = ProviderOf(d)
  BY DEF DocumentsStay, catalogVars, ProviderOf
<1>2. /\ file \in [Providers -> Contents \cup {NoFile}] /\ downloadedAt \subseteq Providers /\ since \subseteq Sources
      /\ edits \in Contents /\ sync \in [Sources -> Syncs]
      /\ \A p \in downloadedAt : HasFile(p)
      /\ Newer(d)
  BY DEF SheetInv, TypeOK, FilesInv, FreshInv, Syncs
<1>3. ASSUME UNCHANGED <<file, downloadedAt, since>>
      PROVE  /\ \A p \in Providers : HasFile(p)' <=> HasFile(p)
             /\ HasFile(ProviderOf(d))' <=> HasFile(ProviderOf(d))
             /\ \A p \in downloadedAt' : HasFile(p)'
  BY <1>1, <1>2, <1>3 DEF HasFile, DocumentsStay
<1>4. CASE At(d, "decide") /\ UNCHANGED <<file, downloadedAt, since>>
  <2>0. ~At(d, "idle")
    BY <1>4 DEF At
  <2>1. CASE Found(d) /\ TakesOver(d) /\ Goto(d, "ingest")
    <3>1. sync[d].first /\ HasFile(ProviderOf(d))
      BY <1>2, <2>1, TakesOverOnce
    <3> QED
      BY <1>1, <1>2, <1>3, <1>4, <2>0, <2>1, <3>1, SyncGoesOn, OwnStepKeeps
  <2>2. CASE Goto(d, "download") \/ Goto(d, "stuck")
    <3>1. OwnStep(d) /\ sync'[d].step \in {"download", "stuck"}
      BY <1>1, <2>0, <2>2, SyncGoesOn
    <3> QED
      BY <1>1, <1>2, <1>3, <1>4, <3>1, OwnStepKeeps
  <2> QED
    BY <1>4, <2>1, <2>2 DEF googleSheetsDownload, At
<1>5. CASE At(d, "download")
  <2>1. sync' = [sync EXCEPT ![d].step = "upload", ![d].read = edits] /\ UNCHANGED <<file, downloadedAt, since>>
        /\ ~At(d, "idle")
    BY <1>5 DEF googleSheetsDownload, At
  <2>2. OwnStep(d) /\ sync'[d].step = "upload" /\ sync'[d].read = edits
    BY <1>1, <1>2, <2>1, SyncGoesOn
  <2> QED
    BY <1>1, <1>2, <1>3, <2>1, <2>2, OwnStepKeeps
<1>6. CASE At(d, "upload")
  <2>1. file' = [file EXCEPT ![ProviderOf(d)] = sync[d].read] /\ Goto(d, "note")
        /\ UNCHANGED <<downloadedAt, since>> /\ ~At(d, "idle")
    BY <1>6 DEF googleSheetsDownload, At
  <2>2. OwnStep(d) /\ sync'[d].step = "note"
    BY <1>1, <2>1, SyncGoesOn
  <2>3. ProviderOf(d) \in Providers /\ sync[d].read \in Contents
    BY <1>2, <2>1, SourceKinds DEF SheetInv, CatalogInv, FilesInv, ProviderOf, Syncs
  <2>4. file' \in [Providers -> Contents \cup {NoFile}] /\ file'[ProviderOf(d)] = sync[d].read
    BY <1>2, <2>1, <2>3
  <2>5. \A p \in Providers : HasFile(p) \/ p = ProviderOf(d) => HasFile(p)'
    BY <1>1, <1>2, <2>1, <2>3, ContentTypes DEF HasFile, DocumentsStay, NoFile
  <2>6. \A e \in Sources : sync[d].read >= sync[e].oldest
    BY <1>6 DEF SheetInv, FreshInv, Newer
  <2>7. \A p \in Providers : file'[p] # file[p] => p = ProviderOf(d)
    BY <1>2, <2>1
  <2>8. \A p \in downloadedAt' : HasFile(p)'
    BY <1>2, <2>1, <2>5
  <2>9. HasFile(ProviderOf(d))'
    BY <1>1, <2>3, <2>5 DEF HasFile
  <2> QED
    BY <1>1, <1>2, <2>1, <2>2, <2>3, <2>4, <2>5, <2>6, <2>7, <2>8, <2>9, OwnStepKeeps
<1>7. CASE At(d, "note")
  <2>1. updateProviderStateGoogleSheets(d) /\ file' = file /\ ~At(d, "idle")
    BY <1>7 DEF googleSheetsDownload, At
  <2>2. /\ HasFile(ProviderOf(d)) /\ ProviderOf(d) \in Providers
        /\ ~sync[d].first => file[ProviderOf(d)] >= sync[d].oldest
    BY <1>2, <1>7, <2>1, SourceKinds DEF SheetInv, CatalogInv, FilesInv, Newer, ProviderOf
  <2>3. \A p \in Providers : HasFile(p)' <=> HasFile(p)
    BY <1>1, <2>1 DEF HasFile, DocumentsStay
  <2>4. HasFile(ProviderOf(d))'
    BY <1>1, <2>1, <2>2 DEF HasFile, DocumentsStay
  <2>5. OwnStep(d) /\ sync'[d].step \in {"ingest", "stuck"}
    BY <1>1, <2>1, SyncGoesOn DEF updateProviderStateGoogleSheets
  <2>6. downloadedAt' \subseteq downloadedAt \cup {ProviderOf(d)} /\ since' \subseteq Sources
    BY <1>2, <2>1 DEF updateProviderStateGoogleSheets, updateProviderState
  <2>7. downloadedAt' \subseteq Providers /\ \A p \in downloadedAt' : HasFile(p)'
    BY <1>2, <2>2, <2>3, <2>6
  <2> QED
    BY <1>1, <1>2, <2>1, <2>2, <2>3, <2>4, <2>5, <2>6, <2>7, OwnStepKeeps
<1> QED
  BY <1>4, <1>5, <1>6, <1>7 DEF googleSheetsDownload


\* A sync that is over, or terminated.
LEMMA SyncDropped ==
  ASSUME SheetInv, NEW d \in Sources, DocumentsStay, UNCHANGED <<edits, file, downloadedAt>>,
         sync' = [sync EXCEPT ![d] = NoSync],
         done' \in [Sources -> 0 .. MaxSyncs], \A e \in Sources \ {d} : done'[e] = done[e],
         since' \subseteq Sources
  PROVE  SheetInv'
<1>1. CatalogInv'
  BY CatalogStays DEF SheetInv
<1>2. sync \in [Sources -> Syncs] /\ NoSync \in Syncs /\ NoSync.step = "idle" /\ NoSync.oldest = 0
      /\ edits \in Nat
  BY ContentTypes, SpreadsheetAssumption DEF SheetInv, TypeOK, Syncs, NoSync, Contents
<1>3. /\ sync' \in [Sources -> Syncs] /\ sync'[d] = NoSync
      /\ \A e \in Sources \ {d} : sync'[e] = sync[e]
  BY <1>2
<1>4. TypeOK'
  BY <1>1, <1>3 DEF SheetInv, TypeOK, CatalogInv, Syncs
<1>5. UNCHANGED <<provider, source>> /\ \A e \in Sources : ProviderOf(e)' = ProviderOf(e)
  BY DEF DocumentsStay, ProviderOf
<1>6. FilesInv'
  <2>1. \A p \in cleaning' : provider'[p] = "deleted"
    BY DEF SheetInv, FilesInv, DocumentsStay
  <2>2. \A p \in downloadedAt' : HasFile(p)'
    BY <1>5 DEF SheetInv, FilesInv, HasFile
  <2>3. ASSUME NEW e \in Sources
        PROVE  /\ ~At(e, "idle")' => source'[e].state # "none" /\ done'[e] < MaxSyncs
               /\ At(e, "note")' \/ At(e, "ingest")' => HasFile(ProviderOf(e))'
    <3>1. CASE e = d
      BY <1>2, <1>3, <3>1 DEF At
    <3>2. CASE e # d
      BY <1>3, <1>5, <3>2 DEF SheetInv, FilesInv, At, HasFile
    <3> QED
      BY <3>1, <3>2
  <2> QED
    BY <2>1, <2>2, <2>3 DEF FilesInv
<1>7. FreshInv'
  <2>1. ASSUME NEW e \in Sources
        PROVE  Newer(e)'
    <3>1. \A c \in Sources : At(c, "upload")' => c # d /\ At(c, "upload") /\ sync'[c].read = sync[c].read /\ sync[c].read \in Nat
      BY <1>2, <1>3, ContentTypes DEF At, Syncs
    <3>2. CASE e = d
      BY <1>2, <1>3, <3>1, <3>2 DEF Newer, At
    <3>3. CASE e # d
      BY <1>3, <1>5, <3>1, <3>3 DEF SheetInv, FreshInv, Newer, At
    <3> QED
      BY <3>2, <3>3
  <2> QED
    BY <2>1 DEF FreshInv
<1> QED
  BY <1>1, <1>4, <1>6, <1>7 DEF SheetInv

\* The ingestion of a sync, and its end.
LEMMA ProceedKeeps ==
  ASSUME SheetInv, NEW d \in Sources, googleSheetsProceedSync(d),
         UNCHANGED <<catalogVars, edits, file, downloadedAt>>
  PROVE  SheetInv'
<1>1. DocumentsStay /\ edits' = edits /\ ProviderOf(d)' = ProviderOf(d)
  BY DEF DocumentsStay, catalogVars, ProviderOf
<1>2. /\ file \in [Providers -> Contents \cup {NoFile}] /\ downloadedAt \subseteq Providers /\ since \subseteq Sources
      /\ edits \in Contents /\ sync \in [Sources -> Syncs] /\ done \in [Sources -> 0 .. MaxSyncs]
      /\ Newer(d) /\ FilesInv
      /\ \A p \in downloadedAt : HasFile(p)
  BY DEF SheetInv, TypeOK, FilesInv, FreshInv, Syncs
<1>3. /\ \A p \in Providers : HasFile(p)' <=> HasFile(p)
      /\ \A p \in downloadedAt' : HasFile(p)'
  BY <1>1, <1>2 DEF HasFile, DocumentsStay
<1>4. CASE At(d, "ingest")
  <2>1. ~At(d, "idle") /\ done' = done /\ since' = since
    BY <1>4 DEF googleSheetsProceedSync, At
  <2>2. CASE ~Found(d)
    <3>1. OwnStep(d) /\ sync'[d].step = "stuck"
      BY <1>1, <1>4, <2>1, <2>2, SyncGoesOn DEF googleSheetsProceedSync, At
    <3> QED
      BY <1>1, <1>2, <1>3, <2>1, <3>1, OwnStepKeeps
  <2>3. CASE Found(d)
    <3>1. file[ProviderOf(d)] \in Contents
      <4>1. ProviderOf(d) \in Providers /\ HasFile(ProviderOf(d)) /\ provider[ProviderOf(d)] # "deleted"
        BY <1>2, <1>4, <2>3, SourceKinds DEF FilesInv, Found, ProviderOf, SheetInv, CatalogInv
      <4> QED
        BY <1>2, <4>1 DEF HasFile
    <3>2. OwnStep(d) /\ sync'[d].step = "ingested" /\ sync'[d].read = file[ProviderOf(d)]
      BY <1>1, <1>4, <2>1, <2>3, <3>1, SyncGoesOn DEF googleSheetsProceedSync, At
    <3>3. ~sync[d].first => sync'[d].read >= sync[d].oldest
      BY <1>2, <1>4, <3>2 DEF Newer
    <3> QED
      BY <1>1, <1>2, <1>3, <2>1, <3>2, <3>3, OwnStepKeeps
  <2> QED
    BY <2>2, <2>3
<1>5. CASE At(d, "ingested")
  <2>1. /\ done' = [done EXCEPT ![d] = @ + 1] /\ since' = since \ {d}
        /\ sync' = [sync EXCEPT ![d] = NoSync] /\ ~At(d, "idle")
    BY <1>5 DEF googleSheetsProceedSync, At
  <2>2. done[d] < MaxSyncs
    BY <1>2, <2>1 DEF FilesInv
  <2>3. done' \in [Sources -> 0 .. MaxSyncs] /\ \A e \in Sources \ {d} : done'[e] = done[e]
    BY <1>2, <2>1, <2>2, ContentTypes
  <2> QED
    BY <1>1, <1>2, <1>3, <2>1, <2>3, SyncDropped
<1> QED
  BY <1>4, <1>5 DEF googleSheetsProceedSync

\* An edit.
LEMMA EditKeeps ==
  ASSUME SheetInv, Edit
  PROVE  SheetInv'
<1>1. UNCHANGED <<catalogVars, file, downloadedAt, sync, done, since>> /\ edits' = edits + 1
      /\ edits \in Nat /\ edits' \in Contents
  BY ContentTypes DEF Edit, SheetInv, TypeOK, Contents
<1>2. CatalogInv' /\ UNCHANGED <<provider, source, cleaning>>
  BY <1>1, CatalogStays DEF SheetInv, DocumentsStay, catalogVars
<1>3. TypeOK'
  BY <1>1, <1>2 DEF SheetInv, TypeOK, CatalogInv
<1>4. FilesInv'
  BY <1>1, <1>2 DEF SheetInv, FilesInv, HasFile, At, ProviderOf
<1>5. FreshInv'
  <2>1. \A d \in Sources : sync[d].oldest \in Nat
    BY ContentTypes DEF SheetInv, TypeOK
  <2> QED
    BY <1>1, <1>2, <2>1 DEF SheetInv, FreshInv, Newer, At, ProviderOf
<1> QED
  BY <1>2, <1>3, <1>4, <1>5 DEF SheetInv

\* A new sync is no newer than what downloads then on their way have read.
LEMMA ScheduleKeeps ==
  ASSUME SheetInv, NEW d \in Sources, Schedule(d)
  PROVE  SheetInv'
<1> DEFINE Reads == {edits} \cup {sync[e].read : e \in {e \in Sources : At(e, "upload")}}
           new == [step |-> "decide", read |-> 0, first |-> done[d] = 0, oldest |-> Min(Reads)]
<1>1. /\ source[d].state = "live" /\ done[d] < MaxSyncs
      /\ sync' = [sync EXCEPT ![d] = new]
      /\ UNCHANGED <<catalogVars, edits, file, downloadedAt, done, since>>
  BY DEF Schedule
<1>2. sync \in [Sources -> Syncs] /\ edits \in Contents
  BY DEF SheetInv, TypeOK, Syncs
<1>3. Reads \subseteq Contents /\ Reads # {} /\ Contents \subseteq Nat
  BY <1>2, ContentTypes DEF Syncs
<1>4. Min(Reads) \in Reads /\ \A r \in Reads : Min(Reads) <= r
  <2> HIDE DEF Reads
  <2> QED
    BY <1>3, Least
<1>5. /\ Min(Reads) \in Contents /\ Min(Reads) <= edits
      /\ \A e \in Sources : At(e, "upload") => sync[e].read >= Min(Reads)
  BY <1>2, <1>3, <1>4 DEF Syncs
<1> HIDE DEF Reads
<1>6. new \in Syncs
  BY <1>5, ContentTypes, SpreadsheetAssumption DEF Syncs, Contents
<1>7. /\ sync' \in [Sources -> Syncs] /\ sync'[d].step = "decide" /\ sync'[d].oldest = Min(Reads)
      /\ \A e \in Sources \ {d} : sync'[e] = sync[e]
  BY <1>1, <1>2, <1>6
<1> HIDE DEF new
<1>8. CatalogInv' /\ UNCHANGED <<provider, source, cleaning>>
  BY <1>1, CatalogStays DEF SheetInv, DocumentsStay, catalogVars
<1>9. TypeOK'
  BY <1>1, <1>7, <1>8 DEF SheetInv, TypeOK, CatalogInv, Syncs
<1>10. FilesInv'
  BY <1>1, <1>7, <1>8 DEF SheetInv, FilesInv, HasFile, At, ProviderOf
<1>11. FreshInv'
  <2>1. ASSUME NEW e \in Sources
        PROVE  Newer(e)'
    <3>1. \A c \in Sources : At(c, "upload")' => At(c, "upload") /\ sync'[c].read = sync[c].read
      BY <1>7 DEF At
    <3>2. CASE e = d
      BY <1>1, <1>5, <1>7, <3>1, <3>2 DEF Newer, At
    <3>3. CASE e # d
      BY <1>1, <1>7, <1>8, <3>1, <3>3 DEF SheetInv, FreshInv, Newer, At, ProviderOf
    <3> QED
      BY <3>2, <3>3
  <2> QED
    BY <2>1 DEF FreshInv
<1> QED
  BY <1>8, <1>9, <1>10, <1>11 DEF SheetInv

\* The cleaning takes the file of a provider that no sync finds.
LEMMA CleanKeeps ==
  ASSUME SheetInv, NEW p \in Providers, CleanProvider(p)
  PROVE  SheetInv'
<1>1. /\ UNCHANGED <<provider, source, creation, deletion, orphaned, edits, downloadedAt, sync, done, since>>
      /\ cleaning' \subseteq cleaning /\ p \in cleaning
      /\ file' = [file EXCEPT ![p] = NoFile]
  BY DEF CleanProvider, cleanSpreadsheetData
<1>2. CatalogInv' /\ provider[p] = "deleted"
  BY <1>1, CatalogStays DEF SheetInv, DocumentsStay, FilesInv
<1>3. TypeOK'
  BY <1>1, <1>2 DEF SheetInv, TypeOK, CatalogInv
<1>4. \A q : HasFile(q) /\ q \in Providers => HasFile(q)'
  BY <1>1, <1>2 DEF HasFile, SheetInv, TypeOK, NoFile
<1>5. \A d \in Sources : ~At(d, "idle") => ProviderOf(d) \in Providers
  BY SourceKinds DEF SheetInv, FilesInv, CatalogInv, ProviderOf
<1>6. FilesInv'
  <2>1. \A d \in Sources : At(d, "note")' \/ At(d, "ingest")' => HasFile(ProviderOf(d))'
    <3>1. \A d \in Sources : At(d, "note") \/ At(d, "ingest") => HasFile(ProviderOf(d)) /\ ~At(d, "idle")
      BY DEF SheetInv, FilesInv, At
    <3>2. \A d \in Sources : ProviderOf(d)' = ProviderOf(d) /\ \A step : At(d, step)' <=> At(d, step)
      BY <1>1 DEF ProviderOf, At
    <3> QED
      BY <1>1, <1>4, <1>5, <3>1, <3>2 DEF HasFile
  <2>2. \A q \in downloadedAt' : HasFile(q)'
    BY <1>1, <1>4 DEF SheetInv, FilesInv, TypeOK
  <2> QED
    BY <1>1, <2>1, <2>2 DEF SheetInv, FilesInv, At
<1>7. FreshInv'
  <2>1. \A q \in Providers : file'[q] >= file[q]
    BY <1>1, ContentTypes DEF SheetInv, TypeOK
  <2>2. file \in [Providers -> Nat] /\ file' \in [Providers -> Nat] /\ \A d \in Sources : sync[d].oldest \in Nat
    BY <1>1, ContentTypes DEF SheetInv, TypeOK
  <2>3. ASSUME NEW d \in Sources
        PROVE  Newer(d)'
    <3>1. Newer(d) /\ (At(d, "note") \/ At(d, "ingest") => ProviderOf(d) \in Providers)
      BY <1>5 DEF SheetInv, FreshInv, At
    <3>2. ProviderOf(d)' = ProviderOf(d)
      BY <1>1 DEF ProviderOf
    <3> QED
      BY <1>1, <2>1, <2>2, <3>1, <3>2 DEF Newer, At
  <2> QED
    BY <2>3 DEF FreshInv
<1> QED
  BY <1>2, <1>3, <1>6, <1>7 DEF SheetInv

\* The invariant at first, and kept by every step.
LEMMA SheetFollowed == Spec => []SheetInv
<1>1. Init => SheetInv
  <2> SUFFICES ASSUME Init
               PROVE  SheetInv
    OBVIOUS
  <2>1. CatalogInv
    BY SMT DEF Init, CatalogInit, CatalogInv, CatalogTypeOK, RequestsInv, SnapshotInv, Doomed,
               Anchored, DataProvider, DataSource, NoSource, NoCreation, NoDeletion
  <2>2. \A d \in Sources : At(d, "idle") /\ sync[d].oldest = 0
    BY DEF Init, NoSync, At
  <2>3. TypeOK
    BY <2>1, SpreadsheetAssumption DEF CatalogInv, TypeOK, Init, NoSync, Contents, NoFile
  <2>4. FilesInv
    BY <2>2 DEF FilesInv, Init, CatalogInit, At
  <2>5. FreshInv
    BY <2>2 DEF FreshInv, Newer, Init, At
  <2> QED
    BY <2>1, <2>3, <2>4, <2>5 DEF SheetInv
<1>2. SheetInv /\ [Next]_vars => SheetInv'
  <2> SUFFICES ASSUME SheetInv, [Next]_vars
               PROVE  SheetInv'
    OBVIOUS
  <2>1. ASSUME NEW d \in Sources, Terminate(d)
        PROVE  SheetInv'
    BY <2>1, SyncDropped DEF Terminate, DocumentsStay, catalogVars, SheetInv, TypeOK
  <2>2. CASE UNCHANGED vars
    <3>1. CatalogInv'
      BY <2>2, CatalogStays DEF vars, catalogVars, DocumentsStay, SheetInv
    <3>2. TypeOK'
      BY <2>2, <3>1 DEF vars, sheetVars, SheetInv, TypeOK, CatalogInv
    <3> QED
      BY <2>2, <3>1, <3>2 DEF vars, catalogVars, sheetVars, SheetInv, FilesInv, FreshInv, Newer, HasFile,
                              At, ProviderOf
  <2> QED
    BY <2>1, <2>2, CatalogStepsKeep, EditKeeps, ScheduleKeeps, DownloadKeeps, ProceedKeeps, CleanKeeps DEF Next
<1> QED
  BY <1>1, <1>2, PTL DEF Spec

\* Every variable keeps its type. The part of it that matters: a sync that finds
\* its data source and provider has a file to ingest, whoever downloaded it, and
\* whichever deletions and cleanings come between.
THEOREM SheetTypes == Spec => []TypeOK
<1>1. SheetInv => TypeOK
  BY DEF SheetInv
<1> QED
  BY <1>1, SheetFollowed, PTL

\* A sync other than the first of its data source ingests nothing older than
\* what was there, or was being downloaded, when it was scheduled, although all
\* data sources of the spreadsheet write the same file.
THEOREM FreshAlways == Spec => []Fresh
<1>1. SheetInv => Fresh
  BY DEF SheetInv, FreshInv, Newer, Fresh
<1> QED
  BY <1>1, SheetFollowed, PTL
=============================================================================
