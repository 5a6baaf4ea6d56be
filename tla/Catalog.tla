------------------------------- MODULE Catalog -------------------------------
(***************************************************************************)
(* The data sources of one spreadsheet and the data providers they belong  *)
(* to, as the configurator keeps them in MongoDB. The first data source    *)
(* brings its provider with it and the last one takes it away, while       *)
(* requests for other data sources of the spreadsheet are on their way.    *)
(*                                                                         *)
(* A creation is a sequence of requests to the database and to the user's  *)
(* sheet, outside any transaction. A deletion is a transaction with a      *)
(* snapshot: it sees nothing that is committed after it began, and aborts  *)
(* only if another one changed a document that it changes.                 *)
(***************************************************************************)
EXTENDS Naturals, FiniteSets, Api

CONSTANTS
  Sources,       \* the ids data sources get
  MaxProviders   \* bound: providers ever made

ASSUME CatalogAssumption == MaxProviders \in Nat \ {0}

VARIABLES
  provider,   \* per id: the provider's document
  source,     \* per id: the data source's document, and its provider's id
  creation,   \* per data source: the request that creates it
  deletion,   \* per data source: the activity that deletes it
  orphaned,   \* history: inserted when its provider was being, or was, deleted
  cleaning    \* providers whose DATA_PROVIDER_DELETED is not handled

catalogVars == <<provider, source, creation, deletion, orphaned, cleaning>>

Providers == 1 .. MaxProviders
NoProvider == 0
NoSource == [state |-> "none", provider |-> NoProvider]
NoCreation == [step |-> "none", provider |-> NoProvider]
NoDeletion == [step |-> "none", others |-> {}]

\* A document that is deleted stays, marked so.
DataProvider == {"none", "unsaved", "live", "deleted"}
DataSource == [state : {"live", "deleted"}, provider : Providers] \cup {NoSource}

CatalogTypeOK ==
  /\ provider \in [Providers -> DataProvider]
  /\ source \in [Sources -> DataSource]
  /\ creation \in [Sources -> [step : {"check", "insert"}, provider : Providers]
                              \cup {NoCreation, [NoCreation EXCEPT !.step = "look"]}]
  /\ deletion \in [Sources -> [step : {"none", "begin", "commit", "done"},
                              others : SUBSET Sources]]
  /\ orphaned \subseteq Sources
  /\ cleaning \subseteq Providers

CatalogInit ==
  /\ provider = [p \in Providers |-> "none"]
  /\ source = [d \in Sources |-> NoSource]
  /\ creation = [d \in Sources |-> NoCreation]
  /\ deletion = [d \in Sources |-> NoDeletion]
  /\ orphaned = {}
  /\ cleaning = {}

\* Documents marked deleted, or not inserted yet, are not found.
getByExternalId == {p \in Providers : provider[p] = "live"}
getByProviderId(p) == {d \in Sources : source[d] = [state |-> "live", provider |-> p]}

-----------------------------------------------------------------------------
(* Providers                                                               *)

\* Of the third type, of which there are no syncs, no id is ever computed.
ProviderType == {"excel", "google"}

\* The ids that a config names, in kinds: a part that is absent is no id.
getOrGenerateProviderExternalId(type, config) ==
  CASE type = "google" -> <<config.spreadsheetId>>
    [] type = "excel" /\ config.driveId = "absent" -> <<config.workbookId>>
    [] type = "excel" /\ config.driveId # "absent" -> <<config.driveId, config.workbookId>>

\* The data source's own computation. It is text, with "undefined" for what is
\* absent; a sheet has no part in it.
Text(kind) == IF kind = "absent" THEN "undefined" ELSE kind
getOrGenerateDataSourceExternalId(type, config) ==
  CASE type = "google" -> <<Text(config.spreadsheetId)>>
    [] type = "excel" /\ config.driveId = "absent" -> <<Text(config.workbookId)>>
    [] type = "excel" /\ config.driveId # "absent" -> <<Text(config.driveId), Text(config.workbookId)>>

\* The ids of this module's spreadsheet. A workbook has both of the last two: as
\* data providers they are two spreadsheets.
ExternalIds == {<<"right">>, <<"right", "right">>}
ProviderIds ==
  {getOrGenerateProviderExternalId(t, c) : t \in ProviderType, c \in DataProviderRequests}
SourceIds ==
  {getOrGenerateDataSourceExternalId(t, c) : t \in ProviderType, c \in DataSourceRequests}

NextProvider(p) == \A q \in Providers : provider[q] = "none" <=> q >= p

\* The insertion is not waited for.
createDataProvider(p) ==
  /\ getByExternalId = {}
  /\ NextProvider(p)
  /\ provider' = [provider EXCEPT ![p] = "unsaved"]

\* POST /dataproviders, where there is none.
RequestProvider(p) ==
  /\ ProviderIds \cap ExternalIds # {}
  /\ createDataProvider(p)
  /\ UNCHANGED <<source, creation, deletion, orphaned, cleaning>>
Save(p) ==
  /\ provider[p] = "unsaved"
  /\ provider' = [provider EXCEPT ![p] = "live"]
  /\ UNCHANGED <<source, creation, deletion, orphaned, cleaning>>

-----------------------------------------------------------------------------
(* POST /datasources                                                       *)

Goes(d, step, p) == creation' = [creation EXCEPT ![d] = [step |-> step, provider |-> p]]

RequestSource(d) ==
  /\ SourceIds \cap ExternalIds # {}
  /\ source[d] = NoSource /\ creation[d] = NoCreation
  /\ Goes(d, "look", NoProvider)
  /\ UNCHANGED <<provider, source, deletion, orphaned, cleaning>>

FindProvider(d) ==
  /\ creation[d].step = "look"
  /\ \E p \in Providers :
       /\ \/ p \in getByExternalId /\ UNCHANGED provider
          \/ createDataProvider(p)
       /\ Goes(d, "check", p)
  /\ UNCHANGED <<source, deletion, orphaned, cleaning>>

\* What a check meets: the kind of provider, the user's token, whether the file
\* can be read and the sheet is listed in it, the columns of its first row that
\* have a title, and those the title of which is the id column's.
Columns == {1, 26, 27}
Sheet ==
  {s \in [type : ProviderType, token : {"granted", "unscoped", "revoked"},
          file : BOOLEAN, listed : BOOLEAN, titles : SUBSET Columns, ids : SUBSET Columns] :
     s.ids \subseteq s.titles}

\* The requests of a check, each of which may be refused.
getAccessToken(s) == s.token # "revoked"
createWorkbookSession(s) == s.file
getWorkbookFileInfo(s) == s.file
listWorksheets(s) == s.file /\ s.listed
getWorksheetUsedRangeRow(s) == s.titles
validateToken(s) == s.token = "granted"
getUserInfo(s) == s.token # "revoked"
getSpreadSheets(s) == s.token # "revoked" /\ s.file /\ s.listed
getRangeValue(s) == s.titles \cap 1 .. 26   \* the range asked for is A1:Z1

checkEmpty(s, header) == header # {} /\ Cardinality(header \cap s.ids) <= 1
ExcelCheckDataSource(s) ==
  /\ getAccessToken(s) /\ createWorkbookSession(s) /\ getWorkbookFileInfo(s)
  /\ listWorksheets(s)
  /\ checkEmpty(s, getWorksheetUsedRangeRow(s))
GoogleCheckDataSource(s) ==
  /\ getUserInfo(s) /\ validateToken(s) /\ getSpreadSheets(s)
  /\ checkEmpty(s, getRangeValue(s))
checkDataSource(s) == IF s.type = "excel" THEN ExcelCheckDataSource(s) ELSE GoogleCheckDataSource(s)
Verdicts == {checkDataSource(s) : s \in Sheet}

\* A creation that is refused leaves the provider where it is.
CheckSource(d) ==
  /\ creation[d].step = "check"
  /\ \E passed \in Verdicts :
       creation' = [creation EXCEPT ![d] =
                      IF passed THEN [@ EXCEPT !.step = "insert"] ELSE NoCreation]
  /\ UNCHANGED <<provider, source, deletion, orphaned, cleaning>>

\* As a bug would: the data source itself is taken for one of the others.
IsLastButOne(others) == Cardinality(others) <= 1
\* Whether the provider goes with its data source.
IsLast(others) == others = {}

\* A deletion has found no data source of this provider, and is on its way.
Emptied(p) ==
  \/ provider[p] = "deleted"
  \/ \E d \in Sources : /\ deletion[d].step = "commit" /\ IsLast(deletion[d].others)
                        /\ source[d].provider = p

createDataSource(d, p) == source' = [source EXCEPT ![d] = [state |-> "live", provider |-> p]]
InsertSource(d) ==
  LET p == creation[d].provider IN
  /\ creation[d].step = "insert"
  /\ createDataSource(d, p)
  /\ orphaned' = IF Emptied(p) THEN orphaned \cup {d} ELSE orphaned
  /\ creation' = [creation EXCEPT ![d] = NoCreation]
  /\ UNCHANGED <<provider, deletion, cleaning>>

-----------------------------------------------------------------------------
(* DELETE /datasources/:id                                                 *)

RequestDeletion(d) ==
  /\ ByIdRequests # {}
  /\ source[d].state = "live" /\ deletion[d] = NoDeletion
  /\ deletion' = [deletion EXCEPT ![d].step = "begin"]
  /\ UNCHANGED <<provider, source, creation, orphaned, cleaning>>

\* The transaction reads the provider's other data sources. It fails, and is
\* begun again and again, when the provider that it would delete is not there.
BeginDeletion(d) ==
  LET p == source[d].provider
      others == getByProviderId(p) \ {d} IN
  /\ deletion[d].step = "begin"
  /\ IsLast(others) => provider[p] = "live"
  /\ deletion' = [deletion EXCEPT ![d] = [step |-> "commit", others |-> others]]
  /\ UNCHANGED <<provider, source, creation, orphaned, cleaning>>

\* The provider takes those data sources with it that the snapshot holds.
deleteDataProvider(d) == deletion[d].others
deleteDataSource(d) == {d} \cup (IF IsLast(deletion[d].others) THEN deleteDataProvider(d) ELSE {})

\* When its answer is lost the activity is tried again, finds nothing to delete,
\* and no event comes.
CommitDeletion(d) ==
  /\ deletion[d].step = "commit"
  /\ source' = [e \in Sources |->
                  IF e \in deleteDataSource(d) THEN [source[e] EXCEPT !.state = "deleted"]
                  ELSE source[e]]
  /\ deletion' = [deletion EXCEPT ![d] = [step |-> "done", others |-> {}]]
  /\ IF IsLast(deletion[d].others)
     THEN /\ provider' = [provider EXCEPT ![source[d].provider] = "deleted"]
          /\ cleaning' \in {cleaning, cleaning \cup {source[d].provider}}
     ELSE UNCHANGED <<provider, cleaning>>
  /\ UNCHANGED <<creation, orphaned>>

-----------------------------------------------------------------------------
CatalogRequest ==
  \/ \E p \in Providers : RequestProvider(p)
  \/ \E d \in Sources : RequestSource(d) \/ RequestDeletion(d)
CatalogStep ==
  \/ \E p \in Providers : Save(p)
  \/ \E d \in Sources : \/ FindProvider(d) \/ CheckSource(d) \/ InsertSource(d)
                        \/ BeginDeletion(d) \/ CommitDeletion(d)

\* A data source that nobody asked to delete is there: deleting others never
\* takes it away. While it is there so is its provider, without which it can
\* neither be synced nor deleted; only one that is inserted while the last of
\* the others is being deleted may find itself without.
Anchored ==
  \A d \in Sources :
    /\ source[d].state # "none" /\ deletion[d] = NoDeletion => source[d].state = "live"
    /\ source[d].state = "live" /\ d \notin orphaned => provider[source[d].provider] # "deleted"
=============================================================================
