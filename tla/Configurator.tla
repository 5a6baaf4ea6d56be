---------------------------- MODULE Configurator ----------------------------
(***************************************************************************)
(* The configurator, for one data source: connections created and deleted  *)
(* by requests, each carried out as a workflow of its own in Temporal, and *)
(* the events that announce it.                                            *)
(*                                                                         *)
(* createSyncConnectionWf and deleteDataSourceWf both have the data        *)
(* source's id as their workflow id, so that at most one of them is open;  *)
(* a request that meets an open one starts nothing. deleteSyncConnectionWf *)
(* has the connection's id, and may run beside both.                       *)
(*                                                                         *)
(* A connection, its syncflow and its trigger are created, and marked      *)
(* deleted, in one transaction: conn stands for the three documents.       *)
(***************************************************************************)
EXTENDS Orchestrator, Api

CONSTANTS
  MaxConnections,  \* bound: connections ever created
  LostAnswers      \* an activity may commit and its answer be lost

ASSUME ConfiguratorAssumption ==
  /\ MaxConnections \in Nat \ {0}
  /\ LostAnswers \in BOOLEAN

VARIABLES
  source,    \* the data source's document
  conn,      \* per connection: its document, with its syncflow and trigger
  wf,        \* the workflow whose id is the data source's
  drop,      \* connections whose deleteSyncConnectionWf is open
  created,   \* per connection: its CONNECTION_CREATED
  removed    \* per connection: its CONNECTION_DELETED

configVars == <<source, conn, wf, drop, created, removed>>

\* Connections in the order of their creation.
Connections == 1 .. MaxConnections
NoConnection == 0

\* A connection that is deleted keeps its documents, marked so.
SyncConnection == {"none", "active", "deleted"}
Event == {"none", "pending", "handled"}

ConfigTypeOK ==
  /\ source \in {"present", "deleted"}
  /\ conn \in [Connections -> SyncConnection]
  /\ wf \in [step : {"closed", "look", "insert", "announceCreated",
                     "delete", "terminate", "announceDeleted"},
             conn : 0 .. MaxConnections]
  /\ drop \subseteq Connections
  /\ created \in [Connections -> Event]
  /\ removed \in [Connections -> Event]

Closed == [step |-> "closed", conn |-> NoConnection]
At(step, c) == wf' = [step |-> step, conn |-> c]

\* An activity that no worker carries out keeps its workflow where it is.
Activity(name) == name \in ConfiguratorActivities

Active == {c \in Connections : conn[c] = "active"}

ConfigInit ==
  /\ source = "present"
  /\ conn = [c \in Connections |-> "none"]
  /\ wf = Closed
  /\ drop = {}
  /\ created = [c \in Connections |-> "none"]
  /\ removed = [c \in Connections |-> "none"]

-----------------------------------------------------------------------------
(* createSyncConnectionWf                                                  *)

\* POST /connections.
RequestCreate ==
  /\ SyncConnectionRequests # {}
  /\ wf = Closed
  /\ At("look", NoConnection)
  /\ UNCHANGED <<source, conn, drop, created, removed>>

\* A faulty activity: it does not look for an existing connection.
LookNoFurther ==
  /\ wf.step = "look"
  /\ source = "present"
  /\ At("insert", NoConnection)
  /\ UNCHANGED <<source, conn, drop, created, removed>>

\* The activity finds a connection, and the workflow ends without an event;
\* or it finds none and the data source. Without the data source it throws, and
\* Temporal repeats it for ever: the workflow stays where it is.
Look ==
  /\ Activity("createSyncConnection")
  /\ wf.step = "look"
  /\ \/ Active # {} /\ wf' = Closed
     \/ Active = {} /\ source = "present" /\ At("insert", NoConnection)
  /\ UNCHANGED <<source, conn, drop, created, removed>>

\* The transaction: syncflow, trigger and connection. When its answer is lost
\* the activity is run again from the start.
Insert ==
  /\ Activity("createSyncConnection")
  /\ wf.step = "insert"
  /\ \E c \in Connections :
       /\ conn[c] = "none"
       /\ \A d \in 1 .. c - 1 : conn[d] # "none"
       /\ conn' = [conn EXCEPT ![c] = "active"]
       /\ \/ At("announceCreated", c)
          \/ LostAnswers /\ At("look", NoConnection)
  /\ UNCHANGED <<source, drop, created, removed>>

AnnounceCreated ==
  /\ Activity("emitEvent")
  /\ wf.step = "announceCreated"
  /\ created' = [created EXCEPT ![wf.conn] = "pending"]
  /\ wf' = Closed
  /\ UNCHANGED <<source, conn, drop, removed>>

-----------------------------------------------------------------------------
(* deleteDataSourceWf                                                      *)

\* DELETE /datasources/:id. The workflow is started for a source deleted before,
\* too.
RequestDelete ==
  /\ ByIdRequests # {}
  /\ wf = Closed
  /\ At("delete", NoConnection)
  /\ UNCHANGED <<source, conn, drop, created, removed>>

\* A faulty workflow: ends when no connection is deleted with the source.
DeleteSourceOnly ==
  /\ wf.step = "delete"
  /\ source' = "deleted"
  /\ conn' = [c \in Connections |-> IF c \in Active THEN "deleted" ELSE conn[c]]
  /\ \/ \E c \in Active : At("terminate", c)
     \/ Active = {} /\ wf' = Closed
     \/ LostAnswers /\ UNCHANGED wf
  /\ UNCHANGED <<drop, created, removed>>

\* The transaction: data source, connection, syncflow and trigger. An activity
\* that is run again finds the source deleted and returns no connection.
DeleteSource ==
  /\ Activity("deleteDataSource")
  /\ wf.step = "delete"
  /\ source' = "deleted"
  /\ IF source = "present"
     THEN /\ conn' = [c \in Connections |-> IF c \in Active THEN "deleted" ELSE conn[c]]
          /\ \/ \E c \in Active : At("terminate", c)
             \/ Active = {} /\ At("terminate", NoConnection)
             \/ LostAnswers /\ UNCHANGED wf
     ELSE UNCHANGED conn /\ At("terminate", NoConnection)
  /\ UNCHANGED <<drop, created, removed>>

\* terminateDataSourceWorkflows, as far as this module's state goes: what else
\* it terminates is added where the syncs are.
TerminateWorkflows ==
  /\ Activity("terminateDataSourceWorkflows")
  /\ wf.step = "terminate"
  /\ IF wf.conn = NoConnection THEN wf' = Closed ELSE At("announceDeleted", wf.conn)
  /\ UNCHANGED <<source, conn, drop, created, removed>>

\* CONNECTION_DELETED, if a connection was deleted with the source.
AnnounceDeleted ==
  /\ Activity("emitEvent")
  /\ wf.step = "announceDeleted"
  /\ removed' = [removed EXCEPT ![wf.conn] = "pending"]
  /\ wf' = Closed
  /\ UNCHANGED <<source, conn, drop, created>>

-----------------------------------------------------------------------------
(* deleteSyncConnectionWf                                                  *)

\* DELETE /connections/:id. The workflow of a connection deleted before changes
\* nothing (it publishes an event without a payload).
RequestDrop(c) ==
  /\ ByIdRequests # {}
  /\ Activity("deleteSyncConnection")
  /\ conn[c] = "active"
  /\ drop' = drop \cup {c}
  /\ UNCHANGED <<source, conn, wf, created, removed>>

\* The connection with this id, if it is there and not deleted.
getConnectionById(c) == {c} \cap Active
\* One that the deletion of its data source took first is not found. The
\* connection, its syncflow and its trigger change in one transaction: each is
\* read with the session, and a document is updated with the one it was read with.
deleteConnection(c) ==
  conn' = IF getConnectionById(c) = {} THEN conn ELSE [conn EXCEPT ![c] = "deleted"]

\* The connection is deleted and the workflow ends. CONNECTION_DELETED is not
\* published for a connection that was not deleted yet: the workflow tests
\* !result.isAlreadyDeleted === false.
Drop(c) ==
  /\ c \in drop
  /\ deleteConnection(c)
  /\ drop' = drop \ {c}
  /\ UNCHANGED <<source, wf, created, removed>>

-----------------------------------------------------------------------------
\* What Temporal drives on.
ConfiguratorStep ==
  \/ Look
  \/ Insert
  \/ AnnounceCreated
  \/ DeleteSource
  \/ AnnounceDeleted

\* What users ask for.
Request ==
  \/ RequestCreate
  \/ RequestDelete
  \/ \E c \in Connections : RequestDrop(c)
=============================================================================
