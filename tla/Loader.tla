------------------------------- MODULE Loader -------------------------------
(***************************************************************************)
(* The loader's view of one data source in the destination database: which *)
(* version of the data the table holds, and the marks of the idempotency   *)
(* table that tell a repeated load from a new one.                         *)
(*                                                                         *)
(* A load is one PostgreSQL transaction, and loads of one version exclude  *)
(* each other by an advisory lock: it is one step. The worker's activity   *)
(* that asked for it may have given up on it before (its five minutes are  *)
(* over, the connection is cut): the attempt is then abandoned, and may    *)
(* still commit.                                                           *)
(***************************************************************************)
EXTENDS Naturals

VARIABLES
  table,        \* the version whose difference was applied last, 0: none
  marks,        \* the versions marked COMPLETED in the idempotency table
  abandoned     \* the load attempts nobody waits for any more

loaderVars == <<table, marks, abandoned>>

LoaderInit ==
  /\ table = 0
  /\ marks = {}
  /\ abandoned = {}

\* A faulty load: the previous mark stays.
ApplyKeepingMarks(m) ==
  IF m.version \in marks
  THEN UNCHANGED <<table, marks>>
  ELSE table' = m.version /\ marks' = marks \cup {m.version}

\* A faulty load: the mark of its own version is the one removed.
ApplyUnmarking(m) ==
  IF m.version \in marks
  THEN UNCHANGED <<table, marks>>
  ELSE /\ table' = m.version
       /\ marks' = (marks \cup {m.version}) \ {m.version}

\* PostgreLoader.Load: nothing to do if the version is marked; otherwise the
\* difference from prevVersion is applied, the version marked and the mark of
\* prevVersion removed, all in one transaction.
Apply(m) ==
  IF m.version \in marks
  THEN UNCHANGED <<table, marks>>
  ELSE /\ table' = m.version
       /\ marks' = (marks \cup {m.version}) \ {m.prevVersion}

\* The activity stops waiting for its attempt, which goes on by itself.
Abandon(m) ==
  /\ abandoned' = abandoned \cup {m}
  /\ UNCHANGED <<table, marks>>

\* An abandoned attempt commits. Assumed of the processors (external): it does
\* so before a later version is loaded, or dies.
AbandonedEnds(m) ==
  /\ m \in abandoned
  /\ table <= m.version
  /\ Apply(m)
  /\ abandoned' = abandoned \ {m}
=============================================================================
