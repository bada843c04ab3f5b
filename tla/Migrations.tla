----------------------------- MODULE Migrations -----------------------------
(***************************************************************************)
(* Pending migrations at the start of servers that share a database        *)
(* (internal/domain/services/migration_runner.go over sqlDB's              *)
(* BeginMigration and MigrationTracker, sql_migration.go).  A server may   *)
(* fail or be killed at any step and is started again; the database undoes *)
(* what it had not committed.                                              *)
(*                                                                         *)
(* Migrations are numbered in the order of their names.  Up makes          *)
(* MigrationCalls calls on the adapter, each atomic: one statement, or the *)
(* statements of ExecuteMigrationSQL under a savepoint.                    *)
(***************************************************************************)
EXTENDS Integers, FiniteSets

CONSTANTS
  Server,
  Last,             \* migrations are 1 .. Last
  MigrationCalls,
  Rerunnable,       \* migrations whose statements succeed when done already
  NoServer,
  MaxFailures       \* bound: failures and kills, of all servers

ASSUME MgAssumption ==
  /\ Last \in Nat /\ MigrationCalls \in Nat
  /\ NoServer \notin Server

VARIABLES
  atomic,      \* the adapter is a MigrationTransactor and the tracker
  schema,      \* schema[m]: calls of m's Up that are committed
  tracker,     \* the rows of the migrations table
  writer,      \* the server whose transaction has written
  mgAt,        \* mgAt[s]: where RunPending is
  appliedSet,  \* appliedSet[s]: what the server read from the tracker
  current,     \* current[s]: the migration it is at
  upDone,      \* upDone[s]: calls of its Up made
  rowDone,     \* rowDone[s]: the row is inserted in its transaction
  failures

mgVars == <<atomic, schema, tracker, writer, mgAt, appliedSet, current, upDone, rowDone, failures>>

Migration == 1 .. Last
Completed(S) == [m \in Migration |-> IF m \in S THEN MigrationCalls ELSE 0]

\* A database where any of the migrations have been applied: branches of the
\* code come and go.
MgInit ==
  /\ atomic \in BOOLEAN
  /\ tracker \in SUBSET Migration /\ schema = Completed(tracker)
  /\ writer = NoServer /\ failures = 0
  /\ mgAt = [s \in Server |-> "down"]
  /\ appliedSet = [s \in Server |-> {}] /\ current = [s \in Server |-> 1]
  /\ upDone = [s \in Server |-> 0] /\ rowDone = [s \in Server |-> FALSE]

At(s, from, to) == mgAt[s] = from /\ mgAt' = [mgAt EXCEPT ![s] = to]

\* The connection is closed or the process is gone: what is not committed is
\* undone.
RollBack(s) ==
  /\ writer' = IF writer = s THEN NoServer ELSE writer
  /\ upDone' = [upDone EXCEPT ![s] = 0] /\ rowDone' = [rowDone EXCEPT ![s] = FALSE]

GetAppliedMigrations(s) ==
  /\ At(s, "down", "loop")
  /\ appliedSet' = [appliedSet EXCEPT ![s] = tracker]
  /\ current' = [current EXCEPT ![s] = 1]
  /\ UNCHANGED <<atomic, schema, tracker, writer, upDone, rowDone, failures>>

\* The loop over the sorted migrations.
NextPending(s) ==
  /\ mgAt[s] = "loop"
  /\ LET pending == {m \in current[s] .. Last : m \notin appliedSet[s]} IN
     IF pending = {} THEN mgAt' = [mgAt EXCEPT ![s] = "ready"] /\ UNCHANGED current
     ELSE /\ current' = [current EXCEPT ![s] = CHOOSE m \in pending : \A n \in pending : m <= n]
          /\ mgAt' = [mgAt EXCEPT ![s] = "up"]
  /\ UNCHANGED <<atomic, schema, tracker, writer, appliedSet, upDone, rowDone, failures>>

\* SQLite makes a transaction that writes wait for any other that has.  PostgreSQL
\* does so only where both write the same table or row, as two servers at the same
\* migration do; at different ones they may also alternate there.
MayWrite(s) ==
  /\ atomic => writer \in {NoServer, s}
  /\ writer' = IF atomic THEN s ELSE writer

\* A call of Up fails: the transaction is rolled back and the server exits.
UpFails(s) ==
  /\ At(s, "up", "down") /\ RollBack(s)
  /\ upDone[s] < schema[current[s]] /\ current[s] \notin Rerunnable
  /\ UNCHANGED <<atomic, schema, tracker, appliedSet, current, failures>>

UpCall(s) ==
  /\ mgAt[s] = "up" /\ UNCHANGED mgAt
  /\ upDone[s] < MigrationCalls
  /\ MayWrite(s)
  /\ upDone[s] < schema[current[s]] => current[s] \in Rerunnable
  /\ upDone' = [upDone EXCEPT ![s] = @ + 1]
  /\ schema' = IF ~atomic /\ schema[current[s]] < upDone'[s]
               THEN [schema EXCEPT ![current[s]] = upDone'[s]] ELSE schema
  /\ UNCHANGED <<atomic, tracker, appliedSet, current, rowDone, failures>>

MutMarkThroughPool(s) ==
  /\ At(s, "up", "commit") /\ upDone[s] = MigrationCalls
  /\ current[s] \notin tracker
  /\ tracker' = tracker \cup {current[s]}
  /\ rowDone' = [rowDone EXCEPT ![s] = TRUE]
  /\ UNCHANGED <<atomic, schema, writer, appliedSet, current, upDone, failures>>

\* The insertion of the row.  Names are unique: a migration that another
\* server has applied meanwhile fails here at the latest.
MarkMigrationApplied(s) ==
  /\ mgAt[s] = "up" /\ upDone[s] = MigrationCalls
  /\ IF current[s] \in tracker
     THEN /\ mgAt' = [mgAt EXCEPT ![s] = "down"] /\ RollBack(s)
          /\ UNCHANGED <<tracker, current>>
     ELSE IF atomic
     THEN /\ mgAt' = [mgAt EXCEPT ![s] = "commit"]
          /\ rowDone' = [rowDone EXCEPT ![s] = TRUE]
          /\ UNCHANGED <<tracker, writer, current, upDone>>
     ELSE /\ mgAt' = [mgAt EXCEPT ![s] = "loop"] /\ RollBack(s)
          /\ tracker' = tracker \cup {current[s]}
          /\ current' = [current EXCEPT ![s] = @ + 1]
  /\ UNCHANGED <<atomic, schema, appliedSet, failures>>

CommitMigration(s) ==
  /\ At(s, "commit", "loop")
  /\ schema' = [schema EXCEPT ![current[s]] = upDone[s]]
  /\ tracker' = IF rowDone[s] THEN tracker \cup {current[s]} ELSE tracker
  /\ current' = [current EXCEPT ![s] = @ + 1]
  /\ RollBack(s)
  /\ UNCHANGED <<atomic, appliedSet, failures>>

\* A statement or a commit fails, or the process is killed.  A commit that
\* only seemed to fail is CommitMigration followed by this.
ServerFails(s) ==
  /\ mgAt[s] # "down" /\ failures < MaxFailures
  /\ failures' = failures + 1
  /\ mgAt' = [mgAt EXCEPT ![s] = "down"] /\ RollBack(s)
  /\ UNCHANGED <<atomic, schema, tracker, appliedSet, current>>

MgStep(s) ==
  \/ GetAppliedMigrations(s) \/ NextPending(s) \/ UpCall(s) \/ UpFails(s)
  \/ MarkMigrationApplied(s) \/ CommitMigration(s)

MgNext == \E s \in Server : MgStep(s) \/ ServerFails(s)

MgSpec == MgInit /\ [][MgNext]_mgVars

-----------------------------------------------------------------------------
\* "A failing Up (or a crash before the tracker insert) leaves neither partial
\* DDL nor a tracker row": where Up and the row share a transaction, the
\* committed schema is that of the migrations in the tracker, whatever fails.
SchemaMatchesTracker == atomic => schema = Completed(tracker)

\* On either path a row is there only when the whole of Up is.
TrackedIsComplete == \A m \in tracker : schema[m] = MigrationCalls

\* The runner goes by the order of names, servers that start together
\* included: a migration runs on the schema of all before it.
EarlierFirst ==
  \A s \in Server : mgAt[s] \in {"up", "commit"} => 1 .. (current[s] - 1) \subseteq tracker
=============================================================================
