---------------------------- MODULE Transactions ----------------------------
(***************************************************************************)
(* Transactions of scripts (mus.db.transaction in lua_db_module.go over    *)
(* sql_query_builder.go), on SQLite, where one connection at a time may    *)
(* write.  A query belongs to the builder that was active when the script  *)
(* made it: a script may keep it in a variable across the callback's ends. *)
(* mus.db player, application and admin operations go to the pool like     *)
(* queries made outside.                                                   *)
(*                                                                         *)
(* Also the savepoints that stand for transactions inside a migration.     *)
(***************************************************************************)
EXTENDS Integers

CONSTANTS
  TScript, TRow,
  NoScript, NoQuery,
  MaxSavepoints   \* bound: savepoints a migration opens

ASSUME TxAssumption ==
  /\ NoScript \notin TScript
  /\ NoQuery \notin [exec : {"pool", "tx"}, inside : BOOLEAN]
  /\ MaxSavepoints \in Nat

VARIABLES
  stored,      \* committed writes: <<script, made inside a callback, row>>
  dbWriter,    \* the script whose transaction has the write lock
  stAt,        \* stAt[s]: "root", "callback", "commit", "rollback" or "ended"
  active,      \* active[s]: the builder of mus.db.table, "pool" or "tx"
  query,       \* query[s]: the query in the script's variable
  txOpen,      \* txOpen[s]
  written,     \* written[s]: rows its callback wrote
  outcome,     \* outcome[s]: what the script was told
  savepoints,  \* the savepoints that exist in the migration, by number
  spDone,      \* the savepoint objects that are finalized
  spCount,     \* savepointSeq
  aborted,     \* the enclosing transaction is aborted
  crossed      \* a savepoint was finalized while one inside it was there

scriptTxVars == <<stored, dbWriter, stAt, active, query, txOpen, written, outcome>>
spVars == <<savepoints, spDone, spCount, aborted, crossed>>
txVars == <<scriptTxVars, spVars>>

TxInit ==
  /\ stored = {} /\ dbWriter = NoScript
  /\ stAt = [s \in TScript |-> "root"] /\ active = [s \in TScript |-> "pool"]
  /\ query = [s \in TScript |-> NoQuery] /\ txOpen = [s \in TScript |-> FALSE]
  /\ written = [s \in TScript |-> {}] /\ outcome = [s \in TScript |-> "none"]
  /\ savepoints = {} /\ spDone = {} /\ spCount = 0 /\ aborted = FALSE /\ crossed = FALSE

Scripting(s) == stAt[s] \in {"root", "callback"}
TxGoto(s, from, to) == stAt[s] = from /\ stAt' = [stAt EXCEPT ![s] = to]

MutTableOnPool(s) ==
  /\ Scripting(s)
  /\ query' = [query EXCEPT ![s] = [exec |-> "pool", inside |-> stAt[s] = "callback"]]
  /\ UNCHANGED <<stored, dbWriter, stAt, active, txOpen, written, outcome, spVars>>

\* mus.db.table
Table(s) ==
  /\ Scripting(s)
  /\ query' = [query EXCEPT ![s] = [exec |-> active[s], inside |-> stAt[s] = "callback"]]
  /\ UNCHANGED <<stored, dbWriter, stAt, active, txOpen, written, outcome, spVars>>

\* insert, update, increment or delete.  If the write lock is taken, or the
\* transaction is over, the script gets an error and nothing is written.
Write(s, r) ==
  /\ Scripting(s) /\ query[s] # NoQuery
  /\ \/ /\ query[s].exec = "pool" /\ dbWriter = NoScript
        /\ stored' = stored \cup {<<s, query[s].inside, r>>}
        /\ written' = IF query[s].inside THEN [written EXCEPT ![s] = @ \cup {r}] ELSE written
        /\ UNCHANGED dbWriter
     \/ /\ query[s].exec = "tx" /\ txOpen[s] /\ dbWriter \in {NoScript, s}
        /\ dbWriter' = s
        /\ written' = [written EXCEPT ![s] = @ \cup {r}]
        /\ UNCHANGED stored
  /\ UNCHANGED <<stAt, active, query, txOpen, outcome, spVars>>

\* mus.db.transaction; inside a callback it is an error.
TxBegin(s) ==
  /\ TxGoto(s, "root", "callback") /\ outcome[s] = "none"
  /\ txOpen' = [txOpen EXCEPT ![s] = TRUE] /\ active' = [active EXCEPT ![s] = "tx"]
  /\ UNCHANGED <<stored, dbWriter, query, written, outcome, spVars>>

\* The callback returns, raises an error or is stopped by the deadline; the
\* builder is restored before anything else.
CallbackEnds(s) ==
  /\ stAt[s] = "callback"
  /\ stAt' \in {[stAt EXCEPT ![s] = "commit"], [stAt EXCEPT ![s] = "rollback"]}
  /\ active' = [active EXCEPT ![s] = "pool"]
  /\ UNCHANGED <<stored, dbWriter, query, txOpen, written, outcome, spVars>>

Close(s, told) ==
  /\ txOpen' = [txOpen EXCEPT ![s] = FALSE]
  /\ dbWriter' = IF dbWriter = s THEN NoScript ELSE dbWriter
  /\ outcome' = [outcome EXCEPT ![s] = told]

\* A commit that fails is rolled back.
TxCommit(s) ==
  /\ TxGoto(s, "commit", "root")
  /\ \/ Close(s, "done") /\ stored' = stored \cup {<<s, TRUE, r>> : r \in written[s]}
     \/ Close(s, "undone") /\ UNCHANGED stored
  /\ UNCHANGED <<active, query, written, spVars>>

TxRollback(s) ==
  /\ TxGoto(s, "rollback", "root") /\ Close(s, "undone")
  /\ UNCHANGED <<stored, active, query, written, spVars>>

ScriptEnds(s) ==
  /\ TxGoto(s, "root", "ended")
  /\ UNCHANGED <<stored, dbWriter, active, query, txOpen, written, outcome, spVars>>

\* The process dies: its connections close and the database undoes.
TxCrash ==
  /\ \E s \in TScript : stAt[s] # "ended"
  /\ stAt' = [s \in TScript |-> "ended"] /\ txOpen' = [s \in TScript |-> FALSE]
  /\ dbWriter' = NoScript
  /\ UNCHANGED <<stored, active, query, written, outcome, spVars>>

-----------------------------------------------------------------------------
(* Begin on the builder of a migration.                                    *)

BeginSavepoint ==
  /\ spCount < MaxSavepoints /\ ~aborted
  /\ spCount' = spCount + 1 /\ savepoints' = savepoints \cup {spCount + 1}
  /\ UNCHANGED <<scriptTxVars, spDone, aborted, crossed>>

\* RELEASE, or ROLLBACK TO and then RELEASE, which end the later savepoints too.
\* For a savepoint that is not there it is an error, which aborts the enclosing
\* transaction on Postgres; in an aborted one only ROLLBACK TO is no error, and
\* the transaction is well again.
Statement(n, how) ==
  IF n \in savepoints /\ (aborted => how = "rollback")
  THEN savepoints' = {m \in savepoints : m < n} /\ aborted' = FALSE
  ELSE aborted' = TRUE /\ UNCHANGED savepoints

\* Commit or Rollback, in any order, and again by a deferred call on a savepoint
\* that is finalized: that one sends nothing.
Finalize(n, how) ==
  /\ n \in 1 .. spCount
  /\ IF n \in spDone THEN UNCHANGED <<savepoints, spDone, aborted, crossed>>
     ELSE /\ spDone' = spDone \cup {n} /\ Statement(n, how)
          /\ crossed' = (crossed \/ \E m \in savepoints : m > n)
  /\ UNCHANGED <<scriptTxVars, spCount>>

TxNext ==
  \/ \E s \in TScript :
       \/ Table(s) \/ TxBegin(s) \/ CallbackEnds(s) \/ TxCommit(s) \/ TxRollback(s) \/ ScriptEnds(s)
       \/ \E r \in TRow : Write(s, r)
  \/ TxCrash

SavepointNext ==
  BeginSavepoint \/ \E n \in 1 .. MaxSavepoints, how \in {"commit", "rollback"} : Finalize(n, how)

TxSpec == TxInit /\ [][TxNext \/ SavepointNext]_txVars

-----------------------------------------------------------------------------
\* "Commits when fn returns (anything but false); rolls back if fn returns
\* false or raises an error": what queries made in a callback wrote is in the
\* database all or not at all, with other scripts, failed commits and crashes.
AllOrNothing ==
  \A s \in TScript : \A r \in written[s] : <<s, TRUE, r>> \in stored <=> outcome[s] = "done"

\* However the callback ended, the script goes on outside: no transaction of
\* its own is left open, keeping the write lock, and new queries use the pool.
OutsideIsOutside ==
  \A s \in TScript : stAt[s] \in {"root", "ended"} =>
    ~txOpen[s] /\ dbWriter # s /\ (stAt[s] = "root" => active[s] = "pool")

\* "A failing statement (e.g. releasing a gone savepoint from a deferred
\* Rollback) would abort the enclosing tx": as long as savepoints are finalized
\* from the inside out, no Commit or Rollback does, however often they are
\* called.  Nothing in the code keeps a caller to that order.
MigrationNotAborted == aborted => crossed
=============================================================================
