--------------------------- MODULE DatabaseProofs ---------------------------
(***************************************************************************)
(* Permissions, transactions of scripts, database commands and migrations, *)
(* for any users, scripts, names, connections, rows, servers and failures. *)
(* AllOrNothing is not inductive: it needs that a script with an open      *)
(* transaction has not been told an outcome, that only a finished commit   *)
(* has stored rows of a callback, and that a query made in a callback      *)
(* never uses the pool. Ids are never used again: a row's id tells which   *)
(* creation it stems from, so a command that kept an id meets the row it   *)
(* looked up or none. A server that migrates has read no more than the     *)
(* tracker holds, everything before the migration it is at is in the       *)
(* tracker, and without a transaction the schema has at least the calls of *)
(* Up it has made.                                                         *)
(***************************************************************************)
EXTENDS Permissions, Transactions, DBCommands, Migrations, TLAPS

-----------------------------------------------------------------------------
(* Permissions.                                                            *)

(* For any connections, users and environment.  ActsWithOwnLevel is not    *)
(* inductive: that the level in the store is the handler's own rests on    *)
(* who may write it.  A slot of the pool is one connection's, a Logon      *)
(* stamps only the user whose slot it has taken, and it has none of the    *)
(* commands in hand then.                                                  *)

Listed == DOMAIN DefaultCommandLevels

PeType ==
  /\ bound \in [PConn -> PUser \cup {Absent}]
  /\ granted \in [PConn -> Level]
  /\ levels \in [PUser -> Level \cup {Absent}]
  /\ logon \in [PConn -> [user : PUser \cup {Absent}, level : Level, from : PUser \cup {Absent}]]
  /\ handler \in [PConn -> Command \cup {"reading", "remap", "unregister", "register", "stamp", "flush", "gone"}]

\* The level kept for the user of a connection is that of its own Logon, or none.
OwnLevel(c) == bound[c] # Absent => levels[bound[c]] \in {Absent, granted[c]}

\* What holds of each connection.
ConnInv(c) ==
  /\ \A d \in PConn : bound[c] = bound[d] /\ bound[c] # Absent => c = d
  /\ handler[c] \in {"remap", "unregister", "register", "stamp"} => logon[c].user \in PUser
  /\ IF handler[c] \in {"unregister", "register", "stamp"}
     THEN bound[c] = logon[c].user
     ELSE OwnLevel(c)
  /\ handler[c] \in Command =>
       handler[c] \in Listed /\ Clears(c, LoadCommandLevels[handler[c]])

PeInv == PeType /\ \A c \in PConn : ConnInv(c)

\* The table has an entry for exactly the commands of defaultCommandLevels,
\* whatever the environment holds.
LEMMA TableIsListed ==
  DOMAIN LoadCommandLevels = Listed /\ Listed = {"DBPlayer.setAttribute", "DBAdmin.createUser"}
BY Zenon DEF LoadCommandLevels, Listed, DefaultCommandLevels

\* So the level an administrator needs is that of DBAdmin.createUser, never the
\* fallback of adminLevel.
LEMMA AdminLevelIsListed == AdminLevel = LoadCommandLevels["DBAdmin.createUser"]
BY TableIsListed, Zenon DEF AdminLevel

\* What the Authorizer reads for a connection that is in no Logon is 0 or the
\* connection's own level.
LEMMA ReadsOwnLevel ==
  ASSUME PeType, NEW c \in PConn, OwnLevel(c), NEW level, UserLevel(bound[c]) >= level
  PROVE Clears(c, level)
BY PeAssumption, Zenon DEF PeType, OwnLevel, UserLevel, Clears

\* At first nobody is logged on.
LEMMA PeInvInit == PeInit => PeInv
<1> SUFFICES ASSUME PeInit PROVE PeInv
  BY Zenon
<1>1. 0 \in Level
  BY DEF Level
<1>2. PeType
  BY <1>1 DEF PeInit, PeType, NoLogon
<1>3. ASSUME NEW c \in PConn PROVE ConnInv(c)
  <2>1. bound[c] = Absent /\ handler[c] = "reading"
    BY Zenon DEF PeInit
  <2> QED
    BY <2>1 DEF ConnInv, OwnLevel, Command
<1> QED
  BY <1>2, <1>3, Zenon DEF PeInv

\* A step leaves alone what holds of a connection if it leaves its handler, slot,
\* Logon and level, gives its slot to nobody, and stamps nothing for its user.
LEMMA OtherConnsKept ==
  ASSUME PeInv, PeType', env' = env, NEW d \in PConn,
         handler'[d] = handler[d], bound'[d] = bound[d],
         logon'[d] = logon[d], granted'[d] = granted[d],
         \A c \in PConn : bound'[c] \in {bound[c], Absent} \/ bound'[c] # bound[d],
         \A u \in PUser : u = bound[d] => levels'[u] \in {Absent, levels[u]}
  PROVE ConnInv(d)'
<1>1. ConnInv(d) /\ bound[d] \in PUser \cup {Absent}
  BY Zenon DEF PeInv, PeType
<1>2. ASSUME NEW c \in PConn, bound'[c] = bound'[d], bound'[d] # Absent PROVE c = d
  BY <1>1, <1>2, Zenon DEF ConnInv
<1>3. OwnLevel(d) => OwnLevel(d)'
  BY <1>1, Zenon DEF OwnLevel
<1>4. Clears(d, LoadCommandLevels[handler[d]]) => Clears(d, LoadCommandLevels[handler[d]])'
  BY Zenon DEF Clears, LoadCommandLevels
<1> QED
  BY <1>1, <1>2, <1>3, <1>4, Zenon DEF ConnInv

\* The steps of a Logon.
LEMMA LogonStep ==
  ASSUME PeInv, NEW c \in PConn,
         \/ \E u \in PUser, l \in Level : LogonChecks(c, u, l)
         \/ LogonRemaps(c) \/ LogonUnregisters(c) \/ LogonRegisters(c) \/ StampUserLevel(c)
  PROVE PeInv'
<1> USE PeAssumption
<1>1. PeType /\ ConnInv(c)
  BY Zenon DEF PeInv
<1>2. ASSUME NEW u \in PUser, NEW l \in Level, LogonChecks(c, u, l) PROVE PeInv'
  <2>1. PeType'
    BY <1>1, <1>2 DEF LogonChecks, HandlerGoes, PeType
  <2>2. ASSUME NEW d \in PConn, d # c PROVE ConnInv(d)'
    <3>1. logon'[d] = logon[d] /\ handler'[d] = handler[d]
      BY <1>1, <1>2, <2>2, Zenon DEF LogonChecks, HandlerGoes, PeType
    <3> QED
      BY <1>2, <2>1, <3>1, OtherConnsKept, Zenon DEF LogonChecks
  <2>3. handler[c] = "reading" /\ handler'[c] = "remap" /\ logon'[c].user = u
    BY <1>1, <1>2 DEF LogonChecks, HandlerGoes, PeType
  <2>4. ConnInv(c)'
    BY <1>1, <1>2, <2>3 DEF LogonChecks, ConnInv, OwnLevel, Command
  <2> QED
    BY <2>1, <2>2, <2>4, Zenon DEF PeInv
<1>3. CASE LogonRemaps(c)
  <2>1. CASE \E d \in PConn \ {c} : bound[d] = logon[c].user
    <3>1. handler[c] = "remap" /\ handler' = [handler EXCEPT ![c] = "reading"]
          /\ logon' = [logon EXCEPT ![c] = NoLogon] /\ UNCHANGED <<env, bound, sessions, levels, granted>>
      BY <1>3, <2>1, Zenon DEF LogonRemaps, HandlerGoes, Forget
    <3>2. PeType'
      BY <1>1, <3>1 DEF PeType, NoLogon, Level
    <3>3. ASSUME NEW d \in PConn, d # c PROVE ConnInv(d)'
      <4>1. logon'[d] = logon[d] /\ handler'[d] = handler[d]
        BY <1>1, <3>1, <3>3, Zenon DEF PeType
      <4> QED
        BY <3>1, <3>2, <4>1, OtherConnsKept, Zenon
    <3>4. handler'[c] = "reading"
      BY <1>1, <3>1, Zenon DEF PeType
    <3>5. ConnInv(c)'
      BY <1>1, <3>1, <3>4 DEF ConnInv, OwnLevel, Command
    <3> QED
      BY <3>2, <3>3, <3>5, Zenon DEF PeInv
  <2>2. CASE ~\E d \in PConn \ {c} : bound[d] = logon[c].user
    <3>1. handler[c] = "remap" /\ handler' = [handler EXCEPT ![c] = "unregister"]
          /\ bound' = [bound EXCEPT ![c] = logon[c].user] /\ UNCHANGED <<env, logon, sessions, levels, granted>>
      BY <1>3, <2>2, Zenon DEF LogonRemaps, HandlerGoes
    <3>2. logon[c].user \in PUser
      BY <1>1, <3>1, Zenon DEF ConnInv
    <3>3. PeType'
      BY <1>1, <3>1, <3>2 DEF PeType
    <3>4. bound'[c] = logon[c].user /\ handler'[c] = "unregister"
          /\ \A d \in PConn \ {c} : bound'[d] = bound[d] /\ handler'[d] = handler[d]
      BY <1>1, <3>1, Zenon DEF PeType
    <3>5. ASSUME NEW d \in PConn, d # c PROVE ConnInv(d)'
      BY <2>2, <3>1, <3>3, <3>4, <3>5, OtherConnsKept, Zenon
    <3>6. ConnInv(c)'
      BY <2>2, <3>1, <3>2, <3>4 DEF ConnInv, Command
    <3> QED
      BY <3>3, <3>5, <3>6, Zenon DEF PeInv
  <2> QED
    BY <2>1, <2>2, Zenon
<1>4. CASE LogonUnregisters(c) \/ LogonRegisters(c)
  <2>1. PICK to \in {"register", "stamp"} :
          /\ handler[c] \in {"unregister", "register"} /\ handler' = [handler EXCEPT ![c] = to]
          /\ \A u \in PUser : levels'[u] \in {Absent, levels[u]}
          /\ UNCHANGED <<env, bound, logon, granted>>
    BY <1>4, Zenon DEF LogonUnregisters, LogonRegisters, HandlerGoes, Unregister
  <2>2. levels' \in [PUser -> Level \cup {Absent}]
    BY <1>1, <1>4, Zenon DEF LogonUnregisters, LogonRegisters, Unregister, PeType
  <2>3. PeType'
    BY <1>1, <2>1, <2>2 DEF PeType
  <2>4. handler'[c] = to /\ \A d \in PConn \ {c} : handler'[d] = handler[d]
    BY <1>1, <2>1, Zenon DEF PeType
  <2>5. ASSUME NEW d \in PConn, d # c PROVE ConnInv(d)'
    BY <2>1, <2>3, <2>4, <2>5, OtherConnsKept, Zenon
  <2>6. ConnInv(c)'
    BY <1>1, <2>1, <2>4 DEF ConnInv, Command
  <2> QED
    BY <2>3, <2>5, <2>6, Zenon DEF PeInv
<1>5. CASE StampUserLevel(c)
  <2>1. handler[c] = "stamp" /\ handler' = [handler EXCEPT ![c] = "reading"]
        /\ levels' = [levels EXCEPT ![logon[c].user] = logon[c].level]
        /\ granted' = [granted EXCEPT ![c] = logon[c].level]
        /\ logon' = [logon EXCEPT ![c] = NoLogon] /\ UNCHANGED <<env, bound>>
    BY <1>5, Zenon DEF StampUserLevel, HandlerGoes, Forget
  <2>2. logon[c].user \in PUser /\ bound[c] = logon[c].user /\ logon[c].level \in Level
    BY <1>1, <2>1, Zenon DEF ConnInv, PeType
  <2>3. PeType'
    BY <1>1, <2>1, <2>2 DEF PeType, NoLogon, Level
  <2>4. \A d \in PConn \ {c} : handler'[d] = handler[d] /\ logon'[d] = logon[d] /\ granted'[d] = granted[d]
    BY <1>1, <2>1, Zenon DEF PeType
  <2>5. ASSUME NEW d \in PConn, d # c PROVE ConnInv(d)'
    <3>1. bound[d] # logon[c].user
      BY <1>1, <2>2, <2>5, Zenon DEF ConnInv
    <3>2. \A u \in PUser : u = bound[d] => levels'[u] = levels[u]
      BY <1>1, <2>1, <3>1, Zenon DEF PeType
    <3> QED
      BY <2>1, <2>3, <2>4, <2>5, <3>2, OtherConnsKept, Zenon
  <2>6. handler'[c] = "reading" /\ levels'[bound'[c]] = granted'[c]
    BY <1>1, <2>1, <2>2, Zenon DEF PeType
  <2>7. ConnInv(c)'
    BY <1>1, <2>1, <2>6 DEF ConnInv, OwnLevel, Command
  <2> QED
    BY <2>3, <2>5, <2>7, Zenon DEF PeInv
<1> QED
  BY <1>2, <1>3, <1>4, <1>5, Zenon

\* The steps that end a session.
LEMMA EndStep ==
  ASSUME PeInv, (\E c \in PConn : Teardown(c) \/ TeardownSession(c)) \/ \E u \in PUser : Reap(u)
  PROVE PeInv'
<1> USE PeAssumption
<1>1. PeType
  BY Zenon DEF PeInv
<1>2. ASSUME NEW c \in PConn, Teardown(c) PROVE PeInv'
  <2>1. PeType'
    BY <1>1, <1>2 DEF Teardown, PeType
  <2>2. bound'[c] = Absent /\ handler'[c] = "flush"
        /\ \A d \in PConn \ {c} : bound'[d] = bound[d] /\ handler'[d] = handler[d] /\ logon'[d] = logon[d]
    BY <1>1, <1>2, Zenon DEF Teardown, PeType
  <2>3. ASSUME NEW d \in PConn, d # c PROVE ConnInv(d)'
    BY <1>2, <2>1, <2>2, <2>3, OtherConnsKept, Zenon DEF Teardown
  <2>4. ConnInv(c)'
    BY <2>2 DEF ConnInv, OwnLevel, Command
  <2> QED
    BY <2>1, <2>3, <2>4, Zenon DEF PeInv
<1>3. ASSUME NEW c \in PConn, TeardownSession(c) PROVE PeInv'
  <2>1. handler[c] = "flush" /\ handler' = [handler EXCEPT ![c] = "gone"]
        /\ (\A u \in PUser : levels'[u] \in {Absent, levels[u]}) /\ UNCHANGED <<env, bound, granted>>
        /\ logon' = [logon EXCEPT ![c] = NoLogon] /\ levels' \in [PUser -> Level \cup {Absent}]
    BY <1>1, <1>3, Zenon DEF TeardownSession, HandlerGoes, Unregister, Forget, PeType
  <2>2. PeType'
    BY <1>1, <2>1 DEF PeType, NoLogon, Level
  <2>3. handler'[c] = "gone" /\ \A d \in PConn \ {c} : handler'[d] = handler[d] /\ logon'[d] = logon[d]
    BY <1>1, <2>1, Zenon DEF PeType
  <2>4. ASSUME NEW d \in PConn, d # c PROVE ConnInv(d)'
    BY <2>1, <2>2, <2>3, <2>4, OtherConnsKept, Zenon
  <2>5. ConnInv(c) /\ bound[c] \in PUser \cup {Absent}
    BY <1>1, Zenon DEF PeInv, PeType
  <2>6. ConnInv(c)'
    BY <2>1, <2>3, <2>5 DEF ConnInv, OwnLevel, Command
  <2> QED
    BY <2>2, <2>4, <2>6, Zenon DEF PeInv
<1>4. ASSUME NEW u \in PUser, Reap(u) PROVE PeInv'
  <2>1. (\A w \in PUser : levels'[w] \in {Absent, levels[w]}) /\ levels' \in [PUser -> Level \cup {Absent}]
    BY <1>1, <1>4, Zenon DEF Reap, Unregister, PeType
  <2>2. PeType'
    BY <1>1, <1>4, <2>1, Zenon DEF Reap, PeType
  <2>3. ASSUME NEW d \in PConn PROVE ConnInv(d)'
    BY <1>4, <2>1, <2>2, OtherConnsKept, Zenon DEF Reap
  <2> QED
    BY <2>2, <2>3, Zenon DEF PeInv
<1> QED
  BY <1>2, <1>3, <1>4, Zenon

\* The steps of a command.
LEMMA CommandStep ==
  ASSUME PeInv, NEW c \in PConn,
         \/ \E command \in Command : HandleDBCommand(c, command)
         \/ \E target \in PUser : DBPlayerCommand(c, target)
         \/ DBAdminCommand(c) \/ CommandFails(c)
  PROVE PeInv'
<1> USE PeAssumption
<1>1. PeType /\ ConnInv(c)
  BY Zenon DEF PeInv
<1>2. PICK to \in Command \cup {"reading"} :
        /\ handler[c] \in Command \cup {"reading"} /\ handler' = [handler EXCEPT ![c] = to]
        /\ to \in Command => CanRun(bound[c], to)
        /\ UNCHANGED <<env, bound, logon, sessions, levels, granted>>
  BY Zenon DEF HandleDBCommand, DBPlayerCommand, DBAdminCommand, CommandFails, HandlerGoes, Command
<1>3. PeType'
  BY <1>1, <1>2, Zenon DEF PeType
<1>4. handler'[c] = to /\ \A d \in PConn \ {c} : handler'[d] = handler[d]
  BY <1>1, <1>2, Zenon DEF PeType
<1>5. ASSUME NEW d \in PConn, d # c PROVE ConnInv(d)'
  BY <1>2, <1>3, <1>4, <1>5, OtherConnsKept, Zenon
<1>6. OwnLevel(c) /\ to \notin {"remap", "unregister", "register", "stamp"}
  BY <1>1, <1>2 DEF ConnInv, Command
<1>7. to \in Command => to \in Listed /\ Clears(c, LoadCommandLevels[to])
  BY <1>1, <1>2, <1>6, TableIsListed, ReadsOwnLevel, Zenon DEF CanRun
<1>8. ConnInv(c)'
  <2>1. OwnLevel(c)'
    BY <1>2, <1>6, Zenon DEF OwnLevel
  <2>2. to \in Command => to \in Listed /\ Clears(c, LoadCommandLevels[to])'
    BY <1>2, <1>7, Zenon DEF Clears, LoadCommandLevels
  <2> QED
    BY <1>1, <1>2, <1>4, <1>6, <2>1, <2>2, Zenon DEF ConnInv
<1> QED
  BY <1>3, <1>5, <1>8, Zenon DEF PeInv

\* One step of a connection or of a reaper.
LEMMA PeInvStep == PeInv /\ [PeNext]_peVars => PeInv'
<1> SUFFICES ASSUME PeInv, [PeNext]_peVars PROVE PeInv'
  BY Zenon
<1>1. CASE UNCHANGED peVars
  BY <1>1, Zenon DEF peVars, PeInv, PeType, ConnInv, OwnLevel, Clears, LoadCommandLevels
<1>2. CASE PeNext
  BY <1>2, LogonStep, EndStep, CommandStep, Zenon DEF PeNext
<1> QED
  BY <1>1, <1>2, Zenon

\* What every step of a Logon, of a session's end and of a command's checks
\* preserves (logon_service.go, authorizer.go).
THEOREM PeInvariant == PeSpec => []PeInv
<1> QED
  BY PeInvInit, PeInvStep, PTL DEF PeSpec

\* For any connections, users and levels the environment sets: a command that is
\* past its checks is a listed one, and its own connection's Logon was given the
\* level that it, and access to another user's data, asks for (authorizer.go,
\* CanRun and OwnerOrAdmin; logon_service.go, establishSession).
THEOREM CommandsUseOwnLevel == PeSpec => []ActsWithOwnLevel
<1>1. ASSUME PeInv PROVE ActsWithOwnLevel
  <2> SUFFICES ASSUME NEW c \in PConn, handler[c] \in Command
               PROVE /\ handler[c] \in DOMAIN LoadCommandLevels
                     /\ Clears(c, LoadCommandLevels[handler[c]])
                     /\ \A target \in PUser : target # bound[c] /\ OwnerOrAdmin(bound[c], target)
                          => Clears(c, LoadCommandLevels["DBAdmin.createUser"])
    BY Zenon DEF ActsWithOwnLevel
  <2>1. PeType /\ ConnInv(c)
    BY <1>1, Zenon DEF PeInv
  <2>2. OwnLevel(c)
    BY <2>1 DEF ConnInv, Command
  <2>3. ASSUME NEW target \in PUser, target # bound[c], OwnerOrAdmin(bound[c], target)
        PROVE Clears(c, LoadCommandLevels["DBAdmin.createUser"])
    <3>1. UserLevel(bound[c]) >= LoadCommandLevels["DBAdmin.createUser"]
      BY <2>3, AdminLevelIsListed, Zenon DEF OwnerOrAdmin
    <3> QED
      BY <2>1, <2>2, <3>1, ReadsOwnLevel, Zenon
  <2> QED
    BY <2>1, <2>3, TableIsListed, Zenon DEF ConnInv
<1> QED
  BY <1>1, PeInvariant, PTL

-----------------------------------------------------------------------------
(* Transactions of scripts.                                                *)

Query == [exec : {"pool", "tx"}, inside : BOOLEAN]

TxType ==
  /\ stAt \in [TScript -> {"root", "callback", "commit", "rollback", "ended"}]
  /\ active \in [TScript -> {"pool", "tx"}]
  /\ query \in [TScript -> Query \cup {NoQuery}]
  /\ txOpen \in [TScript -> BOOLEAN]
  /\ written \in [TScript -> SUBSET TRow]
  /\ outcome \in [TScript -> {"none", "done", "undone"}]

Open(s) == stAt[s] \in {"callback", "commit", "rollback"}

\* What holds of each script.
ScriptInv(s) ==
  /\ txOpen[s] <=> Open(s)
  /\ stAt[s] = "callback" => active[s] = "tx"
  /\ stAt[s] \in {"root", "commit", "rollback"} => active[s] = "pool"
  /\ Open(s) => outcome[s] = "none"
  /\ dbWriter = s => Open(s)
  /\ query[s] # NoQuery /\ query[s].exec = "pool" => ~query[s].inside
  /\ \A r \in TRow : <<s, TRUE, r>> \in stored => outcome[s] = "done"
  /\ outcome[s] = "done" => \A r \in written[s] : <<s, TRUE, r>> \in stored

\* What holds of the savepoints of a migration.
SavepointInv ==
  /\ spCount \in Nat /\ spDone \subseteq 1 .. spCount /\ savepoints \subseteq 1 .. spCount
  /\ crossed \in BOOLEAN
  /\ ~crossed => savepoints = (1 .. spCount) \ spDone /\ aborted = FALSE

TxInv == TxType /\ (\A s \in TScript : ScriptInv(s)) /\ SavepointInv

\* No script has a transaction.
LEMMA TxInvInit == TxInit => TxInv
<1> SUFFICES ASSUME TxInit PROVE TxInv
  BY Zenon
<1>1. TxType /\ \A s \in TScript : ScriptInv(s)
  BY TxAssumption DEF TxInit, TxType, ScriptInv, Open
<1>2. (1 .. 0) \ {} = {} /\ 0 \in Nat
  OBVIOUS
<1>3. SavepointInv
  BY <1>2, Zenon DEF TxInit, SavepointInv
<1> QED
  BY <1>1, <1>3, Zenon DEF TxInv

\* A step of one script leaves the invariant of the others alone.
LEMMA OthersKept ==
  ASSUME NEW t \in TScript, ScriptInv(t),
         stAt'[t] = stAt[t], active'[t] = active[t], query'[t] = query[t],
         txOpen'[t] = txOpen[t], written'[t] = written[t], outcome'[t] = outcome[t],
         dbWriter' = t => dbWriter = t,
         stored \subseteq stored',
         \A r \in TRow : <<t, TRUE, r>> \in stored' => <<t, TRUE, r>> \in stored
  PROVE  ScriptInv(t)'
BY Zenon DEF ScriptInv, Open

\* Steps of the scripts leave the savepoints alone, and the other way round.
LEMMA ScriptStep ==
  ASSUME TxInv, TxNext PROVE TxInv'
<1> USE DEF TxInv
<1>1. SavepointInv'
  BY Zenon DEF TxNext, Table, TxBegin, CallbackEnds, TxCommit, TxRollback, ScriptEnds, Write, TxCrash,
         SavepointInv, spVars
<1>2. ASSUME NEW s \in TScript, Table(s) PROVE TxInv'
  <2>1. TxType'
    BY <1>2, Zenon DEF Table, TxType, Query
  <2>2. ScriptInv(s)'
    <3>1. query'[s] = [exec |-> active[s], inside |-> stAt[s] = "callback"]
      BY <1>2, Zenon DEF Table, TxType
    <3>2. UNCHANGED <<stored, dbWriter, stAt, active, txOpen, written, outcome>>
      BY <1>2, Zenon DEF Table
    <3>3. CASE stAt[s] = "root"
      <4>1. active[s] = "pool" /\ (stAt[s] = "callback") = FALSE
        BY <3>3, Zenon DEF ScriptInv
      <4>2. query'[s] = [exec |-> "pool", inside |-> FALSE]
        BY <3>1, <4>1, Zenon
      <4>3. ~query'[s].inside
        BY <4>2
      <4> QED
        BY <3>2, <4>3, Zenon DEF ScriptInv, Open
    <3>4. CASE stAt[s] = "callback"
      <4>1. active[s] = "tx" /\ (stAt[s] = "callback") = TRUE
        BY <3>4, Zenon DEF ScriptInv
      <4>2. query'[s] = [exec |-> "tx", inside |-> TRUE]
        BY <3>1, <4>1, Zenon
      <4>3. query'[s].exec = "tx"
        BY <4>2
      <4> QED
        BY <3>2, <4>3, Zenon DEF ScriptInv, Open
    <3> QED
      BY <1>2, <3>3, <3>4, Zenon DEF Table, Scripting
  <2>3. ASSUME NEW t \in TScript \ {s} PROVE ScriptInv(t)'
    BY <1>2, OthersKept, Zenon DEF Table, TxType
  <2> QED
    BY <1>1, <2>1, <2>2, <2>3, Zenon
<1>3. ASSUME NEW s \in TScript, TxBegin(s) PROVE TxInv'
  <2>1. TxType'
    BY <1>3, Zenon DEF TxBegin, TxGoto, TxType
  <2>2. ScriptInv(s)'
    <3>1. /\ stAt[s] = "root" /\ stAt'[s] = "callback" /\ outcome[s] = "none"
          /\ UNCHANGED <<stored, dbWriter, query, written, outcome>>
      BY <1>3, Zenon DEF TxBegin, TxGoto, TxType
    <3>2. txOpen'[s] = TRUE /\ active'[s] = "tx"
      BY <1>3, Zenon DEF TxBegin, TxType
    <3>3. ~Open(s) /\ Open(s)'
      BY <3>1, Zenon DEF Open
    <3> QED
      BY <3>1, <3>2, <3>3, Zenon DEF ScriptInv
  <2>3. ASSUME NEW t \in TScript \ {s} PROVE ScriptInv(t)'
    BY <1>3, OthersKept, Zenon DEF TxBegin, TxGoto, TxType
  <2> QED
    BY <1>1, <2>1, <2>2, <2>3
<1>4. ASSUME NEW s \in TScript, CallbackEnds(s) PROVE TxInv'
  <2>1. TxType'
    BY <1>4, Zenon DEF CallbackEnds, TxType
  <2>2. ScriptInv(s)'
    <3>1. /\ stAt[s] = "callback" /\ stAt'[s] \in {"commit", "rollback"} /\ active'[s] = "pool"
          /\ UNCHANGED <<stored, dbWriter, query, txOpen, written, outcome>>
      BY <1>4, Zenon DEF CallbackEnds, TxType
    <3>2. Open(s) /\ Open(s)'
      BY <3>1, Zenon DEF Open
    <3> QED
      BY <3>1, <3>2, Zenon DEF ScriptInv
  <2>3. ASSUME NEW t \in TScript \ {s} PROVE ScriptInv(t)'
    BY <1>4, OthersKept, Zenon DEF CallbackEnds, TxType
  <2> QED
    BY <1>1, <2>1, <2>2, <2>3
<1>5. ASSUME NEW s \in TScript, TxCommit(s) PROVE TxInv'
  <2>1. TxType'
    BY <1>5, Zenon DEF TxCommit, TxGoto, Close, TxType
  <2>2. ScriptInv(s)'
    <3>1. txOpen'[s] = FALSE /\ ~Open(s)' /\ dbWriter' # s
      <4>1. stAt'[s] = "root"
        BY <1>5, Zenon DEF TxCommit, TxGoto, TxType
      <4>2. txOpen'[s] = FALSE
        BY <1>5, Zenon DEF TxCommit, Close, TxType
      <4>3. dbWriter' # s
        BY <1>5, TxAssumption, Zenon DEF TxCommit, Close
      <4> QED
        BY <4>1, <4>2, <4>3, Zenon DEF Open
    <3>2. UNCHANGED <<active, query, written>> /\ stAt'[s] = "root" /\ active[s] = "pool"
      BY <1>5, Zenon DEF TxCommit, TxGoto, TxType, ScriptInv
    <3>3. CASE stored' = stored \cup {<<s, TRUE, r>> : r \in written[s]} /\ outcome'[s] = "done"
      BY <3>1, <3>2, <3>3, Zenon DEF ScriptInv
    <3>4. CASE UNCHANGED stored /\ outcome'[s] = "undone"
      BY <1>5, <3>1, <3>2, <3>4, Zenon DEF ScriptInv, TxCommit, TxGoto, Open
    <3> QED
      BY <1>5, <3>3, <3>4, Zenon DEF TxCommit, Close, TxType
  <2>3. ASSUME NEW t \in TScript \ {s} PROVE ScriptInv(t)'
    <3>1. /\ stAt'[t] = stAt[t] /\ txOpen'[t] = txOpen[t] /\ outcome'[t] = outcome[t]
          /\ UNCHANGED <<active, query, written>>
      BY <1>5, Zenon DEF TxCommit, TxGoto, Close, TxType
    <3>2. dbWriter' = t => dbWriter = t
      BY <1>5, TxAssumption, Zenon DEF TxCommit, Close
    <3>3. stored \subseteq stored' /\ \A r \in TRow : <<t, TRUE, r>> \in stored' => <<t, TRUE, r>> \in stored
      BY <1>5, Zenon DEF TxCommit
    <3> QED
      BY <3>1, <3>2, <3>3, OthersKept, Zenon
  <2> QED
    BY <1>1, <2>1, <2>2, <2>3
<1>6. ASSUME NEW s \in TScript, TxRollback(s) PROVE TxInv'
  <2>1. TxType'
    BY <1>6, Zenon DEF TxRollback, TxGoto, Close, TxType
  <2>2. ScriptInv(s)'
    <3>1. stAt[s] = "rollback" /\ stAt'[s] = "root" /\ UNCHANGED <<stored, active, query, written>>
      BY <1>6, Zenon DEF TxRollback, TxGoto, TxType
    <3>2. txOpen'[s] = FALSE /\ outcome'[s] = "undone"
      BY <1>6, Zenon DEF TxRollback, Close, TxType
    <3>3. dbWriter' # s
      BY <1>6, TxAssumption, Zenon DEF TxRollback, Close
    <3>4. Open(s) /\ ~Open(s)'
      BY <3>1, Zenon DEF Open
    <3> QED
      BY <3>1, <3>2, <3>3, <3>4, Zenon DEF ScriptInv
  <2>3. ASSUME NEW t \in TScript \ {s} PROVE ScriptInv(t)'
    <3>1. /\ stAt'[t] = stAt[t] /\ txOpen'[t] = txOpen[t] /\ outcome'[t] = outcome[t]
          /\ UNCHANGED <<stored, active, query, written>>
      BY <1>6, Zenon DEF TxRollback, TxGoto, Close, TxType
    <3>2. dbWriter' = t => dbWriter = t
      BY <1>6, TxAssumption, Zenon DEF TxRollback, Close
    <3> QED
      BY <3>1, <3>2, OthersKept, Zenon
  <2> QED
    BY <1>1, <2>1, <2>2, <2>3
<1>7. ASSUME NEW s \in TScript, ScriptEnds(s) PROVE TxInv'
  <2>1. TxType'
    BY <1>7, Zenon DEF ScriptEnds, TxGoto, TxType
  <2>2. ScriptInv(s)'
    <3>1. /\ stAt[s] = "root" /\ stAt'[s] = "ended"
          /\ UNCHANGED <<stored, dbWriter, active, query, txOpen, written, outcome>>
      BY <1>7, Zenon DEF ScriptEnds, TxGoto, TxType
    <3>2. ~Open(s) /\ ~Open(s)'
      BY <3>1, Zenon DEF Open
    <3> QED
      BY <3>1, <3>2, Zenon DEF ScriptInv
  <2>3. ASSUME NEW t \in TScript \ {s} PROVE ScriptInv(t)'
    BY <1>7, OthersKept, Zenon DEF ScriptEnds, TxGoto, TxType
  <2> QED
    BY <1>1, <2>1, <2>2, <2>3
<1>8. ASSUME NEW s \in TScript, NEW r \in TRow, Write(s, r) PROVE TxInv'
  <2>1. TxType'
    BY <1>8 DEF Write, TxType
  <2>2. CASE query[s].exec = "pool"
    <3>1. query[s].inside = FALSE
      <4>1. query[s] # NoQuery /\ query[s] \in Query \cup {NoQuery}
        BY <1>8, Zenon DEF Write, TxType
      <4>2. query[s].inside \in BOOLEAN
        BY <4>1, Zenon DEF Query
      <4>3. ~query[s].inside
        BY <2>2, <4>1, Zenon DEF ScriptInv
      <4> QED
        BY <4>2, <4>3, Zenon
    <3>2. stored' = stored \cup {<<s, FALSE, r>>} /\ UNCHANGED <<written, dbWriter>>
      BY <1>8, <2>2, <3>1, Zenon DEF Write
    <3>3. UNCHANGED <<stAt, active, query, txOpen, outcome>>
      BY <1>8, Zenon DEF Write
    <3>4. ASSUME NEW t \in TScript PROVE ScriptInv(t)'
      BY <3>2, <3>3, OthersKept, Zenon
    <3> QED
      BY <1>1, <2>1, <3>4, Zenon
  <2>3. CASE query[s].exec = "tx"
    <3>1. UNCHANGED <<stored, stAt, active, query, txOpen, outcome>> /\ txOpen[s] /\ dbWriter' = s
      BY <1>8, <2>3, Zenon DEF Write
    <3>2. ScriptInv(s)'
      BY <3>1, Zenon DEF ScriptInv, Open
    <3>3. ASSUME NEW t \in TScript \ {s} PROVE ScriptInv(t)'
      BY <1>8, <2>3, <3>1, OthersKept, Zenon DEF Write, TxType
    <3> QED
      BY <1>1, <2>1, <3>2, <3>3, Zenon
  <2> QED
    BY <1>8, <2>2, <2>3, Zenon DEF Write
<1>9. CASE TxCrash
  <2>1. TxType'
    BY <1>9, Zenon DEF TxCrash, TxType
  <2>2. ASSUME NEW t \in TScript PROVE ScriptInv(t)'
    <3>1. /\ stAt'[t] = "ended" /\ txOpen'[t] = FALSE /\ dbWriter' # t
          /\ UNCHANGED <<stored, active, query, written, outcome>>
      BY <1>9, TxAssumption, Zenon DEF TxCrash
    <3>2. ~Open(t)'
      BY <3>1, Zenon DEF Open
    <3> QED
      BY <3>1, <3>2, Zenon DEF ScriptInv
  <2> QED
    BY <1>1, <2>1, <2>2, Zenon
<1> QED
  BY <1>2, <1>3, <1>4, <1>5, <1>6, <1>7, <1>8, <1>9, Zenon DEF TxNext

\* One step of the savepoint calls.
LEMMA SavepointStep ==
  ASSUME TxInv, SavepointNext PROVE TxInv'
<1>1. UNCHANGED scriptTxVars
  BY Zenon DEF SavepointNext, BeginSavepoint, Finalize
<1>2. TxType' /\ \A s \in TScript : ScriptInv(s)'
  BY <1>1, Zenon DEF scriptTxVars, TxInv, TxType, ScriptInv, Open
<1>3. CASE BeginSavepoint
  BY <1>2, <1>3 DEF BeginSavepoint, TxInv, SavepointInv
<1>4. ASSUME NEW n \in 1 .. MaxSavepoints, NEW how \in {"commit", "rollback"}, Finalize(n, how)
      PROVE SavepointInv'
  <2>1. CASE n \in spDone
    BY <1>4, <2>1, Zenon DEF Finalize, TxInv, SavepointInv
  <2>2. CASE n \notin spDone
    <3>1. n \in 1 .. spCount /\ spDone' = spDone \cup {n} /\ spCount' = spCount /\ Statement(n, how)
          /\ crossed' = (crossed \/ \E m \in savepoints : m > n)
      BY <1>4, <2>2, Zenon DEF Finalize
    <3>2. savepoints' \subseteq savepoints
      BY <3>1, Zenon DEF Statement
    <3>3. ASSUME ~crossed' PROVE savepoints' = (1 .. spCount) \ spDone' /\ aborted' = FALSE
      <4>1. savepoints = (1 .. spCount) \ spDone /\ aborted = FALSE /\ \A m \in savepoints : ~(m > n)
        BY <3>1, <3>3, Zenon DEF TxInv, SavepointInv
      <4>2. savepoints' = {m \in savepoints : m < n} /\ aborted' = FALSE
        BY <2>2, <3>1, <4>1, Zenon DEF Statement
      <4> QED
        BY <3>1, <4>1, <4>2
    <3> QED
      BY <3>1, <3>2, <3>3, Zenon DEF TxInv, SavepointInv
  <2> QED
    BY <2>1, <2>2, Zenon
<1> QED
  BY <1>2, <1>3, <1>4, Zenon DEF SavepointNext, TxInv

\* One step of a script.
LEMMA TxInvStep == TxInv /\ [TxNext \/ SavepointNext]_txVars => TxInv'
<1>1. ASSUME TxInv, UNCHANGED txVars PROVE TxInv'
  BY <1>1, Zenon DEF txVars, scriptTxVars, spVars, TxInv, TxType, ScriptInv, Open, SavepointInv
<1> QED
  BY <1>1, ScriptStep, SavepointStep, Zenon

\* What every step of a transaction's callback and of a savepoint preserves
\* (lua_db_module.go, sql_query_builder.go).
THEOREM TxInvariant == TxSpec => []TxInv
<1> QED
  BY TxInvInit, TxInvStep, PTL DEF TxSpec

\* For any number of scripts that use transactions at once: what the queries of
\* a callback wrote is stored all or not at all, and all exactly when the script
\* is told so (lua_db_module.go, mus.db.transaction).
THEOREM TransactionsAreAtomic == TxSpec => []AllOrNothing
<1>1. TxInv => AllOrNothing
  BY Zenon DEF TxInv, TxType, ScriptInv, AllOrNothing
<1> QED
  BY <1>1, TxInvariant, PTL

\* When a callback has ended, in whatever way, its transaction is closed and the
\* script's builder is the pool's again (mus.db.transaction, after
\* PCall).
THEOREM TransactionsAreClosed == TxSpec => []OutsideIsOutside
<1>1. TxInv => OutsideIsOutside
  BY Zenon DEF TxInv, TxType, ScriptInv, Open, OutsideIsOutside
<1> QED
  BY <1>1, TxInvariant, PTL

\* For any number of savepoints and any order and number of Commits and Rollbacks:
\* none sends a statement that aborts the migration, unless a savepoint was
\* finalized before one inside it (sql_query_builder.go, sqlSavepoint).
THEOREM SavepointsNeverAbort == TxSpec => []MigrationNotAborted
<1>1. TxInv => MigrationNotAborted
  BY Zenon DEF TxInv, SavepointInv, MigrationNotAborted
<1> QED
  BY <1>1, TxInvariant, PTL

-----------------------------------------------------------------------------
(* Database commands.                                                      *)

\* A row whose id is the number of its creation.
Row == {r \in [id : Nat, born : Nat] : r.id = r.born}
Op == AttrOp \cup {"answer", "ban", "revoke", "lift"}
Cmd == [op : Op, row : Row, user : DUser \cup {NoUser}, found : Nat]

DBType ==
  /\ apps \in [DApp -> Row \cup {Free}] /\ users \in [DUser -> Row \cup {Free}]
  /\ attrs \subseteq [app : Nat, user : DUser \cup {NoUser}, born : Nat]
  /\ bans \subseteq [id : Nat, user : Nat, born : Nat, active : BOOLEAN, lifts : Nat]
  /\ lastId \in [{"apps", "users", "bans"} -> Nat]
  /\ cmd \in [DCmd -> Cmd \cup {Free}]

\* The parts of NothingCrossesReCreation, one per table.
AttrsHaveApp == \A r \in attrs : [id |-> r.app, born |-> r.born] \in Rows(apps)
BansHaveUser == \A b \in bans : [id |-> b.user, born |-> b.born] \in Rows(users)
AnswersFit ==
  \A h \in DCmd : cmd[h] # Free /\ cmd[h].op = "answer" => cmd[h].found \in {0, cmd[h].row.born}
LiftsCounted == \A b \in bans : IF b.active THEN b.lifts = 0 ELSE b.lifts = 1

DBInv == DBType /\ AttrsHaveApp /\ BansHaveUser /\ AnswersFit /\ LiftsCounted

\* Empty tables, and no command under way.
LEMMA DBInvInit == DBInit => DBInv
BY DEF DBInit, DBInv, DBType, AttrsHaveApp, BansHaveUser, AnswersFit, LiftsCounted

\* Free is no row, and rows of the same id are the same row.
LEMMA RowsAreRows ==
  ASSUME NEW N, NEW table \in [N -> Row \cup {Free}]
  PROVE  /\ Rows(table) \subseteq Row
         /\ \A r \in Rows(table), q \in Row : r.id = q.id => q \in Rows(table)
         /\ \A q \in Row : q \in Rows(table) <=> \E n \in N : table[n] = q
<1>1. Free \notin Row
  BY DBAssumption, Zenon DEF Row
<1>2. \A r, q \in Row : r.id = q.id => r = q
  BY DEF Row
<1>3. Rows(table) \subseteq Row
  BY Zenon DEF Rows
<1>4. \A q \in Row : q \in Rows(table) <=> \E n \in N : table[n] = q
  BY <1>1, Zenon DEF Rows
<1> QED
  BY <1>2, <1>3, <1>4, Zenon

\* A new row under a name that had none keeps the others.
LEMMA CreateKeepsRows ==
  ASSUME NEW N, NEW table \in [N -> Row \cup {Free}], NEW a \in N, table[a] = Free, NEW r \in Row
  PROVE  LET new == [table EXCEPT ![a] = r]
         IN new \in [N -> Row \cup {Free}] /\ Rows(table) \subseteq Rows(new)
<1> DEFINE new == [table EXCEPT ![a] = r]
<1>1. new \in [N -> Row \cup {Free}]
  BY Zenon
<1>2. ASSUME NEW q \in Rows(table) PROVE q \in Rows(new)
  <2>1. PICK n \in N : table[n] = q /\ q # Free
    BY Zenon DEF Rows
  <2>2. new[n] = q
    BY <2>1, Zenon
  <2> QED
    BY <1>1, <2>1, <2>2, Zenon DEF Rows
<1> QED
  BY <1>1, <1>2, Zenon

\* Deleting a row keeps those of other ids.
LEMMA DeleteKeepsOthers ==
  ASSUME NEW N, NEW table \in [N -> Row \cup {Free}], NEW a \in N
  PROVE  LET new == [table EXCEPT ![a] = Free]
         IN /\ new \in [N -> Row \cup {Free}]
            /\ \A q \in Rows(table) : q.id # table[a].id => q \in Rows(new)
<1> DEFINE new == [table EXCEPT ![a] = Free]
<1>1. new \in [N -> Row \cup {Free}]
  BY Zenon
<1>2. ASSUME NEW q \in Rows(table), q.id # table[a].id PROVE q \in Rows(new)
  <2>1. PICK n \in N : table[n] = q /\ q # Free
    BY Zenon DEF Rows
  <2>2. n # a
    BY <1>2, <2>1, Zenon
  <2>3. new[n] = q
    BY <2>1, <2>2, Zenon
  <2> QED
    BY <1>1, <2>1, <2>3, Zenon DEF Rows
<1> QED
  BY <1>1, <1>2, Zenon

\* A command that ends changes no table.
LEMMA FinishKeeps ==
  ASSUME DBInv, NEW h \in DCmd, Finish(h)
  PROVE  cmd' \in [DCmd -> Cmd \cup {Free}] /\ AnswersFit'
<1>1. cmd' = [cmd EXCEPT ![h] = Free]
  BY Zenon DEF Finish
<1>2. cmd' \in [DCmd -> Cmd \cup {Free}]
  BY <1>1, Zenon DEF DBInv, DBType
<1>3. ASSUME NEW g \in DCmd, cmd'[g] # Free PROVE cmd'[g] = cmd[g]
  BY <1>1, <1>3, Zenon DEF DBInv, DBType
<1> QED
  BY <1>2, <1>3, Zenon DEF DBInv, AnswersFit

\* A command that looks a row up, or goes on to its next statement, changes no
\* table either.
LEMMA CommandGoesOn ==
  ASSUME DBInv, NEW h \in DCmd, NEW c \in Cmd, cmd' = [cmd EXCEPT ![h] = c],
         c.op = "answer" => c.found \in {0, c.row.born},
         UNCHANGED <<apps, users, attrs, bans, lastId>>
  PROVE  DBInv'
<1>1. cmd' \in [DCmd -> Cmd \cup {Free}]
  BY Zenon DEF DBInv, DBType
<1>2. AnswersFit'
  <2>1. ASSUME NEW g \in DCmd PROVE cmd'[g] = IF g = h THEN c ELSE cmd[g]
    BY Zenon DEF DBInv, DBType
  <2> QED
    BY <2>1 DEF DBInv, AnswersFit
<1> QED
  BY <1>1, <1>2, Zenon DEF DBInv, DBType, AttrsHaveApp, BansHaveUser, LiftsCounted

\* A command creates an application or a user.
LEMMA CreateStep ==
  ASSUME DBInv,
         \/ \E a \in DApp : CreateApplication(a)
         \/ \E u \in DUser : CreateUser(u)
  PROVE  DBInv'
<1>1. ASSUME NEW a \in DApp, CreateApplication(a) PROVE DBInv'
  <2> DEFINE r == [id |-> lastId["apps"] + 1, born |-> lastId["apps"] + 1]
  <2>1. r \in Row
    BY DEF DBInv, DBType, Row
  <2>2. apps[a] = Free /\ apps' = [apps EXCEPT ![a] = r]
    BY <1>1, Zenon DEF CreateApplication, NewId
  <2> HIDE DEF r
  <2>3. apps' \in [DApp -> Row \cup {Free}] /\ Rows(apps) \subseteq Rows(apps')
    <3>1. apps \in [DApp -> Row \cup {Free}]
      BY Zenon DEF DBInv, DBType
    <3> QED
      BY <2>1, <2>2, <3>1, CreateKeepsRows, Zenon
  <2>4. lastId' \in [{"apps", "users", "bans"} -> Nat]
    BY <1>1 DEF CreateApplication, DBInv, DBType
  <2>5. UNCHANGED <<users, attrs, bans, cmd>>
    BY <1>1, Zenon DEF CreateApplication
  <2> QED
    BY <2>3, <2>4, <2>5, Zenon
    DEF DBInv, DBType, AttrsHaveApp, BansHaveUser, AnswersFit, LiftsCounted
<1>2. ASSUME NEW u \in DUser, CreateUser(u) PROVE DBInv'
  <2> DEFINE r == [id |-> lastId["users"] + 1, born |-> lastId["users"] + 1]
  <2>1. r \in Row
    BY DEF DBInv, DBType, Row
  <2>2. users[u] = Free /\ users' = [users EXCEPT ![u] = r]
    BY <1>2, Zenon DEF CreateUser, NewId
  <2> HIDE DEF r
  <2>3. users' \in [DUser -> Row \cup {Free}] /\ Rows(users) \subseteq Rows(users')
    <3>1. users \in [DUser -> Row \cup {Free}]
      BY Zenon DEF DBInv, DBType
    <3> QED
      BY <2>1, <2>2, <3>1, CreateKeepsRows, Zenon
  <2>4. lastId' \in [{"apps", "users", "bans"} -> Nat]
    BY <1>2 DEF CreateUser, DBInv, DBType
  <2>5. UNCHANGED <<apps, attrs, bans, cmd>>
    BY <1>2, Zenon DEF CreateUser
  <2> QED
    BY <2>3, <2>4, <2>5, Zenon
    DEF DBInv, DBType, AttrsHaveApp, BansHaveUser, AnswersFit, LiftsCounted
<1> QED
  BY <1>1, <1>2, Zenon

\* The cascade takes every child of the deleted row.
LEMMA DeleteStep ==
  ASSUME DBInv, NEW c \in DConn,
         \/ \E a \in DApp : DeleteApplication(a, c)
         \/ \E u \in DUser : DeleteUser(u, c)
  PROVE  DBInv'
<1>1. ASSUME NEW a \in DApp, DeleteApplication(a, c) PROVE DBInv'
  <2>1. /\ apps' = [apps EXCEPT ![a] = Free] /\ attrs' = {r \in attrs : r.app # apps[a].id}
        /\ UNCHANGED <<users, bans, lastId, cmd>>
    BY <1>1, Zenon DEF DeleteApplication, Enforced
  <2>2. /\ apps' \in [DApp -> Row \cup {Free}]
        /\ \A q \in Rows(apps) : q.id # apps[a].id => q \in Rows(apps')
    BY <2>1, DeleteKeepsOthers, Zenon DEF DBInv, DBType
  <2>3. AttrsHaveApp'
    <3>1. SUFFICES ASSUME NEW r \in attrs, r.app # apps[a].id
                   PROVE  [id |-> r.app, born |-> r.born] \in Rows(apps')
      BY <2>1, Zenon DEF AttrsHaveApp
    <3> QED
      BY <2>2, <3>1, Zenon DEF DBInv, AttrsHaveApp
  <2>4. DBType'
    BY <2>1, <2>2, Zenon DEF DBInv, DBType
  <2> QED
    BY <2>1, <2>3, <2>4, Zenon DEF DBInv, BansHaveUser, AnswersFit, LiftsCounted
<1>2. ASSUME NEW u \in DUser, DeleteUser(u, c) PROVE DBInv'
  <2>1. /\ users' = [users EXCEPT ![u] = Free] /\ bans' = {b \in bans : b.user # users[u].id}
        /\ UNCHANGED <<apps, attrs, lastId, cmd>>
    BY <1>2, Zenon DEF DeleteUser, Enforced
  <2>2. /\ users' \in [DUser -> Row \cup {Free}]
        /\ \A q \in Rows(users) : q.id # users[u].id => q \in Rows(users')
    BY <2>1, DeleteKeepsOthers, Zenon DEF DBInv, DBType
  <2>3. BansHaveUser'
    <3>1. SUFFICES ASSUME NEW b \in bans, b.user # users[u].id
                   PROVE  [id |-> b.user, born |-> b.born] \in Rows(users')
      BY <2>1, Zenon DEF BansHaveUser
    <3> QED
      BY <2>2, <3>1, Zenon DEF DBInv, BansHaveUser
  <2>4. DBType'
    BY <2>1, <2>2, Zenon DEF DBInv, DBType
  <2> QED
    BY <2>1, <2>3, <2>4, Zenon DEF DBInv, AttrsHaveApp, AnswersFit, LiftsCounted
<1> QED
  BY <1>1, <1>2, Zenon

\* A command looks its rows up.
LEMMA LookupStep ==
  ASSUME DBInv, NEW h \in DCmd,
         \/ \E op \in AttrOp, a \in DApp, u \in DUser \cup {NoUser} : GetAppID(h, op, a, u)
         \/ \E op \in {"ban", "revoke"}, u \in DUser : GetUser(h, op, u)
  PROVE  DBInv'
<1>1. ASSUME NEW op \in AttrOp, NEW a \in DApp, NEW u \in DUser \cup {NoUser}, GetAppID(h, op, a, u)
      PROVE  DBInv'
  <2> DEFINE c == [op |-> op, row |-> apps[a], user |-> u, found |-> 0]
  <2>1. c \in Cmd /\ c.op # "answer"
    <3>1. apps[a] \in Row
      BY <1>1, Zenon DEF GetAppID, DBInv, DBType
    <3>2. op \in Op /\ op # "answer"
      BY Zenon DEF Op, AttrOp
    <3> QED
      BY <3>1, <3>2, Zenon DEF Cmd
  <2> QED
    BY <1>1, <2>1, CommandGoesOn, Zenon DEF GetAppID
<1>2. ASSUME NEW op \in {"ban", "revoke"}, NEW u \in DUser, GetUser(h, op, u) PROVE DBInv'
  <2> DEFINE c == [op |-> op, row |-> users[u], user |-> u, found |-> 0]
  <2>1. c \in Cmd /\ c.op # "answer"
    <3>1. users[u] \in Row
      BY <1>2, Zenon DEF GetUser, DBInv, DBType
    <3>2. op \in Op /\ op # "answer"
      BY Zenon DEF Op
    <3> QED
      BY <3>1, <3>2, Zenon DEF Cmd
  <2> QED
    BY <1>2, <2>1, CommandGoesOn, Zenon DEF GetUser
<1> QED
  BY <1>1, <1>2, Zenon

\* A command reads or writes an attribute of the row it found.
LEMMA AttributeStep ==
  ASSUME DBInv, NEW h \in DCmd,
         (\E c \in DConn : SetAttribute(h, c)) \/ DeleteAttribute(h) \/ GetAttribute(h)
  PROVE  DBInv'
<1> DEFINE row == cmd[h].row
<1>1. cmd[h] \in Cmd /\ row \in Row /\ row.id \in Nat /\ row.born = row.id
  BY Zenon DEF SetAttribute, DeleteAttribute, GetAttribute, DBInv, DBType, Cmd, Row
<1>2. ASSUME NEW c \in DConn, SetAttribute(h, c) PROVE DBInv'
  <2> DEFINE new == [app |-> row.id, user |-> cmd[h].user, born |-> row.born]
  <2>1. UNCHANGED <<apps, users, bans, lastId>> /\ Finish(h)
    BY <1>2, Zenon DEF SetAttribute
  <2>2. attrs' \subseteq attrs \/ (attrs' \subseteq attrs \cup {new} /\ HasId(apps, row.id))
    BY <1>2, Zenon DEF SetAttribute, Enforced
  <2>3. HasId(apps, row.id) => [id |-> new.app, born |-> new.born] \in Rows(apps)
    <3>1. SUFFICES ASSUME HasId(apps, row.id) PROVE row \in Rows(apps)
      BY <1>1, Zenon DEF Row
    <3> QED
      BY <1>1, <3>1, RowsAreRows, Zenon DEF HasId, DBInv, DBType
  <2>4. new \in [app : Nat, user : DUser \cup {NoUser}, born : Nat]
    BY <1>1, Zenon DEF Cmd
  <2> HIDE DEF new
  <2>5. AttrsHaveApp'
    BY <2>1, <2>2, <2>3, Zenon DEF DBInv, AttrsHaveApp
  <2>6. DBType' /\ AnswersFit'
    BY <2>1, <2>2, <2>4, FinishKeeps, Zenon DEF DBInv, DBType
  <2> QED
    BY <2>1, <2>5, <2>6, Zenon DEF DBInv, BansHaveUser, LiftsCounted
<1>3. ASSUME DeleteAttribute(h) PROVE DBInv'
  <2>1. UNCHANGED <<apps, users, bans, lastId>> /\ Finish(h) /\ attrs' \subseteq attrs
    BY <1>3, Zenon DEF DeleteAttribute
  <2>2. DBType' /\ AnswersFit'
    BY <2>1, FinishKeeps, Zenon DEF DBInv, DBType
  <2> QED
    BY <2>1, <2>2, Zenon DEF DBInv, AttrsHaveApp, BansHaveUser, LiftsCounted
<1>4. ASSUME GetAttribute(h) PROVE DBInv'
  <2> DEFINE matches == {r \in attrs : r.app = row.id /\ r.user = cmd[h].user}
             value == IF matches = {} THEN 0 ELSE (CHOOSE r \in matches : TRUE).born
             c == [cmd[h] EXCEPT !.op = "answer", !.found = value]
  <2>1. \A r \in matches : r.born = row.born
    <3>1. SUFFICES ASSUME NEW r \in attrs, r.app = row.id PROVE r.born = row.born
      BY Zenon
    <3>2. [id |-> r.app, born |-> r.born] \in Row
      BY RowsAreRows DEF DBInv, DBType, AttrsHaveApp
    <3> QED
      BY <1>1, <3>1, <3>2, Zenon DEF Row
  <2>2. value \in {0, row.born}
    BY <2>1, Zenon
  <2>3. cmd' = [cmd EXCEPT ![h] = c] /\ UNCHANGED <<apps, users, attrs, bans, lastId>>
    BY <1>4, <1>1, Zenon DEF GetAttribute, DBInv, DBType
  <2> HIDE DEF value
  <2>4. value \in Nat
    BY <1>1, <2>2
  <2>5. c \in Cmd /\ c.row = row /\ c.found = value
    BY <1>1, <2>4, Zenon DEF Cmd, Op
  <2>6. c.found \in {0, c.row.born}
    BY <2>2, <2>5, Zenon
  <2> HIDE DEF c
  <2> QED
    BY <2>3, <2>5, <2>6, CommandGoesOn, Zenon
<1> QED
  BY <1>2, <1>3, <1>4, Zenon

\* A command sets, revokes or lifts a ban.
LEMMA BanStep ==
  ASSUME DBInv, NEW h \in DCmd,
         (\E c \in DConn : CreateBan(h, c)) \/ GetActiveBanByUserID(h) \/ RevokeBan(h)
  PROVE  DBInv'
<1> DEFINE row == cmd[h].row
<1>1. cmd[h] \in Cmd /\ row \in Row /\ row.id \in Nat /\ row.born = row.id
  BY Zenon DEF CreateBan, GetActiveBanByUserID, RevokeBan, DBInv, DBType, Cmd, Row
<1>2. ASSUME NEW c \in DConn, CreateBan(h, c) PROVE DBInv'
  <2> DEFINE new == [id |-> lastId["bans"] + 1, user |-> row.id, born |-> row.born,
                     active |-> TRUE, lifts |-> 0]
  <2>1. UNCHANGED <<apps, users, attrs>> /\ Finish(h)
    BY <1>2, Zenon DEF CreateBan
  <2>2. bans' = bans \/ (bans' = bans \cup {new} /\ HasId(users, row.id))
    BY <1>2, Zenon DEF CreateBan, Enforced
  <2>3. lastId' \in [{"apps", "users", "bans"} -> Nat]
    <3>1. lastId \in [{"apps", "users", "bans"} -> Nat] /\ lastId["bans"] + 1 \in Nat
      BY DEF DBInv, DBType
    <3>2. lastId' = lastId \/ lastId' = [lastId EXCEPT !["bans"] = @ + 1]
      BY <1>2, Zenon DEF CreateBan
    <3> QED
      BY <3>1, <3>2, Zenon
  <2>4. HasId(users, row.id) => [id |-> new.user, born |-> new.born] \in Rows(users)
    <3>1. SUFFICES ASSUME HasId(users, row.id) PROVE row \in Rows(users)
      BY <1>1, Zenon DEF Row
    <3> QED
      BY <1>1, <3>1, RowsAreRows, Zenon DEF HasId, DBInv, DBType
  <2>5. /\ new \in [id : Nat, user : Nat, born : Nat, active : BOOLEAN, lifts : Nat]
        /\ new.active /\ new.lifts = 0
    BY <1>1 DEF DBInv, DBType
  <2> HIDE DEF new
  <2>6. BansHaveUser' /\ LiftsCounted'
    BY <2>1, <2>2, <2>4, <2>5, Zenon DEF DBInv, BansHaveUser, LiftsCounted
  <2>7. DBType' /\ AnswersFit'
    BY <2>1, <2>2, <2>3, <2>5, FinishKeeps, Zenon DEF DBInv, DBType
  <2> QED
    BY <2>1, <2>6, <2>7, Zenon DEF DBInv, AttrsHaveApp
<1>3. ASSUME GetActiveBanByUserID(h) PROVE DBInv'
  <2>1. UNCHANGED <<apps, users, attrs, bans, lastId>>
    BY <1>3, Zenon DEF GetActiveBanByUserID
  <2>2. CASE Finish(h)
    <3>1. DBType' /\ AnswersFit'
      BY <2>1, <2>2, FinishKeeps, Zenon DEF DBInv, DBType
    <3> QED
      BY <2>1, <3>1, Zenon DEF DBInv, AttrsHaveApp, BansHaveUser, LiftsCounted
  <2>3. ASSUME NEW b \in bans, cmd' = [cmd EXCEPT ![h].op = "lift", ![h].found = b.id]
        PROVE  DBInv'
    <3> DEFINE c == [cmd[h] EXCEPT !.op = "lift", !.found = b.id]
    <3>1. b.id \in Nat
      BY Zenon DEF DBInv, DBType
    <3>2. c \in Cmd /\ c.op # "answer"
      BY <1>1, <3>1, Zenon DEF Cmd, Op
    <3>3. cmd' = [cmd EXCEPT ![h] = c]
      BY <1>1, <2>3, Zenon DEF DBInv, DBType
    <3> HIDE DEF c
    <3> QED
      BY <2>1, <3>2, <3>3, CommandGoesOn, Zenon
  <2> QED
    BY <1>3, <2>2, <2>3, Zenon DEF GetActiveBanByUserID
<1>4. ASSUME RevokeBan(h) PROVE DBInv'
  <2> DEFINE lifted(b) == [b EXCEPT !.active = FALSE, !.lifts = @ + 1]
             revoked(b) == IF b.id = cmd[h].found /\ b.active THEN lifted(b) ELSE b
  <2>1. bans' = {revoked(b) : b \in bans} /\ UNCHANGED <<apps, users, attrs, lastId>> /\ Finish(h)
    BY <1>4, Zenon DEF RevokeBan
  <2>2. ASSUME NEW b \in bans
        PROVE  /\ revoked(b) \in [id : Nat, user : Nat, born : Nat, active : BOOLEAN, lifts : Nat]
               /\ revoked(b).user = b.user /\ revoked(b).born = b.born
               /\ IF revoked(b).active THEN revoked(b).lifts = 0 ELSE revoked(b).lifts = 1
    <3>1. /\ b \in [id : Nat, user : Nat, born : Nat, active : BOOLEAN, lifts : Nat]
          /\ IF b.active THEN b.lifts = 0 ELSE b.lifts = 1
      BY Zenon DEF DBInv, DBType, LiftsCounted
    <3>2. CASE b.active
      <4>0. b.lifts = 0
        BY <3>1, <3>2, Zenon
      <4>1. /\ lifted(b) \in [id : Nat, user : Nat, born : Nat, active : BOOLEAN, lifts : Nat]
            /\ lifted(b).user = b.user /\ lifted(b).born = b.born
            /\ lifted(b).active = FALSE /\ lifted(b).lifts = 1
        <5>1. lifted(b) = [b EXCEPT !.active = FALSE, !.lifts = 1]
          BY <4>0
        <5>2. b \in [id : Nat, user : Nat, born : Nat, active : BOOLEAN, lifts : Nat]
          BY <3>1, Zenon
        <5> HIDE DEF lifted
        <5>3. lifted(b) = [id |-> b.id, user |-> b.user, born |-> b.born,
                           active |-> FALSE, lifts |-> 1]
          BY <5>1, <5>2, Zenon
        <5> QED
          BY <5>2, <5>3
      <4> HIDE DEF lifted
      <4> QED
        BY <3>1, <3>2, <4>1, Zenon
    <3> QED
      BY <3>1, <3>2, Zenon
  <2> HIDE DEF revoked
  <2>3. BansHaveUser' /\ LiftsCounted'
    BY <2>1, <2>2 DEF DBInv, BansHaveUser, LiftsCounted
  <2>4. DBType' /\ AnswersFit'
    BY <2>1, <2>2, FinishKeeps, Zenon DEF DBInv, DBType
  <2> QED
    BY <2>1, <2>3, <2>4, Zenon DEF DBInv, AttrsHaveApp
<1> QED
  BY <1>2, <1>3, <1>4

\* One step of a command.
LEMMA DBInvStep == DBInv /\ [DBNext]_dbVars => DBInv'
<1> SUFFICES ASSUME DBInv, [DBNext]_dbVars PROVE DBInv'
  BY Zenon
<1>1. CASE UNCHANGED dbVars
  BY <1>1, Zenon DEF dbVars, DBInv, DBType, AttrsHaveApp, BansHaveUser, AnswersFit, LiftsCounted
<1>2. ASSUME NEW h \in DCmd, CommandEnds(h) PROVE DBInv'
  <2>1. UNCHANGED <<apps, users, attrs, bans, lastId>> /\ Finish(h)
    BY <1>2, Zenon DEF CommandEnds
  <2>2. DBType' /\ AnswersFit'
    BY <2>1, FinishKeeps, Zenon DEF DBInv, DBType
  <2> QED
    BY <2>1, <2>2, Zenon DEF DBInv, AttrsHaveApp, BansHaveUser, LiftsCounted
<1> QED
  BY <1>1, <1>2, CreateStep, DeleteStep, LookupStep, AttributeStep, BanStep, Zenon DEF DBNext

\* What every statement of every command preserves (sql_db.go).
THEOREM DBInvariant == DBSpec => []DBInv
<1> QED
  BY DBInvInit, DBInvStep, PTL DEF DBSpec

\* For any names, connections, commands and numbers of rows: what refers to an
\* application or user by its id does not outlive it or pass to one created later
\* under the same name: attributes and answers of an application, bans of a user.
\* A player's attributes hold the user's name and do pass (sql_db.go, getAppID and
\* GetUser followed by their statements).
THEOREM ReCreationIsClean == DBSpec => []NothingCrossesReCreation
<1>1. DBInv => NothingCrossesReCreation
  BY Zenon DEF DBInv, AttrsHaveApp, BansHaveUser, AnswersFit, NothingCrossesReCreation
<1> QED
  BY <1>1, DBInvariant, PTL

\* However many commands revoke a ban at once, at most one of them is told that it did
\* (sql_db.go, RevokeBan).
THEOREM BansAreLiftedOnce == DBSpec => []LiftedOnce
<1>1. DBInv => LiftedOnce
  BY DEF DBInv, DBType, LiftsCounted, LiftedOnce
<1> QED
  BY <1>1, DBInvariant, PTL

-----------------------------------------------------------------------------
(* Migrations.                                                             *)

INSTANCE WellFoundedInduction

MgType ==
  /\ atomic \in BOOLEAN
  /\ schema \in [Migration -> 0 .. MigrationCalls]
  /\ tracker \subseteq Migration
  /\ mgAt \in [Server -> {"down", "loop", "up", "commit", "ready"}]
  /\ appliedSet \in [Server -> SUBSET Migration]
  /\ current \in [Server -> Nat \ {0}]
  /\ upDone \in [Server -> 0 .. MigrationCalls]
  /\ rowDone \in [Server -> BOOLEAN]

\* What holds of each server.
ServerInv(s) ==
  /\ appliedSet[s] \subseteq tracker
  /\ mgAt[s] \in {"loop", "up", "commit"} => 1 .. (current[s] - 1) \subseteq tracker
  /\ mgAt[s] \in {"up", "commit"} => current[s] \in Migration
  /\ mgAt[s] = "commit" => atomic /\ rowDone[s] /\ upDone[s] = MigrationCalls
  /\ mgAt[s] \in {"down", "loop", "ready"} => upDone[s] = 0
  /\ ~atomic /\ mgAt[s] = "up" => upDone[s] <= schema[current[s]]

MgInv ==
  /\ MgType
  /\ SchemaMatchesTracker
  /\ TrackedIsComplete
  /\ \A s \in Server : ServerInv(s)

USE MgAssumption DEF Migration

\* A set of pending migrations has a first one.
LEMMA FirstPending ==
  ASSUME NEW S \in SUBSET Nat, S # {}
  PROVE  /\ (CHOOSE m \in S : \A n \in S : m <= n) \in S
         /\ \A n \in S : (CHOOSE m \in S : \A k \in S : m <= k) <= n
<1> DEFINE R == OpToRel(<, Nat)
<1>1. PICK m \in S : \A n \in S : ~(<<n, m>> \in R)
  <2>1. IsWellFoundedOn(R, Nat)
    BY NatLessThanWellFounded, Zenon
  <2> HIDE DEF R
  <2> QED
    BY <2>1, WFMin, Zenon
<1>2. \A n, k \in Nat : n < k => <<n, k>> \in R
  BY Zenon DEF OpToRel
<1> HIDE DEF R
<1>3. ASSUME NEW n \in S PROVE m <= n
  <2>1. ~(n < m)
    BY <1>1, <1>2, Zenon
  <2> QED
    BY <2>1
<1> QED
  BY <1>3, Zenon

\* No server is up.
LEMMA MgInvInit == MgInit => MgInv
BY DEF MgInit, MgInv, MgType, SchemaMatchesTracker, TrackedIsComplete, Completed, ServerInv

\* A step that only adds to the tracker and to the schema leaves the invariant of
\* the servers alone that do not take it.
LEMMA OtherServersKept ==
  ASSUME NEW t \in Server, MgType, MgType', ServerInv(t),
         atomic' = atomic, tracker \subseteq tracker',
         \A m \in Migration : schema[m] <= schema'[m],
         appliedSet'[t] = appliedSet[t], mgAt'[t] = mgAt[t], current'[t] = current[t],
         upDone'[t] = upDone[t], rowDone'[t] = rowDone[t]
  PROVE  ServerInv(t)'
<1>1. ASSUME ~atomic', mgAt'[t] = "up" PROVE upDone'[t] <= schema'[current'[t]]
  <2>1. current[t] \in Migration /\ upDone[t] <= schema[current[t]]
    BY <1>1, Zenon DEF ServerInv
  <2>2. /\ upDone[t] \in Int /\ schema[current[t]] \in Int /\ schema'[current[t]] \in Int
        /\ schema[current[t]] <= schema'[current[t]]
    BY <2>1 DEF MgType
  <2> QED
    BY <2>1, <2>2
<1>2. mgAt'[t] \in {"loop", "up", "commit"} => 1 .. (current'[t] - 1) \subseteq tracker'
  BY Zenon DEF ServerInv
<1> QED
  BY <1>1, <1>2, Zenon DEF ServerInv

\* The server exits or is killed: its transaction is undone.
LEMMA BackToDown ==
  ASSUME MgInv, NEW s \in Server,
         UNCHANGED <<atomic, schema, tracker, appliedSet, current>>,
         mgAt' = [mgAt EXCEPT ![s] = "down"],
         upDone' = [upDone EXCEPT ![s] = 0], rowDone' = [rowDone EXCEPT ![s] = FALSE]
  PROVE  MgInv'
<1> USE DEF MgInv
<1>1. MgType'
  <2>1. mgAt' \in [Server -> {"down", "loop", "up", "commit", "ready"}]
    BY Zenon DEF MgType
  <2>2. upDone' \in [Server -> 0 .. MigrationCalls] /\ rowDone' \in [Server -> BOOLEAN]
    BY DEF MgType
  <2> QED
    BY <2>1, <2>2, Zenon DEF MgType
<1>2. ServerInv(s)'
  BY Zenon DEF MgType, ServerInv
<1>3. ASSUME NEW t \in Server \ {s} PROVE ServerInv(t)'
  <2>1. mgAt'[t] = mgAt[t] /\ upDone'[t] = upDone[t] /\ rowDone'[t] = rowDone[t]
    BY Zenon DEF MgType
  <2>2. \A m \in Migration : schema[m] <= schema'[m]
    BY DEF MgType
  <2> QED
    BY <1>1, <2>1, <2>2, OtherServersKept, Zenon
<1>4. SchemaMatchesTracker' /\ TrackedIsComplete'
  BY Zenon DEF SchemaMatchesTracker, TrackedIsComplete, Completed
<1> QED
  BY <1>1, <1>2, <1>3, <1>4, Zenon

\* The loop of the runner turns to the migration after the current one.
Advanced(s) ==
  /\ mgAt' = [mgAt EXCEPT ![s] = "loop"]
  /\ current' = [current EXCEPT ![s] = @ + 1]
  /\ upDone' = [upDone EXCEPT ![s] = 0] /\ rowDone' = [rowDone EXCEPT ![s] = FALSE]

\* A server that is done with a migration goes on to the next.
LEMMA OnToTheNext ==
  ASSUME MgInv, NEW s \in Server, mgAt[s] \in {"up", "commit"}, current[s] \in Migration,
         UNCHANGED <<atomic, appliedSet>>, tracker' = tracker \cup {current[s]}, Advanced(s),
         schema' \in [Migration -> 0 .. MigrationCalls],
         \A m \in Migration : schema[m] <= schema'[m],
         SchemaMatchesTracker', TrackedIsComplete'
  PROVE  MgInv'
<1> USE DEF MgInv
<1>1. MgType'
  <2>1. current' \in [Server -> Nat \ {0}]
    <3>1. current \in [Server -> Nat \ {0}]
      BY Zenon DEF MgType
    <3>2. current[s] \in Nat \ {0}
      BY <3>1, Zenon
    <3>3. current[s] + 1 \in Nat \ {0}
      BY <3>2
    <3> QED
      BY <3>1, <3>3, Zenon DEF Advanced
  <2>2. /\ mgAt' \in [Server -> {"down", "loop", "up", "commit", "ready"}]
        /\ upDone' \in [Server -> 0 .. MigrationCalls] /\ rowDone' \in [Server -> BOOLEAN]
    BY DEF MgType, Advanced
  <2> QED
    BY <2>1, <2>2, Zenon DEF MgType
<1>2. ServerInv(s)'
  <2>1. 1 .. (current'[s] - 1) \subseteq tracker'
    <3>1. current[s] \in Nat /\ current'[s] = current[s] + 1
      BY Zenon DEF MgType, Advanced
    <3>2. 1 .. (current[s] - 1) \subseteq tracker
      BY Zenon DEF ServerInv
    <3> QED
      BY <3>1, <3>2
  <2> QED
    BY <2>1, Zenon DEF MgType, ServerInv, Advanced
<1>3. ASSUME NEW t \in Server \ {s} PROVE ServerInv(t)'
  <2>1. /\ mgAt'[t] = mgAt[t] /\ current'[t] = current[t]
        /\ upDone'[t] = upDone[t] /\ rowDone'[t] = rowDone[t]
    BY Zenon DEF MgType, Advanced
  <2> QED
    BY <1>1, <2>1, OtherServersKept, Zenon
<1> QED
  BY <1>1, <1>2, <1>3, Zenon

\* One step of a server.
LEMMA MgInvStep ==
  ASSUME MgInv, [MgNext]_mgVars PROVE MgInv'
<1> USE DEF MgInv
<1>1. CASE UNCHANGED mgVars
  BY <1>1, Zenon DEF mgVars, MgType, SchemaMatchesTracker, TrackedIsComplete, Completed, ServerInv
<1>2. ASSUME NEW s \in Server, GetAppliedMigrations(s) PROVE MgInv'
  <2>1. MgType'
    BY <1>2 DEF GetAppliedMigrations, At, MgType
  <2>2. ServerInv(s)'
    BY <1>2 DEF GetAppliedMigrations, At, MgType, ServerInv
  <2>3. \A m \in Migration : schema[m] <= schema'[m]
    BY <1>2 DEF GetAppliedMigrations, MgType
  <2>4. ASSUME NEW t \in Server \ {s} PROVE ServerInv(t)'
    <3>1. /\ appliedSet'[t] = appliedSet[t] /\ mgAt'[t] = mgAt[t] /\ current'[t] = current[t]
          /\ UNCHANGED <<atomic, tracker, upDone, rowDone>>
      BY <1>2, Zenon DEF GetAppliedMigrations, At, MgType
    <3> QED
      BY <2>1, <2>3, <3>1, OtherServersKept, Zenon
  <2>5. SchemaMatchesTracker' /\ TrackedIsComplete'
    BY <1>2, Zenon DEF GetAppliedMigrations, SchemaMatchesTracker, TrackedIsComplete, Completed
  <2> QED
    BY <2>1, <2>2, <2>4, <2>5, Zenon
<1>3. ASSUME NEW s \in Server, NextPending(s) PROVE MgInv'
  <2> DEFINE pending == {m \in current[s] .. Last : m \notin appliedSet[s]}
             first == CHOOSE m \in pending : \A n \in pending : m <= n
  <2>1. pending \in SUBSET Nat
    BY DEF MgType
  <2>2. pending # {} => first \in pending /\ \A n \in pending : first <= n
    BY <2>1, FirstPending, Zenon
  <2>3. /\ UNCHANGED <<atomic, schema, tracker, writer, appliedSet, upDone, rowDone>>
        /\ mgAt[s] = "loop"
        /\ \/ pending = {} /\ mgAt' = [mgAt EXCEPT ![s] = "ready"] /\ UNCHANGED current
           \/ /\ pending # {} /\ mgAt' = [mgAt EXCEPT ![s] = "up"]
              /\ current' = [current EXCEPT ![s] = first]
    BY <1>3, Zenon DEF NextPending
  <2>4. ASSUME pending # {}
        PROVE  first \in Migration /\ \A m \in current[s] .. (first - 1) : m \in appliedSet[s]
    <3>1. current[s] \in Nat \ {0}
      BY Zenon DEF MgType
    <3>2. first \in current[s] .. Last /\ \A n \in pending : first <= n
      BY <2>2, <2>4, Zenon
    <3>3. ASSUME NEW m \in current[s] .. (first - 1) PROVE m \in appliedSet[s]
      <4>1. m \notin pending
        BY <3>1, <3>2
      <4> QED
        BY <3>1, <3>2, <4>1
    <3> QED
      BY <3>1, <3>2, <3>3
  <2> HIDE DEF pending, first
  <2>5. MgType'
    <3>1. mgAt' \in [Server -> {"down", "loop", "up", "commit", "ready"}]
      BY <2>3, Zenon DEF MgType
    <3>2. current' \in [Server -> Nat \ {0}]
      <4>1. current \in [Server -> Nat \ {0}]
        BY Zenon DEF MgType
      <4>2. pending # {} => first \in Nat \ {0}
        BY <2>4
      <4> QED
        BY <2>3, <4>1, <4>2, Zenon
    <3> QED
      BY <2>3, <3>1, <3>2, Zenon DEF MgType
  <2>6. ServerInv(s)'
    <3>1. CASE pending = {}
      BY <2>3, <3>1, Zenon DEF MgType, ServerInv
    <3>2. CASE pending # {}
      <4>1. mgAt'[s] = "up" /\ current'[s] = first /\ upDone'[s] = 0
        BY <2>3, <3>2, Zenon DEF MgType, ServerInv
      <4>2. 1 .. (first - 1) \subseteq tracker
        <5>1. SUFFICES ASSUME NEW m \in 1 .. (first - 1) PROVE m \in tracker
          BY Zenon
        <5>2. m < current[s] => m \in 1 .. (current[s] - 1)
          BY <2>4, <3>2 DEF MgType
        <5>3. m >= current[s] => m \in appliedSet[s]
          BY <2>4, <3>2 DEF MgType
        <5>4. 1 .. (current[s] - 1) \subseteq tracker /\ appliedSet[s] \subseteq tracker
          BY <2>3, Zenon DEF ServerInv
        <5>5. m < current[s] \/ m >= current[s]
          BY <2>4, <3>2 DEF MgType
        <5> QED
          BY <5>2, <5>3, <5>4, <5>5, Zenon
      <4>3. first \in Migration
        BY <2>4, <3>2, Zenon
      <4>4. 0 <= schema'[first]
        BY <2>3, <4>3 DEF MgType
      <4>5. appliedSet'[s] \subseteq tracker'
        BY <2>3, Zenon DEF ServerInv
      <4> QED
        BY <2>3, <4>1, <4>2, <4>3, <4>4, <4>5, Zenon DEF ServerInv
    <3> QED
      BY <3>1, <3>2, Zenon
  <2>7. ASSUME NEW t \in Server \ {s} PROVE ServerInv(t)'
    <3>1. mgAt'[t] = mgAt[t] /\ current'[t] = current[t]
      BY <2>3, Zenon DEF MgType
    <3>2. \A m \in Migration : schema[m] <= schema'[m]
      BY <2>3 DEF MgType
    <3> QED
      BY <2>3, <2>5, <3>1, <3>2, OtherServersKept, Zenon
  <2>8. SchemaMatchesTracker' /\ TrackedIsComplete'
    BY <2>3, Zenon DEF SchemaMatchesTracker, TrackedIsComplete, Completed
  <2> QED
    BY <2>5, <2>6, <2>7, <2>8
<1>4. ASSUME NEW s \in Server, UpFails(s) \/ ServerFails(s) PROVE MgInv'
  BY <1>4, BackToDown, Zenon DEF UpFails, ServerFails, At, RollBack
<1>5. ASSUME NEW s \in Server, UpCall(s) PROVE MgInv'
  <2> DEFINE m == current[s]
  <2>1. /\ mgAt[s] = "up" /\ m \in Migration
        /\ UNCHANGED <<atomic, tracker, appliedSet, current, rowDone, mgAt>>
        /\ upDone' = [upDone EXCEPT ![s] = @ + 1] /\ upDone'[s] = upDone[s] + 1
        /\ upDone[s] < MigrationCalls
    BY <1>5, Zenon DEF UpCall, MgType, ServerInv
  <2>2. schema' = IF ~atomic /\ schema[m] < upDone[s] + 1
                  THEN [schema EXCEPT ![m] = upDone[s] + 1] ELSE schema
    BY <1>5, <2>1, Zenon DEF UpCall
  <2>3. MgType'
    <3>1. upDone[s] + 1 \in 0 .. MigrationCalls
      BY <2>1 DEF MgType
    <3>2. upDone' \in [Server -> 0 .. MigrationCalls]
      BY <2>1, <3>1, Zenon DEF MgType
    <3>3. schema' \in [Migration -> 0 .. MigrationCalls]
      BY <2>2, <3>1, Zenon DEF MgType
    <3> QED
      BY <2>1, <3>2, <3>3, Zenon DEF MgType
  <2>4. \A n \in Migration : schema[n] <= schema'[n]
    BY <2>1, <2>2 DEF MgType
  <2>5. ServerInv(s)'
    <3>1. ServerInv(s)
      BY Zenon
    <3>2. ~atomic => upDone'[s] <= schema'[m]
      <4>1. schema[m] \in Nat /\ upDone[s] \in Nat /\ schema \in [Migration -> 0 .. MigrationCalls]
        BY <2>1 DEF MgType
      <4> QED
        BY <2>1, <2>2, <4>1
    <3> HIDE DEF MgInv
    <3> QED
      BY <2>1, <3>1, <3>2, Zenon DEF ServerInv
  <2>6. ASSUME NEW t \in Server \ {s} PROVE ServerInv(t)'
    <3>1. upDone'[t] = upDone[t]
      BY <2>1, Zenon DEF MgType
    <3> QED
      BY <2>1, <2>3, <2>4, <3>1, OtherServersKept, Zenon
  <2>7. SchemaMatchesTracker'
    BY <2>1, <2>2, Zenon DEF SchemaMatchesTracker, Completed
  <2>8. TrackedIsComplete'
    BY <2>1, <2>3, <2>4 DEF TrackedIsComplete, MgType
  <2> QED
    BY <2>3, <2>5, <2>6, <2>7, <2>8, Zenon
<1>6. ASSUME NEW s \in Server, MarkMigrationApplied(s) PROVE MgInv'
  <2>1. CASE current[s] \in tracker
    <3>1. /\ UNCHANGED <<atomic, schema, tracker, appliedSet, current>>
          /\ mgAt' = [mgAt EXCEPT ![s] = "down"]
          /\ upDone' = [upDone EXCEPT ![s] = 0] /\ rowDone' = [rowDone EXCEPT ![s] = FALSE]
      BY <1>6, <2>1, Zenon DEF MarkMigrationApplied, RollBack
    <3> QED
      BY <3>1, BackToDown, Zenon
  <2>2. CASE current[s] \notin tracker /\ atomic
    <3>1. /\ mgAt[s] = "up" /\ upDone[s] = MigrationCalls
          /\ UNCHANGED <<atomic, schema, tracker, appliedSet, current, upDone>>
          /\ mgAt' = [mgAt EXCEPT ![s] = "commit"]
          /\ rowDone' = [rowDone EXCEPT ![s] = TRUE]
      BY <1>6, <2>2, Zenon DEF MarkMigrationApplied
    <3>2. MgType'
      BY <3>1, Zenon DEF MgType
    <3>3. ServerInv(s)'
      BY <2>2, <3>1, Zenon DEF MgType, ServerInv
    <3>4. ASSUME NEW t \in Server \ {s} PROVE ServerInv(t)'
      <4>1. mgAt'[t] = mgAt[t] /\ rowDone'[t] = rowDone[t]
        BY <3>1, Zenon DEF MgType
      <4>2. \A m \in Migration : schema[m] <= schema'[m]
        BY <3>1 DEF MgType
      <4> QED
        BY <3>1, <3>2, <4>1, <4>2, OtherServersKept, Zenon
    <3>5. SchemaMatchesTracker' /\ TrackedIsComplete'
      BY <3>1, Zenon DEF SchemaMatchesTracker, TrackedIsComplete, Completed
    <3> QED
      BY <3>2, <3>3, <3>4, <3>5
  <2>3. CASE current[s] \notin tracker /\ ~atomic
    <3>1. /\ mgAt[s] = "up" /\ upDone[s] = MigrationCalls
          /\ UNCHANGED <<atomic, appliedSet, schema>>
          /\ tracker' = tracker \cup {current[s]}
          /\ Advanced(s)
      BY <1>6, <2>3, Zenon DEF MarkMigrationApplied, RollBack, Advanced
    <3>2. current[s] \in Migration /\ schema[current[s]] = MigrationCalls
      BY <2>3, <3>1 DEF MgType, ServerInv
    <3>3. \A m \in Migration : schema[m] <= schema'[m]
      BY <3>1 DEF MgType
    <3>4. schema' \in [Migration -> 0 .. MigrationCalls]
      BY <3>1, Zenon DEF MgType
    <3>5. SchemaMatchesTracker' /\ TrackedIsComplete'
      BY <2>3, <3>1, <3>2, Zenon DEF SchemaMatchesTracker, TrackedIsComplete
    <3> QED
      BY <3>1, <3>2, <3>3, <3>4, <3>5, OnToTheNext, Zenon
  <2> QED
    BY <2>1, <2>2, <2>3, Zenon DEF MgType
<1>7. ASSUME NEW s \in Server, CommitMigration(s) PROVE MgInv'
  <2>1. /\ mgAt[s] = "commit" /\ rowDone[s] /\ atomic /\ current[s] \in Migration
        /\ upDone[s] = MigrationCalls
    BY <1>7, Zenon DEF CommitMigration, At, ServerInv
  <2>2. /\ UNCHANGED <<atomic, appliedSet>>
        /\ schema' = [schema EXCEPT ![current[s]] = MigrationCalls]
        /\ tracker' = tracker \cup {current[s]}
        /\ Advanced(s)
    BY <1>7, <2>1, Zenon DEF CommitMigration, At, RollBack, Advanced
  <2>3. schema' \in [Migration -> 0 .. MigrationCalls]
    BY <2>1, <2>2, Zenon DEF MgType
  <2>4. \A m \in Migration : schema[m] <= schema'[m]
    BY <2>1, <2>2 DEF MgType
  <2>5. schema' = Completed(tracker')
    BY <2>1, <2>2, Zenon DEF SchemaMatchesTracker, Completed
  <2>6. SchemaMatchesTracker' /\ TrackedIsComplete'
    <3>1. tracker' \subseteq Migration
      BY <2>1, <2>2, Zenon DEF MgType
    <3> QED
      BY <2>5, <3>1, Zenon DEF SchemaMatchesTracker, TrackedIsComplete, Completed
  <2> QED
    BY <2>1, <2>2, <2>3, <2>4, <2>6, OnToTheNext, Zenon
<1> QED
  BY <1>1, <1>2, <1>3, <1>4, <1>5, <1>6, <1>7, Zenon DEF MgNext, MgStep

\* What every step of a server's start, RunPending with its failures and kills,
\* preserves (migration_runner.go).
THEOREM MgInvariant == MgSpec => []MgInv
<1>1. MgInv /\ [MgNext]_mgVars => MgInv'
  BY MgInvStep, Zenon
<1> QED
  BY MgInvInit, <1>1, PTL DEF MgSpec

\* For any servers, migrations and failures: where Up and the tracker's row
\* share a transaction (apply in migration_runner.go), the committed schema is
\* exactly that of the migrations in the tracker.
THEOREM MigrationsAreAtomic == MgSpec => []SchemaMatchesTracker
<1>1. MgInv => SchemaMatchesTracker
  BY Zenon DEF MgInv
<1> QED
  BY <1>1, MgInvariant, PTL

\* On either path, a migration in the tracker has been run to its end, and a
\* migration is run only when all before it are in the tracker
\* (migration_runner.go, RunPending).
THEOREM MigrationsAreOrdered == MgSpec => [](TrackedIsComplete /\ EarlierFirst)
<1>1. MgInv => TrackedIsComplete /\ EarlierFirst
  BY Zenon DEF MgInv, ServerInv, EarlierFirst
<1> QED
  BY <1>1, MgInvariant, PTL
=============================================================================
