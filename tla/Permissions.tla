---------------------------- MODULE Permissions -----------------------------
(***************************************************************************)
(* Who may run a command: the levels of commands (loadCommandLevels in     *)
(* internal/config/config.go), the level a logon stamps into the session   *)
(* (logon_service.go), the Authorizer, and the handlers that ask it.       *)
(*                                                                         *)
(* A handler acts for the user its connection is bound to, and the level   *)
(* it reads is kept under that user's name in the session store, where     *)
(* logons, teardowns, reapers and administrators write at the same time.   *)
(* The store's calls do not fail here, as those of the in-memory one.      *)
(*                                                                         *)
(* The environment may set the level of a listed command to anything, or   *)
(* to no number.  Levels 1 and 2 stand for 20 and 80.  Logon, JoinGroup,   *)
(* LeaveGroup and the queries about users, groups, movies and the server   *)
(* ask for no level; they are not commands here.                           *)
(***************************************************************************)
EXTENDS Integers

CONSTANTS
  PConn,     \* connections
  PUser,     \* user names
  Unset, Absent

Level == -1 .. 2
DefaultAdminLevel == 2

\* One command of each kind that defaultCommandLevels tells apart, and one
\* that it does not list.
DefaultCommandLevels ==
  [c \in {"DBPlayer.setAttribute", "DBAdmin.createUser"} |->
     IF c = "DBPlayer.setAttribute" THEN 1 ELSE 2]

Command == {"DBPlayer.setAttribute", "DBAdmin.createUser", "unlisted"}

ASSUME PeAssumption == Absent \notin PUser /\ Absent \notin Level

VARIABLES
  env,       \* env[c]: the value of USERLEVEL_c, Unset if it is no number
  bound,     \* bound[c]: the user in the pool's slot of c; Absent: its address
  handler,   \* handler[c]: what its goroutine does, or the command that is past CanRun
  logon,     \* logon[c]: the user and level of its Logon, and who it was before
  sessions,  \* users with a session
  levels,    \* levels[u]: #userLevel in the store, or Absent
  granted    \* granted[c]: the level that the last Logon of c itself was given

peVars == <<env, bound, handler, logon, sessions, levels, granted>>

NoLogon == [user |-> Absent, level |-> 0, from |-> Absent]

PeInit ==
  /\ env \in [Command -> {Unset} \cup Level]
  /\ bound = [c \in PConn |-> Absent] /\ handler = [c \in PConn |-> "reading"]
  /\ logon = [c \in PConn |-> NoLogon]
  /\ sessions = {} /\ levels = [u \in PUser |-> Absent]
  /\ granted = [c \in PConn |-> 0]

\* A listed command takes the level of the environment, if it is a number;
\* others cannot be added.
LoadCommandLevels ==
  [c \in DOMAIN DefaultCommandLevels |->
     IF env[c] \in Level THEN env[c] ELSE DefaultCommandLevels[c]]

\* The level in the store; 0 for a user without one, and for an address.
UserLevel(u) == IF u \in PUser /\ levels[u] # Absent THEN levels[u] ELSE 0
CanRun(u, command) ==
  command \in DOMAIN LoadCommandLevels /\ UserLevel(u) >= LoadCommandLevels[command]

AdminLevel ==
  IF "DBAdmin.createUser" \in DOMAIN LoadCommandLevels
  THEN LoadCommandLevels["DBAdmin.createUser"] ELSE DefaultAdminLevel

OwnerOrAdmin(u, target) == target = u \/ UserLevel(u) >= AdminLevel

-----------------------------------------------------------------------------
(* Logon, from establishSession on.                                        *)

HandlerGoes(c, from, to) == handler[c] = from /\ handler' = [handler EXCEPT ![c] = to]

Forget(c) == logon' = [logon EXCEPT ![c] = NoLogon]

\* UnregisterConnection of the session store: the session and its attributes.
Unregister(u) ==
  /\ sessions' = sessions \ {u}
  /\ levels' = [w \in PUser |-> IF w = u THEN Absent ELSE levels[w]]

\* The credentials are those of u, whose level is l then; a level changed later
\* waits for another Logon.  A user with a session is refused.
LogonChecks(c, u, l) ==
  /\ HandlerGoes(c, "reading", "remap")
  /\ u # bound[c] => u \notin sessions
  /\ logon' = [logon EXCEPT ![c] = [user |-> u, level |-> l, from |-> bound[c]]]
  /\ UNCHANGED <<env, bound, sessions, levels, granted>>

MutRemapUnguarded(c) ==
  /\ HandlerGoes(c, "remap", "unregister")
  /\ bound' = [bound EXCEPT ![c] = logon[c].user]
  /\ UNCHANGED <<env, logon, sessions, levels, granted>>

\* RemapClientID: refused if the slot is another connection's.
LogonRemaps(c) ==
  /\ IF \E d \in PConn \ {c} : bound[d] = logon[c].user
     THEN HandlerGoes(c, "remap", "reading") /\ Forget(c) /\ UNCHANGED bound
     ELSE /\ HandlerGoes(c, "remap", "unregister") /\ UNCHANGED logon
          /\ bound' = [bound EXCEPT ![c] = logon[c].user]
  /\ UNCHANGED <<env, sessions, levels, granted>>

LogonUnregisters(c) ==
  /\ HandlerGoes(c, "unregister", "register") /\ Unregister(logon[c].from)
  /\ UNCHANGED <<env, bound, logon, granted>>

LogonRegisters(c) ==
  /\ HandlerGoes(c, "register", "stamp") /\ sessions' = sessions \cup {logon[c].user}
  /\ UNCHANGED <<env, bound, logon, levels, granted>>

StampUserLevel(c) ==
  /\ HandlerGoes(c, "stamp", "reading")
  /\ levels' = [levels EXCEPT ![logon[c].user] = logon[c].level]
  /\ granted' = [granted EXCEPT ![c] = logon[c].level]
  /\ Forget(c) /\ UNCHANGED <<env, bound, sessions>>

-----------------------------------------------------------------------------
(* The end of a session.                                                   *)

\* The idle checker, a kill timer or an administrator: the session goes and
\* the socket is closed, but the slot stays until the connection's goroutine
\* returns from its handler.
Reap(u) ==
  /\ u \in sessions /\ Unregister(u)
  /\ UNCHANGED <<env, bound, handler, logon, granted>>

\* The deferred teardown: the pool first, and the session after the script of
\* onDisconnect.
Teardown(c) ==
  /\ handler[c] \in {"reading"} \cup Command
  /\ handler' = [handler EXCEPT ![c] = "flush"]
  /\ logon' = [logon EXCEPT ![c].from = bound[c]] /\ bound' = [bound EXCEPT ![c] = Absent]
  /\ UNCHANGED <<env, sessions, levels, granted>>

TeardownSession(c) ==
  /\ HandlerGoes(c, "flush", "gone") /\ Unregister(logon[c].from) /\ Forget(c)
  /\ UNCHANGED <<env, bound, granted>>

-----------------------------------------------------------------------------
(* Commands.                                                               *)

\* handleDBCommand, and the handlers of mail, kill timers and user.delete, which
\* check the level in the same way.
HandleDBCommand(c, command) ==
  /\ HandlerGoes(c, "reading", command) /\ CanRun(bound[c], command)
  /\ UNCHANGED <<env, bound, logon, sessions, levels, granted>>

\* The DBPlayer handlers: the owner of the data, or an administrator.
DBPlayerCommand(c, target) ==
  /\ OwnerOrAdmin(bound[c], target)
  /\ HandlerGoes(c, "DBPlayer.setAttribute", "reading")
  /\ UNCHANGED <<env, bound, logon, sessions, levels, granted>>

\* The DBAdmin and DBApplication handlers ask no more than CanRun, whoever's
\* data they change.
DBAdminCommand(c) ==
  /\ HandlerGoes(c, "DBAdmin.createUser", "reading")
  /\ UNCHANGED <<env, bound, logon, sessions, levels, granted>>

\* A field is missing, access is denied, or the database fails.
CommandFails(c) ==
  /\ handler[c] \in Command /\ handler' = [handler EXCEPT ![c] = "reading"]
  /\ UNCHANGED <<env, bound, logon, sessions, levels, granted>>

PeNext ==
  \/ \E c \in PConn :
       \/ \E u \in PUser, l \in Level : LogonChecks(c, u, l)
       \/ LogonRemaps(c) \/ LogonUnregisters(c) \/ LogonRegisters(c) \/ StampUserLevel(c)
       \/ Teardown(c) \/ TeardownSession(c)
       \/ \E command \in Command : HandleDBCommand(c, command)
       \/ \E target \in PUser : DBPlayerCommand(c, target)
       \/ DBAdminCommand(c) \/ CommandFails(c)
  \/ \E u \in PUser : Reap(u)

PeSpec == PeInit /\ [][PeNext]_peVars

-----------------------------------------------------------------------------
\* A level that the connection was granted itself, or that asks for nothing.
Clears(c, level) == granted[c] >= level \/ 0 >= level

\* "Commands without a configured level are denied for everyone" and "cross-user
\* player-data access needs the same privilege as user administration": a handler
\* that is past CanRun has a listed command, and what CanRun and OwnerOrAdmin let
\* it do its own Logon entitles it to, although they read a level that is kept
\* under the user's name while sessions end and other connections log on as that
\* user.  It rests on the pool's slot, which stays taken until the handler has
\* returned.
ActsWithOwnLevel ==
  \A c \in PConn : handler[c] \in Command =>
    /\ handler[c] \in DOMAIN LoadCommandLevels
    /\ Clears(c, LoadCommandLevels[handler[c]])
    /\ \A target \in PUser : target # bound[c] /\ OwnerOrAdmin(bound[c], target)
         => Clears(c, LoadCommandLevels["DBAdmin.createUser"])
=============================================================================
