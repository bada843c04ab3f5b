---------------------------- MODULE TimerManager ----------------------------
(***************************************************************************)
(* The kill timers (internal/adapters/inbound/timer_manager.go).  The      *)
(* manager keeps the server's timer and one timer per user; a lock covers  *)
(* the two.  A timer that has fired runs its callback in a goroutine of    *)
(* its own: Stop on it is too late, and the callback takes the lock only   *)
(* after commands that were there first.                                   *)
(*                                                                         *)
(* When a timer fires is up to the clock, so minutes do not appear beyond  *)
(* the check that refuses the non-positive ones.  The server's callback    *)
(* sends a signal to main over a channel of one place; what the callback   *)
(* of a user does to the session is the business of SessionLifecycle.      *)
(***************************************************************************)
EXTENDS Integers

CONSTANTS
  KUser,      \* users that a kill timer may be set for
  KTimer,     \* time.Timer objects, in the order of their creation: 1..n
  KMinutes,   \* what a command may ask for
  KNone       \* no timer; also the target of a timer not created yet

ASSUME TimerAssumption ==
  /\ KTimer \subseteq Nat
  /\ KNone \notin KTimer /\ KNone \notin KUser /\ KNone # "server"
  /\ "server" \notin KUser

VARIABLES
  serverTimer,  \* tm.serverTimer
  userTimers,   \* tm.userTimers; KNone for a missing key
  timer,        \* timer[t]: where the timer or its callback is
  target,       \* target[t]: the user it is for, or "server"
  sigs,         \* signals in the channel c of main
  ksMain,       \* where main is: before, at or after <-c
  missed,       \* missed[t]: timers of t's user that were still to call back when t was set
  takenBy       \* takenBy[t]: the timer whose callback deleted the entry of t

history == <<missed, takenBy>>
kVars == <<serverTimer, userTimers, timer, target, sigs, ksMain, history>>

KInit ==
  /\ serverTimer = KNone
  /\ userTimers = [u \in KUser |-> KNone]
  /\ timer = [t \in KTimer |-> "unused"]
  /\ target = [t \in KTimer |-> KNone]
  /\ sigs = 0
  /\ ksMain = "booting"
  /\ missed = [t \in KTimer |-> {}]
  /\ takenBy = [t \in KTimer |-> KNone]

\* time.AfterFunc: the next timer, armed.
Fresh(t) == timer[t] = "unused" /\ \A s \in KTimer : s < t => timer[s] # "unused"

\* Stop on a set of timers: those that have fired run on.
Stopped(ts) == [t \in KTimer |-> IF t \in ts /\ timer[t] = "armed" THEN "stopped" ELSE timer[t]]

AfterFunc(t, stop, whom) ==
  /\ Fresh(t)
  /\ timer' = [Stopped(stop) EXCEPT ![t] = "armed"]
  /\ target' = [target EXCEPT ![t] = whom]

-----------------------------------------------------------------------------
(* The commands.  A level that is too low, a missing manager, a malformed  *)
(* argument: the command answers an error and nothing happens.             *)

SetServerKillTimer(t) == AfterFunc(t, {serverTimer}, "server") /\ serverTimer' = t

HandleServerSetKillTimer(minutes) ==
  /\ minutes > 0
  /\ \E t \in KTimer : SetServerKillTimer(t)
  /\ UNCHANGED <<userTimers, sigs, ksMain, history>>

CancelServerKillTimer ==
  /\ serverTimer # KNone
  /\ timer' = Stopped({serverTimer})
  /\ serverTimer' = KNone

HandleServerCancelKillTimer ==
  CancelServerKillTimer /\ UNCHANGED <<userTimers, target, sigs, ksMain, history>>

\* The timers of u whose callback is still to come, though t replaces them.
Misses(t, u) ==
  missed' = [missed EXCEPT ![t] = {s \in KTimer \ {t} : target[s] = u /\ timer'[s] \in {"armed", "fired"}}]

MutSetUserKeepsOld(t, u) ==
  AfterFunc(t, {}, u) /\ userTimers' = [userTimers EXCEPT ![u] = t] /\ Misses(t, u)

SetUserKillTimer(t, u) ==
  AfterFunc(t, {userTimers[u]}, u) /\ userTimers' = [userTimers EXCEPT ![u] = t] /\ Misses(t, u)

HandleUserSetKillTimer(u, minutes) ==
  /\ minutes > 0
  /\ \E t \in KTimer : SetUserKillTimer(t, u)
  /\ UNCHANGED <<serverTimer, sigs, ksMain, takenBy>>

CancelUserKillTimer(u) ==
  /\ userTimers[u] # KNone
  /\ timer' = Stopped({userTimers[u]})
  /\ userTimers' = [userTimers EXCEPT ![u] = KNone]

HandleUserCancelKillTimer(u) ==
  CancelUserKillTimer(u) /\ UNCHANGED <<serverTimer, target, sigs, ksMain, history>>

-----------------------------------------------------------------------------
(* The callbacks.                                                          *)

Fire(t) ==
  /\ timer[t] = "armed"
  /\ timer' = [timer EXCEPT ![t] = "fired"]
  /\ UNCHANGED <<serverTimer, userTimers, target, sigs, ksMain, history>>

\* The user's callback deletes the entry of the user under the lock, whichever
\* timer is there by now ...
UserCallback(t) ==
  /\ timer[t] = "fired" /\ target[t] \in KUser
  /\ timer' = [timer EXCEPT ![t] = "killing"]
  /\ userTimers' = [userTimers EXCEPT ![target[t]] = KNone]
  /\ takenBy' = [s \in KTimer |-> IF s = userTimers[target[t]] THEN t ELSE takenBy[s]]
  /\ UNCHANGED <<serverTimer, target, sigs, ksMain, missed>>

\* ... and then, outside the lock, removes the session and closes the socket.
UserKilled(t) ==
  /\ timer[t] = "killing"
  /\ timer' = [timer EXCEPT ![t] = "done"]
  /\ UNCHANGED <<serverTimer, userTimers, target, sigs, ksMain, history>>

\* shutdownFn sends SIGTERM to the channel of main and blocks while it is full.
ShutdownFn(t) ==
  /\ timer[t] = "fired" /\ target[t] = "server"
  /\ sigs = 0 /\ sigs' = 1
  /\ timer' = [timer EXCEPT ![t] = "done"]
  /\ UNCHANGED <<serverTimer, userTimers, target, ksMain, history>>

-----------------------------------------------------------------------------
(* main: it reads the channel once, when everything is up.                 *)

MainWaits ==
  /\ ksMain = "booting" /\ ksMain' = "waiting"
  /\ UNCHANGED <<serverTimer, userTimers, timer, target, sigs, history>>

MainReceives ==
  /\ ksMain = "waiting" /\ ksMain' = "stopping"
  /\ sigs = 1 /\ sigs' = 0
  /\ UNCHANGED <<serverTimer, userTimers, timer, target, history>>

\* The deferred Stop: the callbacks of fired timers are not waited for.
KStop ==
  /\ ksMain = "stopping" /\ ksMain' = "stopped"
  /\ timer' = Stopped({serverTimer} \cup {userTimers[u] : u \in KUser})
  /\ serverTimer' = KNone
  /\ userTimers' = [u \in KUser |-> KNone]
  /\ UNCHANGED <<target, sigs, history>>

\* TCP Shutdown has waited for the connections, and their commands, before main
\* gets to the Stop of the manager.
KCommand ==
  /\ ksMain # "stopped"
  /\ \/ \E m \in KMinutes : HandleServerSetKillTimer(m)
     \/ HandleServerCancelKillTimer
     \/ \E u \in KUser, m \in KMinutes : HandleUserSetKillTimer(u, m)
     \/ \E u \in KUser : HandleUserCancelKillTimer(u)

KCallback(t) == UserCallback(t) \/ UserKilled(t) \/ ShutdownFn(t)

KNext ==
  \/ KCommand
  \/ \E t \in KTimer : Fire(t) \/ KCallback(t)
  \/ MainWaits \/ MainReceives \/ KStop

KSpec == KInit /\ [][KNext]_kVars

-----------------------------------------------------------------------------
\* No timer that was replaced, cancelled or stopped while it was armed fires
\* later: the one server timer that can still fire is the one the manager can
\* cancel, and the same holds for a user, with the one exception the code has.  A
\* callback deletes the entry of its user, whichever timer is there by then
\* (timer_manager.go:74): a timer whose entry was deleted by the callback of an
\* older one that the Stop in SetUserKillTimer had missed -- because it had fired
\* already, or because its own entry had been deleted in this way -- is armed and
\* out of reach.
TimersAreTracked ==
  \A t \in KTimer : timer[t] = "armed" =>
    IF target[t] = "server" THEN serverTimer = t
    ELSE userTimers[target[t]] = t \/ takenBy[t] \in missed[t]
=============================================================================
