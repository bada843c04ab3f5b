---------------------------- MODULE IdleChecker -----------------------------
(***************************************************************************)
(* The idle checker (internal/adapters/inbound/idle_checker.go): a         *)
(* goroutine that, on every tick, takes a snapshot of all connections,     *)
(* reads the clock and removes the ones whose snapshot is older than the   *)
(* timeout.  Users come, act and go while it works through the snapshot,   *)
(* and Stop does not wait for it.                                          *)
(*                                                                         *)
(* Time is the age of a session's last activity, counted up to the first   *)
(* value beyond the timeout.  Both stores stamp LastActivityAt on          *)
(* registration, so the fallback to ConnectedAt is never taken.  Removing  *)
(* a session is one step here; its interleavings are in SessionLifecycle.  *)
(***************************************************************************)
EXTENDS Naturals

CONSTANTS
  IUser,      \* ids that may have a session
  ITimeout,   \* ic.timeout
  IGone       \* no session

VARIABLES
  idle,       \* idle[u]: age of the last activity of u's session
  icLoop,     \* where the goroutine is
  snap,       \* the snapshot: the age of each session in it ...
  todo,       \* ... and the part of it the loop has not reached
  tickC,      \* ticks waiting in ticker.C: at most one
  ticker,     \* the ticker is running
  icDone      \* the channel done is closed

iVars == <<idle, icLoop, snap, todo, tickC, ticker, icDone>>
loopVars == <<icLoop, snap, todo, tickC, ticker, icDone>>

Old == ITimeout + 1
Older(age) == IF age \in {IGone, Old} THEN age ELSE age + 1

IInit ==
  /\ idle = [u \in IUser |-> IGone]
  /\ icLoop = "select"
  /\ snap = [u \in IUser |-> IGone] /\ todo = {}
  /\ tickC = 0 /\ ticker = TRUE /\ icDone = FALSE

-----------------------------------------------------------------------------
(* The users and the clock.  A snapshot ages until the loop reads the      *)
(* clock.                                                                  *)

IActive(u) ==   \* RegisterConnection or UpdateLastActivity
  /\ idle' = [idle EXCEPT ![u] = 0]
  /\ UNCHANGED loopVars

ILeave(u) ==
  /\ idle[u] # IGone
  /\ idle' = [idle EXCEPT ![u] = IGone]
  /\ UNCHANGED loopVars

Pass ==
  /\ idle' = [u \in IUser |-> Older(idle[u])]
  /\ snap' = IF icLoop = "now" THEN [u \in IUser |-> Older(snap[u])] ELSE snap
  /\ UNCHANGED <<icLoop, todo, tickC, ticker, icDone>>

TickerFires ==
  /\ ticker
  /\ tickC' = 1
  /\ UNCHANGED <<idle, icLoop, snap, todo, ticker, icDone>>

-----------------------------------------------------------------------------
(* The goroutine.  When both channels are ready the select takes either.   *)

SelectDone ==
  /\ icLoop = "select" /\ icDone
  /\ icLoop' = "returned"
  /\ UNCHANGED <<idle, snap, todo, tickC, ticker, icDone>>

SelectTick ==
  /\ icLoop = "select" /\ tickC = 1
  /\ icLoop' = "check" /\ tickC' = 0
  /\ UNCHANGED <<idle, snap, todo, ticker, icDone>>

\* GetAllConnections fails: the check returns.
CheckFails ==
  /\ icLoop = "check"
  /\ icLoop' = "select"
  /\ UNCHANGED <<idle, snap, todo, tickC, ticker, icDone>>

GetAllConnections ==
  /\ icLoop = "check"
  /\ icLoop' = "now"
  /\ snap' = idle
  /\ todo' = {u \in IUser : idle[u] # IGone}
  /\ UNCHANGED <<idle, tickC, ticker, icDone>>

ReadNow ==
  /\ icLoop = "now"
  /\ icLoop' = "loop"
  /\ UNCHANGED <<idle, snap, todo, tickC, ticker, icDone>>

IsIdle(u) == snap[u] > ITimeout

MutCheckStopsAtBusy(u) ==
  /\ icLoop = "loop" /\ u \in todo
  /\ idle' = [idle EXCEPT ![u] = IF IsIdle(u) THEN IGone ELSE @]
  /\ todo' = IF IsIdle(u) THEN todo \ {u} ELSE {}
  /\ UNCHANGED <<icLoop, snap, tickC, ticker, icDone>>

\* One iteration: LeaveAllRooms, UnregisterConnection and DisconnectClient for
\* an idle entry of the snapshot, in the order of a Go map: any.
CheckOne(u) ==
  /\ icLoop = "loop" /\ u \in todo
  /\ idle' = [idle EXCEPT ![u] = IF IsIdle(u) THEN IGone ELSE @]
  /\ todo' = todo \ {u}
  /\ UNCHANGED <<icLoop, snap, tickC, ticker, icDone>>

CheckReturns ==
  /\ icLoop = "loop" /\ todo = {}
  /\ icLoop' = "select"
  /\ UNCHANGED <<idle, snap, todo, tickC, ticker, icDone>>

\* Stop, guarded by stopOnce.  Since Go 1.23 a stopped ticker's channel gives
\* no stale tick.
IStop ==
  /\ ~icDone /\ icDone' = TRUE
  /\ ticker' = FALSE /\ tickC' = 0
  /\ UNCHANGED <<idle, icLoop, snap, todo>>

CheckerStep ==
  \/ SelectDone \/ SelectTick \/ CheckFails \/ GetAllConnections \/ ReadNow
  \/ \E u \in IUser : CheckOne(u)
  \/ CheckReturns

INext ==
  \/ \E u \in IUser : IActive(u) \/ ILeave(u)
  \/ Pass \/ TickerFires \/ CheckerStep \/ IStop

\* The goroutine is scheduled, the ticker ticks while it runs, and the store
\* does not fail for ever.
ISpec == IInit /\ [][INext]_iVars /\ WF_iVars(CheckerStep) /\ WF_iVars(TickerFires)
           /\ SF_iVars(GetAllConnections)

-----------------------------------------------------------------------------
\* While the checker runs, nobody stays idle beyond the timeout for ever.
IdleIsRemoved ==
  \A u \in IUser : (idle[u] = Old /\ ~icDone) ~> (idle[u] # Old \/ icDone)
=============================================================================
