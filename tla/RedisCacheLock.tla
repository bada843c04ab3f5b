--------------------------- MODULE RedisCacheLock ---------------------------
(***************************************************************************)
(* The cache lock over Redis (internal/adapters/outbound/                  *)
(* redis_cache_lock.go), on one key, for several server processes: a call  *)
(* takes the lock of its own process (CacheLock), then a lease on the key  *)
(* in Redis, which a goroutine renews until the release.  A lease expires  *)
(* in Redis if its renewals do not get through; the holder's context is    *)
(* then cancelled, and the process's lock is kept until it really exits.   *)
(*                                                                         *)
(* A tick is the interval of renewal, 10 seconds.                          *)
(***************************************************************************)
EXTENDS Integers, FiniteSets

CONSTANTS
  Process, LCall,
  ProcessOf,    \* the process of each call
  LeaseTicks,   \* the lease: 30 seconds, 3 ticks
  NoOwner

ASSUME LkAssumption ==
  /\ ProcessOf \in [LCall -> Process] /\ NoOwner \notin LCall
  /\ LeaseTicks \in Nat \ {0}

VARIABLES
  localLock,   \* localLock[s]: the call that has the lock of process s
  owner,       \* the call whose token is in the key, or NoOwner
  leaseLeft,   \* ticks until the key expires
  lkAt,        \* lkAt[p]: where the call is
  lkLate,      \* calls whose context has ended
  cancelled,   \* calls whose operation's context is cancelled
  silent       \* silent[p]: ticks since p's lease was last set, up to LeaseTicks

lkVars == <<localLock, owner, leaseLeft, lkAt, lkLate, cancelled, silent>>

LkInit ==
  /\ localLock = [s \in Process |-> NoOwner]
  /\ owner = NoOwner /\ leaseLeft = 0
  /\ lkAt = [p \in LCall |-> "idle"]
  /\ lkLate = {} /\ cancelled = {} /\ silent = [p \in LCall |-> 0]

LkGoto(p, from, to) == lkAt[p] = from /\ lkAt' = [lkAt EXCEPT ![p] = to]
LkUnlock(p) == localLock' = [localLock EXCEPT ![ProcessOf[p]] = NoOwner]
Holding(p) == lkAt[p] \in {"check", "held", "stopping", "unlock", "last"}

-----------------------------------------------------------------------------
(* AcquireLock.                                                            *)

\* The lock of the process, or its timeout.
LockLocal(p) ==
  /\ LkGoto(p, "idle", "setnx")
  /\ localLock[ProcessOf[p]] = NoOwner
  /\ localLock' = [localLock EXCEPT ![ProcessOf[p]] = p]
  /\ UNCHANGED <<owner, leaseLeft, lkLate, cancelled, silent>>

LockLocalTimesOut(p) ==
  /\ LkGoto(p, "idle", "failed") /\ p \in lkLate
  /\ UNCHANGED <<localLock, owner, leaseLeft, lkLate, cancelled, silent>>

\* SETNX succeeds and the renewal starts.  If it does not, the call comes
\* back after 10 ms, which takes no step here.
SetNX(p) ==
  /\ LkGoto(p, "setnx", "check")
  /\ p \notin lkLate /\ owner = NoOwner
  /\ owner' = p /\ leaseLeft' = LeaseTicks
  /\ silent' = [silent EXCEPT ![p] = 0]
  /\ UNCHANGED <<localLock, lkLate, cancelled>>

\* The context ends, or Redis fails: the deferred release of the local lock.
\* When the answer to a successful SETNX was what got lost, the key stays
\* until it expires.
SetNXFails(p) ==
  /\ LkGoto(p, "setnx", "failed") /\ LkUnlock(p)
  /\ \/ UNCHANGED <<owner, leaseLeft>>
     \/ owner = NoOwner /\ owner' = p /\ leaseLeft' = LeaseTicks
  /\ UNCHANGED <<lkLate, cancelled, silent>>

\* The context is looked at once more before the lock is handed out.
CheckContext(p) ==
  /\ lkAt[p] = "check"
  /\ lkAt' = [lkAt EXCEPT ![p] = IF p \in lkLate THEN "stopping" ELSE "held"]
  /\ UNCHANGED <<localLock, owner, leaseLeft, lkLate, cancelled, silent>>

-----------------------------------------------------------------------------
(* maintainLock.                                                           *)

MutRenewOnlyChecks(p) ==
  /\ lkAt[p] \in {"check", "held"} /\ owner = p
  /\ silent' = [silent EXCEPT ![p] = 0]
  /\ UNCHANGED <<localLock, owner, leaseLeft, lkAt, lkLate, cancelled>>

\* The script finds its token and sets the expiry again.
Renew(p) ==
  /\ lkAt[p] \in {"check", "held"} /\ owner = p
  /\ leaseLeft' = LeaseTicks /\ silent' = [silent EXCEPT ![p] = 0]
  /\ UNCHANGED <<localLock, owner, lkAt, lkLate, cancelled>>

MutRenewFailsQuietly(p) ==
  /\ lkAt[p] \in {"check", "held"}
  /\ UNCHANGED lkVars

\* It finds another token or none, or Redis does not answer.
RenewFails(p) ==
  /\ lkAt[p] \in {"check", "held"}
  /\ cancelled' = cancelled \cup {p}
  /\ UNCHANGED <<localLock, owner, leaseLeft, lkAt, lkLate, silent>>

-----------------------------------------------------------------------------
(* Release, once: cancel, stop the renewal and wait for it, delete the key *)
(* if it still holds the token, and then unlock the process.               *)

LkRelease(p) ==
  /\ LkGoto(p, "held", "stopping")
  /\ UNCHANGED <<localLock, owner, leaseLeft, lkLate, cancelled, silent>>

StopRenewal(p) ==
  /\ LkGoto(p, "stopping", "unlock")
  /\ cancelled' = cancelled \cup {p}
  /\ UNCHANGED <<localLock, owner, leaseLeft, lkLate, silent>>

\* An error leaves the key to its expiry.
CompareAndDelete(p) ==
  /\ LkGoto(p, "unlock", "last")
  /\ \/ owner = p /\ owner' = NoOwner /\ leaseLeft' = 0
     \/ UNCHANGED <<owner, leaseLeft>>
  /\ UNCHANGED <<localLock, lkLate, cancelled, silent>>

ReleaseLocal(p) ==
  /\ LkGoto(p, "last", "released") /\ LkUnlock(p)
  /\ UNCHANGED <<owner, leaseLeft, lkLate, cancelled, silent>>

-----------------------------------------------------------------------------
\* Once the lock is handed out, its own context matters and not the caller's.
Deadline(p) ==
  /\ lkAt[p] \in {"idle", "setnx", "check"} /\ p \notin lkLate
  /\ lkLate' = lkLate \cup {p}
  /\ UNCHANGED <<localLock, owner, leaseLeft, lkAt, cancelled, silent>>

LkTick ==
  /\ leaseLeft' = IF leaseLeft > 0 THEN leaseLeft - 1 ELSE 0
  /\ owner' = IF leaseLeft <= 1 THEN NoOwner ELSE owner
  /\ silent' = [p \in LCall |-> IF Holding(p) /\ silent[p] < LeaseTicks THEN silent[p] + 1 ELSE silent[p]]
  /\ UNCHANGED <<localLock, lkAt, lkLate, cancelled>>

LkStep(p) ==
  \/ LockLocal(p) \/ LockLocalTimesOut(p) \/ SetNX(p) \/ SetNXFails(p) \/ CheckContext(p)
  \/ StopRenewal(p) \/ CompareAndDelete(p) \/ ReleaseLocal(p)

LkNext ==
  \/ \E p \in LCall : LkStep(p) \/ Renew(p) \/ RenewFails(p) \/ LkRelease(p) \/ Deadline(p)
  \/ LkTick

\* Deadlines pass, time passes, goroutines run; a holder may hold for ever.
LkFair(p) == WF_lkVars(LkStep(p)) /\ WF_lkVars(Deadline(p)) /\ WF_lkVars(owner # p /\ RenewFails(p))
LkSpec == LkInit /\ [][LkNext]_lkVars /\ WF_lkVars(LkTick) /\ \A p \in LCall : LkFair(p)

-----------------------------------------------------------------------------
\* "A blocked native callback must finish before another local execution can
\* enter": in one process two calls never hold at once, lease or no lease.
LocalExclusion ==
  \A p, q \in LCall : p # q /\ ProcessOf[p] = ProcessOf[q] => ~(Holding(p) /\ Holding(q))

\* A lease is lost only to silence: a holder whose token is not in the key any
\* more had no renewal accepted for the whole time of the lease.
LostOnlyBySilence ==
  \A p \in LCall : lkAt[p] \in {"check", "held"} /\ owner # p => silent[p] = LeaseTicks

\* "A delayed release must not delete a later owner's lock": a key that holds
\* a token loses it to its own owner's release or to its expiry.
OnlyOwnerDeletes ==
  [][\A q \in LCall : owner = q /\ owner' # q =>
       (lkAt[q] = "unlock" /\ lkAt'[q] = "last") \/ leaseLeft = 1]_lkVars

\* "Context is canceled if ownership is lost": a holder without a lease is
\* told, if it does not release before.
LossIsNoticed ==
  \A p \in LCall : (lkAt[p] = "held" /\ owner # p) ~> (p \in cancelled \/ lkAt[p] # "held")
=============================================================================
