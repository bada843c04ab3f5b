------------------------------ MODULE MCLocks -------------------------------
(***************************************************************************)
(* The lock of the memory cache under script executions, and the lock over *)
(* Redis under calls of two processes: one of the two per behaviour, as    *)
(* the server is configured.                                               *)
(***************************************************************************)
EXTENDS ScriptLocks, RedisCacheLock

CONSTANTS s1, s2, a1, a2, b1

VARIABLE backend

MCCall == Exec \X Key
MCKeyOf == [p \in MCCall |-> p[2]]
MCProcessOf == [p \in LCall |-> IF p = b1 THEN s2 ELSE s1]

LocksInit == backend \in {"memory", "redis"} /\ ScriptInit /\ LkInit

Memory == backend = "memory" /\ ScriptNext /\ UNCHANGED <<backend, lkVars>>
Redis  == backend = "redis" /\ LkNext /\ UNCHANGED <<backend, scriptVars>>

\* The fairness of each, in its own behaviours.
MemoryFairness ==
  \A e \in Exec :
    /\ WF_scriptVars(backend = "memory" /\ InLock(e))
    /\ WF_scriptVars(backend = "memory" /\ ReleaseLeases(e))
    /\ WF_scriptVars(backend = "memory" /\ DeadlinePasses(e))
    /\ WF_scriptVars(backend = "memory" /\ Unwind(e))

RedisFairness ==
  /\ WF_lkVars(backend = "redis" /\ LkTick)
  /\ \A p \in LCall :
       /\ WF_lkVars(backend = "redis" /\ LkStep(p))
       /\ WF_lkVars(backend = "redis" /\ Deadline(p))
       /\ WF_lkVars(backend = "redis" /\ owner # p /\ RenewFails(p))

LocksSpec ==
  /\ LocksInit /\ [][Memory \/ Redis]_<<backend, scriptVars, lkVars>>
  /\ MemoryFairness /\ RedisFairness
=============================================================================
