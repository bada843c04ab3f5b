-------------------------- MODULE MCSessionStores ---------------------------
(***************************************************************************)
(* The two session stores, one per behaviour: the first state chooses the  *)
(* adapter that the server was configured with.                            *)
(***************************************************************************)
EXTENDS MemorySessionStore, RedisSessionStore, TLC

VARIABLE adapter

StoresInit == adapter \in {"memory", "redis"} /\ Init /\ RSInit

Memory == adapter = "memory" /\ Next /\ UNCHANGED <<adapter, rsVars>>
Redis  == adapter = "redis" /\ RSNext /\ UNCHANGED <<adapter, memVars>>

StoresSpec == StoresInit /\ [][Memory \/ Redis]_<<adapter, memVars, rsVars>>

\* The goroutines that use the Redis store are alike.
Symmetry == Permutations(RsCall)
=============================================================================
