----------------------------- MODULE MemoryCache ----------------------------
(***************************************************************************)
(* The in-memory cache (internal/adapters/outbound/memory_cache.go, without *)
(* its locks).  An expired entry stays in the map until it is overwritten, *)
(* deleted or swept; every operation has to look past it.  Each operation  *)
(* holds the cache's mutex.                                                *)
(***************************************************************************)
EXTENDS CacheStore   \* for its constants

CONSTANT SweepInterval   \* writes between two sweeps

CacheValue == CValue \cup 0..CMaxInt
CacheEntry == [value : CacheValue, left : Nat \cup {CForever}]

ASSUME EntryAssumption == CNone \notin CacheEntry

VARIABLES
  entries,     \* entries[k]: a CacheEntry (ticks left, 0: expired), or CNone
  mcSets,      \* mcSets[k]: the set at k, or CNone
  writeCount,  \* Sets since the last sweep
  mcClosed     \* Close was called

mcVars == <<entries, mcSets, writeCount, mcClosed>>

MCInit ==
  /\ entries = [k \in CKey |-> CNone] /\ mcSets = [k \in CKey |-> CNone]
  /\ writeCount = 0 /\ mcClosed = FALSE

Expired(entry) == entry.left = 0

\* The value Get returns, and what Exists and SetMembers look at.
GetLive(k) == IF entries[k] = CNone \/ Expired(entries[k]) THEN CNone ELSE entries[k].value
SetMembersOf(k) == IF mcSets[k] = CNone THEN {} ELSE mcSets[k]

-----------------------------------------------------------------------------
MutSweep(es) == [k \in CKey |-> IF es[k] # CNone /\ es[k].left # CForever THEN CNone ELSE es[k]]

Sweep(es) == [k \in CKey |-> IF es[k] # CNone /\ Expired(es[k]) THEN CNone ELSE es[k]]

MCSet(k, v, ttl) ==
  LET entry == [value |-> v, left |-> IF ttl > 0 THEN ttl ELSE CForever]
      es == [entries EXCEPT ![k] = entry]
  IN /\ ~mcClosed
     /\ IF writeCount + 1 >= SweepInterval
        THEN writeCount' = 0 /\ entries' = Sweep(es)
        ELSE writeCount' = writeCount + 1 /\ entries' = es
     /\ UNCHANGED <<mcSets, mcClosed>>

\* A set under the key, a value that does not parse and the largest integer
\* are errors that change nothing.  An expired entry is replaced by a new one
\* without expiry; a live one keeps its own.
MCIncrement(k) ==
  /\ ~mcClosed /\ mcSets[k] = CNone
  /\ LET fresh == entries[k] = CNone \/ Expired(entries[k])
         old == IF fresh THEN [value |-> 0, left |-> CForever] ELSE entries[k]
     IN /\ old.value \in 0..(CMaxInt - 1)
        /\ entries' = [entries EXCEPT ![k] = [old EXCEPT !.value = @ + 1]]
  /\ UNCHANGED <<mcSets, writeCount, mcClosed>>

MCDelete(k) ==
  /\ ~mcClosed
  /\ entries' = [entries EXCEPT ![k] = CNone] /\ mcSets' = [mcSets EXCEPT ![k] = CNone]
  /\ UNCHANGED <<writeCount, mcClosed>>

\* SetAddOnce, and SetAdd, which calls it.
MCSetAddOnce(k, m) ==
  /\ ~mcClosed
  /\ mcSets' = [mcSets EXCEPT ![k] = SetMembersOf(k) \cup {m}]
  /\ UNCHANGED <<entries, writeCount, mcClosed>>

MCSetRemove(k, m) ==
  /\ ~mcClosed /\ mcSets[k] # CNone
  /\ mcSets' = [mcSets EXCEPT ![k] = IF @ = {m} THEN CNone ELSE @ \ {m}]
  /\ UNCHANGED <<entries, writeCount, mcClosed>>

\* Close drops the maps.  It is one of main's last deferred calls (ServerMain); what
\* calls that come after it would meet is not modelled.
MCClose ==
  /\ mcClosed' = TRUE
  /\ entries' = [k \in CKey |-> CNone] /\ mcSets' = [k \in CKey |-> CNone]
  /\ UNCHANGED writeCount

\* The clock.
MCTick ==
  /\ entries' = [k \in CKey |->
                   IF entries[k] = CNone \/ entries[k].left \in {0, CForever} THEN entries[k]
                   ELSE [entries[k] EXCEPT !.left = @ - 1]]
  /\ UNCHANGED <<mcSets, writeCount, mcClosed>>

MCNext ==
  \/ \E k \in CKey :
       \/ \E v \in CacheValue, ttl \in CTTL : MCSet(k, v, ttl)
       \/ MCIncrement(k) \/ MCDelete(k)
       \/ \E m \in CMember : MCSetAddOnce(k, m) \/ MCSetRemove(k, m)
  \/ MCClose \/ MCTick

MCSpec == MCInit /\ [][MCNext]_mcVars

-----------------------------------------------------------------------------
\* Nothing expired shows, and sweeping, the write counter and entries left to
\* rot are invisible: the cache behaves as the cache of the port does.
Port == INSTANCE CacheStore WITH
          live <- [k \in CKey |-> GetLive(k)],
          left <- [k \in CKey |-> IF GetLive(k) = CNone THEN CForever ELSE entries[k].left],
          members <- [k \in CKey |-> SetMembersOf(k)]

ImplementsCache == Port!CacheSpec
=============================================================================
