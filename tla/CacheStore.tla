----------------------------- MODULE CacheStore -----------------------------
(***************************************************************************)
(* What a cache promises (the Cache interface of internal/domain/ports/    *)
(* cache.go, without its locks): values that vanish when their time to     *)
(* live is over, counters that keep their expiry, and sets.  It is what    *)
(* both adapters keep to (MemoryCache, RedisCache); where they differ, the *)
(* promise is the weaker: a value may replace a set or stand beside it,    *)
(* Close may or may not drop what is stored, and any call may fail, which  *)
(* changes nothing.  Exists, which counts a set in Redis only, is left     *)
(* out.                                                                    *)
(*                                                                         *)
(* Time to live is counted in ticks.                                       *)
(***************************************************************************)
EXTENDS Integers

CONSTANTS
  CKey, CMember,
  CValue,       \* values that are not integers
  CMaxInt,      \* the largest integer
  CTTL,         \* times to live callers pass, 0 for none
  CNone,        \* no value
  CForever      \* no expiry

ASSUME CacheAssumption ==
  /\ CMaxInt \in Nat /\ CTTL \subseteq Nat /\ CForever \notin Int
  /\ CNone \notin CValue /\ CNone \notin Int /\ \A s \in SUBSET CMember : s # CNone

VARIABLES
  live,      \* live[k]: the value of k, or CNone
  left,      \* left[k]: ticks it has left, or CForever
  members    \* members[k]: the set at k; no set is the empty set

cacheVars == <<live, left, members>>

CInit ==
  /\ live = [k \in CKey |-> CNone] /\ left = [k \in CKey |-> CForever]
  /\ members = [k \in CKey |-> {}]

\* A set under the key is replaced (Redis) or stays (in memory).
CSet(k, v, ttl) ==
  /\ live' = [live EXCEPT ![k] = v]
  /\ left' = [left EXCEPT ![k] = IF ttl > 0 THEN ttl ELSE CForever]
  /\ members' \in {members, [members EXCEPT ![k] = {}]}

\* "It preserves an existing expiry and rejects non-integers and overflow."
CIncrement(k) ==
  /\ members[k] = {}
  /\ live[k] = CNone \/ live[k] \in 0..(CMaxInt - 1)
  /\ live' = [live EXCEPT ![k] = IF @ = CNone THEN 1 ELSE @ + 1]
  /\ UNCHANGED <<left, members>>

CDelete(k) ==
  /\ live' = [live EXCEPT ![k] = CNone] /\ left' = [left EXCEPT ![k] = CForever]
  /\ members' = [members EXCEPT ![k] = {}]

\* With a value under the key this succeeds in memory and fails in Redis.
CSetAddOnce(k, m) == members' = [members EXCEPT ![k] = @ \cup {m}] /\ UNCHANGED <<live, left>>
CSetRemove(k, m) == members' = [members EXCEPT ![k] = @ \ {m}] /\ UNCHANGED <<live, left>>

\* Close of the in-memory cache; the Redis adapter closes its client only.
CClose ==
  /\ live' = [k \in CKey |-> CNone] /\ left' = [k \in CKey |-> CForever]
  /\ members' = [k \in CKey |-> {}]

\* A tick: values at their last tick vanish.
CTick ==
  /\ live' = [k \in CKey |-> IF left[k] = 1 THEN CNone ELSE live[k]]
  /\ left' = [k \in CKey |-> IF left[k] \in {1, CForever} THEN CForever ELSE left[k] - 1]
  /\ UNCHANGED members

CNext ==
  \/ \E k \in CKey :
       \/ \E v \in CValue \cup 0..CMaxInt, ttl \in CTTL : CSet(k, v, ttl)
       \/ CIncrement(k) \/ CDelete(k)
       \/ \E m \in CMember : CSetAddOnce(k, m) \/ CSetRemove(k, m)
  \/ CClose \/ CTick

CacheSpec == CInit /\ [][CNext]_cacheVars
=============================================================================
