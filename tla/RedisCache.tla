----------------------------- MODULE RedisCache -----------------------------
(***************************************************************************)
(* The Redis cache (internal/adapters/outbound/redis_cache.go, without its *)
(* locks): every call is one Redis command, and Redis keeps one value of   *)
(* one type under a key.  A command that fails changes nothing and is no   *)
(* step here.                                                              *)
(***************************************************************************)
EXTENDS MemoryCache   \* for its constants, and as the other adapter

VARIABLES
  strings,     \* strings[k]: a CacheEntry with ticks left, or CNone
  redisSets,   \* redisSets[k]: the set at k; Redis keeps no empty set
  rcClosed     \* the client is closed

rcVars == <<strings, redisSets, rcClosed>>

RCInit ==
  /\ strings = [k \in CKey |-> CNone] /\ redisSets = [k \in CKey |-> {}]
  /\ rcClosed = FALSE

\* SET: whatever was under the key is gone, its expiry included.
RCSet(k, v, ttl) ==
  /\ ~rcClosed
  /\ strings' = [strings EXCEPT ![k] = [value |-> v, left |-> IF ttl > 0 THEN ttl ELSE CForever]]
  /\ redisSets' = [redisSets EXCEPT ![k] = {}]
  /\ UNCHANGED rcClosed

\* INCR: WRONGTYPE for a set, an error for a value that is no integer or the
\* largest one; the expiry stays.
RCIncrement(k) ==
  /\ ~rcClosed /\ redisSets[k] = {}
  /\ LET old == IF strings[k] = CNone THEN [value |-> 0, left |-> CForever] ELSE strings[k]
     IN /\ old.value \in 0..(CMaxInt - 1)
        /\ strings' = [strings EXCEPT ![k] = [old EXCEPT !.value = @ + 1]]
  /\ UNCHANGED <<redisSets, rcClosed>>

\* DEL
RCDelete(k) ==
  /\ ~rcClosed
  /\ strings' = [strings EXCEPT ![k] = CNone] /\ redisSets' = [redisSets EXCEPT ![k] = {}]
  /\ UNCHANGED rcClosed

\* SADD and SREM: WRONGTYPE for a string.
RCSetAddOnce(k, m) ==
  /\ ~rcClosed /\ strings[k] = CNone
  /\ redisSets' = [redisSets EXCEPT ![k] = @ \cup {m}]
  /\ UNCHANGED <<strings, rcClosed>>

RCSetRemove(k, m) ==
  /\ ~rcClosed /\ strings[k] = CNone
  /\ redisSets' = [redisSets EXCEPT ![k] = @ \ {m}]
  /\ UNCHANGED <<strings, rcClosed>>

\* The client is closed, and the data stay.
RCClose == rcClosed' = TRUE /\ UNCHANGED <<strings, redisSets>>

\* Redis: a string at its last tick is gone.
RCTick ==
  /\ strings' = [k \in CKey |->
                   IF strings[k] = CNone \/ strings[k].left = CForever THEN strings[k]
                   ELSE IF strings[k].left = 1 THEN CNone
                   ELSE [strings[k] EXCEPT !.left = @ - 1]]
  /\ UNCHANGED <<redisSets, rcClosed>>

RCNext ==
  \/ \E k \in CKey :
       \/ \E v \in CacheValue, ttl \in CTTL : RCSet(k, v, ttl)
       \/ RCIncrement(k) \/ RCDelete(k)
       \/ \E m \in CMember : RCSetAddOnce(k, m) \/ RCSetRemove(k, m)
  \/ RCClose \/ RCTick

RCSpec == RCInit /\ [][RCNext]_rcVars

-----------------------------------------------------------------------------
RedisPort == INSTANCE CacheStore WITH
               live <- [k \in CKey |-> IF strings[k] = CNone THEN CNone ELSE strings[k].value],
               left <- [k \in CKey |-> IF strings[k] = CNone THEN CForever ELSE strings[k].left],
               members <- redisSets

\* Callers are written against the port and meet one adapter or the other
\* (CACHE_TYPE): both behave as the port's cache does.  In memory nothing
\* expired shows, and sweeping and entries left to rot are invisible; Redis
\* answers with types and errors of its own.
AdaptersImplementCache == ImplementsCache /\ RedisPort!CacheSpec
=============================================================================
