----------------------------- MODULE BanChecker -----------------------------
(***************************************************************************)
(* The check of an address against the bans (internal/adapters/inbound/    *)
(* ban_checker.go), made by the TCP and UDP servers: the answer comes from *)
(* the cache or else from the database, and is then put into the cache for *)
(* half a minute.  The three calls are three steps.                        *)
(*                                                                         *)
(* The keys of the cache are the addresses; 0 and 1 are the answers.       *)
(***************************************************************************)
EXTENDS CacheStore

CONSTANTS
  BCall,      \* goroutines that ask; each asks again and again
  BanTTL      \* 30 seconds, in ticks

VARIABLES
  banned,     \* banned[k]: the database has an active ban for k
  dbUp,       \* the database answers
  ask,        \* ask[v]: where the call is
  askKey,     \* askKey[v]: its address
  found       \* found[v]: what the database said

bcVars == <<cacheVars, banned, dbUp, ask, askKey, found>>

BCInit ==
  /\ CInit
  /\ banned = [k \in CKey |-> FALSE] /\ dbUp = TRUE
  /\ ask = [v \in BCall |-> "no"]
  /\ askKey = [v \in BCall |-> CNone] /\ found = [v \in BCall |-> 0]

-----------------------------------------------------------------------------
\* A ban of an address is written to the table (by hand or by a script: the
\* console and the commands ban users only), revoked, or runs out; the database
\* fails or recovers.
BanChanges(k) ==
  /\ banned' = [banned EXCEPT ![k] = ~@]
  /\ UNCHANGED <<cacheVars, dbUp, ask, askKey, found>>

DatabaseChanges ==
  /\ dbUp' = ~dbUp
  /\ UNCHANGED <<cacheVars, banned, ask, askKey, found>>

MutGetRefreshes(v, k) ==
  /\ ask[v] = "no" /\ askKey' = [askKey EXCEPT ![v] = k]
  /\ IF live[k] # CNone
     THEN CSet(k, live[k], BanTTL) /\ UNCHANGED ask
     ELSE ask' = [ask EXCEPT ![v] = "db"] /\ UNCHANGED cacheVars
  /\ UNCHANGED <<banned, dbUp, found>>

\* A cached answer is returned as it is; without one, or if the cache fails, the
\* database is asked.
BanGet(v, k) ==
  /\ ask[v] = "no" /\ askKey' = [askKey EXCEPT ![v] = k]
  /\ \/ live[k] # CNone /\ UNCHANGED ask
     \/ ask' = [ask EXCEPT ![v] = "db"]
  /\ UNCHANGED <<cacheVars, banned, dbUp, found>>

\* An error of the database means not banned.
BanLookup(v) ==
  /\ ask[v] = "db" /\ ask' = [ask EXCEPT ![v] = "set"]
  /\ found' = [found EXCEPT ![v] = IF dbUp /\ banned[askKey[v]] THEN 1 ELSE 0]
  /\ UNCHANGED <<cacheVars, banned, dbUp, askKey>>

\* An error of the cache is dropped.
BanSet(v) ==
  /\ ask[v] = "set" /\ ask' = [ask EXCEPT ![v] = "no"]
  /\ CSet(askKey[v], found[v], BanTTL) \/ UNCHANGED cacheVars
  /\ UNCHANGED <<banned, dbUp, askKey, found>>

BCTick == CTick /\ UNCHANGED <<banned, dbUp, ask, askKey, found>>

BCStep(v) == BanLookup(v) \/ BanSet(v)

BCNext ==
  \/ \E k \in CKey : BanChanges(k) \/ \E v \in BCall : BanGet(v, k)
  \/ \E v \in BCall : BCStep(v)
  \/ DatabaseChanges \/ BCTick

\* Time passes and a call that has begun ends.
BCSpec == BCInit /\ [][BCNext]_bcVars /\ WF_bcVars(BCTick) /\ \A v \in BCall : WF_bcVars(BCStep(v))

-----------------------------------------------------------------------------
\* The next answer for k, from the cache or from a call on its way, is "banned".
SaysBanned(k) ==
  live[k] # 0 /\ \A v \in BCall : ask[v] = "set" /\ askKey[v] = k => found[v] = 1

\* Negative answers are cached, by calls that may have read the database long
\* ago, and every hit finds them; still a ban that stays takes effect: after
\* a while every answer for the address is "banned", for good.
BanTakesEffect == \A k \in CKey : <>[](banned[k] /\ dbUp) => <>[]SaysBanned(k)
=============================================================================
