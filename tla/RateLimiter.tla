---------------------------- MODULE RateLimiter -----------------------------
(***************************************************************************)
(* The token bucket that limits requests per client                        *)
(* (internal/adapters/inbound/rate_limiter.go).  A bucket is refilled only *)
(* when it is asked, from the time since it was last asked, and a cleanup  *)
(* goroutine forgets buckets that are full by now.                         *)
(*                                                                         *)
(* Tokens are counted in units of 1 / Window: a request costs Window units *)
(* and MaxRequests units come back per tick.  age[c] is the time since     *)
(* lastCheck, and stays at Window, when every bucket is full again.        *)
(***************************************************************************)
EXTENDS Integers

CONSTANTS RClient, MaxRequests, Window, NoBucket

ASSUME RateAssumption == MaxRequests \in Nat \ {0} /\ Window \in Nat \ {0} /\ NoBucket \notin Int

VARIABLES
  tokens,    \* tokens[c]: units in the bucket at lastCheck, or NoBucket
  age,       \* age[c]: ticks since lastCheck
  rlDone,    \* done is closed
  rlLoop,    \* where the cleanup goroutine is
  promised   \* promised[c]: units a bucket refilled on every tick would hold

rVars == <<tokens, age, rlDone, rlLoop, promised>>

Full == MaxRequests * Window
Least(a, b) == IF a <= b THEN a ELSE b

RInit ==
  /\ tokens = [c \in RClient |-> NoBucket]
  /\ age = [c \in RClient |-> 0]
  /\ rlDone = FALSE /\ rlLoop = "select"
  /\ promised = [c \in RClient |-> Full]

\* A new bucket is full; an old one is topped up for the time that has passed.
Refilled(c) ==
  IF tokens[c] = NoBucket THEN Full ELSE Least(tokens[c] + age[c] * MaxRequests, Full)

MutAllowKeepsLastCheck(c) ==
  LET allowed == Refilled(c) >= Window
  IN /\ tokens' = [tokens EXCEPT ![c] = Refilled(c) - IF allowed THEN Window ELSE 0]
     /\ age' = IF allowed THEN [age EXCEPT ![c] = 0] ELSE age
     /\ promised' = [promised EXCEPT ![c] = @ - IF allowed THEN Window ELSE 0]
     /\ UNCHANGED <<rlDone, rlLoop>>

Allow(c) ==
  LET allowed == Refilled(c) >= Window
  IN /\ tokens' = [tokens EXCEPT ![c] = Refilled(c) - IF allowed THEN Window ELSE 0]
     /\ age' = [age EXCEPT ![c] = 0]
     /\ promised' = [promised EXCEPT ![c] = @ - IF allowed THEN Window ELSE 0]
     /\ UNCHANGED <<rlDone, rlLoop>>

\* One tick of the cleanup ticker, under the mutex.  It may come at any time;
\* once done is closed the select may still prefer it.
Cleanup ==
  /\ rlLoop = "select"
  /\ tokens' = [c \in RClient |->
                  IF tokens[c] # NoBucket /\ tokens[c] + age[c] * MaxRequests >= Full
                  THEN NoBucket ELSE tokens[c]]
  /\ UNCHANGED <<age, rlDone, rlLoop, promised>>

CleanupReturns ==
  /\ rlLoop = "select" /\ rlDone
  /\ rlLoop' = "returned"
  /\ UNCHANGED <<tokens, age, rlDone, promised>>

RStop ==
  /\ ~rlDone /\ rlDone' = TRUE
  /\ UNCHANGED <<tokens, age, rlLoop, promised>>

\* A tick of the clock, for the model's own account too.
RTick ==
  /\ age' = [c \in RClient |-> Least(age[c] + 1, Window)]
  /\ promised' = [c \in RClient |-> Least(promised[c] + MaxRequests, Full)]
  /\ UNCHANGED <<tokens, rlDone, rlLoop>>

RNext == RTick \/ RStop \/ Cleanup \/ CleanupReturns \/ \E c \in RClient : Allow(c)

RSpec == RInit /\ [][RNext]_rVars

-----------------------------------------------------------------------------
\* Refilling a bucket only when it is asked, and forgetting it when it is
\* full, makes no difference: a client always has what a bucket refilled on
\* every tick and never forgotten would give it.
LazyBucketIsExact == \A c \in RClient : Refilled(c) = promised[c]
=============================================================================
