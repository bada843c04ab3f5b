----------------------------- MODULE TokenStore -----------------------------
(***************************************************************************)
(* Logon tokens (internal/adapters/outbound/cache_token_store.go): Issue   *)
(* puts a payload into the cache under a fresh random id, Validate gets it *)
(* and then deletes it.  The two calls of Validate are two steps, and a    *)
(* failure of the second is ignored.                                       *)
(*                                                                         *)
(* The keys of the cache are the tokens; Logon and mus.token.validate are  *)
(* the callers of Validate.                                                *)
(***************************************************************************)
EXTENDS CacheStore

CONSTANTS
  TCall,       \* calls of Validate
  TokenTTL     \* the store's time to live

VARIABLES
  payload,      \* payload[k]: what was issued under k, or CNone
  call,         \* call[v]: where the call is
  callKey,      \* callKey[v]: its token
  spent,        \* tokens some Validate has returned a payload for
  spentBefore,  \* spentBefore[v]: the ones when v began
  undeleted     \* tokens whose Delete failed

tsVars == <<cacheVars, payload, call, callKey, spent, spentBefore, undeleted>>
callVars == <<call, callKey, spent, spentBefore, undeleted>>

TSInit ==
  /\ CInit
  /\ payload = [k \in CKey |-> CNone]
  /\ call = [v \in TCall |-> "no"]
  /\ callKey = [v \in TCall |-> CNone]
  /\ spent = {} /\ spentBefore = [v \in TCall |-> {}] /\ undeleted = {}

-----------------------------------------------------------------------------
\* 32 random bytes: an id that was not issued before.
Issue(k, p) ==
  /\ payload[k] = CNone
  /\ CSet(k, p, TokenTTL)
  /\ payload' = [payload EXCEPT ![k] = p]
  /\ UNCHANGED callVars

\* Any string may be presented, issued or not; the empty one fails at once.
Validate(v, k) ==
  /\ call[v] = "no" /\ call' = [call EXCEPT ![v] = "get"]
  /\ callKey' = [callKey EXCEPT ![v] = k]
  /\ spentBefore' = [spentBefore EXCEPT ![v] = spent]
  /\ UNCHANGED <<cacheVars, payload, spent, undeleted>>

\* Get: an error of the cache is an invalid token too.
ValidateGet(v) ==
  /\ call[v] = "get"
  /\ \/ /\ live[callKey[v]] # CNone
        /\ call' = [call EXCEPT ![v] = "delete"]
     \/ call' = [call EXCEPT ![v] = "invalid"]
  /\ UNCHANGED <<cacheVars, payload, callKey, spent, spentBefore, undeleted>>

MutValidateKeepsToken(v) ==
  /\ call[v] = "delete" /\ call' = [call EXCEPT ![v] = "valid"]
  /\ spent' = spent \cup {callKey[v]}
  /\ UNCHANGED <<cacheVars, undeleted, payload, callKey, spentBefore>>

\* Delete, whose error is dropped; then the payload is returned, unless it does
\* not parse (another program of the same cache may have written it): then the
\* token is invalid, and gone all the same.
ValidateDelete(v) ==
  /\ call[v] = "delete"
  /\ \/ call' = [call EXCEPT ![v] = "valid"] /\ spent' = spent \cup {callKey[v]}
     \/ call' = [call EXCEPT ![v] = "invalid"] /\ UNCHANGED spent
  /\ \/ CDelete(callKey[v]) /\ UNCHANGED undeleted
     \/ undeleted' = undeleted \cup {callKey[v]} /\ UNCHANGED cacheVars
  /\ UNCHANGED <<payload, callKey, spentBefore>>

TSTick ==
  /\ CTick
  /\ UNCHANGED <<payload, callVars>>

TSNext ==
  \/ \E k \in CKey, p \in CValue : Issue(k, p)
  \/ \E v \in TCall : (\E k \in CKey : Validate(v, k)) \/ ValidateGet(v) \/ ValidateDelete(v)
  \/ TSTick

TSSpec == TSInit /\ [][TSNext]_tsVars

-----------------------------------------------------------------------------
\* "Single-use tokens", "a token authorizes exactly one Logon": at most one call
\* of Validate returns the payload of a token, even if the cache never refuses a
\* Delete.  Two calls that overlap between Get and Delete both do.
SingleUse ==
  \A v, w \in TCall :
    call[v] = "valid" /\ call[w] = "valid" /\ callKey[v] = callKey[w] /\ v # w
      => callKey[v] \in undeleted

\* What holds instead: a token that a Validate has returned is not accepted by
\* any call that begins later, unless the cache refused the Delete.
NoReuseAfterReturn ==
  \A v \in TCall : call[v] \in {"delete", "valid"} /\ callKey[v] \in spentBefore[v]
                     => callKey[v] \in undeleted
=============================================================================
