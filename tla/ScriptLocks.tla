---------------------------- MODULE ScriptLocks -----------------------------
(***************************************************************************)
(* Script executions and the cache locks they take                         *)
(* (internal/adapters/outbound/lua_cache_module.go and Execute in          *)
(* lua_script_engine.go).  mus.cache.lock keeps a lease until the script   *)
(* ends; mus.cache.withLock keeps it for one callback, and inside such a   *)
(* scope no further key can be locked.  Each lease is one call of          *)
(* CacheLock, whose steps are steps of the execution that made it.         *)
(*                                                                         *)
(* What a script does is its own choice, so a Lua error, caught by pcall   *)
(* or not, changes nothing here.  Once the deadline of the execution has   *)
(* passed, the VM runs no further instruction: callbacks unwind and the    *)
(* script ends.  Native functions are assumed to return.                   *)
(***************************************************************************)
EXTENDS CacheLock, Sequences

CONSTANTS
  Exec,         \* script executions, one after the other on each
  NoCall,       \* the execution is not inside AcquireLock or Release
  MaxDepth      \* bound: how deep callbacks of withLock nest

\* An execution has at most one lease of a key, so the pair names the call.
ASSUME ScriptCalls ==
  /\ Call = Exec \X Key
  /\ \A p \in Call : KeyOf[p] = p[2]
  /\ NoCall \notin [key : Key, scoped : BOOLEAN]

VARIABLES
  run,        \* run[e]: "idle", "running" or "exiting"
  leases,     \* leases[e]: the keys of the module's locks map
  scopes,     \* scopes[e]: the callbacks of withLock being run, innermost last
  call        \* call[e]: the call on the lock the execution is in

scriptVars == <<vars, run, leases, scopes, call>>

\* All calls of an execution share its context.
Context(e) == {e} \X Key
TimedOut(e) == Context(e) \subseteq expired
Lease(e) == <<e, call[e].key>>

ScriptInit ==
  /\ Init
  /\ run = [e \in Exec |-> "idle"]
  /\ leases = [e \in Exec |-> {}]
  /\ scopes = [e \in Exec |-> <<>>]
  /\ call = [e \in Exec |-> NoCall]

\* The VM is about to run an instruction of the script.
Interpreting(e) == run[e] = "running" /\ call[e] = NoCall /\ ~TimedOut(e)

Start(e) ==
  /\ run[e] = "idle"
  /\ run' = [run EXCEPT ![e] = "running"]
  /\ IF TimedOut(e) THEN NewContext(Context(e)) ELSE UNCHANGED vars
  /\ UNCHANGED <<leases, scopes, call>>

DeadlinePasses(e) ==
  /\ run[e] # "idle"
  /\ Expire(Context(e))
  /\ UNCHANGED <<run, leases, scopes, call>>

-----------------------------------------------------------------------------
\* Taking a lease that is not held; refused inside a scope.
Acquire(e, k, scoped) ==
  /\ k \notin leases[e]
  /\ scopes[e] = <<>>
  /\ Lookup(<<e, k>>)
  /\ call' = [call EXCEPT ![e] = [key |-> k, scoped |-> scoped]]
  /\ UNCHANGED <<run, leases, scopes>>

\* mus.cache.lock(key); a no-op when the lease is held.
LockKey(e, k) == Interpreting(e) /\ Acquire(e, k, FALSE)

\* mus.cache.withLock(key, callback) takes the lease or borrows the one held.
WithLock(e, k) ==
  /\ Interpreting(e)
  /\ \/ Acquire(e, k, TRUE)
     \/ /\ k \in leases[e]
        /\ Len(scopes[e]) < MaxDepth
        /\ scopes' = [scopes EXCEPT ![e] = Append(@, [key |-> k, owned |-> TRUE])]
        /\ UNCHANGED <<vars, run, leases, call>>

\* A lease is being taken or given back inside CacheLock.
Proceed(e) ==
  /\ call[e] # NoCall
  /\ Take(Lease(e)) \/ Timeout(Lease(e)) \/ Send(Lease(e))
  /\ UNCHANGED <<run, leases, scopes, call>>

\* The last step of AcquireLock: with the lease in hand it is recorded and, for
\* withLock, the callback entered; past the deadline it is given back.
Acquired(e) ==
  /\ call[e] # NoCall
  /\ Check(Lease(e))
  /\ IF TimedOut(e)
     THEN UNCHANGED <<leases, scopes, call>>
     ELSE /\ leases' = [leases EXCEPT ![e] = @ \cup {call[e].key}]
          /\ scopes' = IF call[e].scoped
                       THEN [scopes EXCEPT ![e] = <<[key |-> call[e].key, owned |-> FALSE]>>]
                       ELSE scopes
          /\ call' = [call EXCEPT ![e] = NoCall]
  /\ UNCHANGED run

\* The last step of a failed AcquireLock and of Release.
Returned(e) ==
  /\ call[e] # NoCall
  /\ Unref(Lease(e))
  /\ leases' = [leases EXCEPT ![e] = @ \ {call[e].key}]
  /\ call' = [call EXCEPT ![e] = NoCall]
  /\ UNCHANGED <<run, scopes>>

Innermost(e) == scopes[e][Len(scopes[e])]
Outer(e) == SubSeq(scopes[e], 1, Len(scopes[e]) - 1)

ReleaseLease(e, k) ==
  /\ Release(<<e, k>>)
  /\ call' = [call EXCEPT ![e] = [key |-> k, scoped |-> FALSE]]

MutEndScopeReleases(e) ==
  /\ run[e] = "running" /\ call[e] = NoCall
  /\ scopes[e] # <<>>
  /\ scopes' = [scopes EXCEPT ![e] = Outer(e)]
  /\ ReleaseLease(e, Innermost(e).key)
  /\ UNCHANGED <<run, leases>>

\* The callback returns, with or without an error: withLock gives back the
\* lease it took, and leaves a borrowed one alone.
EndScope(e) ==
  /\ run[e] = "running" /\ call[e] = NoCall
  /\ scopes[e] # <<>>
  /\ scopes' = [scopes EXCEPT ![e] = Outer(e)]
  /\ IF Innermost(e).owned
     THEN UNCHANGED <<vars, call>>
     ELSE ReleaseLease(e, Innermost(e).key)
  /\ UNCHANGED <<run, leases>>

MutExitSkipsRelease(e) ==
  /\ run[e] = "running" /\ call[e] = NoCall
  /\ scopes[e] = <<>>
  /\ run' = [run EXCEPT ![e] = IF TimedOut(e) THEN "idle" ELSE "exiting"]
  /\ UNCHANGED <<vars, leases, scopes, call>>

\* The script ends, by itself or by its deadline; Execute's deferred function
\* starts to release what the script still holds.
Exit(e) ==
  /\ run[e] = "running" /\ call[e] = NoCall
  /\ scopes[e] = <<>>
  /\ run' = [run EXCEPT ![e] = "exiting"]
  /\ UNCHANGED <<vars, leases, scopes, call>>

ReleaseLeases(e) ==
  /\ run[e] = "exiting" /\ call[e] = NoCall
  /\ \/ /\ \E k \in leases[e] : ReleaseLease(e, k)
        /\ UNCHANGED run
     \/ /\ leases[e] = {}
        /\ run' = [run EXCEPT ![e] = "idle"]
        /\ UNCHANGED <<vars, call>>
  /\ UNCHANGED <<leases, scopes>>

Unwind(e) == TimedOut(e) /\ (EndScope(e) \/ Exit(e))
InLock(e) == Proceed(e) \/ Acquired(e) \/ Returned(e)

ScriptNext ==
  \E e \in Exec :
    \/ Start(e) \/ DeadlinePasses(e)
    \/ \E k \in Key : LockKey(e, k) \/ WithLock(e, k)
    \/ InLock(e) \/ EndScope(e) \/ Exit(e) \/ ReleaseLeases(e)

\* Goroutines are scheduled and deadlines pass; past its deadline a script
\* unwinds.  Nothing makes a script end or release before that.
ScriptFairness ==
  \A e \in Exec :
    /\ WF_scriptVars(InLock(e)) /\ WF_scriptVars(ReleaseLeases(e))
    /\ WF_scriptVars(DeadlinePasses(e)) /\ WF_scriptVars(Unwind(e))

ScriptSpec == ScriptInit /\ [][ScriptNext]_scriptVars /\ ScriptFairness

-----------------------------------------------------------------------------
\* A callback of withLock runs under its lease to the end: nothing inside the
\* callback, a nested withLock of the same key included, gives the lease back.
ScopeKeepsLease ==
  \A e \in Exec : \A i \in DOMAIN scopes[e] :
    scopes[e][i].key \in leases[e] /\ pc[<<e, scopes[e][i].key>>] = "held"

\* "Locks belong to this execution, including early returns and script errors":
\* an execution that has ended holds no lease, whatever it did.
NothingHeldAfterExit ==
  \A e \in Exec : run[e] = "idle" => \A k \in Key : pc[<<e, k>>] = "idle"

\* Two scripts that lock the same two keys in opposite orders wait for each
\* other; their deadlines break the deadlock and every execution ends.
ExecutionsEnd == \A e \in Exec : run[e] = "running" ~> run[e] = "idle"
=============================================================================
