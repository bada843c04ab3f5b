---------------------------- MODULE LocksProofs -----------------------------
(***************************************************************************)
(* Locks for any number of scripts, keys, calls and processes.  Scripts    *)
(* use the keyed lock as it is meant to be used (ScriptLocks): what they   *)
(* do are steps of that lock, a callback runs under its lease, and an      *)
(* ended script holds nothing.  Over Redis (RedisCacheLock) exclusion      *)
(* within a process never depends on the lease, and a lease ends by its    *)
(* own release or by silence.                                              *)
(***************************************************************************)
EXTENDS ScriptLocks, RedisCacheLock, TLAPS

-----------------------------------------------------------------------------
(* Scripts. *)

CallRecord == [key : Key, scoped : BOOLEAN]
Scope == [key : Key, owned : BOOLEAN]

Where == {"idle", "select", "check", "held", "send", "unref"}

ScriptType ==
  /\ pc \in [Call -> Where]
  /\ run \in [Exec -> {"idle", "running", "exiting"}]
  /\ leases \in [Exec -> SUBSET Key]
  /\ scopes \in [Exec -> Seq(Scope)]
  /\ call \in [Exec -> {NoCall} \cup CallRecord]

InCall(e, k) == call[e] # NoCall /\ call[e].key = k

\* Where the lock's call <<e, k>> is, as far as the script knows: outside a call
\* the locks map of the module is exact.
LeaseOK(e) ==
  \A k \in Key :
    /\ ~InCall(e, k) => pc[<<e, k>>] = IF k \in leases[e] THEN "held" ELSE "idle"
    /\ InCall(e, k) => pc[<<e, k>>] \in {"select", "check", "send", "unref"}

\* All calls of an execution share its deadline.
OneContext(e) == \A j, k \in Key : <<e, j>> \in expired => <<e, k>> \in expired

\* Callbacks nest within the lease of the outermost one, and only the outermost
\* may have taken it; a callback is entered only while the script runs.
ScopesOK(e) ==
  /\ call[e] # NoCall \/ run[e] # "running" => scopes[e] = <<>>
  /\ \A i \in 1 .. Len(scopes[e]) :
       scopes[e][i].key \in leases[e] /\ (i # 1 => scopes[e][i].owned)
  /\ run[e] = "idle" => leases[e] = {} /\ call[e] = NoCall
  /\ call[e] # NoCall /\ call[e].scoped => run[e] = "running"

ExecOK(e) == LeaseOK(e) /\ OneContext(e) /\ ScopesOK(e)

ScriptInv ==
  /\ ScriptType
  /\ \A e \in Exec : ExecOK(e)

-----------------------------------------------------------------------------
\* Nothing runs, nothing is held.
LEMMA ScriptInitInv == ScriptInit => ScriptInv
<1> SUFFICES ASSUME ScriptInit PROVE ScriptInv
  BY Zenon
<1>1. ScriptType
  BY DEF ScriptInit, Init, ScriptType, Where
<1>3. ASSUME NEW e \in Exec PROVE ExecOK(e)
  <2>1. call[e] = NoCall /\ leases[e] = {} /\ scopes[e] = <<>> /\ run[e] = "idle"
    BY Zenon DEF ScriptInit
  <2>2. LeaseOK(e)
    BY <2>1, ScriptCalls, Zenon DEF ScriptInit, Init, LeaseOK, InCall
  <2>3. OneContext(e)
    BY Zenon DEF ScriptInit, Init, OneContext
  <2>4. ScopesOK(e)
    BY <2>1 DEF ScopesOK
  <2> QED
    BY <2>2, <2>3, <2>4, Zenon DEF ExecOK
<1> QED
  BY <1>1, <1>3, Zenon DEF ScriptInv

\* A call in progress is a call of the lock.
LEMMA LeaseIsCall ==
  ASSUME ScriptInv, NEW e \in Exec, call[e] # NoCall
  PROVE  /\ call[e] \in CallRecord /\ call[e].key \in Key
         /\ Lease(e) \in Call /\ Lease(e) = <<e, call[e].key>>
  BY ScriptCalls, Zenon DEF ScriptInv, ScriptType, CallRecord, Lease

\* Whatever a script does is a step of the lock, or none.
LEMMA ScriptIsLockStep == ScriptInv /\ [ScriptNext]_scriptVars => [Next]_vars
<1> SUFFICES ASSUME ScriptInv, ScriptNext PROVE Next \/ UNCHANGED vars
  BY Zenon DEF scriptVars
<1>1. PICK e \in Exec :
        \/ Start(e) \/ DeadlinePasses(e)
        \/ \E k \in Key : LockKey(e, k) \/ WithLock(e, k)
        \/ InLock(e) \/ EndScope(e) \/ Exit(e) \/ ReleaseLeases(e)
  BY Zenon DEF ScriptNext
<1>2. Context(e) \in SUBSET Call /\ \A k \in Key : <<e, k>> \in Call
  BY ScriptCalls, Zenon DEF Context
<1>3. CASE Start(e) \/ DeadlinePasses(e)
  BY <1>2, <1>3, Zenon DEF Start, DeadlinePasses, Next
<1>4. CASE \E k \in Key : LockKey(e, k) \/ WithLock(e, k)
  BY <1>2, <1>4, Zenon DEF LockKey, WithLock, Acquire, Next
<1>5. CASE InLock(e)
  <2>1. Lease(e) \in Call
    BY <1>5, LeaseIsCall, Zenon DEF InLock, Proceed, Acquired, Returned
  <2> QED
    BY <1>5, <2>1, Zenon DEF InLock, Proceed, Acquired, Returned, Next, CallStep
<1>6. CASE EndScope(e)
  <2>1. CASE Innermost(e).owned
    BY <1>6, <2>1, Zenon DEF EndScope
  <2>2. CASE ~Innermost(e).owned
    <3>1. Innermost(e).key \in Key
      <4>1. scopes[e] \in Seq(Scope) /\ Len(scopes[e]) \in Nat \ {0}
        BY <1>6 DEF EndScope, ScriptInv, ScriptType
      <4>2. scopes[e][Len(scopes[e])] \in Scope
        BY <4>1
      <4> QED
        BY <4>2, Zenon DEF Scope, Innermost
    <3> QED
      BY <1>2, <1>6, <2>2, <3>1, Zenon DEF EndScope, ReleaseLease, Next
  <2> QED
    BY <2>1, <2>2, Zenon
<1>7. CASE Exit(e)
  BY <1>7, Zenon DEF Exit
<1>8. CASE ReleaseLeases(e)
  BY <1>2, <1>8, Zenon DEF ReleaseLeases, ReleaseLease, ScriptInv, ScriptType, Next
<1> QED
  BY <1>1, <1>3, <1>4, <1>5, <1>6, <1>7, <1>8, Zenon

\* The step leaves every execution but e alone.
OnlyExec(e) ==
  \A d \in Exec \ {e} :
    /\ run'[d] = run[d] /\ leases'[d] = leases[d] /\ scopes'[d] = scopes[d] /\ call'[d] = call[d]
    /\ \A k \in Key : pc'[<<d, k>>] = pc[<<d, k>>] /\ (<<d, k>> \in expired' <=> <<d, k>> \in expired)

\* What is left to show of a step of e.
LEMMA ExecStep ==
  ASSUME ScriptInv, ScriptType', NEW e \in Exec, OnlyExec(e), ExecOK(e)'
  PROVE  ScriptInv'
<1> SUFFICES ASSUME NEW d \in Exec, d # e PROVE ExecOK(d)'
  BY Zenon DEF ScriptInv
<1>1. /\ run'[d] = run[d] /\ leases'[d] = leases[d] /\ scopes'[d] = scopes[d] /\ call'[d] = call[d]
      /\ \A k \in Key : pc'[<<d, k>>] = pc[<<d, k>>] /\ (<<d, k>> \in expired' <=> <<d, k>> \in expired)
  BY Zenon DEF OnlyExec
<1>2. ExecOK(d)
  BY Zenon DEF ScriptInv
<1>3. LeaseOK(d)'
  BY <1>1, <1>2 DEF ExecOK, LeaseOK, InCall
<1>4. OneContext(d)' /\ ScopesOK(d)'
  BY <1>1, <1>2, Zenon DEF ExecOK, OneContext, ScopesOK
<1> QED
  BY <1>3, <1>4, Zenon DEF ExecOK

\* The calls of an execution move together in and out of their deadline.
LEMMA ContextStep ==
  ASSUME ScriptInv, NEW e \in Exec, UNCHANGED <<pc, leases, scopes, call>>,
         expired' = expired \cup Context(e) \/ expired' = expired \ Context(e) \/ expired' = expired,
         run' = run \/ run' = [run EXCEPT ![e] = "running"]
  PROVE  ScriptInv'
<1>1. ScriptType'
  BY Zenon DEF ScriptInv, ScriptType
<1>2. \A d \in Exec, k \in Key : <<d, k>> \in Context(e) <=> d = e
  BY Zenon DEF Context
<1>3. OnlyExec(e)
  BY <1>2, Zenon DEF OnlyExec, ScriptInv, ScriptType
<1>4. OneContext(e)'
  BY <1>2, Zenon DEF ScriptInv, ExecOK, OneContext
<1>5. LeaseOK(e)'
  BY Zenon DEF ScriptInv, ExecOK, LeaseOK, InCall
<1>6. ScopesOK(e)'
  BY Zenon DEF ScriptInv, ScriptType, ExecOK, ScopesOK
<1> QED
  BY <1>1, <1>3, <1>4, <1>5, <1>6, ExecStep, Zenon DEF ExecOK

\* A step of the lock for the call <<e, k>> moves no other call.
LEMMA CallMove ==
  ASSUME ScriptInv, NEW e \in Exec, NEW k \in Key, NEW from, NEW to \in Where, Goto(<<e, k>>, from, to),
         UNCHANGED expired
  PROVE  /\ pc[<<e, k>>] = from /\ pc'[<<e, k>>] = to
         /\ \A d \in Exec, j \in Key : <<d, j>> # <<e, k>> => pc'[<<d, j>>] = pc[<<d, j>>]
         /\ pc' \in [Call -> Where] /\ OneContext(e)'
<1>1. pc \in [Call -> Where]
  BY Zenon DEF ScriptInv, ScriptType
<1>2. \A d \in Exec, j \in Key : <<d, j>> \in Call
  BY ScriptCalls, Zenon
<1> QED
  BY <1>1, <1>2, Zenon DEF Goto, ScriptInv, ExecOK, OneContext

\* AcquireLock begins: the execution is inside the lock, under no scope.
LEMMA AcquireStep ==
  ASSUME ScriptInv, NEW e \in Exec, NEW k \in Key, NEW s \in BOOLEAN, Acquire(e, k, s),
         run[e] = "running", call[e] = NoCall
  PROVE  ScriptInv'
<1>1. /\ Goto(<<e, k>>, "idle", "select") /\ UNCHANGED <<run, leases, scopes, expired>>
      /\ call' = [call EXCEPT ![e] = [key |-> k, scoped |-> s]] /\ scopes[e] = <<>>
  BY Zenon DEF Acquire, Lookup
<1>2. /\ pc'[<<e, k>>] = "select" /\ pc' \in [Call -> Where] /\ OneContext(e)'
      /\ \A d \in Exec, j \in Key : <<d, j>> # <<e, k>> => pc'[<<d, j>>] = pc[<<d, j>>]
  BY <1>1, CallMove, Zenon DEF Where
<1>3. ScriptType' /\ OnlyExec(e)
  BY <1>1, <1>2, Zenon DEF ScriptInv, ScriptType, OnlyExec, CallRecord
<1>4. call'[e] = [key |-> k, scoped |-> s] /\ call'[e] # NoCall
  BY <1>1, ScriptCalls DEF ScriptInv, ScriptType
<1>5. \A j \in Key : InCall(e, j)' <=> j = k
  BY <1>4 DEF InCall
<1>6. LeaseOK(e)'
  BY <1>1, <1>2, <1>5 DEF ScriptInv, ExecOK, LeaseOK, InCall
<1>7. ScopesOK(e)'
  BY <1>1, <1>4, Zenon DEF ScriptInv, ExecOK, ScopesOK
<1> QED
  BY <1>2, <1>3, <1>6, <1>7, ExecStep, Zenon DEF ExecOK

\* withLock inside its own scope borrows the lease.
LEMMA BorrowStep ==
  ASSUME ScriptInv, NEW e \in Exec, NEW k \in leases[e], run[e] = "running", call[e] = NoCall,
         scopes' = [scopes EXCEPT ![e] = Append(@, [key |-> k, owned |-> TRUE])],
         UNCHANGED <<vars, run, leases, call>>
  PROVE  ScriptInv'
<1>2. UNCHANGED <<pc, expired>>
  BY Zenon DEF vars
<1>3. scopes[e] \in Seq(Scope) /\ k \in Key
  BY Zenon DEF ScriptInv, ScriptType
<1>4. [key |-> k, owned |-> TRUE] \in Scope
  BY <1>3, Zenon DEF Scope
<1>5. scopes'[e] = Append(scopes[e], [key |-> k, owned |-> TRUE])
  BY Zenon DEF ScriptInv, ScriptType
<1>6. ScriptType'
  BY <1>2, <1>3, <1>4 DEF ScriptInv, ScriptType
<1>7. OnlyExec(e)
  BY <1>2, Zenon DEF ScriptInv, ScriptType, OnlyExec
<1>8. LeaseOK(e)' /\ OneContext(e)'
  BY <1>2, Zenon DEF ScriptInv, ExecOK, LeaseOK, InCall, OneContext
<1>9. ASSUME NEW i \in 1 .. Len(scopes'[e])
      PROVE  scopes'[e][i].key \in leases[e] /\ (i # 1 => scopes'[e][i].owned)
  <2>1. CASE i \in 1 .. Len(scopes[e])
    <3>1. scopes'[e][i] = scopes[e][i]
      BY <1>3, <1>5, <2>1
    <3> QED
      BY <2>1, <3>1, Zenon DEF ScriptInv, ExecOK, ScopesOK
  <2>2. CASE i \notin 1 .. Len(scopes[e])
    <3>1. scopes'[e][i] = [key |-> k, owned |-> TRUE]
      BY <1>3, <1>5, <2>2
    <3> QED
      BY <3>1
  <2> QED
    BY <2>1, <2>2, Zenon
<1>10. ScopesOK(e)'
  BY <1>9, Zenon DEF ScopesOK
<1> QED
  BY <1>6, <1>7, <1>8, <1>10, ExecStep, Zenon DEF ExecOK

\* The steps inside AcquireLock and Release.
LEMMA ProceedStep ==
  ASSUME ScriptInv, NEW e \in Exec, Proceed(e)
  PROVE  ScriptInv'
<1>1. PICK k \in Key : Lease(e) = <<e, k>> /\ call[e].key = k /\ call[e] # NoCall
  BY LeaseIsCall, Zenon DEF Proceed
<1>2. PICK from, to \in {"select", "check", "send", "unref"} :
        Goto(<<e, k>>, from, to) /\ UNCHANGED expired
  BY <1>1, Zenon DEF Proceed, Take, Timeout, Send
<1>3. /\ pc'[<<e, k>>] = to /\ pc' \in [Call -> Where] /\ OneContext(e)'
      /\ \A d \in Exec, j \in Key : <<d, j>> # <<e, k>> => pc'[<<d, j>>] = pc[<<d, j>>]
  BY <1>2, CallMove DEF Where
<1>4. UNCHANGED <<run, leases, scopes, call>>
  BY Zenon DEF Proceed
<1>5. ScriptType' /\ OnlyExec(e)
  BY <1>2, <1>3, <1>4, Zenon DEF ScriptInv, ScriptType, OnlyExec
<1>6. LeaseOK(e)'
  BY <1>1, <1>3, <1>4 DEF ScriptInv, ExecOK, LeaseOK, InCall
<1>7. ScopesOK(e)'
  BY <1>4, Zenon DEF ScriptInv, ExecOK, ScopesOK
<1> QED
  BY <1>3, <1>5, <1>6, <1>7, ExecStep, Zenon DEF ExecOK

\* A lease in hand is recorded together with the scope that runs under it.
LEMMA AcquiredStep ==
  ASSUME ScriptInv, NEW e \in Exec, Acquired(e)
  PROVE  ScriptInv'
<1>1. PICK k \in Key : Lease(e) = <<e, k>> /\ call[e].key = k /\ call[e] # NoCall
  BY LeaseIsCall, Zenon DEF Acquired
<1>2. /\ Goto(<<e, k>>, "check", IF <<e, k>> \in expired THEN "send" ELSE "held")
      /\ UNCHANGED expired
  BY <1>1, Zenon DEF Acquired, Check
<1>3. /\ pc'[<<e, k>>] = IF <<e, k>> \in expired THEN "send" ELSE "held"
      /\ pc' \in [Call -> Where] /\ OneContext(e)'
      /\ \A d \in Exec, j \in Key : <<d, j>> # <<e, k>> => pc'[<<d, j>>] = pc[<<d, j>>]
  BY <1>2, CallMove, Zenon DEF Where
<1>4. TimedOut(e) <=> <<e, k>> \in expired
  BY DEF TimedOut, Context, ScriptInv, ExecOK, OneContext
<1>5. run[e] # "idle" /\ scopes[e] = <<>> /\ run' = run
  BY <1>1, Zenon DEF Acquired, ScriptInv, ExecOK, ScopesOK
<1>6. CASE TimedOut(e)
  <2>1. UNCHANGED <<run, leases, scopes, call>>
    BY <1>6, Zenon DEF Acquired
  <2>2. ScriptType' /\ OnlyExec(e)
    BY <1>2, <1>3, <2>1, Zenon DEF ScriptInv, ScriptType, OnlyExec
  <2>3. LeaseOK(e)'
    BY <1>1, <1>3, <1>4, <1>6, <2>1 DEF ScriptInv, ExecOK, LeaseOK, InCall
  <2>4. ScopesOK(e)'
    BY <2>1, Zenon DEF ScriptInv, ExecOK, ScopesOK
  <2> QED
    BY <1>3, <2>2, <2>3, <2>4, ExecStep, Zenon DEF ExecOK
<1>7. CASE ~TimedOut(e)
  <2>1. /\ leases' = [leases EXCEPT ![e] = @ \cup {k}]
        /\ call' = [call EXCEPT ![e] = NoCall]
        /\ scopes' = scopes \/ scopes' = [scopes EXCEPT ![e] = <<[key |-> k, owned |-> FALSE]>>]
    BY <1>1, <1>7, Zenon DEF Acquired
  <2>2. ScriptType'
    <3>1. <<[key |-> k, owned |-> FALSE]>> \in Seq(Scope)
      BY DEF Scope
    <3> QED
      BY <1>3, <1>5, <2>1, <3>1, Zenon DEF ScriptInv, ScriptType
  <2>3. OnlyExec(e)
    BY <1>2, <1>3, <1>5, <2>1, Zenon DEF ScriptInv, ScriptType, OnlyExec
  <2>4. leases'[e] = leases[e] \cup {k} /\ call'[e] = NoCall
    BY <2>1, Zenon DEF ScriptInv, ScriptType
  <2>5. LeaseOK(e)'
    BY <1>1, <1>3, <1>4, <1>7, <2>4 DEF ScriptInv, ExecOK, LeaseOK, InCall
  <2>6. scopes'[e] = <<>> \/ scopes'[e] = <<[key |-> k, owned |-> FALSE]>>
    BY <1>5, <2>1, Zenon DEF ScriptInv, ScriptType
  <2>7. scopes'[e] # <<>> => run[e] = "running"
    BY <1>1, <1>5, <1>7, Zenon DEF Acquired, ScriptInv, ExecOK, ScopesOK
  <2>8. ScopesOK(e)'
    <3>1. CASE scopes'[e] = <<>>
      BY <1>5, <2>4, <3>1 DEF ScopesOK
    <3>2. CASE scopes'[e] = <<[key |-> k, owned |-> FALSE]>>
      <4>1. /\ \A i \in 1 .. Len(scopes'[e]) : i = 1 /\ scopes'[e][i].key = k
            /\ run[e] = "running"
        BY <2>7, <3>2
      <4> QED
        BY <1>5, <2>4, <4>1, Zenon DEF ScopesOK
    <3> QED
      BY <2>6, <3>1, <3>2, Zenon
  <2> QED
    BY <1>3, <2>2, <2>3, <2>5, <2>8, ExecStep, Zenon DEF ExecOK
<1> QED
  BY <1>6, <1>7, Zenon

\* The end of Release, or of an AcquireLock that failed.
LEMMA ReturnedStep ==
  ASSUME ScriptInv, NEW e \in Exec, Returned(e)
  PROVE  ScriptInv'
<1>1. PICK k \in Key : Lease(e) = <<e, k>> /\ call[e].key = k /\ call[e] # NoCall
  BY LeaseIsCall, Zenon DEF Returned
<1>2. Goto(<<e, k>>, "unref", "idle") /\ UNCHANGED expired
  BY <1>1, Zenon DEF Returned, Unref
<1>3. /\ pc'[<<e, k>>] = "idle" /\ pc' \in [Call -> Where] /\ OneContext(e)'
      /\ \A d \in Exec, j \in Key : <<d, j>> # <<e, k>> => pc'[<<d, j>>] = pc[<<d, j>>]
  BY <1>2, CallMove, Zenon DEF Where
<1>4. /\ UNCHANGED <<run, scopes>> /\ scopes[e] = <<>> /\ run[e] # "idle"
      /\ leases' = [leases EXCEPT ![e] = @ \ {k}] /\ call' = [call EXCEPT ![e] = NoCall]
  BY <1>1, Zenon DEF Returned, ScriptInv, ExecOK, ScopesOK
<1>5. ScriptType' /\ OnlyExec(e)
  BY <1>2, <1>3, <1>4, Zenon DEF ScriptInv, ScriptType, OnlyExec
<1>6. leases'[e] = leases[e] \ {k} /\ call'[e] = NoCall
  BY <1>4, Zenon DEF ScriptInv, ScriptType
<1>7. LeaseOK(e)'
  BY <1>1, <1>3, <1>6 DEF ScriptInv, ExecOK, LeaseOK, InCall
<1>8. ScopesOK(e)'
  BY <1>4, <1>6 DEF ScopesOK
<1> QED
  BY <1>3, <1>5, <1>7, <1>8, ExecStep, Zenon DEF ExecOK

\* Release begins; no callback runs under the lease any more.
LEMMA ReleaseStep ==
  ASSUME ScriptInv, NEW e \in Exec, NEW k \in Key, ReleaseLease(e, k),
         run[e] # "idle", call[e] = NoCall, UNCHANGED <<run, leases>>,
         scopes' \in [Exec -> Seq(Scope)], scopes'[e] = <<>>,
         \A d \in Exec \ {e} : scopes'[d] = scopes[d]
  PROVE  ScriptInv'
<1>1. /\ Goto(<<e, k>>, "held", "send") /\ UNCHANGED expired
      /\ call' = [call EXCEPT ![e] = [key |-> k, scoped |-> FALSE]]
  BY Zenon DEF ReleaseLease, Release
<1>2. /\ pc'[<<e, k>>] = "send" /\ pc' \in [Call -> Where] /\ OneContext(e)'
      /\ \A d \in Exec, j \in Key : <<d, j>> # <<e, k>> => pc'[<<d, j>>] = pc[<<d, j>>]
  BY <1>1, CallMove, Zenon DEF Where
<1>3. ScriptType' /\ OnlyExec(e)
  BY <1>1, <1>2, Zenon DEF ScriptInv, ScriptType, OnlyExec, CallRecord
<1>4. call'[e] = [key |-> k, scoped |-> FALSE] /\ [key |-> k, scoped |-> FALSE] \in CallRecord
  BY <1>1, Zenon DEF ScriptInv, ScriptType, CallRecord
<1>5. call'[e] # NoCall
  BY <1>4, ScriptCalls, Zenon DEF CallRecord
<1>6. \A j \in Key : InCall(e, j)' <=> j = k
  BY <1>4, <1>5 DEF InCall
<1>7. LeaseOK(e)'
  <2>1. \A j \in Key \ {k} : pc'[<<e, j>>] = IF j \in leases[e] THEN "held" ELSE "idle"
    BY <1>2 DEF ScriptInv, ExecOK, LeaseOK, InCall
  <2> QED
    BY <1>2, <1>6, <2>1, Zenon DEF LeaseOK
<1>8. ScopesOK(e)'
  BY <1>4 DEF ScopesOK
<1> QED
  BY <1>2, <1>3, <1>7, <1>8, ExecStep, Zenon DEF ExecOK

\* Only the outermost callback gives the lease back, so none is left under it.
LEMMA EndScopeStep ==
  ASSUME ScriptInv, NEW e \in Exec, EndScope(e)
  PROVE  ScriptInv'
<1> DEFINE s == scopes[e]
           n == Len(s)
<1>1. /\ run[e] = "running" /\ call[e] = NoCall /\ s # <<>> /\ UNCHANGED <<run, leases>>
      /\ scopes' = [scopes EXCEPT ![e] = SubSeq(s, 1, n - 1)]
  BY Zenon DEF EndScope, Outer
<1>2. s \in Seq(Scope) /\ n \in Nat \ {0}
  BY <1>1 DEF ScriptInv, ScriptType
<1>3. /\ SubSeq(s, 1, n - 1) \in Seq(Scope) /\ Len(SubSeq(s, 1, n - 1)) = n - 1
      /\ \A i \in 1 .. n - 1 : SubSeq(s, 1, n - 1)[i] = s[i]
  BY <1>2
<1>4. scopes' \in [Exec -> Seq(Scope)] /\ scopes'[e] = SubSeq(s, 1, n - 1)
      /\ \A d \in Exec \ {e} : scopes'[d] = scopes[d]
  BY <1>1, <1>3, Zenon DEF ScriptInv, ScriptType
<1>5. \A i \in 1 .. n : s[i].key \in leases[e] /\ (i # 1 => s[i].owned)
  BY Zenon DEF ScriptInv, ExecOK, ScopesOK
<1>6. CASE s[n].owned
  <2>1. UNCHANGED <<vars, call>>
    BY <1>6, Zenon DEF EndScope, Innermost
  <2>2. UNCHANGED <<pc, expired>>
    BY <2>1, Zenon DEF vars
  <2>3. ScriptType' /\ OnlyExec(e)
    BY <1>1, <1>4, <2>1, <2>2, Zenon DEF ScriptInv, ScriptType, OnlyExec
  <2>4. LeaseOK(e)' /\ OneContext(e)'
    BY <1>1, <2>1, <2>2, Zenon DEF ScriptInv, ExecOK, LeaseOK, InCall, OneContext
  <2>5. \A i \in 1 .. n - 1 : scopes'[e][i].key \in leases[e] /\ (i # 1 => scopes'[e][i].owned)
    BY <1>2, <1>3, <1>4, <1>5
  <2>6. ScopesOK(e)'
    BY <1>1, <1>3, <1>4, <2>1, <2>5, Zenon DEF ScopesOK
  <2> QED
    BY <2>3, <2>4, <2>6, ExecStep, Zenon DEF ExecOK
<1>7. CASE ~s[n].owned
  <2>0. n \in 1 .. n
    BY <1>2
  <2>1. n = 1
    BY <1>5, <1>7, <2>0, Zenon
  <2>2. scopes'[e] = <<>>
    BY <1>2, <1>4, <2>1
  <2>3. ReleaseLease(e, s[n].key) /\ s[n].key \in Key
    BY <1>2, <1>5, <1>7 DEF EndScope, Innermost, ScriptInv, ScriptType
  <2> QED
    BY <1>1, <1>4, <2>2, <2>3, ReleaseStep, Zenon
<1> QED
  BY <1>6, <1>7, Zenon

\* The script ends outside every scope.
LEMMA ExitStep ==
  ASSUME ScriptInv, NEW e \in Exec, NEW next \in {"exiting", "idle"},
         run' = [run EXCEPT ![e] = next], UNCHANGED <<vars, leases, scopes, call>>,
         scopes[e] = <<>>, call[e] = NoCall, next = "idle" => leases[e] = {}
  PROVE  ScriptInv'
<1>1. UNCHANGED <<pc, expired>> /\ run'[e] = next
  BY Zenon DEF vars, ScriptInv, ScriptType
<1>2. ScriptType' /\ OnlyExec(e)
  BY <1>1, Zenon DEF ScriptInv, ScriptType, OnlyExec
<1>3. LeaseOK(e)' /\ OneContext(e)'
  BY <1>1, Zenon DEF ScriptInv, ExecOK, LeaseOK, InCall, OneContext
<1>4. ScopesOK(e)'
  BY <1>1 DEF ScopesOK
<1> QED
  BY <1>2, <1>3, <1>4, ExecStep, Zenon DEF ExecOK

\* Execute's deferred function releases one lease after the other.
LEMMA ReleaseLeasesStep ==
  ASSUME ScriptInv, NEW e \in Exec, ReleaseLeases(e)
  PROVE  ScriptInv'
<1>1. /\ run[e] = "exiting" /\ call[e] = NoCall /\ UNCHANGED <<leases, scopes>> /\ scopes[e] = <<>>
  BY Zenon DEF ReleaseLeases, ScriptInv, ExecOK, ScopesOK
<1>2. ASSUME NEW k \in leases[e], ReleaseLease(e, k), UNCHANGED run PROVE ScriptInv'
  <2>1. k \in Key /\ scopes' \in [Exec -> Seq(Scope)]
    BY <1>1, Zenon DEF ScriptInv, ScriptType
  <2> QED
    BY <1>1, <1>2, <2>1, ReleaseStep, Zenon
<1>3. CASE leases[e] = {} /\ run' = [run EXCEPT ![e] = "idle"] /\ UNCHANGED <<vars, call>>
  BY <1>1, <1>3, ExitStep, Zenon
<1> QED
  BY <1>2, <1>3, Zenon DEF ReleaseLeases

\* No step of any script breaks the invariant.
LEMMA ScriptNextInv == ScriptInv /\ [ScriptNext]_scriptVars => ScriptInv'
<1> SUFFICES ASSUME ScriptInv, [ScriptNext]_scriptVars PROVE ScriptInv'
  BY Zenon
<1>1. ASSUME NEW e \in Exec, Start(e) PROVE ScriptInv'
  BY <1>1, ContextStep, Zenon DEF Start, NewContext, vars
<1>2. ASSUME NEW e \in Exec, DeadlinePasses(e) PROVE ScriptInv'
  BY <1>2, ContextStep, Zenon DEF DeadlinePasses, Expire
<1>3. ASSUME NEW e \in Exec, NEW k \in Key, LockKey(e, k) PROVE ScriptInv'
  BY <1>3, AcquireStep, Zenon DEF LockKey, Interpreting
<1>4. ASSUME NEW e \in Exec, NEW k \in Key, WithLock(e, k) PROVE ScriptInv'
  BY <1>4, AcquireStep, BorrowStep, Zenon DEF WithLock, Interpreting
<1>5. ASSUME NEW e \in Exec, InLock(e) PROVE ScriptInv'
  BY <1>5, ProceedStep, AcquiredStep, ReturnedStep, Zenon DEF InLock
<1>6. ASSUME NEW e \in Exec, EndScope(e) PROVE ScriptInv'
  BY <1>6, EndScopeStep, Zenon
<1>7. ASSUME NEW e \in Exec, Exit(e) PROVE ScriptInv'
  BY <1>7, ExitStep, Zenon DEF Exit
<1>8. ASSUME NEW e \in Exec, ReleaseLeases(e) PROVE ScriptInv'
  BY <1>8, ReleaseLeasesStep
<1>9. CASE UNCHANGED scriptVars
  <2>1. UNCHANGED <<pc, expired, run, leases, scopes, call>>
    BY <1>9, Zenon DEF scriptVars, vars
  <2>2. ScriptType'
    BY <2>1, Zenon DEF ScriptInv, ScriptType
  <2>3. \A e \in Exec : ExecOK(e)'
    BY <2>1 DEF ScriptInv, ExecOK, LeaseOK, InCall, OneContext, ScopesOK
  <2> QED
    BY <2>2, <2>3, Zenon DEF ScriptInv
<1> QED
  BY <1>1, <1>2, <1>3, <1>4, <1>5, <1>6, <1>7, <1>8, <1>9, Zenon DEF ScriptNext

\* Scripts use the lock only as its own specification allows, whatever they lock
\* and however they end.
THEOREM ScriptsUseTheLock == ScriptSpec => Spec
<1>1. ScriptInit => Init
  BY Zenon DEF ScriptInit
<1> QED
  BY <1>1, ScriptInitInv, ScriptNextInv, ScriptIsLockStep, PTL DEF ScriptSpec, Spec

\* A callback of withLock runs under its lease to the end, nested calls and
\* errors included (lua_cache_module.go).
THEOREM ScopesRunUnderLease == ScriptSpec => []ScopeKeepsLease
<1>1. ScriptInv => ScopeKeepsLease
  <2> SUFFICES ASSUME ScriptInv, NEW e \in Exec, NEW i \in DOMAIN scopes[e]
               PROVE  scopes[e][i].key \in leases[e] /\ pc[<<e, scopes[e][i].key>>] = "held"
    BY Zenon DEF ScopeKeepsLease
  <2>1. scopes[e] \in Seq(Scope) /\ i \in 1 .. Len(scopes[e]) /\ scopes[e] # <<>>
    BY DEF ScriptInv, ScriptType
  <2>2. call[e] = NoCall /\ scopes[e][i].key \in leases[e]
    BY <2>1, Zenon DEF ScriptInv, ExecOK, ScopesOK
  <2>3. scopes[e][i].key \in Key
    BY <2>2, Zenon DEF ScriptInv, ScriptType
  <2> QED
    BY <2>2, <2>3, Zenon DEF ScriptInv, ExecOK, LeaseOK, InCall
<1> QED
  BY <1>1, ScriptInitInv, ScriptNextInv, PTL DEF ScriptSpec

\* "Locks belong to this execution, including early returns and script errors":
\* an ended execution has no call on any key.
THEOREM ScriptsLeaveNothing == ScriptSpec => []NothingHeldAfterExit
<1>1. ScriptInv => NothingHeldAfterExit
  BY Zenon DEF ScriptInv, ExecOK, ScopesOK, LeaseOK, InCall, NothingHeldAfterExit
<1> QED
  BY <1>1, ScriptInitInv, ScriptNextInv, PTL DEF ScriptSpec

-----------------------------------------------------------------------------
(* The lock over Redis. *)

LkWhere == {"idle", "setnx", "check", "held", "stopping", "unlock", "last", "failed", "released"}

LkTypeOK ==
  /\ localLock \in [Process -> LCall \cup {NoOwner}]
  /\ owner \in LCall \cup {NoOwner} /\ leaseLeft \in 0 .. LeaseTicks
  /\ lkAt \in [LCall -> LkWhere]
  /\ lkLate \subseteq LCall /\ cancelled \subseteq LCall
  /\ silent \in [LCall -> 0 .. LeaseTicks]

\* From LockLocal to ReleaseLocal a call has the lock of its process.
HasLocal == \A p \in LCall : lkAt[p] = "setnx" \/ Holding(p) => localLock[ProcessOf[p]] = p

\* The key exists while its lease runs, and the age of a lease that is still
\* its holder's is the time that the holder has been silent.
KeyHasLease == owner # NoOwner <=> leaseLeft > 0
AgeIsSilence ==
  \A p \in LCall : lkAt[p] \in {"check", "held"} =>
    silent[p] = IF owner = p THEN LeaseTicks - leaseLeft ELSE LeaseTicks

LeaseInv == LkTypeOK /\ HasLocal /\ KeyHasLease /\ AgeIsSilence

-----------------------------------------------------------------------------
\* No call has begun.
LEMMA LeaseInit == LkInit => LeaseInv
  BY LkAssumption DEF LkInit, LeaseInv, LkTypeOK, LkWhere, HasLocal, KeyHasLease, AgeIsSilence, Holding

\* A call takes and gives up the lock of its own process only.
LEMMA HasLocalStep == LeaseInv /\ [LkNext]_lkVars => HasLocal'
<1> SUFFICES ASSUME LeaseInv, [LkNext]_lkVars PROVE HasLocal'
  BY Zenon
<1> USE LkAssumption DEF LeaseInv, LkTypeOK, HasLocal, Holding
<1>1. ASSUME NEW p \in LCall, LkStep(p) PROVE HasLocal'
  BY <1>1 DEF LkStep, LockLocal, LockLocalTimesOut, SetNX, SetNXFails, CheckContext, StopRenewal,
              CompareAndDelete, ReleaseLocal, LkGoto, LkUnlock
<1>2. ASSUME NEW p \in LCall, Renew(p) \/ RenewFails(p) \/ LkRelease(p) \/ Deadline(p) PROVE HasLocal'
  BY <1>2 DEF Renew, RenewFails, LkRelease, Deadline, LkGoto
<1>3. CASE LkTick \/ UNCHANGED lkVars
  BY <1>3, Zenon DEF LkTick, lkVars
<1> QED
  BY <1>1, <1>2, <1>3, Zenon DEF LkNext

\* Types.
LEMMA LkTypeStep == LeaseInv /\ [LkNext]_lkVars => LkTypeOK'
<1> SUFFICES ASSUME LeaseInv, [LkNext]_lkVars PROVE LkTypeOK'
  OBVIOUS
<1> USE LkAssumption DEF LeaseInv, LkTypeOK, LkWhere
<1>1. ASSUME NEW p \in LCall, LkStep(p) PROVE LkTypeOK'
  BY <1>1 DEF LkStep, LockLocal, LockLocalTimesOut, SetNX, SetNXFails, CheckContext, StopRenewal,
              CompareAndDelete, ReleaseLocal, LkGoto, LkUnlock
<1>2. ASSUME NEW p \in LCall, Renew(p) \/ RenewFails(p) \/ LkRelease(p) \/ Deadline(p) PROVE LkTypeOK'
  BY <1>2 DEF Renew, RenewFails, LkRelease, Deadline, LkGoto
<1>3. CASE LkTick
  BY <1>3 DEF LkTick
<1>4. CASE UNCHANGED lkVars
  BY <1>4, Zenon DEF lkVars
<1> QED
  BY <1>1, <1>2, <1>3, <1>4, Zenon DEF LkNext

\* A lease is set together with its expiry and the silence of its holder; a
\* tick ages all three.
LEMMA LeaseStep == LeaseInv /\ [LkNext]_lkVars => KeyHasLease' /\ AgeIsSilence'
<1> SUFFICES ASSUME LeaseInv, [LkNext]_lkVars PROVE KeyHasLease' /\ AgeIsSilence'
  BY Zenon
<1> USE LkAssumption DEF LeaseInv, LkTypeOK, KeyHasLease, AgeIsSilence
<1>1. ASSUME NEW p \in LCall, LkStep(p) PROVE KeyHasLease' /\ AgeIsSilence'
  <2>1. CASE SetNX(p)
    BY <2>1 DEF SetNX, LkGoto
  <2>2. CASE SetNXFails(p)
    BY <2>2 DEF SetNXFails, LkGoto
  <2>3. CASE CompareAndDelete(p)
    BY <2>3 DEF CompareAndDelete, LkGoto
  <2>4. CASE LockLocal(p) \/ LockLocalTimesOut(p) \/ CheckContext(p) \/ StopRenewal(p) \/ ReleaseLocal(p)
    BY <2>4 DEF LockLocal, LockLocalTimesOut, CheckContext, StopRenewal, ReleaseLocal, LkGoto
  <2> QED
    BY <1>1, <2>1, <2>2, <2>3, <2>4, Zenon DEF LkStep
<1>2. ASSUME NEW p \in LCall, Renew(p) \/ RenewFails(p) \/ LkRelease(p) \/ Deadline(p)
      PROVE  KeyHasLease' /\ AgeIsSilence'
  BY <1>2 DEF Renew, RenewFails, LkRelease, Deadline, LkGoto
<1>3. CASE LkTick
  <2>1. KeyHasLease'
    BY <1>3 DEF LkTick
  <2>2. ASSUME NEW p \in LCall, lkAt'[p] \in {"check", "held"}
        PROVE  silent'[p] = IF owner' = p THEN LeaseTicks - leaseLeft' ELSE LeaseTicks
    <3>1. /\ lkAt[p] \in {"check", "held"} /\ Holding(p)
          /\ silent'[p] = IF silent[p] < LeaseTicks THEN silent[p] + 1 ELSE silent[p]
      BY <1>3, <2>2, Zenon DEF LkTick, Holding
    <3> QED
      BY <1>3, <2>2, <3>1 DEF LkTick
  <2> QED
    BY <2>1, <2>2, Zenon
<1>4. CASE UNCHANGED lkVars
  BY <1>4, Zenon DEF lkVars
<1> QED
  BY <1>1, <1>2, <1>3, <1>4, Zenon DEF LkNext

\* What every step of AcquireLock, of the renewals and of the release preserves
\* (redis_cache_lock.go).
THEOREM LeaseInvariant == LkSpec => []LeaseInv
<1>1. LeaseInv /\ [LkNext]_lkVars => LeaseInv'
  BY HasLocalStep, LkTypeStep, LeaseStep, Zenon DEF LeaseInv
<1> QED
  BY <1>1, LeaseInit, PTL DEF LkSpec

\* "A blocked native callback must finish before another local execution can
\* enter": two calls of one process never hold together, whatever becomes of
\* their leases.
THEOREM LockLocalExclusion == LkSpec => []LocalExclusion
<1>1. LeaseInv => LocalExclusion
  BY Zenon DEF LeaseInv, HasLocal, LocalExclusion
<1> QED
  BY <1>1, LeaseInvariant, PTL

\* A holder loses its lease only after a whole lease without a renewal.
THEOREM LockLostOnlyBySilence == LkSpec => []LostOnlyBySilence
<1>1. LeaseInv => LostOnlyBySilence
  BY Zenon DEF LeaseInv, AgeIsSilence, LostOnlyBySilence
<1> QED
  BY <1>1, LeaseInvariant, PTL

\* "A delayed release must not delete a later owner's lock": releaseCacheLock
\* compares the token.
THEOREM LockOnlyOwnerDeletes == LkSpec => OnlyOwnerDeletes
<1> DEFINE Keeps == \A q \in LCall : owner = q /\ owner' # q =>
                       (lkAt[q] = "unlock" /\ lkAt'[q] = "last") \/ leaseLeft = 1
<1>1. LeaseInv /\ [LkNext]_lkVars => [Keeps]_lkVars
  <2> SUFFICES ASSUME LeaseInv, LkNext, NEW q \in LCall, owner = q, owner' # q
               PROVE  (lkAt[q] = "unlock" /\ lkAt'[q] = "last") \/ leaseLeft = 1
    BY Zenon
  <2>0. owner # NoOwner /\ lkAt \in [LCall -> LkWhere] /\ leaseLeft \in Nat /\ leaseLeft > 0
    BY LkAssumption DEF LeaseInv, LkTypeOK, KeyHasLease
  <2>1. ASSUME NEW p \in LCall, LkStep(p) PROVE lkAt[q] = "unlock" /\ lkAt'[q] = "last"
    BY <2>0, <2>1, Zenon DEF LkStep, LockLocal, LockLocalTimesOut, SetNX, SetNXFails, CheckContext,
                      StopRenewal, CompareAndDelete, ReleaseLocal, LkGoto
  <2>2. ASSUME NEW p \in LCall, Renew(p) \/ RenewFails(p) \/ LkRelease(p) \/ Deadline(p) PROVE FALSE
    BY <2>2, Zenon DEF Renew, RenewFails, LkRelease, Deadline
  <2>3. CASE LkTick
    BY <2>0, <2>3 DEF LkTick
  <2> QED
    BY <2>1, <2>2, <2>3, Zenon DEF LkNext
<1> QED
  BY <1>1, LeaseInvariant, PTL DEF LkSpec, OnlyOwnerDeletes
=============================================================================
