----------------------------- MODULE CacheLock ------------------------------
(***************************************************************************)
(* The keyed lock of the in-process cache                                  *)
(* (internal/adapters/outbound/memory_cache_lock.go).  An entry of         *)
(* c.locks is created by the first AcquireLock of a key, counted by users, *)
(* and deleted by whoever counts it down to zero; its gate is a channel of *)
(* capacity one that holds the right to enter.  c.mu covers the lookup and *)
(* the unref, each one step; the select, the check of the context after    *)
(* it, and the send of the release happen outside.                         *)
(*                                                                         *)
(* A call is one execution of AcquireLock together with the Release of     *)
(* what it returned; sync.Once makes any further Release a no-op.          *)
(***************************************************************************)
EXTENDS Naturals, FiniteSets

CONSTANTS
  Key, Call,
  KeyOf,      \* the key each call asks for
  Obj,        \* lock objects; one nobody refers to any more is reused
  NoLock      \* the nil pointer

ASSUME CallAssumption ==
  /\ KeyOf \in [Call -> Key]
  /\ NoLock \notin Obj
  /\ IsFiniteSet(Call)

VARIABLES
  locks,    \* c.locks
  users,    \* users[o]
  gate,     \* gate[o]: how many tokens the channel holds
  pc,       \* pc[p]: where call p is
  obj,      \* obj[p]: the object call p looked up
  expired   \* calls whose context is past its deadline

vars == <<locks, users, gate, pc, obj, expired>>

GateCapacity == 1

Init ==
  /\ locks = [k \in Key |-> NoLock]
  /\ users = [o \in Obj |-> 0]
  /\ gate = [o \in Obj |-> 0]
  /\ pc = [p \in Call |-> "idle"]
  /\ obj = [p \in Call |-> NoLock]
  /\ expired = {}

Goto(p, from, to) == pc[p] = from /\ pc' = [pc EXCEPT ![p] = to]

\* The result of "new": an object that no entry and no call refers to.
Unreferenced(o) == (\A k \in Key : locks[k] # o) /\ (\A p \in Call : obj[p] # o)

\* Look the entry up or create it with a full gate; count the call in.
Lookup(p) ==
  /\ Goto(p, "idle", "select")
  /\ p \notin expired
  /\ \/ /\ locks[KeyOf[p]] # NoLock
        /\ obj' = [obj EXCEPT ![p] = locks[KeyOf[p]]]
        /\ users' = [users EXCEPT ![locks[KeyOf[p]]] = @ + 1]
        /\ UNCHANGED <<locks, gate>>
     \/ /\ locks[KeyOf[p]] = NoLock
        /\ \E o \in Obj :
             /\ Unreferenced(o)
             /\ locks' = [locks EXCEPT ![KeyOf[p]] = o]
             /\ obj' = [obj EXCEPT ![p] = o]
             /\ users' = [users EXCEPT ![o] = 1]
             /\ gate' = [gate EXCEPT ![o] = 1]
  /\ UNCHANGED expired

\* case <-lock.gate
Take(p) ==
  /\ Goto(p, "select", "check")
  /\ gate[obj[p]] > 0
  /\ gate' = [gate EXCEPT ![obj[p]] = @ - 1]
  /\ UNCHANGED <<locks, users, obj, expired>>

MutTimeoutWaitsForGate(p) ==
  /\ Goto(p, "select", "unref")
  /\ p \in expired
  /\ gate[obj[p]] > 0
  /\ UNCHANGED <<locks, users, gate, obj, expired>>

\* case <-ctx.Done(); select chooses at random when both are ready.
Timeout(p) ==
  /\ Goto(p, "select", "unref")
  /\ p \in expired
  /\ UNCHANGED <<locks, users, gate, obj, expired>>

\* The context is read again after the gate: a late winner gives it back.
Check(p) ==
  /\ Goto(p, "check", IF p \in expired THEN "send" ELSE "held")
  /\ UNCHANGED <<locks, users, gate, obj, expired>>

Release(p) ==
  /\ Goto(p, "held", "send")
  /\ UNCHANGED <<locks, users, gate, obj, expired>>

\* lock.gate <- struct{}{}: would block on a full channel.
Send(p) ==
  /\ Goto(p, "send", "unref")
  /\ gate[obj[p]] < GateCapacity
  /\ gate' = [gate EXCEPT ![obj[p]] = @ + 1]
  /\ UNCHANGED <<locks, users, obj, expired>>

MutUnrefDeletes(p) ==
  /\ Goto(p, "unref", "idle")
  /\ users' = [users EXCEPT ![obj[p]] = @ - 1]
  /\ locks' = [locks EXCEPT ![KeyOf[p]] = NoLock]
  /\ obj' = [obj EXCEPT ![p] = NoLock]
  /\ UNCHANGED <<gate, expired>>

Unref(p) ==
  /\ Goto(p, "unref", "idle")
  /\ users' = [users EXCEPT ![obj[p]] = @ - 1]
  /\ locks' = IF users[obj[p]] = 1 THEN [locks EXCEPT ![KeyOf[p]] = NoLock] ELSE locks
  /\ obj' = [obj EXCEPT ![p] = NoLock]
  /\ UNCHANGED <<gate, expired>>

\* A deadline passes; calls made by one script share its context.
Expire(S) ==
  /\ S # {} /\ S \cap expired = {}
  /\ expired' = expired \cup S
  /\ UNCHANGED <<locks, users, gate, pc, obj>>

\* The next calls come with a context of their own.
NewContext(S) ==
  /\ S # {} /\ S \subseteq expired
  /\ \A p \in S : pc[p] = "idle"
  /\ expired' = expired \ S
  /\ UNCHANGED <<locks, users, gate, pc, obj>>

CallStep(p) == Take(p) \/ Timeout(p) \/ Check(p) \/ Send(p) \/ Unref(p)

Next ==
  \/ \E p \in Call : Lookup(p) \/ CallStep(p) \/ Release(p)
  \/ \E S \in SUBSET Call : Expire(S) \/ NewContext(S)

Spec == Init /\ [][Next]_vars

-----------------------------------------------------------------------------
TypeOK ==
  /\ locks \in [Key -> Obj \cup {NoLock}]
  /\ users \in [Obj -> Nat]
  /\ gate \in [Obj -> 0 .. GateCapacity]
  /\ pc \in [Call -> {"idle", "select", "check", "held", "send", "unref"}]
  /\ obj \in [Call -> Obj \cup {NoLock}]
  /\ expired \subseteq Call

\* "AcquireLock serializes operations sharing a key" (ports/cache.go), although
\* the entry of a key is deleted and created anew while calls come and go.
MutualExclusion ==
  \A p, q \in Call :
    pc[p] = "held" /\ pc[q] = "held" /\ KeyOf[p] = KeyOf[q] => p = q

\* The calls that have taken the token of object o and not given it back.
Inside(o) == {p \in Call : obj[p] = o /\ pc[p] \in {"check", "held", "send"}}

\* The right to enter is neither lost nor doubled: the gate of an entry is empty
\* exactly while one call is inside.  So no release blocks on a full channel,
\* and no key is left locked by a call that has returned.
OneTokenPerEntry ==
  \A k \in Key : locks[k] # NoLock =>
    \/ gate[locks[k]] = 1 /\ Inside(locks[k]) = {}
    \/ gate[locks[k]] = 0 /\ \E p \in Call : Inside(locks[k]) = {p}

\* The calls lock.users counts.
UsersOf(o) == {p \in Call : obj[p] = o}

\* The entry of a key lives exactly as long as calls use it: each call finds its
\* own object under its key (nobody waits on an object newcomers cannot see)
\* and c.locks keeps no entry without a user.
EntryMatchesUsers ==
  /\ \A p \in Call : pc[p] # "idle" => locks[KeyOf[p]] = obj[p]
  /\ \A k \in Key : locks[k] # NoLock => UsersOf(locks[k]) # {}

CountExact ==
  \A k \in Key : locks[k] # NoLock => users[locks[k]] = Cardinality(UsersOf(locks[k]))

\* The inductive invariant behind the three: the counter of an entry is exact,
\* and no object is the entry of two keys.
LockInv ==
  /\ TypeOK
  /\ EntryMatchesUsers
  /\ OneTokenPerEntry
  /\ \A p \in Call : pc[p] = "idle" <=> obj[p] = NoLock
  /\ CountExact
  /\ \A j, k \in Key : locks[j] = locks[k] /\ locks[j] # NoLock => j = k
=============================================================================
