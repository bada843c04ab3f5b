---------------------------- MODULE ConnCallers -----------------------------
(***************************************************************************)
(* The two pool calls that use a socket after p.mu is released:            *)
(* WriteToClient (look the socket and its mutex up, lock the mutex, write, *)
(* unlock) and DisconnectClient (look the socket up, close it).  They are  *)
(* called by any number of goroutines: connection handlers, group fan-out, *)
(* scripts, the idle checker, kill timers.  conn.Write has no deadline: it *)
(* returns when the peer drains the socket or when the socket is closed.   *)
(***************************************************************************)
EXTENDS ConnPool, Sequences, TLAPS

CONSTANT Caller

VARIABLES
  open,    \* sockets neither side has closed
  holder,  \* holder[m]: the caller that has locked mutex object m
  call     \* call[w]: where caller w is, with the socket and mutex it found

callerVars == <<vars, open, holder, call>>

Nobody == "nobody"

ASSUME CallerAssumption == Nobody \notin Caller

Idle == [at |-> "idle"]
FoundWrite(c) == [at |-> "lock", conn |-> c, mu |-> writeMu[c]]
FoundClose(c) == [at |-> "close", conn |-> c]

CallersInit ==
  /\ Init
  /\ open = {}
  /\ holder = <<>>
  /\ call = [w \in Caller |-> Idle]

\* The socket is accepted and registered; Register allocates its mutex.
AcceptSocket(c) ==
  /\ Accept(c)
  /\ open' = open \cup {c}
  /\ holder' = Append(holder, Nobody)
  /\ UNCHANGED call

MutRebindFreshMutex(c, id) ==
  /\ CurrentID(c) # NoID
  /\ id \in User
  /\ CanRemap(CurrentID(c), id)
  /\ clients' = [clients EXCEPT ![CurrentID(c)] = NoConn, ![id] = c]
  /\ connToID' = [connToID EXCEPT ![c] = id]
  /\ writeMu' = [writeMu EXCEPT ![c] = nextMu]
  /\ nextMu < 4
  /\ nextMu' = nextMu + 1
  /\ holder' = Append(holder, Nobody)
  /\ UNCHANGED <<seen, clobbered, open, call>>

RebindSocket(c, id) ==
  /\ Rebind(c, id)
  /\ UNCHANGED <<open, holder, call>>

\* handleConnection's teardown unregisters first and closes the socket last.
UnregisterSocket(c) ==
  /\ Teardown(c)
  /\ UNCHANGED <<open, holder, call>>

CloseSocket(c) ==
  /\ c \in open
  /\ CurrentID(c) = NoID
  /\ open' = open \ {c}
  /\ UNCHANGED <<vars, holder, call>>

PeerCloses(c) ==
  /\ c \in open
  /\ open' = open \ {c}
  /\ UNCHANGED <<vars, holder, call>>

-----------------------------------------------------------------------------
\* WriteToClient, first half: under p.mu.  An unbound id is an error and
\* changes nothing.
WriteLookup(w, id) ==
  /\ call[w] = Idle
  /\ clients[id] # NoConn
  /\ call' = [call EXCEPT ![w] = FoundWrite(clients[id])]
  /\ UNCHANGED <<vars, open, holder>>

\* wmu.Lock() on the object found by the lookup; a nil mutex would panic.
WriteLock(w) ==
  /\ call[w].at = "lock"
  /\ call[w].mu # NoMutex
  /\ holder[call[w].mu] = Nobody
  /\ holder' = [holder EXCEPT ![call[w].mu] = w]
  /\ call' = [call EXCEPT ![w].at = "write"]
  /\ UNCHANGED <<vars, open>>

MutWriteReturnsLocked(w) ==
  /\ call[w].at = "write"
  /\ holder' = [holder EXCEPT ![call[w].mu] = IF call[w].conn \in open THEN Nobody ELSE w]
  /\ call' = [call EXCEPT ![w] = Idle]
  /\ UNCHANGED <<vars, open>>

\* conn.Write returns, with an error if the socket has been closed, and the
\* deferred Unlock runs.
WriteReturns(w) ==
  /\ call[w].at = "write"
  /\ holder' = [holder EXCEPT ![call[w].mu] = Nobody]
  /\ call' = [call EXCEPT ![w] = Idle]
  /\ UNCHANGED <<vars, open>>

PeerDrains(w) == call[w].at = "write" /\ call[w].conn \in open /\ WriteReturns(w)
WriteFails(w) == call[w].at = "write" /\ call[w].conn \notin open /\ WriteReturns(w)

\* DisconnectClient: look up under p.mu, close outside it.
DisconnectLookup(w, id) ==
  /\ call[w] = Idle
  /\ clients[id] # NoConn
  /\ call' = [call EXCEPT ![w] = FoundClose(clients[id])]
  /\ UNCHANGED <<vars, open, holder>>

DisconnectClose(w) ==
  /\ call[w].at = "close"
  /\ open' = open \ {call[w].conn}
  /\ call' = [call EXCEPT ![w] = Idle]
  /\ UNCHANGED <<vars, holder>>

\* Server shutdown closes every registered socket while holding p.mu.
CloseAll ==
  /\ open \cap {c \in Conn : connToID[c] # NoID} # {}
  /\ open' = {c \in open : connToID[c] = NoID}
  /\ UNCHANGED <<vars, holder, call>>

CallerStep(w) == WriteLock(w) \/ WriteFails(w) \/ DisconnectClose(w)

CallersNext ==
  \/ \E c \in Conn :
       \/ AcceptSocket(c)
       \/ \E id \in ID : RebindSocket(c, id)
       \/ UnregisterSocket(c)
       \/ CloseSocket(c)
       \/ PeerCloses(c)
  \/ \E w \in Caller :
       \/ \E id \in ID : WriteLookup(w, id) \/ DisconnectLookup(w, id)
       \/ PeerDrains(w)
       \/ CallerStep(w)
  \/ CloseAll

\* A runnable goroutine is scheduled: a caller that can lock, whose write has
\* failed or that is about to close the socket goes on.  Nothing makes a peer
\* drain its socket.  Go's mutex is starvation free, hence SF for the lock.
CallersFairness ==
  \A w \in Caller :
    /\ SF_callerVars(WriteLock(w))
    /\ WF_callerVars(WriteFails(w))
    /\ WF_callerVars(DisconnectClose(w))

CallersSpec == CallersInit /\ [][CallersNext]_callerVars /\ CallersFairness

-----------------------------------------------------------------------------
\* Two frames are never written to one socket at the same time, although the
\* mutex is looked up in one step and locked in another and the socket may be
\* rebound or unregistered in between.
FramesNeverInterleave ==
  \A w, v \in Caller :
    /\ w # v
    /\ call[w].at = "write"
    /\ call[v].at = "write"
    => call[w].conn # call[v].conn

\* A write blocked on a peer that does not read is freed by closing the socket:
\* once a socket is closed, every caller that holds it returns, so one
\* disconnect releases the fan-outs queued behind a stalled client.
CloseFreesCallers ==
  \A w \in Caller, c \in Conn :
    (call[w].at # "idle" /\ call[w].conn = c /\ c \in seen \ open) ~> (call[w].at = "idle")

-----------------------------------------------------------------------------
(* The pool for any number of sockets and ids.                             *)

\* The pool starts empty, which satisfies the invariant.
LEMMA InitInv == Init => PoolInv
  BY ConnAssumption DEF Init, PoolInv, TypeOK, OneToOne, MutexPerBoundConn, NoMutex

\* Register by handleConnection: whatever was bound to the remote address is
\* noted as clobbered, and the new mutex is fresh.
LEMMA AcceptInv == ASSUME PoolInv, NEW c \in Conn, Accept(c)  PROVE PoolInv'
<1> USE ConnAssumption DEF Accept, Register, BindID, NoMutex
<1>1. Addr[c] \in ID
  BY Zenon
<1>2. connToID[c] = NoID
  BY Zenon DEF PoolInv
<1>3. TypeOK'
  BY <1>1 DEF PoolInv, TypeOK
<1>4. OneToOne'
  <2>1. ASSUME NEW i \in ID, clients'[i] # NoConn  PROVE connToID'[clients'[i]] = i
    <3>1. CASE i = Addr[c]
      BY <3>1, <1>1 DEF PoolInv, TypeOK
    <3>2. CASE i # Addr[c]
      <4>1. clients'[i] = clients[i] /\ clients[i] \in Conn /\ connToID[clients[i]] = i
        BY <3>2, <2>1, <1>1, Zenon DEF PoolInv, TypeOK, OneToOne
      <4> QED
        BY <4>1, <1>2, Zenon DEF PoolInv, TypeOK
    <3> QED
      BY <3>1, <3>2, Zenon
  <2>2. ASSUME NEW d \in Conn, connToID'[d] # NoID
        PROVE  clients'[connToID'[d]] = d \/ connToID'[d] \in clobbered'
    <3>1. CASE d = c
      BY <3>1, <1>1, Zenon DEF PoolInv, TypeOK
    <3>2. CASE d # c
      <4>1. /\ connToID'[d] = connToID[d] /\ connToID[d] \in ID
            /\ clients[connToID[d]] = d \/ connToID[d] \in clobbered
        BY <3>2, <2>2, Zenon DEF PoolInv, TypeOK, OneToOne
      <4>2. CASE connToID[d] = Addr[c] /\ clients[connToID[d]] = d
        <5>1. clobbered' = clobbered \cup {Addr[c]}
          BY <4>2, Zenon
        <5> QED
          BY <5>1, <4>1, <4>2, Zenon
      <4>3. CASE connToID[d] # Addr[c]
        BY <4>1, <4>3, <1>1, Zenon DEF PoolInv, TypeOK
      <4>4. CASE connToID[d] \in clobbered
        <5>1. clobbered \subseteq clobbered'
          BY Zenon
        <5> QED
          BY <5>1, <4>1, <4>4, Zenon
      <4> QED
        BY <4>1, <4>2, <4>3, <4>4, Zenon
    <3> QED
      BY <3>1, <3>2, Zenon
  <2> QED
    BY <2>1, <2>2, Zenon DEF OneToOne
<1>5. MutexPerBoundConn'
  BY <1>1, <1>2 DEF PoolInv, TypeOK, MutexPerBoundConn
<1>6. \A d \in Conn :
        /\ connToID'[d] # NoID => d \in seen'
        /\ writeMu'[d] < nextMu'
  BY DEF PoolInv, TypeOK
<1> QED
  BY <1>3, <1>4, <1>5, <1>6, Zenon DEF PoolInv

\* RemapClientID by Logon moves the socket that the caller's id answers for, which
\* is another one than the caller's if that id was clobbered.
LEMMA RebindInv == ASSUME PoolInv, NEW c \in Conn, NEW id \in ID, Rebind(c, id)  PROVE PoolInv'
<1> DEFINE old == connToID[c]
           moved == clients[old]
<1> USE ConnAssumption DEF NoMutex
<1>1. /\ old \in ID /\ moved \in Conn /\ moved # NoConn /\ connToID[moved] = old
      /\ clients[id] \in {NoConn, moved}
      /\ clients' = [clients EXCEPT ![old] = NoConn, ![id] = moved]
      /\ connToID' = [connToID EXCEPT ![moved] = id]
      /\ UNCHANGED <<writeMu, nextMu, seen, clobbered>>
  BY Zenon DEF Rebind, CanRemap, RemapClientID, CurrentID, PoolInv, TypeOK, OneToOne
<1> HIDE DEF old, moved
<1>2. TypeOK'
  BY <1>1, Zenon DEF PoolInv, TypeOK
<1>3. /\ clients'[id] = moved
      /\ \A i \in ID : i # id => clients'[i] = IF i = old THEN NoConn ELSE clients[i]
      /\ connToID'[moved] = id
      /\ \A d \in Conn : d # moved => connToID'[d] = connToID[d]
  BY <1>1, Zenon DEF PoolInv, TypeOK
<1>4. OneToOne'
  <2>1. ASSUME NEW i \in ID, clients'[i] # NoConn  PROVE connToID'[clients'[i]] = i
    BY <2>1, <1>1, <1>3 DEF PoolInv, TypeOK, OneToOne
  <2>2. ASSUME NEW d \in Conn, connToID'[d] # NoID
        PROVE  clients'[connToID'[d]] = d \/ connToID'[d] \in clobbered
    <3>1. CASE d = moved
      BY <3>1, <1>3, Zenon
    <3>2. CASE d # moved
      <4>1. connToID'[d] = connToID[d] /\ connToID[d] \in ID
        BY <2>2, <3>2, <1>3, Zenon DEF PoolInv, TypeOK
      <4>2. clients[connToID[d]] = d \/ connToID[d] \in clobbered
        BY <2>2, <4>1, Zenon DEF PoolInv, OneToOne
      <4>3. CASE clients[connToID[d]] = d
        <5>1. connToID[d] # old /\ connToID[d] # id
          BY <4>3, <3>2, <1>1, ConnAssumption, Zenon DEF old, moved
        <5> QED
          BY <5>1, <4>1, <4>3, <1>3, Zenon
      <4> QED
        BY <4>1, <4>2, <4>3, Zenon
    <3> QED
      BY <3>1, <3>2, Zenon
  <2> QED
    BY <2>1, <2>2, <1>1, Zenon DEF OneToOne
<1>5. MutexPerBoundConn'
  BY <1>1, <1>3 DEF PoolInv, TypeOK, MutexPerBoundConn
<1>6. ASSUME NEW d \in Conn
      PROVE  /\ connToID'[d] # NoID => d \in seen'
             /\ writeMu'[d] < nextMu'
  <2>1. connToID'[d] # NoID => connToID[d] # NoID
    BY <1>1, <1>3, Zenon
  <2> QED
    BY <2>1, <1>1, Zenon DEF PoolInv
<1> QED
  BY <1>2, <1>4, <1>5, <1>6, Zenon DEF PoolInv

\* Unregister by the teardown of c.
LEMMA TeardownInv == ASSUME PoolInv, NEW c \in Conn, Teardown(c)  PROVE PoolInv'
<1> USE ConnAssumption DEF Teardown, Unregister, UnbindID, CurrentID, NoMutex
<1>1. TypeOK'
  BY Zenon DEF PoolInv, TypeOK
<1>2. OneToOne'
  BY DEF PoolInv, TypeOK, OneToOne
<1>3. MutexPerBoundConn'
  BY DEF PoolInv, TypeOK, MutexPerBoundConn
<1>4. \A d \in Conn :
        /\ connToID'[d] # NoID => d \in seen'
        /\ writeMu'[d] < nextMu'
  BY DEF PoolInv, TypeOK
<1> QED
  BY <1>1, <1>2, <1>3, <1>4, Zenon DEF PoolInv

\* No call on the pool breaks the invariant.
LEMMA NextInv == PoolInv /\ [Next]_vars => PoolInv'
<1> SUFFICES ASSUME PoolInv, [Next]_vars  PROVE PoolInv'
  BY Zenon
<1>1. CASE UNCHANGED vars
  BY <1>1, Zenon DEF PoolInv, TypeOK, OneToOne, MutexPerBoundConn, vars
<1>2. ASSUME NEW c \in Conn, Accept(c)  PROVE PoolInv'
  BY <1>2, AcceptInv, Zenon
<1>3. ASSUME NEW c \in Conn, NEW id \in ID, Rebind(c, id)  PROVE PoolInv'
  BY <1>3, RebindInv, Zenon
<1>4. ASSUME NEW c \in Conn, Teardown(c)  PROVE PoolInv'
  BY <1>4, TeardownInv, Zenon
<1> QED
  BY <1>1, <1>2, <1>3, <1>4, Zenon DEF Next

\* Spec => []OneToOne, however many sockets and ids there are and whichever
\* addresses are also user ids: the maps of the pool are inverse to each other up
\* to the ids that Register overwrote, and every bound socket has a mutex of its own.
THEOREM PoolSafety == Spec => [](TypeOK /\ OneToOne /\ MutexPerBoundConn)
<1>1. PoolInv => TypeOK /\ OneToOne /\ MutexPerBoundConn
  BY Zenon DEF PoolInv
<1> QED
  BY <1>1, InitInv, NextInv, PTL DEF Spec

\* RemapClientID and Unregister leave a bound id to its socket or free it; Register
\* changes only the socket's own address.
LEMMA StepNoTakeover ==
  PoolInv /\ [Next]_vars =>
    [\A i \in ID :
       clients[i] # NoConn /\ clients'[i] \notin {clients[i], NoConn} =>
         \E c \in Conn \ seen : Accept(c) /\ Addr[c] = i]_vars
<1> SUFFICES ASSUME PoolInv, Next, NEW i \in ID, clients[i] # NoConn, clients'[i] \notin {clients[i], NoConn}
             PROVE  \E c \in Conn \ seen : Accept(c) /\ Addr[c] = i
  BY Zenon DEF vars
<1>1. ASSUME NEW c \in Conn, Accept(c)  PROVE c \in Conn \ seen /\ Addr[c] = i
  BY <1>1, ConnAssumption, Zenon DEF Accept, Register, BindID, PoolInv, TypeOK
<1>2. ASSUME NEW c \in Conn, NEW id \in ID, Rebind(c, id)  PROVE FALSE
  BY <1>2, ConnAssumption, Zenon DEF Rebind, CanRemap, RemapClientID, CurrentID, PoolInv, TypeOK
<1>3. ASSUME NEW c \in Conn, Teardown(c)  PROVE FALSE
  BY <1>3, ConnAssumption, Zenon DEF Teardown, Unregister, UnbindID, CurrentID, PoolInv, TypeOK
<1> QED
  BY <1>1, <1>2, <1>3, Zenon DEF Next

\* Spec => NoTakeover: a Logon never takes an id from the socket bound to it; only
\* the Register of a socket whose remote address the id is does.
THEOREM PoolNoTakeover == Spec => NoTakeover
  BY InitInv, NextInv, StepNoTakeover, PTL DEF Spec, NoTakeover

-----------------------------------------------------------------------------
(* FramesNeverInterleave for any number of sockets, ids and callers.       *)

CallType ==
  call \in [Caller -> {Idle} \cup [at : {"lock", "write"}, conn : Conn, mu : Nat]
                             \cup [at : {"close"}, conn : Conn]]

Using(w) == call[w].at \in {"lock", "write"}

\* The mutex a caller found stays the one mutex of its socket: a socket is
\* registered once, and neither RemapClientID nor Unregister makes another.
OneMutexPerSocket ==
  \A w \in Caller : Using(w) =>
    /\ call[w].conn \in seen
    /\ call[w].mu \in 1 .. Len(holder)
    /\ writeMu[call[w].conn] \in {NoMutex, call[w].mu}
    /\ \A v \in Caller : Using(v) /\ call[v].conn = call[w].conn => call[v].mu = call[w].mu

\* The inductive invariant.
CallersInv ==
  /\ PoolInv
  /\ CallType
  /\ holder \in Seq(Caller \cup {Nobody})
  /\ Len(holder) = nextMu - 1
  /\ OneMutexPerSocket
  /\ \A w \in Caller : call[w].at = "write" => holder[call[w].mu] = w

\* No socket, no mutex and no call.
LEMMA CallersInitInv == CallersInit => CallersInv
<1> SUFFICES ASSUME CallersInit PROVE CallersInv
  BY Zenon
<1>1. PoolInv
  BY InitInv, Zenon DEF CallersInit
<1>2. CallType /\ \A w \in Caller : call[w].at = "idle"
  BY Zenon DEF CallersInit, CallType, Idle
<1>3. holder \in Seq(Caller \cup {Nobody}) /\ Len(holder) = nextMu - 1
  BY DEF CallersInit, Init
<1> QED
  BY <1>1, <1>2, <1>3, Zenon DEF CallersInv, OneMutexPerSocket, Using

\* Steps that leave the calls, the mutexes and the set of accepted sockets
\* alone: rebinding, unregistering and closing.
LEMMA MutexesKept ==
  ASSUME CallersInv, PoolInv', UNCHANGED <<nextMu, seen, holder, call>>,
         \A c \in Conn : writeMu'[c] \in {NoMutex, writeMu[c]}
  PROVE  CallersInv'
<1>1. CallType'
  BY Zenon DEF CallersInv, CallType
<1>2. \A w \in Caller : Using(w) => call[w].conn \in Conn
  BY Zenon DEF CallersInv, OneMutexPerSocket, PoolInv, TypeOK
<1>3. OneMutexPerSocket'
  BY <1>2, Zenon DEF CallersInv, OneMutexPerSocket, Using
<1> QED
  BY <1>1, <1>3, Zenon DEF CallersInv

\* A step that leaves the pool alone keeps what is known of it.
LEMMA PoolKept == PoolInv /\ UNCHANGED vars => PoolInv'
  BY NextInv, Zenon DEF vars

\* A new socket is one nobody has found yet, and its mutex is a new object.
LEMMA AcceptSocketStep ==
  ASSUME CallersInv, NEW c \in Conn, AcceptSocket(c)
  PROVE  CallersInv'
<1>1. PoolInv'
  BY AcceptInv, Zenon DEF AcceptSocket, CallersInv
<1>2. /\ call' = call /\ seen' = seen \cup {c} /\ c \notin seen
      /\ writeMu' = [writeMu EXCEPT ![c] = nextMu] /\ nextMu' = nextMu + 1
      /\ holder' = Append(holder, Nobody)
  BY Zenon DEF AcceptSocket, Accept, Register
<1>3. /\ holder' \in Seq(Caller \cup {Nobody})
      /\ Len(holder') = Len(holder) + 1
      /\ \A m \in 1 .. Len(holder) : holder'[m] = holder[m]
  BY <1>2 DEF CallersInv
<1>4. Len(holder') = nextMu' - 1
  BY <1>2, <1>3 DEF CallersInv, PoolInv, TypeOK
<1>5. CallType'
  BY <1>2, Zenon DEF CallersInv, CallType
<1>6. OneMutexPerSocket'
  <2> SUFFICES ASSUME NEW w \in Caller, Using(w)
               PROVE  /\ call[w].conn \in seen'
                      /\ call[w].mu \in 1 .. Len(holder')
                      /\ writeMu'[call[w].conn] \in {NoMutex, call[w].mu}
                      /\ \A v \in Caller : Using(v) /\ call[v].conn = call[w].conn => call[v].mu = call[w].mu
    BY <1>2, Zenon DEF OneMutexPerSocket, Using
  <2>1. /\ call[w].conn \in seen /\ call[w].mu \in 1 .. Len(holder)
        /\ writeMu[call[w].conn] \in {NoMutex, call[w].mu}
        /\ \A v \in Caller : Using(v) /\ call[v].conn = call[w].conn => call[v].mu = call[w].mu
    BY Zenon DEF CallersInv, OneMutexPerSocket
  <2>2. call[w].mu \in 1 .. Len(holder')
    BY <1>3, <2>1 DEF CallersInv
  <2>3. writeMu'[call[w].conn] = writeMu[call[w].conn]
    BY <1>2, <2>1, Zenon DEF CallersInv, PoolInv, TypeOK
  <2> QED
    BY <1>2, <2>1, <2>2, <2>3, Zenon
<1>7. \A w \in Caller : call'[w].at = "write" => holder'[call'[w].mu] = w
  BY <1>2, <1>3, Zenon DEF CallersInv, OneMutexPerSocket, Using
<1> QED
  BY <1>1, <1>3, <1>4, <1>5, <1>6, <1>7, Zenon DEF CallersInv

\* RemapClientID moves the socket to another id with the mutex it has.
LEMMA RebindSocketStep ==
  ASSUME CallersInv, NEW c \in Conn, NEW id \in ID, RebindSocket(c, id)
  PROVE  CallersInv'
<1>1. PoolInv'
  BY RebindInv, Zenon DEF RebindSocket, CallersInv
<1>2. UNCHANGED <<writeMu, nextMu, seen, holder, call>>
  BY Zenon DEF RebindSocket, Rebind, RemapClientID
<1> QED
  BY <1>1, <1>2, MutexesKept, Zenon

\* Unregister forgets the mutex; a caller that found it before may still use it.
LEMMA UnregisterSocketStep ==
  ASSUME CallersInv, NEW c \in Conn, UnregisterSocket(c)
  PROVE  CallersInv'
<1>1. PoolInv'
  BY TeardownInv, Zenon DEF UnregisterSocket, CallersInv
<1>2. /\ UNCHANGED <<nextMu, seen, holder, call>>
      /\ \A d \in Conn : writeMu'[d] \in {NoMutex, writeMu[d]}
  BY Zenon DEF UnregisterSocket, Teardown, Unregister, CallersInv, PoolInv, TypeOK
<1> QED
  BY <1>1, <1>2, MutexesKept, Zenon

\* Closing a socket does not touch the pool.
LEMMA ClosingStep ==
  ASSUME CallersInv, UNCHANGED <<vars, holder, call>>
  PROVE  CallersInv'
  BY PoolKept, MutexesKept, Zenon DEF CallersInv, vars

\* WriteToClient finds the mutex every other caller of the socket has found.
LEMMA WriteLookupStep ==
  ASSUME CallersInv, NEW w \in Caller, NEW id \in ID, WriteLookup(w, id)
  PROVE  CallersInv'
<1> DEFINE c == clients[id]
<1>1. /\ UNCHANGED <<vars, holder>>
      /\ call' = [call EXCEPT ![w] = [at |-> "lock", conn |-> c, mu |-> writeMu[c]]]
      /\ c # NoConn
  BY Zenon DEF WriteLookup, FoundWrite
<1>2. c \in Conn /\ connToID[c] = id /\ id # NoID
  BY <1>1, ConnAssumption DEF CallersInv, PoolInv, TypeOK, OneToOne
<1>3. c \in seen /\ writeMu[c] # NoMutex /\ writeMu[c] \in Nat /\ writeMu[c] < nextMu
  BY <1>2, Zenon DEF CallersInv, PoolInv, TypeOK, MutexPerBoundConn
<1>4. writeMu[c] \in 1 .. Len(holder)
  BY <1>3 DEF CallersInv, PoolInv, TypeOK, NoMutex
<1> HIDE DEF c
<1>5. CallType'
  BY <1>1, <1>2, <1>3, Zenon DEF CallersInv, CallType
<1>6. /\ call'[w].at = "lock" /\ call'[w].conn = c /\ call'[w].mu = writeMu[c]
      /\ \A v \in Caller \ {w} : call'[v] = call[v]
  BY <1>1, Zenon DEF CallersInv, CallType
<1>7. \A v \in Caller \ {w} : Using(v) /\ call[v].conn = c => call[v].mu = writeMu[c]
  BY <1>3, Zenon DEF CallersInv, OneMutexPerSocket
<1>8. OneMutexPerSocket'
  <2> SUFFICES ASSUME NEW v \in Caller, Using(v)'
               PROVE  /\ call'[v].conn \in seen
                      /\ call'[v].mu \in 1 .. Len(holder)
                      /\ writeMu[call'[v].conn] \in {NoMutex, call'[v].mu}
                      /\ \A x \in Caller : Using(x)' /\ call'[x].conn = call'[v].conn => call'[x].mu = call'[v].mu
    BY <1>1, Zenon DEF OneMutexPerSocket, vars
  <2>1. CASE v = w
    BY <2>1, <1>3, <1>4, <1>6, <1>7 DEF Using
  <2>2. CASE v # w
    <3>1. /\ call'[v] = call[v] /\ Using(v)
      BY <2>2, <1>6, Zenon DEF Using
    <3>2. \A x \in Caller : Using(x)' /\ call'[x].conn = call[v].conn => call'[x].mu = call[v].mu
      <4>1. ASSUME NEW x \in Caller, x # w, Using(x)', call'[x].conn = call[v].conn
            PROVE  call'[x].mu = call[v].mu
        BY <4>1, <3>1, <1>6 DEF CallersInv, OneMutexPerSocket, Using
      <4>2. call'[w].conn = call[v].conn => call'[w].mu = call[v].mu
        BY <3>1, <2>2, <1>6, <1>7, Zenon
      <4> QED
        BY <4>1, <4>2, Zenon
    <3> QED
      BY <3>1, <3>2, Zenon DEF CallersInv, OneMutexPerSocket
  <2> QED
    BY <2>1, <2>2, Zenon
<1>9. \A v \in Caller : call'[v].at = "write" => holder'[call'[v].mu] = v
  BY <1>1, <1>6, Zenon DEF CallersInv
<1>10. PoolInv'
  BY <1>1, PoolKept, Zenon DEF CallersInv, vars
<1> QED
  BY <1>1, <1>5, <1>8, <1>9, <1>10, Zenon DEF CallersInv, vars

\* A step of caller w that keeps its socket and mutex, or makes it stop using
\* one, keeps OneMutexPerSocket.
LEMMA CallMoves ==
  ASSUME CallersInv, NEW w \in Caller, UNCHANGED vars,
         CallType', Len(holder') = Len(holder),
         \A v \in Caller \ {w} : call'[v] = call[v],
         Using(w)' => Using(w) /\ call'[w].conn = call[w].conn /\ call'[w].mu = call[w].mu
  PROVE  PoolInv' /\ OneMutexPerSocket'
<1>1. PoolInv'
  BY PoolKept, Zenon DEF CallersInv, vars
<1>2. \A v \in Caller : Using(v)' => Using(v) /\ call'[v].conn = call[v].conn /\ call'[v].mu = call[v].mu
  BY Zenon DEF Using
<1>3. OneMutexPerSocket'
  BY <1>2 DEF CallersInv, OneMutexPerSocket, vars
<1> QED
  BY <1>1, <1>3, Zenon

\* DisconnectClient finds a socket and needs no mutex.
LEMMA DisconnectLookupStep ==
  ASSUME CallersInv, NEW w \in Caller, NEW id \in ID, DisconnectLookup(w, id)
  PROVE  CallersInv'
<1>1. /\ UNCHANGED <<vars, holder>>
      /\ clients[id] \in Conn
      /\ call' = [call EXCEPT ![w] = [at |-> "close", conn |-> clients[id]]]
  BY Zenon DEF DisconnectLookup, FoundClose, CallersInv, PoolInv, TypeOK
<1>2. CallType'
  BY <1>1, Zenon DEF CallersInv, CallType
<1>3. call'[w].at = "close" /\ \A v \in Caller \ {w} : call'[v] = call[v]
  BY <1>1, Zenon DEF CallersInv, CallType
<1>4. PoolInv' /\ OneMutexPerSocket'
  BY <1>1, <1>2, <1>3, CallMoves, Zenon DEF Using
<1> QED
  BY <1>1, <1>2, <1>3, <1>4, Zenon DEF CallersInv, vars

\* The mutex was free, so nobody is writing under it.
LEMMA WriteLockStep ==
  ASSUME CallersInv, NEW w \in Caller, WriteLock(w)
  PROVE  CallersInv'
<1> DEFINE m == call[w].mu
<1>1. /\ UNCHANGED vars
      /\ call[w].at = "lock" /\ holder[m] = Nobody
      /\ holder' = [holder EXCEPT ![m] = w]
      /\ call' = [call EXCEPT ![w].at = "write"]
  BY Zenon DEF WriteLock
<1>2. call[w] \in [at : {"lock", "write"}, conn : Conn, mu : Nat]
  BY <1>1 DEF CallersInv, CallType, Idle
<1>3. /\ call'[w].at = "write" /\ call'[w].conn = call[w].conn /\ call'[w].mu = m
      /\ call'[w] \in [at : {"lock", "write"}, conn : Conn, mu : Nat]
      /\ \A v \in Caller \ {w} : call'[v] = call[v]
  BY <1>1, <1>2, Zenon DEF CallersInv, CallType
<1>4. CallType'
  BY <1>1, <1>2, <1>3, Zenon DEF CallersInv, CallType
<1>5. m \in 1 .. Len(holder)
  BY <1>1, Zenon DEF CallersInv, OneMutexPerSocket, Using
<1>6. /\ holder' \in Seq(Caller \cup {Nobody}) /\ Len(holder') = Len(holder)
      /\ holder'[m] = w /\ \A n \in 1 .. Len(holder) : n # m => holder'[n] = holder[n]
  BY <1>1, <1>5 DEF CallersInv
<1>7. PoolInv' /\ OneMutexPerSocket'
  BY <1>1, <1>3, <1>4, <1>6, CallMoves, Zenon DEF Using
<1>8. ASSUME NEW v \in Caller, call'[v].at = "write" PROVE holder'[call'[v].mu] = v
  <2>1. CASE v = w
    BY <2>1, <1>3, <1>6, Zenon
  <2>2. CASE v # w
    <3>1. call[v].at = "write" /\ call'[v].mu = call[v].mu /\ holder[call[v].mu] = v
      BY <2>2, <1>3, <1>8, Zenon DEF CallersInv
    <3>2. call[v].mu \in 1 .. Len(holder) /\ call[v].mu # m
      BY <3>1, <1>1, CallerAssumption, Zenon DEF CallersInv, OneMutexPerSocket, Using
    <3> QED
      BY <3>1, <3>2, <1>6, Zenon
  <2> QED
    BY <2>1, <2>2, Zenon
<1> QED
  BY <1>1, <1>4, <1>6, <1>7, <1>8, Zenon DEF CallersInv, vars

\* Unlock: the writer that returns is the only one of its mutex.
LEMMA WriteReturnsStep ==
  ASSUME CallersInv, NEW w \in Caller, WriteReturns(w)
  PROVE  CallersInv'
<1> DEFINE m == call[w].mu
<1>1. /\ UNCHANGED vars
      /\ call[w].at = "write" /\ holder[m] = w
      /\ holder' = [holder EXCEPT ![m] = Nobody]
      /\ call' = [call EXCEPT ![w] = Idle]
  BY Zenon DEF WriteReturns, CallersInv
<1>2. CallType'
  BY <1>1, Zenon DEF CallersInv, CallType
<1>3. call'[w].at = "idle" /\ \A v \in Caller \ {w} : call'[v] = call[v]
  BY <1>1, Zenon DEF CallersInv, CallType, Idle
<1>4. m \in 1 .. Len(holder)
  BY <1>1, Zenon DEF CallersInv, OneMutexPerSocket, Using
<1>5. /\ holder' \in Seq(Caller \cup {Nobody}) /\ Len(holder') = Len(holder)
      /\ \A n \in 1 .. Len(holder) : n # m => holder'[n] = holder[n]
  BY <1>1, <1>4 DEF CallersInv
<1>6. PoolInv' /\ OneMutexPerSocket'
  BY <1>1, <1>2, <1>3, <1>5, CallMoves, Zenon DEF Using
<1>7. ASSUME NEW v \in Caller, call'[v].at = "write" PROVE holder'[call'[v].mu] = v
  <2>1. v # w /\ call'[v] = call[v]
    BY <1>3, <1>7, Zenon
  <2>2. holder[call[v].mu] = v /\ call[v].mu \in 1 .. Len(holder)
    BY <2>1, <1>7, Zenon DEF CallersInv, OneMutexPerSocket, Using
  <2> QED
    BY <2>1, <2>2, <1>1, <1>5, Zenon
<1> QED
  BY <1>1, <1>2, <1>5, <1>6, <1>7, Zenon DEF CallersInv, vars

\* DisconnectClient closes the socket it found, bound or not by now.
LEMMA DisconnectCloseStep ==
  ASSUME CallersInv, NEW w \in Caller, DisconnectClose(w)
  PROVE  CallersInv'
<1>1. /\ UNCHANGED <<vars, holder>>
      /\ call' = [call EXCEPT ![w] = Idle]
  BY Zenon DEF DisconnectClose
<1>2. CallType'
  BY <1>1, Zenon DEF CallersInv, CallType
<1>3. call'[w].at = "idle" /\ \A v \in Caller \ {w} : call'[v] = call[v]
  BY <1>1, Zenon DEF CallersInv, CallType, Idle
<1>4. PoolInv' /\ OneMutexPerSocket'
  BY <1>1, <1>2, <1>3, CallMoves, Zenon DEF Using
<1> QED
  BY <1>1, <1>2, <1>3, <1>4 DEF CallersInv, vars

\* No call of any goroutine breaks the invariant.
LEMMA CallersNextInv == CallersInv /\ [CallersNext]_callerVars => CallersInv'
<1> SUFFICES ASSUME CallersInv, [CallersNext]_callerVars PROVE CallersInv'
  OBVIOUS
<1>1. ASSUME NEW c \in Conn,
             \/ AcceptSocket(c) \/ \E id \in ID : RebindSocket(c, id)
             \/ UnregisterSocket(c) \/ CloseSocket(c) \/ PeerCloses(c)
      PROVE  CallersInv'
  BY <1>1, AcceptSocketStep, RebindSocketStep, UnregisterSocketStep, ClosingStep, Zenon
     DEF CloseSocket, PeerCloses
<1>2. ASSUME NEW w \in Caller,
             \/ \E id \in ID : WriteLookup(w, id) \/ DisconnectLookup(w, id)
             \/ PeerDrains(w) \/ CallerStep(w)
      PROVE  CallersInv'
  BY <1>2, WriteLookupStep, DisconnectLookupStep, WriteLockStep, WriteReturnsStep,
     DisconnectCloseStep, Zenon
     DEF PeerDrains, CallerStep, WriteFails
<1>3. CASE CloseAll
  BY <1>3, ClosingStep, Zenon DEF CloseAll
<1>4. CASE UNCHANGED callerVars
  BY <1>4, ClosingStep, Zenon DEF callerVars
<1> QED
  BY <1>1, <1>2, <1>3, <1>4, Zenon DEF CallersNext

\* CallersSpec => []FramesNeverInterleave: WriteToClient never lets two frames
\* mix on a socket, however many goroutines write, rebind and disconnect.
THEOREM WritesAreSerial == CallersSpec => []FramesNeverInterleave
<1>1. CallersInv => FramesNeverInterleave
  <2> SUFFICES ASSUME CallersInv, NEW w \in Caller, NEW v \in Caller, w # v,
                      call[w].at = "write", call[v].at = "write", call[w].conn = call[v].conn
               PROVE  FALSE
    BY Zenon DEF FramesNeverInterleave
  <2>1. call[v].mu = call[w].mu
    BY Zenon DEF CallersInv, OneMutexPerSocket, Using
  <2> QED
    BY <2>1, Zenon DEF CallersInv
<1> QED
  BY <1>1, CallersInitInv, CallersNextInv, PTL DEF CallersSpec
=============================================================================
