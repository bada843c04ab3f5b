------------------------------ MODULE ConnPool ------------------------------
(***************************************************************************)
(* The pool of live sockets (internal/adapters/inbound/conn_pool.go): a    *)
(* map from client id to socket, its inverse, and one write mutex per      *)
(* socket.  Every operation runs under p.mu, so each is one step.  A       *)
(* missing map entry is NoConn, NoID or NoMutex (Go's zero value).         *)
(*                                                                         *)
(* The callers are those of handleConnection and establishSession: a       *)
(* socket is registered once, under its remote address, rebound by Logon   *)
(* from its current id, and unregistered by its own teardown.  A user id   *)
(* is whatever string a Logon asks for, so it may be the address of a      *)
(* socket, and an address comes back with a later socket: Register then    *)
(* overwrites what is bound to it.                                         *)
(***************************************************************************)
EXTENDS Naturals

CONSTANTS
  Conn,     \* sockets the listener accepts
  ID,       \* client ids: remote addresses and user ids
  User,     \* the ids a Logon may ask for
  Addr,     \* the remote address of each socket
  NoConn, NoID

ASSUME ConnAssumption ==
  /\ NoConn \notin Conn
  /\ NoID \notin ID
  /\ User \subseteq ID
  /\ Addr \in [Conn -> ID]

VARIABLES
  clients,    \* clients[id]: the socket bound to id
  connToID,   \* connToID[c]: the id socket c is bound to
  writeMu,    \* writeMu[c]: the mutex object of socket c
  nextMu,     \* the next mutex object to allocate
  seen,       \* the sockets whose goroutine has called Register
  clobbered   \* the ids that Register took from another socket

vars == <<clients, connToID, writeMu, nextMu, seen, clobbered>>

NoMutex == 0

Init ==
  /\ clients = [i \in ID |-> NoConn]
  /\ connToID = [c \in Conn |-> NoID]
  /\ writeMu = [c \in Conn |-> NoMutex]
  /\ nextMu = 1
  /\ seen = {}
  /\ clobbered = {}

-----------------------------------------------------------------------------
(* The operations of the pool. *)

\* What Register and Unregister do to the two maps between ids and sockets.
BindID(c, id) ==
  /\ clients' = [clients EXCEPT ![id] = c]
  /\ connToID' = [connToID EXCEPT ![c] = id]

UnbindID(c) ==
  /\ clients' = [i \in ID |-> IF i = connToID[c] THEN NoConn ELSE clients[i]]
  /\ connToID' = [connToID EXCEPT ![c] = NoID]

Register(c, id) ==
  /\ BindID(c, id)
  /\ writeMu' = [writeMu EXCEPT ![c] = nextMu]
  /\ nextMu' = nextMu + 1

Unregister(c) ==
  /\ UnbindID(c)
  /\ writeMu' = [writeMu EXCEPT ![c] = NoMutex]
  /\ UNCHANGED nextMu

CurrentID(c) == connToID[c]

MutCanRemapUnguarded(oldID, newID) == clients[oldID] # NoConn

\* RemapClientID succeeds: oldID is bound and newID is free or bound to the
\* same socket.
CanRemap(oldID, newID) ==
  /\ clients[oldID] # NoConn
  /\ clients[newID] \in {NoConn, clients[oldID]}

MutRemapKeepsOldID(oldID, newID) ==
  /\ clients' = [clients EXCEPT ![newID] = clients[oldID]]
  /\ connToID' = [connToID EXCEPT ![clients[oldID]] = newID]
  /\ UNCHANGED <<writeMu, nextMu>>

RemapClientID(oldID, newID) ==
  /\ clients' = [clients EXCEPT ![oldID] = NoConn, ![newID] = clients[oldID]]
  /\ connToID' = [connToID EXCEPT ![clients[oldID]] = newID]
  /\ UNCHANGED <<writeMu, nextMu>>

-----------------------------------------------------------------------------
(* The calls handleConnection and Logon make. *)

Accept(c) ==
  /\ c \notin seen
  /\ seen' = seen \cup {c}
  /\ clobbered' = IF clients[Addr[c]] = NoConn THEN clobbered ELSE clobbered \cup {Addr[c]}
  /\ Register(c, Addr[c])

Rebind(c, id) ==
  /\ CurrentID(c) # NoID
  /\ id \in User \cup {CurrentID(c)}
  /\ CanRemap(CurrentID(c), id)
  /\ RemapClientID(CurrentID(c), id)
  /\ UNCHANGED <<seen, clobbered>>

Teardown(c) ==
  /\ CurrentID(c) # NoID
  /\ Unregister(c)
  /\ UNCHANGED <<seen, clobbered>>

Next ==
  \E c \in Conn :
    \/ Accept(c)
    \/ \E id \in ID : Rebind(c, id)
    \/ Teardown(c)

Spec == Init /\ [][Next]_vars

-----------------------------------------------------------------------------
(* Properties. *)

TypeOK ==
  /\ clients \in [ID -> Conn \cup {NoConn}]
  /\ connToID \in [Conn -> ID \cup {NoID}]
  /\ writeMu \in [Conn -> Nat]
  /\ nextMu \in Nat \ {NoMutex}
  /\ seen \subseteq Conn
  /\ clobbered \subseteq ID

\* The two maps are inverse to each other after every interleaving of accepts,
\* logons and teardowns: whatever an id finds is a socket that goes by that id,
\* and a socket finds itself under its own id.  The one exception is an id that
\* Register overwrote: it takes an address that a Logon had chosen as a user id,
\* or that an earlier socket still holds, from the socket bound to it.  That
\* socket then names an id that answers for another one, or for none.
OneToOne ==
  /\ \A i \in ID : clients[i] # NoConn => connToID[clients[i]] = i
  /\ \A c \in Conn : connToID[c] # NoID => clients[connToID[c]] = c \/ connToID[c] \in clobbered

\* WriteToClient dereferences writeMu[conn] for the socket it found in clients:
\* every bound socket has a mutex, and no two sockets share one.
MutexPerBoundConn ==
  /\ \A c \in Conn : (writeMu[c] # NoMutex) <=> (connToID[c] # NoID)
  /\ \A c, d \in Conn : writeMu[c] = writeMu[d] /\ writeMu[c] # NoMutex => c = d

\* "refusing to clobber another client's mapping": RemapClientID never hands an id
\* bound to one socket to another one.  The only call that does is the Register of
\* a socket whose remote address that id is.
NoTakeover ==
  [][\A i \in ID :
       clients[i] # NoConn /\ clients'[i] \notin {clients[i], NoConn} =>
         \E c \in Conn \ seen : Accept(c) /\ Addr[c] = i]_vars

\* The inductive invariant behind the properties above.  A socket bound to an
\* id has been accepted, and every mutex in use is older than the next one to be
\* allocated.
PoolInv ==
  /\ TypeOK
  /\ OneToOne
  /\ MutexPerBoundConn
  /\ \A c \in Conn :
       /\ connToID[c] # NoID => c \in seen
       /\ writeMu[c] < nextMu

=============================================================================
