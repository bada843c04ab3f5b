------------------------------ MODULE Delivery ------------------------------
(***************************************************************************)
(* The fan-out of a message to a group (SendMessageFrom and deliverToGroup *)
(* in internal/adapters/inbound/mus/sender.go) and to everybody            *)
(* (mus.server.broadcast in outbound/lua_server_module.go), while users    *)
(* come and go.  A fan-out reads the sender's rooms, then the members of   *)
(* the group, and writes to the members it has read one after the other;   *)
(* every call takes a lock of its own.  A write has no deadline: it hangs  *)
(* while a client does not read.  Fan-outs change nothing another one      *)
(* reads, so one is followed; one group per movie.                         *)
(***************************************************************************)
EXTENDS Naturals, FiniteSets

CONSTANTS
  DUser, DMovie,
  System,         \* system.script, a sender that is in no movie
  DefaultMovie,   \* of the configuration
  NoMovie

ASSUME DeliveryAssumption ==
  /\ System \notin DUser
  /\ DefaultMovie \in DMovie \cup {NoMovie}
  /\ NoMovie \notin DMovie

VARIABLES
  dPool,    \* users whose connection is in the pool
  dBroken,  \* those of them whose socket fails
  dStored,  \* users with a session
  dMovie,   \* dMovie[u]: the movie room u is in
  dGroup,   \* dGroup[m]: the members of the group's room in movie m
  dSend,    \* the fan-out
  dGot,     \* dGot[u]: copies of it that reached u
  dStay,    \* members it has read whose socket has been in the pool ever since
  dReap,    \* dReap[u]: how far a reaper of u has come
  dTear     \* users whose id the teardown has freed, and not yet their session

dVars == <<dPool, dBroken, dStored, dMovie, dGroup, dSend, dGot, dStay, dReap, dTear>>
sessionVars == <<dPool, dBroken, dStored, dMovie, dGroup, dReap, dTear>>
sendVars == <<dSend, dGot, dStay>>

DInit ==
  /\ dPool = {} /\ dBroken = {} /\ dStored = {}
  /\ dMovie = [u \in DUser |-> NoMovie]
  /\ dGroup = [m \in DMovie |-> {}]
  /\ dSend = [at |-> "start"]
  /\ dGot = [u \in DUser |-> 0]
  /\ dStay = {}
  /\ dReap = [u \in DUser |-> "none"] /\ dTear = {}

\* The write that hangs on u's socket returns, as the socket has been closed.
Free(u) ==
  dSend' = IF dSend.at = "hung" /\ dSend.on = u
           THEN [at |-> "write", todo |-> dSend.todo]
           ELSE dSend

-----------------------------------------------------------------------------
(* Sessions.                                                               *)

\* The pool knows the user id and the store has its session (Logon).  A user whose
\* session a reaper has dropped may log on again on the socket it has.
Connect(u) ==
  /\ u \notin dStored
  /\ dPool' = dPool \cup {u}
  /\ dStored' = dStored \cup {u}
  /\ UNCHANGED <<dBroken, dMovie, dGroup, dReap, dTear, sendVars>>

EnterMovie(u, m) ==
  /\ u \in dPool /\ dMovie[u] = NoMovie
  /\ dMovie' = [dMovie EXCEPT ![u] = m]
  /\ UNCHANGED <<dPool, dBroken, dStored, dGroup, dReap, dTear, sendVars>>

EnterGroup(u) ==
  /\ dMovie[u] # NoMovie
  /\ u \notin dGroup[dMovie[u]]
  /\ dGroup' = [dGroup EXCEPT ![dMovie[u]] = @ \cup {u}]
  /\ UNCHANGED <<dPool, dBroken, dStored, dMovie, dReap, dTear, sendVars>>

ExitGroup(u) ==
  /\ dMovie[u] # NoMovie /\ u \in dGroup[dMovie[u]]
  /\ dGroup' = [dGroup EXCEPT ![dMovie[u]] = @ \ {u}]
  /\ UNCHANGED <<dPool, dBroken, dStored, dMovie, dReap, dTear, sendVars>>

LeaveAllRooms(u) ==
  /\ dMovie' = [dMovie EXCEPT ![u] = NoMovie]
  /\ dGroup' = [m \in DMovie |-> dGroup[m] \ {u}]

\* conn.Close() on the socket of u, or the peer resets it.
CloseSocket(u) ==
  /\ dBroken' = dBroken \cup ({u} \cap dPool)
  /\ dStay' = dStay \ {u}
  /\ Free(u)
  /\ UNCHANGED <<dPool, dGot>>

PeerResets(u) ==
  /\ u \in dPool \ dBroken
  /\ CloseSocket(u)
  /\ UNCHANGED <<dStored, dMovie, dGroup, dReap, dTear>>

\* A reaper -- the idle check, a kill timer or a deletion by an administrator --
\* takes the rooms, then the session, and closes the socket last: meanwhile the
\* socket of a user without a session is in the pool, and works.
ReaperLeaves(u) ==
  /\ dReap[u] = "none" /\ u \in dStored
  /\ dReap' = [dReap EXCEPT ![u] = "left"]
  /\ LeaveAllRooms(u)
  /\ UNCHANGED <<dPool, dBroken, dStored, dTear, sendVars>>

ReaperUnregisters(u) ==
  /\ dReap[u] = "left"
  /\ dReap' = [dReap EXCEPT ![u] = "unregistered"]
  /\ dStored' = dStored \ {u} /\ LeaveAllRooms(u)
  /\ UNCHANGED <<dPool, dBroken, dTear, sendVars>>

ReaperDisconnects(u) ==
  /\ dReap[u] = "unregistered"
  /\ dReap' = [dReap EXCEPT ![u] = "none"]
  /\ CloseSocket(u)
  /\ UNCHANGED <<dStored, dMovie, dGroup, dTear>>

\* The teardown frees the id in the pool first: a write that hangs on the socket is
\* no longer on u's.  It drops the session with its rooms after the disconnect
\* hook, when the user may be back on another socket.
TeardownPool(u) ==
  /\ u \in dPool \ dTear
  /\ dPool' = dPool \ {u} /\ dBroken' = dBroken \ {u} /\ dTear' = dTear \cup {u}
  /\ dStay' = dStay \ {u}
  /\ dSend' = IF dSend.at = "hung" /\ dSend.on = u THEN [at |-> "closing", todo |-> dSend.todo] ELSE dSend
  /\ UNCHANGED <<dStored, dMovie, dGroup, dReap, dGot>>

TeardownSession(u) ==
  /\ u \in dTear
  /\ dTear' = dTear \ {u}
  /\ dStored' = dStored \ {u} /\ LeaveAllRooms(u)
  /\ UNCHANGED <<dPool, dBroken, dReap, sendVars>>

-----------------------------------------------------------------------------
(* A fan-out.                                                              *)

\* The movie a group is looked up in: the sender's, or else the default one.
RoutingMovie(s) ==
  IF s \in DUser /\ dMovie[s] # NoMovie THEN dMovie[s] ELSE DefaultMovie

\* A user sends while connected; scripts and jobs at any time.  A sender without
\* a movie where there is no default one gets an error.
GetSenderRooms(s) ==
  /\ dSend.at = "start"
  /\ s \in dPool \cup {System}
  /\ dSend' = IF RoutingMovie(s) = NoMovie THEN [at |-> "refused"]
              ELSE [at |-> "members", movie |-> RoutingMovie(s)]
  /\ UNCHANGED <<dGot, dStay, sessionVars>>

Snapshot(members) ==
  /\ dSend' = [at |-> "write", todo |-> members]
  /\ dStay' = members \cap (dPool \ dBroken)
  /\ UNCHANGED <<dGot, sessionVars>>

GetGroupMembers ==
  /\ dSend.at = "members"
  /\ Snapshot(dGroup[dSend.movie])

\* mus.server.broadcast: GetAllConnections.
Broadcast ==
  /\ dSend.at = "start"
  /\ Snapshot(dStored)

Reached(u) == u \in dPool \ dBroken

MutWriteMember(u) ==
  /\ dSend.at = "write" /\ u \in dSend.todo
  /\ dSend' = [dSend EXCEPT !.todo = IF Reached(u) THEN @ \ {u} ELSE {}]
  /\ dGot' = IF Reached(u) THEN [dGot EXCEPT ![u] = @ + 1] ELSE dGot
  /\ UNCHANGED <<dStay, sessionVars>>

\* WriteToClient to the next member, in any order; an error is logged.
WriteMember(u) ==
  /\ dSend.at = "write" /\ u \in dSend.todo
  /\ dSend' = [dSend EXCEPT !.todo = @ \ {u}]
  /\ dGot' = IF Reached(u) THEN [dGot EXCEPT ![u] = @ + 1] ELSE dGot
  /\ UNCHANGED <<dStay, sessionVars>>

\* The client has stopped reading and the buffers are full.
WriteHangs(u) ==
  /\ dSend.at = "write" /\ u \in dSend.todo /\ Reached(u)
  /\ dSend' = [at |-> "hung", on |-> u, todo |-> dSend.todo \ {u}]
  /\ UNCHANGED <<dGot, dStay, sessionVars>>

ReadsOn(u) ==
  /\ dSend.at = "hung" /\ dSend.on = u
  /\ Free(u)
  /\ dGot' = [dGot EXCEPT ![u] = @ + 1]
  /\ UNCHANGED <<dStay, sessionVars>>

\* The write to a socket that is no longer in the pool returns: the teardown has
\* closed it, or its peer reads on.
ClosingReturns ==
  /\ dSend.at = "closing"
  /\ dSend' = [at |-> "write", todo |-> dSend.todo]
  /\ UNCHANGED <<dGot, dStay, sessionVars>>

AllWritten ==
  /\ dSend.at = "write" /\ dSend.todo = {}
  /\ dSend' = [at |-> "done"]
  /\ UNCHANGED <<dGot, dStay, sessionVars>>

FanOutStep == GetGroupMembers \/ AllWritten \/ ClosingReturns \/ \E u \in DUser : WriteMember(u)

UserStep(u) ==
  \/ Connect(u) \/ EnterGroup(u) \/ ExitGroup(u) \/ PeerResets(u)
  \/ ReaperLeaves(u) \/ ReaperUnregisters(u) \/ ReaperDisconnects(u)
  \/ TeardownPool(u) \/ TeardownSession(u)
  \/ \E m \in DMovie : EnterMovie(u, m)

DNext ==
  \/ \E u \in DUser : UserStep(u) \/ WriteHangs(u) \/ ReadsOn(u)
  \/ \E s \in DUser \cup {System} : GetSenderRooms(s)
  \/ FanOutStep \/ Broadcast

DSpec == DInit /\ [][DNext]_dVars

-----------------------------------------------------------------------------
\* Whoever was in the group when its members were read, and has kept the socket
\* until the fan-out is over, has received the message exactly once, whatever
\* happened to the other members and to the user's own session: a session that a
\* reaper drops between the read of the members and the write costs nobody the
\* message.  Nobody ever receives it twice, not even by coming back on a new socket.
StayersGetOneCopy ==
  /\ \A u \in DUser : dGot[u] <= 1
  /\ dSend.at = "done" => \A u \in dStay : dGot[u] = 1
=============================================================================
