-------------------------- MODULE SessionLifecycle --------------------------
(***************************************************************************)
(* The life of a connection across the pool and the session store.         *)
(*                                                                         *)
(* One goroutine per socket (tcp_server.go, handleConnection) registers    *)
(* the socket, reads messages, runs each handler to completion and tears   *)
(* down.  Reapers -- the idle checker, kill timers and an administrator's  *)
(* System.User.Delete -- remove a user's session and close its socket from *)
(* another goroutine.  Pool and store have a lock each and nothing covers  *)
(* both, so every call on one of them is a step of its own.                *)
(*                                                                         *)
(* Credential checking (auth modes, bans) is a nondeterministic verdict;   *)
(* a level attribute is represented by the connection whose Logon stamped  *)
(* it.  All messages concern one movie and one group of it.                *)
(*                                                                         *)
(* Nothing in the code keeps a user id from being the remote address of a  *)
(* socket, and an address comes back with a later socket.  An id that a    *)
(* socket is accepted under while it is in use is shared from then on: two *)
(* goroutines go by it.  What is promised is promised of the other ids.    *)
(***************************************************************************)
EXTENDS Naturals

CONSTANTS
  Conn, ID, User, Addr, NoConn, NoID,   \* as in ConnPool
  Void,                                 \* no entry in the session store
  Admin,                                \* users whose level allows System.User.Delete
  Reaper                                \* background reapers: idle checker, timers

ASSUME LifecycleAssumption ==
  /\ NoConn \notin Conn
  /\ NoID \notin ID
  /\ User \subseteq ID
  /\ Addr \in [Conn -> ID]

VARIABLES
  clients, connToID,                                \* the pool
  shared,    \* the ids a socket was accepted under while they were in use,
             \* and those that a Logon has rebound from one of them
  connections, attributes, rooms, clientRooms,      \* the session store
  open,      \* sockets the server has not closed
  pc,        \* pc[c]: the next step of the goroutine of socket c
  cur,       \* cur[c]: currentID, read when the message arrived or by teardown
  want,      \* want[c]: the userID a Logon asks for
  ip,        \* ip[c]: the ip read by establishSession
  apc,       \* apc[a]: the next step of the removal actor a is running
  victims,   \* victims[a]: ids actor a has still to remove
  victim,    \* victim[a]: the id actor a is removing
  found      \* found[a]: the socket DisconnectClient looked up

poolVars == <<clients, connToID, shared>>
memVars == <<connections, attributes, rooms, clientRooms>>
reaperVars == <<apc, victims, victim, found>>
locals == <<cur, want, ip>>
vars == <<poolVars, memVars, open, pc, locals, reaperVars>>

Movie == "movie"
AllUsers == "@AllUsers"
Group == "@group"
Now == 0

\* Whoever removes sessions: the background reapers, and connections running
\* System.User.Delete.
Actor == Reaper \cup Conn

\* The write mutexes of the pool, which nothing here depends on, are left out
\* (ConnCallers has them).
Pool == INSTANCE ConnPool WITH
  seen <- {c \in Conn : pc[c] # "new"}, writeMu <- [c \in Conn |-> 0], nextMu <- 1,
  clobbered <- {}
Store == INSTANCE MemorySessionStore WITH
  Client <- ID, Room <- {Movie, AllUsers, Group}, AttrName <- {"level", "movieID"},
  Value <- Conn \cup {Movie}, IP <- ID, Time <- {Now}

Init ==
  /\ pc = [c \in Conn |-> "new"]
  /\ Pool!Init
  /\ shared = {}
  /\ Store!Init
  /\ open = {}
  /\ cur = [c \in Conn |-> NoID]
  /\ want = [c \in Conn |-> NoID]
  /\ ip = [c \in Conn |-> NoID]
  /\ apc = [a \in Actor |-> "idle"]
  /\ victims = [a \in Actor |-> {}]
  /\ victim = [a \in Actor |-> NoID]
  /\ found = [a \in Actor |-> NoConn]

Goto(c, from, to) == pc[c] = from /\ pc' = [pc EXCEPT ![c] = to]

\* The store holds something for id.
HasState(id) ==
  \/ id \in DOMAIN connections
  \/ id \in DOMAIN attributes
  \/ \E r \in DOMAIN rooms : id \in rooms[r]

\* A socket is bound to id, or the store holds something for it.
InUse(id) == clients[id] # NoConn \/ HasState(id)

-----------------------------------------------------------------------------
(* handleConnection: registration, the read loop and the teardown.         *)

Accept(c) ==
  /\ Goto(c, "new", "register")
  /\ Pool!BindID(c, Addr[c])
  /\ shared' = IF InUse(Addr[c]) THEN shared \cup {Addr[c]} ELSE shared
  /\ open' = open \cup {c}
  /\ UNCHANGED <<memVars, locals, reaperVars>>

RegisterSession(c) ==
  /\ Goto(c, "register", "reading")
  /\ Store!RegisterConnection(Addr[c], Addr[c], Now)
  /\ UNCHANGED <<poolVars, open, locals, reaperVars>>

\* After a handler: UpdateLastActivity under the id read before the handler
\* ran, then the response is written and the loop reads again.
Respond(c) ==
  /\ Goto(c, "respond", "reading")
  /\ Store!UpdateLastActivity(cur[c], Now)
  /\ cur' = [cur EXCEPT ![c] = NoID]
  /\ want' = [want EXCEPT ![c] = NoID]
  /\ UNCHANGED <<poolVars, open, ip, reaperVars>>

\* The read fails (the peer or a reaper closed the socket), a frame is malformed
\* or a write fails: the deferred teardown takes the socket out of the pool.
Teardown(c) ==
  /\ Goto(c, "reading", "unregister")
  /\ cur' = [cur EXCEPT ![c] = Pool!CurrentID(c)]
  /\ Pool!UnbindID(c)
  /\ UNCHANGED <<shared, memVars, open, want, ip, reaperVars>>

MutUnregisterSessionByAddr(c) ==
  /\ Goto(c, "unregister", "close")
  /\ Store!UnregisterConnection(Addr[c])
  /\ cur' = [cur EXCEPT ![c] = NoID]
  /\ UNCHANGED <<poolVars, open, want, ip, reaperVars>>

MutUnregisterSessionReturnsEarly(c) ==
  /\ Goto(c, "unregister", IF cur[c] \in DOMAIN connections THEN "close" ELSE "returned")
  /\ Store!UnregisterConnection(cur[c])
  /\ cur' = [cur EXCEPT ![c] = NoID]
  /\ UNCHANGED <<poolVars, open, want, ip, reaperVars>>

\* The onDisconnect script runs for as long as it takes, then the session of
\* the id the pool answered is removed.
UnregisterSession(c) ==
  /\ Goto(c, "unregister", "close")
  /\ Store!UnregisterConnection(cur[c])
  /\ cur' = [cur EXCEPT ![c] = NoID]
  /\ UNCHANGED <<poolVars, open, want, ip, reaperVars>>

CloseSocket(c) ==
  /\ Goto(c, "close", "done")
  /\ open' = open \ {c}
  /\ UNCHANGED <<poolVars, memVars, locals, reaperVars>>

-----------------------------------------------------------------------------
(* handleLogon and establishSession.                                       *)

\* A Logon message whose credentials pass; a rejected one changes nothing.
ReceiveLogon(c, u) ==
  /\ Goto(c, "reading", "logonCheck")
  /\ u \in User \cup {Pool!CurrentID(c)}
  /\ cur' = [cur EXCEPT ![c] = Pool!CurrentID(c)]
  /\ want' = [want EXCEPT ![c] = u]
  /\ UNCHANGED <<poolVars, memVars, open, ip, reaperVars>>

\* The takeover guard: refuse a userID that has a session.
LogonCheck(c) ==
  /\ Goto(c, "logonCheck",
          IF want[c] # cur[c] /\ Store!GetConnection(want[c]) # Void
          THEN "respond" ELSE "logonRemap")
  /\ UNCHANGED <<poolVars, memVars, open, locals, reaperVars>>

\* The socket that cur[c] answers for is rebound: that of c, unless cur[c] is shared.
LogonRemap(c) ==
  /\ \/ /\ Goto(c, "logonRemap", "logonIP")
        /\ Pool!CanRemap(cur[c], want[c])
        /\ Pool!RemapClientID(cur[c], want[c])
        /\ shared' = IF cur[c] \in shared THEN shared \cup {want[c]} ELSE shared
     \/ /\ Goto(c, "logonRemap", "respond")
        /\ ~Pool!CanRemap(cur[c], want[c])
        /\ UNCHANGED poolVars
  /\ UNCHANGED <<memVars, open, locals, reaperVars>>

LogonIP(c) ==
  /\ Goto(c, "logonIP", "logonUnregister")
  /\ ip' = [ip EXCEPT ![c] = IF Store!GetConnection(cur[c]) # Void
                             THEN Store!GetConnection(cur[c]).ip ELSE cur[c]]
  /\ UNCHANGED <<poolVars, memVars, open, cur, want, reaperVars>>

LogonUnregister(c) ==
  /\ Goto(c, "logonUnregister", "logonRegister")
  /\ Store!UnregisterConnection(cur[c])
  /\ UNCHANGED <<poolVars, open, locals, reaperVars>>

LogonRegister(c) ==
  /\ Goto(c, "logonRegister", "logonLevel")
  /\ Store!RegisterConnection(want[c], ip[c], Now)
  /\ ip' = [ip EXCEPT ![c] = NoID]
  /\ UNCHANGED <<poolVars, open, cur, want, reaperVars>>

\* The level is stamped; a Logon without a movie returns LogonOK at once.
LogonLevel(c) ==
  /\ \E next \in {"joinMovie", "respond"} : Goto(c, "logonLevel", next)
  /\ Store!SetUserAttribute(want[c], "level", c)
  /\ UNCHANGED <<poolVars, open, locals, reaperVars>>

JoinMovie(c) ==
  /\ Goto(c, "joinMovie", "joinAllUsers")
  /\ Store!JoinRoom(Movie, want[c])
  /\ UNCHANGED <<poolVars, open, locals, reaperVars>>

JoinAllUsers(c) ==
  /\ Goto(c, "joinAllUsers", "setMovieID")
  /\ Store!JoinRoom(AllUsers, want[c])
  /\ UNCHANGED <<poolVars, open, locals, reaperVars>>

SetMovieID(c) ==
  /\ Goto(c, "setMovieID", "respond")
  /\ Store!SetUserAttribute(want[c], "movieID", Movie)
  /\ UNCHANGED <<poolVars, open, locals, reaperVars>>

-----------------------------------------------------------------------------
(* handleGroupJoin: cached movie id, membership of the movie, join.        *)

ReceiveGroupJoin(c) ==
  /\ Goto(c, "reading",
          IF Store!GetUserAttribute(Pool!CurrentID(c), "movieID") # Void
          THEN "groupCheck" ELSE "respond")
  /\ cur' = [cur EXCEPT ![c] = Pool!CurrentID(c)]
  /\ UNCHANGED <<poolVars, memVars, open, want, ip, reaperVars>>

GroupCheck(c) ==
  /\ Goto(c, "groupCheck",
          IF cur[c] \in Store!GetRoomMembers(Movie) THEN "groupJoin" ELSE "respond")
  /\ UNCHANGED <<poolVars, memVars, open, locals, reaperVars>>

GroupJoin(c) ==
  /\ Goto(c, "groupJoin", "respond")
  /\ Store!JoinRoom(Group, cur[c])
  /\ UNCHANGED <<poolVars, open, locals, reaperVars>>

-----------------------------------------------------------------------------
(* The reapers: LeaveAllRooms, UnregisterConnection and DisconnectClient   *)
(* on each victim, in this order.                                          *)

StartReaping(a, ids) ==
  /\ apc[a] = "idle"
  /\ apc' = [apc EXCEPT ![a] = "leave"]
  /\ victims' = [victims EXCEPT ![a] = ids]
  /\ UNCHANGED <<victim, found>>

\* The idle checker works through a snapshot of the connections; which of
\* them have been idle for too long is up to the clock.
IdleCheck(r) ==
  /\ \E ids \in (SUBSET DOMAIN connections) \ {{}} : StartReaping(r, ids)
  /\ UNCHANGED <<poolVars, memVars, open, pc, locals>>

\* A kill timer fires for a user, connected or not.
KillTimerFires(r) ==
  /\ \E u \in User : StartReaping(r, {u})
  /\ UNCHANGED <<poolVars, memVars, open, pc, locals>>

\* The Authorizer reads the level stamped into the session of the sender's id.
CanRun(c) ==
  /\ Pool!CurrentID(c) \in Admin
  /\ Store!GetUserAttribute(Pool!CurrentID(c), "level") # Void

\* System.User.Delete runs in the goroutine of a connection whose session
\* level allows the command; without a level the command is denied.
ReceiveUserDelete(c) ==
  /\ pc[c] = "reading"
  /\ cur' = [cur EXCEPT ![c] = Pool!CurrentID(c)]
  /\ IF CanRun(c)
     THEN /\ Goto(c, "reading", "deleting")
          /\ \E u \in User : StartReaping(c, {u})
     ELSE Goto(c, "reading", "respond") /\ UNCHANGED reaperVars
  /\ UNCHANGED <<poolVars, memVars, open, want, ip>>

DeleteReturns(c) ==
  /\ apc[c] = "idle"
  /\ Goto(c, "deleting", "respond")
  /\ UNCHANGED <<poolVars, memVars, open, locals, reaperVars>>

ReapLeave(a) ==
  /\ apc[a] = "leave"
  /\ apc' = [apc EXCEPT ![a] = "unregister"]
  /\ \E id \in victims[a] :
       /\ victim' = [victim EXCEPT ![a] = id]
       /\ victims' = [victims EXCEPT ![a] = @ \ {id}]
       /\ Store!LeaveAllRooms(id)
  /\ UNCHANGED <<poolVars, open, pc, locals, found>>

ReapUnregister(a) ==
  /\ apc[a] = "unregister"
  /\ apc' = [apc EXCEPT ![a] = "lookup"]
  /\ Store!UnregisterConnection(victim[a])
  /\ UNCHANGED <<poolVars, open, pc, locals, victims, victim, found>>

\* DisconnectClient looks the socket up under the pool's lock ...
ReapLookup(a) ==
  /\ apc[a] = "lookup"
  /\ apc' = [apc EXCEPT ![a] = "close"]
  /\ found' = [found EXCEPT ![a] = clients[victim[a]]]
  /\ UNCHANGED <<poolVars, memVars, open, pc, locals, victims, victim>>

\* ... and closes it outside, unless the id was not bound.
ReapClose(a) ==
  /\ apc[a] = "close"
  /\ apc' = [apc EXCEPT ![a] = IF victims[a] = {} THEN "idle" ELSE "leave"]
  /\ open' = open \ {found[a]}
  /\ found' = [found EXCEPT ![a] = NoConn]
  /\ victim' = [victim EXCEPT ![a] = NoID]
  /\ UNCHANGED <<poolVars, memVars, pc, locals, victims>>

-----------------------------------------------------------------------------
\* The steps a connection's goroutine takes on its own.
ConnStep(c) ==
  \/ RegisterSession(c) \/ Respond(c)
  \/ UnregisterSession(c) \/ CloseSocket(c)
  \/ LogonCheck(c) \/ LogonRemap(c) \/ LogonIP(c) \/ LogonUnregister(c)
  \/ LogonRegister(c) \/ LogonLevel(c)
  \/ JoinMovie(c) \/ JoinAllUsers(c) \/ SetMovieID(c)
  \/ GroupCheck(c) \/ GroupJoin(c) \/ DeleteReturns(c)

ReaperStep(a) == ReapLeave(a) \/ ReapUnregister(a) \/ ReapLookup(a) \/ ReapClose(a)

\* What the peer or the clock decides.
Arrival(c) ==
  \/ Accept(c) \/ Teardown(c)
  \/ \E u \in ID : ReceiveLogon(c, u)
  \/ ReceiveGroupJoin(c)
  \/ ReceiveUserDelete(c)

Next ==
  \/ \E c \in Conn : Arrival(c) \/ ConnStep(c)
  \/ \E r \in Reaper : IdleCheck(r) \/ KillTimerFires(r)
  \/ \E a \in Actor : ReaperStep(a)

Spec == Init /\ [][Next]_vars

\* Goroutines are scheduled.  A connection whose socket a reaper closed may
\* still find complete frames in its buffer, but only finitely many: sooner
\* or later it reads from the socket, and that read fails.
Fairness ==
  /\ \A c \in Conn : WF_vars(ConnStep(c)) /\ SF_vars(c \notin open /\ Teardown(c))
  /\ \A a \in Actor : WF_vars(ReaperStep(a))

FairSpec == Spec /\ Fairness

-----------------------------------------------------------------------------
\* The goroutine of c will still clear the session of id: it is bound to id,
\* is rebinding away from it, or is in its teardown.
WillClear(c, id) ==
  \/ Pool!CurrentID(c) = id
  \/ pc[c] \in {"logonIP", "logonUnregister", "unregister"} /\ cur[c] = id

\* No ghosts: whatever the store holds for an id -- a connection, attributes,
\* room memberships -- a goroutine exists that will remove it.  A removal by
\* a reaper that races with a Logon or a group join may leave entries behind,
\* but never entries nobody cleans up.  A shared id is the exception: its second
\* socket can be rebound or torn down by what the first one's goroutine does.
NoOrphanedState ==
  \A id \in ID \ shared : HasState(id) => \E c \in Conn : WillClear(c, id)

\* Command levels do not leak between sessions: a connection that reads its
\* next command finds under its id the level its own Logon stamped, or none,
\* although sessions of the same user id may follow each other closely.  Only
\* under a shared id it may find that of another: a socket whose address a user
\* has logged on under finds that user's level before any Logon of its own.
LevelIsOwn ==
  \A c \in Conn :
    pc[c] = "reading" /\ Pool!CurrentID(c) \notin shared =>
      Store!GetUserAttribute(Pool!CurrentID(c), "level") \in {Void, c}

\* A connection whose socket is closed is torn down, even if its user is being
\* removed or is logging on elsewhere at the time.
ClosedIsTornDown ==
  \A c \in Conn : (pc[c] # "new" /\ c \notin open) ~> (pc[c] = "done")

\* "On LogonOK the session is registered under the effective userID with the
\* user level stamped" (logon_service.go): when establishSession returns, the
\* store has the session.
LogonOKMeansRegistered ==
  [][\A c \in Conn :
       pc[c] = "logonLevel" /\ pc'[c] # "logonLevel" => want[c] \in DOMAIN connections']_vars
=============================================================================
