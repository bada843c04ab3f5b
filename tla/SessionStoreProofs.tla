------------------------- MODULE SessionStoreProofs -------------------------
(***************************************************************************)
(* The two session stores, for any clients, rooms, attributes and          *)
(* goroutines. The memory store keeps its two room indexes in step and     *)
(* implements the port's contract. The Redis store's operations are        *)
(* several commands each: the invariant says how far apart the keys of a   *)
(* client are while one operation is under way, as long as no two changed  *)
(* the same kind of key at once.                                           *)
(***************************************************************************)
EXTENDS MemorySessionStore, RedisSessionStore, TLAPS

-----------------------------------------------------------------------------
(* The Redis session store.                                                *)

\* The clients' rooms as the rooms see them, and the calls that change a kind of key.
Members(c) == {r \in RsRoom : c \in roomSet[r]}
Busy(c, k) == {g \in Working(c) : k \in Keys[doing[g].op]}

\* How far apart the two room indexes are while one call changes them.
RoomsPhase(g) ==
  LET d == doing[g]
      mine == roomsOf[d.client]
      members == Members(d.client)
  IN /\ d.at = 1 => members = mine
     /\ d.op = "join" /\ d.at = 2 => members = mine \cup d.rooms
     /\ d.op = "leave" /\ d.at = 2 => members = mine \ d.rooms
     /\ d.op = "leaveAll" /\ d.at > 1 => members = d.rooms
     /\ d.op = "leaveAll" /\ d.at = 3 => d.rooms = {}
     /\ d.op = "unregister" /\ d.at > 1 => members = d.rooms
     /\ d.op = "unregister" /\ d.at > 4 => mine = {}

\* The same for the hash of a connection and the set of connections.
ConnAgrees(c) ==
  \/ c \in connSet /\ connHash[c] = Fields
  \/ c \in expiredConn /\ c \in connSet /\ connHash[c] \subseteq {"last_activity"}
  \/ c \notin connSet /\ c \notin hasTTL /\ connHash[c] \subseteq {"last_activity"}
ConnPhase(g) ==
  LET d == doing[g]
      c == d.client
  IN /\ d.op = "register" /\ d.at > 1 =>
          (c \in expiredConn /\ connHash[c] \subseteq {"last_activity"}) \/ connHash[c] = Fields
     /\ d.op = "unregister" /\ d.at > 2 =>
          c \notin expiredConn /\ c \notin hasTTL /\ connHash[c] \subseteq {"last_activity"}
     /\ d.op = "unregister" /\ d.at = 6 => c \notin connSet

\* What an unregistration that nothing overlaps has removed so far.
GonePhase(g) ==
  LET d == doing[g]
  IN /\ d.at > 2 => connHash[d.client] = {}
     /\ d.at > 3 => d.client \notin attrHash

NothingOf(c) ==
  /\ connHash[c] = {} /\ c \notin hasTTL /\ c \notin connSet /\ c \notin attrHash
  /\ roomsOf[c] = {} /\ Members(c) = {}

RsType ==
  /\ connHash \in [RsClient -> {{}, {"last_activity"}, Fields}]
  /\ roomSet \in [RsRoom -> SUBSET RsClient] /\ roomsOf \in [RsClient -> SUBSET RsRoom]
  /\ doing \in [RsCall -> Operation \cup {RsIdle}]
  /\ \A g \in RsCall : doing[g] # RsIdle => doing[g].at \in 1 .. Len(Commands[doing[g].op])
  /\ gone \subseteq RsClient

RoomsInv(c) ==
  <<c, "rooms">> \notin raced =>
    /\ Busy(c, "rooms") = {} => Members(c) = roomsOf[c]
    /\ \A g \in Busy(c, "rooms") : RoomsPhase(g)

ConnInv(c) ==
  <<c, "conn">> \notin raced =>
    /\ Busy(c, "conn") = {} => ConnAgrees(c)
    /\ \A g \in Busy(c, "conn") : ConnPhase(g)

GoneInv(c) ==
  /\ c \in gone => Working(c) = {} /\ NothingOf(c)
  /\ \A g \in Working(c) :
       doing[g].op = "unregister" /\ (\A k \in Keys["unregister"] : <<c, k>> \notin raced) => GonePhase(g)

Alone(c) ==
  \A k \in Keys["unregister"] : <<c, k>> \notin raced => \A g, f \in Busy(c, k) : g = f

\* One call at a time changes a kind of key, unless the calls raced; what it has done
\* and what is left to do then tell how far the keys are apart.
RsInv == RsType /\ \A c \in RsClient : Alone(c) /\ RoomsInv(c) /\ ConnInv(c) /\ GoneInv(c)

Ops == {"register", "unregister", "touch", "setAttr", "deleteAttr", "join", "leave", "leaveAll"}

\* The commands of the longer operations, one at a time.
LEMMA CommandTable ==
  /\ DOMAIN Commands = Ops
  /\ Commands["register"] = RegisterCmds
  /\ Commands["unregister"] = UnregisterCmds
  /\ Commands["touch"] = TouchCmds
  /\ Commands["setAttr"] = SetAttrCmds
  /\ Commands["deleteAttr"] = DeleteAttrCmds
  /\ Commands["join"] = JoinCmds
  /\ Commands["leave"] = LeaveCmds
  /\ Commands["leaveAll"] = LeaveAllCmds
  BY Zenon DEF Commands, Ops

LEMMA RegisterCmdsAt ==
  ASSUME NEW at \in 1 .. Len(RegisterCmds)
  PROVE  /\ Len(RegisterCmds) = 3
         /\ \/ at = 1 /\ RegisterCmds[at] = "HSET"
            \/ at = 2 /\ RegisterCmds[at] = "EXPIRE"
            \/ at = 3 /\ RegisterCmds[at] = "SADD conns"
<1>1. Len(RegisterCmds) = 3
  BY Zenon DEF RegisterCmds
<1>2. at = 1 \/ at = 2 \/ at = 3
  BY <1>1
<1>3. RegisterCmds[1] = "HSET" /\ RegisterCmds[2] = "EXPIRE" /\ RegisterCmds[3] = "SADD conns"
  BY Zenon DEF RegisterCmds
<1> QED
  BY <1>1, <1>2, <1>3, Zenon

LEMMA UnregisterCmdsAt ==
  ASSUME NEW at \in 1 .. Len(UnregisterCmds)
  PROVE  /\ Len(UnregisterCmds) = 6
         /\ \/ at = 1 /\ UnregisterCmds[at] = "SMEMBERS"
            \/ at = 2 /\ UnregisterCmds[at] = "DEL conn"
            \/ at = 3 /\ UnregisterCmds[at] = "DEL attr"
            \/ at = 4 /\ UnregisterCmds[at] = "DEL rooms"
            \/ at = 5 /\ UnregisterCmds[at] = "SREM conns"
            \/ at = 6 /\ UnregisterCmds[at] = "SREM each"
<1>1. Len(UnregisterCmds) = 6
  BY Zenon DEF UnregisterCmds
<1>2. at = 1 \/ at = 2 \/ at = 3 \/ at = 4 \/ at = 5 \/ at = 6
  BY <1>1
<1>3. /\ UnregisterCmds[1] = "SMEMBERS" /\ UnregisterCmds[2] = "DEL conn" /\ UnregisterCmds[3] = "DEL attr"
      /\ UnregisterCmds[4] = "DEL rooms" /\ UnregisterCmds[5] = "SREM conns" /\ UnregisterCmds[6] = "SREM each"
  BY Zenon DEF UnregisterCmds
<1> QED
  BY <1>1, <1>2, <1>3, Zenon

LEMMA TouchCmdsAt ==
  ASSUME NEW at \in 1 .. Len(TouchCmds)
  PROVE  /\ Len(TouchCmds) = 1
         /\ at = 1 /\ TouchCmds[at] = "HSET last_activity"
<1>1. Len(TouchCmds) = 1
  BY Zenon DEF TouchCmds
<1>2. at = 1
  BY <1>1
<1>3. TouchCmds[1] = "HSET last_activity"
  BY Zenon DEF TouchCmds
<1> QED
  BY <1>1, <1>2, <1>3, Zenon

LEMMA SetAttrCmdsAt ==
  ASSUME NEW at \in 1 .. Len(SetAttrCmds)
  PROVE  /\ Len(SetAttrCmds) = 1
         /\ at = 1 /\ SetAttrCmds[at] = "HSET attr"
<1>1. Len(SetAttrCmds) = 1
  BY Zenon DEF SetAttrCmds
<1>2. at = 1
  BY <1>1
<1>3. SetAttrCmds[1] = "HSET attr"
  BY Zenon DEF SetAttrCmds
<1> QED
  BY <1>1, <1>2, <1>3, Zenon

LEMMA DeleteAttrCmdsAt ==
  ASSUME NEW at \in 1 .. Len(DeleteAttrCmds)
  PROVE  /\ Len(DeleteAttrCmds) = 1
         /\ at = 1 /\ DeleteAttrCmds[at] = "HDEL attr"
<1>1. Len(DeleteAttrCmds) = 1
  BY Zenon DEF DeleteAttrCmds
<1>2. at = 1
  BY <1>1
<1>3. DeleteAttrCmds[1] = "HDEL attr"
  BY Zenon DEF DeleteAttrCmds
<1> QED
  BY <1>1, <1>2, <1>3, Zenon

LEMMA JoinCmdsAt ==
  ASSUME NEW at \in 1 .. Len(JoinCmds)
  PROVE  /\ Len(JoinCmds) = 2
         /\ \/ at = 1 /\ JoinCmds[at] = "SADD room"
            \/ at = 2 /\ JoinCmds[at] = "SADD rooms"
<1>1. Len(JoinCmds) = 2
  BY Zenon DEF JoinCmds
<1>2. at = 1 \/ at = 2
  BY <1>1
<1>3. JoinCmds[1] = "SADD room" /\ JoinCmds[2] = "SADD rooms"
  BY Zenon DEF JoinCmds
<1> QED
  BY <1>1, <1>2, <1>3, Zenon

LEMMA LeaveCmdsAt ==
  ASSUME NEW at \in 1 .. Len(LeaveCmds)
  PROVE  /\ Len(LeaveCmds) = 2
         /\ \/ at = 1 /\ LeaveCmds[at] = "SREM room"
            \/ at = 2 /\ LeaveCmds[at] = "SREM rooms"
<1>1. Len(LeaveCmds) = 2
  BY Zenon DEF LeaveCmds
<1>2. at = 1 \/ at = 2
  BY <1>1
<1>3. LeaveCmds[1] = "SREM room" /\ LeaveCmds[2] = "SREM rooms"
  BY Zenon DEF LeaveCmds
<1> QED
  BY <1>1, <1>2, <1>3, Zenon

LEMMA LeaveAllCmdsAt ==
  ASSUME NEW at \in 1 .. Len(LeaveAllCmds)
  PROVE  /\ Len(LeaveAllCmds) = 3
         /\ \/ at = 1 /\ LeaveAllCmds[at] = "SMEMBERS"
            \/ at = 2 /\ LeaveAllCmds[at] = "SREM each"
            \/ at = 3 /\ LeaveAllCmds[at] = "DEL rooms"
<1>1. Len(LeaveAllCmds) = 3
  BY Zenon DEF LeaveAllCmds
<1>2. at = 1 \/ at = 2 \/ at = 3
  BY <1>1
<1>3. LeaveAllCmds[1] = "SMEMBERS" /\ LeaveAllCmds[2] = "SREM each" /\ LeaveAllCmds[3] = "DEL rooms"
  BY Zenon DEF LeaveAllCmds
<1> QED
  BY <1>1, <1>2, <1>3, Zenon

\* Which keys an operation changes.
LEMMA KeyTable ==
  /\ Keys["unregister"] = {"conn", "activity", "attr", "rooms"}
  /\ \A op \in Ops : /\ Keys[op] \subseteq Keys["unregister"] /\ Keys[op] # {}
                     /\ "rooms" \in Keys[op] <=> op \in {"unregister", "join", "leave", "leaveAll"}
                     /\ "conn" \in Keys[op] <=> op \in {"register", "unregister"}
  BY DEF Keys, Ops

\* The place in its operation of a call that sends a command.
LEMMA SentAt ==
  ASSUME RsType, NEW g \in RsCall, NEW c, NEW name, Sends(g, name, c)
  PROVE  LET d == doing[g]
         IN /\ d \in Operation /\ d # RsIdle /\ d.client = c /\ c \in RsClient /\ d.op \in Ops
            /\ d.op = "register" => /\ Len(Commands[d.op]) = 3
                                    /\ \/ d.at = 1 /\ name = "HSET"
                                       \/ d.at = 2 /\ name = "EXPIRE"
                                       \/ d.at = 3 /\ name = "SADD conns"
            /\ d.op = "unregister" => /\ Len(Commands[d.op]) = 6
                                      /\ \/ d.at = 1 /\ name = "SMEMBERS"
                                         \/ d.at = 2 /\ name = "DEL conn"
                                         \/ d.at = 3 /\ name = "DEL attr"
                                         \/ d.at = 4 /\ name = "DEL rooms"
                                         \/ d.at = 5 /\ name = "SREM conns"
                                         \/ d.at = 6 /\ name = "SREM each"
            /\ d.op = "touch" => /\ Len(Commands[d.op]) = 1
                                 /\ d.at = 1 /\ name = "HSET last_activity"
            /\ d.op = "setAttr" => /\ Len(Commands[d.op]) = 1
                                   /\ d.at = 1 /\ name = "HSET attr"
            /\ d.op = "deleteAttr" => /\ Len(Commands[d.op]) = 1
                                      /\ d.at = 1 /\ name = "HDEL attr"
            /\ d.op = "join" => /\ Len(Commands[d.op]) = 2
                                /\ \/ d.at = 1 /\ name = "SADD room"
                                   \/ d.at = 2 /\ name = "SADD rooms"
            /\ d.op = "leave" => /\ Len(Commands[d.op]) = 2
                                 /\ \/ d.at = 1 /\ name = "SREM room"
                                    \/ d.at = 2 /\ name = "SREM rooms"
            /\ d.op = "leaveAll" => /\ Len(Commands[d.op]) = 3
                                    /\ \/ d.at = 1 /\ name = "SMEMBERS"
                                       \/ d.at = 2 /\ name = "SREM each"
                                       \/ d.at = 3 /\ name = "DEL rooms"
<1> DEFINE d == doing[g]
<1>1. /\ d \in Operation /\ d # RsIdle /\ d.client = c /\ Commands[d.op][d.at] = name
      /\ d.at \in 1 .. Len(Commands[d.op])
  BY Zenon DEF Sends, RsType
<1>2. c \in RsClient /\ d.op \in Ops
  BY <1>1, CommandTable, Zenon DEF Operation
<1> HIDE DEF d
<1>3. ASSUME d.op = "register"
      PROVE  /\ Len(Commands[d.op]) = 3
             /\ \/ d.at = 1 /\ name = "HSET"
                \/ d.at = 2 /\ name = "EXPIRE"
                \/ d.at = 3 /\ name = "SADD conns"
  <2>1. Commands[d.op] = RegisterCmds
    BY <1>3, CommandTable, Zenon
  <2>2. d.at \in 1 .. Len(RegisterCmds) /\ RegisterCmds[d.at] = name
    BY <1>1, <2>1, Zenon
  <2> QED
    BY <2>1, <2>2, RegisterCmdsAt, Zenon
<1>4. ASSUME d.op = "unregister"
      PROVE  /\ Len(Commands[d.op]) = 6
             /\ \/ d.at = 1 /\ name = "SMEMBERS"
                \/ d.at = 2 /\ name = "DEL conn"
                \/ d.at = 3 /\ name = "DEL attr"
                \/ d.at = 4 /\ name = "DEL rooms"
                \/ d.at = 5 /\ name = "SREM conns"
                \/ d.at = 6 /\ name = "SREM each"
  <2>1. Commands[d.op] = UnregisterCmds
    BY <1>4, CommandTable, Zenon
  <2>2. d.at \in 1 .. Len(UnregisterCmds) /\ UnregisterCmds[d.at] = name
    BY <1>1, <2>1
  <2> QED
    BY <2>1, <2>2, UnregisterCmdsAt, Zenon
<1>5. ASSUME d.op = "touch"
      PROVE  /\ Len(Commands[d.op]) = 1
             /\ d.at = 1 /\ name = "HSET last_activity"
  <2>1. Commands[d.op] = TouchCmds
    BY <1>5, CommandTable, Zenon
  <2>2. d.at \in 1 .. Len(TouchCmds) /\ TouchCmds[d.at] = name
    BY <1>1, <2>1
  <2> QED
    BY <2>1, <2>2, TouchCmdsAt, Zenon
<1>6. ASSUME d.op = "setAttr"
      PROVE  /\ Len(Commands[d.op]) = 1
             /\ d.at = 1 /\ name = "HSET attr"
  <2>1. Commands[d.op] = SetAttrCmds
    BY <1>6, CommandTable, Zenon
  <2>2. d.at \in 1 .. Len(SetAttrCmds) /\ SetAttrCmds[d.at] = name
    BY <1>1, <2>1
  <2> QED
    BY <2>1, <2>2, SetAttrCmdsAt, Zenon
<1>7. ASSUME d.op = "deleteAttr"
      PROVE  /\ Len(Commands[d.op]) = 1
             /\ d.at = 1 /\ name = "HDEL attr"
  <2>1. Commands[d.op] = DeleteAttrCmds
    BY <1>7, CommandTable, Zenon
  <2>2. d.at \in 1 .. Len(DeleteAttrCmds) /\ DeleteAttrCmds[d.at] = name
    BY <1>1, <2>1
  <2> QED
    BY <2>1, <2>2, DeleteAttrCmdsAt, Zenon
<1>8. ASSUME d.op = "join"
      PROVE  /\ Len(Commands[d.op]) = 2
             /\ \/ d.at = 1 /\ name = "SADD room"
                \/ d.at = 2 /\ name = "SADD rooms"
  <2>1. Commands[d.op] = JoinCmds
    BY <1>8, CommandTable, Zenon
  <2>2. d.at \in 1 .. Len(JoinCmds) /\ JoinCmds[d.at] = name
    BY <1>1, <2>1
  <2> QED
    BY <2>1, <2>2, JoinCmdsAt, Zenon
<1>9. ASSUME d.op = "leave"
      PROVE  /\ Len(Commands[d.op]) = 2
             /\ \/ d.at = 1 /\ name = "SREM room"
                \/ d.at = 2 /\ name = "SREM rooms"
  <2>1. Commands[d.op] = LeaveCmds
    BY <1>9, CommandTable, Zenon
  <2>2. d.at \in 1 .. Len(LeaveCmds) /\ LeaveCmds[d.at] = name
    BY <1>1, <2>1
  <2> QED
    BY <2>1, <2>2, LeaveCmdsAt, Zenon
<1>10. ASSUME d.op = "leaveAll"
      PROVE  /\ Len(Commands[d.op]) = 3
             /\ \/ d.at = 1 /\ name = "SMEMBERS"
                \/ d.at = 2 /\ name = "SREM each"
                \/ d.at = 3 /\ name = "DEL rooms"
  <2>1. Commands[d.op] = LeaveAllCmds
    BY <1>10, CommandTable, Zenon
  <2>2. d.at \in 1 .. Len(LeaveAllCmds) /\ LeaveAllCmds[d.at] = name
    BY <1>1, <2>1
  <2> QED
    BY <2>1, <2>2, LeaveAllCmdsAt, Zenon
<1> QED
  BY <1>1, <1>2, <1>3, <1>4, <1>5, <1>6, <1>7, <1>8, <1>9, <1>10, Zenon DEF d

\* The operation that a command belongs to, and its place there.
LEMMA SentBy ==
  ASSUME RsType, NEW g \in RsCall, NEW c, NEW name, Sends(g, name, c)
  PROVE  LET d == doing[g]
             of(op, n, at) == d.op = op /\ Len(Commands[d.op]) = n /\ d.at = at
         IN /\ name = "HSET" => of("register", 3, 1)
            /\ name = "EXPIRE" => of("register", 3, 2)
            /\ name = "SADD conns" => of("register", 3, 3)
            /\ name = "SMEMBERS" => of("unregister", 6, 1) \/ of("leaveAll", 3, 1)
            /\ name = "DEL conn" => of("unregister", 6, 2)
            /\ name = "DEL attr" => of("unregister", 6, 3)
            /\ name = "DEL rooms" => of("unregister", 6, 4) \/ of("leaveAll", 3, 3)
            /\ name = "SREM conns" => of("unregister", 6, 5)
            /\ name = "SREM each" => of("unregister", 6, 6) \/ of("leaveAll", 3, 2)
            /\ name = "HSET last_activity" => of("touch", 1, 1)
            /\ name = "HSET attr" => of("setAttr", 1, 1)
            /\ name = "HDEL attr" => of("deleteAttr", 1, 1)
            /\ name = "SADD room" => of("join", 2, 1)
            /\ name = "SADD rooms" => of("join", 2, 2)
            /\ name = "SREM room" => of("leave", 2, 1)
            /\ name = "SREM rooms" => of("leave", 2, 2)
<1> DEFINE d == doing[g]
<1>1. d.op \in Ops
  BY SentAt, Zenon
<1>2. CASE d.op = "register"
  BY <1>2, SentAt, Zenon
<1>3. CASE d.op = "unregister"
  BY <1>3, SentAt, Zenon
<1>4. CASE d.op = "touch"
  BY <1>4, SentAt, Zenon
<1>5. CASE d.op = "setAttr"
  BY <1>5, SentAt, Zenon
<1>6. CASE d.op = "deleteAttr"
  BY <1>6, SentAt, Zenon
<1>7. CASE d.op = "join"
  BY <1>7, SentAt, Zenon
<1>8. CASE d.op = "leave"
  BY <1>8, SentAt, Zenon
<1>9. CASE d.op = "leaveAll"
  BY <1>9, SentAt, Zenon
<1> QED
  BY <1>1, <1>2, <1>3, <1>4, <1>5, <1>6, <1>7, <1>8, <1>9, Zenon DEF Ops

\* Redis is empty at first.
LEMMA RsInvInit == RSInit => RsInv
<1> SUFFICES ASSUME RSInit PROVE RsInv
  BY Zenon
<1>1. RsType
  BY Zenon DEF RSInit, RsType
<1>2. \A c \in RsClient : Working(c) = {}
  BY Zenon DEF RSInit, Working
<1>3. \A c \in RsClient : NothingOf(c)
  BY Zenon DEF RSInit, NothingOf, Members
<1>4. \A c \in RsClient : \A k : Busy(c, k) = {}
  BY <1>2, Zenon DEF Busy
<1>5. \A c \in RsClient : Members(c) = roomsOf[c] /\ ConnAgrees(c)
  BY <1>3, Zenon DEF NothingOf, ConnAgrees
<1> QED
  BY <1>1, <1>2, <1>3, <1>4, <1>5, Zenon DEF RsInv, Alone, RoomsInv, ConnInv, GoneInv

\* A step in which g goes on in its operation on c, or comes to its end.
Moves(g, c) ==
  /\ doing[g] # RsIdle /\ doing[g].client = c /\ c \in RsClient /\ raced' = raced
  /\ doing' \in [RsCall -> Operation \cup {RsIdle}]
  /\ \A f \in RsCall \ {g} : doing'[f] = doing[f]
  /\ doing'[g] # RsIdle => /\ doing'[g].op = doing[g].op /\ doing'[g].client = c
                           /\ doing'[g].at \in 1 .. Len(Commands[doing[g].op])

\* A step that leaves the keys of other clients alone.
Spares(c) ==
  \A b \in RsClient \ {c} :
    /\ connHash'[b] = connHash[b] /\ roomsOf'[b] = roomsOf[b] /\ Members(b)' = Members(b)
    /\ b \in hasTTL' <=> b \in hasTTL
    /\ b \in connSet' <=> b \in connSet
    /\ b \in attrHash' <=> b \in attrHash
    /\ b \in expiredConn' <=> b \in expiredConn
    /\ b \in gone' <=> b \in gone

\* The calls on a client after such a step.
LEMMA MovesBusy ==
  ASSUME RsType, NEW g \in RsCall, NEW c, Moves(g, c)
  PROVE  /\ g \in Working(c) /\ \A k \in Keys[doing[g].op] : g \in Busy(c, k)
         /\ \A b \in RsClient : Working(b)' \subseteq Working(b)
         /\ \A b \in RsClient : \A k : Busy(b, k)' \subseteq Busy(b, k)
         /\ \A b \in RsClient : b # c => Working(b)' = Working(b) /\ g \notin Working(b)
         /\ \A b \in RsClient : \A k : b # c => Busy(b, k)' = Busy(b, k)
         /\ \A f \in Working(c) : f # g => f \in Working(c)'
         /\ doing'[g] = RsIdle => g \notin Working(c)'
         /\ doing'[g] # RsIdle => g \in Working(c)'
         /\ \A k : k \notin Keys[doing[g].op] => Busy(c, k)' = Busy(c, k) /\ g \notin Busy(c, k)
  BY DEF Moves, Working, Busy

\* The step of a call keeps the invariant if it keeps it for its client.
LEMMA MoveKeeps ==
  ASSUME RsInv, RsType', NEW g \in RsCall, NEW c, Moves(g, c), Spares(c),
         RoomsInv(c)', ConnInv(c)', GoneInv(c)'
  PROVE  RsInv'
<1>1. RsType /\ c \in RsClient /\ raced' = raced
  BY Zenon DEF RsInv, Moves
<1>2. /\ \A b \in RsClient : \A k : Busy(b, k)' \subseteq Busy(b, k)
      /\ \A b \in RsClient : b # c => Working(b)' = Working(b) /\ g \notin Working(b)
      /\ \A b \in RsClient : \A k : b # c => Busy(b, k)' = Busy(b, k)
  BY <1>1, MovesBusy, Zenon
<1>3. ASSUME NEW b \in RsClient PROVE Alone(b)'
  BY <1>1, <1>2 DEF RsInv, Alone
<1>4. ASSUME NEW b \in RsClient, b # c PROVE RoomsInv(b)' /\ ConnInv(b)' /\ GoneInv(b)'
  <2>1. \A f \in Working(b) : doing'[f] = doing[f] /\ f \in RsCall /\ doing[f].client = b
    BY <1>2, <1>4, Zenon DEF Moves, Working
  <2>2. \A k : Busy(b, k) \subseteq Working(b)
    BY Zenon DEF Busy
  <2>3. RoomsInv(b)'
    <3>1. \A f \in Busy(b, "rooms") : RoomsPhase(f)' = RoomsPhase(f)
      BY <1>4, <2>1, <2>2 DEF RoomsPhase, Spares
    <3> QED
      BY <1>1, <1>2, <1>4, <3>1, Zenon DEF RoomsInv, RsInv, Spares
  <2>4. ConnInv(b)'
    <3>1. ConnAgrees(b)' <=> ConnAgrees(b)
      BY <1>4, Zenon DEF ConnAgrees, Spares
    <3>2. \A f \in Busy(b, "conn") : ConnPhase(f)' <=> ConnPhase(f)
      BY <1>4, <2>1, <2>2, <3>1 DEF ConnPhase, Spares, ConnAgrees
    <3> QED
      BY <1>1, <1>2, <1>4, <3>1, <3>2, Zenon DEF ConnInv, RsInv
  <2>5. GoneInv(b)'
    <3>1. NothingOf(b)' <=> NothingOf(b)
      BY <1>4, Zenon DEF NothingOf, Spares
    <3>2. \A f \in Working(b) : GonePhase(f)' <=> GonePhase(f)
      BY <1>4, <2>1 DEF GonePhase, Spares
    <3> QED
      BY <1>1, <1>2, <1>4, <2>1, <3>1, <3>2 DEF GoneInv, RsInv, Spares
  <2> QED
    BY <2>3, <2>4, <2>5, Zenon
<1> QED
  BY <1>3, <1>4, Zenon DEF RsInv

\* Advance is such a step.
LEMMA AdvanceMoves ==
  ASSUME RsType, NEW g \in RsCall, NEW c \in RsClient, doing[g] # RsIdle, doing[g].client = c,
         NEW rs \in SUBSET RsRoom, Advance(g, rs)
  PROVE  LET d == doing[g]
         IN /\ Moves(g, c)
            /\ d.at = Len(Commands[d.op]) => doing'[g] = RsIdle
            /\ d.at # Len(Commands[d.op]) => /\ doing'[g] # RsIdle /\ doing'[g].op = d.op
                                             /\ doing'[g].rooms = rs /\ doing'[g].at = d.at + 1
            /\ \A b \in RsClient \ {c} : b \in gone' <=> b \in gone
            /\ gone' \subseteq RsClient
            /\ c \in gone' => \/ c \in gone
                              \/ /\ d.op = "unregister" /\ d.at = Len(Commands[d.op])
                                 /\ \A k \in Keys["unregister"] : <<c, k>> \notin raced
<1> DEFINE d == doing[g]
           n == Len(Commands[d.op])
           e == [d EXCEPT !.rooms = rs, !.at = d.at + 1]
<1>1. d \in Operation /\ d.at \in 1 .. n /\ d.op \in Ops
  BY CommandTable, Zenon DEF RsType, Operation
<1>2. n \in Nat
  <2>1. \A op \in Ops : Len(Commands[op]) \in Nat
    <3>1. /\ Len(RegisterCmds) \in Nat /\ Len(UnregisterCmds) \in Nat /\ Len(TouchCmds) \in Nat
          /\ Len(SetAttrCmds) \in Nat /\ Len(DeleteAttrCmds) \in Nat /\ Len(JoinCmds) \in Nat
          /\ Len(LeaveCmds) \in Nat /\ Len(LeaveAllCmds) \in Nat
      BY Zenon DEF RegisterCmds, UnregisterCmds, TouchCmds, SetAttrCmds, DeleteAttrCmds, JoinCmds, LeaveCmds,
             LeaveAllCmds
    <3> QED
      BY <3>1, CommandTable, Zenon DEF Ops
  <2> QED
    BY <1>1, <2>1, Zenon
<1>3. e \in Operation /\ e # RsIdle /\ e.op = d.op /\ e.client = c /\ e.rooms = rs /\ e.at = d.at + 1
  <2>1. e \in Operation
    <3>1. Operation = [op : Ops, client : RsClient, rooms : SUBSET RsRoom, at : Nat]
      BY CommandTable, Zenon DEF Operation
    <3>2. d.at + 1 \in Nat
      BY <1>1, <1>2
    <3> QED
      BY <1>1, <3>1, <3>2, Zenon
  <2> QED
    BY <1>1, <2>1, RsAssumption, Zenon DEF Operation
<1>4. /\ doing' = [doing EXCEPT ![g] = IF d.at = n THEN RsIdle ELSE e] /\ raced' = raced
      /\ gone' = IF d.at = n /\ d.op = "unregister" /\ \A k \in Keys[d.op] : <<c, k>> \notin raced
                 THEN gone \cup {c} ELSE gone
  BY Zenon DEF Advance
<1> HIDE DEF e, n
<1>5. /\ \A f \in RsCall \ {g} : doing'[f] = doing[f]
      /\ doing'[g] = IF d.at = n THEN RsIdle ELSE e
      /\ doing' \in [RsCall -> Operation \cup {RsIdle}]
  BY <1>3, <1>4, Zenon DEF RsType
<1>6. d.at # n => d.at + 1 \in 1 .. n
  BY <1>1, <1>2
<1>7. Moves(g, c)
  BY <1>3, <1>4, <1>5, <1>6, Zenon DEF Moves, n
<1>8. /\ \A b \in RsClient \ {c} : b \in gone' <=> b \in gone
      /\ gone' \subseteq RsClient
      /\ c \in gone' => \/ c \in gone
                        \/ d.op = "unregister" /\ d.at = n /\ \A k \in Keys["unregister"] : <<c, k>> \notin raced
  BY <1>4, Zenon DEF RsType
<1> QED
  BY <1>3, <1>5, <1>7, <1>8, Zenon DEF n

\* A call that does not change rooms.
LEMMA RoomsSpared ==
  ASSUME RsInv, NEW g \in RsCall, NEW c, Moves(g, c), "rooms" \notin Keys[doing[g].op],
         roomsOf'[c] = roomsOf[c], Members(c)' = Members(c)
  PROVE  RoomsInv(c)'
<1>1. RsType /\ c \in RsClient /\ raced' = raced /\ RoomsInv(c)
  BY Zenon DEF RsInv, Moves
<1>2. Busy(c, "rooms")' = Busy(c, "rooms") /\ g \notin Busy(c, "rooms")
  BY <1>1, MovesBusy, Zenon
<1>3. \A f \in Busy(c, "rooms") : doing'[f] = doing[f] /\ doing[f].client = c
  BY <1>2, Zenon DEF Moves, Busy, Working
<1>4. \A f \in Busy(c, "rooms") : RoomsPhase(f)' = RoomsPhase(f)
  BY <1>3 DEF RoomsPhase
<1> QED
  BY <1>1, <1>2, <1>4, Zenon DEF RoomsInv

\* The only call that changes rooms takes the indexes from one phase to the next.
LEMMA RoomsMoved ==
  ASSUME RsInv, NEW g \in RsCall, NEW c, Moves(g, c), "rooms" \in Keys[doing[g].op],
         RoomsPhase(g) => IF doing'[g] = RsIdle THEN Members(c)' = roomsOf'[c] ELSE RoomsPhase(g)'
  PROVE  RoomsInv(c)'
<1> SUFFICES ASSUME <<c, "rooms">> \notin raced
             PROVE  /\ Busy(c, "rooms")' = {} => Members(c)' = roomsOf'[c]
                    /\ \A f \in Busy(c, "rooms")' : RoomsPhase(f)'
  BY Zenon DEF RoomsInv, Moves
<1>1. RsType /\ c \in RsClient /\ RoomsInv(c) /\ Alone(c)
  BY Zenon DEF RsInv, Moves
<1>2. /\ g \in Busy(c, "rooms") /\ Busy(c, "rooms")' \subseteq Busy(c, "rooms")
      /\ doing'[g] # RsIdle => g \in Busy(c, "rooms")'
      /\ doing'[g] = RsIdle => g \notin Busy(c, "rooms")'
  BY <1>1, MovesBusy, Zenon DEF Busy, Moves
<1>3. Busy(c, "rooms") = {g}
  BY <1>1, <1>2, KeyTable DEF Alone
<1>4. RoomsPhase(g)
  BY <1>1, <1>3, Zenon DEF RoomsInv
<1> QED
  BY <1>2, <1>3, <1>4, Zenon

\* A call that neither registers nor unregisters: it may put the time into the hash.
LEMMA ConnSpared ==
  ASSUME RsInv, NEW g \in RsCall, NEW c, Moves(g, c), "conn" \notin Keys[doing[g].op],
         UNCHANGED <<hasTTL, connSet, expiredConn>>,
         connHash'[c] = connHash[c] \/ connHash'[c] = connHash[c] \cup {"last_activity"}
  PROVE  ConnInv(c)'
<1>1. RsType /\ c \in RsClient /\ raced' = raced /\ ConnInv(c)
  BY Zenon DEF RsInv, Moves
<1>2. Busy(c, "conn")' = Busy(c, "conn") /\ g \notin Busy(c, "conn")
  BY <1>1, MovesBusy, Zenon
<1>3. \A f \in Busy(c, "conn") : doing'[f] = doing[f] /\ doing[f].client = c
  BY <1>2, Zenon DEF Moves, Busy, Working
<1>4. connHash[c] \in {{}, {"last_activity"}, Fields}
  BY <1>1, Zenon DEF RsType
<1>5. /\ connHash'[c] = Fields <=> connHash[c] = Fields
      /\ connHash[c] \subseteq {"last_activity"} => connHash'[c] \subseteq {"last_activity"}
  BY <1>4 DEF Fields
<1>6. ConnAgrees(c)' <=> ConnAgrees(c)
  BY <1>5, Zenon DEF ConnAgrees
<1>7. \A f \in Busy(c, "conn") : ConnPhase(f) => ConnPhase(f)'
  BY <1>3, <1>5, <1>6, Zenon DEF ConnPhase, ConnAgrees
<1> QED
  BY <1>1, <1>2, <1>6, <1>7, Zenon DEF ConnInv

\* The only call that registers or unregisters.
LEMMA ConnMoved ==
  ASSUME RsInv, NEW g \in RsCall, NEW c, Moves(g, c), "conn" \in Keys[doing[g].op],
         ConnPhase(g) => IF doing'[g] = RsIdle THEN ConnAgrees(c)' ELSE ConnPhase(g)'
  PROVE  ConnInv(c)'
<1> SUFFICES ASSUME <<c, "conn">> \notin raced
             PROVE  /\ Busy(c, "conn")' = {} => ConnAgrees(c)'
                    /\ \A f \in Busy(c, "conn")' : ConnPhase(f)'
  BY Zenon DEF ConnInv, Moves
<1>1. RsType /\ c \in RsClient /\ ConnInv(c) /\ Alone(c)
  BY Zenon DEF RsInv, Moves
<1>2. /\ g \in Busy(c, "conn") /\ Busy(c, "conn")' \subseteq Busy(c, "conn")
      /\ doing'[g] # RsIdle => g \in Busy(c, "conn")'
      /\ doing'[g] = RsIdle => g \notin Busy(c, "conn")'
  BY <1>1, MovesBusy, Zenon DEF Busy, Moves
<1>3. Busy(c, "conn") = {g}
  BY <1>1, <1>2, KeyTable DEF Alone
<1>4. ConnPhase(g)
  BY <1>1, <1>3, Zenon DEF ConnInv
<1> QED
  BY <1>2, <1>3, <1>4, Zenon

Unraced(c) == \A k \in Keys["unregister"] : <<c, k>> \notin raced

\* An unregistration that raced with nothing is the only call on its client.
LEMMA UnracedIsAlone ==
  ASSUME RsInv, NEW c \in RsClient, Unraced(c), NEW f \in Working(c), NEW g \in Working(c),
         doing[f].op = "unregister"
  PROVE  f = g
<1>1. doing[g].op \in Ops
  BY CommandTable, Zenon DEF RsInv, RsType, Working, Operation
<1>2. PICK k \in Keys[doing[g].op] : k \in Keys["unregister"]
  BY <1>1, KeyTable
<1>3. g \in Busy(c, k) /\ f \in Busy(c, k)
  BY <1>2, Zenon DEF Busy
<1> QED
  BY <1>2, <1>3, Zenon DEF Unraced, RsInv, Alone

\* What a step does to a client that is to be gone.
LEMMA GoneMoved ==
  ASSUME RsInv, NEW g \in RsCall, NEW c, Moves(g, c),
         c \in gone' /\ c \notin gone => /\ doing'[g] = RsIdle /\ doing[g].op = "unregister" /\ Unraced(c)
                                         /\ NothingOf(c)',
         doing[g].op = "unregister" /\ Unraced(c) /\ GonePhase(g) /\ doing'[g] # RsIdle => GonePhase(g)'
  PROVE  GoneInv(c)'
<1>1. RsType /\ c \in RsClient /\ raced' = raced /\ GoneInv(c)
  BY Zenon DEF RsInv, Moves
<1>2. /\ g \in Working(c) /\ Working(c)' \subseteq Working(c)
      /\ doing'[g] = RsIdle => g \notin Working(c)'
  BY <1>1, MovesBusy, Zenon
<1>3. c \notin gone
  BY <1>1, <1>2, Zenon DEF GoneInv
<1>4. ASSUME c \in gone' PROVE Working(c)' = {} /\ NothingOf(c)'
  BY <1>1, <1>2, <1>3, <1>4, UnracedIsAlone, Zenon
<1>5. ASSUME NEW f \in Working(c)', doing'[f].op = "unregister", Unraced(c) PROVE GonePhase(f)'
  <2>1. f \in Working(c) /\ f \in RsCall /\ doing'[f] # RsIdle
    BY <1>2, Zenon DEF Working
  <2>2. doing[f].op = "unregister"
    BY <1>5, <2>1, Zenon DEF Moves
  <2>3. f = g
    BY <1>1, <1>2, <1>5, <2>1, <2>2, UnracedIsAlone, Zenon
  <2>4. GonePhase(g)
    BY <1>1, <1>2, <1>5, <2>2, <2>3, Zenon DEF GoneInv, Unraced
  <2> QED
    BY <1>5, <2>1, <2>2, <2>3, <2>4, Zenon
<1> QED
  BY <1>1, <1>4, <1>5, Zenon DEF GoneInv, Unraced

\* A command on a connection's hash or on the set of connections.
LEMMA ConnCommandInv == ASSUME RsInv, NEW g \in RsCall, NEW c \in RsClient, ConnCommand(g, c) PROVE RsInv'
<1> DEFINE d == doing[g]
           e == doing'[g]
<1>1. RsType
  BY Zenon DEF RsInv
<1>2. PICK name : Sends(g, name, c)
  BY Zenon DEF ConnCommand
<1>3. /\ d \in Operation /\ d # RsIdle /\ d.client = c /\ d.op \in Ops /\ d.rooms \in SUBSET RsRoom
  BY <1>1, <1>2, SentAt, Zenon DEF Operation
<1>4. /\ Moves(g, c)
      /\ d.at = Len(Commands[d.op]) => e = RsIdle
      /\ d.at # Len(Commands[d.op]) => e # RsIdle /\ e.op = d.op /\ e.rooms = d.rooms /\ e.at = d.at + 1
      /\ \A b \in RsClient \ {c} : b \in gone' <=> b \in gone
      /\ gone' \subseteq RsClient
      /\ c \in gone' => \/ c \in gone
                        \/ /\ d.op = "unregister" /\ d.at = Len(Commands[d.op])
                           /\ \A k \in Keys["unregister"] : <<c, k>> \notin raced
  <2>1. Advance(g, d.rooms)
    BY Zenon DEF ConnCommand
  <2> QED
    BY <1>1, <1>3, <2>1, AdvanceMoves, Zenon
<1>5. UNCHANGED <<attrHash, roomSet, roomsOf>> /\ \A b \in RsClient : Members(b)' = Members(b)
  BY Zenon DEF ConnCommand, Members
<1>6. e # RsIdle => e.client = c
  BY <1>4, Zenon DEF Moves
<1>7. /\ connHash' \in [RsClient -> {{}, {"last_activity"}, Fields}]
      /\ \A b \in RsClient \ {c} : /\ connHash'[b] = connHash[b]
                                   /\ b \in hasTTL' <=> b \in hasTTL
                                   /\ b \in connSet' <=> b \in connSet
                                   /\ b \in expiredConn' <=> b \in expiredConn
  <2>1. \A h \in {{}, {"last_activity"}, Fields} : h \cup {"last_activity"} \in {{}, {"last_activity"}, Fields}
    BY Zenon DEF Fields
  <2> QED
    BY <1>1, <2>1, Zenon DEF ConnCommand, RsType
<1>8. RsType'
  BY <1>1, <1>4, <1>5, <1>7, Zenon DEF RsType, Moves
<1>9. Spares(c)
  BY <1>4, <1>5, <1>7, Zenon DEF Spares
<1>10. SUFFICES RoomsInv(c)' /\ ConnInv(c)' /\ GoneInv(c)'
  BY <1>4, <1>8, <1>9, MoveKeeps, Zenon
<1> HIDE DEF d, e
<1>11. ASSUME d.op \in {"register", "touch"} PROVE RoomsInv(c)' /\ GoneInv(c)'
  <2>1. RoomsInv(c)'
    BY <1>3, <1>4, <1>5, <1>11, KeyTable, RoomsSpared, Zenon DEF d
  <2>2. GoneInv(c)'
    BY <1>3, <1>4, <1>11, GoneMoved, Zenon DEF d
  <2> QED
    BY <2>1, <2>2, Zenon
<1>12. CASE Sends(g, "HSET", c)
  <2>1. d.op = "register" /\ d.at = 1 /\ Len(Commands[d.op]) = 3
    BY <1>1, <1>12, SentBy, Zenon DEF d
  <2>2. e # RsIdle /\ e.op = "register" /\ e.at = 2
    BY <1>4, <2>1
  <2>3. connHash'[c] = Fields
    BY <1>1, <1>12, Zenon DEF ConnCommand, RsType, Sends
  <2>4. ConnPhase(g)'
    BY <1>6, <2>2, <2>3 DEF ConnPhase, e
  <2> QED
    BY <1>4, <1>11, <2>1, <2>2, <2>4, KeyTable, ConnMoved, Zenon DEF d, e, Ops
<1>13. CASE Sends(g, "EXPIRE", c)
  <2>1. d.op = "register" /\ d.at = 2 /\ Len(Commands[d.op]) = 3
    BY <1>1, <1>13, SentBy, Zenon DEF d
  <2>2. e # RsIdle /\ e.op = "register" /\ e.at = 3
    BY <1>4, <2>1
  <2>3. UNCHANGED <<connHash, expiredConn>>
    BY <1>13, Zenon DEF ConnCommand, Sends
  <2>4. ConnPhase(g) => ConnPhase(g)'
    BY <1>3, <1>6, <2>1, <2>2, <2>3 DEF ConnPhase, e, d
  <2> QED
    BY <1>4, <1>11, <2>1, <2>2, <2>4, KeyTable, ConnMoved, Zenon DEF d, e, Ops
<1>14. CASE Sends(g, "SADD conns", c)
  <2>1. d.op = "register" /\ d.at = 3 /\ Len(Commands[d.op]) = 3
    BY <1>1, <1>14, SentBy, Zenon DEF d
  <2>2. e = RsIdle
    BY <1>4, <2>1, Zenon
  <2>3. connSet' = connSet \cup {c} /\ UNCHANGED <<connHash, expiredConn>>
    BY <1>14, Zenon DEF ConnCommand, Sends
  <2>4. ConnPhase(g) => ConnAgrees(c)'
    BY <1>3, <2>1, <2>3 DEF ConnPhase, ConnAgrees, d
  <2> QED
    BY <1>4, <1>11, <2>1, <2>2, <2>4, KeyTable, ConnMoved, Zenon DEF d, e, Ops
<1>15. CASE Sends(g, "HSET last_activity", c)
  <2>1. d.op = "touch"
    BY <1>1, <1>15, SentBy, Zenon DEF d
  <2>2. connHash'[c] = connHash[c] \cup {"last_activity"} /\ UNCHANGED <<hasTTL, connSet, expiredConn>>
    BY <1>1, <1>15, Zenon DEF ConnCommand, RsType, Sends
  <2>3. ConnInv(c)'
    BY <1>4, <2>1, <2>2, KeyTable, ConnSpared, Zenon DEF d, Ops
  <2> QED
    BY <1>11, <2>1, <2>3, Zenon
<1>16. ASSUME d.op = "unregister", d.at \in {2, 5}, Len(Commands[d.op]) = 6
       PROVE  /\ RoomsInv(c)' /\ e # RsIdle /\ e.op = "unregister" /\ e.at = d.at + 1
              /\ c \in gone' => c \in gone
  <2>1. e # RsIdle /\ e.op = "unregister" /\ e.at = d.at + 1 /\ e.rooms = d.rooms
    BY <1>4, <1>16
  <2>2. RoomsPhase(g) => RoomsPhase(g)'
    BY <1>3, <1>5, <1>6, <1>16, <2>1 DEF RoomsPhase, e, d
  <2>3. RoomsInv(c)'
    BY <1>4, <1>16, <2>1, <2>2, KeyTable, RoomsMoved, Zenon DEF d, e, Ops
  <2> QED
    BY <1>4, <1>16, <2>1, <2>3, Zenon
<1>17. CASE Sends(g, "DEL conn", c)
  <2>1. d.op = "unregister" /\ d.at = 2 /\ Len(Commands[d.op]) = 6
    BY <1>1, <1>17, SentBy, Zenon DEF d
  <2>2. RoomsInv(c)' /\ e # RsIdle /\ e.op = "unregister" /\ e.at = 3 /\ (c \in gone' => c \in gone)
    BY <1>16, <2>1
  <2>3. connHash'[c] = {} /\ c \notin hasTTL' /\ c \notin expiredConn'
    BY <1>1, <1>17, Zenon DEF ConnCommand, RsType, Sends
  <2>4. ConnPhase(g)' /\ GonePhase(g)'
    BY <1>6, <2>2, <2>3 DEF ConnPhase, GonePhase, e
  <2>5. ConnInv(c)'
    BY <1>4, <2>1, <2>2, <2>4, KeyTable, ConnMoved, Zenon DEF d, e, Ops
  <2>6. GoneInv(c)'
    BY <1>4, <2>2, <2>4, GoneMoved, Zenon DEF e
  <2> QED
    BY <2>2, <2>5, <2>6, Zenon
<1>18. CASE Sends(g, "SREM conns", c)
  <2>1. d.op = "unregister" /\ d.at = 5 /\ Len(Commands[d.op]) = 6
    BY <1>1, <1>18, SentBy, Zenon DEF d
  <2>2. RoomsInv(c)' /\ e # RsIdle /\ e.op = "unregister" /\ e.at = 6 /\ (c \in gone' => c \in gone)
    BY <1>16, <2>1
  <2>3. connSet' = connSet \ {c} /\ UNCHANGED <<connHash, hasTTL, expiredConn>>
    BY <1>18, Zenon DEF ConnCommand, Sends
  <2>4. ConnPhase(g) => ConnPhase(g)'
    BY <1>3, <1>6, <2>1, <2>2, <2>3 DEF ConnPhase, d, e
  <2>5. GonePhase(g) => GonePhase(g)'
    BY <1>3, <1>5, <1>6, <2>1, <2>2, <2>3 DEF GonePhase, d, e
  <2>6. ConnInv(c)'
    BY <1>4, <2>1, <2>2, <2>4, KeyTable, ConnMoved, Zenon DEF d, e, Ops
  <2>7. GoneInv(c)'
    BY <1>4, <2>2, <2>5, GoneMoved, Zenon DEF e
  <2> QED
    BY <2>2, <2>6, <2>7, Zenon
<1> QED
  BY <1>12, <1>13, <1>14, <1>15, <1>17, <1>18, Zenon DEF ConnCommand

\* A command on the attributes.
LEMMA AttrCommandInv == ASSUME RsInv, NEW g \in RsCall, NEW c \in RsClient, AttrCommand(g, c) PROVE RsInv'
<1> DEFINE d == doing[g]
           e == doing'[g]
<1>1. RsType
  BY DEF RsInv
<1>2. PICK name : Sends(g, name, c)
  BY Zenon DEF AttrCommand
<1>3. /\ d \in Operation /\ d # RsIdle /\ d.client = c /\ d.op \in Ops /\ d.rooms \in SUBSET RsRoom
  BY <1>1, <1>2, SentAt, Zenon DEF Operation
<1>4. /\ Moves(g, c)
      /\ d.at = Len(Commands[d.op]) => e = RsIdle
      /\ d.at # Len(Commands[d.op]) => e # RsIdle /\ e.op = d.op /\ e.rooms = d.rooms /\ e.at = d.at + 1
      /\ \A b \in RsClient \ {c} : b \in gone' <=> b \in gone
      /\ gone' \subseteq RsClient
      /\ c \in gone' => \/ c \in gone
                        \/ /\ d.op = "unregister" /\ d.at = Len(Commands[d.op])
                           /\ \A k \in Keys["unregister"] : <<c, k>> \notin raced
  <2>1. Advance(g, d.rooms)
    BY Zenon DEF AttrCommand
  <2> QED
    BY <1>1, <1>3, <2>1, AdvanceMoves, Zenon
<1>5. /\ UNCHANGED <<connHash, hasTTL, connSet, roomSet, roomsOf, expiredConn>>
      /\ \A b \in RsClient : Members(b)' = Members(b)
      /\ \A b \in RsClient \ {c} : b \in attrHash' <=> b \in attrHash
  BY Zenon DEF AttrCommand, Members
<1>6. e # RsIdle => e.client = c
  BY <1>4 DEF Moves
<1>7. RsType'
  BY <1>1, <1>4, <1>5, Zenon DEF RsType, Moves
<1>8. Spares(c)
  BY <1>4, <1>5, Zenon DEF Spares
<1>9. SUFFICES RoomsInv(c)' /\ ConnInv(c)' /\ GoneInv(c)'
  BY <1>4, <1>7, <1>8, MoveKeeps, Zenon
<1> HIDE DEF d, e
<1>10. CASE Sends(g, "HSET attr", c) \/ Sends(g, "HDEL attr", c)
  <2>0. d.op \in {"setAttr", "deleteAttr"}
    BY <1>1, <1>10, SentBy, Zenon DEF d
  <2>1. RoomsInv(c)'
    BY <1>3, <1>4, <1>5, <2>0, KeyTable, RoomsSpared, Zenon DEF d
  <2>2. ConnInv(c)'
    BY <1>3, <1>4, <1>5, <2>0, KeyTable, ConnSpared, Zenon DEF d
  <2>3. GoneInv(c)'
    BY <1>3, <1>4, <2>0, GoneMoved, Zenon DEF d
  <2> QED
    BY <2>1, <2>2, <2>3, Zenon
<1>11. CASE Sends(g, "DEL attr", c)
  <2>1. d.op = "unregister" /\ d.at = 3 /\ Len(Commands[d.op]) = 6
    BY <1>1, <1>11, SentBy, Zenon DEF d
  <2>2. e # RsIdle /\ e.op = "unregister" /\ e.at = 4 /\ e.rooms = d.rooms
    BY <1>4, <2>1
  <2>3. c \notin attrHash'
    BY <1>11, Zenon DEF AttrCommand, Sends
  <2>4. RoomsPhase(g) => RoomsPhase(g)'
    BY <1>3, <1>5, <1>6, <2>1, <2>2 DEF RoomsPhase, d, e
  <2>5. ConnPhase(g) => ConnPhase(g)'
    BY <1>3, <1>5, <1>6, <2>1, <2>2 DEF ConnPhase, d, e
  <2>6. GonePhase(g) => GonePhase(g)'
    BY <1>3, <1>5, <1>6, <2>1, <2>2, <2>3 DEF GonePhase, d, e
  <2>7. RoomsInv(c)'
    BY <1>4, <2>1, <2>2, <2>4, KeyTable, RoomsMoved, Zenon DEF d, e, Ops
  <2>8. ConnInv(c)'
    BY <1>4, <2>1, <2>2, <2>5, KeyTable, ConnMoved, Zenon DEF d, e, Ops
  <2>9. GoneInv(c)'
    BY <1>4, <2>1, <2>2, <2>6, GoneMoved, Zenon DEF d, e
  <2> QED
    BY <2>7, <2>8, <2>9
<1> QED
  BY <1>10, <1>11, Zenon DEF AttrCommand

\* An unregistration that raced with nothing is in step with all the keys.
LEMMA UnracedPhases ==
  ASSUME RsInv, NEW c \in RsClient, Unraced(c), NEW g \in Working(c), doing[g].op = "unregister"
  PROVE  RoomsPhase(g) /\ ConnPhase(g) /\ GonePhase(g)
<1>1. /\ RoomsInv(c) /\ ConnInv(c) /\ GoneInv(c)
      /\ <<c, "rooms">> \notin raced /\ <<c, "conn">> \notin raced
  BY KeyTable, Zenon DEF RsInv, Unraced
<1>2. g \in Busy(c, "rooms") /\ g \in Busy(c, "conn")
  BY KeyTable, Zenon DEF Busy
<1> QED
  BY <1>1, <1>2, Zenon DEF RoomsInv, ConnInv, GoneInv, Unraced

\* A command on the rooms keeps the invariant if it keeps it for the call that sent it.
LEMMA RoomStep ==
  ASSUME RsInv, RsType', NEW g \in RsCall, NEW c, Moves(g, c), doing[g].op \in Ops, "rooms" \in Keys[doing[g].op],
         UNCHANGED <<connHash, hasTTL, connSet, attrHash, expiredConn>>,
         \A b \in RsClient \ {c} : /\ Members(b)' = Members(b) /\ roomsOf'[b] = roomsOf[b]
                                   /\ b \in gone' <=> b \in gone,
         RoomsPhase(g) => IF doing'[g] = RsIdle THEN Members(c)' = roomsOf'[c] ELSE RoomsPhase(g)',
         c \in gone' /\ c \notin gone => /\ doing'[g] = RsIdle /\ doing[g].op = "unregister" /\ Unraced(c)
                                         /\ NothingOf(c)',
         doing[g].op = "unregister" =>
           /\ ConnPhase(g) => IF doing'[g] = RsIdle THEN ConnAgrees(c)' ELSE ConnPhase(g)'
           /\ GonePhase(g) /\ doing'[g] # RsIdle => GonePhase(g)'
  PROVE  RsInv'
<1>1. Spares(c)
  BY Zenon DEF Spares
<1>2. RoomsInv(c)'
  BY RoomsMoved, Zenon
<1>3. GoneInv(c)'
  BY GoneMoved, Zenon
<1>4. ConnInv(c)'
  <2>1. CASE doing[g].op = "unregister"
    <3>1. "conn" \in Keys[doing[g].op]
      BY <2>1, KeyTable, Zenon
    <3> QED
      BY <2>1, <3>1, ConnMoved, Zenon
  <2>2. CASE doing[g].op # "unregister"
    <3>1. "conn" \notin Keys[doing[g].op]
      BY <2>2, KeyTable, Zenon
    <3> QED
      BY <3>1, ConnSpared, Zenon
  <2> QED
    BY <2>1, <2>2, Zenon
<1> QED
  BY <1>1, <1>2, <1>3, <1>4, MoveKeeps, Zenon

\* A command on the rooms.
LEMMA RoomCommandInv == ASSUME RsInv, NEW g \in RsCall, NEW c \in RsClient, RoomCommand(g, c) PROVE RsInv'
<1> DEFINE d == doing[g]
           e == doing'[g]
<1>1. RsType
  BY DEF RsInv
<1>2. PICK name : Sends(g, name, c)
  BY Zenon DEF RoomCommand
<1>3. /\ d \in Operation /\ d # RsIdle /\ d.client = c /\ d.op \in Ops /\ d.rooms \in SUBSET RsRoom
  BY <1>1, <1>2, SentAt, Zenon DEF Operation
<1>4. ASSUME NEW rs \in SUBSET RsRoom, Advance(g, rs)
      PROVE  /\ Moves(g, c)
             /\ d.at = Len(Commands[d.op]) => e = RsIdle
             /\ d.at # Len(Commands[d.op]) =>
                  e # RsIdle /\ e.op = d.op /\ e.client = c /\ e.rooms = rs /\ e.at = d.at + 1
             /\ \A b \in RsClient \ {c} : b \in gone' <=> b \in gone
             /\ gone' \subseteq RsClient
             /\ c \in gone' => \/ c \in gone
                               \/ d.op = "unregister" /\ d.at = Len(Commands[d.op]) /\ Unraced(c)
  BY <1>1, <1>3, <1>4, AdvanceMoves DEF Moves, Unraced
<1>5. UNCHANGED <<connHash, hasTTL, connSet, attrHash, expiredConn>>
  BY Zenon DEF RoomCommand
<1>6. ASSUME Moves(g, c), roomSet' \in [RsRoom -> SUBSET RsClient], roomsOf' \in [RsClient -> SUBSET RsRoom],
             gone' \subseteq RsClient
      PROVE  RsType'
  BY <1>1, <1>5, <1>6, Zenon DEF RsType, Moves
<1>7. roomSet \in [RsRoom -> SUBSET RsClient] /\ roomsOf \in [RsClient -> SUBSET RsRoom] /\ gone \subseteq RsClient
  BY <1>1, Zenon DEF RsType
<1>8. roomSet' = roomSet => \A b \in RsClient : Members(b)' = Members(b)
  BY Zenon DEF Members
<1> HIDE DEF d, e
<1>9. CASE Sends(g, "SADD room", c)
  <2>1. d.op = "join" /\ d.at = 1 /\ Len(Commands[d.op]) = 2
    BY <1>1, <1>9, SentBy, Zenon DEF d
  <2>2. /\ roomSet' = [r \in RsRoom |-> IF r \in d.rooms THEN roomSet[r] \cup {c} ELSE roomSet[r]]
        /\ Advance(g, d.rooms) /\ roomsOf' = roomsOf
    BY <1>9, Zenon DEF RoomCommand, Sends, d
  <2>3. /\ Moves(g, c) /\ e # RsIdle /\ e.op = "join" /\ e.client = c /\ e.rooms = d.rooms /\ e.at = 2
        /\ gone' \subseteq RsClient /\ \A b \in RsClient \ {c} : b \in gone' <=> b \in gone
    BY <1>3, <1>4, <2>1, <2>2
  <2>4. c \in gone' => c \in gone
    BY <1>3, <1>4, <2>1, <2>2, Zenon
  <2>5. /\ roomSet' \in [RsRoom -> SUBSET RsClient] /\ Members(c)' = Members(c) \cup d.rooms
        /\ \A b \in RsClient \ {c} : Members(b)' = Members(b)
    BY <1>3, <1>7, <2>2, Zenon DEF Members
  <2>6. RoomsPhase(g) => RoomsPhase(g)'
    BY <1>3, <2>1, <2>2, <2>3, <2>5, Zenon DEF RoomsPhase, d, e
  <2>7. RsType'
    BY <1>6, <1>7, <2>2, <2>3, <2>5, Zenon
  <2> QED
    BY <1>3, <1>5, <2>1, <2>2, <2>3, <2>4, <2>5, <2>6, <2>7, KeyTable, RoomStep, Zenon DEF d, e
<1>10. CASE Sends(g, "SREM room", c)
  <2>1. d.op = "leave" /\ d.at = 1 /\ Len(Commands[d.op]) = 2
    BY <1>1, <1>10, SentBy, Zenon DEF d
  <2>2. /\ roomSet' = [r \in RsRoom |-> IF r \in d.rooms THEN roomSet[r] \ {c} ELSE roomSet[r]]
        /\ Advance(g, d.rooms) /\ roomsOf' = roomsOf
    BY <1>10, Zenon DEF RoomCommand, Sends, d
  <2>3. /\ Moves(g, c) /\ e # RsIdle /\ e.op = "leave" /\ e.client = c /\ e.rooms = d.rooms /\ e.at = 2
        /\ gone' \subseteq RsClient /\ \A b \in RsClient \ {c} : b \in gone' <=> b \in gone
    BY <1>3, <1>4, <2>1, <2>2
  <2>4. c \in gone' => c \in gone
    BY <1>3, <1>4, <2>1, <2>2, Zenon
  <2>5. /\ roomSet' \in [RsRoom -> SUBSET RsClient] /\ Members(c)' = Members(c) \ d.rooms
        /\ \A b \in RsClient \ {c} : Members(b)' = Members(b)
    BY <1>3, <1>7, <2>2, Zenon DEF Members
  <2>6. RoomsPhase(g) => RoomsPhase(g)'
    BY <1>3, <2>1, <2>2, <2>3, <2>5, Zenon DEF RoomsPhase, d, e
  <2>7. RsType'
    BY <1>6, <1>7, <2>2, <2>3, <2>5, Zenon
  <2> QED
    BY <1>3, <1>5, <2>1, <2>2, <2>3, <2>4, <2>5, <2>6, <2>7, KeyTable, RoomStep, Zenon DEF d, e
<1>11. CASE Sends(g, "SADD rooms", c)
  <2>1. d.op = "join" /\ d.at = 2 /\ Len(Commands[d.op]) = 2
    BY <1>1, <1>11, SentBy, Zenon DEF d
  <2>2. roomsOf' = [roomsOf EXCEPT ![c] = @ \cup d.rooms] /\ Advance(g, d.rooms) /\ roomSet' = roomSet
    BY <1>11, Zenon DEF RoomCommand, Sends, d
  <2>3. /\ Moves(g, c) /\ e = RsIdle
        /\ gone' \subseteq RsClient /\ \A b \in RsClient \ {c} : b \in gone' <=> b \in gone
    BY <1>3, <1>4, <2>1, <2>2, Zenon
  <2>4. c \in gone' => c \in gone
    BY <1>3, <1>4, <2>1, <2>2, Zenon
  <2>5. /\ roomsOf' \in [RsClient -> SUBSET RsRoom] /\ roomsOf'[c] = roomsOf[c] \cup d.rooms
        /\ \A b \in RsClient \ {c} : roomsOf'[b] = roomsOf[b]
    BY <1>3, <1>7, <2>2, Zenon
  <2>6. RoomsPhase(g) => Members(c)' = roomsOf'[c]
    BY <1>3, <1>8, <2>1, <2>2, <2>5, Zenon DEF RoomsPhase, d
  <2>7. RsType'
    BY <1>6, <1>7, <2>2, <2>3, <2>5, Zenon
  <2> QED
    BY <1>3, <1>5, <1>8, <2>1, <2>2, <2>3, <2>4, <2>5, <2>6, <2>7, KeyTable, RoomStep DEF d, e
<1>12. CASE Sends(g, "SREM rooms", c)
  <2>1. d.op = "leave" /\ d.at = 2 /\ Len(Commands[d.op]) = 2
    BY <1>1, <1>12, SentBy, Zenon DEF d
  <2>2. roomsOf' = [roomsOf EXCEPT ![c] = @ \ d.rooms] /\ Advance(g, d.rooms) /\ roomSet' = roomSet
    BY <1>12, Zenon DEF RoomCommand, Sends, d
  <2>3. /\ Moves(g, c) /\ e = RsIdle
        /\ gone' \subseteq RsClient /\ \A b \in RsClient \ {c} : b \in gone' <=> b \in gone
    BY <1>3, <1>4, <2>1, <2>2, Zenon
  <2>4. c \in gone' => c \in gone
    BY <1>3, <1>4, <2>1, <2>2, Zenon
  <2>5. /\ roomsOf' \in [RsClient -> SUBSET RsRoom] /\ roomsOf'[c] = roomsOf[c] \ d.rooms
        /\ \A b \in RsClient \ {c} : roomsOf'[b] = roomsOf[b]
    BY <1>3, <1>7, <2>2, Zenon
  <2>6. RoomsPhase(g) => Members(c)' = roomsOf'[c]
    BY <1>3, <1>8, <2>1, <2>2, <2>5, Zenon DEF RoomsPhase, d
  <2>7. RsType'
    BY <1>6, <1>7, <2>2, <2>3, <2>5, Zenon
  <2> QED
    BY <1>3, <1>5, <1>8, <2>1, <2>2, <2>3, <2>4, <2>5, <2>6, <2>7, KeyTable, RoomStep DEF d, e
<1>13. CASE Sends(g, "SMEMBERS", c)
  <2>1. d.at = 1 /\ (d.op = "unregister" \/ d.op = "leaveAll")
    BY <1>1, <1>13, SentBy, Zenon DEF d
  <2>2. Len(Commands[d.op]) # 1
    <3>1. Len(Commands[d.op]) = 6 \/ Len(Commands[d.op]) = 3
      BY <1>1, <1>13, SentBy, Zenon DEF d
    <3> QED
      BY <3>1
  <2>3. Advance(g, roomsOf[c]) /\ roomSet' = roomSet /\ roomsOf' = roomsOf
    BY <1>13, Zenon DEF RoomCommand, Sends
  <2>4. /\ Moves(g, c) /\ e # RsIdle /\ e.op = d.op /\ e.client = c /\ e.rooms = roomsOf[c] /\ e.at = 2
        /\ gone' \subseteq RsClient /\ \A b \in RsClient \ {c} : b \in gone' <=> b \in gone
    BY <1>4, <1>7, <2>1, <2>2, <2>3
  <2>5. c \in gone' => c \in gone
    BY <1>4, <1>7, <2>1, <2>2, <2>3, Zenon
  <2>6. RoomsPhase(g) => RoomsPhase(g)'
    BY <1>3, <1>8, <2>1, <2>3, <2>4 DEF RoomsPhase, d, e
  <2>7. d.op = "unregister" => (ConnPhase(g) => ConnPhase(g)') /\ GonePhase(g)'
    BY <1>3, <1>5, <2>1, <2>4 DEF ConnPhase, ConnAgrees, GonePhase, d, e
  <2>8. RsType'
    BY <1>6, <1>7, <2>3, <2>4, Zenon
  <2> QED
    BY <1>3, <1>5, <1>8, <2>1, <2>3, <2>4, <2>5, <2>6, <2>7, <2>8, KeyTable, RoomStep, Zenon DEF d, e
<1>14. CASE Sends(g, "DEL rooms", c)
  <2>1. roomsOf' = [roomsOf EXCEPT ![c] = {}] /\ Advance(g, d.rooms) /\ roomSet' = roomSet
    BY <1>14, Zenon DEF RoomCommand, Sends, d
  <2>2. /\ roomsOf' \in [RsClient -> SUBSET RsRoom] /\ roomsOf'[c] = {}
        /\ \A b \in RsClient \ {c} : roomsOf'[b] = roomsOf[b]
    BY <1>7, <2>1, Zenon
  <2>3. CASE d.op = "unregister"
    <3>1. d.op = "unregister" /\ d.at = 4 /\ Len(Commands[d.op]) = 6
      BY <1>1, <1>14, <2>3, SentBy, Zenon DEF d
    <3>2. /\ Moves(g, c) /\ gone' \subseteq RsClient /\ \A b \in RsClient \ {c} : b \in gone' <=> b \in gone
          /\ e # RsIdle /\ e.op = "unregister" /\ e.client = c /\ e.rooms = d.rooms /\ e.at = 5
      BY <1>3, <1>4, <2>1, <3>1
    <3>3. c \in gone' => c \in gone
      BY <1>3, <1>4, <2>1, <3>1
    <3>4. RoomsPhase(g) => RoomsPhase(g)'
      BY <1>3, <1>8, <2>1, <2>2, <3>1, <3>2 DEF RoomsPhase, d, e
    <3>5. (ConnPhase(g) => ConnPhase(g)') /\ (GonePhase(g) => GonePhase(g)')
      BY <1>3, <1>5, <3>1, <3>2 DEF ConnPhase, GonePhase, d, e
    <3>6. RsType'
      BY <1>6, <1>7, <2>1, <2>2, <3>2, Zenon
    <3> QED
      BY <1>3, <1>5, <1>8, <2>1, <2>2, <3>1, <3>2, <3>3, <3>4, <3>5, <3>6, KeyTable, RoomStep, Zenon DEF d, e
  <2>4. CASE d.op = "leaveAll"
    <3>1. d.op = "leaveAll" /\ d.at = 3 /\ Len(Commands[d.op]) = 3
      BY <1>1, <1>14, <2>4, SentBy, Zenon DEF d
    <3>2. /\ Moves(g, c) /\ gone' \subseteq RsClient /\ \A b \in RsClient \ {c} : b \in gone' <=> b \in gone
          /\ e = RsIdle
      BY <1>3, <1>4, <2>1, <3>1, Zenon
    <3>3. c \in gone' => c \in gone
      BY <1>3, <1>4, <2>1, <3>1, Zenon
    <3>4. RoomsPhase(g) => Members(c)' = roomsOf'[c]
      BY <1>3, <1>8, <2>1, <2>2, <3>1 DEF RoomsPhase, d
    <3>5. RsType'
      BY <1>6, <1>7, <2>1, <2>2, <3>2, Zenon
    <3>6. "rooms" \in Keys[d.op] /\ d.op # "unregister"
      BY <1>3, <3>1, KeyTable
    <3>7. \A b \in RsClient \ {c} : Members(b)' = Members(b) /\ roomsOf'[b] = roomsOf[b]
      BY <1>8, <2>1, <2>2, Zenon
    <3> QED
      BY <1>3, <1>5, <3>2, <3>3, <3>4, <3>5, <3>6, <3>7, RoomStep, Zenon DEF d, e
  <2>5. d.op = "unregister" \/ d.op = "leaveAll"
    BY <1>1, <1>14, SentBy, Zenon DEF d
  <2> QED
    BY <2>3, <2>4, <2>5, Zenon
<1>15. CASE Sends(g, "SREM each", c) /\ d.rooms = {}
  <2>1. Advance(g, d.rooms) /\ roomSet' = roomSet /\ roomsOf' = roomsOf /\ d.rooms = {}
    BY <1>15, Zenon DEF RoomCommand, Sends, d
  <2>2. CASE d.op = "unregister"
    <3>1. d.op = "unregister" /\ d.at = 6 /\ Len(Commands[d.op]) = 6
      BY <1>1, <1>15, <2>2, SentBy, Zenon DEF d
    <3>2. /\ Moves(g, c) /\ gone' \subseteq RsClient /\ \A b \in RsClient \ {c} : b \in gone' <=> b \in gone
          /\ e = RsIdle
          /\ c \in gone' /\ c \notin gone => Unraced(c)
      BY <1>3, <1>4, <2>1, <3>1, Zenon
    <3>3. RoomsPhase(g) => Members(c)' = {} /\ roomsOf'[c] = {}
      <4>1. d.at > 1 /\ d.at > 4
        BY <3>1
      <4>2. RoomsPhase(g) => Members(c) = d.rooms /\ roomsOf[c] = {}
        BY <1>3, <3>1, <4>1, Zenon DEF RoomsPhase, d
      <4>3. Members(c)' = Members(c)
        BY <1>8, <2>1, Zenon
      <4> QED
        BY <2>1, <4>2, <4>3, Zenon
    <3>4. ConnPhase(g) => ConnAgrees(c)' /\ c \notin hasTTL' /\ c \notin connSet'
      BY <1>3, <1>5, <3>1 DEF ConnPhase, ConnAgrees, Fields, d
    <3>5. GonePhase(g) => connHash'[c] = {} /\ c \notin attrHash'
      BY <1>3, <1>5, <3>1 DEF GonePhase, d
    <3>6. Unraced(c) => NothingOf(c)'
      <4>1. g \in Working(c)
        BY <1>3, Zenon DEF Working, d
      <4>2. Unraced(c) => RoomsPhase(g) /\ ConnPhase(g) /\ GonePhase(g)
        BY <2>2, <4>1, UnracedPhases, Zenon DEF d
      <4> QED
        BY <3>3, <3>4, <3>5, <4>2, Zenon DEF NothingOf
    <3>7. RsType'
      BY <1>6, <1>7, <2>1, <3>2, Zenon
    <3>8. "rooms" \in Keys[d.op]
      BY <1>3, <3>1, KeyTable, Zenon
    <3>9. RoomsPhase(g) => Members(c)' = roomsOf'[c]
      BY <3>3, Zenon
    <3>10. ConnPhase(g) => ConnAgrees(c)'
      BY <3>4, Zenon
    <3>11. \A b \in RsClient \ {c} : Members(b)' = Members(b) /\ roomsOf'[b] = roomsOf[b]
      BY <1>8, <2>1, Zenon
    <3> QED
      BY <1>3, <1>5, <2>2, <3>2, <3>6, <3>7, <3>8, <3>9, <3>10, <3>11, RoomStep, Zenon DEF d, e
  <2>3. CASE d.op = "leaveAll"
    <3>1. d.op = "leaveAll" /\ d.at = 2 /\ Len(Commands[d.op]) = 3
      BY <1>1, <1>15, <2>3, SentBy, Zenon DEF d
    <3>2. /\ Moves(g, c) /\ gone' \subseteq RsClient /\ \A b \in RsClient \ {c} : b \in gone' <=> b \in gone
          /\ e # RsIdle /\ e.op = "leaveAll" /\ e.client = c /\ e.rooms = {} /\ e.at = 3
      BY <1>3, <1>4, <2>1, <3>1
    <3>3. c \in gone' => c \in gone
      BY <1>3, <1>4, <2>1, <3>1, Zenon
    <3>4. RoomsPhase(g) => RoomsPhase(g)'
      BY <1>3, <1>8, <2>1, <3>1, <3>2 DEF RoomsPhase, d, e
    <3>5. RsType'
      BY <1>6, <1>7, <2>1, <3>2, Zenon
    <3> QED
      BY <1>3, <1>5, <1>8, <2>1, <3>1, <3>2, <3>3, <3>4, <3>5, KeyTable, RoomStep, Zenon DEF d, e
  <2>4. d.op = "unregister" \/ d.op = "leaveAll"
    BY <1>1, <1>15, SentBy, Zenon DEF d
  <2> QED
    BY <2>2, <2>3, <2>4
<1>16. CASE /\ Sends(g, "SREM each", c)
            /\ \E r \in d.rooms :
                 /\ roomSet' = [q \in RsRoom |-> IF q \in {r} THEN roomSet[q] \ {c} ELSE roomSet[q]]
                 /\ doing' = [doing EXCEPT ![g].rooms = @ \ {r}]
            /\ UNCHANGED <<roomsOf, gone, raced>>
  <2>1. PICK r \in d.rooms : /\ roomSet' = [q \in RsRoom |-> IF q \in {r} THEN roomSet[q] \ {c} ELSE roomSet[q]]
                             /\ doing' = [doing EXCEPT ![g].rooms = @ \ {r}]
    BY <1>16, Zenon
  <2>2. roomsOf' = roomsOf /\ gone' = gone /\ raced' = raced
    BY <1>16, Zenon
  <2>3. /\ roomSet' \in [RsRoom -> SUBSET RsClient] /\ Members(c)' = Members(c) \ {r}
        /\ \A b \in RsClient \ {c} : Members(b)' = Members(b)
    BY <1>3, <1>7, <2>1, Zenon DEF Members
  <2>4. /\ e \in Operation /\ e.op = d.op /\ e.client = c /\ e.rooms = d.rooms \ {r} /\ e.at = d.at
        /\ \A f \in RsCall \ {g} : doing'[f] = doing[f]
        /\ doing' \in [RsCall -> Operation \cup {RsIdle}]
    <3>1. e = [d EXCEPT !.rooms = d.rooms \ {r}]
      BY <1>1, <2>1, Zenon DEF RsType, d, e
    <3>2. e \in Operation /\ e.op = d.op /\ e.client = c /\ e.rooms = d.rooms \ {r} /\ e.at = d.at
      BY <1>3, <3>1, Zenon DEF Operation
    <3> QED
      BY <1>1, <2>1, <3>2, Zenon DEF RsType, e
  <2>5. e # RsIdle
    BY <2>4, RsAssumption, Zenon
  <2>6. Moves(g, c)
    <3>1. d.at \in 1 .. Len(Commands[d.op])
      BY <1>1, <1>3, Zenon DEF RsType, d
    <3> QED
      BY <1>3, <2>2, <2>4, <2>5, <3>1, Zenon DEF Moves, d, e
  <2>7. RsType'
    BY <1>6, <1>7, <2>2, <2>3, <2>6, Zenon
  <2>8. CASE d.op = "unregister"
    <3>1. d.op = "unregister" /\ d.at = 6
      BY <1>1, <1>16, <2>8, SentBy, Zenon DEF d
    <3>2. RoomsPhase(g) => RoomsPhase(g)'
      <4>1. RoomsPhase(g) => Members(c) = d.rooms /\ roomsOf[c] = {}
        BY <1>3, <3>1 DEF RoomsPhase, d
      <4>2. Members(c) = d.rooms /\ roomsOf[c] = {} => Members(c)' = e.rooms /\ roomsOf'[c] = {}
        BY <2>2, <2>3, <2>4, Zenon
      <4>3. e.op = "unregister" /\ e.at = 6
        BY <2>4, <3>1, Zenon
      <4>4. Members(c)' = e.rooms /\ roomsOf'[c] = {} => RoomsPhase(g)'
        BY <2>4, <4>3 DEF RoomsPhase, e
      <4> QED
        BY <4>1, <4>2, <4>4, Zenon
    <3>3. (ConnPhase(g) => ConnPhase(g)') /\ (GonePhase(g) => GonePhase(g)')
      BY <1>3, <1>5, <2>4, <3>1, Zenon DEF ConnPhase, GonePhase, ConnAgrees, d, e
    <3>4. "rooms" \in Keys[d.op]
      BY <1>3, <3>1, KeyTable, Zenon
    <3>5. roomsOf' = roomsOf /\ \A b \in RsClient \ {c} : b \in gone' <=> b \in gone
      BY <2>2, Zenon
    <3> QED
      BY <1>3, <1>5, <2>2, <2>3, <2>5, <2>6, <2>7, <3>2, <3>3, <3>4, <3>5, RoomStep, Zenon DEF d, e
  <2>9. CASE d.op = "leaveAll"
    <3>1. d.op = "leaveAll" /\ d.at = 2
      BY <1>1, <1>16, <2>9, SentBy, Zenon DEF d
    <3>2. RoomsPhase(g) => RoomsPhase(g)'
      BY <1>3, <2>2, <2>3, <2>4, <3>1, Zenon DEF RoomsPhase, d, e
    <3> QED
      BY <1>3, <1>5, <2>2, <2>3, <2>5, <2>6, <2>7, <3>1, <3>2, KeyTable, RoomStep DEF d, e
  <2>10. d.op = "unregister" \/ d.op = "leaveAll"
    BY <1>1, <1>16, SentBy, Zenon DEF d
  <2> QED
    BY <2>8, <2>9, <2>10, Zenon
<1> QED
  BY <1>9, <1>10, <1>11, <1>12, <1>13, <1>14, <1>15, <1>16, Zenon DEF RoomCommand, d

\* A call of the store begins.
LEMMA StoreCallInv ==
  ASSUME RsInv, NEW g \in RsCall, NEW c \in RsClient, NEW op \in DOMAIN Commands, NEW rs \in SUBSET RsRoom,
         StoreCall(g, c, op, rs)
  PROVE  RsInv'
<1> DEFINE n == [op |-> op, client |-> c, rooms |-> rs, at |-> 1]
<1>1. RsType /\ op \in Ops /\ doing[g] = RsIdle
  BY CommandTable, Zenon DEF RsInv, StoreCall
<1>2. n \in Operation /\ n # RsIdle /\ n.op = op /\ n.client = c /\ n.at = 1
  BY RsAssumption DEF Operation
<1>3. doing' = [doing EXCEPT ![g] = n] /\ gone' = gone \ {c}
  BY Zenon DEF StoreCall
<1>4. UNCHANGED <<connHash, hasTTL, connSet, attrHash, roomSet, roomsOf, expiredConn>>
  BY Zenon DEF StoreCall, redisVars
<1> HIDE DEF n
<1>5. /\ doing' \in [RsCall -> Operation \cup {RsIdle}] /\ doing'[g] = n
      /\ \A f \in RsCall \ {g} : doing'[f] = doing[f]
  BY <1>1, <1>2, <1>3, Zenon DEF RsType
<1>6. 1 \in 1 .. Len(Commands[op])
  <2>1. /\ Len(RegisterCmds) = 3 /\ Len(UnregisterCmds) = 6 /\ Len(TouchCmds) = 1
        /\ Len(SetAttrCmds) = 1 /\ Len(DeleteAttrCmds) = 1 /\ Len(JoinCmds) = 2
        /\ Len(LeaveCmds) = 2 /\ Len(LeaveAllCmds) = 3
    BY Zenon DEF RegisterCmds, UnregisterCmds, TouchCmds, SetAttrCmds, DeleteAttrCmds, JoinCmds, LeaveCmds,
           LeaveAllCmds
  <2>2. \/ Len(Commands[op]) = 1 \/ Len(Commands[op]) = 2
        \/ Len(Commands[op]) = 3 \/ Len(Commands[op]) = 6
    BY <1>1, <2>1, CommandTable, Zenon DEF Ops
  <2>3. 1 \in 1 .. 1 /\ 1 \in 1 .. 2 /\ 1 \in 1 .. 3 /\ 1 \in 1 .. 6
    OBVIOUS
  <2> QED
    BY <2>2, <2>3, Zenon
<1>7. RsType'
  BY <1>1, <1>2, <1>3, <1>4, <1>5, <1>6, Zenon DEF RsType
<1>8. /\ \A b \in RsClient \ {c} : Working(b)' = Working(b)
      /\ Working(c)' = Working(c) \cup {g} /\ \A b \in RsClient : g \notin Working(b)
  BY <1>1, <1>2, <1>5 DEF Working
<1>9. /\ \A b \in RsClient \ {c} : \A k : Busy(b, k)' = Busy(b, k)
      /\ \A k : k \in Keys[op] => Busy(c, k)' = Busy(c, k) \cup {g}
      /\ \A k : k \notin Keys[op] => Busy(c, k)' = Busy(c, k)
      /\ \A b \in RsClient : \A k : \A f \in Busy(b, k) : f \in Working(b) /\ f # g
  <2>1. \A b \in RsClient : \A f \in Working(b) : f \in RsCall /\ f # g /\ doing'[f] = doing[f]
    BY <1>5, <1>8, Zenon DEF Working
  <2> QED
    BY <1>2, <1>5, <1>8, <2>1 DEF Busy
<1>10. /\ \A b \in RsClient \ {c} : \A k : <<b, k>> \in raced => <<b, k>> \in raced'
       /\ \A k : k \notin Keys[op] /\ <<c, k>> \in raced => <<c, k>> \in raced'
       /\ <<c, "rooms">> \in raced => <<c, "rooms">> \in raced'
       /\ \A k \in Keys[op] : Busy(c, k) # {} => <<c, k>> \in raced'
  <2>1. raced' = (raced \ {<<c, k>> : k \in Keys[op] \ {"rooms"}})
                   \cup {<<c, k>> : k \in Keys[op] \cap UNION {Keys[doing[f].op] : f \in Working(c)}}
    BY Zenon DEF StoreCall
  <2>2. \A k \in Keys[op] : Busy(c, k) # {} => k \in Keys[op] \cap UNION {Keys[doing[f].op] : f \in Working(c)}
    BY Zenon DEF Busy
  <2> QED
    BY <2>1, <2>2, Zenon
<1>11. \A b \in RsClient : \A f \in Working(b) : f # g /\ f \in RsCall /\ doing'[f] = doing[f] /\ doing[f].client = b
  BY <1>5, <1>8, Zenon DEF Working
<1>12. ASSUME NEW b \in RsClient PROVE Alone(b)'
  <2> SUFFICES ASSUME NEW k \in Keys["unregister"], <<b, k>> \notin raced'
               PROVE  \A h, f \in Busy(b, k)' : h = f
    BY Zenon DEF Alone
  <2>1. CASE b = c /\ k \in Keys[op]
    BY <1>9, <1>10, <2>1, Zenon
  <2>2. CASE ~(b = c /\ k \in Keys[op])
    <3>1. Busy(b, k)' = Busy(b, k) /\ <<b, k>> \notin raced
      BY <1>9, <1>10, <2>2
    <3>2. Alone(b)
      BY Zenon DEF RsInv
    <3> QED
      BY <3>1, <3>2, Zenon DEF Alone
  <2> QED
    BY <2>1, <2>2, Zenon
<1>13. ASSUME NEW b \in RsClient PROVE RoomsInv(b)'
  <2>1. \A f \in Busy(b, "rooms") : RoomsPhase(f)' <=> RoomsPhase(f)
    <3> SUFFICES ASSUME NEW f \in Busy(b, "rooms") PROVE RoomsPhase(f)' <=> RoomsPhase(f)
      BY Zenon
    <3>1. doing[f].client = b /\ doing'[f] = doing[f]
      BY <1>9, <1>11, Zenon
    <3>2. roomsOf' = roomsOf /\ Members(b)' = Members(b)
      BY <1>4, Zenon DEF Members
    <3> QED
      BY <3>1, <3>2, Zenon DEF RoomsPhase
  <2>2. Members(c)' = roomsOf'[c] => RoomsPhase(g)'
    BY <1>2, <1>5 DEF RoomsPhase
  <2>3. Members(b)' = Members(b) /\ roomsOf' = roomsOf
    BY <1>4, Zenon DEF Members
  <2>4. RoomsInv(b)
    BY Zenon DEF RsInv
  <2>5. CASE b = c /\ "rooms" \in Keys[op]
    BY <1>9, <1>10, <2>2, <2>3, <2>4, <2>5, Zenon DEF RoomsInv
  <2>6. CASE ~(b = c /\ "rooms" \in Keys[op])
    <3>1. Busy(b, "rooms")' = Busy(b, "rooms")
      BY <1>9, <2>6, Zenon
    <3> QED
      BY <1>10, <2>1, <2>3, <2>4, <3>1, Zenon DEF RoomsInv
  <2> QED
    BY <2>5, <2>6, Zenon
<1>14. ASSUME NEW b \in RsClient PROVE ConnInv(b)'
  <2>1. ConnAgrees(b)' <=> ConnAgrees(b)
    BY <1>4, Zenon DEF ConnAgrees
  <2>2. \A f \in Busy(b, "conn") : ConnPhase(f)' <=> ConnPhase(f)
    BY <1>4, <1>9, <1>11 DEF ConnPhase, ConnAgrees
  <2>3. ConnPhase(g)'
    BY <1>2, <1>5 DEF ConnPhase
  <2>4. ConnInv(b)
    BY Zenon DEF RsInv
  <2>5. CASE b = c /\ "conn" \in Keys[op]
    BY <1>9, <1>10, <2>1, <2>3, <2>4, <2>5, Zenon DEF ConnInv
  <2>6. CASE ~(b = c /\ "conn" \in Keys[op])
    <3>1. Busy(b, "conn")' = Busy(b, "conn") /\ (<<b, "conn">> \in raced => <<b, "conn">> \in raced')
      BY <1>9, <1>10, <2>6
    <3> QED
      BY <2>1, <2>2, <2>4, <3>1, Zenon DEF ConnInv
  <2> QED
    BY <2>5, <2>6, Zenon
<1>15. ASSUME NEW b \in RsClient PROVE GoneInv(b)'
  <2>1. NothingOf(b)' <=> NothingOf(b)
    BY <1>4, Zenon DEF NothingOf, Members
  <2>2. \A f \in Working(b) : GonePhase(f)' <=> GonePhase(f)
    BY <1>4, <1>11, Zenon DEF GonePhase
  <2>3. GonePhase(g)'
    BY <1>2, <1>5 DEF GonePhase
  <2>4. GoneInv(b)
    BY Zenon DEF RsInv
  <2>5. b \in gone' => b \in gone /\ b # c
    BY <1>3, Zenon
  <2>6. b \in gone' => Working(b)' = {} /\ NothingOf(b)'
    BY <1>8, <2>1, <2>4, <2>5, Zenon DEF GoneInv
  <2>7. ASSUME NEW f \in Working(b)', doing'[f].op = "unregister", \A k \in Keys["unregister"] : <<b, k>> \notin raced'
        PROVE  GonePhase(f)'
    <3>1. f = g \/ f \in Working(b)
      BY <1>8, Zenon
    <3>2. CASE f \in Working(b) /\ b # c
      BY <1>10, <1>11, <2>2, <2>4, <2>7, <3>2, Zenon DEF GoneInv
    <3>3. f \in Working(c) => b # c
      <4> SUFFICES ASSUME f \in Working(c), b = c PROVE FALSE
        BY Zenon
      <4>1. Keys[op] # {} /\ Keys[op] \subseteq Keys["unregister"]
        BY <1>1, KeyTable, Zenon DEF Ops
      <4>2. doing[f].op = "unregister"
        BY <1>11, <2>7, Zenon
      <4>3. \A k \in Keys[op] : f \in Busy(c, k)
        BY <4>1, <4>2, Zenon DEF Busy
      <4> QED
        BY <1>10, <2>7, <4>1, <4>3, Zenon
    <3> QED
      BY <2>3, <3>1, <3>2, <3>3, Zenon
  <2> QED
    BY <2>6, <2>7, Zenon DEF GoneInv
<1> QED
  BY <1>7, <1>12, <1>13, <1>14, <1>15, Zenon DEF RsInv

\* A call fails half way.
LEMMA StoreCallFailsInv == ASSUME RsInv, NEW g \in RsCall, StoreCallFails(g) PROVE RsInv'
<1> DEFINE c == doing[g].client
           op == doing[g].op
<1>1. RsType /\ doing[g] # RsIdle /\ doing[g] \in Operation
  BY Zenon DEF RsInv, RsType, StoreCallFails
<1>2. c \in RsClient /\ op \in Ops
  BY <1>1, CommandTable, Zenon DEF Operation
<1>3. /\ doing' = [doing EXCEPT ![g] = RsIdle] /\ raced' = raced \cup ({c} \X Keys[op])
      /\ UNCHANGED <<connHash, hasTTL, connSet, attrHash, roomSet, roomsOf, expiredConn, gone>>
  BY Zenon DEF StoreCallFails, redisVars
<1>4. /\ doing' \in [RsCall -> Operation \cup {RsIdle}] /\ doing'[g] = RsIdle
      /\ \A f \in RsCall \ {g} : doing'[f] = doing[f]
  BY <1>1, <1>3, Zenon DEF RsType
<1>5. RsType'
  BY <1>1, <1>3, <1>4, Zenon DEF RsType
<1> HIDE DEF c, op
<1>6. /\ \A b \in RsClient : Working(b)' = Working(b) \ {g}
      /\ g \in Working(c) /\ \A b \in RsClient \ {c} : g \notin Working(b)
  BY <1>1, <1>4 DEF Working, c
<1>7. \A b \in RsClient : \A f \in Working(b) : f \in RsCall /\ doing[f].client = b /\ (f # g => doing'[f] = doing[f])
  BY <1>4, Zenon DEF Working
<1>8. /\ \A b \in RsClient : \A k : Busy(b, k)' = Busy(b, k) \ {g}
      /\ \A b \in RsClient : \A k : \A f \in Busy(b, k) : f \in Working(b)
  BY <1>6, <1>7, Zenon DEF Busy
<1>9. /\ raced \subseteq raced' /\ \A k \in Keys[op] : <<c, k>> \in raced'
  BY <1>3, Zenon
<1>10. ASSUME NEW b \in RsClient, NEW k, <<b, k>> \notin raced' PROVE Busy(b, k)' = Busy(b, k) /\ g \notin Busy(b, k)
  <2>1. g \notin Busy(b, k)
    BY <1>6, <1>8, <1>9, <1>10, Zenon DEF Busy, op
  <2> QED
    BY <1>8, <2>1, Zenon
<1>11. ASSUME NEW b \in RsClient PROVE Alone(b)'
  BY <1>8, <1>9 DEF Alone, RsInv
<1>12. ASSUME NEW b \in RsClient PROVE RoomsInv(b)'
  <2>1. \A f \in Busy(b, "rooms") \ {g} : RoomsPhase(f)' <=> RoomsPhase(f)
    BY <1>3, <1>7, <1>8 DEF RoomsPhase, Members
  <2>2. Members(b)' = Members(b) /\ roomsOf' = roomsOf
    BY <1>3, Zenon DEF Members
  <2> QED
    BY <1>9, <1>10, <2>1, <2>2, Zenon DEF RoomsInv, RsInv
<1>13. ASSUME NEW b \in RsClient PROVE ConnInv(b)'
  <2>1. ConnAgrees(b)' <=> ConnAgrees(b)
    BY <1>3, Zenon DEF ConnAgrees
  <2>2. \A f \in Busy(b, "conn") \ {g} : ConnPhase(f)' <=> ConnPhase(f)
    BY <1>3, <1>7, <1>8 DEF ConnPhase, ConnAgrees
  <2> QED
    BY <1>9, <1>10, <2>1, <2>2, Zenon DEF ConnInv, RsInv
<1>14. ASSUME NEW b \in RsClient PROVE GoneInv(b)'
  <2>1. NothingOf(b)' <=> NothingOf(b)
    BY <1>3, Zenon DEF NothingOf, Members
  <2>2. \A f \in Working(b) \ {g} : GonePhase(f)' <=> GonePhase(f)
    BY <1>3, <1>7 DEF GonePhase
  <2>3. GoneInv(b) /\ gone' = gone
    BY <1>3, Zenon DEF RsInv
  <2>4. b \in gone' => Working(b)' = {} /\ NothingOf(b)'
    BY <1>6, <2>1, <2>3, Zenon DEF GoneInv
  <2>5. ASSUME NEW f \in Working(b)', doing'[f].op = "unregister", \A k \in Keys["unregister"] : <<b, k>> \notin raced'
        PROVE  GonePhase(f)'
    <3>1. f \in Working(b) /\ f # g
      BY <1>6, Zenon
    <3> QED
      BY <1>7, <1>9, <2>2, <2>3, <2>5, <3>1, Zenon DEF GoneInv
  <2> QED
    BY <2>4, <2>5, Zenon DEF GoneInv
<1> QED
  BY <1>5, <1>11, <1>12, <1>13, <1>14, Zenon DEF RsInv

\* The hash of a connection expires.
LEMMA HashExpiresInv == ASSUME RsInv, NEW c \in RsClient, HashExpires(c) PROVE RsInv'
<1>1. /\ c \in hasTTL /\ connHash' = [connHash EXCEPT ![c] = {}] /\ hasTTL' = hasTTL \ {c}
      /\ expiredConn' = expiredConn \cup {c}
      /\ UNCHANGED <<connSet, attrHash, roomSet, roomsOf, doing, raced, gone>> /\ RsType
  BY Zenon DEF HashExpires, RsInv
<1>2. /\ connHash'[c] = {} /\ \A b \in RsClient \ {c} : connHash'[b] = connHash[b]
      /\ RsType'
  BY <1>1, Zenon DEF RsType
<1>3. /\ \A b : Working(b)' = Working(b)
      /\ \A b \in RsClient : \A k : Busy(b, k)' = Busy(b, k)
      /\ \A b \in RsClient : Members(b)' = Members(b)
      /\ \A b \in RsClient : \A k : \A f \in Busy(b, k) : f \in Working(b)
      /\ \A b \in RsClient : \A f \in Working(b) : doing[f].client = b
  BY <1>1, Zenon DEF Working, Busy, Members
<1>4. ASSUME NEW b \in RsClient PROVE Alone(b)'
  BY <1>1, <1>3 DEF RsInv, Alone
<1>5. ASSUME NEW b \in RsClient PROVE RoomsInv(b)'
  <2>1. \A f \in Busy(b, "rooms") : RoomsPhase(f)' <=> RoomsPhase(f)
    <3> SUFFICES ASSUME NEW f \in Busy(b, "rooms") PROVE RoomsPhase(f)' <=> RoomsPhase(f)
      BY Zenon
    <3>1. doing[f].client = b /\ doing' = doing /\ roomsOf' = roomsOf /\ Members(b)' = Members(b)
      BY <1>1, <1>3, Zenon
    <3> QED
      BY <3>1, Zenon DEF RoomsPhase
  <2> QED
    BY <1>1, <1>3, <2>1 DEF RsInv, RoomsInv
<1>6. ASSUME NEW b \in RsClient PROVE ConnInv(b)'
  <2>1. ConnAgrees(b) => ConnAgrees(b)'
    BY <1>1, <1>2, Zenon DEF ConnAgrees
  <2>2. \A f \in Busy(b, "conn") : ConnPhase(f) => ConnPhase(f)'
    <3> SUFFICES ASSUME NEW f \in Busy(b, "conn"), ConnPhase(f) PROVE ConnPhase(f)'
      BY Zenon
    <3>1. doing[f].client = b /\ doing' = doing
      BY <1>1, <1>3, Zenon
    <3>2. CASE b = c
      BY <1>1, <1>2, <3>1, <3>2, Zenon DEF ConnPhase, ConnAgrees
    <3>3. CASE b # c
      BY <1>1, <1>2, <3>1, <3>3, Zenon DEF ConnPhase, ConnAgrees
    <3> QED
      BY <3>2, <3>3, Zenon
  <2> QED
    BY <1>1, <1>3, <2>1, <2>2 DEF RsInv, ConnInv
<1>7. ASSUME NEW b \in RsClient PROVE GoneInv(b)'
  <2>1. NothingOf(b) => NothingOf(b)'
    BY <1>1, <1>2, <1>3, Zenon DEF NothingOf
  <2>2. \A f \in Working(b) : GonePhase(f) => GonePhase(f)'
    BY <1>1, <1>2, <1>3 DEF GonePhase
  <2> QED
    BY <1>1, <1>3, <2>1, <2>2, Zenon DEF RsInv, GoneInv
<1> QED
  BY <1>2, <1>4, <1>5, <1>6, <1>7, Zenon DEF RsInv

\* No step leaves the invariant.
LEMMA RsInvNext == RsInv /\ [RSNext]_rsVars => RsInv'
<1> SUFFICES ASSUME RsInv, [RSNext]_rsVars PROVE RsInv'
  BY Zenon
<1>1. CASE UNCHANGED rsVars
  <2>1. /\ UNCHANGED <<connHash, hasTTL, connSet, attrHash, roomSet, roomsOf, doing, raced, expiredConn, gone>>
        /\ RsType' = RsType
    BY <1>1, Zenon DEF rsVars, redisVars, RsType
  <2>2. /\ \A c : Working(c)' = Working(c) /\ Members(c)' = Members(c)
        /\ \A c : ConnAgrees(c)' <=> ConnAgrees(c)
    BY <2>1, Zenon DEF Working, Members, ConnAgrees
  <2>3. \A c, k : Busy(c, k)' = Busy(c, k)
    BY <2>1, <2>2, Zenon DEF Busy
  <2>4. /\ \A c : NothingOf(c)' <=> NothingOf(c)
        /\ \A g : GonePhase(g)' <=> GonePhase(g)
    BY <2>1, <2>2, Zenon DEF NothingOf, GonePhase
  <2>5. \A g : RoomsPhase(g)' <=> RoomsPhase(g)
    BY <2>1, <2>2 DEF RoomsPhase
  <2>6. \A g : ConnPhase(g)' <=> ConnPhase(g)
    BY <2>1, <2>2, Zenon DEF ConnPhase
  <2>7. ASSUME NEW c \in RsClient PROVE Alone(c)' /\ RoomsInv(c)' /\ ConnInv(c)' /\ GoneInv(c)'
    BY <2>1, <2>2, <2>3, <2>4, <2>5, <2>6, Zenon DEF RsInv, Alone, RoomsInv, ConnInv, GoneInv
  <2> QED
    BY <2>1, <2>7, Zenon DEF RsInv
<1>2. ASSUME NEW g \in RsCall, StoreCallFails(g) PROVE RsInv'
  BY <1>2, StoreCallFailsInv, Zenon
<1>3. ASSUME NEW g \in RsCall, NEW c \in RsClient, StoreCalls(g, c) PROVE RsInv'
  <2>1. {} \in SUBSET RsRoom /\ \A r \in RsRoom : {r} \in SUBSET RsRoom
    BY Zenon
  <2>2. "join" \in DOMAIN Commands /\ "leave" \in DOMAIN Commands
    BY CommandTable, Zenon DEF Ops
  <2> QED
    BY <1>3, <2>1, <2>2, StoreCallInv, Zenon DEF StoreCalls
<1>4. ASSUME NEW g \in RsCall, NEW c \in RsClient, RedisExecutes(g, c) PROVE RsInv'
  BY <1>4, ConnCommandInv, AttrCommandInv, RoomCommandInv, Zenon DEF RedisExecutes
<1>5. ASSUME NEW c \in RsClient, HashExpires(c) PROVE RsInv'
  BY <1>5, HashExpiresInv
<1> QED
  BY <1>1, <1>2, <1>3, <1>4, <1>5, Zenon DEF RSNext

LEMMA RsInvAlways == RSSpec => []RsInv
  BY RsInvInit, RsInvNext, PTL DEF RSSpec

\* For any clients, rooms and number of goroutines: between the operations of the Redis
\* store a client is registered, expired or unregistered, and GetConnection, IsConnected
\* and GetAllConnections answer as they should in that state, if nothing overlapped its
\* last registration or unregistration; and the two room indexes agree, if no two calls
\* ever changed the rooms of the client at once and none failed half way.
THEOREM StoreGettersAgree == RSSpec => []GettersAgree
<1>1. RsInv => GettersAgree
  <2> SUFFICES ASSUME RsInv, NEW c \in RsClient, Working(c) = {}
               PROVE  /\ <<c, "rooms">> \notin raced => roomsOf[c] = {r \in RsRoom : c \in roomSet[r]}
                      /\ <<c, "conn">> \notin raced =>
                           \/ /\ RsIsConnected(c) /\ RsGetConnection(c) = Fields
                              /\ c \in RsGetAllConnections
                           \/ /\ c \in expiredConn /\ RsIsConnected(c)
                              /\ RsGetConnection(c) \subseteq {"last_activity"}
                           \/ /\ ~RsIsConnected(c) /\ c \notin RsGetAllConnections \cup hasTTL
                              /\ RsGetConnection(c) \subseteq {"last_activity"}
    BY Zenon DEF GettersAgree, Settled
  <2>1. \A k : Busy(c, k) = {}
    BY Zenon DEF Busy
  <2>2. RoomsInv(c) /\ ConnInv(c)
    BY Zenon DEF RsInv
  <2>3. Fields # {}
    BY Zenon DEF Fields
  <2>4. ConnAgrees(c) => \/ c \in connSet /\ connHash[c] = Fields /\ c \in RsGetAllConnections
                         \/ c \in expiredConn /\ c \in connSet /\ connHash[c] \subseteq {"last_activity"}
                         \/ /\ c \notin connSet /\ c \notin RsGetAllConnections \cup hasTTL
                            /\ connHash[c] \subseteq {"last_activity"}
    BY <2>3, Zenon DEF ConnAgrees, RsGetAllConnections, RsGetConnection
  <2> QED
    BY <2>1, <2>2, <2>4, Zenon DEF RoomsInv, ConnInv, Members, RsIsConnected, RsGetConnection
<1> QED
  BY <1>1, RsInvAlways, PTL

\* For any clients, rooms and number of goroutines: a complete unregistration that
\* nothing overlapped leaves no key of the client in Redis.
THEOREM UnregistrationLeavesNothing == RSSpec => []UnregisteredIsGone
<1>1. RsInv => UnregisteredIsGone
  <2> SUFFICES ASSUME RsInv, NEW c \in gone
               PROVE  /\ connHash[c] = {} /\ c \notin hasTTL \cup connSet \cup attrHash
                      /\ roomsOf[c] = {} /\ \A r \in RsRoom : c \notin roomSet[r]
    BY Zenon DEF UnregisteredIsGone, RsGetConnection
  <2>1. NothingOf(c)
    BY Zenon DEF RsInv, RsType, GoneInv
  <2> QED
    BY <2>1, Zenon DEF NothingOf, Members
<1> QED
  BY <1>1, RsInvAlways, PTL

-----------------------------------------------------------------------------
(* The memory session store.                                               *)

\* The three invariants are inductive together.
Inv == TypeOK /\ IndexesAgree /\ NoEmptyRooms

\* What delete does to a map.
LEMMA WithoutFacts ==
  ASSUME NEW f, NEW k
  PROVE  /\ DOMAIN Without(f, k) = DOMAIN f \ {k}
         /\ \A x \in DOMAIN f \ {k} : Without(f, k)[x] = f[x]
  BY Zenon DEF Without

\* After c has left the rooms rs, it is a member of none of them, every other
\* membership is unchanged and no room has become empty.
LEMMA LeavingFacts ==
  ASSUME Inv, NEW rs, NEW c \in Client, rooms' = RoomsAfterLeaving(rs, c)
  PROVE  /\ DOMAIN rooms' \subseteq DOMAIN rooms
         /\ \A r \in DOMAIN rooms' : rooms'[r] \subseteq Client /\ rooms'[r] # {}
         /\ \A r \in Room, d \in Client :
              d \in GetRoomMembers(r)' <=> d \in GetRoomMembers(r) /\ ~(r \in rs /\ d = c)
<1> DEFINE emptied == {r \in DOMAIN rooms \cap rs : rooms[r] \subseteq {c}}
<1>1. rooms' = [r \in DOMAIN rooms \ emptied |-> IF r \in rs THEN rooms[r] \ {c} ELSE rooms[r]]
  BY Zenon DEF RoomsAfterLeaving
<1>2. DOMAIN rooms' = DOMAIN rooms \ emptied
  BY <1>1, Zenon
<1>3. \A r \in DOMAIN rooms' : rooms'[r] = IF r \in rs THEN rooms[r] \ {c} ELSE rooms[r]
  BY <1>1, Zenon
<1>4. \A r \in DOMAIN rooms' : rooms'[r] \subseteq Client /\ rooms'[r] # {}
  BY <1>2, <1>3, Zenon DEF Inv, TypeOK, NoEmptyRooms
<1>5. ASSUME NEW r \in Room, NEW d \in Client
      PROVE  d \in GetRoomMembers(r)' <=> d \in GetRoomMembers(r) /\ ~(r \in rs /\ d = c)
  BY <1>2, <1>3, Zenon DEF GetRoomMembers
<1> QED
  BY <1>2, <1>4, <1>5, Zenon

\* All maps start empty.
LEMMA InitInv == Init => Inv
  BY DEF Init, Inv, TypeOK, IndexesAgree, NoEmptyRooms, GetRoomMembers, GetClientRooms

\* Operations that leave the rooms alone.
LEMMA RoomsUntouched ==
  ASSUME Inv, UNCHANGED <<rooms, clientRooms>>
  PROVE  /\ IndexesAgree' /\ NoEmptyRooms'
         /\ \A r \in Room : GetRoomMembers(r)' = GetRoomMembers(r)
         /\ DOMAIN rooms' \subseteq Room
         /\ \A r \in DOMAIN rooms' : rooms'[r] \subseteq Client
         /\ DOMAIN clientRooms' \subseteq Client
         /\ \A d \in DOMAIN clientRooms' : clientRooms'[d] \subseteq Room
  BY Zenon DEF Inv, TypeOK, IndexesAgree, NoEmptyRooms, GetRoomMembers, GetClientRooms

\* Leaving every room clientRooms lists leaves every room: this is where the
\* agreement of the indexes is needed.
LEMMA LeaveEverywhere ==
  ASSUME Inv, NEW c \in Client,
         rooms' = RoomsAfterLeaving(GetClientRooms(c), c), clientRooms' = Without(clientRooms, c)
  PROVE  /\ IndexesAgree' /\ NoEmptyRooms'
         /\ \A r \in Room, d \in Client :
              d \in GetRoomMembers(r)' <=> d \in GetRoomMembers(r) /\ d # c
         /\ DOMAIN rooms' \subseteq Room
         /\ \A r \in DOMAIN rooms' : rooms'[r] \subseteq Client
         /\ DOMAIN clientRooms' \subseteq Client
         /\ \A d \in DOMAIN clientRooms' : clientRooms'[d] \subseteq Room
<1>1. DOMAIN clientRooms' = DOMAIN clientRooms \ {c}
      /\ \A d \in DOMAIN clientRooms' : clientRooms'[d] = clientRooms[d]
  BY WithoutFacts, Zenon
<1>2. \A d \in Client : GetClientRooms(d)' = IF d = c THEN {} ELSE GetClientRooms(d)
  BY <1>1, Zenon DEF GetClientRooms
<1>3. \A r \in Room, d \in Client :
        d \in GetRoomMembers(r)' <=> d \in GetRoomMembers(r) /\ ~(r \in GetClientRooms(c) /\ d = c)
  BY LeavingFacts, Zenon
<1>4. \A r \in Room, d \in Client : d \in GetRoomMembers(r)' <=> d \in GetRoomMembers(r) /\ d # c
  BY <1>3, Zenon DEF Inv, IndexesAgree
<1>5. IndexesAgree'
  BY <1>2, <1>4, Zenon DEF Inv, IndexesAgree
<1>6. /\ DOMAIN rooms' \subseteq DOMAIN rooms
      /\ \A r \in DOMAIN rooms' : rooms'[r] \subseteq Client /\ rooms'[r] # {}
  BY LeavingFacts, Zenon
<1> QED
  BY <1>1, <1>4, <1>5, <1>6, Zenon DEF Inv, TypeOK, NoEmptyRooms

-----------------------------------------------------------------------------
(* Each operation keeps the invariant and is the port's operation.         *)

\* Attributes and rooms survive a registration.
LEMMA RegisterStep ==
  ASSUME Inv, NEW c \in Client, NEW ip \in IP, NEW now \in Time, RegisterConnection(c, ip, now)
  PROVE  Inv' /\ Port!RegisterConnection(c, [ip |-> ip, last |-> now])
<1> DEFINE info == [ip |-> ip, last |-> now]
<1>0. info \in Info /\ connections' = With(connections, c, info)
  BY Zenon DEF RegisterConnection, Info
<1> HIDE DEF info
<1>1. /\ DOMAIN connections' = DOMAIN connections \cup {c}
      /\ connections'[c] = info
      /\ \A d \in DOMAIN connections \ {c} : connections'[d] = connections[d]
  BY <1>0, Zenon DEF With
<1>2. UNCHANGED <<attributes, rooms, clientRooms>>
  BY Zenon DEF RegisterConnection
<1>3. TypeOK'
  BY <1>0, <1>1, <1>2, RoomsUntouched, Zenon DEF Inv, TypeOK
<1>4. \A d \in Client : GetConnection(d)' = IF d = c THEN info ELSE GetConnection(d)
  BY <1>1, Zenon DEF GetConnection
<1>5. Port!RegisterConnection(c, info)
  BY <1>2, <1>4, RoomsUntouched, Zenon DEF Port!RegisterConnection, GetUserAttribute
<1> QED
  BY <1>2, <1>3, <1>5, RoomsUntouched, Zenon DEF Inv, info

\* Unregistering removes the connection, the attributes and every membership.
LEMMA UnregisterStep ==
  ASSUME Inv, NEW c \in Client, UnregisterConnection(c)
  PROVE  Inv' /\ Port!UnregisterConnection(c)
<1>1. /\ rooms' = RoomsAfterLeaving(GetClientRooms(c), c)
      /\ clientRooms' = Without(clientRooms, c)
  BY Zenon DEF UnregisterConnection
<1>2. /\ DOMAIN connections' = DOMAIN connections \ {c}
      /\ \A d \in DOMAIN connections' : connections'[d] = connections[d]
      /\ DOMAIN attributes' = DOMAIN attributes \ {c}
      /\ \A d \in DOMAIN attributes' : attributes'[d] = attributes[d]
  BY WithoutFacts, Zenon DEF UnregisterConnection
<1>3. TypeOK'
  BY <1>1, <1>2, LeaveEverywhere, Zenon DEF Inv, TypeOK
<1>4. \A d \in Client : GetConnection(d)' = IF d = c THEN Void ELSE GetConnection(d)
  BY <1>2, Zenon DEF GetConnection
<1>5. \A d \in Client, a \in AttrName :
        GetUserAttribute(d, a)' = IF d = c THEN Void ELSE GetUserAttribute(d, a)
  BY <1>2, Zenon DEF GetUserAttribute
<1>6. \A r \in Room, d \in Client : d \in GetRoomMembers(r)' <=> d \in GetRoomMembers(r) /\ d # c
  BY <1>1, LeaveEverywhere, Zenon
<1>7. Port!UnregisterConnection(c)
  BY <1>4, <1>5, <1>6, Zenon DEF Port!UnregisterConnection
<1> QED
  BY <1>1, <1>3, <1>7, LeaveEverywhere, Zenon DEF Inv

\* UpdateLastActivity of a client that is not connected changes nothing.
LEMMA UpdateStep ==
  ASSUME Inv, NEW c \in Client, NEW now \in Time, UpdateLastActivity(c, now)
  PROVE  /\ Inv'
         /\ \/ \E info \in Info : Port!UpdateLastActivity(c, info)
            \/ UNCHANGED memVars
<1>1. CASE c \notin DOMAIN connections
  BY <1>1, Zenon DEF UpdateLastActivity, memVars, Inv, TypeOK, IndexesAgree, NoEmptyRooms,
              GetRoomMembers, GetClientRooms
<1>2. CASE c \in DOMAIN connections
  <2> DEFINE info == [connections[c] EXCEPT !.last = now]
  <2>1. connections[c] \in Info /\ info \in Info
    BY <1>2, Zenon DEF Inv, TypeOK, Info
  <2>2. connections' = [connections EXCEPT ![c] = info] /\ UNCHANGED <<attributes, rooms, clientRooms>>
    BY <1>2, Zenon DEF UpdateLastActivity
  <2> HIDE DEF info
  <2>3. TypeOK'
    BY <1>2, <2>1, <2>2, RoomsUntouched, Zenon DEF Inv, TypeOK
  <2>4. \A d \in Client : GetConnection(d)' = IF d = c THEN info ELSE GetConnection(d)
    BY <1>2, <2>2, Zenon DEF GetConnection
  <2>5. GetConnection(c) # Void
    BY <1>2, <2>1, VoidAssumption, Zenon DEF GetConnection
  <2>6. Port!UpdateLastActivity(c, info)
    BY <2>2, <2>4, <2>5, RoomsUntouched, Zenon DEF Port!UpdateLastActivity, GetUserAttribute
  <2> QED
    BY <2>1, <2>2, <2>3, <2>6, RoomsUntouched, Zenon DEF Inv
<1> QED
  BY <1>1, <1>2, Zenon

\* Setting an attribute creates the client's attribute map when it has none.
LEMMA SetAttributeStep ==
  ASSUME Inv, NEW c \in Client, NEW a \in AttrName, NEW v \in Value, SetUserAttribute(c, a, v)
  PROVE  Inv' /\ Port!SetUserAttribute(c, a, v)
<1> DEFINE old == IF c \in DOMAIN attributes THEN attributes[c] ELSE <<>>
           new == With(old, a, v)
<1>1. attributes' = With(attributes, c, new) /\ UNCHANGED <<connections, rooms, clientRooms>>
  BY Zenon DEF SetUserAttribute
<1>2. /\ DOMAIN old \subseteq AttrName
      /\ \A b \in DOMAIN old : old[b] \in Value
      /\ \A b \in AttrName : GetUserAttribute(c, b) = IF b \in DOMAIN old THEN old[b] ELSE Void
  BY DEF Inv, TypeOK, GetUserAttribute
<1> HIDE DEF old
<1>3. /\ DOMAIN new = DOMAIN old \cup {a}
      /\ new[a] = v
      /\ \A b \in DOMAIN old \ {a} : new[b] = old[b]
  BY Zenon DEF new, With
<1> HIDE DEF new
<1>4. /\ DOMAIN attributes' = DOMAIN attributes \cup {c}
      /\ attributes'[c] = new
      /\ \A d \in DOMAIN attributes \ {c} : attributes'[d] = attributes[d]
  BY <1>1, Zenon DEF With
<1>5. TypeOK'
  <2>1. /\ DOMAIN new \subseteq AttrName
        /\ \A b \in DOMAIN new : new[b] \in Value
    BY <1>2, <1>3, Zenon
  <2>2. /\ DOMAIN attributes' \subseteq Client
        /\ \A d \in DOMAIN attributes' :
             DOMAIN attributes'[d] \subseteq AttrName /\ \A b \in DOMAIN attributes'[d] : attributes'[d][b] \in Value
    BY <1>4, <2>1, Zenon DEF Inv, TypeOK
  <2> QED
    BY <1>1, <2>2, RoomsUntouched, Zenon DEF Inv, TypeOK
<1>6. \A d \in Client, b \in AttrName :
        GetUserAttribute(d, b)' = IF d = c /\ b = a THEN v ELSE GetUserAttribute(d, b)
  <2>1. ASSUME NEW d \in Client, NEW b \in AttrName, d # c
        PROVE  GetUserAttribute(d, b)' = GetUserAttribute(d, b)
    BY <1>4, <2>1, Zenon DEF GetUserAttribute
  <2>2. ASSUME NEW b \in AttrName
        PROVE  GetUserAttribute(c, b)' = IF b = a THEN v ELSE GetUserAttribute(c, b)
    <3>1. GetUserAttribute(c, b)' = IF b \in DOMAIN new THEN new[b] ELSE Void
      BY <1>4, Zenon DEF GetUserAttribute
    <3> QED
      BY <1>2, <1>3, <3>1, Zenon
  <2> QED
    BY <2>1, <2>2, Zenon
<1>7. Port!SetUserAttribute(c, a, v)
  BY <1>1, <1>6, RoomsUntouched, Zenon DEF Port!SetUserAttribute, GetConnection
<1> QED
  BY <1>1, <1>5, <1>7, RoomsUntouched, Zenon DEF Inv

\* Deleting an attribute leaves the others of the client alone.
LEMMA DeleteAttributeStep ==
  ASSUME Inv, NEW c \in Client, NEW a \in AttrName, DeleteUserAttribute(c, a)
  PROVE  Inv' /\ Port!DeleteUserAttribute(c, a)
<1>1. UNCHANGED <<connections, rooms, clientRooms>>
  BY Zenon DEF DeleteUserAttribute
<1> SUFFICES TypeOK' /\ Port!DeleteUserAttribute(c, a)
  BY <1>1, RoomsUntouched, Zenon DEF Inv
<1>2. CASE c \notin DOMAIN attributes
  <2>1. UNCHANGED attributes
    BY <1>2, Zenon DEF DeleteUserAttribute
  <2>2. \A b \in AttrName : GetUserAttribute(c, b) = Void
    BY <1>2, Zenon DEF GetUserAttribute
  <2>3. \A d \in Client, b \in AttrName : GetUserAttribute(d, b)' = GetUserAttribute(d, b)
    BY <2>1, Zenon DEF GetUserAttribute
  <2> QED
    BY <1>1, <2>1, <2>2, <2>3, RoomsUntouched, Zenon
    DEF Port!DeleteUserAttribute, GetConnection, Inv, TypeOK
<1>3. CASE c \in DOMAIN attributes
  <2> DEFINE new == Without(attributes[c], a)
  <2>1. attributes' = With(attributes, c, new)
    BY <1>3, Zenon DEF DeleteUserAttribute
  <2>2. /\ DOMAIN new = DOMAIN attributes[c] \ {a}
        /\ \A b \in DOMAIN new : new[b] = attributes[c][b]
    BY WithoutFacts, Zenon
  <2> HIDE DEF new
  <2>3. /\ DOMAIN attributes' = DOMAIN attributes
        /\ attributes'[c] = new
        /\ \A d \in DOMAIN attributes \ {c} : attributes'[d] = attributes[d]
    BY <1>3, <2>1, Zenon DEF With
  <2>4. TypeOK'
    BY <1>1, <1>3, <2>2, <2>3, RoomsUntouched, Zenon DEF Inv, TypeOK
  <2>5. \A d \in Client, b \in AttrName :
          GetUserAttribute(d, b)' = IF d = c /\ b = a THEN Void ELSE GetUserAttribute(d, b)
    BY <1>3, <2>2, <2>3, Zenon DEF GetUserAttribute
  <2> QED
    BY <1>1, <2>4, <2>5, RoomsUntouched, Zenon DEF Port!DeleteUserAttribute, GetConnection
<1> QED
  BY <1>2, <1>3, Zenon

\* JoinRoom enters the pair in both indexes.
LEMMA JoinStep ==
  ASSUME Inv, NEW c \in Client, NEW r \in Room, JoinRoom(r, c)
  PROVE  Inv' /\ Port!JoinRoom(r, c)
<1>1. UNCHANGED <<connections, attributes>>
  BY Zenon DEF JoinRoom
<1>2. /\ DOMAIN rooms' = DOMAIN rooms \cup {r}
      /\ rooms'[r] = GetRoomMembers(r) \cup {c}
      /\ \A q \in DOMAIN rooms \ {r} : rooms'[q] = rooms[q]
  BY Zenon DEF JoinRoom, With
<1>3. /\ DOMAIN clientRooms' = DOMAIN clientRooms \cup {c}
      /\ clientRooms'[c] = GetClientRooms(c) \cup {r}
      /\ \A d \in DOMAIN clientRooms \ {c} : clientRooms'[d] = clientRooms[d]
  BY Zenon DEF JoinRoom, With
<1>4. GetRoomMembers(r) \subseteq Client /\ GetClientRooms(c) \subseteq Room
  BY Zenon DEF Inv, TypeOK, GetRoomMembers, GetClientRooms
<1>5. TypeOK' /\ NoEmptyRooms'
  BY <1>1, <1>2, <1>3, <1>4 DEF Inv, TypeOK, NoEmptyRooms
<1>6. \A q \in Room, d \in Client :
        /\ d \in GetRoomMembers(q)' <=> d \in GetRoomMembers(q) \/ (q = r /\ d = c)
        /\ q \in GetClientRooms(d)' <=> q \in GetClientRooms(d) \/ (q = r /\ d = c)
  BY <1>2, <1>3, Zenon DEF GetRoomMembers, GetClientRooms
<1>7. IndexesAgree'
  BY <1>6, Zenon DEF Inv, IndexesAgree
<1>8. Port!JoinRoom(r, c)
  BY <1>1, <1>6 DEF Port!JoinRoom, GetConnection, GetUserAttribute
<1> QED
  BY <1>5, <1>7, <1>8, Zenon DEF Inv

\* LeaveRoom removes the pair from both indexes.
LEMMA LeaveStep ==
  ASSUME Inv, NEW c \in Client, NEW r \in Room, LeaveRoom(r, c)
  PROVE  Inv' /\ Port!LeaveRoom(r, c)
<1>1. UNCHANGED <<connections, attributes>> /\ rooms' = RoomsAfterLeaving({r}, c)
  BY Zenon DEF LeaveRoom
<1>2. /\ DOMAIN clientRooms' = DOMAIN clientRooms
      /\ \A d \in DOMAIN clientRooms : clientRooms'[d] = IF d = c THEN clientRooms[d] \ {r} ELSE clientRooms[d]
  BY Zenon DEF LeaveRoom
<1>3. /\ DOMAIN rooms' \subseteq DOMAIN rooms
      /\ \A q \in DOMAIN rooms' : rooms'[q] \subseteq Client /\ rooms'[q] # {}
      /\ \A q \in Room, d \in Client :
           d \in GetRoomMembers(q)' <=> d \in GetRoomMembers(q) /\ ~(q \in {r} /\ d = c)
  BY <1>1, LeavingFacts, Zenon
<1>4. TypeOK' /\ NoEmptyRooms'
  BY <1>1, <1>2, <1>3, Zenon DEF Inv, TypeOK, NoEmptyRooms
<1>5. \A q \in Room, d \in Client : q \in GetClientRooms(d)' <=> q \in GetClientRooms(d) /\ ~(q = r /\ d = c)
  BY <1>2, Zenon DEF GetClientRooms
<1>6. IndexesAgree'
  BY <1>3, <1>5, Zenon DEF Inv, IndexesAgree
<1>7. Port!LeaveRoom(r, c)
  <2>1. {m \in Room \X Client : m[2] \in GetRoomMembers(m[1])}'
          = {m \in Room \X Client : m[2] \in GetRoomMembers(m[1])} \ {<<r, c>>}
    BY <1>3
  <2>2. /\ \A d \in Client : GetConnection(d)' = GetConnection(d)
        /\ \A d \in Client, a \in AttrName : GetUserAttribute(d, a)' = GetUserAttribute(d, a)
    BY <1>1, Zenon DEF GetConnection, GetUserAttribute
  <2> QED
    BY <2>1, <2>2, Zenon DEF Port!LeaveRoom
<1> QED
  BY <1>4, <1>6, <1>7 DEF Inv

\* Leaving all rooms keeps the connection and its attributes.
LEMMA LeaveAllStep ==
  ASSUME Inv, NEW c \in Client, LeaveAllRooms(c)
  PROVE  Inv' /\ Port!LeaveAllRooms(c)
<1>1. /\ UNCHANGED <<connections, attributes>>
      /\ rooms' = RoomsAfterLeaving(GetClientRooms(c), c)
      /\ clientRooms' = Without(clientRooms, c)
  BY Zenon DEF LeaveAllRooms
<1>2. TypeOK'
  BY <1>1, LeaveEverywhere, Zenon DEF Inv, TypeOK
<1>3. \A r \in Room, d \in Client : d \in GetRoomMembers(r)' <=> d \in GetRoomMembers(r) /\ d # c
  BY <1>1, LeaveEverywhere, Zenon
<1>4. Port!LeaveAllRooms(c)
  BY <1>1, <1>3, Zenon DEF Port!LeaveAllRooms, GetConnection, GetUserAttribute
<1> QED
  BY <1>1, <1>2, <1>4, LeaveEverywhere, Zenon DEF Inv

-----------------------------------------------------------------------------
\* Every step keeps the invariant and is a step of the port or a stutter.
LEMMA NextStep == Inv /\ [Next]_memVars => Inv' /\ [Port!Next]_(Port!storeVars)
<1> SUFFICES ASSUME Inv, [Next]_memVars  PROVE Inv' /\ [Port!Next]_(Port!storeVars)
  BY Zenon
<1>0. ASSUME UNCHANGED memVars  PROVE Inv' /\ UNCHANGED Port!storeVars
  BY <1>0, Zenon DEF memVars, Inv, TypeOK, IndexesAgree, NoEmptyRooms, GetConnection, GetUserAttribute,
              GetRoomMembers, GetClientRooms, Port!storeVars
<1>1. ASSUME NEW c \in Client, NEW ip \in IP, NEW now \in Time, RegisterConnection(c, ip, now)
      PROVE  Inv' /\ Port!Next
  <2>1. [ip |-> ip, last |-> now] \in Info
    BY Zenon DEF Info
  <2> QED
    BY <1>1, <2>1, RegisterStep, Zenon DEF Port!Next
<1>2. ASSUME NEW c \in Client, UnregisterConnection(c)  PROVE Inv' /\ Port!Next
  BY <1>2, UnregisterStep, Zenon DEF Port!Next
<1>3. ASSUME NEW c \in Client, NEW now \in Time, UpdateLastActivity(c, now)
      PROVE  Inv' /\ (Port!Next \/ UNCHANGED memVars)
  BY <1>3, UpdateStep, Zenon DEF Port!Next
<1>4. ASSUME NEW c \in Client, NEW a \in AttrName, NEW v \in Value, SetUserAttribute(c, a, v)
      PROVE  Inv' /\ Port!Next
  BY <1>4, SetAttributeStep, Zenon DEF Port!Next
<1>5. ASSUME NEW c \in Client, NEW a \in AttrName, DeleteUserAttribute(c, a)  PROVE Inv' /\ Port!Next
  BY <1>5, DeleteAttributeStep, Zenon DEF Port!Next
<1>6. ASSUME NEW c \in Client, NEW r \in Room, JoinRoom(r, c)  PROVE Inv' /\ Port!Next
  BY <1>6, JoinStep, Zenon DEF Port!Next
<1>7. ASSUME NEW c \in Client, NEW r \in Room, LeaveRoom(r, c)  PROVE Inv' /\ Port!Next
  BY <1>7, LeaveStep, Zenon DEF Port!Next
<1>8. ASSUME NEW c \in Client, LeaveAllRooms(c)  PROVE Inv' /\ Port!Next
  BY <1>8, LeaveAllStep, Zenon DEF Port!Next
<1> QED
  BY <1>0, <1>1, <1>2, <1>3, <1>4, <1>5, <1>6, <1>7, <1>8, Zenon DEF Next

\* The empty store answers as the port says an empty store does.
LEMMA InitPort == Init => Port!Init
  BY DEF Init, Port!Init, GetConnection, GetUserAttribute, GetRoomMembers

\* The two indexes agree and no room is kept empty, for any number of clients,
\* rooms and attributes.
THEOREM StoreSafety == Spec => [](TypeOK /\ IndexesAgree /\ NoEmptyRooms)
<1>1. Inv => TypeOK /\ IndexesAgree /\ NoEmptyRooms
  BY Zenon DEF Inv
<1> QED
  BY <1>1, InitInv, NextStep, PTL DEF Spec

\* The memory store implements the port's contract.
THEOREM StoreImplementsPort == Spec => ImplementsPort
  BY InitInv, InitPort, NextStep, PTL DEF Spec, ImplementsPort, Port!Spec
=============================================================================
