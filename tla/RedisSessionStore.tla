-------------------------- MODULE RedisSessionStore -------------------------
(***************************************************************************)
(* The Redis session store (internal/adapters/outbound/                    *)
(* redis_session_store.go).  An operation of the store is a sequence of    *)
(* Redis commands, sent through a pipeline that is not a transaction:      *)
(* commands of other goroutines come in between, and an operation that     *)
(* loses its connection, or its process, stops half way.  Redis itself     *)
(* goes on, and expires the hash of a connection.                          *)
(*                                                                         *)
(* One user attribute stands for all.  An operation in progress is a       *)
(* record: the operation, its client, the rooms it is about, and the       *)
(* number of the command it sends next.                                    *)
(***************************************************************************)
EXTENDS Naturals, Sequences

CONSTANTS
  RsClient, RsRoom,
  RsCall,     \* goroutines that use the store
  RsIdle      \* a goroutine that is not in an operation

VARIABLES
  connHash,    \* connHash[c]: the fields present in the hash of connection c
  hasTTL,      \* clients whose hash has an expiry
  connSet,     \* the set of connections
  attrHash,    \* clients with an attribute hash
  roomSet,     \* roomSet[r]: the members of room r
  roomsOf,     \* roomsOf[c]: the rooms of client c
  doing,       \* doing[g]: the operation g is in, or RsIdle
  raced,       \* the pairs of client and kind of key that two operations were
               \* changing at once, or one failed to change to the end, until the
               \* next operation that writes all of that kind
  expiredConn, \* clients whose hash expired while registered
  gone         \* clients whose last operation was a complete unregistration

redisVars == <<connHash, hasTTL, connSet, attrHash, roomSet, roomsOf>>
rsVars == <<redisVars, doing, raced, expiredConn, gone>>

Fields == {"ip", "connected_at", "last_activity"}

RSInit ==
  /\ connHash = [c \in RsClient |-> {}] /\ hasTTL = {} /\ connSet = {} /\ attrHash = {}
  /\ roomSet = [r \in RsRoom |-> {}] /\ roomsOf = [c \in RsClient |-> {}]
  /\ doing = [g \in RsCall |-> RsIdle]
  /\ raced = {} /\ expiredConn = {} /\ gone = RsClient

-----------------------------------------------------------------------------
(* The operations, as the commands they send.  "SREM each" is one SREM for *)
(* each of the rooms that SMEMBERS returned.                               *)

\* EXPIRE is left out if the configured time is zero: what happens then is what
\* happens here while no hash expires.
RegisterCmds == <<"HSET", "EXPIRE", "SADD conns">>
MutUnregisterCmds ==
  <<"SMEMBERS", "DEL conn", "DEL rooms", "SREM conns", "SREM each">>
UnregisterCmds ==
  <<"SMEMBERS", "DEL conn", "DEL attr", "DEL rooms", "SREM conns", "SREM each">>
TouchCmds == <<"HSET last_activity">>
SetAttrCmds == <<"HSET attr">>
DeleteAttrCmds == <<"HDEL attr">>
JoinCmds == <<"SADD room", "SADD rooms">>
LeaveCmds == <<"SREM room", "SREM rooms">>
MutLeaveAllCmds == <<"SMEMBERS", "DEL rooms">>
LeaveAllCmds == <<"SMEMBERS", "SREM each", "DEL rooms">>

Commands ==
  [register |-> RegisterCmds, unregister |-> UnregisterCmds, touch |-> TouchCmds,
   setAttr |-> SetAttrCmds, deleteAttr |-> DeleteAttrCmds,
   join |-> JoinCmds, leave |-> LeaveCmds, leaveAll |-> LeaveAllCmds]

\* The kinds of keys an operation changes.
Keys ==
  [register |-> {"conn"}, unregister |-> {"conn", "activity", "attr", "rooms"},
   touch |-> {"activity"}, setAttr |-> {"attr"}, deleteAttr |-> {"attr"},
   join |-> {"rooms"}, leave |-> {"rooms"}, leaveAll |-> {"rooms"}]

Operation ==
  [op : DOMAIN Commands, client : RsClient, rooms : SUBSET RsRoom, at : Nat]

ASSUME RsAssumption == RsIdle \notin Operation

-----------------------------------------------------------------------------
Working(c) == {g \in RsCall : doing[g] # RsIdle /\ doing[g].client = c}

\* An operation that starts while another changes the same kind of key races with
\* it.  One that starts alone repairs what an earlier race left, because it writes
\* every key of its kind; only the rooms' keys are never all written, as nothing
\* lists the rooms that the client's own index has lost.
StoreCall(g, c, op, rooms) ==
  /\ doing[g] = RsIdle
  /\ doing' = [doing EXCEPT ![g] = [op |-> op, client |-> c, rooms |-> rooms, at |-> 1]]
  /\ raced' = (raced \ {<<c, k>> : k \in Keys[op] \ {"rooms"}})
                \cup {<<c, k>> : k \in Keys[op] \cap UNION {Keys[doing[h].op] : h \in Working(c)}}
  /\ gone' = gone \ {c}
  /\ UNCHANGED <<redisVars, expiredConn>>

StoreCalls(g, c) ==
  \/ \E op \in DOMAIN Commands \ {"join", "leave"} : StoreCall(g, c, op, {})
  \/ \E op \in {"join", "leave"}, r \in RsRoom : StoreCall(g, c, op, {r})

\* The next command of g is name, on the keys of c.
Sends(g, name, c) ==
  /\ doing[g] # RsIdle /\ doing[g].client = c
  /\ Commands[doing[g].op][doing[g].at] = name

\* g goes on to its next command, with these rooms, or its operation is over.
\* A complete unregistration is noted.
Advance(g, rooms) ==
  LET d == doing[g]
      over == d.at = Len(Commands[d.op])
  IN /\ doing' = [doing EXCEPT ![g] = IF over THEN RsIdle ELSE [d EXCEPT !.rooms = rooms, !.at = d.at + 1]]
     /\ gone' = IF over /\ d.op = "unregister" /\ \A k \in Keys[d.op] : <<d.client, k>> \notin raced
                THEN gone \cup {d.client} ELSE gone
     /\ UNCHANGED raced

-----------------------------------------------------------------------------
(* Redis executes the next command of g.                                   *)

ConnCommand(g, c) ==
  /\ \/ /\ Sends(g, "HSET", c)
        /\ connHash' = [connHash EXCEPT ![c] = Fields] /\ expiredConn' = expiredConn \ {c}
        /\ UNCHANGED <<hasTTL, connSet>>
     \/ /\ Sends(g, "EXPIRE", c)
        /\ hasTTL' = IF connHash[c] = {} THEN hasTTL ELSE hasTTL \cup {c}
        /\ UNCHANGED <<connHash, connSet, expiredConn>>
     \/ Sends(g, "SADD conns", c) /\ connSet' = connSet \cup {c} /\ UNCHANGED <<connHash, hasTTL, expiredConn>>
     \/ Sends(g, "SREM conns", c) /\ connSet' = connSet \ {c} /\ UNCHANGED <<connHash, hasTTL, expiredConn>>
     \/ /\ Sends(g, "DEL conn", c)
        /\ connHash' = [connHash EXCEPT ![c] = {}] /\ hasTTL' = hasTTL \ {c}
        /\ expiredConn' = expiredConn \ {c} /\ UNCHANGED connSet
     \/ /\ Sends(g, "HSET last_activity", c)
        /\ connHash' = [connHash EXCEPT ![c] = @ \cup {"last_activity"}]
        /\ UNCHANGED <<hasTTL, connSet, expiredConn>>
  /\ Advance(g, doing[g].rooms)
  /\ UNCHANGED <<attrHash, roomSet, roomsOf>>

AttrCommand(g, c) ==
  /\ \/ Sends(g, "HSET attr", c) /\ attrHash' = attrHash \cup {c}
     \/ (Sends(g, "HDEL attr", c) \/ Sends(g, "DEL attr", c)) /\ attrHash' = attrHash \ {c}
  /\ Advance(g, doing[g].rooms)
  /\ UNCHANGED <<connHash, hasTTL, connSet, roomSet, roomsOf, expiredConn>>

RoomCommand(g, c) ==
  LET rooms == doing[g].rooms
      joined == [r \in RsRoom |-> IF r \in rooms THEN roomSet[r] \cup {c} ELSE roomSet[r]]
      left(rs) == [r \in RsRoom |-> IF r \in rs THEN roomSet[r] \ {c} ELSE roomSet[r]]
  IN /\ \/ Sends(g, "SMEMBERS", c) /\ Advance(g, roomsOf[c]) /\ UNCHANGED <<roomSet, roomsOf>>
        \/ Sends(g, "SADD room", c) /\ roomSet' = joined /\ Advance(g, rooms) /\ UNCHANGED roomsOf
        \/ Sends(g, "SREM room", c) /\ roomSet' = left(rooms) /\ Advance(g, rooms) /\ UNCHANGED roomsOf
        \/ /\ Sends(g, "SADD rooms", c) /\ roomsOf' = [roomsOf EXCEPT ![c] = @ \cup rooms]
           /\ Advance(g, rooms) /\ UNCHANGED roomSet
        \/ /\ Sends(g, "SREM rooms", c) /\ roomsOf' = [roomsOf EXCEPT ![c] = @ \ rooms]
           /\ Advance(g, rooms) /\ UNCHANGED roomSet
        \/ /\ Sends(g, "DEL rooms", c) /\ roomsOf' = [roomsOf EXCEPT ![c] = {}]
           /\ Advance(g, rooms) /\ UNCHANGED roomSet
        \/ /\ Sends(g, "SREM each", c) /\ rooms = {}
           /\ Advance(g, rooms) /\ UNCHANGED <<roomSet, roomsOf>>
        \/ /\ Sends(g, "SREM each", c)
           /\ \E r \in rooms : /\ roomSet' = left({r})
                               /\ doing' = [doing EXCEPT ![g].rooms = @ \ {r}]
           /\ UNCHANGED <<roomsOf, gone, raced>>
     /\ UNCHANGED <<connHash, hasTTL, connSet, attrHash, expiredConn>>

RedisExecutes(g, c) == ConnCommand(g, c) \/ AttrCommand(g, c) \/ RoomCommand(g, c)

-----------------------------------------------------------------------------
\* The connection to Redis or the whole process is lost: the rest is not sent.
StoreCallFails(g) ==
  /\ doing[g] # RsIdle
  /\ raced' = raced \cup ({doing[g].client} \X Keys[doing[g].op])
  /\ doing' = [doing EXCEPT ![g] = RsIdle]
  /\ UNCHANGED <<redisVars, expiredConn, gone>>

\* The hash of a connection expires; nothing ever renews it.
HashExpires(c) ==
  /\ c \in hasTTL
  /\ connHash' = [connHash EXCEPT ![c] = {}] /\ hasTTL' = hasTTL \ {c}
  /\ expiredConn' = expiredConn \cup {c}
  /\ UNCHANGED <<connSet, attrHash, roomSet, roomsOf, doing, raced, gone>>

RSNext ==
  \/ \E g \in RsCall : \/ StoreCallFails(g)
                       \/ \E c \in RsClient : StoreCalls(g, c) \/ RedisExecutes(g, c)
  \/ \E c \in RsClient : HashExpires(c)

RSSpec == RSInit /\ [][RSNext]_rsVars

-----------------------------------------------------------------------------
(* What the getters answer.                                                *)

\* The fields of the connection that GetConnection returns; without any it
\* returns nil.
RsGetConnection(c) == connHash[c]
RsIsConnected(c) == c \in connSet
RsGetAllConnections == {c \in connSet : RsGetConnection(c) # {}}

Settled(c, k) == Working(c) = {} /\ <<c, k>> \notin raced

\* What the getters answer about a client between operations.  The two room
\* indexes agree, if no two operations on its rooms ever overlapped and none
\* failed: a join between the SMEMBERS and the DEL of an unregistration is how they
\* come to differ (redis_session_store.go:96).  If the last registration or
\* unregistration was complete and nothing overlapped it, the client is
\*   - registered: connected, listed, and its connection has all fields;
\*   - expired: connected, but GetConnection answers nil, until the next message
\*     brings back a hash with one field and no expiry (redis_session_store.go:178);
\*   - unregistered: neither connected nor listed.  GetConnection answers nil, or,
\*     if a message was still being answered under the id, as after a Logon that
\*     renamed the connection (tcp_server.go:269), a connection with one field,
\*     its last activity, that no expiry will remove.
GettersAgree ==
  \A c \in RsClient :
    /\ Settled(c, "rooms") => roomsOf[c] = {r \in RsRoom : c \in roomSet[r]}
    /\ Settled(c, "conn") =>
         \/ RsIsConnected(c) /\ RsGetConnection(c) = Fields /\ c \in RsGetAllConnections
         \/ c \in expiredConn /\ RsIsConnected(c) /\ RsGetConnection(c) \subseteq {"last_activity"}
         \/ /\ ~RsIsConnected(c) /\ c \notin RsGetAllConnections \cup hasTTL
            /\ RsGetConnection(c) \subseteq {"last_activity"}

\* A complete unregistration that nothing overlapped leaves nothing: the next
\* session of the id does not inherit attributes, rooms or an expiry.
UnregisteredIsGone ==
  \A c \in gone : Working(c) = {} =>
    /\ RsGetConnection(c) = {} /\ c \notin hasTTL \cup connSet \cup attrHash
    /\ roomsOf[c] = {} /\ \A r \in RsRoom : c \notin roomSet[r]
=============================================================================
