------------------------- MODULE MemorySessionStore -------------------------
(***************************************************************************)
(* internal/adapters/outbound/memory_session_store.go.  Four maps under    *)
(* one RWMutex, so each operation is one step.  A Go map is a function     *)
(* whose domain is the set of keys present; rooms and clientRooms are two  *)
(* indexes of one membership relation that the code keeps in step by hand. *)
(* A ConnectionInfo is reduced to its IP and its LastActivityAt.           *)
(***************************************************************************)
EXTENDS Naturals

CONSTANTS
  Client, Room, AttrName, Value, Void,
  IP,       \* remote addresses stored with a connection
  Time      \* instants time.Now() may return

VARIABLES connections, attributes, rooms, clientRooms

memVars == <<connections, attributes, rooms, clientRooms>>

Info == [ip : IP, last : Time]

ASSUME VoidAssumption == Void \notin Info

\* delete(f, k) and f[k] = v on a map.
Without(f, k) == [x \in DOMAIN f \ {k} |-> f[x]]
With(f, k, v) == [x \in DOMAIN f \cup {k} |-> IF x = k THEN v ELSE f[x]]

Init ==
  /\ connections = <<>>
  /\ attributes = <<>>
  /\ rooms = <<>>
  /\ clientRooms = <<>>

-----------------------------------------------------------------------------
(* The getters. *)

GetConnection(c) == IF c \in DOMAIN connections THEN connections[c] ELSE Void

GetUserAttribute(c, a) ==
  IF c \in DOMAIN attributes /\ a \in DOMAIN attributes[c] THEN attributes[c][a] ELSE Void

GetRoomMembers(r) == IF r \in DOMAIN rooms THEN rooms[r] ELSE {}

GetClientRooms(c) == IF c \in DOMAIN clientRooms THEN clientRooms[c] ELSE {}

-----------------------------------------------------------------------------
(* The operations. *)

RegisterConnection(c, ip, now) ==
  /\ connections' = With(connections, c, [ip |-> ip, last |-> now])
  /\ UNCHANGED <<attributes, rooms, clientRooms>>

\* The rooms map after c left the rooms rs; a room left empty is deleted.
RoomsAfterLeaving(rs, c) ==
  LET emptied == {r \in DOMAIN rooms \cap rs : rooms[r] \subseteq {c}}
  IN  [r \in DOMAIN rooms \ emptied |-> IF r \in rs THEN rooms[r] \ {c} ELSE rooms[r]]

MutUnregisterKeepsAttributes(c) ==
  /\ connections' = Without(connections, c)
  /\ rooms' = RoomsAfterLeaving(GetClientRooms(c), c)
  /\ clientRooms' = Without(clientRooms, c)
  /\ UNCHANGED attributes

UnregisterConnection(c) ==
  /\ connections' = Without(connections, c)
  /\ attributes' = Without(attributes, c)
  /\ rooms' = RoomsAfterLeaving(GetClientRooms(c), c)
  /\ clientRooms' = Without(clientRooms, c)

UpdateLastActivity(c, now) ==
  /\ connections' = IF c \in DOMAIN connections
                    THEN [connections EXCEPT ![c].last = now]
                    ELSE connections
  /\ UNCHANGED <<attributes, rooms, clientRooms>>

SetUserAttribute(c, a, v) ==
  /\ attributes' = With(attributes, c,
                        With(IF c \in DOMAIN attributes THEN attributes[c] ELSE <<>>, a, v))
  /\ UNCHANGED <<connections, rooms, clientRooms>>

DeleteUserAttribute(c, a) ==
  /\ attributes' = IF c \in DOMAIN attributes
                   THEN With(attributes, c, Without(attributes[c], a))
                   ELSE attributes
  /\ UNCHANGED <<connections, rooms, clientRooms>>

JoinRoom(r, c) ==
  /\ rooms' = With(rooms, r, GetRoomMembers(r) \cup {c})
  /\ clientRooms' = With(clientRooms, c, GetClientRooms(c) \cup {r})
  /\ UNCHANGED <<connections, attributes>>

LeaveRoom(r, c) ==
  /\ rooms' = RoomsAfterLeaving({r}, c)
  /\ clientRooms' = IF c \in DOMAIN clientRooms
                    THEN [clientRooms EXCEPT ![c] = @ \ {r}]
                    ELSE clientRooms
  /\ UNCHANGED <<connections, attributes>>

LeaveAllRooms(c) ==
  /\ rooms' = RoomsAfterLeaving(GetClientRooms(c), c)
  /\ clientRooms' = Without(clientRooms, c)
  /\ UNCHANGED <<connections, attributes>>

Next ==
  \E c \in Client :
    \/ \E ip \in IP, now \in Time : RegisterConnection(c, ip, now)
    \/ UnregisterConnection(c)
    \/ \E now \in Time : UpdateLastActivity(c, now)
    \/ \E a \in AttrName :
         \/ \E v \in Value : SetUserAttribute(c, a, v)
         \/ DeleteUserAttribute(c, a)
    \/ \E r \in Room : JoinRoom(r, c) \/ LeaveRoom(r, c)
    \/ LeaveAllRooms(c)

Spec == Init /\ [][Next]_memVars

-----------------------------------------------------------------------------
TypeOK ==
  /\ DOMAIN connections \subseteq Client
  /\ \A c \in DOMAIN connections : connections[c] \in Info
  /\ DOMAIN attributes \subseteq Client
  /\ \A c \in DOMAIN attributes :
       DOMAIN attributes[c] \subseteq AttrName /\ \A a \in DOMAIN attributes[c] : attributes[c][a] \in Value
  /\ DOMAIN rooms \subseteq Room
  /\ \A r \in DOMAIN rooms : rooms[r] \subseteq Client
  /\ DOMAIN clientRooms \subseteq Client
  /\ \A c \in DOMAIN clientRooms : clientRooms[c] \subseteq Room

\* The two hand-kept indexes describe one relation: UnregisterConnection and
\* LeaveAllRooms clean only the rooms clientRooms lists, so a membership
\* missing there would leave a client in a room for ever.
IndexesAgree ==
  \A r \in Room, c \in Client : c \in GetRoomMembers(r) <=> r \in GetClientRooms(c)

\* A room with no members is not kept: rooms does not grow with every room name
\* ever used.
NoEmptyRooms == \A r \in DOMAIN rooms : rooms[r] # {}

\* The store implements the port's contract, with the getters as the mapping.
Port == INSTANCE SessionStore WITH
  conns  <- [c \in Client |-> GetConnection(c)],
  attrs  <- [c \in Client |-> [a \in AttrName |-> GetUserAttribute(c, a)]],
  member <- {m \in Room \X Client : m[2] \in GetRoomMembers(m[1])}

\* Every operation of the memory store is, for a caller that sees only the
\* getters, the port's operation of the same name (or no change).
ImplementsPort == Port!Spec
=============================================================================
