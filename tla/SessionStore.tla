---------------------------- MODULE SessionStore ----------------------------
(***************************************************************************)
(* What the SessionStore port (internal/domain/ports/session_store.go)     *)
(* promises its callers, in terms of what its getters answer: who is       *)
(* connected and since when, the attributes of a client, and one           *)
(* membership relation between rooms and clients.  Every operation is one  *)
(* step.  Registering, attributes and rooms are independent of each other; *)
(* unregistering a client removes all three.                               *)
(***************************************************************************)
CONSTANTS Client, Room, AttrName, Value, Void, Info

VARIABLES
  conns,    \* conns[c]: what GetConnection(c) answers, Void when not connected
  attrs,    \* attrs[c][a]: what GetUserAttribute(c, a) answers
  member    \* the pairs <<room, client>> of the membership relation

storeVars == <<conns, attrs, member>>

Init ==
  /\ conns = [c \in Client |-> Void]
  /\ attrs = [c \in Client |-> [a \in AttrName |-> Void]]
  /\ member = {}

RegisterConnection(c, info) ==
  /\ conns' = [conns EXCEPT ![c] = info]
  /\ UNCHANGED <<attrs, member>>

UnregisterConnection(c) ==
  /\ conns' = [conns EXCEPT ![c] = Void]
  /\ attrs' = [attrs EXCEPT ![c] = [a \in AttrName |-> Void]]
  /\ member' = {m \in member : m[2] # c}

UpdateLastActivity(c, info) ==
  /\ conns[c] # Void
  /\ conns' = [conns EXCEPT ![c] = info]
  /\ UNCHANGED <<attrs, member>>

SetUserAttribute(c, a, v) ==
  /\ attrs' = [attrs EXCEPT ![c][a] = v]
  /\ UNCHANGED <<conns, member>>

DeleteUserAttribute(c, a) ==
  /\ attrs' = [attrs EXCEPT ![c][a] = Void]
  /\ UNCHANGED <<conns, member>>

JoinRoom(r, c) ==
  /\ member' = member \cup {<<r, c>>}
  /\ UNCHANGED <<conns, attrs>>

LeaveRoom(r, c) ==
  /\ member' = member \ {<<r, c>>}
  /\ UNCHANGED <<conns, attrs>>

LeaveAllRooms(c) ==
  /\ member' = {m \in member : m[2] # c}
  /\ UNCHANGED <<conns, attrs>>

Next ==
  \E c \in Client :
    \/ \E info \in Info : RegisterConnection(c, info) \/ UpdateLastActivity(c, info)
    \/ UnregisterConnection(c)
    \/ \E a \in AttrName :
         \/ \E v \in Value : SetUserAttribute(c, a, v)
         \/ DeleteUserAttribute(c, a)
    \/ \E r \in Room : JoinRoom(r, c) \/ LeaveRoom(r, c)
    \/ LeaveAllRooms(c)

Spec == Init /\ [][Next]_storeVars
=============================================================================
