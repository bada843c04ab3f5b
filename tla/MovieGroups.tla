---------------------------- MODULE MovieGroups -----------------------------
(***************************************************************************)
(* Movies and groups (internal/adapters/inbound/mus: movie.go, group.go,   *)
(* system_service_group.go and the tail of handleLogon).  A movie keeps    *)
(* group objects, which carry attributes, by name; who is in a movie or a  *)
(* group is a room of the session store.  The map of movies, the map of    *)
(* groups, a group's attributes and the store each have a lock of their    *)
(* own, so a handler is a sequence of steps; a user's commands are handled *)
(* one after the other.  One movie and one attribute per group.            *)
(***************************************************************************)
EXTENDS Naturals

CONSTANTS
  User, Group,
  AllUsers,       \* "@AllUsers", the group every user of a movie joins
  Obj, NoGroup,   \* group objects
  Value, Void     \* attribute values

\* The room of the movie, "movie:<id>".  The room of a group is "<id>:<name>": another
\* one, unless both the movie and the group are called "movie".
MovieRoom == "movie"

\* An allocation returns an object that nothing refers to: neither a group nor a
\* handler that has looked one up.
ASSUME GroupAssumption ==
  /\ AllUsers \in Group
  /\ MovieRoom \notin Group
  /\ NoGroup \notin Obj
  /\ Void \notin Value
  /\ \A byName \in [Group -> Obj \cup {NoGroup}], found \in [User -> Obj \cup {NoGroup}] :
       \E o \in Obj : (\A g \in Group : byName[g] # o) /\ (\A u \in User : found[u] # o)

VARIABLES
  groups,    \* groups[g]: the movie's object for group g
  attr,      \* attr[o]: the attribute of object o
  member,    \* the pairs <<room, user>> of the session store
  inMovie,   \* users whose session has the attribute #movieID
  h          \* h[u]: the command of u being handled

mgVars == <<groups, attr, member, inMovie, h>>

Idle == [at |-> "idle"]
At(u, place) == h[u].at = place
HGoto(u, next) == h' = [h EXCEPT ![u] = next]

MgInit ==
  /\ groups = [g \in Group |-> NoGroup]
  /\ attr = [o \in Obj |-> Void]
  /\ member = {}
  /\ inMovie = {}
  /\ h = [u \in User |-> Idle]

JoinRoom(r, u) == member' = member \cup {<<r, u>>}

\* NewGroup followed by AddGroup: an object without attributes replaces
\* whatever the movie has under the name.
Unreferenced(o) ==
  /\ \A g \in Group : groups[g] # o
  /\ \A u \in User : At(u, "setAttribute") => h[u].obj # o

MutAddGroupDropped(g) == UNCHANGED <<groups, attr>>

AddGroup(g) ==
  LET o == CHOOSE o \in Obj : Unreferenced(o)
  IN /\ groups' = [groups EXCEPT ![g] = o]
     /\ attr' = [attr EXCEPT ![o] = Void]

-----------------------------------------------------------------------------
(* JoinMovie, at the end of a Logon.  The movie itself is created, if need *)
(* be, in one step under the lock and is never destroyed.                  *)

JoinMovie(u) ==
  /\ At(u, "idle")
  /\ JoinRoom(MovieRoom, u)
  /\ HGoto(u, [at |-> "getAllUsers"])
  /\ UNCHANGED <<groups, attr, inMovie>>

GetAllUsers(u) ==
  /\ At(u, "getAllUsers")
  /\ HGoto(u, [at |-> IF groups[AllUsers] = NoGroup THEN "addAllUsers" ELSE "joinAllUsers"])
  /\ UNCHANGED <<groups, attr, member, inMovie>>

AddAllUsers(u) ==
  /\ At(u, "addAllUsers")
  /\ AddGroup(AllUsers)
  /\ HGoto(u, [at |-> "joinAllUsers"])
  /\ UNCHANGED <<member, inMovie>>

JoinAllUsers(u) ==
  /\ At(u, "joinAllUsers")
  /\ JoinRoom(AllUsers, u)
  /\ HGoto(u, [at |-> "setMovieID"])
  /\ UNCHANGED <<groups, attr, inMovie>>

SetMovieID(u) ==
  /\ At(u, "setMovieID")
  /\ inMovie' = inMovie \cup {u}
  /\ HGoto(u, Idle)
  /\ UNCHANGED <<groups, attr, member>>

-----------------------------------------------------------------------------
(* The group commands.  Without #movieID each of them only answers.        *)

GroupJoin(u, g) ==
  /\ At(u, "idle")
  /\ u \in inMovie
  /\ HGoto(u, [at |-> IF groups[g] = NoGroup THEN "addGroup" ELSE "checkMember", group |-> g])
  /\ UNCHANGED <<groups, attr, member, inMovie>>

AddNewGroup(u) ==
  /\ At(u, "addGroup")
  /\ AddGroup(h[u].group)
  /\ HGoto(u, [at |-> "checkMember", group |-> h[u].group])
  /\ UNCHANGED <<member, inMovie>>

\* JoinGroup: the group has been added by now, whatever the check says.
CheckMember(u) ==
  /\ At(u, "checkMember")
  /\ HGoto(u, IF <<MovieRoom, u>> \in member
             THEN [at |-> "joinGroup", group |-> h[u].group] ELSE Idle)
  /\ UNCHANGED <<groups, attr, member, inMovie>>

JoinGroup(u) ==
  /\ At(u, "joinGroup")
  /\ JoinRoom(h[u].group, u)
  /\ HGoto(u, Idle)
  /\ UNCHANGED <<groups, attr, inMovie>>

LeaveGroup(u, g) ==
  /\ At(u, "idle")
  /\ u \in inMovie
  /\ member' = member \ {<<g, u>>}
  /\ UNCHANGED <<groups, attr, inMovie, h>>

\* setAttribute and deleteAttribute (Void): GetGroup, then the write under the
\* lock of the object that was found.
GroupAttribute(u, g, v) ==
  /\ At(u, "idle")
  /\ u \in inMovie
  /\ groups[g] # NoGroup
  /\ HGoto(u, [at |-> "setAttribute", obj |-> groups[g], value |-> v])
  /\ UNCHANGED <<groups, attr, member, inMovie>>

SetAttribute(u) ==
  /\ At(u, "setAttribute")
  /\ attr' = [attr EXCEPT ![h[u].obj] = h[u].value]
  /\ HGoto(u, Idle)
  /\ UNCHANGED <<groups, member, inMovie>>

\* A teardown or a reaper removes the session of u, at any time.
RemoveSession(u) ==
  /\ member' = {m \in member : m[2] # u}
  /\ inMovie' = inMovie \ {u}
  /\ UNCHANGED <<groups, attr, h>>

MgNext ==
  \E u \in User :
    \/ JoinMovie(u) \/ GetAllUsers(u) \/ AddAllUsers(u) \/ JoinAllUsers(u) \/ SetMovieID(u)
    \/ AddNewGroup(u) \/ CheckMember(u) \/ JoinGroup(u)
    \/ SetAttribute(u) \/ RemoveSession(u)
    \/ \E g \in Group :
         \/ GroupJoin(u, g) \/ LeaveGroup(u, g)
         \/ \E v \in Value \cup {Void} : GroupAttribute(u, g, v)

MgSpec == MgInit /\ [][MgNext]_mgVars

-----------------------------------------------------------------------------
\* A user in the room of a group can use the group: the object its attributes
\* live in exists, although it is created in one step, joined in another and
\* looked up in a third, and other users create it at the same time.
RoomHasGroup ==
  \A g \in Group, u \in User : <<g, u>> \in member => groups[g] # NoGroup

\* "Benign race ... harmless because AddGroup overwrites with an identical group
\* (idempotent)" (movie.go): replacing @AllUsers keeps its attributes.
OverwriteIsIdentical ==
  [][groups[AllUsers] # NoGroup /\ groups'[AllUsers] # groups[AllUsers]
     => attr'[groups'[AllUsers]] = attr[groups[AllUsers]]]_mgVars
=============================================================================
