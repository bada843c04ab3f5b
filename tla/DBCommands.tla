----------------------------- MODULE DBCommands -----------------------------
(***************************************************************************)
(* The database commands of clients (DBPlayer, DBApplication, DBAdmin:     *)
(* internal/adapters/inbound/mus/system_service_db_*.go) and of scripts    *)
(* (mus.db in lua_db_module.go), run at once over the storage core         *)
(* (sql_db.go) and its schema (external/migrations).  A command that names *)
(* an application or a user looks its id up in one statement and uses the  *)
(* id in later ones; each statement is atomic, takes any connection of the *)
(* pool, and may fail.  Whether the sender may run the command is checked  *)
(* before (Permissions); a refused command does nothing.                   *)
(***************************************************************************)
EXTENDS Integers, FiniteSets

CONSTANTS
  DApp, DUser,   \* names
  DConn,         \* connections of the pool
  DCmd,          \* commands being handled
  Free, NoUser,
  MaxId          \* bound: ids handed out per table

ASSUME DBAssumption == Free \notin [id : Nat, born : Nat]

VARIABLES
  apps,       \* apps[a]: the row of the application with that name, or Free
  users,      \* users[u]: the row of the user with that name, or Free
  attrs,      \* rows of application_attributes (user = NoUser) and player_attributes
  bans,       \* rows of bans
  lastId,     \* lastId[t]: how many rows table t ever had
  cmd         \* cmd[h]: the command: the row it looked up, and what it found since

dbVars == <<apps, users, attrs, bans, lastId, cmd>>

\* A row of a parent table: its id, and which creation it stems from, which
\* the database does not know.
DBInit ==
  /\ apps = [a \in DApp |-> Free] /\ users = [u \in DUser |-> Free]
  /\ attrs = {} /\ bans = {}
  /\ lastId = [t \in {"apps", "users", "bans"} |-> 0]
  /\ cmd = [h \in DCmd |-> Free]

Rows(table) == {table[n] : n \in DOMAIN table} \ {Free}
HasId(table, id) == \E r \in Rows(table) : r.id = id

MutSmallestFreeId(table, t) ==
  CHOOSE i \in 1 .. MaxId + 1 : ~HasId(table, i) /\ \A j \in 1 .. (i - 1) : HasId(table, j)

\* AUTOINCREMENT, BIGSERIAL: never an id that was used before.
NewId(table, t) == lastId[t] + 1

\* The DSN turns foreign keys on for every connection.
Enforced(c) == c \in DConn

-----------------------------------------------------------------------------
(* Statements that are whole commands.                                     *)

CreateApplication(a) ==
  /\ apps[a] = Free /\ lastId["apps"] < MaxId
  /\ apps' = [apps EXCEPT ![a] = [id |-> NewId(apps, "apps"), born |-> lastId["apps"] + 1]]
  /\ lastId' = [lastId EXCEPT !["apps"] = @ + 1]
  /\ UNCHANGED <<users, attrs, bans, cmd>>

\* With foreign keys on, the attributes of the application go with it.
DeleteApplication(a, c) ==
  /\ apps[a] # Free
  /\ apps' = [apps EXCEPT ![a] = Free]
  /\ attrs' = IF Enforced(c) THEN {r \in attrs : r.app # apps[a].id} ELSE attrs
  /\ UNCHANGED <<users, bans, lastId, cmd>>

CreateUser(u) ==
  /\ users[u] = Free /\ lastId["users"] < MaxId
  /\ users' = [users EXCEPT ![u] = [id |-> NewId(users, "users"), born |-> lastId["users"] + 1]]
  /\ lastId' = [lastId EXCEPT !["users"] = @ + 1]
  /\ UNCHANGED <<apps, attrs, bans, cmd>>

\* Bans refer to the user by id; player_attributes hold the name, and stay for
\* whoever is created under it next.
DeleteUser(u, c) ==
  /\ users[u] # Free
  /\ users' = [users EXCEPT ![u] = Free]
  /\ bans' = IF Enforced(c) THEN {b \in bans : b.user # users[u].id} ELSE bans
  /\ UNCHANGED <<apps, attrs, lastId, cmd>>

-----------------------------------------------------------------------------
(* Attributes: getAppID, and then the statement with the id.               *)

AttrOp == {"get", "set", "delete"}
Finish(h) == cmd' = [cmd EXCEPT ![h] = Free]

GetAppID(h, op, a, u) ==
  /\ cmd[h] = Free /\ apps[a] # Free
  /\ cmd' = [cmd EXCEPT ![h] = [op |-> op, row |-> apps[a], user |-> u, found |-> 0]]
  /\ UNCHANGED <<apps, users, attrs, bans, lastId>>

\* The upsert, or the error of its foreign key.
SetAttribute(h, c) ==
  /\ cmd[h] # Free /\ cmd[h].op = "set" /\ Finish(h)
  /\ attrs' = IF Enforced(c) /\ ~HasId(apps, cmd[h].row.id) THEN attrs
              ELSE {r \in attrs : r.app # cmd[h].row.id \/ r.user # cmd[h].user}
                     \cup {[app |-> cmd[h].row.id, user |-> cmd[h].user, born |-> cmd[h].row.born]}
  /\ UNCHANGED <<apps, users, bans, lastId>>

DeleteAttribute(h) ==
  /\ cmd[h] # Free /\ cmd[h].op = "delete" /\ Finish(h)
  /\ attrs' = {r \in attrs : r.app # cmd[h].row.id \/ r.user # cmd[h].user}
  /\ UNCHANGED <<apps, users, bans, lastId>>

\* scanAttribute: the value, or void; the answer is kept until the next step
\* of the command sends it.
GetAttribute(h) ==
  /\ cmd[h] # Free /\ cmd[h].op = "get"
  /\ LET matches == {r \in attrs : r.app = cmd[h].row.id /\ r.user = cmd[h].user} IN
     cmd' = [cmd EXCEPT ![h].op = "answer", ![h].found = IF matches = {} THEN 0 ELSE (CHOOSE r \in matches : TRUE).born]
  /\ UNCHANGED <<apps, users, attrs, bans, lastId>>

-----------------------------------------------------------------------------
(* Bans: GetUser, then CreateBan; or GetActiveBanByUserID, then RevokeBan. *)

GetUser(h, op, u) ==
  /\ cmd[h] = Free /\ users[u] # Free
  /\ cmd' = [cmd EXCEPT ![h] = [op |-> op, row |-> users[u], user |-> u, found |-> 0]]
  /\ UNCHANGED <<apps, users, attrs, bans, lastId>>

CreateBan(h, c) ==
  /\ cmd[h] # Free /\ cmd[h].op = "ban" /\ Finish(h)
  /\ lastId["bans"] < MaxId
  /\ IF Enforced(c) /\ ~HasId(users, cmd[h].row.id) THEN UNCHANGED <<bans, lastId>>
     ELSE /\ bans' = bans \cup {[id |-> lastId["bans"] + 1, user |-> cmd[h].row.id,
                                 born |-> cmd[h].row.born, active |-> TRUE, lifts |-> 0]}
          /\ lastId' = [lastId EXCEPT !["bans"] = @ + 1]
  /\ UNCHANGED <<apps, users, attrs>>

\* The newest active ban by created_at, which counts seconds: of bans made in
\* one second it may be any.
GetActiveBanByUserID(h) ==
  /\ cmd[h] # Free /\ cmd[h].op = "revoke"
  /\ LET inForce == {b \in bans : b.user = cmd[h].row.id /\ b.active} IN
     IF inForce = {} THEN Finish(h)
     ELSE \E b \in inForce : cmd' = [cmd EXCEPT ![h].op = "lift", ![h].found = b.id]
  /\ UNCHANGED <<apps, users, attrs, bans, lastId>>

\* Only a ban with no revoked_at is updated; lifts counts the commands that
\* were told they had lifted it.
RevokeBan(h) ==
  /\ cmd[h] # Free /\ cmd[h].op = "lift" /\ Finish(h)
  /\ bans' = {IF b.id = cmd[h].found /\ b.active THEN [b EXCEPT !.active = FALSE, !.lifts = @ + 1] ELSE b : b \in bans}
  /\ UNCHANGED <<apps, users, attrs, lastId>>

\* A statement fails, and with it the command; or the answer is sent.
CommandEnds(h) ==
  /\ cmd[h] # Free /\ Finish(h)
  /\ UNCHANGED <<apps, users, attrs, bans, lastId>>

DBNext ==
  \/ \E a \in DApp : CreateApplication(a) \/ \E c \in DConn : DeleteApplication(a, c)
  \/ \E u \in DUser : CreateUser(u) \/ \E c \in DConn : DeleteUser(u, c)
  \/ \E h \in DCmd :
       \/ \E op \in AttrOp, a \in DApp, u \in DUser \cup {NoUser} : GetAppID(h, op, a, u)
       \/ \E op \in {"ban", "revoke"}, u \in DUser : GetUser(h, op, u)
       \/ \E c \in DConn : SetAttribute(h, c) \/ CreateBan(h, c)
       \/ DeleteAttribute(h) \/ GetAttribute(h) \/ GetActiveBanByUserID(h) \/ RevokeBan(h)
       \/ CommandEnds(h)

DBSpec == DBInit /\ [][DBNext]_dbVars

-----------------------------------------------------------------------------
\* "A DELETE served by any other connection would skip ON DELETE CASCADE and
\* orphan child rows": a row that refers to a parent by its id (an attribute to its
\* application, a ban to its user) belongs to a parent that exists, and to the very
\* creation of it that its command had looked up.  An id found before its
\* application or user was deleted and created again never reaches the new one: no
\* attribute or answer passes from an application, and no ban from a user, to
\* its successor of that name.  It does not say so of the attributes of a player:
\* player_attributes hold the user's name, without a foreign key, so what a
\* deleted user leaves there is the successor's.
NothingCrossesReCreation ==
  /\ \A r \in attrs : [id |-> r.app, born |-> r.born] \in Rows(apps)
  /\ \A b \in bans : [id |-> b.user, born |-> b.born] \in Rows(users)
  /\ \A h \in DCmd : cmd[h] # Free /\ cmd[h].op = "answer" => cmd[h].found \in {0, cmd[h].row.born}

\* Of the commands that revoke a user's ban at the same time, at most one is
\* told that it lifted it (RowsAffected).
LiftedOnce == \A b \in bans : b.lifts <= 1
=============================================================================
