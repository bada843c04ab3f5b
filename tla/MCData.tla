------------------------------ MODULE MCData --------------------------------
(***************************************************************************)
(* What the server keeps: the caches and their users, the database with    *)
(* its migrations, commands and transactions, and the permissions that     *)
(* guard the commands.  The first state chooses one of them; the others    *)
(* stay as they are.                                                       *)
(***************************************************************************)
EXTENDS RedisCache, TokenStore, BanChecker, Migrations, DBCommands, Permissions, Transactions

VARIABLE part

Part ==
  {"cache", "redis", "tokens", "bans", "migrations", "commands", "permissions", "scripts", "savepoints"}

tokenVars == <<payload, callVars>>
banVars == <<banned, dbUp, ask, askKey, found>>

DataInit ==
  /\ part \in Part
  /\ MCInit /\ RCInit /\ TSInit /\ BCInit /\ MgInit /\ DBInit /\ PeInit /\ TxInit
  \* the parts that begin in several states do so in their own behaviours
  /\ part # "migrations" => atomic /\ tracker = {}
  \* both levels are configured, lower than by default; so is an unlisted one
  /\ env = [c \in Command |-> IF c = "DBAdmin.createUser" THEN 1 ELSE 0]

Cache == part = "cache" /\ MCNext
  /\ UNCHANGED <<part, rcVars, tsVars, banVars, mgVars, dbVars, peVars, txVars>>
RedisAdapter == part = "redis" /\ RCNext
  /\ UNCHANGED <<part, mcVars, tsVars, banVars, mgVars, dbVars, peVars, txVars>>
Tokens == part = "tokens" /\ TSNext
  /\ UNCHANGED <<part, rcVars, mcVars, banVars, mgVars, dbVars, peVars, txVars>>
Bans == part = "bans" /\ BCNext
  /\ UNCHANGED <<part, rcVars, mcVars, tokenVars, mgVars, dbVars, peVars, txVars>>
Migrate == part = "migrations" /\ MgNext
  /\ UNCHANGED <<part, rcVars, mcVars, tsVars, banVars, dbVars, peVars, txVars>>
Commands == part = "commands" /\ DBNext
  /\ UNCHANGED <<part, rcVars, mcVars, tsVars, banVars, mgVars, peVars, txVars>>
Permit == part = "permissions" /\ PeNext
  /\ UNCHANGED <<part, rcVars, mcVars, tsVars, banVars, mgVars, dbVars, txVars>>
ScriptTransactions == part = "scripts" /\ TxNext
  /\ UNCHANGED <<part, rcVars, mcVars, tsVars, banVars, mgVars, dbVars, peVars>>
Savepoints == part = "savepoints" /\ SavepointNext
  /\ UNCHANGED <<part, rcVars, mcVars, tsVars, banVars, mgVars, dbVars, peVars>>

DataNext ==
  Cache \/ RedisAdapter \/ Tokens \/ Bans \/ Migrate \/ Commands \/ Permit \/ ScriptTransactions \/ Savepoints

dataVars == <<part, mcVars, rcVars, tsVars, banVars, mgVars, dbVars, peVars, txVars>>

DataFairness ==
  /\ WF_bcVars(part = "bans" /\ BCTick)
  /\ \A v \in BCall : WF_bcVars(part = "bans" /\ BCStep(v))

DataSpec == DataInit /\ [][DataNext]_dataVars /\ DataFairness
=============================================================================
