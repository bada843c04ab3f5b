----------------------------- MODULE TCPServer ------------------------------
(***************************************************************************)
(* The accept loop, the connection goroutines and the graceful shutdown of *)
(* the TCP server (internal/adapters/inbound/tcp_server.go).  Shutdown     *)
(* runs in main while the accept loop may hold a socket it has not yet     *)
(* handed to a goroutine and while goroutines have not yet registered      *)
(* theirs; CloseAll closes only the sockets it finds in the pool.          *)
(*                                                                         *)
(* A goroutine is followed from wg.Add to wg.Done; what it does with its   *)
(* messages is the business of SessionLifecycle.  The pool is the set of   *)
(* registered sockets.                                                     *)
(***************************************************************************)
EXTENDS Naturals

CONSTANTS
  Conn,      \* sockets that clients open
  NoConn     \* the accept loop holds no socket

ASSUME NoConnAssumption == NoConn \notin Conn

VARIABLES
  loop,      \* where the accept loop is
  hand,      \* the socket it has accepted and not yet handed over
  at,        \* at[c]: where the goroutine of socket c is
  open,      \* sockets neither side has closed
  pool,      \* sockets registered in the pool
  wg,        \* the counter of the WaitGroup
  main,      \* where Shutdown is
  swept      \* the sockets CloseAll found in the pool

vars == <<loop, hand, at, open, pool, wg, main, swept>>
connVars == <<at, open, pool, wg>>

Init ==
  /\ loop = "select" /\ hand = NoConn
  /\ at = [c \in Conn |-> "new"]
  /\ open = {} /\ pool = {}
  /\ wg = 0
  /\ main = "serving"
  /\ swept = {}

Goto(c, from, to) == at[c] = from /\ at' = [at EXCEPT ![c] = to]

ShutdownClosed == main # "serving"
ListenerClosed == main \notin {"serving", "closing"}

-----------------------------------------------------------------------------
(* Start: the accept loop.                                                 *)

\* select { case <-s.shutdown: return; default: Accept }
Select ==
  /\ loop = "select"
  /\ loop' = IF ShutdownClosed THEN "returned" ELSE "accept"
  /\ UNCHANGED <<hand, connVars, main, swept>>

\* Accept returns a socket.
AcceptConn(c) ==
  /\ loop = "accept" /\ ~ListenerClosed
  /\ Goto(c, "new", "accepted")
  /\ loop' = "spawn" /\ hand' = c
  /\ open' = open \cup {c}
  /\ UNCHANGED <<pool, wg, main, swept>>

\* Accept fails: because the listener is closed, or for a reason of its own,
\* which is logged and retried.
AcceptFails ==
  /\ loop = "accept"
  /\ loop' = IF ShutdownClosed THEN "returned" ELSE "select"
  /\ UNCHANGED <<hand, connVars, main, swept>>

\* An unreadable or banned remote address: the loop closes the socket.
Reject ==
  /\ loop = "spawn"
  /\ Goto(hand, "accepted", "done")
  /\ loop' = "select" /\ hand' = NoConn
  /\ open' = open \ {hand}
  /\ UNCHANGED <<pool, wg, main, swept>>

\* wg.Add(1); go s.handleConnection(conn, host)
Spawn ==
  /\ loop = "spawn"
  /\ Goto(hand, "accepted", "start")
  /\ loop' = "select" /\ hand' = NoConn
  /\ wg' = wg + 1
  /\ UNCHANGED <<open, pool, main, swept>>

-----------------------------------------------------------------------------
(* handleConnection.                                                       *)

Register(c) ==
  /\ Goto(c, "start", "reading")
  /\ pool' = pool \cup {c}
  /\ UNCHANGED <<loop, hand, open, wg, main, swept>>

\* The read loop ends: the read fails, a frame is malformed, a write fails or a
\* handler panics.  The deferred teardown unregisters the socket first.
Unregister(c) ==
  /\ Goto(c, "reading", "flush")
  /\ pool' = pool \ {c}
  /\ UNCHANGED <<loop, hand, open, wg, main, swept>>

\* onDisconnect and the removal of the session.
Flush(c) ==
  /\ Goto(c, "flush", "close")
  /\ UNCHANGED <<loop, hand, open, pool, wg, main, swept>>

Close(c) ==
  /\ Goto(c, "close", "exit")
  /\ open' = open \ {c}
  /\ UNCHANGED <<loop, hand, pool, wg, main, swept>>

\* The first defer runs last: wg.Done()
Done(c) ==
  /\ Goto(c, "exit", "done")
  /\ wg' = wg - 1
  /\ UNCHANGED <<loop, hand, open, pool, main, swept>>

PeerCloses(c) ==
  /\ c \in open
  /\ open' = open \ {c}
  /\ UNCHANGED <<loop, hand, at, pool, wg, main, swept>>

-----------------------------------------------------------------------------
(* Shutdown, called by main when a signal arrives or the server's kill     *)
(* timer has fired.                                                        *)

CloseShutdown ==
  /\ main = "serving" /\ main' = "closing"
  /\ UNCHANGED <<loop, hand, connVars, swept>>

CloseListener ==
  /\ main = "closing" /\ main' = "closeAll"
  /\ UNCHANGED <<loop, hand, connVars, swept>>

MutCloseAllForgets ==
  /\ main = "closeAll" /\ main' = "waiting"
  /\ swept' = pool
  /\ pool' = {}
  /\ UNCHANGED <<loop, hand, at, open, wg>>

CloseAll ==
  /\ main = "closeAll" /\ main' = "waiting"
  /\ swept' = pool
  /\ open' = open \ pool
  /\ UNCHANGED <<loop, hand, at, pool, wg>>

MutWaitSkipped ==
  /\ main = "waiting" /\ main' = "complete"
  /\ UNCHANGED <<loop, hand, connVars, swept>>

\* s.wg.Wait() returns.
Wait ==
  /\ main = "waiting" /\ wg = 0 /\ main' = "complete"
  /\ UNCHANGED <<loop, hand, connVars, swept>>

-----------------------------------------------------------------------------
LoopStep == Select \/ AcceptFails \/ Reject \/ Spawn
ConnStep(c) == Register(c) \/ Flush(c) \/ Close(c) \/ Done(c)
MainStep == CloseListener \/ CloseAll \/ Wait

Next ==
  \/ LoopStep \/ MainStep \/ CloseShutdown
  \/ \E c \in Conn : AcceptConn(c) \/ ConnStep(c) \/ Unregister(c) \/ PeerCloses(c)

Spec == Init /\ [][Next]_vars

-----------------------------------------------------------------------------
\* "all teardown paths -- idle/kill-timer/admin-delete/shutdown -- funnel through
\* here" (handleConnection): when Shutdown returns and main goes on to exit the
\* process, every connection that was in the pool has flushed its hot state
\* and dropped its session.
SweptAreFlushed ==
  main = "complete" => \A c \in swept : at[c] = "done"

\* A connection CloseAll could not see: its socket was accepted before the
\* listener was closed and it registered after the sweep.
Straggler(c) == c \in pool \ swept /\ c \in open

\* Shutdown always returns, except while a straggler keeps its socket open.
ShutdownWaitsForStragglers ==
  main = "waiting" ~> (main = "complete" \/ \E c \in Conn : Straggler(c))
=============================================================================
