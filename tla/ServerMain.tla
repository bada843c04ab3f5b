---------------------------- MODULE ServerMain ------------------------------
(***************************************************************************)
(* main (cmd/gameserver/main.go): the order in which the parts of the      *)
(* process are started, and the order in which they are stopped.  Every    *)
(* part that is started pushes a deferred Stop or Close; on a signal main  *)
(* shuts the UDP and the TCP server down itself and returns, which runs    *)
(* the deferred calls last in, first out.                                  *)
(*                                                                         *)
(* Some parts are sources of work for other goroutines.  Stopping a source *)
(* keeps new work from starting; only the TCP server and the scheduler     *)
(* wait for work under way, and the two HTTP servers wait for five seconds.*)
(***************************************************************************)
EXTENDS Naturals, Sequences

CONSTANT Configurations     \* the sets of optional parts that may be configured

VARIABLES
  optional,   \* the optional parts of this configuration
  boot,       \* how many parts main has been through
  defers,     \* the deferred calls, by the part they stop
  running,    \* sources that may start work
  starting,   \* HTTP servers whose Start has not set s.server yet
  busy,       \* sources with work under way
  stage,      \* where main is
  unwaited,   \* sources with work that main does not wait for any more
  inHand      \* the accept loop holds a socket from before the listener was closed

smVars == <<optional, boot, defers, running, starting, busy, stage, unwaited, inHand>>

MutServesBeforeCache == <<"db", "migrations", "cipher", "sessions", "queue", "http", "cache",
                          "consumers", "timers", "handler", "limiter", "metrics", "tcp", "idle",
                          "jobs", "udp", "console">>

BootOrder == <<"db", "migrations", "cipher", "sessions", "queue", "cache", "consumers",
               "timers", "handler", "limiter", "metrics", "http", "tcp", "idle", "jobs",
               "udp", "console">>
Optional == {"limiter", "metrics", "http", "idle", "jobs", "udp"}

\* Without a deferred call: some have nothing to stop, the consumers end with the
\* queue, the console with the process, and main names the TCP and UDP servers.
NotDeferred == {"migrations", "cipher", "consumers", "handler", "console", "tcp", "udp"}
StartedInGoroutine == {"metrics", "http"}

\* The parts whose failure is Fatal, which exits the process on the spot.
MayBeFatal == {"db", "migrations", "cipher", "sessions", "queue", "cache", "handler",
               "tcp", "udp"}

\* What the work of a source uses of the parts that are closed at the end.
Needs == [consumers |-> {"db", "sessions", "queue", "cache"}, timers |-> {"sessions"},
          metrics |-> {"sessions"}, http |-> {"db", "queue", "cache"},
          tcp |-> {"db", "sessions", "queue", "cache"}, idle |-> {"sessions"},
          jobs |-> {"db", "sessions", "queue", "cache"},
          udp |-> {"db", "sessions", "queue", "cache"}, console |-> {"db"}]
Source == DOMAIN Needs

SmInit ==
  /\ optional \in Configurations
  /\ boot = 0 /\ defers = <<>>
  /\ running = {} /\ starting = {} /\ busy = {} /\ unwaited = {} /\ inHand = FALSE
  /\ stage = "boot"

-----------------------------------------------------------------------------
(* Starting.                                                               *)

Part == BootOrder[boot + 1]

StartPart ==
  /\ stage = "boot" /\ boot < Len(BootOrder)
  /\ Part \notin Optional \ optional
  /\ boot' = boot + 1
  /\ defers' = IF Part \in NotDeferred THEN defers ELSE Append(defers, Part)
  /\ IF Part \in StartedInGoroutine
     THEN starting' = starting \cup {Part} /\ UNCHANGED running
     ELSE running' = running \cup ({Part} \cap Source) /\ UNCHANGED starting
  /\ UNCHANGED <<optional, busy, stage, unwaited, inHand>>

SkipPart ==
  /\ stage = "boot" /\ boot < Len(BootOrder)
  /\ Part \in Optional \ optional
  /\ boot' = boot + 1
  /\ UNCHANGED <<optional, defers, running, starting, busy, stage, unwaited, inHand>>

\* logger.Fatal: os.Exit runs no deferred call and ends every goroutine.
StartFails ==
  /\ stage = "boot" /\ boot < Len(BootOrder)
  /\ Part \in MayBeFatal \ (Optional \ optional)
  /\ stage' = "fatal"
  /\ running' = {} /\ starting' = {} /\ busy' = {}
  /\ UNCHANGED <<optional, boot, defers, unwaited, inHand>>

BootDone ==
  /\ stage = "boot" /\ boot = Len(BootOrder)
  /\ stage' = "serving"
  /\ UNCHANGED <<optional, boot, defers, running, starting, busy, unwaited, inHand>>

\* The goroutine of an HTTP server sets s.server and listens, or cannot.
ServerStarts(p) ==
  /\ p \in starting
  /\ starting' = starting \ {p}
  /\ running' \in {running, running \cup {p}}
  /\ UNCHANGED <<optional, boot, defers, busy, stage, unwaited, inHand>>

-----------------------------------------------------------------------------
(* Work: connections, packets, requests, callbacks, jobs, commands.        *)

WorkStarts(a) ==
  /\ a \in running
  /\ busy' = busy \cup {a}
  /\ UNCHANGED <<optional, boot, defers, running, starting, stage, unwaited, inHand>>

WorkEnds(a) ==
  /\ a \in busy
  /\ busy' = busy \ {a}
  /\ UNCHANGED <<optional, boot, defers, running, starting, stage, unwaited, inHand>>

-----------------------------------------------------------------------------
(* Stopping.                                                               *)

\* <-c: an interrupt, SIGTERM or the server's kill timer; then
\* udpServer.Shutdown(), which does not wait for the packet being handled.
ShutdownUDP ==
  /\ stage = "serving" /\ stage' = "tcp"
  /\ running' = running \ {"udp"}
  /\ UNCHANGED <<optional, boot, defers, starting, busy, unwaited, inHand>>

\* server.Shutdown() closes the listener and the connections of the pool.  The
\* accept loop may be looking up the ban of a socket it took just before.
ShutdownTCP ==
  /\ stage = "tcp" /\ stage' = "tcpWait"
  /\ running' = running \ {"tcp"}
  /\ inHand' \in BOOLEAN
  /\ UNCHANGED <<optional, boot, defers, starting, busy, unwaited>>

\* The accept loop refuses that socket, or starts its goroutine: wg.Add(1) counts
\* for Shutdown only while its Wait has not returned.
LateConnection ==
  /\ inHand /\ inHand' = FALSE
  /\ \/ UNCHANGED <<busy, unwaited>>
     \/ /\ busy' = busy \cup {"tcp"}
        /\ unwaited' = IF stage = "tcpWait" THEN unwaited ELSE unwaited \cup {"tcp"}
  /\ UNCHANGED <<optional, boot, defers, running, starting, stage>>

\* It waits for the goroutines of the connections.
TCPDone ==
  /\ stage = "tcpWait" /\ "tcp" \notin busy /\ stage' = "defers"
  /\ UNCHANGED <<optional, boot, defers, running, starting, busy, unwaited, inHand>>

NextDeferred == defers[Len(defers)]
OtherDeferred == SubSeq(defers, 1, Len(defers) - 1)

WaitsForWork == {"jobs", "http", "metrics"}

\* The next deferred call.  Closing the queue also ends its consumers.  An HTTP
\* server that has not set s.server yet is not stopped.
Deferred ==
  LET p == NextDeferred IN
  /\ stage = "defers" /\ defers # <<>>
  /\ running' = running \ (IF p = "queue" THEN {"consumers"} ELSE {p})
  /\ IF p \in WaitsForWork /\ p \in busy
     THEN stage' = "stopWait" /\ UNCHANGED defers
     ELSE defers' = OtherDeferred /\ UNCHANGED stage
  /\ UNCHANGED <<optional, boot, starting, busy, unwaited, inHand>>

WorkDone ==
  LET p == NextDeferred IN
  /\ stage = "stopWait" /\ p \notin busy
  /\ stage' = "defers" /\ defers' = OtherDeferred
  /\ UNCHANGED <<optional, boot, running, starting, busy, unwaited, inHand>>

\* srv.Shutdown(ctx) returns when its five seconds are over.
WaitTimesOut ==
  /\ stage = "stopWait" /\ NextDeferred \in StartedInGoroutine
  /\ stage' = "defers" /\ defers' = OtherDeferred
  /\ unwaited' = unwaited \cup {NextDeferred}
  /\ UNCHANGED <<optional, boot, running, starting, busy, inHand>>

\* main returns: the process ends with whatever is still running.
MainReturns ==
  /\ stage = "defers" /\ defers = <<>> /\ stage' = "exited"
  /\ running' = {} /\ starting' = {} /\ busy' = {} /\ inHand' = FALSE
  /\ UNCHANGED <<optional, boot, defers, unwaited>>

-----------------------------------------------------------------------------
StopStep == ShutdownTCP \/ LateConnection \/ TCPDone \/ Deferred \/ WorkDone \/ WaitTimesOut \/ MainReturns

SmNext ==
  \/ StartPart \/ SkipPart \/ StartFails \/ BootDone \/ ShutdownUDP \/ StopStep
  \/ \E p \in StartedInGoroutine : ServerStarts(p)
  \/ \E a \in Source : WorkStarts(a) \/ WorkEnds(a)

SmSpec == SmInit /\ [][SmNext]_smVars

-----------------------------------------------------------------------------
Opened == {defers[i] : i \in 1..Len(defers)}

\* Work that main waits for: connections, unless one started after the Wait of
\* Shutdown returned; jobs; and requests of an HTTP server, unless its Shutdown gave
\* up on them or came before its Start.
WaitedFor(a) ==
  \/ a \in {"tcp", "jobs"} \ unwaited
  \/ a \in StartedInGoroutine \ unwaited /\ (a \in running => a \in Opened)

\* The order of main's defers: a connection, a job or a request never runs before the
\* database, the session store, the queue and the cache are there, nor, if main
\* waits for it, after one of them is closed.  Packets, timers, queue handlers, an
\* idle check and console commands have no such promise, and neither has the
\* connection that the accept loop held when Shutdown found nothing to wait for:
\* its goroutine starts while main closes the parts (tcp_server.go:137-149, 316).
WaitedFindOpen == \A a \in busy : WaitedFor(a) => Needs[a] \subseteq Opened
=============================================================================
