--------------------------- MODULE MCBackground -----------------------------
(***************************************************************************)
(* Small instances of the components that every request passes or that     *)
(* work in the background: the connection pool, kill timers, idle checker, *)
(* job scheduler, rate limiter, logger and the three message queues.  They *)
(* share no state, so a behaviour is one of theirs: its first state        *)
(* chooses which, and the others stand still.                              *)
(***************************************************************************)
EXTENDS TimerManager, IdleChecker, Scheduler, RateLimiter, FileLogger,
        MemoryQueue, RedisQueue, RabbitQueue, ConnCallers, TLC

CONSTANTS k1, k2, a1, u1

VARIABLE which

backgroundVars == <<which, callerVars, kVars, iVars, sVars, rVars, lVars, mqVars, rqVars, bqVars>>

\* The jobs directory: two jobs that run, one disabled, one whose header comes
\* after the lines that are searched, one of interval 0 whose second header
\* does not count, one the engine does not find, one that is not a script.
MCDir ==
  LET file(isLua, known, text) == [lua |-> isLua, hasScript |-> known, lines |-> text]
      job(n, on) == [interval |-> n, enabled |-> on]
  IN [backup  |-> file(TRUE, TRUE, <<Text, job(5, TRUE)>>),
      ranking |-> file(TRUE, TRUE, <<job(5, TRUE), job(0, FALSE)>>),
      off     |-> file(TRUE, TRUE, <<job(5, FALSE)>>),
      late    |-> file(TRUE, TRUE, <<Text, Text, job(5, TRUE)>>),
      zero    |-> file(TRUE, TRUE, <<job(0, TRUE), job(5, TRUE)>>),
      unknown |-> file(TRUE, FALSE, <<job(5, TRUE)>>),
      notes   |-> file(FALSE, TRUE, <<job(5, TRUE)>>)]

MCFile == DOMAIN MCDir

\* The second socket's address is also the user id that a Logon asks for, so that
\* its Register may take the id of the first.
MCAddr == k1 :> a1 @@ k2 :> u1

BackgroundInit ==
  /\ which \in {"pool", "timers", "idle", "jobs", "rate", "log", "memoryQueue", "redisQueue", "rabbitQueue"}
  /\ CallersInit /\ KInit /\ IInit /\ SInit /\ RInit /\ LInit /\ MQInit /\ RQInit /\ BQInit

Pool   == which = "pool" /\ CallersNext
          /\ UNCHANGED <<which, kVars, iVars, sVars, rVars, lVars, mqVars, rqVars, bqVars>>
Timers == which = "timers" /\ KNext
          /\ UNCHANGED <<which, callerVars, iVars, sVars, rVars, lVars, mqVars, rqVars, bqVars>>
Checks == which = "idle" /\ INext
          /\ UNCHANGED <<which, callerVars, kVars, sVars, rVars, lVars, mqVars, rqVars, bqVars>>
Jobs   == which = "jobs" /\ SNext
          /\ UNCHANGED <<which, callerVars, kVars, iVars, rVars, lVars, mqVars, rqVars, bqVars>>
Rate   == which = "rate" /\ RNext
          /\ UNCHANGED <<which, callerVars, kVars, iVars, sVars, lVars, mqVars, rqVars, bqVars>>
Log    == which = "log" /\ LNext
          /\ UNCHANGED <<which, callerVars, kVars, iVars, sVars, rVars, mqVars, rqVars, bqVars>>
MemQ   == which = "memoryQueue" /\ MQNext
          /\ UNCHANGED <<which, callerVars, kVars, iVars, sVars, rVars, lVars, rqVars, bqVars>>
RedQ   == which = "redisQueue" /\ RQNext
          /\ UNCHANGED <<which, callerVars, kVars, iVars, sVars, rVars, lVars, mqVars, bqVars>>
RabQ   == which = "rabbitQueue" /\ BQNext
          /\ UNCHANGED <<which, callerVars, kVars, iVars, sVars, rVars, lVars, mqVars, rqVars>>

BackgroundNext ==
  Pool \/ Timers \/ Checks \/ Jobs \/ Rate \/ Log \/ MemQ \/ RedQ \/ RabQ

\* The idle checker's goroutine is scheduled, its ticker ticks while it runs, and
\* the store does not fail for ever.  The fairness of the pool's callers is that of
\* CallersSpec.
BackgroundFairness ==
  /\ WF_iVars(which = "idle" /\ CheckerStep) /\ WF_iVars(which = "idle" /\ TickerFires)
  /\ SF_iVars(which = "idle" /\ GetAllConnections)
  /\ \A w \in Caller :
       /\ SF_callerVars(which = "pool" /\ WriteLock(w))
       /\ WF_callerVars(which = "pool" /\ WriteFails(w))
       /\ WF_callerVars(which = "pool" /\ DisconnectClose(w))

BackgroundSpec == BackgroundInit /\ [][BackgroundNext]_backgroundVars /\ BackgroundFairness
=============================================================================
