----------------------------- MODULE Scheduler ------------------------------
(***************************************************************************)
(* Scheduled jobs: discovery of the job scripts                            *)
(* (internal/adapters/inbound/job_discovery.go) and the scheduler that     *)
(* runs each of them on a ticker of its own in a goroutine of its own      *)
(* (scheduler.go).  Stop closes a channel and waits for the goroutines,    *)
(* some of which are in the middle of a script or have a tick waiting.     *)
(*                                                                         *)
(* A file of the jobs directory is a record: whether it is a *.lua file,   *)
(* whether the script engine resolves its name, and its lines, each a job  *)
(* header or other text.                                                   *)
(***************************************************************************)
EXTENDS Integers, Sequences

CONSTANTS
  SFile,         \* the names in the jobs directory
  SDir,          \* SDir[f]: the file, as described above
  HeaderLines,   \* how many lines are searched for the header (20)
  Text           \* a line that is not a job header

\* The header of a job: its interval in seconds, and whether it is enabled.
JobHeader == [interval : Int, enabled : BOOLEAN]

ASSUME DirAssumption ==
  /\ Text \notin JobHeader
  /\ HeaderLines \in Nat
  /\ \A f \in SFile : SDir[f].lines \in Seq(JobHeader \cup {Text})

VARIABLES
  jobAt,     \* jobAt[f]: where the goroutine of the job is
  jobTick,   \* jobTick[f]: ticks in its ticker's channel of one place
  schedDone, \* the channel done is closed
  stopper    \* where the caller of Stop is

sVars == <<jobAt, jobTick, schedDone, stopper>>

-----------------------------------------------------------------------------
(* Discovery.                                                              *)

\* The first header among the first lines, or Text.
parseJobHeader(lines) ==
  LET found == {i \in 1..Len(lines) : i <= HeaderLines /\ lines[i] # Text}
  IN IF found = {} THEN Text ELSE lines[CHOOSE i \in found : \A j \in found : i <= j]

DiscoverJobs ==
  {f \in SFile :
     /\ SDir[f].lua
     /\ LET header == parseJobHeader(SDir[f].lines)
        IN header # Text /\ header.enabled /\ header.interval > 0}

\* NewScheduler checks again what it was given: the interval and the script.
Runnable ==
  {f \in DiscoverJobs : parseJobHeader(SDir[f].lines).interval > 0 /\ SDir[f].hasScript}

SInit ==
  /\ jobAt = [f \in SFile |-> IF f \in Runnable THEN "select" ELSE "none"]
  /\ jobTick = [f \in SFile |-> 0]
  /\ schedDone = FALSE
  /\ stopper = "idle"

-----------------------------------------------------------------------------
(* runJobLoop, one goroutine per job.                                      *)

JobTicks(f) ==
  /\ jobAt[f] \in {"select", "running"}
  /\ jobTick' = [jobTick EXCEPT ![f] = 1]
  /\ UNCHANGED <<jobAt, schedDone, stopper>>

RunJob(f) ==
  /\ jobAt[f] = "select" /\ jobTick[f] = 1
  /\ jobAt' = [jobAt EXCEPT ![f] = "running"]
  /\ jobTick' = [jobTick EXCEPT ![f] = 0]
  /\ UNCHANGED <<schedDone, stopper>>

\* The script returns, fails or panics: the panic is recovered in runJob and
\* the loop goes on in every case.
JobReturns(f) ==
  /\ jobAt[f] = "running"
  /\ jobAt' = [jobAt EXCEPT ![f] = "select"]
  /\ UNCHANGED <<jobTick, schedDone, stopper>>

\* done is closed: wg.Done and the deferred ticker.Stop.
JobLoopReturns(f) ==
  /\ jobAt[f] = "select" /\ schedDone
  /\ jobAt' = [jobAt EXCEPT ![f] = "returned"]
  /\ jobTick' = [jobTick EXCEPT ![f] = 0]
  /\ UNCHANGED <<schedDone, stopper>>

-----------------------------------------------------------------------------
CloseDone ==
  /\ stopper = "idle" /\ stopper' = "waiting"
  /\ schedDone' = TRUE
  /\ UNCHANGED <<jobAt, jobTick>>

MutWaitGroupSkipped ==
  /\ stopper = "waiting" /\ stopper' = "stopped"
  /\ UNCHANGED <<jobAt, jobTick, schedDone>>

\* wg.Wait: Start added one for every runnable job.
WaitGroupZero ==
  /\ stopper = "waiting" /\ stopper' = "stopped"
  /\ \A f \in Runnable : jobAt[f] = "returned"
  /\ UNCHANGED <<jobAt, jobTick, schedDone>>

SNext ==
  \/ \E f \in SFile : JobTicks(f) \/ RunJob(f) \/ JobReturns(f) \/ JobLoopReturns(f)
  \/ CloseDone \/ WaitGroupZero

SSpec == SInit /\ [][SNext]_sVars

-----------------------------------------------------------------------------
\* What a file must be for its job to run, told from its lines alone.
Scheduled(f) ==
  /\ SDir[f].lua /\ SDir[f].hasScript
  /\ \E i \in 1..Len(SDir[f].lines) :
       /\ i <= HeaderLines /\ SDir[f].lines[i] # Text
       /\ \A j \in 1..(i - 1) : SDir[f].lines[j] = Text
       /\ SDir[f].lines[i].enabled /\ SDir[f].lines[i].interval > 0

\* The jobs that run are the scheduled ones, and when Stop returns none of them
\* is running and none will run again, not even for a tick that was waiting:
\* main closes the cache, the session store and the database after it.
JobsRunAsScheduled ==
  \A f \in SFile : /\ Scheduled(f) <=> jobAt[f] # "none"
                   /\ stopper = "stopped" => jobAt[f] \in {"none", "returned"}
=============================================================================
