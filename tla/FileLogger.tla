----------------------------- MODULE FileLogger -----------------------------
(***************************************************************************)
(* The asynchronous logger (internal/adapters/outbound/file_logger.go):    *)
(* callers put entries into a channel of bounded size without waiting, a   *)
(* goroutine writes them out, and Fatal flushes, writes its own entry from *)
(* the caller's goroutine and ends the process.                            *)
(*                                                                         *)
(* Entries that pass the level filter are numbered in the order of the     *)
(* calls; a flush is put into the channel as the name of its caller.       *)
(***************************************************************************)
EXTENDS Integers, Sequences

CONSTANTS
  LCaller,      \* goroutines that may call Fatal
  LBuffer,      \* the channel's size
  MaxEntries,   \* bound on the entries logged
  LNothing      \* the drain goroutine is waiting for an entry

ASSUME LAssumption ==
  /\ LBuffer \in Nat
  /\ \A x \in LCaller \cup {LNothing} : x \notin Nat
  /\ LNothing \notin LCaller

VARIABLES
  logCh,      \* the channel
  drainHas,   \* the entry taken by drain and not yet written, or LNothing
  logFile,    \* what has been written
  logged,     \* entries the channel accepted
  calls,      \* calls of Debug, Info, Warn or Error so far
  fatal,      \* fatal[p]: where p is in Fatal
  pending,    \* pending[p]: entries accepted when p called Fatal
  alive       \* the process has not exited

lVars == <<logCh, drainHas, logFile, logged, calls, fatal, pending, alive>>

LInit ==
  /\ logCh = <<>> /\ drainHas = LNothing /\ logFile = <<>> /\ logged = {}
  /\ calls = 0
  /\ fatal = [p \in LCaller |-> "no"]
  /\ pending = [p \in LCaller |-> {}]
  /\ alive = TRUE

-----------------------------------------------------------------------------
\* An entry below the level returns at once and changes nothing.  Any other
\* meets a select with a default: if the channel is full it is lost.
Send ==
  /\ alive /\ calls < MaxEntries
  /\ calls' = calls + 1
  /\ IF Len(logCh) < LBuffer
     THEN logCh' = Append(logCh, calls + 1) /\ logged' = logged \cup {calls + 1}
     ELSE UNCHANGED <<logCh, logged>>
  /\ UNCHANGED <<drainHas, logFile, fatal, pending, alive>>

-----------------------------------------------------------------------------
(* The drain goroutine.                                                    *)

\* It takes an entry; the channel closed for a flush frees its caller.
DrainTakes ==
  /\ alive /\ drainHas = LNothing /\ logCh # <<>>
  /\ logCh' = Tail(logCh)
  /\ IF Head(logCh) \in LCaller
     THEN fatal' = [fatal EXCEPT ![Head(logCh)] = "flushed"] /\ UNCHANGED drainHas
     ELSE drainHas' = Head(logCh) /\ UNCHANGED fatal
  /\ UNCHANGED <<logFile, logged, calls, pending, alive>>

DrainWrites ==
  /\ alive /\ drainHas # LNothing
  /\ logFile' = Append(logFile, drainHas) /\ drainHas' = LNothing
  /\ UNCHANGED <<logCh, logged, calls, fatal, pending, alive>>

-----------------------------------------------------------------------------
(* Fatal, and Flush within it.                                             *)

Fatal(p) ==
  /\ alive /\ fatal[p] = "no"
  /\ fatal' = [fatal EXCEPT ![p] = "flushing"]
  /\ pending' = [pending EXCEPT ![p] = logged]
  /\ UNCHANGED <<logCh, drainHas, logFile, logged, calls, alive>>

MutFlushWhenEmpty(p) ==
  /\ alive /\ fatal[p] = "flushing" /\ Len(logCh) < LBuffer
  /\ IF logCh = <<>> THEN fatal' = [fatal EXCEPT ![p] = "flushed"] /\ UNCHANGED logCh
     ELSE fatal' = [fatal EXCEPT ![p] = "waiting"] /\ logCh' = Append(logCh, p)
  /\ UNCHANGED <<drainHas, logFile, logged, calls, pending, alive>>

\* The sentinel is sent as soon as there is room; the caller then waits for
\* it without a time limit.
FlushSends(p) ==
  /\ alive /\ fatal[p] = "flushing" /\ Len(logCh) < LBuffer
  /\ fatal' = [fatal EXCEPT ![p] = "waiting"]
  /\ logCh' = Append(logCh, p)
  /\ UNCHANGED <<drainHas, logFile, logged, calls, pending, alive>>

\* Five seconds without room in the channel.
FlushTimesOut(p) ==
  /\ alive /\ fatal[p] = "flushing" /\ Len(logCh) = LBuffer
  /\ fatal' = [fatal EXCEPT ![p] = "gaveUp"]
  /\ UNCHANGED <<logCh, drainHas, logFile, logged, calls, pending, alive>>

\* FATAL is the highest level: its entry is always written, then os.Exit.
FatalWrites(p) ==
  /\ alive /\ fatal[p] \in {"flushed", "gaveUp"}
  /\ logFile' = Append(logFile, p)
  /\ alive' = FALSE
  /\ UNCHANGED <<logCh, drainHas, logged, calls, fatal, pending>>

\* main returns: the channel's content is lost, for nothing flushes it.
ProcessEnds ==
  /\ alive /\ alive' = FALSE
  /\ UNCHANGED <<logCh, drainHas, logFile, logged, calls, fatal, pending>>

LNext ==
  \/ Send \/ DrainTakes \/ DrainWrites \/ ProcessEnds
  \/ \E p \in LCaller : Fatal(p) \/ FlushSends(p) \/ FlushTimesOut(p) \/ FatalWrites(p)

LSpec == LInit /\ [][LNext]_lVars

-----------------------------------------------------------------------------
Entries(s) == {s[i] : i \in 1..Len(s)} \ LCaller
InOrder(s) ==
  \A i, j \in 1..Len(s) : i < j /\ s[i] \notin LCaller /\ s[j] \notin LCaller => s[i] < s[j]

\* What is written, being written and waiting to be written.
Line == logFile \o (IF drainHas = LNothing THEN <<>> ELSE <<drainHas>>) \o logCh

\* Every accepted entry is written once and in order: the file, the entry in the
\* drain goroutine's hands and the channel are together what was accepted, in the
\* order of the calls.
\* "Drain pending entries, then write fatal synchronously before exit": a process
\* ended by Fatal has written, unless the flush gave up, every entry accepted
\* before the call.
FatalLosesNothing ==
  /\ Entries(Line) = logged /\ InOrder(Line)
  /\ \A p \in LCaller : fatal[p] = "flushed" => pending[p] \subseteq Entries(logFile)
=============================================================================
