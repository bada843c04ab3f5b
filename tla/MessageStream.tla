--------------------------- MODULE MessageStream ----------------------------
(***************************************************************************)
(* The byte stream of a connection, cut into frames: nextFrame and the     *)
(* read loop of handleConnection (tcp_server.go).  A read returns any      *)
(* number of the bytes that are under way, a frame that is complete is     *)
(* handled before the next one is looked for, and the connection may break *)
(* at any time.  What the handler makes of a frame is in MessageRelay.     *)
(***************************************************************************)
EXTENDS Integers, Sequences

CONSTANTS
  Streams,          \* what a client may write
  MaxMessageSize

VARIABLES
  wStream,   \* what the client writes: bytes, and where each frame ends in them
  wIn,       \* the bytes that have not been read
  wAcc,      \* acc: read and not yet cut into frames
  wAt,       \* where the loop is: "read", "frames", or why it has ended
  wFrames    \* the frames taken so far

streamVars == <<wStream, wIn, wAcc, wAt, wFrames>>

-----------------------------------------------------------------------------
(* One frame from the front of what has been received: "more" when it is   *)
(* not complete, "error" when the connection must be dropped.  A frame is  *)
(* the MUS header, the size of what follows, and that many bytes.          *)

MUSHeader == <<114, 0>>
HeaderLen == 6          \* musFrameHeaderLen

Uint32(raw, off) ==
  ((raw[off + 1] * 256 + raw[off + 2]) * 256 + raw[off + 3]) * 256 + raw[off + 4]

Malformed(buf, maxSize) ==
  SubSeq(buf, 1, 2) # MUSHeader \/ (maxSize > 0 /\ HeaderLen + Uint32(buf, 2) > maxSize)

CutFrame(buf, total) ==
  [is |-> "frame", frame |-> SubSeq(buf, 1, total), rest |-> SubSeq(buf, total + 1, Len(buf))]

MutNextFrameEager(buf, maxSize) ==
  IF Len(buf) < HeaderLen THEN [is |-> "more"]
  ELSE IF Malformed(buf, maxSize) THEN [is |-> "error"] ELSE CutFrame(buf, Len(buf))

nextFrame(buf, maxSize) ==
  IF Len(buf) < HeaderLen THEN [is |-> "more"]
  ELSE IF Malformed(buf, maxSize) THEN [is |-> "error"]
  ELSE IF Len(buf) < HeaderLen + Uint32(buf, 2) THEN [is |-> "more"]
  ELSE CutFrame(buf, HeaderLen + Uint32(buf, 2))

-----------------------------------------------------------------------------
(* What a client writes: frames one after the other.                       *)

StartOf(s, i) == IF i = 1 THEN 0 ELSE s.ends[i - 1]
FrameBytes(s, i) == SubSeq(s.bytes, StartOf(s, i) + 1, s.ends[i])

\* Those a server must not take: without the header, or too long.
Refused(s, i) ==
  \/ SubSeq(FrameBytes(s, i), 1, 2) # MUSHeader
  \/ MaxMessageSize > 0 /\ Len(FrameBytes(s, i)) > MaxMessageSize

\* A frame with the header is as long as it says.
ASSUME StreamAssumption ==
  /\ MaxMessageSize \in Nat
  /\ \A s \in Streams :
       /\ s.bytes \in Seq(Nat) /\ s.ends \in Seq(Nat)
       /\ Len(s.bytes) = StartOf(s, Len(s.ends) + 1)
       /\ \A i \in 1..Len(s.ends) :
            /\ StartOf(s, i) + HeaderLen <= s.ends[i] /\ s.ends[i] <= Len(s.bytes)
            /\ SubSeq(FrameBytes(s, i), 1, 2) = MUSHeader
                 => Len(FrameBytes(s, i)) = HeaderLen + Uint32(FrameBytes(s, i), 2)

-----------------------------------------------------------------------------
(* The read loop.                                                          *)

StreamInit ==
  /\ wStream \in Streams
  /\ wIn = wStream.bytes
  /\ wAcc = <<>> /\ wAt = "read" /\ wFrames = <<>>

WRead(n) ==
  /\ wAt = "read" /\ n <= Len(wIn)
  /\ wAcc' = wAcc \o SubSeq(wIn, 1, n)
  /\ wIn' = SubSeq(wIn, n + 1, Len(wIn))
  /\ wAt' = "frames"
  /\ UNCHANGED <<wStream, wFrames>>

\* EOF or an error; what has been read of a message is forgotten.
WReadFails ==
  /\ wAt = "read"
  /\ wAt' = "eof"
  /\ UNCHANGED <<wStream, wIn, wAcc, wFrames>>

NeedMore ==
  /\ wAt = "frames"
  /\ nextFrame(wAcc, MaxMessageSize).is = "more"
  /\ wAt' = "read"
  /\ UNCHANGED <<wStream, wIn, wAcc, wFrames>>

FrameError ==
  /\ wAt = "frames"
  /\ nextFrame(wAcc, MaxMessageSize).is = "error"
  /\ wAt' = "malformed"
  /\ UNCHANGED <<wStream, wIn, wAcc, wFrames>>

ReadStep == (\E n \in 1..MaxMessageSize : WRead(n)) \/ WReadFails \/ NeedMore \/ FrameError

\* A frame is taken and handled.  The loop goes on, unless the handler panics or
\* its answer cannot be written.
Take(to) ==
  LET next == nextFrame(wAcc, MaxMessageSize)
  IN /\ wAt = "frames"
     /\ next.is = "frame"
     /\ wAcc' = next.rest
     /\ wFrames' = Append(wFrames, next.frame)
     /\ wAt' = to
     /\ UNCHANGED <<wStream, wIn>>

StreamNext == ReadStep \/ \E to \in {"frames", "panic", "unanswered"} : Take(to)

StreamSpec == StreamInit /\ [][StreamNext]_streamVars

-----------------------------------------------------------------------------
\* However the network cuts and joins the stream, the frames that are taken are
\* the frames that were written, byte for byte and in their order, and none that
\* nextFrame must refuse is among them.  The loop never goes back to Read with a
\* complete message in its buffer, which would be answered only when the client
\* sends something more, and it drops the connection for a malformed frame only
\* where the client wrote one: a frame of exactly MaxMessageSize bytes is not one.
FramesAsSent ==
  LET taken == Len(wFrames)
      received == Len(wStream.bytes) - Len(wIn)
  IN /\ taken <= Len(wStream.ends)
     /\ \A i \in 1..taken : wFrames[i] = FrameBytes(wStream, i) /\ ~Refused(wStream, i)
     /\ wAt = "read" /\ taken < Len(wStream.ends) => received < wStream.ends[taken + 1]
     /\ wAt = "malformed" => taken < Len(wStream.ends) /\ Refused(wStream, taken + 1)
=============================================================================
