----------------------------- MODULE UDPServer ------------------------------
(***************************************************************************)
(* The UDP server (internal/adapters/inbound/udp_server.go): one goroutine *)
(* reads a packet and handles it inline, panics included; Shutdown runs in *)
(* main and does not wait for it.                                          *)
(***************************************************************************)
EXTENDS Naturals

CONSTANT MaxPackets     \* bound on the packets received

VARIABLES
  udAt,        \* where the read loop is
  udStop,      \* where Shutdown is
  received,    \* packets handed to handlePacket
  counted      \* the four counters of the metrics port

udVars == <<udAt, udStop, received, counted>>

UdInit ==
  /\ udAt = "read" /\ udStop = "serving"
  /\ received = 0
  /\ counted = [banned |-> 0, limited |-> 0, errors |-> 0, messages |-> 0]

UdGoto(from, to) == udAt = from /\ udAt' = to /\ UNCHANGED udStop
Count(k) == counted' = [counted EXCEPT ![k] = @ + 1] /\ UNCHANGED received

\* ReadFromUDP returns a packet of at least one byte.
UdRead ==
  /\ UdGoto("read", "ban") /\ udStop # "closed"
  /\ received < MaxPackets /\ received' = received + 1
  /\ UNCHANGED counted

\* ReadFromUDP fails: because Shutdown closed the socket, or for a reason of its
\* own, which is logged and retried.
UdReadFails ==
  /\ UdGoto("read", IF udStop = "serving" THEN "read" ELSE "returned")
  /\ UNCHANGED <<received, counted>>

\* IsIPBanned, then Allow: both end the handling of the packet when they refuse it.
UdRefused ==
  \/ UdGoto("ban", "read") /\ Count("banned")
  \/ UdGoto("limit", "read") /\ Count("limited")

UdPasses ==
  /\ UdGoto("ban", "limit") \/ UdGoto("limit", "message")
  /\ UNCHANGED <<received, counted>>

MutHandledTwice ==
  /\ UdGoto("message", "reply")
  /\ \/ Count("messages")
     \/ counted' = [counted EXCEPT !.errors = @ + 1, !.messages = @ + 1] /\ UNCHANGED received

\* HandleRawMessage returns; an error may come with a response.
UdHandled ==
  /\ UdGoto("message", "reply")
  /\ Count("messages") \/ Count("errors")

\* WriteToUDP, whose failure is only logged.
UdReply ==
  /\ UdGoto("reply", "read")
  /\ UNCHANGED <<received, counted>>

\* A panic in the ban check, the limiter or the message handler is recovered.
UdPanics ==
  /\ udAt \in {"ban", "limit", "message"} /\ udAt' = "read" /\ UNCHANGED udStop
  /\ Count("errors")

\* Shutdown: close(s.shutdown), then s.conn.Close().
UdShutdown ==
  /\ \/ udStop = "serving" /\ udStop' = "closing"
     \/ udStop = "closing" /\ udStop' = "closed"
  /\ UNCHANGED <<udAt, received, counted>>

UdHandle == UdRefused \/ UdPasses \/ UdHandled \/ UdReply \/ UdPanics
UdNext == UdRead \/ UdReadFails \/ UdHandle \/ UdShutdown

UdSpec == UdInit /\ [][UdNext]_udVars

\* Every packet that was read ends in exactly one of the metrics' counters: refused as
\* banned, refused by the limiter, failed or handled.
PacketCountedOnce ==
  received = counted.banned + counted.limited + counted.errors + counted.messages
             + (IF udAt \in {"ban", "limit", "message"} THEN 1 ELSE 0)
=============================================================================
