----------------------------- MODULE MCServers ------------------------------
(***************************************************************************)
(* The servers of the process and what passes through them: the TCP        *)
(* server, the UDP server, main, which starts and stops them, the message  *)
(* stream of a connection, groups, and the delivery to their members.  The *)
(* first state chooses one of them; the others stay as they are.           *)
(***************************************************************************)
EXTENDS TCPServer, UDPServer, ServerMain, MessageRelay, MovieGroups, Delivery

-----------------------------------------------------------------------------
(* The streams of the instance: two frames, the first of any of the kinds *)
(* below, the second a short message, an oversize one or none.            *)

MCConnID == <<99>>

Num(n) == [t |-> "integer", b |-> PutUint32(n)]
Text(t, s) == [t |-> t, b |-> s]
List(vals) == [t |-> "list", e |-> vals]
Props(keys, vals) == [t |-> "proplist", p |-> keys, e |-> vals]
Key == Text("symbol", <<107>>)
NaN == [t |-> "float", b |-> <<127, 248, 0, 0, 0, 0, 0, 0>>]

Contents ==
  { NoContent, LVoid, Num(5),
    Text("string", <<115, 116, 114>>), Text("symbol", <<115, 121>>), Text("picture", <<1, 2, 3>>),
    [t |-> "float", b |-> <<1, 2, 3, 4, 5, 6, 7, 8>>], [t |-> "color", b |-> <<1, 2, 3>>],
    NaN, Text("string", <<115, 255>>), List(<<NaN, Text("symbol", <<255>>)>>),
    List(<<>>), List(<<Text("string", <<115>>), Num(5)>>), List(<<List(<<Num(1)>>), LVoid>>),
    Props(<<Key>>, <<List(<<LVoid>>)>>), Props(<<Key, Key>>, <<LVoid, LVoid>>),
    [t |-> "point", e |-> <<Num(1), Num(2)>>],
    [t |-> "rect", e |-> <<Num(1), Num(2), Num(3), Num(4)>>] }

\* Values that do not come back as they were.
Altered == {List(<<Props(<<Key>>, <<LVoid>>)>>), Text("media", <<1, 2>>)}

\* "p" is a user; the sender the client claims is not its own id.
To(recpts, content) == Message(0, <<115>>, <<98, 98>>, recpts, content)
ToPeer(content) == To(<< <<112>> >>, content)

Frame(m) == [bytes |-> MessageBytes(m), message |-> m]
Raw(payload) == [bytes |-> Envelope(payload), message |-> NoMessage]

Oversize == [bytes |-> MessageBytes(ToPeer([t |-> "transform", b |-> Zeros(64)])),
             message |-> NoMessage]
NoHeader == [bytes |-> <<0, 114, 0, 0, 0, 0>>, message |-> NoMessage]

\* Contents that end too early in a frame that is complete.
CutContent ==
  LET cut(c) == {Raw(Payload(ToPeer(NoContent)) \o SubSeq(GetBytes(c), 1, n)) : n \in 1..(Len(GetBytes(c)) - 1)}
  IN UNION {cut(c) : c \in {Props(<<Key>>, <<Num(5)>>), [t |-> "point", e |-> <<Num(1), Num(2)>>],
                            List(<<Text("string", <<115>>), LVoid>>)}}

First ==
  {Frame(ToPeer(c)) : c \in Contents \cup Altered}
    \cup {Frame(To(<<>>, NoContent)), Frame(To(<< <<112>>, <<113, 114>> >>, Num(5))), Raw(Zeros(8)),
          Oversize, NoHeader}

\* Frames one after the other.
Written(frames) ==
  LET upTo(n) == FlattenSeq([i \in 1..n |-> frames[i].bytes])
  IN [bytes |-> upTo(Len(frames)), ends |-> [i \in DOMAIN frames |-> Len(upTo(i))],
      messages |-> [i \in DOMAIN frames |-> frames[i].message]]

MCStreams ==
  {Written(<<f>> \o rest) : f \in First, rest \in {<<>>, <<Frame(ToPeer(LVoid))>>, <<Oversize>>}}
    \cup {Written(<<f>>) : f \in CutContent}

NestedStreams == {Written(<<Frame(ToPeer(c))>>) : c \in {v \in Altered : v.t = "list"}}

-----------------------------------------------------------------------------
VARIABLE server

AllParts == {{}, {"idle", "jobs"}, {"http", "metrics"}, {"limiter", "udp"}, Optional}

NoStream == CHOOSE s \in Streams : TRUE

ServersInit ==
  /\ server \in {"tcp", "udp", "main", "stream", "groups", "delivery"}
  /\ Init /\ UdInit /\ SmInit /\ WInit /\ MgInit /\ DInit
  /\ server # "main" => optional = {}
  /\ server # "stream" => wStream = NoStream

TCP == server = "tcp" /\ Next /\ UNCHANGED <<server, udVars, smVars, wVars, mgVars, dVars>>
UDP == server = "udp" /\ UdNext /\ UNCHANGED <<server, vars, smVars, wVars, mgVars, dVars>>
Main == server = "main" /\ SmNext /\ UNCHANGED <<server, vars, udVars, wVars, mgVars, dVars>>
Stream == server = "stream" /\ WNext /\ UNCHANGED <<server, vars, udVars, smVars, mgVars, dVars>>
Groups == server = "groups" /\ MgNext /\ UNCHANGED <<server, vars, udVars, smVars, wVars, dVars>>
Deliver == server = "delivery" /\ DNext /\ UNCHANGED <<server, vars, udVars, smVars, wVars, mgVars>>

ServersNext == TCP \/ UDP \/ Main \/ Stream \/ Groups \/ Deliver

serversVars == <<server, vars, udVars, smVars, wVars, mgVars, dVars>>

\* The goroutines of the TCP server are scheduled, a closed listener fails, and a
\* read from a closed connection fails.  No peer has to read or to close its
\* socket.
ServersFairness ==
  /\ WF_vars(server = "tcp" /\ loop # "accept" /\ LoopStep)
  /\ WF_vars(server = "tcp" /\ ListenerClosed /\ AcceptFails)
  /\ WF_vars(server = "tcp" /\ MainStep)
  /\ \A c \in Conn : /\ WF_vars(server = "tcp" /\ ConnStep(c))
                      /\ WF_vars(server = "tcp" /\ c \notin open /\ Unregister(c))

ServersSpec == ServersInit /\ [][ServersNext]_serversVars /\ ServersFairness
=============================================================================
