---------------------------- MODULE MessageRelay ----------------------------
(***************************************************************************)
(* What clients send and receive: its byte layout, and how a message goes  *)
(* from one user to another.                                               *)
(*                                                                         *)
(* Lingo values (internal/domain/types/lingo): what GetBytes writes, what  *)
(* FromRawBytes and ExtractFromBytes read back, and the form in which      *)
(* MarshalLValue stores a value.  Offsets and lengths are the code's;      *)
(* lengths and counts are below 2^31, so that such a field is read alike   *)
(* as signed and unsigned, and a byte of 128 or more in a text of the      *)
(* model is not part of a UTF-8 sequence.                                  *)
(*                                                                         *)
(* MUS messages (internal/domain/types/smus): the MUS header, the size of  *)
(* what follows, an error code, a time stamp, a subject, a sender, a list  *)
(* of recipients and a Lingo value that may be missing.  Clients of the    *)
(* model send nothing encrypted.                                           *)
(*                                                                         *)
(* The handling of a frame that the read loop has taken: rate limiting,    *)
(* HandleRawMessage (smus_handler.go) and the part of Dispatch and Sender  *)
(* that relays a message to a user (dispatcher.go, sender.go, response.go).*)
(***************************************************************************)
EXTENDS MessageStream, SequencesExt

CONSTANTS
  NoContent,        \* MsgContent is nil
  NoMessage,        \* no client would write this frame
  ConnID            \* the id under which the pool knows the connection

VARIABLES
  wLog,      \* what became of each frame taken
  wPeer      \* the frames written to other users, each with its position in wFrames

wVars == <<streamVars, wLog, wPeer>>

\* The type numbers on the wire.
Vt == [void |-> 0, integer |-> 1, symbol |-> 2, string |-> 3, picture |-> 5, float |-> 6,
       list |-> 7, point |-> 8, rect |-> 9, proplist |-> 10, color |-> 18, date |-> 19,
       media |-> 20, vector |-> 22, transform |-> 23]

\* The types of a fixed size: what they occupy, and how much of it they keep
\* (the fourth byte of a color is padding).
Width == [integer |-> 4, float |-> 8, color |-> 4, date |-> 8, vector |-> 12, transform |-> 64]
Kept(t) == IF t = "color" THEN 3 ELSE Width[t]

Counted == {"string", "symbol", "picture"}   \* a length and that many bytes
Texts == {"string", "symbol"}                \* and a byte more if the length is odd
Fields == [point |-> 2, rect |-> 4]          \* values one after the other

Nil == [t |-> "nil"]                         \* the coordinate of a point that was not read
LVoid == [t |-> "void"]
Zeros(n) == [i \in 1..n |-> 0]

PutUint32(n) == <<n \div 16777216, (n \div 65536) % 256, (n \div 256) % 256, n % 256>>
Slice(raw, off, n) == SubSeq(raw, off + 1, off + n)
Pad(n) == n % 2

\* A value of the type before anything is read into it.
NewLValue(t) ==
  CASE t \in DOMAIN Width        -> [t |-> t, b |-> Zeros(Kept(t))]
    [] t \in Counted \cup {"media"} -> [t |-> t, b |-> <<>>]
    [] t = "list"                -> [t |-> t, e |-> <<>>]
    [] t = "proplist"            -> [t |-> t, p |-> <<>>, e |-> <<>>]
    [] t \in DOMAIN Fields       -> [t |-> t, e |-> [i \in 1..Fields[t] |-> Nil]]
    [] OTHER                     -> LVoid

TypeAt(raw, off) ==
  LET n == raw[off + 1] * 256 + raw[off + 2]
      named == {t \in DOMAIN Vt : Vt[t] = n}
  IN IF named = {} THEN "void" ELSE CHOOSE t \in named : TRUE

-----------------------------------------------------------------------------
(* Reading.  ExtractFromBytes(v, raw, off) is the method of value v: the   *)
(* value it leaves behind and the number of bytes it reports.              *)

RECURSIVE ExtractFromBytes(_, _, _)

FromRawBytes(raw, off) ==
  IF off + 2 > Len(raw) THEN LVoid
  ELSE ExtractFromBytes(NewLValue(TypeAt(raw, off)), raw, off + 2).val

\* How a container reads one of its elements: FromRawBytes has extracted it
\* already, and is followed by a second extraction into the same value that is
\* made for the size.
ReadElement(raw, off) == ExtractFromBytes(FromRawBytes(raw, off), raw, off + 2)

MutReadCountedUnpadded(v, raw, off) ==
  IF off + 4 > Len(raw) \/ off + 4 + Uint32(raw, off) > Len(raw) THEN [val |-> v, n |-> 0]
  ELSE [val |-> [v EXCEPT !.b = Slice(raw, off + 4, Uint32(raw, off))],
        n |-> 4 + Uint32(raw, off)]

ReadCounted(v, raw, off) ==
  IF off + 4 > Len(raw) \/ off + 4 + Uint32(raw, off) > Len(raw) THEN [val |-> v, n |-> 0]
  ELSE LET length == Uint32(raw, off)
       IN [val |-> [v EXCEPT !.b = Slice(raw, off + 4, length)],
           n |-> 4 + length + IF v.t \in Texts THEN Pad(length) ELSE 0]

\* A count that the remaining bytes cannot hold is refused; the elements of an
\* earlier extraction are forgotten.
ReadList(v, raw, off) ==
  IF off + 4 > Len(raw) \/ Uint32(raw, off) > (Len(raw) - off - 4) \div 2
  THEN [val |-> v, n |-> 0]
  ELSE LET step(acc, i) ==
             LET elem == ReadElement(raw, acc.at)
             IN [e |-> Append(acc.e, elem.val), at |-> acc.at + 2 + elem.n]
           all == FoldLeft(step, [e |-> <<>>, at |-> off + 4], Zeros(Uint32(raw, off)))
       IN [val |-> [v EXCEPT !.e = all.e], n |-> all.at - off]

\* The pairs are added to those the value has.  A property whose value is
\* missing is dropped.
RECURSIVE ReadPairs(_, _, _, _, _)

ReadPairs(v, raw, off, left, size) ==
  IF left = 0 \/ off + size + 2 > Len(raw) THEN [val |-> v, n |-> size]
  ELSE LET prop == ReadElement(raw, off + size)
           next == size + 2 + prop.n
       IN IF off + next + 2 > Len(raw) THEN [val |-> v, n |-> size]
          ELSE LET elem == ReadElement(raw, off + next)
               IN ReadPairs([v EXCEPT !.p = Append(@, prop.val), !.e = Append(@, elem.val)],
                            raw, off, left - 1, next + 2 + elem.n)

\* The coordinates of a point or a rect; one that is cut short keeps the nil
\* coordinates it was made with and reports no bytes.
RECURSIVE ReadFields(_, _, _, _, _)
ReadFields(v, raw, off, i, size) ==
  IF i > Fields[v.t] THEN [val |-> v, n |-> size]
  ELSE IF off + size + 2 > Len(raw) THEN [val |-> v, n |-> 0]
  ELSE LET field == ReadElement(raw, off + size)
       IN ReadFields([v EXCEPT !.e[i] = field.val], raw, off, i + 1, size + 2 + field.n)

\* Media and void have the method of BaseLValue, which reads nothing.
ExtractFromBytes(v, raw, off) ==
  CASE v.t \in DOMAIN Width ->
         IF off + Width[v.t] > Len(raw) THEN [val |-> v, n |-> 0]
         ELSE [val |-> [v EXCEPT !.b = Slice(raw, off, Kept(v.t))], n |-> Width[v.t]]
    [] v.t \in Counted -> ReadCounted(v, raw, off)
    [] v.t = "list" -> ReadList(v, raw, off)
    [] v.t = "proplist" ->
         IF off + 4 > Len(raw) THEN [val |-> v, n |-> 0]
         ELSE ReadPairs(v, raw, off, Uint32(raw, off), 4)
    [] v.t \in DOMAIN Fields -> ReadFields(v, raw, off, 1, 0)
    [] OTHER -> [val |-> v, n |-> 0]

-----------------------------------------------------------------------------
(* Writing.                                                                *)

RECURSIVE GetBytes(_)

GetAll(vals) == FlattenSeq([i \in DOMAIN vals |-> GetBytes(vals[i])])

GetBytes(v) ==
  LET type == <<0, Vt[v.t]>>
  IN CASE v.t \in DOMAIN Width -> type \o v.b \o Zeros(Width[v.t] - Kept(v.t))
       [] v.t \in Counted ->
            type \o PutUint32(Len(v.b)) \o v.b
              \o Zeros(IF v.t \in Texts THEN Pad(Len(v.b)) ELSE 0)
       [] v.t = "list" -> type \o PutUint32(Len(v.e)) \o GetAll(v.e)
       [] v.t = "proplist" ->
            type \o PutUint32(Len(v.p))
              \o FlattenSeq([i \in DOMAIN v.p |-> GetBytes(v.p[i]) \o GetBytes(v.e[i])])
       [] v.t \in DOMAIN Fields -> type \o GetAll(v.e)
       [] v.t = "media" -> <<>>
       [] OTHER -> type

-----------------------------------------------------------------------------
(* Storing as JSON: a scalar as a number or a text of its own, all else as *)
(* the bytes above in base64, which keeps every byte.                      *)

Scalars == Texts \cup {"integer", "float"}

\* A double that is a number: infinities and NaNs have the largest exponent.
Finite(b) == ~(b[1] % 128 = 127 /\ b[2] >= 240)
IsUTF8(b) == \A i \in DOMAIN b : b[i] < 128

\* encoding/json refuses a float that is not a number, and writes U+FFFD for each
\* byte that is not part of a UTF-8 text.
JSON(v) ==
  CASE v.t = "float" /\ ~Finite(v.b) -> [ok |-> FALSE]
    [] v.t \in Texts ->
         [ok |-> TRUE, value |-> FlattenSeq([i \in DOMAIN v.b |->
                                    IF v.b[i] < 128 THEN <<v.b[i]>> ELSE <<239, 191, 189>>])]
    [] OTHER -> [ok |-> TRUE, value |-> v.b]

\* A void has no value.  "ok" is FALSE when the code returns an error.
Stored(type, v) ==
  LET json == IF v.t \in Scalars THEN JSON(v) ELSE [ok |-> TRUE, value |-> GetBytes(v)]
  IN IF ~json.ok THEN json
     ELSE [ok |-> TRUE, type |-> type, value |-> IF v.t = "void" THEN <<>> ELSE json.value]

MutMarshalLValue(v) == Stored(IF v.t = "symbol" THEN "string" ELSE v.t, v)

MarshalLValue(v) == Stored(v.t, v)

UnmarshalLValue(sv) ==
  CASE sv.type = "void" -> LVoid
    [] sv.type \in Scalars -> [t |-> sv.type, b |-> sv.value]
    [] OTHER -> FromRawBytes(sv.value, 0)

-----------------------------------------------------------------------------
(* What values are made of.                                                *)

RECURSIVE Parts(_)
PartsOf(vals) == FlattenSeq([i \in DOMAIN vals |-> Parts(vals[i])])
Parts(v) ==
  <<v>> \o (IF "e" \in DOMAIN v THEN PartsOf(v.e) ELSE <<>>)
        \o (IF "p" \in DOMAIN v THEN PartsOf(v.p) ELSE <<>>)

\* As many values as properties.
Aligned(v) ==
  \A i \in DOMAIN Parts(v) : LET x == Parts(v)[i] IN x.t = "proplist" => Len(x.p) = Len(x.e)

\* GetBytes panics at a nil coordinate, and at a property without a value.
Writable(v) == Aligned(v) /\ \A i \in DOMAIN Parts(v) : Parts(v)[i].t # "nil"

\* The values whose layout the reader undoes: no media, and no property list
\* inside another value.
Plain(v) ==
  \A i \in DOMAIN Parts(v) : LET x == Parts(v)[i] IN x.t # "media" /\ (x.t = "proplist" => i = 1)

-----------------------------------------------------------------------------
(* Messages.                                                               *)

Message(code, subject, sender, recpts, content) ==
  [code |-> code, subject |-> subject, sender |-> sender, recpts |-> recpts, content |-> content]

-----------------------------------------------------------------------------
(* Header strings and lists of them.  "ok" is FALSE when the code returns  *)
(* an error.                                                               *)

WriteString(s) == PutUint32(Len(s)) \o s \o Zeros(Pad(Len(s)))

ExtractString(raw, off) ==
  IF off + 4 > Len(raw) \/ off + 4 + Uint32(raw, off) > Len(raw)
  THEN [ok |-> FALSE, val |-> <<>>, n |-> 0]
  ELSE LET length == Uint32(raw, off)
       IN [ok |-> TRUE, val |-> Slice(raw, off + 4, length), n |-> 4 + length + Pad(length)]

WriteStrings(l) == PutUint32(Len(l)) \o FlattenSeq([i \in DOMAIN l |-> WriteString(l[i])])

ExtractStrings(raw, off) ==
  IF off + 4 > Len(raw) \/ Uint32(raw, off) > (Len(raw) - off - 4) \div 4
  THEN [ok |-> FALSE, val |-> <<>>, n |-> 0]
  ELSE LET step(acc, i) ==
             LET str == ExtractString(raw, off + acc.n)
             IN IF ~acc.ok \/ ~str.ok THEN [ok |-> FALSE, val |-> <<>>, n |-> 0]
                ELSE [ok |-> TRUE, val |-> Append(acc.val, str.val), n |-> acc.n + str.n]
       IN FoldLeft(step, [ok |-> TRUE, val |-> <<>>, n |-> 4], Zeros(Uint32(raw, off)))

-----------------------------------------------------------------------------
(* Messages.                                                               *)

Payload(m) ==
  PutUint32(m.code) \o Zeros(4) \o WriteString(m.subject) \o WriteString(m.sender)
    \o WriteStrings(m.recpts) \o (IF m.content = NoContent THEN <<>> ELSE GetBytes(m.content))

Envelope(payload) == MUSHeader \o PutUint32(Len(payload)) \o payload

MessageBytes(m) == Envelope(Payload(m))

NotParsed == [ok |-> FALSE]

\* What is left after the recipients is the content.
ParseMUSMessage(raw) ==
  IF Len(raw) < 14 \/ SubSeq(raw, 1, 2) # MUSHeader \/ Len(raw) < HeaderLen + Uint32(raw, 2)
  THEN NotParsed
  ELSE LET subject == ExtractString(raw, 14)
           sender  == ExtractString(raw, 14 + subject.n)
           recpts  == ExtractStrings(raw, 14 + subject.n + sender.n)
           rest    == 14 + subject.n + sender.n + recpts.n
       IN IF ~subject.ok \/ ~sender.ok \/ ~recpts.ok THEN NotParsed
          ELSE [ok |-> TRUE,
                msg |-> Message(Uint32(raw, 6), subject.val, sender.val, recpts.val,
                                IF rest < Len(raw) THEN FromRawBytes(SubSeq(raw, rest + 1, Len(raw)), 0)
                                ELSE NoContent)]

-----------------------------------------------------------------------------
(* What becomes of a frame.  A stream has the message each of its frames   *)
(* stands for.                                                             *)

WInit == StreamInit /\ wLog = <<>> /\ wPeer = <<>>

Parsed == ParseMUSMessage(nextFrame(wAcc, MaxMessageSize).frame)

Relayable == Parsed.ok /\ Parsed.msg.recpts # <<>>
CanWrite == Parsed.msg.content # NoContent => Writable(Parsed.msg.content)

\* Allow says no: the frame is consumed all the same.
RateLimited ==
  /\ Take("frames")
  /\ wLog' = Append(wLog, "limited") /\ UNCHANGED wPeer

\* The parser fails, or Dispatch finds no recipient; the connection goes on.
HandlerError ==
  /\ Take("frames")
  /\ ~Relayable
  /\ wLog' = Append(wLog, "error") /\ UNCHANGED wPeer

\* The message that is relayed: from the connection's own id, whatever sender
\* the client claims, to the first recipient, with the content as it was parsed.
NewResponse(m) == Message(0, m.subject, ConnID, <<m.recpts[1]>>, m.content)

RelayMessage ==
  /\ Take("frames")
  /\ Relayable /\ CanWrite
  /\ wLog' = Append(wLog, "relayed")
  /\ wPeer' = Append(wPeer, [of |-> Len(wFrames) + 1, bytes |-> MessageBytes(NewResponse(Parsed.msg))])

\* WriteToClient fails, which is logged.
RelayFails ==
  /\ Take("frames")
  /\ Relayable /\ CanWrite
  /\ wLog' = Append(wLog, "undelivered") /\ UNCHANGED wPeer

\* GetBytes panics; handleConnection absorbs it and drops the connection.
RelayPanics ==
  /\ Take("panic")
  /\ Relayable /\ ~CanWrite
  /\ wLog' = Append(wLog, "panic") /\ UNCHANGED wPeer

WNext ==
  \/ ReadStep /\ UNCHANGED <<wLog, wPeer>>
  \/ RateLimited \/ HandlerError \/ RelayMessage \/ RelayFails \/ RelayPanics

WSpec == WInit /\ [][WNext]_wVars

-----------------------------------------------------------------------------
Proper(i) == wStream.messages[i] # NoMessage

\* What a user receives is what the other one sent: a message a client writes
\* properly is parsed whatever the lengths of its strings, and ends in an error
\* only if it names nobody; subject and content survive the parser and the
\* writer, for contents without media and without a property list inside another
\* value, and the sender named is the connection's own id.
RelayKeepsMessage ==
  /\ \A i \in DOMAIN wLog :
       Proper(i) => /\ wLog[i] = "error" => wStream.messages[i].recpts = <<>>
                    /\ wLog[i] # "panic"
  /\ \A i \in DOMAIN wPeer :
       LET sent == wStream.messages[wPeer[i].of]
           got == ParseMUSMessage(wPeer[i].bytes)
       IN Proper(wPeer[i].of) =>
            /\ got.ok
            /\ got.msg.subject = sent.subject
            /\ got.msg.sender = ConnID
            /\ sent.content = NoContent \/ Plain(sent.content) => got.msg.content = sent.content

Storable(m) ==
  m.ok /\ m.msg.content # NoContent /\ Writable(m.msg.content) /\ Plain(m.msg.content)

\* A content kept as an attribute (MarshalLValue, UnmarshalLValue) is read back as it
\* was, within the same limits, also one that was cut short on its way in, and
\* with the exceptions that JSON makes at the top level only: a float that is not a
\* number is refused and a text that is not UTF-8 comes back as another text of
\* the same type, while both are kept to the byte inside a container.
StoredComesBack ==
  \A i \in DOMAIN wFrames :
    LET m == ParseMUSMessage(wFrames[i])
        c == m.msg.content
        stored == MarshalLValue(c)
        back == UnmarshalLValue(stored)
    IN Storable(m) =>
         IF c.t = "float" /\ ~Finite(c.b) THEN ~stored.ok
         ELSE /\ stored.ok
              /\ IF c.t \in Texts /\ ~IsUTF8(c.b) THEN back.t = c.t /\ back # c
                 ELSE back = c

\* "Count() = %d, want 2" (TestLPropList_GetBytes_RoundTrip): a property list that
\* has been written and read back has the properties that were put into it.
RelayIsExact ==
  \A i \in DOMAIN wPeer :
    Proper(wPeer[i].of) =>
      ParseMUSMessage(wPeer[i].bytes).msg.content = wStream.messages[wPeer[i].of].content
=============================================================================
