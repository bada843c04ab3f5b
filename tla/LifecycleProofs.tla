-------------------------- MODULE LifecycleProofs ---------------------------
(***************************************************************************)
(* A connection, for any stream of frames that its client may write and    *)
(* any number of sockets, ids and reapers.                                 *)
(*                                                                         *)
(* The stream: FramesAsSent is not inductive.  What it needs is where in   *)
(* the stream the bytes are that have been read and not been taken         *)
(* (StreamInv).                                                            *)
(*                                                                         *)
(* The session, in the composed pool and session store: NoOrphanedState is *)
(* not inductive.  What it needs is where the goroutine of a socket is     *)
(* bound and which id its handler works on (ConnOK), that the pool's two   *)
(* maps are inverse, both up to the shared ids, and that the store's two   *)
(* room indexes agree, without which an unregistration would leave         *)
(* memberships behind.                                                     *)
(***************************************************************************)
EXTENDS MessageStream, SessionLifecycle, TLAPS

-----------------------------------------------------------------------------
(* The frames of a stream.                                                 *)

\* Received: the bytes that have been read.  Cut: those that have been taken as frames.
Received == Len(wStream.bytes) - Len(wIn)
Cut == StartOf(wStream, Len(wFrames) + 1)

\* What has been read and not been taken is the piece of the stream from the end of
\* the last frame taken to the last byte read.
StreamInv ==
  /\ wStream \in Streams
  /\ wFrames \in Seq(Seq(Nat)) /\ wIn \in Seq(Nat)
  /\ Len(wFrames) <= Len(wStream.ends)
  /\ Cut <= Received /\ Received <= Len(wStream.bytes)
  /\ wIn = SubSeq(wStream.bytes, Received + 1, Len(wStream.bytes))
  /\ wAcc = SubSeq(wStream.bytes, Cut + 1, Received)
  /\ FramesAsSent

\* Two sequences with the same elements are equal.
LEMMA SameSeq ==
  ASSUME NEW s \in Seq(Nat), NEW t \in Seq(Nat), Len(s) = Len(t), \A i \in 1 .. Len(s) : s[i] = t[i]
  PROVE  s = t
  OBVIOUS

\* A piece of the stream, from the byte after x to the byte y.
LEMMA PieceOf ==
  ASSUME NEW b \in Seq(Nat), NEW x \in Nat, NEW y \in Nat, x <= y, y <= Len(b)
  PROVE  /\ SubSeq(b, x + 1, y) \in Seq(Nat) /\ Len(SubSeq(b, x + 1, y)) = y - x
         /\ \A i \in 1 .. y - x : SubSeq(b, x + 1, y)[i] = b[x + i]
  OBVIOUS

\* A piece of a piece is a piece of the stream.
LEMMA PieceOfPiece ==
  ASSUME NEW b \in Seq(Nat), NEW x \in Nat, NEW y \in Nat, x <= y, y <= Len(b),
         NEW j \in Nat, NEW k \in Nat, j <= k, k <= y - x
  PROVE  SubSeq(SubSeq(b, x + 1, y), j + 1, k) = SubSeq(b, x + j + 1, x + k)
<1> DEFINE p == SubSeq(b, x + 1, y)
           s == SubSeq(p, j + 1, k)
           t == SubSeq(b, x + j + 1, x + k)
<1>1. p \in Seq(Nat) /\ Len(p) = y - x /\ \A i \in 1 .. y - x : p[i] = b[x + i]
  BY PieceOf
<1> HIDE DEF p
<1>2. s \in Seq(Nat) /\ Len(s) = k - j /\ \A i \in 1 .. k - j : s[i] = p[j + i]
  BY <1>1, PieceOf
<1>3. t \in Seq(Nat) /\ Len(t) = k - j /\ \A i \in 1 .. k - j : t[i] = b[x + j + i]
  <2>1. x + j \in Nat /\ x + k \in Nat /\ x + j <= x + k /\ x + k <= Len(b) /\ (x + k) - (x + j) = k - j
    OBVIOUS
  <2> QED
    BY <2>1, PieceOf
<1> HIDE DEF s, t
<1>4. ASSUME NEW i \in 1 .. k - j PROVE s[i] = t[i]
  <2>1. j + i \in 1 .. y - x /\ x + (j + i) = x + j + i
    OBVIOUS
  <2> QED
    BY <1>1, <1>2, <1>3, <2>1
<1>5. s = t
  BY <1>2, <1>3, <1>4, SameSeq
<1> QED
  BY <1>5 DEF s, t, p

\* A piece cut in two.
LEMMA PieceCut ==
  ASSUME NEW b \in Seq(Nat), NEW x \in Nat, NEW y \in Nat, x <= y, y <= Len(b), NEW m \in Nat, m <= y - x
  PROVE  /\ SubSeq(SubSeq(b, x + 1, y), 1, m) = SubSeq(b, x + 1, x + m)
         /\ SubSeq(SubSeq(b, x + 1, y), m + 1, y - x) = SubSeq(b, x + m + 1, y)
<1>1. SubSeq(SubSeq(b, x + 1, y), 0 + 1, m) = SubSeq(b, x + 0 + 1, x + m)
  BY PieceOfPiece
<1>2. SubSeq(SubSeq(b, x + 1, y), m + 1, y - x) = SubSeq(b, x + m + 1, x + (y - x))
  BY PieceOfPiece
<1>3. 0 + 1 = 1 /\ x + 0 = x /\ x + (y - x) = y
  OBVIOUS
<1> QED
  BY <1>1, <1>2, <1>3, Zenon

\* What Read appends to acc comes behind what is there.
LEMMA JoinAt ==
  ASSUME NEW p \in Seq(Nat), NEW q \in Seq(Nat)
  PROVE  /\ p \o q \in Seq(Nat) /\ Len(p \o q) = Len(p) + Len(q) /\ Len(p) \in Nat /\ Len(q) \in Nat
         /\ \A i \in 1 .. Len(p) : (p \o q)[i] = p[i]
         /\ \A i \in 1 .. Len(q) : (p \o q)[Len(p) + i] = q[i]
  OBVIOUS

\* Two pieces that follow each other make one.
LEMMA PiecesJoin ==
  ASSUME NEW b \in Seq(Nat), NEW x \in Nat, NEW y \in Nat, NEW z \in Nat, x <= y, y <= z, z <= Len(b)
  PROVE  SubSeq(b, x + 1, y) \o SubSeq(b, y + 1, z) = SubSeq(b, x + 1, z)
<1> DEFINE p == SubSeq(b, x + 1, y)
           q == SubSeq(b, y + 1, z)
           r == SubSeq(b, x + 1, z)
           s == p \o q
<1>1. p \in Seq(Nat) /\ Len(p) = y - x /\ \A i \in 1 .. y - x : p[i] = b[x + i]
  BY PieceOf
<1>2. q \in Seq(Nat) /\ Len(q) = z - y /\ \A i \in 1 .. z - y : q[i] = b[y + i]
  BY PieceOf
<1>3. r \in Seq(Nat) /\ Len(r) = z - x /\ \A i \in 1 .. z - x : r[i] = b[x + i]
  BY PieceOf
<1> HIDE DEF p, q, r
<1>4. /\ s \in Seq(Nat) /\ Len(s) = Len(p) + Len(q)
      /\ \A i \in 1 .. Len(p) : s[i] = p[i]
      /\ \A i \in 1 .. Len(q) : s[Len(p) + i] = q[i]
  BY <1>1, <1>2, JoinAt
<1> HIDE DEF s
<1>5. ASSUME NEW i \in 1 .. z - x PROVE s[i] = r[i]
  <2>1. CASE i <= y - x
    BY <1>1, <1>3, <1>4, <2>1
  <2>2. CASE ~(i <= y - x)
    <3> DEFINE j == i - (y - x)
    <3>1. j \in 1 .. z - y /\ i = Len(p) + j /\ y + j = x + i
      BY <1>1, <2>2
    <3>2. s[i] = q[j] /\ q[j] = b[y + j]
      BY <1>2, <1>4, <3>1
    <3> QED
      BY <1>3, <3>1, <3>2
  <2> QED
    BY <2>1, <2>2
<1>6. Len(s) = z - x
  BY <1>1, <1>2, <1>4
<1>7. s = r
  BY <1>3, <1>4, <1>5, <1>6, SameSeq
<1> QED
  BY <1>7 DEF p, q, r, s

\* Where the frames of a stream begin and end.
LEMMA FramesInStream ==
  ASSUME NEW s \in Streams
  PROVE  /\ s.bytes \in Seq(Nat) /\ Len(s.bytes) \in Nat /\ Len(s.ends) \in Nat
         /\ StartOf(s, 1) = 0 /\ Len(s.bytes) = StartOf(s, Len(s.ends) + 1)
         /\ \A i \in 1 .. Len(s.ends) :
              /\ StartOf(s, i) \in Nat /\ s.ends[i] \in Nat /\ StartOf(s, i + 1) = s.ends[i]
              /\ StartOf(s, i) + 6 <= s.ends[i] /\ s.ends[i] <= Len(s.bytes)
<1>1. /\ s.bytes \in Seq(Nat) /\ s.ends \in Seq(Nat) /\ Len(s.bytes) = StartOf(s, Len(s.ends) + 1)
      /\ \A i \in 1 .. Len(s.ends) : StartOf(s, i) + 6 <= s.ends[i] /\ s.ends[i] <= Len(s.bytes)
  BY StreamAssumption, Zenon DEF HeaderLen
<1>2. Len(s.bytes) \in Nat /\ Len(s.ends) \in Nat /\ \A i \in 1 .. Len(s.ends) : s.ends[i] \in Nat
  BY <1>1
<1>3. ASSUME NEW i \in 1 .. Len(s.ends)
      PROVE  StartOf(s, i) \in Nat /\ StartOf(s, i + 1) = s.ends[i]
  <2>1. i = 1 \/ i - 1 \in 1 .. Len(s.ends)
    BY <1>2
  <2>2. i + 1 # 1 /\ (i + 1) - 1 = i
    BY <1>2
  <2> QED
    BY <1>2, <2>1, <2>2 DEF StartOf
<1> QED
  BY <1>1, <1>2, <1>3 DEF StartOf

\* The header of a frame is in its first six bytes.
LEMMA Header ==
  ASSUME NEW a \in Seq(Nat), Len(a) >= 6
  PROVE  /\ SubSeq(a, 1, 2) \in Seq(Nat) /\ Len(SubSeq(a, 1, 2)) = 2
         /\ \A i \in 1 .. 2 : SubSeq(a, 1, 2)[i] = a[i]
         /\ Uint32(a, 2) \in Nat
<1>1. \A i \in 1 .. 2 : SubSeq(a, 1, 2)[i] = a[i]
  OBVIOUS
<1>2. SubSeq(a, 1, 2) \in Seq(Nat) /\ Len(SubSeq(a, 1, 2)) = 2
  OBVIOUS
<1>3. a[2 + 1] \in Nat /\ a[2 + 2] \in Nat /\ a[2 + 3] \in Nat /\ a[2 + 4] \in Nat
  OBVIOUS
<1>5. Uint32(a, 2) \in Nat
  <2> DEFINE w == a[2 + 1]
             x == a[2 + 2]
             y == a[2 + 3]
             z == a[2 + 4]
  <2>1. w \in Nat /\ x \in Nat /\ y \in Nat /\ z \in Nat
    BY <1>3, Zenon
  <2> HIDE DEF w, x, y, z
  <2>2. ((w * 256 + x) * 256 + y) * 256 + z \in Nat
    BY <2>1
  <2> QED
    BY <2>2, Zenon DEF w, x, y, z, Uint32
<1> QED
  BY <1>1, <1>2, <1>5, Zenon

\* nextFrame reads the same header from what is received as from the whole frame.
LEMMA SameHeader ==
  ASSUME NEW a \in Seq(Nat), NEW f \in Seq(Nat), Len(a) >= 6, Len(f) >= 6, \A i \in 1 .. 6 : a[i] = f[i]
  PROVE  SubSeq(a, 1, 2) = SubSeq(f, 1, 2) /\ Uint32(a, 2) = Uint32(f, 2) /\ Uint32(a, 2) \in Nat
<1>1. /\ 2 + 1 \in 1 .. 6 /\ 2 + 2 \in 1 .. 6 /\ 2 + 3 \in 1 .. 6 /\ 2 + 4 \in 1 .. 6
      /\ \A i \in 1 .. 2 : i \in 1 .. 6
  OBVIOUS
<1>2. Uint32(a, 2) = Uint32(f, 2)
  BY <1>1, Zenon DEF Uint32
<1>3. \A i \in 1 .. 2 : SubSeq(a, 1, 2)[i] = SubSeq(f, 1, 2)[i]
  <2>1. \A i \in 1 .. 2 : SubSeq(a, 1, 2)[i] = a[i]
    BY Header
  <2>2. \A i \in 1 .. 2 : SubSeq(f, 1, 2)[i] = f[i]
    BY Header
  <2> QED
    <3> SUFFICES ASSUME NEW i \in 1 .. 2 PROVE SubSeq(a, 1, 2)[i] = SubSeq(f, 1, 2)[i]
      OBVIOUS
    <3>1. a[i] = f[i]
      BY <1>1, Zenon
    <3>2. SubSeq(a, 1, 2)[i] = a[i] /\ SubSeq(f, 1, 2)[i] = f[i]
      BY <2>1, <2>2, Zenon
    <3> QED
      BY <3>1, <3>2, Zenon
<1>4. /\ SubSeq(a, 1, 2) \in Seq(Nat) /\ Len(SubSeq(a, 1, 2)) = 2 /\ Uint32(a, 2) \in Nat
      /\ SubSeq(f, 1, 2) \in Seq(Nat) /\ Len(SubSeq(f, 1, 2)) = 2
  BY Header, Zenon
<1>5. SubSeq(a, 1, 2) = SubSeq(f, 1, 2)
  BY <1>3, <1>4, SameSeq, Zenon
<1> QED
  BY <1>2, <1>4, <1>5, Zenon

\* What is received begins with the frame to be taken next, as far as it is received.
LEMMA NextIsFrame ==
  ASSUME StreamInv
  PROVE  LET n == Len(wFrames) + 1
             next == nextFrame(wAcc, MaxMessageSize)
         IN /\ next.is = "more" /\ n <= Len(wStream.ends) => Received < wStream.ends[n]
            /\ next.is = "error" => n <= Len(wStream.ends) /\ Refused(wStream, n)
            /\ next.is = "frame" =>
                 /\ n <= Len(wStream.ends) /\ ~Refused(wStream, n) /\ wStream.ends[n] <= Received
                 /\ next.frame = FrameBytes(wStream, n)
                 /\ next.rest = SubSeq(wStream.bytes, wStream.ends[n] + 1, Received)
<1> DEFINE n == Len(wFrames) + 1
           b == wStream.bytes
           next == nextFrame(wAcc, MaxMessageSize)
           f == FrameBytes(wStream, n)
           u == Uint32(wAcc, 2)
           e == wStream.ends[n]
           r == Received
           c == Cut
<1>1. /\ b \in Seq(Nat) /\ Len(b) \in Nat /\ Len(wStream.ends) \in Nat /\ Len(wFrames) \in Nat
      /\ n \in 1 .. Len(wStream.ends) =>
           c \in Nat /\ e \in Nat /\ c + 6 <= e /\ e <= Len(b) /\ f = SubSeq(b, c + 1, e)
      /\ n \notin 1 .. Len(wStream.ends) => c = Len(b)
  <2>1. wStream \in Streams /\ Len(wFrames) \in Nat /\ Len(wFrames) <= Len(wStream.ends)
    BY DEF StreamInv
  <2>2. n \notin 1 .. Len(wStream.ends) => n = Len(wStream.ends) + 1
    BY <2>1, FramesInStream
  <2> QED
    BY <2>1, <2>2, FramesInStream, Zenon DEF Cut, FrameBytes
<1>2. /\ r \in Nat /\ c \in Nat /\ c <= r /\ r <= Len(b)
      /\ wAcc = SubSeq(b, c + 1, r)
  <2>1. c \in Nat
    BY <1>1, Zenon
  <2>2. c <= r /\ r <= Len(b) /\ wAcc = SubSeq(b, c + 1, r)
    BY Zenon DEF StreamInv
  <2>3. Len(wIn) \in Nat
    BY DEF StreamInv
  <2>4. r \in Nat
    BY <1>1, <2>1, <2>2, <2>3 DEF Received
  <2> QED
    BY <2>1, <2>2, <2>4, Zenon
<1> HIDE DEF b, next, f, u, e, r, c, n
<1>3. wAcc \in Seq(Nat) /\ Len(wAcc) = r - c /\ \A i \in 1 .. r - c : wAcc[i] = b[c + i]
  <2>1. /\ SubSeq(b, c + 1, r) \in Seq(Nat) /\ Len(SubSeq(b, c + 1, r)) = r - c
        /\ \A i \in 1 .. r - c : SubSeq(b, c + 1, r)[i] = b[c + i]
    BY <1>1, <1>2, PieceOf
  <2> QED
    BY <1>2, <2>1, Zenon
<1>4. CASE Len(wAcc) < 6
  <2>1. next = [is |-> "more"]
    BY <1>4, Zenon DEF next, nextFrame, HeaderLen
  <2>2. n \in 1 .. Len(wStream.ends) => r < e
    BY <1>1, <1>2, <1>3, <1>4
  <2>3. n <= Len(wStream.ends) => n \in 1 .. Len(wStream.ends)
    BY <1>1 DEF n
  <2> QED
    BY <2>1, <2>2, <2>3 DEF next, n, e, r
<1>5. CASE ~(Len(wAcc) < 6)
  <2>1. n \in 1 .. Len(wStream.ends) /\ n <= Len(wStream.ends)
    BY <1>1, <1>2, <1>3, <1>5
  <2> e \in Nat /\ c \in Nat /\ c + 6 <= e /\ e <= Len(b) /\ f = SubSeq(b, c + 1, e) /\ r \in Nat
    BY <1>1, <1>2, <2>1, Zenon
  <2>2. f \in Seq(Nat) /\ Len(f) = e - c /\ \A i \in 1 .. e - c : f[i] = b[c + i]
    <3>1. /\ SubSeq(b, c + 1, e) \in Seq(Nat) /\ Len(SubSeq(b, c + 1, e)) = e - c
          /\ \A i \in 1 .. e - c : SubSeq(b, c + 1, e)[i] = b[c + i]
      BY <1>1, PieceOf
    <3> QED
      BY <3>1, Zenon
  <2>3. /\ Len(wAcc) >= 6 /\ Len(f) >= 6
        /\ \A i \in 1 .. 6 : i \in 1 .. r - c /\ i \in 1 .. e - c
    BY <1>3, <1>5, <2>2
  <2>4. \A i \in 1 .. 6 : wAcc[i] = f[i]
    BY <1>3, <2>2, <2>3, Zenon
  <2>5. SubSeq(wAcc, 1, 2) = SubSeq(f, 1, 2) /\ u = Uint32(f, 2) /\ u \in Nat
    BY <1>3, <2>2, <2>3, <2>4, SameHeader, Zenon DEF u
  <2>6. SubSeq(f, 1, 2) = MUSHeader => Len(f) = 6 + u
    BY <2>1, <2>5, StreamAssumption, Zenon DEF f, StreamInv, HeaderLen
  <2>7. Malformed(wAcc, MaxMessageSize) <=> Refused(wStream, n)
    <3>1. CASE SubSeq(f, 1, 2) # MUSHeader
      BY <2>5, <3>1, Zenon DEF Malformed, Refused, f
    <3>2. CASE SubSeq(f, 1, 2) = MUSHeader
      BY <2>5, <2>6, <3>2, Zenon DEF Malformed, Refused, f, u, HeaderLen
    <3> QED
      BY <3>1, <3>2, Zenon
  <2>8. CASE Refused(wStream, n)
    <3>1. next = [is |-> "error"]
      BY <1>5, <2>7, <2>8, Zenon DEF next, nextFrame, HeaderLen
    <3> QED
      BY <2>1, <2>8, <3>1 DEF next, n
  <2>9. CASE ~Refused(wStream, n)
    <3>1. Len(f) = 6 + u /\ e = c + (6 + u)
      <4>1. Len(f) = 6 + u
        BY <2>6, <2>9, Zenon DEF Refused, f
      <4> QED
        BY <2>2, <2>5, <4>1
    <3>2. CASE Len(wAcc) < 6 + u
      <4>1. next = [is |-> "more"]
        BY <1>5, <2>7, <2>9, <3>2, Zenon DEF next, nextFrame, HeaderLen, u
      <4>2. r < e
        <5>1. r - c < 6 + u
          BY <1>3, <3>2, Zenon
        <5> QED
          BY <2>5, <3>1, <5>1
      <4> QED
        BY <4>1, <4>2 DEF next, n, e, r
    <3>3. CASE ~(Len(wAcc) < 6 + u)
      <4>1. next = [is |-> "frame", frame |-> SubSeq(wAcc, 1, 6 + u), rest |-> SubSeq(wAcc, 6 + u + 1, Len(wAcc))]
        BY <1>5, <2>7, <2>9, <3>3, Zenon DEF next, nextFrame, HeaderLen, u, CutFrame
      <4>2. e <= r /\ 6 + u \in Nat /\ 6 + u <= r - c
        <5>1. ~(r - c < 6 + u)
          BY <1>3, <3>3, Zenon
        <5>2. u \in Nat /\ e = c + (6 + u) /\ c \in Nat /\ r \in Nat
          BY <1>2, <2>5, <3>1, Zenon
        <5> QED
          BY <5>1, <5>2
      <4>3. /\ SubSeq(SubSeq(b, c + 1, r), 1, 6 + u) = SubSeq(b, c + 1, c + (6 + u))
            /\ SubSeq(SubSeq(b, c + 1, r), 6 + u + 1, r - c) = SubSeq(b, c + (6 + u) + 1, r)
        <5> DEFINE m == 6 + u
        <5>1. m \in Nat /\ m <= r - c
          BY <4>2, Zenon
        <5>2. b \in Seq(Nat) /\ c \in Nat /\ r \in Nat /\ c <= r /\ r <= Len(b)
          BY <1>1, <1>2, Zenon
        <5> HIDE DEF m
        <5>3. /\ SubSeq(SubSeq(b, c + 1, r), 1, m) = SubSeq(b, c + 1, c + m)
              /\ SubSeq(SubSeq(b, c + 1, r), m + 1, r - c) = SubSeq(b, c + m + 1, r)
          BY <5>1, <5>2, PieceCut
        <5> QED
          BY <5>3, Zenon DEF m
      <4>6. SubSeq(wAcc, 1, 6 + u) = SubSeq(b, c + 1, e)
        BY <1>2, <3>1, <4>3, Zenon
      <4>7. SubSeq(wAcc, 6 + u + 1, Len(wAcc)) = SubSeq(b, e + 1, r)
        BY <1>2, <1>3, <3>1, <4>3, Zenon
      <4>8. next.is = "frame" /\ next.frame = f /\ next.rest = SubSeq(b, e + 1, r)
        BY <1>1, <2>1, <4>1, <4>6, <4>7
      <4> QED
        BY <2>1, <2>9, <4>2, <4>8 DEF next, n, e, r, f, b
    <3> QED
      BY <3>2, <3>3, Zenon
  <2> QED
    BY <2>8, <2>9, Zenon
<1> QED
  BY <1>4, <1>5, Zenon

\* How far the stream has been read and cut, in numbers.
LEMMA StreamPlaces ==
  ASSUME StreamInv
  PROVE  /\ wStream.bytes \in Seq(Nat) /\ Len(wStream.bytes) \in Nat /\ Len(wStream.ends) \in Nat
         /\ Len(wFrames) \in Nat /\ Len(wFrames) <= Len(wStream.ends)
         /\ Received \in Nat /\ Cut \in Nat /\ Cut <= Received /\ Received <= Len(wStream.bytes)
<1>1. /\ wStream \in Streams /\ Len(wFrames) \in Nat /\ Len(wFrames) <= Len(wStream.ends)
      /\ Cut <= Received /\ Received <= Len(wStream.bytes)
  BY DEF StreamInv
<1>2. wStream.bytes \in Seq(Nat) /\ Len(wStream.bytes) \in Nat /\ Len(wStream.ends) \in Nat
  BY <1>1, FramesInStream, Zenon
<1>3. Cut \in Nat
  <2>1. Len(wFrames) + 1 \in 1 .. Len(wStream.ends) \/ Len(wFrames) + 1 = Len(wStream.ends) + 1
    BY <1>1, <1>2
  <2> QED
    BY <1>1, <1>2, <2>1, FramesInStream, Zenon DEF Cut
<1>4. Len(wIn) \in Nat
  BY DEF StreamInv
<1>5. Received \in Nat
  BY <1>1, <1>2, <1>3, <1>4 DEF Received
<1> QED
  BY <1>1, <1>2, <1>3, <1>5, Zenon

\* Nothing is read and nothing is cut when a connection is accepted.
LEMMA StreamInvInit == StreamInit => StreamInv
<1> SUFFICES ASSUME StreamInit PROVE StreamInv
  OBVIOUS
<1> DEFINE b == wStream.bytes
<1>1. wStream \in Streams /\ wIn = b /\ wAcc = <<>> /\ wAt = "read" /\ wFrames = <<>> /\ Len(wFrames) = 0
  BY DEF StreamInit
<1>2. /\ b \in Seq(Nat) /\ Len(b) \in Nat /\ Len(wStream.ends) \in Nat
      /\ 1 \in 1 .. Len(wStream.ends) => wStream.ends[1] \in Nat /\ 6 <= wStream.ends[1]
      /\ StartOf(wStream, 1) = 0
  <2>1. wStream \in Streams
    BY <1>1, Zenon
  <2>2. \A i \in 1 .. Len(wStream.ends) :
          wStream.ends[i] \in Nat /\ StartOf(wStream, i) + 6 <= wStream.ends[i]
    BY <2>1, FramesInStream, Zenon
  <2>3. StartOf(wStream, 1) = 0 /\ 0 + 6 = 6
    BY <2>1, FramesInStream
  <2> QED
    BY <2>1, <2>2, <2>3, FramesInStream, Zenon
<1>3. Cut = 0
  BY <1>1, <1>2 DEF Cut
<1>4. Received = 0
  BY <1>1, <1>2 DEF Received
<1>5. SubSeq(b, 0 + 1, Len(b)) = b /\ SubSeq(b, 0 + 1, 0) = <<>>
  BY <1>2
<1>6. FramesAsSent
  <2>1. 0 < Len(wStream.ends) => 1 \in 1 .. Len(wStream.ends)
    BY <1>2
  <2>2. 0 < Len(wStream.ends) => Received < wStream.ends[0 + 1]
    <3>1. 0 + 1 = 1 /\ \A k \in Nat : 6 <= k => 0 < k
      BY SMT
    <3> QED
      BY <1>2, <1>4, <2>1, <3>1, Zenon
  <2>3. 0 <= Len(wStream.ends) /\ 1 .. 0 = {} /\ wAt # "malformed"
    BY <1>1, <1>2
  <2> QED
    BY <1>1, <2>2, <2>3, Zenon DEF FramesAsSent, Received
<1>7. wFrames \in Seq(Seq(Nat)) /\ wIn \in Seq(Nat) /\ 0 <= Len(b) /\ 0 <= 0 /\ 0 <= Len(wStream.ends)
  BY <1>1, <1>2
<1> QED
  BY <1>1, <1>3, <1>4, <1>5, <1>6, <1>7, Zenon DEF StreamInv

\* A read moves the next bytes of the stream from wIn to wAcc.
LEMMA ReadKeepsStreamInv ==
  ASSUME StreamInv, NEW n \in 1 .. MaxMessageSize, WRead(n)
  PROVE  StreamInv'
<1> DEFINE b == wStream.bytes
           r == Received
           c == Cut
           l == Len(b)
<1>1. /\ b \in Seq(Nat) /\ l \in Nat /\ r \in Nat /\ c \in Nat /\ c <= r /\ r <= l
  BY StreamPlaces, Zenon
<1>2. /\ wIn = SubSeq(b, r + 1, l) /\ wAcc = SubSeq(b, c + 1, r)
  BY Zenon DEF StreamInv
<1>3. /\ n <= Len(wIn) /\ wAcc' = wAcc \o SubSeq(wIn, 1, n) /\ wIn' = SubSeq(wIn, n + 1, Len(wIn))
      /\ wAt' = "frames" /\ wStream' = wStream /\ wFrames' = wFrames
  BY DEF WRead
<1>4. n \in Nat /\ MaxMessageSize \in Nat
  BY StreamAssumption
<1>5. c' = c /\ b' = b /\ l' = l
  BY <1>3, Zenon DEF Cut
<1> HIDE DEF b, c
<1>6. Len(wIn) = l - r
  <2>1. Len(SubSeq(b, r + 1, l)) = l - r
    BY <1>1, PieceOf
  <2> QED
    BY <1>2, <2>1, Zenon
<1> HIDE DEF r, l
<1>7. r + n \in Nat /\ r <= r + n /\ c <= r + n /\ r + n <= l /\ n <= l - r
  <2>1. n <= l - r
    BY <1>3, <1>6, Zenon
  <2> QED
    BY <1>1, <1>4, <2>1
<1>8. /\ SubSeq(SubSeq(b, r + 1, l), 1, n) = SubSeq(b, r + 1, r + n)
      /\ SubSeq(SubSeq(b, r + 1, l), n + 1, l - r) = SubSeq(b, r + n + 1, l)
  <2>1. l <= Len(b)
    BY <1>1 DEF l
  <2> QED
    BY <1>1, <1>4, <1>7, <2>1, PieceCut
<1>9. wIn' = SubSeq(b, r + n + 1, l)
  BY <1>2, <1>3, <1>6, <1>8, Zenon
<1>10. wAcc' = SubSeq(b, c + 1, r + n)
  <2>1. SubSeq(b, c + 1, r) \o SubSeq(b, r + 1, r + n) = SubSeq(b, c + 1, r + n)
    <3>1. r + n <= Len(b)
      BY <1>7 DEF l
    <3> QED
      BY <1>1, <1>7, <3>1, PiecesJoin
  <2> QED
    BY <1>2, <1>3, <1>8, <2>1, Zenon
<1>11. wIn' \in Seq(Nat) /\ Len(wIn') = l - (r + n)
  <2>1. /\ SubSeq(b, r + n + 1, l) \in Seq(Nat) /\ Len(SubSeq(b, r + n + 1, l)) = l - (r + n)
    <3>1. l <= Len(b)
      BY <1>1 DEF l
    <3> QED
      BY <1>1, <1>7, <3>1, PieceOf
  <2> QED
    BY <1>9, <2>1, Zenon
<1>12. Received' = r + n
  <2>1. Received' = l - Len(wIn')
    BY <1>5, Zenon DEF Received, l, b
  <2>2. l - (l - (r + n)) = r + n
    BY <1>1, <1>7
  <2> QED
    BY <1>11, <2>1, <2>2, Zenon
<1>13. FramesAsSent'
  <2>1. wAt' # "read" /\ wAt' # "malformed"
    BY <1>3
  <2>2. FramesAsSent
    BY Zenon DEF StreamInv
  <2> QED
    BY <1>3, <2>1, <2>2, Zenon DEF FramesAsSent, Refused, FrameBytes, StartOf
<1>14. wStream' \in Streams /\ wFrames' \in Seq(Seq(Nat)) /\ Len(wFrames') <= Len(wStream'.ends)
  BY <1>3, Zenon DEF StreamInv
<1>15. Cut' <= Received' /\ Received' <= Len(wStream.bytes')
  BY <1>5, <1>7, <1>12, Zenon DEF c, l, b
<1>16. /\ wIn' = SubSeq(wStream.bytes', Received' + 1, Len(wStream.bytes'))
       /\ wAcc' = SubSeq(wStream.bytes', Cut' + 1, Received')
  BY <1>5, <1>9, <1>10, <1>12, Zenon DEF c, l, b
<1> QED
  BY <1>11, <1>13, <1>14, <1>15, <1>16, Zenon DEF StreamInv

\* A step that only says where the loop is.
LEMMA MoveKeepsStreamInv ==
  ASSUME StreamInv, UNCHANGED <<wStream, wIn, wAcc, wFrames>>, FramesAsSent'
  PROVE  StreamInv'
<1>1. wStream' = wStream /\ wIn' = wIn /\ wAcc' = wAcc /\ wFrames' = wFrames
  OBVIOUS
<1>2. Received' = Received /\ Cut' = Cut
  BY <1>1, Zenon DEF Received, Cut, StartOf
<1> QED
  BY <1>1, <1>2, Zenon DEF StreamInv

\* The loop waits, ends, or drops the connection where nextFrame tells it to.
LEMMA LoopKeepsStreamInv ==
  ASSUME StreamInv, WReadFails \/ NeedMore \/ FrameError
  PROVE  StreamInv'
<1> DEFINE n == Len(wFrames) + 1
<1>1. UNCHANGED <<wStream, wIn, wAcc, wFrames>>
  BY Zenon DEF WReadFails, NeedMore, FrameError
<1>2. wStream' = wStream /\ wIn' = wIn /\ wAcc' = wAcc /\ wFrames' = wFrames
  BY <1>1
<1>3. FramesAsSent
  BY Zenon DEF StreamInv
<1>4. wAt' = "read" /\ Len(wFrames) < Len(wStream.ends) => Received < wStream.ends[n]
  <2> SUFFICES ASSUME wAt' = "read", Len(wFrames) < Len(wStream.ends) PROVE Received < wStream.ends[n]
    OBVIOUS
  <2>1. NeedMore
    BY DEF WReadFails, FrameError
  <2>2. n <= Len(wStream.ends)
    BY StreamPlaces
  <2> QED
    BY <2>1, <2>2, NextIsFrame, Zenon DEF NeedMore
<1>5. wAt' = "malformed" => Len(wFrames) < Len(wStream.ends) /\ Refused(wStream, n)
  <2> SUFFICES ASSUME wAt' = "malformed" PROVE Len(wFrames) < Len(wStream.ends) /\ Refused(wStream, n)
    OBVIOUS
  <2>1. FrameError
    BY DEF WReadFails, NeedMore
  <2>2. n <= Len(wStream.ends) /\ Refused(wStream, n)
    BY <2>1, NextIsFrame, Zenon DEF FrameError
  <2>3. n <= Len(wStream.ends) => Len(wFrames) < Len(wStream.ends)
    BY StreamPlaces
  <2> QED
    BY <2>2, <2>3, Zenon
<1>6. FramesAsSent'
  BY <1>2, <1>3, <1>4, <1>5, Zenon DEF FramesAsSent, Refused, FrameBytes, StartOf, Received
<1> QED
  BY <1>1, <1>6, MoveKeepsStreamInv, Zenon

\* The elements of a sequence with one more.
LEMMA AppendAt ==
  ASSUME NEW s \in Seq(Seq(Nat)), NEW x \in Seq(Nat)
  PROVE  /\ Append(s, x) \in Seq(Seq(Nat)) /\ Len(Append(s, x)) = Len(s) + 1
         /\ \A i \in 1 .. Len(s) + 1 : Append(s, x)[i] = IF i = Len(s) + 1 THEN x ELSE s[i]
  OBVIOUS

\* A frame that is taken is the next one, and wAcc goes on behind it.
LEMMA TakeKeepsStreamInv ==
  ASSUME StreamInv, NEW to \in {"frames", "panic", "unanswered"}, Take(to)
  PROVE  StreamInv'
<1> DEFINE n == Len(wFrames) + 1
           e == wStream.ends[n]
           next == nextFrame(wAcc, MaxMessageSize)
<1>1. /\ next.is = "frame" /\ wAcc' = next.rest /\ wFrames' = Append(wFrames, next.frame)
      /\ wAt' = to /\ wStream' = wStream /\ wIn' = wIn
  BY DEF Take
<1>2. /\ n <= Len(wStream.ends) /\ ~Refused(wStream, n) /\ e <= Received
      /\ next.frame = FrameBytes(wStream, n)
      /\ next.rest = SubSeq(wStream.bytes, e + 1, Received)
  BY <1>1, NextIsFrame, Zenon
<1>3. /\ wStream \in Streams /\ wFrames \in Seq(Seq(Nat)) /\ Received <= Len(wStream.bytes) /\ wIn \in Seq(Nat)
      /\ wIn = SubSeq(wStream.bytes, Received + 1, Len(wStream.bytes)) /\ FramesAsSent
  BY Zenon DEF StreamInv
<1>4. n \in 1 .. Len(wStream.ends) /\ Len(wFrames) \in Nat
  BY <1>2, StreamPlaces
<1>5. /\ StartOf(wStream, n) \in Nat /\ e \in Nat /\ StartOf(wStream, n + 1) = e
      /\ StartOf(wStream, n) + 6 <= e /\ e <= Len(wStream.bytes) /\ wStream.bytes \in Seq(Nat)
  BY <1>3, <1>4, FramesInStream, Zenon
<1> HIDE DEF next
<1>6. FrameBytes(wStream, n) \in Seq(Nat)
  <2> DEFINE x == StartOf(wStream, n)
  <2>1. x \in Nat /\ e \in Nat /\ x + 6 <= e /\ e <= Len(wStream.bytes) /\ wStream.bytes \in Seq(Nat)
    BY <1>5, Zenon
  <2> HIDE DEF x, e
  <2>2. SubSeq(wStream.bytes, x + 1, e) \in Seq(Nat)
    BY <2>1, PieceOf
  <2> QED
    BY <2>2, Zenon DEF x, e, FrameBytes
<1>7. /\ wFrames' \in Seq(Seq(Nat)) /\ Len(wFrames') = n
      /\ \A i \in 1 .. n : wFrames'[i] = IF i = n THEN FrameBytes(wStream, n) ELSE wFrames[i]
  <2> DEFINE x == FrameBytes(wStream, n)
  <2>1. x \in Seq(Nat) /\ wFrames \in Seq(Seq(Nat)) /\ wFrames' = Append(wFrames, x)
    BY <1>1, <1>2, <1>3, <1>6, Zenon
  <2> HIDE DEF x
  <2>2. /\ Append(wFrames, x) \in Seq(Seq(Nat)) /\ Len(Append(wFrames, x)) = n
        /\ \A i \in 1 .. n : Append(wFrames, x)[i] = IF i = n THEN x ELSE wFrames[i]
    BY <2>1, AppendAt
  <2> QED
    BY <2>1, <2>2, Zenon DEF x
<1>8. Received' = Received
  BY <1>1, Zenon DEF Received
<1>9. Cut' = e
  BY <1>1, <1>5, <1>7, Zenon DEF Cut, StartOf
<1>10. FramesAsSent'
  <2>1. wAt' # "read" /\ wAt' # "malformed"
    BY <1>1
  <2>2. ASSUME NEW i \in 1 .. n
        PROVE  wFrames'[i] = FrameBytes(wStream, i) /\ ~Refused(wStream, i)
    <3>1. CASE i = n
      BY <1>2, <1>7, <3>1, Zenon
    <3>2. CASE i # n
      <4>1. i \in 1 .. Len(wFrames)
        BY <1>4, <3>2
      <4>2. wFrames[i] = FrameBytes(wStream, i) /\ ~Refused(wStream, i)
        BY <1>3, <4>1, Zenon DEF FramesAsSent
      <4> QED
        BY <1>7, <3>2, <4>2, Zenon
    <3> QED
      BY <3>1, <3>2, Zenon
  <2>3. \A i \in 1 .. Len(wFrames') : wFrames'[i] = FrameBytes(wStream', i) /\ ~Refused(wStream', i)
    BY <1>1, <1>7, <2>2, Zenon
  <2>4. Len(wFrames') <= Len(wStream'.ends)
    BY <1>1, <1>2, <1>7, Zenon
  <2> QED
    BY <2>1, <2>3, <2>4, Zenon DEF FramesAsSent, Refused, FrameBytes, StartOf
<1>11. wAcc' = SubSeq(wStream.bytes, e + 1, Received)
  BY <1>1, <1>2, Zenon DEF next
<1> QED
  BY <1>1, <1>2, <1>3, <1>7, <1>8, <1>9, <1>10, <1>11, Zenon DEF StreamInv

\* However the bytes arrive, the frames the loop takes are those that were written,
\* and it waits and drops the connection only where it must.
THEOREM FramesAreCutAsSent == StreamSpec => []FramesAsSent
<1>1. StreamInv /\ [StreamNext]_streamVars => StreamInv'
  <2> SUFFICES ASSUME StreamInv, [StreamNext]_streamVars PROVE StreamInv'
    OBVIOUS
  <2>1. CASE \E n \in 1 .. MaxMessageSize : WRead(n)
    BY <2>1, ReadKeepsStreamInv, Zenon
  <2>2. CASE WReadFails \/ NeedMore \/ FrameError
    BY <2>2, LoopKeepsStreamInv, Zenon
  <2>3. CASE \E to \in {"frames", "panic", "unanswered"} : Take(to)
    BY <2>3, TakeKeepsStreamInv, Zenon
  <2>4. CASE UNCHANGED streamVars
    <3>1. UNCHANGED <<wStream, wIn, wAcc, wFrames>> /\ wAt' = wAt
      BY <2>4 DEF streamVars
    <3>2. wStream' = wStream /\ wIn' = wIn /\ wFrames' = wFrames
      BY <3>1
    <3>3. FramesAsSent'
      BY <3>1, <3>2, Zenon DEF StreamInv, FramesAsSent, Refused, FrameBytes, StartOf
    <3> QED
      BY <3>1, <3>3, MoveKeepsStreamInv, Zenon
  <2> QED
    BY <2>1, <2>2, <2>3, <2>4, Zenon DEF StreamNext, ReadStep
<1>2. StreamInv => FramesAsSent
  BY Zenon DEF StreamInv
<1> QED
  BY <1>1, <1>2, StreamInvInit, PTL DEF StreamSpec

-----------------------------------------------------------------------------
(* The session.                                                            *)

RoomName == {Movie, AllUsers, Group}
Rebound == {"logonIP", "logonUnregister", "logonRegister", "logonLevel",
            "joinMovie", "joinAllUsers", "setMovieID"}
Unbound == {"new", "unregister", "close", "done"}
Place == {"register", "reading", "respond", "logonCheck", "logonRemap",
          "groupCheck", "groupJoin", "deleting"} \cup Rebound \cup Unbound

LifeType ==
  /\ clients \in [ID -> Conn \cup {NoConn}]
  /\ connToID \in [Conn -> ID \cup {NoID}]
  /\ shared \subseteq ID
  /\ pc \in [Conn -> Place]
  /\ cur \in [Conn -> ID \cup {NoID}]
  /\ want \in [Conn -> ID \cup {NoID}]

MapsInverse ==
  /\ \A i \in ID : clients[i] # NoConn => connToID[clients[i]] = i
  /\ \A c \in Conn : connToID[c] # NoID => clients[connToID[c]] = c \/ connToID[c] \in shared

\* The goroutine of c works under id i: it is bound to it, unless i is shared and
\* the other goroutine that goes by i has rebound its socket, to a shared id.
Own(c, i) == i \in ID /\ (i = connToID[c] \/ (i \in shared /\ connToID[c] \in shared))

\* What holds of the goroutine of c: the id it is bound to and the ids in its
\* local variables.
ConnOK(c) ==
  /\ connToID[c] = NoID <=> pc[c] \in Unbound
  /\ pc[c] = "register" => Own(c, Addr[c])
  /\ pc[c] \in {"logonCheck", "logonRemap", "groupCheck", "groupJoin"} => Own(c, cur[c])
  /\ pc[c] \in {"logonCheck", "logonRemap"} => want[c] \in ID
  /\ pc[c] \in Rebound => Own(c, want[c])
  /\ pc[c] \in {"logonIP", "logonUnregister", "unregister"} => cur[c] \in ID

\* A reaper works on ids.
VictimOK ==
  /\ victims \in [Actor -> SUBSET ID]
  /\ victim \in [Actor -> ID \cup {NoID}]
  /\ apc \in [Actor -> {"idle", "leave", "unregister", "lookup", "close"}]
  /\ \A a \in Actor : apc[a] = "unregister" => victim[a] \in ID

StoreOK ==
  /\ DOMAIN connections \subseteq ID /\ DOMAIN rooms \subseteq RoomName
  /\ \A r \in RoomName, i \in ID : i \in Store!GetRoomMembers(r) <=> r \in Store!GetClientRooms(i)

Level(id) == Store!GetUserAttribute(id, "level")

\* From its acceptance on, and again from the moment its level is stamped, until
\* it is bound to another id, a connection finds its own level or none.
Stamped == {"register", "reading", "respond", "logonCheck", "logonRemap", "joinMovie",
            "joinAllUsers", "setMovieID", "groupCheck", "groupJoin", "deleting"}
LevelOK ==
  \A c \in Conn, id \in ID \ shared :
    pc[c] \in Stamped /\ connToID[c] = id => Level(id) \in {Void, c}

LifeInv ==
  /\ LifeType /\ MapsInverse /\ VictimOK
  /\ \A c \in Conn : ConnOK(c)
  /\ StoreOK /\ NoOrphanedState /\ LevelOK

\* Where a goroutine is about to clear the id in its local variable.
Clearing == {"logonIP", "logonUnregister", "unregister"}

\* A step that changes the local state of no goroutine but that of c.
LocalStep(c) ==
  /\ pc' \in [Conn -> Place] /\ cur' \in [Conn -> ID \cup {NoID}] /\ want' \in [Conn -> ID \cup {NoID}]
  /\ \A d \in Conn \ {c} : pc'[d] = pc[d] /\ cur'[d] = cur[d] /\ want'[d] = want[d]

-----------------------------------------------------------------------------
(* What the store's operations do to the state of an id.                   *)

\* No store operation: nothing changes.
LEMMA StoreUntouched ==
  ASSUME StoreOK, UNCHANGED memVars
  PROVE  /\ StoreOK'
         /\ \A id \in ID : HasState(id)' <=> HasState(id)
         /\ \A id \in ID : Level(id)' = Level(id)
  BY Zenon DEF memVars, StoreOK, HasState, Level, Store!GetRoomMembers, Store!GetClientRooms,
         Store!GetUserAttribute

\* A registration adds state for its own id only, and no level.
LEMMA RegisterAdds ==
  ASSUME StoreOK, NEW i \in ID, NEW p, Store!RegisterConnection(i, p, Now)
  PROVE  /\ StoreOK'
         /\ \A id \in ID : HasState(id)' => HasState(id) \/ id = i
         /\ \A id \in ID : Level(id)' = Level(id)
<1>1. /\ UNCHANGED <<attributes, rooms, clientRooms>>
      /\ DOMAIN connections' = DOMAIN connections \cup {i}
  BY Zenon DEF Store!RegisterConnection, Store!With
<1> QED
  BY <1>1, Zenon DEF StoreOK, HasState, Level, Store!GetRoomMembers, Store!GetClientRooms,
              Store!GetUserAttribute

\* UpdateLastActivity never brings a removed session back.
LEMMA UpdateAddsNothing ==
  ASSUME StoreOK, NEW i, Store!UpdateLastActivity(i, Now)
  PROVE  /\ StoreOK'
         /\ \A id \in ID : HasState(id)' <=> HasState(id)
         /\ \A id \in ID : Level(id)' = Level(id)
<1>1. /\ UNCHANGED <<attributes, rooms, clientRooms>>
      /\ DOMAIN connections' = DOMAIN connections
  BY Zenon DEF Store!UpdateLastActivity
<1> QED
  BY <1>1, Zenon DEF StoreOK, HasState, Level, Store!GetRoomMembers, Store!GetClientRooms,
              Store!GetUserAttribute

\* An attribute adds state for its own id only; a level is one of them.
LEMMA AttributeAdds ==
  ASSUME StoreOK, NEW i \in ID, NEW a, NEW v, Store!SetUserAttribute(i, a, v)
  PROVE  /\ StoreOK'
         /\ \A id \in ID : HasState(id)' => HasState(id) \/ id = i
         /\ \A id \in ID : Level(id)' = IF id = i /\ a = "level" THEN v ELSE Level(id)
<1>1. /\ UNCHANGED <<connections, rooms, clientRooms>>
      /\ attributes' = Store!With(attributes, i,
           Store!With(IF i \in DOMAIN attributes THEN attributes[i] ELSE <<>>, a, v))
  BY Zenon DEF Store!SetUserAttribute
<1>2. /\ DOMAIN attributes' = DOMAIN attributes \cup {i}
      /\ \A x \in DOMAIN attributes : x # i => attributes'[x] = attributes[x]
      /\ attributes'[i] = Store!With(IF i \in DOMAIN attributes THEN attributes[i] ELSE <<>>, a, v)
  BY <1>1, Zenon DEF Store!With
<1>3. /\ i \in DOMAIN attributes =>
           /\ DOMAIN attributes'[i] = DOMAIN attributes[i] \cup {a}
           /\ \A x \in DOMAIN attributes[i] : x # a => attributes'[i][x] = attributes[i][x]
      /\ i \notin DOMAIN attributes => DOMAIN attributes'[i] = {a}
      /\ attributes'[i][a] = v
  BY <1>2 DEF Store!With
<1>4. \A id \in ID : Level(id)' = IF id = i /\ a = "level" THEN v ELSE Level(id)
  BY <1>2, <1>3, Zenon DEF Level, Store!GetUserAttribute
<1>5. StoreOK' /\ \A id \in ID : HasState(id)' => HasState(id) \/ id = i
  BY <1>1, <1>2, Zenon DEF StoreOK, HasState, Store!GetRoomMembers, Store!GetClientRooms
<1> QED
  BY <1>4, <1>5, Zenon

\* Joining a room adds state for its own id only, in both indexes.
LEMMA JoinAdds ==
  ASSUME StoreOK, NEW i \in ID, NEW q \in RoomName, Store!JoinRoom(q, i)
  PROVE  /\ StoreOK'
         /\ \A id \in ID : HasState(id)' => HasState(id) \/ id = i
         /\ \A id \in ID : Level(id)' = Level(id)
<1>1. /\ UNCHANGED <<connections, attributes>>
      /\ rooms' = Store!With(rooms, q, Store!GetRoomMembers(q) \cup {i})
      /\ clientRooms' = Store!With(clientRooms, i, Store!GetClientRooms(i) \cup {q})
  BY Zenon DEF Store!JoinRoom
<1>2. /\ DOMAIN rooms' = DOMAIN rooms \cup {q}
      /\ \A r \in RoomName : Store!GetRoomMembers(r)' =
           IF r = q THEN Store!GetRoomMembers(r) \cup {i} ELSE Store!GetRoomMembers(r)
  BY <1>1, Zenon DEF Store!With, Store!GetRoomMembers
<1>3. \A d \in ID : Store!GetClientRooms(d)' =
        IF d = i THEN Store!GetClientRooms(d) \cup {q} ELSE Store!GetClientRooms(d)
  BY <1>1, Zenon DEF Store!With, Store!GetClientRooms
<1>4. StoreOK'
  BY <1>1, <1>2, <1>3 DEF StoreOK
<1>5. \A id \in ID : HasState(id)' => HasState(id) \/ id = i
  <2> SUFFICES ASSUME NEW id \in ID, HasState(id)', id # i PROVE HasState(id)
    BY Zenon
  <2>1. \/ id \in DOMAIN connections' \/ id \in DOMAIN attributes'
        \/ \E r \in DOMAIN rooms' : id \in rooms'[r]
    BY Zenon DEF HasState
  <2>2. ASSUME NEW r \in DOMAIN rooms', id \in rooms'[r] PROVE id \in Store!GetRoomMembers(r)
    BY <2>2, <1>2, <1>4, Zenon DEF StoreOK, Store!GetRoomMembers
  <2>3. ASSUME NEW r, id \in Store!GetRoomMembers(r) PROVE HasState(id)
    BY <2>3, Zenon DEF HasState, Store!GetRoomMembers
  <2> QED
    BY <1>1, <2>1, <2>2, <2>3, Zenon DEF HasState
<1>6. \A id \in ID : Level(id)' = Level(id)
  BY <1>1, Zenon DEF Level, Store!GetUserAttribute
<1> QED
  BY <1>4, <1>5, <1>6, Zenon

\* Leaving every room clientRooms lists removes every membership, because the
\* two indexes agree.
LEMMA LeaveRemoves ==
  ASSUME StoreOK, NEW i \in ID,
         rooms' = Store!RoomsAfterLeaving(Store!GetClientRooms(i), i),
         clientRooms' = Store!Without(clientRooms, i),
         DOMAIN connections' \subseteq DOMAIN connections
  PROVE  /\ StoreOK'
         /\ DOMAIN rooms' \subseteq DOMAIN rooms
         /\ \A r \in DOMAIN rooms' : i \notin rooms'[r] /\ rooms'[r] \subseteq rooms[r]
<1> DEFINE rs == Store!GetClientRooms(i)
<1>1. /\ DOMAIN rooms' \subseteq DOMAIN rooms
      /\ \A r \in DOMAIN rooms : r \notin DOMAIN rooms' => r \in rs /\ rooms[r] \subseteq {i}
      /\ \A r \in DOMAIN rooms' : rooms'[r] = IF r \in rs THEN rooms[r] \ {i} ELSE rooms[r]
  BY Zenon DEF Store!RoomsAfterLeaving
<1>2. \A d \in ID : Store!GetClientRooms(d)' = IF d = i THEN {} ELSE Store!GetClientRooms(d)
  BY Zenon DEF Store!Without, Store!GetClientRooms
<1>3. \A r \in RoomName : i \in Store!GetRoomMembers(r) <=> r \in rs
  BY Zenon DEF StoreOK
<1> HIDE DEF rs
<1>4. \A r \in RoomName, d \in ID :
        d \in Store!GetRoomMembers(r)' <=> d \in Store!GetRoomMembers(r) /\ d # i
  BY <1>1, <1>3 DEF Store!GetRoomMembers
<1>5. DOMAIN rooms' \subseteq RoomName
  BY <1>1, Zenon DEF StoreOK
<1>6. StoreOK'
  BY <1>2, <1>4, <1>5, Zenon DEF StoreOK
<1>7. \A r \in DOMAIN rooms' : i \notin rooms'[r] /\ rooms'[r] \subseteq rooms[r]
  BY <1>1, <1>3, <1>5, Zenon DEF Store!GetRoomMembers
<1> QED
  BY <1>1, <1>6, <1>7, Zenon

\* LeaveAllRooms alone leaves connection and attributes.
LEMMA LeaveAllAddsNothing ==
  ASSUME StoreOK, NEW i \in ID, Store!LeaveAllRooms(i)
  PROVE  /\ StoreOK'
         /\ \A id \in ID : HasState(id)' => HasState(id)
         /\ \A id \in ID : Level(id)' = Level(id)
<1>1. /\ UNCHANGED <<connections, attributes>>
      /\ rooms' = Store!RoomsAfterLeaving(Store!GetClientRooms(i), i)
      /\ clientRooms' = Store!Without(clientRooms, i)
  BY Zenon DEF Store!LeaveAllRooms
<1>2. /\ StoreOK' /\ DOMAIN rooms' \subseteq DOMAIN rooms
      /\ \A r \in DOMAIN rooms' : rooms'[r] \subseteq rooms[r]
  BY <1>1, LeaveRemoves, Zenon
<1> QED
  BY <1>1, <1>2, Zenon DEF HasState, Level, Store!GetUserAttribute

\* After UnregisterConnection the store has nothing of the id.
LEMMA UnregisterClears ==
  ASSUME StoreOK, NEW i \in ID, Store!UnregisterConnection(i)
  PROVE  /\ StoreOK'
         /\ \A id \in ID : HasState(id)' => HasState(id) /\ id # i
         /\ \A id \in ID : Level(id)' \in {Void, Level(id)}
<1>1. /\ DOMAIN connections' = DOMAIN connections \ {i}
      /\ DOMAIN attributes' = DOMAIN attributes \ {i}
      /\ \A x \in DOMAIN attributes' : attributes'[x] = attributes[x]
      /\ rooms' = Store!RoomsAfterLeaving(Store!GetClientRooms(i), i)
      /\ clientRooms' = Store!Without(clientRooms, i)
  BY Zenon DEF Store!UnregisterConnection, Store!Without
<1>2. /\ StoreOK' /\ DOMAIN rooms' \subseteq DOMAIN rooms
      /\ \A r \in DOMAIN rooms' : i \notin rooms'[r] /\ rooms'[r] \subseteq rooms[r]
  BY <1>1, LeaveRemoves, Zenon
<1>3. \A id \in ID : HasState(id)' => HasState(id) /\ id # i
  BY <1>1, <1>2, Zenon DEF HasState
<1>4. \A id \in ID : Level(id)' \in {Void, Level(id)}
  BY <1>1, Zenon DEF Level, Store!GetUserAttribute
<1> QED
  BY <1>2, <1>3, <1>4, Zenon

-----------------------------------------------------------------------------
(* What a step must do to keep the invariant.                              *)

\* The server starts with no socket, no session and no removal.
LEMMA LifeInitInv == Init => LifeInv
<1> SUFFICES ASSUME Init PROVE LifeInv
  BY Zenon
<1>1. /\ connections = <<>> /\ attributes = <<>> /\ rooms = <<>> /\ clientRooms = <<>>
      /\ clients = [i \in ID |-> NoConn] /\ connToID = [c \in Conn |-> NoID]
  BY Zenon DEF Init, Store!Init, Pool!Init
<1>2. LifeType /\ MapsInverse /\ VictimOK
  BY <1>1, Zenon DEF Init, LifeType, MapsInverse, VictimOK, Place, Unbound
<1>3. \A c \in Conn : ConnOK(c)
  BY <1>1, Zenon DEF Init, ConnOK, Unbound, Rebound
<1>4. StoreOK /\ NoOrphanedState
  BY <1>1 DEF StoreOK, NoOrphanedState, HasState, Store!GetRoomMembers, Store!GetClientRooms
<1>5. LevelOK
  BY <1>1 DEF LevelOK, Level, Store!GetUserAttribute
<1> QED
  BY <1>2, <1>3, <1>4, <1>5, Zenon DEF LifeInv

\* A step of the goroutine of c keeps the invariant when it adds state only for
\* ids c will clear, keeps clearing what it was to clear, and stamps a level
\* only on the id c is bound to.  It may rebind another socket from one shared id
\* to another.
LEMMA OwnStep ==
  ASSUME LifeInv, NEW c \in Conn,
         LifeType', MapsInverse', VictimOK', StoreOK', ConnOK(c)', shared \subseteq shared',
         \A d \in Conn \ {c} : pc'[d] = pc[d] /\ cur'[d] = cur[d] /\ want'[d] = want[d],
         \A d \in Conn \ {c} : \/ connToID'[d] = connToID[d]
                               \/ connToID[d] \in shared' /\ connToID'[d] \in shared',
         \A id \in ID \ shared' : HasState(id)' => HasState(id) \/ WillClear(c, id)',
         \A id \in ID \ shared' : HasState(id)' /\ WillClear(c, id) => WillClear(c, id)',
         \A id \in ID \ shared' : \/ Level(id)' \in {Void, Level(id)}
                                  \/ connToID'[c] = id /\ Level(id)' = c,
         \A id \in ID \ shared' : pc'[c] \in Stamped /\ connToID'[c] = id => Level(id)' \in {Void, c}
  PROVE  LifeInv'
<1>1. ASSUME NEW d \in Conn PROVE ConnOK(d)'
  <2>1. CASE d = c
    BY <2>1, Zenon
  <2>2. CASE d # c
    <3>1. connToID'[d] = NoID <=> connToID[d] = NoID
      <4>1. NoID \notin shared'
        BY LifecycleAssumption, Zenon DEF LifeType
      <4> QED
        BY <2>2, <4>1, Zenon
    <3>2. ASSUME NEW i, Own(d, i) PROVE Own(d, i)'
      BY <2>2, <3>2, Zenon DEF Own
    <3> QED
      BY <2>2, <3>1, <3>2, Zenon DEF LifeInv, ConnOK
  <2> QED
    BY <2>1, <2>2, Zenon
<1>2. NoOrphanedState'
  <2> SUFFICES ASSUME NEW id \in ID \ shared', HasState(id)' PROVE \E d \in Conn : WillClear(d, id)'
    BY Zenon DEF NoOrphanedState
  <2>1. CASE HasState(id)
    <3>1. PICK d \in Conn : WillClear(d, id)
      BY <2>1, Zenon DEF LifeInv, NoOrphanedState
    <3>2. CASE d = c
      BY <3>1, <3>2, Zenon
    <3>3. CASE d # c
      BY <3>1, <3>3, Zenon DEF WillClear, Pool!CurrentID
    <3> QED
      BY <3>2, <3>3, Zenon
  <2> QED
    BY <2>1, Zenon
<1>3. LevelOK'
  <2> SUFFICES ASSUME NEW d \in Conn, NEW id \in ID \ shared',
                      pc'[d] \in Stamped, connToID'[d] = id
               PROVE  Level(id)' \in {Void, d}
    BY Zenon DEF LevelOK
  <2>1. CASE d = c
    BY <2>1, Zenon
  <2>2. CASE d # c
    <3>1. connToID'[c] # id
      <4>1. id # NoID
        BY LifecycleAssumption, Zenon
      <4> QED
        BY <4>1, <2>2, Zenon DEF MapsInverse
    <3>2. connToID[d] = id /\ pc[d] \in Stamped /\ id \in ID \ shared
      BY <2>2, Zenon
    <3>3. Level(id) \in {Void, d}
      BY <3>2, Zenon DEF LifeInv, LevelOK
    <3> QED
      BY <3>1, <3>3, Zenon
  <2> QED
    BY <2>1, <2>2, Zenon
<1> QED
  BY <1>1, <1>2, <1>3, Zenon DEF LifeInv

\* A step of a reaper keeps the invariant when it adds no state.
LEMMA ForeignStep ==
  ASSUME LifeInv, UNCHANGED <<poolVars, pc, cur, want>>, VictimOK', StoreOK',
         \A id \in ID : HasState(id)' => HasState(id),
         \A id \in ID : Level(id)' \in {Void, Level(id)}
  PROVE  LifeInv'
<1>1. /\ clients' = clients /\ connToID' = connToID /\ shared' = shared
      /\ pc' = pc /\ cur' = cur /\ want' = want
  BY Zenon DEF poolVars
<1>2. LifeType' /\ MapsInverse' /\ \A c \in Conn : ConnOK(c)'
  BY <1>1 DEF LifeInv, LifeType, MapsInverse, ConnOK, Own
<1>3. NoOrphanedState'
  BY <1>1, Zenon DEF LifeInv, NoOrphanedState, WillClear, Pool!CurrentID
<1>4. LevelOK'
  BY <1>1, Zenon DEF LifeInv, LevelOK
<1> QED
  BY <1>2, <1>3, <1>4, Zenon DEF LifeInv

\* A step of the goroutine of c that leaves the pool alone adds state only for
\* the id c works under; an id it was about to clear is cleared or remains.
LEMMA BoundStep ==
  ASSUME LifeInv, NEW c \in Conn, UNCHANGED poolVars, LocalStep(c), VictimOK', StoreOK', ConnOK(c)',
         \A id \in ID \ shared : HasState(id)' => HasState(id) \/ connToID[c] = id,
         \A id \in ID : HasState(id)' /\ pc[c] \in Clearing /\ cur[c] = id =>
                         pc'[c] \in Clearing /\ cur'[c] = id,
         \A id \in ID \ shared : \/ Level(id)' \in {Void, Level(id)}
                                 \/ connToID[c] = id /\ Level(id)' = c,
         pc'[c] \in Stamped =>
           \/ pc[c] \in Stamped
           \/ \A id \in ID \ shared : connToID[c] = id => Level(id)' = c
  PROVE  LifeInv'
<1>1. clients' = clients /\ connToID' = connToID /\ shared' = shared
  BY Zenon DEF poolVars
<1>2. LifeType' /\ MapsInverse'
  BY <1>1, Zenon DEF LifeInv, LifeType, MapsInverse, LocalStep
<1>3. /\ \A d \in Conn \ {c} : pc'[d] = pc[d] /\ cur'[d] = cur[d] /\ want'[d] = want[d]
      /\ \A d \in Conn \ {c} : connToID'[d] = connToID[d]
  BY <1>1, Zenon DEF LocalStep
<1>4. \A id \in ID : WillClear(c, id) <=> connToID[c] = id \/ (pc[c] \in Clearing /\ cur[c] = id)
  BY Zenon DEF WillClear, Pool!CurrentID, Clearing
<1>5. \A id \in ID : WillClear(c, id)' <=> connToID[c] = id \/ (pc'[c] \in Clearing /\ cur'[c] = id)
  BY <1>1, Zenon DEF WillClear, Pool!CurrentID, Clearing
<1>6. \A id \in ID \ shared' : HasState(id)' => HasState(id) \/ WillClear(c, id)'
  BY <1>1, <1>5, Zenon
<1>7. \A id \in ID \ shared' : HasState(id)' /\ WillClear(c, id) => WillClear(c, id)'
  BY <1>4, <1>5, Zenon
<1>8. \A id \in ID \ shared' : \/ Level(id)' \in {Void, Level(id)}
                               \/ connToID'[c] = id /\ Level(id)' = c
  BY <1>1, Zenon
<1>9. ASSUME NEW id \in ID \ shared', pc'[c] \in Stamped, connToID'[c] = id PROVE Level(id)' \in {Void, c}
  <2>1. CASE pc[c] \in Stamped
    <3>1. Level(id) \in {Void, c}
      BY <1>1, <1>9, <2>1, Zenon DEF LifeInv, LevelOK
    <3> QED
      BY <3>1, <1>8, Zenon
  <2> QED
    BY <1>1, <1>9, <2>1, Zenon
<1> QED
  BY <1>1, <1>2, <1>3, <1>6, <1>7, <1>8, <1>9, OwnStep, Zenon

\* Who does not run a removal leaves the reapers alone.
LEMMA ReapersKept == LifeInv /\ UNCHANGED reaperVars => VictimOK'
  BY Zenon DEF LifeInv, VictimOK, reaperVars

-----------------------------------------------------------------------------
(* The steps of a goroutine that only read the store.                      *)

\* A goroutine past its registration and before its teardown is bound.
LEMMA BoundToID ==
  ASSUME LifeInv, NEW c \in Conn, pc[c] \notin Unbound
  PROVE  connToID[c] \in ID
  BY Zenon DEF LifeInv, LifeType, ConnOK

\* A step that only moves its goroutine changes neither the maps nor the store.
LEMMA ReadOnlyStep ==
  ASSUME LifeInv, NEW c \in Conn, UNCHANGED poolVars, UNCHANGED memVars, LocalStep(c), VictimOK',
         ConnOK(c)',
         pc[c] \in Clearing => pc'[c] \in Clearing /\ cur'[c] = cur[c],
         pc'[c] \in Stamped => pc[c] \in Stamped
  PROVE  LifeInv'
<1>1. /\ StoreOK'
      /\ \A id \in ID : HasState(id)' <=> HasState(id)
      /\ \A id \in ID : Level(id)' = Level(id)
  BY StoreUntouched, Zenon DEF LifeInv
<1> QED
  BY <1>1, BoundStep, Zenon

\* The last step of the teardown closes the socket; its id is free by then.
LEMMA CloseSocketStep ==
  ASSUME LifeInv, NEW c \in Conn, CloseSocket(c)
  PROVE  LifeInv'
<1>1. /\ pc[c] = "close" /\ pc'[c] = "done" /\ UNCHANGED <<poolVars, memVars, reaperVars>>
      /\ LocalStep(c)
  BY Zenon DEF CloseSocket, Goto, LocalStep, locals, LifeInv, LifeType, Place, Unbound
<1>2. ConnOK(c)'
  BY <1>1, Zenon DEF LifeInv, ConnOK, Own, poolVars, Unbound, Rebound
<1> QED
  BY <1>1, <1>2, ReapersKept, ReadOnlyStep, Zenon DEF Clearing, Stamped

\* A Logon asks for a user id or for the id its socket is bound to.
LEMMA ReceiveLogonStep ==
  ASSUME LifeInv, NEW c \in Conn, NEW u \in ID, ReceiveLogon(c, u)
  PROVE  LifeInv'
<1>1. /\ pc[c] = "reading" /\ pc'[c] = "logonCheck"
      /\ UNCHANGED <<poolVars, memVars, reaperVars>>
      /\ cur' = [cur EXCEPT ![c] = connToID[c]] /\ want' = [want EXCEPT ![c] = u]
      /\ u \in User \cup {connToID[c]}
  BY Zenon DEF ReceiveLogon, Goto, LifeInv, LifeType, Pool!CurrentID
<1>2. LocalStep(c)
  BY <1>1 DEF ReceiveLogon, Goto, LocalStep, LifeInv, LifeType, Place
<1>3. ConnOK(c)'
  BY <1>1, Zenon DEF LifeInv, LifeType, ConnOK, Own, poolVars, Unbound, Rebound
<1> QED
  BY <1>1, <1>2, <1>3, ReapersKept, ReadOnlyStep, Zenon DEF Clearing, Stamped

\* The takeover guard of Logon only reads the store.
LEMMA LogonCheckStep ==
  ASSUME LifeInv, NEW c \in Conn, LogonCheck(c)
  PROVE  LifeInv'
<1>1. /\ pc[c] = "logonCheck" /\ pc'[c] \in {"respond", "logonRemap"}
      /\ UNCHANGED <<poolVars, memVars, reaperVars, cur, want>>
      /\ LocalStep(c)
  BY Zenon DEF LogonCheck, Goto, LocalStep, locals, LifeInv, LifeType, Place
<1>2. ConnOK(c)'
  BY <1>1, Zenon DEF LifeInv, ConnOK, Own, poolVars, Unbound, Rebound
<1> QED
  BY <1>1, <1>2, ReapersKept, ReadOnlyStep, Zenon DEF Clearing, Stamped

\* Logon reads the address of the session it is about to drop.
LEMMA LogonIPStep ==
  ASSUME LifeInv, NEW c \in Conn, LogonIP(c)
  PROVE  LifeInv'
<1>1. /\ pc[c] = "logonIP" /\ pc'[c] = "logonUnregister"
      /\ UNCHANGED <<poolVars, memVars, reaperVars, cur, want>>
      /\ LocalStep(c)
  BY Zenon DEF LogonIP, Goto, LocalStep, LifeInv, LifeType, Place, Rebound
<1>2. ConnOK(c)'
  BY <1>1, Zenon DEF LifeInv, ConnOK, Own, poolVars, Unbound, Rebound
<1> QED
  BY <1>1, <1>2, ReapersKept, ReadOnlyStep, Zenon DEF Clearing, Stamped

\* A join command arrives: the id is read before the handler runs.
LEMMA ReceiveGroupJoinStep ==
  ASSUME LifeInv, NEW c \in Conn, ReceiveGroupJoin(c)
  PROVE  LifeInv'
<1>1. /\ pc[c] = "reading" /\ pc'[c] \in {"groupCheck", "respond"}
      /\ UNCHANGED <<poolVars, memVars, reaperVars, want>>
      /\ cur' = [cur EXCEPT ![c] = connToID[c]]
  BY Zenon DEF ReceiveGroupJoin, Goto, LifeInv, LifeType, Pool!CurrentID
<1>2. LocalStep(c)
  BY <1>1 DEF ReceiveGroupJoin, Goto, LocalStep, LifeInv, LifeType, Place
<1>3. ConnOK(c)'
  BY <1>1, Zenon DEF LifeInv, LifeType, ConnOK, Own, poolVars, Unbound, Rebound
<1> QED
  BY <1>1, <1>2, <1>3, ReapersKept, ReadOnlyStep, Zenon DEF Clearing, Stamped

\* A join command asks whether its sender is in the movie.
LEMMA GroupCheckStep ==
  ASSUME LifeInv, NEW c \in Conn, GroupCheck(c)
  PROVE  LifeInv'
<1>1. /\ pc[c] = "groupCheck" /\ pc'[c] \in {"groupJoin", "respond"}
      /\ UNCHANGED <<poolVars, memVars, reaperVars, cur, want>>
      /\ LocalStep(c)
  BY Zenon DEF GroupCheck, Goto, LocalStep, locals, LifeInv, LifeType, Place
<1>2. ConnOK(c)'
  BY <1>1, Zenon DEF LifeInv, ConnOK, Own, poolVars, Unbound, Rebound
<1> QED
  BY <1>1, <1>2, ReapersKept, ReadOnlyStep, Zenon DEF Clearing, Stamped

\* System.User.Delete makes the goroutine a reaper of its own.
LEMMA ReceiveUserDeleteStep ==
  ASSUME LifeInv, NEW c \in Conn, ReceiveUserDelete(c)
  PROVE  LifeInv'
<1>1. /\ pc[c] = "reading" /\ pc'[c] \in {"deleting", "respond"}
      /\ UNCHANGED <<poolVars, memVars, want>>
      /\ cur' = [cur EXCEPT ![c] = connToID[c]]
      /\ pc' = [pc EXCEPT ![c] = pc'[c]]
  BY Zenon DEF ReceiveUserDelete, Goto, LifeInv, LifeType, Pool!CurrentID
<1>2. LocalStep(c)
  BY <1>1, Zenon DEF LocalStep, LifeInv, LifeType, Place
<1>3. ConnOK(c)'
  BY <1>1, Zenon DEF LifeInv, LifeType, ConnOK, Own, poolVars, Unbound, Rebound
<1>4. VictimOK'
  <2>1. CASE UNCHANGED reaperVars
    BY <2>1, ReapersKept, Zenon
  <2>2. CASE \E u \in User : StartReaping(c, {u})
    BY <2>2, LifecycleAssumption DEF StartReaping, LifeInv, VictimOK, Actor
  <2> QED
    BY <2>1, <2>2, Zenon DEF ReceiveUserDelete
<1> QED
  BY <1>1, <1>2, <1>3, <1>4, ReadOnlyStep, Zenon DEF Clearing, Stamped

\* System.User.Delete is done with its victim and answers.
LEMMA DeleteReturnsStep ==
  ASSUME LifeInv, NEW c \in Conn, DeleteReturns(c)
  PROVE  LifeInv'
<1>1. /\ pc[c] = "deleting" /\ pc'[c] = "respond"
      /\ UNCHANGED <<poolVars, memVars, reaperVars, cur, want>>
      /\ LocalStep(c)
  BY Zenon DEF DeleteReturns, Goto, LocalStep, locals, LifeInv, LifeType, Place
<1>2. ConnOK(c)'
  BY <1>1, Zenon DEF LifeInv, ConnOK, Own, poolVars, Unbound, Rebound
<1> QED
  BY <1>1, <1>2, ReapersKept, ReadOnlyStep, Zenon DEF Clearing, Stamped

-----------------------------------------------------------------------------
(* The steps of a goroutine that write the store.                          *)

\* The session is registered under the address the socket is still bound to.
LEMMA RegisterSessionStep ==
  ASSUME LifeInv, NEW c \in Conn, RegisterSession(c)
  PROVE  LifeInv'
<1>1. /\ pc[c] = "register" /\ pc'[c] = "reading"
      /\ UNCHANGED <<poolVars, reaperVars, cur, want>>
      /\ LocalStep(c)
  BY Zenon DEF RegisterSession, Goto, LocalStep, locals, LifeInv, LifeType, Place
<1>2. ConnOK(c)' /\ Own(c, Addr[c])
  BY <1>1, Zenon DEF LifeInv, ConnOK, Own, poolVars, Unbound, Rebound
<1>3. Addr[c] \in ID
  BY LifecycleAssumption, Zenon
<1>4. /\ StoreOK'
      /\ \A id \in ID : HasState(id)' => HasState(id) \/ id = Addr[c]
      /\ \A id \in ID : Level(id)' = Level(id)
  BY <1>3, RegisterAdds, Zenon DEF RegisterSession, LifeInv
<1> QED
  BY <1>1, <1>2, <1>4, ReapersKept, BoundStep, Zenon DEF Clearing, Own, Stamped

\* UpdateLastActivity after a handler adds no session.
LEMMA RespondStep ==
  ASSUME LifeInv, NEW c \in Conn, Respond(c)
  PROVE  LifeInv'
<1>1. /\ pc[c] = "respond" /\ pc'[c] = "reading"
      /\ UNCHANGED <<poolVars, reaperVars>>
      /\ LocalStep(c)
  BY Zenon DEF Respond, Goto, LocalStep, LifeInv, LifeType, Place
<1>2. ConnOK(c)'
  BY <1>1, Zenon DEF LifeInv, ConnOK, Own, poolVars, Unbound, Rebound
<1>3. /\ StoreOK'
      /\ \A id \in ID : HasState(id)' <=> HasState(id)
      /\ \A id \in ID : Level(id)' = Level(id)
  BY UpdateAddsNothing, Zenon DEF Respond, LifeInv
<1> QED
  BY <1>1, <1>2, <1>3, ReapersKept, BoundStep, Zenon DEF Clearing, Stamped

\* The teardown and the rebinding clear the id they read before.
LEMMA UnregisterSessionStep ==
  ASSUME LifeInv, NEW c \in Conn, UnregisterSession(c)
  PROVE  LifeInv'
<1>1. /\ pc[c] = "unregister" /\ pc'[c] = "close" /\ cur[c] \in ID
      /\ UNCHANGED <<poolVars, reaperVars>>
      /\ LocalStep(c)
  BY Zenon DEF UnregisterSession, Goto, LocalStep, LifeInv, LifeType, ConnOK, Place, Unbound
<1>2. ConnOK(c)'
  BY <1>1, Zenon DEF LifeInv, ConnOK, Own, poolVars, Unbound, Rebound
<1>3. /\ StoreOK'
      /\ \A id \in ID : HasState(id)' => HasState(id) /\ id # cur[c]
      /\ \A id \in ID : Level(id)' \in {Void, Level(id)}
  BY <1>1, UnregisterClears, Zenon DEF UnregisterSession, LifeInv
<1> QED
  BY <1>1, <1>2, <1>3, ReapersKept, BoundStep, Zenon DEF Stamped

\* Logon drops the session of the id it had.
LEMMA LogonUnregisterStep ==
  ASSUME LifeInv, NEW c \in Conn, LogonUnregister(c)
  PROVE  LifeInv'
<1>1. /\ pc[c] = "logonUnregister" /\ pc'[c] = "logonRegister" /\ cur[c] \in ID
      /\ UNCHANGED <<poolVars, reaperVars, cur, want>>
      /\ LocalStep(c)
  BY Zenon DEF LogonUnregister, Goto, LocalStep, locals, LifeInv, LifeType, ConnOK, Place, Rebound
<1>2. ConnOK(c)'
  BY <1>1, Zenon DEF LifeInv, ConnOK, Own, poolVars, Unbound, Rebound
<1>3. /\ StoreOK'
      /\ \A id \in ID : HasState(id)' => HasState(id) /\ id # cur[c]
      /\ \A id \in ID : Level(id)' \in {Void, Level(id)}
  BY <1>1, UnregisterClears, Zenon DEF LogonUnregister, LifeInv
<1> QED
  BY <1>1, <1>2, <1>3, ReapersKept, BoundStep, Zenon DEF Stamped

\* establishSession writes under the id the socket was just bound to.
LEMMA LogonRegisterStep ==
  ASSUME LifeInv, NEW c \in Conn, LogonRegister(c)
  PROVE  LifeInv'
<1>1. /\ pc[c] = "logonRegister" /\ pc'[c] = "logonLevel"
      /\ UNCHANGED <<poolVars, reaperVars, cur, want>>
      /\ LocalStep(c)
  BY Zenon DEF LogonRegister, Goto, LocalStep, LifeInv, LifeType, Place, Rebound
<1>2. ConnOK(c)' /\ Own(c, want[c])
  BY <1>1, Zenon DEF LifeInv, ConnOK, Own, poolVars, Unbound, Rebound
<1>3. want[c] \in ID
  BY <1>2, Zenon DEF Own
<1>4. /\ StoreOK'
      /\ \A id \in ID : HasState(id)' => HasState(id) \/ id = want[c]
      /\ \A id \in ID : Level(id)' = Level(id)
  BY <1>3, RegisterAdds, Zenon DEF LogonRegister, LifeInv
<1> QED
  BY <1>1, <1>2, <1>4, ReapersKept, BoundStep, Zenon DEF Clearing, Stamped, Own

\* Logon stamps the level of its own socket on the id it is bound to.
LEMMA LogonLevelStep ==
  ASSUME LifeInv, NEW c \in Conn, LogonLevel(c)
  PROVE  LifeInv'
<1>1. /\ pc[c] = "logonLevel" /\ pc'[c] \in {"joinMovie", "respond"}
      /\ UNCHANGED <<poolVars, reaperVars, cur, want>>
      /\ LocalStep(c)
  BY DEF LogonLevel, Goto, LocalStep, locals, LifeInv, LifeType, Place, Rebound
<1>2. ConnOK(c)' /\ Own(c, want[c])
  BY <1>1, Zenon DEF LifeInv, ConnOK, Own, poolVars, Unbound, Rebound
<1>3. want[c] \in ID
  BY <1>2, Zenon DEF Own
<1>4. /\ StoreOK'
      /\ \A id \in ID : HasState(id)' => HasState(id) \/ id = want[c]
      /\ \A id \in ID : Level(id)' = IF id = want[c] /\ "level" = "level" THEN c ELSE Level(id)
  BY <1>3, AttributeAdds, Zenon DEF LogonLevel, LifeInv
<1>5. \A id \in ID \ shared : \/ Level(id)' \in {Void, Level(id)}
                              \/ connToID[c] = id /\ Level(id)' = c
  BY <1>2, <1>4, Zenon DEF Own
<1>6. \A id \in ID \ shared : connToID[c] = id => Level(id)' = c
  BY <1>2, <1>4, Zenon DEF Own
<1> QED
  BY <1>1, <1>2, <1>4, <1>5, <1>6, ReapersKept, BoundStep, Zenon DEF Clearing, Own

\* Joining a room, and its consequences for the invariant.
LEMMA JoinStep ==
  ASSUME LifeInv, NEW c \in Conn, NEW q \in RoomName, NEW i \in ID, Own(c, i),
         Store!JoinRoom(q, i), UNCHANGED <<poolVars, reaperVars>>, LocalStep(c), ConnOK(c)',
         pc[c] \in Stamped
  PROVE  LifeInv'
<1>1. /\ StoreOK'
      /\ \A id \in ID : HasState(id)' => HasState(id) \/ id = i
      /\ \A id \in ID : Level(id)' = Level(id)
  BY JoinAdds, Zenon DEF LifeInv
<1>2. pc[c] \notin Clearing
  BY Zenon DEF Stamped, Clearing
<1> QED
  BY <1>1, <1>2, ReapersKept, BoundStep, Zenon DEF Own

\* Logon joins the room of the movie.
LEMMA JoinMovieStep ==
  ASSUME LifeInv, NEW c \in Conn, JoinMovie(c)
  PROVE  LifeInv'
<1>1. /\ pc[c] = "joinMovie" /\ pc'[c] = "joinAllUsers"
      /\ UNCHANGED <<poolVars, reaperVars, cur, want>>
      /\ LocalStep(c)
  BY Zenon DEF JoinMovie, Goto, LocalStep, locals, LifeInv, LifeType, Place, Rebound
<1>2. ConnOK(c)' /\ Own(c, want[c])
  BY <1>1, Zenon DEF LifeInv, ConnOK, Own, poolVars, Unbound, Rebound
<1>3. want[c] \in ID /\ Movie \in RoomName /\ pc[c] \in Stamped
  BY <1>1, <1>2, Zenon DEF Own, RoomName, Stamped
<1>4. Store!JoinRoom(Movie, want[c])
  BY Zenon DEF JoinMovie
<1> QED
  BY <1>1, <1>2, <1>3, <1>4, JoinStep, Zenon

\* Logon joins the group of all users.
LEMMA JoinAllUsersStep ==
  ASSUME LifeInv, NEW c \in Conn, JoinAllUsers(c)
  PROVE  LifeInv'
<1>1. /\ pc[c] = "joinAllUsers" /\ pc'[c] = "setMovieID"
      /\ UNCHANGED <<poolVars, reaperVars, cur, want>>
      /\ LocalStep(c)
  BY Zenon DEF JoinAllUsers, Goto, LocalStep, locals, LifeInv, LifeType, Place, Rebound
<1>2. ConnOK(c)' /\ Own(c, want[c])
  BY <1>1, Zenon DEF LifeInv, ConnOK, Own, poolVars, Unbound, Rebound
<1>3. want[c] \in ID /\ AllUsers \in RoomName /\ pc[c] \in Stamped
  BY <1>1, <1>2, Zenon DEF Own, RoomName, Stamped
<1>4. Store!JoinRoom(AllUsers, want[c])
  BY Zenon DEF JoinAllUsers
<1> QED
  BY <1>1, <1>2, <1>3, <1>4, JoinStep, Zenon

\* A join command adds its sender to the room.
LEMMA GroupJoinStep ==
  ASSUME LifeInv, NEW c \in Conn, GroupJoin(c)
  PROVE  LifeInv'
<1>1. /\ pc[c] = "groupJoin" /\ pc'[c] = "respond"
      /\ UNCHANGED <<poolVars, reaperVars, cur, want>>
      /\ LocalStep(c)
  BY Zenon DEF GroupJoin, Goto, LocalStep, locals, LifeInv, LifeType, Place
<1>2. ConnOK(c)' /\ Own(c, cur[c])
  BY <1>1, Zenon DEF LifeInv, ConnOK, Own, poolVars, Unbound, Rebound
<1>3. cur[c] \in ID /\ Group \in RoomName /\ pc[c] \in Stamped
  BY <1>1, <1>2, Zenon DEF Own, RoomName, Stamped
<1>4. Store!JoinRoom(Group, cur[c])
  BY Zenon DEF GroupJoin
<1> QED
  BY <1>1, <1>2, <1>3, <1>4, JoinStep, Zenon

\* Logon stores the movie of its user.
LEMMA SetMovieIDStep ==
  ASSUME LifeInv, NEW c \in Conn, SetMovieID(c)
  PROVE  LifeInv'
<1>1. /\ pc[c] = "setMovieID" /\ pc'[c] = "respond"
      /\ UNCHANGED <<poolVars, reaperVars, cur, want>>
      /\ LocalStep(c)
  BY Zenon DEF SetMovieID, Goto, LocalStep, locals, LifeInv, LifeType, Place, Rebound
<1>2. ConnOK(c)' /\ Own(c, want[c])
  BY <1>1, Zenon DEF LifeInv, ConnOK, Own, poolVars, Unbound, Rebound
<1>3. want[c] \in ID
  BY <1>2, Zenon DEF Own
<1>4. /\ StoreOK'
      /\ \A id \in ID : HasState(id)' => HasState(id) \/ id = want[c]
      /\ \A id \in ID : Level(id)' = IF id = want[c] /\ "movieID" = "level" THEN Movie ELSE Level(id)
  BY <1>3, AttributeAdds, Zenon DEF SetMovieID, LifeInv
<1>5. \A id \in ID : Level(id)' = Level(id)
  BY <1>4, Zenon
<1> QED
  BY <1>1, <1>2, <1>4, <1>5, ReapersKept, BoundStep, Zenon DEF Clearing, Stamped, Own

-----------------------------------------------------------------------------
(* The steps that change the pool.                                         *)

\* The address of a new socket is not in use, or it is shared from now on.
LEMMA AcceptStep ==
  ASSUME LifeInv, NEW c \in Conn, Accept(c)
  PROVE  LifeInv'
<1> DEFINE x == Addr[c]
<1>1. /\ pc[c] = "new" /\ pc'[c] = "register" /\ UNCHANGED <<memVars, reaperVars, cur, want>>
      /\ clients' = [clients EXCEPT ![x] = c]
      /\ connToID' = [connToID EXCEPT ![c] = x]
      /\ shared' = IF InUse(x) THEN shared \cup {x} ELSE shared
      /\ LocalStep(c)
  BY Zenon DEF Accept, Goto, LocalStep, locals, LifeInv, LifeType, Place, Pool!BindID
<1>2. connToID[c] = NoID /\ x \in ID /\ x # NoID
  BY <1>1, LifecycleAssumption DEF LifeInv, ConnOK, Unbound
<1>3. shared \subseteq shared' /\ shared' \subseteq ID /\ (x \notin shared' => ~InUse(x))
  BY <1>1, <1>2, Zenon DEF LifeInv, LifeType
<1>4. \A d \in Conn : connToID[d] = x => x \in shared'
  <2> SUFFICES ASSUME NEW d \in Conn, connToID[d] = x, x \notin shared' PROVE FALSE
    BY Zenon
  <2>1. clients[x] = d
    BY <1>2, <1>3, Zenon DEF LifeInv, MapsInverse
  <2> QED
    BY <2>1, <1>3, LifecycleAssumption, Zenon DEF InUse
<1> HIDE DEF x
<1>5. LifeType' /\ MapsInverse'
  <2>1. LifeType'
    BY <1>1, <1>2, <1>3, Zenon DEF LifeInv, LifeType, LocalStep
  <2>2. ASSUME NEW i \in ID, clients'[i] # NoConn PROVE connToID'[clients'[i]] = i
    <3>1. CASE i = x
      BY <3>1, <1>1, <1>2, Zenon DEF LifeInv, LifeType
    <3>2. CASE i # x
      <4>1. clients'[i] = clients[i] /\ clients[i] \in Conn /\ connToID[clients[i]] = i
        BY <3>2, <2>2, <1>1, Zenon DEF LifeInv, LifeType, MapsInverse
      <4>2. clients[i] # c
        BY <4>1, <1>2, LifecycleAssumption, Zenon
      <4> QED
        BY <4>1, <4>2, <1>1, Zenon DEF LifeInv, LifeType
    <3> QED
      BY <3>1, <3>2, Zenon
  <2>3. ASSUME NEW d \in Conn, connToID'[d] # NoID
        PROVE  clients'[connToID'[d]] = d \/ connToID'[d] \in shared'
    <3>1. CASE d = c
      BY <3>1, <1>1, <1>2, Zenon DEF LifeInv, LifeType
    <3>2. CASE d # c
      <4>1. connToID'[d] = connToID[d] /\ connToID[d] \in ID
        BY <3>2, <2>3, <1>1, Zenon DEF LifeInv, LifeType
      <4>2. CASE connToID[d] # x
        BY <4>1, <4>2, <2>3, <1>1, <1>3, Zenon DEF LifeInv, LifeType, MapsInverse
      <4> QED
        BY <4>1, <4>2, <1>4, Zenon
    <3> QED
      BY <3>1, <3>2, Zenon
  <2> QED
    BY <2>1, <2>2, <2>3, Zenon DEF MapsInverse
<1>6. ConnOK(c)'
  BY <1>1, <1>2, Zenon DEF LifeInv, LifeType, ConnOK, Own, Unbound, Rebound, x
<1>7. /\ StoreOK'
      /\ \A id \in ID : HasState(id)' <=> HasState(id)
      /\ \A id \in ID : Level(id)' = Level(id)
  BY <1>1, StoreUntouched, Zenon DEF LifeInv
<1>8. \A id \in ID : ~WillClear(c, id)
  BY <1>1, <1>2, LifecycleAssumption, Zenon DEF WillClear, Pool!CurrentID
<1>9. /\ \A d \in Conn \ {c} : pc'[d] = pc[d] /\ cur'[d] = cur[d] /\ want'[d] = want[d]
      /\ \A d \in Conn \ {c} : connToID'[d] = connToID[d]
  BY <1>1, Zenon DEF LocalStep, LifeInv, LifeType
<1>10. \A id \in ID \ shared' : connToID'[c] = id => Level(id)' \in {Void, c}
  <2> SUFFICES ASSUME x \notin shared' PROVE Level(x) = Void
    BY <1>1, <1>2, <1>7, Zenon DEF LifeInv, LifeType
  <2>1. x \notin DOMAIN attributes
    BY <1>3, Zenon DEF InUse, HasState
  <2> QED
    BY <2>1, Zenon DEF Level, Store!GetUserAttribute
<1> QED
  BY <1>1, <1>3, <1>5, <1>6, <1>7, <1>8, <1>9, <1>10, ReapersKept, OwnStep, Zenon

\* The teardown frees the id and remembers it for the unregistration.
LEMMA TeardownStep ==
  ASSUME LifeInv, NEW c \in Conn, Teardown(c)
  PROVE  LifeInv'
<1>1. /\ pc[c] = "reading" /\ pc'[c] = "unregister" /\ UNCHANGED <<shared, memVars, reaperVars, want>>
      /\ cur' = [cur EXCEPT ![c] = connToID[c]]
      /\ clients' = [i \in ID |-> IF i = connToID[c] THEN NoConn ELSE clients[i]]
      /\ connToID' = [connToID EXCEPT ![c] = NoID]
      /\ pc' = [pc EXCEPT ![c] = "unregister"]
  BY Zenon DEF Teardown, Goto, LifeInv, LifeType, Pool!UnbindID, Pool!CurrentID
<1>2. connToID[c] \in ID
  BY <1>1, BoundToID, Zenon DEF Unbound
<1>3. LocalStep(c)
  BY <1>1, <1>2, Zenon DEF LocalStep, LifeInv, LifeType, Place, Unbound
<1>4. LifeType' /\ MapsInverse'
  <2>1. LifeType'
    BY <1>1, <1>3, Zenon DEF LifeInv, LifeType, LocalStep
  <2>2. \A i \in ID : clients'[i] # NoConn => connToID'[clients'[i]] = i
    BY <1>1, <1>2, Zenon DEF LifeInv, LifeType, MapsInverse
  <2>3. ASSUME NEW d \in Conn, connToID'[d] # NoID
        PROVE  clients'[connToID'[d]] = d \/ connToID'[d] \in shared
    <3>1. d # c /\ connToID'[d] = connToID[d] /\ connToID[d] \in ID
      BY <2>3, <1>1, Zenon DEF LifeInv, LifeType
    <3>2. clients[connToID[d]] = d \/ connToID[d] \in shared
      BY <3>1, <2>3, Zenon DEF LifeInv, MapsInverse
    <3>3. CASE connToID[d] = connToID[c] /\ connToID[d] \notin shared
      <4>1. clients[connToID[c]] = c
        BY <3>3, <1>2, LifecycleAssumption, Zenon DEF LifeInv, MapsInverse
      <4> QED
        BY <4>1, <3>1, <3>2, <3>3, Zenon
    <3>4. CASE connToID[d] # connToID[c]
      BY <3>4, <3>1, <3>2, <1>1, Zenon
    <3> QED
      BY <3>1, <3>2, <3>3, <3>4, Zenon
  <2> QED
    BY <2>1, <2>2, <2>3, <1>1, Zenon DEF MapsInverse
<1>5. ConnOK(c)'
  BY <1>1, <1>2, Zenon DEF LifeInv, LifeType, ConnOK, Unbound, Rebound
<1>6. /\ StoreOK'
      /\ \A id \in ID : HasState(id)' <=> HasState(id)
      /\ \A id \in ID : Level(id)' = Level(id)
  BY <1>1, StoreUntouched, Zenon DEF LifeInv
<1>7. \A id \in ID : WillClear(c, id) => WillClear(c, id)'
  BY <1>1, Zenon DEF WillClear, Pool!CurrentID, LifeInv, LifeType
<1>8. /\ \A d \in Conn \ {c} : pc'[d] = pc[d] /\ cur'[d] = cur[d] /\ want'[d] = want[d]
      /\ \A d \in Conn \ {c} : connToID'[d] = connToID[d]
  BY <1>1, <1>3, Zenon DEF LocalStep, LifeInv, LifeType
<1> QED
  BY <1>1, <1>4, <1>5, <1>6, <1>7, <1>8, ReapersKept, OwnStep, Zenon DEF Stamped

\* Rebinding: RemapClientID moves the socket that the old id answers for, which is
\* that of c unless the id is shared, to a free id, or refuses.
LEMMA LogonRemapStep ==
  ASSUME LifeInv, NEW c \in Conn, LogonRemap(c)
  PROVE  LifeInv'
<1> DEFINE o == cur[c]
           w == want[c]
           m == clients[o]
<1>1. pc[c] = "logonRemap" /\ Own(c, o) /\ o \in ID /\ w \in ID /\ o # NoID /\ w # NoID
  BY LifecycleAssumption, Zenon DEF LogonRemap, Goto, LifeInv, ConnOK, Own
<1>2. UNCHANGED <<memVars, reaperVars, cur, want>>
  BY Zenon DEF LogonRemap, locals
<1>3. CASE pc'[c] = "respond" /\ UNCHANGED poolVars /\ pc' = [pc EXCEPT ![c] = "respond"]
  <2>1. LocalStep(c)
    BY <1>2, <1>3, Zenon DEF LocalStep, LifeInv, LifeType, Place
  <2>2. ConnOK(c)'
    BY <1>1, <1>2, <1>3, Zenon DEF LifeInv, ConnOK, poolVars, Unbound, Rebound
  <2> QED
    BY <1>1, <1>2, <1>3, <2>1, <2>2, ReapersKept, ReadOnlyStep, Zenon DEF Clearing, Stamped
<1>4. CASE /\ pc'[c] = "logonIP" /\ pc' = [pc EXCEPT ![c] = "logonIP"]
           /\ m # NoConn /\ clients[w] \in {NoConn, m}
           /\ clients' = [clients EXCEPT ![o] = NoConn, ![w] = m]
           /\ connToID' = [connToID EXCEPT ![m] = w]
           /\ shared' = IF o \in shared THEN shared \cup {w} ELSE shared
  <2>1. LocalStep(c)
    BY <1>2, <1>4, Zenon DEF LocalStep, LifeInv, LifeType, Place, Rebound
  <2>2. m \in Conn /\ connToID[m] = o /\ (m # c => o \in shared /\ connToID[c] \in shared)
    <3>1. m \in Conn /\ connToID[m] = o
      BY <1>1, <1>4, Zenon DEF LifeInv, LifeType, MapsInverse
    <3>2. ASSUME o \notin shared PROVE m = c
      <4>1. o = connToID[c]
        BY <3>2, <1>1, Zenon DEF Own
      <4> QED
        BY <3>2, <4>1, <1>1, Zenon DEF LifeInv, MapsInverse
    <3> QED
      BY <1>1, <3>1, <3>2, Zenon DEF Own
  <2>3. shared \subseteq shared' /\ shared' \subseteq ID /\ (o \in shared => w \in shared')
    BY <1>1, <1>4, Zenon DEF LifeInv, LifeType
  <2> HIDE DEF m
  <2>4. /\ connToID'[m] = w /\ \A d \in Conn : d # m => connToID'[d] = connToID[d]
        /\ clients'[w] = m /\ \A i \in ID : i # w /\ i # o => clients'[i] = clients[i]
        /\ o # w => clients'[o] = NoConn
    BY <1>1, <1>4, <2>2, Zenon DEF LifeInv, LifeType
  <2>5. LifeType'
    BY <1>1, <1>2, <1>4, <2>1, <2>2, <2>3, Zenon DEF LifeInv, LifeType, LocalStep
  <2>6. ASSUME NEW i \in ID, clients'[i] # NoConn PROVE connToID'[clients'[i]] = i
    <3>1. CASE i = w
      BY <3>1, <2>4, Zenon
    <3>2. CASE i # w
      <4>1. i # o /\ clients'[i] = clients[i]
        BY <3>2, <2>4, <2>6, Zenon
      <4>2. clients[i] \in Conn /\ connToID[clients[i]] = i
        BY <4>1, <2>6, Zenon DEF LifeInv, LifeType, MapsInverse
      <4>3. clients[i] # m
        BY <4>1, <4>2, <2>2, Zenon
      <4> QED
        BY <4>1, <4>2, <4>3, <2>4, Zenon
    <3> QED
      BY <3>1, <3>2, Zenon
  <2>7. ASSUME NEW d \in Conn, connToID'[d] # NoID
        PROVE  clients'[connToID'[d]] = d \/ connToID'[d] \in shared'
    <3>1. CASE d = m
      BY <3>1, <2>4, Zenon
    <3>2. CASE d # m /\ connToID[d] \notin shared
      <4>1. connToID'[d] = connToID[d] /\ connToID[d] \in ID
        BY <3>2, <2>4, <2>7, Zenon DEF LifeInv, LifeType
      <4>2. clients[connToID[d]] = d
        BY <4>1, <3>2, <2>7, Zenon DEF LifeInv, MapsInverse
      <4>3. connToID[d] # o /\ connToID[d] # w
        BY <4>2, <3>2, <1>4, LifecycleAssumption, Zenon DEF m
      <4> QED
        BY <4>1, <4>2, <4>3, <2>4, Zenon
    <3>3. CASE d # m /\ connToID[d] \in shared
      BY <3>3, <2>3, <2>4, Zenon
    <3> QED
      BY <3>1, <3>2, <3>3, Zenon
  <2>8. MapsInverse'
    BY <2>6, <2>7, Zenon DEF MapsInverse
  <2>9. connToID'[c] = w \/ (w \in shared' /\ connToID'[c] \in shared')
    <3>1. CASE m = c
      BY <3>1, <2>4, Zenon
    <3>2. CASE m # c
      BY <3>2, <2>2, <2>3, <2>4, Zenon
    <3> QED
      BY <3>1, <3>2, Zenon
  <2>10. ConnOK(c)'
    <3>1. connToID'[c] # NoID
      BY <2>3, <2>9, <1>1, LifecycleAssumption, Zenon
    <3>2. Own(c, w)'
      BY <2>9, <1>1, <1>2, Zenon DEF Own
    <3> QED
      BY <1>1, <1>2, <1>4, <3>1, <3>2, Zenon DEF ConnOK, Unbound, Rebound
  <2>11. /\ StoreOK'
         /\ \A id \in ID : HasState(id)' <=> HasState(id)
         /\ \A id \in ID : Level(id)' = Level(id)
    BY <1>2, StoreUntouched, Zenon DEF LifeInv
  <2>12. \A id \in ID \ shared' : WillClear(c, id) => WillClear(c, id)'
    <3> SUFFICES ASSUME NEW id \in ID \ shared', connToID[c] = id PROVE cur'[c] = id
      BY <1>1, <1>4, Zenon DEF WillClear, Pool!CurrentID
    <3> QED
      BY <1>1, <1>2, <2>3, Zenon DEF Own
  <2>13. /\ \A d \in Conn \ {c} : pc'[d] = pc[d] /\ cur'[d] = cur[d] /\ want'[d] = want[d]
         /\ \A d \in Conn \ {c} : \/ connToID'[d] = connToID[d]
                                  \/ connToID[d] \in shared' /\ connToID'[d] \in shared'
    <3>1. \A d \in Conn \ {c} : pc'[d] = pc[d] /\ cur'[d] = cur[d] /\ want'[d] = want[d]
      BY <2>1, Zenon DEF LocalStep
    <3>2. ASSUME NEW d \in Conn \ {c}, d = m PROVE connToID[d] \in shared' /\ connToID'[d] \in shared'
      BY <3>2, <2>2, <2>3, <2>4, Zenon
    <3> QED
      BY <3>1, <3>2, <2>4, Zenon
  <2>14. pc'[c] \notin Stamped
    BY <1>4, Zenon DEF Stamped
  <2> QED
    BY <1>2, <2>3, <2>5, <2>8, <2>10, <2>11, <2>12, <2>13, <2>14, ReapersKept, OwnStep, Zenon
<1> QED
  BY <1>1, <1>3, <1>4, Zenon DEF LogonRemap, Goto, Pool!CanRemap, Pool!RemapClientID, LifeInv, LifeType

-----------------------------------------------------------------------------
(* The reapers.                                                            *)

\* Choosing whom to remove changes nothing yet.
LEMMA StartReapingStep ==
  ASSUME LifeInv, NEW a \in Actor, NEW ids \in SUBSET ID, StartReaping(a, ids),
         UNCHANGED <<poolVars, memVars, open, pc, locals>>
  PROVE  LifeInv'
<1>1. VictimOK'
  BY Zenon DEF StartReaping, LifeInv, VictimOK
<1>2. /\ StoreOK'
      /\ \A id \in ID : HasState(id)' <=> HasState(id)
      /\ \A id \in ID : Level(id)' = Level(id)
  BY StoreUntouched, Zenon DEF LifeInv
<1>3. UNCHANGED <<poolVars, pc, cur, want>>
  BY Zenon DEF locals
<1> QED
  BY <1>1, <1>2, <1>3, ForeignStep, Zenon

\* An id with a connection in the store is an id.
LEMMA IdleCheckStep ==
  ASSUME LifeInv, NEW r \in Reaper, IdleCheck(r) \/ KillTimerFires(r)
  PROVE  LifeInv'
<1>1. PICK ids \in SUBSET ID : StartReaping(r, ids)
  BY LifecycleAssumption, Zenon DEF IdleCheck, KillTimerFires, LifeInv, StoreOK
<1>2. UNCHANGED <<poolVars, memVars, open, pc, locals>>
  BY Zenon DEF IdleCheck, KillTimerFires
<1> QED
  BY <1>1, <1>2, StartReapingStep, Zenon DEF Actor

\* A reaper takes its victim out of the rooms.
LEMMA ReapLeaveStep ==
  ASSUME LifeInv, NEW a \in Actor, ReapLeave(a)
  PROVE  LifeInv'
<1>1. PICK id \in victims[a] :
        /\ victim' = [victim EXCEPT ![a] = id]
        /\ victims' = [victims EXCEPT ![a] = @ \ {id}]
        /\ Store!LeaveAllRooms(id)
  BY Zenon DEF ReapLeave
<1>2. id \in ID
  BY Zenon DEF LifeInv, VictimOK
<1>3. VictimOK'
  BY <1>1, <1>2, Zenon DEF ReapLeave, LifeInv, VictimOK
<1>4. /\ StoreOK'
      /\ \A i \in ID : HasState(i)' => HasState(i)
      /\ \A i \in ID : Level(i)' = Level(i)
  BY <1>1, <1>2, LeaveAllAddsNothing, Zenon DEF LifeInv
<1>5. UNCHANGED <<poolVars, pc, cur, want>>
  BY Zenon DEF ReapLeave, locals
<1> QED
  BY <1>3, <1>4, <1>5, ForeignStep, Zenon

\* A reaper drops its victim's session.
LEMMA ReapUnregisterStep ==
  ASSUME LifeInv, NEW a \in Actor, ReapUnregister(a)
  PROVE  LifeInv'
<1>1. victim[a] \in ID
  BY Zenon DEF ReapUnregister, LifeInv, VictimOK
<1>2. VictimOK'
  BY Zenon DEF ReapUnregister, LifeInv, VictimOK
<1>3. /\ StoreOK'
      /\ \A i \in ID : HasState(i)' => HasState(i) /\ i # victim[a]
      /\ \A i \in ID : Level(i)' \in {Void, Level(i)}
  BY <1>1, UnregisterClears, Zenon DEF ReapUnregister, LifeInv
<1>4. UNCHANGED <<poolVars, pc, cur, want>>
  BY Zenon DEF ReapUnregister, locals
<1> QED
  BY <1>2, <1>3, <1>4, ForeignStep, Zenon

\* DisconnectClient touches neither the pool nor the store.
LEMMA ReapDisconnectStep ==
  ASSUME LifeInv, NEW a \in Actor, ReapLookup(a) \/ ReapClose(a)
  PROVE  LifeInv'
<1>1. VictimOK'
  BY Zenon DEF ReapLookup, ReapClose, LifeInv, VictimOK
<1>2. /\ StoreOK'
      /\ \A id \in ID : HasState(id)' <=> HasState(id)
      /\ \A id \in ID : Level(id)' = Level(id)
  BY StoreUntouched, Zenon DEF ReapLookup, ReapClose, LifeInv
<1>3. UNCHANGED <<poolVars, pc, cur, want>>
  BY Zenon DEF ReapLookup, ReapClose, locals
<1> QED
  BY <1>1, <1>2, <1>3, ForeignStep, Zenon

-----------------------------------------------------------------------------
\* One step of a connection, a command or a reaper.
LEMMA LifeNextInv == LifeInv /\ [Next]_vars => LifeInv'
<1> SUFFICES ASSUME LifeInv, [Next]_vars PROVE LifeInv'
  BY Zenon
<1>1. ASSUME NEW c \in Conn, Arrival(c) PROVE LifeInv'
  BY <1>1, AcceptStep, TeardownStep, ReceiveLogonStep, ReceiveGroupJoinStep, ReceiveUserDeleteStep, Zenon
     DEF Arrival
<1>2. ASSUME NEW c \in Conn, ConnStep(c) PROVE LifeInv'
  BY <1>2, RegisterSessionStep, RespondStep, UnregisterSessionStep, CloseSocketStep, LogonCheckStep,
     LogonRemapStep, LogonIPStep, LogonUnregisterStep, LogonRegisterStep, LogonLevelStep,
     JoinMovieStep, JoinAllUsersStep, SetMovieIDStep, GroupCheckStep, GroupJoinStep,
     DeleteReturnsStep
     DEF ConnStep
<1>3. ASSUME NEW a \in Actor, ReaperStep(a) PROVE LifeInv'
  BY <1>3, ReapLeaveStep, ReapUnregisterStep, ReapDisconnectStep, Zenon DEF ReaperStep
<1>4. CASE UNCHANGED vars
  <2>1. UNCHANGED <<poolVars, memVars, pc, cur, want>> /\ VictimOK'
    BY <1>4, ReapersKept, Zenon DEF vars, locals
  <2> QED
    BY <2>1, StoreUntouched, ForeignStep, Zenon DEF LifeInv
<1> QED
  BY <1>1, <1>2, <1>3, <1>4, IdleCheckStep, Zenon DEF Next

\* Spec => []NoOrphanedState: whatever the store holds for an id that is not shared,
\* some goroutine will remove it, for any number of sockets, users and reapers
\* racing with each other and whichever addresses are also user ids.
THEOREM NoGhosts == Spec => []NoOrphanedState
<1>1. LifeInv => NoOrphanedState
  BY Zenon DEF LifeInv
<1> QED
  BY <1>1, LifeInitInv, LifeNextInv, PTL DEF Spec

\* Spec => []LevelIsOwn: a connection never runs a command under the level of an
\* earlier session of its user id, unless it was accepted under an id in use or
\* has been rebound from one.
THEOREM LevelsDoNotLeak == Spec => []LevelIsOwn
<1>1. LifeInv => LevelIsOwn
  <2> SUFFICES ASSUME LifeInv, NEW c \in Conn, pc[c] = "reading", connToID[c] \notin shared
               PROVE  Level(connToID[c]) \in {Void, c}
    BY Zenon DEF LevelIsOwn, Level, Pool!CurrentID
  <2>1. connToID[c] \in ID
    BY BoundToID, Zenon DEF Unbound
  <2> QED
    BY <2>1, Zenon DEF LifeInv, LevelOK, Stamped
<1> QED
  BY <1>1, LifeInitInv, LifeNextInv, PTL DEF Spec
=============================================================================
