-------------------------- MODULE MessagingProofs ---------------------------
(***************************************************************************)
(* What a message passes through, for any numbers of users, groups,        *)
(* handlers, channels, consumers and timers: the groups of a movie, the    *)
(* fan-out to their members, the memory, the Redis and the RabbitMQ queue, *)
(* and the kill timers that commands set and cancel.                       *)
(***************************************************************************)
EXTENDS MovieGroups, Delivery, MemoryQueue, RedisQueue, RabbitQueue, TimerManager, TLAPS

-----------------------------------------------------------------------------
(* The Redis queue.                                                        *)

\* A consumer has a message exactly while it handles it.  What was popped was pushed
\* before all that waits, and what a consumer has handled before what it has.
RqInv ==
  /\ rqPushed \in Seq(QMsg) /\ rqList \in Seq(QMsg) /\ rqLost \subseteq QMsg
  /\ rqHandled \in [QConsumer -> Seq(QMsg)] /\ rqHas \in [QConsumer -> QMsg \cup {QNone}]
  /\ DOMAIN rqPub = QMsg /\ DOMAIN rqAt = QConsumer
  /\ \A c \in QConsumer : rqAt[c] = "handler" <=> rqHas[c] # QNone
  /\ \A m \in Elements(rqPushed) : rqPub[m] = "pushed"
  /\ HandledOnceInOrder
  /\ \A c \in QConsumer :
       /\ \A m \in Popped(c), n \in Elements(rqList) : PushedBefore(m, n)
       /\ rqHas[c] # QNone => \A m \in Elements(rqHandled[c]) : PushedBefore(m, rqHas[c])

\* What a sequence holds after an element was put at its end.
LEMMA ElementsAppend ==
  ASSUME NEW s \in Seq(QMsg), NEW m \in QMsg
  PROVE  /\ Append(s, m) \in Seq(QMsg) /\ Len(s) \in Nat /\ Len(Append(s, m)) = Len(s) + 1
         /\ \A i \in 1 .. Len(s) : Append(s, m)[i] = s[i]
         /\ Append(s, m)[Len(s) + 1] = m
         /\ Elements(Append(s, m)) = Elements(s) \cup {m}
<1> DEFINE t == Append(s, m)
<1>1. /\ t \in Seq(QMsg) /\ Len(s) \in Nat /\ Len(t) = Len(s) + 1
      /\ \A i \in 1 .. Len(s) : t[i] = s[i] /\ t[Len(s) + 1] = m
  OBVIOUS
<1>2. t[Len(s) + 1] = m
  OBVIOUS
<1> HIDE DEF t
<1>3. Elements(t) = Elements(s) \cup {m}
  BY <1>1, <1>2 DEF Elements
<1> QED
  BY <1>1, <1>2, <1>3, Zenon DEF t

\* What a sequence holds before its first element is taken.
LEMMA ElementsTail ==
  ASSUME NEW s \in Seq(QMsg), s # <<>>
  PROVE  /\ Tail(s) \in Seq(QMsg) /\ Len(s) \in Nat \ {0} /\ Len(Tail(s)) = Len(s) - 1
         /\ \A i \in 1 .. Len(Tail(s)) : i + 1 \in 1 .. Len(s) /\ Tail(s)[i] = s[i + 1]
         /\ Head(s) = s[1] /\ Head(s) \in QMsg
         /\ Elements(s) = {Head(s)} \cup Elements(Tail(s))
<1> DEFINE t == Tail(s)
<1>1. /\ t \in Seq(QMsg) /\ Len(s) \in Nat \ {0} /\ Len(t) = Len(s) - 1
      /\ Head(s) = s[1] /\ Head(s) \in QMsg
      /\ \A i \in 1 .. Len(t) : i + 1 \in 1 .. Len(s) /\ t[i] = s[i + 1]
  OBVIOUS
<1> HIDE DEF t
<1>2. \A i \in 2 .. Len(s) : s[i] = t[i - 1] /\ i - 1 \in 1 .. Len(t)
  BY <1>1
<1>3. Elements(s) = {Head(s)} \cup Elements(t)
  BY <1>1, <1>2 DEF Elements
<1> QED
  BY <1>1, <1>3, Zenon DEF t

\* Nothing is pushed at first.
LEMMA RqInvInit == RQInit => RqInv
<1> SUFFICES ASSUME RQInit PROVE RqInv
  OBVIOUS
<1>1. /\ rqList = <<>> /\ rqPushed = <<>> /\ rqLost = {}
      /\ rqPub = [m \in QMsg |-> "no"] /\ rqAt = [c \in QConsumer |-> "none"]
      /\ rqHas = [c \in QConsumer |-> QNone] /\ rqHandled = [c \in QConsumer |-> <<>>]
  BY Zenon DEF RQInit
<1>2. /\ <<>> \in Seq(QMsg) /\ Elements(<<>>) = {} /\ InPushOrder(<<>>)
      /\ \A i \in 1 .. Len(<<>>) : FALSE
  BY DEF Elements, InPushOrder
<1>3. \A c \in QConsumer : Popped(c) = {} /\ rqHandled[c] = <<>> /\ rqHas[c] = QNone /\ rqAt[c] # "handler"
  BY <1>1, <1>2, Zenon DEF Popped
<1>4. HandledOnceInOrder
  BY <1>1, <1>2, <1>3, Zenon DEF HandledOnceInOrder
<1> QED
  BY <1>1, <1>2, <1>3, <1>4, Zenon DEF RqInv

\* The steps that move no message.
LEMMA RqRest ==
  ASSUME RqInv, UNCHANGED <<rqList, rqHas, rqHandled, rqPushed, rqLost>>,
         DOMAIN rqPub' = QMsg, DOMAIN rqAt' = QConsumer,
         \A m \in QMsg : rqPub[m] = "pushed" => rqPub'[m] = "pushed",
         \A c \in QConsumer : rqAt'[c] = "handler" <=> rqAt[c] = "handler"
  PROVE  RqInv'
<1>1. /\ UNCHANGED <<HandledOnceInOrder, Elements(rqPushed), Elements(rqList)>>
      /\ \A c \in QConsumer : Popped(c)' = Popped(c) /\ Elements(rqHandled[c])' = Elements(rqHandled[c])
      /\ \A m, n : PushedBefore(m, n)' = PushedBefore(m, n)
  BY DEF HandledOnceInOrder, Popped, Elements, PushedBefore, InPushOrder
<1>2. Elements(rqPushed) \subseteq QMsg
  BY DEF RqInv, Elements
<1> QED
  BY <1>1, <1>2, Zenon DEF RqInv

\* A message that is pushed comes after all that were.
LEMMA RQLPushInv == ASSUME RqInv, NEW m \in QMsg, RQLPush(m) PROVE RqInv'
<1>1. /\ rqPub[m] = "checked" /\ rqPub' = [rqPub EXCEPT ![m] = "pushed"]
      /\ rqList' = Append(rqList, m) /\ rqPushed' = Append(rqPushed, m)
      /\ UNCHANGED <<rqAt, rqHas, rqHandled, rqLost>>
  BY Zenon DEF RQLPush
<1>2. /\ rqPushed' \in Seq(QMsg) /\ Len(rqPushed) \in Nat /\ Len(rqPushed') = Len(rqPushed) + 1
      /\ \A i \in 1 .. Len(rqPushed) : rqPushed'[i] = rqPushed[i]
      /\ rqPushed'[Len(rqPushed) + 1] = m
      /\ Elements(rqPushed') = Elements(rqPushed) \cup {m}
  BY <1>1, ElementsAppend DEF RqInv
<1>3. /\ rqList' \in Seq(QMsg) /\ Len(rqList) \in Nat /\ Len(rqList') = Len(rqList) + 1
      /\ \A i \in 1 .. Len(rqList) : rqList'[i] = rqList[i]
      /\ rqList'[Len(rqList) + 1] = m
      /\ Elements(rqList') = Elements(rqList) \cup {m}
  BY <1>1, ElementsAppend DEF RqInv
<1>4. m \notin Elements(rqPushed) /\ m # QNone
  BY <1>1, QAssumption, Zenon DEF RqInv
<1> DEFINE Before(x, y) == \E i, j \in 1 .. Len(rqPushed') : i < j /\ rqPushed'[i] = x /\ rqPushed'[j] = y
<1>5. ASSUME NEW x, NEW y, PushedBefore(x, y) PROVE Before(x, y)
  BY <1>2, <1>5 DEF PushedBefore
<1>6. ASSUME NEW x \in Elements(rqPushed) PROVE Before(x, m)
  <2>1. PICK i \in 1 .. Len(rqPushed) : rqPushed[i] = x
    BY Zenon DEF Elements
  <2>2. /\ i \in 1 .. Len(rqPushed') /\ Len(rqPushed) + 1 \in 1 .. Len(rqPushed')
        /\ i < Len(rqPushed) + 1 /\ rqPushed'[i] = x
    BY <1>2, <2>1
  <2> QED
    BY <1>2, <2>2, Zenon
<1> HIDE DEF Before
<1>7. \A c \in QConsumer : /\ Popped(c)' = Popped(c) /\ rqHandled'[c] = rqHandled[c] /\ rqHas'[c] = rqHas[c]
                           /\ Elements(rqHandled[c])' = Elements(rqHandled[c])
  BY <1>1, Zenon DEF Popped, Elements
<1>8. \A c \in QConsumer : Popped(c) \subseteq Elements(rqPushed)
  BY DEF RqInv, HandledOnceInOrder
<1>9. Elements(rqList) \subseteq Elements(rqPushed) /\ rqLost \subseteq Elements(rqPushed)
  BY Zenon DEF RqInv, HandledOnceInOrder
<1>10. InPushOrder(rqList)'
  <2> SUFFICES ASSUME NEW i \in 1 .. Len(rqList'), NEW j \in 1 .. Len(rqList'), i < j
               PROVE  Before(rqList'[i], rqList'[j])
    BY Zenon DEF InPushOrder, PushedBefore, Before
  <2>1. i \in 1 .. Len(rqList) /\ rqList'[i] = rqList[i]
    BY <1>3
  <2>2. CASE j \in 1 .. Len(rqList)
    <3>1. PushedBefore(rqList[i], rqList[j]) /\ rqList'[j] = rqList[j]
      BY <1>3, <2>1, <2>2, Zenon DEF RqInv, HandledOnceInOrder, InPushOrder
    <3> QED
      BY <1>5, <2>1, <3>1, Zenon
  <2>3. CASE j = Len(rqList) + 1
    <3>1. rqList[i] \in Elements(rqPushed)
      BY <1>9, <2>1, Zenon DEF Elements
    <3> QED
      BY <1>3, <1>6, <2>1, <2>3, <3>1, Zenon
  <2> QED
    BY <1>3, <2>2, <2>3
<1>11. ASSUME NEW c \in QConsumer PROVE InPushOrder(rqHandled[c])'
  <2>1. rqHandled[c]' = rqHandled[c] /\ InPushOrder(rqHandled[c])
    BY <1>7, Zenon DEF RqInv, HandledOnceInOrder
  <2> QED
    <3>1. \A i, j \in 1 .. Len(rqHandled'[c]) : i < j => Before(rqHandled'[c][i], rqHandled'[c][j])
      BY <1>5, <2>1, Zenon DEF InPushOrder
    <3> QED
      BY <3>1, Zenon DEF InPushOrder, PushedBefore, Before
<1>12. \A i, j \in 1 .. Len(rqPushed') : rqPushed'[i] = rqPushed'[j] => i = j
  <2>1. \A i \in 1 .. Len(rqPushed) : rqPushed[i] # m
    BY <1>4, Zenon DEF Elements
  <2>2. \A i, j \in 1 .. Len(rqPushed) : rqPushed[i] = rqPushed[j] => i = j
    BY Zenon DEF RqInv, HandledOnceInOrder
  <2> QED
    BY <1>2, <2>1, <2>2
<1>13. Elements(rqPushed') = Elements(rqList') \cup rqLost' \cup UNION {Popped(c)' : c \in QConsumer}
  BY <1>1, <1>2, <1>3, <1>7 DEF RqInv, HandledOnceInOrder
<1>14. /\ Elements(rqList') \cap rqLost' = {}
       /\ \A c \in QConsumer :
            /\ Popped(c)' \cap (Elements(rqList') \cup rqLost') = {}
            /\ \A d \in QConsumer \ {c} : Popped(c)' \cap Popped(d)' = {}
            /\ rqHas'[c] \notin Elements(rqHandled[c])'
  BY <1>1, <1>3, <1>4, <1>7, <1>8, <1>9 DEF RqInv, HandledOnceInOrder
<1>15. HandledOnceInOrder'
  BY <1>10, <1>11, <1>12, <1>13, <1>14, Zenon DEF HandledOnceInOrder
<1>16. \A c \in QConsumer :
         /\ \A x \in Popped(c)', y \in Elements(rqList') : PushedBefore(x, y)'
         /\ rqHas'[c] # QNone => \A x \in Elements(rqHandled[c])' : PushedBefore(x, rqHas[c])'
  <2>1. ASSUME NEW c \in QConsumer, NEW x \in Popped(c)', NEW y \in Elements(rqList') PROVE Before(x, y)
    BY <1>3, <1>5, <1>6, <1>7, <1>8 DEF RqInv
  <2>2. ASSUME NEW c \in QConsumer, rqHas'[c] # QNone, NEW x \in Elements(rqHandled[c])' PROVE Before(x, rqHas'[c])
    BY <1>5, <1>7, <2>2, Zenon DEF RqInv
  <2> QED
    BY <2>1, <2>2, Zenon DEF PushedBefore, Before
<1>17. DOMAIN rqPub' = QMsg /\ \A x \in Elements(rqPushed') : rqPub'[x] = "pushed"
  <2>1. Elements(rqPushed) \subseteq QMsg
    BY DEF RqInv, Elements
  <2> QED
    BY <1>1, <1>2, <2>1, Zenon DEF RqInv
<1> QED
  BY <1>1, <1>2, <1>3, <1>15, <1>16, <1>17, Zenon DEF RqInv

\* The message popped is the oldest of those that wait.
LEMMA TakesHead ==
  ASSUME RqInv, rqList # <<>>, rqList' = Tail(rqList), UNCHANGED rqPushed
  PROVE  /\ rqList' \in Seq(QMsg) /\ Head(rqList) \in QMsg /\ InPushOrder(rqList)'
         /\ Elements(rqList) = {Head(rqList)} \cup Elements(rqList')
         /\ Head(rqList) \notin Elements(rqList')
         /\ \A n \in Elements(rqList') : PushedBefore(Head(rqList), n)
<1> DEFINE hd == Head(rqList)
<1>1. /\ rqList' \in Seq(QMsg) /\ Len(rqList) \in Nat \ {0} /\ Len(rqList') = Len(rqList) - 1
      /\ \A i \in 1 .. Len(rqList') : i + 1 \in 1 .. Len(rqList) /\ rqList'[i] = rqList[i + 1]
      /\ hd = rqList[1] /\ hd \in QMsg
      /\ Elements(rqList) = {hd} \cup Elements(rqList')
  BY ElementsTail, Zenon DEF RqInv
<1> HIDE DEF hd
<1>2. InPushOrder(rqList)
  BY Zenon DEF RqInv, HandledOnceInOrder
<1>3. \A n \in Elements(rqList') : PushedBefore(hd, n)
  <2> SUFFICES ASSUME NEW i \in 1 .. Len(rqList') PROVE PushedBefore(hd, rqList'[i])
    BY Zenon DEF Elements
  <2>1. 1 \in 1 .. Len(rqList) /\ 1 < i + 1
    BY <1>1
  <2> QED
    BY <1>1, <1>2, <2>1, Zenon DEF InPushOrder
<1>4. hd \notin Elements(rqList')
  <2>1. ~PushedBefore(hd, hd)
    BY DEF RqInv, HandledOnceInOrder, PushedBefore
  <2> QED
    BY <1>3, <2>1, Zenon
<1>5. InPushOrder(rqList)'
  <2>1. ASSUME NEW i \in 1 .. Len(rqList'), NEW j \in 1 .. Len(rqList'), i < j
        PROVE  PushedBefore(rqList'[i], rqList'[j])
    <3>1. i + 1 < j + 1
      BY <2>1
    <3> QED
      BY <1>1, <1>2, <3>1, Zenon DEF InPushOrder
  <2> QED
    BY <2>1 DEF InPushOrder, PushedBefore
<1> QED
  BY <1>1, <1>3, <1>4, <1>5, Zenon DEF hd

\* A consumer receives the oldest message.
LEMMA RQPopInv == ASSUME RqInv, NEW c \in QConsumer, RQPop(c) PROVE RqInv'
<1> DEFINE hd == Head(rqList)
<1>1. /\ rqAt[c] = "brpop" /\ rqList # <<>> /\ rqAt' = [rqAt EXCEPT ![c] = "handler"]
      /\ rqHas' = [rqHas EXCEPT ![c] = hd] /\ rqList' = Tail(rqList)
      /\ UNCHANGED <<rqPub, rqHandled, rqPushed, rqLost>>
  BY Zenon DEF RQPop
<1>2. /\ rqList' \in Seq(QMsg) /\ hd \in QMsg /\ InPushOrder(rqList)'
      /\ Elements(rqList) = {hd} \cup Elements(rqList') /\ hd \notin Elements(rqList')
      /\ \A n \in Elements(rqList') : PushedBefore(hd, n)
  BY <1>1, TakesHead, Zenon
<1> HIDE DEF hd
<1>3. /\ rqHas' \in [QConsumer -> QMsg \cup {QNone}] /\ hd # QNone
      /\ rqHas[c] = QNone /\ rqHas'[c] = hd
      /\ \A d \in QConsumer \ {c} : rqHas'[d] = rqHas[d]
      /\ DOMAIN rqAt' = QConsumer /\ \A d \in QConsumer : rqAt'[d] = IF d = c THEN "handler" ELSE rqAt[d]
  BY <1>1, <1>2, QAssumption, Zenon DEF RqInv
<1>4. /\ Popped(c)' = Popped(c) \cup {hd} /\ Popped(c) = Elements(rqHandled[c])
      /\ \A d \in QConsumer \ {c} : Popped(d)' = Popped(d)
  BY <1>1, <1>3 DEF Popped
<1>5. \A d \in QConsumer : /\ hd \notin Popped(d) /\ rqHandled'[d] = rqHandled[d]
                           /\ Elements(rqHandled[d])' = Elements(rqHandled[d])
                           /\ Elements(rqHandled[d]) \subseteq Popped(d)
  <2>1. \A d \in QConsumer : Popped(d) \cap Elements(rqList) = {}
    BY Zenon DEF RqInv, HandledOnceInOrder
  <2>2. \A d \in QConsumer : Elements(rqHandled[d])' = Elements(rqHandled[d])
    BY <1>1, Zenon DEF Elements
  <2>3. \A d \in QConsumer : Elements(rqHandled[d]) \subseteq Popped(d)
    BY Zenon DEF Popped
  <2> QED
    BY <1>1, <1>2, <2>1, <2>2, <2>3, Zenon
<1>6. \A x, y : PushedBefore(x, y)' <=> PushedBefore(x, y)
  BY <1>1, Zenon DEF PushedBefore
<1>7. Elements(rqPushed') = Elements(rqPushed)
  BY <1>1, Zenon
<1>8. Elements(rqPushed') = Elements(rqList') \cup rqLost' \cup UNION {Popped(d)' : d \in QConsumer}
  <2>1. UNION {Popped(d)' : d \in QConsumer} = {hd} \cup UNION {Popped(d) : d \in QConsumer}
    BY <1>4, Zenon
  <2> QED
    BY <1>1, <1>2, <1>7, <2>1, Zenon DEF RqInv, HandledOnceInOrder
<1>9. /\ Elements(rqList') \cap rqLost' = {}
      /\ \A b \in QConsumer :
           /\ Popped(b)' \cap (Elements(rqList') \cup rqLost') = {}
           /\ \A d \in QConsumer \ {b} : Popped(b)' \cap Popped(d)' = {}
           /\ rqHas'[b] \notin Elements(rqHandled[b])'
  <2>1. /\ Elements(rqList) \cap rqLost = {}
        /\ \A b \in QConsumer : /\ Popped(b) \cap (Elements(rqList) \cup rqLost) = {}
                               /\ \A d \in QConsumer \ {b} : Popped(b) \cap Popped(d) = {}
                               /\ rqHas[b] \notin Elements(rqHandled[b])
    BY Zenon DEF RqInv, HandledOnceInOrder
  <2>2. \A b \in QConsumer : Popped(b)' \cap (Elements(rqList') \cup rqLost') = {}
    BY <1>1, <1>2, <1>4, <2>1
  <2>3. \A b \in QConsumer : \A d \in QConsumer \ {b} : Popped(b)' \cap Popped(d)' = {}
    BY <1>4, <1>5, <2>1
  <2>4. \A b \in QConsumer : rqHas'[b] \notin Elements(rqHandled[b])'
    BY <1>3, <1>5, <2>1
  <2> QED
    BY <1>1, <1>2, <2>1, <2>2, <2>3, <2>4
<1>10. \A d \in QConsumer : InPushOrder(rqHandled[d])'
  <2>1. \A d \in QConsumer : InPushOrder(rqHandled[d])
    BY Zenon DEF RqInv, HandledOnceInOrder
  <2> QED
    <3> SUFFICES ASSUME NEW d \in QConsumer, NEW i \in 1 .. Len(rqHandled'[d]), NEW j \in 1 .. Len(rqHandled'[d]), i < j
                 PROVE  \E k, l \in 1 .. Len(rqPushed') :
                          k < l /\ rqPushed'[k] = rqHandled'[d][i] /\ rqPushed'[l] = rqHandled'[d][j]
      BY Zenon DEF InPushOrder, PushedBefore
    <3>1. PushedBefore(rqHandled[d][i], rqHandled[d][j])
      BY <1>1, <2>1, Zenon DEF InPushOrder
    <3> QED
      BY <1>1, <3>1, Zenon DEF PushedBefore
<1>11. HandledOnceInOrder'
  BY <1>1, <1>2, <1>8, <1>9, <1>10 DEF RqInv, HandledOnceInOrder
<1>12. \A d \in QConsumer :
         /\ \A x \in Popped(d)', y \in Elements(rqList') : PushedBefore(x, y)
         /\ rqHas'[d] # QNone => \A x \in Elements(rqHandled[d])' : PushedBefore(x, rqHas'[d])
  <2> SUFFICES ASSUME NEW d \in QConsumer
               PROVE  /\ \A x \in Popped(d)', y \in Elements(rqList') : PushedBefore(x, y)
                      /\ rqHas'[d] # QNone => \A x \in Elements(rqHandled[d])' : PushedBefore(x, rqHas'[d])
    BY Zenon
  <2>1. \A x \in Popped(d), y \in Elements(rqList) : PushedBefore(x, y)
    BY Zenon DEF RqInv
  <2>2. CASE d = c
    BY <1>2, <1>3, <1>4, <1>5, <2>1, <2>2, Zenon
  <2>3. CASE d # c
    BY <1>2, <1>3, <1>4, <1>5, <2>1, <2>3 DEF RqInv
  <2> QED
    BY <2>2, <2>3, Zenon
<1>13. \A d \in QConsumer :
         /\ \A x \in Popped(d)', y \in Elements(rqList') : PushedBefore(x, y)'
         /\ rqHas'[d] # QNone => \A x \in Elements(rqHandled[d])' : PushedBefore(x, rqHas[d])'
  BY <1>1, <1>12 DEF PushedBefore
<1> QED
  BY <1>1, <1>2, <1>3, <1>7, <1>11, <1>13, Zenon DEF RqInv

\* The oldest message is lost.
LEMMA RQLoseInv ==
  ASSUME RqInv, DOMAIN rqAt' = QConsumer, \A d \in QConsumer : rqAt'[d] = "handler" <=> rqAt[d] = "handler",
         rqList # <<>>, rqLost' = rqLost \cup {Head(rqList)}, rqList' = Tail(rqList),
         UNCHANGED <<rqPub, rqHas, rqHandled, rqPushed>>
  PROVE  RqInv'
<1> DEFINE hd == Head(rqList)
<1>1. /\ rqList' \in Seq(QMsg) /\ hd \in QMsg /\ InPushOrder(rqList)'
      /\ Elements(rqList) = {hd} \cup Elements(rqList') /\ hd \notin Elements(rqList')
  BY TakesHead, Zenon
<1>2. rqLost' = rqLost \cup {hd}
  BY Zenon
<1> HIDE DEF hd
<1>3. \A d \in QConsumer : /\ Popped(d)' = Popped(d) /\ rqHas'[d] = rqHas[d]
                           /\ Elements(rqHandled[d])' = Elements(rqHandled[d])
  BY Zenon DEF Popped, Elements
<1>4. \A d \in QConsumer : InPushOrder(rqHandled[d])'
  <2>1. \A d \in QConsumer : InPushOrder(rqHandled[d])
    BY Zenon DEF RqInv, HandledOnceInOrder
  <2> QED
    <3> SUFFICES ASSUME NEW d \in QConsumer, NEW i \in 1 .. Len(rqHandled'[d]), NEW j \in 1 .. Len(rqHandled'[d]), i < j
                 PROVE  \E k, l \in 1 .. Len(rqPushed') :
                          k < l /\ rqPushed'[k] = rqHandled'[d][i] /\ rqPushed'[l] = rqHandled'[d][j]
      BY Zenon DEF InPushOrder, PushedBefore
    <3>1. PushedBefore(rqHandled[d][i], rqHandled[d][j])
      BY <2>1, Zenon DEF InPushOrder
    <3> QED
      BY <3>1, Zenon DEF PushedBefore
<1>5. Elements(rqPushed') = Elements(rqPushed)
  BY Zenon
<1>6. Elements(rqPushed') = Elements(rqList') \cup rqLost' \cup UNION {Popped(d)' : d \in QConsumer}
  <2>1. UNION {Popped(d)' : d \in QConsumer} = UNION {Popped(d) : d \in QConsumer}
    BY <1>3, Zenon
  <2> QED
    BY <1>1, <1>2, <1>5, <2>1, Zenon DEF RqInv, HandledOnceInOrder
<1>7. HandledOnceInOrder'
  <2>1. \A d \in QConsumer : Popped(d) \cap (Elements(rqList') \cup rqLost') = {}
    BY <1>1, <1>2, Zenon DEF RqInv, HandledOnceInOrder
  <2>2. Elements(rqList') \cap rqLost' = {}
    BY <1>1, <1>2, Zenon DEF RqInv, HandledOnceInOrder
  <2>3. \A d \in QConsumer : /\ \A b \in QConsumer \ {d} : Popped(d)' \cap Popped(b)' = {}
                             /\ Popped(d)' \cap (Elements(rqList') \cup rqLost') = {}
                             /\ rqHas'[d] \notin Elements(rqHandled[d])'
    BY <1>3, <2>1, Zenon DEF RqInv, HandledOnceInOrder
  <2> QED
    BY <1>1, <1>4, <1>6, <2>2, <2>3, Zenon DEF RqInv, HandledOnceInOrder
<1>8. \A d \in QConsumer :
        /\ \A x \in Popped(d)', y \in Elements(rqList') : PushedBefore(x, y)
        /\ rqHas'[d] # QNone => \A x \in Elements(rqHandled[d])' : PushedBefore(x, rqHas'[d])
  BY <1>1, <1>3, Zenon DEF RqInv
<1>9. \A d \in QConsumer :
        /\ \A x \in Popped(d)', y \in Elements(rqList') : PushedBefore(x, y)'
        /\ rqHas'[d] # QNone => \A x \in Elements(rqHandled[d])' : PushedBefore(x, rqHas[d])'
  <2>1. \A d \in QConsumer : \A x \in Popped(d)', y \in Elements(rqList') : PushedBefore(x, y)'
    BY <1>8 DEF PushedBefore
  <2>2. \A d \in QConsumer : rqHas'[d] # QNone => \A x \in Elements(rqHandled[d])' : PushedBefore(x, rqHas[d])'
    BY <1>8 DEF PushedBefore
  <2> QED
    BY <2>1, <2>2, Zenon
<1> QED
  BY <1>1, <1>2, <1>5, <1>7, <1>9, Zenon DEF RqInv

\* A handler is called with the message its consumer received.
LEMMA RQHandleInv == ASSUME RqInv, NEW c \in QConsumer, RQHandle(c) PROVE RqInv'
<1> DEFINE m == rqHas[c]
           s == rqHandled[c]
<1>1. /\ rqAt[c] = "handler" /\ rqHandled' = [rqHandled EXCEPT ![c] = Append(s, m)]
      /\ rqHas' = [rqHas EXCEPT ![c] = QNone] /\ rqAt' = [rqAt EXCEPT ![c] = "loop"]
      /\ UNCHANGED <<rqPub, rqList, rqPushed, rqLost>>
  BY Zenon DEF RQHandle
<1>2. m \in QMsg /\ m # QNone /\ s \in Seq(QMsg)
  BY <1>1, Zenon DEF RqInv
<1>3. /\ Append(s, m) \in Seq(QMsg) /\ Len(s) \in Nat /\ Len(Append(s, m)) = Len(s) + 1
      /\ \A i \in 1 .. Len(s) : Append(s, m)[i] = s[i]
      /\ Append(s, m)[Len(s) + 1] = m
      /\ Elements(Append(s, m)) = Elements(s) \cup {m}
  BY <1>2, ElementsAppend, Zenon
<1>4. /\ rqHandled' \in [QConsumer -> Seq(QMsg)] /\ rqHandled'[c] = Append(s, m)
      /\ rqHas' \in [QConsumer -> QMsg \cup {QNone}] /\ rqHas'[c] = QNone
      /\ \A d \in QConsumer \ {c} : rqHandled'[d] = rqHandled[d] /\ rqHas'[d] = rqHas[d]
      /\ DOMAIN rqAt' = QConsumer /\ \A d \in QConsumer : rqAt'[d] = IF d = c THEN "loop" ELSE rqAt[d]
  BY <1>1, <1>2, <1>3, Zenon DEF RqInv
<1>5. ASSUME NEW x \in Elements(s) PROVE PushedBefore(x, m)
  BY <1>2, Zenon DEF RqInv
<1>6. \A i, j \in 1 .. Len(s) : i < j => PushedBefore(s[i], s[j])
  BY Zenon DEF RqInv, HandledOnceInOrder, InPushOrder
<1>7. QNone \notin Elements(Append(s, m))
  BY <1>3, QAssumption DEF Elements
<1>8. Popped(c)' = Popped(c)
  BY <1>2, <1>3, <1>4, Zenon DEF Popped
<1>9. \A d \in QConsumer \ {c} : Popped(d)' = Popped(d) /\ Elements(rqHandled[d])' = Elements(rqHandled[d])
  BY <1>4 DEF Popped, Elements
<1>10. Elements(rqHandled[c])' = Elements(Append(s, m))
  BY <1>4 DEF Elements
<1>11. \A i, j \in 1 .. Len(rqHandled'[c]) : i < j => PushedBefore(rqHandled'[c][i], rqHandled'[c][j])
  <2> SUFFICES ASSUME NEW i \in 1 .. Len(s) + 1, NEW j \in 1 .. Len(s) + 1, i < j
               PROVE  PushedBefore(Append(s, m)[i], Append(s, m)[j])
    BY <1>3, <1>4, Zenon
  <2>1. i \in 1 .. Len(s) /\ Append(s, m)[i] = s[i]
    BY <1>3
  <2>2. CASE j \in 1 .. Len(s)
    BY <1>3, <1>6, <2>1, <2>2, Zenon
  <2>3. CASE j = Len(s) + 1
    <3>1. s[i] \in Elements(s)
      BY <2>1, Zenon DEF Elements
    <3> QED
      BY <1>3, <1>5, <2>1, <2>3, <3>1, Zenon
  <2> QED
    BY <1>3, <2>2, <2>3
<1> HIDE DEF m, s
<1>12. \A d \in QConsumer : InPushOrder(rqHandled[d])'
  <2>1. \A d \in QConsumer : \A i, j \in 1 .. Len(rqHandled'[d]) :
          i < j => PushedBefore(rqHandled'[d][i], rqHandled'[d][j])
    BY <1>4, <1>11, Zenon DEF RqInv, HandledOnceInOrder, InPushOrder
  <2> QED
    <3> SUFFICES ASSUME NEW d \in QConsumer, NEW i \in 1 .. Len(rqHandled'[d]), NEW j \in 1 .. Len(rqHandled'[d]), i < j
                 PROVE  \E k, l \in 1 .. Len(rqPushed') :
                          k < l /\ rqPushed'[k] = rqHandled'[d][i] /\ rqPushed'[l] = rqHandled'[d][j]
      BY DEF InPushOrder, PushedBefore
    <3>1. PushedBefore(rqHandled'[d][i], rqHandled'[d][j])
      BY <2>1, Zenon
    <3> QED
      BY <1>1, <3>1, Zenon DEF PushedBefore
<1>13. /\ Elements(rqList') = Elements(rqList) /\ Elements(rqPushed') = Elements(rqPushed)
       /\ \A d \in QConsumer : Popped(d)' = Popped(d)
  BY <1>1, <1>8, <1>9, Zenon
<1>14. \A d \in QConsumer : rqHas'[d] \notin Elements(rqHandled[d])'
  BY <1>4, <1>7, <1>9, <1>10, Zenon DEF RqInv, HandledOnceInOrder
<1>15. Elements(rqPushed') = Elements(rqList') \cup rqLost' \cup UNION {Popped(d)' : d \in QConsumer}
  BY <1>1, <1>13 DEF RqInv, HandledOnceInOrder
<1>16. HandledOnceInOrder'
  <2>1. InPushOrder(rqList)'
    BY <1>1 DEF RqInv, HandledOnceInOrder, InPushOrder, PushedBefore
  <2> QED
    BY <1>1, <1>12, <1>13, <1>14, <1>15, <2>1, Zenon DEF RqInv, HandledOnceInOrder
<1>17. \A d \in QConsumer :
         /\ \A x \in Popped(d)', y \in Elements(rqList') : PushedBefore(x, y)
         /\ rqHas'[d] # QNone => \A x \in Elements(rqHandled[d])' : PushedBefore(x, rqHas'[d])
  BY <1>4, <1>9, <1>13, Zenon DEF RqInv
<1>18. \A d \in QConsumer :
         /\ \A x \in Popped(d)', y \in Elements(rqList') : PushedBefore(x, y)'
         /\ rqHas'[d] # QNone => \A x \in Elements(rqHandled[d])' : PushedBefore(x, rqHas[d])'
  BY <1>1, <1>17 DEF PushedBefore
<1> QED
  BY <1>1, <1>4, <1>13, <1>16, <1>18, Zenon DEF RqInv

\* One call, or one step of a consumer.
LEMMA RqNextInv == ASSUME RqInv, [RQNext]_rqVars PROVE RqInv'
<1>1. ASSUME NEW m \in QMsg, RQPublish(m) \/ RQLPushFails(m) PROVE RqInv'
  <2>1. /\ UNCHANGED <<rqList, rqHas, rqHandled, rqPushed, rqLost, rqAt>> /\ DOMAIN rqPub' = QMsg
        /\ \A n \in QMsg : rqPub[n] = "pushed" => rqPub'[n] = "pushed"
    BY <1>1, Zenon DEF RQPublish, RQLPushFails, RqInv
  <2> QED
    BY <2>1, RqRest, Zenon DEF RqInv
<1>2. ASSUME NEW c \in QConsumer, RQSubscribe(c) \/ RQLoop(c) PROVE RqInv'
  <2>1. /\ UNCHANGED <<rqList, rqHas, rqHandled, rqPushed, rqLost, rqPub>> /\ DOMAIN rqAt' = QConsumer
        /\ \A d \in QConsumer : rqAt'[d] = "handler" <=> rqAt[d] = "handler"
    BY <1>2, Zenon DEF RQSubscribe, RQLoop, RqInv
  <2> QED
    BY <2>1, RqRest, Zenon DEF RqInv
<1>3. CASE RQUnsubscribe \/ RQClose \/ UNCHANGED rqVars
  <2>1. UNCHANGED <<rqList, rqHas, rqHandled, rqPushed, rqLost, rqPub, rqAt>>
    BY <1>3, Zenon DEF RQUnsubscribe, RQClose, rqVars
  <2> QED
    BY <2>1, RqRest, Zenon DEF RqInv
<1>4. ASSUME NEW c \in QConsumer, RQPopFails(c) \/ RQUnreadable(c) PROVE RqInv'
  <2>1. /\ rqAt[c] = "brpop" /\ UNCHANGED <<rqPub, rqHas, rqHandled, rqPushed>>
        /\ rqAt' = [rqAt EXCEPT ![c] = "returned"] \/ rqAt' = [rqAt EXCEPT ![c] = "loop"]
    BY <1>4, Zenon DEF RQPopFails, RQUnreadable
  <2>2. DOMAIN rqAt' = QConsumer /\ \A d \in QConsumer : rqAt'[d] = "handler" <=> rqAt[d] = "handler"
    BY <2>1, Zenon DEF RqInv
  <2>3. CASE UNCHANGED <<rqList, rqLost>>
    BY <2>1, <2>2, <2>3, RqRest, Zenon DEF RqInv
  <2>4. CASE Loses
    BY <2>1, <2>2, <2>4, RQLoseInv, Zenon DEF Loses
  <2> QED
    BY <1>4, <2>3, <2>4, Zenon DEF RQPopFails, RQUnreadable
<1> QED
  BY <1>1, <1>2, <1>3, <1>4, RQLPushInv, RQPopInv, RQHandleInv, Zenon DEF RQNext, RQStep

\* No message is handled twice or vanishes, other than into a BRPop that fails or an
\* entry that cannot be read, and each consumer sees its messages in the order of the
\* pushes, for any number of messages and consumers.
THEOREM RedisQueueIsAQueue == RQSpec => []HandledOnceInOrder
<1>1. RqInv /\ [RQNext]_rqVars => RqInv'
  BY RqNextInv
<1>2. RqInv => HandledOnceInOrder
  BY Zenon DEF RqInv
<1> QED
  BY <1>1, <1>2, RqInvInit, PTL DEF RQSpec

-----------------------------------------------------------------------------
(* The memory queue.                                                       *)

\* The map is nil only once the queue is closed, and a message has goroutines and calls
\* only once it is published.
MqInv ==
  /\ mqSubs \in Seq(MqHandler) \cup {MqNil}
  /\ mqSubs = MqNil => mqClosed
  /\ \A p \in mqRunning \cup Called : p[1] \in mqPublished
  /\ mqHandled \in Seq(mqDue)
  /\ DeliveredOnceToAll

\* The steps that leave the goroutines alone.
LEMMA MqRest ==
  ASSUME MqInv, UNCHANGED <<mqPublished, mqRunning, mqHandled, mqDue, mqPanic>>,
         mqSubs' \in Seq(MqHandler) \cup {MqNil}, mqSubs' = MqNil => mqClosed'
  PROVE  MqInv'
  BY DEF MqInv, DeliveredOnceToAll, Called

\* The goroutines of a message that was not published before are new.
LEMMA MQPublishInv == ASSUME MqInv, NEW m \in MqMsg, MQPublish(m) PROVE MqInv'
<1>1. /\ m \notin mqPublished /\ mqPublished' = mqPublished \cup {m}
      /\ UNCHANGED <<mqSubs, mqClosed, mqHandled, mqPanic>> /\ Called' = Called
  BY Zenon DEF MQPublish, Called
<1>2. \A p \in mqRunning \cup Called : p[1] \in mqPublished
  BY Zenon DEF MqInv
<1>3. CASE mqClosed
  BY <1>1, <1>2, <1>3 DEF MQPublish, MqInv, DeliveredOnceToAll
<1>4. CASE ~mqClosed
  <2> DEFINE started == {<<m, Subscribers[i]>> : i \in 1 .. Len(Subscribers)}
  <2>1. mqRunning' = mqRunning \cup started /\ mqDue' = mqDue \cup started
    BY <1>4, Zenon DEF MQPublish
  <2>2. \A p \in started : p[1] = m
    OBVIOUS
  <2> HIDE DEF started
  <2>3. started \cap Called = {}
    BY <1>1, <1>2, <2>2, Zenon
  <2>4. \A p \in mqRunning' \cup Called' : p[1] \in mqPublished'
    BY <1>1, <1>2, <2>1, <2>2, Zenon
  <2>5. mqHandled' \in Seq(mqDue')
    BY <1>1, <2>1 DEF MqInv
  <2>6. DeliveredOnceToAll'
    BY <1>1, <2>1, <2>3 DEF MqInv, DeliveredOnceToAll
  <2> QED
    BY <1>1, <2>4, <2>5, <2>6, Zenon DEF MqInv
<1> QED
  BY <1>3, <1>4, Zenon

\* A goroutine calls its handler and is gone.
LEMMA MQHandleInv ==
  ASSUME MqInv, NEW m \in MqMsg, NEW f \in MqHandler, MQHandle(m, f) PROVE MqInv'
<1> DEFINE p == <<m, f>>
<1>1. /\ p \in mqRunning /\ mqRunning' = mqRunning \ {p} /\ mqHandled' = Append(mqHandled, p)
      /\ UNCHANGED <<mqSubs, mqClosed, mqPublished, mqDue, mqPanic>>
  BY Zenon DEF MQHandle
<1> HIDE DEF p
<1>2. /\ mqHandled \in Seq(mqDue) /\ Len(mqHandled) \in Nat /\ p \in mqDue /\ p \notin Called
      /\ mqDue = mqRunning \cup Called /\ mqRunning \cap Called = {}
  BY <1>1 DEF MqInv, DeliveredOnceToAll
<1>3. /\ mqHandled' \in Seq(mqDue) /\ Len(mqHandled') = Len(mqHandled) + 1
      /\ \A i \in 1 .. Len(mqHandled) : mqHandled'[i] = mqHandled[i]
      /\ mqHandled'[Len(mqHandled) + 1] = p
  BY <1>1, <1>2
<1>4. Called' = Called \cup {p}
  BY <1>2, <1>3 DEF Called
<1>5. ASSUME NEW i \in 1 .. Len(mqHandled'), NEW j \in 1 .. Len(mqHandled'), mqHandled'[i] = mqHandled'[j]
      PROVE  i = j
  <2>1. \A k \in 1 .. Len(mqHandled) : mqHandled[k] # p
    BY <1>2, Zenon DEF Called
  <2> QED
    BY <1>2, <1>3, <1>5, <2>1 DEF MqInv, DeliveredOnceToAll
<1>6. DeliveredOnceToAll'
  BY <1>1, <1>2, <1>4, <1>5 DEF MqInv, DeliveredOnceToAll
<1>7. \A q \in mqRunning' \cup Called' : q[1] \in mqPublished'
  BY <1>1, <1>4, Zenon DEF MqInv
<1> QED
  BY <1>1, <1>3, <1>6, <1>7, Zenon DEF MqInv

\* One call, or one goroutine.
LEMMA MqNextInv == ASSUME MqInv, [MQNext]_mqVars PROVE MqInv'
<1>1. ASSUME NEW f \in MqHandler, MQSubscribe(f) PROVE MqInv'
  <2>1. mqSubs \in Seq(MqHandler) /\ ~mqClosed
    BY <1>1, Zenon DEF MqInv, MQSubscribe
  <2>2. mqSubs # MqNil
    BY <2>1, NilAssumption, Zenon
  <2>3. mqSubs' = Append(mqSubs, f) /\ UNCHANGED <<mqClosed, mqPublished, mqRunning, mqHandled, mqDue, mqPanic>>
    BY <1>1, <2>2, Zenon DEF MQSubscribe
  <2>4. mqSubs' \in Seq(MqHandler)
    BY <2>1, <2>3
  <2> QED
    BY <2>3, <2>4, NilAssumption, MqRest, Zenon
<1>2. CASE MQUnsubscribe
  <2>1. mqSubs' \in {MqNil, <<>>} /\ (mqSubs' = MqNil => mqSubs = MqNil \/ <<>> = MqNil)
    BY <1>2, Zenon DEF MQUnsubscribe
  <2>2. <<>> \in Seq(MqHandler)
    OBVIOUS
  <2>3. mqSubs' = MqNil => mqClosed'
    BY <1>2, <2>1, <2>2, NilAssumption, Zenon DEF MQUnsubscribe, MqInv
  <2> QED
    BY <1>2, <2>1, <2>2, <2>3, MqRest, Zenon DEF MQUnsubscribe
<1>3. CASE MQClose
  BY <1>3, MqRest, Zenon DEF MQClose
<1>4. CASE UNCHANGED mqVars
  BY <1>4, MqRest, Zenon DEF mqVars, MqInv
<1> QED
  BY <1>1, <1>2, <1>3, <1>4, MQPublishInv, MQHandleInv, Zenon DEF MQNext

\* Every handler subscribed when a message is published is called with it once, or has
\* a goroutine that will, and no call of the queue writes to the map that Close set to nil.
THEOREM EveryHandlerGetsItOnce == MQSpec => []DeliveredOnceToAll
<1>1. MQInit => MqInv
  <2> SUFFICES ASSUME MQInit PROVE MqInv
    OBVIOUS
  <2>1. <<>> \in Seq(MqHandler) /\ <<>> \in Seq(mqDue) /\ Len(<<>>) = 0
    OBVIOUS
  <2>2. Called = {}
    BY <2>1 DEF MQInit, Called
  <2>3. DeliveredOnceToAll
    BY <2>1, <2>2 DEF MQInit, DeliveredOnceToAll
  <2>4. mqSubs \in Seq(MqHandler) /\ mqSubs # MqNil /\ mqHandled \in Seq(mqDue)
    BY <2>1, NilAssumption, Zenon DEF MQInit
  <2>5. mqRunning \cup Called = {}
    BY <2>2, Zenon DEF MQInit
  <2> QED
    BY <2>3, <2>4, <2>5, Zenon DEF MqInv
<1>2. MqInv /\ [MQNext]_mqVars => MqInv'
  BY MqNextInv
<1>3. MqInv => DeliveredOnceToAll
  BY Zenon DEF MqInv
<1> QED
  BY <1>1, <1>2, <1>3, PTL DEF MQSpec

-----------------------------------------------------------------------------
(* The RabbitMQ queue.                                                     *)

\* The topic's entry is a channel or none.
RabbitInv ==
  /\ bqChan \in [BChannel -> {"none", "open", "closed"}]
  /\ bqSub \in BChannel \cup {BNone}
  /\ NoForgottenChannel

\* Only Subscribe opens a channel, and it enters the channel under the topic.
LEMMA RabbitNextInv == ASSUME RabbitInv, [BQNext]_bqVars PROVE RabbitInv'
<1> USE DEF RabbitInv, NoForgottenChannel
<1>1. ASSUME NEW m \in BMsg, BQPublish(m) \/ BQSend(m) PROVE RabbitInv'
  BY <1>1 DEF BQPublish, BQSend
<1>2. ASSUME NEW ch \in BChannel, BQSubscribe(ch) PROVE RabbitInv'
  BY <1>2, ChannelAssumption, Zenon DEF BQSubscribe
<1>3. ASSUME NEW ch \in BChannel, BQSubscribeFails(ch) PROVE RabbitInv'
  BY <1>3, Zenon DEF BQSubscribeFails
<1>4. ASSUME NEW ch \in BChannel, BQHandle(ch) \/ BQDropped(ch) PROVE RabbitInv'
  BY <1>4 DEF BQHandle, BQDropped
<1>5. CASE BQUnsubscribe
  BY <1>5, Zenon DEF BQUnsubscribe
<1>6. CASE BQClose
  BY <1>6, Zenon DEF BQClose
<1>7. CASE UNCHANGED bqVars
  BY <1>7, Zenon DEF bqVars
<1> QED
  BY <1>1, <1>2, <1>3, <1>4, <1>5, <1>6, <1>7, Zenon DEF BQNext

\* However subscriptions come, fail and go, no channel stays open that neither
\* Unsubscribe nor Close would close, but for the ones a second Subscribe displaced.
THEOREM ChannelsAreTracked == BQSpec => []NoForgottenChannel
<1>1. BQInit => RabbitInv
  BY Zenon DEF BQInit, RabbitInv, NoForgottenChannel
<1>2. RabbitInv /\ [BQNext]_bqVars => RabbitInv'
  BY RabbitNextInv
<1>3. RabbitInv => NoForgottenChannel
  BY Zenon DEF RabbitInv
<1> QED
  BY <1>1, <1>2, <1>3, PTL DEF BQSpec

-----------------------------------------------------------------------------
(* Groups.                                                                 *)

\* The handlers of group commands: what a user's command has found, and what it has made sure of.
MgType ==
  /\ groups \in [Group -> Obj \cup {NoGroup}]
  /\ DOMAIN h = User
  /\ \A u \in User :
       /\ (At(u, "addGroup") \/ At(u, "checkMember") \/ At(u, "joinGroup")) => h[u].group \in Group
       /\ At(u, "setAttribute") => h[u].obj \in Obj

\* A handler is past the look-up of a group only when the movie has the group.
Ensured ==
  \A u \in User :
    /\ At(u, "joinAllUsers") => groups[AllUsers] # NoGroup
    /\ (At(u, "checkMember") \/ At(u, "joinGroup")) => groups[h[u].group] # NoGroup

MgInv == MgType /\ Ensured /\ RoomHasGroup

\* There is an object for AddGroup to take, and a group that has an object keeps one.
LEMMA AddGroupAdds ==
  ASSUME MgInv, NEW x \in Group, AddGroup(x)
  PROVE  /\ groups' \in [Group -> Obj \cup {NoGroup}] /\ groups'[x] # NoGroup
         /\ \A g \in Group : groups[g] # NoGroup => groups'[g] # NoGroup
<1> DEFINE found == [u \in User |-> IF At(u, "setAttribute") THEN h[u].obj ELSE NoGroup]
           o == CHOOSE o \in Obj : Unreferenced(o)
<1>1. groups \in [Group -> Obj \cup {NoGroup}] /\ found \in [User -> Obj \cup {NoGroup}]
  BY Zenon DEF MgInv, MgType
<1>2. \E p \in Obj : (\A g \in Group : groups[g] # p) /\ (\A u \in User : found[u] # p)
  BY <1>1, GroupAssumption, Zenon
<1>3. \E p \in Obj : Unreferenced(p)
  BY <1>2, Zenon DEF Unreferenced
<1>4. o \in Obj
  BY <1>3, Zenon
<1>5. groups' = [groups EXCEPT ![x] = o]
  BY Zenon DEF AddGroup
<1> HIDE DEF o
<1> QED
  BY <1>1, <1>4, <1>5, GroupAssumption, Zenon

\* A step of one handler: what is left to show.
LEMMA HandlerStep ==
  ASSUME MgInv, NEW u \in User, NEW next, HGoto(u, next),
         groups' \in [Group -> Obj \cup {NoGroup}],
         \A g \in Group : groups[g] # NoGroup => groups'[g] # NoGroup,
         next.at \in {"addGroup", "checkMember", "joinGroup"} => next.group \in Group,
         next.at \in {"checkMember", "joinGroup"} => groups'[next.group] # NoGroup,
         next.at = "joinAllUsers" => groups'[AllUsers] # NoGroup,
         next.at = "setAttribute" => next.obj \in Obj,
         \A g \in Group, v \in User : <<g, v>> \in member' => <<g, v>> \in member \/ groups'[g] # NoGroup
  PROVE  MgInv'
<1>1. /\ DOMAIN h' = User /\ h'[u] = next
      /\ \A v \in User : v # u => h'[v] = h[v]
  BY Zenon DEF MgInv, MgType, HGoto
<1>2. AllUsers \in Group
  BY GroupAssumption, Zenon
<1>3. RoomHasGroup'
  BY Zenon DEF MgInv, RoomHasGroup
<1>4. ASSUME NEW v \in User
      PROVE  /\ (At(v, "addGroup") \/ At(v, "checkMember") \/ At(v, "joinGroup"))' => h'[v].group \in Group
             /\ At(v, "setAttribute")' => h'[v].obj \in Obj
             /\ At(v, "joinAllUsers")' => groups'[AllUsers] # NoGroup
             /\ (At(v, "checkMember") \/ At(v, "joinGroup"))' => groups'[h'[v].group] # NoGroup
  <2>1. CASE v = u
    BY <1>1, <2>1, Zenon DEF At
  <2>2. CASE v # u
    BY <1>1, <1>2, <2>2 DEF At, MgInv, MgType, Ensured
  <2> QED
    BY <2>1, <2>2, Zenon
<1>5. MgType'
  BY <1>1, <1>4, Zenon DEF MgType
<1>6. Ensured'
  BY <1>4, Zenon DEF Ensured
<1> QED
  BY <1>3, <1>5, <1>6, Zenon DEF MgInv

\* The steps of a Logon's tail.
LEMMA LogonTailInv ==
  ASSUME MgInv, NEW u \in User,
         JoinMovie(u) \/ GetAllUsers(u) \/ AddAllUsers(u) \/ JoinAllUsers(u) \/ SetMovieID(u)
  PROVE  MgInv'
<1>1. groups \in [Group -> Obj \cup {NoGroup}] /\ AllUsers \in Group /\ MovieRoom \notin Group
  BY GroupAssumption, Zenon DEF MgInv, MgType
<1>2. CASE JoinMovie(u)
  <2>1. groups' = groups /\ HGoto(u, [at |-> "getAllUsers"]) /\ member' = member \cup {<<MovieRoom, u>>}
    BY <1>2, Zenon DEF JoinMovie, JoinRoom
  <2> QED
    BY <1>1, <2>1, HandlerStep, Zenon
<1>3. CASE GetAllUsers(u)
  BY <1>1, <1>3, HandlerStep, Zenon DEF GetAllUsers
<1>4. CASE AddAllUsers(u)
  BY <1>1, <1>4, AddGroupAdds, HandlerStep, Zenon DEF AddAllUsers
<1>5. CASE JoinAllUsers(u)
  <2>1. groups[AllUsers] # NoGroup
    BY <1>5, Zenon DEF JoinAllUsers, MgInv, Ensured
  <2>2. groups' = groups /\ HGoto(u, [at |-> "setMovieID"]) /\ member' = member \cup {<<AllUsers, u>>}
    BY <1>5, Zenon DEF JoinAllUsers, JoinRoom
  <2> QED
    BY <1>1, <2>1, <2>2, HandlerStep, Zenon
<1>6. CASE SetMovieID(u)
  BY <1>1, <1>6, HandlerStep, Zenon DEF SetMovieID, Idle
<1> QED
  BY <1>2, <1>3, <1>4, <1>5, <1>6, Zenon

\* The steps of the group commands.
LEMMA GroupCommandInv ==
  ASSUME MgInv, NEW u \in User, NEW x \in Group,
         \/ GroupJoin(u, x) \/ AddNewGroup(u) \/ CheckMember(u) \/ JoinGroup(u)
         \/ SetAttribute(u) \/ (\E v \in Value \cup {Void} : GroupAttribute(u, x, v))
  PROVE  MgInv'
<1>1. groups \in [Group -> Obj \cup {NoGroup}]
  BY Zenon DEF MgInv, MgType
<1>2. CASE GroupJoin(u, x)
  BY <1>1, <1>2, HandlerStep, Zenon DEF GroupJoin
<1>3. CASE AddNewGroup(u)
  <2>1. h[u].group \in Group
    BY <1>3, Zenon DEF AddNewGroup, MgInv, MgType
  <2> QED
    BY <1>3, <2>1, AddGroupAdds, HandlerStep, Zenon DEF AddNewGroup
<1>4. CASE CheckMember(u)
  <2>1. h[u].group \in Group /\ groups[h[u].group] # NoGroup
    BY <1>4, Zenon DEF CheckMember, MgInv, MgType, Ensured
  <2> QED
    BY <1>1, <1>4, <2>1, HandlerStep, Zenon DEF CheckMember, Idle
<1>5. CASE JoinGroup(u)
  <2>1. h[u].group \in Group /\ groups[h[u].group] # NoGroup
    BY <1>5, Zenon DEF JoinGroup, MgInv, MgType, Ensured
  <2>2. groups' = groups /\ HGoto(u, Idle) /\ member' = member \cup {<<h[u].group, u>>}
    BY <1>5, Zenon DEF JoinGroup, JoinRoom
  <2> QED
    BY <1>1, <2>1, <2>2, HandlerStep, Zenon DEF Idle
<1>6. CASE SetAttribute(u)
  BY <1>1, <1>6, HandlerStep, Zenon DEF SetAttribute, Idle
<1>7. CASE \E v \in Value \cup {Void} : GroupAttribute(u, x, v)
  BY <1>1, <1>7, HandlerStep, Zenon DEF GroupAttribute
<1> QED
  BY <1>2, <1>3, <1>4, <1>5, <1>6, <1>7, Zenon

\* One step of a handler or of a teardown.
LEMMA MgNextInv == ASSUME MgInv, [MgNext]_mgVars PROVE MgInv'
<1>1. ASSUME NEW u \in User, NEW x \in Group, LeaveGroup(u, x) PROVE MgInv'
  BY <1>1, Zenon DEF LeaveGroup, MgInv, MgType, Ensured, RoomHasGroup, At
<1>2. ASSUME NEW u \in User, RemoveSession(u) PROVE MgInv'
  BY <1>2 DEF RemoveSession, MgInv, MgType, Ensured, RoomHasGroup, At
<1>3. CASE UNCHANGED mgVars
  BY <1>3, Zenon DEF mgVars, MgInv, MgType, Ensured, RoomHasGroup, At
<1>4. AllUsers \in Group
  BY GroupAssumption, Zenon
<1> QED
  BY <1>1, <1>2, <1>3, <1>4, LogonTailInv, GroupCommandInv, Zenon DEF MgNext

\* Although a handler looks a group up, adds it and joins its room in three steps, and
\* others do the same meanwhile, a room with a member has the group its attributes live in.
THEOREM RoomsHaveGroups == MgSpec => []RoomHasGroup
<1>1. MgInit => MgInv
  BY DEF MgInit, MgInv, MgType, Ensured, RoomHasGroup, At, Idle
<1>2. MgInv /\ [MgNext]_mgVars => MgInv'
  BY MgNextInv, Zenon
<1>3. MgInv => RoomHasGroup
  BY Zenon DEF MgInv
<1> QED
  BY <1>1, <1>2, <1>3, PTL DEF MgSpec

-----------------------------------------------------------------------------
(* Delivery.                                                               *)

\* The fan-out's record in each of its phases, and the copies the users have by then:
\* those it has still to reach have none, the stayers it has tried have one.
Counts(todo) ==
  /\ \A u \in DUser : u \in todo => dGot[u] = 0
  /\ \A u \in dStay : u \notin todo => dGot[u] = 1

DPhase ==
  \/ dSend.at \in {"start", "refused", "members"} /\ dStay = {} /\ Counts(DUser)
  \/ /\ dSend.at \in {"write", "closing"} /\ dSend = [at |-> dSend.at, todo |-> dSend.todo]
     /\ Counts(dSend.todo)
  \/ /\ dSend.at = "hung" /\ dSend = [at |-> "hung", on |-> dSend.on, todo |-> dSend.todo]
     /\ dSend.on \notin dSend.todo /\ Counts(dSend.todo \cup {dSend.on})
  \/ dSend.at = "done" /\ Counts({})

DInv ==
  /\ dPool \subseteq DUser
  /\ dStay \subseteq dPool \ dBroken
  /\ dGot \in [DUser -> {0, 1}]
  /\ DPhase

\* Which phase the fan-out is in.
LEMMA PhaseIs ==
  ASSUME DInv
  PROVE  /\ dSend.at \in {"start", "refused", "members"} => dStay = {} /\ Counts(DUser)
         /\ dSend.at \in {"write", "closing"} =>
              dSend = [at |-> dSend.at, todo |-> dSend.todo] /\ Counts(dSend.todo)
         /\ dSend.at = "hung" =>
              /\ dSend = [at |-> "hung", on |-> dSend.on, todo |-> dSend.todo]
              /\ dSend.on \notin dSend.todo /\ Counts(dSend.todo \cup {dSend.on})
         /\ dSend.at = "done" => Counts({})
  BY Zenon DEF DInv, DPhase

\* A user comes, moves or goes: the stayers that remain have as many copies as before.
LEMMA SessionStep ==
  ASSUME DInv, UNCHANGED dGot, dPool' \subseteq DUser, dStay' \subseteq dStay,
         dStay' \subseteq dPool' \ dBroken',
         NEW u, \/ UNCHANGED dSend
                \/ /\ u \notin dStay' /\ dSend.at = "hung" /\ dSend.on = u
                   /\ \E a \in {"write", "closing"} : dSend' = [at |-> a, todo |-> dSend.todo]
  PROVE  DInv'
<1>1. \A todo : Counts(todo) => Counts(todo)'
  BY Zenon DEF Counts
<1>2. DPhase'
  <2>1. CASE dSend' = dSend
    BY <1>1, <2>1, Zenon DEF DInv, DPhase
  <2>2. CASE dSend' # dSend
    <3>1. PICK a \in {"write", "closing"} : dSend' = [at |-> a, todo |-> dSend.todo]
      BY <2>2, Zenon
    <3>2. dSend'.at = a /\ dSend'.todo = dSend.todo
      BY <3>1, Zenon
    <3>3. Counts(dSend.todo \cup {u})
      BY <2>2, PhaseIs, Zenon
    <3>4. Counts(dSend.todo)'
      BY <2>2, <3>2, <3>3, Zenon DEF Counts
    <3> QED
      BY <3>1, <3>2, <3>4, Zenon DEF DPhase
  <2> QED
    BY <2>1, <2>2, Zenon
<1> QED
  BY <1>2, Zenon DEF DInv

\* The session steps.
LEMMA SessionStepInv == ASSUME DInv, NEW u \in DUser, UserStep(u) PROVE DInv'
<1>1. dPool \subseteq DUser /\ dStay \subseteq dPool \ dBroken
  BY Zenon DEF DInv
<1>2. CASE \/ Connect(u) \/ EnterGroup(u) \/ ExitGroup(u) \/ ReaperLeaves(u) \/ ReaperUnregisters(u)
           \/ TeardownSession(u) \/ (\E m \in DMovie : EnterMovie(u, m))
  <2>1. dPool' \subseteq DUser /\ dPool \subseteq dPool' /\ UNCHANGED <<dBroken, dSend, dGot, dStay>>
    BY <1>1, <1>2, Zenon DEF Connect, EnterGroup, ExitGroup, ReaperLeaves, ReaperUnregisters, TeardownSession,
       EnterMovie, sendVars
  <2> QED
    BY <1>1, <2>1, SessionStep, Zenon
<1>3. CASE CloseSocket(u)
  BY <1>1, <1>3, SessionStep, Zenon DEF CloseSocket, Free
<1>4. CASE TeardownPool(u)
  BY <1>1, <1>4, SessionStep, Zenon DEF TeardownPool
<1> QED
  BY <1>2, <1>3, <1>4, Zenon DEF UserStep, PeerResets, ReaperDisconnects

\* The sender's movie and the members are read before anything is written.
LEMMA SnapshotInv ==
  ASSUME DInv, (\E s \in DUser \cup {System} : GetSenderRooms(s)) \/ GetGroupMembers \/ Broadcast
  PROVE  DInv'
<1>1. UNCHANGED <<dPool, dBroken, dGot>> /\ dSend.at \in {"start", "members"}
  BY Zenon DEF GetSenderRooms, GetGroupMembers, Broadcast, Snapshot, sessionVars
<1>2. dStay = {} /\ Counts(DUser)
  BY <1>1, PhaseIs, Zenon
<1>3. CASE \E s \in DUser \cup {System} : GetSenderRooms(s)
  <2>1. dStay' = dStay /\ dSend'.at \in {"refused", "members"}
    BY <1>3 DEF GetSenderRooms
  <2> QED
    BY <1>1, <1>2, <2>1, Zenon DEF DInv, DPhase, Counts
<1>4. ASSUME NEW members, Snapshot(members) PROVE DInv'
  <2>1. /\ dSend' = [at |-> "write", todo |-> members] /\ dSend'.at = "write" /\ dSend'.todo = members
        /\ dStay' = members \cap (dPool \ dBroken)
    BY <1>4, Zenon DEF Snapshot
  <2>2. Counts(members)'
    BY <1>1, <1>2, <2>1, Zenon DEF Counts
  <2>3. DPhase'
    BY <2>1, <2>2, Zenon DEF DPhase
  <2> QED
    BY <1>1, <2>1, <2>3, Zenon DEF DInv
<1> QED
  BY <1>3, <1>4, Zenon DEF GetGroupMembers, Broadcast

\* A copy more for a user that had none.
LEMMA OneCopyMore ==
  ASSUME dGot \in [DUser -> {0, 1}], NEW u \in DUser, dGot[u] = 0, NEW got, got = [dGot EXCEPT ![u] = @ + 1]
  PROVE  got \in [DUser -> {0, 1}] /\ got[u] = 1 /\ \A w \in DUser \ {u} : got[w] = dGot[w]
  OBVIOUS

\* A copy is written to one of the members, or not.
LEMMA WriteMemberInv == ASSUME DInv, NEW u \in DUser, WriteMember(u) PROVE DInv'
<1>1. /\ dSend.at = "write" /\ u \in dSend.todo /\ dSend' = [dSend EXCEPT !.todo = @ \ {u}]
      /\ dGot' = (IF Reached(u) THEN [dGot EXCEPT ![u] = @ + 1] ELSE dGot)
      /\ UNCHANGED <<dStay, dPool, dBroken>>
  BY Zenon DEF WriteMember, sessionVars
<1>2. dSend = [at |-> "write", todo |-> dSend.todo] /\ Counts(dSend.todo)
  BY <1>1, PhaseIs, Zenon
<1>3. dSend' = [at |-> "write", todo |-> dSend.todo \ {u}]
  BY <1>1, <1>2, Zenon
<1>4. /\ dGot' \in [DUser -> {0, 1}] /\ \A w \in DUser \ {u} : dGot'[w] = dGot[w]
      /\ Reached(u) => dGot'[u] = 1
  <2>1. dGot \in [DUser -> {0, 1}] /\ dGot[u] = 0
    BY <1>1, <1>2, Zenon DEF DInv, Counts
  <2> QED
    BY <1>1, <2>1, OneCopyMore, Zenon
<1>5. dStay \subseteq DUser /\ (u \in dStay => Reached(u))
  BY Zenon DEF DInv, Reached
<1>6. Counts(dSend.todo \ {u})'
  BY <1>1, <1>2, <1>3, <1>4, <1>5, Zenon DEF Counts
<1>7. dSend'.at = "write" /\ dSend'.todo = dSend.todo \ {u}
  BY <1>3, Zenon
<1>8. DPhase'
  BY <1>3, <1>6, <1>7, Zenon DEF DPhase, Counts
<1> QED
  BY <1>1, <1>4, <1>8, Zenon DEF DInv

\* A write hangs ...
LEMMA WriteHangsInv == ASSUME DInv, NEW u \in DUser, WriteHangs(u) PROVE DInv'
<1>1. /\ dSend.at = "write" /\ u \in dSend.todo
      /\ dSend' = [at |-> "hung", on |-> u, todo |-> dSend.todo \ {u}]
      /\ UNCHANGED <<dGot, dStay, dPool, dBroken>>
  BY Zenon DEF WriteHangs, sessionVars
<1>2. Counts(dSend.todo)
  BY <1>1, PhaseIs, Zenon
<1>3. dSend'.at = "hung" /\ dSend'.on = u /\ dSend'.todo = dSend.todo \ {u}
  BY <1>1, Zenon
<1>4. DPhase'
  BY <1>1, <1>2, <1>3, Zenon DEF DPhase, Counts
<1> QED
  BY <1>1, <1>4, Zenon DEF DInv

\* ... until the client reads on ...
LEMMA ReadsOnInv == ASSUME DInv, NEW u \in DUser, ReadsOn(u) PROVE DInv'
<1>1. /\ dSend.at = "hung" /\ dSend.on = u /\ dSend' = [at |-> "write", todo |-> dSend.todo]
      /\ dGot' = [dGot EXCEPT ![u] = @ + 1] /\ UNCHANGED <<dStay, dPool, dBroken>>
  BY Zenon DEF ReadsOn, Free, sessionVars
<1>2. Counts(dSend.todo \cup {u}) /\ u \notin dSend.todo
  BY <1>1, PhaseIs, Zenon
<1>3. dGot' \in [DUser -> {0, 1}] /\ dGot'[u] = 1 /\ \A w \in DUser \ {u} : dGot'[w] = dGot[w]
  <2>1. dGot \in [DUser -> {0, 1}] /\ dGot[u] = 0
    BY <1>2, Zenon DEF DInv, Counts
  <2> QED
    BY <1>1, <2>1, OneCopyMore, Zenon
<1>4. dStay \subseteq DUser /\ dSend'.at = "write" /\ dSend'.todo = dSend.todo
  BY <1>1, Zenon DEF DInv
<1>5. Counts(dSend.todo)'
  BY <1>1, <1>2, <1>3, <1>4, Zenon DEF Counts
<1>6. DPhase'
  BY <1>1, <1>4, <1>5, Zenon DEF DPhase
<1> QED
  BY <1>1, <1>3, <1>6, Zenon DEF DInv

\* ... or the socket is closed after it has left the pool.
LEMMA ClosingReturnsInv == ASSUME DInv, ClosingReturns PROVE DInv'
<1>1. /\ dSend.at = "closing" /\ dSend' = [at |-> "write", todo |-> dSend.todo]
      /\ UNCHANGED <<dGot, dStay, dPool, dBroken>>
  BY Zenon DEF ClosingReturns, sessionVars
<1>2. Counts(dSend.todo) /\ dSend'.at = "write" /\ dSend'.todo = dSend.todo
  BY <1>1, PhaseIs, Zenon
<1>3. DPhase'
  BY <1>1, <1>2, Zenon DEF DPhase, Counts
<1> QED
  BY <1>1, <1>3, Zenon DEF DInv

\* Every member has been tried.
LEMMA AllWrittenInv == ASSUME DInv, AllWritten PROVE DInv'
<1>1. dSend.at = "write" /\ dSend.todo = {} /\ dSend' = [at |-> "done"] /\ UNCHANGED <<dGot, dStay, dPool, dBroken>>
  BY Zenon DEF AllWritten, sessionVars
<1>2. Counts({})
  BY <1>1, PhaseIs, Zenon
<1>3. DPhase'
  BY <1>1, <1>2, Zenon DEF DPhase, Counts
<1> QED
  BY <1>1, <1>3, Zenon DEF DInv

\* One step of a session or of the fan-out.
LEMMA DNextInv == ASSUME DInv, [DNext]_dVars PROVE DInv'
<1>1. CASE UNCHANGED dVars
  BY <1>1, Zenon DEF dVars, DInv, DPhase, Counts
<1>2. CASE DNext
  BY <1>2, SessionStepInv, SnapshotInv, WriteMemberInv, WriteHangsInv, ReadsOnInv, ClosingReturnsInv,
     AllWrittenInv, Zenon DEF DNext, FanOutStep
<1> QED
  BY <1>1, <1>2, Zenon

\* For any users, movies and order of delivery: whoever is in the group when its members
\* are read and keeps the socket has the message exactly once when the fan-out is over,
\* whatever reapers, teardowns, failing and hanging sockets do meanwhile, to others or to
\* the user's own session; and nobody has it twice.
THEOREM FanOutReachesStayers == DSpec => []StayersGetOneCopy
<1>1. DInit => DInv
  <2> SUFFICES ASSUME DInit PROVE DInv
    BY Zenon
  <2>1. dPool \subseteq DUser /\ dStay \subseteq dPool \ dBroken /\ dGot \in [DUser -> {0, 1}]
    BY Zenon DEF DInit
  <2>2. dSend.at = "start" /\ dStay = {} /\ \A u \in DUser : dGot[u] = 0
    BY Zenon DEF DInit
  <2> QED
    BY <2>1, <2>2, Zenon DEF DInv, DPhase, Counts
<1>2. DInv /\ [DNext]_dVars => DInv'
  BY DNextInv
<1>3. DInv => StayersGetOneCopy
  <2> SUFFICES ASSUME DInv PROVE StayersGetOneCopy
    BY Zenon
  <2>1. \A u \in DUser : dGot[u] <= 1
    BY DEF DInv
  <2>2. dSend.at = "done" => \A u \in dStay : dGot[u] = 1
    BY PhaseIs, Zenon DEF Counts
  <2> QED
    BY <2>1, <2>2, Zenon DEF StayersGetOneCopy
<1> QED
  BY <1>1, <1>2, <1>3, PTL DEF DSpec

-----------------------------------------------------------------------------
(* Timers.                                                                 *)

\* A timer has a target once it is created; an entry of the manager is a timer for that
\* target, and every other timer of the user that is still to call back is one that was
\* missed when the entry was made.
Places == {"unused", "armed", "stopped", "fired", "killing", "done"}
Pending == {"armed", "fired"}

TimerType ==
  /\ timer \in [KTimer -> Places]
  /\ target \in [KTimer -> KUser \cup {"server", KNone}]
  /\ serverTimer \in KTimer \cup {KNone}
  /\ userTimers \in [KUser -> KTimer \cup {KNone}]
  /\ missed \in [KTimer -> SUBSET KTimer]
  /\ takenBy \in [KTimer -> KTimer \cup {KNone}]
  /\ \A t \in KTimer : timer[t] = "unused" <=> target[t] = KNone

EntriesMiss ==
  \A u \in KUser : userTimers[u] # KNone =>
    /\ target[userTimers[u]] = u
    /\ \A s \in KTimer : target[s] = u /\ s # userTimers[u] /\ timer[s] \in Pending => s \in missed[userTimers[u]]

Tracked(t) ==
  IF target[t] = "server" THEN serverTimer = t
  ELSE userTimers[target[t]] = t \/ takenBy[t] \in missed[t]

TimerInv == TimerType /\ EntriesMiss /\ TimersAreTracked

\* A timer that is armed or about to call back, and not created by this step, was so
\* before.
LEMMA StoppedTimers ==
  ASSUME TimerInv, NEW ts, NEW t \in KTimer
  PROVE  /\ Stopped(ts)[t] \in Places
         /\ Stopped(ts)[t] = "armed" => timer[t] = "armed" /\ t \notin ts
         /\ Stopped(ts)[t] = "unused" <=> timer[t] = "unused"
         /\ Stopped(ts)[t] \in Pending => timer[t] \in Pending
  BY Zenon DEF TimerInv, TimerType, Stopped, Places, Pending

\* Timers are stopped, and entries deleted: every entry that goes is stopped.
LEMMA StopsTracked ==
  ASSUME TimerInv, NEW ts, timer' = Stopped(ts), UNCHANGED <<target, missed, takenBy>>,
         serverTimer' = serverTimer \/ (serverTimer' = KNone /\ serverTimer \in ts),
         userTimers' \in [KUser -> KTimer \cup {KNone}],
         \A u \in KUser : userTimers'[u] = userTimers[u] \/ (userTimers'[u] = KNone /\ userTimers[u] \in ts)
  PROVE  TimerInv'
<1>1. /\ timer' \in [KTimer -> Places]
      /\ \A t \in KTimer : /\ timer'[t] = "armed" => timer[t] = "armed" /\ t \notin ts
                           /\ timer'[t] = "unused" <=> timer[t] = "unused"
                           /\ timer'[t] \in Pending => timer[t] \in Pending
  BY StoppedTimers, Zenon DEF Stopped
<1>2. TimerType'
  BY <1>1, Zenon DEF TimerInv, TimerType
<1>3. EntriesMiss'
  BY <1>1, Zenon DEF TimerInv, EntriesMiss
<1>4. ASSUME NEW t \in KTimer, timer'[t] = "armed" PROVE Tracked(t)'
  <2>1. timer[t] = "armed" /\ t \notin ts /\ Tracked(t)
    BY <1>1, <1>4, Zenon DEF TimerInv, TimersAreTracked, Tracked
  <2>2. target[t] # "server" => target[t] \in KUser
    BY <2>1, Zenon DEF TimerInv, TimerType
  <2> QED
    BY <2>1, <2>2, Zenon DEF Tracked
<1>5. TimersAreTracked'
  BY <1>4, Zenon DEF TimersAreTracked, Tracked
<1> QED
  BY <1>2, <1>3, <1>5, Zenon DEF TimerInv

\* What AfterFunc does to the timers.
LEMMA AfterFuncDoes ==
  ASSUME TimerInv, NEW t \in KTimer, NEW ts, NEW whom \in KUser \cup {"server"}, AfterFunc(t, ts, whom)
  PROVE  /\ timer'[t] = "armed" /\ target'[t] = whom /\ target[t] = KNone
         /\ timer' \in [KTimer -> Places]
         /\ target' \in [KTimer -> KUser \cup {"server", KNone}]
         /\ \A s \in KTimer : timer'[s] = "unused" <=> target'[s] = KNone
         /\ \A s \in KTimer : s # t => /\ target'[s] = target[s]
                                       /\ timer'[s] = "armed" => timer[s] = "armed" /\ s \notin ts
                                       /\ timer'[s] \in Pending => timer[s] \in Pending
<1>1. /\ timer[t] = "unused" /\ target[t] = KNone
      /\ timer' = [Stopped(ts) EXCEPT ![t] = "armed"] /\ target' = [target EXCEPT ![t] = whom]
  BY Zenon DEF AfterFunc, Fresh, TimerInv, TimerType
<1>2. DOMAIN Stopped(ts) = KTimer /\ whom # KNone
  BY TimerAssumption, Zenon DEF Stopped
<1>3. /\ timer'[t] = "armed" /\ target'[t] = whom
      /\ \A s \in KTimer : s # t => timer'[s] = Stopped(ts)[s] /\ target'[s] = target[s]
  BY <1>1, <1>2, Zenon DEF TimerInv, TimerType
<1>4. timer' \in [KTimer -> Places] /\ target' \in [KTimer -> KUser \cup {"server", KNone}]
  <2>1. Stopped(ts) \in [KTimer -> Places] /\ "armed" \in Places
    BY StoppedTimers, Zenon DEF Stopped, Places
  <2> QED
    BY <1>1, <2>1, Zenon DEF TimerInv, TimerType
<1>5. ASSUME NEW s \in KTimer
      PROVE  /\ Stopped(ts)[s] = "armed" => timer[s] = "armed" /\ s \notin ts
             /\ Stopped(ts)[s] = "unused" <=> timer[s] = "unused"
             /\ Stopped(ts)[s] \in Pending => timer[s] \in Pending
  BY StoppedTimers
<1>6. ASSUME NEW s \in KTimer PROVE timer'[s] = "unused" <=> target'[s] = KNone
  <2>1. CASE s = t
    BY <1>2, <1>3, <2>1, Zenon
  <2>2. CASE s # t
    <3>1. timer'[s] = Stopped(ts)[s] /\ target'[s] = target[s] /\ (timer[s] = "unused" <=> target[s] = KNone)
      BY <1>3, <2>2, Zenon DEF TimerInv, TimerType
    <3> QED
      BY <1>5, <3>1, Zenon
  <2> QED
    BY <2>1, <2>2, Zenon
<1>7. \A s \in KTimer : s # t => /\ timer'[s] = "armed" => timer[s] = "armed" /\ s \notin ts
                                 /\ timer'[s] \in Pending => timer[s] \in Pending
  BY <1>3, <1>5, Zenon
<1> QED
  <2>1. timer'[t] = "armed" /\ target'[t] = whom /\ target[t] = KNone
    BY <1>1, <1>3, Zenon
  <2>2. \A s \in KTimer : s # t => target'[s] = target[s]
    BY <1>3, Zenon
  <2>3. \A s \in KTimer : timer'[s] = "unused" <=> target'[s] = KNone
    BY <1>6, Zenon
  <2> QED
    BY <1>4, <1>7, <2>1, <2>2, <2>3, Zenon

\* The entries of the manager that a new timer does not replace.
LEMMA OtherEntries ==
  ASSUME TimerInv, NEW t \in KTimer, target[t] = KNone, NEW v \in KUser \cup {"server"}, target'[t] = v,
         \A s \in KTimer : s # t => target'[s] = target[s] /\ (timer'[s] \in Pending => timer[s] \in Pending),
         NEW u \in KUser, u # v, userTimers[u] # KNone, userTimers'[u] = userTimers[u],
         missed'[userTimers[u]] = missed[userTimers[u]] \/ userTimers[u] = t
  PROVE  /\ target'[userTimers[u]] = u
         /\ \A s \in KTimer : target'[s] = u /\ s # userTimers[u] /\ timer'[s] \in Pending
                                => s \in missed'[userTimers[u]]
<1>1. userTimers[u] \in KTimer /\ target[userTimers[u]] = u
  BY Zenon DEF TimerInv, TimerType, EntriesMiss
<1>2. userTimers[u] # t /\ u # KNone
  BY <1>1, TimerAssumption, Zenon
<1> QED
  BY <1>1, <1>2, Zenon DEF TimerInv, EntriesMiss

\* The server's kill timer is set.
LEMMA SetServerInv ==
  ASSUME TimerInv, NEW t \in KTimer, SetServerKillTimer(t), UNCHANGED <<userTimers, missed, takenBy>>
  PROVE  TimerInv'
<1>1. AfterFunc(t, {serverTimer}, "server") /\ serverTimer' = t
  BY Zenon DEF SetServerKillTimer
<1>2. /\ timer'[t] = "armed" /\ target'[t] = "server" /\ target[t] = KNone
      /\ timer' \in [KTimer -> Places]
      /\ target' \in [KTimer -> KUser \cup {"server", KNone}]
      /\ \A s \in KTimer : timer'[s] = "unused" <=> target'[s] = KNone
      /\ \A s \in KTimer : s # t => /\ target'[s] = target[s]
                                    /\ timer'[s] = "armed" => timer[s] = "armed" /\ s \notin {serverTimer}
                                    /\ timer'[s] \in Pending => timer[s] \in Pending
  BY <1>1, AfterFuncDoes, Zenon
<1>3. TimerType'
  BY <1>1, <1>2, Zenon DEF TimerInv, TimerType
<1>4. EntriesMiss'
  <2> SUFFICES ASSUME NEW u \in KUser, userTimers[u] # KNone
               PROVE  /\ target'[userTimers[u]] = u
                      /\ \A s \in KTimer : target'[s] = u /\ s # userTimers[u] /\ timer'[s] \in Pending
                                             => s \in missed[userTimers[u]]
    BY Zenon DEF EntriesMiss
  <2>1. u # "server" /\ "server" \in KUser \cup {"server"}
    BY TimerAssumption, Zenon
  <2>2. \A s \in KTimer : s # t => target'[s] = target[s] /\ (timer'[s] \in Pending => timer[s] \in Pending)
    BY <1>2, Zenon
  <2>3. /\ target'[userTimers[u]] = u
        /\ \A s \in KTimer : target'[s] = u /\ s # userTimers[u] /\ timer'[s] \in Pending
                               => s \in missed'[userTimers[u]]
    BY <1>2, <2>1, <2>2, OtherEntries
  <2> QED
    BY <2>3, Zenon
<1>5. ASSUME NEW s \in KTimer, timer'[s] = "armed" PROVE Tracked(s)'
  <2>1. CASE s = t
    BY <1>1, <1>2, <2>1, Zenon DEF Tracked
  <2>2. CASE s # t
    <3>1. timer[s] = "armed" /\ s # serverTimer /\ target'[s] = target[s] /\ Tracked(s)
      BY <1>2, <1>5, <2>2, Zenon DEF TimerInv, TimersAreTracked, Tracked
    <3> QED
      BY <3>1, Zenon DEF Tracked
  <2> QED
    BY <2>1, <2>2, Zenon
<1>6. TimersAreTracked'
  BY <1>5, Zenon DEF TimersAreTracked, Tracked
<1> QED
  BY <1>3, <1>4, <1>6, Zenon DEF TimerInv

\* A user's kill timer is set.
LEMMA SetUserInv ==
  ASSUME TimerInv, NEW t \in KTimer, NEW v \in KUser, SetUserKillTimer(t, v), UNCHANGED <<serverTimer, takenBy>>
  PROVE  TimerInv'
<1> DEFINE miss == {s \in KTimer \ {t} : target[s] = v /\ timer'[s] \in {"armed", "fired"}}
<1>1. /\ AfterFunc(t, {userTimers[v]}, v) /\ userTimers' = [userTimers EXCEPT ![v] = t]
      /\ missed' = [missed EXCEPT ![t] = miss]
  BY Zenon DEF SetUserKillTimer, Misses
<1>2. /\ timer'[t] = "armed" /\ target'[t] = v /\ target[t] = KNone
      /\ timer' \in [KTimer -> Places]
      /\ target' \in [KTimer -> KUser \cup {"server", KNone}]
      /\ \A s \in KTimer : timer'[s] = "unused" <=> target'[s] = KNone
      /\ \A s \in KTimer : s # t => /\ target'[s] = target[s]
                                    /\ timer'[s] = "armed" => timer[s] = "armed" /\ s \notin {userTimers[v]}
                                    /\ timer'[s] \in Pending => timer[s] \in Pending
  BY <1>1, AfterFuncDoes, Zenon
<1>3. /\ userTimers' \in [KUser -> KTimer \cup {KNone}] /\ userTimers'[v] = t
      /\ \A u \in KUser : u # v => userTimers'[u] = userTimers[u]
  BY <1>1, Zenon DEF TimerInv, TimerType
<1>4. miss \subseteq KTimer /\ \A s \in KTimer : s # t /\ target[s] = v /\ timer'[s] \in Pending => s \in miss
  BY Zenon DEF Pending
<1> HIDE DEF miss
<1>5. /\ missed' \in [KTimer -> SUBSET KTimer] /\ missed'[t] = miss
      /\ \A s \in KTimer : s # t => missed'[s] = missed[s]
  BY <1>1, <1>4, Zenon DEF TimerInv, TimerType
<1>6. TimerType'
  BY <1>2, <1>3, <1>5, Zenon DEF TimerInv, TimerType
<1>7. EntriesMiss'
  <2> SUFFICES ASSUME NEW u \in KUser, userTimers'[u] # KNone
               PROVE  /\ target'[userTimers'[u]] = u
                      /\ \A s \in KTimer : target'[s] = u /\ s # userTimers'[u] /\ timer'[s] \in Pending
                                             => s \in missed'[userTimers'[u]]
    BY Zenon DEF EntriesMiss
  <2>1. CASE u = v
    BY <1>2, <1>3, <1>4, <1>5, <2>1, Zenon
  <2>2. CASE u # v
    <3>1. userTimers[u] \in KTimer /\ userTimers'[u] = userTimers[u]
      BY <1>3, <2>2, Zenon DEF TimerInv, TimerType
    <3>2. \A s \in KTimer : s # t => target'[s] = target[s] /\ (timer'[s] \in Pending => timer[s] \in Pending)
      BY <1>2, Zenon
    <3>3. missed'[userTimers[u]] = missed[userTimers[u]] \/ userTimers[u] = t
      BY <1>5, <3>1, Zenon
    <3>4. v \in KUser \cup {"server"} /\ userTimers[u] # KNone
      BY <3>1, Zenon
    <3>5. /\ target'[userTimers[u]] = u
          /\ \A s \in KTimer : target'[s] = u /\ s # userTimers[u] /\ timer'[s] \in Pending
                                 => s \in missed'[userTimers[u]]
      BY <1>2, <2>2, <3>1, <3>2, <3>3, <3>4, OtherEntries
    <3> QED
      BY <3>1, <3>5, Zenon
  <2> QED
    BY <2>1, <2>2, Zenon
<1>8. ASSUME NEW s \in KTimer, timer'[s] = "armed" PROVE Tracked(s)'
  <2>1. CASE s = t
    <3>1. v # "server"
      BY TimerAssumption, Zenon
    <3> QED
      BY <1>2, <1>3, <2>1, <3>1, Zenon DEF Tracked
  <2>2. CASE s # t
    <3>1. /\ timer[s] = "armed" /\ s # userTimers[v] /\ target'[s] = target[s] /\ Tracked(s)
          /\ missed'[s] = missed[s]
      BY <1>2, <1>5, <1>8, <2>2, Zenon DEF TimerInv, TimersAreTracked, Tracked
    <3>2. target[s] # "server" => target[s] \in KUser
      BY <3>1, Zenon DEF TimerInv, TimerType
    <3>3. CASE target[s] = "server" \/ takenBy[s] \in missed[s]
      BY <3>1, <3>3, Zenon DEF Tracked
    <3>4. CASE target[s] # "server" /\ userTimers[target[s]] = s
      <4>1. userTimers'[target[s]] = s
        BY <1>3, <3>1, <3>2, <3>4, Zenon
      <4> QED
        BY <3>1, <3>4, <4>1, Zenon DEF Tracked
    <3> QED
      BY <3>1, <3>3, <3>4, Zenon DEF Tracked
  <2> QED
    BY <2>1, <2>2, Zenon
<1>9. TimersAreTracked'
  BY <1>8, Zenon DEF TimersAreTracked, Tracked
<1> QED
  BY <1>6, <1>7, <1>9, Zenon DEF TimerInv

\* A timer or its callback moves on.
LEMMA TimerMoves ==
  ASSUME TimerInv, NEW t \in KTimer, NEW place \in {"fired", "killing", "done"},
         timer' = [timer EXCEPT ![t] = place], timer[t] \in {"armed", "fired", "killing"},
         place = "fired" => timer[t] = "armed",
         UNCHANGED <<target, serverTimer, userTimers, missed, takenBy>>
  PROVE  TimerInv'
<1>1. /\ timer' \in [KTimer -> Places]
      /\ \A s \in KTimer : /\ timer'[s] = "armed" => timer[s] = "armed"
                           /\ timer'[s] = "unused" <=> timer[s] = "unused"
                           /\ timer'[s] \in Pending => timer[s] \in Pending
  BY Zenon DEF TimerInv, TimerType, Places, Pending
<1>2. TimerType'
  BY <1>1, Zenon DEF TimerInv, TimerType
<1>3. EntriesMiss'
  BY <1>1, Zenon DEF TimerInv, EntriesMiss
<1>4. TimersAreTracked'
  BY <1>1, Zenon DEF TimerInv, TimersAreTracked
<1> QED
  BY <1>2, <1>3, <1>4, Zenon DEF TimerInv

\* The callback of a user's timer deletes the user's entry: if the entry is that of
\* another timer, that timer goes on untracked, and this callback is one it missed.
LEMMA UserCallbackInv == ASSUME TimerInv, NEW t \in KTimer, UserCallback(t) PROVE TimerInv'
<1>1. /\ timer[t] = "fired" /\ target[t] \in KUser /\ timer' = [timer EXCEPT ![t] = "killing"]
      /\ userTimers' = [userTimers EXCEPT ![target[t]] = KNone] /\ UNCHANGED <<serverTimer, target, missed>>
      /\ takenBy' = [s \in KTimer |-> IF s = userTimers[target[t]] THEN t ELSE takenBy[s]]
  BY Zenon DEF UserCallback
<1>2. /\ timer' \in [KTimer -> Places]
      /\ \A s \in KTimer : /\ timer'[s] = "armed" => timer[s] = "armed" /\ s # t
                           /\ timer'[s] = "unused" <=> timer[s] = "unused"
                           /\ timer'[s] \in Pending => timer[s] \in Pending
  BY <1>1, Zenon DEF TimerInv, TimerType, Places, Pending
<1>3. /\ userTimers' \in [KUser -> KTimer \cup {KNone}] /\ userTimers'[target[t]] = KNone
      /\ \A u \in KUser : u # target[t] => userTimers'[u] = userTimers[u]
      /\ takenBy' \in [KTimer -> KTimer \cup {KNone}]
  BY <1>1, Zenon DEF TimerInv, TimerType
<1>4. TimerType'
  BY <1>1, <1>2, <1>3, Zenon DEF TimerInv, TimerType
<1>5. EntriesMiss'
  BY <1>1, <1>2, <1>3, Zenon DEF TimerInv, EntriesMiss
<1>6. ASSUME NEW s \in KTimer, timer'[s] = "armed" PROVE Tracked(s)'
  <2>1. timer[s] = "armed" /\ s # t /\ s # KNone /\ Tracked(s)
    BY <1>2, <1>6, TimerAssumption, Zenon DEF TimerInv, TimersAreTracked, Tracked
  <2>2. CASE target[s] = "server"
    BY <1>1, <2>1, <2>2, Zenon DEF Tracked
  <2>3. CASE s = userTimers[target[t]]
    <3>1. target[s] = target[t] /\ t \in missed[s]
      BY <1>1, <2>1, <2>3, Zenon DEF TimerInv, EntriesMiss, Pending
    <3>2. takenBy'[s] = t /\ target[s] # "server"
      BY <1>1, <2>3, <3>1, TimerAssumption, Zenon
    <3> QED
      BY <1>1, <3>1, <3>2, Zenon DEF Tracked
  <2>4. CASE target[s] # "server" /\ s # userTimers[target[t]]
    <3>1. target[s] \in KUser /\ takenBy'[s] = takenBy[s]
      BY <1>1, <2>1, <2>4, Zenon DEF TimerInv, TimerType
    <3> QED
      BY <1>1, <1>3, <2>1, <2>4, <3>1, Zenon DEF Tracked
  <2> QED
    BY <2>2, <2>3, <2>4, Zenon
<1>7. TimersAreTracked'
  BY <1>6, Zenon DEF TimersAreTracked, Tracked
<1> QED
  BY <1>4, <1>5, <1>7, Zenon DEF TimerInv

\* The commands.
LEMMA CommandInv == ASSUME TimerInv, KCommand PROVE TimerInv'
<1>1. ASSUME NEW m \in KMinutes, HandleServerSetKillTimer(m) PROVE TimerInv'
  BY <1>1, SetServerInv, Zenon DEF HandleServerSetKillTimer, history
<1>2. ASSUME NEW u \in KUser, NEW m \in KMinutes, HandleUserSetKillTimer(u, m) PROVE TimerInv'
  BY <1>2, SetUserInv, Zenon DEF HandleUserSetKillTimer
<1>3. CASE HandleServerCancelKillTimer
  <2>1. userTimers \in [KUser -> KTimer \cup {KNone}]
    BY Zenon DEF TimerInv, TimerType
  <2> QED
    BY <1>3, <2>1, StopsTracked, Zenon DEF HandleServerCancelKillTimer, CancelServerKillTimer, history
<1>4. ASSUME NEW u \in KUser, HandleUserCancelKillTimer(u) PROVE TimerInv'
  <2>1. /\ timer' = Stopped({userTimers[u]}) /\ userTimers' = [userTimers EXCEPT ![u] = KNone]
        /\ UNCHANGED <<serverTimer, target, missed, takenBy>>
    BY <1>4, Zenon DEF HandleUserCancelKillTimer, CancelUserKillTimer, history
  <2>2. /\ userTimers' \in [KUser -> KTimer \cup {KNone}] /\ userTimers'[u] = KNone
        /\ \A w \in KUser : w # u => userTimers'[w] = userTimers[w]
    BY <2>1, Zenon DEF TimerInv, TimerType
  <2>3. \A w \in KUser : userTimers'[w] = userTimers[w] \/ (userTimers'[w] = KNone /\ userTimers[w] \in {userTimers[u]})
    BY <2>2, Zenon
  <2> QED
    BY <2>1, <2>2, <2>3, StopsTracked, Zenon
<1> QED
  BY <1>1, <1>2, <1>3, <1>4, Zenon DEF KCommand

\* One step of a command, a timer, a callback or main.
LEMMA TimerNextInv == ASSUME TimerInv, [KNext]_kVars PROVE TimerInv'
<1>1. CASE KCommand
  BY <1>1, CommandInv, Zenon
<1>2. ASSUME NEW t \in KTimer, Fire(t) PROVE TimerInv'
  BY <1>2, TimerMoves, Zenon DEF Fire, history
<1>3. ASSUME NEW t \in KTimer, KCallback(t) PROVE TimerInv'
  BY <1>3, UserCallbackInv, TimerMoves, Zenon DEF KCallback, UserKilled, ShutdownFn, history
<1>4. CASE MainWaits \/ MainReceives \/ UNCHANGED kVars
  <2>1. UNCHANGED <<timer, target, serverTimer, userTimers, missed, takenBy>>
    BY <1>4, Zenon DEF MainWaits, MainReceives, kVars, history
  <2> QED
    BY <2>1, Zenon DEF TimerInv, TimerType, EntriesMiss, TimersAreTracked
<1>5. CASE KStop
  <2> DEFINE ts == {serverTimer} \cup {userTimers[u] : u \in KUser}
  <2>1. /\ timer' = Stopped(ts) /\ serverTimer' = KNone
        /\ userTimers' = [u \in KUser |-> KNone] /\ UNCHANGED <<target, missed, takenBy>>
    BY <1>5, Zenon DEF KStop, history
  <2>2. /\ userTimers' \in [KUser -> KTimer \cup {KNone}] /\ serverTimer \in ts
        /\ \A u \in KUser : userTimers'[u] = KNone /\ userTimers[u] \in ts
    BY <2>1
  <2> HIDE DEF ts
  <2> QED
    BY <2>1, <2>2, StopsTracked, Zenon
<1> QED
  BY <1>1, <1>2, <1>3, <1>4, <1>5 DEF KNext

\* No timer the manager has dropped can still fire, whatever commands race with the
\* callbacks of timers that have fired: a timer that is armed is the one the manager
\* can cancel, or its entry was deleted by the callback of an older timer of the user
\* that was out of the reach of Stop when this one was set.
THEOREM ArmedTimersAreTracked == KSpec => []TimersAreTracked
<1>1. KInit => TimerInv
  BY Zenon DEF KInit, TimerInv, TimerType, EntriesMiss, TimersAreTracked, Places
<1>2. TimerInv /\ [KNext]_kVars => TimerInv'
  BY TimerNextInv
<1>3. TimerInv => TimersAreTracked
  BY Zenon DEF TimerInv
<1> QED
  BY <1>1, <1>2, <1>3, PTL DEF KSpec
=============================================================================
