----------------------------- MODULE RedisQueue -----------------------------
(***************************************************************************)
(* The Redis message queue (internal/adapters/outbound/redis_queue.go), on *)
(* one topic: a Redis list that publishers push to and that the consumer   *)
(* goroutine of each subscription pops from.  A subscription is cancelled  *)
(* through the function kept under its topic, and there is room for one.   *)
(***************************************************************************)
EXTENDS Integers, Sequences

CONSTANTS
  QMsg,        \* messages: one for every LPUSH that is sent, so that a Publish whose LPUSH
               \* the client sends again, when its connection breaks, counts as two
  QConsumer,   \* consumer goroutines, one per Subscribe
  QNone        \* no cancel function, no message

ASSUME QAssumption == QNone \notin QMsg

VARIABLES
  rqClosed,    \* the closed flag; the client is closed with it
  rqList,      \* the Redis list, oldest first
  rqPub,       \* rqPub[m]: where the call that publishes m is
  rqCancel,    \* cancels[topic]: the consumer it cancels, or QNone
  rqAt,        \* rqAt[c]: where the consumer goroutine is
  rqCancelled, \* consumers whose context is cancelled
  rqHas,       \* rqHas[c]: the message popped for c
  rqHandled,   \* rqHandled[c]: messages its handler was called with
  rqPushed,    \* the messages in the order they were pushed
  rqLost       \* messages Redis has removed that no handler is called with

rqVars == <<rqClosed, rqList, rqPub, rqCancel, rqAt, rqCancelled, rqHas, rqHandled,
            rqPushed, rqLost>>
rqQueueVars == <<rqClosed, rqCancel, rqCancelled>>

RQInit ==
  /\ rqClosed = FALSE /\ rqList = <<>>
  /\ rqPub = [m \in QMsg |-> "no"]
  /\ rqCancel = QNone /\ rqCancelled = {}
  /\ rqAt = [c \in QConsumer |-> "none"]
  /\ rqHas = [c \in QConsumer |-> QNone]
  /\ rqHandled = [c \in QConsumer |-> <<>>]
  /\ rqPushed = <<>> /\ rqLost = {}

-----------------------------------------------------------------------------
(* Publish looks at closed under the mutex and pushes after it.            *)

RQPublish(m) ==
  /\ rqPub[m] = "no"
  /\ rqPub' = [rqPub EXCEPT ![m] = IF rqClosed THEN "failed" ELSE "checked"]
  /\ UNCHANGED <<rqQueueVars, rqList, rqAt, rqHas, rqHandled, rqPushed, rqLost>>

\* Redis has the message, whether or not its answer reaches the caller.
RQLPush(m) ==
  /\ rqPub[m] = "checked" /\ ~rqClosed
  /\ rqPub' = [rqPub EXCEPT ![m] = "pushed"]
  /\ rqList' = Append(rqList, m)
  /\ rqPushed' = Append(rqPushed, m)
  /\ UNCHANGED <<rqQueueVars, rqAt, rqHas, rqHandled, rqLost>>

\* LPUSH fails before Redis has it: the client is closed or the connection broken.
RQLPushFails(m) ==
  /\ rqPub[m] = "checked"
  /\ rqPub' = [rqPub EXCEPT ![m] = "failed"]
  /\ UNCHANGED <<rqQueueVars, rqList, rqAt, rqHas, rqHandled, rqPushed, rqLost>>

-----------------------------------------------------------------------------
(* Subscribe, Unsubscribe and Close, under the mutex; a closed queue       *)
(* refuses the first two.                                                  *)

RQSubscribe(c) ==
  /\ rqAt[c] = "none" /\ ~rqClosed
  /\ rqCancel' = c
  /\ rqAt' = [rqAt EXCEPT ![c] = "loop"]
  /\ UNCHANGED <<rqClosed, rqCancelled, rqPub, rqList, rqHas, rqHandled, rqPushed, rqLost>>

RQUnsubscribe ==
  /\ ~rqClosed /\ rqCancel # QNone
  /\ rqCancelled' = rqCancelled \cup {rqCancel} /\ rqCancel' = QNone
  /\ UNCHANGED <<rqClosed, rqPub, rqList, rqAt, rqHas, rqHandled, rqPushed, rqLost>>

RQClose ==
  /\ ~rqClosed /\ rqClosed' = TRUE
  /\ rqCancelled' = rqCancelled \cup ({rqCancel} \ {QNone}) /\ rqCancel' = QNone
  /\ UNCHANGED <<rqPub, rqList, rqAt, rqHas, rqHandled, rqPushed, rqLost>>

-----------------------------------------------------------------------------
(* consumeLoop.                                                            *)

\* The select at the head of the loop.
RQLoop(c) ==
  /\ rqAt[c] = "loop"
  /\ rqAt' = [rqAt EXCEPT ![c] = IF c \in rqCancelled THEN "returned" ELSE "brpop"]
  /\ UNCHANGED <<rqQueueVars, rqPub, rqList, rqHas, rqHandled, rqPushed, rqLost>>

MutPopPeeks(c) ==
  /\ rqAt[c] = "brpop" /\ ~rqClosed /\ rqList # <<>>
  /\ rqAt' = [rqAt EXCEPT ![c] = "handler"]
  /\ rqHas' = [rqHas EXCEPT ![c] = Head(rqList)]
  /\ UNCHANGED <<rqQueueVars, rqPub, rqList, rqHandled, rqPushed, rqLost>>

\* BRPop answers with the oldest message.  A context that is cancelled meanwhile is
\* not looked at again before the handler is called.
RQPop(c) ==
  /\ rqAt[c] = "brpop" /\ ~rqClosed /\ rqList # <<>>
  /\ rqAt' = [rqAt EXCEPT ![c] = "handler"]
  /\ rqHas' = [rqHas EXCEPT ![c] = Head(rqList)]
  /\ rqList' = Tail(rqList)
  /\ UNCHANGED <<rqQueueVars, rqPub, rqHandled, rqPushed, rqLost>>

\* Redis removes the oldest message, and no handler is called with it.
Loses == rqList # <<>> /\ rqLost' = rqLost \cup {Head(rqList)} /\ rqList' = Tail(rqList)

\* BRPop times out, its context is cancelled, its client is closed or its connection
\* breaks.  In the last three the answer may be on its way, so that Redis has
\* removed a message that nobody receives.
RQPopFails(c) ==
  /\ rqAt[c] = "brpop"
  /\ rqAt' = [rqAt EXCEPT ![c] = IF c \in rqCancelled THEN "returned" ELSE "loop"]
  /\ UNCHANGED <<rqList, rqLost>> \/ Loses
  /\ UNCHANGED <<rqQueueVars, rqPub, rqHas, rqHandled, rqPushed>>

\* BRPop answers with something that is not a redisQueueMessage, as another writer to
\* the list may push: the loop goes on without it.
RQUnreadable(c) ==
  /\ rqAt[c] = "brpop" /\ ~rqClosed /\ Loses
  /\ rqAt' = [rqAt EXCEPT ![c] = "loop"]
  /\ UNCHANGED <<rqQueueVars, rqPub, rqHas, rqHandled, rqPushed>>

\* The handler runs in the loop's goroutine and returns.
RQHandle(c) ==
  /\ rqAt[c] = "handler"
  /\ rqHandled' = [rqHandled EXCEPT ![c] = Append(@, rqHas[c])]
  /\ rqHas' = [rqHas EXCEPT ![c] = QNone]
  /\ rqAt' = [rqAt EXCEPT ![c] = "loop"]
  /\ UNCHANGED <<rqQueueVars, rqPub, rqList, rqPushed, rqLost>>

RQStep(c) == RQLoop(c) \/ RQPop(c) \/ RQPopFails(c) \/ RQUnreadable(c) \/ RQHandle(c)

RQNext ==
  \/ \E m \in QMsg : RQPublish(m) \/ RQLPush(m) \/ RQLPushFails(m)
  \/ \E c \in QConsumer : RQSubscribe(c) \/ RQStep(c)
  \/ RQUnsubscribe \/ RQClose

RQSpec == RQInit /\ [][RQNext]_rqVars

-----------------------------------------------------------------------------
Elements(s) == {s[i] : i \in 1..Len(s)}
Popped(c) == Elements(rqHandled[c]) \cup ({rqHas[c]} \ {QNone})

PushedBefore(m, n) ==
  \E i, j \in 1..Len(rqPushed) : i < j /\ rqPushed[i] = m /\ rqPushed[j] = n
InPushOrder(s) == \A i, j \in 1..Len(s) : i < j => PushedBefore(s[i], s[j])

\* A message is in one place only, so that none is handled twice, and one that
\* was pushed and is neither waiting nor handled nor being handled was lost to a
\* BRPop that failed after Redis had removed it, or could not be read.  Each
\* consumer handles its messages in the order they were pushed, whatever was lost
\* between them: LPUSH with BRPOP is a queue, not a stack.
HandledOnceInOrder ==
  /\ Elements(rqPushed) = Elements(rqList) \cup rqLost \cup UNION {Popped(c) : c \in QConsumer}
  /\ Elements(rqList) \cap rqLost = {}
  /\ \A c \in QConsumer :
       /\ Popped(c) \cap (Elements(rqList) \cup rqLost) = {}
       /\ \A d \in QConsumer \ {c} : Popped(c) \cap Popped(d) = {}
       /\ rqHas[c] \notin Elements(rqHandled[c])
       /\ InPushOrder(rqHandled[c])
  /\ \A i, j \in 1..Len(rqPushed) : rqPushed[i] = rqPushed[j] => i = j
  /\ InPushOrder(rqList)
=============================================================================
