---------------------------- MODULE MemoryQueue -----------------------------
(***************************************************************************)
(* The in-process message queue (internal/adapters/outbound/               *)
(* memory_queue.go), on one topic: Publish starts one goroutine for every  *)
(* handler subscribed at that moment and forgets about them.  All calls    *)
(* hold the queue's lock; the goroutines do not.                           *)
(***************************************************************************)
EXTENDS Naturals, Sequences

CONSTANTS
  MqMsg,       \* messages, each published at most once
  MqHandler,   \* subscribers' handlers
  MqNil        \* the subscribers' map after Close

ASSUME NilAssumption == MqNil \notin Seq(MqHandler)

VARIABLES
  mqSubs,      \* the handlers subscribed, in order, or MqNil
  mqClosed,    \* the closed flag
  mqPublished, \* messages Publish accepted or refused
  mqRunning,   \* goroutines started and not finished, as <<message, handler>>
  mqHandled,   \* what the handlers were called with, in order
  mqDue,       \* what they should be called with
  mqPanic      \* a write to the nil map

mqVars == <<mqSubs, mqClosed, mqPublished, mqRunning, mqHandled, mqDue, mqPanic>>

MQInit ==
  /\ mqSubs = <<>> /\ mqClosed = FALSE /\ mqPublished = {}
  /\ mqRunning = {} /\ mqHandled = <<>> /\ mqDue = {} /\ mqPanic = FALSE

\* Reading a nil map finds nothing.
Subscribers == IF mqSubs = MqNil THEN <<>> ELSE mqSubs

MutPublishToFirst(m) ==
  /\ m \notin mqPublished /\ mqPublished' = mqPublished \cup {m}
  /\ IF mqClosed THEN UNCHANGED <<mqRunning, mqDue>>
     ELSE /\ mqRunning' = mqRunning \cup (IF Subscribers = <<>> THEN {} ELSE {<<m, Subscribers[1]>>})
          /\ mqDue' = mqDue \cup {<<m, Subscribers[i]>> : i \in 1..Len(Subscribers)}
  /\ UNCHANGED <<mqSubs, mqClosed, mqHandled, mqPanic>>

MQPublish(m) ==
  /\ m \notin mqPublished /\ mqPublished' = mqPublished \cup {m}
  /\ IF mqClosed THEN UNCHANGED <<mqRunning, mqDue>>
     ELSE LET started == {<<m, Subscribers[i]>> : i \in 1..Len(Subscribers)}
          IN mqRunning' = mqRunning \cup started /\ mqDue' = mqDue \cup started
  /\ UNCHANGED <<mqSubs, mqClosed, mqHandled, mqPanic>>

\* A handler is subscribed again only after the topic was unsubscribed.
MQSubscribe(h) ==
  /\ ~mqClosed
  /\ IF mqSubs = MqNil THEN mqPanic' = TRUE /\ UNCHANGED mqSubs
     ELSE /\ \A i \in 1..Len(mqSubs) : mqSubs[i] # h
          /\ mqSubs' = Append(mqSubs, h) /\ UNCHANGED mqPanic
  /\ UNCHANGED <<mqClosed, mqPublished, mqRunning, mqHandled, mqDue>>

MQUnsubscribe ==
  /\ ~mqClosed /\ mqSubs' = IF mqSubs = MqNil THEN MqNil ELSE <<>>
  /\ UNCHANGED <<mqClosed, mqPublished, mqRunning, mqHandled, mqDue, mqPanic>>

MQClose ==
  /\ mqClosed' = TRUE /\ mqSubs' = MqNil
  /\ UNCHANGED <<mqPublished, mqRunning, mqHandled, mqDue, mqPanic>>

\* A goroutine runs its handler: in any order, and also after Unsubscribe or
\* Close.
MQHandle(m, h) ==
  /\ <<m, h>> \in mqRunning
  /\ mqRunning' = mqRunning \ {<<m, h>>}
  /\ mqHandled' = Append(mqHandled, <<m, h>>)
  /\ UNCHANGED <<mqSubs, mqClosed, mqPublished, mqDue, mqPanic>>

MQNext ==
  \/ \E m \in MqMsg : MQPublish(m) \/ \E h \in MqHandler : MQHandle(m, h)
  \/ \E h \in MqHandler : MQSubscribe(h)
  \/ MQUnsubscribe \/ MQClose

MQSpec == MQInit /\ [][MQNext]_mqVars

-----------------------------------------------------------------------------
Called == {mqHandled[i] : i \in 1..Len(mqHandled)}

\* Every handler subscribed when a message is published is called with it
\* exactly once or has a goroutine that will, whatever is unsubscribed or
\* closed in the meantime, and nobody else is.  No call meets the nil map that
\* Close leaves, where a write would end the process and all deliveries with it.
DeliveredOnceToAll ==
  /\ mqDue = mqRunning \cup Called
  /\ mqRunning \cap Called = {}
  /\ \A i, j \in 1..Len(mqHandled) : mqHandled[i] = mqHandled[j] => i = j
  /\ ~mqPanic
=============================================================================
