---------------------------- MODULE RabbitQueue -----------------------------
(***************************************************************************)
(* The RabbitMQ message queue (internal/adapters/outbound/                 *)
(* rabbitmq_queue.go), on one topic: every Subscribe opens a channel of    *)
(* its own and binds a temporary queue to the exchange, and the channel is *)
(* kept under the topic so that Unsubscribe and Close can close it.        *)
(*                                                                         *)
(* The broker is external: it copies a message into the queue of every     *)
(* open bound channel, delivers in order, counts a delivery as handled     *)
(* (auto-ack), and drops the temporary queue with its channel.             *)
(***************************************************************************)
EXTENDS Integers, Sequences, FiniteSets

CONSTANTS
  BMsg,       \* messages, each published at most once
  BChannel,   \* channels, one per Subscribe
  BNone       \* no channel under the topic

ASSUME ChannelAssumption == BNone \notin BChannel

VARIABLES
  bqClosed,    \* the closed flag; the connection is closed with it
  bqPub,       \* bqPub[m]: where the call that publishes m is
  bqChan,      \* bqChan[h]: the state of the channel
  bqSub,       \* subs[topic]: its channel, or BNone
  bqQueue,     \* bqQueue[h]: messages delivered and not yet handled
  bqDisplaced  \* channels whose entry was overwritten

bqVars == <<bqClosed, bqPub, bqChan, bqSub, bqQueue, bqDisplaced>>

BQInit ==
  /\ bqClosed = FALSE /\ bqSub = BNone /\ bqDisplaced = {}
  /\ bqPub = [m \in BMsg |-> "no"]
  /\ bqChan = [h \in BChannel |-> "none"]
  /\ bqQueue = [h \in BChannel |-> <<>>]

-----------------------------------------------------------------------------
\* The closed flag is read under the mutex, the message is sent after it.
BQPublish(m) ==
  /\ bqPub[m] = "no"
  /\ bqPub' = [bqPub EXCEPT ![m] = IF bqClosed THEN "failed" ELSE "checked"]
  /\ UNCHANGED <<bqClosed, bqChan, bqSub, bqQueue, bqDisplaced>>

\* On a closed channel it fails; otherwise the exchange copies the message.
BQSend(m) ==
  /\ bqPub[m] = "checked"
  /\ bqPub' = [bqPub EXCEPT ![m] = IF bqClosed THEN "failed" ELSE "sent"]
  /\ bqQueue' = [h \in BChannel |->
                   IF bqChan[h] = "open" THEN Append(bqQueue[h], m) ELSE bqQueue[h]]
  /\ UNCHANGED <<bqClosed, bqChan, bqSub, bqDisplaced>>

-----------------------------------------------------------------------------
(* Subscribe holds the mutex throughout.                                   *)

BQSubscribe(h) ==
  /\ ~bqClosed /\ bqChan[h] = "none"
  /\ bqChan' = [bqChan EXCEPT ![h] = "open"]
  /\ bqDisplaced' = bqDisplaced \cup ({bqSub} \ {BNone})
  /\ bqSub' = h
  /\ UNCHANGED <<bqClosed, bqPub, bqQueue>>

MutSubscribeFailureLeaksChannel(h) ==
  /\ ~bqClosed /\ bqChan[h] = "none"
  /\ bqChan' = [bqChan EXCEPT ![h] = "open"]
  /\ UNCHANGED <<bqClosed, bqPub, bqSub, bqQueue, bqDisplaced>>

\* Declaring, binding or consuming the temporary queue fails: the channel
\* opened a moment before is closed and the topic's entry is untouched.
BQSubscribeFails(h) ==
  /\ ~bqClosed /\ bqChan[h] = "none"
  /\ bqChan' = [bqChan EXCEPT ![h] = "closed"]
  /\ UNCHANGED <<bqClosed, bqPub, bqSub, bqQueue, bqDisplaced>>

BQUnsubscribe ==
  /\ ~bqClosed /\ bqSub # BNone
  /\ bqChan' = [bqChan EXCEPT ![bqSub] = "closed"]
  /\ bqSub' = BNone
  /\ UNCHANGED <<bqClosed, bqPub, bqQueue, bqDisplaced>>

\* The tracked channels, the publishing channel and then the connection, and
\* with the connection every channel opened on it.
BQClose ==
  /\ ~bqClosed /\ bqClosed' = TRUE
  /\ bqChan' = [h \in BChannel |-> IF bqChan[h] = "open" THEN "closed" ELSE bqChan[h]]
  /\ bqSub' = BNone
  /\ UNCHANGED <<bqPub, bqQueue, bqDisplaced>>

-----------------------------------------------------------------------------
\* The goroutine that ranges over the deliveries calls the handler for one.
BQHandle(h) ==
  /\ bqQueue[h] # <<>>
  /\ bqQueue' = [bqQueue EXCEPT ![h] = Tail(@)]
  /\ UNCHANGED <<bqClosed, bqPub, bqChan, bqSub, bqDisplaced>>

\* What a closed channel had not delivered is gone.
BQDropped(h) ==
  /\ bqChan[h] = "closed" /\ bqQueue[h] # <<>>
  /\ bqQueue' = [bqQueue EXCEPT ![h] = <<>>]
  /\ UNCHANGED <<bqClosed, bqPub, bqChan, bqSub, bqDisplaced>>

BQNext ==
  \/ \E m \in BMsg : BQPublish(m) \/ BQSend(m)
  \/ \E h \in BChannel : BQSubscribe(h) \/ BQSubscribeFails(h) \/ BQHandle(h) \/ BQDropped(h)
  \/ BQUnsubscribe \/ BQClose

BQSpec == BQInit /\ [][BQNext]_bqVars

-----------------------------------------------------------------------------
\* No channel is forgotten: an open one is the topic's, so that Unsubscribe
\* closes it, unless a second Subscribe took its entry; a failed Subscribe
\* leaves none open, and Close leaves none open at all.
NoForgottenChannel ==
  \A h \in BChannel : bqChan[h] = "open" => ~bqClosed /\ h \in {bqSub} \cup bqDisplaced
=============================================================================
