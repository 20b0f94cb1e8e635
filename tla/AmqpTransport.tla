---------------------------- MODULE AmqpTransport ----------------------------
(***************************************************************************)
(* The AMQP transport (integrations/amqp/v3/transport.go) against a broker *)
(* that drops connections and channels and refuses requests: producers     *)
(* send, the consume loop forwards deliveries, workers acknowledge, reject *)
(* or republish them, all of them reopening channels and the connection on *)
(* demand, and the transport may be closed.                                *)
(*                                                                         *)
(* A client is a goroutine inside the transport.  Connections are numbered *)
(* in the order they were dialed, channels in the order they were opened.  *)
(***************************************************************************)
EXTENDS Naturals, Sequences, FiniteSets

CONSTANTS
  Message, Poison,      \* Poison: messages that do not decode
  Producer, Worker, Loop,
  MessageOf,            \* what a producer sends
  Setups,               \* what may happen, and the bounds on it
  None

Publisher == Producer \cup Worker
Client == Publisher \cup {Loop}

ASSUME AmqpAssumption ==
  /\ Poison \subseteq Message
  /\ MessageOf \in [Producer -> Message]
  /\ Producer \cap Worker = {} /\ Loop \notin Publisher
  /\ None \notin Nat
  /\ \A s \in Setups :
       /\ s.stored \in Seq(Message)       \* messages the broker has at the start
       /\ s.senders \subseteq Producer /\ s.workers \subseteq Worker /\ s.prefetch \in Nat \ {0}
       /\ s.receives \in BOOLEAN          \* Receive is called
       /\ s.stops \subseteq {"interrupt", "close"}
       /\ s.maxFaults \in Nat             \* what the broker or the network spoil
       /\ s.maxCopies \in Nat             \* a worker retries only below this many copies

VARIABLES
  setup,
  closing, interrupted,  \* Close was called; the contexts of the callers ended
  connection, ownsConnection, reconnecting,
  alive,                 \* connections that are up
  channel,               \* channels: their connection, whether they are open, tags used
  publishChannel, consumeChannel, consumeGeneration,
  publishMutex,
  pc, hand, used,        \* a client's place, connection and channel
  attempt,               \* a publisher's attempt
  job, captured,         \* a worker's delivery, and the channel it answers on
  generation, item,      \* of the consume loop: what it stamps, what it forwards
  copies,                \* the broker's copies of messages, and where they are
  faults,                \* things spoiled so far
  accepted, handled, rejected  \* history: Send said so; a handler, the dead-letter queue had it

lifeVars == <<setup, closing, interrupted>>
connectionVars == <<connection, ownsConnection, reconnecting, alive>>
channelVars == <<channel, publishChannel, consumeChannel, consumeGeneration>>
clientVars == <<pc, hand, used>>
publishVars == <<publishMutex, attempt>>
workerVars == <<job, captured>>
loopVars == <<generation, item>>
historyVars == <<accepted, handled, rejected>>

vars == <<lifeVars, connectionVars, channelVars, clientVars, publishVars, workerVars, loopVars,
          copies, faults, historyVars>>

Open(ch) == ch # None /\ channel[ch].open

(* A delivery: which copy, and the tag and generation that are stamped.    *)
NoJob == [copy |-> 0, tag |-> 0, generation |-> 0]

Ready == [channel |-> None, tag |-> 0]   \* in a queue, the delay queue included
Gone == [channel |-> None, tag |-> 1]    \* settled
Copy(m) == [message |-> m, at |-> Ready]

Init ==
  /\ setup \in Setups
  /\ closing = FALSE /\ interrupted = FALSE
  /\ connection = 1 /\ ownsConnection = FALSE /\ reconnecting = FALSE /\ alive = {1}
  /\ channel = << >> /\ publishChannel = None /\ consumeChannel = None
  /\ consumeGeneration = 0 /\ publishMutex = None
  /\ pc = [c \in Client |-> IF c = Loop /\ setup.receives THEN "ensure" ELSE "idle"]
  /\ hand = [c \in Client |-> None] /\ used = [c \in Client |-> None]
  /\ attempt = [a \in Publisher |-> 1]
  /\ job = [w \in Worker |-> NoJob] /\ captured = [w \in Worker |-> None]
  /\ generation = 0 /\ item = NoJob
  /\ copies = [i \in DOMAIN setup.stored |-> Copy(setup.stored[i])]
  /\ faults = 0
  /\ accepted = {setup.stored[i] : i \in DOMAIN setup.stored} /\ handled = {} /\ rejected = {}

(* Locals of a call that returned are gone.                                *)
Forget(c) == used' = [used EXCEPT ![c] = None]

Go(c, place) == pc' = [pc EXCEPT ![c] = place]
Spoil == faults < setup.maxFaults /\ faults' = faults + 1

(* Closing channels gives the deliveries on them back to the broker.       *)
Closed(chs) == [ch \in DOMAIN channel |-> [channel[ch] EXCEPT !.open = @ /\ ch \notin chs]]
GivenBack(chs) ==
  [i \in DOMAIN copies |-> IF copies[i].at.channel \in chs \ {None}
                           THEN [copies[i] EXCEPT !.at = Ready] ELSE copies[i]]
ChannelsOf(cs) == {ch \in DOMAIN channel : channel[ch].connection \in cs}
CloseChannels(chs) == channel' = Closed(chs) /\ copies' = GivenBack(chs)
-----------------------------------------------------------------------------
(* The broker and the network.                                             *)
DropConnection ==
  /\ Spoil
  /\ \E c \in alive : alive' = alive \ {c} /\ CloseChannels(ChannelsOf({c}))
  /\ UNCHANGED <<lifeVars, connection, ownsConnection, reconnecting, publishChannel,
                 consumeChannel, consumeGeneration, clientVars, publishVars, workerVars,
                 loopVars, historyVars>>

DropChannel ==
  /\ Spoil
  /\ \E ch \in DOMAIN channel : Open(ch) /\ CloseChannels({ch})
  /\ UNCHANGED <<lifeVars, connectionVars, publishChannel, consumeChannel, consumeGeneration,
                 clientVars, publishVars, workerVars, loopVars, historyVars>>

Interrupt ==
  /\ "interrupt" \in setup.stops /\ ~interrupted /\ interrupted' = TRUE
  /\ UNCHANGED <<setup, closing, connectionVars, channelVars, clientVars, publishVars, workerVars,
                 loopVars, copies, faults, historyVars>>

Close ==
  /\ "close" \in setup.stops /\ ~closing /\ closing' = TRUE
  /\ LET cs == IF ownsConnection THEN {connection} \ {None} ELSE {}
     IN  /\ CloseChannels(ChannelsOf(cs) \cup ({consumeChannel, publishChannel} \ {None}))
         /\ alive' = alive \ cs
         /\ connection' = IF ownsConnection THEN None ELSE connection
  /\ publishChannel' = None /\ consumeChannel' = None
  /\ UNCHANGED <<setup, interrupted, ownsConnection, reconnecting, consumeGeneration, clientVars,
                 publishVars, workerVars, loopVars, faults, historyVars>>
-----------------------------------------------------------------------------
(* ensurePublishChannel, ensureConsumeChannel, connect.                    *)

(* Where a client goes with the channel in hand, and where without.        *)
Proceed(c) == Go(c, IF c = Loop THEN "consume" ELSE "publish")
Fail(c) == Go(c, IF c = Loop THEN "recover" ELSE "failed") /\ Forget(c)

Cached(c) == IF c = Loop THEN consumeChannel ELSE publishChannel

Ensure(c) ==
  /\ pc[c] = "ensure"
  /\ \/ closing /\ Fail(c)
     \/ /\ ~closing /\ Open(Cached(c))
        /\ used' = [used EXCEPT ![c] = Cached(c)]
        /\ Proceed(c)
     \/ ~closing /\ ~Open(Cached(c)) /\ Go(c, "connect") /\ UNCHANGED used
  /\ UNCHANGED <<lifeVars, connectionVars, channelVars, hand, publishVars, workerVars, loopVars,
                 copies, faults, historyVars>>

(* mutant: nobody looks whether a dial is under way.                       *)
EveryoneDials == TRUE

MayDial == ~reconnecting

Connect(c) ==
  /\ pc[c] = "connect"
  /\ \/ /\ ~closing /\ connection \in alive
        /\ hand' = [hand EXCEPT ![c] = connection]
        /\ Go(c, "open") /\ UNCHANGED <<used, reconnecting>>
     \/ /\ ~closing /\ connection \notin alive /\ MayDial
        /\ reconnecting' = TRUE
        /\ Go(c, "dial") /\ UNCHANGED <<used, hand>>
     \/ /\ closing \/ (connection \notin alive /\ ~MayDial)
        /\ Fail(c) /\ UNCHANGED <<hand, reconnecting>>
  /\ UNCHANGED <<lifeVars, connection, ownsConnection, alive, channelVars, publishVars,
                 workerVars, loopVars, copies, faults, historyVars>>

(* mutant: the flag stays when the dial failed.                            *)
DialEndsWhenDone(succeeded) == reconnecting' = ~succeeded

DialEnds(succeeded) == reconnecting' = FALSE

(* The dialer runs without the mutex.  A new connection forgets the        *)
(* channels of the old one, and is closed when the transport was.          *)
Dial(c) ==
  /\ pc[c] = "dial"
  /\ \/ /\ ~closing
        /\ DialEnds(TRUE)
        /\ connection' = connection + 1 /\ ownsConnection' = TRUE
        /\ alive' = alive \cup {connection'}
        /\ publishChannel' = None /\ consumeChannel' = None
        /\ hand' = [hand EXCEPT ![c] = connection']
        /\ Go(c, "open") /\ UNCHANGED <<used, faults>>
     \/ /\ closing
        /\ DialEnds(TRUE) /\ Fail(c)
        /\ UNCHANGED <<connection, ownsConnection, alive, publishChannel, consumeChannel, hand,
                       faults>>
     \/ /\ Spoil
        /\ DialEnds(FALSE) /\ Fail(c)
        /\ UNCHANGED <<connection, ownsConnection, alive, publishChannel, consumeChannel, hand>>
  /\ UNCHANGED <<lifeVars, channel, consumeGeneration, publishVars, workerVars, loopVars, copies,
                 historyVars>>

(* Opening a channel and declaring the topology; a refusal closes it.      *)
OpenChannel(c) ==
  /\ pc[c] = "open"
  /\ \/ /\ hand[c] \in alive
        /\ channel' = Append(channel, [connection |-> hand[c], open |-> TRUE, tags |-> 0])
        /\ used' = [used EXCEPT ![c] = Len(channel')]
        /\ Go(c, "store") /\ UNCHANGED faults
     \/ hand[c] \notin alive /\ Fail(c) /\ UNCHANGED <<channel, faults>>
     \/ hand[c] \in alive /\ Spoil /\ Fail(c) /\ UNCHANGED channel
  /\ hand' = [hand EXCEPT ![c] = None]
  /\ UNCHANGED <<lifeVars, connectionVars, publishChannel, consumeChannel, consumeGeneration,
                 publishVars, workerVars, loopVars, copies, historyVars>>

CloseOwn(c) == CloseChannels({used[c]})

NewGeneration == consumeGeneration' = consumeGeneration + 1

StoreChannel(c) ==
  /\ pc[c] = "store"
  /\ \/ /\ closing
        /\ CloseOwn(c) /\ Fail(c)
        /\ UNCHANGED <<publishChannel, consumeChannel, consumeGeneration>>
     \/ /\ ~closing /\ Open(Cached(c))
        /\ CloseOwn(c)
        /\ used' = [used EXCEPT ![c] = Cached(c)] /\ Proceed(c)
        /\ UNCHANGED <<publishChannel, consumeChannel, consumeGeneration>>
     \/ /\ ~closing /\ ~Open(Cached(c))
        /\ IF c = Loop
           THEN /\ consumeChannel' = used[c] /\ NewGeneration /\ UNCHANGED publishChannel
           ELSE publishChannel' = used[c] /\ UNCHANGED <<consumeChannel, consumeGeneration>>
        /\ Proceed(c) /\ UNCHANGED <<channel, used, copies>>
  /\ UNCHANGED <<lifeVars, connectionVars, hand, publishVars, workerVars, loopVars, faults,
                 historyVars>>
-----------------------------------------------------------------------------
(* publish: two attempts, each serialized with its confirmation.           *)
StartPublish(a) == Go(a, "ensure") /\ attempt' = [attempt EXCEPT ![a] = 1]

SendReturns(a) == Go(a, "done") /\ Forget(a) /\ attempt' = [attempt EXCEPT ![a] = 1]

Send(a) ==
  /\ a \in setup.senders /\ pc[a] = "idle"
  /\ StartPublish(a)
  /\ UNCHANGED <<lifeVars, connectionVars, channelVars, hand, used, publishMutex, workerVars,
                 loopVars, copies, faults, historyVars>>

Payload(a) == IF a \in Producer THEN MessageOf[a] ELSE copies[job[a].copy].message

(* The broker takes the message, or refuses it with a nack or a return.    *)
Publish(a) ==
  /\ a \in Publisher /\ pc[a] = "publish" /\ publishMutex = None
  /\ \/ /\ Open(used[a])
        /\ publishMutex' = a
        /\ \/ Go(a, "taken") /\ copies' = Append(copies, Copy(Payload(a))) /\ UNCHANGED faults
           \/ Go(a, "refused") /\ Spoil /\ UNCHANGED copies
     \/ ~Open(used[a]) /\ Go(a, "failed") /\ UNCHANGED <<publishMutex, copies, faults>>
  /\ UNCHANGED <<lifeVars, connectionVars, channelVars, hand, used, attempt, workerVars, loopVars,
                 historyVars>>

Confirms(a) == pc[a] = "taken"

(* mutant: the mutex stays locked after a refused publish.                 *)
UnlocksOnSuccess(a) == publishMutex' = IF Confirms(a) THEN None ELSE publishMutex

Unlocks(a) == publishMutex' = None

(* The confirmation came, with or without a basic.return before it; or the *)
(* channel closed or the context ended while it was on its way.            *)
Confirm(a) ==
  /\ a \in Publisher /\ pc[a] \in {"taken", "refused"}
  /\ Unlocks(a)
  /\ \/ /\ Confirms(a)
        /\ IF a \in Producer
           THEN SendReturns(a) /\ accepted' = accepted \cup {MessageOf[a]}
           ELSE Go(a, "republished") /\ UNCHANGED <<used, attempt, accepted>>
     \/ /\ ~Confirms(a) \/ ~Open(used[a]) \/ interrupted
        /\ Go(a, "failed") /\ UNCHANGED <<used, attempt, accepted>>
  /\ UNCHANGED <<lifeVars, connectionVars, channelVars, hand, workerVars, loopVars, copies,
                 faults, handled, rejected>>

TriesAgain(a) == attempt[a] < 2 /\ ~closing

(* resetPublishChannel closes the cached channel when it is the one that   *)
(* failed, or when there was none that could fail.                         *)
Resets(a) == used[a] \in {None, publishChannel}

Retry(a) ==
  /\ a \in Publisher /\ pc[a] = "failed" /\ TriesAgain(a)
  /\ IF Resets(a)
     THEN CloseChannels({publishChannel} \ {None}) /\ publishChannel' = None
     ELSE UNCHANGED <<channel, copies, publishChannel>>
  /\ attempt' = [attempt EXCEPT ![a] = @ + 1]
  /\ Go(a, "ensure") /\ Forget(a)
  /\ UNCHANGED <<lifeVars, connectionVars, consumeChannel, consumeGeneration, hand, publishMutex,
                 workerVars, loopVars, faults, historyVars>>

GiveUp(a) ==
  /\ a \in Publisher /\ pc[a] = "failed" /\ ~TriesAgain(a)
  /\ IF a \in Producer THEN SendReturns(a) ELSE Go(a, "fallback") /\ UNCHANGED <<used, attempt>>
  /\ UNCHANGED <<lifeVars, connectionVars, channelVars, hand, publishMutex, workerVars, loopVars,
                 copies, faults, historyVars>>
-----------------------------------------------------------------------------
(* Workers: Ack, Nack without and with requeue (republish).                *)

(* Settles the delivery with this tag, if the channel is still there.      *)
At(ch, tag) == [channel |-> ch, tag |-> tag]
SettleOn(ch, tag, place) ==
  copies' = [i \in DOMAIN copies |-> IF copies[i].at = At(ch, tag) /\ Open(ch)
                                     THEN [copies[i] EXCEPT !.at = place] ELSE copies[i]]

(* mutant: the generation of the delivery is not compared.                 *)
AnyGeneration(w) == Open(consumeChannel)

(* consumeChannelForAck, and the generation the delivery was stamped with. *)
OnSameChannel(w) == Open(consumeChannel) /\ job[w].generation = consumeGeneration

Returns(w) ==
  /\ Go(w, "idle") /\ Forget(w)
  /\ job' = [job EXCEPT ![w] = NoJob] /\ captured' = [captured EXCEPT ![w] = None]
  /\ attempt' = [attempt EXCEPT ![w] = 1]

(* A handler returned.  The verdict is to acknowledge, to reject for good  *)
(* or to try again.                                                        *)
Answer(w, verdict) ==
  /\ w \in Worker /\ pc[w] = "handling"
  /\ verdict = "retry" => Len(copies) < setup.maxCopies
  /\ handled' = IF verdict = "ack" THEN handled \cup {copies[job[w].copy].message} ELSE handled
  /\ IF OnSameChannel(w)
     THEN /\ captured' = [captured EXCEPT ![w] = consumeChannel] /\ UNCHANGED <<used, job>>
          /\ IF verdict = "retry" THEN StartPublish(w) ELSE Go(w, verdict) /\ UNCHANGED attempt
     ELSE Returns(w)
  /\ UNCHANGED <<lifeVars, connectionVars, channelVars, hand, publishMutex, loopVars, copies,
                 faults, accepted, rejected>>

WorkerDone(w) ==
  /\ Returns(w)
  /\ UNCHANGED <<lifeVars, connectionVars, channelVars, hand, publishMutex, loopVars, faults,
                 accepted, handled>>

Ack(w) ==
  /\ w \in Worker /\ pc[w] = "ack"
  /\ SettleOn(captured[w], job[w].tag, Gone)
  /\ WorkerDone(w) /\ UNCHANGED rejected

(* The dead-letter queue has the message, or the broker drops it.          *)
Reject(w) ==
  /\ w \in Worker /\ pc[w] = "reject"
  /\ SettleOn(captured[w], job[w].tag, Gone)
  /\ rejected' = rejected \cup {copies[i].message : i \in {j \in DOMAIN copies : copies'[j] # copies[j]}}
  /\ WorkerDone(w)

Fallback(w) ==
  /\ w \in Worker /\ pc[w] = "fallback"
  /\ SettleOn(captured[w], job[w].tag, Ready)
  /\ WorkerDone(w) /\ UNCHANGED rejected

(* republish: the original is acknowledged if its channel is still the one *)
(* of its generation.                                                      *)
Republished(w) ==
  /\ w \in Worker /\ pc[w] = "republished"
  /\ IF job[w].generation = consumeGeneration
     THEN SettleOn(captured[w], job[w].tag, Gone)
     ELSE UNCHANGED copies
  /\ WorkerDone(w) /\ UNCHANGED rejected
-----------------------------------------------------------------------------
(* The consume loop.                                                       *)
LoopSteps(place) ==
  /\ Go(Loop, place)
  /\ UNCHANGED <<lifeVars, connectionVars, hand, publishVars, workerVars, accepted, handled>>

(* subscribe, then forwardDeliveries reads the generation it stamps: only  *)
(* this loop changes it.                                                   *)
Consume ==
  /\ pc[Loop] = "consume"
  /\ \/ Open(used[Loop]) /\ generation' = consumeGeneration /\ LoopSteps("select") /\ UNCHANGED faults
     \/ ~Open(used[Loop]) /\ LoopSteps("recover") /\ UNCHANGED <<generation, faults>>
     \/ Spoil /\ LoopSteps("recover") /\ UNCHANGED generation
  /\ UNCHANGED <<channelVars, used, item, copies, rejected>>

Unacked(ch) == {i \in DOMAIN copies : copies[i].at.channel = ch}

(* A tag is used once on a channel; the deliveries of a channel are read   *)
(* until it is closed, those of a message that does not decode rejected.   *)
Deliver ==
  /\ pc[Loop] = "select"
  /\ Open(used[Loop]) /\ Cardinality(Unacked(used[Loop])) < setup.prefetch
  /\ \E i \in DOMAIN copies :
       /\ copies[i].at = Ready
       /\ LET tag == channel[used[Loop]].tags + 1
          IN  /\ item' = [copy |-> i, tag |-> tag, generation |-> generation]
              /\ copies' = [copies EXCEPT ![i].at = At(used[Loop], tag)]
              /\ channel' = [channel EXCEPT ![used[Loop]].tags = tag]
       /\ LoopSteps(IF copies[i].message \in Poison THEN "poison" ELSE "forward")
  /\ UNCHANGED <<publishChannel, consumeChannel, consumeGeneration, used, generation, faults,
                 rejected>>

RejectPoison ==
  /\ pc[Loop] = "poison"
  /\ SettleOn(used[Loop], item.tag, Gone)
  /\ rejected' = IF Open(used[Loop]) THEN rejected \cup {copies[item.copy].message} ELSE rejected
  /\ item' = NoJob
  /\ LoopSteps("select")
  /\ UNCHANGED <<channelVars, used, generation, faults>>

Forward(w) ==
  /\ w \in setup.workers /\ pc[Loop] = "forward" /\ pc[w] = "idle"
  /\ job' = [job EXCEPT ![w] = item]
  /\ item' = NoJob
  /\ pc' = [pc EXCEPT ![Loop] = "select", ![w] = "handling"]
  /\ UNCHANGED <<lifeVars, connectionVars, channelVars, hand, used, publishVars, captured,
                 generation, copies, faults, historyVars>>

Stopping == interrupted \/ closing

(* The context ended or the transport is closed: the loop ends, wherever   *)
(* it would wait, and after its deliveries were lost.                      *)
LoopEnds ==
  /\ pc[Loop] \in {"select", "forward", "recover", "wait"} /\ Stopping
  /\ LoopSteps("ended")
  /\ Forget(Loop) /\ generation' = 0 /\ item' = NoJob
  /\ UNCHANGED <<channelVars, copies, faults, rejected>>

DeliveriesEnd ==
  /\ pc[Loop] = "select" /\ ~Open(used[Loop])
  /\ LoopSteps("recover") /\ generation' = 0
  /\ UNCHANGED <<channelVars, used, item, copies, faults, rejected>>

(* resetConsumeChannel, then the backoff and subscribe again.              *)
Recover ==
  /\ pc[Loop] = "recover" /\ ~Stopping
  /\ CloseChannels({consumeChannel} \ {None})
  /\ consumeChannel' = None
  /\ Forget(Loop)
  /\ LoopSteps("wait")
  /\ UNCHANGED <<publishChannel, consumeGeneration, loopVars, faults, rejected>>

Backoff ==
  /\ pc[Loop] = "wait"
  /\ LoopSteps("ensure")
  /\ UNCHANGED <<channelVars, used, loopVars, copies, faults, rejected>>
-----------------------------------------------------------------------------
Opening(c) == Ensure(c) \/ Connect(c) \/ Dial(c) \/ OpenChannel(c) \/ StoreChannel(c)

Publishing(a) == Publish(a) \/ Confirm(a) \/ Retry(a) \/ GiveUp(a)

Working(w) ==
  \/ \E verdict \in {"ack", "reject", "retry"} : Answer(w, verdict)
  \/ Ack(w) \/ Reject(w) \/ Fallback(w) \/ Republished(w)

Looping ==
  \/ Consume \/ Deliver \/ RejectPoison
  \/ LoopEnds \/ DeliveriesEnd \/ Recover \/ Backoff
  \/ \E w \in Worker : Forward(w)

Next ==
  \/ DropConnection \/ DropChannel \/ Interrupt \/ Close
  \/ \E c \in Client : Opening(c)
  \/ \E a \in Publisher : Publishing(a)
  \/ \E a \in Producer : Send(a)
  \/ \E w \in Worker : Working(w)
  \/ Looping

Spec == Init /\ [][Next]_vars

(* Goroutines are scheduled, dials, requests and handlers return, and      *)
(* the broker delivers what is ready.                                      *)
Fairness ==
  /\ \A c \in Client : WF_vars(Opening(c))
  /\ \A a \in Publisher : WF_vars(Publishing(a))
  /\ \A w \in Worker : WF_vars(Working(w))
  /\ WF_vars(Looping)

FairSpec == Spec /\ Fairness
-----------------------------------------------------------------------------
(* The connections, channels, deliveries and copies are what they are      *)
(* declared to be.                                                         *)
Channel == {None} \cup DOMAIN channel
Place == [channel : Channel, tag : Nat]
Step == {"idle", "ensure", "connect", "dial", "open", "store", "publish", "taken", "refused",
         "failed", "done", "handling", "ack", "reject", "fallback", "republished",
         "consume", "select", "poison", "forward", "recover", "wait", "ended"}
Delivery == [copy : {0} \cup DOMAIN copies, tag : Nat, generation : Nat]

TypeOK ==
  /\ setup \in Setups
  /\ {closing, interrupted, ownsConnection, reconnecting} \subseteq BOOLEAN
  /\ connection \in {None} \cup Nat /\ alive \subseteq Nat
  /\ channel \in Seq([connection : Nat, open : BOOLEAN, tags : Nat])
  /\ {publishChannel, consumeChannel} \subseteq Channel /\ consumeGeneration \in Nat
  /\ publishMutex \in {None} \cup Publisher
  /\ pc \in [Client -> Step]
  /\ hand \in [Client -> {None} \cup Nat] /\ used \in [Client -> Channel]
  /\ attempt \in [Publisher -> 1..2]
  /\ job \in [Worker -> Delivery] /\ captured \in [Worker -> Channel]
  /\ generation \in Nat /\ item \in Delivery
  /\ copies \in Seq([message : Message, at : Place])
  /\ faults \in 0..setup.maxFaults
  /\ accepted \cup handled \cup rejected \subseteq Message

(* A message that was in the queue, or that Send reported as sent, is      *)
(* handled, dead-lettered, or still with the broker: neither a channel     *)
(* reopened under a delivery, nor a republish that the broker refused, nor *)
(* a tag used again on the next channel loses it.                          *)
NothingLost ==
  \A m \in accepted :
    \/ m \in handled \cup rejected
    \/ \E i \in DOMAIN copies : copies[i].message = m /\ copies[i].at # Gone

(* Reconnecting leaks nothing at the broker: a connection that is up is    *)
(* the transport's, a channel that is open is one of the two cached ones   *)
(* or in the hand of a client about to store or close it.                  *)
NoLeak ==
  /\ alive \subseteq {connection}
  /\ \A ch \in DOMAIN channel : channel[ch].open =>
       \/ ch \in {publishChannel, consumeChannel}
       \/ \E c \in Client : pc[c] = "store" /\ used[c] = ch

(* What the comment at resetPublishChannel says: a retry closes the cached *)
(* publish channel only when it is the one its own attempt failed on.      *)
HealthyChannelKept ==
  [][\A a \in Publisher : Retry(a) /\ Open(publishChannel) /\ used[a] # publishChannel
                            => publishChannel' = publishChannel]_vars

(* Send returns, whatever happens to connections and channels: a producer  *)
(* sends once, so in the end none is inside.                               *)
SendsReturn == []<>(\A a \in Producer : pc[a] \in {"idle", "done"})

(* Unless the transport is stopped, all that a consumed queue accepted is  *)
(* handled or dead-lettered in the end: the consume loop finds its way     *)
(* back after every loss, and no delivery stays behind on a channel nobody *)
(* reads.                                                                  *)
EveryMessageSettles ==
  []<>(accepted \subseteq handled \cup rejected \/ Stopping \/ ~setup.receives)
=============================================================================
