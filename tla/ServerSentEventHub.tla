-------------------------- MODULE ServerSentEventHub --------------------------
(***************************************************************************)
(* ServerSentEventHub of src/v3/http with the backplane of                 *)
(* src/integrations/amqp/v3: an event goes to the subscribers of this      *)
(* process and, over a fanout exchange, to those of the others, whose      *)
(* events come back over a queue that a listener consumes.  Publishers and *)
(* listener share the connection, which may break and be dialed again, and *)
(* all of it may be closed at any moment.                                  *)
(*                                                                         *)
(* One topic stands for all, as topics share nothing but the mutex.  What  *)
(* is done in one hold of a mutex is one action.                           *)
(***************************************************************************)
EXTENDS Integers, Sequences, FiniteSets

CONSTANTS
  Publisher,      \* each broadcasts one event, which is named after it
  Foreign,        \* the events of other processes, one per publication
  Listener,       \* the goroutine of listen
  Subscriber,
  MaxFaults       \* bound on what fails outside of this process

ASSUME HubAssumption == Listener \notin Publisher /\ Publisher \cap Foreign = {}

Actor == Publisher \cup {Listener}
Event == Publisher \cup Foreign

VARIABLES
  subscribers,    \* by subscriber: [listed, open, heard]
  hubClosed,
  attached,       \* the hub has the backplane
  hasDialer,
  connections,    \* by number: [open, dialed], else given
  connection,     \* the number of the one in use
  channels,       \* by number: [connection, open, mail, consumer]; the mail is
                  \* what the consumer has yet to read
  publishChannel, consumeChannel,    \* numbers of channels, or None
  closing, reconnecting, canceled,
  task,           \* of each actor: [at, tries, connection, channel]
  closer,         \* how far Close of the backplane is
  published,      \* the events of other processes that the broker took
  faults

hubVars == <<subscribers, hubClosed>>
setup == <<attached, hasDialer>>
linkVars == <<connections, connection, channels, publishChannel, consumeChannel>>
flagVars == <<closing, reconnecting, canceled>>
vars == <<hubVars, setup, linkVars, flagVars, task, closer, published, faults>>

None == 0

Open(ch) == ch # None /\ channels[ch].open

(* The channels, with those in ended closed: a closed one consumes nothing *)
(* and is of no connection, and what it had delivered can still be read.   *)
Without(ended) ==
  [n \in DOMAIN channels |->
     IF n \in ended
     THEN [channels[n] EXCEPT !.open = FALSE, !.connection = None, !.consumer = FALSE]
     ELSE channels[n]]

(* The number of a new channel or connection: one that is not in use.      *)
NewIn(things, used) ==
  LET free == {n \in DOMAIN things : ~things[n].open /\ n \notin used}
  IN  IF free = {} THEN Len(things) + 1 ELSE CHOOSE n \in free : TRUE

NewConnection ==
  NewIn(connections, {connection} \cup {task[a].connection : a \in Actor})

NewChannel ==
  NewIn(channels, {publishChannel, consumeChannel} \cup {task[a].channel : a \in Actor})

With(things, n, thing) ==
  IF n \in DOMAIN things THEN [things EXCEPT ![n] = thing] ELSE Append(things, thing)

Idle(step) == [at |-> step, tries |-> 0, connection |-> None, channel |-> None]

Heard == [e \in Event |-> 0]

Gone == [listed |-> FALSE, open |-> FALSE, heard |-> Heard]

Init ==
  /\ subscribers = [s \in Subscriber |-> Gone]
  /\ hubClosed = FALSE
  /\ attached = TRUE
  /\ hasDialer \in BOOLEAN
  /\ \E given \in BOOLEAN :    \* a connection, without which a dialer is needed
       /\ given \/ hasDialer
       /\ connections = <<[open |-> given, dialed |-> FALSE]>>
  /\ connection = 1
  /\ channels = <<>>
  /\ publishChannel = None /\ consumeChannel = None
  /\ closing = FALSE /\ reconnecting = FALSE /\ canceled = FALSE
  /\ task = [a \in Actor |->
       Idle(IF a = Listener THEN "check" ELSE "broadcast")]
  /\ closer = "open"
  /\ published = {}
  /\ faults = 0

At(a, step) == task[a].at = step
Go(a, step) == task' = [task EXCEPT ![a].at = step]
Hold(a, step, ch) ==
  task' = [task EXCEPT ![a].at = step, ![a].channel = ch, ![a].connection = None]
End(a, step) == task' = [task EXCEPT ![a] = Idle(step)]

Fault == faults < MaxFaults /\ faults' = faults + 1
-----------------------------------------------------------------------------
(* A stream begins.  (Subscribe to a hub that is closed gives a closed     *)
(* channel that the hub does not know.)                                    *)
Subscribe(s) ==
  /\ ~subscribers[s].listed
  /\ ~hubClosed
  /\ subscribers' = [subscribers EXCEPT ![s] = [@ EXCEPT !.listed = TRUE, !.open = TRUE]]
  /\ UNCHANGED <<hubClosed, setup, linkVars, flagVars, task, closer, faults, published>>

(* The stream of the subscriber ends, maybe after the hub was shut down.   *)
Unsubscribe(s) ==
  /\ subscribers[s].listed
  /\ subscribers' = [subscribers EXCEPT ![s] = Gone]
  /\ UNCHANGED <<hubClosed, setup, linkVars, flagVars, task, closer, faults, published>>

(* mutant: the subscribers stay in the map.                                *)
ShutdownKeepsTopics ==
  /\ ~hubClosed
  /\ hubClosed' = TRUE
  /\ subscribers' = [s \in Subscriber |->
       IF subscribers[s].listed
       THEN [Gone EXCEPT !.listed = TRUE]
       ELSE subscribers[s]]
  /\ UNCHANGED <<setup, linkVars, flagVars, task, closer, faults, published>>

Shutdown ==
  /\ ~hubClosed
  /\ hubClosed' = TRUE
  /\ subscribers' = [s \in Subscriber |-> Gone]
  /\ UNCHANGED <<setup, linkVars, flagVars, task, closer, faults, published>>

(* Every subscriber is offered the event; what it drops for want of room   *)
(* counts as heard.                                                        *)
DeliverLocal(e) ==
  subscribers' = [s \in Subscriber |->
    IF subscribers[s].listed THEN [subscribers[s] EXCEPT !.heard[e] = @ + 1]
    ELSE subscribers[s]]

Broadcast(p) ==
  /\ At(p, "broadcast")
  /\ DeliverLocal(p)
  /\ Go(p, "replicate")
  /\ UNCHANGED <<hubClosed, setup, linkVars, flagVars, closer, faults, published>>

Replicate(p) ==
  /\ At(p, "replicate")
  /\ IF hubClosed \/ ~attached THEN Go(p, "done") ELSE Go(p, "ensure")
  /\ UNCHANGED <<hubVars, setup, linkVars, flagVars, closer, faults, published>>
-----------------------------------------------------------------------------
(* What follows an attempt that failed: a publisher tries once more unless *)
(* the backplane is closing; the listener sleeps.                          *)
Fails(a, ch) == Hold(a, IF a = Listener THEN "sleep" ELSE "failed", ch)

(* EnsurePublishChannel, up to the connection it needs.                    *)
EnsureChannel(p) ==
  /\ At(p, "ensure")
  /\ IF closing THEN Fails(p, None)
     ELSE IF Open(publishChannel) THEN Hold(p, "send", publishChannel)
     ELSE Hold(p, "live", None)
  /\ UNCHANGED <<hubVars, setup, linkVars, flagVars, closer, faults, published>>

(* liveConnection: the one there is, or the right to dial another.         *)
LiveConnection(a) ==
  /\ At(a, "live")
  /\ IF closing THEN Fails(a, None) /\ UNCHANGED reconnecting
     ELSE IF connections[connection].open
     THEN /\ task' = [task EXCEPT ![a].at = "open", ![a].connection = connection]
          /\ UNCHANGED reconnecting
     ELSE IF ~hasDialer
     THEN /\ IF a = Listener THEN Go(a, "done") ELSE Fails(a, None)
          /\ UNCHANGED reconnecting
     ELSE IF reconnecting THEN Fails(a, None) /\ UNCHANGED reconnecting
     ELSE Go(a, "dial") /\ reconnecting' = TRUE
  /\ UNCHANGED <<hubVars, setup, linkVars, closing, canceled, closer, faults, published>>

(* mutant: the dialer is waited for even when Close cancels.               *)
DialStubbornly(a) ==
  /\ \/ /\ At(a, "dial")
        /\ \/ /\ task' = [task EXCEPT ![a].at = "dialed",
                                      ![a].connection = NewConnection]
              /\ connections' =
                   With(connections, NewConnection, [open |-> TRUE, dialed |-> TRUE])
              /\ UNCHANGED faults
           \/ /\ Fault
              /\ \E end \in {"dialed", "hung"} :
                   task' = [task EXCEPT ![a].at = end, ![a].connection = None]
              /\ UNCHANGED connections
  /\ UNCHANGED <<hubVars, setup, connection, channels, publishChannel, consumeChannel,
                 flagVars, closer, published>>

(* dialWithContext: the dialer may fail, and may never return; Close       *)
(* cancels it.  (A connection that comes after that is closed.)            *)
Dial(a) ==
  /\ \/ /\ At(a, "dial")
        /\ \/ /\ task' = [task EXCEPT ![a].at = "dialed",
                                      ![a].connection = NewConnection]
              /\ connections' =
                   With(connections, NewConnection, [open |-> TRUE, dialed |-> TRUE])
              /\ UNCHANGED faults
           \/ /\ Fault
              /\ \E end \in {"dialed", "hung"} :
                   task' = [task EXCEPT ![a].at = end, ![a].connection = None]
              /\ UNCHANGED connections
     \/ /\ At(a, "dial") \/ At(a, "hung")
        /\ canceled
        /\ task' = [task EXCEPT ![a].at = "dialed", ![a].connection = None]
        /\ UNCHANGED <<connections, faults>>
  /\ UNCHANGED <<hubVars, setup, connection, channels, publishChannel, consumeChannel,
                 flagVars, closer, published>>

(* mutant: a connection that comes after Close is kept.                    *)
DialedAfterClose(a) ==
  LET new == task[a].connection IN
  /\ At(a, "dialed")
  /\ reconnecting' = FALSE
  /\ IF new = None
     THEN Fails(a, None) /\ UNCHANGED linkVars
     ELSE /\ channels' = Without({publishChannel, consumeChannel})
          /\ publishChannel' = None
          /\ consumeChannel' = None
          /\ connection' = new
          /\ Go(a, "open")
          /\ UNCHANGED connections
  /\ UNCHANGED <<hubVars, setup, closing, canceled, closer, faults, published>>

(* mutant: a dial that failed leaves the reconnecting mark.                *)
DialedStillReconnecting(a) ==
  LET new == task[a].connection IN
  /\ At(a, "dialed")
  /\ IF new = None
     THEN Fails(a, None) /\ UNCHANGED <<linkVars, reconnecting>>
     ELSE /\ reconnecting' = FALSE
          /\ IF closing
             THEN /\ Fails(a, None)
                  /\ connections' = [connections EXCEPT ![new].open = FALSE]
                  /\ UNCHANGED <<connection, channels, publishChannel, consumeChannel>>
             ELSE /\ channels' = Without({publishChannel, consumeChannel})
                  /\ publishChannel' = None
                  /\ consumeChannel' = None
                  /\ connection' = new
                  /\ Go(a, "open")
                  /\ UNCHANGED connections
  /\ UNCHANGED <<hubVars, setup, closing, canceled, closer, faults, published>>

(* The rest of liveConnection: the channels of the connection before go.   *)
Dialed(a) ==
  LET new == task[a].connection IN
  /\ At(a, "dialed")
  /\ reconnecting' = FALSE
  /\ IF new = None
     THEN Fails(a, None) /\ UNCHANGED linkVars
     ELSE IF closing
     THEN /\ Fails(a, None)
          /\ connections' = [connections EXCEPT ![new].open = FALSE]
          /\ UNCHANGED <<connection, channels, publishChannel, consumeChannel>>
     ELSE /\ channels' = Without({publishChannel, consumeChannel})
          /\ publishChannel' = None
          /\ consumeChannel' = None
          /\ connection' = new
          /\ Go(a, "open")
          /\ UNCHANGED connections
  /\ UNCHANGED <<hubVars, setup, closing, canceled, closer, faults, published>>

(* A channel is opened, with the exchange, and for the listener a queue    *)
(* and a consumer on it; what fails on the way closes it.                  *)
OpenChannel(a) ==
  /\ At(a, "open")
  /\ \/ /\ connections[task[a].connection].open
        /\ channels' = With(channels, NewChannel,
             [connection |-> task[a].connection, open |-> TRUE, mail |-> <<>>,
              consumer |-> a = Listener])
        /\ Hold(a, "install", NewChannel)
        /\ UNCHANGED faults
     \/ /\ ~connections[task[a].connection].open
        /\ Fails(a, None)
        /\ UNCHANGED <<channels, faults>>
     \/ /\ Fault
        /\ Fails(a, None)
        /\ UNCHANGED channels
  /\ UNCHANGED <<hubVars, setup, connections, connection, publishChannel, consumeChannel,
                 flagVars, closer, published>>

InstallPublish(p) ==
  LET ch == task[p].channel IN
  /\ At(p, "install") /\ p # Listener
  /\ IF closing
     THEN /\ channels' = Without({ch})
          /\ Fails(p, None)
          /\ UNCHANGED publishChannel
     ELSE IF Open(publishChannel)
     THEN /\ channels' = Without({ch})
          /\ Hold(p, "send", publishChannel)
          /\ UNCHANGED publishChannel
     ELSE /\ publishChannel' = ch
          /\ Hold(p, "send", ch)
          /\ UNCHANGED channels
  /\ UNCHANGED <<hubVars, setup, connections, connection, consumeChannel, flagVars,
                 closer, faults, published>>

(* An event on the exchange carries the origin of the backplane that       *)
(* published it, a random number that no two processes share.              *)
Here == "here"
Elsewhere == "elsewhere"

Wire(from, e) == [origin |-> from, event |-> e]

(* The exchange puts an event into the queue of every consumer.            *)
Fanned(wire) ==
  [n \in DOMAIN channels |->
     IF channels[n].consumer
     THEN [channels[n] EXCEPT !.mail = Append(@, wire)] ELSE channels[n]]

(* PublishWithContext: an error does not say whether the broker has it.    *)
Send(p) ==
  LET ch == task[p].channel IN
  /\ At(p, "send")
  /\ \/ /\ Open(ch)
        /\ channels' = Fanned(Wire(Here, p))
        /\ End(p, "done")
        /\ UNCHANGED faults
     \/ /\ ~Open(ch)
        /\ Fails(p, ch)
        /\ UNCHANGED <<channels, faults>>
     \/ /\ Open(ch) /\ Fault
        /\ channels' \in {channels, Fanned(Wire(Here, p))}
        /\ Fails(p, ch)
  /\ UNCHANGED <<hubVars, setup, connections, connection, publishChannel, consumeChannel,
                 flagVars, closer, published>>

(* resetPublishChannel, and another try unless that was the second one or  *)
(* the backplane is closing.  Who failed without a channel resets whatever *)
(* channel there is.                                                       *)
Retry(p) ==
  LET failed == task[p].channel IN
  /\ At(p, "failed")
  /\ IF closing /\ task[p].tries = 0
     THEN End(p, "done") /\ UNCHANGED <<channels, publishChannel>>
     ELSE /\ IF task[p].tries = 0
             THEN task' = [task EXCEPT ![p] = [Idle("ensure") EXCEPT !.tries = 1]]
             ELSE End(p, "done")
          /\ IF publishChannel # None /\ failed \in {None, publishChannel}
             THEN /\ channels' = Without({publishChannel})
                  /\ publishChannel' = None
             ELSE UNCHANGED <<channels, publishChannel>>
  /\ UNCHANGED <<hubVars, setup, connections, connection, consumeChannel, flagVars,
                 closer, faults, published>>
-----------------------------------------------------------------------------
(* listen: another round, or the end.                                      *)
Check ==
  /\ At(Listener, "check")
  /\ Go(Listener, IF closing \/ canceled THEN "done" ELSE "live")
  /\ UNCHANGED <<hubVars, setup, linkVars, flagVars, closer, faults, published>>

InstallConsume ==
  LET ch == task[Listener].channel IN
  /\ At(Listener, "install")
  /\ IF closing
     THEN /\ channels' = Without({ch})
          /\ Fails(Listener, None)
          /\ UNCHANGED consumeChannel
     ELSE /\ channels' = Without({consumeChannel})
          /\ consumeChannel' = ch
          /\ Go(Listener, "forward")
  /\ UNCHANGED <<hubVars, setup, connections, connection, publishChannel, flagVars,
                 closer, faults, published>>

(* mutant: the origin of an event is not looked at.                        *)
NeverEcho(wire) == FALSE

IsEcho(wire) == wire.origin = Here

(* forward: an event of this process has been delivered already, and one   *)
(* of another process is offered to the subscribers.                       *)
Forward ==
  LET ch == task[Listener].channel
      wire == Head(channels[ch].mail)
  IN
  /\ At(Listener, "forward")
  /\ channels[ch].mail # <<>>
  /\ channels' = [channels EXCEPT ![ch].mail = Tail(@)]
  /\ IF IsEcho(wire) THEN UNCHANGED subscribers ELSE DeliverLocal(wire.event)
  /\ UNCHANGED <<hubClosed, setup, connections, connection, publishChannel,
                 consumeChannel, flagVars, task, closer, published, faults>>

(* forward returns when Close cancels, or when the channel of its          *)
(* deliveries is closed, as it is when nothing consumes any more; what it  *)
(* still had is lost.                                                      *)
ForwardEnds ==
  LET ch == task[Listener].channel IN
  /\ At(Listener, "forward")
  /\ canceled \/ ~channels[ch].consumer
  /\ Hold(Listener, "sleep", None)
  /\ channels' = [channels EXCEPT ![ch].mail = <<>>]
  /\ UNCHANGED <<hubVars, setup, connections, connection, publishChannel,
                 consumeChannel, flagVars, closer, faults, published>>

(* sleep, or none if the subscription lasted.                              *)
Sleep ==
  /\ At(Listener, "sleep")
  /\ End(Listener, IF canceled THEN "done" ELSE "check")
  /\ UNCHANGED <<hubVars, setup, linkVars, flagVars, closer, faults, published>>
-----------------------------------------------------------------------------
(* Close of the backplane, in the order of its statements.                 *)
Detach ==
  /\ closer = "open"
  /\ attached' = FALSE
  /\ closer' = "detached"
  /\ UNCHANGED <<hubVars, hasDialer, linkVars, flagVars, task, faults, published>>

CloseChannels ==
  /\ closer = "detached"
  /\ closing' = TRUE
  /\ channels' = Without({publishChannel, consumeChannel})
  /\ publishChannel' = None /\ consumeChannel' = None
  /\ closer' = "closing"
  /\ UNCHANGED <<hubVars, setup, connections, connection, reconnecting, canceled, task,
                 faults, published>>

Cancel ==
  /\ closer = "closing"
  /\ canceled' = TRUE
  /\ closer' = "waiting"
  /\ UNCHANGED <<hubVars, setup, linkVars, closing, reconnecting, task, faults, published>>

CloseConnection ==
  /\ closer = "waiting"
  /\ At(Listener, "done")
  /\ closer' = "closed"
  /\ LET owned == connections[connection].dialed IN
     /\ connections' = IF owned THEN [connections EXCEPT ![connection].open = FALSE]
                       ELSE connections
     /\ channels' = IF owned
                    THEN Without({n \in DOMAIN channels : channels[n].connection = connection})
                    ELSE channels
  /\ UNCHANGED <<hubVars, setup, connection, publishChannel, consumeChannel, flagVars,
                 task, faults, published>>
-----------------------------------------------------------------------------
(* The broker and the network.                                             *)
ConnectionBreaks ==
  /\ connections[connection].open
  /\ Fault
  /\ connections' = [connections EXCEPT ![connection].open = FALSE]
  /\ channels' = Without({n \in DOMAIN channels : channels[n].connection = connection})
  /\ UNCHANGED <<hubVars, setup, connection, publishChannel, consumeChannel, flagVars,
                 task, closer, published>>

ChannelBreaks ==
  /\ \E ch \in {publishChannel, consumeChannel} :
       /\ Open(ch)
       /\ channels' = Without({ch})
  /\ Fault
  /\ UNCHANGED <<hubVars, setup, connections, connection, publishChannel, consumeChannel,
                 flagVars, task, closer, published>>

(* The broker cancels the consumer, and its channel stays open.            *)
ConsumerCanceled ==
  /\ consumeChannel # None /\ channels[consumeChannel].consumer
  /\ channels' = [channels EXCEPT ![consumeChannel].consumer = FALSE]
  /\ Fault
  /\ UNCHANGED <<hubVars, setup, connections, connection, publishChannel, consumeChannel,
                 flagVars, task, closer, published>>

(* Another process publishes.  (A second try there is another publication.)*)
PublishElsewhere(e) ==
  /\ e \notin published
  /\ published' = published \cup {e}
  /\ channels' = Fanned(Wire(Elsewhere, e))
  /\ UNCHANGED <<hubVars, setup, connections, connection, publishChannel, consumeChannel,
                 flagVars, task, closer, faults>>

Act(a) == LiveConnection(a) \/ Dial(a) \/ Dialed(a) \/ OpenChannel(a)

Publish(p) ==
  Broadcast(p) \/ Replicate(p) \/ EnsureChannel(p) \/ Act(p)
    \/ InstallPublish(p) \/ Send(p) \/ Retry(p)

Listen ==
  Check \/ Act(Listener) \/ InstallConsume \/ Forward \/ ForwardEnds \/ Sleep

Close == Detach \/ CloseChannels \/ Cancel \/ CloseConnection

Next ==
  \/ \E s \in Subscriber : Subscribe(s) \/ Unsubscribe(s)
  \/ Shutdown
  \/ \E p \in Publisher : Publish(p)
  \/ Listen
  \/ Close
  \/ ConnectionBreaks \/ ChannelBreaks \/ ConsumerCanceled
  \/ \E e \in Foreign : PublishElsewhere(e)

(* Goroutines run on; Close is called or not, and goes on once called.     *)
Spec ==
  /\ Init /\ [][Next]_vars
  /\ \A p \in Publisher : WF_vars(Publish(p))
  /\ WF_vars(Listen)
  /\ WF_vars(CloseChannels \/ Cancel \/ CloseConnection)
-----------------------------------------------------------------------------
(* A channel in the map is open: the hub neither sends to a closed one nor *)
(* closes it again when its stream ends after Shutdown; either would panic.*)
OpenWhileListed == \A s \in Subscriber : subscribers[s].listed => subscribers[s].open

(* A subscriber hears an event of its own process once, although the       *)
(* exchange sends it back, maybe twice after a retry, and an event of      *)
(* another process once for each time that process published it, although  *)
(* the listener subscribes again while events are on their way.            *)
HeardOnce == \A s \in Subscriber, e \in Event : subscribers[s].heard[e] <= 1

(* When Close has returned and no publisher is under way, every connection *)
(* the backplane dialed and every channel it opened is closed.             *)
NothingLeftOpen ==
  closer = "closed" /\ (\A p \in Publisher : At(p, "done")) =>
    /\ \A n \in DOMAIN connections : connections[n].dialed => ~connections[n].open
    /\ \A n \in DOMAIN channels : ~channels[n].open

(* Close returns, even if the dialer never does.                           *)
CloseReturns == closer = "detached" ~> closer = "closed"

(* However the connection and the channels break, the listener ends up     *)
(* consuming again, unless it is closed, has no dialer, or a dialer hangs. *)
Listening ==
  At(Listener, "forward") /\ channels[task[Listener].channel].consumer

ListensAgain ==
  <>[](Listening \/ closer # "open" \/ (At(Listener, "done") /\ ~hasDialer)
       \/ \E a \in Actor : At(a, "hung"))
=============================================================================
