---------------------- MODULE ServerSentEventHubProofs ----------------------
(* What the hub and its backplane keep, for any publishers, subscribers    *)
(* and number of faults.                                                   *)
EXTENDS ServerSentEventHub, TLAPS

USE HubAssumption

Subscription == [listed : BOOLEAN, open : BOOLEAN, heard : [Event -> Nat]]
Connection == [open : BOOLEAN, dialed : BOOLEAN]

(* An event on the exchange, with the origin it really has.                *)
Wires == {w \in [origin : {Here, Elsewhere}, event : Event] :
            IsEcho(w) <=> w.event \in Publisher}

Channel == [connection : Nat, open : BOOLEAN, mail : Seq(Wires), consumer : BOOLEAN]

Steps == {"broadcast", "replicate", "ensure", "live", "dial", "hung", "dialed", "open", "install",
          "send", "failed", "check", "forward", "sleep", "done"}
Task == [at : Steps, tries : 0..1, connection : Nat, channel : Nat]

HubType == subscribers \in [Subscriber -> Subscription]

LinkType ==
  /\ task \in [Actor -> Task]
  /\ connections \in Seq(Connection) /\ connection \in DOMAIN connections
  /\ channels \in Seq(Channel) /\ publishChannel \in Nat /\ consumeChannel \in Nat
  /\ closing \in BOOLEAN /\ reconnecting \in BOOLEAN /\ canceled \in BOOLEAN
  /\ closer \in {"open", "detached", "closing", "waiting", "closed"}
  /\ \A a \in Actor : task[a].connection \in {None} \cup DOMAIN connections

(* Who has not broadcast yet has not been heard.                           *)
NotYetHeard ==
  \A p \in Publisher : At(p, "broadcast") => \A s \in Subscriber : subscribers[s].heard[p] = 0

(* The listener reads the deliveries of its channel, or is about to.       *)
Reading == task[Listener].at \in {"install", "forward"}

InMail(mail, e) == \E i \in DOMAIN mail : mail[i].event = e
OnceIn(mail, e) == \A i, j \in DOMAIN mail : mail[i].event = e /\ mail[j].event = e => i = j

(* A channel holds an event of another process once, when that was         *)
(* published; and the listener has before it none that has been heard.     *)
DeliveredOnce ==
  /\ Reading => task[Listener].channel \in DOMAIN channels
  /\ \A e \in Foreign :
       /\ \A n \in DOMAIN channels :
            OnceIn(channels[n].mail, e) /\ (InMail(channels[n].mail, e) => e \in published)
       /\ \A s \in Subscriber : subscribers[s].heard[e] > 0 =>
            /\ e \in published
            /\ Reading => ~InMail(channels[task[Listener].channel].mail, e)

(* One actor at a time dials, and only while there is no connection.       *)
Dialing(a) == task[a].at \in {"dial", "hung", "dialed"}

OneDialer ==
  \A a \in Actor : Dialing(a) =>
    /\ reconnecting /\ ~connections[connection].open
    /\ \A b \in Actor : Dialing(b) => b = a

(* An open connection that was dialed is the one in use, or is about to be.*)
ConnectionsOwned ==
  \A n \in DOMAIN connections : connections[n].open /\ connections[n].dialed =>
    n = connection \/ \E a \in Actor : At(a, "dialed") /\ task[a].connection = n

(* An open channel is in use, or somebody is about to install it.          *)
ChannelsOwned ==
  \A n \in DOMAIN channels : channels[n].open =>
    \/ n \in {publishChannel, consumeChannel}
    \/ \E a \in Actor : At(a, "install") /\ task[a].channel = n

(* Close leaves no channel in use, and then no connection.                 *)
ClosesInOrder ==
  /\ closing => publishChannel = None /\ consumeChannel = None
  /\ closer \in {"closing", "waiting", "closed"} => closing
  /\ closer = "closed" =>
       /\ At(Listener, "done")
       /\ ~(connections[connection].open /\ connections[connection].dialed)

Hub == HubType /\ OpenWhileListed /\ HeardOnce /\ NotYetHeard /\ DeliveredOnce

Links == LinkType /\ OneDialer /\ ConnectionsOwned /\ ChannelsOwned /\ ClosesInOrder
-----------------------------------------------------------------------------
(* What a step does to the task of its actor.                              *)
LEMMA GoMoves ==
  ASSUME task \in [Actor -> Task], NEW a \in Actor, NEW step \in Steps, Go(a, step)
  PROVE  /\ task' \in [Actor -> Task] /\ task'[a].at = step
         /\ task'[a].connection = task[a].connection /\ task'[a].channel = task[a].channel
         /\ \A b \in Actor : b # a => task'[b] = task[b]
BY DEF Go, Task

LEMMA HoldMoves ==
  ASSUME task \in [Actor -> Task], NEW a \in Actor, NEW step \in Steps, NEW ch \in Nat,
         Hold(a, step, ch)
  PROVE  /\ task' \in [Actor -> Task] /\ task'[a].at = step
         /\ task'[a].connection = None /\ task'[a].channel = ch
         /\ \A b \in Actor : b # a => task'[b] = task[b]
BY DEF Hold, Task, None

LEMMA EndMoves ==
  ASSUME task \in [Actor -> Task], NEW a \in Actor, NEW step \in Steps, End(a, step)
  PROVE  /\ task' \in [Actor -> Task] /\ task'[a].at = step
         /\ task'[a].connection = None /\ task'[a].channel = None
         /\ \A b \in Actor : b # a => task'[b] = task[b]
BY DEF End, Idle, Task, None

LEMMA FailsMoves ==
  ASSUME task \in [Actor -> Task], NEW a \in Actor, NEW ch \in Nat, Fails(a, ch)
  PROVE  /\ task' \in [Actor -> Task] /\ task'[a].at \in {"sleep", "failed"}
         /\ task'[a].connection = None /\ task'[a].channel = ch
         /\ \A b \in Actor : b # a => task'[b] = task[b]
<1>1. \E step \in {"sleep", "failed"} : Hold(a, step, ch)
  BY DEF Fails
<1>2. PICK step \in {"sleep", "failed"} : Hold(a, step, ch)
  BY <1>1
<1> QED BY <1>2, HoldMoves DEF Steps

LEMMA WireTypes ==
  /\ \A p \in Publisher : Wire(Here, p) \in Wires /\ Wire(Here, p).event = p
  /\ \A e \in Foreign : Wire(Elsewhere, e) \in Wires /\ Wire(Elsewhere, e).event = e
<1>1. Here # Elsewhere
  BY DEF Here, Elsewhere
<1> QED BY <1>1 DEF Wire, Wires, IsEcho, Event

(* What happens to the channels and connections.                           *)
LEMMA WithoutType ==
  ASSUME channels \in Seq(Channel), NEW ended
  PROVE  /\ Without(ended) \in Seq(Channel) /\ DOMAIN Without(ended) = DOMAIN channels
         /\ \A n \in DOMAIN channels :
              /\ Without(ended)[n].open <=> channels[n].open /\ n \notin ended
              /\ Without(ended)[n].mail = channels[n].mail
<1>1. \A n \in DOMAIN channels : channels[n] \in Channel
  OBVIOUS
<1>2. \A n \in DOMAIN channels :
        /\ Without(ended)[n] \in Channel
        /\ Without(ended)[n].open <=> channels[n].open /\ n \notin ended
        /\ Without(ended)[n].mail = channels[n].mail
  BY <1>1 DEF Without, Channel, None
<1>3. DOMAIN Without(ended) = 1 .. Len(channels) /\ Len(channels) \in Nat
  BY DEF Without
<1>4. Without(ended) \in [1 .. Len(channels) -> Channel]
  BY <1>2, <1>3 DEF Without
<1>5. Without(ended) \in Seq(Channel)
  BY <1>3, <1>4
<1> QED BY <1>2, <1>3, <1>5

LEMMA FannedType ==
  ASSUME channels \in Seq(Channel), NEW e \in Wires
  PROVE  /\ Fanned(e) \in Seq(Channel) /\ DOMAIN Fanned(e) = DOMAIN channels
         /\ \A n \in DOMAIN channels : Fanned(e)[n].open <=> channels[n].open
<1>1. \A n \in DOMAIN channels : channels[n] \in Channel
  OBVIOUS
<1>2. ASSUME NEW n \in DOMAIN channels
      PROVE  Fanned(e)[n] \in Channel /\ (Fanned(e)[n].open <=> channels[n].open)
  <2>1. Append(channels[n].mail, e) \in Seq(Wires)
    BY <1>1 DEF Channel
  <2> QED BY <1>1, <2>1 DEF Fanned, Channel
<1>3. DOMAIN Fanned(e) = 1 .. Len(channels) /\ Len(channels) \in Nat
  BY DEF Fanned
<1>4. Fanned(e) \in [1 .. Len(channels) -> Channel]
  BY <1>2, <1>3 DEF Fanned
<1>5. Fanned(e) \in Seq(Channel)
  BY <1>3, <1>4
<1> QED BY <1>2, <1>3, <1>5

(* The mail of one channel changes.                                        *)
LEMMA MailType ==
  ASSUME channels \in Seq(Channel), NEW ch, NEW mail \in Seq(Wires),
         channels' = [channels EXCEPT ![ch].mail = mail]
  PROVE  /\ channels' \in Seq(Channel) /\ DOMAIN channels' = DOMAIN channels
         /\ \A n \in DOMAIN channels : channels'[n].open <=> channels[n].open
<1>1. \A n \in DOMAIN channels : channels[n] \in Channel
  OBVIOUS
<1>2. \A n \in DOMAIN channels : channels'[n] \in Channel /\ (channels'[n].open <=> channels[n].open)
  BY <1>1 DEF Channel
<1>3. DOMAIN channels' = 1 .. Len(channels) /\ Len(channels) \in Nat
  OBVIOUS
<1>4. channels' \in [1 .. Len(channels) -> Channel]
  BY <1>2, <1>3
<1>5. channels' \in Seq(Channel)
  BY <1>3, <1>4
<1> QED BY <1>2, <1>3, <1>5

(* One more thing, or one in the place of another that was closed.         *)
Placed(T, things, used, n, x) ==
  LET after == With(things, n, x) IN
  /\ after \in Seq(T) /\ n \in Nat \ {0}
  /\ DOMAIN after = DOMAIN things \cup {n} /\ after[n] = x
  /\ \A m \in DOMAIN things : m # n => after[m] = things[m]
  /\ n \in DOMAIN things => ~things[n].open
  /\ n \notin used \cap DOMAIN things

LEMMA WithPlaces ==
  ASSUME NEW T, NEW things \in Seq(T), NEW used, NEW x \in T, NEW n, n = NewIn(things, used)
  PROVE  Placed(T, things, used, n, x)
<1> DEFINE free == {m \in DOMAIN things : ~things[m].open /\ m \notin used}
<1>1. /\ free # {} => n \in free
      /\ free = {} => n = Len(things) + 1
  BY DEF NewIn
<1>2. Len(things) \in Nat /\ DOMAIN things = 1 .. Len(things)
  OBVIOUS
<1>3. CASE free # {}
  <2>1. n \in DOMAIN things /\ ~things[n].open /\ n \notin used
    BY <1>1, <1>3
  <2>2. With(things, n, x) = [things EXCEPT ![n] = x]
    BY <2>1 DEF With
  <2> QED BY <1>2, <2>1, <2>2 DEF Placed
<1>4. CASE free = {}
  <2>1. n = Len(things) + 1 /\ n \notin DOMAIN things
    BY <1>1, <1>2, <1>4
  <2>2. With(things, n, x) = Append(things, x)
    BY <2>1 DEF With
  <2>3. /\ Append(things, x) \in Seq(T)
        /\ DOMAIN Append(things, x) = 1 .. Len(things) + 1
        /\ Append(things, x)[Len(things) + 1] = x
        /\ \A m \in 1 .. Len(things) : Append(things, x)[m] = things[m]
    BY <1>2
  <2>4. /\ With(things, n, x) \in Seq(T) /\ With(things, n, x)[n] = x
        /\ \A m \in DOMAIN things : m # n => With(things, n, x)[m] = things[m]
    BY <1>2, <2>1, <2>2, <2>3
  <2>5. DOMAIN With(things, n, x) = DOMAIN things \cup {n}
    <3>1. 1 .. Len(things) + 1 = (1 .. Len(things)) \cup {Len(things) + 1}
      BY <1>2
    <3> QED BY <1>2, <2>1, <2>2, <2>3, <3>1
  <2>6. n \in Nat \ {0}
    BY <1>2, <2>1
  <2> QED BY <2>1, <2>4, <2>5, <2>6 DEF Placed
<1> QED BY <1>3, <1>4

-----------------------------------------------------------------------------
(* A step that dials nothing and leaves the connections alone.             *)
LEMMA OwnedStill ==
  ASSUME ChannelsOwned, DOMAIN channels' = DOMAIN channels,
         \A n \in DOMAIN channels : channels'[n].open =>
           /\ channels[n].open
           /\ n \in {publishChannel, consumeChannel} => n \in {publishChannel', consumeChannel'}
           /\ \A b \in Actor : At(b, "install") /\ task[b].channel = n =>
                \/ task'[b].at = "install" /\ task'[b].channel = n
                \/ n \in {publishChannel', consumeChannel'}
  PROVE  ChannelsOwned'
BY DEF ChannelsOwned, At

LEMMA LinksStill ==
  ASSUME Links, task' \in [Actor -> Task], channels' \in Seq(Channel),
         publishChannel' \in Nat, consumeChannel' \in Nat, canceled' \in BOOLEAN,
         UNCHANGED <<connections, connection, closing, reconnecting, closer>>,
         closing => publishChannel' = None /\ consumeChannel' = None,
         NEW a \in Actor, \A b \in Actor : b # a => task'[b] = task[b],
         task'[a].connection \in {None} \cup DOMAIN connections,
         task' # task => task[a].at \notin {"dial", "hung", "dialed", "done"}
                           /\ task'[a].at \notin {"dial", "hung", "dialed"},
         ChannelsOwned'
  PROVE  Links'
<1>1. \A b \in Actor : At(b, "dialed") => task'[b] = task[b]
  BY DEF At
<1>2. \A b \in Actor : task'[b].at \in {"dial", "hung", "dialed"} <=> Dialing(b)
  BY DEF Dialing
<1>3. At(Listener, "done") => task'[Listener] = task[Listener]
  BY DEF At, Actor
<1>4. LinkType'
  BY DEF Links, LinkType
<1>5. OneDialer'
  BY <1>2 DEF Links, OneDialer, Dialing
<1>6. ConnectionsOwned'
  BY <1>1 DEF Links, ConnectionsOwned, At
<1>7. ClosesInOrder'
  BY <1>3 DEF Links, ClosesInOrder, At
<1> QED BY <1>4, <1>5, <1>6, <1>7 DEF Links

(* A step of an actor that is not about to install a channel, and that     *)
(* leaves everything else of the backplane alone.                          *)
LEMMA OnlyTheTask ==
  ASSUME Links, NEW a \in Actor, ~At(a, "install"),
         task' \in [Actor -> Task], \A b \in Actor : b # a => task'[b] = task[b],
         task'[a].connection \in {None} \cup DOMAIN connections,
         task' # task => task[a].at \notin {"dial", "hung", "dialed", "done"}
                           /\ task'[a].at \notin {"dial", "hung", "dialed"},
         UNCHANGED <<linkVars, closing, reconnecting, closer>>, canceled' \in BOOLEAN
  PROVE  Links'
<1>1. ChannelsOwned'
  BY OwnedStill DEF Links, At, linkVars
<1> QED BY <1>1, LinksStill DEF Links, LinkType, ClosesInOrder, linkVars

LEMMA TaskConnection ==
  ASSUME LinkType, NEW a \in Actor
  PROVE  task[a].connection \in {None} \cup DOMAIN connections
BY DEF LinkType

LEMMA QuietSteps ==
  ASSUME Links, NEW p \in Publisher,
         Broadcast(p) \/ Replicate(p) \/ EnsureChannel(p)
  PROVE  Links'
<1>1. task \in [Actor -> Task] /\ publishChannel \in Nat /\ canceled \in BOOLEAN
  BY DEF Links, LinkType
<1>2. p \in Actor /\ None \in Nat
  BY DEF Actor, None
<1>3. \A a \in Actor : task[a].connection \in {None} \cup DOMAIN connections
  BY TaskConnection DEF Links
<1>4. ASSUME Broadcast(p) PROVE Links'
  <2>1. At(p, "broadcast") /\ Go(p, "replicate") /\ UNCHANGED <<linkVars, flagVars, closer>>
    BY <1>4 DEF Broadcast
  <2>2. "replicate" \in Steps
    BY DEF Steps
  <2>3. /\ task' \in [Actor -> Task] /\ task'[p].at = "replicate"
        /\ task'[p].connection = task[p].connection
        /\ \A b \in Actor : b # p => task'[b] = task[b]
    BY <1>1, <1>2, <2>1, <2>2, GoMoves
  <2> QED BY <1>1, <1>2, <1>3, <2>1, <2>3, OnlyTheTask DEF At, flagVars
<1>5. ASSUME Replicate(p) PROVE Links'
  <2>1. /\ At(p, "replicate") /\ UNCHANGED <<linkVars, flagVars, closer>>
        /\ \E step \in {"done", "ensure"} : Go(p, step)
    BY <1>5 DEF Replicate
  <2>2. PICK step \in {"done", "ensure"} : Go(p, step)
    BY <2>1
  <2>3. step \in Steps
    BY DEF Steps
  <2>4. /\ task' \in [Actor -> Task] /\ task'[p].at = step
        /\ task'[p].connection = task[p].connection
        /\ \A b \in Actor : b # p => task'[b] = task[b]
    BY <1>1, <1>2, <2>2, <2>3, GoMoves
  <2> QED BY <1>1, <1>2, <1>3, <2>1, <2>4, OnlyTheTask DEF At, flagVars
<1>6. ASSUME EnsureChannel(p) PROVE Links'
  <2>1. /\ At(p, "ensure") /\ UNCHANGED <<linkVars, flagVars, closer>>
        /\ \/ Fails(p, None)
           \/ \E step \in {"send", "live"}, ch \in Nat : Hold(p, step, ch)
    BY <1>1, <1>2, <1>6 DEF EnsureChannel
  <2>2. /\ task' \in [Actor -> Task] /\ task'[p].at \in {"sleep", "failed", "send", "live"}
        /\ task'[p].connection = None
        /\ \A b \in Actor : b # p => task'[b] = task[b]
    <3>1. CASE Fails(p, None)
      BY <1>1, <1>2, <3>1, FailsMoves
    <3>2. CASE \E step \in {"send", "live"}, ch \in Nat : Hold(p, step, ch)
      <4>1. PICK step \in {"send", "live"}, ch \in Nat : Hold(p, step, ch)
        BY <3>2
      <4>2. step \in Steps
        BY DEF Steps
      <4> QED BY <1>1, <1>2, <4>1, <4>2, HoldMoves
    <3> QED BY <2>1, <3>1, <3>2
  <2> QED BY <1>1, <1>2, <2>1, <2>2, OnlyTheTask DEF At, flagVars
<1> QED BY <1>4, <1>5, <1>6

LEMMA QuietListener ==
  ASSUME Links, Check \/ Sleep
  PROVE  Links'
<1>1. task \in [Actor -> Task] /\ canceled \in BOOLEAN
  BY DEF Links, LinkType
<1>2. Listener \in Actor
  BY DEF Actor
<1>3. \A a \in Actor : task[a].connection \in {None} \cup DOMAIN connections
  BY TaskConnection DEF Links
<1>4. ASSUME Check PROVE Links'
  <2>1. /\ At(Listener, "check") /\ UNCHANGED <<linkVars, flagVars, closer>>
        /\ \E step \in {"done", "live"} : Go(Listener, step)
    BY <1>4 DEF Check
  <2>2. PICK step \in {"done", "live"} : Go(Listener, step)
    BY <2>1
  <2>3. step \in Steps
    BY DEF Steps
  <2>4. /\ task' \in [Actor -> Task] /\ task'[Listener].at = step
        /\ task'[Listener].connection = task[Listener].connection
        /\ \A b \in Actor : b # Listener => task'[b] = task[b]
    BY <1>1, <1>2, <2>2, <2>3, GoMoves
  <2> QED BY <1>1, <1>2, <1>3, <2>1, <2>4, OnlyTheTask DEF At, flagVars
<1>5. ASSUME Sleep PROVE Links'
  <2>1. /\ At(Listener, "sleep") /\ UNCHANGED <<linkVars, flagVars, closer>>
        /\ \E step \in {"done", "check"} : End(Listener, step)
    BY <1>5 DEF Sleep
  <2>2. PICK step \in {"done", "check"} : End(Listener, step)
    BY <2>1
  <2>3. step \in Steps
    BY DEF Steps
  <2>4. /\ task' \in [Actor -> Task] /\ task'[Listener].at = step
        /\ task'[Listener].connection = None
        /\ \A b \in Actor : b # Listener => task'[b] = task[b]
    BY <1>1, <1>2, <2>2, <2>3, EndMoves
  <2> QED BY <1>1, <1>2, <2>1, <2>4, OnlyTheTask DEF At, flagVars
<1> QED BY <1>4, <1>5
-----------------------------------------------------------------------------
LEMMA LiveConnectionLinks ==
  ASSUME Links, NEW a \in Actor, LiveConnection(a)
  PROVE  Links'
<1>1. task \in [Actor -> Task] /\ canceled \in BOOLEAN /\ None \in Nat
  BY DEF Links, LinkType, None
<1>2. At(a, "live") /\ UNCHANGED <<linkVars, closing, canceled, closer>>
  BY DEF LiveConnection
<1>3. CASE ~Go(a, "dial")
  <2>1. /\ UNCHANGED reconnecting
        /\ \/ Fails(a, None)
           \/ Go(a, "done")
           \/ task' = [task EXCEPT ![a].at = "open", ![a].connection = connection]
    BY <1>3 DEF LiveConnection
  <2>2. /\ task' \in [Actor -> Task] /\ task'[a].at \in {"sleep", "failed", "done", "open"}
        /\ task'[a].connection \in {None} \cup DOMAIN connections
        /\ \A b \in Actor : b # a => task'[b] = task[b]
    <3>1. CASE Fails(a, None)
      BY <1>1, <3>1, FailsMoves
    <3>2. CASE Go(a, "done")
      <4>1. "done" \in Steps
        BY DEF Steps
      <4> QED BY <1>1, <3>2, <4>1, GoMoves, TaskConnection DEF Links
    <3>3. CASE task' = [task EXCEPT ![a].at = "open", ![a].connection = connection]
      <4>1. connection \in DOMAIN connections /\ connection \in Nat /\ "open" \in Steps
        BY DEF Links, LinkType, Steps
      <4> QED BY <1>1, <3>3, <4>1 DEF Task
    <3> QED BY <2>1, <3>1, <3>2, <3>3
  <2> QED BY <1>1, <1>2, <2>1, <2>2, OnlyTheTask DEF At
<1>4. CASE Go(a, "dial")
  <2>1. "dial" \in Steps
    BY DEF Steps
  <2>2. /\ task' \in [Actor -> Task] /\ task'[a].at = "dial"
        /\ task'[a].connection = task[a].connection
        /\ \A b \in Actor : b # a => task'[b] = task[b]
    BY <1>1, <1>4, <2>1, GoMoves
  <2>3. reconnecting' = TRUE /\ ~reconnecting /\ ~connections[connection].open
    <3>1. ~Fails(a, None) /\ ~Go(a, "done")
          /\ task' # [task EXCEPT ![a].at = "open", ![a].connection = connection]
      <4>1. task'[a].at \notin {"sleep", "failed", "done", "open"}
        BY <2>2
      <4>2. Fails(a, None) => task'[a].at \in {"sleep", "failed"}
        BY <1>1, FailsMoves
      <4>3. "done" \in Steps
        BY DEF Steps
      <4>4. Go(a, "done") => task'[a].at = "done"
        BY <1>1, <4>3, GoMoves
      <4>5. [task EXCEPT ![a].at = "open", ![a].connection = connection][a].at = "open"
        BY <1>1 DEF Task
      <4> QED BY <4>1, <4>2, <4>4, <4>5
    <3> QED BY <3>1 DEF LiveConnection, Links, LinkType
  <2>4. \A b \in Actor : ~Dialing(b)
    BY <2>3 DEF Links, OneDialer
  <2>5. LinkType'
    BY <1>2, <2>2, <2>3 DEF Links, LinkType, linkVars
  <2>6. OneDialer'
    BY <1>2, <2>2, <2>3, <2>4 DEF OneDialer, Dialing, linkVars
  <2>7. ConnectionsOwned'
    BY <1>2, <2>2, <2>4 DEF Links, ConnectionsOwned, Dialing, At, linkVars
  <2>8. ChannelsOwned'
    BY <1>2, <2>2, OwnedStill DEF Links, At, linkVars
  <2>9. ClosesInOrder'
    BY <1>2, <2>2 DEF Links, ClosesInOrder, At, linkVars, Actor
  <2> QED BY <2>5, <2>6, <2>7, <2>8, <2>9 DEF Links
<1> QED BY <1>3, <1>4

(* The dialer gives a connection that nobody else has, or none.            *)
LEMMA DialLinks ==
  ASSUME Links, NEW a \in Actor, Dial(a)
  PROVE  Links'
<1>1. task \in [Actor -> Task] /\ connections \in Seq(Connection)
      /\ connection \in DOMAIN connections /\ None \in Nat
  BY DEF Links, LinkType, None
<1>2. At(a, "dial") \/ At(a, "hung")
  BY DEF Dial
<1>3. UNCHANGED <<connection, channels, publishChannel, consumeChannel, flagVars, closer>>
  BY DEF Dial
<1>4. Dialing(a) /\ \A b \in Actor : Dialing(b) => b = a
  BY <1>2 DEF Links, OneDialer, Dialing, At
<1>5. \/ /\ \E end \in {"dialed", "hung"} :
              task' = [task EXCEPT ![a].at = end, ![a].connection = None]
         /\ UNCHANGED connections
      \/ /\ task' = [task EXCEPT ![a].at = "dialed", ![a].connection = NewConnection]
         /\ connections' = With(connections, NewConnection, [open |-> TRUE, dialed |-> TRUE])
  BY DEF Dial
<1>6. /\ task' \in [Actor -> Task] /\ task'[a].at \in {"dialed", "hung"}
      /\ connections' \in Seq(Connection) /\ DOMAIN connections \subseteq DOMAIN connections'
      /\ task'[a].connection \in {None} \cup DOMAIN connections'
      /\ \A b \in Actor : b # a => task'[b] = task[b]
      /\ connections'[connection] = connections[connection]
      /\ \A n \in DOMAIN connections' :
           \/ n \in DOMAIN connections /\ connections'[n] = connections[n]
           \/ task'[a].at = "dialed" /\ task'[a].connection = n
  <2>1. CASE /\ \E end \in {"dialed", "hung"} :
                   task' = [task EXCEPT ![a].at = end, ![a].connection = None]
             /\ UNCHANGED connections
    <3>1. PICK end \in {"dialed", "hung"} :
            task' = [task EXCEPT ![a].at = end, ![a].connection = None]
      BY <2>1
    <3>2. end \in Steps
      BY DEF Steps
    <3>3. task' \in [Actor -> Task] /\ task'[a].at = end /\ task'[a].connection = None
          /\ \A b \in Actor : b # a => task'[b] = task[b]
      BY <1>1, <3>1, <3>2 DEF Task
    <3> QED BY <1>1, <2>1, <3>3
  <2>2. CASE /\ task' = [task EXCEPT ![a].at = "dialed", ![a].connection = NewConnection]
             /\ connections' = With(connections, NewConnection, [open |-> TRUE, dialed |-> TRUE])
    <3> DEFINE n == NewConnection
               used == {connection} \cup {task[b].connection : b \in Actor}
    <3>1. /\ connections' \in Seq(Connection) /\ n \in Nat \ {0}
          /\ DOMAIN connections' = DOMAIN connections \cup {n}
          /\ \A m \in DOMAIN connections : m # n => connections'[m] = connections[m]
          /\ n \notin used \cap DOMAIN connections
      <4> DEFINE new == [open |-> TRUE, dialed |-> TRUE]
      <4>1. n = NewIn(connections, used) /\ connections' = With(connections, n, new)
        BY <2>2 DEF NewConnection
      <4>2. new \in Connection
        BY DEF Connection
      <4> HIDE DEF n, used, new
      <4>3. Placed(Connection, connections, used, n, new)
        BY <1>1, <4>1, <4>2, WithPlaces
      <4> QED BY <4>1, <4>3 DEF Placed
    <3> HIDE DEF n
    <3>2. connection # n
      BY <1>1, <3>1 DEF used
    <3>3. "dialed" \in Steps /\ task' = [task EXCEPT ![a].at = "dialed", ![a].connection = n]
      BY <2>2 DEF Steps, n
    <3>4. task' \in [Actor -> Task] /\ task'[a].at = "dialed" /\ task'[a].connection = n
          /\ \A b \in Actor : b # a => task'[b] = task[b]
      BY <1>1, <3>1, <3>3 DEF Task
    <3> QED BY <1>1, <3>1, <3>2, <3>4
  <2> QED BY <1>5, <2>1, <2>2
<1>7. LinkType'
  <2>1. \A b \in Actor : task'[b].connection \in {None} \cup DOMAIN connections'
    BY <1>6 DEF Links, LinkType
  <2> QED BY <1>1, <1>3, <1>6, <2>1 DEF Links, LinkType, flagVars
<1>8. OneDialer'
  BY <1>3, <1>4, <1>6 DEF Links, OneDialer, Dialing, flagVars
<1>9. ConnectionsOwned'
  <2>1. \A b \in Actor : ~At(b, "dialed")
    BY <1>2, <1>4 DEF At, Dialing
  <2> QED BY <1>3, <1>6, <2>1 DEF Links, ConnectionsOwned, At
<1>10. ChannelsOwned'
  BY <1>2, <1>3, <1>6, OwnedStill DEF Links, At
<1>11. ClosesInOrder'
  BY <1>2, <1>3, <1>6 DEF Links, ClosesInOrder, At, flagVars, Actor
<1> QED BY <1>7, <1>8, <1>9, <1>10, <1>11 DEF Links

(* A connection that was dialed replaces the broken one, unless Close came.*)
LEMMA DialedLinks ==
  ASSUME Links, NEW a \in Actor, Dialed(a)
  PROVE  Links'
<1> DEFINE new == task[a].connection
<1>1. /\ task \in [Actor -> Task] /\ None \in Nat /\ connections \in Seq(Connection)
      /\ connection \in DOMAIN connections /\ channels \in Seq(Channel)
      /\ new \in {None} \cup DOMAIN connections
      /\ DOMAIN connections \subseteq Nat
  BY DEF Links, LinkType, None
<1>2. At(a, "dialed") /\ reconnecting' = FALSE /\ UNCHANGED <<closing, canceled, closer>>
  BY DEF Dialed
<1>3. Dialing(a) /\ \A b \in Actor : Dialing(b) => b = a
  BY <1>2 DEF Links, OneDialer, Dialing, At
<1>4. ~connections[connection].open
  BY <1>3 DEF Links, OneDialer
<1>5. \/ /\ new = None /\ Fails(a, None) /\ UNCHANGED linkVars
      \/ /\ new # None /\ closing /\ Fails(a, None)
         /\ connections' = [connections EXCEPT ![new].open = FALSE]
         /\ UNCHANGED <<connection, channels, publishChannel, consumeChannel>>
      \/ /\ new # None /\ ~closing /\ Go(a, "open") /\ UNCHANGED connections
         /\ connection' = new /\ channels' = Without({publishChannel, consumeChannel})
         /\ publishChannel' = None /\ consumeChannel' = None
  BY DEF Dialed
<1>6. /\ task' \in [Actor -> Task] /\ task'[a].at \in {"sleep", "failed", "open"}
      /\ task'[a].connection \in {None, new}
      /\ \A b \in Actor : b # a => task'[b] = task[b]
  <2>1. CASE Fails(a, None)
    BY <1>1, <2>1, FailsMoves
  <2>2. CASE Go(a, "open")
    <3>1. "open" \in Steps
      BY DEF Steps
    <3> QED BY <1>1, <2>2, <3>1, GoMoves
  <2> QED BY <1>5, <2>1, <2>2
<1>7. \A b \in Actor : task'[b].at \notin {"dial", "hung", "dialed"}
  BY <1>3, <1>6 DEF Dialing
<1>8. OneDialer'
  BY <1>7 DEF OneDialer, Dialing
<1>9. At(Listener, "done") => task'[Listener].at = "done"
  BY <1>2, <1>6 DEF At, Actor
<1>10. \A n \in DOMAIN connections : connections[n] \in Connection
  BY <1>1
<1>11. \A n \in DOMAIN connections : connections[n].open /\ connections[n].dialed => n = new
  BY <1>3, <1>4 DEF Links, ConnectionsOwned, Dialing, At
<1>12. \A b \in Actor : task'[b].connection \in {None} \cup DOMAIN connections
  BY <1>1, <1>6, TaskConnection DEF Links
<1>13. ASSUME new = None, Fails(a, None), UNCHANGED linkVars PROVE Links'
  <2>1. LinkType'
    BY <1>2, <1>6, <1>12, <1>13 DEF Links, LinkType, linkVars
  <2>2. ConnectionsOwned'
    <3>1. \A n \in DOMAIN connections : ~(connections[n].open /\ connections[n].dialed)
      BY <1>1, <1>11, <1>13 DEF None
    <3> QED BY <1>13, <3>1 DEF ConnectionsOwned, linkVars
  <2>3. ChannelsOwned'
    BY <1>2, <1>6, <1>13, OwnedStill DEF Links, At, linkVars
  <2>4. ClosesInOrder'
    BY <1>2, <1>4, <1>9, <1>13 DEF Links, ClosesInOrder, At, linkVars
  <2> QED BY <1>8, <2>1, <2>2, <2>3, <2>4 DEF Links
<1>14. ASSUME new # None, closing, Fails(a, None),
              connections' = [connections EXCEPT ![new].open = FALSE],
              UNCHANGED <<connection, channels, publishChannel, consumeChannel>>
       PROVE  Links'
  <2>1. /\ DOMAIN connections' = DOMAIN connections
        /\ \A n \in DOMAIN connections : connections'[n] \in Connection
        /\ ~connections'[new].open
        /\ \A n \in DOMAIN connections : n # new => connections'[n] = connections[n]
    BY <1>1, <1>10, <1>14 DEF Connection
  <2>2. connections' \in Seq(Connection)
    <3>1. DOMAIN connections = 1 .. Len(connections) /\ Len(connections) \in Nat
      BY <1>1
    <3>2. connections' \in [1 .. Len(connections) -> Connection]
      BY <1>14, <2>1, <3>1
    <3> QED BY <3>1, <3>2
  <2>3. LinkType'
    BY <1>2, <1>6, <1>12, <1>14, <2>1, <2>2 DEF Links, LinkType
  <2>4. ConnectionsOwned'
    BY <1>11, <2>1 DEF ConnectionsOwned
  <2>5. ChannelsOwned'
    BY <1>2, <1>6, <1>14, OwnedStill DEF Links, At
  <2>6. ~(connections'[connection].open)
    BY <1>1, <1>4, <2>1
  <2>7. ClosesInOrder'
    BY <1>2, <1>9, <1>14, <2>6 DEF Links, ClosesInOrder, At
  <2> QED BY <1>8, <2>3, <2>4, <2>5, <2>7 DEF Links
<1>15. ASSUME new # None, ~closing, Go(a, "open"), UNCHANGED connections, connection' = new,
              channels' = Without({publishChannel, consumeChannel}),
              publishChannel' = None, consumeChannel' = None
       PROVE  Links'
  <2>1. /\ channels' \in Seq(Channel) /\ DOMAIN channels' = DOMAIN channels
        /\ \A n \in DOMAIN channels :
             channels'[n].open <=> channels[n].open /\ n \notin {publishChannel, consumeChannel}
    BY <1>1, <1>15, WithoutType
  <2>2. LinkType'
    BY <1>1, <1>2, <1>6, <1>12, <1>15, <2>1 DEF Links, LinkType
  <2>3. ConnectionsOwned'
    BY <1>11, <1>15 DEF ConnectionsOwned
  <2>4. ChannelsOwned'
    BY <1>2, <1>6, <2>1, OwnedStill DEF Links, At
  <2>5. ClosesInOrder'
    BY <1>2, <1>15 DEF Links, ClosesInOrder
  <2> QED BY <1>8, <2>2, <2>3, <2>4, <2>5 DEF Links
<1> QED BY <1>5, <1>13, <1>14, <1>15

-----------------------------------------------------------------------------
LEMMA OpenChannelLinks ==
  ASSUME Links, NEW a \in Actor, OpenChannel(a)
  PROVE  Links'
<1>1. /\ task \in [Actor -> Task] /\ None \in Nat /\ channels \in Seq(Channel)
      /\ publishChannel \in Nat /\ consumeChannel \in Nat /\ canceled \in BOOLEAN
  BY DEF Links, LinkType, None
<1>2. /\ At(a, "open")
      /\ UNCHANGED <<connections, connection, publishChannel, consumeChannel, flagVars, closer>>
  BY DEF OpenChannel
<1>3. ASSUME Fails(a, None), UNCHANGED channels PROVE Links'
  <2>1. /\ task' \in [Actor -> Task] /\ task'[a].at \in {"sleep", "failed"}
        /\ task'[a].connection = None
        /\ \A b \in Actor : b # a => task'[b] = task[b]
    BY <1>1, <1>3, FailsMoves
  <2> QED BY <1>1, <1>2, <1>3, <2>1, OnlyTheTask DEF At, linkVars, flagVars
<1>4. ASSUME channels' = With(channels, NewChannel,
               [connection |-> task[a].connection, open |-> TRUE, mail |-> <<>>,
                consumer |-> a = Listener]),
             Hold(a, "install", NewChannel)
      PROVE  Links'
  <2> DEFINE n == NewChannel
             used == {publishChannel, consumeChannel} \cup {task[b].channel : b \in Actor}
             new == [connection |-> task[a].connection, open |-> TRUE, mail |-> <<>>,
                     consumer |-> a = Listener]
  <2>1. n = NewIn(channels, used) /\ channels' = With(channels, n, new) /\ Hold(a, "install", n)
    BY <1>4 DEF NewChannel
  <2>2. new \in Channel
    <3>1. task[a].connection \in Nat /\ (a = Listener) \in BOOLEAN /\ <<>> \in Seq(Wires)
      BY <1>1 DEF Task
    <3> QED BY <3>1 DEF Channel
  <2> HIDE DEF n, used, new
  <2>3. Placed(Channel, channels, used, n, new)
    BY <1>1, <2>1, <2>2, WithPlaces
  <2>4. /\ channels' \in Seq(Channel) /\ n \in Nat
        /\ DOMAIN channels' = DOMAIN channels \cup {n}
        /\ \A m \in DOMAIN channels : m # n => channels'[m] = channels[m]
    BY <2>1, <2>3 DEF Placed
  <2>5. "install" \in Steps
    BY DEF Steps
  <2>6. /\ task' \in [Actor -> Task] /\ task'[a].at = "install"
        /\ task'[a].connection = None /\ task'[a].channel = n
        /\ \A b \in Actor : b # a => task'[b] = task[b]
    BY <1>1, <2>1, <2>4, <2>5, HoldMoves
  <2>7. ChannelsOwned'
    BY <1>2, <2>4, <2>6 DEF Links, ChannelsOwned, At
  <2> QED BY <1>1, <1>2, <2>4, <2>6, <2>7, LinksStill DEF Links, LinkType, ClosesInOrder, At, flagVars
<1> QED BY <1>3, <1>4 DEF OpenChannel

LEMMA InstallPublishLinks ==
  ASSUME Links, NEW p \in Publisher, InstallPublish(p)
  PROVE  Links'
<1> DEFINE ch == task[p].channel
<1>1. /\ task \in [Actor -> Task] /\ None \in Nat /\ channels \in Seq(Channel)
      /\ publishChannel \in Nat /\ consumeChannel \in Nat /\ canceled \in BOOLEAN
      /\ p \in Actor
  BY DEF Links, LinkType, None, Actor
<1>2. /\ At(p, "install") /\ ch \in Nat
      /\ UNCHANGED <<connections, connection, consumeChannel, flagVars, closer>>
  BY <1>1 DEF InstallPublish, Task
<1>3. \/ /\ channels' = Without({ch}) /\ UNCHANGED publishChannel
         /\ Fails(p, None) \/ Hold(p, "send", publishChannel)
      \/ /\ ~closing /\ ~Open(publishChannel) /\ publishChannel' = ch /\ Hold(p, "send", ch)
         /\ UNCHANGED channels
  BY DEF InstallPublish
<1>4. /\ task' \in [Actor -> Task] /\ task'[p].at \in {"sleep", "failed", "send"}
      /\ task'[p].connection = None
      /\ \A b \in Actor : b # p => task'[b] = task[b]
  <2>1. CASE Fails(p, None)
    BY <1>1, <2>1, FailsMoves
  <2>2. CASE \E held \in Nat : Hold(p, "send", held)
    <3>1. "send" \in Steps
      BY DEF Steps
    <3> QED BY <1>1, <2>2, <3>1, HoldMoves
  <2> QED BY <1>1, <1>2, <1>3, <2>1, <2>2
<1>5. ChannelsOwned' /\ channels' \in Seq(Channel)
  <2>1. CASE channels' = Without({ch}) /\ UNCHANGED publishChannel
    <3>1. /\ channels' \in Seq(Channel) /\ DOMAIN channels' = DOMAIN channels
          /\ \A n \in DOMAIN channels : channels'[n].open <=> channels[n].open /\ n \notin {ch}
      BY <1>1, <2>1, WithoutType
    <3> QED BY <1>2, <1>4, <2>1, <3>1, OwnedStill DEF Links, At
  <2>2. CASE ~Open(publishChannel) /\ publishChannel' = ch /\ UNCHANGED channels
    <3>1. publishChannel \in DOMAIN channels => ~channels[publishChannel].open
      BY <1>1, <2>2 DEF Open, None
    <3> QED BY <1>1, <1>2, <1>4, <2>2, <3>1, OwnedStill DEF Links, At
  <2> QED BY <1>3, <2>1, <2>2
<1>6. closing => publishChannel' = None /\ consumeChannel' = None
  BY <1>2, <1>3 DEF Links, ClosesInOrder
<1>7. publishChannel' \in Nat
  BY <1>1, <1>2, <1>3
<1> QED BY <1>1, <1>2, <1>4, <1>5, <1>6, <1>7, LinksStill DEF At, flagVars

LEMMA SendLinks ==
  ASSUME Links, NEW p \in Publisher, Send(p)
  PROVE  Links'
<1> DEFINE ch == task[p].channel
<1>1. /\ task \in [Actor -> Task] /\ None \in Nat /\ channels \in Seq(Channel)
      /\ publishChannel \in Nat /\ consumeChannel \in Nat /\ canceled \in BOOLEAN
      /\ p \in Actor
  BY DEF Links, LinkType, None, Actor
<1>2. /\ At(p, "send") /\ ch \in Nat
      /\ UNCHANGED <<connections, connection, publishChannel, consumeChannel, flagVars, closer>>
      /\ channels' = channels \/ channels' = Fanned(Wire(Here, p))
      /\ End(p, "done") \/ Fails(p, ch)
  BY <1>1 DEF Send, Task
<1>3. /\ task' \in [Actor -> Task] /\ task'[p].at \in {"sleep", "failed", "done"}
      /\ task'[p].connection = None
      /\ \A b \in Actor : b # p => task'[b] = task[b]
  <2>1. CASE Fails(p, ch)
    BY <1>1, <1>2, <2>1, FailsMoves
  <2>2. CASE End(p, "done")
    <3>1. "done" \in Steps
      BY DEF Steps
    <3> QED BY <1>1, <2>2, <3>1, EndMoves
  <2> QED BY <1>2, <2>1, <2>2
<1>4. /\ channels' \in Seq(Channel) /\ DOMAIN channels' = DOMAIN channels
      /\ \A n \in DOMAIN channels : channels'[n].open <=> channels[n].open
  BY <1>1, <1>2, FannedType, WireTypes
<1>5. ChannelsOwned'
  BY <1>2, <1>3, <1>4, OwnedStill DEF Links, At
<1> QED BY <1>1, <1>2, <1>3, <1>4, <1>5, LinksStill DEF Links, ClosesInOrder, At, flagVars

LEMMA RetryLinks ==
  ASSUME Links, NEW p \in Publisher, Retry(p)
  PROVE  Links'
<1>1. /\ task \in [Actor -> Task] /\ None \in Nat /\ channels \in Seq(Channel)
      /\ publishChannel \in Nat /\ consumeChannel \in Nat /\ canceled \in BOOLEAN
      /\ p \in Actor
  BY DEF Links, LinkType, None, Actor
<1>2. /\ At(p, "failed") /\ UNCHANGED <<connections, connection, consumeChannel, flagVars, closer>>
      /\ \/ End(p, "done")
         \/ task' = [task EXCEPT ![p] = [Idle("ensure") EXCEPT !.tries = 1]]
      /\ \/ UNCHANGED <<channels, publishChannel>>
         \/ channels' = Without({publishChannel}) /\ publishChannel' = None
  BY DEF Retry
<1>3. /\ task' \in [Actor -> Task] /\ task'[p].at \in {"ensure", "done"}
      /\ task'[p].connection = None
      /\ \A b \in Actor : b # p => task'[b] = task[b]
  <2>1. CASE End(p, "done")
    <3>1. "done" \in Steps
      BY DEF Steps
    <3> QED BY <1>1, <2>1, <3>1, EndMoves
  <2>2. CASE task' = [task EXCEPT ![p] = [Idle("ensure") EXCEPT !.tries = 1]]
    <3> DEFINE again == [at |-> "ensure", tries |-> 1, connection |-> None, channel |-> None]
    <3>1. [Idle("ensure") EXCEPT !.tries = 1] = again
      BY DEF Idle
    <3>2. again \in Task /\ again.at = "ensure" /\ again.connection = None
      BY <1>1 DEF Task, Steps
    <3> HIDE DEF again
    <3> QED BY <1>1, <2>2, <3>1, <3>2
  <2> QED BY <1>2, <2>1, <2>2
<1>4. ChannelsOwned' /\ channels' \in Seq(Channel)
  <2>1. CASE UNCHANGED <<channels, publishChannel>>
    BY <1>1, <1>2, <1>3, <2>1, OwnedStill DEF Links, At
  <2>2. CASE channels' = Without({publishChannel}) /\ publishChannel' = None
    <3>1. /\ channels' \in Seq(Channel) /\ DOMAIN channels' = DOMAIN channels
          /\ \A n \in DOMAIN channels :
               channels'[n].open <=> channels[n].open /\ n \notin {publishChannel}
      BY <1>1, <2>2, WithoutType
    <3> QED BY <1>2, <1>3, <2>2, <3>1, OwnedStill DEF Links, At
  <2> QED BY <1>2, <2>1, <2>2
<1> QED BY <1>1, <1>2, <1>3, <1>4, LinksStill DEF Links, ClosesInOrder, At, flagVars

LEMMA InstallConsumeLinks ==
  ASSUME Links, InstallConsume
  PROVE  Links'
<1> DEFINE ch == task[Listener].channel
<1>1. /\ task \in [Actor -> Task] /\ None \in Nat /\ channels \in Seq(Channel)
      /\ publishChannel \in Nat /\ consumeChannel \in Nat /\ canceled \in BOOLEAN
      /\ Listener \in Actor
  BY DEF Links, LinkType, None, Actor
<1>2. /\ At(Listener, "install") /\ ch \in Nat
      /\ UNCHANGED <<connections, connection, publishChannel, flagVars, closer>>
  BY <1>1 DEF InstallConsume, Task
<1>3. \/ channels' = Without({ch}) /\ UNCHANGED consumeChannel /\ Fails(Listener, None)
      \/ /\ ~closing /\ channels' = Without({consumeChannel}) /\ consumeChannel' = ch
         /\ Go(Listener, "forward")
  BY DEF InstallConsume
<1>4. /\ task' \in [Actor -> Task] /\ task'[Listener].at \in {"sleep", "failed", "forward"}
      /\ task'[Listener].connection \in {None} \cup DOMAIN connections
      /\ \A b \in Actor : b # Listener => task'[b] = task[b]
  <2>1. CASE Fails(Listener, None)
    BY <1>1, <2>1, FailsMoves
  <2>2. CASE Go(Listener, "forward")
    <3>1. "forward" \in Steps
      BY DEF Steps
    <3> QED BY <1>1, <2>2, <3>1, GoMoves, TaskConnection DEF Links
  <2> QED BY <1>3, <2>1, <2>2
<1>5. ChannelsOwned' /\ channels' \in Seq(Channel)
  <2>1. CASE channels' = Without({ch}) /\ UNCHANGED consumeChannel
    <3>1. /\ channels' \in Seq(Channel) /\ DOMAIN channels' = DOMAIN channels
          /\ \A n \in DOMAIN channels : channels'[n].open <=> channels[n].open /\ n \notin {ch}
      BY <1>1, <2>1, WithoutType
    <3> QED BY <1>2, <1>4, <2>1, <3>1, OwnedStill DEF Links, At
  <2>2. CASE channels' = Without({consumeChannel}) /\ consumeChannel' = ch
    <3>1. /\ channels' \in Seq(Channel) /\ DOMAIN channels' = DOMAIN channels
          /\ \A n \in DOMAIN channels :
               channels'[n].open <=> channels[n].open /\ n \notin {consumeChannel}
      BY <1>1, <2>2, WithoutType
    <3> QED BY <1>1, <1>2, <1>4, <2>2, <3>1, OwnedStill DEF Links, At
  <2> QED BY <1>3, <2>1, <2>2
<1>6. (closing => publishChannel' = None /\ consumeChannel' = None) /\ consumeChannel' \in Nat
  BY <1>1, <1>2, <1>3 DEF Links, ClosesInOrder
<1> QED BY <1>1, <1>2, <1>4, <1>5, <1>6, LinksStill DEF At, flagVars

LEMMA ForwardLinks ==
  ASSUME Links, Forward \/ ForwardEnds
  PROVE  Links'
<1> DEFINE ch == task[Listener].channel
<1>1. /\ task \in [Actor -> Task] /\ None \in Nat /\ channels \in Seq(Channel)
      /\ publishChannel \in Nat /\ consumeChannel \in Nat /\ canceled \in BOOLEAN
      /\ Listener \in Actor
  BY DEF Links, LinkType, None, Actor
<1>2. /\ At(Listener, "forward")
      /\ UNCHANGED <<connections, connection, publishChannel, consumeChannel, flagVars, closer>>
  BY DEF Forward, ForwardEnds
<1>3. /\ task' \in [Actor -> Task]
      /\ task'[Listener].connection \in {None} \cup DOMAIN connections
      /\ task' # task => task'[Listener].at = "sleep"
      /\ task'[Listener].at # "install"
      /\ \A b \in Actor : b # Listener => task'[b] = task[b]
  <2>1. CASE Forward
    BY <1>1, <1>2, <2>1, TaskConnection DEF Forward, Links, At
  <2>2. CASE ForwardEnds
    <3>1. "sleep" \in Steps /\ Hold(Listener, "sleep", None)
      BY <2>2 DEF Steps, ForwardEnds
    <3> QED BY <1>1, <3>1, HoldMoves
  <2> QED BY <2>1, <2>2
<1>4. /\ channels' \in Seq(Channel) /\ DOMAIN channels' = DOMAIN channels
      /\ \A n \in DOMAIN channels : channels'[n].open <=> channels[n].open
  <2>1. CASE ch \in DOMAIN channels
    <3>1. channels[ch] \in Channel
      BY <1>1, <2>1
    <3>2. channels[ch].mail \in Seq(Wires)
      BY <3>1 DEF Channel
    <3>3. \E mail \in Seq(Wires) : channels' = [channels EXCEPT ![ch].mail = mail]
      <4>1. CASE Forward
        <5>1. Tail(channels[ch].mail) \in Seq(Wires)
          BY <3>2, <4>1 DEF Forward
        <5>2. channels' = [channels EXCEPT ![ch].mail = Tail(channels[ch].mail)]
          BY <4>1 DEF Forward
        <5> QED BY <5>1, <5>2
      <4>2. CASE ForwardEnds
        <5>1. channels' = [channels EXCEPT ![ch].mail = <<>>] /\ <<>> \in Seq(Wires)
          BY <4>2 DEF ForwardEnds
        <5> QED BY <5>1
      <4> QED BY <4>1, <4>2
    <3> QED BY <1>1, <3>3, MailType
  <2>2. CASE ch \notin DOMAIN channels
    <3>1. channels' = channels
      BY <1>1, <2>2 DEF Forward, ForwardEnds
    <3> QED BY <1>1, <3>1
  <2> QED BY <2>1, <2>2
<1>5. ChannelsOwned'
  BY <1>2, <1>3, <1>4, OwnedStill DEF Links, At
<1> QED BY <1>1, <1>2, <1>3, <1>4, <1>5, LinksStill DEF Links, ClosesInOrder, At, flagVars
-----------------------------------------------------------------------------
LEMMA CloseLinks ==
  ASSUME Links, Close
  PROVE  Links'
<1>1. /\ channels \in Seq(Channel) /\ connections \in Seq(Connection)
      /\ connection \in DOMAIN connections /\ None \in Nat
  BY DEF Links, LinkType, None
<1>2. ASSUME Detach PROVE Links'
  BY <1>2 DEF Detach, Links, LinkType, OneDialer, Dialing, ConnectionsOwned, ChannelsOwned,
              ClosesInOrder, At, linkVars, flagVars
<1>3. ASSUME Cancel PROVE Links'
  BY <1>3 DEF Cancel, Links, LinkType, OneDialer, Dialing, ConnectionsOwned, ChannelsOwned,
              ClosesInOrder, At, linkVars
<1>4. ASSUME CloseChannels PROVE Links'
  <2>1. /\ channels' = Without({publishChannel, consumeChannel})
        /\ closing' = TRUE /\ publishChannel' = None /\ consumeChannel' = None
        /\ closer' = "closing"
        /\ UNCHANGED <<connections, connection, reconnecting, canceled, task>>
    BY <1>4 DEF CloseChannels
  <2>2. /\ channels' \in Seq(Channel) /\ DOMAIN channels' = DOMAIN channels
        /\ \A n \in DOMAIN channels :
             channels'[n].open <=> channels[n].open /\ n \notin {publishChannel, consumeChannel}
    BY <1>1, <2>1, WithoutType
  <2>3. ChannelsOwned'
    BY <2>1, <2>2, OwnedStill DEF Links, At
  <2>4. LinkType'
    BY <1>1, <2>1, <2>2 DEF Links, LinkType
  <2>5. OneDialer' /\ ConnectionsOwned' /\ ClosesInOrder'
    BY <2>1 DEF Links, OneDialer, Dialing, ConnectionsOwned, ClosesInOrder, At
  <2> QED BY <2>3, <2>4, <2>5 DEF Links
<1>5. ASSUME CloseConnection PROVE Links'
  <2> DEFINE owned == connections[connection].dialed
             gone == {n \in DOMAIN channels : channels[n].connection = connection}
  <2>1. /\ closer = "waiting" /\ At(Listener, "done") /\ closer' = "closed"
        /\ owned => /\ connections' = [connections EXCEPT ![connection].open = FALSE]
                    /\ channels' = Without(gone)
        /\ ~owned => UNCHANGED <<connections, channels>>
        /\ UNCHANGED <<connection, publishChannel, consumeChannel, flagVars, task>>
    BY <1>5 DEF CloseConnection
  <2> HIDE DEF gone
  <2>2. /\ channels' \in Seq(Channel) /\ DOMAIN channels' = DOMAIN channels
        /\ \A n \in DOMAIN channels : channels'[n].open => channels[n].open
    BY <1>1, <2>1, WithoutType
  <2>3. \A n \in DOMAIN connections : connections[n] \in Connection
    BY <1>1
  <2>4. /\ DOMAIN connections' = DOMAIN connections
        /\ \A n \in DOMAIN connections :
             /\ connections'[n] \in Connection /\ connections'[n].dialed = connections[n].dialed
             /\ connections'[n].open => connections[n].open
        /\ ~(connections'[connection].open /\ connections'[connection].dialed)
    BY <1>1, <2>1, <2>3 DEF Connection
  <2>5. connections' \in Seq(Connection)
    <3>1. DOMAIN connections = 1 .. Len(connections) /\ Len(connections) \in Nat
      BY <1>1
    <3>2. connections' \in [1 .. Len(connections) -> Connection]
      BY <1>1, <2>1, <2>4, <3>1
    <3> QED BY <3>1, <3>2
  <2>6. LinkType'
    BY <2>1, <2>2, <2>4, <2>5 DEF Links, LinkType, flagVars
  <2>7. OneDialer'
    BY <1>1, <2>1, <2>4 DEF Links, OneDialer, Dialing, flagVars
  <2>8. ConnectionsOwned'
    BY <2>1, <2>4 DEF Links, ConnectionsOwned, At
  <2>9. ChannelsOwned'
    BY <2>1, <2>2, OwnedStill DEF Links, At
  <2>10. ClosesInOrder'
    BY <2>1, <2>4 DEF Links, ClosesInOrder, At, flagVars
  <2> QED BY <2>6, <2>7, <2>8, <2>9, <2>10 DEF Links
<1> QED BY <1>2, <1>3, <1>4, <1>5 DEF Close

(* What breaks is closed.                                                  *)
LEMMA BreaksLinks ==
  ASSUME Links, ConnectionBreaks \/ ChannelBreaks
  PROVE  Links'
<1>1. /\ channels \in Seq(Channel) /\ connections \in Seq(Connection)
      /\ connection \in DOMAIN connections
  BY DEF Links, LinkType
<1>2. /\ UNCHANGED <<connection, publishChannel, consumeChannel, flagVars, task, closer>>
      /\ \E gone : channels' = Without(gone)
      /\ \/ UNCHANGED connections
         \/ connections' = [connections EXCEPT ![connection].open = FALSE]
  BY DEF ConnectionBreaks, ChannelBreaks
<1>3. /\ channels' \in Seq(Channel) /\ DOMAIN channels' = DOMAIN channels
      /\ \A n \in DOMAIN channels : channels'[n].open => channels[n].open
  BY <1>1, <1>2, WithoutType
<1>4. \A n \in DOMAIN connections : connections[n] \in Connection
  BY <1>1
<1>5. /\ DOMAIN connections' = DOMAIN connections
      /\ \A n \in DOMAIN connections :
           /\ connections'[n] \in Connection /\ connections'[n].dialed = connections[n].dialed
           /\ connections'[n].open => connections[n].open
  BY <1>1, <1>2, <1>4 DEF Connection
<1>6. connections' \in Seq(Connection)
  <2>1. DOMAIN connections = 1 .. Len(connections) /\ Len(connections) \in Nat
    BY <1>1
  <2>2. connections' \in [1 .. Len(connections) -> Connection]
    BY <1>1, <1>2, <1>5, <2>1
  <2> QED BY <2>1, <2>2
<1>7. LinkType'
  BY <1>2, <1>3, <1>5, <1>6 DEF Links, LinkType, flagVars
<1>8. OneDialer'
  BY <1>1, <1>2, <1>5 DEF Links, OneDialer, Dialing, flagVars
<1>9. ConnectionsOwned'
  BY <1>2, <1>5 DEF Links, ConnectionsOwned, At
<1>10. ChannelsOwned'
  BY <1>2, <1>3, OwnedStill DEF Links, At
<1>11. ClosesInOrder'
  BY <1>1, <1>2, <1>5 DEF Links, ClosesInOrder, At, flagVars
<1> QED BY <1>7, <1>8, <1>9, <1>10, <1>11 DEF Links

LEMMA ConsumerCanceledLinks ==
  ASSUME Links, ConsumerCanceled
  PROVE  Links'
<1>1. /\ channels \in Seq(Channel) /\ publishChannel \in Nat /\ consumeChannel \in Nat
      /\ canceled \in BOOLEAN /\ task \in [Actor -> Task] /\ Listener \in Actor
  BY DEF Links, LinkType, Actor
<1>2. /\ channels' = [channels EXCEPT ![consumeChannel].consumer = FALSE]
      /\ UNCHANGED <<connections, connection, publishChannel, consumeChannel, flagVars,
                     task, closer>>
  BY DEF ConsumerCanceled
<1>3. \A n \in DOMAIN channels : channels[n] \in Channel
  BY <1>1
<1>4. \A n \in DOMAIN channels :
        channels'[n] \in Channel /\ (channels'[n].open <=> channels[n].open)
  BY <1>1, <1>2, <1>3 DEF Channel
<1>5. channels' \in Seq(Channel) /\ DOMAIN channels' = DOMAIN channels
  <2>1. DOMAIN channels' = 1 .. Len(channels) /\ Len(channels) \in Nat
    BY <1>1, <1>2
  <2>2. channels' \in [1 .. Len(channels) -> Channel]
    BY <1>2, <1>4, <2>1
  <2> QED BY <1>1, <2>1, <2>2
<1>6. ChannelsOwned'
  BY <1>2, <1>4, <1>5, OwnedStill DEF Links, At
<1> QED BY <1>1, <1>2, <1>5, <1>6, LinksStill DEF Links, LinkType, ClosesInOrder, flagVars

LEMMA PublishElsewhereLinks ==
  ASSUME Links, NEW e \in Foreign, PublishElsewhere(e)
  PROVE  Links'
<1>1. /\ channels \in Seq(Channel) /\ publishChannel \in Nat /\ consumeChannel \in Nat
      /\ canceled \in BOOLEAN /\ task \in [Actor -> Task] /\ Listener \in Actor
  BY DEF Links, LinkType, Actor
<1>2. /\ channels' = Fanned(Wire(Elsewhere, e))
      /\ UNCHANGED <<connections, connection, publishChannel, consumeChannel, flagVars,
                     task, closer>>
  BY DEF PublishElsewhere
<1>3. /\ channels' \in Seq(Channel) /\ DOMAIN channels' = DOMAIN channels
      /\ \A n \in DOMAIN channels : channels'[n].open <=> channels[n].open
  BY <1>1, <1>2, FannedType, WireTypes
<1>4. ChannelsOwned'
  BY <1>2, <1>3, OwnedStill DEF Links, At
<1> QED BY <1>1, <1>2, <1>3, <1>4, LinksStill DEF Links, LinkType, ClosesInOrder, flagVars
-----------------------------------------------------------------------------
(* What the connections and channels keep is kept by every step.           *)
LEMMA LinksInit == Init => Links
<1> SUFFICES ASSUME Init PROVE Links
  OBVIOUS
<1>1. /\ task \in [Actor -> Task]
      /\ \A a \in Actor : task[a].connection = None /\ task[a].at \in {"check", "broadcast"}
  BY DEF Init, Idle, Task, Steps, None
<1>2. PICK given \in BOOLEAN : connections = <<[open |-> given, dialed |-> FALSE]>>
  BY DEF Init
<1>3. /\ connections \in Seq(Connection) /\ DOMAIN connections = {1}
      /\ ~connections[1].dialed
  BY <1>2 DEF Connection
<1>4. connection = 1 /\ channels = <<>> /\ publishChannel = None /\ consumeChannel = None
      /\ closing = FALSE /\ reconnecting = FALSE /\ canceled = FALSE /\ closer = "open"
  BY DEF Init
<1>5. channels \in Seq(Channel) /\ DOMAIN channels = {}
  BY <1>4
<1>6. LinkType
  BY <1>1, <1>3, <1>4, <1>5 DEF LinkType, None
<1>7. OneDialer
  BY <1>1 DEF OneDialer, Dialing
<1>8. ConnectionsOwned /\ ChannelsOwned
  BY <1>3, <1>5 DEF ConnectionsOwned, ChannelsOwned
<1>9. ClosesInOrder
  BY <1>4 DEF ClosesInOrder
<1> QED BY <1>6, <1>7, <1>8, <1>9 DEF Links

LEMMA LinksNext == Links /\ [Next]_vars => Links'
<1> SUFFICES ASSUME Links, [Next]_vars PROVE Links'
  OBVIOUS
<1>1. CASE UNCHANGED vars
  BY <1>1 DEF vars, linkVars, flagVars, Links, LinkType, OneDialer, Dialing, ConnectionsOwned,
              ChannelsOwned, ClosesInOrder, At
<1>2. CASE (\E s \in Subscriber : Subscribe(s) \/ Unsubscribe(s)) \/ Shutdown
  <2>1. UNCHANGED <<linkVars, flagVars, task, closer>>
    BY <1>2 DEF Subscribe, Unsubscribe, Shutdown
  <2> QED BY <2>1 DEF linkVars, flagVars, Links, LinkType, OneDialer, Dialing, ConnectionsOwned,
                      ChannelsOwned, ClosesInOrder, At
<1>3. ASSUME NEW a \in Actor, Act(a) PROVE Links'
  BY <1>3, LiveConnectionLinks, DialLinks, DialedLinks, OpenChannelLinks DEF Act
<1>4. ASSUME NEW p \in Publisher, Publish(p) PROVE Links'
  <2>1. p \in Actor
    BY DEF Actor
  <2> QED BY <1>3, <1>4, <2>1, QuietSteps, InstallPublishLinks, SendLinks, RetryLinks DEF Publish
<1>5. CASE Listen
  <2>1. Listener \in Actor
    BY DEF Actor
  <2> QED BY <1>3, <1>5, <2>1, QuietListener, InstallConsumeLinks, ForwardLinks DEF Listen
<1> QED BY <1>1, <1>2, <1>4, <1>5, CloseLinks, BreaksLinks, ConsumerCanceledLinks,
           PublishElsewhereLinks DEF Next

(* A closed backplane without publishers has neither an open connection it *)
(* dialed nor an open channel: nobody is left to own one.                  *)
LEMMA LinksEnd == Links => NothingLeftOpen
<1> SUFFICES ASSUME Links, closer = "closed", \A p \in Publisher : At(p, "done")
             PROVE  /\ \A n \in DOMAIN connections : connections[n].dialed => ~connections[n].open
                    /\ \A n \in DOMAIN channels : ~channels[n].open
  BY DEF NothingLeftOpen
<1>1. \A a \in Actor : At(a, "done")
  BY DEF Links, ClosesInOrder, Actor
<1>2. publishChannel = None /\ consumeChannel = None
  BY DEF Links, ClosesInOrder
<1>3. \A n \in DOMAIN connections : connections[n].dialed => ~connections[n].open
  BY <1>1 DEF Links, ClosesInOrder, ConnectionsOwned, At
<1>4. None \notin DOMAIN channels
  BY DEF Links, LinkType, None
<1>5. \A n \in DOMAIN channels : ~channels[n].open
  BY <1>1, <1>2, <1>4 DEF Links, ChannelsOwned, At
<1> QED BY <1>3, <1>5

(* What nobody under way can still use is closed.                          *)
THEOREM NothingLeftOpenHolds == Spec => []NothingLeftOpen
<1>1. Init => Links
  BY LinksInit
<1>2. Links /\ [Next]_vars => Links'
  BY LinksNext
<1>3. Links => NothingLeftOpen
  BY LinksEnd
<1> QED BY <1>1, <1>2, <1>3, PTL DEF Spec
-----------------------------------------------------------------------------
(* The hub itself, and the events on their way to it.                      *)
LEMMA HubInit == Init => Hub
<1> SUFFICES ASSUME Init PROVE Hub
  OBVIOUS
<1>1. /\ subscribers \in [Subscriber -> Subscription]
      /\ \A s \in Subscriber : /\ ~subscribers[s].listed
                               /\ \A e \in Event : subscribers[s].heard[e] = 0
  BY DEF Init, Gone, Heard, Subscription
<1>2. task[Listener].at = "check" /\ DOMAIN channels = {}
  BY DEF Init, Idle, Actor
<1>3. DeliveredOnce
  BY <1>1, <1>2 DEF DeliveredOnce, Reading, Event
<1> QED BY <1>1, <1>3 DEF Hub, HubType, OpenWhileListed, HeardOnce, NotYetHeard, Event

LEMMA AppendMail ==
  ASSUME NEW mail \in Seq(Wires), NEW w \in Wires, NEW e
  PROVE  /\ InMail(Append(mail, w), e) <=> InMail(mail, e) \/ w.event = e
         /\ OnceIn(mail, e) /\ ~(InMail(mail, e) /\ w.event = e) => OnceIn(Append(mail, w), e)
<1>1. /\ DOMAIN mail = 1 .. Len(mail) /\ Len(mail) \in Nat
      /\ DOMAIN Append(mail, w) = 1 .. Len(mail) + 1
      /\ Append(mail, w)[Len(mail) + 1] = w
      /\ \A i \in 1 .. Len(mail) : Append(mail, w)[i] = mail[i]
  OBVIOUS
<1> DEFINE after == Append(mail, w)
<1> HIDE DEF after
<1>2. \A i \in DOMAIN after :
        \/ i \in DOMAIN mail /\ after[i] = mail[i]
        \/ i = Len(mail) + 1 /\ after[i] = w
  BY <1>1 DEF after
<1>3. \A i \in DOMAIN mail : i \in DOMAIN after /\ after[i] = mail[i]
  BY <1>1 DEF after
<1>4. Len(mail) + 1 \in DOMAIN after /\ after[Len(mail) + 1] = w
  BY <1>1 DEF after
<1>5. InMail(after, e) <=> InMail(mail, e) \/ w.event = e
  BY <1>2, <1>3, <1>4 DEF InMail
<1>6. OnceIn(mail, e) /\ ~(InMail(mail, e) /\ w.event = e) => OnceIn(after, e)
  BY <1>2 DEF InMail, OnceIn
<1> QED BY <1>5, <1>6 DEF after

LEMMA TailMail ==
  ASSUME NEW mail \in Seq(Wires), mail # <<>>, NEW e
  PROVE  /\ Head(mail) \in Wires /\ InMail(mail, Head(mail).event)
         /\ Tail(mail) \in Seq(Wires)
         /\ InMail(Tail(mail), e) => InMail(mail, e)
         /\ OnceIn(mail, e) => OnceIn(Tail(mail), e)
         /\ OnceIn(mail, e) /\ Head(mail).event = e => ~InMail(Tail(mail), e)
<1>1. /\ DOMAIN mail = 1 .. Len(mail) /\ Len(mail) \in Nat \ {0}
      /\ Head(mail) = mail[1] /\ mail[1] \in Wires
      /\ Tail(mail) \in Seq(Wires)
      /\ DOMAIN Tail(mail) = 1 .. Len(mail) - 1
      /\ \A i \in 1 .. Len(mail) - 1 : Tail(mail)[i] = mail[i + 1]
  OBVIOUS
<1> DEFINE after == Tail(mail)
<1> HIDE DEF after
<1>2. \A i \in DOMAIN after : /\ i \in Int /\ i + 1 \in DOMAIN mail /\ i + 1 # 1
                             /\ after[i] = mail[i + 1]
  BY <1>1 DEF after
<1>3. 1 \in DOMAIN mail
  BY <1>1
<1>4. InMail(mail, Head(mail).event)
  BY <1>1, <1>3 DEF InMail
<1>5. InMail(after, e) => InMail(mail, e)
  BY <1>2 DEF InMail
<1>6. OnceIn(mail, e) => OnceIn(after, e)
  <2> SUFFICES ASSUME OnceIn(mail, e), NEW i \in DOMAIN after, NEW j \in DOMAIN after,
                      after[i].event = e, after[j].event = e
               PROVE  i = j
    BY DEF OnceIn
  <2>1. i + 1 = j + 1
    BY <1>2 DEF OnceIn
  <2> QED BY <1>2, <2>1
<1>7. OnceIn(mail, e) /\ Head(mail).event = e => ~InMail(after, e)
  BY <1>1, <1>2, <1>3 DEF InMail, OnceIn
<1> QED BY <1>1, <1>4, <1>5, <1>6, <1>7 DEF after

LEMMA EmptyMail == \A e : ~InMail(<<>>, e) /\ OnceIn(<<>>, e)
BY DEF InMail, OnceIn

(* No mail comes, nobody hears more, and the listener reads on, or begins  *)
(* with a channel that has none.                                           *)
LEMMA DeliveredStill ==
  ASSUME DeliveredOnce, published \subseteq published',
         \A s \in Subscriber, e \in Foreign :
           subscribers'[s].heard[e] > 0 => subscribers[s].heard[e] > 0,
         \A n \in DOMAIN channels' :
           \/ channels'[n].mail = <<>>
           \/ n \in DOMAIN channels /\ channels'[n].mail = channels[n].mail,
         Reading' =>
           /\ task'[Listener].channel \in DOMAIN channels'
           /\ \/ channels'[task'[Listener].channel].mail = <<>>
              \/ Reading /\ task'[Listener].channel = task[Listener].channel
  PROVE  DeliveredOnce'
<1>1. ASSUME NEW e \in Foreign, NEW n \in DOMAIN channels'
      PROVE  OnceIn(channels'[n].mail, e) /\ (InMail(channels'[n].mail, e) => e \in published')
  BY EmptyMail DEF DeliveredOnce
<1>2. ASSUME NEW e \in Foreign, NEW s \in Subscriber, subscribers'[s].heard[e] > 0
      PROVE  e \in published' /\ (Reading' => ~InMail(channels'[task'[Listener].channel].mail, e))
  BY <1>2, EmptyMail DEF DeliveredOnce
<1> QED BY <1>1, <1>2 DEF DeliveredOnce

(* A step of the backplane moves one actor, and leads to no broadcast.     *)
LEMMA OneMoves ==
  ASSUME LinkType, NEW a \in Actor,
         \/ Replicate(a) \/ EnsureChannel(a) \/ Act(a) \/ InstallPublish(a) \/ Send(a) \/ Retry(a)
         \/ a = Listener /\ Listen
  PROVE  /\ \A p \in Publisher : task'[p].at = "broadcast" => At(p, "broadcast")
         /\ \A b \in Actor : b # a => task'[b] = task[b]
<1>1. task \in [Actor -> Task] /\ Publisher \subseteq Actor
  BY DEF LinkType, Actor
<1>2. CASE \E step \in Steps \ {"broadcast"} : Go(a, step)
  BY <1>1, <1>2 DEF Go, At, Task
<1>3. CASE \E step \in Steps \ {"broadcast"} : \E ch : Hold(a, step, ch)
  BY <1>1, <1>3 DEF Hold, At, Task
<1>4. CASE \E step \in Steps \ {"broadcast"} : End(a, step)
  BY <1>1, <1>4 DEF End, Idle, At, Task
<1>5. CASE \E step \in Steps \ {"broadcast"} : \E n :
             task' = [task EXCEPT ![a].at = step, ![a].connection = n]
  BY <1>1, <1>5 DEF At, Task
<1>6. CASE task' = [task EXCEPT ![a] = [Idle("ensure") EXCEPT !.tries = 1]]
  BY <1>1, <1>6 DEF Idle, At, Task
<1>7. CASE UNCHANGED task
  BY <1>7 DEF At
<1>8. \A ch : Fails(a, ch) => \E step \in Steps \ {"broadcast"} : Hold(a, step, ch)
  BY DEF Fails, Steps
<1>9. CASE Replicate(a)
  BY <1>2, <1>9 DEF Replicate, Steps
<1>10. CASE EnsureChannel(a)
  BY <1>3, <1>8, <1>10 DEF EnsureChannel, Steps
<1>11. CASE Act(a)
  <2>1. CASE LiveConnection(a)
    BY <1>2, <1>3, <1>5, <1>8, <2>1 DEF LiveConnection, Steps
  <2>2. CASE Dial(a)
    BY <1>5, <2>2 DEF Dial, Steps
  <2>3. CASE Dialed(a)
    BY <1>2, <1>3, <1>8, <2>3 DEF Dialed, Steps
  <2>4. CASE OpenChannel(a)
    BY <1>3, <1>8, <2>4 DEF OpenChannel, Steps
  <2> QED BY <1>11, <2>1, <2>2, <2>3, <2>4 DEF Act
<1>12. CASE InstallPublish(a)
  BY <1>3, <1>8, <1>12 DEF InstallPublish, Steps
<1>13. CASE Send(a)
  BY <1>3, <1>4, <1>8, <1>13 DEF Send, Steps
<1>14. CASE Retry(a)
  BY <1>4, <1>6, <1>14 DEF Retry, Steps
<1>15. CASE a = Listener /\ Listen
  <2>1. CASE Check
    BY <1>2, <1>15, <2>1 DEF Check, Steps
  <2>2. CASE InstallConsume
    BY <1>2, <1>3, <1>8, <1>15, <2>2 DEF InstallConsume, Steps
  <2>3. CASE Forward
    BY <1>7, <2>3 DEF Forward
  <2>4. CASE ForwardEnds
    BY <1>3, <1>15, <2>4 DEF ForwardEnds, Steps
  <2>5. CASE Sleep
    BY <1>4, <1>15, <2>5 DEF Sleep, Steps
  <2> QED BY <1>11, <1>15, <2>1, <2>2, <2>3, <2>4, <2>5 DEF Listen
<1> QED BY <1>9, <1>10, <1>11, <1>12, <1>13, <1>14, <1>15

(* No channel gets mail, and one that is new has none.                     *)
KeepsMail ==
  /\ DOMAIN channels \subseteq DOMAIN channels'
  /\ \A n \in DOMAIN channels' :
       \/ channels'[n].mail = <<>>
       \/ n \in DOMAIN channels /\ channels'[n].mail = channels[n].mail

LEMMA OpenedKeepsMail ==
  ASSUME LinkType, NEW a \in Actor, OpenChannel(a)
  PROVE  /\ KeepsMail
         /\ \/ task'[a].at \in {"sleep", "failed"}
            \/ /\ task'[a].channel \in DOMAIN channels'
               /\ channels'[task'[a].channel].mail = <<>>
<1>1. /\ task \in [Actor -> Task] /\ None \in Nat /\ channels \in Seq(Channel)
  BY DEF LinkType, None
<1>2. CASE Fails(a, None) /\ UNCHANGED channels
  <2>1. task'[a].at \in {"sleep", "failed"}
    BY <1>1, <1>2, FailsMoves
  <2> QED BY <1>2, <2>1 DEF KeepsMail
<1>3. CASE /\ channels' = With(channels, NewChannel,
                [connection |-> task[a].connection, open |-> TRUE, mail |-> <<>>,
                 consumer |-> a = Listener])
           /\ Hold(a, "install", NewChannel)
  <2> DEFINE n == NewChannel
             used == {publishChannel, consumeChannel} \cup {task[b].channel : b \in Actor}
             new == [connection |-> task[a].connection, open |-> TRUE, mail |-> <<>>,
                     consumer |-> a = Listener]
  <2>1. /\ n = NewIn(channels, used) /\ channels' = With(channels, n, new)
        /\ Hold(a, "install", n)
    BY <1>3 DEF NewChannel
  <2>2. new \in Channel /\ new.mail = <<>>
    <3>1. task[a].connection \in Nat /\ (a = Listener) \in BOOLEAN /\ <<>> \in Seq(Wires)
      BY <1>1 DEF Task
    <3> QED BY <3>1 DEF Channel
  <2> HIDE DEF n, used, new
  <2>3. Placed(Channel, channels, used, n, new)
    BY <1>1, <2>1, <2>2, WithPlaces
  <2>4. /\ n \in Nat /\ DOMAIN channels' = DOMAIN channels \cup {n}
        /\ channels'[n] = new
        /\ \A m \in DOMAIN channels : m # n => channels'[m] = channels[m]
    BY <2>1, <2>3 DEF Placed
  <2>5. "install" \in Steps
    BY DEF Steps
  <2>6. task'[a].channel = n
    BY <1>1, <2>1, <2>4, <2>5, HoldMoves
  <2> QED BY <2>2, <2>4, <2>6 DEF KeepsMail
<1> QED BY <1>2, <1>3 DEF OpenChannel

LEMMA MailKept ==
  ASSUME LinkType, NEW a \in Actor,
         \/ Replicate(a) \/ EnsureChannel(a) \/ Act(a) \/ InstallPublish(a) \/ Retry(a)
         \/ Check \/ InstallConsume \/ ForwardEnds \/ Sleep
         \/ Close \/ ConnectionBreaks \/ ChannelBreaks \/ ConsumerCanceled
  PROVE  KeepsMail
<1>1. channels \in Seq(Channel)
  BY DEF LinkType
<1>2. CASE UNCHANGED channels
  BY <1>2 DEF KeepsMail
<1>3. CASE \E ended : channels' = Without(ended)
  BY <1>1, <1>3, WithoutType DEF KeepsMail
<1>4. CASE ForwardEnds
  <2>1. channels' = [channels EXCEPT ![task[Listener].channel].mail = <<>>]
    BY <1>4 DEF ForwardEnds
  <2> QED BY <1>1, <2>1 DEF KeepsMail
<1>5. CASE ConsumerCanceled
  <2>1. channels' = [channels EXCEPT ![consumeChannel].consumer = FALSE]
    BY <1>5 DEF ConsumerCanceled
  <2>2. \A n \in DOMAIN channels : channels[n] \in Channel
    BY <1>1
  <2> QED BY <2>1, <2>2 DEF KeepsMail, Channel
<1>6. CASE Act(a)
  BY <1>2, <1>3, <1>6, OpenedKeepsMail
     DEF Act, LiveConnection, Dial, Dialed, linkVars
<1>7. CASE Replicate(a) \/ EnsureChannel(a) \/ InstallPublish(a) \/ Retry(a)
  BY <1>2, <1>3, <1>7 DEF Replicate, EnsureChannel, InstallPublish, Retry, linkVars
<1>8. CASE Check \/ InstallConsume \/ Sleep
  BY <1>2, <1>3, <1>8 DEF Check, InstallConsume, Sleep, linkVars
<1>9. CASE Close \/ ConnectionBreaks \/ ChannelBreaks
  BY <1>2, <1>3, <1>9
     DEF Close, Detach, CloseChannels, Cancel, CloseConnection, ConnectionBreaks, ChannelBreaks,
         linkVars
<1> QED BY <1>4, <1>5, <1>6, <1>7, <1>8, <1>9

(* The hub stays when nothing is heard, no mail comes, and the listener    *)
(* reads on or begins with a channel that has none.                        *)
LEMMA HubStill ==
  ASSUME Hub, UNCHANGED <<subscribers, published>>, KeepsMail,
         \A p \in Publisher : task'[p].at = "broadcast" => At(p, "broadcast"),
         Reading' =>
           \/ Reading /\ task'[Listener].channel = task[Listener].channel
           \/ /\ task'[Listener].channel \in DOMAIN channels'
              /\ channels'[task'[Listener].channel].mail = <<>>
  PROVE  Hub'
<1>1. DeliveredOnce'
  BY DeliveredStill DEF Hub, KeepsMail, DeliveredOnce
<1> QED BY <1>1 DEF Hub, HubType, OpenWhileListed, HeardOnce, NotYetHeard, At

(* The subscribers change, and nobody has heard more.                      *)
LEMMA NothingHeard ==
  ASSUME DeliveredOnce, UNCHANGED <<channels, published>>, task'[Listener] = task[Listener],
         \A s \in Subscriber, e \in Foreign :
           subscribers'[s].heard[e] > 0 => subscribers[s].heard[e] > 0
  PROVE  DeliveredOnce'
BY DeliveredStill DEF DeliveredOnce, Reading

(* An event goes to every consumer: one of this process, or one of another *)
(* process that was not published before.                                  *)
LEMMA FannedOnce ==
  ASSUME LinkType, DeliveredOnce, NEW w \in Wires, channels' = Fanned(w),
         w.event \in Foreign => w.event \notin published /\ w.event \in published',
         published \subseteq published', UNCHANGED subscribers,
         task'[Listener] = task[Listener]
  PROVE  DeliveredOnce'
<1>1. \A n \in DOMAIN channels : channels[n] \in Channel
  BY DEF LinkType
<1>2. /\ DOMAIN channels' = DOMAIN channels
      /\ \A n \in DOMAIN channels :
           /\ channels[n].mail \in Seq(Wires)
           /\ channels'[n].mail \in {channels[n].mail, Append(channels[n].mail, w)}
  BY <1>1 DEF Fanned, Channel
<1>3. ASSUME NEW e \in Foreign, NEW n \in DOMAIN channels
      PROVE  /\ OnceIn(channels'[n].mail, e)
             /\ InMail(channels'[n].mail, e) => InMail(channels[n].mail, e) \/ w.event = e
  <2>1. OnceIn(channels[n].mail, e) /\ ~(InMail(channels[n].mail, e) /\ w.event = e)
    BY DEF DeliveredOnce
  <2>2. CASE channels'[n].mail = Append(channels[n].mail, w)
    <3>1. channels[n].mail \in Seq(Wires)
      BY <1>2
    <3>2. /\ InMail(Append(channels[n].mail, w), e) <=> InMail(channels[n].mail, e) \/ w.event = e
          /\ OnceIn(Append(channels[n].mail, w), e)
      BY <2>1, <3>1, AppendMail
    <3> QED BY <2>2, <3>2
  <2> QED BY <1>2, <2>1, <2>2
<1>4. Reading' = Reading
  BY DEF Reading
<1> QED BY <1>2, <1>3, <1>4 DEF DeliveredOnce

(* What the listener takes from its channel it has taken.                  *)
LEMMA ForwardHub ==
  ASSUME Hub, Links, Forward
  PROVE  Hub'
<1> DEFINE ch == task[Listener].channel
           mail == channels[ch].mail
           wire == Head(mail)
<1>1. /\ At(Listener, "forward") /\ mail # <<>>
      /\ channels' = [channels EXCEPT ![ch].mail = Tail(mail)]
      /\ IF IsEcho(wire) THEN UNCHANGED subscribers ELSE DeliverLocal(wire.event)
      /\ UNCHANGED <<task, published>>
  BY DEF Forward
<1>2. Reading /\ Reading' /\ ch \in DOMAIN channels
  BY <1>1 DEF Reading, At, Hub, DeliveredOnce
<1>3. \A n \in DOMAIN channels : channels[n] \in Channel
  BY DEF Links, LinkType
<1>4. mail \in Seq(Wires)
  BY <1>2, <1>3 DEF Channel
<1>5. /\ DOMAIN channels' = DOMAIN channels /\ channels'[ch].mail = Tail(mail)
      /\ \A n \in DOMAIN channels : n # ch => channels'[n].mail = channels[n].mail
  BY <1>1, <1>2, <1>3 DEF Channel
<1> HIDE DEF mail
<1>6. wire \in Wires /\ InMail(mail, wire.event)
      /\ \A e :
           /\ InMail(Tail(mail), e) => InMail(mail, e)
           /\ OnceIn(mail, e) => OnceIn(Tail(mail), e)
           /\ OnceIn(mail, e) /\ wire.event = e => ~InMail(Tail(mail), e)
  BY <1>1, <1>4, TailMail
<1>7. ASSUME NEW e \in Foreign, NEW n \in DOMAIN channels
      PROVE  OnceIn(channels'[n].mail, e) /\ (InMail(channels'[n].mail, e) => e \in published)
  <2>1. OnceIn(channels[n].mail, e) /\ (InMail(channels[n].mail, e) => e \in published)
    BY DEF Hub, DeliveredOnce
  <2>2. CASE n = ch
    BY <1>5, <1>6, <2>1, <2>2 DEF mail
  <2>3. CASE n # ch
    BY <1>5, <2>1, <2>3
  <2> QED BY <2>2, <2>3
<1>8. ASSUME NEW e \in Foreign, NEW s \in Subscriber, subscribers[s].heard[e] > 0
      PROVE  e \in published /\ ~InMail(mail, e)
  BY <1>2, <1>8 DEF Hub, DeliveredOnce, mail
<1>9. CASE IsEcho(wire)
  <2>1. UNCHANGED subscribers
    BY <1>1, <1>9
  <2>2. DeliveredOnce'
    BY <1>1, <1>2, <1>5, <1>6, <1>7, <1>8, <2>1 DEF DeliveredOnce
  <2> QED BY <1>1, <2>1, <2>2 DEF Hub, HubType, OpenWhileListed, HeardOnce, NotYetHeard, At
<1>10. CASE ~IsEcho(wire)
  <2> DEFINE f == wire.event
  <2>1. f \in Foreign /\ f \notin Publisher /\ f \in Event
    BY <1>6, <1>10 DEF Wires, Event
  <2>2. DeliverLocal(f)
    BY <1>1, <1>10
  <2> HIDE DEF f
  <2>3. \A s \in Subscriber : subscribers[s] \in Subscription /\ subscribers[s].heard[f] = 0
    <3>1. \A s \in Subscriber : subscribers[s] \in Subscription
      BY DEF Hub, HubType
    <3>2. \A s \in Subscriber : ~(subscribers[s].heard[f] > 0)
      BY <1>6, <1>8, <2>1 DEF f
    <3>3. \A s \in Subscriber : subscribers[s].heard[f] \in Nat
      BY <2>1, <3>1 DEF Subscription
    <3> QED BY <3>1, <3>2, <3>3
  <2>4. \A s \in Subscriber :
          /\ subscribers'[s] \in Subscription
          /\ subscribers'[s].listed = subscribers[s].listed
          /\ subscribers'[s].open = subscribers[s].open
          /\ \A e \in Event : e # f => subscribers'[s].heard[e] = subscribers[s].heard[e]
          /\ subscribers'[s].heard[f] \in {0, 1}
    BY <2>1, <2>2, <2>3 DEF DeliverLocal, Subscription
  <2>5. subscribers' \in [Subscriber -> Subscription]
    BY <2>2, <2>4 DEF DeliverLocal
  <2>6. f \in published /\ ~InMail(Tail(mail), f)
    <3>1. OnceIn(mail, f) /\ (InMail(mail, f) => f \in published)
      BY <1>2, <2>1 DEF Hub, DeliveredOnce, mail
    <3> QED BY <1>6, <3>1 DEF f
  <2>7. ASSUME NEW e \in Foreign, NEW s \in Subscriber, subscribers'[s].heard[e] > 0
        PROVE  e \in published /\ ~InMail(Tail(mail), e)
    <3>1. CASE e = f
      BY <2>6, <3>1
    <3>2. CASE e # f
      <4>1. subscribers[s].heard[e] > 0
        BY <2>4, <2>7, <3>2 DEF Event
      <4> QED BY <1>6, <1>8, <4>1
    <3> QED BY <3>1, <3>2
  <2>8. DeliveredOnce'
    BY <1>1, <1>2, <1>5, <1>7, <2>7 DEF DeliveredOnce
  <2>9. OpenWhileListed' /\ HeardOnce'
    BY <2>4 DEF Hub, OpenWhileListed, HeardOnce
  <2>10. NotYetHeard'
    BY <1>1, <2>1, <2>4 DEF Hub, NotYetHeard, At, Event
  <2> QED BY <2>5, <2>8, <2>9, <2>10 DEF Hub, HubType
<1> QED BY <1>9, <1>10

(* The listener comes to read only with a channel it has just opened.      *)
LEMMA ListenerBegins ==
  ASSUME LinkType, Listen, ~Forward, Reading'
  PROVE  \/ Reading /\ task'[Listener].channel = task[Listener].channel
         \/ /\ task'[Listener].channel \in DOMAIN channels'
            /\ channels'[task'[Listener].channel].mail = <<>>
<1> DEFINE away == Steps \ {"install", "forward"}
<1>1. task \in [Actor -> Task] /\ Listener \in Actor
  BY DEF LinkType, Actor
<1>2. ~\E step \in away : Go(Listener, step)
  BY <1>1 DEF Go, Reading, Task
<1>3. ~\E step \in away : \E c : Hold(Listener, step, c)
  BY <1>1 DEF Hold, Reading, Task
<1>4. ~\E step \in away : End(Listener, step)
  BY <1>1 DEF End, Idle, Reading, Task
<1>5. ~\E step \in away : \E n :
         task' = [task EXCEPT ![Listener].at = step, ![Listener].connection = n]
  BY <1>1 DEF Reading, Task
<1>6. \A c : ~Fails(Listener, c)
  BY <1>3 DEF Fails, Steps
<1>7. ~Check /\ ~Sleep /\ ~ForwardEnds
  BY <1>2, <1>3, <1>4 DEF Check, Sleep, ForwardEnds, Steps
<1>8. ~LiveConnection(Listener)
  BY <1>2, <1>5, <1>6 DEF LiveConnection, Steps
<1>9. ~Dial(Listener) /\ ~Dialed(Listener)
  BY <1>2, <1>5, <1>6 DEF Dial, Dialed, Steps
<1>10. CASE InstallConsume
  <2>1. At(Listener, "install") /\ Go(Listener, "forward")
    BY <1>6, <1>10 DEF InstallConsume
  <2>2. "forward" \in Steps
    BY DEF Steps
  <2> QED BY <1>1, <2>1, <2>2, GoMoves DEF Reading, At
<1>11. CASE OpenChannel(Listener)
  BY <1>1, <1>11, OpenedKeepsMail DEF Reading
<1> QED BY <1>7, <1>8, <1>9, <1>10, <1>11 DEF Listen, Act

LEMMA HubNext == Hub /\ Links /\ [Next]_vars => Hub'
<1> SUFFICES ASSUME Hub, Links, [Next]_vars PROVE Hub'
  OBVIOUS
<1>1. /\ subscribers \in [Subscriber -> Subscription] /\ task \in [Actor -> Task]
      /\ Listener \in Actor /\ DeliveredOnce
      /\ \A p \in Publisher : p \in Actor /\ p # Listener /\ p \notin Foreign /\ p \in Event
  BY DEF Hub, HubType, Links, LinkType, Actor, Event
<1>2. \A s \in Subscriber : subscribers[s] \in Subscription
  BY <1>1
<1>3. /\ Gone \in Subscription /\ ~Gone.listed
      /\ \A e \in Event : Gone.heard[e] = 0
  BY DEF Gone, Heard, Subscription
<1>4. CASE UNCHANGED vars
  <2>1. UNCHANGED <<subscribers, channels, published, task>>
    BY <1>4 DEF vars, hubVars, linkVars
  <2> QED BY <2>1, HubStill DEF At, KeepsMail, Reading
<1>5. ASSUME NEW s \in Subscriber, Subscribe(s) PROVE Hub'
  <2>1. /\ UNCHANGED <<task, channels, published>>
        /\ subscribers' = [subscribers EXCEPT ![s] = [@ EXCEPT !.listed = TRUE, !.open = TRUE]]
    BY <1>5 DEF Subscribe, linkVars
  <2>2. /\ subscribers' \in [Subscriber -> Subscription]
        /\ \A t \in Subscriber : /\ subscribers'[t].heard = subscribers[t].heard
                                 /\ \/ subscribers'[t].open = TRUE
                                    \/ subscribers'[t] = subscribers[t]
    BY <1>1, <1>2, <2>1 DEF Subscription
  <2>3. DeliveredOnce'
    BY <1>1, <2>1, <2>2, NothingHeard
  <2> QED BY <2>1, <2>2, <2>3 DEF Hub, HubType, OpenWhileListed, HeardOnce, NotYetHeard, At
<1>6. ASSUME \A s \in Subscriber : subscribers'[s] \in {subscribers[s], Gone},
             subscribers' \in [Subscriber -> Subscription],
             UNCHANGED <<task, channels, published>>
      PROVE  Hub'
  <2>1. DeliveredOnce'
    BY <1>1, <1>3, <1>6, NothingHeard DEF Event
  <2> QED BY <1>3, <1>6, <2>1
          DEF Hub, HubType, OpenWhileListed, HeardOnce, NotYetHeard, At, Event
<1>7. ASSUME (\E s \in Subscriber : Unsubscribe(s)) \/ Shutdown PROVE Hub'
  <2>1. UNCHANGED <<task, channels, published>>
    BY <1>7 DEF Unsubscribe, Shutdown, linkVars
  <2>2. /\ \A s \in Subscriber : subscribers'[s] \in {subscribers[s], Gone}
        /\ subscribers' \in [Subscriber -> Subscription]
    BY <1>1, <1>3, <1>7 DEF Unsubscribe, Shutdown
  <2> QED BY <1>6, <2>1, <2>2
<1>8. ASSUME NEW p \in Publisher, Broadcast(p) PROVE Hub'
  <2>1. /\ At(p, "broadcast") /\ DeliverLocal(p) /\ Go(p, "replicate")
        /\ UNCHANGED <<channels, published>>
    BY <1>8 DEF Broadcast, linkVars
  <2>2. "replicate" \in Steps
    BY DEF Steps
  <2>3. /\ task'[p].at = "replicate"
        /\ \A b \in Actor : b # p => task'[b] = task[b]
    BY <1>1, <2>1, <2>2, GoMoves
  <2>4. \A s \in Subscriber :
          /\ subscribers'[s] \in Subscription
          /\ subscribers'[s].listed = subscribers[s].listed
          /\ subscribers'[s].open = subscribers[s].open
          /\ \A e \in Event : e # p => subscribers'[s].heard[e] = subscribers[s].heard[e]
          /\ subscribers'[s].heard[p] \in {subscribers[s].heard[p], subscribers[s].heard[p] + 1}
    <3>1. p \in Event /\ DeliverLocal(p)
      BY <1>1, <2>1
    <3> QED BY <1>2, <3>1 DEF DeliverLocal, Subscription
  <2>5. subscribers' \in [Subscriber -> Subscription]
    BY <2>1, <2>4 DEF DeliverLocal
  <2>6. \A s \in Subscriber : subscribers[s].heard[p] = 0
    BY <2>1 DEF Hub, NotYetHeard
  <2>7. OpenWhileListed'
    BY <2>4 DEF Hub, OpenWhileListed
  <2>8. HeardOnce'
    BY <2>4, <2>6 DEF Hub, HeardOnce
  <2>9. NotYetHeard'
    BY <1>1, <2>3, <2>4 DEF Hub, NotYetHeard, At, Event
  <2>10. DeliveredOnce'
    <3>1. \A s \in Subscriber, e \in Foreign : subscribers'[s].heard[e] = subscribers[s].heard[e]
      BY <1>1, <2>4 DEF Event
    <3> QED BY <1>1, <2>1, <2>3, <3>1, NothingHeard
  <2> QED BY <2>5, <2>7, <2>8, <2>9, <2>10 DEF Hub, HubType
<1>9. ASSUME NEW p \in Publisher, Publish(p), ~Broadcast(p) PROVE Hub'
  <2>1. UNCHANGED <<subscribers, published>>
    BY <1>9 DEF Publish, Replicate, EnsureChannel, Act, LiveConnection, Dial, Dialed, OpenChannel,
                InstallPublish, Send, Retry, hubVars
  <2>2. /\ \A q \in Publisher : task'[q].at = "broadcast" => At(q, "broadcast")
        /\ task'[Listener] = task[Listener]
    BY <1>1, <1>9, OneMoves DEF Publish, Links
  <2>3. CASE Send(p) /\ ~UNCHANGED channels
    <3>1. channels' = Fanned(Wire(Here, p))
      BY <2>3 DEF Send
    <3>2. Wire(Here, p) \in Wires /\ Wire(Here, p).event \notin Foreign
      BY <1>1, WireTypes
    <3>3. DeliveredOnce'
      BY <1>1, <2>1, <2>2, <3>1, <3>2, FannedOnce DEF Links
    <3> QED BY <2>1, <2>2, <3>3 DEF Hub, HubType, OpenWhileListed, HeardOnce, NotYetHeard, At
  <2>4. CASE Send(p) /\ UNCHANGED channels
    BY <2>1, <2>2, <2>4, HubStill DEF KeepsMail, Reading
  <2>5. CASE ~Send(p)
    <3>1. KeepsMail
      BY <1>1, <1>9, <2>5, MailKept DEF Publish, Links
    <3> QED BY <2>1, <2>2, <3>1, HubStill DEF Reading
  <2> QED BY <2>3, <2>4, <2>5
<1>10. ASSUME Listen, ~Forward PROVE Hub'
  <2>1. UNCHANGED <<subscribers, published>>
    BY <1>10 DEF Listen, Check, Act, LiveConnection, Dial, Dialed, OpenChannel, InstallConsume,
                 ForwardEnds, Sleep, hubVars
  <2>2. \A q \in Publisher : task'[q].at = "broadcast" => At(q, "broadcast")
    BY <1>1, <1>10, OneMoves DEF Links
  <2>3. KeepsMail
    BY <1>1, <1>10, MailKept DEF Listen, Links
  <2>4. Reading' =>
          \/ Reading /\ task'[Listener].channel = task[Listener].channel
          \/ /\ task'[Listener].channel \in DOMAIN channels'
             /\ channels'[task'[Listener].channel].mail = <<>>
    BY <1>1, <1>10, ListenerBegins DEF Links
  <2> QED BY <2>1, <2>2, <2>3, <2>4, HubStill
<1>11. ASSUME Close \/ ConnectionBreaks \/ ChannelBreaks \/ ConsumerCanceled PROVE Hub'
  <2>1. UNCHANGED <<subscribers, task, published>>
    BY <1>11 DEF Close, Detach, CloseChannels, Cancel, CloseConnection, ConnectionBreaks,
                 ChannelBreaks, ConsumerCanceled, hubVars
  <2>2. KeepsMail
    BY <1>1, <1>11, MailKept DEF Links
  <2> QED BY <2>1, <2>2, HubStill DEF At, Reading
<1>12. ASSUME NEW e \in Foreign, PublishElsewhere(e) PROVE Hub'
  <2>1. /\ e \notin published /\ published' = published \cup {e}
        /\ channels' = Fanned(Wire(Elsewhere, e)) /\ UNCHANGED <<subscribers, task>>
    BY <1>12 DEF PublishElsewhere, hubVars
  <2>2. DeliveredOnce'
    BY <1>1, <2>1, WireTypes, FannedOnce DEF Links
  <2> QED BY <2>1, <2>2 DEF Hub, HubType, OpenWhileListed, HeardOnce, NotYetHeard, At
<1> QED BY <1>4, <1>5, <1>7, <1>8, <1>9, <1>10, <1>11, <1>12, ForwardHub DEF Next

LEMMA HubInvariance == Spec => [](Hub /\ Links)
<1>1. Init => Hub /\ Links
  BY HubInit, LinksInit
<1>2. (Hub /\ Links) /\ [Next]_vars => (Hub /\ Links)'
  BY HubNext, LinksNext
<1> QED BY <1>1, <1>2, PTL DEF Spec

(* The hub neither sends to a closed channel nor closes one twice.         *)
THEOREM OpenWhileListedHolds == Spec => []OpenWhileListed
<1>1. Hub => OpenWhileListed
  BY DEF Hub
<1> QED BY <1>1, HubInvariance, PTL

(* An event of this process is heard once, however often it comes back.    *)
THEOREM HeardOnceHolds == Spec => []HeardOnce
<1>1. Hub => HeardOnce
  BY DEF Hub
<1> QED BY <1>1, HubInvariance, PTL
=============================================================================
