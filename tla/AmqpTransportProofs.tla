------------------------- MODULE AmqpTransportProofs -------------------------
(* What the AMQP transport keeps, for any clients, messages and setups.    *)
EXTENDS AmqpTransport, TLAPS

USE AmqpAssumption

(* Who answers this tag on this channel answers for that copy, or, when    *)
(* the channel is closed, for none.                                        *)
Answers(ch, tag, copy) ==
  /\ copy \in DOMAIN copies /\ ch \in DOMAIN channel /\ tag \in 1 .. channel[ch].tags
  /\ \A i \in DOMAIN copies : copies[i].at = At(ch, tag) => i = copy

(* A dial is for whoever found the connection dead, one at a time.         *)
OneDial ==
  \A c \in Client : pc[c] = "dial" =>
    /\ reconnecting /\ alive = {}
    /\ \A d \in Client : pc[d] = "dial" => d = c

(* Open channels are on a connection that is up, which is the transport's. *)
OnTheConnection ==
  /\ alive \subseteq {connection} /\ (connection = None => closing)
  /\ \A ch \in DOMAIN channel : channel[ch].open => channel[ch].connection \in alive

(* The loop reads the cached channel, until that is given up; what it      *)
(* forwards came over that channel.                                        *)
LoopReads ==
  /\ pc[Loop] = "store" => used[Loop] \in DOMAIN channel
  /\ pc[Loop] \in {"consume", "select", "poison", "forward"} =>
       used[Loop] \in DOMAIN channel /\ consumeChannel \in {None, used[Loop]}
  /\ pc[Loop] \in {"poison", "forward"} => Answers(used[Loop], item.tag, item.copy)
  /\ {generation, item.generation} \subseteq 0 .. consumeGeneration

(* While the generation is that of the delivery, so is the channel.        *)
WorkerAnswers(w) ==
  /\ pc[w] # "idle" => job[w].copy \in DOMAIN copies
  /\ job[w].generation <= consumeGeneration
  /\ pc[w] = "handling" /\ job[w].generation = consumeGeneration /\ consumeChannel # None =>
       Answers(consumeChannel, job[w].tag, job[w].copy)
  /\ pc[w] \notin {"idle", "handling"} => Answers(captured[w], job[w].tag, job[w].copy)

(* Deliveries have the tags that their channels gave out.                  *)
Tagged ==
  \A i \in DOMAIN copies :
    copies[i].at.channel # None => copies[i].at.tag \in 1 .. channel[copies[i].at.channel].tags

WorkersAnswer == Tagged /\ \A w \in Worker : WorkerAnswers(w)

(* The message was handled or rejected, or a copy of it made after this    *)
(* one is with the broker.                                                 *)
Held(m, copy) ==
  \/ m \in handled \cup rejected
  \/ \E i \in DOMAIN copies : i > copy /\ copies[i].message = m /\ copies[i].at # Gone

(* A republished copy comes after the one it replaces: so two of them do   *)
(* not vouch for each other.                                               *)
Vouched ==
  /\ \A m \in accepted : Held(m, 0)
  /\ \A p \in Producer : pc[p] = "taken" => Held(MessageOf[p], 0)
  /\ \A w \in Worker :
       /\ pc[w] \in {"taken", "republished"} => Held(copies[job[w].copy].message, job[w].copy)
       /\ pc[w] = "ack" => copies[job[w].copy].message \in handled

Links == TypeOK /\ OneDial /\ OnTheConnection /\ NoLeak

Inv == Links /\ LoopReads /\ WorkersAnswer /\ Vouched
-----------------------------------------------------------------------------
(* What a step does to its client.                                         *)
LEMMA GoMoves ==
  ASSUME TypeOK, NEW c \in Client, NEW place, Go(c, place)
  PROVE  /\ place \in Step => pc' \in [Client -> Step]
         /\ pc'[c] = place
         /\ \A d \in Client : d # c => pc'[d] = pc[d]
BY DEF Go, TypeOK

LEMMA UsedMoves ==
  ASSUME TypeOK, NEW c \in Client, NEW ch, used' = [used EXCEPT ![c] = ch]
  PROVE  /\ ch \in Channel => used' \in [Client -> Channel]
         /\ used'[c] = ch /\ \A d \in Client : d # c => used'[d] = used[d]
BY DEF TypeOK

LEMMA FailMoves ==
  ASSUME TypeOK, NEW c \in Client, Fail(c)
  PROVE  /\ pc' \in [Client -> Step] /\ used' \in [Client -> Channel]
         /\ pc'[c] = IF c = Loop THEN "recover" ELSE "failed"
         /\ used'[c] = None
         /\ \A d \in Client : d # c => pc'[d] = pc[d] /\ used'[d] = used[d]
<1> DEFINE place == IF c = Loop THEN "recover" ELSE "failed"
<1>1. Go(c, place) /\ used' = [used EXCEPT ![c] = None] /\ None \in Channel
  BY DEF Fail, Forget, Channel
<1> HIDE DEF place
<1>2. /\ place \in Step => pc' \in [Client -> Step]
      /\ pc'[c] = place
      /\ \A d \in Client : d # c => pc'[d] = pc[d]
  BY <1>1, GoMoves
<1>3. /\ used' \in [Client -> Channel] /\ used'[c] = None
      /\ \A d \in Client : d # c => used'[d] = used[d]
  BY <1>1, UsedMoves
<1> QED BY <1>2, <1>3 DEF place, Step

LEMMA ProceedMoves ==
  ASSUME TypeOK, NEW c \in Client, Proceed(c)
  PROVE  /\ pc' \in [Client -> Step]
         /\ pc'[c] = IF c = Loop THEN "consume" ELSE "publish"
         /\ \A d \in Client : d # c => pc'[d] = pc[d]
<1> DEFINE place == IF c = Loop THEN "consume" ELSE "publish"
<1>1. Go(c, place)
  BY DEF Proceed
<1> HIDE DEF place
<1>2. /\ place \in Step => pc' \in [Client -> Step]
      /\ pc'[c] = place
      /\ \A d \in Client : d # c => pc'[d] = pc[d]
  BY <1>1, GoMoves
<1> QED BY <1>2 DEF place, Step

LEMMA Clients ==
  /\ Loop \in Client /\ Producer \subseteq Client /\ Worker \subseteq Client
  /\ Publisher \subseteq Client /\ Loop \notin Producer /\ Loop \notin Worker
  /\ Producer \cap Worker = {} /\ Client = Producer \cup Worker \cup {Loop}
BY DEF Client, Publisher

(* Channels are closed, which gives deliveries back.                       *)
ChannelRecord == [connection : Nat, open : BOOLEAN, tags : Nat]
CopyRecord == [message : Message, at : Place]

LEMMA ChannelsClose ==
  ASSUME TypeOK, NEW chs, CloseChannels(chs)
  PROVE  /\ channel' \in Seq(ChannelRecord) /\ DOMAIN channel' = DOMAIN channel
         /\ \A ch \in DOMAIN channel :
              /\ channel'[ch].connection = channel[ch].connection
              /\ channel'[ch].tags = channel[ch].tags
              /\ channel'[ch].open <=> channel[ch].open /\ ch \notin chs
         /\ copies' \in Seq(CopyRecord) /\ DOMAIN copies' = DOMAIN copies
         /\ \A i \in DOMAIN copies : /\ copies'[i].message = copies[i].message
                                     /\ copies'[i].at \in {copies[i].at, Ready}
<1>1. /\ channel \in Seq(ChannelRecord) /\ copies \in Seq(CopyRecord)
      /\ channel' = Closed(chs) /\ copies' = GivenBack(chs)
  BY DEF TypeOK, CloseChannels, ChannelRecord, CopyRecord
<1>2. \A ch \in DOMAIN channel : channel[ch] \in ChannelRecord
  BY <1>1
<1>3. \A i \in DOMAIN copies : copies[i] \in CopyRecord
  BY <1>1
<1>4. /\ DOMAIN channel = 1 .. Len(channel) /\ Len(channel) \in Nat
      /\ DOMAIN copies = 1 .. Len(copies) /\ Len(copies) \in Nat
  BY <1>1
<1>5. \A ch \in DOMAIN channel :
        /\ channel'[ch] \in ChannelRecord
        /\ channel'[ch].connection = channel[ch].connection
        /\ channel'[ch].tags = channel[ch].tags
        /\ channel'[ch].open <=> channel[ch].open /\ ch \notin chs
  BY <1>1, <1>2 DEF Closed, ChannelRecord
<1>6. Ready \in Place
  BY DEF Ready, Place, Channel
<1>7. \A i \in DOMAIN copies : /\ copies'[i] \in CopyRecord
                               /\ copies'[i].message = copies[i].message
                               /\ copies'[i].at \in {copies[i].at, Ready}
  BY <1>1, <1>3, <1>6 DEF GivenBack, CopyRecord
<1>8. channel' \in [1 .. Len(channel) -> ChannelRecord]
  BY <1>1, <1>4, <1>5 DEF Closed
<1>9. copies' \in [1 .. Len(copies) -> CopyRecord]
  BY <1>1, <1>4, <1>7 DEF GivenBack
<1>10. channel' \in Seq(ChannelRecord) /\ copies' \in Seq(CopyRecord)
  BY <1>4, <1>8, <1>9
<1>11. DOMAIN channel' = DOMAIN channel /\ DOMAIN copies' = DOMAIN copies
  BY <1>4, <1>8, <1>9
<1> QED BY <1>5, <1>7, <1>10, <1>11

(* A delivery is settled on its channel.                                   *)
LEMMA Settles ==
  ASSUME TypeOK, NEW ch, NEW tag, NEW place \in {Ready, Gone}, SettleOn(ch, tag, place)
  PROVE  /\ copies' \in Seq(CopyRecord) /\ DOMAIN copies' = DOMAIN copies
         /\ \A i \in DOMAIN copies :
              /\ copies'[i].message = copies[i].message
              /\ \/ copies'[i] = copies[i]
                 \/ copies[i].at = At(ch, tag) /\ Open(ch) /\ copies'[i].at = place
<1>1. copies \in Seq(CopyRecord)
  BY DEF TypeOK, CopyRecord
<1>2. \A i \in DOMAIN copies : copies[i] \in CopyRecord
  BY <1>1
<1>3. DOMAIN copies = 1 .. Len(copies) /\ Len(copies) \in Nat
  BY <1>1
<1>4. place \in Place
  BY DEF Ready, Gone, Place, Channel
<1>5. \A i \in DOMAIN copies :
        /\ copies'[i] \in CopyRecord /\ copies'[i].message = copies[i].message
        /\ \/ copies'[i] = copies[i]
           \/ copies[i].at = At(ch, tag) /\ Open(ch) /\ copies'[i].at = place
  BY <1>2, <1>4 DEF SettleOn, CopyRecord
<1>6. copies' \in [1 .. Len(copies) -> CopyRecord]
  BY <1>3, <1>5 DEF SettleOn
<1>7. copies' \in Seq(CopyRecord)
  BY <1>3, <1>6
<1>8. DOMAIN copies' = DOMAIN copies
  BY <1>3, <1>6
<1> QED BY <1>5, <1>7, <1>8
-----------------------------------------------------------------------------
(* No step but a delivery puts a copy where it was not.                    *)
CopiesMove ==
  /\ DOMAIN channel \subseteq DOMAIN channel' /\ DOMAIN copies \subseteq DOMAIN copies'
  /\ \A ch \in DOMAIN channel : channel'[ch].tags = channel[ch].tags
  /\ \A i \in DOMAIN copies : /\ copies'[i].message = copies[i].message
                              /\ copies'[i].at \in {copies[i].at, Ready, Gone}
  /\ \A i \in DOMAIN copies' \ DOMAIN copies : copies'[i].at = Ready

AnswersStay ==
  /\ \A ch, tag, copy : Answers(ch, tag, copy) => Answers(ch, tag, copy)'
  /\ Tagged => Tagged'

LEMMA AnswersKept ==
  ASSUME TypeOK, CopiesMove
  PROVE  AnswersStay
<1>0. ASSUME Tagged PROVE Tagged'
  <2>1. ASSUME NEW i \in DOMAIN copies', copies'[i].at.channel # None
        PROVE  copies'[i].at.tag \in 1 .. channel'[copies'[i].at.channel].tags
    <3>1. i \in DOMAIN copies /\ copies'[i].at = copies[i].at
      BY <2>1 DEF CopiesMove, Ready, Gone
    <3>2. copies[i].at \in Place
      <4>1. copies \in Seq(CopyRecord)
        BY DEF TypeOK, CopyRecord
      <4>2. copies[i] \in CopyRecord
        BY <3>1, <4>1
      <4> QED BY <4>2 DEF CopyRecord
    <3>3. copies[i].at.channel \in DOMAIN channel
      BY <2>1, <3>1, <3>2 DEF Place, Channel
    <3> QED BY <1>0, <2>1, <3>1, <3>3 DEF CopiesMove, Tagged
  <2> QED BY <2>1 DEF Tagged
<1> SUFFICES ASSUME NEW ch, NEW tag, NEW copy, Answers(ch, tag, copy)
             PROVE  Answers(ch, tag, copy)'
  BY <1>0 DEF AnswersStay
<1>1. ch \in Nat /\ ch # None
  BY DEF Answers, TypeOK
<1>2. Ready # At(ch, tag) /\ Gone # At(ch, tag)
  BY <1>1 DEF Ready, Gone, At
<1>3. \A i \in DOMAIN copies' : copies'[i].at = At(ch, tag) => i = copy
  BY <1>2 DEF CopiesMove, Answers
<1> QED BY <1>3 DEF CopiesMove, Answers

HeldStays == \A m : \A copy \in Nat : Held(m, copy) => Held(m, copy)'

LEMMA HeldKept ==
  ASSUME DOMAIN copies \subseteq DOMAIN copies', DOMAIN copies \subseteq Nat,
         DOMAIN copies' \subseteq Nat,
         handled \subseteq handled', rejected \subseteq rejected',
         \A i \in DOMAIN copies :
           /\ copies'[i].message = copies[i].message
           /\ copies'[i].at = Gone =>
                copies[i].at = Gone \/ Held(copies[i].message, i)'
  PROVE  HeldStays
<1> SUFFICES ASSUME NEW m, NEW copy \in Nat, Held(m, copy) PROVE Held(m, copy)'
  BY DEF HeldStays
<1>1. CASE m \in handled \cup rejected
  BY <1>1 DEF Held
<1>2. ASSUME NEW i \in DOMAIN copies, i > copy, copies[i].message = m, copies[i].at # Gone
      PROVE  Held(m, copy)'
  <2>1. CASE copies'[i].at # Gone
    BY <1>2, <2>1 DEF Held
  <2>2. CASE Held(m, i)'
    <3>1. \A j \in DOMAIN copies' : j > i => j > copy
      BY <1>2
    <3> QED BY <1>2, <2>2, <3>1 DEF Held
  <2> QED BY <1>2, <2>1, <2>2
<1> QED BY <1>1, <1>2 DEF Held
-----------------------------------------------------------------------------
(* Steps that are none of the loop's, the workers' or the publishers'.     *)
LEMMA LoopStill ==
  ASSUME TypeOK, LoopReads, AnswersStay, DOMAIN channel \subseteq DOMAIN channel',
         pc'[Loop] = pc[Loop], used'[Loop] = used[Loop],
         UNCHANGED <<generation, item, consumeGeneration>>,
         consumeChannel' \in {None, consumeChannel}
  PROVE  LoopReads'
<1>1. ASSUME pc'[Loop] \in {"poison", "forward"}
      PROVE  Answers(used[Loop], item.tag, item.copy)'
  <2>1. PICK ch, tag, copy : ch = used[Loop] /\ tag = item.tag /\ copy = item.copy
    OBVIOUS
  <2>2. Answers(ch, tag, copy)'
    BY <1>1, <2>1 DEF LoopReads, AnswersStay
  <2> QED BY <2>1, <2>2 DEF Answers
<1> QED BY <1>1 DEF LoopReads

LEMMA WorkersStill ==
  ASSUME TypeOK, WorkersAnswer, AnswersStay, DOMAIN copies \subseteq DOMAIN copies',
         consumeGeneration' \in Nat, consumeGeneration' >= consumeGeneration,
         \/ consumeGeneration' > consumeGeneration
         \/ consumeChannel' \in {None, consumeChannel},
         \A w \in Worker :
           \/ /\ job'[w] = job[w] /\ captured'[w] = captured[w]
              /\ \/ pc'[w] = pc[w]
                 \/ {pc[w], pc'[w]} \cap {"idle", "handling"} = {}
           \/ pc'[w] = "idle" /\ job'[w] = NoJob
           \/ WorkerAnswers(w)'
  PROVE  WorkersAnswer'
<1> SUFFICES ASSUME NEW w \in Worker PROVE WorkerAnswers(w)'
  BY DEF WorkersAnswer, AnswersStay
<1> USE DEF WorkersAnswer
<1>1. job[w].generation \in Nat /\ consumeGeneration \in Nat
  BY DEF TypeOK, Delivery
<1>2. CASE pc'[w] = "idle" /\ job'[w] = NoJob
  BY <1>2 DEF NoJob, WorkerAnswers
<1>3. ASSUME job'[w] = job[w], captured'[w] = captured[w],
             pc'[w] = pc[w] \/ {pc[w], pc'[w]} \cap {"idle", "handling"} = {},
             ~(pc'[w] = "idle" /\ job'[w] = NoJob)
      PROVE  WorkerAnswers(w)'
  <2>1. pc'[w] # "idle" => job'[w].copy \in DOMAIN copies'
    BY <1>3 DEF WorkerAnswers
  <2>2. job'[w].generation <= consumeGeneration'
    BY <1>1, <1>3 DEF WorkerAnswers
  <2>3. ASSUME pc'[w] = "handling", job'[w].generation = consumeGeneration', consumeChannel' # None
        PROVE  Answers(consumeChannel, job[w].tag, job[w].copy)'
    <3>1. /\ pc[w] = "handling" /\ job[w].generation = consumeGeneration
          /\ consumeChannel # None /\ consumeChannel' = consumeChannel
      BY <1>1, <1>3, <2>3 DEF WorkerAnswers
    <3>2. PICK ch, tag, copy : ch = consumeChannel /\ tag = job[w].tag /\ copy = job[w].copy
      OBVIOUS
    <3>3. Answers(ch, tag, copy)'
      BY <3>1, <3>2 DEF WorkerAnswers, AnswersStay
    <3> QED BY <1>3, <3>1, <3>2, <3>3 DEF Answers
  <2>4. ASSUME pc'[w] \notin {"idle", "handling"}
        PROVE  Answers(captured[w], job[w].tag, job[w].copy)'
    <3>1. pc[w] \notin {"idle", "handling"}
      BY <1>3, <2>4
    <3>2. PICK ch, tag, copy : ch = captured[w] /\ tag = job[w].tag /\ copy = job[w].copy
      OBVIOUS
    <3>3. Answers(ch, tag, copy)'
      BY <3>1, <3>2 DEF WorkerAnswers, AnswersStay
    <3> QED BY <1>3, <3>2, <3>3 DEF Answers
  <2> QED BY <2>1, <2>2, <2>3, <2>4 DEF WorkerAnswers
<1> QED BY <1>2, <1>3

LEMMA VouchedStill ==
  ASSUME TypeOK, WorkersAnswer, Vouched, HeldStays, handled \subseteq handled',
         \A i \in DOMAIN copies : copies'[i].message = copies[i].message,
         \A m \in accepted' : m \in accepted \/ Held(m, 0),
         \A p \in Producer : pc'[p] = "taken" => pc[p] = "taken" \/ Held(MessageOf[p], 0)',
         \A w \in Worker :
           /\ pc'[w] \in {"taken", "republished"} =>
                \/ pc[w] \in {"taken", "republished"} /\ job'[w] = job[w]
                \/ Held(copies[job[w].copy].message, job[w].copy)'
           /\ pc'[w] = "ack" =>
                \/ pc[w] = "ack" /\ job'[w] = job[w]
                \/ copies'[job'[w].copy].message \in handled'
  PROVE  Vouched'
<1>1. \A m \in accepted' : Held(m, 0)'
  BY DEF Vouched, HeldStays
<1>2. \A p \in Producer : pc'[p] = "taken" => Held(MessageOf[p], 0)'
  BY DEF Vouched, HeldStays
<1>3. ASSUME NEW w \in Worker, pc[w] \in {"taken", "republished"}, job'[w] = job[w]
      PROVE  Held(copies[job[w].copy].message, job[w].copy)'
  <2>1. PICK m, copy : m = copies[job[w].copy].message /\ copy = job[w].copy
    OBVIOUS
  <2>2. copy \in DOMAIN copies
    BY <1>3, <2>1 DEF WorkersAnswer, WorkerAnswers
  <2>3. copy \in Nat /\ Held(m, copy)
    BY <1>3, <2>1, <2>2 DEF Vouched, TypeOK
  <2>4. Held(m, copy)'
    BY <2>3 DEF HeldStays
  <2>5. copies'[job'[w].copy].message = m /\ job'[w].copy = copy
    BY <1>3, <2>1, <2>2
  <2> QED BY <2>4, <2>5 DEF Held
<1>4. ASSUME NEW w \in Worker, pc[w] = "ack", job'[w] = job[w]
      PROVE  copies'[job'[w].copy].message \in handled'
  <2>1. job[w].copy \in DOMAIN copies
    BY <1>4 DEF WorkersAnswer, WorkerAnswers
  <2> QED BY <1>4, <2>1 DEF Vouched
<1> QED BY <1>1, <1>2, <1>3, <1>4 DEF Vouched

(* A step that dials nothing and opens nothing.                            *)
LEMMA OneDialStill ==
  ASSUME OneDial, UNCHANGED reconnecting, alive' \subseteq alive,
         \A c \in Client : pc'[c] = "dial" => pc[c] = "dial"
  PROVE  OneDial'
BY DEF OneDial

LEMMA ConnectionStill ==
  ASSUME OnTheConnection, UNCHANGED <<connection, alive>>, closing => closing',
         DOMAIN channel' = DOMAIN channel,
         \A ch \in DOMAIN channel : /\ channel'[ch].connection = channel[ch].connection
                                    /\ channel'[ch].open => channel[ch].open
  PROVE  OnTheConnection'
BY DEF OnTheConnection

LEMMA NoLeakStill ==
  ASSUME NoLeak, OnTheConnection', DOMAIN channel' = DOMAIN channel,
         \A ch \in DOMAIN channel : channel'[ch].open =>
           /\ channel[ch].open
           /\ ch \in {publishChannel, consumeChannel} => ch \in {publishChannel', consumeChannel'}
           /\ \A c \in Client : pc[c] = "store" /\ used[c] = ch =>
                \/ pc'[c] = "store" /\ used'[c] = ch
                \/ ch \in {publishChannel', consumeChannel'}
  PROVE  NoLeak'
BY DEF NoLeak, OnTheConnection
-----------------------------------------------------------------------------
(* The broker, the network and Close.                                      *)
LEMMA AroundKeeps ==
  ASSUME Inv, DropConnection \/ DropChannel \/ Interrupt \/ Close
  PROVE  Inv'
<1>1. /\ TypeOK /\ OneDial /\ OnTheConnection /\ NoLeak /\ LoopReads /\ WorkersAnswer /\ Vouched
  BY DEF Inv, Links
<1>2. /\ UNCHANGED <<setup, ownsConnection, reconnecting, consumeGeneration, clientVars,
                     publishVars, workerVars, loopVars, historyVars>>
      /\ \/ \E chs : CloseChannels(chs)
         \/ UNCHANGED <<channel, copies>>
  BY DEF DropConnection, DropChannel, Interrupt, Close, lifeVars, connectionVars, channelVars
<1>3. /\ channel' \in Seq(ChannelRecord) /\ DOMAIN channel' = DOMAIN channel
      /\ \A ch \in DOMAIN channel :
           /\ channel'[ch].connection = channel[ch].connection
           /\ channel'[ch].tags = channel[ch].tags
           /\ channel'[ch].open => channel[ch].open
      /\ copies' \in Seq(CopyRecord) /\ DOMAIN copies' = DOMAIN copies
      /\ \A i \in DOMAIN copies : /\ copies'[i].message = copies[i].message
                                  /\ copies'[i].at \in {copies[i].at, Ready}
  <2>1. CASE \E chs : CloseChannels(chs)
    BY <1>1, <2>1, ChannelsClose
  <2>2. CASE UNCHANGED <<channel, copies>>
    BY <1>1, <2>2 DEF TypeOK, ChannelRecord, CopyRecord
  <2> QED BY <1>2, <2>1, <2>2
<1>4. /\ alive' \subseteq alive
      /\ connection' = connection \/ (connection' = None /\ closing' /\ alive' \subseteq alive \ {connection})
      /\ publishChannel' \in {None, publishChannel} /\ consumeChannel' \in {None, consumeChannel}
      /\ closing => closing'
      /\ {closing', interrupted'} \subseteq BOOLEAN /\ faults' \in 0 .. setup.maxFaults
  <2>1. setup.maxFaults \in Nat
    BY <1>1 DEF TypeOK
  <2>2. CASE DropConnection
    BY <1>1, <2>1, <2>2 DEF DropConnection, Spoil, lifeVars, TypeOK
  <2>3. CASE DropChannel
    BY <1>1, <2>1, <2>3 DEF DropChannel, Spoil, lifeVars, connectionVars, TypeOK
  <2>4. CASE Interrupt
    BY <1>1, <2>4 DEF Interrupt, connectionVars, channelVars, TypeOK
  <2>5. CASE Close
    <3>1. closing' = TRUE /\ publishChannel' = None /\ consumeChannel' = None
          /\ UNCHANGED <<interrupted, faults>>
      BY <2>5 DEF Close
    <3>2. CASE ownsConnection
      BY <1>1, <2>5, <3>1, <3>2 DEF Close, TypeOK
    <3>3. CASE ~ownsConnection
      BY <1>1, <2>5, <3>1, <3>3 DEF Close, TypeOK
    <3> QED BY <3>2, <3>3
  <2> QED BY <2>2, <2>3, <2>4, <2>5
<1>5. TypeOK'
  <2>1. Channel' = Channel /\ Place' = Place /\ Delivery' = Delivery /\ None \in Channel
    BY <1>3 DEF Channel, Place, Delivery
  <2> QED BY <1>1, <1>2, <1>3, <1>4, <2>1
          DEF TypeOK, clientVars, publishVars, workerVars, loopVars, historyVars, ChannelRecord, CopyRecord
<1>6. OneDial'
  BY <1>1, <1>2, <1>4, OneDialStill DEF clientVars
<1>7. OnTheConnection'
  <2>1. ASSUME NEW ch \in DOMAIN channel', channel'[ch].open
        PROVE  channel'[ch].connection \in alive'
    <3>1. channel[ch].open /\ channel[ch].connection \in alive /\ alive \subseteq {connection}
      BY <1>1, <1>3, <2>1 DEF OnTheConnection
    <3>2. CASE DropConnection
      <4>1. PICK gone \in alive : alive' = alive \ {gone} /\ CloseChannels(ChannelsOf({gone}))
        BY <3>2 DEF DropConnection
      <4>2. ch \notin ChannelsOf({gone})
        BY <1>1, <1>3, <2>1, <4>1, ChannelsClose
      <4>3. channel[ch].connection # gone
        BY <1>3, <2>1, <4>2 DEF ChannelsOf
      <4> QED BY <1>3, <2>1, <3>1, <4>1, <4>3
    <3>3. CASE Close
      <4> DEFINE cs == IF ownsConnection THEN {connection} \ {None} ELSE {}
                 chs == ChannelsOf(cs) \cup ({consumeChannel, publishChannel} \ {None})
      <4>1. alive' = alive \ cs /\ CloseChannels(chs)
        BY <3>3 DEF Close
      <4> HIDE DEF chs
      <4>2. ch \notin chs
        BY <1>1, <1>3, <2>1, <4>1, ChannelsClose
      <4>3. channel[ch].connection \notin cs
        BY <1>3, <2>1, <4>2 DEF chs, ChannelsOf
      <4> HIDE DEF cs
      <4> QED BY <1>3, <2>1, <3>1, <4>1, <4>3
    <3>4. CASE UNCHANGED alive
      BY <1>3, <2>1, <3>1, <3>4
    <3> QED BY <3>2, <3>3, <3>4 DEF DropChannel, Interrupt, connectionVars
  <2> QED BY <1>1, <1>4, <2>1 DEF OnTheConnection
<1>8. NoLeak'
  <2>1. \A ch \in DOMAIN channel : channel'[ch].open =>
          (ch \in {publishChannel, consumeChannel} => ch \in {publishChannel', consumeChannel'})
    <3>1. CASE Close
      <4> DEFINE cs == IF ownsConnection THEN {connection} \ {None} ELSE {}
                 chs == ChannelsOf(cs) \cup ({consumeChannel, publishChannel} \ {None})
      <4>1. CloseChannels(chs)
        BY <3>1 DEF Close
      <4>2. {consumeChannel, publishChannel} \ {None} \subseteq chs
        OBVIOUS
      <4> HIDE DEF chs
      <4>3. \A ch \in DOMAIN channel : channel'[ch].open => ch \notin chs
        BY <1>1, <4>1, ChannelsClose
      <4>4. None \notin DOMAIN channel
        BY <1>1 DEF TypeOK
      <4> QED BY <4>2, <4>3, <4>4
    <3>2. CASE UNCHANGED <<publishChannel, consumeChannel>>
      BY <3>2
    <3> QED BY <3>1, <3>2 DEF DropConnection, DropChannel, Interrupt, channelVars
  <2> QED BY <1>1, <1>2, <1>3, <1>7, <2>1, NoLeakStill DEF clientVars
<1>9. CopiesMove
  BY <1>3 DEF CopiesMove
<1>10. AnswersStay
  BY <1>1, <1>9, AnswersKept
<1>11. LoopReads'
  BY <1>1, <1>2, <1>3, <1>4, <1>10, LoopStill DEF clientVars, loopVars
<1>12. WorkersAnswer'
  <2>1. consumeGeneration \in Nat
    BY <1>1 DEF TypeOK
  <2> QED BY <1>1, <1>2, <1>3, <1>4, <1>10, <2>1, WorkersStill DEF clientVars, workerVars
<1>13. HeldStays
  <2>1. DOMAIN copies \subseteq Nat /\ Ready # Gone
    BY <1>1 DEF TypeOK, Ready, Gone
  <2> QED BY <1>2, <1>3, <2>1, HeldKept DEF historyVars
<1>14. Vouched'
  BY <1>1, <1>2, <1>3, <1>13, VouchedStill DEF clientVars, workerVars, historyVars
<1> QED BY <1>5, <1>6, <1>7, <1>8, <1>11, <1>12, <1>14 DEF Inv, Links
-----------------------------------------------------------------------------
(* Opening: what is left to say of a step that has a client look for a     *)
(* channel.                                                                *)
LEMMA OpeningKeeps ==
  ASSUME Inv, NEW c \in Client,
         pc[c] \in {"ensure", "connect", "dial", "open", "store"},
         pc'[c] \in {"connect", "dial", "open", "store", "consume", "publish", "recover", "failed"},
         \A d \in Client : d # c => pc'[d] = pc[d] /\ used'[d] = used[d],
         UNCHANGED <<workerVars, historyVars>>,
         CopiesMove, DOMAIN copies' = DOMAIN copies,
         \A i \in DOMAIN copies : copies'[i].at \in {copies[i].at, Ready},
         \/ UNCHANGED consumeGeneration /\ consumeChannel' \in {None, consumeChannel}
         \/ consumeGeneration' = consumeGeneration + 1
  PROVE  AnswersStay /\ WorkersAnswer' /\ Vouched'
<1>1. /\ TypeOK /\ WorkersAnswer /\ Vouched
  BY DEF Inv, Links
<1>2. AnswersStay
  BY <1>1, AnswersKept
<1>3. WorkersAnswer'
  <2>1. consumeGeneration \in Nat
    BY <1>1 DEF TypeOK
  <2>2. \A w \in Worker : pc'[w] = pc[w] \/ {pc[w], pc'[w]} \cap {"idle", "handling"} = {}
    BY Clients
  <2> QED BY <1>1, <1>2, <2>1, <2>2, WorkersStill DEF workerVars
<1>4. HeldStays
  <2>1. DOMAIN copies \subseteq Nat /\ Ready # Gone
    BY <1>1 DEF TypeOK, Ready, Gone
  <2> QED BY <2>1, HeldKept DEF historyVars, CopiesMove
<1>5. Vouched'
  <2>1. \A d \in Client : pc'[d] \in {"taken", "republished", "ack"} => pc[d] = pc'[d]
    OBVIOUS
  <2> QED BY <1>1, <1>4, <2>1, Clients, VouchedStill DEF workerVars, historyVars, CopiesMove
<1> QED BY <1>2, <1>3, <1>5

LEMMA EnsureKeeps ==
  ASSUME Inv, NEW c \in Client, Ensure(c)
  PROVE  Inv'
<1>1. /\ TypeOK /\ OneDial /\ OnTheConnection /\ NoLeak /\ LoopReads
  BY DEF Inv, Links
<1>2. /\ pc[c] = "ensure"
      /\ UNCHANGED <<lifeVars, connectionVars, channelVars, hand, publishVars, workerVars, loopVars,
                     copies, faults, historyVars>>
  BY DEF Ensure
<1>3. /\ pc' \in [Client -> Step] /\ used' \in [Client -> Channel]
      /\ \A d \in Client : d # c => pc'[d] = pc[d] /\ used'[d] = used[d]
      /\ pc'[c] \in {"connect", "consume", "publish", "recover", "failed"}
      /\ pc'[c] = "consume" => c = Loop /\ used'[c] = consumeChannel /\ Open(consumeChannel)
  <2>1. CASE Fail(c)
    BY <1>1, <2>1, FailMoves
  <2>2. CASE Open(Cached(c)) /\ used' = [used EXCEPT ![c] = Cached(c)] /\ Proceed(c)
    <3>1. Cached(c) \in Channel /\ (c = Loop => Cached(c) = consumeChannel)
      BY <1>1 DEF Cached, TypeOK
    <3>2. /\ used' \in [Client -> Channel] /\ used'[c] = Cached(c)
          /\ \A d \in Client : d # c => used'[d] = used[d]
      BY <1>1, <2>2, <3>1, UsedMoves
    <3> QED BY <1>1, <2>2, <3>1, <3>2, ProceedMoves
  <2>3. CASE Go(c, "connect") /\ UNCHANGED used
    <3>1. used \in [Client -> Channel] /\ "connect" \in Step
      BY <1>1 DEF TypeOK, Step
    <3> QED BY <1>1, <2>3, <3>1, GoMoves
  <2> QED BY <2>1, <2>2, <2>3 DEF Ensure
<1>4. TypeOK'
  <2>1. Channel' = Channel /\ Place' = Place /\ Delivery' = Delivery
    BY <1>2 DEF Channel, Place, Delivery, channelVars
  <2> QED BY <1>1, <1>2, <1>3, <2>1 DEF TypeOK, lifeVars, connectionVars, channelVars, publishVars,
                                       workerVars, loopVars, historyVars
<1>5. OneDial'
  BY <1>1, <1>2, <1>3, OneDialStill DEF connectionVars
<1>6. OnTheConnection'
  BY <1>1, <1>2, ConnectionStill DEF connectionVars, channelVars, lifeVars
<1>7. NoLeak'
  BY <1>1, <1>2, <1>3, <1>6, NoLeakStill DEF channelVars
<1>8. CopiesMove
  BY <1>2 DEF CopiesMove, channelVars
<1>9. AnswersStay /\ WorkersAnswer' /\ Vouched'
  BY <1>2, <1>3, <1>8, OpeningKeeps DEF channelVars
<1>10. LoopReads'
  <2>1. CASE c # Loop
    BY <1>1, <1>2, <1>3, <1>9, <2>1, Clients, LoopStill DEF loopVars, channelVars
  <2>2. CASE c = Loop
    <3>1. {generation, item.generation}' \subseteq 0 .. consumeGeneration'
      BY <1>1, <1>2 DEF LoopReads, loopVars, channelVars
    <3>2. pc'[Loop] = "consume" => used'[Loop] \in DOMAIN channel /\ used'[Loop] = consumeChannel
      BY <1>1, <1>3, <2>2 DEF Open, TypeOK, Channel
    <3> QED BY <1>2, <1>3, <2>2, <3>1, <3>2 DEF LoopReads, channelVars
  <2> QED BY <2>1, <2>2
<1> QED BY <1>4, <1>5, <1>6, <1>7, <1>9, <1>10 DEF Inv, Links

LEMMA ConnectKeeps ==
  ASSUME Inv, NEW c \in Client, Connect(c)
  PROVE  Inv'
<1>1. /\ TypeOK /\ OneDial /\ OnTheConnection /\ NoLeak /\ LoopReads
  BY DEF Inv, Links
<1>2. /\ pc[c] = "connect"
      /\ UNCHANGED <<lifeVars, connection, ownsConnection, alive, channelVars, publishVars,
                     workerVars, loopVars, copies, faults, historyVars>>
  BY DEF Connect
<1>3. /\ pc' \in [Client -> Step] /\ used' \in [Client -> Channel]
      /\ hand' \in [Client -> {None} \cup Nat] /\ reconnecting' \in BOOLEAN
      /\ \A d \in Client : d # c => pc'[d] = pc[d] /\ used'[d] = used[d]
      /\ pc'[c] \in {"open", "dial", "recover", "failed"}
      /\ \/ pc'[c] # "dial" /\ UNCHANGED reconnecting
         \/ connection \notin alive /\ ~reconnecting /\ reconnecting'
  <2>1. CASE connection \in alive /\ hand' = [hand EXCEPT ![c] = connection] /\ Go(c, "open")
             /\ UNCHANGED <<used, reconnecting>>
    <3>1. /\ used \in [Client -> Channel] /\ "open" \in Step /\ reconnecting \in BOOLEAN
          /\ hand \in [Client -> {None} \cup Nat] /\ connection \in {None} \cup Nat
      BY <1>1 DEF TypeOK, Step
    <3>2. hand' \in [Client -> {None} \cup Nat]
      BY <2>1, <3>1
    <3> QED BY <1>1, <2>1, <3>1, <3>2, GoMoves
  <2>2. CASE connection \notin alive /\ MayDial /\ reconnecting' = TRUE /\ Go(c, "dial")
             /\ UNCHANGED <<used, hand>>
    <3>1. /\ used \in [Client -> Channel] /\ "dial" \in Step
          /\ hand \in [Client -> {None} \cup Nat] /\ ~reconnecting
      BY <1>1, <2>2 DEF TypeOK, Step, MayDial
    <3> QED BY <1>1, <2>2, <3>1, GoMoves
  <2>3. CASE Fail(c) /\ UNCHANGED <<hand, reconnecting>>
    <3>1. hand \in [Client -> {None} \cup Nat] /\ reconnecting \in BOOLEAN
      BY <1>1 DEF TypeOK
    <3> QED BY <1>1, <2>3, <3>1, FailMoves
  <2> QED BY <2>1, <2>2, <2>3 DEF Connect
<1>4. TypeOK'
  <2>1. Channel' = Channel /\ Place' = Place /\ Delivery' = Delivery
    BY <1>2 DEF Channel, Place, Delivery, channelVars
  <2> QED BY <1>1, <1>2, <1>3, <2>1 DEF TypeOK, lifeVars, channelVars, publishVars,
                                       workerVars, loopVars, historyVars
<1>5. OneDial'
  <2>1. CASE pc'[c] # "dial" /\ UNCHANGED reconnecting
    BY <1>1, <1>2, <1>3, <2>1, OneDialStill
  <2>2. CASE connection \notin alive /\ ~reconnecting /\ reconnecting'
    <3>1. alive = {} /\ \A d \in Client : pc[d] # "dial"
      BY <1>1, <2>2 DEF OnTheConnection, OneDial
    <3> QED BY <1>2, <1>3, <2>2, <3>1 DEF OneDial
  <2> QED BY <1>3, <2>1, <2>2
<1>6. OnTheConnection'
  BY <1>1, <1>2, ConnectionStill DEF channelVars, lifeVars
<1>7. NoLeak'
  BY <1>1, <1>2, <1>3, <1>6, NoLeakStill DEF channelVars
<1>8. CopiesMove
  BY <1>2 DEF CopiesMove, channelVars
<1>9. AnswersStay /\ WorkersAnswer' /\ Vouched'
  BY <1>2, <1>3, <1>8, OpeningKeeps DEF channelVars
<1>10. LoopReads'
  <2>1. CASE c # Loop
    BY <1>1, <1>2, <1>3, <1>9, <2>1, Clients, LoopStill DEF loopVars, channelVars
  <2>2. CASE c = Loop
    BY <1>1, <1>2, <1>3, <2>2 DEF LoopReads, loopVars, channelVars
  <2> QED BY <2>1, <2>2
<1> QED BY <1>4, <1>5, <1>6, <1>7, <1>9, <1>10 DEF Inv, Links

LEMMA DialKeeps ==
  ASSUME Inv, NEW c \in Client, Dial(c)
  PROVE  Inv'
<1>1. /\ TypeOK /\ OneDial /\ OnTheConnection /\ NoLeak /\ LoopReads
  BY DEF Inv, Links
<1>2. /\ pc[c] = "dial" /\ reconnecting' = FALSE
      /\ UNCHANGED <<lifeVars, channel, consumeGeneration, publishVars, workerVars, loopVars, copies,
                     historyVars>>
  BY DEF Dial, DialEnds
<1>3. alive = {} /\ \A d \in Client : pc[d] = "dial" => d = c
  BY <1>1, <1>2 DEF OneDial
<1>4. \A ch \in DOMAIN channel : ~channel[ch].open
  BY <1>1, <1>3 DEF OnTheConnection
<1>5. /\ pc' \in [Client -> Step] /\ used' \in [Client -> Channel]
      /\ hand' \in [Client -> {None} \cup Nat]
      /\ \A d \in Client : d # c => pc'[d] = pc[d] /\ used'[d] = used[d]
      /\ pc'[c] \in {"open", "recover", "failed"}
      /\ alive' \subseteq {connection'} /\ connection' \in {None} \cup Nat /\ alive' \subseteq Nat
      /\ connection' = None => closing
      /\ publishChannel' \in {None, publishChannel} /\ consumeChannel' \in {None, consumeChannel}
      /\ ownsConnection' \in BOOLEAN /\ faults' \in 0 .. setup.maxFaults
  <2>1. /\ used \in [Client -> Channel] /\ "open" \in Step /\ ownsConnection \in BOOLEAN
        /\ hand \in [Client -> {None} \cup Nat] /\ connection \in {None} \cup Nat
        /\ faults \in 0 .. setup.maxFaults /\ setup.maxFaults \in Nat
        /\ connection = None => closing
    BY <1>1 DEF TypeOK, Step, OnTheConnection
  <2>2. CASE /\ ~closing /\ connection' = connection + 1 /\ ownsConnection' = TRUE
             /\ alive' = alive \cup {connection'} /\ publishChannel' = None /\ consumeChannel' = None
             /\ hand' = [hand EXCEPT ![c] = connection'] /\ Go(c, "open") /\ UNCHANGED <<used, faults>>
    <3>1. connection' \in Nat /\ connection' # None
      BY <2>1, <2>2
    <3>2. hand' \in [Client -> {None} \cup Nat]
      BY <2>1, <2>2, <3>1
    <3> QED BY <1>1, <1>3, <2>1, <2>2, <3>1, <3>2, GoMoves
  <2>3. CASE /\ Fail(c) /\ (Spoil \/ UNCHANGED faults)
             /\ UNCHANGED <<connection, ownsConnection, alive, publishChannel, consumeChannel, hand>>
    BY <1>1, <1>3, <2>1, <2>3, FailMoves DEF Spoil
  <2> QED BY <2>2, <2>3 DEF Dial
<1>6. TypeOK'
  <2>1. Channel' = Channel /\ Place' = Place /\ Delivery' = Delivery /\ None \in Channel
    BY <1>2 DEF Channel, Place, Delivery
  <2>2. /\ UNCHANGED <<setup, closing, interrupted, channel, consumeGeneration, publishMutex, attempt,
                        job, captured, generation, item, copies, accepted, handled, rejected>>
        /\ reconnecting' \in BOOLEAN
    BY <1>2 DEF lifeVars, publishVars, workerVars, loopVars, historyVars
  <2>4. {publishChannel', consumeChannel'} \subseteq Channel
    BY <1>1, <1>5, <2>1 DEF TypeOK
  <2>3. /\ setup' \in Setups /\ {closing', interrupted', ownsConnection', reconnecting'} \subseteq BOOLEAN
        /\ channel' \in Seq([connection : Nat, open : BOOLEAN, tags : Nat]) /\ consumeGeneration' \in Nat
        /\ publishMutex' \in {None} \cup Publisher /\ attempt' \in [Publisher -> 1..2]
        /\ job' \in [Worker -> Delivery] /\ captured' \in [Worker -> Channel]
        /\ generation' \in Nat /\ item' \in Delivery /\ faults' \in 0 .. setup'.maxFaults
        /\ copies' \in Seq([message : Message, at : Place])
        /\ accepted' \cup handled' \cup rejected' \subseteq Message
    BY <1>1, <1>5, <2>2 DEF TypeOK
  <2> QED BY <1>5, <2>1, <2>2, <2>3, <2>4, Zenon DEF TypeOK
<1>7. OneDial'
  BY <1>3, <1>5 DEF OneDial
<1>8. OnTheConnection'
  BY <1>2, <1>4, <1>5 DEF OnTheConnection, lifeVars
<1>9. NoLeak'
  BY <1>2, <1>4, <1>5 DEF NoLeak
<1>10. CopiesMove
  BY <1>2 DEF CopiesMove
<1>11. AnswersStay /\ WorkersAnswer' /\ Vouched'
  BY <1>2, <1>5, <1>10, OpeningKeeps
<1>12. LoopReads'
  <2>1. CASE c # Loop
    BY <1>1, <1>2, <1>5, <1>11, <2>1, Clients, LoopStill DEF loopVars
  <2>2. CASE c = Loop
    BY <1>1, <1>2, <1>5, <2>2 DEF LoopReads, loopVars
  <2> QED BY <2>1, <2>2
<1> QED BY <1>6, <1>7, <1>8, <1>9, <1>11, <1>12 DEF Inv, Links

LEMMA OpenChannelKeeps ==
  ASSUME Inv, NEW c \in Client, OpenChannel(c)
  PROVE  Inv'
<1>1. /\ TypeOK /\ OneDial /\ OnTheConnection /\ NoLeak /\ LoopReads
  BY DEF Inv, Links
<1>2. /\ pc[c] = "open" /\ hand' = [hand EXCEPT ![c] = None]
      /\ UNCHANGED <<lifeVars, connectionVars, publishChannel, consumeChannel, consumeGeneration,
                     publishVars, workerVars, loopVars, copies, historyVars>>
  BY DEF OpenChannel
<1>3. /\ hand' \in [Client -> {None} \cup Nat] /\ faults \in 0 .. setup.maxFaults
      /\ setup.maxFaults \in Nat /\ channel \in Seq(ChannelRecord)
  BY <1>1, <1>2 DEF TypeOK, ChannelRecord
<1>4. DOMAIN channel = 1 .. Len(channel) /\ Len(channel) \in Nat
  BY <1>3
<1> DEFINE new == Len(channel) + 1
<1>5. ASSUME Fail(c), UNCHANGED channel, faults' \in 0 .. setup.maxFaults PROVE Inv'
  <2>1. /\ pc' \in [Client -> Step] /\ used' \in [Client -> Channel]
        /\ \A d \in Client : d # c => pc'[d] = pc[d] /\ used'[d] = used[d]
        /\ pc'[c] \in {"recover", "failed"}
    BY <1>1, <1>5, FailMoves
  <2>2. TypeOK'
    <3>1. Channel' = Channel /\ Place' = Place /\ Delivery' = Delivery
      BY <1>2, <1>5 DEF Channel, Place, Delivery
    <3> QED BY <1>1, <1>2, <1>3, <1>5, <2>1, <3>1 DEF TypeOK, lifeVars, connectionVars, publishVars,
                                                     workerVars, loopVars, historyVars
  <2>3. OneDial'
    BY <1>1, <1>2, <2>1, OneDialStill DEF connectionVars
  <2>4. OnTheConnection'
    BY <1>1, <1>2, <1>5, ConnectionStill DEF connectionVars, lifeVars
  <2>5. NoLeak'
    BY <1>1, <1>2, <1>5, <2>1, <2>4, NoLeakStill
  <2>6. CopiesMove
    BY <1>2, <1>5 DEF CopiesMove
  <2>7. AnswersStay /\ WorkersAnswer' /\ Vouched'
    BY <1>2, <2>1, <2>6, OpeningKeeps
  <2>8. LoopReads'
    <3>1. CASE c # Loop
      BY <1>1, <1>2, <1>5, <2>1, <2>7, <3>1, Clients, LoopStill DEF loopVars
    <3>2. CASE c = Loop
      BY <1>1, <1>2, <2>1, <3>2 DEF LoopReads, loopVars
    <3> QED BY <3>1, <3>2
  <2> QED BY <2>2, <2>3, <2>4, <2>5, <2>7, <2>8 DEF Inv, Links
<1>6. ASSUME hand[c] \in alive, Go(c, "store"), UNCHANGED faults,
             channel' = Append(channel, [connection |-> hand[c], open |-> TRUE, tags |-> 0]),
             used' = [used EXCEPT ![c] = Len(channel')]
      PROVE  Inv'
  <2>1. [connection |-> hand[c], open |-> TRUE, tags |-> 0] \in ChannelRecord
    BY <1>1, <1>6 DEF ChannelRecord, TypeOK
  <2>2. /\ channel' \in Seq(ChannelRecord) /\ Len(channel') = new
        /\ DOMAIN channel' = 1 .. new
        /\ \A ch \in DOMAIN channel : channel'[ch] = channel[ch]
        /\ channel'[new].connection = hand[c]
    BY <1>3, <1>4, <1>6, <2>1
  <2>3. DOMAIN channel \subseteq DOMAIN channel' /\ new \in DOMAIN channel'
        /\ \A ch \in DOMAIN channel' : ch \in DOMAIN channel \/ ch = new
    BY <1>4, <2>2
  <2> HIDE DEF new
  <2>4. "store" \in Step
    BY DEF Step
  <2>5. /\ pc' \in [Client -> Step] /\ pc'[c] = "store"
        /\ \A d \in Client : d # c => pc'[d] = pc[d]
    BY <1>1, <1>6, <2>4, GoMoves
  <2>6. used'[c] = new /\ \A d \in Client : d # c => used'[d] = used[d]
    BY <1>1, <1>6, <2>2, UsedMoves
  <2>7. Channel \subseteq Channel' /\ new \in Channel'
    BY <2>3 DEF Channel
  <2>8. Place \subseteq Place' /\ Delivery' = Delivery
    BY <1>2, <2>7 DEF Place, Delivery
  <2>9. used' \in [Client -> Channel'] /\ captured' \in [Worker -> Channel']
    BY <1>1, <1>2, <1>6, <2>2, <2>7 DEF TypeOK, workerVars
  <2>10. copies' \in Seq([message : Message, at : Place'])
    <3> DEFINE Wider == [message : Message, at : Place']
    <3>1. copies' = copies /\ copies \in Seq(CopyRecord)
      BY <1>1, <1>2 DEF TypeOK, CopyRecord
    <3>2. CopyRecord \subseteq Wider
      BY <2>8 DEF CopyRecord
    <3> HIDE DEF Wider
    <3>3. copies \in Seq(Wider)
      BY <3>1, <3>2
    <3> QED BY <3>1, <3>3 DEF Wider
  <2>11. TypeOK'
    BY <1>1, <1>2, <1>3, <1>6, <2>2, <2>5, <2>7, <2>8, <2>9, <2>10
       DEF TypeOK, lifeVars, connectionVars, publishVars, workerVars, loopVars, historyVars,
           ChannelRecord
  <2>12. OneDial'
    BY <1>1, <1>2, <2>5, OneDialStill DEF connectionVars
  <2>13. OnTheConnection'
    BY <1>1, <1>2, <1>6, <2>2, <2>3 DEF OnTheConnection, connectionVars, lifeVars
  <2>14. NoLeak'
    <3>1. ASSUME NEW ch \in DOMAIN channel', channel'[ch].open
          PROVE  \/ ch \in {publishChannel', consumeChannel'}
                 \/ \E d \in Client : pc'[d] = "store" /\ used'[d] = ch
      <4>1. CASE ch = new
        BY <2>5, <2>6, <4>1
      <4>2. CASE ch \in DOMAIN channel
        <5>1. \A d \in Client : pc[d] = "store" => pc'[d] = pc[d] /\ used'[d] = used[d]
          BY <1>2, <2>5, <2>6
        <5> QED BY <1>1, <1>2, <2>2, <3>1, <4>2, <5>1 DEF NoLeak
      <4> QED BY <2>3, <3>1, <4>1, <4>2
    <3> QED BY <1>1, <1>2, <3>1 DEF NoLeak, connectionVars
  <2>15. CopiesMove
    BY <1>2, <2>2, <2>3 DEF CopiesMove
  <2>16. AnswersStay /\ WorkersAnswer' /\ Vouched'
    BY <1>2, <2>5, <2>6, <2>15, OpeningKeeps
  <2>17. LoopReads'
    <3>1. CASE c # Loop
      BY <1>1, <1>2, <2>3, <2>5, <2>6, <2>16, <3>1, Clients, LoopStill DEF loopVars
    <3>2. CASE c = Loop
      BY <1>1, <1>2, <2>3, <2>5, <2>6, <3>2 DEF LoopReads, loopVars
    <3> QED BY <3>1, <3>2
  <2> QED BY <2>11, <2>12, <2>13, <2>14, <2>16, <2>17 DEF Inv, Links
<1>7. Spoil \/ UNCHANGED faults => faults' \in 0 .. setup.maxFaults
  BY <1>3 DEF Spoil
<1> QED BY <1>5, <1>6, <1>7 DEF OpenChannel

LEMMA StoreChannelKeeps ==
  ASSUME Inv, NEW c \in Client, StoreChannel(c)
  PROVE  Inv'
<1>1. /\ TypeOK /\ OneDial /\ OnTheConnection /\ NoLeak /\ LoopReads
  BY DEF Inv, Links
<1>2. /\ pc[c] = "store"
      /\ UNCHANGED <<lifeVars, connectionVars, hand, publishVars, workerVars, loopVars, faults,
                     historyVars>>
  BY DEF StoreChannel
<1>3. /\ used \in [Client -> Channel] /\ None \in Channel /\ used[c] \in Channel
      /\ publishChannel \in Channel /\ consumeChannel \in Channel /\ consumeGeneration \in Nat
      /\ channel \in Seq(ChannelRecord) /\ copies \in Seq(CopyRecord)
  BY <1>1 DEF TypeOK, Channel, ChannelRecord, CopyRecord
<1>4. \/ /\ CloseChannels({used[c]}) /\ Fail(c)
         /\ UNCHANGED <<publishChannel, consumeChannel, consumeGeneration>>
      \/ /\ Open(Cached(c)) /\ CloseChannels({used[c]})
         /\ used' = [used EXCEPT ![c] = Cached(c)] /\ Proceed(c)
         /\ UNCHANGED <<publishChannel, consumeChannel, consumeGeneration>>
      \/ /\ ~Open(Cached(c)) /\ Proceed(c) /\ UNCHANGED <<channel, used, copies>>
         /\ IF c = Loop
            THEN /\ consumeChannel' = used[c] /\ consumeGeneration' = consumeGeneration + 1
                 /\ UNCHANGED publishChannel
            ELSE publishChannel' = used[c] /\ UNCHANGED <<consumeChannel, consumeGeneration>>
  BY DEF StoreChannel, CloseOwn, NewGeneration
<1>5. /\ pc' \in [Client -> Step] /\ used' \in [Client -> Channel]
      /\ \A d \in Client : d # c => pc'[d] = pc[d] /\ used'[d] = used[d]
      /\ pc'[c] \in {"consume", "publish", "recover", "failed"}
      /\ pc'[c] = "consume" => c = Loop
  <2>1. CASE Fail(c)
    BY <1>1, <2>1, FailMoves
  <2>2. CASE used' = [used EXCEPT ![c] = Cached(c)] /\ Proceed(c)
    <3>1. Cached(c) \in Channel
      BY <1>3 DEF Cached
    <3>2. /\ used' \in [Client -> Channel]
          /\ \A d \in Client : d # c => used'[d] = used[d]
      BY <1>1, <2>2, <3>1, UsedMoves
    <3> QED BY <1>1, <2>2, <3>2, ProceedMoves
  <2>3. CASE Proceed(c) /\ UNCHANGED used
    BY <1>1, <1>3, <2>3, ProceedMoves
  <2> QED BY <1>4, <2>1, <2>2, <2>3
<1>6. /\ channel' \in Seq(ChannelRecord) /\ DOMAIN channel' = DOMAIN channel
      /\ \A ch \in DOMAIN channel :
           /\ channel'[ch].connection = channel[ch].connection
           /\ channel'[ch].tags = channel[ch].tags
           /\ channel'[ch].open => channel[ch].open
      /\ copies' \in Seq(CopyRecord) /\ DOMAIN copies' = DOMAIN copies
      /\ \A i \in DOMAIN copies : /\ copies'[i].message = copies[i].message
                                  /\ copies'[i].at \in {copies[i].at, Ready}
  <2>1. CASE CloseChannels({used[c]})
    BY <1>1, <2>1, ChannelsClose
  <2>2. CASE UNCHANGED <<channel, copies>>
    BY <1>3, <2>2
  <2> QED BY <1>4, <2>1, <2>2
<1>7. /\ {publishChannel', consumeChannel'} \subseteq Channel /\ consumeGeneration' \in Nat
      /\ \/ UNCHANGED consumeGeneration /\ UNCHANGED consumeChannel
         \/ c = Loop /\ consumeGeneration' = consumeGeneration + 1
  BY <1>3, <1>4
<1>8. TypeOK'
  <2>1. Channel' = Channel /\ Place' = Place /\ Delivery' = Delivery
    BY <1>6 DEF Channel, Place, Delivery
  <2> QED BY <1>1, <1>2, <1>5, <1>6, <1>7, <2>1
          DEF TypeOK, lifeVars, connectionVars, publishVars, workerVars, loopVars, historyVars,
              ChannelRecord, CopyRecord
<1>9. OneDial'
  BY <1>1, <1>2, <1>5, OneDialStill DEF connectionVars
<1>10. OnTheConnection'
  BY <1>1, <1>2, <1>6, ConnectionStill DEF connectionVars, lifeVars
<1>11. NoLeak'
  <2>1. ASSUME NEW ch \in DOMAIN channel, channel'[ch].open
        PROVE  /\ ch \in {publishChannel, consumeChannel} => ch \in {publishChannel', consumeChannel'}
               /\ used[c] = ch => ch \in {publishChannel', consumeChannel'}
    <3>1. ch # None
      BY <1>1 DEF TypeOK
    <3>2. CASE CloseChannels({used[c]}) /\ UNCHANGED <<publishChannel, consumeChannel>>
      <4>1. ch # used[c]
        BY <1>1, <2>1, <3>2, ChannelsClose
      <4> QED BY <3>2, <4>1
    <3>3. CASE /\ ~Open(Cached(c)) /\ UNCHANGED channel
               /\ IF c = Loop THEN consumeChannel' = used[c] /\ UNCHANGED publishChannel
                  ELSE publishChannel' = used[c] /\ UNCHANGED consumeChannel
      <4>1. ch # Cached(c)
        BY <2>1, <3>1, <3>3 DEF Open
      <4> QED BY <3>3, <4>1 DEF Cached
    <3> QED BY <1>4, <3>2, <3>3
  <2> QED BY <1>1, <1>5, <1>6, <1>10, <2>1, NoLeakStill
<1>12. CopiesMove
  BY <1>6 DEF CopiesMove
<1>13. AnswersStay /\ WorkersAnswer' /\ Vouched'
  BY <1>2, <1>5, <1>6, <1>7, <1>12, OpeningKeeps
<1>14. LoopReads'
  <2>1. CASE c # Loop
    BY <1>1, <1>2, <1>5, <1>6, <1>7, <1>13, <2>1, Clients, LoopStill DEF loopVars
  <2>2. CASE c = Loop
    <3>1. used[Loop] \in DOMAIN channel
      BY <1>1, <1>2, <2>2 DEF LoopReads
    <3>2. pc'[Loop] = "consume" => used'[Loop] \in DOMAIN channel /\ consumeChannel' = used'[Loop]
      <4>1. CASE Fail(c)
        BY <1>1, <2>2, <4>1, FailMoves
      <4>2. CASE /\ Open(Cached(c)) /\ used' = [used EXCEPT ![c] = Cached(c)]
                 /\ UNCHANGED consumeChannel
        <5>1. used'[Loop] = consumeChannel
          BY <1>1, <2>2, <4>2, UsedMoves DEF Cached
        <5>2. consumeChannel \in DOMAIN channel
          BY <1>3, <2>2, <4>2 DEF Cached, Open, Channel
        <5> QED BY <4>2, <5>1, <5>2
      <4>3. CASE UNCHANGED used /\ consumeChannel' = used[c]
        BY <2>2, <3>1, <4>3
      <4> QED BY <1>4, <2>2, <4>1, <4>2, <4>3
    <3>3. {generation, item.generation}' \subseteq 0 .. consumeGeneration'
      BY <1>1, <1>2, <1>3, <1>7 DEF LoopReads, loopVars
    <3> QED BY <1>5, <1>6, <2>2, <3>2, <3>3 DEF LoopReads
  <2> QED BY <2>1, <2>2
<1> QED BY <1>8, <1>9, <1>10, <1>11, <1>13, <1>14 DEF Inv, Links
-----------------------------------------------------------------------------
(* Publishers and workers: what is left to say of a step that neither      *)
(* opens nor closes a channel, and is not the loop's.                      *)
LEMMA LinksKept ==
  ASSUME Links, TypeOK', UNCHANGED <<connectionVars, channelVars>>, UNCHANGED closing,
         NEW c \in Client, pc[c] # "store", pc'[c] \notin {"dial", "store"},
         \A d \in Client : d # c => pc'[d] = pc[d] /\ used'[d] = used[d]
  PROVE  Links'
<1>1. OneDial'
  BY OneDialStill DEF Links, connectionVars
<1>2. OnTheConnection'
  BY ConnectionStill DEF Links, connectionVars, channelVars
<1>3. NoLeak'
  BY <1>2, NoLeakStill DEF Links, channelVars
<1> QED BY <1>1, <1>2, <1>3 DEF Links

LEMMA StepKeeps ==
  ASSUME Inv, Links', NEW c \in Publisher,
         \A d \in Client : d # c => pc'[d] = pc[d] /\ used'[d] = used[d],
         UNCHANGED <<loopVars, consumeChannel, consumeGeneration>>,
         DOMAIN channel' = DOMAIN channel, DOMAIN copies' = DOMAIN copies,
         \A ch \in DOMAIN channel : channel'[ch].tags = channel[ch].tags,
         \A i \in DOMAIN copies :
           /\ copies'[i].message = copies[i].message
           /\ copies'[i].at \in {copies[i].at, Ready, Gone}
           /\ copies'[i].at = Gone => copies[i].at = Gone \/ Held(copies[i].message, i)',
         handled \subseteq handled', rejected \subseteq rejected',
         \A m \in accepted' : m \in accepted \/ Held(m, 0),
         c \in Producer => pc'[c] # "taken" /\ UNCHANGED <<job, captured>>,
         c \in Worker =>
           /\ \A w \in Worker : w # c => job'[w] = job[w] /\ captured'[w] = captured[w]
           /\ \/ /\ job'[c] = job[c] /\ captured'[c] = captured[c]
                 /\ {pc[c], pc'[c]} \cap {"idle", "handling"} = {}
              \/ pc'[c] = "idle" /\ job'[c] = NoJob
              \/ WorkerAnswers(c)'
           /\ pc'[c] \in {"taken", "republished"} =>
                pc[c] \in {"taken", "republished"} /\ job'[c] = job[c]
           /\ pc'[c] = "ack" => copies'[job'[c].copy].message \in handled'
  PROVE  Inv'
<1>1. TypeOK /\ LoopReads /\ WorkersAnswer /\ Vouched
  BY DEF Inv, Links
<1>2. c \in Client /\ c # Loop /\ (c \in Producer \/ c \in Worker)
  BY Clients DEF Publisher
<1>3. DOMAIN copies \subseteq Nat /\ consumeGeneration \in Nat
  BY <1>1 DEF TypeOK
<1>4. CopiesMove
  BY DEF CopiesMove
<1>5. AnswersStay
  BY <1>1, <1>4, AnswersKept
<1>6. LoopReads'
  BY <1>1, <1>2, <1>5, Clients, LoopStill DEF loopVars
<1>7. WorkersAnswer'
  <2>1. \A w \in Worker :
          \/ /\ job'[w] = job[w] /\ captured'[w] = captured[w]
             /\ \/ pc'[w] = pc[w]
                \/ {pc[w], pc'[w]} \cap {"idle", "handling"} = {}
          \/ pc'[w] = "idle" /\ job'[w] = NoJob
          \/ WorkerAnswers(w)'
    BY <1>2, Clients
  <2> QED BY <1>1, <1>3, <1>5, <2>1, WorkersStill
<1>8. HeldStays
  BY <1>3, HeldKept
<1>9. Vouched'
  <2>1. \A p \in Producer : pc'[p] = "taken" => pc[p] = "taken"
    BY <1>2, Clients
  <2>2. \A w \in Worker :
          /\ pc'[w] \in {"taken", "republished"} =>
               pc[w] \in {"taken", "republished"} /\ job'[w] = job[w]
          /\ pc'[w] = "ack" =>
               \/ pc[w] = "ack" /\ job'[w] = job[w]
               \/ copies'[job'[w].copy].message \in handled'
    BY <1>2, Clients
  <2> QED BY <1>1, <1>8, <2>1, <2>2, VouchedStill
<1> QED BY <1>6, <1>7, <1>9 DEF Inv

LEMMA SendKeeps ==
  ASSUME Inv, NEW a \in Producer, Send(a)
  PROVE  Inv'
<1>1. /\ TypeOK /\ Links /\ LoopReads /\ WorkersAnswer /\ Vouched
  BY DEF Inv, Links
<1>2. /\ pc[a] = "idle" /\ Go(a, "ensure") /\ attempt' = [attempt EXCEPT ![a] = 1]
      /\ UNCHANGED <<lifeVars, connectionVars, channelVars, hand, used, publishMutex, workerVars,
                     loopVars, copies, faults, historyVars>>
  BY DEF Send, StartPublish
<1>3. a \in Client /\ a # Loop /\ a \notin Worker /\ "ensure" \in Step
  BY Clients DEF Step
<1>4. /\ pc' \in [Client -> Step] /\ pc'[a] = "ensure"
      /\ \A d \in Client : d # a => pc'[d] = pc[d]
  BY <1>1, <1>2, <1>3, GoMoves
<1>5. TypeOK'
  <2>1. Channel' = Channel /\ Place' = Place /\ Delivery' = Delivery
    BY <1>2 DEF Channel, Place, Delivery, channelVars
  <2>2. attempt' \in [Publisher -> 1..2]
    <3>1. attempt \in [Publisher -> 1..2] /\ 1 \in 1..2
      BY <1>1 DEF TypeOK
    <3> QED BY <1>2, <3>1
  <2> QED BY <1>1, <1>2, <1>4, <2>1, <2>2 DEF TypeOK, lifeVars, connectionVars, channelVars,
                                       workerVars, loopVars, historyVars
<1>6. Links'
  BY <1>1, <1>2, <1>3, <1>4, <1>5, LinksKept DEF lifeVars
<1> QED BY <1>2, <1>3, <1>4, <1>6, Clients, StepKeeps
        DEF loopVars, channelVars, workerVars, historyVars, Publisher

(* A message that the broker takes has a copy after every other.           *)
LEMMA PublishKeeps ==
  ASSUME Inv, NEW a \in Publisher, Publish(a)
  PROVE  Inv'
<1>1. /\ TypeOK /\ Links /\ LoopReads /\ WorkersAnswer /\ Vouched
  BY DEF Inv, Links
<1>2. /\ pc[a] = "publish"
      /\ UNCHANGED <<lifeVars, connectionVars, channelVars, hand, used, attempt, workerVars, loopVars,
                     historyVars>>
  BY DEF Publish
<1>3. a \in Client /\ a # Loop /\ a \in Producer \cup Worker
  BY Clients DEF Publisher
<1>4. /\ copies \in Seq(CopyRecord) /\ faults \in 0 .. setup.maxFaults /\ setup.maxFaults \in Nat
      /\ publishMutex \in {None} \cup Publisher
  BY <1>1 DEF TypeOK, CopyRecord
<1>5. DOMAIN copies = 1 .. Len(copies) /\ Len(copies) \in Nat
  BY <1>4
<1>6. \/ /\ publishMutex' = a /\ Go(a, "taken") /\ copies' = Append(copies, Copy(Payload(a)))
         /\ UNCHANGED faults
      \/ publishMutex' = a /\ Go(a, "refused") /\ Spoil /\ UNCHANGED copies
      \/ Go(a, "failed") /\ UNCHANGED <<publishMutex, copies, faults>>
  BY DEF Publish
<1>7. /\ pc' \in [Client -> Step] /\ pc'[a] \in {"taken", "refused", "failed"}
      /\ \A d \in Client : d # a => pc'[d] = pc[d]
      /\ publishMutex' \in {None} \cup Publisher /\ faults' \in 0 .. setup.maxFaults
  <2>1. {"taken", "refused", "failed"} \subseteq Step
    BY DEF Step
  <2>2. faults' \in 0 .. setup.maxFaults
    BY <1>4, <1>6 DEF Spoil
  <2>3. publishMutex' \in {None} \cup Publisher
    BY <1>4, <1>6
  <2>4. \E place \in {"taken", "refused", "failed"} : Go(a, place)
    BY <1>6
  <2>5. PICK place \in {"taken", "refused", "failed"} : Go(a, place)
    BY <2>4
  <2> QED BY <1>1, <1>3, <2>1, <2>2, <2>3, <2>5, GoMoves
<1>8. /\ copies' \in Seq(CopyRecord) /\ DOMAIN copies \subseteq DOMAIN copies'
      /\ \A i \in DOMAIN copies : copies'[i] = copies[i]
      /\ \A i \in DOMAIN copies' \ DOMAIN copies : copies'[i].at = Ready
      /\ DOMAIN copies' \subseteq Nat
      /\ pc'[a] = "taken" =>
           /\ Len(copies) + 1 \in DOMAIN copies'
           /\ copies'[Len(copies) + 1].message = Payload(a)
           /\ copies'[Len(copies) + 1].at # Gone
  <2>1. CASE copies' = Append(copies, Copy(Payload(a)))
    <3>1. Payload(a) \in Message
      <4>1. CASE a \in Producer
        BY <4>1 DEF Payload
      <4>2. CASE a \in Worker
        <5>1. job[a].copy \in DOMAIN copies
          BY <1>1, <1>2, <4>2 DEF WorkersAnswer, WorkerAnswers
        <5>2. copies[job[a].copy] \in CopyRecord
          BY <1>4, <5>1
        <5> QED BY <4>2, <5>2, Clients DEF Payload, CopyRecord
      <4> QED BY <1>3, <4>1, <4>2
    <3>2. Ready \in Place /\ Ready # Gone
      BY DEF Ready, Gone, Place, Channel
    <3> DEFINE copy == Copy(Payload(a))
    <3>3. copy \in CopyRecord /\ copy.at = Ready /\ copy.message = Payload(a)
      BY <3>1, <3>2 DEF Copy, CopyRecord
    <3> HIDE DEF copy
    <3>4. /\ copies' \in Seq(CopyRecord) /\ DOMAIN copies' = 1 .. Len(copies) + 1
          /\ \A i \in 1 .. Len(copies) : copies'[i] = copies[i]
          /\ copies'[Len(copies) + 1] = copy
      BY <1>4, <1>5, <2>1, <3>3 DEF copy
    <3> QED BY <1>5, <3>2, <3>3, <3>4
  <2>2. CASE UNCHANGED copies /\ (Go(a, "refused") \/ Go(a, "failed"))
    <3>1. pc'[a] # "taken"
      BY <1>1, <1>3, <2>2, GoMoves
    <3> QED BY <1>4, <1>5, <2>2, <3>1
  <2> QED BY <1>6, <2>1, <2>2
<1>9. TypeOK'
  <2>1. Channel' = Channel /\ Place' = Place
    BY <1>2 DEF Channel, Place, channelVars
  <2>2. Delivery \subseteq Delivery'
    BY <1>8 DEF Delivery
  <2>3. job' \in [Worker -> Delivery'] /\ item' \in Delivery'
    BY <1>1, <1>2, <2>2 DEF TypeOK, workerVars, loopVars
  <2> QED BY <1>1, <1>2, <1>7, <1>8, <2>1, <2>3
          DEF TypeOK, lifeVars, connectionVars, channelVars, workerVars, loopVars, historyVars, CopyRecord
<1>10. Links'
  BY <1>1, <1>2, <1>3, <1>7, <1>9, LinksKept DEF lifeVars
<1>11. CopiesMove
  BY <1>2, <1>8 DEF CopiesMove, channelVars
<1>12. AnswersStay
  BY <1>1, <1>11, AnswersKept
<1>13. LoopReads'
  BY <1>1, <1>2, <1>3, <1>7, <1>12, Clients, LoopStill DEF loopVars, channelVars
<1>14. WorkersAnswer'
  <2>1. consumeGeneration \in Nat
    BY <1>1 DEF TypeOK
  <2>2. \A w \in Worker : pc'[w] = pc[w] \/ {pc[w], pc'[w]} \cap {"idle", "handling"} = {}
    BY <1>2, <1>7, Clients
  <2> QED BY <1>1, <1>2, <1>8, <1>12, <2>1, <2>2, WorkersStill DEF workerVars, channelVars
<1>15. HeldStays
  <2>1. DOMAIN copies \subseteq Nat
    BY <1>1 DEF TypeOK
  <2> QED BY <1>2, <1>8, <2>1, HeldKept DEF historyVars
<1>16. Vouched'
  <2>1. ASSUME NEW m, m = Payload(a), NEW n \in Nat, n <= Len(copies), pc'[a] = "taken"
        PROVE  Held(m, n)'
    BY <1>5, <1>8, <2>1 DEF Held
  <2>2. ASSUME a \in Producer, pc'[a] = "taken"
        PROVE  Held(MessageOf[a], 0)'
    BY <1>5, <2>1, <2>2 DEF Payload
  <2>3. ASSUME a \in Worker, pc'[a] = "taken"
        PROVE  Held(copies[job[a].copy].message, job[a].copy)'
    <3>1. PICK m, n : m = Payload(a) /\ n = job[a].copy
      OBVIOUS
    <3>2. n \in DOMAIN copies
      BY <1>1, <1>2, <2>3, <3>1 DEF WorkersAnswer, WorkerAnswers
    <3>3. Held(m, n)'
      BY <1>5, <2>1, <2>3, <3>1, <3>2
    <3>4. m = copies[n].message
      BY <2>3, <3>1, Clients DEF Payload
    <3>5. job'[a].copy = n /\ copies'[n].message = m
      BY <1>2, <1>8, <3>1, <3>2, <3>4 DEF workerVars
    <3> QED BY <3>3, <3>5 DEF Held
  <2>4. \A i \in DOMAIN copies : copies'[i].message = copies[i].message
    BY <1>8
  <2>5. \A p \in Producer : pc'[p] = "taken" => pc[p] = "taken" \/ Held(MessageOf[p], 0)'
    BY <1>7, <2>2, Clients
  <2>6. \A w \in Worker :
          /\ pc'[w] \in {"taken", "republished"} =>
               \/ pc[w] \in {"taken", "republished"} /\ job'[w] = job[w]
               \/ Held(copies[job[w].copy].message, job[w].copy)'
          /\ pc'[w] = "ack" => pc[w] = "ack" /\ job'[w] = job[w]
    BY <1>2, <1>7, <2>3, Clients DEF workerVars
  <2> QED BY <1>1, <1>2, <1>15, <2>4, <2>5, <2>6, VouchedStill DEF historyVars
<1> QED BY <1>10, <1>13, <1>14, <1>16 DEF Inv

LEMMA ConfirmKeeps ==
  ASSUME Inv, NEW a \in Publisher, Confirm(a)
  PROVE  Inv'
<1>1. /\ TypeOK /\ Links /\ WorkersAnswer /\ Vouched
  BY DEF Inv, Links
<1>2. /\ pc[a] \in {"taken", "refused"} /\ publishMutex' = None
      /\ UNCHANGED <<lifeVars, connectionVars, channelVars, hand, workerVars, loopVars, copies,
                     faults, handled, rejected>>
      /\ \/ /\ pc[a] = "taken" /\ a \in Producer /\ SendReturns(a)
            /\ accepted' = accepted \cup {MessageOf[a]}
         \/ /\ pc[a] = "taken" /\ a \notin Producer /\ Go(a, "republished")
            /\ UNCHANGED <<used, attempt, accepted>>
         \/ Go(a, "failed") /\ UNCHANGED <<used, attempt, accepted>>
  BY DEF Confirm, Confirms, Unlocks
<1>3. a \in Client /\ a # Loop /\ a \in Producer \cup Worker
  BY Clients DEF Publisher
<1>4. /\ pc' \in [Client -> Step] /\ used' \in [Client -> Channel] /\ attempt' \in [Publisher -> 1..2]
      /\ pc'[a] \in {"done", "republished", "failed"}
      /\ pc'[a] = "republished" => pc[a] = "taken" /\ a \in Worker
      /\ \A d \in Client : d # a => pc'[d] = pc[d] /\ used'[d] = used[d]
      /\ accepted' \subseteq Message
      /\ \A m \in accepted' : m \in accepted \/ Held(m, 0)
  <2>1. /\ used \in [Client -> Channel] /\ attempt \in [Publisher -> 1..2] /\ 1 \in 1..2
        /\ accepted \subseteq Message /\ {"done", "republished", "failed"} \subseteq Step
        /\ None \in Channel
    BY <1>1 DEF TypeOK, Step, Channel
  <2>2. CASE pc[a] = "taken" /\ a \in Producer /\ SendReturns(a) /\ accepted' = accepted \cup {MessageOf[a]}
    <3>1. /\ Go(a, "done") /\ used' = [used EXCEPT ![a] = None]
          /\ attempt' = [attempt EXCEPT ![a] = 1]
      BY <2>2 DEF SendReturns, Forget
    <3>2. attempt' \in [Publisher -> 1..2]
      BY <2>1, <3>1
    <3>3. /\ used' \in [Client -> Channel]
          /\ \A d \in Client : d # a => used'[d] = used[d]
      BY <1>1, <1>3, <2>1, <3>1, UsedMoves
    <3>4. /\ pc' \in [Client -> Step] /\ pc'[a] = "done"
          /\ \A d \in Client : d # a => pc'[d] = pc[d]
      BY <1>1, <1>3, <2>1, <3>1, GoMoves
    <3>5. Held(MessageOf[a], 0) /\ MessageOf[a] \in Message
      BY <1>1, <2>2 DEF Vouched
    <3> QED BY <2>1, <2>2, <3>2, <3>3, <3>4, <3>5
  <2>3. CASE pc[a] = "taken" /\ a \notin Producer /\ Go(a, "republished")
             /\ UNCHANGED <<used, attempt, accepted>>
    BY <1>1, <1>3, <2>1, <2>3, GoMoves
  <2>4. CASE Go(a, "failed") /\ UNCHANGED <<used, attempt, accepted>>
    BY <1>1, <1>3, <2>1, <2>4, GoMoves
  <2> QED BY <1>2, <2>2, <2>3, <2>4
<1>5. TypeOK'
  <2>1. Channel' = Channel /\ Place' = Place /\ Delivery' = Delivery
    BY <1>2 DEF Channel, Place, Delivery, channelVars
  <2> QED BY <1>1, <1>2, <1>4, <2>1 DEF TypeOK, lifeVars, connectionVars, channelVars,
                                       workerVars, loopVars
<1>6. Links'
  BY <1>1, <1>2, <1>3, <1>4, <1>5, LinksKept DEF lifeVars
<1> QED BY <1>2, <1>3, <1>4, <1>6, Clients, StepKeeps DEF loopVars, channelVars, workerVars

LEMMA RetryKeeps ==
  ASSUME Inv, NEW a \in Publisher, Retry(a)
  PROVE  Inv'
<1>1. /\ TypeOK /\ OneDial /\ OnTheConnection /\ NoLeak
  BY DEF Inv, Links
<1>2. /\ pc[a] = "failed" /\ attempt[a] < 2
      /\ attempt' = [attempt EXCEPT ![a] = attempt[a] + 1]
      /\ Go(a, "ensure") /\ used' = [used EXCEPT ![a] = None]
      /\ UNCHANGED <<lifeVars, connectionVars, consumeChannel, consumeGeneration, hand, publishMutex,
                     workerVars, loopVars, faults, historyVars>>
      /\ \/ CloseChannels({publishChannel} \ {None}) /\ publishChannel' = None
         \/ UNCHANGED <<channel, copies, publishChannel>>
  BY DEF Retry, TriesAgain, Forget
<1>3. a \in Client /\ a # Loop
  BY Clients
<1>4. /\ pc' \in [Client -> Step] /\ pc'[a] = "ensure" /\ used' \in [Client -> Channel]
      /\ \A d \in Client : d # a => pc'[d] = pc[d] /\ used'[d] = used[d]
  <2>1. "ensure" \in Step /\ None \in Channel
    BY DEF Step, Channel
  <2>2. /\ pc' \in [Client -> Step] /\ pc'[a] = "ensure"
        /\ \A d \in Client : d # a => pc'[d] = pc[d]
    BY <1>1, <1>2, <1>3, <2>1, GoMoves
  <2>3. used' \in [Client -> Channel] /\ \A d \in Client : d # a => used'[d] = used[d]
    BY <1>1, <1>2, <1>3, <2>1, UsedMoves
  <2> QED BY <2>2, <2>3
<1>5. attempt' \in [Publisher -> 1..2]
  <2>1. attempt \in [Publisher -> 1..2]
    BY <1>1 DEF TypeOK
  <2>2. attempt[a] + 1 \in 1..2
    BY <1>2, <2>1
  <2> QED BY <1>2, <2>1, <2>2
<1>6. /\ channel' \in Seq(ChannelRecord) /\ DOMAIN channel' = DOMAIN channel
      /\ \A ch \in DOMAIN channel :
           /\ channel'[ch].connection = channel[ch].connection
           /\ channel'[ch].tags = channel[ch].tags
           /\ channel'[ch].open => channel[ch].open
           /\ channel'[ch].open /\ ch = publishChannel => publishChannel' = publishChannel
      /\ copies' \in Seq(CopyRecord) /\ DOMAIN copies' = DOMAIN copies
      /\ \A i \in DOMAIN copies : /\ copies'[i].message = copies[i].message
                                  /\ copies'[i].at \in {copies[i].at, Ready}
      /\ publishChannel' \in Channel
  <2>1. CASE CloseChannels({publishChannel} \ {None}) /\ publishChannel' = None
    <3>1. None \notin DOMAIN channel /\ None \in Channel
      BY <1>1, SMTT(20) DEF TypeOK, Channel
    <3> DEFINE chs == {publishChannel} \ {None}
    <3>2. \A ch \in DOMAIN channel : ch = publishChannel => ch \in chs
      BY <3>1
    <3>3. CloseChannels(chs)
      BY <2>1
    <3> HIDE DEF chs
    <3> QED BY <1>1, <2>1, <3>1, <3>2, <3>3, ChannelsClose
  <2>2. CASE UNCHANGED <<channel, copies, publishChannel>>
    BY <1>1, <2>2 DEF TypeOK, ChannelRecord, CopyRecord
  <2> QED BY <1>2, <2>1, <2>2
<1>7. TypeOK'
  <2>1. Channel' = Channel /\ Place' = Place /\ Delivery' = Delivery
    BY <1>6 DEF Channel, Place, Delivery
  <2>2. UNCHANGED <<setup, closing, interrupted, connection, ownsConnection, reconnecting, alive,
                     consumeChannel, consumeGeneration, hand, publishMutex, job, captured,
                     generation, item, faults, accepted, handled, rejected>>
    BY <1>2 DEF lifeVars, connectionVars, workerVars, loopVars, historyVars
  <2>3. /\ setup' \in Setups /\ {closing', interrupted', ownsConnection', reconnecting'} \subseteq BOOLEAN
        /\ connection' \in {None} \cup Nat /\ alive' \subseteq Nat
        /\ {publishChannel', consumeChannel'} \subseteq Channel /\ consumeGeneration' \in Nat
        /\ publishMutex' \in {None} \cup Publisher /\ hand' \in [Client -> {None} \cup Nat]
        /\ job' \in [Worker -> Delivery] /\ captured' \in [Worker -> Channel]
        /\ generation' \in Nat /\ item' \in Delivery /\ faults' \in 0 .. setup'.maxFaults
        /\ accepted' \cup handled' \cup rejected' \subseteq Message
    BY <1>1, <1>6, <2>2 DEF TypeOK
  <2> QED BY <1>4, <1>5, <1>6, <2>1, <2>3, Zenon DEF TypeOK, ChannelRecord, CopyRecord
<1>8. OneDial'
  BY <1>1, <1>2, <1>4, OneDialStill DEF connectionVars
<1>9. OnTheConnection'
  BY <1>1, <1>2, <1>6, ConnectionStill DEF connectionVars, lifeVars
<1>10. NoLeak'
  BY <1>1, <1>2, <1>4, <1>6, <1>9, NoLeakStill
<1>11. Links'
  BY <1>7, <1>8, <1>9, <1>10 DEF Links
<1>12. Ready # Gone
  BY DEF Ready, Gone
<1> QED BY <1>2, <1>3, <1>4, <1>6, <1>11, <1>12, Clients, StepKeeps DEF loopVars, workerVars, historyVars

LEMMA GiveUpKeeps ==
  ASSUME Inv, NEW a \in Publisher, GiveUp(a)
  PROVE  Inv'
<1>1. TypeOK /\ Links
  BY DEF Inv, Links
<1>2. /\ pc[a] = "failed"
      /\ UNCHANGED <<lifeVars, connectionVars, channelVars, hand, publishMutex, workerVars, loopVars,
                     copies, faults, historyVars>>
      /\ \/ /\ a \in Producer /\ Go(a, "done") /\ used' = [used EXCEPT ![a] = None]
            /\ attempt' = [attempt EXCEPT ![a] = 1]
         \/ Go(a, "fallback") /\ UNCHANGED <<used, attempt>>
  BY DEF GiveUp, SendReturns, Forget
<1>3. a \in Client /\ a # Loop /\ a \in Producer \cup Worker
  BY Clients DEF Publisher
<1>4. /\ pc' \in [Client -> Step] /\ used' \in [Client -> Channel] /\ attempt' \in [Publisher -> 1..2]
      /\ pc'[a] \in {"done", "fallback"}
      /\ \A d \in Client : d # a => pc'[d] = pc[d] /\ used'[d] = used[d]
  <2>1. /\ used \in [Client -> Channel] /\ attempt \in [Publisher -> 1..2] /\ 1 \in 1..2
        /\ {"done", "fallback"} \subseteq Step /\ None \in Channel
    BY <1>1 DEF TypeOK, Step, Channel
  <2>2. attempt' \in [Publisher -> 1..2]
    BY <1>2, <2>1
  <2> QED BY <1>1, <1>2, <1>3, <2>1, <2>2, GoMoves, UsedMoves
<1>5. TypeOK'
  <2>1. Channel' = Channel /\ Place' = Place /\ Delivery' = Delivery
    BY <1>2 DEF Channel, Place, Delivery, channelVars
  <2> QED BY <1>1, <1>2, <1>4, <2>1 DEF TypeOK, lifeVars, connectionVars, channelVars,
                                       workerVars, loopVars, historyVars
<1>6. Links'
  BY <1>1, <1>2, <1>3, <1>4, <1>5, LinksKept DEF lifeVars
<1> QED BY <1>2, <1>3, <1>4, <1>6, Clients, StepKeeps DEF loopVars, channelVars, workerVars, historyVars
-----------------------------------------------------------------------------
(* A worker's delivery is answered and forgotten.                          *)
LEMMA ReturnsKeeps ==
  ASSUME Inv, NEW w \in Worker, Returns(w), pc[w] # "store",
         UNCHANGED <<lifeVars, connectionVars, channelVars, hand, publishMutex, loopVars, faults, accepted>>,
         copies' \in Seq(CopyRecord), DOMAIN copies' = DOMAIN copies,
         \A i \in DOMAIN copies :
           /\ copies'[i].message = copies[i].message
           /\ copies'[i].at \in {copies[i].at, Ready, Gone}
           /\ copies'[i].at = Gone => copies[i].at = Gone \/ Held(copies[i].message, i)',
         handled \subseteq handled', rejected \subseteq rejected', handled' \cup rejected' \subseteq Message
  PROVE  Inv'
<1>1. TypeOK /\ Links
  BY DEF Inv, Links
<1>2. w \in Client /\ w \in Publisher /\ w \notin Producer
  BY Clients DEF Publisher
<1>3. /\ Go(w, "idle") /\ used' = [used EXCEPT ![w] = None]
      /\ job' = [job EXCEPT ![w] = NoJob] /\ captured' = [captured EXCEPT ![w] = None]
      /\ attempt' = [attempt EXCEPT ![w] = 1]
  BY DEF Returns, Forget
<1>4. /\ pc' \in [Client -> Step] /\ used' \in [Client -> Channel] /\ pc'[w] = "idle"
      /\ \A d \in Client : d # w => pc'[d] = pc[d] /\ used'[d] = used[d]
  <2>1. "idle" \in Step /\ None \in Channel
    BY DEF Step, Channel
  <2>2. /\ pc' \in [Client -> Step] /\ pc'[w] = "idle"
        /\ \A d \in Client : d # w => pc'[d] = pc[d]
    BY <1>1, <1>2, <1>3, <2>1, GoMoves
  <2>3. used' \in [Client -> Channel] /\ \A d \in Client : d # w => used'[d] = used[d]
    BY <1>1, <1>2, <1>3, <2>1, UsedMoves
  <2> QED BY <2>2, <2>3
<1>5. /\ job' \in [Worker -> Delivery] /\ job'[w] = NoJob
      /\ captured' \in [Worker -> Channel]
      /\ \A v \in Worker : v # w => job'[v] = job[v] /\ captured'[v] = captured[v]
      /\ attempt' \in [Publisher -> 1..2]
  <2>1. /\ job \in [Worker -> Delivery] /\ captured \in [Worker -> Channel]
        /\ attempt \in [Publisher -> 1..2] /\ 1 \in 1..2 /\ None \in Channel
    BY <1>1 DEF TypeOK, Channel
  <2>2. NoJob \in Delivery
    BY DEF NoJob, Delivery
  <2> HIDE DEF NoJob
  <2> QED BY <1>3, <2>1, <2>2
<1>6. TypeOK'
  <2>1. Channel' = Channel /\ Place' = Place /\ Delivery' = Delivery
    BY DEF Channel, Place, Delivery, channelVars
  <2> QED BY <1>1, <1>4, <1>5, <2>1 DEF TypeOK, lifeVars, connectionVars, channelVars, loopVars, CopyRecord
<1>7. Links'
  BY <1>1, <1>2, <1>4, <1>6, LinksKept DEF lifeVars
<1>8. /\ DOMAIN channel' = DOMAIN channel
      /\ \A ch \in DOMAIN channel : channel'[ch].tags = channel[ch].tags
      /\ UNCHANGED <<loopVars, consumeChannel, consumeGeneration, accepted>>
  BY DEF channelVars
<1> QED BY <1>2, <1>4, <1>5, <1>7, <1>8, StepKeeps

LEMMA AnswerKeeps ==
  ASSUME Inv, NEW w \in Worker, NEW verdict \in {"ack", "reject", "retry"}, Answer(w, verdict)
  PROVE  Inv'
<1>1. /\ TypeOK /\ Links /\ WorkersAnswer
  BY DEF Inv, Links
<1>2. /\ pc[w] = "handling"
      /\ handled' = IF verdict = "ack" THEN handled \cup {copies[job[w].copy].message} ELSE handled
      /\ UNCHANGED <<lifeVars, connectionVars, channelVars, hand, publishMutex, loopVars, copies,
                     faults, accepted, rejected>>
  BY DEF Answer
<1>3. w \in Client /\ w \in Publisher /\ w \notin Producer
  BY Clients DEF Publisher
<1>4. /\ copies \in Seq(CopyRecord) /\ handled \cup rejected \subseteq Message
      /\ job \in [Worker -> Delivery] /\ captured \in [Worker -> Channel] /\ used \in [Client -> Channel]
      /\ attempt \in [Publisher -> 1..2] /\ consumeChannel \in Channel
  BY <1>1 DEF TypeOK, CopyRecord
<1>5. job[w].copy \in DOMAIN copies
  BY <1>1, <1>2 DEF WorkersAnswer, WorkerAnswers
<1>6. handled \subseteq handled' /\ handled' \subseteq Message
  <2>1. copies[job[w].copy] \in CopyRecord
    BY <1>4, <1>5
  <2> QED BY <1>2, <1>4, <2>1 DEF CopyRecord
<1>7. CASE ~OnSameChannel(w)
  <2>1. Returns(w)
    BY <1>7 DEF Answer
  <2> QED BY <1>2, <1>4, <1>6, <2>1, ReturnsKeeps
<1>8. CASE OnSameChannel(w)
  <2>1. /\ captured' = [captured EXCEPT ![w] = consumeChannel] /\ UNCHANGED <<used, job>>
        /\ \/ verdict = "retry" /\ Go(w, "ensure") /\ attempt' = [attempt EXCEPT ![w] = 1]
           \/ verdict # "retry" /\ Go(w, verdict) /\ UNCHANGED attempt
    BY <1>8 DEF Answer, StartPublish
  <2>2. /\ pc' \in [Client -> Step] /\ pc'[w] \in {"ack", "reject", "ensure"}
        /\ pc'[w] = "ack" => verdict = "ack"
        /\ \A d \in Client : d # w => pc'[d] = pc[d]
    <3>1. {"ack", "reject", "ensure"} \subseteq Step
      BY DEF Step
    <3> QED BY <1>1, <1>3, <2>1, <3>1, GoMoves
  <2>3. attempt' \in [Publisher -> 1..2]
    <3>1. 1 \in 1..2
      OBVIOUS
    <3> QED BY <1>4, <2>1, <3>1
  <2>4. /\ captured' \in [Worker -> Channel] /\ captured'[w] = consumeChannel
        /\ \A v \in Worker : v # w => captured'[v] = captured[v]
    BY <1>4, <2>1
  <2>5. TypeOK'
    <3>1. Channel' = Channel /\ Place' = Place /\ Delivery' = Delivery
      BY <1>2 DEF Channel, Place, Delivery, channelVars
    <3> QED BY <1>1, <1>2, <1>4, <1>6, <2>1, <2>2, <2>3, <2>4, <3>1
            DEF TypeOK, lifeVars, connectionVars, channelVars, loopVars
  <2>6. Links'
    BY <1>1, <1>2, <1>3, <2>1, <2>2, <2>5, LinksKept DEF lifeVars
  <2>7. WorkerAnswers(w)'
    <3>1. job[w].generation = consumeGeneration /\ consumeChannel # None
      BY <1>8 DEF OnSameChannel, Open
    <3>2. Answers(consumeChannel, job[w].tag, job[w].copy)
      BY <1>1, <1>2, <3>1 DEF WorkersAnswer, WorkerAnswers
    <3>3. UNCHANGED <<copies, channel, job, consumeGeneration>>
      BY <1>2, <2>1 DEF channelVars
    <3>4. Answers(captured[w], job[w].tag, job[w].copy)'
      BY <2>4, <3>2, <3>3 DEF Answers
    <3>5. job[w].generation <= consumeGeneration
      BY <1>1 DEF WorkersAnswer, WorkerAnswers
    <3> QED BY <1>5, <2>2, <3>3, <3>4, <3>5 DEF WorkerAnswers
  <2>8. pc'[w] = "ack" => copies'[job'[w].copy].message \in handled'
    BY <1>2, <2>1, <2>2
  <2>9. /\ DOMAIN channel' = DOMAIN channel /\ DOMAIN copies' = DOMAIN copies
        /\ \A ch \in DOMAIN channel : channel'[ch].tags = channel[ch].tags
        /\ \A i \in DOMAIN copies : copies'[i] = copies[i]
        /\ UNCHANGED <<loopVars, consumeChannel, consumeGeneration, rejected, accepted>>
        /\ \A d \in Client : d # w => pc'[d] = pc[d] /\ used'[d] = used[d]
        /\ \A v \in Worker : v # w => job'[v] = job[v] /\ captured'[v] = captured[v]
    BY <1>2, <2>1, <2>2, <2>4 DEF channelVars
  <2> QED BY <1>3, <1>6, <2>2, <2>6, <2>7, <2>8, <2>9, StepKeeps
<1> QED BY <1>7, <1>8

(* What a worker settles is its delivery.                                  *)
LEMMA SettlesOwn ==
  ASSUME TypeOK, WorkersAnswer, NEW w \in Worker, pc[w] \notin {"idle", "handling"},
         NEW place \in {Ready, Gone}, SettleOn(captured[w], job[w].tag, place)
  PROVE  /\ copies' \in Seq(CopyRecord) /\ DOMAIN copies' = DOMAIN copies
         /\ job[w].copy \in DOMAIN copies
         /\ \A i \in DOMAIN copies :
              /\ copies'[i].message = copies[i].message
              /\ \/ copies'[i] = copies[i]
                 \/ i = job[w].copy /\ copies'[i].at = place /\ copies[i].at \notin {Ready, Gone}
<1>1. /\ copies' \in Seq(CopyRecord) /\ DOMAIN copies' = DOMAIN copies
      /\ \A i \in DOMAIN copies :
           /\ copies'[i].message = copies[i].message
           /\ \/ copies'[i] = copies[i]
              \/ /\ copies[i].at = At(captured[w], job[w].tag) /\ Open(captured[w])
                 /\ copies'[i].at = place
  <2> DEFINE tag == job[w].tag
             ch == captured[w]
  <2>1. SettleOn(ch, tag, place)
    OBVIOUS
  <2> HIDE DEF tag, ch
  <2>2. /\ copies' \in Seq(CopyRecord) /\ DOMAIN copies' = DOMAIN copies
        /\ \A i \in DOMAIN copies :
             /\ copies'[i].message = copies[i].message
             /\ \/ copies'[i] = copies[i]
                \/ copies[i].at = At(ch, tag) /\ Open(ch) /\ copies'[i].at = place
    BY <2>1, Settles
  <2> QED BY <2>2 DEF tag, ch
<1>2. Answers(captured[w], job[w].tag, job[w].copy)
  BY DEF WorkersAnswer, WorkerAnswers
<1>3. At(captured[w], job[w].tag) \notin {Ready, Gone}
  <2>1. captured[w] # None
    BY <1>2 DEF Answers, TypeOK
  <2> QED BY <2>1 DEF At, Ready, Gone
<1> QED BY <1>1, <1>2, <1>3 DEF Answers

LEMMA WorkerKeeps ==
  ASSUME Inv, NEW w \in Worker, Ack(w) \/ Reject(w) \/ Fallback(w) \/ Republished(w)
  PROVE  Inv'
<1>1. /\ TypeOK /\ WorkersAnswer /\ Vouched
  BY DEF Inv, Links
<1>2. /\ pc[w] \in {"ack", "reject", "fallback", "republished"}
      /\ Returns(w)
      /\ UNCHANGED <<lifeVars, connectionVars, channelVars, hand, publishMutex, loopVars, faults,
                     accepted, handled>>
  BY DEF Ack, Reject, Fallback, Republished, WorkerDone
<1>3. /\ handled \cup rejected \subseteq Message /\ copies \in Seq(CopyRecord)
      /\ Gone \in {Ready, Gone} /\ Ready \in {Ready, Gone} /\ Ready # Gone
  BY <1>1 DEF TypeOK, CopyRecord, Ready, Gone
<1>4. CASE Ack(w)
  <2>1. /\ copies' \in Seq(CopyRecord) /\ DOMAIN copies' = DOMAIN copies
        /\ \A i \in DOMAIN copies :
             /\ copies'[i].message = copies[i].message
             /\ \/ copies'[i] = copies[i]
                \/ i = job[w].copy /\ copies'[i].at = Gone
    BY <1>1, <1>2, <1>3, <1>4, SettlesOwn DEF Ack
  <2>2. copies[job[w].copy].message \in handled'
    BY <1>1, <1>2, <1>4 DEF Vouched, Ack
  <2>3. \A i \in DOMAIN copies : i = job[w].copy => Held(copies[i].message, i)'
    BY <2>1, <2>2 DEF Held
  <2>4. UNCHANGED rejected
    BY <1>4 DEF Ack
  <2> QED BY <1>2, <1>3, <2>1, <2>3, <2>4, ReturnsKeeps
<1>5. CASE Reject(w)
  <2>1. /\ copies' \in Seq(CopyRecord) /\ DOMAIN copies' = DOMAIN copies
        /\ \A i \in DOMAIN copies :
             /\ copies'[i].message = copies[i].message
             /\ \/ copies'[i] = copies[i]
                \/ copies'[i].at = Gone /\ copies[i].at \notin {Ready, Gone}
    BY <1>1, <1>2, <1>3, <1>5, SettlesOwn DEF Reject
  <2>2. rejected' = rejected \cup {copies[i].message : i \in {j \in DOMAIN copies : copies'[j] # copies[j]}}
    BY <1>5 DEF Reject
  <2>3. \A i \in DOMAIN copies : copies[i] \in CopyRecord
    BY <1>3
  <2>4. rejected \subseteq rejected' /\ rejected' \subseteq Message
    BY <1>3, <2>2, <2>3 DEF CopyRecord
  <2>5. \A i \in DOMAIN copies : copies'[i].at = Gone => copies[i].at = Gone \/ Held(copies[i].message, i)'
    <3>1. ASSUME NEW i \in DOMAIN copies, copies'[i].at = Gone, copies[i].at # Gone
          PROVE  Held(copies[i].message, i)'
      <4>1. copies'[i] # copies[i]
        BY <3>1
      <4>2. copies[i].message \in rejected'
        BY <2>2, <4>1
      <4>3. copies'[i].message = copies[i].message
        BY <2>1
      <4> QED BY <4>2, <4>3 DEF Held
    <3> QED BY <3>1
  <2> QED BY <1>2, <1>3, <2>1, <2>4, <2>5, ReturnsKeeps
<1>6. CASE Fallback(w)
  <2>1. /\ copies' \in Seq(CopyRecord) /\ DOMAIN copies' = DOMAIN copies
        /\ \A i \in DOMAIN copies :
             /\ copies'[i].message = copies[i].message
             /\ \/ copies'[i] = copies[i]
                \/ copies'[i].at = Ready
    BY <1>1, <1>2, <1>3, <1>6, SettlesOwn DEF Fallback
  <2>2. UNCHANGED rejected
    BY <1>6 DEF Fallback
  <2> QED BY <1>2, <1>3, <2>1, <2>2, ReturnsKeeps
<1>7. CASE Republished(w)
  <2>1. /\ copies' \in Seq(CopyRecord) /\ DOMAIN copies' = DOMAIN copies
        /\ \A i \in DOMAIN copies :
             /\ copies'[i].message = copies[i].message
             /\ \/ copies'[i] = copies[i]
                \/ i = job[w].copy /\ copies'[i].at = Gone
    <3>1. CASE UNCHANGED copies
      BY <1>3, <3>1
    <3>2. CASE SettleOn(captured[w], job[w].tag, Gone)
      BY <1>1, <1>2, <1>3, <3>2, SettlesOwn
    <3> QED BY <1>7, <3>1, <3>2 DEF Republished
  <2>2. UNCHANGED rejected
    BY <1>7 DEF Republished
  <2>3. PICK m, n : m = copies[job[w].copy].message /\ n = job[w].copy
    OBVIOUS
  <2>4. n \in DOMAIN copies /\ n \in Nat /\ Held(m, n)
    BY <1>1, <1>2, <1>7, <2>3 DEF Vouched, Republished, WorkersAnswer, WorkerAnswers, TypeOK
  <2>5. DOMAIN copies \subseteq Nat
    BY <1>1 DEF TypeOK
  <2>6. Held(m, n)'
    <3>1. \A i \in DOMAIN copies : i > n => copies'[i] = copies[i]
      BY <2>1, <2>3, <2>4, <2>5
    <3> QED BY <1>2, <2>1, <2>2, <2>4, <3>1 DEF Held
  <2>7. \A i \in DOMAIN copies : i = job[w].copy => Held(copies[i].message, i)'
    <3>1. ASSUME NEW i \in DOMAIN copies, i = job[w].copy
          PROVE  Held(copies[i].message, i)'
      <4>1. copies'[i].message = m /\ i = n
        BY <2>1, <2>3, <3>1
      <4> QED BY <2>6, <4>1 DEF Held
    <3> QED BY <3>1
  <2> QED BY <1>2, <1>3, <2>1, <2>2, <2>7, ReturnsKeeps
<1> QED BY <1>4, <1>5, <1>6, <1>7
-----------------------------------------------------------------------------
(* The consume loop: what is left to say of a step of its own.             *)
LEMMA LoopKeeps ==
  ASSUME Inv, NEW place \in Step, place \notin {"dial", "store"}, LoopSteps(place), pc[Loop] # "store",
         UNCHANGED <<publishChannel, consumeGeneration>>,
         consumeChannel' \in {None, consumeChannel},
         DOMAIN channel' = DOMAIN channel,
         \A ch \in DOMAIN channel :
           /\ channel'[ch].connection = channel[ch].connection
           /\ channel'[ch].open => channel[ch].open
           /\ channel'[ch].open /\ ch = consumeChannel => consumeChannel' = consumeChannel,
         \A d \in Client : d # Loop => used'[d] = used[d],
         AnswersStay, DOMAIN copies' = DOMAIN copies,
         \A i \in DOMAIN copies :
           /\ copies'[i].message = copies[i].message
           /\ copies'[i].at = Gone => copies[i].at = Gone \/ Held(copies[i].message, i)',
         rejected \subseteq rejected'
  PROVE  /\ pc' \in [Client -> Step] /\ pc'[Loop] = place
         /\ OneDial' /\ OnTheConnection' /\ NoLeak' /\ WorkersAnswer' /\ Vouched'
<1>1. /\ TypeOK /\ OneDial /\ OnTheConnection /\ NoLeak /\ WorkersAnswer /\ Vouched
  BY DEF Inv, Links
<1>2. /\ Go(Loop, place)
      /\ UNCHANGED <<lifeVars, connectionVars, hand, publishVars, workerVars, accepted, handled>>
  BY DEF LoopSteps
<1>3. /\ pc' \in [Client -> Step] /\ pc'[Loop] = place
      /\ \A d \in Client : d # Loop => pc'[d] = pc[d]
  BY <1>1, <1>2, Clients, GoMoves
<1>4. OneDial'
  BY <1>1, <1>2, <1>3, OneDialStill DEF connectionVars
<1>5. OnTheConnection'
  BY <1>1, <1>2, ConnectionStill DEF connectionVars, lifeVars
<1>6. NoLeak'
  BY <1>1, <1>3, <1>5, NoLeakStill
<1>7. consumeGeneration \in Nat /\ DOMAIN copies \subseteq Nat
  BY <1>1 DEF TypeOK
<1>8. WorkersAnswer'
  BY <1>1, <1>2, <1>3, <1>7, Clients, WorkersStill DEF workerVars
<1>9. HeldStays
  BY <1>2, <1>7, HeldKept
<1>10. Vouched'
  BY <1>1, <1>2, <1>3, <1>9, Clients, VouchedStill DEF workerVars
<1> QED BY <1>3, <1>4, <1>5, <1>6, <1>8, <1>10

(* The steps that read or stop, and touch no copy.                         *)
LEMMA QuietKeeps ==
  ASSUME Inv, Consume \/ LoopEnds \/ DeliveriesEnd \/ Backoff
  PROVE  Inv'
<1>1. TypeOK /\ LoopReads
  BY DEF Inv, Links
<1>2. /\ pc[Loop] # "store"
      /\ \E place \in {"select", "recover", "ended", "ensure"} :
           /\ LoopSteps(place)
           /\ place = "select" => pc[Loop] = "consume"
      /\ UNCHANGED <<channelVars, copies, rejected>>
      /\ item' \in {item, NoJob} /\ generation' \in {0, generation, consumeGeneration}
      /\ faults' = faults \/ Spoil
      /\ UNCHANGED used \/ Forget(Loop)
  BY DEF Consume, LoopEnds, DeliveriesEnd, Backoff, loopVars
<1>3. PICK place \in {"select", "recover", "ended", "ensure"} :
        LoopSteps(place) /\ (place = "select" => pc[Loop] = "consume")
  BY <1>2
<1>4. place \in Step /\ place \notin {"dial", "store"}
  BY DEF Step
<1>5. /\ used' \in [Client -> Channel] /\ \A d \in Client : d # Loop => used'[d] = used[d]
      /\ place = "select" => UNCHANGED used
  <2>1. CASE UNCHANGED used
    BY <1>1, <2>1 DEF TypeOK
  <2>2. CASE used' = [used EXCEPT ![Loop] = None] /\ pc[Loop] # "consume"
    BY <1>1, <1>3, <2>2, Clients, UsedMoves DEF Channel
  <2> QED BY <1>2, <2>1, <2>2 DEF Consume, LoopEnds, DeliveriesEnd, Backoff, Forget
<1>6. CopiesMove
  BY <1>2 DEF CopiesMove, channelVars
<1>7. AnswersStay
  BY <1>1, <1>6, AnswersKept
<1>8. /\ pc' \in [Client -> Step] /\ pc'[Loop] = place
      /\ OneDial' /\ OnTheConnection' /\ NoLeak' /\ WorkersAnswer' /\ Vouched'
  BY <1>2, <1>3, <1>4, <1>5, <1>7, LoopKeeps DEF channelVars
<1>9. TypeOK'
  <2>1. Channel' = Channel /\ Place' = Place /\ Delivery' = Delivery
    BY <1>2 DEF Channel, Place, Delivery, channelVars
  <2>2. item' \in Delivery /\ generation' \in Nat
    BY <1>1, <1>2 DEF TypeOK, NoJob, Delivery
  <2>3. faults' \in 0 .. setup.maxFaults
    BY <1>1, <1>2 DEF TypeOK, Spoil
  <2> QED BY <1>1, <1>2, <1>3, <1>5, <1>8, <2>1, <2>2, <2>3
          DEF LoopSteps, TypeOK, lifeVars, connectionVars, channelVars, publishVars, workerVars
<1>10. LoopReads'
  <2>1. consumeGeneration \in Nat /\ {generation, item.generation} \subseteq 0 .. consumeGeneration
    BY <1>1 DEF TypeOK, LoopReads
  <2>2. {generation, item.generation}' \subseteq 0 .. consumeGeneration
    BY <1>2, <2>1 DEF NoJob
  <2> QED BY <1>1, <1>2, <1>3, <1>5, <1>8, <2>2 DEF LoopReads, channelVars
<1> QED BY <1>8, <1>9, <1>10 DEF Inv, Links

LEMMA RecoverKeeps ==
  ASSUME Inv, Recover
  PROVE  Inv'
<1>1. TypeOK /\ LoopReads
  BY DEF Inv, Links
<1> DEFINE chs == {consumeChannel} \ {None}
<1>2. /\ pc[Loop] = "recover" /\ CloseChannels(chs) /\ consumeChannel' = None
      /\ used' = [used EXCEPT ![Loop] = None] /\ LoopSteps("wait")
      /\ UNCHANGED <<publishChannel, consumeGeneration, loopVars, faults, rejected>>
  BY DEF Recover, Forget
<1>3. \A ch \in DOMAIN channel : ch = consumeChannel => ch \in chs
  BY <1>1 DEF TypeOK
<1> HIDE DEF chs
<1>4. /\ channel' \in Seq(ChannelRecord) /\ DOMAIN channel' = DOMAIN channel
      /\ \A ch \in DOMAIN channel :
           /\ channel'[ch].connection = channel[ch].connection
           /\ channel'[ch].tags = channel[ch].tags
           /\ channel'[ch].open <=> channel[ch].open /\ ch \notin chs
      /\ copies' \in Seq(CopyRecord) /\ DOMAIN copies' = DOMAIN copies
      /\ \A i \in DOMAIN copies : /\ copies'[i].message = copies[i].message
                                  /\ copies'[i].at \in {copies[i].at, Ready}
  BY <1>1, <1>2, ChannelsClose
<1>5. /\ used' \in [Client -> Channel] /\ \A d \in Client : d # Loop => used'[d] = used[d]
  BY <1>1, <1>2, Clients, UsedMoves DEF Channel
<1>6. CopiesMove
  BY <1>4 DEF CopiesMove
<1>7. AnswersStay
  BY <1>1, <1>6, AnswersKept
<1>8. "wait" \in Step /\ Ready # Gone
  BY DEF Step, Ready, Gone
<1>9. /\ pc' \in [Client -> Step] /\ pc'[Loop] = "wait"
      /\ OneDial' /\ OnTheConnection' /\ NoLeak' /\ WorkersAnswer' /\ Vouched'
  BY <1>2, <1>3, <1>4, <1>5, <1>7, <1>8, LoopKeeps
<1>10. TypeOK'
  <2>1. Channel' = Channel /\ Place' = Place /\ Delivery' = Delivery
    BY <1>4 DEF Channel, Place, Delivery
  <2> QED BY <1>1, <1>2, <1>4, <1>5, <1>9, <2>1
          DEF LoopSteps, TypeOK, lifeVars, connectionVars, publishVars, workerVars, loopVars,
              ChannelRecord, CopyRecord, Channel
<1>11. LoopReads'
  BY <1>1, <1>2, <1>9 DEF LoopReads, loopVars
<1> QED BY <1>9, <1>10, <1>11 DEF Inv, Links

LEMMA RejectPoisonKeeps ==
  ASSUME Inv, RejectPoison
  PROVE  Inv'
<1>1. TypeOK /\ LoopReads
  BY DEF Inv, Links
<1>2. /\ pc[Loop] = "poison" /\ SettleOn(used[Loop], item.tag, Gone)
      /\ rejected' = IF Open(used[Loop]) THEN rejected \cup {copies[item.copy].message} ELSE rejected
      /\ item' = NoJob /\ LoopSteps("select")
      /\ UNCHANGED <<channelVars, used, generation, faults>>
  BY DEF RejectPoison
<1>3. /\ copies \in Seq(CopyRecord) /\ rejected \subseteq Message
      /\ Gone \in {Ready, Gone} /\ "select" \in Step
  BY <1>1 DEF TypeOK, CopyRecord, Step
<1>4. /\ copies' \in Seq(CopyRecord) /\ DOMAIN copies' = DOMAIN copies
      /\ \A i \in DOMAIN copies :
           /\ copies'[i].message = copies[i].message
           /\ \/ copies'[i] = copies[i]
              \/ copies[i].at = At(used[Loop], item.tag) /\ Open(used[Loop]) /\ copies'[i].at = Gone
  <2> DEFINE tag == item.tag
             ch == used[Loop]
  <2>1. SettleOn(ch, tag, Gone)
    BY <1>2
  <2> HIDE DEF tag, ch
  <2>2. /\ copies' \in Seq(CopyRecord) /\ DOMAIN copies' = DOMAIN copies
        /\ \A i \in DOMAIN copies :
             /\ copies'[i].message = copies[i].message
             /\ \/ copies'[i] = copies[i]
                \/ copies[i].at = At(ch, tag) /\ Open(ch) /\ copies'[i].at = Gone
    BY <1>1, <1>3, <2>1, Settles
  <2> QED BY <2>2 DEF tag, ch
<1>5. Answers(used[Loop], item.tag, item.copy)
  BY <1>1, <1>2 DEF LoopReads
<1>6. rejected \subseteq rejected' /\ rejected' \subseteq Message
  <2>1. copies[item.copy] \in CopyRecord
    BY <1>3, <1>5 DEF Answers
  <2> QED BY <1>2, <1>3, <2>1 DEF CopyRecord
<1>7. \A i \in DOMAIN copies : copies'[i].at = Gone => copies[i].at = Gone \/ Held(copies[i].message, i)'
  <2>1. ASSUME NEW i \in DOMAIN copies, copies'[i].at = Gone, copies[i].at # Gone
        PROVE  Held(copies[i].message, i)'
    <3>1. copies[i].at = At(used[Loop], item.tag) /\ Open(used[Loop])
      BY <1>4, <2>1
    <3>2. i = item.copy
      BY <1>5, <3>1 DEF Answers
    <3>3. copies[i].message \in rejected' /\ copies'[i].message = copies[i].message
      BY <1>2, <1>4, <3>1, <3>2
    <3> QED BY <3>3 DEF Held
  <2> QED BY <2>1
<1>8. CopiesMove
  BY <1>2, <1>4 DEF CopiesMove, channelVars
<1>9. AnswersStay
  BY <1>1, <1>8, AnswersKept
<1>10. /\ pc' \in [Client -> Step] /\ pc'[Loop] = "select"
       /\ OneDial' /\ OnTheConnection' /\ NoLeak' /\ WorkersAnswer' /\ Vouched'
  BY <1>2, <1>3, <1>4, <1>6, <1>7, <1>9, LoopKeeps DEF channelVars
<1>11. TypeOK'
  <2>1. Channel' = Channel /\ Place' = Place /\ Delivery' = Delivery
    BY <1>2, <1>4 DEF Channel, Place, Delivery, channelVars
  <2>2. NoJob \in Delivery
    BY DEF NoJob, Delivery
  <2> HIDE DEF NoJob
  <2> QED BY <1>1, <1>2, <1>4, <1>6, <1>10, <2>1, <2>2
          DEF LoopSteps, TypeOK, lifeVars, connectionVars, channelVars, publishVars, workerVars, CopyRecord
<1>12. LoopReads'
  <2>1. consumeGeneration \in Nat
    BY <1>1 DEF TypeOK
  <2> QED BY <1>1, <1>2, <1>10, <2>1 DEF LoopReads, channelVars, NoJob
<1> QED BY <1>10, <1>11, <1>12 DEF Inv, Links

(* A delivery has a tag that no delivery of its channel had.               *)
LEMMA DeliverKeeps ==
  ASSUME Inv, Deliver
  PROVE  Inv'
<1>1. TypeOK /\ LoopReads /\ Tagged
  BY DEF Inv, Links, WorkersAnswer
<1> DEFINE ch == used[Loop]
           tag == channel[ch].tags + 1
<1>2. PICK i \in DOMAIN copies :
        /\ copies[i].at = Ready
        /\ item' = [copy |-> i, tag |-> tag, generation |-> generation]
        /\ copies' = [copies EXCEPT ![i].at = At(ch, tag)]
        /\ channel' = [channel EXCEPT ![ch].tags = tag]
        /\ LoopSteps(IF copies[i].message \in Poison THEN "poison" ELSE "forward")
  BY DEF Deliver
<1>3. /\ pc[Loop] = "select"
      /\ UNCHANGED <<publishChannel, consumeChannel, consumeGeneration, used, generation, faults, rejected>>
  BY DEF Deliver
<1>4. /\ ch \in DOMAIN channel /\ ch \in Nat /\ consumeChannel \in {None, ch}
      /\ DOMAIN channel \subseteq Nat
  <2>1. DOMAIN channel \subseteq Nat
    BY <1>1 DEF TypeOK
  <2> QED BY <1>1, <1>3, <2>1 DEF LoopReads
<1>5. /\ channel \in Seq(ChannelRecord) /\ copies \in Seq(CopyRecord)
      /\ DOMAIN channel = 1 .. Len(channel) /\ DOMAIN copies = 1 .. Len(copies)
      /\ Len(channel) \in Nat /\ Len(copies) \in Nat
  BY <1>1 DEF TypeOK, ChannelRecord, CopyRecord
<1>6. channel[ch] \in ChannelRecord /\ channel[ch].tags \in Nat
  <2>1. channel[ch] \in ChannelRecord
    BY <1>4, <1>5
  <2> QED BY <2>1 DEF ChannelRecord
<1>7. /\ tag \in Nat /\ tag > channel[ch].tags /\ tag >= 1
  BY <1>6
<1>8. /\ channel' \in Seq(ChannelRecord) /\ DOMAIN channel' = DOMAIN channel
      /\ channel'[ch].tags = tag
      /\ \A other \in DOMAIN channel : /\ channel'[other].connection = channel[other].connection
                                       /\ channel'[other].open = channel[other].open
                                       /\ other # ch => channel'[other].tags = channel[other].tags
  <2> DEFINE next == [channel[ch] EXCEPT !.tags = tag]
  <2>1. /\ next \in ChannelRecord /\ next.connection = channel[ch].connection
        /\ next.open = channel[ch].open /\ next.tags = tag
    BY <1>6, <1>7 DEF ChannelRecord
  <2>2. channel' = [channel EXCEPT ![ch] = next]
    BY <1>2
  <2> HIDE DEF next, tag, ch
  <2>3. channel \in [1 .. Len(channel) -> ChannelRecord]
    BY <1>5
  <2>4. channel' \in [1 .. Len(channel) -> ChannelRecord]
    BY <1>5, <2>1, <2>2, <2>3
  <2>5. channel' \in Seq(ChannelRecord)
    BY <1>5, <2>4
  <2> QED BY <1>4, <1>5, <2>1, <2>2, <2>5
<1>9. At(ch, tag) \in Place /\ At(ch, tag).channel = ch /\ At(ch, tag).tag = tag /\ At(ch, tag) # Gone
  <2>1. ch # None
    BY <1>4
  <2> QED BY <1>4, <1>7, <2>1 DEF At, Place, Channel, Gone
<1>10. /\ copies' \in Seq(CopyRecord) /\ DOMAIN copies' = DOMAIN copies
       /\ copies'[i].message = copies[i].message /\ copies'[i].at = At(ch, tag)
       /\ \A j \in DOMAIN copies : j # i => copies'[j] = copies[j]
  <2> DEFINE place == At(ch, tag)
             next == [copies[i] EXCEPT !.at = place]
  <2>0. place \in Place /\ copies[i] \in CopyRecord
    BY <1>5, <1>9
  <2>1. copies' = [copies EXCEPT ![i] = next]
    BY <1>2
  <2> HIDE DEF place
  <2>2. next \in CopyRecord /\ next.message = copies[i].message /\ next.at = place
    BY <2>0 DEF CopyRecord
  <2> HIDE DEF next, tag, ch
  <2>3. copies \in [1 .. Len(copies) -> CopyRecord]
    BY <1>5
  <2>4. copies' \in [1 .. Len(copies) -> CopyRecord]
    BY <1>5, <2>1, <2>2, <2>3
  <2>5. copies' \in Seq(CopyRecord)
    BY <1>5, <2>4
  <2> QED BY <1>5, <2>1, <2>2, <2>5 DEF place
<1> HIDE DEF tag, ch
<1>11. \A j \in DOMAIN copies : copies[j] \in CopyRecord /\ copies[j].at \in Place
  <2>1. \A j \in DOMAIN copies : copies[j] \in CopyRecord
    BY <1>5
  <2> QED BY <2>1 DEF CopyRecord
<1>12. \A j \in DOMAIN copies : copies[j].at # At(ch, tag)
  <2>1. ASSUME NEW j \in DOMAIN copies, copies[j].at = At(ch, tag)
        PROVE  FALSE
    <3>1. copies[j].at.channel # None /\ copies[j].at.channel = ch /\ copies[j].at.tag = tag
      BY <1>4, <1>9, <2>1
    <3>2. tag \in 1 .. channel[ch].tags
      BY <1>1, <3>1 DEF Tagged
    <3> QED BY <1>6, <1>7, <3>2
  <2> QED BY <2>1
<1>13. AnswersStay
  <2>1. ASSUME NEW c, NEW t, NEW copy, Answers(c, t, copy)
        PROVE  Answers(c, t, copy)'
    <3>1. c \in DOMAIN channel /\ t \in 1 .. channel[c].tags /\ copy \in DOMAIN copies
      BY <2>1 DEF Answers
    <3>2. t \in 1 .. channel'[c].tags
      BY <1>6, <1>7, <1>8, <3>1
    <3>3. At(ch, tag) # At(c, t)
      <4>1. ASSUME c = ch, t = tag PROVE FALSE
        BY <1>6, <1>7, <3>1, <4>1
      <4> QED BY <4>1 DEF At
    <3>4. \A j \in DOMAIN copies : copies'[j].at = At(c, t) => copies[j].at = At(c, t)
      BY <1>10, <3>3
    <3> QED BY <1>8, <1>10, <2>1, <3>1, <3>2, <3>4 DEF Answers
  <2>2. ASSUME NEW j \in DOMAIN copies, copies'[j].at.channel # None
        PROVE  copies'[j].at.tag \in 1 .. channel'[copies'[j].at.channel].tags
    <3>1. CASE j = i
      BY <1>7, <1>8, <1>9, <1>10, <3>1
    <3>2. CASE j # i
      <4>1. copies'[j].at = copies[j].at
        BY <1>10, <3>2
      <4>2. copies[j].at.channel \in DOMAIN channel
        BY <1>11, <2>2, <4>1 DEF Place, Channel
      <4>3. copies[j].at.tag \in 1 .. channel[copies[j].at.channel].tags
        BY <1>1, <2>2, <4>1 DEF Tagged
      <4> QED BY <1>6, <1>7, <1>8, <4>1, <4>2, <4>3
    <3> QED BY <3>1, <3>2
  <2>3. Tagged'
    BY <1>10, <2>2 DEF Tagged
  <2> QED BY <2>1, <2>3 DEF AnswersStay
<1>14. PICK place \in {"poison", "forward"} : LoopSteps(place)
  BY <1>2
<1>15. place \in Step
  BY DEF Step
<1>16. /\ pc' \in [Client -> Step] /\ pc'[Loop] = place
       /\ OneDial' /\ OnTheConnection' /\ NoLeak' /\ WorkersAnswer' /\ Vouched'
  <2>1. place \notin {"dial", "store"}
    BY <1>14
  <2>2. pc[Loop] # "store"
    BY <1>3
  <2>3. rejected \subseteq rejected'
    BY <1>3
  <2>4. \A j \in DOMAIN copies :
           /\ copies'[j].message = copies[j].message
           /\ copies'[j].at = Gone => copies[j].at = Gone \/ Held(copies[j].message, j)'
    <3>1. ASSUME NEW j \in DOMAIN copies
          PROVE  copies'[j].message = copies[j].message /\ (copies'[j].at = Gone => copies[j].at = Gone)
      BY <1>9, <1>10
    <3> QED BY <3>1, Zenon
  <2> QED BY <1>3, <1>8, <1>10, <1>13, <1>14, <1>15, <2>1, <2>2, <2>3, <2>4, LoopKeeps, SMTT(20)
<1>17. TypeOK'
  <2>1. Channel' = Channel /\ Place' = Place /\ Delivery' = Delivery
    BY <1>8, <1>10 DEF Channel, Place, Delivery
  <2>2. item' \in Delivery
    BY <1>1, <1>2, <1>7 DEF TypeOK, Delivery
  <2> QED BY <1>1, <1>3, <1>8, <1>10, <1>14, <1>16, <2>1, <2>2
          DEF LoopSteps, TypeOK, lifeVars, connectionVars, publishVars, workerVars, CopyRecord, ChannelRecord
<1>18. LoopReads'
  <2>1. /\ item'.copy = i /\ item'.tag = tag /\ item'.generation = generation
        /\ used'[Loop] = ch
    BY <1>2, <1>3 DEF ch
  <2>2. Answers(used[Loop], item.tag, item.copy)'
    BY <1>4, <1>6, <1>7, <1>8, <1>10, <1>12, <2>1 DEF Answers
  <2> QED BY <1>1, <1>3, <1>4, <1>8, <1>16, <2>1, <2>2 DEF LoopReads
<1> QED BY <1>16, <1>17, <1>18 DEF Inv, Links

LEMMA ForwardKeeps ==
  ASSUME Inv, NEW w \in Worker, Forward(w)
  PROVE  Inv'
<1>1. /\ TypeOK /\ OneDial /\ OnTheConnection /\ NoLeak /\ LoopReads /\ WorkersAnswer /\ Vouched
  BY DEF Inv, Links
<1>2. /\ pc[Loop] = "forward" /\ pc[w] = "idle"
      /\ job' = [job EXCEPT ![w] = item] /\ item' = NoJob
      /\ pc' = [pc EXCEPT ![Loop] = "select", ![w] = "handling"]
      /\ UNCHANGED <<lifeVars, connectionVars, channelVars, hand, used, publishVars, captured,
                     generation, copies, faults, historyVars>>
  BY DEF Forward
<1>3. /\ pc \in [Client -> Step] /\ job \in [Worker -> Delivery] /\ item \in Delivery
      /\ consumeGeneration \in Nat /\ DOMAIN copies \subseteq Nat
      /\ {"select", "handling"} \subseteq Step
  BY <1>1 DEF TypeOK, Step
<1>4. /\ pc' \in [Client -> Step] /\ pc'[Loop] = "select" /\ pc'[w] = "handling"
      /\ \A d \in Client : d \notin {Loop, w} => pc'[d] = pc[d]
      /\ job' \in [Worker -> Delivery] /\ job'[w] = item
      /\ \A v \in Worker : v # w => job'[v] = job[v]
  BY <1>2, <1>3, Clients
<1>5. TypeOK'
  <2>1. Channel' = Channel /\ Place' = Place /\ Delivery' = Delivery
    BY <1>2 DEF Channel, Place, Delivery, channelVars
  <2>2. NoJob \in Delivery
    BY DEF NoJob, Delivery
  <2> HIDE DEF NoJob
  <2> QED BY <1>1, <1>2, <1>4, <2>1, <2>2
          DEF TypeOK, lifeVars, connectionVars, channelVars, publishVars, historyVars
<1>6. OneDial'
  BY <1>1, <1>2, <1>4, OneDialStill DEF connectionVars
<1>7. OnTheConnection'
  BY <1>1, <1>2, ConnectionStill DEF connectionVars, channelVars, lifeVars
<1>8. NoLeak'
  BY <1>1, <1>2, <1>4, <1>7, NoLeakStill DEF channelVars
<1>9. LoopReads'
  BY <1>1, <1>2, <1>3, <1>4 DEF LoopReads, channelVars, NoJob
<1>10. CopiesMove
  BY <1>2 DEF CopiesMove, channelVars
<1>11. AnswersStay
  BY <1>1, <1>10, AnswersKept
<1>12. Answers(used[Loop], item.tag, item.copy) /\ item.copy \in DOMAIN copies
  BY <1>1, <1>2 DEF LoopReads, Answers
<1>13. WorkerAnswers(w)'
  <2>1. consumeChannel \in {None, used[Loop]} /\ item.generation <= consumeGeneration
    BY <1>1, <1>2, <1>3 DEF LoopReads
  <2>2. UNCHANGED <<copies, channel, consumeChannel, consumeGeneration>>
    BY <1>2 DEF channelVars
  <2>3. consumeChannel' # None => Answers(consumeChannel, job[w].tag, job[w].copy)'
    BY <1>4, <1>12, <2>1, <2>2 DEF Answers
  <2> QED BY <1>4, <1>12, <2>1, <2>2, <2>3 DEF WorkerAnswers
<1>14. WorkersAnswer'
  BY <1>1, <1>2, <1>3, <1>4, <1>11, <1>13, Clients, WorkersStill DEF channelVars
<1>15. HeldStays
  BY <1>2, <1>3, HeldKept DEF historyVars
<1>16. Vouched'
  BY <1>1, <1>2, <1>4, <1>15, Clients, VouchedStill DEF historyVars
<1> QED BY <1>5, <1>6, <1>7, <1>8, <1>9, <1>14, <1>16 DEF Inv, Links
-----------------------------------------------------------------------------
LEMMA InvInit == Init => Inv
<1> SUFFICES ASSUME Init PROVE Inv
  OBVIOUS
<1>1. /\ setup \in Setups /\ setup.stored \in Seq(Message) /\ setup.maxFaults \in Nat
      /\ closing = FALSE /\ interrupted = FALSE
      /\ connection = 1 /\ ownsConnection = FALSE /\ reconnecting = FALSE /\ alive = {1}
      /\ channel = << >> /\ publishChannel = None /\ consumeChannel = None
      /\ consumeGeneration = 0 /\ publishMutex = None
      /\ pc = [c \in Client |-> IF c = Loop /\ setup.receives THEN "ensure" ELSE "idle"]
      /\ hand = [c \in Client |-> None] /\ used = [c \in Client |-> None]
      /\ attempt = [a \in Publisher |-> 1]
      /\ job = [w \in Worker |-> NoJob] /\ captured = [w \in Worker |-> None]
      /\ generation = 0 /\ item = NoJob /\ faults = 0
  BY DEF Init
<1>2. /\ copies = [i \in DOMAIN setup.stored |-> Copy(setup.stored[i])]
      /\ accepted = {setup.stored[i] : i \in DOMAIN setup.stored} /\ handled = {} /\ rejected = {}
  BY DEF Init
<1>3. DOMAIN setup.stored = 1 .. Len(setup.stored) /\ Len(setup.stored) \in Nat
  BY <1>1
<1>4. Ready \in Place /\ Ready # Gone /\ Ready.channel = None
  BY DEF Ready, Gone, Place, Channel
<1>5. \A m \in Message : Copy(m) \in CopyRecord /\ Copy(m).message = m /\ Copy(m).at = Ready
  BY <1>4 DEF Copy, CopyRecord
<1>6. \A i \in DOMAIN setup.stored : setup.stored[i] \in Message
  BY <1>1
<1>7. /\ DOMAIN copies = DOMAIN setup.stored
      /\ \A i \in DOMAIN copies : /\ copies[i] \in CopyRecord /\ copies[i].at = Ready
                                  /\ copies[i].message = setup.stored[i]
  BY <1>2, <1>5, <1>6
<1>8. copies \in Seq(CopyRecord)
  <2>1. copies \in [1 .. Len(setup.stored) -> CopyRecord]
    BY <1>2, <1>3, <1>7
  <2> QED BY <1>3, <2>1
<1>9. TypeOK
  <2>1. {"ensure", "idle"} \subseteq Step /\ None \in Channel /\ NoJob \in Delivery
    BY DEF Step, Channel, NoJob, Delivery
  <2>2. pc \in [Client -> Step]
    BY <1>1, <2>1
  <2>3. job \in [Worker -> Delivery]
    BY <1>1, <2>1
  <2>4. accepted \cup handled \cup rejected \subseteq Message
    BY <1>2, <1>6
  <2>5. channel \in Seq([connection : Nat, open : BOOLEAN, tags : Nat])
    BY <1>1
  <2>6. /\ hand \in [Client -> {None} \cup Nat] /\ used \in [Client -> Channel]
        /\ captured \in [Worker -> Channel]
    BY <1>1, <2>1
  <2>7. attempt \in [Publisher -> 1..2]
    BY <1>1
  <2>8. /\ connection \in {None} \cup Nat /\ alive \subseteq Nat /\ faults \in 0 .. setup.maxFaults
        /\ {publishChannel, consumeChannel} \subseteq Channel
    BY <1>1, <2>1
  <2>9. {closing, interrupted, ownsConnection, reconnecting} \subseteq BOOLEAN
    BY <1>1
  <2> HIDE DEF NoJob
  <2> QED BY <1>1, <1>8, <2>1, <2>2, <2>3, <2>4, <2>5, <2>6, <2>7, <2>8, <2>9 DEF TypeOK, CopyRecord
<1>10. \A c \in Client : pc[c] \in {"ensure", "idle"} /\ (c # Loop => pc[c] = "idle")
  BY <1>1
<1>11. OneDial
  BY <1>10 DEF OneDial
<1>12. DOMAIN channel = {} /\ 1 # None
  BY <1>1
<1>13. OnTheConnection /\ NoLeak
  BY <1>1, <1>12 DEF OnTheConnection, NoLeak
<1>14. LoopReads
  BY <1>1, <1>10, Clients DEF LoopReads, NoJob
<1>15. WorkersAnswer
  BY <1>1, <1>4, <1>7, <1>10, Clients DEF WorkersAnswer, WorkerAnswers, Tagged, NoJob
<1>16. Vouched
  <2>1. ASSUME NEW m \in accepted PROVE Held(m, 0)
    <3>1. PICK i \in DOMAIN setup.stored : m = setup.stored[i]
      BY <1>2
    <3>2. i > 0 /\ i \in DOMAIN copies /\ copies[i].message = m /\ copies[i].at # Gone
      BY <1>3, <1>4, <1>7, <3>1
    <3> QED BY <3>2 DEF Held
  <2> QED BY <1>10, <2>1, Clients DEF Vouched
<1> QED BY <1>9, <1>11, <1>13, <1>14, <1>15, <1>16 DEF Inv, Links

LEMMA InvStutters == Inv /\ UNCHANGED vars => Inv'
<1> SUFFICES ASSUME Inv, UNCHANGED vars PROVE Inv'
  OBVIOUS
<1>1. UNCHANGED <<lifeVars, connectionVars, channelVars, clientVars, publishVars, workerVars, loopVars,
                  copies, faults, historyVars>>
  BY DEF vars
<1> USE <1>1 DEF lifeVars, connectionVars, channelVars, clientVars, publishVars, workerVars, loopVars,
                 historyVars, Inv, Links
<1>2. TypeOK'
  BY DEF TypeOK, Channel, Place, Delivery
<1>3. OneDial' /\ OnTheConnection' /\ NoLeak'
  BY DEF OneDial, OnTheConnection, NoLeak
<1>4. LoopReads' /\ WorkersAnswer'
  BY DEF LoopReads, WorkersAnswer, WorkerAnswers, Tagged, Answers
<1>5. Vouched'
  BY DEF Vouched, Held
<1> QED BY <1>2, <1>3, <1>4, <1>5

LEMMA InvNext == Inv /\ [Next]_vars => Inv'
<1> SUFFICES ASSUME Inv, [Next]_vars PROVE Inv'
  OBVIOUS
<1>1. CASE DropConnection \/ DropChannel \/ Interrupt \/ Close
  BY <1>1, AroundKeeps
<1>2. ASSUME NEW c \in Client, Opening(c) PROVE Inv'
  BY <1>2, EnsureKeeps, ConnectKeeps, DialKeeps, OpenChannelKeeps, StoreChannelKeeps DEF Opening
<1>3. ASSUME NEW a \in Publisher, Publishing(a) PROVE Inv'
  BY <1>3, PublishKeeps, ConfirmKeeps, RetryKeeps, GiveUpKeeps DEF Publishing
<1>4. ASSUME NEW a \in Producer, Send(a) PROVE Inv'
  BY <1>4, SendKeeps
<1>5. ASSUME NEW w \in Worker, Working(w) PROVE Inv'
  BY <1>5, AnswerKeeps, WorkerKeeps DEF Working
<1>6. CASE Looping
  BY <1>6, QuietKeeps, DeliverKeeps, RejectPoisonKeeps, RecoverKeeps, ForwardKeeps DEF Looping
<1>7. CASE UNCHANGED vars
  BY <1>7, InvStutters
<1> QED BY <1>1, <1>2, <1>3, <1>4, <1>5, <1>6, <1>7 DEF Next

THEOREM InvInvariance == Spec => []Inv
BY InvInit, InvNext, PTL DEF Spec

(* Whatever is dropped, refused, reopened or republished, a message that   *)
(* Send reported as sent is handled, rejected, or with the broker.         *)
THEOREM NothingLostHolds == Spec => []NothingLost
<1>1. Inv => NothingLost
  BY DEF Inv, Vouched, Held, NothingLost
<1> QED BY <1>1, InvInvariance, PTL

(* Whatever dials and opens race, nothing is left open at the broker that  *)
(* the transport has no hold of.                                           *)
THEOREM NoLeakHolds == Spec => []NoLeak
<1>1. Inv => NoLeak
  BY DEF Inv, Links
<1> QED BY <1>1, InvInvariance, PTL
=============================================================================
