----------------------- MODULE MessageConsumerProofs ------------------------
(* What becomes of the messages of a consume command, for any messages,    *)
(* workers, transports and policies.                                       *)
EXTENDS MessageConsumer, FiniteSetTheorems, TLAPS

USE ConsumerAssumption

Positions(q, m) == {i \in DOMAIN q : q[i].message = m}
Postponed(d, m) == {e \in d : e.message = m}
Holders(p, h, m) == {w \in Worker : p[w] = "handling" /\ h[w].message = m}

(* An envelope counts the dispatches of its message, and stays within what *)
(* the policy allows.                                                      *)
Attempts(e) == e.redelivery + e.deadLetter

Within(e) ==
  /\ e.redelivery <= policy.retries
  /\ e.deadLetter > 0 => e.redelivery = policy.retries /\ policy.failureTransport
  /\ policy.deadLetters > 0 => e.deadLetter < policy.deadLetters
  /\ policy.deadLetters = 0 => e.deadLetter <= MaxRejections

CountsAttempts ==
  /\ \A i \in DOMAIN queue :
       Within(queue[i]) /\ dispatches[queue[i].message] = Attempts(queue[i])
  /\ \A e \in delayed : Within(e) /\ dispatches[e.message] = Attempts(e)
  /\ \A w \in Worker : pc[w] = "handling" =>
       Within(held[w]) /\ dispatches[held[w].message] = Attempts(held[w]) + 1
  /\ \A m \in Message : sender[m] # "sent" => dispatches[m] = 0

(* The command was told to stop, lost its broker or reached its limit.     *)
LimitFull == policy.limit > 0 /\ processed >= policy.limit
Over == interrupted \/ loopErr \/ LimitFull

At(places) == {w \in Worker : pc[w] \in places}
Choosing == Cardinality(At({"select", "receiving"}))
OnTheWay == Cardinality(At({"select", "receiving", "handling", "counting"}))
Slots == IF reserved <= policy.limit THEN reserved ELSE policy.limit

(* Of the reserved slots of the limit, those not processed yet belong to   *)
(* workers on their way, as long as nothing ended the command.             *)
KeepsSlots ==
  /\ policy.limit > 0 => taken + Choosing <= Slots
  /\ policy.limit > 0 /\ ~Over => Slots = processed + OnTheWay
  /\ ~Over => \A w \in Worker : pc[w] = "ended" => policy.limit > 0 /\ reserved > policy.limit

EndsForAReason ==
  /\ canceled => Over
  /\ command \in {"grace", "timedOut"} => interrupted
  /\ command = "failed" => loopErr
  /\ command = "returned" => interrupted \/ LimitFull

-----------------------------------------------------------------------------
Bit(b) == IF b THEN 1 ELSE 0

(* How often a message is in a queue, when one is appended or taken.       *)
LEMMA PositionsFinite ==
  ASSUME NEW q \in Seq(Envelopes), NEW m
  PROVE  IsFiniteSet(Positions(q, m)) /\ Cardinality(Positions(q, m)) \in Nat
<1>1. Positions(q, m) \in SUBSET (1 .. Len(q)) /\ IsFiniteSet(1 .. Len(q))
  BY FS_Interval DEF Positions
<1> QED BY <1>1, FS_Subset, FS_CardinalityType

LEMMA AppendCounts ==
  ASSUME NEW q \in Seq(Envelopes), NEW e \in Envelopes, NEW m
  PROVE  Cardinality(Positions(Append(q, e), m))
           = Cardinality(Positions(q, m)) + Bit(e.message = m)
<1>1. Positions(Append(q, e), m) =
        IF e.message = m THEN Positions(q, m) \cup {Len(q) + 1} ELSE Positions(q, m)
  BY DEF Positions
<1>2. Len(q) + 1 \notin Positions(q, m)
  BY DEF Positions
<1>3. Cardinality(Positions(q, m) \cup {Len(q) + 1}) = Cardinality(Positions(q, m)) + 1
  BY <1>2, PositionsFinite, FS_AddElement
<1> HIDE DEF Positions
<1> QED BY <1>1, <1>3, PositionsFinite DEF Bit

LEMMA TailCounts ==
  ASSUME NEW q \in Seq(Envelopes), q # << >>, NEW m
  PROVE  Cardinality(Positions(q, m))
           = Cardinality(Positions(Tail(q), m)) + Bit(Head(q).message = m)
<1> DEFINE later == Positions(q, m) \ {1}
           f == [i \in later |-> i - 1]
<1>1. Tail(q) \in Seq(Envelopes) /\ Len(Tail(q)) = Len(q) - 1 /\ Len(q) \in Nat \ {0}
        /\ \A i \in 1 .. Len(q) - 1 : Tail(q)[i] = q[i + 1]
  OBVIOUS
<1>2. later \in SUBSET (2 .. Len(q))
  BY DEF Positions
<1>3. \A i \in later : i - 1 \in Positions(Tail(q), m)
  BY <1>1, <1>2 DEF Positions
<1>4. \A j \in Positions(Tail(q), m) : j + 1 \in later /\ (j + 1) - 1 = j
  BY <1>1 DEF Positions
<1>5. f \in Bijection(later, Positions(Tail(q), m))
  <2> HIDE DEF later
  <2>1. f \in [later -> Positions(Tail(q), m)]
    BY <1>3
  <2>2. \A a, b \in later : f[a] = f[b] => a = b
    BY <1>2
  <2>3. \A j \in Positions(Tail(q), m) : \E i \in later : f[i] = j
    BY <1>4
  <2> QED BY <2>1, <2>2, <2>3 DEF Bijection, Injection, Surjection, IsInjective
<1>6. IsFiniteSet(Positions(q, m)) /\ Cardinality(Positions(q, m)) \in Nat
  BY PositionsFinite
<1>7. IsFiniteSet(later)
        /\ Cardinality(later) = Cardinality(Positions(q, m)) - Bit(1 \in Positions(q, m))
  BY <1>6, FS_RemoveElement DEF Bit
<1>8. Cardinality(Positions(Tail(q), m)) = Cardinality(later)
  <2> HIDE DEF later, f
  <2> QED BY <1>5, <1>7, FS_Bijection DEF ExistsBijection
<1>9. 1 \in Positions(q, m) <=> Head(q).message = m
  BY <1>1 DEF Positions
<1> HIDE DEF later
<1> QED BY <1>6, <1>7, <1>8, <1>9 DEF Bit

(* The same of the envelopes whose requeue is postponed.                   *)
Pile(d) == d \subseteq Envelopes /\ IsFiniteSet(d)
Adds(d, e, d2) == e \notin d /\ d2 = d \cup {e}

LEMMA PostponedCounts ==
  ASSUME NEW d, Pile(d), NEW e \in Envelopes, NEW d2, Adds(d, e, d2), NEW m
  PROVE  /\ Pile(d2)
         /\ Cardinality(Postponed(d2, m)) = Cardinality(Postponed(d, m)) + Bit(e.message = m)
<1>0. d \subseteq Envelopes /\ IsFiniteSet(d) /\ e \notin d /\ d2 = d \cup {e}
  BY DEF Pile, Adds
<1>1. Postponed(d, m) \in SUBSET d
  BY DEF Postponed
<1>2. IsFiniteSet(Postponed(d, m)) /\ Cardinality(Postponed(d, m)) \in Nat
  BY <1>0, <1>1, FS_Subset, FS_CardinalityType
<1>3. Postponed(d2, m) = IF e.message = m THEN Postponed(d, m) \cup {e} ELSE Postponed(d, m)
  BY <1>0 DEF Postponed
<1>4. e \notin Postponed(d, m)
  BY <1>0 DEF Postponed
<1>5. Cardinality(Postponed(d, m) \cup {e}) = Cardinality(Postponed(d, m)) + 1
  BY <1>2, <1>4, FS_AddElement
<1>6. Cardinality(Postponed(d2, m)) = Cardinality(Postponed(d, m)) + Bit(e.message = m)
  <2>1. CASE e.message = m
    BY <1>3, <1>5, <2>1 DEF Bit
  <2>2. CASE e.message # m
    BY <1>2, <1>3, <2>2 DEF Bit
  <2> QED BY <2>1, <2>2
<1>7. Pile(d2)
  BY <1>0, FS_AddElement DEF Pile
<1> QED BY <1>6, <1>7

(* One worker changes: who holds a message, who is where.                  *)
LEMMA WorkersCount ==
  ASSUME NEW S \in SUBSET Worker, NEW T \in SUBSET Worker, NEW w \in Worker,
         \A v \in Worker \ {w} : v \in S <=> v \in T
  PROVE  /\ Cardinality(S) \in Nat /\ Cardinality(T) \in Nat
         /\ Cardinality(T) = Cardinality(S) - Bit(w \in S) + Bit(w \in T)
         /\ w \in S => Cardinality(S) > 0
<1> DEFINE R == S \ {w}
<1>1. IsFiniteSet(S) /\ IsFiniteSet(R) /\ IsFiniteSet(T)
  BY FS_Subset
<1>2. Cardinality(S) \in Nat /\ Cardinality(R) \in Nat /\ Cardinality(T) \in Nat
  BY <1>1, FS_CardinalityType
<1>3. Cardinality(R \cup {w}) = Cardinality(R) + 1
  BY <1>1, FS_AddElement
<1>4. IF w \in S THEN S = R \cup {w} ELSE S = R
  OBVIOUS
<1>5. IF w \in T THEN T = R \cup {w} ELSE T = R
  OBVIOUS
<1>6. IF w \in S THEN Bit(w \in S) = 1 ELSE Bit(w \in S) = 0
  BY DEF Bit
<1>7. IF w \in T THEN Bit(w \in T) = 1 ELSE Bit(w \in T) = 0
  BY DEF Bit
<1>8. IF w \in S THEN Cardinality(S) = Cardinality(R) + 1 ELSE Cardinality(S) = Cardinality(R)
  BY <1>3, <1>4
<1>9. IF w \in T THEN Cardinality(T) = Cardinality(R) + 1 ELSE Cardinality(T) = Cardinality(R)
  BY <1>3, <1>5
<1> HIDE DEF R
<1>10. CASE w \in S
  BY <1>2, <1>6, <1>7, <1>8, <1>9, <1>10
<1>11. CASE w \notin S
  BY <1>2, <1>6, <1>7, <1>8, <1>9, <1>11
<1> QED BY <1>10, <1>11

LEMMA HoldersCount ==
  ASSUME NEW p, NEW h, NEW p2, NEW h2, NEW w \in Worker, NEW m,
         \A v \in Worker \ {w} : p2[v] = p[v] /\ h2[v] = h[v]
  PROVE  /\ Cardinality(Holders(p, h, m)) \in Nat /\ Cardinality(Holders(p2, h2, m)) \in Nat
         /\ Cardinality(Holders(p2, h2, m)) = Cardinality(Holders(p, h, m))
              - Bit(w \in Holders(p, h, m)) + Bit(w \in Holders(p2, h2, m))
         /\ w \in Holders(p, h, m) => Cardinality(Holders(p, h, m)) > 0
<1>1. /\ Holders(p, h, m) \in SUBSET Worker /\ Holders(p2, h2, m) \in SUBSET Worker
      /\ \A v \in Worker \ {w} : v \in Holders(p, h, m) <=> v \in Holders(p2, h2, m)
  BY DEF Holders
<1> QED BY <1>1, WorkersCount

LEMMA OnlyElement ==
  ASSUME NEW S, IsFiniteSet(S), Cardinality(S) <= 1
  PROVE  /\ \A x, y \in S : x = y
         /\ Cardinality(S) = 0 => S = {}
<1>1. Cardinality(S) \in Nat /\ (Cardinality(S) = 0 => S = {})
  BY FS_CardinalityType, FS_EmptySet
<1>2. Cardinality(S) = 1 => \E x : S = {x}
  BY FS_Singleton
<1>3. Cardinality(S) = 0 \/ Cardinality(S) = 1
  BY <1>1
<1> QED BY <1>1, <1>2, <1>3
-----------------------------------------------------------------------------
(* The places of a message.                                                *)
Queued(m) == Cardinality(Positions(queue, m))
Later(m) == Cardinality(Postponed(delayed, m))
InHand(m) == Cardinality(Holders(pc, held, m))
Fate(m) == IF settled[m] = "none" THEN 0 ELSE 1

LEMMA PlacesSum == \A m : Places(m) = Queued(m) + Later(m) + InHand(m) + Fate(m)
BY DEF Places, Queued, Later, InHand, Fate, Positions, Postponed, Holders

LEMMA PlacesFinite ==
  ASSUME TypeOK, IsFiniteSet(delayed), NEW m
  PROVE  /\ IsFiniteSet(Positions(queue, m)) /\ Queued(m) \in Nat
         /\ IsFiniteSet(Postponed(delayed, m)) /\ Later(m) \in Nat
         /\ IsFiniteSet(Holders(pc, held, m)) /\ InHand(m) \in Nat
         /\ Fate(m) \in {0, 1}
<1>1. IsFiniteSet(Positions(queue, m)) /\ Queued(m) \in Nat
  BY PositionsFinite DEF TypeOK, Queued
<1>2. Postponed(delayed, m) \in SUBSET delayed /\ Holders(pc, held, m) \in SUBSET Worker
  BY DEF Postponed, Holders
<1>3. IsFiniteSet(Postponed(delayed, m)) /\ IsFiniteSet(Holders(pc, held, m))
  BY <1>2, FS_Subset
<1> QED BY <1>1, <1>3, FS_CardinalityType DEF Later, InHand, Fate

(* A message that is settled, or was not sent, has no envelope; of one     *)
(* that has an envelope there is no other.                                 *)
Nowhere(m) ==
  /\ \A i \in DOMAIN queue : queue[i].message # m
  /\ \A e \in delayed : e.message # m
  /\ \A w \in Worker : ~ (pc[w] = "handling" /\ held[w].message = m)

LEMMA SettledIsNowhere ==
  ASSUME TypeOK, IsFiniteSet(delayed), OnePlace, NEW m \in Message,
         sender[m] # "sent" \/ settled[m] # "none"
  PROVE  Nowhere(m)
<1>1. Queued(m) + Later(m) + InHand(m) + Fate(m) = IF sender[m] = "sent" THEN 1 ELSE 0
  BY PlacesSum DEF OnePlace
<1>2. Queued(m) = 0 /\ Later(m) = 0 /\ InHand(m) = 0
  BY <1>1, PlacesFinite, SMTT(20) DEF Fate
<1>3. Positions(queue, m) = {} /\ Postponed(delayed, m) = {} /\ Holders(pc, held, m) = {}
  BY <1>2, PlacesFinite, OnlyElement DEF Queued, Later, InHand
<1> QED BY <1>3 DEF Nowhere, Positions, Postponed, Holders

LEMMA OneEnvelope ==
  ASSUME TypeOK, IsFiniteSet(delayed), OnePlace, NEW m \in Message
  PROVE  /\ \A i \in DOMAIN queue : queue[i].message = m =>
              /\ sender[m] = "sent" /\ settled[m] = "none"
              /\ \A j \in DOMAIN queue : queue[j].message = m => j = i
              /\ \A e \in delayed : e.message # m
              /\ \A w \in Worker : ~ (pc[w] = "handling" /\ held[w].message = m)
         /\ \A e \in delayed : e.message = m =>
              /\ sender[m] = "sent" /\ settled[m] = "none"
              /\ \A i \in DOMAIN queue : queue[i].message # m
              /\ \A f \in delayed : f.message = m => f = e
              /\ \A w \in Worker : ~ (pc[w] = "handling" /\ held[w].message = m)
         /\ \A w \in Worker : pc[w] = "handling" /\ held[w].message = m =>
              /\ sender[m] = "sent" /\ settled[m] = "none"
              /\ \A i \in DOMAIN queue : queue[i].message # m
              /\ \A e \in delayed : e.message # m
              /\ \A v \in Worker : pc[v] = "handling" /\ held[v].message = m => v = w
<1> DEFINE Q == Positions(queue, m)
           D == Postponed(delayed, m)
           H == Holders(pc, held, m)
<1>1. Queued(m) + Later(m) + InHand(m) + Fate(m) = IF sender[m] = "sent" THEN 1 ELSE 0
  BY PlacesSum DEF OnePlace
<1>2. /\ Queued(m) <= 1 /\ Later(m) <= 1 /\ InHand(m) <= 1
      /\ Queued(m) # 0 => Later(m) = 0 /\ InHand(m) = 0
      /\ Later(m) # 0 => Queued(m) = 0 /\ InHand(m) = 0
      /\ InHand(m) # 0 => Queued(m) = 0 /\ Later(m) = 0
  <2>1. Queued(m) \in Nat /\ Later(m) \in Nat /\ InHand(m) \in Nat /\ Fate(m) \in {0, 1}
    BY PlacesFinite
  <2>2. Queued(m) + Later(m) + InHand(m) + Fate(m) <= 1
    BY <1>1
  <2> QED BY <2>1, <2>2, SMTT(20)
<1>3. /\ \A x, y \in Q : x = y
      /\ \A x, y \in D : x = y
      /\ \A x, y \in H : x = y
      /\ Queued(m) = 0 => Q = {}
      /\ Later(m) = 0 => D = {}
      /\ InHand(m) = 0 => H = {}
  BY <1>2, PlacesFinite, OnlyElement DEF Queued, Later, InHand
<1>4. Queued(m) = 0 <=> Q = {}
  BY <1>3, FS_EmptySet DEF Queued
<1>5. Later(m) = 0 <=> D = {}
  BY <1>3, FS_EmptySet DEF Later
<1>6. InHand(m) = 0 <=> H = {}
  BY <1>3, FS_EmptySet DEF InHand
<1>7. sender[m] # "sent" \/ settled[m] # "none" => Q = {} /\ D = {} /\ H = {}
  <2> SUFFICES ASSUME sender[m] # "sent" \/ settled[m] # "none" PROVE Q = {} /\ D = {} /\ H = {}
    OBVIOUS
  <2>1. Nowhere(m)
    BY SettledIsNowhere
  <2> QED BY <2>1 DEF Nowhere, Positions, Postponed, Holders
<1>8. ASSUME NEW i \in DOMAIN queue, queue[i].message = m
      PROVE  /\ sender[m] = "sent" /\ settled[m] = "none"
             /\ \A j \in DOMAIN queue : queue[j].message = m => j = i
             /\ \A e \in delayed : e.message # m
             /\ \A w \in Worker : ~ (pc[w] = "handling" /\ held[w].message = m)
  <2>1. i \in Q
    BY <1>8 DEF Positions
  <2>2. D = {} /\ H = {} /\ \A j \in Q : j = i
    BY <2>1, <1>2, <1>3, <1>4, <1>5, <1>6
  <2> QED BY <1>7, <2>1, <2>2 DEF Positions, Postponed, Holders
<1>9. ASSUME NEW e \in delayed, e.message = m
      PROVE  /\ sender[m] = "sent" /\ settled[m] = "none"
             /\ \A i \in DOMAIN queue : queue[i].message # m
             /\ \A f \in delayed : f.message = m => f = e
             /\ \A w \in Worker : ~ (pc[w] = "handling" /\ held[w].message = m)
  <2>1. e \in D
    BY <1>9 DEF Postponed
  <2>2. Q = {} /\ H = {} /\ \A f \in D : f = e
    BY <2>1, <1>2, <1>3, <1>4, <1>5, <1>6
  <2> QED BY <1>7, <2>1, <2>2 DEF Positions, Postponed, Holders
<1>10. ASSUME NEW w \in Worker, pc[w] = "handling", held[w].message = m
       PROVE  /\ sender[m] = "sent" /\ settled[m] = "none"
              /\ \A i \in DOMAIN queue : queue[i].message # m
              /\ \A e \in delayed : e.message # m
              /\ \A v \in Worker : pc[v] = "handling" /\ held[v].message = m => v = w
  <2>1. w \in H
    BY <1>10 DEF Holders
  <2>2. Q = {} /\ D = {} /\ \A v \in H : v = w
    BY <2>1, <1>2, <1>3, <1>4, <1>5, <1>6
  <2> QED BY <1>7, <2>1, <2>2 DEF Positions, Postponed, Holders
<1> QED BY <1>8, <1>9, <1>10
-----------------------------------------------------------------------------
(* Requeue and Nack put an envelope in one place, which may be the end of  *)
(* its message.                                                            *)
Fates == [Message -> {"none", "handled", "deadLettered", "discarded", "dropped"}]

(* A worker that waits may be handed an envelope; the others are as "at"    *)
(* has them.                                                               *)
PlacesOfWorkers ==
  [Worker -> {"reserve", "select", "receiving", "handling", "counting", "ended"}]

Landed(at) ==
  /\ pc' \in PlacesOfWorkers
  /\ \A v \in Worker : pc'[v] = at[v] \/ (at[v] = "select" /\ pc'[v] = "receiving")

LEMMA OfferLands ==
  ASSUME NEW at \in PlacesOfWorkers, NEW e, Offer(e, at) \/ pc' = at
  PROVE  Landed(at)
<1>1. CASE pc' = at
  BY <1>1 DEF Landed
<1>2. CASE Offer(e, at) /\ pc' # at
  <2> PICK v \in Worker : at[v] = "select" /\ pc' = [at EXCEPT ![v] = "receiving"]
    BY <1>2 DEF Offer
  <2> QED BY DEF Landed, PlacesOfWorkers
<1> QED BY <1>1, <1>2

LEMMA LandedHolders ==
  ASSUME NEW at, Landed(at), NEW h, NEW m
  PROVE  Holders(pc', h, m) = Holders(at, h, m)
BY DEF Landed, Holders

LEMMA RequeuePlaces ==
  ASSUME TypeOK, NEW e \in Envelopes, settled[e.message] = "none", NEW at, Requeue(e, at),
         NEW m \in Message
  PROVE  /\ queue' \in Seq(Envelopes) /\ settled' \in Fates
         /\ Cardinality(Positions(queue', m)) + Fate(m)'
              = Queued(m) + Fate(m) + Bit(e.message = m)
<1>0. e.message \in Message /\ queue \in Seq(Envelopes) /\ settled \in Fates
  BY DEF Envelopes, TypeOK, Fates
<1>1. CASE queue' = Append(queue, e) /\ UNCHANGED settled
  <2>1. Cardinality(Positions(queue', m)) = Queued(m) + Bit(e.message = m)
    BY <1>0, <1>1, AppendCounts DEF Queued
  <2>2. Queued(m) \in Nat /\ Bit(e.message = m) \in Nat /\ Fate(m)' = Fate(m) /\ Fate(m) \in Nat
    BY <1>0, <1>1, PositionsFinite DEF Queued, Bit, Fate
  <2>3. queue' \in Seq(Envelopes)
    BY <1>0, <1>1
  <2> QED BY <1>0, <1>1, <2>1, <2>2, <2>3
<1>2. CASE Settle(e.message, "dropped") /\ UNCHANGED queue
  <2>1. settled' = [settled EXCEPT ![e.message] = "dropped"]
    BY <1>2 DEF Settle
  <2>2. settled' \in Fates
    BY <1>0, <2>1 DEF Fates
  <2>3. Fate(m)' = Fate(m) + Bit(e.message = m)
    BY <1>0, <2>1 DEF Fate, Bit, Fates
  <2>4. Cardinality(Positions(queue', m)) = Queued(m) /\ Queued(m) \in Nat
    BY <1>0, <1>2, PositionsFinite DEF Queued
  <2>5. Fate(m) \in Nat /\ Bit(e.message = m) \in Nat
    BY <1>2 DEF Fate, Bit, TypeOK
  <2> QED BY <1>0, <1>2, <2>2, <2>3, <2>4, <2>5
<1> QED BY <1>1, <1>2 DEF Requeue, Offer, Dropped

LEMMA NackPlaces ==
  ASSUME TypeOK, IsFiniteSet(delayed), NEW e \in Envelopes, settled[e.message] = "none",
         \A f \in delayed : f.message # e.message,
         NEW at, Nack(e, at), NEW m \in Message
  PROVE  /\ queue' \in Seq(Envelopes) /\ settled' \in Fates
         /\ delayed' \subseteq Envelopes /\ IsFiniteSet(delayed')
         /\ Cardinality(Positions(queue', m)) + Cardinality(Postponed(delayed', m)) + Fate(m)'
              = Queued(m) + Later(m) + Fate(m) + Bit(e.message = m)
<1>0. /\ delayed \in SUBSET Envelopes /\ Later(m) \in Nat /\ Queued(m) \in Nat /\ Fate(m) \in {0, 1}
      /\ Bit(e.message = m) \in Nat
  BY PlacesFinite DEF TypeOK, Bit
<1>1. CASE e.delay
  <2>1. delayed' = delayed \cup {e} /\ queue' = queue /\ settled' = settled
    BY <1>1 DEF Nack
  <2>2. /\ IsFiniteSet(delayed') /\ delayed' \subseteq Envelopes
        /\ Cardinality(Postponed(delayed', m)) = Later(m) + Bit(e.message = m)
    <3>1. e \notin delayed
      OBVIOUS
    <3>2. Pile(delayed) /\ Adds(delayed, e, delayed')
      BY <1>0, <2>1, <3>1 DEF Pile, Adds
    <3>3. /\ Pile(delayed')
          /\ Cardinality(Postponed(delayed', m))
               = Cardinality(Postponed(delayed, m)) + Bit(e.message = m)
      BY <3>2, PostponedCounts
    <3> QED BY <3>3 DEF Later, Pile
  <2>3. Cardinality(Positions(queue', m)) = Queued(m) /\ Fate(m)' = Fate(m)
    BY <2>1 DEF Queued, Fate
  <2>4. queue' \in Seq(Envelopes) /\ settled' \in Fates
    BY <2>1 DEF TypeOK, Fates
  <2> QED BY <1>0, <2>2, <2>3, <2>4
<1>2. CASE ~e.delay
  <2>1. Requeue(e, at) /\ delayed' = delayed
    BY <1>2 DEF Nack
  <2>2. /\ queue' \in Seq(Envelopes) /\ settled' \in Fates
        /\ Cardinality(Positions(queue', m)) + Fate(m)'
             = Queued(m) + Fate(m) + Bit(e.message = m)
    BY <2>1, RequeuePlaces
  <2>3. Cardinality(Positions(queue', m)) \in Nat /\ Fate(m)' \in {0, 1}
    BY <2>2, PositionsFinite DEF Fate
  <2>4. Cardinality(Postponed(delayed', m)) = Later(m) /\ delayed' \subseteq Envelopes
    BY <1>0, <2>1 DEF Later
  <2>5. IsFiniteSet(delayed')
    BY <2>1
  <2>6. Cardinality(Positions(queue', m)) + Cardinality(Postponed(delayed', m)) + Fate(m)'
          = Queued(m) + Later(m) + Fate(m) + Bit(e.message = m)
    <3> DEFINE positions == Cardinality(Positions(queue', m))
               postponed == Cardinality(Postponed(delayed', m))
               fate == Fate(m)'
    <3>1. /\ positions \in Nat /\ fate \in Nat /\ postponed = Later(m)
          /\ positions + fate = Queued(m) + Fate(m) + Bit(e.message = m)
      BY <2>2, <2>3, <2>4
    <3> HIDE DEF positions, postponed, fate
    <3>2. Queued(m) \in Nat /\ Later(m) \in Nat /\ Fate(m) \in Nat /\ Bit(e.message = m) \in Nat
      BY <1>0
    <3>3. positions + postponed + fate = Queued(m) + Later(m) + Fate(m) + Bit(e.message = m)
      BY <3>1, <3>2
    <3> QED BY <3>3 DEF positions, postponed, fate
  <2> QED BY <2>2, <2>4, <2>5, <2>6
<1> QED BY <1>1, <1>2

LEMMA PlacesNext ==
  \A m : Places(m)' = Cardinality(Positions(queue', m)) + Cardinality(Postponed(delayed', m))
                        + Cardinality(Holders(pc', held', m)) + Fate(m)'
BY DEF Places, Fate, Positions, Postponed, Holders

LEMMA PolicyType ==
  ASSUME TypeOK
  PROVE  /\ policy.limit \in Nat /\ policy.retries \in Nat /\ policy.deadLetters \in Nat
         /\ policy.failureTransport \in BOOLEAN /\ policy.backoff \in BOOLEAN
BY DEF TypeOK, Policy

(* What is to be kept of the messages.                                     *)
Messages ==
  /\ TypeOK /\ IsFiniteSet(delayed)
  /\ OnePlace /\ CountsAttempts /\ GivenUpAsConfigured

(* A step that moves no envelope.                                          *)
LEMMA QuietKeeps ==
  ASSUME Messages, TypeOK', UNCHANGED <<policy, queue, delayed, settled, dispatches>>,
         \A m \in Message : sender[m] = "sent" <=> sender'[m] = "sent",
         \A w \in Worker : pc[w] = "handling" <=> pc'[w] = "handling",
         \A w \in Worker : pc[w] = "handling" => held'[w] = held[w]
  PROVE  Messages'
<1>1. \A m : Holders(pc', held', m) = Holders(pc, held, m)
  BY DEF Holders
<1>2. OnePlace'
  <2> SUFFICES ASSUME NEW m \in Message
               PROVE  Places(m)' = IF sender'[m] = "sent" THEN 1 ELSE 0
    BY DEF OnePlace
  <2>1. Places(m)' = Queued(m) + Later(m) + InHand(m) + Fate(m)
    BY <1>1, PlacesNext DEF Queued, Later, InHand, Fate
  <2> QED BY <2>1, PlacesSum DEF Messages, OnePlace
<1>3. CountsAttempts'
  BY DEF Messages, CountsAttempts, Within, Attempts
<1>4. GivenUpAsConfigured'
  BY DEF Messages, GivenUpAsConfigured
<1> QED BY <1>2, <1>3, <1>4 DEF Messages

LEMMA SendDoneKeeps ==
  ASSUME Messages, NEW m0 \in Message, SendDone(m0) PROVE Messages'
<1>0. /\ TypeOK /\ IsFiniteSet(delayed) /\ sender[m0] = "sending"
      /\ UNCHANGED <<policy, delayed, closed, queueOpen, counterVars, held, interrupted,
                     poolVars, historyVars>>
  BY DEF Messages, SendDone
<1>1. CASE sender' = [sender EXCEPT ![m0] = "refused"] /\ UNCHANGED <<queue, pc>>
  <2>1. TypeOK'
    BY <1>0, <1>1 DEF TypeOK, counterVars, poolVars, historyVars
  <2> QED BY <1>0, <1>1, <2>1, QuietKeeps DEF TypeOK, historyVars
<1>2. CASE /\ Offer(Envelope(m0, 0, 0, FALSE), pc)
           /\ sender' = [sender EXCEPT ![m0] = "sent"]
  <2> DEFINE e == Envelope(m0, 0, 0, FALSE)
  <2>1. /\ e \in Envelopes /\ e.message = m0 /\ e.redelivery = 0 /\ e.deadLetter = 0
    BY DEF Envelope, Envelopes
  <2>2. queue \in Seq(Envelopes) /\ queue' = Append(queue, e)
    BY <1>0, <1>2, <2>1 DEF TypeOK, Offer
  <2>2a. Landed(pc)
    BY <1>0, <1>2, OfferLands DEF TypeOK, PlacesOfWorkers
  <2> HIDE DEF e
  <2>3. TypeOK'
    <3>1. queue' \in Seq(Envelopes)
      BY <2>1, <2>2
    <3>2. sender' \in [Message -> {"idle", "sending", "sent", "refused"}]
      BY <1>0, <1>2 DEF TypeOK
    <3>3. \A w \in Worker : IF pc'[w] = "handling" THEN held'[w] \in Envelopes
                                                  ELSE held'[w] = NoEnvelope
      BY <1>0, <2>2a DEF TypeOK, Landed
    <3> QED BY <1>0, <2>2, <2>2a, <3>1, <3>2, <3>3
          DEF TypeOK, Landed, PlacesOfWorkers, counterVars, poolVars, historyVars
  <2>4. OnePlace'
    <3> SUFFICES ASSUME NEW m \in Message
                 PROVE  Places(m)' = IF sender'[m] = "sent" THEN 1 ELSE 0
      BY DEF OnePlace
    <3>1. Cardinality(Positions(queue', m)) = Queued(m) + Bit(m0 = m)
      BY <2>1, <2>2, AppendCounts DEF Queued
    <3>2. Places(m)' = Queued(m) + Bit(m0 = m) + Later(m) + InHand(m) + Fate(m)
      BY <1>0, <2>2a, <3>1, PlacesNext, LandedHolders DEF Later, InHand, Fate, historyVars
    <3>3. Queued(m) + Later(m) + InHand(m) + Fate(m) = IF sender[m] = "sent" THEN 1 ELSE 0
      BY PlacesSum DEF Messages, OnePlace
    <3>4. Queued(m) \in Nat /\ Later(m) \in Nat /\ InHand(m) \in Nat /\ Fate(m) \in {0, 1}
      BY <1>0, PlacesFinite
    <3> QED BY <1>0, <1>2, <3>2, <3>3, <3>4 DEF Bit, TypeOK
  <2>5. CountsAttempts'
    <3>1. dispatches[m0] = 0
      BY <1>0 DEF Messages, CountsAttempts
    <3>2. Within(e) /\ dispatches[e.message] = Attempts(e)
      BY <1>0, <2>1, <3>1, PolicyType DEF Within, Attempts
    <3>3. \A i \in DOMAIN queue' : queue'[i] = e \/ (i \in DOMAIN queue /\ queue'[i] = queue[i])
      BY <2>1, <2>2
    <3>4. \A i \in DOMAIN queue' : Within(queue'[i]) /\ dispatches[queue'[i].message] = Attempts(queue'[i])
      BY <3>2, <3>3 DEF Messages, CountsAttempts
    <3>5. \A w \in Worker : pc'[w] = "handling" => pc[w] = "handling" /\ held'[w] = held[w]
      BY <1>0, <2>2a DEF Landed
    <3> QED BY <1>0, <1>2, <3>4, <3>5 DEF Messages, CountsAttempts, Within, TypeOK, historyVars
  <2> QED BY <1>0, <2>3, <2>4, <2>5 DEF Messages, GivenUpAsConfigured, historyVars
<1> QED BY <1>1, <1>2 DEF SendDone, SendRefused

LEMMA RequeueAfterKeeps ==
  ASSUME Messages, NEW e \in delayed, RequeueAfter(e) PROVE Messages'
<1>0. /\ TypeOK /\ IsFiniteSet(delayed) /\ e \in Envelopes /\ delayed' = delayed \ {e}
      /\ UNCHANGED <<policy, sender, closed, queueOpen, counterVars, held, interrupted,
                     poolVars, failures, dispatches, taken>>
  BY DEF Messages, RequeueAfter, TypeOK
<1>0a. Landed(pc)
  <2>1. Offer(e, pc) \/ pc' = pc
    BY DEF RequeueAfter, Requeue, Dropped
  <2> QED BY <1>0, <2>1, OfferLands DEF TypeOK, PlacesOfWorkers
<1>1. /\ settled[e.message] = "none" /\ sender[e.message] = "sent" /\ e.message \in Message
      /\ \A f \in delayed : f.message = e.message => f = e
      /\ \A w \in Worker : ~ (pc[w] = "handling" /\ held[w].message = e.message)
      /\ Within(e) /\ dispatches[e.message] = Attempts(e)
  <2>1. e.message \in Message
    BY <1>0 DEF Envelopes
  <2> QED BY <2>1, OneEnvelope DEF Messages, CountsAttempts
<1>2. \/ queue' = Append(queue, e) /\ UNCHANGED settled
      \/ settled' = [settled EXCEPT ![e.message] = "dropped"] /\ UNCHANGED queue
  BY DEF RequeueAfter, Requeue, Offer, Dropped, Settle
<1>3. Requeue(e, pc) \/ (settled' = [settled EXCEPT ![e.message] = "dropped"] /\ UNCHANGED queue)
  BY DEF RequeueAfter, Dropped, Settle
<1>4. ASSUME NEW m \in Message
      PROVE  /\ queue' \in Seq(Envelopes) /\ settled' \in Fates
             /\ Cardinality(Positions(queue', m)) + Fate(m)' = Queued(m) + Fate(m) + Bit(e.message = m)
  <2>1. CASE Requeue(e, pc)
    BY <1>0, <1>1, <2>1, RequeuePlaces
  <2>2. CASE settled' = [settled EXCEPT ![e.message] = "dropped"] /\ UNCHANGED queue
    <3>1. Fate(m)' = Fate(m) + Bit(e.message = m) /\ settled' \in Fates
      BY <1>0, <1>1, <2>2 DEF Fate, Bit, Fates, TypeOK
    <3>2. queue \in Seq(Envelopes) /\ Queued(m) \in Nat /\ Fate(m) \in {0, 1} /\ Bit(e.message = m) \in Nat
      BY <1>0, PlacesFinite DEF TypeOK, Bit
    <3>3. Cardinality(Positions(queue', m)) = Queued(m)
      BY <1>0, <2>2 DEF Queued, TypeOK
    <3> QED BY <2>2, <3>1, <3>2, <3>3
  <2> QED BY <1>3, <2>1, <2>2
<1>5. TypeOK'
  <2>1. queue' \in Seq(Envelopes) /\ settled' \in Fates
    BY <1>1, <1>4
  <2>2. \A w \in Worker : IF pc'[w] = "handling" THEN held'[w] \in Envelopes
                                                 ELSE held'[w] = NoEnvelope
    BY <1>0, <1>0a DEF TypeOK, Landed
  <2> QED BY <1>0, <1>0a, <2>1, <2>2
        DEF TypeOK, Fates, Landed, PlacesOfWorkers, counterVars, poolVars
<1>6. IsFiniteSet(delayed')
  BY <1>0, FS_RemoveElement
<1>7. OnePlace'
  <2> SUFFICES ASSUME NEW m \in Message
               PROVE  Places(m)' = IF sender'[m] = "sent" THEN 1 ELSE 0
    BY DEF OnePlace
  <2>1. Cardinality(Postponed(delayed', m)) = Later(m) - Bit(e.message = m)
    <3>1. Pile(delayed') /\ Adds(delayed', e, delayed)
      BY <1>0, FS_RemoveElement DEF TypeOK, Pile, Adds
    <3>2. Cardinality(Postponed(delayed, m))
            = Cardinality(Postponed(delayed', m)) + Bit(e.message = m)
      BY <1>0, <3>1, PostponedCounts
    <3>3. Cardinality(Postponed(delayed', m)) \in Nat
      <4>1. Postponed(delayed', m) \in SUBSET delayed'
        BY DEF Postponed
      <4> QED BY <3>1, <4>1, FS_Subset, FS_CardinalityType DEF Pile
    <3> QED BY <3>2, <3>3 DEF Later, Bit
  <2>2. Cardinality(Holders(pc', held', m)) = InHand(m)
    BY <1>0, <1>0a, LandedHolders DEF InHand
  <2>3. Cardinality(Positions(queue', m)) + Fate(m)' = Queued(m) + Fate(m) + Bit(e.message = m)
    BY <1>4
  <2>4. Queued(m) + Later(m) + InHand(m) + Fate(m) = IF sender[m] = "sent" THEN 1 ELSE 0
    BY PlacesSum DEF Messages, OnePlace
  <2>5. /\ Queued(m) \in Nat /\ Later(m) \in Nat /\ InHand(m) \in Nat /\ Fate(m) \in {0, 1}
        /\ Bit(e.message = m) \in {0, 1} /\ Fate(m)' \in {0, 1}
        /\ Cardinality(Positions(queue', m)) \in Nat
    BY <1>0, <1>4, PlacesFinite, PositionsFinite DEF Bit, Fate
  <2>6. Places(m)' = Cardinality(Positions(queue', m)) + Cardinality(Postponed(delayed', m))
                       + Cardinality(Holders(pc', held', m)) + Fate(m)'
    BY PlacesNext
  <2> QED BY <1>0, <2>1, <2>2, <2>3, <2>4, <2>5, <2>6
<1>8. CountsAttempts'
  <2>1. \A i \in DOMAIN queue' : queue'[i] = e \/ (i \in DOMAIN queue /\ queue'[i] = queue[i])
    <3>1. queue \in Seq(Envelopes) /\ (queue' = Append(queue, e) \/ queue' = queue)
      BY <1>0, <1>2 DEF TypeOK
    <3> QED BY <3>1
  <2>2. \A i \in DOMAIN queue' : Within(queue'[i]) /\ dispatches[queue'[i].message] = Attempts(queue'[i])
    BY <1>1, <2>1 DEF Messages, CountsAttempts
  <2>3. \A w \in Worker : pc'[w] = "handling" => pc[w] = "handling" /\ held'[w] = held[w]
    BY <1>0, <1>0a DEF Landed
  <2> QED BY <1>0, <2>2, <2>3 DEF Messages, CountsAttempts, Within
<1>9. GivenUpAsConfigured'
  BY <1>0, <1>1, <1>2 DEF Messages, GivenUpAsConfigured, TypeOK
<1> QED BY <1>5, <1>6, <1>7, <1>8, <1>9 DEF Messages

LEMMA TakeKeeps ==
  ASSUME Messages, NEW w \in Worker, Take(w) PROVE Messages'
<1> DEFINE e == Head(queue)
<1>0. /\ TypeOK /\ IsFiniteSet(delayed) /\ queue # << >> /\ pc[w] \in {"select", "receiving"}
      /\ queue' = Tail(queue) /\ held' = [held EXCEPT ![w] = e] /\ pc' = [pc EXCEPT ![w] = "handling"]
      /\ dispatches' = [dispatches EXCEPT ![e.message] = IF @ < MaxDispatches THEN @ + 1 ELSE @]
      /\ taken' = IF policy.limit = 0 THEN 0 ELSE taken + 1
      /\ UNCHANGED <<policy, sender, delayed, closed, queueOpen, counterVars, interrupted, poolVars,
                     failures, settled>>
  BY DEF Messages, Take, Receives, CountTaken
<1>1. /\ e \in Envelopes /\ e.message \in Message /\ queue \in Seq(Envelopes)
      /\ 1 \in DOMAIN queue /\ e = queue[1] /\ Tail(queue) \in Seq(Envelopes)
      /\ Len(Tail(queue)) = Len(queue) - 1 /\ Len(queue) \in Nat \ {0}
      /\ \A i \in 1 .. Len(queue) - 1 : Tail(queue)[i] = queue[i + 1] /\ i + 1 \in DOMAIN queue
      /\ DOMAIN Tail(queue) = 1 .. Len(queue) - 1
  <2>1. queue \in Seq(Envelopes) /\ queue # << >>
    BY <1>0 DEF TypeOK
  <2>2. /\ e = queue[1] /\ 1 \in DOMAIN queue /\ e \in Envelopes
        /\ Tail(queue) \in Seq(Envelopes) /\ Len(Tail(queue)) = Len(queue) - 1
        /\ Len(queue) \in Nat \ {0} /\ DOMAIN queue = 1 .. Len(queue)
    BY <2>1
  <2>3. \A i \in 1 .. Len(queue) - 1 : Tail(queue)[i] = queue[i + 1]
    BY <2>1
  <2>4. DOMAIN Tail(queue) = 1 .. Len(queue) - 1
    BY <2>2
  <2>5. \A i \in 1 .. Len(queue) - 1 : i + 1 \in DOMAIN queue
    BY <2>2
  <2>6. e.message \in Message
    BY <2>2 DEF Envelopes
  <2> QED BY <2>1, <2>2, <2>3, <2>4, <2>5, <2>6
<1> HIDE DEF e
<1>2. /\ settled[e.message] = "none" /\ sender[e.message] = "sent"
      /\ \A i \in DOMAIN queue : queue[i].message = e.message => i = 1
      /\ \A f \in delayed : f.message # e.message
      /\ \A v \in Worker : ~ (pc[v] = "handling" /\ held[v].message = e.message)
      /\ Within(e) /\ dispatches[e.message] = Attempts(e)
  BY <1>1, OneEnvelope DEF Messages, CountsAttempts
<1>3. e.redelivery \in Nat /\ e.deadLetter \in Nat /\ dispatches \in [Message -> Nat]
  BY <1>0, <1>1 DEF Envelopes, TypeOK
<1>4. dispatches[e.message] < MaxDispatches
  BY <1>0, <1>2, <1>3, PolicyType, SMTT(20) DEF Within, Attempts, MaxDispatches
<1>5. dispatches' = [dispatches EXCEPT ![e.message] = Attempts(e) + 1]
  BY <1>0, <1>1, <1>2, <1>3, <1>4
<1>6. TypeOK'
  <2>1. dispatches' \in [Message -> Nat]
    <3>1. Attempts(e) + 1 \in Nat
      BY <1>3 DEF Attempts
    <3> QED BY <1>3, <1>5, <3>1
  <2>4. taken' \in Nat
    BY <1>0 DEF TypeOK
  <2>5. held' \in [Worker -> Envelopes \cup {NoEnvelope}]
    BY <1>0, <1>1 DEF TypeOK
  <2>2. pc' \in PlacesOfWorkers
    BY <1>0 DEF TypeOK, PlacesOfWorkers
  <2>3. \A v \in Worker : IF pc'[v] = "handling" THEN held'[v] \in Envelopes ELSE held'[v] = NoEnvelope
    <3> SUFFICES ASSUME NEW v \in Worker
                 PROVE  IF pc'[v] = "handling" THEN held'[v] \in Envelopes ELSE held'[v] = NoEnvelope
      OBVIOUS
    <3>1. CASE v = w
      BY <1>0, <1>1, <3>1 DEF TypeOK
    <3>2. CASE v # w
      BY <1>0, <3>2 DEF TypeOK
    <3> QED BY <3>1, <3>2
  <2> QED BY <1>0, <1>1, <2>1, <2>2, <2>3, <2>4, <2>5 DEF TypeOK, counterVars, poolVars
<1>7. OnePlace'
  <2> SUFFICES ASSUME NEW m \in Message
               PROVE  Places(m)' = IF sender'[m] = "sent" THEN 1 ELSE 0
    BY DEF OnePlace
  <2>1. Queued(m) = Cardinality(Positions(queue', m)) + Bit(e.message = m)
    BY <1>0, <1>1, TailCounts DEF Queued, e
  <2>2. /\ Cardinality(Holders(pc', held', m)) = InHand(m)
              - Bit(w \in Holders(pc, held, m)) + Bit(w \in Holders(pc', held', m))
    <3>1. \A v \in Worker \ {w} : pc'[v] = pc[v] /\ held'[v] = held[v]
      BY <1>0 DEF TypeOK
    <3> QED BY <3>1, HoldersCount DEF InHand
  <2>3. w \notin Holders(pc, held, m) /\ (w \in Holders(pc', held', m) <=> e.message = m)
    <3>1. pc'[w] = "handling" /\ held'[w] = e
      BY <1>0 DEF TypeOK
    <3> QED BY <1>0, <3>1 DEF Holders
  <2>4. Bit(w \in Holders(pc, held, m)) = 0 /\ Bit(w \in Holders(pc', held', m)) = Bit(e.message = m)
    BY <2>3 DEF Bit
  <2>5. Cardinality(Postponed(delayed', m)) = Later(m) /\ Fate(m)' = Fate(m)
    BY <1>0 DEF Later, Fate
  <2>6. Queued(m) + Later(m) + InHand(m) + Fate(m) = IF sender[m] = "sent" THEN 1 ELSE 0
    BY PlacesSum DEF Messages, OnePlace
  <2>7. /\ Queued(m) \in Nat /\ Later(m) \in Nat /\ InHand(m) \in Nat /\ Fate(m) \in {0, 1}
        /\ Bit(e.message = m) \in {0, 1} /\ Cardinality(Positions(queue', m)) \in Nat
    BY <1>0, <1>1, PlacesFinite, PositionsFinite DEF Bit
  <2>8. Places(m)' = Cardinality(Positions(queue', m)) + Cardinality(Postponed(delayed', m))
                       + Cardinality(Holders(pc', held', m)) + Fate(m)'
    BY PlacesNext
  <2> QED BY <1>0, <2>1, <2>2, <2>4, <2>5, <2>6, <2>7, <2>8
<1>8. CountsAttempts'
  <2>1. \A i \in DOMAIN queue' : Within(queue'[i]) /\ dispatches'[queue'[i].message] = Attempts(queue'[i])
    <3> SUFFICES ASSUME NEW i \in DOMAIN queue'
                 PROVE  Within(queue'[i]) /\ dispatches'[queue'[i].message] = Attempts(queue'[i])
      OBVIOUS
    <3>1. i + 1 \in DOMAIN queue /\ queue'[i] = queue[i + 1] /\ i + 1 # 1
      BY <1>0, <1>1
    <3>2. queue[i + 1].message # e.message /\ queue[i + 1].message \in Message
      <4>1. queue[i + 1] \in Envelopes
        BY <1>1, <3>1
      <4> QED BY <1>2, <3>1, <4>1 DEF Envelopes
    <3> QED BY <1>3, <1>5, <3>1, <3>2 DEF Messages, CountsAttempts
  <2>2. \A f \in delayed : Within(f) /\ dispatches'[f.message] = Attempts(f)
    <3>1. \A f \in delayed : f.message \in Message /\ f.message # e.message
      BY <1>0, <1>2 DEF TypeOK, Envelopes
    <3> QED BY <1>3, <1>5, <3>1 DEF Messages, CountsAttempts
  <2>3. \A v \in Worker : pc'[v] = "handling" =>
          Within(held'[v]) /\ dispatches'[held'[v].message] = Attempts(held'[v]) + 1
    <3> SUFFICES ASSUME NEW v \in Worker, pc'[v] = "handling"
                 PROVE  Within(held'[v]) /\ dispatches'[held'[v].message] = Attempts(held'[v]) + 1
      OBVIOUS
    <3>1. CASE v = w
      <4>1. held'[v] = e
        BY <1>0, <3>1 DEF TypeOK
      <4>2. dispatches'[e.message] = Attempts(e) + 1
        BY <1>1, <1>3, <1>5
      <4> QED BY <1>2, <4>1, <4>2
    <3>2. CASE v # w
      <4>1. pc[v] = "handling" /\ held'[v] = held[v] /\ held[v].message # e.message
              /\ held[v].message \in Message
        BY <1>0, <1>2, <3>2 DEF TypeOK, Envelopes
      <4> QED BY <1>3, <1>5, <4>1 DEF Messages, CountsAttempts
    <3> QED BY <3>1, <3>2
  <2>4. \A m \in Message : sender[m] # "sent" => dispatches'[m] = 0
    BY <1>2, <1>3, <1>5 DEF Messages, CountsAttempts
  <2> QED BY <1>0, <2>1, <2>2, <2>3, <2>4 DEF CountsAttempts, Within
<1>9. GivenUpAsConfigured'
  BY <1>0, <1>2, <1>3, <1>5 DEF Messages, GivenUpAsConfigured
<1> QED BY <1>0, <1>6, <1>7, <1>8, <1>9 DEF Messages

(* A worker is done with its envelope.                                     *)
Leaves(w) ==
  /\ pc[w] = "handling" /\ Consumed(w) /\ Landed(ToCounting(w))
  /\ UNCHANGED <<policy, sender, closed, queueOpen, counterVars, interrupted, poolVars,
                 dispatches, taken>>

LEMMA HandledFacts ==
  ASSUME Messages, NEW w \in Worker, pc[w] = "handling"
  PROVE  /\ held[w] \in Envelopes /\ held[w].message \in Message
         /\ held[w].redelivery \in Nat /\ held[w].deadLetter \in Nat
         /\ settled[held[w].message] = "none" /\ sender[held[w].message] = "sent"
         /\ \A i \in DOMAIN queue : queue[i].message # held[w].message
         /\ \A e \in delayed : e.message # held[w].message
         /\ \A v \in Worker : pc[v] = "handling" /\ held[v].message = held[w].message => v = w
         /\ Within(held[w]) /\ dispatches[held[w].message] = Attempts(held[w]) + 1
<1>1. held[w] \in Envelopes
  BY DEF Messages, TypeOK
<1>2. held[w].message \in Message /\ held[w].redelivery \in Nat /\ held[w].deadLetter \in Nat
  BY <1>1 DEF Envelopes
<1> QED BY <1>1, <1>2, OneEnvelope DEF Messages, CountsAttempts

LEMMA LeavesPlaces ==
  ASSUME Messages, NEW w \in Worker, Leaves(w), NEW m \in Message
  PROVE  /\ Cardinality(Holders(pc', held', m)) = InHand(m) - Bit(held[w].message = m)
         /\ pc' \in PlacesOfWorkers
         /\ held' \in [Worker -> Envelopes \cup {NoEnvelope}]
         /\ \A v \in Worker : IF pc'[v] = "handling" THEN held'[v] \in Envelopes
                                                     ELSE held'[v] = NoEnvelope
         /\ \A v \in Worker : pc'[v] = "handling" =>
              v # w /\ pc[v] = "handling" /\ held'[v] = held[v]
<1> DEFINE at == ToCounting(w)
<1>1. /\ at = [pc EXCEPT ![w] = "counting"] /\ held' = [held EXCEPT ![w] = NoEnvelope]
      /\ pc[w] = "handling" /\ Landed(at)
      /\ pc \in PlacesOfWorkers /\ held \in [Worker -> Envelopes \cup {NoEnvelope}]
  BY DEF Leaves, Consumed, ToCounting, Messages, TypeOK, PlacesOfWorkers
<1> HIDE DEF at
<1>1a. /\ at[w] = "counting" /\ \A v \in Worker \ {w} : at[v] = pc[v]
       /\ pc'[w] = "counting"
  BY <1>1 DEF Landed, PlacesOfWorkers
<1>2. /\ pc' \in PlacesOfWorkers
      /\ held' \in [Worker -> Envelopes \cup {NoEnvelope}]
  BY <1>1 DEF Landed
<1>3. \A v \in Worker : pc'[v] = "handling" => v # w /\ pc[v] = "handling" /\ held'[v] = held[v]
  BY <1>1, <1>1a DEF Landed
<1>4. \A v \in Worker : IF pc'[v] = "handling" THEN held'[v] \in Envelopes
                                                ELSE held'[v] = NoEnvelope
  <2>1. \A v \in Worker : pc'[v] # "handling" => v = w \/ pc[v] # "handling"
    BY <1>1, <1>1a DEF Landed
  <2> QED BY <1>1, <1>3, <2>1 DEF Messages, TypeOK
<1>5. /\ Cardinality(Holders(pc', held', m)) = InHand(m)
           - Bit(w \in Holders(pc, held, m)) + Bit(w \in Holders(pc', held', m))
      /\ InHand(m) \in Nat
  <2>1. \A v \in Worker \ {w} : at[v] = pc[v] /\ held'[v] = held[v]
    BY <1>1, <1>1a
  <2>2. Holders(pc', held', m) = Holders(at, held', m)
    BY <1>1, LandedHolders
  <2> QED BY <2>1, <2>2, HoldersCount DEF InHand
<1>6. w \notin Holders(pc', held', m) /\ (w \in Holders(pc, held, m) <=> held[w].message = m)
  BY <1>1, <1>3 DEF Holders
<1>7. Bit(w \in Holders(pc', held', m)) = 0
        /\ Bit(w \in Holders(pc, held, m)) = Bit(held[w].message = m)
        /\ Bit(held[w].message = m) \in Nat
  BY <1>6 DEF Bit
<1>8. Cardinality(Holders(pc', held', m)) = InHand(m) - Bit(held[w].message = m)
  BY <1>5, <1>7
<1> QED BY <1>2, <1>3, <1>4, <1>8

(* Its message is settled.                                                 *)
LEMMA SettledKeeps ==
  ASSUME Messages, NEW w \in Worker, Leaves(w), failures' \subseteq Envelopes,
         NEW fate \in {"handled", "deadLettered", "discarded"},
         Settle(held[w].message, fate), UNCHANGED <<queue, delayed>>
  PROVE  TypeOK' /\ IsFiniteSet(delayed') /\ OnePlace' /\ CountsAttempts'
<1>0. /\ TypeOK /\ IsFiniteSet(delayed) /\ pc[w] = "handling"
      /\ settled' = [settled EXCEPT ![held[w].message] = fate]
      /\ UNCHANGED <<policy, sender, closed, queueOpen, counterVars, interrupted, poolVars,
                     dispatches, taken, queue, delayed>>
  BY DEF Messages, Leaves, Settle
<1>1. held[w].message \in Message /\ settled[held[w].message] = "none"
  BY <1>0, HandledFacts
<1>2. TypeOK'
  <2>1. settled' \in Fates
    BY <1>0, <1>1 DEF TypeOK, Fates
  <2>2. /\ pc' \in PlacesOfWorkers
        /\ held' \in [Worker -> Envelopes \cup {NoEnvelope}]
        /\ \A v \in Worker : IF pc'[v] = "handling" THEN held'[v] \in Envelopes
                                                    ELSE held'[v] = NoEnvelope
    BY <1>1, LeavesPlaces
  <2> QED BY <1>0, <2>1, <2>2 DEF TypeOK, Fates, PlacesOfWorkers, counterVars, poolVars
<1>3. OnePlace'
  <2> SUFFICES ASSUME NEW m \in Message
               PROVE  Places(m)' = IF sender'[m] = "sent" THEN 1 ELSE 0
    BY DEF OnePlace
  <2>1. Cardinality(Holders(pc', held', m)) = InHand(m) - Bit(held[w].message = m)
    BY LeavesPlaces
  <2>2. Fate(m)' = Fate(m) + Bit(held[w].message = m)
    BY <1>0, <1>1 DEF Fate, Bit, TypeOK
  <2>3. Cardinality(Positions(queue', m)) = Queued(m) /\ Cardinality(Postponed(delayed', m)) = Later(m)
    BY <1>0 DEF Queued, Later
  <2>4. Queued(m) + Later(m) + InHand(m) + Fate(m) = IF sender[m] = "sent" THEN 1 ELSE 0
    BY PlacesSum DEF Messages, OnePlace
  <2>5. /\ Queued(m) \in Nat /\ Later(m) \in Nat /\ InHand(m) \in Nat /\ Fate(m) \in {0, 1}
        /\ Bit(held[w].message = m) \in {0, 1}
    BY <1>0, PlacesFinite DEF Bit
  <2>6. Places(m)' = Cardinality(Positions(queue', m)) + Cardinality(Postponed(delayed', m))
                       + Cardinality(Holders(pc', held', m)) + Fate(m)'
    BY PlacesNext
  <2> QED BY <1>0, <2>1, <2>2, <2>3, <2>4, <2>5, <2>6
<1>4. CountsAttempts'
  <2>1. \A v \in Worker : pc'[v] = "handling" => pc[v] = "handling" /\ held'[v] = held[v]
    BY <1>1, LeavesPlaces
  <2> QED BY <1>0, <2>1 DEF Messages, CountsAttempts, Within
<1> QED BY <1>0, <1>2, <1>3, <1>4

(* Its message goes on in another envelope.                                *)
LEMMA NackedKeeps ==
  ASSUME Messages, NEW w \in Worker, Leaves(w), UNCHANGED failures,
         NEW f \in Envelopes, f.message = held[w].message, Nack(f, ToCounting(w)),
         Within(f), Attempts(f) = Attempts(held[w]) + 1
  PROVE  /\ TypeOK' /\ IsFiniteSet(delayed') /\ OnePlace' /\ CountsAttempts'
         /\ \A m \in Message : settled'[m] \in {settled[m], "dropped"}
<1>0. /\ TypeOK /\ IsFiniteSet(delayed) /\ pc[w] = "handling"
      /\ UNCHANGED <<policy, sender, closed, queueOpen, counterVars, interrupted, poolVars,
                     dispatches, taken, failures>>
  BY DEF Messages, Leaves
<1>1. /\ f.message \in Message /\ settled[f.message] = "none"
      /\ \A e \in delayed : e.message # f.message
      /\ dispatches[f.message] = Attempts(f)
  BY <1>0, HandledFacts
<1>2. \/ delayed' = delayed \cup {f} /\ UNCHANGED <<queue, settled>>
      \/ queue' = Append(queue, f) /\ UNCHANGED <<settled, delayed>>
      \/ settled' = [settled EXCEPT ![f.message] = "dropped"] /\ UNCHANGED <<queue, delayed>>
  BY DEF Nack, Requeue, Offer, Dropped, Settle
<1>3. ASSUME NEW m \in Message
      PROVE  /\ queue' \in Seq(Envelopes) /\ settled' \in Fates
             /\ delayed' \subseteq Envelopes /\ IsFiniteSet(delayed')
             /\ Cardinality(Positions(queue', m)) + Cardinality(Postponed(delayed', m)) + Fate(m)'
                  = Queued(m) + Later(m) + Fate(m) + Bit(f.message = m)
  BY <1>0, <1>1, NackPlaces
<1>4. TypeOK'
  <2>1. /\ queue' \in Seq(Envelopes) /\ settled' \in Fates
        /\ delayed' \subseteq Envelopes
    BY <1>1, <1>3
  <2>2. /\ pc' \in PlacesOfWorkers
        /\ held' \in [Worker -> Envelopes \cup {NoEnvelope}]
        /\ \A v \in Worker : IF pc'[v] = "handling" THEN held'[v] \in Envelopes
                                                    ELSE held'[v] = NoEnvelope
    BY <1>1, LeavesPlaces
  <2> QED BY <1>0, <2>1, <2>2 DEF TypeOK, Fates, PlacesOfWorkers, counterVars, poolVars
<1>5. OnePlace'
  <2> SUFFICES ASSUME NEW m \in Message
               PROVE  Places(m)' = IF sender'[m] = "sent" THEN 1 ELSE 0
    BY DEF OnePlace
  <2>1. Cardinality(Holders(pc', held', m)) = InHand(m) - Bit(f.message = m)
    BY LeavesPlaces
  <2>2. /\ Cardinality(Positions(queue', m)) + Cardinality(Postponed(delayed', m)) + Fate(m)'
             = Queued(m) + Later(m) + Fate(m) + Bit(f.message = m)
    BY <1>3
  <2>3. /\ Queued(m) \in Nat /\ Later(m) \in Nat /\ InHand(m) \in Nat /\ Fate(m) \in {0, 1}
        /\ Bit(f.message = m) \in {0, 1} /\ Fate(m)' \in {0, 1}
    BY <1>0, PlacesFinite DEF Bit, Fate
  <2>4. Cardinality(Positions(queue', m)) \in Nat /\ Cardinality(Postponed(delayed', m)) \in Nat
    <3>1. Postponed(delayed', m) \in SUBSET delayed'
      BY DEF Postponed
    <3> QED BY <1>3, <3>1, PositionsFinite, FS_Subset, FS_CardinalityType
  <2>5. Queued(m) + Later(m) + InHand(m) + Fate(m) = IF sender[m] = "sent" THEN 1 ELSE 0
    BY PlacesSum DEF Messages, OnePlace
  <2>6. Places(m)' = Cardinality(Positions(queue', m)) + Cardinality(Postponed(delayed', m))
                       + Cardinality(Holders(pc', held', m)) + Fate(m)'
    BY PlacesNext
  <2> QED BY <1>0, <2>1, <2>2, <2>3, <2>4, <2>5, <2>6
<1>6. CountsAttempts'
  <2>1. \A v \in Worker : pc'[v] = "handling" => pc[v] = "handling" /\ held'[v] = held[v]
    BY <1>1, LeavesPlaces
  <2>2. \A i \in DOMAIN queue' : queue'[i] = f \/ (i \in DOMAIN queue /\ queue'[i] = queue[i])
    <3>1. queue \in Seq(Envelopes) /\ (queue' = Append(queue, f) \/ queue' = queue)
      BY <1>0, <1>2 DEF TypeOK
    <3> QED BY <3>1
  <2>3. \A e \in delayed' : e = f \/ e \in delayed
    BY <1>2
  <2>4. /\ \A i \in DOMAIN queue' :
             Within(queue'[i]) /\ dispatches[queue'[i].message] = Attempts(queue'[i])
        /\ \A e \in delayed' : Within(e) /\ dispatches[e.message] = Attempts(e)
    BY <1>1, <2>2, <2>3 DEF Messages, CountsAttempts
  <2> QED BY <1>0, <2>1, <2>4 DEF Messages, CountsAttempts, Within
<1>7. \A m \in Message : settled'[m] \in {settled[m], "dropped"}
  BY <1>0, <1>2 DEF TypeOK
<1> QED BY <1>1, <1>3, <1>4, <1>5, <1>6, <1>7

LEMMA GivenUpKeeps ==
  ASSUME Messages, NEW m0 \in Message, settled[m0] = "none", UNCHANGED <<policy, dispatches>>,
         \A m \in Message : m # m0 => settled'[m] \in {settled[m], "dropped"},
         settled'[m0] = "deadLettered" => dispatches[m0] > policy.retries,
         settled'[m0] = "discarded" =>
           /\ dispatches[m0] = policy.retries + IF policy.failureTransport THEN policy.deadLetters ELSE 1
           /\ policy.failureTransport => policy.deadLetters > 0
  PROVE  GivenUpAsConfigured'
BY DEF Messages, GivenUpAsConfigured

LEMMA HandledKeeps ==
  ASSUME Messages, NEW w \in Worker, Handled(w) PROVE Messages'
<1>1. Leaves(w) /\ Settle(held[w].message, "handled") /\ UNCHANGED <<queue, delayed, failures>>
  <2>1. pc' = ToCounting(w) /\ pc' \in PlacesOfWorkers
    BY DEF Handled, ToCounting, Messages, TypeOK, PlacesOfWorkers
  <2> QED BY <2>1, OfferLands DEF Handled, Leaves, transportVars
<1>2. failures' \subseteq Envelopes
  BY <1>1 DEF Messages, TypeOK
<1>3. TypeOK' /\ IsFiniteSet(delayed') /\ OnePlace' /\ CountsAttempts'
  BY <1>1, <1>2, SettledKeeps
<1>4. GivenUpAsConfigured'
  <2>1. settled' = [settled EXCEPT ![held[w].message] = "handled"]
    BY <1>1 DEF Settle
  <2> QED BY <1>1, <2>1 DEF Messages, GivenUpAsConfigured, Leaves, TypeOK
<1> QED BY <1>3, <1>4 DEF Messages

LEMMA FailedKeeps ==
  ASSUME Messages, NEW w \in Worker, Failed(w) PROVE Messages'
<1> DEFINE e == held[w]
<1>0. /\ pc' = ToCounting(w) \/ (\E f : Offer(f, ToCounting(w)))
      /\ pc[w] = "handling"
  BY DEF Failed, Nack, Requeue, Dropped
<1>0a. ToCounting(w) \in PlacesOfWorkers
  BY DEF ToCounting, Messages, TypeOK, PlacesOfWorkers
<1>1. /\ Leaves(w) /\ pc[w] = "handling"
      /\ UNCHANGED <<policy, dispatches>>
  BY <1>0, <1>0a, OfferLands DEF Failed, Leaves
<1>2. /\ e \in Envelopes /\ e.message \in Message /\ settled[e.message] = "none"
      /\ e.redelivery \in Nat /\ e.deadLetter \in Nat
      /\ Within(e) /\ dispatches[e.message] = Attempts(e) + 1
  BY <1>1, HandledFacts
<1>3. /\ e.delay \in BOOLEAN /\ policy.retries \in Nat /\ policy.deadLetters \in Nat
      /\ policy.backoff \in BOOLEAN /\ failures \subseteq Envelopes
      /\ settled \in Fates
  BY <1>2, PolicyType DEF Envelopes, Messages, TypeOK, Fates
<1> HIDE DEF e
<1>4. CASE e.redelivery < policy.retries
  <2> DEFINE f == Retried(e)
  <2>1. Nack(f, ToCounting(w)) /\ UNCHANGED failures
    BY <1>4 DEF Failed, e
  <2>2. f \in Envelopes /\ f.message = e.message /\ f.redelivery = e.redelivery + 1
          /\ f.deadLetter = e.deadLetter
    BY <1>2, <1>3 DEF Retried, Envelope, Envelopes
  <2> HIDE DEF f
  <2>3. Within(f) /\ Attempts(f) = Attempts(e) + 1
    BY <1>2, <1>3, <1>4, <2>2 DEF Within, Attempts
  <2>4. /\ TypeOK' /\ IsFiniteSet(delayed') /\ OnePlace' /\ CountsAttempts'
        /\ \A m \in Message : settled'[m] \in {settled[m], "dropped"}
    BY <1>1, <2>1, <2>2, <2>3, NackedKeeps DEF e
  <2> QED BY <1>1, <1>2, <2>4, GivenUpKeeps DEF Messages
<1>5. CASE ~ (e.redelivery < policy.retries) /\ ~policy.failureTransport
  <2>1. Settle(e.message, "discarded") /\ UNCHANGED <<queue, delayed, failures>>
    BY <1>5 DEF Failed, e
  <2>2. failures' \subseteq Envelopes
    BY <2>1, <1>3
  <2>3. TypeOK' /\ IsFiniteSet(delayed') /\ OnePlace' /\ CountsAttempts'
    BY <1>1, <2>1, <2>2, SettledKeeps DEF e
  <2>4. dispatches[e.message] = policy.retries + 1
    BY <1>2, <1>3, <1>5 DEF Within, Attempts
  <2>5. settled' = [settled EXCEPT ![e.message] = "discarded"]
    BY <2>1 DEF Settle
  <2>6. GivenUpAsConfigured'
    BY <1>1, <1>2, <1>3, <1>5, <2>4, <2>5, GivenUpKeeps DEF Fates
  <2> QED BY <2>3, <2>6 DEF Messages
<1>6. CASE ~ (e.redelivery < policy.retries) /\ policy.failureTransport
  <2>0. e.redelivery = policy.retries
    BY <1>2, <1>3, <1>6 DEF Within
  <2>1. CASE failures' = failures \cup {e} /\ Settle(e.message, "deadLettered")
               /\ UNCHANGED <<queue, delayed>>
    <3>1. failures' \subseteq Envelopes
      BY <2>1, <1>2, <1>3
    <3>2. TypeOK' /\ IsFiniteSet(delayed') /\ OnePlace' /\ CountsAttempts'
      BY <1>1, <2>1, <3>1, SettledKeeps DEF e
    <3>3. dispatches[e.message] > policy.retries
      BY <1>2, <1>3, <2>0 DEF Attempts
    <3>4. settled' = [settled EXCEPT ![e.message] = "deadLettered"]
      BY <2>1 DEF Settle
    <3>5. GivenUpAsConfigured'
      BY <1>1, <1>2, <1>3, <3>3, <3>4, GivenUpKeeps DEF Fates
    <3> QED BY <3>2, <3>5 DEF Messages
  <2>2. CASE /\ UNCHANGED failures /\ ExhaustsDeadLetters(e)
             /\ Settle(e.message, "discarded") /\ UNCHANGED <<queue, delayed>>
    <3>1. Settle(e.message, "discarded") /\ UNCHANGED <<queue, delayed, failures>>
      BY <2>2
    <3>2. failures' \subseteq Envelopes
      BY <3>1, <1>3
    <3>3. TypeOK' /\ IsFiniteSet(delayed') /\ OnePlace' /\ CountsAttempts'
      BY <1>1, <3>1, <3>2, SettledKeeps DEF e
    <3>4. policy.deadLetters > 0 /\ dispatches[e.message] = policy.retries + policy.deadLetters
      BY <1>2, <1>3, <2>0, <2>2 DEF ExhaustsDeadLetters, Within, Attempts
    <3>5. settled' = [settled EXCEPT ![e.message] = "discarded"]
      BY <3>1 DEF Settle
    <3>6. GivenUpAsConfigured'
      BY <1>1, <1>2, <1>3, <1>6, <3>4, <3>5, GivenUpKeeps DEF Fates
    <3> QED BY <3>3, <3>6 DEF Messages
  <2>3. CASE UNCHANGED failures /\ ~ExhaustsDeadLetters(e) /\ Nack(Requeued(e), ToCounting(w))
               /\ (policy.deadLetters > 0 \/ e.deadLetter < MaxRejections)
    <3> DEFINE f == Requeued(e)
    <3>1. f \in Envelopes /\ f.message = e.message /\ f.redelivery = e.redelivery
            /\ f.deadLetter = e.deadLetter + 1
      BY <1>2, <1>3 DEF Requeued, Envelope, Envelopes
    <3>2. Nack(f, ToCounting(w))
      BY <2>3
    <3> HIDE DEF f
    <3>3. Within(f) /\ Attempts(f) = Attempts(e) + 1
      BY <1>2, <1>3, <1>6, <2>0, <2>3, <3>1 DEF ExhaustsDeadLetters, Within, Attempts
    <3>4. /\ TypeOK' /\ IsFiniteSet(delayed') /\ OnePlace' /\ CountsAttempts'
          /\ \A m \in Message : settled'[m] \in {settled[m], "dropped"}
      BY <1>1, <2>3, <3>1, <3>2, <3>3, NackedKeeps DEF e
    <3> QED BY <1>1, <1>2, <3>4, GivenUpKeeps DEF Messages
  <2> QED BY <1>6, <2>1, <2>2, <2>3 DEF Failed, e
<1> QED BY <1>4, <1>5, <1>6

(* The other steps of a worker, of the senders, the broker and the command *)
(* leave the envelopes where they are.                                     *)
LEMMA OthersKeep ==
  ASSUME Messages,
         \/ \E m \in Message : SendStart(m)
         \/ CloseTransport \/ DeliveryEnds \/ Interrupt \/ CommandStep \/ UNCHANGED vars
         \/ \E w \in Worker : Reserve(w) \/ WorkerStops(w) \/ FindsClosed(w) \/ Count(w)
  PROVE  Messages'
<1> USE DEF transportVars, counterVars, poolVars, historyVars
<1>0. TypeOK
  BY DEF Messages
<1>1. ASSUME NEW m \in Message, SendStart(m) PROVE Messages'
  <2>1. TypeOK'
    BY <1>0, <1>1 DEF SendStart, TypeOK
  <2> QED BY <1>0, <1>1, <2>1, QuietKeeps DEF SendStart, TypeOK
<1>2. CASE CloseTransport \/ DeliveryEnds \/ Interrupt \/ CommandStep \/ UNCHANGED vars
  <2>1. TypeOK'
    <3>1. CASE CloseTransport \/ DeliveryEnds \/ Interrupt \/ UNCHANGED vars
      BY <1>0, <3>1 DEF CloseTransport, DeliveryEnds, Interrupt, vars, TypeOK
    <3>2. CASE CommandStep
      BY <1>0, <3>2 DEF CommandStep, Drained, SeesInterrupt, GraceExpires, Return, TypeOK
    <3> QED BY <1>2, <3>1, <3>2
  <2>2. UNCHANGED <<policy, sender, queue, delayed, settled, dispatches, pc, held>>
    BY <1>2 DEF CloseTransport, DeliveryEnds, Interrupt, CommandStep, Drained, SeesInterrupt,
      GraceExpires, vars
  <2> QED BY <2>1, <2>2, QuietKeeps
<1>3. ASSUME NEW w \in Worker, Reserve(w) \/ WorkerStops(w) \/ FindsClosed(w) \/ Count(w)
      PROVE  Messages'
  <2>1. /\ UNCHANGED <<policy, sender, queue, delayed, settled, dispatches, held, closed, queueOpen,
                       interrupted, failures, taken>>
        /\ pc[w] # "handling"
        /\ \E place \in {"reserve", "select", "counting", "ended"} : pc' = [pc EXCEPT ![w] = place]
    BY <1>3 DEF Reserve, WorkerStops, FindsClosed, Count
  <2>2. /\ reserved' \in Nat /\ processed' \in Nat /\ canceled' \in BOOLEAN /\ loopErr' \in BOOLEAN
        /\ command' = command
    <3>1. CASE Reserve(w)
      BY <1>0, <3>1 DEF Reserve, TypeOK
    <3>2. CASE WorkerStops(w)
      BY <1>0, <3>2 DEF WorkerStops, TypeOK
    <3>3. CASE FindsClosed(w)
      BY <1>0, <3>3 DEF FindsClosed, ClosedError, TypeOK
    <3>4. CASE Count(w)
      BY <1>0, <3>4 DEF Count, LimitReached, TypeOK
    <3> QED BY <1>3, <3>1, <3>2, <3>3, <3>4
  <2>3. /\ pc' \in PlacesOfWorkers
        /\ \A v \in Worker : pc[v] = "handling" <=> pc'[v] = "handling"
    BY <1>0, <2>1 DEF TypeOK, PlacesOfWorkers
  <2>4. TypeOK'
    BY <1>0, <2>1, <2>2, <2>3 DEF TypeOK
  <2> QED BY <2>1, <2>3, <2>4, QuietKeeps
<1> QED BY <1>1, <1>2, <1>3

LEMMA MessagesNext == Messages /\ [Next]_vars => Messages'
BY SendDoneKeeps, RequeueAfterKeeps, TakeKeeps, HandledKeeps, FailedKeeps, OthersKeep
   DEF Next, WorkerStep

LEMMA MessagesInit == Init => Messages
<1> SUFFICES ASSUME Init PROVE Messages
  OBVIOUS
<1>1. TypeOK
  <2>1. << >> \in Seq(Envelopes)
    OBVIOUS
  <2>2. \A w \in Worker : pc[w] = "reserve" /\ held[w] = NoEnvelope
    BY DEF Init
  <2>3. /\ pc \in PlacesOfWorkers
        /\ held \in [Worker -> Envelopes \cup {NoEnvelope}]
        /\ settled \in Fates /\ dispatches \in [Message -> Nat]
    BY DEF Init, Fates, PlacesOfWorkers
  <2> QED BY <2>1, <2>2, <2>3 DEF Init, TypeOK, Fates
<1>2. IsFiniteSet(delayed)
  BY FS_EmptySet DEF Init
<1>3. OnePlace
  <2> SUFFICES ASSUME NEW m \in Message PROVE Places(m) = 0
    BY DEF OnePlace, Init
  <2>1. Positions(queue, m) = {} /\ Postponed(delayed, m) = {} /\ Holders(pc, held, m) = {}
    BY DEF Init, Positions, Postponed, Holders
  <2>2. Queued(m) = 0 /\ Later(m) = 0 /\ InHand(m) = 0 /\ Fate(m) = 0
    BY <2>1, FS_EmptySet DEF Queued, Later, InHand, Fate, Init
  <2> QED BY <2>2, PlacesSum
<1> QED BY <1>1, <1>2, <1>3 DEF Init, Messages, CountsAttempts, GivenUpAsConfigured

THEOREM MessagesInvariance == Spec => []Messages
<1>1. Messages /\ [Next]_vars => Messages'
  BY MessagesNext
<1> QED BY MessagesInit, <1>1, PTL DEF Spec

(* A message that was sent has one place, whatever retries, shutdowns and  *)
(* workers do.                                                             *)
THEOREM OnePlaceHolds == Spec => []OnePlace
<1>1. Messages => OnePlace
  BY DEF Messages
<1> QED BY MessagesInvariance, <1>1, PTL

(* A message is given up after as many attempts as the policy says.        *)
THEOREM GivenUpAsConfiguredHolds == Spec => []GivenUpAsConfigured
<1>1. Messages => GivenUpAsConfigured
  BY DEF Messages
<1> QED BY MessagesInvariance, <1>1, PTL
-----------------------------------------------------------------------------
(* The limit of the command.                                               *)
LEMMA AtCount ==
  ASSUME Messages, NEW w \in Worker, NEW places,
         \A v \in Worker : v # w => (pc'[v] \in places <=> pc[v] \in places)
  PROVE  /\ Cardinality(At(places)) \in Nat
         /\ Cardinality(At(places)') =
              Cardinality(At(places)) - Bit(pc[w] \in places) + Bit(pc'[w] \in places)
<1>1. /\ At(places) \in SUBSET Worker /\ At(places)' \in SUBSET Worker
      /\ \A v \in Worker \ {w} : v \in At(places) <=> v \in At(places)'
      /\ w \in At(places) <=> pc[w] \in places
      /\ w \in At(places)' <=> pc'[w] \in places
  BY DEF At
<1>2. /\ Cardinality(At(places)) \in Nat
      /\ Cardinality(At(places)') =
           Cardinality(At(places)) - Bit(w \in At(places)) + Bit(w \in At(places)')
  BY <1>1, WorkersCount
<1>3. /\ Bit(w \in At(places)) = Bit(pc[w] \in places)
      /\ Bit(w \in At(places)') = Bit(pc'[w] \in places)
  BY <1>1 DEF Bit
<1> QED BY <1>2, <1>3

Counters ==
  /\ reserved \in Nat /\ processed \in Nat /\ taken \in Nat /\ policy.limit \in Nat
  /\ Choosing \in Nat /\ OnTheWay \in Nat

LEMMA CountersType == ASSUME Messages PROVE Counters
<1>1. /\ At({"select", "receiving"}) \in SUBSET Worker
      /\ At({"select", "receiving", "handling", "counting"}) \in SUBSET Worker
  BY DEF At
<1>2. /\ Cardinality(At({"select", "receiving"})) \in Nat
      /\ Cardinality(At({"select", "receiving", "handling", "counting"})) \in Nat
  BY <1>1, FS_Subset, FS_CardinalityType
<1> QED BY <1>2, PolicyType DEF Messages, TypeOK, Counters, Choosing, OnTheWay

Limits == KeepsSlots /\ EndsForAReason

(* One worker moves, another may be handed an envelope, and what that does *)
(* to the counts.                                                          *)
LEMMA MoveCounts ==
  ASSUME Messages, NEW w \in Worker,
         \A v \in Worker : v # w =>
           pc'[v] = pc[v] \/ (pc[v] = "select" /\ pc'[v] = "receiving")
  PROVE  /\ Choosing' = Choosing
              - (IF pc[w] \in {"select", "receiving"} THEN 1 ELSE 0)
              + (IF pc'[w] \in {"select", "receiving"} THEN 1 ELSE 0)
         /\ OnTheWay' = OnTheWay
                - (IF pc[w] \in {"select", "receiving", "handling", "counting"} THEN 1 ELSE 0)
                + (IF pc'[w] \in {"select", "receiving", "handling", "counting"} THEN 1 ELSE 0)
<1>1. /\ Cardinality(At({"select", "receiving"})') = Cardinality(At({"select", "receiving"}))
           - Bit(pc[w] \in {"select", "receiving"}) + Bit(pc'[w] \in {"select", "receiving"})
      /\ Cardinality(At({"select", "receiving", "handling", "counting"})')
           = Cardinality(At({"select", "receiving", "handling", "counting"}))
             - Bit(pc[w] \in {"select", "receiving", "handling", "counting"})
             + Bit(pc'[w] \in {"select", "receiving", "handling", "counting"})
  BY AtCount
<1> QED BY <1>1 DEF Bit, Choosing, OnTheWay

LEMMA LimitsNext ==
  ASSUME Messages, Limits, [Next]_vars PROVE Limits'
<1>0. Counters /\ pc \in PlacesOfWorkers
  BY CountersType DEF Messages, TypeOK, PlacesOfWorkers
<1> USE DEF PlacesOfWorkers, Limits, Slots, Over, LimitFull, Counters, transportVars, counterVars, poolVars, historyVars
<1>1. ASSUME NEW w \in Worker, Reserve(w) PROVE Limits'
  <2> DEFINE place == IF Reserves(reserved') THEN "select" ELSE "ended"
  <2>1. /\ pc' = [pc EXCEPT ![w] = place] /\ pc[w] = "reserve"
        /\ reserved' = IF policy.limit = 0 THEN 0 ELSE reserved + 1
        /\ UNCHANGED <<policy, processed, taken, interrupted, loopErr, canceled, command>>
    BY <1>1 DEF Reserve
  <2>2. place = IF policy.limit = 0 \/ reserved' <= policy.limit THEN "select" ELSE "ended"
    BY DEF Reserves
  <2> HIDE DEF place
  <2>2a. (\A v \in Worker : v # w => pc'[v] = pc[v]) /\ pc'[w] = place
    BY <1>0, <2>1
  <2>3. ASSUME place = "select" PROVE KeepsSlots'
    <3>1. /\ Choosing' = Choosing + 1 /\ OnTheWay' = OnTheWay + 1
          /\ \A v \in Worker : pc'[v] = "ended" => pc[v] = "ended"
      BY <1>0, <2>1, <2>2a, <2>3, MoveCounts
    <3>2. policy.limit > 0 => Slots = reserved /\ Slots' = reserved + 1
      BY <1>0, <2>1, <2>2, <2>3
    <3>3. Over' <=> Over
      BY <2>1
    <3>4. policy'.limit > 0 => taken' + Choosing' <= Slots'
      <4> HIDE DEF Slots, Over
      <4> QED BY <1>0, <2>1, <3>1, <3>2 DEF KeepsSlots
    <3>5. policy'.limit > 0 /\ ~Over' => Slots' = processed' + OnTheWay'
      <4> HIDE DEF Slots, Over
      <4> QED BY <1>0, <2>1, <3>1, <3>2, <3>3 DEF KeepsSlots
    <3>6. ASSUME ~Over', NEW v \in Worker, pc'[v] = "ended"
          PROVE  policy'.limit > 0 /\ reserved' > policy'.limit
      <4>1. policy.limit > 0 /\ reserved > policy.limit
        BY <3>1, <3>3, <3>6 DEF KeepsSlots
      <4> QED BY <1>0, <2>1, <4>1
    <3> QED BY <3>4, <3>5, <3>6 DEF KeepsSlots
  <2>4. ASSUME place # "select" PROVE KeepsSlots'
    <3>1. /\ Choosing' = Choosing /\ OnTheWay' = OnTheWay
          /\ \A v \in Worker : v # w => pc'[v] = pc[v]
      BY <1>0, <2>1, <2>2, <2>2a, <2>4, MoveCounts
    <3>2. policy.limit > 0 /\ reserved' > policy.limit /\ Slots = policy.limit /\ Slots' = Slots
      BY <1>0, <2>1, <2>2, <2>4
    <3>3. Over' <=> Over
      BY <2>1
    <3>4. policy'.limit > 0 => taken' + Choosing' <= Slots'
      <4> HIDE DEF Slots, Over
      <4> QED BY <1>0, <2>1, <3>1, <3>2 DEF KeepsSlots
    <3>5. policy'.limit > 0 /\ ~Over' => Slots' = processed' + OnTheWay'
      <4> HIDE DEF Slots, Over
      <4> QED BY <1>0, <2>1, <3>1, <3>2, <3>3 DEF KeepsSlots
    <3>6. policy'.limit > 0 /\ reserved' > policy'.limit
      BY <2>1, <3>2
    <3> QED BY <3>4, <3>5, <3>6 DEF KeepsSlots
  <2>5. KeepsSlots'
    BY <2>3, <2>4
  <2>6. EndsForAReason'
    BY <1>0, <2>1 DEF EndsForAReason
  <2> QED BY <2>5, <2>6
<1>2. ASSUME NEW w \in Worker, WorkerStops(w) PROVE Limits'
  <2>1. /\ pc' = [pc EXCEPT ![w] = "ended"] /\ pc[w] = "select" /\ (canceled \/ interrupted)
        /\ UNCHANGED <<policy, reserved, processed, taken, interrupted, loopErr, canceled, command>>
    BY <1>2 DEF WorkerStops
  <2>2. Over
    BY <2>1 DEF EndsForAReason
  <2>0. (\A v \in Worker : v # w => pc'[v] = pc[v]) /\ pc'[w] = "ended"
    BY <1>0, <2>1
  <2>3. Choosing' = Choosing - 1
    BY <1>0, <2>0, <2>1, MoveCounts
  <2>4. KeepsSlots'
    BY <1>0, <2>1, <2>2, <2>3 DEF KeepsSlots
  <2>5. EndsForAReason'
    BY <1>0, <2>1 DEF EndsForAReason
  <2> QED BY <2>4, <2>5
<1>3. ASSUME NEW w \in Worker, Take(w) PROVE Limits'
  <2>1. /\ pc' = [pc EXCEPT ![w] = "handling"] /\ pc[w] \in {"select", "receiving"}
        /\ taken' = IF policy.limit = 0 THEN 0 ELSE taken + 1
        /\ UNCHANGED <<policy, reserved, processed, interrupted, loopErr, canceled, command>>
    BY <1>3 DEF Take, Receives, CountTaken
  <2>0. (\A v \in Worker : v # w => pc'[v] = pc[v]) /\ pc'[w] = "handling"
    BY <1>0, <2>1
  <2>2. /\ Choosing' = Choosing - 1 /\ OnTheWay' = OnTheWay
        /\ \A v \in Worker : pc'[v] = "ended" => pc[v] = "ended"
    BY <1>0, <2>0, <2>1, MoveCounts
  <2>3. KeepsSlots'
    BY <1>0, <2>1, <2>2 DEF KeepsSlots
  <2>4. EndsForAReason'
    BY <1>0, <2>1 DEF EndsForAReason
  <2> QED BY <2>3, <2>4
<1>4. ASSUME NEW w \in Worker, FindsClosed(w) PROVE Limits'
  <2>1. /\ pc' = [pc EXCEPT ![w] = "ended"] /\ pc[w] = "select" /\ (loopErr' \/ interrupted')
        /\ (loopErr => loopErr')
        /\ UNCHANGED <<policy, reserved, processed, taken, interrupted, command>>
    BY <1>4 DEF FindsClosed, ClosedError
  <2>0. (\A v \in Worker : v # w => pc'[v] = pc[v]) /\ pc'[w] = "ended"
    BY <1>0, <2>1
  <2>2. Choosing' = Choosing - 1
    BY <1>0, <2>0, <2>1, MoveCounts
  <2>3. KeepsSlots'
    BY <1>0, <2>1, <2>2 DEF KeepsSlots
  <2>4. EndsForAReason'
    BY <1>0, <2>1 DEF EndsForAReason
  <2> QED BY <2>3, <2>4
<1>5. ASSUME NEW w \in Worker, Handled(w) \/ Failed(w) PROVE Limits'
  <2>1. /\ pc[w] = "handling"
        /\ UNCHANGED <<policy, reserved, processed, taken, interrupted, loopErr, canceled, command>>
    BY <1>5 DEF Handled, Failed
  <2>0. /\ pc'[w] = "counting"
        /\ \A v \in Worker : v # w =>
             pc'[v] = pc[v] \/ (pc[v] = "select" /\ pc'[v] = "receiving")
    <3>1. pc' = ToCounting(w) \/ (\E f : Offer(f, ToCounting(w)))
      BY <1>5 DEF Handled, Failed, Nack, Requeue, Dropped
    <3>2. ToCounting(w) \in PlacesOfWorkers
      BY <1>0 DEF ToCounting
    <3>3. Landed(ToCounting(w))
      BY <3>1, <3>2, OfferLands
    <3> QED BY <1>0, <3>3 DEF Landed, ToCounting
  <2>2. /\ Choosing' = Choosing /\ OnTheWay' = OnTheWay
        /\ \A v \in Worker : pc'[v] = "ended" => pc[v] = "ended"
    BY <1>0, <2>0, <2>1, MoveCounts
  <2>3. KeepsSlots'
    BY <1>0, <2>1, <2>2 DEF KeepsSlots
  <2>4. EndsForAReason'
    BY <1>0, <2>1 DEF EndsForAReason
  <2> QED BY <2>3, <2>4
<1>6. ASSUME NEW w \in Worker, Count(w) PROVE Limits'
  <2> DEFINE place == IF LimitReached(processed') THEN "ended" ELSE "reserve"
  <2>1. /\ pc' = [pc EXCEPT ![w] = place] /\ pc[w] = "counting"
        /\ processed' = IF policy.limit = 0 THEN 0 ELSE processed + 1
        /\ canceled' => canceled \/ LimitReached(processed')
        /\ UNCHANGED <<policy, reserved, taken, interrupted, loopErr, command>>
    BY <1>6 DEF Count
  <2>2. place = "ended" <=> LimitFull'
    BY <2>1 DEF LimitReached
  <2>2a. canceled' => canceled \/ LimitFull'
    BY <2>1 DEF LimitReached
  <2>2b. place \in {"reserve", "ended"}
    OBVIOUS
  <2> HIDE DEF place
  <2>3. Over => Over'
    BY <1>0, <2>1
  <2>0. (\A v \in Worker : v # w => pc'[v] = pc[v]) /\ pc'[w] = place
    BY <1>0, <2>1
  <2>3a. /\ Choosing' = Choosing /\ OnTheWay' = OnTheWay - 1
    BY <1>0, <2>0, <2>1, MoveCounts, <2>2b
  <2>4. KeepsSlots'
    BY <1>0, <2>0, <2>1, <2>2, <2>3, <2>3a DEF KeepsSlots
  <2>5. EndsForAReason'
    BY <1>0, <2>1, <2>2a, <2>3 DEF EndsForAReason
  <2> QED BY <2>4, <2>5
<1>7. ASSUME UNCHANGED <<policy, reserved, processed, taken, loopErr>>, Landed(pc),
             interrupted => interrupted'
      PROVE  KeepsSlots' /\ (Over => Over')
  <2>1. Choosing' = Choosing /\ OnTheWay' = OnTheWay
    BY <1>7 DEF At, Choosing, OnTheWay, Landed
  <2>1a. \A v \in Worker : pc'[v] = "ended" => pc[v] = "ended"
    BY <1>7 DEF Landed
  <2>2. Over => Over'
    BY <1>7
  <2> QED BY <1>0, <1>7, <2>1, <2>1a, <2>2 DEF KeepsSlots
<1>7a. UNCHANGED pc => Landed(pc)
  BY <1>0 DEF Landed
<1>8. ASSUME \/ \E m \in Message : SendStart(m) \/ SendDone(m)
             \/ CloseTransport \/ DeliveryEnds \/ (\E e \in delayed : RequeueAfter(e))
             \/ Interrupt \/ SeesInterrupt \/ UNCHANGED vars
      PROVE  Limits'
  <2>1. /\ UNCHANGED <<policy, reserved, processed, taken, loopErr, canceled>> /\ Landed(pc)
        /\ interrupted => interrupted'
        /\ command' = command \/ (command' = "grace" /\ interrupted)
    <3>1. CASE \E m \in Message : SendStart(m) \/ SendDone(m)
      <4> PICK m \in Message : SendStart(m) \/ SendDone(m)
        BY <3>1
      <4>1. CASE SendStart(m)
        BY <4>1, <1>7a DEF SendStart
      <4>2. CASE SendDone(m)
        <5>1. pc' = pc \/ (\E e : Offer(e, pc))
          BY <4>2 DEF SendDone, SendRefused
        <5>2. Landed(pc)
          BY <1>0, <5>1, OfferLands
        <5> QED BY <4>2, <5>2 DEF SendDone
      <4> QED BY <4>1, <4>2
    <3>2. CASE CloseTransport \/ DeliveryEnds
      BY <3>2, <1>7a DEF CloseTransport, DeliveryEnds
    <3>3. CASE \E e \in delayed : RequeueAfter(e)
      <4> PICK e \in delayed : RequeueAfter(e)
        BY <3>3
      <4>1. Offer(e, pc) \/ pc' = pc
        BY DEF RequeueAfter, Requeue, Dropped
      <4>2. Landed(pc)
        BY <1>0, <4>1, OfferLands
      <4> QED BY <4>2 DEF RequeueAfter
    <3>4. CASE Interrupt
      BY <3>4, <1>7a DEF Interrupt
    <3>5. CASE SeesInterrupt
      BY <3>5, <1>7a DEF SeesInterrupt
    <3>6. CASE UNCHANGED vars
      BY <3>6, <1>7a DEF vars
    <3> QED BY <1>8, <3>1, <3>2, <3>3, <3>4, <3>5, <3>6
  <2> QED BY <1>0, <1>7, <2>1 DEF EndsForAReason
<1>9. ASSUME Drained PROVE Limits'
  <2>1. /\ UNCHANGED <<policy, reserved, processed, taken, loopErr, pc, interrupted>>
        /\ command' = (IF loopErr THEN "failed" ELSE "returned")
        /\ \A w \in Worker : pc[w] = "ended"
    BY <1>9 DEF Drained, Return, AllEnded
  <2>2. At({"select", "receiving", "handling", "counting"}) = {}
    BY <2>1 DEF At
  <2>3. OnTheWay = 0
    BY <2>2, FS_EmptySet DEF OnTheWay
  <2>4. Over
    BY <1>0, <2>1, <2>3 DEF KeepsSlots
  <2> QED BY <1>0, <1>7, <1>7a, <2>1, <2>4 DEF EndsForAReason
<1>10. ASSUME GraceExpires PROVE Limits'
  <2>1. /\ UNCHANGED <<policy, reserved, processed, taken, loopErr, pc, interrupted>>
        /\ command = "grace" /\ command' = "timedOut"
    BY <1>10 DEF GraceExpires, GraceEnds, Return
  <2> QED BY <1>0, <1>7, <1>7a, <2>1 DEF EndsForAReason
<1> QED
  BY <1>1, <1>2, <1>3, <1>4, <1>5, <1>6, <1>8, <1>9, <1>10 DEF Next, WorkerStep, CommandStep

LEMMA LimitsInit == Init => Limits
<1> SUFFICES ASSUME Init PROVE Limits
  OBVIOUS
<1>1. policy.limit \in Nat
  BY MessagesInit, PolicyType DEF Messages
<1>2. At({"select", "receiving"}) = {} /\ At({"select", "receiving", "handling", "counting"}) = {}
  BY DEF Init, At
<1>3. Choosing = 0 /\ OnTheWay = 0
  BY <1>2, FS_EmptySet DEF Choosing, OnTheWay
<1> QED BY <1>1, <1>3 DEF Init, Limits, KeepsSlots, EndsForAReason, Slots

THEOREM LimitsInvariance == Spec => []Limits
<1>1. Messages /\ Limits /\ [Next]_vars => Limits'
  BY LimitsNext
<1> QED BY LimitsInit, MessagesInvariance, <1>1, PTL DEF Spec

(* The command ends without an error only for a reason, and its workers    *)
(* take no message beyond the limit they share.                            *)
THEOREM CleanEndIsEarnedHolds == Spec => []CleanEndIsEarned
<1>1. Messages /\ Limits => CleanEndIsEarned
  <2> SUFFICES ASSUME Messages, Limits PROVE CleanEndIsEarned
    OBVIOUS
  <2>1. Counters
    BY CountersType
  <2> QED BY <2>1 DEF Limits, KeepsSlots, EndsForAReason, CleanEndIsEarned, Slots, LimitFull, Counters
<1> QED BY MessagesInvariance, LimitsInvariance, <1>1, PTL
=============================================================================
