--------------------------- MODULE MessageConsumer ---------------------------
(***************************************************************************)
(* The consume command of the message bus (v3/messagebus/                  *)
(* consume_command.go) over an in-memory transport: workers take envelopes *)
(* from its channel, dispatch them, and acknowledge, requeue, dead-letter  *)
(* or discard them, while producers send and the command is                *)
(* interrupted.                                                            *)
(*                                                                         *)
(* A dispatch runs the handlers of a message in order until one fails; the *)
(* model has its outcome.                                                  *)
(***************************************************************************)
EXTENDS Naturals, Sequences, FiniteSets

CONSTANTS
  Message, Worker,
  Policies,   \* the transports, command lines and retry policies to look at
  MaxRejections,  \* bound: an unbounded policy is rejected this often
  NoEnvelope

(* capacity: of the channel; 0 for none.  limit 0: no limit.                *)
(* deadLetters: MaxDeadLetterAttempts, 0 for no bound.                      *)
(* backoff: BaseDelay is positive.  fragile: the delivery channel may close, *)
(* as that of a broker does.  wedged: messages whose handler never returns. *)
Policy == [capacity : Nat, limit : Nat, retries : Nat, deadLetters : Nat, backoff : BOOLEAN,
           failureTransport : BOOLEAN, fragile : BOOLEAN, wedged : SUBSET Message]

ASSUME ConsumerAssumption ==
  /\ Policies \subseteq Policy
  /\ MaxRejections \in Nat
  /\ IsFiniteSet(Worker) /\ Worker # {}  \* the concurrency option is at least 1

VARIABLES
  policy,       \* does not change
  sender,       \* where the Send of each message is
  queue,        \* the channel
  delayed,      \* envelopes with a requeueAfter goroutine
  closed,       \* done: Close was called on the transport
  queueOpen,    \* the delivery channel is open
  reserved, processed,
  pc, held,     \* a worker's place and its envelope
  interrupted,  \* consumeContext is done
  canceled,     \* cancelWorkers was called
  loopErr,
  command,      \* where consumeFrom is
  failures,     \* what the failure transport took
  settled,      \* history: what became of the messages
  dispatches,   \* history: how often each message was dispatched
  taken         \* history: how many envelopes workers took

vars == <<policy, sender, queue, delayed, closed, queueOpen, reserved, processed, pc, held,
          interrupted, canceled, loopErr, command, failures, settled, dispatches, taken>>

counterVars == <<reserved, processed>>
poolVars == <<canceled, loopErr, command>>
historyVars == <<failures, settled, dispatches, taken>>
transportVars == <<sender, queue, delayed, closed, queueOpen>>

Envelope(m, redelivery, deadLetter, delay) ==
  [message |-> m, redelivery |-> redelivery, deadLetter |-> deadLetter, delay |-> delay]

Init ==
  /\ policy \in Policies
  /\ sender = [m \in Message |-> "idle"]
  /\ queue = << >> /\ delayed = {} /\ closed = FALSE /\ queueOpen = TRUE
  /\ reserved = 0 /\ processed = 0
  /\ pc = [w \in Worker |-> "reserve"] /\ held = [w \in Worker |-> NoEnvelope]
  /\ interrupted = FALSE /\ canceled = FALSE /\ loopErr = FALSE /\ command = "running"
  /\ failures = {} /\ settled = [m \in Message |-> "none"]
  /\ dispatches = [m \in Message |-> 0] /\ taken = 0

(* An envelope goes into the channel, or from hand to hand: without a      *)
(* buffer a sender meets a worker that waits in its select.  "at" is where  *)
(* the workers are otherwise.                                              *)
Offer(e, at) ==
  /\ queueOpen
  /\ queue' = Append(queue, e)
  /\ \/ Len(queue) < policy.capacity /\ pc' = at
     \/ /\ policy.capacity = 0
        /\ \E v \in Worker : at[v] = "select" /\ pc' = [at EXCEPT ![v] = "receiving"]
-----------------------------------------------------------------------------
(* Producers: Send looks at done, then waits for the channel to take the   *)
(* message, for done and for the context of its caller.                    *)
SendStart(m) ==
  /\ sender[m] = "idle"
  /\ sender' = [sender EXCEPT ![m] = IF closed THEN "refused" ELSE "sending"]
  /\ UNCHANGED <<policy, queue, delayed, closed, queueOpen, counterVars, pc, held, interrupted,
                 poolVars, historyVars>>

SendRefused(m) == sender' = [sender EXCEPT ![m] = "refused"] /\ UNCHANGED <<queue, pc>>

SendDone(m) ==
  /\ sender[m] = "sending"
  /\ \/ Offer(Envelope(m, 0, 0, FALSE), pc) /\ sender' = [sender EXCEPT ![m] = "sent"]
     \/ closed /\ SendRefused(m)
     \/ SendRefused(m)  \* its context is done
  /\ UNCHANGED <<policy, delayed, closed, queueOpen, counterVars, held, interrupted,
                 poolVars, historyVars>>

CloseTransport ==
  /\ ~closed /\ closed' = TRUE
  /\ UNCHANGED <<policy, sender, queue, delayed, queueOpen, counterVars, pc, held, interrupted,
                 poolVars, historyVars>>

(* Another transport closes the channel it delivers to, as that of AMQP    *)
(* does when its broker is lost.                                           *)
DeliveryEnds ==
  /\ policy.fragile /\ queueOpen /\ queueOpen' = FALSE
  /\ UNCHANGED <<policy, sender, queue, delayed, closed, counterVars, pc, held, interrupted,
                 poolVars, historyVars>>

(* A signal, or the context of the command ends.                           *)
Interrupt ==
  /\ ~interrupted /\ command # "returned" /\ interrupted' = TRUE
  /\ UNCHANGED <<policy, transportVars, counterVars, pc, held, poolVars, historyVars>>

Settle(m, fate) == settled' = [settled EXCEPT ![m] = fate]

(* requeue: into the channel if it takes it at once, and dropped if not or *)
(* if the transport is closed; with room and closed, either.  Without a    *)
(* buffer it may be dropped at any time: a worker whose place is "select"  *)
(* need not wait in it yet.                                                *)
Dropped(m, at) == Settle(m, "dropped") /\ pc' = at /\ UNCHANGED queue

Requeue(e, at) ==
  \/ Offer(e, at) /\ UNCHANGED settled
  \/ (closed \/ Len(queue) >= policy.capacity \/ ~queueOpen) /\ Dropped(e.message, at)

(* requeueAfter: the timer fires, or the transport is closed first.        *)
RequeueAfter(e) ==
  /\ e \in delayed
  /\ delayed' = delayed \ {e}
  /\ Requeue(e, pc) \/ (closed /\ Dropped(e.message, pc))
  /\ UNCHANGED <<policy, sender, closed, queueOpen, counterVars, held, interrupted,
                 poolVars, failures, dispatches, taken>>

(* Nack with requeue *)
Nack(e, at) ==
  IF e.delay THEN delayed' = delayed \cup {e} /\ pc' = at /\ UNCHANGED <<queue, settled>>
             ELSE Requeue(e, at) /\ UNCHANGED delayed
-----------------------------------------------------------------------------
(* A worker of consumeFrom.                                                *)

Reserves(count) == policy.limit = 0 \/ count <= policy.limit

Reserve(w) ==
  /\ pc[w] = "reserve"
  /\ reserved' = IF policy.limit = 0 THEN 0 ELSE reserved + 1
  /\ pc' = [pc EXCEPT ![w] = IF Reserves(reserved') THEN "select" ELSE "ended"]
  /\ UNCHANGED <<policy, transportVars, processed, held, interrupted, poolVars, historyVars>>

(* workerContext is done; the select may as well take an envelope.         *)
WorkerStops(w) ==
  /\ pc[w] = "select" /\ (canceled \/ interrupted)
  /\ pc' = [pc EXCEPT ![w] = "ended"]
  /\ UNCHANGED <<policy, transportVars, counterVars, held, interrupted, poolVars, historyVars>>

(* The histories count to a bound that the properties need not pass.       *)
MaxDispatches == policy.retries + policy.deadLetters + MaxRejections + 2

CountTaken(m) ==
  /\ dispatches' = [dispatches EXCEPT ![m] = IF @ < MaxDispatches THEN @ + 1 ELSE @]
  /\ taken' = IF policy.limit = 0 THEN 0 ELSE taken + 1

(* With a buffer the select takes from it; without one it is handed one.   *)
Receives(w) == pc[w] = "receiving" \/ (pc[w] = "select" /\ policy.capacity > 0)

(* mutant: a worker that finds the command canceled leaves its envelope.   *)
PeekTake(w) ==
  /\ Receives(w) /\ queue # << >>
  /\ queue' = Tail(queue)
  /\ IF canceled \/ interrupted
     THEN /\ pc' = [pc EXCEPT ![w] = "ended"]
          /\ UNCHANGED <<held, dispatches, taken>>
     ELSE /\ held' = [held EXCEPT ![w] = Head(queue)]
          /\ CountTaken(Head(queue).message)
          /\ pc' = [pc EXCEPT ![w] = "handling"]
  /\ UNCHANGED <<policy, sender, delayed, closed, queueOpen, counterVars, interrupted, poolVars,
                 failures, settled>>

Take(w) ==
  /\ Receives(w) /\ queue # << >>
  /\ queue' = Tail(queue)
  /\ held' = [held EXCEPT ![w] = Head(queue)]
  /\ CountTaken(Head(queue).message)
  /\ pc' = [pc EXCEPT ![w] = "handling"]
  /\ UNCHANGED <<policy, sender, delayed, closed, queueOpen, counterVars, interrupted, poolVars,
                 failures, settled>>

(* mutant: a closed channel just ends the worker.                          *)
NoError == loopErr

ClosedError == loopErr \/ ~interrupted

FindsClosed(w) ==
  /\ pc[w] = "select" /\ queue = << >> /\ ~queueOpen
  /\ loopErr' = ClosedError
  /\ canceled' = TRUE
  /\ pc' = [pc EXCEPT ![w] = "ended"]
  /\ UNCHANGED <<policy, transportVars, counterVars, held, interrupted, command, historyVars>>

Consumed(w) == held' = [held EXCEPT ![w] = NoEnvelope]

ToCounting(w) == [pc EXCEPT ![w] = "counting"]

(* The handlers of the message ran; it is acknowledged.                    *)
Handled(w) ==
  /\ pc[w] = "handling" /\ held[w].message \notin policy.wedged
  /\ Settle(held[w].message, "handled")
  /\ Consumed(w) /\ pc' = ToCounting(w)
  /\ UNCHANGED <<policy, transportVars, counterVars, interrupted, poolVars, failures,
                 dispatches, taken>>

(* mutant: the bound is compared before the attempt is counted.            *)
ExhaustsLate(e) == 0 < policy.deadLetters /\ e.deadLetter >= policy.deadLetters

ExhaustsDeadLetters(e) == 0 < policy.deadLetters /\ e.deadLetter + 1 >= policy.deadLetters

(* mutant: the stamp is not bumped.                                        *)
RequeuedUncounted(e) == Envelope(e.message, e.redelivery, e.deadLetter, TRUE)

Requeued(e) == Envelope(e.message, e.redelivery, e.deadLetter + 1, TRUE)

Retried(e) == Envelope(e.message, e.redelivery + 1, e.deadLetter, e.delay \/ policy.backoff)

(* A handler failed: retry, dead-letter or discard.                        *)
Failed(w) ==
  LET e == held[w]
      at == ToCounting(w)
      Ends(fate) == Settle(e.message, fate) /\ pc' = at /\ UNCHANGED <<queue, delayed>>
  IN  /\ pc[w] = "handling" /\ e.message \notin policy.wedged
      /\ IF e.redelivery < policy.retries
         THEN Nack(Retried(e), at) /\ UNCHANGED failures
         ELSE \/ /\ ~policy.failureTransport
                 /\ Ends("discarded") /\ UNCHANGED failures
              \/ /\ policy.failureTransport
                 /\ failures' = failures \cup {e}
                 /\ Ends("deadLettered")
              \/ /\ policy.failureTransport /\ UNCHANGED failures
                 /\ policy.deadLetters > 0 \/ e.deadLetter < MaxRejections
                 /\ IF ExhaustsDeadLetters(e) THEN Ends("discarded") ELSE Nack(Requeued(e), at)
      /\ Consumed(w)
      /\ UNCHANGED <<policy, sender, closed, queueOpen, counterVars, interrupted, poolVars,
                     dispatches, taken>>

LimitReached(count) == 0 < policy.limit /\ count >= policy.limit

Count(w) ==
  /\ pc[w] = "counting"
  /\ processed' = IF policy.limit = 0 THEN 0 ELSE processed + 1
  /\ canceled' = (canceled \/ LimitReached(processed'))
  /\ pc' = [pc EXCEPT ![w] = IF LimitReached(processed') THEN "ended" ELSE "reserve"]
  /\ UNCHANGED <<policy, transportVars, reserved, held, interrupted, loopErr, command, historyVars>>
-----------------------------------------------------------------------------
(* consumeFrom waits for its workers, and for a while only once its        *)
(* context is done.                                                        *)
AllEnded == \A w \in Worker : pc[w] = "ended"

Return(answer) == command' = answer /\ canceled' = TRUE

Drained ==
  /\ command \in {"running", "grace"} /\ AllEnded
  /\ Return(IF loopErr THEN "failed" ELSE "returned")
  /\ UNCHANGED <<policy, transportVars, counterVars, pc, held, interrupted, loopErr, historyVars>>

SeesInterrupt ==
  /\ command = "running" /\ interrupted
  /\ command' = "grace"
  /\ UNCHANGED <<policy, transportVars, counterVars, pc, held, interrupted, canceled, loopErr,
                 historyVars>>

(* mutant: the command waits until its workers have ended.                 *)
GraceNeverEnds == FALSE

GraceEnds == command = "grace"

GraceExpires ==
  /\ GraceEnds
  /\ Return("timedOut")
  /\ UNCHANGED <<policy, transportVars, counterVars, pc, held, interrupted, loopErr, historyVars>>
-----------------------------------------------------------------------------
WorkerStep(w) ==
  \/ Reserve(w) \/ WorkerStops(w) \/ Take(w) \/ FindsClosed(w)
  \/ Handled(w) \/ Failed(w) \/ Count(w)

CommandStep == Drained \/ SeesInterrupt \/ GraceExpires

Next ==
  \/ \E m \in Message : SendStart(m) \/ SendDone(m)
  \/ CloseTransport \/ DeliveryEnds \/ Interrupt
  \/ \E e \in delayed : RequeueAfter(e)
  \/ \E w \in Worker : WorkerStep(w)
  \/ CommandStep

Spec == Init /\ [][Next]_vars

(* Goroutines are scheduled, timers fire and handlers return, the wedged   *)
(* ones aside.  A blocked Send is not assumed to find room.                *)
Fairness ==
  /\ \A w \in Worker : WF_vars(WorkerStep(w))
  /\ WF_vars(CommandStep)
  /\ WF_vars(\E e \in delayed : RequeueAfter(e))

FairSpec == Spec /\ Fairness
-----------------------------------------------------------------------------
Envelopes == [message : Message, redelivery : Nat, deadLetter : Nat, delay : BOOLEAN]

TypeOK ==
  /\ policy \in Policies
  /\ sender \in [Message -> {"idle", "sending", "sent", "refused"}]
  /\ queue \in Seq(Envelopes)
  /\ delayed \subseteq Envelopes
  /\ closed \in BOOLEAN /\ queueOpen \in BOOLEAN
  /\ reserved \in Nat /\ processed \in Nat
  /\ pc \in [Worker -> {"reserve", "select", "receiving", "handling", "counting", "ended"}]
  /\ held \in [Worker -> Envelopes \cup {NoEnvelope}]
  /\ \A w \in Worker : IF pc[w] = "handling" THEN held[w] \in Envelopes ELSE held[w] = NoEnvelope
  /\ interrupted \in BOOLEAN /\ canceled \in BOOLEAN /\ loopErr \in BOOLEAN
  /\ command \in {"running", "grace", "returned", "failed", "timedOut"}
  /\ failures \subseteq Envelopes
  /\ settled \in [Message -> {"none", "handled", "deadLettered", "discarded", "dropped"}]
  /\ dispatches \in [Message -> Nat] /\ taken \in Nat

(* A message that was sent is in the channel, in a delayed requeue, with a *)
(* worker or settled, and in one of these only: no retry, no shutdown and  *)
(* no race of two workers loses it or doubles it.                          *)
Places(m) ==
  Cardinality({i \in DOMAIN queue : queue[i].message = m})
    + Cardinality({e \in delayed : e.message = m})
    + Cardinality({w \in Worker : pc[w] = "handling" /\ held[w].message = m})
    + IF settled[m] = "none" THEN 0 ELSE 1

OnePlace == \A m \in Message : Places(m) = IF sender[m] = "sent" THEN 1 ELSE 0

(* A message is given up after as many attempts as the policy says, and    *)
(* never by a policy without a bound while there is a failure transport.   *)
GivenUpAsConfigured ==
  \A m \in Message :
    /\ settled[m] = "deadLettered" => dispatches[m] > policy.retries
    /\ settled[m] = "discarded" =>
         dispatches[m] = policy.retries + IF policy.failureTransport THEN policy.deadLetters ELSE 1
    /\ settled[m] = "discarded" /\ policy.failureTransport => policy.deadLetters > 0

(* The command ends without an error only when it was told to, or has      *)
(* reached its limit: a lost broker is told from a graceful stop.  And     *)
(* however many workers share the limit, they take no message beyond it.   *)
CleanEndIsEarned ==
  /\ command = "returned" => interrupted \/ (policy.limit > 0 /\ processed >= policy.limit)
  /\ policy.limit > 0 => taken <= policy.limit

(* A shutdown ends, though a handler may never return.                     *)
ShutdownEnds == interrupted ~> (command \in {"returned", "failed", "timedOut"})

(* A message that was sent is settled in the end, while the command runs,  *)
(* the broker is there and a handler that does not return has other work.  *)
EveryMessageSettles ==
  \A m \in Message :
    (sender[m] = "sent") ~>
      \/ settled[m] # "none" \/ m \in policy.wedged
      \/ interrupted \/ command # "running" \/ ~queueOpen
=============================================================================
