---------------------------- MODULE MCAmqpTransport ---------------------------
(* Small instances of AmqpTransport.                                        *)
EXTENDS AmqpTransport

CONSTANTS m1, m2, m3, p1, p2, w1, w2

Sends == [a \in {p1, p2} |-> IF a = p1 THEN m2 ELSE m3]

(* Two messages, one of them retried, and one fault; one message and two    *)
(* faults; two workers, and a message that does not decode; a worker on a   *)
(* transport that is stopped; two senders; a sender and a worker.           *)
Retrying == [stored |-> <<m1, m2>>, senders |-> {}, workers |-> {w1}, prefetch |-> 1,
             receives |-> TRUE, stops |-> {}, maxFaults |-> 1, maxCopies |-> 3]
Losing == [Retrying EXCEPT !.stored = <<m1>>, !.maxFaults = 2, !.maxCopies = 2]
Sharing == [Retrying EXCEPT !.stored = <<m1, m3>>, !.workers = {w1, w2}, !.prefetch = 2,
            !.maxCopies = 2]
Stopped == [Losing EXCEPT !.stops = {"interrupt", "close"}, !.maxFaults = 1]
Sending == [Retrying EXCEPT !.stored = << >>, !.senders = {p1, p2}, !.receives = FALSE,
            !.maxFaults = 2]
StoppedSending == [Sending EXCEPT !.stops = {"interrupt", "close"}, !.maxFaults = 1]
Both == [Losing EXCEPT !.senders = {p1}, !.stops = {"close"}, !.maxFaults = 1,
         !.maxCopies = 1]

JustSending == {Sending}
Variety == {Retrying, Losing, Sharing, Stopped, Sending, StoppedSending, Both}
===============================================================================
