--------------------------- MODULE MCMessageConsumer --------------------------
(* Small instances of MessageConsumer.                                      *)
EXTENDS MessageConsumer

CONSTANTS m1, m2

Base == [capacity |-> 1, limit |-> 0, retries |-> 1, deadLetters |-> 0, backoff |-> FALSE,
         failureTransport |-> FALSE, fragile |-> FALSE, wedged |-> {}]

(* Retries and discards; dead-letters with a bound and without one; a limit *)
(* lower than the number of messages; a broker that may go away and a       *)
(* handler that never returns; a channel without a buffer.                  *)
Variety ==
  {Base,
   [Base EXCEPT !.failureTransport = TRUE, !.deadLetters = 2, !.backoff = TRUE],
   [Base EXCEPT !.failureTransport = TRUE, !.retries = 0],
   [Base EXCEPT !.limit = 1],
   [Base EXCEPT !.fragile = TRUE, !.wedged = {m1}, !.retries = 0],
   [Base EXCEPT !.capacity = 0],
   [Base EXCEPT !.capacity = 0, !.backoff = TRUE, !.fragile = TRUE]}
===============================================================================
