-------------------------- MODULE ServiceRegistry ---------------------------
(***************************************************************************)
(* What a container promises to the callers of Get, with nothing said of   *)
(* contexts, guards, waiting or types: a service gets one instance, once   *)
(* and for all and only while the container is open, and a Get returns     *)
(* that instance or fails.                                                 *)
(***************************************************************************)
CONSTANTS Caller, Service, Instance, NoInstance, Failure

VARIABLES
  instance,   \* the instance of a service, or NoInstance
  answer,     \* what a caller got: [value, error], error "none" until it fails
  open

vars == <<instance, answer, open>>

Waiting(c) == answer[c].value = NoInstance /\ answer[c].error = "none"

Init ==
  /\ instance = [n \in Service |-> NoInstance]
  /\ answer = [c \in Caller |-> [value |-> NoInstance, error |-> "none"]]
  /\ open = TRUE

Returns(c, v) ==
  /\ Waiting(c)
  /\ answer' = [answer EXCEPT ![c].value = v]

(* A service gets its instance; a caller may be given it in the same step. *)
Publish(n, v) ==
  /\ open /\ instance[n] = NoInstance
  /\ \A m \in Service : instance[m] # v
  /\ instance' = [instance EXCEPT ![n] = v]
  /\ answer' = answer \/ \E c \in Caller : Returns(c, v)
  /\ UNCHANGED open

Deliver(c) ==
  /\ \E n \in Service : instance[n] # NoInstance /\ Returns(c, instance[n])
  /\ UNCHANGED <<instance, open>>

Refuse(c) ==
  /\ Waiting(c)
  /\ \E error \in Failure : answer' = [answer EXCEPT ![c].error = error]
  /\ UNCHANGED <<instance, open>>

Close == open' = FALSE /\ UNCHANGED <<instance, answer>>

Next ==
  \/ \E n \in Service, v \in Instance : Publish(n, v)
  \/ \E c \in Caller : Deliver(c) \/ Refuse(c)
  \/ Close

Spec == Init /\ [][Next]_vars
=============================================================================
