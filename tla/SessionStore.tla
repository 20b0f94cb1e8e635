---------------------------- MODULE SessionStore ----------------------------
(***************************************************************************)
(* What a session storage promises its callers, whichever storage it is:   *)
(* a map from session ids to entries that changes one entry at a time, for *)
(* a caller whose write is acknowledged by that very change, and that      *)
(* forgets entries only when their time has come.  A process that dies may *)
(* leave one write behind that nobody acknowledged.  A fragile storage may *)
(* lose anything when its process dies.                                    *)
(***************************************************************************)
EXTENDS Integers

CONSTANTS
  Caller,         \* each writes at most once
  Id,
  Data,
  NoEntry

VARIABLES
  store,          \* the live entries, by id
  acked,          \* the callers whose write was acknowledged
  running,        \* the process that serves the store runs
  fragile,        \* its entries would not survive the process
  now

vars == <<store, acked, running, fragile, now>>

Entry == [data : Data, expiresAt : Nat]

Init ==
  /\ store \in [Id -> Entry \cup {NoEntry}]
  /\ acked = {}
  /\ running = TRUE
  /\ fragile \in BOOLEAN
  /\ now \in Nat

(* One entry is written, replaced or removed, or left as it is.            *)
OneChange(id) == \A i \in Id \ {id} : store'[i] = store[i]

Write(c) ==
  /\ running /\ c \notin acked
  /\ acked' = acked \cup {c}
  /\ \E id \in Id : OneChange(id)
  /\ UNCHANGED <<running, now>>

(* A refused write changes nothing, but what the medium holds may be       *)
(* damaged by it; the next successful write repairs that.                  *)
Refuse == running /\ UNCHANGED <<store, acked, running, now>>

Pass ==
  /\ now' > now
  /\ \A id \in Id : (store[id] # NoEntry => store[id].expiresAt \notin 1 .. now') =>
                    store'[id] = store[id]
  /\ \A id \in Id : store'[id] \in {store[id], NoEntry}
  /\ UNCHANGED <<acked, running>>

Die ==
  /\ running /\ ~running'
  /\ fragile \/ \E id \in Id : OneChange(id)
  /\ UNCHANGED <<acked, now>>

Return ==
  /\ ~running /\ running'
  /\ UNCHANGED <<store, acked, now>>

Next == (\E c \in Caller : Write(c)) \/ Refuse \/ Pass \/ Die \/ Return

Spec == Init /\ [][Next]_vars
=============================================================================
