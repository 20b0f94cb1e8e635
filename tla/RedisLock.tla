------------------------------- MODULE RedisLock -------------------------------
(***************************************************************************)
(* The Redis locker (integrations/rueidis/v3/lock.go) for one lock name:   *)
(* the key of the name holds the token of its lock, with or without a time *)
(* to live, and each call runs one script on the server.  A call may fail  *)
(* before its script ran, or after it.                                     *)
(***************************************************************************)
EXTENDS Integers

CONSTANTS
  Lock,         \* locks created for the name: their tokens
  TheName,
  Ttl,          \* what CreateLock was called with: [Lock -> Int]
  RefreshTtl,   \* what Refresh is called with
  Millisecond,  \* durations are counted in parts of a millisecond
  NoToken

RedisLockAssumption ==
  /\ Ttl \in [Lock -> Int] /\ RefreshTtl \subseteq Int
  /\ Millisecond \in Nat \ {0} /\ NoToken \notin Lock

VARIABLES
  token,    \* server: what the key holds, NoToken when there is no key
  expires,  \* server: the key has a time to live
  answer    \* what the last call on a lock returned

vars == <<token, expires, answer>>

Init == token = NoToken /\ expires = FALSE /\ answer = [l \in Lock |-> "none"]

Set(l, px) == token' = l /\ expires' = (px > 0)

Delete == token' = NoToken /\ expires' = FALSE

Leave == UNCHANGED <<token, expires>>

Tell(l, a) == answer' = [answer EXCEPT ![l] = a]

(* The reply arrives, or is lost after the script ran.                     *)
Reply(l, a) == Tell(l, a) \/ Tell(l, "error")

(* mutant: a duration below a millisecond becomes zero.                    *)
Milliseconds(ttl) == ttl \div Millisecond

FloorPositiveMilliseconds(ttl) ==
  IF ttl \div Millisecond = 0 THEN 1 ELSE ttl \div Millisecond
-------------------------------------------------------------------------------
(* The call fails and its script never runs.                               *)
NotRun(l) == Leave /\ Tell(l, "error")

Acquire(l) ==
  \/ /\ token \in {NoToken, l}
     /\ Set(l, IF Ttl[l] > 0 THEN FloorPositiveMilliseconds(Ttl[l]) ELSE 0)
     /\ Reply(l, "acquired")
  \/ token \notin {NoToken, l} /\ Leave /\ Reply(l, "refused")

Release(l) ==
  /\ IF token = l THEN Delete ELSE Leave
  /\ Reply(l, "released")

RefreshRejected(l, ttl) == ttl <= 0 /\ Leave /\ Tell(l, "error")

(* PEXPIRE deletes a key whose time to live would not be positive.         *)
Pexpire(px) == IF px > 0 THEN token' = token /\ expires' = TRUE ELSE Delete

Refresh(l, ttl) ==
  /\ ttl > 0
  /\ \/ token = l /\ Pexpire(FloorPositiveMilliseconds(ttl)) /\ Reply(l, "refreshed")
     \/ token # l /\ Leave /\ Reply(l, "lost")

(* The time to live of the key runs out.                                   *)
Expire == expires /\ Delete /\ UNCHANGED answer

Next ==
  \/ Expire
  \/ \E l \in Lock :
       \/ NotRun(l) \/ Acquire(l) \/ Release(l)
       \/ \E ttl \in RefreshTtl : RefreshRejected(l, ttl) \/ Refresh(l, ttl)

Spec == Init /\ [][Next]_vars
-------------------------------------------------------------------------------
(* The Redis locker keeps the promise of LockContract: whoever is told     *)
(* that a lock is taken or still held has the key at that moment, and no   *)
(* call takes the key from another lock.                                   *)
Contract == INSTANCE LockContract WITH
  Name <- {TheName}, NameOf <- [l \in Lock |-> TheName],
  NoLock <- NoToken, Stray <- "stray",
  owner <- [n \in {TheName} |-> token]

KeepsContract == Contract!Spec
================================================================================
