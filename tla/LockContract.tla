----------------------------- MODULE LockContract -----------------------------
(***************************************************************************)
(* What a Locker promises (v3/lock/contract/lock.go), whatever keeps the   *)
(* lease: at most one lock owns a name; Acquire tells the truth about      *)
(* taking it, Refresh about still having it, and Release takes it from     *)
(* nobody else.  A lease may be lost at any time: it runs out, or the      *)
(* session that holds it dies; after a failed call a name may stay taken   *)
(* for a while without any lock to show for it.                            *)
(***************************************************************************)
CONSTANTS
  Lock, Name,
  NameOf,    \* the name a lock was created for: [Lock -> Name]
  NoLock,
  Stray      \* owner of a name that is taken but no lock's any more

VARIABLES
  owner,   \* the lock that holds a name, NoLock, or Stray
  answer   \* what the last call on a lock returned

Init == owner = [n \in Name |-> NoLock] /\ answer = [l \in Lock |-> "none"]

Tell(l, a) == answer' = [answer EXCEPT ![l] = a]

Keep == owner' = owner

Own(l) == owner' = [owner EXCEPT ![NameOf[l]] = l]

Free(n) == owner' = [owner EXCEPT ![n] = NoLock]

Acquire(l) ==
  \/ owner[NameOf[l]] \in {NoLock, l} /\ Own(l) /\ Tell(l, "acquired")
  \/ owner[NameOf[l]] \notin {NoLock, l} /\ Keep /\ Tell(l, "refused")

Refresh(l) ==
  \/ owner[NameOf[l]] = l /\ Keep /\ Tell(l, "refreshed")
  \/ owner[NameOf[l]] # l /\ Keep /\ Tell(l, "lost")

Release(l) ==
  /\ IF owner[NameOf[l]] = l THEN Free(NameOf[l]) ELSE Keep
  /\ Tell(l, "released")

Lose ==
  /\ \E N \in SUBSET Name : owner' = [n \in Name |-> IF n \in N THEN NoLock ELSE owner[n]]
  /\ UNCHANGED answer

(* A call may fail, and may then have taken the name, given up its own, or *)
(* left it stray.                                                          *)
Fail(l) ==
  /\ \/ Keep
     \/ owner[NameOf[l]] = NoLock /\ Own(l)
     \/ owner[NameOf[l]] = l /\ Free(NameOf[l])
     \/ owner[NameOf[l]] = l /\ owner' = [owner EXCEPT ![NameOf[l]] = Stray]
  /\ UNCHANGED answer \/ Tell(l, "error")

Next == Lose \/ \E l \in Lock : Acquire(l) \/ Refresh(l) \/ Release(l) \/ Fail(l)

Spec == Init /\ [][Next]_<<owner, answer>>
===============================================================================
