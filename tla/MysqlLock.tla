------------------------------ MODULE MysqlLock ------------------------------
(***************************************************************************)
(* The MySQL locker (integrations/bunorm/mysql/v3/lock.go) for one lock    *)
(* name: each lock that is held pins a session of the connection pool, the *)
(* server keeps the name for a session, and sessions break or die between  *)
(* any two statements.                                                     *)
(*                                                                         *)
(* Each action is one statement sent to the server, or one pool operation, *)
(* with what the code does up to the next one.  The mutex of a lock allows *)
(* one call on it at a time.                                               *)
(***************************************************************************)
EXTENDS FiniteSets

CONSTANTS
  Lock, Session,
  NoSession, NoLock, Stray,
  TheName   \* the name all locks were created for

MysqlAssumption ==
  /\ NoSession \notin Session
  /\ NoLock \notin Lock /\ Stray \notin Lock \cup {NoLock}

VARIABLES
  holder,      \* server: the session that has the name, or NoSession
  session,     \* "pooled", "used", "broken" (closed by the client alone), "dead"
  connection,  \* the session a lock has pinned while it is held
  opening,     \* the session Acquire has just taken from the pool
  pc,          \* where the call on a lock is
  answer       \* what the last call on a lock returned

vars == <<holder, session, connection, opening, pc, answer>>

Init ==
  /\ holder = NoSession /\ session = [s \in Session |-> "pooled"]
  /\ connection = [l \in Lock |-> NoSession] /\ opening = [l \in Lock |-> NoSession]
  /\ pc = [l \in Lock |-> "idle"] /\ answer = [l \in Lock |-> "none"]

Go(l, place) == pc' = [pc EXCEPT ![l] = place] /\ UNCHANGED answer

Return(l, a) ==
  /\ pc' = [pc EXCEPT ![l] = "idle"]
  /\ answer' = [answer EXCEPT ![l] = a]

Pinned(l) == connection[l] # NoSession

(* The session answers, and has the name.                                  *)
Holds(s) == session[s] = "used" /\ holder = s

(* A statement fails: the session may have died, its connection may break  *)
(* now, or it was only this statement (its context was canceled).          *)
StatementFails(s) ==
  session' \in {session} \cup (IF session[s] = "used"
                               THEN {[session EXCEPT ![s] = "broken"]} ELSE {})

(* mutant: the session goes back to the pool without RELEASE_LOCK.         *)
CloseOnly(s) ==
  /\ holder' = holder
  /\ session' = [session EXCEPT ![s] = IF @ = "used" THEN "pooled" ELSE @]

(* RELEASE_LOCK, then Close: a session that answers goes back to the pool, *)
(* any other is left to the server.                                        *)
ReleaseAndClose(s) ==
  /\ holder' = IF Holds(s) THEN NoSession ELSE holder
  /\ session' = [session EXCEPT ![s] = IF @ = "used" THEN "pooled" ELSE @]

Unpin(l) == connection' = [connection EXCEPT ![l] = NoSession]
-----------------------------------------------------------------------------
(* mutant: a pinned connection is taken for a lock that is held.           *)
TrustConnection(l) == Pinned(l)

VerifiedHeld(l) == Pinned(l) /\ Holds(connection[l])

AcquireStart(l) ==
  /\ pc[l] = "idle"
  /\ Go(l, IF Pinned(l) THEN "verify" ELSE "connect")
  /\ UNCHANGED <<holder, session, connection, opening>>

Verify(l) ==
  /\ pc[l] = "verify"
  /\ \/ VerifiedHeld(l) /\ Return(l, "acquired") /\ UNCHANGED session
     \/ ~Holds(connection[l]) /\ ~VerifiedHeld(l) /\ Go(l, "drop") /\ UNCHANGED session
     \/ StatementFails(connection[l]) /\ Go(l, "drop")
  /\ UNCHANGED <<holder, connection, opening>>

Drop(l) ==
  /\ pc[l] = "drop"
  /\ ReleaseAndClose(connection[l])
  /\ Unpin(l)
  /\ Go(l, "connect")
  /\ UNCHANGED <<opening>>

Connect(l) ==
  /\ pc[l] = "connect"
  /\ \/ \E s \in Session :
          /\ session[s] = "pooled"
          /\ session' = [session EXCEPT ![s] = "used"]
          /\ opening' = [opening EXCEPT ![l] = s]
          /\ Go(l, "ask")
     \/ Return(l, "error") /\ UNCHANGED <<session, opening>>
  /\ UNCHANGED <<holder, connection>>

Grants(s) == session[s] = "used" /\ holder \in {NoSession, s}

AskGranted(l) ==
  LET s == opening[l]
  IN  /\ pc[l] = "ask" /\ Grants(s)
      /\ holder' = s
      /\ connection' = [connection EXCEPT ![l] = s]
      /\ opening' = [opening EXCEPT ![l] = NoSession]
      /\ Return(l, "acquired")
      /\ UNCHANGED <<session>>

AskRefused(l) ==
  LET s == opening[l]
  IN  /\ pc[l] = "ask" /\ session[s] = "used" /\ ~Grants(s)
      /\ session' = [session EXCEPT ![s] = "pooled"]
      /\ opening' = [opening EXCEPT ![l] = NoSession]
      /\ Return(l, "refused")
      /\ UNCHANGED <<holder, connection>>

(* GET_LOCK fails, perhaps after the server has given the name.            *)
AskFails(l) ==
  LET s == opening[l]
  IN  /\ pc[l] = "ask"
      /\ holder' \in {holder} \cup (IF Grants(s) THEN {s} ELSE {})
      /\ StatementFails(s)
      /\ Go(l, "undo")
      /\ UNCHANGED <<connection, opening>>

(* releaseOrphanedLock                                                     *)
Undo(l) ==
  /\ pc[l] = "undo"
  /\ ReleaseAndClose(opening[l])
  /\ opening' = [opening EXCEPT ![l] = NoSession]
  /\ Return(l, "error")
  /\ UNCHANGED <<connection>>
-----------------------------------------------------------------------------
(* Release uses a context of its own; when the statement fails all the     *)
(* same, the connection is unusable.                                       *)
Release(l) ==
  /\ pc[l] = "idle"
  /\ \/ ~Pinned(l) /\ Return(l, "released") /\ UNCHANGED <<holder, session>>
     \/ /\ Pinned(l) /\ session[connection[l]] = "used"
        /\ ReleaseAndClose(connection[l])
        /\ Return(l, "released")
     \/ /\ Pinned(l)
        /\ session' = [session EXCEPT ![connection[l]] = IF @ = "used" THEN "broken" ELSE @]
        /\ UNCHANGED holder
        /\ Return(l, "error")
  /\ Unpin(l)
  /\ UNCHANGED <<opening>>

CloseLost(l) ==
  /\ Unpin(l)
  /\ session' = [session EXCEPT ![connection[l]] = IF @ = "used" THEN "pooled" ELSE @]

Refresh(l) ==
  /\ pc[l] = "idle"
  /\ \/ ~Pinned(l) /\ Return(l, "lost") /\ UNCHANGED <<session, connection>>
     \/ Pinned(l) /\ VerifiedHeld(l) /\ Return(l, "refreshed") /\ UNCHANGED <<session, connection>>
     \/ /\ Pinned(l) /\ session[connection[l]] = "used" /\ ~VerifiedHeld(l)
        /\ CloseLost(l)
        /\ Return(l, "lost")
     \/ Pinned(l) /\ StatementFails(connection[l]) /\ Go(l, "giveUp") /\ UNCHANGED connection
  /\ UNCHANGED <<holder, opening>>

GiveUp(l) ==
  /\ pc[l] = "giveUp"
  /\ ReleaseAndClose(connection[l])
  /\ Unpin(l)
  /\ Return(l, "error")
  /\ UNCHANGED <<opening>>
-----------------------------------------------------------------------------
(* The server ends a session, and with it what it held; a forced release   *)
(* takes the name from a session that lives on; the pool opens new ones.   *)
Referenced(s) == \E l \in Lock : s \in {connection[l], opening[l]}

SessionDies(s) ==
  /\ session[s] # "dead"
  /\ session' = [session EXCEPT ![s] = "dead"]
  /\ holder' = IF holder = s THEN NoSession ELSE holder
  /\ UNCHANGED <<connection, opening, pc, answer>>

ForcedRelease ==
  /\ holder # NoSession
  /\ holder' = NoSession
  /\ UNCHANGED <<session, connection, opening, pc, answer>>

NewSession(s) ==
  /\ session[s] = "dead" /\ ~Referenced(s)
  /\ session' = [session EXCEPT ![s] = "pooled"]
  /\ UNCHANGED <<holder, connection, opening, pc, answer>>

Call(l) ==
  \/ AcquireStart(l) \/ Verify(l) \/ Drop(l) \/ Connect(l)
  \/ AskGranted(l) \/ AskRefused(l) \/ AskFails(l) \/ Undo(l)
  \/ Release(l) \/ Refresh(l) \/ GiveUp(l)

Next ==
  \/ \E l \in Lock : Call(l)
  \/ \E s \in Session : SessionDies(s) \/ NewSession(s)
  \/ ForcedRelease

Spec == Init /\ [][Next]_vars

(* A session the client has closed is ended by the server in time, and a   *)
(* call that was started goes on.                                          *)
Fairness ==
  /\ \A s \in Session : WF_vars(session[s] = "broken" /\ SessionDies(s))
  /\ \A l \in Lock : WF_vars(Drop(l)) /\ WF_vars(Undo(l)) /\ WF_vars(GiveUp(l))

FairSpec == Spec /\ Fairness
-----------------------------------------------------------------------------
TypeOK ==
  /\ holder \in Session \cup {NoSession}
  /\ session \in [Session -> {"pooled", "used", "broken", "dead"}]
  /\ connection \in [Lock -> Session \cup {NoSession}]
  /\ opening \in [Lock -> Session \cup {NoSession}]
  /\ pc \in [Lock -> {"idle", "verify", "drop", "connect", "ask", "undo", "giveUp"}]
  /\ answer \in [Lock -> {"none", "acquired", "refused", "refreshed", "lost", "released", "error"}]

(* The lock that has the name is the one whose session has it.             *)
Owners == {l \in Lock : holder # NoSession /\ holder \in {connection[l], opening[l]}}

OwnerOf == IF holder = NoSession THEN NoLock
           ELSE IF Owners = {} THEN Stray ELSE CHOOSE l \in Owners : TRUE

(* The MySQL locker keeps the promise of LockContract.                     *)
Contract == INSTANCE LockContract WITH
  Name <- {TheName}, NameOf <- [l \in Lock |-> TheName],
  owner <- [n \in {TheName} |-> OwnerOf]

KeepsContract == Contract!Spec

(* A name that no lock stands for any more becomes free again.             *)
StrayIsFreed == (OwnerOf = Stray) ~> (OwnerOf # Stray)
=============================================================================
