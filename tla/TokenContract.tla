----------------------------- MODULE TokenContract -----------------------------
(***************************************************************************)
(* What a revocable token store promises (v3/security/contract/            *)
(* token_store.go): Lookup tells whose token it is at that moment, Delete  *)
(* and DeleteByUser take away exactly what they name, and a token is lost  *)
(* by itself only when it was put with a time to live.                     *)
(***************************************************************************)
CONSTANTS
  Token, User,
  NoUser

VARIABLES
  owner,    \* whose token it is, NoUser when it is not valid
  endless,  \* the token was put without a time to live
  found     \* what the last Lookup of a token returned

Init ==
  /\ owner = [t \in Token |-> NoUser] /\ endless = [t \in Token |-> FALSE]
  /\ found = [t \in Token |-> NoUser]

Remove(T) ==
  /\ owner' = [t \in Token |-> IF t \in T THEN NoUser ELSE owner[t]]
  /\ endless' = [t \in Token |-> t \notin T /\ endless[t]]
  /\ UNCHANGED found

Put(t, u) ==
  /\ owner' = [owner EXCEPT ![t] = u]
  /\ \E e \in BOOLEAN : endless' = [endless EXCEPT ![t] = e]
  /\ UNCHANGED found

Delete(t) == Remove({t})

DeleteByUser(u) == Remove({t \in Token : owner[t] = u})

Expire == \E T \in SUBSET {t \in Token : ~endless[t]} : Remove(T)

Lookup(t) ==
  /\ found' = [found EXCEPT ![t] = owner[t]]
  /\ UNCHANGED <<owner, endless>>

Next ==
  \/ \E t \in Token : Delete(t) \/ Lookup(t) \/ \E u \in User : Put(t, u)
  \/ \E u \in User : DeleteByUser(u)
  \/ Expire

Spec == Init /\ [][Next]_<<owner, endless, found>>
================================================================================
