---------------------------- MODULE RedisTokenStore ----------------------------
(***************************************************************************)
(* The Redis token store (integrations/rueidis/v3/token_store.go): a key   *)
(* for each token, a set of token keys for each user.  The server expires  *)
(* the keys by itself and leaves their names in the sets, so a name there  *)
(* may be gone, or be the token of another user by now.  Each call is one  *)
(* script, and the purge one script for each set; a call may fail after    *)
(* its script ran.                                                         *)
(***************************************************************************)
EXTENDS Integers

CONSTANTS
  Token, User,
  Ttl,          \* durations PutWithTtl is called with; Put is the duration 0
  Millisecond,  \* durations are counted in parts of a millisecond
  NoKey, NoUser

Entry == [user : User, endless : BOOLEAN]

RedisTokenStoreAssumption ==
  /\ Ttl \subseteq Int /\ Millisecond \in Nat \ {0}
  /\ NoKey \notin Entry /\ NoUser \notin User

VARIABLES
  key,      \* server: the token keys
  members,  \* server: the set of each user
  found     \* what the last Lookup of a token returned

vars == <<key, members, found>>

Init ==
  /\ key = [t \in Token |-> NoKey] /\ members = [u \in User |-> {}]
  /\ found = [t \in Token |-> NoUser]

Exists(t) == key[t] # NoKey

FloorPositiveMilliseconds(ttl) ==
  IF ttl \div Millisecond = 0 THEN 1 ELSE ttl \div Millisecond

Pttl(ttl) == IF ttl > 0 THEN FloorPositiveMilliseconds(ttl) ELSE 0
--------------------------------------------------------------------------------
Put(t, u, ttl) ==
  LET others == IF Exists(t) /\ key[t].user # u
                THEN [members EXCEPT ![key[t].user] = @ \ {t}] ELSE members
  IN  /\ key' = [key EXCEPT ![t] = [user |-> u, endless |-> Pttl(ttl) = 0]]
      /\ members' = [others EXCEPT ![u] = @ \cup {t}]
      /\ UNCHANGED found

Delete(t) ==
  /\ Exists(t)
  /\ key' = [key EXCEPT ![t] = NoKey]
  /\ members' = [members EXCEPT ![key[t].user] = @ \ {t}]
  /\ UNCHANGED found

(* mutant: every name in the set of the user is deleted.                   *)
EveryMember(u) == {t \in members[u] : Exists(t)}

TokensOf(u) == {t \in members[u] : Exists(t) /\ key[t].user = u}

DeleteByUser(u) ==
  /\ key' = [t \in Token |-> IF t \in TokensOf(u) THEN NoKey ELSE key[t]]
  /\ members' = [members EXCEPT ![u] = {}]
  /\ UNCHANGED found

(* One script of PurgeExpired, for one of the sets SCAN returned.          *)
PurgeUser(u) ==
  /\ members' = [members EXCEPT ![u] = {t \in @ : Exists(t)}]
  /\ UNCHANGED <<key, found>>

Owner(t) == IF Exists(t) THEN key[t].user ELSE NoUser

Lookup(t) ==
  /\ found' = [found EXCEPT ![t] = Owner(t)]
  /\ UNCHANGED <<key, members>>

Expire(t) ==
  /\ Exists(t) /\ ~key[t].endless
  /\ key' = [key EXCEPT ![t] = NoKey]
  /\ UNCHANGED <<members, found>>

Next ==
  \/ \E u \in User : DeleteByUser(u) \/ PurgeUser(u)
  \/ \E t \in Token :
       \/ Delete(t) \/ Lookup(t) \/ Expire(t)
       \/ \E u \in User, ttl \in Ttl : Put(t, u, ttl)

Spec == Init /\ [][Next]_vars
--------------------------------------------------------------------------------
(* The Redis store keeps the promise of TokenContract, although the sets   *)
(* of the users are never exact.                                           *)
Contract == INSTANCE TokenContract WITH
  owner <- [t \in Token |-> Owner(t)],
  endless <- [t \in Token |-> Exists(t) /\ key[t].endless]

KeepsContract == Contract!Spec
================================================================================
