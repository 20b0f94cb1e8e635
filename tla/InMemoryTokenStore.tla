--------------------------- MODULE InMemoryTokenStore ---------------------------
(***************************************************************************)
(* InMemoryTokenStore (v3/security/in_memory_token_store.go): tokens with  *)
(* an expiry and an index of the tokens of each user, under one lock.  A   *)
(* call that writes has read the clock before it has the lock.             *)
(***************************************************************************)
EXTENDS Integers

CONSTANTS
  Token, User,
  Ttl,       \* durations PutWithTtl is called with; Put is the duration 0
  MaxTime,   \* bound of the clock
  NoEntry, NoUser

Entry == [user : User, expiresAt : Nat]

InMemoryTokenStoreAssumption ==
  /\ Ttl \subseteq Int /\ MaxTime \in Nat
  /\ NoEntry \notin Entry /\ NoUser \notin User

VARIABLES
  now,
  entriesByToken,
  tokensByUser,
  found    \* what the last Lookup of a token returned

vars == <<now, entriesByToken, tokensByUser, found>>

(* The zero time of an expiry.                                             *)
Never == 0

Init ==
  /\ now = 1 /\ entriesByToken = [t \in Token |-> NoEntry]
  /\ tokensByUser = [u \in User |-> {}]
  /\ found = [t \in Token |-> NoUser]

Stored(t) == entriesByToken[t] # NoEntry

After(time, entry) == entry.expiresAt # Never /\ time > entry.expiresAt

(* mutant: the index keeps what the token was before.                      *)
UnindexNothing(t) == tokensByUser

Unindexed(t) ==
  [u \in User |-> IF Stored(t) /\ entriesByToken[t].user = u
                  THEN tokensByUser[u] \ {t} ELSE tokensByUser[u]]

Indexed(index, u, t) == [index EXCEPT ![u] = @ \cup {t}]
--------------------------------------------------------------------------------
Tick == now < MaxTime /\ now' = now + 1 /\ UNCHANGED <<entriesByToken, tokensByUser, found>>

Put(t, u, ttl) ==
  /\ \E seen \in 1 .. now :
       entriesByToken' = [entriesByToken EXCEPT ![t] =
         [user |-> u, expiresAt |-> IF ttl > 0 THEN seen + ttl ELSE Never]]
  /\ tokensByUser' = Indexed(Unindexed(t), u, t)
  /\ UNCHANGED <<now, found>>

Delete(t) ==
  /\ entriesByToken' = [entriesByToken EXCEPT ![t] = NoEntry]
  /\ tokensByUser' = Unindexed(t)
  /\ UNCHANGED <<now, found>>

DeleteByUser(u) ==
  /\ entriesByToken' =
       [t \in Token |-> IF t \in tokensByUser[u] THEN NoEntry ELSE entriesByToken[t]]
  /\ tokensByUser' = [tokensByUser EXCEPT ![u] = {}]
  /\ UNCHANGED <<now, found>>

PurgeExpired ==
  \E seen \in 1 .. now :
    LET purged == {t \in Token : Stored(t) /\ After(seen, entriesByToken[t])}
    IN  /\ entriesByToken' =
             [t \in Token |-> IF t \in purged THEN NoEntry ELSE entriesByToken[t]]
        /\ tokensByUser' =
             [u \in User |-> tokensByUser[u] \ {t \in purged : entriesByToken[t].user = u}]
        /\ UNCHANGED <<now, found>>

Owner(t) ==
  IF Stored(t) /\ ~After(now, entriesByToken[t]) THEN entriesByToken[t].user ELSE NoUser

Lookup(t) ==
  /\ found' = [found EXCEPT ![t] = Owner(t)]
  /\ UNCHANGED <<now, entriesByToken, tokensByUser>>

Next ==
  \/ Tick
  \/ PurgeExpired
  \/ \E u \in User : DeleteByUser(u)
  \/ \E t \in Token :
       Delete(t) \/ Lookup(t) \/ \E u \in User, ttl \in Ttl : Put(t, u, ttl)

Spec == Init /\ [][Next]_vars
--------------------------------------------------------------------------------
(* The store in memory keeps the promise of TokenContract: what the index  *)
(* of a user holds is what DeleteByUser takes away, neither a token less   *)
(* nor the token of another user more.                                     *)
Contract == INSTANCE TokenContract WITH
  owner <- [t \in Token |-> Owner(t)],
  endless <- [t \in Token |-> Stored(t) /\ entriesByToken[t].expiresAt = Never]

KeepsContract == Contract!Spec
================================================================================
