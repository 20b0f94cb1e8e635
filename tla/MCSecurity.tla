------------------------------- MODULE MCSecurity -------------------------------
(***************************************************************************)
(* Small instances of the security component.  The initial state chooses   *)
(* what runs, and the rest stays as it is: a token store, in memory or in  *)
(* Redis, against TokenContract; or the listeners over a store that keeps  *)
(* it.                                                                     *)
(***************************************************************************)
EXTENDS SecurityListeners, TokenStores, TLC

CONSTANTS t1, t2, u1, u2, clerk, editor, chief

VARIABLE running

listenerVars == vars
memoryVars == <<clock, entriesByToken, tokensByUser, memoryFound>>
redisVars == <<key, members, redisFound>>
allVars == <<running, listenerVars, memoryVars, redisVars>>
--------------------------------------------------------------------------------
(* A chief inherits from an editor, an editor from a clerk.                *)
Inheritance == (clerk :> {}) @@ (editor :> {clerk}) @@ (chief :> {editor})
UserRoles == (u1 :> {clerk}) @@ (u2 :> {chief})

A == <<"/", "a">>
AB == <<"/", "a", "b">>
AC == <<"/", "a", "/", "c">>
ACSlash == AC \o Root
Paths == {<< >>, Root, A, AB, AC, ACSlash}

Rule(kind, path, needs) == [kind |-> kind, path |-> path, matches |-> {}, needs |-> needs]
Regex(matches, needs) == [kind |-> "regex", path |-> << >>, matches |-> matches, needs |-> needs]

Fallback == Rule("prefix", << >>, {chief})
Everyone == Rule("segment", Root, {Public})

Base == [strategy |-> "affirmative", voters |-> <<"role">>, hierarchy |-> TRUE, manager |-> TRUE,
         merge |-> "global first", inherit |-> FALSE, apiKey |-> FALSE,
         global |-> <<Rule("exact", A, {chief})>>, local |-> <<Rule("segment", A, {clerk})>>]

(* Every strategy over voters that agree or not; lists that are merged in  *)
(* both orders; rules of every kind in every order of precedence.          *)
Variety ==
  {Base, [Base EXCEPT !.apiKey = TRUE], [Base EXCEPT !.manager = FALSE]}
  \cup {[Base EXCEPT !.strategy = s, !.voters = v, !.hierarchy = h] :
          s \in {"affirmative", "consensus", "unanimous"}, h \in BOOLEAN,
          v \in {<<"role", "granted">>, <<"role", "denied", "abstain">>, <<"abstain">>}}
  \cup {[Base EXCEPT !.merge = m, !.inherit = TRUE, !.local = rules] :
          m \in {"override only", "global first", "local first"},
          rules \in {<<Rule("exact", A, {editor}), Fallback>>,
                     <<Everyone, Rule("prefix", A, {clerk, editor}), Rule("segment", A, {chief})>>,
                     <<Fallback, Regex({AB, AC}, {editor}), Rule("exact", AC, {})>>}}
--------------------------------------------------------------------------------
ListenersRun == running = "listeners" /\ UNCHANGED <<running, memoryVars, redisVars>>
MemoryRuns == running = "in memory" /\ UNCHANGED <<running, listenerVars, redisVars>>
RedisRuns == running = "redis" /\ UNCHANGED <<running, listenerVars, memoryVars>>

MCInit ==
  /\ running \in {"listeners", "in memory", "redis"}
  /\ Init /\ MemoryTokens!Init /\ RedisTokens!Init
  /\ running # "listeners" => setup = Base

RequestStep ==
  \/ \E path \in Path, bearer \in Token \cup {NoToken}, k \in BOOLEAN :
       Arrive(path, bearer, k) /\ ListenersRun
  \/ AnsweredEarly /\ ListenersRun
  \/ DispatchEnds /\ ListenersRun
  \/ NoFirewall /\ ListenersRun
  \/ FirewallRefuses /\ ListenersRun
  \/ TokenSourceFails /\ ListenersRun
  \/ Resolve /\ ListenersRun
  \/ Unmatched /\ ListenersRun
  \/ AccessGranted /\ ListenersRun
  \/ Unauthorized /\ ListenersRun
  \/ Forbidden /\ ListenersRun
  \/ StoreChanges /\ ListenersRun

MemoryStep ==
  \/ MemoryTokens!Tick /\ MemoryRuns
  \/ MemoryTokens!PurgeExpired /\ MemoryRuns
  \/ \E u \in TokenUser : MemoryTokens!DeleteByUser(u) /\ MemoryRuns
  \/ \E t \in StoredToken : MemoryTokens!Delete(t) /\ MemoryRuns
  \/ \E t \in StoredToken : MemoryTokens!Lookup(t) /\ MemoryRuns
  \/ \E t \in StoredToken, u \in TokenUser, ttl \in TokenTtl : MemoryTokens!Put(t, u, ttl) /\ MemoryRuns

RedisStep ==
  \/ \E u \in TokenUser : RedisTokens!DeleteByUser(u) /\ RedisRuns
  \/ \E u \in TokenUser : RedisTokens!PurgeUser(u) /\ RedisRuns
  \/ \E t \in StoredToken : RedisTokens!Delete(t) /\ RedisRuns
  \/ \E t \in StoredToken : RedisTokens!Lookup(t) /\ RedisRuns
  \/ \E t \in StoredToken : RedisTokens!Expire(t) /\ RedisRuns
  \/ \E t \in StoredToken, u \in TokenUser, ttl \in TokenTtl : RedisTokens!Put(t, u, ttl) /\ RedisRuns

MCNext == RequestStep \/ MemoryStep \/ RedisStep

MCSpec == MCInit /\ [][MCNext]_allVars
================================================================================
