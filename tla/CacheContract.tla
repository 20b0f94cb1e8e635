---------------------------- MODULE CacheContract ----------------------------
(***************************************************************************)
(* What a cache backend promises to concurrent callers: every call takes   *)
(* effect at one moment between its start and its end, judging expiry by   *)
(* the time it started; what nobody removed leaves only when it expired or *)
(* when a new entry needs its place in a full cache.                       *)
(***************************************************************************)
EXTENDS Integers, FiniteSets

CONSTANTS
  Caller, Key,
  Lowest, Highest,      \* of the counters
  Word,                 \* a payload that is not a number
  NoItem, NoCall, Miss, Done, Refused,
  MaxItems              \* 0: no limit

VARIABLES
  store,
  asked,          \* the calls that did not take effect yet
  answer,
  now

vars == <<store, asked, answer, now>>

Number == Lowest .. Highest
Payload == Number \cup {Word}
Item == [payload : Payload, expiresAt : Nat]

Present(s) == {k \in Key : s[k] # NoItem}

Live(item, time) ==
  item # NoItem /\ (item.expiresAt # 0 => time < item.expiresAt)

Init ==
  /\ store = [k \in Key |-> NoItem]
  /\ asked = [c \in Caller |-> NoCall]
  /\ answer = [c \in Caller |-> NoCall]
  /\ now \in Nat

Ask(c) ==
  /\ asked[c] = NoCall
  /\ asked'[c] # NoCall /\ asked'[c].since = now
  /\ answer'[c] = NoCall
  /\ \A other \in Caller \ {c} : asked'[other] = asked[other] /\ answer'[other] = answer[other]
  /\ UNCHANGED <<store, now>>

Reply(c, what) ==
  /\ asked' = [asked EXCEPT ![c] = NoCall]
  /\ answer' = [answer EXCEPT ![c] = what]
  /\ UNCHANGED now

Asks(c, ops) == asked[c] # NoCall /\ asked[c].op \in ops

Read(c) ==
  /\ Asks(c, {"get", "has"})
  /\ Reply(c, [k \in asked[c].keys |->
                 IF Live(store[k], asked[c].since) THEN store[k].payload ELSE Miss])
  /\ UNCHANGED store

(* The keys get their items, if need be in the place of others: then the   *)
(* cache is full afterwards.                                               *)
Put(keys, item) ==
  LET dropped == {k \in Key : store'[k] = NoItem /\ (store[k] # NoItem \/ k \in keys)} IN
  /\ \A k \in Key \ dropped : store'[k] = IF k \in keys THEN item ELSE store[k]
  /\ \E k \in keys : store'[k] = item
  /\ dropped # {} => Cardinality(Present(store')) = MaxItems
  /\ MaxItems > 0 => Cardinality(Present(store')) <= MaxItems

Set(c) ==
  /\ Asks(c, {"set"})
  /\ Reply(c, Done)
  /\ Put(asked[c].keys, [payload |-> asked[c].value,
                         expiresAt |-> IF asked[c].ttl > 0 THEN asked[c].since + asked[c].ttl
                                       ELSE 0])

Delete(c) ==
  /\ Asks(c, {"delete", "clear"})
  /\ Reply(c, Done)
  /\ store' = [k \in Key |-> IF k \in asked[c].keys \/ asked[c].op = "clear"
                             THEN NoItem ELSE store[k]]

(* A counter that does not exist, or has expired, starts at zero and never *)
(* expires.                                                                *)
Add(c) ==
  /\ Asks(c, {"add", "subtract"})
  /\ \E k \in asked[c].keys :
       LET live == Live(store[k], asked[c].since)
           delta == IF asked[c].op = "add" THEN asked[c].value ELSE -asked[c].value
           sum == (IF live THEN store[k].payload ELSE 0) + delta
       IN IF delta \in Number /\ (live => store[k].payload # Word) /\ sum \in Number
          THEN /\ Reply(c, sum)
               /\ Put({k}, [payload |-> sum,
                            expiresAt |-> IF live THEN store[k].expiresAt ELSE 0])
          ELSE Reply(c, Refused) /\ UNCHANGED store

Purge ==
  /\ \A k \in Key : store'[k] # store[k] =>
       store'[k] = NoItem /\ ~Live(store[k], now)
  /\ UNCHANGED <<asked, answer, now>>

Pass == now' > now /\ UNCHANGED <<store, asked, answer>>

Next ==
  \/ \E c \in Caller : Ask(c) \/ Read(c) \/ Set(c) \/ Delete(c) \/ Add(c)
  \/ Purge
  \/ Pass

Spec == Init /\ [][Next]_vars
=============================================================================
