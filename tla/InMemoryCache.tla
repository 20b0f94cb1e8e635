---------------------------- MODULE InMemoryCache ----------------------------
(***************************************************************************)
(* InMemoryBackend of src/v3/cache: entries found by key and kept in a     *)
(* list by their last use, with an optional limit, expiry and a cleanup    *)
(* loop.  A call reads the clock first and takes the mutex later, so it    *)
(* works with a time that may have passed.  Get and Many read under the    *)
(* read lock and come back under the write lock to move what they found to *)
(* the front.  What a call does in one hold of the mutex is one action,    *)
(* unless it goes through several keys: then holder keeps the others out.  *)
(***************************************************************************)
EXTENDS Integers, FiniteSets, Sequences

CONSTANTS
  Caller,
  Cleaner,        \* the goroutine of cleanupLoop
  Key,
  Lowest, Highest,
  Word,           \* a payload that is not a number
  Menu,           \* the calls each caller may make
  MaxItems,       \* 0: no limit
  MaxTime,        \* bound on the clock
  NoItem, NoCall, Miss, NoOne, Done, Refused

Number == Lowest .. Highest
Payload == Number \cup {Word}
Item == [payload : Payload, expiresAt : Nat]

Op == {"get", "has", "set", "delete", "clear", "add", "subtract"}

(* Get, Has, Set, Delete are Many, a Many without a second half,           *)
(* SetMultiple and DeleteMultiple of one key.                              *)
Request == [op : Op, keys : SUBSET Key, value : Payload, ttl : Nat]

(* What a goroutine is at, and what a caller asked for and when.           *)
Pending ==
  [op : Op \cup {"cleanup", "close"}, keys : SUBSET Key, left : SUBSET Key,
   value : Payload, ttl : Nat, since : Nat, at : {"lock", "touch", "keys", "closed"}]
Question == [op : Op, keys : SUBSET Key, value : Payload, ttl : Nat, since : Nat]

ASSUME Constants ==
  /\ MaxItems \in Nat
  /\ Lowest \in Int /\ Highest \in Int /\ Lowest <= 0 /\ 0 <= Highest
  /\ Word \notin Int
  /\ NoItem \notin Item /\ NoCall \notin Pending \cup Question
  /\ IsFiniteSet(Key)
  /\ Cleaner \notin Caller
  /\ NoOne \notin Caller \cup {Cleaner}
  /\ Menu \in [Caller -> SUBSET Request]
  /\ \A c \in Caller : \A m \in Menu[c] :
       /\ m.keys # {}
       /\ m.op \in {"add", "subtract"} => m.value \in Number

VARIABLES
  cache,          \* entries and lruList, its front first
  holder,         \* who holds the mutex between two steps
  call,           \* keys: what it asked for; left: those it has to do yet
  answer,         \* what a call returns, known once it took effect
  now,
  visible         \* the entries when the mutex was last free

vars == <<cache, holder, call, answer, now, visible>>

Nothing == [k \in Key |-> NoItem]
Empty == [items |-> Nothing, list |-> <<>>]

Present(s) == {k \in Key : s.items[k] # NoItem}
Listed(s) == {s.list[i] : i \in DOMAIN s.list}

(* isExpiredAt.                                                            *)
Expired(item, time) ==
  item = NoItem \/ (item.expiresAt # 0 /\ time >= item.expiresAt)

ExpiresAt(time, ttl) == IF ttl > 0 THEN time + ttl ELSE 0
-----------------------------------------------------------------------------
(* list.Remove and list.PushFront.                                         *)
Without(list, k) ==
  IF \E i \in DOMAIN list : list[i] = k
  THEN LET at == CHOOSE i \in DOMAIN list : list[i] = k
       IN [i \in 1 .. Len(list) - 1 |-> IF i < at THEN list[i] ELSE list[i + 1]]
  ELSE list

PushFront(list, k) == [i \in 1 .. Len(list) + 1 |-> IF i = 1 THEN k ELSE list[i - 1]]

(* deleteLocked.                                                           *)
Deleted(s, k) == [items |-> [s.items EXCEPT ![k] = NoItem], list |-> Without(s.list, k)]

(* deleteExpiredLocked.                                                    *)
Purged(s, k, time) == IF Expired(s.items[k], time) THEN Deleted(s, k) ELSE s

(* mutant: what was found is moved to the front although it may have gone. *)
UsedBlindly(s, k, time) ==
  [s EXCEPT !.list = PushFront(Without(@, k), k)]

(* The second half of Get, for one key.                                    *)
Used(s, k, time) ==
  IF Expired(s.items[k], time) THEN Purged(s, k, time)
  ELSE [s EXCEPT !.list = PushFront(Without(@, k), k)]

(* The expired entry that was used last the longest ago, else whichever    *)
(* entry was.                                                              *)
Victim(s, time) ==
  LET expired == {i \in DOMAIN s.list : Expired(s.items[s.list[i]], time)}
      last == CHOOSE i \in expired : \A j \in expired : j <= i
  IN s.list[IF expired # {} THEN last ELSE Len(s.list)]

(* evictOneLocked.                                                         *)
EvictedOne(s, time) == IF s.list = <<>> THEN s ELSE Deleted(s, Victim(s, time))

Full(s) == MaxItems > 0 /\ Cardinality(Present(s)) >= MaxItems

(* saveItemLocked.                                                         *)
Saved(s, k, item, time) ==
  LET room == IF s.items[k] = NoItem /\ Full(s) THEN EvictedOne(s, time) ELSE s
  IN [items |-> [room.items EXCEPT ![k] = item],
      list |-> PushFront(Without(room.list, k), k)]
-----------------------------------------------------------------------------
Init ==
  /\ cache = Empty
  /\ holder = NoOne
  /\ call = [c \in Caller \cup {Cleaner} |-> NoCall]
  /\ answer = [c \in Caller |-> NoCall]
  /\ now = 1
  /\ visible = Nothing

Asks(c, at) == call[c] # NoCall /\ call[c].at = at

Become(c, new) == call' = [call EXCEPT ![c] = new]
Return(c, what) == answer' = [answer EXCEPT ![c] = what]

(* The mutex is free after the step, which did all it had to.              *)
Unlocked(new) ==
  /\ holder = NoOne
  /\ UNCHANGED holder
  /\ cache' = new
  /\ visible' = new.items

Start(c) ==
  /\ call[c] = NoCall
  /\ \E m \in Menu[c] :
       Become(c, [op |-> m.op, keys |-> m.keys, left |-> m.keys, value |-> m.value,
                  ttl |-> m.ttl, since |-> now, at |-> "lock"])
  /\ Return(c, NoCall)
  /\ UNCHANGED <<cache, holder, now, visible>>

(* The first half of Get and Many, and Has.                                *)
Read(c) ==
  /\ Asks(c, "lock") /\ call[c].op \in {"get", "has"}
  /\ holder = NoOne
  /\ LET hits == {k \in call[c].keys : ~Expired(cache.items[k], call[c].since)} IN
     /\ Return(c, [k \in call[c].keys |->
                     IF k \in hits THEN cache.items[k].payload ELSE Miss])
     /\ Become(c, IF call[c].op = "get" /\ hits # {}
                  THEN [call[c] EXCEPT !.left = hits, !.at = "touch"]
                  ELSE NoCall)
  /\ UNCHANGED <<cache, holder, now, visible>>

Clear(c) ==
  /\ Asks(c, "lock") /\ call[c].op = "clear"
  /\ Unlocked(Empty)
  /\ Become(c, NoCall)
  /\ Return(c, Done)
  /\ UNCHANGED now

(* Decrement by the lowest value, which can not be negated.                *)
Refuse(c) ==
  /\ Asks(c, "lock") /\ call[c].op = "subtract" /\ -call[c].value \notin Number
  /\ Become(c, NoCall)
  /\ Return(c, Refused)
  /\ UNCHANGED <<cache, holder, now, visible>>

(* Increment and Decrement: the value is parsed and added to with a check  *)
(* of the width; an expired entry is deleted even so, a live one keeps its *)
(* expiry.                                                                 *)
Add(c) ==
  /\ Asks(c, "lock") /\ call[c].op \in {"add", "subtract"}
  /\ call[c].op = "subtract" => -call[c].value \in Number
  /\ \E k \in call[c].keys :
       LET item == cache.items[k]
           live == ~Expired(item, call[c].since)
           delta == IF call[c].op = "add" THEN call[c].value ELSE -call[c].value
           value == (IF live THEN item.payload ELSE 0) + delta
       IN IF (live => item.payload # Word) /\ value \in Number
          THEN /\ Unlocked(Saved(Purged(cache, k, call[c].since), k,
                                 [payload |-> value,
                                  expiresAt |-> IF live THEN item.expiresAt ELSE 0],
                                 call[c].since))
               /\ Return(c, value)
          ELSE /\ holder = NoOne /\ UNCHANGED <<cache, holder, visible>>
               /\ Return(c, Refused)
  /\ Become(c, NoCall)
  /\ UNCHANGED now
-----------------------------------------------------------------------------
(* The calls that go through their keys with the mutex held: Set and       *)
(* SetMultiple, Delete and DeleteMultiple, the second half of Get and      *)
(* Many, and cleanupExpired.                                               *)
Lock(c) ==
  /\ \/ Asks(c, "touch")
     \/ Asks(c, "lock") /\ call[c].op \in {"set", "delete"}
  /\ holder = NoOne
  /\ holder' = c
  /\ Become(c, [call[c] EXCEPT !.at = "keys"])
  /\ UNCHANGED <<cache, answer, now, visible>>

(* mutant: the mutex is released between two keys.                         *)
HeldForOneKey(c, left) == NoOne

Held(c, left) == IF left = {} THEN NoOne ELSE c

Through(c, k, new) ==
  LET left == call[c].left \ {k} IN
  /\ holder = c
  /\ holder' = Held(c, left)
  /\ cache' = new
  /\ visible' = IF holder' = NoOne THEN new.items ELSE visible
  /\ Become(c, IF left = {} THEN NoCall ELSE [call[c] EXCEPT !.left = left])
  /\ UNCHANGED now

(* The answer of a call that changes something, once the last key is done. *)
Finished(c, k) ==
  IF call[c].left = {k} THEN Return(c, Done) ELSE UNCHANGED answer

SetKey(c, k) ==
  /\ call[c].op = "set"
  /\ Through(c, k, Saved(cache, k, [payload |-> call[c].value,
                                    expiresAt |-> ExpiresAt(call[c].since, call[c].ttl)],
                         call[c].since))
  /\ Finished(c, k)

DeleteKey(c, k) ==
  /\ call[c].op = "delete"
  /\ Through(c, k, Deleted(cache, k))
  /\ Finished(c, k)

TouchKey(c, k) ==
  /\ call[c].op = "get"
  /\ Through(c, k, Used(cache, k, call[c].since))
  /\ UNCHANGED answer

Each(c) ==
  /\ Asks(c, "keys")
  /\ \E k \in call[c].left : SetKey(c, k) \/ DeleteKey(c, k) \/ TouchKey(c, k)

(* A tick of the cleanup loop.                                             *)
Cleanup ==
  /\ call[Cleaner] = NoCall
  /\ Become(Cleaner, [op |-> "cleanup", keys |-> {}, left |-> {}, value |-> 0,
                      ttl |-> 0, since |-> now, at |-> "lock"])
  /\ UNCHANGED <<cache, holder, answer, now, visible>>

(* It ranges over the keys of entries.                                     *)
CleanupLock ==
  /\ Asks(Cleaner, "lock")
  /\ holder = NoOne
  /\ IF Present(cache) = {}
     THEN Become(Cleaner, NoCall) /\ UNCHANGED holder
     ELSE /\ Become(Cleaner, [call[Cleaner] EXCEPT !.left = Present(cache), !.at = "keys"])
          /\ holder' = Cleaner
  /\ UNCHANGED <<cache, answer, now, visible>>

CleanupKey(k) ==
  /\ Through(Cleaner, k, Purged(cache, k, call[Cleaner].since))
  /\ UNCHANGED answer

CleanupEach ==
  /\ Asks(Cleaner, "keys")
  /\ \E k \in call[Cleaner].left : CleanupKey(k)

(* Close: the loop ends between two ticks; the cache can be used on.       *)
Close ==
  /\ call[Cleaner] = NoCall
  /\ Become(Cleaner, [op |-> "close", keys |-> {}, left |-> {}, value |-> 0,
                      ttl |-> 0, since |-> 0, at |-> "closed"])
  /\ UNCHANGED <<cache, holder, answer, now, visible>>

Tick ==
  /\ now < MaxTime
  /\ now' = now + 1
  /\ UNCHANGED <<cache, holder, call, answer, visible>>

Next ==
  \/ \E c \in Caller :
       Start(c) \/ Read(c) \/ Clear(c) \/ Refuse(c) \/ Add(c) \/ Lock(c) \/ Each(c)
  \/ Cleanup \/ CleanupLock \/ CleanupEach \/ Close
  \/ Tick

Spec == Init /\ [][Next]_vars
-----------------------------------------------------------------------------
(* Whatever the interleaving, the list names every entry exactly once, and *)
(* the cache never holds more than its limit: an entry that is only in the *)
(* list, or only in the map, would never be evicted.                       *)
Consistent(s) ==
  /\ \A i, j \in DOMAIN s.list : s.list[i] = s.list[j] => i = j
  /\ Listed(s) = Present(s)
  /\ MaxItems > 0 => Len(s.list) <= MaxItems

ListMatchesEntries == Consistent(cache)

(* Every call takes effect at one moment, a get of many keys and a set of  *)
(* many keys too; increments are not lost, and nothing that is live leaves *)
(* but by a call or for want of room.                                      *)
Touching(c) ==
  call[c].at = "touch" \/ (call[c].at = "keys" /\ call[c].op = "get")

Contract == INSTANCE CacheContract WITH
  store <- visible,
  asked <- [c \in Caller |->
              IF call[c] = NoCall \/ Touching(c) THEN NoCall
              ELSE [f \in {"op", "keys", "value", "ttl", "since"} |-> call[c][f]]]

ImplementsCache == Contract!Spec
=============================================================================
