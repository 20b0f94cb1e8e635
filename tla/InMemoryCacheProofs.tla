------------------------ MODULE InMemoryCacheProofs -------------------------
(* The in-memory cache keeps its list and its entries together and within  *)
(* its limit, for any callers, keys, calls, limit and width.               *)
EXTENDS InMemoryCache, FiniteSetTheorems, WellFoundedInduction, TLAPS

Distinct(list) == \A i, j \in DOMAIN list : list[i] = list[j] => i = j
Names(list) == {list[i] : i \in DOMAIN list}

Cache == [items : [Key -> Item \cup {NoItem}], list : Seq(Key)]

TypeOK ==
  /\ cache \in Cache
  /\ now \in Nat
  /\ call \in [Caller \cup {Cleaner} -> Pending \cup {NoCall}]
  /\ \A c \in Caller \cup {Cleaner} :
       call[c] # NoCall /\ call[c].op \in {"add", "subtract"} => call[c].value \in Number

USE Constants
-----------------------------------------------------------------------------
(* A set of positions has a last one.                                      *)
LEMMA GreatestElement ==
  ASSUME NEW n \in Nat, NEW T \in SUBSET (1 .. n), T # {}
  PROVE  \E i \in T : \A j \in T : j <= i
<1> DEFINE R == {ss \in Nat \X Nat : ss[1] < ss[2]}
           B == {n - i : i \in T}
<1>1. B \subseteq Nat /\ B # {}
  <2>1. PICK i \in T : TRUE
    OBVIOUS
  <2>2. n - i \in B
    OBVIOUS
  <2> QED BY <2>2
<1>2. IsWellFoundedOn(R, Nat)
  BY NatLessThanWellFounded DEF OpToRel
<1>3. PICK b \in B : \A y \in B : ~ (<<y, b>> \in R)
  <2> HIDE DEF B, R
  <2> QED BY <1>1, <1>2, WFMin
<1>4. PICK i \in T : b = n - i
  OBVIOUS
<1>5. ASSUME NEW j \in T PROVE j <= i
  <2>1. n - j \in Nat /\ b \in Nat /\ n - j \in B
    OBVIOUS
  <2>2. ~ (<<n - j, b>> \in R)
    BY <1>3, <2>1
  <2>3. ~ (n - j < b)
    BY <2>2, <2>1
  <2> QED BY <2>3, <1>4
<1> QED BY <1>5

(* Removing from a list without repetitions removes that name only.        *)
LEMMA WithoutFacts ==
  ASSUME NEW list \in Seq(Key), Distinct(list), NEW k \in Key
  PROVE  /\ Without(list, k) \in Seq(Key)
         /\ Distinct(Without(list, k))
         /\ Names(Without(list, k)) = Names(list) \ {k}
         /\ Len(Without(list, k)) = IF k \in Names(list) THEN Len(list) - 1 ELSE Len(list)
<1>1. CASE k \notin Names(list)
  <2>1. Without(list, k) = list
    BY <1>1 DEF Without, Names
  <2> QED BY <1>1, <2>1
<1>2. CASE k \in Names(list)
  <2> DEFINE at == CHOOSE i \in DOMAIN list : list[i] = k
             new == [i \in 1 .. Len(list) - 1 |-> IF i < at THEN list[i] ELSE list[i + 1]]
  <2>1. Without(list, k) = new
    BY <1>2 DEF Without, Names
  <2>2. at \in DOMAIN list /\ list[at] = k
    BY <1>2 DEF Names
  <2>3. DOMAIN list = 1 .. Len(list) /\ Len(list) \in Nat /\ at \in 1 .. Len(list)
    BY <2>2
  <2> HIDE DEF at
  <2>4. new \in Seq(Key) /\ DOMAIN new = 1 .. Len(list) - 1 /\ Len(new) = Len(list) - 1
    <3>1. \A i \in 1 .. Len(list) - 1 : new[i] \in Key
      BY <2>3
    <3>2. Len(list) - 1 \in Nat
      BY <2>3
    <3> QED BY <3>1, <3>2
  <2>5. ASSUME NEW i \in DOMAIN new, NEW j \in DOMAIN new, new[i] = new[j] PROVE i = j
    <3>1. new[i] = list[IF i < at THEN i ELSE i + 1] /\ new[j] = list[IF j < at THEN j ELSE j + 1]
      BY <2>4, <2>5
    <3>2. (IF i < at THEN i ELSE i + 1) = (IF j < at THEN j ELSE j + 1)
      BY <3>1, <2>3, <2>4, <2>5 DEF Distinct
    <3> QED BY <3>2, <2>3, <2>4
  <2>6. Names(new) = Names(list) \ {k}
    <3>1. ASSUME NEW i \in DOMAIN new PROVE new[i] \in Names(list) \ {k}
      <4>1. (IF i < at THEN i ELSE i + 1) \in DOMAIN list \ {at}
        BY <2>3, <2>4
      <4>2. new[i] = list[IF i < at THEN i ELSE i + 1]
        BY <2>4
      <4> QED BY <4>1, <4>2, <2>2 DEF Names, Distinct
    <3>2. ASSUME NEW j \in DOMAIN list, list[j] # k PROVE list[j] \in Names(new)
      <4>1. j # at
        BY <2>2, <3>2
      <4> DEFINE i == IF j < at THEN j ELSE j - 1
      <4>2. i \in DOMAIN new /\ new[i] = list[j]
        BY <4>1, <2>3, <2>4
      <4> QED BY <4>2 DEF Names
    <3> QED BY <3>1, <3>2 DEF Names
  <2> QED BY <1>2, <2>1, <2>4, <2>5, <2>6 DEF Distinct
<1> QED BY <1>1, <1>2

LEMMA PushFrontFacts ==
  ASSUME NEW list \in Seq(Key), Distinct(list), NEW k \in Key, k \notin Names(list)
  PROVE  /\ PushFront(list, k) \in Seq(Key)
         /\ Distinct(PushFront(list, k))
         /\ Names(PushFront(list, k)) = Names(list) \cup {k}
         /\ Len(PushFront(list, k)) = Len(list) + 1
<1> DEFINE new == PushFront(list, k)
<1>1. DOMAIN list = 1 .. Len(list) /\ Len(list) \in Nat
  OBVIOUS
<1>2. new \in Seq(Key) /\ DOMAIN new = 1 .. Len(list) + 1 /\ Len(new) = Len(list) + 1
  <2>1. \A i \in 1 .. Len(list) + 1 : new[i] \in Key
    BY <1>1 DEF PushFront
  <2>2. DOMAIN new = 1 .. Len(list) + 1 /\ new = [i \in 1 .. Len(list) + 1 |-> new[i]]
    BY DEF PushFront
  <2> HIDE DEF new
  <2> QED BY <1>1, <2>1, <2>2
<1>3. new[1] = k /\ \A i \in 2 .. Len(list) + 1 : i - 1 \in DOMAIN list /\ new[i] = list[i - 1]
  BY <1>1 DEF PushFront
<1> HIDE DEF new
<1>4. ASSUME NEW i \in DOMAIN new, NEW j \in DOMAIN new, new[i] = new[j] PROVE i = j
  <2>1. \A l \in DOMAIN new : l # 1 => l \in 2 .. Len(list) + 1 /\ new[l] # k
    BY <1>1, <1>2, <1>3 DEF Names
  <2>2. CASE i = 1 \/ j = 1
    BY <2>1, <2>2, <1>3, <1>4
  <2>3. CASE i # 1 /\ j # 1
    <3>1. list[i - 1] = list[j - 1] /\ i - 1 \in DOMAIN list /\ j - 1 \in DOMAIN list
      BY <2>1, <2>3, <1>3, <1>4
    <3>2. i - 1 = j - 1
      BY <3>1 DEF Distinct
    <3> QED BY <3>2, <1>2
  <2> QED BY <2>2, <2>3
<1>5. Names(new) = Names(list) \cup {k}
  <2>1. ASSUME NEW i \in DOMAIN new PROVE new[i] \in Names(list) \cup {k}
    <3>1. CASE i = 1
      BY <1>3, <2>1, <3>1
    <3>2. CASE i # 1
      <4>1. i - 1 \in DOMAIN list /\ new[i] = list[i - 1]
        BY <1>1, <1>2, <1>3, <3>2
      <4> QED BY <4>1 DEF Names
    <3> QED BY <3>1, <3>2
  <2>2. ASSUME NEW j \in DOMAIN list PROVE list[j] \in Names(new)
    <3>1. j + 1 \in DOMAIN new /\ j + 1 \in 2 .. Len(list) + 1 /\ j + 1 - 1 = j
      BY <1>1, <1>2
    <3>2. new[j + 1] = list[j]
      BY <3>1, <1>3
    <3> QED BY <3>1, <3>2 DEF Names
  <2>3. k \in Names(new)
    <3>1. 1 \in DOMAIN new
      BY <1>1, <1>2
    <3> QED BY <3>1, <1>3 DEF Names
  <2> QED BY <2>1, <2>2, <2>3 DEF Names
<1> QED BY <1>2, <1>4, <1>5 DEF new, Distinct
-----------------------------------------------------------------------------
LEMMA ConsistentMeans ==
  ASSUME NEW s
  PROVE  Consistent(s) <=> /\ Distinct(s.list)
                           /\ Names(s.list) = Present(s)
                           /\ MaxItems > 0 => Len(s.list) <= MaxItems
BY DEF Consistent, Distinct, Names, Listed

(* A consistent cache counts its entries by its list.                      *)
LEMMA SizeOfList ==
  ASSUME NEW s \in Cache, Distinct(s.list), Names(s.list) = Present(s)
  PROVE  Cardinality(Present(s)) = Len(s.list)
<1>1. s.list \in Seq(Key) /\ Len(s.list) \in Nat /\ DOMAIN s.list = 1 .. Len(s.list)
  BY DEF Cache
<1>2. s.list \in Bijection(1 .. Len(s.list), Present(s))
  <2>1. s.list \in [1 .. Len(s.list) -> Present(s)]
    BY <1>1 DEF Names
  <2>2. \A i, j \in 1 .. Len(s.list) : s.list[i] = s.list[j] => i = j
    BY <1>1 DEF Distinct
  <2>3. \A k \in Present(s) : \E i \in 1 .. Len(s.list) : s.list[i] = k
    BY <1>1 DEF Names
  <2>4. s.list \in Injection(1 .. Len(s.list), Present(s))
    BY <2>1, <2>2 DEF Injection, IsInjective
  <2>5. s.list \in Surjection(1 .. Len(s.list), Present(s))
    BY <2>1, <2>3 DEF Surjection
  <2> QED BY <2>4, <2>5 DEF Bijection
<1>3. ExistsBijection(1 .. Len(s.list), Present(s))
  BY <1>2 DEF ExistsBijection
<1> QED BY <1>1, <1>3, FS_CountingElements

(* Deleting a key keeps the list and the entries together.                 *)
LEMMA DeletedFacts ==
  ASSUME NEW s \in Cache, Consistent(s), NEW k \in Key
  PROVE  /\ Deleted(s, k) \in Cache
         /\ Consistent(Deleted(s, k))
         /\ k \notin Present(Deleted(s, k))
         /\ Len(Deleted(s, k).list) =
              IF k \in Present(s) THEN Len(s.list) - 1 ELSE Len(s.list)
<1> DEFINE new == Deleted(s, k)
<1>1. Distinct(s.list) /\ Names(s.list) = Present(s) /\ s.list \in Seq(Key)
      /\ s.items \in [Key -> Item \cup {NoItem}] /\ (MaxItems > 0 => Len(s.list) <= MaxItems)
  BY ConsistentMeans DEF Cache
<1>2. new.items = [s.items EXCEPT ![k] = NoItem] /\ new.list = Without(s.list, k)
  BY DEF Deleted
<1>3. new \in Cache
  BY <1>1, WithoutFacts DEF Deleted, Cache
<1>4. Present(new) = Present(s) \ {k}
  BY <1>1, <1>2 DEF Present
<1>5. Len(s.list) \in Nat
  BY <1>1
<1>0. /\ Without(s.list, k) \in Seq(Key)
      /\ Distinct(Without(s.list, k))
      /\ Names(Without(s.list, k)) = Names(s.list) \ {k}
      /\ Len(Without(s.list, k)) = IF k \in Names(s.list) THEN Len(s.list) - 1 ELSE Len(s.list)
  BY <1>1, WithoutFacts, Zenon
<1>6. /\ Distinct(new.list) /\ Names(new.list) = Present(new)
      /\ Len(new.list) = IF k \in Present(s) THEN Len(s.list) - 1 ELSE Len(s.list)
  BY <1>1, <1>2, <1>4, <1>0
<1>7. Consistent(new)
  <2>1. MaxItems > 0 => Len(new.list) <= MaxItems
    BY <1>1, <1>5, <1>6
  <2> HIDE DEF new
  <2> QED BY <2>1, <1>6, ConsistentMeans
<1> QED BY <1>3, <1>4, <1>6, <1>7

LEMMA PurgedFacts ==
  ASSUME NEW s \in Cache, Consistent(s), NEW k \in Key, NEW time \in Nat
  PROVE  /\ Purged(s, k, time) \in Cache
         /\ Consistent(Purged(s, k, time))
BY DeletedFacts DEF Purged

(* What is used again goes to the front, if it is still there.             *)
LEMMA UsedFacts ==
  ASSUME NEW s \in Cache, Consistent(s), NEW k \in Key, NEW time \in Nat
  PROVE  /\ Used(s, k, time) \in Cache
         /\ Consistent(Used(s, k, time))
<1>1. CASE Expired(s.items[k], time)
  BY <1>1, PurgedFacts DEF Used
<1>2. CASE ~Expired(s.items[k], time)
  <2> DEFINE rest == Without(s.list, k)
             new == [s EXCEPT !.list = PushFront(rest, k)]
  <2>1. Distinct(s.list) /\ Names(s.list) = Present(s) /\ s.list \in Seq(Key)
        /\ (MaxItems > 0 => Len(s.list) <= MaxItems)
    BY ConsistentMeans DEF Cache
  <2>2. k \in Present(s)
    BY <1>2 DEF Expired, Present
  <2>0. /\ Without(s.list, k) \in Seq(Key)
        /\ Distinct(Without(s.list, k))
        /\ Names(Without(s.list, k)) = Names(s.list) \ {k}
        /\ Len(Without(s.list, k)) = IF k \in Names(s.list) THEN Len(s.list) - 1 ELSE Len(s.list)
    BY <2>1, WithoutFacts, Zenon
  <2>3. rest \in Seq(Key) /\ Distinct(rest) /\ Names(rest) = Present(s) \ {k}
        /\ Len(rest) = Len(s.list) - 1
    BY <2>1, <2>2, <2>0
  <2> HIDE DEF rest
  <2>4. PushFront(rest, k) \in Seq(Key) /\ Distinct(PushFront(rest, k))
        /\ Names(PushFront(rest, k)) = Present(s) /\ Len(PushFront(rest, k)) = Len(s.list)
    <3>1. Len(s.list) \in Nat
      BY <2>1
    <3>2. k \notin Names(rest)
      BY <2>3
    <3>3. /\ PushFront(rest, k) \in Seq(Key)
          /\ Distinct(PushFront(rest, k))
          /\ Names(PushFront(rest, k)) = Names(rest) \cup {k}
          /\ Len(PushFront(rest, k)) = Len(rest) + 1
      BY <2>3, <3>2, PushFrontFacts, Zenon
    <3> QED BY <3>1, <3>3, <2>2, <2>3
  <2>5. new \in Cache /\ new.list = PushFront(rest, k) /\ new.items = s.items
    BY <2>4 DEF Cache
  <2>6. Used(s, k, time) = new
    BY <1>2 DEF Used, rest
  <2>7. Present(new) = Present(s)
    BY <2>5 DEF Present
  <2> HIDE DEF new
  <2>8. Consistent(new)
    BY <2>1, <2>4, <2>5, <2>7, ConsistentMeans
  <2> QED BY <2>5, <2>6, <2>8
<1> QED BY <1>1, <1>2

(* Whoever is evicted is in the list.                                      *)
LEMMA VictimListed ==
  ASSUME NEW s \in Cache, s.list # <<>>, NEW time \in Nat
  PROVE  Victim(s, time) \in Names(s.list)
<1> DEFINE expired == {i \in DOMAIN s.list : Expired(s.items[s.list[i]], time)}
           last == CHOOSE i \in expired : \A j \in expired : j <= i
<1>1. s.list \in Seq(Key) /\ Len(s.list) \in Nat /\ DOMAIN s.list = 1 .. Len(s.list)
      /\ Len(s.list) # 0
  BY DEF Cache
<1>2. expired # {} => last \in DOMAIN s.list
  <2>1. expired \in SUBSET (1 .. Len(s.list))
    BY <1>1
  <2>2. expired # {} => \E i \in expired : \A j \in expired : j <= i
    <3> HIDE DEF expired
    <3> QED BY <1>1, <2>1, GreatestElement
  <2> QED BY <2>1, <2>2, <1>1
<1>3. Victim(s, time) = s.list[IF expired # {} THEN last ELSE Len(s.list)]
  BY DEF Victim
<1>4. (IF expired # {} THEN last ELSE Len(s.list)) \in DOMAIN s.list
  <2> HIDE DEF expired, last
  <2> QED BY <1>1, <1>2
<1> HIDE DEF expired, last
<1> QED BY <1>3, <1>4 DEF Names

(* Saving keeps within the limit: a new key takes the place of another     *)
(* when the cache is full.                                                 *)
LEMMA SavedFacts ==
  ASSUME NEW s \in Cache, Consistent(s), NEW k \in Key, NEW time \in Nat,
         NEW item \in Item
  PROVE  /\ Saved(s, k, item, time) \in Cache
         /\ Consistent(Saved(s, k, item, time))
<1> DEFINE room == IF s.items[k] = NoItem /\ Full(s) THEN EvictedOne(s, time) ELSE s
           rest == Without(room.list, k)
           new == Saved(s, k, item, time)
<1>1. /\ room \in Cache /\ Consistent(room)
      /\ k \notin Present(room) /\ MaxItems > 0 => Len(room.list) + 1 <= MaxItems
  <2>1. Names(s.list) = Present(s) /\ Distinct(s.list) /\ Len(s.list) \in Nat
        /\ (MaxItems > 0 => Len(s.list) <= MaxItems) /\ Cardinality(Present(s)) = Len(s.list)
    BY ConsistentMeans, SizeOfList DEF Cache
  <2>2. CASE s.items[k] = NoItem /\ Full(s)
    <3>1. MaxItems > 0 /\ Len(s.list) = MaxItems
      BY <2>1, <2>2 DEF Full
    <3>2. s.list # <<>>
      BY <3>1
    <3>3. Victim(s, time) \in Present(s) /\ Present(s) \subseteq Key
      BY <2>1, <3>2, VictimListed DEF Present
    <3>4. room = Deleted(s, Victim(s, time))
      BY <2>2, <3>2 DEF EvictedOne
    <3>5. Len(room.list) = MaxItems - 1 /\ room \in Cache /\ Consistent(room)
      BY <3>1, <3>3, <3>4, DeletedFacts
    <3> QED BY <3>1, <3>5
  <2>3. CASE s.items[k] = NoItem /\ ~Full(s)
    <3>1. room = s
      BY <2>3
    <3>2. MaxItems > 0 => Len(s.list) + 1 <= MaxItems
      BY <2>1, <2>3 DEF Full
    <3> QED BY <3>1, <3>2
  <2>4. CASE s.items[k] # NoItem
    <3>1. room = s /\ k \in Present(s)
      BY <2>4 DEF Present
    <3> QED BY <3>1
  <2> QED BY <2>2, <2>3, <2>4
<1>2. new = [items |-> [room.items EXCEPT ![k] = item], list |-> PushFront(rest, k)]
  BY DEF Saved
<1> HIDE DEF room
<1>3. Distinct(room.list) /\ Names(room.list) = Present(room) /\ room.list \in Seq(Key)
      /\ room.items \in [Key -> Item \cup {NoItem}] /\ Len(room.list) \in Nat
      /\ (MaxItems > 0 => Len(room.list) <= MaxItems)
  BY <1>1, ConsistentMeans DEF Cache
<1>0. /\ Without(room.list, k) \in Seq(Key)
      /\ Distinct(Without(room.list, k))
      /\ Names(Without(room.list, k)) = Names(room.list) \ {k}
      /\ Len(Without(room.list, k)) = IF k \in Names(room.list) THEN Len(room.list) - 1 ELSE Len(room.list)
  BY <1>3, WithoutFacts, Zenon
<1>4. rest \in Seq(Key) /\ Distinct(rest) /\ Names(rest) = Present(room) \ {k}
      /\ Len(rest) = IF k \in Present(room) THEN Len(room.list) - 1 ELSE Len(room.list)
  BY <1>3, <1>0
<1> HIDE DEF rest
<1>5. PushFront(rest, k) \in Seq(Key) /\ Distinct(PushFront(rest, k))
      /\ Names(PushFront(rest, k)) = Present(room) \cup {k}
      /\ Len(PushFront(rest, k)) = Len(rest) + 1
  BY <1>4, PushFrontFacts
<1>6. new \in Cache /\ new.list = PushFront(rest, k)
      /\ new.items = [room.items EXCEPT ![k] = item]
  BY <1>2, <1>3, <1>5 DEF Cache
<1>7. Present(new) = Present(room) \cup {k}
  BY <1>3, <1>6 DEF Present
<1>8. MaxItems > 0 => Len(new.list) <= MaxItems
  BY <1>1, <1>3, <1>4, <1>5, <1>6
<1> HIDE DEF new
<1>9. Consistent(new)
  BY <1>5, <1>6, <1>7, <1>8, ConsistentMeans
<1> QED BY <1>6, <1>9 DEF new
-----------------------------------------------------------------------------
(* Every call that is pending has keys, times and a value of their types.  *)
LEMMA PendingFacts ==
  ASSUME TypeOK, NEW c \in Caller \cup {Cleaner}, call[c] # NoCall
  PROVE  /\ call[c] \in Pending
         /\ call[c].since \in Nat /\ call[c].keys \subseteq Key /\ call[c].left \subseteq Key
         /\ call[c].value \in Payload /\ call[c].ttl \in Nat
BY DEF TypeOK, Pending

Inv == TypeOK /\ ListMatchesEntries

LEMMA EmptyFacts == Empty \in Cache /\ Consistent(Empty)
<1>1. Empty.items = Nothing /\ Empty.list = <<>>
  BY DEF Empty
<1>2. Listed(Empty) = {} /\ Present(Empty) = {}
  BY <1>1 DEF Listed, Present, Nothing
<1>3. Len(Empty.list) = 0 /\ DOMAIN Empty.list = {}
  BY <1>1
<1>4. Consistent(Empty)
  BY <1>2, <1>3 DEF Consistent
<1>5. Empty \in Cache
  <2>1. <<>> \in Seq(Key)
    OBVIOUS
  <2> QED BY <2>1 DEF Empty, Cache, Nothing
<1> QED BY <1>4, <1>5

(* The types, and the cache being consistent.                              *)
LEMMA InvInit == Init => Inv
<1> SUFFICES ASSUME Init PROVE Inv
  OBVIOUS
<1>1. TypeOK
  BY EmptyFacts DEF Init, TypeOK
<1> QED BY <1>1, EmptyFacts DEF Init, Inv, ListMatchesEntries

(* A step over the keys, given what it does to the cache.                  *)
LEMMA ThroughKeeps ==
  ASSUME Inv, NEW c \in Caller \cup {Cleaner}, call[c] # NoCall,
         NEW k \in call[c].left, NEW new, new \in Cache, Consistent(new),
         Through(c, k, new)
  PROVE  Inv'
<1>1. call' = [call EXCEPT ![c] = IF call[c].left \ {k} = {} THEN NoCall
                                  ELSE [call[c] EXCEPT !.left = call[c].left \ {k}]]
      /\ cache' = new /\ now' = now
  BY DEF Through, Become
<1>2. call[c] \in Pending
  BY PendingFacts DEF Inv
<1>3. [call[c] EXCEPT !.left = call[c].left \ {k}] \in Pending
      /\ [call[c] EXCEPT !.left = call[c].left \ {k}].op = call[c].op
      /\ [call[c] EXCEPT !.left = call[c].left \ {k}].value = call[c].value
  BY <1>2 DEF Pending
<1>4. TypeOK'
  BY <1>1, <1>3 DEF Inv, TypeOK
<1> QED BY <1>1, <1>4 DEF Inv, ListMatchesEntries, Consistent, Listed, Present

LEMMA InvNext == Inv /\ [Next]_vars => Inv'
<1> SUFFICES ASSUME Inv, [Next]_vars PROVE Inv'
  OBVIOUS
<1>0. TypeOK /\ Consistent(cache) /\ cache \in Cache
  BY DEF Inv, TypeOK, ListMatchesEntries
<1>a. ASSUME cache' = cache, TypeOK' PROVE Inv'
  BY <1>0, <1>a DEF Inv, ListMatchesEntries, Consistent, Listed, Present
<1>1. ASSUME NEW c \in Caller, Start(c) PROVE Inv'
  <2>1. PICK m \in Menu[c] :
          call' = [call EXCEPT ![c] =
                     [op |-> m.op, keys |-> m.keys, left |-> m.keys, value |-> m.value,
                      ttl |-> m.ttl, since |-> now, at |-> "lock"]]
    BY <1>1 DEF Start, Become
  <2>2. m \in Request /\ (m.op \in {"add", "subtract"} => m.value \in Number)
    OBVIOUS
  <2>3. [op |-> m.op, keys |-> m.keys, left |-> m.keys, value |-> m.value,
         ttl |-> m.ttl, since |-> now, at |-> "lock"] \in Pending
    BY <2>2, <1>0 DEF Request, Pending, TypeOK
  <2>4. TypeOK'
    BY <1>0, <1>1, <2>1, <2>2, <2>3 DEF Start, TypeOK
  <2> QED BY <1>1, <1>a, <2>4 DEF Start
<1>2. ASSUME NEW c \in Caller, Read(c) PROVE Inv'
  <2>1. call[c] \in Pending
    BY <1>0, <1>2, PendingFacts DEF Read, Asks
  <2>2. \A hits \in SUBSET Key : [call[c] EXCEPT !.left = hits, !.at = "touch"] \in Pending
    BY <2>1 DEF Pending
  <2> DEFINE hits == {k \in call[c].keys : ~Expired(cache.items[k], call[c].since)}
  <2>3. hits \in SUBSET Key
    BY <2>1 DEF Pending
  <2>4. call' = [call EXCEPT ![c] = IF call[c].op = "get" /\ hits # {}
                                    THEN [call[c] EXCEPT !.left = hits, !.at = "touch"]
                                    ELSE NoCall]
    BY <1>2 DEF Read, Become
  <2>5. call[c].op \in {"get", "has"} /\ cache' = cache /\ now' = now
    BY <1>2 DEF Read
  <2> HIDE DEF hits
  <2>6. TypeOK'
    BY <1>0, <2>1, <2>2, <2>3, <2>4, <2>5 DEF TypeOK, Pending
  <2> QED BY <1>a, <2>5, <2>6
<1>3. ASSUME NEW c \in Caller, Clear(c) PROVE Inv'
  <2>1. cache' = Empty /\ now' = now /\ call' = [call EXCEPT ![c] = NoCall]
    BY <1>3 DEF Clear, Unlocked, Become
  <2>2. TypeOK'
    BY <1>0, <2>1, EmptyFacts DEF TypeOK
  <2> QED BY <2>1, <2>2, EmptyFacts DEF Inv, ListMatchesEntries, Consistent, Listed, Present
<1>4. ASSUME NEW c \in Caller, Refuse(c) PROVE Inv'
  <2>1. TypeOK'
    BY <1>0, <1>4 DEF Refuse, Become, TypeOK
  <2> QED BY <1>4, <1>a, <2>1 DEF Refuse
<1>5. ASSUME NEW c \in Caller, Add(c) PROVE Inv'
  <2>1. call[c] # NoCall /\ now' = now /\ call' = [call EXCEPT ![c] = NoCall]
    BY <1>5 DEF Add, Asks, Become
  <2>2. call[c].since \in Nat /\ call[c].keys \subseteq Key
    BY <1>0, <2>1, PendingFacts
  <2>3. CASE UNCHANGED cache
    <3>1. TypeOK'
      BY <1>0, <2>1, <2>3 DEF TypeOK
    <3> QED BY <1>a, <2>3, <3>1
  <2>4. CASE \E k \in call[c].keys, value \in Number :
               cache' = Saved(Purged(cache, k, call[c].since), k,
                          [payload |-> value,
                           expiresAt |-> IF ~Expired(cache.items[k], call[c].since)
                                         THEN cache.items[k].expiresAt ELSE 0],
                          call[c].since)
    <3>1. PICK k \in call[c].keys, value \in Number :
               cache' = Saved(Purged(cache, k, call[c].since), k,
                          [payload |-> value,
                           expiresAt |-> IF ~Expired(cache.items[k], call[c].since)
                                         THEN cache.items[k].expiresAt ELSE 0],
                          call[c].since)
      BY <2>4
    <3> DEFINE item == [payload |-> value,
                        expiresAt |-> IF ~Expired(cache.items[k], call[c].since)
                                      THEN cache.items[k].expiresAt ELSE 0]
    <3>2. k \in Key
      BY <2>2
    <3>3. item \in Item
      <4>1. cache.items[k] \in Item \cup {NoItem}
        BY <1>0, <3>2 DEF Cache
      <4>2. ~Expired(cache.items[k], call[c].since) => cache.items[k] # NoItem
        BY DEF Expired
      <4> QED BY <4>1, <4>2 DEF Item, Payload
    <3> HIDE DEF item
    <3>4. Purged(cache, k, call[c].since) \in Cache
          /\ Consistent(Purged(cache, k, call[c].since))
      BY <1>0, <2>2, <3>2, PurgedFacts
    <3>5. cache' \in Cache /\ Consistent(cache')
      BY <2>2, <3>1, <3>2, <3>3, <3>4, SavedFacts DEF item
    <3>6. TypeOK'
      BY <1>0, <2>1, <3>5 DEF TypeOK
    <3> QED BY <3>5, <3>6 DEF Inv, ListMatchesEntries, Consistent, Listed, Present
  <2> QED BY <1>5, <2>3, <2>4 DEF Add, Unlocked
<1>6. ASSUME NEW c \in Caller, Lock(c) PROVE Inv'
  <2>1. call[c] \in Pending
    BY <1>0, <1>6, PendingFacts DEF Lock, Asks
  <2>2. [call[c] EXCEPT !.at = "keys"] \in Pending
        /\ [call[c] EXCEPT !.at = "keys"].op = call[c].op
        /\ [call[c] EXCEPT !.at = "keys"].value = call[c].value
    BY <2>1 DEF Pending
  <2>3. call[c] # NoCall
    BY <1>6 DEF Lock, Asks
  <2>4. TypeOK'
    BY <1>0, <1>6, <2>2, <2>3 DEF Lock, Become, TypeOK
  <2> QED BY <1>6, <1>a, <2>4 DEF Lock
<1>7. ASSUME NEW c \in Caller, Each(c) PROVE Inv'
  <2>1. call[c] # NoCall
    BY <1>7 DEF Each, Asks
  <2>2. call[c] \in Pending /\ call[c].since \in Nat /\ call[c].left \subseteq Key
        /\ call[c].value \in Payload /\ call[c].ttl \in Nat
    BY <1>0, <2>1, PendingFacts
  <2>3. PICK k \in call[c].left : SetKey(c, k) \/ DeleteKey(c, k) \/ TouchKey(c, k)
    BY <1>7 DEF Each
  <2>4. CASE SetKey(c, k)
    <3> DEFINE item == [payload |-> call[c].value,
                        expiresAt |-> ExpiresAt(call[c].since, call[c].ttl)]
    <3>1. item \in Item
      BY <2>2 DEF Item, ExpiresAt
    <3> HIDE DEF item
    <3>2. Saved(cache, k, item, call[c].since) \in Cache
          /\ Consistent(Saved(cache, k, item, call[c].since))
      BY <1>0, <2>2, <3>1, SavedFacts
    <3>3. Through(c, k, Saved(cache, k, item, call[c].since))
      BY <2>4 DEF SetKey, item
    <3> QED BY <2>1, <3>2, <3>3, ThroughKeeps
  <2>5. CASE DeleteKey(c, k)
    <3>1. Deleted(cache, k) \in Cache /\ Consistent(Deleted(cache, k))
      BY <1>0, <2>2, DeletedFacts
    <3> QED BY <2>1, <2>5, <3>1, ThroughKeeps DEF DeleteKey
  <2>6. CASE TouchKey(c, k)
    <3>1. Used(cache, k, call[c].since) \in Cache /\ Consistent(Used(cache, k, call[c].since))
      BY <1>0, <2>2, UsedFacts
    <3> QED BY <2>1, <2>6, <3>1, ThroughKeeps DEF TouchKey
  <2> QED BY <2>3, <2>4, <2>5, <2>6
<1>8. CASE Cleanup \/ Close
  <2>1. /\ [op |-> "cleanup", keys |-> {}, left |-> {}, value |-> 0,
            ttl |-> 0, since |-> now, at |-> "lock"] \in Pending
        /\ [op |-> "close", keys |-> {}, left |-> {}, value |-> 0,
            ttl |-> 0, since |-> 0, at |-> "closed"] \in Pending
    BY <1>0 DEF Pending, Payload, Number, TypeOK
  <2>2. PICK new \in Pending : new.op \in {"cleanup", "close"}
                             /\ call' = [call EXCEPT ![Cleaner] = new]
    BY <1>8, <2>1 DEF Cleanup, Close, Become
  <2>3. cache' = cache /\ now' = now
    BY <1>8 DEF Cleanup, Close
  <2>4. TypeOK'
    BY <1>0, <2>2, <2>3 DEF TypeOK
  <2> QED BY <1>a, <2>3, <2>4
<1>9. CASE CleanupLock
  <2>1. call[Cleaner] \in Pending /\ Present(cache) \in SUBSET Key
    BY <1>0, <1>9, PendingFacts DEF CleanupLock, Asks, Present
  <2>2. \A left \in SUBSET Key :
          /\ [call[Cleaner] EXCEPT !.left = left, !.at = "keys"] \in Pending
          /\ [call[Cleaner] EXCEPT !.left = left, !.at = "keys"].op = call[Cleaner].op
          /\ [call[Cleaner] EXCEPT !.left = left, !.at = "keys"].value = call[Cleaner].value
    BY <2>1 DEF Pending
  <2>3. call[Cleaner] # NoCall
    BY <1>9 DEF CleanupLock, Asks
  <2>4. TypeOK'
    BY <1>0, <1>9, <2>1, <2>2, <2>3 DEF CleanupLock, Become, TypeOK
  <2> QED BY <1>9, <1>a, <2>4 DEF CleanupLock
<1>10. CASE CleanupEach
  <2>1. call[Cleaner] # NoCall
    BY <1>10 DEF CleanupEach, Asks
  <2>2. PICK k \in call[Cleaner].left :
          Through(Cleaner, k, Purged(cache, k, call[Cleaner].since))
    BY <1>10 DEF CleanupEach, CleanupKey
  <2>3. k \in Key /\ call[Cleaner].since \in Nat
    BY <1>0, <2>1, PendingFacts
  <2>4. Purged(cache, k, call[Cleaner].since) \in Cache
        /\ Consistent(Purged(cache, k, call[Cleaner].since))
    BY <1>0, <2>3, PurgedFacts
  <2> QED BY <2>1, <2>2, <2>4, ThroughKeeps
<1>11. CASE Tick
  <2>1. TypeOK'
    BY <1>0, <1>11 DEF Tick, TypeOK
  <2> QED BY <1>11, <1>a, <2>1 DEF Tick
<1>12. CASE UNCHANGED vars
  <2>1. TypeOK'
    BY <1>0, <1>12 DEF vars, TypeOK
  <2> QED BY <1>12, <1>a, <2>1 DEF vars
<1> QED BY <1>1, <1>2, <1>3, <1>4, <1>5, <1>6, <1>7, <1>8, <1>9, <1>10, <1>11, <1>12 DEF Next

(* The list and the entries of the cache name the same keys, once each,    *)
(* and never more than the limit.                                          *)
THEOREM ListMatchesEntriesHolds == Spec => []ListMatchesEntries
<1>1. Inv => ListMatchesEntries
  BY DEF Inv
<1> QED BY <1>1, InvInit, InvNext, PTL DEF Spec
-----------------------------------------------------------------------------
(* The promise of CacheContract.  What a call has done while it holds the  *)
(* mutex, compared with what was there before.                             *)
PurgedTo(old, new, time) ==
  \A k \in Key : new[k] = old[k] \/ (new[k] = NoItem /\ Expired(old[k], time))

(* The keys in done were stored; what is missing made room.                *)
StoredTo(old, new, done, item) ==
  /\ \A k \in Key : new[k] \in {IF k \in done THEN item ELSE old[k], NoItem}
  /\ done # {} => \E k \in done : new[k] = item
  /\ (\E k \in Key : new[k] = NoItem /\ (old[k] # NoItem \/ k \in done)) =>
       MaxItems > 0 /\ Cardinality({k \in Key : new[k] # NoItem}) = MaxItems

NewItem(q) == [payload |-> q.value, expiresAt |-> ExpiresAt(q.since, q.ttl)]

(* How far call q has come from old to new.                                *)
Advanced(q, old, new) ==
  CASE q.op = "set" -> StoredTo(old, new, q.keys \ q.left, NewItem(q))
    [] q.op = "delete" ->
         \A k \in Key : new[k] = IF k \in q.keys \ q.left THEN NoItem ELSE old[k]
    [] OTHER -> PurgedTo(old, new, q.since)

AsksWell(c, q, time) ==
  q # NoCall =>
    /\ q.since <= time
    /\ q.at = "lock" => q.left = q.keys
    /\ IF c = Cleaner THEN q.op \in {"cleanup", "close"}
       ELSE /\ q.op \in Op /\ q.keys # {} /\ q.left \subseteq q.keys
            /\ q.at = "touch" => q.op = "get" /\ q.left # {}
            /\ q.at = "keys" => q.op \in {"get", "set", "delete"}

AskWell == \A c \in Caller \cup {Cleaner} : AsksWell(c, call[c], now)

Holding ==
  IF holder = NoOne THEN visible = cache.items
  ELSE /\ holder \in Caller \cup {Cleaner}
       /\ call[holder] # NoCall /\ call[holder].at = "keys" /\ call[holder].left # {}
       /\ Advanced(call[holder], visible, cache.items)

Shows ==
  visible \in [Key -> Item \cup {NoItem}] /\ answer = [c \in Caller |-> answer[c]]

Promise == Shows /\ AskWell /\ Holding

(* What the contract knows of a call: nothing once it took effect.         *)
Query(q) ==
  IF q = NoCall \/ q.at = "touch" \/ (q.at = "keys" /\ q.op = "get") THEN NoCall
  ELSE [f \in {"op", "keys", "value", "ttl", "since"} |-> q[f]]

Asked ==
  [c \in Caller |->
     IF call[c] = NoCall \/ Touching(c) THEN NoCall
     ELSE [f \in {"op", "keys", "value", "ttl", "since"} |-> call[c][f]]]
-----------------------------------------------------------------------------
LEMMA DeletedItems ==
  ASSUME NEW s \in Cache, NEW k \in Key
  PROVE  \A j \in Key : Deleted(s, k).items[j] = IF j = k THEN NoItem ELSE s.items[j]
BY DEF Deleted, Cache

LEMMA PurgedItems ==
  ASSUME NEW s \in Cache, NEW k \in Key, NEW time
  PROVE  \A j \in Key : Purged(s, k, time).items[j] =
           IF j = k /\ Expired(s.items[k], time) THEN NoItem ELSE s.items[j]
BY DeletedItems DEF Purged

LEMMA UsedItems ==
  ASSUME NEW s \in Cache, NEW k \in Key, NEW time
  PROVE  \A j \in Key : Used(s, k, time).items[j] =
           IF j = k /\ Expired(s.items[k], time) THEN NoItem ELSE s.items[j]
<1>1. CASE Expired(s.items[k], time)
  BY <1>1, PurgedItems DEF Used
<1>2. CASE ~Expired(s.items[k], time)
  <2>1. Used(s, k, time).items = s.items
    BY <1>2 DEF Used, Cache
  <2> QED BY <1>2, <2>1
<1> QED BY <1>1, <1>2

(* Saving: one other entry makes room at most, and only when that leaves a *)
(* full cache.                                                             *)
LEMMA SavedItems ==
  ASSUME NEW s \in Cache, Consistent(s), NEW k \in Key, NEW time \in Nat, NEW item \in Item
  PROVE  LET new == Saved(s, k, item, time) IN
         /\ new.items[k] = item
         /\ \A j \in Key \ {k} : new.items[j] \in {s.items[j], NoItem}
         /\ (\E j \in Key \ {k} : new.items[j] # s.items[j]) \/ (MaxItems > 0 /\ Full(s)) =>
              MaxItems > 0 /\ Cardinality(Present(new)) = MaxItems
<1> DEFINE room == IF s.items[k] = NoItem /\ Full(s) THEN EvictedOne(s, time) ELSE s
           rest == Without(room.list, k)
           new == Saved(s, k, item, time)
<1>1. /\ Names(s.list) = Present(s) /\ Distinct(s.list) /\ Len(s.list) \in Nat
      /\ (MaxItems > 0 => Len(s.list) <= MaxItems) /\ Cardinality(Present(s)) = Len(s.list)
  BY ConsistentMeans, SizeOfList DEF Cache
<1>2. new = [items |-> [room.items EXCEPT ![k] = item], list |-> PushFront(rest, k)]
  BY DEF Saved
<1>3. /\ room \in Cache /\ Consistent(room)
      /\ \A j \in Key : room.items[j] \in {s.items[j], NoItem}
      /\ s.items[k] = NoItem => room.items[k] = NoItem
      /\ IF s.items[k] = NoItem /\ Full(s) THEN Len(room.list) = MaxItems - 1
         ELSE room = s
  <2>1. CASE s.items[k] = NoItem /\ Full(s)
    <3>1. MaxItems > 0 /\ Len(s.list) = MaxItems
      BY <1>1, <2>1 DEF Full
    <3>2. s.list # <<>>
      BY <3>1
    <3> DEFINE v == Victim(s, time)
    <3>3. v \in Present(s) /\ v \in Key
      BY <1>1, <3>2, VictimListed DEF Present
    <3>4. room = Deleted(s, v)
      BY <2>1, <3>2 DEF EvictedOne
    <3> HIDE DEF v, room
    <3>5. Len(room.list) = MaxItems - 1 /\ room \in Cache /\ Consistent(room)
      BY <3>1, <3>3, <3>4, DeletedFacts
    <3>6. \A j \in Key : room.items[j] = IF j = v THEN NoItem ELSE s.items[j]
      BY <3>3, <3>4, DeletedItems
    <3> QED BY <2>1, <3>5, <3>6
  <2>2. CASE ~(s.items[k] = NoItem /\ Full(s))
    BY <2>2
  <2> QED BY <2>1, <2>2
<1>4. new \in Cache /\ Consistent(new)
  BY SavedFacts
<1> HIDE DEF room
<1>5. new.items[k] = item /\ \A j \in Key \ {k} : new.items[j] = room.items[j]
  BY <1>2, <1>3 DEF Cache
<1>6. Distinct(room.list) /\ Names(room.list) = Present(room) /\ room.list \in Seq(Key)
      /\ Len(room.list) \in Nat
  BY <1>3, ConsistentMeans DEF Cache
<1>7. /\ rest \in Seq(Key) /\ Distinct(rest) /\ Names(rest) = Present(room) \ {k}
      /\ Len(rest) = IF k \in Present(room) THEN Len(room.list) - 1 ELSE Len(room.list)
  <2>1. /\ Without(room.list, k) \in Seq(Key)
        /\ Distinct(Without(room.list, k))
        /\ Names(Without(room.list, k)) = Names(room.list) \ {k}
        /\ Len(Without(room.list, k)) = IF k \in Names(room.list) THEN Len(room.list) - 1 ELSE Len(room.list)
    BY <1>6, WithoutFacts, Zenon
  <2> QED BY <1>6, <2>1
<1>8. new.list = PushFront(rest, k)
  BY <1>2
<1> HIDE DEF rest
<1>9. Len(new.list) = Len(rest) + 1
  BY <1>7, <1>8, PushFrontFacts
<1> HIDE DEF new
<1>10. Cardinality(Present(new)) = Len(new.list)
  BY <1>4, ConsistentMeans, SizeOfList
<1>11. Full(s) => MaxItems > 0 /\ Len(s.list) = MaxItems
  BY <1>1 DEF Full
<1>12. k \in Present(room) <=> room.items[k] # NoItem
  BY DEF Present
<1>13. Full(s) => Len(new.list) = MaxItems
  <2>1. CASE s.items[k] = NoItem
    BY <1>3, <1>7, <1>9, <1>11, <1>12, <2>1
  <2>2. CASE s.items[k] # NoItem
    BY <1>3, <1>7, <1>9, <1>11, <1>12, <2>2
  <2> QED BY <2>1, <2>2
<1>14. ASSUME NEW j \in Key \ {k}, new.items[j] # s.items[j] PROVE Full(s)
  BY <1>3, <1>5, <1>14
<1>15. \A j \in Key \ {k} : new.items[j] \in {s.items[j], NoItem}
  BY <1>3, <1>5
<1> QED BY <1>5, <1>10, <1>11, <1>13, <1>14, <1>15 DEF new
-----------------------------------------------------------------------------
LEMMA AskedStep ==
  ASSUME TypeOK, NEW c \in Caller \cup {Cleaner}, NEW q, call' = [call EXCEPT ![c] = q]
  PROVE  /\ c \in Caller => Asked' = [Asked EXCEPT ![c] = Query(q)]
         /\ c = Cleaner => Asked' = Asked
<1>1. DOMAIN call = Caller \cup {Cleaner} /\ Cleaner \notin Caller
  BY DEF TypeOK
<1>2. Asked = [d \in Caller |-> Query(call[d])]
  BY DEF Asked, Query, Touching
<1>3. Asked' = [d \in Caller |-> Query(call'[d])]
  BY DEF Asked, Query, Touching
<1>4. \A d \in Caller : d # c => call'[d] = call[d]
  BY <1>1
<1>5. call'[c] = q
  BY <1>1
<1> QED BY <1>1, <1>2, <1>3, <1>4, <1>5

LEMMA AskedIs ==
  ASSUME TypeOK, NEW c \in Caller
  PROVE  Asked[c] = Query(call[c]) /\ DOMAIN Asked = Caller
BY DEF Asked, Query, Touching

LEMMA QueryIs ==
  ASSUME NEW q \in Pending, q.op \in Op, q.at \in {"lock", "keys"}, q.at = "keys" => q.op # "get"
  PROVE  /\ Query(q) # NoCall
         /\ Query(q).op = q.op /\ Query(q).keys = q.keys /\ Query(q).value = q.value
         /\ Query(q).ttl = q.ttl /\ Query(q).since = q.since
<1> DEFINE r == [f \in {"op", "keys", "value", "ttl", "since"} |-> q[f]]
<1>1. Query(q) = r
  <2>1. q # NoCall
    BY Constants
  <2> QED BY <2>1 DEF Query
<1>2. r.op = q.op /\ r.keys = q.keys /\ r.value = q.value /\ r.ttl = q.ttl /\ r.since = q.since
  OBVIOUS
<1>3. r = [op |-> q.op, keys |-> q.keys, value |-> q.value, ttl |-> q.ttl, since |-> q.since]
  OBVIOUS
<1>4. r \in Question
  <2>1. q.op \in Op /\ q.keys \in SUBSET Key /\ q.value \in Payload /\ q.ttl \in Nat /\ q.since \in Nat
    BY DEF Pending
  <2> HIDE DEF r
  <2> QED BY <1>3, <2>1 DEF Question
<1> HIDE DEF r
<1>5. r # NoCall
  BY <1>4, Constants
<1> QED BY <1>1, <1>2, <1>5

LEMMA AskStep ==
  ASSUME Inv, AskWell, NEW c \in Caller \cup {Cleaner}, NEW q, AsksWell(c, q, now),
         call' = [call EXCEPT ![c] = q], now' = now
  PROVE  AskWell'
<1>1. DOMAIN call = Caller \cup {Cleaner}
  BY DEF Inv, TypeOK
<1>2. ASSUME NEW d \in Caller \cup {Cleaner} PROVE AsksWell(d, call'[d], now')
  <2>1. CASE d = c
    BY <1>1, <2>1
  <2>2. CASE d # c
    <3>1. call'[d] = call[d]
      BY <1>1, <2>2
    <3> QED BY <3>1 DEF AskWell
  <2> QED BY <2>1, <2>2
<1> QED BY <1>2 DEF AskWell

LEMMA HoldingStays ==
  ASSUME Inv, Holding, NEW c \in Caller \cup {Cleaner}, NEW q,
         call[c] = NoCall \/ call[c].at # "keys",
         call' = [call EXCEPT ![c] = q], UNCHANGED <<cache, visible, holder>>
  PROVE  Holding'
<1>1. CASE holder = NoOne
  BY <1>1 DEF Holding
<1>2. CASE holder # NoOne
  <2>1. call'[holder] = call[holder]
    BY <1>2 DEF Holding, Inv, TypeOK
  <2> QED BY <1>2, <2>1 DEF Holding
<1> QED BY <1>1, <1>2

LEMMA ShowsStay ==
  ASSUME Shows, visible' = visible, NEW c \in Caller, NEW what,
         answer' = [answer EXCEPT ![c] = what] \/ answer' = answer
  PROVE  Shows'
BY DEF Shows
-----------------------------------------------------------------------------
LEMMA StartAsks ==
  ASSUME Inv, Promise, NEW c \in Caller, Start(c)
  PROVE  Promise' /\ Contract!Ask(c)
<1>1. PICK m \in Menu[c] :
        call' = [call EXCEPT ![c] =
                   [op |-> m.op, keys |-> m.keys, left |-> m.keys, value |-> m.value,
                    ttl |-> m.ttl, since |-> now, at |-> "lock"]]
  BY DEF Start, Become
<1> DEFINE q == [op |-> m.op, keys |-> m.keys, left |-> m.keys, value |-> m.value,
                 ttl |-> m.ttl, since |-> now, at |-> "lock"]
<1>2. m \in Request /\ m.keys # {} /\ now \in Nat
  BY Constants DEF Inv, TypeOK
<1>3. q \in Pending /\ q.op \in Op
  BY <1>2 DEF Request, Pending
<1>4. AsksWell(c, q, now)
  BY <1>2, <1>3 DEF AsksWell
<1>5. q.at = "lock" /\ q.since = now
  OBVIOUS
<1>6. call' = [call EXCEPT ![c] = q]
  BY <1>1
<1> HIDE DEF q
<1>7. /\ call[c] = NoCall /\ UNCHANGED <<cache, holder, now, visible>>
      /\ answer' = [answer EXCEPT ![c] = NoCall]
  BY DEF Start, Return
<1>8. Promise'
  BY <1>4, <1>6, <1>7, AskStep, HoldingStays, ShowsStay DEF Promise
<1>9. Asked[c] = NoCall /\ Asked' = [Asked EXCEPT ![c] = Query(q)] /\ DOMAIN Asked = Caller
      /\ Query(q) # NoCall /\ Query(q).since = now
  <2>1. Asked[c] = NoCall /\ DOMAIN Asked = Caller
    BY <1>7, AskedIs DEF Inv, Query
  <2>2. Asked' = [Asked EXCEPT ![c] = Query(q)]
    BY <1>6, AskedStep DEF Inv
  <2>3. Query(q) # NoCall /\ Query(q).since = now
    BY <1>3, <1>5, QueryIs
  <2> QED BY <2>1, <2>2, <2>3
<1>10. /\ Asked'[c] # NoCall /\ Asked'[c].since = now
       /\ \A other \in Caller \ {c} : Asked'[other] = Asked[other]
  BY <1>9
<1>11. answer'[c] = NoCall /\ \A other \in Caller \ {c} : answer'[other] = answer[other]
  BY <1>7 DEF Promise, Shows
<1> QED BY <1>7, <1>8, <1>9, <1>10, <1>11 DEF Asked, Contract!Ask

LEMMA ReadReads ==
  ASSUME Inv, Promise, NEW c \in Caller, Read(c)
  PROVE  Promise' /\ Contract!Read(c)
<1> DEFINE q == call[c]
           hits == {k \in q.keys : ~Expired(cache.items[k], q.since)}
           next == IF q.op = "get" /\ hits # {}
                   THEN [q EXCEPT !.left = hits, !.at = "touch"] ELSE NoCall
           found == [k \in q.keys |-> IF k \in hits THEN cache.items[k].payload ELSE Miss]
<1>1. /\ q # NoCall /\ q.at = "lock" /\ q.op \in {"get", "has"} /\ holder = NoOne
      /\ answer' = [answer EXCEPT ![c] = found] /\ call' = [call EXCEPT ![c] = next]
      /\ UNCHANGED <<cache, holder, now, visible>>
  BY DEF Read, Asks, Return, Become
<1>2. q \in Pending /\ q.keys \subseteq Key /\ AsksWell(c, q, now) /\ q.op \in Op
  <2>1. q \in Pending /\ q.keys \subseteq Key
    BY <1>1, PendingFacts DEF Inv
  <2> QED BY <1>1, <2>1 DEF Promise, AskWell, Op
<1>3. visible = cache.items
  BY <1>1 DEF Promise, Holding
<1>4. found = [k \in q.keys |-> IF Contract!Live(visible[k], q.since) THEN visible[k].payload ELSE Miss]
  <2>1. ASSUME NEW k \in q.keys PROVE Expired(cache.items[k], q.since) <=> ~Contract!Live(visible[k], q.since)
    <3>1. visible[k] \in Item \cup {NoItem}
      BY <1>2 DEF Promise, Shows
    <3>2. visible[k] # NoItem => visible[k].expiresAt \in Nat
      BY <3>1 DEF Item
    <3>3. q.since \in Nat
      BY <1>2 DEF Pending
    <3> QED BY <1>3, <3>2, <3>3 DEF Expired, Contract!Live
  <2> QED BY <1>3, <2>1
<1>5. AsksWell(c, next, now) /\ Query(next) = NoCall
  <2> DEFINE touching == [q EXCEPT !.left = hits, !.at = "touch"]
  <2>1. touching.at = "touch" /\ touching.left = hits /\ touching.op = q.op
        /\ touching.keys = q.keys /\ touching.since = q.since
    BY <1>2 DEF Pending
  <2>2. hits \subseteq q.keys
    OBVIOUS
  <2> HIDE DEF hits, touching
  <2>3. Query(touching) = NoCall
    BY <2>1 DEF Query
  <2>4. q.op = "get" /\ hits # {} => AsksWell(c, touching, now)
    BY <1>1, <1>2, <2>1, <2>2, Constants DEF AsksWell
  <2> QED BY <2>3, <2>4 DEF touching, AsksWell, Query
<1> HIDE DEF next, hits, found
<1>6. Promise'
  BY <1>1, <1>5, AskStep, HoldingStays, ShowsStay DEF Promise
<1>7. /\ Asked[c] = Query(q) /\ Asked' = [Asked EXCEPT ![c] = NoCall]
      /\ Query(q) # NoCall /\ Query(q).op = q.op /\ Query(q).keys = q.keys /\ Query(q).since = q.since
  BY <1>1, <1>2, <1>5, AskedIs, AskedStep, QueryIs DEF Inv
<1>8. /\ Asked[c] # NoCall /\ Asked[c].op \in {"get", "has"}
      /\ Asked' = [Asked EXCEPT ![c] = NoCall]
      /\ answer' = [answer EXCEPT ![c] =
           [k \in Asked[c].keys |-> IF Contract!Live(visible[k], Asked[c].since)
                                    THEN visible[k].payload ELSE Miss]]
  BY <1>1, <1>4, <1>7
<1> QED BY <1>1, <1>6, <1>8, Zenon DEF Asked, Contract!Read, Contract!Asks, Contract!Reply

(* A call that ends in the one step in which it has the mutex.             *)
LEMMA EndsAtOnce ==
  ASSUME Inv, Promise, NEW c \in Caller, holder = NoOne, UNCHANGED <<holder, now>>,
         call' = [call EXCEPT ![c] = NoCall], NEW what, answer' = [answer EXCEPT ![c] = what],
         visible' = cache'.items, visible' \in [Key -> Item \cup {NoItem}]
  PROVE  Promise' /\ Asked' = [Asked EXCEPT ![c] = NoCall]
<1>1. AsksWell(c, NoCall, now) /\ Query(NoCall) = NoCall
  BY DEF AsksWell, Query
<1>2. AskWell'
  BY <1>1, AskStep DEF Promise
<1>3. Asked' = [Asked EXCEPT ![c] = NoCall]
  BY <1>1, AskedStep DEF Inv
<1>4. Holding'
  BY DEF Holding
<1>5. Shows'
  BY DEF Promise, Shows
<1> QED BY <1>2, <1>3, <1>4, <1>5 DEF Promise

(* What the contract knows of a call at "lock", or at its keys.            *)
LEMMA Known ==
  ASSUME Inv, Promise, NEW c \in Caller, call[c] # NoCall, call[c].at \in {"lock", "keys"},
         call[c].at = "keys" => call[c].op # "get"
  PROVE  /\ Asked[c] # NoCall
         /\ Asked[c].op = call[c].op /\ Asked[c].keys = call[c].keys
         /\ Asked[c].value = call[c].value /\ Asked[c].ttl = call[c].ttl
         /\ Asked[c].since = call[c].since
<1>1. call[c] \in Pending
  BY PendingFacts DEF Inv
<1>2. call[c].op \in Op
  BY Constants DEF Promise, AskWell, AsksWell
<1> QED BY <1>1, <1>2, AskedIs, QueryIs DEF Inv

LEMMA ClearClears ==
  ASSUME Inv, Promise, NEW c \in Caller, Clear(c)
  PROVE  Promise' /\ Contract!Delete(c)
<1>1. /\ call[c] # NoCall /\ call[c].at = "lock" /\ call[c].op = "clear"
      /\ holder = NoOne /\ UNCHANGED <<holder, now>> /\ visible' = Empty.items /\ cache' = Empty
      /\ call' = [call EXCEPT ![c] = NoCall] /\ answer' = [answer EXCEPT ![c] = Done]
  BY DEF Clear, Asks, Unlocked, Become, Return
<1>2. visible' = [k \in Key |-> NoItem]
  BY <1>1 DEF Empty, Nothing
<1>3. visible' \in [Key -> Item \cup {NoItem}]
  BY <1>2
<1>4. Promise' /\ Asked' = [Asked EXCEPT ![c] = NoCall]
  BY <1>1, <1>3, EndsAtOnce
<1>5. Asked[c] # NoCall /\ Asked[c].op = "clear"
  BY <1>1, Known
<1>6. visible' = [k \in Key |-> IF k \in Asked[c].keys \/ Asked[c].op = "clear" THEN NoItem ELSE visible[k]]
  BY <1>2, <1>5
<1>7. Asked[c].op \in {"delete", "clear"} /\ now' = now
  BY <1>1, <1>5
<1> QED BY <1>1, <1>4, <1>5, <1>6, <1>7, Zenon
        DEF Asked, Contract!Delete, Contract!Asks, Contract!Reply

LEMMA LockStays ==
  ASSUME Inv, Promise, NEW c \in Caller, Lock(c)
  PROVE  Promise' /\ Asked' = Asked /\ UNCHANGED <<visible, answer, now>>
<1> DEFINE q == call[c]
           new == [q EXCEPT !.at = "keys"]
<1>1. /\ q.at = "touch" \/ (q.at = "lock" /\ q.op \in {"set", "delete"})
      /\ holder = NoOne /\ holder' = c /\ call' = [call EXCEPT ![c] = new]
      /\ UNCHANGED <<cache, answer, now, visible>>
  BY DEF Lock, Asks, Become
<1>0. q # NoCall
  BY DEF Lock, Asks
<1>2. q \in Pending /\ AsksWell(c, q, now) /\ c # Cleaner /\ c # NoOne /\ DOMAIN call = Caller \cup {Cleaner}
  <2>1. q \in Pending
    BY <1>0, PendingFacts DEF Inv
  <2> QED BY <2>1, Constants DEF Promise, AskWell, Inv, TypeOK
<1>3. /\ new.at = "keys" /\ new.left = q.left /\ new.op = q.op /\ new.keys = q.keys
      /\ new.since = q.since /\ new.value = q.value /\ new.ttl = q.ttl /\ new \in Pending
  BY <1>2 DEF Pending
<1> HIDE DEF new
<1>4. AsksWell(c, new, now) /\ new.left # {} /\ new # NoCall
  BY <1>0, <1>1, <1>2, <1>3, Constants DEF AsksWell
<1>5. AskWell'
  BY <1>1, <1>4, AskStep DEF Promise
<1>6. visible = cache.items
  BY <1>1 DEF Promise, Holding
<1>7. Advanced(new, visible, cache.items)
  <2>1. q.at = "lock" => new.keys \ new.left = {}
    BY <1>0, <1>2, <1>3 DEF AsksWell
  <2>2. q.at = "touch" => new.op = "get"
    BY <1>0, <1>2, <1>3 DEF AsksWell
  <2>3. CASE new.op = "get"
    BY <1>6, <2>3 DEF Advanced, PurgedTo
  <2>4. CASE new.op = "set"
    BY <1>1, <1>3, <1>6, <2>1, <2>2, <2>4 DEF Advanced, StoredTo
  <2>5. CASE new.op = "delete"
    BY <1>1, <1>3, <1>6, <2>1, <2>2, <2>5 DEF Advanced
  <2> QED BY <1>1, <1>3, <2>2, <2>3, <2>4, <2>5
<1>8. Holding'
  <2>1. call'[c] = new
    BY <1>1, <1>2
  <2> QED BY <1>1, <1>2, <1>3, <1>4, <1>7, <2>1 DEF Holding
<1>9. Query(new) = Query(q)
  <2>1. CASE q.at = "touch"
    <3>1. new.op = "get"
      BY <1>0, <1>2, <1>3, <2>1 DEF AsksWell
    <3> QED BY <1>3, <2>1, <3>1 DEF Query
  <2>2. CASE q.at = "lock" /\ q.op \in {"set", "delete"}
    BY <1>0, <1>3, <1>4, <2>2 DEF Query
  <2> QED BY <1>1, <2>1, <2>2
<1>10. Asked' = Asked
  <2>1. Asked' = [Asked EXCEPT ![c] = Query(new)]
    BY <1>1, AskedStep, Zenon DEF Inv
  <2>2. Asked[c] = Query(q)
    BY AskedIs, Zenon DEF Inv
  <2>3. Asked = [d \in Caller |-> Asked[d]]
    BY DEF Asked
  <2> QED BY <1>9, <2>1, <2>2, <2>3
<1> QED BY <1>1, <1>5, <1>8, <1>10 DEF Promise, Shows
-----------------------------------------------------------------------------
LEMMA WithinLimit ==
  ASSUME NEW s \in Cache, Consistent(s)
  PROVE  MaxItems > 0 => Cardinality({k \in Key : s.items[k] # NoItem}) <= MaxItems
<1>1. Cardinality(Present(s)) = Len(s.list) /\ (MaxItems > 0 => Len(s.list) <= MaxItems)
  BY ConsistentMeans, SizeOfList
<1> QED BY <1>1 DEF Present

LEMMA SameSize == ASSUME NEW S PROVE Contract!Cardinality(S) = Cardinality(S)
BY Zenon DEF Contract!Cardinality, Cardinality

LEMMA Puts ==
  ASSUME NEW keys \in SUBSET Key, keys # {}, NEW item, StoredTo(visible, visible', keys, item),
         MaxItems > 0 => Cardinality({k \in Key : visible'[k] # NoItem}) <= MaxItems
  PROVE  Contract!Put(keys, item)
<1> DEFINE dropped == {k \in Key : visible'[k] = NoItem /\ (visible[k] # NoItem \/ k \in keys)}
<1>1. \A k \in Key \ dropped : visible'[k] = IF k \in keys THEN item ELSE visible[k]
  BY DEF StoredTo
<1>2. \E k \in keys : visible'[k] = item
  BY DEF StoredTo
<1>3. dropped # {} => Cardinality({k \in Key : visible'[k] # NoItem}) = MaxItems
  BY DEF StoredTo
<1>4. Contract!Present(visible') = {k \in Key : visible'[k] # NoItem}
  BY DEF Contract!Present
<1>5. /\ dropped # {} => Cardinality(Contract!Present(visible')) = MaxItems
      /\ MaxItems > 0 => Cardinality(Contract!Present(visible')) <= MaxItems
  BY <1>3, <1>4
<1>6. Contract!Cardinality(Contract!Present(visible')) = Cardinality(Contract!Present(visible'))
  BY SameSize
<1>7. /\ dropped # {} => Contract!Cardinality(Contract!Present(visible')) = MaxItems
      /\ MaxItems > 0 => Contract!Cardinality(Contract!Present(visible')) <= MaxItems
  BY <1>5, <1>6
<1> QED BY <1>1, <1>2, <1>7, Zenon DEF Contract!Put

LEMMA SetAdvances ==
  ASSUME cache \in Cache, Consistent(cache), NEW old, NEW done, NEW item \in Item,
         StoredTo(old, cache.items, done, item),
         NEW k \in Key, NEW time \in Nat
  PROVE  StoredTo(old, Saved(cache, k, item, time).items, done \cup {k}, item)
<1> DEFINE new == Saved(cache, k, item, time)
<1>1. /\ new.items[k] = item
      /\ \A j \in Key \ {k} : new.items[j] \in {cache.items[j], NoItem}
      /\ (\E j \in Key \ {k} : new.items[j] # cache.items[j]) \/ (MaxItems > 0 /\ Full(cache)) =>
           MaxItems > 0 /\ Cardinality(Present(new)) = MaxItems
  BY SavedItems
<1>2. Present(new) = {j \in Key : new.items[j] # NoItem}
      /\ Present(cache) = {j \in Key : cache.items[j] # NoItem}
  BY DEF Present
<1> HIDE DEF new
<1>3. item # NoItem
  BY Constants
<1>4. \A j \in Key : new.items[j] \in {IF j \in done \cup {k} THEN item ELSE old[j], NoItem}
  <2>1. ASSUME NEW j \in Key PROVE new.items[j] \in {IF j \in done \cup {k} THEN item ELSE old[j], NoItem}
    <3>1. CASE j = k
      BY <1>1, <3>1
    <3>2. CASE j # k
      <4>1. cache.items[j] \in {IF j \in done THEN item ELSE old[j], NoItem}
        BY DEF StoredTo
      <4> QED BY <1>1, <3>2, <4>1
    <3> QED BY <3>1, <3>2
  <2> QED BY <2>1
<1>5. ASSUME NEW j \in Key, new.items[j] = NoItem, old[j] # NoItem \/ j \in done \cup {k}
      PROVE  MaxItems > 0 /\ Cardinality(Present(new)) = MaxItems
  <2>1. j # k
    BY <1>1, <1>3, <1>5
  <2>2. CASE cache.items[j] # NoItem
    BY <1>1, <1>5, <2>1, <2>2
  <2>3. CASE cache.items[j] = NoItem
    <3>1. MaxItems > 0 /\ Cardinality(Present(cache)) = MaxItems
      BY <1>2, <1>5, <2>1, <2>3 DEF StoredTo
    <3>2. Full(cache)
      BY <3>1 DEF Full
    <3> QED BY <1>1, <3>1, <3>2
  <2> QED BY <2>2, <2>3
<1>6. \E j \in done \cup {k} : new.items[j] = item
  BY <1>1
<1> QED BY <1>2, <1>4, <1>5, <1>6 DEF StoredTo, new

LEMMA PurgeAdvances ==
  ASSUME NEW old, NEW time, NEW s \in Cache, NEW t \in Cache, NEW k \in Key,
         PurgedTo(old, s.items, time),
         \A j \in Key : t.items[j] = IF j = k /\ Expired(s.items[k], time) THEN NoItem ELSE s.items[j]
  PROVE  PurgedTo(old, t.items, time)
BY DEF PurgedTo, Expired

LEMMA RefuseRefuses ==
  ASSUME Inv, Promise, NEW c \in Caller, Refuse(c)
  PROVE  Promise' /\ Contract!Add(c)
<1> DEFINE q == call[c]
<1>1. /\ q # NoCall /\ q.at = "lock" /\ q.op = "subtract" /\ -q.value \notin Number
      /\ call' = [call EXCEPT ![c] = NoCall] /\ answer' = [answer EXCEPT ![c] = Refused]
      /\ UNCHANGED <<cache, holder, now, visible>>
  BY DEF Refuse, Asks, Become, Return
<1>2. AsksWell(c, NoCall, now) /\ Query(NoCall) = NoCall
  BY DEF AsksWell, Query
<1>3. Promise'
  BY <1>1, <1>2, AskStep, HoldingStays, ShowsStay DEF Promise
<1>4. Asked' = [Asked EXCEPT ![c] = NoCall]
  BY <1>1, <1>2, AskedStep DEF Inv
<1>5. Asked[c] # NoCall /\ Asked[c].op = q.op /\ Asked[c].keys = q.keys /\ Asked[c].value = q.value
  BY <1>1, Known
<1>6. q.keys # {}
  BY <1>1, Constants DEF Promise, AskWell, AsksWell
<1>7. Asked[c].op \in {"add", "subtract"} /\ Asked[c].op = "subtract" /\ Asked[c].op # "add"
      /\ -Asked[c].value \notin Contract!Number
      /\ Asked' = [Asked EXCEPT ![c] = NoCall] /\ answer' = [answer EXCEPT ![c] = Refused]
      /\ now' = now /\ visible' = visible /\ Asked[c] # NoCall
  BY <1>1, <1>4, <1>5 DEF Contract!Number, Number
<1>8. PICK k \in Asked[c].keys : TRUE
  BY <1>5, <1>6
<1> HIDE DEF q
<1> QED BY <1>3, <1>7, <1>8, Zenon DEF Asked, Contract!Add, Contract!Asks, Contract!Reply

LEMMA AddAdds ==
  ASSUME Inv, Promise, NEW c \in Caller, Add(c)
  PROVE  Promise' /\ Contract!Add(c)
<1> DEFINE q == call[c]
           delta == IF q.op = "add" THEN q.value ELSE -q.value
<1>1. /\ q # NoCall /\ q.at = "lock" /\ q.op \in {"add", "subtract"}
      /\ (q.op = "subtract" => -q.value \in Number)
      /\ call' = [call EXCEPT ![c] = NoCall] /\ now' = now
  BY DEF Add, Asks, Become
<1>2. q \in Pending /\ q.keys \subseteq Key /\ q.since \in Nat /\ q.value \in Number
  BY <1>1, PendingFacts DEF Inv, TypeOK
<1>3. PICK k \in q.keys :
        LET item == cache.items[k]
            live == ~Expired(item, q.since)
            value == (IF live THEN item.payload ELSE 0) + delta
        IN IF (live => item.payload # Word) /\ value \in Number
           THEN /\ Unlocked(Saved(Purged(cache, k, q.since), k,
                                  [payload |-> value,
                                   expiresAt |-> IF live THEN item.expiresAt ELSE 0],
                                  q.since))
                /\ Return(c, value)
           ELSE /\ holder = NoOne /\ UNCHANGED <<cache, holder, visible>>
                /\ Return(c, Refused)
  BY Zenon DEF Add
<1> DEFINE live == ~Expired(cache.items[k], q.since)
           value == (IF live THEN cache.items[k].payload ELSE 0) + delta
           item == [payload |-> value, expiresAt |-> IF live THEN cache.items[k].expiresAt ELSE 0]
           fits == (live => cache.items[k].payload # Word) /\ value \in Number
           new == Saved(Purged(cache, k, q.since), k, item, q.since)
<1>4. /\ holder = NoOne /\ holder' = holder /\ k \in Key
      /\ IF fits THEN /\ cache' = new /\ visible' = new.items
                      /\ answer' = [answer EXCEPT ![c] = value]
         ELSE /\ UNCHANGED <<cache, visible>>
              /\ answer' = [answer EXCEPT ![c] = Refused]
  BY <1>2, <1>3 DEF Unlocked, Return
<1>5. visible = cache.items /\ visible[k] \in Item \cup {NoItem} /\ cache \in Cache /\ Consistent(cache)
      /\ visible \in [Key -> Item \cup {NoItem}]
  BY <1>4 DEF Promise, Holding, Shows, Inv, TypeOK, ListMatchesEntries
<1>6. live <=> Contract!Live(visible[k], q.since)
  <2>1. visible[k] # NoItem => visible[k].expiresAt \in Nat
    BY <1>5 DEF Item
  <2> QED BY <1>2, <1>5, <2>1 DEF Expired, Contract!Live
<1>7. live => cache.items[k] \in Item /\ cache.items[k].expiresAt \in Nat
  <2>1. live => cache.items[k] \in Item
    BY <1>5 DEF Expired
  <2> QED BY <2>1 DEF Item
<1>8. fits => item \in Item
  BY <1>7 DEF Item, Payload
<1>9. delta \in Number
  BY <1>1, <1>2
<1> HIDE DEF live, value, item, fits, delta
<1>10. Asked[c] # NoCall /\ Asked[c].op = q.op /\ Asked[c].keys = q.keys
       /\ Asked[c].value = q.value /\ Asked[c].since = q.since
  BY <1>1, Known
<1>11. CASE fits
  <2>1. Purged(cache, k, q.since) \in Cache /\ Consistent(Purged(cache, k, q.since))
    BY <1>2, <1>4, <1>5, PurgedFacts
  <2>2. new \in Cache /\ Consistent(new)
    BY <1>2, <1>4, <1>8, <1>11, <2>1, SavedFacts
  <2>3. \A j \in Key \ {k} : Purged(cache, k, q.since).items[j] = cache.items[j]
    BY <1>4, <1>5, PurgedItems
  <2>4. /\ new.items[k] = item
        /\ \A j \in Key \ {k} : new.items[j] \in {cache.items[j], NoItem}
        /\ (\E j \in Key \ {k} : new.items[j] # cache.items[j]) =>
             MaxItems > 0 /\ Cardinality(Present(new)) = MaxItems
    <3> DEFINE s == Purged(cache, k, q.since)
    <3> HIDE DEF s
    <3>1. /\ Saved(s, k, item, q.since).items[k] = item
          /\ \A j \in Key \ {k} : Saved(s, k, item, q.since).items[j] \in {s.items[j], NoItem}
          /\ (\E j \in Key \ {k} : Saved(s, k, item, q.since).items[j] # s.items[j]) =>
               MaxItems > 0 /\ Cardinality(Present(Saved(s, k, item, q.since))) = MaxItems
      BY <1>2, <1>4, <1>8, <1>11, <2>1, SavedItems DEF s
    <3>2. new = Saved(s, k, item, q.since)
      BY DEF s
    <3> HIDE DEF new
    <3> QED BY <2>3, <3>1, <3>2 DEF s
  <2> HIDE DEF new
  <2>5. item # NoItem /\ Present(new) = {j \in Key : new.items[j] # NoItem}
    BY <1>8, <1>11, Constants DEF Present
  <2>6. StoredTo(visible, visible', {k}, item)
    BY <1>4, <1>5, <1>11, <2>4, <2>5 DEF StoredTo
  <2>7. visible' \in [Key -> Item \cup {NoItem}]
    BY <1>4, <1>11, <2>2 DEF Cache
  <2>8. MaxItems > 0 => Cardinality({j \in Key : visible'[j] # NoItem}) <= MaxItems
    BY <1>4, <1>11, <2>2, WithinLimit
  <2>9. Contract!Put({k}, item)
    BY <1>4, <2>6, <2>8, Puts
  <2>10. Promise' /\ Asked' = [Asked EXCEPT ![c] = NoCall]
    BY <1>1, <1>4, <1>11, <2>7, EndsAtOnce
  <2>11. answer' = [answer EXCEPT ![c] = value] /\ now' = now
    BY <1>1, <1>4, <1>11
  <2>12. /\ k \in Asked[c].keys /\ Asked[c].op \in {"add", "subtract"} /\ Asked[c] # NoCall
         /\ live <=> Contract!Live(visible[k], Asked[c].since)
         /\ delta = IF Asked[c].op = "add" THEN Asked[c].value ELSE -Asked[c].value
         /\ value = (IF live THEN visible[k].payload ELSE 0) + delta
         /\ item = [payload |-> value, expiresAt |-> IF live THEN visible[k].expiresAt ELSE 0]
         /\ delta \in Contract!Number /\ (live => visible[k].payload # Word)
         /\ value \in Contract!Number
    BY <1>1, <1>3, <1>5, <1>6, <1>9, <1>10, <1>11
       DEF delta, value, item, fits, Contract!Number, Number
  <2> QED BY <2>9, <2>10, <2>11, <2>12 DEF Asked, Contract!Add, Contract!Asks, Contract!Reply
<1>12. CASE ~fits
  <2>1. Promise' /\ Asked' = [Asked EXCEPT ![c] = NoCall]
    BY <1>1, <1>4, <1>5, <1>12, EndsAtOnce
  <2>2. answer' = [answer EXCEPT ![c] = Refused] /\ now' = now /\ visible' = visible
    BY <1>1, <1>4, <1>12
  <2>3. /\ k \in Asked[c].keys /\ Asked[c].op \in {"add", "subtract"} /\ Asked[c] # NoCall
        /\ live <=> Contract!Live(visible[k], Asked[c].since)
        /\ delta = IF Asked[c].op = "add" THEN Asked[c].value ELSE -Asked[c].value
        /\ value = (IF live THEN visible[k].payload ELSE 0) + delta
        /\ ~((live => visible[k].payload # Word) /\ value \in Contract!Number)
    BY <1>1, <1>3, <1>5, <1>6, <1>10, <1>12 DEF delta, value, fits, Contract!Number, Number
  <2> QED BY <2>1, <2>2, <2>3 DEF Asked, Contract!Add, Contract!Asks, Contract!Reply
<1> QED BY <1>11, <1>12
-----------------------------------------------------------------------------
(* One more key: the entries are on their way, or the mutex is released    *)
(* and they show.                                                          *)
LEMMA ThroughAdvances ==
  ASSUME Inv, Promise, NEW c \in Caller \cup {Cleaner}, call[c] # NoCall, call[c].at = "keys",
         NEW k \in call[c].left, NEW new \in Cache, Through(c, k, new), NEW q,
         q = [call[c] EXCEPT !.left = @ \ {k}], Advanced(q, visible, new.items),
         answer' = answer \/ \E d \in Caller : answer' = [answer EXCEPT ![d] = Done]
  PROVE  /\ Promise'
         /\ now' = now
         /\ call[c].left = {k} =>
              /\ visible' = new.items
              /\ c \in Caller => Asked' = [Asked EXCEPT ![c] = NoCall]
              /\ c = Cleaner => Asked' = Asked
         /\ call[c].left # {k} => visible' = visible /\ Asked' = Asked
<1>1. /\ call[c] \in Pending /\ AsksWell(c, call[c], now) /\ c # NoOne
      /\ DOMAIN call = Caller \cup {Cleaner}
  BY PendingFacts, Constants DEF Promise, AskWell, Inv, TypeOK
<1>2. /\ q.at = "keys" /\ q.left = call[c].left \ {k} /\ q.op = call[c].op
      /\ q.keys = call[c].keys /\ q.since = call[c].since /\ q.value = call[c].value
      /\ q.ttl = call[c].ttl /\ q \in Pending /\ q # NoCall
  <2>1. q \in Pending /\ q.left = call[c].left \ {k}
    BY <1>1 DEF Pending
  <2> QED BY <1>1, <2>1, Constants DEF Pending
<1>3. /\ holder = c /\ cache' = new /\ now' = now
      /\ holder' = IF q.left = {} THEN NoOne ELSE c
      /\ visible' = IF holder' = NoOne THEN new.items ELSE visible
      /\ call' = [call EXCEPT ![c] = IF q.left = {} THEN NoCall ELSE q]
  <2>1. q = [call[c] EXCEPT !.left = call[c].left \ {k}]
    OBVIOUS
  <2> QED BY <1>2, <2>1 DEF Through, Held, Become
<1>4. Shows'
  BY <1>3, ShowsStay DEF Promise, Shows, Cache
<1>5. q.left = {} <=> call[c].left = {k}
  BY <1>2
<1>6. CASE q.left = {}
  <2>1. call' = [call EXCEPT ![c] = NoCall] /\ holder' = NoOne /\ visible' = new.items
    BY <1>3, <1>6
  <2>2. AsksWell(c, NoCall, now) /\ Query(NoCall) = NoCall
    BY DEF AsksWell, Query
  <2>3. AskWell'
    BY <1>3, <2>1, <2>2, AskStep DEF Promise
  <2>4. Holding'
    BY <1>3, <2>1 DEF Holding
  <2>5. /\ c \in Caller => Asked' = [Asked EXCEPT ![c] = NoCall]
        /\ c = Cleaner => Asked' = Asked
    BY <2>1, <2>2, AskedStep DEF Inv
  <2> QED BY <1>3, <1>4, <1>5, <1>6, <2>1, <2>3, <2>4, <2>5 DEF Promise
<1>7. CASE q.left # {}
  <2>1. call' = [call EXCEPT ![c] = q] /\ holder' = c /\ visible' = visible
    BY <1>1, <1>3, <1>7
  <2>2. AsksWell(c, q, now)
    BY <1>1, <1>2 DEF AsksWell
  <2>3. AskWell'
    BY <1>3, <2>1, <2>2, AskStep DEF Promise
  <2>4. call'[c] = q
    BY <1>1, <2>1
  <2>5. Holding'
    BY <1>1, <1>2, <1>3, <1>7, <2>1, <2>4 DEF Holding
  <2>6. Query(q) = Query(call[c])
    BY <1>2 DEF Query
  <2>7. Asked' = Asked
    <3>1. CASE c \in Caller
      <4>1. /\ Asked' = [Asked EXCEPT ![c] = Query(q)] /\ Asked[c] = Query(q)
            /\ Asked = [d \in Caller |-> Asked[d]]
        BY <2>1, <2>6, <3>1, AskedStep, AskedIs DEF Inv, Asked
      <4> QED BY <4>1
    <3>2. CASE c = Cleaner
      BY <2>1, <3>2, AskedStep DEF Inv
    <3> QED BY <3>1, <3>2
  <2> QED BY <1>3, <1>4, <1>5, <1>7, <2>1, <2>3, <2>5, <2>7 DEF Promise
<1> QED BY <1>6, <1>7

(* What is at its keys, and what of it is left after one more.             *)
LEMMA AtKeys ==
  ASSUME Inv, Promise, NEW c \in Caller \cup {Cleaner}, call[c] # NoCall, call[c].at = "keys",
         holder = c, NEW k \in call[c].left
  PROVE  LET q == [call[c] EXCEPT !.left = @ \ {k}] IN
         /\ k \in Key /\ call[c].keys \subseteq Key /\ call[c].since \in Nat /\ call[c].since <= now
         /\ cache \in Cache /\ Consistent(cache) /\ visible \in [Key -> Item \cup {NoItem}]
         /\ Advanced(call[c], visible, cache.items)
         /\ q.left = call[c].left \ {k} /\ q.op = call[c].op /\ q.keys = call[c].keys
         /\ q.since = call[c].since /\ NewItem(q) = NewItem(call[c])
         /\ c \in Caller => call[c].left \subseteq call[c].keys
<1> DEFINE p == call[c]
           q == [p EXCEPT !.left = @ \ {k}]
<1>1. p \in Pending /\ p.keys \subseteq Key /\ p.left \subseteq Key /\ p.since \in Nat
  BY PendingFacts DEF Inv
<1>2. /\ q.left = p.left \ {k} /\ q.op = p.op /\ q.keys = p.keys /\ q.since = p.since
      /\ q.value = p.value /\ q.ttl = p.ttl
  BY <1>1 DEF Pending
<1>3. AsksWell(c, p, now)
  BY DEF Promise, AskWell
<1>4. cache \in Cache /\ Consistent(cache) /\ visible \in [Key -> Item \cup {NoItem}]
      /\ c # NoOne
  BY DEF Inv, TypeOK, ListMatchesEntries, Promise, Shows
<1>5. Advanced(p, visible, cache.items)
  BY <1>4 DEF Promise, Holding
<1> HIDE DEF q
<1>6. NewItem(q) = NewItem(p)
  BY <1>2 DEF NewItem
<1>7. p.since <= now /\ (c \in Caller => p.left \subseteq p.keys)
  BY <1>3 DEF AsksWell
<1> QED BY <1>1, <1>2, <1>4, <1>5, <1>6, <1>7 DEF q

LEMMA SetKeySets ==
  ASSUME Inv, Promise, NEW c \in Caller, Asks(c, "keys"), NEW k \in call[c].left, SetKey(c, k)
  PROVE  Promise' /\ (Contract!Set(c) \/ (Asked' = Asked /\ UNCHANGED <<visible, answer, now>>))
<1> DEFINE p == call[c]
           q == [p EXCEPT !.left = @ \ {k}]
           item == NewItem(p)
           new == Saved(cache, k, item, p.since)
<1>1. /\ p # NoCall /\ p.at = "keys" /\ p.op = "set" /\ Through(c, k, new) /\ holder = c
      /\ IF p.left = {k} THEN answer' = [answer EXCEPT ![c] = Done] ELSE answer' = answer
  BY DEF SetKey, Asks, Finished, Return, NewItem, Through
<1>2. /\ k \in Key /\ p.keys \subseteq Key /\ p.since \in Nat /\ p.left \subseteq p.keys
      /\ cache \in Cache /\ Consistent(cache) /\ Advanced(p, visible, cache.items)
      /\ q.left = p.left \ {k} /\ q.op = p.op /\ q.keys = p.keys /\ NewItem(q) = item
  BY <1>1, AtKeys
<1>3. item \in Item
  <2>1. p.value \in Payload /\ p.ttl \in Nat
    BY <1>1, PendingFacts DEF Inv
  <2> QED BY <1>2, <2>1 DEF NewItem, Item, ExpiresAt
<1> HIDE DEF item
<1>4. new \in Cache /\ Consistent(new)
  BY <1>2, <1>3, SavedFacts
<1>5. StoredTo(visible, new.items, (p.keys \ p.left) \cup {k}, item)
  <2>1. StoredTo(visible, cache.items, p.keys \ p.left, item)
    BY <1>1, <1>2 DEF Advanced, item
  <2> QED BY <1>2, <1>3, <2>1, SetAdvances
<1> HIDE DEF new, q
<1>6. Advanced(q, visible, new.items)
  <2>1. q.keys \ q.left = (p.keys \ p.left) \cup {k}
    BY <1>2
  <2>2. StoredTo(visible, new.items, q.keys \ q.left, NewItem(q))
    BY <1>2, <1>5, <2>1
  <2> QED BY <1>1, <1>2, <2>2 DEF Advanced
<1>7. /\ Promise' /\ now' = now
      /\ p.left = {k} => visible' = new.items /\ Asked' = [Asked EXCEPT ![c] = NoCall]
      /\ p.left # {k} => visible' = visible /\ Asked' = Asked
  <2>1. q = [call[c] EXCEPT !.left = @ \ {k}]
    BY DEF q
  <2> QED BY <1>1, <1>4, <1>6, <2>1, ThroughAdvances
<1>8. CASE p.left = {k}
  <2>1. StoredTo(visible, visible', p.keys, item) /\ p.keys # {}
    <3>1. (p.keys \ p.left) \cup {k} = p.keys
      BY <1>2, <1>8
    <3> QED BY <1>2, <1>5, <1>7, <1>8, <3>1
  <2>2. MaxItems > 0 => Cardinality({j \in Key : visible'[j] # NoItem}) <= MaxItems
    BY <1>4, <1>7, <1>8, WithinLimit
  <2>3. Contract!Put(p.keys, item)
    BY <1>2, <2>1, <2>2, Puts
  <2>4. /\ Asked[c] # NoCall /\ Asked[c].op = "set" /\ Asked[c].keys = p.keys
        /\ Asked[c].value = p.value /\ Asked[c].ttl = p.ttl /\ Asked[c].since = p.since
    BY <1>1, Known
  <2>5. item = [payload |-> Asked[c].value,
                expiresAt |-> IF Asked[c].ttl > 0 THEN Asked[c].since + Asked[c].ttl ELSE 0]
    BY <2>4 DEF item, NewItem, ExpiresAt
  <2>6. Contract!Put(Asked[c].keys,
                     [payload |-> Asked[c].value,
                      expiresAt |-> IF Asked[c].ttl > 0 THEN Asked[c].since + Asked[c].ttl ELSE 0])
    BY <2>3, <2>4, <2>5
  <2>7. Asked' = [Asked EXCEPT ![c] = NoCall] /\ answer' = [answer EXCEPT ![c] = Done]
        /\ now' = now /\ Asked[c].op \in {"set"}
    BY <1>1, <1>7, <1>8, <2>4
  <2>8. Contract!Set(c)
    BY <2>4, <2>6, <2>7, Zenon DEF Asked, Contract!Set, Contract!Asks, Contract!Reply
  <2> QED BY <1>7, <2>8
<1>9. CASE p.left # {k}
  BY <1>1, <1>7, <1>9
<1> QED BY <1>8, <1>9

LEMMA DeleteKeyDeletes ==
  ASSUME Inv, Promise, NEW c \in Caller, Asks(c, "keys"), NEW k \in call[c].left, DeleteKey(c, k)
  PROVE  Promise' /\ (Contract!Delete(c) \/ (Asked' = Asked /\ UNCHANGED <<visible, answer, now>>))
<1> DEFINE p == call[c]
           q == [p EXCEPT !.left = @ \ {k}]
           new == Deleted(cache, k)
<1>1. /\ p # NoCall /\ p.at = "keys" /\ p.op = "delete" /\ Through(c, k, new) /\ holder = c
      /\ IF p.left = {k} THEN answer' = [answer EXCEPT ![c] = Done] ELSE answer' = answer
  BY DEF DeleteKey, Asks, Finished, Return, Through
<1>2. /\ k \in Key /\ p.keys \subseteq Key /\ p.left \subseteq p.keys
      /\ cache \in Cache /\ Consistent(cache) /\ Advanced(p, visible, cache.items)
      /\ q.left = p.left \ {k} /\ q.op = p.op /\ q.keys = p.keys
  BY <1>1, AtKeys
<1>3. new \in Cache
  BY <1>2, DeletedFacts
<1>4. \A j \in Key : new.items[j] = IF j \in q.keys \ q.left THEN NoItem ELSE visible[j]
  <2>1. \A j \in Key : cache.items[j] = IF j \in p.keys \ p.left THEN NoItem ELSE visible[j]
    BY <1>1, <1>2 DEF Advanced
  <2>2. \A j \in Key : new.items[j] = IF j = k THEN NoItem ELSE cache.items[j]
    BY <1>2, DeletedItems
  <2> HIDE DEF new, q
  <2> QED BY <1>2, <2>1, <2>2
<1> HIDE DEF new, q
<1>5. Advanced(q, visible, new.items)
  BY <1>1, <1>2, <1>4 DEF Advanced
<1>6. /\ Promise' /\ now' = now
      /\ p.left = {k} => visible' = new.items /\ Asked' = [Asked EXCEPT ![c] = NoCall]
      /\ p.left # {k} => visible' = visible /\ Asked' = Asked
  <2>1. q = [call[c] EXCEPT !.left = @ \ {k}]
    BY DEF q
  <2> QED BY <1>1, <1>3, <1>5, <2>1, ThroughAdvances
<1>7. CASE p.left = {k}
  <2>1. Asked[c] # NoCall /\ Asked[c].op = "delete" /\ Asked[c].keys = p.keys
    BY <1>1, Known
  <2>2. visible' \in [Key -> Item \cup {NoItem}]
    BY <1>3, <1>6, <1>7 DEF Cache
  <2>3. visible' = [j \in Key |-> IF j \in Asked[c].keys \/ Asked[c].op = "clear"
                                  THEN NoItem ELSE visible[j]]
    BY <1>2, <1>4, <1>6, <1>7, <2>1, <2>2
  <2>4. Asked' = [Asked EXCEPT ![c] = NoCall] /\ answer' = [answer EXCEPT ![c] = Done]
        /\ now' = now /\ Asked[c].op \in {"delete", "clear"}
    BY <1>1, <1>6, <1>7, <2>1
  <2>5. Contract!Delete(c)
    BY <2>1, <2>3, <2>4, Zenon DEF Asked, Contract!Delete, Contract!Asks, Contract!Reply
  <2> QED BY <1>6, <2>5
<1>8. CASE p.left # {k}
  BY <1>1, <1>6, <1>8
<1> QED BY <1>7, <1>8

(* The entries that go were expired when the goroutine read the clock.     *)
LEMMA PurgeKeyPurges ==
  ASSUME Inv, Promise, NEW c \in Caller \cup {Cleaner}, call[c] # NoCall, call[c].at = "keys",
         NEW k \in call[c].left, NEW new \in Cache, Through(c, k, new), answer' = answer,
         call[c].op \in {"get", "cleanup", "close"},
         \A j \in Key : new.items[j] = IF j = k /\ Expired(cache.items[k], call[c].since)
                                       THEN NoItem ELSE cache.items[j]
  PROVE  Promise' /\ (Contract!Purge \/ (Asked' = Asked /\ UNCHANGED <<visible, answer, now>>))
<1> DEFINE p == call[c]
           q == [p EXCEPT !.left = @ \ {k}]
<1>1. holder = c
  BY DEF Through
<1>2. /\ k \in Key /\ p.since \in Nat /\ p.since <= now
      /\ cache \in Cache /\ Advanced(p, visible, cache.items)
      /\ visible \in [Key -> Item \cup {NoItem}]
      /\ q.left = p.left \ {k} /\ q.op = p.op /\ q.since = p.since
  BY <1>1, AtKeys
<1>3. PurgedTo(visible, new.items, p.since)
  <2>1. PurgedTo(visible, cache.items, p.since)
    BY <1>2 DEF Advanced
  <2> QED BY <1>2, <2>1, PurgeAdvances
<1> HIDE DEF q
<1>4. Advanced(q, visible, new.items)
  BY <1>2, <1>3 DEF Advanced
<1>5. /\ Promise' /\ now' = now
      /\ p.left = {k} => /\ visible' = new.items
                         /\ c \in Caller => Asked' = [Asked EXCEPT ![c] = NoCall]
                         /\ c = Cleaner => Asked' = Asked
      /\ p.left # {k} => visible' = visible /\ Asked' = Asked
  <2>1. q = [call[c] EXCEPT !.left = @ \ {k}]
    BY DEF q
  <2> QED BY <1>4, <2>1, ThroughAdvances
<1>6. Asked' = Asked
  <2>1. CASE c = Cleaner
    BY <1>5, <2>1
  <2>2. CASE c \in Caller
    <3>1. p.op = "get"
      BY <2>2 DEF Promise, AskWell, AsksWell, Op
    <3>2. Asked[c] = NoCall /\ Asked = [d \in Caller |-> Asked[d]]
      BY <2>2, <3>1, AskedIs DEF Inv, Query, Asked
    <3> QED BY <1>5, <2>2, <3>2
  <2> QED BY <2>1, <2>2
<1>7. CASE p.left = {k}
  <2>1. ASSUME NEW j \in Key, visible'[j] # visible[j]
        PROVE  visible'[j] = NoItem /\ ~Contract!Live(visible[j], now)
    <3>1. visible'[j] = NoItem /\ Expired(visible[j], p.since)
      BY <1>3, <1>5, <1>7, <2>1 DEF PurgedTo
    <3>2. visible[j] # NoItem => visible[j].expiresAt \in Nat
      BY <1>2 DEF Item
    <3>3. now \in Nat
      BY DEF Inv, TypeOK
    <3> QED BY <1>2, <3>1, <3>2, <3>3 DEF Expired, Contract!Live
  <2>2. Contract!Purge
    BY <1>5, <1>6, <2>1, Zenon DEF Asked, Contract!Purge
  <2> QED BY <1>5, <2>2
<1>8. CASE p.left # {k}
  BY <1>5, <1>8
<1> QED BY <1>7, <1>8

LEMMA TouchKeyPurges ==
  ASSUME Inv, Promise, NEW c \in Caller, Asks(c, "keys"), NEW k \in call[c].left, TouchKey(c, k)
  PROVE  Promise' /\ (Contract!Purge \/ (Asked' = Asked /\ UNCHANGED <<visible, answer, now>>))
<1>1. /\ call[c] # NoCall /\ call[c].at = "keys" /\ call[c].op = "get" /\ holder = c
      /\ Through(c, k, Used(cache, k, call[c].since)) /\ answer' = answer
  BY DEF TouchKey, Asks, Through
<1>2. k \in Key /\ call[c].since \in Nat /\ cache \in Cache /\ Consistent(cache)
  BY <1>1, AtKeys
<1>3. Used(cache, k, call[c].since) \in Cache
  BY <1>2, UsedFacts
<1>4. \A j \in Key : Used(cache, k, call[c].since).items[j] =
        IF j = k /\ Expired(cache.items[k], call[c].since) THEN NoItem ELSE cache.items[j]
  BY <1>2, UsedItems
<1> QED BY <1>1, <1>3, <1>4, PurgeKeyPurges

LEMMA CleanupKeyPurges ==
  ASSUME Inv, Promise, Asks(Cleaner, "keys"), NEW k \in call[Cleaner].left, CleanupKey(k)
  PROVE  Promise' /\ (Contract!Purge \/ (Asked' = Asked /\ UNCHANGED <<visible, answer, now>>))
<1>1. /\ call[Cleaner] # NoCall /\ call[Cleaner].at = "keys" /\ holder = Cleaner
      /\ Through(Cleaner, k, Purged(cache, k, call[Cleaner].since)) /\ answer' = answer
  BY DEF CleanupKey, Asks, Through
<1>2. k \in Key /\ call[Cleaner].since \in Nat /\ cache \in Cache /\ Consistent(cache)
  BY <1>1, AtKeys
<1>3. Purged(cache, k, call[Cleaner].since) \in Cache
  BY <1>2, PurgedFacts
<1>4. \A j \in Key : Purged(cache, k, call[Cleaner].since).items[j] =
        IF j = k /\ Expired(cache.items[k], call[Cleaner].since) THEN NoItem ELSE cache.items[j]
  BY <1>2, PurgedItems
<1>5. call[Cleaner].op \in {"cleanup", "close"}
  BY <1>1 DEF Promise, AskWell, AsksWell
<1> QED BY <1>1, <1>3, <1>4, <1>5, PurgeKeyPurges
-----------------------------------------------------------------------------
(* The cleanup loop takes the mutex, and the rest shows nothing.           *)
LEMMA CleanerShowsNothing ==
  ASSUME Inv, Promise, NEW q, call' = [call EXCEPT ![Cleaner] = q], AsksWell(Cleaner, q, now),
         UNCHANGED <<cache, answer, now, visible>>, Holding'
  PROVE  Promise' /\ Asked' = Asked
<1>1. AskWell'
  BY AskStep DEF Promise
<1>2. Shows'
  BY DEF Promise, Shows
<1>3. Asked' = Asked
  BY AskedStep DEF Inv
<1> QED BY <1>1, <1>2, <1>3 DEF Promise

LEMMA CleanupStays ==
  ASSUME Inv, Promise, Cleanup \/ Close
  PROVE  Promise' /\ Asked' = Asked /\ UNCHANGED <<visible, answer, now>>
<1>1. PICK q : /\ call' = [call EXCEPT ![Cleaner] = q]
               /\ q.op \in {"cleanup", "close"} /\ q.left = {} /\ q.keys = {}
               /\ q.since \in {0, now} /\ q.at \in {"lock", "closed"}
  <2> DEFINE tick == [op |-> "cleanup", keys |-> {}, left |-> {}, value |-> 0,
                      ttl |-> 0, since |-> now, at |-> "lock"]
             end == [op |-> "close", keys |-> {}, left |-> {}, value |-> 0,
                     ttl |-> 0, since |-> 0, at |-> "closed"]
  <2>1. call' = [call EXCEPT ![Cleaner] = tick] \/ call' = [call EXCEPT ![Cleaner] = end]
    BY DEF Cleanup, Close, Become
  <2>2. /\ tick.op = "cleanup" /\ tick.left = {} /\ tick.keys = {} /\ tick.since = now
        /\ tick.at = "lock"
        /\ end.op = "close" /\ end.left = {} /\ end.keys = {} /\ end.since = 0
        /\ end.at = "closed"
    OBVIOUS
  <2> HIDE DEF tick, end
  <2> QED BY <2>1, <2>2
<1>2. /\ call[Cleaner] = NoCall /\ UNCHANGED <<cache, holder, answer, now, visible>>
      /\ now \in Nat
  BY DEF Cleanup, Close, Inv, TypeOK
<1>3. AsksWell(Cleaner, q, now)
  BY <1>1, <1>2 DEF AsksWell
<1>4. Holding'
  BY <1>1, <1>2, HoldingStays DEF Promise
<1> QED BY <1>1, <1>2, <1>3, <1>4, CleanerShowsNothing

LEMMA CleanupLockStays ==
  ASSUME Inv, Promise, CleanupLock
  PROVE  Promise' /\ Asked' = Asked /\ UNCHANGED <<visible, answer, now>>
<1> DEFINE p == call[Cleaner]
           new == [p EXCEPT !.left = Present(cache), !.at = "keys"]
<1>1. /\ p # NoCall /\ p.at = "lock" /\ holder = NoOne
      /\ UNCHANGED <<cache, answer, now, visible>>
      /\ IF Present(cache) = {} THEN call' = [call EXCEPT ![Cleaner] = NoCall] /\ holder' = holder
         ELSE call' = [call EXCEPT ![Cleaner] = new] /\ holder' = Cleaner
  BY DEF CleanupLock, Asks, Become
<1>2. p \in Pending /\ AsksWell(Cleaner, p, now) /\ DOMAIN call = Caller \cup {Cleaner}
      /\ Present(cache) \subseteq Key
  BY <1>1, PendingFacts DEF Promise, AskWell, Inv, TypeOK, Present
<1>3. /\ new.at = "keys" /\ new.left = Present(cache) /\ new.op = p.op /\ new.since = p.since
      /\ new \in Pending
  BY <1>2 DEF Pending
<1>4. new # NoCall
  BY <1>3
<1> HIDE DEF new
<1>5. CASE Present(cache) = {}
  <2>1. AsksWell(Cleaner, NoCall, now)
    BY DEF AsksWell
  <2>2. Holding'
    BY <1>1, <1>5 DEF Promise, Holding
  <2> QED BY <1>1, <1>5, <2>1, <2>2, CleanerShowsNothing
<1>6. CASE Present(cache) # {}
  <2>1. AsksWell(Cleaner, new, now) /\ new.op \in {"cleanup", "close"}
    BY <1>1, <1>2, <1>3 DEF AsksWell
  <2>2. Advanced(new, visible, cache.items)
    BY <1>1, <2>1 DEF Promise, Holding, Advanced, PurgedTo
  <2>3. call'[Cleaner] = new
    BY <1>1, <1>2, <1>6
  <2>4. Holding'
    BY <1>1, <1>3, <1>4, <1>6, <2>2, <2>3 DEF Holding
  <2> QED BY <1>1, <1>6, <2>1, <2>4, CleanerShowsNothing
<1> QED BY <1>5, <1>6

LEMMA TickPasses ==
  ASSUME Inv, Promise, Tick
  PROVE  Promise' /\ Contract!Pass
<1>1. now' = now + 1 /\ now \in Nat /\ UNCHANGED <<cache, holder, call, answer, visible>>
  BY DEF Tick, Inv, TypeOK
<1>2. \A c \in Caller \cup {Cleaner} : call[c] # NoCall => call[c].since \in Nat
  BY PendingFacts DEF Inv
<1>3. AskWell'
  <2>1. ASSUME NEW c \in Caller \cup {Cleaner} PROVE AsksWell(c, call[c], now + 1)
    <3>1. AsksWell(c, call[c], now)
      BY DEF Promise, AskWell
    <3> QED BY <1>1, <1>2, <3>1 DEF AsksWell
  <2> QED BY <1>1, <2>1 DEF AskWell
<1>4. Holding' /\ Shows'
  BY <1>1 DEF Promise, Holding, Shows
<1>5. Asked' = Asked
  BY <1>1 DEF Asked, Touching
<1>6. now' > now
  BY <1>1
<1> QED BY <1>1, <1>3, <1>4, <1>5, <1>6 DEF Promise, Asked, Contract!Pass
-----------------------------------------------------------------------------
LEMMA PromiseInit == Init => Promise /\ Contract!Init
<1> SUFFICES ASSUME Init PROVE Promise /\ Contract!Init
  OBVIOUS
<1>1. /\ cache = Empty /\ holder = NoOne /\ answer = [c \in Caller |-> NoCall] /\ now = 1
      /\ call = [c \in Caller \cup {Cleaner} |-> NoCall] /\ visible = Nothing
  BY DEF Init
<1>2. Holding /\ Shows
  BY <1>1 DEF Holding, Shows, Empty, Nothing
<1>3. AskWell
  BY <1>1 DEF AskWell, AsksWell
<1>4. Asked = [c \in Caller |-> NoCall]
  BY <1>1 DEF Asked
<1>5. visible = [k \in Key |-> NoItem] /\ now \in Nat
  BY <1>1 DEF Nothing
<1> QED BY <1>1, <1>2, <1>3, <1>4, <1>5 DEF Promise, Asked, Contract!Init

LEMMA PromiseNext == Inv /\ Promise /\ [Next]_vars => Promise' /\ [Contract!Next]_(Contract!vars)
<1> SUFFICES ASSUME Inv, Promise, [Next]_vars
             PROVE  Promise' /\ [Contract!Next]_(Contract!vars)
  OBVIOUS
<1>0. ASSUME Asked' = Asked, UNCHANGED <<visible, answer, now>> PROVE UNCHANGED Contract!vars
  BY <1>0 DEF Asked, Contract!vars
<1>1. ASSUME NEW c \in Caller, Start(c) PROVE Promise' /\ Contract!Next
  BY <1>1, StartAsks DEF Contract!Next
<1>2. ASSUME NEW c \in Caller, Read(c) PROVE Promise' /\ Contract!Next
  BY <1>2, ReadReads DEF Contract!Next
<1>3. ASSUME NEW c \in Caller, Clear(c) PROVE Promise' /\ Contract!Next
  BY <1>3, ClearClears DEF Contract!Next
<1>4. ASSUME NEW c \in Caller, Refuse(c) PROVE Promise' /\ Contract!Next
  BY <1>4, RefuseRefuses DEF Contract!Next
<1>5. ASSUME NEW c \in Caller, Add(c) PROVE Promise' /\ Contract!Next
  BY <1>5, AddAdds DEF Contract!Next
<1>6. ASSUME NEW c \in Caller, Lock(c) PROVE Promise' /\ UNCHANGED Contract!vars
  BY <1>0, <1>6, LockStays
<1>7. ASSUME NEW c \in Caller, Each(c) PROVE Promise' /\ (Contract!Next \/ UNCHANGED Contract!vars)
  <2>1. PICK k \in call[c].left : SetKey(c, k) \/ DeleteKey(c, k) \/ TouchKey(c, k)
    BY <1>7 DEF Each
  <2>2. Asks(c, "keys")
    BY <1>7 DEF Each
  <2>3. CASE SetKey(c, k)
    BY <1>0, <2>2, <2>3, SetKeySets DEF Contract!Next
  <2>4. CASE DeleteKey(c, k)
    BY <1>0, <2>2, <2>4, DeleteKeyDeletes DEF Contract!Next
  <2>5. CASE TouchKey(c, k)
    BY <1>0, <2>2, <2>5, TouchKeyPurges DEF Contract!Next
  <2> QED BY <2>1, <2>3, <2>4, <2>5
<1>8. CASE Cleanup \/ Close
  BY <1>0, <1>8, CleanupStays
<1>9. CASE CleanupLock
  BY <1>0, <1>9, CleanupLockStays
<1>10. CASE CleanupEach
  BY <1>0, <1>10, CleanupKeyPurges DEF CleanupEach, Contract!Next
<1>11. CASE Tick
  BY <1>11, TickPasses DEF Contract!Next
<1>12. CASE UNCHANGED vars
  <2>1. UNCHANGED <<cache, holder, call, answer, now, visible>>
    BY <1>12 DEF vars
  <2>2. Promise' /\ Asked' = Asked
    BY <2>1 DEF Promise, Shows, AskWell, Holding, Asked, Touching
  <2> QED BY <1>0, <2>1, <2>2
<1> QED BY <1>1, <1>2, <1>3, <1>4, <1>5, <1>6, <1>7, <1>8, <1>9, <1>10, <1>11, <1>12, Zenon
        DEF Next

(* Every call of the backend takes effect at one moment between its start  *)
(* and its return, however many keys it goes through and whatever else     *)
(* runs: sets, deletes and increments are not lost, and what is live       *)
(* leaves only by a call or for want of room.                              *)
THEOREM CacheImplementsContract == Spec => ImplementsCache
BY PromiseInit, PromiseNext, InvInit, InvNext, PTL DEF Spec, ImplementsCache, Contract!Spec
=============================================================================
