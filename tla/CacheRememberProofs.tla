------------------------ MODULE CacheRememberProofs -------------------------
(* What the stampede protection of cache.Remember promises, for any        *)
(* callers, whatever they ask for and however long the source changes.     *)
EXTENDS CacheRemember, FiniteSetTheorems, TLAPS

USE RememberAssumption

WaitingFor(p) == {c \in Caller : pc[c] = "waiting" /\ joined[c] = p}

(* A call that somebody waits for, is about to cancel or finds in flight   *)
(* has a leader, and nobody leads before he has missed.                    *)
Led ==
  /\ \A c \in Caller :
       pc[c] \in {"waiting", "canceling"} => joined[c] \in Caller /\ leader[joined[c]] # "none"
  /\ \A c \in Caller : pc[c] \in {"idle", "missed"} => leader[c] = "none"
  /\ \A f \in BOOLEAN : inFlight[f] # NoCall => leader[inFlight[f]] # "none"

(* The counter of a call is the number of its waiters.                     *)
CountsWaiters == \A p \in Caller : waiters[p] = Cardinality(WaitingFor(p))

(* A leader that has something to do and was not canceled is the one that  *)
(* is in flight: the entry is replaced only when its call is canceled.     *)
BusyIsInFlight ==
  \A p \in Caller :
    leader[p] \in {"recheck", "computing", "storing", "leaving"} /\ ~canceled[p]
      => inFlight[Flight(p)] = p

(* AbandonedIsCanceled, wherever the leader is.                            *)
LeftIsCanceled ==
  \A p \in Caller :
    p \in Cancelable /\ leader[p] # "none" /\ waiters[p] = 0 =>
      canceled[p] \/ \E c \in Caller : pc[c] = "canceling" /\ joined[c] = p

(* Only a call that was cancelable is canceled, and who stores has read.   *)
CancelsAndStores ==
  /\ \A c \in Caller : pc[c] = "canceling" => joined[c] \in Cancelable
  /\ \A p \in Caller : canceled[p] => p \in Cancelable
  /\ \A c \in Caller : pc[c] = "storing" => c \in Unprotected /\ read[c] \in Version
  /\ \A p \in Caller : leader[p] = "storing" => read[p] \in Version

(* Of callers that are protected and not cancelable: a leader that found   *)
(* nothing would still find nothing, and every computation but the last    *)
(* was lost by the cache.                                                  *)
Accounts ==
  PlainCallers =>
    /\ \A p \in Caller : leader[p] \in {"computing", "storing"} => cached = NoValue
    /\ computations = evictions + IF cached = NoValue THEN 0 ELSE 1

Inv ==
  /\ TypeOK /\ Led /\ CountsWaiters
  /\ BusyIsInFlight /\ LeftIsCanceled /\ CancelsAndStores /\ Accounts
-----------------------------------------------------------------------------
(* The options are those of the start.                                     *)
LEMMA OptionKept == ASSUME [Next]_vars PROVE option' = option
BY DEF Next, vars, callVars, callerVars, historyVars, Update, Evict, Remember, CallerStep,
  ComputeAlone, StoreAlone, Join, Lead, TakeOutcome, TimeOut, LeaveWait, Cancel, LeaderStep,
  Recheck, CallbackReturns, StoreComputed, LeaderLeaves, Done

LEMMA FlightType == ASSUME NEW c PROVE Flight(c) \in BOOLEAN
BY DEF Flight

LEMMA WaitersBounded ==
  ASSUME NEW p \in Caller
  PROVE  /\ IsFiniteSet(WaitingFor(p))
         /\ Cardinality(WaitingFor(p)) \in 0 .. Cardinality(Caller)
<1>1. WaitingFor(p) \in SUBSET Caller
  BY DEF WaitingFor
<1> QED BY <1>1, FS_Subset, FS_CardinalityType

LEMMA InvInit == Init => Inv
<1> SUFFICES ASSUME Init PROVE Inv
  OBVIOUS
<1>1. Cardinality(Caller) \in Nat
  BY FS_CardinalityType
<1>2. TypeOK
  BY <1>1 DEF Init, TypeOK, Answer, Pending, Version, Error
<1>3. CountsWaiters
  <2> SUFFICES ASSUME NEW p \in Caller PROVE waiters[p] = Cardinality(WaitingFor(p))
    BY DEF CountsWaiters
  <2>1. WaitingFor(p) = {}
    BY DEF Init, WaitingFor
  <2> QED BY <2>1, FS_EmptySet DEF Init
<1> QED BY <1>2, <1>3 DEF Init, Inv, Led, BusyIsInFlight, LeftIsCanceled, CancelsAndStores, Accounts
-----------------------------------------------------------------------------
LEMMA LedKept == ASSUME TypeOK, Led, [Next]_vars PROVE Led'
<1> USE DEF TypeOK, Led, Return, Complete
<1>1. CASE Update \/ Evict \/ Done \/ UNCHANGED vars
  BY <1>1 DEF Update, Evict, Done, vars, callVars, callerVars
<1>2. ASSUME NEW c \in Caller, Remember(c) \/ ComputeAlone(c) \/ StoreAlone(c) PROVE Led'
  BY <1>2 DEF Remember, ComputeAlone, StoreAlone, callVars
<1>3. ASSUME NEW c \in Caller, Join(c) PROVE Led'
  <2>1. joined'[c] = inFlight[Flight(c)] /\ inFlight[Flight(c)] \in Caller
    BY <1>3, FlightType DEF Join, Joinable
  <2>2. leader[joined'[c]] # "none"
    BY <1>3, <2>1, FlightType DEF Join, Joinable
  <2> QED BY <1>3, <2>1, <2>2 DEF Join
<1>4. ASSUME NEW c \in Caller, Lead(c) PROVE Led'
  BY <1>4 DEF Lead, Flight
<1>5. ASSUME NEW c \in Caller, TakeOutcome(c) \/ TimeOut(c) \/ Cancel(c) PROVE Led'
  BY <1>5 DEF TakeOutcome, TimeOut, LeaveWait, Cancel
<1>6. ASSUME NEW p \in Caller, LeaderStep(p) PROVE Led'
  <2>1. /\ leader[p] # "none" /\ leader' = [leader EXCEPT ![p] = leader'[p]] /\ leader'[p] # "none"
        /\ UNCHANGED callerVars
    BY <1>6 DEF LeaderStep, Recheck, CallbackReturns, StoreComputed, LeaderLeaves
  <2>2. \A f \in BOOLEAN : inFlight'[f] \in {inFlight[f], NoCall}
    BY <1>6 DEF LeaderStep, Recheck, CallbackReturns, StoreComputed, LeaderLeaves, Flight
  <2> QED BY <2>1, <2>2 DEF callerVars
<1> QED BY <1>1, <1>2, <1>3, <1>4, <1>5, <1>6 DEF Next, CallerStep

LEMMA CountKept ==
  ASSUME TypeOK, Led, CountsWaiters, [Next]_vars
  PROVE  CountsWaiters' /\ waiters' \in [Caller -> 0 .. Cardinality(Caller)]
<1>1. CountsWaiters'
  <2> SUFFICES ASSUME NEW p \in Caller PROVE waiters'[p] = Cardinality(WaitingFor(p)')
    BY DEF CountsWaiters
  <2>0. waiters[p] = Cardinality(WaitingFor(p)) /\ IsFiniteSet(WaitingFor(p))
    BY WaitersBounded DEF CountsWaiters
  <2>a. ASSUME waiters' = waiters, joined' = joined,
               \A c \in Caller : pc[c] = "waiting" <=> pc'[c] = "waiting"
        PROVE  waiters'[p] = Cardinality(WaitingFor(p)')
    <3>1. WaitingFor(p)' = WaitingFor(p)
      BY <2>a DEF WaitingFor
    <3> QED BY <2>0, <2>a, <3>1
  <2>1. CASE Update \/ Evict \/ Done \/ UNCHANGED vars
    BY <2>1, <2>a DEF Update, Evict, Done, vars, callVars, callerVars
  <2>2. ASSUME NEW c \in Caller, Remember(c) \/ ComputeAlone(c) \/ StoreAlone(c) \/ Cancel(c)
        PROVE  waiters'[p] = Cardinality(WaitingFor(p)')
    BY <2>2, <2>a DEF Remember, ComputeAlone, StoreAlone, Cancel, Return, callVars, TypeOK
  <2>3. ASSUME NEW p1 \in Caller, LeaderStep(p1)
        PROVE  waiters'[p] = Cardinality(WaitingFor(p)')
    BY <2>3, <2>a DEF LeaderStep, Recheck, CallbackReturns, StoreComputed, LeaderLeaves, callerVars
  <2>4. ASSUME NEW c \in Caller, Join(c) PROVE waiters'[p] = Cardinality(WaitingFor(p)')
    <3>1. inFlight[Flight(c)] \in Caller
      BY <2>4, FlightType DEF Join, Joinable, TypeOK
    <3>2. waiters' = [waiters EXCEPT ![inFlight[Flight(c)]] = @ + 1]
      BY <2>4 DEF Join
    <3>3. c \notin WaitingFor(p)
      BY <2>4 DEF Join, WaitingFor
    <3>4. WaitingFor(p)' = IF p = inFlight[Flight(c)] THEN WaitingFor(p) \cup {c} ELSE WaitingFor(p)
      BY <2>4 DEF Join, WaitingFor, TypeOK
    <3>5. Cardinality(WaitingFor(p) \cup {c}) = Cardinality(WaitingFor(p)) + 1
      BY <2>0, <3>3, FS_AddElement
    <3>6. waiters'[p] = IF p = inFlight[Flight(c)] THEN waiters[p] + 1 ELSE waiters[p]
      BY <3>1, <3>2 DEF TypeOK
    <3> HIDE DEF WaitingFor
    <3> QED BY <2>0, <3>4, <3>5, <3>6
  <2>5. ASSUME NEW c \in Caller, Lead(c) PROVE waiters'[p] = Cardinality(WaitingFor(p)')
    <3>1. WaitingFor(c) = {}
      BY <2>5 DEF Lead, WaitingFor, Led
    <3>2. WaitingFor(p)' = IF p = c THEN {c} ELSE WaitingFor(p)
      BY <2>5, <3>1 DEF Lead, WaitingFor, TypeOK
    <3>3. waiters'[p] = IF p = c THEN 1 ELSE waiters[p]
      BY <2>5 DEF Lead, TypeOK
    <3>4. Cardinality({c}) = 1
      BY FS_Singleton
    <3>5. CASE p = c
      BY <3>2, <3>3, <3>4, <3>5
    <3>6. CASE p # c
      BY <2>0, <3>2, <3>3, <3>6
    <3> QED BY <3>5, <3>6
  <2>6. ASSUME NEW c \in Caller, TakeOutcome(c) \/ TimeOut(c)
        PROVE  waiters'[p] = Cardinality(WaitingFor(p)')
    <3>1. c \in WaitingFor(joined[c]) /\ joined[c] \in Caller
      BY <2>6 DEF TakeOutcome, TimeOut, WaitingFor, Led
    <3>2. WaitingFor(p)' = IF p = joined[c] THEN WaitingFor(p) \ {c} ELSE WaitingFor(p)
      BY <2>6 DEF TakeOutcome, TimeOut, LeaveWait, WaitingFor, TypeOK
    <3>3. waiters'[p] = IF p = joined[c] THEN waiters[p] - 1 ELSE waiters[p]
      BY <2>6 DEF TakeOutcome, TimeOut, LeaveWait, TypeOK
    <3> QED BY <2>0, <3>1, <3>2, <3>3, FS_RemoveElement
  <2> QED BY <2>1, <2>2, <2>3, <2>4, <2>5, <2>6 DEF Next, CallerStep
<1>2. ASSUME NEW p \in Caller PROVE waiters'[p] \in 0 .. Cardinality(Caller)
  <2>1. WaitingFor(p)' \in SUBSET Caller
    BY DEF WaitingFor
  <2>2. waiters'[p] = Cardinality(WaitingFor(p)')
    BY <1>1 DEF CountsWaiters
  <2> QED BY <2>1, <2>2, FS_Subset, FS_CardinalityType
<1>3. waiters' = [p \in Caller |-> waiters'[p]]
  BY DEF TypeOK, Next, vars, callVars, callerVars, historyVars, Update, Evict, Remember,
    CallerStep, ComputeAlone, StoreAlone, Join, Lead, TakeOutcome, TimeOut, LeaveWait, Cancel,
    LeaderStep, Recheck, CallbackReturns, StoreComputed, LeaderLeaves, Done
<1> QED BY <1>1, <1>2, <1>3

(* What a caller is told, and what a leader leaves behind.                 *)
LEMMA ReturnType ==
  ASSUME TypeOK, NEW c \in Caller, NEW value \in Version \cup {NoValue}, NEW error \in Error,
         Return(c, value, error)
  PROVE  /\ result' \in [Caller -> Answer]
         /\ pc' \in [Caller -> {"idle", "missed", "storing", "waiting", "canceling", "done"}]
<1>1. [value |-> value, error |-> error] \in Answer
  BY DEF Answer
<1> QED BY <1>1 DEF Return, TypeOK

LEMMA CompleteType ==
  ASSUME TypeOK, NEW p \in Caller, NEW value \in Version \cup {NoValue}, NEW error \in Error,
         Complete(p, value, error)
  PROVE  /\ outcome' \in [Caller -> Answer]
         /\ leader' \in [Caller -> {"none", "recheck", "computing", "storing", "leaving", "ended"}]
<1>1. [value |-> value, error |-> error] \in Answer
  BY DEF Answer
<1> QED BY <1>1 DEF Complete, TypeOK

LEMMA TypeKept ==
  ASSUME Inv, [Next]_vars PROVE TypeOK'
<1>1. waiters' \in [Caller -> 0 .. Cardinality(Caller)]
  BY CountKept DEF Inv
<1>a. TypeOK /\ "none" \in Error /\ "cache" \in Error /\ "callback" \in Error
        /\ "canceled" \in Error /\ cached \in Version \cup {NoValue}
        /\ NoValue \in Version \cup {NoValue} /\ "timeout" \in Error
  BY DEF Inv, TypeOK, Error
<1>b. \A v \in Version \cup {NoValue}, e \in Error : [value |-> v, error |-> e] \in Answer
  BY DEF Answer
<1> USE <1>1 DEF Inv, TypeOK
<1>2. CASE Update \/ Evict \/ Done \/ UNCHANGED vars
  BY <1>2 DEF Update, Evict, Done, vars, callVars, callerVars, historyVars, Version
<1>3. ASSUME NEW c \in Caller, Remember(c) PROVE TypeOK'
  BY <1>3, <1>a, <1>b, SMTT(20) DEF Return, Complete, Remember, callVars, historyVars
<1>4. ASSUME NEW c \in Caller, ComputeAlone(c) \/ StoreAlone(c) PROVE TypeOK'
  <2>1. CASE ComputeAlone(c)
    <3>1. result' \in [Caller -> Answer] /\ read' \in [Caller -> Version \cup {NoValue}]
      BY <2>1, <1>a, <1>b DEF Return, ComputeAlone, callVars
    <3> QED BY <2>1, <3>1 DEF Return, ComputeAlone, callVars, historyVars
  <2>2. CASE StoreAlone(c)
    <3>1. read[c] \in Nat
      BY <2>2 DEF StoreAlone, CancelsAndStores, Version
    <3>2. \/ Return(c, read[c], "none") /\ Store(read[c])
          \/ Return(c, NoValue, "cache") /\ UNCHANGED <<cached, computations>>
      BY <2>2 DEF StoreAlone
    <3>3. cached' \in Version \cup {NoValue} /\ computations' \in Nat
      BY <3>1, <3>2 DEF Store, Version
    <3>4. /\ result' \in [Caller -> Answer]
          /\ pc' \in [Caller -> {"idle", "missed", "storing", "waiting", "canceling", "done"}]
      BY <1>a, <3>1, <3>2, ReturnType DEF Version
    <3> QED BY <2>2, <3>3, <3>4 DEF StoreAlone, callVars
  <2> QED BY <1>4, <2>1, <2>2
<1>5. ASSUME NEW c \in Caller, Join(c) PROVE TypeOK'
  <2>1. inFlight[Flight(c)] \in Caller
    BY <1>5, FlightType DEF Join, Joinable
  <2> QED BY <1>5, <2>1 DEF Join, historyVars
<1>6. ASSUME NEW c \in Caller, Lead(c) PROVE TypeOK'
  <2>1. inFlight' \in [BOOLEAN -> Caller \cup {NoCall}]
    BY <1>6, FlightType DEF Lead
  <2> QED BY <1>6, <2>1 DEF Lead, historyVars
<1>7. ASSUME NEW c \in Caller, TakeOutcome(c) \/ TimeOut(c) \/ Cancel(c) PROVE TypeOK'
  <2>1. pc[c] \in {"waiting", "canceling"} => joined[c] \in Caller
    BY DEF Led
  <2>2. CASE TakeOutcome(c)
    BY <2>1, <2>2 DEF TakeOutcome, LeaveWait, historyVars
  <2>3. CASE TimeOut(c)
    BY <2>1, <2>3, <1>a, <1>b DEF TimeOut, LeaveWait, historyVars
  <2>4. CASE Cancel(c)
    BY <2>1, <2>4 DEF Cancel, historyVars
  <2> QED BY <1>7, <2>2, <2>3, <2>4
<1>8. ASSUME NEW p \in Caller, LeaderStep(p) PROVE TypeOK'
  <2>2. CASE Recheck(p)
    BY <2>2, <1>a, <1>b, SMTT(20) DEF Return, Complete, Recheck, FoundOnRecheck, callerVars, historyVars
  <2>3. CASE CallbackReturns(p)
    BY <2>3, <1>a, <1>b, SMTT(20) DEF Return, Complete, CallbackReturns, callerVars, historyVars
  <2>4. CASE StoreComputed(p)
    <3>1. read[p] \in Nat
      BY <2>4 DEF StoreComputed, CancelsAndStores, Version
    <3>2. \/ Complete(p, read[p], "none") /\ Store(read[p])
          \/ Complete(p, NoValue, "cache") /\ UNCHANGED <<cached, computations>>
      BY <2>4 DEF StoreComputed
    <3>3. cached' \in Version \cup {NoValue} /\ computations' \in Nat
      BY <3>1, <3>2 DEF Store, Version
    <3>4. /\ outcome' \in [Caller -> Answer]
          /\ leader' \in [Caller -> {"none", "recheck", "computing", "storing", "leaving", "ended"}]
      BY <1>a, <3>1, <3>2, CompleteType DEF Version
    <3> QED BY <2>4, <3>3, <3>4 DEF StoreComputed, callerVars
  <2>5. CASE LeaderLeaves(p)
    <3>1. inFlight' \in [BOOLEAN -> Caller \cup {NoCall}]
      BY <2>5, FlightType DEF LeaderLeaves
    <3> QED BY <2>5, <3>1 DEF LeaderLeaves, callerVars, historyVars
  <2> QED BY <1>8, <2>2, <2>3, <2>4, <2>5 DEF LeaderStep
<1> QED BY <1>2, <1>3, <1>4, <1>5, <1>6, <1>7, <1>8 DEF Next, CallerStep

LEMMA CancelsAndStoresKept ==
  ASSUME Inv, [Next]_vars PROVE CancelsAndStores'
<1>0. Cancelable' = Cancelable /\ Unprotected' = Unprotected
  BY OptionKept DEF Cancelable, Unprotected
<1> USE <1>0 DEF Inv, TypeOK, CancelsAndStores, Return, Complete, Version
<1>1. CASE Update \/ Evict \/ Done \/ UNCHANGED vars
  BY <1>1 DEF Update, Evict, Done, vars, callVars, callerVars
<1>2. ASSUME NEW c \in Caller, Remember(c) PROVE CancelsAndStores'
  BY <1>2 DEF Remember, callVars
<1>3. ASSUME NEW c \in Caller, ComputeAlone(c) \/ StoreAlone(c) PROVE CancelsAndStores'
  BY <1>3 DEF ComputeAlone, StoreAlone, callVars
<1>4. ASSUME NEW c \in Caller, Join(c) \/ Lead(c) PROVE CancelsAndStores'
  BY <1>4 DEF Join, Lead
<1>5. ASSUME NEW c \in Caller, TakeOutcome(c) \/ TimeOut(c) \/ Cancel(c) PROVE CancelsAndStores'
  <2>1. pc[c] \in {"waiting", "canceling"} => joined[c] \in Caller
    BY DEF Led
  <2> QED BY <1>5, <2>1 DEF TakeOutcome, TimeOut, LeaveWait, LastWaiter, Cancel
<1>6. ASSUME NEW p \in Caller, LeaderStep(p) PROVE CancelsAndStores'
  BY <1>6 DEF LeaderStep, Recheck, CallbackReturns, StoreComputed, LeaderLeaves, callerVars
<1> QED BY <1>1, <1>2, <1>3, <1>4, <1>5, <1>6 DEF Next, CallerStep

LEMMA BusyKept ==
  ASSUME Inv, [Next]_vars PROVE BusyIsInFlight'
<1>0. \A p : Flight(p)' = Flight(p) /\ Flight(p) \in BOOLEAN
  BY OptionKept DEF Flight, Cancelable
<1> USE <1>0 DEF Inv, TypeOK, BusyIsInFlight
<1>1. CASE Update \/ Evict \/ Done \/ UNCHANGED vars
  BY <1>1 DEF Update, Evict, Done, vars, callVars
<1>2. ASSUME NEW c \in Caller, Remember(c) \/ ComputeAlone(c) \/ StoreAlone(c)
      PROVE  BusyIsInFlight'
  BY <1>2 DEF Remember, ComputeAlone, StoreAlone, callVars
<1>3. ASSUME NEW c \in Caller, Join(c) \/ TakeOutcome(c) \/ TimeOut(c) PROVE BusyIsInFlight'
  BY <1>3 DEF Join, TakeOutcome, TimeOut, LeaveWait
<1>4. ASSUME NEW c \in Caller, Lead(c) PROVE BusyIsInFlight'
  BY <1>4 DEF Lead, Joinable
<1>5. ASSUME NEW c \in Caller, Cancel(c) PROVE BusyIsInFlight'
  BY <1>5 DEF Cancel, Led
<1>6. ASSUME NEW q \in Caller, Recheck(q) \/ CallbackReturns(q) \/ StoreComputed(q)
      PROVE  BusyIsInFlight'
  BY <1>6 DEF Recheck, CallbackReturns, StoreComputed, Complete
<1>7. ASSUME NEW q \in Caller, LeaderLeaves(q) PROVE BusyIsInFlight'
  BY <1>7 DEF LeaderLeaves, RemovesEntry
<1> QED BY <1>1, <1>2, <1>3, <1>4, <1>5, <1>6, <1>7 DEF Next, CallerStep, LeaderStep

LEMMA LeftKept ==
  ASSUME Inv, [Next]_vars PROVE LeftIsCanceled'
<1>0. Cancelable' = Cancelable
  BY OptionKept DEF Cancelable
<1> USE <1>0 DEF Inv, TypeOK, LeftIsCanceled
<1>1. CASE Update \/ Evict \/ Done \/ UNCHANGED vars
  BY <1>1 DEF Update, Evict, Done, vars, callVars, callerVars
<1>2. ASSUME NEW c \in Caller, Remember(c) \/ ComputeAlone(c) \/ StoreAlone(c)
      PROVE  LeftIsCanceled'
  BY <1>2 DEF Remember, ComputeAlone, StoreAlone, Return, callVars
<1>3. ASSUME NEW c \in Caller, Join(c) PROVE LeftIsCanceled'
  <2>1. inFlight[Flight(c)] \in Caller
    BY <1>3, FlightType DEF Join, Joinable
  <2> QED BY <1>3, <2>1 DEF Join
<1>4. ASSUME NEW c \in Caller, Lead(c) PROVE LeftIsCanceled'
  BY <1>4 DEF Lead
<1>5. ASSUME NEW c \in Caller, TakeOutcome(c) \/ TimeOut(c) PROVE LeftIsCanceled'
  <2>1. joined[c] \in Caller /\ leader[joined[c]] # "none"
    BY <1>5 DEF TakeOutcome, TimeOut, Led
  <2> QED BY <1>5, <2>1 DEF TakeOutcome, TimeOut, LeaveWait, LastWaiter
<1>6. ASSUME NEW c \in Caller, Cancel(c) PROVE LeftIsCanceled'
  BY <1>6 DEF Cancel, Led
<1>7. ASSUME NEW q \in Caller, LeaderStep(q) PROVE LeftIsCanceled'
  BY <1>7 DEF LeaderStep, Recheck, CallbackReturns, StoreComputed, LeaderLeaves, Complete, callerVars
<1> QED BY <1>1, <1>2, <1>3, <1>4, <1>5, <1>6, <1>7 DEF Next, CallerStep

Stages == {"none", "recheck", "computing", "storing", "leaving", "ended"}

LEMMA AccountsKept ==
  ASSUME Inv, [Next]_vars PROVE Accounts'
<1> SUFFICES ASSUME PlainCallers
             PROVE  /\ \A p \in Caller : leader'[p] \in {"computing", "storing"} => cached' = NoValue
                    /\ computations' = evictions' + IF cached' = NoValue THEN 0 ELSE 1
  BY OptionKept DEF Accounts, PlainCallers, Unprotected, Cancelable
<1>0. /\ \A c \in Caller : ~canceled[c] /\ pc[c] # "storing" /\ ~Flight(c)
      /\ \A p \in Caller : leader[p] \in {"computing", "storing"} => cached = NoValue
      /\ computations = evictions + IF cached = NoValue THEN 0 ELSE 1
      /\ computations \in Nat /\ evictions \in Nat /\ leader \in [Caller -> Stages]
  <2>1. \A c \in Caller : ~canceled[c] /\ pc[c] # "storing" /\ ~Flight(c)
    BY DEF Inv, CancelsAndStores, PlainCallers, Flight
  <2>2. computations \in Nat /\ evictions \in Nat /\ leader \in [Caller -> Stages]
    BY DEF Inv, TypeOK, Stages
  <2> QED BY <2>1, <2>2 DEF Inv, Accounts
<1>1. CASE Update \/ Done \/ UNCHANGED vars
  BY <1>0, <1>1 DEF Update, Done, vars, callVars, historyVars
<1>2. CASE Evict
  BY <1>0, <1>2 DEF Evict, callVars
<1>3. ASSUME NEW c \in Caller,
             Remember(c) \/ ComputeAlone(c) \/ Join(c) \/ TakeOutcome(c) \/ TimeOut(c) \/ Cancel(c)
      PROVE  UNCHANGED <<leader, cached, historyVars>>
  BY <1>3 DEF Remember, ComputeAlone, Join, TakeOutcome, TimeOut, LeaveWait, Cancel, callVars
<1>4. ASSUME NEW c \in Caller, Lead(c)
      PROVE  UNCHANGED <<cached, historyVars>> /\ leader' = [leader EXCEPT ![c] = "recheck"]
  BY <1>4 DEF Lead
<1>5. ASSUME NEW c \in Caller, StoreAlone(c) PROVE FALSE
  BY <1>0, <1>5 DEF StoreAlone
<1>6. ASSUME NEW q \in Caller, Recheck(q) \/ CallbackReturns(q) \/ LeaderLeaves(q)
      PROVE  /\ UNCHANGED <<cached, historyVars>>
             /\ \A p \in Caller : leader'[p] \in {"computing", "storing"} => cached = NoValue
  BY <1>0, <1>6 DEF Recheck, FoundOnRecheck, CallbackReturns, LeaderLeaves, Complete
<1>7. ASSUME NEW q \in Caller, StoreComputed(q)
      PROVE  /\ \A p \in Caller : leader'[p] \in {"computing", "storing"} => cached' = NoValue
             /\ computations' = evictions' + IF cached' = NoValue THEN 0 ELSE 1
  <2>1. cached = NoValue /\ read[q] \in Nat /\ evictions' = evictions
    BY <1>0, <1>7 DEF StoreComputed, Inv, CancelsAndStores, Version
  <2>2. \A p \in Caller : leader[p] \in {"computing", "storing"} => p = q
    <3>1. \A p \in Caller : Flight(p) = FALSE
      BY <1>0, FlightType
    <3>2. \A p \in Caller : leader[p] \in {"computing", "storing"} => inFlight[FALSE] = p
      BY <1>0, <3>1 DEF Inv, BusyIsInFlight
    <3> QED BY <1>7, <3>2 DEF StoreComputed
  <2>3. leader'[q] = "leaving" /\ \A p \in Caller : p # q => leader'[p] = leader[p]
    BY <1>0, <1>7 DEF StoreComputed, Complete
  <2>4. \/ cached' = read[q] /\ computations' = computations + 1
        \/ UNCHANGED <<cached, computations>>
    BY <1>7 DEF StoreComputed, Store
  <2> QED BY <1>0, <2>1, <2>2, <2>3, <2>4
<1> QED
  BY <1>0, <1>1, <1>2, <1>3, <1>4, <1>5, <1>6, <1>7 DEF Next, CallerStep, LeaderStep, historyVars
-----------------------------------------------------------------------------
LEMMA InvNext == Inv /\ [Next]_vars => Inv'
BY LedKept, CountKept, TypeKept, CancelsAndStoresKept, BusyKept, LeftKept, AccountsKept DEF Inv

THEOREM RememberInvariance == Spec => []Inv
<1>1. Inv /\ [Next]_vars => Inv'
  BY InvNext
<1> QED BY InvInit, <1>1, PTL DEF Spec

(* Of the callers that agree on being cancelable, one computes at a time,  *)
(* a computation that was canceled aside.                                  *)
THEOREM OneComputationHolds == Spec => []OneComputation
<1>1. Inv => OneComputation
  BY DEF Inv, BusyIsInFlight, OneComputation, Working
<1> QED BY RememberInvariance, <1>1, PTL

(* A cancelable call that nobody waits for is canceled, or is about to be. *)
THEOREM AbandonedIsCanceledHolds == Spec => []AbandonedIsCanceled
<1>1. Inv => AbandonedIsCanceled
  <2> SUFFICES ASSUME Inv, NEW p \in Cancelable, Working(p), waiters[p] = 0
               PROVE  canceled[p] \/ \E c \in Caller : pc[c] = "canceling" /\ joined[c] = p
    BY DEF AbandonedIsCanceled
  <2>1. p \in Caller
    BY DEF Inv, TypeOK, Cancelable
  <2> QED BY <2>1 DEF Inv, LeftIsCanceled, Working
<1> QED BY RememberInvariance, <1>1, PTL

(* Without cancellation a value is computed again only after the cache has *)
(* lost it.                                                                *)
THEOREM ComputedOncePerEvictionHolds == Spec => []ComputedOncePerEviction
<1>1. Inv => ComputedOncePerEviction
  BY DEF Inv, TypeOK, Accounts, ComputedOncePerEviction
<1> QED BY RememberInvariance, <1>1, PTL
=============================================================================
