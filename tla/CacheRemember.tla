---------------------------- MODULE CacheRemember ----------------------------
(***************************************************************************)
(* cache.Remember (v3/cache/remember.go, remember_in_flight.go) for one    *)
(* key of one cache: callers that miss share a computation in flight, run  *)
(* by a leader goroutine, and the last waiter to give up cancels it.       *)
(*                                                                         *)
(* The value of the key is the version of a source the callback reads.  A  *)
(* call in flight is named by the caller that created it.                  *)
(***************************************************************************)
EXTENDS Naturals, FiniteSets

CONSTANTS
  Caller,       \* goroutines that call Remember, each once
  Options,      \* what they may ask for: who switches the stampede
                \* protection off, who wants to be cancelable, whose wait
                \* timeout may run out; and how far the source may change
  CallbackFails, CacheFails,  \* whether a callback, the cache, may fail
  NoCall, NoValue

ASSUME RememberAssumption ==
  /\ Options \subseteq [unprotected : SUBSET Caller, cancelable : SUBSET Caller,
                       impatient : SUBSET Caller, maxVersion : Nat]
  /\ CallbackFails \in BOOLEAN /\ CacheFails \in BOOLEAN
  /\ IsFiniteSet(Caller) /\ NoCall \notin Caller /\ NoValue \notin Nat

VARIABLES
  option,    \* the RememberOption of the callers, and a bound; it does not change
  source,    \* the version a callback would read
  cached,    \* what the cache holds under the key
  inFlight,  \* inFlightByKey: one single-flight key for each value of isCancelable
  waiters,   \* waitersCount of a call
  canceled,  \* whether the context of a call is canceled
  outcome,   \* result and err of a call, once Complete was called
  leader,    \* where the leader goroutine of a call is
  read,      \* what the callback of a call, or of an unprotected caller, returned
  pc, joined, result,
  computations,  \* history: values that callbacks made and the cache took
  evictions      \* history: how often the cache lost the value

vars == <<option, source, cached, inFlight, waiters, canceled, outcome, leader, read, pc,
          joined, result, computations, evictions>>

callVars == <<option, inFlight, waiters, canceled, outcome, leader>>
callerVars == <<pc, joined, result>>
historyVars == <<computations, evictions>>

Error == {"none", "cache", "callback", "canceled", "timeout"}
Version == Nat
Answer == [value : Version \cup {NoValue}, error : Error]
Pending == [value |-> NoValue, error |-> "none"]

Unprotected == option.unprotected
Cancelable == option.cancelable
Impatient == option.impatient
MaxVersion == option.maxVersion  \* bounds the updates and the evictions
Flight(c) == c \in Cancelable

Init ==
  /\ option \in Options
  /\ source = 0 /\ cached = NoValue
  /\ inFlight = [f \in BOOLEAN |-> NoCall]
  /\ waiters = [p \in Caller |-> 0] /\ canceled = [p \in Caller |-> FALSE]
  /\ outcome = [p \in Caller |-> Pending] /\ leader = [p \in Caller |-> "none"]
  /\ read = [p \in Caller |-> NoValue]
  /\ pc = [c \in Caller |-> "idle"] /\ joined = [c \in Caller |-> NoCall]
  /\ result = [c \in Caller |-> Pending]
  /\ computations = 0 /\ evictions = 0

Return(c, value, error) ==
  /\ result' = [result EXCEPT ![c] = [value |-> value, error |-> error]]
  /\ pc' = [pc EXCEPT ![c] = "done"]
-----------------------------------------------------------------------------
(* The data behind the key changes; Delete, Clear, expiry and the LRU make *)
(* the cache lose the value.                                               *)
Update ==
  /\ source < MaxVersion
  /\ source' = source + 1
  /\ UNCHANGED <<cached, callVars, read, callerVars, historyVars>>

Evict ==
  /\ cached # NoValue /\ evictions < MaxVersion
  /\ cached' = NoValue
  /\ evictions' = evictions + 1
  /\ UNCHANGED <<source, callVars, read, callerVars, computations>>

Store(value) ==
  /\ cached' = value
  /\ computations' = computations + 1
-----------------------------------------------------------------------------
(* A caller: the first Get.                                                *)
Remember(c) ==
  /\ pc[c] = "idle"
  /\ \/ cached # NoValue /\ Return(c, cached, "none")
     \/ CacheFails /\ Return(c, NoValue, "cache")
     \/ cached = NoValue /\ pc' = [pc EXCEPT ![c] = "missed"] /\ UNCHANGED result
  /\ UNCHANGED <<source, cached, callVars, read, joined, historyVars>>

(* rememberWithoutStampedeProtection *)
ComputeAlone(c) ==
  /\ pc[c] = "missed" /\ c \in Unprotected
  /\ \/ /\ read' = [read EXCEPT ![c] = source]
        /\ pc' = [pc EXCEPT ![c] = "storing"]
        /\ UNCHANGED result
     \/ CallbackFails /\ Return(c, NoValue, "callback") /\ UNCHANGED read
  /\ UNCHANGED <<source, cached, callVars, joined, historyVars>>

StoreAlone(c) ==
  /\ pc[c] = "storing"
  /\ \/ Store(read[c]) /\ Return(c, read[c], "none")
     \/ CacheFails /\ Return(c, NoValue, "cache") /\ UNCHANGED <<cached, computations>>
  /\ UNCHANGED <<source, callVars, read, joined, evictions>>

(* A canceled call is about to fail, so a newcomer replaces it.            *)
Joinable(c) == inFlight[Flight(c)] # NoCall /\ ~canceled[inFlight[Flight(c)]]

Join(c) ==
  /\ pc[c] = "missed" /\ c \notin Unprotected /\ Joinable(c)
  /\ waiters' = [waiters EXCEPT ![inFlight[Flight(c)]] = @ + 1]
  /\ joined' = [joined EXCEPT ![c] = inFlight[Flight(c)]]
  /\ pc' = [pc EXCEPT ![c] = "waiting"]
  /\ UNCHANGED <<option, source, cached, inFlight, canceled, outcome, leader, read, result, historyVars>>

Lead(c) ==
  /\ pc[c] = "missed" /\ c \notin Unprotected /\ ~Joinable(c)
  /\ inFlight' = [inFlight EXCEPT ![Flight(c)] = c]
  /\ waiters' = [waiters EXCEPT ![c] = 1]
  /\ leader' = [leader EXCEPT ![c] = "recheck"]
  /\ joined' = [joined EXCEPT ![c] = c]
  /\ pc' = [pc EXCEPT ![c] = "waiting"]
  /\ UNCHANGED <<option, source, cached, canceled, outcome, read, result, historyVars>>

Completed(p) == leader[p] \in {"leaving", "ended"}

(* mutant: the counter is compared before it is decremented.               *)
NobodyIsLast(c) == waiters[joined[c]] = 0 /\ joined[c] \in Cancelable

LastWaiter(c) == waiters[joined[c]] = 1 /\ joined[c] \in Cancelable

(* Wait returns and RemoveWaiter decrements the counter; the last waiter   *)
(* goes on to cancel the context, which is a step of its own: neither is   *)
(* done under the shard's mutex.                                           *)
LeaveWait(c, answer) ==
  /\ waiters' = [waiters EXCEPT ![joined[c]] = @ - 1]
  /\ result' = [result EXCEPT ![c] = answer]
  /\ pc' = [pc EXCEPT ![c] = IF LastWaiter(c) THEN "canceling" ELSE "done"]
  /\ UNCHANGED <<option, source, cached, inFlight, canceled, outcome, leader, read, joined,
                 historyVars>>

TakeOutcome(c) ==
  /\ pc[c] = "waiting" /\ Completed(joined[c])
  /\ LeaveWait(c, outcome[joined[c]])

TimeOut(c) ==
  /\ pc[c] = "waiting" /\ c \in Impatient
  /\ LeaveWait(c, [value |-> NoValue, error |-> "timeout"])

Cancel(c) ==
  /\ pc[c] = "canceling"
  /\ canceled' = [canceled EXCEPT ![joined[c]] = TRUE]
  /\ pc' = [pc EXCEPT ![c] = "done"]
  /\ UNCHANGED <<option, source, cached, inFlight, waiters, outcome, leader, read, joined,
                 result, historyVars>>
-----------------------------------------------------------------------------
(* executeRememberInFlightLeader, for the call p.                          *)

(* mutant: an error is not answered but retried.                           *)
RetryError(p, value, error) ==
  /\ outcome' = [outcome EXCEPT ![p] = [value |-> value, error |-> error]]
  /\ leader' = [leader EXCEPT ![p] = IF error = "none" THEN "leaving" ELSE "recheck"]

Complete(p, value, error) ==
  /\ outcome' = [outcome EXCEPT ![p] = [value |-> value, error |-> error]]
  /\ leader' = [leader EXCEPT ![p] = "leaving"]

(* mutant: the leader computes whatever the cache holds by now.            *)
SkipRecheck(p) == FALSE

FoundOnRecheck(p) == cached # NoValue

Recheck(p) ==
  /\ leader[p] = "recheck"
  /\ \/ FoundOnRecheck(p) /\ Complete(p, cached, "none")
     \/ CacheFails /\ Complete(p, NoValue, "cache")
     \/ /\ ~FoundOnRecheck(p)
        /\ leader' = [leader EXCEPT ![p] = "computing"]
        /\ UNCHANGED outcome
  /\ UNCHANGED <<option, source, cached, inFlight, waiters, canceled, read, callerVars, historyVars>>

(* The callback returns a value, an error (a panic is one), or gives up    *)
(* because it sees its context canceled; it need not look.                 *)
CallbackReturns(p) ==
  /\ leader[p] = "computing"
  /\ \/ /\ read' = [read EXCEPT ![p] = source]
        /\ leader' = [leader EXCEPT ![p] = "storing"]
        /\ UNCHANGED outcome
     \/ CallbackFails /\ Complete(p, NoValue, "callback") /\ UNCHANGED read
     \/ canceled[p] /\ Complete(p, NoValue, "canceled") /\ UNCHANGED read
  /\ UNCHANGED <<option, source, cached, inFlight, waiters, canceled, callerVars, historyVars>>

StoreComputed(p) ==
  /\ leader[p] = "storing"
  /\ \/ Store(read[p]) /\ Complete(p, read[p], "none")
     \/ CacheFails /\ Complete(p, NoValue, "cache") /\ UNCHANGED <<cached, computations>>
  /\ UNCHANGED <<option, source, inFlight, waiters, canceled, read, callerVars, evictions>>

(* mutant: the leader removes whatever is in flight.                       *)
RemoveAny(p) == TRUE

RemovesEntry(p) == inFlight[Flight(p)] = p

LeaderLeaves(p) ==
  /\ leader[p] = "leaving"
  /\ inFlight' = IF RemovesEntry(p) THEN [inFlight EXCEPT ![Flight(p)] = NoCall] ELSE inFlight
  /\ leader' = [leader EXCEPT ![p] = "ended"]
  /\ UNCHANGED <<option, source, cached, waiters, canceled, outcome, read, callerVars, historyVars>>
-----------------------------------------------------------------------------
CallerStep(c) ==
  \/ ComputeAlone(c) \/ StoreAlone(c) \/ Join(c) \/ Lead(c)
  \/ TakeOutcome(c) \/ Cancel(c)

LeaderStep(p) == Recheck(p) \/ CallbackReturns(p) \/ StoreComputed(p) \/ LeaderLeaves(p)

Done ==
  /\ \A c \in Caller : pc[c] = "done" /\ leader[c] \in {"none", "ended"}
  /\ UNCHANGED vars

Next ==
  \/ Update \/ Evict
  \/ \E c \in Caller : Remember(c) \/ CallerStep(c) \/ TimeOut(c) \/ LeaderStep(c)
  \/ Done

Spec == Init /\ [][Next]_vars

(* Goroutines are scheduled and a callback eventually returns; nothing is  *)
(* assumed of timers, evictions or the source.                             *)
Fairness == \A c \in Caller : WF_vars(CallerStep(c)) /\ WF_vars(LeaderStep(c))

FairSpec == Spec /\ Fairness
-----------------------------------------------------------------------------
TypeOK ==
  /\ option \in Options
  /\ source \in Version /\ cached \in Version \cup {NoValue}
  /\ inFlight \in [BOOLEAN -> Caller \cup {NoCall}]
  /\ waiters \in [Caller -> 0 .. Cardinality(Caller)]
  /\ canceled \in [Caller -> BOOLEAN]
  /\ outcome \in [Caller -> Answer] /\ result \in [Caller -> Answer]
  /\ leader \in [Caller -> {"none", "recheck", "computing", "storing", "leaving", "ended"}]
  /\ read \in [Caller -> Version \cup {NoValue}]
  /\ pc \in [Caller -> {"idle", "missed", "storing", "waiting", "canceling", "done"}]
  /\ joined \in [Caller -> Caller \cup {NoCall}]
  /\ computations \in Nat /\ evictions \in Nat

Working(p) == leader[p] \in {"recheck", "computing", "storing"}

(* Stampede protection: of the callers that agree on being cancelable, one *)
(* computes at a time, a computation that was canceled aside.              *)
OneComputation ==
  \A p, q \in Caller :
    Working(p) /\ Working(q) /\ Flight(p) = Flight(q) /\ ~canceled[p] /\ ~canceled[q]
      => p = q

(* A cancelable call nobody waits for any more is canceled, or is about to *)
(* be by the one who left last.                                            *)
AbandonedIsCanceled ==
  \A p \in Cancelable :
    Working(p) /\ waiters[p] = 0 =>
      canceled[p] \/ \E c \in Caller : pc[c] = "canceling" /\ joined[c] = p

(* The value is computed once, and again only after the cache has lost it: *)
(* a caller that missed before the value was stored does not compute it a  *)
(* second time.  This is for callers that are protected and not cancelable. *)
PlainCallers == Unprotected = {} /\ Cancelable = {}

ComputedOncePerEviction == PlainCallers => computations <= evictions + 1

(* Every caller that missed gets an answer, however the callback, the      *)
(* cache and the other waiters fare.                                       *)
EveryRememberReturns == \A c \in Caller : (pc[c] = "missed") ~> (pc[c] = "done")
-----------------------------------------------------------------------------
(* remember.go:120: "a late joiner must not inherit that poison": a caller *)
(* that waits is not answered with the cancellation of others.             *)
JoinersAreNotCanceled == \A c \in Caller : result[c].error # "canceled"
=============================================================================
