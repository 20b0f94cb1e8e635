------------------------- MODULE ContainerResolver --------------------------
(***************************************************************************)
(* The service container of v3/container: concurrent resolutions, each     *)
(* with a resolver context of its own, create services at most once behind *)
(* a creation guard, wait for one another, consult the scope they started  *)
(* in, and race Close and OverrideProtectedInstance.                       *)
(*                                                                         *)
(* Every action is one critical section of container.mutex (or one section *)
(* of scope.mutex, or one step of a provider between two of them).         *)
(***************************************************************************)
EXTENDS CloseOrder

CONSTANTS
  Ctx,            \* resolver contexts; each serves one outermost Get
  Closer,         \* goroutines that call container.Close
  Scope,          \* request scopes
  ScopeOf,        \* the scope a context starts in: [Ctx -> Scope \cup {NoScope}]
  Requests,       \* the keys an outermost Get may ask for
  Deps,           \* the keys a service's provider resolves: [Name -> SUBSET Key]
  Flaky,          \* services whose provider may fail on its own
  FlakyClose,     \* services whose instance may fail to close
  Overridable,    \* services OverrideProtectedInstance is called for
  ScopeOverridable,  \* services a scope's OverrideProtectedInstance is called for
  NoValue, NoCtx, NoScope, NoKey, Override

ASSUME ResolverAssumption ==
  /\ ScopeOf \in [Ctx -> Scope \cup {NoScope}]
  /\ Requests \subseteq Key
  /\ Deps \in [Name -> SUBSET Key]
  /\ Flaky \subseteq Name /\ FlakyClose \subseteq Name
  /\ Overridable \subseteq Name /\ ScopeOverridable \subseteq Name
  /\ NoCtx \notin Ctx /\ NoScope \notin Scope /\ NoKey \notin Key
  /\ NoValue \notin Name \X (Ctx \cup Scope \cup {Override})
  /\ Scope \cap (Ctx \cup {Override}) = {}  \* a value tells who made it
  /\ Override \notin Ctx

VARIABLES
  instances,        \* [Name -> value or NoValue]
  typeInstances,    \* [Type -> value or NoValue]
  creating,         \* owner of the creationState of a guard key, or NoCtx
  waitGraph,        \* resolverWaitGraph, a set of edges <<waiter, owner>>
  dependencyGraph,  \* edges <<dependent key, dependency key>>
  isClosed, closeErr,
  scopeOpen, scopeInstances,
  pc,               \* where the innermost Get of a context is
  asked,            \* the key of that Get
  waitsOn,          \* the owner that Get waits for
  wakeErr,          \* lastCreationErr of the creation it was woken from
  stack,            \* the providers a context is running, innermost first
  result,           \* what the outermost Get returned
  closerPc, closeResult,
  toClose,          \* the close candidates not yet visited
  closeFailed,      \* the Close in progress met a cycle or a failing instance
  closeLog,         \* history: every Close() made on an instance, in order
  produced,         \* history: instances a provider returned
  holds             \* history: <<u, v>> when the provider of u obtained v

vars == <<instances, typeInstances, creating, waitGraph, dependencyGraph, isClosed,
          closeErr, scopeOpen, scopeInstances, pc, asked, waitsOn, wakeErr, stack,
          result, closerPc, closeResult, toClose, closeFailed, closeLog, produced, holds>>

registryVars == <<instances, typeInstances, creating, dependencyGraph>>
resolverVars == <<waitGraph, pc, asked, waitsOn, wakeErr, stack, result>>
scopeVars == <<scopeOpen, scopeInstances>>
closeVars == <<isClosed, closeErr, closerPc, closeResult, toClose, closeFailed>>
historyVars == <<closeLog, produced, holds>>

(* An instance is named by its service and by who made it.                 *)
Value == Name \X (Ctx \cup Scope \cup {Override})

Error == {"none", "circular", "creationFailed", "containerClosed", "scopeClosed",
          "ambiguousType", "unavailable"}

Frame == [key : Key, guard : Key, todo : SUBSET Key, got : SUBSET Value, broken : Error]
Result == [value : Value \cup {NoValue}, error : Error]
Pending == [value |-> NoValue, error |-> "none"]

RegisteredUnder(n) == {t \in Type : \E i \in DOMAIN TypeServices[t] : TypeServices[t][i] = n}

Ambiguous(k) == k \in Type /\ Len(TypeServices[k]) > 1

(* The key whose creationState guards k: a type registered for one service *)
(* shares that service's guard.                                            *)
Guard(k) == IF k \in Type /\ Len(TypeServices[k]) = 1 THEN TypeServices[k][1] ELSE k

Registered(guard) == guard \in Name

Cached(guard) == IF guard \in Name THEN instances[guard] ELSE typeInstances[guard]

OnStack(c, k) == \E i \in DOMAIN stack[c] : stack[c][i].key = k

(* hasResolverPathLocked: every set that contains `start` and is closed    *)
(* under the edges contains `target`.                                      *)
HasResolverPath(start, target) ==
  \A S \in SUBSET Ctx :
    (start \in S /\ \A e \in waitGraph : e[1] \in S => e[2] \in S) => target \in S

(* The innermost Get of c returns to the provider that called it, or, when *)
(* no provider is left in `outer`, to the outermost caller; the contexts   *)
(* in `woken` see their wait channel closed.                               *)
NextPc(c, outer, woken) ==
  [d \in Ctx |-> IF d = c THEN IF outer = << >> THEN "done" ELSE "running"
                 ELSE IF d \in woken THEN "woken" ELSE pc[d]]

Received(frame, value, error) ==
  [frame EXCEPT !.got = IF error = "none" THEN @ \cup {value} ELSE @,
                !.broken = IF error = "none" THEN @ ELSE error]

Answer(c, outer, woken, value, error) ==
  /\ pc' = NextPc(c, outer, woken)
  /\ stack' = [stack EXCEPT ![c] =
                 IF outer = << >> THEN << >>
                 ELSE <<Received(Head(outer), value, error)>> \o Tail(outer)]
  /\ result' = IF outer = << >>
               THEN [result EXCEPT ![c] = [value |-> value, error |-> error]]
               ELSE result
  /\ asked' = [asked EXCEPT ![c] = NoKey]

Init ==
  /\ instances = [n \in Name |-> NoValue]
  /\ typeInstances = [t \in Type |-> NoValue]
  /\ creating = [k \in Key |-> NoCtx]
  /\ waitGraph = {} /\ dependencyGraph = {}
  /\ isClosed = FALSE /\ closeErr = FALSE
  /\ scopeOpen = [s \in Scope |-> TRUE]
  /\ scopeInstances = [s \in Scope |-> [k \in Key |-> NoValue]]
  /\ pc = [c \in Ctx |-> "idle"] /\ asked = [c \in Ctx |-> NoKey]
  /\ waitsOn = [c \in Ctx |-> NoCtx] /\ wakeErr = [c \in Ctx |-> "none"]
  /\ stack = [c \in Ctx |-> << >>] /\ result = [c \in Ctx |-> Pending]
  /\ closerPc = [x \in Closer |-> "idle"] /\ closeResult = [x \in Closer |-> "none"]
  /\ toClose = << >> /\ closeFailed = FALSE
  /\ closeLog = << >> /\ produced = {} /\ holds = {}
-----------------------------------------------------------------------------
(* container.Get, scope.Get and their ByType forms, by any caller.         *)
Enter(c, k) ==
  /\ asked' = [asked EXCEPT ![c] = k]
  /\ pc' = [pc EXCEPT ![c] = IF ScopeOf[c] = NoScope THEN "locking" ELSE "entered"]
  /\ UNCHANGED <<registryVars, waitGraph, waitsOn, wakeErr, result, scopeVars, closeVars, historyVars>>

Request(c, k) ==
  /\ pc[c] = "idle" /\ k \in Requests
  /\ Enter(c, k)
  /\ UNCHANGED stack

Without(frame, k) == [frame EXCEPT !.todo = @ \ {k}]

(* A running provider resolves one of its dependencies; pushKey fails when *)
(* the key is already on the context's own stack.                          *)
ProviderGet(c, k) ==
  /\ pc[c] = "running" /\ k \in Head(stack[c]).todo
  /\ ~OnStack(c, k)
  /\ stack' = [stack EXCEPT ![c] = <<Without(Head(@), k)>> \o Tail(@)]
  /\ Enter(c, k)

ProviderGetCircular(c, k) ==
  /\ pc[c] = "running" /\ k \in Head(stack[c]).todo
  /\ OnStack(c, k)
  /\ stack' = [stack EXCEPT ![c] =
                 <<Received(Without(Head(@), k), NoValue, "circular")>> \o Tail(@)]
  /\ UNCHANGED <<pc, asked, registryVars, waitGraph, waitsOn, wakeErr, result,
                 scopeVars, closeVars, historyVars>>

(* mutant: what a scope finds is cached in the container.                  *)
LookupScopeCaches(c) ==
  LET found == scopeInstances[ScopeOf[c]][asked[c]]
  IN  /\ pc[c] = "entered"
      /\ IF found # NoValue
         THEN /\ Answer(c, stack[c], {}, found, "none")
              /\ instances' = [instances EXCEPT ![found[1]] = found]
         ELSE /\ pc' = [pc EXCEPT ![c] = "locking"]
              /\ UNCHANGED <<stack, result, asked, instances>>
      /\ UNCHANGED <<typeInstances, creating, dependencyGraph, waitGraph, waitsOn, wakeErr,
                     scopeVars, closeVars, historyVars>>

(* lookupInstanceByName / lookupInstanceByType on the scope of the context. *)
LookupScope(c) ==
  LET s == ScopeOf[c]
      found == scopeInstances[s][asked[c]]
  IN  /\ pc[c] = "entered"
      /\ \/ /\ ~scopeOpen[s]
            /\ Answer(c, stack[c], {}, NoValue, "scopeClosed")
         \/ /\ scopeOpen[s] /\ found # NoValue
            /\ Answer(c, stack[c], {}, found, "none")
         \/ /\ scopeOpen[s] /\ found = NoValue
            /\ pc' = [pc EXCEPT ![c] = "locking"]
            /\ UNCHANGED <<stack, result, asked>>
      /\ UNCHANGED <<registryVars, waitGraph, waitsOn, wakeErr, scopeVars, closeVars, historyVars>>
-----------------------------------------------------------------------------
(* The locked part of Get and GetByType up to the point where the context  *)
(* answers, waits or starts the provider; serviceWithCreationGuardLocked.  *)

(* mutant: the edge is recorded only when the instance is still to be made. *)
RegisterDependencyOnMiss(c) ==
  dependencyGraph' = IF stack[c] = << >> \/ Cached(Guard(asked[c])) # NoValue
                     THEN dependencyGraph
                     ELSE dependencyGraph \cup {<<Head(stack[c]).key, asked[c]>>}

RegisterDependency(c) ==
  dependencyGraph' = IF stack[c] = << >> THEN dependencyGraph
                     ELSE dependencyGraph \cup {<<Head(stack[c]).key, asked[c]>>}

ResolveAmbiguous(c) ==
  /\ pc[c] = "locking" /\ Ambiguous(asked[c])
  /\ RegisterDependency(c)
  /\ Answer(c, stack[c], {}, NoValue, "ambiguousType")
  /\ UNCHANGED <<instances, typeInstances, creating, waitGraph, waitsOn, wakeErr,
                 scopeVars, closeVars, historyVars>>

ResolveHit(c) ==
  LET k == asked[c]
      value == Cached(Guard(k))
  IN  /\ pc[c] = "locking" /\ ~Ambiguous(k) /\ value # NoValue
      /\ RegisterDependency(c)
      /\ typeInstances' = IF k \in Type THEN [typeInstances EXCEPT ![k] = value]
                          ELSE typeInstances
      /\ Answer(c, stack[c], {}, value, "none")
      /\ UNCHANGED <<instances, creating, waitGraph, waitsOn, wakeErr,
                     scopeVars, closeVars, historyVars>>

Missing(c) ==
  pc[c] = "locking" /\ ~Ambiguous(asked[c]) /\ Cached(Guard(asked[c])) = NoValue

(* mutant: a type does not share the guard of the service it stands for.   *)
OwnerByAskedKey(c) == creating[asked[c]]

Owner(c) == creating[Guard(asked[c])]

(* mutants: only a context's own creation is refused; only a direct edge.  *)
RefusesOwnCreation(c) == Owner(c) = c
RefusesDirectEdge(c) == Owner(c) = c \/ <<Owner(c), c>> \in waitGraph

(* registerResolverWaitLocked reports a circular dependency.               *)
RefusesWait(c) == HasResolverPath(Owner(c), c)

WaitEdge(c) == <<c, Owner(c)>>

ResolveCircular(c) ==
  /\ Missing(c) /\ Owner(c) # NoCtx /\ RefusesWait(c)
  /\ RegisterDependency(c)
  /\ Answer(c, stack[c], {}, NoValue, "circular")
  /\ UNCHANGED <<instances, typeInstances, creating, waitGraph, waitsOn, wakeErr,
                 scopeVars, closeVars, historyVars>>

ResolveWait(c) ==
  /\ Missing(c) /\ Owner(c) # NoCtx /\ ~RefusesWait(c)
  /\ RegisterDependency(c)
  /\ waitGraph' = waitGraph \cup {WaitEdge(c)}
  /\ waitsOn' = [waitsOn EXCEPT ![c] = Owner(c)]
  /\ pc' = [pc EXCEPT ![c] = "waiting"]
  /\ UNCHANGED <<instances, typeInstances, creating, asked, wakeErr, stack, result,
                 scopeVars, closeVars, historyVars>>

ResolveClosed(c) ==
  /\ Missing(c) /\ Owner(c) = NoCtx /\ isClosed
  /\ RegisterDependency(c)
  /\ Answer(c, stack[c], {}, NoValue, "containerClosed")
  /\ UNCHANGED <<instances, typeInstances, creating, waitGraph, waitsOn, wakeErr,
                 scopeVars, closeVars, historyVars>>

NewFrame(k) ==
  [key |-> k, guard |-> Guard(k), got |-> {}, broken |-> "none",
   todo |-> IF Registered(Guard(k)) THEN Deps[Guard(k)] ELSE {}]

ResolveCreate(c) ==
  /\ Missing(c) /\ Owner(c) = NoCtx /\ ~isClosed
  /\ RegisterDependency(c)
  /\ creating' = [creating EXCEPT ![Guard(asked[c])] = c]
  /\ stack' = [stack EXCEPT ![c] = <<NewFrame(asked[c])>> \o @]
  /\ asked' = [asked EXCEPT ![c] = NoKey]
  /\ pc' = [pc EXCEPT ![c] = "running"]
  /\ UNCHANGED <<instances, typeInstances, waitGraph, waitsOn, wakeErr, result,
                 scopeVars, closeVars, historyVars>>

(* The waiter relocks the mutex after its wait channel was closed, and     *)
(* only now removes its edge.                                              *)
Resume(c) ==
  LET value == Cached(Guard(asked[c]))
      error == IF wakeErr[c] # "none" THEN wakeErr[c]
               ELSE IF value = NoValue THEN "unavailable" ELSE "none"
  IN  /\ pc[c] = "woken"
      /\ waitGraph' = waitGraph \ {<<c, waitsOn[c]>>}
      /\ waitsOn' = [waitsOn EXCEPT ![c] = NoCtx]
      /\ wakeErr' = [wakeErr EXCEPT ![c] = "none"]
      /\ Answer(c, stack[c], {}, IF error = "none" THEN value ELSE NoValue, error)
      /\ UNCHANGED <<registryVars, scopeVars, closeVars, historyVars>>
-----------------------------------------------------------------------------
(* The provider returned and the creator holds the mutex again: it records *)
(* the outcome in the creationState, removes it and closes its channel.    *)

WaitingFor(guard) == {d \in Ctx : pc[d] = "waiting" /\ Guard(asked[d]) = guard}

FinishCreation(c, value, error) ==
  LET frame == Head(stack[c])
      woken == WaitingFor(frame.guard)
  IN  /\ creating' = [creating EXCEPT ![frame.guard] = NoCtx]
      /\ wakeErr' = [d \in Ctx |-> IF d \in woken THEN error ELSE wakeErr[d]]
      /\ Answer(c, Tail(stack[c]), woken, value, error)

Produce(c) ==
  LET frame == Head(stack[c])
      value == <<frame.guard, c>>
  IN  /\ pc[c] = "running" /\ Registered(frame.guard) /\ frame.todo = {}
      /\ produced' = produced \cup {value}
      /\ holds' = holds \cup {<<value, v>> : v \in frame.got}

(* mutant: a creation that outlived Close is stored all the same.          *)
NeverTooLate == FALSE

TooLate == isClosed

StoredInstances(frame, value) == [instances EXCEPT ![frame.guard] = value]

ProviderStores(c) ==
  LET frame == Head(stack[c])
      value == <<frame.guard, c>>
  IN  /\ Produce(c) /\ ~TooLate
      /\ instances' = StoredInstances(frame, value)
      /\ typeInstances' = IF frame.key \in Type
                          THEN [typeInstances EXCEPT ![frame.key] = value]
                          ELSE typeInstances
      /\ FinishCreation(c, value, "none")
      /\ UNCHANGED <<dependencyGraph, waitGraph, waitsOn, scopeVars, closeVars, closeLog>>

(* Close() ran while the provider did: the value is closed with the mutex  *)
(* released, and never stored.                                             *)
ProviderTooLate(c) ==
  /\ Produce(c) /\ TooLate
  /\ closeLog' = Append(closeLog, <<Head(stack[c]).guard, c>>)
  /\ pc' = [pc EXCEPT ![c] = "late"]
  /\ UNCHANGED <<registryVars, waitGraph, waitsOn, wakeErr, asked, stack, result,
                 scopeVars, closeVars>>

RelockLate(c) ==
  /\ pc[c] = "late"
  /\ FinishCreation(c, NoValue, "containerClosed")
  /\ UNCHANGED <<instances, typeInstances, dependencyGraph, waitGraph, waitsOn,
                 scopeVars, closeVars, historyVars>>

(* The provider returned an error or nil, panicked, passed on the failure  *)
(* of a dependency, or does not exist.                                     *)
ProviderFails(c) ==
  LET frame == Head(stack[c])
      error == IF frame.broken # "none" THEN frame.broken ELSE "creationFailed"
  IN  /\ pc[c] = "running"
      /\ frame.guard \in Flaky \/ frame.broken # "none" \/ ~Registered(frame.guard)
      /\ FinishCreation(c, NoValue, error)
      /\ UNCHANGED <<instances, typeInstances, dependencyGraph, waitGraph, waitsOn,
                     scopeVars, closeVars, historyVars>>
-----------------------------------------------------------------------------
(* OverrideProtectedInstance; t is the canonical type of the value.        *)
OverrideInstance(n, t) ==
  LET value == <<n, Override>>
  IN  /\ n \in Overridable
      /\ instances' = [instances EXCEPT ![n] = value]
      /\ typeInstances' = [u \in Type |->
           IF (u = t /\ TypeServices[t] # << >>) \/ u \in RegisteredUnder(n)
           THEN value ELSE typeInstances[u]]
      /\ UNCHANGED <<creating, dependencyGraph, resolverVars, scopeVars, closeVars,
                     historyVars>>

Overlay(s, n, t) ==
  [scopeInstances EXCEPT ![s] = [k \in Key |-> IF k = n \/ k = t THEN <<n, s>> ELSE @[k]]]

ScopeOverrideInstance(s, n, t) ==
  /\ n \in ScopeOverridable /\ scopeOpen[s]
  /\ scopeInstances' = Overlay(s, n, t)
  /\ UNCHANGED <<registryVars, resolverVars, scopeOpen, closeVars, historyVars>>

ScopeClose(s) ==
  /\ scopeOpen[s]
  /\ scopeOpen' = [scopeOpen EXCEPT ![s] = FALSE]
  /\ scopeInstances' = [scopeInstances EXCEPT ![s] = [k \in Key |-> NoValue]]
  /\ UNCHANGED <<registryVars, resolverVars, closeVars, historyVars>>
-----------------------------------------------------------------------------
(* container.Close                                                         *)
(* The node keys of what the maps hold.                                    *)
NodeValue == [k \in Key |-> IF k \in Name THEN instances[k] ELSE typeInstances[k]]

CreatedKeys == {k \in Key : NodeValue[k] # NoValue}

FirstClose(x) == closerPc[x] = "idle" /\ ~isClosed

CloseBegin(x) ==
  LET order == CloseOrder(CreatedKeys, NodeValue, Value, dependencyGraph)
  IN  /\ FirstClose(x)
      /\ isClosed' = TRUE
      /\ toClose' = [i \in DOMAIN order |-> NodeValue[order[i]]]
      /\ closeFailed' = CloseCycle(CreatedKeys, NodeValue, Value, dependencyGraph)
      /\ closerPc' = [closerPc EXCEPT ![x] = "closing"]
      /\ UNCHANGED <<registryVars, resolverVars, scopeVars, closeErr, closeResult, historyVars>>

(* A Close() that finds the container closed reports what is known so far. *)
CloseAgain(x) ==
  /\ closerPc[x] = "idle" /\ isClosed
  /\ closerPc' = [closerPc EXCEPT ![x] = "returned"]
  /\ closeResult' = [closeResult EXCEPT ![x] = IF closeErr THEN "error" ELSE "nil"]
  /\ UNCHANGED <<registryVars, resolverVars, scopeVars, isClosed, closeErr, toClose,
                 closeFailed, historyVars>>

(* Candidates share no instance (see ContainerShutdown), so the check for  *)
(* an instance this Close has already closed never skips one.              *)
CloseValue(x) ==
  /\ closerPc[x] = "closing" /\ toClose # << >>
  /\ toClose' = Tail(toClose)
  /\ closeLog' = Append(closeLog, Head(toClose))
  /\ \/ closeFailed' = closeFailed
     \/ Head(toClose)[1] \in FlakyClose /\ closeFailed' = TRUE
  /\ UNCHANGED <<registryVars, resolverVars, scopeVars, isClosed, closeErr, closerPc,
                 closeResult, produced, holds>>

CloseEnd(x) ==
  /\ closerPc[x] = "closing" /\ toClose = << >>
  /\ closeErr' = closeFailed
  /\ closerPc' = [closerPc EXCEPT ![x] = "returned"]
  /\ closeResult' = [closeResult EXCEPT ![x] = IF closeFailed THEN "error" ELSE "nil"]
  /\ UNCHANGED <<registryVars, resolverVars, scopeVars, isClosed, toClose, closeFailed,
                 historyVars>>
-----------------------------------------------------------------------------
Done ==
  /\ \A c \in Ctx : pc[c] = "done"
  /\ \A x \in Closer : closerPc[x] = "returned"
  /\ UNCHANGED vars

(* The steps a started resolution takes by itself. *)
Resolve(c) ==
  \/ \E k \in Key : ProviderGet(c, k) \/ ProviderGetCircular(c, k)
  \/ LookupScope(c)
  \/ ResolveAmbiguous(c) \/ ResolveHit(c) \/ ResolveCircular(c) \/ ResolveWait(c)
  \/ ResolveClosed(c) \/ ResolveCreate(c) \/ Resume(c)
  \/ ProviderStores(c) \/ ProviderTooLate(c) \/ RelockLate(c) \/ ProviderFails(c)

Close(x) == CloseBegin(x) \/ CloseAgain(x) \/ CloseValue(x) \/ CloseEnd(x)

Next ==
  \/ \E c \in Ctx : (\E k \in Key : Request(c, k)) \/ Resolve(c)
  \/ \E x \in Closer : Close(x)
  \/ \E n \in Name, t \in Type \cup {NoKey} :
       \/ OverrideInstance(n, t)
       \/ \E s \in Scope : ScopeOverrideInstance(s, n, t)
  \/ \E s \in Scope : ScopeClose(s)
  \/ Done

Spec == Init /\ [][Next]_vars

(* Goroutines are scheduled, sync.RWMutex starves nobody, and a provider   *)
(* that is running eventually returns.                                     *)
Fairness ==
  /\ \A c \in Ctx : WF_vars(Resolve(c))
  /\ \A x \in Closer : WF_vars(CloseValue(x) \/ CloseEnd(x))

FairSpec == Spec /\ Fairness
-----------------------------------------------------------------------------
(* The resolution variables have the types their fields have in the code.  *)
ResolverTypeOK ==
  /\ instances \in [Name -> Value \cup {NoValue}]
  /\ typeInstances \in [Type -> Value \cup {NoValue}]
  /\ creating \in [Key -> Ctx \cup {NoCtx}]
  /\ waitGraph \subseteq Ctx \X Ctx
  /\ dependencyGraph \subseteq Key \X Key
  /\ scopeOpen \in [Scope -> BOOLEAN]
  /\ scopeInstances \in [Scope -> [Key -> Value \cup {NoValue}]]
  /\ pc \in [Ctx -> {"idle", "entered", "locking", "waiting", "woken", "running",
                     "late", "done"}]
  /\ asked \in [Ctx -> Key \cup {NoKey}]
  /\ waitsOn \in [Ctx -> Ctx \cup {NoCtx}]
  /\ wakeErr \in [Ctx -> Error]
  /\ stack \in [Ctx -> Seq(Frame)]
  /\ result \in [Ctx -> Result]

(* Contexts never wait for one another in a circle: in any group of them   *)
(* one is not blocked on a creation owned inside the group.                *)
NoCircularWait ==
  \A S \in (SUBSET Ctx) \ {{}} :
    \E c \in S : ~(pc[c] = "waiting" /\ Owner(c) \in S)

(* Why there is no circular wait.  A context in the middle of a Get has a   *)
(* key (and in "entered" a scope); a running provider has a frame.         *)
PcConsistent ==
  \A c \in Ctx :
    /\ pc[c] \in {"entered", "locking", "waiting", "woken"} => asked[c] \in Key
    /\ pc[c] = "entered" => ScopeOf[c] \in Scope
    /\ pc[c] \in {"running", "late"} => stack[c] # << >>

(* A blocked context has an edge to the context that owns the creation.    *)
WaitsOnOwner ==
  \A c \in Ctx : pc[c] = "waiting" => Owner(c) # NoCtx /\ <<c, Owner(c)>> \in waitGraph

(* The wait graph has no cycle: any set of contexts has a member with no   *)
(* edge into the set.                                                      *)
WaitGraphAcyclic ==
  \A S \in SUBSET Ctx : S # {} => \E c \in S : \A d \in S : <<c, d>> \notin waitGraph

(* The inductive invariant behind NoCircularWait: what the creation guard, *)
(* the wait graph and the program counters say of each other.              *)
WaitInv == ResolverTypeOK /\ PcConsistent /\ WaitsOnOwner /\ WaitGraphAcyclic

(* No instance is closed twice, whatever Close, a second Close and the     *)
(* creations they race do; and once Close is through its candidates none a *)
(* provider returned is left open, unless an override has taken its place. *)
ClosedExactlyOnce ==
  /\ IsInjective(closeLog)
  /\ isClosed /\ toClose = << >> =>
       \A v \in produced : v \in Range(closeLog) \/ instances[v[1]] # v

(* No dependency is closed while a stored instance that was built with it  *)
(* is still to be closed.                                                  *)
DependentsClosedFirst ==
  \A h \in holds :
    instances[h[1][1]] = h[1] /\ h[2] \in Range(closeLog) => h[1] \in Range(closeLog)

(* An instance given to one scope reaches only resolutions of that scope:  *)
(* no other caller and no other running provider receives it directly.     *)
ScopedInstancesStayInScope ==
  \A c \in Ctx : \A v \in {result[c].value} \cup UNION {f.got : f \in Range(stack[c])} :
    v # NoValue /\ v[2] \in Scope => v[2] = ScopeOf[c]

(* A resolution that was started returns, with a value or an error.        *)
EveryGetReturns == \A c \in Ctx : (pc[c] = "locking") ~> (pc[c] = "done")

(* Without overrides and scopes the container keeps the promise of         *)
(* ServiceRegistry: what is stored is the instance, what the outermost Get *)
(* returned is the answer.                                                 *)
Registry == INSTANCE ServiceRegistry WITH
  Caller <- Ctx, Service <- Name, Instance <- Value, NoInstance <- NoValue,
  Failure <- Error \ {"none"},
  instance <- instances, answer <- result, open <- ~isClosed

ImplementsRegistry == Registry!Spec
-----------------------------------------------------------------------------
(* CONTAINER.md:161: detection of circular dependencies is scoped to one   *)
(* resolver context, so with acyclic dependencies nobody is told of one.   *)
CircularErrorsAreReal == \A c \in Ctx : result[c].error # "circular"
=============================================================================
