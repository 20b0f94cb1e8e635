# Verification of melody

TLA+ models of the concurrent core of the melody framework, the TLC runs that
check them, and TLAPS proofs of what matters most in them. Sources are under
`src/`; the models follow the v3 line of the framework and of its integrations.
`PROJECT.json` lists the components, the runs, the mutants, the map from every
definition to its source lines, the findings, the hazards and the theorems.

Check everything in this directory with

    tlc -workers 2 -config <run's cfg> <run's module>
    tlapm <module>Proofs.tla

## 1. Inventory

melody is a Go framework: an application boots modules that register services,
routes and commands, and serves HTTP requests or runs commands. Most packages
are stateless or single-threaded. The state that several goroutines touch, and
the components that lean on an external system that may fail, are these.

| component | state | operations | interacts with | hard behaviour | what makes it correct |
|---|---|---|---|---|---|
| container (`v3/container`) | instances by name and by type, creation guards, wait graph, dependency graph, scopes, overrides | `Get`, `GetByType`, `OverrideInstance`, `NewScope`, scope and container `Close` | providers call back into the resolver; everything is resolved through it | creations that wait for one another across goroutines; close during creation; failing providers | each service is created once; nobody waits in a circle or forever; what was created is closed once, dependents first; a scope's instances stay in it |
| cache `Remember` (`v3/cache/remember*.go`) | the call in flight per key, its waiters, its cancellation | `Remember` with cancelable, impatient or unprotected callers | cache backend, callback | joining, leaving, cancelling and replacing a computation at once | one computation at a time; it is cancelled exactly when nobody waits; every caller is answered; an old value never replaces a new one |
| lock (`v3/lock`, `integrations/*/lock.go`) | leases by name; a pinned session; a key with a token | `Acquire`, `Refresh`, `Release` | clock; MySQL; Redis | expiry, lost replies, dead sessions, stale owners | mutual exclusion while a lease is relied on; no lease is lost early; no name stays locked by nobody |
| message bus consumption (`v3/messagebus`) | channel of envelopes, worker pool, limit, redelivery and dead-letter counts | `Send`, `Receive`, `Ack`, `Nack`, the consume command | handlers, failure transport, signals | shutdown against work in progress; retries; limits shared by workers | every message is in one place, settled or given up as configured; the command ends |
| AMQP transport (`integrations/amqp/v3`) | connection, publish and consume channel, generation, flags | the same, against a broker | the consume command, the broker | reconnecting from several goroutines; stale delivery tags; lost confirmations | nothing accepted is lost; no connection or channel leaks; senders return; consumption resumes |
| in-memory cache (`v3/cache/in_memory.go`) | entries, LRU list | `Get`, `Has`, `Set`, `Delete`, `Many`, `SetMultiple`, `DeleteMultiple`, `Increment`, `Decrement`, `Clear`, cleanup | `Remember`, sessions | reads that reorder between two locks, expiry against eviction, counters at the width's end | entries and list agree; the limit holds; every answer is one a map with expiry and eviction could give |
| event hub (`v3/http/server_sent_event_hub.go`) and the AMQP backplane | subscriptions with their channels, closed flag; the backplane's connection, channels, closed flag | `Subscribe`, `Unsubscribe`, `Broadcast`, `DeliverLocal`, `Shutdown`; `Publish`, `listen`, `Close` | HTTP handlers, broker | delivery against shutdown; a publish whose reply is lost; dials that never return | no send on a closed channel; an event is heard once; nothing stays open; `Close` returns; the process hears again after a lost connection |
| session (`v3/session`) | records by id, in memory or in a file; the session of a request with its flags | start, save, delete, regenerate | HTTP kernel | two requests of one session; partial writes, crashes | what is answered is what was stored; an acknowledged save survives a restart; a failed one leaves no trace |
| HTTP kernel (`v3/http/kernel.go`) | one request: response, writer, session, scope, phase | `ServeHttp` | session, events, handler, container | panics, failing handlers and listeners, bodies that fail half-way | one answer; each body closed once; the cookie agrees with the store |
| token stores (`v3/security`, `integrations/rueidis`) | tokens, index by user | `Put`, `Find`, `Revoke`, `RevokeByUser`, purge | bearer tokens | expiry and revocation at once; a token put again for another user | a revoked or expired token is not found; revoking one user's tokens leaves the others' |
| firewall listeners, access control, voters, role hierarchy | compiled configuration; the request's security context | authenticate, authorize | kernel, token store | failures half-way; intricate decisions | nobody passes a rule whose roles he lacks, and nobody is refused who has them |
| configuration (`v3/config`) | parameters with text and value | `Resolve`, at construction and at boot | everything | map order, references, circles, escapes | resolution ends; values do not depend on order; circles are refused |
| event dispatcher (`v3/event`) | listeners by event and priority | add, remove, dispatch | kernel, modules | a dispatch works on a snapshot | order by priority; stop of propagation |
| router, rate limiter (`v3/http`) | route table; windows by key | match; allow, reset, cleanup | kernel | the table is read-only after boot; the limiter is one mutex hold | the documented route; no more than the limit in a window |
| application | boot phases | boot, run, close | everything | sequential | shutdown after the server drained |
| other packages | none that outlives a call | validation, serializers, bags, mail, HTTP client, logging, translation, OpenAPI, storage, CLI | | formatting and I/O | |
| other integrations | the external library's | cron files, OpenTelemetry, S3, websockets, column encryption, database providers | external libraries | | |

`v1` and `v2` are maintenance lines of the same packages and are not modelled
separately.

## 2. Modules

| module | models | stands on |
|---|---|---|
| `CloseOrder` | `container_close.go`: aliases of one instance, the collapsed dependency graph, the order of `Close`, as a pure operator | |
| `ContainerShutdown` | the containers `Close` may find, filled key by key and edge by edge, and what its order owes to each | `CloseOrder` |
| `ContainerResolver` | `container_resolver.go`, `resolver_context.go`, `container.go`, `scope.go`, `container_close.go`: resolution, guards, wait graph, scopes, overrides, `Close` | `CloseOrder` |
| `ServiceRegistry` | what a container promises: services that are created once, in some order, or refused | refined by `ContainerResolver` |
| `ContainerResolverProofs` | theorems about them | `ContainerResolver`, `ContainerShutdown` |
| `CacheRemember`, `CacheRememberProofs` | `remember.go`, `remember_in_flight.go` | |
| `CacheContract` | what a cache backend promises: a map whose keys expire and may be evicted | refined by `InMemoryCache` |
| `InMemoryCache`, `InMemoryCacheProofs` | `cache/in_memory.go` | `CacheContract` |
| `LockContract` | `lock/contract/lock.go`: what every locker promises | |
| `InMemoryLocker` | `lock/in_memory.go` | refines `LockContract` |
| `MysqlLock` | `bunorm/mysql/v3/lock.go`, statement by statement | refines `LockContract` |
| `RedisLock` | `rueidis/v3/lock.go` | refines `LockContract` |
| `Lockers` | the three lockers side by side, and what each promises | `InMemoryLocker`, `MysqlLock`, `RedisLock` |
| `MessageConsumer`, `MessageConsumerProofs` | `consume_command.go`, `transport_in_memory.go` | |
| `AmqpTransport`, `AmqpTransportProofs` | `amqp/v3/transport.go` | |
| `SessionStore` | what a session storage promises | refined by `SessionStorage` within `HttpKernel` |
| `SessionStorage` | `session/in_memory_storage.go`, `session/file_storage.go` | |
| `HttpKernel`, `HttpKernelProofs` | `http/kernel.go`, `router_utility.go`, `session/manager.go`, `session/session.go`: requests over a session storage | `SessionStorage` |
| `ServerSentEventHub`, `ServerSentEventHubProofs` | `http/server_sent_event_hub.go`, `amqp/v3/server_sent_event_backplane.go` | |
| `TokenContract` | what a revocable token store promises | |
| `InMemoryTokenStore`, `RedisTokenStore` | `security/in_memory_token_store.go`, `rueidis/v3/token_store.go` | refine `TokenContract` |
| `TokenStores` | the two token stores side by side, and what each promises | `InMemoryTokenStore`, `RedisTokenStore` |
| `ContractProofs` | theorems about the three lockers, the two token stores and the listeners | `Lockers`, `TokenStores`, `SecurityListeners` |
| `AccessDecision` | rules, strategies, voters and inherited roles, as pure operators | |
| `SecurityListeners` | the two kernel listeners with bearer tokens and API keys | `AccessDecision`, `TokenContract` |
| `Configuration` | `config/configuration_resolve.go` and what feeds it | |

`MC...` modules hold the definitions their configurations need and nothing
about the code. `MCLocks`, `MCSecurity` and `MCBootAndShutdown` put components
that do not meet into one specification: `running`, chosen in the initial
state, says which of them moves. Operators whose comment begins with `mutant:` are faulty
versions of the definition below them; the specifications never use them.

### ContainerResolver

A *context* is one chain of `Get` calls with its `resolverContext`. `pc` tells
where it is between two holds of the container's mutex; `stack` has a frame for
each creation it is in, `asked` what it wants now. The mutex sections are the
actions: `Request` and `ProviderGet` ask for a key; under the mutex the context
then finds the instance (`ResolveHit`), finds an ambiguous type or a closed
container, is refused a circle (`ResolveCircular`), waits for the owner of the
guard and adds its edge (`ResolveWait`), or creates (`ResolveCreate`); `Resume`
is a waiter that has the mutex again, and `ProviderStores`, `ProviderTooLate`
and `ProviderFails` are the ends of a creation, which drop the guard and wake.
`Deps` says what each provider asks for and `Flaky`
which may fail; a provider is otherwise any interleaving of such calls.
`CloseBegin`, `CloseValue` and `CloseEnd` are `Close`; a creation that ends
after the snapshot closes its own value (`ProviderTooLate`, `RelockLate`). Registration happens before: the
repository registers services in its boot phases.

A waiter's edge in the wait graph lives from the hold that added it until the
waiter holds the mutex again, not until it is woken. The proof needs that and
one finding comes from it.

### CacheRemember

One key. Callers choose the unprotected path, a plain or a cancelable call; the
leader's goroutine is a process of its own (`leader`), so that a caller that
leaves does not stop it. The value is the version of the source the callback
read. Timers may fire whenever a caller waits.

### InMemoryCache

A call reads the clock when it begins and takes the mutex later, so `now` may
have moved between the two: the contract judges an entry's life by a time
between. `Get` and `Many` are two holds: under the read lock they read, under
the write lock they move what is still the same item to the front. What goes
through several keys in one hold of the write lock (`SetMultiple`, eviction,
the cleanup) is several steps with `holder` keeping the others out; `Get`,
`Set` and `Delete` are `Many`, `SetMultiple` and `DeleteMultiple` of one key. A
payload is a number or `Word`, which a counter refuses; a blank payload counts
as zero in the code and is a number here. Numbers wrap where the code's would,
so the overflow checks matter. Hit counters of items are left out.

### LockContract and its implementations

`owner[n]` is who may rely on the name `n` and `Tell` what a call answers. A
contract owner may lose the name (expiry, a dead session), never to two others
at once, and `Acquire` may grant only a free name or one's own. In
`InMemoryLocker` the owner is the lease that counts at `now`; in `MysqlLock` it
is the lock whose session the server has as holder, and a name that is held by
a session no lock stands for is owned by `Stray`; in `RedisLock` it is the
token in the key. `MysqlLock` separates a statement's effect from its reply:
`AskFails` may leave the name locked. In `RedisLock` each script is one step of
the server, and its reply may be lost. Leases are cut to whole milliseconds and
never below one. The server is assumed to keep its data but for expiry.

### MessageConsumer

A worker's select takes a message or sees the end; `Consumed` and `Count` are
the steps between which another worker may run. A dispatch is its outcome: all
handlers succeed, or one fails. `policy` is chosen at the start: the retry
policy, the command line and the transport, with the capacity of its channel.
Without a buffer an envelope is handed to a worker that waits in its select,
which then is "receiving" and can only take it; a requeue finds one or is
dropped. `wedged` messages have handlers that never return; a `fragile`
transport closes its delivery channel, as `consumeLoop` of the AMQP transport
does (`DeliveryEnds`).

### AmqpTransport

Producers, workers (acknowledging, rejecting, republishing) and the consume
loop share one transport. Each hold of `mutex` is a step, and each request to
the broker one of its own: `Ensure`, `Connect`, `Dial`, `OpenChannel`,
`StoreChannel`, `Publish`, `Confirm`, `Retry`. The broker drops connections and
channels, and refuses publishes, channels, subscriptions and dials, as often as
`maxFaults` says; a closed channel returns its unacknowledged deliveries. Tags
count from one on every channel, as AMQP's do, which is why stamps carry a
generation. `subscribe` and the reading of the generation are one step: only
the loop changes the generation.

### SessionStorage and HttpKernel

`SessionStorage` has the two storages, the file either replaced by a rename
("path") or rewritten in place ("handle"). A change of the file storage is one
hold of its mutex: it changes the map, flushes all of it and, when that fails,
puts the map back. `Crash` may leave the file as before, as after, or, for a
handle, torn. `HttpKernel` adds the requests. `at` names the stretch of
`ServeHttp` a request is in; listeners and handlers return a response, none,
an error, or panic. `wild` requests do everything; the others are plain, so that
two of them can be interleaved. `SessionStore` is the promise: a session
changes only by the one write of a request that was acknowledged.

Left out: that a power failure may undo a rename (the code does not sync the
directory); `Save` reads the clock before it has the lock; `InMemoryStorage.Clear`,
which its tests alone call; route choice and the attributes of cookies. That the
last writer of a session wins, and that a save brings back a session another
request deleted, is what the code does and the contract allows.

### ServerSentEventHub

One topic and its subscribers, the AMQP backplane, and a broker that breaks
connections and channels and refuses dials, channels, queues and consumers up
to `MaxFaults` times; a dialer may also never return. Publishers, the listener
and `Close` are processes with a `task` each. An event that a subscriber drops
for want of room counts as heard. An event on the exchange carries its origin:
`Forward` drops what this process published and delivers what others did. Each
event of `Foreign` is one publication; when another process repeats one whose
answer was lost, its subscribers hear it twice, and so the code has it. The
broker may also cancel the consumer and leave its channel open. Numbers of
closed channels and connections are used again, which keeps the state space
finite.

### Token stores, AccessDecision, SecurityListeners

Both stores refine `TokenContract`: `owner` is whose token it is now. In memory
the clock is read before the lock; in Redis every script is a step of the
server, keys expire by themselves, and the set of a user may name tokens that
are no longer his. How many tokens a call removed is left out, and
`PurgeExpired` is one script for each key. `SecurityListeners` runs over the
contract, not over one of the stores, so that it holds for each.
`AccessDecision` has a path as a sequence of its characters, rules of every
kind, strategies, inherited roles, and the merge of the global and the
firewall's lists; a nil global access control is an empty list. What these should
come to is said a second time at the end of `SecurityListeners`, without the code's
passes: `InForce` orders the rules that apply by precedence, `Inherits` is the least set
of roles, and `Enough` counts votes, a role voter's being whether the user `Has` the role;
`DecisionsAreRight` judges by these. Left out:
`DecideAny` and `IsGranted`, which handlers call, JWT validation, login and
logout, and the order of several firewalls.

A listener that fails sets no response, the dispatcher stops there, and the kernel
logs the error and, without a response, runs the controller. `Unanswered` is that
outcome: the denied event or `kernel.exception` has a failing listener or ends
with a nil response, an entry point returns nil, a matcher, rule, voter or
handler panics, or an earlier listener of `kernel.request` fails or stops the event
(`DispatchEnds`). A refusal of the firewall whose exception event has no response
goes on to access control as an anonymous request. `disturbed` remembers that one
of these happened to the request. `DecisionsAreRight` asks of a disturbed request only
that it counts as a user its token has had, or as nobody's: that its
controller runs is item 8 of section 5. Failures that do not disturb are covered in full: of the
token store, an enricher, the token source, an entry point, a denied handler, and
of a listener of the granted event.

### Configuration

A text is a sequence of symbols, so that what the passes see in it after each
replacement is what the regular expressions would see. `frames` are the calls
of `resolveWithTemplates`; `Walk` takes the names of the map in any order.
`Return` ends the first `Resolve`, registers the runtime parameters as
`Application.Boot` does, and starts the second. `Meaning` says what a template
means without passes and order. `Sound` names the configurations for which
the code gives that meaning; the others are in section 5.

## 3. Runs

| run | bounds | shows |
|---|---|---|
| `boot_and_shutdown` | 140 configurations of 6 names; containers of 3 services, 1 type with two services, 3 recorded dependencies | `BootResolves`; `CloseOrderHolds` for every graph of that size |
| `resolver` | 2 contexts, one in a scope; overrides in scope and container; 2 `Close` calls | `ClosedExactlyOnce`, `DependentsClosedFirst`, `ScopedInstancesStayInScope` |
| `resolver_waits` | 3 contexts, cyclic dependencies, an ambiguous type, a failing provider | `NoCircularWait`, `EveryGetReturns`, and that the resolver implements `ServiceRegistry` |
| `spurious_circular` (violation) | 2 contexts | an acyclic resolution is refused as circular |
| `remember` | 3 callers in 3 mixtures, source versions up to 1 | `OneComputation`, `AbandonedIsCanceled`, `ComputedOncePerEviction`, `EveryRememberReturns` |
| `message_consumer` | 2 messages, 2 workers, 7 policies, channels of 1 and of 0 | `OnePlace`, `GivenUpAsConfigured`, `CleanEndIsEarned`, `ShutdownEnds`, `EveryMessageSettles` |
| `amqp_transport` | 7 setups of 1-2 workers and 0-2 senders, 1-2 faults | `NothingLost`, `NoLeak`, `SendsReturn`, `EveryMessageSettles` |
| `locks` | 3 locks, 2 names in memory; 2 locks, 2 sessions on MySQL; 3 locks on Redis | `MutualExclusion`, `MemoryLocksKeepContract`, `MysqlKeepsContract`, `StrayIsFreed`, `RedisKeepsContract` |
| `http_sessions` | 1 request that does everything, or 2 plain ones, over each storage; 1-2 failed writes, 1 crash, 1 close | `BodiesClosedOnce`, `OneAnswer`, `CookieTellsTheStore`, `ImplementsStore` |
| `in_memory_cache` | 2 callers with 4 and 7 calls, 3 keys, room for 2, numbers -2 to 1, the cleanup | `ListMatchesEntries`, `ImplementsCache` |
| `server_sent_events` | 1 subscriber, 1 publisher, 1 event of another process, the listener, `Close`, 2 faults | `OpenWhileListed`, `HeardOnce`, `NothingLeftOpen`, `CloseReturns`, `ListensAgain` |
| `security` | 2 tokens, 2 users for the stores; 30 configurations, 6 paths, 3 roles for the listeners | `DecisionsAreRight`, `MemoryTokensKeepContract`, `RedisTokensKeepContract` |

Each property has a mutant in `PROJECT.json`: a plausible bug that breaks it.
The modules also define type invariants (`TypeOK`, `ResolverTypeOK`), or their
proofs do; those of the modules that have a `Proofs` module are proved, as parts
of the invariants of section 4.

**Bounds and why they are enough.** Circular waiting needs a circle that no
single context sees: three contexts give one of length two and of length three.
A resolution is by name or by type, and a type with two services is ambiguous
already. Two `Close` calls are enough for one to find the other under way. Two
computations of `Remember` can overlap only if one was replaced, which three
callers reach: one that leaves, one that replaces, one that joins either;
`maxVersion` of 1 tells an old value from a new one. The lock models compare a
lease with at most one rival, and a third lock has another name to show that
names do not interfere; `MaxTime` lets two leases run out in turn. Two workers
with a limit of one and a channel of one message make the limit, the full
channel and the empty channel all happen, and a channel without a buffer the
hand-over and the requeue nobody waits for; `MaxRejections` bounds only how often
the failure transport says no, one more than needed to exceed a dead-letter
bound. In `AmqpTransport` losing a delivery by a stale tag needs two
deliveries, one lost channel and one retry of the tag; a leak needs two clients
that dial; `maxFaults` of two lets a fault hit the recovery from another, and
`maxCopies` bounds how often a worker chooses to retry. Faults and retries are
combined in setups rather than all at once to keep the state space in reach.
The last value of a counter, one past it and the lowest value are within three
steps of one another in a width of four numbers. Eviction in the midst of
`SetMultiple` needs room for two and three keys. A session is
read, changed and written by two requests; a third would repeat one of them.
Two faults let a dial fail, or hang, during the recovery from a lost
channel; a second subscriber would only hear what the first does. The
configurations have every kind of reference that the code distinguishes: direct,
through an alias, to oneself, in a circle, to the environment, to what is
missing or no string, and escapes; `MaxLength` stops a text that grows for ever, in
configurations that are not `Sound`.
`CHECK_DEADLOCK FALSE` stands where the system really stops: all callers
answered, the command returned, the loop ended, every request served,
the backplane closed, the parameters resolved.

**Fairness.** `Resolve`, `CloseValue`, `CallerStep`, `LeaderStep`, `WorkerStep`,
`Looping` and the like are weakly fair: the Go scheduler runs a goroutine that
can run, `sync.RWMutex` starves nobody, and providers, callbacks and handlers
that run return (the wedged handlers of `MessageConsumer` are the exception,
and `ShutdownEnds` is checked with them). Timers that the code relies on to end
(the shutdown grace, a delayed requeue) fire. A MySQL server ends a session
whose client closed it. In
`ServerSentEventHub` a publisher and the listener go on while they can, and a
`Close` that was called goes on; a dialer that hangs is a state of its own,
without a next step. `Resolve` runs on. The components of `HttpKernel`,
`InMemoryCache`, `RedisLock` and the token stores have safety properties only.
Nothing is assumed of interruptions, closes, timeouts of
callers, evictions, faults, or of room for a blocked `Send`. In
`AmqpTransport` the number of faults is finite, so a broker that works in the
end is assumed; `EveryMessageSettles` would be false of one that never does.

## 4. Proofs

Each `Proofs` module states a strengthening that is inductive, shows that the
initial states and every action keep it (one lemma for each action), and draws
the properties from it. The constants are arbitrary: any set of callers,
messages, services or requests, of any size, within the assumptions the modules
state. The properties alone are not inductive; what is added to each, and why,
is this.

**`ContainerResolverProofs`**, for every set of contexts, services, types, scopes,
overrides and dependencies:

- `WaitInvariance`: `Spec => []WaitInv`. `NoCircularWait` speaks of contexts that
  wait now, while the code refuses a circle by looking at `resolverWaitGraph`.
  `WaitInv` ties the two together: the types, what each
  program counter implies (`PcConsistent`), that a waiting context's edge to the
  owner of the guard it waits for is in the graph (`WaitsOnOwner`), and that the
  graph is acyclic (`WaitGraphAcyclic`, said without paths: every non-empty set
  of contexts has a member with no edge into the set). Edges are added by
  `ResolveWait` alone, after `HasResolverPath` found none the other way;
  `NewEdgeKeepsAcyclic` shows that such an edge closes no circle.
- `NoCircularWaitHolds`: `Spec => []NoCircularWait`, from it.
- `ScopedInstancesStayInScopeHolds`. An instance of a scope must be kept from what
  outlives the scope: `Kept` adds that the container's own instances belong to no
  scope and a scope's to that scope (`ValuesKept`), and that a context holds the
  guard of every creation on its stack, each once (`StacksKept`), so that what a
  provider was given ends where the guard says.
- `ResolverImplementsRegistry`: without scopes and overrides, the resolver
  implements `ServiceRegistry`, which is the case the refinement is stated for. `Promised`
  adds that a service whose guard is held has no instance yet, that a cached type
  stands for one service, and that only a context that is done has an answer.
  `ProviderStores` then maps to the creation of a service, an answer to an answer,
  and waiting, waking and closing to a stutter.
- `CloseOrderAlwaysHolds`: whatever a container holds, `Close` lists each instance once
  and, without a cycle, dependents first. `CloseOrder` is a recursion over the
  set of keys that are left. Its equation (`KahnOrderEquation`) and what it computes
  (`KahnOrderSorts`) are proved by induction on the size of that set: the sets for which a
  statement fails have a smallest size, by the well-foundedness of `<` on the naturals
  (`Least`), and one key fewer gives a smaller one (`OneFewer`). `Largest` exists since keys
  are finitely many and ranked apart (`LargestIn`). `Representatives` says that
  representatives share no instance, so the list has none twice.
- `ClosedExactlyOnceHolds` from `ClosingInv`. Which instances were closed says too
  little: a creation that is still at work has not returned the instance it is to make
  (`AtWork`), so what it returns after `Close` is new to the log; until `Close` what was
  returned is still stored or overridden (`UntilClosed`), so the snapshot has it
  (`CandidatesOfClose`); log and candidates stay disjoint (`CandidatesOnce`).
- `DependentsClosedFirstHolds` from `DependencyInv`: whoever holds an instance has an edge
  to it, recorded by the key of the frame that asked (`StacksTraced`, `HoldsTraced`), also
  when the instance came from waiting for another context (`AskedAreNeeds`); at the
  snapshot each created key stands for the service of its guard (`StandsForItself`), the
  edges have no cycle, and so the order puts the holder first (`OrderBegins`); what remains
  of it to be closed keeps the order (`OrderKept`). The theorem has three hypotheses,
  which the constants of the run `resolver` meet, and none can be dropped: providers resolve by name
  (by type, finding 2 of section 5 loses an edge), what they need is acyclic (`Close` of a
  cycle reports an error and has no order to keep), and no override puts its instance under
  a type that stands for another service, which would tie two instances to one key.

**`CacheRememberProofs`**, for any finite set of callers, any mixtures of options and
any number of versions, with a cache and a callback that may fail:
`OneComputationHolds`, `AbandonedIsCanceledHolds` and
`ComputedOncePerEvictionHolds`. `OneComputation` compares two leaders with one
another, the code only a leader with the map of calls in flight: `BusyIsInFlight`
says that a leader at work that was not canceled is the one in the map. For that the
counter of a call must be the number of its waiters (`CountsWaiters`), and a call
without waiters canceled or about to be (`LeftIsCanceled`), wherever its leader is.
`Accounts` counts computations against evictions. `Led` and `CancelsAndStores` say
who may be at which step.

**`MessageConsumerProofs`**, for any messages, workers, channels and policies:

- `OnePlaceHolds` and `GivenUpAsConfiguredHolds` from `Messages`. The dispatches of a
  message are counted by nobody in the code: `CountsAttempts` says that they are the
  sum of the two counters its envelope carries, wherever the envelope is, and that
  these stay within the policy. The lemmas on queues and sets count the positions of
  a message when an envelope is appended, taken or postponed.
- `CleanEndIsEarnedHolds` from `Limits`, over `Messages`. A worker takes a slot before
  it takes a message and gives it back when there was none: `KeepsSlots` says that
  what was taken and the workers about to take fit in the slots, and that, until the
  command is over, the slots are what was processed and what is on the way, and that a
  worker has ended only for want of a slot. So the command does not end because
  each worker left the rest of the limit to another.

**`AmqpTransportProofs`**, for any senders, workers, messages and setups:

- `NoLeakHolds` from `Links`: one client dials at a time, and only without a
  connection (`OneDial`); open channels are on the connection of the transport
  (`OnTheConnection`).
- `NothingLostHolds` from `Vouched`. An acknowledgement must reach the copy it is
  meant for although tags begin again on each channel: `WorkersAnswer` says that
  while the generation is that of a delivery, its tag on the channel at hand names
  that copy or none, `LoopReads` the same of what the loop forwards, and `Tagged`
  that tags are of their channels. A worker that republishes acknowledges
  the old copy after the new one is confirmed; `Vouched` says that a *later* copy vouches for a
  copy that is about to go, since two copies could otherwise vouch for each other.

**`ServerSentEventHubProofs`**, for any publishers and subscribers and any number
of faults: `OpenWhileListedHolds` and `HeardOnceHolds` from `Hub`, where who has not
broadcast yet was not heard (`NotYetHeard`), and where a channel holds an event
of another process once, and the channel the listener reads none that has been
heard (`DeliveredOnce`); and `NothingLeftOpenHolds` from `Links`:
an open connection or channel is the one in use or in the hand of one actor
(`ConnectionsOwned`, `ChannelsOwned`, `OneDialer`), and `Close` takes first the
channels, then the connection (`ClosesInOrder`).

**`HttpKernelProofs`**, for any requests over every session storage:
`BodiesClosedOnceHolds`, `OneAnswerHolds` and `CookieTellsTheStoreHolds`. `Sound` says for
each step of `ServeHttp` who may have answered by then, and that what was answered
and is not at hand any more is closed (`KeepsFiles`); how many headers, scopes and terminations
there were (`Ends`); and that the storage is written at most once, before the header,
which tells of it (`Tells`). The hard cases are the recovery, which runs
the same steps again with one answer more, and the stream, whose header is out
before the session is stored.

`KernelImplementsStore`: `Spec => ImplementsStore`, the kernel with any of the session
storages implements `SessionStore`. What callers see is read from the map while the
process runs and from the file when it does not, so that a crash is harmless only if the
file shows what the map shows: `FileShowsSessions` says so of a running storage whose file is
not damaged, up to expired entries that a failed flush left in the file. `Readable` adds
that a file which decodes encodes to itself, so that a restart changes nothing, and
`PurgesInTime` that the second half of a `Load` in memory judges by a time that has been, so
that it deletes nothing a caller still sees. `Persist` then maps to a `Write` of the request
(which writes once, from `Tells`) or, refused, to a `Refuse`; a process that dies changes one
entry, since each flush it may have been at differs from the map in one (`FlushesOne`);
`Tick` maps to `Pass`, `Restart` to `Return`, and all other steps leave what is seen.

**`ContractProofs`**: each locker implements `LockContract` and each token store
`TokenContract`, for any locks, sessions, tokens, users, durations and purge interval.

- *In memory*, for any names. `LeaseInvariance`: nobody loses a lease that has not run
  out; `LeaseKept` with the types (`TypeInvariance`) is inductive.
  `MutualExclusionHolds`: two callers never rely on one name. `LockerKeepsContract`: each step
  maps to a step of the contract or a stutter under `owner`.
- *MySQL*: `MysqlLockKeepsContract`, from `MysqlInv`. Who owns the name is read off the session
  that has it, which is unambiguous only if no two locks use one session (`Apart`). That
  stays so because a session in the pool is nobody's and a session that is
  pooled or dead holds nothing (`PoolIsClean`): the code releases the name before it closes a
  connection. `PcAgrees` says which step of a call has a session pinned or opened.
  `LetsGo` describes all the ways in which a call parts with its session (release, undo, drop, give up,
  lost, refused); what that does to the owner (`LetsGoTells`) and to the invariant
  (`LetsGoKeeps`) is proved once. A session that breaks with the name leaves it to
  `Stray`, one that dies leaves it free.
- *Redis*: `RedisLockKeepsContract`. Each script is one step of the server, and the owner is the lock
  whose token the key holds, so a step maps to a step; that an `Acquire`, `Refresh` or
  `Release` whose reply was lost maps to a failure is the point.
- *Token stores*: `InMemoryTokenStoreKeepsContract` from `MemoryIndex`: the index of a user names
  exactly the tokens stored for that user; `RedisTokenStoreKeepsContract` from `RedisIndex`:
  the set of a user has every token whose key exists and is the user's, and perhaps others.
  `DeleteByUser` goes by the index, the contract by the owner of each token.
- *Listeners*: `DecisionsAreRightHolds`, for any finite set of roles and any inheritance between
  them (circles too), any rules, voters, configurations, paths, tokens and users. Three lemmas say that the
  code computes what the reference definitions mean. `MatchIsInForce`: the four passes over the
  rules find the one in force, and nothing where there is none. `ExpandRolesInherits`: the
  expansion has a role exactly if it is inherited through any number of others; each
  pass that does not end it adds a role (`ExpansionGrows`), so that as many passes as
  there are roles are enough. `DecidesEnough`: each strategy grants on the votes of
  the upgraded voters where the roles a user has are enough. `ListenersInv` then follows the request: while it waits
  for the firewall, whose token it bears has been witnessed; behind it, without a context the
  firewall did not match, and if it did and nothing disturbed the request, its rules are met; a
  user in the context has always been witnessed.
  A decision stays right while the store changes, for more is witnessed, never less.

**`InMemoryCacheProofs`**, for any callers, any finite set of keys, any calls, limit and width:

- `ListMatchesEntriesHolds`: the list and the entries name the same keys, each
  once, and no more than the limit. With the types it is inductive, since each
  operation runs under the lock and leaves it true of what it stores; the
  lemmas state what moving to the front, saving, evicting and deleting do to a
  list without duplicates.
- `CacheImplementsContract`: `Spec => ImplementsCache`, the backend implements
  `CacheContract`. While a call goes through its keys, `cache.items` has come some way from
  what is `visible`; `Advanced` says how far: a set has stored its item under the keys
  that are done, what is missing has made room in a cache that is now full (`StoredTo`), a
  delete has removed the keys that are done, and the second half of a get or the cleanup
  has dropped only what had expired by the time it works with (`PurgedTo`). That time has
  been (`AsksWell`), so that what a slow reader drops is expired for everybody. The step
  of the last key then maps to `Set`, `Delete` or `Purge` of the contract, and those before
  it to a stutter; reads, counters and `Clear` map to one step each. The bound that `Put`
  of the contract sets on eviction rests on `ListMatchesEntries`: the length of the list
  is the number of entries.

**Assumptions.** All are named `ASSUME`s, which TLC evaluates in the runs. Those that
say more than the type of a constant: there are finitely many roles, callers of `Remember`,
keys of a container, keys of a cache (a call of which names at least one; the code's loop over none does nothing)
and workers, and at least one worker (a concurrency below one is raised to one,
`consume_command.go:133`); a name for nobody or nothing (`NoCtx`, `NoCall`,
`NoEntry`, `NoKey`, `NoUser`, `NoCookie`, `NoSession`, `Stray`, `None`) is none of the things it stands beside; drawn session ids
differ (`DrawnIdsDiffer`; they are 16 random bytes); a senders' set and the workers' of the AMQP
transport are disjoint; encoding what was decoded changes nothing (`JsonIsStable`);
a rule for a segment has a path (`access_control.go:100` panics otherwise); the
names of no context and of an anonymous one are not users.

**Only model-checked**: all liveness, which is out of reach of the prover (and with it
`Configuration`, whose one property, `BootResolves`, says where every `Resolve` ends). Every
other property of the passing runs is stated by a theorem.

## 5. Findings and other disagreements

Checked by a run (`PROJECT.json`, "findings"):

1. A waiter keeps its wait edge after it was woken, and an acyclic resolution can
   be refused as circular (`spurious_circular`).

Counterexamples that no run lists; `tlc -config X.cfg M` shows each, after the
change to `X.cfg` that is named:

2. `MCContainerTypeEdge.cfg`, `MCContainerResolver`: `GetByType` that waited for
   a creation by name stores no type instance, and `Close` loses the dependency
   (`DependentsClosedFirst`).
3. `MCCacheRemember.cfg`, `MCCacheRemember`, with `SPECIFICATION Spec`, `Options <- OnlyCancelable`
   and `JoinersAreNotCanceled` as the one property: `RemoveWaiter` decrements and
   cancels in two steps, so that a joiner can be answered with the cancellation of
   others.
4. `MCAmqpTransport.cfg`, `MCAmqpTransport`, with `SPECIFICATION Spec`,
   `Setups <- JustSending` and `HealthyChannelKept` as the one property:
   `resetPublishChannel(nil)` closes a channel another publisher has just opened. The hub's
   backplane has the same call (`server_sent_event_backplane.go:443`).
5. `MCHttpKernel.cfg`, `MCHttpKernel`, with `NoFileLeaks` as the one property: when the
   storage fails, or an error handler panics, the file behind a response that is
   given up stays open.
6. `MCConfiguration.cfg`, `MCConfiguration`, with `ResolveReturns` alone: two keys of the environment that
   ask for each other by `%env(...)%`, or a parameter that names itself
   and is named by another (or by its alias), are not refused as circular: the
   passes never end and the application does not boot.
7. `MCConfiguration.cfg`, `MCConfiguration`, with `RuntimeParametersKept` alone: a runtime parameter that is a
   string is rewritten by `Resolve`, which `CONFIG.md:136` excludes.
8. `MCSecurity.cfg`, `MCSecurity`, with `DisturbedStaysClosed` as the one property: a request that access
   control denies reaches its controller when a listener of `kernel.request` before
   it, of the denied event or of `kernel.exception` fails, or a voter, rule or entry point
   panics: the listener returns the error without a response
   (`access_control_listener.go:213`, `267`), and `kernel.go:380` logs it and goes on.
   `SECURITY.md:252` has the entry point decide the response of a failed or missing
   token, and `SECURITY.md:69` a security context for every request a firewall
   matches; a rule that panics and a listener before the firewall's leave none.

Met while reading, not checked: `Acquire` on a MySQL lock that is held asks the
server again (the integration's README says it does not, line 50) and may be
refused when that query fails; a requeue after a rejected dead-lettering runs
handlers without counting a redelivery (`MESSAGEBUS.md:159`); a failed write of
an injected file handle is not rolled back in the file (`v3/CHANGELOG.md:33`),
which `SessionStore` allows as `fragile`; a `Load` whose flush of an expired
session fails panics before the kernel's recovery is installed; a `%%` in a
parameter that another names is taken for a placeholder there, and `%a%%b%` for
an escape (both excluded by `Sound`).

## 6. Plan

Done: the container, `Remember` and the in-memory cache, the hub with the AMQP
backplane, sessions and the kernel, three lockers, both token stores with the
decisions, the consumer, the AMQP transport, the resolution of parameters. Left,
in order:

1. *Message bus*: handler and send middleware, so that a dispatch is its handlers.
2. *Rate limiter* and *router*: pure operators against a log of admissions and
   against the documented precedence of routes.
3. *Container registration* with strict types and its rollback, under the resolver.
4. *AMQP*: two `Receive` calls on one transport; a transport without a dialer. The
   Redis backplane and cache.
5. `Remember` over `InMemoryCache`; `SecurityListeners` over each token store.

Theorems to prove with each of them: that it keeps the contract it is modelled against.

## 7. Not modelled

Listed with their reasons in `PROJECT.json`. In short: packages that keep no
state between calls, formatting and parsing, adapters around external libraries,
`v1` and `v2`. The event dispatcher dispatches over a snapshot it takes under the
lock, and listeners are registered at boot, so that what it does can not
depend on an interleaving. The rate limiter reads its clock under the mutex it
works in. Left out of modelled components: the encoding of values and
messages, logging, metrics, exact durations of backoffs and the arithmetic of
timeouts, handlers that send to the queue they consume from, a second `Receive`
on one AMQP transport and a transport without a dialer.
