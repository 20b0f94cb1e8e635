----------------------------- MODULE CloseOrder -----------------------------
(***************************************************************************)
(* The order in which container.Close (v3/container/container_close.go)    *)
(* closes the instances of a container: node keys that denote one instance *)
(* are collapsed onto a representative, and Kahn's algorithm, with a heap  *)
(* that yields the largest key first, sorts the representatives so that a  *)
(* dependent precedes its dependencies.  Pure operators, no state.         *)
(*                                                                         *)
(* A "service:<name>" node key is a member of Name and a "type:<T>" node   *)
(* key a member of Type; their string order is the injection KeyRank.      *)
(***************************************************************************)
EXTENDS Naturals, Sequences, FiniteSets, SequencesExt

CONSTANTS
  Name,           \* service names that may be registered
  Type,           \* canonical types that may be registered
  TypeServices,   \* typeRegistrationNamesByType: [Type -> Seq(Name)]
  KeyRank         \* string order of the node keys: [Key -> Nat]

Key == Name \cup Type

ASSUME TypeServicesAssumption == TypeServices \in [Type -> Seq(Name)]
ASSUME KeyRankAssumption ==
  /\ KeyRank \in [Key -> Nat]
  /\ \A j, k \in Key : KeyRank[j] = KeyRank[k] => j = k

(* The maps of a container are finite.                                     *)
ASSUME FinitelyManyKeys == IsFiniteSet(Key)

ASSUME NamesAreNotTypes == Name \cap Type = {}

Above(j, k) == KeyRank[j] > KeyRank[k]

Largest(keys) == CHOOSE k \in keys : \A j \in keys \ {k} : Above(k, j)

(* Two keys hold one instance when the instance has an identity: it is a   *)
(* pointer, or a value Go can compare.  Values outside hasIdentity (a      *)
(* struct holding a slice, say) never compare equal.                       *)
SameInstance(value, hasIdentity, j, k) ==
  j = k \/ (value[j] = value[k] /\ value[j] \in hasIdentity)

ServiceRepresentative(created, value, hasIdentity, n) ==
  Largest({m \in created \cap Name : SameInstance(value, hasIdentity, m, n)})

(* typeAliasRepresentative: the positions of the created services among    *)
(* those registered under a type; the first of them backs the type.        *)
Backing(created, t) == {i \in DOMAIN TypeServices[t] : TypeServices[t][i] \in created}

Aliased(created, t) == Backing(created, t) # {}

BackingService(created, t) == TypeServices[t][Min(Backing(created, t))]

(* representativeOf: a service stands for the services that share its      *)
(* instance; a type is collapsed onto the service that backs it and, when  *)
(* none was created, onto whatever shares its instance, services first.    *)
TypeRepresentative(created, value, hasIdentity, t) ==
  LET sameService == {n \in created \cap Name : SameInstance(value, hasIdentity, n, t)}
      sameType    == {u \in created \cap Type : /\ ~Aliased(created, u)
                                                /\ SameInstance(value, hasIdentity, u, t)}
  IN  IF Aliased(created, t)
      THEN ServiceRepresentative(created, value, hasIdentity, BackingService(created, t))
      ELSE IF sameService # {} THEN Largest(sameService) ELSE Largest(sameType)

Representative(created, value, hasIdentity) ==
  [k \in created |-> IF k \in Name
                     THEN ServiceRepresentative(created, value, hasIdentity, k)
                     ELSE TypeRepresentative(created, value, hasIdentity, k)]

(* mutant: edges keep the keys they were recorded under.                   *)
RawEdges(representative, graph) ==
  {e \in graph : e[1] \in DOMAIN representative /\ e[2] \in DOMAIN representative}

(* adjacency: the dependency edges between distinct representatives.       *)
CollapsedEdges(representative, graph) ==
  {<<representative[e[1]], representative[e[2]]>> :
     e \in {d \in graph : /\ d[1] \in DOMAIN representative
                          /\ d[2] \in DOMAIN representative
                          /\ representative[d[1]] # representative[d[2]]}}

(* The keys of `rest` whose in-degree has dropped to zero.                 *)
Available(rest, edges) ==
  {k \in rest : \A j \in rest : <<j, k>> \notin edges}

(* What is left on a dependency cycle is sorted by key, largest first.      *)
CycleTail(keys) ==
  LET tail[rest \in SUBSET keys] ==
        IF rest = {} THEN << >> ELSE <<Largest(rest)>> \o tail[rest \ {Largest(rest)}]
  IN  tail[keys]

NextOf(ready) == Largest(ready)

(* Pop the largest available key until none is left, then append what      *)
(* remains.                                                                *)
KahnOrder(keys, edges) ==
  LET order[rest \in SUBSET keys] ==
        LET ready == Available(rest, edges)
        IN  IF ready = {}
            THEN CycleTail(rest)
            ELSE <<NextOf(ready)>> \o order[rest \ {NextOf(ready)}]
  IN  order[keys]

(* dependencyCycleDetected: some set of keys keeps every in-degree above 0. *)
CycleAmong(keys, edges) ==
  \E S \in (SUBSET keys) \ {{}} : Available(S, edges) = {}

CloseOrder(created, value, hasIdentity, graph) ==
  LET representative == Representative(created, value, hasIdentity)
  IN  KahnOrder(Range(representative), CollapsedEdges(representative, graph))

CloseCycle(created, value, hasIdentity, graph) ==
  LET representative == Representative(created, value, hasIdentity)
  IN  CycleAmong(Range(representative), CollapsedEdges(representative, graph))
=============================================================================
