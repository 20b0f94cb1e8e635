------------------------- MODULE ContainerShutdown --------------------------
(***************************************************************************)
(* The containers that Close may find: which keys were created, with which *)
(* instance, and which dependencies were recorded, filled in one at a      *)
(* time; and what the order of CloseOrder owes to each of them.            *)
(***************************************************************************)
EXTENDS CloseOrder

CONSTANTS
  Instance,       \* what a key may hold
  HasIdentity,    \* the instances that are pointers or comparable values
  Absent,
  MaxEdges        \* bound on the recorded dependencies

VARIABLES
  held,           \* what each key holds: [Key -> Instance or Absent]
  recorded        \* the recorded edges <<dependent key, dependency key>>

fillVars == <<held, recorded>>

heldKeys == {k \in Key : held[k] # Absent}
representativeOf == Representative(heldKeys, held, HasIdentity)
closeOrder == CloseOrder(heldKeys, held, HasIdentity, recorded)
cycleDetected == CloseCycle(heldKeys, held, HasIdentity, recorded)

FillInit == held = [k \in Key |-> Absent] /\ recorded = {}

Create(k, v) ==
  /\ held[k] = Absent
  /\ held' = [held EXCEPT ![k] = v]
  /\ UNCHANGED recorded

Depend(j, k) ==
  /\ j # k /\ Cardinality(recorded) < MaxEdges
  /\ recorded' = recorded \cup {<<j, k>>}
  /\ UNCHANGED held

FillNext == \E j, k \in Key : Depend(j, k) \/ \E v \in Instance : Create(k, v)

FillSpec == FillInit /\ [][FillNext]_fillVars
-----------------------------------------------------------------------------
(* Close calls every instance a service name holds, cycle or not, and      *)
(* calls none twice under two of its keys: not a shared pointer or         *)
(* comparable value, and not a type's copy of the (possibly incomparable)  *)
(* value of the service that backs it.                                     *)
ClosesEachOnce ==
  /\ \A n \in heldKeys \cap Name : \E i \in DOMAIN closeOrder : held[closeOrder[i]] = held[n]
  /\ \A i, j \in DOMAIN closeOrder : i # j =>
       /\ closeOrder[i] # closeOrder[j]
       /\ ~(held[closeOrder[i]] = held[closeOrder[j]] /\ held[closeOrder[i]] \in HasIdentity)
       /\ ~(closeOrder[i] \in Type /\ closeOrder[j] \in Range(TypeServices[closeOrder[i]]))

(* Without a cycle a recorded dependency, under whichever alias of its two *)
(* ends, puts the dependent before the dependency.                         *)
DependentsFirst ==
  ~cycleDetected => \A e \in recorded : e[1] \in heldKeys /\ e[2] \in heldKeys =>
    LET x == representativeOf[e[1]]
        y == representativeOf[e[2]]
    IN  x = y \/ \E i, j \in DOMAIN closeOrder : i < j /\ closeOrder[i] = x /\ closeOrder[j] = y

(* The order in which Close calls the instances (container_close.go) has   *)
(* each of them once, and dependents before what they depend on.           *)
CloseOrderHolds == ClosesEachOnce /\ DependentsFirst
=============================================================================
