------------------------ MODULE MCContainerResolver -------------------------
(* Small instances of ContainerResolver.                                    *)
EXTENDS ContainerResolver, TLC

CONSTANTS a, b, d, t, u, c1, c2, c3, s1, s2

(* d is registered under the type t; u is a type nothing is registered for. *)
Registrations == (t :> <<d>>) @@ (u :> << >>)
(* u stands for two services, so nothing can be resolved by it. *)
Ambiguities == (t :> <<d>>) @@ (u :> <<a, b>>)
Rank == (a :> 1) @@ (b :> 2) @@ (d :> 3) @@ (t :> 4) @@ (u :> 5)

(* a needs d and b, d needs b. *)
ByName == (a :> {d, b}) @@ (b :> {}) @@ (d :> {b})
(* a needs b, and d by its type. *)
ByType == (a :> {t, b}) @@ (b :> {}) @@ (d :> {b})
(* a needs d by its type, d needs b and b needs a. *)
Cyclic == (a :> {t}) @@ (b :> {a}) @@ (d :> {b})

NoScopes == [c \in Ctx |-> NoScope]
(* A scope for each context, or for the first one alone.                    *)
TwoScopes == [c \in Ctx |-> IF c = c1 THEN s1 ELSE s2]
OneScope == [c \in Ctx |-> IF c = c1 THEN s1 ELSE NoScope]
=============================================================================
