--------------------------- MODULE MCHttpKernel -----------------------------
(* Small instances of HttpKernel.                                           *)
EXTENDS HttpKernel, TLC

CONSTANTS i1, i2, i3, r1, r2

(* An integer comes back from JSON as a float; a function is refused.       *)
Values == {"empty", "int", "float", "func"}
Decoded == [d \in Values |-> IF d = "int" THEN "float" ELSE d]

Draws == (r1 :> i2) @@ (r2 :> i3)

(* One request that does everything over a file whose writes fail, or      *)
(* two plain requests over a storage that fails, dies, expires and is      *)
(* closed.                                                                 *)
Variety ==
  {[backend |-> "path", serves |-> {r1}, wild |-> {r1}, closes |-> TRUE, time |-> 2,
    faults |-> 2, crashes |-> 1]}
  \cup
  [backend : {"memory", "path", "handle"}, serves : {{r1, r2}}, wild : {{}},
   closes : {TRUE}, time : {3}, faults : {1}, crashes : {1}]
=============================================================================
