-------------------------- MODULE MCConfiguration --------------------------
(***************************************************************************)
(* Small configurations: two keys of the environment, a default parameter  *)
(* with two names, a runtime parameter and the project directory.          *)
(***************************************************************************)
EXTENDS Configuration, TLC

CONSTANTS pa, pb, log, alias, run, dir

Aliases == [n \in {pa, pb, log, run, dir} |-> n] @@ (alias :> log)

Ref(n) == <<Percent, n, Percent>>
Env(n) == <<Percent, EnvToken(n), Percent>>

(* References to others and to oneself, directly and by an alias; circles; *)
(* the environment; escapes.                                               *)
Texts(n) ==
  CASE n = pa ->
         {<<>>, <<Other>>, Ref(pa) \o <<Other>>, Ref(pb), Ref(pb) \o <<Other>> \o Ref(log), Env(pb),
          Env(pb) \o Ref(alias), Env(log), <<Percent, Percent>> \o Ref(pb), Ref(run)}
    [] n = pb -> {<<Other>>, Ref(pa), Ref(log), Env(pa), Ref(Unknown),
                  <<Percent, Percent, pa, Percent, Percent>>}
    [] n = log -> {Ref(dir) \o <<Other>>, Ref(alias), Ref(pa)}
    [] n = run -> {NotString, Ref(pa), <<Other, Percent, Percent>>}

Configurations ==
  {(pa :> x) @@ (pb :> y) @@ (log :> Ref(dir) \o <<Other>>) @@ (run :> NotString)
     @@ (dir :> <<Other, Other>>) : x \in Texts(pa), y \in Texts(pb)}
  \cup
  {(pa :> x) @@ (pb :> <<Other>>) @@ (log :> l) @@ (run :> r)
     @@ (dir :> <<Other, Other>>) : x \in Texts(pa), l \in Texts(log), r \in Texts(run)}

MCInit ==
  /\ environmentValue \in Configurations
  /\ value = environmentValue
  /\ booted = FALSE /\ left = Name \ Runtime
  /\ frames = <<>> /\ outcome = "resolving"

MCSpec == MCInit /\ [][Next]_vars /\ WF_vars(Next)
=============================================================================
