------------------------- MODULE MCBootAndShutdown -------------------------
(***************************************************************************)
(* What an application computes once: its parameters when it boots, and    *)
(* the order in which its container closes when it shuts down.  The        *)
(* initial state chooses which of the two is computed.                     *)
(***************************************************************************)
EXTENDS ContainerShutdown, TLC

CONSTANTS
  a, b, d, shape,
  pa, pb, log, alias, run, dir, Unknown,
  Percent, Escaped, Other, NotString, Undefined, MaxLength

VARIABLES running, environmentValue, value, booted, left, frames, outcome

bootVars == <<environmentValue, value, booted, left, frames, outcome>>
allVars == <<running, bootVars, fillVars>>

(* shape is registered for a, then for d. *)
ShapeServices == shape :> <<a, d>>
Rank == (a :> 1) @@ (b :> 2) @@ (d :> 3) @@ (shape :> 4)

(* log has a second name. *)
SecondNames == [n \in {pa, pb, log, run, dir} |-> n] @@ (alias :> log)

Boot == INSTANCE MCConfiguration WITH
  Name <- {pa, pb, log, alias, run, dir}, EnvironmentKey <- {pa, pb}, Runtime <- {run},
  ProjectDir <- dir, ParameterOf <- SecondNames

ASSUME BootAssumption == Boot!ConfigurationAssumption

BothInit ==
  /\ running \in {"configuration", "close order"}
  /\ Boot!MCInit
  /\ running = "close order" => environmentValue = CHOOSE v \in Boot!Configurations : TRUE
  /\ FillInit

Resolves == running = "configuration" /\ UNCHANGED <<running, fillVars>>
Closes == running = "close order" /\ UNCHANGED <<running, bootVars>>

AtNames == \E k \in Boot!NameSymbol : frames # <<>> /\ Boot!AtName(k)

BothNext ==
  \/ \E n \in DOMAIN SecondNames : Boot!Walk(n) /\ Resolves
  \/ AtNames /\ Resolves
  \/ Boot!UndefinedEnvironmentKey /\ Resolves
  \/ Boot!PassEnds /\ Resolves
  \/ Boot!Return /\ Resolves
  \/ \E j, k \in Key : Depend(j, k) /\ Closes
  \/ \E k \in Key, v \in Instance : Create(k, v) /\ Closes

BothSpec == BothInit /\ [][BothNext]_allVars /\ WF_allVars(Boot!Next /\ Resolves)
-----------------------------------------------------------------------------
(* See EveryConfigurationResolves (configuration_resolve.go).              *)
BootResolves == running = "configuration" => Boot!EveryConfigurationResolves
=============================================================================
