---------------------------- MODULE Configuration ----------------------------
(***************************************************************************)
(* The resolution of the parameters' templates (config/configuration*.go). *)
(* A parameter's text may hold %other% and %env(KEY)%, and %% for a        *)
(* percent.  Resolve walks the parameters in the order of a Go map, that   *)
(* is in any; each text is rewritten in passes until a pass changes        *)
(* nothing, and a parameter found in it is resolved inside it.  Resolve    *)
(* runs when the configuration is built and again when the application     *)
(* boots, after the runtime parameters were registered.                    *)
(*                                                                         *)
(* A text is a sequence of symbols: the percent, the escaped percent,      *)
(* names, env(KEY) tokens, and others that are none of these.              *)
(***************************************************************************)
EXTENDS Integers, Sequences, FiniteSets

CONSTANTS
  Name,            \* the names of parameters
  Unknown,         \* a name no parameter has
  EnvironmentKey,  \* the names that are keys of the environment
  Runtime,         \* the names registered at run time
  ProjectDir,      \* KernelProjectDir
  ParameterOf,     \* the parameter a name stands for: aliases share one
  Percent, Escaped, Other,
  NotString,       \* a value that is no string
  Undefined,       \* what env(KEY) gives when the key is missing
  MaxLength        \* bound on a text that grows for ever

Parameter == {ParameterOf[n] : n \in Name}
NameSymbol == Name \cup {Unknown}
EnvToken(k) == [env |-> k]
EnvTokens == {EnvToken(k) : k \in NameSymbol}
Text == Seq(NameSymbol \cup EnvTokens \cup {Percent, Escaped, Other, Undefined})

(* What a configuration is built from. *)
ConfigurationAssumption ==
  /\ EnvironmentKey \subseteq Name /\ Runtime \subseteq Name /\ ProjectDir \in Name
  /\ EnvironmentKey \cap Runtime = {} /\ ProjectDir \notin EnvironmentKey \cup Runtime
  /\ DOMAIN ParameterOf = Name
  /\ MaxLength \in Nat

VARIABLES
  environmentValue,  \* the text of each parameter, or NotString
  value,             \* what each was resolved to
  booted,            \* the runtime parameters are registered
  left,              \* the names Resolve has still to walk
  frames,            \* the calls of resolveWithTemplates under way
  outcome            \* "resolving", "resolved" or what went wrong

vars == <<environmentValue, value, booted, left, frames, outcome>>

Registered == IF booted THEN Name ELSE Name \ Runtime
-----------------------------------------------------------------------------
(* Texts                                                                   *)

Least(S) == CHOOSE i \in S : \A j \in S : i <= j
From(t, i) == SubSeq(t, i, Len(t))
Holds(t, symbol) == \E i \in DOMAIN t : t[i] = symbol

(* escapePercents: the leftmost pairs of percents become one symbol.       *)
Escape(text) ==
  LET escape[t \in Text] ==
        LET pairs == {i \in 1..(Len(t) - 1) : t[i] = Percent /\ t[i + 1] = Percent}
            i == Least(pairs)
        IN  IF pairs = {} THEN t
            ELSE SubSeq(t, 1, i - 1) \o <<Escaped>> \o escape[From(t, i + 2)]
  IN  escape[text]

(* unescapePercents                                                        *)
Unescape(t) == [i \in DOMAIN t |-> IF t[i] = Escaped THEN Percent ELSE t[i]]

(* The places where %env(KEY)% matches, and what the environment has: the  *)
(* texts of its keys, not what these were resolved to.                     *)
EnvPlaceholders(t) ==
  {i \in 1..(Len(t) - 2) : t[i] = Percent /\ t[i + 1] \in EnvTokens /\ t[i + 2] = Percent}

EnvText(k) ==
  IF k \in EnvironmentKey THEN environmentValue[ParameterOf[k]] ELSE <<Undefined>>

WithEnvironment(text) ==
  LET replace[t \in Text] ==
        LET i == Least(EnvPlaceholders(t))
        IN  IF EnvPlaceholders(t) = {} THEN t
            ELSE SubSeq(t, 1, i - 1) \o EnvText(t[i + 1].env) \o replace[From(t, i + 3)]
  IN  replace[text]

(* %name% matches from i to j; names side by side read as one no parameter *)
(* has.                                                                    *)
Matches(t) ==
  {<<i, j>> \in (DOMAIN t) \X (DOMAIN t) :
     /\ i + 1 < j /\ t[i] = Percent /\ t[j] = Percent
     /\ \A h \in (i + 1)..(j - 1) : t[h] \in NameSymbol}

FirstMatch(t) == CHOOSE m \in Matches(t) : \A o \in Matches(t) : m[1] <= o[1]

MatchedName(t, m) == IF m[2] = m[1] + 2 THEN t[m[1] + 1] ELSE Unknown
-----------------------------------------------------------------------------
Top == frames[Len(frames)]
Below == SubSeq(frames, 1, Len(frames) - 1)
WithTop(f) == Append(Below, f)

(* A pass over a text: the environment is filled in, then the names are    *)
(* looked for in rest; done is what the pass has written.                  *)
NewPass(k, t) == [key |-> k, previous |-> t, done |-> <<>>, rest |-> WithEnvironment(t)]

Fail(what) ==
  /\ outcome' = what /\ frames' = <<>>
  /\ UNCHANGED <<environmentValue, value, booted, left>>

(* resolveWithTemplates refuses a name that is being resolved, or starts   *)
(* the first pass over its escaped text.                                   *)
(* mutant: a name stays marked when its own resolution has ended.          *)
NeverUnmarked(k, fs) ==
  (\E i \in DOMAIN fs : fs[i].key = k) \/ (frames # <<>> /\ k \notin left)
Resolving(k, fs) == \E i \in DOMAIN fs : fs[i].key = k
Begin(k, fs) == Append(fs, NewPass(k, Escape(environmentValue[ParameterOf[k]])))

Init ==
  /\ environmentValue \in [Parameter -> Text \cup {NotString}]
  /\ value = environmentValue
  /\ booted = FALSE /\ left = Name \ Runtime
  /\ frames = <<>> /\ outcome = "resolving"

(* The next name of the map.  The project directory and what is no string  *)
(* or empty keeps its value.                                               *)
Walk(n) ==
  /\ outcome = "resolving" /\ frames = <<>> /\ n \in left
  /\ left' = left \ {n}
  /\ LET p == ParameterOf[n]
     IN  IF n = ProjectDir THEN UNCHANGED <<value, frames>>
         ELSE IF environmentValue[p] \in {NotString, <<>>}
         THEN value' = [value EXCEPT ![p] = environmentValue[p]] /\ UNCHANGED frames
         ELSE frames' = Begin(n, <<>>) /\ UNCHANGED value
  /\ UNCHANGED <<environmentValue, booted, outcome>>

UndefinedEnvironmentKey ==
  /\ frames # <<>> /\ Holds(Top.rest, Undefined)
  /\ Fail("undefined environment key")

(* The next %name% of the pass.                                            *)
AtMatch(m, k) ==
  /\ frames # <<>> /\ ~Holds(Top.rest, Undefined)
  /\ Matches(Top.rest) # {} /\ m = FirstMatch(Top.rest) /\ k = MatchedName(Top.rest, m)

Passed(m, written) ==
  [Top EXCEPT !.done = @ \o SubSeq(Top.rest, 1, m[1] - 1) \o written,
              !.rest = From(Top.rest, m[2] + 1)]

(* A name inside its own text stays as it is written.                      *)
LeaveOwnName(m, k) ==
  /\ AtMatch(m, k) /\ k = Top.key
  /\ frames' = WithTop(Passed(m, SubSeq(Top.rest, m[1], m[2])))
  /\ UNCHANGED <<environmentValue, value, booted, left, outcome>>

RefuseName(m, k) ==
  /\ AtMatch(m, k) /\ k # Top.key
  /\ \/ k \notin Registered /\ Fail("undefined parameter")
     \/ k \in Registered /\ environmentValue[ParameterOf[k]] = NotString /\ Fail("not a string")
     \/ /\ k \in Registered /\ environmentValue[ParameterOf[k]] # NotString
        /\ Resolving(k, frames) /\ Fail("circular")

ResolveName(m, k) ==
  /\ AtMatch(m, k) /\ k # Top.key
  /\ k \in Registered /\ environmentValue[ParameterOf[k]] # NotString
  /\ ~Resolving(k, frames)
  /\ frames' = Begin(k, WithTop(Passed(m, <<>>)))
  /\ UNCHANGED <<environmentValue, value, booted, left, outcome>>

(* A pass ends.  It is repeated when it changed the text (here: while that *)
(* is no longer than MaxLength); else the parameter has its value and the  *)
(* text it was found in goes on with it.                                   *)
PassEnds ==
  /\ frames # <<>> /\ ~Holds(Top.rest, Undefined) /\ Matches(Top.rest) = {}
  /\ LET resolved == Top.done \o Top.rest
         final == Unescape(resolved)
     IN  IF resolved # Top.previous
         THEN /\ Len(resolved) <= MaxLength
              /\ frames' = WithTop(NewPass(Top.key, resolved))
              /\ UNCHANGED value
         ELSE /\ value' = [value EXCEPT ![ParameterOf[Top.key]] = final]
              /\ frames' = IF Below = <<>> THEN <<>>
                           ELSE [Below EXCEPT ![Len(Below)].done = @ \o final]
  /\ UNCHANGED <<environmentValue, booted, left, outcome>>

(* Resolve returns; the application registers its runtime parameters and   *)
(* Boot calls Resolve again.                                               *)
Return ==
  /\ outcome = "resolving" /\ frames = <<>> /\ left = {}
  /\ IF booted THEN outcome' = "resolved" /\ UNCHANGED <<booted, left>>
     ELSE booted' = TRUE /\ left' = Name /\ UNCHANGED outcome
  /\ UNCHANGED <<environmentValue, value, frames>>

AtName(k) == \E m \in Matches(Top.rest) :
  LeaveOwnName(m, k) \/ RefuseName(m, k) \/ ResolveName(m, k)

Next ==
  \/ \E n \in Name : Walk(n)
  \/ \E k \in NameSymbol : frames # <<>> /\ AtName(k)
  \/ UndefinedEnvironmentKey \/ PassEnds \/ Return

Spec == Init /\ [][Next]_vars /\ WF_vars(Next)
-----------------------------------------------------------------------------
(* What a template means: its escapes are percents, and its placeholders   *)
(* the meanings of what they name.                                         *)
IsString(n) == environmentValue[ParameterOf[n]] # NotString
Source(n) == Escape(environmentValue[ParameterOf[n]])
Named(n) == IF IsString(n) THEN {MatchedName(Source(n), m) : m \in Matches(Source(n))} ELSE {}
Asked(n) == IF IsString(n) THEN {Source(n)[i + 1].env : i \in EnvPlaceholders(Source(n))} ELSE {}

Depth == Cardinality(Name)

Expansion[d \in 0..Depth, t \in Text] ==
  IF d = 0 \/ Matches(t) = {} THEN t
  ELSE LET m == FirstMatch(t)
       IN  SubSeq(t, 1, m[1] - 1)
             \o Expansion[d - 1, WithEnvironment(Source(MatchedName(t, m)))]
             \o Expansion[d, From(t, m[2] + 1)]

Meaning(n) ==
  IF IsString(n) THEN Unescape(Expansion[Depth, WithEnvironment(Source(n))]) ELSE NotString

NamedWithin[d \in 0..Depth, n \in Name] ==
  IF d = 0 THEN {}
  ELSE Named(n) \cup UNION {NamedWithin[d - 1, o] : o \in Named(n) \cap Name}

(* What is wrong with the parameters that are known.                       *)
Problems(known) ==
  LET named == UNION {Named(n) : n \in known}
      asked == UNION {Asked(n) : n \in known}
  IN  {what \in {"undefined parameter", "undefined environment key", "not a string", "circular"} :
         CASE what = "undefined parameter" -> ~(named \subseteq known)
           [] what = "undefined environment key" -> ~(asked \subseteq EnvironmentKey)
           [] what = "not a string" -> \E n \in named \cap known : ~IsString(n)
           [] what = "circular" -> \E n \in known : n \in NamedWithin[Depth, n]}

(* The configurations the resolution is good for.  No text names its own   *)
(* parameter, and one that another text holds has no percents but those of *)
(* its placeholders, or, taken from the environment, none at all: a pass   *)
(* takes what it finds in the text of the last for a placeholder, also     *)
(* where it was an escape or the end of another.                           *)
Plain(n) == IsString(n) => ~Holds(environmentValue[ParameterOf[n]], Percent)

OnlyPlaceholders(n) == IsString(n) =>
  LET t == Source(n)
  IN  /\ ~Holds(t, Escaped)
      /\ Cardinality({i \in DOMAIN t : t[i] = Percent})
           = 2 * Cardinality(Matches(t)) + 2 * Cardinality(EnvPlaceholders(t))

Sound ==
  \A n \in Name :
    /\ \A o \in Named(n) \cap Name : ParameterOf[o] # ParameterOf[n] /\ OnlyPlaceholders(o)
    /\ \A k \in Asked(n) \cap EnvironmentKey : Plain(k)

(* In whatever order the map is walked, Resolve ends; it reports a circle  *)
(* or another problem exactly when there is one, already when the          *)
(* configuration is built if the runtime parameters are not needed for it, *)
(* and otherwise every parameter has the meaning of its text.              *)
ResolvedRight ==
  /\ outcome # "resolving"
  /\ IF Problems(Name \ Runtime) # {} THEN ~booted /\ outcome \in Problems(Name \ Runtime)
     ELSE IF Problems(Name) # {} THEN booted /\ outcome \in Problems(Name)
     ELSE outcome = "resolved" /\ \A n \in Name : value[ParameterOf[n]] = Meaning(n)

EveryConfigurationResolves == Sound => <>ResolvedRight

(* configuration_resolve.go:60 refuses circular references, so no          *)
(* configuration should keep Resolve from returning.                       *)
ResolveReturns == <>(outcome # "resolving")

(* CONFIG.md:136 says that runtime parameters are preserved during Resolve.*)
RuntimeParametersKept ==
  [][\A n \in Runtime : value'[ParameterOf[n]] = value[ParameterOf[n]]]_vars

=============================================================================
