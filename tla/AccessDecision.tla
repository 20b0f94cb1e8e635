----------------------------- MODULE AccessDecision -----------------------------
(***************************************************************************)
(* The decisions of the security component that keep no state: the roles a *)
(* role inherits, the votes and the strategy that counts them, the rule    *)
(* that is in force for a path, and what the configuration of a firewall   *)
(* and the global one compile to (v3/security).                            *)
(*                                                                         *)
(* A path is the sequence of its characters, as few as tell the kinds of   *)
(* rules apart; a regular expression is the set of paths it matches.       *)
(***************************************************************************)
EXTENDS Integers, Sequences, FiniteSets

CONSTANTS
  Role,
  Inherited,  \* the roles a role inherits directly: [Role -> SUBSET Role]
  Public,     \* the attribute PUBLIC_ACCESS
  Character   \* what paths are written in

ASSUME RolesAssumption == IsFiniteSet(Role) /\ Inherited \in [Role -> SUBSET Role]
ASSUME PathsAssumption == "/" \in Character

ExpandRoles(roles) ==
  LET expanded[n \in 0 .. Cardinality(Role)] ==
        IF n = 0 THEN roles
        ELSE expanded[n - 1] \cup UNION {Inherited[r] : r \in expanded[n - 1]}
  IN  expanded[Cardinality(Role)]

(* A voter looks for the role itself, among the expanded roles, or is one  *)
(* of the application, which may not support the attribute.                *)
Vote(voter, roles, attribute) ==
  CASE voter = "role" -> IF attribute \in roles THEN "granted" ELSE "denied"
    [] voter = "role hierarchy" ->
         IF attribute \in ExpandRoles(roles) THEN "granted" ELSE "denied"
    [] OTHER -> voter

DecideSingleAttribute(strategy, voters, roles, attribute) ==
  LET Count(vote) ==
        Cardinality({i \in DOMAIN voters : Vote(voters[i], roles, attribute) = vote})
  IN  CASE strategy = "affirmative" -> Count("granted") > 0
        [] strategy = "consensus" -> Count("granted") > Count("denied")
        [] strategy = "unanimous" -> Count("denied") = 0 /\ Count("granted") > 0

DecideAll(strategy, voters, roles, attributes) ==
  \A a \in attributes : DecideSingleAttribute(strategy, voters, roles, a)
--------------------------------------------------------------------------------
Root == <<"/">>

(* The path of a request without the slashes at its end.                   *)
Normalized(path) ==
  LET kept == {n \in 1 .. Len(path) : path[n] # "/"}
  IN  IF kept = {} THEN Root ELSE SubSeq(path, 1, CHOOSE n \in kept : \A k \in kept : k <= n)

StartsWith(path, prefix) ==
  Len(prefix) <= Len(path) /\ SubSeq(path, 1, Len(prefix)) = prefix

MatchesPrefix(rule, path) ==
  /\ StartsWith(path, rule.path)
  /\ rule.kind = "segment" =>
       \/ rule.path = Root
       \/ Len(path) = Len(rule.path)
       \/ path[Len(rule.path) + 1] = "/"

First(S) == CHOOSE i \in S : \A j \in S : i <= j

(* The index of the rule for a path, 0 when there is none: an exact rule,  *)
(* the longest prefix, a regular expression, the empty prefix, and each    *)
(* time the first one.                                                     *)
MatchRuleIndex(rules, path) ==
  LET exact == {i \in DOMAIN rules : rules[i].kind = "exact" /\ rules[i].path = path}
      prefixes == {i \in DOMAIN rules : rules[i].kind \in {"prefix", "segment"}
                     /\ rules[i].path # << >> /\ MatchesPrefix(rules[i], path)}
      longest == {i \in prefixes : \A j \in prefixes : Len(rules[j].path) <= Len(rules[i].path)}
      regexes == {i \in DOMAIN rules : rules[i].kind = "regex" /\ path \in rules[i].matches}
      fallbacks == {i \in DOMAIN rules : rules[i].kind = "prefix" /\ rules[i].path = << >>}
  IN  IF exact # {} THEN First(exact)
      ELSE IF longest # {} THEN First(longest)
      ELSE IF regexes # {} THEN First(regexes)
      ELSE IF fallbacks # {} THEN First(fallbacks) ELSE 0
--------------------------------------------------------------------------------
(* What the firewall of a setup is compiled to: its own rules, or both     *)
(* lists, and voters that know the role hierarchy when there is one.       *)
EffectiveRules(setup) ==
  IF setup.merge = "override only" \/ ~setup.inherit THEN setup.local
  ELSE IF setup.merge = "global first" THEN setup.global \o setup.local
  ELSE setup.local \o setup.global

EffectiveVoters(setup) ==
  [i \in DOMAIN setup.voters |->
     IF setup.hierarchy /\ setup.voters[i] = "role" THEN "role hierarchy" ELSE setup.voters[i]]
=================================================================================
