--------------------------- MODULE SecurityListeners ---------------------------
(***************************************************************************)
(* The two listeners a request passes before its controller runs: the      *)
(* firewall listener finds who it comes from, the access control listener  *)
(* decides (v3/security/security_resolution_listener.go,                   *)
(* access_control_listener.go).  The token of the request is looked up in  *)
(* a store that keeps TokenContract and goes on changing meanwhile.        *)
(*                                                                         *)
(* The dispatcher stops at a listener that fails, and the kernel logs the  *)
(* error: what has no response by then runs its controller.                *)
(***************************************************************************)
EXTENDS AccessDecision

CONSTANTS
  Setups,         \* configurations to compile
  Path,           \* the paths of requests
  FirewallPrefix, \* what the matcher of the firewall looks for
  Token, User, NoUser, NoToken,
  RolesOf         \* the roles in the claims of a user

(* What the constructors of the rules let through: a rule for a segment    *)
(* has a path.                                                             *)
AccessControlRule ==
  [kind : {"exact", "prefix", "segment", "regex"}, path : Seq(Character),
   matches : SUBSET Seq(Character), needs : SUBSET (Role \cup {Public})]

Setup ==
  [strategy : {"affirmative", "consensus", "unanimous"},
   voters : Seq({"role", "granted", "denied", "abstain"}),
   hierarchy : BOOLEAN, manager : BOOLEAN, inherit : BOOLEAN, apiKey : BOOLEAN,
   merge : {"override only", "global first", "local first"},
   global : Seq(AccessControlRule), local : Seq(AccessControlRule)]

HasSegments(rules) == \A i \in DOMAIN rules : rules[i].kind = "segment" => rules[i].path # << >>

ASSUME ListenersAssumption ==
  /\ \A p \in Path : p \in Seq(Character)
  /\ \A s \in Setups : s \in Setup /\ HasSegments(s.global) /\ HasSegments(s.local)
  /\ RolesOf \in [User -> SUBSET Role]
  /\ NoUser \notin User /\ NoToken \notin Token

VARIABLES
  owner, endless, found,  \* the token store
  setup,
  request,    \* path, bearer token, and whether the api key is right
  place,      \* where the request is
  context,    \* the security context on the runtime: whose request it is
  witnessed,  \* history: whose the bearer token has been since it arrived
  disturbed   \* history: an event of the request was left without its answer

requestVars == <<request, place, context, witnessed, disturbed>>
storeVars == <<owner, endless, found>>
vars == <<storeVars, setup, requestVars>>

Store == INSTANCE TokenContract

NoContext == "no context"
Anonymous == "anonymous"

ASSUME ContextsAreNotUsers == {NoContext, Anonymous} \cap User = {}

Init ==
  /\ Store!Init /\ setup \in Setups
  /\ request = [path |-> Root, bearer |-> NoToken, key |-> FALSE]
  /\ place = "done" /\ context = NoContext /\ witnessed = {} /\ disturbed = FALSE

Go(to) == place' = to /\ UNCHANGED <<setup, request, witnessed, disturbed>>

(* Code of the application fails or panics where nothing catches it but    *)
(* the dispatcher, or it stops an event or answers it with nil.            *)
Unanswered(to) == place' = to /\ disturbed' = TRUE /\ UNCHANGED <<setup, request, witnessed>>
--------------------------------------------------------------------------------
OwnerOf(bearer) == IF bearer = NoToken THEN NoUser ELSE owner[bearer]

Arrive(path, bearer, key) ==
  /\ place \notin {"arrived", "resolved"}
  /\ request' = [path |-> path, bearer |-> bearer, key |-> key]
  /\ place' = "arrived" /\ context' = NoContext /\ witnessed' = {OwnerOf(bearer)}
  /\ disturbed' = FALSE
  /\ UNCHANGED <<storeVars, setup>>

(* A listener before one of the two has set a response.                    *)
AnsweredEarly ==
  /\ place \in {"arrived", "resolved"}
  /\ Go("answered")
  /\ UNCHANGED <<storeVars, context>>

(* A listener that runs before one of the two fails or stops the event;    *)
(* or one of the two panics, in a matcher, a rule, a voter, a handler or   *)
(* an entry point.                                                         *)
DispatchEnds ==
  /\ place \in {"arrived", "resolved"}
  /\ Unanswered("controller")
  /\ UNCHANGED <<storeVars, context>>

FirewallMatches == StartsWith(request.path, FirewallPrefix)

NoFirewall ==
  /\ place = "arrived" /\ ~FirewallMatches
  /\ Go("resolved")
  /\ UNCHANGED <<storeVars, context>>

RulesPass == setup.apiKey => request.key

(* A rule of the firewall is not met, and the exception event answers.  If *)
(* a listener of that fails, no other listener of the request runs; if the *)
(* event has no response, the access control listener goes on.             *)
FirewallRefuses ==
  /\ place = "arrived" /\ FirewallMatches /\ ~RulesPass
  /\ context' = Anonymous
  /\ Go("forbidden") \/ Unanswered("controller") \/ Unanswered("resolved")
  /\ UNCHANGED storeVars

(* The token source fails or panics; then the same.                        *)
TokenSourceFails ==
  /\ place = "arrived" /\ FirewallMatches /\ RulesPass
  /\ context' = Anonymous
  /\ Go("failed") \/ Unanswered("controller") \/ Unanswered("resolved")
  /\ UNCHANGED storeVars

(* mutant: a lookup that failed leaves the last answer for the token.      *)
LookupKeepsLast ==
  \/ Store!Lookup(request.bearer) /\ context' = IF owner[request.bearer] = NoUser
                                               THEN Anonymous ELSE owner[request.bearer]
  \/ UNCHANGED storeVars /\ context' = IF found[request.bearer] = NoUser
                                       THEN Anonymous ELSE found[request.bearer]

(* The store is asked; a token that is not found, a lookup or an enricher  *)
(* that fails make an anonymous request.                                   *)
Validate ==
  \/ /\ Store!Lookup(request.bearer)
     /\ context' = IF owner[request.bearer] = NoUser THEN Anonymous ELSE owner[request.bearer]
  \/ UNCHANGED storeVars /\ context' = Anonymous

Resolve ==
  /\ place = "arrived" /\ FirewallMatches /\ RulesPass
  /\ IF request.bearer = NoToken
     THEN context' = Anonymous /\ UNCHANGED storeVars
     ELSE Validate
  /\ Go("resolved")
--------------------------------------------------------------------------------
RulesInForce == IF context = NoContext THEN setup.global ELSE EffectiveRules(setup)

MatchedIndex == MatchRuleIndex(RulesInForce, Normalized(request.path))

Attributes == RulesInForce[MatchedIndex].needs

Unmatched ==
  /\ place = "resolved" /\ MatchedIndex = 0
  /\ Go("controller")
  /\ UNCHANGED <<storeVars, context>>

Granted ==
  \/ Public \in Attributes
  \/ /\ context \in User /\ setup.manager
     /\ DecideAll(setup.strategy, EffectiveVoters(setup), RolesOf[context], Attributes)

(* (The controller runs even if a listener of the granted event fails.)    *)
AccessGranted ==
  /\ place = "resolved" /\ MatchedIndex # 0 /\ Granted
  /\ Go("controller")
  /\ UNCHANGED <<storeVars, context>>

(* No context or no user: the listener answers, or the entry point, or the *)
(* exception event when that fails.  Without an answer are a listener of   *)
(* the denied or of the exception event that fails, and an entry point or  *)
(* an exception event that has nil.                                        *)
Unauthorized ==
  /\ place = "resolved" /\ MatchedIndex # 0 /\ ~Granted /\ context \notin User
  /\ Go("unauthorized") \/ Go("failed") \/ Unanswered("controller")
  /\ UNCHANGED <<storeVars, context>>

(* The denied handler answers, or the exception event: with what failed    *)
(* when the handler did, or no manager decides.  Without an answer are a   *)
(* listener of the denied or of the exception event that fails, and an     *)
(* exception event that has nil.                                           *)
Forbidden ==
  /\ place = "resolved" /\ MatchedIndex # 0 /\ ~Granted /\ context \in User
  /\ \/ setup.manager /\ Go("forbidden")
     \/ Go("failed") \/ Unanswered("controller")
  /\ UNCHANGED <<storeVars, context>>
--------------------------------------------------------------------------------
Witness ==
  /\ witnessed' = IF request.bearer = NoToken THEN witnessed
                  ELSE witnessed \cup {owner'[request.bearer]}
  /\ UNCHANGED <<setup, request, place, context, disturbed>>

StoreChanges ==
  \/ Store!Expire /\ Witness
  \/ \E t \in Token : Store!Delete(t) /\ Witness
  \/ \E u \in User : Store!DeleteByUser(u) /\ Witness
  \/ \E t \in Token, u \in User : Store!Put(t, u) /\ Witness

Next ==
  \/ \E path \in Path, bearer \in Token \cup {NoToken}, key \in BOOLEAN :
       Arrive(path, bearer, key)
  \/ AnsweredEarly \/ DispatchEnds
  \/ NoFirewall \/ FirewallRefuses \/ TokenSourceFails \/ Resolve
  \/ Unmatched \/ AccessGranted \/ Unauthorized \/ Forbidden
  \/ StoreChanges

Spec == Init /\ [][Next]_vars
--------------------------------------------------------------------------------
(* The order of precedence of v3/.documentation/package/SECURITY.md: rule  *)
(* i of a list goes before rule j.                                         *)
Tier(rule) == CASE rule.kind = "exact" -> 1
                [] rule.kind \in {"prefix", "segment"} -> IF rule.path = << >> THEN 4 ELSE 2
                [] rule.kind = "regex" -> 3

Before(rules, i, j) ==
  \/ Tier(rules[i]) < Tier(rules[j])
  \/ /\ Tier(rules[i]) = Tier(rules[j])
     /\ LET longer == Len(rules[i].path) - Len(rules[j].path)
        IN  IF Tier(rules[i]) = 2 /\ longer # 0 THEN longer > 0 ELSE i < j

Applies(rule, path) ==
  CASE rule.kind = "exact" -> path = rule.path
    [] rule.kind = "regex" -> path \in rule.matches
    [] rule.kind = "prefix" -> \E n \in 0 .. Len(path) : rule.path = SubSeq(path, 1, n)
    [] rule.kind = "segment" ->
         \/ rule.path = path
         \/ rule.path = Root /\ path[1] = "/"
         \/ \E n \in 1 .. Len(path) : path[n] = "/" /\ rule.path = SubSeq(path, 1, n - 1)

InForce(rules, path) ==
  {i \in DOMAIN rules : Applies(rules[i], path)
     /\ \A j \in DOMAIN rules \ {i} : Applies(rules[j], path) => Before(rules, i, j)}

(* The shortest beginning of a path that slashes alone follow; no path at  *)
(* all is the root.                                                        *)
Trimmed(path) ==
  IF path = << >> THEN Root
  ELSE SubSeq(path, 1, First({n \in 1 .. Len(path) : \A k \in n + 1 .. Len(path) : path[k] = "/"}))

(* A role is had by inheritance through any number of others: whatever has *)
(* the user's roles, and what its members inherit, has it.                 *)
Inherits(roles, role) ==
  \A S \in SUBSET Role :
    roles \subseteq S /\ (\A r \in S : Inherited[r] \subseteq S) => role \in S

Has(config, u, role) ==
  IF config.hierarchy THEN Inherits(RolesOf[u], role) ELSE role \in RolesOf[u]

Votes(config, u, role) ==
  [i \in DOMAIN config.voters |->
     IF config.voters[i] # "role" THEN config.voters[i]
     ELSE IF Has(config, u, role) THEN "granted" ELSE "denied"]

Enough(strategy, votes) ==
  LET for == {i \in DOMAIN votes : votes[i] = "granted"}
      against == {i \in DOMAIN votes : votes[i] = "denied"}
  IN  /\ for # {}
      /\ strategy = "unanimous" => against = {}
      /\ strategy = "consensus" => Cardinality(for) > Cardinality(against)

MayPass(config, u, rule) ==
  \A role \in rule.needs : Enough(config.strategy, Votes(config, u, role))

(* The rules in force for the path of the request: one at most.            *)
Ruling ==
  LET rules == IF FirewallMatches THEN EffectiveRules(setup) ELSE setup.global
  IN  {rules[i] : i \in InForce(rules, Trimmed(request.path))}

ReachedRightly ==
  /\ FirewallMatches => RulesPass
  /\ \A rule \in Ruling :
       \/ Public \in rule.needs
       \/ /\ FirewallMatches /\ setup.manager
          /\ \E u \in witnessed \ {NoUser} : MayPass(setup, u, rule)

ForbiddenRightly ==
  \/ FirewallMatches /\ ~RulesPass
  \/ \E rule \in Ruling, u \in witnessed \ {NoUser} :
       Public \notin rule.needs /\ ~MayPass(setup, u, rule)

(* A request that was not disturbed reaches its controller only if the     *)
(* rules of its firewall are met, and no rule of access control is in      *)
(* force for its path, or that is public, or its token was valid, at some  *)
(* moment since it arrived, for a user whose roles satisfy it: no revoked  *)
(* token, and no failure of the store, an enricher, a token source, an     *)
(* entry point or a denied handler, opens what is closed.  A failure that  *)
(* disturbs does open it, as the kernel runs the controller of a request   *)
(* that nobody answered; but even there the request counts as one of the   *)
(* users its token has had, or as nobody's.  And it is forbidden only      *)
(* where one of its users is not granted what the rule needs, or a rule of *)
(* the firewall is not met.                                                *)
DecisionsAreRight ==
  /\ place = "controller" /\ ~disturbed => ReachedRightly
  /\ place = "forbidden" => ForbiddenRightly
  /\ context \in User => context \in witnessed

(* The same of a disturbed request, which the code does not keep.          *)
DisturbedStaysClosed == place = "controller" => ReachedRightly
================================================================================
