------------------------------ MODULE PolicyFile ------------------------------
(***************************************************************************)
(* A tenant's policy file: what parse_policy refuses, and the first-match  *)
(* engine on what it lets through.  YAML is left out: a document is what   *)
(* it loads to, with Bad for a value that is missing or of a wrong type;   *)
(* a `when` that is no mapping has the key Bad.                            *)
(***************************************************************************)
EXTENDS Integers, Sequences, FiniteSets, FiniteSetsExt, SequencesExt

CONSTANTS
  Bad,
  InputKeys,       \* the condition keys a rule may name
  Priorities,
  NoPolicy,        \* a tenant without a policy of its own
  Refused

(* _parse_rule.                                                            *)
WellFormedRule(rule) ==
  /\ rule.id # Bad
  /\ DOMAIN rule.when \subseteq InputKeys
  /\ \A key \in DOMAIN rule.when : rule.when[key] # {} /\ Bad \notin rule.when[key]
  /\ rule.priority \in Priorities
  /\ rule.routing # Bad /\ rule.hours > 0 /\ rule.rationale # Bad

(* parse_policy: some rules, the last of them for whatever is left, no id  *)
(* twice.                                                                  *)
CatchAll(rule) == DOMAIN rule.when = {}
Parses(doc) ==
  /\ doc.version # Bad
  /\ doc.rules # <<>>
  /\ \A rule \in Range(doc.rules) : WellFormedRule(rule)
  /\ CatchAll(Last(doc.rules))
  /\ \A i, j \in DOMAIN doc.rules : doc.rules[i].id = doc.rules[j].id => i = j

(* load_policy: a tenant's own policy replaces the default, or the load    *)
(* fails.                                                                  *)
Loaded(own, default) ==
  CASE own = NoPolicy -> default
    [] own # NoPolicy /\ Parses(own) -> [own EXCEPT !.version = <<"tenant", @>>]
    [] OTHER -> Refused

(* Rule.matches: a rule that names an input needs a value for it.          *)
Matches(rule, inputs) ==
  \A key \in DOMAIN rule.when : key \in DOMAIN inputs /\ inputs[key] \in rule.when[key]

(* evaluate: the first match wins.                                         *)
Matching(policy, inputs) == {i \in DOMAIN policy.rules : Matches(policy.rules[i], inputs)}
Evaluate(policy, inputs) ==
  IF Matching(policy, inputs) = {} THEN Refused
  ELSE [rule |-> policy.rules[Min(Matching(policy, inputs))], version |-> policy.version]
=============================================================================
