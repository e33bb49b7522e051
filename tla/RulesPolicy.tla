----------------------------- MODULE RulesPolicy -----------------------------
(***************************************************************************)
(* The deterministic half of the rules stage: the sentiment arc            *)
(* (rules/sentiment.py) and the first-match engine (rules/engine.py) on    *)
(* the policy that ships with the product (rules/policy_default.yaml).     *)
(* Wording, teams' names apart from the routing key, and YAML validation   *)
(* are left out.                                                           *)
(***************************************************************************)
EXTENDS Integers, Sequences, FiniteSetsExt

Unknown == "unknown"    \* a signal the case has no value for (None)

Emotions  == {"calm", "frustrated", "angry"}
Intensity == [calm |-> 0, frustrated |-> 1, angry |-> 2]
Trends    == {"single", "steady", "escalating", "de_escalating"}

NoReadings == [current |-> Unknown, peak |-> Unknown, trend |-> "single"]

(* analyze: the readings of a conversation, by position, reduced to the    *)
(* latest, the most intense and the direction.  Unreadable turns are       *)
(* dropped.                                                                *)
Analyze(readings) ==
  LET read    == {k \in DOMAIN readings : readings[k] \in Emotions}
      rank(k) == Intensity[readings[k]]
      first   == Min(read)
      last    == Max(read)
      top     == CHOOSE k \in read : \A j \in read : rank(j) <= rank(k)
  IN IF read = {} THEN NoReadings
     ELSE [current |-> readings[last],
           peak    |-> readings[top],
           trend   |-> IF first = last THEN "single"
                       ELSE IF rank(last) > rank(first) THEN "escalating"
                       ELSE IF rank(last) < rank(first) \/ rank(top) > rank(last)
                         THEN "de_escalating"
                       ELSE "steady"]

(* The rules, in order of precedence.  `when` has the allowed values of    *)
(* the inputs the rule names; an input it does not name is a wildcard.     *)
Rule(when, priority, routing, hours) ==
  [when |-> when, priority |-> priority, routing |-> routing, hours |-> hours]

Rules == <<
  Rule([severity |-> {"safety_health"}], 1, "safety_escalation", 1),
  Rule([severity |-> {"vulnerable_party"}], 1, "priority_support", 2),
  Rule([severity |-> {"financial_harm"}, emotion |-> {"angry"}], 1, "priority_support", 2),
  Rule([severity |-> {"financial_harm"}], 2, "finance_billing", 4),
  Rule([emotion |-> {"angry"}], 2, "human_review", 4),
  Rule([trend |-> {"escalating"}], 2, "human_review", 4),
  Rule([category |-> {"safety_health"}], 1, "safety_escalation", 2),
  Rule([category |-> {"billing_charge", "record_accuracy"}], 2, "finance_billing", 8),
  Rule([category |-> {"UNCLEAR"}], 3, "triage", 12),
  Rule([category |-> {"delivery_fulfilment"}], 3, "fulfilment", 12),
  Rule([category |-> {"product_fault"}], 3, "returns_quality", 12),
  Rule([category |-> {"service_fault"}], 3, "customer_care", 12),
  Rule([category |-> {"staff_conduct"}], 3, "people_conduct", 12),
  Rule([category |-> {"access_availability"}], 3, "operations", 12),
  Rule(<<>>, 3, "general_queue", 24) >>

Matches(rule, inputs) == \A k \in DOMAIN rule.when : inputs[k] \in rule.when[k]

(* evaluate: the first rule that matches; the last one always does.        *)
Evaluate(inputs) ==
  Rules[Min({k \in DOMAIN Rules : Matches(Rules[k], inputs)})]
=============================================================================
