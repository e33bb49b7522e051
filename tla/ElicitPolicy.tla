---------------------------- MODULE ElicitPolicy ----------------------------
(***************************************************************************)
(* The elicitation policy of engine/app/elicit/policy.py: a pure,          *)
(* first-match decision over the state of one case.  It is called by the   *)
(* elicit stage (elicit/stage.py), which measures the inputs: which        *)
(* governed fields are present, whether the fault is grounded in the       *)
(* customer's own words, whether an anchor is known.                       *)
(*                                                                         *)
(* The wording of a question is abstracted to its name.  The name keeps    *)
(* what tells two texts apart: a drill that STATES the resolved record     *)
(* ("narrow", "confirm_outcome") is another text than the open one.        *)
(***************************************************************************)
EXTENDS Integers, FiniteSets

DRILL_BUDGET == 2   \* questions after the anchor
TOTAL_CAP    == 3   \* the anchor and two drills

Essentials == {"category", "fault", "desired_outcome"}

Drills    == {"what_happened", "narrow", "outcome", "confirm_outcome", "clarify"}
Questions == Drills \cup {"anchor"}
NoQuestion == "none"

(* What decide() is told.  present: the governed keys holding a value;     *)
(* angry: the emotion_signal; stated: the stage has a record confirmation  *)
(* to state (the anchor resolved and no drill was asked yet).              *)
Input == [present       : SUBSET (Essentials \cup {"anchor_value"}),
          angry         : BOOLEAN,
          hasAnchor     : BOOLEAN,
          anchorAsked   : BOOLEAN,
          questions     : Nat,
          grounded      : BOOLEAN,
          categoryKnown : BOOLEAN,
          stated        : BOOLEAN]

Plan == [state : {"actionable", "incomplete", "in_review"},
         asks  : Questions \cup {NoQuestion}]

Route    == [state |-> "actionable", asks |-> NoQuestion]
HandOff  == [state |-> "in_review", asks |-> NoQuestion]
Ask(q)   == [state |-> "incomplete", asks |-> q]

(* A fault the customer never described is a gap, and so is the category   *)
(* derived from it.                                                        *)
EffectiveFields(i) ==
  IF i.grounded THEN i.present ELSE i.present \ {"fault", "category"}

DrillsUsed(i) == i.questions - (IF i.anchorAsked THEN 1 ELSE 0)

\* a slip, for the mutation runs:
BudgetLeftUncapped(i)  == i.questions <= TOTAL_CAP
BudgetLeft(i) == DrillsUsed(i) < DRILL_BUDGET /\ i.questions < TOTAL_CAP

(* Nothing described, nothing to look up, no idea what kind of problem.    *)
Contentless(i) ==
  /\ "fault" \notin EffectiveFields(i)
  /\ ~i.hasAnchor
  /\ ~i.categoryKnown

Routable(i) == Essentials \subseteq EffectiveFields(i)

AnchorOpen(i) == ~i.hasAnchor /\ ~i.anchorAsked /\ i.questions < TOTAL_CAP

(* The gap the next drill closes, in the order the policy closes them.     *)
NextDrill(i) ==
  IF "fault" \notin EffectiveFields(i)
    THEN IF i.stated THEN "narrow" ELSE "what_happened"
  ELSE IF "desired_outcome" \notin i.present
    THEN IF i.stated THEN "confirm_outcome" ELSE "outcome"
  ELSE "clarify"

HasGap(i) == \/ "fault" \notin EffectiveFields(i)
             \/ "desired_outcome" \notin i.present
             \/ "category" \notin EffectiveFields(i)

Decide(i) ==
  IF Routable(i) THEN Route
  ELSE IF Contentless(i) /\ BudgetLeft(i) THEN Ask("what_happened")
  ELSE IF i.angry THEN HandOff
  ELSE IF AnchorOpen(i) THEN Ask("anchor")
  ELSE IF ~BudgetLeft(i) THEN HandOff
  ELSE IF HasGap(i) THEN Ask(NextDrill(i))
  ELSE Route
=============================================================================
