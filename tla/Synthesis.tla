------------------------------ MODULE Synthesis ------------------------------
(***************************************************************************)
(* What the engine says of a case without a model: the analysis a reviewer *)
(* reads first (rules/synthesis.py), whether a fault is the customer's own *)
(* word (elicit/stage.py), and the record's facts put to the customer for  *)
(* confirmation.  Texts are sets of content words, phrases are left out:   *)
(* a summary is the sequence of what it states.                            *)
(***************************************************************************)
EXTENDS Integers, Sequences, FiniteSets

CONSTANTS
  Absent,              \* a field the case has no value for
  ContactField(_),     \* is_contact_field, of an attribute's name
  MaxFacts, MaxWidth   \* _MAX_CONFIRM_FACTS, _MAX_FACT_LEN

Stated(condition, what) == IF condition THEN <<what>> ELSE <<>>

-----------------------------------------------------------------------------
(* _fault_grounded: a fault the extractor did not make of the customer's   *)
(* mood, at least two fifths of whose words the customer used.             *)
Grounded(fault, customerWords) ==
  /\ fault.given /\ customerWords # {}
  /\ ~fault.narratesMood
  /\ fault.words # {}
  /\ 10 * Cardinality(fault.words \cap customerWords) >= 4 * Cardinality(fault.words)

-----------------------------------------------------------------------------
(* build_case_analysis.  `grounded` is the flag the elicit stage left, or  *)
(* "unknown" before it ran.                                                *)
Upset == {"frustrated", "angry"}

Summary(governed, grounded) ==
  LET fault    == governed.fault
      asserted == fault.given /\ grounded # "no"
      named    == fault.given /\ governed.anchor \in fault.words
  IN Stated(governed.anchor # Absent /\ ~named, "anchor")
     \o Stated(asserted, "fault")
     \o Stated(~asserted /\ grounded = "no", "still being confirmed")
     \o Stated(governed.emotion \in Upset, "emotion")
     \o Stated(governed.outcome # Absent, "outcome")

(* The first contradiction, with as much of it as the record and the claim *)
(* give.                                                                   *)
Discrepancy(contradictions) ==
  IF contradictions = <<>> THEN Absent
  ELSE LET c == contradictions[1] IN
       CASE c.value # Absent /\ c.claim # Absent -> "the record shows, but the customer says"
         [] c.value # Absent /\ c.claim = Absent -> "the record shows"
         [] c.value = Absent /\ c.claim # Absent -> "the customer says"
         [] OTHER -> "they disagree"

PriorityReason(decision) == IF decision = Absent THEN "none computed yet" ELSE decision

NextStep(governed, grounded, contradictions) ==
  CASE contradictions # <<>> -> "resolve the discrepancy first"
    [] contradictions = <<>> /\ governed.outcome # Absent -> "action the outcome"
    [] contradictions = <<>> /\ governed.outcome = Absent /\ grounded = "no" ->
         "confirm the issue with the customer"
    [] OTHER -> "review"

Analysis(governed, decision, contradictions, grounded) ==
  [summary |-> Summary(governed, grounded), discrepancy |-> Discrepancy(contradictions),
   priorityReason |-> PriorityReason(decision),
   nextStep |-> NextStep(governed, grounded, contradictions)]

-----------------------------------------------------------------------------
(* _confirmation: the record's first facts, in the order of its columns,   *)
(* without the contact, the blanks and the number already named.           *)
Tells(fact, id) == ~ContactField(fact.name) /\ fact.text # <<>> /\ fact.text # id
Shortened(text) == IF Len(text) > MaxWidth THEN SubSeq(text, 1, MaxWidth - 1) \o <<"...">> ELSE text

Confirmation(id, facts) ==
  LET told == SelectSeq(facts, LAMBDA f : Tells(f, id)) IN
  [id    |-> id,
   facts |-> [k \in 1..(IF Len(told) < MaxFacts THEN Len(told) ELSE MaxFacts) |->
                [name |-> told[k].name, text |-> Shortened(told[k].text)]]]
=============================================================================
