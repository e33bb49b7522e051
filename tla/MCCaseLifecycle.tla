--------------------------- MODULE MCCaseLifecycle ---------------------------
(* CaseLifecycle on small instances.  A run of the extractor reports one    *)
(* of three things: a contentless opener, a delivery complaint without an   *)
(* outcome, or the angry follow-up that names it.                           *)
EXTENDS CaseLifecycle, TLC

CONSTANTS e1, e2, r1, r2

MCValue == {Absent, "other", "delivery", "melted", "refund", "angry"}

Opener    == [NoFacts EXCEPT !["category"] = "other"]
Complaint == [NoFacts EXCEPT !["category"] = "delivery", !["fault"] = "melted"]
Angry     == [NoFacts EXCEPT !["desired_outcome"] = "refund",
                             !["emotion_signal"] = "angry"]

MCExtractions == {Opener, Complaint, Angry}
MCCorrections == {<<"desired_outcome", "refund">>, <<"category", "other">>}

Symmetric == Permutations(Elicitors) \cup Permutations(Reviewers)

-----------------------------------------------------------------------------
(* Two scenes.  "approval": the elicit jobs come one at a time, the desk is *)
(* open.  "budget": they overlap, the extractor runs more often and nobody  *)
(* is at the desk.                                                          *)
VARIABLE scene

Busy == {e \in Elicitors : flight[e] # Idle}
Quiet == UNCHANGED <<stampVars, review, corrections, now>>

InitScene == Init /\ scene \in {"approval", "budget"}
NextScene ==
  /\ UNCHANGED scene
  /\ Next
  /\ scene = "approval" => Cardinality(Busy') <= 1 /\ runs' <= MaxRuns \div 2
  /\ scene = "budget" => Quiet
SpecScene == InitScene /\ [][NextScene]_<<vars, scene>>
=============================================================================
