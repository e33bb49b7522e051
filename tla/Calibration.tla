----------------------------- MODULE Calibration -----------------------------
(* The confidence of an extracted value and the threshold it is routed by:   *)
(* confidence/model.py. A share is kept as a fraction <<part, whole>>, so a  *)
(* comparison is exact; the rounding to four digits is left out.             *)
(*                                                                           *)
(* The labelled set of one field is a tally: per predicted class, how many   *)
(* rows agreed with the gold label and how many did not. A row whose         *)
(* prediction or label is missing is in no tally.                            *)
EXTENDS Integers, FiniteSets, FiniteSetsExt

CONSTANTS
  Classes,
  Abstentions,   \* the values the extractor refuses with: UNCLEAR, null
  MinCellN,      \* _MIN_CELL_N
  Target         \* the accuracy the accepted set has to meet, a fraction

AtLeast(a, b) == a[1] * b[2] >= b[1] * a[2]
Nought == <<0, 1>>
SafeDefault == <<4, 10>>     \* _SAFE_DEFAULT_CONFIDENCE
Unreachable == <<101, 100>>  \* a tau no confidence reaches

\* counts summed over a set of classes
Total(tally, part(_, _)) == MapThenSumSet(LAMBDA c : part(tally, c), Classes)
Right(tally, c) == tally[c].right
Seen(tally, c) == tally[c].right + tally[c].wrong

-----------------------------------------------------------------------------
(* What the runtime reports of a value.                                      *)
NoCalibration == [fitted |-> FALSE]
Fitted(tally) == [fitted |-> TRUE, tally |-> tally]

Times(a, grounding) == <<a[1] * grounding[1], a[2] * grounding[2]>>
Reliability(tally, c) ==
  IF Seen(tally, c) >= MinCellN THEN <<Right(tally, c), Seen(tally, c)>>
  ELSE IF Total(tally, Seen) = 0 THEN SafeDefault
  ELSE <<Total(tally, Right), Total(tally, Seen)>>

\* governed: the field was calibrated
Confidence(calibration, governed, value, grounding) ==
  IF value \in Abstentions THEN Nought
  ELSE IF ~calibration.fitted THEN Times(SafeDefault, grounding)
  ELSE IF ~governed THEN grounding
  ELSE Times(Reliability(calibration.tally, value), grounding)

-----------------------------------------------------------------------------
(* The threshold. A row is scored by the other rows of its class, so a row   *)
(* that is wrong scores higher than a right one of the same class.           *)
Left(tally, c, rightRow) ==
  IF Seen(tally, c) = 1 THEN Nought
  ELSE <<tally[c].right - (IF rightRow THEN 1 ELSE 0), Seen(tally, c) - 1>>

Scored(tally) ==
  {Left(tally, c, TRUE) : c \in {d \in Classes : tally[d].right > 0}}
    \cup {Left(tally, c, FALSE) : c \in {d \in Classes : tally[d].wrong > 0}}

AcceptedRight(tally, tau) ==
  MapThenSumSet(LAMBDA c : tally[c].right,
                {c \in Classes : tally[c].right > 0 /\ AtLeast(Left(tally, c, TRUE), tau)})
AcceptedWrong(tally, tau) ==
  MapThenSumSet(LAMBDA c : tally[c].wrong,
                {c \in Classes : tally[c].wrong > 0 /\ AtLeast(Left(tally, c, FALSE), tau)})
Meets(right, wrong) == right + wrong > 0 /\ AtLeast(<<right, right + wrong>>, Target)
MeetingTaus(tally) ==
  {tau \in Scored(tally) : Meets(AcceptedRight(tally, tau), AcceptedWrong(tally, tau))}

GateMet(tally) == MeetingTaus(tally) # {}
Tau(tally) ==
  IF GateMet(tally) THEN CHOOSE t \in MeetingTaus(tally) : \A o \in MeetingTaus(tally) : AtLeast(o, t)
  ELSE Unreachable

Route(confidence, tau) == IF AtLeast(confidence, tau) THEN "auto" ELSE "review"

(* What the runtime would fill in unseen, of the set the threshold was       *)
(* chosen on.                                                                *)
AutoClasses(tally) ==
  {c \in Classes : Route(Confidence(Fitted(tally), TRUE, c, <<1, 1>>), Tau(tally)) = "auto"}
AutoMeets(tally) ==
  LET right == MapThenSumSet(LAMBDA c : tally[c].right, AutoClasses(tally))
      wrong == MapThenSumSet(LAMBDA c : tally[c].wrong, AutoClasses(tally))
  IN right + wrong = 0 \/ AtLeast(<<right, right + wrong>>, Target)
=============================================================================
