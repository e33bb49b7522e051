----------------------------- MODULE PortalChat -----------------------------
(***************************************************************************)
(* A customer, the widget and the portal: Widget polls the Status of       *)
(* Portal, and the replies it sends are stored with the case.              *)
(***************************************************************************)
EXTENDS Portal, Widget

VARIABLES
  orderly,       \* history: every reply began when no chain was left to run
  overlapped     \* history: two answers were under way at once

vars == <<portalVars, widgetVars, orderly, overlapped>>

Init == PortalInit /\ WidgetInit /\ orderly = TRUE /\ overlapped = FALSE

Rested == todo = 0 /\ run = Idle /\ post = "none"

ReplyBegins   == PostBegin /\ Reply
ReplyStored   == PostStored /\ Replied
ReplyDiverted == PostDropped /\ Replied
ReplyRefused  == PostDropped /\ Refused
ServerActs    == PortalNext /\ UNCHANGED widgetVars
Poll          == Fetch(Status) /\ UNCHANGED portalVars
WidgetActs    == (Deliver \/ Again) /\ UNCHANGED portalVars
Passes        == Time /\ PollTick /\ UNCHANGED <<timer, composer, shown, note, inFlight>>

Track ==
  /\ orderly' = (orderly /\ (post' # "none" => Rested \/ post # "none"))
  /\ overlapped' = (overlapped \/ Len(inFlight') > 1)

Next ==
  /\ \/ ReplyBegins \/ ReplyStored \/ ReplyDiverted \/ ReplyRefused
     \/ ServerActs \/ Poll \/ WidgetActs \/ Passes
  /\ Track

(* Time passes, the timer fires, answers arrive, requests end and a living *)
(* worker works; a dead one may stay dead.                                 *)
Fairness ==
  /\ WF_vars(Tick /\ Passes /\ Track)
  /\ WF_vars(Poll /\ Track)
  /\ WF_vars(Deliver /\ UNCHANGED portalVars /\ Track)
  /\ WF_vars((ReplyStored \/ ReplyDiverted) /\ Track)
  /\ WF_vars(Chain /\ UNCHANGED widgetVars /\ Track)

Spec == Init /\ [][Next]_vars /\ Fairness

-----------------------------------------------------------------------------
TypeOK == PortalTypeOK /\ WidgetTypeOK

(* A status of "ready" answers the whole conversation: the standing        *)
(* decision took in every message stored, as long as no reply came in      *)
(* while another was still being read.                                     *)
ReadyWhenOrderly == orderly /\ Status.kind = "ready" => decided = messages

(* A conversation in which nothing is left to do and nothing failed reads  *)
(* as ready, not as a stall, also after a reply that changed nothing;      *)
(* unless the case was handed off, for then elicitation leaves no stamp.   *)
NoFalseStall ==
  Rested /\ failures = 0 /\ caseState \notin Handed => Status.kind = "ready"

(* "A live-but-busy worker never reads as dead", and a missed beat or two  *)
(* does not make it so.                                                    *)
LiveWorkerSeen == up /\ missed <= LiveTicks => ~WorkerDown

(* The question the customer is asked is the one that is pending, as long  *)
(* as the polls and the replies do not overlap.                            *)
AskedIsPending ==
  orderly /\ ~overlapped /\ composer = "ask" /\ Status.kind = "ready" => shown = question

(* The stall guarantee: no status stays "processing" for ever, whatever    *)
(* became of the worker.                                                   *)
StallGuarantee == Status.kind = "processing" ~> Status.kind # "processing"

(* The customer who waits is told something: a question, the outcome, or   *)
(* that it takes longer.                                                   *)
ToldInTime == composer = "empty" /\ ~note ~> composer # "empty" \/ note

-----------------------------------------------------------------------------
(* "The status projection must not serve [the prior turn's question] as    *)
(* ready" while a reply is processed.                                      *)
ReadyIsCurrent == Status.kind = "ready" => decided = messages
=============================================================================
