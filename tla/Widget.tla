------------------------------- MODULE Widget -------------------------------
(***************************************************************************)
(* The customer's side of the portal: the embedded widget.  It polls the   *)
(* status on a timer until it has something to say; polls may overlap and  *)
(* their answers come back late and out of order.  A question opens the    *)
(* composer, a reply closes it and starts the polling again.               *)
(***************************************************************************)
EXTENDS Integers, Sequences

CONSTANTS
  PollTicks,     \* POLL_MAX_MS
  MaxInFlight    \* bound on the answers under way

ASSUME WidgetAssumption == PollTicks \in Nat /\ MaxInFlight \in Nat \ {0}

VARIABLES
  timer,         \* the poll interval is set
  pollAge,       \* ticks since the polling began
  composer,      \* what the customer can do
  shown,         \* the question last shown
  note,          \* "taking longer" was said since the polling began
  inFlight       \* statuses on their way from the server

widgetVars == <<timer, pollAge, composer, shown, note, inFlight>>

(* startConversation, after the submit.                                    *)
WidgetInit ==
  /\ timer = TRUE /\ pollAge = 0 /\ composer = "empty" /\ shown = 0
  /\ note = FALSE /\ inFlight = <<>>

(* fetchStatus: the server answers with the status it has now.             *)
Fetch(status) ==
  /\ timer /\ Len(inFlight) < MaxInFlight
  /\ inFlight' = Append(inFlight, status)
  /\ UNCHANGED <<timer, pollAge, composer, shown, note>>

Without(k) == [j \in 1..(Len(inFlight) - 1) |-> inFlight[IF j < k THEN j ELSE j + 1]]

Arrives(k) == k \in DOMAIN inFlight /\ inFlight' = Without(k)

Expired == pollAge > PollTicks

(* onStatus.                                                               *)
StillProcessing(k) ==
  /\ Arrives(k) /\ inFlight[k].kind # "ready"
  /\ IF Expired
     THEN timer' = FALSE /\ composer' = "again" /\ note' = TRUE
     ELSE /\ note' = (note \/ inFlight[k].kind = "stalled")
          /\ UNCHANGED <<timer, composer>>
  /\ UNCHANGED <<pollAge, shown>>

ComposerFor(q) == IF q > 0 THEN "ask" ELSE "closed"

IsReady(k) ==
  /\ Arrives(k) /\ inFlight[k].kind = "ready"
  /\ timer' = FALSE
  /\ composer' = ComposerFor(inFlight[k].question)
  /\ shown' = inFlight[k].question
  /\ UNCHANGED <<pollAge, note>>

(* The request failed.                                                     *)
FetchFails(k) ==
  /\ Arrives(k)
  /\ timer' = FALSE /\ composer' = "again" /\ note' = TRUE
  /\ UNCHANGED <<pollAge, shown>>

BeginPoll ==
  timer' = TRUE /\ pollAge' = 0 /\ composer' = "empty" /\ note' = FALSE

Again == composer = "again" /\ BeginPoll /\ UNCHANGED <<shown, inFlight>>

(* sendAnswer, until the server has taken the reply or refused it.         *)
Reply ==
  /\ composer = "ask"
  /\ composer' = "sending"
  /\ UNCHANGED <<timer, pollAge, shown, note, inFlight>>

Replied == BeginPoll /\ UNCHANGED <<shown, inFlight>>

Refused ==
  /\ composer' = IF composer = "sending" THEN "ask" ELSE composer
  /\ UNCHANGED <<timer, pollAge, shown, note, inFlight>>

PollTick == pollAge' = IF timer /\ pollAge <= PollTicks THEN pollAge + 1 ELSE pollAge

Deliver == \E k \in DOMAIN inFlight : StillProcessing(k) \/ IsReady(k) \/ FetchFails(k)

WidgetTypeOK ==
  /\ timer \in BOOLEAN /\ pollAge \in 0..(PollTicks + 1)
  /\ composer \in {"empty", "ask", "sending", "closed", "again"}
  /\ note \in BOOLEAN /\ Len(inFlight) <= MaxInFlight
=============================================================================
