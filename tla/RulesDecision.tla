---------------------------- MODULE RulesDecision ----------------------------
(***************************************************************************)
(* The rules stage of one case (rules/stage.py decide_case): who reads the *)
(* case's signals when, what the stage ledger skips, and what the          *)
(* case_decision row holds in the end.                                     *)
(*                                                                         *)
(* decide_case runs in the worker (a rules job, enqueued in the            *)
(* transaction of each extraction) and inside a reviewer's correction      *)
(* request, after the transaction that recorded the correction.  It reads  *)
(* the projected signals and the log of emotion readings in two statements *)
(* of one READ COMMITTED transaction, so an extraction may commit between  *)
(* them, and between them and the write.                                   *)
(***************************************************************************)
EXTENDS RulesPolicy, FiniteSets

CONSTANTS
  Deciders,          \* concurrent executions of decide_case
  Reports,           \* what an extraction may report: category, severity, emotion
  Corrections,       \* the <<signal, value>> pairs reviewers may post
  SentimentWindow,   \* sentiment_window_hours, in ticks
  None,
  MaxRuns, MaxCorrections, MaxAborts, MaxTime   \* bounds on the history explored

Signals   == {"category", "severity", "emotion"}
NoSignals == [k \in Signals |-> Unknown]

ASSUME RulesAssumption ==
  /\ IsFiniteSet(Deciders)
  /\ \A r \in Reports : DOMAIN r = Signals
  /\ \A c \in Corrections : c[1] \in Signals
  /\ SentimentWindow \in Nat
  /\ MaxRuns \in Nat /\ MaxCorrections \in Nat
  /\ MaxAborts \in Nat /\ MaxTime \in Nat

VARIABLES
  signals,     \* field_current, the signals the policy reads
  pinned,      \* signals with a correction
  log,         \* field_extraction: the emotion readings and when they were made
  due,         \* decide_case executions owed: rules jobs and correction requests
  decision,    \* the inputs the case_decision row was computed from, or None
  ledger,      \* inputs whose rules stage is done
  flight,      \* what each running decide_case has read
  lost,        \* history: an execution was given up without a write
  revisited,   \* history: the current inputs were done already when they came up
  runs, corrections, aborts, now

caseVars   == <<signals, pinned, log, runs, corrections, now>>
decideVars == <<decision, ledger>>
vars == <<caseVars, decideVars, due, flight, lost, revisited, aborts>>

Idle == [phase |-> "idle"]

Init ==
  /\ signals = NoSignals /\ pinned = {} /\ log = <<>>
  /\ due = 0 /\ decision = None /\ ledger = {}
  /\ flight = [w \in Deciders |-> Idle]
  /\ lost = FALSE /\ revisited = FALSE
  /\ runs = 0 /\ corrections = 0 /\ aborts = 0 /\ now = 0

(* get_emotion_history: the readings within the window of the newest one,  *)
(* by their position in the log.                                           *)
Arc(readings) ==
  LET newest == readings[Len(readings)].at
      recent == {k \in DOMAIN readings : readings[k].at >= newest - SentimentWindow}
  IN [k \in recent |-> readings[k].emotion]

(* The emotion the rules see: the conversation's peak.                     *)
\* a slip, for the mutation runs:
RouteOnCurrent(s, t) == IF t.current # Unknown THEN t.current ELSE s.emotion
RouteOnPeak(s, t)    == IF t.peak # Unknown THEN t.peak ELSE s.emotion

(* The inputs of the policy and the material of the ledger key.            *)
InputsOf(s, readings) ==
  LET arc == IF readings = <<>> THEN <<s.emotion>> ELSE Arc(readings)
      t   == Analyze(arc)
  IN [category |-> s.category, severity |-> s.severity,
      emotion  |-> RouteOnPeak(s, t),
      trend    |-> t.trend, current |-> t.current]

Inputs == InputsOf(signals, log)

-----------------------------------------------------------------------------
Revisit == revisited' = IF Inputs' = Inputs THEN revisited ELSE Inputs' \in ledger

(* A rules job is enqueued, or a request goes on to decide_case.           *)
\* a slip, for the mutation runs:
DeferLost == UNCHANGED due
Defer == due' = due + 1

(* An extraction: its values are logged and projected unless a reviewer    *)
(* corrected the signal; the rules job is enqueued with the commit.        *)
Extract(r) ==
  /\ runs < MaxRuns
  /\ runs' = runs + 1
  /\ signals' = [k \in Signals |-> IF k \in pinned \/ r[k] = Unknown
                                     THEN signals[k] ELSE r[k]]
  /\ log' = IF r.emotion = Unknown THEN log
              ELSE Append(log, [emotion |-> r.emotion, at |-> now])
  /\ Defer
  /\ UNCHANGED <<decideVars, pinned, corrections, now, flight, lost, aborts>>
  /\ Revisit

(* A reviewer's correction goes to its own log and the projection, never   *)
(* to the log of readings.                                                 *)
Correct(k, v) ==
  /\ corrections < MaxCorrections
  /\ corrections' = corrections + 1
  /\ signals' = [signals EXCEPT ![k] = v]
  /\ pinned' = pinned \cup {k}
  /\ Defer
  /\ UNCHANGED <<decideVars, log, runs, now, flight, lost, aborts>>
  /\ Revisit

(* get_case_decision_inputs.                                               *)
ReadSignals(w) ==
  /\ flight[w].phase = "idle" /\ due > 0
  /\ due' = due - 1
  /\ flight' = [flight EXCEPT ![w] = [phase |-> "signals", signals |-> signals]]
  /\ UNCHANGED <<caseVars, decideVars, lost, revisited, aborts>>

(* get_emotion_history, and the inputs they make together.                 *)
ReadArc(w) ==
  /\ flight[w].phase = "signals"
  /\ flight' = [flight EXCEPT ![w] =
                  [phase |-> "inputs", inputs |-> InputsOf(flight[w].signals, log)]]
  /\ UNCHANGED <<caseVars, decideVars, due, lost, revisited, aborts>>

Holds(w, inputs) == flight[w].phase = "claimed" /\ flight[w].inputs = inputs

\* a slip, for the mutation runs: a done key is waited for, not skipped.
ClaimWaits(w) ==
  /\ flight[w].phase = "inputs" /\ flight[w].inputs \notin ledger
  /\ flight' = [flight EXCEPT ![w].phase = "claimed"]
  /\ UNCHANGED <<caseVars, decideVars, due, lost, revisited, aborts>>

(* claim_stage: waits for a transaction that holds the key, skips a done   *)
(* one.                                                                    *)
Claim(w) ==
  /\ flight[w].phase = "inputs"
  /\ ~(\E v \in Deciders : Holds(v, flight[w].inputs))
  /\ flight' = IF flight[w].inputs \in ledger
                 THEN [flight EXCEPT ![w] = Idle]
                 ELSE [flight EXCEPT ![w].phase = "claimed"]
  /\ UNCHANGED <<caseVars, decideVars, due, lost, revisited, aborts>>

(* upsert_case_decision and complete_stage commit.                         *)
Write(w) ==
  /\ flight[w].phase = "claimed"
  /\ decision' = flight[w].inputs
  /\ ledger' = ledger \cup {flight[w].inputs}
  /\ flight' = [flight EXCEPT ![w] = Idle]
  /\ UNCHANGED <<caseVars, due, lost, revisited, aborts>>

(* An error or a crash: a rules job with attempts left runs again; the     *)
(* last attempt of a job and the request of a correction are gone.         *)
Abort(w) ==
  /\ flight[w].phase # "idle"
  /\ aborts < MaxAborts
  /\ aborts' = aborts + 1
  /\ flight' = [flight EXCEPT ![w] = Idle]
  /\ \/ due' = due + 1 /\ UNCHANGED lost
     \/ lost' = TRUE /\ UNCHANGED due
  /\ UNCHANGED <<caseVars, decideVars, revisited>>

Tick ==
  /\ now < MaxTime
  /\ now' = now + 1
  /\ UNCHANGED <<signals, pinned, log, runs, corrections, decideVars, due, flight,
                 lost, revisited, aborts>>

Decide(w) == ReadSignals(w) \/ ReadArc(w) \/ Claim(w) \/ Write(w)

Next ==
  \/ \E r \in Reports : Extract(r)
  \/ \E c \in Corrections : Correct(c[1], c[2])
  \/ \E w \in Deciders : Decide(w) \/ Abort(w)
  \/ Tick

(* The worker polls its queue and a request runs to its end.               *)
Spec == Init /\ [][Next]_vars /\ \A w \in Deciders : WF_vars(Decide(w))

-----------------------------------------------------------------------------
InputTuples == [category : STRING, severity : STRING, emotion : STRING,
                trend : Trends, current : STRING]

Flights == {Idle} \cup [phase : {"signals"}, signals : [Signals -> STRING]]
                  \cup [phase : {"inputs", "claimed"}, inputs : InputTuples]

TypeOK ==
  /\ signals \in [Signals -> STRING] /\ pinned \subseteq Signals
  /\ due \in Nat /\ runs \in Nat /\ corrections \in Nat /\ now \in Nat
  /\ ledger \subseteq InputTuples /\ decision \in InputTuples \cup {None}
  /\ flight \in [Deciders -> Flights]
  /\ lost \in BOOLEAN /\ revisited \in BOOLEAN

(* Nothing is owed and nothing is running.                                 *)
Quiet == due = 0 /\ \A w \in Deciders : flight[w].phase = "idle"

(* No lost update: when the stage has caught up, the inputs the case has   *)
(* now were decided, however the executions and the reads overlapped.      *)
EveryStateDecided ==
  Quiet /\ ~lost /\ runs + corrections > 0 => Inputs \in ledger

(* One execution at a time leaves the row computed from the case's current *)
(* inputs, unless they are inputs the case had and left before.            *)
FreshOnNewInputs ==
  Quiet /\ ~lost /\ ~revisited /\ runs + corrections > 0 => decision = Inputs

(* An angry word within the window keeps the case urgent, whatever calmer  *)
(* words followed it, once the stage has caught up with new inputs.        *)
AngerHeard ==
  /\ Quiet /\ ~lost /\ ~revisited /\ log # <<>>
  /\ \E k \in DOMAIN Arc(log) : Arc(log)[k] = "angry"
  => Evaluate(decision).priority <= 2

(* The stage catches up: whatever is owed is decided or given up.          *)
CatchesUp == []<>Quiet

-----------------------------------------------------------------------------
(* What the repository says and the code does not keep.                    *)

(* "A re-extraction that changes a signal recomputes": the row is that of  *)
(* the current inputs.                                                     *)
FreshWhenQuiet ==
  Quiet /\ ~lost /\ runs + corrections > 0 => decision = Inputs

(* "A governed-signal change re-derives priority/SLA": a reviewer who      *)
(* corrects the emotion to angry is heard by the rules.                    *)
CorrectedAngerHeard ==
  Quiet /\ ~lost /\ ~revisited /\ "emotion" \in pinned /\ signals.emotion = "angry"
    => decision.emotion = "angry"

(* "Sentiment may RAISE priority within an episode, never LOWER it": a     *)
(* further reading within the window, all else equal, is no reason for a   *)
(* lower priority.                                                         *)
SentimentOnlyRaises ==
  [][/\ log # <<>> /\ log' # log /\ DOMAIN Arc(log') = DOMAIN Arc(log) \cup {Len(log')}
     /\ signals'.category = signals.category /\ signals'.severity = signals.severity
     => Evaluate(Inputs').priority <= Evaluate(Inputs).priority]_vars
=============================================================================
