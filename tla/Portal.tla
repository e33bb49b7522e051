------------------------------- MODULE Portal -------------------------------
(***************************************************************************)
(* What the portal tells a customer about one case: public_status over the *)
(* persisted state, while replies come in, the worker's chain of stages    *)
(* reads them and elicitation decides, and the worker dies, beats or       *)
(* misses its beats.                                                       *)
(*                                                                         *)
(* A reply is in processing when it is newer than the stamp of the last    *)
(* elicitation.  The stamp is taken when the elicitation ends and a        *)
(* message carries the time its request began, so only their order is      *)
(* kept: stamp relates the last elicitation to the newest stored message.  *)
(*                                                                         *)
(* A chain stands for the normalise, extract and elicit jobs of one        *)
(* message: it reads the text of the case, at some point looks at the      *)
(* case again and later writes its decision.  Time passes in ticks of the  *)
(* heartbeat's interval.                                                   *)
(***************************************************************************)
EXTENDS Integers, FiniteSets

CONSTANTS
  StallTicks,    \* portal_stall_seconds
  LiveTicks,     \* worker_liveness_seconds
  MaxMessages, MaxQuestions, MaxFaults   \* bounds on the history explored

ASSUME PortalAssumption ==
  /\ StallTicks \in Nat /\ LiveTicks \in Nat \ {0}
  /\ MaxMessages \in Nat \ {0} /\ MaxQuestions \in Nat
  /\ MaxFaults \in Nat

VARIABLES
  caseState,
  question,      \* the number of the last question asked; 0 before the first
  messages,      \* messages stored with the case
  stamp,         \* elicit.processed_at: none, or older or newer than the newest message
  decided,       \* history: how many messages the standing decision took in
  todo,          \* chains still to start, one per message
  run,           \* the chain the worker is at
  up,            \* the worker process lives
  beat,          \* ticks since the row of worker_heartbeat was set, or NoRow
  age,           \* ticks since the newest message
  post,          \* the reply on its way: none, or whether an elicitation was
                 \* stamped since its request began
  crashes, failures, missed   \* faults so far: of the worker, of a chain, of a beat

caseVars   == <<caseState, question, stamp, decided>>
chainVars  == <<todo, run>>
workerVars == <<up, beat, crashes>>
portalVars == <<caseVars, messages, chainVars, workerVars, age, post, failures, missed>>

Faulty == crashes + failures + missed < MaxFaults

Idle  == [phase |-> "idle", covers |-> 0]
NoRow == -1
Cap(n, top) == IF n < top THEN n + 1 ELSE top

Open   == {"created", "incomplete"}
Handed == {"in_review", "committed"}

PortalInit ==
  /\ caseState = "created" /\ question = 0 /\ stamp = "none" /\ decided = 0
  /\ messages = 1 /\ todo = 1 /\ run = Idle
  /\ \/ up = TRUE /\ beat = 0
     \/ up = FALSE /\ beat = NoRow
  /\ age = 0 /\ post = "none"
  /\ crashes = 0 /\ failures = 0 /\ missed = 0

-----------------------------------------------------------------------------
(* public_status.                                                          *)

(* _reprocessing: the stamp is older than the newest message.              *)
\* a slip, for the mutation runs:
ReprocessingFirst == stamp = "none"
Reprocessing == stamp = "older"

(* worker_down: there is a heartbeat, and it is old.                       *)
WorkerDown == beat # NoRow /\ beat > LiveTicks

\* a slip, for the mutation runs:
OverdueNever == FALSE
Overdue == age > StallTicks

Pending == IF caseState = "incomplete" THEN question ELSE 0

Ready == [kind |-> "ready", question |-> Pending]
Told(kind) == [kind |-> kind, question |-> 0]

Status ==
  IF caseState = "processing_failed" THEN Told("stalled")
  ELSE IF caseState = "created" \/ Reprocessing
       THEN IF WorkerDown \/ Overdue THEN Told("stalled") ELSE Told("processing")
       ELSE Ready

-----------------------------------------------------------------------------
(* Replies.                                                                *)

(* answer takes the time, and ingest_messages commits the message with it  *)
(* and queues its chain.  A reply that is refused, or that windowing takes *)
(* for a new case, leaves this one as it is.                               *)
PostBegin ==
  /\ post = "none" /\ messages < MaxMessages
  /\ post' = "sent"
  /\ UNCHANGED <<caseVars, messages, chainVars, workerVars, age, failures, missed>>

Queued == todo + 1

PostStored ==
  /\ post # "none" /\ caseState # "committed"
  /\ messages' = messages + 1 /\ todo' = Queued
  /\ stamp' = IF stamp = "newer" /\ post = "sent" THEN "older" ELSE stamp
  /\ age' = 0 /\ post' = "none"
  /\ UNCHANGED <<caseState, question, decided, run, workerVars, failures, missed>>

PostDropped ==
  /\ post # "none"
  /\ post' = "none"
  /\ UNCHANGED <<caseVars, messages, chainVars, workerVars, age, failures, missed>>

-----------------------------------------------------------------------------
(* The chain of a message.                                                 *)
Stamped ==
  /\ stamp' = "newer"
  /\ post' = IF post = "sent" THEN "overtaken" ELSE post

(* normalise and extract: the text of the case up to this message at least.*)
ChainRead ==
  /\ up /\ run = Idle /\ todo > 0
  /\ todo' = todo - 1
  /\ \E n \in (messages - todo + 1)..messages : run' = [phase |-> "extract", covers |-> n]
  /\ UNCHANGED <<caseVars, messages, workerVars, age, post, failures, missed>>

(* elicit_case skips a case that was handed off, and leaves its stamp.     *)
ElicitSkip ==
  /\ run.phase = "extract" /\ caseState \in Handed
  /\ run' = Idle
  /\ UNCHANGED <<caseVars, messages, todo, workerVars, age, post, failures, missed>>

(* Nothing new was extracted: the standing decision holds for what was     *)
(* read, touch_elicit_processed stamps it so.                              *)
\* a slip, for the mutation runs:
TouchForgotten == UNCHANGED <<stamp, post>>
Touch == Stamped

ElicitUnchanged ==
  /\ run.phase = "extract" /\ caseState \notin Handed /\ stamp # "none"
  /\ Touch
  /\ decided' = run.covers
  /\ run' = Idle
  /\ UNCHANGED <<caseState, question, messages, todo, workerVars, age, failures, missed>>

(* Something is new: the resolver and a model are asked before the write.  *)
ElicitClaim ==
  /\ run.phase = "extract" /\ caseState \notin Handed
  /\ run' = [run EXCEPT !.phase = "elicit"]
  /\ UNCHANGED <<caseVars, messages, todo, workerVars, age, post, failures, missed>>

ElicitWrite ==
  /\ run.phase = "elicit"
  /\ \/ /\ question < MaxQuestions
        /\ question' = question + 1 /\ caseState' = "incomplete"
     \/ /\ \E s \in {"actionable", "in_review"} : caseState' = s
        /\ UNCHANGED question
  /\ Stamped
  /\ decided' = run.covers
  /\ run' = Idle
  /\ UNCHANGED <<messages, todo, workerVars, age, failures, missed>>

(* The chain ran out of retries.  The case is stamped, if that does not    *)
(* fail as well: such an error is only logged.                             *)
ChainFails ==
  /\ run # Idle /\ Faulty
  /\ failures' = failures + 1
  /\ \/ caseState' = IF caseState \in Open THEN "processing_failed" ELSE caseState
     \/ UNCHANGED caseState
  /\ run' = Idle
  /\ UNCHANGED <<question, stamp, decided, messages, todo, workerVars, age, post, missed>>

(* The reviewer approves.                                                  *)
Approve ==
  /\ caseState \in {"incomplete", "actionable", "in_review"}
  /\ caseState' = "committed"
  /\ UNCHANGED <<question, stamp, decided, messages, chainVars, workerVars, age, post,
                 failures, missed>>

-----------------------------------------------------------------------------
(* The worker process and its heartbeat.                                   *)
Died == /\ up' = FALSE
        /\ run' = Idle
        /\ todo' = IF run = Idle THEN todo ELSE todo + 1

Crash ==
  /\ up /\ Faulty
  /\ crashes' = crashes + 1
  /\ Died
  /\ UNCHANGED <<caseVars, messages, beat, age, post, failures, missed>>

Start ==
  /\ ~up
  /\ up' = TRUE /\ beat' = 0
  /\ UNCHANGED <<caseVars, messages, chainVars, age, post, crashes, failures, missed>>

(* An interval passes: a living worker beats.                              *)
Beats == up

Older == IF beat = NoRow THEN NoRow ELSE Cap(beat, LiveTicks + 1)

Tick ==
  /\ age' = Cap(age, StallTicks + 1)
  /\ beat' = IF Beats THEN 0 ELSE Older
  /\ UNCHANGED <<caseVars, messages, chainVars, up, post, crashes, failures, missed>>

(* The beat fails.  The worker reconnects and goes on; when it cannot, the *)
(* error ends it.                                                          *)
TickMissed ==
  /\ up /\ Faulty
  /\ missed' = missed + 1
  /\ age' = Cap(age, StallTicks + 1)
  /\ beat' = Older
  /\ Died \/ UNCHANGED <<up, chainVars>>
  /\ UNCHANGED <<caseVars, messages, post, crashes, failures>>

-----------------------------------------------------------------------------
Chain == ChainRead \/ ElicitSkip \/ ElicitUnchanged \/ ElicitClaim \/ ElicitWrite
Time  == Tick \/ TickMissed

PortalNext ==
  \/ Chain \/ ChainFails \/ Approve \/ Crash \/ Start

PortalTypeOK ==
  /\ caseState \in Open \cup Handed \cup {"actionable", "processing_failed"}
  /\ question \in 0..MaxQuestions /\ messages \in 1..MaxMessages
  /\ stamp \in {"none", "older", "newer"} /\ decided \in 0..messages
  /\ todo \in 0..messages
  /\ run \in [phase : {"idle", "extract", "elicit"}, covers : 0..messages]
  /\ up \in BOOLEAN /\ beat \in {NoRow} \cup 0..(LiveTicks + 1)
  /\ age \in 0..(StallTicks + 1) /\ post \in {"none", "sent", "overtaken"}
  /\ crashes \in Nat /\ failures \in Nat /\ missed \in Nat
=============================================================================
