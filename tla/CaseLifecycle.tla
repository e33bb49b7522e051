---------------------------- MODULE CaseLifecycle ----------------------------
(***************************************************************************)
(* One case_record row and everything that writes it: the extract, elicit  *)
(* and rules stages, the failure stamp of an exhausted job, and the        *)
(* reviewers' correct / approve / undo requests.                           *)
(*                                                                         *)
(* Every handler is one or more READ COMMITTED transactions.  Two handlers *)
(* read the row, do something long (the elicit stage awaits the resolver   *)
(* and a model; a correction does several statements) and write afterwards *)
(* without checking again: they are two steps here, and any other handler  *)
(* may run in between.                                                     *)
(*                                                                         *)
(* Left to other modules: which job runs when (JobPipeline), what the      *)
(* decision says (RulesDecision), processed_at (the portal's status).      *)
(***************************************************************************)
EXTENDS ElicitPolicy

CONSTANTS
  Elicitors,       \* concurrent executions of elicit_case: worker jobs, webhooks
  Reviewers,
  Value,           \* values of governed fields; the policy tells "other", "angry"
  Absent, None,
  Extractions,     \* what one extraction run may report
  Corrections,     \* the <<field, new value>> pairs reviewers may post
  UndoWindow,      \* UNDO_WINDOW_SECONDS, in ticks
  MaxRuns, MaxCorrections, MaxTime   \* bounds on the history explored

Governed == Essentials \cup {"anchor_value", "emotion_signal"}
Facts    == [Governed -> Value]
NoFacts  == [k \in Governed |-> Absent]

ASSUME LifecycleAssumption ==
  /\ IsFiniteSet(Elicitors) /\ Elicitors # {}
  /\ Absent \in Value
  /\ None \notin Nat \cup Reviewers
  /\ Extractions \subseteq Facts
  /\ Corrections \subseteq Governed \X Value
  /\ UndoWindow \in Nat /\ MaxRuns \in Nat
  /\ MaxCorrections \in Nat /\ MaxTime \in Nat

VARIABLES
  caseState, questions, anchorAsked, pending,   \* case_record, external_mappings.elicit
  committedAt, committedBy,                     \* the approval stamp
  reviewEvent,    \* whose review time was measured (review_event), or None
  facts,          \* field_current, the governed part
  pinned,         \* fields with a correction: no later extraction moves them
  decided,        \* a case_decision row exists
  decideDue,      \* a rules job, or the decide_case of a correction, is to run
  elicited,       \* ledger: the extracted states whose elicit stage is done
  flight,         \* what each running elicit_case read, or its phase
  review,         \* phase of each reviewer's correction request
  runs, corrections, now

elicitVars == <<caseState, questions, anchorAsked, pending>>
stampVars  == <<committedAt, committedBy, reviewEvent>>
fieldVars  == <<facts, pinned, runs, corrections>>
ruleVars   == <<decided, decideDue>>
vars == <<elicitVars, stampVars, fieldVars, ruleVars, elicited, flight, review, now>>

CaseStates == {"created", "incomplete", "actionable", "in_review", "committed",
               "processing_failed"}

(* What elicit_case holds across its waits: the extracted state its ledger *)
(* key is made of, and the row as it read it.                              *)
Snapshot == [phase : {"read", "claimed"}, key : Facts, questions : Nat,
             anchorAsked : BOOLEAN]
Idle     == [phase |-> "idle"]
Failing  == [phase |-> "failing"]
InFlight == {e \in Elicitors : flight[e].phase \in {"read", "claimed"}}

Init ==
  /\ caseState = "created" /\ questions = 0 /\ anchorAsked = FALSE
  /\ pending = NoQuestion
  /\ committedAt = None /\ committedBy = None /\ reviewEvent = None
  /\ facts = NoFacts /\ pinned = {} /\ runs = 0 /\ corrections = 0
  /\ decided = FALSE /\ decideDue = FALSE
  /\ elicited = {}
  /\ flight = [e \in Elicitors |-> Idle]
  /\ review = [r \in Reviewers |-> "idle"]
  /\ now = 0

-----------------------------------------------------------------------------
(* Extraction and rules.                                                   *)

(* rebuild_field_current: per field the latest correction, else the latest *)
(* value any run reported.                                                 *)
Project(f) == [k \in Governed |->
                 IF k \in pinned \/ f[k] = Absent THEN facts[k] ELSE f[k]]

(* extract_case records a run and rebuilds the projection.  The first run, *)
(* a customer's reply, a backfill and a re-homing after a mint all come    *)
(* here: nothing looks at case_state.                                      *)
Extract(f) ==
  /\ runs < MaxRuns
  /\ runs' = runs + 1
  /\ facts' = Project(f)
  /\ decideDue' = TRUE
  /\ UNCHANGED <<elicitVars, stampVars, pinned, corrections, decided, elicited,
                 flight, review, now>>

(* fail_case_processing: never from a state past elicitation.              *)
StampFailed ==
  caseState' = IF caseState \in {"created", "incomplete"}
                 THEN "processing_failed" ELSE caseState

(* The normalise or extract job of a message exhausts its retries.         *)
ExtractExhausted ==
  /\ runs < MaxRuns
  /\ runs' = runs + 1
  /\ StampFailed
  /\ UNCHANGED <<questions, anchorAsked, pending, stampVars, facts, pinned,
                 corrections, ruleVars, elicited, flight, review, now>>

(* decide_case upserts the case_decision.                                  *)
DecideCase ==
  /\ decideDue
  /\ decided' = TRUE /\ decideDue' = FALSE
  /\ UNCHANGED <<elicitVars, stampVars, fieldVars, elicited, flight, review, now>>

-----------------------------------------------------------------------------
(* The elicit stage.                                                       *)

(* get_case_elicit_state and get_field_values; nothing to do for a case    *)
(* handed off or approved.                                                 *)
ElicitRead(e) ==
  /\ flight[e].phase = "idle"
  /\ caseState \notin {"in_review", "committed"}
  /\ flight' = [flight EXCEPT ![e] =
                  [phase |-> "read", key |-> facts, questions |-> questions,
                   anchorAsked |-> anchorAsked]]
  /\ UNCHANGED <<elicitVars, stampVars, fieldVars, ruleVars, elicited, review, now>>

Claimed(key) ==
  \E e \in Elicitors : flight[e].phase = "claimed" /\ flight[e].key = key

(* claim_stage is an insert under a unique index: it waits while another   *)
(* open transaction holds the key, then skips a key that is done.          *)
ElicitClaim(e) ==
  /\ flight[e].phase = "read"
  /\ ~Claimed(flight[e].key)
  /\ flight' = IF flight[e].key \in elicited
                 THEN [flight EXCEPT ![e] = Idle]
                 ELSE [flight EXCEPT ![e].phase = "claimed"]
  /\ UNCHANGED <<elicitVars, stampVars, fieldVars, ruleVars, elicited, review, now>>

(* resolved: the resolver bound one record silently.  attested: enough of  *)
(* the fault's words are the customer's.                                   *)
PolicyInput(s, resolved, attested) ==
  LET known == s.key["category"] # "other" IN
  [present       |-> {k \in Essentials \cup {"anchor_value"} : s.key[k] # Absent},
   angry         |-> s.key["emotion_signal"] = "angry",
   hasAnchor     |-> s.key["anchor_value"] # Absent \/ resolved,
   anchorAsked   |-> s.anchorAsked,
   questions     |-> s.questions,
   grounded      |-> attested /\ s.key["fault"] # Absent /\ known,
   categoryKnown |-> known,
   stated        |-> resolved /\ s.questions <= (IF s.anchorAsked THEN 1 ELSE 0)]

(* complete_stage.                                                         *)
\* a slip, for the mutation runs:
CompleteStageLost(key) == UNCHANGED elicited
CompleteStage(key) == elicited' = elicited \cup {key}

(* apply_elicitation and complete_stage commit together; the update is     *)
(* keyed by the case id alone.                                             *)
ElicitWrite(e) ==
  /\ flight[e].phase = "claimed"
  /\ \E resolved, attested \in BOOLEAN :
       LET plan == Decide(PolicyInput(flight[e], resolved, attested)) IN
       /\ caseState' = plan.state
       /\ questions' = questions + (IF plan.asks = NoQuestion THEN 0 ELSE 1)
       /\ anchorAsked' = (flight[e].anchorAsked \/ plan.asks = "anchor")
       /\ pending' = plan.asks
  /\ CompleteStage(flight[e].key)
  /\ flight' = [flight EXCEPT ![e] = Idle]
  /\ UNCHANGED <<stampVars, fieldVars, ruleVars, review, now>>

(* An error or a crash before the commit: the claim rolls back.  The job   *)
(* is retried, or it was the last attempt and stamps the case next, in a   *)
(* transaction of its own.                                                 *)
ElicitAbort(e) ==
  /\ e \in InFlight
  /\ \E phase \in {Idle, Failing} : flight' = [flight EXCEPT ![e] = phase]
  /\ UNCHANGED <<elicitVars, stampVars, fieldVars, ruleVars, elicited, review, now>>

ElicitExhausted(e) ==
  /\ flight[e].phase = "failing"
  /\ flight' = [flight EXCEPT ![e] = Idle]
  /\ StampFailed
  /\ UNCHANGED <<questions, anchorAsked, pending, stampVars, fieldVars, ruleVars,
                 elicited, review, now>>

-----------------------------------------------------------------------------
(* The review routes.                                                      *)

(* commit_status, as the routes ask for it.                                *)
CorrectionsOpen == committedAt = None

(* post_correction: 409 once the case is approved.                         *)
CorrectBegin(r) ==
  /\ review[r] = "idle"
  /\ CorrectionsOpen
  /\ corrections < MaxCorrections
  /\ review' = [review EXCEPT ![r] = "checked"]
  /\ UNCHANGED <<elicitVars, stampVars, fieldVars, ruleVars, elicited, flight, now>>

(* ... and then records the correction and rebuilds the projection.        *)
CorrectWrite(r, k, v) ==
  /\ review[r] = "checked"
  /\ corrections < MaxCorrections
  /\ corrections' = corrections + 1
  /\ facts' = [facts EXCEPT ![k] = v]
  /\ pinned' = pinned \cup {k}
  /\ decideDue' = TRUE
  /\ review' = [review EXCEPT ![r] = "idle"]
  /\ UNCHANGED <<elicitVars, stampVars, runs, decided, elicited, flight, now>>

(* post_commit: 409 until the rules stage has decided the case.            *)
\* a slip, for the mutation runs:
ApprovableAlways == TRUE
Approvable == decided

(* commit_case: only a case without a stamp is stamped.                    *)
CommitCase(r) ==
  IF committedAt = None
    THEN /\ committedAt' = now /\ committedBy' = r
         /\ caseState' = "committed"
    ELSE UNCHANGED <<committedAt, committedBy, caseState>>

(* record_review_event: the first measurement is kept.                     *)
RecordReviewEvent(r) == reviewEvent' = IF reviewEvent = None THEN r ELSE reviewEvent

Approve(r) ==
  /\ Approvable
  /\ CommitCase(r)
  /\ RecordReviewEvent(r)
  /\ UNCHANGED <<questions, anchorAsked, pending, fieldVars, ruleVars, elicited,
                 flight, review, now>>

(* post_uncommit and uncommit_case, within the grace window.               *)
\* a slip, for the mutation runs:
UndoOpenAlways == committedAt # None
UndoOpen == committedAt # None /\ now - committedAt < UndoWindow

Uncommit == committedAt' = None /\ committedBy' = None /\ caseState' = "in_review"

Undo ==
  /\ UndoOpen
  /\ Uncommit
  /\ UNCHANGED <<questions, anchorAsked, pending, reviewEvent, fieldVars, ruleVars,
                 elicited, flight, review, now>>

Tick ==
  /\ now < MaxTime
  /\ now' = now + 1
  /\ UNCHANGED <<elicitVars, stampVars, fieldVars, ruleVars, elicited, flight, review>>

-----------------------------------------------------------------------------
Elicit(e) == \/ ElicitRead(e)
             \/ ElicitClaim(e)
             \/ ElicitWrite(e)
             \/ ElicitAbort(e)
             \/ ElicitExhausted(e)

Correct(r) == \/ CorrectBegin(r)
              \/ \E c \in Corrections : CorrectWrite(r, c[1], c[2])

Next ==
  \/ \E f \in Extractions : Extract(f)
  \/ ExtractExhausted
  \/ DecideCase
  \/ \E e \in Elicitors : Elicit(e)
  \/ \E r \in Reviewers : Correct(r) \/ Approve(r)
  \/ Undo
  \/ Tick

Spec == Init /\ [][Next]_vars

-----------------------------------------------------------------------------
TypeOK ==
  /\ caseState \in CaseStates /\ questions \in Nat /\ anchorAsked \in BOOLEAN
  /\ pending \in Questions \cup {NoQuestion}
  /\ committedAt \in Nat \cup {None} /\ committedBy \in Reviewers \cup {None}
  /\ reviewEvent \in Reviewers \cup {None}
  /\ facts \in Facts /\ pinned \subseteq Governed
  /\ runs \in Nat /\ corrections \in Nat /\ now \in Nat
  /\ decided \in BOOLEAN /\ decideDue \in BOOLEAN
  /\ elicited \subseteq Facts /\ IsFiniteSet(elicited)
  /\ flight \in [Elicitors -> Snapshot \cup {Idle, Failing}]
  /\ review \in [Reviewers -> {"idle", "checked"}]

(* No approval without a decision to approve, and none goes unmeasured:    *)
(* post_commit refuses a case whose processing is not complete, and        *)
(* records the review of the first approval with the stamp.                *)
ApprovalBacked ==
  committedAt # None => decided /\ committedBy # None /\ reviewEvent # None

(* A case shown as committed carries its approval, whatever stage finishes *)
(* late: no stage can mark a case committed, and the undo unmarks it.      *)
CommittedIsStamped == caseState = "committed" => committedAt # None

(* Every question was paid for by an extracted state of its own: a replay, *)
(* a retry or a second worker on the same state never asks again.          *)
QuestionsFunded == questions <= Cardinality(elicited)

(* How far the question budget stretches: each execution beyond the first  *)
(* can overrun the cap by one, since it may have read the count before the *)
(* others spent it.  With one execution at a time this is the cap itself.  *)
QuestionsBounded == questions < TOTAL_CAP + Cardinality(Elicitors)

(* Past the undo window nothing re-times, re-attributes or lifts an        *)
(* approval.                                                               *)
ApprovalDurable ==
  [][committedAt # None /\ now - committedAt >= UndoWindow
       => UNCHANGED <<committedAt, committedBy>>]_vars

(* The first approval's stamp stands until it is undone, and the review    *)
(* measured first is the one that is kept, undone or not.                  *)
FirstApprovalStands ==
  [][/\ committedAt # None /\ committedAt' # None
         => UNCHANGED <<committedAt, committedBy>>
     /\ reviewEvent # None => UNCHANGED reviewEvent]_vars

-----------------------------------------------------------------------------
(* What the repository says and the interleavings above do not keep.       *)

(* "Rejected (409) once a case is committed: approval is final": no edit    *)
(* reaches an approved case.  A correction that asked before the approval   *)
(* writes after it.                                                         *)
CorrectionsClosed == [][committedAt # None => corrections' = corrections]_vars

(* An approved case stays committed until it is undone.                    *)
ApprovedStaysCommitted == committedAt # None => caseState = "committed"

(* The hard ceiling of the policy: the 4th question is never asked.        *)
QuestionCap == questions <= TOTAL_CAP
=============================================================================
