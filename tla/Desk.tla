-------------------------------- MODULE Desk --------------------------------
(***************************************************************************)
(* The review desk as its readers see it: reviewers correct, approve, undo *)
(* and judge; reports and the register are read meanwhile, a statement at  *)
(* a time, each seeing what was committed by then; and the tuning digest   *)
(* sums up what was corrected.  One field stands for the case's fields.    *)
(*                                                                         *)
(* The rest of the case is elsewhere (CaseLifecycle); what reaches the     *)
(* desk from it is a run of the extractor, which looks at no case_state,   *)
(* and an elicit stage that started before the approval and ends after it. *)
(***************************************************************************)
EXTENDS Integers, Sequences, FiniteSets, FiniteSetsExt, SequencesExt

CONSTANTS
  Cases,
  Age,             \* first_contact_at of each case: no two alike here
  Reviewers, Values,
  NoOne,           \* neither a reviewer nor a value
  UndoWindow,      \* UNDO_WINDOW_SECONDS, in ticks
  RegisterLimit,   \* the LIMIT of list_cases
  MaxCorrections, MaxPapers, MaxTime,
  MaxAsides        \* bound: extractions, late elicit stages and verdicts together

ASSUME DeskAssumption ==
  /\ IsFiniteSet(Cases) /\ Age \in [Cases -> Nat]
  /\ \A c, d \in Cases : Age[c] = Age[d] => c = d
  /\ NoOne \notin Reviewers \cup Values
  /\ UndoWindow \in Nat /\ RegisterLimit \in Nat

Verdicts == {"accurate", "inaccurate"}
NoStamp  == [by |-> NoOne, at |-> 0]
NoPaper  == [kind |-> "none", phase |-> "none", rows |-> <<>>]

VARIABLES
  stage,       \* case_state
  stamp,       \* committed_at, committed_by
  event,       \* review_event: whose review was measured
  decided,     \* a case_decision row exists
  model, value, pinned,   \* what was extracted last; field_current; it is a correction's
  corrections, \* field_correction, in order
  notes,       \* case_feedback, in order
  correcting,  \* what a running post_correction read, of each reviewer
  paper,       \* the report or the register being read
  clock, asides, papers,
  signed,      \* history: the value each case had when it was approved last
  changed,     \* history: its value was written since
  stirred      \* history: cases approved, undone or written since the paper's first read

stampVars == <<stage, stamp, event>>
fieldVars == <<model, value, pinned>>
bounds    == <<clock, asides, papers>>
history   == <<signed, changed, stirred>>
deskVars  == <<stampVars, decided, fieldVars, corrections, notes, correcting, paper,
               bounds, history>>

DeskInit ==
  /\ stage = [c \in Cases |-> "in_review"] /\ stamp = [c \in Cases |-> NoStamp]
  /\ event = [c \in Cases |-> NoOne] /\ decided = [c \in Cases |-> FALSE]
  /\ \E v \in Values : model = [c \in Cases |-> v]
  /\ value = model
  /\ pinned = [c \in Cases |-> FALSE]
  /\ corrections = <<>> /\ notes = <<>>
  /\ correcting = [r \in Reviewers |-> <<>>]
  /\ paper = NoPaper
  /\ clock = 0 /\ asides = 0 /\ papers = 0
  /\ signed = [c \in Cases |-> NoOne] /\ changed = [c \in Cases |-> FALSE]
  /\ stirred = {}

Aside == asides < MaxAsides /\ asides' = asides + 1

\* a case was written under the reader's eyes
Stir(c) == stirred' = IF paper = NoPaper THEN stirred ELSE stirred \cup {c}

-----------------------------------------------------------------------------
(* What the engine does meanwhile.                                         *)

(* The rules stage.                                                        *)
Decided(c) ==
  /\ ~decided[c]
  /\ decided' = [decided EXCEPT ![c] = TRUE]
  /\ UNCHANGED <<stampVars, fieldVars, corrections, notes, correcting, paper, bounds,
                 history>>

(* A run of the extractor: a correction keeps its field.                   *)
Extracted(c, v) ==
  /\ Aside
  /\ model' = [model EXCEPT ![c] = v]
  /\ IF pinned[c]
       THEN UNCHANGED <<value, changed, stirred>>
       ELSE /\ value' = [value EXCEPT ![c] = v]
            /\ changed' = [changed EXCEPT ![c] = TRUE]
            /\ Stir(c)
  /\ UNCHANGED <<stampVars, decided, pinned, corrections, notes, correcting, paper,
                 clock, papers, signed>>

(* apply_elicitation is keyed by the case alone.                           *)
ElicitedLate(c) ==
  /\ Aside
  /\ stage' = [stage EXCEPT ![c] = "actionable"]
  /\ UNCHANGED <<stamp, event, decided, fieldVars, corrections, notes, correcting,
                 paper, clock, papers, history>>

-----------------------------------------------------------------------------
(* The reviewers.                                                          *)
Approved(c) == stamp[c] # NoStamp

(* get_field_values.                                                       *)
\* a slip, for the mutation runs:
PreviousOfModel(c) == model[c]
Previous(c) == value[c]

(* post_correction refuses an approved case and reads what the field says. *)
CorrectOpen(r, c) ==
  /\ correcting[r] = <<>> /\ Len(corrections) < MaxCorrections
  /\ ~Approved(c)
  /\ correcting' = [correcting EXCEPT ![r] =
                      <<[case |-> c, prev |-> Previous(c), was |-> value[c]]>>]
  /\ UNCHANGED <<stampVars, decided, fieldVars, corrections, notes, paper, bounds,
                 history>>

(* record_correction, rebuild_field_current, and the decide_case after it. *)
CorrectWrite(r, new) ==
  /\ correcting[r] # <<>> /\ Len(corrections) < MaxCorrections
  /\ LET read == correcting[r][1]
         c    == read.case IN
     /\ corrections' = Append(corrections, [case |-> c, prev |-> read.prev, new |-> new])
     /\ value' = [value EXCEPT ![c] = new]
     /\ pinned' = [pinned EXCEPT ![c] = TRUE]
     /\ changed' = [changed EXCEPT ![c] = TRUE]
     /\ Stir(c)
     /\ decided' = [decided EXCEPT ![c] = TRUE]
  /\ correcting' = [correcting EXCEPT ![r] = <<>>]
  /\ UNCHANGED <<stampVars, model, notes, paper, bounds, signed>>

(* commit_case stamps a case once.                                         *)
CommitCase(c, r) ==
  IF Approved(c)
    THEN UNCHANGED <<stamp, stage, history>>
    ELSE /\ stamp' = [stamp EXCEPT ![c] = [by |-> r, at |-> clock]]
         /\ stage' = [stage EXCEPT ![c] = "committed"]
         /\ signed' = [signed EXCEPT ![c] = value[c]]
         /\ changed' = [changed EXCEPT ![c] = FALSE]
         /\ Stir(c)

(* post_commit, not before the case is decided; record_review_event keeps  *)
(* the first measurement.                                                  *)
Approve(r, c) ==
  /\ decided[c]
  /\ CommitCase(c, r)
  /\ event' = [event EXCEPT ![c] = IF @ = NoOne THEN r ELSE @]
  /\ UNCHANGED <<decided, fieldVars, corrections, notes, correcting, paper, bounds>>

(* post_uncommit and uncommit_case, within the window.                     *)
Reopened(c) == stage' = [stage EXCEPT ![c] = "in_review"]

Undo(c) ==
  /\ Approved(c) /\ clock - stamp[c].at < UndoWindow
  /\ stamp' = [stamp EXCEPT ![c] = NoStamp]
  /\ Reopened(c)
  /\ Stir(c)
  /\ UNCHANGED <<event, decided, fieldVars, corrections, notes, correcting, paper,
                 bounds, signed, changed>>

(* post_feedback: on any case, approved or not; an unknown verdict is 400. *)
Feedback(r, c, verdict) ==
  /\ Aside
  /\ notes' = Append(notes, [case |-> c, by |-> r, verdict |-> verdict])
  /\ UNCHANGED <<stampVars, decided, fieldVars, corrections, correcting, paper, clock,
                 papers, history>>

Tick ==
  /\ clock < MaxTime /\ clock' = clock + 1
  /\ UNCHANGED <<stampVars, decided, fieldVars, corrections, notes, correcting, paper,
                 asides, papers, history>>

-----------------------------------------------------------------------------
(* What the desk's views say.                                              *)

(* list_case_feedback, and recent_feedback with its tally.                 *)
FeedbackOn(c)  == SelectSeq(notes, LAMBDA n : n.case = c)
RecentFeedback == Reverse(notes)
Tally(verdict) == Quantify(DOMAIN notes, LAMBDA i : notes[i].verdict = verdict)

(* review_breakdown: the measured cases with a correction, whoever made it *)
(* and whenever.                                                           *)
Breakdown == {k.case : k \in {k \in Range(corrections) : event[k.case] # NoOne}}

(* tuning_digest: how often reviewers changed one value to another.        *)
Flips ==
  [flip \in {f \in Values \X Values : f[1] # f[2]} |->
     Quantify(DOMAIN corrections,
              LAMBDA i : <<corrections[i].prev, corrections[i].new>> = flip)]

-----------------------------------------------------------------------------
(* The papers, read one at a time; a row goes out with its stamp.          *)
Row(c) == [stage |-> stage[c], value |-> value[c]]

(* render_case_html asks for the stamp first: no stamp, no report.         *)
ReportGate(c) == Approved(c)

ReportBegin(c) ==
  /\ paper = NoPaper /\ papers < MaxPapers /\ papers' = papers + 1
  /\ ReportGate(c)
  /\ paper' = [kind |-> "report", phase |-> "gated", rows |-> [d \in {c} |-> Row(d)]]
  /\ stirred' = {}
  /\ UNCHANGED <<stampVars, decided, fieldVars, corrections, notes, correcting, clock,
                 asides, signed, changed>>

(* get_case_review: the case row and the fields ...                        *)
ReportRead ==
  /\ paper.phase = "gated"
  /\ paper' = [paper EXCEPT !.phase = "read", !.rows = [c \in DOMAIN @ |-> Row(c)]]
  /\ UNCHANGED <<stampVars, decided, fieldVars, corrections, notes, correcting, bounds,
                 history>>

(* list_cases: the newest RegisterLimit cases, in one statement.           *)
Newest == {c \in Cases : Cardinality({d \in Cases : Age[d] > Age[c]}) < RegisterLimit}

RegisterBegin ==
  /\ paper = NoPaper /\ papers < MaxPapers /\ papers' = papers + 1
  /\ paper' = [kind |-> "register", phase |-> "read", rows |-> [c \in Newest |-> Row(c)]]
  /\ stirred' = {}
  /\ UNCHANGED <<stampVars, decided, fieldVars, corrections, notes, correcting, clock,
                 asides, signed, changed>>

(* ... then, case by case, the decision and the stamp of each row.         *)
RowOut(c) ==
  /\ paper.phase = "read" /\ c \in DOMAIN paper.rows
  /\ \A d \in DOMAIN paper.rows : Age[d] <= Age[c]
  /\ paper' = IF DOMAIN paper.rows = {c} THEN NoPaper
              ELSE [paper EXCEPT !.rows = [d \in DOMAIN @ \ {c} |-> @[d]]]
  /\ UNCHANGED <<stampVars, decided, fieldVars, corrections, notes, correcting, bounds,
                 history>>

-----------------------------------------------------------------------------
DeskStep ==
  \/ \E c \in Cases : \/ Decided(c) \/ ElicitedLate(c) \/ Undo(c)
                      \/ ReportBegin(c) \/ RowOut(c)
                      \/ \E v \in Values : Extracted(c, v)
                      \/ \E r \in Reviewers : \/ CorrectOpen(r, c) \/ Approve(r, c)
                                              \/ \E n \in Verdicts : Feedback(r, c, n)
  \/ \E r \in Reviewers, v \in Values : CorrectWrite(r, v)
  \/ ReportRead \/ RegisterBegin
  \/ Tick

-----------------------------------------------------------------------------
\* the row of c goes out in this step, with the stamp c has
Out(c) == paper.phase = "read" /\ c \in DOMAIN paper.rows /\ c \notin DOMAIN paper'.rows

(* A report out of one undisturbed reading names the reviewer who approved *)
(* the case, and shows what was approved unless it was extracted or        *)
(* corrected again after; a row says committed only of a case with a       *)
(* stamp.  What disturbs a reading is an approval, an undo or a write of   *)
(* that very case.                                                         *)
RowTrue(c) ==
  LET row == paper.rows[c] IN
  c \notin stirred =>
    /\ paper.kind = "report" => Approved(c) /\ (~changed[c] => row.value = signed[c])
    /\ row.stage = "committed" => Approved(c)
RowsTrue   == \A c \in Cases : Out(c) => RowTrue(c)

(* The digest counts the changes reviewers really made: a correction that  *)
(* no other write overtook adds one to the flip from what the field said,  *)
(* the model's word or another reviewer's, to what it says now.            *)
Overtaken(r) == value[correcting[r][1].case] # correcting[r][1].was
Counted(r) ==
  LET c    == correcting[r][1].case
      flip == <<value[c], value'[c]>> IN
  flip[1] # flip[2] => Flips' = [Flips EXCEPT ![flip] = @ + 1]
FlipsReal ==
  \A r \in Reviewers :
    correcting[r] # <<>> /\ correcting'[r] = <<>> /\ ~Overtaken(r) => Counted(r)

DeskSpec == DeskInit /\ [][DeskStep]_deskVars

(* What leaves the desk is real: a report or a register row tells the truth  *)
(* unless its case is written while it is read, and the digest counts the    *)
(* changes reviewers really made.                                            *)
ExportsReal == [][RowsTrue /\ FlipsReal]_deskVars

(* report/pdf.py: nothing external is issued on model output alone. A      *)
(* report shows what its approver approved. It fails.                      *)
ReportIsApproved ==
  [][\A c \in Cases : Out(c) /\ paper.kind = "report" /\ Approved(c)
       => paper.rows[c].value = signed[c]]_deskVars
=============================================================================
