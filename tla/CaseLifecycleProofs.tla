------------------------- MODULE CaseLifecycleProofs -------------------------
(***************************************************************************)
(* Theorems about CaseLifecycle for every number of concurrent elicit      *)
(* executions, every set of reviewers and every extraction vocabulary.     *)
(***************************************************************************)
EXTENDS CaseLifecycle, FiniteSetTheorems, TLAPS

(* What decide() returns is a plan, and it asks only under the hard cap.   *)
LEMMA DecideFacts ==
  ASSUME NEW i \in Input
  PROVE  /\ Decide(i) \in Plan
         /\ Decide(i).asks # NoQuestion => i.questions < TOTAL_CAP
         /\ Decide(i).state # "committed"
  BY DEF Decide, Input, Plan, Route, HandOff, Ask, NextDrill, Questions, Drills,
         NoQuestion, BudgetLeft, AnchorOpen, TOTAL_CAP

(* The inputs the stage builds from a snapshot are inputs of the policy.   *)
LEMMA InputType ==
  ASSUME NEW s \in Snapshot, NEW resolved \in BOOLEAN, NEW attested \in BOOLEAN
  PROVE  /\ PolicyInput(s, resolved, attested) \in Input
         /\ PolicyInput(s, resolved, attested).questions = s.questions
  BY DEF PolicyInput, Input, Snapshot

(* Project keeps the projection total over the governed fields.            *)
LEMMA ProjectType ==
  ASSUME facts \in Facts, NEW f \in Facts
  PROVE  Project(f) \in Facts
  BY DEF Project, Facts

-----------------------------------------------------------------------------
(* Type correctness.                                                       *)
LEMMA TypeStep == TypeOK /\ [Next]_vars => TypeOK'
  <1> SUFFICES ASSUME TypeOK, [Next]_vars PROVE TypeOK'
    OBVIOUS
  <1> USE LifecycleAssumption DEF TypeOK
  <1>1. ASSUME NEW f \in Extractions, Extract(f) PROVE TypeOK'
    BY <1>1, ProjectType DEF Extract, elicitVars, stampVars
  <1>2. CASE ExtractExhausted
    BY <1>2 DEF ExtractExhausted, StampFailed, CaseStates, stampVars, ruleVars
  <1>3. CASE DecideCase
    BY <1>3 DEF DecideCase, elicitVars, stampVars, fieldVars
  <1>4. ASSUME NEW e \in Elicitors, ElicitRead(e) PROVE TypeOK'
    <2>1. [phase |-> "read", key |-> facts, questions |-> questions,
           anchorAsked |-> anchorAsked] \in Snapshot
      BY DEF Snapshot
    <2> QED
      BY <1>4, <2>1 DEF ElicitRead, elicitVars, stampVars, fieldVars, ruleVars
  <1>5. ASSUME NEW e \in Elicitors, ElicitClaim(e) PROVE TypeOK'
    <2>1. flight[e] \in Snapshot
      BY <1>5 DEF ElicitClaim, Idle, Failing
    <2>2. [flight[e] EXCEPT !.phase = "claimed"] \in Snapshot
      BY <2>1 DEF Snapshot
    <2>3. flight' \in [Elicitors -> Snapshot \cup {Idle, Failing}]
      BY <1>5, <2>2 DEF ElicitClaim
    <2> QED
      BY <1>5, <2>3 DEF ElicitClaim, elicitVars, stampVars, fieldVars, ruleVars
  <1>6. ASSUME NEW e \in Elicitors, ElicitWrite(e) PROVE TypeOK'
    <2>1. flight[e] \in Snapshot
      BY <1>6 DEF ElicitWrite, CompleteStage, Idle, Failing
    <2>2. PICK resolved \in BOOLEAN, attested \in BOOLEAN :
            LET plan == Decide(PolicyInput(flight[e], resolved, attested)) IN
              /\ caseState' = plan.state
              /\ questions' = questions + (IF plan.asks = NoQuestion THEN 0 ELSE 1)
              /\ anchorAsked' = (flight[e].anchorAsked \/ plan.asks = "anchor")
              /\ pending' = plan.asks
      BY <1>6 DEF ElicitWrite, CompleteStage
    <2>3. Decide(PolicyInput(flight[e], resolved, attested)) \in Plan
      BY <2>1, InputType, DecideFacts
    <2>4. /\ caseState' \in CaseStates /\ questions' \in Nat
          /\ anchorAsked' \in BOOLEAN /\ pending' \in Questions \cup {NoQuestion}
      BY <2>1, <2>2, <2>3 DEF Plan, CaseStates, Snapshot
    <2>5. elicited' \subseteq Facts /\ IsFiniteSet(elicited')
      BY <1>6, <2>1, FS_AddElement DEF ElicitWrite, CompleteStage, Snapshot
    <2>6. flight' \in [Elicitors -> Snapshot \cup {Idle, Failing}]
      BY <1>6 DEF ElicitWrite, CompleteStage
    <2> QED
      BY <1>6, <2>4, <2>5, <2>6 DEF ElicitWrite, CompleteStage, stampVars,
         fieldVars, ruleVars
  <1>7. ASSUME NEW e \in Elicitors, ElicitAbort(e) PROVE TypeOK'
    BY <1>7 DEF ElicitAbort, elicitVars, stampVars, fieldVars, ruleVars
  <1>8. ASSUME NEW e \in Elicitors, ElicitExhausted(e) PROVE TypeOK'
    BY <1>8 DEF ElicitExhausted, StampFailed, CaseStates, stampVars, fieldVars,
       ruleVars
  <1>9. ASSUME NEW r \in Reviewers, CorrectBegin(r) PROVE TypeOK'
    BY <1>9 DEF CorrectBegin, CorrectionsOpen, elicitVars, stampVars, fieldVars,
       ruleVars
  <1>10. ASSUME NEW r \in Reviewers, NEW c \in Corrections, CorrectWrite(r, c[1], c[2])
         PROVE TypeOK'
    <2>1. c[1] \in Governed /\ c[2] \in Value
      OBVIOUS
    <2>2. facts' \in Facts /\ pinned' \subseteq Governed
      BY <1>10, <2>1 DEF CorrectWrite, Facts
    <2> QED
      BY <1>10, <2>2 DEF CorrectWrite, elicitVars, stampVars
  <1>11. ASSUME NEW r \in Reviewers, Approve(r) PROVE TypeOK'
    BY <1>11 DEF Approve, Approvable, CommitCase, RecordReviewEvent, CaseStates,
       fieldVars, ruleVars
  <1>12. CASE Undo
    BY <1>12 DEF Undo, UndoOpen, Uncommit, CaseStates, fieldVars, ruleVars
  <1>13. CASE Tick
    BY <1>13 DEF Tick, elicitVars, stampVars, fieldVars, ruleVars
  <1>14. CASE UNCHANGED vars
    BY <1>14 DEF vars, elicitVars, stampVars, fieldVars, ruleVars
  <1> QED
    BY <1>1, <1>2, <1>3, <1>4, <1>5, <1>6, <1>7, <1>8, <1>9, <1>10, <1>11, <1>12,
       <1>13, <1>14 DEF Next, Elicit, Correct

LEMMA TypeInit == Init => TypeOK
  <1> SUFFICES ASSUME Init PROVE TypeOK
    OBVIOUS
  <1>1. NoFacts \in Facts
    BY LifecycleAssumption DEF NoFacts, Facts
  <1>2. IsFiniteSet({})
    BY FS_EmptySet
  <1>3. flight \in [Elicitors -> Snapshot \cup {Idle, Failing}]
    BY DEF Init
  <1> QED
    BY <1>1, <1>2, <1>3 DEF Init, TypeOK, CaseStates

(* Every variable keeps its type, however many stages and requests overlap.*)
THEOREM TypeCorrect == Spec => []TypeOK
  BY TypeInit, TypeStep, PTL DEF Spec

-----------------------------------------------------------------------------
(* The approval gate.                                                      *)

(* What each step may do to the columns the gate is about: only an         *)
(* approval sets the stamp, only an undo clears it, a decision is never    *)
(* withdrawn, and of the other steps only those of the stages move         *)
(* case_state, never to committed.                                         *)
GateStep ==
  \/ UNCHANGED <<caseState, stampVars>> /\ (decided => decided')
  \/ caseState' # "committed" /\ UNCHANGED <<stampVars, decided>>
  \/ UNCHANGED <<caseState, committedAt, committedBy, decided>> /\ decided
     /\ reviewEvent' \in Reviewers /\ (reviewEvent # None => UNCHANGED reviewEvent)
  \/ /\ committedAt = None /\ committedAt' = now /\ committedBy' \in Reviewers
     /\ reviewEvent' \in Reviewers /\ (reviewEvent # None => UNCHANGED reviewEvent)
     /\ decided /\ UNCHANGED decided
  \/ /\ committedAt # None /\ now - committedAt < UndoWindow
     /\ committedAt' = None /\ caseState' = "in_review"
     /\ UNCHANGED <<reviewEvent, decided>>

LEMMA GateSteps == TypeOK /\ [Next]_vars => GateStep
  <1> SUFFICES ASSUME TypeOK, [Next]_vars PROVE GateStep
    OBVIOUS
  <1> USE DEF GateStep
  <1>1. ASSUME NEW f \in Extractions, Extract(f) PROVE GateStep
    BY <1>1 DEF Extract, elicitVars
  <1>2. CASE ExtractExhausted
    BY <1>2 DEF ExtractExhausted, StampFailed, ruleVars
  <1>3. CASE DecideCase
    BY <1>3 DEF DecideCase, elicitVars
  <1>4. ASSUME NEW e \in Elicitors, ElicitRead(e) \/ ElicitClaim(e) \/ ElicitAbort(e)
        PROVE  GateStep
    BY <1>4 DEF ElicitRead, ElicitClaim, ElicitAbort, elicitVars, ruleVars
  <1>5. ASSUME NEW e \in Elicitors, ElicitWrite(e) PROVE GateStep
    <2>1. flight[e] \in Snapshot
      BY <1>5 DEF ElicitWrite, CompleteStage, TypeOK, Idle, Failing
    <2>2. caseState' # "committed"
      BY <1>5, <2>1, InputType, DecideFacts DEF ElicitWrite, CompleteStage
    <2> QED
      BY <1>5, <2>2 DEF ElicitWrite, CompleteStage, ruleVars
  <1>6. ASSUME NEW e \in Elicitors, ElicitExhausted(e) PROVE GateStep
    BY <1>6 DEF ElicitExhausted, StampFailed, ruleVars
  <1>7. ASSUME NEW r \in Reviewers, CorrectBegin(r) PROVE GateStep
    BY <1>7 DEF CorrectBegin, CorrectionsOpen, elicitVars, ruleVars
  <1>8. ASSUME NEW r \in Reviewers, NEW c \in Corrections, CorrectWrite(r, c[1], c[2])
        PROVE  GateStep
    BY <1>8 DEF CorrectWrite, elicitVars
  <1>9. ASSUME NEW r \in Reviewers, Approve(r) PROVE GateStep
    BY <1>9 DEF Approve, Approvable, CommitCase, RecordReviewEvent, TypeOK, ruleVars
  <1>10. CASE Undo
    BY <1>10 DEF Undo, UndoOpen, Uncommit, ruleVars
  <1>11. CASE Tick
    BY <1>11 DEF Tick, elicitVars, ruleVars
  <1>12. CASE UNCHANGED vars
    BY <1>12 DEF vars, elicitVars, ruleVars
  <1> QED
    BY <1>1, <1>2, <1>3, <1>4, <1>5, <1>6, <1>7, <1>8, <1>9, <1>10, <1>11, <1>12
       DEF Next, Elicit, Correct

(* An approved case has a decision, an approver and a measured review; and *)
(* a case shown as committed is approved.                                  *)
THEOREM ApprovalGate == Spec => [](ApprovalBacked /\ CommittedIsStamped)
  <1>1. Init => ApprovalBacked /\ CommittedIsStamped
    BY DEF Init, ApprovalBacked, CommittedIsStamped
  <1>2. /\ TypeOK /\ ApprovalBacked /\ CommittedIsStamped /\ [Next]_vars
        => ApprovalBacked' /\ CommittedIsStamped'
    <2> SUFFICES ASSUME TypeOK, ApprovalBacked, CommittedIsStamped, GateStep
                 PROVE  ApprovalBacked' /\ CommittedIsStamped'
      BY GateSteps
    <2> QED
      BY LifecycleAssumption
         DEF TypeOK, GateStep, ApprovalBacked, CommittedIsStamped, stampVars
  <1> QED
    BY <1>1, <1>2, TypeCorrect, PTL DEF Spec

(* After the undo window an approval is permanent.                         *)
THEOREM ApprovalIsDurable == Spec => ApprovalDurable
  <1>1. TypeOK /\ [Next]_vars
          => (committedAt # None /\ now - committedAt >= UndoWindow
                => UNCHANGED <<committedAt, committedBy>>) \/ UNCHANGED vars
    <2> SUFFICES ASSUME TypeOK, GateStep, committedAt # None,
                        now - committedAt >= UndoWindow
                 PROVE  UNCHANGED <<committedAt, committedBy>> \/ UNCHANGED vars
      BY GateSteps
    <2>1. committedAt \in Nat /\ now \in Nat /\ UndoWindow \in Nat
      BY LifecycleAssumption DEF TypeOK
    <2> QED
      BY <2>1 DEF GateStep, stampVars
  <1> QED
    BY <1>1, TypeCorrect, PTL DEF Spec, ApprovalDurable

(* A standing approval is never re-timed or re-attributed, and the first   *)
(* measured review is the one kept.                                        *)
THEOREM FirstApprovalIsKept == Spec => FirstApprovalStands
  <1>1. TypeOK /\ [Next]_vars
          => \/ /\ committedAt # None /\ committedAt' # None
                  => UNCHANGED <<committedAt, committedBy>>
                /\ reviewEvent # None => UNCHANGED reviewEvent
             \/ UNCHANGED vars
    BY GateSteps DEF GateStep, stampVars
  <1> QED
    BY <1>1, TypeCorrect, PTL DEF Spec, FirstApprovalStands

-----------------------------------------------------------------------------
(* The question budget.                                                    *)

(* The executions that may still ask: they read a count under the cap.     *)
Spenders == {e \in InFlight : flight[e].questions < TOTAL_CAP}

(* Strengthens QuestionsBounded: each execution that may still ask has its *)
(* question set aside.  A new one joins only while the count is under the  *)
(* cap, when there is room for all executions at once.                     *)
BudgetInv == questions + Cardinality(Spenders) < TOTAL_CAP + Cardinality(Elicitors)

LEMMA SpendersFinite ==
  ASSUME TypeOK
  PROVE  /\ IsFiniteSet(Spenders) /\ Spenders \subseteq Elicitors
         /\ Cardinality(Spenders) \in Nat /\ Cardinality(Elicitors) \in Nat
         /\ Cardinality(Spenders) <= Cardinality(Elicitors)
  <1>1. Spenders \subseteq Elicitors
    BY DEF Spenders, InFlight
  <1> QED
    BY <1>1, FS_Subset, FS_CardinalityType, LifecycleAssumption

(* No step but a read adds a spender, and no step but a write asks.        *)
LEMMA BudgetStep == TypeOK /\ TypeOK' /\ BudgetInv /\ [Next]_vars => BudgetInv'
  <1> SUFFICES ASSUME TypeOK, TypeOK', BudgetInv, [Next]_vars PROVE BudgetInv'
    OBVIOUS
  <1>0. /\ IsFiniteSet(Spenders) /\ IsFiniteSet(Spenders')
        /\ Cardinality(Spenders) \in Nat /\ Cardinality(Spenders') \in Nat
        /\ Cardinality(Spenders') <= Cardinality(Elicitors)
        /\ Cardinality(Elicitors) \in Nat
        /\ questions \in Nat /\ questions' \in Nat
    BY SpendersFinite, FS_Subset, FS_CardinalityType, LifecycleAssumption
       DEF TypeOK, Spenders, InFlight
  <1>1. ASSUME Spenders' \subseteq Spenders, questions' = questions PROVE BudgetInv'
    <2>1. Cardinality(Spenders') <= Cardinality(Spenders)
      BY <1>0, <1>1, FS_Subset
    <2> QED
      BY <1>0, <1>1, <2>1 DEF BudgetInv, TOTAL_CAP
  <1>2. CASE UNCHANGED <<flight, questions>>
    <2>1. Spenders' = Spenders
      BY <1>2 DEF Spenders, InFlight
    <2> QED
      BY <1>1, <1>2, <2>1
  <1>3. ASSUME NEW e \in Elicitors, ElicitRead(e) PROVE BudgetInv'
    <2>1. questions' = questions
      BY <1>3 DEF ElicitRead, elicitVars
    <2>2. CASE questions < TOTAL_CAP
      BY <1>0, <2>1, <2>2 DEF BudgetInv, TOTAL_CAP
    <2>3. CASE questions >= TOTAL_CAP
      <3>1. Spenders' \subseteq Spenders
        BY <1>0, <1>3, <2>3 DEF ElicitRead, Spenders, InFlight, TypeOK, TOTAL_CAP
      <3> QED
        BY <1>1, <2>1, <3>1
    <2> QED
      BY <1>0, <2>2, <2>3 DEF TOTAL_CAP
  <1>4. ASSUME NEW e \in Elicitors, ElicitClaim(e) PROVE BudgetInv'
    <2>1. flight[e] \in Snapshot /\ flight[e].phase = "read"
      BY <1>4 DEF ElicitClaim, TypeOK, Idle, Failing
    <2>2. Spenders' \subseteq Spenders
      BY <1>4, <2>1 DEF ElicitClaim, Spenders, InFlight, TypeOK, Idle, Snapshot
    <2> QED
      BY <1>1, <1>4, <2>2 DEF ElicitClaim, elicitVars
  <1>5. ASSUME NEW e \in Elicitors, ElicitWrite(e) PROVE BudgetInv'
    <2>1. flight[e] \in Snapshot /\ e \in InFlight
      BY <1>5 DEF ElicitWrite, CompleteStage, InFlight, TypeOK, Idle, Failing
    <2>2. PICK resolved \in BOOLEAN, attested \in BOOLEAN :
            questions' = questions +
              (IF Decide(PolicyInput(flight[e], resolved, attested)).asks = NoQuestion
                 THEN 0 ELSE 1)
      BY <1>5 DEF ElicitWrite, CompleteStage
    <2>3. \/ questions' = questions
          \/ questions' = questions + 1 /\ flight[e].questions < TOTAL_CAP
      BY <2>1, <2>2, <1>0, InputType, DecideFacts
    <2>4. Spenders' = Spenders \ {e}
      BY <1>5 DEF ElicitWrite, CompleteStage, Spenders, InFlight, TypeOK, Idle
    <2>5. CASE questions' = questions
      BY <1>1, <2>4, <2>5
    <2>6. CASE questions' = questions + 1 /\ flight[e].questions < TOTAL_CAP
      <3>1. e \in Spenders
        BY <2>1, <2>6 DEF Spenders
      <3>2. Cardinality(Spenders') = Cardinality(Spenders) - 1
        BY <1>0, <2>4, <3>1, FS_RemoveElement
      <3> QED
        BY <1>0, <2>6, <3>2 DEF BudgetInv, TOTAL_CAP
    <2> QED
      BY <2>3, <2>5, <2>6
  <1>6. ASSUME NEW e \in Elicitors, ElicitAbort(e) \/ ElicitExhausted(e) PROVE BudgetInv'
    <2>1. Spenders' \subseteq Spenders
      BY <1>6 DEF ElicitAbort, ElicitExhausted, Spenders, InFlight, TypeOK, Idle,
         Failing
    <2> QED
      BY <1>1, <1>6, <2>1 DEF ElicitAbort, ElicitExhausted, elicitVars
  <1>7. ASSUME NEW f \in Extractions, Extract(f) PROVE BudgetInv'
    BY <1>2, <1>7 DEF Extract, elicitVars
  <1>8. CASE ExtractExhausted \/ DecideCase \/ Undo \/ Tick
    BY <1>2, <1>8 DEF ExtractExhausted, DecideCase, Undo, UndoOpen, Uncommit,
       Tick, elicitVars
  <1>9. ASSUME NEW r \in Reviewers, Approve(r) \/ CorrectBegin(r) PROVE BudgetInv'
    BY <1>2, <1>9 DEF Approve, Approvable, CommitCase, RecordReviewEvent,
       CorrectBegin, CorrectionsOpen, elicitVars
  <1>10. ASSUME NEW r \in Reviewers, NEW c \in Corrections, CorrectWrite(r, c[1], c[2])
         PROVE  BudgetInv'
    BY <1>2, <1>10 DEF CorrectWrite, elicitVars
  <1>11. CASE UNCHANGED vars
    BY <1>2, <1>11 DEF vars, elicitVars
  <1> QED
    BY <1>3, <1>4, <1>5, <1>6, <1>7, <1>8, <1>9, <1>10, <1>11 DEF Next, Elicit,
       Correct

(* However many executions of the elicit stage overlap on a case, each one *)
(* beyond the first overruns the cap of three questions by at most one; a  *)
(* single execution at a time keeps it.                                    *)
THEOREM QuestionBudget == Spec => []QuestionsBounded
  <1>1. Init => BudgetInv
    <2> SUFFICES ASSUME Init PROVE BudgetInv
      OBVIOUS
    <2>1. Spenders = {}
      BY DEF Init, Spenders, InFlight, Idle
    <2> QED
      BY <2>1, FS_EmptySet, FS_CardinalityType, LifecycleAssumption
         DEF Init, BudgetInv, TOTAL_CAP
  <1>2. TypeOK /\ BudgetInv => QuestionsBounded
    BY SpendersFinite DEF TypeOK, BudgetInv, QuestionsBounded, TOTAL_CAP
  <1> QED
    BY <1>1, <1>2, BudgetStep, TypeCorrect, PTL DEF Spec

-----------------------------------------------------------------------------
(* What a question costs.                                                  *)

(* Strengthens QuestionsFunded: a claimed state is claimed once and not    *)
(* done, so each completion adds a state to the ledger and at most one     *)
(* question to the count.                                                  *)
ClaimsAreFresh ==
  \A e \in Elicitors : flight[e].phase = "claimed" =>
    /\ flight[e].key \notin elicited
    /\ \A d \in Elicitors \ {e} :
         flight[d].phase = "claimed" => flight[d].key # flight[e].key

FundInv == QuestionsFunded /\ ClaimsAreFresh

LEMMA FundStep == TypeOK /\ FundInv /\ [Next]_vars => FundInv'
  <1> SUFFICES ASSUME TypeOK, FundInv, [Next]_vars PROVE FundInv'
    OBVIOUS
  <1> USE DEF FundInv
  <1>1. CASE UNCHANGED <<flight, elicited, questions>>
    BY <1>1 DEF ClaimsAreFresh, QuestionsFunded
  <1>2. ASSUME NEW e \in Elicitors, ElicitRead(e) \/ ElicitAbort(e) \/ ElicitExhausted(e)
        PROVE  FundInv'
    <2>1. UNCHANGED <<elicited, questions>>
      BY <1>2 DEF ElicitRead, ElicitAbort, ElicitExhausted, elicitVars
    <2>2. /\ flight'[e].phase # "claimed"
          /\ \A d \in Elicitors \ {e} : flight'[d] = flight[d]
      BY <1>2 DEF ElicitRead, ElicitAbort, ElicitExhausted, TypeOK, Idle, Failing
    <2> QED
      BY <2>1, <2>2 DEF ClaimsAreFresh, QuestionsFunded
  <1>3. ASSUME NEW e \in Elicitors, ElicitClaim(e) PROVE FundInv'
    <2>1. UNCHANGED <<elicited, questions>>
      BY <1>3 DEF ElicitClaim, elicitVars
    <2>2. flight[e] \in Snapshot
      BY <1>3 DEF ElicitClaim, TypeOK, Idle, Failing
    <2>3. \A d \in Elicitors \ {e} : flight'[d] = flight[d]
      BY <1>3 DEF ElicitClaim, TypeOK
    <2>4. CASE flight[e].key \in elicited
      <3>1. flight'[e].phase # "claimed"
        BY <1>3, <2>4 DEF ElicitClaim, TypeOK, Idle
      <3> QED
        BY <2>1, <2>3, <3>1 DEF ClaimsAreFresh, QuestionsFunded
    <2>5. CASE flight[e].key \notin elicited
      <3>1. flight'[e].key = flight[e].key
        BY <1>3, <2>2, <2>5 DEF ElicitClaim, TypeOK, Snapshot
      <3>2. \A d \in Elicitors : flight[d].phase = "claimed" => flight[d].key # flight[e].key
        BY <1>3 DEF ElicitClaim, Claimed
      <3> QED
        BY <2>1, <2>3, <2>5, <3>1, <3>2 DEF ClaimsAreFresh, QuestionsFunded
    <2> QED
      BY <2>4, <2>5
  <1>4. ASSUME NEW e \in Elicitors, ElicitWrite(e) PROVE FundInv'
    <2>1. flight[e].phase = "claimed" /\ elicited' = elicited \cup {flight[e].key}
      BY <1>4 DEF ElicitWrite, CompleteStage
    <2>2. /\ flight'[e].phase # "claimed"
          /\ \A d \in Elicitors \ {e} : flight'[d] = flight[d]
      BY <1>4 DEF ElicitWrite, CompleteStage, TypeOK, Idle
    <2>3. ClaimsAreFresh'
      BY <2>1, <2>2 DEF ClaimsAreFresh
    <2>4. Cardinality(elicited') = Cardinality(elicited) + 1
      BY <2>1, FS_AddElement DEF ClaimsAreFresh, TypeOK
    <2>5. questions' = questions \/ questions' = questions + 1
      <3>1. PICK cost \in {0, 1} : questions' = questions + cost
        BY <1>4 DEF ElicitWrite, CompleteStage
      <3> QED
        BY <3>1 DEF TypeOK
    <2>6. Cardinality(elicited) \in Nat /\ questions \in Nat
      BY FS_CardinalityType DEF TypeOK
    <2> QED
      BY <2>3, <2>4, <2>5, <2>6 DEF QuestionsFunded
  <1>5. ASSUME NEW f \in Extractions, Extract(f) PROVE FundInv'
    BY <1>1, <1>5 DEF Extract, elicitVars
  <1>6. CASE ExtractExhausted \/ DecideCase \/ Undo \/ Tick
    BY <1>1, <1>6 DEF ExtractExhausted, DecideCase, Undo, UndoOpen, Uncommit,
       Tick, elicitVars
  <1>7. ASSUME NEW r \in Reviewers, Approve(r) \/ CorrectBegin(r) PROVE FundInv'
    BY <1>1, <1>7 DEF Approve, Approvable, CommitCase, RecordReviewEvent,
       CorrectBegin, CorrectionsOpen, elicitVars
  <1>8. ASSUME NEW r \in Reviewers, NEW c \in Corrections, CorrectWrite(r, c[1], c[2])
        PROVE  FundInv'
    BY <1>1, <1>8 DEF CorrectWrite, elicitVars
  <1>9. CASE UNCHANGED vars
    BY <1>1, <1>9 DEF vars, elicitVars
  <1> QED
    BY <1>2, <1>3, <1>4, <1>5, <1>6, <1>7, <1>8, <1>9 DEF Next, Elicit, Correct

(* No question without an extracted state of its own in the ledger: the    *)
(* replay of a job, a retry after a crash and a second worker on the same  *)
(* state never ask again.                                                  *)
THEOREM QuestionsAreFunded == Spec => []QuestionsFunded
  <1>1. Init => FundInv
    <2> SUFFICES ASSUME Init PROVE FundInv
      OBVIOUS
    <2> QED
      BY FS_EmptySet DEF Init, FundInv, QuestionsFunded, ClaimsAreFresh, Idle
  <1>2. FundInv => QuestionsFunded
    BY DEF FundInv
  <1> QED
    BY <1>1, <1>2, FundStep, TypeCorrect, PTL DEF Spec

=============================================================================
