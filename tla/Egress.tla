------------------------------- MODULE Egress -------------------------------
(***************************************************************************)
(* Outbound under a WorkerFleet: elicitation queues a dispatch job with    *)
(* the question it asks, the workers take the jobs, and a webhook request  *)
(* that ran elicitation inline dispatches beside them.  Two workers run    *)
(* the same job when the lock of the first was lost; a dead worker's job   *)
(* is run again by the next.                                               *)
(***************************************************************************)
EXTENDS WorkerFleet, Outbound

CONSTANTS
  Webhooks,                  \* concurrent webhook requests
  MaxAsks, MaxFailures       \* bounds on the history explored

ASSUME EgressAssumption ==
  /\ Jobbers = Workers /\ Senders = Workers \cup Webhooks /\ Workers \cap Webhooks = {}
  /\ MaxAsks \in Nat /\ MaxFailures \in Nat

VARIABLE failures

vars == <<fleetVars, outVars, failures>>

Init == FleetInit /\ OutInit /\ failures = 0

(* apply_elicitation and the deferral of the job are one transaction.      *)
\* a slip, for the mutation runs:
DeferOnce == IF jobs = <<>> THEN Defer ELSE UNCHANGED jobs
DeferDispatch == Defer

AskAndDefer(q) ==
  /\ Len(jobs) < MaxAsks
  /\ Ask(q)
  /\ DeferDispatch
  /\ UNCHANGED <<proc, holding, lock, faultVars, failures>>

CaseMovesOn == MoveOn /\ UNCHANGED <<fleetVars, failures>>

TakeJob(w, k) == Take(w, k) /\ Begin(w) /\ UNCHANGED failures

(* A webhook runs elicitation to its end before it dispatches.             *)
BeginInline(s) == s \in Webhooks /\ asked # {} /\ Begin(s) /\ UNCHANGED <<fleetVars, failures>>

DispatchStep(s) == Dispatch(s) /\ UNCHANGED <<fleetVars, failures>>

BreakStep(s) ==
  /\ failures < MaxFailures /\ failures' = failures + 1
  /\ Break(s)
  /\ UNCHANGED fleetVars

(* The job ends after its transaction did, in one of its own.              *)
EndJob(w) ==
  /\ \/ send[w].phase = "done" /\ Finish(w)
     \/ send[w].phase = "failed" /\ Retry(w)
  /\ Rest(w)
  /\ UNCHANGED failures

Crash(w) == Die(w) /\ Abort(w) /\ UNCHANGED failures

Fleet == FleetStep /\ UNCHANGED <<outVars, failures>>

Next ==
  \/ \E q \in Questions : AskAndDefer(q)
  \/ CaseMovesOn
  \/ \E w \in Workers : Crash(w) \/ EndJob(w) \/ \E k \in DOMAIN jobs : TakeJob(w, k)
  \/ \E s \in Senders : DispatchStep(s) \/ BreakStep(s)
  \/ \E s \in Webhooks : BeginInline(s)
  \/ Fleet

(* A worker that is down is started again, takes what is due and goes on   *)
(* with it; an open transaction of a webhook ends.                         *)
WorkerStep(w) ==
  \/ Boot(w) /\ UNCHANGED <<outVars, failures>>
  \/ \E k \in DOMAIN jobs : TakeJob(w, k)
  \/ DispatchStep(w) \/ EndJob(w)

Fairness ==
  /\ \A w \in Workers : WF_vars(WorkerStep(w))
  /\ \A s \in Webhooks : WF_vars(DispatchStep(s))

Spec == Init /\ [][Next]_vars /\ Fairness

-----------------------------------------------------------------------------
TypeOK == FleetTypeOK /\ OutTypeOK /\ failures \in Nat

(* The job has yet to read the question, or is at it, or was orphaned with *)
(* it, or ran out of retries.                                              *)
SeesTo(k) ==
  \/ jobs[k].status \in {"todo", "failed"}
  \/ /\ jobs[k].status = "doing"
     /\ \A w \in Workers : holding[w] = k =>
          send[w].phase = "failed" \/ send[w].q = pending

(* The question that is pending and not yet on record has a job that sees  *)
(* to it: no crash, lost lock, overlap or skip forgets it.                 *)
PendingInHand ==
  incomplete /\ reachable /\ pending \notin ledger => \E k \in DOMAIN jobs : SeesTo(k)

Settled ==
  \/ ~incomplete \/ ~reachable
  \/ \E k \in DOMAIN jobs : jobs[k].status = "failed"

(* A question that stays pending reaches the customer, unless a job gave   *)
(* up, a reap failed, or the lock was lost or bypassed: then a dead        *)
(* worker's job stays "doing", for the one that is up reaps no more.       *)
QuestionGetsOut ==
  \A q \in Questions :
    pending = q /\ incomplete ~>
      \/ inbox[q] > 0 \/ pending # q \/ Settled
      \/ reapFailures + lockLosses > 0 \/ bypassing # {}

(* Dispatch keeps the promise of a mailbox.                                *)
MailboxKept == Mail!Spec
=============================================================================
