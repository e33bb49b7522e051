------------------------------ MODULE Backfill ------------------------------
(* The retroactive backfill: a promoted concept is looked for again in the   *)
(* cases of the categories it was attested in, a batch at a time, oldest     *)
(* first. schema/backfill.py, queue.backfill and the statements of           *)
(* store/api.py they call.                                                   *)
EXTENDS Integers, FiniteSets, Sequences, Functions

CONSTANTS
  History,     \* the cases, oldest first, as a sequence
  Concepts,
  Category,    \* field_current's category of each case
  Readable,    \* the cases that have text and documents
  BatchSize,   \* promote_scan.DEFAULT_BATCH_SIZE
  MaxFaults    \* bound: how often a transaction fails or the worker dies

ASSUME BackfillAssumption ==
  /\ BatchSize \in Nat \ {0} /\ MaxFaults \in Nat
  /\ IsInjective(History)

Seen == {History[i] : i \in DOMAIN History}

VARIABLES
  jobs,      \* procrastinate_jobs of task pipeline.backfill, waiting, per concept
  scope,     \* the categories a concept's jobs carry
  tried,     \* backfill_attempt: per concept, the cases with a marker
  runner,    \* the job the worker of the backfill queue runs
  failed,    \* the concepts one of whose jobs has failed
  faults

backfillVars == <<jobs, scope, tried, runner, failed, faults>>

Free == [phase |-> "free"]

BackfillInit ==
  /\ jobs = [k \in Concepts |-> 0] /\ scope = [k \in Concepts |-> {}]
  /\ tried = [k \in Concepts |-> {}]
  /\ runner = Free /\ failed = {} /\ faults = 0

(* defer_backfill: one job for each concept the scan has just promoted, on   *)
(* the scan's transaction. A concept none of whose cases has a category gets *)
(* none, and is not looked at again (promote_scan.py:55).                    *)
Enqueue(new, categories) ==
  /\ jobs' = [k \in Concepts |-> IF k \in new /\ categories[k] # {} THEN jobs[k] + 1
                                 ELSE jobs[k]]
  /\ scope' = [k \in Concepts |-> IF k \in new THEN categories[k] ELSE scope[k]]
  /\ UNCHANGED <<tried, runner, failed, faults>>

InScope(k) == {c \in Seen : Category[c] \in scope[k]}
Needing(k) == InScope(k) \ tried[k]

(* cases_needing_backfill: not yet tried, in scope, the oldest BatchSize.    *)
Older(c, d) == \E i, j \in DOMAIN History : i < j /\ History[i] = c /\ History[j] = d
Batches(k) ==
  {cases \in SUBSET Needing(k) :
     /\ Cardinality(cases) <= BatchSize
     /\ Cardinality(cases) = BatchSize \/ cases = Needing(k)
     /\ \A c \in cases, d \in Needing(k) \ cases : Older(c, d)}

Take(k) ==
  /\ runner = Free /\ jobs[k] > 0
  /\ jobs' = [jobs EXCEPT ![k] = @ - 1]
  /\ \E cases \in Batches(k) :
       runner' = [phase |-> "cases", concept |-> k, todo |-> cases,
                  more |-> Cardinality(cases) = BatchSize]
  /\ UNCHANGED <<scope, tried, failed, faults>>

(* The case the runner is at: the oldest of those it has left.               *)
At(c) == c \in runner.todo /\ \A d \in runner.todo \ {c} : Older(c, d)
OnCase(c) == runner.phase = "cases" /\ At(c)
Without(c) == [runner EXCEPT !.phase = "cases", !.todo = @ \ {c}]

(* A case without text or documents is passed over and not marked.           *)
Pass(c) ==
  /\ OnCase(c) /\ c \notin Readable
  /\ runner' = Without(c)
  /\ UNCHANGED <<jobs, scope, tried, failed, faults>>

(* extract_concept finds nothing: the case is marked and never tried again.  *)
Absent(c) ==
  /\ OnCase(c) /\ c \in Readable
  /\ tried' = [tried EXCEPT ![runner.concept] = @ \cup {c}]
  /\ runner' = Without(c)
  /\ UNCHANGED <<jobs, scope, failed, faults>>

(* It finds the concept, and the transaction that records it begins; it ends *)
(* with the marker, or not at all.                                           *)
Find(c) ==
  /\ OnCase(c) /\ c \in Readable
  /\ runner' = [runner EXCEPT !.phase = "writing"]
  /\ UNCHANGED <<jobs, scope, tried, failed, faults>>
Found(c) ==
  /\ runner.phase = "writing" /\ At(c)
  /\ tried' = [tried EXCEPT ![runner.concept] = @ \cup {c}]
  /\ runner' = Without(c)
  /\ UNCHANGED <<jobs, scope, failed, faults>>

(* The model or the database raises. The task has no retry: the job fails    *)
(* and the cases left are nobody's.                                          *)
JobFails ==
  /\ runner.phase = "writing" \/ (runner.phase = "cases" /\ runner.todo # {})
  /\ failed' = failed \cup {runner.concept}
  /\ runner' = Free /\ faults < MaxFaults /\ faults' = faults + 1
  /\ UNCHANGED <<jobs, scope, tried>>

(* A full batch came back: the next job is queued, in a transaction of its   *)
(* own, before this one is finished.                                         *)
MoreNever(k) == jobs[k]                        \* a slip, for the mutation runs
More(k) == jobs[k] + 1
Requeue ==
  /\ runner.phase = "cases" /\ runner.todo = {} /\ runner.more
  /\ jobs' = [jobs EXCEPT ![runner.concept] = More(runner.concept)]
  /\ runner' = [runner EXCEPT !.more = FALSE]
  /\ UNCHANGED <<scope, tried, failed, faults>>
Finish ==
  /\ runner.phase = "cases" /\ runner.todo = {} /\ ~runner.more
  /\ runner' = Free
  /\ UNCHANGED <<jobs, scope, tried, failed, faults>>

(* The worker dies; the next one's reaper puts its job back.                 *)
Crash ==
  /\ runner # Free /\ faults < MaxFaults
  /\ faults' = faults + 1
  /\ jobs' = [jobs EXCEPT ![runner.concept] = @ + 1]
  /\ runner' = Free
  /\ UNCHANGED <<scope, tried, failed>>

BackfillStep == \/ \E k \in Concepts : Take(k)
                \/ \E c \in Seen : Pass(c) \/ Absent(c)
                \/ Requeue \/ Finish
=============================================================================
