----------------------------- MODULE WorkerFleet -----------------------------
(***************************************************************************)
(* The worker processes of one queue-set and the jobs they share.  A       *)
(* process may only run while a session of its own holds the advisory lock *)
(* of the queue-set; having it, it first puts back the jobs a dead         *)
(* predecessor left "doing".  The lock ends with the session, which the    *)
(* process opens once and never looks at again.                            *)
(*                                                                         *)
(* What a job does is left to the module that composes this one: it begins *)
(* with Take and ends with Finish or Retry.  The statements on the job     *)
(* table are Procrastinate's.                                              *)
(***************************************************************************)
EXTENDS Integers, Sequences

CONSTANTS
  Workers,       \* processes started on the queue-set
  Nobody,
  MaxRetries,    \* max_attempts of the retry strategy
  MaxCrashes, MaxLockLosses, MaxReapFailures   \* bounds on the faults

ASSUME FleetAssumption ==
  /\ Nobody \notin Workers
  /\ MaxRetries \in Nat /\ MaxCrashes \in Nat /\ MaxLockLosses \in Nat
  /\ MaxReapFailures \in Nat

VARIABLES
  bypassing,     \* the processes started with WORKER_ALLOW_MULTIPLE=1
  jobs,          \* the queue: status and attempts of each job
  proc,          \* what each process is doing
  holding,       \* the job each process works on, or 0
  lock,          \* whose session holds the advisory lock
  crashes, lockLosses, reapFailures

faultVars == <<bypassing, crashes, lockLosses, reapFailures>>
fleetVars == <<jobs, proc, holding, lock, faultVars>>

Unfinished == {"todo", "doing"}

FleetInit ==
  /\ jobs = <<>> /\ bypassing \in SUBSET Workers
  /\ proc = [w \in Workers |-> "down"] /\ holding = [w \in Workers |-> 0]
  /\ lock = Nobody
  /\ crashes = 0 /\ lockLosses = 0 /\ reapFailures = 0

Defer ==
  jobs' = Append(jobs, [status |-> "todo", attempts |-> 0])

(* _singleton_lock: exits when the lock is held, so nothing to do then.    *)
\* a slip, for the mutation runs:
LockFreeAlways == TRUE
LockFree == lock = Nobody

Acquire(w) ==
  /\ proc[w] = "down" /\ w \notin bypassing
  /\ LockFree
  /\ lock' = w
  /\ proc' = [proc EXCEPT ![w] = "locked"]
  /\ UNCHANGED <<jobs, holding, faultVars>>

Bypass(w) ==
  /\ proc[w] = "down" /\ w \in bypassing
  /\ proc' = [proc EXCEPT ![w] = "up"]
  /\ UNCHANGED <<jobs, holding, lock, faultVars>>

(* reap_orphaned_jobs, before the first fetch.                             *)
\* a slip, for the mutation runs:
ReleasedNone == jobs
Released ==
  [k \in DOMAIN jobs |->
     [jobs[k] EXCEPT !.status = IF @ = "doing" THEN "todo" ELSE @]]

Reap(w) ==
  /\ proc[w] = "locked"
  /\ jobs' = Released
  /\ proc' = [proc EXCEPT ![w] = "up"]
  /\ UNCHANGED <<holding, lock, faultVars>>

(* A failed reap is logged and the worker starts all the same.             *)
ReapFails(w) ==
  /\ proc[w] = "locked" /\ reapFailures < MaxReapFailures
  /\ reapFailures' = reapFailures + 1
  /\ proc' = [proc EXCEPT ![w] = "up"]
  /\ UNCHANGED <<jobs, holding, lock, bypassing, crashes, lockLosses>>

(* The oldest first; a job put off for a retry may not be due yet.         *)
Due(k) ==
  /\ jobs[k].status = "todo"
  /\ \A i \in 1..(k - 1) : jobs[i].status = "todo" => jobs[i].attempts > 0

Take(w, k) ==
  /\ proc[w] = "up" /\ holding[w] = 0
  /\ Due(k)
  /\ jobs' = [jobs EXCEPT ![k].status = "doing"]
  /\ holding' = [holding EXCEPT ![w] = k]
  /\ UNCHANGED <<proc, lock, faultVars>>

(* The job is recorded as done, unless somebody else did so before.        *)
Finish(w) ==
  /\ holding[w] # 0
  /\ LET k == holding[w] IN
       jobs' = [jobs EXCEPT ![k].status = IF @ \in Unfinished THEN "done" ELSE @]
  /\ holding' = [holding EXCEPT ![w] = 0]
  /\ UNCHANGED <<proc, lock, faultVars>>

Exhausted(k) == jobs[k].attempts >= MaxRetries

(* The job raised: it is put off while attempts are left, but only if it   *)
(* still counts as "doing", and given up after that.                       *)
Retry(w) ==
  /\ holding[w] # 0
  /\ LET k == holding[w] IN
       jobs' = CASE Exhausted(k) /\ jobs[k].status \in Unfinished
                      -> [jobs EXCEPT ![k].status = "failed"]
                 [] ~Exhausted(k) /\ jobs[k].status = "doing"
                      -> [jobs EXCEPT ![k].status = "todo", ![k].attempts = @ + 1]
                 [] OTHER -> jobs
  /\ holding' = [holding EXCEPT ![w] = 0]
  /\ UNCHANGED <<proc, lock, faultVars>>

(* The process dies, and its session with it.                              *)
Die(w) ==
  /\ proc[w] # "down" /\ crashes < MaxCrashes
  /\ crashes' = crashes + 1
  /\ proc' = [proc EXCEPT ![w] = "down"]
  /\ holding' = [holding EXCEPT ![w] = 0]
  /\ lock' = IF lock = w THEN Nobody ELSE lock
  /\ UNCHANGED <<jobs, bypassing, lockLosses, reapFailures>>

(* Only the session dies: the lock is free and its worker goes on.         *)
LoseLock ==
  /\ lock # Nobody /\ lockLosses < MaxLockLosses
  /\ lockLosses' = lockLosses + 1
  /\ lock' = Nobody
  /\ UNCHANGED <<jobs, proc, holding, bypassing, crashes, reapFailures>>

(* What a process does for itself, without a job.                          *)
Boot(w)   == Acquire(w) \/ Bypass(w) \/ Reap(w)
FleetStep == (\E w \in Workers : Boot(w) \/ ReapFails(w)) \/ LoseLock

-----------------------------------------------------------------------------
Jobs == Seq([status : Unfinished \cup {"done", "failed"}, attempts : 0..MaxRetries])

FleetTypeOK ==
  /\ jobs \in Jobs /\ bypassing \subseteq Workers
  /\ proc \in [Workers -> {"down", "locked", "up"}]
  /\ holding \in [Workers -> Nat] /\ \A w \in Workers : holding[w] \in 0..Len(jobs)
  /\ lock \in Workers \cup {Nobody}
  /\ crashes \in Nat /\ lockLosses \in Nat /\ reapFailures \in Nat

Alive(w) == proc[w] # "down"

(* "Refuse to start a second worker": as long as no lock was lost and none *)
(* was bypassed, at most one process is alive, and it holds the lock.      *)
Singleton ==
  lockLosses = 0 /\ bypassing = {} =>
    \A v, w \in Workers : Alive(v) /\ Alive(w) => v = w /\ lock = v

(* A worker that holds the lock since it started is the only one, so a job *)
(* "doing" is either its own or an orphan: no job is run by two at once.   *)
NoSharedJob ==
  lockLosses = 0 /\ bypassing = {} =>
    \A v, w \in Workers : holding[v] # 0 /\ holding[v] = holding[w] => v = w
=============================================================================
