----------------------------- MODULE JobPipeline -----------------------------
(***************************************************************************)
(* From a message to a decided case: intake stores a document and queues   *)
(* its normalisation, which queues the extraction of the case, which       *)
(* queues its elicitation.  Each stage is one transaction that claims a    *)
(* ledger key, works, and enqueues the next stage with its own commit.     *)
(*                                                                         *)
(* One worker takes the jobs in order of their ids; a job is taken off the *)
(* queue in a transaction of its own, after the stage's, so a crash in     *)
(* between runs the stage again.  A failed job is retried MaxRetries times *)
(* and then stamps its case.  Webhook requests run the same stages inline, *)
(* beside the jobs that intake queued for them, and give up on any error.  *)
(*                                                                         *)
(* Originals are content-addressed: one source_document per tenant and     *)
(* content, whichever case it came in for first.  The keys of the ledger   *)
(* are contents too.                                                       *)
(*                                                                         *)
(* Left out: which case a message belongs to (any), the rules and dispatch *)
(* jobs queued beside elicitation, and what elicitation decides.           *)
(***************************************************************************)
EXTENDS Integers, Sequences, FiniteSets

CONSTANTS
  Cases, Docs,
  Reading,       \* what each document says: a text, or Blank
  Unreadable,    \* documents this host reads only in part: normalisation is
                 \* degraded, and Reading is what it could make out
  Webhooks,      \* concurrent webhook requests
  Blank, None,
  Moves,         \* the states elicitation may decide on
  MaxRetries,    \* max_attempts of the retry strategy
  MaxDeliveries, MaxFailures, MaxCrashes   \* bounds on the history explored

ASSUME PipelineAssumption ==
  /\ IsFiniteSet(Docs) /\ Unreadable \subseteq Docs /\ DOMAIN Reading = Docs
  /\ None \notin Cases /\ "worker" \notin Webhooks
  /\ Moves # {} /\ Moves \subseteq {"incomplete", "actionable", "in_review"}
  /\ MaxRetries \in Nat
  /\ MaxDeliveries \in Nat /\ MaxFailures \in Nat /\ MaxCrashes \in Nat

VARIABLES
  caseState,    \* case_state, or "absent"
  received,     \* history: the documents each case's customer sent
  home,         \* source_document.case_id
  before,       \* pairs of documents: the normalisation of the first last began
                \* before the second's; the order of normalised_content.created_at
  content,      \* documents with a row of normalised_content
  normalised,   \* ledger: documents whose normalise stage is done
  extracted,    \* ledger: texts whose extract stage is done
  log,          \* committed extraction runs: the case and the text they read
  elicited,     \* cases elicited before
  jobs,         \* the queue
  run,          \* what the worker and each webhook are doing
  up,           \* the worker process lives
  gaveUp,       \* history: jobs that ran out of retries
  unmarked,     \* history: cases a failure could not be stamped on
  unreaped,     \* history: jobs the start of this worker failed to release
  nextId, deliveries, failures, crashes

caseVars  == <<caseState, elicited>>
dataVars  == <<received, home, before, content, normalised, extracted, log>>
queueVars == <<jobs, nextId>>
envVars   == <<up, gaveUp, unmarked, unreaped, deliveries, failures, crashes>>
vars == <<caseVars, dataVars, queueVars, envVars, run>>

Worker    == "worker"
Executors == Webhooks \cup {Worker}
Idle      == [phase |-> "idle"]

Open == {"created", "incomplete"}      \* states a failure may be stamped on
CaseStates == {"absent", "created", "processing_failed"} \cup Moves

(* get_case_normalised_text: what some documents say in the case, oldest   *)
(* first; and what they all say.                                           *)
Telling(c, docs) == {d \in content \cap docs : home[d] = c /\ Reading[d] # Blank}
Joined(docs, order) ==
  LET Place(d) == Cardinality({x \in docs : <<x, d>> \in order}) + 1
  IN [k \in 1..Cardinality(docs) |-> Reading[CHOOSE d \in docs : Place(d) = k]]

TextFrom(c, docs) == Joined(Telling(c, docs), before)

TextOf(c) == TextFrom(c, Docs)

Init ==
  /\ caseState = [c \in Cases |-> "absent"] /\ elicited = {}
  /\ received = [c \in Cases |-> {}] /\ home = [d \in Docs |-> None]
  /\ before = {} /\ content = {}
  /\ normalised = {} /\ extracted = {} /\ log = <<>>
  /\ jobs = {} /\ nextId = 1
  /\ run = [e \in Executors |-> Idle]
  /\ up = TRUE /\ gaveUp = {} /\ unmarked = {} /\ unreaped = {}
  /\ deliveries = 0 /\ failures = 0 /\ crashes = 0

(* defer_in_transaction: the job is queued by the transaction that calls.  *)
Enqueue(stage, of) ==
  /\ jobs' = jobs \cup {[id |-> nextId, stage |-> stage, of |-> of, attempts |-> 0,
                         status |-> "todo"]}
  /\ nextId' = nextId + 1

(* A stage about to run: by the worker for a job, or inline for a request. *)
Start(stage, of, job, c) ==
  [phase |-> "start", stage |-> stage, of |-> of, job |-> job, case |-> c,
   text |-> <<>>]

-----------------------------------------------------------------------------
(* Intake.                                                                 *)

(* ingest_messages: the document is stored unless its content is there,    *)
(* for whatever case, and its normalisation is queued.                     *)
Ingest(c, d) ==
  /\ deliveries < MaxDeliveries
  /\ deliveries' = deliveries + 1
  /\ caseState' = [caseState EXCEPT ![c] = IF @ = "absent" THEN "created" ELSE @]
  /\ received' = [received EXCEPT ![c] = @ \cup {d}]
  /\ home' = [home EXCEPT ![d] = IF @ = None THEN c ELSE @]
  /\ Enqueue("normalise", d)
  /\ UNCHANGED <<elicited, before, content, normalised, extracted, log, up, gaveUp,
                 unmarked, unreaped, failures, crashes>>

(* The portal, an upload: the worker does the rest.                        *)
Deliver(c, d) == Ingest(c, d) /\ UNCHANGED run

(* A webhook request runs the stages itself, on the case it came in for.   *)
DeliverInline(w, c, d) ==
  /\ run[w] = Idle
  /\ Ingest(c, d)
  /\ run' = [run EXCEPT ![w] = Start("normalise", d, None, c)]

-----------------------------------------------------------------------------
(* The stages, in the worker or inline.                                    *)
At(e, stage, phase) == run[e].phase = phase /\ run[e].stage = stage
Goto(e, phase)      == run' = [run EXCEPT ![e].phase = phase]

(* claim_stage waits while another open transaction holds the key.         *)
\* a slip, for the mutation runs:
HeldNever(e, stage) == FALSE
Held(e, stage) ==
  \E x \in Executors \ {e} :
    /\ At(x, stage, "claimed")
    /\ IF stage = "normalise" THEN run[x].of = run[e].of ELSE run[x].text = run[e].text

(* normalise_source_document: a document that is done is skipped, and      *)
(* nothing follows.  The row it will write is dated by the start of the    *)
(* transaction, unless it is there already and is only replaced.           *)
Begin(d) == before' = IF d \in content THEN before
                      ELSE {p \in before : p[1] # d} \cup ((Docs \ {d}) \X {d})

NormaliseClaim(e) ==
  /\ At(e, "normalise", "start")
  /\ ~Held(e, "normalise")
  /\ IF run[e].of \in normalised THEN Goto(e, "done") /\ UNCHANGED before
       ELSE Goto(e, "claimed") /\ Begin(run[e].of)
  /\ UNCHANGED <<caseVars, received, home, content, normalised, extracted, log,
                 queueVars, envVars>>

(* save_normalised_content, under the case the document was first stored   *)
(* for.                                                                    *)
Save(d) == content' = content \cup {d}

(* A host that cannot read all of it keeps what it could read and leaves   *)
(* the stage failed; nothing follows.                                      *)
NormaliseDegraded(e) ==
  /\ At(e, "normalise", "claimed")
  /\ run[e].of \in Unreadable
  /\ Save(run[e].of)
  /\ Goto(e, "done")
  /\ UNCHANGED <<caseVars, received, home, before, normalised, extracted, log,
                 queueVars, envVars>>

\* a slip, for the mutation runs:
ChainUnlessKnown(c) == IF caseState[c] = "created" THEN Enqueue("extract", c)
                       ELSE UNCHANGED queueVars
Chain(c) == Enqueue("extract", c)

NormaliseCommit(e) ==
  /\ At(e, "normalise", "claimed")
  /\ run[e].of \notin Unreadable
  /\ Save(run[e].of)
  /\ normalised' = normalised \cup {run[e].of}
  /\ Chain(home[run[e].of])
  /\ Goto(e, "done")
  /\ UNCHANGED <<caseVars, received, home, before, extracted, log, envVars>>

(* extract_case: nothing to do without a text.                             *)
ExtractRead(e) ==
  /\ At(e, "extract", "start")
  /\ LET text == TextOf(run[e].of) IN
       run' = [run EXCEPT ![e].text  = text,
                          ![e].phase = IF text = <<>> THEN "done" ELSE "read"]
  /\ UNCHANGED <<caseVars, dataVars, queueVars, envVars>>

(* The key of the ledger is the text alone, not the case.                  *)
\* a slip, for the mutation runs:
CaseKnown(c, text) == \E k \in DOMAIN log : log[k].case = c
Known(c, text) == text \in extracted

ExtractClaim(e) ==
  /\ At(e, "extract", "read")
  /\ ~Held(e, "extract")
  /\ Goto(e, IF Known(run[e].of, run[e].text) THEN "done" ELSE "claimed")
  /\ UNCHANGED <<caseVars, dataVars, queueVars, envVars>>

ExtractCommit(e) ==
  /\ At(e, "extract", "claimed")
  /\ log' = Append(log, [case |-> run[e].of, text |-> run[e].text])
  /\ extracted' = extracted \cup {run[e].text}
  /\ Enqueue("elicit", run[e].of)
  /\ Goto(e, "done")
  /\ UNCHANGED <<caseVars, received, home, before, content, normalised, envVars>>

(* elicit_case: skipped when handed off, or when these very fields were    *)
(* elicited before; else it decides the next move.                         *)
ElicitCommit(e) ==
  /\ At(e, "elicit", "start")
  /\ LET c == run[e].of IN
       \/ /\ caseState[c] = "in_review" \/ c \in elicited
          /\ UNCHANGED caseVars
       \/ /\ caseState[c] # "in_review"
          /\ \E s \in Moves : caseState' = [caseState EXCEPT ![c] = s]
          /\ elicited' = elicited \cup {c}
  /\ Goto(e, "done")
  /\ UNCHANGED <<dataVars, queueVars, envVars>>

Stage(e) == \/ NormaliseClaim(e) \/ NormaliseDegraded(e) \/ NormaliseCommit(e)
            \/ ExtractRead(e) \/ ExtractClaim(e) \/ ExtractCommit(e)
            \/ ElicitCommit(e)

(* The stage raises before its commit and rolls back.                      *)
Fail(e) ==
  /\ run[e].phase \in {"start", "read", "claimed"}
  /\ failures < MaxFailures
  /\ failures' = failures + 1
  /\ IF e = Worker THEN Goto(e, "failed") ELSE run' = [run EXCEPT ![e] = Idle]
  /\ UNCHANGED <<caseVars, dataVars, queueVars, up, gaveUp, unmarked, unreaped,
                 deliveries, crashes>>

(* A webhook goes on to its next stage, whatever this one skipped.         *)
Continue(w) ==
  /\ w \in Webhooks /\ run[w].phase = "done"
  /\ LET c == run[w].case IN
     run' = [run EXCEPT ![w] =
               CASE run[w].stage = "normalise" -> Start("extract", c, None, c)
                 [] run[w].stage = "extract"   -> Start("elicit", c, None, c)
                 [] OTHER                      -> Idle]
  /\ UNCHANGED <<caseVars, dataVars, queueVars, envVars>>

-----------------------------------------------------------------------------
(* The worker.                                                             *)

(* The lowest id first; a job to be retried may not be due yet.            *)
Due(j) ==
  /\ j.status = "todo"
  /\ \A k \in jobs : k.status = "todo" /\ k.id < j.id => k.attempts > 0

Take(j) ==
  /\ up /\ run[Worker] = Idle
  /\ Due(j)
  /\ jobs' = (jobs \ {j}) \cup {[j EXCEPT !.status = "doing"]}
  /\ run' = [run EXCEPT ![Worker] =
               Start(j.stage, j.of, j.id, IF j.stage = "normalise" THEN home[j.of] ELSE j.of)]
  /\ UNCHANGED <<caseVars, dataVars, nextId, envVars>>

Taken == {j \in jobs : j.id = run[Worker].job}

Exhausted(j) == j.attempts >= MaxRetries

Retry ==
  /\ run[Worker].phase = "failed"
  /\ \E j \in Taken :
       /\ ~Exhausted(j)
       /\ jobs' = (jobs \ {j}) \cup
                    {[j EXCEPT !.status = "todo", !.attempts = @ + 1]}
  /\ run' = [run EXCEPT ![Worker] = Idle]
  /\ UNCHANGED <<caseVars, dataVars, nextId, envVars>>

(* The last attempt failed.                                                *)
GiveUp ==
  /\ run[Worker].phase = "failed"
  /\ \E j \in Taken :
       /\ Exhausted(j)
       /\ gaveUp' = gaveUp \cup {<<j.stage, j.of>>}
  /\ Goto(Worker, "done")
  /\ UNCHANGED <<elicited, dataVars, queueVars, up, unreaped, deliveries, crashes>>

(* _fail_case_if_terminal: in a transaction of its own, before the job is  *)
(* taken off.                                                              *)
Stamp ==
  /\ GiveUp
  /\ caseState' = [caseState EXCEPT ![run[Worker].case] =
                     IF @ \in Open THEN "processing_failed" ELSE @]
  /\ UNCHANGED <<unmarked, failures>>

(* It is best-effort: an error in it, or in looking up the case of a       *)
(* document, is logged and swallowed, and nothing will stamp the case.     *)
StampFails ==
  /\ failures < MaxFailures
  /\ failures' = failures + 1
  /\ GiveUp
  /\ unmarked' = unmarked \cup {run[Worker].case}
  /\ UNCHANGED caseState

(* The job is finished and leaves the queue.                               *)
Finish ==
  /\ run[Worker].phase = "done"
  /\ jobs' = jobs \ Taken
  /\ run' = [run EXCEPT ![Worker] = Idle]
  /\ UNCHANGED <<caseVars, dataVars, nextId, envVars>>

(* The process dies: its transaction rolls back, its job stays "doing".    *)
Crash ==
  /\ up /\ crashes < MaxCrashes
  /\ crashes' = crashes + 1
  /\ up' = FALSE
  /\ run' = [run EXCEPT ![Worker] = Idle]
  /\ UNCHANGED <<caseVars, dataVars, queueVars, gaveUp, unmarked, unreaped,
                 deliveries, failures>>

(* reap_orphaned_jobs: under the singleton lock every job that is "doing"  *)
(* is a dead worker's.                                                     *)
\* a slip, for the mutation runs:
ReapNone == jobs
Reap == {[j EXCEPT !.status = "todo"] : j \in jobs}

Restart ==
  /\ ~up
  /\ up' = TRUE
  /\ jobs' = Reap /\ unreaped' = {}
  /\ UNCHANGED <<caseVars, dataVars, nextId, run, gaveUp, unmarked, deliveries,
                 failures, crashes>>

(* A failed reap is logged and the worker starts all the same: what was    *)
(* "doing" stays so until a later start.                                   *)
RestartUnreaped ==
  /\ ~up
  /\ failures < MaxFailures
  /\ failures' = failures + 1
  /\ up' = TRUE
  /\ unreaped' = {j.id : j \in {k \in jobs : k.status = "doing"}}
  /\ UNCHANGED <<caseVars, dataVars, queueVars, run, gaveUp, unmarked, deliveries, crashes>>

-----------------------------------------------------------------------------
WorkerStep == \/ \E j \in jobs : Take(j)
              \/ Stage(Worker)
              \/ Retry \/ Stamp \/ StampFails \/ Finish
WebhookStep(w) == Stage(w) \/ Continue(w)

Next ==
  \/ \E c \in Cases, d \in Docs :
       Deliver(c, d) \/ \E w \in Webhooks : DeliverInline(w, c, d)
  \/ WorkerStep \/ Crash \/ Restart \/ RestartUnreaped
  \/ \E w \in Webhooks : WebhookStep(w)
  \/ \E e \in Executors : Fail(e)

(* The worker takes what is due, is restarted when it dies, and an open    *)
(* transaction of a webhook ends.                                          *)
Fairness == /\ WF_vars(WorkerStep) /\ WF_vars(Restart)
            /\ \A w \in Webhooks : WF_vars(WebhookStep(w))

Spec == Init /\ [][Next]_vars /\ Fairness

-----------------------------------------------------------------------------
Stages   == {"normalise", "extract", "elicit"}
Phases   == {"start", "read", "claimed", "done", "failed"}
Targets  == Docs \cup Cases
Texts    == Seq({Reading[d] : d \in Docs})
Jobs     == [id : Nat, stage : Stages, of : Targets, attempts : 0..MaxRetries,
             status : {"todo", "doing"}]
Runs     == [phase : Phases, stage : Stages, of : Targets, job : Nat \cup {None},
             case : Cases, text : Texts]

TypeOK ==
  /\ caseState \in [Cases -> CaseStates] /\ elicited \subseteq Cases
  /\ received \in [Cases -> SUBSET Docs] /\ home \in [Docs -> Cases \cup {None}]
  /\ before \subseteq Docs \X Docs /\ content \subseteq Docs /\ normalised \subseteq Docs
  /\ extracted \subseteq Texts /\ log \in Seq([case : Cases, text : Texts])
  /\ jobs \subseteq Jobs /\ run \in [Executors -> Runs \cup {Idle}]
  /\ up \in BOOLEAN /\ gaveUp \subseteq Stages \X Targets /\ unmarked \subseteq Cases
  /\ unreaped \subseteq Nat
  /\ nextId \in Nat /\ deliveries \in Nat /\ failures \in Nat /\ crashes \in Nat

(* Somebody is on it: the stage of this target is queued or running in the *)
(* worker, or ran out of retries.                                          *)
InHand(stage, of) ==
  \/ \E j \in jobs : j.stage = stage /\ j.of = of
  \/ <<stage, of>> \in gaveUp

(* What an extraction should have read in a case: all of its normalised    *)
(* documents, and perhaps what was made out of those read only in part,    *)
(* for which no extraction is queued.                                      *)
Complete(c) == {TextFrom(c, normalised \cup part) : part \in SUBSET Unreadable}

(* No work is forgotten, whatever crashes, skips and overlaps: a document  *)
(* that is not normalised, words that were never extracted and a case that *)
(* was extracted and not elicited all have a job that sees to it.          *)
WorkInHand ==
  /\ \A d \in Docs : home[d] # None /\ d \notin normalised \cup Unreadable
       => InHand("normalise", d)
  /\ \A c \in Cases : TextFrom(c, normalised) # <<>> /\ Complete(c) \cap extracted = {}
       => InHand("extract", c)
  /\ \A k \in DOMAIN log : log[k].case \notin elicited => InHand("elicit", log[k].case)

(* However often a stage is delivered, retried or run beside a webhook, no *)
(* text is extracted twice: the append-only logs hold no replay.           *)
ExtractedOnce ==
  \A j, k \in DOMAIN log : log[j].text = log[k].text => j = k

(* All jobs are done and all requests are over.                            *)
Quiet == up /\ jobs = {} /\ \A e \in Executors : run[e] = Idle

Legible(d) == d \notin Unreadable /\ Reading[d] # Blank

(* A document gives its case words of its own: it is legible, and no other *)
(* case's document says the same.                                          *)
OwnWord(c, d) == /\ home[d] = c /\ Legible(d)
                 /\ \A x \in Docs : home[x] \notin {c, None} => Reading[x] # Reading[d]
OwnWords(c)   == \E d \in Docs : OwnWord(c, d)

(* The text the newest extraction of a case read.                          *)
LastRead(c) ==
  LET own == {k \in DOMAIN log : log[k].case = c}
  IN IF own = {} THEN <<>>
     ELSE log[CHOOSE k \in own : \A j \in own : j <= k].text

(* "Last text wins": what the case holds in the end was extracted from all *)
(* that its documents say.  A document whose normalisation ran out of      *)
(* retries says nothing.                                                   *)
LastTextWins ==
  Quiet => \A c \in Cases : (\E d \in normalised : OwnWord(c, d)) /\ <<"extract", c>> \notin gaveUp
                              => LastRead(c) \in Complete(c)

CaseOf(stage, of) == IF stage = "normalise" THEN home[of] ELSE of

(* A job of the case was left behind by a dead worker, and the start after *)
(* it failed to release it.                                                *)
Orphaned(c) == \E j \in jobs : j.id \in unreaped /\ CaseOf(j.stage, j.of) = c

(* A case with words of its own does not wait in its first state for ever: *)
(* it is worked on or marked as failed.  Two errors that the code only     *)
(* logs are what can keep it there, each for its own case alone: one in    *)
(* stamping it, and one in releasing its job at a start.                   *)
EventuallySettled ==
  \A c \in Cases :
    caseState[c] = "created" /\ OwnWords(c)
      ~> caseState[c] # "created" \/ c \in unmarked \/ Orphaned(c)

-----------------------------------------------------------------------------
(* What the repository says and the code does not keep.                    *)

(* "A case is never quietly abandoned": when a job ran out of retries, its *)
(* case says so.                                                           *)
NeverAbandoned ==
  \A g \in gaveUp : caseState[CaseOf(g[1], g[2])] # "created"

(* "Must not silently strand a case": when nothing is left to do and no    *)
(* job gave up, every case whose customer sent something legible has moved *)
(* on from its creation.                                                   *)
NeverStranded ==
  Quiet /\ gaveUp = {} =>
    \A c \in Cases : (\E d \in received[c] : Legible(d)) => caseState[c] # "created"
=============================================================================
