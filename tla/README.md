# structured-chaos in TLA+

A verification project for the adaptive complaint-intake engine of this repository
(`engine/`, with the worker in `scripts/`). The specifications are TLA+ modules written from
the source; TLC checks them on small instances and TLAPS proves the central properties for
every value of their constants. Paths in this file are relative to the repository.

## 1. The system

Customers complain over WhatsApp, a web portal or an uploaded chat export. Each message is
stored, normalised to text (ASR, OCR), and a language model extracts *governed* fields
(category, fault, desired outcome, severity, emotion, an order anchor) and *emergent* ones. A
deterministic policy decides whether to ask the customer another question, another one decides
priority and routing, and a human reviewer corrects and approves the case. Only an approved
case may be exported.

Everything is a transaction of one PostgreSQL database at READ COMMITTED: `tenant_session`
(`engine/app/store/db.py`) commits a unit of work as a whole or not at all. Background work is
a Procrastinate queue in the same database, so a job is enqueued by the transaction whose work
it continues. Jobs are delivered at least once; every stage claims a key in a *ledger*
(`stage_execution`) so that a replay is skipped.

### Inventory

| component | state | operations | talks to | what makes it correct |
|---|---|---|---|---|
| Intake and windowing (`intake/ingest.py`, `windowing.py`, `api/whatsapp.py`) | message ledger, `case_record`, `source_document` | ingest a batch; open a case or fold a message into the sender's last one | queues a normalise job per document | a message is taken in once; every message reaches a case that will be worked on |
| Job pipeline (`queue.py`, `pipeline.py`, `extract/stage.py`) | jobs, ledger, normalised text, field logs | normalise → extract → elicit and rules → dispatch; retry four times, then stamp `processing_failed` | each stage queues the next in its own transaction | no case silently stranded; replays change nothing; the latest text wins |
| Field logs and projection (`store/api.py`) | `field_extraction`, `field_correction`, `field_current` | append, rebuild | called by extraction, backfill, corrections | the projection equals the logs, corrections before extractions |
| Elicitation (`elicit/policy.py`, `elicit/stage.py`) | `case_state`, `question_count`, `external_mappings.elicit` | decide the next question, hand off or route | resolver, contradiction check, queue | question budget; nothing asked twice; a finished case stays finished |
| Rules (`rules/stage.py`, `engine.py`, `sentiment.py`, `policy_default.yaml`) | `case_decision`, ledger | compute priority, SLA, routing | read by approval and report | the row is that of the current inputs; anger is heard |
| Review (`api/routes.py`, `store/api.py`) | `committed_at/by`, `review_event`, `field_correction` | correct, approve, undo within 15 s | triggers rules | an approval is backed, unique and durable; the documents want it final (section 5) |
| Outbound (`channel/dispatch.py`) | `outbound_message` | send the pending question once | channel API | every copy is accounted for; a pending question gets out |
| Worker (`scripts/run_worker.py`) | advisory lock, `procrastinate_jobs`, heartbeat | singleton start, reap, schedule scans | queue | one worker per queue set; orphaned jobs run again |
| Schema emergence (`schema/*.py`) | emergent registries, minted heads, promotions, backfill markers | dedup, mint, promote, backfill | queue, field logs | thresholds counted on distinct cases; history is re-homed; the backfill reaches it |
| Portal (`portal/*.py`, `portal/static/embed.js`) | rate windows in the process; the widget's timer and composer | submit, status, answer, poll | intake, reads everything | the status never lies; a stall is reported; limits hold |
| Resolver (`resolve/*.py`) | object snapshots, contradictions | bind a record by key, phone or name | elicitation | never binds silently on conflicting evidence |
| Review accounts (`review_auth.py`) | users, memberships, sessions | sign up, log in, resolve, revoke | routes | one user per email; no session outlives its workspace |
| Tenant deletion (`scripts/delete_tenant.py`) | deletion ledger | delete rows, then objects; resume | accounts, blob store | what is erased is gone and costs no other tenant anything |
| Exports (`report/*.py`, the digest in `store/api.py`) | none | render, list, count | reads the case and its stamp | nothing leaves that was not approved; counts are of real changes |
| Provenance (`extract/provenance.py`, `normalise/*.py`) | spans, locators | record, locate | extraction, review UI | a highlight marks the value it is for |
| Tuning (`extract/prompt*.py`, `engine/scripts/open_tuning_pr.py`) | addenda, prompt version, a clone | draft, open a pull request, load | digest, extract ledger | one version is one prompt |
| Pure parts (`confidence/model.py`, `extract/extractor.py`, `rules/synthesis.py`, `rules/engine.py`) | none | fit and route, ground, summarise, validate a policy | the stages | section 3 |

The hard behaviours: elicitation and normalisation hold a transaction open across model calls
and write what they computed from rows read minutes before; the WhatsApp webhook runs the same
stages inline, beside the worker's jobs for the same case; ledger keys are hashes of *content*,
so a state that comes back is "already done"; several stages append to the same logs and
rebuild the same projection; a correction is two transactions with no job behind it.
`PROJECT.json` lists the hazards with their lines.

## 2. The modules

```
ElicitPolicy   <- CaseLifecycle  <- CaseLifecycleProofs              MCCaseLifecycle
RulesPolicy    <- RulesDecision    MCRulesDecision <- RulesDecisionProofs
FieldProjection                                    <- CatalogueProofs
                  JobPipeline      MCJobPipeline   <- JobPipelineProofs
Mailbox (abstract) <- Outbound \
                  WorkerFleet   -> Egress <- EgressProofs            MCEgress
Portal \
Widget -> PortalChat \
             Intake -> CustomerProofs
Registry \
Backfill -> SchemaGrowth <- SchemaGrowthProofs                       MCSchemaGrowth
Accounts <- Erasure                                <- ScriptProofs
Objects, Minting, PublicEdge  <- CatalogueProofs
Intake, Objects, Minting, ChatExport, PublicEdge,
  Extraction, Calibration, Synthesis, PolicyFile (operators)         MCCatalogue
Desk, Provenance, Tuning           MCDesk          <- ScriptProofs
```

Each module takes one piece of shared state and everything that writes it. Where one needs what
another does, it takes its effect as an action of its own (`CaseLifecycle.Extract`,
`RulesDecision.Correct`, `Desk.Extracted`), with the guards of the real handler and none of its
inner steps; `Egress`, `PortalChat`, `SchemaGrowth` and `Erasure` compose components that share
variables. A definition marked `a slip, for the mutation runs` is a plausible bug of the
definition after it; no specification uses one. `PROJECT.json` `map` names the lines each
definition stands for.

**ElicitPolicy, CaseLifecycle** — the `case_record` row. `ElicitPolicy.Decide` is the
first-match order of `policy.decide`, question texts reduced to names. `CaseLifecycle` has the
row's columns as variables, with `external_mappings.elicit` as `anchorAsked` and `pending`, the
governed part of `field_current` as `facts`, and the part of the ledger that matters as
`elicited`. A running `elicit_case` is `flight[e]`: `ElicitRead` is the read at the top of the
transaction, `ElicitClaim` the ledger insert (which waits for another open claim of the key),
`ElicitWrite` everything after the resolver and the model answered. A correction request is
`CorrectBegin` and `CorrectWrite`, because `post_correction` checks the approval and writes
afterwards. Approval, undo and the review measurement are single actions, because each is one
conditional statement, or a few on one row.

**RulesPolicy, RulesDecision** — `decide_case`. `Analyze` is `sentiment.analyze`, `Rules` and
`Evaluate` the shipped policy. `RulesDecision` splits an execution at its statements
(`ReadSignals`, `ReadArc`, `Claim`, `Write`): under READ COMMITTED an extraction may commit
between any two. `due` counts the executions owed, by a rules job or by a correction request
that has not reached `decide_case` yet. **PolicyFile** is a tenant's own file: `Parses`,
`Loaded`, and the engine on whatever parses.

**FieldProjection** — `rebuild_field_current`, as PostgreSQL runs it: a statement's snapshot, a
DELETE that skips rows another transaction deleted, an INSERT that waits for, or fails on, the
primary key. `Latest` is what the projection of some logs should be.

**JobPipeline** — from a message to a decided case. `jobs` is the queue, `run[e]` what the
worker or a webhook request is doing, `normalised` and `extracted` the ledger, `log` the
committed extraction runs. A stage is a start, a claim and a commit; `Fail` may strike before
the commit, `Crash` anywhere in the worker, also between a stage's commit and `Finish`. A job out
of retries stamps its case (`Stamp`), which is best-effort: an error is logged and the case stays
as it was (`StampFails`). A start releases what a dead worker was at (`Restart`), or fails to and
works on (`RestartUnreaped`).
`before` orders the documents by the start of the transaction that wrote their text, since
`normalised_content.created_at` defaults to `now()` and `get_case_normalised_text` orders by it.
Procrastinate itself is external: fetch in order of ids, at-least-once delivery, finish in a
transaction of its own.

**WorkerFleet, Outbound, Mailbox, Egress** — a question on its way out. `WorkerFleet` has the
advisory lock (`lock`), which ends with a database session the process opens once and never
looks at again (`LoseLock`), the bypass of `WORKER_ALLOW_MULTIPLE`, the reaper and the job
table. `Outbound` is `dispatch_case_question`, one transaction: read the pending question,
claim its row, send, mark sent, commit. `Transmit` happens once and for all; `CommitFails` and
`Abort` undo the rest. `Egress` lets elicitation queue a job with each question, workers take
the jobs, and a webhook dispatch inline. `Mailbox` is what this promises.

**Portal, Widget, PortalChat** — what a customer is told. `Portal.Status` is `public_status`;
its clocks are `age` (ticks since the newest message) and `beat` (since the heartbeat's row was
set), and `stamp` relates `elicit.processed_at` to the newest message. `Widget` is
`embed.js`: a timer, overlapping polls whose answers arrive late and out of order (`inFlight`),
and the composer.

**Registry, Backfill, SchemaGrowth** — `attested` is the emergent part of the extraction log,
`field` and `head` the registries; an extraction records, upserts the field row and holds it to
the end of its transaction, then the head's. `Registry` also has the two scans of the scheduler;
`Backfill` the queue, the batches and the markers: a case that cannot be read is passed over
without one, and comes back in the next batch (`Starved`). `scan` sees the canonicals it has assigned
itself before they are committed.

**Accounts, Erasure** — sign-up (one function, one transaction, a unique email), login with the
hash between its lookup and its insert, sessions; and over them `delete_tenant.py`. Its first
transaction lists the documents' keys (`Collect`) and empties the tables by name, one statement
each: the sessions, the documents, the memberships, then the workspace's own row and the users
(`DeleteSessions` to `DeleteTenant`; the other tables hold nothing the properties tell apart).
Each statement sees what is committed when it starts, and only the last waits for the uploads
that reference the workspace; until then they go on. `Check` and `DeleteObject` are the second
transaction. Uploads look for an object, put it and insert its row; `straddled` remembers what
was stored after the documents were emptied, `raced` what was stored while its object was erased.

**Intake, ChatExport, Objects, Minting, PublicEdge** — what comes in from outside. `Intake` is
one transaction per upload with row visibility by owner (`by`), a claim on each message key, the
windowing decision and documents by content. `ChatExport` reads a transcript line by line; what
WhatsApp writes of a chat (`Export`: its posts one after the other, the first line of each stamped
in one date order) is external, and the chats are a constant.
`Objects` is the tenant's record store, `resolver.resolve` and what a resolution leaves behind: a
frozen snapshot, and citations on the extraction of the anchor, if there is one (`Citable`: a
reviewer's correction has none). `Minting` clusters escaped facts into heads. `PublicEdge` is the
limiter, the request's checks, what of a request is in memory (the text whole, before its size is
asked; a file up to one byte too many) and the signed link.

**Desk, Provenance, Tuning** — what the tenant's people see. `Desk` reads a report or the
register one statement at a time while reviewers write; `Provenance` gives each document its
spans and each value its locator: a stripped value is looked for in lower case (`Found`), the
place is counted in the lowered text and as long as the value (`Located`), and `Marks` is what
the browser cuts out with it from the same text in UTF-16 (`Units`). How a letter reads in lower
case and in UTF-16 are constants, `Fold` and `Encoded`. `Tuning` is the
script that turns a digest into a pull request, step by step, any of which may fail.

**Calibration, Extraction, Synthesis** — pure algorithms as operators, checked over all small
inputs by the assumptions of `MCCatalogue`, beside counterexamples that are stated as such
(`ThinTalliesMayNot`, `BackfillStoresMore`, `MintedNamesMayNot`, `InventedHidesReal`,
`AnchorMayGo`, `ShadowedRuleParses`).

## 3. What the runs check

| run | instance | shows |
|---|---|---|
| `approval` | scene *approval*: one elicitation at a time, 2 reviewers, 2 extractions, 1 correction; scene *budget*: 2 overlapping elicitations, 4 extractions | `ApprovalBacked`, `ApprovalDurable`; `QuestionsFunded`, `QuestionsBounded` (cap + executions - 1) |
| `late_elicit` | the same specification, 1 elicitation, 1 reviewer | `ApprovedStaysCommitted` is violated: section 5 |
| `rules` | 2 executions, 2 extractions, 1 correction, 1 failure | `EveryStateDecided`, `CatchesUp` under every overlap; `AngerHeardWhenAlone` |
| `projection` | 3 writers, 2 paths, 4 transactions | `ProjectionIsLatest` |
| `pipeline` | 2 cases, 3 documents (two that say the same, one read in part), 1 webhook, 2 deliveries, 1 failure that ends its job, 1 crash | `WorkInHand`, `ExtractedOnce`, `LastTextWinsAlone` |
| `settles` | 1 case, 2 documents, 1 webhook, 1 retry, 3 failures of a stage, a stamp or a release, 1 crash; at most 4 deliveries and faults together | `EventuallySettled`: a case with words of its own leaves `created`, unless its stamp or the release of its job failed |
| `egress` | 2 workers, or 1 and a webhook; 2 questions, 2 faults of any kind | `NoSharedJob`, `CopiesAccounted`, `PendingInHand`, `QuestionGetsOut`; `MailboxKept`: dispatch implements Mailbox |
| `portal` | 3 messages, 2 questions, 1 fault, 2 polls under way | `ReadyWhenOrderly`, `NoFalseStall`, `StallGuarantee` |
| `growth` | 5 cases of which 2 cannot be read, 2 synonyms under one head, 2 scans, batches of 2, 1 fault | `PromotedRecurs`, `NoPromotionForgotten`; `BackfillReaches`: every readable case that no full batch of unreadable ones keeps out |
| `erasure` | 2 clients, 2 emails, 2 workspaces of which 1 is closed, 1 content, 1 crash, at any of the tool's statements | `AccountsWhole`, `ErasedIsGone`, `LostOnlyInRace`, `ErasureEnds` |
| `catalogue` | one part at a time, each with 2 actors where it has actors | `MessageOnce`, `NothingLost`, `BoundariesKept` (Intake); `DiscrepancyKept`, `BoundUnambiguous` (Objects); `MintedRight`; `GenuineRead` (ChatExport); `EdgeBounded`; and the assumptions over the pure algorithms |
| `desk` | one part at a time: 2 reviewers and 1 case, 1 reviewer and 2 cases; 3 documents with capitals, an emoji and a letter that is two in lower case; 3 pull requests | `ExportsReal` (Desk), `HighlightHolds` (Provenance), `TunedRight` (Tuning) |

Each property has a mutant in `PROJECT.json`: a plausible bug of a modelled definition under
which the same run finds the property violated. The parts of `catalogue` and `desk` share no
state; a behaviour picks one and leaves the others at rest, which saves a run per part and hides
nothing. The modules of the processes state a type invariant; CaseLifecycle's is
a theorem, those of Tuning and Erasure are part of the proved invariants, and none is in a run.

**Bounds.** Two executions are what the code can produce at a time: one worker (the singleton
lock) and a webhook request; `QuestionsBounded` is proved for any number. Four extractions are
needed for three questions and one more. Three writers are the smallest number with a chain of key
conflicts, and two paths with a partial overlap. Two cases and two documents that say the same are
the smallest instance in which documents, texts and ledger keys of one case can stand in for
another's; the third is one the host can read only in part. One retry stands for the four of
`_PIPELINE_RETRY`, since all but the last are alike; three failures are a job that uses it up and
cannot stamp its case (`settles`). In `pipeline` the first failure is the last, which reaches the
exhausted job with fewer steps. Two faults of different kinds are what it takes for two workers to
hold one job; two questions, for the pending one to change under a dispatch. Three messages let a
reply come in while the reply before it is read; one tick of each timeout has an instant before,
at and after it. Two synonyms are pooled, or not, around the promotion threshold; two cases
without text fill a batch, which is fetched again and again, with readable cases before them that
are reached and one after them that is not. One content shared by two workspaces is the only
object another tenant can lose. Three tenant-wide hits over two addresses, with windows of
different lengths, reach every limit in every order. Deadlock is not checked, because the bounds
end every history and an idle system is a normal end.

Histories that no code keeps are marked as such: `alone` (in the MC modules), `orderly`,
`overlapped`, `decided` (portal), `lost` and `revisited` (RulesDecision), `received`, `gaveUp`,
`unmarked` and `unreaped` (JobPipeline), `lost` (Outbound), `straddled` and `raced` (Erasure),
`stirred`, `changed`, `signed` (Desk), `orderly` (Tuning). Properties conditioned on one hold
where it says; what happens otherwise is in section 5.

**Fairness.** `RulesDecision`: weak fairness of each execution, since a worker polls its queue and
a request runs to its end. `JobPipeline` and `Egress`: weak fairness of each worker's steps, its
start included, because compose restarts it (`deploy/docker-compose.yml`, `restart:
unless-stopped`), and of each webhook's transaction; `main` reaps before it fetches, but the reap
may fail. `PortalChat`: time passes, the widget's timer fires, requests are answered; a dead
worker need not come back, so the stall guarantee does not lean on it. `SchemaGrowth`: an open
transaction ends and a worker serves the backfill queue; each concept's job is taken again and
again (strong fairness of `Takes`), because Procrastinate fetches the lowest id and a job queued
again gets a new one; the scans need not run. `Erasure`: the operator runs the tool again until it
ends, and an upload ends. Failures and crashes are never fair, and they are finitely many: a job
that kills its worker each time is reaped for ever, as `run_worker.py:108` admits.

## 4. What is proved

All theorems are for arbitrary constants under the assumptions named in the modules: any number
of executions, workers, cases, workspaces, questions.

- **CaseLifecycleProofs** (`LifecycleAssumption`: finitely many executions). `TypeCorrect` is
  the type invariant. `ApprovalGate`, `FirstApprovalIsKept` and `ApprovalIsDurable` follow
  action by action. `QuestionBudget` needs more than the bound: the
  count and the executions that read a count below the cap (*spenders*) together stay below
  cap + executions (`BudgetInv`), because each spender may still ask. `QuestionsAreFunded` adds
  to the count that an open claim is for a state that is not in the ledger yet and is held by
  one execution only (`ClaimsAreFresh`): completing it pays for the question it asks.
- **RulesDecisionProofs**. `NoLostUpdate`: `EveryStateDecided` speaks of quiet states only;
  the inductive form says that the current inputs are decided, or an execution is owed that
  has read nothing, or a running one holds what is current (`CatchUpInv`). `AngerIsHeard`, for
  executions that run alone, adds that the row is that of the last inputs decided (`Stands`) and
  that the inputs an execution is about to claim were never decided before (`Novel`), and from
  the row to the customer a chain of lemmas about the operators: the readings an arc is made of
  are those of the log, its peak is urgent when the last of them is angry, and the shipped rules
  are urgent on such an arc whatever the other inputs are (`AngerIsPeak`, `AngerIsUrgent`).
- **CatalogueProofs**, what the stores keep and what the edge lets in; five parts without a common
  state, each with its invariant. `ProjectionNeverLies`: the invariant has three parts beside the
  goal: a stored row has at most one deleter (`Locks`); the log an INSERT sees covers the paths
  its transaction deleted, and nothing was committed on them since (`Snapshots`); a finished
  INSERT owns its keys until it commits (`OneRowPerPath`). Without the last the commit step fails:
  another rebuild could have changed a path in between. `DiscrepancyIsKept` (`ObjectsAssumption`:
  finitely many records and key fields): a resolution that reports a clash names its record and is
  not silent (`Speaks`), so `_record_provenance` has something to freeze; the anchor it hangs the
  citation on was extracted, or came from a reviewer. `BindIsUnambiguous` adds that a run no
  upload raced still holds the sender's hits as the store has them (`RunSound`). `MintingIsRight`:
  a scan holds clusters that recur and new names that stand for cases enough (`Naming`), and
  afterwards the cases it still has to defer (`Deferring`), which are those behind a column that
  nobody has queued yet. `EdgeIsBounded` (`EdgeAssumption`) remembers all admissions of a key
  beside the hits the limiter holds. The hits are the tail of the admissions, and what is gone has
  expired (`Kept`), so a key that is let through has less than its limit within the window,
  whatever the stretch is that one looks at (`Unflooded`). For the tenant, each of its admissions
  is one of an address, a different one each (`Paired`): a full tenant with one address behind it
  would make as many admissions of that address in a few windows of its own, end to end, as the
  settings exclude (`SpellBounded`). `ExportIsRead` (`ExportAssumption`: a chat exported month
  first has a day above 12 somewhere, since no reader could tell otherwise) is about chats of any
  length and number. Where each post lies in its export is shown first (`ExportIsLaid`); all its
  stamps have one order, so counting those that can only be days or months finds it
  (`OrderIsTold`). The reader is then before the first post, or holds the first lines of one and
  has turned out the posts before it, or is done (`ExportInv`).
- **JobPipelineProofs**. `NoReplay`: no text is extracted twice. The invariant adds that two
  open claims have different texts and that a claimed text is not in the ledger (`KeysHeld`).
  `NoWorkForgotten` follows each stage that was skipped to the job that was queued instead: a
  document's text was extracted by whoever holds it, or is in the ledger, or a job will read it.
  `LastTextDoesWin`, while no two extractions of a case overlap: texts only grow with the
  documents (`Joined` is the documents in the order of `before`, which is shown total), so of a
  case's extractions the newest has the longest text (`Longest`), and when that is not the whole
  a job is owed (`LastInHand`). The proof showed `LastTextWins` false as it had been stated: a
  document whose normalisation runs out of retries says nothing, and now the property says so.
- **EgressProofs**. `CopiesAreAccounted` and the refinement `DispatchIsMailbox` rest on `OutInv`:
  a question has one open claim, and an open claim has no row. `NoJobIsShared` rests on
  `FleetInv`: while nothing was lost or bypassed a process that is up holds the lock, so the
  one that reaps is alone. `PendingStaysInHand` needs to name its witness: of all the jobs it is
  the last one deferred that sees to the pending question (`LastSeesToIt`), for a job taken
  earlier may have read an older one.
- **CustomerProofs**, what a customer may rely on. The portal has one invariant for
  `ReadyIsWhole`, `RestIsReady`, `LiveWorkerIsSeen` and the types: what a stamp says of the case
  (`Stamping`), how old a live worker's heartbeat can be (`Beating`), and that orderly replies
  have one chain at a time, which reads them all (`Orderly`). `AskedTheRightThing` adds the
  screen: without overlapping answers, the one under way finds a customer who waits, and no chain
  runs until the reply to it (`Screen`). Intake is proved for any number of overlapping uploads,
  each of which may roll back: what one transaction does leaves the rows of the others and of
  everybody alone (`Elsewhere`), because a running claim is the message's being stored (`Ledger`),
  and a row not committed belongs to a transaction still open (`Owned`). `MessagesPlacedOnce`: the
  claim of a message that was put is done, and its transaction's or everybody's (`Placings`).
  `AcknowledgedIsStored`: each message of an upload is still ahead of it or its documents are
  there (`Loads`), and a finished claim stands for a message that is whole (`Deeds`); that the
  handling order is one of the whole batch is proved of `InOrder` (`OrderIsWhole`).
  `ComplaintsKeptApart` needs every instant a case is windowed against to be some message's that
  was put into it (`Bound`, `View`), the last activity included, which is the greatest element of
  a finite set (contents are digests, so finitely many). It assumes that no caller passes a
  classifier, as none does: with one, the classifier decides what lies beyond OPEN_IDLE.
- **SchemaGrowthProofs**. `OnlyRecurrentIsPromoted`: what an open transaction counted is of cases
  the log will hold when it commits (`Backed`), a scan assigns only what had no canonical and
  carries only heads that recur (`Scanning`), and no step undoes an attestation, an alias or a
  promotion (`Grown`), of which `FoldedOnceForAll` is a corollary. `PromotionIsFollowedUp` needs
  `LastBatch`: a runner that will not queue another job holds all that was left.
- **ScriptProofs**, for the two scripts an operator runs and the desk they draw on. Erasure has
  one invariant for three theorems: what a sign-up is about to insert is nobody else's
  (`Reserved`); the workspace an upload or the tool works on exists until it ends (`Present`);
  what the workspace has after the tool emptied its documents is what it is about to delete and
  what was stored since (`Swept`); an object found unreferenced was referenced since only in a
  race (`Accounted`). `TuningIsSound`: while pull requests come one at a time, how far the prompt
  got is in one of three places (`InScript`, `InPull`, `InWorker`), and a version names one prompt
  in each; `TuningBesideTheDesk` carries it over to the specification of the run `desk`.
  `ExportsAreReal`, of the desk the scripts' digest is drawn from (`DeskAssumption`): a paper
  under way holds, of a case nobody disturbed since its first read, what the case still shows of
  its approval (`PaperTrue`, from `StampTrue`: an approved case that was not written since shows
  what was signed), and an open correction remembers what the field said (`ReadsTrue`), so that
  the digest grows by the flip that was made and by no other (`OneFlipMore`). `HighlightsAreTrue`,
  of the sources a reviewer sees (`ProvenanceAssumption`: the normalisers return texts): every row
  began at a time of its own, so the case has one order (`OrderIsOfDocs`), and a joined text has
  each part where the lengths before it say (`JoinPlaces`, by induction over the parts); hence the
  letters counted for the citation are there in the case's text, and in any later text that begins
  with the same parts. What is marked is counted three ways, in letters, in the lowered text and
  in UTF-16; up to the end of the mark the three agree when each letter is one of each, since a
  text put together from letters spells them at the same places (`FlattenSpells`, `MarkReads`). A
  voice note or a photo is read once (`Placed`), so its utterances stay. `HighlightsBesideTheDesk`
  carries it over to the run `desk`.

Only model-checked: the liveness properties (fairness and ENABLED are beyond the prover). Every
safety property of the passing runs is also a theorem. The library's induction theorems take an
operator and cannot be cited; where a proof needs induction (`JoinPlaces`, `FlattenSpells`,
`ExportIsLaid`), it takes the least counterexample, over recursive functions whose existence is
proved first (`JoiningExists`, `FlatteningExists`, `GrowingExists`). What `SelectSeq` returns is
out of reach: `RulesPolicy` and `Backfill` say with sets of positions what a filter would, so that
their theorems do not depend on one, and `GenuineRead` means by a post's text the same lines
without the blank ones (`Said`) that the reader keeps. No module declares a RECURSIVE operator.

## 5. Where the code and its documents disagree

`late_elicit` is a run that violates its property; `PROJECT.json` quotes the lines. An elicit
execution that read the case before its approval writes a question or a hand-off over the
approved state (`elicit/stage.py:371`).

The others were found the same way and are stated in the modules, each as a property the code
violates, outside the runs:

| property | what happens |
|---|---|
| `CaseLifecycle.QuestionCap` | two overlapping executions read the same question count; a fourth is asked (`policy.py:30` says never) |
| `CaseLifecycle.CorrectionsClosed` | a correction that checked before the approval is written after it (`routes.py:414`: "Rejected (409) once a case is committed: approval is final") |
| `RulesDecision.FreshWhenQuiet` | inputs that come back are "already done"; `case_decision` keeps the row of the inputs in between |
| `RulesDecision.CorrectedAngerHeard` | a reviewer's correction of the emotion does not reach the rules, which read the arc from the extraction log |
| `RulesDecision.SentimentOnlyRaises` | the calm reading after calm, frustrated lowers the priority (`rules/stage.py:62`: never) |
| `JobPipeline.NeverStranded` | a document another case of the tenant stored first gives the second case no text; it stays `created` with no failure stamped |
| `JobPipeline.NeverAbandoned` | an error while the stamp is set, or while a document's case is looked up for it, is swallowed: the job is out of retries and the case stays `created` (`queue.py:38`: "never quietly abandoned") |
| `JobPipeline.LastTextWins` | of two overlapping extractions the one that read the shorter text commits last and stays the newest (`pipeline.py:126`: "last text wins") |
| `Outbound.NeverDoubleSent` | a crash or failed commit between the send and the commit sends a question again (`dispatch.py`: never) |
| `PortalChat.ReadyIsCurrent` | a reply that comes in while another is read is older than the stamp of that reading, and the answer to the first is served as ready |
| `Intake.ReingestOpensNoCase` | messages whose media are all missing have no key; the same export again opens a case for them |
| `SchemaGrowth.NoTwinColumns` | a variant promoted before dedup saw it, and its canonical later, are two columns |
| `SchemaGrowth.SupportExact` | two open extractions count without each other; the later upsert's number stays one short until the next |
| `SchemaGrowth.BackfillCovers` | a full batch of older cases that cannot be read is fetched for ever, and the readable ones after it are never tried (`backfill.py:5`: a case that never had the concept "gets it now") |
| `Minting.MintRehomes` | a crash after the commit of a minted head loses the re-extractions that were left (`queue.py:290`: the column "RE-HOMES history") |
| `Minting.NoTwinHeads`, `BarredStays` | a minted fact stays filed under "other" and is minted again under another name; a barred name is not remembered by the next scan |
| `Objects.DiscrepancyCited` | the anchor is known only from a reviewer's correction: the record is frozen, and no citation says what it clashes with (`elicit/stage.py:183`) |
| `PublicEdge.NeverOverfull` | a text sent in chunks is in memory whole before its size is asked, for only a declared length is checked first (`portal/router.py:195` bounds the files for that reason) |
| `Erasure.OriginalsKept` | an upload that found the object before the tool deleted it keeps a row without an object |
| `Erasure.NoRowLeft`, `LedgerComplete` | a document stored after its table was emptied stays when the workspace is gone, and one stored after the keys were listed is deleted without its object being looked at (`delete_tenant.py`: "removes every public table row carrying tenant_id, then deletes now-unreferenced content-addressed objects") |
| `Provenance.HighlightTrue` | offsets are into the text as it was joined at extraction; a document stored or read again later moves them |
| `Provenance.HighlightLinesUp` | with nothing moved: an emoji before the value shifts the mark by one, because the page counts UTF-16 units, and so does a letter that is two in lower case, because the place is counted in the lowered text (`provenance.py:14`: the range "lines up with what the UI renders") |
| `Desk.ReportIsApproved` | a late extraction changes an approved case, and the report shows what nobody approved |
| `Tuning.SkipIsSound`, `PullIsOneDelta` | two open pull requests bump to one version; a script that failed leaves its branch checked out and the next delta is stacked on it |

Seen while modelling, and not stated as properties:

- pipeline: what was made out of a partly unreadable document is stored but no extraction is
  queued for it; a repeated content does not advance a case's last activity; a Meta retry gets a
  new message key, because `sent_at` is the time it is received (`api/whatsapp.py:101`); two
  concurrent first messages of one sender open two cases; an export without media, then with them,
  loses the files of the messages it skips;
- workers: a question that was replaced, or a case that was closed, while its dispatch was under
  way still goes out; after a lost lock, a dead worker's job stays `doing` while the other one lives;
  dispatch and rules jobs that give up stamp nothing; backfill and scan tasks have no retry;
- growth: a concept none of whose cases has a category is promoted and never backfilled
  (`promote_scan.py:55`); a backfill accepts answers a first extraction drops;
- rules: the anger rules stand before the rule for the safety category, so an angry safety
  complaint without a severity goes to human review at P2 and not to escalation at P1; a policy
  file may have a catch-all before its last rule, and what follows it is never reached;
- desk: an undone and repeated approval keeps the first review measurement; the register stops
  at 100 cases; calibration gives a class with few rows the average, which may break the target;
- edge: the limiter is per process and forgets on a restart; without a secret a submission is
  stored and then answered with an error.

## 6. Not modelled, and why

- The language model, ASR, OCR, embeddings: their answers are arbitrary or constant. Prompts are
  text.
- Password hashing, CSRF tokens and cookies: comparisons of bytes without state of their own.
- The regular expressions of PII and of the transcript's stamps: a set of names, a pair of
  numbers.
- Row-level security and grants are taken to work; migrations are not executed.
- The cost meter and logging append and decide nothing (a rolled-back stage loses its cost).
- The review UI, but for what it marks of a text (`Provenance.Marks`): every request it can make
  is an action of CaseLifecycle or Desk.
- The evaluation harness, spikes and backup scripts are offline and sequential. The harness is
  a large part of the repository's lines, and the reason the map covers a third of them.
- Clocks across machines: each module has one clock or none.

Worth doing next: the rules job in JobPipeline, so that its exhaustion is a state and not a count.
