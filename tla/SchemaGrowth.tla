---------------------------- MODULE SchemaGrowth ----------------------------
(* The registry and the backfill together: a promotion queues its backfill   *)
(* on the transaction that marks it, and what a backfill finds is recorded   *)
(* and registered as an extraction is.                                       *)
EXTENDS Registry, Backfill

CONSTANT Backfiller   \* the backfill worker's transaction, among Txns

ASSUME GrowthAssumption ==
  /\ Backfiller \in Txns /\ Concepts = Variants \cup Heads
  /\ Seen = Cases
  /\ Category \in [Cases -> Nat \cup {None}]

vars == <<attested, field, head, txn, scan, scans,
          jobs, scope, tried, runner, failed, faults>>

Init == RegistryInit /\ BackfillInit

(* concept_attested_categories: of the cases that attest the head through    *)
(* any variant, or the variant itself.                                       *)
AttestingCases(k) == IF k \in Heads THEN AttestingHead(k) ELSE attested[k]
AttestedCategories(k) == {Category[c] : c \in AttestingCases(k)} \ {None}

PromoteForgotten == PromoteCommits /\ UNCHANGED backfillVars
                                               \* a slip, for the mutation runs
Promote == /\ PromoteCommits
           /\ Enqueue(NewHeads \cup NewFields, [k \in Concepts |-> AttestedCategories(k)])

(* The variant the backfill finds: the concept, or any variant of the head.  *)
Backfilled(k, c) == IF k \in Heads THEN Of(k) \cap Mentions[c] ELSE {k} \cap Mentions[c]

BackfillFinds ==
  \E c \in Cases : /\ Find(c)
                   /\ \E v \in Backfilled(runner.concept, c) : Extract(Backfiller, c, v)
BackfillRecords == Commit(Backfiller) /\ \E c \in Cases : Found(c)
BackfillFails ==
  /\ JobFails
  /\ txn' = [txn EXCEPT ![Backfiller] = Idle]
  /\ UNCHANGED <<attested, field, head, scan, scans>>

BackfillDies ==
  /\ Crash
  /\ txn' = [txn EXCEPT ![Backfiller] = Idle]
  /\ UNCHANGED <<attested, field, head, scan, scans>>

Extracts == \E t \in Txns \ {Backfiller} :
              \/ \E c \in Cases, v \in Variants : c \notin attested[v] /\ Extract(t, c, v)
              \/ Commit(t)
Registers == \E t \in Txns : RegisterField(t)

Backfills == BackfillFinds \/ BackfillRecords
ExtractFails(t) ==
  /\ faults < MaxFaults /\ faults' = faults + 1
  /\ Abort(t)
  /\ UNCHANGED <<jobs, scope, tried, runner, failed>>
Breaks == BackfillFails \/ BackfillDies \/ \E t \in Txns \ {Backfiller} : ExtractFails(t)

Next == \/ (Extracts \/ Registers \/ DedupStep) /\ UNCHANGED backfillVars
        \/ BackfillStep /\ UNCHANGED registryVars
        \/ Promote
        \/ Backfills
        \/ Breaks

(* What the worker of the backfill queue and an extraction do next.           *)
Serves == \/ BackfillStep /\ UNCHANGED registryVars
          \/ RegisterField(Backfiller) /\ UNCHANGED backfillVars
          \/ Backfills
Proceeds(t) == (RegisterField(t) \/ Commit(t)) /\ UNCHANGED backfillVars

(* The scans need not run; a transaction that has begun ends, and a worker   *)
(* serves the backfill queue. It takes the job with the lowest number first, *)
(* and one queued again has a new number, so the jobs of every concept get   *)
(* their turn although those of another never end.                           *)
Takes(k) == Take(k) /\ UNCHANGED registryVars
Spec == /\ Init /\ [][Next]_vars
        /\ WF_vars(Serves)
        /\ \A k \in Concepts : SF_vars(Takes(k))
        /\ \A t \in Txns \ {Backfiller} : WF_vars(Proceeds(t))

-----------------------------------------------------------------------------
(* Properties                                                                *)

FieldRow == {NoRow} \cup [support : Nat \ {0}, canonical : Variants \cup {None},
                          promoted : BOOLEAN]
HeadRow == {NoRow} \cup [support : Nat \ {0}, promoted : BOOLEAN]

(* The type of the state; a variant's head is registered with it, an alias   *)
(* points at a canonical of its own head, and two transactions do not hold a *)
(* row together.                                                             *)
TypeOK ==
  /\ attested \in [Variants -> SUBSET Cases]
  /\ field \in [Variants -> FieldRow] /\ head \in [Heads -> HeadRow]
  /\ \A v \in Variants : Registered(v) => head[HeadOf[v]] # NoRow
  /\ \A v \in Variants : Registered(v) /\ field[v].canonical # None =>
       LET w == field[v].canonical IN
         HeadOf[w] = HeadOf[v] /\ Registered(w) /\ field[w].canonical = w
  /\ \A t, u \in Txns : t # u /\ HoldsField(t) /\ HoldsField(u)
                          => txn[t].variant # txn[u].variant
  /\ jobs \in [Concepts -> Nat] /\ tried \in [Concepts -> SUBSET Cases]
  /\ failed \subseteq Concepts /\ faults \in 0..MaxFaults /\ scans \in 0..MaxScans
  /\ (runner # Free /\ runner.phase = "writing") <=> txn[Backfiller] # Idle

(* Recurrence is never overstated: the support in the registry is at most    *)
(* the distinct cases of the log, however often an extraction is replayed or *)
(* a backfill meets it, and what is promoted really recurs, synonyms pooled  *)
(* without counting a case twice (api.py:146 "recomputed rather than         *)
(* incremented, so a replay never double-counts").                           *)
PromotedRecurs ==
  /\ \A v \in Variants : Registered(v) => field[v].support <= Cardinality(attested[v])
  /\ \A h \in Heads : head[h] # NoRow =>
       /\ head[h].support <= Cardinality(AttestingHead(h))
       /\ head[h].promoted => Cardinality(AttestingHead(h)) >= PromoteHeadN
  /\ \A v \in Variants : Registered(v) /\ field[v].promoted =>
       /\ Cardinality(attested[v] \cup UNION {attested[w] : w \in Aliases(v)})
            >= PromoteQualifierM
       /\ head[HeadOf[v]].promoted

(* A variant is folded once: what it was assigned to, itself or the canonical *)
(* it is an alias of, it keeps, so no later scan turns a canonical others     *)
(* point to, or a promoted column, into an alias (dedup.py:180 "a variant is  *)
(* embedded exactly once").                                                   *)
FoldedOnce ==
  [][\A v \in Variants : Registered(v) /\ field[v].canonical # None =>
       field'[v].canonical = field[v].canonical]_vars

(* A promotion is never recorded without its backfill: when the cases have    *)
(* categories, a promoted concept has a job waiting or running, or one that   *)
(* failed, or each case of its scope has its marker or could not be read      *)
(* (promote_scan.py: "a promotion can't be recorded without its backfill      *)
(* being queued").                                                            *)
IsPromoted(k) == IF k \in Heads THEN head[k] # NoRow /\ head[k].promoted
                 ELSE Registered(k) /\ field[k].promoted
Live(k) == jobs[k] > 0 \/ (runner # Free /\ runner.concept = k)
NoPromotionForgotten ==
  \A k \in Concepts : IsPromoted(k) /\ (\A c \in Cases : Category[c] # None) =>
    Live(k) \/ k \in failed \/ (scope[k] # {} /\ InScope(k) \cap Readable \subseteq tried[k])

(* Liveness: while no job of it fails, every readable case in the scope of a  *)
(* promoted head is tried in the end, over crashes, batches and concepts      *)
(* whose batches never end, but for those that have a whole batch of older    *)
(* cases that cannot be read: these are not marked, come back in each batch   *)
(* and starve the rest.                                                       *)
Starved(k, c) == Cardinality({d \in InScope(k) \ Readable : Older(d, c)}) >= BatchSize
Served(k) == {c \in InScope(k) \cap Readable : ~Starved(k, c)}
BackfillReaches ==
  \A h \in Heads : IsPromoted(h) ~> (h \in failed \/ Served(h) \subseteq tried[h])

(* "a case that never had the concept ... gets it now" (backfill.py:5): also  *)
(* one that is starved.                                                       *)
BackfillCovers ==
  \A h \in Heads :
    IsPromoted(h) ~> (h \in failed \/ InScope(h) \cap Readable \subseteq tried[h])

(* "two synonym qualifiers can never both promote as duplicate columns"      *)
(* (promote.py): a promoted variant is not the alias of a promoted one.      *)
NoTwinColumns ==
  \A v \in Variants : Registered(v) /\ field[v].promoted =>
    field[v].canonical \in {None, v} \/ ~field[field[v].canonical].promoted

(* "so the just-attested case is included" (api.py): with no transaction     *)
(* open, the registry's support is the number of cases in the log.           *)
SupportExact ==
  (\A t \in Txns : txn[t] = Idle) =>
    \A v \in Variants : Registered(v) => field[v].support = Cardinality(attested[v])
=============================================================================
