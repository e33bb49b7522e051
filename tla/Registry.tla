------------------------------ MODULE Registry ------------------------------
(* The emergent schema: the registry of extracted concepts, the dedup pass   *)
(* that folds synonyms together and the promotion of what recurs.            *)
(* store/api.py, schema/dedup.py, schema/promote.py, schema/promote_scan.py. *)
(*                                                                           *)
(* A concept is a head ("fee") or one of its variants ("late_fee"). Each     *)
(* extraction records an attestation and, in the same transaction, upserts   *)
(* the support of the variant and of its head, recomputed from the log. The  *)
(* scheduler queues a dedup and then a promote scan, which one worker runs   *)
(* one after the other while extractions go on.                              *)
EXTENDS Integers, FiniteSets, FiniteSetsExt

CONSTANTS
  Cases, Variants, Heads, Txns,
  Mentions,            \* the variants the text of a case states
  HeadOf,              \* the head a variant's name ends in
  Similarity,          \* cosine of two variants' embeddings, in percent
  MergeTau, AdmitTau,  \* dedup.MERGE_TAU, ADMIT_TAU
  PromoteHeadN, PromoteQualifierM,
  Protected,           \* the names pii.classify_sensitivity flags
  MaxScans,            \* bound: rounds of the scheduler
  None

ASSUME RegistryAssumption ==
  /\ Mentions \in [Cases -> SUBSET Variants]
  /\ HeadOf \in [Variants -> Heads] /\ Variants \cap Heads = {}
  /\ Similarity \in [Variants -> [Variants -> 0..100]]
  /\ AdmitTau \in Nat /\ MergeTau \in Nat /\ AdmitTau <= MergeTau
  /\ PromoteHeadN \in Nat \ {0} /\ PromoteQualifierM \in Nat \ {0}
  /\ Protected \subseteq Variants \cup Heads
  /\ None \notin Variants \cup Heads \cup Cases /\ MaxScans \in Nat
  /\ IsFiniteSet(Cases)

VARIABLES
  attested,   \* field_extraction, layer emergent: per variant, its cases
  field,      \* emergent_field: [support, canonical, promoted], or NoRow
  head,       \* emergent_head: [support, promoted], or NoRow
  txn,        \* the extractions in progress
  scan,       \* the maintenance scan in progress
  scans       \* how many rounds have been queued

registryVars == <<attested, field, head, txn, scan, scans>>

NoRow == [support |-> 0]
Idle == [phase |-> "idle"]
Resting == [phase |-> "rest"]

RegistryInit ==
  /\ attested = [v \in Variants |-> {}]
  /\ field = [v \in Variants |-> NoRow]
  /\ head = [h \in Heads |-> NoRow]
  /\ txn = [t \in Txns |-> Idle] /\ scan = Resting /\ scans = 0

Registered(v) == field[v] # NoRow
Of(h) == {v \in Variants : HeadOf[v] = h}
AttestingHead(h) == UNION {attested[v] : v \in Of(h)}

-----------------------------------------------------------------------------
(* The tail of extract_case: one emergent attribute of one case. A count is  *)
(* part of its statement's snapshot, taken before the row's lock is waited   *)
(* for: a row another transaction has just written is updated with the count *)
(* as it was.                                                                *)

(* record_extraction; register_emergent_field begins, and counts.            *)
Extract(t, c, v) ==
  /\ txn[t] = Idle /\ v \in Mentions[c]
  /\ txn' = [txn EXCEPT ![t] = [phase |-> "field", case |-> c, variant |-> v,
       fields |-> Cardinality(attested[v] \cup {c}), heads |-> 0]]
  /\ UNCHANGED <<attested, field, head, scan, scans>>

(* Its row is free and is written; register_emergent_head begins, and counts.*)
HoldsField(t) == txn[t].phase = "head"
RegisterField(t) ==
  /\ txn[t].phase = "field"
  /\ \A u \in Txns : HoldsField(u) => txn[u].variant # txn[t].variant
  /\ txn' = [txn EXCEPT ![t].phase = "head",
       ![t].heads = Cardinality(AttestingHead(HeadOf[txn[t].variant]) \cup {txn[t].case})]
  /\ UNCHANGED <<attested, field, head, scan, scans>>

(* The upsert leaves the promotion and the canonical of a known row alone.   *)
FieldWith(v, n) ==
  IF Registered(v) THEN [field[v] EXCEPT !.support = n]
  ELSE [support |-> n, canonical |-> None, promoted |-> FALSE]
HeadWith(h, n) ==
  IF head[h] # NoRow THEN [head[h] EXCEPT !.support = n]
  ELSE [support |-> n, promoted |-> FALSE]

(* The head's row is written and the transaction commits.                    *)
Commit(t) ==
  /\ txn[t].phase = "head"
  /\ LET v == txn[t].variant IN
       /\ attested' = [attested EXCEPT ![v] = @ \cup {txn[t].case}]
       /\ field' = [field EXCEPT ![v] = FieldWith(v, txn[t].fields)]
       /\ head' = [head EXCEPT ![HeadOf[v]] = HeadWith(HeadOf[v], txn[t].heads)]
  /\ txn' = [txn EXCEPT ![t] = Idle]
  /\ UNCHANGED <<scan, scans>>

Abort(t) ==
  /\ txn[t] # Idle
  /\ txn' = [txn EXCEPT ![t] = Idle]
  /\ UNCHANGED <<attested, field, head, scan, scans>>

-----------------------------------------------------------------------------
(* dedup_registry: every variant without an embedding gets its canonical.    *)
(* canonical is what the scan's transaction sees, its own writes included.   *)

Undeduped == {v \in Variants : Registered(v) /\ field[v].canonical = None}

Schedule ==
  /\ scan = Resting /\ scans < MaxScans
  /\ scans' = scans + 1
  /\ scan' = [phase |-> "dedup", todo |-> Undeduped,
              canonical |-> [v \in Variants |-> IF Registered(v) THEN field[v].canonical
                                                ELSE None]]
  /\ UNCHANGED <<attested, field, head, txn>>

(* nearest_canonical_field: the most similar of the canonicals of the same   *)
(* head; an alias is never a target.                                         *)
Canonicals(v) == {w \in Of(HeadOf[v]) \ {v} : scan.canonical[w] = w}
Nearest(v) == {w \in Canonicals(v) :
                 \A o \in Canonicals(v) : Similarity[v][o] <= Similarity[v][w]}

(* dedup_field: merge, admit, or between the two what the model says.        *)
Assigned(v) ==
  IF Canonicals(v) = {} THEN {v}
  ELSE UNION {CASE Similarity[v][w] >= MergeTau -> {w}
                [] Similarity[v][w] < AdmitTau -> {v}
                [] OTHER -> {v, w} : w \in Nearest(v)}

Dedup(v) ==
  /\ scan.phase = "dedup" /\ v \in scan.todo
  /\ \E w \in Assigned(v) :
       scan' = [scan EXCEPT !.todo = @ \ {v}, !.canonical[v] = w]
  /\ UNCHANGED <<attested, field, head, txn, scans>>

DedupCommits ==
  /\ scan.phase = "dedup" /\ scan.todo = {}
  /\ field' = [v \in Variants |->
       IF Registered(v) /\ scan.canonical[v] # None
         THEN [field[v] EXCEPT !.canonical = scan.canonical[v]] ELSE field[v]]
  /\ scan' = [phase |-> "heads"]
  /\ UNCHANGED <<attested, head, txn, scans>>

(* The embedder fails: the task has no retry, and the promote scan that was  *)
(* queued behind it runs all the same.                                       *)
DedupFails ==
  /\ scan.phase = "dedup"
  /\ scan' = [phase |-> "heads"]
  /\ UNCHANGED <<attested, field, head, txn, scans>>

-----------------------------------------------------------------------------
(* promote_heads, then promote_qualifiers, in the scan's transaction.        *)

PromotableHeads ==
  {h \in Heads \ Protected : head[h] # NoRow /\ head[h].support >= PromoteHeadN}
PromoteHeads ==
  /\ scan.phase = "heads"
  /\ scan' = [phase |-> "fields", heads |-> PromotableHeads]
  /\ UNCHANGED <<attested, field, head, txn, scans>>

(* list_promotable_qualifier_variants: an alias is left out, a canonical has *)
(* the distinct cases of its aliases too, and a variant dedup has not seen   *)
(* counts for itself.                                                        *)
Aliases(v) == {w \in Variants : Registered(w) /\ field[w].canonical = v}
Pooled(v) == Cardinality(UNION {attested[w] : w \in Aliases(v)})
PooledTwice(v) == MapThenSumSet(LAMBDA w : field[w].support, Aliases(v))
                                               \* a slip, for the mutation runs
PooledSupport(v) == Pooled(v)

Support(v) == IF field[v].canonical = None THEN field[v].support ELSE PooledSupport(v)
PromotableFields ==
  {v \in Variants \ Protected :
     /\ Registered(v) /\ field[v].canonical \in {None, v}
     /\ HeadOf[v] \in scan.heads \cup {h \in Heads : head[h] # NoRow /\ head[h].promoted}
     /\ Support(v) >= PromoteQualifierM}

(* The concepts this scan promotes, heads and variants.                      *)
NewHeads == {h \in scan.heads : ~head[h].promoted}
NewFields == {v \in PromotableFields : ~field[v].promoted}

PromoteCommits ==
  /\ scan.phase = "fields"
  /\ head' = [h \in Heads |-> IF h \in NewHeads THEN [head[h] EXCEPT !.promoted = TRUE]
                              ELSE head[h]]
  /\ field' = [v \in Variants |-> IF v \in NewFields
                                    THEN [field[v] EXCEPT !.promoted = TRUE] ELSE field[v]]
  /\ scan' = Resting
  /\ UNCHANGED <<attested, txn, scans>>

PromoteFails ==
  /\ scan.phase \in {"heads", "fields"}
  /\ scan' = Resting
  /\ UNCHANGED <<attested, field, head, txn, scans>>

DedupStep == Schedule \/ (\E v \in Variants : Dedup(v)) \/ DedupCommits \/ DedupFails
             \/ PromoteHeads \/ PromoteFails
=============================================================================
