------------------------- MODULE SchemaGrowthProofs -------------------------
(***************************************************************************)
(* The growth of the schema is honest for any number of cases, synonyms,   *)
(* extractions and faults, whatever the similarities and the thresholds:   *)
(* what is promoted recurs, a promotion has its backfill, and a variant is *)
(* folded once.                                                            *)
(***************************************************************************)
EXTENDS SchemaGrowth, FiniteSetTheorems, TLAPS

(* The rows, the transactions, the scan and the runner are well formed.    *)
Txn == {Idle} \cup [phase : {"field", "head"}, case : Cases, variant : Variants,
                    fields : Nat, heads : Nat]
Scan == {Resting} \cup [phase : {"heads"}] \cup [phase : {"fields"}, heads : SUBSET Heads]
        \cup [phase : {"dedup"}, todo : SUBSET Variants,
              canonical : [Variants -> Variants \cup {None}]]
Runner == {Free} \cup [phase : {"cases", "writing"}, concept : Concepts,
                       todo : SUBSET Cases, more : BOOLEAN]

Shape ==
  /\ attested \in [Variants -> SUBSET Cases]
  /\ field \in [Variants -> FieldRow] /\ head \in [Heads -> HeadRow]
  /\ txn \in [Txns -> Txn] /\ scan \in Scan

(* What a transaction counted is of cases the log will hold when it        *)
(* commits, so a support is never above its count.                         *)
Backed(r) ==
  r # Idle =>
    /\ r.fields > 0 /\ r.fields <= Cardinality(attested[r.variant] \cup {r.case})
    /\ r.phase = "head" =>
         /\ r.heads > 0
         /\ r.heads <= Cardinality(AttestingHead(HeadOf[r.variant]) \cup {r.case})

Counted ==
  /\ \A v \in Variants : Registered(v) => field[v].support <= Cardinality(attested[v])
  /\ \A h \in Heads : head[h] # NoRow => head[h].support <= Cardinality(AttestingHead(h))
  /\ \A t \in Txns : Backed(txn[t])

(* The scan's transaction assigns only variants that had no canonical, and *)
(* promotes only heads that recur.                                         *)
Scanning ==
  /\ scan.phase = "dedup" =>
       /\ scan.todo \subseteq Undeduped
       /\ \A v \in Variants : Registered(v) /\ field[v].canonical # None
                                => scan.canonical[v] = field[v].canonical
  /\ scan.phase = "fields" =>
       \A h \in scan.heads : head[h] # NoRow /\ Cardinality(AttestingHead(h)) >= PromoteHeadN

(* What is promoted recurs.                                                *)
Recurs ==
  /\ \A h \in Heads : head[h] # NoRow /\ head[h].promoted
       => Cardinality(AttestingHead(h)) >= PromoteHeadN
  /\ \A v \in Variants : Registered(v) /\ field[v].promoted =>
       /\ Cardinality(attested[v] \cup UNION {attested[w] : w \in Aliases(v)})
            >= PromoteQualifierM
       /\ head[HeadOf[v]] # NoRow /\ head[HeadOf[v]].promoted

RegInv == Shape /\ Counted /\ Scanning /\ Recurs

Queued ==
  /\ jobs \in [Concepts -> Nat] /\ scope \in [Concepts -> SUBSET Nat]
  /\ tried \in [Concepts -> SUBSET Cases] /\ runner \in Runner /\ failed \subseteq Concepts

(* The last batch of a concept holds all that was left of it.              *)
LastBatch ==
  runner # Free /\ ~runner.more =>
    \/ jobs[runner.concept] > 0
    \/ Needing(runner.concept) \cap Readable \subseteq runner.todo

(* When the cases have categories, a promotion has a scope; and it has a   *)
(* job, or one that failed, or nothing is left of it.                      *)
Promised ==
  (\A c \in Cases : Category[c] # None) =>
    \A k \in Concepts : IsPromoted(k) =>
      /\ scope[k] # {}
      /\ Live(k) \/ k \in failed \/ Needing(k) \cap Readable = {}

GrowthInv == RegInv /\ Queued /\ LastBatch /\ Promised

-----------------------------------------------------------------------------
(* What a step does to the registry, and what none undoes.                 *)
QuietMove ==
  \/ UNCHANGED registryVars
  \/ \E t \in Txns, c \in Cases, v \in Variants : Extract(t, c, v)
  \/ \E t \in Txns : RegisterField(t) \/ Commit(t)
  \/ \E t \in Txns : /\ txn' = [txn EXCEPT ![t] = Idle]
                     /\ UNCHANGED <<attested, field, head, scan, scans>>
  \/ DedupStep

RegMove == QuietMove \/ PromoteCommits

Grown ==
  /\ \A v \in Variants :
       /\ attested[v] \subseteq attested'[v]
       /\ Registered(v) =>
            /\ field'[v] # NoRow
            /\ field[v].canonical # None => field'[v].canonical = field[v].canonical
            /\ field[v].promoted => field'[v].promoted
  /\ \A h \in Heads : head[h] # NoRow =>
       head'[h] # NoRow /\ (head[h].promoted => head'[h].promoted)

Assumed == RegistryAssumption /\ BackfillAssumption /\ GrowthAssumption

(* And to the queue; only a commit of a promote scan enqueues.             *)
BackMove ==
  \/ UNCHANGED <<jobs, scope, tried, runner, failed>>
  \/ \E k \in Concepts : Take(k)
  \/ \E c \in Cases : Pass(c) \/ Absent(c) \/ Find(c) \/ Found(c)
  \/ Requeue \/ Finish \/ JobFails \/ Crash

LEMMA Moves == Assumed /\ [Next]_vars => (QuietMove /\ BackMove) \/ Promote
  <1> SUFFICES ASSUME Assumed, [Next]_vars, ~Promote PROVE QuietMove /\ BackMove
    OBVIOUS
  <1>0. Backfiller \in Txns /\ Seen = Cases /\ Mentions \in [Cases -> SUBSET Variants]
    BY DEF Assumed, RegistryAssumption, GrowthAssumption
  <1>1. CASE (Extracts \/ Registers \/ DedupStep) /\ UNCHANGED backfillVars
    BY <1>1 DEF Extracts, Registers, QuietMove, BackMove, backfillVars
  <1>2. CASE BackfillStep /\ UNCHANGED registryVars
    BY <1>0, <1>2 DEF BackfillStep, QuietMove, BackMove
  <1>4. CASE BackfillFinds
    <2>1. PICK c \in Cases : /\ Find(c)
                             /\ \E v \in Backfilled(runner.concept, c) : Extract(Backfiller, c, v)
      BY <1>4 DEF BackfillFinds
    <2>2. Backfilled(runner.concept, c) \subseteq Variants
      BY <1>0 DEF Backfilled
    <2> QED
      BY <1>0, <2>1, <2>2 DEF QuietMove, BackMove
  <1>5. CASE BackfillRecords
    BY <1>0, <1>5 DEF BackfillRecords, QuietMove, BackMove
  <1>6. CASE Breaks
    BY <1>0, <1>6 DEF Breaks, BackfillFails, BackfillDies, ExtractFails, Abort, QuietMove, BackMove
  <1>7. CASE UNCHANGED vars
    BY <1>7 DEF vars, QuietMove, BackMove, registryVars
  <1> QED
    BY <1>1, <1>2, <1>4, <1>5, <1>6, <1>7 DEF Next, Backfills

(* A record of a transaction, of a field and of a head has its fields.     *)
LEMMA Rows ==
  ASSUME Shape
  PROVE  /\ \A t \in Txns : txn[t] # Idle =>
              txn[t] \in [phase : {"field", "head"}, case : Cases, variant : Variants,
                          fields : Nat, heads : Nat]
         /\ \A t \in Txns : txn[t].phase \in {"field", "head"} => txn[t] # Idle
         /\ \A v \in Variants : Registered(v) <=>
              field[v] \in [support : Nat \ {0}, canonical : Variants \cup {None},
                            promoted : BOOLEAN]
         /\ \A h \in Heads : head[h] # NoRow <=>
              head[h] \in [support : Nat \ {0}, promoted : BOOLEAN]
         /\ \A h \in Heads : AttestingHead(h) \in SUBSET Cases
  BY DEF Shape, Txn, Idle, FieldRow, HeadRow, NoRow, Registered, AttestingHead, Of

LEMMA Smaller ==
  ASSUME RegistryAssumption, NEW S \in SUBSET Cases, NEW T \in SUBSET S
  PROVE  Cardinality(T) \in Nat /\ Cardinality(S) \in Nat /\ Cardinality(T) <= Cardinality(S)
  BY FS_Subset, FS_CardinalityType DEF RegistryAssumption

LEMMA Growing ==
  ASSUME Assumed, Shape, Scanning, RegMove
  PROVE  Grown
  <1>1. CASE UNCHANGED <<attested, field, head>>
    BY <1>1, Rows DEF Grown, Registered
  <1>2. ASSUME NEW t \in Txns, Commit(t) PROVE Grown
    <2> DEFINE u == txn[t].variant
    <2>1. u \in Variants /\ txn[t].fields \in Nat /\ txn[t].heads \in Nat /\ HeadOf[u] \in Heads
      BY <1>2, Rows DEF Commit, Assumed, RegistryAssumption
    <2>2. /\ attested' = [attested EXCEPT ![u] = @ \cup {txn[t].case}]
          /\ field' = [field EXCEPT ![u] = FieldWith(u, txn[t].fields)]
          /\ head' = [head EXCEPT ![HeadOf[u]] = HeadWith(HeadOf[u], txn[t].heads)]
      BY <1>2 DEF Commit
    <2> HIDE DEF u
    <2>3. ASSUME NEW v \in Variants, Registered(v)
          PROVE  /\ field'[v] # NoRow
                 /\ field[v].canonical # None => field'[v].canonical = field[v].canonical
                 /\ field[v].promoted => field'[v].promoted
      BY <2>1, <2>2, <2>3, Rows DEF FieldWith, Shape, NoRow
    <2>4. ASSUME NEW h \in Heads, head[h] # NoRow
          PROVE  head'[h] # NoRow /\ (head[h].promoted => head'[h].promoted)
      BY <2>1, <2>2, <2>4, Rows DEF HeadWith, Shape, NoRow
    <2>5. \A v \in Variants : attested[v] \subseteq attested'[v]
      BY <2>1, <2>2 DEF Shape
    <2> QED
      BY <2>3, <2>4, <2>5 DEF Grown
  <1>3. CASE DedupCommits
    BY <1>3, Rows DEF DedupCommits, Grown, Registered, NoRow, Scanning, Shape
  <1>4. CASE PromoteCommits
    BY <1>4, Rows DEF PromoteCommits, Grown, Registered, NoRow, Shape
  <1> QED
    BY <1>1, <1>2, <1>3, <1>4 DEF RegMove, QuietMove, registryVars, Extract, RegisterField, DedupStep,
       Schedule, Dedup, DedupFails, PromoteHeads, PromoteFails

(* So what is counted of the log only grows.                               *)
LEMMA Counts ==
  ASSUME Assumed, Shape, Shape', Grown
  PROVE  /\ \A v \in Variants : Cardinality(attested[v]) <= Cardinality(attested'[v])
         /\ \A h \in Heads : Cardinality(AttestingHead(h)) <= Cardinality(AttestingHead(h)')
         /\ \A v \in Variants, c \in Cases :
              /\ Cardinality(attested[v] \cup {c}) <= Cardinality(attested'[v] \cup {c})
              /\ Cardinality(AttestingHead(HeadOf[v]) \cup {c})
                   <= Cardinality(AttestingHead(HeadOf[v])' \cup {c})
         /\ \A v \in Variants :
              Cardinality(attested[v] \cup UNION {attested[w] : w \in Aliases(v)})
                <= Cardinality((attested[v] \cup UNION {attested[w] : w \in Aliases(v)})')
         /\ \A v \in Variants :
              /\ Cardinality(attested[v]) \in Nat /\ Cardinality(attested'[v]) \in Nat
              /\ Cardinality(attested[v] \cup UNION {attested[w] : w \in Aliases(v)}) \in Nat
              /\ Cardinality((attested[v] \cup UNION {attested[w] : w \in Aliases(v)})') \in Nat
         /\ \A h \in Heads : /\ Cardinality(AttestingHead(h)) \in Nat
                             /\ Cardinality(AttestingHead(h)') \in Nat
         /\ \A v \in Variants, c \in Cases :
              /\ Cardinality(attested[v] \cup {c}) \in Nat
              /\ Cardinality(attested'[v] \cup {c}) \in Nat
              /\ Cardinality(AttestingHead(HeadOf[v]) \cup {c}) \in Nat
              /\ Cardinality(AttestingHead(HeadOf[v])' \cup {c}) \in Nat
  <1>0. RegistryAssumption /\ HeadOf \in [Variants -> Heads]
    BY DEF Assumed, RegistryAssumption
  <1>1. ASSUME NEW v \in Variants
        PROVE  attested[v] \in SUBSET attested'[v] /\ attested'[v] \in SUBSET Cases
    BY DEF Grown, Shape
  <1>2. ASSUME NEW h \in Heads
        PROVE  AttestingHead(h) \in SUBSET AttestingHead(h)' /\ AttestingHead(h)' \in SUBSET Cases
    BY <1>1 DEF AttestingHead, Of
  <1>3. ASSUME NEW v \in Variants
        PROVE  LET all == attested[v] \cup UNION {attested[w] : w \in Aliases(v)}
               IN  all \in SUBSET all' /\ all' \in SUBSET Cases
    <2>1. Aliases(v) \subseteq Aliases(v)'
      BY Rows DEF Aliases, Grown, Registered, Assumed, RegistryAssumption
    <2>2. Aliases(v)' \subseteq Variants
      BY DEF Aliases
    <2> HIDE DEF Aliases
    <2> QED
      BY <2>1, <2>2, <1>1
  <1>4. ASSUME NEW c \in Cases, NEW S \in SUBSET Cases, NEW T \in SUBSET S
        PROVE  /\ Cardinality(T) \in Nat /\ Cardinality(S) \in Nat
               /\ Cardinality(T) <= Cardinality(S)
               /\ Cardinality(T \cup {c}) \in Nat /\ Cardinality(S \cup {c}) \in Nat
               /\ Cardinality(T \cup {c}) <= Cardinality(S \cup {c})
    <2>1. (S \cup {c}) \in SUBSET Cases /\ (T \cup {c}) \in SUBSET (S \cup {c})
      OBVIOUS
    <2> QED
      BY <2>1, <1>0, Smaller
  <1>5. ASSUME NEW S \in SUBSET Cases, NEW T \in SUBSET S
        PROVE  /\ Cardinality(T) \in Nat /\ Cardinality(S) \in Nat
               /\ Cardinality(T) <= Cardinality(S)
    BY <1>0, Smaller
  <1>6. ASSUME NEW v \in Variants
        PROVE  /\ Cardinality(attested[v]) \in Nat /\ Cardinality(attested'[v]) \in Nat
               /\ Cardinality(attested[v]) <= Cardinality(attested'[v])
    BY <1>1, <1>5
  <1>7. ASSUME NEW h \in Heads
        PROVE  /\ Cardinality(AttestingHead(h)) \in Nat /\ Cardinality(AttestingHead(h)') \in Nat
               /\ Cardinality(AttestingHead(h)) <= Cardinality(AttestingHead(h)')
    BY <1>2, <1>5
  <1>8. ASSUME NEW v \in Variants
        PROVE  LET all == attested[v] \cup UNION {attested[w] : w \in Aliases(v)}
               IN  /\ Cardinality(all) \in Nat /\ Cardinality(all') \in Nat
                   /\ Cardinality(all) <= Cardinality(all')
    <2> DEFINE all == attested[v] \cup UNION {attested[w] : w \in Aliases(v)}
    <2>1. all \in SUBSET all' /\ all' \in SUBSET Cases
      BY <1>3
    <2> HIDE DEF all
    <2>2. Cardinality(all) \in Nat /\ Cardinality(all') \in Nat
          /\ Cardinality(all) <= Cardinality(all')
      BY <2>1, <1>5
    <2> QED
      BY <2>2 DEF all
  <1>9. ASSUME NEW v \in Variants, NEW c \in Cases
        PROVE  /\ Cardinality(attested[v] \cup {c}) \in Nat
               /\ Cardinality(attested'[v] \cup {c}) \in Nat
               /\ Cardinality(attested[v] \cup {c}) <= Cardinality(attested'[v] \cup {c})
    BY <1>1, <1>4
  <1>10. ASSUME NEW h \in Heads, NEW c \in Cases
         PROVE  /\ Cardinality(AttestingHead(h) \cup {c}) \in Nat
                /\ Cardinality(AttestingHead(h)' \cup {c}) \in Nat
                /\ Cardinality(AttestingHead(h) \cup {c}) <= Cardinality(AttestingHead(h)' \cup {c})
    BY <1>2, <1>4
  <1> QED
    BY <1>0, <1>6, <1>7, <1>8, <1>9, <1>10

LEMMA ShapeStep == Assumed /\ Shape /\ Counted /\ Scanning /\ RegMove => Shape'
  <1> SUFFICES ASSUME Assumed, Shape, Counted, Scanning, RegMove PROVE Shape'
    OBVIOUS
  <1>0. /\ HeadOf \in [Variants -> Heads] /\ IsFiniteSet(Cases)
        /\ \A c \in Cases, S \in SUBSET Cases : Cardinality(S \cup {c}) \in Nat
    <2>1. ASSUME NEW c \in Cases, NEW S \in SUBSET Cases PROVE Cardinality(S \cup {c}) \in Nat
      <3>1. (S \cup {c}) \in SUBSET Cases
        OBVIOUS
      <3> QED
        BY <3>1, FS_Subset, FS_CardinalityType DEF Assumed, RegistryAssumption
    <2> QED
      BY <2>1 DEF Assumed, RegistryAssumption
  <1>1. CASE UNCHANGED registryVars
    BY <1>1 DEF registryVars, Shape
  <1>2. ASSUME NEW t \in Txns, NEW c \in Cases, NEW v \in Variants, Extract(t, c, v)
        PROVE  Shape'
    <2>1. Cardinality(attested[v] \cup {c}) \in Nat
      BY <1>0 DEF Shape
    <2> QED
      BY <1>2, <2>1 DEF Extract, Shape, Txn
  <1>3. ASSUME NEW t \in Txns, RegisterField(t) PROVE Shape'
    <2> DEFINE n == Cardinality(AttestingHead(HeadOf[txn[t].variant]) \cup {txn[t].case})
    <2>1. txn[t] \in [phase : {"field", "head"}, case : Cases, variant : Variants,
                      fields : Nat, heads : Nat]
      BY <1>3, Rows DEF RegisterField
    <2>2. AttestingHead(HeadOf[txn[t].variant]) \in SUBSET Cases
      BY <1>0, <2>1, Rows
    <2>3. n \in Nat
      BY <1>0, <2>1, <2>2
    <2>4. txn' = [txn EXCEPT ![t].phase = "head", ![t].heads = n]
          /\ UNCHANGED <<attested, field, head, scan>>
      BY <1>3 DEF RegisterField
    <2> HIDE DEF n
    <2>5. txn' \in [Txns -> Txn]
      BY <2>1, <2>3, <2>4 DEF Shape, Txn
    <2> QED
      BY <2>4, <2>5 DEF Shape
  <1>4. ASSUME NEW t \in Txns, Commit(t) PROVE Shape'
    <2> DEFINE u == txn[t].variant
               h == HeadOf[txn[t].variant]
    <2>1. /\ txn[t] \in [phase : {"field", "head"}, case : Cases, variant : Variants,
                         fields : Nat, heads : Nat]
          /\ txn[t].fields > 0 /\ txn[t].heads > 0
      BY <1>4, Rows DEF Commit, Counted, Backed, Idle
    <2>2. u \in Variants /\ h \in Heads
      BY <1>0, <2>1
    <2>3. FieldWith(u, txn[t].fields) \in FieldRow
      BY <2>1, <2>2, Rows DEF FieldWith, FieldRow, Registered
    <2>4. HeadWith(h, txn[t].heads) \in HeadRow
      BY <2>1, <2>2, Rows DEF HeadWith, HeadRow
    <2>5. /\ attested' = [attested EXCEPT ![u] = @ \cup {txn[t].case}]
          /\ field' = [field EXCEPT ![u] = FieldWith(u, txn[t].fields)]
          /\ head' = [head EXCEPT ![h] = HeadWith(h, txn[t].heads)]
          /\ txn' = [txn EXCEPT ![t] = Idle] /\ scan' = scan
      BY <1>4 DEF Commit
    <2> HIDE DEF u, h, FieldWith, HeadWith
    <2> QED
      BY <2>1, <2>2, <2>3, <2>4, <2>5 DEF Shape, Txn
  <1>5. ASSUME NEW t \in Txns, txn' = [txn EXCEPT ![t] = Idle],
               UNCHANGED <<attested, field, head, scan, scans>>
        PROVE  Shape'
    BY <1>5 DEF Shape, Txn
  <1>6. CASE DedupStep
    <2>1. CASE Schedule
      BY <2>1, Rows DEF Schedule, Shape, Scan, Undeduped, Registered
    <2>2. ASSUME NEW v \in Variants, Dedup(v) PROVE Shape'
      <3>1. Assigned(v) \subseteq Variants
        BY DEF Assigned, Nearest, Canonicals, Of
      <3>2. PICK w \in Variants : scan' = [scan EXCEPT !.todo = @ \ {v}, !.canonical[v] = w]
        BY <2>2, <3>1 DEF Dedup
      <3>3. scan \in [phase : {"dedup"}, todo : SUBSET Variants,
                      canonical : [Variants -> Variants \cup {None}]]
        BY <2>2 DEF Dedup, Shape, Scan, Resting
      <3>4. scan' \in Scan
        BY <3>2, <3>3 DEF Scan
      <3> QED
        BY <2>2, <3>4 DEF Dedup, Shape
    <2>3. CASE DedupCommits
      <3>1. scan \in [phase : {"dedup"}, todo : SUBSET Variants,
                      canonical : [Variants -> Variants \cup {None}]]
        BY <2>3 DEF DedupCommits, Shape, Scan, Resting
      <3>2. ASSUME NEW v \in Variants PROVE field'[v] \in FieldRow
        <4>1. field'[v] = IF Registered(v) /\ scan.canonical[v] # None
                          THEN [field[v] EXCEPT !.canonical = scan.canonical[v]] ELSE field[v]
          BY <2>3 DEF DedupCommits
        <4> QED
          BY <3>1, <4>1, Rows DEF FieldRow, Shape
      <3>3. field' \in [Variants -> FieldRow]
        BY <2>3, <3>2 DEF DedupCommits
      <3> QED
        BY <2>3, <3>3 DEF DedupCommits, Shape, Scan
    <2>4. CASE PromoteHeads
      BY <2>4 DEF PromoteHeads, PromotableHeads, Shape, Scan
    <2>5. CASE DedupFails \/ PromoteFails
      BY <2>5 DEF DedupFails, PromoteFails, Shape, Scan
    <2> QED
      BY <1>6, <2>1, <2>2, <2>3, <2>4, <2>5 DEF DedupStep
  <1>7. CASE PromoteCommits
    <2>1. ASSUME NEW v \in Variants PROVE field'[v] \in FieldRow
      <3>1. field'[v] = IF v \in NewFields THEN [field[v] EXCEPT !.promoted = TRUE] ELSE field[v]
        BY <1>7 DEF PromoteCommits
      <3>2. v \in NewFields => Registered(v)
        BY DEF NewFields, PromotableFields
      <3> QED
        BY <3>1, <3>2, Rows DEF FieldRow, Shape
    <2>2. ASSUME NEW h \in Heads PROVE head'[h] \in HeadRow
      <3>1. head'[h] = IF h \in NewHeads THEN [head[h] EXCEPT !.promoted = TRUE] ELSE head[h]
        BY <1>7 DEF PromoteCommits
      <3>2. h \in NewHeads => head[h] # NoRow
        BY <1>7 DEF PromoteCommits, NewHeads, Scanning
      <3> QED
        BY <3>1, <3>2, Rows DEF HeadRow, Shape
    <2>3. field' \in [Variants -> FieldRow] /\ head' \in [Heads -> HeadRow]
      BY <1>7, <2>1, <2>2 DEF PromoteCommits
    <2> QED
      BY <1>7, <2>3 DEF PromoteCommits, Shape, Scan
  <1> QED
    BY <1>1, <1>2, <1>3, <1>4, <1>5, <1>6, <1>7 DEF RegMove, QuietMove

LEMMA CountedStep ==
  Assumed /\ Shape /\ Shape' /\ Counted /\ Scanning /\ Grown /\ RegMove => Counted'
  <1> SUFFICES ASSUME Assumed, Shape, Shape', Counted, Scanning, Grown, RegMove PROVE Counted'
    OBVIOUS
  <1>0. HeadOf \in [Variants -> Heads]
    BY DEF Assumed, RegistryAssumption
  <1>1. ASSUME NEW c \in Cases, NEW S \in SUBSET Cases
        PROVE  Cardinality(S \cup {c}) \in Nat /\ Cardinality(S \cup {c}) > 0
    <2>1. (S \cup {c}) \in SUBSET Cases /\ S \cup {c} # {}
      OBVIOUS
    <2>2. IsFiniteSet(S \cup {c})
      BY <2>1, FS_Subset DEF Assumed, RegistryAssumption
    <2> QED
      BY <2>1, <2>2, FS_CardinalityType, FS_EmptySet
  <1>a. ASSUME NEW v \in Variants
        PROVE  /\ Cardinality(attested[v]) \in Nat /\ Cardinality(attested'[v]) \in Nat
               /\ Cardinality(attested[v]) <= Cardinality(attested'[v])
    BY Counts
  <1>b. ASSUME NEW h \in Heads
        PROVE  /\ Cardinality(AttestingHead(h)) \in Nat /\ Cardinality(AttestingHead(h)') \in Nat
               /\ Cardinality(AttestingHead(h)) <= Cardinality(AttestingHead(h)')
    BY Counts
  <1>c. ASSUME NEW v \in Variants, NEW c \in Cases
        PROVE  /\ Cardinality(attested[v] \cup {c}) \in Nat
               /\ Cardinality(attested'[v] \cup {c}) \in Nat
               /\ Cardinality(attested[v] \cup {c}) <= Cardinality(attested'[v] \cup {c})
               /\ Cardinality(AttestingHead(HeadOf[v]) \cup {c}) \in Nat
               /\ Cardinality(AttestingHead(HeadOf[v])' \cup {c}) \in Nat
               /\ Cardinality(AttestingHead(HeadOf[v]) \cup {c})
                    <= Cardinality(AttestingHead(HeadOf[v])' \cup {c})
    BY Counts
  (* A row that was not touched keeps its support, below a greater count.  *)
  <1>2. ASSUME NEW v \in Variants, Registered(v), field'[v].support = field[v].support
        PROVE  field'[v].support <= Cardinality(attested'[v])
    <2>1. field[v].support <= Cardinality(attested[v])
      BY <1>2 DEF Counted
    <2>2. field[v].support \in Nat
      BY <1>2, Rows
    <2> QED
      BY <1>2, <1>a, <2>1, <2>2
  <1>3. ASSUME NEW h \in Heads, head[h] # NoRow, head'[h].support = head[h].support
        PROVE  head'[h].support <= Cardinality(AttestingHead(h)')
    <2>1. head[h].support <= Cardinality(AttestingHead(h))
      BY <1>3 DEF Counted
    <2>2. head[h].support \in Nat
      BY <1>3, Rows
    <2> QED
      BY <1>3, <1>b, <2>1, <2>2
  <1>4. ASSUME NEW t \in Txns, NEW r, r = txn[t] PROVE Backed(r)'
    <2>1. CASE r = Idle
      BY <2>1 DEF Backed
    <2>2. CASE r # Idle
      <3>1. r \in [phase : {"field", "head"}, case : Cases, variant : Variants,
                   fields : Nat, heads : Nat]
        BY <1>4, <2>2, Rows
      <3>2. Backed(r)
        BY <1>4 DEF Counted
      <3>3. r.variant \in Variants /\ r.case \in Cases /\ r.fields \in Nat /\ r.heads \in Nat
        BY <3>1
      <3>4. PICK v \in Variants, c \in Cases : v = r.variant /\ c = r.case
        BY <3>3
      <3>5. /\ r.fields > 0 /\ r.fields <= Cardinality(attested[v] \cup {c})
            /\ r.phase = "head" =>
                 r.heads > 0 /\ r.heads <= Cardinality(AttestingHead(HeadOf[v]) \cup {c})
        BY <2>2, <3>2, <3>4 DEF Backed
      <3> DEFINE m == Cardinality(attested[v] \cup {c})
                 n == Cardinality(attested'[v] \cup {c})
                 i == Cardinality(AttestingHead(HeadOf[v]) \cup {c})
                 j == Cardinality(AttestingHead(HeadOf[v])' \cup {c})
      <3>a. m \in Nat /\ n \in Nat /\ m <= n /\ i \in Nat /\ j \in Nat /\ i <= j
        BY <1>c
      <3>b. r.fields <= m /\ (r.phase = "head" => r.heads <= i)
        BY <3>5
      <3> HIDE DEF m, n, i, j
      <3>c. r.fields <= n /\ (r.phase = "head" => r.heads <= j)
        BY <3>3, <3>a, <3>b
      <3>6. r.fields <= Cardinality(attested'[v] \cup {c})
        BY <3>c DEF n
      <3>7. r.phase = "head" => r.heads <= Cardinality(AttestingHead(HeadOf[v])' \cup {c})
        BY <3>c DEF j
      <3> QED
        BY <3>4, <3>5, <3>6, <3>7 DEF Backed
    <2> QED
      BY <2>1, <2>2
  <1>6. ASSUME NEW t \in Txns, \A u \in Txns \ {t} : txn'[u] = txn[u],
               \A r : r = txn'[t] => Backed(r)',
               \A v \in Variants : Registered(v)' =>
                 \/ Registered(v) /\ field'[v].support = field[v].support
                 \/ field'[v].support <= Cardinality(attested'[v]),
               \A h \in Heads : head'[h] # NoRow =>
                 \/ head[h] # NoRow /\ head'[h].support = head[h].support
                 \/ head'[h].support <= Cardinality(AttestingHead(h)')
        PROVE  Counted'
    <2>1. ASSUME NEW u \in Txns PROVE Backed(txn[u])'
      <3>1. ASSUME NEW r, r = txn'[u] PROVE Backed(r)'
        BY <1>4, <1>6, <3>1
      <3> QED
        BY <3>1 DEF Backed
    <2>2. ASSUME NEW v \in Variants, Registered(v)'
          PROVE  field'[v].support <= Cardinality(attested'[v])
      BY <1>2, <1>6, <2>2
    <2>3. ASSUME NEW h \in Heads, head'[h] # NoRow
          PROVE  head'[h].support <= Cardinality(AttestingHead(h)')
      BY <1>3, <1>6, <2>3
    <2> QED
      BY <2>1, <2>2, <2>3 DEF Counted
  <1>5. ASSUME UNCHANGED txn,
               \A v \in Variants : Registered(v)' =>
                 Registered(v) /\ field'[v].support = field[v].support,
               \A h \in Heads : head'[h] # NoRow =>
                 head[h] # NoRow /\ head'[h].support = head[h].support
        PROVE  Counted'
    <2>1. ASSUME NEW u \in Txns PROVE Backed(txn[u])'
      <3>1. ASSUME NEW r, r = txn'[u] PROVE Backed(r)'
        BY <1>4, <1>5, <3>1
      <3> QED
        BY <3>1 DEF Backed
    <2>2. ASSUME NEW v \in Variants, Registered(v)'
          PROVE  field'[v].support <= Cardinality(attested'[v])
      BY <1>2, <1>5, <2>2
    <2>3. ASSUME NEW h \in Heads, head'[h] # NoRow
          PROVE  head'[h].support <= Cardinality(AttestingHead(h)')
      BY <1>3, <1>5, <2>3
    <2> QED
      BY <2>1, <2>2, <2>3 DEF Counted
  <1>7. CASE UNCHANGED registryVars
    BY <1>7, <1>5 DEF registryVars, Registered
  <1>8. ASSUME NEW t \in Txns, NEW c \in Cases, NEW v \in Variants, Extract(t, c, v)
        PROVE  Counted'
    <2>1. /\ txn'[t] = [phase |-> "field", case |-> c, variant |-> v,
                        fields |-> Cardinality(attested[v] \cup {c}), heads |-> 0]
          /\ \A u \in Txns \ {t} : txn'[u] = txn[u]
          /\ UNCHANGED <<attested, field, head>>
      BY <1>8 DEF Extract, Shape
    <2>2. Cardinality(attested[v] \cup {c}) \in Nat /\ Cardinality(attested[v] \cup {c}) > 0
      BY <1>1 DEF Shape
    <2>3. ASSUME NEW r, r = txn'[t] PROVE Backed(r)'
      BY <2>1, <2>2, <2>3 DEF Backed
    <2> QED
      BY <1>6, <2>1, <2>3 DEF Registered
  <1>9. ASSUME NEW t \in Txns, RegisterField(t) PROVE Counted'
    <2> DEFINE S == AttestingHead(HeadOf[txn[t].variant])
               c == txn[t].case
    <2>1. /\ txn[t] \in [phase : {"field", "head"}, case : Cases, variant : Variants,
                         fields : Nat, heads : Nat]
          /\ txn[t] # Idle
      BY <1>9, Rows DEF RegisterField
    <2>2. S \in SUBSET Cases /\ c \in Cases
      BY <1>0, <2>1, Rows
    <2>3. Cardinality(S \cup {c}) \in Nat /\ Cardinality(S \cup {c}) > 0
      BY <1>1, <2>2
    <2>4. /\ txn'[t] = [txn[t] EXCEPT !.phase = "head", !.heads = Cardinality(S \cup {c})]
          /\ \A u \in Txns \ {t} : txn'[u] = txn[u]
          /\ UNCHANGED <<attested, field, head>>
      BY <1>9 DEF RegisterField, Shape
    <2>5. ASSUME NEW r, r = txn'[t] PROVE Backed(r)'
      <3>1. /\ r.variant = txn[t].variant /\ r.case = c
            /\ r.fields = txn[t].fields /\ r.heads = Cardinality(S \cup {c})
        BY <2>1, <2>4, <2>5
      <3>2. txn[t].fields > 0 /\ txn[t].fields <= Cardinality(attested[txn[t].variant] \cup {c})
        BY <2>1 DEF Counted, Backed
      <3>3. AttestingHead(HeadOf[r.variant])' = S
        BY <2>4, <3>1 DEF AttestingHead, Of
      <3> HIDE DEF S, c
      <3> QED
        BY <2>3, <2>4, <3>1, <3>2, <3>3 DEF Backed
    <2> QED
      BY <1>6, <2>4, <2>5 DEF Registered
  <1>10. ASSUME NEW t \in Txns, Commit(t) PROVE Counted'
    <2>1. /\ txn[t] \in [phase : {"field", "head"}, case : Cases, variant : Variants,
                         fields : Nat, heads : Nat]
          /\ txn[t] # Idle /\ txn[t].phase = "head"
      BY <1>10, Rows DEF Commit
    <2>4. PICK u \in Variants, h \in Heads, c \in Cases :
            u = txn[t].variant /\ h = HeadOf[u] /\ c = txn[t].case
      BY <1>0, <2>1
    <2>2. /\ txn[t].fields <= Cardinality(attested[u] \cup {c})
          /\ txn[t].heads <= Cardinality(AttestingHead(h) \cup {c})
      BY <2>1, <2>4 DEF Counted, Backed
    <2>3. /\ attested' = [attested EXCEPT ![u] = @ \cup {c}]
          /\ field' = [field EXCEPT ![u] = FieldWith(u, txn[t].fields)]
          /\ head' = [head EXCEPT ![h] = HeadWith(h, txn[t].heads)]
          /\ txn' = [txn EXCEPT ![t] = Idle]
      BY <1>10, <2>4 DEF Commit
    <2>5. attested'[u] = attested[u] \cup {c}
      BY <2>3, <2>4 DEF Shape
    <2>6. AttestingHead(h)' = AttestingHead(h) \cup {c}
      <3>1. u \in Of(h) /\ Of(h) \subseteq Variants
        BY <2>4 DEF Of
      <3>2. \A v \in Of(h) : attested'[v] = IF v = u THEN attested[v] \cup {c} ELSE attested[v]
        BY <2>3, <3>1 DEF Shape
      <3> QED
        BY <3>1, <3>2 DEF AttestingHead
    <2>7. field'[u].support = txn[t].fields
      BY <2>3, <2>4, Rows DEF FieldWith, Shape
    <2>8. head'[h].support = txn[t].heads
      BY <2>3, <2>4, Rows DEF HeadWith, Shape
    <2>9. \A v \in Variants : Registered(v)' =>
                 \/ Registered(v) /\ field'[v].support = field[v].support
                 \/ field'[v].support <= Cardinality(attested'[v])
      BY <2>2, <2>3, <2>5, <2>7 DEF Registered, Shape
    <2>10. \A g \in Heads : head'[g] # NoRow =>
                 \/ head[g] # NoRow /\ head'[g].support = head[g].support
                 \/ head'[g].support <= Cardinality(AttestingHead(g)')
      BY <2>2, <2>3, <2>4, <2>6, <2>8 DEF Shape
    <2>11. txn'[t] = Idle /\ \A x \in Txns \ {t} : txn'[x] = txn[x]
      BY <2>3 DEF Shape
    <2>12. \A r : r = txn'[t] => Backed(r)'
      BY <2>11 DEF Backed
    <2> QED
      BY <1>6, <2>9, <2>10, <2>11, <2>12
  <1>11. ASSUME NEW t \in Txns, txn' = [txn EXCEPT ![t] = Idle],
                UNCHANGED <<attested, field, head, scan, scans>>
         PROVE  Counted'
    <2>1. txn'[t] = Idle /\ \A x \in Txns \ {t} : txn'[x] = txn[x]
      BY <1>11 DEF Shape
    <2>2. \A r : r = txn'[t] => Backed(r)'
      BY <2>1 DEF Backed
    <2> QED
      BY <1>6, <1>11, <2>1, <2>2 DEF Registered
  <1>12. CASE DedupStep
    <2>1. CASE DedupCommits
      BY <2>1, <1>5, Rows DEF DedupCommits, Registered
    <2> QED
      BY <1>12, <1>5, <2>1 DEF DedupStep, Schedule, Dedup, DedupFails, PromoteHeads, PromoteFails,
         Registered
  <1>13. CASE PromoteCommits
    <2>1. UNCHANGED txn
      BY <1>13 DEF PromoteCommits
    <2>2. ASSUME NEW v \in Variants, Registered(v)'
          PROVE  Registered(v) /\ field'[v].support = field[v].support
      <3>1. field'[v] = IF v \in NewFields THEN [field[v] EXCEPT !.promoted = TRUE] ELSE field[v]
        BY <1>13 DEF PromoteCommits
      <3>2. v \in NewFields => Registered(v)
        BY DEF NewFields, PromotableFields
      <3> QED
        BY <2>2, <3>1, <3>2, Rows DEF Registered
    <2>3. ASSUME NEW h \in Heads, head'[h] # NoRow
          PROVE  head[h] # NoRow /\ head'[h].support = head[h].support
      <3>1. head'[h] = IF h \in NewHeads THEN [head[h] EXCEPT !.promoted = TRUE] ELSE head[h]
        BY <1>13 DEF PromoteCommits
      <3>2. h \in NewHeads => head[h] # NoRow
        BY <1>13 DEF PromoteCommits, NewHeads, Scanning
      <3> QED
        BY <2>3, <3>1, <3>2, Rows
    <2> QED
      BY <1>5, <2>1, <2>2, <2>3
  <1> QED
    BY <1>7, <1>8, <1>9, <1>10, <1>11, <1>12, <1>13 DEF RegMove, QuietMove

(* A commit leaves the canonical and the promotion of each row alone.      *)
LEMMA CommitKeeps ==
  ASSUME Assumed, Shape, NEW t \in Txns, Commit(t)
  PROVE  /\ \A v \in Variants : Registered(v)' =>
              IF Registered(v) THEN /\ field'[v].canonical = field[v].canonical
                                    /\ field'[v].promoted = field[v].promoted
              ELSE field'[v].canonical = None /\ ~field'[v].promoted
         /\ \A h \in Heads : head'[h] # NoRow =>
              IF head[h] # NoRow THEN head'[h].promoted = head[h].promoted
              ELSE ~head'[h].promoted
  <1>1. PICK u \in Variants, h \in Heads : u = txn[t].variant /\ h = HeadOf[u]
    BY Rows DEF Commit, Assumed, RegistryAssumption
  <1>2. /\ field' = [field EXCEPT ![u] = FieldWith(u, txn[t].fields)]
        /\ head' = [head EXCEPT ![h] = HeadWith(h, txn[t].heads)]
    BY <1>1 DEF Commit
  <1> QED
    BY <1>1, <1>2, Rows DEF FieldWith, HeadWith, Registered, Shape

LEMMA ScanningStep ==
  Assumed /\ Shape /\ Shape' /\ Counted /\ Scanning /\ Grown /\ RegMove => Scanning'
  <1> SUFFICES ASSUME Assumed, Shape, Shape', Counted, Scanning, Grown, RegMove
               PROVE  Scanning'
    OBVIOUS
  <1>1. ASSUME scan' = scan, UNCHANGED field \/ \E t \in Txns : Commit(t) PROVE Scanning'
    <2>1. ASSUME scan.phase = "fields", NEW h \in scan.heads
          PROVE  head'[h] # NoRow /\ Cardinality(AttestingHead(h)') >= PromoteHeadN
      <3>1. h \in Heads /\ head[h] # NoRow /\ Cardinality(AttestingHead(h)) >= PromoteHeadN
        BY <2>1 DEF Scanning, Shape, Scan, Resting
      <3>2. head'[h] # NoRow
        BY <3>1 DEF Grown
      <3>3. /\ Cardinality(AttestingHead(h)) \in Nat /\ Cardinality(AttestingHead(h)') \in Nat
            /\ Cardinality(AttestingHead(h)) <= Cardinality(AttestingHead(h)')
        BY <3>1, Counts
      <3> QED
        BY <3>1, <3>2, <3>3 DEF Assumed, RegistryAssumption
    <2>2. ASSUME scan.phase = "dedup"
          PROVE  /\ scan.todo \subseteq Undeduped'
                 /\ \A v \in Variants : Registered(v)' /\ field'[v].canonical # None
                                => scan.canonical[v] = field'[v].canonical
      <3>1. CASE UNCHANGED field
        BY <2>2, <3>1 DEF Scanning, Undeduped, Registered
      <3>2. CASE \E t \in Txns : Commit(t)
        <4>1. \A v \in Variants : Registered(v) => Registered(v)'
          BY DEF Grown, Registered
        <4> QED
          BY <2>2, <3>2, <4>1, CommitKeeps DEF Scanning, Undeduped
      <3> QED
        BY <1>1, <3>1, <3>2
    <2> QED
      BY <1>1, <2>1, <2>2 DEF Scanning
  <1>2. CASE Schedule
    BY <1>2 DEF Schedule, Scanning, Undeduped, Registered
  <1>3. ASSUME NEW v \in Variants, Dedup(v) PROVE Scanning'
    <2>1. /\ scan \in [phase : {"dedup"}, todo : SUBSET Variants,
                       canonical : [Variants -> Variants \cup {None}]]
          /\ UNCHANGED field /\ v \in Undeduped
      BY <1>3 DEF Dedup, Shape, Scan, Resting, Scanning
    <2>2. /\ scan'.phase = "dedup" /\ scan'.todo = scan.todo \ {v}
          /\ \A u \in Variants \ {v} : scan'.canonical[u] = scan.canonical[u]
      BY <1>3, <2>1 DEF Dedup
    <2> QED
      BY <2>1, <2>2 DEF Scanning, Undeduped, Registered
  <1>4. CASE PromoteHeads
    <2>1. ASSUME NEW h \in PromotableHeads
          PROVE  head'[h] # NoRow /\ Cardinality(AttestingHead(h)') >= PromoteHeadN
      <3>1. h \in Heads /\ head[h] # NoRow /\ head[h].support >= PromoteHeadN
        BY DEF PromotableHeads
      <3>2. head[h].support <= Cardinality(AttestingHead(h)) /\ head[h].support \in Nat
        BY <3>1, Rows DEF Counted
      <3>3. Cardinality(AttestingHead(h)') = Cardinality(AttestingHead(h))
        BY <1>4 DEF PromoteHeads, AttestingHead
      <3>4. Cardinality(AttestingHead(h)) \in Nat
        BY <3>1, Counts
      <3> QED
        BY <1>4, <3>1, <3>2, <3>3, <3>4 DEF PromoteHeads, Assumed, RegistryAssumption
    <2> QED
      BY <1>4, <2>1 DEF PromoteHeads, Scanning
  <1>5. CASE DedupCommits \/ DedupFails \/ PromoteFails \/ PromoteCommits
    BY <1>5 DEF DedupCommits, DedupFails, PromoteFails, PromoteCommits, Scanning, Resting
  <1> QED
    BY <1>1, <1>2, <1>3, <1>4, <1>5 DEF RegMove, QuietMove, registryVars, Extract, RegisterField, Commit,
       DedupStep

(* Only the commit of a promote scan promotes, and what it promotes recurs.*)
LEMMA PromotedBefore ==
  ASSUME Assumed, Shape, QuietMove
  PROVE  /\ \A v \in Variants : Registered(v)' /\ field'[v].promoted
                                 => Registered(v) /\ field[v].promoted
         /\ \A h \in Heads : head'[h] # NoRow /\ head'[h].promoted
                                 => head[h] # NoRow /\ head[h].promoted
  <1>1. CASE UNCHANGED <<field, head>>
    BY <1>1 DEF Registered
  <1>2. CASE \E t \in Txns : Commit(t)
    BY <1>2, CommitKeeps
  <1>3. CASE DedupCommits
    BY <1>3, Rows DEF DedupCommits, Registered
  <1> QED
    BY <1>1, <1>2, <1>3 DEF QuietMove, registryVars, Extract, RegisterField, DedupStep, Schedule,
       Dedup, DedupFails, PromoteHeads, PromoteFails

LEMMA RecursStep ==
  Assumed /\ RegInv /\ Shape' /\ Grown /\ RegMove => Recurs'
  <1> SUFFICES ASSUME Assumed, RegInv, Shape', Grown, RegMove PROVE Recurs'
    OBVIOUS
  <1> USE DEF RegInv
  <1>0. PromoteHeadN \in Nat /\ PromoteQualifierM \in Nat /\ HeadOf \in [Variants -> Heads]
    BY DEF Assumed, RegistryAssumption
  <1>1. ASSUME NEW h \in Heads, Cardinality(AttestingHead(h)) >= PromoteHeadN
        PROVE  Cardinality(AttestingHead(h)') >= PromoteHeadN
    <2>1. /\ Cardinality(AttestingHead(h)) \in Nat /\ Cardinality(AttestingHead(h)') \in Nat
          /\ Cardinality(AttestingHead(h)) <= Cardinality(AttestingHead(h)')
      BY Counts
    <2> QED
      BY <1>0, <1>1, <2>1
  <1>2. ASSUME NEW v \in Variants,
               Cardinality(attested[v] \cup UNION {attested[w] : w \in Aliases(v)})
                 >= PromoteQualifierM
        PROVE  Cardinality((attested[v] \cup UNION {attested[w] : w \in Aliases(v)})')
                 >= PromoteQualifierM
    <2> DEFINE m == Cardinality(attested[v] \cup UNION {attested[w] : w \in Aliases(v)})
               n == Cardinality((attested[v] \cup UNION {attested[w] : w \in Aliases(v)})')
    <2>1. m \in Nat /\ n \in Nat /\ m <= n
      BY Counts
    <2>2. m >= PromoteQualifierM
      BY <1>2
    <2> HIDE DEF m, n
    <2>3. n >= PromoteQualifierM
      BY <1>0, <2>1, <2>2
    <2> QED
      BY <2>3 DEF n
  <1>3. CASE QuietMove
    <2>1. ASSUME NEW v \in Variants, Registered(v)', field'[v].promoted
          PROVE  /\ Cardinality((attested[v] \cup UNION {attested[w] : w \in Aliases(v)})')
                      >= PromoteQualifierM
                 /\ head'[HeadOf[v]] # NoRow /\ head'[HeadOf[v]].promoted
      <3>1. Registered(v) /\ field[v].promoted
        BY <1>3, <2>1, PromotedBefore
      <3>2. /\ Cardinality(attested[v] \cup UNION {attested[w] : w \in Aliases(v)})
                 >= PromoteQualifierM
            /\ head[HeadOf[v]] # NoRow /\ head[HeadOf[v]].promoted
        BY <3>1 DEF Recurs
      <3> QED
        BY <1>0, <1>2, <3>2 DEF Grown
    <2>2. ASSUME NEW h \in Heads, head'[h] # NoRow, head'[h].promoted
          PROVE  Cardinality(AttestingHead(h)') >= PromoteHeadN
      BY <1>1, <1>3, <2>2, PromotedBefore DEF Recurs
    <2> QED
      BY <2>1, <2>2 DEF Recurs
  <1>4. CASE PromoteCommits
    <2>0. /\ scan.phase = "fields" /\ scan.heads \subseteq Heads
          /\ head' = [h \in Heads |-> IF h \in NewHeads THEN [head[h] EXCEPT !.promoted = TRUE]
                                      ELSE head[h]]
          /\ field' = [v \in Variants |-> IF v \in NewFields
                                    THEN [field[v] EXCEPT !.promoted = TRUE] ELSE field[v]]
      BY <1>4 DEF PromoteCommits, Shape, Scan, Resting
    <2>1. ASSUME NEW h \in Heads, head'[h] # NoRow, head'[h].promoted
          PROVE  Cardinality(AttestingHead(h)') >= PromoteHeadN
      <3>1. CASE h \in NewHeads
        BY <1>1, <2>0, <3>1 DEF NewHeads, Scanning
      <3>2. CASE h \notin NewHeads
        BY <1>1, <2>0, <2>1, <3>2 DEF Recurs
      <3> QED
        BY <3>1, <3>2
    <2>2. ASSUME NEW h \in scan.heads PROVE head'[h] # NoRow /\ head'[h].promoted
      <3>1. h \in Heads /\ head[h] # NoRow
        BY <2>0 DEF Scanning
      <3> QED
        BY <2>0, <3>1, Rows DEF NewHeads, NoRow
    <2>3. ASSUME NEW v \in NewFields
          PROVE  /\ Cardinality(attested[v] \cup UNION {attested[w] : w \in Aliases(v)})
                      >= PromoteQualifierM
                 /\ head'[HeadOf[v]] # NoRow /\ head'[HeadOf[v]].promoted
      <3>1. /\ v \in Variants /\ Registered(v) /\ field[v].canonical \in {None, v}
            /\ HeadOf[v] \in scan.heads \cup {h \in Heads : head[h] # NoRow /\ head[h].promoted}
            /\ Support(v) >= PromoteQualifierM
        BY DEF NewFields, PromotableFields
      <3>2. head'[HeadOf[v]] # NoRow /\ head'[HeadOf[v]].promoted
        BY <1>0, <2>2, <3>1 DEF Grown
      <3> DEFINE all == attested[v] \cup UNION {attested[w] : w \in Aliases(v)}
      <3>3. all \in SUBSET Cases
        BY <3>1 DEF Shape, Aliases
      <3>4. CASE field[v].canonical = None
        <4>1. Support(v) = field[v].support /\ field[v].support \in Nat
              /\ field[v].support <= Cardinality(attested[v])
          BY <3>1, <3>4, Rows DEF Support, Counted
        <4>2. attested[v] \in SUBSET all
          OBVIOUS
        <4> HIDE DEF all
        <4>3. Cardinality(attested[v]) \in Nat /\ Cardinality(all) \in Nat
              /\ Cardinality(attested[v]) <= Cardinality(all)
          BY <3>3, <4>2, Smaller DEF Assumed
        <4>4. Cardinality(all) >= PromoteQualifierM
          BY <1>0, <3>1, <4>1, <4>3
        <4> QED
          BY <3>2, <4>4 DEF all
      <3>5. CASE field[v].canonical # None
        <4> DEFINE pool == UNION {attested[w] : w \in Aliases(v)}
        <4>1. Support(v) = Cardinality(pool)
          BY <3>5 DEF Support, PooledSupport, Pooled
        <4>2. pool \in SUBSET all
          OBVIOUS
        <4> HIDE DEF all, pool
        <4>3. Cardinality(pool) \in Nat /\ Cardinality(all) \in Nat
              /\ Cardinality(pool) <= Cardinality(all)
          BY <3>3, <4>2, Smaller DEF Assumed
        <4>4. Cardinality(all) >= PromoteQualifierM
          BY <1>0, <3>1, <4>1, <4>3
        <4> QED
          BY <3>2, <4>4 DEF all
      <3> QED
        BY <3>4, <3>5
    <2>4. ASSUME NEW v \in Variants, Registered(v)', field'[v].promoted
          PROVE  /\ Cardinality((attested[v] \cup UNION {attested[w] : w \in Aliases(v)})')
                      >= PromoteQualifierM
                 /\ head'[HeadOf[v]] # NoRow /\ head'[HeadOf[v]].promoted
      <3>1. CASE v \in NewFields
        BY <1>2, <2>3, <3>1
      <3>2. CASE v \notin NewFields
        <4>1. Registered(v) /\ field[v].promoted
          BY <2>0, <2>4, <3>2 DEF Registered
        <4>2. /\ Cardinality(attested[v] \cup UNION {attested[w] : w \in Aliases(v)})
                 >= PromoteQualifierM
              /\ head[HeadOf[v]] # NoRow /\ head[HeadOf[v]].promoted
          BY <4>1 DEF Recurs
        <4> QED
          BY <1>0, <1>2, <4>2 DEF Grown
      <3> QED
        BY <3>1, <3>2
    <2> QED
      BY <2>1, <2>4 DEF Recurs
  <1> QED
    BY <1>3, <1>4 DEF RegMove

LEMMA RegistryStep == Assumed /\ RegInv /\ RegMove => RegInv' /\ Grown
  BY ShapeStep, Growing, CountedStep, ScanningStep, RecursStep DEF RegInv

-----------------------------------------------------------------------------
(* A concept that a scan promotes was met in some case.                    *)
LEMMA NewIsAttested ==
  ASSUME Assumed, RegInv, PromoteCommits, NEW k \in NewHeads \cup NewFields,
         \A c \in Cases : Category[c] # None
  PROVE  k \in Concepts /\ AttestedCategories(k) # {}
  <1>0. /\ PromoteHeadN \in Nat \ {0} /\ Variants \cap Heads = {} /\ Concepts = Variants \cup Heads
        /\ IsFiniteSet(Cases)
    BY DEF Assumed, RegistryAssumption, GrowthAssumption
  <1>1. CASE k \in NewHeads
    <2>1. k \in Heads /\ Cardinality(AttestingHead(k)) >= PromoteHeadN
          /\ AttestingHead(k) \in SUBSET Cases
      BY <1>1, Rows DEF RegInv, PromoteCommits, NewHeads, Scanning, Shape, Scan, Resting
    <2>2. AttestingHead(k) # {}
      BY <1>0, <2>1, FS_EmptySet
    <2> QED
      BY <1>0, <2>1, <2>2 DEF AttestedCategories, AttestingCases
  <1>2. CASE k \in NewFields
    <2>1. k \in Variants /\ Registered(k)
      BY <1>2 DEF NewFields, PromotableFields
    <2>2. /\ field[k].support \in Nat \ {0} /\ field[k].support <= Cardinality(attested[k])
          /\ attested[k] \in SUBSET Cases
      BY <2>1, Rows DEF RegInv, Counted, Shape
    <2>3. attested[k] # {}
      BY <2>2, FS_EmptySet
    <2> QED
      BY <1>0, <2>1, <2>2, <2>3 DEF AttestedCategories, AttestingCases
  <1> QED
    BY <1>1, <1>2

LEMMA CategoriesAreKnown ==
  ASSUME Assumed, Shape, NEW k \in Concepts
  PROVE  AttestedCategories(k) \in SUBSET Nat
  <1>1. AttestingCases(k) \in SUBSET Cases
    BY Rows DEF AttestingCases, Shape, Assumed, RegistryAssumption, GrowthAssumption
  <1> QED
    BY <1>1 DEF AttestedCategories, Assumed, GrowthAssumption

LEMMA QueuedStep == Assumed /\ RegInv /\ Queued /\ [Next]_vars => Queued'
  <1> SUFFICES ASSUME Assumed, RegInv, Queued, [Next]_vars PROVE Queued'
    OBVIOUS
  <1>0. Seen = Cases
    BY DEF Assumed, GrowthAssumption
  <1>1. CASE UNCHANGED <<jobs, scope, tried, runner, failed>>
    BY <1>1 DEF Queued
  <1>2. ASSUME NEW k \in Concepts, Take(k) PROVE Queued'
    <2>1. \A cases \in Batches(k) : cases \in SUBSET Cases
      BY <1>0 DEF Batches, Needing, InScope
    <2>2. PICK cases \in SUBSET Cases :
            runner' = [phase |-> "cases", concept |-> k, todo |-> cases,
                       more |-> Cardinality(cases) = BatchSize]
      BY <1>2, <2>1 DEF Take
    <2>3. (Cardinality(cases) = BatchSize) \in BOOLEAN
      OBVIOUS
    <2>4. runner' \in Runner
      BY <2>2, <2>3 DEF Runner
    <2>5. jobs' \in [Concepts -> Nat]
      BY <1>2 DEF Take, Queued
    <2> QED
      BY <1>2, <2>4, <2>5 DEF Take, Queued
  <1>3. runner # Free => runner \in [phase : {"cases", "writing"}, concept : Concepts,
                                     todo : SUBSET Cases, more : BOOLEAN]
    BY DEF Queued, Runner
  <1>4. ASSUME NEW c \in Cases, Pass(c) \/ Absent(c) \/ Find(c) \/ Found(c) PROVE Queued'
    <2>1. runner # Free
      BY <1>4 DEF Pass, Absent, Find, Found, OnCase, Free
    <2>2. runner' \in Runner
      BY <1>3, <1>4, <2>1 DEF Pass, Absent, Find, Found, Without, Runner
    <2>3. tried' \in [Concepts -> SUBSET Cases]
      BY <1>3, <1>4, <2>1 DEF Pass, Absent, Find, Found, Queued
    <2> QED
      BY <1>4, <2>2, <2>3 DEF Pass, Absent, Find, Found, Queued
  <1>5. CASE Requeue \/ Finish \/ JobFails \/ Crash
    <2>1. runner # Free
      BY <1>5 DEF Requeue, Finish, JobFails, Crash, Free
    <2>2. jobs' \in [Concepts -> Nat]
      BY <1>3, <1>5, <2>1 DEF Requeue, More, Finish, JobFails, Crash, Queued
    <2>3. runner' \in Runner
      BY <1>3, <1>5, <2>1 DEF Requeue, Finish, JobFails, Crash, Runner
    <2> QED
      BY <1>3, <1>5, <2>1, <2>2, <2>3 DEF Requeue, Finish, JobFails, Crash, Queued
  <1>6. CASE Promote
    <2>1. /\ jobs' \in [Concepts -> Nat]
          /\ UNCHANGED <<tried, runner, failed>>
      BY <1>6 DEF Promote, Enqueue, Queued
    <2>2. scope' = [k \in Concepts |-> IF k \in NewHeads \cup NewFields
                                       THEN AttestedCategories(k) ELSE scope[k]]
      BY <1>6 DEF Promote, Enqueue
    <2>3. scope' \in [Concepts -> SUBSET Nat]
      BY <2>2, CategoriesAreKnown DEF Queued, RegInv
    <2> QED
      BY <2>1, <2>3 DEF Queued
  <1> QED
    BY <1>1, <1>2, <1>4, <1>5, <1>6, Moves DEF BackMove

LEMMA LastBatchStep == Assumed /\ Queued /\ Queued' /\ LastBatch /\ [Next]_vars => LastBatch'
  <1> SUFFICES ASSUME Assumed, Queued, Queued', LastBatch, [Next]_vars PROVE LastBatch'
    OBVIOUS
  <1>0. runner # Free => runner \in [phase : {"cases", "writing"}, concept : Concepts,
                                     todo : SUBSET Cases, more : BOOLEAN]
    BY DEF Queued, Runner
  <1>1. CASE UNCHANGED <<jobs, scope, tried, runner, failed>>
    BY <1>1 DEF LastBatch, Needing, InScope
  <1>2. ASSUME NEW k \in Concepts, Take(k) PROVE LastBatch'
    <2>1. PICK cases \in Batches(k) :
            runner' = [phase |-> "cases", concept |-> k, todo |-> cases,
                       more |-> Cardinality(cases) = BatchSize]
      BY <1>2 DEF Take
    <2>2. ~runner'.more => cases = Needing(k)
      BY <2>1 DEF Batches
    <2>3. runner'.todo = cases /\ runner'.concept = k
      BY <2>1
    <2>4. Needing(k)' = Needing(k)
      BY <1>2 DEF Take, Needing, InScope
    <2> QED
      BY <2>2, <2>3, <2>4 DEF LastBatch, Needing, InScope
  <1>3. ASSUME NEW c \in Cases, Pass(c) \/ Absent(c) \/ Find(c) \/ Found(c) PROVE LastBatch'
    <2>1. runner # Free
      BY <1>3 DEF Pass, Absent, Find, Found, OnCase, Free
    <2>2. PICK k \in Concepts : k = runner.concept
      BY <1>0, <2>1
    <2>3. /\ runner'.concept = k /\ runner'.more = runner.more
          /\ \/ runner'.todo = runner.todo
             \/ runner'.todo = runner.todo \ {c} /\ (c \notin Readable \/ c \in tried'[k])
          /\ \A d \in tried[k] : d \in tried'[k]
          /\ UNCHANGED <<jobs, scope>>
      <3>1. CASE Find(c)
        BY <1>0, <2>1, <2>2, <3>1 DEF Find
      <3>2. CASE Pass(c)
        BY <1>0, <2>1, <2>2, <3>2 DEF Pass, Without
      <3>3. CASE Absent(c) \/ Found(c)
        <4>1. /\ tried' = [tried EXCEPT ![k] = @ \cup {c}] /\ runner' = Without(c)
              /\ UNCHANGED <<jobs, scope>>
          BY <2>2, <3>3 DEF Absent, Found
        <4>2. c \in tried'[k] /\ \A d \in tried[k] : d \in tried'[k]
          BY <4>1 DEF Queued
        <4> QED
          BY <1>0, <2>1, <2>2, <4>1, <4>2 DEF Without
      <3> QED
        BY <1>3, <3>1, <3>2, <3>3
    <2>4. Needing(k)' \subseteq Needing(k)
      BY <2>3 DEF Needing, InScope
    <2>5. c \in tried'[k] => c \notin Needing(k)'
      BY DEF Needing
    <2>6. ~runner.more => jobs[k] > 0 \/ Needing(k) \cap Readable \subseteq runner.todo
      BY <2>1, <2>2 DEF LastBatch
    <2>7. Needing(runner.concept)' = Needing(k)'
      BY <2>3 DEF Needing, InScope
    <2> HIDE DEF Needing
    <2> QED
      BY <2>3, <2>4, <2>5, <2>6, <2>7 DEF LastBatch
  <1>4. CASE Requeue
    BY <1>0, <1>4 DEF Requeue, More, LastBatch, Queued, Free
  <1>5. CASE Finish \/ JobFails \/ Crash
    BY <1>5 DEF Finish, JobFails, Crash, LastBatch
  <1>6. CASE Promote
    <2>1. runner' = runner
      BY <1>6 DEF Promote, Enqueue
    <2>2. CASE runner # Free /\ runner.concept \in NewHeads \cup NewFields
               /\ AttestedCategories(runner.concept) # {}
      <3>1. jobs'[runner.concept] = jobs[runner.concept] + 1
        BY <1>0, <1>6, <2>2 DEF Promote, Enqueue
      <3>2. jobs[runner.concept] \in Nat
        BY <1>0, <2>2 DEF Queued
      <3> QED
        BY <2>1, <3>1, <3>2 DEF LastBatch
    <2>3. CASE runner # Free /\ runner.concept \in NewHeads \cup NewFields
               /\ AttestedCategories(runner.concept) = {}
      <3>1. scope'[runner.concept] = {}
        BY <1>0, <1>6, <2>3 DEF Promote, Enqueue
      <3>2. Needing(runner.concept)' = {}
        BY <2>1, <3>1 DEF Needing, InScope
      <3> QED
        BY <2>1, <3>2 DEF LastBatch
    <2>4. CASE runner # Free /\ runner.concept \notin NewHeads \cup NewFields
      <3>1. /\ scope'[runner.concept] = scope[runner.concept]
            /\ jobs'[runner.concept] = jobs[runner.concept] /\ tried' = tried
        BY <1>0, <1>6, <2>4 DEF Promote, Enqueue
      <3>2. Needing(runner.concept)' = Needing(runner.concept)
        BY <2>1, <3>1 DEF Needing, InScope
      <3> QED
        BY <2>1, <3>1, <3>2 DEF LastBatch
    <2> QED
      BY <2>1, <2>2, <2>3, <2>4 DEF LastBatch
  <1> QED
    BY <1>1, <1>2, <1>3, <1>4, <1>5, <1>6, Moves DEF BackMove

LEMMA PromisedStep ==
  Assumed /\ RegInv /\ Queued /\ LastBatch /\ Promised /\ [Next]_vars => Promised'
  <1> SUFFICES ASSUME Assumed, RegInv, Queued, LastBatch, Promised, [Next]_vars,
                      \A c \in Cases : Category[c] # None,
                      NEW k \in Concepts, IsPromoted(k)'
               PROVE  /\ scope'[k] # {}
                      /\ \/ Live(k)' \/ k \in failed'
                         \/ (Needing(k) \cap Readable = {})'
    BY DEF Promised
  <1>0. /\ runner # Free => runner \in [phase : {"cases", "writing"}, concept : Concepts,
                                        todo : SUBSET Cases, more : BOOLEAN]
        /\ jobs[k] \in Nat /\ k \in Variants \cup Heads
    BY DEF Queued, Runner, Assumed, GrowthAssumption
  <1>1. CASE Promote
    <2>1. CASE k \in NewHeads \cup NewFields
      <3>1. AttestedCategories(k) # {}
        BY <1>1, <2>1, NewIsAttested DEF Promote
      <3>2. scope'[k] = AttestedCategories(k) /\ jobs'[k] = jobs[k] + 1
        BY <1>1, <2>1, <3>1 DEF Promote, Enqueue
      <3> QED
        BY <1>0, <3>1, <3>2 DEF Live
    <2>2. CASE k \notin NewHeads \cup NewFields
      <3>1. IsPromoted(k)
        BY <1>0, <1>1, <2>2 DEF Promote, PromoteCommits, IsPromoted, Registered
      <3>2. scope[k] # {} /\ (Live(k) \/ k \in failed \/ Needing(k) \cap Readable = {})
        BY <3>1 DEF Promised
      <3>3. /\ scope'[k] = scope[k] /\ jobs'[k] = jobs[k]
            /\ UNCHANGED <<tried, runner, failed>>
        BY <1>1, <2>2 DEF Promote, Enqueue
      <3> QED
        BY <3>2, <3>3 DEF Live, Needing, InScope
    <2> QED
      BY <2>1, <2>2
  <1>2. CASE QuietMove /\ BackMove
    <2>1. IsPromoted(k)
      BY <1>0, <1>2, PromotedBefore DEF RegInv, IsPromoted
    <2>2. scope[k] # {} /\ (Live(k) \/ k \in failed \/ Needing(k) \cap Readable = {})
      BY <2>1 DEF Promised
    <2>3. scope' = scope
      BY <1>2 DEF BackMove, Take, Pass, Absent, Find, Found, Requeue, Finish, JobFails, Crash
    <2>4. CASE k \in failed \/ Needing(k) \cap Readable = {}
      <3>1. \A d \in Cases : d \in tried[k] => d \in tried'[k]
        BY <1>0, <1>2 DEF BackMove, Take, Pass, Absent, Find, Found, Requeue, Finish, JobFails,
           Crash, Queued
      <3>2. k \in failed => k \in failed'
        BY <1>2 DEF BackMove, Take, Pass, Absent, Find, Found, Requeue, Finish, JobFails, Crash
      <3>3. Needing(k)' \subseteq Needing(k)
        BY <2>3, <3>1 DEF Needing, InScope, Assumed, GrowthAssumption
      <3> QED
        BY <2>2, <2>3, <2>4, <3>2, <3>3
    <2>5. CASE jobs[k] > 0
      <3>1. jobs'[k] > 0 \/ (runner' # Free /\ runner'.concept = k)
        <4>1. ASSUME NEW o \in Concepts, Take(o) PROVE <3>1
          BY <1>0, <2>5, <4>1 DEF Take, Free, Queued
        <4>2. CASE Requeue \/ Crash
          BY <1>0, <2>5, <4>2 DEF Requeue, Crash, More, Queued, Free
        <4> QED
          BY <1>2, <2>5, <4>1, <4>2 DEF BackMove, Pass, Absent, Find, Found, Finish, JobFails
      <3> QED
        BY <2>2, <2>3, <3>1 DEF Live
    <2>6. CASE runner # Free /\ runner.concept = k
      <3>1. CASE Finish
        <4>1. ~runner.more /\ runner.todo = {} /\ UNCHANGED <<tried, jobs, failed>>
          BY <3>1 DEF Finish
        <4>2. jobs[k] > 0 \/ Needing(k) \cap Readable = {}
          BY <2>6, <4>1 DEF LastBatch
        <4> QED
          BY <2>2, <2>3, <2>4, <2>5, <4>2
      <3>2. CASE JobFails
        BY <2>2, <2>3, <2>6, <3>2 DEF JobFails
      <3>3. CASE Crash
        <4>1. jobs'[k] = jobs[k] + 1
          BY <2>6, <3>3 DEF Crash, Queued
        <4> QED
          BY <1>0, <2>2, <2>3, <4>1 DEF Live
      <3>4. CASE \E o \in Concepts : Take(o)
        BY <2>6, <3>4 DEF Take
      <3>5. CASE UNCHANGED <<jobs, scope, tried, runner, failed>>
        BY <2>2, <2>6, <3>5 DEF Live
      <3>6. ASSUME \/ \E c \in Cases : Pass(c) \/ Absent(c) \/ Find(c) \/ Found(c)
                   \/ Requeue
            PROVE  runner' # Free /\ runner'.concept = k
        BY <1>0, <2>6, <3>6 DEF Pass, Absent, Find, Found, Requeue, Without, Free
      <3> QED
        BY <1>2, <2>2, <2>3, <3>1, <3>2, <3>3, <3>4, <3>5, <3>6 DEF BackMove, Live
    <2> QED
      BY <2>2, <2>4, <2>5, <2>6 DEF Live
  <1> QED
    BY <1>1, <1>2, Moves

-----------------------------------------------------------------------------
LEMMA GrowthInit == Assumed /\ Init => GrowthInv
  <1> SUFFICES ASSUME Assumed, Init PROVE GrowthInv
    OBVIOUS
  <1>1. Shape
    BY DEF Init, RegistryInit, Shape, FieldRow, HeadRow, Txn, Scan
  <1>2. Counted
    BY DEF Init, RegistryInit, Counted, Backed, Registered
  <1>3. Scanning /\ Recurs
    BY DEF Init, RegistryInit, Scanning, Recurs, Resting, Registered
  <1>4. Queued /\ LastBatch
    BY DEF Init, BackfillInit, Queued, Runner, LastBatch
  <1>5. Promised
    BY DEF Init, RegistryInit, Promised, IsPromoted, Registered, Assumed, GrowthAssumption
  <1> QED
    BY <1>1, <1>2, <1>3, <1>4, <1>5 DEF GrowthInv, RegInv

LEMMA GrowthStep == Assumed /\ GrowthInv /\ [Next]_vars => GrowthInv'
  <1> SUFFICES ASSUME Assumed, GrowthInv, [Next]_vars PROVE GrowthInv'
    OBVIOUS
  <1>1. RegMove
    BY Moves DEF RegMove, Promote
  <1> QED
    BY <1>1, RegistryStep, QueuedStep, LastBatchStep, PromisedStep DEF GrowthInv

THEOREM GrowthInvariant == Spec => []GrowthInv
  <1>0. Assumed
    BY RegistryAssumption, BackfillAssumption, GrowthAssumption DEF Assumed
  <1>1. Init => GrowthInv
    BY <1>0, GrowthInit
  <1>2. GrowthInv /\ [Next]_vars => GrowthInv'
    BY <1>0, GrowthStep
  <1> QED
    BY <1>1, <1>2, PTL DEF Spec

(* What is promoted recurs in distinct cases, and no count overstates it.  *)
THEOREM OnlyRecurrentIsPromoted == Spec => []PromotedRecurs
  <1>1. GrowthInv => PromotedRecurs
    BY DEF GrowthInv, RegInv, Counted, Recurs, PromotedRecurs
  <1> QED
    BY <1>1, GrowthInvariant, PTL

(* A promotion has its backfill, until all that is readable was tried.     *)
THEOREM PromotionIsFollowedUp == Spec => []NoPromotionForgotten
  <1>1. GrowthInv => NoPromotionForgotten
    BY DEF GrowthInv, Promised, Needing, NoPromotionForgotten
  <1> QED
    BY <1>1, GrowthInvariant, PTL

(* No scan folds a variant again.                                          *)
THEOREM FoldedOnceForAll == Spec => FoldedOnce
  <1>0. Assumed
    BY RegistryAssumption, BackfillAssumption, GrowthAssumption DEF Assumed
  <1>1. GrowthInv /\ [Next]_vars =>
          [\A v \in Variants : Registered(v) /\ field[v].canonical # None =>
             field'[v].canonical = field[v].canonical]_vars
    <2> SUFFICES ASSUME GrowthInv, [Next]_vars
                 PROVE  \A v \in Variants : Registered(v) /\ field[v].canonical # None =>
                          field'[v].canonical = field[v].canonical
      OBVIOUS
    <2>1. RegMove
      BY <1>0, Moves DEF RegMove, Promote
    <2> QED
      BY <1>0, <2>1, RegistryStep DEF GrowthInv, Grown
  <1> QED
    BY <1>1, GrowthInvariant, PTL DEF Spec, FoldedOnce
=============================================================================
