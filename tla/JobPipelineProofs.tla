-------------------------- MODULE JobPipelineProofs --------------------------
(***************************************************************************)
(* The ledger makes extraction exactly-once, no work is forgotten, and the *)
(* last text wins, for every number of webhook requests, cases, documents, *)
(* retries and crashes.                                                    *)
(***************************************************************************)
EXTENDS MCJobPipeline, FiniteSetTheorems, TLAPS

(* What the argument needs of the types: who is doing what is a function   *)
(* to records with these fields, and the log is a sequence.                *)
Shape ==
  /\ run = [e \in Executors |-> run[e]]
  /\ \A e \in Executors :
       \/ run[e] = Idle
       \/ run[e] = [phase |-> run[e].phase, stage |-> run[e].stage, of |-> run[e].of,
                    job |-> run[e].job, case |-> run[e].case, text |-> run[e].text]
  /\ \E S : log \in Seq(S)

(* An open extraction holds its key alone, and the key is not done yet;    *)
(* what was extracted is in the ledger; and the log repeats nothing.       *)
KeysHeld ==
  /\ \A e, x \in Executors :
       At(e, "extract", "claimed") /\ At(x, "extract", "claimed")
         /\ run[e].text = run[x].text => e = x
  /\ \A e \in Executors : At(e, "extract", "claimed") => run[e].text \notin extracted
  /\ \A k \in DOMAIN log : log[k].text \in extracted
  /\ ExtractedOnce

Inv == Shape /\ KeysHeld

LEMMA InvInit == Init => Inv
  <1> SUFFICES ASSUME Init PROVE Inv
    OBVIOUS
  <1>1. log \in Seq({})
    BY DEF Init
  <1>2. DOMAIN log = {}
    BY DEF Init
  <1>3. Shape
    BY <1>1 DEF Init, Shape
  <1>4. \A e \in Executors : ~At(e, "extract", "claimed")
    BY DEF Init, At, Idle
  <1> QED
    BY <1>2, <1>3, <1>4 DEF Inv, KeysHeld, ExtractedOnce

(* A step that only moves executors to other phases, or to a fresh start,  *)
(* and claims no text, disturbs nothing.                                   *)
LEMMA Quietly ==
  ASSUME Inv, UNCHANGED <<log, extracted>>, NEW e \in Executors, NEW r,
         run' = [run EXCEPT ![e] = r],
         \/ r = Idle
         \/ r = [phase |-> r.phase, stage |-> r.stage, of |-> r.of,
                 job |-> r.job, case |-> r.case, text |-> r.text],
         r.phase = "claimed" => r.stage # "extract"
  PROVE  Inv'
  <1>1. \A x \in Executors : run'[x] = IF x = e THEN r ELSE run[x]
    BY DEF Inv, Shape
  <1>2. Shape'
    <2>1. run' = [x \in Executors |-> run'[x]]
      BY DEF Inv, Shape
    <2>2. (\E S : log \in Seq(S))'
      BY DEF Inv, Shape
    <2> QED
      BY <1>1, <2>1, <2>2 DEF Inv, Shape, Idle
  <1>3. \A x \in Executors : At(x, "extract", "claimed")'
           => x # e /\ At(x, "extract", "claimed") /\ run'[x] = run[x]
    BY <1>1 DEF At
  <1>4. KeysHeld'
    BY <1>3 DEF Inv, KeysHeld, ExtractedOnce
  <1> QED
    BY <1>2, <1>4 DEF Inv

(* Claiming a text: nobody else holds it and it was not extracted before.  *)
LEMMA ClaimStep ==
  ASSUME Inv, NEW e \in Executors, ExtractClaim(e)
  PROVE  Inv'
  <1>1. UNCHANGED <<log, extracted>>
    BY DEF ExtractClaim, dataVars
  <1>2. /\ At(e, "extract", "read") /\ ~Held(e, "extract")
        /\ run' = [run EXCEPT ![e].phase = IF run[e].text \in extracted THEN "done" ELSE "claimed"]
    BY DEF ExtractClaim, Goto, Known
  <1>3. run[e] # Idle
    BY <1>2 DEF At, Idle
  <1>4. CASE run[e].text \in extracted
    <2> DEFINE r == [run[e] EXCEPT !.phase = "done"]
    <2>1. run' = [run EXCEPT ![e] = r]
      BY <1>2, <1>4
    <2>2. r = [phase |-> r.phase, stage |-> r.stage, of |-> r.of,
               job |-> r.job, case |-> r.case, text |-> r.text]
      BY <1>3 DEF Inv, Shape
    <2>3. r.phase = "done"
      BY <1>3 DEF Inv, Shape
    <2> HIDE DEF r
    <2> QED
      BY <1>1, <2>1, <2>2, <2>3, Quietly
  <1>5. CASE run[e].text \notin extracted
    <2>1. \A x \in Executors : x # e => run'[x] = run[x]
      BY <1>2 DEF Inv, Shape
    <2>2. /\ run'[e] = [run[e] EXCEPT !.phase = "claimed"]
          /\ run'[e].text = run[e].text
      BY <1>2, <1>3, <1>5 DEF Inv, Shape
    <2>3. Shape'
      <3>1. run' = [x \in Executors |-> run'[x]]
        BY <1>2 DEF Inv, Shape
      <3>2. run'[e] = [phase |-> run'[e].phase, stage |-> run'[e].stage, of |-> run'[e].of,
                       job |-> run'[e].job, case |-> run'[e].case, text |-> run'[e].text]
        BY <1>3, <2>2 DEF Inv, Shape
      <3> QED
        BY <1>1, <2>1, <3>1, <3>2 DEF Inv, Shape
    <2>4. \A x \in Executors : x # e /\ At(x, "extract", "claimed")
             => run[x].text # run[e].text
      BY <1>2 DEF Held
    <2>5. \A x \in Executors : x # e => (At(x, "extract", "claimed")' <=> At(x, "extract", "claimed"))
      BY <2>1 DEF At
    <2>6. ASSUME NEW x \in Executors, NEW y \in Executors,
                 At(x, "extract", "claimed")', At(y, "extract", "claimed")',
                 run'[x].text = run'[y].text
          PROVE  x = y
      <3>1. CASE x = e \/ y = e
        BY <2>1, <2>2, <2>4, <2>5, <2>6, <3>1
      <3>2. CASE x # e /\ y # e
        BY <2>1, <2>5, <2>6, <3>2 DEF Inv, KeysHeld
      <3> QED
        BY <3>1, <3>2
    <2>7. \A x \in Executors : At(x, "extract", "claimed")' => run'[x].text \notin extracted
      BY <1>5, <2>1, <2>2, <2>5 DEF Inv, KeysHeld
    <2>8. KeysHeld'
      BY <1>1, <2>6, <2>7 DEF Inv, KeysHeld, ExtractedOnce
    <2> QED
      BY <2>3, <2>8 DEF Inv
  <1> QED
    BY <1>4, <1>5

(* Committing: the text is new to the ledger, so it is new to the log.     *)
LEMMA CommitStep ==
  ASSUME Inv, NEW e \in Executors, ExtractCommit(e)
  PROVE  Inv'
  <1> DEFINE entry == [case |-> run[e].of, text |-> run[e].text]
             r == [run[e] EXCEPT !.phase = "done"]
  <1>1. /\ At(e, "extract", "claimed")
        /\ log' = Append(log, entry) /\ extracted' = extracted \cup {run[e].text}
        /\ run' = [run EXCEPT ![e] = r]
    BY DEF ExtractCommit, Goto
  <1>2. run[e] # Idle
    BY <1>1 DEF At, Idle
  <1>3. PICK S : log \in Seq(S)
    BY DEF Inv, Shape
  <1>4. log \in Seq(S \cup {entry})
    BY <1>3
  <1>5. /\ log' \in Seq(S \cup {entry})
        /\ DOMAIN log' = 1..(Len(log) + 1) /\ DOMAIN log = 1..Len(log) /\ Len(log) \in Nat
        /\ \A k \in DOMAIN log : log'[k] = log[k]
        /\ log'[Len(log) + 1] = entry
    BY <1>1, <1>4
  <1>6. /\ r.phase = "done"
        /\ r = [phase |-> r.phase, stage |-> r.stage, of |-> r.of,
                job |-> r.job, case |-> r.case, text |-> r.text]
    BY <1>2 DEF Inv, Shape
  <1>7. entry.text = run[e].text /\ run[e].text \notin extracted
    BY <1>1 DEF Inv, KeysHeld
  <1> HIDE DEF r, entry
  <1>8. /\ \A x \in Executors : run'[x] = IF x = e THEN r ELSE run[x]
        /\ run' = [x \in Executors |-> run'[x]]
    BY <1>1 DEF Inv, Shape
  <1>9. Shape'
    BY <1>5, <1>6, <1>8 DEF Inv, Shape
  <1>10. \A x \in Executors : At(x, "extract", "claimed")'
           => x # e /\ At(x, "extract", "claimed") /\ run'[x] = run[x]
    BY <1>6, <1>8 DEF At
  <1>11. ExtractedOnce'
    <2>1. \A k \in DOMAIN log : log[k].text # run[e].text
      BY <1>7 DEF Inv, KeysHeld
    <2> QED
      BY <1>5, <1>7, <2>1 DEF Inv, KeysHeld, ExtractedOnce
  <1>12. \A k \in DOMAIN log' : log'[k].text \in extracted'
    BY <1>1, <1>5, <1>7 DEF Inv, KeysHeld
  <1>13. \A x \in Executors : At(x, "extract", "claimed")' => run'[x].text \notin extracted'
    BY <1>1, <1>10 DEF Inv, KeysHeld
  <1>14. KeysHeld'
    BY <1>10, <1>11, <1>12, <1>13 DEF Inv, KeysHeld
  <1> QED
    BY <1>9, <1>14 DEF Inv

(* What reading the text does to the record of an executor.                *)
LEMMA ReadRecord ==
  ASSUME NEW x, NEW q, NEW t,
         x = [phase |-> x.phase, stage |-> x.stage, of |-> x.of,
              job |-> x.job, case |-> x.case, text |-> x.text]
  PROVE  [x EXCEPT !.text = t, !.phase = q]
           = [phase |-> q, stage |-> x.stage, of |-> x.of,
              job |-> x.job, case |-> x.case, text |-> t]
  <1> DEFINE y == [x EXCEPT !.text = t]
  <1>1. y = [phase |-> x.phase, stage |-> x.stage, of |-> x.of,
             job |-> x.job, case |-> x.case, text |-> t]
    OBVIOUS
  <1> HIDE DEF y
  <1>2. [y EXCEPT !.phase = q] = [phase |-> q, stage |-> x.stage, of |-> x.of,
                                  job |-> x.job, case |-> x.case, text |-> t]
    BY <1>1
  <1> QED
    BY <1>2 DEF y

(* Every other step of an executor goes on without claiming a text, and    *)
(* every other step leaves the executors alone.                            *)
LEMMA InvStep == Inv /\ [Next]_vars => Inv'
  <1> SUFFICES ASSUME Inv, [Next]_vars PROVE Inv'
    OBVIOUS
  <1>1. ASSUME UNCHANGED <<run, log, extracted>> PROVE Inv'
    BY <1>1 DEF Inv, Shape, KeysHeld, ExtractedOnce, At
  <1>2. ASSUME NEW e \in Executors, NEW p, p \in {"done", "claimed", "failed"},
               run[e] # Idle, Goto(e, p), UNCHANGED <<log, extracted>>,
               p = "claimed" => run[e].stage = "normalise"
        PROVE  Inv'
    <2> DEFINE r == [run[e] EXCEPT !.phase = p]
    <2>1. run' = [run EXCEPT ![e] = r]
      BY <1>2 DEF Goto
    <2>2. /\ r = [phase |-> r.phase, stage |-> r.stage, of |-> r.of,
                  job |-> r.job, case |-> r.case, text |-> r.text]
          /\ r.phase = p /\ r.stage = run[e].stage
      BY <1>2 DEF Inv, Shape
    <2> HIDE DEF r
    <2> QED
      BY <1>2, <2>1, <2>2, Quietly
  <1>3. ASSUME NEW e \in Executors, run' = [run EXCEPT ![e] = Idle],
               UNCHANGED <<log, extracted>>
        PROVE  Inv'
    <2>1. Idle.phase # "claimed"
      BY DEF Idle
    <2> QED
      BY <1>3, <2>1, Quietly
  <1>4. ASSUME NEW e \in Executors, NEW s, NEW of, NEW j, NEW c,
               run' = [run EXCEPT ![e] = Start(s, of, j, c)], UNCHANGED <<log, extracted>>
        PROVE  Inv'
    <2> DEFINE r == Start(s, of, j, c)
    <2>1. /\ r = [phase |-> r.phase, stage |-> r.stage, of |-> r.of,
                  job |-> r.job, case |-> r.case, text |-> r.text]
          /\ r.phase = "start"
      BY DEF Start
    <2> HIDE DEF r
    <2> QED
      BY <1>4, <2>1, Quietly DEF r
  <1>5. ASSUME NEW c \in Cases, NEW d \in Docs, Deliver(c, d) PROVE Inv'
    BY <1>1, <1>5 DEF Deliver, Ingest
  <1>6. ASSUME NEW c \in Cases, NEW d \in Docs, NEW w \in Webhooks, DeliverInline(w, c, d)
        PROVE  Inv'
    BY <1>4, <1>6 DEF DeliverInline, Ingest, Executors
  <1>7. ASSUME NEW e \in Executors, Stage(e) PROVE Inv'
    <2>1. CASE NormaliseClaim(e)
      <3>1. run[e] # Idle /\ run[e].stage = "normalise" /\ UNCHANGED <<log, extracted>>
        BY <2>1 DEF NormaliseClaim, At, Idle
      <3>2. Goto(e, "done") \/ Goto(e, "claimed")
        BY <2>1 DEF NormaliseClaim
      <3> QED
        BY <1>2, <3>1, <3>2
    <2>2. CASE NormaliseDegraded(e) \/ NormaliseCommit(e)
      <3>1. run[e] # Idle /\ UNCHANGED <<log, extracted>> /\ Goto(e, "done")
        BY <2>2 DEF NormaliseDegraded, NormaliseCommit, At, Idle
      <3> QED
        BY <1>2, <3>1
    <2>3. CASE ExtractRead(e)
      <3> DEFINE p == IF TextOf(run[e].of) = <<>> THEN "done" ELSE "read"
                 r == [run[e] EXCEPT !.text = TextOf(run[e].of), !.phase = p]
      <3>1. run[e] # Idle /\ UNCHANGED <<log, extracted>>
        BY <2>3 DEF ExtractRead, At, Idle, dataVars
      <3>2. run' = [run EXCEPT ![e] = r]
        BY <2>3 DEF ExtractRead
      <3>3. ASSUME NEW q, NEW t
            PROVE  [run[e] EXCEPT !.text = t, !.phase = q]
                     = [phase |-> q, stage |-> run[e].stage, of |-> run[e].of,
                        job |-> run[e].job, case |-> run[e].case, text |-> t]
        <4>1. run[e] = [phase |-> run[e].phase, stage |-> run[e].stage, of |-> run[e].of,
                        job |-> run[e].job, case |-> run[e].case, text |-> run[e].text]
          BY <3>1 DEF Inv, Shape
        <4> QED
          BY <4>1, ReadRecord
      <3>4. p # "claimed"
        OBVIOUS
      <3> HIDE DEF p
      <3>5. /\ r = [phase |-> r.phase, stage |-> r.stage, of |-> r.of,
                    job |-> r.job, case |-> r.case, text |-> r.text]
            /\ r.phase # "claimed"
        BY <3>3, <3>4
      <3> HIDE DEF r
      <3> QED
        BY <3>1, <3>2, <3>5, Quietly
    <2>4. CASE ElicitCommit(e)
      <3>1. run[e] # Idle /\ UNCHANGED <<log, extracted>> /\ Goto(e, "done")
        BY <2>4 DEF ElicitCommit, At, Idle, dataVars
      <3> QED
        BY <1>2, <3>1
    <2> QED
      BY <1>7, <2>1, <2>2, <2>3, <2>4, ClaimStep, CommitStep DEF Stage
  <1>8. ASSUME NEW w \in Webhooks, Continue(w) PROVE Inv'
    <2>1. w \in Executors /\ UNCHANGED <<log, extracted>>
      BY <1>8 DEF Continue, dataVars, Executors
    <2>2. \/ run' = [run EXCEPT ![w] = Idle]
          \/ \E s, c : run' = [run EXCEPT ![w] = Start(s, c, None, c)]
      BY <1>8 DEF Continue
    <2> QED
      BY <1>3, <1>4, <2>1, <2>2
  <1>9. ASSUME NEW e \in Executors, Fail(e) PROVE Inv'
    <2>1. run[e] # Idle /\ UNCHANGED <<log, extracted>>
      BY <1>9 DEF Fail, Idle, dataVars
    <2>2. Goto(e, "failed") \/ run' = [run EXCEPT ![e] = Idle]
      BY <1>9 DEF Fail
    <2> QED
      BY <1>2, <1>3, <2>1, <2>2
  <1>10. ASSUME NEW j \in jobs, Take(j) PROVE Inv'
    BY <1>4, <1>10 DEF Take, dataVars, Executors
  <1>11. CASE Retry \/ Finish \/ Crash
    BY <1>3, <1>11 DEF Retry, Finish, Crash, dataVars, Executors
  <1>12. CASE GiveUp
    <2>1. Worker \in Executors /\ run[Worker] # Idle /\ UNCHANGED <<log, extracted>>
      BY <1>12 DEF GiveUp, dataVars, Executors, Idle
    <2>2. Goto(Worker, "done")
      BY <1>12 DEF GiveUp
    <2> QED
      BY <1>2, <2>1, <2>2
  <1>13. CASE Restart \/ RestartUnreaped
    BY <1>1, <1>13 DEF Restart, RestartUnreaped, dataVars
  <1>14. CASE UNCHANGED vars
    BY <1>1, <1>14 DEF vars, dataVars
  <1>15. Worker \in Executors /\ Webhooks \subseteq Executors
    BY DEF Executors
  <1> QED
    BY <1>5, <1>6, <1>7, <1>8, <1>9, <1>10, <1>11, <1>12, <1>13, <1>14, <1>15
       DEF Next, WorkerStep, Stamp, StampFails, WebhookStep

(* No text is extracted twice, in any run of the pipeline.                 *)
THEOREM NoReplay == Spec => []ExtractedOnce
  <1>1. Inv => ExtractedOnce
    BY DEF Inv, KeysHeld
  <1> QED
    BY <1>1, InvInit, InvStep, PTL DEF Spec

-----------------------------------------------------------------------------
(* No work is forgotten.                                                   *)

(* What a stage may be run on: a stored document, or a case.               *)
Sensible(stage, of) ==
  \/ stage = "normalise" /\ of \in Docs /\ home[of] # None
  \/ stage \in {"extract", "elicit"} /\ of \in Cases

(* The rows: texts are of stored documents, and only those read in part    *)
(* have one without their ledger entry; only elicitation hands a case off. *)
Rows ==
  /\ home \in [Docs -> Cases \cup {None}]
  /\ caseState = [c \in Cases |-> caseState[c]]
  /\ normalised \subseteq content /\ content \subseteq normalised \cup Unreadable
  /\ \A d \in content : d \in Docs /\ home[d] # None
  /\ \A c \in Cases : caseState[c] = "in_review" => c \in elicited

(* The queue: an id is given once.                                         *)
Queue ==
  /\ nextId \in Nat
  /\ \A j \in jobs :
       /\ j = [id |-> j.id, stage |-> j.stage, of |-> j.of, attempts |-> j.attempts,
               status |-> j.status]
       /\ j.id \in Nat /\ j.id < nextId /\ Sensible(j.stage, j.of)
  /\ \A j, k \in jobs : j.id = k.id => j = k

Owed(n, stage, of) == \E j \in jobs : j.id = n /\ j.stage = stage /\ j.of = of

(* What is running is a stage of something that is there, and what the     *)
(* worker runs is the job it took.                                         *)
Running ==
  /\ \A e \in Executors : run[e] # Idle =>
       Sensible(run[e].stage, run[e].of) /\ run[e].case \in Cases
  /\ run[Worker] # Idle =>
       /\ run[Worker].job \in Nat /\ run[Worker].job < nextId
       /\ \A stage, of : Owed(run[Worker].job, stage, of) =>
            stage = run[Worker].stage /\ of = run[Worker].of

GaveUp(stage, of)  == <<stage, of>> \in gaveUp

(* The text a case has now, or may have had before a partial reading, was  *)
(* extracted, or there is none.                                            *)
CaseRead(c) == TextFrom(c, normalised) = <<>> \/ Complete(c) \cap extracted # {}

SeenTo(stage, of) ==
  \/ stage = "normalise" /\ of \in normalised \cup Unreadable
  \/ stage = "extract" /\ CaseRead(of)
  \/ stage = "elicit" /\ of \in elicited

(* Somebody other than the job at hand sees to it, or gave up.             *)
Another(stage, of) ==
  (\E n \in Nat : n # run[Worker].job /\ Owed(n, stage, of)) \/ GaveUp(stage, of)

(* The worker lets go of a job only when its stage was seen to, by it, by  *)
(* a job queued since, or by giving up; and the text it holds is one the   *)
(* case still has, unless a job was queued since.                          *)
WorkerFinds ==
  \A stage \in Stages, of \in Targets :
    run[Worker] # Idle /\ stage = run[Worker].stage /\ of = run[Worker].of =>
      /\ run[Worker].phase = "done" => SeenTo(stage, of) \/ Another(stage, of)
      /\ run[Worker].phase \in {"read", "claimed"} /\ stage = "extract"
           => run[Worker].text \in Complete(of) \/ Another(stage, of)

(* WorkInHand in one sentence.                                             *)
Wanted(stage, of) ==
  Sensible(stage, of) /\ (stage = "elicit" => \E k \in DOMAIN log : log[k].case = of)
Promise ==
  \A stage \in Stages, of \in Targets :
    Wanted(stage, of) => \/ SeenTo(stage, of)
                         \/ \E n \in Nat : Owed(n, stage, of)
                         \/ GaveUp(stage, of)

(* Extractions are of cases.                                               *)
Logged == \A k \in DOMAIN log : log[k].case \in Cases

HandInv == Shape /\ Rows /\ Queue /\ Running /\ WorkerFinds /\ Logged /\ Promise

-----------------------------------------------------------------------------
(* The text joined of some documents depends on their order alone.         *)
LEMMA JoinedAgrees ==
  ASSUME NEW docs, NEW p, NEW q, \A x, y \in docs : <<x, y>> \in p <=> <<x, y>> \in q
  PROVE  Joined(docs, p) = Joined(docs, q)
  <1> DEFINE Place(d, r) == Cardinality({x \in docs : <<x, d>> \in r}) + 1
             Said(k, r) == Reading[CHOOSE d \in docs : Place(d, r) = k]
  <1>1. ASSUME NEW d \in docs PROVE Place(d, p) = Place(d, q)
    <2>1. {x \in docs : <<x, d>> \in p} = {x \in docs : <<x, d>> \in q}
      OBVIOUS
    <2> QED
      BY <2>1
  <1>2. ASSUME NEW k PROVE Said(k, p) = Said(k, q)
    <2>1. \A d \in docs : Place(d, p) = k <=> Place(d, q) = k
      BY <1>1
    <2> HIDE DEF Place
    <2> QED
      BY <2>1
  <1>3. /\ Joined(docs, p) = [k \in 1..Cardinality(docs) |-> Said(k, p)]
        /\ Joined(docs, q) = [k \in 1..Cardinality(docs) |-> Said(k, q)]
    BY DEF Joined
  <1> HIDE DEF Said
  <1> QED
    BY <1>2, <1>3

(* Nothing is joined of no documents, and something of some.               *)
LEMMA JoinedEmpty ==
  ASSUME NEW docs \in SUBSET Docs, NEW p
  PROVE  Joined(docs, p) = <<>> <=> docs = {}
  <1>1. IsFiniteSet(docs)
    BY FS_Subset, PipelineAssumption
  <1>2. Cardinality(docs) \in Nat /\ (Cardinality(docs) = 0 <=> docs = {})
    BY <1>1, FS_CardinalityType, FS_EmptySet
  <1>3. DOMAIN Joined(docs, p) = 1..Cardinality(docs)
    BY DEF Joined
  <1>4. CASE docs = {}
    <2>1. Joined(docs, p) = [k \in 1..0 |-> Reading[CHOOSE d \in docs :
                               Cardinality({x \in docs : <<x, d>> \in p}) + 1 = k]]
      BY <1>2, <1>4 DEF Joined
    <2> QED
      BY <1>4, <2>1
  <1>5. CASE docs # {}
    <2>1. 1 \in DOMAIN Joined(docs, p)
      BY <1>2, <1>3, <1>5
    <2> QED
      BY <1>5, <2>1
  <1> QED
    BY <1>4, <1>5

-----------------------------------------------------------------------------
(* Nothing that was stored, done or given up is taken back.                *)
LEMMA NothingUndone ==
  ASSUME Rows, [Next]_vars
  PROVE  /\ \A d \in Docs : home[d] # None => home'[d] = home[d]
         /\ content \subseteq content' /\ normalised \subseteq normalised'
         /\ extracted \subseteq extracted' /\ elicited \subseteq elicited'
         /\ gaveUp \subseteq gaveUp'
  <1> DEFINE Kept == /\ UNCHANGED home /\ content \subseteq content'
                     /\ normalised \subseteq normalised' /\ extracted \subseteq extracted'
                     /\ elicited \subseteq elicited' /\ gaveUp \subseteq gaveUp'
  <1>1. ASSUME NEW c \in Cases, NEW d \in Docs, Ingest(c, d)
        PROVE  /\ \A x \in Docs : home[x] # None => home'[x] = home[x]
               /\ UNCHANGED <<content, normalised, extracted, elicited, gaveUp>>
    BY <1>1 DEF Ingest, Rows
  <1>2. ASSUME NEW e \in Executors, Stage(e) PROVE Kept
    BY <1>2 DEF Stage, NormaliseClaim, NormaliseDegraded, NormaliseCommit, ExtractRead,
       ExtractClaim, ExtractCommit, ElicitCommit, Save, caseVars, dataVars, envVars
  <1>3. ASSUME NEW e \in Executors, Fail(e) PROVE Kept
    BY <1>3 DEF Fail, caseVars, dataVars
  <1>4. ASSUME NEW w \in Webhooks, Continue(w) PROVE Kept
    BY <1>4 DEF Continue, caseVars, dataVars, envVars
  <1>5. ASSUME NEW j \in jobs, Take(j) PROVE Kept
    BY <1>5 DEF Take, caseVars, dataVars, envVars
  <1>6. CASE Retry \/ GiveUp \/ Finish \/ Crash \/ Restart \/ RestartUnreaped
    <2>1. Kept
      BY <1>6 DEF Retry, GiveUp, Finish, Crash, Restart, RestartUnreaped, caseVars, dataVars, envVars
    <2> QED
      BY <2>1
  <1>7. CASE UNCHANGED vars
    BY <1>7 DEF vars, caseVars, dataVars, envVars
  <1>8. Worker \in Executors /\ Webhooks \subseteq Executors
    BY DEF Executors
  <1> QED
    BY <1>1, <1>2, <1>3, <1>4, <1>5, <1>6, <1>7, <1>8
       DEF Next, WorkerStep, Stamp, StampFails, WebhookStep, Deliver, DeliverInline

LEMMA StaysSensible ==
  ASSUME Rows, [Next]_vars, NEW stage, NEW of, Sensible(stage, of)
  PROVE  Sensible(stage, of)'
  BY NothingUndone DEF Sensible

LEMMA RowsStep == Rows /\ Running /\ [Next]_vars => Rows'
  <1> SUFFICES ASSUME Rows, Running, [Next]_vars PROVE Rows'
    OBVIOUS
  <1>1. ASSUME NEW c \in Cases, NEW d \in Docs, Ingest(c, d) PROVE Rows'
    BY <1>1 DEF Ingest, Rows
  <1>2. ASSUME UNCHANGED <<caseState, elicited, home, content, normalised>> PROVE Rows'
    BY <1>2 DEF Rows
  <1>3. ASSUME NEW e \in Executors, Stage(e) PROVE Rows'
    <2>1. CASE NormaliseClaim(e) \/ ExtractRead(e) \/ ExtractClaim(e) \/ ExtractCommit(e)
      BY <1>2, <2>1 DEF NormaliseClaim, ExtractRead, ExtractClaim, ExtractCommit, caseVars, dataVars
    <2>2. CASE NormaliseDegraded(e) \/ NormaliseCommit(e)
      <3>1. run[e].stage = "normalise" /\ run[e] # Idle
        BY <2>2 DEF NormaliseDegraded, NormaliseCommit, At, Idle
      <3>2. run[e].of \in Docs /\ home[run[e].of] # None
        BY <3>1 DEF Running, Sensible
      <3> QED
        BY <2>2, <3>2 DEF NormaliseDegraded, NormaliseCommit, Save, caseVars, Rows
    <2>3. CASE ElicitCommit(e)
      <3>1. run[e].stage = "elicit" /\ run[e] # Idle
        BY <2>3 DEF ElicitCommit, At, Idle
      <3>2. run[e].of \in Cases
        BY <3>1 DEF Running, Sensible
      <3> QED
        BY <2>3, <3>2 DEF ElicitCommit, caseVars, dataVars, Rows
    <2> QED
      BY <1>3, <2>1, <2>2, <2>3 DEF Stage
  <1>4. CASE Stamp \/ StampFails
    BY <1>4 DEF Stamp, StampFails, GiveUp, dataVars, Rows
  <1>5. CASE Retry \/ Finish \/ Crash \/ Restart \/ RestartUnreaped
    BY <1>2, <1>5 DEF Retry, Finish, Crash, Restart, RestartUnreaped, caseVars, dataVars
  <1>6. ASSUME NEW e \in Executors, Fail(e) PROVE Rows'
    BY <1>2, <1>6 DEF Fail, caseVars, dataVars
  <1>7. ASSUME NEW w \in Webhooks, Continue(w) PROVE Rows'
    BY <1>2, <1>7 DEF Continue, caseVars, dataVars
  <1>8. ASSUME NEW j \in jobs, Take(j) PROVE Rows'
    BY <1>2, <1>8 DEF Take, caseVars, dataVars
  <1>9. CASE UNCHANGED vars
    BY <1>2, <1>9 DEF vars, caseVars, dataVars
  <1>10. Worker \in Executors /\ Webhooks \subseteq Executors
    BY DEF Executors
  <1> QED
    BY <1>1, <1>3, <1>4, <1>5, <1>6, <1>7, <1>8, <1>9, <1>10
       DEF Next, WorkerStep, WebhookStep, Deliver, DeliverInline


-----------------------------------------------------------------------------
(* The queue.                                                              *)

LEMMA Enqueued ==
  ASSUME Queue, NEW stage, NEW of, Enqueue(stage, of), Sensible(stage, of)',
         \A s, o : Sensible(s, o) => Sensible(s, o)'
  PROVE  /\ Queue' /\ nextId' = nextId + 1
         /\ \E n \in Nat : n = nextId /\ Owed(n, stage, of)'
         /\ \A n, s, o : Owed(n, s, o) => Owed(n, s, o)'
         /\ \A n, s, o : Owed(n, s, o)' => Owed(n, s, o) \/ n = nextId
  <1> DEFINE new == [id |-> nextId, stage |-> stage, of |-> of, attempts |-> 0,
                     status |-> "todo"]
  <1>1. jobs' = jobs \cup {new} /\ nextId' = nextId + 1
    BY DEF Enqueue
  <1>2. /\ new.id = nextId /\ new.stage = stage /\ new.of = of
        /\ new = [id |-> new.id, stage |-> new.stage, of |-> new.of,
                  attempts |-> new.attempts, status |-> new.status]
    OBVIOUS
  <1> HIDE DEF new
  <1>3. Queue'
    BY <1>1, <1>2 DEF Queue
  <1>4. new \in jobs' /\ \A j \in jobs : j \in jobs'
    BY <1>1
  <1>5. \E n \in Nat : n = nextId /\ Owed(n, stage, of)'
    BY <1>2, <1>4 DEF Owed, Queue
  <1>6. \A n, s, o : Owed(n, s, o) => Owed(n, s, o)'
    BY <1>4 DEF Owed
  <1>7. \A n, s, o : Owed(n, s, o)' => Owed(n, s, o) \/ n = nextId
    BY <1>1, <1>2 DEF Owed
  <1> QED
    BY <1>1, <1>3, <1>5, <1>6, <1>7

LEMMA Relabelled ==
  ASSUME Queue, NEW j \in jobs, NEW k, UNCHANGED nextId,
         jobs' = (jobs \ {j}) \cup {k}, k.id = j.id, k.stage = j.stage, k.of = j.of,
         k = [id |-> k.id, stage |-> k.stage, of |-> k.of, attempts |-> k.attempts,
              status |-> k.status],
         \A s, o : Sensible(s, o) => Sensible(s, o)'
  PROVE  Queue' /\ \A n, s, o : Owed(n, s, o)' <=> Owed(n, s, o)
  <1>1. Queue'
    BY DEF Queue
  <1>2. \A n, s, o : Owed(n, s, o)' <=> Owed(n, s, o)
    BY DEF Owed
  <1> QED
    BY <1>1, <1>2

(* A job record with another status, and perhaps another count.            *)
LEMMA JobRecord ==
  ASSUME NEW j, NEW s, NEW a,
         j = [id |-> j.id, stage |-> j.stage, of |-> j.of, attempts |-> j.attempts,
              status |-> j.status]
  PROVE  /\ [j EXCEPT !.status = s] =
              [id |-> j.id, stage |-> j.stage, of |-> j.of, attempts |-> j.attempts, status |-> s]
         /\ [j EXCEPT !.status = s, !.attempts = a] =
              [id |-> j.id, stage |-> j.stage, of |-> j.of, attempts |-> a, status |-> s]
  <1> DEFINE y == [j EXCEPT !.status = s]
  <1>1. y = [id |-> j.id, stage |-> j.stage, of |-> j.of, attempts |-> j.attempts, status |-> s]
    OBVIOUS
  <1> HIDE DEF y
  <1>2. [y EXCEPT !.attempts = a] =
          [id |-> j.id, stage |-> j.stage, of |-> j.of, attempts |-> a, status |-> s]
    BY <1>1
  <1> QED
    BY <1>1, <1>2 DEF y

LEMMA Reaped ==
  ASSUME Queue, UNCHANGED nextId, jobs' = Reap, \A s, o : Sensible(s, o) => Sensible(s, o)'
  PROVE  Queue' /\ \A n, s, o : Owed(n, s, o)' <=> Owed(n, s, o)
  <1> DEFINE back(j) == [j EXCEPT !.status = "todo"]
  <1>1. ASSUME NEW j \in jobs
        PROVE  /\ back(j) \in jobs'
               /\ back(j).id = j.id /\ back(j).stage = j.stage /\ back(j).of = j.of
               /\ back(j) = [id |-> back(j).id, stage |-> back(j).stage, of |-> back(j).of,
                             attempts |-> back(j).attempts, status |-> back(j).status]
    <2>1. back(j) = [id |-> j.id, stage |-> j.stage, of |-> j.of, attempts |-> j.attempts,
                     status |-> "todo"]
      BY JobRecord DEF Queue
    <2>2. back(j) \in jobs'
      BY DEF Reap
    <2> HIDE DEF back
    <2> QED
      BY <2>1, <2>2
  <1>2. \A k \in jobs' : \E j \in jobs : k = back(j)
    BY DEF Reap
  <1> HIDE DEF back
  <1>3. Queue'
    BY <1>1, <1>2 DEF Queue
  <1>4. \A n, s, o : Owed(n, s, o)' <=> Owed(n, s, o)
    BY <1>1, <1>2 DEF Owed
  <1> QED
    BY <1>3, <1>4

(* What a step does to the queue.                                          *)
QueueKept == \A n, s, o : Owed(n, s, o) => Owed(n, s, o)'
QueueMoves ==
  /\ nextId' \in Nat /\ nextId <= nextId'
  /\ \A n, s, o : Owed(n, s, o)' => Owed(n, s, o) \/ n = nextId

LEMMA QueueStep ==
  ASSUME Rows, Queue, Running, [Next]_vars
  PROVE  /\ Queue' /\ QueueMoves
         /\ QueueKept \/ (Finish /\ \A n, s, o : Owed(n, s, o) => Owed(n, s, o)' \/ n = run[Worker].job)
  <1> DEFINE Goal == Queue' /\ QueueMoves /\ QueueKept
  <1>1. \A s, o : Sensible(s, o) => Sensible(s, o)'
    BY StaysSensible
  <1>2. ASSUME UNCHANGED queueVars PROVE Goal
    BY <1>1, <1>2 DEF Queue, queueVars, QueueMoves, QueueKept, Owed
  <1>3. ASSUME NEW stage, NEW of, Enqueue(stage, of), Sensible(stage, of)' PROVE Goal
    <2>1. nextId' = nextId + 1 /\ nextId \in Nat
      BY <1>3, <1>1, Enqueued DEF Queue
    <2> QED
      BY <1>1, <1>3, <2>1, Enqueued DEF QueueMoves, QueueKept
  <1>4. ASSUME NEW c \in Cases, NEW d \in Docs, Ingest(c, d) PROVE Goal
    <2>1. Enqueue("normalise", d) /\ home'[d] # None
      BY <1>4, PipelineAssumption DEF Ingest, Rows
    <2>2. Sensible("normalise", d)'
      BY <2>1 DEF Sensible
    <2> QED
      BY <1>3, <2>1, <2>2
  <1>5. ASSUME NEW e \in Executors, Stage(e) PROVE Goal
    <2>1. CASE NormaliseClaim(e) \/ NormaliseDegraded(e) \/ ExtractRead(e) \/ ExtractClaim(e)
               \/ ElicitCommit(e)
      BY <1>2, <2>1 DEF NormaliseClaim, NormaliseDegraded, ExtractRead, ExtractClaim, ElicitCommit
    <2>2. CASE NormaliseCommit(e)
      <3>1. run[e].stage = "normalise" /\ run[e] # Idle
        BY <2>2 DEF NormaliseCommit, At, Idle
      <3>2. home[run[e].of] \in Cases
        BY <3>1 DEF Running, Sensible, Rows
      <3>3. Enqueue("extract", home[run[e].of])
        BY <2>2 DEF NormaliseCommit, Chain
      <3> QED
        BY <1>3, <3>2, <3>3 DEF Sensible
    <2>3. CASE ExtractCommit(e)
      <3>1. run[e].stage = "extract" /\ run[e] # Idle
        BY <2>3 DEF ExtractCommit, At, Idle
      <3>2. run[e].of \in Cases
        BY <3>1 DEF Running, Sensible
      <3>3. Enqueue("elicit", run[e].of)
        BY <2>3 DEF ExtractCommit
      <3> QED
        BY <1>3, <3>2, <3>3 DEF Sensible
    <2> QED
      BY <1>5, <2>1, <2>2, <2>3 DEF Stage
  <1>6. ASSUME NEW j \in jobs, NEW k, UNCHANGED nextId, jobs' = (jobs \ {j}) \cup {k},
               NEW a, NEW s,
               k = [id |-> j.id, stage |-> j.stage, of |-> j.of, attempts |-> a, status |-> s]
        PROVE  Goal
    <2>1. /\ k.id = j.id /\ k.stage = j.stage /\ k.of = j.of
          /\ k = [id |-> k.id, stage |-> k.stage, of |-> k.of, attempts |-> k.attempts,
                  status |-> k.status]
      BY <1>6
    <2>2. Queue' /\ \A n, t, o : Owed(n, t, o)' <=> Owed(n, t, o)
      BY <1>1, <1>6, <2>1, Relabelled
    <2> QED
      BY <1>6, <2>2 DEF QueueMoves, QueueKept, Queue
  <1>7. ASSUME NEW j \in jobs, Take(j) PROVE Goal
    <2> DEFINE k == [j EXCEPT !.status = "doing"]
    <2>1. k = [id |-> j.id, stage |-> j.stage, of |-> j.of, attempts |-> j.attempts, status |-> "doing"]
      BY JobRecord DEF Queue
    <2>2. jobs' = (jobs \ {j}) \cup {k} /\ UNCHANGED nextId
      BY <1>7 DEF Take
    <2> HIDE DEF k, Goal
    <2> QED
      BY <1>6, <2>1, <2>2
  <1>8. ASSUME Retry PROVE Goal
    <2>1. PICK j \in jobs :
            jobs' = (jobs \ {j}) \cup {[j EXCEPT !.status = "todo", !.attempts = j.attempts + 1]}
      BY <1>8 DEF Retry, Taken
    <2>4. ASSUME NEW a
          PROVE  [j EXCEPT !.status = "todo", !.attempts = a] =
                   [id |-> j.id, stage |-> j.stage, of |-> j.of, attempts |-> a,
                    status |-> "todo"]
      <3>1. j = [id |-> j.id, stage |-> j.stage, of |-> j.of, attempts |-> j.attempts,
                 status |-> j.status]
        BY DEF Queue
      <3> QED
        BY <3>1, JobRecord
    <2> DEFINE k == [j EXCEPT !.status = "todo", !.attempts = j.attempts + 1]
    <2>2. k = [id |-> j.id, stage |-> j.stage, of |-> j.of, attempts |-> j.attempts + 1,
               status |-> "todo"]
      BY <2>4
    <2>3. jobs' = (jobs \ {j}) \cup {k} /\ UNCHANGED nextId
      BY <1>8, <2>1 DEF Retry
    <2> HIDE DEF k, Goal
    <2> QED
      BY <1>6, <2>2, <2>3
  <1>9. CASE Finish
    <2>1. jobs' = jobs \ Taken /\ UNCHANGED nextId
      BY <1>9 DEF Finish
    <2>2. Queue'
      BY <1>1, <2>1 DEF Queue
    <2>3. QueueMoves
      BY <2>1 DEF QueueMoves, Queue, Owed
    <2>4. \A n, s, o : Owed(n, s, o) => Owed(n, s, o)' \/ n = run[Worker].job
      BY <2>1 DEF Owed, Taken
    <2> QED
      BY <1>9, <2>2, <2>3, <2>4
  <1>10. ASSUME Restart PROVE Goal
    <2>1. jobs' = Reap /\ UNCHANGED nextId
      BY <1>10 DEF Restart
    <2>2. Queue' /\ \A n, s, o : Owed(n, s, o)' <=> Owed(n, s, o)
      BY <1>1, <2>1, Reaped
    <2> QED
      BY <2>1, <2>2 DEF QueueMoves, QueueKept, Queue
  <1>11. ASSUME NEW e \in Executors, Fail(e) PROVE Goal
    BY <1>2, <1>11 DEF Fail
  <1>12. ASSUME NEW w \in Webhooks, Continue(w) PROVE Goal
    BY <1>2, <1>12 DEF Continue
  <1>13. ASSUME GiveUp \/ Crash \/ RestartUnreaped PROVE Goal
    BY <1>2, <1>13 DEF GiveUp, Crash, RestartUnreaped
  <1>14. ASSUME UNCHANGED vars PROVE Goal
    BY <1>2, <1>14 DEF vars
  <1>15. Worker \in Executors /\ Webhooks \subseteq Executors
    BY DEF Executors
  <1> HIDE DEF Goal
  <1>16. Goal \/ Finish
    BY <1>4, <1>5, <1>7, <1>8, <1>10, <1>11, <1>12, <1>13, <1>14, <1>15
       DEF Next, WorkerStep, Stamp, StampFails, WebhookStep, Deliver, DeliverInline
  <1> QED
    BY <1>9, <1>16 DEF Goal

-----------------------------------------------------------------------------
(* What is running.                                                        *)

(* A step that moves one executor on to something sensible, the worker for *)
(* a job it has or one it took.                                            *)
LEMMA Moved ==
  ASSUME Shape, Rows, Queue, Running, [Next]_vars,
         NEW e \in Executors, NEW r, run' = [run EXCEPT ![e] = r],
         r # Idle => /\ r.case \in Cases
                     /\ \A s, o : s = r.stage /\ o = r.of => Sensible(s, o)',
         e = Worker /\ r # Idle =>
           /\ r.job \in Nat /\ r.job < nextId
           /\ \A s, o : Owed(r.job, s, o) => s = r.stage /\ o = r.of
  PROVE  Running'
  <1>1. \A x \in Executors : run'[x] = IF x = e THEN r ELSE run[x]
    BY DEF Shape
  <1>2. Worker \in Executors
    BY DEF Executors
  <1>3. /\ nextId' \in Nat /\ nextId <= nextId' /\ nextId \in Nat
        /\ \A n, s, o : Owed(n, s, o)' => Owed(n, s, o) \/ n = nextId
    BY QueueStep DEF QueueMoves, Queue
  <1>4. \A s, o : Sensible(s, o) => Sensible(s, o)'
    BY StaysSensible
  <1>5. ASSUME NEW x \in Executors, run'[x] # Idle
        PROVE  Sensible(run[x].stage, run[x].of)' /\ run'[x].case \in Cases
    <2>1. ASSUME NEW s, NEW o, s = run'[x].stage, o = run'[x].of
          PROVE  Sensible(s, o)'
      BY <1>1, <1>4, <1>5, <2>1 DEF Running
    <2>2. run'[x].case \in Cases
      BY <1>1, <1>5 DEF Running
    <2> QED
      BY <2>1, <2>2 DEF Sensible
  <1>6. ASSUME run'[Worker] # Idle
        PROVE  /\ run'[Worker].job \in Nat /\ run'[Worker].job < nextId'
               /\ \A s, o : Owed(run[Worker].job, s, o)' =>
                    s = run'[Worker].stage /\ o = run'[Worker].of
    <2>1. /\ run'[Worker].job \in Nat /\ run'[Worker].job < nextId
          /\ \A s, o : Owed(run'[Worker].job, s, o) =>
               s = run'[Worker].stage /\ o = run'[Worker].of
      BY <1>1, <1>2, <1>6 DEF Running
    <2>2. ASSUME NEW n, NEW s, NEW o, n = run'[Worker].job, Owed(n, s, o)'
          PROVE  s = run'[Worker].stage /\ o = run'[Worker].of
      BY <1>3, <2>1, <2>2
    <2>3. ASSUME NEW s, NEW o, Owed(run[Worker].job, s, o)'
          PROVE  s = run'[Worker].stage /\ o = run'[Worker].of
      BY <2>2, <2>3 DEF Owed
    <2> QED
      BY <1>3, <2>1, <2>3
  <1> QED
    BY <1>5, <1>6 DEF Running

LEMMA RunningStep == Shape /\ Rows /\ Queue /\ Running /\ [Next]_vars => Running'
  <1> SUFFICES ASSUME Shape, Rows, Queue, Running, [Next]_vars PROVE Running'
    OBVIOUS
  <1>1. /\ nextId' \in Nat /\ nextId <= nextId' /\ nextId \in Nat
        /\ \A n, s, o : Owed(n, s, o)' => Owed(n, s, o) \/ n = nextId
    BY QueueStep DEF QueueMoves, Queue
  <1>2. \A s, o : Sensible(s, o) => Sensible(s, o)'
    BY StaysSensible
  <1>3. ASSUME UNCHANGED run PROVE Running'
    <2>1. Worker \in Executors
      BY DEF Executors
    <2>2. run' = [run EXCEPT ![Worker] = run[Worker]]
      BY <1>3 DEF Shape
    <2> QED
      BY <1>2, <2>1, <2>2, Moved DEF Running
  <1>4. ASSUME NEW e \in Executors, run' = [run EXCEPT ![e] = Idle] PROVE Running'
    BY <1>4, Moved
  <1>5. ASSUME NEW e \in Executors, NEW r, run[e] # Idle, run' = [run EXCEPT ![e] = r],
               r.stage = run[e].stage, r.of = run[e].of, r.job = run[e].job, r.case = run[e].case
        PROVE  Running'
    <2>1. run[e].case \in Cases /\ Sensible(run[e].stage, run[e].of)
      BY <1>5 DEF Running
    <2>2. e = Worker => /\ run[e].job \in Nat /\ run[e].job < nextId
                        /\ \A s, o : Owed(run[e].job, s, o) => s = run[e].stage /\ o = run[e].of
      BY <1>5 DEF Running
    <2> QED
      BY <1>2, <1>5, <2>1, <2>2, Moved
  <1>6. ASSUME NEW e \in Executors, NEW p, run[e] # Idle, Goto(e, p) PROVE Running'
    <2> DEFINE r == [run[e] EXCEPT !.phase = p]
    <2>1. run' = [run EXCEPT ![e] = r]
      BY <1>6 DEF Goto
    <2>2. r.stage = run[e].stage /\ r.of = run[e].of /\ r.job = run[e].job /\ r.case = run[e].case
      BY <1>6 DEF Shape
    <2> HIDE DEF r
    <2> QED
      BY <1>5, <1>6, <2>1, <2>2
  <1>7. ASSUME NEW w \in Webhooks, NEW s, NEW o, NEW c \in Cases,
               run' = [run EXCEPT ![w] = Start(s, o, None, c)], Sensible(s, o)'
        PROVE  Running'
    <2> DEFINE r == Start(s, o, None, c)
    <2>1. r.stage = s /\ r.of = o /\ r.case = c
      BY DEF Start
    <2>2. w \in Executors /\ w # Worker
      BY PipelineAssumption DEF Executors, Worker
    <2> HIDE DEF r
    <2>3. run' = [run EXCEPT ![w] = r]
      BY <1>7 DEF r
    <2>4. \A x, y : x = r.stage /\ y = r.of => Sensible(x, y)'
      BY <1>7, <2>1
    <2> QED
      BY <1>7, <2>1, <2>2, <2>3, <2>4, Moved
  <1>8. ASSUME NEW c \in Cases, NEW d \in Docs, NEW w \in Webhooks, DeliverInline(w, c, d)
        PROVE  Running'
    <2>1. home'[d] # None
      BY <1>8, PipelineAssumption DEF DeliverInline, Ingest, Rows
    <2>2. Sensible("normalise", d)'
      BY <2>1 DEF Sensible
    <2> QED
      BY <1>7, <1>8, <2>2 DEF DeliverInline
  <1>9. ASSUME NEW e \in Executors, Stage(e) PROVE Running'
    <2>1. run[e] # Idle
      BY <1>9 DEF Stage, NormaliseClaim, NormaliseDegraded, NormaliseCommit, ExtractRead,
         ExtractClaim, ExtractCommit, ElicitCommit, At, Idle
    <2>2. CASE ExtractRead(e)
      <3>1. PICK t, p : run' = [run EXCEPT ![e].text = t, ![e].phase = p]
        BY <2>2 DEF ExtractRead
      <3> DEFINE r == [run[e] EXCEPT !.text = t, !.phase = p]
      <3>2. run' = [run EXCEPT ![e] = r]
        BY <3>1 DEF Shape
      <3>3. run[e] = [phase |-> run[e].phase, stage |-> run[e].stage, of |-> run[e].of,
                      job |-> run[e].job, case |-> run[e].case, text |-> run[e].text]
        BY <2>1 DEF Shape
      <3>4. r = [phase |-> p, stage |-> run[e].stage, of |-> run[e].of,
                 job |-> run[e].job, case |-> run[e].case, text |-> t]
        BY <3>3, ReadRecord
      <3> HIDE DEF r
      <3>5. r.stage = run[e].stage /\ r.of = run[e].of /\ r.job = run[e].job /\ r.case = run[e].case
        BY <3>4
      <3> QED
        BY <1>5, <2>1, <3>2, <3>5
    <2>3. CASE ~ExtractRead(e)
      <3>1. \E p : Goto(e, p)
        BY <1>9, <2>3 DEF Stage, NormaliseClaim, NormaliseDegraded, NormaliseCommit,
           ExtractClaim, ExtractCommit, ElicitCommit
      <3> QED
        BY <1>6, <2>1, <3>1
    <2> QED
      BY <2>2, <2>3
  <1>10. ASSUME NEW e \in Executors, Fail(e) PROVE Running'
    <2>1. run[e] # Idle
      BY <1>10 DEF Fail, Idle
    <2> QED
      BY <1>4, <1>6, <1>10, <2>1 DEF Fail
  <1>11. ASSUME NEW w \in Webhooks, Continue(w) PROVE Running'
    <2>1. w \in Executors /\ run[w] # Idle
      BY <1>11 DEF Continue, Idle, Executors
    <2>2. run[w].case \in Cases
      BY <2>1 DEF Running
    <2>3. \/ run' = [run EXCEPT ![w] = Idle]
          \/ run' = [run EXCEPT ![w] = Start("extract", run[w].case, None, run[w].case)]
          \/ run' = [run EXCEPT ![w] = Start("elicit", run[w].case, None, run[w].case)]
      BY <1>11 DEF Continue
    <2>4. \A c \in Cases : Sensible("extract", c)' /\ Sensible("elicit", c)'
      BY DEF Sensible
    <2> QED
      BY <1>4, <1>7, <2>1, <2>2, <2>3, <2>4
  <1>12. ASSUME NEW j \in jobs, Take(j) PROVE Running'
    <2> DEFINE c == IF j.stage = "normalise" THEN home[j.of] ELSE j.of
               r == Start(j.stage, j.of, j.id, c)
    <2>1. run' = [run EXCEPT ![Worker] = r]
      BY <1>12 DEF Take
    <2>2. Sensible(j.stage, j.of) /\ j.id \in Nat /\ j.id < nextId
      BY DEF Queue
    <2>3. c \in Cases
      BY <2>2 DEF Sensible, Rows
    <2>4. r.stage = j.stage /\ r.of = j.of /\ r.job = j.id /\ r.case = c
      BY DEF Start
    <2>5. \A s, o : Owed(j.id, s, o) => s = j.stage /\ o = j.of
      BY DEF Owed, Queue
    <2>6. Worker \in Executors
      BY DEF Executors
    <2> HIDE DEF c, r
    <2> QED
      BY <1>2, <2>1, <2>2, <2>3, <2>4, <2>5, <2>6, Moved
  <1>13. ASSUME Retry \/ Finish \/ Crash PROVE Running'
    BY <1>4, <1>13 DEF Retry, Finish, Crash, Executors
  <1>14. ASSUME GiveUp PROVE Running'
    <2>1. Worker \in Executors /\ run[Worker] # Idle
      BY <1>14 DEF GiveUp, Executors, Idle
    <2> QED
      BY <1>6, <1>14, <2>1 DEF GiveUp
  <1>15. ASSUME NEW c \in Cases, NEW d \in Docs, Deliver(c, d) PROVE Running'
    BY <1>3, <1>15 DEF Deliver
  <1>16. ASSUME Restart \/ RestartUnreaped \/ UNCHANGED vars PROVE Running'
    BY <1>3, <1>16 DEF Restart, RestartUnreaped, vars
  <1>17. Worker \in Executors /\ Webhooks \subseteq Executors
    BY DEF Executors
  <1> QED
    BY <1>8, <1>9, <1>10, <1>11, <1>12, <1>13, <1>14, <1>15, <1>16, <1>17
       DEF Next, WorkerStep, Stamp, StampFails, WebhookStep

-----------------------------------------------------------------------------
(* The texts.                                                              *)

(* A text is kept as long as the case's documents and their order are.     *)
LEMMA TextKept ==
  ASSUME NEW c, NEW part, NEW more,
         Telling(c, normalised \cup more)' = Telling(c, normalised \cup part),
         \A x, y \in content : <<x, y>> \in before' <=> <<x, y>> \in before
  PROVE  TextFrom(c, normalised \cup more)' = TextFrom(c, normalised \cup part)
  <1> DEFINE docs == Telling(c, normalised \cup part)
  <1>1. TextFrom(c, normalised \cup more)' = Joined(docs, before')
    BY DEF TextFrom
  <1>2. docs \subseteq content
    BY DEF Telling
  <1> HIDE DEF docs
  <1>3. Joined(docs, before') = Joined(docs, before)
    BY <1>2, JoinedAgrees
  <1> QED
    BY <1>1, <1>3 DEF TextFrom, docs

(* The text of a case is what it could have been before, until a document  *)
(* of it is normalised: then an extraction of the case is queued.          *)
LEMMA TextsGrow ==
  ASSUME Rows, Queue, Running, [Next]_vars, NEW c \in Cases
  PROVE  \/ \E n \in Nat : n = nextId /\ Owed(n, "extract", c)'
         \/ /\ \A t : t \in Complete(c) => t \in Complete(c)'
            /\ TextFrom(c, normalised) = <<>> => TextFrom(c, normalised)' = <<>>
  <1> DEFINE Same(part, more) == Telling(c, normalised \cup more)' = Telling(c, normalised \cup part)
             Order == \A x, y \in content : <<x, y>> \in before' <=> <<x, y>> \in before
             Goal == /\ \A t : t \in Complete(c) => t \in Complete(c)'
                     /\ TextFrom(c, normalised) = <<>> => TextFrom(c, normalised)' = <<>>
  <1>1. ASSUME Order,
               \A part \in SUBSET Unreadable :
                 \E more \in SUBSET Unreadable : Same(part, more) /\ (part = {} => more = {})
        PROVE  Goal
    <2>1. ASSUME NEW part \in SUBSET Unreadable
          PROVE  \E more \in SUBSET Unreadable :
                   /\ TextFrom(c, normalised \cup more)' = TextFrom(c, normalised \cup part)
                   /\ part = {} => more = {}
      BY <1>1, TextKept
    <2>2. ASSUME NEW t, t \in Complete(c) PROVE t \in Complete(c)'
      <3>1. PICK part \in SUBSET Unreadable : t = TextFrom(c, normalised \cup part)
        BY <2>2 DEF Complete
      <3>2. PICK more \in SUBSET Unreadable :
              TextFrom(c, normalised \cup more)' = TextFrom(c, normalised \cup part)
        BY <2>1
      <3> QED
        BY <3>1, <3>2 DEF Complete
    <2>3. TextFrom(c, normalised)' = TextFrom(c, normalised)
      <3>1. PICK more \in SUBSET Unreadable :
              /\ TextFrom(c, normalised \cup more)' = TextFrom(c, normalised \cup {})
              /\ more = {}
        BY <2>1
      <3>2. TextFrom(c, normalised \cup {})' = TextFrom(c, normalised \cup {})
        BY <3>1
      <3>3. normalised \cup {} = normalised /\ normalised' \cup {} = normalised'
        OBVIOUS
      <3> QED
        BY <3>2, <3>3
    <2> QED
      BY <2>2, <2>3
  <1>2. ASSUME Order, \A part : Same(part, part) PROVE Goal
    <2> HIDE DEF Same
    <2> QED
      BY <1>1, <1>2
  <1>3. ASSUME UNCHANGED <<home, before, content, normalised>> PROVE Goal
    <2>1. Order /\ \A part : Same(part, part)
      BY <1>3 DEF Telling
    <2> QED
      BY <1>2, <2>1
  <1>4. ASSUME NEW x \in Cases, NEW d \in Docs, Ingest(x, d) PROVE Goal
    <2>1. /\ UNCHANGED <<before, content, normalised>>
          /\ \A y \in content : home'[y] = home[y]
      BY <1>4 DEF Ingest, Rows
    <2>2. Order /\ \A part : Same(part, part)
      BY <2>1 DEF Telling
    <2> QED
      BY <1>2, <2>2
  <1>5. ASSUME NEW e \in Executors, NormaliseClaim(e) PROVE Goal
    <2>1. UNCHANGED <<home, content, normalised>>
      BY <1>5 DEF NormaliseClaim
    <2>2. UNCHANGED before \/ Begin(run[e].of)
      BY <1>5 DEF NormaliseClaim
    <2>3. Order
      BY <2>2 DEF Begin, Rows
    <2>4. \A part : Same(part, part)
      BY <2>1 DEF Telling
    <2> QED
      BY <1>2, <2>3, <2>4
  <1>6. ASSUME NEW e \in Executors, NormaliseDegraded(e) PROVE Goal
    <2> DEFINE d == run[e].of
    <2>1. /\ UNCHANGED <<home, before, normalised>> /\ content' = content \cup {d}
          /\ d \in Unreadable
      BY <1>6 DEF NormaliseDegraded, Save
    <2>2. CASE d \in content
      BY <1>3, <2>1, <2>2
    <2>3. CASE d \notin content
      <3>1. d \notin normalised
        BY <2>3 DEF Rows
      <3>2. ASSUME NEW part \in SUBSET Unreadable
            PROVE  \E more \in SUBSET Unreadable : Same(part, more) /\ (part = {} => more = {})
        <4>1. PICK more : more = part \ {d}
          OBVIOUS
        <4>2. content' \cap (normalised \cup more) = content \cap (normalised \cup part)
          BY <2>1, <2>3, <3>1, <4>1
        <4>3. Same(part, more)
          BY <2>1, <4>2 DEF Telling
        <4> HIDE DEF Same
        <4> QED
          BY <4>1, <4>3
      <3> HIDE DEF Same
      <3> QED
        BY <1>1, <2>1, <3>2
    <2> QED
      BY <2>2, <2>3
  <1>7. ASSUME NEW e \in Executors, NormaliseCommit(e)
        PROVE  Goal \/ \E n \in Nat : n = nextId /\ Owed(n, "extract", c)'
    <2> DEFINE d == run[e].of
    <2>1. /\ UNCHANGED <<home, before>> /\ content' = content \cup {d}
          /\ normalised' = normalised \cup {d} /\ Enqueue("extract", home[d])
      BY <1>7 DEF NormaliseCommit, Save, Chain
    <2>2. CASE home[d] = c
      <3>1. Sensible("extract", c)'
        BY DEF Sensible
      <3>2. \A s, o : Sensible(s, o) => Sensible(s, o)'
        BY StaysSensible
      <3> QED
        BY <2>1, <2>2, <3>1, <3>2, Enqueued
    <2>3. CASE home[d] # c
      <3>1. Order /\ \A part : Same(part, part)
        BY <2>1, <2>3 DEF Telling
      <3> QED
        BY <1>2, <3>1
    <2> QED
      BY <2>2, <2>3
  <1>8. ASSUME NEW e \in Executors, Stage(e), ~NormaliseCommit(e) PROVE Goal
    <2>1. CASE ExtractRead(e) \/ ExtractClaim(e) \/ ExtractCommit(e) \/ ElicitCommit(e)
      BY <1>3, <2>1 DEF ExtractRead, ExtractClaim, ExtractCommit, ElicitCommit, dataVars
    <2> QED
      BY <1>5, <1>6, <1>8, <2>1 DEF Stage
  <1>9. ASSUME \/ Retry \/ GiveUp \/ Finish \/ Crash \/ Restart \/ RestartUnreaped \/ UNCHANGED vars
               \/ \E e \in Executors : Fail(e)
               \/ \E w \in Webhooks : Continue(w)
               \/ \E j \in jobs : Take(j)
        PROVE  Goal
    BY <1>3, <1>9 DEF Retry, GiveUp, Finish, Crash, Restart, RestartUnreaped, Fail, Continue, Take, vars, dataVars
  <1>10. Worker \in Executors /\ Webhooks \subseteq Executors
    BY DEF Executors
  <1> HIDE DEF Goal
  <1>11. Goal \/ \E n \in Nat : n = nextId /\ Owed(n, "extract", c)'
    BY <1>4, <1>7, <1>8, <1>9, <1>10 DEF Next, WorkerStep, Stamp, StampFails, WebhookStep, Deliver, DeliverInline
  <1> QED
    BY <1>11 DEF Goal

-----------------------------------------------------------------------------
(* What was seen to stays so, or a job is queued for it.                   *)
LEMMA SeenStays ==
  ASSUME Rows, Queue, Running, [Next]_vars, NEW s, NEW o, Sensible(s, o), SeenTo(s, o)
  PROVE  SeenTo(s, o)' \/ \E n \in Nat : n = nextId /\ Owed(n, s, o)'
  <1>1. CASE s = "normalise" \/ s = "elicit"
    BY <1>1, NothingUndone DEF SeenTo
  <1>2. CASE s = "extract"
    <2>1. o \in Cases /\ CaseRead(o)
      BY <1>2 DEF Sensible, SeenTo
    <2>2. CASE \E n \in Nat : n = nextId /\ Owed(n, "extract", o)'
      BY <1>2, <2>2
    <2>3. CASE ~\E n \in Nat : n = nextId /\ Owed(n, "extract", o)'
      <3>1. /\ \A t : t \in Complete(o) => t \in Complete(o)'
            /\ TextFrom(o, normalised) = <<>> => TextFrom(o, normalised)' = <<>>
        BY <2>1, <2>3, TextsGrow
      <3>2. extracted \subseteq extracted'
        BY NothingUndone
      <3>3. CaseRead(o)'
        BY <2>1, <3>1, <3>2 DEF CaseRead
      <3> QED
        BY <1>2, <3>3 DEF SeenTo
    <2> QED
      BY <2>2, <2>3
  <1> QED
    BY <1>1, <1>2 DEF Sensible

LEMMA FindsAfter ==
  ASSUME NEW s, NEW o, s = run'[Worker].stage, o = run'[Worker].of,
         run'[Worker].phase = "done" => SeenTo(s, o)' \/ Another(s, o)',
         run'[Worker].phase \in {"read", "claimed"} /\ s = "extract"
           => run'[Worker].text \in Complete(o)' \/ Another(s, o)'
  PROVE  WorkerFinds'
  BY DEF WorkerFinds

LEMMA AnotherStays ==
  ASSUME Rows, Queue, Running, [Next]_vars, NEW s, NEW o, Another(s, o), QueueKept,
         run'[Worker].job = run[Worker].job
  PROVE  Another(s, o)'
  <1>1. CASE GaveUp(s, o)
    BY <1>1, NothingUndone DEF Another, GaveUp
  <1>2. CASE \E n \in Nat : n # run[Worker].job /\ Owed(n, s, o)
    BY <1>2 DEF Another, QueueKept
  <1> QED
    BY <1>1, <1>2 DEF Another

(* A step that leaves the worker where it is, at most its phase.           *)
LEMMA FindsStill ==
  ASSUME Rows, Queue, Running, WorkerFinds, [Next]_vars, QueueKept, run[Worker] # Idle,
         run'[Worker].phase = run[Worker].phase,
         run'[Worker].stage = run[Worker].stage, run'[Worker].of = run[Worker].of,
         run'[Worker].job = run[Worker].job, run'[Worker].text = run[Worker].text
  PROVE  WorkerFinds'
  <1>1. PICK s, o : s = run[Worker].stage /\ o = run[Worker].of
    OBVIOUS
  <1>2. Sensible(s, o) /\ run[Worker].job < nextId /\ run[Worker].job \in Nat /\ nextId \in Nat
    BY <1>1 DEF Running, Executors, Queue
  <1>3. (\E n \in Nat : n = nextId /\ Owed(n, s, o)') => Another(s, o)'
    BY <1>2 DEF Another
  <1>4. Another(s, o) => Another(s, o)'
    BY AnotherStays
  <1>5. SeenTo(s, o) => SeenTo(s, o)' \/ Another(s, o)'
    BY <1>2, <1>3, SeenStays
  <1>6. s = "extract" => \A t : t \in Complete(o) => t \in Complete(o)' \/ Another(s, o)'
    <2>1. s = "extract" => o \in Cases
      BY <1>2 DEF Sensible
    <2> QED
      BY <1>3, <2>1, TextsGrow
  <1> s \in Stages /\ o \in Targets
    BY <1>2 DEF Sensible, Stages, Targets
  <1>7. run[Worker].phase = "done" => SeenTo(s, o) \/ Another(s, o)
    BY <1>1 DEF WorkerFinds
  <1>8. run[Worker].phase \in {"read", "claimed"} /\ s = "extract"
          => run[Worker].text \in Complete(o) \/ Another(s, o)
    BY <1>1 DEF WorkerFinds
  <1> QED
    BY <1>1, <1>4, <1>5, <1>6, <1>7, <1>8, FindsAfter

LEMMA GoneTo ==
  ASSUME Shape, NEW e \in Executors, NEW p, run[e] # Idle, Goto(e, p)
  PROVE  /\ run'[e].phase = p /\ run'[e].stage = run[e].stage /\ run'[e].of = run[e].of
         /\ run'[e].job = run[e].job /\ run'[e].text = run[e].text
         /\ \A x \in Executors : x # e => run'[x] = run[x]
  <1>1. \A x \in Executors : run'[x] = IF x = e THEN [run[e] EXCEPT !.phase = p] ELSE run[x]
    BY DEF Goto, Shape
  <1>2. run[e] = [phase |-> run[e].phase, stage |-> run[e].stage, of |-> run[e].of,
                  job |-> run[e].job, case |-> run[e].case, text |-> run[e].text]
    BY DEF Shape
  <1> QED
    BY <1>1, <1>2

(* A stage of the worker: it ends when it was seen to, or goes on with a   *)
(* text the case has.                                                      *)
LEMMA FindsOwn ==
  ASSUME Shape, Rows, Queue, Running, WorkerFinds, [Next]_vars, Stage(Worker)
  PROVE  WorkerFinds'
  <1>1. Worker \in Executors
    BY DEF Executors
  <1>2. run[Worker] # Idle
    BY DEF Stage, NormaliseClaim, NormaliseDegraded, NormaliseCommit, ExtractRead,
       ExtractClaim, ExtractCommit, ElicitCommit, At, Idle
  <1>3. PICK s, o : s = run[Worker].stage /\ o = run[Worker].of
    OBVIOUS
  <1>4. Sensible(s, o) /\ s \in Stages /\ o \in Targets
    BY <1>1, <1>2, <1>3 DEF Running, Sensible, Stages, Targets
  <1>5. QueueKept
    <2>1. ~Finish
      BY DEF Stage, NormaliseClaim, NormaliseDegraded, NormaliseCommit, ExtractRead,
         ExtractClaim, ExtractCommit, ElicitCommit, At, Finish
    <2> QED
      BY <2>1, QueueStep
  <1>6. Another(s, o) /\ run'[Worker].job = run[Worker].job => Another(s, o)'
    BY <1>5, AnotherStays
  <1>7. ASSUME Goto(Worker, "done"), SeenTo(s, o)' \/ Another(s, o)
        PROVE  WorkerFinds'
    BY <1>1, <1>2, <1>3, <1>6, <1>7, GoneTo, FindsAfter
  <1>8. CASE NormaliseClaim(Worker)
    <2>1. s = "normalise" /\ UNCHANGED normalised
      BY <1>3, <1>8 DEF NormaliseClaim, At
    <2>2. CASE o \in normalised
      <3>1. Goto(Worker, "done") /\ SeenTo(s, o)'
        BY <1>3, <1>8, <2>1, <2>2 DEF NormaliseClaim, SeenTo
      <3> QED
        BY <1>7, <3>1
    <2>3. CASE o \notin normalised
      <3>1. Goto(Worker, "claimed")
        BY <1>3, <1>8, <2>3 DEF NormaliseClaim
      <3>2. run'[Worker].phase = "claimed" /\ run'[Worker].stage = s /\ run'[Worker].of = o
        BY <1>1, <1>2, <1>3, <3>1, GoneTo
      <3>3. s # "extract" /\ run'[Worker].phase # "done"
        BY <2>1, <3>2
      <3> QED
        BY <3>2, <3>3, FindsAfter
    <2> QED
      BY <2>2, <2>3
  <1>9. CASE NormaliseDegraded(Worker) \/ NormaliseCommit(Worker)
    <2>1. s = "normalise" /\ o \in (normalised' \cup Unreadable) /\ Goto(Worker, "done")
      BY <1>3, <1>9 DEF NormaliseDegraded, NormaliseCommit, At
    <2> QED
      BY <1>7, <2>1 DEF SeenTo
  <1>10. CASE ExtractRead(Worker)
    <2>1. /\ s = "extract" /\ o \in Cases
          /\ UNCHANGED <<home, before, content, normalised, extracted>>
      BY <1>3, <1>4, <1>10 DEF ExtractRead, At, Sensible, dataVars
    <2> DEFINE text == TextOf(o)
               p    == IF text = <<>> THEN "done" ELSE "read"
    <2>2. PICK t, q : t = text /\ q = p
      OBVIOUS
    <2>3. run'[Worker] = [run[Worker] EXCEPT !.text = t, !.phase = q]
      BY <1>1, <1>3, <1>10, <2>2 DEF ExtractRead, Shape
    <2>4. run'[Worker] = [phase |-> q, stage |-> run[Worker].stage, of |-> run[Worker].of,
                          job |-> run[Worker].job, case |-> run[Worker].case, text |-> t]
      <3>1. run[Worker] = [phase |-> run[Worker].phase, stage |-> run[Worker].stage,
                           of |-> run[Worker].of, job |-> run[Worker].job,
                           case |-> run[Worker].case, text |-> run[Worker].text]
        BY <1>1, <1>2 DEF Shape
      <3> QED
        BY <2>3, <3>1, ReadRecord
    <2>5. text \in Complete(o) /\ text \in Complete(o)'
      <3>1. Telling(o, Docs) = Telling(o, normalised \cup Unreadable)
        BY DEF Telling, Rows
      <3>2. text \in Complete(o)
        BY <3>1 DEF TextOf, TextFrom, Complete
      <3>3. Complete(o)' = Complete(o)
        BY <2>1 DEF Complete, TextFrom, Telling
      <3> QED
        BY <3>2, <3>3
    <2>6. text = <<>> => SeenTo(s, o)'
      <3>1. Telling(o, normalised) \subseteq Telling(o, Docs)
        BY DEF Telling, Rows
      <3>2. /\ Telling(o, normalised) \in SUBSET Docs
            /\ Telling(o, Docs) \in SUBSET Docs
        BY DEF Telling, Rows
      <3>3. text = <<>> => TextFrom(o, normalised) = <<>>
        BY <3>1, <3>2, JoinedEmpty DEF TextOf, TextFrom
      <3>4. TextFrom(o, normalised)' = TextFrom(o, normalised)
        BY <2>1 DEF TextFrom, Telling
      <3> QED
        BY <2>1, <3>3, <3>4 DEF SeenTo, CaseRead
    <2>7. /\ run'[Worker].stage = s /\ run'[Worker].of = o /\ run'[Worker].text = t
          /\ run'[Worker].phase = q
      BY <1>3, <2>4
    <2>8. q = "done" => SeenTo(s, o)'
      BY <2>2, <2>6
    <2>9. t \in Complete(o)'
      BY <2>2, <2>5
    <2> QED
      BY <2>7, <2>8, <2>9, FindsAfter
  <1>11. CASE ExtractClaim(Worker)
    <2>1. /\ s = "extract" /\ o \in Cases /\ run[Worker].phase = "read"
          /\ UNCHANGED <<home, before, content, normalised, extracted>>
      BY <1>3, <1>4, <1>11 DEF ExtractClaim, At, Sensible, dataVars
    <2>2. run[Worker].text \in Complete(o) \/ Another(s, o)
      BY <1>2, <1>3, <1>4, <2>1 DEF WorkerFinds
    <2>3. Complete(o)' = Complete(o)
      BY <2>1 DEF Complete, TextFrom, Telling
    <2>4. CASE run[Worker].text \in extracted
      <3>1. Goto(Worker, "done")
        BY <1>11, <2>4 DEF ExtractClaim, Known
      <3>2. run[Worker].text \in Complete(o) => SeenTo(s, o)'
        BY <2>1, <2>3, <2>4 DEF SeenTo, CaseRead
      <3> QED
        BY <1>7, <2>2, <3>1, <3>2
    <2>5. CASE run[Worker].text \notin extracted
      <3>1. Goto(Worker, "claimed")
        BY <1>11, <2>5 DEF ExtractClaim, Known
      <3> QED
        BY <1>1, <1>2, <1>3, <1>6, <2>2, <2>3, <3>1, GoneTo, FindsAfter
    <2> QED
      BY <2>4, <2>5
  <1>12. CASE ExtractCommit(Worker)
    <2>1. /\ s = "extract" /\ o \in Cases /\ run[Worker].phase = "claimed"
          /\ UNCHANGED <<home, before, content, normalised>>
          /\ extracted' = extracted \cup {run[Worker].text} /\ Goto(Worker, "done")
      BY <1>3, <1>4, <1>12 DEF ExtractCommit, At, Sensible
    <2>2. run[Worker].text \in Complete(o) \/ Another(s, o)
      BY <1>2, <1>3, <1>4, <2>1 DEF WorkerFinds
    <2>3. Complete(o)' = Complete(o)
      BY <2>1 DEF Complete, TextFrom, Telling
    <2>4. run[Worker].text \in Complete(o) => SeenTo(s, o)'
      BY <2>1, <2>3 DEF SeenTo, CaseRead
    <2> QED
      BY <1>7, <2>1, <2>2, <2>4
  <1>13. CASE ElicitCommit(Worker)
    <2>1. s = "elicit" /\ o \in Cases /\ Goto(Worker, "done")
      BY <1>3, <1>4, <1>13 DEF ElicitCommit, At, Sensible
    <2>2. o \in elicited'
      BY <1>3, <1>13, <2>1 DEF ElicitCommit, Rows, caseVars
    <2> QED
      BY <1>7, <2>1, <2>2 DEF SeenTo
  <1> QED
    BY <1>8, <1>9, <1>10, <1>11, <1>12, <1>13 DEF Stage

LEMMA FindsStep ==
  ASSUME Shape, Rows, Queue, Running, WorkerFinds, [Next]_vars
  PROVE  WorkerFinds'
  <1>1. Worker \in Executors /\ Webhooks \subseteq Executors /\ Worker \notin Webhooks
    BY PipelineAssumption DEF Executors, Worker
  <1>2. ASSUME run'[Worker] = run[Worker] PROVE WorkerFinds'
    <2>1. CASE run[Worker] = Idle
      BY <1>2, <2>1 DEF WorkerFinds
    <2>2. CASE run[Worker] # Idle
      <3>1. ~Finish
        BY <1>1, <1>2, <2>2 DEF Finish, Shape
      <3> QED
        BY <1>2, <2>2, <3>1, QueueStep, FindsStill
    <2> QED
      BY <2>1, <2>2
  <1>3. ASSUME run'[Worker] = Idle \/ run'[Worker].phase \in {"start", "failed"} PROVE WorkerFinds'
    BY <1>3 DEF WorkerFinds
  <1>4. ASSUME NEW e \in Executors, e # Worker, NEW r, run' = [run EXCEPT ![e] = r]
        PROVE  WorkerFinds'
    BY <1>1, <1>2, <1>4 DEF Shape
  <1>5. ASSUME NEW c \in Cases, NEW d \in Docs, Deliver(c, d) PROVE WorkerFinds'
    BY <1>2, <1>5 DEF Deliver
  <1>6. ASSUME NEW c \in Cases, NEW d \in Docs, NEW w \in Webhooks, DeliverInline(w, c, d)
        PROVE  WorkerFinds'
    BY <1>1, <1>4, <1>6 DEF DeliverInline
  <1>7. ASSUME NEW w \in Webhooks, WebhookStep(w) PROVE WorkerFinds'
    <2>1. CASE Continue(w)
      BY <1>1, <1>4, <2>1 DEF Continue
    <2>2. CASE ExtractRead(w)
      <3>1. run'[Worker] = run[Worker]
        BY <1>1, <2>2 DEF ExtractRead, Shape
      <3> QED
        BY <1>2, <3>1
    <2>3. CASE Stage(w) /\ ~ExtractRead(w)
      <3>1. \E p : Goto(w, p)
        BY <2>3 DEF Stage, NormaliseClaim, NormaliseDegraded, NormaliseCommit,
           ExtractClaim, ExtractCommit, ElicitCommit
      <3>2. run'[Worker] = run[Worker]
        BY <1>1, <3>1 DEF Goto, Shape
      <3> QED
        BY <1>2, <3>2
    <2> QED
      BY <1>7, <2>1, <2>2, <2>3 DEF WebhookStep
  <1>8. ASSUME NEW e \in Executors, Fail(e) PROVE WorkerFinds'
    <2>1. CASE e = Worker
      <3>1. Goto(Worker, "failed") /\ run[Worker] # Idle
        BY <1>8, <2>1 DEF Fail, Idle
      <3> QED
        BY <1>1, <1>3, <3>1, GoneTo
    <2>2. CASE e # Worker
      BY <1>4, <1>8, <2>2 DEF Fail
    <2> QED
      BY <2>1, <2>2
  <1>9. ASSUME NEW j \in jobs, Take(j) PROVE WorkerFinds'
    <2>1. \E c : run'[Worker] = Start(j.stage, j.of, j.id, c)
      BY <1>1, <1>9 DEF Take, Shape
    <2> QED
      BY <1>3, <2>1 DEF Start
  <1>10. ASSUME Retry \/ Finish \/ Crash PROVE WorkerFinds'
    <2>1. run'[Worker] = Idle
      BY <1>1, <1>10 DEF Retry, Finish, Crash, Shape
    <2> QED
      BY <1>3, <2>1
  <1>11. ASSUME GiveUp PROVE WorkerFinds'
    <2>1. run[Worker] # Idle /\ Goto(Worker, "done")
      BY <1>11 DEF GiveUp, Idle
    <2>2. PICK s, o : s = run[Worker].stage /\ o = run[Worker].of
      OBVIOUS
    <2>3. PICK j \in jobs : j.id = run[Worker].job /\ gaveUp' = gaveUp \cup {<<j.stage, j.of>>}
      BY <1>11 DEF GiveUp, Taken
    <2>4. j.stage = s /\ j.of = o
      BY <2>1, <2>2, <2>3 DEF Running, Owed
    <2>5. Another(s, o)'
      BY <2>3, <2>4 DEF Another, GaveUp
    <2>6. run'[Worker].phase = "done" /\ run'[Worker].stage = s /\ run'[Worker].of = o
      BY <1>1, <2>1, <2>2, GoneTo
    <2> QED
      BY <2>5, <2>6, FindsAfter
  <1>12. ASSUME Restart \/ RestartUnreaped \/ UNCHANGED vars PROVE WorkerFinds'
    BY <1>2, <1>12 DEF Restart, RestartUnreaped, vars
  <1> QED
    BY <1>5, <1>6, <1>7, <1>8, <1>9, <1>10, <1>11, <1>12, FindsOwn DEF Next, WorkerStep, Stamp, StampFails

-----------------------------------------------------------------------------
(* The promise.                                                            *)

(* Only intake stores a document, and only an extraction's commit logs.    *)
LEMMA WhoMoves ==
  ASSUME [Next]_vars
  PROVE  /\ home' # home => \E c \in Cases, d \in Docs : Ingest(c, d)
         /\ log' # log => \E e \in Executors : ExtractCommit(e)
  <1>1. ASSUME NEW c \in Cases, NEW d \in Docs, Ingest(c, d) PROVE UNCHANGED log
    BY <1>1 DEF Ingest
  <1>2. ASSUME NEW e \in Executors, Stage(e), ~ExtractCommit(e)
        PROVE  UNCHANGED <<home, log>>
    BY <1>2 DEF Stage, NormaliseClaim, NormaliseDegraded, NormaliseCommit, ExtractRead,
       ExtractClaim, ElicitCommit, dataVars
  <1>3. ASSUME NEW e \in Executors, ExtractCommit(e) PROVE UNCHANGED home
    BY <1>3 DEF ExtractCommit
  <1>4. ASSUME \/ Retry \/ GiveUp \/ Finish \/ Crash \/ Restart \/ RestartUnreaped \/ UNCHANGED vars
               \/ \E e \in Executors : Fail(e)
               \/ \E w \in Webhooks : Continue(w)
               \/ \E j \in jobs : Take(j)
        PROVE  UNCHANGED <<home, log>>
    BY <1>4 DEF Retry, GiveUp, Finish, Crash, Restart, RestartUnreaped, Fail, Continue, Take, vars, dataVars
  <1>5. Worker \in Executors /\ Webhooks \subseteq Executors
    BY DEF Executors
  <1> QED
    BY <1>1, <1>2, <1>3, <1>4, <1>5 DEF Next, WorkerStep, Stamp, StampFails, WebhookStep, Deliver, DeliverInline

(* A job is let go of only when its stage needs it no more.                *)
LEMMA PromiseStep ==
  ASSUME Shape, Rows, Queue, Running, WorkerFinds, Promise, [Next]_vars
  PROVE  Promise'
  <1> SUFFICES ASSUME NEW s \in Stages, NEW o \in Targets, Wanted(s, o)'
               PROVE  SeenTo(s, o)' \/ (\E n \in Nat : Owed(n, s, o)') \/ GaveUp(s, o)'
    BY DEF Promise
  <1>1. \A t, x : Sensible(t, x) => Sensible(t, x)'
    BY StaysSensible
  <1>2. ASSUME NEW t, NEW x, Enqueue(t, x), Sensible(t, x)', s = t, o = x
        PROVE  \E n \in Nat : Owed(n, s, o)'
    BY <1>1, <1>2, Enqueued
  <1>3. CASE Wanted(s, o)
    <2>1. Sensible(s, o) /\ (SeenTo(s, o) \/ (\E n \in Nat : Owed(n, s, o)) \/ GaveUp(s, o))
      BY <1>3 DEF Promise, Wanted
    <2>2. CASE SeenTo(s, o)
      BY <2>1, <2>2, SeenStays
    <2>3. CASE GaveUp(s, o)
      BY <2>3, NothingUndone DEF GaveUp
    <2>4. CASE QueueKept /\ \E n \in Nat : Owed(n, s, o)
      BY <2>4 DEF QueueKept
    <2>5. ASSUME Finish, NEW n \in Nat, Owed(n, s, o),
                 \A m, t, x : Owed(m, t, x) => Owed(m, t, x)' \/ m = run[Worker].job
          PROVE  SeenTo(s, o)' \/ (\E m \in Nat : Owed(m, s, o)') \/ GaveUp(s, o)'
      <3>1. CASE n # run[Worker].job
        BY <2>5, <3>1
      <3>2. CASE n = run[Worker].job
        <4>1. run[Worker] # Idle /\ run[Worker].phase = "done"
          BY <2>5 DEF Finish, Idle
        <4>2. s = run[Worker].stage /\ o = run[Worker].of
          BY <2>5, <3>2, <4>1 DEF Running
        <4>3. SeenTo(s, o) \/ Another(s, o)
          BY <4>1, <4>2 DEF WorkerFinds
        <4>4. CASE SeenTo(s, o)
          BY <2>1, <4>4, SeenStays
        <4>5. CASE GaveUp(s, o)
          BY <4>5, NothingUndone DEF GaveUp
        <4>6. ASSUME NEW m \in Nat, m # run[Worker].job, Owed(m, s, o)
              PROVE  Owed(m, s, o)'
          BY <2>5, <4>6
        <4> QED
          BY <4>3, <4>4, <4>5, <4>6 DEF Another
      <3> QED
        BY <3>1, <3>2
    <2> QED
      BY <2>1, <2>2, <2>3, <2>4, <2>5, QueueStep
  <1>4. CASE ~Wanted(s, o)
    <2>1. CASE s = "normalise" \/ s = "extract"
      <3>1. Sensible(s, o)' /\ ~Sensible(s, o)
        BY <1>4, <2>1 DEF Wanted
      <3>2. s = "normalise" /\ o \in Docs /\ home[o] = None /\ home'[o] # None
        BY <2>1, <3>1 DEF Sensible
      <3>3. PICK c \in Cases, d \in Docs : Ingest(c, d)
        <4>1. home' # home
          BY <3>2
        <4> QED
          BY <4>1, WhoMoves
      <3>4. d = o /\ Enqueue("normalise", d)
        BY <3>2, <3>3 DEF Ingest, Rows
      <3> QED
        BY <1>2, <3>1, <3>2, <3>4
    <2>2. CASE s = "elicit"
      <3>1. Sensible(s, o)' /\ Sensible(s, o)
        BY <2>2 DEF Wanted, Sensible
      <3>2. /\ \E k \in DOMAIN log' : log'[k].case = o
            /\ ~\E k \in DOMAIN log : log[k].case = o
        BY <1>4, <2>2, <3>1 DEF Wanted
      <3>3. PICK e \in Executors : ExtractCommit(e)
        <4>1. log' # log
          BY <3>2
        <4> QED
          BY <4>1, WhoMoves
      <3>4. run[e].of = o
        <4>1. log' = Append(log, [case |-> run[e].of, text |-> run[e].text])
          BY <3>3 DEF ExtractCommit
        <4>2. PICK S : log \in Seq(S)
          BY DEF Shape
        <4> QED
          BY <3>2, <4>1, <4>2
      <3>5. Enqueue("elicit", o)
        BY <3>3, <3>4 DEF ExtractCommit
      <3> QED
        BY <1>2, <2>2, <3>1, <3>5
    <2> QED
      BY <2>1, <2>2 DEF Stages
  <1> QED
    BY <1>3, <1>4

LEMMA LoggedStep ==
  ASSUME Shape, Running, Logged, [Next]_vars
  PROVE  Logged'
  <1>1. CASE log' = log
    BY <1>1 DEF Logged
  <1>2. CASE log' # log
    <2>1. PICK e \in Executors : ExtractCommit(e)
      BY <1>2, WhoMoves
    <2>2. /\ run[e].of \in Cases
          /\ log' = Append(log, [case |-> run[e].of, text |-> run[e].text])
      <3>1. run[e] # Idle /\ run[e].stage = "extract"
        BY <2>1 DEF ExtractCommit, At, Idle
      <3> QED
        BY <2>1, <3>1 DEF ExtractCommit, Running, Sensible
    <2>3. PICK S : log \in Seq(S)
      BY DEF Shape
    <2> QED
      BY <2>2, <2>3 DEF Logged
  <1> QED
    BY <1>1, <1>2

-----------------------------------------------------------------------------
LEMMA HandInvInit == Init => HandInv
  <1> SUFFICES ASSUME Init PROVE HandInv
    OBVIOUS
  <1>1. Shape
    BY InvInit DEF Inv
  <1>2. Rows
    <2>1. \A c \in Cases : caseState[c] # "in_review"
      BY DEF Init
    <2> QED
      BY <2>1 DEF Init, Rows
  <1>3. Queue
    BY DEF Init, Queue
  <1>4. Running /\ WorkerFinds
    <2>1. \A e \in Executors : run[e] = Idle
      BY DEF Init
    <2>2. Worker \in Executors
      BY DEF Executors
    <2> QED
      BY <2>1, <2>2 DEF Running, WorkerFinds
  <1>5. log = <<>>
    BY DEF Init
  <1>6. Logged
    BY <1>5 DEF Logged
  <1>7. ASSUME NEW s \in Stages, NEW o \in Targets, Wanted(s, o) PROVE SeenTo(s, o)
    <2>1. s = "extract" /\ o \in Cases
      BY <1>5, <1>7 DEF Wanted, Sensible, Init
    <2>2. TextFrom(o, normalised) = <<>>
      <3>1. Telling(o, normalised) = {}
        BY DEF Init, Telling
      <3>2. {} \in SUBSET Docs
        OBVIOUS
      <3> QED
        BY <3>1, <3>2, JoinedEmpty DEF TextFrom
    <2> QED
      BY <2>1, <2>2 DEF SeenTo, CaseRead
  <1>8. Promise
    BY <1>7 DEF Promise
  <1> QED
    BY <1>1, <1>2, <1>3, <1>4, <1>6, <1>8 DEF HandInv

LEMMA HandInvStep == Inv /\ HandInv /\ [Next]_vars => HandInv'
  <1> SUFFICES ASSUME Inv, HandInv, [Next]_vars PROVE HandInv'
    OBVIOUS
  <1>1. Shape /\ Rows /\ Queue /\ Running /\ WorkerFinds /\ Logged /\ Promise
    BY DEF HandInv
  <1>2. Shape'
    BY InvStep DEF Inv
  <1>3. Queue'
    BY <1>1, QueueStep
  <1> QED
    BY <1>1, <1>2, <1>3, RowsStep, RunningStep, FindsStep, LoggedStep, PromiseStep DEF HandInv

LEMMA HandInvSuffices == HandInv => WorkInHand
  <1> SUFFICES ASSUME HandInv PROVE WorkInHand
    OBVIOUS
  <1>1. ASSUME NEW s \in Stages, NEW o \in Targets, Wanted(s, o)
        PROVE  SeenTo(s, o) \/ InHand(s, o)
    BY <1>1 DEF HandInv, Promise, Owed, GaveUp, InHand
  <1>2. ASSUME NEW d \in Docs, home[d] # None, d \notin normalised \cup Unreadable
        PROVE  InHand("normalise", d)
    <2>1. "normalise" \in Stages /\ d \in Targets /\ Wanted("normalise", d)
      BY <1>2 DEF Stages, Targets, Wanted, Sensible
    <2> QED
      BY <1>1, <1>2, <2>1 DEF SeenTo
  <1>3. ASSUME NEW c \in Cases, TextFrom(c, normalised) # <<>>, Complete(c) \cap extracted = {}
        PROVE  InHand("extract", c)
    <2>1. "extract" \in Stages /\ c \in Targets /\ Wanted("extract", c)
      BY DEF Stages, Targets, Wanted, Sensible
    <2> QED
      BY <1>1, <1>3, <2>1 DEF SeenTo, CaseRead
  <1>4. ASSUME NEW k \in DOMAIN log, log[k].case \notin elicited
        PROVE  InHand("elicit", log[k].case)
    <2>1. PICK c : c = log[k].case
      OBVIOUS
    <2>2. "elicit" \in Stages /\ c \in Targets /\ Wanted("elicit", c)
      BY <2>1 DEF HandInv, Logged, Stages, Targets, Wanted, Sensible
    <2> QED
      BY <1>1, <1>4, <2>1, <2>2 DEF SeenTo
  <1> QED
    BY <1>2, <1>3, <1>4 DEF WorkInHand

(* No work is forgotten, whatever crashes, fails, is skipped or overlaps:  *)
(* what a document, a text or an extraction still needs is in the queue,   *)
(* with the worker, or was given up and its case stamped.                  *)
THEOREM NoWorkForgotten == Spec => []WorkInHand
  <1>1. Init => Inv /\ HandInv
    BY InvInit, HandInvInit
  <1>2. Inv /\ HandInv /\ [Next]_vars => (Inv /\ HandInv)'
    BY InvStep, HandInvStep
  <1>3. HandInv => WorkInHand
    BY HandInvSuffices
  <1> QED
    BY <1>1, <1>2, <1>3, PTL DEF Spec

-----------------------------------------------------------------------------
(* The order of the documents' rows: strict, and total from a document's   *)
(* start on.                                                               *)
Begun(d) == \A x \in Docs \ {d} : <<x, d>> \in before \/ <<d, x>> \in before

Dating ==
  /\ before \subseteq Docs \X Docs
  /\ \A x, y \in Docs : <<x, y>> \in before => <<y, x>> \notin before
  /\ \A x, y, z \in Docs : <<x, y>> \in before /\ <<y, z>> \in before => <<x, z>> \in before
  /\ \A d \in content : Begun(d)
  /\ \A e \in Executors : At(e, "normalise", "claimed") => Begun(run[e].of)

(* In such an order every document has a place of its own, so the text     *)
(* says what each of them says, and nothing else.                          *)
LEMMA JoinedIs ==
  ASSUME Dating, NEW docs \in SUBSET content, content \subseteq Docs
  PROVE  /\ Joined(docs, before) \in Seq({Reading[d] : d \in docs})
         /\ Len(Joined(docs, before)) = Cardinality(docs)
         /\ \A d \in docs : \E k \in 1..Cardinality(docs) : Joined(docs, before)[k] = Reading[d]
         /\ Cardinality(docs) \in Nat
  <1> DEFINE Below(d) == {x \in docs : <<x, d>> \in before}
             Place(d) == Cardinality(Below(d)) + 1
             n        == Cardinality(docs)
             f        == [d \in docs |-> Place(d)]
  <1>1. IsFiniteSet(docs) /\ n \in Nat
    BY FS_Subset, FS_CardinalityType, PipelineAssumption DEF PipelineAssumption
  <1>2. ASSUME NEW d \in docs
        PROVE  /\ IsFiniteSet(Below(d)) /\ Cardinality(Below(d)) \in Nat
               /\ Place(d) \in 1..n /\ d \notin Below(d)
    <2>1. d \notin Below(d)
      BY DEF Dating
    <2>2. IsFiniteSet(Below(d)) /\ Cardinality(Below(d)) \in Nat /\ Cardinality(Below(d)) <= n
      <3>1. Below(d) \in SUBSET docs
        OBVIOUS
      <3> HIDE DEF Below
      <3> QED
        BY <1>1, <3>1, FS_Subset, FS_CardinalityType
    <2>3. Cardinality(Below(d)) # n
      <3>1. Below(d) \in SUBSET docs
        OBVIOUS
      <3> HIDE DEF Below
      <3> QED
        BY <1>1, <2>1, <3>1, FS_Subset
    <2> HIDE DEF Below, n
    <2> QED
      BY <1>1, <2>1, <2>2, <2>3
  <1>3. ASSUME NEW x \in docs, NEW y \in docs, <<x, y>> \in before
        PROVE  Place(x) < Place(y)
    <2>1. Below(x) \cup {x} \in SUBSET Below(y)
      BY <1>3 DEF Dating
    <2>2. x \notin Below(x) /\ IsFiniteSet(Below(x)) /\ IsFiniteSet(Below(y))
      BY <1>2
    <2>3. Cardinality(Below(x)) \in Nat /\ Cardinality(Below(y)) \in Nat
      BY <1>2
    <2> HIDE DEF Below
    <2>4. Cardinality(Below(x) \cup {x}) = Cardinality(Below(x)) + 1
      BY <2>2, FS_AddElement
    <2>5. Cardinality(Below(x) \cup {x}) <= Cardinality(Below(y))
      BY <2>1, <2>2, FS_Subset
    <2> QED
      BY <2>3, <2>4, <2>5
  <1>4. ASSUME NEW x \in docs, NEW y \in docs, x # y PROVE Place(x) # Place(y)
    <2>1. <<x, y>> \in before \/ <<y, x>> \in before
      BY <1>4 DEF Dating, Begun
    <2>2. Place(x) \in Nat /\ Place(y) \in Nat
      <3>1. Cardinality(Below(x)) \in Nat /\ Cardinality(Below(y)) \in Nat
        BY <1>2
      <3> HIDE DEF Below
      <3> QED
        BY <3>1
    <2> HIDE DEF Place
    <2> QED
      BY <1>3, <2>1, <2>2
  <1>5. f \in Injection(docs, 1..n)
    <2>1. f \in [docs -> 1..n]
      BY <1>2
    <2> HIDE DEF Place
    <2> QED
      BY <1>4, <2>1 DEF Injection, IsInjective
  <1>6. f \in Surjection(docs, 1..n)
    <2>1. IsFiniteSet(1..n) /\ Cardinality(1..n) = n
      BY <1>1, FS_Interval
    <2> HIDE DEF f
    <2> QED
      BY <1>5, <2>1, FS_Injection
  <1>7. ASSUME NEW k \in 1..n PROVE \E d \in docs : Place(d) = k
    <2>1. \E d \in docs : f[d] = k
      BY <1>6 DEF Surjection
    <2> HIDE DEF Place
    <2> QED
      BY <2>1
  <1> DEFINE Said(k) == CHOOSE d \in docs : Place(d) = k
  <1>8. \A k \in 1..n : Said(k) \in docs /\ Place(Said(k)) = k
    <2> HIDE DEF Place
    <2> QED
      BY <1>7
  <1>9. \A d \in docs : Said(Place(d)) = d
    <2>1. \A d \in docs : Place(d) \in 1..n
      BY <1>2
    <2> HIDE DEF Place, Said
    <2> QED
      BY <1>4, <1>8, <2>1
  <1>10. Joined(docs, before) = [k \in 1..n |-> Reading[Said(k)]]
    BY DEF Joined
  <1>11. \A d \in docs : Place(d) \in 1..n
    BY <1>2
  <1> HIDE DEF Said, Place, n
  <1>12. Joined(docs, before) \in Seq({Reading[d] : d \in docs}) /\ Len(Joined(docs, before)) = n
    BY <1>1, <1>8, <1>10
  <1>13. \A d \in docs : \E k \in 1..n : Joined(docs, before)[k] = Reading[d]
    BY <1>9, <1>10, <1>11
  <1> QED
    BY <1>1, <1>12, <1>13 DEF n

-----------------------------------------------------------------------------
(* What a step may do to an executor.                                      *)
Same(e)  == /\ run'[e].stage = run[e].stage /\ run'[e].of = run[e].of
            /\ run'[e].text = run[e].text
Reads(e) == /\ ExtractRead(e)
            /\ run'[e].phase = "read" /\ run'[e].stage = run[e].stage /\ run'[e].of = run[e].of
            /\ run'[e].text = TextOf(run[e].of) /\ run'[e].text # <<>>
Others(e) == \A x \in Executors : x # e => run'[x] = run[x]

LEMMA WhoReads ==
  ASSUME Shape, [Next]_vars, NEW e \in Executors
  PROVE  \/ run'[e] = run[e]
         \/ run'[e] = Idle \/ run'[e].phase \in {"start", "failed", "done"}
         \/ (NormaliseClaim(e) \/ ExtractClaim(e)) /\ run'[e].phase = "claimed" /\ Same(e) /\ Others(e)
         \/ Reads(e) /\ Others(e)
  <1> DEFINE Out  == run'[e] = Idle \/ run'[e].phase \in {"start", "failed", "done"}
             Goal == \/ run'[e] = run[e] \/ Out
                     \/ /\ NormaliseClaim(e) \/ ExtractClaim(e)
                        /\ run'[e].phase = "claimed" /\ Same(e) /\ Others(e)
                     \/ Reads(e) /\ Others(e)
  <1>1. ASSUME UNCHANGED run PROVE Goal
    BY <1>1
  <1>2. ASSUME NEW x \in Executors, NEW r, run' = [run EXCEPT ![x] = r],
               r = Idle \/ r.phase \in {"start", "failed", "done"}
        PROVE  Goal
    BY <1>2 DEF Shape
  <1>3. ASSUME NEW x \in Executors, NEW p \in {"failed", "done"}, run[x] # Idle, Goto(x, p)
        PROVE  Goal
    BY <1>3, GoneTo
  <1>4. ASSUME NEW c \in Cases, NEW d \in Docs, Deliver(c, d) PROVE Goal
    BY <1>1, <1>4 DEF Deliver
  <1>5. ASSUME NEW c \in Cases, NEW d \in Docs, NEW w \in Webhooks, DeliverInline(w, c, d)
        PROVE  Goal
    <2> DEFINE r == Start("normalise", d, None, c)
    <2>1. r.phase = "start"
      BY DEF Start
    <2>2. run' = [run EXCEPT ![w] = r] /\ w \in Executors
      BY <1>5 DEF DeliverInline, Executors
    <2> HIDE DEF r, Goal
    <2> QED
      BY <1>2, <2>1, <2>2
  <1>6. ASSUME NEW x \in Executors, Stage(x) PROVE Goal
    <2>1. run[x] # Idle
      BY <1>6 DEF Stage, NormaliseClaim, NormaliseDegraded, NormaliseCommit, ExtractRead,
         ExtractClaim, ExtractCommit, ElicitCommit, At, Idle
    <2>2. CASE NormaliseDegraded(x) \/ NormaliseCommit(x) \/ ExtractCommit(x) \/ ElicitCommit(x)
      <3>1. Goto(x, "done")
        BY <2>2 DEF NormaliseDegraded, NormaliseCommit, ExtractCommit, ElicitCommit
      <3> HIDE DEF Goal
      <3> QED
        BY <1>3, <2>1, <3>1
    <2>3. CASE NormaliseClaim(x) \/ ExtractClaim(x)
      <3>1. Goto(x, "done") \/ Goto(x, "claimed")
        BY <2>3 DEF NormaliseClaim, ExtractClaim
      <3>2. CASE Goto(x, "done")
        <4> HIDE DEF Goal
        <4> QED
          BY <1>3, <2>1, <3>2
      <3>3. CASE Goto(x, "claimed")
        <4>1. run'[x].phase = "claimed" /\ Same(x) /\ Others(x)
          BY <2>1, <3>3, GoneTo DEF Same, Others
        <4> QED
          BY <2>3, <4>1 DEF Others
      <3> QED
        BY <3>1, <3>2, <3>3
    <2>4. CASE ExtractRead(x)
      <3>1. PICK t, p : /\ t = TextOf(run[x].of) /\ p = IF t = <<>> THEN "done" ELSE "read"
                        /\ run' = [run EXCEPT ![x].text = t, ![x].phase = p]
        BY <2>4 DEF ExtractRead
      <3> DEFINE r == [run[x] EXCEPT !.text = t, !.phase = p]
      <3>2. run' = [run EXCEPT ![x] = r]
        BY <3>1 DEF Shape
      <3>3. run[x] = [phase |-> run[x].phase, stage |-> run[x].stage, of |-> run[x].of,
                      job |-> run[x].job, case |-> run[x].case, text |-> run[x].text]
        BY <2>1 DEF Shape
      <3>4. r = [phase |-> p, stage |-> run[x].stage, of |-> run[x].of,
                 job |-> run[x].job, case |-> run[x].case, text |-> t]
        BY <3>3, ReadRecord
      <3> HIDE DEF r
      <3>5. run'[x] = r /\ Others(x)
        BY <3>2 DEF Shape, Others
      <3>6. CASE p = "done"
        <4>1. r.phase = "done"
          BY <3>4, <3>6
        <4> HIDE DEF Goal
        <4> QED
          BY <1>2, <3>2, <4>1
      <3>7. CASE p # "done"
        <4>1. p = "read" /\ t # <<>>
          BY <3>1, <3>7
        <4>2. Reads(x)
          BY <2>4, <3>1, <3>4, <3>5, <4>1 DEF Reads
        <4> QED
          BY <3>5, <4>2 DEF Others
      <3> QED
        BY <3>6, <3>7
    <2> QED
      BY <1>6, <2>2, <2>3, <2>4 DEF Stage
  <1>7. ASSUME NEW x \in Executors, Fail(x) PROVE Goal
    <2>1. run[x] # Idle
      BY <1>7 DEF Fail, Idle
    <2>2. Goto(x, "failed") \/ run' = [run EXCEPT ![x] = Idle]
      BY <1>7 DEF Fail
    <2> HIDE DEF Goal
    <2> QED
      BY <1>2, <1>3, <2>1, <2>2
  <1>8. ASSUME NEW w \in Webhooks, Continue(w) PROVE Goal
    <2>1. \/ run' = [run EXCEPT ![w] = Idle]
          \/ \E s, c : run' = [run EXCEPT ![w] = Start(s, c, None, c)]
      BY <1>8 DEF Continue
    <2>2. \A s, c : Start(s, c, None, c).phase = "start"
      BY DEF Start
    <2>3. w \in Executors
      BY DEF Executors
    <2> HIDE DEF Goal
    <2> QED
      BY <1>2, <2>1, <2>2, <2>3
  <1>9. ASSUME NEW j \in jobs, Take(j) PROVE Goal
    <2>1. \E c : run' = [run EXCEPT ![Worker] = Start(j.stage, j.of, j.id, c)]
      BY <1>9 DEF Take
    <2>2. \A c : Start(j.stage, j.of, j.id, c).phase = "start"
      BY DEF Start
    <2>3. Worker \in Executors
      BY DEF Executors
    <2> HIDE DEF Goal
    <2> QED
      BY <1>2, <2>1, <2>2, <2>3
  <1>10. ASSUME Retry \/ Finish \/ Crash PROVE Goal
    <2>1. Worker \in Executors /\ run' = [run EXCEPT ![Worker] = Idle]
      BY <1>10 DEF Retry, Finish, Crash, Executors
    <2> HIDE DEF Goal
    <2> QED
      BY <1>2, <2>1
  <1>11. ASSUME GiveUp PROVE Goal
    <2>1. Worker \in Executors /\ run[Worker] # Idle /\ Goto(Worker, "done")
      BY <1>11 DEF GiveUp, Executors, Idle
    <2> HIDE DEF Goal
    <2> QED
      BY <1>3, <2>1
  <1>12. ASSUME Restart \/ RestartUnreaped \/ UNCHANGED vars PROVE Goal
    BY <1>1, <1>12 DEF Restart, RestartUnreaped, vars
  <1>13. Worker \in Executors /\ Webhooks \subseteq Executors
    BY DEF Executors
  <1> HIDE DEF Goal
  <1>14. Goal
    BY <1>4, <1>5, <1>6, <1>7, <1>8, <1>9, <1>10, <1>11, <1>12, <1>13
       DEF Next, WorkerStep, Stamp, StampFails, WebhookStep
  <1> QED
    BY <1>14 DEF Goal

(* Who writes the rows of a text.                                          *)
LEMMA WhoWrites ==
  ASSUME [Next]_vars
  PROVE  /\ before' # before => \E e \in Executors : NormaliseClaim(e) /\ Begin(run[e].of)
         /\ content' # content =>
              \E e \in Executors : /\ NormaliseDegraded(e) \/ NormaliseCommit(e)
                                   /\ content' = content \cup {run[e].of}
         /\ normalised' # normalised => \E e \in Executors : NormaliseCommit(e)
         /\ extracted' # extracted => \E e \in Executors : ExtractCommit(e)
  <1>1. ASSUME NEW c \in Cases, NEW d \in Docs, Ingest(c, d)
        PROVE  UNCHANGED <<before, content, normalised, extracted>>
    BY <1>1 DEF Ingest
  <1>2. ASSUME NEW e \in Executors, NormaliseClaim(e)
        PROVE  UNCHANGED <<content, normalised, extracted>> /\ (UNCHANGED before \/ Begin(run[e].of))
    BY <1>2 DEF NormaliseClaim
  <1>3. ASSUME NEW e \in Executors, NormaliseDegraded(e)
        PROVE  UNCHANGED <<before, normalised, extracted>> /\ content' = content \cup {run[e].of}
    BY <1>3 DEF NormaliseDegraded, Save
  <1>4. ASSUME NEW e \in Executors, NormaliseCommit(e)
        PROVE  UNCHANGED <<before, extracted>> /\ content' = content \cup {run[e].of}
    BY <1>4 DEF NormaliseCommit, Save
  <1>5. ASSUME NEW e \in Executors, ExtractCommit(e) PROVE UNCHANGED <<before, content, normalised>>
    BY <1>5 DEF ExtractCommit
  <1>6. ASSUME NEW e \in Executors, ExtractRead(e) \/ ExtractClaim(e) \/ ElicitCommit(e)
        PROVE  UNCHANGED <<before, content, normalised, extracted>>
    BY <1>6 DEF ExtractRead, ExtractClaim, ElicitCommit, dataVars
  <1>7. ASSUME \/ Retry \/ GiveUp \/ Finish \/ Crash \/ Restart \/ RestartUnreaped \/ UNCHANGED vars
               \/ \E e \in Executors : Fail(e)
               \/ \E w \in Webhooks : Continue(w)
               \/ \E j \in jobs : Take(j)
        PROVE  UNCHANGED <<before, content, normalised, extracted>>
    BY <1>7 DEF Retry, GiveUp, Finish, Crash, Restart, RestartUnreaped, Fail, Continue, Take, vars, dataVars
  <1>8. Worker \in Executors /\ Webhooks \subseteq Executors
    BY DEF Executors
  <1>9. ASSUME NEW e \in Executors, Stage(e)
        PROVE  /\ before' # before => NormaliseClaim(e) /\ Begin(run[e].of)
               /\ content' # content => /\ NormaliseDegraded(e) \/ NormaliseCommit(e)
                                        /\ content' = content \cup {run[e].of}
               /\ normalised' # normalised => NormaliseCommit(e)
               /\ extracted' # extracted => ExtractCommit(e)
    BY <1>2, <1>3, <1>4, <1>5, <1>6, <1>9 DEF Stage
  <1> QED
    BY <1>1, <1>7, <1>8, <1>9 DEF Next, WorkerStep, Stamp, StampFails, WebhookStep, Deliver, DeliverInline

(* A step keeps the order: a document whose normalisation begins is moved  *)
(* behind all others.                                                      *)
LEMMA DatingStep ==
  ASSUME Shape, Rows, Running, Dating, [Next]_vars
  PROVE  Dating'
  <1>1. /\ before' \subseteq Docs \X Docs
        /\ \A x, y \in Docs : <<x, y>> \in before' => <<y, x>> \notin before'
        /\ \A x, y, z \in Docs : <<x, y>> \in before' /\ <<y, z>> \in before' => <<x, z>> \in before'
        /\ \A d \in Docs : Begun(d) => Begun(d)'
    <2>1. CASE before' = before
      BY <2>1 DEF Dating, Begun
    <2>2. ASSUME NEW e \in Executors, NormaliseClaim(e), Begin(run[e].of), before' # before
          PROVE  /\ before' \subseteq Docs \X Docs
                 /\ \A x, y \in Docs : <<x, y>> \in before' => <<y, x>> \notin before'
                 /\ \A x, y, z \in Docs : <<x, y>> \in before' /\ <<y, z>> \in before'
                                            => <<x, z>> \in before'
                 /\ \A d \in Docs : Begun(d) => Begun(d)'
      <3>1. PICK d \in Docs : d = run[e].of
        BY <2>2 DEF NormaliseClaim, At, Idle, Running, Sensible
      <3>2. before' = {p \in before : p[1] # d} \cup ((Docs \ {d}) \X {d})
        BY <2>2, <3>1 DEF Begin
      <3>3. \A x, y \in Docs : <<x, y>> \in before' <=>
              (<<x, y>> \in before /\ x # d) \/ (x # d /\ y = d)
        BY <3>2
      <3>4. before' \subseteq Docs \X Docs
        BY <3>1, <3>2 DEF Dating
      <3>5. \A x, y \in Docs : <<x, y>> \in before' => <<y, x>> \notin before'
        BY <3>3 DEF Dating
      <3>6. \A x, y, z \in Docs : <<x, y>> \in before' /\ <<y, z>> \in before' => <<x, z>> \in before'
        BY <3>3 DEF Dating
      <3>7. ASSUME NEW y \in Docs, Begun(y) PROVE Begun(y)'
        BY <3>3, <3>7 DEF Begun
      <3> QED
        BY <3>4, <3>5, <3>6, <3>7
    <2> QED
      BY <2>1, <2>2, WhoWrites
  <1>2. ASSUME NEW e \in Executors, At(e, "normalise", "claimed")' PROVE Begun(run[e].of)'
    <2>1. PICK d : d = run'[e].of
      OBVIOUS
    <2>2. CASE run'[e] = run[e]
      <3>1. At(e, "normalise", "claimed") /\ run[e] # Idle
        BY <1>2, <2>2 DEF At, Idle
      <3>2. Begun(d) /\ d \in Docs
        BY <2>1, <2>2, <3>1 DEF Dating, Running, Sensible, At
      <3> QED
        BY <1>1, <2>1, <3>2 DEF Begun
    <2>3. CASE NormaliseClaim(e) /\ Same(e) /\ run'[e].phase = "claimed"
      <3>1. d \in Docs /\ run[e] # Idle
        BY <2>1, <2>3 DEF NormaliseClaim, At, Idle, Running, Sensible, Same
      <3>2. Begin(d)
        <4>1. run[e].of = d /\ ~(Goto(e, "done"))
          BY <2>1, <2>3, <3>1, GoneTo DEF Same
        <4> QED
          BY <2>3, <4>1 DEF NormaliseClaim
      <3>3. CASE d \in content
        BY <1>1, <2>1, <3>1, <3>3 DEF Dating, Begun
      <3>4. CASE d \notin content
        <4>1. before' = {p \in before : p[1] # d} \cup ((Docs \ {d}) \X {d})
          BY <3>2, <3>4 DEF Begin
        <4> QED
          BY <2>1, <4>1 DEF Begun
      <3> QED
        BY <3>3, <3>4
    <2>4. run'[e].stage = "normalise" /\ run'[e].phase = "claimed" /\ run'[e] # Idle
      BY <1>2 DEF At, Idle
    <2>5. ~(ExtractClaim(e) /\ Same(e)) /\ ~Reads(e)
      BY <2>4 DEF ExtractClaim, At, Same, Reads
    <2> QED
      BY <2>2, <2>3, <2>4, <2>5, WhoReads
  <1>3. ASSUME NEW d \in content' PROVE Begun(d)'
    <2>1. CASE d \in content
      BY <1>1, <2>1 DEF Dating, Rows
    <2>2. CASE d \notin content
      <3>1. PICK e \in Executors : /\ NormaliseDegraded(e) \/ NormaliseCommit(e)
                                   /\ content' = content \cup {run[e].of}
        BY <2>2, WhoWrites
      <3>2. d = run[e].of /\ At(e, "normalise", "claimed") /\ UNCHANGED before
        BY <2>2, <3>1 DEF NormaliseDegraded, NormaliseCommit
      <3> QED
        BY <3>2 DEF Dating, Begun
    <2> QED
      BY <2>1, <2>2
  <1> QED
    BY <1>1, <1>2, <1>3 DEF Dating

-----------------------------------------------------------------------------
(* What the documents of a case say; and a text that is not longer than    *)
(* the case's, and no other one of its length.                             *)
Words(c)   == {Reading[d] : d \in {x \in Docs : home[x] = c}}
Fits(t, c) == /\ Len(t) <= Cardinality(Telling(c, Docs))
              /\ Len(t) = Cardinality(Telling(c, Docs)) => t = TextOf(c)

(* What was read of a case, and what is held, are words of the case, and   *)
(* the ledger holds what was read.                                         *)
Worded ==
  /\ \A k \in DOMAIN log :
       log[k].text \in Seq(Words(log[k].case)) /\ Fits(log[k].text, log[k].case)
  /\ \A e \in Executors : Extracting(e) =>
       /\ run[e].text \in Seq(Words(run[e].of)) /\ run[e].text # <<>>
       /\ Fits(run[e].text, run[e].of)
  /\ \A t \in extracted : \E k \in DOMAIN log : log[k].text = t

(* The text a case has.                                                    *)
LEMMA TextIs ==
  ASSUME Rows, Dating, NEW c
  PROVE  /\ TextOf(c) \in Seq(Words(c)) /\ Fits(TextOf(c), c)
         /\ Len(TextOf(c)) = Cardinality(Telling(c, Docs))
         /\ Cardinality(Telling(c, Docs)) \in Nat /\ IsFiniteSet(Telling(c, Docs))
  <1> DEFINE docs == Telling(c, Docs)
  <1>1. docs \in SUBSET content /\ content \subseteq Docs /\ docs \in SUBSET Docs
    BY DEF Telling, Rows
  <1>2. TextOf(c) = Joined(docs, before)
    BY DEF TextOf, TextFrom
  <1>3. {Reading[d] : d \in docs} \subseteq Words(c)
    BY DEF Telling, Words
  <1>4. IsFiniteSet(docs)
    BY <1>1, FS_Subset, PipelineAssumption DEF PipelineAssumption
  <1> HIDE DEF docs
  <1>5. /\ Joined(docs, before) \in Seq({Reading[d] : d \in docs})
        /\ Len(Joined(docs, before)) = Cardinality(docs) /\ Cardinality(docs) \in Nat
    BY <1>1, JoinedIs
  <1>6. TextOf(c) \in Seq(Words(c))
    BY <1>2, <1>3, <1>5
  <1> QED
    BY <1>2, <1>4, <1>5, <1>6 DEF Fits, docs

(* A step adds at most a document to what a case says, and leaves the      *)
(* order of what was there.                                                *)
LEMMA TextGrows ==
  ASSUME Rows, Running, [Next]_vars, NEW c
  PROVE  /\ \A x, y \in content : <<x, y>> \in before' <=> <<x, y>> \in before
         /\ \/ Telling(c, Docs)' = Telling(c, Docs)
            \/ \E d : d \notin Telling(c, Docs) /\ Telling(c, Docs)' = Telling(c, Docs) \cup {d}
  <1>1. \A x, y \in content : <<x, y>> \in before' <=> <<x, y>> \in before
    <2>1. CASE before' = before
      BY <2>1
    <2>2. ASSUME NEW e \in Executors, Begin(run[e].of)
          PROVE  \A x, y \in content : <<x, y>> \in before' <=> <<x, y>> \in before
      BY <2>2 DEF Begin, Rows
    <2> QED
      BY <2>1, <2>2, WhoWrites
  <1>2. \A x \in content : home'[x] = home[x]
    BY NothingUndone DEF Rows
  <1>3. CASE content' = content
    <2>1. Telling(c, Docs)' = Telling(c, Docs)
      BY <1>2, <1>3 DEF Telling
    <2> QED
      BY <1>1, <2>1
  <1>4. CASE content' # content
    <2>1. PICK e \in Executors : /\ NormaliseDegraded(e) \/ NormaliseCommit(e)
                                 /\ content' = content \cup {run[e].of}
      BY <1>4, WhoWrites
    <2>2. PICK d : d = run[e].of
      OBVIOUS
    <2>3. d \in Docs /\ d \notin content /\ content' = content \cup {d}
      <3>1. run[e] # Idle /\ run[e].stage = "normalise"
        BY <2>1 DEF NormaliseDegraded, NormaliseCommit, At, Idle
      <3> QED
        BY <1>4, <2>1, <2>2, <3>1 DEF Running, Sensible
    <2>4. \/ Telling(c, Docs)' = Telling(c, Docs)
          \/ d \notin Telling(c, Docs) /\ Telling(c, Docs)' = Telling(c, Docs) \cup {d}
      BY <1>2, <2>3 DEF Telling
    <2> QED
      BY <1>1, <2>4
  <1> QED
    BY <1>3, <1>4

(* A text stays no longer than the case's.                                 *)
LEMMA FitsStays ==
  ASSUME Rows, Running, Dating, [Next]_vars, NEW c, NEW t, Len(t) \in Nat, Fits(t, c)
  PROVE  Fits(t, c)'
  <1> DEFINE docs == Telling(c, Docs)
  <1>1. IsFiniteSet(docs) /\ Cardinality(docs) \in Nat
    BY TextIs
  <1>2. CASE docs' = docs
    <2>1. TextOf(c)' = TextOf(c)
      <3>1. docs \subseteq content
        BY DEF Telling
      <3>2. TextOf(c) = Joined(docs, before) /\ TextOf(c)' = Joined(docs', before')
        BY DEF TextOf, TextFrom
      <3> HIDE DEF docs
      <3>3. \A x, y \in docs : <<x, y>> \in before' <=> <<x, y>> \in before
        BY <3>1, TextGrows
      <3> QED
        BY <1>2, <3>2, <3>3, JoinedAgrees
    <2> QED
      BY <1>2, <2>1 DEF Fits
  <1>3. ASSUME NEW d, d \notin docs, docs' = docs \cup {d}
        PROVE  Fits(t, c)'
    <2>1. Cardinality(docs') = Cardinality(docs) + 1
      <3> HIDE DEF docs
      <3> QED
        BY <1>1, <1>3, FS_AddElement
    <2> QED
      BY <1>1, <2>1 DEF Fits
  <1> QED
    BY <1>2, <1>3, TextGrows

(* A case's words stay its words.                                          *)
LEMMA WordsStay ==
  ASSUME Rows, [Next]_vars, NEW c \in Cases, NEW t \in Seq(Words(c))
  PROVE  t \in Seq(Words(c)')
  <1>1. Words(c) \subseteq Words(c)'
    BY NothingUndone, PipelineAssumption DEF Words, PipelineAssumption
  <1> HIDE DEF Words
  <1> QED
    BY <1>1

(* Extraction is of a case.                                                *)
LEMMA ExtractsCase ==
  ASSUME Running, NEW e \in Executors, Extracting(e)
  PROVE  run[e] # Idle /\ run[e].of \in Cases /\ run[e].stage = "extract"
  BY DEF Extracting, Idle, Running, Sensible

(* Who extracts did so before, or reads now.                               *)
LEMMA WhoExtracts ==
  ASSUME Shape, Running, [Next]_vars, NEW e \in Executors, Extracting(e)'
  PROVE  \/ Extracting(e) /\ run'[e].of = run[e].of /\ run'[e].text = run[e].text
         \/ Reads(e) /\ Others(e)
  <1>1. run'[e] # Idle /\ run'[e].phase \in {"read", "claimed"} /\ run'[e].stage = "extract"
    BY DEF Extracting, Idle
  <1>2. CASE run'[e] = run[e]
    BY <1>1, <1>2 DEF Extracting
  <1>3. CASE (NormaliseClaim(e) \/ ExtractClaim(e)) /\ run'[e].phase = "claimed" /\ Same(e)
    BY <1>1, <1>3 DEF NormaliseClaim, ExtractClaim, At, Same, Extracting
  <1>4. ~(run'[e] = Idle \/ run'[e].phase \in {"start", "failed", "done"})
    BY <1>1
  <1> QED
    BY <1>2, <1>3, <1>4, WhoReads

(* What the commit of an extraction appends.                               *)
LEMMA Appended ==
  ASSUME Shape, Running, NEW e \in Executors, ExtractCommit(e)
  PROVE  /\ Extracting(e) /\ run[e].of \in Cases
         /\ DOMAIN log = 1..Len(log) /\ Len(log) \in Nat
         /\ DOMAIN log' = 1..(Len(log) + 1)
         /\ \A k \in DOMAIN log : log'[k] = log[k]
         /\ log'[Len(log) + 1].case = run[e].of /\ log'[Len(log) + 1].text = run[e].text
         /\ extracted' = extracted \cup {run[e].text}
  <1>1. Extracting(e)
    BY DEF ExtractCommit, At, Extracting
  <1>2. PICK S : log \in Seq(S)
    BY DEF Shape
  <1> DEFINE new == [case |-> run[e].of, text |-> run[e].text]
  <1>3. log' = Append(log, new) /\ new.case = run[e].of /\ new.text = run[e].text
    BY DEF ExtractCommit
  <1> HIDE DEF new
  <1>4. log \in Seq(S \cup {new})
    BY <1>2
  <1> QED
    BY <1>1, <1>3, <1>4, ExtractsCase DEF ExtractCommit

LEMMA WordedStep ==
  ASSUME Shape, Rows, Running, Logged, Dating, Dating', Rows', Worded, [Next]_vars
  PROVE  Worded'
  <1>1. ASSUME NEW c \in Cases, NEW t \in Seq(Words(c)), Fits(t, c)
        PROVE  t \in Seq(Words(c)') /\ Fits(t, c)'
    <2>1. Len(t) \in Nat
      <3> HIDE DEF Words
      <3> QED
        OBVIOUS
    <2> QED
      BY <1>1, <2>1, FitsStays, WordsStay
  <1>2. ASSUME NEW e \in Executors, Extracting(e)'
        PROVE  /\ run'[e].text \in Seq(Words(run[e].of)') /\ run'[e].text # <<>>
               /\ Fits(run[e].text, run[e].of)'
    <2>1. PICK c, t : c = run'[e].of /\ t = run'[e].text
      OBVIOUS
    <2>2. CASE Extracting(e) /\ run'[e].of = run[e].of /\ run'[e].text = run[e].text
      <3>1. c \in Cases /\ t \in Seq(Words(c)) /\ t # <<>> /\ Fits(t, c)
        BY <2>1, <2>2, ExtractsCase DEF Worded
      <3>2. t \in Seq(Words(c)') /\ Fits(t, c)'
        BY <1>1, <3>1
      <3> QED
        BY <2>1, <3>1, <3>2 DEF Fits, Words
    <2>3. CASE Reads(e)
      <3>1. UNCHANGED dataVars
        BY <2>3 DEF Reads, ExtractRead
      <3>2. t = TextOf(c) /\ TextOf(c) = TextOf(c)' /\ t # <<>>
        BY <2>1, <2>3, <3>1 DEF Reads, dataVars, TextOf, TextFrom, Telling
      <3>3. t \in Seq(Words(c)) /\ Fits(t, c)
        BY <3>2, TextIs
      <3>4. t \in Seq(Words(c)') /\ Fits(t, c)'
        BY <3>1, <3>2, <3>3 DEF dataVars, Words, Fits, Telling
      <3> QED
        BY <2>1, <3>2, <3>4 DEF Fits, Words
    <2> QED
      BY <1>2, <2>2, <2>3, WhoExtracts
  <1>3. CASE log' = log
    <2>1. extracted' = extracted
      <3>1. ASSUME NEW e \in Executors, ExtractCommit(e) PROVE FALSE
        BY <1>3, <3>1, Appended
      <3> QED
        BY <3>1, WhoWrites
    <2>2. ASSUME NEW k \in DOMAIN log
          PROVE  log[k].text \in Seq(Words(log[k].case)') /\ Fits(log[k].text, log[k].case)'
      <3>1. PICK c, t : c = log[k].case /\ t = log[k].text
        OBVIOUS
      <3>2. c \in Cases /\ t \in Seq(Words(c)) /\ Fits(t, c)
        BY <3>1 DEF Logged, Worded
      <3>3. t \in Seq(Words(c)') /\ Fits(t, c)'
        BY <1>1, <3>2
      <3> QED
        BY <1>3, <3>1, <3>3 DEF Fits, Words
    <2> QED
      BY <1>2, <1>3, <2>1, <2>2 DEF Worded
  <1>4. CASE log' # log
    <2>1. PICK e \in Executors : ExtractCommit(e)
      BY <1>4, WhoMoves
    <2>2. ASSUME NEW k \in DOMAIN log'
          PROVE  log'[k].text \in Seq(Words(log[k].case)') /\ Fits(log[k].text, log[k].case)'
      <3>1. PICK c, t : c = log'[k].case /\ t = log'[k].text
        OBVIOUS
      <3>2. c \in Cases /\ t \in Seq(Words(c)) /\ Fits(t, c)
        <4>1. CASE k \in DOMAIN log
          BY <2>1, <3>1, <4>1, Appended DEF Logged, Worded
        <4>2. CASE k \notin DOMAIN log
          <5>1. k = Len(log) + 1
            BY <2>1, <4>2, Appended
          <5>2. c = run[e].of /\ t = run[e].text /\ Extracting(e) /\ c \in Cases
            BY <2>1, <3>1, <5>1, Appended
          <5> QED
            BY <5>2 DEF Worded
        <4> QED
          BY <4>1, <4>2
      <3>3. t \in Seq(Words(c)') /\ Fits(t, c)'
        BY <1>1, <3>2
      <3> QED
        BY <3>1, <3>3 DEF Fits, Words
    <2>3. ASSUME NEW t \in extracted' PROVE \E k \in DOMAIN log' : log'[k].text = t
      <3>1. CASE t \in extracted
        BY <2>1, <3>1, Appended DEF Worded
      <3>2. CASE t \notin extracted
        BY <2>1, <3>2, Appended
      <3> QED
        BY <3>1, <3>2
    <2> QED
      BY <1>2, <2>2, <2>3 DEF Worded
  <1> QED
    BY <1>3, <1>4

-----------------------------------------------------------------------------
(* While the extractions of a case run one after another, each reads more  *)
(* than was read before it.                                                *)
Ahead(t, s) == Len(s) <= Len(t) /\ (Len(s) = Len(t) => s = t)
Longest ==
  /\ \A j, k \in DOMAIN log :
       j < k /\ log[j].case = log[k].case => Len(log[j].text) < Len(log[k].text)
  /\ \A e \in Executors : Extracting(e) =>
       \A k \in DOMAIN log : log[k].case = run[e].of => Ahead(run[e].text, log[k].text)

(* A text that is read has all that was read before; a commit adds a text  *)
(* that is new, and nobody else holds a text of its case.                  *)
LEMMA LongestStep ==
  ASSUME Inv, Rows, Running, Logged, Dating, Worded, Longest, ~Overlap, [Next]_vars
  PROVE  Longest'
  <1>1. Shape /\ KeysHeld
    BY DEF Inv
  <1>2. CASE log' = log
    <2>1. ASSUME NEW e \in Executors, Extracting(e)', NEW k \in DOMAIN log,
                 log[k].case = run'[e].of
          PROVE  Ahead(run'[e].text, log[k].text)
      <3>1. CASE Extracting(e) /\ run'[e].of = run[e].of /\ run'[e].text = run[e].text
        BY <2>1, <3>1 DEF Longest
      <3>2. CASE Reads(e)
        <4>1. PICK c, t : c = run[e].of /\ t = log[k].text
          OBVIOUS
        <4>2. log[k].case = c /\ run'[e].text = TextOf(c)
          BY <2>1, <3>2, <4>1 DEF Reads
        <4>3. Fits(t, c)
          BY <4>1, <4>2 DEF Worded
        <4>4. Len(TextOf(c)) = Cardinality(Telling(c, Docs))
          BY TextIs
        <4> QED
          BY <4>1, <4>2, <4>3, <4>4 DEF Fits, Ahead
      <3> QED
        BY <1>1, <2>1, <3>1, <3>2, WhoExtracts
    <2> QED
      BY <1>2, <2>1 DEF Longest, Ahead
  <1>3. CASE log' # log
    <2>1. PICK e \in Executors : ExtractCommit(e)
      BY <1>3, WhoMoves
    <2>2. /\ Extracting(e) /\ DOMAIN log = 1..Len(log) /\ Len(log) \in Nat
          /\ DOMAIN log' = 1..(Len(log) + 1)
          /\ \A k \in DOMAIN log : log'[k] = log[k]
          /\ log'[Len(log) + 1].case = run[e].of /\ log'[Len(log) + 1].text = run[e].text
      BY <1>1, <2>1, Appended
    <2>3. run[e].text \notin extracted
      BY <1>1, <2>1 DEF KeysHeld, ExtractCommit
    <2>4. \A k \in DOMAIN log : log[k].text \in extracted
      BY <1>1 DEF KeysHeld
    <2>5. /\ Len(run[e].text) \in Nat
          /\ \A k \in DOMAIN log : Len(log[k].text) \in Nat
      <3>1. \A c : \A t \in Seq(Words(c)) : Len(t) \in Nat
        <4> HIDE DEF Words
        <4> QED
          OBVIOUS
      <3> QED
        BY <2>2, <3>1 DEF Worded
    <2>6. ASSUME NEW j \in DOMAIN log', NEW k \in DOMAIN log', j < k, log'[j].case = log'[k].case
          PROVE  Len(log'[j].text) < Len(log'[k].text)
      <3>1. CASE k \in DOMAIN log
        BY <2>2, <2>6, <3>1 DEF Longest
      <3>2. CASE k \notin DOMAIN log
        <4>1. k = Len(log) + 1 /\ j \in DOMAIN log
          BY <2>2, <2>6, <3>2
        <4>2. log[j].case = run[e].of
          BY <2>2, <2>6, <4>1
        <4>3. Ahead(run[e].text, log[j].text)
          BY <2>2, <4>1, <4>2 DEF Longest
        <4>4. log[j].text # run[e].text
          BY <2>3, <2>4, <4>1
        <4> QED
          BY <2>2, <2>5, <4>1, <4>3, <4>4 DEF Ahead
      <3> QED
        BY <3>1, <3>2
    <2>7. ASSUME NEW x \in Executors, Extracting(x)', NEW k \in DOMAIN log',
                 log'[k].case = run'[x].of
          PROVE  Ahead(run'[x].text, log'[k].text)
      <3>1. Goto(e, "done") /\ run[e] # Idle
        BY <1>1, <2>1, <2>2, ExtractsCase DEF ExtractCommit
      <3>2. x # e
        BY <1>1, <2>7, <3>1, GoneTo DEF Extracting
      <3>3. run'[x] = run[x]
        BY <1>1, <3>1, <3>2, GoneTo
      <3>4. Extracting(x)
        BY <2>7, <3>3 DEF Extracting
      <3>5. run[x].of # run[e].of
        BY <2>2, <3>2, <3>4 DEF Overlap
      <3>6. k \in DOMAIN log
        BY <2>2, <2>7, <3>3, <3>5
      <3> QED
        BY <2>2, <2>7, <3>3, <3>4, <3>6 DEF Longest
    <2> QED
      BY <2>6, <2>7 DEF Longest
  <1> QED
    BY <1>2, <1>3

-----------------------------------------------------------------------------
(* The newest extraction of a case.                                        *)
Own(c)       == {k \in DOMAIN log : log[k].case = c}
Newest(c, k) == k \in Own(c) /\ \A j \in Own(c) : j <= k
Dated        == \A c \in Cases : Own(c) # {} => \E k \in DOMAIN log : Newest(c, k)

(* A number that is the largest of a set is the one that is chosen.        *)
LEMMA TheLargest ==
  ASSUME NEW own, NEW k \in own, \A j \in own : j \in Nat, \A j \in own : j <= k
  PROVE  (CHOOSE j \in own : \A i \in own : i <= j) = k
  <1>1. \A j \in own : (\A i \in own : i <= j) <=> j = k
    OBVIOUS
  <1> QED
    BY <1>1

(* What the newest extraction read is what was read last, now and after a  *)
(* step.                                                                   *)
LEMMA NewestIsLast ==
  ASSUME NEW c, NEW k
  PROVE  /\ Shape /\ Newest(c, k) => LastRead(c) = log[k].text
         /\ Shape' /\ Newest(c, k)' => LastRead(c)' = log'[k].text
  <1>1. ASSUME NEW l, \E S : l \in Seq(S),
               NEW own, own = {i \in DOMAIN l : l[i].case = c}, k \in own, \A j \in own : j <= k
        PROVE  (IF own = {} THEN <<>>
                ELSE l[CHOOSE j \in own : \A i \in own : i <= j].text) = l[k].text
    <2>1. \A j \in own : j \in Nat
      BY <1>1
    <2>2. (CHOOSE j \in own : \A i \in own : i <= j) = k
      BY <1>1, <2>1, TheLargest
    <2> QED
      BY <1>1, <2>2
  <1>2. Shape /\ Newest(c, k) => LastRead(c) = log[k].text
    BY <1>1 DEF Shape, Newest, Own, LastRead
  <1>3. Shape' /\ Newest(c, k)' => LastRead(c)' = log'[k].text
    BY <1>1 DEF Shape, Newest, Own, LastRead
  <1> QED
    BY <1>2, <1>3

(* A commit makes its entry the newest of its case, and of no other.       *)
LEMMA NewestStep ==
  ASSUME Shape, Running, NEW e \in Executors, ExtractCommit(e), NEW c
  PROVE  /\ \A k : c = run[e].of /\ k = Len(log) + 1 => Newest(c, k)'
         /\ c # run[e].of => /\ Own(c)' = Own(c)
                             /\ \A k \in DOMAIN log : Newest(c, k) => Newest(c, k)'
  <1>1. /\ DOMAIN log = 1..Len(log) /\ Len(log) \in Nat
        /\ DOMAIN log' = 1..(Len(log) + 1)
        /\ \A k \in DOMAIN log : log'[k] = log[k]
        /\ log'[Len(log) + 1].case = run[e].of
    BY Appended
  <1>2. ASSUME c = run[e].of, NEW k, k = Len(log) + 1 PROVE Newest(c, k)'
    BY <1>1, <1>2 DEF Newest, Own
  <1>3. c # run[e].of => Own(c)' = Own(c)
    BY <1>1 DEF Own
  <1> QED
    BY <1>2, <1>3 DEF Newest

(* Only a commit of a case changes what was read of it last.               *)
LEMMA DatedStep ==
  ASSUME Shape, Shape', Running, Dated, [Next]_vars
  PROVE  Dated' /\ \A c \in Cases : \/ LastRead(c)' = LastRead(c)
                                    \/ \E e \in Executors : /\ ExtractCommit(e) /\ run[e].of = c
                                                            /\ LastRead(c)' = run[e].text
  <1>1. CASE log' = log
    BY <1>1 DEF Dated, Newest, Own, LastRead
  <1>2. CASE log' # log
    <2>1. PICK e \in Executors : ExtractCommit(e)
      BY <1>2, WhoMoves
    <2>2. /\ \A k \in DOMAIN log : log'[k] = log[k] /\ k \in DOMAIN log'
          /\ Len(log) + 1 \in DOMAIN log'
          /\ log'[Len(log) + 1].text = run[e].text
      BY <2>1, Appended
    <2>3. ASSUME NEW c \in Cases
          PROVE  /\ (Own(c) # {} => \E k \in DOMAIN log : Newest(c, k))'
                 /\ \/ LastRead(c)' = LastRead(c)
                    \/ c = run[e].of /\ LastRead(c)' = run[e].text
      <3>1. CASE c = run[e].of
        <4>1. PICK k : k = Len(log) + 1
          OBVIOUS
        <4>2. Newest(c, k)'
          BY <2>1, <3>1, <4>1, NewestStep DEF Newest, Own
        <4>3. LastRead(c)' = log'[k].text
          BY <4>2, NewestIsLast
        <4> QED
          BY <2>2, <3>1, <4>1, <4>2, <4>3
      <3>2. CASE c # run[e].of
        <4>1. Own(c)' = Own(c)
          BY <2>1, <3>2, NewestStep
        <4>2. CASE Own(c) = {}
          <5>1. LastRead(c) = <<>> /\ LastRead(c)' = <<>>
            BY <4>1, <4>2 DEF LastRead, Own
          <5> QED
            BY <4>1, <4>2, <5>1
        <4>3. CASE Own(c) # {}
          <5>1. PICK k \in DOMAIN log : Newest(c, k)
            BY <4>3 DEF Dated
          <5>2. Newest(c, k)'
            BY <2>1, <3>2, <5>1, NewestStep
          <5>3. LastRead(c) = log[k].text
            BY <5>1, NewestIsLast
          <5>4. LastRead(c)' = log'[k].text
            BY <5>2, NewestIsLast
          <5> QED
            BY <2>2, <5>1, <5>2, <5>3, <5>4
        <4> QED
          BY <4>2, <4>3
      <3> QED
        BY <3>1, <3>2
    <2> QED
      BY <2>1, <2>3 DEF Dated
  <1> QED
    BY <1>1, <1>2

-----------------------------------------------------------------------------
(* A case whose own words were normalised, and whose newest extraction     *)
(* read all of them.                                                       *)
Heard(c)   == \E d \in normalised : OwnWord(c, d)
Settled(c) == Heard(c) => LastRead(c) \in Complete(c)

(* A job will see to the case, one the worker is not about to let go of,   *)
(* or gave up.                                                             *)
Asked(c) ==
  \/ GaveUp("extract", c)
  \/ \E n \in Nat : /\ Owed(n, "extract", c)
                    /\ ~(run[Worker].phase = "done" /\ run[Worker].job = n)

(* The case is settled, or a job or a failure is to say so; the worker     *)
(* lets go of a job no earlier; and what a webhook is about to commit does *)
(* not undo it.                                                            *)
LastInHand ==
  /\ \A c \in Cases : Settled(c) \/ (\E n \in Nat : Owed(n, "extract", c)) \/ GaveUp("extract", c)
  /\ \A c \in Cases :
       run[Worker] # Idle /\ run[Worker].phase = "done" /\ run[Worker].stage = "extract"
         /\ run[Worker].of = c => Settled(c) \/ Another("extract", c)
  /\ \A w \in Webhooks, c \in Cases :
       Extracting(w) /\ run[w].of = c => run[w].text \in Complete(c) \/ Asked(c)

(* A text that has all of a case's words, and words of its own among them, *)
(* was extracted for no other case.                                        *)
LEMMA OwnText ==
  ASSUME Rows, Dating, Worded, Logged, NEW c \in Cases, Heard(c), NEW t \in Complete(c),
         NEW k \in DOMAIN log, log[k].text = t
  PROVE  log[k].case = c
  <1>1. PICK d \in normalised : OwnWord(c, d)
    BY DEF Heard
  <1>2. PICK part \in SUBSET Unreadable : t = TextFrom(c, normalised \cup part)
    BY DEF Complete
  <1> DEFINE docs == Telling(c, normalised \cup part)
  <1>3. docs \in SUBSET content /\ content \subseteq Docs /\ d \in docs
    BY <1>1 DEF Telling, OwnWord, Legible, Rows
  <1>4. t = Joined(docs, before)
    BY <1>2 DEF TextFrom
  <1> HIDE DEF docs
  <1>5. PICK i \in 1..Cardinality(docs) : t[i] = Reading[d]
    BY <1>3, <1>4, JoinedIs
  <1>6. Len(t) = Cardinality(docs)
    BY <1>3, <1>4, JoinedIs
  <1>7. t \in Seq(Words(log[k].case))
    BY DEF Worded
  <1>8. Reading[d] \in Words(log[k].case)
    <2> HIDE DEF Words
    <2> QED
      BY <1>5, <1>6, <1>7
  <1>9. PICK x \in Docs : home[x] = log[k].case /\ Reading[x] = Reading[d]
    BY <1>8 DEF Words
  <1>10. log[k].case \in Cases /\ None \notin Cases
    BY PipelineAssumption DEF Logged, PipelineAssumption
  <1> QED
    BY <1>1, <1>9, <1>10 DEF OwnWord

(* So what is skipped as known is what the case's newest extraction read.  *)
LEMMA KnownIsLast ==
  ASSUME Inv, Rows, Dating, Worded, Logged, Longest,
         NEW c \in Cases, Heard(c), NEW e \in Executors, Extracting(e), run[e].of = c,
         run[e].text \in Complete(c), run[e].text \in extracted
  PROVE  LastRead(c) = run[e].text
  <1>1. PICK k \in DOMAIN log : log[k].text = run[e].text
    BY DEF Worded
  <1>2. log[k].case = c
    BY <1>1, OwnText
  <1>3. \A i \in DOMAIN log : i \in Nat /\ Len(log[i].text) \in Nat
    <2>1. \A x : \A t \in Seq(Words(x)) : Len(t) \in Nat
      <3> HIDE DEF Words
      <3> QED
        OBVIOUS
    <2> QED
      BY <2>1 DEF Worded, Inv, Shape
  <1>4. ASSUME NEW j \in Own(c) PROVE j <= k
    <2>1. j \in DOMAIN log /\ log[j].case = c
      BY DEF Own
    <2>2. Ahead(run[e].text, log[j].text)
      BY <2>1 DEF Longest
    <2>3. k < j => Len(log[k].text) < Len(log[j].text)
      BY <1>2, <2>1 DEF Longest
    <2> QED
      BY <1>1, <1>3, <2>1, <2>2, <2>3 DEF Ahead
  <1>5. Newest(c, k)
    BY <1>2, <1>4 DEF Newest, Own
  <1> QED
    BY <1>1, <1>5, NewestIsLast DEF Inv

-----------------------------------------------------------------------------
(* A case that is settled stays so while nothing of it is extracted, or an *)
(* extraction is queued.                                                   *)
LEMMA HeardStays ==
  ASSUME Rows, Queue, Running, [Next]_vars, NEW c \in Cases, Heard(c)', ~Heard(c)
  PROVE  \E n \in Nat : n = nextId /\ Owed(n, "extract", c)'
  <1>1. PICK d \in normalised' : OwnWord(c, d)'
    BY DEF Heard
  <1>2. None \notin Cases
    BY PipelineAssumption DEF PipelineAssumption
  <1>3. d \notin normalised
    <2>1. SUFFICES ASSUME d \in normalised PROVE FALSE
      OBVIOUS
    <2>2. home[d] = c /\ Legible(d)
      BY <1>1, <2>1, NothingUndone DEF Rows, OwnWord, Legible
    <2>3. ASSUME NEW x \in Docs, home[x] \notin {c, None} PROVE Reading[x] # Reading[d]
      BY <1>1, <2>3, NothingUndone DEF OwnWord
    <2>4. Heard(c)
      BY <2>1, <2>2, <2>3 DEF Heard, OwnWord
    <2> QED
      BY <2>4
  <1>4. PICK e \in Executors : NormaliseCommit(e)
    BY <1>1, <1>3, WhoWrites
  <1>5. d = run[e].of /\ UNCHANGED home /\ Enqueue("extract", home[d])
    BY <1>1, <1>3, <1>4 DEF NormaliseCommit, Chain
  <1>6. Enqueue("extract", c)
    BY <1>1, <1>5 DEF OwnWord
  <1>7. \A s, o : Sensible(s, o) => Sensible(s, o)'
    BY StaysSensible
  <1>8. Sensible("extract", c)'
    BY DEF Sensible
  <1> QED
    BY <1>6, <1>7, <1>8, Enqueued

LEMMA SettledStays ==
  ASSUME Shape, Shape', Rows, Queue, Running, Dated, [Next]_vars, NEW c \in Cases, Settled(c),
         \A e \in Executors : ~(ExtractCommit(e) /\ run[e].of = c)
  PROVE  Settled(c)' \/ \E n \in Nat : n = nextId /\ Owed(n, "extract", c)'
  <1>1. SUFFICES ASSUME ~\E n \in Nat : n = nextId /\ Owed(n, "extract", c)'
                 PROVE  Settled(c)'
    OBVIOUS
  <1>2. \A t : t \in Complete(c) => t \in Complete(c)'
    BY <1>1, TextsGrow
  <1>3. Heard(c)' => Heard(c)
    BY <1>1, HeardStays
  <1>4. LastRead(c)' = LastRead(c)
    BY DatedStep
  <1> QED
    BY <1>2, <1>3, <1>4 DEF Settled

(* The commit of a text the case has settles it.                           *)
LEMMA CommitSettles ==
  ASSUME Shape, Shape', Running, Dated, [Next]_vars, NEW e \in Executors, NEW c \in Cases,
         ExtractCommit(e), run[e].of = c, run[e].text \in Complete(c)
  PROVE  Settled(c)'
  <1>1. LastRead(c)' = run[e].text
    <2>1. PICK k : k = Len(log) + 1
      OBVIOUS
    <2>2. Newest(c, k)'
      BY <2>1, NewestStep
    <2> QED
      BY <2>1, <2>2, NewestIsLast, Appended
  <1>2. Complete(c)' = Complete(c)
    BY DEF ExtractCommit, Complete, TextFrom, Telling
  <1> QED
    BY <1>1, <1>2 DEF Settled

(* The text a case has is all of its words.                                *)
LEMMA ReadIsComplete ==
  ASSUME Rows, NEW c
  PROVE  TextOf(c) \in Complete(c)
  <1>1. Telling(c, Docs) = Telling(c, normalised \cup Unreadable)
    BY DEF Telling, Rows
  <1> QED
    BY <1>1 DEF TextOf, TextFrom, Complete

(* How the worker comes to be done.                                        *)
LEMMA WhoIsDone ==
  ASSUME Shape, [Next]_vars, run'[Worker] # Idle, run'[Worker].phase = "done"
  PROVE  /\ run'[Worker] = run[Worker] \/ Stage(Worker) \/ GiveUp
         /\ run[Worker] # Idle /\ run'[Worker].job = run[Worker].job
         /\ run'[Worker].stage = run[Worker].stage /\ run'[Worker].of = run[Worker].of
  <1>1. Worker \in Executors /\ Webhooks \subseteq Executors /\ Worker \notin Webhooks
    BY PipelineAssumption DEF Executors, Worker, PipelineAssumption
  <1> DEFINE Goal == /\ run'[Worker] = run[Worker] \/ Stage(Worker) \/ GiveUp
                     /\ run[Worker] # Idle /\ run'[Worker].job = run[Worker].job
                     /\ run'[Worker].stage = run[Worker].stage /\ run'[Worker].of = run[Worker].of
  <1>2. ASSUME run'[Worker] = run[Worker] PROVE Goal
    BY <1>2
  <1>3. ASSUME NEW x \in Executors, x # Worker, NEW r, run' = [run EXCEPT ![x] = r] PROVE Goal
    BY <1>1, <1>2, <1>3 DEF Shape
  <1>4. ASSUME NEW x \in Executors, Stage(x) PROVE Goal
    <2>1. run[x] # Idle
      BY <1>4 DEF Stage, NormaliseClaim, NormaliseDegraded, NormaliseCommit, ExtractRead,
         ExtractClaim, ExtractCommit, ElicitCommit, At, Idle
    <2>2. CASE ExtractRead(x)
      <3>1. PICK t, p : run' = [run EXCEPT ![x].text = t, ![x].phase = p]
        BY <2>2 DEF ExtractRead
      <3> DEFINE r == [run[x] EXCEPT !.text = t, !.phase = p]
      <3>2. run' = [run EXCEPT ![x] = r]
        BY <3>1 DEF Shape
      <3>3. run[x] = [phase |-> run[x].phase, stage |-> run[x].stage, of |-> run[x].of,
                      job |-> run[x].job, case |-> run[x].case, text |-> run[x].text]
        BY <2>1 DEF Shape
      <3>4. r = [phase |-> p, stage |-> run[x].stage, of |-> run[x].of,
                 job |-> run[x].job, case |-> run[x].case, text |-> t]
        BY <3>3, ReadRecord
      <3> HIDE DEF r
      <3>5. CASE x = Worker
        <4>1. run'[Worker] = r
          BY <1>1, <3>2, <3>5 DEF Shape
        <4>2. r.stage = run[x].stage /\ r.of = run[x].of /\ r.job = run[x].job
          BY <3>4
        <4> QED
          BY <1>4, <2>1, <3>5, <4>1, <4>2
      <3>6. CASE x # Worker
        <4> HIDE DEF Goal
        <4> QED
          BY <1>3, <3>2, <3>6
      <3> QED
        BY <3>5, <3>6
    <2>3. CASE ~ExtractRead(x)
      <3>1. PICK p : Goto(x, p)
        BY <1>4, <2>3 DEF Stage, NormaliseClaim, NormaliseDegraded, NormaliseCommit,
           ExtractClaim, ExtractCommit, ElicitCommit
      <3>2. CASE x = Worker
        BY <1>4, <2>1, <3>1, <3>2, GoneTo
      <3>3. CASE x # Worker
        <4> HIDE DEF Goal
        <4> QED
          BY <1>1, <1>2, <2>1, <3>1, <3>3, GoneTo
      <3> QED
        BY <3>2, <3>3
    <2> QED
      BY <2>2, <2>3
  <1>5. ASSUME NEW c \in Cases, NEW d \in Docs, NEW w \in Webhooks, DeliverInline(w, c, d)
        PROVE  Goal
    <2> HIDE DEF Goal
    <2> QED
      BY <1>1, <1>3, <1>5 DEF DeliverInline
  <1>6. ASSUME NEW w \in Webhooks, Continue(w) PROVE Goal
    <2> HIDE DEF Goal
    <2> QED
      BY <1>1, <1>3, <1>6 DEF Continue
  <1>7. ASSUME NEW x \in Executors, Fail(x) PROVE Goal
    <2>1. CASE x = Worker
      <3>1. Goto(Worker, "failed") /\ run[Worker] # Idle
        BY <1>7, <2>1 DEF Fail, Idle
      <3>2. run'[Worker].phase = "failed"
        BY <1>1, <3>1, GoneTo
      <3> QED
        BY <3>2
    <2>2. CASE x # Worker
      <3> HIDE DEF Goal
      <3> QED
        BY <1>3, <1>7, <2>2 DEF Fail
    <2> QED
      BY <2>1, <2>2
  <1>8. ASSUME NEW j \in jobs, Take(j) PROVE Goal
    <2>1. PICK c : run'[Worker] = Start(j.stage, j.of, j.id, c)
      BY <1>1, <1>8 DEF Take, Shape
    <2>2. run'[Worker].phase = "start"
      BY <2>1 DEF Start
    <2> QED
      BY <2>2
  <1>9. ASSUME Retry \/ Finish \/ Crash PROVE Goal
    <2>1. run'[Worker] = Idle
      BY <1>1, <1>9 DEF Retry, Finish, Crash, Shape
    <2> QED
      BY <2>1
  <1>10. ASSUME GiveUp PROVE Goal
    <2>1. run[Worker] # Idle /\ Goto(Worker, "done")
      BY <1>10 DEF GiveUp, Idle
    <2> QED
      BY <1>1, <1>10, <2>1, GoneTo
  <1>11. ASSUME Restart \/ RestartUnreaped \/ UNCHANGED vars \/ \E c \in Cases, d \in Docs : Deliver(c, d) PROVE Goal
    BY <1>2, <1>11 DEF Restart, RestartUnreaped, vars, Deliver
  <1> HIDE DEF Goal
  <1>12. Goal
    BY <1>1, <1>4, <1>5, <1>6, <1>7, <1>8, <1>9, <1>10, <1>11 DEF Next, WorkerStep, Stamp, StampFails, WebhookStep
  <1> QED
    BY <1>12 DEF Goal

-----------------------------------------------------------------------------
(* A commit settles its case, or somebody else sees to it.                 *)
LEMMA CommitLeaves ==
  ASSUME Shape, Shape', Running, WorkerFinds, Dated, LastInHand, [Next]_vars,
         NEW e \in Executors, NEW c \in Cases, ExtractCommit(e), run[e].of = c
  PROVE  \/ Settled(c)'
         \/ e = Worker /\ Another("extract", c)
         \/ e # Worker /\ Asked(c)
  <1>1. /\ Extracting(e) /\ run[e] # Idle /\ run[e].stage = "extract"
        /\ run[e].phase = "claimed" /\ (e \in Webhooks \/ e = Worker)
    BY DEF ExtractCommit, At, Extracting, Idle, Executors
  <1>2. "extract" \in Stages /\ c \in Targets
    BY DEF Stages, Targets
  <1>3. CASE run[e].text \in Complete(c)
    BY <1>3, CommitSettles
  <1>4. CASE run[e].text \notin Complete(c) /\ e = Worker
    BY <1>1, <1>2, <1>4 DEF WorkerFinds
  <1>5. CASE run[e].text \notin Complete(c) /\ e # Worker
    BY <1>1, <1>5 DEF LastInHand
  <1> QED
    BY <1>3, <1>4, <1>5

(* A job stays until the worker is done with it.                           *)
LEMMA OwedStays ==
  ASSUME Shape, Rows, Queue, Running, [Next]_vars, NEW c \in Cases, NEW n \in Nat,
         Owed(n, "extract", c)
  PROVE  \/ Owed(n, "extract", c)'
         \/ /\ Finish /\ n = run[Worker].job
            /\ run[Worker] # Idle /\ run[Worker].phase = "done"
            /\ run[Worker].stage = "extract" /\ run[Worker].of = c
  <1>1. CASE QueueKept
    BY <1>1 DEF QueueKept
  <1>2. CASE Finish /\ \A m, s, o : Owed(m, s, o) => Owed(m, s, o)' \/ m = run[Worker].job
    <2>1. run[Worker] # Idle /\ run[Worker].phase = "done"
      BY <1>2 DEF Finish, Idle
    <2> QED
      BY <1>2, <2>1 DEF Running
  <1> QED
    BY <1>1, <1>2, QueueStep

(* The worker is done once it has read only when there is nothing to read. *)
LEMMA DoneReading ==
  ASSUME Shape, NEW c, ExtractRead(Worker), run[Worker] # Idle, run[Worker].of = c,
         run'[Worker].phase = "done"
  PROVE  TextOf(c) = <<>>
  <1>1. PICK t, p : /\ t = TextOf(c) /\ p = IF t = <<>> THEN "done" ELSE "read"
                    /\ run' = [run EXCEPT ![Worker].text = t, ![Worker].phase = p]
    BY DEF ExtractRead
  <1>2. Worker \in Executors
    BY DEF Executors
  <1>3. run'[Worker] = [run[Worker] EXCEPT !.text = t, !.phase = p]
    BY <1>1, <1>2 DEF Shape
  <1>4. run[Worker] = [phase |-> run[Worker].phase, stage |-> run[Worker].stage,
                       of |-> run[Worker].of, job |-> run[Worker].job,
                       case |-> run[Worker].case, text |-> run[Worker].text]
    BY <1>2 DEF Shape
  <1>5. run'[Worker] = [phase |-> p, stage |-> run[Worker].stage, of |-> run[Worker].of,
                        job |-> run[Worker].job, case |-> run[Worker].case, text |-> t]
    BY <1>3, <1>4, ReadRecord
  <1>6. run'[Worker].phase = p
    BY <1>5
  <1> QED
    BY <1>1, <1>6

(* Each case has its promise.                                              *)
LEMMA SettlingStep ==
  ASSUME Inv, Inv', Rows, Queue, Running, WorkerFinds, Dated, LastInHand, [Next]_vars,
         NEW c \in Cases
  PROVE  Settled(c)' \/ (\E n \in Nat : Owed(n, "extract", c)') \/ GaveUp("extract", c)'
  <1> DEFINE Goal == Settled(c)' \/ (\E n \in Nat : Owed(n, "extract", c)') \/ GaveUp("extract", c)'
  <1>1. Shape /\ Shape'
    BY DEF Inv
  <1>2. GaveUp("extract", c) => Goal
    BY NothingUndone DEF GaveUp
  <1>3. ASSUME NEW e \in Executors, ExtractCommit(e), run[e].of = c PROVE Goal
    <2>1. ~Finish
      <3>1. ~(run[e].phase = "done")
        BY <1>3 DEF ExtractCommit, At
      <3>2. run[e] # Idle /\ Goto(e, "done")
        BY <1>3 DEF ExtractCommit, At, Idle
      <3>3. run'[e] # run[e] /\ run'[e] # Idle
        BY <1>1, <3>1, <3>2, GoneTo DEF Idle
      <3>4. Finish => run'[e] = run[e] \/ run'[e] = Idle
        BY <1>1 DEF Finish, Shape
      <3> QED
        BY <3>3, <3>4
    <2>2. \A n \in Nat : Owed(n, "extract", c) => Goal
      BY <1>1, <2>1, OwedStays
    <2>3. Another("extract", c) \/ Asked(c) => Goal
      BY <1>2, <2>2 DEF Another, Asked
    <2> HIDE DEF Goal
    <2>4. Settled(c)' => Goal
      BY DEF Goal
    <2> QED
      BY <1>1, <1>3, <2>3, <2>4, CommitLeaves
  <1>4. ASSUME \A e \in Executors : ~(ExtractCommit(e) /\ run[e].of = c) PROVE Goal
    <2>1. Settled(c) => Goal
      BY <1>1, <1>4, SettledStays
    <2>2. ASSUME NEW n \in Nat, Owed(n, "extract", c) PROVE Goal
      <3>1. CASE Owed(n, "extract", c)'
        BY <3>1
      <3>2. CASE /\ Finish /\ n = run[Worker].job
                 /\ run[Worker] # Idle /\ run[Worker].phase = "done"
                 /\ run[Worker].stage = "extract" /\ run[Worker].of = c
        <4>1. Settled(c) \/ Another("extract", c)
          BY <3>2 DEF LastInHand
        <4>2. ASSUME NEW m \in Nat, m # run[Worker].job, Owed(m, "extract", c) PROVE Goal
          BY <1>1, <4>2, OwedStays
        <4> HIDE DEF Goal
        <4> QED
          BY <1>2, <2>1, <4>1, <4>2 DEF Another
      <3> QED
        BY <1>1, <2>2, <3>1, <3>2, OwedStays
    <2> HIDE DEF Goal
    <2> QED
      BY <1>2, <2>1, <2>2 DEF LastInHand
  <1> HIDE DEF Goal
  <1>5. Goal
    BY <1>3, <1>4
  <1> QED
    BY <1>5 DEF Goal

(* The worker is done with an extraction when the case is settled, or      *)
(* somebody else is to see to it.                                          *)
LEMMA DoneStep ==
  ASSUME Inv, Inv', Rows, Queue, Running, WorkerFinds, Logged, Dating, Worded, Longest, Dated,
         LastInHand, [Next]_vars, NEW c \in Cases,
         run'[Worker] # Idle, run'[Worker].phase = "done", run'[Worker].stage = "extract",
         run'[Worker].of = c
  PROVE  Settled(c)' \/ Another("extract", c)'
  <1>1. Shape /\ Shape' /\ Worker \in Executors
    BY DEF Inv, Executors
  <1>2. /\ run'[Worker] = run[Worker] \/ Stage(Worker) \/ GiveUp
        /\ run[Worker] # Idle /\ run'[Worker].job = run[Worker].job
        /\ run[Worker].stage = "extract" /\ run[Worker].of = c
    BY <1>1, WhoIsDone
  <1>3. QueueKept
    <2>1. ~Finish
      <3>1. Finish => run'[Worker] = Idle
        BY <1>1 DEF Finish, Shape
      <3> QED
        BY <3>1
    <2> QED
      BY <2>1, QueueStep
  <1>4. Another("extract", c) => Another("extract", c)'
    BY <1>2, <1>3, AnotherStays
  <1>5. (\E n \in Nat : n = nextId /\ Owed(n, "extract", c)') => Another("extract", c)'
    <2>1. run[Worker].job < nextId /\ run[Worker].job \in Nat /\ nextId \in Nat
      BY <1>2 DEF Running, Queue
    <2> QED
      BY <1>2, <2>1 DEF Another
  <1>6. ASSUME Settled(c), \A e \in Executors : ~(ExtractCommit(e) /\ run[e].of = c)
        PROVE  Settled(c)' \/ Another("extract", c)'
    BY <1>1, <1>5, <1>6, SettledStays
  <1>7. CASE run'[Worker] = run[Worker]
    <2>1. Settled(c) \/ Another("extract", c)
      BY <1>2, <1>7 DEF LastInHand
    <2>2. ASSUME NEW e \in Executors, ExtractCommit(e), run[e].of = c
          PROVE  Settled(c)' \/ Another("extract", c)'
      <3>1. e # Worker
        BY <1>7, <2>2 DEF ExtractCommit, At
      <3>2. Asked(c) => Another("extract", c)
        BY <1>7 DEF Asked, Another
      <3> QED
        BY <1>1, <1>4, <2>2, <3>1, <3>2, CommitLeaves
    <2> QED
      BY <1>4, <1>6, <2>1, <2>2
  <1>8. CASE GiveUp
    <2>1. PICK j \in jobs : j.id = run[Worker].job /\ gaveUp' = gaveUp \cup {<<j.stage, j.of>>}
      BY <1>8 DEF GiveUp, Taken
    <2>2. j.stage = "extract" /\ j.of = c
      BY <1>2, <2>1 DEF Running, Owed
    <2> QED
      BY <2>1, <2>2 DEF Another, GaveUp
  <1>9. CASE Stage(Worker)
    <2>1. ExtractRead(Worker) \/ ExtractClaim(Worker) \/ ExtractCommit(Worker)
      BY <1>2, <1>9 DEF Stage, NormaliseClaim, NormaliseDegraded, NormaliseCommit, ElicitCommit, At
    <2>2. CASE ExtractCommit(Worker)
      BY <1>1, <1>2, <1>4, <2>2, CommitLeaves
    <2>3. CASE ExtractRead(Worker)
      <3>1. UNCHANGED <<home, before, content, normalised, log>>
        BY <2>3 DEF ExtractRead, dataVars
      <3>2. TextOf(c) = <<>>
        BY <1>1, <1>2, <2>3, DoneReading
      <3>3. ~Heard(c)
        <4>1. Telling(c, Docs) = {}
          <5>1. Telling(c, Docs) \in SUBSET Docs
            BY DEF Telling
          <5> QED
            BY <3>2, <5>1, JoinedEmpty DEF TextOf, TextFrom
        <4> QED
          BY <4>1 DEF Heard, OwnWord, Legible, Telling, Rows
      <3>4. ~Heard(c)'
        BY <3>1, <3>3 DEF Heard, OwnWord, Legible
      <3> QED
        BY <3>4 DEF Settled
    <2>4. CASE ExtractClaim(Worker)
      <3>1. UNCHANGED <<home, before, content, normalised, log>> /\ run[Worker].phase = "read"
        BY <2>4 DEF ExtractClaim, dataVars, At
      <3>2. run[Worker].text \in extracted
        <4>1. Goto(Worker, IF run[Worker].text \in extracted THEN "done" ELSE "claimed")
          BY <2>4 DEF ExtractClaim, Known
        <4>2. run'[Worker].phase = IF run[Worker].text \in extracted THEN "done" ELSE "claimed"
          BY <1>1, <1>2, <4>1, GoneTo
        <4> QED
          BY <4>2
      <3>3. run[Worker].text \in Complete(c) \/ Another("extract", c)
        <4>1. "extract" \in Stages /\ c \in Targets
          BY DEF Stages, Targets
        <4> QED
          BY <1>2, <3>1, <4>1 DEF WorkerFinds
      <3>4. ASSUME run[Worker].text \in Complete(c) PROVE Settled(c)
        <4>1. Extracting(Worker)
          BY <1>2, <3>1 DEF Extracting
        <4>2. Heard(c) => LastRead(c) = run[Worker].text
          BY <1>1, <1>2, <3>2, <3>4, <4>1, KnownIsLast
        <4> QED
          BY <3>4, <4>2 DEF Settled
      <3>5. Settled(c) => Settled(c)'
        <4>1. LastRead(c)' = LastRead(c)
          BY <3>1 DEF LastRead
        <4>2. Complete(c)' = Complete(c)
          BY <3>1 DEF Complete, TextFrom, Telling
        <4>3. Heard(c)' <=> Heard(c)
          BY <3>1 DEF Heard, OwnWord, Legible
        <4> QED
          BY <4>1, <4>2, <4>3 DEF Settled
      <3> QED
        BY <1>4, <3>3, <3>4, <3>5
    <2> QED
      BY <2>1, <2>2, <2>3, <2>4
  <1> QED
    BY <1>2, <1>7, <1>8, <1>9

(* What a webhook holds is all of the case's words, or a job that reads    *)
(* later is there.                                                         *)
LEMMA AskedStep ==
  ASSUME Inv, Inv', Rows, Queue, Running, Dating, Worded, LastInHand, ~Overlap, [Next]_vars,
         NEW w \in Webhooks, NEW c \in Cases, Extracting(w)', run'[w].of = c
  PROVE  run'[w].text \in Complete(c)' \/ Asked(c)'
  <1>1. Shape /\ Shape' /\ w \in Executors /\ Worker \in Executors /\ w # Worker
    BY PipelineAssumption DEF Inv, Executors, Worker, PipelineAssumption
  <1>2. CASE Reads(w)
    <2>1. UNCHANGED dataVars /\ run[w].of = c /\ run'[w].text = TextOf(c)
      BY <1>2 DEF Reads, ExtractRead
    <2>2. TextOf(c) \in Complete(c)
      BY ReadIsComplete
    <2>3. Complete(c)' = Complete(c)
      BY <2>1 DEF dataVars, Complete, TextFrom, Telling
    <2> QED
      BY <2>1, <2>2, <2>3
  <1>3. CASE Extracting(w) /\ run'[w].of = run[w].of /\ run'[w].text = run[w].text
    <2>1. run[w].text \in Complete(c) \/ Asked(c)
      BY <1>3 DEF LastInHand
    <2>2. run[w].text # <<>> /\ run[w].of = c /\ Fits(run[w].text, c) /\ run[w].text \in Seq(Words(c))
      BY <1>1, <1>3 DEF Worded
    <2>3. CASE run[w].text \in Complete(c)
      <3>1. ASSUME NEW n \in Nat, n = nextId, Owed(n, "extract", c)' PROVE Asked(c)'
        <4>1. ~(run'[Worker].phase = "done" /\ run'[Worker].job = n)
          <5>1. SUFFICES ASSUME run'[Worker].phase = "done", run'[Worker].job = n PROVE FALSE
            OBVIOUS
          <5>2. run'[Worker] # Idle
            BY <5>1 DEF Idle
          <5>3. run[Worker] # Idle /\ run[Worker].job = n
            BY <1>1, <5>1, <5>2, WhoIsDone
          <5> QED
            BY <3>1, <5>3 DEF Running
        <4> QED
          BY <3>1, <4>1 DEF Asked
      <3> QED
        BY <1>3, <2>3, <3>1, TextsGrow
    <2>4. CASE GaveUp("extract", c)
      BY <2>4, NothingUndone DEF Asked, GaveUp
    <2>5. ASSUME NEW n \in Nat, Owed(n, "extract", c),
                 ~(run[Worker].phase = "done" /\ run[Worker].job = n)
          PROVE  Asked(c)'
      <3>1. Owed(n, "extract", c)'
        BY <1>1, <2>5, OwedStays
      <3>2. CASE ~(run'[Worker].phase = "done" /\ run'[Worker].job = n)
        BY <3>1, <3>2 DEF Asked
      <3>3. ASSUME run'[Worker].phase = "done", run'[Worker].job = n
            PROVE  Asked(c)'
        <4>1. run'[Worker] # Idle
          BY <3>3 DEF Idle
        <4>2. /\ run'[Worker] = run[Worker] \/ Stage(Worker) \/ GiveUp
              /\ run[Worker] # Idle /\ run[Worker].job = n
          BY <1>1, <3>3, <4>1, WhoIsDone
        <4>3. run[Worker].stage = "extract" /\ run[Worker].of = c
          BY <2>5, <4>2 DEF Running
        <4>4. run'[Worker] # run[Worker]
          BY <2>5, <3>3, <4>2
        <4>5. CASE GiveUp
          <5>1. PICK j \in jobs : j.id = run[Worker].job /\ gaveUp' = gaveUp \cup {<<j.stage, j.of>>}
            BY <4>5 DEF GiveUp, Taken
          <5>2. j.stage = "extract" /\ j.of = c
            BY <4>2, <4>3, <5>1 DEF Running, Owed
          <5> QED
            BY <5>1, <5>2 DEF Asked, GaveUp
        <4>6. ASSUME Stage(Worker) PROVE FALSE
          <5>1. ExtractRead(Worker) \/ ExtractClaim(Worker) \/ ExtractCommit(Worker)
            BY <4>3, <4>6 DEF Stage, NormaliseClaim, NormaliseDegraded, NormaliseCommit,
               ElicitCommit, At
          <5>2. ~Extracting(Worker)
            BY <1>1, <1>3, <2>2, <4>3 DEF Overlap
          <5>3. ExtractRead(Worker)
            BY <5>1, <5>2 DEF ExtractClaim, ExtractCommit, At, Extracting
          <5>4. TextOf(c) = <<>>
            BY <1>1, <3>3, <4>2, <4>3, <5>3, DoneReading
          <5>5. Len(TextOf(c)) = Cardinality(Telling(c, Docs)) /\ Len(TextOf(c)) = 0
            BY <5>4, TextIs
          <5>6. Len(run[w].text) <= 0
            BY <2>2, <5>5 DEF Fits
          <5>7. \A t \in Seq(Words(c)) : Len(t) <= 0 => t = <<>>
            <6> HIDE DEF Words
            <6> QED
              OBVIOUS
          <5> QED
            BY <2>2, <5>6, <5>7
        <4> QED
          BY <4>2, <4>4, <4>5, <4>6
      <3> QED
        BY <3>2, <3>3
    <2> QED
      BY <2>1, <2>3, <2>4, <2>5 DEF Asked
  <1> QED
    BY <1>1, <1>2, <1>3, WhoExtracts

LEMMA LastInHandStep ==
  ASSUME Inv, Inv', Rows, Queue, Running, WorkerFinds, Logged, Dating, Worded, Longest, Dated,
         LastInHand, ~Overlap, [Next]_vars
  PROVE  LastInHand'
  BY SettlingStep, DoneStep, AskedStep DEF LastInHand

-----------------------------------------------------------------------------
(* All of it together.                                                     *)
LastInv ==
  /\ Dating /\ Worded /\ Dated
  /\ alone => ~Overlap /\ Longest /\ LastInHand

LEMMA LastInvInit == InitAlone => LastInv
  <1> SUFFICES ASSUME InitAlone PROVE LastInv
    OBVIOUS
  <1>1. /\ log = <<>> /\ content = {} /\ before = {} /\ normalised = {} /\ extracted = {}
        /\ \A e \in Executors : run[e] = Idle
    BY DEF InitAlone, Init
  <1>2. \A e \in Executors : ~Extracting(e) /\ ~At(e, "normalise", "claimed")
    BY <1>1 DEF Extracting, At, Idle
  <1>3. DOMAIN log = {}
    BY <1>1
  <1>4. Dating
    BY <1>1, <1>2 DEF Dating
  <1>5. Worded
    BY <1>1, <1>2, <1>3 DEF Worded
  <1>6. Dated
    BY <1>3 DEF Dated, Own
  <1>7. ~Overlap /\ Longest
    BY <1>2, <1>3 DEF Overlap, Longest
  <1>8. LastInHand
    <2>1. \A c \in Cases : Settled(c)
      BY <1>1 DEF Settled, Heard
    <2>2. \A w \in Webhooks : ~Extracting(w)
      BY <1>2 DEF Executors
    <2> QED
      BY <2>1, <2>2 DEF LastInHand
  <1> QED
    BY <1>4, <1>5, <1>6, <1>7, <1>8 DEF LastInv

LEMMA LastInvStep ==
  ASSUME Inv, Inv', HandInv, HandInv', LastInv, [NextAlone]_<<vars, alone>>
  PROVE  LastInv'
  <1>1. /\ Shape /\ Shape' /\ Rows /\ Rows' /\ Queue /\ Running /\ WorkerFinds /\ Logged
        /\ Dating /\ Worded /\ Dated
    BY DEF HandInv, LastInv
  <1>2. [Next]_vars
    BY DEF NextAlone
  <1>3. Dating'
    BY <1>1, <1>2, DatingStep
  <1>4. Worded'
    BY <1>1, <1>2, <1>3, WordedStep
  <1>5. Dated'
    BY <1>1, <1>2, DatedStep
  <1>6. ASSUME alone' PROVE ~Overlap' /\ Longest' /\ LastInHand'
    <2>1. alone /\ ~Overlap /\ Longest /\ LastInHand
      BY <1>6 DEF NextAlone, LastInv
    <2>2. ~Overlap'
      <3>1. CASE NextAlone
        BY <1>6, <3>1 DEF NextAlone
      <3>2. CASE UNCHANGED <<vars, alone>>
        BY <2>1, <3>2 DEF vars, Overlap, Extracting
      <3> QED
        BY <3>1, <3>2
    <2>3. Longest'
      BY <1>1, <1>2, <2>1, LongestStep
    <2>4. LastInHand'
      BY <1>1, <1>2, <2>1, LastInHandStep
    <2> QED
      BY <2>2, <2>3, <2>4
  <1> QED
    BY <1>3, <1>4, <1>5, <1>6 DEF LastInv

(* "Last text wins": when nothing is left to do, and the extractions of a  *)
(* case ran one after another, what a case holds was extracted from all    *)
(* that its documents say, unless its extraction ran out of retries.       *)
THEOREM LastTextDoesWin == SpecAlone => []LastTextWinsAlone
  <1>1. InitAlone => Inv /\ HandInv /\ LastInv
    BY InvInit, HandInvInit, LastInvInit DEF InitAlone
  <1>2. Inv /\ HandInv /\ LastInv /\ [NextAlone]_<<vars, alone>> => (Inv /\ HandInv /\ LastInv)'
    <2> SUFFICES ASSUME Inv, HandInv, LastInv, [NextAlone]_<<vars, alone>>
                 PROVE  (Inv /\ HandInv /\ LastInv)'
      OBVIOUS
    <2>1. [Next]_vars
      BY DEF NextAlone
    <2>2. Inv' /\ HandInv'
      BY <2>1, InvStep, HandInvStep
    <2>3. LastInv'
      BY <2>2, LastInvStep
    <2> QED
      BY <2>2, <2>3
  <1>3. LastInv => LastTextWinsAlone
    <2> SUFFICES ASSUME LastInv, alone, Quiet, NEW c \in Cases, Heard(c), <<"extract", c>> \notin gaveUp
                 PROVE  LastRead(c) \in Complete(c)
      BY DEF LastTextWinsAlone, LastTextWins, Heard
    <2>1. ~\E n \in Nat : Owed(n, "extract", c)
      BY DEF Quiet, Owed
    <2> QED
      BY <2>1 DEF LastInv, LastInHand, GaveUp, Settled
  <1> QED
    BY <1>1, <1>2, <1>3, PTL DEF SpecAlone
=============================================================================
