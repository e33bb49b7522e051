---------------------------- MODULE MCJobPipeline ----------------------------
(* JobPipeline on small instances: two customers, a document both may send, *)
(* one that only adds to a case, and one this host reads only in part.      *)
EXTENDS JobPipeline, TLC

CONSTANTS c1, c2, d1, d2, d3, w1

MCReading == (d1 :> "hello") @@ (d2 :> "hello") @@ (d3 :> "torn")
MCTwo     == (d1 :> "hello") @@ (d2 :> "melted")

(* The cases are alike; for the runs without a liveness property.           *)
CaseSymmetry == Permutations({c1, c2})

-----------------------------------------------------------------------------
(* History: no two extractions of one case overlapped.                      *)
VARIABLE alone

Extracting(e) == run[e].phase \in {"read", "claimed"} /\ run[e].stage = "extract"
Overlap ==
  \E e, x \in Executors : e # x /\ Extracting(e) /\ Extracting(x) /\ run[e].of = run[x].of

InitAlone == Init /\ alone = TRUE
NextAlone == Next /\ alone' = (alone /\ ~Overlap')
SpecAlone == InitAlone /\ [][NextAlone]_<<vars, alone>> /\ Fairness

(* For the run "settles": a job that uses up its retry and cannot stamp its *)
(* case takes three failures.  One document may meet them, or two and a     *)
(* crash; two documents meet two, or one and a crash.                       *)
Spared       == deliveries + failures + crashes <= 4
SpecSettling == InitAlone /\ [][NextAlone /\ Spared']_<<vars, alone>> /\ Fairness

(* "Last text wins", for extractions of a case that run one after another.  *)
LastTextWinsAlone == alone => LastTextWins
=============================================================================
