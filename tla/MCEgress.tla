------------------------------ MODULE MCEgress ------------------------------
(* Egress on small instances: two workers of which one may have bypassed    *)
(* the lock, or one worker and a webhook request.                           *)
EXTENDS Egress

CONSTANTS w1, w2, h1, q1, q2, MaxFaults

VARIABLE inline

(* With a request about, the second worker is never started.  A bypassed lock *)
(* counts as a fault.                                                       *)
Plays(s) == s = w1 \/ inline = (s = h1)

InitCast == Init /\ inline \in BOOLEAN /\ bypassing \in {{}, {w2}}
NextCast ==
  /\ Next /\ UNCHANGED inline
  /\ failures' + crashes' + lockLosses' + reapFailures' + Cardinality(bypassing) <= MaxFaults
  /\ \A w \in Workers : ~Plays(w) => proc'[w] = "down"
  /\ \A h \in Webhooks : ~Plays(h) => send'[h] = Resting

FairnessCast ==
  /\ \A w \in Workers : WF_<<vars, inline>>(WorkerStep(w) /\ Plays(w) /\ UNCHANGED inline)
  /\ \A h \in Webhooks : WF_<<vars, inline>>(DispatchStep(h) /\ UNCHANGED inline)

SpecCast == InitCast /\ [][NextCast]_<<vars, inline>> /\ FairnessCast
=============================================================================
