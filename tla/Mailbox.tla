------------------------------- MODULE Mailbox -------------------------------
(***************************************************************************)
(* What dispatch promises of one case: a question is delivered after it    *)
(* was asked, at least once before it is on record, and never again once   *)
(* it is.                                                                  *)
(***************************************************************************)
EXTENDS Integers

CONSTANT Questions

VARIABLES asked, copies, recorded

Init == asked = {} /\ copies = [q \in Questions |-> 0] /\ recorded = {}

Ask(q) == asked' = asked \cup {q} /\ UNCHANGED <<copies, recorded>>

Deliver(q) ==
  /\ q \in asked \ recorded
  /\ copies' = [copies EXCEPT ![q] = @ + 1]
  /\ UNCHANGED <<asked, recorded>>

Record(q) ==
  /\ copies[q] > 0
  /\ recorded' = recorded \cup {q}
  /\ UNCHANGED <<asked, copies>>

Next == \E q \in Questions : Ask(q) \/ Deliver(q) \/ Record(q)

Spec == Init /\ [][Next]_<<asked, copies, recorded>>
=============================================================================
