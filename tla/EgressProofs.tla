----------------------------- MODULE EgressProofs -----------------------------
(***************************************************************************)
(* Dispatch keeps the promise of a mailbox for every number of workers,    *)
(* webhook requests and questions, whatever crashes, is lost or is run     *)
(* twice: the unique key of outbound_message alone orders the senders.     *)
(* The lock is needed for something else: that no job is run by two        *)
(* workers at once.                                                        *)
(***************************************************************************)
EXTENDS Egress, TLAPS

Working == {"read", "claimed", "sent"}

(* A question on its way was asked, and one that is claimed has no row.    *)
FromAsked ==
  /\ incomplete => pending \in asked
  /\ \A s \in Senders : send[s].phase \in Working => send[s].q \in asked
Unrecorded == \A s \in Senders : Open(s) => send[s].q \notin ledger

OutInv == OutTypeOK /\ FromAsked /\ OneClaim /\ Unrecorded /\ CopiesAccounted

(* What a step of Next does to the question on its way out.                *)
Sending(s) == \/ Begin(s) \/ Claim(s) \/ Transmit(s) \/ TransmitFails(s) \/ Commit(s)
              \/ CommitFails(s) \/ Rest(s) \/ Abort(s)
OutStep == \/ \E q \in Questions : Ask(q)
           \/ MoveOn
           \/ \E s \in Senders : Sending(s)
           \/ UNCHANGED outVars

LEMMA NextIsOutStep ==
  ASSUME EgressAssumption, [Next]_vars
  PROVE  OutStep
<1>1. Workers \subseteq Senders /\ Webhooks \subseteq Senders
  BY EgressAssumption DEF EgressAssumption
<1> QED
  BY <1>1 DEF Next, vars, AskAndDefer, CaseMovesOn, Crash, EndJob, TakeJob, DispatchStep,
              BreakStep, BeginInline, Fleet, Dispatch, Break, OutStep, Sending

-----------------------------------------------------------------------------
(* One sender moves on: the others stay where they are.                    *)
LEMMA GotoIs ==
  ASSUME OutTypeOK, NEW s \in Senders, NEW phase, NEW q, Goto(s, phase, q)
  PROVE  /\ send'[s] = [phase |-> phase, q |-> q]
         /\ \A r \in Senders : r # s => send'[r] = send[r]
BY DEF Goto, OutTypeOK

(* Every step keeps the types.                                             *)
LEMMA OutTypes ==
  ASSUME OutInv, OutStep
  PROVE  OutTypeOK'
<1> USE DEF OutInv, caseRow
<1>1. ASSUME NEW q \in Questions, Ask(q) PROVE OutTypeOK'
  BY <1>1 DEF Ask, OutTypeOK
<1>2. CASE MoveOn
  BY <1>2 DEF MoveOn, OutTypeOK
<1>3. CASE UNCHANGED outVars
  BY <1>3 DEF outVars, OutTypeOK
<1>4. ASSUME NEW s \in Senders, Sending(s) PROVE OutTypeOK'
  <2>1. incomplete' \in BOOLEAN /\ pending' \in Questions \cup {NoQuestion}
        /\ reachable' \in BOOLEAN /\ asked' \subseteq Questions
    BY <1>4 DEF Sending, Begin, Claim, Transmit, TransmitFails, Commit, CommitFails, Rest, Abort,
                OutTypeOK
  <2>2. send[s].phase \in Working => send[s].q \in Questions
    BY DEF FromAsked, OutTypeOK
  <2>3. ledger' \subseteq Questions
    BY <1>4, <2>2 DEF Sending, Begin, Claim, Transmit, TransmitFails, Commit, CommitFails, Rest,
                      Abort, OutTypeOK, Working
  <2>4. inbox' \in [Questions -> Nat] /\ lost' \in [Questions -> Nat]
    <3>1. inbox' = inbox \/ (send[s].phase \in Working
                             /\ inbox' = [inbox EXCEPT ![send[s].q] = @ + 1])
      BY <1>4 DEF Sending, Begin, Claim, Transmit, TransmitFails, Commit, CommitFails, Rest,
                  Abort, Working
    <3>2. lost' = lost \/ (send[s].phase \in Working
                           /\ lost' = [lost EXCEPT ![send[s].q] = @ + 1])
      BY <1>4 DEF Sending, Begin, Claim, Transmit, TransmitFails, Commit, CommitFails, Rest,
                  Abort, Forget, Working
    <3> QED BY <2>2, <3>1, <3>2 DEF OutTypeOK
  <2>5. \E phase \in {"rest", "read", "claimed", "sent", "done", "failed"},
           q \in Questions \cup {NoQuestion} : Goto(s, phase, q)
    BY <1>4, <2>2 DEF Sending, Begin, Claim, Transmit, TransmitFails, Commit, CommitFails, Rest,
                      Abort, End, Working, OutTypeOK, ToSend
  <2>6. send' \in [Senders -> [phase : {"rest", "read", "claimed", "sent", "done", "failed"},
                               q : Questions \cup {NoQuestion}]]
    <3>1. PICK p \in {"rest", "read", "claimed", "sent", "done", "failed"},
               o \in Questions \cup {NoQuestion} : Goto(s, p, o)
      BY <2>5
    <3>2. send' = [r \in Senders |-> IF r = s THEN [phase |-> p, q |-> o] ELSE send[r]]
      BY <3>1 DEF Goto, OutTypeOK
    <3> DEFINE Places == [phase : {"rest", "read", "claimed", "sent", "done", "failed"},
                          q : Questions \cup {NoQuestion}]
    <3>3. [phase |-> p, q |-> o] \in Places
      BY <3>1
    <3>4. \A r \in Senders : send[r] \in Places
      BY DEF OutTypeOK
    <3> HIDE DEF Places
    <3>5. send' \in [Senders -> Places]
      BY <3>2, <3>3, <3>4
    <3> QED BY <3>5 DEF Places
  <2> QED BY <2>1, <2>3, <2>4, <2>6 DEF OutTypeOK
<1> QED BY <1>1, <1>2, <1>3, <1>4 DEF OutStep

(* Ask and MoveOn leave the senders, the ledger and the copies alone.      *)
LEMMA CaseStep ==
  ASSUME OutInv,
         \/ \E q \in Questions : Ask(q)
         \/ MoveOn
         \/ UNCHANGED outVars
  PROVE  FromAsked' /\ OneClaim' /\ Unrecorded' /\ CopiesAccounted'
<1>1. UNCHANGED <<ledger, inbox, lost, send>>
  BY DEF Ask, MoveOn, outVars
<1>2. asked \subseteq asked' /\ (incomplete' => pending' \in asked')
  BY DEF Ask, MoveOn, outVars, OutInv, FromAsked, caseRow
<1>3. FromAsked'
  BY <1>1, <1>2 DEF OutInv, FromAsked
<1>4. OneClaim' /\ Unrecorded' /\ CopiesAccounted'
  BY <1>1 DEF OutInv, OneClaim, Unrecorded, CopiesAccounted, Open, InFlight
<1> QED BY <1>3, <1>4

(* A step that ends or reads: nobody opens, and the ledger stays.          *)
LEMMA QuietStep ==
  ASSUME OutInv, NEW s \in Senders,
         Begin(s) \/ (Claim(s) /\ Recorded(send[s].q)) \/ Rest(s)
  PROVE  FromAsked' /\ OneClaim' /\ Unrecorded' /\ CopiesAccounted'
<1>1. UNCHANGED <<incomplete, pending, asked, ledger, inbox, lost>>
  BY DEF Begin, Claim, Rest, caseRow
<1>2. ~Open(s)
  BY DEF Begin, Claim, Rest, Resting, Open
<1>3. PICK phase \in {"rest", "read", "done", "failed"}, q \in Questions \cup {NoQuestion} :
        Goto(s, phase, q) /\ (phase = "read" => q \in asked)
  <2>1. CASE Begin(s)
    BY <2>1 DEF Begin, End, ToSend, OutInv, FromAsked, OutTypeOK
  <2>2. CASE Claim(s) /\ Recorded(send[s].q)
    BY <2>2 DEF Claim, End
  <2>3. CASE Rest(s)
    BY <2>3 DEF Rest
  <2> QED BY <2>1, <2>2, <2>3
<1>4. send'[s] = [phase |-> phase, q |-> q] /\ \A r \in Senders : r # s => send'[r] = send[r]
  BY <1>3, GotoIs DEF OutInv
<1>5. FromAsked'
  BY <1>1, <1>3, <1>4 DEF OutInv, FromAsked, Working
<1>6. \A r \in Senders : Open(r)' => r # s /\ Open(r) /\ send'[r] = send[r]
  BY <1>3, <1>4 DEF Open
<1>7. OneClaim' /\ Unrecorded'
  BY <1>1, <1>6 DEF OutInv, OneClaim, Unrecorded
<1>8. \A p \in Questions : InFlight(p)' <=> InFlight(p)
  BY <1>2, <1>3, <1>4 DEF InFlight, Open
<1>9. CopiesAccounted'
  BY <1>1, <1>8 DEF OutInv, CopiesAccounted
<1> QED BY <1>5, <1>7, <1>9

(* The claim of a question without a row: its key was free.                *)
LEMMA ClaimStep ==
  ASSUME OutInv, NEW s \in Senders, Claim(s), ~Recorded(send[s].q)
  PROVE  FromAsked' /\ OneClaim' /\ Unrecorded' /\ CopiesAccounted'
<1>1. UNCHANGED <<incomplete, pending, asked, ledger, inbox, lost>>
  BY DEF Claim, caseRow
<1>2. Goto(s, "claimed", send[s].q) /\ send[s].phase = "read"
  BY DEF Claim
<1>3. send'[s] = [phase |-> "claimed", q |-> send[s].q]
      /\ \A r \in Senders : r # s => send'[r] = send[r]
  BY <1>2, GotoIs DEF OutInv
<1>4. \A r \in Senders : Open(r) => send[r].q # send[s].q
  BY DEF Claim, OpenClaims, Open
<1>5. FromAsked'
  BY <1>1, <1>2, <1>3 DEF OutInv, FromAsked, Working
<1>6. OneClaim'
  BY <1>3, <1>4 DEF OutInv, OneClaim, Open
<1>7. Unrecorded'
  BY <1>1, <1>3 DEF OutInv, Unrecorded, Open, Recorded
<1>8. \A p \in Questions : InFlight(p)' <=> InFlight(p)
  BY <1>2, <1>3 DEF InFlight
<1>9. CopiesAccounted'
  BY <1>1, <1>8 DEF OutInv, CopiesAccounted
<1> QED BY <1>5, <1>6, <1>7, <1>9

(* A claimed question goes out, or goes out and is lost.                   *)
LEMMA TransmitStep ==
  ASSUME OutInv, NEW s \in Senders, Transmit(s) \/ TransmitFails(s)
  PROVE  FromAsked' /\ OneClaim' /\ Unrecorded' /\ CopiesAccounted'
<1> DEFINE q == send[s].q
<1>1. UNCHANGED <<incomplete, pending, asked, ledger>> /\ send[s].phase = "claimed"
  BY DEF Transmit, TransmitFails, caseRow
<1>2. q \in Questions /\ q \in asked /\ q \notin ledger
  BY <1>1 DEF OutInv, OutTypeOK, FromAsked, Unrecorded, Open, Working
<1>3. \A r \in Senders : r # s /\ Open(r) => send[r].q # q
  BY <1>1 DEF OutInv, OneClaim, Open
<1>4. inbox[q] = lost[q]
  BY <1>1, <1>2, <1>3 DEF OutInv, CopiesAccounted, InFlight, Open, OutTypeOK
<1>5. PICK phase \in {"rest", "sent", "failed"}, p \in {q, NoQuestion} :
        Goto(s, phase, p) /\ (phase = "sent" <=> Transmit(s)) /\ (phase = "sent" => p = q)
  <2>1. CASE Transmit(s)
    BY <2>1 DEF Transmit
  <2>2. CASE TransmitFails(s) /\ ~Transmit(s)
    BY <2>2 DEF TransmitFails, End
  <2> QED BY <2>1, <2>2
<1>6. send'[s] = [phase |-> phase, q |-> p] /\ \A r \in Senders : r # s => send'[r] = send[r]
  BY <1>5, GotoIs DEF OutInv
<1>7. FromAsked'
  BY <1>1, <1>2, <1>5, <1>6 DEF OutInv, FromAsked, Working
<1>8. OneClaim'
  BY <1>3, <1>5, <1>6 DEF OutInv, OneClaim, Open
<1>9. Unrecorded'
  BY <1>1, <1>2, <1>5, <1>6 DEF OutInv, Unrecorded, Open
<1>10. ASSUME NEW o \in Questions
       PROVE  inbox'[o] = lost'[o] + (IF o \in ledger' \/ InFlight(o)' THEN 1 ELSE 0)
  <2>1. CASE o # q
    <3>1. inbox'[o] = inbox[o] /\ lost'[o] = lost[o]
      BY <2>1, <1>2 DEF Transmit, TransmitFails, OutInv, OutTypeOK
    <3>2. InFlight(o)' <=> InFlight(o)
      BY <2>1, <1>1, <1>5, <1>6 DEF InFlight
    <3> QED BY <3>1, <3>2, <1>1 DEF OutInv, CopiesAccounted
  <2>2. CASE o = q /\ Transmit(s)
    <3>1. inbox'[o] = inbox[o] + 1 /\ lost'[o] = lost[o]
      BY <2>2, <1>2 DEF Transmit, OutInv, OutTypeOK
    <3>2. InFlight(o)'
      BY <2>2, <1>5, <1>6 DEF InFlight
    <3> QED BY <3>1, <3>2, <2>2, <1>2, <1>4 DEF OutInv, OutTypeOK
  <2>3. CASE o = q /\ ~Transmit(s)
    <3>1. inbox'[o] = lost'[o] /\ inbox'[o] \in Nat
      BY <2>3, <1>2, <1>4 DEF TransmitFails, OutInv, OutTypeOK
    <3>2. ~InFlight(o)' /\ o \notin ledger'
      BY <2>3, <1>1, <1>2, <1>3, <1>5, <1>6 DEF InFlight, Open
    <3> QED BY <3>1, <3>2
  <2> QED BY <2>1, <2>2, <2>3
<1> QED BY <1>7, <1>8, <1>9, <1>10 DEF CopiesAccounted

(* A transaction ends: with its row, or with nothing but a copy that went  *)
(* out.                                                                    *)
LEMMA EndStep ==
  ASSUME OutInv, NEW s \in Senders, Commit(s) \/ CommitFails(s) \/ Abort(s)
  PROVE  FromAsked' /\ OneClaim' /\ Unrecorded' /\ CopiesAccounted'
<1> DEFINE q == send[s].q
<1>1. UNCHANGED <<incomplete, pending, asked, inbox>>
  BY DEF Commit, CommitFails, Abort, caseRow
<1>2. send[s].phase \in Working => q \in Questions
  BY DEF OutInv, OutTypeOK, FromAsked
<1>3. PICK phase \in {"rest", "done", "failed"} : Goto(s, phase, NoQuestion)
  BY DEF Commit, CommitFails, Abort, End
<1>4. send'[s] = [phase |-> phase, q |-> NoQuestion]
      /\ \A r \in Senders : r # s => send'[r] = send[r]
  BY <1>3, GotoIs DEF OutInv
<1>5. \A r \in Senders : Open(r)' => r # s /\ Open(r) /\ send'[r] = send[r]
  BY <1>3, <1>4 DEF Open
<1>6. FromAsked'
  BY <1>1, <1>3, <1>4 DEF OutInv, FromAsked, Working
<1>7. OneClaim'
  BY <1>5 DEF OutInv, OneClaim
<1>8. Open(s) => \A r \in Senders : Open(r)' => send'[r].q # q
  BY <1>5 DEF OutInv, OneClaim
<1>9. ledger' = ledger \/ (Open(s) /\ ledger' = ledger \cup {q})
  BY DEF Commit, CommitFails, Abort, Open
<1>10. Unrecorded'
  BY <1>5, <1>8, <1>9 DEF OutInv, Unrecorded
<1>11. \A o \in Questions : InFlight(o)' <=> InFlight(o) /\ ~(send[s].phase = "sent" /\ o = q)
  BY <1>3, <1>4 DEF InFlight, OutInv, OneClaim, Open
<1>12. ASSUME NEW o \in Questions
       PROVE  inbox'[o] = lost'[o] + (IF o \in ledger' \/ InFlight(o)' THEN 1 ELSE 0)
  <2>1. CASE ~(send[s].phase = "sent" /\ o = q)
    <3>1. lost'[o] = lost[o] /\ (o \in ledger' <=> o \in ledger)
      BY <2>1 DEF Commit, CommitFails, Abort, Forget, OutInv, OutTypeOK
    <3> QED BY <3>1, <2>1, <1>1, <1>11 DEF OutInv, CopiesAccounted
  <2>2. CASE send[s].phase = "sent" /\ o = q
    <3>1. InFlight(o) /\ ~InFlight(o)' /\ o \notin ledger
      BY <2>2, <1>11 DEF InFlight, OutInv, Unrecorded, Open
    <3>2. inbox[o] = lost[o] + 1
      BY <3>1 DEF OutInv, CopiesAccounted
    <3>3. CASE Commit(s)
      BY <2>2, <3>2, <3>3, <1>1 DEF Commit
    <3>4. CASE CommitFails(s) \/ Abort(s)
      <4>1. lost'[o] = lost[o] + 1 /\ ledger' = ledger
        BY <2>2, <3>4 DEF CommitFails, Abort, Forget, OutInv, OutTypeOK
      <4> QED BY <4>1, <3>1, <3>2, <1>1 DEF OutInv, OutTypeOK
    <3> QED BY <3>3, <3>4
  <2> QED BY <2>1, <2>2
<1> QED BY <1>6, <1>7, <1>10, <1>12 DEF CopiesAccounted

LEMMA OutInvStep ==
  ASSUME OutInv, OutStep
  PROVE  OutInv'
<1>1. ASSUME NEW s \in Senders, Sending(s)
      PROVE  FromAsked' /\ OneClaim' /\ Unrecorded' /\ CopiesAccounted'
  BY <1>1, QuietStep, ClaimStep, TransmitStep, EndStep DEF Sending
<1>2. FromAsked' /\ OneClaim' /\ Unrecorded' /\ CopiesAccounted'
  BY <1>1, CaseStep DEF OutStep
<1> QED BY <1>2, OutTypes DEF OutInv

-----------------------------------------------------------------------------
THEOREM OutInvariant == Spec => []OutInv
<1>1. Init => OutInv
  <2> SUFFICES ASSUME OutInit PROVE OutInv
    BY DEF Init
  <2>1. \A s \in Senders : send[s].phase = "rest"
    BY DEF OutInit, Resting
  <2>2. OutTypeOK
    BY DEF OutInit, OutTypeOK, Resting
  <2>3. FromAsked /\ OneClaim /\ Unrecorded
    BY <2>1 DEF OutInit, FromAsked, OneClaim, Unrecorded, Open, Working
  <2>4. CopiesAccounted
    <3>1. \A q \in Questions : ~InFlight(q) /\ q \notin ledger
      BY <2>1 DEF OutInit, InFlight
    <3> QED BY <3>1 DEF OutInit, CopiesAccounted
  <2> QED BY <2>2, <2>3, <2>4 DEF OutInv
<1>2. OutInv /\ [Next]_vars => OutInv'
  BY EgressAssumption, NextIsOutStep, OutInvStep
<1> QED BY <1>1, <1>2, PTL DEF Spec

(* Every copy a customer has is accounted for.                             *)
THEOREM CopiesAreAccounted == Spec => []CopiesAccounted
<1>1. OutInv => CopiesAccounted
  BY DEF OutInv
<1> QED BY <1>1, OutInvariant, PTL

(* Dispatch implements the mailbox: a question is delivered after it was   *)
(* asked, on record only after it was delivered, and never again then.     *)
THEOREM DispatchIsMailbox == Spec => MailboxKept
<1>1. Init => Mail!Init
  BY DEF Init, OutInit, Mail!Init
<1>2. OutInv /\ [Next]_vars => [Mail!Next]_<<asked, inbox, ledger>>
  <2> SUFFICES ASSUME OutInv, OutStep PROVE [Mail!Next]_<<asked, inbox, ledger>>
    BY EgressAssumption, NextIsOutStep
  <2> USE DEF Mail!Next, caseRow
  <2>1. ASSUME NEW q \in Questions, Ask(q) PROVE Mail!Ask(q)
    BY <2>1 DEF Ask, Mail!Ask
  <2>2. CASE MoveOn \/ UNCHANGED outVars
    BY <2>2 DEF MoveOn, outVars
  <2>3. ASSUME NEW s \in Senders, Sending(s)
        PROVE  UNCHANGED <<asked, inbox, ledger>>
               \/ \E q \in Questions : Mail!Deliver(q) \/ Mail!Record(q)
    <3>1. CASE Begin(s) \/ Claim(s) \/ CommitFails(s) \/ Rest(s) \/ Abort(s)
      BY <3>1 DEF Begin, Claim, CommitFails, Rest, Abort
    <3>2. CASE Transmit(s) \/ TransmitFails(s)
      <4>1. send[s].q \in asked \ ledger /\ send[s].q \in Questions
        BY <3>2 DEF Transmit, TransmitFails, OutInv, FromAsked, Unrecorded, Open, Working, OutTypeOK
      <4> QED BY <3>2, <4>1 DEF Transmit, TransmitFails, Mail!Deliver
    <3>3. CASE Commit(s)
      <4>1. send[s].q \in Questions
        BY <3>3 DEF Commit, OutInv, FromAsked, Working, OutTypeOK
      <4>2. inbox[send[s].q] > 0
        BY <3>3, <4>1 DEF Commit, OutInv, CopiesAccounted, InFlight, OutTypeOK
      <4> QED BY <3>3, <4>1, <4>2 DEF Commit, Mail!Record
    <3> QED BY <2>3, <3>1, <3>2, <3>3 DEF Sending
  <2> QED BY <2>1, <2>2, <2>3 DEF OutStep
<1> QED BY <1>1, <1>2, OutInvariant, PTL DEF Spec, MailboxKept, Mail!Spec

-----------------------------------------------------------------------------
(* The fleet: a worker with a job is up, and the one that is alive holds   *)
(* the lock.                                                               *)
FleetInv ==
  /\ proc \in [Workers -> {"down", "locked", "up"}]
  /\ holding = [w \in Workers |-> holding[w]]
  /\ lockLosses \in Nat
  /\ \A w \in Workers : holding[w] # 0 => Alive(w)
  /\ Singleton

LEMMA FleetInvStep ==
  ASSUME FleetAssumption, EgressAssumption, FleetInv, [Next]_vars
  PROVE  FleetInv'
<1> USE DEF FleetInv, Singleton, Alive, faultVars
<1>1. ASSUME NEW w \in Workers, Acquire(w) PROVE FleetInv'
  BY <1>1, FleetAssumption DEF Acquire, LockFree, FleetAssumption
<1>2. ASSUME NEW w \in Workers, Bypass(w) PROVE FleetInv'
  BY <1>2 DEF Bypass
<1>3. ASSUME NEW w \in Workers, Reap(w) \/ ReapFails(w) PROVE FleetInv'
  BY <1>3 DEF Reap, ReapFails
<1>4. CASE LoseLock
  BY <1>4 DEF LoseLock
<1>5. ASSUME NEW w \in Workers, NEW k \in DOMAIN jobs, Take(w, k) PROVE FleetInv'
  BY <1>5 DEF Take
<1>6. ASSUME NEW w \in Workers, Finish(w) \/ Retry(w) PROVE FleetInv'
  BY <1>6 DEF Finish, Retry
<1>7. ASSUME NEW w \in Workers, Die(w) PROVE FleetInv'
  BY <1>7 DEF Die
<1>8. CASE UNCHANGED fleetVars \/ UNCHANGED <<proc, holding, lock, faultVars>>
  BY <1>8 DEF fleetVars
<1> QED
  BY <1>1, <1>2, <1>3, <1>4, <1>5, <1>6, <1>7, <1>8
     DEF Next, vars, AskAndDefer, CaseMovesOn, Crash, EndJob, TakeJob, DispatchStep, BreakStep,
         BeginInline, Fleet, FleetStep, Boot

(* As long as no lock is lost or bypassed, no job is run by two at once:   *)
(* a job found "doing" by the worker that reaps is an orphan's.            *)
THEOREM NoJobIsShared == Spec => []NoSharedJob
<1>1. Init => FleetInv
  BY DEF Init, FleetInit, FleetInv, Singleton, Alive
<1>2. FleetInv /\ [Next]_vars => FleetInv'
  BY FleetAssumption, EgressAssumption, FleetInvStep
<1>3. FleetInv => NoSharedJob
  BY DEF FleetInv, Singleton, NoSharedJob
<1> QED BY <1>1, <1>2, <1>3, PTL DEF Spec

-----------------------------------------------------------------------------
(* The pending question has its job: the last one deferred, for the jobs     *)
(* are deferred with the questions. Whoever holds that one took it after the *)
(* question was asked, and so has read it.                                   *)
Job == [status : {"todo", "doing", "done", "failed"}, attempts : Nat]

JobTypes ==
  /\ jobs \in Seq(Job)
  /\ holding \in [Workers -> Nat] /\ \A w \in Workers : holding[w] <= Len(jobs)

(* The transaction of a sender that is done has let go of its question.      *)
LetGo == \A s \in Senders : send[s].phase \in {"rest", "done"} => send[s].q = NoQuestion

Waited == incomplete /\ reachable /\ pending \notin ledger
At(w) == send[w].phase = "failed" \/ send[w].q = pending
LastSeesToIt ==
  Waited =>
    /\ jobs # <<>> /\ jobs[Len(jobs)].status # "done"
    /\ \A w \in Workers : holding[w] = Len(jobs) => At(w)

HandInv == JobTypes /\ LetGo /\ LastSeesToIt

LEMMA FunctionIsSeq ==
  ASSUME NEW n \in Nat, NEW f \in [1..n -> Job]
  PROVE  f \in Seq(Job) /\ Len(f) = n
OBVIOUS

(* A queue that keeps its length and the shape of its jobs.                  *)
LEMMA SameQueue ==
  ASSUME JobTypes, jobs' \in [1..Len(jobs) -> Job]
  PROVE  jobs' \in Seq(Job) /\ Len(jobs') = Len(jobs)
<1>1. Len(jobs) \in Nat
  BY DEF JobTypes
<1> QED BY <1>1, FunctionIsSeq

LEMMA StatusChanged ==
  ASSUME NEW n \in Nat, NEW f \in [1..n -> Job], NEW k \in 1..n,
         NEW status \in {"todo", "doing", "done", "failed"}
  PROVE  [f EXCEPT ![k].status = status] \in [1..n -> Job]
<1>1. [f[k] EXCEPT !.status = status] \in Job
  BY DEF Job
<1>2. [f EXCEPT ![k] = [f[k] EXCEPT !.status = status]] \in [1..n -> Job]
  BY <1>1
<1> QED BY <1>2

LEMMA PutOff ==
  ASSUME NEW n \in Nat, NEW f \in [1..n -> Job], NEW k \in 1..n
  PROVE  [f EXCEPT ![k].status = "todo", ![k].attempts = @ + 1] \in [1..n -> Job]
<1> DEFINE g == [f EXCEPT ![k].status = "todo"]
<1>1. g \in [1..n -> Job]
  BY StatusChanged
<1>2. [g EXCEPT ![k].attempts = @ + 1] \in [1..n -> Job]
  <2> HIDE DEF g
  <2>1. [g[k] EXCEPT !.attempts = @ + 1] \in Job
    BY <1>1 DEF Job
  <2>2. [g EXCEPT ![k] = [g[k] EXCEPT !.attempts = @ + 1]] \in [1..n -> Job]
    BY <1>1, <2>1
  <2> QED BY <2>2
<1> QED BY <1>2

LEMMA ReleasedJobs ==
  ASSUME NEW n \in Nat, NEW f \in [1..n -> Job]
  PROVE  [k \in 1..n |-> [f[k] EXCEPT !.status = IF @ = "doing" THEN "todo" ELSE @]]
           \in [1..n -> Job]
<1>1. ASSUME NEW k \in 1..n
      PROVE  [f[k] EXCEPT !.status = IF @ = "doing" THEN "todo" ELSE @] \in Job
  BY DEF Job
<1> QED BY <1>1

(* What a step of Next does to the jobs: it defers one, moves some between   *)
(* the states short of "done", or finishes the one a worker holds.           *)
LEMMA JobTypesStep ==
  ASSUME JobTypes, [Next]_vars
  PROVE  JobTypes'
<1>1. Len(jobs) \in Nat /\ jobs \in [1..Len(jobs) -> Job] /\ DOMAIN jobs = 1..Len(jobs)
  BY DEF JobTypes
<1>2. ASSUME NEW q \in Questions, AskAndDefer(q) PROVE JobTypes'
  <2>1. jobs' = Append(jobs, [status |-> "todo", attempts |-> 0]) /\ holding' = holding
    BY <1>2 DEF AskAndDefer, DeferDispatch, Defer
  <2>2. jobs' \in Seq(Job) /\ Len(jobs') = Len(jobs) + 1
    BY <2>1 DEF JobTypes, Job
  <2> QED BY <2>1, <2>2 DEF JobTypes
<1>3. ASSUME NEW w \in Workers, NEW k \in DOMAIN jobs, Take(w, k) PROVE JobTypes'
  <2>1. jobs' \in [1..Len(jobs) -> Job]
    BY <1>1, <1>3, StatusChanged DEF Take
  <2> QED BY <1>1, <1>3, <2>1, SameQueue DEF Take, JobTypes
<1>4. ASSUME NEW w \in Workers, Finish(w) \/ Retry(w) PROVE JobTypes'
  <2> DEFINE k == holding[w]
  <2>1. k \in 1..Len(jobs) /\ holding' = [holding EXCEPT ![w] = 0]
    BY <1>1, <1>4 DEF Finish, Retry, JobTypes
  <2>2. \/ \E status \in {"todo", "doing", "done", "failed"} :
            jobs' = [jobs EXCEPT ![k].status = status]
        \/ jobs' = [jobs EXCEPT ![k].status = "todo", ![k].attempts = @ + 1]
        \/ jobs' = jobs
    <3>1. CASE Finish(w)
      <4>1. jobs[k].status \in {"todo", "doing", "done", "failed"}
        BY <1>1, <2>1 DEF Job
      <4> QED BY <3>1, <4>1 DEF Finish
    <3>2. CASE Retry(w)  BY <3>2 DEF Retry
    <3> QED BY <1>4, <3>1, <3>2
  <2> HIDE DEF k
  <2>3. jobs' \in [1..Len(jobs) -> Job]
    <3>1. ASSUME NEW status \in {"todo", "doing", "done", "failed"},
                 jobs' = [jobs EXCEPT ![k].status = status]
          PROVE  jobs' \in [1..Len(jobs) -> Job]
      <4>1. [jobs EXCEPT ![k].status = status] \in [1..Len(jobs) -> Job]
        BY <1>1, <2>1, StatusChanged
      <4> QED BY <3>1, <4>1, Zenon
    <3>2. [jobs EXCEPT ![k].status = "todo", ![k].attempts = @ + 1] \in [1..Len(jobs) -> Job]
      BY <1>1, <2>1, PutOff
    <3> QED BY <1>1, <2>2, <3>1, <3>2, Zenon
  <2> QED BY <2>1, <2>3, SameQueue DEF JobTypes
<1>5. ASSUME NEW w \in Workers, Reap(w) PROVE JobTypes'
  <2>1. jobs' \in [1..Len(jobs) -> Job] /\ holding' = holding
    BY <1>1, <1>5, ReleasedJobs DEF Reap, Released
  <2> QED BY <2>1, SameQueue DEF JobTypes
<1>6. ASSUME NEW w \in Workers, Die(w) PROVE JobTypes'
  BY <1>6 DEF Die, JobTypes
<1>7. ASSUME UNCHANGED <<jobs, holding>> PROVE JobTypes'
  BY <1>7 DEF JobTypes
<1> QED
  BY <1>2, <1>3, <1>4, <1>5, <1>6, <1>7
     DEF Next, vars, fleetVars, CaseMovesOn, Crash, EndJob, TakeJob, DispatchStep, BreakStep,
         BeginInline, Fleet, FleetStep, Boot, Acquire, Bypass, ReapFails, LoseLock

LEMMA LetGoStep ==
  ASSUME OutInv, LetGo, OutStep
  PROVE  LetGo'
<1>1. CASE UNCHANGED send
  BY <1>1 DEF LetGo
<1>2. ASSUME NEW s \in Senders, Sending(s) PROVE LetGo'
  <2>1. \E phase, q : Goto(s, phase, q) /\ (phase \in {"rest", "done"} => q = NoQuestion)
    BY <1>2 DEF Sending, Begin, Claim, Transmit, TransmitFails, Commit, CommitFails, Rest,
                Abort, End
  <2>2. PICK phase, q : Goto(s, phase, q) /\ (phase \in {"rest", "done"} => q = NoQuestion)
    BY <2>1
  <2> QED BY <2>2 DEF Goto, LetGo, OutInv, OutTypeOK
<1> QED BY <1>1, <1>2 DEF OutStep, Ask, MoveOn, outVars

(* What a sender does for its question: a worker at the pending one stays at *)
(* it, until it is on record or the attempt has failed.                      *)
LEMMA StaysAt ==
  ASSUME EgressAssumption, OutInv, NEW s \in Senders, DispatchStep(s) \/ BreakStep(s), Waited',
         NEW w \in Workers, At(w)
  PROVE  Waited /\ At(w)'
<1>1. UNCHANGED <<incomplete, pending, reachable>> /\ ledger \subseteq ledger'
  BY DEF DispatchStep, BreakStep, Dispatch, Break, Claim, Transmit, Commit, TransmitFails,
         CommitFails, caseRow
<1>2. Waited
  BY <1>1 DEF Waited
<1>3. w \in Senders /\ w \in Jobbers
  BY EgressAssumption DEF EgressAssumption
<1>4. CASE w # s
  <2>1. \E phase, q : Goto(s, phase, q)
    BY DEF DispatchStep, BreakStep, Dispatch, Break, Claim, Transmit, Commit, TransmitFails,
           CommitFails, End
  <2>2. send'[w] = send[w]
    BY <1>3, <1>4, <2>1 DEF Goto, OutInv, OutTypeOK
  <2> QED BY <1>1, <1>2, <2>2 DEF At
<1>5. CASE w = s
  <2>1. send[w].q = pending
    BY <1>5 DEF At, DispatchStep, BreakStep, Dispatch, Break, Claim, Transmit, Commit,
                TransmitFails, CommitFails
  <2>2. ~Recorded(send[w].q) /\ ~Commit(w)
    BY <1>1, <2>1 DEF Waited, Recorded, Commit
  <2>3. Goto(w, "claimed", pending) \/ Goto(w, "sent", pending) \/ Goto(w, "failed", NoQuestion)
    BY <1>3, <1>5, <2>1, <2>2 DEF DispatchStep, BreakStep, Dispatch, Break, Claim, Transmit,
                                  TransmitFails, CommitFails, End
  <2>4. send'[w].q = pending \/ send'[w].phase = "failed"
    BY <1>3, <2>3 DEF Goto, OutInv, OutTypeOK
  <2> QED BY <1>1, <1>2, <2>4 DEF At
<1> QED BY <1>4, <1>5

LEMMA LastStep ==
  ASSUME EgressAssumption, OutInv, HandInv, [Next]_vars
  PROVE  LastSeesToIt'
<1> DEFINE last == Len(jobs)
<1>1. /\ last \in Nat /\ DOMAIN jobs = 1..last /\ jobs \in [1..last -> Job]
      /\ \A w \in Workers : holding[w] \in 0..last
      /\ Workers \subseteq Senders /\ Workers \subseteq Jobbers /\ Workers \cap Webhooks = {}
  BY EgressAssumption DEF HandInv, JobTypes, EgressAssumption
<1>2. Waited => last # 0 /\ last \in 1..last /\ jobs[last].status # "done"
                  /\ pending # NoQuestion /\ ToSend = {pending}
  <2>1. Waited => last # 0 /\ jobs[last].status # "done"
    BY <1>1 DEF HandInv, LastSeesToIt, JobTypes
  <2>2. Waited => pending \in Questions /\ pending # NoQuestion
    BY OutboundAssumption DEF Waited, OutInv, FromAsked, OutTypeOK, OutboundAssumption
  <2> QED BY <1>1, <2>1, <2>2 DEF Waited, ToSend
<1>3. Waited => \A w \in Workers : holding[w] = last => At(w)
  BY DEF HandInv, LastSeesToIt
(* A step that leaves the length of the queue and does no more for Waited    *)
(* than keep it has to keep the rest.                                        *)
<1>4. ASSUME Len(jobs') = last,
             Waited' => /\ Waited /\ jobs'[last].status # "done"
                        /\ \A w \in Workers : holding'[w] = last => At(w)'
      PROVE  LastSeesToIt'
  <2>1. Waited' => jobs' # <<>>
    BY <1>1, <1>2, <1>4
  <2> QED BY <1>4, <2>1 DEF LastSeesToIt
<1>5. ASSUME NEW q \in Questions, AskAndDefer(q) PROVE LastSeesToIt'
  <2>1. jobs' = Append(jobs, [status |-> "todo", attempts |-> 0]) /\ holding' = holding
    BY <1>5 DEF AskAndDefer, DeferDispatch, Defer
  <2>2. Len(jobs') = last + 1 /\ jobs'[last + 1].status = "todo" /\ jobs' # <<>>
    BY <1>1, <2>1 DEF HandInv, JobTypes
  <2>3. \A w \in Workers : holding'[w] # last + 1
    BY <1>1, <2>1
  <2> QED BY <2>2, <2>3 DEF LastSeesToIt
<1>6. CASE CaseMovesOn
  BY <1>6 DEF CaseMovesOn, MoveOn, LastSeesToIt, Waited
<1>7. ASSUME NEW w \in Workers, NEW k \in DOMAIN jobs, TakeJob(w, k) PROVE LastSeesToIt'
  <2>1. UNCHANGED <<incomplete, pending, reachable, ledger>>
    BY <1>7 DEF TakeJob, Begin, caseRow
  <2>2. /\ jobs' = [jobs EXCEPT ![k].status = "doing"]
        /\ holding' = [holding EXCEPT ![w] = k] /\ holding[w] = 0
    BY <1>7 DEF TakeJob, Take
  <2>3. Waited => Len(jobs') = last /\ jobs'[last].status # "done"
    BY <1>1, <1>2, <2>2 DEF Job
  <2>4. Len(jobs') = last
    BY <1>1, <2>2
  <2>5. Waited => Goto(w, "read", pending)
    BY <1>2, <1>7 DEF TakeJob, Begin
  <2>6. Waited => send'[w].q = pending /\ \A v \in Workers : v # w => send'[v] = send[v]
    BY <1>1, <2>5 DEF Goto, OutInv, OutTypeOK
  <2>7. Waited => \A v \in Workers : holding'[v] = last => At(v)'
    BY <1>1, <1>3, <2>1, <2>2, <2>6 DEF At, HandInv, JobTypes
  <2> QED BY <1>4, <2>1, <2>3, <2>4, <2>7 DEF Waited
<1>8. ASSUME NEW w \in Workers, EndJob(w) PROVE LastSeesToIt'
  <2>1. UNCHANGED <<incomplete, pending, reachable, ledger>> /\ Goto(w, "rest", NoQuestion)
    BY <1>8 DEF EndJob, Rest, caseRow
  <2>2. \A v \in Workers : v # w => send'[v] = send[v] /\ holding'[v] = holding[v]
    <3>1. holding' = [holding EXCEPT ![w] = 0]
      BY <1>8 DEF EndJob, Finish, Retry
    <3> QED BY <1>1, <2>1, <3>1 DEF Goto, OutInv, OutTypeOK, HandInv, JobTypes
  <2>3. holding[w] # 0 /\ holding'[w] = 0
    BY <1>8 DEF EndJob, Finish, Retry, HandInv, JobTypes
  <2>4. Waited /\ holding[w] = last => send[w].phase # "done"
    BY <1>1, <1>2, <1>3 DEF At, HandInv, LetGo
  <2>5. CASE send[w].phase = "done" /\ Finish(w)
    <3>1. Waited => holding[w] # last
      BY <2>4, <2>5
    <3>2. \E status : jobs' = [jobs EXCEPT ![holding[w]].status = status]
      BY <2>5 DEF Finish
    <3>3. Len(jobs') = last /\ (Waited => jobs'[last] = jobs[last])
      BY <1>1, <1>2, <3>1, <3>2
    <3> QED BY <1>1, <1>2, <1>3, <1>4, <2>1, <2>2, <2>3, <3>3 DEF At, Waited
  <2>6. CASE send[w].phase = "failed" /\ Retry(w)
    <3> DEFINE k == holding[w]
    <3>1. k \in 1..last
      BY <1>1, <2>3
    <3>2. \/ jobs' = [jobs EXCEPT ![k].status = "failed"]
          \/ jobs' = [jobs EXCEPT ![k].status = "todo", ![k].attempts = @ + 1]
          \/ jobs' = jobs
      BY <2>6 DEF Retry
    <3> HIDE DEF k
    <3>3. Len(jobs') = last /\ (Waited => jobs'[last].status # "done")
      BY <1>1, <1>2, <3>1, <3>2 DEF Job
    <3> QED BY <1>1, <1>2, <1>3, <1>4, <2>1, <2>2, <2>3, <3>3 DEF At, Waited
  <2> QED BY <1>8, <2>5, <2>6 DEF EndJob
<1>9. ASSUME NEW w \in Workers, Crash(w) PROVE LastSeesToIt'
  <2>1. UNCHANGED <<incomplete, pending, reachable, ledger, jobs>>
          /\ Goto(w, "rest", NoQuestion) /\ holding' = [holding EXCEPT ![w] = 0]
    BY <1>9 DEF Crash, Die, Abort, caseRow
  <2>2. \A v \in Workers : v # w => send'[v] = send[v] /\ holding'[v] = holding[v]
    BY <1>1, <2>1 DEF Goto, OutInv, OutTypeOK, HandInv, JobTypes
  <2>3. holding'[w] = 0
    BY <2>1 DEF HandInv, JobTypes
  <2> QED BY <1>1, <1>2, <1>3, <1>4, <2>1, <2>2, <2>3 DEF At, Waited
<1>10. ASSUME NEW s \in Senders, DispatchStep(s) \/ BreakStep(s) PROVE LastSeesToIt'
  <2>1. UNCHANGED <<jobs, holding>>
    BY <1>10 DEF DispatchStep, BreakStep, fleetVars
  <2>2. UNCHANGED <<incomplete, pending, reachable>> /\ ledger \subseteq ledger'
    BY <1>10 DEF DispatchStep, BreakStep, Dispatch, Break, Claim, Transmit, Commit,
                 TransmitFails, CommitFails, caseRow
  <2>3. Waited' => Waited
    BY <2>2 DEF Waited
  <2> QED BY <1>2, <1>3, <1>4, <1>10, <2>1, <2>3, StaysAt
<1>11. ASSUME NEW s \in Webhooks, BeginInline(s) PROVE LastSeesToIt'
  <2>1. UNCHANGED <<incomplete, pending, reachable, ledger, jobs, holding>>
    BY <1>11 DEF BeginInline, Begin, fleetVars, caseRow
  <2>2. \E phase, q : Goto(s, phase, q)
    BY <1>11 DEF BeginInline, Begin, End
  <2>3. \A w \in Workers : send'[w] = send[w]
    BY <1>1, <2>2 DEF Goto, OutInv, OutTypeOK
  <2> QED BY <1>2, <1>3, <1>4, <2>1, <2>3 DEF At, Waited
<1>12. CASE Fleet
  <2>1. UNCHANGED <<incomplete, pending, reachable, ledger, send, holding>>
    BY <1>12 DEF Fleet, FleetStep, Boot, Acquire, Bypass, Reap, ReapFails, LoseLock, outVars
  <2>2. jobs' = jobs \/ jobs' = Released
    BY <1>12 DEF Fleet, FleetStep, Boot, Acquire, Bypass, Reap, ReapFails, LoseLock
  <2>3. Len(jobs') = last /\ (Waited => jobs'[last].status # "done")
    <3>1. CASE jobs' = Released
      <4>1. \A k \in 1..last : jobs'[k].status = IF jobs[k].status = "doing" THEN "todo"
                                                 ELSE jobs[k].status
        BY <1>1, <3>1 DEF Released, Job
      <4>2. Len(jobs') = last
        BY <1>1, <3>1 DEF Released
      <4> QED BY <1>2, <4>1, <4>2
    <3> QED BY <1>2, <2>2, <3>1
  <2> QED BY <1>3, <1>4, <2>1, <2>3 DEF At, Waited
<1>13. CASE UNCHANGED vars
  BY <1>2, <1>3, <1>4, <1>13 DEF vars, fleetVars, outVars, At, Waited
<1> QED
  BY <1>5, <1>6, <1>7, <1>8, <1>9, <1>10, <1>11, <1>12, <1>13 DEF Next

(* The question that is pending and not on record has a job that sees to it, *)
(* whatever crashes, is lost, fails or is run twice: dispatch.py reads the   *)
(* question in the transaction that claims it, and the job was deferred with *)
(* it.                                                                       *)
THEOREM PendingStaysInHand == Spec => []PendingInHand
<1>1. Init => HandInv
  BY DEF Init, FleetInit, OutInit, Resting, HandInv, JobTypes, LetGo, LastSeesToIt, Waited, Job
<1>2. OutInv /\ HandInv /\ [Next]_vars => HandInv'
  BY EgressAssumption, NextIsOutStep, JobTypesStep, LetGoStep, LastStep DEF HandInv
<1>3. HandInv => PendingInHand
  <2> SUFFICES ASSUME HandInv, Waited PROVE \E k \in DOMAIN jobs : SeesTo(k)
    BY DEF PendingInHand, Waited
  <2>1. Len(jobs) \in DOMAIN jobs /\ jobs[Len(jobs)] \in Job
    BY DEF HandInv, JobTypes, LastSeesToIt
  <2>2. SeesTo(Len(jobs))
    BY <2>1 DEF HandInv, LastSeesToIt, SeesTo, At, Job
  <2> QED BY <2>1, <2>2
<1> QED BY <1>1, <1>2, <1>3, OutInvariant, PTL DEF Spec
=============================================================================
