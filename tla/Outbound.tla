------------------------------ MODULE Outbound ------------------------------
(***************************************************************************)
(* The question a case puts to its customer on its way out.                *)
(* dispatch_case_question is one transaction: it reads the question that   *)
(* is pending, claims it in outbound_message, sends it over the channel    *)
(* and marks the row sent.  Sending is the one thing a rollback does not   *)
(* undo: the message may be with the customer and its claim gone.          *)
(*                                                                         *)
(* One case: the key of the ledger holds the case, so cases do not meet.   *)
(* Its state is "incomplete" or not, and its customer can be reached or    *)
(* not, which never changes.                                               *)
(***************************************************************************)
EXTENDS Integers, FiniteSets

CONSTANTS
  Senders,       \* who may run a dispatch: the workers, webhook requests
  Jobbers,       \* those that run it as a job: the workers
  Questions, NoQuestion

ASSUME OutboundAssumption == NoQuestion \notin Questions /\ Jobbers \subseteq Senders

VARIABLES
  incomplete,    \* case_state = 'incomplete'
  pending,       \* external_mappings.elicit.next_question
  reachable,     \* contact_ref is set
  asked,         \* history: the questions asked so far
  ledger,        \* the questions with a committed row, all of them 'sent'
  inbox,         \* how many copies of each question the customer has
  lost,          \* history: copies whose transaction rolled back
  send           \* what each sender is doing, and with which question

outVars == <<incomplete, pending, reachable, asked, ledger, inbox, lost, send>>
caseRow == <<incomplete, pending, reachable, asked>>

Resting == [phase |-> "rest", q |-> NoQuestion]

OutInit ==
  /\ incomplete = FALSE /\ pending = NoQuestion /\ reachable \in BOOLEAN
  /\ asked = {} /\ ledger = {}
  /\ inbox = [q \in Questions |-> 0] /\ lost = [q \in Questions |-> 0]
  /\ send = [s \in Senders |-> Resting]

(* Elicitation asks a question; or the case moves on, by elicitation or by *)
(* the reviewer.                                                           *)
Ask(q) ==
  /\ incomplete' = TRUE /\ pending' = q /\ asked' = asked \cup {q}
  /\ UNCHANGED <<reachable, ledger, inbox, lost, send>>

MoveOn ==
  /\ incomplete
  /\ incomplete' = FALSE
  /\ UNCHANGED <<pending, reachable, asked, ledger, inbox, lost, send>>

-----------------------------------------------------------------------------
Goto(s, phase, q) == send' = [send EXCEPT ![s] = [phase |-> phase, q |-> q]]

(* The transaction is over: a job has yet to be recorded, a request is not. *)
End(s, how) == Goto(s, IF s \in Jobbers THEN how ELSE "rest", NoQuestion)

(* get_pending_question, and the recipient: with neither, nothing to do.   *)
ToSend == IF incomplete /\ pending # NoQuestion /\ reachable THEN {pending} ELSE {}

Begin(s) ==
  /\ send[s] = Resting
  /\ \/ \E q \in ToSend : Goto(s, "read", q)
     \/ ToSend = {} /\ End(s, "done")
  /\ UNCHANGED <<caseRow, ledger, inbox, lost>>

(* claim_outbound: the unique key makes it wait for a claim that is open,  *)
(* and does nothing when there is a row.                                   *)
\* a slip, for the mutation runs:
OpenClaimsNone(q) == {}
OpenClaims(q) == {s \in Senders : send[s].phase \in {"claimed", "sent"} /\ send[s].q = q}

\* a slip, for the mutation runs:
RecordedNever(q) == FALSE
Recorded(q) == q \in ledger

Claim(s) ==
  /\ send[s].phase = "read"
  /\ OpenClaims(send[s].q) = {}
  /\ IF Recorded(send[s].q) THEN End(s, "done") ELSE Goto(s, "claimed", send[s].q)
  /\ UNCHANGED <<caseRow, ledger, inbox, lost>>

(* channel.send: accepted; refused or not reached; or accepted, and the    *)
(* answer never comes back or cannot be read.                              *)
Transmit(s) ==
  /\ send[s].phase = "claimed"
  /\ inbox' = [inbox EXCEPT ![send[s].q] = @ + 1]
  /\ Goto(s, "sent", send[s].q)
  /\ UNCHANGED <<caseRow, ledger, lost>>

TransmitFails(s) ==
  /\ send[s].phase = "claimed"
  /\ End(s, "failed")
  /\ \/ UNCHANGED <<inbox, lost>>
     \/ /\ inbox' = [inbox EXCEPT ![send[s].q] = @ + 1]
        /\ lost' = [lost EXCEPT ![send[s].q] = @ + 1]
  /\ UNCHANGED <<caseRow, ledger>>

(* mark_outbound_sent and the commit.                                      *)
Commit(s) ==
  /\ send[s].phase = "sent"
  /\ ledger' = ledger \cup {send[s].q}
  /\ End(s, "done")
  /\ UNCHANGED <<caseRow, inbox, lost>>

(* The transaction ends without a commit; a message that went out stays    *)
(* out.                                                                    *)
Forget(s) ==
  lost' = IF send[s].phase = "sent" THEN [lost EXCEPT ![send[s].q] = @ + 1] ELSE lost

CommitFails(s) ==
  /\ send[s].phase = "sent"
  /\ Forget(s)
  /\ End(s, "failed")
  /\ UNCHANGED <<caseRow, ledger, inbox>>

Rest(s) ==
  /\ send[s].phase \in {"done", "failed"}
  /\ Goto(s, "rest", NoQuestion)
  /\ UNCHANGED <<caseRow, ledger, inbox, lost>>

(* The process dies, wherever it is.                                       *)
Abort(s) ==
  /\ Forget(s)
  /\ Goto(s, "rest", NoQuestion)
  /\ UNCHANGED <<caseRow, ledger, inbox>>

Dispatch(s) == Claim(s) \/ Transmit(s) \/ Commit(s)
Break(s)    == TransmitFails(s) \/ CommitFails(s)

-----------------------------------------------------------------------------
OutTypeOK ==
  /\ incomplete \in BOOLEAN /\ pending \in Questions \cup {NoQuestion}
  /\ reachable \in BOOLEAN /\ asked \subseteq Questions /\ ledger \subseteq Questions
  /\ inbox \in [Questions -> Nat] /\ lost \in [Questions -> Nat]
  /\ send \in [Senders -> [phase : {"rest", "read", "claimed", "sent", "done",
                                    "failed"},
                           q : Questions \cup {NoQuestion}]]

(* Every copy the customer has is accounted for: one for the row of the    *)
(* ledger or the transaction that is about to write it, and one for each   *)
(* transaction that rolled back after it had sent.                         *)
InFlight(q) == \E s \in Senders : send[s].phase = "sent" /\ send[s].q = q

CopiesAccounted ==
  \A q \in Questions :
    inbox[q] = lost[q] + (IF q \in ledger \/ InFlight(q) THEN 1 ELSE 0)

(* The same question is never open at two senders at once: the second      *)
(* waits, and then finds the row.                                          *)
Open(s) == send[s].phase \in {"claimed", "sent"}

OneClaim == \A r, s \in Senders : Open(r) /\ Open(s) /\ send[r].q = send[s].q => r = s

-----------------------------------------------------------------------------
(* "Transmit ... once ... a replay never double-sends".                    *)
NeverDoubleSent == \A q \in Questions : inbox[q] <= 1

Mail == INSTANCE Mailbox WITH copies <- inbox, recorded <- ledger
=============================================================================
