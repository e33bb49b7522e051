------------------------------- MODULE Intake -------------------------------
(* How messages become cases: intake/ingest.py over intake/windowing.py and  *)
(* the statements of store/api.py it calls.                                  *)
(*                                                                           *)
(* An upload (a chat export, one dropped file, a portal submission, a        *)
(* webhook message) is a sequence of messages ingested in ONE transaction.   *)
(* Several may run at a time; the rows a transaction has written are seen by *)
(* it alone until it commits, and a second writer of the same message key or *)
(* of the same document content waits for the first to end.                  *)
EXTENDS Integers, FiniteSets, Sequences

CONSTANTS
  Execs,        \* the transactions that may be open together
  Senders, Contents, Keys, Msgs,
  From, At,     \* of each message, its sender and its sent_at
  Key,          \* of each message, the hash of sender, time and first content
  Docs,         \* of each message, the contents it carries: text, then files
  Batches,      \* what may be uploaded, as sequences of messages
  OpenIdle,     \* windowing.OPEN_IDLE
  CaseIds, MaxUploads,    \* bounds of the instance
  Classifier,   \* whether a caller passes a model (none does)
  Anonymous,    \* the sender an adapter could not determine
  Nobody, NoKey, None

ASSUME IntakeAssumption ==
  /\ At \in [Msgs -> Nat] /\ From \in [Msgs -> Senders]
  /\ Key \in [Msgs -> Keys \cup {NoKey}] /\ NoKey \notin Keys
  /\ Docs \in [Msgs -> Seq(Contents)]
  /\ \A b \in Batches : b \in Seq(Msgs)
  /\ CaseIds \subseteq Nat /\ None \notin CaseIds
  /\ Nobody \notin Execs /\ None \notin Execs \cup {Nobody} /\ Classifier \in BOOLEAN
  /\ IsFiniteSet(Contents)
  /\ MaxUploads \in Nat /\ OpenIdle \in Nat

VARIABLES
  cases,    \* case_record: [from, opened, state, by], by: the open writer
  docs,     \* source_document, one row per content: [case, at, by]
  claims,   \* stage_execution of stage intake_message: [status, by]
  exec,     \* the running transactions
  placed,   \* history: <<upload, message, case>>, of committed uploads
  acked,    \* history: the messages of committed uploads
  uploads   \* how many uploads have started

intakeVars == <<cases, docs, claims, exec, placed, acked, uploads>>

NoUpload == [phase |-> "idle"]
NoEntry == [by |-> None]

IntakeInit ==
  /\ cases = [c \in CaseIds |-> NoEntry]
  /\ docs = [d \in Contents |-> NoEntry]
  /\ claims = [k \in Keys |-> NoEntry]
  /\ exec = [e \in Execs |-> NoUpload]
  /\ placed = {} /\ acked = {} /\ uploads = 0

-----------------------------------------------------------------------------
(* What a transaction sees.                                                  *)

Sees(e, row) == row.by \in {Nobody, e}
HeldByOther(e, row) == row.by \in Execs \ {e}

(* The last activity of a case: its first contact or its newest document.    *)
Activity(e, c) ==
  {cases[c].opened} \cup
  {docs[d].at : d \in {d \in Contents : Sees(e, docs[d]) /\ docs[d].case = c}}
LastActivity(e, c) == CHOOSE t \in Activity(e, c) : \A u \in Activity(e, c) : u <= t

(* latest_case_for_contact: the sender's case of latest activity; equals are *)
(* returned in any order. An unknown sender has no prior case.               *)
CasesOf(e, s) == {c \in CaseIds : Sees(e, cases[c]) /\ cases[c].from = s}
LatestCases(e, s) ==
  {c \in CasesOf(e, s) :
     \A o \in CasesOf(e, s) : LastActivity(e, o) <= LastActivity(e, c)}

NoPrior == [case |-> None]
Priors(e, s) ==
  IF s = Anonymous \/ CasesOf(e, s) = {} THEN {NoPrior}
  ELSE {[case |-> c, state |-> cases[c].state, last |-> LastActivity(e, c)] :
          c \in LatestCases(e, s)}

(* decide_window. The idle gap counts on either side of the activity.        *)
Abs(n) == IF n < 0 THEN -n ELSE n
Signed(m, prior) == At[m] - prior.last <= OpenIdle    \* a slip, for the mutation runs
Continues(m, prior) == Abs(At[m] - prior.last) <= OpenIdle

DecideWindow(m, prior) ==
  CASE prior = NoPrior -> {"new"}
    [] prior # NoPrior /\ prior.state = "created" /\ Continues(m, prior)
         -> {"follow_up"}
    [] OTHER -> IF Classifier THEN {"new", "follow_up"} ELSE {"new"}

(* The messages of an upload in the order they are handled: sender by        *)
(* sender, in order of first appearance, each oldest first (a stable sort).  *)
FirstOf(b, s) == CHOOSE i \in DOMAIN b :
                   From[b[i]] = s /\ \A j \in 1..(i - 1) : From[b[j]] # s
Before(b, i, j) ==
  \/ FirstOf(b, From[b[i]]) < FirstOf(b, From[b[j]])
  \/ From[b[i]] = From[b[j]] /\ (At[b[i]] < At[b[j]] \/ (At[b[i]] = At[b[j]] /\ i < j))
InOrder(b) ==
  [n \in DOMAIN b |->
     b[CHOOSE i \in DOMAIN b : Cardinality({j \in DOMAIN b : Before(b, j, i)}) = n - 1]]

-----------------------------------------------------------------------------
(* ingest_messages                                                           *)

(* An upload begins; nothing is built for any sender yet.                    *)
Upload(e, b) ==
  /\ exec[e] = NoUpload /\ uploads < MaxUploads
  /\ uploads' = uploads + 1
  /\ exec' = [exec EXCEPT ![e] =
       [phase |-> "next", id |-> uploads + 1, batch |-> b, todo |-> InOrder(b),
        building |-> NoPrior, sender |-> None, case |-> None, store |-> <<>>,
        placed |-> {}]]
  /\ UNCHANGED <<cases, docs, claims, placed, acked>>

Message(e) == Head(exec[e].todo)

(* claim_stage: the key is taken, unless it is done. A keyless message (all  *)
(* its media missing) is never skipped.                                      *)
NeverDone(m) == FALSE                    \* a slip, for the mutation runs
Done(m) == Key[m] # NoKey /\ claims[Key[m]] # NoEntry /\ claims[Key[m]].status = "done"
Blocked(e, m) == Key[m] # NoKey /\ HeldByOther(e, claims[Key[m]])

(* The in-memory view of the case being built for this sender stands in for  *)
(* the database once there is one.                                           *)
PriorsFor(e, m) ==
  IF exec[e].sender = From[m] /\ exec[e].building # NoPrior
    THEN {exec[e].building} ELSE Priors(e, From[m])

Skip(e) ==
  /\ exec[e].phase = "next" /\ exec[e].todo # <<>>
  /\ ~Blocked(e, Message(e)) /\ Done(Message(e))
  /\ exec' = [exec EXCEPT ![e].todo = Tail(@)]
  /\ UNCHANGED <<cases, docs, claims, placed, acked, uploads>>

(* The case the message goes to: the prior's, or a new one in state created. *)
Into(e, m, prior, c) ==
  \/ /\ "follow_up" \in DecideWindow(m, prior) /\ c = prior.case
     /\ UNCHANGED cases
  \/ /\ "new" \in DecideWindow(m, prior) /\ cases[c] = NoEntry
     /\ \A o \in CaseIds : cases[o] = NoEntry => c <= o
     /\ cases' = [cases EXCEPT ![c] =
          [from |-> From[m], opened |-> At[m], state |-> "created", by |-> e]]

Place(e) ==
  /\ exec[e].phase = "next" /\ exec[e].todo # <<>>
  /\ ~Blocked(e, Message(e)) /\ ~Done(Message(e))
  /\ LET m == Message(e) IN
       /\ \E prior \in PriorsFor(e, m), c \in CaseIds :
            /\ Into(e, m, prior, c)
            /\ exec' = [exec EXCEPT ![e].phase = "store", ![e].case = c,
                                    ![e].store = Docs[m]]
       /\ claims' = IF Key[m] = NoKey THEN claims
                    ELSE [claims EXCEPT ![Key[m]] = [status |-> "running", by |-> e]]
  /\ UNCHANGED <<docs, placed, acked, uploads>>

(* add_source_document: one row per content and tenant. Content that is      *)
(* already there stays where and when it was; its normalise job is queued    *)
(* again all the same.                                                       *)
Store(e) ==
  /\ exec[e].phase = "store" /\ exec[e].store # <<>>
  /\ LET d == Head(exec[e].store) IN
       /\ ~HeldByOther(e, docs[d])
       /\ docs' = IF docs[d] # NoEntry THEN docs
                  ELSE [docs EXCEPT ![d] = [case |-> exec[e].case,
                                            at |-> At[Message(e)], by |-> e]]
  /\ exec' = [exec EXCEPT ![e].store = Tail(@)]
  /\ UNCHANGED <<cases, claims, placed, acked, uploads>>

(* complete_stage, and the view the next message of the sender is windowed   *)
(* against.                                                                  *)
Complete(e) ==
  /\ exec[e].phase = "store" /\ exec[e].store = <<>>
  /\ LET m == Message(e) IN
       /\ claims' = IF Key[m] = NoKey THEN claims
                    ELSE [claims EXCEPT ![Key[m]].status = "done"]
       /\ exec' = [exec EXCEPT
            ![e].phase = "next", ![e].todo = Tail(@), ![e].case = None,
            ![e].sender = From[m],
            ![e].building = [case |-> exec[e].case, state |-> "created", last |-> At[m]],
            ![e].placed = @ \cup {<<exec[e].id, m, exec[e].case>>}]
  /\ UNCHANGED <<cases, docs, placed, acked, uploads>>

(* The transaction ends: its rows are everybody's, or they never were.       *)
Publish(e, table) ==
  [x \in DOMAIN table |->
     IF table[x].by = e THEN [table[x] EXCEPT !.by = Nobody] ELSE table[x]]
Forget(e, table) ==
  [x \in DOMAIN table |-> IF table[x].by = e THEN NoEntry ELSE table[x]]
ClaimsKept(e) == Publish(e, claims)       \* a slip, for the mutation runs
ClaimsUndone(e) == Forget(e, claims)
DocsUndone(e) == Forget(e, docs)

Commit(e) ==
  /\ exec[e].phase = "next" /\ exec[e].todo = <<>>
  /\ cases' = Publish(e, cases) /\ docs' = Publish(e, docs)
  /\ claims' = Publish(e, claims)
  /\ placed' = placed \cup exec[e].placed
  /\ acked' = acked \cup {exec[e].batch[i] : i \in DOMAIN exec[e].batch}
  /\ exec' = [exec EXCEPT ![e] = NoUpload]
  /\ UNCHANGED uploads

Abort(e) ==
  /\ exec[e] # NoUpload
  /\ cases' = Forget(e, cases) /\ docs' = DocsUndone(e)
  /\ claims' = ClaimsUndone(e)
  /\ exec' = [exec EXCEPT ![e] = NoUpload]
  /\ UNCHANGED <<placed, acked, uploads>>

Ingest(e) == Skip(e) \/ Place(e) \/ Store(e) \/ Complete(e) \/ Commit(e) \/ Abort(e)

(* A reviewer approves a case, which closes it to windowing.                 *)
CommitCase(c) ==
  /\ cases[c].by = Nobody /\ cases[c].state = "created"
  /\ cases' = [cases EXCEPT ![c].state = "committed"]
  /\ UNCHANGED <<docs, claims, exec, placed, acked, uploads>>

IntakeStep ==
  \/ \E e \in Execs : Ingest(e) \/ \E b \in Batches : Upload(e, b)
  \/ \E c \in CaseIds : CommitCase(c)

IntakeSpec == IntakeInit /\ [][IntakeStep]_intakeVars

-----------------------------------------------------------------------------
(* Properties                                                                *)

Rows(fields) == {NoEntry} \cup fields
Busy == [phase : {"next", "store"}, id : Nat, batch : Seq(Msgs), todo : Seq(Msgs),
         building : {NoPrior} \cup [case : CaseIds, state : {"created"}, last : Nat],
         sender : Senders \cup {None}, case : CaseIds \cup {None},
         store : Seq(Contents), placed : SUBSET (Nat \X Msgs \X CaseIds)]

(* The type of the state: a case, a document and a claim each have at most   *)
(* one row, and a row not yet committed belongs to a running transaction.    *)
IntakeTypes ==
  /\ cases \in [CaseIds -> Rows([from : Senders, opened : Nat,
                    state : {"created", "committed"}, by : Execs \cup {Nobody}])]
  /\ docs \in [Contents -> Rows([case : CaseIds, at : Nat, by : Execs \cup {Nobody}])]
  /\ claims \in [Keys -> Rows([status : {"running", "done"}, by : Execs \cup {Nobody}])]
  /\ exec \in [Execs -> {NoUpload} \cup Busy]
  /\ placed \subseteq Nat \X Msgs \X CaseIds /\ acked \subseteq Msgs /\ uploads \in Nat
  /\ \A row \in {cases[c] : c \in CaseIds} \cup {docs[d] : d \in Contents}
                 \cup {claims[k] : k \in Keys} :
       row.by \in Execs => exec[row.by] # NoUpload

(* A message that has a key is put into a case once, however many times and  *)
(* by however many overlapping uploads it is sent: the claim on the stage    *)
(* ledger (ingest.py: "a re-uploaded export re-claims a 'done' key").        *)
MessageOnce ==
  \A p, q \in placed : Key[p[2]] # NoKey /\ Key[p[2]] = Key[q[2]] => p = q

(* What an acknowledged upload carried is stored, in a row of a committed    *)
(* case, unless another message has the same key and other files: the key    *)
(* covers the text alone, and the later of the two is skipped with its files *)
(* (an export with media, after the same one without).                       *)
SameKey(m) == {n \in Msgs : Key[n] = Key[m]}
NothingLost ==
  \A m \in acked : (Key[m] = NoKey \/ \A n \in SameKey(m) : Docs[n] = Docs[m]) =>
    \A i \in DOMAIN Docs[m] :
      /\ docs[Docs[m][i]].by = Nobody
      /\ cases[docs[Docs[m][i]].case].by = Nobody

(* Two complaints are not run together: every message of a case is its       *)
(* sender's, and either opened it or was sent within OPEN_IDLE of another    *)
(* message of the case, before or after (windowing.py: "wrongly merging two  *)
(* distinct complaints destroys a case boundary").                           *)
BoundariesKept ==
  \A p \in placed :
    /\ cases[p[3]].from = From[p[2]]
    /\ \/ cases[p[3]].opened = At[p[2]]
       \/ \E q \in placed \ {p} : q[3] = p[3] /\ Abs(At[p[2]] - At[q[2]]) <= OpenIdle

(* "re-ingest -> no dup case" (ingest.py:115): an upload whose messages were *)
(* all acknowledged before opens no case.                                    *)
ReingestOpensNoCase ==
  [][\A e \in Execs :
       exec[e] # NoUpload /\ {exec[e].batch[i] : i \in DOMAIN exec[e].batch} \subseteq acked
         => \A c \in CaseIds : cases[c].by # e => cases'[c].by # e]_intakeVars
=============================================================================
