----------------------------- MODULE CustomerProofs -----------------------------
(***************************************************************************)
(* What a customer may rely on, for every number of messages, uploads,     *)
(* replies and faults and whatever the thresholds are.                     *)
(*                                                                         *)
(* The portal tells the truth: "ready" answers the whole conversation, a   *)
(* conversation at rest does not read as stalled, a living worker is not   *)
(* taken for dead, and the question on the screen is the pending one.      *)
(*                                                                         *)
(* Intake keeps what is sent: a message is put into a case once, what was  *)
(* acknowledged is stored in a committed case, and two complaints are not  *)
(* run together, however the transactions overlap, wait and roll back.     *)
(***************************************************************************)
EXTENDS PortalChat, Intake, FiniteSetTheorems, WellFoundedInduction, TLAPS

-----------------------------------------------------------------------------
(* The portal.                                                             *)

Working == todo > 0 \/ run # Idle      \* some chain is still to run

(* The stamp tells what elicitation has made of the case.  An elicitation  *)
(* stamps a case it wrote, so an unstamped one is new or failed, and one   *)
(* that is behind its messages has a chain coming, unless a chain failed   *)
(* or the case was handed off.                                             *)
Stamping ==
  /\ stamp = "none" => caseState \in {"created", "processing_failed"}
  /\ stamp # "none" => caseState # "created"
  /\ failures = 0 => /\ caseState # "processing_failed"
                     /\ caseState = "created" => Working
                     /\ stamp = "older" => Working \/ caseState \in Handed

(* A worker that beats has a young heartbeat, but for the beats it missed. *)
Beating == up => beat # NoRow /\ beat <= missed

(* While the replies are orderly there is one chain at a time, none while  *)
(* a reply is on its way, and each reads the whole conversation; a stamp   *)
(* that is newer than the messages is a decision about all of them.        *)
Orderly ==
  orderly =>
    /\ post # "none" => post = "sent" /\ ~Working
    /\ todo <= 1 /\ (todo = 1 => run = Idle)
    /\ run # Idle => run.covers = messages
    /\ stamp = "newer" => decided = messages /\ ~Working

(* The bounds of the state, and that a chain that runs is of some message. *)
Bounds ==
  /\ PortalTypeOK
  /\ post # "none" => messages < MaxMessages
  /\ run # Idle => run.phase # "idle" /\ todo < messages

ChatInv == Bounds /\ Stamping /\ Beating /\ Orderly

Kept == orderly' => orderly /\ (post' # "none" => Rested \/ post # "none")

(* What a step does on the portal's side.                                  *)
PortalMove ==
  \/ UNCHANGED portalVars \/ PostBegin \/ PostStored \/ PostDropped
  \/ ChainRead \/ ElicitSkip \/ ElicitUnchanged \/ ElicitClaim \/ ElicitWrite
  \/ ChainFails \/ Approve \/ Crash \/ Start \/ Tick \/ TickMissed

LEMMA ChatInit == Init => ChatInv
  <1> SUFFICES ASSUME Init PROVE ChatInv
    OBVIOUS
  <1>1. up \in BOOLEAN /\ beat \in {NoRow} \cup 0..(LiveTicks + 1)
    <2>1. CASE up = TRUE /\ beat = 0
      BY <2>1, PortalAssumption
    <2>2. CASE up = FALSE /\ beat = NoRow
      BY <2>2
    <2> QED
      BY <2>1, <2>2 DEF Init, PortalInit
  <1>2. Bounds
    BY <1>1, PortalAssumption DEF Init, PortalInit, Bounds, PortalTypeOK, Open, Idle
  <1>3. Stamping /\ Orderly
    BY DEF Init, PortalInit, Stamping, Orderly, Working
  <1>4. Beating
    BY DEF Init, PortalInit, Beating, NoRow
  <1> QED
    BY <1>2, <1>3, <1>4 DEF ChatInv

(* A chain the worker dies over is to run again.                           *)
LEMMA DiedStep ==
  ASSUME Bounds, Died
  PROVE  up' \in BOOLEAN /\ run' = Idle /\ todo' \in 0..messages
  <1>1. run' = Idle /\ up' = FALSE /\ todo' = (IF run = Idle THEN todo ELSE todo + 1)
    BY DEF Died
  <1>2. todo' \in 0..messages
    BY <1>1 DEF Bounds, PortalTypeOK
  <1> QED
    BY <1>1, <1>2

LEMMA ChatStep ==
  ASSUME ChatInv, Kept, PortalMove
  PROVE  ChatInv'
  <1> USE PortalAssumption DEF ChatInv, Bounds, PortalTypeOK, Idle
  <1>1. CASE UNCHANGED portalVars
    BY <1>1 DEF Kept, portalVars, caseVars, chainVars, workerVars, Stamping, Beating, Orderly,
       Working, Rested
  <1>2. CASE PostBegin
    BY <1>2 DEF Kept, PostBegin, caseVars, chainVars, workerVars, Stamping, Beating, Orderly,
       Working, Rested
  <1>3. CASE PostStored
    <2>1. Bounds' /\ Beating'
      BY <1>3 DEF PostStored, Queued, workerVars, Beating
    <2>2. Stamping'
      BY <1>3 DEF PostStored, Queued, Stamping, Working
    <2>3. Orderly'
      BY <1>3 DEF PostStored, Queued, Kept, Orderly, Working
    <2> QED
      BY <2>1, <2>2, <2>3
  <1>4. CASE PostDropped
    BY <1>4 DEF Kept, PostDropped, caseVars, chainVars, workerVars, Stamping, Beating, Orderly,
       Working, Rested
  <1>5. CASE ChainRead
    BY <1>5 DEF Kept, ChainRead, caseVars, workerVars, Stamping, Beating, Orderly, Working
  <1>6. CASE ElicitSkip
    BY <1>6 DEF Kept, ElicitSkip, caseVars, workerVars, Stamping, Beating, Orderly, Working, Handed
  <1>7. CASE ElicitUnchanged
    BY <1>7 DEF Kept, ElicitUnchanged, Touch, Stamped, workerVars, Stamping, Beating, Orderly,
       Working
  <1>8. CASE ElicitClaim
    BY <1>8 DEF Kept, ElicitClaim, caseVars, workerVars, Stamping, Beating, Orderly, Working
  <1>9. CASE ElicitWrite
    BY <1>9 DEF Kept, ElicitWrite, Stamped, workerVars, Stamping, Beating, Orderly, Working, Open,
       Handed
  <1>10. CASE ChainFails
    BY <1>10 DEF Kept, ChainFails, workerVars, Stamping, Beating, Orderly, Working, Open, Handed
  <1>11. CASE Approve
    BY <1>11 DEF Kept, Approve, chainVars, workerVars, Stamping, Beating, Orderly, Working, Open,
       Handed
  <1>12. CASE Start
    BY <1>12 DEF Kept, Start, caseVars, chainVars, Stamping, Beating, Orderly, Working, NoRow
  <1>13. CASE Tick
    BY <1>13 DEF Kept, Tick, Beats, Older, Cap, caseVars, chainVars, Stamping, Beating, Orderly,
       Working, NoRow
  <1>14. CASE Crash
    <2>1. Bounds'
      BY <1>14, DiedStep DEF Crash, caseVars
    <2>2. Stamping'
      BY <1>14 DEF Crash, Died, caseVars, Stamping, Working
    <2>3. Orderly'
      BY <1>14 DEF Crash, Died, caseVars, Kept, Orderly, Working
    <2>4. Beating'
      BY <1>14 DEF Crash, Died, Beating
    <2> QED
      BY <2>1, <2>2, <2>3, <2>4
  <1>15. CASE TickMissed
    <2>1. beat' \in {NoRow} \cup 0..(LiveTicks + 1) /\ age' \in 0..(StallTicks + 1)
      BY <1>15 DEF TickMissed, Older, Cap, NoRow
    <2>2. up' => beat' # NoRow /\ beat' <= missed'
      BY <1>15 DEF TickMissed, Died, Older, Cap, NoRow, Beating, chainVars
    <2>3. CASE Died
      <3>1. Bounds'
        BY <1>15, <2>1, <2>3, DiedStep DEF TickMissed, caseVars
      <3>2. Stamping'
        BY <1>15, <2>3 DEF TickMissed, Died, caseVars, Stamping, Working
      <3>3. Orderly'
        BY <1>15, <2>3 DEF TickMissed, Died, caseVars, Kept, Orderly, Working
      <3> QED
        BY <2>2, <3>1, <3>2, <3>3 DEF Beating
    <2>4. CASE UNCHANGED <<up, chainVars>>
      <3>1. Bounds'
        BY <1>15, <2>1, <2>4 DEF TickMissed, chainVars, caseVars
      <3>2. Stamping'
        BY <1>15, <2>4 DEF TickMissed, chainVars, caseVars, Stamping, Working
      <3>3. Orderly'
        BY <1>15, <2>4 DEF TickMissed, chainVars, caseVars, Kept, Orderly, Working
      <3> QED
        BY <2>2, <3>1, <3>2, <3>3 DEF Beating
    <2> QED
      BY <1>15, <2>3, <2>4 DEF TickMissed
  <1> QED
    BY <1>1, <1>2, <1>3, <1>4, <1>5, <1>6, <1>7, <1>8, <1>9, <1>10, <1>11, <1>12, <1>13, <1>14,
       <1>15 DEF PortalMove

LEMMA NextMoves == [Next]_vars => PortalMove /\ Kept
  <1> SUFFICES ASSUME [Next]_vars PROVE PortalMove /\ Kept
    OBVIOUS
  <1>1. CASE Next
    <2>1. Kept
      BY <1>1 DEF Next, Track, Kept
    <2>2. PortalMove
      BY <1>1 DEF Next, ReplyBegins, ReplyStored, ReplyDiverted, ReplyRefused, ServerActs, Poll,
         WidgetActs, Passes, Time, PortalNext, Chain, PortalMove
    <2> QED
      BY <2>1, <2>2
  <1>2. CASE UNCHANGED vars
    BY <1>2 DEF vars, PortalMove, Kept, portalVars
  <1> QED
    BY <1>1, <1>2

LEMMA ChatInvariant == Spec => []ChatInv
  <1>1. ChatInv /\ [Next]_vars => ChatInv'
    BY NextMoves, ChatStep
  <1> QED
    BY <1>1, ChatInit, PTL DEF Spec

(* The state of the portal has its type, whatever the bounds.              *)
THEOREM PortalTyped == Spec => []PortalTypeOK
  <1>1. ChatInv => PortalTypeOK
    BY DEF ChatInv, Bounds
  <1> QED
    BY <1>1, ChatInvariant, PTL

(* "Ready" answers the whole conversation while the replies are orderly.   *)
THEOREM ReadyIsWhole == Spec => []ReadyWhenOrderly
  <1>1. ChatInv => ReadyWhenOrderly
    BY DEF ChatInv, Bounds, PortalTypeOK, Stamping, Orderly, ReadyWhenOrderly, Status, Told,
       Reprocessing
  <1> QED
    BY <1>1, ChatInvariant, PTL

(* A conversation at rest that nothing failed in is not told it stalled.   *)
THEOREM RestIsReady == Spec => []NoFalseStall
  <1>1. ChatInv => NoFalseStall
    BY DEF ChatInv, Bounds, PortalTypeOK, Stamping, NoFalseStall, Status, Ready, Working, Rested,
       Reprocessing
  <1> QED
    BY <1>1, ChatInvariant, PTL

(* A living worker is not told dead before it missed LiveTicks beats.      *)
THEOREM LiveWorkerIsSeen == Spec => []LiveWorkerSeen
  <1>1. ChatInv => LiveWorkerSeen
    BY PortalAssumption DEF ChatInv, Bounds, PortalTypeOK, Beating, LiveWorkerSeen, WorkerDown,
       NoRow
  <1> QED
    BY <1>1, ChatInvariant, PTL

-----------------------------------------------------------------------------
(* The screen: without overlapping answers, one that is under way arrives  *)
(* at a customer who waits, and the question it brings is still the last   *)
(* one then, for no chain runs until the reply to it.                      *)
Screen ==
  orderly /\ ~overlapped =>
    /\ inFlight = <<>> \/ \E m : inFlight = <<m>>
    /\ inFlight # <<>> \/ timer => composer = "empty"
    /\ post # "none" => composer = "sending"
    /\ \A k \in DOMAIN inFlight : inFlight[k].kind = "ready" /\ inFlight[k].question > 0 =>
         ~Working /\ inFlight[k].question = question
    /\ composer \in {"ask", "sending"} => ~Working /\ shown = question

LEMMA ScreenInit == Init => Screen
  BY DEF Init, PortalInit, WidgetInit, Screen, Working

LEMMA ScreenStep == ChatInv /\ Screen /\ [Next]_vars => Screen'
  <1> SUFFICES ASSUME ChatInv, Screen, [Next]_vars, (orderly /\ ~overlapped)'
               PROVE  Screen'
    BY DEF Screen
  <1>1. CASE UNCHANGED vars
    BY <1>1 DEF vars, portalVars, caseVars, chainVars, widgetVars, Screen, Working
  <1>2. CASE Next
    <2>1. orderly /\ ~overlapped /\ ~(Len(inFlight') > 1)
      BY <1>2 DEF Next, Track
    <2>2. /\ inFlight = <<>> \/ \E m : inFlight = <<m>>
          /\ inFlight # <<>> \/ timer => composer = "empty"
          /\ post # "none" => composer = "sending"
          /\ \A k \in DOMAIN inFlight : inFlight[k].kind = "ready" /\ inFlight[k].question > 0 =>
               ~Working /\ inFlight[k].question = question
          /\ composer \in {"ask", "sending"} => ~Working /\ shown = question
      BY <2>1 DEF Screen
    <2>3. CASE ReplyBegins
      BY <2>2, <2>3 DEF ReplyBegins, PostBegin, Reply, caseVars, chainVars, Screen, Working
    <2>4. CASE ReplyStored \/ ReplyDiverted
      <3>1. post # "none" /\ post' = "none" /\ inFlight' = inFlight /\ composer' = "empty"
        BY <2>4 DEF ReplyStored, ReplyDiverted, PostStored, PostDropped, Replied, BeginPoll
      <3>2. inFlight = <<>>
        BY <2>2, <3>1
      <3> QED
        BY <3>1, <3>2 DEF Screen
    <2>5. CASE ReplyRefused
      BY <2>2, <2>5 DEF ReplyRefused, PostDropped, Refused, caseVars, chainVars, Screen, Working
    <2>6. CASE ServerActs
      <3>1. UNCHANGED widgetVars
        BY <2>6 DEF ServerActs
      <3>2. post' # "none" => post # "none"
        BY <2>6 DEF ServerActs, PortalNext, Chain, ChainRead, ElicitSkip, ElicitUnchanged, Touch,
           Stamped, ElicitClaim, ElicitWrite, ChainFails, Approve, Crash, Start
      <3>3. ~Working => ~Working' /\ question' = question
        BY <2>6 DEF ServerActs, PortalNext, Chain, ChainRead, ElicitSkip, ElicitUnchanged,
           ElicitClaim, ElicitWrite, ChainFails, Approve, Crash, Died, Start, Working, Idle,
           caseVars, chainVars, ChatInv, Bounds, PortalTypeOK
      <3> QED
        BY <2>2, <3>1, <3>2, <3>3 DEF widgetVars, Screen
    <2>7. CASE Poll
      <3>1. /\ UNCHANGED <<portalVars, composer, shown, timer>> /\ timer
            /\ inFlight' = Append(inFlight, Status)
        BY <2>7 DEF Poll, Fetch
      <3>2. inFlight' = <<Status>>
        <4>1. CASE inFlight = <<>>
          BY <3>1, <4>1
        <4>2. ASSUME NEW m, inFlight = <<m>> PROVE FALSE
          <5>1. \A s : Len(Append(<<m>>, s)) = 2
            OBVIOUS
          <5> QED
            BY <2>1, <3>1, <4>2, <5>1
        <4> QED
          BY <2>2, <4>1, <4>2
      <3>3. Status.kind = "ready" /\ Status.question > 0 => ~Working /\ Status.question = question
        <4>1. CASE Status = Ready
          <5>1. Status.question > 0 => caseState = "incomplete" /\ Status.question = question
            BY <4>1 DEF Ready, Pending
          <5>2. caseState = "incomplete" => ~Reprocessing \/ Status.kind # "ready"
            BY DEF Status, Told
          <5> QED
            BY <2>1, <5>1, <5>2 DEF ChatInv, Bounds, PortalTypeOK, Stamping, Orderly, Reprocessing
        <4>2. CASE Status # Ready
          BY <4>2 DEF Status, Told
        <4> QED
          BY <4>1, <4>2
      <3>4. UNCHANGED <<question, post, todo, run>>
        BY <3>1 DEF portalVars, caseVars, chainVars
      <3> HIDE DEF Working
      <3>5. ~Working => ~Working'
        BY <3>4 DEF Working
      <3>6. PICK s : s = Status
        OBVIOUS
      <3> QED
        BY <2>2, <3>1, <3>2, <3>3, <3>4, <3>5, <3>6 DEF Screen
    <2>8. CASE WidgetActs
      <3>1. UNCHANGED <<question, post, todo, run>>
        BY <2>8 DEF WidgetActs, portalVars, caseVars, chainVars
      <3>2. CASE Again
        BY <2>2, <3>1, <3>2 DEF Again, BeginPoll, Screen, Working
      <3>3. ASSUME NEW k \in DOMAIN inFlight, StillProcessing(k) \/ IsReady(k) \/ FetchFails(k)
            PROVE  Screen'
        <4>1. PICK m : inFlight = <<m>>
          BY <2>2, <3>3
        <4>2. k = 1 /\ inFlight[k] = m /\ composer = "empty"
          BY <2>2, <3>3, <4>1
        <4>3. inFlight' = <<>>
          BY <3>3, <4>1, <4>2 DEF StillProcessing, IsReady, FetchFails, Arrives, Without
        <4>4. CASE StillProcessing(k) \/ FetchFails(k)
          BY <2>2, <3>1, <4>2, <4>3, <4>4 DEF StillProcessing, FetchFails, Screen, Working
        <4>5. CASE IsReady(k)
          BY <2>2, <3>1, <4>1, <4>2, <4>3, <4>5 DEF IsReady, ComposerFor, Screen, Working
        <4> QED
          BY <3>3, <4>4, <4>5
      <3> QED
        BY <2>8, <3>2, <3>3 DEF WidgetActs, Deliver
    <2>9. CASE Passes
      <3>1. UNCHANGED <<timer, composer, shown, note, inFlight, caseVars, post>>
        BY <2>9 DEF Passes, Time, Tick, TickMissed
      <3>2. ~Working => ~Working'
        BY <2>9 DEF Passes, Time, Tick, TickMissed, Died, chainVars, Working
      <3> QED
        BY <2>2, <3>1, <3>2 DEF caseVars, Screen
    <2> QED
      BY <1>2, <2>3, <2>4, <2>5, <2>6, <2>7, <2>8, <2>9 DEF Next
  <1> QED
    BY <1>1, <1>2

(* The question the customer is asked is the one that is pending, while    *)
(* neither the replies nor the answers of the server overlap.              *)
THEOREM AskedTheRightThing == Spec => []AskedIsPending
  <1>1. ChatInv /\ Screen /\ [Next]_vars => (ChatInv /\ Screen)'
    BY NextMoves, ChatStep, ScreenStep
  <1>2. Init => ChatInv /\ Screen
    BY ChatInit, ScreenInit
  <1>3. Screen => AskedIsPending
    BY DEF Screen, AskedIsPending
  <1> QED
    BY <1>1, <1>2, <1>3, PTL DEF Spec

-----------------------------------------------------------------------------
(* Numbers and orders.                                                       *)

(* A set of numbers that is not empty has a least one.                       *)
LEMMA HasLeast ==
  ASSUME NEW S \in SUBSET Nat, S # {}
  PROVE  \E m \in S : \A x \in S : m <= x
  <1> DEFINE Less == OpToRel(<, Nat)
  <1>1. Less = {ss \in Nat \X Nat : ss[1] < ss[2]}
    BY Zenon DEF OpToRel
  <1> HIDE DEF Less
  <1>2. IsWellFoundedOn(Less, Nat)
    BY NatLessThanWellFounded DEF Less
  <1>3. PICK m \in S : \A x \in S : ~(<<x, m>> \in Less)
    BY <1>2, WFMin
  <1>4. ASSUME NEW x \in S, x < m PROVE FALSE
    <2>1. <<x, m>> \in {ss \in Nat \X Nat : ss[1] < ss[2]}
      BY <1>4
    <2> QED
      BY <1>1, <1>3, <2>1
  <1> QED
    BY <1>4

(* A finite one has a greatest one too: the one that the fewest are above.   *)
LEMMA HasGreatest ==
  ASSUME NEW S \in SUBSET Nat, S # {}, IsFiniteSet(S)
  PROVE  \E m \in S : \A x \in S : x <= m
  <1>1. PICK above : above = [t \in S |-> {x \in S : x > t}]
    OBVIOUS
  <1>2. \A t \in S : above[t] \in SUBSET S
    BY <1>1
  <1>3. PICK count : count = [t \in S |-> Cardinality(above[t])]
    OBVIOUS
  <1>4. \A t \in S : IsFiniteSet(above[t]) /\ count[t] = Cardinality(above[t]) /\ count[t] \in Nat
    BY <1>2, <1>3, FS_Subset, FS_CardinalityType
  <1>5. {count[t] : t \in S} \in SUBSET Nat /\ {count[t] : t \in S} # {}
    BY <1>4
  <1>6. PICK n \in {count[t] : t \in S} : \A k \in {count[t] : t \in S} : n <= k
    BY <1>5, HasLeast
  <1>7. PICK m \in S : n = count[m]
    BY <1>6
  <1>8. \A t \in S : count[m] <= count[t]
    BY <1>6, <1>7
  <1>9. ASSUME NEW x \in S, x > m PROVE FALSE
    <2>1. above[x] \in SUBSET above[m] /\ x \in above[m] /\ x \notin above[x]
      <3>1. ASSUME NEW y \in S, y > x PROVE y > m
        <4>1. x \in Nat /\ y \in Nat /\ m \in Nat
          OBVIOUS
        <4> QED
          BY <1>9, <3>1, <4>1
      <3>3. ~(x > x)
        <4>1. x \in Nat
          OBVIOUS
        <4> QED
          BY <4>1
      <3>2. above[x] = {y \in S : y > x} /\ above[m] = {y \in S : y > m}
        BY <1>1
      <3> QED
        BY <1>9, <3>1, <3>2, <3>3
    <2>2. Cardinality(above[x]) <= Cardinality(above[m])
          /\ Cardinality(above[x]) # Cardinality(above[m])
      BY <1>4, <2>1, FS_Subset
    <2>3. count[x] <= count[m] /\ count[x] # count[m]
      BY <1>4, <2>2
    <2>4. count[m] <= count[x] /\ count[m] \in Nat /\ count[x] \in Nat
      BY <1>4, <1>8
    <2> QED
      BY <2>3, <2>4
  <1> QED
    BY <1>9

-----------------------------------------------------------------------------
(* The order in which an upload is handled.                                  *)

(* A sender of the upload has a first message in it.                         *)
LEMMA FirstIsThere ==
  ASSUME NEW b \in Seq(Msgs), NEW i \in DOMAIN b
  PROVE  /\ FirstOf(b, From[b[i]]) \in DOMAIN b
         /\ From[b[FirstOf(b, From[b[i]])]] = From[b[i]]
  <1> DEFINE own == {j \in DOMAIN b : From[b[j]] = From[b[i]]}
  <1>1. own \in SUBSET Nat /\ own # {}
    OBVIOUS
  <1>2. PICK f \in own : \A j \in own : f <= j
    <2> HIDE DEF own
    <2> QED
      BY <1>1, HasLeast
  <1>3. f \in DOMAIN b /\ From[b[f]] = From[b[i]] /\ \A j \in 1..(f - 1) : From[b[j]] # From[b[i]]
    <2>1. \A j \in 1..(f - 1) : j \in DOMAIN b /\ j < f
      OBVIOUS
    <2> QED
      BY <1>2, <2>1
  <1> HIDE DEF own
  <1> QED
    BY <1>3 DEF FirstOf

(* Triples of numbers, ordered by the first of them that differs.            *)
Lower(x, y, z, u, v, w) == x < u \/ (x = u /\ (y < v \/ (y = v /\ z < w)))
LEMMA LowerIrreflexive ==
  ASSUME NEW x \in Nat, NEW y \in Nat, NEW z \in Nat
  PROVE  ~Lower(x, y, z, x, y, z)
  BY DEF Lower
LEMMA LowerTotal ==
  ASSUME NEW x \in Nat, NEW y \in Nat, NEW z \in Nat,
         NEW u \in Nat, NEW v \in Nat, NEW w \in Nat
  PROVE  z = w \/ Lower(x, y, z, u, v, w) \/ Lower(u, v, w, x, y, z)
  BY DEF Lower
LEMMA LowerTransitive ==
  ASSUME NEW x \in Nat, NEW y \in Nat, NEW z \in Nat,
         NEW u \in Nat, NEW v \in Nat, NEW w \in Nat,
         NEW p \in Nat, NEW q \in Nat, NEW r \in Nat,
         Lower(x, y, z, u, v, w), Lower(u, v, w, p, q, r)
  PROVE  Lower(x, y, z, p, q, r)
  BY DEF Lower

(* Before is a strict total order of the positions of an upload.             *)
LEMMA BeforeOrders ==
  ASSUME NEW b \in Seq(Msgs)
  PROVE  /\ \A i \in DOMAIN b : ~Before(b, i, i)
         /\ \A i, j \in DOMAIN b : i = j \/ Before(b, i, j) \/ Before(b, j, i)
         /\ \A i, j, k \in DOMAIN b : Before(b, i, j) /\ Before(b, j, k) => Before(b, i, k)
  <1>1. PICK first : first = [i \in DOMAIN b |-> FirstOf(b, From[b[i]])]
    OBVIOUS
  <1>2. PICK sent : sent = [i \in DOMAIN b |-> At[b[i]]]
    OBVIOUS
  <1>3. \A i \in DOMAIN b : i \in Nat /\ first[i] \in Nat /\ sent[i] \in Nat
    <2> TAKE i \in DOMAIN b
    <2>1. first[i] \in DOMAIN b
      BY <1>1, FirstIsThere
    <2>2. b[i] \in Msgs
      OBVIOUS
    <2> QED
      BY <1>2, <2>1, <2>2, IntakeAssumption
  <1>4. \A i, j \in DOMAIN b : first[i] = first[j] <=> From[b[i]] = From[b[j]]
    BY <1>1, FirstIsThere
  <1>5. \A i, j \in DOMAIN b :
          Before(b, i, j) <=> Lower(first[i], sent[i], i, first[j], sent[j], j)
    BY <1>1, <1>2, <1>4 DEF Before, Lower
  <1>6. \A i \in DOMAIN b : ~Before(b, i, i)
    BY <1>3, <1>5, LowerIrreflexive
  <1>7. \A i, j \in DOMAIN b : i = j \/ Before(b, i, j) \/ Before(b, j, i)
    BY <1>3, <1>5, LowerTotal
  <1>8. \A i, j, k \in DOMAIN b : Before(b, i, j) /\ Before(b, j, k) => Before(b, i, k)
    BY <1>3, <1>5, LowerTransitive
  <1> QED
    BY <1>6, <1>7, <1>8

(* An upload is handled whole: its order is one of all its messages.         *)
LEMMA OrderIsWhole ==
  ASSUME NEW b \in Seq(Msgs)
  PROVE  /\ InOrder(b) \in Seq(Msgs)
         /\ \A i \in DOMAIN b : \E n \in DOMAIN InOrder(b) : InOrder(b)[n] = b[i]
  <1> DEFINE Ahead(i) == {j \in DOMAIN b : Before(b, j, i)}
  <1>1. PICK D : D = DOMAIN b
    OBVIOUS
  <1>a. PICK len : len = Len(b)
    OBVIOUS
  <1>b. len \in Nat /\ D = 1..len /\ \A i \in D : b[i] \in Msgs
    BY <1>1, <1>a
  <1>2. IsFiniteSet(D) /\ Cardinality(D) = len
    BY <1>b, FS_Interval
  <1>3. PICK ahead : ahead = [i \in D |-> Ahead(i)]
    OBVIOUS
  <1>4. PICK rank : rank = [i \in D |-> Cardinality(Ahead(i))]
    OBVIOUS
  <1>5. \A i \in D : rank[i] = Cardinality(ahead[i]) /\ ahead[i] \in SUBSET D
    BY <1>1, <1>3, <1>4
  <1>6. \A i \in D : IsFiniteSet(ahead[i]) /\ rank[i] \in Nat
    BY <1>2, <1>5, FS_Subset, FS_CardinalityType
  <1>7. \A i, j \in D : j \in ahead[i] <=> Before(b, j, i)
    BY <1>1, <1>3
  <1> HIDE DEF Ahead
  <1>8. ASSUME NEW i \in D PROVE rank[i] < len
    <2>1. ahead[i] \in SUBSET (D \ {i})
      BY <1>1, <1>5, <1>7, BeforeOrders
    <2>2. IsFiniteSet(D \ {i}) /\ Cardinality(D \ {i}) = len - 1
      BY <1>2, FS_RemoveElement
    <2>3. Cardinality(ahead[i]) <= len - 1
      BY <2>1, <2>2, FS_Subset
    <2> QED
      BY <1>b, <1>5, <1>6, <2>3
  <1>9. ASSUME NEW i \in D, NEW j \in D, Before(b, i, j) PROVE rank[i] < rank[j]
    <2>1. ahead[i] \in SUBSET ahead[j] /\ i \in ahead[j] /\ i \notin ahead[i]
      BY <1>1, <1>5, <1>7, <1>9, BeforeOrders
    <2>2. Cardinality(ahead[i]) <= Cardinality(ahead[j])
          /\ Cardinality(ahead[i]) # Cardinality(ahead[j])
      BY <1>6, <2>1, FS_Subset
    <2> QED
      BY <1>5, <1>6, <2>2
  <1>10. \A i, j \in D : rank[i] = rank[j] => i = j
    <2>1. \A i, j \in D : i = j \/ Before(b, i, j) \/ Before(b, j, i)
      BY <1>1, BeforeOrders
    <2> SUFFICES ASSUME NEW i \in D, NEW j \in D, rank[i] = rank[j], i # j PROVE FALSE
      OBVIOUS
    <2>2. rank[i] < rank[j] \/ rank[j] < rank[i]
      BY <1>9, <2>1
    <2>3. rank[i] \in Nat /\ rank[j] \in Nat
      BY <1>6
    <2> QED
      BY <2>2, <2>3
  <1>11. PICK place : place = [i \in D |-> rank[i] + 1]
    OBVIOUS
  <1>12. \A i \in D : place[i] \in D /\ rank[i] = place[i] - 1
    BY <1>b, <1>6, <1>8, <1>11
  <1>13. place \in Injection(D, D)
    <2>1. \A i, j \in D : place[i] = place[j] => i = j
      BY <1>10, <1>12
    <2>2. place \in [D -> D]
      BY <1>11, <1>12
    <2> QED
      BY <2>1, <2>2 DEF Injection, IsInjective
  <1>14. place \in Surjection(D, D)
    BY <1>2, <1>13, FS_Injection
  <1>15. \A n \in D : \E i \in D : rank[i] = n - 1
    BY <1>12, <1>14 DEF Surjection
  <1>16. PICK at : at = [n \in DOMAIN b |->
            CHOOSE i \in DOMAIN b : Cardinality({j \in DOMAIN b : Before(b, j, i)}) = n - 1]
    OBVIOUS
  <1>17. \A i \in D : Cardinality({j \in DOMAIN b : Before(b, j, i)}) = rank[i]
    BY <1>4 DEF Ahead
  <1>18. \A n \in D : at[n] \in D /\ rank[at[n]] = n - 1
    <2> TAKE n \in D
    <2>1. \E i \in DOMAIN b : Cardinality({j \in DOMAIN b : Before(b, j, i)}) = n - 1
      BY <1>1, <1>15, <1>17
    <2>2. at[n] = CHOOSE i \in DOMAIN b : Cardinality({j \in DOMAIN b : Before(b, j, i)}) = n - 1
      BY <1>1, <1>16
    <2>3. at[n] \in DOMAIN b /\ Cardinality({j \in DOMAIN b : Before(b, j, at[n])}) = n - 1
      BY <2>1, <2>2
    <2> QED
      BY <1>1, <1>17, <2>3
  <1>19. InOrder(b) = [n \in DOMAIN b |-> b[at[n]]]
    BY <1>16 DEF InOrder
  <1>20. \A n \in D : b[at[n]] \in Msgs
    BY <1>b, <1>18
  <1>21. InOrder(b) \in [1..len -> Msgs]
    BY <1>1, <1>b, <1>19, <1>20
  <1>22. InOrder(b) \in Seq(Msgs)
    BY <1>b, <1>21
  <1>23. \A i \in D : at[place[i]] = i
    <2> TAKE i \in D
    <2>1. place[i] \in D /\ rank[i] = place[i] - 1
      BY <1>12
    <2>2. at[place[i]] \in D /\ rank[at[place[i]]] = place[i] - 1
      BY <1>18, <2>1
    <2> QED
      BY <1>10, <2>1, <2>2
  <1>24. \A i \in D : place[i] \in DOMAIN InOrder(b) /\ InOrder(b)[place[i]] = b[i]
    BY <1>1, <1>12, <1>19, <1>23
  <1> QED
    BY <1>1, <1>22, <1>24
-----------------------------------------------------------------------------
(* Types.                                                                    *)

Running(e) == exec[e] # NoUpload
Storing(e) == exec[e].phase = "store"
Others(e) == Execs \ {e}

CaseRow == [from : Senders, opened : Nat, state : {"created", "committed"},
            by : Execs \cup {Nobody}]
DocRow == [case : CaseIds, at : Nat, by : Execs \cup {Nobody}]
ClaimRow == [status : {"running", "done"}, by : Execs \cup {Nobody}]

(* IntakeTypes, table by table; while a message is stored it is the next to  *)
(* do, and has a case.                                                       *)
Shape ==
  /\ cases \in [CaseIds -> {NoEntry} \cup CaseRow]
  /\ docs \in [Contents -> {NoEntry} \cup DocRow]
  /\ claims \in [Keys -> {NoEntry} \cup ClaimRow]
  /\ exec \in [Execs -> {NoUpload} \cup Busy]
  /\ \A e \in Execs : Storing(e) => exec[e].todo # <<>> /\ exec[e].case \in CaseIds
  /\ placed \subseteq Nat \X Msgs \X CaseIds /\ acked \subseteq Msgs /\ uploads \in Nat
Owned ==
  /\ \A c \in CaseIds : cases[c].by \in Execs => Running(cases[c].by)
  /\ \A d \in Contents : docs[d].by \in Execs => Running(docs[d].by)
  /\ \A k \in Keys : claims[k].by \in Execs => Running(claims[k].by)

(* A row is there when somebody wrote it.                                    *)
LEMMA WrittenBy ==
  ASSUME Shape
  PROVE  /\ \A c \in CaseIds : /\ cases[c] = NoEntry <=> cases[c].by = None
                               /\ cases[c].by \in {None, Nobody} \cup Execs
                               /\ cases[c].by # None => cases[c] \in CaseRow
         /\ \A d \in Contents : /\ docs[d] = NoEntry <=> docs[d].by = None
                                /\ docs[d].by \in {None, Nobody} \cup Execs
                                /\ docs[d].by # None => docs[d] \in DocRow
         /\ \A k \in Keys : /\ claims[k] = NoEntry <=> claims[k].by = None
                            /\ claims[k].by \in {None, Nobody} \cup Execs
                            /\ claims[k].by # None => claims[k] \in ClaimRow
  <1>1. NoEntry.by = None /\ None \notin Execs \cup {Nobody}
    BY IntakeAssumption DEF NoEntry
  <1>2. \A c \in CaseIds : cases[c] # NoEntry => cases[c].by \in Execs \cup {Nobody} /\ cases[c] \in CaseRow
    BY DEF Shape, CaseRow
  <1>3. \A d \in Contents : docs[d] # NoEntry => docs[d].by \in Execs \cup {Nobody} /\ docs[d] \in DocRow
    BY DEF Shape, DocRow
  <1>4. \A k \in Keys : claims[k] # NoEntry => claims[k].by \in Execs \cup {Nobody} /\ claims[k] \in ClaimRow
    BY DEF Shape, ClaimRow
  <1> QED
    BY <1>1, <1>2, <1>3, <1>4

(* What is open.                                                             *)
LEMMA OpenIs ==
  ASSUME Shape, NEW e \in Execs, Running(e)
  PROVE  exec[e] \in Busy
  BY DEF Shape, Running

LEMMA RunningIsOpen ==
  ASSUME Shape, NEW e \in Execs, exec[e].phase \in {"next", "store"}
  PROVE  Running(e) /\ exec[e] \in Busy
  <1>1. NoUpload.phase = "idle"
    BY DEF NoUpload
  <1> QED
    BY <1>1 DEF Shape, Running

LEMMA MessageIs ==
  ASSUME Shape, NEW e \in Execs, Running(e), exec[e].todo # <<>>
  PROVE  /\ Message(e) \in Msgs
         /\ At[Message(e)] \in Nat /\ From[Message(e)] \in Senders
         /\ Docs[Message(e)] \in Seq(Contents)
         /\ Key[Message(e)] \in Keys \cup {NoKey}
         /\ Tail(exec[e].todo) \in Seq(Msgs)
  <1>1. exec[e].todo \in Seq(Msgs)
    BY OpenIs DEF Busy
  <1>2. Message(e) \in Msgs /\ Tail(exec[e].todo) \in Seq(Msgs)
    BY <1>1 DEF Message
  <1> QED
    BY <1>2, IntakeAssumption

-----------------------------------------------------------------------------
(* What each action does to the transaction that takes it.                   *)

LEMMA SkipDoes ==
  ASSUME Shape, NEW e \in Execs, Skip(e)
  PROVE  /\ Running(e) /\ exec[e] \in Busy /\ exec[e].phase = "next" /\ exec[e].todo # <<>>
         /\ exec' = [exec EXCEPT ![e] = [exec[e] EXCEPT !.todo = Tail(exec[e].todo)]]
  BY RunningIsOpen DEF Skip

LEMMA PlaceDoes ==
  ASSUME Shape, NEW e \in Execs, Place(e)
  PROVE  /\ Running(e) /\ exec[e] \in Busy /\ exec[e].phase = "next" /\ exec[e].todo # <<>>
         /\ \E prior \in PriorsFor(e, Message(e)), c \in CaseIds :
              /\ Into(e, Message(e), prior, c)
              /\ exec' = [exec EXCEPT ![e] =
                   [exec[e] EXCEPT !.phase = "store", !.case = c, !.store = Docs[Message(e)]]]
  BY RunningIsOpen DEF Place

LEMMA StoreDoes ==
  ASSUME Shape, NEW e \in Execs, Store(e)
  PROVE  /\ Running(e) /\ exec[e] \in Busy /\ Storing(e) /\ exec[e].store # <<>>
         /\ exec' = [exec EXCEPT ![e] = [exec[e] EXCEPT !.store = Tail(exec[e].store)]]
  BY RunningIsOpen DEF Store, Storing

After(r, rest, sender, view, put) ==
  [r EXCEPT !.phase = "next", !.todo = rest, !.case = None,
            !.sender = sender, !.building = view, !.placed = put]

LEMMA AfterIs ==
  ASSUME NEW r \in Busy, NEW rest \in Seq(Msgs), NEW sender \in Senders,
         NEW view \in [case : CaseIds, state : {"created"}, last : Nat],
         NEW put \in SUBSET (Nat \X Msgs \X CaseIds)
  PROVE  LET n == After(r, rest, sender, view, put) IN
         /\ n \in Busy /\ n.phase = "next" /\ n.todo = rest /\ n.id = r.id /\ n.batch = r.batch
         /\ n.sender = sender /\ n.building = view /\ n.placed = put
  <1>1. PICK a : a = [r EXCEPT !.phase = "next"]
    OBVIOUS
  <1>2. a \in Busy /\ a.phase = "next" /\ a.id = r.id /\ a.batch = r.batch
    BY <1>1 DEF Busy
  <1>3. PICK b : b = [a EXCEPT !.todo = rest]
    OBVIOUS
  <1>4. b \in Busy /\ b.phase = "next" /\ b.id = r.id /\ b.batch = r.batch /\ b.todo = rest
    BY <1>2, <1>3 DEF Busy
  <1>5. PICK c : c = [b EXCEPT !.case = None]
    OBVIOUS
  <1>6. c \in Busy /\ c.phase = "next" /\ c.id = r.id /\ c.batch = r.batch /\ c.todo = rest
    BY <1>4, <1>5 DEF Busy
  <1>7. PICK d : d = [c EXCEPT !.sender = sender]
    OBVIOUS
  <1>8. /\ d \in Busy /\ d.phase = "next" /\ d.id = r.id /\ d.batch = r.batch /\ d.todo = rest
        /\ d.sender = sender
    BY <1>6, <1>7 DEF Busy
  <1>9. PICK f : f = [d EXCEPT !.building = view]
    OBVIOUS
  <1>10. /\ f \in Busy /\ f.phase = "next" /\ f.id = r.id /\ f.batch = r.batch /\ f.todo = rest
         /\ f.sender = sender /\ f.building = view
    BY <1>8, <1>9 DEF Busy
  <1>11. After(r, rest, sender, view, put) = [f EXCEPT !.placed = put]
    BY <1>1, <1>3, <1>5, <1>7, <1>9 DEF After
  <1> QED
    BY <1>10, <1>11 DEF Busy

LEMMA CompleteDoes ==
  ASSUME Shape, NEW e \in Execs, Complete(e)
  PROVE  /\ Running(e) /\ exec[e] \in Busy /\ Storing(e) /\ exec[e].store = <<>>
         /\ exec[e].todo # <<>> /\ exec[e].case \in CaseIds /\ Message(e) \in Msgs
         /\ exec'[e] \in Busy
         /\ exec'[e].phase = "next" /\ exec'[e].todo = Tail(exec[e].todo)
         /\ exec'[e].id = exec[e].id /\ exec'[e].batch = exec[e].batch
         /\ exec'[e].sender = From[Message(e)]
         /\ exec'[e].building =
              [case |-> exec[e].case, state |-> "created", last |-> At[Message(e)]]
         /\ exec'[e].placed = exec[e].placed \cup {<<exec[e].id, Message(e), exec[e].case>>}
         /\ exec' = [exec EXCEPT ![e] = exec'[e]]
  <1> DEFINE view == [case |-> exec[e].case, state |-> "created", last |-> At[Message(e)]]
             put == exec[e].placed \cup {<<exec[e].id, Message(e), exec[e].case>>}
  <1>1. Running(e) /\ exec[e] \in Busy /\ Storing(e) /\ exec[e].store = <<>>
        /\ exec' = [exec EXCEPT ![e] =
             After(exec[e], Tail(exec[e].todo), From[Message(e)], view, put)]
    BY RunningIsOpen DEF Complete, Storing, After
  <1>2. exec[e].todo # <<>> /\ exec[e].case \in CaseIds
    BY <1>1 DEF Shape
  <1>3. /\ Message(e) \in Msgs /\ At[Message(e)] \in Nat /\ From[Message(e)] \in Senders
        /\ Tail(exec[e].todo) \in Seq(Msgs)
    BY <1>1, <1>2, MessageIs
  <1>4. view \in [case : CaseIds, state : {"created"}, last : Nat]
    BY <1>2, <1>3
  <1>5. put \in SUBSET (Nat \X Msgs \X CaseIds)
    BY <1>1, <1>2, <1>3 DEF Busy
  <1> HIDE DEF view, put
  <1>6. exec'[e] = After(exec[e], Tail(exec[e].todo), From[Message(e)], view, put)
        /\ exec' = [exec EXCEPT ![e] = exec'[e]]
    BY <1>1 DEF Shape
  <1>7. /\ exec'[e] \in Busy
        /\ exec'[e].phase = "next" /\ exec'[e].todo = Tail(exec[e].todo)
        /\ exec'[e].id = exec[e].id /\ exec'[e].batch = exec[e].batch
        /\ exec'[e].sender = From[Message(e)]
        /\ exec'[e].building = view /\ exec'[e].placed = put
    <2>1. PICK r, t, s, v, q :
            /\ r = exec[e] /\ t = Tail(exec[e].todo) /\ s = From[Message(e)]
            /\ v = view /\ q = put
      OBVIOUS
    <2>2. /\ r \in Busy /\ t \in Seq(Msgs) /\ s \in Senders
          /\ v \in [case : CaseIds, state : {"created"}, last : Nat]
          /\ q \in SUBSET (Nat \X Msgs \X CaseIds)
      BY <1>1, <1>3, <1>4, <1>5, <2>1
    <2>3. LET n == After(r, t, s, v, q) IN
          /\ n \in Busy /\ n.phase = "next" /\ n.todo = t /\ n.id = r.id /\ n.batch = r.batch
          /\ n.sender = s /\ n.building = v /\ n.placed = q
      BY <2>2, AfterIs
    <2>4. exec'[e] = After(r, t, s, v, q)
      BY <1>6, <2>1
    <2> QED
      BY <2>1, <2>3, <2>4
  <1> QED
    BY <1>1, <1>2, <1>3, <1>6, <1>7 DEF view, put

LEMMA UploadDoes ==
  ASSUME Shape, NEW e \in Execs, NEW b \in Batches, Upload(e, b)
  PROVE  /\ ~Running(e) /\ b \in Seq(Msgs) /\ InOrder(b) \in Seq(Msgs)
         /\ exec' = [exec EXCEPT ![e] =
              [phase |-> "next", id |-> uploads + 1, batch |-> b, todo |-> InOrder(b),
               building |-> NoPrior, sender |-> None, case |-> None, store |-> <<>>,
               placed |-> {}]]
  <1>1. b \in Seq(Msgs)
    BY IntakeAssumption
  <1> QED
    BY <1>1, OrderIsWhole DEF Upload, Running

LEMMA EndDoes ==
  ASSUME Shape, NEW e \in Execs, Commit(e) \/ Abort(e)
  PROVE  /\ Running(e) /\ exec[e] \in Busy
         /\ exec' = [exec EXCEPT ![e] = NoUpload]
         /\ Commit(e) => exec[e].phase = "next" /\ exec[e].todo = <<>>
  BY RunningIsOpen, OpenIs DEF Commit, Abort, Running

LEMMA CommitDoes ==
  ASSUME Shape, NEW e \in Execs, Commit(e)
  PROVE  /\ \A c \in CaseIds :
              /\ cases[c].by # e => cases'[c] = cases[c]
              /\ cases[c].by = e => cases'[c] = [cases[c] EXCEPT !.by = Nobody]
         /\ \A d \in Contents :
              /\ docs[d].by # e => docs'[d] = docs[d]
              /\ docs[d].by = e => docs'[d] = [docs[d] EXCEPT !.by = Nobody]
         /\ \A k \in Keys :
              /\ claims[k].by # e => claims'[k] = claims[k]
              /\ claims[k].by = e => claims'[k] = [claims[k] EXCEPT !.by = Nobody]
         /\ cases' \in [CaseIds -> {NoEntry} \cup CaseRow]
         /\ docs' \in [Contents -> {NoEntry} \cup DocRow]
         /\ claims' \in [Keys -> {NoEntry} \cup ClaimRow]
  <1>1. e # None
    BY IntakeAssumption
  <1>2. /\ \A r \in CaseRow : [r EXCEPT !.by = Nobody] \in CaseRow
        /\ \A r \in DocRow : [r EXCEPT !.by = Nobody] \in DocRow
        /\ \A r \in ClaimRow : [r EXCEPT !.by = Nobody] \in ClaimRow
    BY DEF CaseRow, DocRow, ClaimRow
  <1>3. /\ cases \in [CaseIds -> {NoEntry} \cup CaseRow]
        /\ docs \in [Contents -> {NoEntry} \cup DocRow]
        /\ claims \in [Keys -> {NoEntry} \cup ClaimRow]
        /\ cases' = Publish(e, cases) /\ docs' = Publish(e, docs) /\ claims' = Publish(e, claims)
    BY DEF Shape, Commit
  <1>4. /\ cases' \in [CaseIds -> {NoEntry} \cup CaseRow]
        /\ \A c \in CaseIds :
             /\ cases[c].by # e => cases'[c] = cases[c]
             /\ cases[c].by = e => cases'[c] = [cases[c] EXCEPT !.by = Nobody]
    BY <1>1, <1>2, <1>3 DEF Publish, NoEntry
  <1>5. /\ docs' \in [Contents -> {NoEntry} \cup DocRow]
        /\ \A d \in Contents :
             /\ docs[d].by # e => docs'[d] = docs[d]
             /\ docs[d].by = e => docs'[d] = [docs[d] EXCEPT !.by = Nobody]
    BY <1>1, <1>2, <1>3 DEF Publish, NoEntry
  <1>6. /\ claims' \in [Keys -> {NoEntry} \cup ClaimRow]
        /\ \A k \in Keys :
             /\ claims[k].by # e => claims'[k] = claims[k]
             /\ claims[k].by = e => claims'[k] = [claims[k] EXCEPT !.by = Nobody]
    BY <1>1, <1>2, <1>3 DEF Publish, NoEntry
  <1> QED
    BY <1>4, <1>5, <1>6

LEMMA AbortDoes ==
  ASSUME Shape, NEW e \in Execs, Abort(e)
  PROVE  /\ \A c \in CaseIds :
              /\ cases[c].by # e => cases'[c] = cases[c]
              /\ cases[c].by = e => cases'[c] = NoEntry
         /\ \A d \in Contents :
              /\ docs[d].by # e => docs'[d] = docs[d]
              /\ docs[d].by = e => docs'[d] = NoEntry
         /\ \A k \in Keys :
              /\ claims[k].by # e => claims'[k] = claims[k]
              /\ claims[k].by = e => claims'[k] = NoEntry
         /\ cases' \in [CaseIds -> {NoEntry} \cup CaseRow]
         /\ docs' \in [Contents -> {NoEntry} \cup DocRow]
         /\ claims' \in [Keys -> {NoEntry} \cup ClaimRow]
  <1>1. /\ cases \in [CaseIds -> {NoEntry} \cup CaseRow]
        /\ docs \in [Contents -> {NoEntry} \cup DocRow]
        /\ claims \in [Keys -> {NoEntry} \cup ClaimRow]
        /\ cases' = Forget(e, cases) /\ docs' = Forget(e, docs) /\ claims' = Forget(e, claims)
    BY DEF Shape, Abort, DocsUndone, ClaimsUndone
  <1>2. /\ cases' \in [CaseIds -> {NoEntry} \cup CaseRow]
        /\ \A c \in CaseIds :
             /\ cases[c].by # e => cases'[c] = cases[c]
             /\ cases[c].by = e => cases'[c] = NoEntry
    BY <1>1 DEF Forget, NoEntry
  <1>3. /\ docs' \in [Contents -> {NoEntry} \cup DocRow]
        /\ \A d \in Contents :
             /\ docs[d].by # e => docs'[d] = docs[d]
             /\ docs[d].by = e => docs'[d] = NoEntry
    BY <1>1 DEF Forget, NoEntry
  <1>4. /\ claims' \in [Keys -> {NoEntry} \cup ClaimRow]
        /\ \A k \in Keys :
             /\ claims[k].by # e => claims'[k] = claims[k]
             /\ claims[k].by = e => claims'[k] = NoEntry
    BY <1>1 DEF Forget, NoEntry
  <1> QED
    BY <1>2, <1>3, <1>4

-----------------------------------------------------------------------------
(* Types, step by step.                                                      *)

NewCase(e, m) == [from |-> From[m], opened |-> At[m], state |-> "created", by |-> e]

LEMMA NewCaseIs ==
  ASSUME NEW e \in Execs, NEW m \in Msgs
  PROVE  /\ NewCase(e, m) \in CaseRow /\ NewCase(e, m).by = e
         /\ NewCase(e, m).from = From[m] /\ NewCase(e, m).opened = At[m]
         /\ NewCase(e, m).state = "created"
  BY IntakeAssumption DEF NewCase, CaseRow

LEMMA IntoDoes ==
  ASSUME Shape, NEW e \in Execs, NEW m \in Msgs, NEW prior, NEW c \in CaseIds,
         Into(e, m, prior, c)
  PROVE  /\ cases' \in [CaseIds -> {NoEntry} \cup CaseRow]
         /\ \A o \in CaseIds : o # c \/ cases[o] # NoEntry => cases'[o] = cases[o]
         /\ \/ /\ "follow_up" \in DecideWindow(m, prior) /\ c = prior.case /\ cases' = cases
            \/ cases[c] = NoEntry /\ cases'[c] = NewCase(e, m)
  <1>1. cases \in [CaseIds -> {NoEntry} \cup CaseRow]
    BY DEF Shape
  <1>2. CASE "follow_up" \in DecideWindow(m, prior) /\ c = prior.case /\ UNCHANGED cases
    BY <1>1, <1>2
  <1>3. CASE cases[c] = NoEntry /\ cases' = [cases EXCEPT ![c] = NewCase(e, m)]
    BY <1>1, <1>3, NewCaseIs
  <1> QED
    BY <1>2, <1>3 DEF Into, NewCase

LEMMA PlaceShape ==
  ASSUME Shape, NEW e \in Execs, Place(e)
  PROVE  Shape'
  <1> DEFINE m == Message(e)
  <1>1. PICK prior \in PriorsFor(e, Message(e)), c \in CaseIds :
          /\ Into(e, Message(e), prior, c)
          /\ exec' = [exec EXCEPT ![e] =
               [exec[e] EXCEPT !.phase = "store", !.case = c, !.store = Docs[Message(e)]]]
    BY PlaceDoes
  <1>2. Running(e) /\ exec[e] \in Busy /\ exec[e].todo # <<>>
    BY PlaceDoes
  <1>3. m \in Msgs /\ Docs[m] \in Seq(Contents) /\ Key[m] \in Keys \cup {NoKey}
    BY <1>2, MessageIs
  <1>4. cases' \in [CaseIds -> {NoEntry} \cup CaseRow]
    BY <1>1, <1>3, IntoDoes
  <1>5. exec'[e] \in Busy
    <2>1. exec'[e] = [exec[e] EXCEPT !.phase = "store", !.case = c, !.store = Docs[m]]
      BY <1>1 DEF Shape
    <2> HIDE DEF m
    <2> QED
      BY <1>2, <1>3, <2>1 DEF Busy
  <1>6. exec' \in [Execs -> {NoUpload} \cup Busy]
    <2> HIDE DEF m
    <2> QED
      BY <1>1, <1>5 DEF Shape
  <1>7. claims' \in [Keys -> {NoEntry} \cup ClaimRow]
    BY <1>3 DEF Place, Shape, ClaimRow
  <1>8. exec'[e].todo # <<>> /\ exec'[e].case \in CaseIds
        /\ \A f \in Others(e) : exec'[f] = exec[f]
    BY <1>1, <1>2 DEF Shape, Busy, Others
  <1>9. UNCHANGED <<docs, placed, acked, uploads>>
    BY DEF Place
  <1> QED
    BY <1>4, <1>6, <1>7, <1>8, <1>9 DEF Shape, Storing, Others
LEMMA SkipShape ==
  ASSUME Shape, NEW e \in Execs, Skip(e)
  PROVE  Shape'
  <1>1. Running(e) /\ exec[e] \in Busy /\ exec[e].phase = "next" /\ exec[e].todo # <<>>
        /\ exec' = [exec EXCEPT ![e] = [exec[e] EXCEPT !.todo = Tail(exec[e].todo)]]
    BY SkipDoes
  <1>2. Tail(exec[e].todo) \in Seq(Msgs)
    BY <1>1, MessageIs
  <1>3. exec'[e] \in Busy /\ exec'[e].phase = "next" /\ \A f \in Others(e) : exec'[f] = exec[f]
    BY <1>1, <1>2 DEF Shape, Busy, Others
  <1>4. exec' \in [Execs -> {NoUpload} \cup Busy]
    BY <1>1, <1>3 DEF Shape
  <1>5. UNCHANGED <<cases, docs, claims, placed, acked, uploads>>
    BY DEF Skip
  <1> QED
    BY <1>3, <1>4, <1>5 DEF Shape, Storing, Others

LEMMA StoreShape ==
  ASSUME Shape, NEW e \in Execs, Store(e)
  PROVE  Shape'
  <1>1. Running(e) /\ exec[e] \in Busy /\ Storing(e) /\ exec[e].store # <<>>
        /\ exec' = [exec EXCEPT ![e] = [exec[e] EXCEPT !.store = Tail(exec[e].store)]]
    BY StoreDoes
  <1>2. exec[e].store \in Seq(Contents) /\ exec[e].todo # <<>> /\ exec[e].case \in CaseIds
    BY <1>1 DEF Busy, Shape
  <1>3. Tail(exec[e].store) \in Seq(Contents) /\ Head(exec[e].store) \in Contents
    BY <1>1, <1>2
  <1>4. exec'[e] \in Busy /\ exec'[e].todo # <<>> /\ exec'[e].case \in CaseIds
        /\ \A f \in Others(e) : exec'[f] = exec[f]
    BY <1>1, <1>2, <1>3 DEF Shape, Busy, Others
  <1>5. exec' \in [Execs -> {NoUpload} \cup Busy]
    BY <1>1, <1>4 DEF Shape
  <1>6. At[Message(e)] \in Nat
    BY <1>1, <1>2, MessageIs
  <1>7. docs' \in [Contents -> {NoEntry} \cup DocRow]
    BY <1>2, <1>3, <1>6 DEF Store, Shape, DocRow
  <1>8. UNCHANGED <<cases, claims, placed, acked, uploads>>
    BY DEF Store
  <1> QED
    BY <1>4, <1>5, <1>7, <1>8 DEF Shape, Storing, Others

LEMMA CompleteShape ==
  ASSUME Shape, NEW e \in Execs, Complete(e)
  PROVE  Shape'
  <1> DEFINE m == Message(e)
  <1>1. Running(e) /\ exec[e].todo # <<>>
    BY CompleteDoes
  <1>3. Key[m] \in Keys \cup {NoKey}
    BY <1>1, MessageIs
  <1> HIDE DEF m
  <1>6. exec'[e] \in Busy /\ exec'[e].phase = "next"
        /\ exec' = [exec EXCEPT ![e] = exec'[e]]
    BY CompleteDoes
  <1>7. exec' \in [Execs -> {NoUpload} \cup Busy] /\ \A f \in Others(e) : exec'[f] = exec[f]
    BY <1>6 DEF Shape, Others
  <1>8. claims' \in [Keys -> {NoEntry} \cup ClaimRow]
    <2>1. CASE Key[m] = NoKey
      BY <2>1 DEF Complete, Shape, m
    <2>2. CASE Key[m] # NoKey
      <3>1. claims' = [claims EXCEPT ![Key[m]].status = "done"]
        BY <2>2 DEF Complete, m
      <3>2. CASE claims[Key[m]] = NoEntry
        <4>1. [NoEntry EXCEPT !.status = "done"] = NoEntry
          BY DEF NoEntry
        <4>2. [claims[Key[m]] EXCEPT !.status = "done"] = NoEntry
          BY <3>2, <4>1
        <4>3. claims' = [claims EXCEPT ![Key[m]] = NoEntry]
          BY <3>1, <4>2
        <4> QED
          BY <4>3 DEF Shape
      <3>3. CASE claims[Key[m]] \in ClaimRow
        BY <3>1, <3>3 DEF Shape, ClaimRow
      <3> QED
        BY <1>3, <2>2, <3>2, <3>3 DEF Shape
    <2> QED
      BY <2>1, <2>2
  <1>9. UNCHANGED <<cases, docs, placed, acked, uploads>>
    BY DEF Complete
  <1> QED
    BY <1>6, <1>7, <1>8, <1>9 DEF Shape, Storing, Others
LEMMA UploadShape ==
  ASSUME Shape, NEW e \in Execs, NEW b \in Batches, Upload(e, b)
  PROVE  Shape'
  <1> DEFINE new == [phase |-> "next", id |-> uploads + 1, batch |-> b, todo |-> InOrder(b),
                     building |-> NoPrior, sender |-> None, case |-> None, store |-> <<>>,
                     placed |-> {}]
  <1>1. b \in Seq(Msgs) /\ InOrder(b) \in Seq(Msgs) /\ exec' = [exec EXCEPT ![e] = new]
    BY UploadDoes
  <1>2. new \in Busy
    BY <1>1 DEF Shape, Busy
  <1>3. new.phase = "next"
    OBVIOUS
  <1> HIDE DEF new
  <1>4. exec'[e] = new /\ \A f \in Others(e) : exec'[f] = exec[f]
    BY <1>1 DEF Shape, Others
  <1>5. exec' \in [Execs -> {NoUpload} \cup Busy]
    BY <1>1, <1>2 DEF Shape
  <1>6. UNCHANGED <<cases, docs, claims, placed, acked>> /\ uploads' \in Nat
    BY DEF Upload, Shape
  <1> QED
    BY <1>3, <1>4, <1>5, <1>6 DEF Shape, Storing, Others

LEMMA EndShape ==
  ASSUME Shape, NEW e \in Execs, Commit(e) \/ Abort(e)
  PROVE  Shape'
  <1>1. Running(e) /\ exec[e] \in Busy /\ exec' = [exec EXCEPT ![e] = NoUpload]
    BY EndDoes
  <1>2. exec' \in [Execs -> {NoUpload} \cup Busy]
    BY <1>1 DEF Shape
  <1>3. NoUpload.phase = "idle"
    BY DEF NoUpload
  <1>4. \A f \in Execs : Storing(f)' => exec'[f].todo # <<>> /\ exec'[f].case \in CaseIds
    BY <1>1, <1>3 DEF Shape, Storing
  <1>5. /\ cases' \in [CaseIds -> {NoEntry} \cup CaseRow]
        /\ docs' \in [Contents -> {NoEntry} \cup DocRow]
        /\ claims' \in [Keys -> {NoEntry} \cup ClaimRow]
    BY CommitDoes, AbortDoes
  <1>6. placed' \subseteq Nat \X Msgs \X CaseIds
    BY <1>1 DEF Commit, Abort, Shape, Busy
  <1>7. acked' \subseteq Msgs
    <2>1. exec[e].batch \in Seq(Msgs)
      BY <1>1 DEF Busy
    <2>2. \A i \in DOMAIN exec[e].batch : exec[e].batch[i] \in Msgs
      BY <2>1
    <2> QED
      BY <2>2 DEF Commit, Abort, Shape
  <1>8. uploads' \in Nat
    BY DEF Commit, Abort, Shape
  <1> QED
    BY <1>2, <1>4, <1>5, <1>6, <1>7, <1>8 DEF Shape

LEMMA CommitCaseDoes ==
  ASSUME Shape, NEW c \in CaseIds, CommitCase(c)
  PROVE  /\ cases' \in [CaseIds -> {NoEntry} \cup CaseRow]
         /\ \A o \in CaseIds : /\ cases'[o].by = cases[o].by
                               /\ cases[o].by # None =>
                                    cases'[o].from = cases[o].from /\ cases'[o].opened = cases[o].opened
         /\ UNCHANGED <<docs, claims, exec, placed, acked, uploads>>
  <1>1. cases[c] \in CaseRow
    <2>1. cases[c].by # None
      BY IntakeAssumption DEF CommitCase
    <2> QED
      BY <2>1, WrittenBy
  <1>2. [cases[c] EXCEPT !.state = "committed"] \in CaseRow
    BY <1>1 DEF CaseRow
  <1>3. cases' = [cases EXCEPT ![c] = [cases[c] EXCEPT !.state = "committed"]]
    BY DEF CommitCase
  <1> QED
    BY <1>1, <1>2, <1>3 DEF Shape, CaseRow, CommitCase

LEMMA ShapeStep ==
  ASSUME Shape, [IntakeStep]_intakeVars
  PROVE  Shape'
  <1>1. ASSUME NEW e \in Execs, Ingest(e) PROVE Shape'
    BY <1>1, SkipShape, PlaceShape, StoreShape, CompleteShape, EndShape DEF Ingest
  <1>2. ASSUME NEW e \in Execs, NEW b \in Batches, Upload(e, b) PROVE Shape'
    BY <1>2, UploadShape
  <1>3. ASSUME NEW c \in CaseIds, CommitCase(c) PROVE Shape'
    BY <1>3, CommitCaseDoes DEF Shape, Storing
  <1>4. CASE UNCHANGED intakeVars
    BY <1>4 DEF intakeVars, Shape, Storing
  <1> QED
    BY <1>1, <1>2, <1>3, <1>4 DEF IntakeStep

-----------------------------------------------------------------------------
(* What a transaction does leaves the others and their rows alone.           *)
Acts(e) == Ingest(e) \/ \E b \in Batches : Upload(e, b)

(* The ledger: a claim that is running is one of the message being stored.   *)
Ledger ==
  /\ \A k \in Keys : claims[k].by = Nobody => claims[k].status = "done"
  /\ \A e \in Execs, k \in Keys : claims[k].by = e /\ claims[k].status = "running" =>
       Storing(e) /\ Key[Message(e)] = k
  /\ \A e \in Execs : Storing(e) /\ Key[Message(e)] # NoKey =>
       claims[Key[Message(e)]] = [status |-> "running", by |-> e]

(* The rows that are not of e: of another transaction, or of everybody.      *)
Alien(e, by) == by \in Others(e) \/ (by = Nobody /\ ~Commit(e))

LEMMA Elsewhere ==
  ASSUME Shape, Ledger, NEW e \in Execs, Acts(e)
  PROVE  /\ \A f \in Others(e) : exec'[f] = exec[f]
         /\ \A c \in CaseIds :
              cases[c].by \notin {None, e} \/ Alien(e, cases'[c].by) => cases'[c] = cases[c]
         /\ \A d \in Contents :
              docs[d].by \notin {None, e} \/ Alien(e, docs'[d].by) => docs'[d] = docs[d]
         /\ \A k \in Keys :
              claims[k].by \notin {None, e} \/ Alien(e, claims'[k].by) => claims'[k] = claims[k]
         /\ placed \subseteq placed' /\ acked \subseteq acked'
  <1> USE DEF Others, Alien
  <1>0. NoEntry.by = None /\ None \notin Execs \cup {Nobody} /\ Nobody \notin Execs
    BY IntakeAssumption DEF NoEntry
  <1>1. CASE Skip(e)
    BY <1>1, SkipDoes DEF Skip, Shape
  <1>2. CASE Place(e)
    <2>1. PICK prior \in PriorsFor(e, Message(e)), c \in CaseIds :
            /\ Into(e, Message(e), prior, c)
            /\ exec' = [exec EXCEPT ![e] =
                 [exec[e] EXCEPT !.phase = "store", !.case = c, !.store = Docs[Message(e)]]]
      BY <1>2, PlaceDoes
    <2>2. Message(e) \in Msgs /\ Key[Message(e)] \in Keys \cup {NoKey}
      BY <1>2, PlaceDoes, MessageIs
    <2>3. \A o \in CaseIds :
            cases[o].by \notin {None, e} \/ Alien(e, cases'[o].by) => cases'[o] = cases[o]
      <3>1. cases' = cases \/ (cases[c] = NoEntry /\ cases'[c].by = e)
        BY <2>1, <2>2, IntoDoes, NewCaseIs
      <3>2. \A o \in CaseIds : o # c \/ cases[o] # NoEntry => cases'[o] = cases[o]
        BY <2>1, <2>2, IntoDoes
      <3> QED
        BY <1>0, <3>1, <3>2
    <2>4. \A k \in Keys :
            claims[k].by \notin {None, e} \/ Alien(e, claims'[k].by) => claims'[k] = claims[k]
      <3>1. CASE Key[Message(e)] = NoKey
        BY <1>2, <3>1 DEF Place
      <3>2. CASE Key[Message(e)] # NoKey
        <4>1. ~Blocked(e, Message(e)) /\ ~Done(Message(e)) /\
              claims' = [claims EXCEPT ![Key[Message(e)]] = [status |-> "running", by |-> e]]
          BY <1>2, <3>2 DEF Place
        <4>2. claims[Key[Message(e)]].by \notin Others(e)
          BY <3>2, <4>1 DEF Blocked, HeldByOther
        <4>3. claims[Key[Message(e)]].by # Nobody
          BY <1>0, <2>2, <3>2, <4>1, WrittenBy DEF Ledger, Done
        <4>4. claims[Key[Message(e)]].by \in {None, e}
          BY <2>2, <3>2, <4>2, <4>3, WrittenBy
        <4>5. \A k \in Keys : k # Key[Message(e)] => claims'[k] = claims[k]
          BY <4>1 DEF Shape
        <4>6. claims'[Key[Message(e)]].by = e
          BY <2>2, <3>2, <4>1 DEF Shape
        <4> QED
          BY <1>0, <4>4, <4>5, <4>6
      <3> QED
        BY <3>1, <3>2
    <2>5. UNCHANGED <<docs, placed, acked>>
      BY <1>2 DEF Place
    <2> QED
      BY <2>1, <2>3, <2>4, <2>5 DEF Shape
  <1>3. CASE Store(e)
    <2>1. exec' = [exec EXCEPT ![e] = [exec[e] EXCEPT !.store = Tail(exec[e].store)]]
      BY <1>3, StoreDoes
    <2>2. \A d \in Contents : docs'[d] = docs[d] \/ (docs[d] = NoEntry /\ docs'[d].by = e)
      BY <1>3 DEF Store, Shape
    <2>3. UNCHANGED <<cases, claims, placed, acked>>
      BY <1>3 DEF Store
    <2> QED
      BY <1>0, <2>1, <2>2, <2>3 DEF Shape
  <1>4. CASE Complete(e)
    <2>1. /\ \A f \in Others(e) : exec'[f] = exec[f]
          /\ Running(e) /\ Storing(e) /\ exec[e].todo # <<>>
      BY <1>4, CompleteDoes DEF Shape
    <2>2. Key[Message(e)] \in Keys \cup {NoKey}
      BY <2>1, MessageIs
    <2>3. UNCHANGED <<cases, docs, placed, acked>>
      BY <1>4 DEF Complete
    <2>4. CASE Key[Message(e)] = NoKey
      <3>1. UNCHANGED claims
        BY <1>4, <2>4 DEF Complete
      <3> QED
        BY <2>1, <2>3, <3>1
    <2>5. CASE Key[Message(e)] # NoKey
      <3>1. claims' = [claims EXCEPT ![Key[Message(e)]].status = "done"]
        BY <1>4, <2>5 DEF Complete
      <3>2. claims[Key[Message(e)]] = [status |-> "running", by |-> e]
        BY <2>1, <2>5 DEF Ledger
      <3>3. claims'[Key[Message(e)]] = [status |-> "done", by |-> e]
        BY <2>2, <2>5, <3>1, <3>2 DEF Shape
      <3>4. \A k \in Keys : k # Key[Message(e)] => claims'[k] = claims[k]
        BY <3>1 DEF Shape
      <3>5. claims'[Key[Message(e)]].by = e /\ claims[Key[Message(e)]].by = e
        BY <3>2, <3>3
      <3> QED
        BY <1>0, <2>1, <2>3, <3>4, <3>5
    <2> QED
      BY <2>4, <2>5
  <1>5. CASE Commit(e)
    <2>1. exec' = [exec EXCEPT ![e] = NoUpload]
      BY <1>5, EndDoes
    <2>2. \A c \in CaseIds : cases[c].by = e => cases'[c].by = Nobody
      BY <1>0, <1>5, CommitDoes, WrittenBy DEF CaseRow
    <2>4. \A d \in Contents : docs[d].by = e => docs'[d].by = Nobody
      BY <1>0, <1>5, CommitDoes, WrittenBy DEF DocRow
    <2>5. \A k \in Keys : claims[k].by = e => claims'[k].by = Nobody
      BY <1>0, <1>5, CommitDoes, WrittenBy DEF ClaimRow
    <2>6. \A c \in CaseIds :
            cases[c].by \notin {None, e} \/ Alien(e, cases'[c].by) => cases'[c] = cases[c]
      BY <1>0, <1>5, <2>2, CommitDoes
    <2>7. \A d \in Contents :
            docs[d].by \notin {None, e} \/ Alien(e, docs'[d].by) => docs'[d] = docs[d]
      BY <1>0, <1>5, <2>4, CommitDoes
    <2>8. \A k \in Keys :
            claims[k].by \notin {None, e} \/ Alien(e, claims'[k].by) => claims'[k] = claims[k]
      BY <1>0, <1>5, <2>5, CommitDoes
    <2>3. placed \subseteq placed' /\ acked \subseteq acked'
      BY <1>5 DEF Commit
    <2> QED
      BY <2>1, <2>3, <2>6, <2>7, <2>8 DEF Shape
  <1>6. CASE Abort(e)
    <2>1. exec' = [exec EXCEPT ![e] = NoUpload]
      BY <1>6, EndDoes
    <2>2. placed \subseteq placed' /\ acked \subseteq acked'
      BY <1>6 DEF Abort
    <2> QED
      BY <1>0, <1>6, <2>1, <2>2, AbortDoes DEF Shape
  <1>7. ASSUME NEW b \in Batches, Upload(e, b)
        PROVE  /\ \A f \in Others(e) : exec'[f] = exec[f]
               /\ UNCHANGED <<cases, docs, claims, placed, acked>>
    BY <1>7 DEF Upload, Shape
  <1> QED
    BY <1>1, <1>2, <1>3, <1>4, <1>5, <1>6, <1>7 DEF Acts, Ingest

(* Until it ends, a transaction takes none of its rows back.                 *)
LEMMA KeepsItsRows ==
  ASSUME Shape, NEW e \in Execs, Acts(e), ~Commit(e), ~Abort(e)
  PROVE  /\ \A c \in CaseIds : cases[c].by # None => cases'[c] = cases[c]
         /\ \A d \in Contents : docs[d].by # None => docs'[d] = docs[d]
         /\ UNCHANGED <<placed, acked>>
         /\ Running(e)'
  <1>1. CASE Skip(e) \/ Complete(e)
    <2>1. UNCHANGED <<cases, docs, placed, acked>>
      BY <1>1 DEF Skip, Complete
    <2>2. exec'[e].phase = "next"
      <3>1. CASE Skip(e)
        BY <3>1, SkipDoes DEF Shape, Busy
      <3>2. CASE Complete(e)
        BY <3>2, CompleteDoes
      <3> QED
        BY <1>1, <3>1, <3>2
    <2> QED
      BY <2>1, <2>2 DEF Running, NoUpload
  <1>2. CASE Place(e)
    <2>1. PICK prior \in PriorsFor(e, Message(e)), c \in CaseIds :
            /\ Into(e, Message(e), prior, c)
            /\ exec' = [exec EXCEPT ![e] =
                 [exec[e] EXCEPT !.phase = "store", !.case = c, !.store = Docs[Message(e)]]]
      BY <1>2, PlaceDoes
    <2>2. Message(e) \in Msgs
      BY <1>2, PlaceDoes, MessageIs
    <2>3. \A o \in CaseIds : cases[o].by # None => cases'[o] = cases[o]
      BY <2>1, <2>2, IntoDoes, WrittenBy
    <2>4. exec'[e].phase = "store"
      BY <1>2, <2>1, PlaceDoes DEF Shape, Busy
    <2>5. UNCHANGED <<docs, placed, acked>>
      BY <1>2 DEF Place
    <2> QED
      BY <2>3, <2>4, <2>5 DEF Running, NoUpload
  <1>3. CASE Store(e)
    <2>1. \A d \in Contents : docs[d] # NoEntry => docs'[d] = docs[d]
      BY <1>3 DEF Store, Shape
    <2>2. exec'[e].phase = "store"
      BY <1>3, StoreDoes DEF Shape, Busy, Storing
    <2>3. UNCHANGED <<cases, placed, acked>>
      BY <1>3 DEF Store
    <2> QED
      BY <2>1, <2>2, <2>3, WrittenBy DEF Running, NoUpload
  <1>4. ASSUME NEW b \in Batches, Upload(e, b) PROVE Running(e)'
    <2>1. exec'[e].phase = "next"
      BY <1>4, UploadDoes DEF Shape
    <2> QED
      BY <2>1 DEF Running, NoUpload
  <1>5. ASSUME NEW b \in Batches, Upload(e, b) PROVE UNCHANGED <<cases, docs, placed, acked>>
    BY <1>5 DEF Upload
  <1> QED
    BY <1>1, <1>2, <1>3, <1>4, <1>5 DEF Acts, Ingest

(* What the transaction is after a step of it.                               *)
LEMMA SkipLeaves ==
  ASSUME Shape, NEW e \in Execs, Skip(e)
  PROVE  /\ exec'[e].phase = "next" /\ exec'[e].todo = Tail(exec[e].todo)
         /\ exec'[e].id = exec[e].id /\ exec'[e].batch = exec[e].batch
         /\ exec'[e].sender = exec[e].sender /\ exec'[e].building = exec[e].building
         /\ exec'[e].placed = exec[e].placed
  <1>1. exec[e] \in Busy /\ exec[e].phase = "next"
        /\ exec'[e] = [exec[e] EXCEPT !.todo = Tail(exec[e].todo)]
    BY SkipDoes DEF Shape
  <1> QED
    BY <1>1 DEF Busy

LEMMA StoreLeaves ==
  ASSUME Shape, NEW e \in Execs, Store(e)
  PROVE  /\ exec'[e].phase = "store" /\ exec'[e].todo = exec[e].todo
         /\ exec'[e].id = exec[e].id /\ exec'[e].batch = exec[e].batch
         /\ exec'[e].sender = exec[e].sender /\ exec'[e].building = exec[e].building
         /\ exec'[e].placed = exec[e].placed /\ exec'[e].case = exec[e].case
         /\ exec'[e].store = Tail(exec[e].store)
         /\ Message(e)' = Message(e)
  <1>1. exec[e] \in Busy /\ exec[e].phase = "store"
        /\ exec'[e] = [exec[e] EXCEPT !.store = Tail(exec[e].store)]
    BY StoreDoes DEF Shape, Storing
  <1> QED
    BY <1>1 DEF Busy, Message

LEMMA PlaceLeaves ==
  ASSUME Shape, NEW e \in Execs, Place(e)
  PROVE  \E prior \in PriorsFor(e, Message(e)), c \in CaseIds :
         /\ Into(e, Message(e), prior, c)
         /\ exec'[e].phase = "store" /\ exec'[e].todo = exec[e].todo
         /\ exec'[e].id = exec[e].id /\ exec'[e].batch = exec[e].batch
         /\ exec'[e].sender = exec[e].sender /\ exec'[e].building = exec[e].building
         /\ exec'[e].placed = exec[e].placed /\ exec'[e].case = c
         /\ exec'[e].store = Docs[Message(e)]
         /\ Message(e)' = Message(e)
  <1>1. exec[e] \in Busy /\ exec[e].phase = "next" /\ Docs[Message(e)] \in Seq(Contents)
    BY PlaceDoes, MessageIs
  <1>2. PICK prior \in PriorsFor(e, Message(e)), c \in CaseIds :
          /\ Into(e, Message(e), prior, c)
          /\ exec' = [exec EXCEPT ![e] =
               [exec[e] EXCEPT !.phase = "store", !.case = c, !.store = Docs[Message(e)]]]
    BY PlaceDoes
  <1>3. PICK s : s = Docs[Message(e)]
    OBVIOUS
  <1>4. exec'[e] = [exec[e] EXCEPT !.phase = "store", !.case = c, !.store = s]
    BY <1>2, <1>3 DEF Shape
  <1>5. /\ exec'[e].phase = "store" /\ exec'[e].todo = exec[e].todo
        /\ exec'[e].id = exec[e].id /\ exec'[e].batch = exec[e].batch
        /\ exec'[e].sender = exec[e].sender /\ exec'[e].building = exec[e].building
        /\ exec'[e].placed = exec[e].placed /\ exec'[e].case = c
        /\ exec'[e].store = s
    BY <1>1, <1>3, <1>4 DEF Busy
  <1> QED
    BY <1>2, <1>3, <1>5 DEF Message

-----------------------------------------------------------------------------
(* The ledger, step by step.                                                 *)
LEMMA LedgerActs ==
  ASSUME Shape, Ledger, NEW e \in Execs, Acts(e)
  PROVE  Ledger'
  <1>0. NoEntry.by = None /\ None \notin Execs \cup {Nobody} /\ Nobody \notin Execs
    BY IntakeAssumption DEF NoEntry
  <1>1. Shape'
    BY UploadShape, SkipShape, PlaceShape, StoreShape, CompleteShape, EndShape DEF Acts, Ingest
  <1>2. ASSUME NEW f \in Others(e)
        PROVE  /\ \A k \in Keys : claims'[k].by = f /\ claims'[k].status = "running" =>
                    Storing(f)' /\ Key[Message(f)'] = k
               /\ Storing(f)' /\ Key[Message(f)'] # NoKey =>
                    claims'[Key[Message(f)']] = [status |-> "running", by |-> f]
    <2>1. f \in Execs /\ f # e /\ exec'[f] = exec[f]
      BY Elsewhere DEF Others
    <2>2. (Storing(f)' <=> Storing(f)) /\ Message(f)' = Message(f)
      BY <2>1 DEF Storing, Message
    <2>3. \A k \in Keys : claims'[k].by = f => claims'[k] = claims[k]
      BY <2>1, Elsewhere DEF Alien
    <2>4. \A k \in Keys : claims[k].by = f => claims'[k] = claims[k]
      BY <1>0, <2>1, Elsewhere
    <2>5. Storing(f) /\ Key[Message(f)] # NoKey => Key[Message(f)] \in Keys
      BY <2>1, RunningIsOpen, MessageIs DEF Shape, Storing
    <2> QED
      BY <2>1, <2>2, <2>3, <2>4, <2>5 DEF Ledger
  <1>3. ~Commit(e) => \A k \in Keys : claims'[k].by = Nobody => claims'[k] = claims[k]
    BY <1>0, Elsewhere DEF Alien
  <1> DEFINE Mine == /\ \A k \in Keys : claims'[k].by = e /\ claims'[k].status = "running" =>
                           Storing(e)' /\ Key[Message(e)'] = k
                     /\ Storing(e)' /\ Key[Message(e)'] # NoKey =>
                          claims'[Key[Message(e)']] = [status |-> "running", by |-> e]
  <1>4. ASSUME Mine, ~Commit(e) PROVE Ledger'
    BY <1>2, <1>3, <1>4 DEF Ledger, Others
  <1>5. CASE Skip(e)
    <2>1. UNCHANGED claims /\ ~Storing(e) /\ ~Storing(e)' /\ ~Commit(e)
      BY <1>5, SkipDoes, SkipLeaves DEF Skip, Storing, Commit
    <2> QED
      BY <1>4, <2>1 DEF Ledger
  <1>6. CASE Place(e)
    <2>1. exec'[e].phase = "store" /\ Message(e)' = Message(e) /\ ~Storing(e)
          /\ Running(e) /\ exec[e].todo # <<>>
      BY <1>6, PlaceLeaves, PlaceDoes DEF Storing
    <2>2. Key[Message(e)] \in Keys \cup {NoKey}
      BY <2>1, MessageIs
    <2>3. ~Commit(e)
      BY <1>6 DEF Place, Commit
    <2>4. CASE Key[Message(e)] = NoKey
      BY <1>4, <1>6, <2>1, <2>3, <2>4 DEF Place, Ledger
    <2>5. CASE Key[Message(e)] # NoKey
      <3>1. claims' = [claims EXCEPT ![Key[Message(e)]] = [status |-> "running", by |-> e]]
        BY <1>6, <2>5 DEF Place
      <3>2. claims'[Key[Message(e)]] = [status |-> "running", by |-> e]
            /\ \A k \in Keys : k # Key[Message(e)] => claims'[k] = claims[k]
        BY <2>2, <2>5, <3>1 DEF Shape
      <3> QED
        BY <1>4, <2>1, <2>3, <3>2 DEF Ledger, Storing
    <2> QED
      BY <2>4, <2>5
  <1>7. CASE Store(e)
    <2>1. UNCHANGED claims /\ Storing(e) /\ Storing(e)' /\ Message(e)' = Message(e) /\ ~Commit(e)
      BY <1>7, StoreLeaves, StoreDoes DEF Store, Storing, Commit
    <2> QED
      BY <1>4, <2>1 DEF Ledger
  <1>8. CASE Complete(e)
    <2>1. ~Storing(e)' /\ Storing(e) /\ Key[Message(e)] \in Keys \cup {NoKey} /\ ~Commit(e)
      BY <1>8, CompleteDoes, MessageIs DEF Storing, Commit
    <2>2. \A k \in Keys : claims'[k].by = e => claims'[k].status # "running"
      <3>1. CASE Key[Message(e)] = NoKey
        BY <1>8, <2>1, <3>1, IntakeAssumption DEF Complete, Ledger
      <3>2. CASE Key[Message(e)] # NoKey
        <4>1. claims' = [claims EXCEPT ![Key[Message(e)]].status = "done"]
          BY <1>8, <3>2 DEF Complete
        <4>2. claims[Key[Message(e)]] = [status |-> "running", by |-> e]
          BY <2>1, <3>2 DEF Ledger
        <4>3. claims'[Key[Message(e)]].status = "done"
          BY <2>1, <3>2, <4>1, <4>2 DEF Shape
        <4>4. \A k \in Keys : k # Key[Message(e)] => claims'[k] = claims[k]
          BY <4>1 DEF Shape
        <4> QED
          BY <4>3, <4>4 DEF Ledger
      <3> QED
        BY <3>1, <3>2
    <2> QED
      BY <1>4, <2>1, <2>2
  <1>9. CASE Abort(e) /\ ~Commit(e)
    <2>1. ~Storing(e)'
      BY <1>9, EndDoes DEF Shape, Storing, NoUpload
    <2>2. \A k \in Keys : claims'[k].by # e
      BY <1>0, <1>9, AbortDoes
    <2> QED
      BY <1>4, <1>9, <2>1, <2>2
  <1>10. CASE Commit(e)
    <2>1. ~Storing(e)' /\ ~Storing(e)
      BY <1>10, EndDoes DEF Shape, Storing, NoUpload
    <2>2. \A k \in Keys : claims[k].by = e =>
            claims[k].status = "done" /\ claims'[k].by = Nobody /\ claims'[k].status = "done"
      <3> SUFFICES ASSUME NEW k \in Keys, claims[k].by = e
                   PROVE  claims[k].status = "done" /\ claims'[k].by = Nobody
                          /\ claims'[k].status = "done"
        OBVIOUS
      <3>1. claims[k] \in ClaimRow
        BY <1>0, WrittenBy
      <3>2. claims[k].status = "done"
        BY <2>1, <3>1 DEF Ledger, ClaimRow
      <3>3. claims'[k] = [claims[k] EXCEPT !.by = Nobody]
        BY <1>10, CommitDoes
      <3> QED
        BY <3>1, <3>2, <3>3 DEF ClaimRow
    <2>3. \A k \in Keys : claims[k].by # e => claims'[k] = claims[k]
      BY <1>10, CommitDoes
    <2>4. \A k \in Keys : claims'[k].by # e
      BY <1>0, <2>2, <2>3
    <2>5. \A k \in Keys : claims'[k].by = Nobody => claims'[k].status = "done"
      BY <2>2, <2>3 DEF Ledger
    <2> QED
      BY <1>2, <2>1, <2>4, <2>5 DEF Ledger, Others
  <1>11. ASSUME NEW b \in Batches, Upload(e, b) PROVE Ledger'
    <2>1. UNCHANGED claims /\ exec'[e].phase = "next" /\ exec[e] = NoUpload
      BY <1>11, UploadDoes DEF Shape, Upload
    <2>2. ~Storing(e) /\ ~Storing(e)' /\ ~Commit(e)
      BY <2>1 DEF Storing, NoUpload, Commit
    <2> QED
      BY <1>4, <2>1, <2>2 DEF Ledger
  <1> QED
    BY <1>5, <1>6, <1>7, <1>8, <1>9, <1>10, <1>11 DEF Acts, Ingest

LEMMA OwnedActs ==
  ASSUME Shape, Ledger, Owned, NEW e \in Execs, Acts(e)
  PROVE  Owned'
  <1>0. NoEntry.by = None /\ None \notin Execs \cup {Nobody} /\ Nobody \notin Execs
    BY IntakeAssumption DEF NoEntry
  <1>1. \A f \in Others(e) : Running(f)' <=> Running(f)
    BY Elsewhere DEF Running
  <1>2. /\ \A c \in CaseIds : cases'[c].by \in Others(e) => cases'[c] = cases[c]
        /\ \A d \in Contents : docs'[d].by \in Others(e) => docs'[d] = docs[d]
        /\ \A k \in Keys : claims'[k].by \in Others(e) => claims'[k] = claims[k]
    BY Elsewhere DEF Alien
  <1>3. CASE Commit(e)
    <2>1. /\ \A c \in CaseIds : cases'[c].by # e
          /\ \A d \in Contents : docs'[d].by # e
          /\ \A k \in Keys : claims'[k].by # e
      <3>1. \A c \in CaseIds : cases[c].by = e => cases'[c].by = Nobody
        BY <1>0, <1>3, CommitDoes, WrittenBy DEF CaseRow
      <3>2. \A d \in Contents : docs[d].by = e => docs'[d].by = Nobody
        BY <1>0, <1>3, CommitDoes, WrittenBy DEF DocRow
      <3>3. \A k \in Keys : claims[k].by = e => claims'[k].by = Nobody
        BY <1>0, <1>3, CommitDoes, WrittenBy DEF ClaimRow
      <3>4. \A c \in CaseIds : cases[c].by # e => cases'[c] = cases[c]
        BY <1>3, CommitDoes
      <3>5. \A d \in Contents : docs[d].by # e => docs'[d] = docs[d]
        BY <1>3, CommitDoes
      <3>6. \A k \in Keys : claims[k].by # e => claims'[k] = claims[k]
        BY <1>3, CommitDoes
      <3>7. \A c \in CaseIds : cases'[c].by # e
        BY <1>0, <3>1, <3>4
      <3>8. \A d \in Contents : docs'[d].by # e
        BY <1>0, <3>2, <3>5
      <3>9. \A k \in Keys : claims'[k].by # e
        BY <1>0, <3>3, <3>6
      <3> QED
        BY <3>7, <3>8, <3>9
    <2> QED
      BY <1>1, <1>2, <2>1 DEF Owned, Others
  <1>4. CASE Abort(e)
    <2>1. \A c \in CaseIds : cases'[c].by # e
      BY <1>0, <1>4, AbortDoes
    <2>2. \A d \in Contents : docs'[d].by # e
      BY <1>0, <1>4, AbortDoes
    <2>3. \A k \in Keys : claims'[k].by # e
      BY <1>0, <1>4, AbortDoes
    <2> QED
      BY <1>1, <1>2, <2>1, <2>2, <2>3 DEF Owned, Others
  <1>5. CASE ~Commit(e) /\ ~Abort(e)
    <2>1. Running(e)'
      BY <1>5, KeepsItsRows
    <2> QED
      BY <1>1, <1>2, <2>1 DEF Owned, Others
  <1> QED
    BY <1>3, <1>4, <1>5

Base == Shape /\ Ledger /\ Owned

LEMMA BaseStep ==
  ASSUME Base, [IntakeStep]_intakeVars
  PROVE  Base'
  <1>1. Shape'
    BY ShapeStep DEF Base
  <1>2. ASSUME NEW e \in Execs, Acts(e) PROVE Ledger' /\ Owned'
    BY <1>2, LedgerActs, OwnedActs DEF Base
  <1>3. ASSUME NEW c \in CaseIds, CommitCase(c) PROVE Ledger' /\ Owned'
    BY <1>3, CommitCaseDoes DEF Base, Ledger, Owned, Storing, Running, Message
  <1>4. CASE UNCHANGED intakeVars
    <2>1. UNCHANGED <<cases, docs, claims, exec>>
      BY <1>4 DEF intakeVars
    <2>2. Ledger'
      BY <2>1 DEF Base, Ledger, Storing, Message
    <2>3. Owned'
      BY <2>1 DEF Base, Owned, Running
    <2> QED
      BY <1>1, <2>2, <2>3 DEF Base
  <1>5. (\E e \in Execs : Acts(e)) \/ (\E c \in CaseIds : CommitCase(c)) \/ UNCHANGED intakeVars
    BY DEF IntakeStep, Acts
  <1> QED
    BY <1>1, <1>2, <1>3, <1>4, <1>5 DEF Base

LEMMA BaseInit ==
  ASSUME IntakeInit
  PROVE  Base
  <1>0. NoEntry.by = None /\ None \notin Execs \cup {Nobody} /\ Nobody \notin Execs
    BY IntakeAssumption DEF NoEntry
  <1>1. NoUpload.phase = "idle"
    BY DEF NoUpload
  <1>2. Shape
    BY <1>1 DEF IntakeInit, Shape, Storing
  <1> QED
    BY <1>0, <1>1, <1>2 DEF IntakeInit, Base, Ledger, Owned, Storing

(* A table has at most one row for a case, a document and a claim, and a row *)
(* that is not committed belongs to a transaction that is open.              *)
THEOREM IntakeTyped == IntakeSpec => []IntakeTypes
  <1>1. Base => IntakeTypes
    <2> SUFFICES ASSUME Base PROVE IntakeTypes
      OBVIOUS
    <2>1. /\ \A c \in CaseIds : cases[c].by \in Execs => exec[cases[c].by] # NoUpload
          /\ \A d \in Contents : docs[d].by \in Execs => exec[docs[d].by] # NoUpload
          /\ \A k \in Keys : claims[k].by \in Execs => exec[claims[k].by] # NoUpload
      BY DEF Base, Owned, Running
    <2> QED
      BY <2>1 DEF Base, Shape, IntakeTypes, Rows, CaseRow, DocRow, ClaimRow
  <1> QED
    BY <1>1, BaseInit, BaseStep, PTL DEF IntakeSpec
-----------------------------------------------------------------------------
(* A message is put once: the claim of a message that was put is done, and   *)
(* belongs to the transaction that put it, or to everybody.                  *)
Finished(k, b) == claims[k].by = b /\ claims[k].status = "done"
Once(all) == \A p, q \in all : Key[p[2]] # NoKey /\ Key[p[2]] = Key[q[2]] => p = q
Vouched(all, b) == \A p \in all : Key[p[2]] # NoKey => Finished(Key[p[2]], b)

Placings ==
  /\ Vouched(placed, Nobody) /\ Once(placed)
  /\ \A e \in Execs : Running(e) => Vouched(exec[e].placed, e) /\ Once(exec[e].placed)

(* A key that is done is not taken again.                                    *)
LEMMA DoneStays ==
  ASSUME Base, NEW e \in Execs, Acts(e), ~Commit(e), ~Abort(e), NEW k \in Keys, Finished(k, e)
  PROVE  Finished(k, e)'
  <1>0. None \notin Execs \cup {Nobody}
    BY IntakeAssumption
  <1>1. Shape /\ Ledger
    BY DEF Base
  <1>2. CASE Skip(e) \/ Store(e) \/ \E b \in Batches : Upload(e, b)
    BY <1>2 DEF Skip, Store, Upload, Finished
  <1>3. CASE Place(e)
    <2>1. claims[k] # NoEntry
      BY <1>0, <1>1, WrittenBy DEF Finished
    <2>2. Key[Message(e)] = NoKey => UNCHANGED claims
      BY <1>3 DEF Place
    <2>3. Key[Message(e)] # NoKey => k # Key[Message(e)]
      BY <1>3, <2>1 DEF Place, Done, Finished
    <2>4. Key[Message(e)] # NoKey =>
            claims' = [claims EXCEPT ![Key[Message(e)]] = [status |-> "running", by |-> e]]
      BY <1>3 DEF Place
    <2> QED
      BY <1>1, <2>2, <2>3, <2>4 DEF Shape, Finished
  <1>4. CASE Complete(e)
    <2>1. Storing(e)
      BY <1>1, <1>4, CompleteDoes
    <2>2. Key[Message(e)] = NoKey => UNCHANGED claims
      BY <1>4 DEF Complete
    <2>3. Key[Message(e)] # NoKey => claims[Key[Message(e)]].status = "running"
      <3>1. Key[Message(e)] # NoKey => claims[Key[Message(e)]] = [status |-> "running", by |-> e]
        BY <1>1, <2>1 DEF Ledger
      <3> QED
        BY <3>1
    <2>4. Key[Message(e)] # NoKey => claims' = [claims EXCEPT ![Key[Message(e)]].status = "done"]
      BY <1>4 DEF Complete
    <2> QED
      BY <1>1, <2>2, <2>3, <2>4 DEF Shape, Finished
  <1> QED
    BY <1>2, <1>3, <1>4 DEF Acts, Ingest

(* What was put is a message in a case.                                      *)
LEMMA PutIs ==
  ASSUME Shape
  PROVE  /\ \A p \in placed : /\ p[2] \in Msgs /\ p[3] \in CaseIds
                              /\ Key[p[2]] \in Keys \cup {NoKey}
         /\ \A e \in Execs : Running(e) => \A p \in exec[e].placed :
              p[2] \in Msgs /\ p[3] \in CaseIds /\ Key[p[2]] \in Keys \cup {NoKey}
  <1>1. placed \subseteq Nat \X Msgs \X CaseIds
    BY DEF Shape
  <1>2. \A e \in Execs : Running(e) => exec[e].placed \subseteq Nat \X Msgs \X CaseIds
    BY OpenIs DEF Busy
  <1>3. \A p \in Nat \X Msgs \X CaseIds : p[2] \in Msgs /\ p[3] \in CaseIds
    OBVIOUS
  <1>4. \A m \in Msgs : Key[m] \in Keys \cup {NoKey}
    BY IntakeAssumption
  <1> QED
    BY <1>1, <1>2, <1>3, <1>4

LEMMA PlacingsActs ==
  ASSUME Base, Placings, NEW e \in Execs, Acts(e)
  PROVE  Placings'
  <1>0. None \notin Execs \cup {Nobody} /\ Nobody \notin Execs /\ NoKey \notin Keys
    BY IntakeAssumption
  <1>1. Shape /\ Ledger
    BY DEF Base
  <1>2. ASSUME NEW f \in Others(e), Running(f)'
        PROVE  Vouched(exec[f].placed, f)' /\ Once(exec[f].placed)'
    <2>1. f \in Execs /\ f # e /\ exec'[f] = exec[f] /\ Running(f)
      BY <1>1, <1>2, Elsewhere DEF Others, Running
    <2>2. \A k \in Keys : Finished(k, f) => Finished(k, f)'
      BY <1>0, <1>1, <2>1, Elsewhere DEF Finished
    <2> QED
      BY <1>1, <2>1, <2>2, PutIs DEF Placings, Vouched, Once
  <1>3. Vouched(placed, Nobody)' \/ Commit(e)
    <2>1. CASE ~Commit(e)
      <3>1. placed' = placed
        BY <1>1, <2>1, KeepsItsRows DEF Abort
      <3>2. \A k \in Keys : Finished(k, Nobody) => Finished(k, Nobody)'
        BY <1>0, <1>1, Elsewhere DEF Finished
      <3> QED
        BY <1>1, <3>1, <3>2, PutIs DEF Placings, Vouched
    <2> QED
      BY <2>1
  <1>4. Once(placed)' \/ Commit(e)
    <2>1. CASE ~Commit(e)
      <3>1. placed' = placed
        BY <1>1, <2>1, KeepsItsRows DEF Abort
      <3> QED
        BY <3>1 DEF Placings, Once
    <2> QED
      BY <2>1
  <1>5. CASE Commit(e)
    <2>1. placed' = placed \cup exec[e].placed /\ Running(e) /\ ~Running(e)'
      BY <1>1, <1>5, EndDoes DEF Commit, Running, Shape
    <2>2. \A k \in Keys : Finished(k, Nobody) \/ Finished(k, e) => Finished(k, Nobody)'
      <3> SUFFICES ASSUME NEW k \in Keys, Finished(k, Nobody) \/ Finished(k, e)
                   PROVE  Finished(k, Nobody)'
        OBVIOUS
      <3>1. CASE Finished(k, Nobody)
        BY <1>0, <1>1, <1>5, <3>1, CommitDoes DEF Finished
      <3>2. CASE Finished(k, e)
        <4>1. claims[k] \in ClaimRow
          BY <1>0, <1>1, <3>2, WrittenBy DEF Finished
        <4>2. claims'[k] = [claims[k] EXCEPT !.by = Nobody]
          BY <1>1, <1>5, <3>2, CommitDoes DEF Finished
        <4> QED
          BY <3>2, <4>1, <4>2 DEF Finished, ClaimRow
      <3> QED
        BY <3>1, <3>2
    <2>3. Vouched(placed, Nobody)'
      BY <1>1, <2>1, <2>2, PutIs DEF Placings, Vouched
    <2>4. Once(placed)'
      <3> SUFFICES ASSUME NEW p \in placed \cup exec[e].placed, NEW q \in placed \cup exec[e].placed,
                          Key[p[2]] # NoKey, Key[p[2]] = Key[q[2]]
                   PROVE  p = q
        BY <2>1 DEF Once
      <3>1. p \in placed => Finished(Key[p[2]], Nobody)
        BY DEF Placings, Vouched
      <3>2. q \in placed => Finished(Key[p[2]], Nobody)
        BY DEF Placings, Vouched
      <3>3. p \in exec[e].placed => Finished(Key[p[2]], e)
        BY <2>1 DEF Placings, Vouched
      <3>4. q \in exec[e].placed => Finished(Key[p[2]], e)
        BY <2>1 DEF Placings, Vouched
      <3>5. (p \in placed /\ q \in placed) \/ (p \in exec[e].placed /\ q \in exec[e].placed)
        BY <1>0, <3>1, <3>2, <3>3, <3>4 DEF Finished
      <3> QED
        BY <2>1, <3>5 DEF Placings, Once
    <2> QED
      BY <1>2, <2>1, <2>3, <2>4 DEF Placings, Others
  <1>6. CASE Abort(e) /\ ~Commit(e)
    <2>1. ~Running(e)'
      BY <1>1, <1>6, EndDoes DEF Running, Shape
    <2> QED
      BY <1>2, <1>3, <1>4, <1>6, <2>1 DEF Placings, Others
  <1>7. CASE ~Commit(e) /\ ~Abort(e) /\ ~Complete(e)
    <2>1. CASE exec'[e].placed = exec[e].placed /\ Running(e)
      <3>1. \A k \in Keys : Finished(k, e) => Finished(k, e)'
        BY <1>7, DoneStays
      <3>2. Vouched(exec[e].placed, e)' /\ Once(exec[e].placed)'
        BY <1>1, <2>1, <3>1, PutIs DEF Placings, Vouched, Once
      <3> QED
        BY <1>2, <1>3, <1>4, <1>7, <3>2 DEF Placings, Others
    <2>2. CASE exec'[e].placed = {}
      <3>1. Vouched(exec[e].placed, e)' /\ Once(exec[e].placed)'
        BY <2>2 DEF Vouched, Once
      <3> QED
        BY <1>2, <1>3, <1>4, <1>7, <3>1 DEF Placings, Others
    <2>3. Skip(e) \/ Place(e) \/ Store(e) => exec'[e].placed = exec[e].placed /\ Running(e)
      BY <1>1, SkipLeaves, PlaceLeaves, StoreLeaves, SkipDoes, PlaceDoes, StoreDoes
    <2>4. ASSUME NEW b \in Batches, Upload(e, b) PROVE exec'[e].placed = {}
      BY <1>1, <2>4, UploadDoes DEF Shape
    <2> QED
      BY <1>7, <2>1, <2>2, <2>3, <2>4 DEF Acts, Ingest
  <1>8. CASE Complete(e)
    <2>1. PICK m, p : m = Message(e) /\ p = <<exec[e].id, m, exec[e].case>>
      OBVIOUS
    <2>2. /\ Running(e) /\ Storing(e) /\ m \in Msgs /\ Key[m] \in Keys \cup {NoKey}
          /\ exec'[e].placed = exec[e].placed \cup {p} /\ exec'[e].phase = "next"
      BY <1>1, <1>8, <2>1, CompleteDoes, MessageIs
    <2>3. ~Commit(e) /\ ~Abort(e)
      <3>1. exec[e].phase # "next"
        BY <2>2 DEF Storing
      <3>2. Abort(e) => exec'[e].phase = "idle"
        BY <1>1, EndDoes DEF Shape, NoUpload
      <3> QED
        BY <2>2, <3>1, <3>2 DEF Commit
    <2>4. p[2] = m
      BY <2>1
    <2>5. Key[m] # NoKey => claims[Key[m]].status = "running" /\ claims'[Key[m]] = [status |-> "done", by |-> e]
      <3> SUFFICES ASSUME Key[m] # NoKey
                   PROVE  claims[Key[m]].status = "running"
                          /\ claims'[Key[m]] = [status |-> "done", by |-> e]
        OBVIOUS
      <3>1. claims[Key[m]] = [status |-> "running", by |-> e]
        BY <1>1, <2>1, <2>2 DEF Ledger
      <3>2. claims' = [claims EXCEPT ![Key[m]].status = "done"]
        BY <1>8, <2>1 DEF Complete
      <3> QED
        BY <1>1, <2>2, <3>1, <3>2 DEF Shape
    <2>6. \A k \in Keys : Finished(k, e) => Finished(k, e)'
      BY <2>3, DoneStays
    <2>7. \A q \in exec[e].placed :
            q[2] \in Msgs /\ Key[q[2]] \in Keys \cup {NoKey}
            /\ (Key[q[2]] # NoKey => Finished(Key[q[2]], e))
      BY <1>1, <2>2, PutIs DEF Placings, Vouched
    <2>8. \A q \in exec[e].placed : Key[q[2]] # NoKey => Key[q[2]] # Key[m]
      BY <2>5, <2>7 DEF Finished
    <2>9. Vouched(exec[e].placed, e)'
      <3> SUFFICES ASSUME NEW q \in exec[e].placed \cup {p}, Key[q[2]] # NoKey
                   PROVE  Finished(Key[q[2]], e)'
        BY <2>2 DEF Vouched
      <3>1. CASE q \in exec[e].placed
        BY <2>6, <2>7, <3>1
      <3>2. CASE q = p
        BY <2>4, <2>5, <3>2 DEF Finished
      <3> QED
        BY <3>1, <3>2
    <2>10. Once(exec[e].placed)'
      <3>1. Once(exec[e].placed)
        BY <2>2 DEF Placings
      <3> QED
        BY <2>2, <2>4, <2>8, <3>1 DEF Once
    <2> QED
      BY <1>2, <1>3, <1>4, <2>3, <2>9, <2>10 DEF Placings, Others
  <1> QED
    BY <1>5, <1>6, <1>7, <1>8

LEMMA PlacingsStep ==
  ASSUME Base, Placings, [IntakeStep]_intakeVars
  PROVE  Placings'
  <1>1. ASSUME NEW e \in Execs, Acts(e) PROVE Placings'
    BY <1>1, PlacingsActs
  <1>2. CASE UNCHANGED <<docs, claims, exec, placed, acked>>
    BY <1>2 DEF Placings, Vouched, Once, Finished, Running
  <1>3. \/ \E e \in Execs : Acts(e)
        \/ UNCHANGED <<docs, claims, exec, placed, acked>>
    BY DEF IntakeStep, Acts, CommitCase, intakeVars
  <1> QED
    BY <1>1, <1>2, <1>3

(* A message that has a key is put into a case once.                         *)
THEOREM MessagesPlacedOnce == IntakeSpec => []MessageOnce
  <1>1. IntakeInit => Placings
    BY DEF IntakeInit, Placings, Vouched, Once, Running
  <1>2. Base /\ Placings => MessageOnce
    BY DEF Placings, Once, MessageOnce
  <1>3. Base /\ Placings /\ [IntakeStep]_intakeVars => Base' /\ Placings'
    BY BaseStep, PlacingsStep
  <1> QED
    BY <1>1, <1>2, <1>3, BaseInit, PTL DEF IntakeSpec

-----------------------------------------------------------------------------
(* What was acknowledged is stored. A row is there for b when everybody or b *)
(* wrote it; a message is whole for b when the row of each of its contents   *)
(* is.                                                                       *)
Stored(d, b) == docs[d].by \in {Nobody, b}
Housed(c, b) == cases[c].by \in {Nobody, b}
Whole(m, b) == \A i \in DOMAIN Docs[m] : Stored(Docs[m][i], b)
Agreed(m) == Key[m] = NoKey \/ \A n \in SameKey(m) : Docs[n] = Docs[m]
Unread(e, m) == \E n \in DOMAIN exec[e].todo : exec[e].todo[n] = m

Houses ==
  /\ \A d \in Contents, b \in Execs \cup {Nobody} :
       docs[d].by = b => Housed(docs[d].case, b)
  /\ \A e \in Execs : Storing(e) => Housed(exec[e].case, e)
  /\ \A e \in Execs : Running(e) /\ exec[e].building # NoPrior => Housed(exec[e].building.case, e)

Deeds ==
  /\ \A k \in Keys, b \in Execs \cup {Nobody} :
       Finished(k, b) => \E n \in Msgs : Key[n] = k /\ Whole(n, b)
  /\ \A m \in acked : Agreed(m) => Whole(m, Nobody)
Loads ==
  /\ \A e \in Execs : Running(e) => \A i \in DOMAIN exec[e].batch :
       Unread(e, exec[e].batch[i])
       \/ (Agreed(exec[e].batch[i]) => Whole(exec[e].batch[i], e))
  /\ \A e \in Execs : Storing(e) => \A i \in DOMAIN Docs[Message(e)] :
       \/ \E n \in DOMAIN exec[e].store : exec[e].store[n] = Docs[Message(e)][i]
       \/ Stored(Docs[Message(e)][i], e)

LEMMA HeadOrTail ==
  ASSUME NEW S, NEW s \in Seq(S), s # <<>>
  PROVE  \A n \in DOMAIN s : s[n] = Head(s) \/ \E k \in DOMAIN Tail(s) : Tail(s)[k] = s[n]
  <1> SUFFICES ASSUME NEW n \in DOMAIN s, n # 1
               PROVE  \E k \in DOMAIN Tail(s) : Tail(s)[k] = s[n]
    OBVIOUS
  <1>1. n - 1 \in DOMAIN Tail(s) /\ Tail(s)[n - 1] = s[n]
    OBVIOUS
  <1> QED
    BY <1>1

LEMMA WholeIs ==
  ASSUME NEW m \in Msgs, NEW i \in DOMAIN Docs[m]
  PROVE  Docs[m][i] \in Contents
  BY IntakeAssumption

(* A row that is there for b stays; what e wrote becomes everybody's when it *)
(* commits.                                                                  *)
LEMMA RowsStay ==
  ASSUME Base, NEW e \in Execs, Acts(e)
  PROVE  /\ \A b \in Others(e) \cup {Nobody} :
              /\ \A d \in Contents : Stored(d, b) => Stored(d, b)' /\ docs'[d] = docs[d]
              /\ \A c \in CaseIds : Housed(c, b) => Housed(c, b)'
         /\ Commit(e) \/ ~Abort(e) =>
              /\ \A d \in Contents : Stored(d, e) => Stored(d, e)' /\ docs'[d].case = docs[d].case
              /\ \A c \in CaseIds : Housed(c, e) => Housed(c, e)'
         /\ Commit(e) =>
              /\ \A d \in Contents : Stored(d, e) => Stored(d, Nobody)'
              /\ \A c \in CaseIds : Housed(c, e) => Housed(c, Nobody)'
  <1>0. None \notin Execs \cup {Nobody} /\ Nobody \notin Execs
    BY IntakeAssumption
  <1>1. Shape /\ Ledger
    BY DEF Base
  <1>2. ASSUME NEW b \in Others(e) \cup {Nobody}
        PROVE  /\ \A d \in Contents : Stored(d, b) => Stored(d, b)' /\ docs'[d] = docs[d]
               /\ \A c \in CaseIds : Housed(c, b) => Housed(c, b)'
    <2>1. e # b /\ b # None
      BY <1>0 DEF Others
    <2>2. \A d \in Contents : Stored(d, b) => docs'[d] = docs[d]
      BY <1>0, <1>1, <2>1, Elsewhere DEF Stored
    <2>3. \A c \in CaseIds : Housed(c, b) => cases'[c] = cases[c]
      BY <1>0, <1>1, <2>1, Elsewhere DEF Housed
    <2> QED
      BY <2>2, <2>3 DEF Stored, Housed
  <1>3. CASE Commit(e)
    <2>1. ASSUME NEW d \in Contents, Stored(d, e)
          PROVE  docs'[d].by = Nobody /\ docs'[d].case = docs[d].case
      <3>1. CASE docs[d].by = Nobody
        BY <1>0, <1>1, <1>3, <3>1, CommitDoes
      <3>2. CASE docs[d].by = e
        <4>1. docs[d] \in DocRow /\ docs'[d] = [docs[d] EXCEPT !.by = Nobody]
          BY <1>0, <1>1, <1>3, <3>2, CommitDoes, WrittenBy
        <4> QED
          BY <4>1 DEF DocRow
      <3> QED
        BY <2>1, <3>1, <3>2 DEF Stored
    <2>2. ASSUME NEW c \in CaseIds, Housed(c, e)
          PROVE  cases'[c].by = Nobody
      <3>1. CASE cases[c].by = Nobody
        BY <1>0, <1>1, <1>3, <3>1, CommitDoes
      <3>2. CASE cases[c].by = e
        <4>1. cases[c] \in CaseRow /\ cases'[c] = [cases[c] EXCEPT !.by = Nobody]
          BY <1>0, <1>1, <1>3, <3>2, CommitDoes, WrittenBy
        <4> QED
          BY <4>1 DEF CaseRow
      <3> QED
        BY <2>2, <3>1, <3>2 DEF Housed
    <2> QED
      BY <1>2, <2>1, <2>2 DEF Stored, Housed
  <1>4. CASE ~Commit(e) /\ ~Abort(e)
    <2>1. /\ \A c \in CaseIds : cases[c].by # None => cases'[c] = cases[c]
          /\ \A d \in Contents : docs[d].by # None => docs'[d] = docs[d]
      BY <1>1, <1>4, KeepsItsRows
    <2> QED
      BY <1>0, <1>2, <1>4, <2>1 DEF Stored, Housed
  <1> QED
    BY <1>2, <1>3, <1>4

(* A follow-up goes to a case that its transaction sees.                     *)
LEMMA PriorIsHoused ==
  ASSUME Base, Houses, NEW e \in Execs, Running(e), NEW m, NEW prior \in PriorsFor(e, m),
         "follow_up" \in DecideWindow(m, prior), prior.case \in CaseIds
  PROVE  Housed(prior.case, e)
  <1>1. prior # NoPrior
    BY DEF DecideWindow
  <1>2. CASE prior = exec[e].building
    BY <1>1, <1>2 DEF Houses
  <1>3. CASE prior \in Priors(e, From[m])
    <2>1. PICK c \in LatestCases(e, From[m]) :
            prior = [case |-> c, state |-> cases[c].state, last |-> LastActivity(e, c)]
      BY <1>1, <1>3 DEF Priors
    <2>2. prior.case = c /\ Sees(e, cases[c])
      BY <2>1 DEF LatestCases, CasesOf
    <2> QED
      BY <2>2 DEF Sees, Housed
  <1> QED
    BY <1>2, <1>3 DEF PriorsFor

LEMMA HousesActs ==
  ASSUME Base, Houses, NEW e \in Execs, Acts(e)
  PROVE  Houses'
  <1>0. None \notin Execs \cup {Nobody} /\ Nobody \notin Execs /\ NoEntry.by = None
    BY IntakeAssumption DEF NoEntry
  <1>1. Shape /\ Ledger /\ Shape'
    BY ShapeStep DEF Base, IntakeStep, Acts
  <1>2. \A d \in Contents, b \in Execs \cup {Nobody} :
          docs[d].by = b => docs[d].case \in CaseIds /\ Housed(docs[d].case, b)
    BY <1>0, <1>1, WrittenBy DEF Houses, DocRow
  <1>3. \A d \in Contents, b \in Execs \cup {Nobody} :
          docs'[d].by = b /\ docs'[d] = docs[d] => Housed(docs[d].case, b)'
    <2> SUFFICES ASSUME NEW d \in Contents, NEW b \in Execs \cup {Nobody},
                        docs'[d].by = b, docs'[d] = docs[d]
                 PROVE  Housed(docs[d].case, b)'
      OBVIOUS
    <2>1. PICK c \in CaseIds : c = docs[d].case /\ Housed(c, b)
      BY <1>2
    <2>2. CASE b \in Others(e) \cup {Nobody}
      <3>1. Housed(c, b)'
        BY <2>1, <2>2, RowsStay
      <3> QED
        BY <2>1, <3>1 DEF Housed
    <2>3. CASE b = e /\ (Commit(e) \/ ~Abort(e))
      <3>1. Housed(c, b)'
        BY <2>1, <2>3, RowsStay
      <3> QED
        BY <2>1, <3>1 DEF Housed
    <2>4. CASE b = e /\ Abort(e)
      BY <1>0, <1>1, <2>4, AbortDoes
    <2> QED
      BY <2>2, <2>3, <2>4 DEF Others
  <1>4. ASSUME NEW f \in Others(e)
        PROVE  /\ Storing(f)' => Housed(exec[f].case, f)'
               /\ Running(f)' /\ (exec[f].building # NoPrior)' => Housed(exec[f].building.case, f)'
    <2>1. f \in Execs /\ exec'[f] = exec[f]
      BY <1>1, Elsewhere DEF Others
    <2>2. Storing(f) => exec[f].case \in CaseIds /\ Housed(exec[f].case, f)
      BY <1>1, <2>1 DEF Houses, Shape
    <2>3. Running(f) /\ exec[f].building # NoPrior =>
            exec[f].building.case \in CaseIds /\ Housed(exec[f].building.case, f)
      BY <1>1, <2>1, OpenIs DEF Houses, Busy
    <2>4. PICK c, v : c = exec[f].case /\ v = exec[f].building.case
      OBVIOUS
    <2>5. (c \in CaseIds /\ Housed(c, f) => Housed(c, f)') /\ (v \in CaseIds /\ Housed(v, f) => Housed(v, f)')
      BY RowsStay
    <2> QED
      BY <2>1, <2>2, <2>3, <2>4, <2>5 DEF Storing, Running, Housed
  <1>5. ASSUME \A d \in Contents, b \in Execs \cup {Nobody} :
                 docs'[d].by = b /\ docs'[d] # docs[d] => cases'[docs'[d].case].by \in {Nobody, b},
               Storing(e)' => Housed(exec[e].case, e)',
               Running(e)' /\ (exec[e].building # NoPrior)' => Housed(exec[e].building.case, e)'
        PROVE  Houses'
    <2>1. \A d \in Contents, b \in Execs \cup {Nobody} :
            docs'[d].by = b => cases'[docs'[d].case].by \in {Nobody, b}
      <3>1. \A d \in Contents, b \in Execs \cup {Nobody} :
              docs'[d].by = b /\ docs'[d] = docs[d] => cases'[docs'[d].case].by \in {Nobody, b}
        BY <1>3 DEF Housed
      <3> QED
        BY <1>5, <3>1
    <2> QED
      BY <1>4, <1>5, <2>1 DEF Houses, Others, Housed
  <1>6. CASE Commit(e)
    <2>1. exec'[e] = NoUpload
      BY <1>1, <1>6, EndDoes DEF Shape
    <2>2. ~Storing(e)' /\ ~Running(e)'
      BY <2>1 DEF Storing, Running, NoUpload
    <2>3. ASSUME NEW d \in Contents, NEW b \in Execs \cup {Nobody},
                 docs'[d].by = b, docs'[d] # docs[d]
          PROVE  cases'[docs'[d].case].by \in {Nobody, b}
      <3>1. docs[d].by = e
        BY <1>1, <1>6, <2>3, CommitDoes
      <3>2. PICK c \in CaseIds : c = docs[d].case /\ Housed(c, e)
        BY <1>2, <3>1
      <3>3. Housed(c, Nobody)'
        BY <1>6, <3>2, RowsStay
      <3>4. docs'[d].case = c
        BY <1>6, <3>1, <3>2, RowsStay DEF Stored
      <3> QED
        BY <3>3, <3>4 DEF Housed
    <2> QED
      BY <1>5, <2>2, <2>3
  <1>7. CASE Abort(e)
    <2>1. exec'[e] = NoUpload
      BY <1>1, <1>7, EndDoes DEF Shape
    <2>2. ~Storing(e)' /\ ~Running(e)'
      BY <2>1 DEF Storing, Running, NoUpload
    <2>3. \A d \in Contents : docs'[d] # docs[d] => docs'[d].by = None
      BY <1>0, <1>1, <1>7, AbortDoes
    <2> QED
      BY <1>0, <1>5, <2>2, <2>3
  <1>8. CASE Skip(e)
    <2>1. UNCHANGED docs /\ ~Storing(e)' /\ Running(e) /\ exec'[e].building = exec[e].building /\ ~Abort(e)
      <3>1. exec'[e].phase = "next"
        BY <1>1, <1>8, SkipLeaves
      <3>2. Abort(e) => exec'[e].phase = "idle"
        BY <1>1, EndDoes DEF Shape, NoUpload
      <3> QED
        BY <1>1, <1>8, <3>1, <3>2, SkipDoes, SkipLeaves DEF Skip, Storing
    <2>2. PICK v : v = exec[e].building.case
      OBVIOUS
    <2>3. exec[e].building # NoPrior => v \in CaseIds /\ Housed(v, e)
      BY <1>1, <2>1, <2>2, OpenIs DEF Houses, Busy
    <2>4. exec[e].building # NoPrior => Housed(v, e)'
      BY <2>1, <2>3, RowsStay
    <2> QED
      BY <1>5, <2>1, <2>2, <2>4 DEF Housed
  <1>9. CASE Store(e)
    <2>1. /\ exec'[e].building = exec[e].building /\ exec'[e].case = exec[e].case
          /\ Running(e) /\ Storing(e) /\ UNCHANGED cases
      BY <1>1, <1>9, StoreDoes, StoreLeaves DEF Store
    <2>2. \A d \in Contents : docs'[d] # docs[d] => docs'[d].case = exec[e].case /\ docs'[d].by = e
      BY <1>1, <1>9 DEF Store, Shape
    <2>3. Housed(exec[e].case, e) /\ (exec[e].building # NoPrior => Housed(exec[e].building.case, e))
      BY <2>1 DEF Houses
    <2> QED
      BY <1>5, <2>1, <2>2, <2>3 DEF Housed
  <1>10. CASE Complete(e)
    <2>1. UNCHANGED <<docs, cases>> /\ ~Storing(e)' /\ Storing(e)
          /\ exec'[e].building.case = exec[e].case
      <3>1. UNCHANGED <<docs, cases>>
        BY <1>10 DEF Complete
      <3>2. exec'[e].phase = "next" /\ Storing(e)
            /\ exec'[e].building =
                 [case |-> exec[e].case, state |-> "created", last |-> At[Message(e)]]
        BY <1>1, <1>10, CompleteDoes
      <3>3. exec'[e].building.case = exec[e].case
        BY <3>2
      <3> QED
        BY <3>1, <3>2, <3>3 DEF Storing
    <2>2. Housed(exec[e].case, e)
      BY <2>1 DEF Houses
    <2> QED
      BY <1>5, <2>1, <2>2 DEF Housed
  <1>11. CASE Place(e)
    <2>1. UNCHANGED docs /\ Running(e)
      BY <1>1, <1>11, PlaceDoes DEF Place
    <2>2. PICK prior \in PriorsFor(e, Message(e)), c \in CaseIds :
            /\ Into(e, Message(e), prior, c) /\ exec'[e].phase = "store"
            /\ exec'[e].building = exec[e].building /\ exec'[e].case = c
      BY <1>1, <1>11, PlaceLeaves
    <2>3. ~Abort(e)
      <3>1. Abort(e) => exec'[e].phase = "idle"
        BY <1>1, EndDoes DEF Shape, NoUpload
      <3> QED
        BY <2>2, <3>1
    <2>4. Housed(c, e)'
      <3>1. CASE "follow_up" \in DecideWindow(Message(e), prior) /\ c = prior.case /\ UNCHANGED cases
        <4>1. Housed(c, e)
          BY <2>1, <3>1, PriorIsHoused
        <4> QED
          BY <3>1, <4>1 DEF Housed
      <3>2. CASE cases'[c] = NewCase(e, Message(e))
        BY <3>2 DEF Housed, NewCase
      <3>3. Message(e) \in Msgs
        BY <1>1, <1>11, PlaceDoes, MessageIs
      <3> QED
        BY <1>1, <2>2, <3>1, <3>2, <3>3, IntoDoes
    <2>5. PICK v : v = exec[e].building.case
      OBVIOUS
    <2>6. exec[e].building # NoPrior => v \in CaseIds /\ Housed(v, e)
      BY <1>1, <2>1, <2>5, OpenIs DEF Houses, Busy
    <2>7. exec[e].building # NoPrior => Housed(v, e)'
      BY <2>3, <2>6, RowsStay
    <2> QED
      BY <1>5, <2>1, <2>2, <2>4, <2>5, <2>7 DEF Housed
  <1>12. ASSUME NEW b \in Batches, Upload(e, b) PROVE Houses'
    <2>1. UNCHANGED docs /\ exec'[e].phase = "next" /\ exec'[e].building = NoPrior
      BY <1>1, <1>12, UploadDoes DEF Upload, Shape
    <2> QED
      BY <1>5, <2>1 DEF Storing
  <1> QED
    BY <1>6, <1>7, <1>8, <1>9, <1>10, <1>11, <1>12 DEF Acts, Ingest

LEMMA WholeStays ==
  ASSUME Base, NEW e \in Execs, Acts(e), NEW m \in Msgs
  PROVE  /\ \A b \in Others(e) \cup {Nobody} : Whole(m, b) => Whole(m, b)'
         /\ Commit(e) \/ ~Abort(e) => (Whole(m, e) => Whole(m, e)')
         /\ Commit(e) => (Whole(m, e) => Whole(m, Nobody)')
  <1>1. \A i \in DOMAIN Docs[m] : Docs[m][i] \in Contents
    BY WholeIs
  <1> QED
    BY <1>1, RowsStay DEF Whole

(* A message is skipped for one that was put: what it carries is there.      *)
LEMMA SkippedIsThere ==
  ASSUME Base, Deeds, NEW e \in Execs, Skip(e), Agreed(Message(e))
  PROVE  Whole(Message(e), e)
  <1>0. None \notin Execs \cup {Nobody} /\ Nobody \notin Execs
    BY IntakeAssumption
  <1>1. Shape /\ Ledger
    BY DEF Base
  <1>2. PICK m \in Msgs : m = Message(e)
    BY <1>1, SkipDoes, MessageIs
  <1>3. Key[m] \in Keys /\ claims[Key[m]] # NoEntry /\ claims[Key[m]].status = "done"
        /\ claims[Key[m]].by \notin Execs \ {e}
    BY <1>2, IntakeAssumption DEF Skip, Done, Blocked, HeldByOther
  <1>4. claims[Key[m]].by \in {Nobody, e}
    BY <1>1, <1>3, WrittenBy
  <1>5. PICK b : b = claims[Key[m]].by
    OBVIOUS
  <1>6. PICK n \in Msgs : Key[n] = Key[m] /\ Whole(n, b)
    BY <1>3, <1>4, <1>5 DEF Deeds, Finished
  <1>7. Docs[n] = Docs[m]
    BY <1>2, <1>3, <1>6, IntakeAssumption DEF Agreed, SameKey
  <1> QED
    BY <1>2, <1>4, <1>5, <1>6, <1>7 DEF Whole, Stored

(* What is stored is a row its transaction sees.                             *)
LEMMA StoreStores ==
  ASSUME Base, NEW e \in Execs, Store(e)
  PROVE  /\ Head(exec[e].store) \in Contents
         /\ docs'[Head(exec[e].store)].by \in {Nobody, e}
  <1>0. None \notin Execs \cup {Nobody} /\ Nobody \notin Execs
    BY IntakeAssumption
  <1>1. Shape
    BY DEF Base
  <1>2. exec[e].store \in Seq(Contents) /\ exec[e].store # <<>>
    BY <1>1, StoreDoes DEF Busy
  <1>3. PICK d \in Contents : d = Head(exec[e].store)
    BY <1>2
  <1>4. ~HeldByOther(e, docs[d]) /\
        docs' = IF docs[d] # NoEntry THEN docs
                ELSE [docs EXCEPT ![d] = [case |-> exec[e].case, at |-> At[Message(e)], by |-> e]]
    BY <1>3 DEF Store
  <1>5. CASE docs[d] # NoEntry
    BY <1>0, <1>1, <1>3, <1>4, <1>5, WrittenBy DEF Stored, HeldByOther
  <1>6. CASE docs[d] = NoEntry
    <2>1. docs'[d] = [case |-> exec[e].case, at |-> At[Message(e)], by |-> e]
      BY <1>1, <1>4, <1>6 DEF Shape
    <2> QED
      BY <1>3, <2>1 DEF Stored
  <1> QED
    BY <1>5, <1>6

(* What was stored is whole once the store is empty.                         *)
LEMMA CompleteIsWhole ==
  ASSUME Base, Loads, NEW e \in Execs, Complete(e)
  PROVE  Whole(Message(e), e)
  <1>1. Storing(e) /\ exec[e].store = <<>>
    BY CompleteDoes DEF Base
  <1> QED
    BY <1>1 DEF Loads, Whole

LEMMA DeedsActs ==
  ASSUME Base, Deeds, Loads, NEW e \in Execs, Acts(e)
  PROVE  Deeds'
  <1>0. None \notin Execs \cup {Nobody} /\ Nobody \notin Execs /\ NoEntry.by = None
    BY IntakeAssumption DEF NoEntry
  <1>1. Shape /\ Ledger
    BY DEF Base
  <1>2. ASSUME NEW k \in Keys, NEW b \in Execs \cup {Nobody}, Finished(k, b)'
        PROVE  \E n \in Msgs : Key[n] = k /\ Whole(n, b)'
    <2>1. CASE b \in Others(e) \/ (b = Nobody /\ ~Commit(e))
      <3>1. Finished(k, b)
        BY <1>1, <1>2, <2>1, Elsewhere DEF Alien, Finished
      <3>2. PICK n \in Msgs : Key[n] = k /\ Whole(n, b)
        BY <3>1 DEF Deeds
      <3> QED
        BY <2>1, <3>2, WholeStays
    <2>2. CASE b = Nobody /\ Commit(e)
      <3>1. CASE claims[k].by = e
        <4>1. claims[k] \in ClaimRow /\ claims'[k] = [claims[k] EXCEPT !.by = Nobody]
          BY <1>0, <1>1, <2>2, <3>1, CommitDoes, WrittenBy
        <4>2. Finished(k, e)
          BY <1>2, <3>1, <4>1 DEF Finished, ClaimRow
        <4>3. PICK n \in Msgs : Key[n] = k /\ Whole(n, e)
          BY <4>2 DEF Deeds
        <4> QED
          BY <2>2, <4>3, WholeStays
      <3>2. CASE claims[k].by # e
        <4>1. Finished(k, Nobody)
          BY <1>1, <1>2, <2>2, <3>2, CommitDoes DEF Finished
        <4>2. PICK n \in Msgs : Key[n] = k /\ Whole(n, Nobody)
          BY <4>1 DEF Deeds
        <4> QED
          BY <2>2, <4>2, WholeStays
      <3> QED
        BY <3>1, <3>2
    <2>3. CASE b = e
      <3>1. ~Commit(e)
        <4>1. ASSUME Commit(e) PROVE FALSE
          <5>1. claims'[k].by = e
            BY <1>2, <2>3 DEF Finished
          <5>2. claims[k].by = e
            BY <1>1, <4>1, <5>1, CommitDoes
          <5>3. claims[k] \in ClaimRow /\ claims'[k] = [claims[k] EXCEPT !.by = Nobody]
            BY <1>0, <1>1, <4>1, <5>2, CommitDoes, WrittenBy
          <5> QED
            BY <1>0, <5>1, <5>3 DEF ClaimRow
        <4> QED
          BY <4>1
      <3>2. ~Abort(e)
        BY <1>0, <1>1, <1>2, <2>3, AbortDoes DEF Finished
      <3>3. ASSUME Finished(k, e) PROVE \E n \in Msgs : Key[n] = k /\ Whole(n, e)'
        BY <3>2, <3>3, WholeStays DEF Deeds
      <3>4. Skip(e) \/ Store(e) \/ (\E u \in Batches : Upload(e, u)) => Finished(k, e)
        BY <1>2, <2>3 DEF Skip, Store, Upload, Finished
      <3>5. Place(e) => Finished(k, e)
        <4> SUFFICES ASSUME Place(e) PROVE Finished(k, e)
          OBVIOUS
        <4>1. CASE Key[Message(e)] = NoKey
          BY <1>2, <2>3, <4>1 DEF Place, Finished
        <4>2. CASE Key[Message(e)] # NoKey
          <5>1. claims' = [claims EXCEPT ![Key[Message(e)]] = [status |-> "running", by |-> e]]
            BY <4>2 DEF Place
          <5> QED
            BY <1>1, <1>2, <2>3, <5>1 DEF Shape, Finished
        <4> QED
          BY <4>1, <4>2
      <3>6. CASE Complete(e)
        <4>1. PICK m \in Msgs : m = Message(e)
          BY <1>1, <3>6, CompleteDoes
        <4>2. Whole(m, e)
          BY <3>6, <4>1, CompleteIsWhole
        <4>3. CASE Key[m] = k
          BY <3>2, <4>2, <4>3, WholeStays, <2>3
        <4>4. CASE Key[m] = NoKey
          BY <1>2, <2>3, <3>3, <3>6, <4>1, <4>4 DEF Complete, Finished
        <4>5. CASE Key[m] \notin {k, NoKey}
          <5>1. claims' = [claims EXCEPT ![Key[m]].status = "done"]
            BY <3>6, <4>1, <4>5 DEF Complete
          <5> QED
            BY <1>1, <1>2, <2>3, <3>3, <4>5, <5>1 DEF Shape, Finished
        <4> QED
          BY <4>3, <4>4, <4>5
      <3> QED
        BY <2>3, <3>1, <3>2, <3>3, <3>4, <3>5, <3>6 DEF Acts, Ingest
    <2> QED
      BY <2>1, <2>2, <2>3 DEF Others
  <1>3. ASSUME NEW m \in acked', Agreed(m) PROVE Whole(m, Nobody)'
    <2>1. CASE m \in acked
      BY <1>1, <1>3, <2>1, WholeStays DEF Deeds, Shape
    <2>2. CASE m \notin acked
      <3>1. Commit(e)
        BY <1>1, <1>3, <2>2, KeepsItsRows DEF Abort
      <3>2. PICK i \in DOMAIN exec[e].batch : m = exec[e].batch[i]
        BY <1>3, <2>2, <3>1 DEF Commit
      <3>3. Running(e) /\ exec[e].batch \in Seq(Msgs) /\ exec[e].todo = <<>>
        BY <1>1, <3>1, EndDoes DEF Busy
      <3>4. Whole(m, e) /\ m \in Msgs
        BY <1>3, <3>2, <3>3 DEF Loads, Unread
      <3> QED
        BY <3>1, <3>4, WholeStays
    <2> QED
      BY <2>1, <2>2
  <1> QED
    BY <1>2, <1>3 DEF Deeds, Agreed

LEMMA LoadsActs ==
  ASSUME Base, Deeds, Loads, NEW e \in Execs, Acts(e)
  PROVE  Loads'
  <1>0. None \notin Execs \cup {Nobody} /\ Nobody \notin Execs /\ NoEntry.by = None
    BY IntakeAssumption DEF NoEntry
  <1>1. Shape /\ Ledger /\ Shape'
    BY ShapeStep DEF Base, IntakeStep, Acts
  <1> DEFINE
    Batch(f) == Running(f)' => \A i \in DOMAIN exec'[f].batch :
                  \/ \E n \in DOMAIN exec'[f].todo : exec'[f].todo[n] = exec'[f].batch[i]
                  \/ (Agreed(exec'[f].batch[i]) =>
                        \A j \in DOMAIN Docs[exec'[f].batch[i]] :
                          docs'[Docs[exec'[f].batch[i]][j]].by \in {Nobody, f})
    Stock(f) == Storing(f)' => \A i \in DOMAIN Docs[Message(f)'] :
                  \/ \E n \in DOMAIN exec'[f].store : exec'[f].store[n] = Docs[Message(f)'][i]
                  \/ docs'[Docs[Message(f)'][i]].by \in {Nobody, f}
  <1>2. ASSUME NEW f \in Others(e) PROVE Batch(f) /\ Stock(f)
    <2>1. f \in Execs /\ exec'[f] = exec[f] /\ f \in Others(e) \cup {Nobody}
      BY <1>1, Elsewhere DEF Others
    <2>2. Batch(f)
      <3> SUFFICES ASSUME Running(f), NEW i \in DOMAIN exec[f].batch, Agreed(exec[f].batch[i]),
                          ~Unread(f, exec[f].batch[i])
                   PROVE  \A j \in DOMAIN Docs[exec[f].batch[i]] :
                            docs'[Docs[exec[f].batch[i]][j]].by \in {Nobody, f}
        BY <2>1 DEF Running, Unread
      <3>1. PICK m \in Msgs : m = exec[f].batch[i]
        BY <1>1, <2>1, OpenIs DEF Busy
      <3>2. Whole(m, f)
        BY <2>1, <3>1 DEF Loads
      <3>3. Whole(m, f)'
        BY <2>1, <3>2, WholeStays
      <3> QED
        BY <3>1, <3>3 DEF Whole, Stored
    <2>3. Stock(f)
      <3> SUFFICES ASSUME Storing(f), NEW i \in DOMAIN Docs[Message(f)],
                          ~ \E n \in DOMAIN exec[f].store : exec[f].store[n] = Docs[Message(f)][i]
                   PROVE  docs'[Docs[Message(f)][i]].by \in {Nobody, f}
        BY <2>1 DEF Storing, Message
      <3>1. Running(f) /\ exec[f].todo # <<>>
        BY <1>1, <2>1, RunningIsOpen DEF Shape, Storing
      <3>2. PICK d \in Contents : d = Docs[Message(f)][i]
        BY <1>1, <2>1, <3>1, MessageIs, WholeIs
      <3>3. Stored(d, f)
        BY <2>1, <3>2 DEF Loads
      <3>4. Stored(d, f)'
        BY <2>1, <3>3, RowsStay
      <3> QED
        BY <3>2, <3>4 DEF Stored
    <2> QED
      BY <2>2, <2>3
  <1>3. ASSUME Batch(e), Stock(e) PROVE Loads'
    <2>1. \A f \in Execs : Batch(f) /\ Stock(f)
      BY <1>2, <1>3 DEF Others
    <2> QED
      BY <2>1 DEF Loads, Unread, Whole, Stored, Agreed
  <1>4. ~Commit(e) /\ ~Abort(e) <=> Running(e)'
    <2>1. ~Commit(e) /\ ~Abort(e) => Running(e)'
      BY <1>1, KeepsItsRows
    <2>2. Commit(e) \/ Abort(e) => ~Running(e)'
      BY <1>1, EndDoes DEF Shape, Running
    <2> QED
      BY <2>1, <2>2
  <1>5. ASSUME Running(e), Running(e)', exec'[e].batch = exec[e].batch, exec'[e].todo = exec[e].todo
        PROVE  Batch(e)
    <2> SUFFICES ASSUME NEW i \in DOMAIN exec[e].batch, Agreed(exec[e].batch[i]),
                        ~Unread(e, exec[e].batch[i])
                 PROVE  \A j \in DOMAIN Docs[exec[e].batch[i]] :
                          docs'[Docs[exec[e].batch[i]][j]].by \in {Nobody, e}
      BY <1>5 DEF Unread
    <2>1. PICK m \in Msgs : m = exec[e].batch[i]
      BY <1>1, <1>5, OpenIs DEF Busy
    <2>2. Whole(m, e)
      BY <1>5, <2>1 DEF Loads
    <2>3. Whole(m, e)'
      BY <1>4, <1>5, <2>2, WholeStays
    <2> QED
      BY <2>1, <2>3 DEF Whole, Stored
  <1>6. ASSUME Running(e), Running(e)', exec[e].todo # <<>>, exec'[e].batch = exec[e].batch,
               exec'[e].todo = Tail(exec[e].todo), Agreed(Message(e)) => Whole(Message(e), e)
        PROVE  Batch(e)
    <2> SUFFICES ASSUME NEW i \in DOMAIN exec[e].batch, Agreed(exec[e].batch[i]),
                        ~ \E n \in DOMAIN exec'[e].todo : exec'[e].todo[n] = exec[e].batch[i]
                 PROVE  \A j \in DOMAIN Docs[exec[e].batch[i]] :
                          docs'[Docs[exec[e].batch[i]][j]].by \in {Nobody, e}
      BY <1>6
    <2>1. exec[e].todo \in Seq(Msgs)
      BY <1>1, <1>6, OpenIs DEF Busy
    <2>2. PICK m \in Msgs : m = exec[e].batch[i]
      BY <1>1, <1>6, OpenIs DEF Busy
    <2>3. Unread(e, m) => m = Message(e)
      BY <1>6, <2>1, <2>2, HeadOrTail DEF Unread, Message
    <2>4. Whole(m, e)
      BY <1>6, <2>2, <2>3 DEF Loads
    <2>5. Whole(m, e)'
      BY <1>4, <1>6, <2>4, WholeStays
    <2> QED
      BY <2>2, <2>5 DEF Whole, Stored
  <1>7. CASE Commit(e) \/ Abort(e)
    <2>1. exec'[e] = NoUpload
      BY <1>1, <1>7, EndDoes DEF Shape
    <2>2. ~Storing(e)'
      BY <2>1 DEF Storing, NoUpload
    <2> QED
      BY <1>3, <1>4, <1>7, <2>2
  <1>8. CASE Skip(e)
    <2>1. /\ Running(e) /\ Running(e)' /\ ~Storing(e)' /\ exec[e].todo # <<>>
          /\ exec'[e].batch = exec[e].batch /\ exec'[e].todo = Tail(exec[e].todo)
      BY <1>1, <1>8, SkipDoes, SkipLeaves, RunningIsOpen DEF Storing, Running, NoUpload
    <2>2. Agreed(Message(e)) => Whole(Message(e), e)
      BY <1>8, SkippedIsThere
    <2> QED
      BY <1>3, <1>6, <2>1, <2>2
  <1>9. CASE Place(e)
    <2>1. /\ Running(e) /\ Running(e)' /\ exec'[e].batch = exec[e].batch /\ exec'[e].todo = exec[e].todo
          /\ exec'[e].store = Docs[Message(e)] /\ Message(e)' = Message(e)
      <3>1. /\ exec'[e].phase = "store" /\ exec'[e].batch = exec[e].batch
            /\ exec'[e].todo = exec[e].todo
            /\ exec'[e].store = Docs[Message(e)] /\ Message(e)' = Message(e)
        BY <1>1, <1>9, PlaceLeaves
      <3>2. Running(e)
        BY <1>1, <1>9, PlaceDoes
      <3>3. Running(e)'
        BY <3>1 DEF Running, NoUpload
      <3> QED
        BY <3>1, <3>2, <3>3
    <2>2. Stock(e)
      BY <2>1
    <2> QED
      BY <1>3, <1>5, <2>1, <2>2
  <1>10. CASE Store(e)
    <2>1. /\ Running(e) /\ Storing(e) /\ exec'[e].phase = "store" /\ exec[e].todo # <<>>
          /\ exec'[e].batch = exec[e].batch /\ exec'[e].todo = exec[e].todo
          /\ exec[e].store # <<>> /\ exec[e].store \in Seq(Contents)
          /\ exec'[e].store = Tail(exec[e].store) /\ Message(e)' = Message(e)
      BY <1>1, <1>10, StoreDoes, StoreLeaves DEF Shape, Busy
    <2>2. Running(e)'
      BY <2>1 DEF Running, NoUpload
    <2>3. Stock(e)
      <3> SUFFICES ASSUME NEW i \in DOMAIN Docs[Message(e)],
                          ~ \E n \in DOMAIN exec'[e].store : exec'[e].store[n] = Docs[Message(e)][i]
                   PROVE  docs'[Docs[Message(e)][i]].by \in {Nobody, e}
        BY <2>1
      <3>1. PICK d \in Contents : d = Docs[Message(e)][i]
        BY <1>1, <2>1, MessageIs, WholeIs
      <3>2. Stored(d, e) \/ \E n \in DOMAIN exec[e].store : exec[e].store[n] = d
        BY <2>1, <3>1 DEF Loads
      <3>3. d = Head(exec[e].store) \/ Stored(d, e)
        BY <2>1, <3>1, <3>2, HeadOrTail
      <3>4. Stored(d, e) => Stored(d, e)'
        BY <1>4, <2>2, RowsStay
      <3>5. d = Head(exec[e].store) => docs'[d].by \in {Nobody, e}
        BY <1>10, StoreStores
      <3> QED
        BY <3>1, <3>3, <3>4, <3>5 DEF Stored
    <2> QED
      BY <1>3, <1>5, <2>1, <2>2, <2>3
  <1>11. CASE Complete(e)
    <2>1. /\ Running(e) /\ exec'[e].phase = "next" /\ exec[e].todo # <<>>
          /\ exec'[e].batch = exec[e].batch /\ exec'[e].todo = Tail(exec[e].todo)
      BY <1>1, <1>11, CompleteDoes
    <2>2. Running(e)' /\ ~Storing(e)'
      BY <2>1 DEF Running, Storing, NoUpload
    <2>3. Whole(Message(e), e)
      BY <1>11, CompleteIsWhole
    <2> QED
      BY <1>3, <1>6, <2>1, <2>2, <2>3
  <1>12. ASSUME NEW b \in Batches, Upload(e, b) PROVE Loads'
    <2>1. b \in Seq(Msgs) /\ exec'[e].phase = "next" /\ exec'[e].batch = b
          /\ exec'[e].todo = InOrder(b)
      BY <1>1, <1>12, UploadDoes DEF Shape
    <2>2. \A i \in DOMAIN b : \E n \in DOMAIN InOrder(b) : InOrder(b)[n] = b[i]
      BY <2>1, OrderIsWhole
    <2>3. Batch(e)
      BY <2>1, <2>2
    <2>4. ~Storing(e)'
      BY <2>1 DEF Storing
    <2> QED
      BY <1>3, <2>3, <2>4
  <1> QED
    BY <1>7, <1>8, <1>9, <1>10, <1>11, <1>12 DEF Acts, Ingest

LEMMA CargoStep ==
  ASSUME Base, Houses, Deeds, Loads, [IntakeStep]_intakeVars
  PROVE  Houses' /\ Deeds' /\ Loads'
  <1>1. ASSUME NEW e \in Execs, Acts(e) PROVE Houses' /\ Deeds' /\ Loads'
    BY <1>1, HousesActs, DeedsActs, LoadsActs
  <1>2. CASE \E c \in CaseIds : CommitCase(c)
    <2>1. UNCHANGED <<docs, claims, exec, placed, acked>>
      BY <1>2 DEF CommitCase
    <2>2. \A c \in CaseIds : cases'[c].by = cases[c].by
      BY <1>2, CommitCaseDoes DEF Base
    <2>3. Deeds' /\ Loads'
      BY <2>1 DEF Deeds, Loads, Finished, Whole, Stored, Agreed, Unread, Running, Storing, Message
    <2>4. Houses'
      <3>1. Shape
        BY DEF Base
      <3>2. None \notin Execs \cup {Nobody}
        BY IntakeAssumption
      <3>3. \A d \in Contents, b \in Execs \cup {Nobody} : docs[d].by = b => docs[d].case \in CaseIds
        BY <3>1, <3>2, WrittenBy DEF DocRow
      <3>4. \A e \in Execs : Storing(e) => exec[e].case \in CaseIds
        BY <3>1 DEF Shape
      <3>5. \A e \in Execs : Running(e) /\ exec[e].building # NoPrior => exec[e].building.case \in CaseIds
        BY <3>1, OpenIs DEF Busy
      <3> QED
        BY <2>1, <2>2, <3>3, <3>4, <3>5 DEF Houses, Housed, Storing, Running
    <2> QED
      BY <2>3, <2>4
  <1>3. CASE UNCHANGED intakeVars
    <2>1. UNCHANGED <<cases, docs, claims, exec, placed, acked>>
      BY <1>3 DEF intakeVars
    <2>2. Deeds' /\ Loads'
      BY <2>1 DEF Deeds, Loads, Finished, Whole, Stored, Agreed, Unread, Running, Storing, Message
    <2>3. Houses'
      BY <2>1 DEF Houses, Housed, Storing, Running
    <2> QED
      BY <2>2, <2>3
  <1> QED
    BY <1>1, <1>2, <1>3 DEF IntakeStep, Acts

(* What an acknowledged upload carried is stored, in a committed case.       *)
THEOREM AcknowledgedIsStored == IntakeSpec => []NothingLost
  <1>1. IntakeInit => Houses /\ Deeds /\ Loads
    <2> SUFFICES ASSUME IntakeInit PROVE Houses /\ Deeds /\ Loads
      OBVIOUS
    <2>1. None \notin Execs \cup {Nobody} /\ NoEntry.by = None /\ NoUpload.phase = "idle"
      BY IntakeAssumption DEF NoEntry, NoUpload
    <2> QED
      BY <2>1 DEF IntakeInit, Houses, Deeds, Loads, Finished, Running, Storing
  <1>2. Base /\ Houses /\ Deeds => NothingLost
    <2> SUFFICES ASSUME Base, Houses, Deeds, NEW m \in acked, Agreed(m), NEW i \in DOMAIN Docs[m]
                 PROVE  docs[Docs[m][i]].by = Nobody /\ cases[docs[Docs[m][i]].case].by = Nobody
      BY DEF NothingLost, Agreed
    <2>1. PICK d \in Contents : d = Docs[m][i]
      BY WholeIs DEF Base, Shape
    <2>2. docs[d].by = Nobody
      BY <2>1 DEF Deeds, Whole, Stored
    <2>3. cases[docs[d].case].by = Nobody
      BY <2>2 DEF Houses, Housed
    <2> QED
      BY <2>1, <2>2, <2>3
  <1>3. Base /\ Houses /\ Deeds /\ Loads /\ [IntakeStep]_intakeVars
          => Base' /\ Houses' /\ Deeds' /\ Loads'
    BY BaseStep, CargoStep
  <1> QED
    BY <1>1, <1>2, <1>3, BaseInit, PTL DEF IntakeSpec

-----------------------------------------------------------------------------
(* Complaints are not run together. What is said in a transaction: the       *)
(* messages that were put, by the committed and by itself, and the one that  *)
(* is being stored. Every instant a case or a row of it has is of one that   *)
(* was said in it.                                                           *)
Triples == Nat \X Msgs \X CaseIds
Now(e) == <<exec[e].id, Message(e), exec[e].case>>
Said(e) == placed \cup exec[e].placed \cup (IF Storing(e) THEN {Now(e)} ELSE {})
Spoken(c, t, all) == \E q \in all : q[3] = c /\ At[q[2]] = t
Near(p, all) ==
  /\ cases[p[3]].from = From[p[2]]
  /\ \/ cases[p[3]].opened = At[p[2]]
     \/ \E q \in all \ {p} : q[3] = p[3] /\ Abs(At[p[2]] - At[q[2]]) <= OpenIdle

Bound(b, all) ==
  /\ \A p \in all : Housed(p[3], b) /\ Near(p, all)
  /\ \A c \in CaseIds : cases[c].by = b => Spoken(c, cases[c].opened, all)
  /\ \A d \in Contents : docs[d].by = b => Spoken(docs[d].case, docs[d].at, all)
View(e, all) ==
  exec[e].building # NoPrior =>
    /\ cases[exec[e].building.case].from = exec[e].sender
    /\ Spoken(exec[e].building.case, exec[e].building.last, all)

Boundaries ==
  /\ Bound(Nobody, placed)
  /\ \A e \in Execs : Running(e) => Bound(e, Said(e)) /\ View(e, Said(e))

LEMMA TripleIs ==
  ASSUME NEW p \in Triples
  PROVE  p[2] \in Msgs /\ p[3] \in CaseIds
  BY DEF Triples

LEMMA SaidIs ==
  ASSUME Shape
  PROVE  /\ placed \subseteq Triples
         /\ \A e \in Execs : Running(e) => placed \subseteq Said(e) /\ Said(e) \subseteq Triples
  <1>1. placed \subseteq Triples
    BY DEF Shape, Triples
  <1>2. \A e \in Execs : Running(e) => exec[e].placed \subseteq Triples /\ exec[e].id \in Nat
    BY OpenIs DEF Busy, Triples
  <1>3. \A e \in Execs : Running(e) /\ Storing(e) => Message(e) \in Msgs /\ exec[e].case \in CaseIds
    BY MessageIs DEF Shape
  <1>4. \A e \in Execs : Running(e) /\ Storing(e) => Now(e) \in Triples
    BY <1>2, <1>3 DEF Now, Triples
  <1> QED
    BY <1>1, <1>2, <1>4 DEF Said

(* A case that is seen keeps its sender and its first contact.               *)
LEMMA CaseKeeps ==
  ASSUME Base, NEW e \in Execs, Acts(e)
  PROVE  /\ \A b \in Others(e) \cup {Nobody}, c \in CaseIds :
              Housed(c, b) => cases'[c].from = cases[c].from /\ cases'[c].opened = cases[c].opened
         /\ Commit(e) \/ ~Abort(e) => \A c \in CaseIds :
              Housed(c, e) => cases'[c].from = cases[c].from /\ cases'[c].opened = cases[c].opened
  <1>0. None \notin Execs \cup {Nobody} /\ Nobody \notin Execs
    BY IntakeAssumption
  <1>1. Shape /\ Ledger
    BY DEF Base
  <1>2. \A b \in Others(e) \cup {Nobody}, c \in CaseIds : Housed(c, b) => cases'[c] = cases[c]
    BY <1>0, <1>1, Elsewhere DEF Housed, Others
  <1>3. CASE Commit(e)
    <2>1. ASSUME NEW c \in CaseIds, cases[c].by = e
          PROVE  cases'[c].from = cases[c].from /\ cases'[c].opened = cases[c].opened
      <3>1. cases[c] \in CaseRow /\ cases'[c] = [cases[c] EXCEPT !.by = Nobody]
        BY <1>0, <1>1, <1>3, <2>1, CommitDoes, WrittenBy
      <3> QED
        BY <3>1 DEF CaseRow
    <2> QED
      BY <1>2, <2>1 DEF Housed
  <1>4. CASE ~Commit(e) /\ ~Abort(e)
    <2>1. \A c \in CaseIds : Housed(c, e) => cases'[c] = cases[c]
      BY <1>0, <1>1, <1>4, KeepsItsRows DEF Housed
    <2> QED
      BY <1>2, <1>4, <2>1
  <1> QED
    BY <1>2, <1>3, <1>4

(* Rows of others and of everybody stay within what was said.                *)
LEMMA BoundElsewhere ==
  ASSUME Base, NEW e \in Execs, Acts(e), NEW b \in Others(e) \cup {Nobody}, b = Nobody => ~Commit(e),
         NEW S \in SUBSET Triples, Bound(b, S)
  PROVE  Bound(b, S)'
  <1>0. None \notin Execs \cup {Nobody} /\ Nobody \notin Execs
    BY IntakeAssumption
  <1>1. \A p \in S : p[3] \in CaseIds
    BY TripleIs
  <1>2. \A p \in S : Housed(p[3], b)' /\ Near(p, S)'
    BY <1>1, CaseKeeps, RowsStay DEF Bound, Near
  <1>3. \A c \in CaseIds : cases'[c].by = b => cases'[c] = cases[c]
    BY Elsewhere DEF Alien, Base
  <1>4. \A d \in Contents : docs'[d].by = b => docs'[d] = docs[d]
    BY Elsewhere DEF Alien, Base
  <1> QED
    BY <1>2, <1>3, <1>4 DEF Bound

(* Those of the transaction that acts, as what it says grows.                *)
LEMMA BoundGrows ==
  ASSUME Base, NEW e \in Execs, Acts(e), ~Commit(e), ~Abort(e),
         NEW S \in SUBSET Triples, NEW T \in SUBSET Triples, S \subseteq T, Bound(e, S),
         \A p \in T : p \notin S => Housed(p[3], e)' /\ Near(p, T)',
         \A c \in CaseIds : cases[c].by = None /\ cases'[c].by = e =>
           Spoken(c, cases'[c].opened, T),
         \A d \in Contents : docs[d].by = None /\ docs'[d].by = e =>
           Spoken(docs'[d].case, docs'[d].at, T)
  PROVE  Bound(e, T)'
  <1>0. None \notin Execs \cup {Nobody} /\ Nobody \notin Execs
    BY IntakeAssumption
  <1>1. Shape
    BY DEF Base
  <1>2. \A p \in S : p[3] \in CaseIds
    BY TripleIs
  <1>3. \A p \in S : Housed(p[3], e)' /\ Near(p, T)'
    BY <1>2, CaseKeeps, RowsStay DEF Bound, Near
  <1>4. \A c \in CaseIds : cases'[c].by = e => cases[c].by = None \/ cases'[c] = cases[c]
    BY <1>1, KeepsItsRows
  <1>5. \A d \in Contents : docs'[d].by = e => docs[d].by = None \/ docs'[d] = docs[d]
    BY <1>1, KeepsItsRows
  <1>6. \A c, t : Spoken(c, t, S) => Spoken(c, t, T)
    BY DEF Spoken
  <1>7. \A c \in CaseIds : cases'[c].by = e => Spoken(c, cases'[c].opened, T)
    BY <1>4, <1>6 DEF Bound
  <1>8. \A d \in Contents : docs'[d].by = e => Spoken(docs'[d].case, docs'[d].at, T)
    BY <1>5, <1>6 DEF Bound
  <1>9. \A p \in T : Housed(p[3], e)' /\ Near(p, T)'
    BY <1>3
  <1> QED
    BY <1>7, <1>8, <1>9 DEF Bound, Spoken

(* What a transaction said is everybody's when it commits.                   *)
LEMMA BoundCommits ==
  ASSUME Base, NEW e \in Execs, Acts(e), Commit(e),
         NEW P \in SUBSET Triples, NEW S \in SUBSET Triples, P \subseteq S,
         Bound(Nobody, P), Bound(e, S)
  PROVE  Bound(Nobody, S)'
  <1>0. None \notin Execs \cup {Nobody} /\ Nobody \notin Execs
    BY IntakeAssumption
  <1>1. Shape
    BY DEF Base
  <1>2. \A p \in S : p[3] \in CaseIds
    BY TripleIs
  <1>3. \A p \in S : Housed(p[3], Nobody)' /\ Near(p, S)'
    BY <1>2, CaseKeeps, RowsStay DEF Bound, Near
  <1>4. \A c, t : Spoken(c, t, P) => Spoken(c, t, S)
    BY DEF Spoken
  <1>5. \A c \in CaseIds : cases'[c].by = Nobody => Spoken(c, cases'[c].opened, S)
    <2> SUFFICES ASSUME NEW c \in CaseIds, cases'[c].by = Nobody
                 PROVE  Spoken(c, cases'[c].opened, S)
      OBVIOUS
    <2>1. Housed(c, e)
      BY <1>1, CommitDoes DEF Housed
    <2>2. cases'[c].opened = cases[c].opened
      BY <2>1, CaseKeeps
    <2> QED
      BY <1>4, <2>1, <2>2 DEF Bound, Housed
  <1>6. \A d \in Contents : docs'[d].by = Nobody => Spoken(docs'[d].case, docs'[d].at, S)
    <2> SUFFICES ASSUME NEW d \in Contents, docs'[d].by = Nobody
                 PROVE  Spoken(docs'[d].case, docs'[d].at, S)
      OBVIOUS
    <2>1. CASE docs[d].by = e
      <3>1. docs[d] \in DocRow /\ docs'[d] = [docs[d] EXCEPT !.by = Nobody]
        BY <1>0, <1>1, <2>1, CommitDoes, WrittenBy
      <3>2. docs'[d].case = docs[d].case /\ docs'[d].at = docs[d].at
        BY <3>1 DEF DocRow
      <3> QED
        BY <2>1, <3>2 DEF Bound
    <2>2. CASE docs[d].by # e
      <3>1. docs'[d] = docs[d]
        BY <1>1, <2>2, CommitDoes
      <3> QED
        BY <1>4, <3>1 DEF Bound
    <2> QED
      BY <2>1, <2>2
  <1> QED
    BY <1>3, <1>5, <1>6 DEF Bound, Spoken

(* The others see what is committed meanwhile.                               *)
LEMMA BoundJoins ==
  ASSUME Base, NEW e \in Execs, Acts(e), NEW f \in Others(e),
         NEW S \in SUBSET Triples, NEW N \in SUBSET Triples,
         Bound(f, S), Bound(Nobody, N)'
  PROVE  Bound(f, S \cup N)'
  <1>1. Bound(f, S)'
    BY BoundElsewhere, IntakeAssumption DEF Others
  <1>2. \A p \in S \cup N : Housed(p[3], f)' /\ Near(p, S \cup N)'
    BY <1>1 DEF Bound, Housed, Near
  <1>3. \A c, t : Spoken(c, t, S) => Spoken(c, t, S \cup N)
    BY DEF Spoken
  <1>4. \A c \in CaseIds : cases'[c].by = f => Spoken(c, cases'[c].opened, S \cup N)
    BY <1>1, <1>3 DEF Bound, Spoken
  <1>5. \A d \in Contents : docs'[d].by = f => Spoken(docs'[d].case, docs'[d].at, S \cup N)
    BY <1>1, <1>3 DEF Bound, Spoken
  <1> QED
    BY <1>2, <1>4, <1>5 DEF Bound, Spoken

(* The last activity a transaction sees of a case is a message's.            *)
LEMMA LastIsSpoken ==
  ASSUME Base, Boundaries, Houses, NEW e \in Execs, Running(e), NEW c \in CaseIds, Sees(e, cases[c])
  PROVE  /\ LastActivity(e, c) \in Nat
         /\ Spoken(c, LastActivity(e, c), Said(e))
  <1>0. None \notin Execs \cup {Nobody} /\ Nobody \notin Execs
    BY IntakeAssumption
  <1>1. Shape
    BY DEF Base
  <1>2. PICK D : D = {d \in Contents : Sees(e, docs[d]) /\ docs[d].case = c}
    OBVIOUS
  <1>3. cases[c].opened \in Nat /\ \A d \in D : docs[d].at \in Nat
    BY <1>0, <1>1, <1>2, WrittenBy DEF Sees, CaseRow, DocRow
  <1>4. PICK S : S = {docs[d].at : d \in D}
    OBVIOUS
  <1>5. IsFiniteSet(D)
    BY <1>2, FS_Subset, IntakeAssumption
  <1>6. IsFiniteSet(S)
    <2>1. PICK f : f = [d \in D |-> docs[d].at]
      OBVIOUS
    <2>2. f \in Surjection(D, S)
      BY <1>4, <2>1 DEF Surjection
    <2> QED
      BY <1>5, <2>2, FS_Surjection
  <1>7. Activity(e, c) = S \cup {cases[c].opened}
    BY <1>2, <1>4 DEF Activity
  <1>8. IsFiniteSet(Activity(e, c)) /\ Activity(e, c) \in SUBSET Nat /\ Activity(e, c) # {}
    <2>1. IsFiniteSet(Activity(e, c))
      BY <1>6, <1>7, FS_AddElement
    <2>2. S \subseteq Nat
      BY <1>3, <1>4
    <2> QED
      BY <1>3, <1>7, <2>1, <2>2
  <1>9. PICK t \in Activity(e, c) : \A u \in Activity(e, c) : u <= t
    BY <1>8, HasGreatest
  <1>10. LastActivity(e, c) \in Activity(e, c)
    BY <1>9 DEF LastActivity
  <1>11. \A u, v : Spoken(u, v, placed) => Spoken(u, v, Said(e))
    BY DEF Said, Spoken
  <1>12. Bound(Nobody, placed) /\ Bound(e, Said(e))
    BY DEF Boundaries
  <1>13. Spoken(c, cases[c].opened, Said(e))
    BY <1>11, <1>12 DEF Bound, Sees
  <1>14. \A d \in D : Spoken(c, docs[d].at, Said(e))
    BY <1>2, <1>11, <1>12 DEF Bound, Sees
  <1> QED
    BY <1>4, <1>7, <1>8, <1>10, <1>13, <1>14

(* What a message is windowed against is of its sender and was said.         *)
LEMMA PriorIsSpoken ==
  ASSUME Base, Boundaries, Houses, NEW e \in Execs, Running(e), NEW m \in Msgs,
         NEW prior \in PriorsFor(e, m), ~Classifier,
         "follow_up" \in DecideWindow(m, prior), prior.case \in CaseIds
  PROVE  /\ cases[prior.case].from = From[m]
         /\ Spoken(prior.case, prior.last, Said(e))
         /\ Abs(At[m] - prior.last) <= OpenIdle
  <1>1. prior # NoPrior /\ Continues(m, prior)
    BY DEF DecideWindow
  <1>2. Abs(At[m] - prior.last) <= OpenIdle
    BY <1>1 DEF Continues
  <1>3. CASE exec[e].sender = From[m] /\ prior = exec[e].building
    BY <1>1, <1>2, <1>3 DEF Boundaries, View
  <1>4. CASE prior \in Priors(e, From[m])
    <2>1. PICK c \in LatestCases(e, From[m]) :
            prior = [case |-> c, state |-> cases[c].state, last |-> LastActivity(e, c)]
      BY <1>1, <1>4 DEF Priors
    <2>2. c \in CaseIds /\ prior.case = c /\ Sees(e, cases[c]) /\ cases[c].from = From[m]
          /\ prior.last = LastActivity(e, c)
      BY <2>1 DEF LatestCases, CasesOf
    <2> QED
      BY <1>2, <2>2, LastIsSpoken
  <1> QED
    BY <1>3, <1>4 DEF PriorsFor

LEMMA ViewStays ==
  ASSUME Base, Houses, NEW e \in Execs, Acts(e), NEW f \in Execs, Running(f),
         f = e => ~Commit(e) /\ ~Abort(e), exec'[f].building = exec[f].building,
         exec'[f].sender = exec[f].sender,
         NEW S, NEW T, S \subseteq T, View(f, S)
  PROVE  View(f, T)'
  <1>1. Shape
    BY DEF Base
  <1>2. CASE exec[f].building = NoPrior
    BY <1>2 DEF View
  <1>3. CASE exec[f].building # NoPrior
    <2>1. PICK c \in CaseIds : c = exec[f].building.case
      BY <1>1, <1>3, OpenIs DEF Busy
    <2>2. Housed(c, f)
      BY <1>3, <2>1 DEF Houses
    <2>3. cases'[c].from = cases[c].from
      BY <2>2, CaseKeeps DEF Others
    <2>4. cases[c].from = exec[f].sender /\ Spoken(c, exec[f].building.last, S)
      BY <1>3, <2>1 DEF View
    <2>5. Spoken(c, exec[f].building.last, T)
      BY <2>4 DEF Spoken
    <2> QED
      BY <1>3, <2>1, <2>3, <2>4, <2>5 DEF View, Spoken
  <1> QED
    BY <1>2, <1>3

LEMMA BoundariesElsewhere ==
  ASSUME Base, Houses, Boundaries, NEW e \in Execs, Acts(e)
  PROVE  /\ Bound(Nobody, placed)'
         /\ \A f \in Others(e) : Running(f)' => Bound(f, Said(f))' /\ View(f, Said(f))'
  <1>1. Shape /\ Ledger /\ Shape'
    BY ShapeStep DEF Base, IntakeStep, Acts
  <1>2. placed \in SUBSET Triples /\ placed' \in SUBSET Triples
    BY <1>1 DEF Shape, Triples
  <1>3. Bound(Nobody, placed)'
    <2>1. PICK P \in SUBSET Triples : P = placed
      BY <1>2
    <2>2. Bound(Nobody, P)
      BY <2>1 DEF Boundaries
    <2>3. CASE ~Commit(e)
      <3>1. placed' = P
        BY <1>1, <2>1, <2>3, KeepsItsRows DEF Abort
      <3>2. Bound(Nobody, P)'
        BY <2>2, <2>3, BoundElsewhere
      <3> QED
        BY <3>1, <3>2 DEF Bound
    <2>4. CASE Commit(e)
      <3>1. Running(e) /\ ~Storing(e)
        BY <1>1, <2>4, EndDoes DEF Storing
      <3>2. PICK S \in SUBSET Triples : S = Said(e)
        BY <1>1, <3>1, SaidIs
      <3>3. P \subseteq S /\ Bound(e, S)
        BY <2>1, <3>1, <3>2 DEF Boundaries, Said
      <3>4. Bound(Nobody, S)'
        BY <2>2, <2>4, <3>3, BoundCommits
      <3>5. placed' = S
        BY <2>4, <3>1, <3>2 DEF Commit, Said
      <3> QED
        BY <3>4, <3>5 DEF Bound
    <2> QED
      BY <2>3, <2>4
  <1>4. ASSUME NEW f \in Others(e), Running(f)'
        PROVE  Bound(f, Said(f))' /\ View(f, Said(f))'
    <2>1. f \in Execs /\ f # e /\ exec'[f] = exec[f] /\ Running(f)
      BY <1>1, <1>4, Elsewhere DEF Others, Running
    <2>2. PICK S \in SUBSET Triples : S = Said(f)
      BY <1>1, <2>1, SaidIs
    <2>3. PICK N \in SUBSET Triples : N = placed'
      BY <1>2
    <2>4. Said(f)' = S \cup N
      <3>1. placed \subseteq placed'
        BY <1>1, Elsewhere
      <3>2. PICK r, Z : r = exec[f] /\ Z = IF Storing(f) THEN {Now(f)} ELSE {}
        OBVIOUS
      <3>3. S = placed \cup r.placed \cup Z
        BY <2>2, <3>2 DEF Said
      <3>4. Said(f)' = placed' \cup r.placed \cup Z
        BY <2>1, <3>2 DEF Said, Storing, Now, Message
      <3> QED
        BY <2>3, <3>1, <3>3, <3>4
    <2>5. Bound(Nobody, N)'
      BY <1>3, <2>3 DEF Bound
    <2>6. Bound(f, S) /\ View(f, S)
      BY <2>1, <2>2 DEF Boundaries
    <2>7. Bound(f, S \cup N)'
      BY <2>5, <2>6, BoundJoins
    <2>8. PICK T : T = S \cup N
      OBVIOUS
    <2>9. View(f, T)'
      BY <2>1, <2>6, <2>8, ViewStays
    <2> QED
      BY <2>4, <2>7, <2>8, <2>9 DEF Bound, View
  <1> QED
    BY <1>3, <1>4

LEMMA BoundariesActs ==
  ASSUME ~Classifier, Base, Houses, Boundaries, NEW e \in Execs, Acts(e)
  PROVE  Boundaries'
  <1>0. None \notin Execs \cup {Nobody} /\ Nobody \notin Execs /\ NoUpload.phase = "idle"
    BY IntakeAssumption DEF NoUpload
  <1>1. Shape /\ Ledger /\ Shape'
    BY ShapeStep DEF Base, IntakeStep, Acts
  <1>2. ASSUME Running(e)' => Bound(e, Said(e))' /\ View(e, Said(e))' PROVE Boundaries'
    BY <1>2, BoundariesElsewhere DEF Boundaries, Others
  <1>3. CASE Commit(e) \/ Abort(e)
    <2>1. ~Running(e)'
      BY <1>1, <1>3, EndDoes DEF Shape, Running
    <2> QED
      BY <1>2, <2>1
  <1>4. ASSUME NEW b \in Batches, Upload(e, b) PROVE Boundaries'
    <2>1. /\ ~Running(e) /\ UNCHANGED <<cases, docs, placed>> /\ exec'[e].phase = "next"
          /\ exec'[e].placed = {} /\ exec'[e].building = NoPrior
      BY <1>1, <1>4, UploadDoes DEF Upload, Shape
    <2>2. Said(e)' = placed
      BY <2>1 DEF Said, Storing
    <2>3. Bound(e, placed)
      <3>1. \A c \in CaseIds : cases[c].by # e
        BY <2>1 DEF Base, Owned
      <3>2. \A d \in Contents : docs[d].by # e
        BY <2>1 DEF Base, Owned
      <3> QED
        BY <3>1, <3>2 DEF Boundaries, Bound, Housed
    <2>4. Bound(e, Said(e))'
      BY <2>1, <2>2, <2>3 DEF Bound, Housed, Near
    <2> QED
      BY <1>2, <2>1, <2>4 DEF View
  <1>5. ASSUME Running(e), ~Commit(e), ~Abort(e), NEW S, S = Said(e), Said(e)' = S,
               UNCHANGED <<cases, docs>>
        PROVE  Bound(e, Said(e))'
    <2>1. Bound(e, S)
      BY <1>5 DEF Boundaries
    <2> QED
      BY <1>5, <2>1 DEF Bound, Housed, Near
  <1>6. CASE Skip(e)
    <2>1. /\ Running(e) /\ ~Storing(e) /\ ~Storing(e)' /\ UNCHANGED <<cases, docs, placed>>
          /\ exec'[e].placed = exec[e].placed /\ exec'[e].building = exec[e].building
          /\ exec'[e].sender = exec[e].sender
      BY <1>1, <1>6, SkipDoes, SkipLeaves DEF Skip, Storing
    <2>2. ~Commit(e) /\ ~Abort(e)
      <3>1. exec[e].todo # <<>> /\ exec'[e].phase = "next"
        BY <1>1, <1>6, SkipDoes, SkipLeaves
      <3>2. Abort(e) => exec'[e].phase = "idle"
        BY <1>0, <1>1, EndDoes DEF Shape
      <3> QED
        BY <3>1, <3>2 DEF Commit
    <2>3. PICK S : S = Said(e)
      OBVIOUS
    <2>4. Said(e)' = S
      BY <2>1, <2>3 DEF Said
    <2>5. View(e, S)
      BY <2>1, <2>3 DEF Boundaries
    <2>6. View(e, S)'
      BY <2>1, <2>2, <2>5, ViewStays
    <2> QED
      BY <1>2, <1>5, <2>1, <2>2, <2>3, <2>4, <2>6 DEF View
  <1>7. CASE Complete(e)
    <2>1. PICK m \in Msgs, c \in CaseIds : m = Message(e) /\ c = exec[e].case
      BY <1>1, <1>7, CompleteDoes
    <2>2. /\ Running(e) /\ Storing(e) /\ exec'[e].phase = "next"
          /\ exec'[e].placed = exec[e].placed \cup {<<exec[e].id, m, c>>}
          /\ exec'[e].sender = From[m]
          /\ exec'[e].building = [case |-> c, state |-> "created", last |-> At[m]]
      BY <1>1, <1>7, <2>1, CompleteDoes
    <2>3. UNCHANGED <<cases, docs, placed>>
      BY <1>7 DEF Complete
    <2>4. ~Commit(e) /\ ~Abort(e)
      <3>1. Abort(e) => exec'[e].phase = "idle"
        BY <1>0, <1>1, EndDoes DEF Shape
      <3> QED
        BY <2>2, <3>1 DEF Commit, Storing
    <2>5. PICK n, S : n = <<exec[e].id, m, c>> /\ S = Said(e)
      OBVIOUS
    <2>6. Said(e)' = S /\ n \in S
      BY <2>1, <2>2, <2>3, <2>5 DEF Said, Storing, Now
    <2>7. n[2] = m /\ n[3] = c
      BY <2>5
    <2>8. cases[c].from = From[m]
      BY <2>2, <2>5, <2>6, <2>7 DEF Boundaries, Bound, Near
    <2>9. Spoken(c, At[m], S)
      BY <2>6, <2>7 DEF Spoken
    <2>10. View(e, Said(e))'
      <3>1. exec'[e].building.case = c /\ exec'[e].building.last = At[m]
        BY <2>2
      <3> QED
        BY <2>2, <2>3, <2>6, <2>8, <2>9, <3>1 DEF View, Spoken
    <2> QED
      BY <1>2, <1>5, <2>2, <2>3, <2>4, <2>5, <2>6, <2>10
  <1>8. CASE Store(e)
    <2>1. /\ Running(e) /\ Storing(e) /\ Storing(e)' /\ UNCHANGED <<cases, placed>>
          /\ exec'[e].placed = exec[e].placed /\ exec'[e].building = exec[e].building
          /\ exec'[e].sender = exec[e].sender /\ exec'[e].id = exec[e].id
          /\ exec'[e].case = exec[e].case /\ Message(e)' = Message(e)
      BY <1>1, <1>8, StoreDoes, StoreLeaves DEF Store, Storing
    <2>2. ~Commit(e) /\ ~Abort(e)
      <3>1. Abort(e) => exec'[e].phase = "idle"
        BY <1>0, <1>1, EndDoes DEF Shape
      <3> QED
        BY <2>1, <3>1 DEF Commit, Storing
    <2>3. PICK S \in SUBSET Triples : S = Said(e)
      BY <1>1, <2>1, SaidIs
    <2>4. Said(e)' = S /\ Now(e) \in S
      BY <2>1, <2>3 DEF Said, Now
    <2>5. PICK m, c, n : m = Message(e) /\ c = exec[e].case /\ n = Now(e)
      OBVIOUS
    <2>6. n \in S /\ n[2] = m /\ n[3] = c
      BY <2>4, <2>5 DEF Now
    <2>7. \A d \in Contents : docs[d].by = None /\ docs'[d].by = e =>
            Spoken(docs'[d].case, docs'[d].at, S)
      <3> SUFFICES ASSUME NEW d \in Contents, docs[d].by = None, docs'[d].by = e
                   PROVE  Spoken(docs'[d].case, docs'[d].at, S)
        OBVIOUS
      <3>1. docs' # docs
        BY <1>0
      <3>2. docs' = [docs EXCEPT ![Head(exec[e].store)] = [case |-> c, at |-> At[m], by |-> e]]
        BY <1>8, <2>5, <3>1 DEF Store
      <3>3. docs'[d] = docs[d] \/ docs'[d] = [case |-> c, at |-> At[m], by |-> e]
        BY <1>1, <3>2 DEF Shape
      <3>4. docs'[d].case = c /\ docs'[d].at = At[m]
        BY <1>0, <3>3
      <3> QED
        BY <2>6, <3>4 DEF Spoken
    <2>8. Bound(e, S) /\ View(e, S)
      BY <2>1, <2>3 DEF Boundaries
    <2>9. \A x \in CaseIds : ~(cases[x].by = None /\ cases'[x].by = e)
      BY <1>0, <2>1
    <2>10. Bound(e, S)'
      BY <2>2, <2>7, <2>8, <2>9, BoundGrows
    <2>11. View(e, S)'
      BY <2>1, <2>2, <2>8, ViewStays
    <2> QED
      BY <1>2, <2>4, <2>10, <2>11 DEF Bound, View
  <1>9. CASE Place(e)
    <2>1. PICK m \in Msgs : m = Message(e)
      BY <1>1, <1>9, PlaceDoes, MessageIs
    <2>2. PICK prior \in PriorsFor(e, m), c \in CaseIds :
            /\ Into(e, m, prior, c)
            /\ exec'[e].phase = "store" /\ exec'[e].id = exec[e].id
            /\ exec'[e].sender = exec[e].sender /\ exec'[e].building = exec[e].building
            /\ exec'[e].placed = exec[e].placed /\ exec'[e].case = c
            /\ Message(e)' = m
      BY <1>1, <1>9, <2>1, PlaceLeaves
    <2>3. Running(e) /\ ~Storing(e) /\ UNCHANGED <<docs, placed>>
      BY <1>1, <1>9, PlaceDoes DEF Place, Storing
    <2>4. ~Commit(e) /\ ~Abort(e)
      <3>1. Abort(e) => exec'[e].phase = "idle"
        BY <1>0, <1>1, EndDoes DEF Shape
      <3> QED
        BY <1>9, <2>2, <3>1 DEF Commit, Place
    <2>5. PICK S \in SUBSET Triples : S = Said(e)
      BY <1>1, <2>3, SaidIs
    <2>6. PICK n : n = <<exec[e].id, m, c>>
      OBVIOUS
    <2>7. n \in Triples /\ n[2] = m /\ n[3] = c
      BY <1>1, <2>3, <2>6, OpenIs DEF Busy, Triples
    <2>8. Said(e)' = S \cup {n}
      BY <2>2, <2>3, <2>5, <2>6 DEF Said, Storing, Now
    <2>9. Bound(e, S) /\ View(e, S)
      BY <2>3, <2>5 DEF Boundaries
    <2>10. PICK T \in SUBSET Triples : T = S \cup {n}
      BY <2>7
    <2>11. Spoken(c, At[m], T)
      BY <2>7, <2>10 DEF Spoken
    <2>12. n \notin S => Housed(c, e)' /\ Near(n, T)'
      <3>1. CASE "follow_up" \in DecideWindow(m, prior) /\ c = prior.case /\ cases' = cases
        <4>1. Housed(c, e)
          BY <2>3, <3>1, PriorIsHoused
        <4>2. cases[c].from = From[m] /\ Spoken(c, prior.last, S) /\ Abs(At[m] - prior.last) <= OpenIdle
          BY <2>3, <2>5, <3>1, PriorIsSpoken
        <4>3. PICK q \in S : q[3] = c /\ At[q[2]] = prior.last
          BY <4>2 DEF Spoken
        <4>4. n \notin S => q \in T \ {n} /\ Abs(At[m] - At[q[2]]) <= OpenIdle
          BY <2>10, <4>2, <4>3
        <4> QED
          BY <2>7, <3>1, <4>1, <4>2, <4>3, <4>4 DEF Near, Housed
      <3>2. CASE cases[c] = NoEntry /\ cases'[c] = NewCase(e, m)
        BY <2>7, <3>2, NewCaseIs DEF Near, Housed
      <3> QED
        BY <1>1, <2>2, <3>1, <3>2, IntoDoes
    <2>13. \A x \in CaseIds : cases[x].by = None /\ cases'[x].by = e =>
             Spoken(x, cases'[x].opened, T)
      <3> SUFFICES ASSUME NEW x \in CaseIds, cases[x].by = None, cases'[x].by = e
                   PROVE  Spoken(x, cases'[x].opened, T)
        OBVIOUS
      <3>1. cases' # cases /\ cases'[x] # cases[x]
        BY <1>0
      <3>2. x = c /\ cases'[c] = NewCase(e, m)
        BY <1>1, <2>2, <3>1, IntoDoes
      <3>3. cases'[x].opened = At[m]
        BY <3>2, NewCaseIs
      <3> QED
        BY <2>11, <3>2, <3>3
    <2>14. \A d \in Contents : ~(docs[d].by = None /\ docs'[d].by = e)
      BY <1>0, <2>3
    <2>15. \A p \in T : p \notin S => Housed(p[3], e)' /\ Near(p, T)'
      <3> SUFFICES ASSUME n \notin S PROVE Housed(n[3], e)' /\ Near(n, T)'
        BY <2>10
      <3> QED
        BY <2>7, <2>12 DEF Housed
    <2>16. Bound(e, T)'
      BY <2>4, <2>9, <2>10, <2>13, <2>14, <2>15, BoundGrows
    <2>17. View(e, T)'
      BY <2>2, <2>3, <2>4, <2>9, <2>10, ViewStays
    <2> QED
      BY <1>2, <2>8, <2>10, <2>16, <2>17 DEF Bound, View
  <1> QED
    BY <1>3, <1>4, <1>6, <1>7, <1>8, <1>9 DEF Acts, Ingest

(* An approval moves no case and no row.                                     *)
LEMMA BoundariesApproved ==
  ASSUME Base, Houses, Boundaries, NEW c \in CaseIds, CommitCase(c)
  PROVE  Boundaries'
  <1>0. None \notin Execs \cup {Nobody}
    BY IntakeAssumption
  <1>1. Shape
    BY DEF Base
  <1>2. /\ \A o \in CaseIds : /\ cases'[o].by = cases[o].by
                              /\ cases[o].by # None =>
                                   cases'[o].from = cases[o].from /\ cases'[o].opened = cases[o].opened
        /\ UNCHANGED <<docs, claims, exec, placed, acked, uploads>>
    BY <1>1, CommitCaseDoes
  <1>3. ASSUME NEW b \in Execs \cup {Nobody}, NEW S \in SUBSET Triples, Bound(b, S)
        PROVE  Bound(b, S)'
    <2>1. \A p \in S : Housed(p[3], b)' /\ Near(p, S)'
      <3> SUFFICES ASSUME NEW p \in S PROVE Housed(p[3], b)' /\ Near(p, S)'
        OBVIOUS
      <3>1. p[3] \in CaseIds /\ Housed(p[3], b) /\ Near(p, S)
        BY <1>3, TripleIs DEF Bound
      <3>2. cases[p[3]].by # None
        BY <1>0, <3>1 DEF Housed
      <3> QED
        BY <1>2, <3>1, <3>2 DEF Housed, Near
    <2>2. \A o \in CaseIds : cases'[o].by = b => Spoken(o, cases'[o].opened, S)
      BY <1>0, <1>2, <1>3 DEF Bound
    <2>3. \A d \in Contents : docs'[d].by = b => Spoken(docs'[d].case, docs'[d].at, S)
      BY <1>2, <1>3 DEF Bound
    <2> QED
      BY <2>1, <2>2, <2>3 DEF Bound, Spoken
  <1>4. Bound(Nobody, placed)'
    <2>1. PICK S \in SUBSET Triples : S = placed
      BY <1>1, SaidIs
    <2>2. Bound(Nobody, S)'
      BY <1>3, <2>1 DEF Boundaries
    <2> QED
      BY <1>2, <2>1, <2>2 DEF Bound
  <1>5. ASSUME NEW e \in Execs, Running(e)'
        PROVE  Bound(e, Said(e))' /\ View(e, Said(e))'
    <2>1. Running(e)
      BY <1>2, <1>5 DEF Running
    <2>2. PICK S \in SUBSET Triples : S = Said(e)
      BY <1>1, <2>1, SaidIs
    <2>3. Bound(e, S)' /\ View(e, S)
      BY <1>3, <2>1, <2>2 DEF Boundaries
    <2>4. Said(e)' = S
      BY <1>2, <2>2 DEF Said, Storing, Now, Message
    <2>5. View(e, S)'
      <3>1. CASE exec[e].building = NoPrior
        BY <1>2, <3>1 DEF View
      <3>2. CASE exec[e].building # NoPrior
        <4>1. PICK o \in CaseIds : o = exec[e].building.case
          BY <1>1, <2>1, <3>2, OpenIs DEF Busy
        <4>2. cases[o].by # None
          BY <1>0, <2>1, <3>2, <4>1 DEF Houses, Housed
        <4> QED
          BY <1>2, <2>3, <4>1, <4>2 DEF View, Spoken
      <3> QED
        BY <3>1, <3>2
    <2> QED
      BY <2>3, <2>4, <2>5 DEF Bound, View
  <1> QED
    BY <1>4, <1>5 DEF Boundaries

LEMMA BoundariesStep ==
  ASSUME ~Classifier, Base, Houses, Boundaries, [IntakeStep]_intakeVars
  PROVE  Boundaries'
  <1>1. ASSUME NEW e \in Execs, Acts(e) PROVE Boundaries'
    BY <1>1, BoundariesActs
  <1>2. ASSUME NEW c \in CaseIds, CommitCase(c) PROVE Boundaries'
    BY <1>2, BoundariesApproved
  <1>3. CASE UNCHANGED intakeVars
    BY <1>3 DEF intakeVars, Boundaries, Bound, View, Said, Spoken, Near, Housed, Running, Storing, Now, Message
  <1> QED
    BY <1>1, <1>2, <1>3 DEF IntakeStep, Acts

(* Two complaints are not run together, as long as no caller of the          *)
(* windowing passes a classifier: a message of a case is its sender's, and   *)
(* opened it or was sent within OPEN_IDLE of another message of the case.    *)
THEOREM ComplaintsKeptApart ==
  ASSUME ~Classifier
  PROVE  IntakeSpec => []BoundariesKept
  <1>1. IntakeInit => Houses /\ Deeds /\ Loads /\ Boundaries
    <2> SUFFICES ASSUME IntakeInit PROVE Houses /\ Deeds /\ Loads /\ Boundaries
      OBVIOUS
    <2>1. None \notin Execs \cup {Nobody} /\ NoEntry.by = None /\ NoUpload.phase = "idle"
      BY IntakeAssumption DEF NoEntry, NoUpload
    <2> QED
      BY <2>1 DEF IntakeInit, Houses, Deeds, Loads, Finished, Running, Storing, Boundaries, Bound
  <1>2. Boundaries => BoundariesKept
    BY DEF Boundaries, Bound, Near, BoundariesKept
  <1>3. Base /\ Houses /\ Deeds /\ Loads /\ Boundaries /\ [IntakeStep]_intakeVars
          => Base' /\ Houses' /\ Deeds' /\ Loads' /\ Boundaries'
    BY BaseStep, CargoStep, BoundariesStep
  <1> QED
    BY <1>1, <1>2, <1>3, BaseInit, PTL DEF IntakeSpec
=============================================================================
