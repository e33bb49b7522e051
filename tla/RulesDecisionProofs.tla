------------------------- MODULE RulesDecisionProofs -------------------------
(***************************************************************************)
(* The rules stage for every number of executions and every vocabulary of  *)
(* signals: no state of the inputs is lost however the executions overlap, *)
(* and executions that run one after the other hear every angry word.      *)
(***************************************************************************)
EXTENDS MCRulesDecision, FiniteSetTheorems, WellFoundedInduction, TLAPS

(* What the argument needs of the types.                                   *)
Shape == /\ due \in Nat /\ runs \in Nat /\ corrections \in Nat
         /\ DOMAIN flight = Deciders
         /\ flight = [w \in Deciders |-> flight[w]]

(* Someone is still going to decide the inputs the case has now: an owed   *)
(* execution that has read nothing, or one that read what is there.        *)
Pending ==
  \/ due > 0
  \/ \E w \in Deciders :
       \/ flight[w].phase = "signals" /\ flight[w].signals = signals
       \/ flight[w].phase \in {"inputs", "claimed"} /\ flight[w].inputs = Inputs

(* Strengthens EveryStateDecided to the states that are not quiet.         *)
CatchUpInv == lost \/ runs + corrections = 0 \/ Inputs \in ledger \/ Pending

LEMMA ShapeStep == Shape /\ [Next]_vars => Shape'
  <1> SUFFICES ASSUME Shape, [Next]_vars PROVE Shape'
    OBVIOUS
  <1> USE DEF Shape
  <1>1. ASSUME NEW r \in Reports, Extract(r) PROVE Shape'
    BY <1>1 DEF Extract, Defer
  <1>2. ASSUME NEW c \in Corrections, Correct(c[1], c[2]) PROVE Shape'
    BY <1>2 DEF Correct, Defer
  <1>3. ASSUME NEW w \in Deciders, Decide(w) PROVE Shape'
    BY <1>3 DEF Decide, ReadSignals, ReadArc, Claim, Write, caseVars
  <1>4. ASSUME NEW w \in Deciders, Abort(w) PROVE Shape'
    BY <1>4 DEF Abort, caseVars
  <1>5. CASE Tick
    BY <1>5 DEF Tick
  <1>6. CASE UNCHANGED vars
    BY <1>6 DEF vars, caseVars
  <1> QED
    BY <1>1, <1>2, <1>3, <1>4, <1>5, <1>6 DEF Next

LEMMA CatchUpStep == Shape /\ CatchUpInv /\ [Next]_vars => CatchUpInv'
  <1> SUFFICES ASSUME Shape, CatchUpInv, [Next]_vars PROVE CatchUpInv'
    OBVIOUS
  <1>1. ASSUME NEW r \in Reports, Extract(r) PROVE CatchUpInv'
    BY <1>1 DEF Extract, Defer, Shape, CatchUpInv, Pending
  <1>2. ASSUME NEW c \in Corrections, Correct(c[1], c[2]) PROVE CatchUpInv'
    BY <1>2 DEF Correct, Defer, Shape, CatchUpInv, Pending
  <1>3. ASSUME NEW w \in Deciders, ReadSignals(w) PROVE CatchUpInv'
    <2>1. flight'[w].phase = "signals" /\ flight'[w].signals = signals'
      BY <1>3 DEF ReadSignals, caseVars, Shape
    <2> QED
      BY <1>3, <2>1 DEF ReadSignals, caseVars, decideVars, CatchUpInv, Pending
  <1>4. ASSUME NEW w \in Deciders, ReadArc(w) PROVE CatchUpInv'
    <2>1. UNCHANGED <<due, ledger, lost, runs, corrections, signals, log>>
      BY <1>4 DEF ReadArc, caseVars, decideVars
    <2>2. Inputs' = Inputs
      BY <2>1 DEF Inputs
    <2>3. /\ flight'[w].phase = "inputs"
          /\ flight[w].signals = signals => flight'[w].inputs = Inputs
          /\ \A v \in Deciders \ {w} : flight'[v] = flight[v]
      BY <1>4 DEF ReadArc, Inputs, Shape
    <2>4. flight[w].phase = "signals"
      BY <1>4 DEF ReadArc
    <2> QED
      BY <2>1, <2>2, <2>3, <2>4 DEF CatchUpInv, Pending
  <1>5. ASSUME NEW w \in Deciders, Claim(w) PROVE CatchUpInv'
    <2>1. UNCHANGED <<due, ledger, lost, runs, corrections, signals, log>>
      BY <1>5 DEF Claim, caseVars, decideVars
    <2>2. Inputs' = Inputs
      BY <2>1 DEF Inputs
    <2>3. flight[w].phase = "inputs" /\ \A v \in Deciders \ {w} : flight'[v] = flight[v]
      BY <1>5 DEF Claim, Shape
    <2>4. \/ flight[w].inputs \in ledger
          \/ flight'[w].phase = "claimed" /\ flight'[w].inputs = flight[w].inputs
      BY <1>5 DEF Claim, Shape
    <2> QED
      BY <2>1, <2>2, <2>3, <2>4 DEF CatchUpInv, Pending
  <1>6. ASSUME NEW w \in Deciders, Write(w) PROVE CatchUpInv'
    <2>1. UNCHANGED <<due, lost, runs, corrections, signals, log>>
      BY <1>6 DEF Write, caseVars
    <2>2. Inputs' = Inputs
      BY <2>1 DEF Inputs
    <2>3. /\ flight[w].phase = "claimed" /\ ledger' = ledger \cup {flight[w].inputs}
          /\ \A v \in Deciders \ {w} : flight'[v] = flight[v]
      BY <1>6 DEF Write, Shape
    <2> QED
      BY <2>1, <2>2, <2>3 DEF CatchUpInv, Pending
  <1>7. ASSUME NEW w \in Deciders, Abort(w) PROVE CatchUpInv'
    BY <1>7 DEF Abort, Shape, CatchUpInv, Pending
  <1>8. CASE UNCHANGED <<signals, log, due, ledger, flight, lost, runs, corrections>>
    <2>1. Inputs' = Inputs
      BY <1>8 DEF Inputs
    <2> QED
      BY <1>8, <2>1 DEF CatchUpInv, Pending
  <1>9. CASE Tick
    BY <1>8, <1>9 DEF Tick, decideVars
  <1>10. CASE UNCHANGED vars
    BY <1>8, <1>10 DEF vars, caseVars, decideVars
  <1> QED
    BY <1>1, <1>2, <1>3, <1>4, <1>5, <1>6, <1>7, <1>9, <1>10 DEF Next, Decide

(* When nothing is owed or running, the inputs the case has now have been  *)
(* decided, unless an execution was given up.                              *)
THEOREM NoLostUpdate == Spec => []EveryStateDecided
  <1>1. Init => Shape /\ CatchUpInv
    BY DEF Init, Shape, CatchUpInv
  <1>2. CatchUpInv => EveryStateDecided
    BY DEF CatchUpInv, Pending, EveryStateDecided, Quiet
  <1> QED
    BY <1>1, <1>2, ShapeStep, CatchUpStep, PTL DEF Spec

-----------------------------------------------------------------------------
(* The sentiment arc and the policy.                                       *)

(* A set of numbers that is not empty has a least one.                     *)
LEMMA HasLeast ==
  ASSUME NEW S \in SUBSET Nat, S # {}
  PROVE  \E m \in S : \A x \in S : m <= x
  <1> DEFINE Less == OpToRel(<, Nat)
  <1>1. Less = {ss \in Nat \X Nat : ss[1] < ss[2]}
    BY Zenon DEF OpToRel
  <1> HIDE DEF Less
  <1>2. IsWellFoundedOn(Less, Nat)
    BY NatLessThanWellFounded DEF Less
  <1>3. PICK m \in S : \A x \in S : ~(<<x, m>> \in Less)
    BY <1>2, WFMin
  <1>4. ASSUME NEW x \in S, x < m PROVE FALSE
    <2>1. <<x, m>> \in {ss \in Nat \X Nat : ss[1] < ss[2]}
      BY <1>4
    <2> QED
      BY <1>1, <1>3, <2>1
  <1> QED
    BY <1>4

(* A set of positions that is not empty has a last one.                    *)
LEMMA HasLast ==
  ASSUME NEW n \in Nat, NEW S \in SUBSET (1..n), S # {}
  PROVE  Max(S) \in S
  <1> DEFINE back == {n - k : k \in S}
  <1>1. back # {} /\ back \subseteq Nat
    OBVIOUS
  <1>2. PICK b \in back : \A x \in back : b <= x
    <2> HIDE DEF back
    <2> QED
      BY <1>1, HasLeast
  <1>3. PICK m \in S : b = n - m
    OBVIOUS
  <1>4. \A k \in S : n - k \in back
    OBVIOUS
  <1> HIDE DEF back
  <1>5. \A k \in S : k <= m
    BY <1>2, <1>3, <1>4
  <1> QED
    BY <1>5 DEF Max

Read(readings) == {k \in DOMAIN readings : readings[k] \in Emotions}

(* Readings that none of which can be read tell nothing.                   *)
LEMMA NothingRead ==
  ASSUME NEW readings, Read(readings) = {}
  PROVE  Analyze(readings) = NoReadings
  BY DEF Analyze, Read

(* What can be read has a latest reading and a most intense one.           *)
LEMMA SomethingRead ==
  ASSUME NEW readings, NEW n \in Nat, DOMAIN readings \subseteq 1..n,
         Read(readings) # {}
  PROVE  /\ Analyze(readings).current \in Emotions
         /\ Analyze(readings).peak \in Emotions
         /\ \A k \in Read(readings) :
              Intensity[readings[k]] <= Intensity[Analyze(readings).peak]
  <1> DEFINE rank(k) == Intensity[readings[k]]
             Top(k)  == \A j \in Read(readings) : rank(j) <= rank(k)
             top     == CHOOSE k \in Read(readings) : Top(k)
  <1>1. \A k \in Read(readings) : rank(k) \in 0..2
    BY DEF Read, Emotions, Intensity
  <1>2. \E k \in Read(readings) : Top(k)
    <2>1. CASE \E k \in Read(readings) : rank(k) = 2
      BY <1>1, <2>1
    <2>2. CASE ~(\E k \in Read(readings) : rank(k) = 2) /\ \E k \in Read(readings) : rank(k) = 1
      BY <1>1, <2>2
    <2>3. CASE \A k \in Read(readings) : rank(k) \notin {1, 2}
      BY <1>1, <2>3
    <2> QED
      BY <2>1, <2>2, <2>3
  <1>3. top \in Read(readings) /\ Top(top)
    <2> HIDE DEF Top
    <2> QED
      BY <1>2
  <1>4. Max(Read(readings)) \in Read(readings)
    BY HasLast DEF Read
  <1>5. /\ Analyze(readings).current = readings[Max(Read(readings))]
        /\ Analyze(readings).peak = readings[top]
    BY DEF Analyze, Read
  <1> QED
    BY <1>3, <1>4, <1>5 DEF Read

(* One reading is its own peak.                                            *)
LEMMA OneReading ==
  ASSUME NEW readings, Read(readings) = {1}
  PROVE  Analyze(readings).peak = readings[1]
  <1> DEFINE rank(k) == Intensity[readings[k]]
             top     == CHOOSE k \in Read(readings) :
                          \A j \in Read(readings) : rank(j) <= rank(k)
  <1>1. rank(1) \in Int
    BY DEF Read, Emotions, Intensity
  <1>2. top \in {1}
    BY <1>1
  <1>3. Analyze(readings).peak = readings[top]
    BY DEF Analyze, Read
  <1> QED
    BY <1>2, <1>3

(* An angry word that can be read is the peak.                             *)
LEMMA AngerIsPeak ==
  ASSUME NEW readings, NEW n \in Nat, DOMAIN readings \subseteq 1..n,
         NEW k \in DOMAIN readings, readings[k] = "angry"
  PROVE  Analyze(readings).peak = "angry"
  <1>1. k \in Read(readings)
    BY DEF Read, Emotions
  <1>2. /\ Analyze(readings).peak \in Emotions
        /\ Intensity["angry"] <= Intensity[Analyze(readings).peak]
    BY <1>1, SomethingRead
  <1> QED
    BY <1>2 DEF Emotions, Intensity

(* The policy keeps an angry customer at the first or second priority.     *)
LEMMA AngerIsUrgent ==
  ASSUME NEW inputs, inputs.emotion = "angry"
  PROVE  Evaluate(inputs).priority <= 2
  <1> DEFINE matching == {k \in DOMAIN Rules : Matches(Rules[k], inputs)}
  <1>1. DOMAIN Rules = 1..15
    BY DEF Rules
  <1>2. Rules[5].when = [emotion |-> {"angry"}]
    BY DEF Rules, Rule
  <1>3. 5 \in matching
    BY <1>1, <1>2 DEF Matches
  <1>4. PICK m \in matching : \A k \in matching : m <= k
    BY <1>1, <1>3, HasLeast
  <1>5. Min(matching) = m
    <2> HIDE DEF matching
    <2>1. \A k \in matching : k \in Int
      BY <1>1 DEF matching
    <2> QED
      BY <1>4, <2>1 DEF Min
  <1>6. m \in 1..5
    BY <1>1, <1>3, <1>4
  <1>7. \A k \in 1..5 : Rules[k].priority <= 2
    BY DEF Rules, Rule
  <1>8. Evaluate(inputs) = Rules[m]
    BY <1>5 DEF Evaluate
  <1> QED
    BY <1>6, <1>7, <1>8

-----------------------------------------------------------------------------
(* What a running execution is going to decide as things stand, and what   *)
(* the stage ledger can do to it.                                          *)

Chosen(w) == IF flight[w].phase = "signals" THEN InputsOf(flight[w].signals, log)
             ELSE flight[w].inputs

(* The log of readings, each one in its time.                              *)
Emoted  == [emotion : {r.emotion : r \in Reports}, at : Nat]
Phases  == {"idle", "signals", "inputs", "claimed"}
Logged  == /\ log \in Seq(Emoted) /\ now \in Nat
           /\ log # <<>> => runs > 0
           /\ \A w \in Deciders : flight[w].phase \in Phases

(* One execution at a time.                                                *)
Solo   == \A v, w \in Deciders :
            flight[v].phase # "idle" /\ flight[w].phase # "idle" => v = w

(* Inputs that are done and did not come back are those of the row; and an *)
(* execution that would store others runs before they are done.            *)
Stands == Inputs \in ledger /\ ~revisited => decision = Inputs
Novel  == \A w \in Deciders : flight[w].phase # "idle" =>
            Chosen(w) = Inputs \/ revisited \/ Inputs \notin ledger

AloneInv == alone => Solo /\ Stands /\ Novel

LEMMA LoggedStep == Shape /\ Logged /\ [Next]_vars => Logged'
  <1> SUFFICES ASSUME Shape, Logged, [Next]_vars PROVE Logged'
    OBVIOUS
  <1>1. ASSUME NEW r \in Reports, Extract(r) PROVE Logged'
    <2>1. [emotion |-> r.emotion, at |-> now] \in Emoted
      BY DEF Emoted, Logged
    <2>2. UNCHANGED <<flight, now>> /\ runs' > 0
      BY <1>1 DEF Extract, Shape
    <2>3. log' = log \/ log' = Append(log, [emotion |-> r.emotion, at |-> now])
      BY <1>1 DEF Extract
    <2>4. log' \in Seq(Emoted)
      <3> HIDE DEF Emoted
      <3> QED
        BY <2>1, <2>3 DEF Logged
    <2> QED
      BY <2>2, <2>4 DEF Logged
  <1>2. ASSUME NEW c \in Corrections, Correct(c[1], c[2]) PROVE Logged'
    BY <1>2 DEF Correct, Logged
  <1>3. ASSUME NEW w \in Deciders, Decide(w) \/ Abort(w) PROVE Logged'
    <2>1. UNCHANGED <<log, now, runs>>
      BY <1>3 DEF Decide, ReadSignals, ReadArc, Claim, Write, Abort, caseVars
    <2>2. \A v \in Deciders \ {w} : flight'[v] = flight[v]
      BY <1>3 DEF Decide, ReadSignals, ReadArc, Claim, Write, Abort, Shape
    <2>3. CASE Claim(w)
      <3>1. flight'[w].phase \in {"idle", "claimed"}
        BY <2>3 DEF Claim, Idle, Shape
      <3> QED
        BY <2>1, <2>2, <3>1 DEF Logged, Phases
    <2>4. CASE ReadSignals(w) \/ ReadArc(w) \/ Write(w) \/ Abort(w)
      <3>1. flight'[w].phase \in {"idle", "signals", "inputs"}
        BY <2>4 DEF ReadSignals, ReadArc, Write, Abort, Idle, Shape
      <3> QED
        BY <2>1, <2>2, <3>1 DEF Logged, Phases
    <2> QED
      BY <1>3, <2>3, <2>4 DEF Decide
  <1>4. CASE Tick
    BY <1>4 DEF Tick, Logged
  <1>5. CASE UNCHANGED vars
    BY <1>5 DEF vars, caseVars, Logged
  <1> QED
    BY <1>1, <1>2, <1>3, <1>4, <1>5 DEF Next

(* The positions of the arc are positions of the log.                      *)
LEMMA ArcIsOfLog ==
  ASSUME NEW S, NEW l \in Seq(S)
  PROVE  DOMAIN Arc(l) \subseteq 1..Len(l) /\ Len(l) \in Nat
  BY DEF Arc

(* Of two sets of signals that make the same inputs, neither makes others  *)
(* when readings come in that leave the inputs as they were.               *)
LEMMA SameMix ==
  ASSUME NEW S, NEW l \in Seq(S), NEW m \in Seq(S), m # <<>>,
         NEW s, NEW t, NEW u,
         InputsOf(s, l) = InputsOf(t, l), InputsOf(u, m) = InputsOf(t, l)
  PROVE  InputsOf(s, m) = InputsOf(u, m)
  <1> DEFINE a == IF l = <<>> THEN Analyze(<<t.emotion>>) ELSE Analyze(Arc(l))
             b == Analyze(Arc(m))
  <1>1. /\ InputsOf(u, m).category = u.category /\ InputsOf(u, m).severity = u.severity
        /\ InputsOf(u, m).current = b.current
    BY DEF InputsOf
  <1>2. /\ s.category = t.category /\ s.severity = t.severity
        /\ u.category = t.category /\ u.severity = t.severity
    BY DEF InputsOf
  <1>3. CASE Read(Arc(m)) # {}
    <2>1. b.peak \in Emotions
      BY <1>3, ArcIsOfLog, SomethingRead
    <2>2. b.peak # Unknown
      BY <2>1 DEF Emotions, Unknown
    <2>3. RouteOnPeak(s, b) = RouteOnPeak(u, b)
      BY <2>2 DEF RouteOnPeak
    <2> QED
      BY <1>2, <2>3 DEF InputsOf
  <1>4. CASE Read(Arc(m)) = {}
    <2>1. b = NoReadings
      BY <1>4, NothingRead
    <2>2. InputsOf(t, l).current = Unknown
      BY <2>1, <1>1 DEF NoReadings
    <2>3. \A x : RouteOnPeak(x, b) = x.emotion
      BY <2>1 DEF NoReadings, RouteOnPeak
    <2>4. s.emotion = t.emotion /\ InputsOf(t, l).emotion = t.emotion
      <3>1. CASE l = <<>>
        <4>1. \A x : RouteOnPeak(x, Analyze(<<x.emotion>>)) = x.emotion
          <5> TAKE x
          <5>1. CASE x.emotion \in Emotions
            <6>1. Read(<<x.emotion>>) = {1}
              BY <5>1 DEF Read
            <6>2. Analyze(<<x.emotion>>).peak = x.emotion
              BY <6>1, OneReading
            <6> QED
              BY <6>2 DEF RouteOnPeak
          <5>2. CASE x.emotion \notin Emotions
            <6>1. Read(<<x.emotion>>) = {}
              BY <5>2 DEF Read
            <6> QED
              BY <6>1, NothingRead DEF NoReadings, RouteOnPeak
          <5> QED
            BY <5>1, <5>2
        <4>2. InputsOf(s, l).emotion = s.emotion /\ InputsOf(t, l).emotion = t.emotion
          BY <3>1, <4>1 DEF InputsOf
        <4> QED
          BY <4>2
      <3>2. CASE l # <<>>
        <4>1. Analyze(Arc(l)).current = Unknown
          BY <2>2, <3>2 DEF InputsOf
        <4>2. Read(Arc(l)) = {}
          BY <4>1, ArcIsOfLog, SomethingRead DEF Emotions, Unknown
        <4>3. Analyze(Arc(l)).peak = Unknown
          BY <4>2, NothingRead DEF NoReadings
        <4>4. InputsOf(s, l).emotion = s.emotion /\ InputsOf(t, l).emotion = t.emotion
          BY <3>2, <4>3 DEF InputsOf, RouteOnPeak
        <4> QED
          BY <4>4
      <3> QED
        BY <3>1, <3>2
    <2>5. InputsOf(u, m).emotion = u.emotion
      BY <2>3 DEF InputsOf
    <2>6. s.emotion = u.emotion
      BY <2>4, <2>5
    <2> QED
      BY <1>2, <2>3, <2>6 DEF InputsOf
  <1> QED
    BY <1>3, <1>4

-----------------------------------------------------------------------------
(* The executions of SpecAlone, and what holds while none overlapped.      *)

LEMMA OnlyOne ==
  ASSUME NEW R, IsFiniteSet(R), Cardinality(R) <= 1, NEW v \in R, NEW w \in R
  PROVE  v = w
  <1>1. IsFiniteSet({v}) /\ Cardinality({v}) = 1
    BY FS_Singleton
  <1>2. v # w => Cardinality({v} \cup {w}) = 2
    BY <1>1, FS_AddElement
  <1>3. {v} \cup {w} \in SUBSET R
    OBVIOUS
  <1>4. Cardinality({v} \cup {w}) <= Cardinality(R)
    BY <1>3, FS_Subset
  <1>5. Cardinality(R) \in Nat
    BY FS_CardinalityType
  <1> QED
    BY <1>2, <1>4, <1>5

LEMMA AloneStep ==
  RulesAssumption /\ Shape /\ Logged /\ AloneInv /\ [NextAlone]_<<vars, alone>>
    => AloneInv'
  <1> SUFFICES ASSUME RulesAssumption, Shape, Logged, AloneInv, alone',
                      [NextAlone]_<<vars, alone>>
               PROVE  (Solo /\ Stands /\ Novel)'
    BY DEF AloneInv
  <1>1. /\ alone /\ Solo /\ Stands /\ Novel
        /\ [Next]_vars
        /\ ~UNCHANGED vars => Next /\ Cardinality(Running') <= 1
    <2>1. alone /\ [Next]_vars /\ (~UNCHANGED vars => Next /\ Cardinality(Running') <= 1)
      <3>1. CASE NextAlone
        BY <3>1, Zenon DEF NextAlone
      <3>2. CASE UNCHANGED <<vars, alone>>
        BY <3>2
      <3> QED
        BY <3>1, <3>2
    <2> QED
      BY <2>1 DEF AloneInv
  <1>2. Solo'
    <2>1. CASE ~UNCHANGED vars
      <3>1. IsFiniteSet(Running')
        BY FS_Subset DEF Running, RulesAssumption
      <3> SUFFICES ASSUME NEW v \in Deciders, NEW w \in Deciders,
                          v \in Running', w \in Running'
                   PROVE  v = w
        BY DEF Solo, Running
      <3> QED
        BY <1>1, <2>1, <3>1, OnlyOne
    <2>2. CASE UNCHANGED vars
      BY <1>1, <2>2 DEF vars, Solo
    <2> QED
      BY <1>1, <2>1, <2>2
  <1>3. (Stands /\ Novel)'
    <2>1. ASSUME NEW r \in Reports, Extract(r) PROVE (Stands /\ Novel)'
      <3>1. UNCHANGED <<flight, ledger, decision>> /\ Revisit
        BY <2>1 DEF Extract, decideVars
      <3>2. CASE Inputs' # Inputs
        <4>1. revisited' = (Inputs' \in ledger')
          BY <3>1, <3>2 DEF Revisit
        <4> QED
          BY <4>1 DEF Stands, Novel
      <3>3. CASE Inputs' = Inputs
        <4>1. revisited' = revisited
          BY <3>1, <3>3 DEF Revisit
        <4>2. Stands'
          BY <1>1, <3>1, <3>3, <4>1 DEF Stands
        <4>3. ASSUME NEW w \in Deciders, flight'[w].phase # "idle",
                     ~revisited', Inputs' \in ledger'
              PROVE  Chosen(w)' = Inputs'
          <5>1. Chosen(w) = Inputs
            BY <1>1, <3>1, <3>3, <4>1, <4>3 DEF Novel
          <5>2. CASE flight[w].phase # "signals" \/ log' = log
            BY <3>1, <3>3, <5>1, <5>2 DEF Chosen
          <5>3. CASE flight[w].phase = "signals" /\ log' # log
            <6>1. InputsOf(flight[w].signals, log) = InputsOf(signals, log)
              BY <5>1, <5>3 DEF Chosen, Inputs
            <6>2. InputsOf(signals', log') = InputsOf(signals, log)
              BY <3>3 DEF Inputs
            <6>3. log \in Seq(Emoted) /\ log' \in Seq(Emoted) /\ log' # <<>>
              <7> HIDE DEF Emoted
              <7>1. log' = Append(log, [emotion |-> r.emotion, at |-> now])
                BY <2>1, <5>3 DEF Extract
              <7>2. [emotion |-> r.emotion, at |-> now] \in Emoted
                BY DEF Emoted, Logged
              <7> QED
                BY <7>1, <7>2 DEF Logged
            <6>4. InputsOf(flight[w].signals, log') = InputsOf(signals', log')
              BY <6>1, <6>2, <6>3, SameMix
            <6> QED
              BY <3>1, <5>3, <6>4 DEF Chosen, Inputs
          <5> QED
            BY <5>2, <5>3
        <4> QED
          BY <4>2, <4>3 DEF Novel
      <3> QED
        BY <3>2, <3>3
    <2>2. ASSUME NEW c \in Corrections, Correct(c[1], c[2]) PROVE (Stands /\ Novel)'
      <3>1. UNCHANGED <<flight, ledger, decision, log>> /\ Revisit
        BY <2>2 DEF Correct, decideVars
      <3>2. CASE Inputs' # Inputs
        <4>1. revisited' = (Inputs' \in ledger')
          BY <3>1, <3>2 DEF Revisit
        <4> QED
          BY <4>1 DEF Stands, Novel
      <3>3. CASE Inputs' = Inputs
        <4>1. revisited' = revisited
          BY <3>1, <3>3 DEF Revisit
        <4>2. \A w \in Deciders : Chosen(w)' = Chosen(w)
          BY <3>1 DEF Chosen
        <4> QED
          BY <1>1, <3>1, <3>3, <4>1, <4>2 DEF Stands, Novel
      <3> QED
        BY <3>2, <3>3
    <2>3. ASSUME NEW w \in Deciders, Decide(w) \/ Abort(w) PROVE (Stands /\ Novel)'
      <3>1. UNCHANGED <<signals, log, revisited>> /\ Inputs' = Inputs
        BY <2>3 DEF Decide, ReadSignals, ReadArc, Claim, Write, Abort, caseVars, Inputs
      <3>2. \A v \in Deciders \ {w} : flight'[v] = flight[v]
        BY <2>3 DEF Decide, ReadSignals, ReadArc, Claim, Write, Abort, Shape
      <3>3. \A v \in Deciders \ {w} : Chosen(v)' = Chosen(v)
        BY <3>1, <3>2 DEF Chosen
      <3>4. CASE ReadSignals(w)
        <4>1. UNCHANGED <<ledger, decision>>
          BY <3>4 DEF ReadSignals, decideVars
        <4>2. flight'[w].phase = "signals" /\ flight'[w].signals = signals
          BY <3>4 DEF ReadSignals, Shape
        <4>3. Chosen(w)' = Inputs'
          BY <3>1, <4>2 DEF Chosen, Inputs
        <4> QED
          BY <1>1, <3>1, <3>2, <3>3, <4>1, <4>3 DEF Stands, Novel
      <3>5. CASE ReadArc(w)
        <4>1. UNCHANGED <<ledger, decision>> /\ flight[w].phase = "signals"
          BY <3>5 DEF ReadArc, decideVars
        <4>2. /\ flight'[w].phase = "inputs"
              /\ flight'[w].inputs = InputsOf(flight[w].signals, log)
          BY <3>5 DEF ReadArc, Shape
        <4>3. Chosen(w)' = Chosen(w)
          BY <4>1, <4>2 DEF Chosen
        <4> QED
          BY <1>1, <3>1, <3>2, <3>3, <4>1, <4>3 DEF Stands, Novel
      <3>6. CASE Claim(w)
        <4>1. UNCHANGED <<ledger, decision>> /\ flight[w].phase = "inputs"
          BY <3>6 DEF Claim, decideVars
        <4>2. \/ flight'[w].phase = "idle"
              \/ flight'[w].phase = "claimed" /\ flight'[w].inputs = flight[w].inputs
          BY <3>6 DEF Claim, Idle, Shape
        <4>3. flight'[w].phase = "idle" \/ Chosen(w)' = Chosen(w)
          BY <4>1, <4>2 DEF Chosen
        <4> QED
          BY <1>1, <3>1, <3>2, <3>3, <4>1, <4>3 DEF Stands, Novel
      <3>7. CASE Write(w)
        <4>1. /\ flight[w].phase = "claimed"
              /\ decision' = flight[w].inputs
              /\ ledger' = ledger \cup {flight[w].inputs}
              /\ flight'[w].phase = "idle"
          BY <3>7 DEF Write, Idle, Shape
        <4>2. flight[w].inputs = Inputs \/ revisited \/ Inputs \notin ledger
          BY <1>1, <4>1 DEF Novel, Chosen
        <4>3. Stands'
          BY <3>1, <4>1, <4>2 DEF Stands
        <4>4. \A v \in Deciders : flight'[v].phase = "idle"
          BY <1>1, <3>2, <4>1 DEF Solo
        <4> QED
          BY <4>3, <4>4 DEF Novel
      <3>8. CASE Abort(w)
        <4>1. UNCHANGED <<ledger, decision>> /\ flight'[w].phase = "idle"
          BY <3>8 DEF Abort, decideVars, Idle, Shape
        <4> QED
          BY <1>1, <3>1, <3>2, <3>3, <4>1 DEF Stands, Novel
      <3> QED
        BY <2>3, <3>4, <3>5, <3>6, <3>7, <3>8 DEF Decide
    <2>4. CASE Tick \/ UNCHANGED vars
      <3>1. UNCHANGED <<signals, log, revisited, ledger, decision, flight>>
        BY <2>4 DEF Tick, vars, caseVars, decideVars
      <3>2. Inputs' = Inputs /\ \A w \in Deciders : Chosen(w)' = Chosen(w)
        BY <3>1 DEF Inputs, Chosen
      <3> QED
        BY <1>1, <3>1, <3>2 DEF Stands, Novel
    <2> QED
      BY <1>1, <2>1, <2>2, <2>3, <2>4 DEF Next
  <1> QED
    BY <1>2, <1>3

(* Executions that run one after the other leave the row of the case's     *)
(* current inputs, and an angry word within the window keeps the case      *)
(* urgent, however calm the words after it are.                            *)
LEMMA FreshIsUrgent ==
  Shape /\ Logged /\ FreshOnNewInputs => AngerHeard
  <1> SUFFICES ASSUME Shape, Logged, FreshOnNewInputs, Quiet, ~lost, ~revisited, log # <<>>,
                      NEW k \in DOMAIN Arc(log), Arc(log)[k] = "angry"
               PROVE  Evaluate(decision).priority <= 2
    BY DEF AngerHeard
  <1>1. decision = Inputs
    BY DEF FreshOnNewInputs, Logged, Shape
  <1>2. Analyze(Arc(log)).peak = "angry"
    BY ArcIsOfLog, AngerIsPeak DEF Logged
  <1>3. Inputs.emotion = "angry"
    BY <1>2 DEF Inputs, InputsOf, RouteOnPeak, Unknown
  <1> QED
    BY <1>1, <1>3, AngerIsUrgent

THEOREM AngerIsHeard == SpecAlone => [](FreshWhenAlone /\ AngerHeardWhenAlone)
  <1> DEFINE Inv == Shape /\ Logged /\ CatchUpInv /\ AloneInv
  <1>1. InitAlone => Inv
    BY DEF InitAlone, Init, Shape, Logged, CatchUpInv, AloneInv, Solo, Stands, Novel,
           Idle, Phases
  <1>2. Inv /\ [NextAlone]_<<vars, alone>> => Inv'
    <2> SUFFICES ASSUME Inv, [NextAlone]_<<vars, alone>> PROVE Inv'
      OBVIOUS
    <2>1. [Next]_vars
      BY DEF NextAlone
    <2> QED
      BY <2>1, RulesAssumption, ShapeStep, LoggedStep, CatchUpStep, AloneStep
  <1>3. Inv => FreshWhenAlone /\ AngerHeardWhenAlone
    <2> SUFFICES ASSUME Inv, alone PROVE FreshOnNewInputs /\ AngerHeard
      BY DEF FreshWhenAlone, AngerHeardWhenAlone
    <2>1. EveryStateDecided
      BY DEF CatchUpInv, Pending, EveryStateDecided, Quiet
    <2>2. FreshOnNewInputs
      BY <2>1 DEF AloneInv, Stands, EveryStateDecided, FreshOnNewInputs
    <2> QED
      BY <2>2, FreshIsUrgent
  <1> QED
    BY <1>1, <1>2, <1>3, PTL DEF SpecAlone
=============================================================================
