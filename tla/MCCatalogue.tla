----------------------------- MODULE MCCatalogue -----------------------------
(* What reaches the tenant from outside and what grows of it: the public     *)
(* edge, chat exports, intake, the business's own records, minted columns.   *)
(* They share no state: a behaviour moves one part and leaves the others at  *)
(* rest.                                                                     *)
EXTENDS Intake, Objects, Minting, PublicEdge, ChatExport, TLC

VARIABLE part

-----------------------------------------------------------------------------
(* Intake: two customers; the first one's export holds a complaint, an       *)
(* omitted photo soon after, a message days later, and its first words again *)
(* with a file, and that later message exported with its image; the second   *)
(* customer sends the same words, and an image comes from nobody.            *)
MCMsgs == {"first", "photo", "later", "again", "other", "richer", "note"}
MCFrom == [m \in MCMsgs |-> CASE m = "other" -> "bo" [] m = "note" -> Anonymous
                              [] OTHER -> "al"]
MCAt == [first |-> 0, photo |-> 1, later |-> 5, again |-> 6, other |-> 0,
         richer |-> 5, note |-> 0]
MCKey == [first |-> "k1", photo |-> NoKey, later |-> "k2", again |-> "k3",
          other |-> "k4", richer |-> "k2",
          note |-> NoKey]
MCDocs == [first |-> <<"text">>, photo |-> <<>>, later |-> <<"more">>,
           again |-> <<"text", "file">>, other |-> <<"text">>,
           richer |-> <<"more", "image">>, note |-> <<>>]
MCKeys == {"k1", "k2", "k3", "k4"}
MCBatches == {<<"later", "first", "photo">>, <<"again", "richer">>, <<"other", "note", "first">>}

-----------------------------------------------------------------------------
(* Objects: orders of two customers; the number of one of them reads like    *)
(* the phone of another, and one number was given twice.                     *)
OrderRow ==
  [o1 |-> [order |-> "A1", phone |-> "050-1"],
   o2 |-> [order |-> "A2", phone |-> "050-2"],
   o3 |-> [order |-> "A1", phone |-> "050-2"],
   o4 |-> [order |-> "0502", phone |-> Vacant]]
OrderFiles == {{"o1", "o2"}, {"o2", "o3", "o4"}}
Written == {"A1", "A2", "050-1", "050-2", "0502"}
Digits == [v \in Written |->
             CASE v = "050-1" -> "0501" [] v \in {"050-2", "0502"} -> "0502"
               [] v = "A1" -> "1" [] v = "A2" -> "2"]
Verbatim == [v \in Written |-> v]
CalledFrom == [c1 |-> "050-1", c2 |-> Vacant]
Quotes == [c1 |-> {"A1", "A2", "0502"}, c2 |-> {}]
NameLike == [c \in {"c1", "c2"} |-> [o1 |-> 90, o2 |-> 70, o3 |-> 84, o4 |-> 20]]

-----------------------------------------------------------------------------
(* Minting: two cases state a regulation, one of them a diagnosis with it.   *)
Stated == [s1 |-> {"rule", "illness"}, s2 |-> {"act", "illness"}]
Similar == {<<"rule", "act">>, <<"act", "illness">>}

-----------------------------------------------------------------------------
(* The edge: two addresses that sign in under one key, and the tenant, on a  *)
(* small clock.                                                              *)
EdgeLimit == [k \in LimitKeys |-> IF k = "tenant" THEN 3 ELSE 1]
EdgeWindow == [k \in LimitKeys |-> CASE k = "tenant" -> 3 [] k = "in1" -> 4 [] OTHER -> 1]
SignsInAs == [a \in Addresses |-> "in1"]

-----------------------------------------------------------------------------
(* Chat exports: what two or three people really wrote, and how the export   *)
(* renders it in one date order.                                             *)
Bodies == {<<"hi">>, <<"hi", "there">>, <<"img", "hi">>, <<"img">>, <<"gone", "", "hi">>, <<"">>,
           <<"omitted", "hi">>}
Posted == [date : {<<3, 4>>, <<3, 14>>}, from : {"ann", NoSender}, body : Bodies]
Chats == [posts : [1..1 -> Posted] \cup [1..2 -> Posted], dayFirst : BOOLEAN]
MCGenuine == {chat \in Chats : Telling(chat)}
MCNoStamp == <<>>
MCPreamble == <<[stamp |-> NoStamp, from |-> NoSender, body |-> "hi"]>>

-----------------------------------------------------------------------------
(* The pure algorithms, checked over small inputs, as assumptions: TLC       *)
(* evaluates them when a run starts.                                         *)

(* Calibration: every tally of two classes with a few rows. A threshold is   *)
(* chosen on what each row is worth to the others, and holds for the set it  *)
(* was chosen on when every class has rows enough for a number of its own;   *)
(* a class that has fewer is given the average, and may break the target.    *)
C == INSTANCE Calibration WITH
       Classes <- {"late", "broken", "lost"}, Abstentions <- {"UNCLEAR"}, MinCellN <- 3,
       Target <- <<8, 10>>
Tallies == [{"late", "broken", "lost"} -> [right : 0..4, wrong : 0..1]]
Thick(tally) == \A c \in DOMAIN tally : C!Seen(tally, c) = 0 \/ C!Seen(tally, c) >= 3
ASSUME ThickTalliesMeet == \A tally \in Tallies : Thick(tally) /\ C!GateMet(tally) => C!AutoMeets(tally)
ASSUME ThinTalliesMayNot == \E tally \in Tallies : C!GateMet(tally) /\ ~C!AutoMeets(tally)
ASSUME RefusedMeansReview ==
  \A tally \in Tallies : ~C!GateMet(tally) => C!AutoClasses(tally) = {}
ASSUME AbstentionIsReviewed ==
  \A tally \in Tallies : C!GateMet(tally) /\ ~C!AtLeast(C!Nought, C!Tau(tally)) =>
    C!Route(C!Confidence(C!Fitted(tally), TRUE, "UNCLEAR", <<1, 1>>), C!Tau(tally)) = "review"
ASSUME UnfittedIsUnsure ==
  ~C!AtLeast(C!Confidence(C!NoCalibration, TRUE, "late", <<1, 1>>), <<5, 10>>)
-----------------------------------------------------------------------------
(* Extraction: short answers about short texts. What the first extraction    *)
(* stores, a backfill of that head would store too; a name tells head and    *)
(* qualifier apart, until a head is minted that is a name of two others; a   *)
(* value of the model's own keeps a real one of that name out.               *)
X == INSTANCE Extraction WITH
       FunctionWords <- {"the", "was"}, Money <- {"usd"}, Dates <- {"2026"},
       Redacted <- {"xxxx"}, Short <- {"5"}, PartOf <- {<<"fee", "fees">>},
       EscapeHeads <- {<<"other">>}
Words == {"late", "fee", "fees", "xxxx"}
Phrases(n) == UNION {[1..k -> Words] : k \in 0..n}
SeedHeads == {<<"fee">>, <<"other">>}
Sources == {<<"the", "late", "fees">>, <<"xxxx", "fee", "was", "late">>}
Items == [head : SeedHeads, qualifier : Phrases(1), value : Phrases(2)]
Stores(answer, source, a) ==
  \E i \in DOMAIN X!GroundedEmergent(answer, source, SeedHeads) :
    X!GroundedEmergent(answer, source, SeedHeads)[i] = a
ASSUME BackfillStoresIt ==
  \A source \in Sources, item \in Items :
    LET kept == X!GroundedEmergent(<<item>>, source, SeedHeads) IN
    kept # <<>> => X!ExtractConcept(item, item.head, <<>>, source) = kept[1]
ASSUME BackfillStoresMore ==
  \E source \in Sources, item \in Items :
    /\ X!GroundedEmergent(<<item>>, source, SeedHeads) = <<>>
    /\ X!ExtractConcept(item, item.head, <<>>, source) # X!Absent
ASSUME NamesTellApart ==
  /\ \A head \in SeedHeads, q \in Phrases(2) : q # head =>
       X!SplitQualifier(X!ComposeName(head, q), head) = q
  /\ \A head, other \in SeedHeads, q, r \in Phrases(1) :
       X!ComposeName(head, q) = X!ComposeName(other, r) =>
         <<head, q>> = <<other, r>> \/ {q, r} \subseteq {head, other, <<>>}
ASSUME MintedNamesMayNot == X!ComposeName(<<"late", "fee">>, <<>>) = X!ComposeName(<<"fee">>, <<"late">>)
ASSUME InventedHidesReal ==
  \E source \in Sources, real, other \in Items :
    /\ X!GroundedEmergent(<<real>>, source, SeedHeads) # <<>>
    /\ X!GroundedEmergent(<<other, real>>, source, SeedHeads) = <<>>
ASSUME ValidityIsAShare ==
  \A source \in Sources, item \in Items :
    X!FieldValidity(<<item>>, source, SeedHeads) \in {<<1, 1>>, <<0, 1>>}
-----------------------------------------------------------------------------
(* Synthesis: every analysis of a small case. A fault that is not the        *)
(* customer's word is never asserted, and a contradiction is always shown    *)
(* and comes first; but an anchor named only by a fault that is held back is *)
(* not shown at all. A longer message never makes a fault less the           *)
(* customer's.                                                               *)
S == INSTANCE Synthesis WITH
       Absent <- "absent", ContactField <- LAMBDA name : name = "phone",
       MaxFacts <- 2, MaxWidth <- 2
Faults == [given : BOOLEAN, words : SUBSET {"a1", "box", "torn"}, narratesMood : BOOLEAN]
Governed == [fault : Faults, anchor : {"absent", "a1"}, emotion : {"absent", "angry"},
             outcome : {"absent", "refund"}]
Flags == {"yes", "no", "unknown"}
Contradictions == {<<>>} \cup {<<c>> : c \in [value : {"absent", "late"}, claim : {"absent", "never"}]}
Says(g, flag, what) == \E i \in DOMAIN S!Summary(g, flag) : S!Summary(g, flag)[i] = what
ASSUME NothingInvented ==
  \A g \in Governed : ~Says(g, "no", "fault") /\ Says(g, "no", "still being confirmed")
ASSUME AnchorMayGo ==
  \E g \in Governed : g.anchor # "absent" /\ ~Says(g, "no", "anchor") /\ ~Says(g, "no", "fault")
ASSUME AnchorShown ==
  \A g \in Governed, flag \in {"yes", "unknown"} :
    g.anchor # "absent" => Says(g, flag, "anchor") \/ Says(g, flag, "fault")
ASSUME DiscrepancyLeads ==
  \A g \in Governed, flag \in Flags, cs \in Contradictions :
    LET a == S!Analysis(g, "absent", cs, flag) IN
    /\ (a.discrepancy = "absent") = (cs = <<>>)
    /\ cs # <<>> => a.nextStep = "resolve the discrepancy first"
ASSUME MoreWordsNoLess ==
  \A f \in Faults, said, more \in SUBSET {"a1", "box", "torn"} :
    S!Grounded(f, said) => S!Grounded(f, said \cup more)
ShownFacts == [name : {"phone", "slot"}, text : {<<>>, <<"id">>, <<"a", "b", "c">>}]
ASSUME FactsFit ==
  \A facts \in UNION {[1..n -> ShownFacts] : n \in 0..3} :
    LET saying == S!Confirmation(<<"id">>, facts).facts IN
    \A i \in DOMAIN saying : saying[i].name # "phone" /\ Len(saying[i].text) \in 1..2

-----------------------------------------------------------------------------
(* PolicyFile: every file of up to two rules. One that parses decides every  *)
(* case; one that would leave a case undecided is refused; but a rule that   *)
(* comes after a catch-all is let through and never decides one.             *)
F == INSTANCE PolicyFile WITH
       Bad <- "bad", InputKeys <- {"category", "emotion"}, Priorities <- {"P1"},
       NoPolicy <- [version |-> "none", rules |-> <<>>], Refused <- [version |-> "refused"]
Whens == {<<>>} \cup {[k \in {key} |-> vs] : key \in {"category", "bad"},
                                            vs \in {{}, {"late"}, {"late", "bad"}}}
RuleFiles == [id : {"r", "s", "bad"}, when : Whens, priority : {"P1", "bad"}, routing : {"desk"},
              hours : {0, 4}, rationale : {"why"}]
PolicyFiles == [version : {"v1"}, rules : UNION {[1..n -> RuleFiles] : n \in 0..2}]
CaseInputs == {<<>>, [k \in {"category"} |-> "late"], [k \in {"category"} |-> "lost"]}
Default == [version |-> "v0", rules |-> <<[id |-> "all", when |-> <<>>, priority |-> "P1",
              routing |-> "desk", hours |-> 24, rationale |-> "why"]>>]
ASSUME LoadedDecides ==
  \A own \in PolicyFiles : LET policy == F!Loaded(own, Default) IN
    policy.version # "refused" => \A inputs \in CaseInputs : F!Evaluate(policy, inputs).version = policy.version
ASSUME UndecidingRefused ==
  \A own \in PolicyFiles :
    (\E inputs \in CaseInputs : F!Matching(own, inputs) = {}) => ~F!Parses(own)
ASSUME ShadowedRuleParses ==
  \E own \in PolicyFiles : F!Parses(own) /\ Len(own.rules) = 2 /\ F!CatchAll(own.rules[1])

-----------------------------------------------------------------------------
\* no chat is being read
ExportOff == transcript = <<>> /\ at = 1 /\ current = NoMessage /\ messages = <<>>

\* a part that does not move holds nothing
InitAll ==
  /\ part \in {"objects", "minting", "export", "edge", "intake"}
  /\ ObjectsInit /\ MintInit /\ IntakeInit
  /\ EdgeInit /\ (part # "edge" => secret = Missing)
  /\ IF part = "export" THEN ExportInit ELSE ExportOff

Moves(name) ==
  /\ part = name /\ UNCHANGED part
  /\ name # "objects" => UNCHANGED objectVars
  /\ name # "minting" => UNCHANGED mintVars
  /\ name # "export"  => UNCHANGED exportVars
  /\ name # "edge"    => UNCHANGED edgeVars
  /\ name # "intake"  => UNCHANGED intakeVars

NextAll ==
  \/ Moves("objects") /\ ObjectsStep
  \/ Moves("minting") /\ MintStep
  \/ Moves("export")  /\ ExportStep
  \/ Moves("edge")    /\ EdgeStep
  \/ Moves("intake")  /\ IntakeStep

SpecAll == InitAll /\ [][NextAll]_<<part, objectVars, mintVars, exportVars, edgeVars, intakeVars>>
=============================================================================
