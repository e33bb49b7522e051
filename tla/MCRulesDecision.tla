--------------------------- MODULE MCRulesDecision ---------------------------
(* RulesDecision on small instances: two categories, one severity that      *)
(* matters, readings of every intensity and one the extractor could not    *)
(* make out.                                                                *)
EXTENDS RulesDecision, TLC

CONSTANTS w1, w2

Report(c, s, e) == [category |-> c, severity |-> s, emotion |-> e]

MCReports == {Report("delivery_fulfilment", "none", "calm"),
              Report("delivery_fulfilment", "none", "angry"),
              Report("product_fault", "financial_harm", Unknown)}

MCArcs == {Report("delivery_fulfilment", "none", e) : e \in Emotions}

MCCorrections == {<<"category", "product_fault">>,
                  <<"category", "delivery_fulfilment">>}
MCEmotionFix  == {<<"emotion", "angry">>}

-----------------------------------------------------------------------------
(* History: no execution of decide_case overlapped another.                 *)
VARIABLE alone

Running   == {w \in Deciders : flight[w].phase # "idle"}
InitAlone == Init /\ alone = TRUE
NextAlone == Next /\ alone' = (alone /\ Cardinality(Running') <= 1)
SpecAlone ==
  /\ InitAlone
  /\ [][NextAlone]_<<vars, alone>>
  /\ \A w \in Deciders : WF_vars(Decide(w))

(* Executions that run one after the other leave the row computed from the  *)
(* case's current inputs, whichever of them fail, unless they are inputs    *)
(* the case had and left before.                                            *)
FreshWhenAlone == alone => FreshOnNewInputs

(* ... and then an angry word within the window keeps the case urgent,      *)
(* whatever calmer words followed it.                                       *)
AngerHeardWhenAlone == alone => AngerHeard
=============================================================================
