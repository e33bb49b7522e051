--------------------------- MODULE MCSchemaGrowth ---------------------------
(* The instance of SchemaGrowth for TLC: two near-synonyms under one head,   *)
(* stated by two cases; two others have no text, as many as a batch holds:   *)
(* the newest case is starved by them, the two between them are not.         *)
EXTENDS SchemaGrowth

MCHistory == <<"c3", "c1", "c2", "c4", "c5">>
MCMentions == [c1 |-> {"late_fee"}, c2 |-> {"late_fee", "overdue_fee"},
               c3 |-> {}, c4 |-> {}, c5 |-> {}]
MCHeadOf == [late_fee |-> "fee", overdue_fee |-> "fee"]
MCSimilarity == [v \in Variants |-> [w \in Variants |-> 80]]
MCCategory == [c \in Cases |-> 1]
=============================================================================
