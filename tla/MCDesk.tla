-------------------------------- MODULE MCDesk --------------------------------
(* What the people of the tenant see and do: the review desk and its papers, *)
(* the highlighted sources, and the tuning loop. They share no state: a      *)
(* behaviour moves one part and leaves the others at rest.                   *)
EXTENDS Tuning, Desk, Provenance, TLC

VARIABLE part

-----------------------------------------------------------------------------
(* The digest shows one flip and nobody's notes.                             *)
MCTransitions == <<"u to v">>
MCNotes == <<>>

-----------------------------------------------------------------------------
(* The desk: two reviewers over one case, and one over two of them.          *)
MCAge == [old |-> 1, new |-> 2]
ASSUME TwoDesks == Cases = {"old", "new"} /\ Reviewers = {"ann", "ben"}
OldCaseAlone ==
  /\ UNCHANGED <<stage["new"], stamp["new"], event["new"], decided["new"], model["new"],
                 value["new"], pinned["new"]>>
  /\ \A r \in Reviewers : correcting'[r] # <<>> => correcting'[r][1].case = "old"
  /\ \A i \in DOMAIN notes' : notes'[i].case = "old"
AnnAlone ==
  /\ correcting'["ben"] = <<>> /\ clock' = 0
  /\ \A c \in Cases : stamp'[c].by # "ben" /\ event'[c] # "ben"
  /\ \A i \in DOMAIN notes' : notes'[i].by = "ann"
  /\ corrections' # <<>> => Len(corrections') = 1 /\ correcting'["ann"] = <<>>

-----------------------------------------------------------------------------
(* Provenance: a message with an emoji, a voice note and a scan of a case,   *)
(* in capitals and small letters, one of which is two in lower case.         *)
MCFold == [x \in Letters |-> CASE x = "A" -> <<"a">> [] x = "C" -> <<"c">>
                               [] x = "I" -> <<"i", "dot">> [] OTHER -> <<x>>]
MCEncoded == [x \in Letters |-> IF x = "emoji" THEN <<"high", "low">> ELSE <<x>>]
Holdings ==
  [note |-> [kind |-> "text", lines |-> <<<<"emoji", "A", "b">>>>, stamp |-> {}, pages |-> <<>>],
   voice |-> [kind |-> "audio", lines |-> <<<<"b">>, <<>>, <<"C">>>>, stamp |-> {}, pages |-> <<>>],
   scan |-> [kind |-> "pdf", lines |-> <<<<"s">>, <<"C", "I", "a">>>>, stamp |-> {<<"s">>},
             pages |-> <<<<<<"c", "A">>, <<"b">>>>, <<<<"c">>>>>>]]
MCQuotes == {<<"b">>, <<"c", "sp">>, <<"a", "b">>, <<"a">>}

-----------------------------------------------------------------------------
\* a part that is at rest holds nothing, the desk what it starts with
Nil == "nil"
ProvenanceOff == /\ contents = Nil /\ done = Nil /\ working = Nil /\ begins = Nil
                 /\ reading = Nil /\ extracted = Nil /\ current = Nil
TuningOff     == /\ head = Nil /\ edits = Nil /\ local = Nil /\ script = Nil /\ main = Nil
                 /\ pulls = Nil /\ opened = Nil /\ failures = Nil /\ loaded = Nil /\ read = Nil
                 /\ orderly = Nil

InitDesk ==
  /\ part \in {"desk", "register", "provenance", "tuning"}
  /\ DeskInit /\ (part \notin {"desk", "register"} => value["old"] = "u")
  /\ IF part = "provenance" THEN ProvenanceInit ELSE ProvenanceOff
  /\ IF part = "tuning" THEN TuningInit ELSE TuningOff

Moves(name) ==
  /\ part = name /\ UNCHANGED part
  /\ name \notin {"desk", "register"} => UNCHANGED deskVars
  /\ name # "provenance" => UNCHANGED provenanceVars
  /\ name # "tuning" => UNCHANGED tuningVars

NextDesk ==
  \/ Moves("desk")       /\ DeskStep /\ OldCaseAlone
  \/ Moves("register")   /\ DeskStep /\ AnnAlone
  \/ Moves("provenance") /\ ProvenanceStep
  \/ Moves("tuning")     /\ TuningStep

SpecDesk == InitDesk /\ [][NextDesk]_<<part, deskVars, provenanceVars, tuningVars>>

-----------------------------------------------------------------------------
(* A value is highlighted where it stands, until a document comes before it  *)
(* or is read again.                                                         *)
HighlightHolds == part = "provenance" => HighlightStands
(* A version names one prompt while pull requests come one at a time.        *)
TunedRight == part = "tuning" => TunedInOrder
=============================================================================
