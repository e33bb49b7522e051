----------------------------- MODULE Extraction -----------------------------
(* What becomes of a model's answer: which of the attributes it reports are  *)
(* stored, and under what name. extract/extractor.py, profile.py,            *)
(* head_nouns.py, concept_extract.py, models.py. A text, a value, a head and *)
(* a qualifier are sequences of words, in lower case and without what is not *)
(* a letter or a digit.                                                      *)
EXTENDS Integers, Sequences, FiniteSets, SequencesExt

CONSTANTS
  FunctionWords, \* profile._FUNCTION
  Money, Dates,  \* words that make a value an amount, or a date
  Redacted,      \* words that are only x
  Short,         \* words of one or two letters
  PartOf,        \* pairs: the first word is inside the second
  EscapeHeads    \* _ESCAPE_HEADS

MaxQualifierTokens == 4
NoQualifier == <<>>

-----------------------------------------------------------------------------
(* profile_value. An amount or a date passes whatever its length; a value    *)
(* half of which is redacted, or which reads like a sentence, does not.      *)
CountIn(words, set) == Cardinality({i \in DOMAIN words : words[i] \in set})
Typed(value) == CountIn(value, Money \cup Dates) > 0
HalfRedacted(value) == 2 * CountIn(value, Redacted) >= Len(value)
Clause(value) ==
  \/ Len(value) >= 6 /\ 4 * CountIn(value, FunctionWords) >= Len(value)
  \/ Len(value) >= 4 /\ 10 * CountIn(value, FunctionWords) >= 4 * Len(value)
Concrete(value) ==
  value # <<>> /\ (Typed(value) \/ (~HalfRedacted(value) /\ ~Clause(value)))

-----------------------------------------------------------------------------
(* Grounding. A word is found when it is in the text, inside another too.    *)
Within(word, other) == word = other \/ <<word, other>> \in PartOf
Found(word, source) == \E i \in DOMAIN source : Within(word, source[i])
(* A phrase is found when its words follow each other in the text; its first *)
(* and its last may be the end and the beginning of longer ones.             *)
Verbatim(phrase, source) ==
  \E at \in 0..Len(source) - Len(phrase) : \A i \in DOMAIN phrase :
    IF i \in {1, Len(phrase)} THEN Within(phrase[i], source[at + i])
                              ELSE phrase[i] = source[at + i]

Significant(value) == SelectSeq(value, LAMBDA w : w \notin Short)
FoundIn(words, source) == Cardinality({i \in DOMAIN words : Found(words[i], source)})
Grounded(value, source) ==
  /\ value # <<>>
  /\ \/ Verbatim(value, source)
     \/ Significant(value) = <<>> /\ FoundIn(value, source) > 0
     \/ /\ Significant(value) # <<>>
        /\ 10 * FoundIn(Significant(value), source) >= 6 * Len(Significant(value))

AllRedacted(value) == CountIn(value, Redacted) = Len(value)

-----------------------------------------------------------------------------
(* The name of a column, and the qualifier in it.                            *)
ComposeName(head, qualifier) ==
  IF qualifier \in {NoQualifier, head} THEN head ELSE qualifier \o head
SplitQualifier(name, head) ==
  IF name = head \/ Len(name) <= Len(head) \/ ~IsSuffix(head, name) THEN NoQualifier
  ELSE SubSeq(name, 1, Len(name) - Len(head))

Extractive(qualifier, source) == qualifier # NoQualifier /\ Verbatim(qualifier, source)
KeptQualifier(qualifier, source) ==
  IF Len(qualifier) <= MaxQualifierTokens /\ Extractive(qualifier, source) THEN qualifier
  ELSE NoQualifier

Attribute(head, qualifier, value, grounded) ==
  [head |-> head, qualifier |-> qualifier, value |-> value, grounded |-> grounded]
NameOf(attribute) == ComposeName(attribute.head, attribute.qualifier)

(* One item of the answer after the other. The first of a name is kept, even *)
(* when it is not grounded.                                                  *)
Admitted(item, heads) ==
  /\ item.head \in heads /\ ~AllRedacted(item.value)
  /\ item.head \in EscapeHeads => Concrete(item.value)
Candidate(item, source) ==
  Attribute(item.head, KeptQualifier(item.qualifier, source), item.value,
            Grounded(item.value, source))
Taken(kept, item, source, heads) ==
  LET new == Candidate(item, source) IN
  IF ~Admitted(item, heads) \/ \E i \in DOMAIN kept : NameOf(kept[i]) = NameOf(new) THEN kept
  ELSE Append(kept, new)
Emergent(answer, source, heads) ==
  FoldLeft(LAMBDA kept, item : Taken(kept, item, source, heads), <<>>, answer)
GroundedEmergent(answer, source, heads) ==
  SelectSeq(Emergent(answer, source, heads), LAMBDA a : a.grounded)

\* the share of the candidates that are grounded
FieldValidity(answer, source, heads) ==
  IF Emergent(answer, source, heads) = <<>> THEN <<1, 1>>
  ELSE <<Len(GroundedEmergent(answer, source, heads)), Len(Emergent(answer, source, heads))>>

-----------------------------------------------------------------------------
(* The re-extraction of one concept, for a backfill: a head, or one of its   *)
(* variants.                                                                 *)
Absent == Attribute(<<>>, NoQualifier, <<>>, FALSE)
ExtractConcept(item, head, variant, source) ==
  IF ~Grounded(item.value, source) THEN Absent
  ELSE IF variant = NoQualifier
    THEN Attribute(head, KeptQualifier(item.qualifier, source), item.value, TRUE)
  ELSE IF Extractive(variant, source) THEN Attribute(head, variant, item.value, TRUE)
  ELSE Absent
=============================================================================
