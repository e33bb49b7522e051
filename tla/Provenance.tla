----------------------------- MODULE Provenance -----------------------------
(* From a document to the highlight a reviewer sees: the normalisers, the    *)
(* text of a case put together from their rows, and the place an extracted   *)
(* value is cited at. normalise/, the saving half of pipeline.py, the text   *)
(* and review reads of store/api.py, extract/provenance.py.                  *)
(*                                                                           *)
(* A text is a sequence of letters, "nl" and "sp": the code points of a      *)
(* Python string. The browser has it in the units of UTF-16, of which some   *)
(* letters take two; half of such a letter is a letter of its own here. A    *)
(* row is ordered by the start of the transaction that first wrote it, so a  *)
(* slow normalisation may come before rows that were committed earlier.      *)
EXTENDS Integers, Sequences, FiniteSets, FiniteSetsExt, SequencesExt

CONSTANTS
  Docs, Content,    \* the documents of a case; what each holds
  Letters,          \* what texts are written in
  Fold,             \* str.lower(), of a letter: some become two
  Encoded,          \* a letter in UTF-16
  Fields, Quotes,   \* the fields, and what the model may say of them
  NoDoc,
  MinLayer,         \* _TEXT_LAYER_MIN_CHARS
  MaxOcrPages,      \* _MAX_OCR_PAGES
  MaxBegins         \* bound: normalisations started

\* nothing said
NoQuote == <<>>

VARIABLES
  contents, \* normalised_content, one row per document
  done,     \* the documents whose normalise claim is complete
  working,  \* the normalisations in progress: the time each started
  begins,   \* normalisations started so far
  reading,  \* the text the extraction in progress was given
  extracted, \* the texts in the extract ledger
  current   \* field_current, with the citation of each value

provenanceVars == <<contents, done, working, begins, reading, extracted, current>>

NoRow == [at |-> 0, text |-> <<>>, spans |-> <<>>]
NoValue == [value |-> NoQuote]
NoText == [on |-> FALSE]

ProvenanceInit ==
  /\ contents = [d \in Docs |-> NoRow] /\ done = {} /\ working = [d \in Docs |-> 0] /\ begins = 0
  /\ reading = NoText /\ extracted = {} /\ current = [f \in Fields |-> NoValue]

-----------------------------------------------------------------------------
(* The normalisers. Each turns a document into a text and its spans.         *)
Join(parts, sep) ==
  LET joined[i \in 0..Len(parts)] ==
        IF i = 0 THEN <<>> ELSE IF i = 1 THEN parts[1] ELSE joined[i - 1] \o <<sep>> \o parts[i]
  IN joined[Len(parts)]
NonEmpty(parts) == SelectSeq(parts, LAMBDA part : part # <<>>)

Read(text, spans) == [text |-> text, spans |-> spans, degraded |-> FALSE]
Degraded(text, spans) == [text |-> text, spans |-> spans, degraded |-> TRUE]

FromText(c) == Read(c.lines[1], c.lines)
FromAudio(c) == Read(Join(NonEmpty(c.lines), "sp"), NonEmpty(c.lines))
FromPages(pages) == LET lines == NonEmpty(FlattenSeq(pages)) IN Read(Join(lines, "nl"), lines)

(* A PDF is read from its text layer, when there is more to it than what a   *)
(* scanner stamps on a page, and from the first pages otherwise.             *)
Meaningful(c) == Join(SelectSeq(c.lines, LAMBDA line : line \notin c.stamp /\ line # <<>>), "nl")
FromPdf(c, ocr) ==
  LET layer == NonEmpty(c.lines)
      first == IF Len(c.pages) < MaxOcrPages THEN Len(c.pages) ELSE MaxOcrPages IN
  IF Len(Meaningful(c)) >= MinLayer THEN Read(Join(layer, "nl"), layer)
  ELSE IF ocr THEN FromPages(SubSeq(c.pages, 1, first))
  ELSE Degraded(Join(layer, "nl"), layer)

Normalised(c, ocr) ==
  CASE c.kind = "text"  -> FromText(c)
    [] c.kind = "audio" -> FromAudio(c)
    [] c.kind = "image" -> FromPages(c.pages)
    [] c.kind = "pdf"   -> FromPdf(c, ocr)
    [] OTHER            -> Read(<<>>, <<>>)

(* Content: [kind |-> "text", "audio", "image", "pdf" or "other",            *)
(*           lines |-> the message, the utterances or the text layer,        *)
(*           stamp |-> the lines of the layer a scanner put there,           *)
(*           pages |-> what OCR would read, per page].                       *)
(* A normaliser turns each into texts (NormalisedContent, models.py).        *)
NormalisedContent == [text : Seq(Letters), spans : Seq(Seq(Letters)), degraded : BOOLEAN]
ASSUME ProvenanceAssumption ==
  /\ IsFiniteSet(Docs) /\ NoDoc \notin Docs /\ {"nl", "sp"} \subseteq Letters
  /\ Fold \in [Letters -> Seq(Letters)] /\ Encoded \in [Letters -> Seq(Letters)]
  /\ NoQuote \notin Quotes /\ Quotes \subseteq Seq(Letters)
  /\ MinLayer \in Nat /\ MaxOcrPages \in Nat /\ MaxBegins \in Nat
  /\ \A d \in Docs, ocr \in BOOLEAN : Normalised(Content[d], ocr) \in NormalisedContent

(* A normalisation is one transaction; now() is when it began.               *)
Normalise(d) ==
  /\ d \notin done /\ working[d] = 0 /\ begins < MaxBegins
  /\ begins' = begins + 1 /\ working' = [working EXCEPT ![d] = begins + 1]
  /\ UNCHANGED <<contents, done, reading, extracted, current>>

(* A document read again replaces its row and keeps its place. A degraded    *)
(* reading is kept, and may be done again where OCR is installed.            *)
Save(d, ocr) ==
  LET content == Normalised(Content[d], ocr) IN
  /\ working[d] # 0 /\ (Content[d].kind = "image" => ocr)
  /\ contents' = [contents EXCEPT ![d] =
       [at |-> IF @ = NoRow THEN working[d] ELSE @.at, text |-> content.text,
        spans |-> content.spans]]
  /\ done' = IF content.degraded THEN done ELSE done \cup {d}
  /\ working' = [working EXCEPT ![d] = 0]
  /\ UNCHANGED <<begins, reading, extracted, current>>

\* OCR is missing for an image, or the process dies
NormaliseFails(d) ==
  /\ working[d] # 0
  /\ working' = [working EXCEPT ![d] = 0]
  /\ UNCHANGED <<contents, done, begins, reading, extracted, current>>

-----------------------------------------------------------------------------
(* The text of a case: its rows that are not empty, in order.                *)
Readable == {d \in Docs : contents[d].text # <<>>}
Earlier(d) == {e \in Readable : contents[e].at < contents[d].at}
InOrder ==
  [i \in 1..Cardinality(Readable) |-> CHOOSE d \in Readable : Cardinality(Earlier(d)) = i - 1]
Texts(docs) == [i \in DOMAIN docs |-> contents[docs[i]].text]
CaseText == Join(Texts(InOrder), "nl")

(* What is looked for is the value without its blanks at both ends, in any   *)
(* case.                                                                     *)
Ink(text)   == {i \in DOMAIN text : text[i] \notin {"nl", "sp"}}
Strip(text) == IF Ink(text) = {} THEN <<>> ELSE SubSeq(text, Min(Ink(text)), Max(Ink(text)))
Letterwise(text, f) == FlattenSeq([i \in DOMAIN text |-> f[text[i]]])
Lower(text) == Letterwise(text, Fold)

(* Where a text holds a value: the letters before it, in the lowered text.   *)
Places(text, value) ==
  {p \in 0..Len(text) - Len(value) : SubSeq(text, p + 1, p + Len(value)) = value}
Found(text, value) == Places(Lower(text), Lower(Strip(value)))
Says(text, value) == Strip(value) # <<>> /\ Found(text, value) # {}

Spoken(d) == Content[d].kind \in {"audio", "image"}
FoundIn(d, value) ==
  IF Spoken(d) THEN \E i \in DOMAIN contents[d].spans : Says(contents[d].spans[i], value)
               ELSE Says(contents[d].text, value)

\* a slip, for the mutation runs: a voice note or a photo does not count
BaseOfTexts(docs, i) ==
  LET before[j \in 1..i] ==
        IF j = 1 THEN 0 ELSE before[j - 1] +
          IF Spoken(docs[j - 1]) THEN 0 ELSE Len(contents[docs[j - 1]].text) + 1
  IN before[i]
Base(docs, i) ==
  LET before[j \in 1..i] ==
        IF j = 1 THEN 0 ELSE before[j - 1] + Len(contents[docs[j - 1]].text) + 1
  IN before[i]

(* The first document that holds the value, and where: letters of the case's *)
(* text, counted in the lowered text of the document and as long as the      *)
(* value is itself, or an utterance or region of that document. A value that *)
(* is in none is cited to the whole of every document.                       *)
WholeCase == [doc |-> NoDoc, letters |-> <<>>, span |-> 0]
Located(docs, value) ==
  LET holders == {i \in DOMAIN docs : FoundIn(docs[i], value)} IN
  IF holders = {} THEN WholeCase
  ELSE LET i == Min(holders) d == docs[i] IN
       IF Spoken(d)
         THEN [doc |-> d, letters |-> <<>>,
               span |-> Min({k \in DOMAIN contents[d].spans : Says(contents[d].spans[k], value)})]
       ELSE LET p == Base(docs, i) + Min(Found(contents[d].text, value)) IN
            [doc |-> d, letters |-> <<p, p + Len(Strip(value))>>, span |-> 0]

-----------------------------------------------------------------------------
(* Extraction gives the model the text it reads first, and looks the values  *)
(* up in the rows it reads when the model has answered. One extraction at a  *)
(* time: JobPipeline has the jobs, their retries and their order.            *)
ReadCase ==
  /\ reading = NoText /\ CaseText \notin extracted \cup {<<>>}
  /\ reading' = [on |-> TRUE, text |-> CaseText] /\ extracted' = extracted \cup {CaseText}
  /\ UNCHANGED <<contents, done, working, begins, current>>

(* said: per field, a value or none; a field the model leaves out keeps the  *)
(* value it had. upto: the texts up to the cited document, for the property. *)
Upto(docs, d) == Texts(SubSeq(docs, 1, Min({i \in DOMAIN docs : docs[i] = d} \cup {Len(docs)})))
Cited(docs, value) ==
  [value |-> value, at |-> Located(docs, value), upto |-> Upto(docs, Located(docs, value).doc)]
ExtractCase(said) ==
  /\ reading.on
  /\ current' = [f \in Fields |-> IF said[f] = NoQuote THEN current[f] ELSE Cited(InOrder, said[f])]
  /\ reading' = NoText
  /\ UNCHANGED <<contents, done, working, begins, extracted>>

ProvenanceStep ==
  \/ \E d \in Docs : Normalise(d) \/ NormaliseFails(d) \/ \E ocr \in BOOLEAN : Save(d, ocr)
  \/ ReadCase
  \/ \E said \in [Fields -> Quotes \cup {NoQuote}] : ExtractCase(said)

ProvenanceSpec == ProvenanceInit /\ [][ProvenanceStep]_provenanceVars

-----------------------------------------------------------------------------
Highlighted(f) == current[f] # NoValue /\ current[f].at.letters # <<>>

(* The page marks, in the units the browser has the case's text in, what the *)
(* citation counted in letters.                                              *)
Units == Letterwise(CaseText, Encoded)
Within(n) == IF n < Len(Units) THEN n ELSE Len(Units)
Marks(f) ==
  LET place == current[f].at.letters IN SubSeq(Units, Within(place[1]) + 1, Within(place[2]))

Unmoved(f) == Upto(InOrder, current[f].at.doc) = current[f].upto
(* One letter is one letter of the lowered text and one unit of the page.    *)
OneToOne(x) == Len(Fold[x]) = 1 /\ Encoded[x] = <<x>>
PlainUpTo(n) == \A i \in 1..n : i \in DOMAIN CaseText /\ OneToOne(CaseText[i])
Reads(marked, value) == Lower(marked) = Lower(Strip(value))

(* What is marked reads as the value, but for its case, as long as no        *)
(* document was put before the cited one, or read again, since; and as every *)
(* letter up to the end of the mark counts as one, in lower case and on the  *)
(* page. A spoken value is cited to an utterance that holds it.              *)
HighlightStands ==
  \A f \in Fields : current[f] # NoValue =>
    LET at == current[f].at
        value == current[f].value IN
    /\ Highlighted(f) /\ Unmoved(f) /\ PlainUpTo(at.letters[2])
         /\ Len(Lower(Strip(value))) = Len(Strip(value)) => Reads(Marks(f), value)
    /\ at.span # 0 => Says(contents[at.doc].spans[at.span], value)

(* extract/provenance.py: offsets are computed against the same documents    *)
(* the store puts together, "so a text char range lines up with what the UI  *)
(* renders". It fails for a value that stays current while a document is put *)
(* before the cited one, or is read again; and, with nothing moved, when an  *)
(* emoji stands before the value, or a letter that is two in lower case.     *)
HighlightTrue    == \A f \in Fields : Highlighted(f) => Reads(Marks(f), current[f].value)
HighlightLinesUp ==
  \A f \in Fields : Highlighted(f) /\ Unmoved(f) => Reads(Marks(f), current[f].value)
=============================================================================
