------------------------------- MODULE Objects -------------------------------
(* The object store and the record resolver: a tenant uploads its orders,    *)
(* and the elicit stage binds a case to one of them, asks, or reports that   *)
(* the customer's anchors disagree. engine/app/resolve/, the object section  *)
(* of store/api.py and the resolving half of elicit/stage.py.                *)
(*                                                                           *)
(* A record is its content: a row that changed is another record. A value is *)
(* kept with its two normal forms, the one of a phone and the one of         *)
(* anything else. A run reads the sender's phone and then the quoted id, in  *)
(* two statements, and an upload may commit between them.                    *)
EXTENDS Integers, FiniteSets

CONSTANTS
  Records, Fields, Cases, Values, Vacant,
  Row,              \* what each record holds: Fields -> Values or Vacant
  Files,            \* the uploads: sets of records
  ContactNamed,     \* the fields profile._CONTACT_HINT matches
  PhoneNamed,       \* the fields keys._PHONE_HINT matches
  ContactShaped,    \* the values that look like a phone or an e-mail
  AsText, AsDigits, \* the normal forms of a value (AsDigits: Vacant if no digit)
  Sender,           \* the contact_ref of a case, or Vacant
  Anchors,          \* what the customer of a case may quote
  Likeness,         \* cosine of the customer's name and a record, in percent
  MatchTau, Margin, \* resolver.MATCH_TAU, MARGIN
  MaxObjectRows,    \* upload.MAX_OBJECT_ROWS
  MaxStates,        \* bound: what a case is resolved with
  MaxAborts         \* bound: elicit runs that fail

ASSUME ObjectsAssumption ==
  /\ IsFiniteSet(Records) /\ IsFiniteSet(Fields) /\ Vacant \notin Records
  /\ Row \in [Records -> [Fields -> Values \cup {Vacant}]] /\ Vacant \notin Values
  /\ Files \subseteq SUBSET Records /\ \A f \in Files : IsFiniteSet(f)
  /\ ContactNamed \subseteq Fields /\ PhoneNamed \subseteq Fields
  /\ Sender \in [Cases -> Values \cup {Vacant}] /\ Anchors \in [Cases -> SUBSET Values]
  /\ Likeness \in [Cases -> [Records -> 0..100]]
  /\ MatchTau \in Nat /\ Margin \in Nat /\ MaxObjectRows \in Nat /\ MaxAborts \in Nat
  /\ MaxStates \in Nat

VARIABLES
  index,     \* object_key: per stored record, the normal form of each key field
  embedded,  \* the records that have an embedding
  told,      \* field_current, anchor_value
  extracted, \* the cases with an extraction of anchor_value
  corrected, \* the cases with a reviewer's correction of it
  handled,   \* the extracted states the elicit ledger holds
  run,       \* the elicit run of a case
  outcome,   \* the resolution the last run of a case committed
  snapshots, \* source_document, object_snapshot: the case each belongs to
  cited,     \* extraction_citation, role contradicts
  aborts

objectVars == <<index, embedded, told, extracted, corrected, handled, run, outcome, snapshots,
                cited, aborts>>
anchorVars == <<told, extracted, corrected>>

NotStored == [f \in {} |-> Vacant]
Resting == [at |-> "rest"]
Nothing == [mode |-> "elicit", object |-> Vacant, contradicts |-> FALSE]
Outcome(is, counts) == [is |-> is, counts |-> counts]

ObjectsInit ==
  /\ index = [r \in Records |-> NotStored] /\ embedded = {}
  /\ told = [c \in Cases |-> Vacant] /\ extracted = {} /\ corrected = {}
  /\ handled = [c \in Cases |-> {}]
  /\ run = [c \in Cases |-> Resting]
  /\ outcome = [c \in Cases |-> Outcome(Nothing, FALSE)]
  /\ snapshots = [r \in Records |-> Vacant] /\ cited = {} /\ aborts = 0

-----------------------------------------------------------------------------
(* Ingest. A field is a key when its values are nearly unique in the file,   *)
(* or when it holds contacts. A record the store has already is left alone,  *)
(* its keys too.                                                             *)
Holds(r, f) == Row[r][f] # Vacant
BlankRow(r) == \A f \in Fields : ~Holds(r, f)
FilledRows(file) == {r \in file : ~BlankRow(r)}
Acceptable(file) == FilledRows(file) # {} /\ Cardinality(FilledRows(file)) <= MaxObjectRows

Column(file, f) == {r \in file : Holds(r, f)}
NearlyUnique(file, f) ==
  10 * Cardinality({Row[r][f] : r \in Column(file, f)}) >= 9 * Cardinality(Column(file, f))
HoldsContacts(file, f) ==
  \/ f \in ContactNamed
  \/ 10 * Cardinality({r \in Column(file, f) : Row[r][f] \in ContactShaped})
       >= 8 * Cardinality(Column(file, f))
KeyFields(file) ==
  {f \in Fields : Column(file, f) # {} /\ (NearlyUnique(file, f) \/ HoldsContacts(file, f))}

NormalForm(f, v) == IF f \in PhoneNamed THEN AsDigits[v] ELSE AsText[v]
KeysOf(file, r) ==
  [f \in {k \in KeyFields(file) : Holds(r, k) /\ NormalForm(k, Row[r][k]) # Vacant}
     |-> NormalForm(f, Row[r][f])]
Stored(r) == index[r] # NotStored \/ r \in embedded
New(file) == {r \in FilledRows(file) : ~Stored(r)}

UploadObjects(file) ==
  /\ Acceptable(file)
  /\ index' = [r \in Records |-> IF r \in New(file) THEN KeysOf(FilledRows(file), r) ELSE index[r]]
  /\ embedded' = embedded \cup New(file)
  /\ run' = [c \in Cases |-> IF run[c].at = "asked" THEN [run[c] EXCEPT !.raced = TRUE]
                                                    ELSE run[c]]
  /\ UNCHANGED <<anchorVars, handled, outcome, snapshots, cited, aborts>>

-----------------------------------------------------------------------------
(* The customer quotes something, or something else, and it is extracted; or *)
(* a reviewer corrects it, and then what the customer says no longer shows.  *)
(* Bound: between two runs of the case.                                      *)
Open(c) == run[c] = Resting /\ Cardinality(handled[c]) < MaxStates
Tell(c, v) ==
  /\ Open(c) /\ (c \in extracted => c \notin corrected /\ told[c] # v)
  /\ told' = [told EXCEPT ![c] = IF c \in corrected THEN @ ELSE v]
  /\ extracted' = extracted \cup {c}
  /\ UNCHANGED <<index, embedded, corrected, handled, run, outcome, snapshots, cited, aborts>>
Correct(c, v) ==
  /\ Open(c) /\ told[c] # v
  /\ told' = [told EXCEPT ![c] = v] /\ corrected' = corrected \cup {c}
  /\ UNCHANGED <<index, embedded, extracted, handled, run, outcome, snapshots, cited, aborts>>

(* A hit is a record and the field it was found by: a record that holds the  *)
(* value in two key fields is hit twice.                                     *)
Hits(form) ==
  {h \in Records \X Fields : h[2] \in DOMAIN index[h[1]] /\ index[h[1]][h[2]] = form}
Named(hits) == {h[1] : h \in hits}
The(hits) == (CHOOSE h \in hits : TRUE)[1]

Resolved(mode, r, clash) == [mode |-> mode, object |-> r, contradicts |-> clash]

\* slips, for the mutation runs: the phone is not asked; the record is lost
ByIdUnchecked(hits, phone) ==
  IF Cardinality(hits) # 1 THEN Resolved("confirm", Vacant, FALSE)
  ELSE Resolved("silent", The(hits), FALSE)
ByIdQuietly(hits, phone) ==
  IF Cardinality(hits) # 1 THEN Resolved("confirm", Vacant, FALSE)
  ELSE IF phone # {} /\ The(hits) \notin Named(phone)
         THEN Resolved("confirm", Vacant, TRUE)
  ELSE Resolved("silent", The(hits), FALSE)
(* The quoted id binds when one record carries it and the sender's phone     *)
(* does not point elsewhere.                                                 *)
ById(hits, phone) ==
  IF Cardinality(hits) # 1 THEN Resolved("confirm", Vacant, FALSE)
  ELSE IF phone # {} /\ The(hits) \notin Named(phone)
         THEN Resolved("confirm", The(hits), TRUE)
  ELSE Resolved("silent", The(hits), FALSE)

ByPhone(phone) ==
  IF Cardinality(phone) = 1 THEN Resolved("silent", The(phone), FALSE)
                            ELSE Resolved("confirm", Vacant, FALSE)

(* The name binds on a single clear hit.                                     *)
Near(c) == {r \in embedded : Likeness[c][r] >= MatchTau}
Clear(c, r) == \A o \in embedded \ {r} : Likeness[c][r] - Likeness[c][o] >= Margin
ByName(c) ==
  IF \E r \in Near(c) : Clear(c, r)
    THEN Resolved("silent", CHOOSE r \in Near(c) : Clear(c, r), FALSE)
  ELSE IF Near(c) # {} THEN Resolved("confirm", Vacant, FALSE)
  ELSE Nothing

Resolution(c, phone) ==
  IF told[c] # Vacant THEN ById(Hits(AsText[told[c]]), phone)
  ELSE IF phone # {} THEN ByPhone(phone)
  ELSE ByName(c)

(* One run: claim the extracted state, look the phone up, resolve, commit.   *)
Claim(c) ==
  /\ run[c] = Resting /\ told[c] \notin handled[c]
  /\ run' = [run EXCEPT ![c] =
       [at |-> "asked", raced |-> FALSE,
        phone |-> IF Sender[c] # Vacant /\ AsDigits[Sender[c]] # Vacant
                    THEN Hits(AsDigits[Sender[c]]) ELSE {}]]
  /\ UNCHANGED <<index, embedded, anchorVars, handled, outcome, snapshots, cited, aborts>>

Resolve(c) ==
  /\ run[c].at = "asked"
  /\ run' = [run EXCEPT ![c] = [at |-> "resolved", is |-> Resolution(c, run[c].phone)]]
  /\ UNCHANGED <<index, embedded, anchorVars, handled, outcome, snapshots, cited, aborts>>

(* What the model says the record refutes, kept when the record has it.      *)
Grounded(r, said) == {f \in said : f \in Fields /\ Holds(r, f)}

(* The snapshot of a content is filed once for the tenant, under the case    *)
(* that bound it first.                                                      *)
Frozen(r, c) == IF snapshots[r] = Vacant THEN [snapshots EXCEPT ![r] = c] ELSE snapshots

Cite(c, r, why) == [case |-> c, snapshot |-> r, why |-> why]

(* A citation hangs on an extraction: of fault, or of anchor_value. A value  *)
(* that only a reviewer stated has none, and nothing is cited.               *)
Citable(c, is, said, faulted) ==
  IF is.mode = "silent"
    THEN {Cite(c, is.object, f) : f \in {g \in Grounded(is.object, said) : faulted}}
    ELSE {Cite(c, is.object, "other sender") : d \in {c} \cap extracted}

(* The record is frozen, and what it refutes is cited and counted. said: the *)
(* record fields the model reports as refuted; faulted: whether the fault    *)
(* was extracted.                                                            *)
Record(c, said, faulted) ==
  LET is == run[c].is IN
  /\ run[c].at = "resolved"
  /\ IF is.object = Vacant
       THEN outcome' = [outcome EXCEPT ![c] = Outcome(is, FALSE)] /\ UNCHANGED <<snapshots, cited>>
       ELSE /\ snapshots' = Frozen(is.object, c)
            /\ cited' = cited \cup Citable(c, is, said, faulted)
            /\ outcome' = [outcome EXCEPT ![c] = Outcome(is,
                 IF is.mode = "silent" THEN Grounded(is.object, said) # {} ELSE c \in extracted)]
  /\ handled' = [handled EXCEPT ![c] = @ \cup {told[c]}]
  /\ run' = [run EXCEPT ![c] = Resting]
  /\ UNCHANGED <<index, embedded, anchorVars, aborts>>

(* The blob store, the model or the embedder fails: the transaction is gone, *)
(* the claim with it.                                                        *)
RunFails(c) ==
  /\ run[c] # Resting /\ aborts < MaxAborts
  /\ run' = [run EXCEPT ![c] = Resting] /\ aborts' = aborts + 1
  /\ UNCHANGED <<index, embedded, anchorVars, handled, outcome, snapshots, cited>>

ObjectsStep ==
  \/ \E file \in Files : UploadObjects(file)
  \/ \E c \in Cases : \/ \E v \in Anchors[c] : Tell(c, v) \/ Correct(c, v)
                      \/ Claim(c) \/ Resolve(c) \/ RunFails(c)
                      \/ \E said \in SUBSET Fields \cup {{"invented"}}, faulted \in BOOLEAN :
                           Record(c, said, faulted)

-----------------------------------------------------------------------------
ObjectsSpec == ObjectsInit /\ [][ObjectsStep]_objectVars

(* Uploads and runs interleave. A bind by the quoted id that no upload came  *)
(* across names the one record that carries the id, and not another than the *)
(* sender's phone; one that was raced may: the phone was read before.        *)
Bound(c) ==
  /\ run[c].at = "asked" /\ run'[c].at = "resolved"
  /\ run'[c].is.mode = "silent" /\ told[c] # Vacant
BySender(c) == IF Sender[c] = Vacant THEN {} ELSE Named(Hits(AsDigits[Sender[c]]))
BindsUnambiguous ==
  \A c \in Cases : Bound(c) /\ ~run[c].raced =>
    /\ Named(Hits(AsText[told[c]])) = {run'[c].is.object}
    /\ BySender(c) # {} => run'[c].is.object \in BySender(c)
BoundUnambiguous == [][BindsUnambiguous]_objectVars

(* A record the customer's anchors disagree on is kept as evidence: it is    *)
(* named and frozen, and cited on the case, or the case counts no            *)
(* contradiction, and that only when a reviewer has stated the anchor.       *)
(* Whatever is cited is frozen and holds the field it is cited for.          *)
DiscrepancyKept ==
  /\ \A c \in Cases : outcome[c].is.contradicts =>
       LET r == outcome[c].is.object IN
       /\ r # Vacant /\ snapshots[r] \in Cases
       /\ IF outcome[c].counts THEN Cite(c, r, "other sender") \in cited ELSE c \in corrected
  /\ \A cite \in cited :
       /\ snapshots[cite.snapshot] \in Cases
       /\ cite.why = "other sender" \/ (cite.why \in Fields /\ Holds(cite.snapshot, cite.why))

(* "store any discrepancy as contradicts citations" (elicit/stage.py:183).   *)
DiscrepancyCited ==
  \A c \in Cases : outcome[c].is.contradicts =>
    Cite(c, outcome[c].is.object, "other sender") \in cited
=============================================================================
