------------------------------- MODULE Minting -------------------------------
(* Minting a head: facts that fit no column are filed under the escape heads *)
(* ("other", "description"); a scan clusters them, has the model name each   *)
(* cluster that recurs, registers the head and re-extracts the cases.        *)
(* schema/mint_scan.py, schema/pii.py, queue.mint_scan, the vocabulary part  *)
(* of extract/stage.py and the minted_head section of store/api.py.          *)
(*                                                                           *)
(* A row of the emergent log is never taken back: a fact that moves to a     *)
(* minted column leaves its row under "other" current (FieldProjection), so  *)
(* the next scan reads it again. Each value is a field of its own.           *)
EXTENDS Integers, FiniteSets

CONSTANTS
  Stories,          \* the cases, by the facts they state
  Facts, States,    \* the values; States[s]: those the text of s states
  Profiled,         \* the values profile_value lets into an escape head
  Alike,            \* the pairs of values with a cosine of MINT_TAU or more
  Names,            \* what the model may call a cluster
  Forbidden,        \* mint_scan._FORBIDDEN and the seed vocabulary
  ProtectedNames,   \* the names pii flags, and the values
  ProtectedFacts,
  PromoteHeadN, MaxExamples,
  MaxScans, MaxKills  \* bounds: scans queued, processes killed

ASSUME MintingAssumption ==
  /\ States \in [Stories -> SUBSET Facts] /\ Profiled \subseteq Facts
  /\ Alike \subseteq Facts \X Facts /\ IsFiniteSet(Stories) /\ IsFiniteSet(Facts)
  /\ PromoteHeadN \in Nat \ {0} /\ MaxExamples \in Nat \ {0}
  /\ "other" \notin Names /\ MaxScans \in Nat /\ MaxKills \in Nat

VARIABLES
  filed,      \* field_extraction: per case and value, the heads it stands under
  known,      \* the vocabularies the extract ledger holds for a case
  wanted,     \* extract jobs waiting
  reading,    \* per case, the extraction in progress: the vocabulary it read
  minted,     \* minted_head: "no", "column" or "barred"
  behind,     \* the cases a minted head was born from
  scan,       \* the scan in progress
  scans, kills

mintVars == <<filed, known, wanted, reading, minted, behind, scan, scans, kills>>

Asleep == [at |-> "rest"]
NotReading == [on |-> FALSE]

MintInit ==
  /\ filed = [s \in Stories |-> [f \in States[s] |-> {}]]
  /\ known = [s \in Stories |-> {}] /\ wanted = Stories
  /\ reading = [s \in Stories |-> NotReading]
  /\ minted = [n \in Names |-> "no"] /\ behind = [n \in Names |-> {}]
  /\ scan = Asleep /\ scans = 0 /\ kills = 0

-----------------------------------------------------------------------------
(* Extraction. The ledger key holds the vocabulary, so a new head makes the  *)
(* same text new work.                                                       *)
\* list_minted_heads leaves the barred ones out
Vocabulary == {n \in Names : minted[n] = "column"}
\* a slip, for the mutation runs:
LedgerKeyBlind(words) == {}
LedgerKey(words) == words

Read(s) ==
  /\ s \in wanted /\ reading[s] = NotReading
  /\ wanted' = wanted \ {s}
  /\ reading' = [reading EXCEPT ![s] =
       IF LedgerKey(Vocabulary) \in known[s] THEN NotReading
       ELSE [on |-> TRUE, words |-> Vocabulary]]
  /\ UNCHANGED <<filed, known, minted, behind, scan, scans, kills>>

(* Where the model may file a value: under a word it was given, or under an  *)
(* escape head if it is concrete.                                            *)
Homes(f, words) == words \cup (IF f \in Profiled THEN {"other"} ELSE {})
Under(s, f, home) == IF home[f] = "none" THEN filed[s][f] ELSE filed[s][f] \cup {home[f]}

File(s, home) ==
  /\ reading[s].on
  /\ \A f \in States[s] : home[f] \in Homes(f, reading[s].words) \cup {"none"}
  /\ filed' = [filed EXCEPT ![s] = [f \in States[s] |-> Under(s, f, home)]]
  /\ known' = [known EXCEPT ![s] = @ \cup {LedgerKey(reading[s].words)}]
  /\ reading' = [reading EXCEPT ![s] = NotReading]
  /\ UNCHANGED <<wanted, minted, behind, scan, scans, kills>>

-----------------------------------------------------------------------------
(* The scan: one transaction per tenant, and the deferrals after it.         *)
Escaped == {f \in Profiled : \E s \in Stories : f \in States[s] /\ "other" \in filed[s][f]}
\* the rows of a cluster, and the cases they come from
Stating(group) ==
  UNION {{<<s, f>> : f \in {g \in group \cap States[s] : "other" \in filed[s][g]}}
           : s \in Stories}
CasesIn(rows) == {row[1] : row \in rows}

Linked(f, g) == <<f, g>> \in Alike \/ <<g, f>> \in Alike
Closed(group, all) == \A f \in group : \A g \in all : Linked(f, g) => g \in group
(* The clusters are the connected components of the similarity graph.        *)
Clusters(all) ==
  {group \in SUBSET all \ {{}} :
     /\ Closed(group, all)
     /\ \A part \in SUBSET group \ {{}, group} : ~Closed(part, all)}

Recurs(rows) == Cardinality(CasesIn(rows)) >= PromoteHeadN

StartScan ==
  /\ scan = Asleep /\ scans < MaxScans
  /\ scans' = scans + 1
  /\ scan' = [at |-> "naming", left |-> {g \in Clusters(Escaped) : Recurs(Stating(g))},
              from |-> [g \in Clusters(Escaped) |-> Stating(g)],
              taken |-> Vocabulary, new |-> [n \in {} |-> "no"], born |-> [n \in {} |-> {}]]
  /\ UNCHANGED <<filed, known, wanted, reading, minted, behind, kills>>

Largest(groups) ==
  {g \in groups : \A o \in groups : Cardinality(scan.from[o]) <= Cardinality(scan.from[g])}

(* What the floor sees: the name, and the values of the first few rows, in   *)
(* no order.                                                                 *)
Samples(group) ==
  LET rows == scan.from[group]
      some == {few \in SUBSET rows : Cardinality(few) = IF Cardinality(rows) < MaxExamples
                                         THEN Cardinality(rows) ELSE MaxExamples} IN
  {{row[2] : row \in few} : few \in some}
Floor(name, shown) == name \in ProtectedNames \/ shown \cap ProtectedFacts # {}

Reserved(name) == name \in Forbidden \/ name \in scan.taken

(* The model calls the next cluster name, and flags it or not.               *)
NameCluster(group, name, shown, flagged) ==
  /\ scan.at = "naming" /\ group \in Largest(scan.left) /\ shown \in Samples(group)
  /\ scan' =
       IF Reserved(name) THEN [scan EXCEPT !.left = @ \ {group}]
       ELSE LET barred == Floor(name, shown) \/ flagged IN
            [scan EXCEPT !.left = @ \ {group}, !.taken = @ \cup {name},
               !.new = [n \in DOMAIN @ \cup {name} |->
                          IF n = name THEN (IF barred THEN "barred" ELSE "column") ELSE @[n]],
               !.born = [n \in DOMAIN @ \cup {name} |->
                          IF n = name THEN CasesIn(scan.from[group]) ELSE @[n]]]
  /\ UNCHANGED <<filed, known, wanted, reading, minted, behind, scans, kills>>

\* register_minted_head: the row is inserted, or overwritten
Register(new) == [n \in Names |-> IF n \in DOMAIN new THEN new[n] ELSE minted[n]]
CommitScan ==
  /\ scan.at = "naming" /\ scan.left = {}
  /\ minted' = Register(scan.new)
  /\ behind' = [n \in Names |-> IF n \in DOMAIN scan.born THEN scan.born[n] ELSE behind[n]]
  /\ scan' = [at |-> "deferring",
              cases |-> UNION {scan.born[n] : n \in {m \in DOMAIN scan.new :
                                                        scan.new[m] = "column"}}]
  /\ UNCHANGED <<filed, known, wanted, reading, scans, kills>>

(* The cases are re-extracted one deferral at a time, each its own commit.   *)
Rehome(s) ==
  /\ scan.at = "deferring" /\ s \in scan.cases
  /\ wanted' = wanted \cup {s}
  /\ scan' = [scan EXCEPT !.cases = @ \ {s}]
  /\ UNCHANGED <<filed, known, reading, minted, behind, scans, kills>>
EndScan ==
  /\ scan.at = "deferring" /\ scan.cases = {}
  /\ scan' = Asleep
  /\ UNCHANGED <<filed, known, wanted, reading, minted, behind, scans, kills>>

(* The worker dies: a transaction is rolled back and an extract job is taken *)
(* again; the deferrals that were left are lost.                             *)
Kill ==
  /\ kills < MaxKills /\ (scan # Asleep \/ \E s \in Stories : reading[s].on)
  /\ wanted' = wanted \cup {s \in Stories : reading[s].on}
  /\ reading' = [s \in Stories |-> NotReading]
  /\ scan' = Asleep /\ kills' = kills + 1
  /\ UNCHANGED <<filed, known, minted, behind, scans>>

MintStep ==
  \/ \E s \in Stories :
       \/ Read(s) \/ Rehome(s)
       \/ \E home \in [States[s] -> Names \cup {"other", "none"}] : File(s, home)
  \/ StartScan \/ CommitScan \/ EndScan \/ Kill
  \/ \E group \in SUBSET Facts \ {{}}, name \in Names \cup Forbidden, flagged \in BOOLEAN :
       \E shown \in SUBSET group : NameCluster(group, name, shown, flagged)

-----------------------------------------------------------------------------
MintSpec == MintInit /\ [][MintStep]_mintVars

(* A column was earned: it recurred over PromoteHeadN cases, and the floor   *)
(* has nothing against its name.                                             *)
ColumnsEarned ==
  \A n \in Names : minted[n] = "column" =>
    /\ Cardinality(behind[n]) >= PromoteHeadN
    /\ n \notin ProtectedNames

(* While no worker dies, a case a column was born from is re-extracted with  *)
(* the column in its vocabulary, or about to be: minting reaches history.    *)
Awaited(s) == \/ s \in wanted
              \/ scan.at = "deferring" /\ s \in scan.cases
Rehomed ==
  \A n \in Vocabulary : \A s \in behind[n] :
    \/ Awaited(s)
    \/ reading[s].on /\ n \in reading[s].words
    \/ \E words \in known[s] : n \in words
HistoryRehomed == kills = 0 => Rehomed

(* A minted column was earned, and reaches the cases it was born from.       *)
MintedRight == ColumnsEarned /\ HistoryRehomed

(* "so the minted column RE-HOMES history" (queue.py:290), as it stands: a   *)
(* worker that dies after the heads are committed re-homes no more of it.    *)
MintRehomes == Rehomed

(* The comment of mint_for_tenant: a name once taken is reserved, "nor can a *)
(* re-scan" mint it. It fails for the barred ones, which no scan knows.      *)
BarredStays ==
  [][\A n \in Names : minted[n] = "barred" => minted'[n] = "barred"]_mintVars

(* The docstring of mint_for_tenant: minting the same cluster again upserts  *)
(* the same head. It fails: the facts stay under "other" and the name is     *)
(* taken, so the model finds another.                                        *)
NoTwinHeads ==
  \A m, n \in Vocabulary : behind[m] # {} /\ behind[m] = behind[n] => m = n
=============================================================================
