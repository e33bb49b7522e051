------------------------------- MODULE Tuning -------------------------------
(***************************************************************************)
(* The tuning loop: the digest's signal becomes a drafted prompt-delta, an *)
(* operator's script makes a branch and a pull request of it, a human      *)
(* merges it, a restart of the worker loads the merged prompt, and the     *)
(* extract stage runs each case once per PROMPT_VERSION: the version is    *)
(* part of its ledger key, and stands for the prompt.                      *)
(*                                                                         *)
(* A prompt is its version, the n of "+tn", and its active addenda.  The   *)
(* script works on whatever is checked out and may fail between two of its *)
(* steps, leaving the clone as it is.  Merging is GitHub's and a human's:  *)
(* both sides append to one list and edit one line, and the result has the *)
(* addenda of both and the higher version.                                 *)
(***************************************************************************)
EXTENDS Integers, Sequences, FiniteSets, FiniteSetsExt

CONSTANTS
  Deltas,      \* the clarifications that may be drafted
  NoDraft,     \* no delta: no signal, or an answer that was no draft
  Answers,     \* what the local model may answer: deltas, NoDraft
  Transitions, Notes,      \* the digest: flips, and notes with a comment
  Inline,      \* deltas an operator may pass by hand
  Complaints,
  MaxPulls, MaxFailures    \* bounds on the history explored

ASSUME TuningAssumption ==
  /\ IsFiniteSet(Deltas) /\ NoDraft \notin Deltas /\ Inline \subseteq Deltas
  /\ Answers \subseteq Deltas \cup {NoDraft}
  /\ MaxPulls \in Nat /\ MaxFailures \in Nat

VARIABLES
  head,        \* the prompt committed in the branch that is checked out
  edits,       \* the prompt in the working tree
  local,       \* the prompt on the clone's main
  script,      \* how far open_tuning_pr is
  main,        \* the prompt on the remote's main
  pulls,       \* what each open pull request holds
  opened,      \* pull requests so far
  failures,
  loaded,      \* what the worker imported when it started
  read,        \* ledger: the runs done; with the addenda of the prompt they used
  orderly      \* history: every script started from the merged prompt, no pull open

cloneVars  == <<head, edits, local, script>>
remoteVars == <<main, pulls, opened>>
engineVars == <<loaded, read>>
tuningVars == <<cloneVars, remoteVars, engineVars, failures, orderly>>

Core == [version |-> 0, addenda |-> {}]     \* tuning_addenda.json is [] on main
NoScript == [phase |-> "idle", delta |-> NoDraft]

TuningInit ==
  /\ head = Core /\ edits = Core /\ local = Core /\ script = NoScript
  /\ main = Core /\ pulls = {} /\ opened = 0 /\ failures = 0
  /\ loaded = Core /\ read = {}
  /\ orderly = TRUE

-----------------------------------------------------------------------------
(* draft_prompt_delta: the strongest flips and the first notes, put to the *)
(* local model; without either there is no signal to draft from.           *)
MaxShown == 5
Shown(signal) == SubSeq(signal, 1, IF Len(signal) < MaxShown THEN Len(signal) ELSE MaxShown)
Draft(answer) ==
  IF Shown(Transitions) = <<>> /\ Shown(Notes) = <<>> THEN NoDraft ELSE answer

-----------------------------------------------------------------------------
(* open_tuning_pr.                                                         *)

(* It refuses a dirty tree, ...                                            *)
CleanTree == edits = head

(* ... an empty draft, and branches from whatever is checked out.          *)
Begin(delta) ==
  /\ script = NoScript /\ opened < MaxPulls
  /\ delta # NoDraft
  /\ CleanTree
  /\ script' = [phase |-> "branched", delta |-> delta]
  /\ orderly' = (orderly /\ head = main /\ pulls = {})
  /\ UNCHANGED <<head, edits, local, remoteVars, engineVars, failures>>

(* It appends the addendum, ...                                            *)
AppendAddendum ==
  /\ script.phase = "branched"
  /\ edits' = [edits EXCEPT !.addenda = @ \cup {script.delta}]
  /\ script' = [script EXCEPT !.phase = "appended"]
  /\ UNCHANGED <<head, local, remoteVars, engineVars, failures, orderly>>

(* _bump_version: "+t1", or one more.                                      *)
\* a slip, for the mutation runs:
BumpedToFirst(version) == 1
Bumped(version) == version + 1

BumpVersion ==
  /\ script.phase = "appended"
  /\ edits' = [edits EXCEPT !.version = Bumped(@)]
  /\ script' = [script EXCEPT !.phase = "bumped"]
  /\ UNCHANGED <<head, local, remoteVars, engineVars, failures, orderly>>

(* ... commits, pushes and opens the pull request; the branch stays        *)
(* checked out.                                                            *)
Commit ==
  /\ script.phase = "bumped"
  /\ head' = edits
  /\ script' = [script EXCEPT !.phase = "committed"]
  /\ UNCHANGED <<edits, local, remoteVars, engineVars, failures, orderly>>

Open ==
  /\ script.phase = "committed" /\ opened < MaxPulls
  /\ pulls' = pulls \cup {head} /\ opened' = opened + 1
  /\ script' = NoScript
  /\ UNCHANGED <<head, edits, local, main, engineVars, failures, orderly>>

(* A command fails: the script is over, and undoes nothing.                *)
Fail ==
  /\ script # NoScript /\ failures < MaxFailures
  /\ failures' = failures + 1
  /\ script' = NoScript
  /\ UNCHANGED <<head, edits, local, remoteVars, engineVars, orderly>>

-----------------------------------------------------------------------------
(* The operator and the reviewers of the pull requests.                    *)

(* "Commit/stash first".                                                   *)
Stash ==
  /\ script = NoScript /\ edits # head
  /\ edits' = head
  /\ UNCHANGED <<head, local, script, remoteVars, engineVars, failures, orderly>>

(* "To restore your local checkout", and a pull.                           *)
Restore ==
  /\ script = NoScript /\ edits = head
  /\ head' = local /\ edits' = local
  /\ UNCHANGED <<local, script, remoteVars, engineVars, failures, orderly>>

Pull ==
  /\ script = NoScript /\ edits = head /\ head = local
  /\ local' = main /\ head' = main /\ edits' = main
  /\ UNCHANGED <<script, remoteVars, engineVars, failures, orderly>>

MergePull(p) ==
  /\ p \in pulls /\ pulls' = pulls \ {p}
  /\ main' = [version |-> Max({main.version, p.version}),
              addenda |-> main.addenda \cup p.addenda]
  /\ UNCHANGED <<cloneVars, opened, engineVars, failures, orderly>>

Close(p) ==
  /\ p \in pulls /\ pulls' = pulls \ {p}
  /\ UNCHANGED <<cloneVars, main, opened, engineVars, failures, orderly>>

-----------------------------------------------------------------------------
(* The worker.                                                             *)

(* Deployed and restarted: _TUNING_ADDENDA and PROMPT_VERSION are read at  *)
(* import.                                                                 *)
Restart ==
  /\ loaded' = main
  /\ UNCHANGED <<cloneVars, remoteVars, read, failures, orderly>>

(* extract_case: claim_stage skips what was done under this version.       *)
Done(c, version) == \E r \in read : r.case = c /\ r.version = version

Extract(c) ==
  /\ ~Done(c, loaded.version)
  /\ read' = read \cup {[case |-> c, version |-> loaded.version, addenda |-> loaded.addenda]}
  /\ UNCHANGED <<cloneVars, remoteVars, loaded, failures, orderly>>

-----------------------------------------------------------------------------
TuningStep ==
  \/ \E answer \in Answers : Begin(Draft(answer))
  \/ \E delta \in Inline : Begin(delta)
  \/ AppendAddendum \/ BumpVersion \/ Commit \/ Open \/ Fail
  \/ Stash \/ Restore \/ Pull
  \/ \E p \in pulls : MergePull(p) \/ Close(p)
  \/ Restart
  \/ \E c \in Complaints : Extract(c)

TuningSpec == TuningInit /\ [][TuningStep]_tuningVars

-----------------------------------------------------------------------------
(* A case the worker skips as done was read with the addenda it has loaded *)
(* now.                                                                    *)
SkipIsSound ==
  \A r \in read : r.version = loaded.version => r.addenda = loaded.addenda

(* "The PR is only the tuning delta".                                      *)
PullIsOneDelta == \A p \in pulls : Cardinality(p.addenda \ main.addenda) <= 1

(* Both hold while each script starts from the merged prompt with no other *)
(* pull request open: then a version names one prompt, whatever fails in   *)
(* between.                                                                *)
TunedInOrder == orderly => SkipIsSound /\ PullIsOneDelta
=============================================================================
