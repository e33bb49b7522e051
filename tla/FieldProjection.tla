---------------------------- MODULE FieldProjection ----------------------------
(***************************************************************************)
(* rebuild_field_current under concurrency.  An extraction, a backfill and *)
(* a reviewer's correction each append to a log and rebuild the projection *)
(* of the case in one transaction: DELETE every row of the case, INSERT    *)
(* the latest value of every path.  PostgreSQL runs them READ COMMITTED:   *)
(* each statement sees what was committed when it started, and a DELETE    *)
(* skips a row that another transaction deleted meanwhile.  What keeps the *)
(* projection honest is the primary key (tenant, case, field_path): an     *)
(* INSERT waits for a transaction that is deleting or inserting a row      *)
(* under its key, and fails if a live row is left there.                   *)
(***************************************************************************)
EXTENDS Integers, TLC

CONSTANTS Paths,
          Writers,    \* transactions that may run at the same time
          MaxTxs      \* bound: transactions in the whole history

ASSUME ProjectionAssumption == MaxTxs \in Nat

VARIABLES log,       \* committed entries of both logs
          rows,      \* field_current as stored: committed rows and their writers
          phase,     \* how far each transaction is
          tx,        \* the number of each writer's transaction
          own,       \* the entries it appended
          seen,      \* the rows its DELETE started from
          deleted,   \* the rows it deleted
          snapshot,  \* the log its INSERT started from
          seq        \* transactions so far: their numbers and the logs' seq

txVars == <<phase, tx, own, seen, deleted, snapshot>>
vars   == <<log, rows, txVars, seq>>

(* What a reader of field_current sees.                                    *)
Current == {<<r.path, r.entry>> : r \in rows}

(* An entry of either log: seq is its created_at.                          *)
Entries == [kind : {"extraction", "correction"}, path : Paths, seq : Nat]

PathsIn(entries) == {e.path : e \in entries}

Newest(entries) == CHOOSE e \in entries : \A d \in entries : d.seq <= e.seq

(* The latest correction of a path, else its latest extraction.            *)
Shown(entries, p) ==
  LET of(kind) == {e \in entries : e.path = p /\ e.kind = kind}
  IN IF of("correction") # {} THEN Newest(of("correction"))
     ELSE Newest(of("extraction"))

Latest(entries) == {<<p, Shown(entries, p)>> : p \in PathsIn(entries)}

PathsOf(rs) == {r.path : r \in rs}
Others(w)   == Writers \ {w}

Init ==
  /\ log = {} /\ rows = {} /\ seq = 0
  /\ phase = [w \in Writers |-> "idle"] /\ tx = [w \in Writers |-> 0]
  /\ own = [w \in Writers |-> {}] /\ seen = [w \in Writers |-> {}]
  /\ deleted = [w \in Writers |-> {}] /\ snapshot = [w \in Writers |-> {}]

(* record_extraction for every value of a run, or one record_correction.   *)
AppendLog(w, kind, ps) ==
  /\ phase[w] = "idle" /\ seq < MaxTxs
  /\ phase' = [phase EXCEPT ![w] = "appended"]
  /\ seq' = seq + 1
  /\ tx' = [tx EXCEPT ![w] = seq + 1]
  /\ own' = [own EXCEPT ![w] =
                {[kind |-> kind, path |-> p, seq |-> seq + 1] : p \in ps}]
  /\ UNCHANGED <<log, rows, seen, deleted, snapshot>>

(* DELETE FROM field_current WHERE case_id: the statement's snapshot ...   *)
DeleteStart(w) ==
  /\ phase[w] = "appended"
  /\ phase' = [phase EXCEPT ![w] = "deleting"]
  /\ seen' = [seen EXCEPT ![w] = rows]
  /\ UNCHANGED <<log, rows, tx, own, deleted, snapshot, seq>>

(* ... and its end: it waits for the row locks of the others and skips the *)
(* rows that are gone.                                                     *)
DeleteEnd(w) ==
  /\ phase[w] = "deleting"
  /\ \A v \in Others(w) : deleted[v] \cap seen[w] = {}
  /\ phase' = [phase EXCEPT ![w] = "deleted"]
  /\ deleted' = [deleted EXCEPT ![w] = seen[w] \cap rows]
  /\ UNCHANGED <<log, rows, tx, own, seen, snapshot, seq>>

InsertStart(w) ==
  /\ phase[w] = "deleted"
  /\ phase' = [phase EXCEPT ![w] = "inserting"]
  /\ snapshot' = [snapshot EXCEPT ![w] = log]
  /\ UNCHANGED <<log, rows, tx, own, seen, deleted, seq>>

(* INSERT ... SELECT: the projection of what was committed and its own.    *)
Inserted(w) == {[path |-> r[1], entry |-> r[2], tx |-> tx[w]] :
                  r \in Latest(snapshot[w] \cup own[w])}

(* No other open transaction holds a key the INSERT needs.                 *)
KeysFree(w) ==
  \A v \in Others(w) :
    /\ PathsOf(deleted[v]) \cap PathsOf(Inserted(w)) = {}
    /\ phase[v] = "inserted" => PathsOf(Inserted(v)) \cap PathsOf(Inserted(w)) = {}

\* a slip, for the mutation runs:
NoConflict(w) == FALSE
Conflict(w) == PathsOf(rows \ deleted[w]) \cap PathsOf(Inserted(w)) # {}

InsertEnd(w) ==
  /\ phase[w] = "inserting"
  /\ KeysFree(w) /\ ~Conflict(w)
  /\ phase' = [phase EXCEPT ![w] = "inserted"]
  /\ UNCHANGED <<log, rows, tx, own, seen, deleted, snapshot, seq>>

Forget(w) ==
  /\ phase' = [phase EXCEPT ![w] = "idle"]
  /\ own' = [own EXCEPT ![w] = {}] /\ seen' = [seen EXCEPT ![w] = {}]
  /\ deleted' = [deleted EXCEPT ![w] = {}]
  /\ snapshot' = [snapshot EXCEPT ![w] = {}]
  /\ UNCHANGED <<tx, seq>>

Commit(w) ==
  /\ phase[w] = "inserted"
  /\ log' = log \cup own[w]
  /\ rows' = (rows \ deleted[w]) \cup Inserted(w)
  /\ Forget(w)

(* The transaction rolls back: the key conflict, a deadlock, an error, a   *)
(* crash.  Nothing of it is left but the number it drew.                   *)
Rollback(w) ==
  /\ phase[w] # "idle"
  /\ Forget(w)
  /\ UNCHANGED <<log, rows>>

Next ==
  \E w \in Writers :
    \/ \E ps \in (SUBSET Paths) \ {{}} : AppendLog(w, "extraction", ps)
    \/ \E p \in Paths : AppendLog(w, "correction", {p})
    \/ DeleteStart(w) \/ DeleteEnd(w) \/ InsertStart(w) \/ InsertEnd(w)
    \/ Commit(w) \/ Rollback(w)

Spec == Init /\ [][Next]_vars

(* The writers are alike, and so are the paths.                            *)
Symmetric == Permutations(Writers) \cup Permutations(Paths)

-----------------------------------------------------------------------------
Phases == {"idle", "appended", "deleting", "deleted", "inserting", "inserted"}

TypeOK ==
  /\ log \subseteq Entries
  /\ rows \subseteq [path : Paths, entry : Entries, tx : Nat]
  /\ phase \in [Writers -> Phases] /\ tx \in [Writers -> Nat] /\ seq \in Nat
  /\ own \in [Writers -> SUBSET Entries]
  /\ \A w \in Writers : deleted[w] \subseteq seen[w] /\ snapshot[w] \subseteq log

(* The projection never lies: whatever rebuilds overlapped or rolled back, *)
(* the stored rows show the latest correction, else the latest extraction, *)
(* of every committed path, and nothing else.                              *)
ProjectionIsLatest == Current = Latest(log)
=============================================================================
