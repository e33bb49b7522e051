--------------------------- MODULE CatalogueProofs ---------------------------
(* What the tenant's stores keep and what its edge lets in, for every value  *)
(* of the constants: the projection of the field logs (FieldProjection), the *)
(* business's own records (Objects), the minted columns (Minting), the       *)
(* portal's edge (PublicEdge), and the chats it reads (ChatExport). The five *)
(* share no state; each has its own invariant and its own theorems.          *)
EXTENDS FieldProjection, Objects, Minting, PublicEdge, ChatExport,
        FiniteSetTheorems, SequenceTheorems, WellFoundedInduction, TLAPS

-----------------------------------------------------------------------------
(* FieldProjection. The projection is the latest of the logs for every       *)
(* number of overlapping transactions and every set of field paths.          *)

(* What a path shows depends on the entries of that path only.             *)
LEMMA ShownLocal ==
  ASSUME NEW E, NEW F, NEW p, {e \in E : e.path = p} = {e \in F : e.path = p}
  PROVE  Shown(E, p) = Shown(F, p)
  <1>1. \A kind : {e \in E : e.path = p /\ e.kind = kind}
                    = {e \in F : e.path = p /\ e.kind = kind}
    OBVIOUS
  <1> QED
    BY <1>1 DEF Shown

(* The paths an INSERT writes are those of the log it sees and its own.    *)
LEMMA InsertedPaths ==
  ASSUME NEW w
  PROVE  PathsOf(Inserted(w)) = PathsIn(snapshot[w] \cup own[w])
  <1> DEFINE mine == snapshot[w] \cup own[w]
  <1>1. ASSUME NEW p \in PathsIn(mine) PROVE p \in PathsOf(Inserted(w))
    <2> DEFINE r == <<p, Shown(mine, p)>>
    <2>1. r \in Latest(mine)
      BY DEF Latest, PathsIn
    <2>2. [path |-> r[1], entry |-> r[2], tx |-> tx[w]] \in Inserted(w)
      BY <2>1 DEF Inserted
    <2>3. [path |-> r[1], entry |-> r[2], tx |-> tx[w]].path = p
      OBVIOUS
    <2> QED
      BY <2>2, <2>3 DEF PathsOf
  <1>2. ASSUME NEW r \in Inserted(w) PROVE r.path \in PathsIn(mine)
    BY DEF Inserted, Latest, PathsIn
  <1> QED
    BY <1>1, <1>2 DEF PathsOf

-----------------------------------------------------------------------------
(* The inductive invariant.                                                *)

RowsShape ==
  /\ log \subseteq Entries
  /\ phase \in [Writers -> Phases] /\ tx \in [Writers -> Nat] /\ seq \in Nat
  /\ own \in [Writers -> SUBSET Entries]
  /\ seen = [w \in Writers |-> seen[w]]
  /\ deleted = [w \in Writers |-> deleted[w]]
  /\ snapshot = [w \in Writers |-> snapshot[w]]

(* A deleted row is still stored until its transaction ends, and has one   *)
(* deleter.                                                                *)
Locks ==
  \A w \in Writers :
    /\ deleted[w] \subseteq rows
    /\ phase[w] \in {"idle", "appended", "deleting"} => deleted[w] = {}
    /\ \A v \in Others(w) : deleted[v] \cap deleted[w] = {}

(* A running INSERT sees a part of the log that has every path it deleted; *)
(* nothing on a path it deleted was committed since.                       *)
Snapshots ==
  \A w \in Writers : phase[w] \in {"inserting", "inserted"} =>
    /\ snapshot[w] \subseteq log
    /\ PathsOf(deleted[w]) \subseteq PathsIn(snapshot[w])
    /\ \A e \in log \ snapshot[w] : e.path \notin PathsOf(deleted[w])

(* A finished INSERT owns its keys: no stored row, no deleter and no other *)
(* finished INSERT has one of them, and nothing on its paths was committed *)
(* since it started.                                                       *)
OneRowPerPath ==
  \A w \in Writers : phase[w] = "inserted" =>
    /\ PathsOf(rows \ deleted[w]) \cap PathsIn(snapshot[w] \cup own[w]) = {}
    /\ \A v \in Others(w) :
         /\ PathsOf(deleted[v]) \cap PathsIn(snapshot[w] \cup own[w]) = {}
         /\ phase[v] = "inserted" =>
              PathsIn(snapshot[v] \cup own[v]) \cap PathsIn(snapshot[w] \cup own[w]) = {}
    /\ \A e \in log \ snapshot[w] : e.path \notin PathsIn(snapshot[w] \cup own[w])

RowsInv == RowsShape /\ Locks /\ Snapshots /\ OneRowPerPath /\ ProjectionIsLatest

-----------------------------------------------------------------------------
(* A step is one of the eight, or a stutter.                               *)
LEMMA NextSplit ==
  ASSUME [Next]_vars
  PROVE  \/ \E w \in Writers :
              \/ \E kind \in {"extraction", "correction"}, ps \in SUBSET Paths :
                   AppendLog(w, kind, ps)
              \/ DeleteStart(w) \/ DeleteEnd(w) \/ InsertStart(w) \/ InsertEnd(w)
              \/ Commit(w) \/ Rollback(w)
         \/ UNCHANGED vars
  <1>1. \A p \in Paths : {p} \in SUBSET Paths
    OBVIOUS
  <1>2. (SUBSET Paths) \ {{}} \subseteq SUBSET Paths
    OBVIOUS
  <1> QED
    BY <1>1, <1>2, Zenon DEF Next

LEMMA RowsShapeStep == RowsShape /\ [Next]_vars => RowsShape'
  <1> SUFFICES ASSUME RowsShape, [Next]_vars PROVE RowsShape'
    OBVIOUS
  <1> USE DEF RowsShape, Phases
  <1>1. ASSUME NEW w \in Writers, NEW kind \in {"extraction", "correction"},
               NEW ps \in SUBSET Paths, AppendLog(w, kind, ps)
        PROVE  RowsShape'
    <2>1. {[kind |-> kind, path |-> p, seq |-> seq + 1] : p \in ps} \subseteq Entries
      BY DEF Entries
    <2> QED
      BY <1>1, <2>1 DEF AppendLog
  <1>2. ASSUME NEW w \in Writers,
               DeleteStart(w) \/ DeleteEnd(w) \/ InsertStart(w) \/ InsertEnd(w)
        PROVE  RowsShape'
    BY <1>2 DEF DeleteStart, DeleteEnd, InsertStart, InsertEnd
  <1>3. ASSUME NEW w \in Writers, Commit(w) PROVE RowsShape'
    BY <1>3 DEF Commit, Forget
  <1>4. ASSUME NEW w \in Writers, Rollback(w) PROVE RowsShape'
    BY <1>4 DEF Rollback, Forget
  <1>5. CASE UNCHANGED vars
    BY <1>5 DEF vars, txVars
  <1> QED
    BY <1>1, <1>2, <1>3, <1>4, <1>5, NextSplit

(* The rows a commit leaves are the projection of the log it leaves.       *)
LEMMA CommitProjects ==
  ASSUME RowsInv, NEW w \in Writers, Commit(w)
  PROVE  ProjectionIsLatest'
  <1> DEFINE mine == snapshot[w] \cup own[w]
  <1> USE DEF RowsInv
  <1>1. /\ phase[w] = "inserted" /\ log' = log \cup own[w]
        /\ rows' = (rows \ deleted[w]) \cup Inserted(w)
    BY DEF Commit
  <1>2. /\ snapshot[w] \subseteq log
        /\ PathsOf(deleted[w]) \subseteq PathsIn(snapshot[w])
        /\ PathsOf(rows \ deleted[w]) \cap PathsIn(mine) = {}
        /\ \A e \in log \ snapshot[w] : e.path \notin PathsIn(mine)
    BY <1>1 DEF Snapshots, OneRowPerPath
  <1>3. ASSUME NEW p \in PathsIn(mine)
        PROVE  Shown(log', p) = Shown(mine, p)
    <2>1. {e \in log' : e.path = p} = {e \in mine : e.path = p}
      BY <1>1, <1>2
    <2> QED
      BY <2>1, ShownLocal
  <1>4. ASSUME NEW p, p \notin PathsIn(mine)
        PROVE  Shown(log', p) = Shown(log, p)
    <2>1. {e \in log' : e.path = p} = {e \in log : e.path = p}
      BY <1>1, <1>4 DEF PathsIn
    <2> QED
      BY <2>1, ShownLocal
  <1>5. Current = {<<p, Shown(log, p)>> : p \in PathsIn(log)}
    BY DEF ProjectionIsLatest, Latest, PathsIn
  <1>6. ASSUME NEW r \in rows'
        PROVE  r.path \in PathsIn(log') /\ r.entry = Shown(log', r.path)
    <2>1. CASE r \in Inserted(w)
      <3>1. PICK p \in PathsIn(mine) : r.path = p /\ r.entry = Shown(mine, p)
        <4>1. PICK q \in Latest(mine) :
                r = [path |-> q[1], entry |-> q[2], tx |-> tx[w]]
          BY <2>1 DEF Inserted
        <4>2. PICK p \in PathsIn(mine) : q = <<p, Shown(mine, p)>>
          BY <4>1 DEF Latest, PathsIn
        <4> QED
          BY <4>1, <4>2
      <3>2. p \in PathsIn(log')
        BY <1>1, <1>2 DEF PathsIn
      <3> QED
        BY <1>3, <3>1, <3>2
    <2>2. CASE r \in rows \ deleted[w]
      <3>1. r.path \notin PathsIn(mine)
        BY <1>2, <2>2 DEF PathsOf
      <3>2. <<r.path, r.entry>> \in Current
        BY <2>2 DEF Current
      <3>3. r.path \in PathsIn(log) /\ r.entry = Shown(log, r.path)
        BY <1>5, <3>2
      <3>4. r.path \in PathsIn(log')
        BY <1>1, <3>3 DEF PathsIn
      <3> QED
        BY <1>4, <3>1, <3>3, <3>4
    <2> QED
      BY <1>1, <1>6, <2>1, <2>2
  <1>7. ASSUME NEW p \in PathsIn(log')
        PROVE  \E r \in rows' : r.path = p /\ r.entry = Shown(log', p)
    <2>1. CASE p \in PathsIn(mine)
      <3>1. <<p, Shown(mine, p)>> \in Latest(mine)
        BY <2>1 DEF Latest, PathsIn
      <3> DEFINE r == [path |-> p, entry |-> Shown(mine, p), tx |-> tx[w]]
      <3>2. r \in Inserted(w)
        BY <3>1 DEF Inserted
      <3>3. r.path = p /\ r.entry = Shown(log', p)
        BY <1>3, <2>1
      <3> HIDE DEF r
      <3> QED
        BY <1>1, <3>2, <3>3
    <2>2. CASE p \notin PathsIn(mine)
      <3>1. p \in PathsIn(log)
        BY <1>1, <2>2 DEF PathsIn
      <3>2. PICK r \in rows : <<r.path, r.entry>> = <<p, Shown(log, p)>>
        BY <1>5, <3>1 DEF Current
      <3>3. r \notin deleted[w]
        BY <1>2, <2>2, <3>2 DEF PathsOf, PathsIn
      <3> QED
        BY <1>1, <1>4, <2>2, <3>2, <3>3
    <2> QED
      BY <2>1, <2>2
  <1>8. Current' = {<<p, Shown(log', p)>> : p \in PathsIn(log')}
    BY <1>6, <1>7 DEF Current
  <1> QED
    BY <1>8 DEF ProjectionIsLatest, Latest, PathsIn

LEMMA RowsInvStep == RowsInv /\ [Next]_vars => RowsInv'
  <1> SUFFICES ASSUME RowsInv, [Next]_vars PROVE RowsInv'
    OBVIOUS
  <1>0. RowsShape'
    BY RowsShapeStep DEF RowsInv
  <1> USE DEF RowsInv
  (* A step that stores nothing and keeps the locks and snapshots of those *)
  (* that hold some.                                                       *)
  <1>1. ASSUME NEW w \in Writers, NEW kind, NEW ps, AppendLog(w, kind, ps) PROVE RowsInv'
    <2>1. /\ UNCHANGED <<log, rows, deleted, snapshot>>
          /\ phase[w] = "idle" /\ phase'[w] = "appended"
          /\ \A v \in Others(w) : phase'[v] = phase[v] /\ own'[v] = own[v]
      BY <1>1 DEF AppendLog, RowsShape, Others
    <2>2. ProjectionIsLatest'
      BY <2>1 DEF ProjectionIsLatest, Current, Latest, PathsIn
    <2>3. Locks'
      <3>1. ASSUME NEW u \in Writers,
                   phase'[u] \in {"idle", "appended", "deleting"}
            PROVE  deleted[u] = {}
        <4>1. phase[u] \in {"idle", "appended", "deleting"}
          BY <2>1, <3>1 DEF Others
        <4> QED
          BY <4>1 DEF Locks
      <3> QED
        BY <2>1, <3>1 DEF Locks
    <2>4. Snapshots'
      BY <2>1 DEF Snapshots, Others
    <2>5. OneRowPerPath'
      BY <2>1 DEF OneRowPerPath, Others
    <2> QED
      BY <1>0, <2>2, <2>3, <2>4, <2>5
  <1>2. ASSUME NEW w \in Writers, DeleteStart(w) PROVE RowsInv'
    <2>1. /\ UNCHANGED <<log, rows, deleted, snapshot, own>>
          /\ phase[w] = "appended" /\ phase'[w] = "deleting"
          /\ \A v \in Others(w) : phase'[v] = phase[v]
      BY <1>2 DEF DeleteStart, RowsShape, Others
    <2>2. ProjectionIsLatest'
      BY <2>1 DEF ProjectionIsLatest, Current, Latest, PathsIn
    <2>3. Locks'
      <3>1. ASSUME NEW u \in Writers,
                   phase'[u] \in {"idle", "appended", "deleting"}
            PROVE  deleted[u] = {}
        <4>1. phase[u] \in {"idle", "appended", "deleting"}
          BY <2>1, <3>1 DEF Others
        <4> QED
          BY <4>1 DEF Locks
      <3> QED
        BY <2>1, <3>1 DEF Locks
    <2>4. Snapshots'
      BY <2>1 DEF Snapshots, Others
    <2>5. OneRowPerPath'
      BY <2>1 DEF OneRowPerPath, Others
    <2> QED
      BY <1>0, <2>2, <2>3, <2>4, <2>5
  <1>3. ASSUME NEW w \in Writers, DeleteEnd(w) PROVE RowsInv'
    <2>1. /\ UNCHANGED <<log, rows, snapshot, own>>
          /\ phase[w] = "deleting" /\ phase'[w] = "deleted"
          /\ deleted'[w] = seen[w] \cap rows
          /\ \A v \in Others(w) : /\ phase'[v] = phase[v] /\ deleted'[v] = deleted[v]
                                  /\ deleted[v] \cap seen[w] = {}
      BY <1>3 DEF DeleteEnd, RowsShape, Others
    <2>2. ProjectionIsLatest'
      BY <2>1 DEF ProjectionIsLatest, Current, Latest, PathsIn
    <2>3. Locks'
      BY <2>1 DEF Locks, Others
    <2>4. Snapshots'
      BY <2>1 DEF Snapshots, Others
    (* The rows under the keys of a finished INSERT are locked by it.      *)
    <2>5. ASSUME NEW v \in Others(w), phase[v] = "inserted"
          PROVE  PathsOf(deleted'[w]) \cap PathsIn(snapshot[v] \cup own[v]) = {}
      <3>1. PathsOf(rows \ deleted[v]) \cap PathsIn(snapshot[v] \cup own[v]) = {}
        BY <2>5 DEF OneRowPerPath, Others
      <3>2. deleted'[w] \subseteq rows \ deleted[v]
        BY <2>1
      <3> QED
        BY <3>1, <3>2 DEF PathsOf
    <2>6. OneRowPerPath'
      BY <2>1, <2>5 DEF OneRowPerPath, Others
    <2> QED
      BY <1>0, <2>2, <2>3, <2>4, <2>6
  <1>4. ASSUME NEW w \in Writers, InsertStart(w) PROVE RowsInv'
    <2>1. /\ UNCHANGED <<log, rows, deleted, own>>
          /\ phase[w] = "deleted" /\ phase'[w] = "inserting" /\ snapshot'[w] = log
          /\ \A v \in Others(w) : phase'[v] = phase[v] /\ snapshot'[v] = snapshot[v]
      BY <1>4 DEF InsertStart, RowsShape, Others
    <2>2. ProjectionIsLatest'
      BY <2>1 DEF ProjectionIsLatest, Current, Latest, PathsIn
    <2>3. Locks'
      BY <2>1 DEF Locks, Others
    <2>4. PathsOf(deleted[w]) \subseteq PathsIn(log)
      <3>1. ASSUME NEW r \in rows PROVE r.path \in PathsIn(log)
        <4>1. <<r.path, r.entry>> \in Latest(log)
          BY DEF ProjectionIsLatest, Current
        <4> QED
          BY <4>1 DEF Latest, PathsIn
      <3> QED
        BY <3>1 DEF PathsOf, Locks
    <2>5. Snapshots'
      BY <2>1, <2>4 DEF Snapshots, Others
    <2>6. OneRowPerPath'
      BY <2>1 DEF OneRowPerPath, Others
    <2> QED
      BY <1>0, <2>2, <2>3, <2>5, <2>6
  <1>5. ASSUME NEW w \in Writers, InsertEnd(w) PROVE RowsInv'
    <2>1. /\ UNCHANGED <<log, rows, deleted, own, snapshot>>
          /\ phase[w] = "inserting" /\ phase'[w] = "inserted"
          /\ \A v \in Others(w) : phase'[v] = phase[v]
          /\ KeysFree(w) /\ ~Conflict(w)
      BY <1>5 DEF InsertEnd, RowsShape, Others
    <2>2. ProjectionIsLatest'
      BY <2>1 DEF ProjectionIsLatest, Current, Latest, PathsIn
    <2>3. Locks'
      BY <2>1 DEF Locks, Others
    <2>4. Snapshots'
      BY <2>1 DEF Snapshots, Others
    <2>5. PathsOf(rows \ deleted[w]) \cap PathsIn(snapshot[w] \cup own[w]) = {}
      BY <2>1, InsertedPaths DEF Conflict
    <2>6. \A v \in Others(w) :
            /\ PathsOf(deleted[v]) \cap PathsIn(snapshot[w] \cup own[w]) = {}
            /\ phase[v] = "inserted" =>
                 PathsIn(snapshot[v] \cup own[v]) \cap PathsIn(snapshot[w] \cup own[w]) = {}
      BY <2>1, InsertedPaths DEF KeysFree
    <2>7. ASSUME NEW e \in log \ snapshot[w] 
          PROVE  e.path \notin PathsIn(snapshot[w] \cup own[w])
      <3>1. <<e.path, Shown(log, e.path)>> \in Current
        BY DEF ProjectionIsLatest, Latest, PathsIn
      <3>2. PICK r \in rows : r.path = e.path
        BY <3>1 DEF Current
      <3>3. r \notin deleted[w]
        BY <2>1, <3>2 DEF Snapshots, PathsOf
      <3> QED
        BY <2>5, <3>2, <3>3 DEF PathsOf
    <2>8. OneRowPerPath'
      BY <2>1, <2>5, <2>6, <2>7 DEF OneRowPerPath, Others
    <2> QED
      BY <1>0, <2>2, <2>3, <2>4, <2>8
  <1>6. ASSUME NEW w \in Writers, Commit(w) PROVE RowsInv'
    <2>1. /\ phase[w] = "inserted" /\ phase'[w] = "idle" /\ deleted'[w] = {}
          /\ log' = log \cup own[w]
          /\ rows' = (rows \ deleted[w]) \cup Inserted(w)
          /\ \A v \in Others(w) : /\ phase'[v] = phase[v] /\ deleted'[v] = deleted[v]
                                  /\ own'[v] = own[v] /\ snapshot'[v] = snapshot[v]
      BY <1>6 DEF Commit, Forget, RowsShape, Others
    <2>2. ProjectionIsLatest'
      BY <1>6, CommitProjects
    <2>3. Locks'
      BY <2>1 DEF Locks, Others
    <2>4. \A e \in own[w] : e.path \in PathsIn(snapshot[w] \cup own[w])
      BY DEF PathsIn
    <2>5. Snapshots'
      BY <2>1, <2>4 DEF Snapshots, OneRowPerPath, Others
    <2>6. ASSUME NEW v \in Others(w), phase[v] = "inserted"
          PROVE  PathsOf(rows' \ deleted[v]) \cap PathsIn(snapshot[v] \cup own[v]) = {}
      <3>1. PathsOf(rows \ deleted[v]) \cap PathsIn(snapshot[v] \cup own[v]) = {}
        BY <2>6 DEF OneRowPerPath, Others
      <3>2. PathsOf(Inserted(w)) \cap PathsIn(snapshot[v] \cup own[v]) = {}
        BY <2>1, <2>6, InsertedPaths DEF OneRowPerPath, Others
      <3> QED
        BY <2>1, <3>1, <3>2 DEF PathsOf
    <2>7. OneRowPerPath'
      <3> DEFINE mine(u) == PathsIn(snapshot[u] \cup own[u])
      <3> SUFFICES ASSUME NEW v \in Writers, phase'[v] = "inserted"
                   PROVE  /\ PathsOf(rows' \ deleted'[v]) \cap mine(v)' = {}
                          /\ \A u \in Others(v) :
                               /\ PathsOf(deleted'[u]) \cap mine(v)' = {}
                               /\ phase'[u] = "inserted" => mine(u)' \cap mine(v)' = {}
                          /\ \A e \in log' \ snapshot'[v] : e.path \notin mine(v)'
        BY DEF OneRowPerPath
      <3>1. /\ v \in Others(w) /\ phase[v] = "inserted"
            /\ deleted'[v] = deleted[v] /\ mine(v)' = mine(v) /\ snapshot'[v] = snapshot[v]
        BY <2>1 DEF Others
      <3>2. PathsOf(rows' \ deleted'[v]) \cap mine(v)' = {}
        BY <2>6, <3>1 DEF OneRowPerPath
      <3>3. ASSUME NEW u \in Others(v)
            PROVE  /\ PathsOf(deleted'[u]) \cap mine(v)' = {}
                   /\ phase'[u] = "inserted" => mine(u)' \cap mine(v)' = {}
        <4>1. CASE u = w
          BY <2>1, <3>1, <4>1 DEF PathsOf
        <4>2. CASE u # w
          <5>1. /\ phase'[u] = phase[u] /\ deleted'[u] = deleted[u] /\ mine(u)' = mine(u)
            BY <2>1, <3>3, <4>2 DEF Others
          <5> QED
            BY <3>1, <3>3, <5>1 DEF OneRowPerPath
        <4> QED
          BY <4>1, <4>2
      <3>4. \A e \in log' \ snapshot'[v] : e.path \notin mine(v)'
        BY <2>1, <2>4, <3>1 DEF OneRowPerPath, Others
      <3> QED
        BY <3>2, <3>3, <3>4
    <2> QED
      BY <1>0, <2>2, <2>3, <2>5, <2>7
  <1>7. ASSUME NEW w \in Writers, Rollback(w) PROVE RowsInv'
    <2>1. /\ UNCHANGED <<log, rows>> /\ phase'[w] = "idle" /\ deleted'[w] = {}
          /\ \A v \in Others(w) : /\ phase'[v] = phase[v] /\ deleted'[v] = deleted[v]
                                  /\ own'[v] = own[v] /\ snapshot'[v] = snapshot[v]
      BY <1>7 DEF Rollback, Forget, RowsShape, Others
    <2>2. ProjectionIsLatest'
      BY <2>1 DEF ProjectionIsLatest, Current, Latest, PathsIn
    <2>3. Locks'
      BY <2>1 DEF Locks, Others
    <2>4. Snapshots'
      BY <2>1 DEF Snapshots, Others
    <2>5. OneRowPerPath'
      <3> DEFINE mine(u) == PathsIn(snapshot[u] \cup own[u])
      <3> SUFFICES ASSUME NEW v \in Writers, phase'[v] = "inserted"
                   PROVE  /\ PathsOf(rows' \ deleted'[v]) \cap mine(v)' = {}
                          /\ \A u \in Others(v) :
                               /\ PathsOf(deleted'[u]) \cap mine(v)' = {}
                               /\ phase'[u] = "inserted" => mine(u)' \cap mine(v)' = {}
                          /\ \A e \in log' \ snapshot'[v] : e.path \notin mine(v)'
        BY DEF OneRowPerPath
      <3>1. /\ v \in Others(w) /\ phase[v] = "inserted"
            /\ deleted'[v] = deleted[v] /\ mine(v)' = mine(v) /\ snapshot'[v] = snapshot[v]
        BY <2>1 DEF Others
      <3>2. PathsOf(rows' \ deleted'[v]) \cap mine(v)' = {}
        BY <2>1, <3>1 DEF OneRowPerPath
      <3>3. ASSUME NEW u \in Others(v)
            PROVE  /\ PathsOf(deleted'[u]) \cap mine(v)' = {}
                   /\ phase'[u] = "inserted" => mine(u)' \cap mine(v)' = {}
        <4>1. CASE u = w
          BY <2>1, <3>1, <4>1 DEF PathsOf
        <4>2. CASE u # w
          <5>1. /\ phase'[u] = phase[u] /\ deleted'[u] = deleted[u] /\ mine(u)' = mine(u)
            BY <2>1, <3>3, <4>2 DEF Others
          <5> QED
            BY <3>1, <3>3, <5>1 DEF OneRowPerPath
        <4> QED
          BY <4>1, <4>2
      <3>4. \A e \in log' \ snapshot'[v] : e.path \notin mine(v)'
        BY <2>1, <3>1 DEF OneRowPerPath, Others
      <3> QED
        BY <3>2, <3>3, <3>4
    <2> QED
      BY <1>0, <2>2, <2>3, <2>4, <2>5
  <1>8. CASE UNCHANGED vars
    <2>1. UNCHANGED <<log, rows, phase, own, deleted, snapshot>>
      BY <1>8 DEF vars, txVars
    <2>2. ProjectionIsLatest'
      BY <2>1 DEF ProjectionIsLatest, Current, Latest, PathsIn
    <2> QED
      BY <1>0, <2>1, <2>2 DEF Locks, Snapshots, OneRowPerPath, Others
  <1> QED
    BY <1>1, <1>2, <1>3, <1>4, <1>5, <1>6, <1>7, <1>8, NextSplit

LEMMA RowsInvInit == Init => RowsInv
  <1> SUFFICES ASSUME Init PROVE RowsInv
    OBVIOUS
  <1>1. RowsShape
    BY DEF Init, RowsShape, Phases
  <1>2. ProjectionIsLatest
    BY DEF Init, ProjectionIsLatest, Current, Latest, PathsIn
  <1> QED
    BY <1>1, <1>2 DEF Init, RowsInv, Locks, Snapshots, OneRowPerPath, Others

(* The stored rows are the latest correction, else the latest extraction,  *)
(* of every committed path.                                                *)
THEOREM ProjectionNeverLies == Spec => []ProjectionIsLatest
  <1>1. RowsInv => ProjectionIsLatest
    BY DEF RowsInv
  <1> QED
    BY <1>1, RowsInvInit, RowsInvStep, PTL DEF Spec

-----------------------------------------------------------------------------
(* Objects. Every record a run names came of the hits it holds, and a run    *)
(* that reports a clash names its record: on that rest the freeze and the    *)
(* citations, and that a bind by an id is the only reading of it.            *)

(* What a resolution may say: one that reports a clash names its record and  *)
(* asks the customer.                                                        *)
Resolutions == [mode : {"silent", "confirm", "elicit"}, object : Records \cup {Vacant},
                contradicts : BOOLEAN]
Speaks(is) ==
  is \in Resolutions /\ (is.contradicts => is.object # Vacant /\ is.mode # "silent")

Asked == [at : {"asked"}, raced : BOOLEAN, phone : SUBSET (Records \X Fields)]
PhoneHits(c) ==
  IF Sender[c] # Vacant /\ AsDigits[Sender[c]] # Vacant THEN Hits(AsDigits[Sender[c]]) ELSE {}

(* An anchor came of an extraction or of a correction, and neither goes.     *)
Sourced == extracted \cup corrected
AnchorsSourced ==
  told = [c \in Cases |-> told[c]] /\ \A c \in Cases : told[c] # Vacant => c \in Sourced

(* A run rests, holds the sender's hits, still those of the store unless an  *)
(* upload raced it, or holds a resolution; a clash is of an anchor.          *)
RunSound(c) ==
  \/ run[c] = Resting
  \/ run[c] \in Asked /\ (~run[c].raced => run[c].phone = PhoneHits(c))
  \/ \E is \in Resolutions : /\ run[c] = [at |-> "resolved", is |-> is] /\ Speaks(is)
                             /\ is.contradicts => c \in Sourced

Citations == [case : Cases, snapshot : Records, why : Fields \cup {"other sender"}]

StoreSound ==
  /\ index = [r \in Records |-> index[r]]
  /\ \A r \in Records : \A f \in DOMAIN index[r] : index[r][f] # Vacant
  /\ embedded \subseteq Records
RunsSound == DOMAIN run = Cases /\ \A c \in Cases : RunSound(c)
PapersSound ==
  /\ snapshots \in [Records -> Cases \cup {Vacant}] /\ cited \subseteq Citations
  /\ outcome = [c \in Cases |-> outcome[c]]
  /\ \A c \in Cases : outcome[c].is.object \in Records \cup {Vacant}

ObjInv == StoreSound /\ AnchorsSourced /\ RunsSound /\ PapersSound /\ DiscrepancyKept

(* One hit is one record.                                                    *)
LEMMA OneHit ==
  ASSUME NEW found \in SUBSET (Records \X Fields), Cardinality(found) = 1
  PROVE  The(found) \in Records /\ Named(found) = {The(found)}
  <1>1. IsFiniteSet(found)
    BY ObjectsAssumption, FS_Product, FS_Subset
  <1>2. PICK h : found = {h}
    BY <1>1, FS_Singleton
  <1>3. h \in Records \X Fields /\ h[1] \in Records
    BY <1>2
  <1>4. The(found) = h[1]
    BY <1>2 DEF The
  <1>5. Named(found) = {h[1]}
    BY <1>2 DEF Named
  <1> QED
    BY <1>3, <1>4, <1>5

LEMMA HitsAreHits ==
  ASSUME NEW form
  PROVE  Hits(form) \in SUBSET (Records \X Fields)
  BY DEF Hits

LEMMA ResolutionSpeaks ==
  ASSUME NEW c \in Cases, NEW phone \in SUBSET (Records \X Fields), embedded \subseteq Records
  PROVE  /\ Resolution(c, phone) \in Resolutions /\ Speaks(Resolution(c, phone))
         /\ Resolution(c, phone).contradicts => told[c] # Vacant
  <1>1. ASSUME NEW found \in SUBSET (Records \X Fields) PROVE Speaks(ById(found, phone))
    <2>1. CASE Cardinality(found) # 1
      BY <2>1 DEF ById, Speaks, Resolved, Resolutions
    <2>2. CASE Cardinality(found) = 1
      <3>1. The(found) \in Records /\ The(found) # Vacant
        BY <2>2, OneHit, ObjectsAssumption
      <3> QED
        BY <2>2, <3>1 DEF ById, Speaks, Resolved, Resolutions
    <2> QED
      BY <2>1, <2>2
  <1>2. Speaks(ByPhone(phone))
    BY OneHit DEF ByPhone, Speaks, Resolved, Resolutions
  <1>3. Speaks(ByName(c))
    <2>1. CASE \E r \in Near(c) : Clear(c, r)
      <3> DEFINE best == CHOOSE r \in Near(c) : Clear(c, r)
      <3>1. best \in Near(c) /\ Near(c) \subseteq Records
        BY <2>1 DEF Near
      <3>2. ByName(c) = Resolved("silent", best, FALSE)
        BY <2>1 DEF ByName
      <3> HIDE DEF best
      <3> QED
        BY <3>1, <3>2 DEF Speaks, Resolved, Resolutions
    <2>2. CASE ~\E r \in Near(c) : Clear(c, r)
      BY <2>2 DEF ByName, Speaks, Resolved, Resolutions, Nothing
    <2> QED
      BY <2>1, <2>2
  <1>4. Speaks(Resolution(c, phone))
    BY <1>1, <1>2, <1>3, HitsAreHits DEF Resolution
  <1>5. ~ByPhone(phone).contradicts
    BY DEF ByPhone, Resolved
  <1>6. ~ByName(c).contradicts
    BY DEF ByName, Resolved, Nothing
  <1>7. Resolution(c, phone).contradicts => told[c] # Vacant
    BY <1>5, <1>6 DEF Resolution
  <1> QED
    BY <1>4, <1>7 DEF Speaks

LEMMA ObjInit == ObjectsInit => ObjInv
  <1> SUFFICES ASSUME ObjectsInit PROVE ObjInv
    OBVIOUS
  <1> USE DEF ObjectsInit
  <1>1. StoreSound
    BY DEF StoreSound, NotStored
  <1>2. RunsSound
    BY DEF RunsSound, RunSound
  <1>3. PapersSound
    BY DEF PapersSound, Outcome, Nothing
  <1>4. DiscrepancyKept
    BY DEF DiscrepancyKept, Outcome, Nothing
  <1>5. AnchorsSourced
    BY DEF AnchorsSourced
  <1> QED
    BY <1>1, <1>2, <1>3, <1>4, <1>5 DEF ObjInv

(* What a run holds when it is about to resolve, and to record.              *)
LEMMA WhileAsked ==
  ASSUME NEW c \in Cases, RunSound(c), run[c].at = "asked"
  PROVE  run[c] \in Asked /\ (~run[c].raced => run[c].phone = PhoneHits(c))
  <1>1. run[c] # Resting
    BY DEF Resting
  <1>2. ASSUME NEW is, run[c] = [at |-> "resolved", is |-> is] PROVE FALSE
    <2>1. run[c].at = "resolved"
      BY <1>2
    <2> QED
      BY <2>1
  <1> QED
    BY <1>1, <1>2 DEF RunSound

LEMMA WhileResolved ==
  ASSUME NEW c \in Cases, RunSound(c), run[c].at = "resolved"
  PROVE  /\ run[c].is \in Resolutions /\ Speaks(run[c].is)
         /\ run[c].is.contradicts => c \in Sourced
  <1>1. run[c] # Resting /\ run[c] \notin Asked
    BY DEF Resting, Asked
  <1>2. PICK is \in Resolutions :
          /\ run[c] = [at |-> "resolved", is |-> is] /\ Speaks(is)
          /\ is.contradicts => c \in Sourced
    BY <1>1 DEF RunSound
  <1>3. run[c].is = is
    BY <1>2
  <1> QED
    BY <1>2, <1>3

(* A run that moves alone leaves the others sound.                           *)
LEMMA OneRunMoves ==
  ASSUME RunsSound, NEW c \in Cases, NEW new, run' = [run EXCEPT ![c] = new],
         UNCHANGED <<index, anchorVars>>, RunSound(c)'
  PROVE  RunsSound'
  <1>1. DOMAIN run' = Cases
    BY DEF RunsSound
  <1>2. ASSUME NEW d \in Cases PROVE RunSound(d)'
    <2>1. CASE d = c
      BY <2>1
    <2>2. CASE d # c
      <3>1. run'[d] = run[d] /\ RunSound(d)
        BY <2>2 DEF RunsSound
      <3> QED
        BY <3>1 DEF RunSound, PhoneHits, Hits, Sourced, anchorVars
    <2> QED
      BY <2>1, <2>2
  <1> QED
    BY <1>1, <1>2 DEF RunsSound

(* An upload adds what it stored, and marks the runs it came across.         *)
LEMMA UploadStep ==
  ASSUME ObjInv, NEW file \in Files, UploadObjects(file)
  PROVE  ObjInv'
  <1> USE DEF UploadObjects
  <1>1. StoreSound'
    <2>1. New(file) \subseteq Records
      BY ObjectsAssumption DEF New, FilledRows
    <2>2. embedded' \subseteq Records
      BY <2>1 DEF ObjInv, StoreSound
    <2>3. ASSUME NEW r \in Records, NEW f \in DOMAIN index'[r] PROVE index'[r][f] # Vacant
      <3>1. CASE r \in New(file)
        <4>1. index'[r] = KeysOf(FilledRows(file), r)
          BY <3>1
        <4> QED
          BY <4>1, <2>3 DEF KeysOf
      <3>2. CASE r \notin New(file)
        BY <3>2, <2>3 DEF ObjInv, StoreSound
      <3> QED
        BY <3>1, <3>2
    <2>4. index' = [r \in Records |-> index'[r]]
      OBVIOUS
    <2> QED
      BY <2>2, <2>3, <2>4 DEF StoreSound
  <1>2. RunsSound'
    <2>1. DOMAIN run' = Cases
      OBVIOUS
    <2>2. ASSUME NEW c \in Cases PROVE RunSound(c)'
      <3>1. RunSound(c)
        BY DEF ObjInv, RunsSound
      <3>2. CASE run[c].at = "asked"
        <4>1. run[c] \in Asked
          BY <3>1, <3>2, WhileAsked
        <4>2. run'[c] = [run[c] EXCEPT !.raced = TRUE]
          BY <3>2
        <4>3. run'[c] \in Asked /\ run'[c].raced
          BY <4>1, <4>2 DEF Asked
        <4> QED
          BY <4>3 DEF RunSound
      <3>3. CASE run[c].at # "asked"
        <4>1. run'[c] = run[c]
          BY <3>3
        <4>2. run[c] \notin Asked
          BY <3>3 DEF Asked
        <4> QED
          BY <3>1, <4>1, <4>2 DEF RunSound, Sourced, anchorVars
      <3> QED
        BY <3>2, <3>3
    <2> QED
      BY <2>1, <2>2 DEF RunsSound
  <1>3. PapersSound' /\ DiscrepancyKept' /\ AnchorsSourced'
    BY DEF ObjInv, PapersSound, DiscrepancyKept, AnchorsSourced, Sourced, anchorVars
  <1> QED
    BY <1>1, <1>2, <1>3 DEF ObjInv

(* A step of one run that files nothing.                                     *)
LEMMA QuietRunStep ==
  ASSUME ObjInv, NEW c \in Cases, NEW new, run' = [run EXCEPT ![c] = new], RunSound(c)',
         UNCHANGED <<index, embedded, anchorVars, outcome, snapshots, cited>>
  PROVE  ObjInv'
  <1>1. StoreSound' /\ AnchorsSourced' /\ PapersSound' /\ DiscrepancyKept'
    BY DEF ObjInv, StoreSound, AnchorsSourced, Sourced, PapersSound, DiscrepancyKept, anchorVars
  <1>2. RunsSound'
    BY OneRunMoves DEF ObjInv
  <1> QED
    BY <1>1, <1>2 DEF ObjInv

LEMMA ClaimStep ==
  ASSUME ObjInv, NEW c \in Cases, Claim(c)
  PROVE  ObjInv'
  <1> DEFINE new == [at |-> "asked", raced |-> FALSE, phone |-> PhoneHits(c)]
  <1>1. run' = [run EXCEPT ![c] = new]
    BY DEF Claim, PhoneHits
  <1>2. run'[c] = new
    BY <1>1 DEF ObjInv, RunsSound
  <1>3. PhoneHits(c) \in SUBSET (Records \X Fields)
    BY HitsAreHits DEF PhoneHits
  <1>4. PhoneHits(c)' = PhoneHits(c)
    BY DEF Claim, PhoneHits, Hits
  <1>5. RunSound(c)'
    BY <1>2, <1>3, <1>4 DEF RunSound, Asked
  <1> QED
    BY <1>1, <1>5, QuietRunStep DEF Claim

(* What a resolving run held, and what it holds after.                       *)
LEMMA ResolveFacts ==
  ASSUME ObjInv, NEW c \in Cases, Resolve(c)
  PROVE  /\ run[c] \in Asked /\ (~run[c].raced => run[c].phone = PhoneHits(c))
         /\ run[c].phone \in SUBSET (Records \X Fields)
         /\ run'[c] = [at |-> "resolved", is |-> Resolution(c, run[c].phone)]
         /\ Resolution(c, run[c].phone) \in Resolutions
         /\ Speaks(Resolution(c, run[c].phone))
         /\ Resolution(c, run[c].phone).contradicts => c \in Sourced
  <1>1. RunSound(c)
    BY DEF ObjInv, RunsSound
  <1>2. run[c].at = "asked"
    BY DEF Resolve
  <1>3. run[c] \in Asked /\ (~run[c].raced => run[c].phone = PhoneHits(c))
    BY <1>1, <1>2, WhileAsked
  <1>4. run[c].phone \in SUBSET (Records \X Fields)
    BY <1>3 DEF Asked
  <1>5. run'[c] = [at |-> "resolved", is |-> Resolution(c, run[c].phone)]
    BY DEF Resolve, ObjInv, RunsSound
  <1>6. /\ Resolution(c, run[c].phone) \in Resolutions /\ Speaks(Resolution(c, run[c].phone))
        /\ Resolution(c, run[c].phone).contradicts => told[c] # Vacant
    BY <1>4, ResolutionSpeaks DEF ObjInv, StoreSound
  <1>7. told[c] # Vacant => c \in Sourced
    BY DEF ObjInv, AnchorsSourced
  <1> QED
    BY <1>3, <1>4, <1>5, <1>6, <1>7

LEMMA ResolveStep ==
  ASSUME ObjInv, NEW c \in Cases, Resolve(c)
  PROVE  ObjInv'
  <1> DEFINE is == Resolution(c, run[c].phone)
  <1>1. run' = [run EXCEPT ![c] = [at |-> "resolved", is |-> is]]
    BY DEF Resolve
  <1>2. /\ run'[c] = [at |-> "resolved", is |-> is] /\ is \in Resolutions /\ Speaks(is)
        /\ is.contradicts => c \in Sourced
    BY ResolveFacts
  <1>4. Sourced' = Sourced
    BY DEF Resolve, Sourced, anchorVars
  <1> HIDE DEF is
  <1>3. RunSound(c)'
    BY <1>2, <1>4 DEF RunSound, Speaks
  <1> QED
    BY <1>1, <1>3, QuietRunStep DEF Resolve

(* Committing a resolution freezes what it names, and cites what it may.     *)
LEMMA RecordStep ==
  ASSUME ObjInv, NEW c \in Cases, NEW said \in SUBSET Fields \cup {{"invented"}},
         NEW faulted \in BOOLEAN, Record(c, said, faulted)
  PROVE  ObjInv'
  <1> DEFINE is == run[c].is
  <1> DEFINE counted == IF is.mode = "silent" THEN Grounded(is.object, said) # {}
                                              ELSE c \in extracted
  <1>1. is \in Resolutions /\ Speaks(is) /\ (is.contradicts => c \in Sourced)
    <2>1. RunSound(c) /\ run[c].at = "resolved"
      BY DEF ObjInv, RunsSound, Record
    <2> QED
      BY <2>1, WhileResolved
  <1>2. run' = [run EXCEPT ![c] = Resting] /\ UNCHANGED <<index, embedded, anchorVars>>
    BY DEF Record
  <1>3. /\ is.object = Vacant =>
             /\ UNCHANGED <<snapshots, cited>>
             /\ outcome' = [outcome EXCEPT ![c] = Outcome(is, FALSE)]
        /\ is.object # Vacant =>
             /\ snapshots' = Frozen(is.object, c)
             /\ cited' = cited \cup Citable(c, is, said, faulted)
             /\ outcome' = [outcome EXCEPT ![c] = Outcome(is, counted)]
    BY DEF Record
  <1>12. /\ outcome' = [outcome EXCEPT ![c] = outcome'[c]]
         /\ outcome'[c].is = is
         /\ is.object # Vacant => outcome'[c].counts = counted
    BY <1>3 DEF Outcome, ObjInv, PapersSound
  <1>13. is.mode # "silent" => counted = (c \in extracted)
    OBVIOUS
  <1> HIDE DEF counted
  <1> HIDE DEF is
  <1>4. StoreSound'
    BY <1>2 DEF ObjInv, StoreSound
  <1>11. AnchorsSourced' /\ Sourced' = Sourced
    BY <1>2 DEF ObjInv, AnchorsSourced, Sourced, anchorVars
  <1>5. RunsSound'
    <2>1. RunSound(c)'
      BY <1>2 DEF RunSound, ObjInv, RunsSound
    <2> QED
      BY <1>2, <2>1, OneRunMoves DEF ObjInv
  <1>6. is.object \in Records \cup {Vacant}
    BY <1>1 DEF Resolutions
  <1>7. /\ snapshots' \in [Records -> Cases \cup {Vacant}]
        /\ \A r \in Records : snapshots[r] \in Cases => snapshots'[r] \in Cases
        /\ is.object # Vacant => snapshots'[is.object] \in Cases
    <2>1. snapshots \in [Records -> Cases \cup {Vacant}]
      BY DEF ObjInv, PapersSound
    <2>2. CASE is.object = Vacant
      BY <1>3, <2>1, <2>2
    <2>3. CASE is.object # Vacant
      <3>1. snapshots' = Frozen(is.object, c) /\ is.object \in Records
        BY <1>3, <1>6, <2>3
      <3> QED
        BY <2>1, <3>1 DEF Frozen
    <2> QED
      BY <2>2, <2>3
  <1>8. /\ cited \subseteq cited'
        /\ is.object # Vacant /\ is.mode # "silent" /\ c \in extracted
             => Cite(c, is.object, "other sender") \in cited'
        /\ \A cite \in cited' \ cited :
             /\ cite \in Citations /\ cite.snapshot = is.object /\ is.object # Vacant
             /\ \/ cite.why = "other sender"
                \/ cite.why \in Fields /\ Holds(cite.snapshot, cite.why)
    <2>1. CASE is.object = Vacant
      BY <1>3, <2>1
    <2>2. CASE is.object # Vacant /\ is.mode = "silent"
      <3>1. cited' \subseteq cited \cup {Cite(c, is.object, f) : f \in Grounded(is.object, said)}
            /\ cited \subseteq cited'
        BY <1>3, <2>2 DEF Citable
      <3>2. \A f \in Grounded(is.object, said) : f \in Fields /\ Holds(is.object, f)
        BY DEF Grounded
      <3>3. ASSUME NEW cite \in cited' \ cited
            PROVE  cite \in Citations /\ cite.snapshot = is.object
                   /\ cite.why \in Fields /\ Holds(is.object, cite.why)
        <4>1. PICK f \in Grounded(is.object, said) : cite = Cite(c, is.object, f)
          BY <3>1, <3>3
        <4>2. cite = [case |-> c, snapshot |-> is.object, why |-> f]
          BY <4>1 DEF Cite
        <4>3. f \in Fields /\ Holds(is.object, f) /\ is.object \in Records
          BY <1>6, <2>2, <3>2, <4>1
        <4>4. cite.snapshot = is.object /\ cite.why = f
          BY <4>2
        <4>5. cite \in Citations
          BY <4>2, <4>3 DEF Citations
        <4> QED
          BY <4>3, <4>4, <4>5
      <3> QED
        BY <2>2, <3>1, <3>3
    <2>3. CASE is.object # Vacant /\ is.mode # "silent"
      <3>1. /\ cited' \subseteq cited \cup {Cite(c, is.object, "other sender")}
            /\ cited \subseteq cited'
            /\ c \in extracted => Cite(c, is.object, "other sender") \in cited'
        BY <1>3, <2>3 DEF Citable
      <3>2. ASSUME NEW cite \in cited' \ cited
            PROVE  cite \in Citations /\ cite.snapshot = is.object
                   /\ cite.why = "other sender"
        <4>1. cite = [case |-> c, snapshot |-> is.object, why |-> "other sender"]
          BY <3>1, <3>2 DEF Cite
        <4> QED
          BY <1>6, <2>3, <4>1 DEF Citations
      <3> QED
        BY <2>3, <3>1, <3>2
    <2> QED
      BY <2>1, <2>2, <2>3
  <1>9. PapersSound'
    <2>1. cited' \subseteq Citations
      BY <1>8 DEF ObjInv, PapersSound
    <2>2. outcome' = [d \in Cases |-> outcome'[d]]
      BY <1>12 DEF ObjInv, PapersSound
    <2>3. \A d \in Cases : outcome'[d].is.object \in Records \cup {Vacant}
      BY <1>6, <1>12 DEF ObjInv, PapersSound
    <2> QED
      BY <1>7, <2>1, <2>2, <2>3 DEF PapersSound
  <1>10. DiscrepancyKept'
    <2>1. ASSUME NEW d \in Cases, outcome'[d].is.contradicts
          PROVE  /\ outcome'[d].is.object # Vacant /\ snapshots'[outcome'[d].is.object] \in Cases
                 /\ IF outcome'[d].counts
                      THEN Cite(d, outcome'[d].is.object, "other sender") \in cited'
                      ELSE d \in corrected'
      <3>1. CASE d = c
        <4>1. outcome'[d].is = is
          BY <1>12, <3>1
        <4>2. is.object # Vacant /\ is.mode # "silent" /\ c \in Sourced
          BY <1>1, <2>1, <4>1 DEF Speaks
        <4>3. outcome'[d].counts = (c \in extracted) /\ corrected' = corrected
          BY <1>2, <1>12, <1>13, <3>1, <4>2 DEF anchorVars
        <4> QED
          BY <1>7, <1>8, <3>1, <4>1, <4>2, <4>3 DEF Sourced
      <3>2. CASE d # c
        <4>1. outcome'[d] = outcome[d] /\ corrected' = corrected
          BY <1>2, <1>12, <3>2 DEF ObjInv, PapersSound, anchorVars
        <4>2. outcome[d].is.object # Vacant => outcome[d].is.object \in Records
          BY DEF ObjInv, PapersSound
        <4> QED
          BY <1>7, <1>8, <2>1, <4>1, <4>2 DEF ObjInv, DiscrepancyKept
      <3> QED
        BY <3>1, <3>2
    <2>2. ASSUME NEW cite \in cited'
          PROVE  /\ snapshots'[cite.snapshot] \in Cases
                 /\ cite.why = "other sender"
                    \/ (cite.why \in Fields /\ Holds(cite.snapshot, cite.why))
      <3>1. CASE cite \in cited
        <4>1. cite.snapshot \in Records
          BY <3>1 DEF ObjInv, PapersSound, Citations
        <4> QED
          BY <1>7, <3>1, <4>1 DEF ObjInv, DiscrepancyKept
      <3>2. CASE cite \notin cited
        BY <1>7, <1>8, <2>2, <3>2
      <3> QED
        BY <3>1, <3>2
    <2> QED
      BY <2>1, <2>2 DEF DiscrepancyKept, Holds
  <1> QED
    BY <1>4, <1>5, <1>9, <1>10, <1>11 DEF ObjInv

(* An anchor that appears has its source.                                    *)
LEMMA TellStep ==
  ASSUME ObjInv, NEW c \in Cases, NEW v \in Anchors[c], Tell(c, v) \/ Correct(c, v)
  PROVE  ObjInv'
  <1>1. /\ UNCHANGED <<index, embedded, run, outcome, snapshots, cited>>
        /\ extracted \subseteq extracted' /\ corrected \subseteq corrected'
        /\ told' = [told EXCEPT ![c] = told'[c]]
        /\ c \in Sourced'
    BY DEF Tell, Correct, ObjInv, AnchorsSourced, Sourced
  <1>2. Sourced \subseteq Sourced'
    BY <1>1 DEF Sourced
  <1>3. StoreSound' /\ PapersSound' /\ DiscrepancyKept'
    BY <1>1 DEF ObjInv, StoreSound, PapersSound, DiscrepancyKept
  <1>4. AnchorsSourced'
    <2>1. told' = [d \in Cases |-> told'[d]]
      BY <1>1 DEF ObjInv, AnchorsSourced
    <2>2. \A d \in Cases : told'[d] # Vacant => d \in Sourced'
      BY <1>1, <1>2 DEF ObjInv, AnchorsSourced
    <2> QED
      BY <2>1, <2>2 DEF AnchorsSourced
  <1>5. RunsSound'
    <2>1. ASSUME NEW d \in Cases PROVE RunSound(d)'
      <3>1. RunSound(d) /\ run'[d] = run[d] /\ PhoneHits(d)' = PhoneHits(d)
        BY <1>1 DEF ObjInv, RunsSound, PhoneHits, Hits
      <3> QED
        BY <1>2, <3>1 DEF RunSound
    <2> QED
      BY <1>1, <2>1 DEF ObjInv, RunsSound
  <1> QED
    BY <1>3, <1>4, <1>5 DEF ObjInv

LEMMA ObjStep ==
  ASSUME ObjInv, [ObjectsStep]_objectVars
  PROVE  ObjInv'
  <1>1. CASE UNCHANGED objectVars
    <2>1. UNCHANGED <<index, embedded, told, extracted, corrected, run, outcome, snapshots, cited>>
      BY <1>1 DEF objectVars
    <2>2. StoreSound'
      BY <2>1 DEF ObjInv, StoreSound
    <2>3. AnchorsSourced'
      BY <2>1 DEF ObjInv, AnchorsSourced, Sourced
    <2>4. RunsSound'
      <3>1. ASSUME NEW c \in Cases PROVE RunSound(c)'
        BY <2>1 DEF ObjInv, RunsSound, RunSound, PhoneHits, Hits, Sourced
      <3> QED
        BY <2>1, <3>1 DEF ObjInv, RunsSound
    <2>5. PapersSound'
      BY <2>1 DEF ObjInv, PapersSound
    <2>6. DiscrepancyKept'
      BY <2>1 DEF ObjInv, DiscrepancyKept, Holds
    <2> QED
      BY <2>2, <2>3, <2>4, <2>5, <2>6 DEF ObjInv
  <1>2. ASSUME NEW file \in Files, UploadObjects(file) PROVE ObjInv'
    BY <1>2, UploadStep
  <1>3. ASSUME NEW c \in Cases, NEW v \in Anchors[c], Tell(c, v) \/ Correct(c, v)
        PROVE ObjInv'
    BY <1>3, TellStep
  <1>4. ASSUME NEW c \in Cases, Claim(c) PROVE ObjInv'
    BY <1>4, ClaimStep
  <1>5. ASSUME NEW c \in Cases, Resolve(c) PROVE ObjInv'
    BY <1>5, ResolveStep
  <1>6. ASSUME NEW c \in Cases, RunFails(c) PROVE ObjInv'
    <2>1. run' = [run EXCEPT ![c] = Resting]
      BY <1>6 DEF RunFails
    <2>2. RunSound(c)'
      BY <2>1 DEF RunSound, ObjInv, RunsSound
    <2> QED
      BY <1>6, <2>1, <2>2, QuietRunStep DEF RunFails
  <1>7. ASSUME NEW c \in Cases, NEW said \in SUBSET Fields \cup {{"invented"}},
               NEW faulted \in BOOLEAN, Record(c, said, faulted)
        PROVE ObjInv'
    BY <1>7, RecordStep
  <1> QED
    BY <1>1, <1>2, <1>3, <1>4, <1>5, <1>6, <1>7 DEF ObjectsStep

(* A resolution that binds by the quoted id had one hit, and no phone that   *)
(* points elsewhere.                                                         *)
LEMMA BindStep ==
  ASSUME ObjInv, [ObjectsStep]_objectVars
  PROVE  BindsUnambiguous
  <1> SUFFICES ASSUME NEW c \in Cases, Bound(c), ~run[c].raced
               PROVE  /\ Named(Hits(AsText[told[c]])) = {run'[c].is.object}
                      /\ BySender(c) # {} => run'[c].is.object \in BySender(c)
    BY DEF BindsUnambiguous
  <1>1. run[c].at = "asked" /\ run'[c].at = "resolved"
        /\ run'[c].is.mode = "silent" /\ told[c] # Vacant
    BY DEF Bound
  <1>2. Resolve(c)
    <2>1. run'[c] # run[c]
      BY <1>1
    <2>2. ASSUME NEW file \in Files, UploadObjects(file) PROVE FALSE
      <3>1. run'[c] = [run[c] EXCEPT !.raced = TRUE] /\ run[c] \in Asked
        BY <1>1, <2>2 DEF UploadObjects, ObjInv, RunsSound, RunSound, Resting
      <3> QED
        BY <1>1, <3>1 DEF Asked
    <2>3. ASSUME NEW d \in Cases, NEW v \in Anchors[d], Tell(d, v) \/ Correct(d, v)
          PROVE FALSE
      BY <2>1, <2>3 DEF Tell, Correct
    <2>4. ASSUME NEW d \in Cases, Claim(d) PROVE FALSE
      BY <1>1, <2>1, <2>4 DEF Claim, Resting, ObjInv, RunsSound
    <2>5. ASSUME NEW d \in Cases, RunFails(d) PROVE FALSE
      BY <1>1, <2>5 DEF RunFails, Resting, ObjInv, RunsSound
    <2>6. ASSUME NEW d \in Cases, NEW said \in SUBSET Fields \cup {{"invented"}},
                 NEW faulted \in BOOLEAN, Record(d, said, faulted)
          PROVE FALSE
      BY <1>1, <2>6 DEF Record, Resting, ObjInv, RunsSound
    <2>7. ASSUME NEW d \in Cases, Resolve(d) PROVE d = c
      BY <2>1, <2>7 DEF Resolve, ObjInv, RunsSound
    <2> QED
      BY <2>1, <2>2, <2>3, <2>4, <2>5, <2>6, <2>7 DEF ObjectsStep, objectVars
  <1> DEFINE found == Hits(AsText[told[c]])
  <1> DEFINE phone == run[c].phone
  <1>3. /\ phone = PhoneHits(c) /\ found \in SUBSET (Records \X Fields)
        /\ run'[c].is = ById(found, phone)
    <2>1. phone = PhoneHits(c)
      BY <1>2, ResolveFacts
    <2>2. run'[c].is = Resolution(c, phone)
      <3>1. run'[c] = [at |-> "resolved", is |-> Resolution(c, phone)]
        BY <1>2, ResolveFacts
      <3> QED
        BY <3>1
    <2>3. Resolution(c, phone) = ById(found, phone)
      BY <1>1 DEF Resolution
    <2> QED
      BY <2>1, <2>2, <2>3, HitsAreHits
  <1>4. BySender(c) = Named(PhoneHits(c))
    <2>1. CASE Sender[c] = Vacant
      BY <2>1 DEF BySender, PhoneHits, Named
    <2>2. CASE Sender[c] # Vacant /\ AsDigits[Sender[c]] = Vacant
      <3>1. Hits(Vacant) = {}
        BY DEF Hits, ObjInv, StoreSound
      <3> QED
        BY <2>2, <3>1 DEF BySender, PhoneHits, Named
    <2>3. CASE Sender[c] # Vacant /\ AsDigits[Sender[c]] # Vacant
      BY <2>3 DEF BySender, PhoneHits
    <2> QED
      BY <2>1, <2>2, <2>3
  <1> HIDE DEF found, phone
  <1>5. Cardinality(found) = 1 /\ (phone = {} \/ The(found) \in Named(phone))
        /\ run'[c].is.object = The(found)
    BY <1>1, <1>3 DEF ById, Resolved
  <1>6. Named(found) = {The(found)}
    BY <1>3, <1>5, OneHit
  <1>7. phone = {} => BySender(c) = {}
    BY <1>3, <1>4 DEF Named
  <1> QED
    BY <1>3, <1>4, <1>5, <1>6, <1>7 DEF found

(* Whatever the records, the uploads and the interleaving of the runs, a     *)
(* record the anchors of a customer disagree on is named and frozen, cited   *)
(* when an extraction of the anchor can carry the citation, and nothing is   *)
(* cited that the record does not hold.                                      *)
THEOREM DiscrepancyIsKept == ObjectsSpec => []DiscrepancyKept
  <1>1. ObjInv /\ [ObjectsStep]_objectVars => ObjInv'
    BY ObjStep
  <1>2. ObjInv => DiscrepancyKept
    BY DEF ObjInv
  <1> QED
    BY ObjInit, <1>1, <1>2, PTL DEF ObjectsSpec

(* A bind by a quoted id that no upload raced names the only record that     *)
(* carries the id, one of the sender's if the sender is known.               *)
THEOREM BindIsUnambiguous == ObjectsSpec => BoundUnambiguous
  <1>1. ObjInv /\ [ObjectsStep]_objectVars => ObjInv'
    BY ObjStep
  <1>2. ObjInv /\ [ObjectsStep]_objectVars => [BindsUnambiguous]_objectVars
    BY BindStep
  <1> QED
    BY ObjInit, <1>1, <1>2, PTL DEF ObjectsSpec, BoundUnambiguous

-----------------------------------------------------------------------------
(* Minting. A scan holds the clusters it read under the vocabulary of its    *)
(* start; a column that is born takes its cases with it until they are read  *)
(* again.                                                                    *)

Settled(from, g) == CasesIn(from[g]) \subseteq Stories /\ Recurs(from[g])

(* A scan at its work holds clusters that recur and new names that are none  *)
(* of the columns there are, each born of cases enough when it is a column;  *)
(* afterwards it holds the cases to defer.                                   *)
Naming ==
  /\ DOMAIN scan = {"at", "left", "from", "taken", "new", "born"} /\ scan.at = "naming"
  /\ \A g \in scan.left : Settled(scan.from, g)
  /\ Vocabulary \subseteq scan.taken
  /\ DOMAIN scan.new \subseteq scan.taken \cap (Names \ Vocabulary)
  /\ DOMAIN scan.born = DOMAIN scan.new
  /\ \A n \in DOMAIN scan.new :
       /\ scan.new[n] \in {"column", "barred"} /\ scan.born[n] \subseteq Stories
       /\ scan.new[n] = "column" =>
            Cardinality(scan.born[n]) >= PromoteHeadN /\ n \notin ProtectedNames
Deferring ==
  scan = [at |-> "deferring", cases |-> scan.cases] /\ scan.cases \subseteq Stories

MintShape ==
  /\ minted \in [Names -> {"no", "column", "barred"}] /\ behind \in [Names -> SUBSET Stories]
  /\ known = [s \in Stories |-> known[s]] /\ reading = [s \in Stories |-> reading[s]]
  /\ kills \in Nat

MintInv ==
  /\ MintShape /\ (scan = Asleep \/ Naming \/ Deferring)
  /\ ColumnsEarned /\ HistoryRehomed

LEMMA MintStart == MintInit => MintInv
  <1> SUFFICES ASSUME MintInit PROVE MintInv
    OBVIOUS
  <1> USE DEF MintInit
  <1>1. MintShape
    BY DEF MintShape
  <1>2. Vocabulary = {}
    BY DEF Vocabulary
  <1> QED
    BY <1>1, <1>2 DEF MintInv, ColumnsEarned, HistoryRehomed, Rehomed

LEMMA StatingIsOfStories ==
  ASSUME NEW group
  PROVE  CasesIn(Stating(group)) \subseteq Stories
  BY DEF CasesIn, Stating

(* The columns stand, and history is as it was, while no head is registered. *)
LEMMA ColumnsStand ==
  ASSUME ColumnsEarned, UNCHANGED <<minted, behind>>
  PROVE  ColumnsEarned'
  BY DEF ColumnsEarned

LEMMA ReadStep ==
  ASSUME MintInv, NEW s \in Stories, Read(s)
  PROVE  MintInv'
  <1> USE DEF Read
  <1>1. MintShape'
    BY DEF MintInv, MintShape
  <1>2. scan' = Asleep \/ Naming' \/ Deferring'
    BY DEF MintInv, Naming, Deferring, Vocabulary, Settled
  <1>3. HistoryRehomed'
    <2> SUFFICES ASSUME kills = 0, NEW n \in Vocabulary, NEW t \in behind[n]
                 PROVE  \/ Awaited(t)'
                        \/ reading'[t].on /\ n \in reading'[t].words
                        \/ \E words \in known'[t] : n \in words
      BY DEF HistoryRehomed, Rehomed, Vocabulary
    <2>1. t \in Stories
      BY DEF Vocabulary, MintInv, MintShape
    <2>2. \/ Awaited(t)
          \/ reading[t].on /\ n \in reading[t].words
          \/ \E words \in known[t] : n \in words
      BY DEF MintInv, HistoryRehomed, Rehomed
    <2>3. CASE t # s
      <3>1. reading'[t] = reading[t] /\ known'[t] = known[t]
        BY <2>1, <2>3 DEF MintInv, MintShape
      <3>2. Awaited(t) => Awaited(t)'
        BY <2>3 DEF Awaited
      <3> QED
        BY <2>2, <3>1, <3>2
    <2>4. CASE t = s /\ LedgerKey(Vocabulary) \in known[s]
      <3>1. \E words \in known[t] : n \in words
        BY <2>4 DEF LedgerKey
      <3> QED
        BY <3>1
    <2>5. CASE t = s /\ LedgerKey(Vocabulary) \notin known[s]
      <3>1. reading'[s] = [on |-> TRUE, words |-> Vocabulary]
        BY <2>5 DEF MintInv, MintShape
      <3> QED
        BY <2>5, <3>1
    <2> QED
      BY <2>3, <2>4, <2>5
  <1> QED
    BY <1>1, <1>2, <1>3, ColumnsStand DEF MintInv

LEMMA FileStep ==
  ASSUME MintInv, NEW s \in Stories, NEW home, File(s, home)
  PROVE  MintInv'
  <1> USE DEF File
  <1>1. MintShape'
    BY DEF MintInv, MintShape
  <1>2. scan' = Asleep \/ Naming' \/ Deferring'
    BY DEF MintInv, Naming, Deferring, Vocabulary, Settled
  <1>3. HistoryRehomed'
    <2> SUFFICES ASSUME kills = 0, NEW n \in Vocabulary, NEW t \in behind[n]
                 PROVE  \/ Awaited(t)'
                        \/ reading'[t].on /\ n \in reading'[t].words
                        \/ \E words \in known'[t] : n \in words
      BY DEF HistoryRehomed, Rehomed, Vocabulary
    <2>1. t \in Stories
      BY DEF Vocabulary, MintInv, MintShape
    <2>2. \/ Awaited(t)
          \/ reading[t].on /\ n \in reading[t].words
          \/ \E words \in known[t] : n \in words
      BY DEF MintInv, HistoryRehomed, Rehomed
    <2>3. Awaited(t) => Awaited(t)'
      BY DEF Awaited
    <2>4. CASE t # s
      <3>1. reading'[t] = reading[t] /\ known'[t] = known[t]
        BY <2>1, <2>4 DEF MintInv, MintShape
      <3> QED
        BY <2>2, <2>3, <3>1
    <2>5. CASE t = s
      <3>1. known'[t] = known[t] \cup {reading[t].words}
        BY <2>1, <2>5 DEF MintInv, MintShape, LedgerKey
      <3> QED
        BY <2>2, <2>3, <3>1
    <2> QED
      BY <2>4, <2>5
  <1> QED
    BY <1>1, <1>2, <1>3, ColumnsStand DEF MintInv

(* Nothing but the scan moves.                                               *)
LEMMA ScanMoves ==
  ASSUME MintInv, UNCHANGED <<known, wanted, reading, minted, behind, kills>>,
         \A s \in Stories : Awaited(s) => Awaited(s)', scan' = Asleep \/ Naming' \/ Deferring'
  PROVE  MintInv'
  <1>1. MintShape' /\ ColumnsEarned'
    BY DEF MintInv, MintShape, ColumnsEarned
  <1>2. HistoryRehomed'
    <2> SUFFICES ASSUME kills = 0, NEW n \in Vocabulary, NEW t \in behind[n]
                 PROVE  \/ Awaited(t)'
                        \/ reading[t].on /\ n \in reading[t].words
                        \/ \E words \in known[t] : n \in words
      BY DEF HistoryRehomed, Rehomed, Vocabulary
    <2>1. t \in Stories
      BY DEF Vocabulary, MintInv, MintShape
    <2> QED
      BY <2>1 DEF MintInv, HistoryRehomed, Rehomed
  <1> QED
    BY <1>1, <1>2 DEF MintInv

LEMMA StartScanStep ==
  ASSUME MintInv, StartScan
  PROVE  MintInv'
  <1>1. scan = Asleep /\ UNCHANGED <<known, wanted, reading, minted, behind, kills>>
    BY DEF StartScan
  <1> DEFINE left == {g \in Clusters(Escaped) : Recurs(Stating(g))}
  <1> DEFINE from == [g \in Clusters(Escaped) |-> Stating(g)]
  <1>2. scan' = [at |-> "naming", left |-> left, from |-> from, taken |-> Vocabulary,
                 new |-> [n \in {} |-> "no"], born |-> [n \in {} |-> {}]]
    BY DEF StartScan
  <1>3. \A g \in left : Settled(from, g)
    BY StatingIsOfStories DEF Settled
  <1> HIDE DEF left, from
  <1>4. Vocabulary' = Vocabulary
    BY <1>1 DEF Vocabulary
  <1>5. Naming'
    BY <1>2, <1>3, <1>4 DEF Naming
  <1>6. \A s \in Stories : Awaited(s) => Awaited(s)'
    BY <1>1 DEF Awaited, Asleep
  <1> QED
    BY <1>1, <1>5, <1>6, ScanMoves

LEMMA NameClusterStep ==
  ASSUME MintInv, NEW group, NEW name \in Names \cup Forbidden, NEW shown,
         NEW flagged \in BOOLEAN, NameCluster(group, name, shown, flagged)
  PROVE  MintInv'
  <1>1. scan.at = "naming" /\ group \in scan.left
        /\ UNCHANGED <<known, wanted, reading, minted, behind, kills>>
    BY DEF NameCluster, Largest
  <1>2. Naming
    BY <1>1 DEF MintInv, Asleep, Deferring
  <1>3. Vocabulary' = Vocabulary
    BY <1>1 DEF Vocabulary
  <1>4. Naming'
    <2>1. CASE Reserved(name)
      <3>1. scan' = [scan EXCEPT !.left = @ \ {group}]
        BY <2>1 DEF NameCluster
      <3>2. /\ DOMAIN scan' = DOMAIN scan /\ scan'.at = "naming"
            /\ scan'.left = scan.left \ {group} /\ scan'.from = scan.from
            /\ scan'.taken = scan.taken /\ scan'.new = scan.new /\ scan'.born = scan.born
        BY <1>2, <3>1 DEF Naming
      <3> QED
        BY <1>2, <1>3, <3>2 DEF Naming
    <2>2. CASE ~Reserved(name)
      <3> DEFINE kind == IF Floor(name, shown) \/ flagged THEN "barred" ELSE "column"
      <3> DEFINE new == [n \in DOMAIN scan.new \cup {name} |->
                           IF n = name THEN kind ELSE scan.new[n]]
      <3> DEFINE born == [n \in DOMAIN scan.born \cup {name} |->
                            IF n = name THEN CasesIn(scan.from[group]) ELSE scan.born[n]]
      <3>1. scan' = [scan EXCEPT !.left = @ \ {group}, !.taken = @ \cup {name},
                                 !.new = new, !.born = born]
        BY <2>2 DEF NameCluster
      <3>2. kind \in {"column", "barred"} /\ (kind = "column" => name \notin ProtectedNames)
        BY DEF Floor
      <3>3. name \in Names /\ name \notin scan.taken
        BY <2>2 DEF Reserved
      <3>4. Settled(scan.from, group)
        BY <1>1, <1>2 DEF Naming
      <3> HIDE DEF kind
      <3>5. /\ DOMAIN new = DOMAIN scan.new \cup {name} /\ DOMAIN born = DOMAIN new
            /\ new[name] = kind /\ born[name] = CasesIn(scan.from[group])
            /\ \A n \in DOMAIN scan.new \ {name} : new[n] = scan.new[n] /\ born[n] = scan.born[n]
        BY <1>2 DEF Naming
      <3> HIDE DEF new, born
      <3>6. /\ DOMAIN scan' = DOMAIN scan /\ scan'.at = "naming"
            /\ scan'.left = scan.left \ {group} /\ scan'.from = scan.from
            /\ scan'.taken = scan.taken \cup {name} /\ scan'.new = new /\ scan'.born = born
        BY <1>2, <3>1 DEF Naming
      <3>7. ASSUME NEW n \in DOMAIN new
            PROVE  /\ new[n] \in {"column", "barred"} /\ born[n] \subseteq Stories
                   /\ new[n] = "column" =>
                        Cardinality(born[n]) >= PromoteHeadN /\ n \notin ProtectedNames
        BY <1>2, <3>2, <3>4, <3>5, <3>7 DEF Naming, Settled, Recurs
      <3>8. DOMAIN new \subseteq (scan.taken \cup {name}) \cap (Names \ Vocabulary)
        BY <1>2, <3>3, <3>5 DEF Naming
      <3>9. \A g \in scan.left \ {group} : Settled(scan.from, g)
        BY <1>2 DEF Naming
      <3>10. Vocabulary \subseteq scan.taken \cup {name}
        BY <1>2 DEF Naming
      <3>11. \A n \in DOMAIN scan'.new :
               /\ scan'.new[n] \in {"column", "barred"} /\ scan'.born[n] \subseteq Stories
               /\ scan'.new[n] = "column" =>
                    Cardinality(scan'.born[n]) >= PromoteHeadN /\ n \notin ProtectedNames
        BY <3>6, <3>7
      <3>12. \A g \in scan'.left : Settled(scan'.from, g)
        BY <3>6, <3>9
      <3>13. /\ DOMAIN scan'.new \subseteq scan'.taken \cap (Names \ Vocabulary')
             /\ DOMAIN scan'.born = DOMAIN scan'.new /\ Vocabulary' \subseteq scan'.taken
        BY <1>3, <3>5, <3>6, <3>8, <3>10
      <3>14. DOMAIN scan' = {"at", "left", "from", "taken", "new", "born"}
        BY <1>2, <3>6 DEF Naming
      <3> QED
        BY <3>6, <3>11, <3>12, <3>13, <3>14 DEF Naming
    <2> QED
      BY <2>1, <2>2
  <1>5. \A s \in Stories : Awaited(s) => Awaited(s)'
    BY <1>1 DEF Awaited
  <1> QED
    BY <1>1, <1>4, <1>5, ScanMoves

(* Registering a head defers every case it was born of.                      *)
LEMMA CommitScanStep ==
  ASSUME MintInv, CommitScan
  PROVE  MintInv'
  <1> USE DEF CommitScan
  <1>1. Naming
    BY DEF MintInv, Asleep, Deferring
  <1> DEFINE cases == UNION {scan.born[n] : n \in {m \in DOMAIN scan.new :
                                                     scan.new[m] = "column"}}
  <1>2. scan' = [at |-> "deferring", cases |-> cases]
    OBVIOUS
  <1>3. \A n \in DOMAIN scan.new : scan.new[n] = "column" => scan.born[n] \subseteq cases
    OBVIOUS
  <1>4. cases \subseteq Stories
    BY <1>1 DEF Naming
  <1> HIDE DEF cases
  <1>5. Deferring'
    BY <1>2, <1>4 DEF Deferring
  <1>6. \A n \in Names :
          \/ /\ n \in DOMAIN scan.new /\ minted'[n] = scan.new[n] /\ behind'[n] = scan.born[n]
          \/ /\ n \notin DOMAIN scan.new /\ minted'[n] = minted[n] /\ behind'[n] = behind[n]
    BY <1>1 DEF Register, Naming
  <1>7. MintShape'
    <2>1. minted' \in [Names -> {"no", "column", "barred"}]
      BY <1>1 DEF Register, Naming, MintInv, MintShape
    <2>2. behind' \in [Names -> SUBSET Stories]
      BY <1>1 DEF Naming, MintInv, MintShape
    <2> QED
      BY <2>1, <2>2 DEF MintInv, MintShape
  <1>8. ColumnsEarned'
    BY <1>1, <1>6 DEF ColumnsEarned, MintInv, Naming
  <1>9. HistoryRehomed'
    <2> SUFFICES ASSUME kills = 0, NEW n \in Names, minted'[n] = "column", NEW s \in behind'[n]
                 PROVE  \/ Awaited(s)'
                        \/ reading[s].on /\ n \in reading[s].words
                        \/ \E words \in known[s] : n \in words
      BY DEF HistoryRehomed, Rehomed, Vocabulary
    <2>1. CASE n \in DOMAIN scan.new
      <3>1. s \in cases
        BY <1>3, <1>6, <2>1
      <3> QED
        BY <1>2, <3>1 DEF Awaited
    <2>2. CASE n \notin DOMAIN scan.new
      <3>1. n \in Vocabulary /\ s \in behind[n]
        BY <1>6, <2>2 DEF Vocabulary
      <3>2. \/ s \in wanted
            \/ reading[s].on /\ n \in reading[s].words
            \/ \E words \in known[s] : n \in words
        BY <3>1 DEF MintInv, HistoryRehomed, Rehomed, Awaited
      <3> QED
        BY <3>2 DEF Awaited
    <2> QED
      BY <2>1, <2>2
  <1> QED
    BY <1>5, <1>7, <1>8, <1>9 DEF MintInv

LEMMA RehomeStep ==
  ASSUME MintInv, NEW s \in Stories, Rehome(s)
  PROVE  MintInv'
  <1> USE DEF Rehome
  <1>1. Deferring
    BY DEF MintInv, Asleep, Naming
  <1>2. scan' = [at |-> "deferring", cases |-> scan.cases \ {s}]
    BY <1>1 DEF Deferring
  <1>3. Deferring'
    BY <1>1, <1>2 DEF Deferring
  <1>4. \A t : Awaited(t) => Awaited(t)'
    BY <1>2 DEF Awaited
  <1>5. MintShape' /\ ColumnsEarned'
    BY DEF MintInv, MintShape, ColumnsEarned
  <1>6. HistoryRehomed'
    BY <1>4 DEF MintInv, HistoryRehomed, Rehomed, Vocabulary
  <1> QED
    BY <1>3, <1>5, <1>6 DEF MintInv

LEMMA EndScanStep ==
  ASSUME MintInv, EndScan
  PROVE  MintInv'
  <1>1. scan' = Asleep /\ \A s \in Stories : Awaited(s) => Awaited(s)'
    BY DEF EndScan, Awaited
  <1> QED
    BY <1>1, ScanMoves DEF EndScan

LEMMA MintKillStep ==
  ASSUME MintInv, Kill
  PROVE  MintInv'
  <1> USE DEF Kill
  <1>1. MintShape' /\ ColumnsEarned' /\ kills' # 0
    BY DEF MintInv, MintShape, ColumnsEarned
  <1> QED
    BY <1>1 DEF MintInv, HistoryRehomed, Rehomed

LEMMA MintStepKeeps ==
  ASSUME MintInv, [MintStep]_mintVars
  PROVE  MintInv'
  <1>1. CASE UNCHANGED mintVars
    BY <1>1 DEF mintVars, MintInv, MintShape, Naming, Deferring, ColumnsEarned,
                HistoryRehomed, Rehomed, Vocabulary, Awaited, Settled
  <1> QED
    BY <1>1, ReadStep, FileStep, RehomeStep, StartScanStep, CommitScanStep, EndScanStep,
       MintKillStep, NameClusterStep DEF MintStep

(* Whatever the model names and however the facts cluster, a minted column   *)
(* recurred when it was born, its name is none the floor protects, and while *)
(* no worker dies every case behind it is read again with the column, or     *)
(* about to be.                                                              *)
THEOREM MintingIsRight == MintSpec => []MintedRight
  <1>1. MintInv /\ [MintStep]_mintVars => MintInv'
    BY MintStepKeeps
  <1>2. MintInv => MintedRight
    BY DEF MintInv, MintedRight
  <1> QED
    BY MintStart, <1>1, <1>2, PTL DEF MintSpec

-----------------------------------------------------------------------------
(* PublicEdge. The times still held are the tail of all admissions, cut at   *)
(* the window; each admission of the tenant is one of an address.            *)

Times == 0..MaxTime
EdgeShape ==
  /\ now \in Times
  /\ hits \in [LimitKeys -> Seq(Times)] /\ admitted \in [LimitKeys -> Seq(Times)]

(* The admissions of a key are in order, and none is yet to come.            *)
InOrder(k) ==
  \A i \in DOMAIN admitted[k] :
    admitted[k][i] <= now /\ \A j \in DOMAIN admitted[k] : i <= j => admitted[k][i] <= admitted[k][j]

(* Of the admissions of a key the first d are gone, and those are expired.   *)
Gone(k, d) ==
  /\ Len(hits[k]) = Len(admitted[k]) - d
  /\ \A i \in 1..Len(hits[k]) : hits[k][i] = admitted[k][i + d]
  /\ \A i \in 1..d : Expired(k, admitted[k][i])
Kept(k) == \E d \in 0..Len(admitted[k]) : Gone(k, d)

(* No key is let through too often, wherever the stretch begins.             *)
Unflooded(k) == \A t \in Int : Within(k, t) <= Limit[k]

KeySound(k) == InOrder(k) /\ Kept(k) /\ Unflooded(k)

(* Every admission of the tenant is one of an address, a different one each. *)
Paired(f) ==
  /\ f \in [DOMAIN admitted[TenantKey] -> Addresses \X Nat]
  /\ \A i \in DOMAIN f :
       /\ f[i][2] \in DOMAIN admitted[f[i][1]]
       /\ admitted[f[i][1]][f[i][2]] = admitted[TenantKey][i]
  /\ \A i, j \in DOMAIN f : f[i] = f[j] => i = j

EdgeInv ==
  /\ EdgeShape /\ (\A k \in LimitKeys : KeySound(k)) /\ (\E f : Paired(f))

-----------------------------------------------------------------------------
LEMMA LeastNat ==
  ASSUME NEW S \in SUBSET Nat, S # {}
  PROVE  \E m \in S : \A x \in S : m <= x
  <1> DEFINE Less == OpToRel(<, Nat)
  <1>1. Less = {ss \in Nat \X Nat : ss[1] < ss[2]}
    BY Zenon DEF OpToRel
  <1> HIDE DEF Less
  <1>2. IsWellFoundedOn(Less, Nat)
    BY NatLessThanWellFounded DEF Less
  <1>3. PICK m \in S : \A x \in S : ~(<<x, m>> \in Less)
    BY <1>2, WFMin
  <1>4. ASSUME NEW x \in S, x < m PROVE FALSE
    <2>1. <<x, m>> \in {ss \in Nat \X Nat : ss[1] < ss[2]}
      BY <1>4
    <2> QED
      BY <1>1, <1>3, <2>1
  <1> QED
    BY <1>4

LEMMA EdgeTypes ==
  ASSUME EdgeShape, NEW k \in LimitKeys
  PROVE  /\ now \in Int /\ Window[k] \in Nat /\ Limit[k] \in Nat \ {0} /\ now - Window[k] \in Int
         /\ hits[k] \in Seq(Times) /\ admitted[k] \in Seq(Times)
         /\ Len(hits[k]) \in Nat /\ Len(admitted[k]) \in Nat
         /\ DOMAIN hits[k] = 1..Len(hits[k]) /\ DOMAIN admitted[k] = 1..Len(admitted[k])
         /\ \A i \in 1..Len(hits[k]) : hits[k][i] \in Times /\ hits[k][i] \in Int
         /\ \A i \in 1..Len(admitted[k]) : admitted[k][i] \in Times /\ admitted[k][i] \in Int
  <1>1. now \in Int /\ Window[k] \in Nat /\ Limit[k] \in Nat \ {0} /\ Times \subseteq Int
    BY EdgeAssumption DEF EdgeShape, Times
  <1>2. hits[k] \in Seq(Times) /\ admitted[k] \in Seq(Times)
    BY DEF EdgeShape
  <1>3. ASSUME NEW s \in Seq(Times)
        PROVE  /\ Len(s) \in Nat /\ DOMAIN s = 1..Len(s)
               /\ \A i \in 1..Len(s) : s[i] \in Times
    OBVIOUS
  <1>4. now - Window[k] \in Int
    BY <1>1
  <1> QED
    BY <1>1, <1>2, <1>3, <1>4

(* The loop pops the expired hits at the front, and stops at the first that  *)
(* is not.                                                                   *)
LEMMA PoppedFacts ==
  ASSUME EdgeShape, NEW k \in LimitKeys
  PROVE  /\ Popped(k) \in 0..Len(hits[k])
         /\ \A i \in 1..Popped(k) : Expired(k, hits[k][i])
         /\ Popped(k) < Len(hits[k]) => ~Expired(k, hits[k][Popped(k) + 1])
  <1> DEFINE Stops(n) == /\ \A i \in 1..n : Expired(k, hits[k][i])
                         /\ n < Len(hits[k]) => ~Expired(k, hits[k][n + 1])
  <1> DEFINE live == {i \in 1..Len(hits[k]) : ~Expired(k, hits[k][i])}
  <1>1. Len(hits[k]) \in Nat
    BY EdgeTypes
  <1>2. \E n \in 0..Len(hits[k]) : Stops(n)
    <2>1. CASE live = {}
      <3>1. Stops(Len(hits[k]))
        BY <1>1, <2>1
      <3> QED
        BY <1>1, <3>1
    <2>2. CASE live # {}
      <3>1. live \in SUBSET Nat
        BY <1>1
      <3> HIDE DEF live
      <3>2. PICK m \in live : \A i \in live : m <= i
        BY <2>2, <3>1, LeastNat
      <3> USE DEF live
      <3>3. m \in 1..Len(hits[k]) /\ ~Expired(k, hits[k][m])
        BY <3>2
      <3>4. ASSUME NEW i \in 1..m - 1 PROVE Expired(k, hits[k][i])
        BY <1>1, <3>2, <3>3, <3>4
      <3>5. m - 1 \in 0..Len(hits[k]) /\ (m - 1) + 1 = m
        BY <1>1, <3>3
      <3>6. Stops(m - 1)
        BY <3>3, <3>4, <3>5
      <3> QED
        BY <3>5, <3>6
    <2> QED
      BY <2>1, <2>2
  <1>3. Popped(k) = CHOOSE n \in 0..Len(hits[k]) : Stops(n)
    BY DEF Popped
  <1> HIDE DEF Stops
  <1>4. Popped(k) \in 0..Len(hits[k]) /\ Stops(Popped(k))
    BY <1>2, <1>3
  <1> QED
    BY <1>4 DEF Stops

(* What is held is what was admitted within the window.                      *)
LEMMA HeldFacts ==
  ASSUME EdgeShape, NEW k \in LimitKeys, KeySound(k)
  PROVE  /\ Held(k) \in Seq(Times)
         /\ \E e \in 0..Len(admitted[k]) :
              /\ Len(Held(k)) = Len(admitted[k]) - e
              /\ \A i \in 1..Len(Held(k)) : Held(k)[i] = admitted[k][i + e]
              /\ \A i \in 1..e : Expired(k, admitted[k][i])
              /\ \A i \in (e + 1)..Len(admitted[k]) : ~Expired(k, admitted[k][i])
  <1>1. PICK d \in 0..Len(admitted[k]) : Gone(k, d)
    BY DEF KeySound, Kept
  <1> DEFINE n == Popped(k)
  <1> DEFINE e == d + n
  <1>2. /\ n \in 0..Len(hits[k])
        /\ \A i \in 1..n : Expired(k, hits[k][i])
        /\ n < Len(hits[k]) => ~Expired(k, hits[k][n + 1])
    BY PoppedFacts
  <1> HIDE DEF n
  <1>3. /\ Held(k) \in Seq(Times) /\ Len(Held(k)) = Len(hits[k]) - n
        /\ \A i \in 1..Len(Held(k)) : Held(k)[i] = hits[k][i + n]
    <2>1. Held(k) = SubSeq(hits[k], n + 1, Len(hits[k]))
      BY DEF Held, n
    <2>2. hits[k] \in Seq(Times) /\ Len(hits[k]) \in Nat
      BY EdgeTypes
    <2>3. /\ Held(k) \in Seq(Times)
          /\ Len(Held(k)) = IF n + 1 <= Len(hits[k]) THEN Len(hits[k]) - (n + 1) + 1 ELSE 0
          /\ \A i \in 1..Len(hits[k]) - (n + 1) + 1 : Held(k)[i] = hits[k][(n + 1) + i - 1]
      BY <1>2, <2>1, <2>2, SubSeqProperties
    <2> QED
      BY <1>2, <2>2, <2>3
  <1>4. /\ Len(hits[k]) = Len(admitted[k]) - d
        /\ \A i \in 1..Len(hits[k]) : hits[k][i] = admitted[k][i + d]
        /\ \A i \in 1..d : Expired(k, admitted[k][i])
    BY <1>1 DEF Gone
  <1>5. Len(hits[k]) \in Nat /\ Len(admitted[k]) \in Nat
    BY EdgeTypes
  <1>6. e \in 0..Len(admitted[k]) /\ Len(Held(k)) = Len(admitted[k]) - e
    BY <1>2, <1>3, <1>4, <1>5
  <1>7. ASSUME NEW i \in 1..Len(Held(k)) PROVE Held(k)[i] = admitted[k][i + e]
    <2>1. i + n \in 1..Len(hits[k]) /\ (i + n) + d = i + e
      BY <1>2, <1>3, <1>5
    <2> QED
      BY <1>3, <1>4, <2>1
  <1>8. ASSUME NEW i \in 1..e PROVE Expired(k, admitted[k][i])
    <2>1. CASE i <= d
      BY <1>4, <2>1
    <2>2. CASE i > d
      <3>1. i - d \in 1..n /\ (i - d) + d = i /\ i - d \in 1..Len(hits[k])
        BY <1>2, <1>5, <2>2
      <3>2. hits[k][i - d] = admitted[k][(i - d) + d]
        BY <1>4, <3>1
      <3> QED
        BY <1>2, <3>1, <3>2
    <2> QED
      BY <2>1, <2>2, <1>2
  <1>9. ASSUME NEW i \in (e + 1)..Len(admitted[k]) PROVE ~Expired(k, admitted[k][i])
    <2>1. n < Len(hits[k]) /\ n + 1 \in 1..Len(hits[k]) /\ (n + 1) + d = e + 1
      BY <1>2, <1>4, <1>5, <1>6
    <2>2. ~Expired(k, admitted[k][e + 1])
      BY <1>2, <1>4, <2>1
    <2>3. e + 1 \in 1..Len(admitted[k]) /\ i \in 1..Len(admitted[k]) /\ e + 1 <= i
      BY <1>5, <1>6
    <2>4. admitted[k][e + 1] <= admitted[k][i]
      BY <2>3, EdgeTypes DEF KeySound, InOrder
    <2> QED
      BY <2>2, <2>3, <2>4, EdgeTypes DEF Expired
  <1> QED
    BY <1>3, <1>6, <1>7, <1>8, <1>9

-----------------------------------------------------------------------------
(* What a step does to one key: time passes, the expired go, a hit is let    *)
(* through, or the process has forgotten all.                                *)
Passes(k) == now <= now' /\ hits'[k] = hits[k] /\ admitted'[k] = admitted[k]
Prunes(k) == now' = now /\ hits'[k] = Held(k) /\ admitted'[k] = admitted[k]
Admits(k) ==
  /\ now' = now /\ ~Full(k)
  /\ hits'[k] = Append(Held(k), now) /\ admitted'[k] = Append(admitted[k], now)
Forgets(k) == hits'[k] = <<>> /\ admitted'[k] = <<>>

LEMMA PassesSound ==
  ASSUME EdgeShape, EdgeShape', NEW k \in LimitKeys, KeySound(k), Passes(k)
  PROVE  KeySound(k)'
  <1> USE DEF Passes
  <1>1. now \in Int /\ now' \in Int /\ Window[k] \in Nat
    BY EdgeTypes, EdgeAssumption DEF EdgeShape, Times
  <1>2. ASSUME NEW i \in 1..Len(admitted[k])
        PROVE  (admitted[k][i] <= now => admitted[k][i] <= now')
               /\ (Expired(k, admitted[k][i]) => admitted[k][i] < now' - Window[k])
    <2>1. admitted[k][i] \in Int
      BY EdgeTypes
    <2> QED
      BY <1>1, <2>1 DEF Expired
  <1>3. InOrder(k)'
    BY <1>2, EdgeTypes DEF KeySound, InOrder
  <1>4. Kept(k)'
    <2>1. PICK d \in 0..Len(admitted[k]) : Gone(k, d)
      BY DEF KeySound, Kept
    <2>2. \A i \in 1..d : i \in 1..Len(admitted[k])
      BY EdgeTypes
    <2>3. \A i \in 1..d : admitted'[k][i] < now' - Window[k]
      BY <1>2, <2>1, <2>2 DEF Gone
    <2>4. Gone(k, d)'
      BY <2>1, <2>3 DEF Gone, Expired
    <2> QED
      BY <2>4 DEF Kept
  <1>5. Unflooded(k)'
    BY DEF KeySound, Unflooded, Within
  <1> QED
    BY <1>3, <1>4, <1>5 DEF KeySound

LEMMA PrunesSound ==
  ASSUME EdgeShape, NEW k \in LimitKeys, KeySound(k), Prunes(k)
  PROVE  KeySound(k)'
  <1> USE DEF Prunes
  <1>1. PICK e \in 0..Len(admitted[k]) :
          /\ Len(Held(k)) = Len(admitted[k]) - e
          /\ \A i \in 1..Len(Held(k)) : Held(k)[i] = admitted[k][i + e]
          /\ \A i \in 1..e : Expired(k, admitted[k][i])
    BY HeldFacts
  <1>2. Gone(k, e)'
    BY <1>1 DEF Gone, Expired
  <1> QED
    BY <1>2 DEF KeySound, InOrder, Kept, Unflooded, Within

LEMMA AdmitsSound ==
  ASSUME EdgeShape, NEW k \in LimitKeys, KeySound(k), Admits(k)
  PROVE  KeySound(k)'
  <1> DEFINE len == Len(admitted[k])
  <1> DEFINE new == admitted'[k]
  <1>1. /\ now' = now /\ now \in Int /\ now \in Times /\ Window[k] \in Nat
        /\ Limit[k] \in Nat /\ len \in Nat /\ admitted[k] \in Seq(Times)
        /\ DOMAIN admitted[k] = 1..len
        /\ \A i \in 1..len : admitted[k][i] \in Int
    BY EdgeTypes DEF Admits, EdgeShape
  <1>2. /\ Len(new) = len + 1 /\ DOMAIN new = 1..(len + 1) /\ new[len + 1] = now
        /\ \A i \in 1..len : new[i] = admitted[k][i]
    <2>1. new = Append(admitted[k], now)
      BY DEF Admits
    <2>2. new \in Seq(Times) /\ Len(new) = len + 1
      BY <1>1, <2>1, AppendProperties
    <2> QED
      BY <1>1, <2>1, <2>2, AppendProperties, LenProperties
  <1>3. PICK e \in 0..len :
          /\ Len(Held(k)) = len - e
          /\ \A i \in 1..Len(Held(k)) : Held(k)[i] = admitted[k][i + e]
          /\ \A i \in 1..e : Expired(k, admitted[k][i])
          /\ \A i \in (e + 1)..len : ~Expired(k, admitted[k][i])
    BY HeldFacts
  <1>4. /\ Held(k) \in Seq(Times) /\ Len(hits'[k]) = Len(Held(k)) + 1
        /\ hits'[k][Len(Held(k)) + 1] = now
        /\ \A i \in 1..Len(Held(k)) : hits'[k][i] = Held(k)[i]
    BY <1>1, HeldFacts, AppendProperties DEF Admits
  <1>5. len - e < Limit[k]
    <2>1. ~(Len(Held(k)) >= Limit[k])
      BY DEF Admits, Full
    <2> QED
      BY <1>1, <1>3, <2>1
  <1> HIDE DEF len, new
  <1>6. InOrder(k)'
    <2>1. \A i \in 1..(len + 1) : new[i] <= now
      <3>1. \A i \in 1..len : admitted[k][i] <= now
        BY <1>1 DEF KeySound, InOrder
      <3> QED
        BY <1>1, <1>2, <3>1
    <2>2. ASSUME NEW i \in 1..(len + 1), NEW j \in 1..(len + 1), i <= j PROVE new[i] <= new[j]
      <3>1. CASE j = len + 1
        BY <1>2, <2>1, <3>1
      <3>2. CASE j # len + 1
        <4>1. i \in 1..len /\ j \in 1..len
          BY <1>1, <2>2, <3>2
        <4> QED
          BY <1>1, <1>2, <2>2, <4>1 DEF KeySound, InOrder
      <3> QED
        BY <3>1, <3>2
    <2> QED
      BY <1>1, <1>2, <2>1, <2>2 DEF InOrder, new
  <1>7. Kept(k)'
    <2>1. Len(hits'[k]) = Len(new) - e /\ e \in 0..Len(new)
      BY <1>1, <1>2, <1>3, <1>4
    <2>2. ASSUME NEW i \in 1..Len(hits'[k]) PROVE hits'[k][i] = new[i + e]
      <3>1. CASE i = Len(Held(k)) + 1
        <4>1. i + e = len + 1
          BY <1>1, <1>3, <3>1
        <4> QED
          BY <1>2, <1>4, <3>1, <4>1
      <3>2. CASE i # Len(Held(k)) + 1
        <4>1. i \in 1..Len(Held(k)) /\ i + e \in 1..len
          BY <1>1, <1>3, <1>4, <2>2, <3>2
        <4> QED
          BY <1>2, <1>3, <1>4, <4>1
      <3> QED
        BY <3>1, <3>2
    <2>3. ASSUME NEW i \in 1..e PROVE new[i] < now' - Window[k]
      <3>1. i \in 1..len
        BY <1>1
      <3> QED
        BY <1>1, <1>2, <1>3, <3>1 DEF Expired
    <2> QED
      BY <2>1, <2>2, <2>3 DEF Kept, Gone, Expired, new
  <1>8. ASSUME NEW t \in Int PROVE Within(k, t)' <= Limit[k]
    <2> DEFINE before == {i \in 1..len : admitted[k][i] \in t..t + Window[k]}
    <2> DEFINE after == {i \in 1..(len + 1) : new[i] \in t..t + Window[k]}
    <2>1. Within(k, t)' = Cardinality(after)
      BY <1>2 DEF Within, new
    <2>2. CASE now \notin t..t + Window[k]
      <3>1. after = before
        BY <1>1, <1>2, <2>2
      <3>2. Within(k, t) = Cardinality(before)
        BY <1>1 DEF Within, len
      <3>3. Within(k, t) <= Limit[k]
        BY DEF KeySound, Unflooded
      <3> QED
        BY <2>1, <3>1, <3>2, <3>3
    <2>3. CASE now \in t..t + Window[k]
      <3>1. after \subseteq (e + 1)..(len + 1)
        <4> SUFFICES ASSUME NEW i \in after, ~(i > e) PROVE FALSE
          BY <1>1
        <4>1. i \in 1..e /\ i \in 1..len
          BY <1>1
        <4>2. admitted[k][i] < now - Window[k] /\ admitted[k][i] >= t
          BY <1>1, <1>2, <1>3, <4>1 DEF Expired
        <4> QED
          BY <1>1, <2>3, <4>1, <4>2
      <3>2. IsFiniteSet((e + 1)..(len + 1)) /\ Cardinality((e + 1)..(len + 1)) = len - e + 1
        <4>1. e + 1 \in Int /\ len + 1 \in Int /\ e + 1 <= len + 1
          BY <1>1
        <4>2. IsFiniteSet((e + 1)..(len + 1))
              /\ Cardinality((e + 1)..(len + 1)) = (len + 1) - (e + 1) + 1
          BY <4>1, FS_Interval
        <4>3. (len + 1) - (e + 1) + 1 = len - e + 1
          BY <1>1
        <4> QED
          BY <4>2, <4>3
      <3> HIDE DEF after
      <3>3. IsFiniteSet(after) /\ Cardinality(after) <= len - e + 1
        BY <3>1, <3>2, FS_Subset
      <3>4. Cardinality(after) \in Nat
        BY <3>3, FS_CardinalityType
      <3> QED
        BY <1>1, <1>5, <2>1, <3>3, <3>4
    <2> QED
      BY <2>2, <2>3
  <1> QED
    BY <1>6, <1>7, <1>8 DEF KeySound, Unflooded

LEMMA ForgetsSound ==
  ASSUME NEW k \in LimitKeys, Forgets(k)
  PROVE  KeySound(k)'
  <1>1. /\ Len(hits'[k]) = 0 /\ Len(admitted'[k]) = 0
        /\ DOMAIN admitted'[k] = {} /\ DOMAIN hits'[k] = {}
    BY DEF Forgets
  <1>2. InOrder(k)'
    BY <1>1 DEF InOrder
  <1>3. Gone(k, 0)'
    BY <1>1 DEF Gone
  <1>4. Kept(k)'
    <2>1. 0 \in 0..Len(admitted'[k])
      BY <1>1
    <2> QED
      BY <1>3, <2>1 DEF Kept
  <1>5. Unflooded(k)'
    <2>1. \A t \in Int : Within(k, t)' = 0
      BY <1>1, FS_EmptySet DEF Within
    <2> QED
      BY <2>1, EdgeAssumption DEF Unflooded
  <1> QED
    BY <1>2, <1>4, <1>5 DEF KeySound

Moved(k) == Passes(k) \/ Prunes(k) \/ Admits(k) \/ Forgets(k)
LEMMA MovedSound ==
  ASSUME EdgeShape, EdgeShape', \A k \in LimitKeys : KeySound(k),
         \A k \in LimitKeys : Moved(k)
  PROVE  \A k \in LimitKeys : KeySound(k)'
  BY PassesSound, PrunesSound, AdmitsSound, ForgetsSound DEF Moved

-----------------------------------------------------------------------------
(* The requests.                                                             *)
LEMMA HitMoves ==
  ASSUME EdgeShape, NEW ks \in SUBSET LimitKeys, \A k \in ks : ~Full(k), Hit(ks), now' = now
  PROVE  /\ \A k \in LimitKeys : k \in ks => Admits(k)
         /\ \A k \in LimitKeys : k \notin ks => Passes(k)
  BY EdgeTypes DEF Hit, Admits, Passes, EdgeShape

LEMMA ShapeFollows ==
  ASSUME EdgeShape, \A k \in LimitKeys : KeySound(k), \A k \in LimitKeys : Moved(k),
         now' \in Times, hits' = [k \in LimitKeys |-> hits'[k]],
         admitted' = [k \in LimitKeys |-> admitted'[k]]
  PROVE  EdgeShape'
  <1>1. ASSUME NEW k \in LimitKeys PROVE hits'[k] \in Seq(Times) /\ admitted'[k] \in Seq(Times)
    <2>1. now \in Times /\ hits[k] \in Seq(Times) /\ admitted[k] \in Seq(Times)
          /\ Held(k) \in Seq(Times)
      BY HeldFacts DEF EdgeShape
    <2>2. CASE Admits(k)
      BY <2>1, <2>2, AppendProperties DEF Admits
    <2>3. CASE Passes(k) \/ Prunes(k)
      BY <2>1, <2>3 DEF Passes, Prunes
    <2>4. CASE Forgets(k)
      <3>1. <<>> \in Seq(Times)
        BY EmptySeq
      <3> QED
        BY <2>4, <3>1 DEF Forgets
    <2> QED
      BY <2>2, <2>3, <2>4 DEF Moved
  <1> QED
    BY <1>1 DEF EdgeShape, Times

(* A pairing stands while the tenant is not hit: what addresses are let      *)
(* through only grows.                                                       *)
Grows(k) == Passes(k) \/ Prunes(k) \/ Admits(k)
LEMMA GrowsFacts ==
  ASSUME EdgeShape, NEW k \in LimitKeys, Grows(k)
  PROVE  /\ DOMAIN admitted[k] \subseteq DOMAIN admitted'[k]
         /\ \A i \in DOMAIN admitted[k] : admitted'[k][i] = admitted[k][i]
  <1>1. CASE Admits(k)
    <2>1. admitted'[k] = Append(admitted[k], now) /\ admitted[k] \in Seq(Times) /\ now \in Times
      BY <1>1 DEF Admits, EdgeShape
    <2>2. admitted'[k] \in Seq(Times) /\ Len(admitted'[k]) = Len(admitted[k]) + 1
          /\ \A i \in 1..Len(admitted[k]) : admitted'[k][i] = admitted[k][i]
      BY <2>1, AppendProperties
    <2>3. DOMAIN admitted'[k] = 1..Len(admitted'[k]) /\ DOMAIN admitted[k] = 1..Len(admitted[k])
          /\ Len(admitted[k]) \in Nat
      BY <2>1, <2>2, LenProperties
    <2> QED
      BY <2>2, <2>3
  <1>2. CASE Passes(k) \/ Prunes(k)
    BY <1>2 DEF Passes, Prunes
  <1> QED
    BY <1>1, <1>2 DEF Grows

LEMMA PairingStands ==
  ASSUME EdgeShape, NEW f, Paired(f), \A k \in LimitKeys : Grows(k),
         admitted'[TenantKey] = admitted[TenantKey]
  PROVE  \E g : Paired(g)'
  <1>1. \A i \in DOMAIN f : f[i] \in Addresses \X Nat /\ f[i][1] \in LimitKeys
    BY EdgeAssumption DEF Paired
  <1>2. ASSUME NEW i \in DOMAIN f
        PROVE  /\ f[i][2] \in DOMAIN admitted'[f[i][1]]
               /\ admitted'[f[i][1]][f[i][2]] = admitted'[TenantKey][i]
    BY <1>1, GrowsFacts DEF Paired
  <1>3. Paired(f)'
    BY <1>2 DEF Paired
  <1> QED
    BY <1>3

LEMMA PairingExtends ==
  ASSUME EdgeShape, NEW f, Paired(f), NEW a \in Addresses, Admits(a), Admits(TenantKey),
         \A k \in LimitKeys : Grows(k)
  PROVE  \E g : Paired(g)'
  <1> DEFINE T == TenantKey
  <1> DEFINE n == Len(admitted[T]) + 1
  <1> DEFINE m == Len(admitted[a]) + 1
  <1> DEFINE g == [i \in 1..n |-> IF i = n THEN <<a, m>> ELSE f[i]]
  <1>1. a \in LimitKeys /\ T \in LimitKeys
    BY EdgeAssumption
  <1>2. /\ Len(admitted[T]) \in Nat /\ DOMAIN admitted[T] = 1..Len(admitted[T])
        /\ DOMAIN admitted'[T] = 1..n /\ admitted'[T][n] = now
    <2>1. admitted[T] \in Seq(Times) /\ now \in Times /\ admitted'[T] = Append(admitted[T], now)
      BY <1>1 DEF Admits, EdgeShape
    <2>2. admitted'[T] \in Seq(Times) /\ Len(admitted'[T]) = n /\ admitted'[T][n] = now
      BY <2>1, AppendProperties
    <2> QED
      BY <2>1, <2>2, LenProperties
  <1>3. /\ Len(admitted[a]) \in Nat /\ DOMAIN admitted[a] = 1..Len(admitted[a])
        /\ DOMAIN admitted'[a] = 1..m /\ admitted'[a][m] = now
    <2>1. admitted[a] \in Seq(Times) /\ now \in Times /\ admitted'[a] = Append(admitted[a], now)
      BY <1>1 DEF Admits, EdgeShape
    <2>2. admitted'[a] \in Seq(Times) /\ Len(admitted'[a]) = m /\ admitted'[a][m] = now
      BY <2>1, AppendProperties
    <2> QED
      BY <2>1, <2>2, LenProperties
  <1>4. /\ f \in [1..Len(admitted[T]) -> Addresses \X Nat]
        /\ \A i \in 1..Len(admitted[T]) :
             /\ f[i][2] \in DOMAIN admitted[f[i][1]]
             /\ admitted[f[i][1]][f[i][2]] = admitted[T][i]
        /\ \A i, j \in 1..Len(admitted[T]) : f[i] = f[j] => i = j
    BY <1>2 DEF Paired
  <1> HIDE DEF m
  <1>5. n \in 1..n /\ \A i \in 1..n : i # n => i \in 1..Len(admitted[T])
    BY <1>2
  <1>6. m \in Nat /\ m \notin DOMAIN admitted[a]
    BY <1>3 DEF m
  <1> HIDE DEF n
  <1>7. g \in [1..n -> Addresses \X Nat]
    BY <1>4, <1>5, <1>6
  <1>8. g[n] = <<a, m>> /\ \A i \in 1..n : i # n => g[i] = f[i]
    BY <1>5
  <1> HIDE DEF g
  <1>9. ASSUME NEW i \in 1..n
        PROVE  /\ g[i][2] \in DOMAIN admitted'[g[i][1]]
               /\ admitted'[g[i][1]][g[i][2]] = admitted'[T][i]
    <2>1. CASE i = n
      <3>1. g[i][1] = a /\ g[i][2] = m
        BY <1>8, <2>1
      <3>2. m \in 1..m
        BY <1>3 DEF m
      <3> QED
        BY <1>2, <1>3, <2>1, <3>1, <3>2
    <2>2. CASE i # n
      <3>1. i \in 1..Len(admitted[T]) /\ g[i] = f[i]
        BY <1>5, <1>8, <2>2
      <3>2. f[i][1] \in LimitKeys
        BY <1>4, <3>1, EdgeAssumption
      <3>3. /\ f[i][2] \in DOMAIN admitted'[f[i][1]]
            /\ admitted'[f[i][1]][f[i][2]] = admitted[f[i][1]][f[i][2]]
        BY <1>4, <3>1, <3>2, GrowsFacts
      <3>4. admitted'[T][i] = admitted[T][i]
        BY <1>1, <1>2, <3>1, GrowsFacts
      <3> QED
        BY <1>4, <3>1, <3>3, <3>4
    <2> QED
      BY <2>1, <2>2
  <1>10. ASSUME NEW i \in 1..n, NEW j \in 1..n, g[i] = g[j] PROVE i = j
    <2>1. ASSUME NEW x \in 1..n, x # n PROVE g[x] # <<a, m>>
      <3>1. g[x] = f[x] /\ f[x][2] \in DOMAIN admitted[f[x][1]]
        BY <1>4, <1>5, <1>8, <2>1
      <3> QED
        BY <1>6, <3>1
    <2> QED
      BY <1>4, <1>5, <1>8, <1>10, <2>1
  <1>11. DOMAIN g = 1..n
    BY <1>7
  <1>12. \A i \in 1..n : /\ g[i][2] \in DOMAIN admitted'[g[i][1]]
                        /\ admitted'[g[i][1]][g[i][2]] = admitted'[T][i]
    BY <1>9
  <1>13. \A i, j \in 1..n : g[i] = g[j] => i = j
    BY <1>10
  <1>14. /\ g \in [DOMAIN admitted'[T] -> Addresses \X Nat]
         /\ \A i \in DOMAIN g : /\ g[i][2] \in DOMAIN admitted'[g[i][1]]
                               /\ admitted'[g[i][1]][g[i][2]] = admitted'[T][i]
         /\ \A i, j \in DOMAIN g : g[i] = g[j] => i = j
    BY <1>2, <1>7, <1>11, <1>12, <1>13
  <1>15. PICK h : h = g
    OBVIOUS
  <1>16. Paired(h)'
    BY <1>14, <1>15 DEF Paired
  <1> QED
    BY <1>16

LEMMA SignInMoves ==
  ASSUME EdgeShape, NEW a \in Addresses, SignIn(a)
  PROVE  /\ \A k \in LimitKeys : Grows(k)
         /\ hits' = [k \in LimitKeys |-> hits'[k]] /\ admitted' = [k \in LimitKeys |-> admitted'[k]]
         /\ admitted'[TenantKey] = admitted[TenantKey]
  <1>1. now' = now /\ AuthKey[a] \in LimitKeys /\ TenantKey \in LimitKeys /\ AuthKey[a] # TenantKey
    BY EdgeAssumption DEF SignIn
  <1>2. CASE Full(AuthKey[a])
    <2>1. hits' = Pruned({AuthKey[a]}) /\ admitted' = admitted
      BY <1>2 DEF SignIn
    <2> QED
      BY <1>1, <2>1 DEF Pruned, Grows, Prunes, Passes, EdgeShape, Times
  <1>3. CASE ~Full(AuthKey[a])
    <2>1. Hit({AuthKey[a]})
      BY <1>3 DEF SignIn
    <2>2. /\ \A k \in LimitKeys : k \in {AuthKey[a]} => Admits(k)
          /\ \A k \in LimitKeys : k \notin {AuthKey[a]} => Passes(k)
      BY <1>1, <1>3, <2>1, HitMoves
    <2> QED
      BY <1>1, <2>1, <2>2 DEF Hit, Grows, Passes
  <1> QED
    BY <1>2, <1>3

LEMMA TooManyMoves ==
  ASSUME EdgeShape, NEW a \in Addresses, TooMany(a)
  PROVE  /\ \A k \in LimitKeys : Grows(k)
         /\ hits' = [k \in LimitKeys |-> hits'[k]] /\ admitted' = [k \in LimitKeys |-> admitted'[k]]
         /\ admitted'[TenantKey] = admitted[TenantKey]
  <1>1. now' = now /\ now \in Int /\ a \in LimitKeys /\ TenantKey \in LimitKeys /\ a # TenantKey
    BY EdgeAssumption, EdgeTypes DEF TooMany
  <1>2. CASE Full(a)
    <2>1. hits' = Pruned({a}) /\ admitted' = admitted
      BY <1>2 DEF TooMany, TurnedAway
    <2> QED
      BY <1>1, <2>1 DEF Pruned, Grows, Prunes, Passes, EdgeShape, Times
  <1>3. CASE ~Full(a)
    <2>1. /\ hits' = [Pruned({TenantKey}) EXCEPT ![a] = Append(Held(a), now)]
          /\ admitted' = [admitted EXCEPT ![a] = Append(@, now)]
      BY <1>3 DEF TooMany, TurnedAway
    <2>2. admitted \in [LimitKeys -> Seq(Times)] /\ hits \in [LimitKeys -> Seq(Times)]
      BY DEF EdgeShape
    <2>3. /\ hits' = [k \in LimitKeys |-> hits'[k]] /\ hits'[a] = Append(Held(a), now)
          /\ hits'[TenantKey] = Held(TenantKey)
          /\ \A k \in LimitKeys : k \notin {a, TenantKey} => hits'[k] = hits[k]
      BY <1>1, <2>1 DEF Pruned
    <2>4. /\ admitted' = [k \in LimitKeys |-> admitted'[k]]
          /\ admitted'[a] = Append(admitted[a], now)
          /\ \A k \in LimitKeys : k # a => admitted'[k] = admitted[k]
      BY <1>1, <2>1, <2>2
    <2>5. Admits(a)
      BY <1>1, <1>3, <2>3, <2>4 DEF Admits
    <2>6. Prunes(TenantKey)
      BY <1>1, <2>3, <2>4 DEF Prunes
    <2>7. \A k \in LimitKeys : k \notin {a, TenantKey} => Passes(k)
      BY <1>1, <2>3, <2>4 DEF Passes
    <2> QED
      BY <1>1, <2>3, <2>4, <2>5, <2>6, <2>7 DEF Grows
  <1> QED
    BY <1>2, <1>3

LEMMA LetThroughMoves ==
  ASSUME EdgeShape, NEW a \in Addresses, LetThrough(a), now' = now
  PROVE  /\ \A k \in LimitKeys : Grows(k)
         /\ hits' = [k \in LimitKeys |-> hits'[k]] /\ admitted' = [k \in LimitKeys |-> admitted'[k]]
         /\ Admits(a) /\ Admits(TenantKey)
  <1>1. a \in LimitKeys /\ TenantKey \in LimitKeys
    BY EdgeAssumption
  <1>2. Hit({a, TenantKey}) /\ \A k \in {a, TenantKey} : ~Full(k)
    BY DEF LetThrough
  <1>3. /\ \A k \in LimitKeys : k \in {a, TenantKey} => Admits(k)
        /\ \A k \in LimitKeys : k \notin {a, TenantKey} => Passes(k)
    BY <1>1, <1>2, HitMoves
  <1> QED
    BY <1>1, <1>2, <1>3 DEF Hit, Grows

(* A request that leaves the limiter alone.                                  *)
Aside == UNCHANGED <<hits, admitted>> /\ now' \in Times /\ now <= now'

LEMMA LimiterStep ==
  ASSUME EdgeInv,
         \/ Aside
         \/ \E s \in Secrets : Restart(s)
         \/ \E a \in Addresses :
              now' = now /\ (SignIn(a) \/ TooMany(a) \/ LetThrough(a))
  PROVE  EdgeShape' /\ (\A k \in LimitKeys : KeySound(k)') /\ \E g : Paired(g)'
  <1> DEFINE Formed == /\ hits' = [k \in LimitKeys |-> hits'[k]]
                       /\ admitted' = [k \in LimitKeys |-> admitted'[k]]
  <1>1. /\ EdgeShape /\ \A k \in LimitKeys : KeySound(k)
        /\ now \in Times /\ TenantKey \in LimitKeys
    BY EdgeAssumption DEF EdgeInv, EdgeShape
  <1>2. PICK f : Paired(f)
    BY DEF EdgeInv
  <1>3. ASSUME now' \in Times, Formed, \A k \in LimitKeys : Grows(k)
        PROVE  EdgeShape' /\ \A k \in LimitKeys : KeySound(k)'
    <2>1. \A k \in LimitKeys : Moved(k)
      BY <1>3 DEF Grows, Moved
    <2>2. EdgeShape'
      BY <1>1, <1>3, <2>1, ShapeFollows
    <2> QED
      BY <1>1, <2>1, <2>2, MovedSound
  <1>4. CASE Aside
    <2>1. Formed /\ \A k \in LimitKeys : Grows(k)
      BY <1>1, <1>4 DEF Aside, EdgeShape, Grows, Passes
    <2>2. admitted'[TenantKey] = admitted[TenantKey] /\ now' \in Times
      BY <1>4 DEF Aside
    <2> QED
      BY <1>1, <1>2, <1>3, <2>1, <2>2, PairingStands
  <1>5. ASSUME NEW s \in Secrets, Restart(s) PROVE EdgeShape' /\ (\A k \in LimitKeys : KeySound(k)') /\ \E g : Paired(g)'
    <2>1. /\ now' = now /\ hits' = [k \in LimitKeys |-> <<>>]
          /\ admitted' = [k \in LimitKeys |-> <<>>]
      BY <1>5 DEF Restart
    <2>2. /\ Formed /\ \A k \in LimitKeys : Forgets(k)
      BY <2>1 DEF Forgets
    <2>3. EdgeShape' /\ \A k \in LimitKeys : KeySound(k)'
      <3>1. \A k \in LimitKeys : Moved(k)
        BY <2>2 DEF Moved
      <3>2. EdgeShape'
        BY <1>1, <2>1, <2>2, <3>1, ShapeFollows
      <3> QED
        BY <1>1, <3>1, <3>2, MovedSound
    <2>4. DOMAIN admitted'[TenantKey] = {}
      BY <1>1, <2>1
    <2>5. PICK g : g = [i \in {} |-> <<>>]
      OBVIOUS
    <2>6. Paired(g)'
      BY <2>4, <2>5 DEF Paired
    <2> QED
      BY <2>3, <2>6
  <1>6. ASSUME NEW a \in Addresses, now' = now, SignIn(a) \/ TooMany(a)
        PROVE  EdgeShape' /\ (\A k \in LimitKeys : KeySound(k)') /\ \E g : Paired(g)'
    <2>1. Formed /\ (\A k \in LimitKeys : Grows(k)) /\ admitted'[TenantKey] = admitted[TenantKey]
      BY <1>1, <1>6, SignInMoves, TooManyMoves
    <2> QED
      BY <1>1, <1>2, <1>3, <1>6, <2>1, PairingStands
  <1>7. ASSUME NEW a \in Addresses, now' = now, LetThrough(a)
        PROVE  EdgeShape' /\ (\A k \in LimitKeys : KeySound(k)') /\ \E g : Paired(g)'
    <2>1. Formed /\ (\A k \in LimitKeys : Grows(k)) /\ Admits(a) /\ Admits(TenantKey)
      BY <1>1, <1>7, LetThroughMoves
    <2> QED
      BY <1>1, <1>2, <1>3, <1>7, <2>1, PairingExtends
  <1> QED
    BY <1>4, <1>5, <1>6, <1>7

-----------------------------------------------------------------------------
LEMMA EdgeBegins == EdgeInit => EdgeInv
  <1> SUFFICES ASSUME EdgeInit PROVE EdgeInv
    OBVIOUS
  <1>1. /\ now = 0 /\ request = NoRequest /\ TenantKey \in LimitKeys
        /\ hits = [k \in LimitKeys |-> <<>>] /\ admitted = [k \in LimitKeys |-> <<>>]
        /\ MaxTime \in Nat /\ MaxRequest \in Nat
    BY EdgeAssumption DEF EdgeInit
  <1>2. EdgeShape
    BY <1>1, EmptySeq DEF EdgeShape, Times
  <1>3. ASSUME NEW k \in LimitKeys PROVE KeySound(k)
    <2>1. /\ Len(hits[k]) = 0 /\ Len(admitted[k]) = 0
          /\ DOMAIN admitted[k] = {} /\ DOMAIN hits[k] = {}
      BY <1>1
    <2>2. Gone(k, 0) /\ 0 \in 0..Len(admitted[k])
      BY <2>1 DEF Gone
    <2>3. \A t \in Int : Within(k, t) = 0
      BY <2>1, FS_EmptySet DEF Within
    <2>4. Unflooded(k)
      BY <2>3, EdgeAssumption DEF Unflooded
    <2> QED
      BY <2>1, <2>2, <2>4 DEF KeySound, InOrder, Kept
  <1>4. \E f : Paired(f)
    <2>1. DOMAIN admitted[TenantKey] = {}
      BY <1>1
    <2>2. Paired([i \in {} |-> <<>>])
      BY <2>1 DEF Paired
    <2> QED
      BY <2>2
  <1> QED
    BY <1>2, <1>3, <1>4 DEF EdgeInv

LEMMA EdgeContinues == EdgeInv /\ [EdgeStep]_edgeVars => EdgeInv'
  <1> SUFFICES ASSUME EdgeInv, [EdgeStep]_edgeVars PROVE EdgeInv'
    OBVIOUS
  <1>1. EdgeShape /\ now \in Times /\ MaxTime \in Nat
    BY EdgeAssumption DEF EdgeInv, EdgeShape
  <1> DEFINE Followed == EdgeShape' /\ (\A k \in LimitKeys : KeySound(k)') /\ \E g : Paired(g)'
  <1>2. ASSUME Aside PROVE Followed
    BY <1>2, LimiterStep
  <1>3. ASSUME NEW a \in Addresses, now' = now, SignIn(a) \/ TooMany(a) \/ LetThrough(a)
        PROVE  Followed
    BY <1>3, LimiterStep
  <1>4. CASE EdgeStep
    <2>1. ASSUME Tick PROVE Followed
      <3>1. Aside
        BY <1>1, <2>1 DEF Tick, Aside, Times
      <3> QED
        BY <1>2, <3>1
    <2>2. ASSUME NEW s \in Secrets, Restart(s) PROVE Followed
      BY <2>2, LimiterStep
    <2>3. ASSUME NEW a \in Addresses, SignIn(a) \/ TooMany(a) PROVE Followed
      BY <1>3, <2>3 DEF SignIn, TooMany
    <2>4. ASSUME NEW a \in Addresses, NEW link \in links, NEW origin \in Origins,
                 Answer(a, link, origin)
          PROVE  Followed
      BY <1>3, <2>4 DEF Answer
    <2>5. ASSUME NEW a \in Addresses, NEW key \in EmbedKeys, NEW origin \in Origins,
                 NEW declared \in Declared, NEW text \in Sizes,
                 Submit(a, key, origin, declared, text)
          PROVE  Followed
      BY <1>3, <2>5 DEF Submit
    <2>6. ASSUME NEW size \in Sizes, NEW allowed \in BOOLEAN, ReadFile(size, allowed)
          PROVE  Followed
      <3>1. Aside
        BY <1>1, <2>6 DEF ReadFile, Aside, Times
      <3> QED
        BY <1>2, <3>1
    <2>7. ASSUME FileCase PROVE Followed
      <3>1. Aside
        BY <1>1, <2>7 DEF FileCase, Aside, Times
      <3> QED
        BY <1>2, <3>1
    <2>8. Followed
      BY <1>4, <2>1, <2>2, <2>3, <2>4, <2>5, <2>6, <2>7 DEF EdgeStep
    <2> QED
      BY <2>8 DEF EdgeInv
  <1>5. CASE UNCHANGED edgeVars
    <2>1. Aside
      BY <1>1, <1>5 DEF edgeVars, Aside, Times
    <2>2. Followed
      BY <1>2, <2>1
    <2> QED
      BY <2>2 DEF EdgeInv
  <1> QED
    BY <1>4, <1>5

-----------------------------------------------------------------------------
(* What a key is let through in m stretches of its window, end to end.       *)
Spell(k, s, len) == {i \in DOMAIN admitted[k] : admitted[k][i] \in s..(s + len) - 1}

LEMMA OneMore ==
  ASSUME NEW m \in Nat, NEW w \in Nat
  PROVE  m * w \in Nat /\ (m + 1) * w = m * w + w
  <1>1. m * w \in Int /\ (m + 1) * w = m * w + w
    OBVIOUS
  <1>2. m * w >= 0
    OBVIOUS
  <1> QED
    BY <1>1, <1>2

LEMMA SpellBounded ==
  ASSUME EdgeShape, NEW k \in LimitKeys, Unflooded(k), NEW s \in Int
  PROVE  \A m \in Nat : /\ IsFiniteSet(Spell(k, s, m * (Window[k] + 1)))
                        /\ Cardinality(Spell(k, s, m * (Window[k] + 1))) <= m * Limit[k]
  <1> DEFINE w == Window[k] + 1
  <1> DEFINE Fits(m) == Cardinality(Spell(k, s, m * w)) <= m * Limit[k]
  <1>1. /\ Window[k] \in Nat /\ w \in Nat /\ Limit[k] \in Nat
        /\ Len(admitted[k]) \in Nat /\ DOMAIN admitted[k] = 1..Len(admitted[k])
        /\ \A i \in 1..Len(admitted[k]) : admitted[k][i] \in Int
    BY EdgeTypes
  <1>2. IsFiniteSet(1..Len(admitted[k]))
    BY <1>1, FS_Interval
  <1>3. ASSUME NEW l PROVE IsFiniteSet(Spell(k, s, l)) /\ Cardinality(Spell(k, s, l)) \in Nat
    <2>1. Spell(k, s, l) \subseteq 1..Len(admitted[k])
      BY <1>1 DEF Spell
    <2> QED
      BY <1>2, <2>1, FS_Subset, FS_CardinalityType
  <1> HIDE DEF w
  <1>4. Fits(0)
    <2>1. 0 * w = 0 /\ 0 * Limit[k] = 0
      BY <1>1
    <2>2. Spell(k, s, 0) = {}
      BY DEF Spell
    <2> QED
      BY <2>1, <2>2, FS_EmptySet
  <1>5. ASSUME NEW m \in Nat, Fits(m) PROVE Fits(m + 1)
    <2> DEFINE p == m * w
    <2> DEFINE t == s + p
    <2> DEFINE last == {i \in DOMAIN admitted[k] : admitted[k][i] \in t..t + Window[k]}
    <2> DEFINE q == m * Limit[k]
    <2>1. p \in Int /\ q \in Int /\ (m + 1) * w = p + w /\ (m + 1) * Limit[k] = q + Limit[k]
      BY <1>1, OneMore
    <2> HIDE DEF p, q
    <2>10. t \in Int
      BY <2>1
    <2>2. Spell(k, s, p + w) \subseteq Spell(k, s, p) \cup last
      <3> SUFFICES ASSUME NEW i \in Spell(k, s, p + w), i \notin Spell(k, s, p) PROVE i \in last
        OBVIOUS
      <3>1. i \in DOMAIN admitted[k] /\ admitted[k][i] \in Int
            /\ admitted[k][i] >= s /\ admitted[k][i] <= (s + (p + w)) - 1
            /\ ~(admitted[k][i] <= (s + p) - 1)
        BY <1>1, <2>1 DEF Spell
      <3>2. admitted[k][i] \in t..t + Window[k]
        <4>1. w = Window[k] + 1 /\ Window[k] \in Int
          BY <1>1 DEF w
        <4>2. ASSUME NEW x \in Int, NEW y \in Int, NEW u \in Int, NEW v \in Int,
                     x >= y + u, x <= (y + (u + (v + 1))) - 1
              PROVE  x \in (y + u)..(y + u) + v
          BY <4>2
        <4>3. ~(admitted[k][i] <= (s + p) - 1) => admitted[k][i] >= s + p
          BY <2>1, <3>1
        <4> QED
          BY <2>1, <3>1, <4>1, <4>2, <4>3
      <3> QED
        BY <3>1, <3>2
    <2>3. Cardinality(last) <= Limit[k]
      BY <2>10 DEF Unflooded, Within
    <2>4. IsFiniteSet(last) /\ Cardinality(last) \in Nat
      <3>1. last \subseteq 1..Len(admitted[k])
        BY <1>1
      <3> QED
        BY <1>2, <3>1, FS_Subset, FS_CardinalityType
    <2> HIDE DEF last, t
    <2>5. /\ IsFiniteSet(Spell(k, s, p) \cup last)
          /\ Cardinality(Spell(k, s, p) \cup last)
               = Cardinality(Spell(k, s, p)) + Cardinality(last)
                 - Cardinality(Spell(k, s, p) \cap last)
      BY <1>3, <2>4, FS_Union
    <2>6. Cardinality(Spell(k, s, p) \cap last) \in Nat
      <3>1. Spell(k, s, p) \cap last \in SUBSET last
        OBVIOUS
      <3> QED
        BY <2>4, <3>1, FS_Subset, FS_CardinalityType
    <2>7. Cardinality(Spell(k, s, p + w)) <= Cardinality(Spell(k, s, p) \cup last)
      BY <2>2, <2>5, FS_Subset
    <2>8. Cardinality(Spell(k, s, p)) <= q
      BY <1>5 DEF p, q
    <2>9. Cardinality(Spell(k, s, p + w)) <= q + Limit[k]
      <3>1. Cardinality(Spell(k, s, p)) \in Nat /\ Cardinality(Spell(k, s, p + w)) \in Nat
            /\ Cardinality(Spell(k, s, p) \cup last) \in Nat
        BY <1>3, <2>5, FS_CardinalityType
      <3> QED
        BY <1>1, <2>1, <2>3, <2>4, <2>5, <2>6, <2>7, <2>8, <3>1
    <2> QED
      BY <2>1, <2>9
  <1> DEFINE bad == {m \in Nat : ~Fits(m)}
  <1>6. bad = {}
    <2> SUFFICES ASSUME bad # {} PROVE FALSE
      OBVIOUS
    <2>1. bad \in SUBSET Nat
      OBVIOUS
    <2> HIDE DEF bad
    <2>2. PICK m \in bad : \A x \in bad : m <= x
      BY <2>1, LeastNat
    <2> USE DEF bad
    <2> HIDE DEF Fits
    <2>3. m \in Nat /\ ~Fits(m) /\ m # 0
      BY <1>4, <2>2
    <2>4. m - 1 \in Nat /\ (m - 1) + 1 = m
      BY <2>3
    <2>5. Fits(m - 1)
      BY <2>2, <2>3, <2>4
    <2> QED
      BY <1>5, <2>3, <2>4, <2>5
  <1> QED
    BY <1>3, <1>6 DEF w

LEMMA TenantShared == EdgeInv => NotAlone
  <1> DEFINE T == TenantKey
  <1> DEFINE start == now - Window[T]
  <1> SUFFICES ASSUME EdgeInv, Full(T), \A a, b \in Addresses : Lately(a) /\ Lately(b) => a = b
               PROVE  FALSE
    BY DEF NotAlone
  <1>1. /\ EdgeShape /\ T \in LimitKeys /\ Addresses \subseteq LimitKeys /\ KeySound(T)
        /\ \A a \in Addresses : KeySound(a)
    BY EdgeAssumption DEF EdgeInv
  <1>2. /\ now \in Int /\ Window[T] \in Nat /\ Limit[T] \in Nat \ {0} /\ start \in Int
        /\ Len(admitted[T]) \in Nat /\ DOMAIN admitted[T] = 1..Len(admitted[T])
        /\ \A i \in 1..Len(admitted[T]) : admitted[T][i] \in Int
    BY <1>1, EdgeTypes
  <1>3. PICK f : Paired(f)
    BY DEF EdgeInv
  <1>4. PICK e \in 0..Len(admitted[T]) :
          /\ Len(Held(T)) = Len(admitted[T]) - e
          /\ \A i \in (e + 1)..Len(admitted[T]) : ~Expired(T, admitted[T][i])
    BY <1>1, HeldFacts
  <1> DEFINE I == (e + 1)..Len(admitted[T])
  <1>5. Len(admitted[T]) - e >= Limit[T]
    BY <1>4 DEF Full
  <1>6. ASSUME NEW i \in I
        PROVE  /\ i \in DOMAIN f /\ f[i][1] \in Addresses /\ f[i][2] \in DOMAIN admitted[f[i][1]]
               /\ admitted[f[i][1]][f[i][2]] \in start..now
               /\ f[i] = <<f[i][1], f[i][2]>>
    <2>1. i \in 1..Len(admitted[T]) /\ DOMAIN f = DOMAIN admitted[T]
      BY <1>2, <1>3, <1>4 DEF Paired
    <2>2. f[i] \in Addresses \X Nat
      BY <1>2, <1>3, <2>1 DEF Paired
    <2>3. admitted[T][i] \in start..now
      <3>1. admitted[T][i] \in Int /\ admitted[T][i] <= now
        BY <1>1, <1>2, <2>1 DEF KeySound, InOrder
      <3>2. ~(admitted[T][i] < now - Window[T])
        BY <1>4 DEF Expired
      <3> QED
        BY <1>2, <3>1, <3>2
    <2>4. i \in DOMAIN f /\ f[i][2] \in DOMAIN admitted[f[i][1]]
          /\ admitted[f[i][1]][f[i][2]] = admitted[T][i]
      BY <1>2, <1>3, <2>1 DEF Paired
    <2> HIDE DEF start
    <2> QED
      BY <2>2, <2>3, <2>4
  <1>7. Len(admitted[T]) \in I
    BY <1>2, <1>4, <1>5
  <1> DEFINE a == f[Len(admitted[T])][1]
  <1>8. ASSUME NEW i \in I PROVE Lately(f[i][1])
    <2>1. f[i][2] \in DOMAIN admitted[f[i][1]] /\ admitted[f[i][1]][f[i][2]] >= now - Window[TenantKey]
      BY <1>2, <1>6
    <2> QED
      BY <2>1 DEF Lately
  <1>9. a \in Addresses /\ \A i \in I : f[i][1] = a
    BY <1>6, <1>7, <1>8
  <1>10. PICK n \in 0..Window[T] + 1 :
           n * (Window[a] + 1) > Window[T] /\ n * Limit[a] < Limit[T]
    BY <1>9, EdgeAssumption
  <1> HIDE DEF a, I, start
  <1> DEFINE J == Spell(a, start, n * (Window[a] + 1))
  <1>11. a \in LimitKeys /\ n \in Nat /\ Window[a] \in Nat /\ Limit[a] \in Nat
    BY <1>1, <1>2, <1>9, EdgeAssumption
  <1>12. IsFiniteSet(J) /\ Cardinality(J) <= n * Limit[a] /\ Cardinality(J) \in Nat
    <2>1. Unflooded(a)
      BY <1>1, <1>9 DEF KeySound
    <2>2. IsFiniteSet(J) /\ Cardinality(J) <= n * Limit[a]
      BY <1>1, <1>2, <1>11, <2>1, SpellBounded
    <2> QED
      BY <2>2, FS_CardinalityType
  <1>13. ASSUME NEW i \in I PROVE f[i][2] \in J
    <2>1. f[i][2] \in DOMAIN admitted[a] /\ admitted[a][f[i][2]] \in start..now
      BY <1>6, <1>9
    <2>2. n * (Window[a] + 1) \in Int
      BY <1>11
    <2>3. now <= (start + n * (Window[a] + 1)) - 1
      BY <1>2, <1>10, <2>2 DEF start
    <2>4. admitted[a][f[i][2]] \in start..(start + n * (Window[a] + 1)) - 1
      BY <1>2, <2>1, <2>2, <2>3
    <2> QED
      BY <2>1, <2>4 DEF Spell
  <1> DEFINE h == [i \in I |-> f[i][2]]
  <1> HIDE DEF J
  <1>14. h \in Injection(I, J)
    <2>1. h \in [I -> J]
      BY <1>13
    <2>2. ASSUME NEW i \in I, NEW j \in I, h[i] = h[j] PROVE i = j
      <3>1. f[i] = f[j] /\ i \in DOMAIN f /\ j \in DOMAIN f
        BY <1>6, <1>9, <2>2
      <3> QED
        BY <1>3, <3>1 DEF Paired
    <2> QED
      BY <2>1, <2>2 DEF Injection, IsInjective
  <1>15. Cardinality(I) <= Cardinality(J)
    BY <1>12, <1>14, FS_Injection
  <1>16. Cardinality(I) = Len(admitted[T]) - e
    <2>1. e + 1 \in Int /\ Len(admitted[T]) \in Int /\ ~(e + 1 > Len(admitted[T]))
      BY <1>2, <1>4, <1>5
    <2>2. Cardinality(I) = Len(admitted[T]) - (e + 1) + 1
      BY <2>1, FS_Interval DEF I
    <2> QED
      BY <1>2, <1>4, <2>2
  <1>17. n * Limit[a] \in Int
    BY <1>11
  <1> QED
    BY <1>2, <1>4, <1>5, <1>10, <1>12, <1>15, <1>16, <1>17

(* The limiter of the portal's edge (router.py): no key is let through more  *)
(* often than its limit in any stretch of its window, and it takes two       *)
(* addresses to use up the tenant.                                           *)
THEOREM EdgeIsBounded == EdgeSpec => []EdgeBounded
  <1>1. EdgeInv => EdgeBounded
    <2> SUFFICES ASSUME EdgeInv PROVE EdgeBounded
      OBVIOUS
    <2>1. NeverFlooded
      <3>1. 0..MaxTime \subseteq Int
        BY EdgeAssumption
      <3> QED
        BY <3>1 DEF EdgeInv, KeySound, Unflooded, NeverFlooded
    <2>2. NotAlone
      BY TenantShared
    <2> QED
      BY <2>1, <2>2 DEF EdgeBounded
  <1> QED
    BY <1>1, EdgeBegins, EdgeContinues, PTL DEF EdgeSpec

-----------------------------------------------------------------------------
(* ChatExport. An export whose order its stamps tell is read as it was       *)
(* written, whoever wrote how many posts in it.                              *)

LEMMA AllNat ==
  ASSUME NEW S \in SUBSET Nat, 0 \in S, \A n \in S : n + 1 \in S
  PROVE  S = Nat
  <1> SUFFICES ASSUME Nat \ S # {} PROVE FALSE
    OBVIOUS
  <1>1. PICK m \in Nat \ S : \A x \in Nat \ S : m <= x
    BY LeastNat
  <1>2. m - 1 \in Nat /\ m - 1 \in S
    BY <1>1
  <1> QED
    BY <1>1, <1>2

(* The sequences a concatenation goes through.                               *)
Growing(upto, first, parts) ==
  upto = [i \in 0..Len(parts) |-> IF i = 0 THEN first ELSE upto[i - 1] \o parts[i]]

LEMMA GrowingExists ==
  ASSUME NEW parts, Len(parts) \in Nat, NEW first
  PROVE  \E upto : Growing(upto, first, parts)
  <1> DEFINE Grown(n, f) == f = [i \in 0..n |-> IF i = 0 THEN first ELSE f[i - 1] \o parts[i]]
             S == {n \in Nat : \E f : Grown(n, f)}
  <1>1. 0 \in S
    <2>1. Grown(0, [i \in 0..0 |-> first])
      OBVIOUS
    <2> QED
      BY <2>1
  <1>2. ASSUME NEW n \in S PROVE n + 1 \in S
    <2>1. PICK f : Grown(n, f)
      OBVIOUS
    <2> DEFINE g == [i \in 0..n + 1 |-> IF i = n + 1 THEN f[n] \o parts[n + 1] ELSE f[i]]
    <2>2. Grown(n + 1, g)
      <3>1. ASSUME NEW i \in 0..n + 1
            PROVE  g[i] = IF i = 0 THEN first ELSE g[i - 1] \o parts[i]
        <4>1. CASE i = n + 1
          <5>1. g[i] = f[n] \o parts[n + 1] /\ g[n] = f[n] /\ i # 0 /\ i - 1 = n
            BY <4>1
          <5> HIDE DEF g
          <5> QED
            BY <4>1, <5>1
        <4>2. CASE i \in 0..n
          <5>1. f[i] = IF i = 0 THEN first ELSE f[i - 1] \o parts[i]
            BY <2>1, <4>2
          <5>2. g[i] = f[i] /\ (i # 0 => g[i - 1] = f[i - 1])
            BY <4>2
          <5> QED
            BY <5>1, <5>2
        <4> QED
          BY <4>1, <4>2
      <3> QED
        BY <3>1
    <2> HIDE DEF g, Grown
    <2> QED
      BY <2>2
  <1>3. S = Nat
    <2> HIDE DEF S
    <2> QED
      BY <1>1, <1>2, AllNat DEF S
  <1>4. \E f : Grown(Len(parts), f)
    BY <1>3
  <1> QED
    BY <1>4 DEF Growing

LEMMA ConcatGrows ==
  ASSUME NEW parts, Len(parts) \in Nat, NEW first
  PROVE  \E upto : Growing(upto, first, parts) /\ Concat(first, parts) = upto[Len(parts)]
  <1> DEFINE U == CHOOSE upto : Growing(upto, first, parts)
  <1>1. Growing(U, first, parts)
    BY GrowingExists, Zenon
  <1>2. Concat(first, parts) = U[Len(parts)]
    BY Zenon DEF Concat, Growing
  <1> QED
    BY <1>1, <1>2

-----------------------------------------------------------------------------
(* What an export holds at every place.                                      *)

(* The lines of a post are lines, one for each of its body, the first dated. *)
LEMMA RenderedLines ==
  ASSUME NEW post \in Posts, NEW dayFirst \in BOOLEAN
  PROVE  /\ Rendered(post, dayFirst) \in Seq(Lines)
         /\ Len(Rendered(post, dayFirst)) = Len(post.body)
         /\ Len(post.body) \in Nat \ {0}
         /\ \A k \in 1..Len(post.body) :
              /\ Rendered(post, dayFirst)[k].body = post.body[k]
              /\ IsHeader(Rendered(post, dayFirst)[k]) <=> k = 1
              /\ k = 1 => /\ Rendered(post, dayFirst)[k].stamp = Stamp(post.date, dayFirst)
                          /\ Rendered(post, dayFirst)[k].from = post.from
  <1> DEFINE body == post.body
             L(k) == [stamp |-> IF k = 1 THEN Stamp(post.date, dayFirst) ELSE NoStamp,
                      from |-> IF k = 1 THEN post.from ELSE NoSender, body |-> body[k]]
  <1>1. body \in Seq(Spoken) /\ body # <<>>
    BY DEF Posts
  <1>2. Len(body) \in Nat \ {0} /\ DOMAIN body = 1..Len(body)
    BY <1>1, EmptySeq, LenProperties
  <1>3. post.date \in (1..12) \X (1..31) /\ post.from \in People \cup {NoSender}
    BY DEF Posts
  <1>4. Stamp(post.date, dayFirst) \in (1..31) \X (1..31)
    <2>1. post.date[1] \in 1..12 /\ post.date[2] \in 1..31 /\ post.date = <<post.date[1], post.date[2]>>
      BY <1>3
    <2> QED
      BY <2>1 DEF Stamp
  <1>5. Stamp(post.date, dayFirst) # NoStamp
    BY <1>4, ExportAssumption
  <1>6. \A k \in 1..Len(body) : L(k) \in Lines
    <2> TAKE k \in 1..Len(body)
    <2>1. body[k] \in Spoken
      BY <1>1, ElementOfSeq
    <2> HIDE DEF body
    <2> QED
      BY <1>3, <1>4, <2>1 DEF Lines
  <1>7. Rendered(post, dayFirst) = [k \in 1..Len(body) |-> L(k)]
    BY <1>2 DEF Rendered
  <1> HIDE DEF body
  <1>8. [k \in 1..Len(body) |-> L(k)] \in Seq(Lines) /\ Len([k \in 1..Len(body) |-> L(k)]) = Len(body)
    <2> HIDE DEF L
    <2> QED
      BY <1>2, <1>6
  <1>9. \A k \in 1..Len(body) : Rendered(post, dayFirst)[k] = L(k)
    BY <1>7
  <1> QED
    BY <1>2, <1>5, <1>7, <1>8, <1>9 DEF body, IsHeader

(* E are the ends of the posts of chat in its export T.                      *)
Laid(chat, E, T) ==
  /\ E[0] = Preamble /\ E[Len(chat.posts)] = T /\ T \in Seq(Lines)
  /\ \A i \in 0..Len(chat.posts) : E[i] \in Seq(Lines) /\ Len(E[i]) <= Len(T)
  /\ \A i \in 1..Len(chat.posts) :
       /\ Len(E[i]) = Len(E[i - 1]) + Len(chat.posts[i].body)
       /\ \A k \in 1..Len(chat.posts[i].body) :
            T[Len(E[i - 1]) + k] = Rendered(chat.posts[i], chat.dayFirst)[k]
  /\ \A q \in 1..Len(Preamble) : T[q] = Preamble[q]
  /\ \A q \in 1..Len(T) : IsHeader(T[q]) =>
       \E i \in 1..Len(chat.posts) : T[q].stamp = Stamp(chat.posts[i].date, chat.dayFirst)

LEMMA ExportIsLaid ==
  ASSUME NEW chat \in Genuine
  PROVE  \E E : Laid(chat, E, Export(chat))
  <1> DEFINE N == Len(chat.posts)
             B(i) == chat.posts[i].body
             R == RenderedPosts(chat)
  <1>1. chat.posts \in Seq(Posts) /\ chat.dayFirst \in BOOLEAN
    BY ExportAssumption
  <1>2. N \in Nat /\ DOMAIN chat.posts = 1..N /\ \A i \in 1..N : chat.posts[i] \in Posts
    BY <1>1, LenProperties, ElementOfSeq
  <1>3. R = [i \in 1..N |-> Rendered(chat.posts[i], chat.dayFirst)] /\ Len(R) = N
    BY <1>2 DEF RenderedPosts
  <1>4. ASSUME NEW i \in 1..N
        PROVE  /\ R[i] = Rendered(chat.posts[i], chat.dayFirst)
               /\ R[i] \in Seq(Lines) /\ Len(R[i]) = Len(B(i)) /\ Len(B(i)) \in Nat \ {0}
               /\ \A k \in 1..Len(B(i)) :
                    /\ IsHeader(R[i][k]) <=> k = 1
                    /\ k = 1 => R[i][k].stamp = Stamp(chat.posts[i].date, chat.dayFirst)
    <2> DEFINE post == chat.posts[i]
    <2>1. post \in Posts
      BY <1>2
    <2>2. R[i] = Rendered(post, chat.dayFirst)
      BY <1>3
    <2> HIDE DEF post, R
    <2>3. /\ Rendered(post, chat.dayFirst) \in Seq(Lines)
          /\ Len(Rendered(post, chat.dayFirst)) = Len(post.body) /\ Len(post.body) \in Nat \ {0}
          /\ \A k \in 1..Len(post.body) :
               /\ IsHeader(Rendered(post, chat.dayFirst)[k]) <=> k = 1
               /\ k = 1 => Rendered(post, chat.dayFirst)[k].stamp = Stamp(post.date, chat.dayFirst)
      BY <1>1, <2>1, RenderedLines
    <2> QED
      BY <2>2, <2>3 DEF post
  <1>5. PICK E : Growing(E, Preamble, R) /\ Export(chat) = E[N]
    BY <1>2, <1>3, ConcatGrows DEF Export
  <1> HIDE DEF R, N, B
  <1>6. E[0] = Preamble /\ \A i \in 1..N : E[i] = E[i - 1] \o R[i]
    <2>1. E = [i \in 0..N |-> IF i = 0 THEN Preamble ELSE E[i - 1] \o R[i]]
      BY <1>3, <1>5 DEF Growing
    <2>2. \A i \in 0..N : E[i] = IF i = 0 THEN Preamble ELSE E[i - 1] \o R[i]
      BY <2>1, Zenon
    <2>3. 0 \in 0..N /\ \A i \in 1..N : i \in 0..N /\ i # 0
      BY <1>2
    <2> QED
      BY <2>2, <2>3
  <1>7. Preamble \in Seq(Lines) /\ \A q \in 1..Len(Preamble) : ~IsHeader(Preamble[q])
    BY ExportAssumption, LenProperties
  <1>8. \A i \in 0..N : E[i] \in Seq(Lines)
    <2> DEFINE S == {m \in Nat : m <= N => E[m] \in Seq(Lines)}
    <2>1. 0 \in S
      BY <1>6, <1>7
    <2>2. ASSUME NEW m \in S PROVE m + 1 \in S
      <3> SUFFICES ASSUME m + 1 <= N PROVE E[m + 1] \in Seq(Lines)
        OBVIOUS
      <3>1. m + 1 \in 1..N /\ (m + 1) - 1 = m /\ E[m] \in Seq(Lines)
        BY <1>2
      <3>2. E[m + 1] = E[m] \o R[m + 1] /\ R[m + 1] \in Seq(Lines)
        BY <1>4, <1>6, <3>1
      <3> QED
        BY <3>1, <3>2, ConcatProperties
    <2>3. S = Nat
      <3> HIDE DEF S
      <3> QED
        BY <2>1, <2>2, AllNat DEF S
    <2> QED
      BY <1>2, <2>3
  <1>9. \A i \in 0..N : Len(E[i]) \in Nat
    BY <1>8, LenProperties
  <1>10. ASSUME NEW i \in 1..N
         PROVE  /\ Len(E[i]) = Len(E[i - 1]) + Len(B(i))
                /\ \A q \in 1..Len(E[i - 1]) : E[i][q] = E[i - 1][q]
                /\ \A k \in 1..Len(B(i)) : E[i][Len(E[i - 1]) + k] = R[i][k]
    <2>1. i - 1 \in 0..N /\ i \in 0..N
      BY <1>2
    <2>2. E[i - 1] \in Seq(Lines) /\ R[i] \in Seq(Lines) /\ Len(R[i]) = Len(B(i)) /\ Len(B(i)) \in Nat
      BY <1>4, <1>8, <2>1
    <2>3. Len(E[i - 1]) \in Nat
      BY <1>9, <2>1
    <2>4. E[i] = E[i - 1] \o R[i]
      BY <1>6
    <2> DEFINE before == E[i - 1]
    <2>5. /\ Len(before \o R[i]) = Len(before) + Len(R[i])
          /\ \A q \in 1..Len(before) + Len(R[i]) :
               (before \o R[i])[q] = IF q <= Len(before) THEN before[q] ELSE R[i][q - Len(before)]
      <3> HIDE DEF before
      <3> QED
        BY <2>2, ConcatProperties DEF before
    <2>6. ASSUME NEW k \in 1..Len(B(i)) PROVE E[i][Len(before) + k] = R[i][k]
      <3>1. Len(before) + k \in 1..Len(before) + Len(R[i]) /\ ~(Len(before) + k <= Len(before))
            /\ (Len(before) + k) - Len(before) = k
        BY <2>2, <2>3
      <3> QED
        BY <2>4, <2>5, <3>1
    <2>7. ASSUME NEW q \in 1..Len(before) PROVE E[i][q] = before[q]
      <3>1. q \in 1..Len(before) + Len(R[i]) /\ q <= Len(before)
        BY <2>2, <2>3
      <3> QED
        BY <2>4, <2>5, <3>1
    <2> QED
      BY <2>2, <2>4, <2>5, <2>6, <2>7
  <1> DEFINE Opens(i, m) == Len(E[i]) <= Len(E[m]) /\ \A q \in 1..Len(E[i]) : E[m][q] = E[i][q]
             Dates(m) == \A q \in 1..Len(E[m]) : IsHeader(E[m][q]) =>
                           \E i \in 1..N : E[m][q].stamp = Stamp(chat.posts[i].date, chat.dayFirst)
  <1>11. \A m \in 0..N : (\A i \in 0..m : Opens(i, m)) /\ Dates(m)
    <2> DEFINE S == {m \in Nat : m <= N => (\A i \in 0..m : Opens(i, m)) /\ Dates(m)}
    <2>1. 0 \in S
      <3>1. Opens(0, 0)
        BY <1>2, <1>9
      <3>2. Dates(0)
        BY <1>6, <1>7
      <3> HIDE DEF Opens, Dates
      <3> QED
        BY <3>1, <3>2
    <2>2. ASSUME NEW m \in S PROVE m + 1 \in S
      <3> SUFFICES ASSUME m + 1 <= N PROVE (\A i \in 0..m + 1 : Opens(i, m + 1)) /\ Dates(m + 1)
        OBVIOUS
      <3> DEFINE j == m + 1
      <3>1. j \in 1..N /\ j - 1 = m /\ m \in 0..N /\ j \in 0..N
        BY <1>2
      <3>2. (\A i \in 0..m : Opens(i, m)) /\ Dates(m)
        BY <3>1
      <3>0. \A i \in 0..j : i \in 0..m \/ i = j
        BY <3>1
      <3> HIDE DEF j
      <3>3. /\ Len(E[j]) = Len(E[m]) + Len(B(j))
            /\ \A q \in 1..Len(E[m]) : E[j][q] = E[m][q]
            /\ \A k \in 1..Len(B(j)) : E[j][Len(E[m]) + k] = R[j][k]
        BY <1>10, <3>1
      <3>4. Len(E[m]) \in Nat /\ Len(E[j]) \in Nat /\ Len(B(j)) \in Nat
        BY <1>4, <1>9, <3>1
      <3>5. ASSUME NEW i \in 0..m PROVE Opens(i, j)
        <4>1. Opens(i, m) /\ Len(E[i]) \in Nat
          BY <1>2, <1>9, <3>1, <3>2
        <4>2. Len(E[m]) <= Len(E[j]) /\ Len(E[i]) <= Len(E[m])
          BY <3>3, <3>4, <4>1
        <4>3. ASSUME NEW q \in 1..Len(E[i]) PROVE E[j][q] = E[i][q]
          <5>1. q \in 1..Len(E[m]) /\ E[m][q] = E[i][q]
            BY <3>4, <4>1, <4>2
          <5> QED
            BY <3>3, <5>1
        <4>4. Len(E[i]) <= Len(E[j])
          BY <3>4, <4>1, <4>2
        <4> QED
          BY <4>3, <4>4
      <3>6. Opens(j, j)
        BY <3>4
      <3>7. ASSUME NEW q \in 1..Len(E[j]), IsHeader(E[j][q])
            PROVE  \E i \in 1..N : E[j][q].stamp = Stamp(chat.posts[i].date, chat.dayFirst)
        <4>1. CASE q <= Len(E[m])
          <5>1. q \in 1..Len(E[m]) /\ E[j][q] = E[m][q]
            BY <3>3, <3>4, <4>1
          <5> QED
            BY <3>2, <3>7, <5>1
        <4>2. CASE ~(q <= Len(E[m]))
          <5> DEFINE k == q - Len(E[m])
          <5>1. k \in 1..Len(B(j)) /\ Len(E[m]) + k = q
            <6>1. Len(E[j]) = Len(E[m]) + Len(B(j))
              BY <3>3
            <6> QED
              BY <3>4, <4>2, <6>1
          <5> HIDE DEF k
          <5>2. E[j][q] = R[j][k]
            BY <3>3, <5>1
          <5>3. R[j][k].stamp = Stamp(chat.posts[j].date, chat.dayFirst)
            BY <1>4, <3>1, <3>7, <5>1, <5>2
          <5> QED
            BY <3>1, <5>2, <5>3
        <4> QED
          BY <4>1, <4>2
      <3>8. Dates(j)
        BY <3>7
      <3> HIDE DEF Opens, Dates
      <3>9. ASSUME NEW i \in 0..j PROVE Opens(i, j)
        <4>1. i \in 0..m \/ i = j
          BY <3>0
        <4> QED
          BY <3>5, <3>6, <4>1
      <3> QED
        BY <3>8, <3>9 DEF j
    <2> HIDE DEF Opens, Dates
    <2>3. S = Nat
      <3> HIDE DEF S
      <3> QED
        BY <2>1, <2>2, AllNat DEF S
    <2>4. ASSUME NEW m \in 0..N PROVE (\A i \in 0..m : Opens(i, m)) /\ Dates(m)
      <3>1. m \in Nat /\ m =< N
        BY <1>2
      <3>2. m \in S
        <4> HIDE DEF S
        <4> QED
          BY <2>3, <3>1
      <3>3. m =< N => ((\A i \in 0..m : Opens(i, m)) /\ Dates(m))
        BY <3>2, Zenon
      <3> QED
        BY <3>1, <3>3, Zenon
    <2> QED
      BY <2>4, Zenon
  <1>12. \A i \in 0..N : Opens(i, N)
    <2> HIDE DEF Opens, Dates
    <2> QED
      BY <1>2, <1>11
  <1>13. Dates(N)
    <2> HIDE DEF Opens, Dates
    <2> QED
      BY <1>2, <1>11
  <1> DEFINE T == Export(chat)
  <1>14. ASSUME NEW i \in 1..N, NEW k \in 1..Len(B(i))
         PROVE  T[Len(E[i - 1]) + k] = Rendered(chat.posts[i], chat.dayFirst)[k]
    <2>1. i - 1 \in 0..N /\ i \in 0..N
      BY <1>2
    <2>2. Len(E[i - 1]) + k \in 1..Len(E[i]) /\ E[i][Len(E[i - 1]) + k] = R[i][k]
      BY <1>4, <1>9, <1>10, <2>1
    <2>3. Opens(i, N)
      BY <1>12, <2>1
    <2> QED
      BY <1>4, <1>5, <2>2, <2>3
  <1>15. \A i \in 0..N : E[i] \in Seq(Lines) /\ Len(E[i]) <= Len(T)
    BY <1>5, <1>8, <1>12
  <1>16. T \in Seq(Lines) /\ E[N] = T
    BY <1>2, <1>5, <1>8
  <1>17. \A q \in 1..Len(Preamble) : T[q] = Preamble[q]
    <2>1. Opens(0, N)
      BY <1>2, <1>12
    <2> QED
      BY <1>5, <1>6, <2>1
  <1>18. \A q \in 1..Len(T) : IsHeader(T[q]) =>
           \E i \in 1..N : T[q].stamp = Stamp(chat.posts[i].date, chat.dayFirst)
    BY <1>5, <1>13
  <1>19. \A i \in 1..N : Len(E[i]) = Len(E[i - 1]) + Len(B(i))
    BY <1>10
  <1> HIDE DEF T, Opens, Dates
  <1>20. Laid(chat, E, T)
    BY <1>6, <1>14, <1>15, <1>16, <1>17, <1>18, <1>19 DEF Laid, N, B
  <1> QED
    BY <1>20 DEF T

-----------------------------------------------------------------------------
(* The stamps tell their order, and in that order a date reads as itself.    *)
LEMMA DateReads ==
  ASSUME NEW post \in Posts, NEW dayFirst \in BOOLEAN
  PROVE  Parse(Stamp(post.date, dayFirst), dayFirst) = post.date /\ post.date # NoDate
  <1>1. post.date \in (1..12) \X (1..31)
    BY DEF Posts
  <1>2. PICK a \in 1..12, b \in 1..31 : post.date = <<a, b>>
    BY <1>1
  <1>3. post.date # NoDate
    BY <1>2 DEF NoDate
  <1>4. Parse(Stamp(<<a, b>>, dayFirst), dayFirst) = <<a, b>>
    BY DEF Parse, Stamp
  <1> QED
    BY <1>2, <1>3, <1>4

LEMMA OrderIsTold ==
  ASSUME NEW chat \in Genuine, NEW E, NEW T, Laid(chat, E, T)
  PROVE  DayFirst(T) = chat.dayFirst
  <1> DEFINE N == Len(chat.posts)
             H == Headers(T)
             D == {i \in H : DayLeads(T[i].stamp)}
             M == {i \in H : MonthLeads(T[i].stamp)}
  <1>1. chat.posts \in Seq(Posts) /\ chat.dayFirst \in BOOLEAN /\ Telling(chat)
    BY ExportAssumption
  <1>2. N \in Nat /\ DOMAIN chat.posts = 1..N /\ \A i \in 1..N : chat.posts[i] \in Posts
    BY <1>1, LenProperties, ElementOfSeq
  <1>3. T \in Seq(Lines) /\ Len(T) \in Nat /\ DOMAIN T = 1..Len(T)
    BY LenProperties DEF Laid
  <1>4. IsFiniteSet(H) /\ H \subseteq 1..Len(T)
    <2>1. H \subseteq 1..Len(T)
      BY <1>3 DEF Headers
    <2>2. IsFiniteSet(1..Len(T))
      BY <1>3, FS_Interval
    <2> HIDE DEF H
    <2> QED
      BY <2>1, <2>2, FS_Subset
  <1>5. IsFiniteSet(D) /\ IsFiniteSet(M) /\ Cardinality(D) \in Nat /\ Cardinality(M) \in Nat
    <2>1. D \subseteq H /\ M \subseteq H
      OBVIOUS
    <2> HIDE DEF D, M, H
    <2> QED
      BY <1>4, <2>1, FS_Subset, FS_CardinalityType
  <1>6. ASSUME NEW q \in H
        PROVE  \E i \in 1..N : T[q].stamp = Stamp(chat.posts[i].date, chat.dayFirst)
    BY <1>3, <1>6 DEF Laid, Headers
  <1>7. ASSUME NEW i \in 1..N PROVE \E a \in 1..12, b \in 1..31 : chat.posts[i].date = <<a, b>>
    <2>1. chat.posts[i].date \in (1..12) \X (1..31)
      BY <1>2 DEF Posts
    <2>2. \A d \in (1..12) \X (1..31) : \E a \in 1..12, b \in 1..31 : d = <<a, b>>
      <3> TAKE d \in (1..12) \X (1..31)
      <3>1. d[1] \in 1..12 /\ d[2] \in 1..31 /\ d = <<d[1], d[2]>>
        OBVIOUS
      <3> QED
        BY <3>1
    <2> QED
      BY <2>1, <2>2
  <1>8. CASE chat.dayFirst
    <2>1. ASSUME NEW q \in H PROVE ~MonthLeads(T[q].stamp)
      <3>1. PICK i \in 1..N : T[q].stamp = Stamp(chat.posts[i].date, chat.dayFirst)
        BY <1>6
      <3>2. PICK a \in 1..12, b \in 1..31 : chat.posts[i].date = <<a, b>>
        BY <1>7
      <3>3. T[q].stamp = <<b, a>>
        BY <1>8, <3>1, <3>2 DEF Stamp
      <3> QED
        BY <3>3 DEF MonthLeads
    <2>2. M = {}
      BY <2>1
    <2>3. Cardinality(M) = 0
      BY <2>2, FS_EmptySet
    <2>4. Cardinality(M) <= Cardinality(D)
      BY <1>5, <2>3
    <2> QED
      BY <1>1, <1>8, <2>4 DEF DayFirst
  <1>9. CASE ~chat.dayFirst
    <2>1. ASSUME NEW q \in H PROVE ~DayLeads(T[q].stamp)
      <3>1. PICK i \in 1..N : T[q].stamp = Stamp(chat.posts[i].date, chat.dayFirst)
        BY <1>6
      <3>2. PICK a \in 1..12, b \in 1..31 : chat.posts[i].date = <<a, b>>
        BY <1>7
      <3>3. T[q].stamp = <<a, b>>
        BY <1>9, <3>1, <3>2 DEF Stamp
      <3> QED
        BY <3>3 DEF DayLeads
    <2>2. D = {}
      BY <2>1
    <2>3. Cardinality(D) = 0
      BY <2>2, FS_EmptySet
    <2>4. PICK i \in 1..N : chat.posts[i].date[2] > 12
      BY <1>1, <1>2, <1>9 DEF Telling
    <2> DEFINE q == Len(E[i - 1]) + 1
               line == Rendered(chat.posts[i], chat.dayFirst)[1]
    <2>5. Len(chat.posts[i].body) \in Nat \ {0}
          /\ IsHeader(line) /\ line.stamp = Stamp(chat.posts[i].date, chat.dayFirst)
      <3>1. 1 \in 1..Len(chat.posts[i].body) /\ Len(chat.posts[i].body) \in Nat \ {0}
        BY <1>1, <1>2, RenderedLines
      <3> QED
        BY <1>1, <1>2, <3>1, RenderedLines
    <2>6. T[q] = line
      <3>1. 1 \in 1..Len(chat.posts[i].body)
        BY <2>5
      <3> QED
        BY <3>1 DEF Laid
    <2>7. q \in 1..Len(T)
      <3>1. i - 1 \in 0..N /\ i \in 0..N
        BY <1>2
      <3>2. E[i - 1] \in Seq(Lines) /\ Len(E[i]) <= Len(T)
            /\ Len(E[i]) = Len(E[i - 1]) + Len(chat.posts[i].body)
        BY <3>1 DEF Laid
      <3>3. Len(E[i - 1]) \in Nat
        BY <3>2, LenProperties
      <3> DEFINE before == Len(E[i - 1])
                 all == Len(T)
                 size == Len(chat.posts[i].body)
      <3>4. before \in Nat /\ all \in Nat /\ size \in Nat \ {0} /\ before + size <= all
        BY <1>3, <2>5, <3>2, <3>3
      <3> HIDE DEF before, all, size
      <3>5. before + 1 \in 1..all
        BY <3>4
      <3> QED
        BY <3>5 DEF before, all
    <2>8. MonthLeads(T[q].stamp)
      <3>1. PICK a \in 1..12, b \in 1..31 : chat.posts[i].date = <<a, b>>
        BY <1>7
      <3>2. line.stamp = <<a, b>> /\ b > 12
        BY <1>9, <2>4, <2>5, <3>1 DEF Stamp
      <3> QED
        BY <2>6, <3>2 DEF MonthLeads
    <2>9. q \in M
      <3> HIDE DEF q, line
      <3>1. q \in H
        BY <1>3, <2>5, <2>6, <2>7 DEF Headers
      <3> QED
        BY <2>8, <3>1
    <2>10. Cardinality(M) # 0
      <3> HIDE DEF q, M
      <3> QED
        BY <1>5, <2>9, FS_EmptySet
    <2>11. ~(Cardinality(M) <= Cardinality(D))
      <3> HIDE DEF M, D
      <3> QED
        BY <1>5, <2>3, <2>10
    <2> QED
      BY <1>1, <1>9, <2>11 DEF DayFirst
  <1> QED
    BY <1>1, <1>8, <1>9

(* The lines of an export under its own order: the first of a post is dated, *)
(* no other is, and none before the first post.                              *)
PostRead(chat, E, i) ==
  \A k \in 1..Len(chat.posts[i].body) :
    /\ transcript[Len(E[i - 1]) + k].body = chat.posts[i].body[k]
    /\ k # 1 => Dated(transcript[Len(E[i - 1]) + k]) = NoDate
    /\ k = 1 => /\ Dated(transcript[Len(E[i - 1]) + k]) = chat.posts[i].date
                /\ chat.posts[i].date # NoDate
                /\ transcript[Len(E[i - 1]) + k].from = chat.posts[i].from

LEMMA LinesRead ==
  ASSUME NEW chat \in Genuine, NEW E, Laid(chat, E, transcript)
  PROVE  /\ \A q \in 1..Len(Preamble) : Dated(transcript[q]) = NoDate
         /\ \A i \in 1..Len(chat.posts) : PostRead(chat, E, i)
  <1>1. chat.posts \in Seq(Posts) /\ chat.dayFirst \in BOOLEAN
    BY ExportAssumption
  <1>2. \A i \in 1..Len(chat.posts) : chat.posts[i] \in Posts
    BY <1>1, ElementOfSeq
  <1>3. DayFirst(transcript) = chat.dayFirst
    BY OrderIsTold
  <1>4. ASSUME NEW q \in 1..Len(Preamble) PROVE Dated(transcript[q]) = NoDate
    <2>1. transcript[q] = Preamble[q]
      BY DEF Laid
    <2>2. ~IsHeader(Preamble[q])
      BY ExportAssumption, LenProperties
    <2> QED
      BY <2>1, <2>2 DEF Dated
  <1>5. ASSUME NEW i \in 1..Len(chat.posts), NEW k \in 1..Len(chat.posts[i].body)
        PROVE  LET line == transcript[Len(E[i - 1]) + k] IN
               /\ line.body = chat.posts[i].body[k]
               /\ k # 1 => Dated(line) = NoDate
               /\ k = 1 => /\ Dated(line) = chat.posts[i].date /\ chat.posts[i].date # NoDate
                           /\ line.from = chat.posts[i].from
    <2> DEFINE line == Rendered(chat.posts[i], chat.dayFirst)[k]
    <2>1. transcript[Len(E[i - 1]) + k] = line
      BY DEF Laid
    <2>2. /\ line.body = chat.posts[i].body[k] /\ (IsHeader(line) <=> k = 1)
          /\ k = 1 => line.stamp = Stamp(chat.posts[i].date, chat.dayFirst) /\ line.from = chat.posts[i].from
      BY <1>1, <1>2, RenderedLines
    <2>3. Parse(Stamp(chat.posts[i].date, chat.dayFirst), chat.dayFirst) = chat.posts[i].date
          /\ chat.posts[i].date # NoDate
      BY <1>1, <1>2, DateReads
    <2> HIDE DEF line
    <2>4. Dated(line) = IF k = 1 THEN chat.posts[i].date ELSE NoDate
      BY <1>3, <2>2, <2>3 DEF Dated
    <2> QED
      BY <2>1, <2>2, <2>3, <2>4
  <1> QED
    BY <1>4, <1>5 DEF PostRead

-----------------------------------------------------------------------------
(* The inductive invariant: the reader is before the first post, or has read *)
(* k lines of the i-th and turned out those before it, or is done.           *)
Reading(chat, E, M) ==
  /\ chat \in Genuine /\ Laid(chat, E, transcript) /\ transcript = Export(chat)
  /\ M[0] = <<>> /\ \A i \in 1..Len(chat.posts) : M[i] = M[i - 1] \o Meant(chat.posts[i])
  /\ M[Len(chat.posts)] = Concat(<<>>, MeantPosts(chat))

Half(post, k) == [date |-> post.date, from |-> post.from, body |-> SubSeq(post.body, 1, k)]

AtPreamble == at \in 1..Len(Preamble) + 1 /\ current = NoMessage /\ messages = <<>>
AtPost(chat, E, M) ==
  \E i \in 1..Len(chat.posts) : \E k \in 1..Len(chat.posts[i].body) :
    at = Len(E[i - 1]) + k + 1 /\ current = Half(chat.posts[i], k) /\ messages = M[i - 1]
AtEnd(chat, M) == at = Len(transcript) + 2 /\ messages = M[Len(chat.posts)]

ExportInv ==
  \E chat, E, M : Reading(chat, E, M) /\ (AtPreamble \/ AtPost(chat, E, M) \/ AtEnd(chat, M))

(* A post that was read to its end says what it meant.                       *)
LEMMA FlushedWhole ==
  ASSUME NEW post \in Posts
  PROVE  Flush(Half(post, Len(post.body))) = Meant(post)
  <1>1. post.body \in Seq(Spoken) /\ post.date # NoDate
    BY DateReads DEF Posts
  <1>2. SubSeq(post.body, 1, Len(post.body)) = post.body
    <2> DEFINE body == post.body
               n == Len(body)
               sub == SubSeq(body, 1, n)
    <2>1. n \in Nat /\ \A i \in 1..n : body[i] \in Spoken
      BY <1>1, LenProperties, ElementOfSeq
    <2> HIDE DEF body, n
    <2>2. sub \in Seq(Spoken) /\ Len(sub) = (IF 1 <= n THEN n - 1 + 1 ELSE 0)
          /\ \A i \in 1..n - 1 + 1 : sub[i] = body[1 + i - 1]
      BY <2>1, SubSeqProperties
    <2>3. Len(sub) = n /\ \A i \in 1..n : sub[i] = body[i]
      BY <2>1, <2>2
    <2>4. body \in Seq(Spoken) /\ Len(body) = n
      BY <1>1 DEF body, n
    <2> HIDE DEF sub
    <2>5. sub = body
      BY <2>2, <2>3, <2>4, SeqEqual
    <2> QED
      BY <2>5 DEF sub, n, body
  <1> DEFINE m == Half(post, Len(post.body))
  <1>3. m.date = post.date /\ m.from = post.from /\ m.body = post.body
    BY <1>2 DEF Half
  <1>4. Media(post.body) = (IF ~Pictured(post.body) THEN "none"
                            ELSE IF post.body[1] \in ZipMedia \cap Markers THEN "kept" ELSE "missing")
    BY DEF Media, Marked, Pictured
  <1>5. (Media(post.body) = "none") <=> ~Pictured(post.body)
    BY <1>4
  <1>6. Text(post.body) = Plain(post.body)
    BY <1>5 DEF Text, Plain
  <1> HIDE DEF m
  <1>7. Flush(m) = IF post.from = NoSender THEN <<>>
                   ELSE IF Plain(post.body) = <<>> /\ ~Pictured(post.body) THEN <<>>
                   ELSE <<[date |-> post.date, from |-> post.from, text |-> Plain(post.body),
                           media |-> Media(post.body)]>>
    BY <1>1, <1>3, <1>5, <1>6, Zenon DEF Flush
  <1> QED
    BY <1>4, <1>7 DEF m, Meant

LEMMA ExportInvInit ==
  ASSUME ExportInit
  PROVE  ExportInv
  <1>1. PICK chat \in Genuine : transcript = Export(chat)
    BY DEF ExportInit
  <1>2. PICK E : Laid(chat, E, transcript)
    BY <1>1, ExportIsLaid
  <1>3. chat.posts \in Seq(Posts)
    BY ExportAssumption
  <1> DEFINE N == Len(chat.posts)
             R == MeantPosts(chat)
  <1>4. N \in Nat /\ R = [i \in 1..N |-> Meant(chat.posts[i])] /\ Len(R) = N
    BY <1>3, LenProperties DEF MeantPosts
  <1> HIDE DEF R
  <1>5. PICK M : Growing(M, <<>>, R) /\ Concat(<<>>, R) = M[Len(R)]
    BY <1>4, ConcatGrows
  <1>6. M = [i \in 0..N |-> IF i = 0 THEN <<>> ELSE M[i - 1] \o R[i]]
    BY <1>4, <1>5 DEF Growing
  <1> HIDE DEF N
  <1>7. \A i \in 0..N : M[i] = IF i = 0 THEN <<>> ELSE M[i - 1] \o R[i]
    BY <1>6, Zenon
  <1>8. 0 \in 0..N /\ \A i \in 1..N : i \in 0..N /\ i # 0
    BY <1>4
  <1>9. M[0] = <<>> /\ \A i \in 1..N : M[i] = M[i - 1] \o Meant(chat.posts[i])
    BY <1>4, <1>7, <1>8
  <1>10. Reading(chat, E, M)
    BY <1>1, <1>2, <1>4, <1>5, <1>9 DEF Reading, N, R
  <1>11. AtPreamble
    <2>1. Len(Preamble) \in Nat
      BY ExportAssumption, LenProperties
    <2> QED
      BY <2>1 DEF ExportInit, AtPreamble
  <1> QED
    BY <1>10, <1>11 DEF ExportInv

(* One line more of a post.                                                  *)
LEMMA HalfGrows ==
  ASSUME NEW post \in Posts, NEW k \in 1..Len(post.body) - 1
  PROVE  Append(SubSeq(post.body, 1, k), post.body[k + 1]) = SubSeq(post.body, 1, k + 1)
  <1> DEFINE body == post.body
             n == Len(body)
             s == SubSeq(body, 1, k)
             t == SubSeq(body, 1, k + 1)
  <1>1. n \in Nat /\ \A i \in 1..n : body[i] \in Spoken
    <2>1. body \in Seq(Spoken)
      BY DEF Posts
    <2> QED
      BY <2>1, LenProperties, ElementOfSeq
  <1>2. k \in 1..n - 1
    OBVIOUS
  <1> HIDE DEF body, n
  <1>3. k \in Int /\ k + 1 \in Int /\ (\A i \in 1..k : body[i] \in Spoken)
        /\ (\A i \in 1..k + 1 : body[i] \in Spoken) /\ body[k + 1] \in Spoken
    BY <1>1, <1>2
  <1>4. s \in Seq(Spoken) /\ Len(s) = (IF 1 <= k THEN k - 1 + 1 ELSE 0)
        /\ \A i \in 1..k - 1 + 1 : s[i] = body[1 + i - 1]
    BY <1>3, SubSeqProperties
  <1>5. t \in Seq(Spoken) /\ Len(t) = (IF 1 <= k + 1 THEN k + 1 - 1 + 1 ELSE 0)
        /\ \A i \in 1..k + 1 - 1 + 1 : t[i] = body[1 + i - 1]
    BY <1>3, SubSeqProperties
  <1> HIDE DEF s, t
  <1>6. Len(s) = k /\ \A i \in 1..k : s[i] = body[i]
    BY <1>1, <1>2, <1>4
  <1>7. Len(t) = k + 1 /\ \A i \in 1..k + 1 : t[i] = body[i]
    BY <1>1, <1>2, <1>5
  <1> DEFINE u == Append(s, body[k + 1])
  <1>8. u \in Seq(Spoken) /\ Len(u) = Len(s) + 1 /\ (\A i \in 1..Len(s) : u[i] = s[i])
        /\ u[Len(s) + 1] = body[k + 1]
    BY <1>3, <1>4, AppendProperties
  <1> HIDE DEF u
  <1>9. Len(u) = Len(t) /\ \A i \in 1..Len(u) : u[i] = t[i]
    BY <1>2, <1>6, <1>7, <1>8
  <1>10. u = t
    BY <1>5, <1>8, <1>9, SeqEqual
  <1> QED
    BY <1>10 DEF u, s, t, body

(* Where the reader is, the next line is of the preamble, the next of its    *)
(* post, the first of the next post, or none is left.                        *)
Measures(chat, E) ==
  /\ Len(chat.posts) \in Nat /\ Len(Preamble) \in Nat /\ Len(transcript) \in Nat
  /\ Len(E[0]) = Len(Preamble) /\ Len(E[Len(chat.posts)]) = Len(transcript)
  /\ \A i \in 0..Len(chat.posts) : Len(E[i]) \in Nat /\ Len(E[i]) <= Len(transcript)
  /\ \A i \in 1..Len(chat.posts) :
       /\ chat.posts[i] \in Posts /\ Len(chat.posts[i].body) \in Nat \ {0}
       /\ Len(E[i]) = Len(E[i - 1]) + Len(chat.posts[i].body)

LEMMA ReadingMeasures ==
  ASSUME NEW chat, NEW E, NEW M, Reading(chat, E, M)
  PROVE  Measures(chat, E)
  <1>1. chat \in Genuine /\ Laid(chat, E, transcript)
    BY DEF Reading
  <1>2. chat.posts \in Seq(Posts) /\ chat.dayFirst \in BOOLEAN /\ Preamble \in Seq(Lines)
    BY <1>1, ExportAssumption
  <1>3. Len(chat.posts) \in Nat /\ Len(Preamble) \in Nat /\ transcript \in Seq(Lines)
    BY <1>1, <1>2, LenProperties DEF Laid
  <1>4. Len(transcript) \in Nat
    BY <1>3, LenProperties
  <1>5. \A i \in 1..Len(chat.posts) : chat.posts[i] \in Posts
    BY <1>2, ElementOfSeq
  <1>6. \A i \in 1..Len(chat.posts) : Len(chat.posts[i].body) \in Nat \ {0}
    BY <1>2, <1>5, RenderedLines
  <1>7. ASSUME NEW i \in 0..Len(chat.posts)
        PROVE  Len(E[i]) \in Nat /\ Len(E[i]) <= Len(transcript)
    <2>1. E[i] \in Seq(Lines) /\ Len(E[i]) <= Len(transcript)
      BY <1>1 DEF Laid
    <2> QED
      BY <2>1, LenProperties
  <1> QED
    BY <1>1, <1>3, <1>4, <1>5, <1>6, <1>7 DEF Laid, Measures

(* At the first line of a post the reader turns out what it held and starts  *)
(* the post.                                                                 *)
LEMMA PostStarts ==
  ASSUME NEW chat, NEW E, NEW M, Reading(chat, E, M), ExportStep,
         NEW i \in 1..Len(chat.posts), at = Len(E[i - 1]) + 1,
         messages \o Flush(current) = M[i - 1]
  PROVE  AtPost(chat, E, M)'
  <1> DEFINE body == chat.posts[i].body
  <1>1. Measures(chat, E)
    BY ReadingMeasures
  <1>2. Len(body) \in Nat \ {0} /\ chat.posts[i] \in Posts
        /\ Len(E[i]) = Len(E[i - 1]) + Len(body)
    BY <1>1 DEF Measures
  <1>3. Len(E[i - 1]) \in Nat /\ Len(E[i]) <= Len(transcript) /\ Len(transcript) \in Nat
    <2>1. i - 1 \in 0..Len(chat.posts) /\ i \in 0..Len(chat.posts)
      BY <1>1 DEF Measures
    <2> QED
      BY <1>1, <2>1 DEF Measures
  <1> HIDE DEF body
  <1>4. 1 \in 1..Len(body) /\ at <= Len(transcript) /\ at # Len(transcript) + 1
    <2> DEFINE before == Len(E[i - 1])
               size == Len(body)
               all == Len(transcript)
    <2>1. before \in Nat /\ size \in Nat \ {0} /\ all \in Nat /\ before + size <= all /\ at = before + 1
      BY <1>2, <1>3
    <2> HIDE DEF before, size, all
    <2>2. 1 \in 1..size /\ at <= all /\ at # all + 1
      BY <2>1
    <2> QED
      BY <2>2 DEF size, all
  <1>5. /\ transcript[at].body = body[1] /\ transcript[at].from = chat.posts[i].from
        /\ Dated(transcript[at]) = chat.posts[i].date /\ chat.posts[i].date # NoDate
    <2>1. chat \in Genuine /\ Laid(chat, E, transcript)
      BY DEF Reading
    <2>2. \A j \in 1..Len(body) :
            LET line == transcript[Len(E[i - 1]) + j] IN
            /\ line.body = body[j]
            /\ j = 1 => /\ Dated(line) = chat.posts[i].date /\ chat.posts[i].date # NoDate
                        /\ line.from = chat.posts[i].from
      <3>1. PostRead(chat, E, i)
        BY <2>1, LinesRead
      <3> QED
        BY <3>1 DEF PostRead, body
    <2>3. at = Len(E[i - 1]) + 1
      OBVIOUS
    <2> QED
      BY <1>4, <2>2, <2>3
  <1>6. Start
    BY <1>4, <1>5 DEF ExportStep, Continue, Finish
  <1>7. <<body[1]>> = SubSeq(body, 1, 1)
    <2>1. body[1] \in Spoken
      <3>1. body \in Seq(Spoken)
        BY <1>2 DEF body, Posts
      <3> QED
        BY <1>4, <3>1, ElementOfSeq
    <2>2. \A j \in 1..1 : body[j] \in Spoken
      BY <2>1
    <2> DEFINE s == SubSeq(body, 1, 1)
               u == <<body[1]>>
    <2>3. s \in Seq(Spoken) /\ Len(s) = (IF 1 <= 1 THEN 1 - 1 + 1 ELSE 0)
          /\ \A j \in 1..1 - 1 + 1 : s[j] = body[1 + j - 1]
      BY <2>2, SubSeqProperties
    <2>4. u \in Seq(Spoken) /\ Len(u) = 1 /\ u[1] = body[1]
      BY <2>1
    <2> HIDE DEF s
    <2>5. Len(s) = 1 /\ s[1] = body[1]
      BY <2>3
    <2> HIDE DEF u
    <2>6. Len(u) = Len(s) /\ \A j \in 1..Len(u) : u[j] = s[j]
      BY <2>4, <2>5
    <2>7. u = s
      BY <2>3, <2>4, <2>6, SeqEqual
    <2> QED
      BY <2>7 DEF u, s
  <1>8. current' = Half(chat.posts[i], 1)
    BY <1>5, <1>6, <1>7 DEF Start, Half, body
  <1>9. messages' = M[i - 1] /\ at' = Len(E[i - 1]) + 1 + 1
    BY <1>6 DEF Start
  <1>10. \E k \in 1..Len(body) : at' = Len(E[i - 1]) + k + 1 /\ current' = Half(chat.posts[i], k)
                                 /\ messages' = M[i - 1]
    BY <1>4, <1>8, <1>9
  <1> QED
    BY <1>10 DEF AtPost, body

(* Within a post it takes the next line to what it holds.                    *)
LEMMA PostContinues ==
  ASSUME NEW chat, NEW E, NEW M, Reading(chat, E, M), ExportStep,
         NEW i \in 1..Len(chat.posts), NEW k \in 1..Len(chat.posts[i].body) - 1,
         at = Len(E[i - 1]) + k + 1, current = Half(chat.posts[i], k), messages = M[i - 1]
  PROVE  AtPost(chat, E, M)'
  <1> DEFINE body == chat.posts[i].body
  <1>1. Measures(chat, E)
    BY ReadingMeasures
  <1>2. Len(body) \in Nat \ {0} /\ chat.posts[i] \in Posts
        /\ Len(E[i]) = Len(E[i - 1]) + Len(body)
    BY <1>1 DEF Measures
  <1>3. Len(E[i - 1]) \in Nat /\ Len(E[i]) <= Len(transcript) /\ Len(transcript) \in Nat
    <2>1. i - 1 \in 0..Len(chat.posts) /\ i \in 0..Len(chat.posts)
      BY <1>1 DEF Measures
    <2> QED
      BY <1>1, <2>1 DEF Measures
  <1>4. k \in 1..Len(body) - 1
    OBVIOUS
  <1> HIDE DEF body
  <1>5. /\ k + 1 \in 1..Len(body) /\ k + 1 # 1
        /\ at = Len(E[i - 1]) + (k + 1)
        /\ at' = at + 1 => at' = Len(E[i - 1]) + (k + 1) + 1
        /\ at <= Len(transcript) /\ at # Len(transcript) + 1
    <2> DEFINE before == Len(E[i - 1])
               size == Len(body)
               all == Len(transcript)
    <2>1. before \in Nat /\ size \in Nat \ {0} /\ all \in Nat /\ before + size <= all
          /\ at = before + k + 1 /\ k \in 1..size - 1
      BY <1>2, <1>3, <1>4
    <2> HIDE DEF before, size, all
    <2>2. /\ k + 1 \in 1..size /\ k + 1 # 1 /\ at = before + (k + 1)
          /\ at' = at + 1 => at' = before + (k + 1) + 1
          /\ at <= all /\ at # all + 1
      BY <2>1
    <2> QED
      BY <2>2 DEF before, size, all
  <1>6. transcript[at].body = body[k + 1] /\ Dated(transcript[at]) = NoDate
    <2>1. chat \in Genuine /\ Laid(chat, E, transcript)
      BY DEF Reading
    <2> DEFINE j == k + 1
    <2>2. j \in 1..Len(body) /\ j # 1 /\ at = Len(E[i - 1]) + j
      BY <1>5
    <2> HIDE DEF j
    <2>3. transcript[at].body = body[j] /\ Dated(transcript[at]) = NoDate
      <3>1. \A l \in 1..Len(body) :
              /\ transcript[Len(E[i - 1]) + l].body = body[l]
              /\ l # 1 => Dated(transcript[Len(E[i - 1]) + l]) = NoDate
        <4>1. PostRead(chat, E, i)
          BY <2>1, LinesRead
        <4> QED
          BY <4>1 DEF PostRead, body
      <3>2. at = Len(E[i - 1]) + j
        BY <2>2
      <3> QED
        BY <2>2, <3>1, <3>2
    <2> QED
      BY <2>3 DEF j
  <1>7. Continue
    BY <1>5, <1>6 DEF ExportStep, Start, Finish
  <1>8. chat.posts[i].date # NoDate
    <2>1. chat.posts[i] \in Posts
      BY <1>2
    <2> QED
      BY <2>1, DateReads
  <1>9. current' = [current EXCEPT !.body = Append(@, body[k + 1])]
    BY <1>6, <1>7, <1>8 DEF Continue, Continued, Half
  <1>10. Append(SubSeq(body, 1, k), body[k + 1]) = SubSeq(body, 1, k + 1)
    BY <1>2, <1>4, HalfGrows DEF body
  <1>11. current' = Half(chat.posts[i], k + 1)
    BY <1>9, <1>10 DEF Half, body
  <1>12. messages' = M[i - 1] /\ at' = Len(E[i - 1]) + (k + 1) + 1
    BY <1>5, <1>7 DEF Continue
  <1> DEFINE j == k + 1
  <1>13. j \in 1..Len(body) /\ at' = Len(E[i - 1]) + j + 1 /\ current' = Half(chat.posts[i], j)
    BY <1>5, <1>11, <1>12
  <1> HIDE DEF j
  <1>14. \E l \in 1..Len(body) : at' = Len(E[i - 1]) + l + 1 /\ current' = Half(chat.posts[i], l)
                                 /\ messages' = M[i - 1]
    BY <1>12, <1>13
  <1> QED
    BY <1>14 DEF AtPost, body

(* After the last line it turns out what it held.                            *)
LEMMA ExportEnds ==
  ASSUME NEW chat, NEW E, NEW M, Reading(chat, E, M), ExportStep, at = Len(transcript) + 1,
         messages \o Flush(current) = M[Len(chat.posts)]
  PROVE  AtEnd(chat, M)'
  <1>1. Len(transcript) \in Nat
    BY ReadingMeasures DEF Measures
  <1>2. Finish
    BY <1>1 DEF ExportStep, Start, Continue, More
  <1> QED
    BY <1>1, <1>2 DEF Finish, AtEnd

LEMMA ExportInvStep ==
  ASSUME ExportInv, [ExportStep]_exportVars
  PROVE  ExportInv'
  <1>1. PICK chat, E, M : Reading(chat, E, M) /\ (AtPreamble \/ AtPost(chat, E, M) \/ AtEnd(chat, M))
    BY DEF ExportInv
  <1>2. transcript' = transcript
    BY DEF ExportStep, Start, Continue, Finish, exportVars
  <1>3. Reading(chat, E, M)'
    BY <1>1, <1>2 DEF Reading
  <1>4. Measures(chat, E)
    BY <1>1, ReadingMeasures
  <1> DEFINE N == Len(chat.posts)
  <1>5. SUFFICES (AtPreamble \/ AtPost(chat, E, M) \/ AtEnd(chat, M))'
    BY <1>3 DEF ExportInv
  <1>6. CASE UNCHANGED exportVars
    BY <1>1, <1>6 DEF exportVars, AtPreamble, AtPost, AtEnd
  <1>7. CASE ExportStep /\ AtPreamble
    <2>1. Flush(current) = <<>> /\ messages \o Flush(current) = <<>>
      <3>1. Flush(current) = <<>>
        BY <1>7 DEF AtPreamble, NoMessage, Flush
      <3> QED
        BY <1>7, <3>1 DEF AtPreamble
    <2>2. N \in Nat /\ Len(Preamble) \in Nat /\ Len(transcript) \in Nat /\ Len(E[0]) = Len(Preamble)
          /\ Len(E[0]) <= Len(transcript) /\ Len(E[N]) = Len(transcript) /\ M[0] = <<>>
      BY <1>1, <1>4 DEF Measures, Reading
    <2>3. CASE at <= Len(Preamble)
      <3>1. at \in 1..Len(Preamble) /\ at <= Len(transcript) /\ at # Len(transcript) + 1
            /\ at + 1 \in 1..Len(Preamble) + 1
        BY <1>7, <2>2, <2>3 DEF AtPreamble
      <3>2. Dated(transcript[at]) = NoDate
        BY <1>1, <3>1, LinesRead DEF Reading
      <3>3. Continue
        BY <1>7, <3>1, <3>2 DEF ExportStep, Start, Finish
      <3> QED
        BY <1>7, <3>1, <3>3 DEF AtPreamble, Continue, Continued, NoMessage
    <2>4. CASE ~(at <= Len(Preamble)) /\ N # 0
      <3>1. 1 \in 1..N /\ 1 - 1 = 0 /\ at = Len(E[0]) + 1
        BY <1>7, <2>2, <2>4 DEF AtPreamble
      <3>2. AtPost(chat, E, M)'
        BY <1>1, <1>7, <2>1, <2>2, <3>1, PostStarts
      <3> QED
        BY <3>2
    <2>5. CASE ~(at <= Len(Preamble)) /\ N = 0
      <3>1. at = Len(transcript) + 1 /\ messages \o Flush(current) = M[N]
        BY <1>7, <2>1, <2>2, <2>5 DEF AtPreamble
      <3>2. AtEnd(chat, M)'
        BY <1>1, <1>7, <3>1, ExportEnds
      <3> QED
        BY <3>2
    <2> QED
      BY <2>3, <2>4, <2>5
  <1>8. CASE ExportStep /\ AtPost(chat, E, M)
    <2>1. PICK i \in 1..N : \E k \in 1..Len(chat.posts[i].body) :
            at = Len(E[i - 1]) + k + 1 /\ current = Half(chat.posts[i], k) /\ messages = M[i - 1]
      BY <1>8 DEF AtPost
    <2> DEFINE body == chat.posts[i].body
    <2>2. PICK k \in 1..Len(body) :
            at = Len(E[i - 1]) + k + 1 /\ current = Half(chat.posts[i], k) /\ messages = M[i - 1]
      BY <2>1
    <2>3. Len(body) \in Nat \ {0} /\ chat.posts[i] \in Posts /\ N \in Nat /\ Len(transcript) \in Nat
          /\ Len(E[i]) = Len(E[i - 1]) + Len(body) /\ Len(E[N]) = Len(transcript)
      BY <1>4 DEF Measures
    <2>4. CASE k # Len(body)
      <3>1. k \in 1..Len(body) - 1
        BY <2>3, <2>4
      <3> QED
        BY <1>1, <1>8, <2>2, <3>1, PostContinues
    <2>5. CASE k = Len(body)
      <3>1. M[i] = M[i - 1] \o Meant(chat.posts[i])
        BY <1>1 DEF Reading
      <3>2. Flush(current) = Meant(chat.posts[i])
        BY <2>2, <2>3, <2>5, FlushedWhole
      <3>3. messages \o Flush(current) = M[i]
        BY <2>2, <3>1, <3>2
      <3>4. at = Len(E[i]) + 1
        <4>1. at = Len(E[i - 1]) + Len(body) + 1
          BY <2>2, <2>5
        <4> QED
          BY <2>3, <4>1
      <3>5. CASE i = N
        <4>1. at = Len(transcript) + 1 /\ messages \o Flush(current) = M[N]
          BY <2>3, <3>3, <3>4, <3>5
        <4>2. AtEnd(chat, M)'
          BY <1>1, <1>8, <4>1, ExportEnds
        <4> QED
          BY <4>2
      <3>6. CASE i # N
        <4> DEFINE j == i + 1
        <4>1. j \in 1..N /\ j - 1 = i
          BY <2>3, <3>6
        <4> HIDE DEF j
        <4>2. at = Len(E[j - 1]) + 1 /\ messages \o Flush(current) = M[j - 1]
          BY <3>3, <3>4, <4>1
        <4>3. AtPost(chat, E, M)'
          BY <1>1, <1>8, <4>1, <4>2, PostStarts
        <4> QED
          BY <4>3
      <3> QED
        BY <3>5, <3>6
    <2> QED
      BY <2>4, <2>5
  <1>9. CASE ExportStep /\ AtEnd(chat, M)
    <2>1. Len(transcript) \in Nat /\ at = Len(transcript) + 2
      BY <1>4, <1>9 DEF AtEnd, Measures
    <2> QED
      BY <1>9, <2>1 DEF ExportStep, Start, Continue, Finish, More
  <1> QED
    BY <1>1, <1>6, <1>7, <1>8, <1>9

(* A reader that is done has turned out what every post meant.               *)
LEMMA ExportInvReads ==
  ASSUME ExportInv
  PROVE  GenuineRead
  <1> SUFFICES ASSUME ReadWhole
               PROVE  \E chat \in Genuine : /\ transcript = Export(chat)
                                            /\ messages = Concat(<<>>, MeantPosts(chat))
    BY DEF GenuineRead
  <1>1. PICK chat, E, M : Reading(chat, E, M) /\ (AtPreamble \/ AtPost(chat, E, M) \/ AtEnd(chat, M))
    BY DEF ExportInv
  <1>2. Measures(chat, E)
    BY <1>1, ReadingMeasures
  <1>3. ~AtPreamble
    BY <1>2 DEF AtPreamble, ReadWhole, Measures
  <1>4. ASSUME AtPost(chat, E, M) PROVE FALSE
    <2>1. PICK i \in 1..Len(chat.posts) : \E k \in 1..Len(chat.posts[i].body) : at = Len(E[i - 1]) + k + 1
      BY <1>4 DEF AtPost
    <2>2. PICK k \in 1..Len(chat.posts[i].body) : at = Len(E[i - 1]) + k + 1
      BY <2>1
    <2> DEFINE before == Len(E[i - 1])
               size == Len(chat.posts[i].body)
               all == Len(transcript)
    <2>3. i - 1 \in 0..Len(chat.posts) /\ i \in 0..Len(chat.posts)
      BY <1>2 DEF Measures
    <2>4. before \in Nat /\ size \in Nat \ {0} /\ all \in Nat /\ before + size <= all
      BY <1>2, <2>3 DEF Measures
    <2>5. k \in 1..size /\ at = before + k + 1 /\ at > all + 1
      BY <2>2 DEF ReadWhole
    <2> HIDE DEF before, size, all
    <2> QED
      BY <2>4, <2>5
  <1> QED
    BY <1>1, <1>3, <1>4 DEF AtEnd, Reading

(* An export whose order its stamps tell is read as it was written: every    *)
(* message a person sent, with its date, its text and its picture, and       *)
(* nothing else (parse_whatsapp_export).                                     *)
THEOREM ExportIsRead == ExportSpec => []GenuineRead
  <1>1. ExportInit => ExportInv
    BY ExportInvInit
  <1>2. ExportInv /\ [ExportStep]_exportVars => ExportInv'
    BY ExportInvStep
  <1>3. ExportInv => GenuineRead
    BY ExportInvReads
  <1> QED
    BY <1>1, <1>2, <1>3, PTL DEF ExportSpec
=============================================================================
