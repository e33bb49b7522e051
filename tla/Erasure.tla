------------------------------ MODULE Erasure -------------------------------
(* A workspace is erased while the service runs: scripts/delete_tenant.py    *)
(* against signed-in uploads, with the content-addressed originals in the    *)
(* object store that workspaces share (backends/cloud/blob_minio.py).        *)
EXTENDS Accounts

CONSTANTS
  Closing,      \* bound: the workspaces the operator is asked to erase
  Hashes,       \* the contents, which are also the object keys
  MaxCrashes    \* bound: how often the tool dies

ASSUME ErasureAssumption ==
  Closing \subseteq Workspaces /\ None \notin Hashes /\ MaxCrashes \in Nat

VARIABLES
  rows,       \* source_document: per workspace, the contents it has
  blobs,      \* the objects in the bucket
  pending,    \* deletion_blob_pending: per workspace, keys still to look at
  eraser,     \* the running tool
  crashes,
  straddled,  \* history: per workspace, contents stored after the tool had
              \*   emptied its documents and before it deleted the workspace
  raced       \* history: contents stored while their key was being erased

vars == <<workspaces, gone, users, sessions, clients,
          rows, blobs, pending, eraser, crashes, straddled, raced>>
storeVars == <<rows, blobs, pending, eraser, crashes, straddled, raced>>
ghosts == <<straddled, raced>>

Off == [phase |-> "off"]

Init ==
  /\ AccountsInit
  /\ rows = [w \in Workspaces |-> {}] /\ blobs = {}
  /\ pending = [w \in Workspaces |-> {}] /\ eraser = Off /\ crashes = 0
  /\ straddled = [w \in Workspaces |-> {}] /\ raced = {}

-----------------------------------------------------------------------------
(* An upload: a request that is let in, and ingest_messages for one document.*)

Uploading(c) == clients[c].phase \in {"look", "put", "insert", "commit"}
InWorkspace(w) == {c \in Clients : Uploading(c) /\ clients[c].workspace = w}

Request(c, h) ==
  /\ Enter(c, [phase |-> "open", workspace |-> sessions[c].workspace, hash |-> h])
  /\ UNCHANGED storeVars

(* A session references its membership, which the tool may have deleted and  *)
(* not committed: then it is waited for. It is a row the tool has not seen.  *)
MembersDeleted(w) == eraser # Off /\ eraser.workspace = w /\ eraser.phase = "tenant"
LoginRow(c) ==
  /\ LoginEnds(c) /\ ~MembersDeleted(clients[c].workspace)
  /\ eraser' = IF eraser = Off THEN eraser ELSE [eraser EXCEPT !.sessions = @ \ {c}]
  /\ UNCHANGED <<rows, blobs, pending, crashes, straddled, raced>>

(* create_case references the workspace and so keeps its row from being      *)
(* deleted until the upload ends; a workspace that is gone refuses the case. *)
(* Nothing the tool does before it comes to that row keeps the case out.     *)
OpenCase(c) ==
  /\ clients[c].phase = "open"
  /\ clients' = [clients EXCEPT ![c] =
       IF clients[c].workspace \in workspaces THEN [@ EXCEPT !.phase = "look"] ELSE Idle]
  /\ UNCHANGED <<workspaces, gone, users, sessions, rows, blobs, pending, eraser, crashes, ghosts>>

(* blob.put: an object that exists is left as it is.                         *)
Look(c) ==
  /\ clients[c].phase = "look"
  /\ clients' = [clients EXCEPT ![c].phase = IF clients[c].hash \in blobs THEN "insert"
                                             ELSE "put"]
  /\ UNCHANGED <<workspaces, gone, users, sessions, rows, blobs, pending, eraser, crashes, ghosts>>
Put(c) ==
  /\ clients[c].phase = "put"
  /\ blobs' = blobs \cup {clients[c].hash}
  /\ clients' = [clients EXCEPT ![c].phase = "insert"]
  /\ UNCHANGED <<workspaces, gone, users, sessions, rows, pending, eraser, crashes, ghosts>>

(* add_source_document: a row that the tool has deleted and not committed is *)
(* waited for.                                                               *)
Doomed(w, h) == eraser # Off /\ eraser.workspace = w /\ h \in eraser.doomed
Insert(c) ==
  /\ clients[c].phase = "insert" /\ ~Doomed(clients[c].workspace, clients[c].hash)
  /\ clients' = [clients EXCEPT ![c].phase = "commit"]
  /\ UNCHANGED <<workspaces, gone, users, sessions, rows, blobs, pending, eraser, crashes, ghosts>>
Emptied(w) == eraser # Off /\ eraser.workspace = w /\ eraser.phase \in {"members", "tenant"}
LookedUp(h) == eraser # Off /\ eraser.phase = "blobs" /\ eraser.key = h
UploadCommits(c) ==
  /\ clients[c].phase = "commit"
  /\ rows' = [rows EXCEPT ![clients[c].workspace] = @ \cup {clients[c].hash}]
  /\ clients' = [clients EXCEPT ![c] = Idle]
  /\ raced' = IF clients[c].hash \notin blobs \/ LookedUp(clients[c].hash)
                THEN raced \cup {clients[c].hash} ELSE raced
  /\ straddled' = IF Emptied(clients[c].workspace)
                    THEN [straddled EXCEPT ![clients[c].workspace] = @ \cup {clients[c].hash}]
                    ELSE straddled
  /\ UNCHANGED <<workspaces, gone, users, sessions, blobs, pending, eraser, crashes>>

(* A rollback leaves the object behind (ingest.py: "unreferenced (harmless,  *)
(* dedup-safe) objects").                                                    *)
UploadFails(c) ==
  /\ Uploading(c) \/ clients[c].phase = "open"
  /\ clients' = [clients EXCEPT ![c] = Idle]
  /\ UNCHANGED <<workspaces, gone, users, sessions, rows, blobs, pending, eraser, crashes, ghosts>>

UploadStep(c) == OpenCase(c) \/ Look(c) \/ Put(c) \/ Insert(c) \/ UploadCommits(c)
                 \/ UploadFails(c)

-----------------------------------------------------------------------------
(* delete_tenant.main: first transaction                                     *)

(* The keys of the workspace's documents go on the pending ledger.           *)
Collect(w) ==
  /\ eraser = Off /\ w \in workspaces
  /\ eraser' = [phase |-> "sessions", workspace |-> w, keys |-> rows[w],
                doomed |-> {}, sessions |-> {}]
  /\ UNCHANGED <<workspaces, gone, users, sessions, clients, rows, blobs, pending, crashes, ghosts>>

(* The tables that carry the workspace are emptied one after the other, by   *)
(* name, each as its statement finds it; what comes later stays.             *)
SessionsOf(w) == {c \in Clients : sessions[c] # NoSession /\ sessions[c].workspace = w}
DeleteSessions ==
  /\ eraser.phase = "sessions"
  /\ eraser' = [eraser EXCEPT !.phase = "documents", !.sessions = SessionsOf(eraser.workspace)]
  /\ UNCHANGED <<workspaces, gone, users, sessions, clients, rows, blobs, pending, crashes, ghosts>>

DeleteListed(w) == eraser.keys                 \* a slip, for the mutation runs
Carrying(w) == rows[w]
DeleteDocuments ==
  /\ eraser.phase = "documents"
  /\ eraser' = [eraser EXCEPT !.phase = "members", !.doomed = Carrying(eraser.workspace)]
  /\ straddled' = [straddled EXCEPT ![eraser.workspace] = {}]
  /\ UNCHANGED <<workspaces, gone, users, sessions, clients, rows, blobs, pending, crashes,
                 raced>>

DeleteMembers ==
  /\ eraser.phase = "members"
  /\ eraser' = [eraser EXCEPT !.phase = "tenant"]
  /\ UNCHANGED <<workspaces, gone, users, sessions, clients, rows, blobs, pending, crashes, ghosts>>

AllUsers(w) == users                           \* a slip, for the mutation runs
Remaining(w) == {u \in users : u.workspace # w}
(* The workspace's own row is waited for, then deleted, with the users who   *)
(* belong to no other one; the transaction commits. An upload that waits for *)
(* a document the tool deleted, while the tool waits for the upload, fails.  *)
DeleteTenant ==
  /\ eraser.phase = "tenant" /\ InWorkspace(eraser.workspace) = {}
  /\ LET w == eraser.workspace IN
       /\ workspaces' = workspaces \ {w}
       /\ users' = Remaining(w)
       /\ sessions' = [c \in Clients |-> IF c \in eraser.sessions \cap SessionsOf(w)
                                          THEN NoSession ELSE sessions[c]]
       /\ rows' = [rows EXCEPT ![w] = @ \ eraser.doomed]
       /\ pending' = [pending EXCEPT ![w] = @ \cup eraser.keys]
       /\ gone' = gone \cup {w}
       /\ eraser' = [phase |-> "blobs", workspace |-> w, todo |-> eraser.keys,
                     doomed |-> {}, sessions |-> {}, key |-> None, referenced |-> FALSE]
  /\ UNCHANGED <<clients, blobs, crashes, straddled, raced>>

(* Run again after the rows are gone, the tool takes the ledger up.          *)
ResumeIfPresent(w) == w \in workspaces         \* a slip, for the mutation runs
Resumable(w) == w \notin workspaces /\ pending[w] # {}
Resume(w) ==
  /\ eraser = Off /\ Resumable(w)
  /\ eraser' = [phase |-> "blobs", workspace |-> w, todo |-> pending[w],
                doomed |-> {}, sessions |-> {}, key |-> None, referenced |-> FALSE]
  /\ UNCHANGED <<workspaces, gone, users, sessions, clients, rows, blobs, pending, crashes, ghosts>>

(* Second transaction: each key is looked up in every workspace's documents, *)
(* and the object is deleted if none has it.                                 *)
OwnRows(h) == h \in rows[eraser.workspace]     \* a slip, for the mutation runs
Referenced(h) == \E w \in Workspaces : h \in rows[w]
Check(h) ==
  /\ eraser.phase = "blobs" /\ eraser.key = None /\ h \in eraser.todo
  /\ eraser' = [eraser EXCEPT !.key = h, !.referenced = Referenced(h)]
  /\ UNCHANGED <<workspaces, gone, users, sessions, clients, rows, blobs, pending, crashes, ghosts>>

DeleteObject ==
  /\ eraser.phase = "blobs" /\ eraser.key # None
  /\ blobs' = IF eraser.referenced THEN blobs ELSE blobs \ {eraser.key}
  /\ eraser' = [eraser EXCEPT !.todo = @ \ {eraser.key}, !.key = None, !.referenced = FALSE]
  /\ UNCHANGED <<workspaces, gone, users, sessions, clients, rows, pending, crashes, ghosts>>

(* The ledger is cleared when every object has been seen to.                 *)
Finish ==
  /\ eraser.phase = "blobs" /\ eraser.todo = {}
  /\ pending' = [pending EXCEPT ![eraser.workspace] = {}]
  /\ eraser' = Off
  /\ UNCHANGED <<workspaces, gone, users, sessions, clients, rows, blobs, crashes, ghosts>>

Crash ==
  /\ eraser # Off /\ crashes < MaxCrashes
  /\ crashes' = crashes + 1 /\ eraser' = Off
  /\ UNCHANGED <<workspaces, gone, users, sessions, clients, rows, blobs, pending, ghosts>>

EraseStep == DeleteSessions \/ DeleteDocuments \/ DeleteMembers \/ DeleteTenant
             \/ (\E h \in Hashes : Check(h)) \/ DeleteObject
             \/ Finish \/ \E w \in Workspaces : Resume(w)

Next == \/ \E c \in Clients : AccountStep(c) /\ UNCHANGED storeVars
        \/ \E c \in Clients : LoginRow(c)
        \/ \E c \in Clients, h \in Hashes : Request(c, h)
        \/ \E c \in Clients : UploadStep(c)
        \/ \E w \in Closing : Collect(w)
        \/ EraseStep \/ Crash

(* The operator runs the tool again until it ends; uploads end one way or    *)
(* the other.                                                                *)
Spec == /\ Init /\ [][Next]_vars
        /\ WF_vars(EraseStep)
        /\ \A c \in Clients : WF_vars(UploadStep(c))

-----------------------------------------------------------------------------
(* Properties                                                                *)

UserRow == [email : Emails, workspace : Workspaces]
TypeOK ==
  /\ workspaces \subseteq Workspaces /\ users \subseteq UserRow
  /\ DOMAIN sessions = Clients /\ DOMAIN clients = Clients
  /\ rows \in [Workspaces -> SUBSET Hashes] /\ blobs \subseteq Hashes
  /\ pending \in [Workspaces -> SUBSET Hashes] /\ crashes \in 0..MaxCrashes
  /\ \A w \in Workspaces : pending[w] # {} => w \in gone

(* An account is whole: an email has one user, a user's workspace exists and *)
(* no workspace is left behind without its user by a sign-up that failed     *)
(* (0027: one function inserts the three, and 0023's unique index).          *)
AccountsWhole ==
  /\ \A u, v \in users : u.email = v.email => u = v
  /\ workspaces = {u.workspace : u \in users}

(* What is erased is gone: no session of the workspace lets a request in,    *)
(* though one of a login the tool did not see is left, and of its documents  *)
(* only those that were stored after the tool had emptied their table.       *)
ErasedIsGone ==
  \A w \in gone :
    /\ \A c \in Clients : Resolves(c) => sessions[c].workspace # w
    /\ rows[w] \subseteq straddled[w]

(* Erasing one workspace costs no other one its originals: the object of     *)
(* every document is there, unless it was deleted while an upload that had   *)
(* found it was still open (DATA-GOVERNANCE.md: "blobs no longer referenced  *)
(* by another tenant").                                                      *)
LostOnlyInRace ==
  \A w \in workspaces : rows[w] \subseteq blobs \cup raced

(* The same without the exception, as the document says it.                  *)
OriginalsKept == \A w \in workspaces : rows[w] \subseteq blobs

(* "removes every public table row carrying tenant_id" (delete_tenant.py).   *)
NoRowLeft == \A w \in gone : rows[w] = {}

(* "then deletes now-unreferenced content-addressed objects" (the same): each *)
(* document that is deleted has its object on the ledger.                    *)
LedgerComplete == [][\A w \in Workspaces : rows[w] \ rows'[w] \subseteq pending'[w]]_vars

(* Liveness: an erasure that has removed the rows gets to its objects in the *)
(* end, over crashes (0024: "an interrupted erasure can safely resume").     *)
ErasureEnds == \A w \in Closing : pending[w] # {} ~> pending[w] = {}
=============================================================================
