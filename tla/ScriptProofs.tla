---------------------------- MODULE ScriptProofs ----------------------------
(***************************************************************************)
(* What people leave behind, for any number of actors and of failures.     *)
(* delete_tenant.py: accounts stay whole, what is erased is gone, and no   *)
(* object is lost but in a race.  open_tuning_pr.py: while each script     *)
(* starts from the merged prompt with no pull request open, a version on   *)
(* main names one prompt for ever.  The review desk: what is exported of   *)
(* it is real, and a highlight in its sources is the value it stands for.  *)
(***************************************************************************)
EXTENDS Erasure, MCDesk, FiniteSetTheorems, SequenceTheorems,
        WellFoundedInduction, TLAPS

Requests ==
  [phase : {"idle"}]
    \cup [phase : {"signup", "login"}, email : Emails, workspace : Workspaces]
    \cup [phase : {"open", "look", "put", "insert", "commit"},
          workspace : Workspaces, hash : Hashes]
Sessions == [status : {"none"}]
              \cup [status : {"live"}, email : Emails, workspace : Workspaces]
Deletes == {"sessions", "documents", "members", "tenant"}
Erasers ==
  [phase : {"off"}]
    \cup [phase : Deletes, workspace : Workspaces, keys : SUBSET Hashes,
          doomed : SUBSET Hashes, sessions : SUBSET Clients]
    \cup [phase : {"blobs"}, workspace : Workspaces, todo : SUBSET Hashes,
          doomed : SUBSET Hashes, sessions : SUBSET Clients, key : Hashes \cup {None}, referenced : BOOLEAN]

(* The shape of the state.                                                   *)
Types ==
  /\ workspaces \subseteq Workspaces /\ users \subseteq UserRow
  /\ gone \subseteq Workspaces
  /\ sessions \in [Clients -> Sessions] /\ clients \in [Clients -> Requests]
  /\ rows \in [Workspaces -> SUBSET Hashes] /\ blobs \subseteq Hashes
  /\ pending \in [Workspaces -> SUBSET Hashes] /\ eraser \in Erasers
  /\ straddled \in [Workspaces -> SUBSET Hashes]

Joining(c) == clients[c].phase = "signup"

(* What a sign-up in progress is about to insert does not exist, never did,  *)
(* and is nobody else's: each commits without a second look.                 *)
Reserved ==
  /\ \A c \in Clients : Joining(c) =>
       ~Known(clients[c].email) /\ clients[c].workspace \notin workspaces \cup gone
  /\ \A c, d \in Clients : Joining(c) /\ Joining(d) /\ c # d =>
       clients[c].email # clients[d].email /\ clients[c].workspace # clients[d].workspace

(* An upload's workspace exists until it ends, and the workspace the tool    *)
(* works on until the tool has deleted it.                                   *)
Present ==
  /\ workspaces \cap gone = {}
  /\ \A c \in Clients : Uploading(c) => clients[c].workspace \in workspaces
  /\ eraser.phase \in Deletes => eraser.workspace \in workspaces

(* Once the documents are deleted, only an upload that straddles the rest of *)
(* the deletion adds any.                                                    *)
Swept ==
  /\ \A w \in gone : rows[w] \subseteq straddled[w]
  /\ eraser.phase \in {"members", "tenant"} =>
       rows[eraser.workspace] \subseteq eraser.doomed \cup straddled[eraser.workspace]

(* An object found unreferenced has since been referenced only in a race.    *)
Accounted ==
  /\ \A w \in Workspaces : rows[w] \subseteq blobs \cup raced
  /\ eraser.phase = "blobs" /\ eraser.key # None /\ ~eraser.referenced =>
       \A w \in Workspaces : eraser.key \in rows[w] => eraser.key \in raced

IInv == Types /\ AccountsWhole /\ Reserved /\ Present /\ Swept /\ Accounted

-----------------------------------------------------------------------------
LEMMA TypesStep == ASSUME Types, Next PROVE Types'
<1> USE DEF Types, Requests, Sessions, Erasers, Deletes, Idle, NoSession, UserRow
<1>1. ASSUME NEW c \in Clients, AccountStep(c), UNCHANGED storeVars PROVE Types'
  <2>1. ASSUME NEW e \in Emails, Signup(c, e) PROVE Types'
    <3>1. (CHOOSE w \in Fresh : TRUE) \in Workspaces
      BY <2>1 DEF Signup, Fresh
    <3> QED BY <1>1, <2>1, <3>1 DEF Signup, storeVars
  <2>2. ASSUME NEW u \in users, Login(c, u) PROVE Types'
    BY <1>1, <2>2 DEF Login, storeVars
  <2>3. CASE SignupCommits(c)
    BY <1>1, <2>3 DEF SignupCommits, Joined, Session, storeVars
  <2>4. CASE Fails(c)  BY <1>1, <2>4 DEF Fails, storeVars
  <2>5. CASE SessionEnds(c)  BY <1>1, <2>5 DEF SessionEnds, storeVars
  <2> QED BY <1>1, <2>1, <2>2, <2>3, <2>4, <2>5 DEF AccountStep
<1>2. ASSUME NEW c \in Clients, LoginRow(c) PROVE Types'
  BY <1>2 DEF LoginRow, LoginEnds, Joined, Session, Off
<1>3. ASSUME NEW c \in Clients, NEW h \in Hashes, Request(c, h) PROVE Types'
  BY <1>3 DEF Request, Enter, Resolves, storeVars
<1>4. ASSUME NEW c \in Clients, UploadStep(c) PROVE Types'
  <2> USE DEF ghosts
  <2>1. CASE OpenCase(c)  BY <2>1 DEF OpenCase
  <2>2. CASE Look(c)  BY <2>2 DEF Look
  <2>3. CASE Put(c)  BY <2>3 DEF Put
  <2>4. CASE Insert(c)  BY <2>4 DEF Insert
  <2>5. CASE UploadCommits(c)  BY <2>5 DEF UploadCommits
  <2>6. CASE UploadFails(c)  BY <2>6 DEF UploadFails
  <2> QED BY <1>4, <2>1, <2>2, <2>3, <2>4, <2>5, <2>6 DEF UploadStep
<1>5. ASSUME NEW w \in Closing, Collect(w) PROVE Types'
  BY <1>5 DEF Collect, ghosts
<1>6. CASE EraseStep
  <2>0. CASE DeleteSessions  BY <2>0 DEF DeleteSessions, SessionsOf, ghosts
  <2>1. CASE DeleteDocuments  BY <2>1 DEF DeleteDocuments, Carrying
  <2>7. CASE DeleteMembers  BY <2>7 DEF DeleteMembers, ghosts
  <2>2. CASE DeleteTenant  BY <2>2 DEF DeleteTenant, Remaining, SessionsOf
  <2>3. ASSUME NEW h \in Hashes, Check(h) PROVE Types'
    BY <2>3 DEF Check, Referenced, ghosts
  <2>4. CASE DeleteObject  BY <2>4 DEF DeleteObject, ghosts
  <2>5. CASE Finish  BY <2>5 DEF Finish, Off, ghosts
  <2>6. ASSUME NEW w \in Workspaces, Resume(w) PROVE Types'
    BY <2>6 DEF Resume, ghosts
  <2> QED BY <1>6, <2>0, <2>1, <2>2, <2>3, <2>4, <2>5, <2>6, <2>7 DEF EraseStep
<1>7. CASE Crash  BY <1>7 DEF Crash, Off, ghosts
<1> QED BY <1>1, <1>2, <1>3, <1>4, <1>5, <1>6, <1>7 DEF Next

-----------------------------------------------------------------------------
(* Accounts                                                                  *)

LEMMA AccountsKept ==
  ASSUME IInv, Next
  PROVE  AccountsWhole' /\ Reserved' /\ (workspaces \cap gone = {})'
<1> DEFINE Goal == AccountsWhole' /\ Reserved' /\ (workspaces \cap gone = {})'
<1> USE DEF IInv, Types, Requests, Idle, UserRow, Joining, Known
(* A step that leaves the accounts alone and starts no sign-up keeps them.   *)
<1>1. ASSUME UNCHANGED <<users, workspaces, gone>>,
             \A c \in Clients : Joining(c)' => UNCHANGED clients[c]
      PROVE  Goal
  BY <1>1 DEF AccountsWhole, Reserved, Present
<1>2. ASSUME NEW c \in Clients, AccountStep(c) PROVE Goal
  <2>1. ASSUME NEW e \in Emails, Signup(c, e) PROVE Goal
    <3> DEFINE w == CHOOSE w \in Fresh : TRUE
    <3>1. w \in Fresh /\ w \in Workspaces  BY <2>1 DEF Signup, Fresh
    <3>2. \A d \in Clients : Joining(d) =>
            clients[d].email # e /\ clients[d].workspace # w
      BY <2>1, <3>1 DEF Signup, EmailFree, OpenSignups, Fresh, Opening
    <3>3. ~Known(e) /\ w \notin workspaces \cup gone
      BY <2>1, <3>1 DEF Signup, EmailFree, Fresh
    <3>4. /\ UNCHANGED <<users, workspaces, gone>>
          /\ clients'[c] = [phase |-> "signup", email |-> e, workspace |-> w]
          /\ \A d \in Clients : d # c => clients'[d] = clients[d]
      BY <2>1 DEF Signup
    <3> HIDE DEF w
    <3>5. AccountsWhole' /\ (workspaces \cap gone = {})'
      BY <3>4 DEF AccountsWhole, Present
    <3>6. \A d \in Clients : Joining(d)' =>
            ~Known(clients'[d].email) /\ clients'[d].workspace \notin workspaces \cup gone
      BY <3>3, <3>4 DEF Reserved
    <3>7. \A b, d \in Clients : Joining(b)' /\ Joining(d)' /\ b # d =>
            clients'[b].email # clients'[d].email
              /\ clients'[b].workspace # clients'[d].workspace
      BY <3>2, <3>4 DEF Reserved
    <3> QED BY <3>4, <3>5, <3>6, <3>7 DEF Reserved
  <2>2. ASSUME NEW u \in users, Login(c, u) PROVE Goal
    BY <1>1, <2>2 DEF Login
  <2>3. CASE SignupCommits(c)
    <3>1. Joining(c) /\ clients[c].email \in Emails /\ clients[c].workspace \in Workspaces
      BY <2>3 DEF SignupCommits
    <3>2. AccountsWhole'
      BY <2>3, <3>1 DEF SignupCommits, Joined, AccountsWhole, Reserved
    <3>3. Reserved' /\ (workspaces \cap gone = {})'
      BY <2>3, <3>1 DEF SignupCommits, Joined, Reserved, Present
    <3> QED BY <3>2, <3>3
  <2>4. CASE Fails(c)  BY <1>1, <2>4 DEF Fails
  <2>5. CASE SessionEnds(c)  BY <1>1, <2>5 DEF SessionEnds
  <2> QED BY <1>2, <2>1, <2>2, <2>3, <2>4, <2>5 DEF AccountStep
<1>3. ASSUME NEW c \in Clients, LoginRow(c) PROVE Goal
  BY <1>1, <1>3 DEF LoginRow, LoginEnds
<1>4. ASSUME NEW c \in Clients, NEW h \in Hashes, Request(c, h) PROVE Goal
  BY <1>1, <1>4 DEF Request, Enter
<1>5. ASSUME NEW c \in Clients, UploadStep(c) PROVE Goal
  <2>1. CASE OpenCase(c)  BY <1>1, <2>1 DEF OpenCase
  <2>2. CASE Look(c)  BY <1>1, <2>2 DEF Look
  <2>3. CASE Put(c)  BY <1>1, <2>3 DEF Put
  <2>4. CASE Insert(c)  BY <1>1, <2>4 DEF Insert
  <2>5. CASE UploadCommits(c)  BY <1>1, <2>5 DEF UploadCommits
  <2>6. CASE UploadFails(c)  BY <1>1, <2>6 DEF UploadFails
  <2> QED BY <1>5, <2>1, <2>2, <2>3, <2>4, <2>5, <2>6 DEF UploadStep
<1>6. CASE DeleteTenant
  <2>1. eraser.workspace \in workspaces
    BY <1>6 DEF DeleteTenant, Present, Deletes
  <2>2. users' = {u \in users : u.workspace # eraser.workspace}
          /\ workspaces' = workspaces \ {eraser.workspace}
          /\ gone' = gone \cup {eraser.workspace} /\ clients' = clients
    BY <1>6 DEF DeleteTenant, Remaining
  <2>3. AccountsWhole'  BY <2>2 DEF AccountsWhole
  <2>4. Reserved' /\ (workspaces \cap gone = {})'
    BY <2>1, <2>2 DEF Reserved, Present
  <2> QED BY <2>3, <2>4
<1>7. ASSUME UNCHANGED <<users, workspaces, gone, clients>> PROVE Goal
  BY <1>1, <1>7
<1>8. ASSUME NEW w \in Closing, Collect(w) PROVE Goal
  BY <1>7, <1>8 DEF Collect
<1>9. CASE EraseStep
  BY <1>6, <1>7, <1>9 DEF EraseStep, DeleteSessions, DeleteDocuments, DeleteMembers, Check, DeleteObject, Finish, Resume
<1>10. CASE Crash  BY <1>7, <1>10 DEF Crash
<1> QED BY <1>2, <1>3, <1>4, <1>5, <1>8, <1>9, <1>10 DEF Next

-----------------------------------------------------------------------------
(* Uploads and erasures                                                      *)

(* What only the tool and the uploads tell apart.                            *)
Erasing == Present /\ Swept /\ Accounted
uploadVars == <<workspaces, gone, rows, blobs, eraser, straddled, raced>>

(* A step that leaves the stores, the workspaces and the tool alone and      *)
(* starts no upload keeps them.                                              *)
LEMMA QuietStep ==
  ASSUME IInv, UNCHANGED uploadVars,
         \A c \in Clients : Uploading(c)' => Uploading(c) /\ UNCHANGED clients[c].workspace
  PROVE  Erasing'
<1>2. Present'  BY DEF IInv, Present, uploadVars
<1>3. Swept'  BY DEF IInv, Swept, uploadVars
<1>4. Accounted'  BY DEF IInv, Accounted, uploadVars
<1> QED BY <1>2, <1>3, <1>4 DEF Erasing

(* A new workspace is not one the tool works on.                             *)
LEMMA AccountsErasing ==
  ASSUME IInv, NEW c \in Clients, AccountStep(c), UNCHANGED storeVars
  PROVE  Erasing'
<1> USE DEF IInv, Types, Requests, Idle, Uploading, storeVars, uploadVars
<1>1. ASSUME NEW e \in Emails, Signup(c, e) PROVE Erasing'
  BY <1>1, QuietStep DEF Signup
<1>2. ASSUME NEW u \in users, Login(c, u) PROVE Erasing'
  BY <1>2, QuietStep DEF Login
<1>3. CASE SignupCommits(c)
  <2>1. clients[c].workspace \notin gone
    BY <1>3 DEF SignupCommits, Reserved, Joining
  <2>2. /\ workspaces' = workspaces \cup {clients[c].workspace}
        /\ UNCHANGED <<gone, rows, blobs, eraser, straddled, raced>>
        /\ \A d \in Clients : Uploading(d)' => Uploading(d) /\ clients'[d] = clients[d]
    BY <1>3 DEF SignupCommits
  <2>3. Present'  BY <2>1, <2>2 DEF Present
  <2>5. Swept'  BY <2>2 DEF Swept
  <2>6. Accounted'  BY <2>2 DEF Accounted
  <2> QED BY <2>3, <2>5, <2>6 DEF Erasing
<1>4. CASE Fails(c)  BY <1>4, QuietStep DEF Fails
<1>5. CASE SessionEnds(c)  BY <1>5, QuietStep DEF SessionEnds
<1> QED BY <1>1, <1>2, <1>3, <1>4, <1>5 DEF AccountStep

LEMMA UploadsErasing ==
  ASSUME IInv, NEW c \in Clients, UploadStep(c)
  PROVE  Erasing'
<1> USE DEF IInv, Types, Requests, Idle, Uploading, uploadVars, ghosts
<1>1. CASE OpenCase(c)
  <2>1. UNCHANGED uploadVars
          /\ \A d \in Clients : d # c => clients'[d] = clients[d]
    BY <1>1 DEF OpenCase
  <2>2. clients[c].phase = "open" /\ clients[c].workspace \in Workspaces
    BY <1>1 DEF OpenCase
  <2>3. Uploading(c)' => clients[c].workspace \in workspaces
                           /\ clients'[c].workspace = clients[c].workspace
    BY <1>1, <2>2 DEF OpenCase
  <2>4. Present'  BY <2>1, <2>3 DEF Present
  <2>6. Swept'  BY <2>1 DEF Swept
  <2>7. Accounted'  BY <2>1 DEF Accounted
  <2> QED BY <2>4, <2>6, <2>7 DEF Erasing
<1>2. CASE Look(c)  BY <1>2, QuietStep DEF Look
<1>3. CASE Put(c)
  <2>1. /\ UNCHANGED <<workspaces, gone, rows, eraser, straddled, raced>>
        /\ blobs \subseteq blobs'
        /\ \A d \in Clients : Uploading(d)' => Uploading(d)
                                /\ clients'[d].workspace = clients[d].workspace
    BY <1>3 DEF Put
  <2>3. Present' /\ Swept'  BY <2>1 DEF Present, Swept
  <2>4. Accounted'  BY <2>1 DEF Accounted
  <2> QED BY <2>3, <2>4 DEF Erasing
<1>4. CASE Insert(c)  BY <1>4, QuietStep DEF Insert
<1>5. CASE UploadCommits(c)
  <2> DEFINE w == clients[c].workspace
             h == clients[c].hash
  <2>1. w \in Workspaces /\ h \in Hashes /\ w \in workspaces /\ w \notin gone
    BY <1>5 DEF UploadCommits, Present
  <2>2. /\ UNCHANGED <<workspaces, gone, blobs, eraser>>
        /\ \A d \in Clients : Uploading(d)' => Uploading(d) /\ clients'[d] = clients[d]
        /\ rows'[w] = rows[w] \cup {h}
        /\ \A v \in Workspaces : v # w => rows'[v] = rows[v]
    BY <1>5, <2>1 DEF UploadCommits
  <2>3. raced \subseteq raced' /\ (h \notin blobs \/ LookedUp(h) => h \in raced')
    BY <1>5 DEF UploadCommits
  <2>5. /\ \A v \in Workspaces : straddled[v] \subseteq straddled'[v]
        /\ Emptied(w) => h \in straddled'[w]
    BY <1>5, <2>1 DEF UploadCommits
  <2>6. eraser.phase \in {"members", "tenant"} /\ eraser.workspace = w => Emptied(w)
    BY DEF Emptied, Off
  <2> HIDE DEF w, h
  <2>4. Present'  BY <2>2 DEF Present
  <2>7. Swept'
    <3>1. \A v \in gone : v \in Workspaces /\ v # w
      BY <2>1
    <3>2. \A v \in gone' : rows'[v] \subseteq straddled'[v]
      BY <2>2, <2>5, <3>1 DEF Swept
    <3>3. CASE eraser.phase \in {"members", "tenant"}
      <4>1. eraser.workspace \in Workspaces
        BY <2>4, <2>2, <3>3 DEF Present, Deletes
      <4> QED BY <2>2, <2>5, <2>6, <3>2, <3>3, <4>1 DEF Swept
    <3> QED BY <2>2, <3>2, <3>3 DEF Swept
  <2>8. \A v \in Workspaces : rows'[v] \subseteq blobs \cup raced'
    BY <2>2, <2>3 DEF Accounted
  <2>9. eraser.phase = "blobs" /\ eraser.key = h => LookedUp(h)
    BY DEF LookedUp, Off
  <2>10. Accounted'  BY <2>2, <2>3, <2>8, <2>9 DEF Accounted
  <2> QED BY <2>4, <2>7, <2>10 DEF Erasing
<1>6. CASE UploadFails(c)  BY <1>6, QuietStep DEF UploadFails
<1> QED BY <1>1, <1>2, <1>3, <1>4, <1>5, <1>6 DEF UploadStep

LEMMA ToolErasing ==
  ASSUME IInv, EraseStep
  PROVE  Erasing'
<1> USE DEF IInv, Types, Erasers, Deletes, Off, Uploading, uploadVars, ghosts
<1>7. CASE DeleteSessions \/ DeleteMembers
  <2>1. UNCHANGED <<workspaces, gone, clients, rows, blobs, straddled, raced>>
    BY <1>7 DEF DeleteSessions, DeleteMembers
  <2>2. /\ eraser.phase = "members" \/ eraser'.phase = "documents"
        /\ eraser.phase \in Deletes /\ eraser'.phase \in Deletes
        /\ eraser'.workspace = eraser.workspace /\ eraser'.doomed = eraser.doomed
    BY <1>7 DEF DeleteSessions, DeleteMembers
  <2> QED BY <2>1, <2>2 DEF Erasing, Present, Swept, Accounted
<1>1. CASE DeleteDocuments
  <2> DEFINE w == eraser.workspace
  <2>1. eraser.phase = "documents" /\ w \in Workspaces /\ w \in workspaces /\ w \notin gone
    BY <1>1 DEF DeleteDocuments, Present
  <2>2. /\ UNCHANGED <<workspaces, gone, clients, rows, blobs, raced>>
        /\ eraser'.phase = "members" /\ eraser'.workspace = w /\ eraser'.doomed = rows[w]
        /\ \A v \in Workspaces : v # w => straddled'[v] = straddled[v]
    BY <1>1, <2>1 DEF DeleteDocuments, Carrying
  <2> HIDE DEF w
  <2>4. Present'  BY <2>1, <2>2 DEF Present
  <2>5. Swept'
    <3>1. \A v \in gone : v \in Workspaces /\ v # w
      BY <2>1
    <3> QED BY <2>2, <3>1 DEF Swept
  <2>6. Accounted'  BY <2>2 DEF Accounted
  <2> QED BY <2>4, <2>5, <2>6 DEF Erasing
<1>2. CASE DeleteTenant
  <2> DEFINE w == eraser.workspace
  <2>1. eraser.phase = "tenant" /\ w \in Workspaces /\ w \in workspaces /\ InWorkspace(w) = {}
    BY <1>2 DEF DeleteTenant, Present
  <2>2. /\ workspaces' = workspaces \ {w} /\ gone' = gone \cup {w}
        /\ UNCHANGED <<clients, blobs, straddled, raced>>
        /\ eraser'.phase = "blobs" /\ eraser'.key = None
        /\ rows'[w] = rows[w] \ eraser.doomed
        /\ \A v \in Workspaces : v # w => rows'[v] = rows[v]
    BY <1>2, <2>1 DEF DeleteTenant
  <2>3. \A c \in Clients : Uploading(c) => clients[c].workspace # w
    BY <2>1 DEF InWorkspace
  <2>4. rows[w] \subseteq eraser.doomed \cup straddled[w]
    BY <2>1 DEF Swept
  <2> HIDE DEF w
  <2>5. Present'  BY <2>2, <2>3 DEF Present
  <2>6. Swept'
    <3>1. \A v \in gone' : rows'[v] \subseteq straddled[v]
      BY <2>1, <2>2, <2>4 DEF Swept
    <3> QED BY <3>1, <2>2 DEF Swept
  <2>7. \A v \in Workspaces : rows'[v] \subseteq rows[v]
    BY <2>1, <2>2
  <2>8. Accounted'  BY <2>2, <2>7 DEF Accounted
  <2> QED BY <2>5, <2>6, <2>8 DEF Erasing
<1>3. ASSUME NEW h \in Hashes, Check(h) PROVE Erasing'
  <2>1. /\ UNCHANGED <<workspaces, gone, clients, rows, blobs, straddled, raced>>
        /\ eraser'.phase = "blobs" /\ eraser'.key = h /\ eraser'.referenced = Referenced(h)
    BY <1>3 DEF Check
  <2>2. Present' /\ Swept'  BY <2>1 DEF Present, Swept
  <2>3. Accounted'  BY <2>1 DEF Accounted, Referenced
  <2> QED BY <2>2, <2>3 DEF Erasing
<1>4. CASE DeleteObject
  <2>1. /\ UNCHANGED <<workspaces, gone, clients, rows, straddled, raced>>
        /\ eraser.phase = "blobs" /\ eraser.key # None
        /\ eraser'.phase = "blobs" /\ eraser'.key = None
        /\ blobs' = IF eraser.referenced THEN blobs ELSE blobs \ {eraser.key}
    BY <1>4 DEF DeleteObject
  <2>2. Present' /\ Swept'  BY <2>1 DEF Present, Swept
  <2>3. Accounted'  BY <2>1 DEF Accounted
  <2> QED BY <2>2, <2>3 DEF Erasing
<1>5. CASE Finish
  <2>1. UNCHANGED <<workspaces, gone, clients, rows, blobs, straddled, raced>>
          /\ eraser'.phase = "off"
    BY <1>5 DEF Finish
  <2> QED BY <2>1 DEF Erasing, Present, Swept, Accounted
<1>6. ASSUME NEW w \in Workspaces, Resume(w) PROVE Erasing'
  <2>1. UNCHANGED <<workspaces, gone, clients, rows, blobs, straddled, raced>>
          /\ eraser'.phase = "blobs" /\ eraser'.key = None
    BY <1>6 DEF Resume
  <2> QED BY <2>1 DEF Erasing, Present, Swept, Accounted
<1> QED BY <1>1, <1>2, <1>3, <1>4, <1>5, <1>6, <1>7 DEF EraseStep

-----------------------------------------------------------------------------
(* The invariant                                                             *)

LEMMA Initially == Init => IInv
<1> SUFFICES ASSUME Init PROVE IInv
  OBVIOUS
<1> USE DEF Init, AccountsInit, Idle, NoSession, Off
<1>1. Types  BY DEF Types, Requests, Sessions, Erasers
<1>2. AccountsWhole  BY DEF AccountsWhole
<1>3. Reserved  BY DEF Reserved, Joining
<1>4. Present /\ Swept /\ Accounted
  BY DEF Present, Uploading, Swept, Accounted, Deletes
<1> QED BY <1>1, <1>2, <1>3, <1>4 DEF IInv

LEMMA Stepwise == IInv /\ [Next]_vars => IInv'
<1> SUFFICES ASSUME IInv, [Next]_vars PROVE IInv'
  OBVIOUS
<1>1. CASE UNCHANGED vars
  BY <1>1 DEF IInv, vars, Types, AccountsWhole, Reserved, Joining, Known, Present, Swept,
              Accounted, Uploading, InWorkspace
<1>2. CASE Next
  <2>1. Types'  BY <1>2, TypesStep DEF IInv
  <2>2. AccountsWhole' /\ Reserved'  BY <1>2, AccountsKept
  <2>3. Erasing'
    <3> USE DEF IInv, Types, Requests, Erasers, Deletes, Off, Idle, Uploading, uploadVars, ghosts
    <3>1. ASSUME NEW c \in Clients, LoginRow(c) PROVE Erasing'
      <4>1. /\ UNCHANGED <<workspaces, gone, rows, blobs, straddled, raced>>
            /\ \A d \in Clients : Uploading(d)' => Uploading(d) /\ clients'[d] = clients[d]
        BY <3>1 DEF LoginRow, LoginEnds
      <4>2. \/ eraser' = eraser
            \/ /\ eraser.phase # "off"
               /\ eraser' = [eraser EXCEPT !.sessions = @ \ {c}]
        BY <3>1 DEF LoginRow
      <4>3. /\ eraser'.phase = eraser.phase
            /\ eraser.phase # "off" => /\ eraser'.workspace = eraser.workspace
                                       /\ eraser'.doomed = eraser.doomed
            /\ eraser.phase = "blobs" => /\ eraser'.key = eraser.key
                                         /\ eraser'.referenced = eraser.referenced
        BY <4>2
      <4> QED BY <4>1, <4>3 DEF Erasing, Present, Swept, Accounted
    <3>2. ASSUME NEW c \in Clients, NEW h \in Hashes, Request(c, h) PROVE Erasing'
      BY <3>2, QuietStep DEF Request, Enter, storeVars
    <3>3. ASSUME NEW w \in Closing, Collect(w) PROVE Erasing'
      <4>1. /\ UNCHANGED <<workspaces, gone, clients, rows, blobs, straddled, raced>>
            /\ eraser'.phase = "sessions" /\ eraser'.workspace = w /\ w \in workspaces
        BY <3>3 DEF Collect
      <4> QED BY <4>1 DEF Erasing, Present, Swept, Accounted
    <3>4. CASE Crash
      <4>1. UNCHANGED <<workspaces, gone, clients, rows, blobs, straddled, raced>>
              /\ eraser'.phase = "off"
        BY <3>4 DEF Crash
      <4> QED BY <4>1 DEF Erasing, Present, Swept, Accounted
    <3> HIDE DEF IInv, Types, Requests, Erasers, Deletes, Off, Idle, Uploading, uploadVars, ghosts
    <3> QED BY <1>2, <3>1, <3>2, <3>3, <3>4, AccountsErasing, UploadsErasing, ToolErasing
            DEF Next
  <2> QED BY <2>1, <2>2, <2>3 DEF IInv, Erasing
<1> QED BY <1>1, <1>2

(* The inductive invariant holds in every reachable state.                   *)
THEOREM ErasureInvariant == Spec => []IInv
<1> QED BY Initially, Stepwise, PTL DEF Spec

(* review_auth.py and migration 0027: an email has one user, and no          *)
(* workspace is left without its users, whatever fails or races.             *)
THEOREM AccountsStayWhole == Spec => []AccountsWhole
<1>1. IInv => AccountsWhole  BY DEF IInv
<1> QED BY <1>1, ErasureInvariant, PTL

(* delete_tenant.py: an erased workspace lets no request in, and of its      *)
(* documents only those are left that uploads stored between the emptying of *)
(* their table and the deletion of the workspace's row.                      *)
THEOREM ErasedStaysGone == Spec => []ErasedIsGone
<1>1. IInv => ErasedIsGone
  <2> SUFFICES ASSUME IInv, NEW w \in gone PROVE
        /\ \A c \in Clients : Resolves(c) => sessions[c].workspace # w
        /\ rows[w] \subseteq straddled[w]
    BY DEF ErasedIsGone
  <2>1. ASSUME NEW c \in Clients, Resolves(c) PROVE sessions[c].workspace # w
    BY <2>1 DEF IInv, AccountsWhole, Present, Resolves
  <2>2. rows[w] \subseteq straddled[w]
    BY DEF IInv, Swept
  <2> QED BY <2>1, <2>2
<1> QED BY <1>1, ErasureInvariant, PTL

(* delete_tenant.py, blob_minio.py: every document of a workspace that       *)
(* exists has its object, unless it was stored while its key was being       *)
(* erased.                                                                   *)
THEOREM ObjectsOnlyLostInRace == Spec => []LostOnlyInRace
<1>1. IInv => LostOnlyInRace  BY DEF IInv, Types, Accounted, LostOnlyInRace
<1> QED BY <1>1, ErasureInvariant, PTL

-----------------------------------------------------------------------------
(* Tuning.  The invariant follows the one prompt that is under way, from   *)
(* the branch through the pull request to main: it is main's, one version  *)
(* later and with one delta more.                                          *)
Prompts == [version : Nat, addenda : SUBSET Deltas]
Phases  == {"idle", "branched", "appended", "bumped", "committed"}

TuningTypes ==
  /\ head \in Prompts /\ edits \in Prompts /\ local \in Prompts
  /\ main \in Prompts /\ loaded \in Prompts
  /\ pulls \subseteq Prompts
  /\ script \in [phase : Phases, delta : Deltas \cup {NoDraft}]
  /\ script.phase # "idle" => script.delta \in Deltas
  /\ script.phase = "idle" => script = NoScript
  /\ read \subseteq [case : Complaints, version : Nat, addenda : SUBSET Deltas]
  /\ orderly \in BOOLEAN

(* A prompt one delta and one version after main's.                        *)
Extended(d) == main.addenda \cup {d}
Follows(p, d)  == p.version = main.version + 1 /\ p.addenda = Extended(d)

(* How far the prompt under way got.                                       *)
InScript ==
  /\ script.phase # "idle" => pulls = {}
  /\ script.phase = "branched" => head = main /\ edits = main
  /\ script.phase = "appended" =>
       head = main /\ edits.version = main.version /\ edits.addenda = Extended(script.delta)
  /\ script.phase = "bumped" => Follows(edits, script.delta)
  /\ script.phase = "committed" => Follows(head, script.delta)

InPull ==
  /\ \A p \in pulls : \E d \in Deltas : Follows(p, d)
  /\ \A p, q \in pulls : p = q

(* What the worker has loaded, or had, was main's once.                    *)
Past(p) ==
  /\ p.version <= main.version
  /\ p.version = main.version => p.addenda = main.addenda
InWorker ==
  /\ Past(loaded)
  /\ \A r \in read : Past(r)
  /\ SkipIsSound

TuningInv == TuningTypes /\ (orderly => InScript /\ InPull /\ InWorker)

-----------------------------------------------------------------------------
(* Max of two numbers.                                                     *)
LEMMA MaxOfTwo ==
  ASSUME NEW a \in Nat, NEW b \in Nat
  PROVE  /\ Max({a, b}) \in Nat
         /\ a <= b => Max({a, b}) = b
<1>1. \E x \in {a, b} : \A y \in {a, b} : x >= y
  OBVIOUS
<1>2. Max({a, b}) \in {a, b} /\ \A y \in {a, b} : Max({a, b}) >= y
  BY <1>1 DEF Max
<1> QED BY <1>2

(* At the start everything is the core prompt.                             *)
LEMMA InitInv == TuningInit => TuningInv
BY DEF TuningInit, TuningInv, TuningTypes, Prompts, Phases, Core, NoScript, InScript, InPull, InWorker,
       Past, SkipIsSound

(* Every step keeps the shapes of things.                                  *)
LEMMA StepTypes ==
  ASSUME TuningAssumption, TuningTypes, [TuningStep]_tuningVars
  PROVE  TuningTypes'
<1> USE DEF TuningTypes, Prompts, Phases, NoScript, cloneVars, remoteVars, engineVars, tuningVars
<1>1. ASSUME NEW delta \in Deltas \cup {NoDraft}, Begin(delta) PROVE TuningTypes'
  BY <1>1 DEF Begin
<1>2. CASE AppendAddendum
  BY <1>2 DEF AppendAddendum
<1>3. CASE BumpVersion
  BY <1>3 DEF BumpVersion, Bumped
<1>4. CASE Commit
  BY <1>4 DEF Commit
<1>5. CASE Open
  BY <1>5 DEF Open
<1>6. CASE Fail
  BY <1>6 DEF Fail
<1>7. CASE Stash \/ Restore \/ Pull
  BY <1>7 DEF Stash, Restore, Pull
<1>8. ASSUME NEW p \in pulls, MergePull(p) PROVE TuningTypes'
  <2>1. Max({main.version, p.version}) \in Nat
    BY MaxOfTwo
  <2> QED BY <1>8, <2>1 DEF MergePull
<1>9. ASSUME NEW p \in pulls, Close(p) PROVE TuningTypes'
  BY <1>9 DEF Close
<1>10. CASE Restart
  BY <1>10 DEF Restart
<1>11. ASSUME NEW c \in Complaints, Extract(c) PROVE TuningTypes'
  BY <1>11 DEF Extract
<1>12. CASE UNCHANGED tuningVars
  BY <1>12
<1>13. ASSUME NEW answer \in Answers PROVE Draft(answer) \in Deltas \cup {NoDraft}
  BY TuningAssumption DEF TuningAssumption, Draft
<1>14. Inline \subseteq Deltas
  BY TuningAssumption DEF TuningAssumption
<1> QED
  BY <1>1, <1>2, <1>3, <1>4, <1>5, <1>6, <1>7, <1>8, <1>9, <1>10, <1>11, <1>12, <1>13,
     <1>14 DEF TuningStep

-----------------------------------------------------------------------------
(* The script and the clone: main and the pull requests stay, Open apart.  *)
LEMMA ScriptStep ==
  ASSUME TuningAssumption, TuningInv, orderly, orderly',
         \/ \E delta \in Deltas : Begin(delta)
         \/ AppendAddendum \/ BumpVersion \/ Commit \/ Fail \/ Stash \/ Restore \/ Pull
  PROVE  InScript'
<1> USE DEF TuningInv, TuningTypes, Prompts, Phases, InScript, Follows, Extended, NoScript, remoteVars
<1>1. ASSUME NEW delta \in Deltas, Begin(delta) PROVE InScript'
  BY <1>1 DEF Begin, CleanTree
<1>2. CASE AppendAddendum
  <2>1. edits'.version = edits.version /\ edits'.addenda = edits.addenda \cup {script.delta}
    BY <1>2 DEF AppendAddendum
  <2>2. script'.phase = "appended" /\ script'.delta = script.delta
    BY <1>2 DEF AppendAddendum
  <2> QED BY <1>2, <2>1, <2>2 DEF AppendAddendum
<1>3. CASE BumpVersion
  <2>1. edits'.version = edits.version + 1 /\ edits'.addenda = edits.addenda
    BY <1>3 DEF BumpVersion, Bumped
  <2>2. script'.phase = "bumped" /\ script'.delta = script.delta
    BY <1>3 DEF BumpVersion
  <2> QED BY <1>3, <2>1, <2>2 DEF BumpVersion
<1>4. CASE Commit
  <2>1. script'.phase = "committed" /\ script'.delta = script.delta
    BY <1>4 DEF Commit
  <2> QED BY <1>4, <2>1 DEF Commit
<1>5. CASE Fail
  BY <1>5 DEF Fail
<1>6. CASE Stash \/ Restore \/ Pull
  BY <1>6 DEF Stash, Restore, Pull
<1> QED BY <1>1, <1>2, <1>3, <1>4, <1>5, <1>6

(* Nothing the worker ever loaded has main's next version, so a merge      *)
(* leaves it all in the past.                                              *)
LEMMA MergeStep ==
  ASSUME TuningInv, orderly, NEW p \in pulls, MergePull(p)
  PROVE  InScript' /\ InPull' /\ InWorker'
<1> USE DEF TuningInv, TuningTypes, Prompts
<1>1. PICK d \in Deltas : Follows(p, d)
  BY DEF InPull
<1>2. Max({main.version, p.version}) = p.version
  BY <1>1, MaxOfTwo DEF Follows
<1>3. main'.version = main.version + 1
  BY <1>1, <1>2 DEF MergePull, Follows
<1>4. pulls' = {}
  BY DEF MergePull, InPull
<1>5. script.phase = "idle" /\ script' = script
  BY DEF MergePull, InScript, Phases, cloneVars
<1>6. InScript'
  BY <1>4, <1>5 DEF InScript
<1>7. InPull'
  BY <1>4 DEF InPull
<1>8. InWorker'
  <2>1. UNCHANGED <<loaded, read>>
    BY DEF MergePull, engineVars
  <2>2. main.version \in Nat /\ loaded.version \in Nat
    OBVIOUS
  <2>3. \A r \in read : r.version \in Nat
    OBVIOUS
  <2>4. Past(loaded)'
    BY <1>3, <2>1, <2>2 DEF InWorker, Past
  <2>5. \A r \in read : Past(r)'
    BY <1>3, <2>1, <2>2, <2>3 DEF InWorker, Past
  <2> QED BY <2>1, <2>4, <2>5 DEF InWorker, SkipIsSound
<1> QED BY <1>6, <1>7, <1>8

(* Every step keeps the order.                                             *)
LEMMA StepOrder ==
  ASSUME TuningAssumption, TuningInv, [TuningStep]_tuningVars, orderly'
  PROVE  InScript' /\ InPull' /\ InWorker'
<1> USE DEF TuningInv
<1>0. orderly
  BY DEF TuningStep, Begin, AppendAddendum, BumpVersion, Commit, Open, Fail, Stash, Restore,
         Pull, MergePull, Close, Restart, Extract, tuningVars, TuningTypes
<1> DEFINE InClone == \/ \E delta \in Deltas : Begin(delta)
                      \/ AppendAddendum \/ BumpVersion \/ Commit \/ Fail
                      \/ Stash \/ Restore \/ Pull
<1>1. CASE InClone
  <2>1. InScript'
    BY <1>0, <1>1, ScriptStep
  <2>2. UNCHANGED <<main, pulls, loaded, read>>
    BY <1>1 DEF Begin, AppendAddendum, BumpVersion, Commit, Fail, Stash, Restore, Pull,
                remoteVars, engineVars
  <2>3. InPull' /\ InWorker'
    BY <1>0, <2>2 DEF InPull, InWorker, Past, SkipIsSound, Follows, Extended
  <2> QED BY <2>1, <2>3
<1>2. CASE Open
  <2>1. script.phase = "committed" /\ pulls = {} /\ Follows(head, script.delta)
    BY <1>0, <1>2 DEF Open, InScript
  <2>2. script.delta \in Deltas
    BY <2>1 DEF TuningTypes
  <2>3. pulls' = {head} /\ main' = main /\ script' = NoScript
    BY <1>2, <2>1 DEF Open
  <2>4. InPull'
    BY <2>1, <2>2, <2>3 DEF InPull, Follows, Extended
  <2>5. InScript'
    BY <2>3 DEF InScript, NoScript
  <2>6. InWorker'
    BY <1>0, <1>2, <2>3 DEF Open, engineVars, InWorker, Past, SkipIsSound
  <2> QED BY <2>4, <2>5, <2>6
<1>3. ASSUME NEW p \in pulls, MergePull(p) PROVE InScript' /\ InPull' /\ InWorker'
  BY <1>0, <1>3, MergeStep
<1>4. ASSUME NEW p \in pulls, Close(p) PROVE InScript' /\ InPull' /\ InWorker'
  <2>1. UNCHANGED <<main, head, edits, script, loaded, read>> /\ pulls' \subseteq pulls
    BY <1>4 DEF Close, cloneVars, engineVars
  <2> QED BY <1>0, <2>1 DEF InScript, InPull, InWorker, Past, SkipIsSound, Follows, Extended
<1>5. CASE Restart
  <2>1. UNCHANGED <<main, head, edits, script, pulls, read>> /\ loaded' = main
    BY <1>5 DEF Restart, cloneVars, remoteVars
  <2>2. InScript' /\ InPull'
    BY <1>0, <2>1 DEF InScript, InPull, Follows, Extended
  <2>3. InWorker'
    BY <1>0, <2>1 DEF InWorker, Past, SkipIsSound, TuningTypes, Prompts
  <2> QED BY <2>2, <2>3
<1>6. ASSUME NEW c \in Complaints, Extract(c) PROVE InScript' /\ InPull' /\ InWorker'
  <2> DEFINE new == [case |-> c, version |-> loaded.version, addenda |-> loaded.addenda]
  <2>1. UNCHANGED <<main, head, edits, script, pulls, loaded>> /\ read' = read \cup {new}
    BY <1>6 DEF Extract, cloneVars, remoteVars
  <2>2. InScript' /\ InPull'
    BY <1>0, <2>1 DEF InScript, InPull, Follows, Extended
  <2>3. new.version = loaded.version /\ new.addenda = loaded.addenda
    OBVIOUS
  <2>4. InWorker'
    BY <1>0, <2>1, <2>3 DEF InWorker, Past, SkipIsSound
  <2> QED BY <2>2, <2>4
<1>7. CASE UNCHANGED tuningVars
  BY <1>0, <1>7 DEF tuningVars, cloneVars, remoteVars, engineVars, InScript, InPull, InWorker,
                    Past, SkipIsSound, Follows, Extended
<1>8. ASSUME NEW delta \in Deltas \cup {NoDraft}, Begin(delta) PROVE InClone
  BY <1>8 DEF Begin
<1>9. ASSUME NEW answer \in Answers PROVE Draft(answer) \in Deltas \cup {NoDraft}
  BY TuningAssumption DEF TuningAssumption, Draft
<1>10. Inline \subseteq Deltas
  BY TuningAssumption DEF TuningAssumption
<1> HIDE DEF TuningInv
<1> QED
  BY <1>1, <1>2, <1>3, <1>4, <1>5, <1>6, <1>7, <1>8, <1>9, <1>10 DEF TuningStep

(* A pull request holds one delta more than main.                          *)
LEMMA OneDelta == TuningInv /\ orderly => PullIsOneDelta
<1> SUFFICES ASSUME TuningInv, orderly, NEW p \in pulls
             PROVE  Cardinality(p.addenda \ main.addenda) <= 1
  BY DEF PullIsOneDelta
<1>1. PICK d \in Deltas : Follows(p, d)
  BY DEF TuningInv, InPull
<1>2. CASE d \in main.addenda
  <2>1. p.addenda \ main.addenda = {}
    BY <1>1, <1>2 DEF Follows, Extended
  <2> QED BY <2>1, FS_EmptySet
<1>3. CASE d \notin main.addenda
  <2>1. p.addenda \ main.addenda = {d}
    BY <1>1, <1>3 DEF Follows, Extended
  <2> QED BY <2>1, FS_Singleton
<1> QED BY <1>2, <1>3

(* Every step keeps the invariant.                                         *)
LEMMA InvStep ==
  ASSUME TuningInv, [TuningStep]_tuningVars
  PROVE  TuningInv'
<1>1. TuningTypes'
  BY TuningAssumption, StepTypes DEF TuningInv
<1>2. orderly' => InScript' /\ InPull' /\ InWorker'
  BY TuningAssumption, StepOrder
<1> QED BY <1>1, <1>2 DEF TuningInv

(* The invariant holds in every behaviour of the tuning loop.              *)
THEOREM TuningInvariant == TuningSpec => []TuningInv
<1>1. TuningInit => TuningInv
  BY InitInv
<1>2. TuningInv /\ [TuningStep]_tuningVars => TuningInv'
  BY InvStep
<1> QED BY <1>1, <1>2, PTL DEF TuningSpec

(* A version names one prompt, and a pull request holds one delta, while   *)
(* the pull requests come one at a time: extract_case skips no case that   *)
(* the loaded prompt would read otherwise, whatever step of the script     *)
(* fails and however often it is started again.                            *)
THEOREM TuningIsSound == TuningSpec => []TunedInOrder
<1>1. TuningInv => TunedInOrder
  BY OneDelta DEF TuningInv, InWorker, TunedInOrder
<1> QED BY <1>1, TuningInvariant, PTL

-----------------------------------------------------------------------------
(* Beside the desk and the sources: the run of the tuning loop starts as    *)
(* TuningSpec does and takes its steps, or none.                            *)
LEMMA BesideTheDesk ==
  /\ InitDesk /\ part = "tuning" => TuningInit
  /\ NextDesk /\ part' = "tuning" => part = "tuning" /\ TuningStep
BY DEF InitDesk, NextDesk, Moves

(* The same of the instance in which people tune beside the desk.           *)
THEOREM TuningBesideTheDesk == SpecDesk => []TunedRight
<1> DEFINE Beside == part = "tuning" => TuningInv
<1>1. InitDesk => Beside
  BY InitInv, BesideTheDesk
<1>2. Beside /\ [NextDesk]_<<part, deskVars, provenanceVars, tuningVars>> => Beside'
  <2> SUFFICES ASSUME Beside, [NextDesk]_<<part, deskVars, provenanceVars, tuningVars>>,
                      part' = "tuning"
               PROVE  TuningInv'
    OBVIOUS
  <2>1. part = "tuning" /\ [TuningStep]_tuningVars
    BY BesideTheDesk
  <2> HIDE DEF TuningStep
  <2> QED BY <2>1, InvStep
<1>3. Beside => TunedRight
  BY OneDelta DEF TuningInv, InWorker, TunedInOrder, TunedRight
<1> QED BY <1>1, <1>2, <1>3, PTL DEF SpecDesk

-----------------------------------------------------------------------------
(* Desk.  A paper being read holds, of a case nothing disturbs, what the    *)
(* case still says; a correction under way knows what the field said.       *)
(* A paper being read holds rows of cases.                                   *)
Papers == [kind : {"report", "register"}, phase : {"gated", "read"},
           rows : UNION {[ds -> [stage : {"in_review", "actionable", "committed"}, value : Values]] :
                         ds \in SUBSET Cases}]
Readings == [case : Cases, prev : Values, was : Values]
Changes == [case : Cases, prev : Values, new : Values]

DeskTypes ==
  /\ stage \in [Cases -> {"in_review", "actionable", "committed"}]
  /\ stamp \in [Cases -> [by : Reviewers \cup {NoOne}, at : Int]]
  /\ model \in [Cases -> Values] /\ value \in [Cases -> Values]
  /\ pinned \in [Cases -> BOOLEAN] /\ changed \in [Cases -> BOOLEAN]
  /\ signed \in [Cases -> Values \cup {NoOne}]
  /\ corrections \in Seq(Changes) /\ clock \in Int
  /\ DOMAIN correcting = Reviewers
  /\ paper = NoPaper \/ paper \in Papers

(* A reviewer's correction goes from what the field said when it was opened. *)
ReadsTrue ==
  \A r \in Reviewers : correcting[r] # <<>> =>
    \E seen \in Readings : correcting[r] = <<seen>> /\ seen.prev = seen.was

(* What a case shows of its approval.                                        *)
StampTrue ==
  \A c \in Cases : /\ stage[c] = "committed" => Approved(c)
                   /\ Approved(c) /\ ~changed[c] => value[c] = signed[c]

(* What is read of a case nothing disturbs is what the case still says.      *)
RowFollows(c) ==
  c \notin stirred =>
    /\ paper.kind = "report" => Approved(c)
    /\ paper.phase = "read" =>
         /\ paper.kind = "report" /\ ~changed[c] => paper.rows[c].value = signed[c]
         /\ paper.rows[c].stage = "committed" => Approved(c)
PaperTrue == paper # NoPaper => \A c \in DOMAIN paper.rows : RowFollows(c)

DeskInv == DeskTypes /\ ReadsTrue /\ StampTrue /\ PaperTrue

-----------------------------------------------------------------------------
LEMMA DeskBegins == DeskInit => DeskInv
<1> SUFFICES ASSUME DeskInit PROVE DeskInv
  OBVIOUS
<1>1. DeskTypes
  BY EmptySeq DEF DeskInit, DeskTypes, NoStamp, NoPaper
<1>2. ReadsTrue
  BY DEF DeskInit, ReadsTrue
<1>3. StampTrue
  BY DEF DeskInit, StampTrue, Approved
<1>4. PaperTrue
  BY DEF DeskInit, PaperTrue
<1> QED
  BY <1>1, <1>2, <1>3, <1>4 DEF DeskInv

(* A paper on the desk is not the empty one.                                 *)
LEMMA PaperFacts ==
  ASSUME DeskTypes, paper # NoPaper
  PROVE  /\ paper.kind \in {"report", "register"} /\ paper.phase \in {"gated", "read"}
         /\ DOMAIN paper = {"kind", "phase", "rows"}
         /\ DOMAIN paper.rows \subseteq Cases
         /\ \A c \in DOMAIN paper.rows :
              paper.rows[c] \in [stage : {"in_review", "actionable", "committed"}, value : Values]
  <1>1. paper \in Papers
    BY DEF DeskTypes
  <1>2. PICK ds \in SUBSET Cases :
          paper.rows \in [ds -> [stage : {"in_review", "actionable", "committed"}, value : Values]]
    BY <1>1 DEF Papers
  <1> QED
    BY <1>1, <1>2 DEF Papers

LEMMA AnyPaper ==
  ASSUME NEW k \in {"report", "register"}, NEW p \in {"gated", "read"}, NEW ds \in SUBSET Cases,
         NEW lines \in [ds -> [stage : {"in_review", "actionable", "committed"}, value : Values]]
  PROVE  /\ [kind |-> k, phase |-> p, rows |-> lines] \in Papers
         /\ [kind |-> k, phase |-> p, rows |-> lines] # NoPaper
  BY DEF Papers, NoPaper

LEMMA RowTypes ==
  ASSUME DeskTypes, NEW c \in Cases
  PROVE  Row(c) \in [stage : {"in_review", "actionable", "committed"}, value : Values]
  BY DEF DeskTypes, Row

(* A step that leaves the papers alone keeps them true, if what it does to a *)
(* case is seen by the reader.                                               *)
LEMMA PapersStand ==
  ASSUME DeskInv, paper' = paper, stirred \subseteq stirred',
         paper # NoPaper =>
           \A c \in Cases : c \notin stirred' =>
             (Approved(c) <=> Approved(c)') /\ changed'[c] = changed[c] /\ signed'[c] = signed[c]
  PROVE  PaperTrue'
  <1> SUFFICES ASSUME paper # NoPaper, NEW c \in DOMAIN paper.rows, c \notin stirred'
               PROVE  RowFollows(c)'
    BY DEF PaperTrue, RowFollows
  <1>1. c \in Cases /\ c \notin stirred
    BY PaperFacts DEF DeskInv
  <1>2. RowFollows(c)
    BY DEF DeskInv, PaperTrue
  <1> QED
    BY <1>1, <1>2 DEF RowFollows

LEMMA StirFacts ==
  ASSUME NEW c \in Cases, Stir(c)
  PROVE  /\ stirred \subseteq stirred'
         /\ paper # NoPaper => \A d \in Cases : d \notin stirred' => d # c
  BY DEF Stir

LEMMA ExtractedKeeps ==
  ASSUME DeskInv, NEW c \in Cases, NEW v \in Values, Extracted(c, v)
  PROVE  DeskInv'
  <1> USE DEF Extracted, stampVars
  <1>1. DeskTypes'
    BY DEF DeskInv, DeskTypes
  <1>2. ReadsTrue'
    BY DEF DeskInv, ReadsTrue
  <1>3. StampTrue'
    BY DEF DeskInv, DeskTypes, StampTrue, Approved
  <1>4. PaperTrue'
    <2>1. CASE pinned[c]
      BY <2>1, PapersStand DEF Approved
    <2>2. CASE ~pinned[c]
      <3>1. Stir(c) /\ changed' = [changed EXCEPT ![c] = TRUE]
        BY <2>2
      <3> QED
        BY <3>1, StirFacts, PapersStand DEF Approved, DeskInv, DeskTypes
    <2> QED
      BY <2>1, <2>2
  <1> QED
    BY <1>1, <1>2, <1>3, <1>4 DEF DeskInv

LEMMA ElicitedLateKeeps ==
  ASSUME DeskInv, NEW c \in Cases, ElicitedLate(c)
  PROVE  DeskInv'
  <1> USE DEF ElicitedLate, fieldVars, history
  <1>1. DeskTypes'
    BY DEF DeskInv, DeskTypes
  <1>2. ReadsTrue' /\ StampTrue'
    BY DEF DeskInv, DeskTypes, ReadsTrue, StampTrue, Approved
  <1>3. PaperTrue'
    BY PapersStand DEF Approved
  <1> QED
    BY <1>1, <1>2, <1>3 DEF DeskInv

LEMMA CorrectOpenKeeps ==
  ASSUME DeskInv, NEW r \in Reviewers, NEW c \in Cases, CorrectOpen(r, c)
  PROVE  DeskInv'
  <1> USE DEF CorrectOpen, stampVars, fieldVars, bounds, history
  <1> DEFINE seen == [case |-> c, prev |-> value[c], was |-> value[c]]
  <1>1. DeskTypes'
    BY DEF DeskInv, DeskTypes
  <1>2. ReadsTrue'
    <2>1. correcting' = [correcting EXCEPT ![r] = <<seen>>] /\ seen \in Readings
          /\ seen.prev = seen.was
      BY DEF Previous, DeskInv, DeskTypes, Readings
    <2> HIDE DEF seen
    <2> QED
      BY <2>1 DEF DeskInv, DeskTypes, ReadsTrue
  <1>3. StampTrue'
    BY DEF DeskInv, StampTrue, Approved
  <1>4. PaperTrue'
    BY PapersStand DEF Approved
  <1> QED
    BY <1>1, <1>2, <1>3, <1>4 DEF DeskInv

LEMMA ReadFacts ==
  ASSUME DeskInv, NEW r \in Reviewers, correcting[r] # <<>>
  PROVE  /\ correcting[r][1].case \in Cases /\ correcting[r][1].prev \in Values
         /\ correcting[r][1].prev = correcting[r][1].was
  <1>1. PICK seen \in Readings : correcting[r] = <<seen>> /\ seen.prev = seen.was
    BY DEF DeskInv, ReadsTrue
  <1>2. correcting[r][1] = seen
    BY <1>1
  <1> QED
    BY <1>1, <1>2 DEF Readings

LEMMA CorrectWriteKeeps ==
  ASSUME DeskInv, NEW r \in Reviewers, NEW v \in Values, CorrectWrite(r, v)
  PROVE  DeskInv'
  <1> DEFINE c == correcting[r][1].case
  <1>1. /\ c \in Cases /\ correcting[r][1].prev \in Values
        /\ [case |-> c, prev |-> correcting[r][1].prev, new |-> v] \in Changes
    BY ReadFacts DEF CorrectWrite, Changes
  <1>2. /\ corrections' = Append(corrections, [case |-> c, prev |-> correcting[r][1].prev, new |-> v])
        /\ value' = [value EXCEPT ![c] = v] /\ pinned' = [pinned EXCEPT ![c] = TRUE]
        /\ changed' = [changed EXCEPT ![c] = TRUE] /\ Stir(c)
        /\ correcting' = [correcting EXCEPT ![r] = <<>>]
        /\ UNCHANGED <<stage, stamp, model, signed, paper, clock>>
    BY DEF CorrectWrite, stampVars, bounds
  <1>3. corrections' \in Seq(Changes)
    BY <1>1, <1>2, AppendProperties DEF DeskInv, DeskTypes
  <1> HIDE DEF c
  <1>4. DeskTypes'
    BY <1>1, <1>2, <1>3 DEF DeskInv, DeskTypes
  <1>5. ReadsTrue'
    BY <1>2 DEF DeskInv, DeskTypes, ReadsTrue
  <1>6. StampTrue'
    BY <1>1, <1>2 DEF DeskInv, DeskTypes, StampTrue, Approved
  <1>7. PaperTrue'
    BY <1>1, <1>2, StirFacts, PapersStand DEF Approved, DeskInv, DeskTypes
  <1> QED
    BY <1>4, <1>5, <1>6, <1>7 DEF DeskInv

LEMMA ApproveKeeps ==
  ASSUME DeskInv, NEW r \in Reviewers, NEW c \in Cases, Approve(r, c)
  PROVE  DeskInv'
  <1>1. UNCHANGED <<model, value, pinned, corrections, correcting, paper, clock>>
    BY DEF Approve, fieldVars, bounds
  <1>2. CASE Approved(c)
    <2>1. UNCHANGED <<stamp, stage, signed, changed, stirred>>
      BY <1>2 DEF Approve, CommitCase, history
    <2>2. PaperTrue'
      BY <1>1, <2>1, PapersStand DEF Approved
    <2> QED
      BY <1>1, <2>1, <2>2 DEF DeskInv, DeskTypes, ReadsTrue, StampTrue, Approved
  <1>3. CASE ~Approved(c)
    <2>1. /\ stamp' = [stamp EXCEPT ![c] = [by |-> r, at |-> clock]]
          /\ stage' = [stage EXCEPT ![c] = "committed"]
          /\ signed' = [signed EXCEPT ![c] = value[c]]
          /\ changed' = [changed EXCEPT ![c] = FALSE] /\ Stir(c)
      BY <1>3 DEF Approve, CommitCase
    <2>2. [by |-> r, at |-> clock] # NoStamp
      BY DeskAssumption DEF NoStamp
    <2>3. DeskTypes'
      BY <1>1, <2>1 DEF DeskInv, DeskTypes
    <2>4. ReadsTrue'
      BY <1>1 DEF DeskInv, ReadsTrue
    <2>5. StampTrue'
      BY <1>1, <2>1, <2>2 DEF DeskInv, DeskTypes, StampTrue, Approved
    <2>6. PaperTrue'
      BY <1>1, <2>1, StirFacts, PapersStand DEF Approved, DeskInv, DeskTypes
    <2> QED
      BY <2>3, <2>4, <2>5, <2>6 DEF DeskInv
  <1> QED
    BY <1>2, <1>3

LEMMA UndoKeeps ==
  ASSUME DeskInv, NEW c \in Cases, Undo(c)
  PROVE  DeskInv'
  <1>1. /\ stamp' = [stamp EXCEPT ![c] = NoStamp] /\ stage' = [stage EXCEPT ![c] = "in_review"]
        /\ Stir(c)
        /\ UNCHANGED <<model, value, pinned, corrections, correcting, paper, clock, signed, changed>>
    BY DEF Undo, Reopened, fieldVars, bounds
  <1>2. DeskTypes'
    BY <1>1 DEF DeskInv, DeskTypes, NoStamp
  <1>3. ReadsTrue'
    BY <1>1 DEF DeskInv, ReadsTrue
  <1>4. StampTrue'
    BY <1>1 DEF DeskInv, DeskTypes, StampTrue, Approved
  <1>5. PaperTrue'
    BY <1>1, StirFacts, PapersStand DEF Approved, DeskInv, DeskTypes
  <1> QED
    BY <1>2, <1>3, <1>4, <1>5 DEF DeskInv

(* Steps that touch none of this.                                            *)
LEMMA OthersKeep ==
  ASSUME DeskInv,
         UNCHANGED <<stampVars, fieldVars, corrections, correcting, paper, history>>,
         clock' \in Int
  PROVE  DeskInv'
  <1> USE DEF stampVars, fieldVars, history
  <1>1. PaperTrue'
    BY PapersStand DEF Approved
  <1> QED
    BY <1>1 DEF DeskInv, DeskTypes, ReadsTrue, StampTrue, Approved

-----------------------------------------------------------------------------
(* A paper begins, is read, and loses a row; the case rows stay.             *)
LEMMA PaperStepKeeps ==
  ASSUME DeskInv, UNCHANGED <<stampVars, fieldVars, corrections, correcting, clock, signed, changed>>,
         paper' = NoPaper \/ paper' \in Papers, PaperTrue'
  PROVE  DeskInv'
  BY DEF DeskInv, DeskTypes, ReadsTrue, StampTrue, Approved, stampVars, fieldVars

LEMMA ReportBeginKeeps ==
  ASSUME DeskInv, NEW c \in Cases, ReportBegin(c)
  PROVE  DeskInv'
  <1> DEFINE sheet == [d \in {c} |-> Row(d)]
  <1>1. /\ paper' = [kind |-> "report", phase |-> "gated", rows |-> sheet] /\ Approved(c)
        /\ UNCHANGED <<stampVars, fieldVars, corrections, correcting, clock, signed, changed>>
    BY DEF ReportBegin, ReportGate
  <1>2. /\ DOMAIN sheet = {c}
        /\ sheet \in [{c} -> [stage : {"in_review", "actionable", "committed"}, value : Values]]
    BY RowTypes DEF DeskInv
  <1> HIDE DEF sheet
  <1>3. paper' \in Papers
    BY <1>1, <1>2, AnyPaper
  <1>4. PaperTrue'
    <2>1. Approved(c)'
      BY <1>1 DEF Approved, stampVars
    <2> QED
      BY <1>1, <1>2, <2>1 DEF PaperTrue, RowFollows
  <1> QED
    BY <1>1, <1>3, <1>4, PaperStepKeeps

LEMMA RegisterBeginKeeps ==
  ASSUME DeskInv, RegisterBegin
  PROVE  DeskInv'
  <1> DEFINE sheet == [c \in Newest |-> Row(c)]
  <1>1. /\ paper' = [kind |-> "register", phase |-> "read", rows |-> sheet]
        /\ UNCHANGED <<stampVars, fieldVars, corrections, correcting, clock, signed, changed>>
    BY DEF RegisterBegin
  <1>2. /\ DOMAIN sheet = Newest /\ Newest \in SUBSET Cases
        /\ sheet \in [Newest -> [stage : {"in_review", "actionable", "committed"}, value : Values]]
        /\ \A c \in Newest : sheet[c].stage = stage[c]
    BY RowTypes DEF DeskInv, Newest, Row
  <1> HIDE DEF sheet
  <1>3. paper' \in Papers
    BY <1>1, <1>2, AnyPaper
  <1>4. PaperTrue'
    <2>1. \A c \in Newest : stage[c] = "committed" => Approved(c)'
      BY <1>1, <1>2 DEF Approved, stampVars, DeskInv, StampTrue
    <2> QED
      BY <1>1, <1>2, <2>1 DEF PaperTrue, RowFollows
  <1> QED
    BY <1>1, <1>3, <1>4, PaperStepKeeps

LEMMA ReportReadKeeps ==
  ASSUME DeskInv, ReportRead
  PROVE  DeskInv'
  <1> DEFINE sheet == [c \in DOMAIN paper.rows |-> Row(c)]
  <1>1. /\ paper # NoPaper
        /\ UNCHANGED <<stampVars, fieldVars, corrections, correcting, clock, signed, changed, stirred>>
    BY DEF ReportRead, NoPaper, bounds, history
  <1>2. /\ DOMAIN paper.rows \in SUBSET Cases /\ paper.kind \in {"report", "register"}
        /\ DOMAIN paper = {"kind", "phase", "rows"} /\ paper \in Papers
    BY <1>1, PaperFacts DEF DeskInv, DeskTypes
  <1>3. paper' = [kind |-> paper.kind, phase |-> "read", rows |-> sheet]
    <2>1. paper = [kind |-> paper.kind, phase |-> paper.phase, rows |-> paper.rows]
      BY <1>2 DEF Papers
    <2> QED
      BY <2>1 DEF ReportRead
  <1>4. /\ DOMAIN sheet = DOMAIN paper.rows
        /\ sheet \in [DOMAIN paper.rows -> [stage : {"in_review", "actionable", "committed"}, value : Values]]
        /\ \A c \in DOMAIN paper.rows : sheet[c].stage = stage[c] /\ sheet[c].value = value[c]
    BY <1>2, RowTypes DEF DeskInv, Row
  <1> HIDE DEF sheet
  <1>5. paper' \in Papers
    BY <1>2, <1>3, <1>4, AnyPaper
  <1>6. ASSUME NEW c \in DOMAIN paper'.rows PROVE RowFollows(c)'
    <2>1. c \in DOMAIN paper.rows /\ c \in Cases /\ paper'.rows[c].stage = stage[c]
          /\ paper'.rows[c].value = value[c] /\ paper'.kind = paper.kind
      BY <1>2, <1>3, <1>4, <1>6
    <2>2. RowFollows(c)
      BY <1>1, <2>1 DEF DeskInv, PaperTrue
    <2>3. /\ stage[c] = "committed" => Approved(c)
          /\ Approved(c) /\ ~changed[c] => value[c] = signed[c]
      BY <2>1 DEF DeskInv, StampTrue
    <2>4. Approved(c)' = Approved(c)
      BY <1>1 DEF Approved, stampVars
    <2> QED
      BY <1>1, <2>1, <2>2, <2>3, <2>4 DEF RowFollows
  <1> QED
    BY <1>1, <1>5, <1>6, PaperStepKeeps DEF PaperTrue

LEMMA RowOutKeeps ==
  ASSUME DeskInv, NEW c \in Cases, RowOut(c)
  PROVE  DeskInv'
  <1> DEFINE sheet == [d \in DOMAIN paper.rows \ {c} |-> paper.rows[d]]
  <1>1. /\ paper # NoPaper /\ paper.phase = "read"
        /\ UNCHANGED <<stampVars, fieldVars, corrections, correcting, clock, signed, changed, stirred>>
    BY DEF RowOut, NoPaper, bounds, history
  <1>2. /\ DOMAIN paper.rows \in SUBSET Cases /\ paper.kind \in {"report", "register"}
        /\ DOMAIN paper = {"kind", "phase", "rows"} /\ paper \in Papers
        /\ \A d \in DOMAIN paper.rows :
             paper.rows[d] \in [stage : {"in_review", "actionable", "committed"}, value : Values]
    BY <1>1, PaperFacts DEF DeskInv, DeskTypes
  <1>3. CASE DOMAIN paper.rows = {c}
    <2>1. paper' = NoPaper
      BY <1>3 DEF RowOut
    <2> QED
      BY <1>1, <2>1, PaperStepKeeps DEF PaperTrue
  <1>4. CASE DOMAIN paper.rows # {c}
    <2>1. paper' = [kind |-> paper.kind, phase |-> "read", rows |-> sheet]
      <3>1. paper = [kind |-> paper.kind, phase |-> "read", rows |-> paper.rows]
        BY <1>1, <1>2 DEF Papers
      <3>2. paper' = [paper EXCEPT !.rows = [d \in DOMAIN @ \ {c} |-> @[d]]]
        BY <1>4 DEF RowOut
      <3> QED
        BY <3>1, <3>2
    <2>2. /\ DOMAIN sheet = DOMAIN paper.rows \ {c} /\ DOMAIN sheet \in SUBSET Cases
          /\ sheet \in [DOMAIN sheet -> [stage : {"in_review", "actionable", "committed"}, value : Values]]
          /\ \A d \in DOMAIN sheet : sheet[d] = paper.rows[d]
      BY <1>2
    <2> HIDE DEF sheet
    <2>3. paper' \in Papers
      BY <1>2, <2>1, <2>2, AnyPaper
    <2>4. ASSUME NEW d \in DOMAIN paper'.rows PROVE RowFollows(d)'
      <3>1. d \in DOMAIN paper.rows /\ paper'.rows[d] = paper.rows[d]
            /\ paper'.kind = paper.kind /\ paper'.phase = paper.phase
        BY <1>1, <2>1, <2>2, <2>4
      <3>2. RowFollows(d)
        BY <1>1, <3>1 DEF DeskInv, PaperTrue
      <3>3. Approved(d)' = Approved(d)
        BY <1>1 DEF Approved, stampVars
      <3> QED
        BY <1>1, <3>1, <3>2, <3>3 DEF RowFollows
    <2> QED
      BY <1>1, <2>3, <2>4, PaperStepKeeps DEF PaperTrue
  <1> QED
    BY <1>3, <1>4

LEMMA DeskContinues ==
  ASSUME DeskInv, [DeskStep]_deskVars
  PROVE  DeskInv'
  <1>0. clock \in Int
    BY DEF DeskInv, DeskTypes
  <1>1. CASE UNCHANGED deskVars
    BY <1>0, <1>1, OthersKeep DEF deskVars, bounds
  <1>2. ASSUME NEW c \in Cases, Decided(c) PROVE DeskInv'
    BY <1>0, <1>2, OthersKeep DEF Decided, bounds
  <1>3. ASSUME NEW c \in Cases, NEW r \in Reviewers, NEW n \in Verdicts, Feedback(r, c, n) PROVE DeskInv'
    BY <1>0, <1>3, OthersKeep DEF Feedback
  <1>4. CASE Tick
    BY <1>0, <1>4, OthersKeep DEF Tick
  <1> QED
    BY <1>1, <1>2, <1>3, <1>4, ElicitedLateKeeps, UndoKeeps, ReportBeginKeeps, RowOutKeeps,
       ExtractedKeeps, CorrectOpenKeeps, ApproveKeeps, CorrectWriteKeeps, ReportReadKeeps,
       RegisterBeginKeeps DEF DeskStep

-----------------------------------------------------------------------------
(* The digest. A correction that is written adds one to the flip it makes,   *)
(* and leaves the others as they were.                                       *)
LEMMA PartOfInterval ==
  ASSUME NEW n \in Nat, NEW S \in SUBSET (1..n)
  PROVE  IsFiniteSet(S) /\ Cardinality(S) \in Nat
  <1>1. IsFiniteSet(1..n)
    BY FS_Interval
  <1>2. IsFiniteSet(S)
    BY <1>1, FS_Subset
  <1> QED
    BY <1>2, FS_CardinalityType

LEMMA OneFlipMore ==
  ASSUME NEW cs \in Seq(Changes), NEW one \in Changes, NEW f
  PROVE  Cardinality({i \in DOMAIN Append(cs, one) :
                        <<Append(cs, one)[i].prev, Append(cs, one)[i].new>> = f})
           = Cardinality({i \in DOMAIN cs : <<cs[i].prev, cs[i].new>> = f})
             + (IF <<one.prev, one.new>> = f THEN 1 ELSE 0)
  <1> DEFINE n == Len(cs)
  <1> DEFINE more == Append(cs, one)
  <1> DEFINE old == {i \in DOMAIN cs : <<cs[i].prev, cs[i].new>> = f}
  <1> DEFINE new == {i \in DOMAIN more : <<more[i].prev, more[i].new>> = f}
  <1>1. /\ n \in Nat /\ DOMAIN cs = 1..n /\ DOMAIN more = 1..n + 1 /\ more[n + 1] = one
        /\ \A i \in 1..n : more[i] = cs[i]
    <2>1. more \in Seq(Changes) /\ Len(more) = n + 1 /\ more[n + 1] = one
          /\ \A i \in 1..n : more[i] = cs[i]
      BY AppendProperties
    <2> QED
      BY <2>1, LenProperties
  <1> HIDE DEF more, n
  <1>2. n + 1 \notin old /\ old \subseteq 1..n
    BY <1>1
  <1>3. IsFiniteSet(old) /\ Cardinality(old) \in Nat
    BY <1>1, <1>2, PartOfInterval
  <1>4. new = IF <<one.prev, one.new>> = f THEN old \cup {n + 1} ELSE old
    <2>1. \A i \in 1..n + 1 : i = n + 1 \/ i \in 1..n
      BY <1>1
    <2>2. \A i \in 1..n : i \in 1..n + 1 /\ i # n + 1
      BY <1>1
    <2>3. n + 1 \in 1..n + 1
      BY <1>1
    <2> QED
      BY <1>1, <2>1, <2>2, <2>3
  <1> HIDE DEF old, new
  <1>5. Cardinality(new) = Cardinality(old) + (IF <<one.prev, one.new>> = f THEN 1 ELSE 0)
    <2>1. CASE <<one.prev, one.new>> = f
      BY <1>2, <1>3, <1>4, <2>1, FS_AddElement
    <2>2. CASE <<one.prev, one.new>> # f
      BY <1>3, <1>4, <2>2
    <2> QED
      BY <2>1, <2>2
  <1> QED
    BY <1>5 DEF old, new, more

LEMMA FlipsCount ==
  ASSUME DeskInv, DeskInv', NEW r \in Reviewers, NEW v \in Values, CorrectWrite(r, v), ~Overtaken(r)
  PROVE  Counted(r)
  <1> DEFINE c == correcting[r][1].case
  <1> DEFINE one == [case |-> c, prev |-> correcting[r][1].prev, new |-> v]
  <1> DEFINE flip == <<value[c], value'[c]>>
  <1> DEFINE Pairs == {f \in Values \X Values : f[1] # f[2]}
  <1> DEFINE Tallied(cs) == [f \in Pairs |-> Cardinality({i \in DOMAIN cs : <<cs[i].prev, cs[i].new>> = f})]
  <1>1. /\ c \in Cases /\ one \in Changes /\ one.prev = value[c] /\ one.new = v
        /\ corrections' = Append(corrections, one) /\ value'[c] = v
        /\ value[c] \in Values /\ corrections \in Seq(Changes)
    BY ReadFacts DEF CorrectWrite, Overtaken, Changes, DeskInv, DeskTypes
  <1>2. Flips = Tallied(corrections) /\ Flips' = Tallied(corrections')
    BY DEF Flips, Quantify
  <1> HIDE DEF c, one
  <1>3. ASSUME flip[1] # flip[2] PROVE Flips' = [Flips EXCEPT ![flip] = @ + 1]
    <2>1. flip \in Pairs /\ flip = <<one.prev, one.new>>
      BY <1>1, <1>3
    <2>2. \A f \in Pairs : Tallied(corrections')[f]
                             = Tallied(corrections)[f] + (IF flip = f THEN 1 ELSE 0)
      <3> SUFFICES ASSUME NEW f \in Pairs
                   PROVE  Tallied(corrections')[f] = Tallied(corrections)[f] + (IF flip = f THEN 1 ELSE 0)
        OBVIOUS
      <3> HIDE DEF flip, Pairs
      <3> QED
        BY <1>1, <2>1, OneFlipMore
    <2>3. ASSUME NEW f \in Pairs PROVE Tallied(corrections)[f] + 0 = Tallied(corrections)[f]
      <3>1. {i \in DOMAIN corrections : <<corrections[i].prev, corrections[i].new>> = f}
              \subseteq 1..Len(corrections) /\ Len(corrections) \in Nat
        BY <1>1, LenProperties
      <3>2. Cardinality({i \in DOMAIN corrections :
                           <<corrections[i].prev, corrections[i].new>> = f}) \in Nat
        BY <3>1, PartOfInterval
      <3> QED
        BY <3>2
    <2> HIDE DEF flip, Pairs
    <2>4. DOMAIN Tallied(corrections) = Pairs /\ DOMAIN Tallied(corrections') = Pairs
      OBVIOUS
    <2>5. Tallied(corrections') = [Tallied(corrections) EXCEPT ![flip] = @ + 1]
      <3> HIDE DEF Tallied
      <3>1. \A f \in Pairs : Tallied(corrections')[f]
              = [Tallied(corrections) EXCEPT ![flip] = @ + 1][f]
        BY <2>1, <2>2, <2>3, <2>4
      <3> USE DEF Tallied
      <3> QED
        BY <3>1
    <2> QED
      BY <1>2, <2>5
  <1> QED
    BY <1>3 DEF Counted, c

LEMMA OnlyWritesClose ==
  ASSUME DeskInv, DeskStep, NEW r \in Reviewers, correcting[r] # <<>>, correcting'[r] = <<>>
  PROVE  \E v \in Values : CorrectWrite(r, v)
  <1>1. ASSUME UNCHANGED correcting PROVE FALSE
    BY <1>1
  <1>2. ASSUME NEW q \in Reviewers, NEW c \in Cases, CorrectOpen(q, c) PROVE FALSE
    BY <1>2 DEF CorrectOpen, DeskInv, DeskTypes
  <1>3. ASSUME NEW q \in Reviewers, NEW v \in Values, CorrectWrite(q, v) PROVE q = r
    BY <1>3 DEF CorrectWrite, DeskInv, DeskTypes
  <1> QED
    BY <1>1, <1>2, <1>3 DEF DeskStep, Decided, ElicitedLate, Undo, ReportBegin, RowOut, Extracted,
       Approve, Feedback, ReportRead, RegisterBegin, Tick

LEMMA ExportsStep ==
  ASSUME DeskInv, [DeskStep]_deskVars
  PROVE  [RowsTrue /\ FlipsReal]_deskVars
  <1> SUFFICES ASSUME DeskStep PROVE RowsTrue /\ FlipsReal
    OBVIOUS
  <1>1. RowsTrue
    <2> SUFFICES ASSUME NEW c \in Cases, Out(c) PROVE RowTrue(c)
      BY DEF RowsTrue
    <2>1. paper.phase = "read" /\ c \in DOMAIN paper.rows /\ paper # NoPaper
      BY DEF Out, NoPaper
    <2>2. RowFollows(c)
      BY <2>1 DEF DeskInv, PaperTrue
    <2> QED
      BY <2>1, <2>2 DEF RowFollows, RowTrue
  <1>2. FlipsReal
    <2> SUFFICES ASSUME NEW r \in Reviewers, correcting[r] # <<>>, correcting'[r] = <<>>, ~Overtaken(r)
                 PROVE  Counted(r)
      BY DEF FlipsReal
    <2>1. PICK v \in Values : CorrectWrite(r, v)
      BY OnlyWritesClose
    <2> QED
      BY <2>1, FlipsCount, DeskContinues
  <1> QED
    BY <1>1, <1>2

(* What leaves the desk is real, for any number of cases, reviewers and      *)
(* papers: a report names its approver and shows what was approved, a row    *)
(* says committed of a stamped case only, unless the case is written while   *)
(* it is read; and the digest counts the changes reviewers made.             *)
THEOREM ExportsAreReal == DeskSpec => ExportsReal
  <1>1. DeskInv /\ [DeskStep]_deskVars => DeskInv'
    BY DeskContinues
  <1>2. DeskInv /\ [DeskStep]_deskVars => [RowsTrue /\ FlipsReal]_deskVars
    BY ExportsStep
  <1> QED
    BY DeskBegins, <1>1, <1>2, PTL DEF DeskSpec, ExportsReal

-----------------------------------------------------------------------------
(* Provenance.  A document's place among the documents of its case does not *)
(* change and is its own, so the documents have one order; and the texts    *)
(* joined in that order have each text where the locator counts it to be.   *)
(* Counting.                                                                 *)
LEMMA LeastNat ==
  ASSUME NEW S \in SUBSET Nat, S # {}
  PROVE  \E m \in S : \A x \in S : m <= x
  <1> DEFINE Less == OpToRel(<, Nat)
  <1>1. Less = {ss \in Nat \X Nat : ss[1] < ss[2]}
    BY Zenon DEF OpToRel
  <1> HIDE DEF Less
  <1>2. IsWellFoundedOn(Less, Nat)
    BY NatLessThanWellFounded DEF Less
  <1>3. PICK m \in S : \A x \in S : ~(<<x, m>> \in Less)
    BY <1>2, WFMin
  <1>4. ASSUME NEW x \in S, x < m PROVE FALSE
    <2>1. <<x, m>> \in {ss \in Nat \X Nat : ss[1] < ss[2]}
      BY <1>4
    <2> QED
      BY <1>1, <1>3, <2>1
  <1> QED
    BY <1>4

LEMMA AllNat ==
  ASSUME NEW S \in SUBSET Nat, 0 \in S, \A n \in S : n + 1 \in S
  PROVE  S = Nat
  <1> SUFFICES ASSUME Nat \ S # {} PROVE FALSE
    OBVIOUS
  <1>1. PICK m \in Nat \ S : \A x \in Nat \ S : m <= x
    BY LeastNat
  <1>2. m - 1 \in Nat /\ m - 1 \in S
    BY <1>1
  <1> QED
    BY <1>1, <1>2

LEMMA MinIsLeast ==
  ASSUME NEW S \in SUBSET Nat, S # {}
  PROVE  Min(S) \in S /\ \A x \in S : Min(S) <= x
  <1>1. \E m \in S : \A x \in S : m <= x
    BY LeastNat
  <1> QED
    BY <1>1, Zenon DEF Min

-----------------------------------------------------------------------------
(* Where a text that was joined has its parts.                               *)
Offsets(before, parts, m) ==
  /\ DOMAIN before = 1..m
  /\ \A i \in 1..m : before[i] = IF i = 1 THEN 0 ELSE before[i - 1] + Len(parts[i - 1]) + 1
StandsIn(whole, base, piece) ==
  /\ base \in Nat /\ base + Len(piece) <= Len(whole)
  /\ \A k \in 1..Len(piece) : whole[base + k] = piece[k]
Chained(joined, parts, sep) ==
  joined = [i \in 0..Len(parts) |->
    IF i = 0 THEN <<>> ELSE IF i = 1 THEN parts[1] ELSE joined[i - 1] \o <<sep>> \o parts[i]]

LEMMA JoiningExists ==
  ASSUME NEW parts, Len(parts) \in Nat, NEW sep
  PROVE  \E joined : Chained(joined, parts, sep)
  <1> DEFINE Part(n, f) == f = [i \in 0..n |->
                IF i = 0 THEN <<>> ELSE IF i = 1 THEN parts[1] ELSE f[i - 1] \o <<sep>> \o parts[i]]
             S == {n \in Nat : \E f : Part(n, f)}
  <1>1. 0 \in S
    <2>1. Part(0, [i \in 0..0 |-> <<>>])
      OBVIOUS
    <2> QED
      BY <2>1
  <1>2. ASSUME NEW n \in S PROVE n + 1 \in S
    <2>1. PICK f : Part(n, f)
      OBVIOUS
    <2> DEFINE g == [i \in 0..n + 1 |-> IF i = n + 1
                       THEN (IF n = 0 THEN parts[1] ELSE f[n] \o <<sep>> \o parts[n + 1]) ELSE f[i]]
    <2>2. Part(n + 1, g)
      <3>1. ASSUME NEW i \in 0..n + 1
            PROVE  g[i] = IF i = 0 THEN <<>> ELSE IF i = 1 THEN parts[1]
                          ELSE g[i - 1] \o <<sep>> \o parts[i]
        <4>1. CASE i = n + 1
          BY <4>1
        <4>2. CASE i \in 0..n
          <5>1. f[i] = IF i = 0 THEN <<>> ELSE IF i = 1 THEN parts[1]
                       ELSE f[i - 1] \o <<sep>> \o parts[i]
            BY <2>1, <4>2
          <5>2. g[i] = f[i] /\ (i # 0 => g[i - 1] = f[i - 1])
            BY <4>2
          <5> QED
            BY <5>1, <5>2
        <4> QED
          BY <4>1, <4>2
      <3> QED
        BY <3>1
    <2> HIDE DEF g, Part
    <2> QED
      BY <2>2
  <1>3. S = Nat
    <2> HIDE DEF S
    <2> QED
      BY <1>1, <1>2, AllNat DEF S
  <1>4. \E f : Part(Len(parts), f)
    BY <1>3
  <1> QED
    BY <1>4 DEF Chained

LEMMA JoinOf ==
  ASSUME NEW parts, Len(parts) \in Nat, NEW sep
  PROVE  \E joined : Chained(joined, parts, sep) /\ Join(parts, sep) = joined[Len(parts)]
  <1> DEFINE J == CHOOSE joined : Chained(joined, parts, sep)
  <1>1. Chained(J, parts, sep)
    BY JoiningExists, Zenon
  <1>2. Join(parts, sep) = J[Len(parts)]
    BY Zenon DEF Join, Chained
  <1> QED
    BY <1>1, <1>2

LEMMA OffsetsExist ==
  ASSUME NEW lens, NEW n \in Nat
  PROVE  \E before : before = [i \in 1..n |-> IF i = 1 THEN 0 ELSE before[i - 1] + lens[i - 1] + 1]
  <1> DEFINE Part(m, f) == f = [i \in 1..m |-> IF i = 1 THEN 0 ELSE f[i - 1] + lens[i - 1] + 1]
             S == {m \in Nat : \E f : Part(m, f)}
  <1>1. 0 \in S
    <2>1. Part(0, [i \in 1..0 |-> 0])
      OBVIOUS
    <2> QED
      BY <2>1
  <1>2. ASSUME NEW m \in S PROVE m + 1 \in S
    <2>1. PICK f : Part(m, f)
      OBVIOUS
    <2> DEFINE g == [i \in 1..m + 1 |-> IF i = m + 1
                       THEN (IF m = 0 THEN 0 ELSE f[m] + lens[m] + 1) ELSE f[i]]
    <2>2. Part(m + 1, g)
      <3>1. ASSUME NEW i \in 1..m + 1
            PROVE  g[i] = IF i = 1 THEN 0 ELSE g[i - 1] + lens[i - 1] + 1
        <4>1. CASE i = m + 1
          BY <4>1
        <4>2. CASE i \in 1..m
          <5>1. f[i] = IF i = 1 THEN 0 ELSE f[i - 1] + lens[i - 1] + 1
            BY <2>1, <4>2
          <5>2. g[i] = f[i] /\ (i # 1 => g[i - 1] = f[i - 1])
            BY <4>2
          <5> QED
            BY <5>1, <5>2
        <4> QED
          BY <4>1, <4>2
      <3> QED
        BY <3>1
    <2> HIDE DEF g, Part
    <2> QED
      BY <2>2
  <1>3. S = Nat
    <2> HIDE DEF S
    <2> QED
      BY <1>1, <1>2, AllNat DEF S
  <1> QED
    BY <1>3

LEMMA BaseOf ==
  ASSUME NEW docs, NEW i \in Nat \ {0}
  PROVE  \E before : /\ before = [j \in 1..i |-> IF j = 1 THEN 0
                                  ELSE before[j - 1] + Len(contents[docs[j - 1]].text) + 1]
                     /\ Base(docs, i) = before[i]
  <1> DEFINE Eq(f) == f = [j \in 1..i |-> IF j = 1 THEN 0
                                  ELSE f[j - 1] + Len(contents[docs[j - 1]].text) + 1]
             B == CHOOSE f : Eq(f)
             lens == [j \in 1..i |-> Len(contents[docs[j]].text)]
  <1>1. \E f : Eq(f)
    <2>1. PICK f : f = [j \in 1..i |-> IF j = 1 THEN 0 ELSE f[j - 1] + lens[j - 1] + 1]
      BY OffsetsExist
    <2>2. \A j \in 1..i : j # 1 => lens[j - 1] = Len(contents[docs[j - 1]].text)
      OBVIOUS
    <2> HIDE DEF lens
    <2>3. Eq(f)
      <3>1. DOMAIN f = 1..i /\ \A j \in 1..i : f[j] = IF j = 1 THEN 0 ELSE
                                  f[j - 1] + Len(contents[docs[j - 1]].text) + 1
        BY <2>1, <2>2
      <3>2. f = [j \in 1..i |-> f[j]]
        BY <2>1
      <3> QED
        BY <3>1, <3>2
    <2> QED
      BY <2>3
  <1>2. Eq(B)
    BY <1>1, Zenon
  <1>3. Base(docs, i) = B[i]
    BY Zenon DEF Base
  <1> QED
    BY <1>2, <1>3

LEMMA Appended ==
  ASSUME NEW T, NEW a \in Seq(T), NEW b \in Seq(T), NEW sep \in T
  PROVE  LET c == a \o <<sep>> \o b IN
         /\ c \in Seq(T) /\ Len(c) = Len(a) + 1 + Len(b)
         /\ \A k \in 1..Len(a) : c[k] = a[k]
         /\ \A k \in 1..Len(b) : c[Len(a) + 1 + k] = b[k]
  <1> DEFINE d == a \o <<sep>>
  <1>1. d \in Seq(T) /\ Len(d) = Len(a) + 1 /\ \A k \in 1..Len(a) : d[k] = a[k]
    BY ConcatProperties
  <1>2. Len(a) \in Nat /\ Len(b) \in Nat
    OBVIOUS
  <1> HIDE DEF d
  <1> DEFINE c == d \o b
  <1>3. /\ c \in Seq(T) /\ Len(c) = Len(d) + Len(b)
        /\ \A k \in 1..Len(d) + Len(b) : c[k] = IF k <= Len(d) THEN d[k] ELSE b[k - Len(d)]
    BY <1>1, ConcatProperties
  <1> HIDE DEF c
  <1>4. c \in Seq(T) /\ Len(c) = Len(a) + 1 + Len(b)
    BY <1>1, <1>3
  <1>5. \A k \in 1..Len(a) : c[k] = a[k]
    BY <1>1, <1>2, <1>3
  <1>6. ASSUME NEW k \in 1..Len(b) PROVE c[Len(a) + 1 + k] = b[k]
    <2>1. Len(a) + 1 + k \in 1..Len(d) + Len(b) /\ ~(Len(a) + 1 + k <= Len(d))
          /\ Len(a) + 1 + k - Len(d) = k
      BY <1>1, <1>2
    <2>2. c[Len(a) + 1 + k] = b[Len(a) + 1 + k - Len(d)]
      BY <1>3, <2>1
    <2> QED
      BY <2>1, <2>2
  <1> QED
    BY <1>4, <1>5, <1>6 DEF c, d

(* A text that was joined has each part where the offsets say.              *)
LEMMA JoinPlaces ==
  ASSUME NEW T, NEW parts \in Seq(Seq(T)), NEW sep \in T, NEW before, NEW m \in 1..Len(parts),
         Offsets(before, parts, m)
  PROVE  Join(parts, sep) \in Seq(T) /\ StandsIn(Join(parts, sep), before[m], parts[m])
  <1>0. DOMAIN before = 1..m /\ \A i \in 1..m :
          before[i] = IF i = 1 THEN 0 ELSE before[i - 1] + Len(parts[i - 1]) + 1
    BY DEF Offsets
  <1>1. Len(parts) \in Nat /\ \A i \in 1..Len(parts) : parts[i] \in Seq(T) /\ Len(parts[i]) \in Nat
    OBVIOUS
  <1>2. PICK J : Chained(J, parts, sep) /\ Join(parts, sep) = J[Len(parts)]
    BY <1>1, JoinOf
  <1>3. J[1] = parts[1] /\ J[0] = <<>>
    BY <1>1, <1>2 DEF Chained
  <1>4. ASSUME NEW i \in 2..Len(parts) PROVE J[i] = J[i - 1] \o <<sep>> \o parts[i]
    <2>1. i \in 0..Len(parts) /\ i # 0 /\ i # 1
      BY <1>1
    <2>2. J[i] = IF i = 0 THEN <<>> ELSE IF i = 1 THEN parts[1] ELSE J[i - 1] \o <<sep>> \o parts[i]
      BY <1>2, <2>1, Zenon DEF Chained
    <2> QED
      BY <2>1, <2>2
  <1> DEFINE Ends(i) == i \in 1..m =>
               J[i] \in Seq(T) /\ before[i] \in Nat /\ Len(J[i]) = before[i] + Len(parts[i])
                 /\ \A k \in 1..Len(parts[i]) : J[i][before[i] + k] = parts[i][k]
             S == {i \in Nat : Ends(i)}
  <1>5. 0 \in S
    OBVIOUS
  <1>6. ASSUME NEW i \in S PROVE i + 1 \in S
    <2>0. i \in Nat /\ Ends(i)
      BY <1>6
    <2> SUFFICES ASSUME i + 1 \in 1..m PROVE Ends(i + 1)
      BY <2>0
    <2>1. CASE i = 0
      <3>1. before[1] = 0 /\ J[1] = parts[1]
        BY <1>0, <1>3
      <3>2. parts[1] \in Seq(T) /\ Len(parts[1]) \in Nat
        BY <1>1
      <3>3. \A k \in 1..Len(parts[1]) : 0 + k = k
        OBVIOUS
      <3>4. Ends(1)
        BY <3>1, <3>2, <3>3
      <3> QED
        BY <2>1, <3>4
    <2>2. CASE i # 0
      <3>1. i \in 1..m /\ i + 1 \in 2..Len(parts) /\ (i + 1) - 1 = i /\ i + 1 # 1
        BY <1>1, <2>0, <2>2
      <3>2. J[i + 1] = J[i] \o <<sep>> \o parts[i + 1]
        <4>1. J[i + 1] = J[(i + 1) - 1] \o <<sep>> \o parts[i + 1]
          BY <1>4, <3>1
        <4> QED
          BY <3>1, <4>1
      <3>3. before[i + 1] = Len(J[i]) + 1
        <4>1. before[i + 1] = before[(i + 1) - 1] + Len(parts[(i + 1) - 1]) + 1
          BY <1>0, <3>1
        <4> QED
          BY <2>0, <3>1, <4>1
      <3>4. parts[i + 1] \in Seq(T) /\ J[i] \in Seq(T)
        BY <1>1, <2>0, <3>1
      <3> HIDE DEF Ends
      <3>5. Len(J[i]) \in Nat
        BY <3>4
      <3>6. /\ J[i + 1] \in Seq(T) /\ Len(J[i + 1]) = before[i + 1] + Len(parts[i + 1])
            /\ \A k \in 1..Len(parts[i + 1]) : J[i + 1][before[i + 1] + k] = parts[i + 1][k]
        <4> DEFINE a == J[i]  b == parts[i + 1]
        <4>1. a \in Seq(T) /\ b \in Seq(T) /\ J[i + 1] = a \o <<sep>> \o b
          BY <3>2, <3>4
        <4> HIDE DEF a, b
        <4>2. /\ J[i + 1] \in Seq(T) /\ Len(J[i + 1]) = Len(a) + 1 + Len(b)
              /\ \A k \in 1..Len(b) : J[i + 1][Len(a) + 1 + k] = b[k]
          BY <4>1, Appended
        <4>3. before[i + 1] = Len(a) + 1
          BY <3>3 DEF a
        <4> QED
          BY <4>2, <4>3 DEF b
      <3> QED
        BY <3>3, <3>5, <3>6 DEF Ends
    <2> QED
      BY <2>1, <2>2
  <1>7. Ends(m)
    <2>1. S = Nat
      <3> HIDE DEF S
      <3> QED
        BY <1>5, <1>6, AllNat DEF S
    <2>2. m \in S
      <3> HIDE DEF S
      <3> QED
        BY <2>1
    <2> HIDE DEF Ends
    <2> QED
      BY <2>2
  <1> DEFINE Keeps(i) == m + i <= Len(parts) =>
               /\ J[m + i] \in Seq(T) /\ Len(J[m]) <= Len(J[m + i])
               /\ \A k \in 1..Len(J[m]) : J[m + i][k] = J[m][k]
             R == {i \in Nat : Keeps(i)}
  <1>8. 0 \in R
    BY <1>7
  <1>9. ASSUME NEW i \in R PROVE i + 1 \in R
    <2>0. i \in Nat /\ Keeps(i)
      BY <1>9
    <2> SUFFICES ASSUME m + (i + 1) <= Len(parts) PROVE Keeps(i + 1)
      <3> HIDE DEF Keeps
      <3>1. Keeps(i + 1)
        BY DEF Keeps
      <3> QED
        BY <2>0, <3>1
    <2> HIDE DEF Keeps
    <2>1. m + i <= Len(parts) /\ m + (i + 1) \in 2..Len(parts) /\ m + (i + 1) - 1 = m + i
      <3>1. i \in Nat /\ m \in Nat \ {0} /\ Len(parts) \in Nat
        BY <1>1, <2>0
      <3> QED
        BY <3>1
    <2>2. J[m + (i + 1)] = J[m + i] \o <<sep>> \o parts[m + (i + 1)]
      <3> DEFINE n == m + (i + 1)
      <3>1. J[n] = J[n - 1] \o <<sep>> \o parts[n]
        <4>1. n \in 2..Len(parts)
          BY <2>1
        <4> HIDE DEF n
        <4> QED
          BY <1>4, <4>1
      <3>2. n - 1 = m + i
        BY <2>1
      <3> HIDE DEF n
      <3>3. J[n] = J[m + i] \o <<sep>> \o parts[n]
        BY <3>1, <3>2, Zenon
      <3> QED
        BY <3>3, Zenon DEF n
    <2>3. parts[m + (i + 1)] \in Seq(T) /\ J[m + i] \in Seq(T) /\ J[m] \in Seq(T)
      BY <1>1, <1>7, <2>0, <2>1 DEF Keeps
    <2>5. /\ J[m + (i + 1)] \in Seq(T) /\ Len(J[m + i]) <= Len(J[m + (i + 1)])
          /\ \A k \in 1..Len(J[m + i]) : J[m + (i + 1)][k] = J[m + i][k]
      <3> DEFINE a == J[m + i]  b == parts[m + (i + 1)]
      <3>1. a \in Seq(T) /\ b \in Seq(T) /\ J[m + (i + 1)] = a \o <<sep>> \o b
        BY <2>2, <2>3
      <3> HIDE DEF a, b
      <3>2. /\ J[m + (i + 1)] \in Seq(T) /\ Len(J[m + (i + 1)]) = Len(a) + 1 + Len(b)
            /\ \A k \in 1..Len(a) : J[m + (i + 1)][k] = a[k]
        BY <3>1, Appended
      <3>3. Len(a) \in Nat /\ Len(b) \in Nat
        BY <3>1
      <3> QED
        BY <3>2, <3>3 DEF a
    <2>6. Len(J[m]) <= Len(J[m + i]) /\ \A k \in 1..Len(J[m]) : J[m + i][k] = J[m][k]
      BY <2>0, <2>1 DEF Keeps
    <2>7. Len(J[m]) \in Nat /\ Len(J[m + i]) \in Nat /\ Len(J[m + (i + 1)]) \in Nat
      BY <2>3, <2>5, LenProperties
    <2>8. ASSUME NEW k \in 1..Len(J[m]) PROVE J[m + (i + 1)][k] = J[m][k]
      BY <2>5, <2>6, <2>7
    <2>9. Len(J[m]) <= Len(J[m + (i + 1)])
      <3>1. Len(J[m + i]) <= Len(J[m + (i + 1)]) /\ Len(J[m]) <= Len(J[m + i])
        BY <2>5, <2>6, Zenon
      <3> HIDE DEF Keeps
      <3> DEFINE x == Len(J[m])  y == Len(J[m + i])  z == Len(J[m + (i + 1)])
      <3>2. x \in Nat /\ y \in Nat /\ z \in Nat /\ y <= z /\ x <= y
        BY <2>7, <3>1, Zenon
      <3> HIDE DEF x, y, z
      <3>3. x <= z
        BY <3>2
      <3> QED
        BY <3>3, Zenon DEF x, z
    <2> QED
      BY <2>5, <2>8, <2>9 DEF Keeps
  <1>10. Keeps(Len(parts) - m)
    <2>1. R = Nat
      <3> HIDE DEF R
      <3> QED
        BY <1>8, <1>9, AllNat DEF R
    <2>2. Len(parts) - m \in Nat
      BY <1>1
    <2>3. Len(parts) - m \in R
      <3> HIDE DEF R
      <3> QED
        BY <2>1, <2>2
    <2> HIDE DEF Keeps
    <2> QED
      BY <2>3
  <1>11. /\ Join(parts, sep) \in Seq(T) /\ Len(J[m]) <= Len(Join(parts, sep))
         /\ \A k \in 1..Len(J[m]) : Join(parts, sep)[k] = J[m][k]
    <2>1. m + (Len(parts) - m) = Len(parts)
      BY <1>1
    <2> QED
      BY <1>2, <1>10, <2>1
  <1>12. /\ before[m] \in Nat /\ Len(J[m]) = before[m] + Len(parts[m]) /\ Len(parts[m]) \in Nat
         /\ \A k \in 1..Len(parts[m]) : J[m][before[m] + k] = parts[m][k]
    BY <1>1, <1>7
  <1> HIDE DEF Ends, Keeps
  <1>13. before[m] + Len(parts[m]) <= Len(Join(parts, sep))
    BY <1>11, <1>12
  <1>14. ASSUME NEW k \in 1..Len(parts[m]) PROVE Join(parts, sep)[before[m] + k] = parts[m][k]
    <2>1. before[m] + k \in 1..Len(J[m])
      BY <1>12
    <2> QED
      BY <1>11, <1>12, <2>1
  <1> QED
    BY <1>11, <1>12, <1>13, <1>14 DEF StandsIn

-----------------------------------------------------------------------------
(* The rows and the normalisations in progress: each began at a time of its *)
(* own, and what was spoken is read once.                                   *)
Placed ==
  /\ contents \in [Docs -> [at : Nat, text : Seq(Letters), spans : Seq(Seq(Letters))]]
  /\ working \in [Docs -> Nat] /\ begins \in Nat
  /\ \A d \in Docs : contents[d].at <= begins /\ working[d] <= begins
  /\ \A d \in Docs : contents[d].at = 0 => contents[d] = NoRow
  /\ \A d, e \in Docs : d # e =>
       /\ contents[d].at # 0 => contents[d].at # contents[e].at
       /\ working[d] # 0 => working[d] \notin {working[e], contents[e].at}
  /\ \A d \in Docs : Spoken(d) /\ contents[d] # NoRow =>
       contents[d].spans = Normalised(Content[d], TRUE).spans

(* A citation by letters is a place in the text it was made for; one by an   *)
(* utterance is of a document that holds the value there.                    *)
PlaceTrue(c) ==
  c.at.letters # <<>> =>
    \E before, p :
      LET last == c.upto[Len(c.upto)] IN
      /\ c.upto \in Seq(Seq(Letters)) /\ c.upto # <<>> /\ Strip(c.value) \in Seq(Letters)
      /\ Offsets(before, c.upto, Len(c.upto)) /\ p \in Found(last, c.value)
      /\ c.at.letters = <<before[Len(c.upto)] + p, before[Len(c.upto)] + p + Len(Strip(c.value))>>
SpanTrue(c) ==
  c.at.span # 0 =>
    /\ c.at.doc \in Docs /\ Spoken(c.at.doc) /\ contents[c.at.doc] # NoRow
    /\ Says(contents[c.at.doc].spans[c.at.span], c.value)

SourcesInv ==
  Placed /\ \A f \in Fields : current[f] # NoValue => PlaceTrue(current[f]) /\ SpanTrue(current[f])

(* The documents in order are all of them that have a text, each once.       *)
LEMMA OrderIsOfDocs ==
  ASSUME Placed
  PROVE  InOrder \in Seq(Readable)
  <1> DEFINE n == Cardinality(Readable)  rank == [d \in Readable |-> Cardinality(Earlier(d))]
  <1>1. IsFiniteSet(Readable) /\ n \in Nat
    BY ProvenanceAssumption, FS_Subset, FS_CardinalityType DEF Readable
  <1>2. ASSUME NEW d \in Readable
        PROVE  /\ IsFiniteSet(Earlier(d)) /\ Cardinality(Earlier(d)) \in 0..n - 1
               /\ contents[d].at \in Nat
    <2>1. Earlier(d) \in SUBSET (Readable \ {d}) /\ contents[d].at \in Nat
      BY DEF Earlier, Placed, Readable
    <2>2. IsFiniteSet(Readable \ {d}) /\ Cardinality(Readable \ {d}) = n - 1
      BY <1>1, FS_RemoveElement
    <2>3. IsFiniteSet(Earlier(d)) /\ Cardinality(Earlier(d)) <= n - 1
      BY <2>1, <2>2, FS_Subset
    <2> QED
      BY <1>1, <2>1, <2>3, FS_CardinalityType
  <1>3. ASSUME NEW d \in Readable, NEW e \in Readable, contents[d].at < contents[e].at
        PROVE  Cardinality(Earlier(d)) # Cardinality(Earlier(e))
    <2>1. Earlier(d) \in SUBSET Earlier(e) /\ d \in Earlier(e) /\ d \notin Earlier(d)
      <3>1. \A x \in Readable : contents[x].at \in Nat
        BY <1>2
      <3> QED
        BY <1>3, <3>1 DEF Earlier
    <2> QED
      BY <1>2, <2>1, FS_Subset
  <1>4. ASSUME NEW d \in Readable, NEW e \in Readable, d # e PROVE rank[d] # rank[e]
    <2>1. d \in Docs /\ e \in Docs /\ contents[d].text # <<>>
      BY DEF Readable
    <2>2. contents[d].at # 0
      BY <2>1 DEF Placed, NoRow
    <2>3. contents[d].at # contents[e].at
      BY <1>4, <2>1, <2>2 DEF Placed
    <2>4. contents[d].at < contents[e].at \/ contents[e].at < contents[d].at
      BY <1>2, <2>3
    <2> QED
      BY <1>3, <2>4
  <1>5. rank \in Injection(Readable, 0..n - 1)
    <2>1. rank \in [Readable -> 0..n - 1]
      BY <1>2
    <2> HIDE DEF rank, n
    <2> QED
      BY <1>4, <2>1 DEF Injection, IsInjective
  <1>6. IsFiniteSet(0..n - 1) /\ Cardinality(0..n - 1) = n
    BY <1>1, FS_Interval
  <1>7. rank \in Surjection(Readable, 0..n - 1)
    <2> HIDE DEF rank
    <2> QED
      BY <1>5, <1>6, FS_Injection
  <1>8. ASSUME NEW i \in 1..n PROVE \E d \in Readable : Cardinality(Earlier(d)) = i - 1
    <2>1. i - 1 \in 0..n - 1
      BY <1>1
    <2>2. PICK d \in Readable : rank[d] = i - 1
      <3> HIDE DEF rank, n
      <3> QED
        BY <1>7, <2>1 DEF Surjection
    <2> QED
      BY <2>2
  <1>9. ASSUME NEW i \in 1..n
        PROVE  (CHOOSE d \in Readable : Cardinality(Earlier(d)) = i - 1) \in Readable
    BY <1>8
  <1>10. InOrder = [i \in 1..n |-> CHOOSE d \in Readable : Cardinality(Earlier(d)) = i - 1]
    BY DEF InOrder
  <1> DEFINE nth == [i \in 1..n |-> CHOOSE d \in Readable : Cardinality(Earlier(d)) = i - 1]
  <1>11. nth \in [1..n -> Readable]
    <2>1. \A i \in 1..n : nth[i] \in Readable
      BY <1>9
    <2> QED
      BY <2>1
  <1> HIDE DEF n, nth
  <1>12. nth \in Seq(Readable)
    BY <1>1, <1>11
  <1> QED
    BY <1>10, <1>12 DEF nth

LEMMA TextsOf ==
  ASSUME Placed, NEW docs \in Seq(Docs)
  PROVE  /\ Texts(docs) \in Seq(Seq(Letters)) /\ Len(Texts(docs)) = Len(docs)
         /\ \A i \in 1..Len(docs) : Texts(docs)[i] = contents[docs[i]].text
  <1>1. Len(docs) \in Nat /\ DOMAIN docs = 1..Len(docs) /\ \A i \in 1..Len(docs) : docs[i] \in Docs
    OBVIOUS
  <1>2. \A d \in Docs : contents[d].text \in Seq(Letters)
    BY DEF Placed
  <1>3. Texts(docs) = [i \in 1..Len(docs) |-> contents[docs[i]].text]
    BY <1>1 DEF Texts
  <1> QED
    BY <1>1, <1>2, <1>3

(* The documents up to the one that is cited.                                *)
LEMMA UptoIs ==
  ASSUME Placed, NEW doc
  PROVE  LET docs == InOrder  m == Len(Upto(docs, doc)) IN
         /\ Upto(docs, doc) \in Seq(Seq(Letters)) /\ m \in 0..Len(docs)
         /\ \A i \in 1..m : Upto(docs, doc)[i] = Texts(docs)[i]
         /\ \A j \in 1..Len(docs) : docs[j] = doc => m <= j
         /\ doc \in {docs[j] : j \in 1..Len(docs)} => m # 0 /\ docs[m] = doc
  <1> DEFINE docs == InOrder
             holders == {i \in DOMAIN docs : docs[i] = doc} \cup {Len(docs)}
             k == Min(holders)
  <1>1. docs \in Seq(Docs) /\ Len(docs) \in Nat /\ DOMAIN docs = 1..Len(docs)
    <2>1. docs \in Seq(Readable) /\ Readable \subseteq Docs
      BY OrderIsOfDocs DEF Readable
    <2> HIDE DEF docs
    <2> QED
      BY <2>1
  <1> HIDE DEF docs
  <1>2. holders \in SUBSET Nat /\ holders # {}
    BY <1>1
  <1>3. k \in holders /\ \A x \in holders : k <= x
    BY <1>2, MinIsLeast
  <1>4. k \in 0..Len(docs)
    BY <1>1, <1>3
  <1>5. /\ SubSeq(docs, 1, k) \in Seq(Docs) /\ Len(SubSeq(docs, 1, k)) = k
        /\ \A i \in 1..k : SubSeq(docs, 1, k)[i] = docs[i]
    <2> HIDE DEF k
    <2>1. \A i \in 1..k : docs[i] \in Docs
      BY <1>1, <1>4
    <2>2. /\ SubSeq(docs, 1, k) \in Seq(Docs)
          /\ Len(SubSeq(docs, 1, k)) = IF 1 <= k THEN k - 1 + 1 ELSE 0
          /\ \A i \in 1..k - 1 + 1 : SubSeq(docs, 1, k)[i] = docs[1 + i - 1]
      BY <1>4, <2>1, SubSeqProperties
    <2> QED
      BY <1>4, <2>2
  <1>6. Upto(docs, doc) = Texts(SubSeq(docs, 1, k))
    BY DEF Upto
  <1> HIDE DEF k
  <1>7. /\ Upto(docs, doc) \in Seq(Seq(Letters)) /\ Len(Upto(docs, doc)) = k
        /\ \A i \in 1..k : Upto(docs, doc)[i] = contents[docs[i]].text
    BY <1>5, <1>6, TextsOf
  <1>8. \A i \in 1..Len(docs) : Texts(docs)[i] = contents[docs[i]].text
    BY <1>1, TextsOf
  <1>9. \A j \in 1..Len(docs) : docs[j] = doc => k <= j
    BY <1>1, <1>3
  <1>10. doc \in {docs[j] : j \in 1..Len(docs)} => k # 0 /\ docs[k] = doc
    <2> SUFFICES ASSUME NEW j \in 1..Len(docs), docs[j] = doc PROVE k # 0 /\ docs[k] = doc
      OBVIOUS
    <2>1. k <= j /\ ((docs[k] = doc /\ k # 0) \/ k = Len(docs))
      BY <1>1, <1>3, <1>9
    <2>2. CASE k = Len(docs)
      BY <1>1, <2>1, <2>2
    <2> QED
      BY <2>1, <2>2
  <1> DEFINE u == Upto(docs, doc)
  <1>11. u \in Seq(Seq(Letters)) /\ Len(u) = k
    BY <1>7
  <1>12. ASSUME NEW i \in 1..k PROVE u[i] = Texts(docs)[i]
    <2>1. i \in 1..Len(docs)
      BY <1>1, <1>4
    <2> QED
      BY <1>7, <1>8, <2>1
  <1> HIDE DEF u
  <1>13. /\ u \in Seq(Seq(Letters)) /\ Len(u) \in 0..Len(docs)
         /\ \A i \in 1..Len(u) : u[i] = Texts(docs)[i]
         /\ \A j \in 1..Len(docs) : docs[j] = doc => Len(u) <= j
         /\ doc \in {docs[j] : j \in 1..Len(docs)} => Len(u) # 0 /\ docs[Len(u)] = doc
    BY <1>4, <1>9, <1>10, <1>11, <1>12
  <1> QED
    BY <1>13 DEF u, docs

(* What SubSeq holds, letter by letter.                                      *)
LEMMA SubSeqLetters ==
  ASSUME NEW s \in Seq(Letters), NEW a \in Nat, NEW len \in Nat, a + len <= Len(s)
  PROVE  /\ SubSeq(s, a + 1, a + len) \in Seq(Letters)
         /\ Len(SubSeq(s, a + 1, a + len)) = len
         /\ \A k \in 1..len : SubSeq(s, a + 1, a + len)[k] = s[a + k]
  <1> DEFINE x == SubSeq(s, a + 1, a + len)  from == a + 1  to == a + len
  <1>0. Len(s) \in Nat
    OBVIOUS
  <1>1. \A i \in from..to : s[i] \in Letters
    <2>1. \A i \in 1..Len(s) : s[i] \in Letters
      OBVIOUS
    <2> QED
      BY <1>0, <2>1
  <1>2. from \in Int /\ to \in Int /\ to - from + 1 = len /\ (from <= to <=> len # 0)
    OBVIOUS
  <1>3. x = SubSeq(s, from, to)
    OBVIOUS
  <1> HIDE DEF from, to, x
  <1>4. /\ x \in Seq(Letters)
        /\ Len(x) = IF from <= to THEN to - from + 1 ELSE 0
        /\ \A k \in 1..to - from + 1 : x[k] = s[from + k - 1]
    BY <1>1, <1>2, <1>3, SubSeqProperties
  <1>5. ASSUME NEW k \in 1..len PROVE x[k] = s[a + k]
    <2>1. from + k - 1 = a + k
      BY DEF from
    <2> QED
      BY <1>2, <1>4, <2>1
  <1> QED
    BY <1>2, <1>4, <1>5 DEF x

(* The texts a flattened sequence goes through.                              *)
Flattening(flat, parts) ==
  flat = [i \in 1..Len(parts) |-> IF i = 1 THEN parts[i] ELSE flat[i - 1] \o parts[i]]

LEMMA FlatteningExists ==
  ASSUME NEW parts, Len(parts) \in Nat
  PROVE  \E flat : Flattening(flat, parts)
  <1> DEFINE Part(m, f) == f = [i \in 1..m |-> IF i = 1 THEN parts[i] ELSE f[i - 1] \o parts[i]]
             S == {m \in Nat : \E f : Part(m, f)}
  <1>1. 0 \in S
    <2>1. Part(0, [i \in 1..0 |-> 0])
      OBVIOUS
    <2> QED
      BY <2>1
  <1>2. ASSUME NEW m \in S PROVE m + 1 \in S
    <2>1. PICK f : Part(m, f)
      OBVIOUS
    <2> DEFINE g == [i \in 1..m + 1 |-> IF i = m + 1
                       THEN (IF m = 0 THEN parts[1] ELSE f[m] \o parts[m + 1]) ELSE f[i]]
    <2>2. Part(m + 1, g)
      <3>1. ASSUME NEW i \in 1..m + 1
            PROVE  g[i] = IF i = 1 THEN parts[i] ELSE g[i - 1] \o parts[i]
        <4>1. CASE i = m + 1
          BY <4>1
        <4>2. CASE i \in 1..m
          <5>1. f[i] = IF i = 1 THEN parts[i] ELSE f[i - 1] \o parts[i]
            BY <2>1, <4>2
          <5>2. g[i] = f[i] /\ (i # 1 => g[i - 1] = f[i - 1])
            BY <4>2
          <5> QED
            BY <5>1, <5>2
        <4> QED
          BY <4>1, <4>2
      <3> QED
        BY <3>1
    <2> HIDE DEF g, Part
    <2> QED
      BY <2>2
  <1>3. S = Nat
    <2> HIDE DEF S
    <2> QED
      BY <1>1, <1>2, AllNat DEF S
  <1>4. \E f : Part(Len(parts), f)
    BY <1>3
  <1> QED
    BY <1>4 DEF Flattening

LEMMA FlattenOf ==
  ASSUME NEW parts, Len(parts) \in Nat \ {0}
  PROVE  \E flat : Flattening(flat, parts) /\ FlattenSeq(parts) = flat[Len(parts)]
  <1> DEFINE F == CHOOSE flat : Flattening(flat, parts)
  <1>1. Flattening(F, parts)
    BY FlatteningExists, Zenon
  <1>2. Len(parts) # 0
    OBVIOUS
  <1>3. FlattenSeq(parts) = F[Len(parts)]
    BY <1>2, Zenon DEF FlattenSeq, Flattening
  <1> QED
    BY <1>1, <1>3

(* A prefix of parts that are one letter each is the prefix of the whole.    *)
Spells(flat, parts, n, i) ==
  /\ flat \in Seq(Letters)
  /\ \A k \in 1..n : k <= i => k <= Len(flat) /\ flat[k] = parts[k][1]
  /\ i <= n => Len(flat) = i

LEMMA FlattenSpells ==
  ASSUME NEW parts \in Seq(Seq(Letters)), NEW n \in 0..Len(parts),
         \A k \in 1..n : Len(parts[k]) = 1
  PROVE  Spells(FlattenSeq(parts), parts, n, Len(parts))
  <1>1. Len(parts) \in Nat /\ n \in Nat /\ \A i \in 1..Len(parts) : parts[i] \in Seq(Letters)
    OBVIOUS
  <1>2. CASE Len(parts) = 0
    <2>1. FlattenSeq(parts) = parts /\ parts = <<>> /\ n = 0
      BY <1>1, <1>2 DEF FlattenSeq
    <2>2. <<>> \in Seq(Letters) /\ Len(<<>>) = 0
      BY EmptySeq
    <2> QED
      BY <2>1, <2>2 DEF Spells
  <1>3. CASE Len(parts) # 0
    <2>1. PICK flat : Flattening(flat, parts) /\ FlattenSeq(parts) = flat[Len(parts)]
      BY <1>1, <1>3, FlattenOf
    <2> DEFINE Good(i) == i \in 1..Len(parts) => Spells(flat[i], parts, n, i)
               S == {i \in Nat : Good(i)}
    <2>2. 0 \in S
      OBVIOUS
    <2>3. ASSUME NEW i \in S PROVE i + 1 \in S
      <3> SUFFICES ASSUME i + 1 \in 1..Len(parts) PROVE Spells(flat[i + 1], parts, n, i + 1)
        OBVIOUS
      <3>1. i \in Nat /\ parts[i + 1] \in Seq(Letters) /\ Len(parts[i + 1]) \in Nat
        BY <1>1
      <3>2. CASE i = 0
        <4>1. flat[i + 1] = parts[1]
          BY <2>1, <3>2 DEF Flattening
        <4>2. 1 <= n => Len(parts[1]) = 1
          BY <1>1
        <4> QED
          BY <3>1, <3>2, <4>1, <4>2 DEF Spells
      <3>3. CASE i # 0
        <4> DEFINE a == flat[i]  b == parts[i + 1]
        <4>1. flat[i + 1] = a \o b
          <5>1. flat = [j \in 1..Len(parts) |-> IF j = 1 THEN parts[j] ELSE flat[j - 1] \o parts[j]]
            BY <2>1 DEF Flattening
          <5>2. flat[i + 1] = IF i + 1 = 1 THEN parts[i + 1] ELSE flat[(i + 1) - 1] \o parts[i + 1]
            BY <5>1
          <5>3. i + 1 # 1 /\ (i + 1) - 1 = i
            BY <3>1, <3>3
          <5> QED
            BY <5>2, <5>3
        <4>2. Spells(a, parts, n, i)
          BY <1>1, <3>1, <3>3
        <4>3. a \in Seq(Letters) /\ b \in Seq(Letters) /\ Len(a) \in Nat /\ Len(b) \in Nat
          BY <3>1, <4>2 DEF Spells
        <4>4. i + 1 <= n => Len(b) = 1 /\ Len(a) = i
          BY <3>1, <4>2 DEF Spells
        <4>5. ASSUME NEW k \in 1..n, k <= i
              PROVE  k <= Len(a) /\ a[k] = parts[k][1]
          BY <4>2, <4>5 DEF Spells
        <4> HIDE DEF a, b
        <4>6. /\ a \o b \in Seq(Letters) /\ Len(a \o b) = Len(a) + Len(b)
              /\ \A k \in 1..Len(a) + Len(b) : (a \o b)[k] =
                   IF k <= Len(a) THEN a[k] ELSE b[k - Len(a)]
          BY <4>3, ConcatProperties
        <4>7. ASSUME NEW k \in 1..n, k <= i + 1
              PROVE  k <= Len(a \o b) /\ (a \o b)[k] = parts[k][1]
          <5>1. CASE k <= i
            BY <3>1, <4>3, <4>5, <4>6, <5>1
          <5>2. CASE k = i + 1
            <6>1. Len(b) = 1 /\ Len(a) = i /\ k = Len(a) + 1
              BY <4>4, <5>2
            <6>2. k \in 1..Len(a) + Len(b) /\ ~(k <= Len(a)) /\ k - Len(a) = 1
              BY <3>1, <6>1
            <6>3. (a \o b)[k] = b[1]
              BY <4>6, <6>2
            <6> QED
              BY <3>1, <4>6, <5>2, <6>1, <6>3 DEF b
          <5> QED
            BY <3>1, <4>7, <5>1, <5>2
        <4>8. i + 1 <= n => Len(a \o b) = i + 1
          BY <3>1, <4>4, <4>6
        <4> QED
          BY <4>1, <4>6, <4>7, <4>8 DEF Spells
      <3> QED
        BY <3>2, <3>3
    <2>4. S = Nat
      <3> HIDE DEF S
      <3> QED
        BY <2>2, <2>3, AllNat DEF S
    <2>5. Spells(flat[Len(parts)], parts, n, Len(parts))
      BY <1>1, <1>3, <2>4
    <2> QED
      BY <2>1, <2>5
  <1> QED
    BY <1>2, <1>3

(* A text put in other letters, as far as each becomes one.                  *)
LEMMA LetterwiseSpells ==
  ASSUME NEW f \in [Letters -> Seq(Letters)], NEW s \in Seq(Letters), NEW n \in 0..Len(s),
         \A k \in 1..n : Len(f[s[k]]) = 1
  PROVE  /\ Letterwise(s, f) \in Seq(Letters) /\ Len(Letterwise(s, f)) \in Nat
         /\ n <= Len(Letterwise(s, f))
         /\ \A k \in 1..n : Letterwise(s, f)[k] = f[s[k]][1]
         /\ n = Len(s) => Len(Letterwise(s, f)) = n
  <1> DEFINE parts == [i \in DOMAIN s |-> f[s[i]]]
  <1>1. Len(s) \in Nat /\ DOMAIN s = 1..Len(s) /\ \A i \in 1..Len(s) : s[i] \in Letters
    OBVIOUS
  <1>2. \A i \in 1..Len(s) : f[s[i]] \in Seq(Letters)
    BY <1>1
  <1>3. /\ parts \in Seq(Seq(Letters)) /\ Len(parts) = Len(s)
        /\ \A i \in 1..Len(s) : parts[i] = f[s[i]]
    BY <1>1, <1>2
  <1>4. Letterwise(s, f) = FlattenSeq(parts)
    BY DEF Letterwise
  <1> HIDE DEF parts
  <1>5. Spells(FlattenSeq(parts), parts, n, Len(parts))
    <2>1. n \in 0..Len(parts) /\ \A k \in 1..n : Len(parts[k]) = 1
      BY <1>1, <1>3
    <2> QED
      BY <1>3, <2>1, FlattenSpells
  <1> DEFINE t == Letterwise(s, f)
  <1>6. /\ t \in Seq(Letters) /\ (n = Len(s) => Len(t) = n)
        /\ \A k \in 1..n : k <= Len(t) /\ t[k] = f[s[k]][1]
    <2>1. /\ t \in Seq(Letters)
          /\ \A k \in 1..n : k <= Len(parts) => k <= Len(t) /\ t[k] = parts[k][1]
          /\ Len(parts) <= n => Len(t) = Len(parts)
      BY <1>4, <1>5 DEF Spells
    <2>2. n \in Nat /\ n <= Len(parts) /\ Len(parts) \in Nat
      BY <1>1, <1>3
    <2> HIDE DEF t
    <2>3. n = Len(s) => Len(t) = n
      BY <1>3, <2>1, <2>2
    <2>4. ASSUME NEW k \in 1..n PROVE k <= Len(t) /\ t[k] = f[s[k]][1]
      <3>1. k <= Len(parts) /\ k \in 1..Len(s)
        BY <1>1, <1>3, <2>2
      <3> QED
        BY <1>3, <2>1, <3>1
    <2> QED
      BY <2>1, <2>3, <2>4
  <1>7. Len(t) \in Nat
    BY <1>6, LenProperties
  <1> HIDE DEF t
  <1>8. n <= Len(t)
    <2>1. n = 0 \/ n \in 1..n
      BY <1>1
    <2> QED
      BY <1>6, <1>7, <2>1
  <1> QED
    BY <1>6, <1>7, <1>8 DEF t

LEMMA StripIsText == ASSUME NEW s \in Seq(Letters) PROVE Strip(s) \in Seq(Letters)
  <1>1. CASE Ink(s) = {}
    BY <1>1, EmptySeq DEF Strip
  <1>2. CASE Ink(s) # {}
    <2>1. Len(s) \in Nat /\ DOMAIN s = 1..Len(s) /\ \A i \in 1..Len(s) : s[i] \in Letters
      OBVIOUS
    <2>2. Ink(s) \in SUBSET (1..Len(s))
      BY <2>1 DEF Ink
    <2> DEFINE low == Min(Ink(s))  high == Max(Ink(s))
    <2>3. low \in Ink(s)
      BY <1>2, <2>2, MinIsLeast
    <2>4. high \in Ink(s)
      <3> DEFINE after == {Len(s) - i : i \in Ink(s)}
      <3>1. after \in SUBSET Nat /\ after # {}
        BY <1>2, <2>1, <2>2
      <3> HIDE DEF after
      <3>2. PICK m \in after : \A x \in after : m <= x
        BY <3>1, LeastNat
      <3>3. PICK i \in Ink(s) : m = Len(s) - i
        BY DEF after
      <3>4. \A j \in Ink(s) : i >= j
        <4> SUFFICES ASSUME NEW j \in Ink(s) PROVE i >= j
          OBVIOUS
        <4>1. Len(s) - i <= Len(s) - j
          BY <3>2, <3>3 DEF after
        <4>2. i \in Int /\ j \in Int
          BY <2>2
        <4> QED
          BY <2>1, <4>1, <4>2
      <3> QED
        BY <3>4, Zenon DEF Max
    <2> HIDE DEF low, high
    <2>5. low \in Int /\ high \in Int /\ \A i \in low..high : s[i] \in Letters
      BY <2>1, <2>2, <2>3, <2>4
    <2>6. SubSeq(s, low, high) \in Seq(Letters)
      BY <2>5, SubSeqProperties
    <2> QED
      BY <1>2, <2>6 DEF Strip, low, high
  <1> QED
    BY <1>1, <1>2

(* Letters that count as one each are marked as they were found.             *)
LEMMA MarkReads ==
  ASSUME NEW t \in Seq(Letters), NEW v \in Seq(Letters), NEW p \in Places(Lower(t), Lower(v)),
         Len(Lower(v)) = Len(v), CaseText \in Seq(Letters), NEW b, StandsIn(CaseText, b, t),
         PlainUpTo(b + p + Len(v))
  PROVE  Lower(SubSeq(Units, Within(b + p) + 1, Within(b + p + Len(v)))) = Lower(v)
  <1> DEFINE w == Lower(v)  low == Lower(t)  whole == CaseText  len == Len(v)  e == b + p + len
             units == Units
  <1>0. Fold \in [Letters -> Seq(Letters)] /\ Encoded \in [Letters -> Seq(Letters)]
    BY ProvenanceAssumption
  <1>1. w \in Seq(Letters) /\ Len(w) = len /\ len \in Nat
    <2>1. Len(v) \in Nat
      BY LenProperties
    <2>2. 0 \in 0..Len(v) /\ \A k \in 1..0 : Len(Fold[v[k]]) = 1
      BY <2>1
    <2>3. Letterwise(v, Fold) \in Seq(Letters)
      BY <1>0, <2>2, LetterwiseSpells
    <2> QED
      BY <2>1, <2>3 DEF Lower
  <1>2. low \in Seq(Letters) /\ Len(low) \in Nat /\ Len(t) \in Nat
    <2>1. Len(t) \in Nat
      BY LenProperties
    <2>2. 0 \in 0..Len(t) /\ \A k \in 1..0 : Len(Fold[t[k]]) = 1
      BY <2>1
    <2>3. Letterwise(t, Fold) \in Seq(Letters)
      BY <1>0, <2>2, LetterwiseSpells
    <2>4. low \in Seq(Letters)
      BY <2>3 DEF Lower
    <2> QED
      BY <2>1, <2>4, LenProperties
  <1>3. p \in 0..Len(low) - Len(w) /\ SubSeq(low, p + 1, p + Len(w)) = w
    BY DEF Places
  <1>4. whole \in Seq(Letters) /\ Len(whole) \in Nat /\ DOMAIN whole = 1..Len(whole)
    BY LenProperties
  <1>5. b \in Nat /\ b + Len(t) <= Len(whole) /\ \A k \in 1..Len(t) : whole[b + k] = t[k]
    BY DEF StandsIn
  <1>6. \A i \in 1..e : i \in DOMAIN whole /\ Len(Fold[whole[i]]) = 1 /\ Encoded[whole[i]] = <<whole[i]>>
    BY DEF PlainUpTo, OneToOne
  <1>7. units = Letterwise(whole, Encoded)
    BY DEF Units
  <1> HIDE DEF w, low, whole, len, units
  <1>8. p \in Nat /\ p + len <= Len(low)
    BY <1>1, <1>2, <1>3
  <1> HIDE DEF e
  <1>9. e \in Nat /\ e = b + p + len
    BY <1>1, <1>5, <1>8 DEF e
  <1>10. e <= Len(whole)
    <2>1. CASE e = 0
      BY <1>4, <2>1
    <2>2. CASE e # 0
      <3>1. e \in 1..e
        BY <1>9, <2>2
      <3> QED
        BY <1>4, <1>6, <3>1
    <2> QED
      BY <2>1, <2>2
  <1>11. \A k \in 1..e : k \in 1..Len(whole) /\ whole[k] \in Letters
    BY <1>4, <1>6, ElementOfSeq
  <1>12. units \in Seq(Letters) /\ Len(units) \in Nat /\ e <= Len(units)
         /\ \A k \in 1..e : units[k] = whole[k]
    <2>0. \A k \in 1..e : Len(Encoded[whole[k]]) = 1 /\ Encoded[whole[k]][1] = whole[k]
      <3> SUFFICES ASSUME NEW k \in 1..e
                   PROVE  Len(Encoded[whole[k]]) = 1 /\ Encoded[whole[k]][1] = whole[k]
        OBVIOUS
      <3>1. Encoded[whole[k]] = <<whole[k]>>
        BY <1>6
      <3> QED
        BY <3>1
    <2>1. e \in 0..Len(whole) /\ \A k \in 1..e : Len(Encoded[whole[k]]) = 1
      BY <1>4, <1>9, <1>10, <2>0
    <2>2. /\ units \in Seq(Letters) /\ Len(units) \in Nat /\ e <= Len(units)
          /\ \A k \in 1..e : units[k] = Encoded[whole[k]][1]
      BY <1>0, <1>4, <1>7, <2>1, LetterwiseSpells
    <2> QED
      BY <2>0, <2>2
  <1>13. \A k \in 1..Len(t) : k <= p + len => Len(Fold[t[k]]) = 1
    <2> SUFFICES ASSUME NEW k \in 1..Len(t), k <= p + len PROVE Len(Fold[t[k]]) = 1
      OBVIOUS
    <2>1. b + k \in 1..e
      BY <1>1, <1>2, <1>5, <1>8, <1>9
    <2> QED
      BY <1>5, <1>6, <2>1
  <1>14. p + len <= Len(t)
    <2> SUFFICES ASSUME ~(p + len <= Len(t)) PROVE FALSE
      OBVIOUS
    <2>1. Len(t) \in 0..Len(t) /\ \A k \in 1..Len(t) : Len(Fold[t[k]]) = 1
      BY <1>1, <1>2, <1>8, <1>13
    <2>2. Len(Letterwise(t, Fold)) = Len(t)
      BY <1>0, <2>1, LetterwiseSpells
    <2> QED
      BY <1>1, <1>2, <1>8, <2>2 DEF low, Lower
  <1>15. \A k \in 1..p + len : low[k] = Fold[t[k]][1]
    <2>1. p + len \in 0..Len(t) /\ \A k \in 1..p + len : Len(Fold[t[k]]) = 1
      BY <1>1, <1>2, <1>8, <1>13, <1>14
    <2>2. \A k \in 1..p + len : Letterwise(t, Fold)[k] = Fold[t[k]][1]
      BY <1>0, <2>1, LetterwiseSpells
    <2> QED
      BY <2>2 DEF low, Lower
  <1>16. \A k \in 1..len : w[k] = low[p + k]
    <2>1. \A k \in 1..len : SubSeq(low, p + 1, p + len)[k] = low[p + k]
      BY <1>1, <1>2, <1>8, SubSeqLetters
    <2> QED
      BY <1>1, <1>3, <2>1
  <1> DEFINE mark == SubSeq(units, b + p + 1, b + p + len)
  <1>17. mark \in Seq(Letters) /\ Len(mark) = len /\ \A k \in 1..len : mark[k] = units[b + p + k]
    <2>1. b + p \in Nat /\ b + p + len <= Len(units)
      BY <1>5, <1>8, <1>9, <1>12
    <2> DEFINE a == b + p
    <2> HIDE DEF a
    <2>2. a \in Nat /\ a + len <= Len(units)
      BY <2>1 DEF a
    <2>3. /\ SubSeq(units, a + 1, a + len) \in Seq(Letters)
          /\ Len(SubSeq(units, a + 1, a + len)) = len
          /\ \A k \in 1..len : SubSeq(units, a + 1, a + len)[k] = units[a + k]
      BY <1>1, <1>12, <2>2, SubSeqLetters
    <2> QED
      BY <2>3 DEF a
  <1> HIDE DEF mark
  <1>18. ASSUME NEW k \in 1..len
         PROVE  /\ mark[k] = t[p + k] /\ Len(Fold[mark[k]]) = 1 /\ p + k \in 1..p + len
    <2>1. p + k \in 1..p + len /\ p + k \in 1..Len(t) /\ b + p + k \in 1..e /\ b + p + k = b + (p + k)
      <3>1. len \in Nat /\ p \in Nat /\ b \in Nat /\ e = b + p + len /\ p + len <= Len(t) /\ Len(t) \in Nat
        BY <1>1, <1>2, <1>5, <1>8, <1>9, <1>14
      <3>2. k \in Int /\ 1 <= k /\ k <= len
        BY <3>1
      <3> QED
        BY <3>1, <3>2
    <2>2. mark[k] = units[b + p + k] /\ units[b + p + k] = whole[b + p + k]
      BY <1>12, <1>17, <2>1
    <2>3. whole[b + (p + k)] = t[p + k]
      BY <1>5, <2>1
    <2>4. mark[k] = t[p + k]
      BY <2>1, <2>2, <2>3
    <2> QED
      BY <1>6, <2>1, <2>2, <2>4
  <1>19. /\ Lower(mark) \in Seq(Letters) /\ Len(Lower(mark)) = len
         /\ \A k \in 1..len : Lower(mark)[k] = Fold[mark[k]][1]
    <2>1. len \in 0..Len(mark) /\ len = Len(mark)
      BY <1>1, <1>17
    <2>2. \A k \in 1..len : Len(Fold[mark[k]]) = 1
      BY <1>18
    <2>3. /\ Letterwise(mark, Fold) \in Seq(Letters) /\ Len(Letterwise(mark, Fold)) = len
          /\ \A k \in 1..len : Letterwise(mark, Fold)[k] = Fold[mark[k]][1]
      <3>1. mark \in Seq(Letters) /\ Fold \in [Letters -> Seq(Letters)]
        BY <1>0, <1>17
      <3>2. /\ Letterwise(mark, Fold) \in Seq(Letters)
            /\ len = Len(mark) => Len(Letterwise(mark, Fold)) = len
            /\ \A k \in 1..len : Letterwise(mark, Fold)[k] = Fold[mark[k]][1]
        BY ONLY <2>1, <2>2, <3>1, LetterwiseSpells
      <3> QED
        BY <2>1, <3>2
    <2> QED
      BY <2>3 DEF Lower
  <1>20. Lower(mark) = w
    <2>1. \A k \in 1..len : Lower(mark)[k] = w[k]
      BY <1>15, <1>16, <1>18, <1>19
    <2> DEFINE x == Lower(mark)
    <2> HIDE DEF x
    <2>2. x \in Seq(Letters) /\ Len(x) = Len(w) /\ \A k \in 1..Len(x) : x[k] = w[k]
      BY <1>1, <1>19, <2>1 DEF x
    <2>3. x = w
      BY <1>1, <2>2, SeqEqual
    <2> QED
      BY <2>3 DEF x
  <1>21. Within(b + p) = b + p /\ Within(b + p + len) = b + p + len
    <2>1. b + p \in Nat /\ b + p <= e
      BY <1>1, <1>5, <1>8, <1>9
    <2> QED
      BY <1>9, <1>12, <2>1 DEF Within, units
  <1> QED
    BY <1>20, <1>21 DEF mark, units, w, len

(* While the texts up to the cited document are those it was cited in, what  *)
(* is marked reads as the value.                                             *)
LEMMA MarksTheValue ==
  ASSUME Placed, NEW c, PlaceTrue(c), c.at.letters # <<>>, Upto(InOrder, c.at.doc) = c.upto,
         PlainUpTo(c.at.letters[2]), Len(Lower(Strip(c.value))) = Len(Strip(c.value))
  PROVE  Reads(SubSeq(Units, Within(c.at.letters[1]) + 1, Within(c.at.letters[2])), c.value)
  <1> DEFINE u == c.upto  n == Len(u)  v == Strip(c.value)  parts == Texts(InOrder)
  <1>1. PICK before, p :
          /\ u \in Seq(Seq(Letters)) /\ u # <<>> /\ v \in Seq(Letters)
          /\ Offsets(before, u, n) /\ p \in Places(Lower(u[n]), Lower(v))
          /\ c.at.letters = <<before[n] + p, before[n] + p + Len(v)>>
    BY DEF PlaceTrue, Found
  <1>2. InOrder \in Seq(Docs)
    <2>1. InOrder \in Seq(Readable) /\ Readable \subseteq Docs
      BY OrderIsOfDocs DEF Readable
    <2> HIDE DEF parts
    <2> QED
      BY <2>1
  <1>3. parts \in Seq(Seq(Letters)) /\ Len(parts) = Len(InOrder)
    BY <1>2, TextsOf
  <1>4. n \in 0..Len(parts) /\ \A i \in 1..n : u[i] = parts[i]
    BY <1>3, UptoIs
  <1> HIDE DEF parts
  <1>5. n \in 1..Len(parts)
    BY <1>1, <1>3, <1>4
  <1>6. Offsets(before, parts, n)
    <2>1. DOMAIN before = 1..n
      BY <1>1 DEF Offsets
    <2>2. ASSUME NEW i \in 1..n
          PROVE  before[i] = IF i = 1 THEN 0 ELSE before[i - 1] + Len(parts[i - 1]) + 1
      <3>1. before[i] = IF i = 1 THEN 0 ELSE before[i - 1] + Len(u[i - 1]) + 1
        BY <1>1 DEF Offsets
      <3>2. i # 1 => u[i - 1] = parts[i - 1]
        BY <1>4, <1>5
      <3> QED
        BY <3>1, <3>2
    <2> QED
      BY <2>1, <2>2 DEF Offsets
  <1>7. u[n] = parts[n]
    <2>1. n \in 1..n
      BY <1>5
    <2> HIDE DEF n
    <2> QED
      BY <1>4, <2>1
  <1> HIDE DEF n, v
  <1>8. CaseText = Join(parts, "nl")
    BY DEF CaseText, parts
  <1>9. CaseText \in Seq(Letters) /\ StandsIn(CaseText, before[n], parts[n])
    <2>1. "nl" \in Letters
      BY ProvenanceAssumption
    <2> QED
      BY <1>3, <1>5, <1>6, <1>8, <2>1, JoinPlaces
  <1>10. c.at.letters[1] = before[n] + p /\ c.at.letters[2] = before[n] + p + Len(v)
    <2>1. c.at.letters = <<before[n] + p, before[n] + p + Len(v)>>
      BY <1>1 DEF n, v
    <2> QED
      BY <2>1
  <1> DEFINE t == parts[n]  b == before[n]
  <1>11. /\ t \in Seq(Letters) /\ v \in Seq(Letters) /\ p \in Places(Lower(t), Lower(v))
         /\ Len(Lower(v)) = Len(v) /\ CaseText \in Seq(Letters) /\ StandsIn(CaseText, b, t)
         /\ PlainUpTo(b + p + Len(v))
    <2>1. t \in Seq(Letters)
      BY <1>3, <1>5, ElementOfSeq
    <2>2. v \in Seq(Letters) /\ p \in Places(Lower(t), Lower(v))
      BY <1>1, <1>7 DEF n, v
    <2> QED
      BY <1>9, <1>10, <2>1, <2>2 DEF v
  <1> HIDE DEF t, b
  <1>12. Lower(SubSeq(Units, Within(b + p) + 1, Within(b + p + Len(v)))) = Lower(v)
    BY <1>11, MarkReads
  <1>13. c.at.letters[1] = b + p /\ c.at.letters[2] = b + p + Len(v)
    BY <1>10 DEF b
  <1> QED
    BY <1>12, <1>13 DEF Reads, v

(* A citation that is made is true.                                          *)
LEMMA CitedTrue ==
  ASSUME Placed, NEW quote \in Quotes
  PROVE  PlaceTrue(Cited(InOrder, quote)) /\ SpanTrue(Cited(InOrder, quote))
  <1> DEFINE docs == InOrder  c == Cited(docs, quote)
             holders == {j \in DOMAIN docs : FoundIn(docs[j], quote)}
             i == Min(holders)  d == docs[i]
  <1>1. docs \in Seq(Readable) /\ Len(docs) \in Nat /\ DOMAIN docs = 1..Len(docs)
    <2>1. docs \in Seq(Readable)
      BY OrderIsOfDocs
    <2> HIDE DEF docs
    <2> QED
      BY <2>1
  <1>2. Strip(quote) \in Seq(Letters)
    BY ProvenanceAssumption, StripIsText
  <1>3. /\ c.value = quote /\ c.at = Located(docs, quote)
        /\ c.upto = Upto(docs, Located(docs, quote).doc)
    BY DEF Cited
  <1>4. CASE holders = {}
    <2>1. Located(docs, quote) = WholeCase
      BY <1>4 DEF Located
    <2> HIDE DEF c
    <2>2. PlaceTrue(c) /\ SpanTrue(c)
      BY <1>3, <2>1 DEF PlaceTrue, SpanTrue, WholeCase
    <2> QED
      BY <2>2 DEF c
  <1>5. CASE holders # {}
    <2> HIDE DEF docs
    <2>1. i \in 1..Len(docs) /\ FoundIn(d, quote) /\ \A j \in holders : i <= j
      <3>1. holders \in SUBSET Nat
        BY <1>1
      <3>2. i \in holders /\ \A j \in holders : i <= j
        BY <1>5, <3>1, MinIsLeast
      <3> QED
        BY <1>1, <3>2
    <2>2. d \in Readable
      BY <1>1, <2>1
    <2>3. d \in Docs /\ contents[d].text # <<>> /\ contents[d] # NoRow
      BY <2>2 DEF Readable, NoRow
    <2>4. contents[d].text \in Seq(Letters) /\ contents[d].spans \in Seq(Seq(Letters))
      BY <2>3 DEF Placed
    <2>5. CASE Spoken(d)
      <3> DEFINE K == {k \in DOMAIN contents[d].spans : Says(contents[d].spans[k], quote)}
      <3>1. Located(docs, quote) = [doc |-> d, letters |-> <<>>, span |-> Min(K)]
        BY <1>5, <2>5 DEF Located
      <3>2. K \in SUBSET Nat /\ K # {}
        <4> HIDE DEF d
        <4>1. DOMAIN contents[d].spans = 1..Len(contents[d].spans)
          BY <2>4
        <4>2. \E k \in DOMAIN contents[d].spans : Says(contents[d].spans[k], quote)
          BY <2>1, <2>5 DEF FoundIn
        <4> QED
          BY <4>1, <4>2
      <3>3. Says(contents[d].spans[Min(K)], quote)
        <4>1. Min(K) \in K
          BY <3>2, MinIsLeast
        <4> QED
          BY <4>1
      <3> HIDE DEF K, c, d
      <3>4. c.at.doc = d /\ c.at.letters = <<>> /\ c.at.span = Min(K)
        BY <1>3, <3>1
      <3>5. PlaceTrue(c) /\ SpanTrue(c)
        BY <1>3, <2>3, <2>5, <3>3, <3>4 DEF PlaceTrue, SpanTrue
      <3> QED
        BY <3>5 DEF c, docs
    <2>6. CASE ~Spoken(d)
      <3> DEFINE p == Min(Found(contents[d].text, quote))  n == Base(docs, i)
      <3>1. Located(docs, quote) = [doc |-> d, letters |-> <<n + p, n + p + Len(Strip(quote))>>, span |-> 0]
        BY <1>5, <2>6 DEF Located
      <3>2. p \in Found(contents[d].text, quote)
        <4>1. Found(contents[d].text, quote) # {}
          BY <2>1, <2>6 DEF FoundIn, Says
        <4>2. Found(contents[d].text, quote) \in SUBSET Nat
          BY DEF Found, Places
        <4> QED
          BY <4>1, <4>2, MinIsLeast
      <3>3. PICK before : /\ before = [j \in 1..i |-> IF j = 1 THEN 0
                                ELSE before[j - 1] + Len(contents[docs[j - 1]].text) + 1]
                          /\ Base(docs, i) = before[i]
        <4>1. i \in Nat \ {0}
          BY <1>1, <2>1
        <4> HIDE DEF i
        <4> QED
          BY <4>1, BaseOf
      <3> DEFINE u == Upto(docs, d)  m == Len(u)
      <3>4. /\ u \in Seq(Seq(Letters)) /\ m \in 0..Len(docs)
            /\ \A j \in 1..m : u[j] = Texts(docs)[j]
            /\ \A j \in 1..Len(docs) : docs[j] = d => m <= j
            /\ d \in {docs[j] : j \in 1..Len(docs)} => m # 0 /\ docs[m] = d
        <4> HIDE DEF d
        <4> QED
          BY UptoIs DEF docs
      <3>5. docs \in Seq(Docs)
        <4>1. Readable \subseteq Docs
          BY DEF Readable
        <4> QED
          BY <1>1, <4>1
      <3>6. \A j \in 1..Len(docs) : Texts(docs)[j] = contents[docs[j]].text
        BY <3>5, TextsOf
      <3> HIDE DEF i, u, p, n
      <3>7. m = i
        <4>1. m # 0 /\ docs[m] = d /\ m <= i
          BY <2>1, <3>4
        <4>2. m \in holders
          BY <1>1, <2>1, <3>4, <4>1
        <4>3. i <= m
          BY <2>1, <4>2
        <4> QED
          BY <1>1, <2>1, <3>4, <4>1, <4>3
      <3>8. u[m] = contents[d].text
        <4>1. m \in 1..m /\ m \in 1..Len(docs)
          BY <1>1, <2>1, <3>4, <3>7
        <4> QED
          BY <3>4, <3>6, <3>7, <4>1
      <3>9. Offsets(before, u, m)
        <4>1. DOMAIN before = 1..m
          BY <3>3, <3>7
        <4>2. ASSUME NEW j \in 1..m
              PROVE  before[j] = IF j = 1 THEN 0 ELSE before[j - 1] + Len(u[j - 1]) + 1
          <5>1. before[j] = IF j = 1 THEN 0
                            ELSE before[j - 1] + Len(contents[docs[j - 1]].text) + 1
            BY <3>3, <3>7
          <5>2. j # 1 => j - 1 \in 1..m /\ j - 1 \in 1..Len(docs)
            BY <1>1, <3>4
          <5>3. j # 1 => u[j - 1] = contents[docs[j - 1]].text
            BY <3>4, <3>6, <5>2
          <5> QED
            BY <5>1, <5>3
        <4> QED
          BY <4>1, <4>2 DEF Offsets
      <3>10. c.upto = u /\ c.at = [doc |-> d, letters |-> <<n + p, n + p + Len(Strip(quote))>>, span |-> 0]
        <4> HIDE DEF c
        <4>1. c.at = [doc |-> d, letters |-> <<n + p, n + p + Len(Strip(quote))>>, span |-> 0]
          BY <1>3, <3>1
        <4>2. c.upto = Upto(docs, d)
          BY <1>3, <3>1
        <4> QED
          BY <4>1, <4>2 DEF u
      <3>11. n = before[m]
        BY <3>3, <3>7 DEF n
      <3>12. u # <<>>
        BY <1>1, <2>1, <3>4, <3>7
      <3>13. p \in Found(u[m], quote)
        BY <3>2, <3>8
      <3> HIDE DEF c, d, m
      <3>14. PlaceTrue(c)
        <4>1. c.at.letters = <<before[m] + p, before[m] + p + Len(Strip(quote))>>
          BY <3>10, <3>11
        <4> QED
          BY <1>2, <1>3, <3>4, <3>9, <3>10, <3>12, <3>13, <4>1 DEF PlaceTrue, m
      <3>15. SpanTrue(c)
        BY <3>10 DEF SpanTrue
      <3> QED
        BY <3>14, <3>15 DEF c, docs
    <2> QED
      BY <2>5, <2>6
  <1> QED
    BY <1>4, <1>5

-----------------------------------------------------------------------------
LEMMA SourcesInit == ProvenanceInit => SourcesInv
  <1> SUFFICES ASSUME ProvenanceInit PROVE SourcesInv
    OBVIOUS
  <1>1. NoRow \in [at : Nat, text : Seq(Letters), spans : Seq(Seq(Letters))]
    BY DEF NoRow
  <1>2. Placed
    BY <1>1 DEF ProvenanceInit, Placed, NoRow
  <1> QED
    BY <1>2 DEF ProvenanceInit, SourcesInv

LEMMA SpokenReadAlike ==
  ASSUME NEW d \in Docs, Spoken(d), NEW ocr \in BOOLEAN
  PROVE  Normalised(Content[d], ocr) = Normalised(Content[d], TRUE)
  BY DEF Spoken, Normalised

LEMMA SaveStep ==
  ASSUME SourcesInv, NEW d \in Docs, NEW ocr \in BOOLEAN, Save(d, ocr)
  PROVE  SourcesInv'
  <1> DEFINE content == Normalised(Content[d], ocr)
             at == IF contents[d] = NoRow THEN working[d] ELSE contents[d].at
             row == [at |-> at, text |-> content.text, spans |-> content.spans]
  <1>1. content \in NormalisedContent
    BY ProvenanceAssumption
  <1>2. /\ working[d] # 0 /\ contents' = [contents EXCEPT ![d] = row]
        /\ working' = [working EXCEPT ![d] = 0] /\ begins' = begins /\ current' = current
    BY DEF Save
  <1>3. Placed
    BY DEF SourcesInv
  <1>4. at \in Nat /\ at # 0 /\ at <= begins
    BY <1>2, <1>3 DEF Placed
  <1>5. row \in [at : Nat, text : Seq(Letters), spans : Seq(Seq(Letters))] /\ row.at = at
    BY <1>1, <1>4 DEF NormalisedContent
  <1>6. Spoken(d) => row.spans = Normalised(Content[d], TRUE).spans
    BY SpokenReadAlike
  <1>7. ASSUME NEW e \in Docs, e # d
        PROVE  at # contents[e].at /\ (working[e] # 0 => working[e] # at)
    BY <1>2, <1>3, <1>4, <1>7 DEF Placed
  <1> HIDE DEF at, row
  <1>8. Placed'
    <2>1. /\ contents' \in [Docs -> [at : Nat, text : Seq(Letters), spans : Seq(Seq(Letters))]]
          /\ working' \in [Docs -> Nat] /\ begins' \in Nat
      BY <1>2, <1>3, <1>5 DEF Placed
    <2>2. ASSUME NEW e \in Docs
          PROVE  /\ contents'[e] = IF e = d THEN row ELSE contents[e]
                 /\ working'[e] = IF e = d THEN 0 ELSE working[e]
      BY <1>2, <1>3 DEF Placed
    <2>3. ASSUME NEW e \in Docs
          PROVE  /\ contents'[e].at <= begins' /\ working'[e] <= begins'
                 /\ contents'[e].at = 0 => contents'[e] = NoRow
                 /\ Spoken(e) /\ contents'[e] # NoRow =>
                      contents'[e].spans = Normalised(Content[e], TRUE).spans
      <3>1. CASE e = d
        <4>1. begins \in Nat
          BY <1>3 DEF Placed
        <4>2. contents'[e] = row /\ working'[e] = 0 /\ begins' = begins
          BY <1>2, <2>2, <3>1
        <4>3. contents'[e].at <= begins' /\ working'[e] <= begins'
          BY <1>4, <1>5, <4>1, <4>2
        <4>4. contents'[e].at # 0
          BY <1>4, <1>5, <4>2
        <4>5. Spoken(e) => contents'[e].spans = Normalised(Content[e], TRUE).spans
          BY <1>6, <3>1, <4>2
        <4> QED
          BY <4>3, <4>4, <4>5
      <3>2. CASE e # d
        BY <1>2, <1>3, <2>2, <3>2 DEF Placed
      <3> QED
        BY <3>1, <3>2
    <2>4. ASSUME NEW e \in Docs, NEW f \in Docs, e # f
          PROVE  /\ contents'[e].at # 0 => contents'[e].at # contents'[f].at
                 /\ working'[e] # 0 => working'[e] \notin {working'[f], contents'[f].at}
      BY <1>3, <1>5, <1>7, <2>2, <2>4 DEF Placed
    <2> QED
      BY <2>1, <2>3, <2>4 DEF Placed
  <1>9. ASSUME NEW f \in Fields, current[f] # NoValue
        PROVE  PlaceTrue(current[f])' /\ SpanTrue(current[f])'
    <2>1. PlaceTrue(current[f]) /\ SpanTrue(current[f]) /\ current'[f] = current[f]
      BY <1>2, <1>9 DEF SourcesInv
    <2>2. PlaceTrue(current[f])'
      BY <2>1 DEF PlaceTrue
    <2>3. \A e \in Docs : Spoken(e) /\ contents[e] # NoRow =>
            contents'[e] # NoRow /\ contents'[e].spans = contents[e].spans
      <3>1. row # NoRow
        BY <1>4, <1>5 DEF NoRow
      <3> QED
        BY <1>2, <1>3, <1>6, <3>1 DEF Placed
    <2> QED
      BY <2>1, <2>2, <2>3 DEF SpanTrue
  <1> QED
    BY <1>2, <1>8, <1>9 DEF SourcesInv

LEMMA SourcesStep == SourcesInv /\ [ProvenanceStep]_provenanceVars => SourcesInv'
  <1> SUFFICES ASSUME SourcesInv, [ProvenanceStep]_provenanceVars PROVE SourcesInv'
    OBVIOUS
  <1> USE DEF SourcesInv
  <1>1. ASSUME UNCHANGED <<contents, current>>, Placed' PROVE SourcesInv'
    BY <1>1 DEF PlaceTrue, SpanTrue
  <1>2. ASSUME NEW d \in Docs, Normalise(d) PROVE SourcesInv'
    <2>1. Placed'
      <3>1. /\ working' = [working EXCEPT ![d] = begins + 1] /\ begins' = begins + 1
            /\ contents' = contents
        BY <1>2 DEF Normalise
      <3>2. Placed
        OBVIOUS
      <3> HIDE DEF SourcesInv
      <3>3. /\ contents' \in [Docs -> [at : Nat, text : Seq(Letters), spans : Seq(Seq(Letters))]]
            /\ working' \in [Docs -> Nat] /\ begins' \in Nat
        BY <3>1, <3>2 DEF Placed
      <3>4. \A e \in Docs : /\ working'[e] = IF e = d THEN begins + 1 ELSE working[e]
                            /\ contents[e].at \in Nat /\ working[e] \in Nat
                            /\ contents[e].at <= begins /\ working[e] <= begins
        BY <3>1, <3>2 DEF Placed
      <3>5. ASSUME NEW e \in Docs
            PROVE  /\ contents'[e].at <= begins' /\ working'[e] <= begins'
                   /\ contents'[e].at = 0 => contents'[e] = NoRow
                   /\ Spoken(e) /\ contents'[e] # NoRow =>
                        contents'[e].spans = Normalised(Content[e], TRUE).spans
        <4>1. begins \in Nat
          BY <3>2 DEF Placed
        <4>2. contents'[e].at <= begins' /\ working'[e] <= begins'
          BY <3>1, <3>4, <4>1
        <4> QED
          BY <3>1, <3>2, <4>2 DEF Placed
      <3>6. ASSUME NEW e \in Docs, NEW f \in Docs, e # f
            PROVE  /\ contents'[e].at # 0 => contents'[e].at # contents'[f].at
                   /\ working'[e] # 0 => working'[e] \notin {working'[f], contents'[f].at}
        <4>1. begins \in Nat
          BY <3>2 DEF Placed
        <4>2. /\ contents[e].at # 0 => contents[e].at # contents[f].at
              /\ working[e] # 0 => working[e] \notin {working[f], contents[f].at}
          BY <3>2, <3>6 DEF Placed
        <4> QED
          BY <3>1, <3>4, <3>6, <4>1, <4>2
      <3> QED
        BY <3>3, <3>5, <3>6 DEF Placed
    <2> QED
      BY <1>1, <1>2, <2>1 DEF Normalise
  <1>3. ASSUME NEW d \in Docs, NormaliseFails(d) PROVE SourcesInv'
    <2>1. Placed'
      <3>1. working' = [working EXCEPT ![d] = 0] /\ begins' = begins /\ contents' = contents
        BY <1>3 DEF NormaliseFails
      <3>2. Placed
        OBVIOUS
      <3> HIDE DEF SourcesInv
      <3>3. \A e \in Docs : working'[e] = IF e = d THEN 0 ELSE working[e]
        BY <3>1, <3>2 DEF Placed
      <3>4. ASSUME NEW e \in Docs, NEW f \in Docs, e # f
            PROVE  working'[e] # 0 => working'[e] \notin {working'[f], contents'[f].at}
        BY <3>1, <3>2, <3>3, <3>4 DEF Placed
      <3>5. working' \in [Docs -> Nat] /\ \A e \in Docs : working'[e] <= begins
        BY <3>1, <3>2, <3>3 DEF Placed
      <3> QED
        BY <3>1, <3>2, <3>4, <3>5 DEF Placed
    <2> QED
      BY <1>1, <1>3, <2>1 DEF NormaliseFails
  <1>4. ASSUME NEW d \in Docs, NEW ocr \in BOOLEAN, Save(d, ocr) PROVE SourcesInv'
    <2>1. SourcesInv
      OBVIOUS
    <2> HIDE DEF SourcesInv
    <2> QED
      BY <1>4, <2>1, SaveStep
  <1>5. CASE ReadCase
    <2>1. Placed'
      BY <1>5 DEF ReadCase, Placed
    <2> QED
      BY <1>1, <1>5, <2>1 DEF ReadCase
  <1>6. ASSUME NEW said \in [Fields -> Quotes \cup {NoQuote}], ExtractCase(said) PROVE SourcesInv'
    <2>1. Placed'
      BY <1>6 DEF ExtractCase, Placed
    <2>2. ASSUME NEW f \in Fields, current'[f] # NoValue
          PROVE  PlaceTrue(current'[f]) /\ SpanTrue(current'[f])
      <3>1. current'[f] = IF said[f] = NoQuote THEN current[f] ELSE Cited(InOrder, said[f])
        BY <1>6 DEF ExtractCase
      <3>2. CASE said[f] = NoQuote
        BY <2>2, <3>1, <3>2
      <3>3. CASE said[f] # NoQuote
        <4>1. said[f] \in Quotes
          BY <3>3
        <4> QED
          BY <3>1, <3>3, <4>1, CitedTrue
      <3> QED
        BY <3>2, <3>3
    <2>3. contents' = contents
      BY <1>6 DEF ExtractCase
    <2> QED
      BY <2>1, <2>2, <2>3 DEF PlaceTrue, SpanTrue
  <1>7. CASE UNCHANGED provenanceVars
    <2>1. Placed'
      BY <1>7 DEF provenanceVars, Placed
    <2> QED
      BY <1>1, <1>7, <2>1 DEF provenanceVars
  <1> QED
    BY <1>2, <1>3, <1>4, <1>5, <1>6, <1>7 DEF ProvenanceStep

LEMMA SourcesHold == SourcesInv => HighlightStands
  <1> SUFFICES ASSUME SourcesInv, NEW f \in Fields, current[f] # NoValue
      PROVE  LET at == current[f].at IN
             /\ Highlighted(f) /\ Unmoved(f) /\ PlainUpTo(at.letters[2])
                  /\ Len(Lower(Strip(current[f].value))) = Len(Strip(current[f].value))
                  => Reads(Marks(f), current[f].value)
             /\ at.span # 0 => Says(contents[at.doc].spans[at.span], current[f].value)
    BY DEF HighlightStands
  <1>1. Placed /\ PlaceTrue(current[f]) /\ SpanTrue(current[f])
    BY DEF SourcesInv
  <1>2. ASSUME Highlighted(f), Unmoved(f), PlainUpTo(current[f].at.letters[2]),
               Len(Lower(Strip(current[f].value))) = Len(Strip(current[f].value))
        PROVE  Reads(Marks(f), current[f].value)
    <2>1. current[f].at.letters # <<>>
      BY <1>2 DEF Highlighted
    <2>2. Upto(InOrder, current[f].at.doc) = current[f].upto
      BY <1>2 DEF Unmoved
    <2> QED
      BY <1>1, <1>2, <2>1, <2>2, MarksTheValue DEF Marks
  <1> QED
    BY <1>1, <1>2 DEF SpanTrue

(* A highlight reads as the value it stands for, for any documents, texts,   *)
(* fields and rules of lower case and UTF-16, as long as nothing was moved   *)
(* and every letter before it counts as one: provenance.py counts its        *)
(* offsets over the list the store joins.                                    *)
THEOREM HighlightsAreTrue == ProvenanceSpec => []HighlightStands
<1>1. ProvenanceInit => SourcesInv
  BY SourcesInit
<1>2. SourcesInv /\ [ProvenanceStep]_provenanceVars => SourcesInv'
  BY SourcesStep
<1>3. SourcesInv => HighlightStands
  BY SourcesHold
<1> QED BY <1>1, <1>2, <1>3, PTL DEF ProvenanceSpec

(* The same beside the desk and the tuning loop.                             *)
LEMMA SourcesBeside ==
  /\ InitDesk /\ part = "provenance" => ProvenanceInit
  /\ NextDesk /\ part' = "provenance" => part = "provenance" /\ ProvenanceStep
BY DEF InitDesk, NextDesk, Moves

(* The highlights of the instance in which a reviewer sees them: they hold.  *)
THEOREM HighlightsBesideTheDesk == SpecDesk => []HighlightHolds
<1> DEFINE Beside == part = "provenance" => SourcesInv
<1>1. InitDesk => Beside
  BY SourcesInit, SourcesBeside
<1>2. Beside /\ [NextDesk]_<<part, deskVars, provenanceVars, tuningVars>> => Beside'
  <2> SUFFICES ASSUME Beside, [NextDesk]_<<part, deskVars, provenanceVars, tuningVars>>,
                      part' = "provenance"
               PROVE  SourcesInv'
    OBVIOUS
  <2>1. part = "provenance" /\ [ProvenanceStep]_provenanceVars
    BY SourcesBeside
  <2> HIDE DEF ProvenanceStep
  <2> QED BY <2>1, SourcesStep
<1>3. Beside => HighlightHolds
  BY SourcesHold DEF HighlightHolds
<1> QED BY <1>1, <1>2, <1>3, PTL DEF SpecDesk
=============================================================================
