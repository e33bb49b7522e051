------------------------------ MODULE Accounts ------------------------------
(* Reviewer accounts, workspaces and sessions: review_auth.py, the           *)
(* functions of migration 0027 and the auth routes. A client is a browser    *)
(* and the request it has in flight; its cookie stands for its newest        *)
(* session. What a request does once it is let in is the other modules'.     *)
EXTENDS Integers, FiniteSets

CONSTANTS
  Clients, Emails, Workspaces,
  None

ASSUME AccountsAssumption == None \notin Workspaces \cup Emails

VARIABLES
  workspaces,   \* tenant: the ids that exist
  gone,         \* history: the ids that did, and no longer do
  users,        \* app_user with its membership: [email, workspace]
  sessions,     \* review_session, the newest of each client
  clients       \* the request each client has in flight

accountVars == <<workspaces, gone, users, sessions, clients>>

Idle == [phase |-> "idle"]
NoSession == [status |-> "none"]
Session(u) == [status |-> "live", email |-> u.email, workspace |-> u.workspace]

AccountsInit ==
  /\ users = {} /\ workspaces = {} /\ gone = {}
  /\ sessions = [c \in Clients |-> NoSession]
  /\ clients = [c \in Clients |-> Idle]

OpenSignups(e) == {c \in Clients : clients[c].phase = "signup" /\ clients[c].email = e}
Known(e) == \E u \in users : u.email = e
Opening == {clients[c].workspace : c \in {c \in Clients : clients[c].phase = "signup"}}

-----------------------------------------------------------------------------
(* resolve_session: live, and joined to a user and membership that exist.    *)
Resolves(c) ==
  /\ sessions[c].status = "live"
  /\ [email |-> sessions[c].email, workspace |-> sessions[c].workspace] \in users

(* Bound: a browser signs up or in only when it has no live session.         *)
SignedOut(c) == clients[c] = Idle /\ ~Resolves(c)

(* create_account: the workspace, the user, the membership and the session,  *)
(* in one transaction. The unique index on the email makes a second sign-up  *)
(* wait for the first to end, and refuses it if that one committed.          *)
EmailFree(e) == ~Known(e) /\ OpenSignups(e) = {}

(* The workspace's id is generated: one that has never been used.            *)
Fresh == Workspaces \ (workspaces \cup gone \cup Opening)
Signup(c, e) ==
  /\ SignedOut(c) /\ EmailFree(e) /\ Fresh # {}
  /\ clients' = [clients EXCEPT ![c] =
       [phase |-> "signup", email |-> e, workspace |-> CHOOSE w \in Fresh : TRUE]]
  /\ UNCHANGED <<workspaces, gone, users, sessions>>

Joined(c) == [email |-> clients[c].email, workspace |-> clients[c].workspace]
SignupCommits(c) ==
  /\ clients[c].phase = "signup"
  /\ workspaces' = workspaces \cup {clients[c].workspace}
  /\ users' = users \cup {Joined(c)}
  /\ sessions' = [sessions EXCEPT ![c] = Session(Joined(c))]
  /\ clients' = [clients EXCEPT ![c] = Idle]
  /\ UNCHANGED gone

(* login: the row is looked up, the password is hashed, and only then is the *)
(* session inserted, for the membership that exists by then. Without one     *)
(* nothing is inserted, and the cookies are set all the same.                *)
Login(c, u) ==
  /\ SignedOut(c) /\ u \in users
  /\ clients' = [clients EXCEPT ![c] =
       [phase |-> "login", email |-> u.email, workspace |-> u.workspace]]
  /\ UNCHANGED <<workspaces, gone, users, sessions>>

LoginEnds(c) ==
  /\ clients[c].phase = "login"
  /\ sessions' = [sessions EXCEPT ![c] = IF Joined(c) \in users THEN Session(Joined(c))
                                         ELSE NoSession]
  /\ clients' = [clients EXCEPT ![c] = Idle]
  /\ UNCHANGED <<workspaces, gone, users>>

Fails(c) ==
  /\ clients[c].phase \in {"signup", "login"}
  /\ clients' = [clients EXCEPT ![c] = Idle]
  /\ UNCHANGED <<workspaces, gone, users, sessions>>

(* A request with a valid session is let in, for its workspace.              *)
Enter(c, request) ==
  /\ clients[c] = Idle /\ Resolves(c)
  /\ clients' = [clients EXCEPT ![c] = request]
  /\ UNCHANGED <<workspaces, gone, users, sessions>>

(* revoke_review_session, or twelve hours passing: at any moment.            *)
SessionEnds(c) ==
  /\ sessions[c].status = "live"
  /\ sessions' = [sessions EXCEPT ![c] = NoSession]
  /\ UNCHANGED <<workspaces, gone, users, clients>>

AccountStep(c) ==
  \/ \E e \in Emails : Signup(c, e)
  \/ \E u \in users : Login(c, u)
  \/ SignupCommits(c) \/ Fails(c) \/ SessionEnds(c)
=============================================================================
