----------------------------- MODULE PublicEdge -----------------------------
(* The edge of the portal: the checks a stranger's submission or answer goes *)
(* through before a case is touched, the rate limiter they share with the    *)
(* sign-in routes, and the signed link a submission is answered with.        *)
(* portal/router.py, portal/tokens.py, api/routes._limit_auth, the size check *)
(* of main.py, the start-up check of config.py.                              *)
(*                                                                           *)
(* The limiter keeps its hits in the process: it forgets them on a restart.  *)
(* A request runs up to its first await in one piece, so the limiter needs   *)
(* no lock here; the sign-in routes run in threads and take one.             *)
EXTENDS Integers, Sequences, FiniteSets

CONSTANTS
  LimitKeys,     \* the keys of the limiter: of an address, a tenant, a sign-in
  Limit, Window, \* what each key admits, and over how long
  Addresses, TenantKey, AuthKey, \* the key of an address, of the tenant, of an address signing in
  Sizes,         \* the sizes of a text or a file
  MaxFile, MaxRequest, \* portal_max_file_bytes, portal_max_request_bytes
  MaxFiles,      \* bound: files in a request
  EmbedKeys, Origins,    \* the site keys and the origins a request may carry, or Missing
  KnownKeys, OwnOrigin, AllowedOrigins, \* the tenant's; the server's own; the tenant's list
  Declared, MaxBody,     \* declared content lengths, or Missing; api_max_request_bytes
  MaxTime, MaxRestarts, \* bounds: the clock, restarts of the server
  Secrets, Missing  \* what portal_secret may be

(* Addresses, the tenant and sign-ins are counted apart. The settings leave  *)
(* room: what an address may do in stretches of its window that cover the    *)
(* tenant's is less than the tenant has (5 in 600 seconds, 60 in 3600).      *)
ASSUME EdgeAssumption ==
  /\ Limit \in [LimitKeys -> Nat \ {0}] /\ Window \in [LimitKeys -> Nat]
  /\ Addresses \subseteq LimitKeys /\ TenantKey \in LimitKeys \ Addresses
  /\ AuthKey \in [Addresses -> LimitKeys \ (Addresses \cup {TenantKey})]
  /\ Sizes \subseteq Nat /\ MaxFile \in Nat /\ MaxRequest \in Nat /\ MaxTime \in Nat
  /\ \A a \in Addresses : \E n \in 0..Window[TenantKey] + 1 :
       n * (Window[a] + 1) > Window[TenantKey] /\ n * Limit[a] < Limit[TenantKey]

VARIABLES
  now, restarts,
  hits,      \* _SlidingWindow._hits: per key, the times still held
  admitted,  \* all the times a key was let through since the last restart
  request,   \* the request whose files are being read
  secret,    \* portal_secret, read once at start
  links      \* the secrets of the links handed out

edgeVars == <<now, restarts, hits, admitted, request, secret, links>>

NoRequest == [on |-> FALSE, held |-> 0]

(* In production the process does not start on an empty or a placeholder     *)
(* secret.                                                                   *)
Insecure(s) == s \in {Missing, "placeholder"}
Boots(prod, s) == prod => ~Insecure(s)

EdgeInit ==
  /\ now = 0 /\ restarts = 0 /\ request = NoRequest
  /\ hits = [k \in LimitKeys |-> <<>>] /\ admitted = [k \in LimitKeys |-> <<>>]
  /\ secret \in {s \in Secrets : \E prod \in BOOLEAN : Boots(prod, s)}
  /\ links = {}

-----------------------------------------------------------------------------
(* The sliding window.                                                       *)
\* a slip, for the mutation runs: the hit at the very start of the window goes
ExpiredEarly(k, t) == t <= now - Window[k]
Expired(k, t) == t < now - Window[k]
\* the expired ones at the front are popped
Popped(k) == CHOOSE n \in 0..Len(hits[k]) :
  /\ \A i \in 1..n : Expired(k, hits[k][i])
  /\ n < Len(hits[k]) => ~Expired(k, hits[k][n + 1])
Held(k) == SubSeq(hits[k], Popped(k) + 1, Len(hits[k]))
Full(k) == Len(Held(k)) >= Limit[k]
Pruned(ks) == [k \in LimitKeys |-> IF k \in ks THEN Held(k) ELSE hits[k]]
Hit(ks) ==
  /\ hits' = [k \in LimitKeys |-> IF k \in ks THEN Append(Held(k), now) ELSE hits[k]]
  /\ admitted' = [k \in LimitKeys |-> IF k \in ks THEN Append(admitted[k], now) ELSE admitted[k]]

(* The address is counted before the tenant is asked, and stays counted when *)
(* the tenant refuses.                                                       *)
TurnedAway(a) ==
  IF Full(a) THEN hits' = Pruned({a}) /\ UNCHANGED admitted
  ELSE /\ Full(TenantKey)
       /\ hits' = [Pruned({TenantKey}) EXCEPT ![a] = Append(Held(a), now)]
       /\ admitted' = [admitted EXCEPT ![a] = Append(@, now)]
LetThrough(a) == ~Full(a) /\ ~Full(TenantKey) /\ Hit({a, TenantKey})

SignIn(a) ==
  /\ ~request.on
  /\ IF Full(AuthKey[a]) THEN hits' = Pruned({AuthKey[a]}) /\ UNCHANGED admitted
                         ELSE Hit({AuthKey[a]})
  /\ UNCHANGED <<now, restarts, request, secret, links>>

TooMany(a) ==
  /\ ~request.on /\ TurnedAway(a)
  /\ UNCHANGED <<now, restarts, request, secret, links>>

-----------------------------------------------------------------------------
(* What is asked before the limiter: the declared length, the site key (a    *)
(* blank one reads nothing), and the origin, which only a browser states.    *)
Oversized(declared) == declared # Missing /\ declared > MaxBody
SiteKnown(key)      == key # Missing /\ key \in KnownKeys
OriginOk(origin)    == origin \in {Missing, OwnOrigin} \cup AllowedOrigins

(* A link is good under the secret it was signed with, and none without one. *)
Verified(link) == secret # Missing /\ link = secret

(* An answer: the link, the site it comes from, the limiter. An empty one is *)
(* refused, after it was counted.                                            *)
Answer(a, link, origin) ==
  /\ ~request.on /\ Verified(link) /\ OriginOk(origin)
  /\ LetThrough(a)
  /\ UNCHANGED <<now, restarts, request, secret, links>>

(* A submission: the site key, the site it comes from, the limiter, and the  *)
(* size of its text. The form was read before any of them: the text is held  *)
(* whole by the time its size is asked. A body that declares its length is   *)
(* no longer than that; one sent in chunks declares none.                    *)
Submit(a, key, origin, declared, text) ==
  /\ ~request.on
  /\ ~Oversized(declared) /\ SiteKnown(key) /\ OriginOk(origin)
  /\ declared # Missing => text <= declared
  /\ LetThrough(a)
  /\ request' = IF text > MaxRequest THEN [on |-> FALSE, held |-> text]
                ELSE [on |-> TRUE, total |-> text, files |-> 0, held |-> text]
  /\ UNCHANGED <<now, restarts, secret, links>>

(* A file is read up to one byte past what is left.                          *)
Left == IF MaxRequest - request.total < MaxFile THEN MaxRequest - request.total ELSE MaxFile
Taken(size) == IF size <= Left THEN size ELSE Left + 1
FileFits(size, allowed) == Left > 0 /\ (size = 0 \/ (allowed /\ Taken(size) <= Left))

ReadFile(size, allowed) ==
  /\ request.on /\ request.files < MaxFiles
  /\ request' =
       IF FileFits(size, allowed)
         THEN [request EXCEPT !.total = @ + size, !.files = @ + 1,
                              !.held = request.total + size]
         ELSE [on |-> FALSE, held |-> request.total + (IF Left <= 0 THEN 0 ELSE Taken(size))]
  /\ UNCHANGED <<now, restarts, hits, admitted, secret, links>>

(* The case is filed, and then its link is signed: without a secret the case *)
(* is there and the customer gets an error.                                  *)
FileCase ==
  /\ request.on
  /\ links' = IF request.total = 0 \/ secret = Missing THEN links ELSE links \cup {secret}
  /\ request' = NoRequest
  /\ UNCHANGED <<now, restarts, hits, admitted, secret>>

-----------------------------------------------------------------------------
Tick ==
  /\ now < MaxTime /\ ~request.on
  /\ now' = now + 1
  /\ UNCHANGED <<restarts, hits, admitted, request, secret, links>>

(* The process starts again, with another secret or the same.                *)
Restart(s) ==
  /\ restarts < MaxRestarts /\ restarts' = restarts + 1
  /\ hits' = [k \in LimitKeys |-> <<>>] /\ admitted' = [k \in LimitKeys |-> <<>>]
  /\ request' = NoRequest /\ secret' = s
  /\ UNCHANGED <<now, links>>

EdgeStep ==
  \/ Tick
  \/ \E s \in Secrets : Restart(s)
  \/ \E a \in Addresses :
       \/ SignIn(a) \/ TooMany(a)
       \/ \E link \in links, origin \in Origins : Answer(a, link, origin)
       \/ \E key \in EmbedKeys, origin \in Origins, declared \in Declared, text \in Sizes :
            Submit(a, key, origin, declared, text)
  \/ \E size \in Sizes, allowed \in BOOLEAN : ReadFile(size, allowed)
  \/ FileCase

-----------------------------------------------------------------------------
EdgeSpec == EdgeInit /\ [][EdgeStep]_edgeVars

Within(k, from) == Cardinality({i \in DOMAIN admitted[k] :
                                  admitted[k][i] \in from..from + Window[k]})

(* Whatever the order of the requests, no key is let through more often than *)
(* its limit in any stretch of time as long as its window, both ends         *)
(* included.                                                                 *)
NeverFlooded == \A k \in LimitKeys : \A t \in 0..MaxTime : Within(k, t) <= Limit[k]

(* The server never holds more of a request than it may have, and one byte:  *)
(* "Read only one byte past the applicable limit ... can otherwise allocate  *)
(* an arbitrarily large chunked request before either size check runs"       *)
(* (portal/router.py:195). So it is of the files; a text sent in chunks is   *)
(* in memory whatever its size, and this does not hold.                      *)
NeverOverfull == request.held <= MaxRequest + 1

(* The limits of an address and of the tenant go together: it takes two      *)
(* addresses to use up what the tenant has, so one customer alone does not   *)
(* close the portal for the others.                                          *)
Lately(a) == \E i \in DOMAIN admitted[a] : admitted[a][i] >= now - Window[TenantKey]
NotAlone == Full(TenantKey) => \E a, b \in Addresses : a # b /\ Lately(a) /\ Lately(b)

(* No key is let through too often, and one address does not use up the      *)
(* tenant.                                                                   *)
EdgeBounded == NeverFlooded /\ NotAlone
=============================================================================
