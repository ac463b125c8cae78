------------------------------ MODULE Accounts ------------------------------
(***************************************************************************)
(* Sessions and who may use them (apps/api/src/auth.ts, auth-routes.ts,    *)
(* admin-mgmt-routes.ts): login, TV pairing, revocation, disabled accounts *)
(* and the 30 s liveness cache in front of them, on the server Api.  Its   *)
(* signing key comes from JwtSecret, which it shares with the servers      *)
(* started beside it.  A restart of Api loses the cache and the requests   *)
(* under way.  One pairing code; devices and invites are in Household;     *)
(* passwords and the sliding expiry of refresh tokens are left out.        *)
(***************************************************************************)
EXTENDS Integers, FiniteSets

CONSTANTS People,    \* accounts
          Sessions,  \* bound: sessions that can be created
          Requests,  \* bound: requests, in order of arrival
          Guards,    \* authenticated requests under way at once
          TTL,       \* ticks a liveness verdict is kept for
          MaxStops,  \* bound: restarts of Api
          Servers, Api, None

ASSUME AccountsAssumption ==
  /\ TTL \in Nat \ {0}
  /\ MaxStops \in Nat
  /\ Requests \subseteq Nat /\ IsFiniteSet(Requests)
  /\ Api \in Servers /\ {"absent", "null"} \cap Servers = {}
  /\ None \notin People \cup Sessions \cup Servers

VARIABLES
  row, boot, key, \* of JwtSecret
  disabled, \* accounts an admin has disabled
  sess,     \* session rows
  owner,    \* and their accounts
  cache,    \* liveness verdicts, with the ticks they have left
  guard,    \* what each authenticated request has read
  code,     \* the pairing code's row
  req,      \* what each request is, and what it has read
  approved, \* history: approvals of the code
  minted,   \* history: sessions minted from it
  stops

J == INSTANCE JwtSecret

secretRows == <<row, boot, key>>
accountRows == <<disabled, sess, owner, code>>
memory == <<cache, guard, req>>
history == <<approved, minted, stops>>
vars == <<secretRows, accountRows, memory, history>>

Up == boot[Api] = "up"

NoVerdict == [live |-> FALSE, left |-> 0]
IdleGuard == [at |-> "idle", session |-> None, verdict |-> NoVerdict]
NoRequest == [at |-> "idle", kind |-> "none", arg |-> None]
Done == [NoRequest EXCEPT !.at = "done"]

(* What sessionIsLive reads of the rows. *)
IsLive(s) == sess[s] = "live" /\ owner[s] \notin disabled

(* A session whose verdict the cache still answers with "live".            *)
Honoured(s) == cache[s].live /\ cache[s].left > 0

Begin(r, kind, arg, at) ==
  /\ Up
  /\ req[r].at = "idle" /\ \A q \in Requests : q < r => req[q].at # "idle"
  /\ req' = [req EXCEPT ![r] = IF at = "done" THEN Done
                               ELSE [at |-> at, kind |-> kind, arg |-> arg]]
At(r, at) == Up /\ req[r].at = at
Goto(r, at) == req' = [req EXCEPT ![r] = IF at = "done" THEN Done ELSE [@ EXCEPT !.at = at]]

Init ==
  /\ J!SecretInit
  /\ disabled = {}
  /\ sess = [s \in Sessions |-> "none"]
  /\ owner = [s \in Sessions |-> None]
  /\ cache = [s \in Sessions |-> NoVerdict]
  /\ guard = [g \in Guards |-> IdleGuard]
  /\ code = [status |-> "none", by |-> None, old |-> FALSE]
  /\ req = [r \in Requests |-> NoRequest]
  /\ approved = 0 /\ minted = 0 /\ stops = 0

-----------------------------------------------------------------------------
(* Mutant: every use of a verdict keeps it for another 30 s. *)
HitSlides(s) ==
  /\ Up /\ cache[s].left > 0
  /\ cache' = [cache EXCEPT ![s].left = TTL]
  /\ UNCHANGED <<secretRows, accountRows, guard, req, history>>

(* authenticate: a fresh verdict answers, *)
Hit(s) ==
  /\ Up /\ cache[s].left > 0
  /\ UNCHANGED vars

(* otherwise the row is read; the verdict will count from now, *)
Check(g, s) ==
  /\ Up /\ guard[g].at = "idle"
  /\ sess[s] # "none" /\ cache[s].left = 0
  /\ guard' = [guard EXCEPT ![g] = [at |-> "read", session |-> s,
                                    verdict |-> [live |-> FALSE, left |-> TTL]]]
  /\ UNCHANGED <<secretRows, accountRows, cache, req, history>>

Load(g) ==
  /\ Up /\ guard[g].at = "read"
  /\ guard' = [guard EXCEPT ![g] = [at |-> "fill", session |-> @.session,
                                    verdict |-> [live |-> IsLive(@.session), left |-> @.verdict.left]]]
  /\ UNCHANGED <<secretRows, accountRows, cache, req, history>>

(* and is stored when the answer arrives. *)
Fill(g) ==
  /\ Up /\ guard[g].at = "fill"
  /\ cache' = [cache EXCEPT ![guard[g].session] = guard[g].verdict]
  /\ guard' = [guard EXCEPT ![g] = IdleGuard]
  /\ UNCHANGED <<secretRows, accountRows, req, history>>

(* Mutant: an old verdict keeps ageing. *)
OlderPast(v) == [live |-> v.live, left |-> v.left - 1]

(* Time passes for every verdict. *)
Older(v) == IF v.left = 0 THEN v ELSE [live |-> v.live, left |-> v.left - 1]
Fresh(v) == IF v.left = 0 THEN NoVerdict ELSE v
Tick ==
  /\ cache' = [s \in Sessions |-> Fresh(Older(cache[s]))]
  /\ guard' = [g \in Guards |-> [at |-> guard[g].at, session |-> guard[g].session,
                                verdict |-> Older(guard[g].verdict)]]
  /\ UNCHANGED <<secretRows, accountRows, req, history>>

-----------------------------------------------------------------------------
(* /auth/login: the account must not be disabled when it is read. *)
Login(r, a) ==
  /\ a \notin disabled
  /\ Begin(r, "login", a, "mint")
  /\ UNCHANGED <<secretRows, accountRows, cache, guard, history>>

(* The session row, for a login or a pairing. *)
Mint(r, s) ==
  /\ At(r, "mint") /\ sess[s] = "none"
  /\ sess' = [sess EXCEPT ![s] = "live"]
  /\ owner' = [owner EXCEPT ![s] = req[r].arg]
  /\ minted' = IF req[r].kind = "poll" THEN minted + 1 ELSE minted
  /\ Goto(r, "done")
  /\ UNCHANGED <<secretRows, disabled, code, cache, guard, approved, stops>>

(* /auth/logout, /auth/sessions/:id/revoke and the admin's revoke write    *)
(* revokedAt; the admin's leaves the cache alone.                          *)
Revoke(r, s, admin) ==
  /\ sess[s] # "none"
  /\ sess' = [sess EXCEPT ![s] = "revoked"]
  /\ Begin(r, "revoke", s, IF admin THEN "done" ELSE "invalidate")
  /\ UNCHANGED <<secretRows, disabled, owner, code, cache, guard, history>>

Invalidate(r) ==
  /\ At(r, "invalidate")
  /\ cache' = [cache EXCEPT ![req[r].arg] = NoVerdict]
  /\ Goto(r, "done")
  /\ UNCHANGED <<secretRows, accountRows, guard, history>>

(* PATCH /admin-api/accounts/:id *)
SetDisabled(r, a, flag) ==
  /\ disabled' = IF flag THEN disabled \cup {a} ELSE disabled \ {a}
  /\ Begin(r, "disable", a, "done")
  /\ UNCHANGED <<secretRows, sess, owner, code, cache, guard, history>>

-----------------------------------------------------------------------------
(* /auth/pair/request; the code expires after ten minutes. *)
RequestCode ==
  /\ Up /\ code.status = "none"
  /\ code' = [code EXCEPT !.status = "PENDING"]
  /\ UNCHANGED <<secretRows, disabled, sess, owner, memory, history>>
ExpireCode ==
  /\ code.status # "none" /\ ~ code.old
  /\ code' = [code EXCEPT !.old = TRUE]
  /\ UNCHANGED <<secretRows, disabled, sess, owner, memory, history>>

(* /auth/pair/verify reads the code, *)
Verify(r, a) ==
  /\ code.status \in {"PENDING", "APPROVED"} /\ ~ code.old
  /\ Begin(r, "verify", a, "approve")
  /\ UNCHANGED <<secretRows, accountRows, cache, guard, history>>

(* then registers the TV's device and approves whatever the code has       *)
(* become.                                                                 *)
Approve(r) ==
  /\ At(r, "approve")
  /\ code' = [code EXCEPT !.status = "APPROVED", !.by = req[r].arg]
  /\ approved' = approved + 1
  /\ Goto(r, "done")
  /\ UNCHANGED <<secretRows, disabled, sess, owner, cache, guard, minted, stops>>

(* /auth/pair/status reads the code, *)
Poll(r) ==
  /\ \/ /\ code.old /\ code.status \in {"PENDING", "APPROVED"}
        /\ Begin(r, "poll", None, "expire")
     \/ /\ ~ code.old /\ code.status = "APPROVED"
        /\ Begin(r, "poll", code.by, "claim")
  /\ UNCHANGED <<secretRows, accountRows, cache, guard, history>>

WriteExpired(r) ==
  /\ At(r, "expire")
  /\ code' = [code EXCEPT !.status = "EXPIRED"]
  /\ Goto(r, "done")
  /\ UNCHANGED <<secretRows, disabled, sess, owner, cache, guard, history>>

(* Mutant: the claim does not look at the status it overwrites. *)
ClaimAlways(r) ==
  /\ At(r, "claim")
  /\ code' = [code EXCEPT !.status = "COMPLETE"]
  /\ Goto(r, "account")
  /\ UNCHANGED <<secretRows, disabled, sess, owner, cache, guard, history>>

(* claims it if it is still approved, *)
ClaimCode(r) ==
  /\ At(r, "claim")
  /\ IF code.status = "APPROVED"
     THEN code' = [code EXCEPT !.status = "COMPLETE"] /\ Goto(r, "account")
     ELSE UNCHANGED code /\ Goto(r, "done")
  /\ UNCHANGED <<secretRows, disabled, sess, owner, cache, guard, history>>

(* and mints unless the account it read has been disabled meanwhile. *)
ReadAccount(r) ==
  /\ At(r, "account")
  /\ Goto(r, IF req[r].arg \in disabled THEN "done" ELSE "mint")
  /\ UNCHANGED <<secretRows, accountRows, cache, guard, history>>

-----------------------------------------------------------------------------
(* Servers starting; Api loses its memory when it stops. *)
Others == UNCHANGED <<accountRows, memory, history>>
StopApi ==
  /\ stops < MaxStops
  /\ J!Stop(Api)
  /\ cache' = [s \in Sessions |-> NoVerdict]
  /\ guard' = [g \in Guards |-> IdleGuard]
  /\ req' = [r \in Requests |-> IF req[r].at = "idle" THEN NoRequest ELSE Done]
  /\ stops' = stops + 1
  /\ UNCHANGED <<accountRows, approved, minted>>
Starting(s) == (J!Resolve(s) \/ J!StartAgain(s)) /\ Others

Guard(g) == Load(g) \/ Fill(g)
Handle(r) ==
  \/ \E s \in Sessions : Mint(r, s)
  \/ Invalidate(r) \/ Approve(r) \/ WriteExpired(r) \/ ClaimCode(r) \/ ReadAccount(r)

Client ==
  \/ RequestCode
  \/ \E r \in Requests :
       \/ \E a \in People : Login(r, a) \/ Verify(r, a)
       \/ \E a \in People, flag \in BOOLEAN : SetDisabled(r, a, flag)
       \/ \E s \in Sessions, admin \in BOOLEAN : Revoke(r, s, admin)
       \/ Poll(r)
  \/ \E g \in Guards, s \in Sessions : Check(g, s)
  \/ \E s \in Sessions : Hit(s)

Next ==
  \/ Client
  \/ \E r \in Requests : Handle(r)
  \/ \E g \in Guards : Guard(g)
  \/ \E s \in Servers : Starting(s)
  \/ StopApi
  \/ (J!UpsertSettings /\ Others)
  \/ Tick \/ ExpireCode

(* Reads are answered, time passes. *)
Fairness ==
  /\ \A g \in Guards : WF_vars(Guard(g))
  /\ WF_vars(Tick)

Spec == Init /\ [][Next]_vars /\ Fairness

-----------------------------------------------------------------------------
Verdicts == [live : BOOLEAN, left : 0..TTL]

(* Type correctness. *)
TypeOK ==
  /\ J!SecretTypeOK
  /\ disabled \subseteq People
  /\ sess \in [Sessions -> {"none", "live", "revoked"}]
  /\ owner \in [Sessions -> People \cup {None}]
  /\ \A s \in Sessions : sess[s] # "none" => owner[s] # None
  /\ cache \in [Sessions -> Verdicts]
  /\ guard \in [Guards -> [at : {"idle", "read", "fill"}, session : Sessions \cup {None},
                           verdict : Verdicts]]
  /\ code \in [status : {"none", "PENDING", "APPROVED", "COMPLETE", "EXPIRED"},
               by : People \cup {None}, old : BOOLEAN]
  /\ req \in [Requests -> [at : {"idle", "done", "mint", "invalidate", "approve", "expire",
                                 "claim", "account"},
                           kind : {"none", "login", "revoke", "disable", "verify", "poll"},
                           arg : People \cup Sessions \cup {None}]]
  /\ approved \in Nat /\ minted \in Nat
  /\ stops \in 0..MaxStops

(* Servers that race each other, the wizard and a restart sign alike.      *)
SecretsAgree == J!SecretsAgree

(* Pairing mints a session per approval at most: every poll that mints has *)
(* consumed an approval that no other poll consumed (the atomic claim of   *)
(* /auth/pair/status).                                                     *)
MintsArePaid == minted <= approved

(* A kill takes effect: a session that stays revoked, or whose account     *)
(* stays disabled, stops being honoured for good.  Not at once: neither    *)
(* the admin's revoke nor disabling touches the cache, and a read under    *)
(* way during a revocation stores its stale verdict after it.              *)
RevocationBites ==
  \A s \in Sessions : <>[](sess[s] # "none" /\ ~ IsLive(s)) => <>[](~ Honoured(s))
=============================================================================
