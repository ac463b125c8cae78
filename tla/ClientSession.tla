----------------------------- MODULE ClientSession -----------------------------
(* The accounts one TV shell keeps and the requests its page makes with them:   *)
(* apps/web/src/api-client.ts (authFetch and the refresh it shares),            *)
(* tv-session.ts, ui/TvPairFlow.tsx, views/TvAccountsView.tsx, against the       *)
(* refresh, logout and pair-status handlers of apps/api/src/auth-routes.ts.     *)
(*                                                                              *)
(* Every account keeps the refresh token of one server session; the token never *)
(* rotates, so the session stands for it.  A page navigation unloads the page   *)
(* some time after location.assign, and until then its callbacks run.           *)
EXTENDS Naturals, Sequences, FiniteSets, SequencesExt

CONSTANTS Users,       \* usernames that may be paired with this TV
          Calls,       \* requests of the page that may be under way at once
          MaxSessions, \* bound: sessions the server mints
          MaxFaults,   \* bound: revocations elsewhere and requests lost
          Stored,      \* the accounts, in order, an earlier page left, the first one active
          None

(* What the constants must satisfy, whoever instantiates the module. *)
ClientSessionAssumption ==
    /\ None \notin Users /\ MaxSessions \in Nat \ {0} /\ MaxFaults \in Nat
    /\ IsFiniteSet(Calls)
    /\ Stored \in Seq(Users) /\ IsInjective(Stored) /\ Len(Stored) \in 1..MaxSessions

VARIABLES kept,    \* hokago_tv_accounts: [user, session, token] in order
          active,  \* hokago_tv_active: a username or None
          flight,  \* refreshInFlight: [session, got], or NoFlight
          calls,   \* authFetch calls of the page
          leaving, \* location.assign has been called and the page not yet unloaded
          pair,    \* the pairing flow: [at, user, session]
          live,    \* server: live[s] is "free", "live" or "revoked"
          logouts, \* sessions whose /auth/logout is on its way
          faults

vars == <<kept, active, flight, calls, leaving, pair, live, logouts, faults>>

ServerSessions == 1..MaxSessions
NoToken == [session |-> 0, fresh |-> FALSE]
Fresh(s) == [session |-> s, fresh |-> TRUE]
NoFlight == [session |-> 0, got |-> "none"]
NoCall == [at |-> "idle", token |-> NoToken]
NoPair == [at |-> "off", user |-> None, session |-> 0]

Init ==
    /\ kept = [i \in DOMAIN Stored |-> [user |-> Stored[i], session |-> i, token |-> Fresh(i)]]
    /\ active = Stored[1]
    /\ flight = NoFlight /\ calls = [c \in Calls |-> NoCall] /\ leaving = FALSE
    /\ pair = NoPair
    /\ live = [s \in ServerSessions |-> IF s <= Len(Stored) THEN "live" ELSE "free"] /\ logouts = {}
    /\ faults = 0

-----------------------------------------------------------------------------
(* tv-session.ts.                                                             *)

Entry(accounts, u) == CHOOSE a \in Range(accounts) : a.user = u
Has(accounts, u) == \E a \in Range(accounts) : a.user = u
\* getActiveAccount: an active key whose account is gone counts as none.
Active(accounts, act) == IF act # None /\ Has(accounts, act) THEN Entry(accounts, act)
                         ELSE [user |-> None, session |-> 0, token |-> NoToken]

\* addAccount: the entry of a known username is replaced where it stands.
AddAccount(a) ==
    /\ kept' = IF Has(kept, a.user)
                 THEN [i \in DOMAIN kept |-> IF kept[i].user = a.user THEN a ELSE kept[i]]
                 ELSE Append(kept, a)
    /\ active' = a.user

\* updateActiveTokens
Updated(token) == [i \in DOMAIN kept |-> IF kept[i].user = active
                                          THEN [kept[i] EXCEPT !.token = token] ELSE kept[i]]

\* removeAccount: the first of the others takes over for an active account.
Without(accounts, u) ==
    IF Has(accounts, u)
      THEN RemoveAt(accounts, CHOOSE i \in DOMAIN accounts : accounts[i].user = u) ELSE accounts
FirstOf(accounts) == IF accounts = <<>> THEN None ELSE accounts[1].user
ActiveWithout(accounts, u, act) == IF act = u THEN FirstOf(Without(accounts, u)) ELSE act

-----------------------------------------------------------------------------
(* sessionDead, by n calls in turn: the first logs out and drops the active    *)
(* account, each further one the account that took over from it.               *)

SessionDead(n) ==
    LET others == Without(kept, active)
        left == SubSeq(others, n, Len(others))
    IN  IF n = 0 THEN UNCHANGED <<kept, active, logouts, leaving>>
        ELSE /\ kept' = left /\ active' = FirstOf(left)
             /\ logouts' = logouts \cup {a.session : a \in Range(kept) \ Range(left)}
             /\ leaving' = TRUE

-----------------------------------------------------------------------------
(* authFetch.                                                                 *)

\* refreshAccessToken joins the refresh under way; the active account's refresh
\* token is read even then.
Joined == IF flight = NoFlight
            THEN [session |-> Active(kept, active).session, got |-> "asked"] ELSE flight

\* ensureAccessToken: the token at hand, or a silent refresh.
Begin(c) ==
    /\ calls[c].at = "idle" /\ ~leaving /\ Active(kept, active).user # None
    /\ LET token == Active(kept, active).token
       IN  IF token.fresh
             THEN /\ calls' = [calls EXCEPT ![c] = [NoCall EXCEPT !.at = "sent", !.token = token]]
                  /\ UNCHANGED flight
             ELSE /\ calls' = [calls EXCEPT ![c] = [NoCall EXCEPT !.at = "waits"]]
                  /\ flight' = Joined
    /\ UNCHANGED <<kept, active, leaving, pair, live, logouts, faults>>

Accepts(token) == token.fresh /\ live[token.session] = "live"

Served(c) ==
    /\ calls[c].at \in {"sent", "again"} /\ Accepts(calls[c].token)
    /\ calls' = [calls EXCEPT ![c] = NoCall]
    /\ UNCHANGED <<kept, active, flight, leaving, pair, live, logouts, faults>>

\* A 401: one refresh and one retry; without a refresh token the session is over.
Refused(c) ==
    /\ calls[c].at = "sent" /\ ~Accepts(calls[c].token)
    /\ IF Active(kept, active).user = None
         THEN /\ SessionDead(1) /\ calls' = [calls EXCEPT ![c] = NoCall] /\ UNCHANGED flight
         ELSE /\ calls' = [calls EXCEPT ![c].at = "renews"] /\ flight' = Joined
              /\ UNCHANGED <<kept, active, leaving, logouts>>
    /\ UNCHANGED <<pair, live, faults>>

\* The second 401 is the caller's answer.
RefusedAgain(c) ==
    /\ calls[c].at = "again" /\ ~Accepts(calls[c].token)
    /\ calls' = [calls EXCEPT ![c].at = "refused"]
    /\ UNCHANGED <<kept, active, flight, leaving, pair, live, logouts, faults>>

Returned(c) ==
    /\ calls[c].at = "refused" /\ calls' = [calls EXCEPT ![c] = NoCall]
    /\ UNCHANGED <<kept, active, flight, leaving, pair, live, logouts, faults>>

-----------------------------------------------------------------------------
(* The refresh.                                                               *)

\* POST /auth/refresh
Refreshed ==
    /\ flight.got = "asked"
    /\ flight' = [flight EXCEPT !.got =
                    IF flight.session # 0 /\ live[flight.session] = "live" THEN "token" ELSE "refused"]
    /\ UNCHANGED <<kept, active, calls, leaving, pair, live, logouts, faults>>

RefreshLost ==
    /\ flight.got \in {"asked", "token"} /\ faults < MaxFaults
    /\ flight' = [flight EXCEPT !.got = "lost"] /\ faults' = faults + 1
    /\ UNCHANGED <<kept, active, calls, leaving, pair, live, logouts>>

\* The answer goes to the account that is active now, and to every call that
\* waits: one that has not asked yet sends what it got, one that was refused
\* retries, or ends the session.
ResentAsIs(call, token) ==
    CASE call.at = "waits" -> [call EXCEPT !.at = "sent", !.token = token]
      [] call.at = "renews" /\ token # NoToken -> [call EXCEPT !.at = "again"]
      [] OTHER -> NoCall
Resumed(call, token) ==
    CASE call.at = "waits" -> [call EXCEPT !.at = "sent", !.token = token]
      [] call.at = "renews" /\ token # NoToken -> [call EXCEPT !.at = "again", !.token = token]
      [] OTHER -> NoCall
Land ==
    /\ flight.got \in {"token", "refused", "lost"}
    /\ flight' = NoFlight
    /\ LET token == IF flight.got = "token" THEN Fresh(flight.session) ELSE NoToken
           waiting == {c \in Calls : calls[c].at \in {"waits", "renews"}}
           over == {c \in waiting : calls[c].at = "renews" /\ token = NoToken}
       IN  /\ calls' = [c \in Calls |-> IF c \in waiting THEN Resumed(calls[c], token) ELSE calls[c]]
           /\ IF token # NoToken
                THEN kept' = Updated(token) /\ UNCHANGED <<active, logouts, leaving>>
                ELSE SessionDead(Cardinality(over))
    /\ UNCHANGED <<pair, live, faults>>

-----------------------------------------------------------------------------
(* What the user does.                                                        *)

SwitchAccount(u) ==
    /\ ~leaving /\ Has(kept, u) /\ u # active
    /\ active' = u /\ leaving' = TRUE
    /\ UNCHANGED <<kept, flight, calls, pair, live, logouts, faults>>

\* TvAccountsView's remove: no navigation, the page goes on.
SignOutOther(u) ==
    /\ ~leaving /\ Has(kept, u)
    /\ kept' = Without(kept, u) /\ active' = ActiveWithout(kept, u, active)
    /\ logouts' = logouts \cup {Entry(kept, u).session}
    /\ UNCHANGED <<flight, calls, leaving, pair, live, faults>>

\* clearAuth, from the navigation bar.
SignOut ==
    /\ ~leaving /\ Active(kept, active).user # None
    /\ kept' = Without(kept, active) /\ active' = ActiveWithout(kept, active, active)
    /\ logouts' = logouts \cup {Entry(kept, active).session}
    /\ leaving' = TRUE
    /\ UNCHANGED <<flight, calls, pair, live, faults>>

Unload ==
    /\ leaving /\ leaving' = FALSE
    /\ flight' = NoFlight /\ calls' = [c \in Calls |-> NoCall] /\ pair' = NoPair
    /\ UNCHANGED <<kept, active, live, logouts, faults>>

-----------------------------------------------------------------------------
(* Pairing.                                                                   *)

RequestCode == /\ pair.at = "off" /\ ~leaving /\ pair' = [NoPair EXCEPT !.at = "polls"]
               /\ UNCHANGED <<kept, active, flight, calls, leaving, live, logouts, faults>>

Free == {s \in ServerSessions : live[s] = "free"}
\* A poll finds the code approved: it is consumed and a session minted.
Claimed(u) ==
    /\ pair.at = "polls" /\ Free # {}
    /\ LET s == CHOOSE x \in Free : \A y \in Free : x <= y
       IN  /\ live' = [live EXCEPT ![s] = "live"]
           /\ pair' = [at |-> "answer", user |-> u, session |-> s]
    /\ UNCHANGED <<kept, active, flight, calls, leaving, logouts, faults>>

\* Later polls of a consumed code carry no tokens; the deadline ends them.
PollLost ==
    /\ pair.at = "answer" /\ faults < MaxFaults
    /\ pair' = [NoPair EXCEPT !.at = "spent"] /\ faults' = faults + 1
    /\ UNCHANGED <<kept, active, flight, calls, leaving, live, logouts>>

Deadline ==
    /\ pair.at \in {"polls", "spent"} /\ pair' = NoPair
    /\ UNCHANGED <<kept, active, flight, calls, leaving, live, logouts, faults>>

\* The answer of a poll that was under way counts, whatever the deadline did.
Paired ==
    /\ pair.at = "answer"
    /\ AddAccount([user |-> pair.user, session |-> pair.session, token |-> Fresh(pair.session)])
    /\ pair' = NoPair /\ leaving' = TRUE
    /\ UNCHANGED <<flight, calls, live, logouts, faults>>

-----------------------------------------------------------------------------
(* The server and the clock.                                                  *)

LogoutLands(s) ==
    /\ s \in logouts /\ logouts' = logouts \ {s}
    /\ live' \in {live, [live EXCEPT ![s] = "revoked"]}
    /\ UNCHANGED <<kept, active, flight, calls, leaving, pair, faults>>

\* Revoked from another device, or expired.
Revoke(s) ==
    /\ live[s] = "live" /\ faults < MaxFaults
    /\ live' = [live EXCEPT ![s] = "revoked"] /\ faults' = faults + 1
    /\ UNCHANGED <<kept, active, flight, calls, leaving, pair, logouts>>

\* Fifteen minutes: longer than a retry takes.
Aged(token, s) == IF token.session = s THEN [token EXCEPT !.fresh = FALSE] ELSE token
Expire(s) ==
    /\ \A c \in Calls : calls[c].at # "again"
    /\ kept' = [i \in DOMAIN kept |-> [kept[i] EXCEPT !.token = Aged(@, s)]]
    /\ calls' = [c \in Calls |-> [calls[c] EXCEPT !.token = Aged(@, s)]]
    /\ <<kept, calls>>' # <<kept, calls>>
    /\ UNCHANGED <<active, flight, leaving, pair, live, logouts, faults>>

Next ==
    \/ \E c \in Calls : Begin(c) \/ Served(c) \/ Refused(c) \/ RefusedAgain(c) \/ Returned(c)
    \/ Refreshed \/ RefreshLost \/ Land
    \/ \E u \in Users : SwitchAccount(u) \/ SignOutOther(u) \/ Claimed(u)
    \/ SignOut \/ Unload \/ RequestCode \/ PollLost \/ Deadline \/ Paired
    \/ \E s \in ServerSessions : LogoutLands(s) \/ Revoke(s) \/ Expire(s)

Spec == Init /\ [][Next]_vars

-----------------------------------------------------------------------------
(* Properties.                                                                *)

Tokens == [session : 0..MaxSessions, fresh : BOOLEAN]
Accounts == [user : Users, session : ServerSessions, token : Tokens]
TypeOK ==
    /\ kept \in Seq(Accounts)
    /\ \A i, j \in DOMAIN kept : kept[i].user = kept[j].user => i = j
    /\ IF kept = <<>> THEN active = None ELSE Has(kept, active)
    /\ flight \in [session : 0..MaxSessions, got : {"none", "asked", "token", "refused", "lost"}]
    /\ calls \in [Calls -> [at : {"idle", "sent", "waits", "renews", "again", "refused"},
                            token : Tokens]]
    /\ pair.at \in {"off", "polls", "answer", "spent"} /\ leaving \in BOOLEAN
    /\ live \in [ServerSessions -> {"free", "live", "revoked"}]
    /\ logouts \subseteq ServerSessions /\ faults \in 0..MaxFaults

\* "Sessions survive the 15-minute access token TTL": a call whose retry is
\* refused too has lost its session, however its own refresh, those of other
\* calls, switches, sign-outs and pairings interleave.
LiveCallsPass == \A c \in Calls :
    calls[c].at = "refused" => live[calls[c].token.session] = "revoked"

\* "A session that can't refresh anymore is over: drop that account": one dead
\* session costs the TV one account.
OneAccountPerDeath == [][Len(kept) - Len(kept') <= 1]_kept

\* "Tokens live per-account": an account sends the token of its own session.
TokensAreTheirOwn == \A i \in DOMAIN kept : kept[i].token.session = kept[i].session
=============================================================================
