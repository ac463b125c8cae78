---------------------------- MODULE SuiteAccounts ----------------------------
(***************************************************************************)
(* One run for signing in, each part in a world of its own: the server's   *)
(* accounts, sessions and pairing (Accounts), invites and shared devices   *)
(* (Household) and the sessions a client keeps and refreshes               *)
(* (ClientSession).  part says which world this behaviour is of; the       *)
(* others never move.                                                      *)
(***************************************************************************)
EXTENDS Accounts, Sequences

CONSTANTS
  Members, Founders, Invites, Keys, Devices, \* of Household
  Users, Calls, MaxSessions, Stored,         \* of ClientSession
  MaxFaults                                  \* of both

VARIABLES
  part,
  invite, account, enrolled, raced, device, links, unlinked, bound, late, hreq,
  kept, active, flight, calls, leaving, pair, live, logouts, faults

House == INSTANCE Household WITH People <- Members, sess <- bound, req <- hreq

(* A TV that kept some accounts and may pair others, and calls of its page. *)
Tv == INSTANCE ClientSession

(* One account was kept. *)
OneKept == <<"ann">>

(* Every world's constants are what its module asks for. *)
ASSUME AccountWorlds ==
  House!HouseholdAssumption /\ Tv!ClientSessionAssumption

tvvars  == <<kept, active, flight, calls, leaving, pair, live, logouts, faults>>
housevars ==
  <<invite, account, enrolled, raced, device, links, unlinked, bound, late, hreq>>
allvars == <<part, vars, housevars, tvvars>>

(* A world that is not this behaviour's starts in one of its states only. *)
SuiteInit ==
  /\ part \in {"server", "house", "tv"}
  /\ Init /\ House!Init /\ Tv!Init
  /\ part # "server" => row = "absent"
  /\ part # "house" => {p \in Members : House!Member(p)} = CHOOSE f \in Founders : TRUE

ServerOnly == UNCHANGED <<part, housevars, tvvars>>
HouseOnly  == UNCHANGED <<part, vars, tvvars>>
TvOnly     == UNCHANGED <<part, vars, housevars>>

SuiteNext ==
  \/ part = "server" /\ Client /\ ServerOnly
  \/ \E r \in Requests : part = "server" /\ Handle(r) /\ ServerOnly
  \/ \E g \in Guards : part = "server" /\ Guard(g) /\ ServerOnly
  \/ \E s \in Servers : part = "server" /\ Starting(s) /\ ServerOnly
  \/ part = "server" /\ StopApi /\ ServerOnly
  \/ part = "server" /\ J!UpsertSettings /\ Others /\ ServerOnly
  \/ part = "server" /\ Tick /\ ServerOnly
  \/ part = "server" /\ ExpireCode /\ ServerOnly
  \/ \E i \in Invites : part = "house" /\ House!ExpireInvite(i) /\ HouseOnly
  \/ \E r \in Requests :
       \/ part = "house" /\ House!Call(r) /\ HouseOnly
       \/ part = "house" /\ House!CheckName(r) /\ HouseOnly
       \/ part = "house" /\ House!Enrol(r) /\ HouseOnly
       \/ part = "house" /\ House!FindDevice(r) /\ HouseOnly
       \/ part = "house" /\ House!UpsertDevice(r) /\ HouseOnly
       \/ part = "house" /\ House!LinkDevice(r) /\ HouseOnly
       \/ part = "house" /\ House!LinkFails(r) /\ HouseOnly
       \/ part = "house" /\ House!OpenSession(r) /\ HouseOnly
       \/ part = "house" /\ House!RevokeSessions(r) /\ HouseOnly
       \/ part = "house" /\ House!DropDevice(r) /\ HouseOnly
  \/ \E c \in Calls :
       \/ part = "tv" /\ Tv!Begin(c) /\ TvOnly
       \/ part = "tv" /\ Tv!Served(c) /\ TvOnly
       \/ part = "tv" /\ Tv!Refused(c) /\ TvOnly
       \/ part = "tv" /\ Tv!RefusedAgain(c) /\ TvOnly
       \/ part = "tv" /\ Tv!Returned(c) /\ TvOnly
  \/ \E u \in Users :
       \/ part = "tv" /\ Tv!SwitchAccount(u) /\ TvOnly
       \/ part = "tv" /\ Tv!SignOutOther(u) /\ TvOnly
       \/ part = "tv" /\ Tv!Claimed(u) /\ TvOnly
  \/ \E s \in Tv!ServerSessions :
       \/ part = "tv" /\ Tv!LogoutLands(s) /\ TvOnly
       \/ part = "tv" /\ Tv!Revoke(s) /\ TvOnly
       \/ part = "tv" /\ Tv!Expire(s) /\ TvOnly
  \/ part = "tv" /\ Tv!Refreshed /\ TvOnly
  \/ part = "tv" /\ Tv!RefreshLost /\ TvOnly
  \/ part = "tv" /\ Tv!Land /\ TvOnly
  \/ part = "tv" /\ Tv!SignOut /\ TvOnly
  \/ part = "tv" /\ Tv!Unload /\ TvOnly
  \/ part = "tv" /\ Tv!RequestCode /\ TvOnly
  \/ part = "tv" /\ Tv!PollLost /\ TvOnly
  \/ part = "tv" /\ Tv!Deadline /\ TvOnly
  \/ part = "tv" /\ Tv!Paired /\ TvOnly

(* The fairness of Accounts, in its own world. *)
SuiteSpec ==
  /\ SuiteInit /\ [][SuiteNext]_allvars
  /\ \A g \in Guards : WF_vars(part = "server" /\ Guard(g))
  /\ WF_vars(part = "server" /\ Tick)

-----------------------------------------------------------------------------
(* "Sessions survive the 15-minute access token TTL": a call whose retry    *)
(* is refused too has lost its session, however its own refresh, those of   *)
(* other calls, switches, sign-outs and pairings interleave.                *)
LiveCallsPass == part = "tv" => Tv!TypeOK /\ Tv!LiveCallsPass

(* However requests overlap: an invite admits no more accounts than had     *)
(* read it open when it was first used, a revoked device takes its         *)
(* sessions with it (DELETE /auth/devices/:id), and whoever has a session  *)
(* on a shared device may revoke that device.                              *)
HouseholdIsKept ==
  part = "house" => /\ House!TypeOK /\ House!InvitesAdmitOnce
                    /\ House!DevicesTakeTheirSessions /\ House!MembersCanRevoke
=============================================================================
