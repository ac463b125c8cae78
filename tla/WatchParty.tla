----------------------------- MODULE WatchParty -----------------------------
(***************************************************************************)
(* One watch party (apps/api/src/watch-party-routes.ts, party-events.ts):  *)
(* the party row, its members' rows, their sockets, the snapshots sent to  *)
(* them, and the 60 s sweep that removes silent members.  Heartbeats and   *)
(* POST /stop (watch-state-routes.ts) write the members' rows too.         *)
(* Every handler reads the membership first and writes after an await; a   *)
(* broadcast reads the rows and sends after another.  Parties share        *)
(* nothing, so one is enough.  Each account has one profile, and a member  *)
(* at most one socket.                                                     *)
(***************************************************************************)
EXTENDS Naturals

CONSTANTS Profiles, Host,
          Requests,  \* bound: runs of client-driven handlers, in order of arrival
          Reaper,    \* the sweep, as an actor beside the requests
          None

ASSUME PartyAssumption ==
  /\ Host \in Profiles
  /\ Requests \subseteq Nat
  /\ Reaper \notin Profiles \cup Requests
  /\ Profiles \cap Requests = {}
  /\ None \notin Profiles \cup Requests \cup {Reaper}

VARIABLES
  party,    \* the row's state; "live" is WAITING, PLAYING or PAUSED
  members,  \* the profiles with a member row
  linked,   \* members whose row names their playback session
  fresh,    \* members heard from in the last three minutes
  playing,  \* profiles whose player runs
  socket,   \* profiles with an open party socket
  shown,    \* connected clients that show the rows as they are
  req,      \* what each request is, and for whom
  pc,       \* where each actor stands
  latest,   \* broadcasts whose snapshot is still what the rows say
  sweep     \* the sweep's stale members, its victim, and whether it wrote

rows == <<party, members, linked, fresh>>
clients == <<playing, socket>>
copies == <<shown, latest>>
vars == <<rows, clients, copies, req, pc, sweep>>

(* A profile is the actor of its own heartbeats. *)
Actors == Requests \cup Profiles \cup {Reaper}

Live == party = "live"

(* A write of the party or of its members makes every copy an old one.     *)
Outdate == shown' = {} /\ latest' = {}

NoSweep == [stale |-> {}, victim |-> None, changed |-> FALSE]

NoRequest == [who |-> None, kind |-> "none"]
Goto(a, where) ==
  /\ pc' = [pc EXCEPT ![a] = where]
  /\ req' = IF where = "done" THEN [req EXCEPT ![a] = NoRequest] ELSE req
(* Requests run once; a heartbeat and the sweep come again. *)
Rest(a) == IF a \in Requests THEN "done" ELSE "idle"

(* The next request, r, for p, begins at `where`. *)
Begin(r, p, kind, where) ==
  /\ pc[r] = "idle"
  /\ \A q \in Requests : q < r => pc[q] # "idle"
  /\ pc' = [pc EXCEPT ![r] = where]
  /\ req' = [req EXCEPT ![r] = [who |-> p, kind |-> kind]]

(* No party yet, or a full room at a quiet moment, the host playing or not; *)
(* the second saves the requests that bring it about.                       *)
Init ==
  /\ \/ party = "none" /\ members = {}
     \/ party = "live" /\ members = Profiles
  /\ fresh = members /\ socket = members
  /\ linked \in SUBSET (members \cap {Host}) /\ playing = linked
  /\ shown = socket /\ latest = {}
  /\ req = [r \in Requests |-> NoRequest]
  /\ pc = [a \in Actors |-> "idle"]
  /\ sweep = NoSweep

-----------------------------------------------------------------------------
(* POST /parties: the row and the host's membership in one insert. *)
Create ==
  /\ party = "none"
  /\ party' = "live"
  /\ members' = {Host} /\ fresh' = {Host}
  /\ UNCHANGED <<linked, clients, copies, req, pc, sweep>>

(* Every other mutation reads the caller's membership, with the party's    *)
(* host and state, and answers 404 without one.  A member posts /session   *)
(* when its player has started (POST /start, see PlaybackSessions).        *)
Enter(r, p, kind) ==
  /\ p \in members
  /\ kind = "control" => p = Host
  /\ kind # "leave" => Live
  /\ playing' = IF kind = "session" THEN playing \cup {p} ELSE playing
  /\ Begin(r, p, kind, kind)
  /\ UNCHANGED <<rows, socket, copies, sweep>>

(* /control *)
Control(r) ==
  /\ pc[r] = "control"
  /\ party' = "live" /\ Outdate
  /\ Goto(r, "broadcast")
  /\ UNCHANGED <<members, linked, fresh, clients, sweep>>

(* An update of the caller's member row throws when the row has gone.      *)
MemberGone(r) ==
  /\ pc[r] \in {"ready", "session", "leave", "unlink"}
  /\ ~ (pc[r] = "leave" /\ req[r].who = Host)
  /\ req[r].who \notin members
  /\ Goto(r, "done")
  /\ UNCHANGED <<rows, clients, copies, sweep>>

(* /ready *)
Ready(r) ==
  /\ pc[r] = "ready" /\ req[r].who \in members
  /\ Outdate
  /\ Goto(r, "broadcast")
  /\ UNCHANGED <<rows, clients, sweep>>

(* Mutant: the link is an upsert. *)
LinkAnyone(r) ==
  /\ pc[r] = "session"
  /\ linked' = linked \cup {req[r].who}
  /\ fresh' = fresh \cup {req[r].who}
  /\ Outdate
  /\ Goto(r, "broadcast")
  /\ UNCHANGED <<party, members, clients, sweep>>

(* /session *)
LinkSession(r) ==
  /\ pc[r] = "session" /\ req[r].who \in members
  /\ linked' = linked \cup {req[r].who}
  /\ fresh' = fresh \cup {req[r].who}
  /\ Outdate
  /\ Goto(r, "broadcast")
  /\ UNCHANGED <<party, members, clients, sweep>>

(* endParty, one transaction; and the removal of one member's row. *)
EndParty ==
  /\ party' = "ENDED"
  /\ members' = {} /\ linked' = {} /\ fresh' = {}
  /\ Outdate
RemoveMember(p) ==
  /\ members' = members \ {p} /\ linked' = linked \ {p} /\ fresh' = fresh \ {p}
  /\ Outdate
  /\ UNCHANGED party

(* /leave *)
Leave(r) ==
  /\ pc[r] = "leave"
  /\ IF req[r].who = Host THEN EndParty
     ELSE req[r].who \in members /\ RemoveMember(req[r].who)
  /\ Goto(r, "broadcast")
  /\ UNCHANGED <<clients, sweep>>

-----------------------------------------------------------------------------
(* POST /parties/join and the socket's handler read the party, *)
Arrive(r, p, kind) ==
  /\ Live
  /\ kind = "connect" => p \notin socket
  /\ Begin(r, p, kind, "lookup")
  /\ UNCHANGED <<rows, clients, copies, sweep>>

Joined(r) == IF req[r].kind = "connect" THEN "attach" ELSE "broadcast"

(* then the membership, *)
Lookup(r) ==
  /\ pc[r] = "lookup"
  /\ Goto(r, IF req[r].who \in members THEN Joined(r) ELSE "insert")
  /\ UNCHANGED <<rows, clients, copies, sweep>>

(* then insert one if there was none; its primary key may be taken by now. *)
Insert(r) ==
  /\ pc[r] = "insert"
  /\ IF req[r].who \in members
     THEN Goto(r, "done") /\ UNCHANGED <<members, fresh, copies>>
     ELSE /\ members' = members \cup {req[r].who}
          /\ fresh' = fresh \cup {req[r].who}
          /\ Outdate
          /\ Goto(r, Joined(r))
  /\ UNCHANGED <<party, linked, clients, sweep>>

(* joinPartySocket *)
Attach(r) ==
  /\ pc[r] = "attach"
  /\ socket' = socket \cup {req[r].who}
  /\ Goto(r, "broadcast")
  /\ UNCHANGED <<rows, playing, copies, sweep>>

(* The close callback of a socket; with the tab, the player goes too.      *)
Drop(r, p, gone) ==
  /\ p \in socket
  /\ socket' = socket \ {p}
  /\ shown' = shown \ {p}
  /\ playing' = IF gone THEN playing \ {p} ELSE playing
  /\ Begin(r, p, "drop", "broadcast")
  /\ UNCHANGED <<rows, latest, sweep>>

-----------------------------------------------------------------------------
(* broadcastParty: read the rows, *)
ReadSnapshot(a) ==
  /\ pc[a] = "broadcast"
  /\ IF party = "deleted"
     THEN Goto(a, Rest(a)) /\ UNCHANGED latest
     ELSE Goto(a, "send") /\ latest' = latest \cup {a}
  /\ UNCHANGED <<rows, clients, shown, sweep>>

(* then send to every open socket in one loop. *)
Send(a) ==
  /\ pc[a] = "send"
  /\ shown' = IF a \in latest THEN socket ELSE {}
  /\ latest' = latest \ {a}
  /\ Goto(a, Rest(a))
  /\ UNCHANGED <<rows, clients, sweep>>

-----------------------------------------------------------------------------
(* POST /stop reads the session with its membership, ends it, and clears   *)
(* the link it saw.                                                        *)
Stop(r, p) ==
  /\ p \in playing
  /\ playing' = playing \ {p}
  /\ Begin(r, p, "stop", IF p \in linked THEN "unlink" ELSE "done")
  /\ UNCHANGED <<rows, socket, copies, sweep>>

Unlink(r) ==
  /\ pc[r] = "unlink" /\ req[r].who \in members
  /\ linked' = linked \ {req[r].who}
  /\ fresh' = fresh \cup {req[r].who}
  /\ Outdate
  /\ Goto(r, "broadcast")
  /\ UNCHANGED <<party, members, clients, sweep>>

Beating(p) == p \in playing \cap linked

(* Mutant: a heartbeat only writes. *)
BeatQuietly(p) ==
  /\ Beating(p) /\ pc[p] = "idle"
  /\ fresh' = fresh \cup {p}
  /\ UNCHANGED <<party, members, linked, clients, copies, req, pc, sweep>>

(* A heartbeat reads the session with its membership and writes both in one *)
(* transaction, which fails as a whole when the member has gone meanwhile:  *)
(* then it leaves nothing, so the two are one step here.                    *)
Beat(p) ==
  /\ Beating(p) /\ pc[p] = "idle"
  /\ fresh' = fresh \cup {p}
  /\ Goto(p, "broadcast")
  /\ UNCHANGED <<party, members, linked, clients, copies, sweep>>

(* Three minutes without a report.  The player reports every ten seconds.  *)
Age(p) ==
  /\ p \in fresh /\ ~ Beating(p)
  /\ fresh' = fresh \ {p}
  /\ UNCHANGED <<party, members, linked, clients, copies, req, pc, sweep>>

-----------------------------------------------------------------------------
(* reapStalePartyMembers: read the live parties and their members, *)
Sweep ==
  /\ pc[Reaper] = "idle" /\ Live
  /\ sweep' = [NoSweep EXCEPT !.stale = members \ fresh]
  /\ sweep'.stale # {}
  /\ Goto(Reaper, "sweep")
  /\ UNCHANGED <<rows, clients, copies>>

(* Mutant: any open socket of the party spares a member. *)
PickUnlessWatched(p) ==
  /\ pc[Reaper] = "sweep" /\ p \in sweep.stale
  /\ IF socket # {}
     THEN sweep' = [sweep EXCEPT !.stale = @ \ {p}] /\ UNCHANGED <<pc, req>>
     ELSE sweep' = [sweep EXCEPT !.stale = @ \ {p}, !.victim = p] /\ Goto(Reaper, "reap")
  /\ UNCHANGED <<rows, clients, copies>>

(* spare the stale members with an open socket, *)
Pick(p) ==
  /\ pc[Reaper] = "sweep" /\ p \in sweep.stale
  /\ IF p \in socket
     THEN sweep' = [sweep EXCEPT !.stale = @ \ {p}] /\ UNCHANGED <<pc, req>>
     ELSE sweep' = [sweep EXCEPT !.stale = @ \ {p}, !.victim = p] /\ Goto(Reaper, "reap")
  /\ UNCHANGED <<rows, clients, copies>>

(* Mutant: the host is removed like a guest. *)
ReapHostAsGuest ==
  /\ pc[Reaper] = "reap" /\ sweep.victim = Host
  /\ RemoveMember(Host)
  /\ sweep' = [sweep EXCEPT !.victim = None, !.changed = TRUE]
  /\ Goto(Reaper, "sweep")
  /\ UNCHANGED clients

(* end the party when one is the host, *)
ReapHost ==
  /\ pc[Reaper] = "reap" /\ sweep.victim = Host
  /\ EndParty
  /\ sweep' = NoSweep
  /\ Goto(Reaper, "broadcast")
  /\ UNCHANGED clients

(* remove the others, *)
ReapGuest ==
  /\ pc[Reaper] = "reap" /\ sweep.victim # Host /\ sweep.victim \in members
  /\ RemoveMember(sweep.victim)
  /\ sweep' = [sweep EXCEPT !.victim = None, !.changed = TRUE]
  /\ Goto(Reaper, "sweep")
  /\ UNCHANGED clients

(* give up when the row has gone meanwhile, *)
ReapFails ==
  /\ pc[Reaper] = "reap" /\ sweep.victim # Host /\ sweep.victim \notin members
  /\ sweep' = NoSweep
  /\ Goto(Reaper, "idle")
  /\ UNCHANGED <<rows, clients, copies>>

(* and announce what changed. *)
EndSweep ==
  /\ pc[Reaper] = "sweep" /\ sweep.stale = {}
  /\ Goto(Reaper, IF sweep.changed THEN "broadcast" ELSE "idle")
  /\ sweep' = NoSweep
  /\ UNCHANGED <<rows, clients, copies>>

(* Parties that ended a day ago are deleted; no request takes that long.   *)
Purge ==
  /\ party = "ENDED"
  /\ \A a \in Actors : pc[a] \in {"idle", "done"}
  /\ party' = "deleted"
  /\ members' = {} /\ linked' = {} /\ fresh' = {}
  /\ Outdate
  /\ UNCHANGED <<clients, req, pc, sweep>>

-----------------------------------------------------------------------------
(* What clients do, and what the server's own code does next. *)
Client ==
  \/ Create
  \/ \E r \in Requests, p \in Profiles :
       \/ \E kind \in {"control", "ready", "session", "leave"} : Enter(r, p, kind)
       \/ \E kind \in {"join", "connect"} : Arrive(r, p, kind)
       \/ \E gone \in BOOLEAN : Drop(r, p, gone)
       \/ Stop(r, p)

Handle(r) ==
  \/ Control(r) \/ Ready(r) \/ LinkSession(r) \/ Leave(r) \/ Unlink(r) \/ MemberGone(r)
  \/ Lookup(r) \/ Insert(r) \/ Attach(r)

Broadcast(a) == ReadSnapshot(a) \/ Send(a)
Reap ==
  \/ Sweep \/ ReapHost \/ ReapGuest \/ ReapFails \/ EndSweep
  \/ \E p \in Profiles : Pick(p)

Next ==
  \/ Client
  \/ \E r \in Requests : Handle(r)
  \/ \E a \in Actors : Broadcast(a)
  \/ \E p \in Profiles : Beat(p) \/ Age(p)
  \/ Reap \/ Purge

(* Awaited calls answer, the player's timer fires, time passes and the     *)
(* sweep is an interval.  No client has to do anything.                    *)
Fairness ==
  /\ \A r \in Requests : WF_vars(Handle(r))
  /\ \A a \in Actors : WF_vars(Broadcast(a))
  /\ \A p \in Profiles : WF_vars(Beat(p)) /\ WF_vars(Age(p))
  /\ WF_vars(Reap)

Spec == Init /\ [][Next]_vars /\ Fairness

-----------------------------------------------------------------------------
Places == {"idle", "done", "control", "ready", "session", "leave", "lookup", "insert",
           "attach", "broadcast", "send", "unlink", "sweep", "reap"}
RequestRecords ==
  [who : Profiles \cup {None},
   kind : {"none", "control", "ready", "session", "leave", "join", "connect", "drop", "stop"}]
Sweeps == [stale : SUBSET Profiles, victim : Profiles \cup {None}, changed : BOOLEAN]

(* Type correctness; the link and the last report are columns of a member's *)
(* row, so only members have them, and only a reading actor has a snapshot. *)
TypeOK ==
  /\ party \in {"none", "live", "ENDED", "deleted"}
  /\ members \subseteq Profiles
  /\ linked \subseteq members /\ fresh \subseteq members
  /\ playing \subseteq Profiles /\ socket \subseteq Profiles
  /\ shown \subseteq socket
  /\ pc \in [Actors -> Places]
  /\ latest \subseteq {a \in Actors : pc[a] = "send"}
  /\ req \in [Requests -> RequestRecords]
  /\ sweep \in Sweeps

(* No host, no party: a live party has its host among its members.  One    *)
(* step alone may break that: the write of a command whose handler read    *)
(* the party before it ended (/control checks first and writes after an    *)
(* await), which brings the ended party back without members.              *)
Hosted == Live => Host \in members
HostlessOnlyByCommand ==
  [][Hosted /\ ~ Hosted' => /\ party = "ENDED"
                           /\ \E r \in Requests : pc[r] = "control" /\ pc'[r] = "broadcast"]_vars

(* A party whose host is gone for good, without a socket and without a     *)
(* player, does not stay live: the sweep ends it, unless the host comes    *)
(* back or the party is one that a late command brought back.              *)
HostAway == Live /\ Host \in members /\ Host \notin socket /\ Host \notin playing
AbandonedPartyEnds == HostAway ~> ~ HostAway

(* Broadcasts can overtake each other, so a client may be shown an older   *)
(* snapshot last.  Heartbeats repair that: while some member's player      *)
(* reports, every connected client comes to show the party as it is.       *)
ViewsConverge ==
  \A p \in Profiles :
    <>[](p \in socket /\ \E q \in Profiles : Beating(q)) => <>[](p \in shown)

(* Left alone, a party settles: abandoned ones end, watched ones are seen   *)
(* by every connected member as they are (the sweep and the heartbeats).    *)
PartySettles == []TypeOK /\ AbandonedPartyEnds /\ ViewsConverge
=============================================================================
