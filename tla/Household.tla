----------------------------- MODULE Household -----------------------------
(***************************************************************************)
(* Invites, accounts and devices (apps/api/src/auth-routes.ts,             *)
(* admin-mgmt-routes.ts, schema.prisma): registering with an invite,       *)
(* binding a login to a device that several accounts may share, and        *)
(* revoking a device with the sessions it ever had.  A request is a run of *)
(* a handler, an action the code from one await to the next; a handler     *)
(* that only refuses is left out.  Foreign keys and unique columns are     *)
(* those of the schema, and a call that breaks one throws: the request is  *)
(* over.  Tokens and the liveness cache are in Accounts.                   *)
(***************************************************************************)
EXTENDS Naturals, FiniteSets

CONSTANTS People,    \* accounts, each with a username no other ever has
          Founders,  \* the sets of accounts there may be at first
          Invites,   \* bound: invites that can be created
          Keys,      \* clientKeys of installs
          Devices,   \* bound: device rows that can be created
          Sessions,  \* bound: sessions that can be created
          Requests,  \* bound: requests, in order of arrival
          MaxFaults, \* bound: link writes that fail
          None

HouseholdAssumption ==
  /\ Founders \subseteq SUBSET People
  /\ Requests \subseteq Nat /\ IsFiniteSet(Requests) /\ IsFiniteSet(People)
  /\ MaxFaults \in Nat
  /\ None \notin People \cup Invites \cup Keys \cup Devices \cup Sessions

VARIABLES
  invite,   \* Invite rows
  account,  \* Account rows
  enrolled, \* history: who registered with which invite
  raced,    \* history: requests that had read an invite when it was first used
  device,   \* Device rows
  links,    \* DeviceAccount rows
  unlinked, \* history: links whose write was swallowed
  sess,     \* Session rows, each with the device it was opened on
  late,     \* history: sessions opened while their device was being revoked
  req       \* what each request is, and what it has read

inviteVars == <<invite, account, enrolled, raced>>
deviceVars == <<device, links, unlinked>>
sessVars   == <<sess, late>>
vars == <<inviteVars, deviceVars, sessVars, req>>

NoDevice  == [at |-> "none", key |-> None, owner |-> None]
NoSession == [at |-> "none", by |-> None, on |-> None, first |-> None]
NoRequest == [at |-> "idle", who |-> None, inv |-> None, key |-> None, dev |-> None]

At(r, at)     == req[r].at = at
Become(r, to) == req' = [req EXCEPT ![r] = to]
Arrives(r)    == At(r, "idle") /\ \A q \in Requests : q < r => ~At(q, "idle")
Done(r)       == Become(r, [NoRequest EXCEPT !.at = "done"])
There(d)      == d # None /\ device[d].at = "there"
Member(p)     == account[p] = "there"

(* The row a create makes: one that never was, whichever. *)
Created(rows, x) ==
  /\ rows[x].at = "none"
  /\ x = CHOOSE y \in DOMAIN rows : rows[y].at = "none"

(* DELETE /auth/devices/:id holds the rows of the device and its sessions. *)
Locked(d) == \E r \in Requests : At(r, "drop") /\ req[r].dev = d

Init ==
  /\ invite = [i \in Invites |-> "none"]
  /\ \E f \in Founders : account = [p \in People |-> IF p \in f THEN "there" ELSE "none"]
  /\ enrolled = {} /\ raced = [i \in Invites |-> 0]
  /\ device = [d \in Devices |-> NoDevice]
  /\ links = {} /\ unlinked = {}
  /\ sess = [s \in Sessions |-> NoSession]
  /\ late = {}
  /\ req = [r \in Requests |-> NoRequest]

-----------------------------------------------------------------------------
(* POST and DELETE of an invite, by an admin; and its days run out. *)
SetInvite(i, to) ==
  /\ invite' = [invite EXCEPT ![i] = to]
  /\ UNCHANGED <<account, enrolled, raced, deviceVars, sessVars>>

CreateInvite(r, i) == Arrives(r) /\ invite[i] = "none" /\ SetInvite(i, "open") /\ Done(r)
ExpireInvite(i)    == invite[i] = "open" /\ SetInvite(i, "expired") /\ UNCHANGED req
DeleteInvite(r, i) ==
  /\ Arrives(r) /\ invite[i] \notin {"none", "deleted"}
  /\ SetInvite(i, "deleted") /\ Done(r)

(* Mutant: an invite is not asked whether it was used. *)
RegisterUsed(r, i, p) ==
  /\ Arrives(r) /\ invite[i] \in {"open", "used"} /\ account[p] # "deleted"
  /\ Become(r, [NoRequest EXCEPT !.at = "name", !.who = p, !.inv = i])
  /\ UNCHANGED <<inviteVars, deviceVars, sessVars>>

Register(r, i, p) ==
  /\ Arrives(r) /\ invite[i] = "open" /\ account[p] # "deleted"
  /\ Become(r, [NoRequest EXCEPT !.at = "name", !.who = p, !.inv = i])
  /\ UNCHANGED <<inviteVars, deviceVars, sessVars>>

CheckName(r) ==
  /\ At(r, "name")
  /\ IF Member(req[r].who) THEN Done(r) ELSE Become(r, [req[r] EXCEPT !.at = "enrol"])
  /\ UNCHANGED <<inviteVars, deviceVars, sessVars>>

(* The requests that have found an invite open and not yet used it. *)
Holding(i) == {q \in Requests : req[q].at \in {"name", "enrol"} /\ req[q].inv = i}

(* One transaction: the account and its profile, and the invite is used,   *)
(* whatever has become of it; a taken name or a deleted invite rolls back. *)
Enrol(r) ==
  LET i == req[r].inv IN
  /\ At(r, "enrol")
  /\ IF account[req[r].who] # "none" \/ invite[i] = "deleted"
     THEN UNCHANGED inviteVars
     ELSE /\ account' = [account EXCEPT ![req[r].who] = "there"]
          /\ enrolled' = enrolled \cup {<<req[r].who, i>>}
          /\ invite' = [invite EXCEPT ![i] = "used"]
          /\ raced' = IF invite[i] = "used" THEN raced
                      ELSE [raced EXCEPT ![i] = Cardinality(Holding(i) \ {r})]
  /\ Done(r)
  /\ UNCHANGED <<deviceVars, sessVars>>

-----------------------------------------------------------------------------
(* /auth/login with a correct password: of an install, or on the web. *)
Login(r, p, k) ==
  /\ Arrives(r) /\ Member(p)
  /\ Become(r, [NoRequest EXCEPT !.at = IF k = None THEN "session" ELSE "find",
                                 !.who = p, !.key = k])
  /\ UNCHANGED <<inviteVars, deviceVars, sessVars>>

(* POST /auth/device, and the verify that approves a TV. *)
AddDevice(r, p, k) ==
  /\ Arrives(r) /\ Member(p)
  /\ Become(r, [NoRequest EXCEPT !.at = "add", !.who = p, !.key = k])
  /\ UNCHANGED <<inviteVars, deviceVars, sessVars>>

(* upsertDevice: the row with this key is looked up, *)
FindDevice(r) ==
  /\ req[r].at \in {"find", "add"}
  /\ \E d \in Devices \cup {None} :
       /\ IF d = None THEN \A e \in Devices : There(e) => device[e].key # req[r].key
          ELSE There(d) /\ device[d].key = req[r].key
       /\ Become(r, [req[r] EXCEPT !.at = IF At(r, "find") THEN "upsert" ELSE "upsertOnly",
                                   !.dev = d])
  /\ UNCHANGED <<inviteVars, deviceVars, sessVars>>

(* then moved to this account, or created if there was none, *)
Claimable(r, d) ==
  /\ Member(req[r].who)
  /\ IF req[r].dev = None
     THEN Created(device, d) /\ \A e \in Devices : There(e) => device[e].key # req[r].key
     ELSE d = req[r].dev /\ There(d)

UpsertDevice(r) ==
  /\ req[r].at \in {"upsert", "upsertOnly"}
  /\ \/ \E d \in Devices :
          /\ Claimable(r, d)
          /\ device' = [device EXCEPT ![d] = [at |-> "there", key |-> req[r].key,
                                              owner |-> req[r].who]]
          /\ Become(r, [req[r] EXCEPT !.at = IF At(r, "upsert") THEN "link" ELSE "linkOnly",
                                      !.dev = d])
     \/ /\ ~\E d \in Devices : Claimable(r, d)
        /\ Done(r) /\ UNCHANGED device
  /\ UNCHANGED <<inviteVars, links, unlinked, sessVars>>

(* and linked to it; a link that cannot be written is done without. *)
AfterLink(r) ==
  IF At(r, "link") THEN Become(r, [req[r] EXCEPT !.at = "session"]) ELSE Done(r)

LinkDevice(r) ==
  /\ req[r].at \in {"link", "linkOnly"}
  /\ links' = IF There(req[r].dev) /\ Member(req[r].who)
              THEN links \cup {<<req[r].dev, req[r].who>>} ELSE links
  /\ AfterLink(r)
  /\ UNCHANGED <<inviteVars, device, unlinked, sessVars>>

LinkFails(r) ==
  /\ req[r].at \in {"link", "linkOnly"}
  /\ Cardinality(unlinked) < MaxFaults
  /\ unlinked' = unlinked \cup {<<req[r].dev, req[r].who>>}
  /\ AfterLink(r)
  /\ UNCHANGED <<inviteVars, device, links, sessVars>>

(* The poll that has claimed an approved code binds the TV if the device   *)
(* is still the approving account's.                                       *)
Claim(r, p, k) ==
  /\ Arrives(r) /\ Member(p)
  /\ \E d \in Devices \cup {None} :
       /\ IF d = None
          THEN \A e \in Devices : There(e) => device[e].key # k \/ device[e].owner # p
          ELSE There(d) /\ device[d].key = k /\ device[d].owner = p
       /\ Become(r, [NoRequest EXCEPT !.at = "session", !.who = p, !.key = k, !.dev = d])
  /\ UNCHANGED <<inviteVars, deviceVars, sessVars>>

(* session.create, with two foreign keys. *)
OpenSession(r) ==
  LET d == req[r].dev IN
  /\ At(r, "session")
  /\ IF Member(req[r].who) /\ (d = None \/ There(d))
     THEN \E s \in Sessions :
            /\ Created(sess, s)
            /\ sess' = [sess EXCEPT ![s] = [at |-> "live", by |-> req[r].who,
                                            on |-> d, first |-> d]]
            /\ late' = IF Locked(d) THEN late \cup {s} ELSE late
     ELSE UNCHANGED sessVars
  /\ Done(r)
  /\ UNCHANGED <<inviteVars, deviceVars>>

-----------------------------------------------------------------------------
(* DELETE /auth/devices/:id, by its owner or an account linked to it, *)
RevokeDevice(r, p, d) ==
  /\ Arrives(r) /\ Member(p)
  /\ There(d) /\ (device[d].owner = p \/ <<d, p>> \in links)
  /\ Become(r, [NoRequest EXCEPT !.at = "revoke", !.who = p, !.dev = d])
  /\ UNCHANGED <<inviteVars, deviceVars, sessVars>>

(* Mutant: the device goes first, and no session is found on it any more. *)
RevokeTooLate(r) ==
  /\ At(r, "revoke") /\ ~Locked(req[r].dev)
  /\ Become(r, [req[r] EXCEPT !.at = "drop"])
  /\ UNCHANGED <<inviteVars, deviceVars, sessVars>>

(* is a transaction of two statements.  The first revokes every session    *)
(* of the device; row locks keep other deletions of it out until the end,  *)
(* but a login may still insert a session.                                 *)
RevokeSessions(r) ==
  /\ At(r, "revoke") /\ ~Locked(req[r].dev)
  /\ sess' = [s \in Sessions |-> IF sess[s].at # "none" /\ sess[s].on = req[r].dev
                                 THEN [sess[s] EXCEPT !.at = "revoked"] ELSE sess[s]]
  /\ Become(r, [req[r] EXCEPT !.at = "drop"])
  /\ UNCHANGED <<inviteVars, deviceVars, late>>

(* What goes with rows of Device: their links; sessions are cut loose. *)
Unbind(ds) ==
  [s \in Sessions |-> IF sess[s].on \in ds THEN [sess[s] EXCEPT !.on = None] ELSE sess[s]]

DropDevice(r) ==
  LET d == req[r].dev IN
  /\ At(r, "drop")
  /\ IF There(d)
     THEN /\ device' = [device EXCEPT ![d].at = "revoked"]
          /\ links' = {l \in links : l[1] # d}
          /\ sess' = Unbind({d})
     ELSE UNCHANGED <<device, links, sess>>
  /\ Done(r)
  /\ UNCHANGED <<inviteVars, unlinked, late>>

(* DELETE /admin-api/accounts/:id, by an admin who is none of these people: *)
(* the account's sessions, the devices it owns and their links go with it.  *)
DeleteAccount(r, p) ==
  LET owned == {d \in Devices : There(d) /\ device[d].owner = p} IN
  /\ Arrives(r) /\ Member(p) /\ \A d \in owned : ~Locked(d)
  /\ account' = [account EXCEPT ![p] = "deleted"]
  /\ device' = [d \in Devices |-> IF d \in owned THEN [device[d] EXCEPT !.at = "deleted"]
                                  ELSE device[d]]
  /\ links' = {l \in links : l[1] \notin owned /\ l[2] # p}
  /\ sess' = [s \in Sessions |-> IF sess[s].by = p THEN [sess[s] EXCEPT !.at = "deleted", !.on = None]
                                 ELSE Unbind(owned)[s]]
  /\ Done(r)
  /\ UNCHANGED <<invite, enrolled, raced, unlinked, late>>

-----------------------------------------------------------------------------
Call(r) ==
  \/ \E i \in Invites : CreateInvite(r, i) \/ DeleteInvite(r, i)
  \/ \E p \in People :
       \/ DeleteAccount(r, p)
       \/ \E i \in Invites : Register(r, i, p)
       \/ \E k \in Keys : AddDevice(r, p, k) \/ Claim(r, p, k)
       \/ \E k \in Keys \cup {None} : Login(r, p, k)
       \/ \E d \in Devices : RevokeDevice(r, p, d)

Handle(r) ==
  \/ CheckName(r) \/ Enrol(r)
  \/ FindDevice(r) \/ UpsertDevice(r) \/ LinkDevice(r) \/ LinkFails(r)
  \/ OpenSession(r)
  \/ RevokeSessions(r) \/ DropDevice(r)

Next ==
  \/ \E r \in Requests : Call(r) \/ Handle(r)
  \/ \E i \in Invites : ExpireInvite(i)

Spec == Init /\ [][Next]_vars

-----------------------------------------------------------------------------
TypeOK ==
  /\ invite \in [Invites -> {"none", "open", "expired", "used", "deleted"}]
  /\ account \in [People -> {"none", "there", "deleted"}]
  /\ enrolled \subseteq People \X Invites
  /\ raced \in [Invites -> Nat]
  /\ device \in [Devices -> [at : {"none", "there", "revoked", "deleted"},
                             key : Keys \cup {None}, owner : People \cup {None}]]
  /\ links \subseteq Devices \X People /\ unlinked \subseteq Devices \X People
  /\ sess \in [Sessions -> [at : {"none", "live", "revoked", "deleted"}, by : People \cup {None},
                            on : Devices \cup {None}, first : Devices \cup {None}]]
  /\ late \subseteq Sessions
  /\ req \in [Requests -> [at : {"idle", "name", "enrol", "find", "add", "upsert", "upsertOnly",
                                 "link", "linkOnly", "session", "revoke", "drop", "done"},
                           who : People \cup {None}, inv : Invites \cup {None},
                           key : Keys \cup {None}, dev : Devices \cup {None}]]

(* "invite already used": an invite admits one account, and at most those  *)
(* whose requests had read it open when it was used first.                 *)
InvitesAdmitOnce ==
  \A i \in Invites : Cardinality({p \in People : <<p, i>> \in enrolled}) <= 1 + raced[i]

(* "Sessions would otherwise survive the delete as orphaned-but-live       *)
(* sessions": those of a revoked device are revoked, except one that a     *)
(* login opened between the revocation and the delete.                     *)
DevicesTakeTheirSessions ==
  \A s \in Sessions :
    sess[s].at = "live" /\ sess[s].first # None /\ device[sess[s].first].at = "revoked"
      => s \in late

(* "Either the owner or any paired account may revoke a shared device":    *)
(* whoever has a session on a device can, unless the link was lost or is   *)
(* yet to be written by a request of theirs.                               *)
Linking(d, p) ==
  \E r \in Requests :
    req[r].at \in {"link", "linkOnly"} /\ req[r].dev = d /\ req[r].who = p

MembersCanRevoke ==
  \A s \in Sessions :
    sess[s].at = "live" /\ sess[s].on # None =>
      \/ device[sess[s].on].owner = sess[s].by
      \/ <<sess[s].on, sess[s].by>> \in links \cup unlinked
      \/ Linking(sess[s].on, sess[s].by)
=============================================================================
