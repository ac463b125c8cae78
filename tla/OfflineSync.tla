------------------------------ MODULE OfflineSync ------------------------------
(* Watch progress made without the server: the queue of apps/web/src/offline.ts, *)
(* its flush on reconnect (useConnectivity.ts), the player that fills it         *)
(* (views/OfflineWatchPage.tsx) and the sync handler of watch-state-routes.ts.   *)
(* A position is a version: the n-th one saved for its item.  The queue is in    *)
(* the shell's store and outlives the page; everything else is page memory.      *)
EXTENDS Naturals, FiniteSets

CONSTANTS Items, Flushes, \* bound: flushes under way at once
          MaxSaves,       \* bound: positions saved per item
          MaxFaults,      \* bound: flushes that fail with the server there
          MaxOutages,     \* bound: links lost and servers gone
          None

(* What the constants must satisfy, whoever instantiates the module. *)
OfflineSyncAssumption ==
  /\ MaxSaves \in Nat /\ MaxFaults \in Nat
  /\ MaxOutages \in Nat /\ None \notin Items

VARIABLES net,     \* "up", "unreachable" (a link but no server) or "down"
          open,    \* the page is loaded
          online,  \* onlineRef
          profile, \* the cached profile: "asking", "known", or "none" after a failure
          playing, \* the item of the offlineWatch route, which a reload keeps
          queue,   \* hokago_offline_watch_queue: the version queued per item, 0 for none
          flush,   \* flushWatchSync calls: [at, sent]
          server,  \* the version the server has per item
          seen,    \* history: the last version saved per item
          raced,   \* history: items saved while a flush carried an older version
          faults, outages

vars == <<net, open, online, profile, playing, queue, flush, server, seen, raced, faults, outages>>
page == <<open, online, profile, playing>>

Nothing == [i \in Items |-> 0]
NoFlush == [at |-> "idle", sent |-> Nothing]

Init ==
    /\ net = "up" /\ open = TRUE /\ online = TRUE /\ profile = "asking" /\ playing = None
    /\ queue = Nothing /\ flush = [f \in Flushes |-> NoFlush]
    /\ server = Nothing /\ seen = Nothing /\ raced = {}
    /\ faults = 0 /\ outages = 0

-----------------------------------------------------------------------------
(* Connectivity.                                                              *)

Idle == {f \in Flushes : flush[f].at = "idle"}
\* flushWatchSync: an empty queue sends nothing.
StartsFlush(f) == [flush EXCEPT ![f] = [at |-> "sent", sent |-> queue]]
Ready == profile = "known" /\ queue # Nothing
MarkOnline ==
    /\ online' = TRUE
    /\ IF Ready THEN \E f \in Idle : flush' = StartsFlush(f) ELSE UNCHANGED flush

LinkDown ==
    /\ net # "down" /\ net' = "down" /\ outages < MaxOutages /\ outages' = outages + 1
    /\ online' = IF open THEN FALSE ELSE online
    /\ UNCHANGED <<open, profile, playing, queue, flush, server, seen, raced, faults>>

\* The link event says nothing of the server.
LinkUp ==
    /\ net = "down" /\ net' \in {"up", "unreachable"}
    /\ IF open THEN MarkOnline ELSE UNCHANGED <<online, flush>>
    /\ UNCHANGED <<open, profile, playing, queue, server, seen, raced, faults, outages>>

ServerGoes ==
    /\ net = "up" /\ net' = "unreachable" /\ outages < MaxOutages /\ outages' = outages + 1
    /\ UNCHANGED <<page, queue, flush, server, seen, raced, faults>>
ServerReturns ==
    /\ net = "unreachable" /\ net' = "up"
    /\ UNCHANGED <<page, queue, flush, server, seen, raced, faults, outages>>

\* The /health poll runs while the page believes it is offline.
ProbeSucceeds ==
    /\ open /\ ~online /\ net = "up"
    /\ MarkOnline
    /\ UNCHANGED <<net, open, profile, playing, queue, server, seen, raced, faults, outages>>

-----------------------------------------------------------------------------
(* The page.                                                                  *)

\* Only the browser's link state is asked at boot.
Boot ==
    /\ ~open /\ open' = TRUE
    /\ online' = (net # "down") /\ profile' = "asking"
    /\ UNCHANGED <<net, playing, queue, flush, server, seen, raced, faults, outages>>

\* getPrimaryProfile caches the failure too.
ProfileLoads ==
    /\ open /\ profile = "asking"
    /\ profile' = IF net = "up" THEN "known" ELSE "none"
    /\ UNCHANGED <<net, open, online, playing, queue, flush, server, seen, raced, faults, outages>>

Close ==
    /\ open /\ open' = FALSE /\ playing' \in {playing, None}
    /\ flush' = [f \in Flushes |-> NoFlush]
    /\ UNCHANGED <<net, online, profile, queue, server, seen, raced, faults, outages>>

\* OfflineView's play needs the profile for the route.
Play(i) ==
    /\ open /\ profile = "known" /\ playing' = i /\ playing # i
    /\ UNCHANGED <<net, open, online, profile, queue, flush, server, seen, raced, faults, outages>>

StopPlaying ==
    /\ open /\ playing # None /\ playing' = None
    /\ UNCHANGED <<net, open, online, profile, queue, flush, server, seen, raced, faults, outages>>

\* savePosition and queueWatchState.
Save(i) ==
    /\ open /\ playing = i /\ seen[i] < MaxSaves
    /\ seen' = [seen EXCEPT ![i] = @ + 1]
    /\ queue' = [queue EXCEPT ![i] = seen[i] + 1]
    /\ raced' = IF \E f \in Flushes : flush[f].sent[i] # 0 THEN raced \cup {i} ELSE raced
    /\ UNCHANGED <<net, page, flush, server, faults, outages>>

-----------------------------------------------------------------------------
(* A flush.                                                                   *)

\* POST /watch-state/sync: one transaction of upserts, older or newer.
Synced(f) ==
    /\ flush[f].at = "sent" /\ net = "up"
    /\ server' = [i \in Items |-> IF flush[f].sent[i] # 0 THEN flush[f].sent[i] ELSE server[i]]
    /\ flush' = [flush EXCEPT ![f].at = "ok"]
    /\ UNCHANGED <<net, page, queue, seen, raced, faults, outages>>

\* The answer: what was sent leaves the queue as it is now.
DroppedAfter(f, ok) == IF ok THEN [i \in Items |-> IF flush[f].sent[i] # 0 THEN 0 ELSE queue[i]] ELSE queue
DroppedAnyway(f, ok) == DroppedAfter(f, TRUE)
Dropped(f, ok) == DroppedAfter(f, ok)
Done(f) ==
    /\ flush[f].at = "ok"
    /\ queue' = Dropped(f, TRUE) /\ flush' = [flush EXCEPT ![f] = NoFlush]
    /\ UNCHANGED <<net, page, server, seen, raced, faults, outages>>

\* The network, an expired token, or an answer that never comes.
Fails(f) ==
    /\ flush[f].at # "idle" /\ (net # "up" \/ faults < MaxFaults)
    /\ queue' = Dropped(f, FALSE) /\ flush' = [flush EXCEPT ![f] = NoFlush]
    /\ faults' = IF net = "up" THEN faults + 1 ELSE faults
    /\ UNCHANGED <<net, page, server, seen, raced, outages>>

Next ==
    \/ LinkDown \/ LinkUp \/ ServerGoes \/ ServerReturns \/ ProbeSucceeds
    \/ Boot \/ ProfileLoads \/ Close \/ StopPlaying
    \/ \E i \in Items : Play(i) \/ Save(i)
    \/ \E f \in Flushes : Synced(f) \/ Done(f) \/ Fails(f)

\* Links and servers come back, polls poll and requests are answered; what the
\* user does is left open.
Fairness ==
    /\ WF_vars(LinkUp) /\ WF_vars(ServerReturns) /\ SF_vars(ProbeSucceeds)
    /\ WF_vars(ProfileLoads) /\ WF_vars(Boot)
    /\ \A f \in Flushes : WF_vars(Synced(f) \/ Done(f) \/ Fails(f))

Spec == Init /\ [][Next]_vars
FairSpec == Spec /\ Fairness

-----------------------------------------------------------------------------
(* Properties.                                                                *)

TypeOK ==
    /\ net \in {"up", "unreachable", "down"} /\ open \in BOOLEAN /\ online \in BOOLEAN
    /\ profile \in {"asking", "known", "none"} /\ playing \in Items \cup {None}
    /\ queue \in [Items -> 0..MaxSaves] /\ server \in [Items -> 0..MaxSaves]
    /\ flush \in [Flushes -> [at : {"idle", "sent", "ok"}, sent : [Items -> 0..MaxSaves]]]
    /\ seen \in [Items -> 0..MaxSaves] /\ raced \subseteq Items /\ faults \in 0..MaxFaults /\ outages \in 0..MaxOutages

\* "Entries are only dropped on a successful response": whatever fails or is
\* closed in between, a position that is no longer queued is on the server,
\* unless a newer one was saved over it while the flush was under way.
ProgressIsKept == \A i \in Items \ raced : queue[i] = 0 => server[i] = seen[i]

\* The same, with no exception for a position saved during the flush.
OnlySentIsDropped == \A i \in Items : queue[i] = 0 => server[i] = seen[i]

\* "Progress saved locally - syncs when the server is reachable": a queued
\* position leaves the queue if nothing fails for good.
QueuedProgressSyncs == \A i \in Items : (queue[i] # 0) ~> (queue[i] = 0)
=============================================================================
