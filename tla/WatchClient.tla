---------------------------- MODULE WatchClient ----------------------------
(***************************************************************************)
(* The watch page of the web client (apps/web/src/WatchPage.tsx): the      *)
(* start of a session per title, the latest-wins restart pump behind seek, *)
(* audio and quality changes, the decode fallbacks, and the timeline       *)
(* offset that turns the element's clock back into media time.             *)
(* Positions appear as anchors only: the media time a stream starts at,    *)
(* which the server picks (the target when it encodes, the keyframe before *)
(* it when it copies).  The server half is what /playback answers.         *)
(***************************************************************************)
EXTENDS Naturals, Integers, FiniteSets

CONSTANTS
  Titles,      \* the titles the page may show, 1..n
  MaxStarts,   \* bound: /playback/start calls the page makes
  MaxAnchor,   \* streams start at 0..MaxAnchor
  MaxTries,    \* scales the 503 retries of a restart (5 for a seek, else 2)
  Worlds       \* [fault, lossy, gestures, moves]: what is wrong with the files that no
               \* codec check foresaw; whether answers get lost; bounds on the restarts
               \* and title changes asked for

ASSUME WatchClientAssumption ==
  /\ Titles \subseteq Nat /\ Titles # {}
  /\ Worlds \subseteq [fault : {"none", "audio", "video"}, lossy : BOOLEAN, gestures : Nat, moves : 0..(MaxStarts - 1)]
  /\ MaxStarts \in Nat \ {0} /\ MaxAnchor \in Nat /\ MaxTries \in Nat

Anchors  == 0..MaxAnchor
Sessions == 1..MaxStarts
Methods  == {"DIRECT", "REMUX", "TRANSCODE"}
Unset     == 0 - 1

VARIABLES
  page,     \* what the viewer is looking at: title, open, and the bounds left
  calls,    \* the start calls by session: st, title, cancelled
  srv,      \* the server's sessions: live, method, start (its stream's anchor), floor
  client,   \* startRef and the refs reset with it: cur, method, offset, nonce, pending, tried
  pump,     \* restartLatestRef, restartBusyRef, the requeue timer and the scrub debounce
  elem,     \* the media element: what it opened, where that stream starts
  card,     \* playerError: the recovery card is up
  fault,    \* what is wrong with the files, and whether the network loses answers
  stopping, \* stop POSTs on their way
  excused   \* history: why the clock may be wrong (see ClockIsHonest)

pageVars == <<page, calls, srv, client, pump, elem, card, fault, stopping, excused>>

NoElem == [open |-> FALSE, src |-> <<>>, base |-> 0, ready |-> FALSE, err |-> FALSE]
NoReq  == [kind |-> "none"]
NoAns  == [ok |-> FALSE, retry |-> FALSE, restarted |-> FALSE, auth |-> FALSE, method |-> "DIRECT", start |-> 0]
NoSeek == [base |-> 0, nonce |-> Unset]

\* How far a method is from serving the bytes as they are; a decode report
\* marks the file, which puts a floor under every later decision.
Rank(m) == CASE m = "DIRECT" -> 0 [] m = "REMUX" -> 1 [] OTHER -> 2

Closed   == [live |-> FALSE, method |-> "DIRECT", start |-> 0, floor |-> 0]
NoClient == [cur |-> 0, method |-> "DIRECT", offset |-> 0, nonce |-> 0,
             pending |-> NoSeek, triedA |-> FALSE, triedV |-> FALSE]

Request == [kind : {"seek", "audio", "quality", "audioDecode", "videoDecode"},
            want : Methods, sess : 0..MaxStarts, tries : 0..MaxTries]
Answer  == [ok : BOOLEAN, retry : BOOLEAN, restarted : BOOLEAN, auth : BOOLEAN,
            method : Methods, start : Anchors]

\* A direct play is the file, from its beginning.
StartsOf(m) == IF m = "DIRECT" THEN {0} ELSE Anchors

\* The src the player is given; direct play names the page's title, not the session.
Src == IF client.method = "DIRECT" THEN <<"DIRECT", page.title>>
       ELSE <<client.method, client.cur, client.nonce>>

Plays(m, f) == CASE f = "none"  -> TRUE
                 [] f = "audio" -> m # "DIRECT"
                 [] OTHER       -> m = "TRANSCODE"

----------------------------------------------------------------------------
PageInit ==
  /\ \E t \in {CHOOSE t \in Titles : TRUE}, w \in Worlds :
       /\ page = [title |-> t, open |-> TRUE, gestures |-> w.gestures, moves |-> w.moves]
       /\ fault = [file |-> w.fault, lossy |-> w.lossy]
  /\ calls = [k \in Sessions |->
                IF k = 1 THEN [st |-> "sent", title |-> page.title, cancelled |-> FALSE]
                         ELSE [st |-> "none", title |-> page.title, cancelled |-> FALSE]]
  /\ srv = [k \in Sessions |-> Closed]
  /\ client = NoClient
  /\ pump = [latest |-> NoReq, busy |-> NoReq, ans |-> NoAns, phase |-> "idle",
             timer |-> FALSE, scrub |-> FALSE]
  /\ elem = NoElem
  /\ card = FALSE
  /\ stopping = {}
  /\ excused = {}

----------------------------------------------------------------------------
(* The start of a session *)

\* A title change: the start effect cleans up (cancelled) and calls again.
Navigate(t) ==
  /\ page.open /\ t # page.title /\ page.moves > 0
  /\ \E k \in Sessions :
       /\ calls[k].st = "none" /\ \A j \in Sessions : j < k => calls[j].st # "none"
       /\ calls' = [j \in Sessions |->
            IF j = k THEN [st |-> "sent", title |-> t, cancelled |-> FALSE]
                     ELSE IF calls[j].st = "done" THEN calls[j] ELSE [calls[j] EXCEPT !.cancelled = TRUE]]
  /\ page' = [page EXCEPT !.title = t, !.moves = @ - 1]
  /\ UNCHANGED <<srv, client, pump, elem, card, fault, stopping, excused>>

\* The transcoder stays at its cap through every try, or the file is gone.
\* (A 503 that is retried changes nothing here.)
StartFails(k) ==
  /\ calls[k].st = "sent"
  /\ calls' = [calls EXCEPT ![k].st = "failed"]
  /\ UNCHANGED <<page, srv, client, pump, elem, card, fault, stopping, excused>>

\* The server opens the session, anchored at the resume point it remembers.
StartServed(k) ==
  /\ calls[k].st = "sent"
  /\ \E m \in Methods : \E a \in StartsOf(m) :
       srv' = [srv EXCEPT ![k] = [live |-> TRUE, method |-> m, start |-> a, floor |-> 0]]
  /\ calls' = [calls EXCEPT ![k].st = "answered"]
  /\ UNCHANGED <<page, client, pump, elem, card, fault, stopping, excused>>

StartForgotten(k) ==
  /\ calls[k].st = "answered" /\ calls[k].cancelled
  /\ calls' = [calls EXCEPT ![k].st = "done"]
  /\ UNCHANGED <<page, srv, client, pump, elem, card, fault, stopping, excused>>

\* The answer of a start nobody waits for: the session is stopped at once.
StartDiscarded(k) ==
  /\ calls[k].st = "answered" /\ calls[k].cancelled
  /\ calls' = [calls EXCEPT ![k].st = "done"]
  /\ stopping' = stopping \cup {k}
  /\ UNCHANGED <<page, srv, client, pump, elem, card, fault, excused>>

\* The answer becomes the page's session; the old one's stop goes out with
\* the heartbeat effect's cleanup.  `gap`: the resume point lies past the
\* anchor, and a seek will close it.  Neither the offset of a direct-play title,
\* the pending seek nor the restart queue is reset here.
StartAdopted(k, gap) ==
  LET m == srv[k].method  a == srv[k].start IN
  /\ calls[k].st = "answered" /\ ~calls[k].cancelled
  /\ calls' = [calls EXCEPT ![k].st = "done"]
  /\ client' = [client EXCEPT
       !.cur = k, !.method = m, !.triedA = FALSE, !.triedV = FALSE,
       !.offset = IF m = "DIRECT" THEN @ ELSE a,
       !.pending = IF gap THEN [base |-> a, nonce |-> client.nonce] ELSE @]
  /\ stopping' = IF client.cur = 0 THEN stopping ELSE stopping \cup {client.cur}
  /\ elem' = IF client.cur # 0 /\ client.method # m THEN NoElem ELSE elem
  /\ excused' = (IF m # "DIRECT" THEN excused \cap {"report"} ELSE IF client.offset # 0 THEN excused \cup {"clock"} ELSE excused)
                \cup (IF ~gap /\ client.pending.nonce = client.nonce THEN {"clock"} ELSE {})
  /\ UNCHANGED <<page, srv, pump, card, fault>>

\* Leaving the page: the start is cancelled, the session stopped, the queue and debounce dropped.
LeavePage ==
  /\ page.open
  /\ page' = [page EXCEPT !.open = FALSE]
  /\ calls' = [k \in Sessions |-> [calls[k] EXCEPT !.cancelled = TRUE]]
  /\ stopping' = IF client.cur = 0 THEN stopping ELSE stopping \cup {client.cur}
  /\ client' = NoClient /\ excused' = {}
  /\ pump' = [pump EXCEPT !.latest = NoReq, !.scrub = FALSE]
  /\ elem' = NoElem
  /\ UNCHANGED <<srv, card, fault>>

StopLands(k) ==
  /\ k \in stopping
  /\ stopping' = stopping \ {k}
  /\ srv' = [srv EXCEPT ![k] = Closed]
  /\ UNCHANGED <<page, calls, client, pump, elem, card, fault, excused>>
----------------------------------------------------------------------------
(* The restart pump: one request in flight, the latest one waiting *)

\* What run() does first: a direct-play seek is local, anything else is POSTed.
Sent(p, c, r) ==
  IF c.cur = 0 THEN [p EXCEPT !.latest = NoReq, !.phase = "idle", !.busy = NoReq, !.timer = FALSE]
  ELSE LET local == r.kind = "seek" /\ c.method = "DIRECT" IN
       [p EXCEPT !.latest = NoReq, !.timer = FALSE,
                 !.busy = IF r.kind = "seek" THEN [r EXCEPT !.sess = c.cur] ELSE r,
                 !.phase = IF local THEN "answered" ELSE "sent",
                 !.ans = IF local THEN [NoAns EXCEPT !.ok = TRUE] ELSE NoAns]

\* commitRestart: the slot holds the latest request, and the pump is primed.
Commit(p, c, r) == IF p.phase = "idle" THEN Sent(p, c, r) ELSE [p EXCEPT !.latest = r]

Reported(r) == r.kind \in {"audioDecode", "videoDecode"}

\* History: a decode report parked for its retry is overwritten by the commit.
Overrun == IF Reported(pump.latest) THEN excused \cup {"report"} ELSE excused

Req(kind, want) ==
  [kind |-> kind, want |-> want, sess |-> client.cur, tries |-> 0]

MayAsk == page.open /\ client.cur # 0 /\ page.gestures > 0
Asked  == page' = [page EXCEPT !.gestures = @ - 1]

\* A scrub moves the element at once (where it plays is left open here); the
\* restart waits for the debounce.
Scrub ==
  /\ MayAsk /\ Asked
  /\ pump' = [pump EXCEPT !.scrub = TRUE]
  /\ UNCHANGED <<calls, srv, client, elem, card, fault, stopping, excused>>

ScrubFires ==
  /\ pump.scrub
  /\ pump' = Commit([pump EXCEPT !.scrub = FALSE], client, Req("seek", "DIRECT"))
  /\ excused' = Overrun
  /\ UNCHANGED <<page, calls, srv, client, elem, card, fault, stopping>>

SwitchAudio ==
  /\ MayAsk /\ Asked /\ client.method # "DIRECT"
  /\ pump' = Commit(pump, client, Req("audio", "DIRECT"))
  /\ excused' = Overrun
  /\ UNCHANGED <<calls, srv, client, elem, card, fault, stopping>>

\* `want` is the method the server will decide for the chosen caps.
SwitchQuality(want) ==
  /\ MayAsk /\ Asked
  /\ pump' = Commit(pump, client, Req("quality", want))
  /\ excused' = Overrun
  /\ UNCHANGED <<calls, srv, client, elem, card, fault, stopping>>

\* "Try again" on the card: remount a direct play, else reload and seek.
Retry ==
  /\ MayAsk /\ Asked /\ card
  /\ card' = FALSE
  /\ IF client.method = "DIRECT"
     THEN /\ client' = [client EXCEPT !.triedA = FALSE, !.pending = [base |-> 0, nonce |-> client.nonce]]
          /\ elem' = NoElem
          /\ UNCHANGED pump
     ELSE /\ client' = [client EXCEPT !.nonce = @ + 1,
                          !.triedV = IF client.method = "REMUX" THEN FALSE ELSE @]
          /\ pump' = Commit(pump, client', Req("seek", "DIRECT"))
          /\ UNCHANGED elem
  /\ excused' = Overrun
  /\ UNCHANGED <<calls, srv, fault, stopping>>

\* The server's answers.  A request that finds no live session changes
\* nothing; a busy transcoder is a 503; a seek into what is written restarts
\* nothing; anything else starts a stream at its own anchor.
Gone(r) == CASE r.kind \in {"seek", "quality"} -> [NoAns EXCEPT !.ok = TRUE]
             [] OTHER -> NoAns

RestartMethods(r, s) ==
  CASE r.kind = "quality"     -> {m \in Methods : Rank(m) = IF Rank(r.want) > s.floor THEN Rank(r.want) ELSE s.floor}
    [] r.kind = "audioDecode" -> {"REMUX", "TRANSCODE"}
    [] r.kind = "videoDecode" -> {"TRANSCODE"}
    [] OTHER                  -> {s.method}

\* Nothing to restart: the seek is covered, the caps are the running ones, or
\* the file has left direct play already (which a report takes for success).
Settled(r, s) ==
  \/ r.kind = "seek" /\ s.method # "DIRECT"
  \/ r.kind = "quality" /\ s.method = r.want /\ s.method # "DIRECT"
  \/ r.kind = "audioDecode" /\ s.method # "DIRECT"

Serve ==
  LET r == pump.busy  k == r.sess  s == srv[k] IN
  /\ pump.phase = "sent"
  /\ \/ /\ ~s.live \/ (s.method = "DIRECT" /\ r.kind \in {"seek", "audio", "videoDecode"})
        /\ pump' = [pump EXCEPT !.phase = "answered", !.ans = Gone(r)]
        /\ UNCHANGED srv
     \/ /\ s.live
        /\ pump' = [pump EXCEPT !.phase = "answered", !.ans = [NoAns EXCEPT !.retry = TRUE]]
        /\ UNCHANGED srv
     \/ /\ s.live /\ Settled(r, s)
        /\ pump' = [pump EXCEPT !.phase = "answered",
                      !.ans = [ok |-> TRUE, retry |-> FALSE, restarted |-> Reported(r),
                               auth |-> Reported(r), method |-> s.method, start |-> s.start]]
        /\ UNCHANGED srv
     \/ /\ s.live
        /\ \/ r.kind \in {"quality", "audioDecode"} /\ ~(r.kind = "audioDecode" /\ s.method # "DIRECT")
           \/ s.method # "DIRECT" /\ r.kind \in {"seek", "audio", "videoDecode"}
        /\ \E m \in RestartMethods(r, s) : \E a \in StartsOf(m) :
             /\ srv' = [srv EXCEPT ![k].method = m, ![k].start = a,
                          ![k].floor = CASE r.kind = "audioDecode" -> IF @ < 1 THEN 1 ELSE @
                                         [] r.kind = "videoDecode" -> 2
                                         [] OTHER -> @]
             /\ pump' = [pump EXCEPT !.phase = "answered",
                           !.ans = [ok |-> TRUE, retry |-> FALSE, restarted |-> TRUE,
                                    auth |-> Reported(r), method |-> m, start |-> a]]
  /\ UNCHANGED <<page, calls, client, elem, card, fault, stopping, excused>>

RebaseLate(c, m, start) ==
  LET o == IF m = "DIRECT" THEN 0 ELSE start IN
  [c EXCEPT !.offset = o, !.pending = [base |-> c.offset, nonce |-> c.nonce]]

\* applyRestart: the offset moves to the anchor, and the seek that closes the
\* gap is tagged with the nonce its src loads under.
Rebase(c, m, start) ==
  LET o == IF m = "DIRECT" THEN 0 ELSE start IN
  [c EXCEPT !.offset = o, !.pending = [base |-> o, nonce |-> c.nonce]]

\* bumpSrcNonce
Bumped(c) == [c EXCEPT !.nonce = @ + 1]

\* The request's apply(): the new client, and whether the player remounts.
Applied(r, a, c) ==
  CASE ~a.restarted /\ r.kind = "seek" /\ c.method = "REMUX" ->
         LET b == Bumped(c) IN [b EXCEPT !.pending = [base |-> c.offset, nonce |-> b.nonce]]
    [] ~a.restarted /\ (r.kind # "seek" \/ c.method # "REMUX") -> c
    [] a.restarted /\ r.kind \in {"seek", "audio"} -> Rebase(Bumped(c), c.method, a.start)
    [] OTHER -> Rebase(Bumped([c EXCEPT !.method = a.method]), a.method, a.start)

Remounts(r, a, c) == a.restarted /\ (Reported(r) \/ (r.kind = "quality" /\ a.method # c.method))

\* History: the answer of a restart, or of a report overtaken, goes unheard.
Dropped(r, restarted) == (IF restarted THEN {"clock"} ELSE {})
  \cup (IF Reported(r) /\ pump.latest # NoReq THEN {"report"} ELSE {})

HeardAnyway(r) == pump.ans

\* The guard of every run(): the answer of a session the page has left is void.
Heard(r) == IF client.cur = r.sess THEN pump.ans ELSE [NoAns EXCEPT !.ok = TRUE]

ParkedForGood(p, r) == [p EXCEPT !.latest = [r EXCEPT !.tries = @ + 1]]

\* A 503 goes back into the slot and waits a second.
Parked(p, r) == [p EXCEPT !.latest = [r EXCEPT !.tries = @ + 1], !.timer = TRUE]

ReportsFailQuietly(r) == r.kind \in {"audio", "quality"}

\* The requests that pass an onFail: all but the seek.
Complains(r) == r.kind # "seek"

\* The answer comes back.  It describes a session nobody watches; or a newer
\* request is waiting and it is dropped unless authoritative; or it is retried,
\* applied, or surfaced.  Then the pump takes the next request, which still
\* sees the old method: startRef follows at the next render.
Resume ==
  LET r == pump.busy
      a == Heard(r)
      newer == pump.latest # NoReq
      apply == a.ok /\ (~newer \/ a.auth) /\ client.cur # 0
      again == ~newer /\ a.retry /\ r.tries < MaxTries
      c == IF apply THEN Applied(r, a, client) ELSE client
      free == [pump EXCEPT !.busy = NoReq, !.phase = "idle", !.ans = NoAns]
  IN /\ pump.phase = "answered"
     /\ client' = c
     /\ pump' = IF again THEN Parked(free, r)
                ELSE IF newer THEN Sent(free, [c EXCEPT !.method = client.method], pump.latest) ELSE free
     /\ elem' = IF apply /\ Remounts(r, a, client) THEN NoElem ELSE elem
     /\ card' = IF apply /\ Reported(r) THEN card /\ ~a.restarted
                ELSE card \/ (~newer /\ ~a.ok /\ ~again /\ Complains(r))
     /\ excused' = IF apply /\ a.restarted THEN excused \cap {"report"}
                   ELSE excused \cup Dropped(r, a.restarted)
     /\ UNCHANGED <<page, calls, srv, fault, stopping>>

\* The response is lost: the catch surfaces it unless a newer request waits.
Lost ==
  LET newer == pump.latest # NoReq  r == pump.busy
      free == [pump EXCEPT !.busy = NoReq, !.phase = "idle", !.ans = NoAns] IN
  /\ pump.phase = "answered" /\ fault.lossy
  /\ r.kind # "seek" \/ client.method # "DIRECT"
  /\ pump' = IF newer THEN Sent(free, client, pump.latest) ELSE free
  /\ card' = (card \/ (~newer /\ Complains(r)))
  /\ excused' = IF client.cur = r.sess THEN excused \cup Dropped(r, pump.ans.restarted) ELSE excused
  /\ UNCHANGED <<page, calls, srv, client, elem, fault, stopping>>

\* The second a 503 is parked for has passed.
RetryTimer ==
  /\ pump.timer
  /\ pump' = IF pump.phase = "idle" /\ pump.latest # NoReq
             THEN Sent(pump, client, pump.latest) ELSE [pump EXCEPT !.timer = FALSE]
  /\ UNCHANGED <<page, calls, srv, client, elem, card, fault, stopping, excused>>

----------------------------------------------------------------------------
(* The media element *)

Served(m) == m = "DIRECT" \/ (srv[client.cur].live /\ srv[client.cur].method = m)

\* A new src: the stream the server has under that URL now.
Load ==
  /\ client.cur # 0 /\ (~elem.open \/ elem.src # Src) /\ Served(client.method)
  /\ elem' = [open |-> TRUE, src |-> Src, ready |-> FALSE, err |-> FALSE,
              base |-> IF client.method = "DIRECT" THEN 0 ELSE srv[client.cur].start]
  /\ UNCHANGED <<page, calls, srv, client, pump, card, fault, stopping, excused>>

\* handleCanPlay: the pending seek lands only on the src it was issued for.
CanPlay ==
  LET mine == client.pending.nonce = client.nonce IN
  /\ elem.open /\ ~elem.ready /\ ~elem.err /\ elem.src = Src /\ Plays(client.method, fault.file)
  /\ elem' = [elem EXCEPT !.ready = TRUE]
  /\ client' = [client EXCEPT !.pending = IF mine THEN NoSeek ELSE @]
  /\ UNCHANGED <<page, calls, srv, pump, card, fault, stopping, excused>>

AudioTier == client.method = "DIRECT" /\ ~client.triedA
VideoTier == client.method # "DIRECT" /\ ~client.triedV

\* runDecodeFallback, by the tier the session is on.
FallBack ==
  /\ client' = [client EXCEPT !.triedA = @ \/ AudioTier, !.triedV = @ \/ VideoTier]
  /\ pump' = Commit(pump, client, Req(IF AudioTier THEN "audioDecode" ELSE "videoDecode", "DIRECT"))
  /\ UNCHANGED card

GiveUp ==
  /\ client' = [client EXCEPT !.pending = NoSeek]
  /\ pump' = [pump EXCEPT !.latest = NoReq]
  /\ card' = TRUE

\* handleMediaError: a decode error escalates once per tier, is left alone
\* while a restart is under way, and otherwise raises the card.  A src the
\* server no longer serves is code 4 for the native element (REMUX) and
\* another code for hls.js.
MediaError ==
  /\ client.cur # 0
  /\ \/ elem.open /\ elem.src = Src /\ ~elem.ready /\ ~elem.err /\ ~Plays(client.method, fault.file)
     \/ (~elem.open \/ elem.src # Src) /\ ~Served(client.method)
  /\ LET decode == Served(client.method) \/ client.method = "REMUX"
         tier   == decode /\ (AudioTier \/ VideoTier)
         wait   == decode /\ (pump.phase # "idle" \/ pump.latest # NoReq)
     IN \/ tier /\ FallBack /\ UNCHANGED excused
        \/ ~tier /\ wait /\ excused' = excused \cup {"report"} /\ UNCHANGED <<client, pump, card>>
        \/ ~tier /\ ~wait /\ GiveUp /\ UNCHANGED excused
  /\ elem' = [NoElem EXCEPT !.open = TRUE, !.src = Src, !.err = TRUE]
  /\ UNCHANGED <<page, calls, srv, fault, stopping>>

\* The watchdog of a direct play that neither starts nor reports an error; a
\* new session, method or remount arms it again.
Stall ==
  /\ elem.open /\ elem.src = Src /\ ~elem.ready /\ AudioTier
  /\ client.cur # 0 /\ FallBack
  /\ UNCHANGED <<page, calls, srv, elem, fault, stopping, excused>>

----------------------------------------------------------------------------
PageNext ==
  \/ \E t \in Titles : Navigate(t)
  \/ \E k \in Sessions : StartFails(k) \/ StartServed(k) \/ StartDiscarded(k) \/ StopLands(k)
                        \/ \E gap \in BOOLEAN : StartAdopted(k, gap)
  \/ LeavePage
  \/ Scrub \/ ScrubFires \/ SwitchAudio \/ Retry
  \/ \E m \in Methods : SwitchQuality(m)
  \/ Serve \/ Resume \/ Lost \/ RetryTimer
  \/ Load \/ CanPlay \/ MediaError \/ Stall

\* The server answers, timers fire, the browser loads what it is given; the
\* viewer owes nothing.
PageFairness ==
  /\ \A k \in Sessions : /\ WF_pageVars(StartFails(k) \/ StartServed(k))
                          /\ WF_pageVars(StartDiscarded(k) \/ \E gap \in BOOLEAN : StartAdopted(k, gap))
                          /\ WF_pageVars(StopLands(k))
  /\ WF_pageVars(ScrubFires) /\ WF_pageVars(RetryTimer)
  /\ WF_pageVars(Serve \/ Resume)
  /\ WF_pageVars(Load \/ CanPlay \/ MediaError \/ Stall)

PageSpec == PageInit /\ [][PageNext]_pageVars /\ PageFairness

----------------------------------------------------------------------------
(* Properties *)

PageTypeOK ==
  /\ page \in [title : Titles, open : BOOLEAN, gestures : Nat, moves : Nat]
  /\ calls \in [Sessions -> [st : {"none", "sent", "answered", "done", "failed"}, title : Titles,
                             cancelled : BOOLEAN]]
  /\ srv \in [Sessions -> [live : BOOLEAN, method : Methods, start : Anchors, floor : 0..2]]
  /\ client.cur \in {0} \cup Sessions /\ client.method \in Methods /\ client.offset \in Anchors
  /\ pump.latest \in Request \cup {NoReq} /\ pump.busy \in Request \cup {NoReq} /\ pump.ans \in Answer
  /\ (pump.phase = "idle") = (pump.busy = NoReq)
  /\ elem.base \in Anchors
  /\ stopping \subseteq Sessions

\* The page is at rest: the element plays what it was given, nothing is in flight.
AtRest == /\ client.cur # 0 /\ elem.ready /\ elem.src = Src
          /\ pump.phase = "idle" /\ pump.latest = NoReq
          /\ page.title = calls[client.cur].title

\* The clock the heartbeats, the subtitles and every later restart use is the
\* stream's own: the offset is the anchor of the stream the element has open.
ClockIsTrue == AtRest => client.offset = elem.base

\* It can be wrong only after the client dropped (or lost) the answer of a
\* restart the server made, or kept an offset for a direct-play title.
ClockIsHonest == AtRest /\ excused = {} => ClockIsTrue

\* A seek is applied to the stream it was computed for, not to one that
\* replaced it under the same src or came before it.
SeeksLandOnTheirStream ==
  [][ elem'.ready /\ ~elem.ready /\ client.pending # NoSeek /\ client'.pending = NoSeek
      /\ pump.phase = "idle" /\ pump.latest = NoReq /\ excused = {}
      => client.pending.base = elem.base ]_pageVars

\* Every restart asked for is answered, retried or replaced until none is left.
RestartsSettle == pump.latest # NoReq ~> (pump.latest = NoReq /\ pump.phase = "idle")

\* Every session the server opened for this page is in the end the one it
\* watches or stopped: a start overtaken by a title change leaks no transcode.
NoSessionLeaks == \A k \in Sessions : <>[](srv[k].live => k = client.cur)

\* A title that cannot be decoded as served ends playing, or behind the card
\* that offers the retry.
Recovers == elem.ready \/ card \/ client.cur = 0
FaultsSurface == (client.cur # 0 /\ elem.err) ~> Recovers

\* That much holds unless the report went unheard: another request took its
\* place in the slot, its answer was dropped, or the error came while a
\* restart that mends nothing was under way.
FaultsSurfaceIfHeard == (client.cur # 0 /\ elem.err) ~> (Recovers \/ excused # {})

\* What the clock and the seeks owe the stream that is playing, in every state
\* and at every step (the offset, the pending seek and the src nonce).
StreamsStayAligned == []PageTypeOK /\ []ClockIsHonest /\ SeeksLandOnTheirStream

\* Requests and faults both come to an end: restarts settle, faults are shown.
PageSettles == RestartsSettle /\ FaultsSurfaceIfHeard
============================================================================
