---------------------------- MODULE WatchProofs ----------------------------
(***************************************************************************)
(* Machine-checked facts about the watch page, for any titles, starts,     *)
(* gestures and faults (WatchClient), and about the party that watches     *)
(* together, for any profiles and requests (WatchParty).  The two share    *)
(* nothing: the page's names begin with Page where both have one.          *)
(***************************************************************************)
EXTENDS WatchClient, WatchParty, TLAPS

-----------------------------------------------------------------------------
(* The page. *)

(* The sessions whose start has been answered and dealt with: the one the  *)
(* page watches, those it has stopped, and those its requests are about.   *)
Opened == {k \in Sessions : calls[k].st = "done"}

PumpRecords ==
  [latest : Request \cup {NoReq}, busy : Request \cup {NoReq}, ans : Answer,
   phase : {"idle", "sent", "answered"}, timer : BOOLEAN, scrub : BOOLEAN]

Seeks == [base : Anchors, nonce : Nat \cup {Unset}]

ClientRecords ==
  [cur : {0} \cup Sessions, method : Methods, offset : Anchors, nonce : Nat,
   pending : Seeks, triedA : BOOLEAN, triedV : BOOLEAN]

SrvRecords == [live : BOOLEAN, method : Methods, start : Anchors, floor : 0..2]

(* Every request, under way or waiting, is about a session of S. *)
PumpOver(p, S) ==
  /\ p \in PumpRecords
  /\ (p.phase = "idle") = (p.busy = NoReq)
  /\ p.latest # NoReq => p.latest.sess \in S
  /\ p.busy # NoReq => p.busy.sess \in S

(* What the element may have been given under nonces up to n, for sessions *)
(* of S.                                                                   *)
Sources(S, n) ==
  {<<>>} \cup ({"DIRECT"} \X Titles) \cup ({"REMUX", "TRANSCODE"} \X S \X (0..n))

ElemOver(e, S, n) ==
  /\ e \in [open : BOOLEAN, src : Sources(S, n), base : Anchors, ready : BOOLEAN, err : BOOLEAN]
  /\ \A t \in Titles : e.src = <<"DIRECT", t>> => e.base = 0
  /\ e.ready => e.open /\ ~e.err

ClientOver(c, S) ==
  /\ c \in ClientRecords
  /\ c.pending.nonce <= c.nonce
  /\ c.cur # 0 => c.cur \in S

PageTypes ==
  /\ page \in [title : Titles, open : BOOLEAN, gestures : Nat, moves : Nat]
  /\ calls \in [Sessions -> [st : {"none", "sent", "answered", "done", "failed"}, title : Titles,
                             cancelled : BOOLEAN]]
  /\ srv \in [Sessions -> SrvRecords]
  /\ \A k \in Sessions : srv[k].method = "DIRECT" => srv[k].start = 0
  /\ ClientOver(client, Opened)
  /\ client.cur \notin stopping
  /\ PumpOver(pump, Opened)
  /\ pump.scrub => client.cur # 0
  /\ ElemOver(elem, Opened, client.nonce)
  /\ elem.open => client.cur # 0
  /\ stopping \subseteq Opened

(* A restarted answer waits in the pump; it is the watched session's. *)
Carries(p) == p.phase = "answered" /\ p.ans.restarted
InFlight(p, c) == Carries(p) /\ p.busy.sess = c.cur

(* The client's clock and the server's stream: unless the history excuses  *)
(* it, the offset is the anchor of the stream that runs, of what the       *)
(* element has open and of the seek that waits for it, but for the moment  *)
(* between a restart and the answer that tells of it.                      *)
Trusted == "clock" \notin excused

DirectFromZero == Trusted /\ client.method = "DIRECT" => client.offset = 0

OffsetIsAnchor ==
  Trusted /\ client.cur # 0 /\ client.method # "DIRECT" /\ ~InFlight(pump, client)
    => srv[client.cur].start = client.offset

ElementIsAnchored ==
  Trusted /\ elem.open /\ ~elem.err /\ elem.src = Src /\ ~InFlight(pump, client)
    => elem.base = client.offset

SeekIsAnchored ==
  Trusted /\ client.cur # 0 /\ client.pending.nonce = client.nonce
    => client.pending.base = client.offset

AnswerIsCurrent == InFlight(pump, client) => pump.ans.start = srv[client.cur].start

ClockInv ==
  /\ DirectFromZero /\ OffsetIsAnchor /\ ElementIsAnchored /\ SeekIsAnchored
  /\ AnswerIsCurrent

PInv == PageTypes /\ ClockInv

-----------------------------------------------------------------------------
(* What the pump, the element and the client are made of. *)

LEMMA RequestsAreSome ==
  ASSUME NEW r \in Request PROVE r # NoReq
  BY DEF Request, NoReq

LEMMA SourcesGrow ==
  ASSUME NEW S, NEW T, S \subseteq T, NEW m \in Nat, NEW n \in Nat, m <= n, NEW src \in Sources(S, m)
  PROVE  src \in Sources(T, n)
<1>1. 0..m \subseteq 0..n
  OBVIOUS
<1> QED
  BY <1>1 DEF Sources

(* The element knows no session outside S, and no nonce past n. *)
LEMMA SourceKnown ==
  ASSUME NEW S, NEW n \in Nat, NEW src \in Sources(S, n), NEW m \in {"REMUX", "TRANSCODE"},
         NEW k, NEW j, src = <<m, k, j>>
  PROVE  k \in S /\ j \in 0..n
<1>1. src # <<>>
  OBVIOUS
<1>2. src \notin {"DIRECT"} \X Titles
  OBVIOUS
<1> QED
  BY <1>1, <1>2 DEF Sources

LEMMA NoElemOver ==
  ASSUME NEW S, NEW n \in Nat PROVE ElemOver(NoElem, S, n)
  BY WatchClientAssumption DEF WatchClientAssumption, ElemOver, NoElem, Sources, Anchors

LEMMA ElemGrows ==
  ASSUME NEW S, NEW T, S \subseteq T, NEW m \in Nat, NEW n \in Nat, m <= n, NEW e, ElemOver(e, S, m)
  PROVE  ElemOver(e, T, n)
  BY SourcesGrow DEF ElemOver

LEMMA PumpGrows ==
  ASSUME NEW S, NEW T, S \subseteq T, NEW p, PumpOver(p, S) PROVE PumpOver(p, T)
  BY DEF PumpOver

LEMMA QuietAnswers ==
  /\ NoAns \in Answer /\ ~NoAns.restarted
  /\ [NoAns EXCEPT !.ok = TRUE] \in Answer /\ ~[NoAns EXCEPT !.ok = TRUE].restarted
  /\ [NoAns EXCEPT !.retry = TRUE] \in Answer /\ ~[NoAns EXCEPT !.retry = TRUE].restarted
<1>1. "DIRECT" \in Methods /\ 0 \in Anchors
  BY WatchClientAssumption DEF WatchClientAssumption, Methods, Anchors
<1>2. NoAns \in Answer /\ ~NoAns.restarted
  BY <1>1 DEF NoAns, Answer
<1>3. ASSUME NEW a \in Answer
      PROVE  /\ [a EXCEPT !.ok = TRUE] \in Answer /\ [a EXCEPT !.ok = TRUE].restarted = a.restarted
             /\ [a EXCEPT !.retry = TRUE] \in Answer /\ [a EXCEPT !.retry = TRUE].restarted = a.restarted
  BY DEF Answer
<1> QED
  BY <1>2, <1>3

LEMMA SentOver ==
  ASSUME NEW S \in SUBSET Sessions, NEW p \in PumpRecords, NEW c \in ClientRecords,
         NEW r \in Request, r.sess \in S, c.cur # 0 => c.cur \in S
  PROVE  /\ PumpOver(Sent(p, c, r), S)
         /\ Sent(p, c, r).scrub = p.scrub
         /\ ~Carries(Sent(p, c, r))
<1> DEFINE q == Sent(p, c, r)
<1>1. CASE c.cur = 0
  BY <1>1 DEF Sent, PumpOver, PumpRecords, Carries
<1>2. CASE c.cur # 0
  <2> DEFINE b == IF r.kind = "seek" THEN [r EXCEPT !.sess = c.cur] ELSE r
             a == [NoAns EXCEPT !.ok = TRUE]
             local == r.kind = "seek" /\ c.method = "DIRECT"
  <2>1. b \in Request /\ b.sess \in S
    BY <1>2 DEF Request, Sessions, ClientRecords
  <2>2. a \in Answer /\ NoAns \in Answer /\ ~a.restarted /\ ~NoAns.restarted
    BY QuietAnswers
  <2>3. q = [p EXCEPT !.latest = NoReq, !.timer = FALSE, !.busy = b,
                      !.phase = IF local THEN "answered" ELSE "sent",
                      !.ans = IF local THEN a ELSE NoAns]
    BY <1>2 DEF Sent
  <2>4. b # NoReq
    BY <2>1, RequestsAreSome
  <2> HIDE DEF b, a, local
  <2>5. /\ q \in PumpRecords
        /\ q.latest = NoReq /\ q.busy = b /\ q.scrub = p.scrub
        /\ q.phase # "idle"
        /\ q.ans \in {a, NoAns}
    BY <2>1, <2>2, <2>3 DEF PumpRecords
  <2> HIDE DEF q
  <2>6. PumpOver(q, S)
    BY <2>1, <2>4, <2>5 DEF PumpOver
  <2>7. ~Carries(q)
    BY <2>2, <2>5 DEF Carries
  <2> QED
    BY <2>5, <2>6, <2>7 DEF q
<1> QED
  BY <1>1, <1>2

(* q carries the answer p does, or both none. *)
SameLoad(p, q) ==
  /\ Carries(q) <=> Carries(p)
  /\ Carries(p) => q.busy = p.busy /\ q.ans = p.ans

LEMMA CommitOver ==
  ASSUME NEW S \in SUBSET Sessions, NEW p, PumpOver(p, S), NEW c \in ClientRecords,
         NEW r \in Request, r.sess \in S, c.cur # 0 => c.cur \in S
  PROVE  /\ PumpOver(Commit(p, c, r), S)
         /\ Commit(p, c, r).scrub = p.scrub
         /\ SameLoad(p, Commit(p, c, r))
<1>1. p \in PumpRecords
  BY DEF PumpOver
<1>2. CASE p.phase = "idle"
  BY <1>1, <1>2, SentOver DEF Commit, SameLoad, Carries
<1>3. CASE p.phase # "idle"
  <2>1. Commit(p, c, r) = [p EXCEPT !.latest = r]
    BY <1>3 DEF Commit
  <2> QED
    BY <1>1, <2>1 DEF PumpOver, PumpRecords, SameLoad, Carries
<1> QED
  BY <1>2, <1>3

-----------------------------------------------------------------------------
(* The starts of sessions. *)

PageRecords == [title : Titles, open : BOOLEAN, gestures : Nat, moves : Nat]
CallRecords == [st : {"none", "sent", "answered", "done", "failed"}, title : Titles, cancelled : BOOLEAN]

LEMMA PageInitPInv == PageInit => PInv
<1> SUFFICES ASSUME PageInit PROVE PInv
  OBVIOUS
<1>1. page \in PageRecords
  <2>1. PICK t \in {CHOOSE t \in Titles : TRUE}, w \in Worlds :
          page = [title |-> t, open |-> TRUE, gestures |-> w.gestures, moves |-> w.moves]
    BY DEF PageInit
  <2>2. t \in Titles /\ w.gestures \in Nat /\ w.moves \in Nat
    BY WatchClientAssumption DEF WatchClientAssumption
  <2> QED
    BY <2>1, <2>2 DEF PageRecords
<1>2. calls \in [Sessions -> CallRecords] /\ Opened = {}
  <2>1. \A k \in Sessions : calls[k] \in CallRecords /\ calls[k].st # "done"
    BY <1>1 DEF PageInit, CallRecords, PageRecords
  <2>2. calls = [k \in Sessions |-> calls[k]]
    BY DEF PageInit
  <2> QED
    BY <2>1, <2>2 DEF Opened
<1>3. /\ 0 \in Anchors /\ 0 \in Nat /\ "DIRECT" \in Methods
      /\ Closed \in SrvRecords /\ Closed.start = 0
  BY WatchClientAssumption DEF WatchClientAssumption, Anchors, Methods, Closed, SrvRecords
<1>4. srv \in [Sessions -> SrvRecords] /\ \A k \in Sessions : srv[k].start = 0
  BY <1>3 DEF PageInit
<1>5. ClientOver(NoClient, {}) /\ NoClient.cur = 0 /\ NoClient.offset = 0 /\ NoClient.nonce = 0
  <2>1. NoSeek \in Seeks /\ NoSeek.nonce <= 0
    BY <1>3 DEF NoSeek, Seeks, Unset
  <2> QED
    BY <1>3, <2>1 DEF ClientOver, ClientRecords, NoClient
<1>6. /\ PumpOver(pump, {}) /\ ~Carries(pump) /\ ~pump.scrub
  BY QuietAnswers DEF PageInit, PumpOver, PumpRecords, NoReq, Carries
<1>7. ElemOver(elem, {}, 0) /\ ~elem.open
  BY NoElemOver, <1>3 DEF PageInit, NoElem
<1>8. PageTypes
  BY <1>1, <1>2, <1>4, <1>5, <1>6, <1>7 DEF PageInit, PageTypes, PageRecords, CallRecords
<1>9. ClockInv
  BY <1>5, <1>6, <1>7 DEF PageInit, ClockInv, DirectFromZero, OffsetIsAnchor, ElementIsAnchored,
    SeekIsAnchored, AnswerIsCurrent, InFlight
<1> QED
  BY <1>8, <1>9 DEF PInv

(* A step that leaves the client, the pump's load and the element alone     *)
(* keeps the clock, if it keeps the stream of the watched session.         *)
SameClock(c, d) ==
  /\ d.cur = c.cur /\ d.method = c.method /\ d.offset = c.offset
  /\ d.nonce = c.nonce /\ d.pending = c.pending

LEMMA ClockFrame ==
  ASSUME PInv, SameClock(client, client'), SameLoad(pump, pump'), elem' = elem, Src' = Src,
         client.cur # 0 => srv'[client.cur].start = srv[client.cur].start,
         Trusted' => Trusted
  PROVE  ClockInv'
<1>1. InFlight(pump, client)' <=> InFlight(pump, client)
  BY DEF SameLoad, SameClock, InFlight
<1>2. InFlight(pump, client) => pump'.ans = pump.ans /\ client.cur # 0
  BY DEF SameLoad, InFlight, Carries, PInv, PageTypes, PumpOver, Opened, Sessions
<1> QED
  BY <1>1, <1>2 DEF PInv, ClockInv, DirectFromZero, OffsetIsAnchor, ElementIsAnchored,
    SeekIsAnchored, AnswerIsCurrent, SameClock

LEMMA StartWrites ==
  ASSUME PageTypes, NEW k \in Sessions, calls[k].st # "done",
         NEW x \in {"answered", "failed", "done"}, calls' = [calls EXCEPT ![k].st = x]
  PROVE  /\ calls' \in [Sessions -> CallRecords]
         /\ k \notin Opened
         /\ Opened' = IF x = "done" THEN Opened \cup {k} ELSE Opened
<1>1. calls \in [Sessions -> CallRecords]
  BY DEF PageTypes, CallRecords
<1>2. \A j \in Sessions : calls'[j].st = IF j = k THEN x ELSE calls[j].st
  BY <1>1
<1>3. calls' \in [Sessions -> CallRecords]
  BY <1>1 DEF CallRecords
<1> QED
  BY <1>2, <1>3 DEF Opened

(* A start in whatever state but adopted leaves the page's session alone.  *)
LEMMA StartKeeps ==
  ASSUME PInv, \/ \E t \in Titles : Navigate(t)
               \/ \E k \in Sessions : StartFails(k) \/ StartServed(k) \/ StartDiscarded(k)
  PROVE  PInv'
<1>1. ASSUME /\ UNCHANGED <<client, pump, elem, excused>>
             /\ page' \in PageRecords /\ calls' \in [Sessions -> CallRecords]
             /\ Opened \subseteq Opened'
             /\ srv' \in [Sessions -> SrvRecords]
             /\ \A k \in Sessions : srv'[k].method = "DIRECT" => srv'[k].start = 0
             /\ stopping' \subseteq Opened' /\ client.cur \notin stopping'
      PROVE  PageTypes'
  <2>1. ClientOver(client', Opened')
    BY <1>1 DEF PInv, PageTypes, ClientOver
  <2>2. PumpOver(pump', Opened')
    BY <1>1, PumpGrows DEF PInv, PageTypes
  <2>3. ElemOver(elem', Opened', client'.nonce)
    <3>1. client.nonce \in Nat /\ client.nonce <= client.nonce
      BY DEF PInv, PageTypes, ClientOver, ClientRecords
    <3> QED
      BY <1>1, <3>1, ElemGrows DEF PInv, PageTypes
  <2> QED
    BY <1>1, <2>1, <2>2, <2>3 DEF PInv, PageTypes, PageRecords, CallRecords
<1>2. SameLoad(pump, pump)
  BY DEF SameLoad
<1>3. ASSUME NEW t \in Titles, Navigate(t) PROVE PInv'
  <2>1. page' \in PageRecords
    <3>1. page' = [page EXCEPT !.title = t, !.moves = @ - 1] /\ page.moves > 0
      BY <1>3 DEF Navigate
    <3>2. page \in PageRecords
      BY DEF PInv, PageTypes, PageRecords
    <3>3. page.moves - 1 \in Nat
      BY <3>1, <3>2 DEF PageRecords
    <3> QED
      BY <3>1, <3>2, <3>3 DEF PageRecords
  <2>2. calls' \in [Sessions -> CallRecords] /\ Opened' = Opened
    <3>1. PICK k \in Sessions :
            /\ calls[k].st = "none"
            /\ calls' = [j \in Sessions |->
                 IF j = k THEN [st |-> "sent", title |-> t, cancelled |-> FALSE]
                          ELSE IF calls[j].st = "done" THEN calls[j] ELSE [calls[j] EXCEPT !.cancelled = TRUE]]
      BY <1>3 DEF Navigate
    <3>2. calls \in [Sessions -> CallRecords]
      BY DEF PInv, PageTypes, CallRecords
    <3>3. calls' \in [Sessions -> CallRecords]
      BY <3>1, <3>2 DEF CallRecords
    <3>4. \A j \in Sessions : calls'[j].st = "done" <=> calls[j].st = "done"
      BY <3>1, <3>2 DEF CallRecords
    <3> QED
      BY <3>3, <3>4 DEF Opened
  <2>3. PageTypes'
    BY <1>1, <1>3, <2>1, <2>2 DEF Navigate, PInv, PageTypes
  <2>4. CASE client.method # "DIRECT"
    BY <1>2, <1>3, <2>3, <2>4, ClockFrame DEF SameClock, Navigate, PInv, Src, Trusted
  <2>5. CASE client.method = "DIRECT"
    <3>1. ElementIsAnchored'
      <4>1. Trusted => client.offset = 0
        BY <2>5 DEF PInv, ClockInv, DirectFromZero
      <4>2. Src' = <<"DIRECT", t>> /\ (elem.src = <<"DIRECT", t>> => elem.base = 0)
        BY <1>3, <2>5 DEF Navigate, Src, PInv, PageTypes, ElemOver, PageRecords
      <4> QED
        BY <1>3, <4>1, <4>2 DEF Navigate, ElementIsAnchored, Trusted
    <3> QED
      BY <1>3, <2>3, <2>5, <3>1 DEF Navigate, PInv, ClockInv, DirectFromZero, OffsetIsAnchor,
        SeekIsAnchored, AnswerIsCurrent, InFlight, Trusted
  <2> QED
    BY <2>4, <2>5
<1>4. ASSUME NEW k \in Sessions, StartFails(k) PROVE PInv'
  <2>1. calls' \in [Sessions -> CallRecords] /\ Opened' = Opened
    BY <1>4, StartWrites DEF StartFails, PInv
  <2>2. PageTypes'
    BY <1>1, <1>4, <2>1 DEF StartFails, PInv, PageTypes, PageRecords
  <2> QED
    BY <1>2, <1>4, <2>2, ClockFrame DEF SameClock, StartFails, PInv, Src, Trusted
<1>5. ASSUME NEW k \in Sessions, StartServed(k) PROVE PInv'
  <2>1. calls' \in [Sessions -> CallRecords] /\ Opened' = Opened /\ k \notin Opened
    BY <1>5, StartWrites DEF StartServed, PInv
  <2>2. PICK m \in Methods : \E b \in StartsOf(m) :
          srv' = [srv EXCEPT ![k] = [live |-> TRUE, method |-> m, start |-> b, floor |-> 0]]
    BY <1>5 DEF StartServed
  <2>3. PICK a \in StartsOf(m) :
          srv' = [srv EXCEPT ![k] = [live |-> TRUE, method |-> m, start |-> a, floor |-> 0]]
    BY <2>2
  <2>4. a \in Anchors /\ (m = "DIRECT" => a = 0)
    BY WatchClientAssumption DEF WatchClientAssumption, StartsOf, Anchors
  <2>5. [live |-> TRUE, method |-> m, start |-> a, floor |-> 0] \in SrvRecords
    BY <2>4 DEF SrvRecords
  <2>6. /\ srv' \in [Sessions -> SrvRecords]
        /\ \A j \in Sessions : srv'[j].method = "DIRECT" => srv'[j].start = 0
    BY <2>3, <2>4, <2>5 DEF PInv, PageTypes
  <2>7. PageTypes'
    BY <1>1, <1>5, <2>1, <2>6 DEF StartServed, PInv, PageTypes, PageRecords
  <2>8. client.cur # 0 => srv'[client.cur] = srv[client.cur]
    BY <2>1, <2>3 DEF PInv, PageTypes, ClientOver, Opened
  <2> QED
    BY <1>2, <1>5, <2>7, <2>8, ClockFrame DEF SameClock, StartServed, PInv, Src, Trusted
<1>6. ASSUME NEW k \in Sessions, StartDiscarded(k) PROVE PInv'
  <2>1. calls' \in [Sessions -> CallRecords] /\ Opened' = Opened \cup {k} /\ k \notin Opened
    BY <1>6, StartWrites DEF StartDiscarded, PInv
  <2>2. client.cur # k
    BY <2>1 DEF PInv, PageTypes, ClientOver, Sessions
  <2>3. PageTypes'
    BY <1>1, <1>6, <2>1, <2>2 DEF StartDiscarded, PInv, PageTypes, PageRecords
  <2> QED
    BY <1>2, <1>6, <2>3, ClockFrame DEF SameClock, StartDiscarded, PInv, Src, Trusted
<1> QED
  BY <1>3, <1>4, <1>5, <1>6

(* The new session is nobody's yet: no request under way is about it, and   *)
(* the element has nothing of it open.                                     *)
LEMMA AdoptKeeps ==
  ASSUME PInv, NEW k \in Sessions, NEW gap \in BOOLEAN, StartAdopted(k, gap)
  PROVE  PInv'
<1> DEFINE m == srv[k].method
           a == srv[k].start
           o == IF m = "DIRECT" THEN client.offset ELSE a
           q == IF gap THEN [base |-> a, nonce |-> client.nonce] ELSE client.pending
<1>1. calls' \in [Sessions -> CallRecords] /\ Opened' = Opened \cup {k} /\ k \notin Opened
  BY StartWrites DEF StartAdopted, PInv
<1>2. m \in Methods /\ a \in Anchors /\ (m = "DIRECT" => a = 0) /\ k # 0
  BY DEF PInv, PageTypes, SrvRecords, Sessions
<1>3. client \in ClientRecords /\ client.pending.nonce <= client.nonce
  BY DEF PInv, PageTypes, ClientOver
<1>4. o \in Anchors /\ q \in Seeks /\ q.nonce <= client.nonce
  BY <1>2, <1>3 DEF ClientRecords, Seeks
<1>5. client' = [client EXCEPT !.cur = k, !.method = m, !.triedA = FALSE, !.triedV = FALSE,
                               !.offset = o, !.pending = q]
  BY DEF StartAdopted
<1> HIDE DEF o, q
<1>6. /\ client' \in ClientRecords
      /\ client'.cur = k /\ client'.method = m /\ client'.offset = o
      /\ client'.pending = q /\ client'.nonce = client.nonce
  BY <1>2, <1>3, <1>4, <1>5 DEF ClientRecords
<1>7. UNCHANGED <<page, srv, pump>>
  BY DEF StartAdopted
<1>8. ElemOver(elem', Opened', client'.nonce)
  <2>1. client.nonce \in Nat /\ client.nonce <= client.nonce
    BY <1>3 DEF ClientRecords
  <2> QED
    BY <1>1, <1>6, <2>1, NoElemOver, ElemGrows DEF StartAdopted, PInv, PageTypes
<1>9. PageTypes'
  <2>1. ClientOver(client', Opened')
    BY <1>1, <1>4, <1>6 DEF ClientOver
  <2>2. PumpOver(pump', Opened')
    BY <1>1, <1>7, PumpGrows DEF PInv, PageTypes
  <2>3. stopping' \subseteq Opened' /\ k \notin stopping'
    BY <1>1 DEF StartAdopted, PInv, PageTypes, ClientOver
  <2> QED
    BY <1>1, <1>2, <1>6, <1>7, <1>8, <2>1, <2>2, <2>3 DEF PInv, PageTypes, CallRecords
<1>10. ~InFlight(pump, client)'
  BY <1>1, <1>6, <1>7 DEF InFlight, Carries, PInv, PageTypes, PumpOver
<1>11. DirectFromZero'
  <2>1. ASSUME Trusted', m = "DIRECT" PROVE client.offset = 0
    BY <2>1 DEF StartAdopted, Trusted
  <2> QED
    BY <1>6, <2>1 DEF DirectFromZero, o
<1>12. OffsetIsAnchor'
  BY <1>6, <1>7 DEF OffsetIsAnchor, o
<1>13. ElementIsAnchored'
  <2>1. CASE m = "DIRECT"
    BY <1>6, <1>9, <1>11, <2>1 DEF ElementIsAnchored, DirectFromZero, Src, PageTypes, ElemOver
  <2>2. CASE m # "DIRECT" /\ elem'.open
    <3>1. elem' = elem /\ Src' = <<m, k, client.nonce>>
      BY <1>6, <2>2 DEF StartAdopted, NoElem, Src
    <3>2. elem.src \in Sources(Opened, client.nonce) /\ client.nonce \in Nat
      BY <1>3 DEF PInv, PageTypes, ElemOver, ClientRecords
    <3>3. elem.src # <<m, k, client.nonce>>
      BY <1>1, <1>2, <2>2, <3>2, SourceKnown DEF Methods
    <3> QED
      BY <3>1, <3>3 DEF ElementIsAnchored
  <2> QED
    BY <2>1, <2>2 DEF ElementIsAnchored
<1>14. SeekIsAnchored'
  <2>1. CASE gap
    BY <1>2, <1>6, <1>11, <2>1 DEF SeekIsAnchored, DirectFromZero, o, q
  <2>2. CASE ~gap /\ client.pending.nonce = client.nonce
    BY <2>2 DEF StartAdopted, SeekIsAnchored, Trusted
  <2>3. CASE ~gap /\ client.pending.nonce # client.nonce
    BY <1>6, <2>3 DEF SeekIsAnchored, q
  <2> QED
    BY <2>1, <2>2, <2>3
<1> QED
  BY <1>9, <1>10, <1>11, <1>12, <1>13, <1>14 DEF PInv, ClockInv, AnswerIsCurrent

LEMMA LeaveKeeps == ASSUME PInv, LeavePage PROVE PInv'
<1>1. /\ client' = NoClient /\ elem' = NoElem /\ UNCHANGED srv
      /\ pump' = [pump EXCEPT !.latest = NoReq, !.scrub = FALSE]
      /\ page' = [page EXCEPT !.open = FALSE]
      /\ calls' = [k \in Sessions |-> [calls[k] EXCEPT !.cancelled = TRUE]]
      /\ stopping' = IF client.cur = 0 THEN stopping ELSE stopping \cup {client.cur}
  BY DEF LeavePage
<1>2. calls' \in [Sessions -> CallRecords] /\ Opened' = Opened
  <2>1. calls \in [Sessions -> CallRecords]
    BY DEF PInv, PageTypes, CallRecords
  <2>2. calls' \in [Sessions -> CallRecords]
    BY <1>1, <2>1 DEF CallRecords
  <2>3. \A k \in Sessions : calls'[k].st = calls[k].st
    BY <1>1, <2>1 DEF CallRecords
  <2> QED
    BY <2>2, <2>3 DEF Opened
<1>3. /\ ClientOver(NoClient, Opened) /\ NoClient.cur = 0 /\ NoClient.offset = 0
      /\ NoClient.nonce \in Nat /\ 0 \notin Sessions
  <2>1. 0 \in Anchors /\ "DIRECT" \in Methods
    BY WatchClientAssumption DEF WatchClientAssumption, Anchors, Methods
  <2> QED
    BY <2>1 DEF ClientOver, ClientRecords, NoClient, NoSeek, Seeks, Unset, Sessions
<1>4. PumpOver(pump', Opened) /\ ~pump'.scrub
  BY <1>1 DEF PInv, PageTypes, PumpOver, PumpRecords
<1>5. ElemOver(NoElem, Opened, NoClient.nonce) /\ ~NoElem.open
  BY <1>3, NoElemOver DEF NoElem
<1>6. page' \in PageRecords
  BY <1>1 DEF PInv, PageTypes, PageRecords
<1>7. stopping' \subseteq Opened /\ 0 \notin stopping'
  BY <1>1, <1>3 DEF PInv, PageTypes, ClientOver, Opened
<1>8. PageTypes'
  BY <1>1, <1>2, <1>3, <1>4, <1>5, <1>6, <1>7 DEF PInv, PageTypes, PageRecords, CallRecords
<1>9. ~InFlight(pump, client)'
  BY <1>1, <1>3, <1>4 DEF InFlight, Carries, PumpOver, Opened
<1> QED
  BY <1>1, <1>3, <1>5, <1>8, <1>9 DEF PInv, ClockInv, DirectFromZero, OffsetIsAnchor,
    ElementIsAnchored, SeekIsAnchored, AnswerIsCurrent

LEMMA StopKeeps == ASSUME PInv, NEW k \in Sessions, StopLands(k) PROVE PInv'
<1>1. /\ k \in stopping /\ stopping' = stopping \ {k}
      /\ srv' = [srv EXCEPT ![k] = Closed]
      /\ UNCHANGED <<page, calls, client, pump, elem, excused>>
  BY DEF StopLands
<1>2. Opened' = Opened
  BY <1>1 DEF Opened
<1>3. Closed \in SrvRecords /\ Closed.start = 0
  BY WatchClientAssumption DEF WatchClientAssumption, Anchors, Methods, Closed, SrvRecords
<1>4. /\ srv' \in [Sessions -> SrvRecords]
      /\ \A j \in Sessions : srv'[j].method = "DIRECT" => srv'[j].start = 0
  BY <1>1, <1>3 DEF PInv, PageTypes
<1>5. PageTypes'
  BY <1>1, <1>2, <1>4 DEF PInv, PageTypes
<1>6. client.cur # 0 => srv'[client.cur] = srv[client.cur]
  BY <1>1 DEF PInv, PageTypes, ClientOver, Opened
<1> QED
  BY <1>1, <1>5, <1>6, ClockFrame DEF SameClock, PInv, Src, Trusted, SameLoad

-----------------------------------------------------------------------------
(* What the viewer and the element ask for. *)

LEMMA ReqOver ==
  ASSUME PageTypes, client.cur # 0, NEW want \in Methods,
         NEW kind \in {"seek", "audio", "quality", "audioDecode", "videoDecode"}
  PROVE  Req(kind, want) \in Request /\ Req(kind, want).sess = client.cur /\ client.cur \in Opened
  BY WatchClientAssumption DEF WatchClientAssumption, Req, Request, PageTypes, ClientOver, ClientRecords, Sessions

LEMMA OverrunTrusts == excused' = Overrun => (Trusted' <=> Trusted)
  BY DEF Overrun, Trusted

LEMMA AskMoves == MayAsk /\ Asked /\ PageTypes => page' \in PageRecords /\ page'.title = page.title /\ client.cur # 0
<1> SUFFICES ASSUME MayAsk, Asked, PageTypes PROVE page' \in PageRecords /\ page'.title = page.title /\ client.cur # 0
  OBVIOUS
<1>1. page \in PageRecords
  BY DEF PageTypes, PageRecords
<1>2. page.gestures - 1 \in Nat
  BY <1>1 DEF MayAsk, PageRecords
<1> QED
  BY <1>1, <1>2 DEF MayAsk, Asked, PageRecords

LEMMA ScrubOver ==
  ASSUME NEW S, NEW p, PumpOver(p, S), NEW b \in BOOLEAN
  PROVE  LET q == [p EXCEPT !.scrub = b] IN PumpOver(q, S) /\ SameLoad(p, q) /\ q.scrub = b
<1> DEFINE q == [p EXCEPT !.scrub = b]
<1>1. p \in PumpRecords
  BY DEF PumpOver
<1>2. /\ q \in PumpRecords /\ q.latest = p.latest /\ q.busy = p.busy
      /\ q.phase = p.phase /\ q.ans = p.ans /\ q.scrub = b
  BY <1>1 DEF PumpRecords
<1> HIDE DEF q
<1>3. PumpOver(q, S) /\ SameLoad(p, q)
  BY <1>2 DEF PumpOver, SameLoad, Carries
<1> QED
  BY <1>2, <1>3 DEF q

LEMMA AskFrame ==
  ASSUME PInv, UNCHANGED <<calls, srv, client, elem, stopping>>,
         page' \in PageRecords, page'.title = page.title,
         PumpOver(pump', Opened), SameLoad(pump, pump'), pump'.scrub => client.cur # 0,
         Trusted' => Trusted
  PROVE  PInv'
<1>1. Opened' = Opened
  BY DEF Opened
<1>2. PageTypes'
  BY <1>1 DEF PInv, PageTypes, PageRecords
<1> QED
  BY <1>2, ClockFrame DEF PInv, Src, SameClock

LEMMA AskKeeps ==
  ASSUME PInv, Scrub \/ ScrubFires \/ SwitchAudio \/ \E want \in Methods : SwitchQuality(want)
  PROVE  PInv'
<1>1. /\ PumpOver(pump, Opened)
      /\ pump.scrub => client.cur # 0
      /\ page \in PageRecords /\ "DIRECT" \in Methods
      /\ Opened \in SUBSET Sessions /\ client \in ClientRecords
      /\ client.cur # 0 => client.cur \in Opened
  BY DEF PInv, PageTypes, PageRecords, Methods, Opened, ClientOver
<1>2. CASE Scrub
  <2>1. /\ page' \in PageRecords /\ page'.title = page.title /\ client.cur # 0
    BY <1>2, AskMoves DEF Scrub, PInv
  <2>2. PumpOver(pump', Opened) /\ SameLoad(pump, pump')
    <3>1. pump' = [pump EXCEPT !.scrub = TRUE]
      BY <1>2 DEF Scrub
    <3> QED
      BY <1>1, <3>1, ScrubOver, Zenon
  <2> QED
    BY <1>2, <2>1, <2>2, AskFrame DEF Scrub, Trusted
<1>3. CASE ScrubFires
  <2> DEFINE p == [pump EXCEPT !.scrub = FALSE]
  <2>1. client.cur # 0
    BY <1>1, <1>3 DEF ScrubFires, PInv, PageTypes
  <2>2. PumpOver(p, Opened) /\ SameLoad(pump, p) /\ ~p.scrub
    BY <1>1, ScrubOver, Zenon
  <2>3. pump' = Commit(p, client, Req("seek", "DIRECT")) /\ UNCHANGED <<page, calls, srv, client, elem, stopping>>
    BY <1>3 DEF ScrubFires
  <2> HIDE DEF p
  <2>4. PumpOver(pump', Opened) /\ SameLoad(p, pump')
    BY <1>1, <2>1, <2>2, <2>3, CommitOver, ReqOver DEF PInv
  <2>5. SameLoad(pump, pump')
    BY <2>2, <2>4 DEF SameLoad
  <2>6. Trusted' => Trusted
    BY <1>3, OverrunTrusts DEF ScrubFires
  <2> QED
    BY <1>1, <2>1, <2>3, <2>4, <2>5, <2>6, AskFrame
<1>4. ASSUME NEW kind \in {"audio", "quality"}, NEW want \in Methods,
             MayAsk, Asked, pump' = Commit(pump, client, Req(kind, want)), excused' = Overrun,
             UNCHANGED <<calls, srv, client, elem, card, fault, stopping>>
      PROVE  PInv'
  <2>1. page' \in PageRecords /\ page'.title = page.title /\ client.cur # 0
    BY <1>4, AskMoves DEF PInv
  <2>2. Req(kind, want) \in Request /\ Req(kind, want).sess \in Opened
    <3>1. kind \in {"seek", "audio", "quality", "audioDecode", "videoDecode"}
      OBVIOUS
    <3> QED
      BY <2>1, <3>1, ReqOver DEF PInv
  <2>3. PumpOver(pump', Opened) /\ SameLoad(pump, pump')
    <3>1. /\ PumpOver(Commit(pump, client, Req(kind, want)), Opened)
          /\ SameLoad(pump, Commit(pump, client, Req(kind, want)))
      BY <1>1, <2>2, CommitOver
    <3> QED
      BY <1>4, <3>1
  <2> QED
    BY <1>1, <1>4, <2>1, <2>3, OverrunTrusts, AskFrame DEF PumpOver
<1> QED
  BY <1>1, <1>2, <1>3, <1>4 DEF SwitchAudio, SwitchQuality

(* The element or the card changes the client. *)
LEMMA ClientFrame ==
  ASSUME PInv, UNCHANGED <<calls, srv, stopping>>, page' \in PageRecords, page'.title = page.title,
         client' \in ClientRecords, client'.cur = client.cur, client.cur # 0,
         client.nonce <= client'.nonce, client'.pending.nonce <= client'.nonce,
         PumpOver(pump', Opened), ElemOver(elem', Opened, client'.nonce)
  PROVE  PageTypes'
<1>1. Opened' = Opened
  BY DEF Opened
<1> QED
  BY <1>1 DEF PInv, PageTypes, PageRecords, ClientOver

LEMMA RetryKeeps == ASSUME PInv, Retry PROVE PInv'
<1>1. /\ page' \in PageRecords /\ page'.title = page.title /\ client.cur # 0
  BY AskMoves DEF Retry, PInv
<1>2. /\ client \in ClientRecords /\ client.nonce \in Nat /\ client.pending.nonce <= client.nonce
      /\ client.cur \in Opened /\ Opened \in SUBSET Sessions
      /\ PumpOver(pump, Opened) /\ "DIRECT" \in Methods /\ 0 \in Anchors
      /\ client.pending.nonce \in Int /\ ElemOver(elem, Opened, client.nonce)
  BY <1>1, WatchClientAssumption
    DEF WatchClientAssumption, Anchors, PInv, PageTypes, ClientOver, ClientRecords, Opened, Methods, Seeks, Unset
<1>3. UNCHANGED <<calls, srv, stopping>> /\ (Trusted' => Trusted)
  BY OverrunTrusts DEF Retry
<1>4. CASE client.method = "DIRECT"
  <2>1. /\ client' = [client EXCEPT !.triedA = FALSE, !.pending = [base |-> 0, nonce |-> client.nonce]]
        /\ elem' = NoElem /\ UNCHANGED pump
    BY <1>4 DEF Retry
  <2>2. [base |-> 0, nonce |-> client.nonce] \in Seeks
    BY <1>2 DEF Seeks
  <2>3. /\ client' \in ClientRecords /\ client'.cur = client.cur /\ client'.method = client.method
        /\ client'.nonce = client.nonce /\ client'.offset = client.offset
        /\ client'.pending.base = 0 /\ client'.pending.nonce = client.nonce
    BY <1>2, <2>1, <2>2 DEF ClientRecords
  <2>4. PageTypes'
    BY <1>1, <1>2, <1>3, <2>1, <2>3, ClientFrame, NoElemOver
  <2> QED
    BY <1>3, <1>4, <2>1, <2>3, <2>4 DEF PInv, ClockInv, DirectFromZero, OffsetIsAnchor,
      ElementIsAnchored, SeekIsAnchored, AnswerIsCurrent, InFlight, NoElem
<1>5. CASE client.method # "DIRECT"
  <2>1. /\ client' = [client EXCEPT !.nonce = @ + 1,
                           !.triedV = IF client.method = "REMUX" THEN FALSE ELSE @]
        /\ pump' = Commit(pump, client', Req("seek", "DIRECT"))
        /\ UNCHANGED elem
    BY <1>5 DEF Retry
  <2> DEFINE v == IF client.method = "REMUX" THEN FALSE ELSE client.triedV
             n == client.nonce + 1
  <2>2. client.triedV \in BOOLEAN /\ n \in Nat
    BY <1>2 DEF ClientRecords
  <2>3. v \in BOOLEAN
    BY <2>2, Zenon
  <2>4. client' = [client EXCEPT !.nonce = n, !.triedV = v]
    BY <2>1, Zenon
  <2> HIDE DEF v
  <2>5. /\ client' \in ClientRecords /\ client'.cur = client.cur /\ client'.method = client.method
        /\ client'.nonce = client.nonce + 1 /\ client'.offset = client.offset
        /\ client'.pending = client.pending
    BY <1>2, <2>2, <2>3, <2>4 DEF ClientRecords
  <2>6. PumpOver(pump', Opened) /\ SameLoad(pump, pump')
    BY <1>1, <1>2, <2>1, <2>5, CommitOver, ReqOver DEF PInv
  <2>7. PageTypes'
    <3>1. ElemOver(elem', Opened, client'.nonce)
      BY <1>2, <2>1, <2>5, ElemGrows
    <3> QED
      BY <1>1, <1>2, <1>3, <2>5, <2>6, <3>1, ClientFrame
  <2>8. elem'.src # Src'
    <3>1. Src' = <<client.method, client.cur, client.nonce + 1>> /\ client.method \in {"REMUX", "TRANSCODE"}
      BY <1>2, <1>5, <2>5 DEF Src, ClientRecords, Methods
    <3>2. elem.src \in Sources(Opened, client.nonce)
      BY <1>2 DEF ElemOver
    <3> QED
      BY <1>2, <2>1, <3>1, <3>2, SourceKnown
  <2>9. InFlight(pump, client)' <=> InFlight(pump, client)
    BY <2>5, <2>6 DEF SameLoad, InFlight
  <2>10. InFlight(pump, client) => pump'.ans = pump.ans
    BY <2>6 DEF SameLoad, InFlight
  <2> QED
    BY <1>2, <1>3, <1>5, <2>5, <2>7, <2>8, <2>9, <2>10 DEF PInv, ClockInv, DirectFromZero, OffsetIsAnchor,
      ElementIsAnchored, SeekIsAnchored, AnswerIsCurrent
<1> QED
  BY <1>4, <1>5

LEMMA FallBackMoves ==
  ASSUME PInv, FallBack, client.cur # 0
  PROVE  /\ client' \in ClientRecords /\ SameClock(client, client')
         /\ PumpOver(pump', Opened) /\ SameLoad(pump, pump')
<1>1. /\ client \in ClientRecords /\ client.cur \in Opened /\ Opened \in SUBSET Sessions
      /\ PumpOver(pump, Opened) /\ "DIRECT" \in Methods
  BY DEF PInv, PageTypes, ClientOver, Opened, Methods
<1>2. client' = [client EXCEPT !.triedA = @ \/ AudioTier, !.triedV = @ \/ VideoTier]
  BY DEF FallBack
<1>3. AudioTier \in BOOLEAN /\ VideoTier \in BOOLEAN
  BY DEF AudioTier, VideoTier
<1>4. client' \in ClientRecords /\ SameClock(client, client')
  BY <1>1, <1>2, <1>3 DEF ClientRecords, SameClock
<1>5. PICK kind \in {"audioDecode", "videoDecode"} : pump' = Commit(pump, client, Req(kind, "DIRECT"))
  BY DEF FallBack
<1>6. PumpOver(pump', Opened) /\ SameLoad(pump, pump')
  BY <1>1, <1>5, CommitOver, ReqOver DEF PInv
<1> QED
  BY <1>4, <1>6

-----------------------------------------------------------------------------
(* The answers. *)

LEMMA ServeFrame ==
  ASSUME PInv, pump.phase = "sent", UNCHANGED <<page, calls, client, elem, stopping, excused>>,
         NEW a \in Answer, pump' = [pump EXCEPT !.phase = "answered", !.ans = a],
         srv' \in [Sessions -> SrvRecords],
         \A k \in Sessions : srv'[k].method = "DIRECT" => srv'[k].start = 0,
         a.restarted /\ pump.busy.sess = client.cur => a.start = srv'[client.cur].start,
         ~(a.restarted /\ pump.busy.sess = client.cur) /\ client.cur # 0
           => srv'[client.cur].start = srv[client.cur].start
  PROVE  PInv'
<1>1. Opened' = Opened
  BY DEF Opened
<1>2. pump \in PumpRecords
  BY DEF PInv, PageTypes, PumpOver
<1>3. /\ pump' \in PumpRecords /\ pump'.latest = pump.latest /\ pump'.busy = pump.busy
      /\ pump'.phase = "answered" /\ pump'.ans = a /\ pump'.scrub = pump.scrub
  BY <1>2 DEF PumpRecords
<1>4. PumpOver(pump', Opened)
  BY <1>3 DEF PInv, PageTypes, PumpOver
<1>5. PageTypes'
  BY <1>1, <1>3, <1>4 DEF PInv, PageTypes
<1>6. InFlight(pump, client)' <=> a.restarted /\ pump.busy.sess = client.cur
  BY <1>3 DEF InFlight, Carries
<1>7. ~InFlight(pump, client)
  BY DEF InFlight, Carries
<1>8. Src' = Src
  BY DEF Src
<1> QED
  BY <1>3, <1>5, <1>6, <1>7, <1>8 DEF PInv, ClockInv, DirectFromZero, OffsetIsAnchor,
    ElementIsAnchored, SeekIsAnchored, AnswerIsCurrent, Trusted

LEMMA ServeKeeps == ASSUME PInv, Serve PROVE PInv'
<1> DEFINE r == pump.busy
           k == r.sess
           s == srv[k]
<1>1. pump.phase = "sent" /\ UNCHANGED <<page, calls, client, elem, stopping, excused>>
  BY DEF Serve
<1>2. r \in Request /\ k \in Sessions
  BY <1>1 DEF PInv, PageTypes, PumpOver, PumpRecords, Opened
<1>3. /\ srv \in [Sessions -> SrvRecords]
      /\ \A j \in Sessions : srv[j].method = "DIRECT" => srv[j].start = 0
  BY DEF PInv, PageTypes
<1>4. s \in SrvRecords
  BY <1>2, <1>3
<1>5. CASE \/ pump' = [pump EXCEPT !.phase = "answered", !.ans = Gone(r)] /\ UNCHANGED srv
           \/ pump' = [pump EXCEPT !.phase = "answered", !.ans = [NoAns EXCEPT !.retry = TRUE]] /\ UNCHANGED srv
  <2>1. PICK a \in {Gone(r), [NoAns EXCEPT !.retry = TRUE]} :
          pump' = [pump EXCEPT !.phase = "answered", !.ans = a] /\ UNCHANGED srv
    BY <1>5
  <2>2. a \in Answer /\ ~a.restarted
    BY QuietAnswers DEF Gone
  <2> QED
    BY <1>1, <1>3, <2>1, <2>2, ServeFrame
<1>6. CASE /\ pump' = [pump EXCEPT !.phase = "answered",
                         !.ans = [ok |-> TRUE, retry |-> FALSE, restarted |-> Reported(r),
                                  auth |-> Reported(r), method |-> s.method, start |-> s.start]]
           /\ UNCHANGED srv
  <2> DEFINE b == Reported(r)
             a == [ok |-> TRUE, retry |-> FALSE, restarted |-> b, auth |-> b,
                   method |-> s.method, start |-> s.start]
  <2>1. b \in BOOLEAN
    BY DEF Reported
  <2>2. pump' = [pump EXCEPT !.phase = "answered", !.ans = a]
    BY <1>6
  <2> HIDE DEF b
  <2>3. a \in Answer /\ a.start = srv[k].start
    BY <1>4, <2>1 DEF Answer, SrvRecords
  <2> HIDE DEF a
  <2> QED
    BY <1>1, <1>3, <1>6, <2>2, <2>3, ServeFrame
<1>7. ASSUME NEW m \in RestartMethods(r, s), NEW at \in StartsOf(m), NEW floor \in 0..2,
             srv' = [srv EXCEPT ![k].method = m, ![k].start = at, ![k].floor = floor],
             pump' = [pump EXCEPT !.phase = "answered",
                        !.ans = [ok |-> TRUE, retry |-> FALSE, restarted |-> TRUE,
                                 auth |-> Reported(r), method |-> m, start |-> at]]
      PROVE  PInv'
  <2> DEFINE b == Reported(r)
             a == [ok |-> TRUE, retry |-> FALSE, restarted |-> TRUE, auth |-> b,
                   method |-> m, start |-> at]
  <2>1. b \in BOOLEAN
    BY DEF Reported
  <2>2. m \in Methods /\ at \in Anchors /\ (m = "DIRECT" => at = 0)
    BY <1>4, WatchClientAssumption DEF WatchClientAssumption, RestartMethods, StartsOf, Anchors, Methods, SrvRecords
  <2>3. pump' = [pump EXCEPT !.phase = "answered", !.ans = a]
    BY <1>7
  <2> HIDE DEF b
  <2>4. a \in Answer /\ a.start = at /\ a.restarted
    BY <2>1, <2>2 DEF Answer
  <2> HIDE DEF a
  <2>5. srv' = [srv EXCEPT ![k] = [s EXCEPT !.method = m, !.start = at, !.floor = floor]]
    BY <1>2, <1>3, <1>7
  <2>6. /\ [s EXCEPT !.method = m, !.start = at, !.floor = floor] \in SrvRecords
        /\ [s EXCEPT !.method = m, !.start = at, !.floor = floor].method = m
        /\ [s EXCEPT !.method = m, !.start = at, !.floor = floor].start = at
    BY <1>4, <2>2 DEF SrvRecords
  <2>7. /\ srv' \in [Sessions -> SrvRecords]
        /\ \A j \in Sessions : srv'[j].method = "DIRECT" => srv'[j].start = 0
        /\ srv'[k].start = at
        /\ \A j \in Sessions \ {k} : srv'[j] = srv[j]
    BY <1>2, <1>3, <2>2, <2>5, <2>6
  <2>8. client.cur # 0 => client.cur \in Sessions
    BY DEF PInv, PageTypes, ClientOver, Opened
  <2> QED
    BY <1>1, <1>2, <2>3, <2>4, <2>7, <2>8, ServeFrame
<1>8. ASSUME NEW m \in RestartMethods(r, s), NEW at \in StartsOf(m)
      PROVE  (CASE r.kind = "audioDecode" -> IF s.floor < 1 THEN 1 ELSE s.floor
                [] r.kind = "videoDecode" -> 2
                [] OTHER -> s.floor) \in 0..2
  BY <1>4 DEF SrvRecords
<1> QED
  BY <1>5, <1>6, <1>7, <1>8 DEF Serve

(* What a heard answer makes of the client. *)
LEMMA AppliedRestart ==
  ASSUME NEW c \in ClientRecords, NEW r \in Request, NEW a \in Answer, a.restarted
  PROVE  LET d == Applied(r, a, c) IN
         /\ d \in ClientRecords /\ d.cur = c.cur /\ d.nonce = c.nonce + 1
         /\ d.offset = IF d.method = "DIRECT" THEN 0 ELSE a.start
         /\ d.pending.base = d.offset /\ d.pending.nonce = d.nonce
<1>1. ASSUME NEW b \in ClientRecords, b.cur = c.cur, b.nonce = c.nonce
      PROVE  LET d == Rebase(Bumped(b), b.method, a.start) IN
             /\ d \in ClientRecords /\ d.cur = c.cur /\ d.nonce = c.nonce + 1
             /\ d.offset = IF d.method = "DIRECT" THEN 0 ELSE a.start
             /\ d.pending.base = d.offset /\ d.pending.nonce = d.nonce
  <2> DEFINE o == IF b.method = "DIRECT" THEN 0 ELSE a.start
             n == b.nonce + 1
             q == [base |-> o, nonce |-> n]
             d == [b EXCEPT !.nonce = n, !.offset = o, !.pending = q]
  <2>1. o \in Anchors /\ n \in Nat
    BY WatchClientAssumption DEF WatchClientAssumption, Anchors, Answer, ClientRecords
  <2>2. q \in Seeks
    BY <2>1 DEF Seeks
  <2>3. Rebase(Bumped(b), b.method, a.start) = d
    BY DEF Rebase, Bumped, ClientRecords
  <2> HIDE DEF o, n
  <2>4. /\ d \in ClientRecords /\ d.cur = b.cur /\ d.nonce = n /\ d.offset = o
        /\ d.method = b.method /\ d.pending = q
    BY <2>1, <2>2 DEF ClientRecords
  <2> QED
    BY <1>1, <2>3, <2>4 DEF o, n
<1>2. CASE r.kind \in {"seek", "audio"}
  BY <1>1, <1>2 DEF Applied, Bumped
<1>3. CASE r.kind \notin {"seek", "audio"}
  <2> DEFINE b == [c EXCEPT !.method = a.method]
  <2>1. b \in ClientRecords /\ b.cur = c.cur /\ b.nonce = c.nonce /\ b.method = a.method
    BY DEF ClientRecords, Answer
  <2>2. Applied(r, a, c) = Rebase(Bumped(b), a.method, a.start)
    BY <1>3 DEF Applied
  <2> HIDE DEF b
  <2> QED
    BY <1>1, <2>1, <2>2
<1> QED
  BY <1>2, <1>3

LEMMA AppliedQuiet ==
  ASSUME NEW c \in ClientRecords, NEW r \in Request, NEW a \in Answer, ~a.restarted
  PROVE  LET d == Applied(r, a, c) IN
         \/ d = c
         \/ /\ d \in ClientRecords /\ d.cur = c.cur /\ d.method = c.method /\ c.method # "DIRECT"
            /\ d.offset = c.offset /\ d.nonce = c.nonce + 1
            /\ d.pending.base = d.offset /\ d.pending.nonce = d.nonce
<1>1. CASE r.kind = "seek" /\ c.method = "REMUX"
  <2> DEFINE n == c.nonce + 1
             q == [base |-> c.offset, nonce |-> n]
             d == [c EXCEPT !.nonce = n, !.pending = q]
  <2>1. q \in Seeks /\ n \in Nat
    BY DEF ClientRecords, Seeks
  <2>2. Applied(r, a, c) = d
    <3>1. Applied(r, a, c) = [Bumped(c) EXCEPT !.pending = [base |-> c.offset, nonce |-> Bumped(c).nonce]]
      BY <1>1 DEF Applied
    <3>2. Bumped(c) = [c EXCEPT !.nonce = n] /\ Bumped(c).nonce = n
      BY DEF Bumped, ClientRecords
    <3> QED
      BY <3>1, <3>2
  <2> HIDE DEF n
  <2>3. /\ d \in ClientRecords /\ d.cur = c.cur /\ d.method = c.method
        /\ d.offset = c.offset /\ d.nonce = n /\ d.pending = q
    BY <2>1 DEF ClientRecords
  <2> QED
    BY <1>1, <2>2, <2>3 DEF n
<1>2. CASE ~(r.kind = "seek" /\ c.method = "REMUX")
  BY <1>2 DEF Applied
<1> QED
  BY <1>1, <1>2

(* Between answers the pump is idle, or carries none. *)
LEMMA ClockIdle ==
  ASSUME PInv, ~InFlight(pump, client), ~InFlight(pump, client)', UNCHANGED <<page, srv, client, elem>>,
         Trusted' => Trusted
  PROVE  ClockInv'
<1>1. Src' = Src
  BY DEF Src
<1> QED
  BY <1>1 DEF PInv, ClockInv, DirectFromZero, OffsetIsAnchor, ElementIsAnchored, SeekIsAnchored,
    AnswerIsCurrent

LEMMA FreeOver ==
  ASSUME NEW S, NEW p, PumpOver(p, S)
  PROVE  LET free == [p EXCEPT !.busy = NoReq, !.phase = "idle", !.ans = NoAns] IN
         /\ PumpOver(free, S) /\ ~Carries(free) /\ free.scrub = p.scrub
<1> DEFINE free == [p EXCEPT !.busy = NoReq, !.phase = "idle", !.ans = NoAns]
<1>1. p \in PumpRecords
  BY DEF PumpOver
<1>2. /\ free \in PumpRecords /\ free.latest = p.latest /\ free.busy = NoReq /\ free.phase = "idle"
      /\ free.scrub = p.scrub
  BY <1>1, QuietAnswers DEF PumpRecords
<1> HIDE DEF free
<1>3. PumpOver(free, S) /\ ~Carries(free)
  BY <1>2 DEF PumpOver, Carries
<1> QED
  BY <1>2, <1>3 DEF free

LEMMA ParkedOver ==
  ASSUME NEW S, NEW p, PumpOver(p, S), ~Carries(p), NEW r \in Request, r.sess \in S, r.tries < MaxTries
  PROVE  PumpOver(Parked(p, r), S) /\ ~Carries(Parked(p, r)) /\ Parked(p, r).scrub = p.scrub
<1> DEFINE b == [r EXCEPT !.tries = @ + 1]
           q == [p EXCEPT !.latest = b, !.timer = TRUE]
<1>1. b \in Request /\ b.sess \in S
  <2>1. r.tries + 1 \in 0..MaxTries
    BY WatchClientAssumption DEF WatchClientAssumption, Request
  <2> QED
    BY <2>1 DEF Request
<1>2. b # NoReq /\ p \in PumpRecords
  BY <1>1, RequestsAreSome DEF PumpOver
<1>3. Parked(p, r) = q
  BY DEF Parked
<1> HIDE DEF b
<1>4. /\ q \in PumpRecords /\ q.latest = b /\ q.busy = p.busy /\ q.phase = p.phase
      /\ q.ans = p.ans /\ q.scrub = p.scrub
  BY <1>1, <1>2 DEF PumpRecords
<1> HIDE DEF q
<1> QED
  BY <1>1, <1>2, <1>3, <1>4 DEF PumpOver, Carries

LEMMA ResumeKeeps == ASSUME PInv, Resume PROVE PInv'
<1> DEFINE r == pump.busy
           a == Heard(r)
           newer == pump.latest # NoReq
           apply == a.ok /\ (~newer \/ a.auth) /\ client.cur # 0
           again == ~newer /\ a.retry /\ r.tries < MaxTries
           c == IF apply THEN Applied(r, a, client) ELSE client
           free == [pump EXCEPT !.busy = NoReq, !.phase = "idle", !.ans = NoAns]
           d == [c EXCEPT !.method = client.method]
<1>1. /\ pump.phase = "answered" /\ client' = c
      /\ pump' = IF again THEN Parked(free, r) ELSE IF newer THEN Sent(free, d, pump.latest) ELSE free
      /\ elem' = IF apply /\ Remounts(r, a, client) THEN NoElem ELSE elem
      /\ excused' = IF apply /\ a.restarted THEN excused \cap {"report"}
                    ELSE excused \cup Dropped(r, a.restarted)
      /\ UNCHANGED <<page, calls, srv, stopping>>
  BY DEF Resume
<1>2. /\ r \in Request /\ r.sess \in Opened /\ pump \in PumpRecords /\ pump.ans \in Answer
      /\ PumpOver(pump, Opened) /\ Opened \in SUBSET Sessions
      /\ client \in ClientRecords /\ client.pending.nonce <= client.nonce
  BY <1>1 DEF PInv, PageTypes, PumpOver, PumpRecords, Opened, ClientOver
<1>3. /\ client.cur # 0 => client.cur \in Opened
      /\ newer => pump.latest \in Request /\ pump.latest.sess \in Opened
  BY <1>2 DEF PInv, PageTypes, PumpOver, PumpRecords, ClientOver
<1>4. a \in Answer /\ (a.restarted => InFlight(pump, client)) /\ (InFlight(pump, client) => a.restarted)
  <2>1. CASE client.cur = r.sess
    BY <1>1, <1>2, <2>1 DEF Heard, InFlight, Carries
  <2>2. CASE client.cur # r.sess
    BY <1>2, <2>2, QuietAnswers DEF Heard, InFlight
  <2> QED
    BY <2>1, <2>2
<1> HIDE DEF a
<1>5. \/ c = client
      \/ /\ apply /\ c \in ClientRecords /\ c.cur = client.cur /\ c.nonce = client.nonce + 1
         /\ c.pending.base = c.offset /\ c.pending.nonce = c.nonce
         /\ \/ a.restarted /\ c.offset = IF c.method = "DIRECT" THEN 0 ELSE a.start
            \/ ~a.restarted /\ c.method = client.method /\ c.method # "DIRECT" /\ c.offset = client.offset
  BY <1>2, <1>4, AppliedRestart, AppliedQuiet
<1>6. a.restarted /\ apply => c # client /\ c.nonce = client.nonce + 1
  BY <1>2, <1>4, AppliedRestart DEF ClientRecords
<1> HIDE DEF c, apply
<1>7. /\ c \in ClientRecords /\ c.cur = client.cur /\ client.nonce <= c.nonce
      /\ c.pending.nonce <= c.nonce /\ c.nonce \in Nat
  BY <1>2, <1>5 DEF ClientRecords, Seeks
<1>8. PumpOver(pump', Opened) /\ ~Carries(pump') /\ pump'.scrub = pump.scrub
  <2>1. PumpOver(free, Opened) /\ ~Carries(free) /\ free.scrub = pump.scrub
    BY <1>2, FreeOver
  <2>2. d \in ClientRecords /\ d.cur = client.cur
    BY <1>2, <1>7 DEF ClientRecords
  <2> HIDE DEF free, d
  <2>3. CASE again
    BY <1>1, <1>2, <2>1, <2>3, ParkedOver
  <2>4. CASE ~again /\ newer
    BY <1>1, <1>2, <1>3, <2>1, <2>2, <2>4, SentOver DEF PumpOver
  <2>5. CASE ~again /\ ~newer
    BY <1>1, <2>1, <2>5
  <2> QED
    BY <2>3, <2>4, <2>5
<1>9. ElemOver(elem', Opened, c.nonce) /\ (elem'.open => elem' = elem)
  <2>1. ElemOver(elem, Opened, c.nonce)
    BY <1>2, <1>7, ElemGrows DEF PInv, PageTypes, ClientRecords
  <2> QED
    BY <1>1, <1>7, <2>1, NoElemOver DEF NoElem
<1>10. PageTypes'
  <2>1. Opened' = Opened
    BY <1>1 DEF Opened
  <2>2. ClientOver(client', Opened)
    BY <1>1, <1>3, <1>7 DEF ClientOver
  <2> QED
    BY <1>1, <1>7, <1>8, <1>9, <2>1, <2>2 DEF PInv, PageTypes
<1>11. ~InFlight(pump, client)'
  BY <1>8 DEF InFlight
(* A new nonce names a stream the element has not opened. *)
<1>12. ASSUME c.nonce = client.nonce + 1, c.method # "DIRECT" PROVE elem.src # Src'
  <2>1. Src' = <<c.method, c.cur, c.nonce>> /\ c.method \in {"REMUX", "TRANSCODE"}
    BY <1>1, <1>7, <1>12 DEF Src, ClientRecords, Methods
  <2>2. elem.src \in Sources(Opened, client.nonce) /\ client.nonce \in Nat
    BY <1>2 DEF PInv, PageTypes, ElemOver, ClientRecords
  <2> QED
    BY <1>12, <2>1, <2>2, SourceKnown
<1>13. ASSUME elem.src = Src', c.method = "DIRECT" PROVE elem.base = 0
  BY <1>1, <1>13 DEF Src, PInv, PageTypes, ElemOver
<1>14. CASE apply /\ a.restarted
  <2>1. /\ c.offset = IF c.method = "DIRECT" THEN 0 ELSE a.start
        /\ c.pending.base = c.offset /\ c.nonce = client.nonce + 1
    BY <1>5, <1>6, <1>14
  <2>2. a.start = srv[client.cur].start
    BY <1>2, <1>4, <1>14 DEF PInv, ClockInv, AnswerIsCurrent, InFlight, Heard, a
  <2> QED
    BY <1>1, <1>7, <1>9, <1>10, <1>11, <1>12, <1>13, <2>1, <2>2 DEF PInv, ClockInv, DirectFromZero,
      OffsetIsAnchor, ElementIsAnchored, SeekIsAnchored, AnswerIsCurrent
<1>15. CASE ~apply /\ a.restarted
  <2>1. ~Trusted'
    BY <1>1, <1>15 DEF Trusted, Dropped
  <2> QED
    BY <1>10, <1>11, <2>1 DEF PInv, ClockInv, DirectFromZero, OffsetIsAnchor, ElementIsAnchored,
      SeekIsAnchored, AnswerIsCurrent
<1>16. CASE ~a.restarted
  <2>1. Trusted' => Trusted
    BY <1>1, <1>16 DEF Trusted
  <2>2. ~InFlight(pump, client)
    BY <1>4, <1>16
  <2>3. CASE c = client
    <3>1. Src' = Src
      BY <1>1, <2>3 DEF Src
    <3> QED
      BY <1>1, <1>9, <1>10, <1>11, <2>1, <2>2, <2>3, <3>1 DEF PInv, ClockInv, DirectFromZero,
        OffsetIsAnchor, ElementIsAnchored, SeekIsAnchored, AnswerIsCurrent
  <2>4. CASE c # client
    <3>1. /\ c.method = client.method /\ c.method # "DIRECT" /\ c.offset = client.offset
          /\ c.pending.base = c.offset /\ c.nonce = client.nonce + 1
      BY <1>5, <1>16, <2>4
    <3> QED
      BY <1>1, <1>7, <1>9, <1>10, <1>11, <1>12, <2>1, <2>2, <3>1 DEF PInv, ClockInv, DirectFromZero,
        OffsetIsAnchor, ElementIsAnchored, SeekIsAnchored, AnswerIsCurrent
  <2> QED
    BY <2>3, <2>4
<1> QED
  BY <1>14, <1>15, <1>16

LEMMA LostKeeps == ASSUME PInv, Lost PROVE PInv'
<1> DEFINE newer == pump.latest # NoReq
           free == [pump EXCEPT !.busy = NoReq, !.phase = "idle", !.ans = NoAns]
<1>1. /\ pump.phase = "answered" /\ UNCHANGED <<page, calls, srv, client, elem, stopping>>
      /\ pump' = IF newer THEN Sent(free, client, pump.latest) ELSE free
      /\ excused' = IF client.cur = pump.busy.sess THEN excused \cup Dropped(pump.busy, pump.ans.restarted)
                    ELSE excused
  BY DEF Lost
<1>2. /\ PumpOver(pump, Opened) /\ Opened \in SUBSET Sessions /\ client \in ClientRecords
      /\ newer => pump.latest \in Request /\ pump.latest.sess \in Opened
      /\ client.cur # 0 => client.cur \in Opened
  BY DEF PInv, PageTypes, PumpOver, PumpRecords, Opened, ClientOver
<1>3. PumpOver(pump', Opened) /\ ~Carries(pump') /\ pump'.scrub = pump.scrub
  <2>1. PumpOver(free, Opened) /\ ~Carries(free) /\ free.scrub = pump.scrub
    BY <1>2, FreeOver
  <2> HIDE DEF free
  <2> QED
    BY <1>1, <1>2, <2>1, SentOver DEF PumpOver
<1>4. PageTypes'
  <2>1. Opened' = Opened
    BY <1>1 DEF Opened
  <2> QED
    BY <1>1, <1>3, <2>1 DEF PInv, PageTypes
<1>5. ~InFlight(pump, client)' /\ (Trusted' => Trusted)
  BY <1>1, <1>3 DEF InFlight, Trusted
<1>6. CASE ~InFlight(pump, client)
  BY <1>1, <1>4, <1>5, <1>6, ClockIdle DEF PInv
<1>7. CASE InFlight(pump, client)
  <2>1. ~Trusted'
    BY <1>1, <1>7 DEF Trusted, Dropped, InFlight, Carries
  <2> QED
    BY <1>4, <1>5, <2>1 DEF PInv, ClockInv, DirectFromZero, OffsetIsAnchor, ElementIsAnchored,
      SeekIsAnchored, AnswerIsCurrent
<1> QED
  BY <1>6, <1>7

LEMMA TimerKeeps == ASSUME PInv, RetryTimer PROVE PInv'
<1>1. /\ UNCHANGED <<page, calls, srv, client, elem, stopping, excused>>
      /\ pump' = IF pump.phase = "idle" /\ pump.latest # NoReq
                 THEN Sent(pump, client, pump.latest) ELSE [pump EXCEPT !.timer = FALSE]
  BY DEF RetryTimer
<1>2. /\ PumpOver(pump, Opened) /\ pump \in PumpRecords /\ Opened \in SUBSET Sessions
      /\ client \in ClientRecords /\ page \in PageRecords
      /\ pump.latest # NoReq => pump.latest \in Request /\ pump.latest.sess \in Opened
      /\ client.cur # 0 => client.cur \in Opened
  BY DEF PInv, PageTypes, PumpOver, PumpRecords, Opened, ClientOver, PageRecords
<1>3. CASE pump.phase = "idle" /\ pump.latest # NoReq
  <2>1. PumpOver(pump', Opened) /\ ~Carries(pump') /\ pump'.scrub = pump.scrub
    BY <1>1, <1>2, <1>3, SentOver
  <2>2. SameLoad(pump, pump')
    BY <1>3, <2>1 DEF SameLoad, Carries
  <2> QED
    BY <1>1, <1>2, <2>1, <2>2, AskFrame DEF Trusted, PInv, PageTypes
<1>4. CASE ~(pump.phase = "idle" /\ pump.latest # NoReq)
  <2>1. pump' = [pump EXCEPT !.timer = FALSE]
    BY <1>1, <1>4
  <2>2. /\ pump' \in PumpRecords /\ pump'.latest = pump.latest /\ pump'.busy = pump.busy
        /\ pump'.phase = pump.phase /\ pump'.ans = pump.ans /\ pump'.scrub = pump.scrub
    BY <1>2, <2>1 DEF PumpRecords
  <2>3. PumpOver(pump', Opened) /\ SameLoad(pump, pump')
    BY <1>2, <2>2 DEF PumpOver, SameLoad, Carries
  <2> QED
    BY <1>1, <1>2, <2>2, <2>3, AskFrame DEF Trusted, PInv, PageTypes
<1> QED
  BY <1>3, <1>4

-----------------------------------------------------------------------------
(* The media element. *)

LEMMA SrcKnown ==
  ASSUME PageTypes, client.cur # 0
  PROVE  /\ Src \in Sources(Opened, client.nonce)
         /\ \A t \in Titles : Src = <<"DIRECT", t>> => client.method = "DIRECT"
<1>1. /\ client.method \in Methods /\ client.cur \in Opened /\ client.nonce \in 0..client.nonce
      /\ page.title \in Titles
  BY DEF PageTypes, ClientOver, ClientRecords
<1>2. CASE client.method = "DIRECT"
  BY <1>1, <1>2 DEF Src, Sources
<1>3. CASE client.method # "DIRECT"
  <2>1. Src = <<client.method, client.cur, client.nonce>> /\ client.method \in {"REMUX", "TRANSCODE"}
    BY <1>1, <1>3 DEF Src, Methods
  <2> QED
    BY <1>1, <1>3, <2>1 DEF Sources
<1> QED
  BY <1>2, <1>3

LEMMA LoadKeeps == ASSUME PInv, Load PROVE PInv'
<1> DEFINE b == IF client.method = "DIRECT" THEN 0 ELSE srv[client.cur].start
           e == [open |-> TRUE, src |-> Src, ready |-> FALSE, err |-> FALSE, base |-> b]
<1>1. client.cur # 0 /\ elem' = e /\ UNCHANGED <<page, calls, srv, client, pump, stopping, excused>>
  BY DEF Load
<1>2. client.cur \in Sessions /\ srv[client.cur] \in SrvRecords /\ 0 \in Anchors
  BY <1>1, WatchClientAssumption DEF WatchClientAssumption, Anchors, PInv, PageTypes, ClientOver, Opened
<1>3. b \in Anchors /\ (client.method = "DIRECT" => b = 0)
  BY <1>2 DEF SrvRecords
<1> HIDE DEF b
<1>4. ElemOver(e, Opened, client.nonce)
  BY <1>1, <1>3, SrcKnown DEF ElemOver, PInv
<1>5. e.base = b
  OBVIOUS
<1> HIDE DEF e
<1>6. Opened' = Opened
  BY <1>1 DEF Opened
<1>7. PageTypes'
  BY <1>1, <1>4, <1>6 DEF PInv, PageTypes
<1>8. ElementIsAnchored'
  <2>1. Trusted /\ ~InFlight(pump, client) => b = client.offset
    BY <1>1, <1>3 DEF PInv, ClockInv, DirectFromZero, OffsetIsAnchor, b
  <2> QED
    BY <1>1, <1>5, <2>1 DEF ElementIsAnchored, Trusted, InFlight
<1> QED
  BY <1>1, <1>7, <1>8 DEF PInv, ClockInv, DirectFromZero, OffsetIsAnchor, SeekIsAnchored,
    AnswerIsCurrent, Trusted, InFlight

LEMMA CanPlayKeeps == ASSUME PInv, CanPlay PROVE PInv'
<1> DEFINE q == IF client.pending.nonce = client.nonce THEN NoSeek ELSE client.pending
<1>1. /\ elem.open /\ ~elem.err /\ elem' = [elem EXCEPT !.ready = TRUE]
      /\ client' = [client EXCEPT !.pending = q]
      /\ UNCHANGED <<page, calls, srv, pump, stopping, excused>>
  BY DEF CanPlay
<1>2. client.cur # 0 /\ client \in ClientRecords /\ client.pending.nonce <= client.nonce
  BY <1>1 DEF PInv, PageTypes, ClientOver
<1>3. q \in Seeks /\ q.nonce <= client.nonce
      /\ (q.nonce = client.nonce => q.nonce # client.nonce)
  BY <1>2, WatchClientAssumption
    DEF WatchClientAssumption, Anchors, ClientRecords, Seeks, NoSeek, Unset
<1> HIDE DEF q
<1>4. /\ client' \in ClientRecords /\ client'.cur = client.cur /\ client'.method = client.method
      /\ client'.offset = client.offset /\ client'.nonce = client.nonce /\ client'.pending = q
  BY <1>1, <1>2, <1>3 DEF ClientRecords
<1>5. /\ ElemOver(elem', Opened, client.nonce)
      /\ elem'.open = elem.open /\ elem'.src = elem.src /\ elem'.base = elem.base /\ elem'.err = elem.err
  <2>1. ElemOver(elem, Opened, client.nonce)
    BY DEF PInv, PageTypes
  <2>2. /\ elem' \in [open : BOOLEAN, src : Sources(Opened, client.nonce), base : Anchors,
                      ready : BOOLEAN, err : BOOLEAN]
        /\ elem'.open = elem.open /\ elem'.src = elem.src /\ elem'.base = elem.base /\ elem'.err = elem.err
    BY <1>1, <2>1 DEF ElemOver
  <2> QED
    BY <1>1, <2>1, <2>2 DEF ElemOver
<1>6. PageTypes'
  BY <1>1, <1>2, <1>3, <1>4, <1>5, ClientFrame DEF PInv, PageTypes, PageRecords, ClientRecords
<1>7. InFlight(pump, client)' <=> InFlight(pump, client)
  BY <1>1, <1>4 DEF InFlight
<1>8. Src' = Src
  BY <1>1, <1>4 DEF Src
<1> QED
  BY <1>1, <1>3, <1>4, <1>5, <1>6, <1>7, <1>8 DEF PInv, ClockInv, DirectFromZero, OffsetIsAnchor,
    ElementIsAnchored, SeekIsAnchored, AnswerIsCurrent, Trusted

LEMMA ErrorKeeps == ASSUME PInv, MediaError PROVE PInv'
<1> DEFINE e == [NoElem EXCEPT !.open = TRUE, !.src = Src, !.err = TRUE]
<1>1. /\ client.cur # 0 /\ elem' = e
      /\ UNCHANGED <<page, calls, srv, stopping>>
      /\ \/ FallBack /\ UNCHANGED excused
         \/ excused' = excused \cup {"report"} /\ UNCHANGED <<client, pump>>
         \/ GiveUp /\ UNCHANGED excused
  BY DEF MediaError
<1>2. /\ e \in [open : BOOLEAN, src : Sources(Opened, client.nonce), base : Anchors,
              ready : BOOLEAN, err : BOOLEAN]
      /\ e.src = Src /\ e.base = 0 /\ e.err /\ ~e.ready
  <2> DEFINE E == [open : BOOLEAN, src : Sources(Opened, client.nonce), base : Anchors,
                   ready : BOOLEAN, err : BOOLEAN]
  <2>1. ASSUME NEW x \in E, ~x.ready
        PROVE  LET y == [x EXCEPT !.open = TRUE, !.src = Src, !.err = TRUE] IN
               y \in E /\ y.src = Src /\ y.base = x.base /\ y.err /\ ~y.ready
    BY <1>1, <2>1, SrcKnown DEF PInv
  <2>2. NoElem \in E /\ ~NoElem.ready /\ NoElem.base = 0
    <3>1. client.nonce \in Nat
      BY DEF PInv, PageTypes, ClientOver, ClientRecords
    <3> QED
      BY <3>1, NoElemOver DEF ElemOver, NoElem
  <2> QED
    BY <2>1, <2>2
<1> HIDE DEF e
<1>3. ElemOver(e, Opened, client.nonce) /\ e.err
  BY <1>2 DEF ElemOver
<1>4. client \in ClientRecords /\ client.pending.nonce <= client.nonce /\ client.nonce \in Nat
      /\ PumpOver(pump, Opened)
  BY DEF PInv, PageTypes, ClientOver, ClientRecords
<1>5. /\ client' \in ClientRecords /\ client'.cur = client.cur /\ client'.method = client.method
      /\ client'.offset = client.offset /\ client'.nonce = client.nonce
      /\ client'.pending \in {client.pending, NoSeek}
      /\ PumpOver(pump', Opened) /\ SameLoad(pump, pump')
  <2>1. CASE FallBack
    BY <1>1, <2>1, FallBackMoves DEF SameClock
  <2>2. CASE UNCHANGED <<client, pump>>
    BY <1>4, <2>2 DEF SameLoad
  <2>3. CASE GiveUp
    <3>1. NoSeek \in Seeks
      BY WatchClientAssumption DEF WatchClientAssumption, Anchors, NoSeek, Seeks
    <3>2. PumpOver(pump', Opened) /\ SameLoad(pump, pump')
      BY <1>4, <2>3 DEF GiveUp, PumpOver, PumpRecords, SameLoad, Carries
    <3> QED
      BY <1>4, <2>3, <3>1, <3>2 DEF GiveUp, ClientRecords
  <2> QED
    BY <1>1, <2>1, <2>2, <2>3
<1>6. client'.pending.nonce <= client'.nonce /\ (client'.pending # client.pending => client'.pending.nonce # client'.nonce)
  BY <1>4, <1>5 DEF NoSeek, Unset
<1>7. PageTypes'
  BY <1>1, <1>3, <1>4, <1>5, <1>6, ClientFrame DEF PInv, PageTypes, PageRecords
<1>8. /\ InFlight(pump, client)' <=> InFlight(pump, client)
      /\ InFlight(pump, client) => pump'.ans = pump.ans
  BY <1>5 DEF SameLoad, InFlight
<1>9. Trusted' => Trusted
  BY <1>1 DEF Trusted
<1> QED
  BY <1>1, <1>3, <1>5, <1>6, <1>7, <1>8, <1>9 DEF PInv, ClockInv, DirectFromZero, OffsetIsAnchor,
    ElementIsAnchored, SeekIsAnchored, AnswerIsCurrent

LEMMA StallKeeps == ASSUME PInv, Stall PROVE PInv'
<1>1. /\ client.cur # 0 /\ FallBack /\ UNCHANGED <<page, calls, srv, elem, stopping, excused>>
  BY DEF Stall
<1>2. /\ client' \in ClientRecords /\ SameClock(client, client')
      /\ PumpOver(pump', Opened) /\ SameLoad(pump, pump')
  BY <1>1, FallBackMoves
<1>3. client.nonce \in Nat /\ client.pending.nonce <= client.nonce /\ page \in PageRecords
      /\ ElemOver(elem, Opened, client.nonce)
  BY DEF PInv, PageTypes, ClientOver, ClientRecords, PageRecords
<1>4. PageTypes'
  BY <1>1, <1>2, <1>3, ClientFrame DEF SameClock
<1> QED
  BY <1>1, <1>2, <1>4, ClockFrame DEF PInv, SameClock, Src, Trusted

LEMMA PageKeeps == PInv /\ [PageNext]_pageVars => PInv'
<1> SUFFICES ASSUME PInv, [PageNext]_pageVars PROVE PInv'
  OBVIOUS
<1>1. CASE UNCHANGED pageVars
  BY <1>1 DEF pageVars, PInv, PageTypes, Opened, ClockInv, DirectFromZero, OffsetIsAnchor,
    ElementIsAnchored, SeekIsAnchored, AnswerIsCurrent, InFlight, Trusted, Src
<1>2. CASE PageNext
  BY <1>2, StartKeeps, AdoptKeeps, LeaveKeeps, StopKeeps, AskKeeps, RetryKeeps, ServeKeeps,
     ResumeKeeps, LostKeeps, TimerKeeps, LoadKeeps, CanPlayKeeps, ErrorKeeps, StallKeeps
    DEF PageNext
<1> QED
  BY <1>1, <1>2

-----------------------------------------------------------------------------
LEMMA PageTyped == PInv => PageTypeOK
  BY DEF PInv, PageTypes, PageTypeOK, ClientOver, ClientRecords, PumpOver, PumpRecords, ElemOver,
    SrvRecords, Opened

LEMMA ClockIsHonestAt == PInv => ClockIsHonest
<1> SUFFICES ASSUME PInv, AtRest, excused = {} PROVE client.offset = elem.base
  BY DEF ClockIsHonest, ClockIsTrue
<1>1. elem.open /\ ~elem.err
  BY DEF AtRest, PInv, PageTypes, ElemOver
<1>2. ~InFlight(pump, client)
  BY DEF AtRest, InFlight, Carries
<1> QED
  BY <1>1, <1>2 DEF AtRest, PInv, ClockInv, ElementIsAnchored, Trusted

(* Only a stream that can play takes the seek that waits for it. *)
LEMMA SeekLands ==
  ASSUME PInv, [PageNext]_pageVars, elem'.ready, ~elem.ready, client.pending # NoSeek,
         client'.pending = NoSeek, pump.phase = "idle", excused = {}
  PROVE  client.pending.base = elem.base
<1>1. CASE CanPlay
  <2>1. /\ elem.open /\ ~elem.err /\ elem.src = Src
        /\ client.pending.nonce = client.nonce
    <3>1. /\ elem.open /\ ~elem.err /\ elem.src = Src
          /\ client' = [client EXCEPT !.pending = IF client.pending.nonce = client.nonce THEN NoSeek ELSE @]
      BY <1>1 DEF CanPlay
    <3> QED
      BY <3>1 DEF PInv, PageTypes, ClientOver, ClientRecords
  <2>2. ~InFlight(pump, client) /\ client.cur # 0 /\ Trusted
    BY <2>1 DEF InFlight, Carries, PInv, PageTypes, Trusted
  <2> QED
    BY <2>1, <2>2 DEF PInv, ClockInv, ElementIsAnchored, SeekIsAnchored
<1>2. ASSUME ~CanPlay PROVE ~elem'.ready \/ elem' = elem
  <2>1. CASE UNCHANGED elem
    BY <2>1
  <2>2. CASE elem' = NoElem \/ elem' = elem
    BY <2>2 DEF NoElem
  <2>3. CASE Load
    BY <2>3 DEF Load
  <2>4. CASE MediaError
    <3>1. elem' = [NoElem EXCEPT !.open = TRUE, !.src = Src, !.err = TRUE]
      BY <2>4 DEF MediaError
    <3> QED
      BY <3>1 DEF NoElem
  <2>5. CASE LeavePage \/ Retry \/ Resume \/ \E k \in Sessions, gap \in BOOLEAN : StartAdopted(k, gap)
    BY <2>2, <2>5 DEF LeavePage, Retry, Resume, StartAdopted
  <2>6. CASE \/ \E t \in Titles : Navigate(t)
             \/ \E k \in Sessions : StartFails(k) \/ StartServed(k) \/ StartDiscarded(k) \/ StopLands(k)
             \/ Scrub \/ ScrubFires \/ SwitchAudio \/ (\E m \in Methods : SwitchQuality(m))
             \/ Serve \/ Lost \/ RetryTimer \/ Stall
    BY <2>1, <2>6 DEF Navigate, StartFails, StartServed, StartDiscarded, StopLands, Scrub, ScrubFires,
      SwitchAudio, SwitchQuality, Serve, Lost, RetryTimer, Stall
  <2> QED
    BY <1>2, <2>1, <2>3, <2>4, <2>5, <2>6 DEF PageNext, pageVars
<1> QED
  BY <1>1, <1>2

(* However many titles, starts, gestures and faults there are: the page's   *)
(* clock is the playing stream's own unless a restart's answer went        *)
(* unheard, and a seek lands on the stream it was computed for.            *)
THEOREM StreamsStayAlignedAlways == PageSpec => StreamsStayAligned
<1>1. PInv /\ [PageNext]_pageVars =>
        [elem'.ready /\ ~elem.ready /\ client.pending # NoSeek /\ client'.pending = NoSeek
         /\ pump.phase = "idle" /\ pump.latest = NoReq /\ excused = {}
         => client.pending.base = elem.base]_pageVars
  BY SeekLands
<1> QED
  BY <1>1, PageInitPInv, PageKeeps, PageTyped, ClockIsHonestAt, PTL
    DEF PageSpec, StreamsStayAligned, SeeksLandOnTheirStream

-----------------------------------------------------------------------------
(* The party. *)

(* A request under way has a caller; the reaper about to remove a member   *)
(* has chosen one.                                                         *)
CallersKnown ==
  /\ \A r \in Requests : pc[r] \notin {"idle", "done"} => req[r].who \in Profiles
  /\ pc[Reaper] = "reap" => sweep.victim \in Profiles

(* A command under way began while the party was live, and no party is     *)
(* deleted under a request.                                                *)
CommandsOnRealParty ==
  \A r \in Requests : pc[r] = "control" => party \in {"live", "ENDED"}

(* Before the party there are no members, and so no requests. *)
NoRoomYet ==
  party = "none" => /\ members = {} /\ socket = {} /\ playing = {}
                    /\ \A r \in Requests : pc[r] = "idle"

IInv == TypeOK /\ CallersKnown /\ CommandsOnRealParty /\ NoRoomYet

USE PartyAssumption DEF PartyAssumption

-----------------------------------------------------------------------------
LEMMA InitIInv == Init => IInv
  BY DEF Init, IInv, TypeOK, CallersKnown, CommandsOnRealParty, NoRoomYet, Actors, Places, NoSweep, Sweeps,
    NoRequest, RequestRecords

(* What a move of an actor leaves: types, and everybody else's place. *)
Moved(a, where) ==
  /\ pc' \in [Actors -> Places]
  /\ req' \in [Requests -> RequestRecords]
  /\ pc'[a] = where
  /\ \A b \in Actors \ {a} : pc'[b] = pc[b]
  /\ \A r \in Requests \ {a} : req'[r] = req[r]

LEMMA GotoMoves ==
  ASSUME TypeOK, NEW a \in Actors, NEW where \in Places, Goto(a, where), where = "done" => a \in Requests
  PROVE  Moved(a, where) /\ (where # "done" => req' = req)
  BY DEF TypeOK, Goto, Actors, RequestRecords, NoRequest, Moved

LEMMA BeginMoves ==
  ASSUME TypeOK, NEW r \in Requests, NEW p \in Profiles, NEW where \in Places,
         NEW kind \in {"control", "ready", "session", "leave", "join", "connect", "drop", "stop"},
         Begin(r, p, kind, where)
  PROVE  Moved(r, where) /\ pc[r] = "idle" /\ req'[r].who = p
  BY DEF TypeOK, Begin, Actors, RequestRecords, Moved

(* Clients keep the invariant. *)
LEMMA ClientStep ==
  ASSUME IInv, Client
  PROVE  IInv'
<1>1. CASE Create
  BY <1>1 DEF Create, IInv, TypeOK, CallersKnown, CommandsOnRealParty, NoRoomYet, Live, rows, clients, copies, Actors, Moved
<1>2. ASSUME NEW r \in Requests, NEW p \in Profiles,
             NEW kind \in {"control", "ready", "session", "leave"}, Enter(r, p, kind)
      PROVE  IInv'
  <2>1. Moved(r, kind) /\ pc[r] = "idle" /\ req'[r].who = p
    BY <1>2, BeginMoves DEF Enter, IInv, Places
  <2> QED
    BY <1>2, <2>1 DEF Enter, IInv, TypeOK, CallersKnown, CommandsOnRealParty, NoRoomYet, Live, rows, clients, copies, Actors, Moved
<1>3. ASSUME NEW r \in Requests, NEW p \in Profiles, NEW kind \in {"join", "connect"}, Arrive(r, p, kind)
      PROVE  IInv'
  <2>1. Moved(r, "lookup") /\ pc[r] = "idle" /\ req'[r].who = p
    BY <1>3, BeginMoves DEF Arrive, IInv, Places
  <2> QED
    BY <1>3, <2>1 DEF Arrive, IInv, TypeOK, CallersKnown, CommandsOnRealParty, NoRoomYet, Live, rows, clients, copies, Actors, Moved
<1>4. ASSUME NEW r \in Requests, NEW p \in Profiles, NEW gone \in BOOLEAN, Drop(r, p, gone)
      PROVE  IInv'
  <2>1. Moved(r, "broadcast") /\ pc[r] = "idle" /\ req'[r].who = p
    BY <1>4, BeginMoves DEF Drop, IInv, Places
  <2> QED
    BY <1>4, <2>1 DEF Drop, IInv, TypeOK, CallersKnown, CommandsOnRealParty, NoRoomYet, Live, rows, clients, copies, Actors, Moved
<1>5. ASSUME NEW r \in Requests, NEW p \in Profiles, Stop(r, p)
      PROVE  IInv'
  <2>1. PICK where \in {"unlink", "done"} : Begin(r, p, "stop", where)
    BY <1>5 DEF Stop
  <2>2. Moved(r, where) /\ pc[r] = "idle" /\ req'[r].who = p
    BY <2>1, BeginMoves DEF IInv, Places
  <2> QED
    BY <1>5, <2>2 DEF Stop, IInv, TypeOK, CallersKnown, CommandsOnRealParty, NoRoomYet, Live, rows, clients, copies, Actors, Moved
<1> QED
  BY <1>1, <1>2, <1>3, <1>4, <1>5 DEF Client

(* So do the continuations of requests, *)
LEMMA HandleStep ==
  ASSUME IInv, NEW r \in Requests, Handle(r)
  PROVE  IInv'
<1>1. ASSUME NEW where \in {"done", "broadcast", "attach", "insert"}, Goto(r, where)
      PROVE  Moved(r, where) /\ (where # "done" => req' = req)
  BY <1>1, GotoMoves DEF IInv, Actors, Places
<1>2. CASE Control(r)
  BY <1>1, <1>2 DEF Control, Outdate, IInv, TypeOK, CallersKnown, CommandsOnRealParty, NoRoomYet, Live, rows, clients, copies, Actors, Moved
<1>3. CASE Ready(r)
  BY <1>1, <1>3 DEF Ready, Outdate, IInv, TypeOK, CallersKnown, CommandsOnRealParty, NoRoomYet, Live, rows, clients, copies, Actors, Moved
<1>4. CASE LinkSession(r)
  BY <1>1, <1>4 DEF LinkSession, Outdate, IInv, TypeOK, CallersKnown, CommandsOnRealParty, NoRoomYet, Live, rows, clients, copies, Actors, Moved
<1>5. CASE Leave(r)
  BY <1>1, <1>5 DEF Leave, EndParty, RemoveMember, Outdate, IInv, TypeOK, CallersKnown, CommandsOnRealParty, NoRoomYet, Live, rows, clients, copies, Actors, Moved
<1>6. CASE Unlink(r)
  BY <1>1, <1>6 DEF Unlink, Outdate, IInv, TypeOK, CallersKnown, CommandsOnRealParty, NoRoomYet, Live, rows, clients, copies, Actors, Moved
<1>7. CASE MemberGone(r)
  <2>1. Moved(r, "done")
    BY <1>1, <1>7 DEF MemberGone
  <2>2. TypeOK'
    BY <1>7, <2>1 DEF MemberGone, IInv, TypeOK, CallersKnown, Moved, rows, clients, copies, Actors
  <2>3. CallersKnown'
    BY <1>7, <2>1 DEF MemberGone, IInv, TypeOK, CallersKnown, Moved, Actors
  <2>4. CommandsOnRealParty' /\ NoRoomYet'
    BY <1>7, <2>1 DEF MemberGone, IInv, TypeOK, CommandsOnRealParty, NoRoomYet, Moved, rows, clients, Actors
  <2> QED
    BY <2>2, <2>3, <2>4 DEF IInv
<1>8. CASE Lookup(r)
  <2>1. (\E where \in {"attach", "broadcast", "insert"} : Moved(r, where)) /\ req' = req
    BY <1>1, <1>8 DEF Lookup, Joined
  <2>2. TypeOK'
    BY <1>8, <2>1 DEF Lookup, IInv, TypeOK, CallersKnown, Moved, rows, clients, copies, Actors
  <2>3. CallersKnown'
    BY <1>8, <2>1 DEF Lookup, IInv, TypeOK, CallersKnown, Moved, Actors
  <2>4. CommandsOnRealParty' /\ NoRoomYet'
    BY <1>8, <2>1 DEF Lookup, IInv, TypeOK, CommandsOnRealParty, NoRoomYet, Moved, rows, clients, Actors
  <2> QED
    BY <2>2, <2>3, <2>4 DEF IInv
<1>9. CASE Insert(r)
  <2>1. \/ Moved(r, "done")
        \/ (\E where \in {"attach", "broadcast"} : Moved(r, where)) /\ req' = req
    BY <1>1, <1>9 DEF Insert, Joined
  <2>2. TypeOK'
    <3>1. pc[r] = "insert" /\ req[r].who \in Profiles
      BY <1>9 DEF Insert, IInv, CallersKnown
    <3>2. pc' \in [Actors -> Places] /\ req' \in [Requests -> RequestRecords]
      BY <2>1 DEF Moved, IInv, TypeOK
    <3>3. \A b \in Actors \ {r} : pc'[b] = pc[b]
      BY <2>1 DEF Moved
    <3>4. CASE req[r].who \in members
      BY <1>9, <3>1, <3>2, <3>3, <3>4 DEF Insert, IInv, TypeOK, clients, copies
    <3>5. CASE req[r].who \notin members
      BY <1>9, <3>1, <3>2, <3>5 DEF Insert, Outdate, IInv, TypeOK, clients
    <3> QED
      BY <3>4, <3>5
  <2>3. CallersKnown'
    BY <1>9, <2>1 DEF Insert, Outdate, IInv, TypeOK, CallersKnown, Moved, Actors
  <2>4. CommandsOnRealParty' /\ NoRoomYet'
    BY <1>9, <2>1 DEF Insert, Outdate, IInv, TypeOK, CommandsOnRealParty, NoRoomYet, Moved, rows, clients, Actors
  <2> QED
    BY <2>2, <2>3, <2>4 DEF IInv
<1>10. CASE Attach(r)
  <2>1. Moved(r, "broadcast") /\ req' = req
    BY <1>1, <1>10 DEF Attach
  <2>2. TypeOK'
    BY <1>10, <2>1 DEF Attach, IInv, TypeOK, CallersKnown, Moved, rows, clients, copies, Actors
  <2>3. CallersKnown'
    BY <1>10, <2>1 DEF Attach, IInv, TypeOK, CallersKnown, Moved, Actors
  <2>4. CommandsOnRealParty' /\ NoRoomYet'
    BY <1>10, <2>1 DEF Attach, IInv, TypeOK, CommandsOnRealParty, NoRoomYet, Moved, rows, clients, Actors
  <2> QED
    BY <2>2, <2>3, <2>4 DEF IInv
<1> QED
  BY <1>2, <1>3, <1>4, <1>5, <1>6, <1>7, <1>8, <1>9, <1>10 DEF Handle

(* the broadcasts and heartbeats, *)
LEMMA BroadcastStep ==
  ASSUME IInv, NEW a \in Actors, Broadcast(a)
  PROVE  IInv'
<1>1. Rest(a) \in {"done", "idle"} /\ (Rest(a) = "done" => a \in Requests)
  BY DEF Rest
<1>2. ASSUME NEW where \in {"done", "idle", "send"}, Goto(a, where), where = "done" => a \in Requests
      PROVE  Moved(a, where) /\ (where # "done" => req' = req)
  BY <1>2, GotoMoves DEF IInv, Places
<1>3. CASE ReadSnapshot(a)
  <2>1. \/ \E where \in {"done", "idle"} :
              Moved(a, where) /\ (where # "done" => req' = req) /\ UNCHANGED latest
        \/ Moved(a, "send") /\ req' = req /\ latest' = latest \cup {a}
    BY <1>1, <1>3, <1>2 DEF ReadSnapshot
  <2>2. TypeOK'
    BY <1>3, <2>1 DEF ReadSnapshot, IInv, TypeOK, CallersKnown, Moved, rows, clients, copies, Actors
  <2>3. CallersKnown'
    BY <1>3, <2>1 DEF ReadSnapshot, IInv, TypeOK, CallersKnown, Moved, Actors
  <2>4. CommandsOnRealParty' /\ NoRoomYet'
    BY <1>3, <2>1 DEF ReadSnapshot, IInv, TypeOK, CommandsOnRealParty, NoRoomYet, Moved, rows, clients, Actors
  <2> QED
    BY <2>2, <2>3, <2>4 DEF IInv
<1>4. CASE Send(a)
  BY <1>1, <1>2, <1>4 DEF Send, IInv, TypeOK, CallersKnown, CommandsOnRealParty, NoRoomYet, Live, rows, clients, copies, Actors, Moved
<1> QED
  BY <1>3, <1>4 DEF Broadcast

LEMMA TimeStep ==
  ASSUME IInv, NEW p \in Profiles, Beat(p) \/ Age(p)
  PROVE  IInv'
<1>1. CASE Beat(p)
  <2>1. Moved(p, "broadcast")
    BY <1>1, GotoMoves DEF Beat, IInv, Actors, Places
  <2> QED
    BY <1>1, <2>1 DEF Beat, Beating, IInv, TypeOK, CallersKnown, CommandsOnRealParty, NoRoomYet, Live, rows, clients, copies, Actors, Moved
<1>2. CASE Age(p)
  BY <1>2 DEF Age, IInv, TypeOK, CallersKnown, CommandsOnRealParty, NoRoomYet, Live, rows, clients, copies, Actors, Moved
<1> QED
  BY <1>1, <1>2

(* and the sweep. *)
LEMMA ReapStep ==
  ASSUME IInv, Reap \/ Purge
  PROVE  IInv'
<1>1. ASSUME NEW where \in {"idle", "broadcast", "sweep", "reap"}, Goto(Reaper, where)
      PROVE  Moved(Reaper, where)
  BY <1>1, GotoMoves DEF IInv, Actors, Places
<1>2. CASE Sweep
  BY <1>1, <1>2 DEF Sweep, Sweeps, NoSweep, IInv, TypeOK, CallersKnown, CommandsOnRealParty, NoRoomYet, Live, rows, clients, copies, Actors, Moved
<1>3. ASSUME NEW p \in Profiles, Pick(p)
      PROVE  IInv'
  <2>1. \/ pc[Reaper] = "sweep" /\ UNCHANGED <<pc, req>>
        \/ Moved(Reaper, "reap") /\ sweep'.victim = p
    BY <1>1, <1>3 DEF Pick, IInv, TypeOK, Sweeps
  <2>2. TypeOK'
    <3>1. sweep' \in Sweeps
      <4>1. sweep \in Sweeps
        BY DEF IInv, TypeOK
      <4>2. [sweep EXCEPT !.stale = @ \ {p}] \in Sweeps
        BY <4>1 DEF Sweeps
      <4>3. [sweep EXCEPT !.stale = @ \ {p}, !.victim = p] \in Sweeps
        BY <4>1 DEF Sweeps
      <4> QED
        BY <1>3, <4>2, <4>3 DEF Pick
    <3> QED
      BY <1>3, <2>1, <3>1 DEF Pick, IInv, TypeOK, Moved, rows, clients, copies, Actors
  <2>3. CallersKnown'
    BY <1>3, <2>1 DEF Pick, Sweeps, IInv, TypeOK, CallersKnown, Moved, Actors
  <2>4. CommandsOnRealParty' /\ NoRoomYet'
    BY <1>3, <2>1 DEF Pick, Sweeps, IInv, TypeOK, CommandsOnRealParty, NoRoomYet, Moved, rows, clients, Actors
  <2> QED
    BY <2>2, <2>3, <2>4 DEF IInv
<1>4. CASE ReapHost
  BY <1>1, <1>4 DEF ReapHost, EndParty, Outdate, Sweeps, NoSweep, IInv, TypeOK, CallersKnown, CommandsOnRealParty, NoRoomYet, Live, rows, clients, copies, Actors, Moved
<1>5. CASE ReapGuest
  <2>1. Moved(Reaper, "sweep")
    BY <1>1, <1>5 DEF ReapGuest
  <2>2. TypeOK'
    BY <1>5, <2>1 DEF ReapGuest, RemoveMember, Outdate, Sweeps, IInv, TypeOK, CallersKnown, Moved, rows, clients, copies, Actors
  <2>3. CallersKnown'
    BY <1>5, <2>1 DEF ReapGuest, RemoveMember, Outdate, Sweeps, IInv, TypeOK, CallersKnown, Moved, Actors
  <2>4. CommandsOnRealParty' /\ NoRoomYet'
    BY <1>5, <2>1 DEF ReapGuest, RemoveMember, Outdate, Sweeps, IInv, TypeOK, CommandsOnRealParty, NoRoomYet, Moved, rows, clients, Actors
  <2> QED
    BY <2>2, <2>3, <2>4 DEF IInv
<1>6. CASE ReapFails
  BY <1>1, <1>6 DEF ReapFails, Sweeps, NoSweep, IInv, TypeOK, CallersKnown, CommandsOnRealParty, NoRoomYet, Live, rows, clients, copies, Actors, Moved
<1>7. CASE EndSweep
  BY <1>1, <1>7 DEF EndSweep, Sweeps, NoSweep, IInv, TypeOK, CallersKnown, CommandsOnRealParty, NoRoomYet, Live, rows, clients, copies, Actors, Moved
<1>8. CASE Purge
  BY <1>8 DEF Purge, Outdate, IInv, TypeOK, CallersKnown, CommandsOnRealParty, NoRoomYet, Live, rows, clients, copies, Actors, Moved
<1> QED
  BY <1>2, <1>3, <1>4, <1>5, <1>6, <1>7, <1>8 DEF Reap

LEMMA StepIInv == IInv /\ [Next]_vars => IInv'
<1> SUFFICES ASSUME IInv, [Next]_vars PROVE IInv'
  OBVIOUS
<1>1. CASE UNCHANGED vars
  BY <1>1 DEF vars, rows, clients, copies, IInv, TypeOK, CallersKnown, CommandsOnRealParty, NoRoomYet
<1> QED
  BY <1>1, ClientStep, HandleStep, BroadcastStep, TimeStep, ReapStep DEF Next

-----------------------------------------------------------------------------
(* The rows, sockets and actors have their types in every reachable state. *)
THEOREM TypeCorrect == Spec => []TypeOK
<1>1. IInv => TypeOK
  BY DEF IInv
<1> QED
  BY <1>1, InitIInv, StepIInv, PTL DEF Spec

(* A hosted party only becomes hostless through a command that overlapped  *)
(* the party's end.                                                        *)
LEMMA LosingTheHost ==
  ASSUME IInv, Next, Hosted, ~ Hosted'
  PROVE  /\ party = "ENDED"
         /\ \E r \in Requests : pc[r] = "control" /\ pc'[r] = "broadcast"
<1> USE DEF Hosted, Live
<1>1. CASE Client
  BY <1>1 DEF Client, Create, Enter, Arrive, Drop, Stop, rows
<1>2. ASSUME NEW r \in Requests, Handle(r), ~ Control(r)
      PROVE  FALSE
  <2>1. ~ Leave(r)
    BY DEF Leave, EndParty, RemoveMember
  <2> QED
    BY <1>2, <2>1 DEF Handle, Ready, LinkSession, Unlink, MemberGone, Lookup, Insert, Attach, rows
<1>3. ASSUME NEW r \in Requests, Control(r)
      PROVE  party = "ENDED" /\ pc[r] = "control" /\ pc'[r] = "broadcast"
  BY <1>3 DEF Control, Goto, IInv, TypeOK, CommandsOnRealParty, NoRoomYet, Actors
<1>4. ASSUME NEW a \in Actors, Broadcast(a)
      PROVE  FALSE
  BY <1>4 DEF Broadcast, ReadSnapshot, Send, rows
<1>5. ASSUME NEW p \in Profiles, Beat(p) \/ Age(p)
      PROVE  FALSE
  BY <1>5 DEF Beat, Age
<1>6. CASE Reap
  BY <1>6 DEF Reap, Sweep, Pick, ReapHost, ReapGuest, ReapFails, EndSweep, EndParty, RemoveMember, rows
<1>7. CASE Purge
  BY <1>7 DEF Purge
<1> QED
  BY <1>1, <1>2, <1>3, <1>4, <1>5, <1>6, <1>7 DEF Next

THEOREM HostLostByCommand == Spec => HostlessOnlyByCommand
<1>1. IInv /\ [Next]_vars
        => [Hosted /\ ~ Hosted' => /\ party = "ENDED"
                                   /\ \E r \in Requests : pc[r] = "control" /\ pc'[r] = "broadcast"]_vars
  BY LosingTheHost
<1> QED
  BY <1>1, InitIInv, StepIInv, PTL DEF Spec, HostlessOnlyByCommand
=============================================================================
