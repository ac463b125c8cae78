---------------------------- MODULE RecordsProofs ----------------------------
(***************************************************************************)
(* Machine-checked facts about the worlds of SuiteRecords: OfflineSync for *)
(* any items, flushes, faults and outages, DeviceDownloads for any number  *)
(* of rows and faults, StartPoint for any file and any margin,             *)
(* PlaybackLadder for any file, viewers, devices and defects, WatchState   *)
(* for any library, any length and any number of beats, marks and replays, *)
(* PlaybackPlan and EncodeFallback for any machines, files and clients,    *)
(* Artwork for any libraries, offers and troubles, Trickplay for any       *)
(* number of tiles, workers, attempts and versions of the file.            *)
(***************************************************************************)
EXTENDS SuiteRecords, WellFoundedInduction, SequenceTheorems, FiniteSetTheorems, Integers,
        TLAPS

(* A set of naturals that is not empty has a least element, *)
LEMMA Least ==
  ASSUME NEW S \in SUBSET Nat, S # {}
  PROVE  \E x \in S : \A y \in S : x <= y
<1>1. PICK x \in S : \A y \in S : <<y, x>> \notin OpToRel(<, Nat)
  BY WFMin, NatLessThanWellFounded
<1>2. ASSUME NEW y \in S
      PROVE  x <= y
  <2>1. x \in Nat /\ y \in Nat
    OBVIOUS
  <2>2. y < x => <<y, x>> \in OpToRel(<, Nat)
    BY <2>1 DEF OpToRel
  <2>3. ~(y < x)
    BY <1>1, <2>2, Zenon
  <2> QED  BY <2>1, <2>3
<1> QED  BY <1>2

(* and a greatest one if it is bounded. *)
LEMMA Greatest ==
  ASSUME NEW n \in Nat, NEW S \in SUBSET (0..n), S # {}
  PROVE  \E x \in S : \A y \in S : x >= y
<1> DEFINE T == {n - x : x \in S}
<1>1. T # {}
  OBVIOUS
<1>2. T \in SUBSET Nat
  <2>1. ASSUME NEW x \in S PROVE n - x \in Nat
    <3>1. x \in 0..n
      OBVIOUS
    <3> QED  BY <3>1
  <2> QED  BY <2>1
<1>3. PICK t \in T : \A u \in T : t <= u
  BY <1>1, <1>2, Least
<1>4. PICK x \in S : t = n - x
  OBVIOUS
<1>5. ASSUME NEW y \in S
      PROVE  x >= y
  <2>1. x \in 0..n /\ y \in 0..n /\ n - x <= n - y
    BY <1>3, <1>4
  <2> QED  BY <2>1
<1> QED  BY <1>5

-----------------------------------------------------------------------------
(***************************************************************************)
(* OfflineSync: what is queued or on its way is the position last saved.   *)
(***************************************************************************)
(* The types the argument needs. *)
Shapes ==
  /\ queue \in [Titles -> Nat] /\ server \in [Titles -> Nat] /\ oSeen \in [Titles -> Nat]
  /\ flush \in [Flushes -> [at : {"idle", "sent", "ok"}, sent : [Titles -> Nat]]]
  /\ raced \subseteq Titles

(* What is queued, and what a flush carries, is the position last saved,   *)
(* and what a flush was answered for has reached the server.               *)
LatestHolds ==
  \A i \in Titles \ raced :
    /\ queue[i] \in {0, oSeen[i]}
    /\ \A f \in Flushes :
         /\ flush[f].sent[i] \in {0, oSeen[i]}
         /\ flush[f].at = "ok" /\ flush[f].sent[i] # 0 => server[i] = oSeen[i]

OfflineInv == Shapes /\ LatestHolds /\ Offline!ProgressIsKept

-----------------------------------------------------------------------------
LEMMA InitOffline == Offline!Init => OfflineInv
  BY DEF Offline!Init, OfflineInv, Shapes, LatestHolds, Offline!ProgressIsKept, Offline!Nothing, Offline!NoFlush

(* Coming online starts at most one flush, with the queue as it is. *)
LEMMA OnlineStep ==
  ASSUME OfflineInv, Offline!MarkOnline, UNCHANGED <<queue, server, oSeen, raced>>
  PROVE  OfflineInv'
<1>1. CASE UNCHANGED flush
  BY <1>1 DEF OfflineInv, Shapes, LatestHolds, Offline!ProgressIsKept
<1>2. ASSUME NEW g \in Offline!Idle, flush' = Offline!StartsFlush(g)
      PROVE  OfflineInv'
  <2>1. flush' = [flush EXCEPT ![g] = [at |-> "sent", sent |-> queue]] /\ g \in Flushes
    BY <1>2 DEF Offline!StartsFlush, Offline!Idle
  <2>2. Shapes'
    BY <2>1 DEF OfflineInv, Shapes
  <2>3. LatestHolds'
    BY <2>1 DEF OfflineInv, Shapes, LatestHolds
  <2>4. QED
    BY <2>2, <2>3 DEF OfflineInv, Offline!ProgressIsKept
<1>3. QED
  BY <1>1, <1>2 DEF Offline!MarkOnline

(* A position saved while a flush carries an older one is set apart; any   *)
(* other becomes the one that is queued.                                   *)
LEMMA SaveStep ==
  ASSUME OfflineInv, NEW i \in Titles, Offline!Save(i)
  PROVE  OfflineInv'
<1>1. Shapes'
  BY DEF OfflineInv, Shapes, Offline!Save
<1>2. ASSUME NEW j \in Titles \ raced'
      PROVE  /\ queue'[j] \in {0, oSeen'[j]}
             /\ queue'[j] = 0 => server'[j] = oSeen'[j]
             /\ \A f \in Flushes :
                  /\ flush'[f].sent[j] \in {0, oSeen'[j]}
                  /\ flush'[f].at = "ok" /\ flush'[f].sent[j] # 0 => server'[j] = oSeen'[j]
  <2>1. j \in Titles \ raced
    BY <1>2 DEF Offline!Save, OfflineInv, Shapes
  <2>2. CASE j = i
    <3>1. \A f \in Flushes : flush[f].sent[i] = 0
      BY <1>2, <2>2 DEF Offline!Save
    <3>2. queue'[j] = oSeen[i] + 1 /\ oSeen'[j] = oSeen[i] + 1 /\ flush' = flush
      BY <2>2 DEF Offline!Save, OfflineInv, Shapes
    <3>3. oSeen[i] \in Nat
      BY DEF OfflineInv, Shapes
    <3>4. QED
      BY <2>2, <3>1, <3>2, <3>3
  <2>3. CASE j # i
    <3>1. queue'[j] = queue[j] /\ oSeen'[j] = oSeen[j] /\ flush' = flush /\ server' = server
      BY <2>1, <2>3 DEF Offline!Save, OfflineInv, Shapes
    <3>2. QED
      BY <2>1, <3>1 DEF OfflineInv, LatestHolds, Offline!ProgressIsKept
  <2>4. QED
    BY <2>2, <2>3
<1>3. QED
  BY <1>1, <1>2 DEF OfflineInv, LatestHolds, Offline!ProgressIsKept

(* The server takes what the flush carries. *)
LEMMA SyncedStep ==
  ASSUME OfflineInv, NEW g \in Flushes, Offline!Synced(g)
  PROVE  OfflineInv'
<1>1. /\ server' = [i \in Titles |-> IF flush[g].sent[i] # 0 THEN flush[g].sent[i] ELSE server[i]]
      /\ flush' = [flush EXCEPT ![g].at = "ok"]
      /\ UNCHANGED <<queue, oSeen, raced>>
  BY DEF Offline!Synced
<1>2. Shapes'
  BY <1>1 DEF OfflineInv, Shapes
<1>3. LatestHolds'
  BY <1>1 DEF OfflineInv, Shapes, LatestHolds
<1>4. Offline!ProgressIsKept'
  BY <1>1 DEF OfflineInv, Shapes, LatestHolds, Offline!ProgressIsKept
<1>5. QED
  BY <1>2, <1>3, <1>4 DEF OfflineInv

(* Only what an answered flush carried leaves the queue. *)
LEMMA DoneStep ==
  ASSUME OfflineInv, NEW g \in Flushes, Offline!Done(g)
  PROVE  OfflineInv'
<1>1. /\ flush[g].at = "ok"
      /\ queue' = [i \in Titles |-> IF flush[g].sent[i] # 0 THEN 0 ELSE queue[i]]
      /\ flush' = [flush EXCEPT ![g] = Offline!NoFlush]
      /\ UNCHANGED <<server, oSeen, raced>>
  BY DEF Offline!Done, Offline!Dropped, Offline!DroppedAfter
<1>2. Shapes'
  BY <1>1 DEF OfflineInv, Shapes, Offline!NoFlush, Offline!Nothing
<1>3. LatestHolds'
  BY <1>1 DEF OfflineInv, Shapes, LatestHolds, Offline!NoFlush, Offline!Nothing
<1>4. Offline!ProgressIsKept'
  BY <1>1 DEF OfflineInv, Shapes, LatestHolds, Offline!ProgressIsKept
<1>5. QED
  BY <1>2, <1>3, <1>4 DEF OfflineInv

(* A flush that fails, and the flushes of a page that closes, carry nothing *)
(* any more and drop nothing.                                              *)
LEMMA ForgetStep ==
  ASSUME OfflineInv, UNCHANGED <<queue, server, oSeen, raced>>,
         NEW G \in SUBSET Flushes, flush' = [f \in Flushes |-> IF f \in G THEN Offline!NoFlush ELSE flush[f]]
  PROVE  OfflineInv'
<1>1. Shapes'
  BY DEF OfflineInv, Shapes, Offline!NoFlush, Offline!Nothing
<1>2. LatestHolds'
  BY DEF OfflineInv, Shapes, LatestHolds, Offline!NoFlush, Offline!Nothing
<1>3. QED
  BY <1>1, <1>2 DEF OfflineInv, Offline!ProgressIsKept

(* The steps that touch neither positions nor flushes. *)
LEMMA OfflineIdle ==
  ASSUME OfflineInv, UNCHANGED <<queue, flush, server, oSeen, raced>>
  PROVE  OfflineInv'
  BY DEF OfflineInv, Shapes, LatestHolds, Offline!ProgressIsKept

LEMMA OfflineStep ==
  ASSUME OfflineInv, Offline!Next
  PROVE  OfflineInv'
<1>1. CASE Offline!LinkUp
  <2>1. CASE Offline!MarkOnline
    BY <1>1, <2>1, OnlineStep DEF Offline!LinkUp
  <2>2. CASE UNCHANGED <<online, flush>>
    BY <1>1, <2>2, OfflineIdle DEF Offline!LinkUp
  <2>3. QED
    BY <1>1, <2>1, <2>2 DEF Offline!LinkUp
<1>2. CASE Offline!ProbeSucceeds
  BY <1>2, OnlineStep DEF Offline!ProbeSucceeds
<1>3. CASE Offline!Close
  <2>1. flush' = [f \in Flushes |-> IF f \in Flushes THEN Offline!NoFlush ELSE flush[f]]
    BY <1>3 DEF Offline!Close
  <2>2. QED
    BY <1>3, <2>1, ForgetStep DEF Offline!Close
<1>4. ASSUME NEW i \in Titles, Offline!Save(i) PROVE OfflineInv'
  BY <1>4, SaveStep
<1>5. ASSUME NEW f \in Flushes, Offline!Synced(f) \/ Offline!Done(f) PROVE OfflineInv'
  BY <1>5, SyncedStep, DoneStep
<1>6. ASSUME NEW g \in Flushes, Offline!Fails(g) PROVE OfflineInv'
  <2>1. flush' = [f \in Flushes |-> IF f \in {g} THEN Offline!NoFlush ELSE flush[f]]
    BY <1>6 DEF Offline!Fails, OfflineInv, Shapes
  <2>2. QED
    BY <1>6, <2>1, ForgetStep DEF Offline!Fails, Offline!Dropped, Offline!DroppedAfter
<1>7. CASE Offline!LinkDown \/ Offline!ServerGoes \/ Offline!ServerReturns \/ Offline!Boot \/ Offline!ProfileLoads \/ Offline!StopPlaying
  BY <1>7, OfflineIdle DEF Offline!LinkDown, Offline!ServerGoes, Offline!ServerReturns, Offline!Boot, Offline!ProfileLoads, Offline!StopPlaying, Offline!page
<1>8. ASSUME NEW i \in Titles, Offline!Play(i) PROVE OfflineInv'
  BY <1>8, OfflineIdle DEF Offline!Play
<1>9. QED
  BY <1>1, <1>2, <1>3, <1>4, <1>5, <1>6, <1>7, <1>8 DEF Offline!Next

(* The bounds are kept too. *)
LEMMA OfflineTypes ==
  ASSUME Offline!TypeOK, Offline!Next
  PROVE  Offline!TypeOK'
<1> USE DEF Offline!TypeOK, Offline!page
<1>1. MaxSaves \in Nat /\ MaxFaults \in Nat /\ MaxOutages \in Nat
  BY RecordWorlds DEF Offline!OfflineSyncAssumption
<1>2. Offline!Nothing \in [Titles -> 0..MaxSaves]
  BY <1>1 DEF Offline!Nothing
<1>3. ASSUME Offline!MarkOnline
      PROVE  /\ online' \in BOOLEAN
             /\ flush' \in [Flushes -> [at : {"idle", "sent", "ok"}, sent : [Titles -> 0..MaxSaves]]]
  BY <1>3 DEF Offline!MarkOnline, Offline!StartsFlush, Offline!Idle
<1>4. CASE Offline!LinkDown \/ Offline!ServerGoes \/ Offline!ServerReturns
  <2>1. online' \in {online, FALSE}
    BY <1>4, Zenon DEF Offline!LinkDown, Offline!ServerGoes, Offline!ServerReturns
  <2>2. outages' = outages \/ (outages < MaxOutages /\ outages' = outages + 1)
    BY <1>4, Zenon DEF Offline!LinkDown, Offline!ServerGoes, Offline!ServerReturns
  <2>3. outages' \in 0..MaxOutages
    BY <1>1, <2>2
  <2> QED  BY <1>4, <2>1, <2>3 DEF Offline!LinkDown, Offline!ServerGoes, Offline!ServerReturns
<1>5. CASE Offline!LinkUp
  BY <1>3, <1>5 DEF Offline!LinkUp
<1>6. CASE Offline!ProbeSucceeds
  BY <1>3, <1>6 DEF Offline!ProbeSucceeds
<1>7. CASE Offline!Boot \/ Offline!ProfileLoads \/ Offline!StopPlaying
  BY <1>7 DEF Offline!Boot, Offline!ProfileLoads, Offline!StopPlaying
<1>8. CASE Offline!Close
  <2>1. playing' \in Titles \cup {None} /\ open' \in BOOLEAN
    BY <1>8 DEF Offline!Close
  <2>2. flush' \in [Flushes -> [at : {"idle", "sent", "ok"}, sent : [Titles -> 0..MaxSaves]]]
    BY <1>2, <1>8 DEF Offline!Close, Offline!NoFlush
  <2> QED  BY <1>8, <2>1, <2>2 DEF Offline!Close
<1>9. ASSUME NEW i \in Titles, Offline!Play(i) \/ Offline!Save(i) PROVE Offline!TypeOK'
  BY <1>1, <1>9 DEF Offline!Play, Offline!Save
<1>10. ASSUME NEW f \in Flushes, Offline!Synced(f) PROVE Offline!TypeOK'
  BY <1>1, <1>10 DEF Offline!Synced
<1>11. ASSUME NEW f \in Flushes, Offline!Done(f) \/ Offline!Fails(f) PROVE Offline!TypeOK'
  <2>1. queue' \in [Titles -> 0..MaxSaves]
    BY <1>1, <1>11 DEF Offline!Done, Offline!Fails, Offline!Dropped, Offline!DroppedAfter
  <2>2. flush' = [flush EXCEPT ![f] = Offline!NoFlush]
    BY <1>11 DEF Offline!Done, Offline!Fails
  <2>3. Offline!NoFlush \in [at : {"idle", "sent", "ok"}, sent : [Titles -> 0..MaxSaves]]
    BY <1>2 DEF Offline!NoFlush
  <2>4. oFaults' \in 0..MaxFaults
    <3>1. oFaults' = oFaults \/ (oFaults < MaxFaults /\ oFaults' = oFaults + 1)
      BY <1>11, Zenon DEF Offline!Done, Offline!Fails
    <3> QED  BY <1>1, <3>1
  <2> QED  BY <1>11, <2>1, <2>2, <2>3, <2>4 DEF Offline!Done, Offline!Fails
<1> QED
  BY <1>4, <1>5, <1>6, <1>7, <1>8, <1>9, <1>10, <1>11 DEF Offline!Next

-----------------------------------------------------------------------------
(***************************************************************************)
(* DeviceDownloads: what is listed was saved, and may only be lost.        *)
(***************************************************************************)
DeviceInv == Device!TypeOK /\ Device!EntriesArePlayable

LEMMA NewRowIsARow ==
  ASSUME Device!Unborn # {}
  PROVE  Device!NewRow \in Device!Rows
<1>1. Device!Unborn \in SUBSET Nat
  BY DEF Device!Unborn, Device!Rows
<1>2. \E r \in Device!Unborn : \A q \in Device!Unborn : r <= q
  BY <1>1, Least
<1>3. Device!NewRow \in Device!Unborn
  BY <1>2 DEF Device!NewRow
<1> QED  BY <1>3 DEF Device!Unborn

LEMMA InitDevice == Device!Init => DeviceInv
  BY RecordWorlds DEF Device!DeviceDownloadsAssumption, Device!Init, DeviceInv, Device!TypeOK,
    Device!EntriesArePlayable, Device!NoList

LEMMA DeviceStep ==
  ASSUME DeviceInv, Device!Next
  PROVE  DeviceInv'
<1> USE DEF DeviceInv, Device!TypeOK, Device!EntriesArePlayable, Device!device, Device!NoList
<1>0. MaxFaults \in Nat
  BY RecordWorlds DEF Device!DeviceDownloadsAssumption
<1>1. ASSUME NEW fromDetail \in BOOLEAN, Device!Create(fromDetail) PROVE DeviceInv'
  BY <1>1, NewRowIsARow DEF Device!Create
<1>2. CASE Device!Leave
  BY <1>2 DEF Device!Leave
<1>3. CASE Device!List
  BY <1>3 DEF Device!List
<1>4. CASE Device!Reconcile
  BY <1>4 DEF Device!Reconcile
<1>5. ASSUME NEW r \in Device!Rows,
             Device!Built(r) \/ Device!Waited(r) \/ Device!Start(r) \/ Device!SaveFails(r)
      PROVE DeviceInv'
  BY <1>0, <1>5 DEF Device!Built, Device!Waited, Device!Start, Device!SaveFails
<1>6. ASSUME NEW r \in Device!Rows, Device!Saved(r) PROVE DeviceInv'
  BY <1>6 DEF Device!Saved
<1>7. ASSUME NEW r \in Device!Rows, Device!DeleteLands(r) \/ Device!Delete(r) \/ Device!Forget(r)
      PROVE DeviceInv'
  BY <1>7 DEF Device!DeleteLands, Device!Delete, Device!Forget
<1>8. ASSUME NEW r \in Device!Rows, Device!LoseFile(r) PROVE DeviceInv'
  BY <1>0, <1>8 DEF Device!LoseFile
<1> QED
  BY <1>1, <1>2, <1>3, <1>4, <1>5, <1>6, <1>7, <1>8 DEF Device!Next

-----------------------------------------------------------------------------
(***************************************************************************)
(* StartPoint: a session is spawned with what its probes found; a keyframe *)
(* that is in the seek table is where the demuxer lands.                   *)
(***************************************************************************)
LEMMA MaxIs ==
  ASSUME NEW S \in SUBSET Int, NEW x \in S, \A y \in S : x >= y
  PROVE  Point!Max(S) = x
<1>1. Point!Max(S) \in S /\ \A y \in S : Point!Max(S) >= y
  BY DEF Point!Max
<1>2. Point!Max(S) >= x /\ x >= Point!Max(S) /\ Point!Max(S) \in Int
  BY <1>1
<1> QED  BY <1>2

LEMMA MinIs ==
  ASSUME NEW S \in SUBSET Int, NEW x \in S, \A y \in S : x <= y
  PROVE  Point!Min(S) = x
<1>1. Point!Min(S) \in S /\ \A y \in S : Point!Min(S) <= y
  BY DEF Point!Min
<1>2. Point!Min(S) <= x /\ x <= Point!Min(S) /\ Point!Min(S) \in Int
  BY <1>1
<1> QED  BY <1>2

LEMMA OfTwo ==
  ASSUME NEW a \in Int, NEW b \in Int
  PROVE  /\ Point!Max({a, b}) = IF a >= b THEN a ELSE b
         /\ Point!Min({a, b}) = IF a <= b THEN a ELSE b
<1>1. {a, b} \in SUBSET Int
  OBVIOUS
<1>2. CASE a >= b
  BY <1>1, <1>2, MaxIs, MinIs
<1>3. CASE ~(a >= b)
  BY <1>1, <1>3, MaxIs, MinIs
<1> QED  BY <1>2, <1>3

(* The last known point at or before a time is one, and the time itself if *)
(* that is known.                                                          *)
LEMMA LastIsBefore ==
  ASSUME NEW points \in SUBSET Point!Times, 0 \in points, NEW t \in Point!Times
  PROVE  /\ Point!LastAtOrBefore(points, t) \in points
         /\ Point!LastAtOrBefore(points, t) <= t
         /\ t \in points => Point!LastAtOrBefore(points, t) = t
<1> DEFINE S == {p \in points : p <= t}
<1>1. Duration \in Nat /\ S \in SUBSET (0..Duration) /\ 0 \in S
  <2>1. Duration \in Nat
    BY RecordWorlds DEF Point!StartPointAssumption
  <2>2. t \in 0..Duration /\ points \in SUBSET (0..Duration)
    BY DEF Point!Times
  <2>3. 0 <= t
    BY <2>1, <2>2
  <2> QED  BY <2>1, <2>2, <2>3
<1>2. PICK x \in S : \A y \in S : x >= y
  BY <1>1, Greatest
<1>3. S \in SUBSET Int
  BY <1>1
<1>4. Point!Max(S) = x
  BY <1>2, <1>3, MaxIs
<1>5. Point!LastAtOrBefore(points, t) = x
  BY <1>4 DEF Point!LastAtOrBefore
<1>6. t \in points => x >= t
  BY <1>2 DEF Point!Times
<1> QED  BY <1>1, <1>5, <1>6 DEF Point!Times

Points == [pc : {"idle", "heal", "probe", "pipe", "spawn", "running"}, method : Point!Methods,
           target : Point!Times, anchor : Point!Times \cup {Point!Unknown},
           start : Point!Times, piped : BOOLEAN, origin : Point!Times]

(* What a session about to be spawned has found. *)
PointInv ==
  /\ input \in Inputs
  /\ pRow \in [pos : Point!Times, dur : 0..Duration, watched : BOOLEAN]
  /\ point \in Points
  /\ point.pc = "pipe" => point.method = "REMUX"
  /\ point.pc = "spawn" /\ point.method = "TRANSCODE" =>
       /\ point.start = point.target
       /\ point.anchor # Point!Unknown => point.anchor <= point.start
  /\ Point!AnchoredStartsAreExact

LEMMA FilesFit ==
  ASSUME NEW f \in Inputs
  PROVE  /\ Duration \in Nat /\ Margin \in Nat /\ 0 \in Point!Times
         /\ f.table \in SUBSET Point!Times /\ 0 \in f.table
         /\ f.keyframes \in SUBSET Point!Times /\ 0 \in f.keyframes
<1>1. /\ Duration \in Nat /\ Margin \in Nat
      /\ 0 \in f.table /\ f.table \subseteq f.keyframes /\ f.keyframes \subseteq 0..Duration
  BY RecordWorlds DEF Point!StartPointAssumption
<1>2. 0 \in 0..Duration
  BY <1>1
<1> QED  BY <1>1, <1>2 DEF Point!Times

LEMMA InitPoint == Point!Init => PointInv
<1> SUFFICES ASSUME Point!Init PROVE PointInv
  OBVIOUS
<1>1. input \in Inputs /\ Duration \in Nat /\ Margin \in Nat /\ 0 \in Point!Times
  BY FilesFit DEF Point!Init
<1> DEFINE left == Point!Max({0, Duration - 2 * Margin - 1})
<1>2. left \in 0..Duration /\ Duration \in 0..Duration
  BY <1>1, OfTwo
<1>3. pRow \in [pos : Point!Times, dur : 0..Duration, watched : BOOLEAN]
  <2>1. pRow \in [pos : Point!Times, watched : {FALSE}, dur : {Duration, left}]
    BY DEF Point!Init
  <2> HIDE DEF left
  <2> QED  BY <1>2, <2>1
<1> QED
  BY <1>1, <1>3 DEF Point!Init, PointInv, Points, Point!NoSession, Point!Methods, Point!AnchoredStartsAreExact

LEMMA ResumeFits ==
  ASSUME PointInv
  PROVE  Point!ResumePosition \in Point!Times
<1>1. Duration \in Nat /\ Margin \in Nat /\ 0 \in Point!Times /\ pRow.pos \in 0..Duration
  BY FilesFit DEF PointInv, Point!Times
<1> DEFINE last == Point!Max({0, Duration - Margin})
<1>2. last \in 0..Duration
  BY <1>1, OfTwo
<1>3. Point!Min({pRow.pos, last}) \in 0..Duration
  <2> HIDE DEF last
  <2>1. Point!Min({pRow.pos, last}) = IF pRow.pos <= last THEN pRow.pos ELSE last
    <3>1. pRow.pos \in Int /\ last \in Int
      BY <1>1, <1>2
    <3> QED  BY <3>1, OfTwo
  <2> QED  BY <1>1, <1>2, <2>1
<1> QED  BY <1>1, <1>3 DEF Point!ResumePosition, Point!Times

LEMMA SpawnExact ==
  ASSUME PointInv, Point!Spawn
  PROVE  PointInv'
<1>1. PICK s \in Points : s = point
  BY DEF PointInv
<1> DEFINE o == IF s.method = "REMUX" THEN Point!RemuxOrigin ELSE Point!TranscodeOrigin
<1>2. /\ Duration \in Nat /\ Margin \in Nat /\ 0 \in Point!Times
      /\ input.table \in SUBSET Point!Times /\ 0 \in input.table
  BY FilesFit DEF PointInv
<1>3. /\ s.start \in 0..Duration /\ s.target \in 0..Duration
      /\ s.anchor \in (0..Duration) \cup {-1}
      /\ s.method \in {"REMUX", "TRANSCODE"}
  BY <1>1 DEF Points, Point!Times, Point!Unknown, Point!Methods
<1>4. ASSUME s.method = "REMUX"
      PROVE  o \in Point!Times /\ (s.piped \/ s.start \in input.table => o = s.start)
  <2>1. /\ Point!Landing(s.start) \in Point!Times
        /\ s.start \in input.table => Point!Landing(s.start) = s.start
    BY <1>2, <1>3, LastIsBefore DEF Point!Landing, Point!Times
  <2> QED  BY <1>1, <1>3, <1>4, <2>1 DEF Point!RemuxOrigin, Point!Times
<1>5. ASSUME s.method = "TRANSCODE"
      PROVE  o \in Point!Times /\ (s.anchor \in input.table => o = s.start /\ s.start = s.target)
  <2>1. /\ s.start = s.target /\ (s.anchor # -1 => s.anchor <= s.start)
    BY <1>1, <1>5 DEF PointInv, Point!Spawn, Point!Unknown
  <2>2. Point!FastSeek \in 0..Duration /\ Point!FastSeek <= s.start
        /\ (s.anchor # -1 => Point!FastSeek = s.anchor)
    <3>1. Point!Max({0, s.start - Margin}) \in 0..Duration /\ Point!Max({0, s.start - Margin}) <= s.start
      BY <1>2, <1>3, OfTwo
    <3> QED  BY <1>1, <1>3, <2>1, <3>1 DEF Point!FastSeek, Point!Unknown
  <2>3. /\ Point!Landing(Point!FastSeek) \in Point!Times
        /\ Point!Landing(Point!FastSeek) <= Point!FastSeek
        /\ Point!FastSeek \in input.table => Point!Landing(Point!FastSeek) = Point!FastSeek
    BY <1>2, <2>2, LastIsBefore DEF Point!Landing, Point!Times
  <2>4. Point!Max({0, s.start - Point!FastSeek}) = s.start - Point!FastSeek
    BY <1>3, <2>2, OfTwo
  <2>5. o = Point!Landing(Point!FastSeek) + (s.start - Point!FastSeek)
    BY <1>1, <1>5, <2>4 DEF Point!TranscodeOrigin
  <2>6. o \in Point!Times
    BY <1>2, <1>3, <2>2, <2>3, <2>5 DEF Point!Times
  <2>7. s.anchor \in input.table => o = s.start
    BY <1>2, <1>3, <2>2, <2>3, <2>5 DEF Point!Times
  <2> QED  BY <2>1, <2>6, <2>7
<1>6. point' = [s EXCEPT !.pc = "running", !.origin = o] /\ UNCHANGED <<input, pRow>>
  BY <1>1 DEF Point!Spawn
<1>7. /\ o \in Point!Times
      /\ s.method = "REMUX" /\ (s.piped \/ s.start \in input.table) => o = s.start
      /\ s.method = "TRANSCODE" /\ s.anchor \in input.table => o = s.start /\ s.start = s.target
  BY <1>3, <1>4, <1>5
<1> HIDE DEF o
<1>8. /\ point' \in Points /\ point'.pc = "running" /\ point'.origin = o /\ point'.start = s.start
      /\ point'.target = s.target /\ point'.method = s.method /\ point'.piped = s.piped
      /\ point'.anchor = s.anchor
  BY <1>6, <1>7 DEF Points
<1>9. Point!AnchoredStartsAreExact'
  BY <1>6, <1>7, <1>8 DEF Point!AnchoredStartsAreExact, Point!Anchored
<1> QED  BY <1>6, <1>8, <1>9 DEF PointInv

LEMMA PointStep ==
  ASSUME PointInv, Point!Next
  PROVE  PointInv'
<1> USE DEF PointInv, Points, Point!AnchoredStartsAreExact
<1>0. /\ Duration \in Nat /\ Margin \in Nat /\ 0 \in Point!Times
      /\ input.keyframes \in SUBSET Point!Times /\ 0 \in input.keyframes
  BY FilesFit
<1>1. ASSUME NEW method \in Point!Methods, Point!Start(method) PROVE PointInv'
  BY <1>0, <1>1, ResumeFits DEF Point!Start, Point!NoSession
<1>2. CASE Point!Heal
  <2>1. pRow' \in [pos : Point!Times, dur : 0..Duration, watched : BOOLEAN]
    BY <1>0, <1>2, Duration \in 0..Duration DEF Point!Heal
  <2> QED  BY <1>2, <2>1 DEF Point!Heal
<1>3. CASE Point!ProbeRemux
  <2>1. Point!Keyframe(point.target) \in Point!Times
    BY <1>0, LastIsBefore DEF Point!Keyframe
  <2> QED  BY <1>3, <2>1 DEF Point!ProbeRemux
<1>4. CASE Point!ProbeTranscode
  <2>1. /\ Point!Anchor(point.target) \in Point!Times \cup {Point!Unknown}
        /\ Point!Anchor(point.target) # Point!Unknown => Point!Anchor(point.target) <= point.target
    BY <1>0, LastIsBefore DEF Point!Anchor, Point!Keyframe
  <2>2. PICK anchor \in {Point!Unknown, Point!Anchor(point.target)} :
          point' = [point EXCEPT !.pc = "spawn", !.start = point.target, !.anchor = anchor, !.piped = FALSE]
    BY <1>4 DEF Point!ProbeTranscode
  <2>3. /\ anchor \in Point!Times \cup {Point!Unknown}
        /\ anchor # Point!Unknown => anchor <= point.target
    BY <2>1
  <2>4. point' \in Points /\ point'.pc = "spawn" /\ point'.start = point'.target /\ point'.anchor = anchor
        /\ point'.start = point.target
    BY <2>2, <2>3
  <2> QED  BY <1>4, <2>3, <2>4 DEF Point!ProbeTranscode
<1>5. CASE Point!Pipe
  <2>1. Point!Pipeable \in BOOLEAN
    BY DEF Point!Pipeable
  <2> QED  BY <1>5, <2>1 DEF Point!Pipe
<1>6. CASE Point!Spawn
  BY <1>6, SpawnExact
<1>7. CASE Point!Stop
  BY <1>0, <1>7 DEF Point!Stop, Point!NoSession, Point!Methods
<1>8. ASSUME NEW t \in Point!Times, Point!Restart(t) PROVE PointInv'
  BY <1>8 DEF Point!Restart
<1>9. ASSUME NEW t \in Point!Times, Point!Heartbeat(t) PROVE PointInv'
  BY <1>0, <1>9 DEF Point!Heartbeat, Point!Anchored
<1>10. ASSUME NEW watched \in BOOLEAN, Point!Mark(watched) PROVE PointInv'
  BY <1>10 DEF Point!Mark, Point!Anchored
<1> QED
  BY <1>1, <1>2, <1>3, <1>4, <1>5, <1>6, <1>7, <1>8, <1>9, <1>10 DEF Point!Next

-----------------------------------------------------------------------------
(***************************************************************************)
(* PlaybackLadder: what a page has tried, the file is known for, so the    *)
(* rung below was reached.                                                 *)
(***************************************************************************)
Methods == {"DIRECT_PLAY", "REMUX", "TRANSCODE"}
Flags   == [audio : BOOLEAN, video : BOOLEAN]
Streams == {Ladder!Stream(m, Ladder!File(t), Profile[v], b) :
              m \in Methods, t \in DOMAIN Row.tracks, v \in Viewers, b \in Flags}

Pages ==
  [pc : {"playing", "calling", "card"}, method : Methods, stream : Streams,
   track : DOMAIN Row.tracks, first : 1..Ladder!NoCap, cap : 1..Ladder!Ceiling,
   triedAudio : BOOLEAN, triedVideo : BOOLEAN,
   asked : {"nothing", "audio", "video", "caps", "reset"}, want : 0..Ladder!NoCap]

LadderTypes ==
  /\ bytes \in Defects /\ broken \in Flags
  /\ viewer \in [Viewers -> Pages \cup {Ladder!Off}]
  /\ lSpent \in [menu : Nat, busy : Nat, hiccup : Nat, rescan : Nat]

Asking(p, what) == p.pc = "calling" /\ p.asked = what

(* A page that reported its audio is off direct play, or about to be, and   *)
(* one that reported its video is on the last rung, or about to be.        *)
Climbs(p, flags) ==
  /\ p.asked = "caps" => p.want # 0
  /\ p.method = "TRANSCODE" => ~p.stream.sameVideo /\ ~p.stream.sameAudio
  /\ p.triedAudio => flags.audio \/ (Asking(p, "audio") /\ p.method = "DIRECT_PLAY")
  /\ p.triedAudio /\ p.method = "DIRECT_PLAY" => p.pc = "card" \/ Asking(p, "audio")
  /\ p.triedVideo => p.method # "DIRECT_PLAY"
  /\ p.triedVideo => flags.video \/ Asking(p, "video")
  /\ p.triedVideo /\ p.pc = "playing" => p.method = "TRANSCODE"
  /\ p.triedVideo /\ p.pc = "calling" => p.method = "TRANSCODE" \/ p.asked = "video"

LadderInv ==
  /\ LadderTypes
  /\ \A v \in Viewers : viewer[v] # Ladder!Off => Climbs(viewer[v], broken)

(* What a stream is made of its file. *)
LEMMA StreamIs ==
  ASSUME NEW m, NEW f, NEW d, NEW b \in Flags
  PROVE  /\ m = "TRANSCODE" => ~Ladder!Stream(m, f, d, b).sameVideo
         /\ m \notin {"DIRECT_PLAY", "REMUX"} => ~Ladder!Stream(m, f, d, b).sameAudio
         /\ m # "DIRECT_PLAY" /\ b.audio => ~Ladder!Stream(m, f, d, b).sameAudio
  BY DEF Ladder!Stream, Ladder!RemuxCopiesAudio, Flags

(* The decision, and what a reported stream rules out. *)
LEMMA MethodIs ==
  ASSUME NEW f, NEW d, NEW cap, NEW b \in Flags
  PROVE  /\ Ladder!Method(f, d, cap, b) \in Methods
         /\ b.audio => Ladder!Method(f, d, cap, b) # "DIRECT_PLAY"
         /\ b.video => Ladder!Method(f, d, cap, b) = "TRANSCODE"
  BY DEF Ladder!Method, Ladder!Copyable, Ladder!VideoOk, Ladder!AudioOk, Methods, Flags

LEMMA TrackIsOne ==
  ASSUME NEW asked
  PROVE  Ladder!Track(Row.tracks, asked) \in DOMAIN Row.tracks
<1>1. DOMAIN Row.tracks \subseteq Nat /\ DOMAIN Row.tracks # {}
  BY RecordWorlds DEF Ladder!PlaybackLadderAssumption
<1> DEFINE marked == {i \in DOMAIN Row.tracks : Row.tracks[i].default}
           from   == IF marked = {} THEN DOMAIN Row.tracks ELSE marked
<1>2. from \in SUBSET Nat /\ from # {} /\ from \subseteq DOMAIN Row.tracks
  BY <1>1
<1>3. \E i \in from : \A j \in from : i <= j
  BY <1>2, Least
<1>4. (CHOOSE i \in from : \A j \in from : i <= j) \in from
  BY <1>3
<1> QED  BY <1>2, <1>4 DEF Ladder!Track

LEMMA PlayedIsOne ==
  ASSUME NEW m, NEW t \in DOMAIN Row.tracks
  PROVE  Ladder!Played(m, t) \in DOMAIN Row.tracks
  BY TrackIsOne DEF Ladder!Played, Ladder!First

LEMMA CapFits ==
  ASSUME NEW cap \in 1..Ladder!NoCap
  PROVE  Ladder!Normalized(cap) \in 1..Ladder!Ceiling
  BY DEF Ladder!Normalized, Ladder!NoCap, Ladder!Ceiling

-----------------------------------------------------------------------------
LEMMA InitLadder == Ladder!Init => LadderInv
<1>1. MaxMenu \in Nat /\ MaxBusy \in Nat /\ MaxHiccups \in Nat /\ MaxRescans \in Nat
  BY RecordWorlds DEF Ladder!PlaybackLadderAssumption
<1> QED  BY <1>1 DEF Ladder!Init, LadderInv, LadderTypes, Flags

(* One page moves; the flags only gain. *)
LEMMA OnePage ==
  ASSUME LadderInv, NEW v \in Viewers, NEW p,
         viewer' = [viewer EXCEPT ![v] = p],
         p = Ladder!Off \/ (p \in Pages /\ Climbs(p, broken')),
         broken' \in Flags, broken.audio => broken'.audio, broken.video => broken'.video,
         bytes' \in Defects,
         lSpent' \in [menu : Nat, busy : Nat, hiccup : Nat, rescan : Nat]
  PROVE  LadderInv'
<1>1. LadderTypes'
  BY DEF LadderInv, LadderTypes
<1>2. ASSUME NEW u \in Viewers, viewer'[u] # Ladder!Off
      PROVE  Climbs(viewer'[u], broken')
  <2>1. CASE u = v
    BY <1>2, <2>1 DEF LadderInv, LadderTypes
  <2>2. CASE u # v
    <3>1. viewer'[u] = viewer[u]
      BY <2>2 DEF LadderInv, LadderTypes
    <3>2. Climbs(viewer[u], broken)
      BY <1>2, <3>1 DEF LadderInv
    <3> QED  BY <3>1, <3>2 DEF Climbs
  <2> QED  BY <2>1, <2>2
<1> QED  BY <1>1, <1>2 DEF LadderInv

(* A page that is on. *)
LEMMA PageIs ==
  ASSUME LadderInv, NEW v \in Viewers, viewer[v].pc # "off"
  PROVE  viewer[v] \in Pages /\ Climbs(viewer[v], broken)
<1>1. Ladder!Off.pc = "off"
  BY DEF Ladder!Off
<1> QED  BY <1>1 DEF LadderInv, LadderTypes

LEMMA Spends ==
  ASSUME LadderInv, NEW what \in {"menu", "busy", "hiccup", "rescan"}, Ladder!Spend(what)
  PROVE  lSpent' \in [menu : Nat, busy : Nat, hiccup : Nat, rescan : Nat]
  BY DEF LadderInv, LadderTypes, Ladder!Spend

(* Every page plays some file of its device's. *)
LEMMA SentIsAStream ==
  ASSUME NEW m \in Methods, NEW t \in DOMAIN Row.tracks, NEW v \in Viewers, NEW b \in Flags
  PROVE  Ladder!Stream(m, Ladder!File(t), Profile[v], b) \in Streams
  BY DEF Streams

LEMMA StartStep ==
  ASSUME LadderInv, NEW v \in Viewers, NEW cap \in StartCaps, NEW asked \in DOMAIN Row.tracks,
         Ladder!Start(v, cap, asked)
  PROVE  LadderInv'
<1> DEFINE method == Ladder!Method(Ladder!File(asked), Profile[v], cap, broken)
           track  == Ladder!Played(method, Ladder!Track(Row.tracks, asked))
           stream == Ladder!Stream(method, Ladder!File(track), Profile[v], broken)
           page   == [pc |-> "playing", method |-> method, stream |-> stream,
                      track |-> track, first |-> cap, cap |-> Ladder!Normalized(cap),
                      triedAudio |-> FALSE, triedVideo |-> FALSE,
                      asked |-> "nothing", want |-> 0]
<1>1. /\ viewer' = [viewer EXCEPT ![v] = page]
      /\ UNCHANGED <<bytes, broken, lSpent>>
  BY DEF Ladder!Start, Ladder!Sent
<1>2. cap \in 1..Ladder!NoCap /\ broken \in Flags
  BY RecordWorlds DEF Ladder!PlaybackLadderAssumption, LadderInv, LadderTypes
<1>3. method \in Methods /\ track \in DOMAIN Row.tracks
  BY <1>2, MethodIs, TrackIsOne, PlayedIsOne
<1>4. stream \in Streams /\ (method = "TRANSCODE" => ~stream.sameVideo /\ ~stream.sameAudio)
  BY <1>2, <1>3, SentIsAStream, StreamIs
<1>5. page \in Pages
  <2>1. Ladder!Normalized(cap) \in 1..Ladder!Ceiling /\ 0 \in 0..Ladder!NoCap
    BY <1>2, CapFits DEF Ladder!NoCap
  <2> HIDE DEF method, track, stream
  <2> QED  BY <1>2, <1>3, <1>4, <2>1 DEF Pages
<1>6. Climbs(page, broken')
  <2> HIDE DEF method, track, stream
  <2> QED  BY <1>4 DEF Climbs
<1> HIDE DEF page
<1> QED  BY <1>1, <1>2, <1>5, <1>6, OnePage DEF LadderInv, LadderTypes

(* A page that asks for something: what it has tried it has asked for. *)
LEMMA AskStep ==
  ASSUME LadderInv, NEW v \in Viewers, viewer[v].pc = "playing",
         NEW what \in {"audio", "video", "caps", "reset"}, NEW want \in 0..Ladder!NoCap,
         what = "caps" => want # 0,
         NEW a \in BOOLEAN, NEW c \in BOOLEAN,
         a => viewer[v].triedAudio \/ (what = "audio" /\ viewer[v].method = "DIRECT_PLAY"),
         c => viewer[v].triedVideo \/ (what = "video" /\ viewer[v].method # "DIRECT_PLAY"),
         viewer' = [viewer EXCEPT ![v] = [viewer[v] EXCEPT
                      !.pc = "calling", !.asked = what, !.want = want,
                      !.triedAudio = a, !.triedVideo = c]],
         UNCHANGED <<bytes, broken>>,
         lSpent' \in [menu : Nat, busy : Nat, hiccup : Nat, rescan : Nat]
  PROVE  LadderInv'
<1> DEFINE old  == viewer[v]
           page == [old EXCEPT !.pc = "calling", !.asked = what, !.want = want,
                               !.triedAudio = a, !.triedVideo = c]
<1>1. old \in Pages /\ Climbs(old, broken)
  BY PageIs
<1> HIDE DEF old
<1>2. page \in Pages
  BY <1>1 DEF Pages
<1>3. /\ page.pc = "calling" /\ page.asked = what /\ page.want = want
      /\ page.triedAudio = a /\ page.triedVideo = c
      /\ page.method = old.method /\ page.stream = old.stream
  BY <1>1 DEF Pages
<1>4. old.pc = "playing"
  BY DEF old
<1>5. /\ a => old.triedAudio \/ (what = "audio" /\ old.method = "DIRECT_PLAY")
      /\ c => old.triedVideo \/ (what = "video" /\ old.method # "DIRECT_PLAY")
  BY DEF old
<1> HIDE DEF page
<1>6. Climbs(page, broken)
  BY <1>1, <1>3, <1>4, <1>5 DEF Climbs, Asking
<1>7. viewer' = [viewer EXCEPT ![v] = page] /\ broken \in Flags /\ bytes \in Defects
  BY DEF page, old, LadderInv, LadderTypes
<1> QED  BY <1>2, <1>6, <1>7, OnePage DEF LadderInv, LadderTypes

(* A page that shows the error card. *)
LEMMA CardStep ==
  ASSUME LadderInv, NEW v \in Viewers, viewer[v].pc = "playing",
         viewer' = [viewer EXCEPT ![v].pc = "card"], UNCHANGED <<bytes, broken>>,
         lSpent' \in [menu : Nat, busy : Nat, hiccup : Nat, rescan : Nat]
  PROVE  LadderInv'
<1> DEFINE old  == viewer[v]
           page == [old EXCEPT !.pc = "card"]
<1>1. old \in Pages /\ Climbs(old, broken) /\ old.pc = "playing"
  BY PageIs
<1> HIDE DEF old
<1>2. page \in Pages /\ Climbs(page, broken)
  BY <1>1 DEF Pages, Climbs, Asking
<1>3. viewer' = [viewer EXCEPT ![v] = page] /\ broken \in Flags /\ bytes \in Defects
  BY DEF old, LadderInv, LadderTypes
<1> HIDE DEF page
<1> QED  BY <1>2, <1>3, OnePage

LEMMA EscalateStep ==
  ASSUME LadderInv, NEW v \in Viewers, viewer[v].pc = "playing",
         Ladder!Escalate(v), UNCHANGED <<bytes, broken>>,
         lSpent' \in [menu : Nat, busy : Nat, hiccup : Nat, rescan : Nat]
  PROVE  LadderInv'
<1>1. viewer[v] \in Pages /\ viewer \in [Viewers -> Pages \cup {Ladder!Off}]
  BY PageIs DEF LadderInv, LadderTypes
<1>2. viewer[v].triedAudio \in BOOLEAN /\ viewer[v].triedVideo \in BOOLEAN /\ 0 \in 0..Ladder!NoCap
  BY <1>1 DEF Pages, Ladder!NoCap
<1>3. CASE Ladder!AudioFirst(v) /\ viewer' = [Ladder!Ask(v, "audio", 0) EXCEPT ![v].triedAudio = TRUE]
  <2>1. viewer' = [viewer EXCEPT ![v] = [viewer[v] EXCEPT
                     !.pc = "calling", !.asked = "audio", !.want = 0,
                     !.triedAudio = TRUE, !.triedVideo = viewer[v].triedVideo]]
    BY <1>1, <1>3 DEF Ladder!Ask, Pages
  <2>2. viewer[v].method = "DIRECT_PLAY"
    BY <1>3 DEF Ladder!AudioFirst, Ladder!Live
  <2> QED  BY <1>2, <2>1, <2>2, AskStep
<1>4. CASE Ladder!VideoNext(v) /\ viewer' = [Ladder!Ask(v, "video", 0) EXCEPT ![v].triedVideo = TRUE]
  <2>1. viewer' = [viewer EXCEPT ![v] = [viewer[v] EXCEPT
                     !.pc = "calling", !.asked = "video", !.want = 0,
                     !.triedAudio = viewer[v].triedAudio, !.triedVideo = TRUE]]
    BY <1>1, <1>4 DEF Ladder!Ask, Pages
  <2>2. viewer[v].method # "DIRECT_PLAY"
    BY <1>4 DEF Ladder!VideoNext, Ladder!Live
  <2> QED  BY <1>2, <2>1, <2>2, AskStep
<1>5. CASE viewer' = [viewer EXCEPT ![v].pc = "card"]
  BY <1>5, CardStep
<1> QED  BY <1>3, <1>4, <1>5 DEF Ladder!Escalate

LEMMA MenuStep ==
  ASSUME LadderInv, NEW v \in Viewers, NEW want \in 1..Ladder!NoCap, Ladder!Menu(v, want)
  PROVE  LadderInv'
<1> DEFINE what == IF want = Ladder!NoCap THEN "reset" ELSE "caps"
<1>1. /\ viewer[v].pc = "playing" /\ UNCHANGED <<bytes, broken>>
      /\ viewer' = Ladder!Ask(v, what, want)
      /\ lSpent' \in [menu : Nat, busy : Nat, hiccup : Nat, rescan : Nat]
  BY Spends DEF Ladder!Menu, Ladder!Watching
<1>2. viewer[v] \in Pages /\ viewer \in [Viewers -> Pages \cup {Ladder!Off}]
  BY <1>1, PageIs DEF LadderInv, LadderTypes
<1>3. viewer[v].triedAudio \in BOOLEAN /\ viewer[v].triedVideo \in BOOLEAN /\ want \in 0..Ladder!NoCap /\ want # 0
  BY <1>2 DEF Pages, Ladder!NoCap
<1>4. what \in {"audio", "video", "caps", "reset"}
  OBVIOUS
<1> HIDE DEF what
<1>5. viewer' = [viewer EXCEPT ![v] = [viewer[v] EXCEPT
                   !.pc = "calling", !.asked = what, !.want = want,
                   !.triedAudio = viewer[v].triedAudio, !.triedVideo = viewer[v].triedVideo]]
  BY <1>1, <1>2 DEF Ladder!Ask, Pages
<1>6. what = "caps" => want # 0
  BY <1>3
<1>7. viewer[v].pc = "playing" /\ UNCHANGED <<bytes, broken>>
      /\ lSpent' \in [menu : Nat, busy : Nat, hiccup : Nat, rescan : Nat]
  BY <1>1
<1> QED  BY <1>3, <1>4, <1>5, <1>6, <1>7, AskStep

(* Nothing is decided again unless a report was believed. *)
LEMMA UnchangedStep ==
  ASSUME LadderInv, NEW v \in Viewers, Ladder!Unchanged(v)
  PROVE  LadderInv'
<1> DEFINE old  == viewer[v]
           page == [old EXCEPT !.pc = "playing"]
<1>1. /\ old \in Pages /\ Climbs(old, broken) /\ old.pc = "calling"
      /\ viewer' = [viewer EXCEPT ![v] = page] /\ UNCHANGED <<bytes, broken, lSpent>>
  BY PageIs DEF Ladder!Unchanged
<1>2. old.method # "DIRECT_PLAY" /\ old.asked # "video"
  BY DEF Ladder!Unchanged, Ladder!NothingToDo, Ladder!Believed, Ladder!Live
<1> HIDE DEF old
<1>3. page \in Pages /\ Climbs(page, broken)
  BY <1>1, <1>2 DEF Pages, Climbs, Asking
<1> HIDE DEF page
<1> QED  BY <1>1, <1>3, OnePage DEF LadderInv, LadderTypes

(* What a call that is decided again finds. *)
LEMMA CallIs ==
  ASSUME LadderInv, NEW v \in Viewers, viewer[v].pc = "calling"
  PROVE  /\ viewer[v] \in Pages /\ Climbs(viewer[v], broken) /\ broken \in Flags
         /\ Ladder!Marked(v) \in Flags
         /\ broken.audio => Ladder!Marked(v).audio
         /\ broken.video => Ladder!Marked(v).video
         /\ viewer[v].triedAudio => Ladder!Marked(v).audio
         /\ viewer[v].triedVideo => Ladder!Marked(v).video
         /\ Ladder!Merged(v) \in 1..Ladder!NoCap
<1> DEFINE old == viewer[v]
<1>1. old \in Pages /\ Climbs(old, broken) /\ broken \in Flags /\ old.pc = "calling"
  BY PageIs DEF LadderInv, LadderTypes
<1>2. broken.audio \in BOOLEAN /\ broken.video \in BOOLEAN
  BY <1>1 DEF Flags
<1>3. Ladder!Marked(v) = [audio |-> broken.audio \/ (old.asked = "audio" /\ old.method = "DIRECT_PLAY"),
                          video |-> broken.video \/ (old.asked = "video" /\ old.method # "DIRECT_PLAY")]
  BY <1>2 DEF Ladder!Marked, Ladder!Believed, Ladder!Live
<1>4. Ladder!Merged(v) = CASE old.asked = "reset" -> old.first
                           [] old.asked = "caps"  -> old.want
                           [] OTHER -> IF old.method # "DIRECT_PLAY" THEN old.cap ELSE old.first
  BY DEF Ladder!Merged, Ladder!Live
<1> HIDE DEF old
<1>5. Ladder!Merged(v) \in 1..Ladder!NoCap
  <2>1. /\ old.first \in 1..Ladder!NoCap /\ old.cap \in 1..Ladder!NoCap
        /\ old.asked = "caps" => old.want \in 1..Ladder!NoCap
    BY <1>1 DEF Pages, Climbs, Ladder!NoCap, Ladder!Ceiling
  <2> QED  BY <1>4, <2>1
<1>6. /\ Ladder!Marked(v) \in Flags
      /\ broken.audio => Ladder!Marked(v).audio
      /\ broken.video => Ladder!Marked(v).video
  BY <1>2, <1>3 DEF Flags
<1>7. old.triedAudio => Ladder!Marked(v).audio
  <2>1. Ladder!Marked(v).audio = (broken.audio \/ (old.asked = "audio" /\ old.method = "DIRECT_PLAY"))
    BY <1>3
  <2>2. old.triedAudio => broken.audio \/ (old.asked = "audio" /\ old.method = "DIRECT_PLAY")
    BY <1>1, Zenon DEF Climbs, Asking
  <2> QED  BY <2>1, <2>2, Zenon
<1>8. old.triedVideo => Ladder!Marked(v).video
  <2>1. Ladder!Marked(v).video = (broken.video \/ (old.asked = "video" /\ old.method # "DIRECT_PLAY"))
    BY <1>3
  <2>2. old.triedVideo => broken.video \/ (old.asked = "video" /\ old.method # "DIRECT_PLAY")
    BY <1>1, Zenon DEF Climbs, Asking
  <2> QED  BY <2>1, <2>2, Zenon
<1> QED  BY <1>1, <1>5, <1>6, <1>7, <1>8 DEF old

LEMMA ServeStep ==
  ASSUME LadderInv, NEW v \in Viewers, viewer[v].pc = "calling", Ladder!Serve(v)
  PROVE  LadderInv'
<1> DEFINE old    == viewer[v]
           flags  == Ladder!Marked(v)
           method == Ladder!Decided(v)
           track  == Ladder!Played(method, old.track)
           stream == Ladder!Stream(method, Ladder!File(track), Profile[v], flags)
           cap    == Ladder!Normalized(Ladder!Merged(v))
           page   == [old EXCEPT !.pc = "playing", !.method = method, !.track = track,
                                 !.stream = stream, !.cap = cap]
<1>1. /\ broken' = flags
      /\ viewer' = [viewer EXCEPT ![v] = page]
      /\ UNCHANGED <<bytes, lSpent>>
  BY DEF Ladder!Serve
<1>2. /\ old \in Pages /\ flags \in Flags /\ Climbs(old, broken)
      /\ broken.audio => flags.audio
      /\ broken.video => flags.video
      /\ old.triedAudio => flags.audio
      /\ old.triedVideo => flags.video
      /\ cap \in 1..Ladder!Ceiling
  BY CallIs, CapFits
<1>3. /\ method \in Methods
      /\ flags.audio => method # "DIRECT_PLAY"
      /\ flags.video => method = "TRANSCODE"
  BY <1>2, MethodIs DEF Ladder!Decided
<1>4. track \in DOMAIN Row.tracks
  <2>1. old.track \in DOMAIN Row.tracks
    BY <1>2 DEF Pages
  <2> QED  BY <2>1, PlayedIsOne
<1>5. stream \in Streams /\ (method = "TRANSCODE" => ~stream.sameVideo /\ ~stream.sameAudio)
  BY <1>2, <1>3, <1>4, SentIsAStream, StreamIs
<1>6. bytes \in Defects /\ lSpent \in [menu : Nat, busy : Nat, hiccup : Nat, rescan : Nat]
  BY DEF LadderInv, LadderTypes
<1> HIDE DEF old, flags, method, track, stream, cap
<1>7. page \in Pages
  BY <1>2, <1>3, <1>4, <1>5 DEF Pages
<1>8. /\ page.pc = "playing" /\ page.method = method /\ page.stream = stream
      /\ page.triedAudio = old.triedAudio /\ page.triedVideo = old.triedVideo
      /\ page.asked = old.asked /\ page.want = old.want
  BY <1>2 DEF Pages
<1> HIDE DEF page
<1>9. Climbs(page, flags)
  BY <1>2, <1>3, <1>5, <1>8 DEF Climbs, Asking
<1> QED  BY <1>1, <1>2, <1>6, <1>7, <1>9, OnePage

LEMMA BusyStep ==
  ASSUME LadderInv, NEW v \in Viewers, Ladder!Busy(v)
  PROVE  LadderInv'
<1> DEFINE old   == viewer[v]
           flags == Ladder!Marked(v)
           page  == [old EXCEPT !.pc = "card"]
<1>1. /\ viewer[v].pc = "calling" /\ broken' = flags /\ bytes' = bytes
      /\ viewer' = [viewer EXCEPT ![v] = page]
      /\ lSpent' \in [menu : Nat, busy : Nat, hiccup : Nat, rescan : Nat]
  BY Spends DEF Ladder!Busy, Ladder!Redecided
<1>2. /\ old \in Pages /\ flags \in Flags /\ Climbs(old, broken)
      /\ broken.audio => flags.audio
      /\ broken.video => flags.video
      /\ old.triedAudio => flags.audio
      /\ old.triedVideo => flags.video
  BY <1>1, CallIs
<1>3. bytes \in Defects
  BY DEF LadderInv, LadderTypes
<1> HIDE DEF old, flags
<1>4. page \in Pages /\ Climbs(page, flags)
  BY <1>2 DEF Pages, Climbs, Asking
<1> HIDE DEF page
<1> QED  BY <1>1, <1>2, <1>3, <1>4, OnePage

(* A restart keeps the method, with a stream that is made for it. *)
LEMMA RestartStep ==
  ASSUME LadderInv, NEW v \in Viewers, NEW track \in DOMAIN Row.tracks, Ladder!Restart(v, track)
  PROVE  LadderInv'
<1> DEFINE old    == viewer[v]
           stream == Ladder!Respawned(v, track)
           page   == [old EXCEPT !.stream = stream, !.track = track]
<1>1. /\ old.pc = "playing" /\ UNCHANGED <<bytes, broken>>
      /\ viewer' = [viewer EXCEPT ![v] = page]
      /\ lSpent' \in [menu : Nat, busy : Nat, hiccup : Nat, rescan : Nat]
  BY Spends DEF Ladder!Restart, Ladder!Watching
<1>2. old \in Pages /\ Climbs(old, broken) /\ broken \in Flags /\ bytes \in Defects
  BY <1>1, PageIs DEF LadderInv, LadderTypes
<1>3. old.method \in Methods
  BY <1>2 DEF Pages
<1>4. stream \in Streams /\ (old.method = "TRANSCODE" => ~stream.sameVideo /\ ~stream.sameAudio)
  BY <1>2, <1>3, SentIsAStream, StreamIs DEF Ladder!Respawned, Ladder!Sent
<1> HIDE DEF old, stream
<1>5. page \in Pages
  BY <1>2, <1>4 DEF Pages
<1>6. /\ page.pc = old.pc /\ page.method = old.method /\ page.stream = stream
      /\ page.triedAudio = old.triedAudio /\ page.triedVideo = old.triedVideo
      /\ page.asked = old.asked /\ page.want = old.want
  BY <1>2 DEF Pages
<1> HIDE DEF page
<1>7. Climbs(page, broken)
  BY <1>2, <1>4, <1>6 DEF Climbs, Asking
<1> QED  BY <1>1, <1>2, <1>5, <1>7, OnePage

LEMMA TryAgainStep ==
  ASSUME LadderInv, NEW v \in Viewers, Ladder!TryAgain(v)
  PROVE  LadderInv'
<1> DEFINE old    == viewer[v]
           live   == old.method # "DIRECT_PLAY"
           stream == IF live THEN Ladder!Respawned(v, old.track) ELSE old.stream
           a      == old.triedAudio /\ live
           c      == old.triedVideo /\ old.method # "REMUX"
           page   == [old EXCEPT !.pc = "playing", !.stream = stream,
                                 !.triedAudio = a, !.triedVideo = c]
<1>1. old.pc = "card" /\ UNCHANGED <<bytes, broken, lSpent>>
  BY DEF Ladder!TryAgain
<1>2. old \in Pages /\ Climbs(old, broken) /\ broken \in Flags /\ bytes \in Defects
  BY <1>1, PageIs DEF LadderInv, LadderTypes
<1>3. viewer' = [viewer EXCEPT ![v] = page]
  <2>1. viewer' = [viewer EXCEPT ![v] = [old EXCEPT !.pc = "playing", !.stream = stream,
                     !.triedAudio = @ /\ live, !.triedVideo = @ /\ old.method # "REMUX"]]
    BY DEF Ladder!TryAgain, Ladder!Live
  <2>2. [old EXCEPT !.pc = "playing", !.stream = stream,
           !.triedAudio = @ /\ live, !.triedVideo = @ /\ old.method # "REMUX"] = page
    BY <1>2 DEF Pages
  <2> QED  BY <2>1, <2>2
<1>4. old.method \in Methods /\ old.track \in DOMAIN Row.tracks /\ old.stream \in Streams
  BY <1>2 DEF Pages
<1>5. stream \in Streams /\ (old.method = "TRANSCODE" => ~stream.sameVideo /\ ~stream.sameAudio)
  BY <1>2, <1>4, SentIsAStream, StreamIs DEF Ladder!Respawned, Ladder!Sent
<1>6. a \in BOOLEAN /\ c \in BOOLEAN
  OBVIOUS
<1>7. /\ a => old.triedAudio /\ old.method # "DIRECT_PLAY"
      /\ c => old.triedVideo /\ old.method # "REMUX"
  OBVIOUS
<1> HIDE DEF old, stream, a, c
<1>8. page \in Pages
  BY <1>2, <1>5, <1>6 DEF Pages
<1>9. /\ page.pc = "playing" /\ page.method = old.method /\ page.stream = stream
      /\ page.triedAudio = a /\ page.triedVideo = c
      /\ page.asked = old.asked /\ page.want = old.want
  BY <1>2 DEF Pages
<1> HIDE DEF page
<1>10. Climbs(page, broken)
  BY <1>1, <1>2, <1>4, <1>5, <1>7, <1>9 DEF Climbs, Asking, Methods
<1> QED  BY <1>1, <1>2, <1>3, <1>8, <1>10, OnePage DEF LadderInv, LadderTypes

LEMMA RescanStep ==
  ASSUME LadderInv, NEW defects \in Defects, Ladder!Rescan(defects)
  PROVE  LadderInv'
<1>1. /\ bytes' = defects /\ broken' = [broken EXCEPT !.audio = FALSE] /\ viewer' = viewer
      /\ lSpent' \in [menu : Nat, busy : Nat, hiccup : Nat, rescan : Nat]
  BY Spends DEF Ladder!Rescan
<1>2. LadderTypes'
  BY <1>1 DEF LadderInv, LadderTypes, Flags
<1>3. \A v \in Viewers : viewer'[v] = Ladder!Off
  <2>1. \A v \in Viewers : viewer[v].pc = "off"
    BY DEF Ladder!Rescan
  <2>2. \A p \in Pages : p.pc # "off"
    BY DEF Pages
  <2> QED  BY <1>1, <2>1, <2>2 DEF LadderInv, LadderTypes
<1> QED  BY <1>2, <1>3 DEF LadderInv

LEMMA LadderStep ==
  ASSUME LadderInv, [Ladder!Next]_(Ladder!vars)
  PROVE  LadderInv'
<1>1. CASE UNCHANGED Ladder!vars
  BY <1>1 DEF Ladder!vars, LadderInv, LadderTypes, Climbs, Asking
<1>2. ASSUME NEW v \in Viewers, NEW cap \in StartCaps, NEW asked \in DOMAIN Row.tracks, Ladder!Start(v, cap, asked)
      PROVE  LadderInv'
  BY <1>2, StartStep
<1>3. ASSUME NEW v \in Viewers, Ladder!DecodeError(v) PROVE LadderInv'
  <2>1. LadderInv /\ lSpent' \in [menu : Nat, busy : Nat, hiccup : Nat, rescan : Nat]
    BY <1>3 DEF Ladder!DecodeError, LadderInv, LadderTypes
  <2> QED  BY <1>3, <2>1, EscalateStep DEF Ladder!DecodeError, Ladder!Watching
<1>4. ASSUME NEW v \in Viewers, Ladder!Hiccup(v) PROVE LadderInv'
  BY <1>4, EscalateStep, Spends DEF Ladder!Hiccup, Ladder!Watching
<1>5. ASSUME NEW v \in Viewers, NEW want \in 1..Ladder!NoCap, Ladder!Menu(v, want) PROVE LadderInv'
  BY <1>5, MenuStep
<1>6. ASSUME NEW v \in Viewers, Ladder!Unchanged(v) \/ Ladder!Busy(v) PROVE LadderInv'
  BY <1>6, UnchangedStep, BusyStep
<1>7. ASSUME NEW v \in Viewers, Ladder!ServeFile(v) \/ Ladder!ServeFirst(v) \/ Ladder!ServeNext(v)
      PROVE  LadderInv'
  BY <1>7, ServeStep DEF Ladder!ServeFile, Ladder!ServeFirst, Ladder!ServeNext, Ladder!Redecided
<1>8. ASSUME NEW v \in Viewers, NEW track \in DOMAIN Row.tracks, Ladder!Restart(v, track) PROVE LadderInv'
  BY <1>8, RestartStep
<1>9. ASSUME NEW v \in Viewers, Ladder!TryAgain(v) PROVE LadderInv'
  BY <1>9, TryAgainStep
<1>10. ASSUME NEW v \in Viewers, Ladder!Leave(v) PROVE LadderInv'
  <2>1. viewer' = [viewer EXCEPT ![v] = Ladder!Off] /\ UNCHANGED <<bytes, broken, lSpent>>
    BY <1>10 DEF Ladder!Leave
  <2> QED  BY <2>1, OnePage DEF LadderInv, LadderTypes
<1>11. ASSUME NEW defects \in Defects, Ladder!Rescan(defects) PROVE LadderInv'
  BY <1>11, RescanStep
<1> QED
  BY <1>1, <1>2, <1>3, <1>4, <1>5, <1>6, <1>7, <1>8, <1>9, <1>10, <1>11 DEF Ladder!Next

(* The card only follows what the ladder does not have a rung for. *)
LEMMA CardIsEarned ==
  ASSUME LadderInv, [Ladder!Next]_(Ladder!vars),
         NEW v \in Viewers, viewer[v].pc = "playing", ~Ladder!Decodes(v)
  PROVE  viewer'[v].pc # "card"
<1>1. /\ viewer[v] \in Pages /\ Climbs(viewer[v], broken)
      /\ viewer \in [Viewers -> Pages \cup {Ladder!Off}]
  BY PageIs DEF LadderInv, LadderTypes
<1>2. ASSUME viewer'[v].pc = "playing" \/ viewer'[v].pc = "calling" \/ viewer'[v] = viewer[v]
      PROVE  viewer'[v].pc # "card"
  BY <1>2
<1>3. CASE UNCHANGED Ladder!vars
  BY <1>2, <1>3 DEF Ladder!vars
<1>4. ASSUME NEW u \in Viewers, u # v, NEW p, viewer' = [viewer EXCEPT ![u] = p]
      PROVE  viewer'[v] = viewer[v]
  BY <1>1, <1>4
<1>5. ASSUME NEW u \in Viewers, viewer[u].pc # "playing",
             NEW p, viewer' = [viewer EXCEPT ![u] = p]
      PROVE  viewer'[v] = viewer[v]
  <2>1. u # v
    BY <1>5
  <2> QED  BY <1>5, <1>4, <2>1
<1>6. ASSUME NEW u \in Viewers, NEW cap \in StartCaps, NEW asked \in DOMAIN Row.tracks, Ladder!Start(u, cap, asked)
      PROVE  viewer'[v] = viewer[v]
  BY <1>5, <1>6 DEF Ladder!Start
<1>7. ASSUME NEW u \in Viewers, Ladder!Unchanged(u) \/ Ladder!Busy(u) \/ Ladder!TryAgain(u)
      PROVE  viewer'[v] = viewer[v]
  BY <1>5, <1>7 DEF Ladder!Unchanged, Ladder!Busy, Ladder!Redecided, Ladder!TryAgain
<1>8. ASSUME NEW u \in Viewers, Ladder!ServeFile(u) \/ Ladder!ServeFirst(u) \/ Ladder!ServeNext(u)
      PROVE  viewer'[v] = viewer[v]
  BY <1>5, <1>8 DEF Ladder!ServeFile, Ladder!ServeFirst, Ladder!ServeNext, Ladder!Redecided, Ladder!Serve
<1>9. ASSUME NEW u \in Viewers, NEW want \in 1..Ladder!NoCap, Ladder!Menu(u, want)
      PROVE  viewer'[v] = viewer[v] \/ viewer'[v].pc = "calling"
  <2>1. CASE u = v
    BY <1>1, <1>9, <2>1 DEF Ladder!Menu, Ladder!Ask, Pages
  <2>2. CASE u # v
    BY <1>1, <1>9, <2>2 DEF Ladder!Menu, Ladder!Ask
  <2> QED  BY <2>1, <2>2
<1>10. ASSUME NEW u \in Viewers, NEW track \in DOMAIN Row.tracks, Ladder!Restart(u, track)
       PROVE  viewer'[v].pc = "playing"
  <2>1. CASE u = v
    BY <1>1, <1>10, <2>1 DEF Ladder!Restart, Pages
  <2>2. CASE u # v
    BY <1>1, <1>10, <2>2 DEF Ladder!Restart
  <2> QED  BY <2>1, <2>2
<1>11. ASSUME NEW u \in Viewers, Ladder!Leave(u)
       PROVE  viewer'[v].pc # "card"
  <2>1. CASE u = v
    BY <1>1, <1>11, <2>1 DEF Ladder!Leave, Ladder!Off
  <2>2. CASE u # v
    BY <1>1, <1>11, <2>2 DEF Ladder!Leave
  <2> QED  BY <2>1, <2>2
<1>12. ASSUME NEW u \in Viewers, u # v, Ladder!Escalate(u)
       PROVE  viewer'[v] = viewer[v]
  BY <1>1, <1>12 DEF Ladder!Escalate, Ladder!Ask
<1>13. Ladder!Escalate(v) => viewer'[v].pc # "card"
  <2>1. Ladder!AudioFirst(v) \/ Ladder!VideoNext(v)
    <3>1. CASE viewer[v].method = "DIRECT_PLAY"
      BY <1>1, <3>1 DEF Climbs, Asking, Ladder!AudioFirst, Ladder!Live
    <3>2. CASE viewer[v].method # "DIRECT_PLAY"
      <4>1. viewer[v].method # "TRANSCODE"
        BY <1>1 DEF Climbs, Ladder!Decodes
      <4> QED  BY <1>1, <3>2, <4>1 DEF Climbs, Ladder!VideoNext, Ladder!Live
    <3> QED  BY <3>1, <3>2
  <2> QED  BY <1>1, <2>1 DEF Ladder!Escalate, Ladder!Ask, Pages
<1>14. ASSUME NEW u \in Viewers, Ladder!DecodeError(u) \/ Ladder!Hiccup(u)
       PROVE  viewer'[v].pc # "card"
  <2>1. Ladder!Escalate(u)
    BY <1>14 DEF Ladder!DecodeError, Ladder!Hiccup
  <2> QED  BY <1>2, <1>12, <1>13, <2>1
<1>15. ASSUME NEW defects \in Defects, Ladder!Rescan(defects)
       PROVE  viewer'[v] = viewer[v]
  BY <1>15 DEF Ladder!Rescan
<1> QED
  BY <1>2, <1>3, <1>6, <1>7, <1>8, <1>9, <1>10, <1>11, <1>14, <1>15 DEF Ladder!Next

(* Whatever is spawned for a file whose audio was reported re-encodes it. *)
LEMMA ReportedAudioIsOut ==
  ASSUME LadderInv, NEW v \in Viewers, Ladder!Respawns(v), broken.audio,
         viewer'[v].method # "DIRECT_PLAY"
  PROVE  ~viewer'[v].stream.sameAudio
<1>1. broken \in Flags /\ viewer \in [Viewers -> Pages \cup {Ladder!Off}]
  BY DEF LadderInv, LadderTypes
<1>2. ASSUME NEW track \in DOMAIN Row.tracks, Ladder!Restart(v, track)
      PROVE  ~viewer'[v].stream.sameAudio
  <2>1. viewer[v] \in Pages /\ viewer[v].method # "DIRECT_PLAY"
    BY <1>2, PageIs DEF Ladder!Restart, Ladder!Watching, Ladder!Live
  <2>2. viewer'[v].stream = Ladder!Respawned(v, track)
    BY <1>1, <1>2, <2>1 DEF Ladder!Restart, Pages
  <2> QED  BY <1>1, <2>1, <2>2, StreamIs DEF Ladder!Respawned, Ladder!Sent
<1>3. CASE Ladder!TryAgain(v)
  <2>1. viewer[v] \in Pages
    BY <1>3, PageIs DEF Ladder!TryAgain
  <2>2. viewer'[v].method = viewer[v].method
    BY <1>1, <1>3, <2>1 DEF Ladder!TryAgain, Pages
  <2>3. viewer'[v].stream = Ladder!Respawned(v, viewer[v].track)
    BY <1>1, <1>3, <2>1, <2>2 DEF Ladder!TryAgain, Ladder!Live, Pages
  <2> QED  BY <1>1, <2>2, <2>3, StreamIs DEF Ladder!Respawned, Ladder!Sent
<1>4. CASE Ladder!Redecided(v) /\ Ladder!Serve(v)
  <2>1. viewer[v] \in Pages /\ Ladder!Marked(v) \in Flags /\ Ladder!Marked(v).audio
    BY <1>4, CallIs DEF Ladder!Redecided
  <2>2. PICK track :
          /\ viewer'[v].method = Ladder!Decided(v)
          /\ viewer'[v].stream = Ladder!Stream(Ladder!Decided(v), Ladder!File(track), Profile[v], Ladder!Marked(v))
    BY <1>1, <1>4, <2>1 DEF Ladder!Serve, Pages
  <2> QED  BY <2>1, <2>2, StreamIs
<1> QED  BY <1>2, <1>3, <1>4 DEF Ladder!Respawns

-----------------------------------------------------------------------------
(***************************************************************************)
(* WatchState: the rail shows the latest of each season, and no play and   *)
(* no minute is counted that was not earned.                               *)
(***************************************************************************)
Marks == {[season |-> i[1], entry |-> Watch!Shows(i)] : i \in Watch!Items}

(* What the rail r of the first n rows promises (RailIsLatest, by index).  *)
LatestUpTo(n, r) ==
  /\ r \in Seq(Marks)
  /\ \A m \in 1..n : Watch!Shows(recent[m]) # Watch!None =>
       \E k \in 1..Len(r) : r[k].season = recent[m][1]
  /\ \A k \in 1..Len(r) : \E m \in 1..n :
       /\ recent[m][1] = r[k].season /\ Watch!Shows(recent[m]) = r[k].entry
       /\ \A j \in 1..n :
            recent[j][1] = r[k].season /\ Watch!Shows(recent[j]) # Watch!None => m <= j
       /\ \A l \in 1..(k - 1) : \E j \in 1..(m - 1) : recent[j][1] = r[l].season

LEMMA NoRows == LatestUpTo(0, <<>>)
  BY DEF LatestUpTo

LEMMA OneMoreRow ==
  ASSUME recent \in Seq(Watch!Items), NEW n \in Nat, n < Len(recent),
         NEW r, LatestUpTo(n, r)
  PROVE  LatestUpTo(n + 1, Watch!OneRow(r, recent[n + 1]))
<1> DEFINE i == recent[n + 1]
           new == [season |-> i[1], entry |-> Watch!Shows(i)]
<1>1. i \in Watch!Items /\ r \in Seq(Marks) /\ new \in Marks
  BY DEF LatestUpTo, Marks
<1>2. ASSUME Watch!Shows(i) = Watch!None \/ \E k \in DOMAIN r : r[k].season = i[1]
      PROVE  LatestUpTo(n + 1, r)
  <2>1. \A m \in 1..(n + 1) : Watch!Shows(recent[m]) # Watch!None =>
          \E k \in 1..Len(r) : r[k].season = recent[m][1]
    <3>1. DOMAIN r = 1..Len(r)
      BY <1>1
    <3>2. \A m \in 1..(n + 1) : m \in 1..n \/ m = n + 1
      OBVIOUS
    <3> QED  BY <1>2, <3>1, <3>2 DEF LatestUpTo
  <2>2. ASSUME NEW k \in 1..Len(r)
        PROVE  \E m \in 1..(n + 1) :
                 /\ recent[m][1] = r[k].season /\ Watch!Shows(recent[m]) = r[k].entry
                 /\ \A j \in 1..(n + 1) :
                      recent[j][1] = r[k].season /\ Watch!Shows(recent[j]) # Watch!None => m <= j
                 /\ \A l \in 1..(k - 1) : \E j \in 1..(m - 1) : recent[j][1] = r[l].season
    <3>1. PICK m \in 1..n :
            /\ recent[m][1] = r[k].season /\ Watch!Shows(recent[m]) = r[k].entry
            /\ \A j \in 1..n :
                 recent[j][1] = r[k].season /\ Watch!Shows(recent[j]) # Watch!None => m <= j
            /\ \A l \in 1..(k - 1) : \E j \in 1..(m - 1) : recent[j][1] = r[l].season
      BY DEF LatestUpTo
    <3>2. m \in 1..(n + 1) /\ m <= n + 1 /\ \A j \in 1..(n + 1) : j \in 1..n \/ j = n + 1
      OBVIOUS
    <3> QED  BY <3>1, <3>2
  <2> QED  BY <1>1, <2>1, <2>2 DEF LatestUpTo
<1>3. ASSUME Watch!Shows(i) # Watch!None, \A k \in DOMAIN r : r[k].season # i[1]
      PROVE  LatestUpTo(n + 1, Append(r, new))
  <2> DEFINE q == Append(r, new)
  <2>1. /\ q \in Seq(Marks) /\ Len(q) = Len(r) + 1 /\ Len(r) \in Nat /\ DOMAIN r = 1..Len(r)
        /\ q[Len(r) + 1] = new /\ \A k \in 1..Len(r) : q[k] = r[k]
    BY <1>1
  <2> HIDE DEF q
  <2>2. new.season = i[1] /\ new.entry = Watch!Shows(i)
    OBVIOUS
  <2> HIDE DEF new
  <2>3. ASSUME NEW m \in 1..(n + 1), Watch!Shows(recent[m]) # Watch!None
        PROVE  \E k \in 1..Len(q) : q[k].season = recent[m][1]
    <3>1. CASE m \in 1..n
      <4>1. PICK k \in 1..Len(r) : r[k].season = recent[m][1]
        BY <2>3, <3>1 DEF LatestUpTo
      <4>2. k \in 1..Len(q) /\ q[k] = r[k]
        BY <2>1
      <4> QED  BY <4>1, <4>2
    <3>2. CASE m = n + 1
      <4>1. Len(q) \in 1..Len(q) /\ q[Len(q)] = new
        BY <2>1
      <4> QED  BY <3>2, <4>1, <2>2
    <3> QED  BY <3>1, <3>2
  <2>4. ASSUME NEW k \in 1..Len(q)
        PROVE  \E m \in 1..(n + 1) :
                 /\ recent[m][1] = q[k].season /\ Watch!Shows(recent[m]) = q[k].entry
                 /\ \A j \in 1..(n + 1) :
                      recent[j][1] = q[k].season /\ Watch!Shows(recent[j]) # Watch!None => m <= j
                 /\ \A l \in 1..(k - 1) : \E j \in 1..(m - 1) : recent[j][1] = q[l].season
    <3>1. CASE k \in 1..Len(r)
      <4>1. PICK m \in 1..n :
              /\ recent[m][1] = r[k].season /\ Watch!Shows(recent[m]) = r[k].entry
              /\ \A j \in 1..n :
                   recent[j][1] = r[k].season /\ Watch!Shows(recent[j]) # Watch!None => m <= j
              /\ \A l \in 1..(k - 1) : \E j \in 1..(m - 1) : recent[j][1] = r[l].season
        BY <3>1 DEF LatestUpTo
      <4>2. m \in 1..(n + 1) /\ m <= n + 1 /\ \A j \in 1..(n + 1) : j \in 1..n \/ j = n + 1
        OBVIOUS
      <4>3. \A l \in 1..(k - 1) : q[l] = r[l]
        BY <2>1, <3>1
      <4> QED  BY <4>1, <4>2, <4>3, <2>1, <3>1
    <3>2. CASE k = Len(r) + 1
      <4>1. \A j \in 1..n : ~(recent[j][1] = i[1] /\ Watch!Shows(recent[j]) # Watch!None)
        <5>1. ASSUME NEW j \in 1..n, recent[j][1] = i[1], Watch!Shows(recent[j]) # Watch!None
              PROVE  FALSE
          <6>1. PICK o \in 1..Len(r) : r[o].season = recent[j][1]
            BY <5>1 DEF LatestUpTo
          <6> QED  BY <1>3, <2>1, <5>1, <6>1
        <5> QED  BY <5>1
      <4>2. \A j \in 1..(n + 1) : j \in 1..n \/ j = n + 1
        OBVIOUS
      <4>3. ASSUME NEW l \in 1..(k - 1)
            PROVE  \E j \in 1..((n + 1) - 1) : recent[j][1] = q[l].season
        <5>1. l \in 1..Len(r) /\ q[l] = r[l]
          BY <2>1, <3>2
        <5>2. PICK j \in 1..n : recent[j][1] = r[l].season
          BY <5>1 DEF LatestUpTo
        <5> QED  BY <5>1, <5>2
      <4>4. q[k] = new /\ n + 1 \in 1..(n + 1)
        BY <2>1, <3>2
      <4>5. \A j \in 1..(n + 1) :
              recent[j][1] = q[k].season /\ Watch!Shows(recent[j]) # Watch!None => n + 1 <= j
        BY <2>2, <4>1, <4>2, <4>4
      <4> QED  BY <2>2, <4>3, <4>4, <4>5
    <3> QED  BY <3>1, <3>2, <2>1
  <2> QED  BY <2>1, <2>3, <2>4 DEF LatestUpTo, q
<1> QED  BY <1>2, <1>3 DEF Watch!OneRow

(* The rail is what the loop over the rows leaves, row by row. *)
Shown(g, n) == [m \in 0..n |-> IF m = 0 THEN <<>> ELSE Watch!OneRow(g[m - 1], recent[m])]

LEMMA LoopEnds ==
  ASSUME recent \in Seq(Watch!Items), NEW n \in Nat, n <= Len(recent)
  PROVE  \E g : g = Shown(g, n) /\ LatestUpTo(n, g[n])
<1> DEFINE Bad == {m \in 0..n : ~\E g : g = Shown(g, m) /\ LatestUpTo(m, g[m])}
<1>1. SUFFICES ASSUME Bad # {} PROVE FALSE
  <2>1. n \in 0..n
    OBVIOUS
  <2> QED  BY <2>1, Zenon
<1>2. PICK m \in Bad : \A k \in Bad : m <= k
  <2>1. Bad \in SUBSET Nat
    OBVIOUS
  <2> QED  BY <1>1, <2>1, Least
<1>3. m # 0
  <2>1. SUFFICES ASSUME m = 0 PROVE FALSE
    OBVIOUS
  <2> DEFINE g == [k \in 0..0 |-> <<>>]
  <2>2. g = Shown(g, 0)
    BY DEF Shown
  <2>3. g[0] = <<>>
    OBVIOUS
  <2> QED  BY <1>2, <2>1, <2>2, <2>3, NoRows
<1>4. m - 1 \in Nat /\ m \in Nat /\ m - 1 < Len(recent) /\ m - 1 \in 0..n /\ ~(m <= m - 1)
  BY <1>2, <1>3
<1>5. PICK g : g = Shown(g, m - 1) /\ LatestUpTo(m - 1, g[m - 1])
  BY <1>2, <1>4
<1> DEFINE h == [k \in 0..m |-> IF k = m THEN Watch!OneRow(g[m - 1], recent[m]) ELSE g[k]]
<1>6. h = Shown(h, m)
  <2>1. ASSUME NEW k \in 0..m
        PROVE  h[k] = IF k = 0 THEN <<>> ELSE Watch!OneRow(h[k - 1], recent[k])
    <3>1. CASE k = m
      <4>1. h[m - 1] = g[m - 1] /\ h[m] = Watch!OneRow(g[m - 1], recent[m])
        BY <1>4
      <4> QED  BY <3>1, <4>1, <1>3
    <3>2. CASE k # m
      <4>1. k \in 0..(m - 1) /\ h[k] = g[k]
        BY <3>2, <1>4
      <4>2. g[k] = IF k = 0 THEN <<>> ELSE Watch!OneRow(g[k - 1], recent[k])
        BY <1>5, <4>1 DEF Shown
      <4>3. k # 0 => h[k - 1] = g[k - 1]
        BY <4>1, <1>4
      <4> QED  BY <4>1, <4>2, <4>3
    <3> QED  BY <3>1, <3>2
  <2>2. DOMAIN h = 0..m /\ h = [k \in DOMAIN h |-> h[k]]
    OBVIOUS
  <2> HIDE DEF h
  <2> QED  BY <2>1, <2>2 DEF Shown
<1>7. LatestUpTo(m, h[m])
  <2>1. h[m] = Watch!OneRow(g[m - 1], recent[m]) /\ (m - 1) + 1 = m
    BY <1>4
  <2> QED  BY <1>4, <1>5, <2>1, OneMoreRow
<1>8. m \notin Bad
  BY <1>6, <1>7
<1> QED  BY <1>2, <1>8

(* Any two loops over the same rows agree. *)
LEMMA LoopsAgree ==
  ASSUME NEW n \in Nat, NEW f, f = Shown(f, n), NEW g, g = Shown(g, n)
  PROVE  f[n] = g[n]
<1> DEFINE Bad == {m \in 0..n : f[m] # g[m]}
<1>1. SUFFICES ASSUME Bad # {} PROVE FALSE
  OBVIOUS
<1>2. PICK m \in Bad : \A k \in Bad : m <= k
  <2>1. Bad \in SUBSET Nat
    OBVIOUS
  <2> QED  BY <1>1, <2>1, Least
<1>3. m \in 0..n /\ f[m] # g[m]
  BY <1>2
<1>4. /\ f[m] = IF m = 0 THEN <<>> ELSE Watch!OneRow(f[m - 1], recent[m])
      /\ g[m] = IF m = 0 THEN <<>> ELSE Watch!OneRow(g[m - 1], recent[m])
  BY <1>3 DEF Shown
<1>5. m # 0 => m - 1 \in 0..n /\ ~(m <= m - 1)
  BY <1>3
<1>6. m # 0 => f[m - 1] = g[m - 1]
  BY <1>2, <1>5
<1> QED  BY <1>3, <1>4, <1>6

LEMMA RailStays ==
  ASSUME recent \in Seq(Watch!Items), Watch!IsInjective(recent)
  PROVE  Watch!RailIsLatest
<1> DEFINE n == Len(recent)
           f == CHOOSE f : f = Shown(f, n)
<1>1. n \in Nat /\ DOMAIN recent = 1..n
  OBVIOUS
<1>2. PICK g : g = Shown(g, n) /\ LatestUpTo(n, g[n])
  BY <1>1, LoopEnds
<1>3. f = Shown(f, n)
  BY <1>2
<1>4. Watch!Rail = f[n]
  BY DEF Watch!Rail, Shown
<1> HIDE DEF f
<1>5. LatestUpTo(n, Watch!Rail)
  BY <1>1, <1>2, <1>3, <1>4, LoopsAgree
<1> DEFINE r == Watch!Rail
<1>6. DOMAIN r = 1..Len(r)
  BY <1>5 DEF LatestUpTo
<1>7. \A m \in 1..n : Watch!Rank(recent[m]) = m
  BY <1>1 DEF Watch!Rank, Watch!IsInjective
<1>8. \A j \in Watch!ToSet(recent) : \E m \in 1..n : j = recent[m]
  BY <1>1 DEF Watch!ToSet
<1>9. \A m \in 1..n : recent[m] \in Watch!ToSet(recent)
  BY <1>1 DEF Watch!ToSet
<1>10. ASSUME NEW i \in Watch!ToSet(recent), Watch!Shows(i) # Watch!None
       PROVE  \E k \in DOMAIN r : r[k].season = i[1]
  <2>1. PICK m \in 1..n : i = recent[m]
    BY <1>8
  <2>2. \E k \in 1..Len(r) : r[k].season = recent[m][1]
    BY <1>5, <1>10, <2>1 DEF LatestUpTo
  <2> QED  BY <1>6, <2>1, <2>2
<1>11. ASSUME NEW k \in DOMAIN r
       PROVE  \E i \in Watch!ToSet(recent) :
                /\ i[1] = r[k].season /\ Watch!Shows(i) = r[k].entry
                /\ \A j \in Watch!ToSet(recent) :
                     (j[1] = i[1] /\ Watch!Shows(j) # Watch!None) => Watch!Rank(i) <= Watch!Rank(j)
                /\ \A l \in DOMAIN r : l < k =>
                     \E j \in Watch!ToSet(recent) :
                       j[1] = r[l].season /\ Watch!Rank(j) < Watch!Rank(i)
  <2>1. PICK m \in 1..n :
          /\ recent[m][1] = r[k].season /\ Watch!Shows(recent[m]) = r[k].entry
          /\ \A j \in 1..n :
               recent[j][1] = r[k].season /\ Watch!Shows(recent[j]) # Watch!None => m <= j
          /\ \A l \in 1..(k - 1) : \E j \in 1..(m - 1) : recent[j][1] = r[l].season
    BY <1>5, <1>6, <1>11 DEF LatestUpTo
  <2>2. ASSUME NEW j \in Watch!ToSet(recent), j[1] = recent[m][1], Watch!Shows(j) # Watch!None
        PROVE  Watch!Rank(recent[m]) <= Watch!Rank(j)
    <3>1. PICK o \in 1..n : j = recent[o]
      BY <1>8
    <3> QED  BY <2>1, <2>2, <3>1, <1>7
  <2>3. ASSUME NEW l \in DOMAIN r, l < k
        PROVE  \E j \in Watch!ToSet(recent) :
                 j[1] = r[l].season /\ Watch!Rank(j) < Watch!Rank(recent[m])
    <3>1. l \in 1..(k - 1)
      BY <1>5, <1>6, <1>11, <2>3 DEF LatestUpTo
    <3>2. PICK j \in 1..(m - 1) : recent[j][1] = r[l].season
      BY <2>1, <3>1
    <3>3. j \in 1..n /\ j < m
      OBVIOUS
    <3> QED  BY <3>2, <3>3, <1>7, <1>9
  <2> QED  BY <2>1, <2>2, <2>3, <1>9
<1> QED  BY <1>10, <1>11 DEF Watch!RailIsLatest

(* The row that is upserted moves to the front, and no row is there twice. *)
LEMMA TouchMoves ==
  ASSUME recent \in Seq(Watch!Items), Watch!IsInjective(recent), NEW i \in Watch!Items,
         Watch!Touch(i)
  PROVE  /\ recent' \in Seq(Watch!Items) /\ Watch!IsInjective(recent')
         /\ Watch!ToSet(recent') = Watch!ToSet(recent) \cup {i}
<1> DEFINE n == Len(recent)
<1>1. n \in Nat /\ DOMAIN recent = 1..n /\ \A m \in 1..n : recent[m] \in Watch!Items
  OBVIOUS
<1>2. CASE i \notin Watch!ToSet(recent)
  <2>1. recent' = <<i>> \o recent
    BY <1>2 DEF Watch!Touch
  <2>2. /\ recent' \in Seq(Watch!Items) /\ DOMAIN recent' = 1..(n + 1) /\ recent'[1] = i
        /\ \A m \in 1..n : recent'[m + 1] = recent[m]
    BY <2>1, <1>1
  <2>3. \A m \in 1..(n + 1) : m = 1 \/ \E k \in 1..n : m = k + 1 /\ recent'[m] = recent[k]
    <3>1. ASSUME NEW m \in 1..(n + 1), m # 1
          PROVE  m - 1 \in 1..n /\ m = (m - 1) + 1
      BY <3>1, <1>1
    <3> QED  BY <2>2, <3>1
  <2>4. \A m \in 1..n : recent[m] # i /\ m + 1 \in 1..(n + 1)
    BY <1>1, <1>2 DEF Watch!ToSet
  <2>5. ASSUME NEW x \in 1..(n + 1), NEW y \in 1..(n + 1), recent'[x] = recent'[y]
        PROVE  x = y
    <3>1. x = 1 \/ \E k \in 1..n : x = k + 1 /\ recent'[x] = recent[k]
      BY <2>3
    <3>2. y = 1 \/ \E k \in 1..n : y = k + 1 /\ recent'[y] = recent[k]
      BY <2>3
    <3>3. \A k, l \in 1..n : recent[k] = recent[l] => k = l
      BY <1>1 DEF Watch!IsInjective
    <3> QED  BY <2>2, <2>4, <2>5, <3>1, <3>2, <3>3
  <2>6. Watch!ToSet(recent') = Watch!ToSet(recent) \cup {i}
    <3>1. 1 \in 1..(n + 1)
      BY <1>1
    <3>2. Watch!ToSet(recent') = {recent'[m] : m \in 1..(n + 1)}
      BY <2>2 DEF Watch!ToSet
    <3>3. Watch!ToSet(recent) = {recent[m] : m \in 1..n}
      BY <1>1 DEF Watch!ToSet
    <3>4. ASSUME NEW m \in 1..(n + 1)
          PROVE  recent'[m] \in {recent[k] : k \in 1..n} \cup {i}
      BY <2>2, <2>3
    <3>5. ASSUME NEW m \in 1..n
          PROVE  recent[m] \in {recent'[k] : k \in 1..(n + 1)}
      BY <2>2, <2>4
    <3>6. i \in {recent'[k] : k \in 1..(n + 1)}
      BY <2>2, <3>1
    <3> QED  BY <3>2, <3>3, <3>4, <3>5, <3>6
  <2>7. Watch!IsInjective(recent')
    BY <2>2, <2>5 DEF Watch!IsInjective
  <2> QED  BY <2>2, <2>6, <2>7
<1>3. CASE i \in Watch!ToSet(recent)
  <2> DEFINE k == Watch!Rank(i)
             a == SubSeq(recent, 1, k - 1)
             b == SubSeq(recent, k + 1, n)
  <2>1. k \in 1..n /\ recent[k] = i
    BY <1>1, <1>3 DEF Watch!Rank, Watch!ToSet
  <2>2. recent' = <<i>> \o (a \o b)
    BY <1>3 DEF Watch!Touch, Watch!RemoveAt
  <2> HIDE DEF k
  <2>3. /\ a \in Seq(Watch!Items) /\ Len(a) = k - 1
        /\ \A m \in 1..(k - 1) : a[m] = recent[m]
    BY <1>1, <2>1
  <2>4. /\ b \in Seq(Watch!Items) /\ Len(b) = n - k
        /\ \A m \in 1..(n - k) : b[m] = recent[k + m]
    <3>1. \A m \in (k + 1)..n : recent[m] \in Watch!Items
      BY <1>1, <2>1
    <3>2. k + 1 \in Int /\ n \in Int
      BY <1>1, <2>1
    <3>3. /\ SubSeq(recent, k + 1, n) \in Seq(Watch!Items)
          /\ Len(SubSeq(recent, k + 1, n)) = IF k + 1 <= n THEN n - (k + 1) + 1 ELSE 0
          /\ \A m \in 1..(n - (k + 1) + 1) : SubSeq(recent, k + 1, n)[m] = recent[(k + 1) + m - 1]
      <4> HIDE DEF n
      <4> QED  BY <3>1, <3>2, SubSeqProperties
    <3>4. (IF k + 1 <= n THEN n - (k + 1) + 1 ELSE 0) = n - k /\ n - (k + 1) + 1 = n - k
      <4>1. n \in Int /\ k \in Int /\ k <= n
        BY <1>1, <2>1
      <4> HIDE DEF n
      <4> QED  BY <4>1
    <3>5. \A m \in 1..(n - k) : (k + 1) + m - 1 = k + m
      BY <1>1, <2>1
    <3> HIDE DEF n
    <3> QED  BY <3>3, <3>4, <3>5
  <2> HIDE DEF a, b
  <2>5. /\ recent' \in Seq(Watch!Items) /\ DOMAIN recent' = 1..n /\ recent'[1] = i
        /\ \A m \in 2..n : recent'[m] = IF m <= k THEN recent[m - 1] ELSE recent[m]
    <3>1. /\ a \o b \in Seq(Watch!Items) /\ Len(a \o b) = n - 1
          /\ \A m \in 1..(n - 1) : (a \o b)[m] = IF m <= k - 1 THEN a[m] ELSE b[m - (k - 1)]
      <4>1. /\ a \o b \in Seq(Watch!Items) /\ Len(a \o b) = Len(a) + Len(b)
            /\ \A m \in 1..(Len(a) + Len(b)) :
                 (a \o b)[m] = IF m <= Len(a) THEN a[m] ELSE b[m - Len(a)]
        BY <2>3, <2>4, ConcatProperties
      <4>2. Len(a) + Len(b) = n - 1 /\ Len(a) = k - 1
        BY <1>1, <2>1, <2>3, <2>4
      <4> QED  BY <4>1, <4>2
    <3>2. /\ recent' \in Seq(Watch!Items) /\ DOMAIN recent' = 1..n /\ recent'[1] = i
          /\ \A m \in 2..n : recent'[m] = (a \o b)[m - 1]
      <4>1. <<i>> \in Seq(Watch!Items) /\ Len(<<i>>) = 1 /\ <<i>>[1] = i
        OBVIOUS
      <4>2. /\ recent' \in Seq(Watch!Items) /\ Len(recent') = Len(<<i>>) + Len(a \o b)
            /\ \A m \in 1..(Len(<<i>>) + Len(a \o b)) :
                 recent'[m] = IF m <= Len(<<i>>) THEN <<i>>[m] ELSE (a \o b)[m - Len(<<i>>)]
        BY <2>2, <3>1, <4>1, ConcatProperties
      <4>3. Len(<<i>>) + Len(a \o b) = n
        BY <1>1, <3>1, <4>1
      <4>4. DOMAIN recent' = 1..n /\ 1 \in 1..n
        BY <2>1, <4>2, <4>3
      <4> QED  BY <4>1, <4>2, <4>3, <4>4
    <3>3. ASSUME NEW m \in 2..n
          PROVE  recent'[m] = IF m <= k THEN recent[m - 1] ELSE recent[m]
      <4> DEFINE q == m - 1
      <4>0. q \in 1..(n - 1) /\ recent'[m] = (a \o b)[q]
        <5>1. recent'[m] = (a \o b)[m - 1]
          BY <3>2, Zenon
        <5>2. n \in Nat
          BY <1>1
        <5>3. q \in 1..(n - 1)
          <6> HIDE DEF n
          <6> QED  BY <5>2
        <5> QED  BY <5>1, <5>3
      <4>1. recent'[m] = IF m - 1 <= k - 1 THEN a[m - 1] ELSE b[(m - 1) - (k - 1)]
        <5> HIDE DEF q
        <5>1. (a \o b)[q] = IF q <= k - 1 THEN a[q] ELSE b[q - (k - 1)]
          BY <4>0, <3>1
        <5> QED  BY <5>1, <4>0 DEF q
      <4>2. CASE m <= k
        BY <1>1, <2>1, <2>3, <4>1, <4>2
      <4>3. CASE ~(m <= k)
        <5>1. (m - 1) - (k - 1) \in 1..(n - k) /\ k + ((m - 1) - (k - 1)) = m
          BY <1>1, <2>1, <4>3
        <5> QED  BY <1>1, <2>1, <2>4, <4>1, <4>3, <5>1
      <4> QED  BY <4>2, <4>3
    <3> QED  BY <3>2, <3>3
  <2> DEFINE from == [m \in 1..n |-> IF m = 1 THEN k ELSE IF m <= k THEN m - 1 ELSE m]
  <2>6. ASSUME NEW m \in 1..n
        PROVE  from[m] \in 1..n /\ recent'[m] = recent[from[m]]
    BY <1>1, <2>1, <2>5
  <2>7. \A x, y \in 1..n : from[x] = from[y] => x = y
    BY <1>1, <2>1
  <2>8. ASSUME NEW m \in 1..n
        PROVE  \E x \in 1..n : from[x] = m
    <3>1. CASE m < k
      <4>1. m + 1 \in 1..n /\ from[m + 1] = m
        BY <1>1, <2>1, <3>1
      <4> QED  BY <4>1
    <3>2. CASE m = k
      <4>1. 1 \in 1..n /\ from[1] = m
        BY <1>1, <2>1, <3>2
      <4> QED  BY <4>1
    <3>3. CASE m > k
      <4>1. from[m] = m
        BY <1>1, <2>1, <3>3
      <4> QED  BY <4>1
    <3> QED  BY <1>1, <2>1, <3>1, <3>2, <3>3
  <2> HIDE DEF from
  <2>9. Watch!IsInjective(recent')
    BY <1>1, <2>5, <2>6, <2>7 DEF Watch!IsInjective
  <2>10. Watch!ToSet(recent') = Watch!ToSet(recent)
    <3>1. ASSUME NEW j \in Watch!ToSet(recent')
          PROVE  j \in Watch!ToSet(recent)
      BY <1>1, <2>5, <2>6 DEF Watch!ToSet
    <3>2. ASSUME NEW j \in Watch!ToSet(recent)
          PROVE  j \in Watch!ToSet(recent')
      <4>1. PICK m \in 1..n : j = recent[m]
        BY <1>1 DEF Watch!ToSet
      <4>2. PICK x \in 1..n : from[x] = m
        BY <2>8
      <4> QED  BY <2>5, <2>6, <4>1, <4>2 DEF Watch!ToSet
    <3> QED  BY <3>1, <3>2
  <2> QED  BY <1>3, <2>5, <2>9, <2>10
<1> QED  BY <1>2, <1>3
-----------------------------------------------------------------------------
(* The types of a watch record, of its handlers and of the rows' order.    *)
SentBeats == [st : {"sent"}, sess : {"s"}, at : 0..End]
ReadBeats == [st : {"read"}, sess : {"s"}, at : 0..End, from : 0..End, watched : BOOLEAN]
ReadMarks == [st : {"read"}, item : Watch!Items, to : BOOLEAN, prev : BOOLEAN]

WatchTypes ==
  /\ wRow \in [Watch!Items -> [pos : 0..End, watched : BOOLEAN, plays : Nat, exists : BOOLEAN]]
  /\ wSess \in [{"s"} -> [item : Watch!Items, pos : 0..End]] /\ head \in [{"s"} -> 0..End]
  /\ beat \in [{1, 2} -> {Watch!Idle} \cup SentBeats \cup ReadBeats]
  /\ edit \in {Watch!Idle} \cup ReadMarks
  /\ day \in [Watch!Items -> [credit : Nat, completions : Nat]]
  /\ wSeen \in [Watch!Items ->
       [played : Nat, finished : Nat, marks : Nat, beats : Nat, edits : Nat]]

RowsInOrder ==
  /\ recent \in Seq(Watch!Items) /\ Watch!IsInjective(recent)
  /\ Watch!ToSet(recent) = {i \in Watch!Items : wRow[i].exists}

Playing    == wSess["s"].item
Flying(h)  == beat[h].st # "idle"
Marking(i) == edit.st # "idle" /\ edit.item = i

(* Off the items two handlers met on, a handler works alone, so what it    *)
(* read is what it will write over.                                        *)
WorkAlone ==
  /\ Playing \notin lapped => \A h \in {1, 2} : Flying(h) =>
       /\ \A g \in {1, 2} : Flying(g) => g = h
       /\ ~Marking(Playing)
       /\ beat[h].st = "read" =>
            beat[h].watched = wRow[Playing].watched /\ beat[h].from = wSess["s"].pos
  /\ \A i \in Watch!Items \ lapped : Marking(i) => edit.prev = wRow[i].watched

(* A play that ended and is not counted yet, and a unit played and not     *)
(* credited yet: of the beat on its way, then of the next one.             *)
Due(i) == i = Playing /\
  IF \E h \in {1, 2} : Flying(h)
  THEN \E h \in {1, 2} : Flying(h) /\ IF beat[h].at = End THEN ~wRow[i].watched ELSE head["s"] = End
  ELSE head["s"] = End /\ ~wRow[i].watched
OnItsWay(i) == i = Playing /\ \E h \in {1, 2} : Flying(h) /\ beat[h].at > wSess["s"].pos
Ahead(i) == i = Playing /\
  IF \E h \in {1, 2} : Flying(h)
  THEN \E h \in {1, 2} : Flying(h) /\ head["s"] > beat[h].at
  ELSE head["s"] > wSess["s"].pos

One(b) == IF b THEN 1 ELSE 0

(* What is counted, and what a handler may still count, was earned.        *)
Paid(i) ==
  /\ wRow[i].plays + One(Due(i)) + One(Marking(i)) <= wSeen[i].finished + wSeen[i].marks
  /\ day[i].completions + One(Due(i)) + One(Marking(i)) <= wSeen[i].finished + wSeen[i].marks
  /\ day[i].credit + One(OnItsWay(i)) + One(Ahead(i)) <= wSeen[i].played

WatchInv == WatchTypes /\ RowsInOrder /\ WorkAlone /\ \A i \in Watch!Items \ lapped : Paid(i)
-----------------------------------------------------------------------------
LEMMA WatchEnds == End \in Nat \ {0} /\ 0..End = Watch!Pos /\ End \in 0..End /\ 0 \in 0..End
  BY RecordWorlds DEF Watch!WatchStateAssumption, Watch!Pos

LEMMA InitWatch == Watch!Init => WatchInv
<1> SUFFICES ASSUME Watch!Init PROVE WatchInv
  OBVIOUS
<1> USE DEF Watch!Init
<1>1. WatchTypes
  BY WatchEnds DEF WatchTypes, Watch!NoRow, Watch!Slots
<1>2. RowsInOrder
  <2>1. recent \in Seq(Watch!Items) /\ DOMAIN recent = {} /\ ~\E i \in Watch!Items : wRow[i].exists
    BY DEF Watch!NoRow
  <2> QED  BY <2>1 DEF RowsInOrder, Watch!IsInjective, Watch!ToSet
<1>3. \A h \in {1, 2} : ~Flying(h)
  BY DEF Flying, Watch!Slots, Watch!Idle
<1>4. \A i \in Watch!Items : ~Marking(i)
  BY DEF Marking, Watch!Idle
<1>5. head["s"] = 0 /\ wSess["s"].pos = 0 /\ End # 0
  BY WatchEnds
<1>6. \A i \in Watch!Items : ~Due(i) /\ ~OnItsWay(i) /\ ~Ahead(i)
  BY <1>3, <1>5 DEF Due, OnItsWay, Ahead
<1>7. \A i \in Watch!Items : Paid(i)
  BY <1>4, <1>6 DEF Paid, One, Watch!NoRow
<1> QED  BY <1>1, <1>2, <1>3, <1>4, <1>7 DEF WatchInv, WorkAlone

LEMMA SeenIs ==
  ASSUME WatchTypes, NEW i \in Watch!Items
  PROVE  /\ wSeen[i].played \in Nat /\ wSeen[i].finished \in Nat /\ wSeen[i].marks \in Nat
         /\ wRow[i].plays \in Nat /\ wRow[i].watched \in BOOLEAN
         /\ day[i].completions \in Nat /\ day[i].credit \in Nat
  BY DEF WatchTypes

LEMMA SessIs ==
  ASSUME WatchTypes
  PROVE  Playing \in Watch!Items /\ wSess["s"].pos \in 0..End /\ head["s"] \in 0..End
  BY DEF WatchTypes, Playing

LEMMA BeatIs ==
  ASSUME WatchTypes, NEW h \in {1, 2}, Flying(h)
  PROVE  /\ beat[h] \in SentBeats \/ beat[h] \in ReadBeats
         /\ beat[h].sess = "s" /\ beat[h].at \in 0..End /\ beat[h].st \in {"sent", "read"}
         /\ beat[h].st = "read" <=> beat[h] \in ReadBeats
  BY DEF WatchTypes, Flying, Watch!Idle, SentBeats, ReadBeats

LEMMA Ones ==
  ASSUME NEW i
  PROVE  /\ One(Due(i)) \in {0, 1} /\ One(Marking(i)) \in {0, 1}
         /\ One(OnItsWay(i)) \in {0, 1} /\ One(Ahead(i)) \in {0, 1}
  BY DEF One

LEMMA OnesNext ==
  ASSUME NEW i
  PROVE  /\ One(Due(i))' \in {0, 1} /\ One(Marking(i))' \in {0, 1}
         /\ One(OnItsWay(i))' \in {0, 1} /\ One(Ahead(i))' \in {0, 1}
  BY DEF One

(* The player moves: plays on, or seeks. *)
Histories == [played : Nat, finished : Nat, marks : Nat, beats : Nat, edits : Nat]

LEMMA HeadMoves ==
  ASSUME WatchInv, UNCHANGED <<wRow, recent, wSess, beat, edit, day, lapped>>,
         NEW p \in 0..End, NEW n \in {0, 1}, p > head["s"] => n = 1,
         head' = [head EXCEPT !["s"] = p], wSeen' \in [Watch!Items -> Histories],
         wSeen'[Playing].played = wSeen[Playing].played + n,
         wSeen'[Playing].finished = wSeen[Playing].finished + (IF p = End THEN 1 ELSE 0),
         wSeen'[Playing].marks = wSeen[Playing].marks,
         \A j \in Watch!Items : j # Playing => wSeen'[j] = wSeen[j]
  PROVE  WatchInv'
<1> USE DEF WatchInv
<1> DEFINE i == Playing
           d == IF p = End THEN 1 ELSE 0
<1>1. i \in Watch!Items /\ Playing' = i /\ d \in {0, 1}
  BY SessIs DEF Playing
<1>2. /\ wSeen'[i].played = wSeen[i].played + n /\ wSeen'[i].finished = wSeen[i].finished + d
      /\ wSeen'[i].marks = wSeen[i].marks
      /\ \A j \in Watch!Items : j # i => wSeen'[j] = wSeen[j]
  OBVIOUS
<1>3. WatchTypes'
  <2>1. head' \in [{"s"} -> 0..End]
    BY DEF WatchTypes
  <2> QED  BY <2>1 DEF WatchTypes, Histories
<1>4. RowsInOrder'
  BY DEF RowsInOrder, Watch!IsInjective, Watch!ToSet
<1>5. WorkAlone'
  BY DEF WorkAlone, Playing, Flying, Marking
<1>6. head'["s"] = p
  BY DEF WatchTypes
<1>7. ASSUME NEW j \in Watch!Items \ lapped, j # i
      PROVE  Paid(j)'
  <2>1. ~Due(j) /\ ~OnItsWay(j) /\ ~Ahead(j) /\ ~Due(j)' /\ ~OnItsWay(j)' /\ ~Ahead(j)'
    BY <1>1, <1>7 DEF Due, OnItsWay, Ahead
  <2>2. Marking(j)' <=> Marking(j)
    BY DEF Marking
  <2> QED  BY <1>2, <1>7, <2>1, <2>2 DEF Paid, One
<1>8. ASSUME NEW j \in Watch!Items \ lapped, j = i
      PROVE  Paid(j)'
  <2>1. Marking(j)' <=> Marking(j)
    BY DEF Marking
  <2>2. OnItsWay(j)' <=> OnItsWay(j)
    BY DEF OnItsWay, Playing, Flying
  <2>3. Due(j)' => Due(j) \/ d = 1
    BY <1>6, <1>8 DEF Due, Playing, Flying
  <2>4. Ahead(j)' => Ahead(j) \/ n = 1
    <3>1. ASSUME ~(p > head["s"])
          PROVE  Ahead(j)' => Ahead(j)
      <4>1. \A h \in {1, 2} : Flying(h) => (p > beat[h].at => head["s"] > beat[h].at)
        BY <3>1, SessIs, BeatIs
      <4>2. p > wSess["s"].pos => head["s"] > wSess["s"].pos
        BY <3>1, SessIs
      <4> QED  BY <4>1, <4>2, <1>6 DEF Ahead, Playing, Flying
    <3> QED  BY <3>1
  <2>5. Paid(j)
    BY <1>8
  <2>6. wRow'[j] = wRow[j] /\ day'[j] = day[j]
    OBVIOUS
  <2>7. One(Due(j))' <= One(Due(j)) + d /\ One(Ahead(j))' <= One(Ahead(j)) + n
    BY <1>1, <2>3, <2>4 DEF One
  <2>8. One(Marking(j))' = One(Marking(j)) /\ One(OnItsWay(j))' = One(OnItsWay(j))
    BY <2>1, <2>2 DEF One
  <2> HIDE DEF WatchInv, d
  <2> QED  BY <1>1, <1>2, <1>8, <2>5, <2>6, <2>7, <2>8, SeenIs, Ones, OnesNext DEF Paid, WatchInv
<1> QED  BY <1>3, <1>4, <1>5, <1>7, <1>8

LEMMA PlayStep == WatchInv /\ Watch!Play("s") => WatchInv'
<1> SUFFICES ASSUME WatchInv, Watch!Play("s") PROVE WatchInv'
  OBVIOUS
<1> DEFINE p == head["s"] + 1
           d == IF p = End THEN 1 ELSE 0
<1>1. WatchTypes /\ Playing \in Watch!Items /\ head["s"] \in 0..End /\ head["s"] < End
  BY SessIs DEF WatchInv, Watch!Play
<1>2. p \in 0..End /\ head' = [head EXCEPT !["s"] = p] /\ d \in {0, 1}
  BY <1>1, WatchEnds DEF Watch!Play
<1>3. wSeen' = [wSeen EXCEPT ![Playing].played = @ + 1, ![Playing].finished = @ + d]
  BY DEF Watch!Play, Playing
<1> HIDE DEF d
<1>4. /\ wSeen' \in [Watch!Items -> Histories]
      /\ wSeen'[Playing].played = wSeen[Playing].played + 1
      /\ wSeen'[Playing].finished = wSeen[Playing].finished + d
      /\ wSeen'[Playing].marks = wSeen[Playing].marks
      /\ \A j \in Watch!Items : j # Playing => wSeen'[j] = wSeen[j]
  <2>1. d \in Nat /\ 1 \in Nat /\ wSeen \in [Watch!Items -> Histories]
    BY <1>1, <1>2 DEF WatchTypes, Histories
  <2> DEFINE new == [wSeen[Playing] EXCEPT !.played = @ + 1, !.finished = @ + d]
  <2>2. wSeen' = [wSeen EXCEPT ![Playing] = new]
    BY <1>3
  <2>3. /\ new \in Histories /\ new.played = wSeen[Playing].played + 1
        /\ new.finished = wSeen[Playing].finished + d /\ new.marks = wSeen[Playing].marks
    <3> DEFINE old == wSeen[Playing]
    <3>1. old \in Histories
      BY <1>1, <2>1
    <3> HIDE DEF old
    <3>2. new = [old EXCEPT !.played = @ + 1, !.finished = @ + d]
      BY DEF old
    <3>3. old.played + 1 \in Nat /\ old.finished + d \in Nat
      BY <2>1, <3>1 DEF Histories
    <3> HIDE DEF new
    <3>4. /\ new \in Histories /\ new.played = old.played + 1
          /\ new.finished = old.finished + d /\ new.marks = old.marks
      BY <3>1, <3>2, <3>3 DEF Histories
    <3> QED  BY <3>4 DEF old
  <2> HIDE DEF new
  <2> QED  BY <1>1, <2>1, <2>2, <2>3
<1>5. UNCHANGED <<wRow, recent, wSess, beat, edit, day, lapped>>
  BY DEF Watch!Play
<1> HIDE DEF p
<1> QED  BY <1>2, <1>4, <1>5, HeadMoves DEF d

LEMMA SeekStep ==
  ASSUME WatchInv, NEW p \in 0..End, Watch!Seek("s", p)
  PROVE  WatchInv'
<1> DEFINE n == IF p > head["s"] THEN Watch!Credit ELSE 0
           d == IF p = End THEN 1 ELSE 0
<1>1. WatchTypes /\ Playing \in Watch!Items
  BY SessIs DEF WatchInv
<1>2. n \in {0, 1} /\ d \in {0, 1} /\ (p > head["s"] => n = 1)
  BY DEF Watch!Credit
<1>3. wSeen' = [wSeen EXCEPT ![Playing].played = @ + n, ![Playing].finished = @ + d,
                             ![Playing].edits = @ + 1]
  BY DEF Watch!Seek, Playing
<1>4. UNCHANGED <<wRow, recent, wSess, beat, edit, day, lapped>>
      /\ head' = [head EXCEPT !["s"] = p]
  BY DEF Watch!Seek
<1> HIDE DEF n, d
<1>5. /\ wSeen' \in [Watch!Items -> Histories]
      /\ wSeen'[Playing].played = wSeen[Playing].played + n
      /\ wSeen'[Playing].finished = wSeen[Playing].finished + d
      /\ wSeen'[Playing].marks = wSeen[Playing].marks
      /\ \A j \in Watch!Items : j # Playing => wSeen'[j] = wSeen[j]
  BY <1>1, <1>2, <1>3 DEF WatchTypes, Histories
<1> QED  BY <1>2, <1>4, <1>5, HeadMoves DEF d

(* Who is at work on an item. *)
LEMMA BusyIs ==
  ASSUME WatchTypes, NEW i
  PROVE  Watch!Busy(i) <=> (i = Playing /\ \E h \in {1, 2} : Flying(h)) \/ Marking(i)
  BY BeatIs DEF Watch!Busy, Watch!Slots, Playing, Flying, Marking

(* Nothing is on its way to an item that is not being played. *)
LEMMA Elsewhere ==
  ASSUME NEW j, j # Playing, Playing' = Playing
  PROVE  /\ ~Due(j) /\ ~OnItsWay(j) /\ ~Ahead(j) /\ ~Due(j)' /\ ~OnItsWay(j)' /\ ~Ahead(j)'
         /\ One(Due(j)) = 0 /\ One(OnItsWay(j)) = 0 /\ One(Ahead(j)) = 0
         /\ One(Due(j))' = 0 /\ One(OnItsWay(j))' = 0 /\ One(Ahead(j))' = 0
  BY DEF Due, OnItsWay, Ahead, One

LEMMA SameElsewhere ==
  ASSUME NEW j, j # Playing, Playing' = Playing, Paid(j), Marking(j)' <=> Marking(j),
         wRow'[j].plays = wRow[j].plays, day'[j] = day[j],
         wSeen'[j].finished = wSeen[j].finished, wSeen'[j].marks = wSeen[j].marks,
         wSeen'[j].played = wSeen[j].played
  PROVE  Paid(j)'
<1>1. One(Marking(j))' = One(Marking(j))
  BY DEF One
<1> QED  BY <1>1, Elsewhere DEF Paid

LEMMA BeatSentStep ==
  ASSUME WatchInv, NEW h \in {1, 2}, Watch!BeatSent(h, "s")
  PROVE  WatchInv'
<1> DEFINE i == Playing
<1>1. WatchTypes /\ i \in Watch!Items /\ Playing' = i
  BY SessIs DEF WatchInv, Playing, Watch!BeatSent
<1>2. /\ ~Flying(h) /\ beat' = [beat EXCEPT ![h] = [st |-> "sent", sess |-> "s", at |-> head["s"]]]
      /\ wSeen' = [wSeen EXCEPT ![i].beats = @ + 1]
      /\ lapped' = IF Watch!Busy(i) THEN lapped \cup {i} ELSE lapped
      /\ UNCHANGED <<wRow, recent, wSess, head, edit, day>>
  BY DEF Watch!BeatSent, Playing, Flying, Watch!Idle
<1>3. /\ beat'[h] = [st |-> "sent", sess |-> "s", at |-> head["s"]]
      /\ Flying(h)' /\ \A g \in {1, 2} : g # h => beat'[g] = beat[g] /\ (Flying(g)' <=> Flying(g))
  BY <1>1, <1>2 DEF WatchTypes, Flying
<1>4. WatchTypes'
  <2>1. beat' \in [{1, 2} -> {Watch!Idle} \cup SentBeats \cup ReadBeats]
    BY <1>1, <1>2, SessIs DEF WatchTypes, SentBeats
  <2>2. wSeen' \in [Watch!Items -> Histories]
    <3>1. wSeen \in [Watch!Items -> Histories] /\ wSeen' = [wSeen EXCEPT ![i].beats = @ + 1]
      BY <1>1, <1>2 DEF WatchTypes, Histories
    <3> QED  BY <1>1, <3>1 DEF Histories
  <2> QED  BY <1>1, <1>2, <2>1, <2>2 DEF WatchTypes, Histories
<1>5. RowsInOrder'
  BY <1>2 DEF WatchInv, RowsInOrder, Watch!IsInjective, Watch!ToSet
<1>6. \A j \in Watch!Items : Marking(j)' <=> Marking(j)
  BY <1>2 DEF Marking
<1>7. Playing \notin lapped' => ~Marking(i) /\ \A g \in {1, 2} : ~Flying(g)
  BY <1>1, <1>2, BusyIs
<1>8. WorkAlone'
  <2>1. \A j \in Watch!Items \ lapped' : Marking(j)' => edit'.prev = wRow'[j].watched
    BY <1>2, <1>6 DEF WatchInv, WorkAlone
  <2>2. ASSUME i \notin lapped', NEW f \in {1, 2}, Flying(f)'
        PROVE  f = h
    BY <1>3, <1>7, <2>2
  <2>3. i \notin lapped' => ~Marking(i)'
    BY <1>1, <1>6, <1>7
  <2>4. beat'[h].st # "read"
    BY <1>3
  <2> QED  BY <1>1, <2>1, <2>2, <2>3, <2>4 DEF WorkAlone, Playing
<1>9. ASSUME NEW j \in Watch!Items \ lapped', j # i
      PROVE  Paid(j)'
  <2>1. wSeen'[j] = wSeen[j] /\ Paid(j)
    BY <1>1, <1>2, <1>9 DEF WatchTypes, WatchInv
  <2> QED  BY <1>1, <1>2, <1>6, <1>9, <2>1, SameElsewhere
<1>10. ASSUME NEW j \in Watch!Items \ lapped', j = i
       PROVE  Paid(j)'
  <2>1. Paid(j) /\ ~Marking(j) /\ ~Marking(j)' /\ \A g \in {1, 2} : ~Flying(g)
    BY <1>2, <1>6, <1>7, <1>10 DEF WatchInv
  <2>2. \A g \in {1, 2} : Flying(g)' <=> g = h
    BY <1>3, <2>1
  <2>3. beat'[h].at = head["s"] /\ head' = head /\ wSess' = wSess /\ wRow' = wRow
    BY <1>2, <1>3
  <2>4. /\ wSeen'[j].played = wSeen[j].played /\ wSeen'[j].finished = wSeen[j].finished
        /\ wSeen'[j].marks = wSeen[j].marks
    BY <1>1, <1>2, <1>10 DEF WatchTypes
  <2>5. Due(j)' => Due(j)
    BY <1>1, <1>10, <2>1, <2>2, <2>3 DEF Due
  <2>6. OnItsWay(j)' <=> Ahead(j)
    BY <1>1, <1>10, <2>1, <2>2, <2>3 DEF OnItsWay, Ahead
  <2>7. ~Ahead(j)'
    <3>1. ~(head["s"] > head["s"])
      BY <1>1, SessIs
    <3> QED  BY <1>1, <1>10, <2>2, <2>3, <3>1 DEF Ahead
  <2>8. ~OnItsWay(j)
    BY <2>1 DEF OnItsWay
  <2>9. /\ One(Due(j))' <= One(Due(j)) /\ One(Marking(j))' = 0 /\ One(Marking(j)) = 0
        /\ One(OnItsWay(j))' = One(Ahead(j)) /\ One(Ahead(j))' = 0 /\ One(OnItsWay(j)) = 0
    BY <2>1, <2>5, <2>6, <2>7, <2>8 DEF One
  <2>10. wRow'[j] = wRow[j] /\ day'[j] = day[j]
    BY <1>2
  <2> QED  BY <1>1, <2>1, <2>4, <2>9, <2>10, SeenIs, Ones, OnesNext DEF Paid
<1> QED  BY <1>4, <1>5, <1>8, <1>9, <1>10 DEF WatchInv

LEMMA BeatReadsStep ==
  ASSUME WatchInv, NEW h \in {1, 2}, Watch!BeatReads(h)
  PROVE  WatchInv'
<1> DEFINE i == Playing
<1>1. WatchTypes /\ i \in Watch!Items /\ Playing' = i
  BY SessIs DEF WatchInv, Playing, Watch!BeatReads
<1>2. Flying(h) /\ beat[h].sess = "s" /\ beat[h].at \in 0..End
  <2>1. beat[h].st = "sent"
    BY DEF Watch!BeatReads
  <2> QED  BY <1>1, <2>1, BeatIs DEF Flying
<1> DEFINE new == [st |-> "read", sess |-> "s", at |-> beat[h].at, from |-> wSess["s"].pos,
                   watched |-> wRow[i].watched]
<1>3. beat' = [beat EXCEPT ![h] = new]
  BY <1>2 DEF Watch!BeatReads, Playing
<1>4. UNCHANGED <<wRow, recent, wSess, head, edit, day, wSeen, lapped>>
  BY DEF Watch!BeatReads
<1>5. /\ beat'[h] = new /\ Flying(h)' /\ beat'[h].at = beat[h].at
      /\ \A g \in {1, 2} : g # h => beat'[g] = beat[g]
  BY <1>1, <1>3 DEF WatchTypes, Flying
<1>6. \A g \in {1, 2} : (Flying(g)' <=> Flying(g)) /\ beat'[g].at = beat[g].at
  BY <1>2, <1>5 DEF Flying
<1>7. WatchTypes'
  <2>1. new \in ReadBeats
    BY <1>1, <1>2, SessIs, SeenIs DEF ReadBeats
  <2> HIDE DEF new
  <2> QED  BY <1>1, <1>3, <1>4, <2>1 DEF WatchTypes
<1>8. RowsInOrder'
  BY <1>4 DEF WatchInv, RowsInOrder, Watch!IsInjective, Watch!ToSet
<1>9. \A j \in Watch!Items : Marking(j)' <=> Marking(j)
  BY <1>4 DEF Marking
<1>10. WorkAlone'
  <2>1. \A j \in Watch!Items \ lapped' : Marking(j)' => edit'.prev = wRow'[j].watched
    BY <1>4, <1>9 DEF WatchInv, WorkAlone
  <2>2. ASSUME i \notin lapped', NEW f \in {1, 2}, Flying(f)'
        PROVE  /\ \A g \in {1, 2} : Flying(g)' => g = f
               /\ ~Marking(i)'
               /\ beat'[f].st = "read" =>
                    beat'[f].watched = wRow'[i].watched /\ beat'[f].from = wSess'["s"].pos
    <3>1. f = h /\ (\A g \in {1, 2} : Flying(g) => g = f) /\ ~Marking(i)
      BY <1>2, <1>4, <1>6, <2>2 DEF WatchInv, WorkAlone
    <3> QED  BY <1>1, <1>4, <1>5, <1>6, <1>9, <3>1
  <2> QED  BY <1>1, <2>1, <2>2 DEF WorkAlone
<1>11. ASSUME NEW j \in Watch!Items \ lapped'
       PROVE  Paid(j)'
  <2>1. (Due(j)' <=> Due(j)) /\ (OnItsWay(j)' <=> OnItsWay(j)) /\ (Ahead(j)' <=> Ahead(j))
    BY <1>1, <1>4, <1>6 DEF Due, OnItsWay, Ahead
  <2>2. /\ One(Due(j))' = One(Due(j)) /\ One(OnItsWay(j))' = One(OnItsWay(j))
        /\ One(Ahead(j))' = One(Ahead(j)) /\ One(Marking(j))' = One(Marking(j))
    BY <1>9, <2>1 DEF One
  <2> QED  BY <1>4, <2>2 DEF Paid, WatchInv
<1> QED  BY <1>7, <1>8, <1>10, <1>11 DEF WatchInv

LEMMA BeatWritesStep ==
  ASSUME WatchInv, NEW h \in {1, 2}, Watch!BeatWrites(h)
  PROVE  WatchInv'
<1> DEFINE i == Playing
           b == beat[h]
           n == IF Watch!Completes(b) THEN 1 ELSE 0
           c == Watch!CreditOf(b)
<1>1. WatchTypes /\ i \in Watch!Items /\ Flying(h) /\ b.st = "read"
  BY SessIs DEF WatchInv, Flying, Watch!BeatWrites
<1>2. /\ b.sess = "s" /\ b.at \in 0..End /\ b.from \in 0..End /\ b.watched \in BOOLEAN
      /\ End \in Nat
  BY <1>1, BeatIs, WatchEnds DEF ReadBeats
<1>3. n \in {0, 1} /\ c \in {0, 1} /\ (c = 1 => b.at > b.from)
      /\ (n = 1 <=> b.at = End /\ ~b.watched) /\ (b.at >= End <=> b.at = End)
  BY <1>2 DEF Watch!Completes, Watch!CreditOf, Watch!Credit
<1>4. /\ wSess' = [wSess EXCEPT !["s"].pos = b.at]
      /\ wRow' = [wRow EXCEPT ![i] = [exists |-> TRUE, pos |-> b.at, watched |-> b.at >= End,
                                      plays |-> @.plays + n]]
      /\ day' = [day EXCEPT ![i].credit = @ + c, ![i].completions = @ + n]
      /\ Watch!Touch(i)
      /\ beat' = [beat EXCEPT ![h] = Watch!Idle]
      /\ UNCHANGED <<head, edit, wSeen, lapped>>
  BY <1>2 DEF Watch!BeatWrites, Playing
<1> HIDE DEF n, c
<1>5. /\ wSess'["s"].pos = b.at /\ wSess'["s"].item = i /\ Playing' = i
      /\ wSess' \in [{"s"} -> [item : Watch!Items, pos : 0..End]]
  BY <1>1, <1>2, <1>4 DEF WatchTypes, Playing
<1>6. /\ wRow' \in [Watch!Items -> [pos : 0..End, watched : BOOLEAN, plays : Nat, exists : BOOLEAN]]
      /\ wRow'[i].plays = wRow[i].plays + n /\ wRow'[i].watched = (b.at = End) /\ wRow'[i].exists
      /\ \A j \in Watch!Items : j # i => wRow'[j] = wRow[j]
  <2>1. (b.at >= End) \in BOOLEAN /\ wRow[i].plays + n \in Nat
    BY <1>1, <1>2, <1>3, SeenIs
  <2> DEFINE new == [exists |-> TRUE, pos |-> b.at, watched |-> b.at >= End,
                     plays |-> wRow[i].plays + n]
  <2>2. wRow' = [wRow EXCEPT ![i] = new]
    BY <1>4
  <2>3. new \in [pos : 0..End, watched : BOOLEAN, plays : Nat, exists : BOOLEAN]
    BY <1>2, <2>1
  <2>4. new.plays = wRow[i].plays + n /\ new.watched = (b.at = End) /\ new.exists
    BY <1>3
  <2> HIDE DEF new
  <2> QED  BY <1>1, <2>2, <2>3, <2>4 DEF WatchTypes
<1>7. /\ day' \in [Watch!Items -> [credit : Nat, completions : Nat]]
      /\ day'[i].credit = day[i].credit + c /\ day'[i].completions = day[i].completions + n
      /\ \A j \in Watch!Items : j # i => day'[j] = day[j]
  <2>1. c \in Nat /\ n \in Nat /\ day \in [Watch!Items -> [credit : Nat, completions : Nat]]
    BY <1>1, <1>3 DEF WatchTypes
  <2> DEFINE new == [day[i] EXCEPT !.credit = @ + c, !.completions = @ + n]
  <2>2. day' = [day EXCEPT ![i] = new]
    BY <1>4
  <2>3. /\ new \in [credit : Nat, completions : Nat] /\ new.credit = day[i].credit + c
        /\ new.completions = day[i].completions + n
    <3> DEFINE old == day[i]
    <3>1. old \in [credit : Nat, completions : Nat]
      BY <1>1, <2>1
    <3> HIDE DEF old
    <3>2. new = [old EXCEPT !.credit = @ + c, !.completions = @ + n]
      BY DEF old
    <3>3. old.credit + c \in Nat /\ old.completions + n \in Nat
      BY <2>1, <3>1
    <3> HIDE DEF new
    <3>4. /\ new \in [credit : Nat, completions : Nat] /\ new.credit = old.credit + c
          /\ new.completions = old.completions + n
      BY <3>1, <3>2, <3>3
    <3> QED  BY <3>4 DEF old
  <2> HIDE DEF new
  <2> QED  BY <1>1, <2>1, <2>2, <2>3
<1>8. /\ beat'[h] = Watch!Idle /\ ~Flying(h)'
      /\ \A g \in {1, 2} : g # h => beat'[g] = beat[g] /\ (Flying(g)' <=> Flying(g))
  BY <1>1, <1>4 DEF WatchTypes, Flying, Watch!Idle
<1>9. WatchTypes'
  <2>1. beat' \in [{1, 2} -> {Watch!Idle} \cup SentBeats \cup ReadBeats]
    BY <1>1, <1>4 DEF WatchTypes
  <2> QED  BY <1>1, <1>4, <1>5, <1>6, <1>7, <2>1 DEF WatchTypes
<1>10. RowsInOrder'
  <2>1. /\ recent' \in Seq(Watch!Items) /\ Watch!IsInjective(recent')
        /\ Watch!ToSet(recent') = Watch!ToSet(recent) \cup {i}
    BY <1>1, <1>4, TouchMoves DEF WatchInv, RowsInOrder
  <2>2. {j \in Watch!Items : wRow'[j].exists} = {j \in Watch!Items : wRow[j].exists} \cup {i}
    BY <1>1, <1>6
  <2> QED  BY <2>1, <2>2 DEF WatchInv, RowsInOrder, Watch!IsInjective, Watch!ToSet
<1>11. \A j \in Watch!Items : Marking(j)' <=> Marking(j)
  BY <1>4 DEF Marking
<1>12. i \notin lapped => /\ \A g \in {1, 2} : Flying(g) => g = h
                          /\ ~Marking(i)
                          /\ b.watched = wRow[i].watched /\ b.from = wSess["s"].pos
  BY <1>1 DEF WatchInv, WorkAlone
<1>13. i \notin lapped => \A g \in {1, 2} : ~Flying(g)'
  BY <1>8, <1>12
<1>14. WorkAlone'
  <2>1. ASSUME NEW j \in Watch!Items \ lapped', Marking(j)'
        PROVE  edit'.prev = wRow'[j].watched
    <3>1. Marking(j) /\ j \notin lapped /\ edit' = edit /\ j # i
      BY <1>4, <1>11, <1>12, <2>1
    <3> QED  BY <1>6, <3>1 DEF WatchInv, WorkAlone
  <2> QED  BY <1>4, <1>5, <1>13, <2>1 DEF WorkAlone
<1>15. ASSUME NEW j \in Watch!Items \ lapped', j # i
       PROVE  Paid(j)'
  BY <1>4, <1>5, <1>6, <1>7, <1>11, <1>15, SameElsewhere DEF WatchInv
<1>16. ASSUME NEW j \in Watch!Items \ lapped', j = i
       PROVE  Paid(j)'
  <2>1. Paid(j) /\ j \notin lapped
    BY <1>4 DEF WatchInv
  <2>2. (\A g \in {1, 2} : Flying(g) => g = h) /\ ~Marking(j) /\ ~Marking(j)'
        /\ (\A g \in {1, 2} : ~Flying(g)') /\ wRow[j].watched = b.watched
        /\ b.from = wSess["s"].pos
    BY <1>11, <1>12, <1>13, <1>16, <2>1
  <2>3. Due(j) <=> IF b.at = End THEN ~b.watched ELSE head["s"] = End
    BY <1>1, <1>16, <2>2 DEF Due
  <2>4. Due(j)' <=> head["s"] = End /\ ~(b.at = End)
    <3>1. Playing' = j /\ head' = head /\ wRow'[j].watched = (b.at = End)
      BY <1>4, <1>5, <1>6, <1>16
    <3>2. \A g \in {1, 2} : ~Flying(g)'
      BY <2>2
    <3> HIDE DEF b, i
    <3> QED  BY <3>1, <3>2 DEF Due
  <2>5. OnItsWay(j) <=> b.at > b.from
    BY <1>1, <1>16, <2>2 DEF OnItsWay
  <2>6. ~OnItsWay(j)'
    BY <2>2 DEF OnItsWay
  <2>7. Ahead(j)' <=> Ahead(j)
    BY <1>1, <1>4, <1>5, <1>16, <2>2 DEF Ahead
  <2>8. /\ One(Due(j))' + n <= One(Due(j)) /\ One(Marking(j)) = 0 /\ One(Marking(j))' = 0
        /\ c <= One(OnItsWay(j)) /\ One(OnItsWay(j))' = 0 /\ One(Ahead(j))' = One(Ahead(j))
    BY <1>3, <2>2, <2>3, <2>4, <2>5, <2>6, <2>7 DEF One
  <2>9. /\ wRow'[j].plays = wRow[j].plays + n /\ day'[j].credit = day[j].credit + c
        /\ day'[j].completions = day[j].completions + n /\ wSeen'[j] = wSeen[j]
    BY <1>4, <1>6, <1>7, <1>16
  <2> HIDE DEF b
  <2> QED  BY <1>1, <1>3, <2>1, <2>8, <2>9, SeenIs, Ones, OnesNext DEF Paid
<1> QED  BY <1>9, <1>10, <1>14, <1>15, <1>16 DEF WatchInv

LEMMA MarkReadsStep ==
  ASSUME WatchInv, NEW i \in Watch!Items, NEW w \in BOOLEAN, Watch!MarkReads(i, w)
  PROVE  WatchInv'
<1>1. WatchTypes /\ Playing \in Watch!Items /\ Playing' = Playing
  BY SessIs DEF WatchInv, Playing, Watch!MarkReads
<1>2. /\ edit = Watch!Idle /\ edit' = [st |-> "read", item |-> i, to |-> w, prev |-> wRow[i].watched]
      /\ wSeen' = [wSeen EXCEPT ![i].marks = @ + 1, ![i].edits = @ + 1]
      /\ lapped' = IF Watch!Busy(i) THEN lapped \cup {i} ELSE lapped
      /\ UNCHANGED <<wRow, recent, wSess, head, beat, day>>
  BY DEF Watch!MarkReads
<1>3. /\ wSeen' \in [Watch!Items -> Histories]
      /\ wSeen'[i].marks = wSeen[i].marks + 1 /\ wSeen'[i].finished = wSeen[i].finished
      /\ wSeen'[i].played = wSeen[i].played /\ \A j \in Watch!Items : j # i => wSeen'[j] = wSeen[j]
  <2>1. wSeen \in [Watch!Items -> Histories]
    BY <1>1 DEF WatchTypes, Histories
  <2> QED  BY <1>2, <2>1 DEF Histories
<1>4. edit'.st = "read" /\ edit'.item = i /\ edit'.prev = wRow[i].watched /\ edit' \in ReadMarks
  <2>1. wRow[i].watched \in BOOLEAN
    BY <1>1, SeenIs
  <2> QED  BY <1>2, <2>1 DEF ReadMarks
<1>5. WatchTypes'
  BY <1>1, <1>2, <1>3, <1>4 DEF WatchTypes, Histories
<1>6. RowsInOrder'
  BY <1>2 DEF WatchInv, RowsInOrder, Watch!IsInjective, Watch!ToSet
<1>7. \A j \in Watch!Items : ~Marking(j) /\ (Marking(j)' <=> j = i)
  BY <1>2, <1>4 DEF Marking, Watch!Idle
<1>8. \A g \in {1, 2} : Flying(g)' <=> Flying(g)
  BY <1>2 DEF Flying
<1>9. i \notin lapped' /\ i = Playing => \A g \in {1, 2} : ~Flying(g)
  BY <1>1, <1>2, BusyIs
<1>10. lapped \subseteq lapped'
  BY <1>2
<1>11. WorkAlone'
  <2>1. ASSUME Playing \notin lapped', NEW h \in {1, 2}, Flying(h)'
        PROVE  /\ \A g \in {1, 2} : Flying(g)' => g = h
               /\ ~Marking(Playing)'
               /\ beat'[h].st = "read" =>
                    beat'[h].watched = wRow'[Playing].watched /\ beat'[h].from = wSess'["s"].pos
    <3>1. Flying(h) /\ Playing # i /\ Playing \notin lapped
      BY <1>8, <1>9, <1>10, <2>1
    <3> QED  BY <1>1, <1>2, <1>7, <1>8, <3>1 DEF WatchInv, WorkAlone
  <2>2. ASSUME NEW j \in Watch!Items, Marking(j)'
        PROVE  edit'.prev = wRow'[j].watched
    BY <1>2, <1>4, <1>7, <2>2
  <2> QED  BY <1>1, <2>1, <2>2 DEF WorkAlone
<1>12. ASSUME NEW j \in Watch!Items \ lapped'
       PROVE  Paid(j)'
  <2>1. Paid(j)
    BY <1>10 DEF WatchInv
  <2>2. (Due(j)' <=> Due(j)) /\ (OnItsWay(j)' <=> OnItsWay(j)) /\ (Ahead(j)' <=> Ahead(j))
    BY <1>1, <1>2, <1>8 DEF Due, OnItsWay, Ahead
  <2>3. /\ One(Due(j))' = One(Due(j)) /\ One(OnItsWay(j))' = One(OnItsWay(j))
        /\ One(Ahead(j))' = One(Ahead(j)) /\ One(Marking(j)) = 0
        /\ One(Marking(j))' = IF j = i THEN 1 ELSE 0
    BY <1>7, <2>2 DEF One
  <2>4. /\ wSeen'[j].marks = wSeen[j].marks + (IF j = i THEN 1 ELSE 0)
        /\ wSeen'[j].finished = wSeen[j].finished /\ wSeen'[j].played = wSeen[j].played
    BY <1>1, <1>3, SeenIs
  <2> QED  BY <1>1, <1>2, <2>1, <2>3, <2>4, SeenIs, Ones DEF Paid
<1> QED  BY <1>5, <1>6, <1>11, <1>12 DEF WatchInv

LEMMA MarkWritesStep == WatchInv /\ Watch!MarkWrites => WatchInv'
<1> SUFFICES ASSUME WatchInv, Watch!MarkWrites PROVE WatchInv'
  OBVIOUS
<1> DEFINE i == edit.item
           old == wRow[i]
           new == IF ~edit.to THEN [Watch!NoRow EXCEPT !.exists = TRUE]
                  ELSE IF ~old.exists THEN [exists |-> TRUE, pos |-> 0, watched |-> TRUE, plays |-> 1]
                  ELSE [old EXCEPT !.watched = TRUE, !.plays = @ + (IF edit.prev THEN 0 ELSE 1)]
<1>1. WatchTypes /\ Playing \in Watch!Items /\ Playing' = Playing /\ edit.st = "read"
  BY SessIs DEF WatchInv, Playing, Watch!MarkWrites
<1>2. i \in Watch!Items /\ edit.to \in BOOLEAN /\ edit.prev \in BOOLEAN
      /\ \A j \in Watch!Items : Marking(j) <=> j = i
  BY <1>1 DEF WatchTypes, Watch!Idle, ReadMarks, Marking
<1>3. /\ wRow' = [wRow EXCEPT ![i] = new] /\ Watch!Touch(i) /\ edit' = Watch!Idle
      /\ UNCHANGED <<wSess, head, beat, day, wSeen, lapped>>
  BY DEF Watch!MarkWrites
<1>4. /\ new \in [pos : 0..End, watched : BOOLEAN, plays : Nat, exists : BOOLEAN] /\ new.exists
      /\ new.watched <=> edit.to
      /\ edit.to => new.plays = 1 \/ new.plays = old.plays + (IF edit.prev THEN 0 ELSE 1)
      /\ ~edit.to => new.plays = 0
  <2>1. old \in [pos : 0..End, watched : BOOLEAN, plays : Nat, exists : BOOLEAN]
    BY <1>1, <1>2 DEF WatchTypes
  <2> HIDE DEF old, i
  <2>2. CASE ~edit.to
    BY <1>2, <2>2, WatchEnds DEF Watch!NoRow
  <2>3. CASE edit.to /\ ~old.exists
    BY <2>3, WatchEnds
  <2>4. CASE edit.to /\ old.exists
    <3> DEFINE n == IF edit.prev THEN 0 ELSE 1
    <3>1. n \in Nat /\ old.plays + n \in Nat
      BY <2>1
    <3> HIDE DEF n
    <3>2. new = [old EXCEPT !.watched = TRUE, !.plays = @ + n]
      BY <2>4 DEF n
    <3>3. /\ new \in [pos : 0..End, watched : BOOLEAN, plays : Nat, exists : BOOLEAN]
          /\ new.exists /\ new.watched = TRUE /\ new.plays = old.plays + n
      <4> HIDE DEF new
      <4> QED  BY <2>1, <2>4, <3>1, <3>2
    <3> HIDE DEF new
    <3> QED  BY <2>4, <3>3 DEF n
  <2> QED  BY <1>2, <2>1, <2>2, <2>3, <2>4
<1> HIDE DEF new
<1>5. wRow'[i] = new /\ \A j \in Watch!Items : j # i => wRow'[j] = wRow[j]
  BY <1>1, <1>2, <1>3 DEF WatchTypes
<1>6. WatchTypes'
  BY <1>1, <1>2, <1>3, <1>4 DEF WatchTypes
<1>7. RowsInOrder'
  <2>1. /\ recent' \in Seq(Watch!Items) /\ Watch!IsInjective(recent')
        /\ Watch!ToSet(recent') = Watch!ToSet(recent) \cup {i}
    BY <1>2, <1>3, TouchMoves DEF WatchInv, RowsInOrder
  <2>2. {j \in Watch!Items : wRow'[j].exists} = {j \in Watch!Items : wRow[j].exists} \cup {i}
    BY <1>2, <1>4, <1>5
  <2> QED  BY <2>1, <2>2 DEF WatchInv, RowsInOrder, Watch!IsInjective, Watch!ToSet
<1>8. \A j \in Watch!Items : ~Marking(j)'
  BY <1>3 DEF Marking, Watch!Idle
<1>9. \A g \in {1, 2} : Flying(g)' <=> Flying(g)
  BY <1>3 DEF Flying
<1>10. Playing \notin lapped /\ Playing = i => \A g \in {1, 2} : ~Flying(g)
  BY <1>1, <1>2 DEF WatchInv, WorkAlone
<1>11. WorkAlone'
  <2>1. ASSUME Playing \notin lapped, NEW h \in {1, 2}, Flying(h)'
        PROVE  /\ \A g \in {1, 2} : Flying(g)' => g = h
               /\ ~Marking(Playing)'
               /\ beat'[h].st = "read" =>
                    beat'[h].watched = wRow'[Playing].watched /\ beat'[h].from = wSess'["s"].pos
    <3>1. Flying(h) /\ Playing # i
      BY <1>9, <1>10, <2>1
    <3> QED  BY <1>1, <1>3, <1>5, <1>8, <1>9, <2>1, <3>1 DEF WatchInv, WorkAlone
  <2> QED  BY <1>1, <1>3, <1>8, <2>1 DEF WorkAlone
<1>12. ASSUME NEW j \in Watch!Items \ lapped', j # i
       PROVE  Paid(j)'
  <2>1. Paid(j) /\ ~Marking(j) /\ ~Marking(j)' /\ wRow'[j] = wRow[j]
    BY <1>2, <1>3, <1>5, <1>8, <1>12 DEF WatchInv
  <2>2. (Due(j)' <=> Due(j)) /\ (OnItsWay(j)' <=> OnItsWay(j)) /\ (Ahead(j)' <=> Ahead(j))
    BY <1>1, <1>3, <1>9, <2>1 DEF Due, OnItsWay, Ahead
  <2>3. /\ One(Due(j))' = One(Due(j)) /\ One(OnItsWay(j))' = One(OnItsWay(j))
        /\ One(Ahead(j))' = One(Ahead(j)) /\ One(Marking(j))' = One(Marking(j))
    BY <2>1, <2>2 DEF One
  <2> QED  BY <1>3, <2>1, <2>3 DEF Paid
<1>13. ASSUME NEW j \in Watch!Items \ lapped', j = i
       PROVE  Paid(j)'
  <2>1. Paid(j) /\ Marking(j) /\ ~Marking(j)' /\ edit.prev = wRow[j].watched /\ j \notin lapped
    BY <1>2, <1>3, <1>8, <1>13 DEF WatchInv, WorkAlone
  <2>2. (OnItsWay(j)' <=> OnItsWay(j)) /\ (Ahead(j)' <=> Ahead(j))
    BY <1>1, <1>3, <1>9 DEF OnItsWay, Ahead
  <2>3. Due(j)' => ~edit.to
    <3>1. ASSUME edit.to
          PROVE  ~Due(j)'
      <4>1. wRow'[j].watched
        BY <1>4, <1>5, <1>13, <3>1
      <4>2. Playing' = j => \A g \in {1, 2} : ~Flying(g)'
        BY <1>1, <1>9, <1>10, <1>13, <2>1
      <4> QED  BY <4>1, <4>2 DEF Due
    <3> QED  BY <1>2, <3>1
  <2>4. /\ One(OnItsWay(j))' = One(OnItsWay(j)) /\ One(Ahead(j))' = One(Ahead(j))
        /\ One(Marking(j)) = 1 /\ One(Marking(j))' = 0 /\ (edit.to => One(Due(j))' = 0)
    BY <2>1, <2>2, <2>3 DEF One
  <2>5. /\ wRow'[j].plays <= wRow[j].plays + 1 \/ wRow'[j].plays <= 1
        /\ ~edit.to => wRow'[j].plays = 0
        /\ wRow'[j].plays \in Nat
    BY <1>1, <1>2, <1>4, <1>5, <1>13, SeenIs
  <2> HIDE DEF i, old
  <2>6. day'[j] = day[j] /\ wSeen'[j] = wSeen[j]
    BY <1>3
  <2>7. /\ One(Due(j)) \in {0, 1} /\ One(Due(j))' \in {0, 1}
        /\ One(OnItsWay(j)) \in {0, 1} /\ One(Ahead(j)) \in {0, 1}
    BY Ones, OnesNext
  <2>8. /\ wRow[j].plays + One(Due(j)) + 1 <= wSeen[j].finished + wSeen[j].marks
        /\ day[j].completions + One(Due(j)) + 1 <= wSeen[j].finished + wSeen[j].marks
        /\ day[j].credit + One(OnItsWay(j)) + One(Ahead(j)) <= wSeen[j].played
    BY <2>1, <2>4 DEF Paid
  <2>9. wRow'[j].plays + One(Due(j))' <= wSeen[j].finished + wSeen[j].marks
    <3>1. CASE edit.to
      BY <1>1, <2>4, <2>5, <2>7, <2>8, <3>1, SeenIs
    <3>2. CASE ~edit.to
      BY <1>1, <2>4, <2>5, <2>7, <2>8, <3>2, SeenIs
    <3> QED  BY <3>1, <3>2
  <2>10. day[j].completions + One(Due(j))' <= wSeen[j].finished + wSeen[j].marks
    BY <1>1, <2>7, <2>8, SeenIs
  <2> QED  BY <1>1, <2>4, <2>5, <2>6, <2>7, <2>8, <2>9, <2>10, SeenIs DEF Paid
<1> QED  BY <1>6, <1>7, <1>11, <1>12, <1>13 DEF WatchInv

LEMMA SyncStep ==
  ASSUME WatchInv, NEW i \in Watch!Items, NEW p \in 0..End, NEW w \in BOOLEAN, Watch!Sync(i, p, w)
  PROVE  WatchInv'
<1> DEFINE old == wRow[i]
           new == IF old.exists THEN [old EXCEPT !.pos = p, !.watched = w]
                  ELSE [exists |-> TRUE, pos |-> p, watched |-> w, plays |-> IF w THEN 1 ELSE 0]
<1>1. WatchTypes /\ Playing \in Watch!Items /\ Playing' = Playing
  BY SessIs DEF WatchInv, Playing, Watch!Sync
<1>2. /\ wRow' = [wRow EXCEPT ![i] = new] /\ Watch!Touch(i)
      /\ wSeen' = [wSeen EXCEPT ![i].marks = @ + 1, ![i].edits = @ + 1]
      /\ lapped' = IF Watch!Busy(i) THEN lapped \cup {i} ELSE lapped
      /\ UNCHANGED <<wSess, head, beat, edit, day>>
  BY DEF Watch!Sync
<1>3. /\ wSeen' \in [Watch!Items -> Histories]
      /\ wSeen'[i].marks = wSeen[i].marks + 1 /\ wSeen'[i].finished = wSeen[i].finished
      /\ wSeen'[i].played = wSeen[i].played /\ \A j \in Watch!Items : j # i => wSeen'[j] = wSeen[j]
  <2>1. wSeen \in [Watch!Items -> Histories]
    BY <1>1 DEF WatchTypes, Histories
  <2> QED  BY <1>2, <2>1 DEF Histories
<1>4. /\ new \in [pos : 0..End, watched : BOOLEAN, plays : Nat, exists : BOOLEAN] /\ new.exists
      /\ new.watched = w /\ (new.plays = old.plays \/ new.plays = IF w THEN 1 ELSE 0)
  <2>1. old \in [pos : 0..End, watched : BOOLEAN, plays : Nat, exists : BOOLEAN]
    BY <1>1 DEF WatchTypes
  <2> HIDE DEF old
  <2> QED  BY <2>1
<1> HIDE DEF new
<1>5. wRow'[i] = new /\ \A j \in Watch!Items : j # i => wRow'[j] = wRow[j]
  BY <1>1, <1>2 DEF WatchTypes
<1>6. WatchTypes'
  BY <1>1, <1>2, <1>3, <1>4 DEF WatchTypes, Histories
<1>7. RowsInOrder'
  <2>1. /\ recent' \in Seq(Watch!Items) /\ Watch!IsInjective(recent')
        /\ Watch!ToSet(recent') = Watch!ToSet(recent) \cup {i}
    BY <1>2, TouchMoves DEF WatchInv, RowsInOrder
  <2>2. {j \in Watch!Items : wRow'[j].exists} = {j \in Watch!Items : wRow[j].exists} \cup {i}
    BY <1>4, <1>5
  <2> QED  BY <2>1, <2>2 DEF WatchInv, RowsInOrder, Watch!IsInjective, Watch!ToSet
<1>8. /\ \A j \in Watch!Items : Marking(j)' <=> Marking(j)
      /\ \A g \in {1, 2} : Flying(g)' <=> Flying(g)
  BY <1>2 DEF Marking, Flying
<1>9. i \notin lapped' => ~Marking(i) /\ (i = Playing => \A g \in {1, 2} : ~Flying(g))
  BY <1>1, <1>2, BusyIs
<1>10. lapped \subseteq lapped'
  BY <1>2
<1>11. WorkAlone'
  <2>1. ASSUME Playing \notin lapped', NEW h \in {1, 2}, Flying(h)'
        PROVE  /\ \A g \in {1, 2} : Flying(g)' => g = h
               /\ ~Marking(Playing)'
               /\ beat'[h].st = "read" =>
                    beat'[h].watched = wRow'[Playing].watched /\ beat'[h].from = wSess'["s"].pos
    <3>1. Flying(h) /\ Playing # i /\ Playing \notin lapped
      BY <1>8, <1>9, <1>10, <2>1
    <3> QED  BY <1>1, <1>2, <1>5, <1>8, <3>1 DEF WatchInv, WorkAlone
  <2>2. ASSUME NEW j \in Watch!Items \ lapped', Marking(j)'
        PROVE  edit'.prev = wRow'[j].watched
    <3>1. Marking(j) /\ j \notin lapped /\ j # i
      BY <1>8, <1>9, <1>10, <2>2
    <3> QED  BY <1>2, <1>5, <3>1 DEF WatchInv, WorkAlone
  <2> QED  BY <1>1, <2>1, <2>2 DEF WorkAlone
<1>12. ASSUME NEW j \in Watch!Items \ lapped', j # i
       PROVE  Paid(j)'
  <2>1. Paid(j) /\ wRow'[j] = wRow[j] /\ wSeen'[j] = wSeen[j]
    BY <1>3, <1>5, <1>10, <1>12 DEF WatchInv
  <2>2. (Due(j)' <=> Due(j)) /\ (OnItsWay(j)' <=> OnItsWay(j)) /\ (Ahead(j)' <=> Ahead(j))
    BY <1>1, <1>2, <1>8, <2>1 DEF Due, OnItsWay, Ahead
  <2>3. /\ One(Due(j))' = One(Due(j)) /\ One(OnItsWay(j))' = One(OnItsWay(j))
        /\ One(Ahead(j))' = One(Ahead(j)) /\ One(Marking(j))' = One(Marking(j))
    BY <1>8, <2>2 DEF One
  <2> QED  BY <1>2, <2>1, <2>3 DEF Paid
<1>13. ASSUME NEW j \in Watch!Items \ lapped', j = i
       PROVE  Paid(j)'
  <2>1. Paid(j) /\ ~Marking(j) /\ ~Marking(j)'
    BY <1>8, <1>9, <1>10, <1>13 DEF WatchInv
  <2>2. (OnItsWay(j)' <=> OnItsWay(j)) /\ (Ahead(j)' <=> Ahead(j))
    BY <1>1, <1>2, <1>8 DEF OnItsWay, Ahead
  <2>3. Due(j)' => ~w
    <3>1. wRow'[j].watched = w
      BY <1>4, <1>5, <1>13
    <3>2. Playing' = j => \A g \in {1, 2} : ~Flying(g)'
      BY <1>1, <1>8, <1>9, <1>13
    <3> QED  BY <3>1, <3>2 DEF Due
  <2>4. /\ One(OnItsWay(j))' = One(OnItsWay(j)) /\ One(Ahead(j))' = One(Ahead(j))
        /\ One(Marking(j)) = 0 /\ One(Marking(j))' = 0 /\ (w => One(Due(j))' = 0)
    BY <2>1, <2>2, <2>3 DEF One
  <2>5. wRow'[j].plays = wRow[j].plays \/ wRow'[j].plays = IF w THEN 1 ELSE 0
    BY <1>4, <1>5, <1>13
  <2>6. /\ wSeen'[j].marks = wSeen[j].marks + 1 /\ wSeen'[j].finished = wSeen[j].finished
        /\ wSeen'[j].played = wSeen[j].played /\ day'[j] = day[j]
    BY <1>2, <1>3, <1>13
  <2> HIDE DEF old
  <2> QED  BY <1>1, <2>1, <2>4, <2>5, <2>6, SeenIs, Ones, OnesNext DEF Paid
<1> QED  BY <1>6, <1>7, <1>11, <1>12, <1>13 DEF WatchInv

LEMMA WatchStep == WatchInv /\ Watch!Next => WatchInv'
<1> SUFFICES ASSUME WatchInv, Watch!Next PROVE WatchInv'
  OBVIOUS
<1> QED
  BY WatchEnds, PlayStep, SeekStep, BeatSentStep, BeatReadsStep, BeatWritesStep, MarkReadsStep,
     MarkWritesStep, SyncStep, Zenon DEF Watch!Next, Watch!Slots

LEMMA WatchIdle == WatchInv /\ UNCHANGED Watch!vars => WatchInv'
<1> SUFFICES ASSUME WatchInv, UNCHANGED Watch!vars PROVE WatchInv'
  OBVIOUS
<1>1. UNCHANGED <<wRow, recent, wSess, head, beat, edit, day, wSeen, lapped>>
  BY DEF Watch!vars
<1>2. WatchTypes' /\ RowsInOrder'
  <2>1. WatchTypes'
    BY <1>1 DEF WatchInv, WatchTypes
  <2>2. RowsInOrder'
    BY <1>1 DEF WatchInv, RowsInOrder, Watch!IsInjective, Watch!ToSet
  <2> QED  BY <2>1, <2>2
<1>3. Playing' = Playing /\ \A h : Flying(h)' <=> Flying(h)
  BY <1>1 DEF Playing, Flying
<1>4. WorkAlone'
  BY <1>1, <1>3 DEF WatchInv, WorkAlone, Marking
<1>5. ASSUME NEW j \in Watch!Items \ lapped
      PROVE  Paid(j)'
  <2>1. /\ Due(j)' <=> Due(j)
        /\ OnItsWay(j)' <=> OnItsWay(j)
        /\ Ahead(j)' <=> Ahead(j)
        /\ Marking(j)' <=> Marking(j)
    BY <1>1, <1>3 DEF Due, OnItsWay, Ahead, Marking
  <2>2. /\ One(Due(j))' = One(Due(j)) /\ One(OnItsWay(j))' = One(OnItsWay(j))
        /\ One(Ahead(j))' = One(Ahead(j)) /\ One(Marking(j))' = One(Marking(j))
    BY <2>1 DEF One
  <2> QED  BY <1>1, <2>2 DEF WatchInv, Paid
<1> QED  BY <1>1, <1>2, <1>4, <1>5 DEF WatchInv

LEMMA WatchHolds == WatchInv => Watch!TypeOK /\ Watch!RailIsLatest /\ Watch!CountsAreEarned
<1> SUFFICES ASSUME WatchInv PROVE Watch!TypeOK /\ Watch!RailIsLatest /\ Watch!CountsAreEarned
  OBVIOUS
<1>1. Watch!TypeOK
  BY WatchEnds DEF WatchInv, WatchTypes, RowsInOrder, Watch!TypeOK
<1>2. Watch!RailIsLatest
  BY RailStays DEF WatchInv, RowsInOrder
<1>3. ASSUME NEW i \in Watch!Items \ lapped
      PROVE  /\ wRow[i].plays <= wSeen[i].finished + wSeen[i].marks
             /\ day[i].completions <= wSeen[i].finished + wSeen[i].marks
             /\ day[i].credit <= wSeen[i].played
  BY SeenIs, Ones DEF WatchInv, Paid
<1> QED  BY <1>1, <1>2, <1>3 DEF Watch!CountsAreEarned

-----------------------------------------------------------------------------
(***************************************************************************)
(* PlaybackPlan and EncodeFallback: which command lines ffmpeg can run.    *)
(***************************************************************************)
(* A chain of filters that takes frames from the memory x to the memory y,  *)
(* and uploads only to d.                                                  *)
Names == {"tonemap", "format", "hwupload", "hwupload_cuda", "scale_npp", "scale", "subtitles"}
Memories == {"system", "cuda", "vaapi", "qsv"}
Steps == [name : Names, in : Memories, out : Memories]
Chain(x, s, y, d) ==
  /\ s \in Seq(Steps)
  /\ \A i \in 1..Len(s) : /\ s[i].in = (IF i > 1 THEN s[i - 1].out ELSE x)
                          /\ s[i].name = "hwupload" => s[i].out = d
  /\ y = (IF Len(s) > 0 THEN s[Len(s)].out ELSE x)

LEMMA NoFilter == ASSUME NEW x, NEW d PROVE Chain(x, <<>>, x, d)
  BY DEF Chain

LEMMA OneFilter ==
  ASSUME NEW f \in Steps, NEW d, f.name = "hwupload" => f.out = d
  PROVE  Chain(f.in, <<f>>, f.out, d)
  BY DEF Chain

LEMMA Join ==
  ASSUME NEW x, NEW y, NEW z, NEW d, NEW s, NEW t, Chain(x, s, y, d), Chain(y, t, z, d)
  PROVE  Chain(x, s \o t, z, d)
<1>1. s \in Seq(Steps) /\ t \in Seq(Steps)
  BY DEF Chain
<1>2. /\ s \o t \in Seq(Steps) /\ Len(s \o t) = Len(s) + Len(t)
      /\ Len(s) \in Nat /\ Len(t) \in Nat
      /\ \A i \in 1..Len(s) : (s \o t)[i] = s[i]
      /\ \A i \in 1..Len(t) : (s \o t)[Len(s) + i] = t[i]
  BY <1>1
<1>3. ASSUME NEW i \in 1..Len(s \o t)
      PROVE  /\ (s \o t)[i].in = (IF i > 1 THEN (s \o t)[i - 1].out ELSE x)
             /\ (s \o t)[i].name = "hwupload" => (s \o t)[i].out = d
  <2>1. CASE i \in 1..Len(s)
    <3>1. i > 1 => i - 1 \in 1..Len(s)
      BY <2>1, <1>2
    <3> QED  BY <2>1, <3>1, <1>2 DEF Chain
  <2>2. CASE i \notin 1..Len(s)
    <3> DEFINE j == i - Len(s)
    <3>1. j \in 1..Len(t) /\ i = Len(s) + j /\ (s \o t)[i] = t[j]
      BY <2>2, <1>2
    <3>2. CASE j > 1
      <4>1. j - 1 \in 1..Len(t) /\ i - 1 = Len(s) + (j - 1) /\ i > 1
        BY <3>1, <3>2, <1>2
      <4> HIDE DEF j
      <4>2. (s \o t)[i - 1] = t[j - 1]
        BY <4>1, <1>2
      <4> QED  BY <3>1, <3>2, <4>1, <4>2 DEF Chain
    <3>3. CASE j = 1
      <4>1. t[1].in = y /\ (s \o t)[i] = t[1] /\ i = Len(s) + 1
            /\ (t[1].name = "hwupload" => t[1].out = d)
        BY <3>1, <3>3 DEF Chain
      <4>2. CASE Len(s) > 0
        <5>1. i > 1 /\ i - 1 = Len(s) /\ Len(s) \in 1..Len(s) /\ y = s[Len(s)].out
          BY <4>1, <4>2, <1>2 DEF Chain
        <5>2. (s \o t)[i - 1] = s[Len(s)]
          BY <5>1, <1>2
        <5> QED  BY <4>1, <5>1, <5>2
      <4>3. CASE Len(s) = 0
        <5>1. i = 1 /\ y = x
          BY <4>1, <4>3 DEF Chain
        <5> QED  BY <4>1, <5>1
      <4> QED  BY <4>2, <4>3, <1>2
    <3> QED  BY <3>1, <3>2, <3>3, <1>2
  <2> QED  BY <2>1, <2>2
<1>4. z = (IF Len(s \o t) > 0 THEN (s \o t)[Len(s \o t)].out ELSE x)
  <2>1. CASE Len(t) > 0
    <3>1. Len(t) \in 1..Len(t) /\ (s \o t)[Len(s \o t)] = t[Len(t)] /\ Len(s \o t) > 0
      BY <2>1, <1>2
    <3> QED  BY <2>1, <3>1 DEF Chain
  <2>2. CASE Len(t) = 0 /\ Len(s) > 0
    <3>1. Len(s) \in 1..Len(s) /\ (s \o t)[Len(s \o t)] = s[Len(s)] /\ Len(s \o t) > 0 /\ z = y
      BY <2>2, <1>2 DEF Chain
    <3> QED  BY <2>2, <3>1 DEF Chain
  <2>3. CASE Len(t) = 0 /\ Len(s) = 0
    BY <2>3, <1>2 DEF Chain
  <2> QED  BY <2>1, <2>2, <2>3, <1>2
<1> QED  BY <1>2, <1>3, <1>4 DEF Chain

(* The two shapes that the arguments can take and ffmpeg cannot run.  hls.ts *)
(* uploads the frames to vaapi or qsv before the burned-in subtitle, which  *)
(* needs them in system memory; *)
UploadedTooEarly(setup, method, file) ==
  setup.own /\ method \in {"vaapi", "qsv"} /\ file.burn

(* and it scales on the GPU although it has decoded a 10-bit HEVC source    *)
(* in software, when the build has scale_npp and not hevc_cuvid.            *)
ScaledOffTheGpu(setup) == setup.resident /\ setup.unsafe

LEMMA Pair == ASSUME NEW a, NEW b PROVE <<a>> \o <<b>> = <<a, b>>
<1> DEFINE s == <<a>>
           t == <<b>>
           u == <<a, b>>
<1>1. /\ s \in Seq({a, b}) /\ Len(s) = 1 /\ s[1] = a
      /\ t \in Seq({a, b}) /\ Len(t) = 1 /\ t[1] = b
      /\ u \in Seq({a, b}) /\ Len(u) = 2 /\ u[1] = a /\ u[2] = b
  OBVIOUS
<1> HIDE DEF s, t, u
<1>2. /\ s \o t \in Seq({a, b}) /\ Len(s \o t) = 2
      /\ (s \o t)[1] = a /\ (s \o t)[2] = b
  <2>1. /\ s \o t \in Seq({a, b}) /\ Len(s \o t) = Len(s) + Len(t)
        /\ \A i \in 1..(Len(s) + Len(t)) :
             (s \o t)[i] = IF i <= Len(s) THEN s[i] ELSE t[i - Len(s)]
    BY <1>1, ConcatProperties
  <2>2. 1 \in 1..2 /\ 2 \in 1..2 /\ 1 <= 1 /\ ~(2 <= 1) /\ 2 - 1 = 1 /\ 1 + 1 = 2
    OBVIOUS
  <2>3. \A i \in 1..2 : (s \o t)[i] = IF i <= 1 THEN s[i] ELSE t[i - 1]
    BY <2>1, <2>2, <1>1
  <2> QED  BY <2>1, <2>2, <2>3, <1>1
<1>3. s \o t = u
  BY <1>1, <1>2, SeqEqual
<1> QED  BY <1>3 DEF s, t, u

LEMMA StepIs ==
  ASSUME NEW n \in Names, NEW x \in Memories, NEW y \in Memories, NEW d,
         n = "hwupload" => y = d
  PROVE  Chain(x, <<Encode!Filter(n, x, y)>>, y, d)
<1> DEFINE f == [name |-> n, in |-> x, out |-> y]
<1>1. f \in Steps /\ f.in = x /\ f.out = y /\ f.name = n
  BY DEF Steps
<1>2. Encode!Filter(n, x, y) = f
  BY DEF Encode!Filter
<1> HIDE DEF f
<1> QED  BY <1>1, <1>2, OneFilter

LEMMA ChainRuns ==
  ASSUME NEW plan, NEW y, NEW d,
         Chain(IF plan.decode = "cuda" THEN "cuda" ELSE "system", plan.filters, y, d)
  PROVE  /\ \A i \in DOMAIN plan.filters : plan.filters[i].in = Encode!Before(plan, i)
         /\ Encode!Before(plan, Len(plan.filters) + 1) = y
         /\ \A i \in DOMAIN plan.filters :
              plan.filters[i].name = "hwupload" => plan.filters[i].out = d
<1>1. plan.filters \in Seq(Steps) /\ DOMAIN plan.filters = 1..Len(plan.filters)
      /\ Len(plan.filters) \in Nat
  BY DEF Chain
<1> QED  BY <1>1 DEF Chain, Encode!Before

(* What the arguments depend on. *)
LEMMA SetupIs ==
  ASSUME NEW h \in Hosts, NEW m \in Encode!Methods, NEW f \in Files, NEW p \in Profiles
  PROVE  LET s == Encode!Setup(h, m, f, p) IN
         /\ s.own \in BOOLEAN /\ s.tone \in BOOLEAN /\ s.resident \in BOOLEAN
         /\ s.cuvid \in BOOLEAN /\ s.unsafe \in BOOLEAN
         /\ s.encoder.on \in {m, "cpu"} /\ (s.own <=> m # "none" /\ s.encoder.on = m)
         /\ s.encoder.on # "none" /\ Encode!Software(s.encoder).on = "cpu"
         /\ s.resident => m = "nvenc" /\ s.own /\ ~s.tone /\ ~f.burn
         /\ s.cuvid => s.resident
         /\ s.unsafe => m = "nvenc" /\ ~s.cuvid
<1> DEFINE e == Encode!Encoder(h, m, p)
<1>1. /\ h.scaleNpp \in BOOLEAN /\ h.cuvid \in BOOLEAN /\ p.hdr \in BOOLEAN
      /\ f.ten \in BOOLEAN /\ f.hdr \in BOOLEAN /\ f.burn \in BOOLEAN
  BY RecordWorlds DEF Encode!EncodeFallbackAssumption
<1>2. /\ e.on \in {m, "cpu"} /\ (m = "none" => e.on = "cpu")
      /\ Encode!Software(e).on = "cpu"
  BY DEF Encode!Encoder, Encode!HwEncoder, Encode!Software
<1> HIDE DEF e
<1> DEFINE own == m # "none" /\ e.on = m
           tone == f.hdr /\ ~p.hdr
           resident == own /\ m = "nvenc" /\ h.scaleNpp /\ ~tone /\ ~f.burn
           ten == m = "nvenc" /\ f.video = "hevc" /\ f.ten
           cuvid == resident /\ ten /\ h.cuvid
<1>3. Encode!Setup(h, m, f, p) =
        [encoder |-> e, own |-> own, tone |-> tone, resident |-> resident,
         cuvid |-> cuvid, unsafe |-> ten /\ ~cuvid]
  BY DEF Encode!Setup, e, Encode!OwnEncoder, Encode!ToneMapped
<1>4. /\ own \in BOOLEAN /\ tone \in BOOLEAN /\ resident \in BOOLEAN /\ cuvid \in BOOLEAN
      /\ ten \in BOOLEAN
  BY <1>1
<1>5. /\ resident => m = "nvenc" /\ own /\ ~tone /\ ~f.burn
      /\ cuvid => resident
      /\ ten => m = "nvenc"
      /\ own <=> m # "none" /\ e.on = m
  OBVIOUS
<1>6. e.on # "none"
  BY <1>2
<1> HIDE DEF own, tone, resident, ten, cuvid
<1> QED  BY <1>2, <1>3, <1>4, <1>5, <1>6

(* ffmpeg can run a plan exactly when it has neither shape. *)
THEOREM PlansFit ==
  ASSUME NEW h \in Hosts, NEW m \in Encode!Methods, NEW f \in Files, NEW p \in Profiles
  PROVE  LET setup == Encode!Setup(h, m, f, p) IN
         Encode!Fits(Encode!Transcode(h, m, f, p)) <=>
           ~UploadedTooEarly(setup, m, f) /\ ~ScaledOffTheGpu(setup)
<1> DEFINE s == Encode!Setup(h, m, f, p)
           onHw == s.own /\ ~s.unsafe
           device == IF onHw /\ m \in {"vaapi", "qsv"} THEN m ELSE "none"
           tail == IF onHw THEN Encode!Upload(m) ELSE <<>>
           first == IF s.tone THEN Encode!OnCpu("tonemap") ELSE <<>>
           back == IF s.cuvid
                   THEN Encode!OnCpu("format") \o <<Encode!Filter("hwupload_cuda", "system", "cuda")>>
                   ELSE <<>>
           scaled == IF s.resident THEN <<Encode!Filter("scale_npp", "cuda", "cuda")>>
                     ELSE Encode!OnCpu("scale") \o Encode!OnCpu("format")
           chain == first \o back \o scaled \o tail
           filters == IF f.burn THEN chain \o Encode!OnCpu("subtitles") \o tail ELSE chain
           plan == Encode!Transcode(h, m, f, p)
           from == IF plan.decode = "cuda" THEN "cuda" ELSE "system"
           ends == IF device # "none" THEN device ELSE IF s.resident THEN "cuda" ELSE "system"
           coder == IF s.unsafe /\ s.own THEN Encode!Software(s.encoder) ELSE s.encoder
<1>1. plan = [decode  |-> Encode!DecodedOn(s, m), filters |-> filters, encoder |-> coder,
              quality |-> IF onHw THEN m ELSE "cpu", device |-> device]
  BY DEF Encode!Transcode, Encode!Filters
<1>2. /\ s.own \in BOOLEAN /\ s.tone \in BOOLEAN /\ s.resident \in BOOLEAN
      /\ s.cuvid \in BOOLEAN /\ s.unsafe \in BOOLEAN
      /\ s.encoder.on \in {m, "cpu"} /\ (s.own <=> m # "none" /\ s.encoder.on = m)
      /\ s.encoder.on # "none" /\ Encode!Software(s.encoder).on = "cpu"
      /\ s.resident => m = "nvenc" /\ s.own /\ ~s.tone /\ ~f.burn
      /\ s.cuvid => s.resident
      /\ s.unsafe => m = "nvenc" /\ ~s.cuvid
  BY SetupIs
<1>3. f.burn \in BOOLEAN
  BY RecordWorlds DEF Encode!EncodeFallbackAssumption
<1>4. m \in {"nvenc", "qsv", "vaapi", "none"}
  BY DEF Encode!Methods, Encode!Hardware
<1>5. from = (IF s.resident /\ ~s.cuvid /\ ~s.unsafe THEN "cuda" ELSE "system")
  <2> HIDE DEF s, filters, coder, device
  <2> QED  BY <1>1, <1>2 DEF Encode!DecodedOn
<1> HIDE DEF s
<1>6. /\ UploadedTooEarly(s, m, f) <=> (s.own /\ m \in {"vaapi", "qsv"} /\ f.burn)
      /\ ScaledOffTheGpu(s) <=> (s.resident /\ s.unsafe)
  BY DEF UploadedTooEarly, ScaledOffTheGpu
<1>7. \A n \in {"tonemap", "format", "scale", "subtitles"} :
        Chain("system", Encode!OnCpu(n), "system", device)
  <2> HIDE DEF device
  <2> SUFFICES ASSUME NEW n \in {"tonemap", "format", "scale", "subtitles"}
               PROVE  Chain("system", <<Encode!Filter(n, "system", "system")>>, "system", device)
    BY DEF Encode!OnCpu
  <2>1. n \in Names /\ n # "hwupload" /\ "system" \in Memories
    BY DEF Names, Memories
  <2> QED  BY <2>1, StepIs
<1>8. Chain("system", tail, IF device # "none" THEN device ELSE "system", device)
  <2>1. CASE onHw /\ m \in {"vaapi", "qsv"}
    <3>1. device = m /\ m \in Memories /\ m # "none"
      BY <2>1 DEF Memories
    <3> HIDE DEF device
    <3> USE DEF Names, Memories
    <3>2. Chain("system", <<Encode!Filter("format", "system", "system")>>, "system", device)
      BY StepIs
    <3>3. Chain("system", <<Encode!Filter("hwupload", "system", m)>>, m, device)
      BY <3>1, StepIs
    <3>4. Chain("system", <<Encode!Filter("format", "system", "system")>>
                          \o <<Encode!Filter("hwupload", "system", m)>>, m, device)
      BY <3>2, <3>3, Join
    <3>5. tail = <<Encode!Filter("format", "system", "system"), Encode!Filter("hwupload", "system", m)>>
      BY <2>1 DEF Encode!Upload
    <3>6. <<Encode!Filter("format", "system", "system")>> \o <<Encode!Filter("hwupload", "system", m)>>
            = <<Encode!Filter("format", "system", "system"), Encode!Filter("hwupload", "system", m)>>
      BY Pair
    <3> QED  BY <3>1, <3>4, <3>5, <3>6
  <2>2. CASE ~(onHw /\ m \in {"vaapi", "qsv"})
    <3>1. tail = <<>> /\ device = "none"
      BY <2>2 DEF Encode!Upload
    <3> QED  BY <3>1, NoFilter
  <2> QED  BY <2>1, <2>2
<1>9. ~ScaledOffTheGpu(s) => Chain(from, chain, ends, device)
  <2> SUFFICES ASSUME ~(s.resident /\ s.unsafe)
               PROVE  Chain(from, chain, ends, device)
    BY <1>6
  <2>1. CASE s.resident
    <3>1. first = <<>> /\ device = "none" /\ ends = "cuda"
      BY <2>1, <1>2
    <3>2. Chain(from, first, from, device)
      BY <3>1, NoFilter
    <3>3. Chain(from, back, "cuda", device)
      <4>1. CASE s.cuvid
        <5>1. Chain("system", <<Encode!Filter("hwupload_cuda", "system", "cuda")>>, "cuda", device)
          <6> HIDE DEF device
          <6> QED  BY StepIs DEF Names, Memories
        <5>2. Chain("system", back, "cuda", device)
          BY <4>1, <5>1, <1>7, Join
        <5> QED  BY <4>1, <5>2, <1>5
      <4>2. CASE ~s.cuvid
        <5>1. back = <<>> /\ from = "cuda"
          BY <4>2, <2>1, <1>5
        <5> QED  BY <5>1, NoFilter
      <4> QED  BY <4>1, <4>2, <1>2
    <3>4. Chain("cuda", scaled, "cuda", device)
      <4> HIDE DEF device
      <4>1. Chain("cuda", <<Encode!Filter("scale_npp", "cuda", "cuda")>>, "cuda", device)
        BY StepIs DEF Names, Memories
      <4> QED  BY <2>1, <4>1
    <3>5. tail = <<>>
      BY <2>1, <1>2 DEF Encode!Upload
    <3>6. Chain("cuda", tail, "cuda", device)
      BY <3>5, NoFilter
    <3> HIDE DEF first, back, scaled, tail, from, device, ends
    <3>7. Chain(from, first \o back, "cuda", device)
      BY <3>2, <3>3, Join
    <3>8. Chain(from, (first \o back) \o scaled, "cuda", device)
      BY <3>7, <3>4, Join
    <3>9. Chain(from, ((first \o back) \o scaled) \o tail, "cuda", device)
      BY <3>8, <3>6, Join
    <3> QED  BY <3>9, <3>1
  <2>2. CASE ~s.resident
    <3>1. from = "system" /\ back = <<>> /\ ends = (IF device # "none" THEN device ELSE "system")
      BY <2>2, <1>2, <1>5
    <3>2. Chain("system", first, "system", device)
      BY <1>7, NoFilter
    <3>3. Chain("system", back, "system", device)
      BY <3>1, NoFilter
    <3>4. Chain("system", Encode!OnCpu("scale") \o Encode!OnCpu("format"), "system", device)
      <4> HIDE DEF device
      <4> QED  BY <1>7, Join
    <3>5. Chain("system", scaled, "system", device)
      BY <2>2, <3>4
    <3> HIDE DEF first, back, scaled, tail, from, device, ends
    <3>6. Chain("system", first \o back, "system", device)
      BY <3>2, <3>3, Join
    <3>7. Chain("system", (first \o back) \o scaled, "system", device)
      BY <3>6, <3>5, Join
    <3>8. Chain("system", ((first \o back) \o scaled) \o tail,
                IF device # "none" THEN device ELSE "system", device)
      BY <3>7, <1>8, Join
    <3> QED  BY <3>8, <3>1
  <2> QED  BY <2>1, <2>2, <1>2
<1>10. ~ScaledOffTheGpu(s) /\ ~UploadedTooEarly(s, m, f) => Chain(from, filters, ends, device)
  <2> SUFFICES ASSUME ~ScaledOffTheGpu(s), ~UploadedTooEarly(s, m, f)
               PROVE  Chain(from, filters, ends, device)
    OBVIOUS
  <2>1. CASE f.burn
    <3>1. ~s.resident /\ device = "none" /\ ends = "system"
      BY <2>1, <1>2, <1>6
    <3>2. Chain("system", tail, "system", device)
      BY <3>1, <1>8
    <3> HIDE DEF chain, tail, device, ends, from
    <3>3. Chain(from, chain, "system", device)
      BY <3>1, <1>9
    <3>4. Chain(from, chain \o Encode!OnCpu("subtitles"), "system", device)
      BY <3>3, <1>7, Join
    <3>5. Chain(from, (chain \o Encode!OnCpu("subtitles")) \o tail, "system", device)
      BY <3>4, <3>2, Join
    <3> QED  BY <2>1, <3>1, <3>5
  <2>2. CASE ~f.burn
    <3> HIDE DEF chain
    <3> QED  BY <2>2, <1>9
  <2> QED  BY <2>1, <2>2
<1>11. ASSUME ~ScaledOffTheGpu(s)
       PROVE  ends \in Encode!Takes(coder) /\ (IF onHw THEN m ELSE "cpu") = coder.on
  <2>1. CASE onHw
    <3>1. coder.on = m /\ m # "none" /\ m # "cpu"
      BY <2>1, <1>2, <1>4
    <3>2. m = "nvenc" => ends \in {"system", "cuda"}
      OBVIOUS
    <3>3. m # "nvenc" => ends = m
      BY <2>1, <3>1, <1>4
    <3> HIDE DEF coder, ends
    <3> QED  BY <2>1, <3>1, <3>2, <3>3, <1>4 DEF Encode!Takes
  <2>2. CASE ~onHw
    <3>1. coder.on = "cpu"
      BY <2>2, <1>2
    <3>2. device = "none"
      BY <2>2
    <3>3. ~s.resident
      BY <2>2, <1>2, <1>6, <1>11
    <3>4. ends = "system"
      BY <3>2, <3>3
    <3> HIDE DEF coder, ends
    <3> QED  BY <2>2, <3>1, <3>4 DEF Encode!Takes
  <2> QED  BY <2>1, <2>2
<1>12. ASSUME ~ScaledOffTheGpu(s), ~UploadedTooEarly(s, m, f)
       PROVE  Encode!Fits(plan)
  <2> HIDE DEF filters, from, ends, device, coder, plan
  <2>1. plan.filters = filters /\ plan.encoder = coder /\ plan.device = device
        /\ plan.quality = (IF onHw THEN m ELSE "cpu")
    BY <1>1
  <2>2. Chain(IF plan.decode = "cuda" THEN "cuda" ELSE "system", plan.filters, ends, device)
    BY <2>1, <1>10, <1>12 DEF from
  <2>3. /\ \A i \in DOMAIN plan.filters : plan.filters[i].in = Encode!Before(plan, i)
        /\ Encode!Before(plan, Len(plan.filters) + 1) = ends
        /\ \A i \in DOMAIN plan.filters :
             plan.filters[i].name = "hwupload" => plan.filters[i].out = device
    BY <2>2, ChainRuns
  <2> QED  BY <2>1, <2>3, <1>11, <1>12 DEF Encode!Fits
<1>13. ASSUME ScaledOffTheGpu(s)
       PROVE  ~Encode!Fits(plan)
  <2>1. s.resident /\ s.unsafe /\ ~s.tone /\ ~s.cuvid /\ ~f.burn
    BY <1>13, <1>2, <1>6
  <2>2. tail = <<>> /\ first = <<>> /\ back = <<>> /\ from = "system" /\ filters = chain
        /\ scaled = <<Encode!Filter("scale_npp", "cuda", "cuda")>>
    BY <2>1, <1>5
  <2>3. chain = <<Encode!Filter("scale_npp", "cuda", "cuda")>>
    <3> DEFINE q == <<Encode!Filter("scale_npp", "cuda", "cuda")>>
    <3>1. q \in Seq({Encode!Filter("scale_npp", "cuda", "cuda")})
      OBVIOUS
    <3>2. chain = <<>> \o <<>> \o q \o <<>>
      BY <2>2, Zenon
    <3>3. <<>> \o <<>> = <<>>
      OBVIOUS
    <3> HIDE DEF q, chain
    <3> QED  BY <3>1, <3>2, <3>3, ConcatEmptySeq DEF q
  <2>4. plan.filters = <<Encode!Filter("scale_npp", "cuda", "cuda")>>
    <3> HIDE DEF chain, plan
    <3> QED  BY <2>1, <2>3, <1>1
  <2>5. Encode!Before(plan, 1) = "system"
    BY <2>2 DEF Encode!Before
  <2>6. 1 \in DOMAIN plan.filters /\ plan.filters[1].in = "cuda"
    BY <2>4 DEF Encode!Filter
  <2> QED  BY <2>5, <2>6 DEF Encode!Fits
<1>14. ASSUME UploadedTooEarly(s, m, f)
       PROVE  ~Encode!Fits(plan)
  <2>1. s.own /\ m \in {"vaapi", "qsv"} /\ f.burn /\ ~s.unsafe /\ ~s.resident
        /\ device = m /\ ends = m /\ m # "system"
    BY <1>14, <1>2, <1>6
  <2>2. Chain(from, chain, m, device)
    BY <2>1, <1>9, <1>6
  <2>3. filters = (chain \o Encode!OnCpu("subtitles")) \o tail
    BY <2>1
  <2> DEFINE sub == Encode!OnCpu("subtitles")
             n == Len(chain)
  <2>4. Len(tail) > 0 /\ tail \in Seq(Steps)
    <3>1. tail \in Seq(Steps)
      BY <1>8 DEF Chain
    <3>2. tail = <<Encode!Filter("format", "system", "system"), Encode!Filter("hwupload", "system", m)>>
      BY <2>1 DEF Encode!Upload
    <3> QED  BY <3>1, <3>2
  <2>5. sub \in Seq(Steps) /\ Len(sub) = 1 /\ sub[1].in = "system"
    <3>1. sub \in Seq(Steps)
      BY <1>7 DEF Chain
    <3> QED  BY <3>1 DEF Encode!OnCpu, Encode!Filter
  <2>6. chain \in Seq(Steps) /\ n \in Nat
        /\ m = (IF n > 0 THEN chain[n].out ELSE from)
    <3> HIDE DEF chain, from
    <3> QED  BY <2>2 DEF Chain
  <2>7. from = "system"
    BY <2>1, <1>5
  <2>8. plan.filters = filters
    BY <1>1
  <2> HIDE DEF chain, sub, tail, filters, from, plan
  <2>9. n > 0
    BY <2>1, <2>6, <2>7
  <2>10. /\ n \in DOMAIN filters /\ n + 1 \in DOMAIN filters
         /\ filters[n] = chain[n] /\ filters[n + 1] = sub[1]
    <3> DEFINE both == chain \o sub
    <3>1. both \in Seq(Steps) /\ Len(both) = n + 1 /\ both[n] = chain[n] /\ both[n + 1] = sub[1]
      <4>1. both \in Seq(Steps) /\ Len(both) = n + 1
            /\ \A i \in 1..(n + 1) : both[i] = IF i <= n THEN chain[i] ELSE sub[i - n]
        BY <2>5, <2>6, ConcatProperties
      <4> HIDE DEF both
      <4>2. both[n + 1] = sub[1]
        BY <4>1, <2>6
      <4> QED  BY <4>1, <4>2, <2>6, <2>9
    <3> HIDE DEF both
    <3>2. filters = both \o tail
      BY <2>3 DEF both, sub
    <3>3. /\ filters \in Seq(Steps) /\ Len(filters) = Len(both) + Len(tail)
          /\ \A i \in 1..(Len(both) + Len(tail)) :
               filters[i] = IF i <= Len(both) THEN both[i] ELSE tail[i - Len(both)]
      BY <3>1, <3>2, <2>4, ConcatProperties
    <3>4. DOMAIN filters = 1..Len(filters) /\ Len(tail) \in Nat
      BY <3>3, <2>4
    <3> HIDE DEF n
    <3>5. n \in 1..Len(filters) /\ n + 1 \in 1..Len(filters) /\ n <= n + 1 /\ n \in Nat
      BY <3>1, <3>3, <3>4, <2>4, <2>6, <2>9
    <3>6. filters[n] = both[n] /\ filters[n + 1] = both[n + 1]
      BY <3>1, <3>3, <3>5
    <3> QED  BY <3>1, <3>4, <3>5, <3>6
  <2>11. Encode!Before(plan, n + 1) = m
    BY <2>6, <2>8, <2>9, <2>10 DEF Encode!Before
  <2> QED  BY <2>1, <2>5, <2>8, <2>10, <2>11 DEF Encode!Fits
<1> QED
  <2> HIDE DEF plan
  <2>1. Encode!Fits(plan) <=> ~UploadedTooEarly(s, m, f) /\ ~ScaledOffTheGpu(s)
    BY <1>12, <1>13, <1>14
  <2> QED  BY <2>1 DEF s, plan

-----------------------------------------------------------------------------
(* Machines, files and clients for which hokago asks nothing impossible.   *)
SoundPlans ==
  \A h \in Hosts, m \in Encode!Methods, f \in Files, p \in Profiles :
    LET setup == Encode!Setup(h, m, f, p)
    IN ~UploadedTooEarly(setup, m, f) /\ ~ScaledOffTheGpu(setup)

Running == {"claiming", "running", "died", "failed", "stopped"}
Encodes == [pc : Running, file : Files, profile : Profiles, object : 0..MaxCooldowns,
            method : Encode!Methods, seeks : 0..MaxSeeks,
            cause : {"none", "device", "other"}]

(* The shared state cools down only after a failure; a child never died of  *)
(* its plan, and one that had no hardware never died of a device.          *)
EncodeInv ==
  /\ host \in Hosts
  /\ hw \in [method : Encode!Methods, failed : BOOLEAN, cooled : BOOLEAN,
             object : 0..MaxCooldowns]
  /\ hw.cooled => hw.failed /\ hw.object < MaxCooldowns
  /\ jobs \in [Viewers -> {Encode!Idle} \cup Encodes]
  /\ \A s \in Viewers : jobs[s] # Encode!Idle =>
       /\ jobs[s].pc = "died" => jobs[s].cause # "none"
       /\ jobs[s].pc = "died" /\ jobs[s].cause = "device" => jobs[s].method # "none"
       /\ jobs[s].pc = "failed" => jobs[s].cause = "other" /\ jobs[s].method = "none"
  /\ eFaults \in 0..MaxDeaths

LEMMA EncodeBounds ==
  /\ MaxDeaths \in Nat /\ MaxCooldowns \in Nat /\ MaxSeeks \in Nat
  /\ 0 \in 0..MaxCooldowns /\ MaxSeeks \in 0..MaxSeeks
  BY RecordWorlds DEF Encode!EncodeFallbackAssumption

LEMMA DetectedIs == ASSUME NEW h PROVE Encode!Detected(h, Requested) \in Encode!Methods
<1> DEFINE S == {i \in DOMAIN Encode!Preference :
                   /\ Requested \in {"auto", Encode!Preference[i]}
                   /\ Encode!Usable(h, Encode!Preference[i])}
<1>1. \A i \in DOMAIN Encode!Preference : Encode!Preference[i] \in Encode!Methods
  BY DEF Encode!Preference, Encode!Methods, Encode!Hardware
<1>2. S # {} => \E x \in S : \A y \in S : x <= y
  <2>1. S \in SUBSET Nat
    BY DEF Encode!Preference
  <2> QED  BY <2>1, Least
<1>3. S # {} => Encode!Min(S) \in DOMAIN Encode!Preference
  <2> HIDE DEF S
  <2>1. S # {} => Encode!Min(S) \in S
    BY <1>2 DEF Encode!Min
  <2> QED  BY <2>1 DEF S
<1> HIDE DEF S
<1>4. "none" \in Encode!Methods
  BY DEF Encode!Methods
<1>5. Encode!Detected(h, Requested) = IF S = {} THEN "none" ELSE Encode!Preference[Encode!Min(S)]
  BY DEF S, Encode!Detected
<1> QED  BY <1>1, <1>3, <1>4, <1>5

LEMMA CachedIs ==
  ASSUME EncodeInv
  PROVE  /\ Encode!Cached \in [method : Encode!Methods, failed : BOOLEAN, cooled : BOOLEAN,
                               object : 0..MaxCooldowns]
         /\ Encode!Cached.cooled => Encode!Cached.failed /\ Encode!Cached.object < MaxCooldowns
         /\ Encode!Cached.failed => hw.failed
<1>1. Encode!Detected(host, Requested) \in Encode!Methods
  BY DetectedIs
<1>2. hw.cooled => hw.object + 1 \in 0..MaxCooldowns
  BY EncodeBounds DEF EncodeInv
<1> QED  BY <1>1, <1>2 DEF EncodeInv, Encode!Cached

LEMMA InitEncode == Encode!Init => EncodeInv
<1> SUFFICES ASSUME Encode!Init PROVE EncodeInv
  OBVIOUS
<1>1. Encode!Detected(host, Requested) \in Encode!Methods
  BY DetectedIs
<1> QED  BY <1>1, EncodeBounds DEF EncodeInv, Encode!Init

LEMMA EncodeIs ==
  ASSUME EncodeInv, NEW s \in Viewers
  PROVE  /\ jobs[s] = Encode!Idle \/ jobs[s] \in Encodes
         /\ jobs[s].pc \in Running => jobs[s] \in Encodes /\ jobs[s] # Encode!Idle
         /\ jobs[s] \in Encodes => jobs[s].pc \in Running
  BY DEF EncodeInv, Encodes, Running, Encode!Idle

(* What one encode becomes leaves the others alone. *)
LEMMA OneEncode ==
  ASSUME EncodeInv, NEW s \in Viewers, NEW e \in Encodes,
         jobs' = [jobs EXCEPT ![s] = e], host' = host, eFaults' \in 0..MaxDeaths,
         hw' \in [method : Encode!Methods, failed : BOOLEAN, cooled : BOOLEAN,
                  object : 0..MaxCooldowns],
         hw'.cooled => hw'.failed /\ hw'.object < MaxCooldowns,
         e.pc = "died" => e.cause # "none",
         e.pc = "died" /\ e.cause = "device" => e.method # "none",
         e.pc = "failed" => e.cause = "other" /\ e.method = "none"
  PROVE  EncodeInv'
<1>1. jobs' \in [Viewers -> {Encode!Idle} \cup Encodes]
  BY DEF EncodeInv
<1>2. ASSUME NEW t \in Viewers, jobs'[t] # Encode!Idle
      PROVE  /\ jobs'[t].pc = "died" => jobs'[t].cause # "none"
             /\ jobs'[t].pc = "died" /\ jobs'[t].cause = "device" => jobs'[t].method # "none"
             /\ jobs'[t].pc = "failed" => jobs'[t].cause = "other" /\ jobs'[t].method = "none"
  <2>1. CASE t = s
    <3>1. jobs'[t] = e
      BY <2>1 DEF EncodeInv
    <3> QED  BY <3>1
  <2>2. CASE t # s
    <3>1. jobs'[t] = jobs[t]
      BY <2>2 DEF EncodeInv
    <3> QED  BY <3>1, <1>2 DEF EncodeInv
  <2> QED  BY <2>1, <2>2
<1>3. host' \in Hosts
  BY DEF EncodeInv
<1> QED  BY <1>1, <1>2, <1>3 DEF EncodeInv

(* No child dies of its plan. *)
LEMMA PlansRun ==
  ASSUME SoundPlans, EncodeInv, NEW s \in Viewers, jobs[s].pc = "running"
  PROVE  Encode!Fits(Encode!Plan(s))
<1>1. jobs[s] \in Encodes
  BY EncodeIs DEF Running
<1>2. host \in Hosts /\ jobs[s].method \in Encode!Methods /\ jobs[s].file \in Files
      /\ jobs[s].profile \in Profiles
  BY <1>1 DEF EncodeInv, Encodes
<1> QED  BY <1>2, PlansFit DEF SoundPlans, Encode!Plan

(* nvenc decodes 10-bit HEVC with hevc_cuvid or not at all. *)
LEMMA NothingSpoiled ==
  ASSUME NEW h \in Hosts, NEW m \in Encode!Methods, NEW f \in Files, NEW p \in Profiles
  PROVE  ~Encode!Spoiled(Encode!Transcode(h, m, f, p), m, f)
<1> DEFINE s == Encode!Setup(h, m, f, p)
<1>1. m = "nvenc" /\ f.video = "hevc" /\ f.ten => s.unsafe \/ s.cuvid
  BY DEF Encode!Setup
<1>2. Encode!Transcode(h, m, f, p).decode = Encode!DecodedOn(s, m)
  BY DEF Encode!Transcode
<1> HIDE DEF s
<1> QED  BY <1>1, <1>2 DEF Encode!Spoiled, Encode!DecodedOn

LEMMA EncodeStep == SoundPlans /\ EncodeInv /\ Encode!Next => EncodeInv'
<1> SUFFICES ASSUME SoundPlans, EncodeInv, Encode!Next PROVE EncodeInv'
  OBVIOUS
<1> USE EncodeBounds
<1>1. ASSUME NEW s \in Viewers, NEW f \in Files, NEW p \in Profiles, Encode!Start(s, f, p)
      PROVE  EncodeInv'
  <2> DEFINE e == Encode!Job("claiming", f, p, hw'.object, "none", MaxSeeks, "none")
  <2>1. hw' = Encode!Cached /\ jobs' = [jobs EXCEPT ![s] = e] /\ UNCHANGED <<host, eFaults>>
    BY <1>1 DEF Encode!Start
  <2>2. e \in Encodes /\ e.pc = "claiming"
    BY <2>1, CachedIs DEF Encode!Job, Encodes, Running, Encode!Methods
  <2> HIDE DEF e
  <2> QED  BY <2>1, <2>2, CachedIs, OneEncode DEF EncodeInv
<1>2. ASSUME NEW s \in Viewers, Encode!Seek(s)
      PROVE  EncodeInv'
  <2> DEFINE e == [jobs[s] EXCEPT !.pc = "claiming", !.object = hw'.object,
                                  !.method = "none", !.seeks = @ - 1]
  <2>1. hw' = Encode!Cached /\ jobs' = [jobs EXCEPT ![s] = e] /\ UNCHANGED <<host, eFaults>>
        /\ jobs[s].pc = "running" /\ jobs[s].seeks > 0
    BY <1>2 DEF Encode!Seek
  <2>2. jobs[s] \in Encodes
    BY <2>1, EncodeIs DEF Running
  <2>3. e \in Encodes /\ e.pc = "claiming"
    <3>1. hw'.object \in 0..MaxCooldowns /\ "none" \in Encode!Methods
      BY <2>1, CachedIs DEF Encode!Methods
    <3>2. jobs[s].seeks - 1 \in 0..MaxSeeks
      BY <2>1, <2>2 DEF Encodes
    <3> QED  BY <2>2, <3>1, <3>2 DEF Encodes, Running
  <2> HIDE DEF e
  <2> QED  BY <2>1, <2>3, CachedIs, OneEncode DEF EncodeInv
<1>3. ASSUME NEW s \in Viewers, Encode!Spawn(s)
      PROVE  EncodeInv'
  <2>1. PICK m \in {Encode!Held(s), "none"} :
          jobs' = [jobs EXCEPT ![s].pc = "running", ![s].method = m]
    BY <1>3 DEF Encode!Spawn
  <2> DEFINE e == [jobs[s] EXCEPT !.pc = "running", !.method = m]
  <2>2. jobs' = [jobs EXCEPT ![s] = e] /\ UNCHANGED <<host, hw, eFaults>> /\ jobs[s].pc = "claiming"
    BY <1>3, <2>1 DEF Encode!Spawn
  <2>3. jobs[s] \in Encodes
    BY <2>2, EncodeIs DEF Running
  <2>4. m \in Encode!Methods
    BY DEF Encode!Held, EncodeInv, Encode!Methods
  <2>5. e \in Encodes /\ e.pc = "running"
    BY <2>3, <2>4 DEF Encodes, Running
  <2> HIDE DEF e
  <2> QED  BY <2>2, <2>5, OneEncode DEF EncodeInv
<1>4. ASSUME NEW s \in Viewers, NEW cause \in {"plan", "device", "other"}, Encode!Die(s, cause)
      PROVE  EncodeInv'
  <2> DEFINE e == [jobs[s] EXCEPT !.pc = "died", !.cause = cause]
  <2>1. /\ jobs' = [jobs EXCEPT ![s] = e] /\ UNCHANGED <<host, hw>> /\ jobs[s].pc = "running"
        /\ (cause = "plan") = ~Encode!Fits(Encode!Plan(s))
        /\ cause = "device" => jobs[s].method # "none"
        /\ cause # "plan" => eFaults < MaxDeaths
        /\ eFaults' = IF cause = "plan" THEN eFaults ELSE eFaults + 1
    BY <1>4 DEF Encode!Die
  <2>2. jobs[s] \in Encodes
    BY <2>1, EncodeIs DEF Running
  <2>3. cause # "plan"
    BY <2>1, PlansRun
  <2>4. e \in Encodes /\ e.pc = "died" /\ e.cause = cause /\ e.method = jobs[s].method
    BY <2>2, <2>3 DEF Encodes, Running
  <2>5. eFaults' \in 0..MaxDeaths
    BY <2>1, <2>3 DEF EncodeInv
  <2> HIDE DEF e
  <2> QED  BY <2>1, <2>3, <2>4, <2>5, OneEncode DEF EncodeInv
<1>5. ASSUME NEW s \in Viewers, Encode!FallBack(s)
      PROVE  EncodeInv'
  <2> DEFINE e == [jobs[s] EXCEPT !.pc = "running", !.method = "none", !.object = hw.object]
  <2>1. /\ jobs' = [jobs EXCEPT ![s] = e] /\ hw' = Encode!Disabled /\ UNCHANGED <<host, eFaults>>
        /\ jobs[s].pc = "died"
    BY <1>5 DEF Encode!FallBack
  <2>2. jobs[s] \in Encodes
    BY <2>1, EncodeIs DEF Running
  <2>3. e \in Encodes /\ e.pc = "running"
    <3>1. hw.object \in 0..MaxCooldowns /\ "none" \in Encode!Methods
      BY DEF EncodeInv, Encode!Methods
    <3> QED  BY <2>2, <3>1 DEF Encodes, Running
  <2>4. hw' \in [method : Encode!Methods, failed : BOOLEAN, cooled : BOOLEAN,
                 object : 0..MaxCooldowns] /\ ~hw'.cooled
    BY <2>1 DEF EncodeInv, Encode!Disabled, Encode!Methods
  <2> HIDE DEF e
  <2> QED  BY <2>1, <2>3, <2>4, OneEncode DEF EncodeInv
<1>6. ASSUME NEW s \in Viewers, Encode!GiveUp(s)
      PROVE  EncodeInv'
  <2> DEFINE e == [jobs[s] EXCEPT !.pc = "failed"]
  <2>1. /\ jobs' = [jobs EXCEPT ![s] = e] /\ UNCHANGED <<host, hw, eFaults>>
        /\ jobs[s].pc = "died" /\ jobs[s].method = "none"
    BY <1>6 DEF Encode!GiveUp, Encode!OwnMethod
  <2>2. jobs[s] \in Encodes /\ jobs[s] # Encode!Idle
    BY <2>1, EncodeIs DEF Running
  <2>3. jobs[s].cause = "other"
    BY <2>1, <2>2 DEF EncodeInv, Encodes
  <2>4. e \in Encodes /\ e.pc = "failed" /\ e.cause = "other" /\ e.method = "none"
    BY <2>1, <2>2, <2>3 DEF Encodes, Running
  <2> HIDE DEF e
  <2> QED  BY <2>1, <2>4, OneEncode DEF EncodeInv
<1>7. ASSUME NEW s \in Viewers, Encode!Stop(s)
      PROVE  EncodeInv'
  <2> DEFINE e == [jobs[s] EXCEPT !.pc = "stopped"]
  <2>1. /\ jobs' = [jobs EXCEPT ![s] = e] /\ UNCHANGED <<host, hw, eFaults>>
        /\ jobs[s].pc \in {"running", "failed"}
    BY <1>7 DEF Encode!Stop
  <2>2. jobs[s] \in Encodes
    BY <2>1, EncodeIs DEF Running
  <2>3. e \in Encodes /\ e.pc = "stopped"
    BY <2>2 DEF Encodes, Running
  <2> HIDE DEF e
  <2> QED  BY <2>1, <2>3, OneEncode DEF EncodeInv
<1>8. ASSUME Encode!Cool
      PROVE  EncodeInv'
  BY <1>8 DEF Encode!Cool, EncodeInv
<1> QED  BY <1>1, <1>2, <1>3, <1>4, <1>5, <1>6, <1>7, <1>8 DEF Encode!Next

LEMMA EncodeIdle == EncodeInv /\ UNCHANGED Encode!vars => EncodeInv'
  BY DEF EncodeInv, Encode!vars

LEMMA EncodeHolds == EncodeInv => Encode!TypeOK /\ Encode!FaultsFallBack
<1> SUFFICES ASSUME EncodeInv PROVE Encode!TypeOK /\ Encode!FaultsFallBack
  OBVIOUS
<1>1. ASSUME NEW s \in Viewers, jobs[s] # Encode!Idle
      PROVE  /\ jobs[s].pc \in {"claiming", "running", "died", "failed", "stopped"}
             /\ jobs[s].file \in Files /\ jobs[s].profile \in Profiles
             /\ jobs[s].method \in Encode!Methods
             /\ jobs[s].pc = "failed" => jobs[s].cause = "other" /\ jobs[s].method = "none"
             /\ ~Encode!Spoiled(Encode!Plan(s), jobs[s].method, jobs[s].file)
  <2>1. jobs[s] \in Encodes
    BY <1>1, EncodeIs
  <2>2. jobs[s].file \in Files /\ jobs[s].profile \in Profiles /\ jobs[s].method \in Encode!Methods
        /\ host \in Hosts
    BY <2>1 DEF Encodes, EncodeInv
  <2>3. ~Encode!Spoiled(Encode!Plan(s), jobs[s].method, jobs[s].file)
    BY <2>2, NothingSpoiled DEF Encode!Plan
  <2> QED  BY <1>1, <2>1, <2>2, <2>3 DEF EncodeInv, Encodes, Running
<1>2. \A s \in Viewers : jobs[s] = Encode!Idle => jobs[s].pc = "idle"
  BY DEF Encode!Idle
<1>3. Encode!TypeOK
  BY <1>1 DEF Encode!TypeOK, EncodeInv
<1>4. Encode!FaultsFallBack
  BY <1>1, <1>2 DEF Encode!FaultsFallBack
<1> QED  BY <1>3, <1>4

(* Only the fallback of a child that died marks the hardware as failed.    *)
LEMMA HardwareGoes ==
  ASSUME EncodeInv, [Encode!Next]_(Encode!vars), hw'.failed, ~hw.failed
  PROVE  \E s \in Viewers : jobs[s].pc = "died" /\ jobs[s].cause # "plan"
<1>1. Encode!Cached = hw
  BY DEF Encode!Cached
<1>2. hw' # hw
  OBVIOUS
<1>3. \E s \in Viewers : Encode!FallBack(s)
  BY <1>1, <1>2 DEF Encode!Next, Encode!vars, Encode!Start, Encode!Seek, Encode!Spawn, Encode!Die,
     Encode!GiveUp, Encode!Stop, Encode!Cool
<1>4. PICK s \in Viewers : Encode!FallBack(s)
  BY <1>3
<1>5. jobs[s].pc = "died"
  BY <1>4 DEF Encode!FallBack
<1>6. jobs[s] \in Encodes
  BY <1>5, EncodeIs DEF Running
<1>7. jobs[s].cause # "plan"
  BY <1>6 DEF Encodes
<1> QED  BY <1>5, <1>7

-----------------------------------------------------------------------------
(* Artwork: a finite set of frames has a best one. *)
Frames == [colour : Nat, range : Nat, soft : BOOLEAN]

LEMMA ScoreIs == ASSUME NEW f \in Frames PROVE Picture!FrameScore(f) \in Nat
<1>1. f.colour \in Nat /\ f.range \in Nat
  BY DEF Frames
<1> QED  BY <1>1 DEF Picture!FrameScore

LEMMA ScoresAreBounded ==
  ASSUME NEW S \in SUBSET Frames, IsFiniteSet(S)
  PROVE  \E b \in Nat : \A f \in S : Picture!FrameScore(f) <= b
<1> DEFINE Bounded(T) == \E b \in Nat : \A f \in T : Picture!FrameScore(f) <= b
           N == {n \in Nat : \E T \in SUBSET Frames :
                   IsFiniteSet(T) /\ Cardinality(T) = n /\ ~Bounded(T)}
<1>1. ASSUME N # {}
      PROVE  FALSE
  <2>1. PICK n \in N : \A m \in N : n <= m
    BY <1>1, Least
  <2>2. PICK T \in SUBSET Frames : IsFiniteSet(T) /\ Cardinality(T) = n /\ ~Bounded(T)
    OBVIOUS
  <2>3. PICK f \in T : TRUE
    BY <2>2
  <2>4. IsFiniteSet(T \ {f}) /\ Cardinality(T \ {f}) = n - 1
    BY <2>2, <2>3, FS_RemoveElement
  <2>5. n - 1 \in Nat
    BY <2>4, FS_CardinalityType
  <2>6. Bounded(T \ {f})
    <3>1. n \in Nat /\ ~(n <= n - 1)
      BY <2>5
    <3>2. n - 1 \notin N
      BY <2>1, <3>1
    <3> QED  BY <2>4, <2>5, <3>2
  <2>7. PICK b \in Nat : \A g \in T \ {f} : Picture!FrameScore(g) <= b
    BY <2>6
  <2>8. \A g \in T : Picture!FrameScore(g) \in Nat
    <3>1. ASSUME NEW g \in T PROVE g \in Frames
      BY <2>2
    <3> QED  BY <3>1, ScoreIs
  <2>9. b + Picture!FrameScore(f) \in Nat
        /\ \A g \in T : Picture!FrameScore(g) <= b + Picture!FrameScore(f)
    <3>1. b + Picture!FrameScore(f) \in Nat
      BY <2>3, <2>8
    <3>2. ASSUME NEW g \in T
          PROVE  Picture!FrameScore(g) <= b + Picture!FrameScore(f)
      <4>1. Picture!FrameScore(g) \in Nat /\ Picture!FrameScore(f) \in Nat
        BY <2>3, <2>8
      <4>2. CASE g = f
        BY <4>1, <4>2
      <4>3. CASE g # f
        <5>1. Picture!FrameScore(g) <= b
          BY <2>7, <4>3
        <5> QED  BY <4>1, <5>1
      <4> QED  BY <4>2, <4>3
    <3> QED  BY <3>1, <3>2
  <2> QED  BY <2>2, <2>9
<1>2. Cardinality(S) \in Nat
  BY FS_CardinalityType
<1> QED  BY <1>1, <1>2

LEMMA BestIsANumber ==
  ASSUME NEW S \in SUBSET Frames, IsFiniteSet(S)
  PROVE  Picture!BestFrame(S) \in Nat
<1>1. CASE S = {}
  BY <1>1 DEF Picture!BestFrame
<1>2. CASE S # {}
  <2> DEFINE P == Picture!Pool(S)
             Q == {Picture!FrameScore(f) : f \in P}
  <2>1. P \subseteq S /\ P # {}
    BY <1>2 DEF Picture!Pool
  <2>2. PICK b \in Nat : \A f \in S : Picture!FrameScore(f) <= b
    BY ScoresAreBounded
  <2>3. Q \in SUBSET (0..b) /\ Q # {}
    <3>1. \A f \in S : Picture!FrameScore(f) \in Nat
      BY ScoreIs
    <3>2. \A f \in S : Picture!FrameScore(f) \in 0..b
      BY <2>2, <3>1
    <3> QED  BY <2>1, <3>2
  <2> HIDE DEF P, Q
  <2>4. \E x \in Q : \A y \in Q : x >= y
    BY <2>3, Greatest
  <2>5. Picture!Max(Q) \in Q
    BY <2>4 DEF Picture!Max
  <2>6. Picture!BestFrame(S) = Picture!Max(Q)
    BY <1>2 DEF Picture!BestFrame, P, Q
  <2>7. \A x \in 0..b : x \in Nat
    OBVIOUS
  <2>8. Picture!Max(Q) \in 0..b
    BY <2>3, <2>5
  <2> QED  BY <2>6, <2>7, <2>8
<1> QED  BY <1>1, <1>2

-----------------------------------------------------------------------------
(* The jobs of Artwork. *)
Entries == Picture!Kinds \X Picture!Sources
Errands == [pc : {"none", "queued", "put", "clean", "lend", "flag"}, list : Seq(Entries),
            lend : BOOLEAN, up : Ancestors \cup {None}, saw : SUBSET Picture!Sources,
            shot : Nat, beat : Nat, best : Nat, tries : Nat]
Fetches == [pc : {"none", "put", "clean"}, list : Seq(Picture!Kinds)]

ArtTypes ==
  /\ files \in Libraries
  /\ side \in [Leaves -> SUBSET Picture!Kinds]
  /\ rows \in [Picture!Items -> SUBSET Entries]
  /\ frame \in [Picture!Items -> Nat]
  /\ aJob \in [Leaves -> Errands]
  /\ fetch \in [DOMAIN Offers -> Fetches]
  /\ fails \in [Leaves -> Nat] /\ failed \in [Leaves -> Nat]
  /\ aFlagged \subseteq Leaves
  /\ heavy \in {"idle", "walked", "forgot"}
  /\ aSpent \in 0..MaxTroubles

(* There is a picture of the kind, of this rank or a better one. *)
Backed(pictures, kind, rank) ==
  \E b \in pictures : b[1] = kind /\ Picture!Rank(b[2]) <= rank

(* A writer that is about to clean up has its own picture in place, or a   *)
(* better one has replaced it; and what was counted has failed. *)
LeafInv(l) ==
  /\ aJob[l].pc = "clean" =>
       /\ aJob[l].list # <<>>
       /\ Backed(rows[l], Head(aJob[l].list)[1], Picture!Rank(Head(aJob[l].list)[2]))
  /\ aJob[l].pc = "lend" => aJob[l].up \in Ancestors
  /\ fails[l] <= failed[l]
  /\ aJob[l].pc = "flag" => failed[l] >= Threshold

FetchInv(i) ==
  /\ fetch[i].pc # "none" => fetch[i].list # <<>>
  /\ fetch[i].pc = "clean" =>
       Backed(rows[i], Head(fetch[i].list), Picture!Rank("PROVIDER"))

ArtInv == /\ ArtTypes
          /\ \A l \in Leaves : LeafInv(l)
          /\ \A i \in DOMAIN Offers : FetchInv(i)

Grows == \A i \in Picture!Items, kind \in Picture!Kinds, rank \in Nat :
           Backed(rows[i], kind, rank) => Backed(rows'[i], kind, rank)

LEMMA ArtFacts ==
  /\ Libraries \subseteq SUBSET Leaves
  /\ Parent \in [Picture!Items -> Ancestors \cup {None}]
  /\ \A l \in Leaves : Shots[l] \subseteq Frames /\ IsFiniteSet(Shots[l])
  /\ \A i \in DOMAIN Offers :
       i \in Picture!Items /\ Offers[i] \in Seq(Picture!Kinds) /\ Offers[i] # <<>>
  /\ Threshold \in Nat /\ MaxTroubles \in Nat
  /\ Leaves \subseteq Picture!Items /\ Ancestors \subseteq Picture!Items
<1>1. ASSUME NEW S PROVE Picture!IsFiniteSet(S) <=> IsFiniteSet(S)
  BY DEF Picture!IsFiniteSet, IsFiniteSet
<1>2. Picture!ArtworkAssumption
  BY RecordWorlds
<1> QED  BY <1>1, <1>2 DEF Picture!ArtworkAssumption, Frames, Picture!Items

LEMMA RankIs == ASSUME NEW s \in Picture!Sources PROVE Picture!Rank(s) \in Nat
  BY DEF Picture!Sources, Picture!Rank

LEMMA EntryIs ==
  ASSUME NEW a \in Entries
  PROVE  a[1] \in Picture!Kinds /\ a[2] \in Picture!Sources /\ a = <<a[1], a[2]>>
         /\ Picture!Rank(a[2]) \in Nat
  BY RankIs DEF Entries

LEMMA OfIs ==
  ASSUME NEW kind \in Picture!Kinds, NEW kinds, NEW source \in Picture!Sources
  PROVE  Picture!Of(kind, kinds, source) \in Seq(Entries)
<1> DEFINE a == <<kind, source>>
<1>1. a \in Entries
  BY DEF Entries
<1> HIDE DEF a
<1>2. <<a>> \in Seq(Entries) /\ <<>> \in Seq(Entries)
  BY <1>1
<1> QED  BY <1>2 DEF Picture!Of, a

LEMMA Joined ==
  ASSUME NEW s \in Seq(Entries), NEW t \in Seq(Entries)
  PROVE  s \o t \in Seq(Entries)
  BY ConcatProperties

LEMMA ListsAre ==
  ASSUME NEW l \in Leaves, NEW got
  PROVE  /\ Picture!Sidecars(l) \in Seq(Entries)
         /\ Picture!Sidecars(l) \o Picture!Embedded(l) \o Picture!Drawn(l, got) \in Seq(Entries)
<1>1. /\ "POSTER" \in Picture!Kinds /\ "BACKDROP" \in Picture!Kinds
      /\ "LOCAL_SIDECAR" \in Picture!Sources /\ "EMBEDDED" \in Picture!Sources
      /\ "GENERATED" \in Picture!Sources
  BY DEF Picture!Kinds, Picture!Sources
<1>2. Picture!Sidecars(l) \in Seq(Entries)
  BY <1>1, OfIs, Joined DEF Picture!Sidecars
<1>3. Picture!Embedded(l) \in Seq(Entries)
  BY <1>1, OfIs DEF Picture!Embedded
<1>4. Picture!Generated(l) \in Seq(Entries)
  BY <1>1, OfIs, Joined DEF Picture!Generated
<1>5. Picture!Drawn(l, got) \in Seq(Entries)
  BY <1>4 DEF Picture!Drawn
<1> QED  BY <1>2, <1>3, <1>5, Joined

LEMMA HeadIs ==
  ASSUME NEW S, NEW s \in Seq(S), s # <<>>
  PROVE  Head(s) \in S /\ Tail(s) \in Seq(S)
  BY HeadTailProperties

(* A row that is put stands behind every rank it has. *)
LEMMA PutGrows ==
  ASSUME ArtTypes, NEW i \in Picture!Items, NEW kind \in Picture!Kinds,
         NEW source \in Picture!Sources, Picture!Put(i, kind, source)
  PROVE  /\ rows' \in [Picture!Items -> SUBSET Entries]
         /\ Grows
         /\ Backed(rows'[i], kind, Picture!Rank(source))
         /\ \A j \in Picture!Items : rows[j] \subseteq rows'[j]
<1> DEFINE a == <<kind, source>>
<1>1. a \in Entries /\ a[1] = kind /\ a[2] = source
  BY DEF Entries
<1>2. rows' = [rows EXCEPT ![i] = @ \cup {a}]
  BY DEF Picture!Put
<1> HIDE DEF a
<1>3. rows' \in [Picture!Items -> SUBSET Entries]
  BY <1>1, <1>2 DEF ArtTypes
<1>4. \A j \in Picture!Items : rows[j] \subseteq rows'[j]
  BY <1>2 DEF ArtTypes
<1>5. a \in rows'[i]
  BY <1>2 DEF ArtTypes
<1>6. Backed(rows'[i], kind, Picture!Rank(source))
  <2>1. Picture!Rank(source) <= Picture!Rank(source)
    BY RankIs
  <2> QED  BY <2>1, <1>1, <1>5 DEF Backed
<1> QED  BY <1>3, <1>4, <1>6 DEF Grows, Backed

(* A writer whose picture is backed loses nothing by cleaning up, and every *)
(* picture that goes leaves a strictly better one.                          *)
LEMMA CleanGrows ==
  ASSUME ArtTypes, NEW i \in Picture!Items, NEW kind \in Picture!Kinds,
         NEW source \in Picture!Sources, Backed(rows[i], kind, Picture!Rank(source)),
         Picture!CleanUp(i, kind, source)
  PROVE  /\ rows' \in [Picture!Items -> SUBSET Entries]
         /\ Grows
         /\ \A j \in Picture!Items : \A r \in rows[j] \ rows'[j] :
              \E b \in rows'[j] : b[1] = r[1] /\ Picture!Rank(b[2]) < Picture!Rank(r[2])
<1> DEFINE n == Picture!Rank(source)
           W == Picture!Worse(i, kind, source)
<1>1. PICK b \in rows[i] : b[1] = kind /\ Picture!Rank(b[2]) <= n
  BY DEF Backed
<1>2. b \in Entries
  BY <1>1 DEF ArtTypes
<1>3. n \in Nat /\ Picture!Rank(b[2]) \in Nat
  BY <1>2, RankIs, EntryIs
<1>4. rows' = [rows EXCEPT ![i] = @ \ W]
  BY DEF Picture!CleanUp
<1>5. \A r : r \in W <=> r \in rows[i] /\ r[1] = kind /\ Picture!Rank(r[2]) > n
  BY DEF Picture!Worse
<1> HIDE DEF n, W
<1>6. b \notin W
  BY <1>1, <1>3, <1>5
<1>7. /\ rows' \in [Picture!Items -> SUBSET Entries]
      /\ rows'[i] = rows[i] \ W
      /\ \A j \in Picture!Items : j # i => rows'[j] = rows[j]
  BY <1>4 DEF ArtTypes
<1>8. b \in rows'[i]
  BY <1>1, <1>6, <1>7
<1>9. ASSUME NEW r \in W
      PROVE  b[1] = r[1] /\ Picture!Rank(b[2]) < Picture!Rank(r[2])
             /\ Picture!Rank(r[2]) \in Nat
  <2>1. r \in Entries
    BY <1>5 DEF ArtTypes
  <2>2. Picture!Rank(r[2]) \in Nat
    BY <2>1, EntryIs
  <2> QED  BY <2>2, <1>1, <1>3, <1>5
<1>10. ASSUME NEW j \in Picture!Items, NEW k \in Picture!Kinds, NEW m \in Nat, Backed(rows[j], k, m)
       PROVE  Backed(rows'[j], k, m)
  <2>1. PICK c \in rows[j] : c[1] = k /\ Picture!Rank(c[2]) <= m
    BY <1>10 DEF Backed
  <2>2. CASE j # i \/ c \notin W
    BY <2>1, <2>2, <1>7 DEF Backed
  <2>3. CASE j = i /\ c \in W
    <3>1. b[1] = k /\ Picture!Rank(b[2]) <= m
      BY <1>3, <1>9, <2>1, <2>3
    <3> QED  BY <1>8, <2>3, <3>1 DEF Backed
  <2> QED  BY <2>2, <2>3
<1>11. ASSUME NEW j \in Picture!Items, NEW r \in rows[j] \ rows'[j]
       PROVE  \E c \in rows'[j] : c[1] = r[1] /\ Picture!Rank(c[2]) < Picture!Rank(r[2])
  <2>1. j = i /\ r \in W
    BY <1>7
  <2> QED  BY <2>1, <1>8, <1>9
<1> QED  BY <1>7, <1>10, <1>11 DEF Grows

LEMMA LeafKeeps ==
  ASSUME ArtInv, Grows, NEW l \in Leaves,
         aJob'[l] = aJob[l], fails'[l] = fails[l], failed'[l] = failed[l]
  PROVE  LeafInv(l)'
<1>1. LeafInv(l) /\ aJob[l] \in Errands /\ l \in Picture!Items
  BY ArtFacts DEF ArtInv, ArtTypes
<1>2. CASE aJob[l].pc = "clean"
  <2>1. aJob[l].list \in Seq(Entries) /\ aJob[l].list # <<>>
    BY <1>1, <1>2 DEF Errands, LeafInv
  <2>2. Head(aJob[l].list) \in Entries
    BY <2>1, HeadIs
  <2>3. Backed(rows'[l], Head(aJob[l].list)[1], Picture!Rank(Head(aJob[l].list)[2]))
    BY <1>1, <1>2, <2>2, EntryIs DEF LeafInv, Grows
  <2> QED  BY <1>1, <1>2, <2>1, <2>3 DEF LeafInv
<1>3. CASE aJob[l].pc # "clean"
  BY <1>1, <1>3 DEF LeafInv
<1> QED  BY <1>2, <1>3

LEMMA FetchKeeps ==
  ASSUME ArtInv, Grows, NEW i \in DOMAIN Offers, fetch'[i] = fetch[i]
  PROVE  FetchInv(i)'
<1>1. FetchInv(i) /\ fetch[i] \in Fetches /\ i \in Picture!Items
  BY ArtFacts DEF ArtInv, ArtTypes
<1>2. CASE fetch[i].pc = "clean"
  <2>1. fetch[i].list \in Seq(Picture!Kinds) /\ fetch[i].list # <<>>
    BY <1>1, <1>2 DEF Fetches, FetchInv
  <2>2. Head(fetch[i].list) \in Picture!Kinds
    BY <2>1, HeadIs
  <2>3. Picture!Rank("PROVIDER") \in Nat
    BY RankIs DEF Picture!Sources
  <2>4. Backed(rows'[i], Head(fetch[i].list), Picture!Rank("PROVIDER"))
    BY <1>1, <1>2, <2>2, <2>3 DEF FetchInv, Grows
  <2> QED  BY <1>1, <1>2, <2>1, <2>4 DEF FetchInv
<1>3. CASE fetch[i].pc # "clean"
  BY <1>1, <1>3 DEF FetchInv
<1> QED  BY <1>2, <1>3

LEMMA SameRowsGrow == ASSUME rows' = rows PROVE Grows
  BY DEF Grows, Backed

(* A step of one leaf's job. *)
LEMMA JobMoves ==
  ASSUME ArtInv, NEW l \in Leaves, NEW j \in Errands, Picture!Enter(l, j),
         rows' \in [Picture!Items -> SUBSET Entries], Grows,
         frame' \in [Picture!Items -> Nat],
         fails' \in [Leaves -> Nat], failed' \in [Leaves -> Nat],
         \A m \in Leaves : m # l => fails'[m] = fails[m] /\ failed'[m] = failed[m],
         aFlagged' \subseteq Leaves, aSpent' \in 0..MaxTroubles,
         aJob'[l] = j => LeafInv(l)',
         Picture!Rest
  PROVE  ArtInv'
<1>1. aJob' \in [Leaves -> Errands] /\ aJob'[l] = j
      /\ \A m \in Leaves : m # l => aJob'[m] = aJob[m]
  BY DEF ArtInv, ArtTypes, Picture!Enter
<1>2. ArtTypes'
  BY <1>1 DEF ArtInv, ArtTypes, Picture!Rest
<1>3. ASSUME NEW m \in Leaves PROVE LeafInv(m)'
  BY <1>1, LeafKeeps
<1>4. ASSUME NEW i \in DOMAIN Offers PROVE FetchInv(i)'
  BY FetchKeeps DEF Picture!Rest
<1> QED  BY <1>2, <1>3, <1>4 DEF ArtInv

(* A step that only moves a job that is neither cleaning up, lending nor    *)
(* parking the item.                                                       *)
LEMMA Queued ==
  ASSUME ArtInv, aJob' \in [Leaves -> Errands],
         \A l \in Leaves : aJob'[l] = aJob[l] \/ aJob'[l].pc = "queued",
         side' \in [Leaves -> SUBSET Picture!Kinds], aFlagged' \subseteq Leaves,
         heavy' \in {"idle", "walked", "forgot"}, aSpent' \in 0..MaxTroubles,
         fails' \in [Leaves -> Nat], \A l \in Leaves : fails'[l] <= failed[l],
         UNCHANGED <<files, rows, frame, fetch, failed>>
  PROVE  ArtInv'
<1>1. ArtTypes'
  BY DEF ArtInv, ArtTypes
<1>2. Grows
  BY SameRowsGrow
<1>3. ASSUME NEW l \in Leaves PROVE LeafInv(l)'
  <2>1. CASE aJob'[l].pc = "queued"
    BY <2>1 DEF LeafInv
  <2>2. CASE aJob'[l] = aJob[l]
    BY <2>2 DEF LeafInv, ArtInv, Backed
  <2> QED  BY <2>1, <2>2
<1>4. ASSUME NEW i \in DOMAIN Offers PROVE FetchInv(i)'
  BY <1>2, FetchKeeps
<1> QED  BY <1>1, <1>3, <1>4 DEF ArtInv

LEMMA TroubleIs ==
  ASSUME ArtInv, Picture!Trouble
  PROVE  aSpent' \in 0..MaxTroubles
  BY ArtFacts DEF ArtInv, ArtTypes, Picture!Trouble

LEMMA IdleIs ==
  /\ Picture!Idle \in Errands /\ Picture!Idle.pc = "none"
  /\ [Picture!Idle EXCEPT !.pc = "queued"] \in Errands
  /\ [Picture!Idle EXCEPT !.pc = "queued"].pc = "queued"
<1>1. <<>> \in Seq(Entries)
  OBVIOUS
<1> QED  BY <1>1 DEF Picture!Idle, Errands

(* The steps in front of the queue and beside it. *)
LEMMA QueueStep ==
  ASSUME ArtInv,
         \/ \E l \in Leaves : \/ Picture!Scan(l) \/ Picture!Reconcile(l)
                              \/ \E k \in Picture!Kinds : Picture!AddSidecar(l, k)
         \/ Picture!HeavyScan \/ Picture!Forget \/ Picture!Unflag
  PROVE  ArtInv'
<1>1. aSpent \in 0..MaxTroubles /\ fails \in [Leaves -> Nat] /\ failed \in [Leaves -> Nat]
      /\ side \in [Leaves -> SUBSET Picture!Kinds] /\ aFlagged \subseteq Leaves
      /\ heavy \in {"idle", "walked", "forgot"} /\ aJob \in [Leaves -> Errands]
      /\ \A l \in Leaves : fails[l] <= failed[l]
  BY DEF ArtInv, ArtTypes, LeafInv
<1>2. ASSUME NEW l \in Leaves, Picture!Enqueue(l)
      PROVE  aJob' \in [Leaves -> Errands]
             /\ \A m \in Leaves : aJob'[m] = aJob[m] \/ aJob'[m].pc = "queued"
  <2>1. aJob[l] \in Errands
    BY <1>1
  <2> DEFINE j == [aJob[l] EXCEPT !.pc = "queued"]
  <2>2. j \in Errands /\ j.pc = "queued"
    BY <2>1 DEF Errands
  <2>3. aJob' = [aJob EXCEPT ![l] = j] \/ aJob' = aJob
    BY <1>1, <1>2 DEF Picture!Enqueue
  <2> HIDE DEF j
  <2> QED  BY <1>1, <2>2, <2>3
<1>3. ASSUME NEW l \in Leaves, Picture!Scan(l) \/ Picture!Reconcile(l)
      PROVE  ArtInv'
  <2>1. Picture!Enqueue(l)
        /\ UNCHANGED <<files, side, rows, frame, fetch, fails, aFlagged, failed, heavy, aSpent>>
    BY <1>3 DEF Picture!Scan, Picture!Reconcile, Picture!poison
  <2> QED  BY <1>1, <1>2, <2>1, Queued
<1>4. ASSUME NEW l \in Leaves, NEW k \in Picture!Kinds, Picture!AddSidecar(l, k)
      PROVE  ArtInv'
  <2>1. side' = [side EXCEPT ![l] = @ \cup {k}]
        /\ UNCHANGED <<files, rows, frame, aJob, fetch, fails, aFlagged, failed, heavy, aSpent>>
    BY <1>4 DEF Picture!AddSidecar, Picture!poison
  <2>2. side' \in [Leaves -> SUBSET Picture!Kinds]
    BY <1>1, <2>1
  <2> QED  BY <1>1, <2>1, <2>2, Queued
<1>5. CASE Picture!HeavyScan
  <2> DEFINE q == [Picture!Idle EXCEPT !.pc = "queued"]
  <2>1. /\ aJob' = [l \in Leaves |->
                      IF l \in files /\ ~Picture!Covered(l) /\ aJob[l].pc = "none"
                      THEN q ELSE aJob[l]]
        /\ heavy' = "walked" /\ Picture!Trouble
        /\ UNCHANGED <<files, side, rows, frame, fetch, fails, aFlagged, failed>>
    BY <1>5 DEF Picture!HeavyScan, Picture!poison
  <2>2. q \in Errands /\ q.pc = "queued"
    BY IdleIs
  <2> HIDE DEF q
  <2>3. aJob' \in [Leaves -> Errands]
        /\ \A m \in Leaves : aJob'[m] = aJob[m] \/ aJob'[m].pc = "queued"
    BY <1>1, <2>1, <2>2
  <2> QED  BY <1>1, <2>1, <2>3, TroubleIs, Queued
<1>6. CASE Picture!Forget
  <2>1. /\ heavy' = "forgot" /\ fails' = [l \in Leaves |-> 0]
        /\ UNCHANGED <<files, side, rows, frame, aJob, fetch, aFlagged, aSpent, failed>>
    BY <1>6 DEF Picture!Forget
  <2>2. fails' \in [Leaves -> Nat] /\ \A l \in Leaves : fails'[l] <= failed[l]
    BY <1>1, <2>1
  <2> QED  BY <1>1, <2>1, <2>2, Queued
<1>7. CASE Picture!Unflag
  <2>1. /\ heavy' = "idle" /\ aFlagged' = {}
        /\ UNCHANGED <<files, side, rows, frame, aJob, fetch, fails, aSpent, failed>>
    BY <1>7 DEF Picture!Unflag
  <2> QED  BY <1>1, <2>1, Queued
<1> QED  BY <1>3, <1>4, <1>5, <1>6, <1>7

LEMMA LeafFacts ==
  ASSUME ArtInv, NEW l \in Leaves
  PROVE  /\ aJob[l] \in Errands /\ LeafInv(l) /\ l \in Picture!Items
         /\ rows \in [Picture!Items -> SUBSET Entries] /\ frame \in [Picture!Items -> Nat]
         /\ fails \in [Leaves -> Nat] /\ failed \in [Leaves -> Nat]
         /\ aFlagged \subseteq Leaves /\ aSpent \in 0..MaxTroubles
         /\ fails[l] \in Nat /\ failed[l] \in Nat /\ fails[l] <= failed[l]
         /\ aJob[l].list \in Seq(Entries) /\ aJob[l].lend \in BOOLEAN
         /\ aJob[l].up \in Ancestors \cup {None} /\ aJob[l].saw \in SUBSET Picture!Sources
         /\ aJob[l].shot \in Nat /\ aJob[l].beat \in Nat /\ aJob[l].best \in Nat
         /\ aJob[l].tries \in Nat
  BY ArtFacts DEF ArtInv, ArtTypes, LeafInv, Errands

(* Steps of a job that leave the rows alone. *)
LEMMA QuietMoves ==
  ASSUME ArtInv, NEW l \in Leaves, NEW j \in Errands, Picture!Enter(l, j),
         rows' = rows, frame' = frame, Picture!Rest,
         fails' \in [Leaves -> Nat], failed' \in [Leaves -> Nat],
         \A m \in Leaves : m # l => fails'[m] = fails[m] /\ failed'[m] = failed[m],
         aFlagged' \subseteq Leaves, aSpent' \in 0..MaxTroubles,
         j.pc # "clean", j.pc = "lend" => j.up \in Ancestors,
         fails'[l] <= failed'[l], j.pc = "flag" => failed'[l] >= Threshold
  PROVE  ArtInv'
<1>1. rows' \in [Picture!Items -> SUBSET Entries] /\ frame' \in [Picture!Items -> Nat]
  BY DEF ArtInv, ArtTypes
<1>2. Grows
  BY SameRowsGrow
<1>3. aJob'[l] = j => LeafInv(l)'
  BY DEF LeafInv
<1> QED  BY <1>1, <1>2, <1>3, JobMoves

LEMMA RecheckStep ==
  ASSUME ArtInv, NEW l \in Leaves, Picture!Recheck(l)
  PROVE  ArtInv'
<1> DEFINE j == [aJob[l] EXCEPT !.pc = "put", !.list = Picture!Sidecars(l), !.lend = FALSE]
<1>1. Picture!Enter(l, j) /\ Picture!Rest
      /\ UNCHANGED <<rows, frame, fails, aFlagged, failed, aSpent>>
  BY DEF Picture!Recheck, Picture!poison
<1>2. j \in Errands /\ j.pc = "put"
  <2> DEFINE s == Picture!Sidecars(l)
  <2>1. aJob[l] \in Errands /\ s \in Seq(Entries)
    BY LeafFacts, ListsAre
  <2> HIDE DEF s
  <2>2. [aJob[l] EXCEPT !.pc = "put", !.list = s, !.lend = FALSE] \in Errands
        /\ [aJob[l] EXCEPT !.pc = "put", !.list = s, !.lend = FALSE].pc = "put"
    BY <2>1 DEF Errands
  <2> QED  BY <2>2 DEF s
<1> HIDE DEF j
<1> QED  BY <1>1, <1>2, LeafFacts, QuietMoves

LEMMA ResolveStep ==
  ASSUME ArtInv, NEW l \in Leaves, Picture!Resolve(l)
  PROVE  ArtInv'
<1>1. PICK got \in IF Picture!Missing(l) = {} THEN {{}} ELSE Picture!Extracted(l) :
        /\ aSpent' = aSpent \/ Picture!Trouble
        /\ Picture!Enter(l, [aJob[l] EXCEPT !.pc = "put", !.lend = TRUE,
                               !.shot = Picture!BestFrame(got),
                               !.list = Picture!Sidecars(l) \o Picture!Embedded(l)
                                          \o Picture!Drawn(l, got)])
  BY DEF Picture!Resolve
<1> DEFINE s == Picture!Sidecars(l) \o Picture!Embedded(l) \o Picture!Drawn(l, got)
           n == Picture!BestFrame(got)
           j == [aJob[l] EXCEPT !.pc = "put", !.lend = TRUE, !.shot = n, !.list = s]
<1>2. n \in Nat
  <2>1. got \subseteq Shots[l]
    BY <1>1 DEF Picture!Extracted
  <2>2. Shots[l] \subseteq Frames /\ IsFiniteSet(Shots[l])
    BY ArtFacts
  <2>3. IsFiniteSet(got)
    BY <2>1, <2>2, FS_Subset
  <2> QED  BY <2>1, <2>2, <2>3, BestIsANumber
<1>3. s \in Seq(Entries)
  BY ListsAre
<1>4. Picture!Enter(l, j)
  BY <1>1
<1>5. Picture!Rest /\ UNCHANGED <<rows, frame, fails, aFlagged, failed>>
  BY DEF Picture!Resolve, Picture!poison
<1> HIDE DEF s, n
<1>6. j \in Errands /\ j.pc = "put"
  <2>1. aJob[l] \in Errands
    BY LeafFacts
  <2> QED  BY <1>2, <1>3, <2>1 DEF Errands
<1> HIDE DEF j
<1>7. aSpent' \in 0..MaxTroubles
  BY <1>1, LeafFacts, TroubleIs
<1> QED  BY <1>4, <1>5, <1>6, <1>7, LeafFacts, QuietMoves

LEMMA PutNextStep ==
  ASSUME ArtInv, NEW l \in Leaves, Picture!PutNext(l)
  PROVE  ArtInv' /\ \A i \in Picture!Items : rows[i] \subseteq rows'[i]
<1> DEFINE a == Head(aJob[l].list)
           j == [aJob[l] EXCEPT !.pc = "clean"]
<1>1. /\ aJob[l].list # <<>> /\ Picture!Put(l, a[1], a[2]) /\ Picture!Enter(l, j)
      /\ frame' = [frame EXCEPT ![l] = IF a = <<"BACKDROP", "GENERATED">>
                                       THEN aJob[l].shot ELSE @]
      /\ Picture!Rest /\ UNCHANGED <<fails, aFlagged, failed, aSpent>>
  BY DEF Picture!PutNext, Picture!poison
<1>2. j \in Errands /\ j.pc = "clean" /\ j.list = aJob[l].list
  BY LeafFacts DEF Errands
<1>3. a \in Entries
  BY <1>1, LeafFacts, HeadIs
<1>4. a[1] \in Picture!Kinds /\ a[2] \in Picture!Sources
  BY <1>3, EntryIs
<1>5. frame' \in [Picture!Items -> Nat]
  BY <1>1, LeafFacts
<1> HIDE DEF j
<1>6. /\ rows' \in [Picture!Items -> SUBSET Entries] /\ Grows
      /\ Backed(rows'[l], a[1], Picture!Rank(a[2]))
      /\ \A i \in Picture!Items : rows[i] \subseteq rows'[i]
  BY <1>1, <1>4, LeafFacts, PutGrows DEF ArtInv
<1>7. aJob'[l] = j => LeafInv(l)'
  BY <1>1, <1>2, <1>6, LeafFacts DEF LeafInv, Backed
<1>8. ArtInv'
  BY <1>1, <1>2, <1>5, <1>6, <1>7, LeafFacts, JobMoves
<1> QED  BY <1>6, <1>8

LEMMA AfterPutIs ==
  ASSUME ArtInv, NEW l \in Leaves, aJob[l].list # <<>>
  PROVE  Picture!AfterPut(l) \in Errands /\ Picture!AfterPut(l).pc = "put"
<1> DEFINE t == Tail(aJob[l].list)
           u == IF aJob[l].lend /\ Head(aJob[l].list)[1] = "BACKDROP" THEN Parent[l]
                ELSE aJob[l].up
           b == IF Head(aJob[l].list)[2] = "GENERATED" THEN aJob[l].shot ELSE 0
<1>1. t \in Seq(Entries) /\ u \in Ancestors \cup {None} /\ b \in Nat
  BY LeafFacts, HeadIs, ArtFacts
<1>2. Picture!AfterPut(l) = [aJob[l] EXCEPT !.pc = "put", !.list = t, !.up = u, !.best = b]
  <2>1. aJob[l] = [pc |-> aJob[l].pc, list |-> aJob[l].list, lend |-> aJob[l].lend,
                   up |-> aJob[l].up, saw |-> aJob[l].saw, shot |-> aJob[l].shot,
                   beat |-> aJob[l].beat, best |-> aJob[l].best, tries |-> aJob[l].tries]
    BY LeafFacts DEF Errands
  <2> QED  BY <2>1 DEF Picture!AfterPut
<1> HIDE DEF t, u, b
<1> QED  BY <1>1, <1>2, LeafFacts DEF Errands

LEMMA PutFailsStep ==
  ASSUME ArtInv, NEW l \in Leaves, Picture!PutFails(l)
  PROVE  ArtInv'
<1> DEFINE j == Picture!AfterPut(l)
<1>1. /\ aJob[l].list # <<>> /\ Picture!Trouble /\ Picture!Enter(l, j)
      /\ Picture!Rest /\ UNCHANGED <<rows, frame, fails, aFlagged, failed>>
  BY DEF Picture!PutFails, Picture!poison
<1>2. j \in Errands /\ j.pc = "put"
  BY <1>1, AfterPutIs
<1> HIDE DEF j
<1> QED
  <2>1. aSpent' \in 0..MaxTroubles
    BY <1>1, TroubleIs
  <2> QED  BY <1>1, <1>2, <2>1, LeafFacts, QuietMoves

LEMMA CleanNextStep ==
  ASSUME ArtInv, NEW l \in Leaves, Picture!CleanNext(l)
  PROVE  /\ ArtInv'
         /\ \A i \in Picture!Items : \A r \in rows[i] \ rows'[i] :
              \E b \in rows'[i] : b[1] = r[1] /\ Picture!Rank(b[2]) < Picture!Rank(r[2])
<1> DEFINE a == Head(aJob[l].list)
           j == Picture!AfterPut(l)
<1>1. /\ aJob[l].pc = "clean" /\ Picture!CleanUp(l, a[1], a[2]) /\ Picture!Enter(l, j)
      /\ Picture!Rest /\ UNCHANGED <<frame, fails, aFlagged, failed, aSpent>>
  BY DEF Picture!CleanNext, Picture!poison, Picture!At
<1>2. aJob[l].list # <<>> /\ Backed(rows[l], a[1], Picture!Rank(a[2]))
  BY <1>1, LeafFacts DEF LeafInv
<1>3. a[1] \in Picture!Kinds /\ a[2] \in Picture!Sources
  BY <1>2, LeafFacts, HeadIs, EntryIs
<1>4. j \in Errands /\ j.pc = "put"
  BY <1>2, AfterPutIs
<1> HIDE DEF j, a
<1>5. /\ rows' \in [Picture!Items -> SUBSET Entries] /\ Grows
      /\ \A i \in Picture!Items : \A r \in rows[i] \ rows'[i] :
           \E b \in rows'[i] : b[1] = r[1] /\ Picture!Rank(b[2]) < Picture!Rank(r[2])
  BY <1>1, <1>2, <1>3, LeafFacts, CleanGrows DEF ArtInv
<1>6. aJob'[l] = j => LeafInv(l)'
  BY <1>1, <1>4, LeafFacts DEF LeafInv
<1>7. frame' \in [Picture!Items -> Nat]
  BY <1>1, LeafFacts
<1>8. ArtInv'
  BY <1>1, <1>4, <1>5, <1>6, <1>7, LeafFacts, JobMoves
<1> QED  BY <1>5, <1>8

LEMMA LookUpStep ==
  ASSUME ArtInv, NEW l \in Leaves, Picture!LookUp(l)
  PROVE  ArtInv'
<1> DEFINE i == aJob[l].up
           b == Picture!Backdrops(i)
           n == frame[i]
           j == [aJob[l] EXCEPT !.pc = "lend", !.saw = b, !.beat = n]
<1>1. /\ i # None /\ Picture!Enter(l, j) /\ Picture!Rest
      /\ UNCHANGED <<rows, frame, fails, aFlagged, failed, aSpent>>
  BY DEF Picture!LookUp, Picture!poison
<1>2. i \in Ancestors /\ i \in Picture!Items
  BY <1>1, LeafFacts, ArtFacts
<1>3. b \subseteq Picture!Sources /\ n \in Nat
  BY <1>2, LeafFacts, EntryIs DEF Picture!Backdrops
<1> HIDE DEF b, n
<1>4. j \in Errands /\ j.pc = "lend" /\ j.up \in Ancestors
  BY <1>2, <1>3, LeafFacts DEF Errands
<1> HIDE DEF j
<1> QED  BY <1>1, <1>4, LeafFacts, QuietMoves

LEMMA LendStep ==
  ASSUME ArtInv, NEW l \in Leaves, Picture!Lend(l)
  PROVE  ArtInv' /\ \A i \in Picture!Items : rows[i] \subseteq rows'[i]
<1> DEFINE i == aJob[l].up
           p == Parent[i]
           j == [aJob[l] EXCEPT !.pc = "put", !.up = p, !.saw = {}, !.beat = 0]
<1>1. /\ aJob[l].pc = "lend" /\ Picture!Enter(l, j) /\ Picture!Rest
      /\ UNCHANGED <<fails, aFlagged, failed, aSpent>>
      /\ \/ /\ Picture!Put(i, "BACKDROP", "GENERATED")
            /\ frame' = [frame EXCEPT ![i] = aJob[l].best]
         \/ UNCHANGED <<rows, frame>>
  BY DEF Picture!Lend, Picture!poison, Picture!At
<1>2. i \in Picture!Items /\ p \in Ancestors \cup {None}
  BY <1>1, LeafFacts, ArtFacts DEF LeafInv
<1> HIDE DEF p
<1>3. j \in Errands /\ j.pc = "put"
  BY <1>2, LeafFacts DEF Errands
<1> HIDE DEF j, i
<1>4. "BACKDROP" \in Picture!Kinds /\ "GENERATED" \in Picture!Sources
  BY DEF Picture!Kinds, Picture!Sources
<1>5. /\ rows' \in [Picture!Items -> SUBSET Entries] /\ Grows
      /\ \A m \in Picture!Items : rows[m] \subseteq rows'[m]
  BY <1>1, <1>2, <1>4, LeafFacts, PutGrows, SameRowsGrow DEF ArtInv
<1>6. frame' \in [Picture!Items -> Nat]
  BY <1>1, <1>2, LeafFacts
<1>7. aJob'[l] = j => LeafInv(l)'
  BY <1>1, <1>3, LeafFacts DEF LeafInv
<1>8. ArtInv'
  BY <1>1, <1>3, <1>5, <1>6, <1>7, LeafFacts, JobMoves
<1> QED  BY <1>5, <1>8

LEMMA SucceedStep ==
  ASSUME ArtInv, NEW l \in Leaves, Picture!Succeed(l)
  PROVE  ArtInv'
<1>1. /\ fails' = [fails EXCEPT ![l] = 0] /\ failed' = [failed EXCEPT ![l] = 0]
      /\ Picture!Enter(l, Picture!Idle) /\ Picture!Rest
      /\ UNCHANGED <<rows, frame, aFlagged, aSpent>>
  BY DEF Picture!Succeed, Picture!ClearFails
<1>2. /\ fails' \in [Leaves -> Nat] /\ failed' \in [Leaves -> Nat]
      /\ \A m \in Leaves : m # l => fails'[m] = fails[m] /\ failed'[m] = failed[m]
      /\ fails'[l] <= failed'[l]
  BY <1>1, LeafFacts
<1> QED  BY <1>1, <1>2, IdleIs, LeafFacts, QuietMoves

LEMMA AgainIs ==
  ASSUME ArtInv, NEW l \in Leaves
  PROVE  Picture!Again(l) \in Errands /\ Picture!Again(l).pc \in {"queued", "none"}
<1>1. CASE aJob[l].tries + 1 < Threshold
  <2> DEFINE n == aJob[l].tries + 1
  <2>1. n \in Nat
    BY LeafFacts
  <2>2. Picture!Again(l) = [Picture!Idle EXCEPT !.pc = "queued", !.tries = n]
    BY <1>1 DEF Picture!Again
  <2> HIDE DEF n
  <2> QED  BY <2>1, <2>2, IdleIs DEF Errands
<1>2. CASE ~(aJob[l].tries + 1 < Threshold)
  BY <1>2, IdleIs DEF Picture!Again
<1> QED  BY <1>1, <1>2

LEMMA TransientStep ==
  ASSUME ArtInv, NEW l \in Leaves, Picture!Transient(l)
  PROVE  ArtInv' /\ \A m \in aFlagged' \ aFlagged : failed[m] >= Threshold
<1> DEFINE j == Picture!Again(l)
<1>1. /\ Picture!Trouble /\ Picture!Enter(l, j) /\ Picture!Rest
      /\ UNCHANGED <<rows, frame, failed>>
      /\ fails' = [fails EXCEPT ![l] = fails[l]]
      /\ aFlagged' = IF fails[l] >= Threshold THEN aFlagged \cup {l} ELSE aFlagged
  BY DEF Picture!Transient, Picture!CountTransient
<1>2. fails' = fails
  BY <1>1, LeafFacts
<1>3. j \in Errands /\ j.pc \in {"queued", "none"}
  BY AgainIs
<1> HIDE DEF j
<1>4. aFlagged' \subseteq Leaves
  BY <1>1, LeafFacts
<1>5. ArtInv'
  <2>1. aSpent' \in 0..MaxTroubles
    BY <1>1, TroubleIs
  <2> QED  BY <1>1, <1>2, <1>3, <1>4, <2>1, LeafFacts, QuietMoves
<1>6. \A m \in aFlagged' \ aFlagged : failed[m] >= Threshold
  BY <1>1, LeafFacts, ArtFacts
<1> QED  BY <1>5, <1>6

LEMMA FailStep ==
  ASSUME ArtInv, NEW l \in Leaves, Picture!Fail(l)
  PROVE  ArtInv' /\ aFlagged' = aFlagged
<1> DEFINE j == IF fails[l] + 1 >= Threshold THEN [aJob[l] EXCEPT !.pc = "flag"]
                ELSE Picture!Again(l)
<1>1. /\ Picture!Trouble \/ aSpent' = aSpent
      /\ Picture!Enter(l, j) /\ Picture!Rest
      /\ UNCHANGED <<rows, frame, aFlagged>>
      /\ fails' = [fails EXCEPT ![l] = @ + 1] /\ failed' = [failed EXCEPT ![l] = @ + 1]
  BY DEF Picture!Fail, Picture!Broken
<1>2. /\ fails' \in [Leaves -> Nat] /\ failed' \in [Leaves -> Nat]
      /\ \A m \in Leaves : m # l => fails'[m] = fails[m] /\ failed'[m] = failed[m]
      /\ fails'[l] = fails[l] + 1 /\ failed'[l] = failed[l] + 1
  BY <1>1, LeafFacts
<1>3. /\ j \in Errands /\ j.pc \in {"queued", "none", "flag"}
      /\ j.pc = "flag" => fails[l] + 1 >= Threshold
  <2>1. [aJob[l] EXCEPT !.pc = "flag"] \in Errands /\ [aJob[l] EXCEPT !.pc = "flag"].pc = "flag"
    BY LeafFacts DEF Errands
  <2> QED  BY <2>1, AgainIs
<1> HIDE DEF j
<1>4. fails'[l] <= failed'[l] /\ (j.pc = "flag" => failed'[l] >= Threshold)
  BY <1>2, <1>3, LeafFacts, ArtFacts
<1>5. aSpent' \in 0..MaxTroubles
  BY <1>1, LeafFacts, TroubleIs
<1>6. aFlagged' \subseteq Leaves
  BY <1>1, LeafFacts
<1> QED  BY <1>1, <1>2, <1>3, <1>4, <1>5, <1>6, QuietMoves

LEMMA FlagStep ==
  ASSUME ArtInv, NEW l \in Leaves, Picture!Flag(l)
  PROVE  ArtInv' /\ \A m \in aFlagged' \ aFlagged : failed[m] >= Threshold
<1>1. /\ aJob[l].pc = "flag" /\ aFlagged' = aFlagged \cup {l}
      /\ Picture!Enter(l, Picture!Idle) /\ Picture!Rest
      /\ UNCHANGED <<rows, frame, fails, aSpent, failed>>
  BY DEF Picture!Flag, Picture!At
<1>2. ArtInv'
  BY <1>1, IdleIs, LeafFacts, QuietMoves
<1>3. \A m \in aFlagged' \ aFlagged : failed[m] >= Threshold
  BY <1>1, LeafFacts DEF LeafInv
<1> QED  BY <1>2, <1>3

(* A step of one item's match. *)
LEMMA FetchMoves ==
  ASSUME ArtInv, NEW i \in DOMAIN Offers, NEW f \in Fetches,
         fetch' = [fetch EXCEPT ![i] = f],
         rows' \in [Picture!Items -> SUBSET Entries], Grows, frame' = frame,
         aSpent' \in 0..MaxTroubles, fetch'[i] = f => FetchInv(i)', Picture!FetchRest
  PROVE  ArtInv'
<1>1. /\ fetch' \in [DOMAIN Offers -> Fetches] /\ fetch'[i] = f
      /\ \A j \in DOMAIN Offers : j # i => fetch'[j] = fetch[j]
  BY DEF ArtInv, ArtTypes
<1>2. UNCHANGED <<files, side, aJob, fails, aFlagged, failed, heavy>>
  BY DEF Picture!FetchRest, Picture!poison
<1>3. ArtTypes'
  BY <1>1, <1>2 DEF ArtInv, ArtTypes
<1>4. ASSUME NEW l \in Leaves PROVE LeafInv(l)'
  BY <1>2, LeafKeeps
<1>5. ASSUME NEW j \in DOMAIN Offers PROVE FetchInv(j)'
  BY <1>1, FetchKeeps
<1> QED  BY <1>3, <1>4, <1>5 DEF ArtInv

LEMMA FetchFacts ==
  ASSUME ArtInv, NEW i \in DOMAIN Offers
  PROVE  /\ fetch[i] \in Fetches /\ FetchInv(i) /\ i \in Picture!Items
         /\ fetch[i].list \in Seq(Picture!Kinds)
         /\ fetch[i].list # <<>> => Head(fetch[i].list) \in Picture!Kinds
                                    /\ Tail(fetch[i].list) \in Seq(Picture!Kinds)
         /\ rows \in [Picture!Items -> SUBSET Entries] /\ frame \in [Picture!Items -> Nat]
         /\ aSpent \in 0..MaxTroubles
         /\ "PROVIDER" \in Picture!Sources
<1>1. fetch[i] \in Fetches
  BY DEF ArtInv, ArtTypes
<1>2. fetch[i].list \in Seq(Picture!Kinds)
  BY <1>1 DEF Fetches
<1> QED  BY <1>1, <1>2, HeadIs, ArtFacts DEF ArtInv, ArtTypes, Picture!Sources

LEMMA NextIs ==
  ASSUME ArtInv, NEW i \in DOMAIN Offers, fetch[i].list # <<>>
  PROVE  /\ Picture!Next1(fetch[i]) \in Fetches
         /\ Picture!Next1(fetch[i]).pc # "clean"
         /\ Picture!Next1(fetch[i]).pc # "none" => Picture!Next1(fetch[i]).list # <<>>
<1> DEFINE s == fetch[i].list
           t == Tail(s)
<1>1. s \in Seq(Picture!Kinds) /\ t \in Seq(Picture!Kinds) /\ Len(t) = Len(s) - 1 /\ Len(s) \in Nat
      /\ Len(s) # 0
  BY FetchFacts, HeadTailProperties, EmptySeq
<1>2. CASE Len(s) = 1
  BY <1>2 DEF Picture!Next1, Picture!Nothing, Fetches
<1>3. CASE Len(s) # 1
  <2>1. t # <<>>
    <3>1. Len(t) # 0
      BY <1>1, <1>3
    <3>2. Len(<<>>) = 0
      OBVIOUS
    <3> HIDE DEF t
    <3> QED  BY <3>1, <3>2
  <2>2. Picture!Next1(fetch[i]) = [pc |-> "put", list |-> t]
    BY <1>3 DEF Picture!Next1
  <2> HIDE DEF s, t
  <2> QED  BY <1>1, <2>1, <2>2 DEF Fetches
<1> QED  BY <1>2, <1>3

LEMMA MatchStep ==
  ASSUME ArtInv, NEW i \in DOMAIN Offers, Picture!Match(i)
  PROVE  ArtInv'
<1> DEFINE f == [pc |-> "put", list |-> Offers[i]]
<1>1. fetch' = [fetch EXCEPT ![i] = f] /\ Picture!FetchRest /\ UNCHANGED <<rows, frame, aSpent>>
  BY DEF Picture!Match
<1>2. f \in Fetches /\ f.pc = "put" /\ f.list # <<>>
  BY ArtFacts DEF Fetches
<1> HIDE DEF f
<1>3. fetch'[i] = f => FetchInv(i)'
  BY <1>2 DEF FetchInv
<1> QED  BY <1>1, <1>2, <1>3, SameRowsGrow, FetchFacts, FetchMoves

LEMMA FetchPutStep ==
  ASSUME ArtInv, NEW i \in DOMAIN Offers, Picture!FetchPut(i)
  PROVE  ArtInv' /\ \A m \in Picture!Items : rows[m] \subseteq rows'[m]
<1> DEFINE k == Head(fetch[i].list)
           f == [fetch[i] EXCEPT !.pc = "clean"]
<1>1. /\ fetch[i].pc = "put" /\ Picture!Put(i, k, "PROVIDER")
      /\ fetch' = [fetch EXCEPT ![i] = f] /\ Picture!FetchRest /\ UNCHANGED <<frame, aSpent>>
  <2>1. fetch \in [DOMAIN Offers -> Fetches]
    BY DEF ArtInv, ArtTypes
  <2>2. fetch' = [fetch EXCEPT ![i].pc = "clean"]
    BY DEF Picture!FetchPut
  <2>3. fetch' = [fetch EXCEPT ![i] = f]
    BY <2>1, <2>2
  <2> QED  BY <2>3 DEF Picture!FetchPut
<1>2. fetch[i].list # <<>> /\ k \in Picture!Kinds
  BY <1>1, FetchFacts DEF FetchInv
<1>3. f \in Fetches /\ f.pc = "clean" /\ f.list = fetch[i].list
  BY FetchFacts DEF Fetches
<1> HIDE DEF f
<1>4. /\ rows' \in [Picture!Items -> SUBSET Entries] /\ Grows
      /\ Backed(rows'[i], k, Picture!Rank("PROVIDER"))
      /\ \A m \in Picture!Items : rows[m] \subseteq rows'[m]
  <2>1. ArtTypes /\ i \in Picture!Items /\ "PROVIDER" \in Picture!Sources
    BY FetchFacts DEF ArtInv
  <2> HIDE DEF k
  <2> QED  BY <1>1, <1>2, <2>1, PutGrows
<1>5. fetch'[i] = f => FetchInv(i)'
  BY <1>2, <1>3, <1>4 DEF FetchInv, Backed
<1>6. ArtInv'
  BY <1>1, <1>3, <1>4, <1>5, FetchFacts, FetchMoves
<1> QED  BY <1>4, <1>6

LEMMA FetchFailsStep ==
  ASSUME ArtInv, NEW i \in DOMAIN Offers, Picture!FetchFails(i)
  PROVE  ArtInv'
<1> DEFINE f == Picture!Next1(fetch[i])
<1>1. /\ fetch[i].pc = "put" /\ Picture!Trouble /\ fetch' = [fetch EXCEPT ![i] = f]
      /\ Picture!FetchRest /\ UNCHANGED <<rows, frame>>
  BY DEF Picture!FetchFails
<1>2. f \in Fetches /\ f.pc # "clean" /\ (f.pc # "none" => f.list # <<>>)
  BY <1>1, FetchFacts, NextIs DEF FetchInv
<1> HIDE DEF f
<1>3. fetch'[i] = f => FetchInv(i)'
  BY <1>2 DEF FetchInv
<1>4. aSpent' \in 0..MaxTroubles
  BY <1>1, TroubleIs
<1> QED  BY <1>1, <1>2, <1>3, <1>4, SameRowsGrow, FetchFacts, FetchMoves

LEMMA FetchCleanStep ==
  ASSUME ArtInv, NEW i \in DOMAIN Offers, Picture!FetchClean(i)
  PROVE  /\ ArtInv'
         /\ \A m \in Picture!Items : \A r \in rows[m] \ rows'[m] :
              \E b \in rows'[m] : b[1] = r[1] /\ Picture!Rank(b[2]) < Picture!Rank(r[2])
<1> DEFINE k == Head(fetch[i].list)
           f == Picture!Next1(fetch[i])
<1>1. /\ fetch[i].pc = "clean" /\ Picture!CleanUp(i, k, "PROVIDER")
      /\ fetch' = [fetch EXCEPT ![i] = f]
      /\ Picture!FetchRest /\ UNCHANGED <<frame, aSpent>>
  BY DEF Picture!FetchClean
<1>2. fetch[i].list # <<>> /\ k \in Picture!Kinds /\ Backed(rows[i], k, Picture!Rank("PROVIDER"))
  BY <1>1, FetchFacts DEF FetchInv
<1>3. f \in Fetches /\ f.pc # "clean" /\ (f.pc # "none" => f.list # <<>>)
  BY <1>2, NextIs
<1> HIDE DEF f, k
<1>4. /\ rows' \in [Picture!Items -> SUBSET Entries] /\ Grows
      /\ \A m \in Picture!Items : \A r \in rows[m] \ rows'[m] :
           \E b \in rows'[m] : b[1] = r[1] /\ Picture!Rank(b[2]) < Picture!Rank(r[2])
  BY <1>1, <1>2, FetchFacts, CleanGrows DEF ArtInv
<1>5. fetch'[i] = f => FetchInv(i)'
  BY <1>3 DEF FetchInv
<1>6. ArtInv'
  BY <1>1, <1>3, <1>4, <1>5, FetchFacts, FetchMoves
<1> QED  BY <1>4, <1>6

-----------------------------------------------------------------------------
LEMMA InitArt == Picture!Init => ArtInv
<1> SUFFICES ASSUME Picture!Init PROVE ArtInv
  OBVIOUS
<1>1. <<>> \in Seq(Picture!Kinds)
  OBVIOUS
<1>2. Picture!Nothing \in Fetches
  BY <1>1 DEF Picture!Nothing, Fetches
<1>3. ArtTypes
  BY <1>2, IdleIs, ArtFacts DEF Picture!Init, ArtTypes
<1>4. \A l \in Leaves : LeafInv(l)
  BY IdleIs DEF Picture!Init, LeafInv
<1>5. \A i \in DOMAIN Offers : FetchInv(i)
  BY DEF Picture!Init, FetchInv, Picture!Nothing
<1> QED  BY <1>3, <1>4, <1>5 DEF ArtInv

ReplacedWell == \A i \in Picture!Items : \A r \in rows[i] \ rows'[i] :
                  \E b \in rows'[i] : b[1] = r[1] /\ Picture!Rank(b[2]) < Picture!Rank(r[2])
ParkedWell == \A l \in aFlagged' \ aFlagged : failed[l] >= Threshold

(* Each step keeps the invariant, what it replaces and whom it parks right. *)
LEMMA ArtStep ==
  ASSUME ArtInv, Picture!Next
  PROVE  ArtInv' /\ ReplacedWell /\ ParkedWell
<1> USE DEF ReplacedWell, ParkedWell
<1>1. CASE \/ \E l \in Leaves : \/ Picture!Scan(l) \/ Picture!Reconcile(l)
                                \/ \E k \in Picture!Kinds : Picture!AddSidecar(l, k)
           \/ Picture!HeavyScan \/ Picture!Forget \/ Picture!Unflag
  <2>1. rows' = rows /\ aFlagged' \subseteq aFlagged
    BY <1>1 DEF Picture!Scan, Picture!Reconcile, Picture!AddSidecar, Picture!HeavyScan,
                Picture!Forget, Picture!Unflag, Picture!poison
  <2> QED  BY <1>1, <2>1, QueueStep
<1>2. ASSUME NEW l \in Leaves,
             \/ Picture!Recheck(l) \/ Picture!Resolve(l) \/ Picture!PutFails(l)
             \/ Picture!LookUp(l) \/ Picture!Succeed(l)
      PROVE  ArtInv' /\ ReplacedWell /\ ParkedWell
  <2>1. rows' = rows /\ aFlagged' = aFlagged
    BY <1>2 DEF Picture!Recheck, Picture!Resolve, Picture!PutFails, Picture!LookUp,
                Picture!Succeed, Picture!poison
  <2>2. ArtInv'
    BY <1>2, RecheckStep, ResolveStep, PutFailsStep, LookUpStep, SucceedStep
  <2> QED  BY <2>1, <2>2
<1>3. ASSUME NEW l \in Leaves, Picture!PutNext(l) \/ Picture!Lend(l)
      PROVE  ArtInv' /\ ReplacedWell /\ ParkedWell
  <2>1. aFlagged' = aFlagged
    BY <1>3 DEF Picture!PutNext, Picture!Lend, Picture!poison
  <2>2. ArtInv' /\ \A i \in Picture!Items : rows[i] \subseteq rows'[i]
    BY <1>3, PutNextStep, LendStep
  <2> QED  BY <2>1, <2>2
<1>4. ASSUME NEW l \in Leaves, Picture!CleanNext(l)
      PROVE  ArtInv' /\ ReplacedWell /\ ParkedWell
  <2>1. aFlagged' = aFlagged
    BY <1>4 DEF Picture!CleanNext, Picture!poison
  <2> QED  BY <1>4, <2>1, CleanNextStep
<1>5. ASSUME NEW l \in Leaves, Picture!Transient(l) \/ Picture!Fail(l) \/ Picture!Flag(l)
      PROVE  ArtInv' /\ ReplacedWell /\ ParkedWell
  <2>1. rows' = rows
    BY <1>5 DEF Picture!Transient, Picture!Fail, Picture!Flag
  <2>2. ArtInv' /\ ParkedWell
    BY <1>5, TransientStep, FailStep, FlagStep
  <2> QED  BY <2>1, <2>2
<1>6. ASSUME NEW i \in DOMAIN Offers,
             \/ Picture!Match(i) \/ Picture!FetchPut(i) \/ Picture!FetchFails(i)
             \/ Picture!FetchClean(i)
      PROVE  ArtInv' /\ ReplacedWell /\ ParkedWell
  <2>1. aFlagged' = aFlagged
    BY <1>6 DEF Picture!Match, Picture!FetchPut, Picture!FetchFails, Picture!FetchClean,
                Picture!FetchRest, Picture!poison
  <2>2. CASE Picture!Match(i) \/ Picture!FetchFails(i)
    <3>1. rows' = rows
      BY <2>2 DEF Picture!Match, Picture!FetchFails
    <3> QED  BY <2>1, <2>2, <3>1, MatchStep, FetchFailsStep
  <2>3. CASE Picture!FetchPut(i)
    BY <2>1, <2>3, FetchPutStep
  <2>4. CASE Picture!FetchClean(i)
    BY <2>1, <2>4, FetchCleanStep
  <2> QED  BY <1>6, <2>2, <2>3, <2>4
<1> QED
  <2> HIDE DEF ReplacedWell, ParkedWell
  <2> QED  BY <1>1, <1>2, <1>3, <1>4, <1>5, <1>6 DEF Picture!Next

LEMMA ArtIdle ==
  ASSUME UNCHANGED Picture!vars
  PROVE  ArtInv => ArtInv'
  BY DEF Picture!vars, ArtInv, ArtTypes, LeafInv, FetchInv, Backed

-----------------------------------------------------------------------------
(* The previews of Trickplay. *)
Hands == [pc : {"done", "idle", "seek", "open", "black", "copy"}, at : 0..Tiles,
          shows : 0..MaxVersions, here : BOOLEAN]
Crews == [Sheet!Workers -> Hands]
Attempts == [next : 1..Tiles + 1, black : BOOLEAN,
             failed : {"no", "killed", "broken", "silent"}, crew : Crews]
Passes == [pc : {"none", "queued", "tiles", "save"}, hash : 0..MaxVersions,
           team : Teams \cup {0}, tries : Nat, stray : BOOLEAN]
Voids == {Sheet!Missing, Sheet!Torn, Sheet!Black}
Grids == [Sheet!Grid -> Sheet!Pictures]
Laid == [pictures : Grids, stray : BOOLEAN]

SheetTypes ==
  /\ tDisk \in Sheet!Versions /\ hash \in Sheet!Versions /\ tRow \in 0..MaxVersions
  /\ tile \in Grids /\ black \in Voids /\ sheet \in Laid
  /\ tJob \in Passes /\ team \in [Teams -> Attempts]
  /\ poison \in [attempts : Nat, benign : BOOLEAN] /\ tFlagged \in BOOLEAN
  /\ tSpent \in 0..MaxTroubles

(* A worker is at a tile, and seeks in a file that has been on disk. *)
HandInv(m, newest) ==
  /\ m.pc \in {"seek", "open", "black", "copy"} => m.at \in Sheet!Grid
  /\ m.pc = "seek" => m.shows \in 1..newest

(* A picture shows one of these versions, or none. *)
Shows(picture, oldest, newest) == picture \in Voids \cup (oldest..newest)

(* The hash of the row is never newer than the job's, nor that one than    *)
(* the file's; the job's own workers and its tiles show nothing older, but *)
(* for the leftovers of another attempt, and neither does its sheet.       *)
JobInv ==
  tJob.pc \in {"tiles", "save"} =>
    tJob.team \in Teams /\ tRow <= tJob.hash /\ tJob.hash <= hash /\ tJob.hash >= 1

TilesInv ==
  tJob.pc = "tiles" =>
    /\ \A w \in Sheet!Workers :
         team[tJob.team].crew[w].pc = "seek" => tJob.hash <= team[tJob.team].crew[w].shows
    /\ ~tJob.stray => \A i \in Sheet!Grid : Shows(tile[i], tJob.hash, tDisk)

Oldest == IF tJob.pc = "save" THEN tJob.hash ELSE tRow

PicturesInv ==
  ~sheet.stray => \A i \in Sheet!Grid : Shows(sheet.pictures[i], Oldest, tDisk)

SheetInv ==
  /\ SheetTypes
  /\ tRow <= hash /\ hash <= tDisk
  /\ \A t \in Teams, w \in Sheet!Workers : HandInv(team[t].crew[w], tDisk)
  /\ JobInv /\ TilesInv /\ PicturesInv

LEMMA SheetFacts ==
  /\ MaxVersions \in Nat /\ MaxVersions >= 1 /\ Tiles \in Nat /\ Tiles >= 1
  /\ Fanout \in Nat /\ Threshold \in Nat /\ MaxTroubles \in Nat
  /\ Sheet!Versions = 1..MaxVersions /\ Sheet!Grid = 1..Tiles
  /\ Sheet!Pictures = 0..(MaxVersions + 2)
  /\ Sheet!Missing = 0 /\ Sheet!Torn = MaxVersions + 1 /\ Sheet!Black = MaxVersions + 2
  BY RecordWorlds DEF Sheet!TrickplayAssumption, Sheet!Versions, Sheet!Grid, Sheet!Pictures,
                      Sheet!Missing, Sheet!Torn, Sheet!Black

LEMMA VoidsAre ==
  /\ Voids \subseteq Sheet!Pictures /\ 0..MaxVersions \subseteq Sheet!Pictures
  /\ Sheet!Missing \in Voids /\ Sheet!Torn \in Voids /\ Sheet!Black \in Voids
  BY SheetFacts DEF Voids

LEMMA HiddenWell ==
  ASSUME NEW p \in Voids, NEW a, NEW b
  PROVE  Shows(p, a, b)
  BY DEF Shows

LEMMA MoreShown ==
  ASSUME NEW p, NEW a \in Nat, NEW b \in Nat, NEW c \in Nat, NEW d \in Nat,
         c <= a, b <= d, Shows(p, a, b)
  PROVE  Shows(p, c, d)
  BY DEF Shows

LEMMA BlankIs ==
  /\ Sheet!NoSheet \in Laid
  /\ [i \in Sheet!Grid |-> Sheet!Missing] \in Grids
  /\ \A i \in Sheet!Grid : Sheet!NoSheet.pictures[i] \in Voids
  /\ Sheet!NoJob \in Passes /\ Sheet!NoJob.pc = "none"
  /\ [Sheet!NoJob EXCEPT !.pc = "queued"] \in Passes
  /\ [Sheet!NoJob EXCEPT !.pc = "queued"].pc = "queued"
  /\ Sheet!Done \in Hands /\ Sheet!Done.pc = "done"
  /\ [Sheet!Done EXCEPT !.pc = "idle"] \in Hands /\ [Sheet!Done EXCEPT !.pc = "idle"].pc = "idle"
<1>1. [i \in Sheet!Grid |-> Sheet!Missing] \in Grids
  BY VoidsAre DEF Grids
<1>2. Sheet!NoSheet \in Laid /\ \A i \in Sheet!Grid : Sheet!NoSheet.pictures[i] \in Voids
  BY <1>1, VoidsAre DEF Sheet!NoSheet, Laid
<1>3. 0 \in 0..MaxVersions /\ 0 \in Nat /\ 0 \in 0..Tiles
  BY SheetFacts
<1>4. Sheet!NoJob \in Passes /\ Sheet!NoJob.pc = "none"
      /\ [Sheet!NoJob EXCEPT !.pc = "queued"] \in Passes
      /\ [Sheet!NoJob EXCEPT !.pc = "queued"].pc = "queued"
  BY <1>3 DEF Sheet!NoJob, Passes
<1>5. Sheet!Done \in Hands /\ Sheet!Done.pc = "done"
      /\ [Sheet!Done EXCEPT !.pc = "idle"] \in Hands /\ [Sheet!Done EXCEPT !.pc = "idle"].pc = "idle"
  BY <1>3 DEF Sheet!Done, Hands
<1> QED  BY <1>1, <1>2, <1>4, <1>5

LEMMA NoTeamIs ==
  /\ Sheet!NoTeam \in Attempts
  /\ \A w \in Sheet!Workers : Sheet!NoTeam.crew[w] = Sheet!Done
<1> DEFINE c == [w \in Sheet!Workers |-> Sheet!Done]
<1>1. c \in Crews /\ \A w \in Sheet!Workers : c[w] = Sheet!Done
  BY BlankIs DEF Crews
<1>2. Tiles + 1 \in 1..Tiles + 1
  BY SheetFacts
<1>3. Sheet!NoTeam = [next |-> Tiles + 1, black |-> FALSE, failed |-> "no", crew |-> c]
  BY DEF Sheet!NoTeam
<1> HIDE DEF c
<1> QED  BY <1>1, <1>2, <1>3 DEF Attempts

LEMMA InitSheet == Sheet!Init => SheetInv
<1> SUFFICES ASSUME Sheet!Init PROVE SheetInv
  OBVIOUS
<1>1. tDisk = 1 /\ hash = 1 /\ tRow = 0 /\ sheet = Sheet!NoSheet /\ black = Sheet!Missing
      /\ tile = [i \in Sheet!Grid |-> Sheet!Missing] /\ tJob = Sheet!NoJob /\ tSpent = 0
      /\ team = [t \in Teams |-> Sheet!NoTeam]
  BY DEF Sheet!Init
<1>2. poison \in [attempts : Nat, benign : BOOLEAN] /\ tFlagged \in BOOLEAN
  BY SheetFacts DEF Sheet!Init, Sheet!Clean
<1>3. SheetTypes
  BY <1>1, <1>2, NoTeamIs, BlankIs, VoidsAre, SheetFacts DEF SheetTypes
<1>4. \A t \in Teams, w \in Sheet!Workers : HandInv(team[t].crew[w], tDisk)
  BY <1>1, NoTeamIs, BlankIs DEF HandInv
<1>5. JobInv /\ TilesInv
  BY <1>1, BlankIs DEF JobInv, TilesInv
<1>6. PicturesInv
  BY <1>1, BlankIs, HiddenWell DEF PicturesInv
<1> QED  BY <1>1, <1>3, <1>4, <1>5, <1>6 DEF SheetInv

LEMMA SheetKnown ==
  ASSUME SheetInv
  PROVE  /\ tDisk \in 1..MaxVersions /\ hash \in 1..MaxVersions /\ tRow \in 0..MaxVersions
         /\ tDisk \in Nat /\ hash \in Nat /\ tRow \in Nat /\ tJob.hash \in Nat
         /\ tRow <= hash /\ hash <= tDisk
         /\ tJob \in Passes /\ tile \in Grids /\ black \in Voids /\ sheet \in Laid
         /\ team \in [Teams -> Attempts] /\ tSpent \in 0..MaxTroubles
         /\ poison \in [attempts : Nat, benign : BOOLEAN] /\ poison.attempts \in Nat
         /\ tFlagged \in BOOLEAN
         /\ Oldest \in Nat
<1>1. /\ tDisk \in 1..MaxVersions /\ hash \in 1..MaxVersions /\ tRow \in 0..MaxVersions
      /\ tJob \in Passes
  BY SheetFacts DEF SheetInv, SheetTypes
<1>2. tDisk \in Nat /\ hash \in Nat /\ tRow \in Nat
  BY <1>1, SheetFacts
<1>3. tJob.hash \in Nat
  BY <1>1, SheetFacts DEF Passes
<1> QED  BY <1>1, <1>2, <1>3 DEF SheetInv, SheetTypes, Oldest

(* Steps beside the workers: the file, the rows and the queue. *)
LEMMA DeskMoves ==
  ASSUME SheetInv, UNCHANGED <<tRow, sheet, tile, black, team>>,
         tDisk' \in Sheet!Versions, hash' \in Sheet!Versions,
         tDisk <= tDisk', hash <= hash', hash' <= tDisk',
         \/ tJob' = tJob
         \/ tJob.pc # "save" /\ tJob' \in Passes /\ tJob'.pc \in {"none", "queued"},
         poison' \in [attempts : Nat, benign : BOOLEAN], tFlagged' \in BOOLEAN,
         tSpent' \in 0..MaxTroubles
  PROVE  SheetInv'
<1>1. tDisk' \in Nat /\ hash' \in Nat /\ hash \in Nat /\ tDisk \in Nat /\ tRow \in Nat
  BY SheetKnown, SheetFacts
<1>2. SheetTypes'
  BY SheetKnown DEF SheetInv, SheetTypes
<1>3. tRow' <= hash' /\ hash' <= tDisk'
  BY <1>1, SheetKnown
<1>4. ASSUME NEW t \in Teams, NEW w \in Sheet!Workers
      PROVE  HandInv(team'[t].crew[w], tDisk')
  <2>1. HandInv(team[t].crew[w], tDisk)
    BY DEF SheetInv
  <2> QED  BY <1>1, <2>1 DEF HandInv
<1>5. JobInv'
  <2>1. CASE tJob' = tJob
    <3>1. tJob.hash \in Nat
      BY SheetKnown
    <3> QED  BY <1>1, <2>1, <3>1 DEF SheetInv, JobInv
  <2>2. CASE tJob'.pc \in {"none", "queued"}
    BY <2>2 DEF JobInv
  <2> QED  BY <2>1, <2>2
<1>6. TilesInv'
  <2>1. CASE tJob' = tJob
    <3>1. ASSUME NEW i \in Sheet!Grid, Shows(tile[i], tJob.hash, tDisk)
          PROVE  Shows(tile[i], tJob.hash, tDisk')
      BY <1>1, <3>1, SheetKnown, MoreShown
    <3> QED  BY <2>1, <3>1 DEF SheetInv, TilesInv
  <2>2. CASE tJob'.pc \in {"none", "queued"}
    BY <2>2 DEF TilesInv
  <2> QED  BY <2>1, <2>2
<1>7. PicturesInv'
  <2>1. Oldest' = Oldest
    BY DEF Oldest
  <2>2. ASSUME NEW i \in Sheet!Grid, Shows(sheet.pictures[i], Oldest, tDisk)
        PROVE  Shows(sheet.pictures[i], Oldest, tDisk')
    BY <1>1, <2>2, SheetKnown, MoreShown
  <2> QED  BY <2>1, <2>2 DEF SheetInv, PicturesInv
<1> QED  BY <1>2, <1>3, <1>4, <1>5, <1>6, <1>7 DEF SheetInv

LEMMA DeskStep ==
  ASSUME SheetInv,
         Sheet!Replace \/ Sheet!Scan \/ Sheet!ClearFailures \/ Sheet!Unpoison \/ Sheet!Reconcile
  PROVE  SheetInv'
<1>1. Sheet!Clean \in [attempts : Nat, benign : BOOLEAN]
  BY DEF Sheet!Clean
<1>2. ASSUME NEW wanted, Sheet!Queued(wanted)
      PROVE  \/ tJob' = tJob
             \/ tJob.pc # "save" /\ tJob' \in Passes /\ tJob'.pc \in {"none", "queued"}
  BY <1>2, BlankIs DEF Sheet!Queued
<1>3. CASE Sheet!Replace
  <2>1. tDisk' = tDisk + 1 /\ tDisk < MaxVersions
        /\ UNCHANGED <<hash, tRow, sheet, tile, black, tJob, team, poison, tFlagged, tSpent>>
    BY <1>3 DEF Sheet!Replace, Sheet!dir, Sheet!state
  <2>2. tDisk' \in Sheet!Versions /\ tDisk <= tDisk' /\ hash <= tDisk' /\ hash \in Sheet!Versions
        /\ hash <= hash
    BY <2>1, SheetKnown, SheetFacts
  <2> QED  BY <2>1, <2>2, SheetKnown, DeskMoves
<1>4. CASE Sheet!Scan
  <2>1. hash' = tDisk /\ Sheet!Queued(tRow # tDisk)
        /\ UNCHANGED <<tDisk, tRow, sheet, tile, black, team, poison, tFlagged, tSpent>>
    BY <1>4 DEF Sheet!Scan, Sheet!dir, Sheet!state
  <2>2. tDisk \in Sheet!Versions /\ tDisk <= tDisk
    BY SheetKnown, SheetFacts
  <2> QED  BY <1>2, <2>1, <2>2, SheetKnown, DeskMoves
<1>5. CASE Sheet!ClearFailures \/ Sheet!Unpoison
  <2>1. poison' = Sheet!Clean /\ tFlagged' = FALSE
        /\ UNCHANGED <<tDisk, hash, tRow, sheet, tile, black, tJob, team, tSpent>>
    BY <1>5 DEF Sheet!ClearFailures, Sheet!Unpoison, Sheet!dir, Sheet!file
  <2>2. tDisk \in Sheet!Versions /\ hash \in Sheet!Versions /\ tDisk <= tDisk /\ hash <= hash
    BY SheetKnown, SheetFacts
  <2> QED  BY <1>1, <2>1, <2>2, SheetKnown, DeskMoves
<1>6. CASE Sheet!Reconcile
  <2>1. Sheet!Queued(~Sheet!UpToDate)
        /\ UNCHANGED <<tDisk, hash, tRow, sheet, tile, black, team, poison, tFlagged, tSpent>>
    BY <1>6 DEF Sheet!Reconcile, Sheet!dir, Sheet!file, Sheet!state
  <2>2. tDisk \in Sheet!Versions /\ hash \in Sheet!Versions /\ tDisk <= tDisk /\ hash <= hash
    BY SheetKnown, SheetFacts
  <2> QED  BY <1>2, <2>1, <2>2, SheetKnown, DeskMoves
<1> QED  BY <1>3, <1>4, <1>5, <1>6

(* A job begins: nothing is left of what was in the directory. *)
LEMMA BeginStep ==
  ASSUME SheetInv, NEW t \in Teams, Sheet!Begin(t)
  PROVE  SheetInv'
<1> DEFINE idle == [Sheet!Done EXCEPT !.pc = "idle"]
           mine == [w \in Sheet!Workers |-> idle]
           fresh == [Sheet!NoTeam EXCEPT !.next = 1, !.crew = mine]
           away(u) == [w \in Sheet!Workers |-> [team[u].crew[w] EXCEPT !.here = FALSE]]
           j == [tJob EXCEPT !.pc = "tiles", !.hash = hash, !.team = t, !.stray = FALSE]
<1>1. /\ tJob' = j /\ sheet' = Sheet!NoSheet
      /\ tile' = [i \in Sheet!Grid |-> Sheet!Missing] /\ black' = Sheet!Missing
      /\ team' = [u \in Teams |-> IF u = t THEN fresh ELSE [team[u] EXCEPT !.crew = away(u)]]
      /\ UNCHANGED <<tDisk, hash, tRow, poison, tFlagged, tSpent>>
  BY DEF Sheet!Begin, Sheet!file, Sheet!state
<1>2. mine \in Crews /\ \A w \in Sheet!Workers : mine[w].pc = "idle"
  BY BlankIs DEF Crews
<1>3. fresh \in Attempts /\ fresh.crew = mine
  <2>1. 1 \in 1..Tiles + 1
    BY SheetFacts
  <2>2. Sheet!NoTeam \in Attempts
    BY NoTeamIs
  <2> HIDE DEF mine
  <2> QED  BY <1>2, <2>1, <2>2 DEF Attempts
<1>4. ASSUME NEW u \in Teams
      PROVE  /\ [team[u] EXCEPT !.crew = away(u)] \in Attempts
             /\ [team[u] EXCEPT !.crew = away(u)].crew = away(u)
             /\ \A w \in Sheet!Workers : HandInv(away(u)[w], tDisk)
  <2>1. team[u] \in Attempts /\ team[u].crew \in Crews
    BY SheetKnown DEF Attempts
  <2>2. \A w \in Sheet!Workers : team[u].crew[w] \in Hands
    BY <2>1 DEF Crews
  <2>3. \A w \in Sheet!Workers : [team[u].crew[w] EXCEPT !.here = FALSE] \in Hands
    BY <2>2 DEF Hands
  <2>4. away(u) \in Crews
    BY <2>3 DEF Crews
  <2>5. ASSUME NEW w \in Sheet!Workers PROVE HandInv(away(u)[w], tDisk)
    <3>1. HandInv(team[u].crew[w], tDisk)
      BY DEF SheetInv
    <3>2. /\ away(u)[w].pc = team[u].crew[w].pc /\ away(u)[w].at = team[u].crew[w].at
          /\ away(u)[w].shows = team[u].crew[w].shows
      BY <2>2 DEF Hands
    <3> HIDE DEF away
    <3> QED  BY <3>1, <3>2 DEF HandInv
  <2> HIDE DEF away
  <2> QED  BY <2>1, <2>4, <2>5 DEF Attempts
<1>5. j \in Passes /\ j.pc = "tiles" /\ j.hash = hash /\ j.team = t /\ j.stray = FALSE
  <2>1. hash \in 0..MaxVersions /\ tJob \in Passes
    BY SheetKnown, SheetFacts
  <2> QED  BY <2>1 DEF Passes
<1> HIDE DEF j, fresh, away, mine, idle
<1>6. team' \in [Teams -> Attempts] /\ team'[t] = fresh
  BY <1>1, <1>3, <1>4
<1>7. SheetTypes'
  BY <1>1, <1>5, <1>6, BlankIs, VoidsAre, SheetKnown, SheetFacts DEF SheetTypes
<1>8. ASSUME NEW u \in Teams, NEW w \in Sheet!Workers
      PROVE  HandInv(team'[u].crew[w], tDisk')
  <2>1. CASE u = t
    <3>1. team'[u].crew[w].pc = "idle"
      BY <1>2, <1>3, <1>6, <2>1
    <3> QED  BY <3>1 DEF HandInv
  <2>2. CASE u # t
    <3>1. team'[u].crew = away(u)
      BY <1>1, <1>4, <2>2
    <3> QED  BY <1>1, <1>4, <3>1
  <2> QED  BY <2>1, <2>2
<1>9. JobInv'
  BY <1>1, <1>5, SheetKnown DEF JobInv
<1>10. TilesInv'
  <2>1. \A w \in Sheet!Workers : team'[t].crew[w].pc = "idle"
    BY <1>2, <1>3, <1>6
  <2>2. \A i \in Sheet!Grid : tile'[i] \in Voids
    BY <1>1, VoidsAre
  <2> QED  BY <1>1, <1>5, <2>1, <2>2, HiddenWell DEF TilesInv
<1>11. PicturesInv'
  BY <1>1, BlankIs, HiddenWell DEF PicturesInv
<1>12. tRow' <= hash' /\ hash' <= tDisk'
  BY <1>1, SheetKnown
<1> QED  BY <1>7, <1>8, <1>9, <1>10, <1>11, <1>12 DEF SheetInv

-----------------------------------------------------------------------------
LEMMA CrewIs ==
  ASSUME NEW c \in Crews, NEW w \in Sheet!Workers, NEW m \in Hands
  PROVE  /\ [c EXCEPT ![w] = m] \in Crews /\ [c EXCEPT ![w] = m][w] = m
         /\ \A v \in Sheet!Workers : v # w => [c EXCEPT ![w] = m][v] = c[v]
  BY DEF Crews

LEMMA StrayIs ==
  ASSUME SheetInv, NEW t \in Teams, tJob' = tJob \/ Sheet!Stray(t)
  PROVE  /\ tJob' \in Passes /\ tJob'.pc = tJob.pc /\ tJob'.hash = tJob.hash
         /\ tJob'.team = tJob.team
         /\ tJob.stray => tJob'.stray
         /\ Sheet!Stray(t) /\ tJob.pc = "tiles" /\ tJob.team # t => tJob'.stray
<1>1. tJob \in Passes /\ tJob.stray \in BOOLEAN
  BY SheetKnown DEF Passes
<1>2. CASE tJob' = tJob /\ ~Sheet!Stray(t)
  BY <1>1, <1>2
<1>3. CASE Sheet!Stray(t)
  <2> DEFINE b == tJob.stray \/ (tJob.pc = "tiles" /\ tJob.team # t)
  <2>1. tJob' = [tJob EXCEPT !.stray = b]
    BY <1>3 DEF Sheet!Stray
  <2>2. b \in BOOLEAN /\ (tJob.stray => b = TRUE)
        /\ (tJob.pc = "tiles" /\ tJob.team # t => b = TRUE)
    BY <1>1
  <2> HIDE DEF b
  <2>3. tJob' \in Passes /\ tJob'.pc = tJob.pc /\ tJob'.hash = tJob.hash
        /\ tJob'.team = tJob.team /\ tJob'.stray = b
    BY <1>1, <2>1, <2>2 DEF Passes
  <2> QED  BY <2>2, <2>3
<1> QED  BY <1>2, <1>3

(* A step of one worker: what it writes is a mark, or what it sought, and   *)
(* then the job knows whether it is one of its own.                        *)
LEMMA WorkerMoves ==
  ASSUME SheetInv, NEW t \in Teams, NEW w \in Sheet!Workers,
         team' \in [Teams -> Attempts], \A u \in Teams : u # t => team'[u] = team[u],
         \A v \in Sheet!Workers : v # w => team'[t].crew[v] = team[t].crew[v],
         HandInv(team'[t].crew[w], tDisk),
         team'[t].crew[w].pc = "seek" => team'[t].crew[w].shows = tDisk,
         tile' \in Grids, black' \in Voids, tSpent' \in 0..MaxTroubles,
         tJob' = tJob \/ Sheet!Stray(t), Sheet!WorkerStep,
         \A i \in Sheet!Grid :
           \/ tile'[i] = tile[i] \/ tile'[i] \in Voids
           \/ Sheet!Stray(t) /\ team[t].crew[w].pc = "seek" /\ tile'[i] = team[t].crew[w].shows
  PROVE  SheetInv'
<1>1. UNCHANGED <<tDisk, hash, tRow, sheet, poison, tFlagged>>
  BY DEF Sheet!WorkerStep, Sheet!file, Sheet!state
<1>2. /\ team' \in [Teams -> Attempts]
      /\ \A u \in Teams : u # t => team'[u] = team[u]
  OBVIOUS
<1>3. SheetTypes'
  BY <1>1, <1>2, StrayIs, SheetKnown DEF SheetInv, SheetTypes
<1>4. ASSUME NEW u \in Teams, NEW v \in Sheet!Workers
      PROVE  HandInv(team'[u].crew[v], tDisk')
  <2>1. HandInv(team[u].crew[v], tDisk)
    BY DEF SheetInv
  <2> QED  BY <1>1, <1>2, <2>1
<1>5. JobInv'
  BY <1>1, StrayIs DEF SheetInv, JobInv
<1>6. ASSUME tJob.pc = "tiles"
      PROVE  tJob.team \in Teams /\ tJob.hash <= tDisk /\ tJob.hash \in Nat /\ tDisk \in Nat
             /\ \A v \in Sheet!Workers : team[tJob.team].crew[v].pc = "seek" =>
                                          tJob.hash <= team[tJob.team].crew[v].shows
  BY <1>6, SheetKnown DEF SheetInv, JobInv, TilesInv
<1>7. ASSUME tJob.pc = "tiles", NEW v \in Sheet!Workers, team'[tJob.team].crew[v].pc = "seek"
      PROVE  tJob.hash <= team'[tJob.team].crew[v].shows
  <2>1. CASE tJob.team # t \/ v # w
    BY <1>2, <1>6, <1>7, <2>1
  <2>2. CASE tJob.team = t /\ v = w
    BY <1>2, <1>6, <1>7, <2>2
  <2> QED  BY <2>1, <2>2
<1>8. ASSUME tJob.pc = "tiles", ~tJob'.stray, NEW i \in Sheet!Grid
      PROVE  Shows(tile'[i], tJob.hash, tDisk)
  <2>1. ~tJob.stray /\ (Sheet!Stray(t) => tJob.team = t)
    BY <1>8, StrayIs
  <2>2. CASE tile'[i] = tile[i]
    BY <1>8, <2>1, <2>2 DEF SheetInv, TilesInv
  <2>3. CASE tile'[i] \in Voids
    BY <2>3, HiddenWell
  <2>4. CASE Sheet!Stray(t) /\ team[t].crew[w].pc = "seek" /\ tile'[i] = team[t].crew[w].shows
    <3>1. HandInv(team[t].crew[w], tDisk)
      BY DEF SheetInv
    <3>2. tile'[i] \in 1..tDisk /\ tJob.hash <= tile'[i]
      BY <1>6, <1>8, <2>1, <2>4, <3>1 DEF HandInv
    <3>3. tile'[i] \in tJob.hash..tDisk
      BY <1>6, <1>8, <3>2
    <3> QED  BY <3>3 DEF Shows
  <2> QED  BY <2>2, <2>3, <2>4
<1>9. TilesInv'
  BY <1>1, <1>7, <1>8, StrayIs DEF TilesInv
<1>10. PicturesInv'
  <2>1. Oldest' = Oldest
    BY <1>1, StrayIs DEF Oldest
  <2> QED  BY <1>1, <2>1 DEF SheetInv, PicturesInv
<1>11. tRow' <= hash' /\ hash' <= tDisk'
  BY <1>1, SheetKnown
<1> QED  BY <1>3, <1>4, <1>5, <1>9, <1>10, <1>11 DEF SheetInv

LEMMA HandKnown ==
  ASSUME SheetInv, NEW t \in Teams, NEW w \in Sheet!Workers
  PROVE  /\ team \in [Teams -> Attempts] /\ team[t] \in Attempts /\ team[t].crew \in Crews
         /\ team[t].crew[w] \in Hands /\ HandInv(team[t].crew[w], tDisk)
         /\ team[t].next \in 1..Tiles + 1 /\ team[t].black \in BOOLEAN
         /\ team[t].failed \in {"no", "killed", "broken", "silent"}
  BY SheetKnown DEF SheetInv, Attempts, Crews

(* An attempt, one field of it set anew. *)
LEMMA Refit ==
  ASSUME NEW a \in Attempts, NEW v
  PROVE  /\ [a EXCEPT !.next = v]
              = [next |-> v, black |-> a.black, failed |-> a.failed, crew |-> a.crew]
         /\ [a EXCEPT !.black = v]
              = [next |-> a.next, black |-> v, failed |-> a.failed, crew |-> a.crew]
         /\ [a EXCEPT !.failed = v]
              = [next |-> a.next, black |-> a.black, failed |-> v, crew |-> a.crew]
  BY DEF Attempts

(* First one field of an attempt, then its crew. *)
LEMMA Twice ==
  ASSUME NEW T \in [Teams -> Attempts], NEW t \in Teams, NEW y, NEW z
  PROVE  /\ [T EXCEPT ![t] = y][t] = y
         /\ [[T EXCEPT ![t] = y] EXCEPT ![t] = z] = [T EXCEPT ![t] = z]
  OBVIOUS

LEMMA Works ==
  ASSUME SheetInv, NEW t \in Teams, NEW w \in Sheet!Workers, NEW m \in Hands,
         NEW n \in 1..Tiles + 1, NEW b \in BOOLEAN,
         NEW f \in {"no", "killed", "broken", "silent"},
         HandInv(m, tDisk), m.pc = "seek" => m.shows = tDisk,
         team' = [team EXCEPT ![t] = [next |-> n, black |-> b, failed |-> f,
                                      crew |-> [team[t].crew EXCEPT ![w] = m]]],
         tile' \in Grids, black' \in Voids, tSpent' \in 0..MaxTroubles,
         tJob' = tJob \/ Sheet!Stray(t), Sheet!WorkerStep,
         \A i \in Sheet!Grid :
           \/ tile'[i] = tile[i] \/ tile'[i] \in Voids
           \/ Sheet!Stray(t) /\ team[t].crew[w].pc = "seek" /\ tile'[i] = team[t].crew[w].shows
  PROVE  SheetInv'
<1> DEFINE x == [next |-> n, black |-> b, failed |-> f, crew |-> [team[t].crew EXCEPT ![w] = m]]
<1> DEFINE c == [team[t].crew EXCEPT ![w] = m]
<1>1. /\ x \in Attempts /\ x.crew[w] = m
      /\ \A v \in Sheet!Workers : v # w => x.crew[v] = team[t].crew[v]
  <2>1. c \in Crews /\ c[w] = m /\ \A v \in Sheet!Workers : v # w => c[v] = team[t].crew[v]
    BY HandKnown, CrewIs
  <2>2. x = [next |-> n, black |-> b, failed |-> f, crew |-> c]
    OBVIOUS
  <2> HIDE DEF c, x
  <2>3. x \in Attempts /\ x.crew = c
    BY <2>1, <2>2 DEF Attempts
  <2> QED  BY <2>1, <2>3
<1>2. team' = [team EXCEPT ![t] = x]
  OBVIOUS
<1> HIDE DEF x
<1>3. /\ team' \in [Teams -> Attempts] /\ team'[t] = x
      /\ \A u \in Teams : u # t => team'[u] = team[u]
  BY <1>1, <1>2, HandKnown
<1>4. /\ \A v \in Sheet!Workers : v # w => team'[t].crew[v] = team[t].crew[v]
      /\ HandInv(team'[t].crew[w], tDisk)
      /\ team'[t].crew[w].pc = "seek" => team'[t].crew[w].shows = tDisk
  BY <1>1, <1>3
<1> QED  BY <1>3, <1>4, WorkerMoves

LEMMA Seeking ==
  ASSUME SheetInv, NEW i \in Sheet!Grid
  PROVE  LET m == [pc |-> "seek", at |-> i, shows |-> tDisk, here |-> TRUE]
         IN  m \in Hands /\ HandInv(m, tDisk) /\ m.shows = tDisk
<1>1. tDisk \in 0..MaxVersions /\ tDisk \in 1..tDisk /\ i \in 0..Tiles
  BY SheetKnown, SheetFacts
<1> QED  BY <1>1 DEF Hands, HandInv

LEMMA PullStep ==
  ASSUME SheetInv, NEW t \in Teams, NEW w \in Sheet!Workers, Sheet!Pull(t, w)
  PROVE  SheetInv'
<1> DEFINE i == team[t].next
           m == [pc |-> "seek", at |-> i, shows |-> tDisk, here |-> TRUE]
<1>1. team[t].next <= Tiles /\ Sheet!Stray(t) /\ UNCHANGED <<black, tSpent>> /\ Sheet!WorkerStep
  BY DEF Sheet!Pull
<1>2. i \in Sheet!Grid /\ i + 1 \in 1..Tiles + 1
  BY <1>1, HandKnown, SheetFacts
<1>3. m \in Hands /\ HandInv(m, tDisk) /\ m.shows = tDisk
  BY <1>2, Seeking
<1>4. tile' = [tile EXCEPT ![i] = IF i <= Ends THEN Sheet!Torn ELSE tile[i]]
  BY DEF Sheet!Pull
<1>5. tile' \in Grids /\ \A k \in Sheet!Grid : tile'[k] = tile[k] \/ tile'[k] \in Voids
  <2>1. tile \in Grids /\ Sheet!Torn \in Sheet!Pictures
    BY SheetKnown, VoidsAre
  <2> QED  BY <1>2, <1>4, <2>1, VoidsAre DEF Grids
<1>6. team' = [team EXCEPT ![t].next = i + 1, ![t].crew[w] = m]
  BY DEF Sheet!Pull
<1>7. team' = [team EXCEPT ![t] = [next |-> i + 1, black |-> team[t].black,
                                   failed |-> team[t].failed,
                                   crew |-> [team[t].crew EXCEPT ![w] = m]]]
  <2> HIDE DEF m, i
  <2> DEFINE y == [team[t] EXCEPT !.next = i + 1]
             T == [team EXCEPT ![t] = y]
             c == [team[t].crew EXCEPT ![w] = m]
  <2>1. team' = [T EXCEPT ![t] = [T[t] EXCEPT !.crew = [T[t].crew EXCEPT ![w] = m]]]
    BY <1>6
  <2>2. T[t] = y /\ \A z : [T EXCEPT ![t] = z] = [team EXCEPT ![t] = z]
    BY HandKnown, Twice
  <2>3. y = [next |-> i + 1, black |-> team[t].black, failed |-> team[t].failed,
             crew |-> team[t].crew]
    BY HandKnown, Refit
  <2> HIDE DEF y, T
  <2>4. y.crew = team[t].crew /\ y \in Attempts
    BY <1>2, <2>3, HandKnown DEF Attempts
  <2>5. [y EXCEPT !.crew = c] = [next |-> i + 1, black |-> team[t].black,
                                 failed |-> team[t].failed, crew |-> c]
    <3> HIDE DEF c
    <3> QED  BY <2>3
  <2>6. team' = [team EXCEPT ![t] = [y EXCEPT !.crew = c]]
    BY <2>1, <2>2, <2>4
  <2> QED  BY <2>5, <2>6
<1> HIDE DEF m, i
<1> QED  BY <1>1, <1>2, <1>3, <1>5, <1>7, HandKnown, SheetKnown, Works

(* The steps that leave everything of the attempt but this worker. *)
LEMMA Moved ==
  ASSUME SheetInv, NEW t \in Teams, NEW w \in Sheet!Workers, NEW m \in Hands, Sheet!Move(t, w, m)
  PROVE  team' = [team EXCEPT ![t] = [next |-> team[t].next, black |-> team[t].black,
                                      failed |-> team[t].failed,
                                      crew |-> [team[t].crew EXCEPT ![w] = m]]]
<1> DEFINE c == [team[t].crew EXCEPT ![w] = m]
<1>1. team' = [team EXCEPT ![t] = [team[t] EXCEPT !.crew = c]]
  BY DEF Sheet!Move
<1> HIDE DEF c
<1>2. [team[t] EXCEPT !.crew = c] = [next |-> team[t].next, black |-> team[t].black,
                                     failed |-> team[t].failed, crew |-> c]
  BY HandKnown DEF Attempts
<1> QED  BY <1>1, <1>2 DEF c

LEMMA WorksAlone ==
  ASSUME SheetInv, NEW t \in Teams, NEW w \in Sheet!Workers, NEW m \in Hands,
         HandInv(m, tDisk), m.pc # "seek", Sheet!Move(t, w, m),
         tile' \in Grids, black' \in Voids, tSpent' = tSpent,
         tJob' = tJob \/ Sheet!Stray(t), Sheet!WorkerStep,
         \A i \in Sheet!Grid :
           \/ tile'[i] = tile[i] \/ tile'[i] \in Voids
           \/ Sheet!Stray(t) /\ team[t].crew[w].pc = "seek" /\ tile'[i] = team[t].crew[w].shows
  PROVE  SheetInv'
  BY HandKnown, SheetKnown, Moved, Works

LEMMA AtRest ==
  /\ Sheet!Done \in Hands /\ [Sheet!Done EXCEPT !.pc = "idle"] \in Hands
  /\ Sheet!Done.pc = "done" /\ [Sheet!Done EXCEPT !.pc = "idle"].pc = "idle"
  /\ \A n : HandInv(Sheet!Done, n) /\ HandInv([Sheet!Done EXCEPT !.pc = "idle"], n)
  BY BlankIs DEF HandInv

LEMMA LeaveStep ==
  ASSUME SheetInv, NEW t \in Teams, NEW w \in Sheet!Workers, Sheet!Leave(t, w)
  PROVE  SheetInv'
<1>1. Sheet!Move(t, w, Sheet!Done) /\ UNCHANGED <<tile, black, tJob, tSpent>> /\ Sheet!WorkerStep
  BY DEF Sheet!Leave
<1> QED  BY <1>1, AtRest, SheetKnown, WorksAlone

LEMMA SoughtStep ==
  ASSUME SheetInv, NEW t \in Teams, NEW w \in Sheet!Workers, Sheet!Sought(t, w)
  PROVE  SheetInv'
<1>1. /\ team[t].crew[w].pc = "seek" /\ Sheet!Stray(t) /\ UNCHANGED <<black, tSpent>>
      /\ Sheet!WorkerStep /\ Sheet!Move(t, w, [Sheet!Done EXCEPT !.pc = "idle"])
      /\ tile' = IF team[t].crew[w].here
                 THEN [tile EXCEPT ![team[t].crew[w].at] = team[t].crew[w].shows] ELSE tile
  BY DEF Sheet!Sought, Sheet!At
<1>2. tile \in Grids /\ team[t].crew[w].at \in Sheet!Grid /\ team[t].crew[w].shows \in Sheet!Pictures
  <2>1. tile \in Grids /\ team[t].crew[w].at \in Sheet!Grid
    BY <1>1, SheetKnown, HandKnown DEF HandInv
  <2>2. team[t].crew[w].shows \in 0..MaxVersions
    BY HandKnown DEF Hands
  <2> QED  BY <2>1, <2>2, VoidsAre
<1>3. /\ tile' \in Grids
      /\ \A k \in Sheet!Grid : tile'[k] = tile[k] \/ tile'[k] = team[t].crew[w].shows
  BY <1>1, <1>2 DEF Grids
<1> DEFINE m == [Sheet!Done EXCEPT !.pc = "idle"]
<1>4. m \in Hands /\ m.pc # "seek" /\ HandInv(m, tDisk) /\ Sheet!Move(t, w, m)
  BY <1>1, AtRest
<1> HIDE DEF m
<1>5. \A i \in Sheet!Grid : Sheet!Stray(t) /\ team[t].crew[w].pc = "seek" /\
                            (tile'[i] = tile[i] \/ tile'[i] = team[t].crew[w].shows)
  BY <1>1, <1>3
<1>6. black' \in Voids /\ tSpent' = tSpent /\ Sheet!WorkerStep /\ Sheet!Stray(t)
  BY <1>1, SheetKnown
<1> QED  BY <1>3, <1>4, <1>5, <1>6, WorksAlone

LEMMA Onward ==
  ASSUME SheetInv, NEW t \in Teams, NEW w \in Sheet!Workers,
         team[t].crew[w].pc \in {"seek", "open", "black", "copy"},
         NEW p \in {"open", "black", "copy"}, NEW h \in BOOLEAN
  PROVE  /\ [team[t].crew[w] EXCEPT !.pc = p] \in Hands
         /\ [team[t].crew[w] EXCEPT !.pc = p, !.here = h] \in Hands
         /\ [team[t].crew[w] EXCEPT !.pc = p].pc = p
         /\ [team[t].crew[w] EXCEPT !.pc = p, !.here = h].pc = p
         /\ HandInv([team[t].crew[w] EXCEPT !.pc = p], tDisk)
         /\ HandInv([team[t].crew[w] EXCEPT !.pc = p, !.here = h], tDisk)
<1> DEFINE old == team[t].crew[w]
           m == [old EXCEPT !.pc = p]
           k == [old EXCEPT !.pc = p, !.here = h]
<1>1. old \in Hands /\ old.at \in Sheet!Grid
  BY HandKnown DEF HandInv
<1> HIDE DEF old
<1>2. m \in Hands /\ m.pc = p /\ m.at = old.at /\ k \in Hands /\ k.pc = p /\ k.at = old.at
  BY <1>1 DEF Hands
<1> HIDE DEF m, k
<1>3. HandInv(m, tDisk) /\ HandInv(k, tDisk)
  BY <1>1, <1>2 DEF HandInv
<1> QED  BY <1>2, <1>3 DEF m, k, old

LEMMA PastTheEndStep ==
  ASSUME SheetInv, NEW t \in Teams, NEW w \in Sheet!Workers, Sheet!PastTheEnd(t, w)
  PROVE  SheetInv'
<1>1. /\ team[t].crew[w].pc = "seek" /\ UNCHANGED <<tile, black, tJob, tSpent>> /\ Sheet!WorkerStep
      /\ \/ Sheet!Move(t, w, [team[t].crew[w] EXCEPT !.pc = "copy"])
         \/ Sheet!Move(t, w, [team[t].crew[w] EXCEPT !.pc = "open"])
  BY DEF Sheet!PastTheEnd, Sheet!At
<1>2. PICK p \in {"open", "black", "copy"} : Sheet!Move(t, w, [team[t].crew[w] EXCEPT !.pc = p])
  BY <1>1
<1> QED  BY <1>1, <1>2, Onward, SheetKnown, WorksAlone

LEMMA OpenBlackStep ==
  ASSUME SheetInv, NEW t \in Teams, NEW w \in Sheet!Workers, Sheet!OpenBlack(t, w)
  PROVE  SheetInv'
<1>1. /\ team[t].crew[w].pc = "open" /\ black' = Sheet!Torn /\ UNCHANGED <<tile, tSpent>>
      /\ Sheet!WorkerStep /\ Sheet!Stray(t)
      /\ Sheet!Move(t, w, [team[t].crew[w] EXCEPT !.pc = "black", !.here = TRUE])
  BY DEF Sheet!OpenBlack, Sheet!At
<1> QED  BY <1>1, Onward, VoidsAre, SheetKnown, WorksAlone

LEMMA BlackenedStep ==
  ASSUME SheetInv, NEW t \in Teams, NEW w \in Sheet!Workers, Sheet!Blackened(t, w)
  PROVE  SheetInv'
<1> DEFINE m == [team[t].crew[w] EXCEPT !.pc = "copy"]
<1>1. /\ team[t].crew[w].pc = "black" /\ UNCHANGED <<tile, tSpent>>
      /\ black' \in {Sheet!Black, black}
      /\ Sheet!WorkerStep /\ Sheet!Stray(t)
      /\ team' = [team EXCEPT ![t].black = TRUE, ![t].crew[w].pc = "copy"]
  BY DEF Sheet!Blackened, Sheet!At
<1>2. m \in Hands /\ m.pc = "copy" /\ HandInv(m, tDisk)
  BY <1>1, Onward
<1>3. team' = [team EXCEPT ![t] = [next |-> team[t].next, black |-> TRUE,
                                   failed |-> team[t].failed,
                                   crew |-> [team[t].crew EXCEPT ![w] = m]]]
  <2> DEFINE y == [team[t] EXCEPT !.black = TRUE]
             T == [team EXCEPT ![t] = y]
             c == [team[t].crew EXCEPT ![w] = m]
  <2>1. team' = [T EXCEPT ![t] = [T[t] EXCEPT !.crew =
                   [T[t].crew EXCEPT ![w] = [T[t].crew[w] EXCEPT !.pc = "copy"]]]]
    BY <1>1
  <2>2. T[t] = y /\ \A z : [T EXCEPT ![t] = z] = [team EXCEPT ![t] = z]
    BY HandKnown, Twice
  <2>3. y = [next |-> team[t].next, black |-> TRUE, failed |-> team[t].failed,
             crew |-> team[t].crew]
    BY HandKnown, Refit
  <2> HIDE DEF y, T
  <2>4. y.crew = team[t].crew /\ y \in Attempts
    BY <2>3, HandKnown DEF Attempts
  <2>5. [y EXCEPT !.crew = c] = [next |-> team[t].next, black |-> TRUE,
                                 failed |-> team[t].failed, crew |-> c]
    <3> HIDE DEF c
    <3>1. y.next = team[t].next /\ y.black = TRUE /\ y.failed = team[t].failed
      BY <2>3
    <3>2. [y EXCEPT !.crew = c] = [next |-> y.next, black |-> y.black, failed |-> y.failed,
                                   crew |-> c]
      BY <2>4 DEF Attempts
    <3> QED  BY <3>1, <3>2
  <2>6. team' = [team EXCEPT ![t] = [y EXCEPT !.crew = c]]
    BY <2>1, <2>2, <2>4
  <2> QED  BY <2>5, <2>6
<1>4. black' \in Voids
  BY <1>1, VoidsAre, SheetKnown
<1>5. UNCHANGED <<tile, tSpent>> /\ Sheet!WorkerStep /\ Sheet!Stray(t)
  BY <1>1
<1> HIDE DEF m
<1> QED  BY <1>2, <1>3, <1>4, <1>5, HandKnown, SheetKnown, Works

LEMMA CopyBlackStep ==
  ASSUME SheetInv, NEW t \in Teams, NEW w \in Sheet!Workers, Sheet!CopyBlack(t, w)
  PROVE  SheetInv'
<1>1. /\ team[t].crew[w].pc = "copy" /\ Sheet!Stray(t) /\ UNCHANGED <<black, tSpent>>
      /\ Sheet!WorkerStep /\ Sheet!Move(t, w, [Sheet!Done EXCEPT !.pc = "idle"])
      /\ tile' = [tile EXCEPT ![team[t].crew[w].at] = black]
  BY DEF Sheet!CopyBlack, Sheet!At
<1>2. tile \in Grids /\ black \in Sheet!Pictures /\ black \in Voids
  BY SheetKnown, VoidsAre
<1>3. tile' \in Grids /\ \A k \in Sheet!Grid : tile'[k] = tile[k] \/ tile'[k] \in Voids
  BY <1>1, <1>2 DEF Grids
<1> QED  BY <1>1, <1>3, AtRest, SheetKnown, WorksAlone

LEMMA FailsStep ==
  ASSUME SheetInv, NEW t \in Teams, NEW w \in Sheet!Workers,
         NEW how \in {"killed", "broken", "silent"}, Sheet!Fails(t, w, how)
  PROVE  SheetInv'
<1> DEFINE f == IF team[t].failed = "no" THEN how ELSE team[t].failed
<1>1. UNCHANGED <<tile, black, tJob>> /\ Sheet!WorkerStep
  BY DEF Sheet!Fails
<1>2. tSpent' \in 0..MaxTroubles
  BY SheetKnown, SheetFacts DEF Sheet!Fails, Sheet!Trouble
<1>3. team' = [team EXCEPT ![t].failed = f, ![t].crew[w] = Sheet!Done]
  BY DEF Sheet!Fails
<1>4. f \in {"no", "killed", "broken", "silent"}
  BY HandKnown
<1> HIDE DEF f
<1>5. team' = [team EXCEPT ![t] = [next |-> team[t].next, black |-> team[t].black,
                                   failed |-> f,
                                   crew |-> [team[t].crew EXCEPT ![w] = Sheet!Done]]]
  <2> DEFINE y == [team[t] EXCEPT !.failed = f]
             T == [team EXCEPT ![t] = y]
             c == [team[t].crew EXCEPT ![w] = Sheet!Done]
  <2>1. team' = [T EXCEPT ![t] = [T[t] EXCEPT !.crew = [T[t].crew EXCEPT ![w] = Sheet!Done]]]
    BY <1>3
  <2>2. T[t] = y /\ \A z : [T EXCEPT ![t] = z] = [team EXCEPT ![t] = z]
    BY HandKnown, Twice
  <2>3. y = [next |-> team[t].next, black |-> team[t].black, failed |-> f,
             crew |-> team[t].crew]
    BY HandKnown, Refit
  <2> HIDE DEF y, T
  <2>4. y.crew = team[t].crew /\ y \in Attempts
    BY <1>4, <2>3, HandKnown DEF Attempts
  <2>5. [y EXCEPT !.crew = c] = [next |-> team[t].next, black |-> team[t].black,
                                 failed |-> f, crew |-> c]
    <3> HIDE DEF c
    <3> QED  BY <2>3
  <2>6. team' = [team EXCEPT ![t] = [y EXCEPT !.crew = c]]
    BY <2>1, <2>2, <2>4
  <2> QED  BY <2>5, <2>6
<1> QED  BY <1>1, <1>2, <1>4, <1>5, AtRest, HandKnown, SheetKnown, Works

-----------------------------------------------------------------------------
(* The sheet takes what the tiles show; the row takes the job's hash, and  *)
(* with it the sheet shows nothing older than the row says.                *)
LEMMA LaySheetStep == SheetInv /\ Sheet!LaySheet => SheetInv'
<1> SUFFICES ASSUME SheetInv, Sheet!LaySheet PROVE SheetInv'
  OBVIOUS
<1>1. /\ tJob.pc = "tiles" /\ sheet' = [pictures |-> tile, stray |-> tJob.stray]
      /\ tJob' = [tJob EXCEPT !.pc = "save"]
      /\ UNCHANGED <<tDisk, hash, tRow, tile, black, team, poison, tFlagged, tSpent>>
  BY DEF Sheet!LaySheet, Sheet!file, Sheet!state
<1>2. tJob' \in Passes /\ tJob'.pc = "save" /\ tJob'.hash = tJob.hash /\ tJob'.team = tJob.team
      /\ tJob.stray \in BOOLEAN
  BY <1>1, SheetKnown DEF Passes
<1>3. sheet' \in Laid /\ sheet'.pictures = tile /\ sheet'.stray = tJob.stray
  BY <1>1, <1>2, SheetKnown DEF Laid
<1>4. SheetTypes'
  BY <1>1, <1>2, <1>3 DEF SheetInv, SheetTypes
<1>5. JobInv' /\ TilesInv'
  BY <1>1, <1>2 DEF SheetInv, JobInv, TilesInv
<1>6. PicturesInv'
  BY <1>1, <1>2, <1>3 DEF SheetInv, TilesInv, PicturesInv, Oldest
<1> QED  BY <1>1, <1>4, <1>5, <1>6 DEF SheetInv

LEMMA SheetSaveStep == SheetInv /\ Sheet!Save => SheetInv'
<1> SUFFICES ASSUME SheetInv, Sheet!Save PROVE SheetInv'
  OBVIOUS
<1>1. /\ tJob.pc = "save" /\ tRow' = tJob.hash /\ tile' = [i \in Sheet!Grid |-> Sheet!Missing]
      /\ black' \in {Sheet!Missing, black} /\ poison' = Sheet!Clean /\ tJob' = Sheet!NoJob
      /\ UNCHANGED <<tDisk, hash, sheet, team, tFlagged, tSpent>>
  BY DEF Sheet!Save, Sheet!HashRead, Sheet!file
<1>2. Sheet!Clean \in [attempts : Nat, benign : BOOLEAN]
  BY DEF Sheet!Clean
<1>3. tRow' <= hash' /\ tRow' \in 0..MaxVersions
  BY <1>1, SheetKnown DEF SheetInv, JobInv, Passes
<1>4. SheetTypes'
  BY <1>1, <1>2, <1>3, BlankIs, VoidsAre, SheetKnown DEF SheetInv, SheetTypes
<1>5. JobInv' /\ TilesInv'
  BY <1>1, BlankIs DEF JobInv, TilesInv
<1>6. PicturesInv'
  BY <1>1, BlankIs DEF SheetInv, PicturesInv, Oldest
<1> QED  BY <1>1, <1>3, <1>4, <1>5, <1>6 DEF SheetInv

LEMMA RejectStep == SheetInv /\ Sheet!Reject => SheetInv'
<1> SUFFICES ASSUME SheetInv, Sheet!Reject PROVE SheetInv'
  OBVIOUS
<1>1. /\ tJob.pc = "tiles" /\ tJob' \in {Sheet!Retried, Sheet!NoJob}
      /\ UNCHANGED <<tDisk, hash, tRow, sheet, tile, black, team, tSpent>>
  BY DEF Sheet!Reject, Sheet!file, Sheet!dir
<1>2. \/ UNCHANGED <<poison, tFlagged>>
      \/ /\ poison' = [attempts |-> poison.attempts + 1, benign |-> Sheet!SilentDeath]
         /\ tFlagged' = (tFlagged \/ poison.attempts + 1 >= Threshold)
  BY DEF Sheet!Reject
<1>3. poison' \in [attempts : Nat, benign : BOOLEAN] /\ tFlagged' \in BOOLEAN
  <2>1. CASE UNCHANGED <<poison, tFlagged>>
    BY <2>1, SheetKnown
  <2>2. CASE /\ poison' = [attempts |-> poison.attempts + 1, benign |-> Sheet!SilentDeath]
             /\ tFlagged' = (tFlagged \/ poison.attempts + 1 >= Threshold)
    <3>1. Sheet!SilentDeath \in BOOLEAN /\ poison.attempts + 1 \in Nat
      BY SheetKnown DEF Sheet!SilentDeath
    <3>2. tFlagged' \in BOOLEAN
      BY <2>2
    <3> QED  BY <2>2, <3>1, <3>2
  <2> QED  BY <1>2, <2>1, <2>2
<1>4. Sheet!Retried \in Passes /\ Sheet!Retried.pc \in {"none", "queued"}
  <2>1. tJob.tries + 1 \in Nat
    BY SheetKnown DEF Passes
  <2>2. [Sheet!NoJob EXCEPT !.pc = "queued", !.tries = tJob.tries + 1] \in Passes
        /\ [Sheet!NoJob EXCEPT !.pc = "queued", !.tries = tJob.tries + 1].pc = "queued"
    BY <2>1, BlankIs DEF Passes
  <2> QED  BY <2>2, BlankIs DEF Sheet!Retried
<1>5. tJob.pc # "save" /\ tJob' \in Passes /\ tJob'.pc \in {"none", "queued"}
  BY <1>1, <1>4, BlankIs
<1>6. tDisk \in Sheet!Versions /\ hash \in Sheet!Versions /\ tDisk <= tDisk /\ hash <= hash
  BY SheetKnown, SheetFacts
<1> QED  BY <1>1, <1>3, <1>5, <1>6, SheetKnown, DeskMoves

LEMMA LoseSheetsStep == SheetInv /\ Sheet!LoseSheets => SheetInv'
<1> SUFFICES ASSUME SheetInv, Sheet!LoseSheets PROVE SheetInv'
  OBVIOUS
<1>1. /\ sheet' = Sheet!NoSheet /\ tSpent < MaxTroubles /\ tSpent' = tSpent + 1
      /\ UNCHANGED <<tDisk, hash, tRow, tile, black, tJob, team, poison, tFlagged>>
  BY DEF Sheet!LoseSheets, Sheet!Trouble, Sheet!file, Sheet!state
<1>2. tSpent' \in 0..MaxTroubles
  BY <1>1, SheetKnown, SheetFacts
<1>3. SheetTypes'
  BY <1>1, <1>2, BlankIs DEF SheetInv, SheetTypes
<1>4. JobInv' /\ TilesInv'
  BY <1>1 DEF SheetInv, JobInv, TilesInv
<1>5. PicturesInv'
  BY <1>1, BlankIs, HiddenWell DEF PicturesInv
<1> QED  BY <1>1, <1>3, <1>4, <1>5 DEF SheetInv

LEMMA SheetStep == SheetInv /\ Sheet!Next => SheetInv'
<1> SUFFICES ASSUME SheetInv, Sheet!Next PROVE SheetInv'
  OBVIOUS
<1>1. CASE Sheet!Replace \/ Sheet!Scan \/ Sheet!ClearFailures \/ Sheet!Unpoison \/ Sheet!Reconcile
  BY <1>1, DeskStep
<1>2. CASE \E t \in Teams : Sheet!Begin(t)
  BY <1>2, BeginStep
<1>3. ASSUME NEW t \in Teams, NEW w \in Sheet!Workers,
             \/ Sheet!Pull(t, w) \/ Sheet!Leave(t, w) \/ Sheet!Sought(t, w)
             \/ Sheet!PastTheEnd(t, w) \/ Sheet!OpenBlack(t, w) \/ Sheet!Blackened(t, w)
             \/ Sheet!CopyBlack(t, w)
             \/ \E how \in {"killed", "broken", "silent"} : Sheet!Fails(t, w, how)
      PROVE  SheetInv'
  BY <1>3, PullStep, LeaveStep, SoughtStep, PastTheEndStep, OpenBlackStep, BlackenedStep,
     CopyBlackStep, FailsStep
<1>4. CASE Sheet!LaySheet \/ Sheet!Save \/ Sheet!Reject \/ Sheet!LoseSheets
  BY <1>4, LaySheetStep, SheetSaveStep, RejectStep, LoseSheetsStep
<1> QED  BY <1>1, <1>2, <1>3, <1>4 DEF Sheet!Next

LEMMA SheetIdle == SheetInv /\ UNCHANGED Sheet!vars => SheetInv'
  BY DEF Sheet!vars, SheetInv, SheetTypes, JobInv, TilesInv, PicturesInv, Oldest

LEMMA SheetHolds == SheetInv => Sheet!TypeOK /\ Sheet!SheetsShowTheirFile
<1> SUFFICES ASSUME SheetInv PROVE Sheet!TypeOK /\ Sheet!SheetsShowTheirFile
  OBVIOUS
<1>1. sheet.pictures \in Grids /\ sheet.stray \in BOOLEAN
      /\ tJob.pc \in {"none", "queued", "tiles", "save"}
  BY SheetKnown DEF Laid, Passes
<1>2. \A t \in Teams : team[t].next \in 1..Tiles + 1
  BY SheetKnown DEF Attempts
<1>3. black \in Sheet!Pictures
  BY SheetKnown, VoidsAre
<1>4. Sheet!TypeOK
  BY <1>1, <1>2, <1>3, SheetKnown DEF Sheet!TypeOK, SheetInv, SheetTypes, Grids
<1>5. ASSUME tRow = hash, hash = tDisk, ~sheet.stray, NEW i \in Sheet!Grid
      PROVE  sheet.pictures[i] \in {tDisk, Sheet!Black, Sheet!Torn, Sheet!Missing}
  <2>1. Oldest = tDisk /\ tDisk \in Nat
    BY <1>5, SheetKnown DEF SheetInv, JobInv, Oldest
  <2>2. Shows(sheet.pictures[i], tDisk, tDisk)
    BY <1>5, <2>1 DEF SheetInv, PicturesInv
  <2> QED  BY <2>1, <2>2 DEF Shows, Voids
<1>6. Sheet!SheetsShowTheirFile
  BY <1>5 DEF Sheet!SheetsShowTheirFile
<1> QED  BY <1>4, <1>6

LEMMA ArtHolds == ArtInv => Picture!TypeOK
<1> SUFFICES ASSUME ArtInv PROVE Picture!TypeOK
  OBVIOUS
<1>1. \A l \in Leaves : aJob[l].pc \in {"none", "queued", "put", "clean", "lend", "flag"}
  BY DEF ArtInv, ArtTypes, Errands
<1> QED  BY <1>1 DEF ArtInv, ArtTypes, Entries, Picture!TypeOK

-----------------------------------------------------------------------------
(***************************************************************************)
(* The suite: each world moves by its own steps, and which world this      *)
(* behaviour is of never changes.                                          *)
(***************************************************************************)
LEMMA WorldsMove ==
  ASSUME [Next]_allvars
  PROVE  /\ part' = part
         /\ part = "watch" => Watch!Next \/ UNCHANGED Watch!vars
         /\ part = "offline" => Offline!Next \/ UNCHANGED Offline!vars
         /\ part = "device" => Device!Next \/ UNCHANGED Device!vars
         /\ part = "point" => Point!Next \/ UNCHANGED Point!vars
         /\ [Ladder!Next]_(Ladder!vars)
         /\ [Encode!Next]_(Encode!vars)
         /\ [Picture!Next]_(Picture!vars)
         /\ [Sheet!Next]_(Sheet!vars)
<1>1. CASE UNCHANGED allvars
  BY <1>1 DEF allvars, watchvars, offlinevars, devicevars, pointvars, laddervars, encodevars,
              artvars, sheetvars, Watch!vars, Offline!vars, Device!vars, Point!vars,
              Ladder!vars, Encode!vars, Picture!vars, Sheet!vars
<1>2. CASE Next
  <2>1. part' = part
    BY <1>2 DEF Next, WatchOnly, OfflineOnly, DeviceOnly, ArtOnly, SheetOnly, PointOnly, EncodeOnly, LadderOnly
  <2>2. part = "offline" => Offline!Next
    BY <1>2 DEF Next, Offline!Next
  <2>6. part = "watch" => Watch!Next
    BY <1>2, WatchEnds DEF Next, Watch!Next, Watch!Slots
  <2>3. part = "device" => Device!Next
    BY <1>2 DEF Next, Device!Next
  <2>4. part = "point" => Point!Next
    BY <1>2 DEF Next, Point!Next, Point!Methods
  <2>5. Ladder!Next \/ UNCHANGED Ladder!vars
    BY <1>2 DEF Next, Ladder!Next, Ladder!vars, laddervars, WatchOnly, OfflineOnly,
                DeviceOnly, ArtOnly, SheetOnly, PointOnly, EncodeOnly
  <2>7. Encode!Next \/ UNCHANGED Encode!vars
    BY <1>2 DEF Next, Encode!Next, Encode!vars, encodevars, WatchOnly, OfflineOnly,
                DeviceOnly, ArtOnly, SheetOnly, PointOnly, LadderOnly
  <2>8. Picture!Next \/ UNCHANGED Picture!vars
    <3>1. CASE part = "art"
      BY <1>2, <3>1 DEF Next, Picture!Next
    <3>2. CASE part # "art"
      <4>1. UNCHANGED artvars
        BY <1>2, <3>2 DEF Next, WatchOnly, OfflineOnly, DeviceOnly, SheetOnly, PointOnly,
                          EncodeOnly, LadderOnly
      <4> QED  BY <4>1 DEF artvars, Picture!vars
    <3> QED  BY <3>1, <3>2
  <2>9. Sheet!Next \/ UNCHANGED Sheet!vars
    <3>1. CASE part = "sheet"
      BY <1>2, <3>1 DEF Next, Sheet!Next
    <3>2. CASE part # "sheet"
      <4>1. UNCHANGED sheetvars
        BY <1>2, <3>2 DEF Next, WatchOnly, OfflineOnly, DeviceOnly, ArtOnly, PointOnly,
                          EncodeOnly, LadderOnly
      <4> QED  BY <4>1 DEF sheetvars, Sheet!vars
    <3> QED  BY <3>1, <3>2
  <2> QED  BY <2>1, <2>2, <2>3, <2>4, <2>5, <2>6, <2>7, <2>8, <2>9
<1> QED  BY <1>1, <1>2

(* Whatever fails, is closed or comes back in between, a position that left *)
(* the queue is on the server, unless a newer one was saved over it while  *)
(* the flush that took it was under way (offline.ts, flushWatchSync).      *)
THEOREM ProgressStaysKept == Spec => []ProgressIsKept
<1> DEFINE Held == part = "offline" => Offline!TypeOK /\ OfflineInv
<1>1. Init => Held
  <2>1. Offline!Init => Offline!TypeOK
    BY RecordWorlds DEF Offline!OfflineSyncAssumption, Offline!Init, Offline!TypeOK, Offline!Nothing, Offline!NoFlush
  <2> QED  BY <2>1, InitOffline DEF Init
<1>2. Held /\ [Next]_allvars => Held'
  <2>1. UNCHANGED Offline!vars /\ Offline!TypeOK => Offline!TypeOK'
    BY DEF Offline!vars, Offline!TypeOK
  <2>2. UNCHANGED Offline!vars /\ OfflineInv => OfflineInv'
    BY OfflineIdle DEF Offline!vars
  <2> QED  BY <2>1, <2>2, WorldsMove, OfflineTypes, OfflineStep
<1>3. Held => ProgressIsKept
  BY DEF ProgressIsKept, OfflineInv
<1> QED  BY <1>1, <1>2, <1>3, PTL DEF Spec

(* The module by itself, the probe that the suite leaves out included. *)
THEOREM ProgressStaysKeptAlone == Offline!Spec => []Offline!ProgressIsKept
<1>1. OfflineInv /\ [Offline!Next]_(Offline!vars) => OfflineInv'
  <2>1. UNCHANGED Offline!vars /\ OfflineInv => OfflineInv'
    BY OfflineIdle DEF Offline!vars
  <2> QED  BY <2>1, OfflineStep
<1>2. OfflineInv => Offline!ProgressIsKept
  BY DEF OfflineInv
<1> QED  BY InitOffline, <1>1, <1>2, PTL DEF Offline!Spec

(* However a title is played, sought in, beaten for, marked and replayed   *)
(* from a device, and whichever handlers overlap: the rail shows the row   *)
(* touched last of each season with anything left, and off the items two   *)
(* handlers met on no play and no unit is counted that was not earned      *)
(* (watch-state-routes.ts, continue-watching.ts).                          *)
THEOREM HistoryStaysEarned == Spec => []HistoryIsEarned
<1> DEFINE Held == part = "watch" => WatchInv
<1>1. Init => Held
  BY InitWatch DEF Init
<1>2. Held /\ [Next]_allvars => Held'
  <2>1. UNCHANGED Watch!vars /\ WatchInv => WatchInv'
    BY WatchIdle
  <2> QED  BY <2>1, WorldsMove, WatchStep
<1>3. Held => HistoryIsEarned
  BY WatchHolds DEF HistoryIsEarned
<1> QED  BY <1>1, <1>2, <1>3, PTL DEF Spec

(* The module by itself, of one session of the profile.                    *)
THEOREM HistoryStaysEarnedAlone ==
  Watch!Spec => [](Watch!RailIsLatest /\ Watch!CountsAreEarned)
<1>1. WatchInv /\ [Watch!Next]_(Watch!vars) => WatchInv'
  BY WatchIdle, WatchStep
<1>2. WatchInv => Watch!RailIsLatest /\ Watch!CountsAreEarned
  BY WatchHolds
<1> QED  BY InitWatch, <1>1, <1>2, PTL DEF Watch!Spec

(* However builds, saves, deletions, reconciliations and lost files follow  *)
(* each other, the offline library lists only what was saved to the device *)
(* (downloads.ts, reconcileOfflineManifest).                               *)
THEOREM EntriesStayPlayable == Spec => []EntriesArePlayable
<1> DEFINE Held == part = "device" => DeviceInv
<1>1. Init => Held
  BY InitDevice DEF Init
<1>2. Held /\ [Next]_allvars => Held'
  <2>1. UNCHANGED Device!vars /\ DeviceInv => DeviceInv'
    BY DEF Device!vars, DeviceInv, Device!TypeOK, Device!EntriesArePlayable
  <2> QED  BY <2>1, WorldsMove, DeviceStep
<1>3. Held => EntriesArePlayable
  BY DEF EntriesArePlayable, DeviceInv
<1> QED  BY <1>1, <1>2, <1>3, PTL DEF Spec

(* For every file, seek table, resume position and target: when the probes *)
(* answered and the table has what they found, the stream begins at the    *)
(* frame the client is told (playback-routes.ts, hls.ts, remux.ts).        *)
THEOREM StartsAreExact == Spec => []AnchoredStartsAreExact
<1> DEFINE Held == part = "point" => PointInv
<1>1. Init => Held
  BY InitPoint DEF Init
<1>2. Held /\ [Next]_allvars => Held'
  <2>1. UNCHANGED Point!vars /\ PointInv => PointInv'
    BY DEF Point!vars, PointInv, Point!AnchoredStartsAreExact, Point!Anchored
  <2> QED  BY <2>1, WorldsMove, PointStep
<1>3. Held => AnchoredStartsAreExact
  BY DEF AnchoredStartsAreExact, PointInv, Points, Point!TypeOK
<1> QED  BY <1>1, <1>2, <1>3, PTL DEF Spec

(* Whatever is wrong with the file, whatever its viewers report, choose,    *)
(* seek and try again in whichever order, nobody is shown the error card    *)
(* for a stream of the file that cannot be decoded, and no stream spawned   *)
(* after a report copies the reported audio (WatchPage.tsx,                 *)
(* playback-routes.ts, decision.ts).                                        *)
THEOREM LadderIsClimbed == Spec => LadderHolds
<1>1. Init => LadderInv
  BY InitLadder DEF Init
<1>2. LadderInv /\ [Next]_allvars => LadderInv'
  BY WorldsMove, LadderStep
<1>3. LadderInv => (part = "ladder" => Ladder!TypeOK)
  <2>1. ASSUME LadderInv
        PROVE  Ladder!TypeOK
    <3>1. ASSUME NEW v \in Viewers, viewer[v] # Ladder!Off
          PROVE  /\ viewer[v].pc \in {"playing", "calling", "card"}
                 /\ viewer[v].method \in {"DIRECT_PLAY", "REMUX", "TRANSCODE"}
                 /\ viewer[v].cap \in 1..Ladder!Ceiling /\ viewer[v].track \in DOMAIN Row.tracks
      <4>1. viewer[v] \in Pages
        BY <2>1, <3>1 DEF LadderInv, LadderTypes
      <4> QED  BY <4>1 DEF Pages, Methods
    <3>2. \A what \in DOMAIN lSpent : lSpent[what] >= 0
      BY <2>1 DEF LadderInv, LadderTypes
    <3> QED  BY <2>1, <3>1, <3>2 DEF Ladder!TypeOK, LadderInv, LadderTypes, Flags
  <2> QED  BY <2>1
<1>4. LadderInv /\ [Next]_allvars =>
        [\A v \in Viewers :
           (Ladder!Watching(v) /\ ~Ladder!Decodes(v)) => viewer'[v].pc # "card"]_(Ladder!vars)
  BY WorldsMove, CardIsEarned DEF Ladder!Watching
<1>5. LadderInv /\ [Next]_allvars =>
        [\A v \in Viewers :
           (Ladder!Respawns(v) /\ broken.audio /\ viewer'[v].method # "DIRECT_PLAY")
             => ~viewer'[v].stream.sameAudio]_(Ladder!vars)
  BY ReportedAudioIsOut
<1> QED
  BY <1>1, <1>2, <1>3, <1>4, <1>5, PTL
     DEF Spec, LadderHolds, Ladder!CardsAreEarned, Ladder!ReportedAudioStaysOut

(* On every machine, for every file and every client whose plan has neither *)
(* of the two shapes: however the encodes of all sessions start, seek, die, *)
(* fall back and stop, hardware is disabled only after a death that was not *)
(* the plan's fault, whoever lost it encodes in software, and no 10-bit     *)
(* HEVC goes through nvenc's garbling conversion (attemptHwFallback,        *)
(* reportHwFailure, hls.ts).                                                *)
THEOREM HardwareStaysKept == ASSUME SoundPlans PROVE Spec => HardwareIsKept
<1>1. Init => EncodeInv
  BY InitEncode DEF Init
<1>2. EncodeInv /\ [Next]_allvars => EncodeInv'
  BY WorldsMove, EncodeStep, EncodeIdle
<1>3. EncodeInv => (part = "encode" => Encode!TypeOK /\ Encode!FaultsFallBack)
  BY EncodeHolds
<1>4. EncodeInv /\ [Next]_allvars =>
        [hw'.failed /\ ~hw.failed =>
           \E s \in Viewers : jobs[s].pc = "died" /\ jobs[s].cause # "plan"]_(Encode!vars)
  BY WorldsMove, HardwareGoes
<1> QED
  BY <1>1, <1>2, <1>3, <1>4, PTL DEF Spec, HardwareIsKept, Encode!OnlyFaultsDisable

(* For every library, its sidecars, covers, matches and failures, in        *)
(* whichever order scans, jobs, lookups and provider fetches meet: a        *)
(* picture only goes when a strictly better one of its kind stays, and an   *)
(* item is parked only by Threshold failures of its own (artwork.ts,        *)
(* resolveArtwork and upsertArtwork, job-failures.ts).  However a file is   *)
(* replaced while its previews are made, by however many workers and        *)
(* leftovers of failed attempts: a sheet the hash gate takes for current    *)
(* shows the file that is there, unless a leftover wrote to it              *)
(* (trickplay.ts, processTrickplay).                                        *)
THEOREM PicturesStayEarned == Spec => PicturesAreEarned
<1>1. Init => ArtInv /\ SheetInv
  BY InitArt, InitSheet DEF Init
<1>2. ArtInv /\ [Next]_allvars => ArtInv'
  BY WorldsMove, ArtStep, ArtIdle
<1>3. SheetInv /\ [Next]_allvars => SheetInv'
  BY WorldsMove, SheetStep, SheetIdle
<1>4. ArtInv => (part = "art" => Picture!TypeOK)
  BY ArtHolds
<1>5. SheetInv => (part = "sheet" => Sheet!TypeOK /\ Sheet!SheetsShowTheirFile)
  BY SheetHolds
<1>6. ArtInv /\ [Next]_allvars =>
        [\A i \in Picture!Items : \A r \in rows[i] \ rows'[i] :
           \E b \in rows'[i] : b[1] = r[1] /\ Picture!Rank(b[2]) < Picture!Rank(r[2])]_(Picture!vars)
  BY WorldsMove, ArtStep DEF ReplacedWell
<1>7. ArtInv /\ [Next]_allvars =>
        [\A l \in aFlagged' \ aFlagged : failed[l] >= Threshold]_(Picture!vars)
  BY WorldsMove, ArtStep DEF ParkedWell
<1> QED
  BY <1>1, <1>2, <1>3, <1>4, <1>5, <1>6, <1>7, PTL
     DEF Spec, PicturesAreEarned, Picture!ReplacedOnlyByBetter, Picture!PoisonIsEarned
==============================================================================
