---------------------------- MODULE SuiteRecords ----------------------------
(***************************************************************************)
(* One run for what the server and its clients remember and decide, each   *)
(* part in a world of its own: watch records (WatchState), a client's      *)
(* offline progress and downloads (OfflineSync, DeviceDownloads), pictures *)
(* and preview sheets (Artwork, Trickplay), where a stream starts          *)
(* (StartPoint), hardware encoding and its fallback (EncodeFallback) and   *)
(* the decode-error ladder (PlaybackLadder).  part says which world this   *)
(* behaviour is of; the others never move.                                 *)
(***************************************************************************)
EXTENDS Naturals, Sequences, FiniteSets

CONSTANTS
  Episodes, Films, End, MaxBeats, MaxEdits, \* of WatchState,
  Titles, Flushes, MaxSaves, MaxOutages, \* of OfflineSync,
  MaxRows, MaxFaults,                    \* of it and DeviceDownloads
  Leaves, Libraries, Ancestors, Parent,  \* of Artwork,
  Covers, Shots, Offers,
  Tiles, Ends, Fanout, Teams,            \* of Trickplay,
  MaxVersions, Threshold, MaxTroubles,   \* the last two of both,
  Duration, Margin, Inputs,              \* of StartPoint,
  Hosts, Requested, Files, Profiles,     \* of EncodeFallback,
  MaxDeaths, MaxCooldowns, MaxSeeks,
  Viewers,                               \* of it and PlaybackLadder,
  Row, Profile, Defects, StartCaps,
  MaxMenu, MaxBusy, MaxHiccups, MaxRescans \* and of PlaybackLadder

VARIABLES
  part,
  wRow, recent, wSess, head, beat, edit, day, wSeen, lapped,
  net, open, online, profile, playing, queue, flush, server, oSeen, raced, oFaults,
  outages,
  dRow, flow, records, dDisk, lost, local, manifest, listing, deleting, dFaults,
  files, side, rows, frame, aJob, fetch, fails, aFlagged, heavy, aSpent, failed,
  tDisk, hash, tRow, sheet, tile, black, tJob, team, poison, tFlagged, tSpent,
  input, pRow, point,
  host, hw, jobs, eFaults,
  bytes, broken, viewer, lSpent

None == "none"

-----------------------------------------------------------------------------
(* One session of the profile; the run takes two seasons of a show.        *)
TwoSeasons == {<<1, 1>>, <<1, 2>>, <<2, 1>>}

Watch == INSTANCE WatchState WITH
  Sessions <- {"s"},
  row <- wRow, sess <- wSess, seen <- wSeen

(* Next leaves ProbeSucceeds out: the page believes it is offline only      *)
(* while the link is down, when no probe gets through, and the link event   *)
(* ends both, so the step is never enabled.                                 *)
Offline == INSTANCE OfflineSync WITH
  Items <- Titles, seen <- oSeen, faults <- oFaults

Device == INSTANCE DeviceDownloads WITH
  row <- dRow, disk <- dDisk, faults <- dFaults

(* An episode with a cover in its file and a series above it, or a movie. *)
ParentOf == [i \in {"e1", "m", "s"} |-> IF i = "e1" THEN "s" ELSE None]
Shipped == [i \in {"s", "m"} |-> IF i = "s" THEN <<"BACKDROP">> ELSE <<"POSTER", "BACKDROP">>]
Frame(c, r, b) == [colour |-> c, range |-> r, soft |-> b]
Candidates ==
  [l \in {"e1", "m"} |-> IF l = "e1" THEN {Frame(2, 1, FALSE), Frame(5, 1, TRUE)}
                         ELSE {Frame(1, 0, FALSE)}]

OneOfEach == {{"e1"}, {"m"}}

Picture == INSTANCE Artwork WITH
  job <- aJob, flagged <- aFlagged, spent <- aSpent

(* A second attempt starts while a worker of the first is still at it. *)
Sheet == INSTANCE Trickplay WITH
  disk <- tDisk, row <- tRow, job <- tJob, flagged <- tFlagged,
  spent <- tSpent

(* Keyframes at 0, 20, 30 and 70 s of 80; Matroska's table misses one. *)
TwoFiles ==
  {[keyframes |-> {0, 2, 3, 7}, table |-> {0, 3, 7}, mkv |-> TRUE],
   [keyframes |-> {0, 2, 3, 7}, table |-> {0, 2, 3, 7}, mkv |-> FALSE]}

Point == INSTANCE StartPoint WITH row <- pRow, session <- point

(* An nvenc host that encodes h264 only and a vaapi host; 10-bit HEVC and   *)
(* h264; clients that prefer one codec or the other.                       *)
File(v, ten) == [container |-> "mkv", video |-> v, ten |-> ten, audio |-> "aac",
                 width |-> 3, hdr |-> FALSE, burn |-> FALSE]
Client(cs, vs, as) == [containers |-> cs, videos |-> vs, audios |-> as, hdr |-> FALSE,
                       burn |-> FALSE, direct |-> TRUE, stream |-> TRUE]
TwoHosts ==
  {[devices |-> {"nvenc"}, encoders |-> {<<"nvenc", "h264">>}, scaleNpp |-> TRUE, cuvid |-> TRUE],
   [devices |-> {"vaapi"}, encoders |-> {<<"vaapi", "h264">>}, scaleNpp |-> FALSE,
    cuvid |-> FALSE]}
TwoSources == {File("hevc", TRUE), File("h264", FALSE)}
TwoProfiles == {Client({"mp4"}, <<"h264", "hevc">>, <<"aac">>),
                Client({"mp4"}, <<"hevc", "h264">>, <<"aac">>)}

Encode == INSTANCE EncodeFallback WITH MaxFaults <- MaxDeaths, faults <- eFaults

(* An mp4 with two audio tracks, one of them perhaps broken; u plays mp4    *)
(* directly, v takes it as a stream only.                                  *)
TwoTracks ==
  [format |-> <<"mov", "mp4">>, video |-> "h264", ten |-> FALSE, width |-> 3,
   hdr |-> FALSE, subtitles |-> <<>>,
   tracks |-> <<[codec |-> "aac", default |-> FALSE], [codec |-> "aac", default |-> TRUE]>>]
TwoClients ==
  [v \in Viewers |-> Client(IF v = "u" THEN {"mp4", "webm"} ELSE {"webm"},
                            <<"h264", "vp9">>, <<"aac", "opus">>)]
SomeDefects == {[tracks |-> ts, video |-> b] : ts \in {{}, {2}}, b \in BOOLEAN}

Ladder == INSTANCE PlaybackLadder WITH spent <- lSpent

-----------------------------------------------------------------------------
(* Every world's constants are what its module asks for. *)
ASSUME RecordWorlds ==
  /\ Watch!WatchStateAssumption /\ Offline!OfflineSyncAssumption
  /\ Device!DeviceDownloadsAssumption /\ Picture!ArtworkAssumption
  /\ Sheet!TrickplayAssumption /\ Point!StartPointAssumption
  /\ Encode!EncodeFallbackAssumption
  /\ Ladder!PlaybackLadderAssumption

watchvars   == <<wRow, recent, wSess, head, beat, edit, day, wSeen, lapped>>
offlinevars == <<net, open, online, profile, playing, queue, flush, server, oSeen, raced,
                 oFaults, outages>>
devicevars  == <<dRow, flow, records, dDisk, lost, local, manifest, listing, deleting,
                 dFaults>>
artvars     == <<files, side, rows, frame, aJob, fetch, fails, aFlagged, heavy, aSpent,
                 failed>>
sheetvars   == <<tDisk, hash, tRow, sheet, tile, black, tJob, team, poison, tFlagged,
                 tSpent>>
pointvars   == <<input, pRow, point>>
encodevars  == <<host, hw, jobs, eFaults>>
laddervars  == <<bytes, broken, viewer, lSpent>>
allvars == <<part, watchvars, offlinevars, devicevars, artvars, sheetvars,
             pointvars, encodevars, laddervars>>

(* A world that is not this behaviour's starts in one of its states only. *)
Init ==
  /\ part \in {"watch", "offline", "device", "art", "sheet", "point", "encode",
               "ladder"}
  /\ Watch!Init /\ Offline!Init /\ Device!Init /\ Picture!Init /\ Sheet!Init
  /\ Point!Init /\ Encode!Init /\ Ladder!Init
  /\ part # "watch" => wSess["s"].item = CHOOSE i \in Watch!Items : TRUE
  /\ part # "art" => files = CHOOSE library \in Libraries : TRUE
  /\ part # "sheet" => ~tFlagged
  /\ part # "point" => /\ input = CHOOSE f \in Inputs : TRUE
                       /\ pRow.pos = 0 /\ pRow.dur = Duration
  /\ part # "encode" => host = CHOOSE h \in Hosts : TRUE
  /\ part # "ladder" => bytes = CHOOSE defects \in Defects : TRUE

WatchOnly   == UNCHANGED <<part, offlinevars, devicevars, artvars, sheetvars,
                             pointvars, encodevars, laddervars>>
OfflineOnly == UNCHANGED <<part, watchvars, devicevars, artvars, sheetvars,
                             pointvars, encodevars, laddervars>>
DeviceOnly  == UNCHANGED <<part, watchvars, offlinevars, artvars, sheetvars,
                             pointvars, encodevars, laddervars>>
ArtOnly     == UNCHANGED <<part, watchvars, offlinevars, devicevars, sheetvars,
                             pointvars, encodevars, laddervars>>
SheetOnly   == UNCHANGED <<part, watchvars, offlinevars, devicevars, artvars,
                             pointvars, encodevars, laddervars>>
PointOnly   == UNCHANGED <<part, watchvars, offlinevars, devicevars, artvars,
                             sheetvars, encodevars, laddervars>>
EncodeOnly  == UNCHANGED <<part, watchvars, offlinevars, devicevars, artvars,
                             sheetvars, pointvars, laddervars>>
LadderOnly  == UNCHANGED <<part, watchvars, offlinevars, devicevars, artvars,
                             sheetvars, pointvars, encodevars>>

Next ==
  \/ part = "watch" /\ Watch!Play("s") /\ WatchOnly
  \/ \E p \in 0..End :
       \/ part = "watch" /\ Watch!Seek("s", p) /\ WatchOnly
  \/ \E h \in {1, 2} :
       \/ part = "watch" /\ Watch!BeatSent(h, "s") /\ WatchOnly
       \/ part = "watch" /\ Watch!BeatReads(h) /\ WatchOnly
       \/ part = "watch" /\ Watch!BeatWrites(h) /\ WatchOnly
  \/ \E i \in Watch!Items, w \in BOOLEAN :
       \/ part = "watch" /\ Watch!MarkReads(i, w) /\ WatchOnly
       \/ \E p \in 0..End :
            \/ part = "watch" /\ Watch!Sync(i, p, w) /\ WatchOnly
  \/ part = "watch" /\ Watch!MarkWrites /\ WatchOnly
  \/ part = "offline" /\ Offline!LinkDown /\ OfflineOnly
  \/ part = "offline" /\ Offline!LinkUp /\ OfflineOnly
  \/ part = "offline" /\ Offline!ServerGoes /\ OfflineOnly
  \/ part = "offline" /\ Offline!ServerReturns /\ OfflineOnly
  \/ part = "offline" /\ Offline!Boot /\ OfflineOnly
  \/ part = "offline" /\ Offline!ProfileLoads /\ OfflineOnly
  \/ part = "offline" /\ Offline!Close /\ OfflineOnly
  \/ part = "offline" /\ Offline!StopPlaying /\ OfflineOnly
  \/ \E i \in Titles :
       \/ part = "offline" /\ Offline!Play(i) /\ OfflineOnly
       \/ part = "offline" /\ Offline!Save(i) /\ OfflineOnly
  \/ \E f \in Flushes :
       \/ part = "offline" /\ Offline!Synced(f) /\ OfflineOnly
       \/ part = "offline" /\ Offline!Done(f) /\ OfflineOnly
       \/ part = "offline" /\ Offline!Fails(f) /\ OfflineOnly
  \/ \E fromDetail \in BOOLEAN :
       \/ part = "device" /\ Device!Create(fromDetail) /\ DeviceOnly
  \/ part = "device" /\ Device!Leave /\ DeviceOnly
  \/ part = "device" /\ Device!List /\ DeviceOnly
  \/ part = "device" /\ Device!Reconcile /\ DeviceOnly
  \/ \E r \in Device!Rows :
       \/ part = "device" /\ Device!Built(r) /\ DeviceOnly
       \/ part = "device" /\ Device!DeleteLands(r) /\ DeviceOnly
       \/ part = "device" /\ Device!Waited(r) /\ DeviceOnly
       \/ part = "device" /\ Device!Start(r) /\ DeviceOnly
       \/ part = "device" /\ Device!Saved(r) /\ DeviceOnly
       \/ part = "device" /\ Device!SaveFails(r) /\ DeviceOnly
       \/ part = "device" /\ Device!Delete(r) /\ DeviceOnly
       \/ part = "device" /\ Device!Forget(r) /\ DeviceOnly
       \/ part = "device" /\ Device!LoseFile(r) /\ DeviceOnly
  \/ \E l \in Leaves :
       \/ part = "art" /\ Picture!Scan(l) /\ ArtOnly
       \/ part = "art" /\ Picture!Reconcile(l) /\ ArtOnly
       \/ part = "art" /\ Picture!Recheck(l) /\ ArtOnly
       \/ part = "art" /\ Picture!Resolve(l) /\ ArtOnly
       \/ part = "art" /\ Picture!PutNext(l) /\ ArtOnly
       \/ part = "art" /\ Picture!PutFails(l) /\ ArtOnly
       \/ part = "art" /\ Picture!CleanNext(l) /\ ArtOnly
       \/ part = "art" /\ Picture!LookUp(l) /\ ArtOnly
       \/ part = "art" /\ Picture!Lend(l) /\ ArtOnly
       \/ part = "art" /\ Picture!Succeed(l) /\ ArtOnly
       \/ part = "art" /\ Picture!Transient(l) /\ ArtOnly
       \/ part = "art" /\ Picture!Fail(l) /\ ArtOnly
       \/ part = "art" /\ Picture!Flag(l) /\ ArtOnly
       \/ \E k \in Picture!Kinds :
            \/ part = "art" /\ Picture!AddSidecar(l, k) /\ ArtOnly
  \/ part = "art" /\ Picture!HeavyScan /\ ArtOnly
  \/ part = "art" /\ Picture!Forget /\ ArtOnly
  \/ part = "art" /\ Picture!Unflag /\ ArtOnly
  \/ \E i \in DOMAIN Offers :
       \/ part = "art" /\ Picture!Match(i) /\ ArtOnly
       \/ part = "art" /\ Picture!FetchPut(i) /\ ArtOnly
       \/ part = "art" /\ Picture!FetchFails(i) /\ ArtOnly
       \/ part = "art" /\ Picture!FetchClean(i) /\ ArtOnly
  \/ part = "sheet" /\ Sheet!Replace /\ SheetOnly
  \/ part = "sheet" /\ Sheet!Scan /\ SheetOnly
  \/ part = "sheet" /\ Sheet!ClearFailures /\ SheetOnly
  \/ part = "sheet" /\ Sheet!Unpoison /\ SheetOnly
  \/ part = "sheet" /\ Sheet!Reconcile /\ SheetOnly
  \/ part = "sheet" /\ Sheet!LaySheet /\ SheetOnly
  \/ part = "sheet" /\ Sheet!Save /\ SheetOnly
  \/ part = "sheet" /\ Sheet!Reject /\ SheetOnly
  \/ part = "sheet" /\ Sheet!LoseSheets /\ SheetOnly
  \/ \E t \in Teams :
       \/ part = "sheet" /\ Sheet!Begin(t) /\ SheetOnly
       \/ \E w \in Sheet!Workers :
            \/ part = "sheet" /\ Sheet!Pull(t, w) /\ SheetOnly
            \/ part = "sheet" /\ Sheet!Leave(t, w) /\ SheetOnly
            \/ part = "sheet" /\ Sheet!Sought(t, w) /\ SheetOnly
            \/ part = "sheet" /\ Sheet!PastTheEnd(t, w) /\ SheetOnly
            \/ part = "sheet" /\ Sheet!OpenBlack(t, w) /\ SheetOnly
            \/ part = "sheet" /\ Sheet!Blackened(t, w) /\ SheetOnly
            \/ part = "sheet" /\ Sheet!CopyBlack(t, w) /\ SheetOnly
            \/ \E how \in {"killed", "broken", "silent"} :
                 \/ part = "sheet" /\ Sheet!Fails(t, w, how) /\ SheetOnly
  \/ \E method \in {"REMUX", "TRANSCODE"} : part = "point" /\ Point!Start(method) /\ PointOnly
  \/ part = "point" /\ Point!Heal /\ PointOnly
  \/ part = "point" /\ Point!ProbeRemux /\ PointOnly
  \/ part = "point" /\ Point!ProbeTranscode /\ PointOnly
  \/ part = "point" /\ Point!Pipe /\ PointOnly
  \/ part = "point" /\ Point!Spawn /\ PointOnly
  \/ part = "point" /\ Point!Stop /\ PointOnly
  \/ \E t \in Point!Times :
       \/ part = "point" /\ Point!Restart(t) /\ PointOnly
       \/ part = "point" /\ Point!Heartbeat(t) /\ PointOnly
  \/ \E watched \in BOOLEAN : part = "point" /\ Point!Mark(watched) /\ PointOnly
  \/ \E s \in Viewers :
       \/ \E file \in Files, client \in Profiles :
            part = "encode" /\ Encode!Start(s, file, client) /\ EncodeOnly
       \/ part = "encode" /\ Encode!Seek(s) /\ EncodeOnly
       \/ part = "encode" /\ Encode!Spawn(s) /\ EncodeOnly
       \/ part = "encode" /\ Encode!FallBack(s) /\ EncodeOnly
       \/ part = "encode" /\ Encode!GiveUp(s) /\ EncodeOnly
       \/ part = "encode" /\ Encode!Stop(s) /\ EncodeOnly
       \/ \E cause \in {"plan", "device", "other"} :
            part = "encode" /\ Encode!Die(s, cause) /\ EncodeOnly
  \/ part = "encode" /\ Encode!Cool /\ EncodeOnly
  \/ \E v \in Viewers :
       \/ \E cap \in StartCaps, asked \in DOMAIN Row.tracks :
            part = "ladder" /\ Ladder!Start(v, cap, asked) /\ LadderOnly
       \/ \E want \in 1..Ladder!NoCap : part = "ladder" /\ Ladder!Menu(v, want) /\ LadderOnly
       \/ \E track \in DOMAIN Row.tracks : part = "ladder" /\ Ladder!Restart(v, track) /\ LadderOnly
       \/ part = "ladder" /\ Ladder!DecodeError(v) /\ LadderOnly
       \/ part = "ladder" /\ Ladder!Hiccup(v) /\ LadderOnly
       \/ part = "ladder" /\ Ladder!Unchanged(v) /\ LadderOnly
       \/ part = "ladder" /\ Ladder!Busy(v) /\ LadderOnly
       \/ part = "ladder" /\ Ladder!ServeFile(v) /\ LadderOnly
       \/ part = "ladder" /\ Ladder!ServeFirst(v) /\ LadderOnly
       \/ part = "ladder" /\ Ladder!ServeNext(v) /\ LadderOnly
       \/ part = "ladder" /\ Ladder!TryAgain(v) /\ LadderOnly
       \/ part = "ladder" /\ Ladder!Leave(v) /\ LadderOnly
  \/ \E defects \in Defects : part = "ladder" /\ Ladder!Rescan(defects) /\ LadderOnly

Spec == Init /\ [][Next]_allvars

-----------------------------------------------------------------------------
(* The rail shows the latest of each season, and no play or minute is      *)
(* counted that was not played (WatchState).                               *)
HistoryIsEarned ==
  part = "watch" => Watch!TypeOK /\ Watch!RailIsLatest /\ Watch!CountsAreEarned

(* "Entries are only dropped on a successful response": a position that is *)
(* no longer queued is on the server, unless a newer one was saved over it *)
(* while the flush was under way.                                          *)
ProgressIsKept ==
  part = "offline" => Offline!TypeOK /\ Offline!ProgressIsKept

(* The offline library lists a download only if its bytes were saved.      *)
EntriesArePlayable ==
  part = "device" => Device!TypeOK /\ Device!EntriesArePlayable

(* A picture only goes when a strictly better one of its kind stays, an    *)
(* item is parked for an administrator only by failures of its own, and    *)
(* sheets taken for current show the file that is there.                   *)
PicturesAreEarned ==
  /\ [](part = "art" => Picture!TypeOK)
  /\ [](part = "sheet" => Sheet!TypeOK /\ Sheet!SheetsShowTheirFile)
  /\ Picture!ReplacedOnlyByBetter /\ Picture!PoisonIsEarned

(* "reported startMs equals the browser's actual timeline origin". *)
AnchoredStartsAreExact ==
  part = "point" => Point!TypeOK /\ Point!AnchoredStartsAreExact

(* Hardware is taken from the process only by an ffmpeg that died on its   *)
(* own account, and whoever lost an encode to it gets one in software.     *)
HardwareIsKept ==
  /\ [](part = "encode" => Encode!TypeOK /\ Encode!FaultsFallBack)
  /\ Encode!OnlyFaultsDisable

(* Nobody climbs the whole ladder in vain, and audio once reported         *)
(* undecodable is not copied into a later stream.                          *)
LadderHolds ==
  /\ [](part = "ladder" => Ladder!TypeOK)
  /\ Ladder!CardsAreEarned
  /\ Ladder!ReportedAudioStaysOut
=============================================================================
