--------------------------- MODULE PlaybackLadder ---------------------------
(***************************************************************************)
(* What happens when a browser cannot decode what it is sent: the ladder   *)
(* from direct play over a remux to a transcode.  WatchPage.tsx climbs it  *)
(* one rung per decode error (audio first, then video), each report goes   *)
(* to POST /playback/:id/quality, which marks the file for everybody and   *)
(* decides again (playback-routes.ts); the quality menu, seeks, Try again  *)
(* and rescans of the file go on meanwhile, for several viewers of it.     *)
(*                                                                         *)
(* bytes says what is really wrong with the file, broken what hokago       *)
(* believes.  The flags are read where the stream is decided, in one step; *)
(* the ffmpeg behind a stream is in PlaybackSessions and EncodeFallback.   *)
(***************************************************************************)
EXTENDS PlaybackPlan

CONSTANTS
  Row,          \* the file, as scanned
  Viewers,      \* its viewers
  Profile,      \* viewer -> what the device says it plays
  Defects,      \* what can be wrong with the bytes: [tracks, video]
  StartCaps,    \* the caps a client may start with
  MaxMenu,      \* bound: menu choices and seeks, together
  MaxBusy,      \* bound: calls refused for want of a slot
  MaxHiccups,   \* bound: decode errors and stalls with nothing wrong
  MaxRescans    \* bound: times the file is replaced

(* What the constants must satisfy, whoever instantiates the module. *)
PlaybackLadderAssumption ==
  /\ DOMAIN Row.tracks \subseteq Nat /\ DOMAIN Row.tracks # {}
  /\ StartCaps \subseteq 1..NoCap
  /\ MaxMenu \in Nat /\ MaxBusy \in Nat /\ MaxHiccups \in Nat /\ MaxRescans \in Nat

VARIABLES
  bytes,   \* the defects of the file on disk
  broken,  \* MediaFile.audioDecodeBroken and videoDecodeBroken
  viewer,  \* viewer -> the session and its page
  spent    \* what is left of the bounds

vars == <<bytes, broken, viewer, spent>>

Off == [pc |-> "off"]
Watching(v) == viewer[v].pc = "playing"
Live(v) == viewer[v].method # "DIRECT_PLAY"

First == Track(Row.tracks, 0)
File(track) == Candidate(Row, track, 0)

Sent(v, method, track) == Stream(method, File(track), Profile[v], broken)

(* Can this browser show the stream it is being sent? *)
Decodes(v) ==
  /\ viewer[v].stream.sameVideo => ~bytes.video
  /\ viewer[v].stream.sameAudio => viewer[v].track \notin bytes.tracks

Spend(what) == spent[what] > 0 /\ spent' = [spent EXCEPT ![what] = @ - 1]

Init ==
  /\ bytes \in Defects
  /\ broken = [audio |-> FALSE, video |-> FALSE]
  /\ viewer = [v \in Viewers |-> Off]
  /\ spent = [menu |-> MaxMenu, busy |-> MaxBusy, hiccup |-> MaxHiccups,
              rescan |-> MaxRescans]

(* /start: decided on the caps as sent and the preferred audio track; an    *)
(* encode runs under the ceiling, the file itself plays its default track. *)
Played(method, track) == IF method = "DIRECT_PLAY" THEN First ELSE track

Start(v, cap, asked) ==
  LET method == Method(File(asked), Profile[v], cap, broken)
      track  == Played(method, Track(Row.tracks, asked)) IN
  /\ viewer[v].pc = "off"
  /\ viewer' = [viewer EXCEPT ![v] =
       [pc |-> "playing", method |-> method, stream |-> Sent(v, method, track),
        track |-> track, first |-> cap, cap |-> Normalized(cap),
        triedAudio |-> FALSE, triedVideo |-> FALSE,
        asked |-> "nothing", want |-> 0]]
  /\ UNCHANGED <<bytes, broken, spent>>

(* A call to /quality leaves the page.  It asks for caps, for a reset, or   *)
(* reports a decode error.                                                 *)
Ask(v, what, want) ==
  [viewer EXCEPT ![v].pc = "calling", ![v].asked = what, ![v].want = want]

(* tryAudioDecodeFallback, then tryVideoDecodeFallback. *)
AudioFirst(v) == ~Live(v) /\ ~viewer[v].triedAudio
VideoNext(v)  == Live(v) /\ ~viewer[v].triedVideo

Escalate(v) ==
  \/ /\ AudioFirst(v)
     /\ viewer' = [Ask(v, "audio", 0) EXCEPT ![v].triedAudio = TRUE]
  \/ /\ VideoNext(v)
     /\ viewer' = [Ask(v, "video", 0) EXCEPT ![v].triedVideo = TRUE]
  \/ /\ ~AudioFirst(v) /\ ~VideoNext(v)
     /\ viewer' = [viewer EXCEPT ![v].pc = "card"]

(* handleMediaError, with a reason and without. *)
DecodeError(v) ==
  /\ Watching(v) /\ ~Decodes(v)
  /\ Escalate(v)
  /\ UNCHANGED <<bytes, broken, spent>>

Hiccup(v) ==
  /\ Watching(v) /\ Decodes(v) /\ Spend("hiccup")
  /\ Escalate(v)
  /\ UNCHANGED <<bytes, broken>>

(* The quality menu: caps, or back to automatic. *)
Menu(v, want) ==
  /\ Watching(v) /\ Spend("menu")
  /\ viewer' = Ask(v, IF want = NoCap THEN "reset" ELSE "caps", want)
  /\ UNCHANGED <<bytes, broken>>

-----------------------------------------------------------------------------
(* /quality: the report is believed for audio from direct play only, for   *)
(* video from anything else.                                               *)
Believed(v) ==
  CASE viewer[v].asked = "audio" -> ~Live(v)
    [] viewer[v].asked = "video" -> Live(v)
    [] OTHER                     -> FALSE

Marked(v) ==
  [audio |-> broken.audio \/ (viewer[v].asked = "audio" /\ Believed(v)),
   video |-> broken.video \/ (viewer[v].asked = "video" /\ Believed(v))]

(* mergedRaw: the caps the new decision is made on. *)
Merged(v) ==
  CASE viewer[v].asked = "reset" -> viewer[v].first
    [] viewer[v].asked = "caps"  -> viewer[v].want
    [] OTHER -> IF Live(v) THEN viewer[v].cap ELSE viewer[v].first

(* Mutant: the same caps always mean there is nothing to do. *)
SameCaps(v) == Live(v) /\ Normalized(Merged(v)) = viewer[v].cap

(* capsSame: a report that was just believed is decided again. *)
NothingToDo(v) ==
  /\ Live(v) /\ ~Believed(v)
  /\ Normalized(Merged(v)) = viewer[v].cap

Unchanged(v) ==
  /\ viewer[v].pc = "calling" /\ NothingToDo(v)
  /\ viewer' = [viewer EXCEPT ![v].pc = "playing"]
  /\ UNCHANGED <<bytes, broken, spent>>

Decided(v) == Method(File(viewer[v].track), Profile[v], Merged(v), Marked(v))

(* The new stream, and the marks that decided it. *)
Redecided(v) == viewer[v].pc = "calling" /\ ~NothingToDo(v)

Serve(v) ==
  LET track == Played(Decided(v), viewer[v].track) IN
  /\ broken' = Marked(v)
  /\ viewer' = [viewer EXCEPT
       ![v].pc = "playing", ![v].method = Decided(v), ![v].track = track,
       ![v].stream = Stream(Decided(v), File(track), Profile[v], Marked(v)),
       ![v].cap = Normalized(Merged(v))]
  /\ UNCHANGED <<bytes, spent>>

(* The ladder is climbed back up: the encode goes, the file plays. *)
ServeFile(v) == Redecided(v) /\ Decided(v) = "DIRECT_PLAY" /\ Serve(v)

(* The session's first ffmpeg. *)
ServeFirst(v) ==
  Redecided(v) /\ Decided(v) # "DIRECT_PLAY" /\ ~Live(v) /\ Serve(v)

(* Its ffmpeg is replaced, maybe by one of the other method. *)
ServeNext(v) ==
  Redecided(v) /\ Decided(v) # "DIRECT_PLAY" /\ Live(v) /\ Serve(v)

(* 503 until the page gives up: the mark is kept, the old stream is gone.  *)
Busy(v) ==
  /\ Redecided(v) /\ Decided(v) # "DIRECT_PLAY" /\ Spend("busy")
  /\ broken' = Marked(v)
  /\ viewer' = [viewer EXCEPT ![v].pc = "card"]
  /\ UNCHANGED bytes

(* Mutant: a restart goes by what the session resolved when it began. *)
CachedAudio(v, track) == viewer[v].stream

(* restartTranscode: the same method, with the audio flag read again. *)
Respawned(v, track) == Sent(v, viewer[v].method, track)

(* A seek, or a change of audio track, restarts the stream. *)
Restart(v, track) ==
  /\ Watching(v) /\ Live(v) /\ Spend("menu")
  /\ viewer' = [viewer EXCEPT ![v].stream = Respawned(v, track), ![v].track = track]
  /\ UNCHANGED <<bytes, broken>>

(* retryPlayback. *)
TryAgain(v) ==
  /\ viewer[v].pc = "card"
  /\ viewer' = [viewer EXCEPT
       ![v].pc = "playing",
       ![v].stream = IF Live(v) THEN Respawned(v, viewer[v].track) ELSE @,
       ![v].triedAudio = @ /\ Live(v),
       ![v].triedVideo = @ /\ viewer[v].method # "REMUX"]
  /\ UNCHANGED <<bytes, broken, spent>>

Leave(v) ==
  /\ viewer[v].pc \in {"playing", "card"}
  /\ viewer' = [viewer EXCEPT ![v] = Off]
  /\ UNCHANGED <<bytes, broken, spent>>

(* Other bytes arrive at the same path and are scanned; nobody is watching. *)
Rescan(defects) ==
  /\ \A v \in Viewers : viewer[v].pc = "off"
  /\ Spend("rescan")
  /\ bytes' = defects
  /\ broken' = [broken EXCEPT !.audio = FALSE]
  /\ UNCHANGED viewer

Next ==
  \/ \E v \in Viewers :
       \/ \E cap \in StartCaps, asked \in DOMAIN Row.tracks : Start(v, cap, asked)
       \/ DecodeError(v) \/ Hiccup(v)
       \/ \E want \in 1..NoCap : Menu(v, want)
       \/ Unchanged(v) \/ Busy(v)
       \/ ServeFile(v) \/ ServeFirst(v) \/ ServeNext(v)
       \/ \E track \in DOMAIN Row.tracks : Restart(v, track)
       \/ TryAgain(v) \/ Leave(v)
  \/ \E defects \in Defects : Rescan(defects)

Spec == Init /\ [][Next]_vars

-----------------------------------------------------------------------------
TypeOK ==
  /\ bytes \in Defects
  /\ broken \in [audio : BOOLEAN, video : BOOLEAN]
  /\ \A v \in Viewers : viewer[v] # Off =>
       /\ viewer[v].pc \in {"playing", "calling", "card"}
       /\ viewer[v].method \in {"DIRECT_PLAY", "REMUX", "TRANSCODE"}
       /\ viewer[v].cap \in 1..Ceiling /\ viewer[v].track \in DOMAIN Row.tracks
  /\ \A what \in DOMAIN spent : spent[what] >= 0

(* A viewer is shown the error card for the server having no room, or for a *)
(* failure that was not the file's; a file with a broken stream never ends  *)
(* the ladder, whoever else reports what of it meanwhile.                   *)
CardsAreEarned ==
  [][\A v \in Viewers :
       (Watching(v) /\ ~Decodes(v)) => viewer'[v].pc # "card"]_vars

(* Audio once reported undecodable is not copied into a stream that is      *)
(* spawned afterwards: not by another viewer's seek or Try again, not by a  *)
(* quality switch, until the file itself is replaced.                       *)
Respawns(v) ==
  (\E track \in DOMAIN Row.tracks : Restart(v, track)) \/ TryAgain(v) \/ (Redecided(v) /\ Serve(v))

ReportedAudioStaysOut ==
  [][\A v \in Viewers :
       (Respawns(v) /\ broken.audio /\ viewer'[v].method # "DIRECT_PLAY")
         => ~viewer'[v].stream.sameAudio]_vars

(* What the page and the route say of a second decode error: REMUX and      *)
(* TRANSCODE "already re-encode/handle audio compatibility", so it proves   *)
(* the video broken.                                                        *)
VideoBlameIsRight == broken.video => bytes.video
=============================================================================
