----------------------------- MODULE StartPoint -----------------------------
(***************************************************************************)
(* Where a stream starts and what the client is told                       *)
(* (apps/api/src/playback-routes.ts, packages/ffmpeg/src/remux.ts and the  *)
(* seek arguments of packages/ffmpeg/src/hls.ts).  The client adds the     *)
(* reported start to the player's time: subtitles, the clock and the saved *)
(* position are wrong by the difference between it and the frame the       *)
(* stream really begins at.                                                *)
(*                                                                         *)
(* Time counts in steps of ten seconds.  A file has keyframes; its seek    *)
(* table knows some of them (Matroska Cues are sparse).  Every ffprobe may *)
(* fail or time out.                                                       *)
(***************************************************************************)
EXTENDS Integers, FiniteSetsExt

CONSTANTS Duration,  \* of the file, in steps
          Margin,    \* the 30 s of the resume rule and of the legacy seek
          Inputs     \* files: [keyframes, table, mkv]

(* What the constants must satisfy, whoever instantiates the module. *)
StartPointAssumption ==
  /\ Duration \in Nat /\ Margin \in Nat
  /\ \A f \in Inputs : /\ 0 \in f.table /\ f.table \subseteq f.keyframes
                       /\ f.keyframes \subseteq 0..Duration

VARIABLES
  input,    \* the file
  row,      \* PlaybackState: [pos, dur, watched]
  session   \* [pc, method, target, anchor, start, piped, origin]

vars == <<input, row, session>>

Times   == 0..Duration
Unknown == -1
Methods == {"REMUX", "TRANSCODE"}
NoSession == [pc |-> "idle", method |-> "REMUX", target |-> 0, anchor |-> Unknown,
              start |-> 0, piped |-> FALSE, origin |-> 0]

(* An older client stored the time that was left as the duration. *)
Init ==
  /\ input \in Inputs
  /\ row \in [pos : Times, watched : {FALSE},
             dur : {Duration, Max({0, Duration - 2 * Margin - 1})}]
  /\ session = NoSession

LastAtOrBefore(points, t) == Max({p \in points : p <= t})

-----------------------------------------------------------------------------
(* resumePositionMs: a duration more than a minute off is not this file's. *)
Phantom == Duration - row.dur > 2 * Margin

ResumePosition ==
  IF row.watched \/ Phantom \/ row.pos < Margin THEN 0
  ELSE Min({row.pos, Max({0, Duration - Margin})})

(* POST /playback/start reads the row, and heals one it does not believe. *)
Start(method) ==
  /\ session.pc = "idle"
  /\ session' = [NoSession EXCEPT !.pc = IF Phantom /\ ~row.watched THEN "heal"
                                         ELSE "probe",
                                  !.method = method,
                                  !.target = ResumePosition]
  /\ UNCHANGED <<input, row>>

Heal ==
  /\ session.pc = "heal"
  /\ row' = [row EXCEPT !.pos = 0, !.dur = Duration]
  /\ session' = [session EXCEPT !.pc = "probe"]
  /\ UNCHANGED input

(* A seek, an audio or a quality switch starts again at its target. *)
Restart(t) ==
  /\ session.pc = "running"
  /\ session' = [session EXCEPT !.pc = "probe", !.target = t]
  /\ UNCHANGED <<input, row>>

-----------------------------------------------------------------------------
(* keyframeAtOrBeforeMs: nothing is probed at the start of the file. *)
Keyframe(t) == LastAtOrBefore(input.keyframes, t)

(* Mutant: the keyframe's time is rounded up, past the target. *)
AnchorRounded(t) == LET after == {k \in input.keyframes : k >= t} IN
                    IF t = 0 \/ after = {} THEN Unknown ELSE Min(after)

(* probeTranscodeSeek: no anchor at the start, nor across a long gap. *)
Anchor(t) == IF t = 0 \/ t - Keyframe(t) > Margin THEN Unknown ELSE Keyframe(t)

ProbeRemux ==
  /\ session.pc = "probe" /\ session.method = "REMUX"
  /\ \E known \in {TRUE} \cup (IF session.target = 0 THEN {} ELSE {FALSE}) :
       session' = [session EXCEPT
                     !.pc = "pipe",
                     !.start = IF known THEN Keyframe(session.target)
                               ELSE session.target]
  /\ UNCHANGED <<input, row>>

ProbeTranscode ==
  /\ session.pc = "probe" /\ session.method = "TRANSCODE"
  /\ \E anchor \in {Unknown, Anchor(session.target)} :
       session' = [session EXCEPT !.pc = "spawn", !.start = session.target,
                                  !.anchor = anchor, !.piped = FALSE]
  /\ UNCHANGED <<input, row>>

(* buildResumeInput: the header and the tail from the keyframe's cluster,  *)
(* when the start is a keyframe of a Matroska file and not its first.      *)
Pipeable == input.mkv /\ session.start > 0 /\ session.start \in input.keyframes

Pipe ==
  /\ session.pc = "pipe"
  /\ \E piped \in {FALSE, Pipeable} :
       session' = [session EXCEPT !.pc = "spawn", !.piped = piped,
                                  !.anchor = Unknown]
  /\ UNCHANGED <<input, row>>

(* The demuxer's seek lands where the table says. *)
Landing(t) == LastAtOrBefore(input.table, t)

RemuxOrigin == IF session.piped THEN session.start ELSE Landing(session.start)

(* The two -ss of buildFfmpegArgs: the second is measured from where the   *)
(* first one landed, and left out when nothing remains.                    *)
FastSeek == IF session.anchor # Unknown THEN session.anchor
            ELSE Max({0, session.start - Margin})

TranscodeOrigin == Landing(FastSeek) + Max({0, session.start - FastSeek})

Spawn ==
  /\ session.pc = "spawn"
  /\ session' = [session EXCEPT !.pc = "running",
                                !.origin = IF session.method = "REMUX"
                                           THEN RemuxOrigin ELSE TranscodeOrigin]
  /\ UNCHANGED <<input, row>>

Stop ==
  /\ session.pc = "running"
  /\ session' = NoSession
  /\ UNCHANGED <<input, row>>

-----------------------------------------------------------------------------
(* Heartbeats, from this or another device; the rules are in WatchState. *)
Heartbeat(t) ==
  /\ row' = [pos |-> t, dur |-> Duration, watched |-> row.watched]
  /\ UNCHANGED <<input, session>>

Mark(watched) ==
  /\ row' = [row EXCEPT !.watched = watched]
  /\ UNCHANGED <<input, session>>

Next ==
  \/ \E method \in Methods : Start(method)
  \/ Heal \/ ProbeRemux \/ ProbeTranscode \/ Pipe \/ Spawn \/ Stop
  \/ \E t \in Times : Restart(t) \/ Heartbeat(t)
  \/ \E watched \in BOOLEAN : Mark(watched)

Spec == Init /\ [][Next]_vars

-----------------------------------------------------------------------------
(* The row and the session have their declared shape. *)
TypeOK ==
  /\ input \in Inputs
  /\ row \in [pos : Times, dur : 0..Duration, watched : BOOLEAN]
  /\ session.pc \in {"idle", "heal", "probe", "pipe", "spawn", "running"}
  /\ session.method \in Methods
  /\ session.target \in Times /\ session.start \in Times
  /\ session.anchor \in Times \cup {Unknown}
  /\ session.piped \in BOOLEAN /\ session.origin \in Times

(* The probes answered, and the seek table knows what they found. *)
Anchored ==
  \/ session.method = "REMUX" /\ (session.piped \/ session.start \in input.table)
  \/ session.method = "TRANSCODE" /\ session.anchor \in input.table

(* "reported startMs equals the browser's actual timeline origin": a start *)
(* with its anchor begins at the frame the client is told, and a TRANSCODE *)
(* at the position that was asked for.                                     *)
AnchoredStartsAreExact ==
  session.pc = "running" /\ Anchored =>
    /\ session.origin = session.start
    /\ session.method = "TRANSCODE" => session.start = session.target

(* probeTranscodeSeek: "the demuxer lands exactly there". *)
AnchorsAreExact ==
  session.pc = "running" /\ session.anchor # Unknown => session.origin = session.start

(* "Treat the row as fresh and heal it": only a phantom position is erased. *)
HealsOnlyPhantoms == [][session.pc = "heal" /\ session'.pc = "probe" => Phantom]_vars
=============================================================================
