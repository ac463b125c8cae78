---------------------------- MODULE SegmentFiles ----------------------------
(***************************************************************************)
(* The files of one TRANSCODE session (apps/api/src/playback-routes.ts):   *)
(* ffmpeg closes numbered segments one after the other, a seek restarts it *)
(* in the same directory, the playlist is written by a seek and by the     *)
(* exit callback that truncates it (packages/ffmpeg/src/hls.ts), and the   *)
(* segment route waits for files to appear.                                *)
(*                                                                         *)
(* Positions count in segments.  A run is one ffmpeg child; a file holds   *)
(* the number of the run that closed it, since each run cuts the video     *)
(* from its own start.  Slots, jobs, stop and hardware fallback are in     *)
(* PlaybackSessions and FfmpegGate: here no run is retried.                *)
(***************************************************************************)
EXTENDS Integers, FiniteSets

CONSTANTS Count,       \* segmentCount of the file
          Requests,    \* segment requests
          MaxRuns,     \* bound: ffmpeg runs, the first included
          MaxFaults    \* bound: runs that die on their own

(* What the constants must satisfy, whoever instantiates the module. *)
SegmentFilesAssumption ==
  Count \in Nat \ {0} /\ MaxRuns \in Nat \ {0} /\ MaxFaults \in Nat

VARIABLES
  live,      \* the session's entry: [run, from, restarting]
  child,     \* each run: [from, next, state]
  files,     \* which run's segment-N.ts there is, 0 for none
  playlist,  \* segments listed by playlist.m3u8
  tmp,       \* playlist.m3u8.tmp
  exit,      \* truncatePlaylistOnExit of each run
  seek,      \* the seek in flight
  player,    \* the playlist the player loaded, and from which run
  req,       \* the segment route's handlers
  faults

vars == <<live, child, files, playlist, tmp, exit, seek, player, req, faults>>

Segments == 0..(Count - 1)
Runs     == 1..MaxRuns
NoFile   == [there |-> FALSE, lists |-> {}]
NoChild  == [from |-> 0, next |-> 0, state |-> "none"]
NoExit   == [pc |-> "idle", lists |-> {}]
NoSeek   == [pc |-> "idle", target |-> 0, run |-> 1]
NoReq    == [pc |-> "idle", n |-> 0, run |-> 1, got |-> 0]

(* buildM3u8: everything from the run's first segment on. *)
Promise(from) == from..(Count - 1)

(* A started session, from the top or from a resume position. *)
Init ==
  /\ \E from \in Segments :
       /\ live = [run |-> 1, from |-> from, restarting |-> FALSE]
       /\ child = [r \in Runs |-> IF r = 1 THEN [from |-> from, next |-> from,
                                                 state |-> "running"]
                                  ELSE NoChild]
       /\ playlist = Promise(from)
       /\ player = [lists |-> Promise(from), run |-> 1]
  /\ files = [n \in Segments |-> 0]
  /\ tmp = NoFile
  /\ exit = [r \in Runs |-> NoExit]
  /\ seek = NoSeek
  /\ req = [q \in Requests |-> NoReq]
  /\ faults = 0

-----------------------------------------------------------------------------
(* ffmpeg, with -hls_flags temp_file: a segment exists once it is closed. *)
Running(r) == child[r].state = "running"

CloseSegment(r) ==
  /\ Running(r) /\ child[r].next < Count
  /\ files' = [files EXCEPT ![child[r].next] = r]
  /\ child' = [child EXCEPT ![r].next = @ + 1]
  /\ UNCHANGED <<live, playlist, tmp, exit, seek, player, req, faults>>

End(r, state) ==
  /\ child' = [child EXCEPT ![r].state = state]
  /\ exit' = [exit EXCEPT ![r].pc = "check"]

Complete(r) ==
  /\ Running(r) /\ child[r].next = Count
  /\ End(r, "exited")
  /\ UNCHANGED <<live, files, playlist, tmp, seek, player, req, faults>>

Die(r) ==
  /\ Running(r) /\ faults < MaxFaults
  /\ faults' = faults + 1
  /\ End(r, "exited")
  /\ UNCHANGED <<live, files, playlist, tmp, seek, player, req>>

-----------------------------------------------------------------------------
(* truncatePlaylistOnExit: the pid check, the readdir, the two writes. *)
ExitCheck(r) ==
  /\ exit[r].pc = "check"
  /\ exit' = [exit EXCEPT ![r].pc = IF live.run = r /\ ~live.restarting
                                    THEN "readdir" ELSE "idle"]
  /\ UNCHANGED <<live, child, files, playlist, tmp, seek, player, req, faults>>

(* lastWrittenSegment is the highest number there is. *)
Written == {n \in Segments : files[n] # 0}
ListedUpTo(from) == {n \in Promise(from) : \E m \in Written : n <= m}

Readdir(r) ==
  /\ exit[r].pc = "readdir"
  /\ exit' = [exit EXCEPT ![r] = [pc |-> "write",
                                  lists |-> ListedUpTo(child[r].from)]]
  /\ UNCHANGED <<live, child, files, playlist, tmp, seek, player, req, faults>>

WriteTruncated(r) ==
  /\ exit[r].pc = "write"
  /\ tmp' = [there |-> TRUE, lists |-> exit[r].lists]
  /\ exit' = [exit EXCEPT ![r].pc = "rename"]
  /\ UNCHANGED <<live, child, files, playlist, seek, player, req, faults>>

(* A rename that finds no tmp file fails, and that is swallowed. *)
RenameTruncated(r) ==
  /\ exit[r].pc = "rename"
  /\ playlist' = IF tmp.there THEN tmp.lists ELSE playlist
  /\ tmp' = NoFile
  /\ exit' = [exit EXCEPT ![r] = NoExit]
  /\ UNCHANGED <<live, child, files, seek, player, req, faults>>

-----------------------------------------------------------------------------
(* POST /playback/:sessionId/seek. *)
Produced(n) == files[n] # 0 /\ n >= live.from

(* What is produced needs no restart; what is not kills the run. *)
Seek(n) ==
  /\ seek.pc = "idle" /\ ~live.restarting
  /\ ~Produced(n) /\ live.run < MaxRuns
  /\ seek' = [pc |-> "spawn", target |-> n, run |-> live.run]
  /\ live' = [live EXCEPT !.restarting = TRUE]
  /\ IF Running(live.run) THEN End(live.run, "killed") ELSE UNCHANGED <<child, exit>>
  /\ UNCHANGED <<files, playlist, tmp, player, req, faults>>

Spawn ==
  /\ seek.pc = "spawn"
  /\ child' = [child EXCEPT ![live.run + 1] =
                 [from |-> seek.target, next |-> seek.target, state |-> "running"]]
  /\ seek' = [seek EXCEPT !.pc = "write", !.run = live.run + 1]
  /\ UNCHANGED <<live, files, playlist, tmp, exit, player, req, faults>>

WritePlaylist ==
  /\ seek.pc = "write"
  /\ tmp' = [there |-> TRUE, lists |-> Promise(seek.target)]
  /\ seek' = [seek EXCEPT !.pc = "rename"]
  /\ UNCHANGED <<live, child, files, playlist, exit, player, req, faults>>

(* The entry follows the playlist; a rename that finds no tmp file throws  *)
(* out of the handler, before the entry is set.                            *)
Commit ==
  /\ seek.pc = "rename"
  /\ seek' = NoSeek
  /\ tmp' = NoFile
  /\ IF tmp.there
     THEN /\ playlist' = tmp.lists
          /\ live' = [run |-> seek.run, from |-> seek.target, restarting |-> FALSE]
     ELSE UNCHANGED <<playlist, live>>
  /\ UNCHANGED <<child, files, exit, player, req, faults>>

-----------------------------------------------------------------------------
(* GET playlist.m3u8, which the player loads again after every restart. *)
Load ==
  /\ player' = [lists |-> playlist, run |-> live.run]
  /\ UNCHANGED <<live, child, files, playlist, tmp, exit, seek, req, faults>>

(* GET segment-N.ts keeps the entry it found. *)
Ask(q, n) ==
  /\ req[q].pc = "idle" /\ n \in player.lists
  /\ req' = [req EXCEPT ![q] = [pc |-> "wait", n |-> n, run |-> live.run, got |-> 0]]
  /\ UNCHANGED <<live, child, files, playlist, tmp, exit, seek, player, faults>>

(* Mutant: only an exit code counts as dead. *)
ExitedOnly(r) == child[r].state = "exited"

(* exitCode or signalCode. *)
Dead(r) == child[r].state \in {"exited", "killed"}

Answer(q) ==
  /\ req[q].pc = "wait"
  /\ files[req[q].n] # 0 \/ Dead(req[q].run)
  /\ req' = [req EXCEPT ![q].pc = "done", ![q].got = files[req[q].n]]
  /\ UNCHANGED <<live, child, files, playlist, tmp, exit, seek, player, faults>>

(* The player asks for another segment, or is done with this one. *)
Forget(q) ==
  /\ req[q].pc = "done"
  /\ req' = [req EXCEPT ![q] = NoReq]
  /\ UNCHANGED <<live, child, files, playlist, tmp, exit, seek, player, faults>>

-----------------------------------------------------------------------------
ChildStep(r) == CloseSegment(r) \/ Complete(r)
ExitStep(r)  == \/ ExitCheck(r) \/ Readdir(r)
                \/ WriteTruncated(r) \/ RenameTruncated(r)
SeekStep     == Spawn \/ WritePlaylist \/ Commit

Next ==
  \/ \E r \in Runs : ChildStep(r) \/ Die(r) \/ ExitStep(r)
  \/ \E n \in Segments : Seek(n)
  \/ SeekStep \/ Load
  \/ \E q \in Requests : \/ Answer(q) \/ Forget(q)
                         \/ \E n \in Segments : Ask(q, n)

Spec == Init /\ [][Next]_vars

(* ffmpeg makes progress and the handlers run on; the route's 120 seconds  *)
(* are never waited for.                                                   *)
FairSpec == /\ Spec /\ WF_vars(SeekStep)
            /\ \A r \in Runs : WF_vars(ChildStep(r)) /\ WF_vars(ExitStep(r))
            /\ \A q \in Requests : WF_vars(Answer(q))

-----------------------------------------------------------------------------
(* Every file, handler and run has its declared shape. *)
TypeOK ==
  /\ live \in [run : Runs, from : Segments, restarting : BOOLEAN]
  /\ child \in [Runs -> [from : Segments, next : 0..Count,
                         state : {"none", "running", "exited", "killed"}]]
  /\ files \in [Segments -> 0..MaxRuns]
  /\ playlist \subseteq Segments
  /\ tmp \in [there : BOOLEAN, lists : SUBSET Segments]
  /\ exit \in [Runs -> [pc : {"idle", "check", "readdir", "write", "rename"},
                        lists : SUBSET Segments]]
  /\ seek \in [pc : {"idle", "spawn", "write", "rename"}, target : Segments,
               run : Runs]
  /\ player \in [lists : SUBSET Segments, run : Runs]
  /\ req \in [Requests -> [pc : {"idle", "wait", "done"}, n : Segments,
                           run : Runs, got : 0..MaxRuns]]
  /\ faults \in 0..MaxFaults

(* "Fail fast the moment the child dies instead of holding the request     *)
(* 120s": a request is answered by its file or by the end of its run, also *)
(* when a seek kills that run while the request waits.                     *)
RequestsEnd == \A q \in Requests : []<>(req[q].pc # "wait")

(* buildTruncatedM3u8: "only the segments that actually exist on disk". *)
TruncatedIsHonest ==
  [][\A r \in Runs : exit[r].pc = "readdir" /\ exit'[r].pc = "write"
       => exit'[r].lists \subseteq Written]_vars

(* A segment served to a player was cut by the run whose playlist the      *)
(* player loaded last, or by a later one.                                  *)
OwnSegmentsOnly ==
  \A q \in Requests : req[q].pc = "done" /\ req[q].got # 0
                      => req[q].got >= req[q].run

(* While a run encodes, the playlist is that run's. *)
PlaylistIsTheRuns ==
  ~live.restarting /\ Running(live.run) => playlist = Promise(live.from)
=============================================================================
