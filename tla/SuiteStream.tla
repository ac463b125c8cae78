----------------------------- MODULE SuiteStream -----------------------------
(***************************************************************************)
(* One run for what every stream waits on, each part in a world of its     *)
(* own: the transcode slots (TranscodeSlot), the session handlers under    *)
(* fair scheduling (PlaybackSessions, Live), the worker's ffmpeg passes    *)
(* and their GPU slots (FfmpegGate), the segment route (SegmentFiles) and  *)
(* the remux route (RemuxFollow).  part says which world this behaviour is *)
(* of; the others never move.                                              *)
(***************************************************************************)
EXTENDS TranscodeSlot, TLC

CONSTANTS
  None, c1, c2, c3, c4, c5,
  Passes, Streams, Ghosts, MaxSpawns, GpuLimit, GateFaults,  \* of FfmpegGate
  SegmentCount, Players, MaxRuns, SegmentFaults,                    \* of SegmentFiles
  Fragments, Readers, MaxFiles, RemuxFaults                  \* of RemuxFollow

VARIABLES
  part,
  lActive, lWaiters, lClient,
  world, session, live, reserved, req, child, job, term, strand, dirs, listing,
  gPc, hw, ran, cpu, slots, old, saw, gActive, line, gFaults,
  fLive, fChild, files, playlist, tmp, exit, seek, player, fReq, fFaults,
  mLive, mChild, file, mSeek, reader, mFaults

MCClients == {c1, c2, c3, c4, c5}

(* Three handlers that start, seek and stop one session; children may die. *)
Runs == {c1, c2, c3}

Live == INSTANCE PlaybackSessions WITH
  Sessions <- {"session"}, Requests <- Runs, MaxTranscodes <- 1,
  Worlds <- {[sessions |-> 1, runs |-> 3, kinds |-> {"start", "seek", "stop"},
              methods |-> {"TRANSCODE"}, hw |-> {FALSE}, exits |-> {"exitedBad"},
              faults |-> {}, overlap |-> FALSE]},
  active <- lActive, waiters <- lWaiters, client <- lClient

Gate == INSTANCE FfmpegGate WITH
  MaxFaults <- GateFaults, pc <- gPc, active <- gActive, faults <- gFaults

Segment == INSTANCE SegmentFiles WITH
  Count <- SegmentCount, Requests <- Players, MaxFaults <- SegmentFaults,
  live <- fLive, child <- fChild, req <- fReq, faults <- fFaults

Remux == INSTANCE RemuxFollow WITH
  MaxFaults <- RemuxFaults,
  live <- mLive, child <- mChild, seek <- mSeek, faults <- mFaults

(* Every world's constants are what its module asks for. *)
ASSUME StreamWorlds ==
  /\ Live!PlaybackAssumption /\ Gate!FfmpegGateAssumption
  /\ Segment!SegmentFilesAssumption /\ Remux!RemuxFollowAssumption

poolvars    == <<active, waiters, client>>
livevars    == <<world, lActive, lWaiters, lClient, session, live, reserved, req, child, job,
                 term, strand, dirs, listing>>
gatevars    == <<gPc, hw, ran, cpu, slots, old, saw, gActive, line, gFaults>>
segmentvars == <<fLive, fChild, files, playlist, tmp, exit, seek, player, fReq, fFaults>>
remuxvars   == <<mLive, mChild, file, mSeek, reader, mFaults>>
allvars == <<part, poolvars, livevars, gatevars, segmentvars, remuxvars>>

(* A world that is not this behaviour's starts in one of its states only. *)
SuiteInit ==
  /\ part \in {"pool", "live", "gate", "segment", "remux"}
  /\ Init /\ Live!Init /\ Gate!Init /\ Segment!Init /\ Remux!Init
  /\ part # "gate" => hw
  /\ part # "segment" => fLive.from = 0

PoolOnly    == UNCHANGED <<part, livevars, gatevars, segmentvars, remuxvars>>
LiveOnly    == UNCHANGED <<part, poolvars, gatevars, segmentvars, remuxvars>>
GateOnly    == UNCHANGED <<part, poolvars, livevars, segmentvars, remuxvars>>
SegmentOnly == UNCHANGED <<part, poolvars, livevars, gatevars, remuxvars>>
RemuxOnly   == UNCHANGED <<part, poolvars, livevars, gatevars, segmentvars>>

SuiteNext ==
  \/ \E c \in Clients : \/ part = "pool" /\ Acquire(c) /\ PoolOnly
                        \/ part = "pool" /\ Timeout(c) /\ PoolOnly
                        \/ part = "pool" /\ Release(c) /\ PoolOnly
  \/ \E r \in Runs : \/ part = "live" /\ Live!Call(r) /\ LiveOnly
                     \/ part = "live" /\ Live!Continue(r) /\ LiveOnly
                     \/ part = "live" /\ Live!Exit(r) /\ LiveOnly
                     \/ part = "live" /\ Live!AfterExit(r) /\ LiveOnly
  \/ part = "live" /\ Live!SweepJobs /\ LiveOnly
  \/ \E h \in Gate!Holders :
       \/ part = "gate" /\ Gate!Call(h) /\ GateOnly
       \/ part = "gate" /\ Gate!Prune(h) /\ GateOnly
       \/ part = "gate" /\ Gate!Count(h) /\ GateOnly
       \/ part = "gate" /\ Gate!Add(h) /\ GateOnly
       \/ \E to \in {"prune", "gate", "run"} : part = "gate" /\ Gate!WaitOrGiveUp(h, to) /\ GateOnly
  \/ \E m \in Gate!Holders \cup Ghosts : part = "gate" /\ Gate!GrowOld(m) /\ GateOnly
  \/ \E p \in Passes : \/ part = "gate" /\ Gate!EnterGate(p) /\ GateOnly
                       \/ part = "gate" /\ Gate!Exit(p) /\ GateOnly
                       \/ part = "gate" /\ Gate!ExitHw(p) /\ GateOnly
                       \/ part = "gate" /\ Gate!Return(p) /\ GateOnly
  \/ \E s \in Streams : part = "gate" /\ Gate!StreamEnds(s) /\ GateOnly
  \/ \E s \in Streams, g \in Ghosts : part = "gate" /\ Gate!StreamDies(s, g) /\ GateOnly
  \/ \E r \in Segment!Runs : \/ part = "segment" /\ Segment!CloseSegment(r) /\ SegmentOnly
                             \/ part = "segment" /\ Segment!Complete(r) /\ SegmentOnly
                             \/ part = "segment" /\ Segment!Die(r) /\ SegmentOnly
                             \/ part = "segment" /\ Segment!ExitCheck(r) /\ SegmentOnly
                             \/ part = "segment" /\ Segment!Readdir(r) /\ SegmentOnly
                             \/ part = "segment" /\ Segment!WriteTruncated(r) /\ SegmentOnly
                             \/ part = "segment" /\ Segment!RenameTruncated(r) /\ SegmentOnly
  \/ \E n \in Segment!Segments :
       \/ part = "segment" /\ Segment!Seek(n) /\ SegmentOnly
       \/ \E q \in Players : part = "segment" /\ Segment!Ask(q, n) /\ SegmentOnly
  \/ part = "segment" /\ Segment!Spawn /\ SegmentOnly
  \/ part = "segment" /\ Segment!WritePlaylist /\ SegmentOnly
  \/ part = "segment" /\ Segment!Commit /\ SegmentOnly
  \/ part = "segment" /\ Segment!Load /\ SegmentOnly
  \/ \E q \in Players : \/ part = "segment" /\ Segment!Answer(q) /\ SegmentOnly
                        \/ part = "segment" /\ Segment!Forget(q) /\ SegmentOnly
  \/ \E f \in Remux!Files : \/ part = "remux" /\ Remux!OpenOutput(f) /\ RemuxOnly
                            \/ part = "remux" /\ Remux!Append1(f) /\ RemuxOnly
                            \/ part = "remux" /\ Remux!Finish(f) /\ RemuxOnly
                            \/ part = "remux" /\ Remux!Fail(f) /\ RemuxOnly
  \/ part = "remux" /\ Remux!Seek /\ RemuxOnly
  \/ part = "remux" /\ Remux!Spawn /\ RemuxOnly
  \/ part = "remux" /\ Remux!Swap /\ RemuxOnly
  \/ \E r \in Readers : \/ part = "remux" /\ Remux!Refuse(r) /\ RemuxOnly
                        \/ part = "remux" /\ Remux!Send(r) /\ RemuxOnly
                        \/ part = "remux" /\ Remux!Follow(r) /\ RemuxOnly
                        \/ part = "remux" /\ Remux!OpenFile(r) /\ RemuxOnly
                        \/ part = "remux" /\ Remux!Read(r) /\ RemuxOnly
                        \/ part = "remux" /\ Remux!Look(r) /\ RemuxOnly
                        \/ part = "remux" /\ Remux!Leave(r) /\ RemuxOnly

(* The fairness of each module, in its own world. *)
SuiteSpec ==
  /\ SuiteInit /\ [][SuiteNext]_allvars
  /\ \A c \in Clients : WF_poolvars(part = "pool" /\ Timeout(c))
  /\ \A r \in Runs :
       /\ WF_livevars(part = "live" /\ Live!Continue(r))
       /\ WF_livevars(part = "live" /\ Live!AfterExit(r))
       /\ WF_livevars(part = "live" /\ child[r] = "killed" /\ Live!Exit(r))
  /\ WF_livevars(part = "live" /\ Live!SweepJobs)
  /\ \A p \in Passes :
       /\ WF_gatevars(part = "gate" /\ (Gate!Prune(p) \/ Gate!Count(p) \/ Gate!Add(p)))
       /\ SF_gatevars(part = "gate" /\ Gate!WaitOrGiveUp(p, "gate"))
       /\ WF_gatevars(part = "gate" /\ (Gate!EnterGate(p) \/ Gate!Exit(p) \/ Gate!Return(p)))
  /\ WF_segmentvars(part = "segment" /\ Segment!SeekStep)
  /\ \A r \in Segment!Runs :
       /\ WF_segmentvars(part = "segment" /\ Segment!ChildStep(r))
       /\ WF_segmentvars(part = "segment" /\ Segment!ExitStep(r))
  /\ \A q \in Players : WF_segmentvars(part = "segment" /\ Segment!Answer(q))
  /\ WF_remuxvars(part = "remux" /\ (Remux!Spawn \/ Remux!Swap))
  /\ \A f \in Remux!Files : WF_remuxvars(part = "remux" /\ Remux!ChildStep(f))
  /\ \A r \in Readers : WF_remuxvars(part = "remux" /\ Remux!ReaderStep(r))

-----------------------------------------------------------------------------
(* The worker's ffmpeg gate and its GPU slots are exact, and a remux that   *)
(* is sent whole knows its duration (see the modules).                     *)
WorldsAreExact ==
  /\ Gate!TypeOK /\ Gate!GateIsExact
  /\ Segment!TypeOK
  /\ Remux!TypeOK /\ Remux!DurationIsKnown

(* A pass of the worker, a segment request and a follower of a remux file   *)
(* all end, whatever dies or is restarted under them; no session stays      *)
(* marked as restarting, a restart that lost against a stop gets rid of its *)
(* child, and no job of an ended session stays RUNNING.                     *)
StreamsSettle ==
  /\ Gate!PassesEnd /\ Segment!RequestsEnd /\ Remux!FollowersEnd
  /\ Live!RestartsEnd /\ Live!LateRestartIsUndone /\ Live!EndedJobsSettle
=============================================================================
