-------------------------- MODULE PlaybackSessions --------------------------
(***************************************************************************)
(* Live playback sessions of apps/api/src/playback-routes.ts: the handlers *)
(* that start, restart, reset and stop a session's ffmpeg child, and the   *)
(* exit callbacks of those children.  Everything between two awaits runs   *)
(* undisturbed on the event loop, so one action is the code from one await *)
(* to the next; a database write the others can observe in between is an   *)
(* action of its own.                                                      *)
(*                                                                         *)
(* A member of Requests names one run of a handler and the one child it    *)
(* may spawn; it is also the client that child's transcode slot belongs to *)
(* (TranscodeSlot).  The number of Requests bounds a behaviour.            *)
(***************************************************************************)
EXTENDS Naturals, Sequences, FiniteSets

CONSTANTS
  Sessions,       \* playback session ids
  Requests,       \* handler runs
  None,           \* no live entry, no playlist
  MaxTranscodes,  \* HOKAGO_MAX_TRANSCODES
  Worlds          \* what may happen in a behaviour: a set of WorldType

Restarts == {"seek", "switch"}
AllKinds == Restarts \cup {"start", "first", "reset", "stop", "fallback"}
Dirs     == {"main", "alt"}

(* A world bounds the sessions that start and the handler runs that begin, *)
(* and says which handlers are called, what the decider chooses, whether a *)
(* TRANSCODE spawn gets hardware encoding, how a child may end by itself,  *)
(* which awaited calls may reject, and whether clients overlap restarts.   *)
WorldType ==
  [sessions : Nat, runs : Nat, kinds : SUBSET AllKinds,
   methods : SUBSET {"DIRECT_PLAY", "REMUX", "TRANSCODE"},
   hw : SUBSET BOOLEAN, exits : SUBSET {"exitedOk", "exitedBad"},
   faults : SUBSET {"setup", "prep", "commit", "write"}, overlap : BOOLEAN]

Entry == [child : Requests, dir : Dirs, method : {"REMUX", "TRANSCODE"},
          hw : BOOLEAN, restarting : BOOLEAN]

(* What the constants must satisfy, whoever instantiates the module: None  *)
(* is no handler run, no session and no entry.                             *)
PlaybackAssumption ==
  /\ IsFiniteSet(Requests)
  /\ MaxTranscodes \in Nat \ {0}
  /\ Worlds \subseteq WorldType
  /\ None \notin Requests \cup Sessions \cup Entry

ASSUME Playback == PlaybackAssumption

VARIABLES
  world,     \* what may happen in this behaviour
  active, waiters, client,  \* the transcode slot semaphore
  session,   \* PlaybackSession row: none, open, or ended (endedAt set)
  live,      \* liveSessions: the session's entry, or None
  reserved,  \* pendingQualitySpawns
  req,       \* each handler run: its await point and its local variables
  child,     \* the ffmpeg child a handler run spawned
  job,       \* that child's TranscodeJob row
  term,      \* the exit callback still has to write the job's last state
  strand,    \* the exit callback's truncate-then-fallback strand
  dirs,      \* the session's output directories that exist
  listing    \* whose segments the playlist in a directory lists

slotVars  == <<active, waiters, client>>
childVars == <<child, job, term, strand>>
diskVars  == <<dirs, listing>>
vars == <<world, slotVars, session, live, reserved, req, childVars, diskVars>>

Slot == INSTANCE TranscodeSlot WITH Clients <- Requests

-----------------------------------------------------------------------------
Sess(r)     == req[r].sess
Alive(c)    == child[c] \in {"running", "killed"}
At(r, pc)   == req[r].pc = pc
Goto(r, pc) == req' = [req EXCEPT ![r].pc = pc]
HwOf(m)     == IF m = "TRANSCODE" THEN world.hw ELSE {FALSE}
IsRestart(r) == req[r].kind \in Restarts \cup {"fallback"}

NewEntry(r, d, m, h) ==
  [child |-> r, dir |-> d, method |-> m, hw |-> h, restarting |-> FALSE]

(* The handler returns.  Of its locals only the directory lives on, in the *)
(* exit callback of its child.                                             *)
Finish(r) ==
  req' = [req EXCEPT ![r] =
            [pc |-> "done", kind |-> @.kind, sess |-> @.sess, method |-> "none",
             seen |-> IF child[r] = "none" THEN None
                      ELSE NewEntry(r, @.seen.dir, "REMUX", FALSE)]]

(* child.kill("SIGKILL") if it has not exited: the exit comes later. *)
Killed(c) == [child EXCEPT ![c] = IF @ = "running" THEN "killed" ELSE @]

(* Mutant: the early exits of a restart forget to put the entry back. *)
RestoredNever(r) == live

(* Where restartTranscode gives up: the entry goes back as the caller passed it. *)
Restored(r) ==
  IF IsRestart(r) /\ live[Sess(r)] # None
  THEN [live EXCEPT ![Sess(r)] = req[r].seen] ELSE live

(* The handler is over; a first quality spawn drops its reservation. *)
Unreserved(r) ==
  IF req[r].kind = "first" THEN reserved \ {Sess(r)} ELSE reserved

(* The web player sends one restart at a time (pumpRestart); others need not. *)
Outstanding(s) ==
  \E q \in Requests : Sess(q) = s /\ req[q].kind \in Restarts /\ ~At(q, "done")

(* The session id is unknown to clients until /start answers, and the idle *)
(* reaper's five minutes are longer than /start can take.                  *)
Starting(s) ==
  \E q \in Requests : Sess(q) = s /\ req[q].kind = "start" /\ ~At(q, "done")

MayBegin(r, s, k) ==
  /\ At(r, "idle")
  /\ Cardinality({q \in Requests : ~At(q, "idle")}) < world.runs
  /\ k \in world.kinds
  /\ ~Starting(s)
  /\ k \in Restarts => world.overlap \/ ~Outstanding(s)

Begin(r, s, k, pc, e, m) ==
  req' = [req EXCEPT ![r] = [pc |-> pc, kind |-> k, sess |-> s, seen |-> e,
                             method |-> m]]

Init ==
  /\ world \in Worlds
  /\ Slot!Init
  /\ session = [s \in Sessions |-> "none"]
  /\ live = [s \in Sessions |-> None]
  /\ reserved = {}
  /\ req = [r \in Requests |-> [pc |-> "idle", kind |-> "none", sess |-> None,
                                seen |-> None, method |-> "none"]]
  /\ child = [r \in Requests |-> "none"]
  /\ job = [r \in Requests |-> "none"]
  /\ term = [r \in Requests |-> FALSE]
  /\ strand = [r \in Requests |-> "none"]
  /\ dirs = [s \in Sessions |-> {}]
  /\ listing = [s \in Sessions |-> [d \in Dirs |-> None]]

-----------------------------------------------------------------------------
(* POST /playback/start up to the wait for a slot: the row exists from here. *)
Start(r, s) ==
  /\ MayBegin(r, s, "start")
  /\ session[s] = "none"
  /\ Cardinality({q \in Sessions : session[q] # "none"}) < world.sessions
  /\ session' = [session EXCEPT ![s] = "open"]
  /\ \/ /\ "DIRECT_PLAY" \in world.methods
        /\ Begin(r, s, "start", "done", None, "DIRECT_PLAY")
     \/ \E m \in world.methods \ {"DIRECT_PLAY"} : \E h \in HwOf(m) :
          Begin(r, s, "start", "acquire", NewEntry(r, "main", m, h), m)
  /\ UNCHANGED <<world, slotVars, live, reserved, childVars, diskVars>>

(* /quality on a session with no child: its first spawn, reserved at once. *)
FirstSpawn(r, s) ==
  /\ MayBegin(r, s, "first")
  /\ live[s] = None
  /\ session[s] # "none"
  /\ s \notin reserved
  /\ reserved' = reserved \cup {s}
  /\ \E m \in world.methods \ {"DIRECT_PLAY"} : \E h \in HwOf(m) :
       Begin(r, s, "first", "acquire", NewEntry(r, "alt", m, h), m)
  /\ UNCHANGED <<world, slotVars, session, live, childVars, diskVars>>

(* /seek outside the produced range: the entry is read here and used later. *)
Seek(r, s) ==
  /\ MayBegin(r, s, "seek")
  /\ live[s] # None
  /\ Begin(r, s, "seek", "cancel", live[s], live[s].method)
  /\ UNCHANGED <<world, slotVars, session, live, reserved, childVars, diskVars>>

(* /audio-track, and /quality with a child running: a restart into the     *)
(* directory of the track or of the caps; /quality may change the method.  *)
Switch(r, s) ==
  /\ MayBegin(r, s, "switch")
  /\ live[s] # None
  /\ \E d \in Dirs, m \in world.methods \ {"DIRECT_PLAY"} :
       Begin(r, s, "switch", "cancel", [live[s] EXCEPT !.dir = d], m)
  /\ UNCHANGED <<world, slotVars, session, live, reserved, childVars, diskVars>>

(* /quality that re-decides to DIRECT_PLAY: killSessionTranscode follows. *)
Reset(r, s) ==
  /\ MayBegin(r, s, "reset")
  /\ live[s] # None
  /\ Begin(r, s, "reset", "kill", None, "DIRECT_PLAY")
  /\ UNCHANGED <<world, slotVars, session, live, reserved, childVars, diskVars>>

(* stopSession, called by /stop, the idle reaper and shutdown. *)
Stop(r, s) ==
  /\ MayBegin(r, s, "stop")
  /\ session[s] # "none"
  /\ Begin(r, s, "stop", "end", None, "none")
  /\ UNCHANGED <<world, slotVars, session, live, reserved, childVars, diskVars>>

-----------------------------------------------------------------------------
(* Stopping.  The endedAt write lands before the map entry goes. *)
EndRow(r) ==
  /\ At(r, "end")
  /\ session' = [session EXCEPT ![Sess(r)] = "ended"]
  /\ Goto(r, "kill")
  /\ UNCHANGED <<world, slotVars, live, reserved, childVars, diskVars>>

(* Mutant: killSessionTranscode gives the slot back itself. *)
KillLiveReleases(r) ==
  LET l == live[Sess(r)] IN
  /\ At(r, "kill")
  /\ live' = [live EXCEPT ![Sess(r)] = None]
  /\ child' = IF l = None THEN child ELSE Killed(l.child)
  /\ IF l # None /\ child[l.child] = "running"
     THEN Slot!Release(l.child) ELSE UNCHANGED slotVars
  /\ IF l # None
     THEN req' = [req EXCEPT ![r] = [req[r] EXCEPT !.pc = "cancelKilled", !.seen = l]]
     ELSE IF req[r].kind = "stop" THEN Goto(r, "remove") ELSE Finish(r)
  /\ UNCHANGED <<world, session, reserved, job, term, strand, diskVars>>

(* killSessionTranscode up to its job write. *)
KillLive(r) ==
  LET l == live[Sess(r)] IN
  /\ At(r, "kill")
  /\ live' = [live EXCEPT ![Sess(r)] = None]
  /\ child' = IF l = None THEN child ELSE Killed(l.child)
  /\ IF l # None
     THEN req' = [req EXCEPT ![r] = [req[r] EXCEPT !.pc = "cancelKilled", !.seen = l]]
     ELSE IF req[r].kind = "stop" THEN Goto(r, "remove") ELSE Finish(r)
  /\ UNCHANGED <<world, slotVars, session, reserved, job, term, strand, diskVars>>

CancelKilled(r) ==
  /\ At(r, "cancelKilled")
  /\ job' = [job EXCEPT ![req[r].seen.child] = "CANCELLED"]
  /\ IF req[r].kind = "stop" THEN Goto(r, "remove") ELSE Finish(r)
  /\ UNCHANGED <<world, slotVars, session, live, reserved, child, term, strand, diskVars>>

(* rm -r of the session's transcode directory. *)
RemoveDir(r) ==
  /\ At(r, "remove")
  /\ dirs' = [dirs EXCEPT ![Sess(r)] = {}]
  /\ listing' = [listing EXCEPT ![Sess(r)] = [d \in Dirs |-> None]]
  /\ Finish(r)
  /\ UNCHANGED <<world, slotVars, session, live, reserved, childVars>>

-----------------------------------------------------------------------------
(* Restarting.  mkdir of the new directory, then cancelCurrentJob.  It      *)
(* looks the entry up for itself: /seek gets there without an await, the   *)
(* other two routes only after their reads and the mkdir.                  *)
CancelJob(r) ==
  LET s == Sess(r)
      current == IF req[r].kind = "seek" THEN req[r].seen ELSE live[s] IN
  /\ At(r, "cancel")
  /\ job' = IF current = None THEN job
            ELSE [job EXCEPT ![current.child] = "CANCELLED"]
  /\ dirs' = IF req[r].kind = "switch"
             THEN [dirs EXCEPT ![s] = @ \cup {req[r].seen.dir}] ELSE dirs
  /\ Goto(r, "enter")
  /\ UNCHANGED <<world, slotVars, session, live, reserved, child, term, strand, listing>>

(* Mutant: `restarting` set but not looked at, as it used to be. *)
EnterUnguarded(r) ==
  LET s == Sess(r) IN
  /\ At(r, "enter")
  /\ Goto(r, "exitWait")
  /\ live' = IF live[s] = None THEN live
             ELSE [live EXCEPT ![s].restarting = TRUE]
  /\ child' = Killed(req[r].seen.child)
  /\ UNCHANGED <<world, slotVars, session, reserved, job, term, strand, diskVars>>

(* restartTranscode's entry guard, then the kill of the child in `live` as *)
(* the caller passed it.                                                   *)
Enter(r) ==
  LET s == Sess(r)
      old == req[r].seen.child
      busy == live[s] # None /\ live[s].restarting IN
  /\ At(r, "enter")
  /\ IF busy THEN Finish(r) ELSE Goto(r, "exitWait")
  /\ live' = IF busy \/ live[s] = None THEN live
             ELSE [live EXCEPT ![s].restarting = TRUE]
  /\ child' = IF busy THEN child ELSE Killed(old)
  /\ UNCHANGED <<world, slotVars, session, reserved, job, term, strand, diskVars>>

(* acquireTranscodeSlot, once the old child (if any) has exited. *)
Acquire(r) ==
  /\ \/ At(r, "acquire")
     \/ At(r, "exitWait") /\ ~Alive(req[r].seen.child)
  /\ Slot!Acquire(r)
  /\ Goto(r, "slot")
  /\ UNCHANGED <<world, session, live, reserved, childVars, diskVars>>

(* The slot's timer fires first. *)
SlotTimeout(r) ==
  /\ At(r, "slot")
  /\ Slot!Timeout(r)
  /\ live' = Restored(r)
  /\ session' = IF req[r].kind = "start"
                THEN [session EXCEPT ![Sess(r)] = "ended"] ELSE session
  /\ reserved' = Unreserved(r)
  /\ Finish(r)
  /\ UNCHANGED <<world, childVars, diskVars>>

(* A restart got its slot: carry on unless the session was torn down. *)
SlotGranted(r) ==
  /\ At(r, "slot") /\ client[r] = "holding" /\ IsRestart(r)
  /\ IF live[Sess(r)] = None
     THEN Slot!Release(r) /\ Finish(r)
     ELSE UNCHANGED slotVars /\ Goto(r, "prep")
  /\ UNCHANGED <<world, session, live, reserved, childVars, diskVars>>

(* A first spawn got its slot: mkdir and probes; /quality writes its       *)
(* playlist already here.                                                  *)
SetUp(r) ==
  LET s == Sess(r) e == req[r].seen IN
  /\ At(r, "slot") /\ client[r] = "holding" /\ ~IsRestart(r)
  /\ dirs' = [dirs EXCEPT ![s] = @ \cup {e.dir}]
  /\ listing' = IF req[r].kind = "first" /\ e.method = "TRANSCODE"
                THEN [listing EXCEPT ![s][e.dir] = r] ELSE listing
  /\ Goto(r, "prep")
  /\ UNCHANGED <<world, slotVars, session, live, reserved, childVars>>

(* The same awaits rejecting: they stand outside the try that gives the    *)
(* slot back.                                                              *)
SetUpFails(r) ==
  /\ "setup" \in world.faults
  /\ At(r, "slot") /\ client[r] = "holding" /\ ~IsRestart(r)
  /\ reserved' = Unreserved(r)
  /\ Finish(r)
  /\ UNCHANGED <<world, slotVars, session, live, childVars, diskVars>>

(* Probes and GPU slot, then transcodeJob.create. *)
CreateJob(r) ==
  /\ At(r, "prep")
  /\ job' = [job EXCEPT ![r] = "RUNNING"]
  /\ Goto(r, "spawn")
  /\ UNCHANGED <<world, slotVars, session, live, reserved, child, term, strand, diskVars>>

(* Mutant: the catch forgets the slot. *)
FailBeforeSpawnLeaks(r) ==
  /\ "prep" \in world.faults
  /\ req[r].pc \in {"prep", "spawn"}
  /\ live' = Restored(r)
  /\ reserved' = Unreserved(r)
  /\ Finish(r)
  /\ UNCHANGED <<world, slotVars, session, childVars, diskVars>>

(* Any of them, or spawnFfmpeg, failing: the catch gives the slot back. *)
FailBeforeSpawn(r) ==
  /\ "prep" \in world.faults
  /\ req[r].pc \in {"prep", "spawn"}
  /\ Slot!Release(r)
  /\ live' = Restored(r)
  /\ reserved' = Unreserved(r)
  /\ Finish(r)
  /\ UNCHANGED <<world, session, childVars, diskVars>>

(* Whether the new child encodes in hardware: the fallback never does. *)
SpawnHw(r) ==
  CASE req[r].kind \in Restarts -> HwOf(req[r].method)
    [] req[r].kind = "fallback" -> {FALSE}
    [] OTHER -> {req[r].seen.hw}

(* Only the writes of /quality, /seek and /audio-track are guarded. *)
AfterSpawn(r) ==
  IF req[r].kind \in Restarts \cup {"first"} THEN "commit"
  ELSE IF req[r].method = "TRANSCODE" THEN "write" ELSE "publish"

(* spawnFfmpeg and the best-effort pid write. *)
Spawn(r) ==
  /\ At(r, "spawn")
  /\ child' = [child EXCEPT ![r] = "running"]
  /\ \E h \in SpawnHw(r) :
       req' = [req EXCEPT ![r] = [req[r] EXCEPT !.pc = AfterSpawn(r),
                                                !.seen = [req[r].seen EXCEPT !.hw = h]]]
  /\ UNCHANGED <<world, slotVars, session, live, reserved, job, term, strand, diskVars>>

-----------------------------------------------------------------------------
(* The guarded write of commitOrCancelRestart reaches the database. *)
Commit(r) ==
  /\ At(r, "commit")
  /\ Goto(r, IF session[Sess(r)] = "open" THEN "committed" ELSE "tooLate")
  /\ UNCHANGED <<world, slotVars, session, live, reserved, childVars, diskVars>>

(* That write rejecting: the handler throws, nothing is undone. *)
CommitFails(r) ==
  /\ "commit" \in world.faults
  /\ At(r, "commit")
  /\ reserved' = Unreserved(r)
  /\ Finish(r)
  /\ UNCHANGED <<world, slotVars, session, live, childVars, diskVars>>

Won(r) ==
  At(r, "committed") /\ (req[r].kind = "first" \/ live[Sess(r)] # None)

Lost(r) == req[r].pc \in {"committed", "tooLate"} /\ ~Won(r)

(* Mutant: the new entry spread from the marked one in the map. *)
PublishedMarked(r) ==
  IF IsRestart(r) /\ live[Sess(r)] # None
  THEN [live EXCEPT ![Sess(r)].child = r]
  ELSE [live EXCEPT ![Sess(r)] = [req[r].seen EXCEPT !.child = r, !.method = req[r].method]]

(* Mutant: the new entry keeps the old child. *)
PublishedOldChild(r) ==
  IF IsRestart(r) THEN [live EXCEPT ![Sess(r)] = req[r].seen]
  ELSE [live EXCEPT ![Sess(r)] = [req[r].seen EXCEPT !.child = r, !.method = req[r].method]]

(* liveSessions.set({...live, transcode, ...}): the entry the handler read *)
(* when it began, with its own child.                                      *)
Published(r) ==
  [live EXCEPT ![Sess(r)] = [req[r].seen EXCEPT !.child = r, !.method = req[r].method]]

(* Mutant: a seek leaves the old playlist in place. *)
CommitWonNoPlaylist(r) ==
  /\ Won(r)
  /\ live' = Published(r) /\ reserved' = Unreserved(r) /\ Finish(r)
  /\ UNCHANGED <<world, slotVars, session, childVars, diskVars>>

(* Back from a write that found the row open, with the entry still there.  *)
(* A restart to TRANSCODE goes on to await its playlist write.             *)
CommitWon(r) ==
  /\ Won(r)
  /\ IF IsRestart(r) /\ req[r].method = "TRANSCODE"
     THEN UNCHANGED <<live, reserved>> /\ Goto(r, "write")
     ELSE live' = Published(r) /\ reserved' = Unreserved(r) /\ Finish(r)
  /\ UNCHANGED <<world, slotVars, session, childVars, diskVars>>

(* Mutant: the late restart is answered with 503 and its child left alone. *)
CommitLostNoKill(r) ==
  /\ Lost(r)
  /\ Goto(r, "lost")
  /\ UNCHANGED <<world, slotVars, session, live, reserved, childVars, diskVars>>

(* Back from a write that came too late: the new child is killed. *)
CommitLost(r) ==
  /\ Lost(r)
  /\ child' = Killed(r)
  /\ Goto(r, "lost")
  /\ UNCHANGED <<world, slotVars, session, live, reserved, job, term, strand, diskVars>>

CancelNewJob(r) ==
  LET s == Sess(r) d == req[r].seen.dir IN
  /\ At(r, "lost")
  /\ job' = [job EXCEPT ![r] = "CANCELLED"]
  /\ IF req[r].kind = "first"
     THEN /\ dirs' = [dirs EXCEPT ![s] = @ \ {d}]
          /\ listing' = [listing EXCEPT ![s][d] = None]
     ELSE UNCHANGED diskVars
  /\ reserved' = Unreserved(r)
  /\ Finish(r)
  /\ UNCHANGED <<world, slotVars, session, live, child, term, strand>>

(* writePlaylistAtomically into the directory, if it is still there. *)
WritePlaylist(r) ==
  LET s == Sess(r) d == req[r].seen.dir IN
  /\ At(r, "write")
  /\ d \in dirs[s]
  /\ listing' = [listing EXCEPT ![s][d] = r]
  /\ Goto(r, "publish")
  /\ UNCHANGED <<world, slotVars, session, live, reserved, childVars, dirs>>

(* The write rejecting: only the fallback catches it. *)
WriteFails(r) ==
  /\ At(r, "write")
  /\ "write" \in world.faults \/ req[r].seen.dir \notin dirs[Sess(r)]
  /\ IF req[r].kind = "fallback" THEN Goto(r, "publish") ELSE Finish(r)
  /\ UNCHANGED <<world, slotVars, session, live, reserved, childVars, diskVars>>

(* The set itself; the fallback looks once more whether the entry is there. *)
Publish(r) ==
  LET gone == req[r].kind = "fallback" /\ live[Sess(r)] = None IN
  /\ At(r, "publish")
  /\ live' = IF gone THEN live ELSE Published(r)
  /\ child' = IF gone THEN Killed(r) ELSE child
  /\ Finish(r)
  /\ UNCHANGED <<world, slotVars, session, reserved, job, term, strand, diskVars>>

-----------------------------------------------------------------------------
(* A child ends.  Its callback gives the slot back, starts the job's last  *)
(* write, and looks whether to truncate its session's playlist.            *)
Exit(c) ==
  LET l == live[Sess(c)] IN
  /\ \E how \in IF child[c] = "killed" THEN {"exitedBad"} ELSE world.exits :
       /\ Alive(c)
       /\ child' = [child EXCEPT ![c] = how]
       /\ strand' = [strand EXCEPT ![c] =
            IF l # None /\ l.method # "REMUX" /\ ~l.restarting /\ l.child = c
            THEN "reading"
            ELSE IF how = "exitedBad" THEN "retry" ELSE "none"]
  /\ Slot!Release(c)
  /\ term' = [term EXCEPT ![c] = TRUE]
  /\ UNCHANGED <<world, session, live, reserved, req, job, diskVars>>

(* Mutant: the exit callback writes its state unconditionally. *)
SetTerminalAlways(c) ==
  /\ term[c]
  /\ term' = [term EXCEPT ![c] = FALSE]
  /\ job' = [job EXCEPT ![c] = IF child[c] = "exitedOk" THEN "DONE" ELSE "FAILED"]
  /\ UNCHANGED <<world, slotVars, session, live, reserved, req, child, strand, diskVars>>

(* setTranscodeJobTerminal: never over a CANCELLED. *)
SetTerminal(c) ==
  /\ term[c]
  /\ term' = [term EXCEPT ![c] = FALSE]
  /\ job' = [job EXCEPT ![c] =
       IF @ = "CANCELLED" THEN @
       ELSE IF child[c] = "exitedOk" THEN "DONE" ELSE "FAILED"]
  /\ UNCHANGED <<world, slotVars, session, live, reserved, req, child, strand, diskVars>>

(* Directory read and playlist rewrite of truncatePlaylistOnExit. *)
Truncate(c) ==
  LET s == Sess(c) d == req[c].seen.dir IN
  /\ strand[c] = "reading"
  /\ listing' = IF d \in dirs[s] THEN [listing EXCEPT ![s][d] = c] ELSE listing
  /\ strand' = [strand EXCEPT ![c] = IF child[c] = "exitedBad" THEN "retry" ELSE "none"]
  /\ UNCHANGED <<world, slotVars, session, live, reserved, req, child, job, term, dirs>>

MayFallBack(l) ==
  l # None /\ ~l.restarting /\ l.method = "TRANSCODE" /\ l.hw

(* attemptHwFallback turning into a restart on the CPU. *)
Fallback(r, c) ==
  LET l == live[Sess(c)] IN
  /\ strand[c] = "retry"
  /\ MayFallBack(l)
  /\ MayBegin(r, Sess(c), "fallback")
  /\ Begin(r, Sess(c), "fallback", "enter", l, l.method)
  /\ strand' = [strand EXCEPT ![c] = "none"]
  /\ UNCHANGED <<world, slotVars, session, live, reserved, child, job, term, diskVars>>

NoFallback(c) ==
  /\ strand[c] = "retry"
  /\ ~MayFallBack(live[Sess(c)])
  /\ strand' = [strand EXCEPT ![c] = "none"]
  /\ UNCHANGED <<world, slotVars, session, live, reserved, req, child, job, term, diskVars>>

(* Mutant: the sweep passes over sessions the map still knows. *)
SweepJobsUnlessLive ==
  LET dead == {r \in Requests : /\ job[r] = "RUNNING" /\ session[Sess(r)] = "ended"
                                /\ live[Sess(r)] = None} IN
  /\ dead # {}
  /\ job' = [r \in Requests |-> IF r \in dead THEN "CANCELLED" ELSE job[r]]
  /\ UNCHANGED <<world, slotVars, session, live, reserved, req, child, term, strand, diskVars>>

(* The last write of reapStaleSessions: RUNNING jobs of ended sessions. *)
SweepJobs ==
  LET dead == {r \in Requests : job[r] = "RUNNING" /\ session[Sess(r)] = "ended"} IN
  /\ dead # {}
  /\ job' = [r \in Requests |-> IF r \in dead THEN "CANCELLED" ELSE job[r]]
  /\ UNCHANGED <<world, slotVars, session, live, reserved, req, child, term, strand, diskVars>>

-----------------------------------------------------------------------------
Call(r) ==
  \E s \in Sessions :
    Start(r, s) \/ FirstSpawn(r, s) \/ Seek(r, s) \/ Switch(r, s)
      \/ Reset(r, s) \/ Stop(r, s)

Continue(r) ==
  \/ EndRow(r) \/ KillLive(r) \/ CancelKilled(r) \/ RemoveDir(r)
  \/ CancelJob(r) \/ Enter(r) \/ Acquire(r) \/ SlotTimeout(r) \/ SlotGranted(r)
  \/ SetUp(r) \/ SetUpFails(r) \/ CreateJob(r) \/ FailBeforeSpawn(r) \/ Spawn(r)
  \/ Commit(r) \/ CommitFails(r) \/ CommitWon(r) \/ CommitLost(r) \/ CancelNewJob(r)
  \/ WritePlaylist(r) \/ WriteFails(r) \/ Publish(r)

AfterExit(c) ==
  \/ SetTerminal(c) \/ Truncate(c) \/ NoFallback(c)
  \/ \E r \in Requests : Fallback(r, c)

Next ==
  \/ \E r \in Requests : Call(r) \/ Continue(r) \/ Exit(r) \/ AfterExit(r)
  \/ SweepJobs

(* Awaited calls answer, timers fire, and a SIGKILLed child exits.  Nobody *)
(* has to send a request and a child need not end by itself.               *)
Fairness ==
  \A r \in Requests : /\ WF_vars(Continue(r))
                      /\ WF_vars(AfterExit(r))
                      /\ WF_vars(child[r] = "killed" /\ Exit(r))

Spec == Init /\ [][Next]_vars /\ Fairness /\ WF_vars(SweepJobs)

-----------------------------------------------------------------------------
PC == {"idle", "acquire", "cancel", "enter", "exitWait", "slot", "prep", "spawn",
       "commit", "committed", "tooLate", "lost", "write", "publish",
       "end", "kill", "cancelKilled", "remove", "done"}

Handler ==
  [pc : PC, kind : AllKinds \cup {"none"}, sess : Sessions \cup {None},
   seen : Entry \cup {None}, method : {"none", "DIRECT_PLAY", "REMUX", "TRANSCODE"}]

TypeOK ==
  /\ world \in WorldType
  /\ Slot!TypeOK
  /\ session \in [Sessions -> {"none", "open", "ended"}]
  /\ live \in [Sessions -> Entry \cup {None}]
  /\ reserved \subseteq Sessions
  /\ req \in [Requests -> Handler]
  /\ child \in [Requests -> {"none", "running", "killed", "exitedOk", "exitedBad"}]
  /\ job \in [Requests -> {"none", "RUNNING", "CANCELLED", "DONE", "FAILED"}]
  /\ term \in [Requests -> BOOLEAN]
  /\ strand \in [Requests -> {"none", "reading", "retry"}]
  /\ dirs \in [Sessions -> SUBSET Dirs]
  /\ listing \in [Sessions -> [Dirs -> Requests \cup {None}]]

(* The machine never runs more ffmpeg children than the cap. *)
FfmpegCap == Cardinality({c \in Requests : Alive(c)}) <= MaxTranscodes

(* A slot is held exactly by the children that have not exited and the     *)
(* handlers about to spawn one: none leaks, none is given back twice.      *)
SlotsMatchOwners ==
  Slot!Holders = {r \in Requests : Alive(r) \/ req[r].pc \in {"prep", "spawn"}
                                    \/ (At(r, "slot") /\ client[r] = "holding")}

(* A handler between restartTranscode's entry guard and the set, or its    *)
(* way out.                                                                *)
InRestart(r) ==
  /\ IsRestart(r)
  /\ req[r].pc \in {"exitWait", "slot", "prep", "spawn", "commit", "committed",
                    "tooLate", "write", "publish"}

TornDown(s) == \E r \in Requests : Sess(r) = s /\ req[r].kind \in {"stop", "reset"}

(* Until a stop or a reset takes the entry away (and the mutex with it), a *)
(* session has one restart at a time, whoever asks for it: the mutex.      *)
OneRestartAtATime ==
  \A q, r \in Requests :
    InRestart(q) /\ InRestart(r) /\ Sess(q) = Sess(r) /\ ~TornDown(Sess(q)) => q = r

(* Whoever is marked restarting really is being restarted: the mark that   *)
(* turns every further restart away is never left behind.                  *)
RestartMarkHasOwner ==
  \A s \in Sessions :
    live[s] # None /\ live[s].restarting =>
      \E r \in Requests : Sess(r) = s /\ InRestart(r)

(* A child whose handler is over runs on only as its session's live child: *)
(* anything else is an ffmpeg process nothing will ever stop.              *)
NoOrphanChild ==
  \A c \in Requests :
    child[c] = "running" /\ At(c, "done") =>
      live[Sess(c)] # None /\ live[Sess(c)].child = c

(* Once stopSession is through, the session has no live entry. *)
StoppedIsGone ==
  \A r \in Requests :
    req[r].kind = "stop" /\ At(r, "done") => live[Sess(r)] = None

(* While the child of a settled TRANSCODE entry runs, the playlist the     *)
(* entry's directory serves lists that child's segments.                   *)
EntryIsServable ==
  \A s \in Sessions :
    /\ live[s] # None /\ ~live[s].restarting /\ live[s].method = "TRANSCODE"
    /\ child[live[s].child] = "running"
    => listing[s][live[s].dir] = live[s].child

(* However restarts, resets, stops and fallbacks of a session overlap: no  *)
(* more ffmpeg children than the cap, and one restart of a session at a    *)
(* time.  A slot is held for each of those children and by nobody else,    *)
(* unless the calls a first spawn makes before its try rejected (SetUp-    *)
(* Fails: the slot stays taken).                                           *)
SlotsAreOwned ==
  /\ TypeOK /\ FfmpegCap /\ OneRestartAtATime
  /\ "setup" \notin world.faults => SlotsMatchOwners

(* A client that restarts one at a time and never stops or resets, of      *)
(* children never retried in software.                                     *)
Disciplined ==
  /\ ~world.overlap
  /\ world.kinds \subseteq Restarts \cup {"start", "first"}
  /\ world.faults \subseteq {"setup", "prep"}

(* For such a client, a set-up or a restart that fails half-way leaves no  *)
(* mark without its restart and no child without its entry; and, if its    *)
(* children end only when killed (an exit callback may truncate another    *)
(* child's playlist), no entry whose playlist lists another child's        *)
(* segments.                                                               *)
EntriesAreOwned ==
  Disciplined => /\ RestartMarkHasOwner /\ NoOrphanChild
                 /\ world.exits = {} => EntryIsServable

(* A job cancelled on purpose is never rewritten as finished or failed. *)
CancelledStays ==
  [][\A r \in Requests : job[r] = "CANCELLED" => job'[r] = "CANCELLED"]_vars

(* A restart whose guarded write found the session ended gets rid of its   *)
(* child and records the job as cancelled.                                 *)
LateRestartIsUndone ==
  \A r \in Requests :
    At(r, "tooLate") ~> ~Alive(r) /\ job[r] = "CANCELLED"

(* A session is never left marked as restarting. *)
RestartsEnd ==
  \A s \in Sessions : []<>(live[s] = None \/ ~live[s].restarting)

(* No job of an ended session stays RUNNING. *)
EndedJobsSettle ==
  \A r \in Requests : []<>(job[r] = "RUNNING" => session[Sess(r)] # "ended")
=============================================================================
