---------------------------- MODULE RemuxFollow ----------------------------
(***************************************************************************)
(* GET /playback/:sessionId/stream.mp4 (apps/api/src/playback-routes.ts):  *)
(* a REMUX file is followed while ffmpeg still writes it, and sent whole   *)
(* once it is complete, after patchRemuxMehd (packages/ffmpeg/src/remux.ts)*)
(* has put the duration into its header.  A seek kills the child, starts   *)
(* the next file and removes the old one.                                  *)
(*                                                                         *)
(* A file is its header and a number of fragments; the patch inserts one   *)
(* unit behind the header and shifts what follows.  It runs without giving *)
(* up the event loop, so here it is one step.                              *)
(***************************************************************************)
EXTENDS Integers, SequencesExt

CONSTANTS Fragments,  \* fragments of a complete file
          Readers,    \* requests for the stream
          MaxFiles,   \* bound: files of the session
          MaxFaults   \* bound: children that fail

(* What the constants must satisfy, whoever instantiates the module. *)
RemuxFollowAssumption ==
  Fragments \in Nat /\ MaxFiles \in Nat \ {0} /\ MaxFaults \in Nat

VARIABLES
  live,    \* the entry: [file, patched, restarting]
  child,   \* each file's ffmpeg: [state, wrote]
  file,    \* each file: [linked, mehd]
  seek,    \* the seek in flight: [pc, file]
  reader,  \* each request: [pc, file, got]
  faults

vars == <<live, child, file, seek, reader, faults>>

Files    == 1..MaxFiles
Complete == Fragments + 1
NoChild  == [state |-> "none", wrote |-> 0]
NoRead   == [pc |-> "idle", file |-> 1, got |-> <<>>]

(* What ffmpeg writes, header first, and a complete file after the patch. *)
Plain(n) == [i \in 1..n |-> i]
Mehd     == 0
Patched  == <<1, Mehd>> \o [i \in 1..Fragments |-> i + 1]
Bytes(f) == IF file[f].mehd THEN Patched ELSE Plain(child[f].wrote)

Init ==
  /\ live = [file |-> 1, patched |-> FALSE, restarting |-> FALSE]
  /\ child = [f \in Files |-> IF f = 1 THEN [state |-> "running", wrote |-> 0]
                              ELSE NoChild]
  /\ file = [f \in Files |-> [linked |-> FALSE, mehd |-> FALSE]]
  /\ seek = [pc |-> "idle", file |-> 1]
  /\ reader = [r \in Readers |-> NoRead]
  /\ faults = 0

-----------------------------------------------------------------------------
(* ffmpeg: opens its output, appends, and ends. *)
Running(f) == child[f].state = "running"

OpenOutput(f) ==
  /\ Running(f) /\ ~file[f].linked
  /\ file' = [file EXCEPT ![f].linked = TRUE]
  /\ UNCHANGED <<live, child, seek, reader, faults>>

Append1(f) ==
  /\ Running(f) /\ file[f].linked /\ child[f].wrote < Complete
  /\ child' = [child EXCEPT ![f].wrote = @ + 1]
  /\ UNCHANGED <<live, file, seek, reader, faults>>

Finish(f) ==
  /\ Running(f) /\ child[f].wrote = Complete
  /\ child' = [child EXCEPT ![f].state = "ok"]
  /\ UNCHANGED <<live, file, seek, reader, faults>>

Fail(f) ==
  /\ Running(f) /\ faults < MaxFaults
  /\ faults' = faults + 1
  /\ child' = [child EXCEPT ![f].state = "failed"]
  /\ UNCHANGED <<live, file, seek, reader>>

-----------------------------------------------------------------------------
(* A seek outside the complete file: kill, spawn, then swap the entry. *)
Seek ==
  /\ seek.pc = "idle" /\ live.file < MaxFiles
  /\ live' = [live EXCEPT !.restarting = TRUE]
  /\ child' = IF Running(live.file)
              THEN [child EXCEPT ![live.file].state = "killed"] ELSE child
  /\ seek' = [pc |-> "spawn", file |-> live.file + 1]
  /\ UNCHANGED <<file, reader, faults>>

Spawn ==
  /\ seek.pc = "spawn"
  /\ child' = [child EXCEPT ![seek.file].state = "running"]
  /\ seek' = [seek EXCEPT !.pc = "swap"]
  /\ UNCHANGED <<live, file, reader, faults>>

(* Mutant: the entry's flag outlives the file it is about. *)
EntryKept == [live EXCEPT !.file = seek.file, !.restarting = FALSE]

(* The entry after a restart. *)
Entry == [file |-> seek.file, patched |-> FALSE, restarting |-> FALSE]

(* The old file goes when nothing opens it afresh; open readers keep it. *)
Swap ==
  /\ seek.pc = "swap"
  /\ live' = Entry
  /\ file' = [file EXCEPT ![live.file].linked = FALSE]
  /\ seek' = [seek EXCEPT !.pc = "idle"]
  /\ UNCHANGED <<child, reader, faults>>

-----------------------------------------------------------------------------
(* The route.  A failed child is answered 500, a complete file is patched  *)
(* once and sent, and anything else is followed.                           *)
Refuse(r) ==
  /\ reader[r].pc = "idle" /\ child[live.file].state = "failed"
  /\ reader' = [reader EXCEPT ![r] = [NoRead EXCEPT !.pc = "refused"]]
  /\ UNCHANGED <<live, child, file, seek, faults>>

Send(r) ==
  /\ reader[r].pc = "idle" /\ child[live.file].state = "ok"
  /\ live' = [live EXCEPT !.patched = TRUE]
  /\ file' = [file EXCEPT ![live.file].mehd = @ \/ ~live.patched]
  /\ reader' = [reader EXCEPT ![r] =
                  [pc |-> "sent", file |-> live.file,
                   got |-> IF file'[live.file].mehd THEN Patched
                           ELSE Plain(child[live.file].wrote)]]
  /\ UNCHANGED <<child, seek, faults>>

Follow(r) ==
  /\ reader[r].pc = "idle" /\ child[live.file].state \in {"running", "killed"}
  /\ reader' = [reader EXCEPT ![r] = [NoRead EXCEPT !.pc = "open",
                                                    !.file = live.file]]
  /\ UNCHANGED <<live, child, file, seek, faults>>

(* GrowingFileStream: open, read, and look whether the producer lives. *)
(* Mutant: a killed child has no exit code, and counts as alive. *)
ExitCodeOnly(f) == child[f].state \in {"running", "killed"}

Alive(f) == child[f].state = "running"

OpenFile(r) ==
  LET f == reader[r].file IN
  /\ reader[r].pc = "open"
  /\ file[f].linked \/ ~Alive(f)
  /\ reader' = [reader EXCEPT ![r].pc = IF file[f].linked THEN "read" ELSE "destroyed"]
  /\ UNCHANGED <<live, child, file, seek, faults>>

(* A read takes what is there at its position; an empty one looks next.    *)
(* The producer may write and exit in between.                             *)
Read(r) ==
  LET bytes == Bytes(reader[r].file)
      at    == Len(reader[r].got) + 1
  IN
  /\ reader[r].pc = "read"
  /\ reader' = IF at <= Len(bytes)
               THEN [reader EXCEPT ![r].got = Append(@, bytes[at])]
               ELSE [reader EXCEPT ![r].pc = "empty"]
  /\ UNCHANGED <<live, child, file, seek, faults>>

Look(r) ==
  /\ reader[r].pc = "empty"
  /\ reader' = [reader EXCEPT ![r].pc = IF Alive(reader[r].file) THEN "read"
                                        ELSE "ended"]
  /\ UNCHANGED <<live, child, file, seek, faults>>

(* The player asks again, or goes while it is being served. *)
Leave(r) ==
  /\ reader[r].pc # "idle"
  /\ reader' = [reader EXCEPT ![r] = NoRead]
  /\ UNCHANGED <<live, child, file, seek, faults>>

-----------------------------------------------------------------------------
ChildStep(f)  == OpenOutput(f) \/ Append1(f) \/ Finish(f)
ReaderStep(r) == OpenFile(r) \/ Read(r) \/ Look(r)

Next ==
  \/ \E f \in Files : ChildStep(f) \/ Fail(f)
  \/ Seek \/ Spawn \/ Swap
  \/ \E r \in Readers : \/ Refuse(r) \/ Send(r) \/ Follow(r)
                        \/ ReaderStep(r) \/ Leave(r)

Spec == Init /\ [][Next]_vars

(* ffmpeg makes progress, and so do a stream and a restart. *)
FairSpec == /\ Spec /\ WF_vars(Spawn \/ Swap)
            /\ \A f \in Files : WF_vars(ChildStep(f))
            /\ \A r \in Readers : WF_vars(ReaderStep(r))

-----------------------------------------------------------------------------
(* The entry, the files and the requests have their declared shape. *)
TypeOK ==
  /\ live \in [file : Files, patched : BOOLEAN, restarting : BOOLEAN]
  /\ child \in [Files -> [state : {"none", "running", "ok", "failed", "killed"},
                          wrote : 0..Complete]]
  /\ file \in [Files -> [linked : BOOLEAN, mehd : BOOLEAN]]
  /\ seek \in [pc : {"idle", "spawn", "swap"}, file : Files]
  /\ reader \in [Readers -> [pc : {"idle", "refused", "sent", "open", "read",
                                   "empty", "ended", "destroyed"},
                             file : Files, got : Seq(Mehd..Complete)]]
  /\ \A r \in Readers : Len(reader[r].got) <= Complete + 1
  /\ faults \in 0..MaxFaults

(* "Without it ... the seek bar lies": a complete file is sent with its    *)
(* duration, whatever restarts and patches came before.                    *)
DurationIsKnown == \A r \in Readers : reader[r].pc = "sent" => reader[r].got = Patched

(* "once it returns false and there's nothing left on disk to read, the    *)
(* stream ends": no follower hangs on a child that failed, was killed by a *)
(* seek, or finished.                                                      *)
FollowersEnd ==
  \A r \in Readers : []<>(reader[r].pc \notin {"open", "read", "empty"})

(* The same comment, read as a promise: what has ended was read to its end. *)
TailIsComplete ==
  \A r \in Readers : reader[r].pc = "ended"
                     => Len(reader[r].got) >= child[reader[r].file].wrote

(* "Only safe once the file is finished": a follower's bytes are the file  *)
(* ffmpeg wrote, or the patched one, from the start on.                    *)
ReadsOneFile ==
  \A r \in Readers : \/ IsPrefix(reader[r].got, Plain(Complete))
                    \/ IsPrefix(reader[r].got, Patched)
=============================================================================
