------------------------------ MODULE Trickplay ------------------------------
(***************************************************************************)
(* The scrubber previews of one file: the gate before the queue            *)
(* (enqueueTrickplay and the boot reconciler's trickplay legs in           *)
(* apps/worker/src/index.ts), the job (processTrickplay), the generation   *)
(* (packages/scanner/src/trickplay.ts) with its bounded fan-out (limit.ts),*)
(* and the sheets the API hands out (apps/api/src/static-routes.ts).       *)
(*                                                                         *)
(* mapLimit's promise rejects with its first failing call, but its other   *)
(* workers go on taking items; they are the leftovers of an attempt that   *)
(* the queue already retries, in the same directory.  A picture is the     *)
(* version of the file it shows, or Torn, Black or Missing.  One sheet     *)
(* stands for all of them; the video ends with tile Ends, the container    *)
(* says Tiles.                                                             *)
(***************************************************************************)
EXTENDS Naturals, FiniteSets

CONSTANTS Tiles,       \* tiles 1..Tiles
          Ends,        \* the last tile with a picture
          Fanout,      \* TILE_CONCURRENCY
          Teams,       \* bound: attempts with workers alive at once
          Threshold,   \* JOB_FAILURE_THRESHOLD
          MaxVersions, \* bound: contents of the file; none comes back
          MaxTroubles  \* bound: failing passes, crashes of a sheet store

(* What the constants must satisfy, whoever instantiates the module. *)
TrickplayAssumption ==
  /\ Tiles \in Nat \ {0} /\ Ends \in 1..Tiles /\ Fanout \in Nat \ {0}
  /\ Threshold \in Nat \ {0} /\ MaxVersions \in Nat \ {0}
  /\ MaxTroubles \in Nat

Grid     == 1..Tiles
Workers  == 1..Fanout
Versions == 1..MaxVersions
Torn     == MaxVersions + 1
Black    == MaxVersions + 2
Missing  == 0
Pictures == 0..MaxVersions + 2

VARIABLES
  disk,    \* the version on disk
  hash,    \* MediaFile.hash
  row,     \* Trickplay.sourceHash, 0 without a row
  sheet,   \* the sheet on disk
  tile,    \* the tiles in the directory
  black,   \* black.jpg in the directory
  job,     \* the job: its state, the hash it read, its team, its attempts
  team,    \* the workers of each attempt
  poison,  \* JobFailure: its attempts, and whether its error reads as benign
  flagged, \* the item is in state NEEDS_ATTENTION
  spent    \* troubles so far

vars == <<disk, hash, row, sheet, tile, black, job, team, poison, flagged, spent>>
file  == <<disk, hash>>
dir   == <<sheet, tile, black>>
state == <<poison, flagged>>

NoSheet == [pictures |-> [i \in Grid |-> Missing], stray |-> FALSE]
Done    == [pc |-> "done", at |-> 0, shows |-> 0, here |-> FALSE]
NoTeam  == [next |-> Tiles + 1, black |-> FALSE, failed |-> "no",
            crew |-> [w \in Workers |-> Done]]
NoJob   == [pc |-> "none", hash |-> 0, team |-> 0, tries |-> 0, stray |-> FALSE]
Clean   == [attempts |-> 0, benign |-> FALSE]

Init ==
  /\ disk = 1 /\ hash = 1 /\ row = 0
  /\ sheet = NoSheet
  /\ tile = [i \in Grid |-> Missing]
  /\ black = Missing
  /\ job = NoJob
  /\ team = [t \in Teams |-> NoTeam]
  /\ \E old \in BOOLEAN :       \* a row the earlier accounting left behind
       /\ poison = IF old THEN [attempts |-> Threshold, benign |-> TRUE] ELSE Clean
       /\ flagged = old
  /\ spent = 0

Trouble == spent < MaxTroubles /\ spent' = spent + 1

-----------------------------------------------------------------------------
(* The gates before the queue; the deterministic job id makes an add for a *)
(* queued or running job a no-op.                                          *)
UpToDate == row = hash
Poisoned == poison.attempts >= Threshold

Queued(wanted) ==
  job' = IF wanted /\ job.pc = "none" THEN [NoJob EXCEPT !.pc = "queued"]
         ELSE job

(* The file is replaced, and later a scan reads it.  A heavy scan clears   *)
(* the failures once it has walked the library.                            *)
Replace ==
  /\ disk < MaxVersions
  /\ disk' = disk + 1
  /\ UNCHANGED <<hash, row, dir, job, team, state, spent>>

Scan ==
  /\ hash' = disk
  /\ Queued(row # disk)
  /\ UNCHANGED <<disk, row, dir, team, state, spent>>

ClearFailures ==
  /\ poison # Clean \/ flagged
  /\ poison' = Clean /\ flagged' = FALSE
  /\ UNCHANGED <<file, row, dir, job, team, spent>>

(* The boot reconciler: poison rows of a benign error class go, then files *)
(* without sheets, with sheets of another hash or with sheets gone from    *)
(* disk are offered to enqueueTrickplay, whose own gate knows the hashes.  *)
Unpoison ==
  /\ Poisoned /\ poison.benign
  /\ poison' = Clean /\ flagged' = FALSE
  /\ UNCHANGED <<file, row, dir, job, team, spent>>

Reconcile ==
  /\ ~Poisoned /\ (row = 0 => ~flagged)
  /\ UpToDate => sheet = NoSheet
  /\ Queued(~UpToDate)
  /\ UNCHANGED <<file, row, dir, team, state, spent>>

-----------------------------------------------------------------------------
(* processTrickplay: the row is read first, then the directory is wiped    *)
(* and made anew.  A worker whose file goes with the directory writes into *)
(* nothing.                                                                *)
(* Mutant: the hash is read again for the row. *)
HashAtSave == hash

HashRead == job.hash

Begin(t) ==
  /\ job.pc = "queued"
  /\ \A w \in Workers : team[t].crew[w].pc = "done"
  /\ job' = [job EXCEPT !.pc = "tiles", !.hash = hash, !.team = t,
                        !.stray = FALSE]
  /\ sheet' = NoSheet
  /\ tile' = [i \in Grid |-> Missing]
  /\ black' = Missing
  /\ team' = [u \in Teams |->
       IF u = t THEN [NoTeam EXCEPT !.next = 1,
                        !.crew = [w \in Workers |-> [Done EXCEPT !.pc = "idle"]]]
       ELSE [team[u] EXCEPT !.crew =
               [w \in Workers |-> [team[u].crew[w] EXCEPT !.here = FALSE]]]]
  /\ UNCHANGED <<file, row, state, spent>>

(* One worker of mapLimit. *)
At(t, w, pc) == team[t].crew[w].pc = pc
Move(t, w, member) == team' = [team EXCEPT ![t].crew[w] = member]
Stray(t) == job' = [job EXCEPT !.stray = @ \/ (job.pc = "tiles" /\ job.team # t)]
WorkerStep == UNCHANGED <<file, row, sheet, state>>

(* It takes the next tile; ffmpeg opens its output once it has a frame.    *)
Pull(t, w) ==
  /\ At(t, w, "idle") /\ team[t].next <= Tiles
  /\ LET i == team[t].next IN
       /\ team' = [team EXCEPT ![t].next = i + 1,
                     ![t].crew[w] = [pc |-> "seek", at |-> i, shows |-> disk,
                                     here |-> TRUE]]
       /\ tile' = [tile EXCEPT ![i] = IF i <= Ends THEN Torn ELSE @]
  /\ Stray(t)
  /\ UNCHANGED <<black, spent>> /\ WorkerStep

Leave(t, w) ==
  /\ At(t, w, "idle") /\ team[t].next > Tiles
  /\ Move(t, w, Done)
  /\ UNCHANGED <<tile, black, job, spent>> /\ WorkerStep

Sought(t, w) ==
  /\ At(t, w, "seek") /\ team[t].crew[w].at <= Ends
  /\ LET m == team[t].crew[w] IN
       tile' = IF m.here THEN [tile EXCEPT ![m.at] = m.shows] ELSE tile
  /\ Move(t, w, [Done EXCEPT !.pc = "idle"])
  /\ Stray(t)
  /\ UNCHANGED <<black, spent>> /\ WorkerStep

(* Nothing was written: the content ends here, a black cell takes the      *)
(* place.  blackTile ??= await makeBlackTile(dir)                          *)
PastTheEnd(t, w) ==
  /\ At(t, w, "seek") /\ team[t].crew[w].at > Ends
  /\ IF team[t].black
     THEN Move(t, w, [team[t].crew[w] EXCEPT !.pc = "copy"])
     ELSE Move(t, w, [team[t].crew[w] EXCEPT !.pc = "open"])
  /\ UNCHANGED <<tile, black, job, spent>> /\ WorkerStep

(* The pass behind makeBlackTile truncates its output before it writes. *)
OpenBlack(t, w) ==
  /\ At(t, w, "open")
  /\ black' = Torn
  /\ Move(t, w, [team[t].crew[w] EXCEPT !.pc = "black", !.here = TRUE])
  /\ Stray(t)
  /\ UNCHANGED <<tile, spent>> /\ WorkerStep

Blackened(t, w) ==
  /\ At(t, w, "black")
  /\ black' = IF team[t].crew[w].here THEN Black ELSE black
  /\ team' = [team EXCEPT ![t].black = TRUE, ![t].crew[w].pc = "copy"]
  /\ Stray(t)
  /\ UNCHANGED <<tile, spent>> /\ WorkerStep

CopyBlack(t, w) ==
  /\ At(t, w, "copy") /\ black # Missing
  /\ tile' = [tile EXCEPT ![team[t].crew[w].at] = black]
  /\ Move(t, w, [Done EXCEPT !.pc = "idle"])
  /\ Stray(t)
  /\ UNCHANGED <<black, spent>> /\ WorkerStep

(* A pass is killed or times out, or the region does not decode; a copy    *)
(* finds the directory wiped.  This worker stops; the others do not.       *)
Fails(t, w, how) ==
  /\ \/ team[t].crew[w].pc \in {"seek", "open", "black"} /\ Trouble
     \/ At(t, w, "copy") /\ black = Missing /\ how = "killed" /\ UNCHANGED spent
  /\ team' = [team EXCEPT ![t].failed = IF @ = "no" THEN how ELSE @,
                          ![t].crew[w] = Done]
  /\ UNCHANGED <<tile, black, job>> /\ WorkerStep

-----------------------------------------------------------------------------
(* All tiles are there: the sheet, the row, and the tiles go. *)
Mine == team[job.team]

LaySheet ==
  /\ job.pc = "tiles" /\ Mine.failed = "no"
  /\ \A w \in Workers : Mine.crew[w].pc = "done"
  /\ sheet' = [pictures |-> tile, stray |-> job.stray]
  /\ job' = [job EXCEPT !.pc = "save"]
  /\ UNCHANGED <<file, row, tile, black, team, state, spent>>

Save ==
  /\ job.pc = "save"
  /\ row' = HashRead
  /\ tile' = [i \in Grid |-> Missing]
  /\ black' = IF Mine.black THEN Missing ELSE black
  /\ poison' = Clean
  /\ job' = NoJob
  /\ UNCHANGED <<file, sheet, team, flagged, spent>>

Retried == IF job.tries + 1 < Threshold
           THEN [NoJob EXCEPT !.pc = "queued", !.tries = job.tries + 1]
           ELSE NoJob

(* No fatal line among the forensics: the row reads like a signal's doing. *)
SilentDeath == Mine.failed = "silent"

(* Killed is transient and is not counted; a file that will not decode is. *)
Reject ==
  /\ job.pc = "tiles" /\ Mine.failed # "no"
  /\ IF Mine.failed = "killed"
     THEN job' = Retried /\ UNCHANGED <<poison, flagged>>
     ELSE LET n == poison.attempts + 1 IN
          /\ poison' = [attempts |-> n, benign |-> SilentDeath]
          /\ flagged' = (flagged \/ n >= Threshold)
          /\ job' = IF n >= Threshold THEN NoJob ELSE Retried
  /\ UNCHANGED <<file, row, dir, team, spent>>

(* The config directory is lost; the rows are not. *)
LoseSheets ==
  /\ sheet # NoSheet /\ Trouble
  /\ sheet' = NoSheet
  /\ UNCHANGED <<file, row, tile, black, job, team, state>>

-----------------------------------------------------------------------------
Next ==
  \/ Replace \/ Scan \/ ClearFailures \/ Unpoison \/ Reconcile
  \/ \E t \in Teams :
       \/ Begin(t)
       \/ \E w \in Workers :
            \/ Pull(t, w) \/ Leave(t, w) \/ Sought(t, w) \/ PastTheEnd(t, w)
            \/ OpenBlack(t, w) \/ Blackened(t, w) \/ CopyBlack(t, w)
            \/ \E how \in {"killed", "broken", "silent"} : Fails(t, w, how)
  \/ LaySheet \/ Save \/ Reject \/ LoseSheets

(* Jobs run and finish, scans come round, and the worker boots again and   *)
(* again.                                                                  *)
Fairness ==
  /\ WF_vars(Scan) /\ WF_vars(Reconcile)
  /\ \A t \in Teams : WF_vars(Begin(t))
  /\ \A t \in Teams, w \in Workers :
       WF_vars(\/ Pull(t, w) \/ Leave(t, w) \/ Sought(t, w)
               \/ PastTheEnd(t, w) \/ OpenBlack(t, w) \/ Blackened(t, w)
               \/ CopyBlack(t, w))
  /\ WF_vars(LaySheet) /\ WF_vars(Save) /\ WF_vars(Reject)

Spec == Init /\ [][Next]_vars

FairSpec == Spec /\ Fairness

-----------------------------------------------------------------------------
TypeOK ==
  /\ disk \in Versions /\ hash \in Versions /\ row \in 0..MaxVersions
  /\ tile \in [Grid -> Pictures] /\ black \in Pictures
  /\ sheet.pictures \in [Grid -> Pictures]
  /\ job.pc \in {"none", "queued", "tiles", "save"}
  /\ \A t \in Teams : team[t].next \in 1..Tiles + 1
  /\ poison.attempts \in Nat /\ flagged \in BOOLEAN
  /\ spent \in 0..MaxTroubles

(* Sheets the hash gate takes for current show the file that is there, not *)
(* the one it replaced, however the replacement, the scan that notices it  *)
(* and the running job interleave.  A sheet that a failed attempt's        *)
(* leftovers wrote to is set aside: those may leave an older frame.        *)
SheetsShowTheirFile ==
  row = hash /\ hash = disk /\ ~sheet.stray =>
    \A i \in Grid : sheet.pictures[i] \in {disk, Black, Torn, Missing}

(* One black picture serves all cells past the end of a run, so no reader  *)
(* finds it half written (the comment on makeBlackTile).                   *)
BlackIsMadeOnce ==
  \A i \in Grid : ~sheet.stray => sheet.pictures[i] # Torn

(* Sheets gone from disk while the row and its hash stay are made again    *)
(* (the comment on the reconciler's leg two).                              *)
LostSheetsComeBack ==
  (row # 0 /\ sheet = NoSheet) ~> (sheet # NoSheet \/ flagged)
=============================================================================
