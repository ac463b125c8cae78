----------------------------- MODULE Downloads -----------------------------
(***************************************************************************)
(* Offline downloads: the API's POST and DELETE handlers (apps/api/src/    *)
(* download-routes.ts) and the worker's processDownload (apps/worker/src/  *)
(* index.ts).  The two processes share the Download row in Postgres, the   *)
(* BullMQ job and two directories: the worker packs the artifact in a      *)
(* temporary one and renames it into the final one, which alone is served. *)
(* BullMQ is external: one job per download (deterministic job id), three  *)
(* attempts; a job whose worker died is delivered once more and no second  *)
(* time (its default), hence the bound on crashes.                         *)
(***************************************************************************)
EXTENDS Naturals

CONSTANTS Downloads,   \* download ids
          Attempts,    \* deliveries of a job that keeps failing
          MaxCrashes   \* bound: worker crashes in a behaviour

ASSUME DownloadsAssumption ==
  /\ Attempts \in Nat \ {0}
  /\ MaxCrashes \in 0..1

VARIABLES
  row,      \* the Download row's status
  job,      \* the BullMQ job
  tries,    \* its failed attempts so far
  post,     \* where POST /downloads stands
  del,      \* where DELETE /downloads/:id stands
  worker,   \* where processDownload stands
  tmp,      \* contents of downloads/.<id>.tmp
  final,    \* contents of downloads/<id>
  crashes

vars == <<row, job, tries, post, del, worker, tmp, final, crashes>>
api  == <<post, del>>
disk == <<tmp, final>>

Exists(d) == row[d] \notin {"absent", "deleted"}

(* prisma's update: rejects when the row is gone. *)
SetRow(d, status) == row' = [row EXCEPT ![d] = status]

At(d, pc) == worker[d] = pc
Goto(d, pc) == worker' = [worker EXCEPT ![d] = pc]

Init ==
  /\ row = [d \in Downloads |-> "absent"]
  /\ job = [d \in Downloads |-> "none"]
  /\ tries = [d \in Downloads |-> 0]
  /\ post = [d \in Downloads |-> "idle"]
  /\ del = [d \in Downloads |-> "idle"]
  /\ worker = [d \in Downloads |-> "idle"]
  /\ tmp = [d \in Downloads |-> "none"]
  /\ final = [d \in Downloads |-> "none"]
  /\ crashes = 0

-----------------------------------------------------------------------------
(* POST: the row first, the job second. *)
Create(d) ==
  /\ post[d] = "idle"
  /\ SetRow(d, "QUEUED")
  /\ post' = [post EXCEPT ![d] = "enqueue"]
  /\ UNCHANGED <<job, tries, del, worker, disk, crashes>>

Enqueue(d) ==
  /\ post[d] = "enqueue"
  /\ job' = [job EXCEPT ![d] = "waiting"]
  /\ post' = [post EXCEPT ![d] = "done"]
  /\ UNCHANGED <<row, tries, del, worker, disk, crashes>>

(* Mutant: the failed enqueue is answered and the row left as it is. *)
EnqueueFailsSilently(d) ==
  /\ post[d] = "enqueue"
  /\ post' = [post EXCEPT ![d] = "done"]
  /\ UNCHANGED <<row, job, tries, del, worker, disk, crashes>>

(* The queue is down: the row is failed for the client to see. *)
EnqueueFails(d) ==
  /\ post[d] = "enqueue"
  /\ IF Exists(d) THEN SetRow(d, "FAILED") ELSE UNCHANGED row
  /\ post' = [post EXCEPT ![d] = "done"]
  /\ UNCHANGED <<job, tries, del, worker, disk, crashes>>

(* DELETE: a job that is not running is dropped, *)
DropJob(d) ==
  /\ Exists(d)
  /\ del[d] = "idle"
  /\ job' = [job EXCEPT ![d] = IF @ = "waiting" THEN "none" ELSE @]
  /\ del' = [del EXCEPT ![d] = "row"]
  /\ UNCHANGED <<row, tries, post, worker, disk, crashes>>

(* then the row goes, *)
DeleteRow(d) ==
  /\ del[d] = "row"
  /\ SetRow(d, "deleted")
  /\ del' = [del EXCEPT ![d] = "both"]
  /\ UNCHANGED <<job, tries, post, worker, disk, crashes>>

(* then both directories, side by side. *)
RemoveFinal(d) ==
  /\ del[d] \in {"both", "final"}
  /\ final' = [final EXCEPT ![d] = "none"]
  /\ del' = [del EXCEPT ![d] = IF @ = "both" THEN "tmp" ELSE "done"]
  /\ UNCHANGED <<row, job, tries, post, worker, tmp, crashes>>

RemoveTmp(d) ==
  /\ del[d] \in {"both", "tmp"}
  /\ tmp' = [tmp EXCEPT ![d] = "none"]
  /\ del' = [del EXCEPT ![d] = IF @ = "both" THEN "final" ELSE "done"]
  /\ UNCHANGED <<row, job, tries, post, worker, final, crashes>>

-----------------------------------------------------------------------------
(* The worker is handed the job and looks the row up. *)
Take(d) ==
  /\ job[d] = "waiting"
  /\ IF Exists(d)
     THEN job' = [job EXCEPT ![d] = "active"] /\ Goto(d, "prepare")
     ELSE job' = [job EXCEPT ![d] = "none"] /\ UNCHANGED worker
  /\ UNCHANGED <<row, tries, api, disk, crashes>>

(* A fresh temporary directory. *)
Prepare(d) ==
  /\ At(d, "prepare")
  /\ tmp' = [tmp EXCEPT ![d] = "partial"]
  /\ Goto(d, "mark")
  /\ UNCHANGED <<row, job, tries, api, final, crashes>>

(* Mutant: a row that is READY already keeps its status. *)
MarkKeepsReady(d) ==
  /\ At(d, "mark")
  /\ IF Exists(d)
     THEN (IF row[d] = "READY" THEN UNCHANGED row ELSE SetRow(d, "PROCESSING")) /\ Goto(d, "pack")
     ELSE UNCHANGED row /\ Goto(d, "fail")
  /\ UNCHANGED <<job, tries, api, disk, crashes>>

Mark(d) ==
  /\ At(d, "mark")
  /\ IF Exists(d)
     THEN SetRow(d, "PROCESSING") /\ Goto(d, "pack")
     ELSE UNCHANGED row /\ Goto(d, "fail")
  /\ UNCHANGED <<job, tries, api, disk, crashes>>

(* Media, subtitles, fonts and manifest are written, if the directory is   *)
(* still there, *)
Pack(d) ==
  /\ At(d, "pack")
  /\ tmp[d] # "none"
  /\ tmp' = [tmp EXCEPT ![d] = "complete"]
  /\ Goto(d, "check")
  /\ UNCHANGED <<row, job, tries, api, final, crashes>>

(* or something on the way fails. *)
PackFails(d) ==
  /\ At(d, "pack")
  /\ Goto(d, "fail")
  /\ UNCHANGED <<row, job, tries, api, disk, crashes>>

(* The `stillThere` look at the row. *)
Check(d) ==
  /\ At(d, "check")
  /\ IF Exists(d)
     THEN Goto(d, "swap") /\ UNCHANGED <<job, tmp>>
     ELSE /\ tmp' = [tmp EXCEPT ![d] = "none"]
          /\ job' = [job EXCEPT ![d] = "none"]
          /\ Goto(d, "idle")
  /\ UNCHANGED <<row, tries, api, final, crashes>>

(* An earlier artifact makes room for the new one. *)
Swap(d) ==
  /\ At(d, "swap")
  /\ final' = [final EXCEPT ![d] = "none"]
  /\ Goto(d, "rename")
  /\ UNCHANGED <<row, job, tries, api, tmp, crashes>>

Rename(d) ==
  /\ At(d, "rename")
  /\ IF tmp[d] = "none"
     THEN Goto(d, "fail") /\ UNCHANGED disk
     ELSE /\ final' = [final EXCEPT ![d] = tmp[d]]
          /\ tmp' = [tmp EXCEPT ![d] = "none"]
          /\ Goto(d, "ready")
  /\ UNCHANGED <<row, job, tries, api, crashes>>

Ready(d) ==
  /\ At(d, "ready")
  /\ IF Exists(d) THEN SetRow(d, "READY") /\ Goto(d, "complete")
                  ELSE UNCHANGED row /\ Goto(d, "fail")
  /\ UNCHANGED <<job, tries, api, disk, crashes>>

(* The worker reports the job done and BullMQ forgets it. *)
Complete(d) ==
  /\ At(d, "complete")
  /\ job' = [job EXCEPT ![d] = "none"]
  /\ Goto(d, "idle")
  /\ UNCHANGED <<row, tries, api, disk, crashes>>

(* Mutant: the catch leaves the temporary directory to the next attempt. *)
FailKeepsTmp(d) ==
  /\ At(d, "fail")
  /\ Goto(d, "failRow")
  /\ UNCHANGED <<row, job, tries, api, disk, crashes>>

(* The catch: the temporary directory goes, *)
Fail(d) ==
  /\ At(d, "fail")
  /\ tmp' = [tmp EXCEPT ![d] = "none"]
  /\ Goto(d, "failRow")
  /\ UNCHANGED <<row, job, tries, api, final, crashes>>

(* Mutant: the failed state is written with an upsert. *)
FailRowUpserts(d) ==
  /\ At(d, "failRow")
  /\ SetRow(d, "FAILED")
  /\ tries' = [tries EXCEPT ![d] = @ + 1]
  /\ job' = [job EXCEPT ![d] = IF tries[d] + 1 < Attempts THEN "waiting" ELSE "none"]
  /\ Goto(d, "idle")
  /\ UNCHANGED <<api, disk, crashes>>

(* Mutant: one attempt too many. *)
FailRowOnceMore(d) ==
  /\ At(d, "failRow")
  /\ IF Exists(d) THEN SetRow(d, "FAILED") ELSE UNCHANGED row
  /\ tries' = [tries EXCEPT ![d] = @ + 1]
  /\ job' = [job EXCEPT ![d] = IF tries[d] + 1 <= Attempts THEN "waiting" ELSE "none"]
  /\ Goto(d, "idle")
  /\ UNCHANGED <<api, disk, crashes>>

(* the row turns FAILED, and the rethrow makes BullMQ retry or give up. *)
FailRow(d) ==
  /\ At(d, "failRow")
  /\ IF Exists(d) THEN SetRow(d, "FAILED") ELSE UNCHANGED row
  /\ tries' = [tries EXCEPT ![d] = @ + 1]
  /\ job' = [job EXCEPT ![d] = IF tries[d] + 1 < Attempts THEN "waiting" ELSE "none"]
  /\ Goto(d, "idle")
  /\ UNCHANGED <<api, disk, crashes>>

(* The worker process dies: BullMQ finds its jobs stalled and delivers     *)
(* them again.                                                             *)
Crash ==
  /\ crashes < MaxCrashes
  /\ crashes' = crashes + 1
  /\ job' = [d \in Downloads |-> IF job[d] = "active" THEN "waiting" ELSE job[d]]
  /\ worker' = [d \in Downloads |-> "idle"]
  /\ UNCHANGED <<row, tries, api, disk>>

-----------------------------------------------------------------------------
Api(d) ==
  \/ Enqueue(d) \/ EnqueueFails(d)
  \/ DeleteRow(d) \/ RemoveFinal(d) \/ RemoveTmp(d)

Work(d) ==
  \/ Take(d) \/ Prepare(d) \/ Mark(d) \/ Pack(d) \/ PackFails(d) \/ Check(d)
  \/ Swap(d) \/ Rename(d) \/ Ready(d) \/ Complete(d) \/ Fail(d) \/ FailRow(d)

Next ==
  \/ \E d \in Downloads : Create(d) \/ DropJob(d) \/ Api(d) \/ Work(d)
  \/ Crash

(* The handlers' awaited calls answer and the worker keeps taking jobs.    *)
(* Clients need not call and the worker need not crash.                    *)
Spec == Init /\ [][Next]_vars /\ \A d \in Downloads : WF_vars(Api(d)) /\ WF_vars(Work(d))

-----------------------------------------------------------------------------
TypeOK ==
  /\ row \in [Downloads -> {"absent", "QUEUED", "PROCESSING", "READY", "FAILED", "deleted"}]
  /\ job \in [Downloads -> {"none", "waiting", "active"}]
  /\ tries \in [Downloads -> 0..Attempts]
  /\ post \in [Downloads -> {"idle", "enqueue", "done"}]
  /\ del \in [Downloads -> {"idle", "row", "both", "final", "tmp", "done"}]
  /\ worker \in [Downloads -> {"idle", "prepare", "mark", "pack", "check", "swap", "rename",
                               "ready", "complete", "fail", "failRow"}]
  /\ tmp \in [Downloads -> {"none", "partial", "complete"}]
  /\ final \in [Downloads -> {"none", "complete"}]
  /\ crashes \in 0..MaxCrashes

(* What the API calls READY can be served: its directory is there and      *)
(* complete, through failed attempts, crashes and repeated deliveries.     *)
ReadyIsServable == \A d \in Downloads : row[d] = "READY" => final[d] = "complete"

(* A deleted download never comes back as a row, whatever the worker was   *)
(* in the middle of.                                                       *)
DeletedStaysDeleted ==
  [][\A d \in Downloads : row[d] = "deleted" => row'[d] = "deleted"]_vars

(* Without crashes, a worker that is between two attempts leaves no         *)
(* half-packed directory of the download behind, whatever was deleted.     *)
NoTmpLeft == \A d \in Downloads : crashes = 0 /\ worker[d] = "idle" => tmp[d] = "none"

(* A download the API calls READY is complete, and neither a failure nor a *)
(* deletion leaves anything half-packed behind (worker/index.ts).          *)
CopiesAreWhole == TypeOK /\ ReadyIsServable /\ NoTmpLeft

(* Every download ends READY, FAILED or deleted, and stays there: the      *)
(* client never waits on a zombie.                                         *)
DownloadsSettle ==
  <>[](\A d \in Downloads : row[d] \notin {"QUEUED", "PROCESSING"})
=============================================================================
