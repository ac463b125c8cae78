-------------------------- MODULE AnicliDownloads --------------------------
(***************************************************************************)
(* Internet acquisition with ani-cli: the API's handlers (apps/api/src/    *)
(* acquire-routes.ts), the worker's processAnicli, and the boot reconciler *)
(* (apps/worker/src/index.ts) that runs beside the already started worker  *)
(* after a crash.  They share the AnicliDownload row, the BullMQ job, a    *)
(* staging directory and a detached downloader process that outlives the   *)
(* worker.  External: BullMQ (one attempt, a stalled job is delivered once *)
(* more), the partial unique index on active rows, the downloader.         *)
(***************************************************************************)
EXTENDS Naturals, FiniteSets

CONSTANTS Downloads,   \* row ids
          Titles,      \* queries a client may submit
          Cap,         \* active downloads the politeness gate allows
          MaxCrashes,  \* bound: worker crashes in a behaviour
          None

ASSUME AnicliAssumption ==
  /\ IsFiniteSet(Downloads)
  /\ Cap \in Nat \ {0}
  /\ MaxCrashes \in 0..1
  /\ None \notin Downloads \cup Titles

VARIABLES
  row,      \* status of the row
  title,    \* its query
  job,      \* the BullMQ job
  post,     \* where POST stands
  del,      \* where DELETE stands, with what it read of the row
  cur,      \* the download the worker runs (concurrency 1)
  pc,       \* where processAnicli stands
  running,  \* downloads with a live downloader process group
  pid,      \* rows that record its leader
  recorded, \* live downloaders whose leader has been recorded
  starts,   \* history: downloaders started
  staging,  \* contents of .anicli-staging/<id>
  library,  \* what was moved into the library folder
  boot,     \* where the worker process and its reconciler stand
  snap,     \* what the reconciler read of the rows
  keep,     \* staging directories it will spare
  crashes

rowVars   == <<row, title>>
apiVars   == <<post, del>>
procVars  == <<running, pid, recorded, starts>>
diskVars  == <<staging, library>>
bootVars  == <<boot, snap, keep, crashes>>
vars == <<rowVars, job, apiVars, cur, pc, procVars, diskVars, bootVars>>

Active   == {"QUEUED", "DOWNLOADING", "IMPORTING"}
Terminal == {"DONE", "FAILED", "CANCELLED"}

Exists(d) == row[d] \in Active \cup Terminal

(* The index: one active row per query. *)
Unique(d) == \A e \in Downloads \ {d} : ~ (row[e] \in Active /\ title[e] = title[d])

(* An update of the status goes through unless the row is gone or the      *)
(* index forbids it.                                                       *)
CanSet(d, status) == Exists(d) /\ (status \in Active => Unique(d))

SetRow(d, status) == row' = [row EXCEPT ![d] = status]

At(d, where) == boot # "down" /\ cur = d /\ pc = where
Goto(where) == pc' = where /\ UNCHANGED cur
EndJob(d) == job' = [job EXCEPT ![d] = "none"] /\ cur' = None /\ pc' = "idle"

Init ==
  /\ row = [d \in Downloads |-> "absent"]
  /\ title = [d \in Downloads |-> None]
  /\ job = [d \in Downloads |-> "none"]
  /\ post = [d \in Downloads |-> "idle"]
  /\ del = [d \in Downloads |-> "idle"]
  /\ cur = None /\ pc = "idle"
  /\ running = {} /\ pid = {} /\ recorded = {}
  /\ starts = [d \in Downloads |-> 0]
  /\ staging = [d \in Downloads |-> "none"]
  /\ library = [d \in Downloads |-> "none"]
  /\ boot = "up"
  /\ snap = [d \in Downloads |-> "none"]
  /\ keep = {}
  /\ crashes = 0

-----------------------------------------------------------------------------
(* POST: the gates count the active rows, *)
Gates(d, t) ==
  /\ post[d] = "idle"
  /\ Cardinality({e \in Downloads : row[e] \in Active}) < Cap
  /\ title' = [title EXCEPT ![d] = t]
  /\ post' = [post EXCEPT ![d] = "create"]
  /\ UNCHANGED <<row, job, del, cur, pc, procVars, diskVars, bootVars>>

(* the insert passes the index or is answered 409, *)
Create(d) ==
  /\ post[d] = "create"
  /\ IF Unique(d)
     THEN SetRow(d, "QUEUED") /\ post' = [post EXCEPT ![d] = "enqueue"]
     ELSE UNCHANGED row /\ post' = [post EXCEPT ![d] = "done"]
  /\ UNCHANGED <<title, job, del, cur, pc, procVars, diskVars, bootVars>>

(* and the job is queued, unless it is already (the deterministic id), *)
Enqueue(d) ==
  /\ post[d] = "enqueue"
  /\ job' = [job EXCEPT ![d] = IF @ = "none" THEN "waiting" ELSE @]
  /\ post' = [post EXCEPT ![d] = "done"]
  /\ UNCHANGED <<rowVars, del, cur, pc, procVars, diskVars, bootVars>>

(* or the row is failed. *)
EnqueueFails(d) ==
  /\ post[d] = "enqueue"
  /\ IF Exists(d) THEN SetRow(d, "FAILED") ELSE UNCHANGED row
  /\ post' = [post EXCEPT ![d] = "done"]
  /\ UNCHANGED <<title, job, del, cur, pc, procVars, diskVars, bootVars>>

(* DELETE: the row is read, *)
DeleteRead(d) ==
  /\ del[d] = "idle"
  /\ Exists(d)
  /\ del' = [del EXCEPT ![d] = IF row[d] \in Active THEN "cancel" ELSE "drop"]
  /\ UNCHANGED <<rowVars, job, post, cur, pc, procVars, diskVars, bootVars>>

(* a job that is not running is removed, *)
DropJob(d) ==
  /\ del[d] \in {"cancel", "drop"}
  /\ job' = [job EXCEPT ![d] = IF @ = "waiting" THEN "none" ELSE @]
  /\ del' = [del EXCEPT ![d] = IF @ = "cancel" THEN "cancelRow" ELSE "dropRow"]
  /\ UNCHANGED <<rowVars, post, cur, pc, procVars, diskVars, bootVars>>

(* and the row is cancelled or deleted, by what was read of it. *)
DeleteWrite(d) ==
  /\ del[d] \in {"cancelRow", "dropRow"}
  /\ IF Exists(d) THEN SetRow(d, IF del[d] = "cancelRow" THEN "CANCELLED" ELSE "deleted")
                  ELSE UNCHANGED row
  /\ del' = [del EXCEPT ![d] = "idle"]
  /\ UNCHANGED <<title, job, post, cur, pc, procVars, diskVars, bootVars>>

-----------------------------------------------------------------------------
(* Mutant: any row that exists runs. *)
TakeAny(d) ==
  /\ boot # "down"
  /\ cur = None
  /\ job[d] = "waiting"
  /\ IF Exists(d)
     THEN job' = [job EXCEPT ![d] = "active"] /\ cur' = d /\ pc' = "stage"
     ELSE job' = [job EXCEPT ![d] = "none"] /\ UNCHANGED <<cur, pc>>
  /\ UNCHANGED <<rowVars, apiVars, procVars, diskVars, bootVars>>

(* processAnicli: only a row that is QUEUED runs. *)
Take(d) ==
  /\ boot # "down"
  /\ cur = None
  /\ job[d] = "waiting"
  /\ IF row[d] = "QUEUED"
     THEN job' = [job EXCEPT ![d] = "active"] /\ cur' = d /\ pc' = "stage"
     ELSE job' = [job EXCEPT ![d] = "none"] /\ UNCHANGED <<cur, pc>>
  /\ UNCHANGED <<rowVars, apiVars, procVars, diskVars, bootVars>>

(* The pre-flight checks; the whole staging root is emptied first. *)
Stage(d) ==
  /\ At(d, "stage")
  /\ \/ staging' = [e \in Downloads |-> IF e = d THEN "partial" ELSE "none"] /\ Goto("mark")
     \/ UNCHANGED staging /\ Goto("catch")
  /\ UNCHANGED <<rowVars, job, apiVars, procVars, library, bootVars>>

(* Mutant: the row enters a status no reader counts as active. *)
MarkSearching(d) ==
  /\ At(d, "mark")
  /\ IF CanSet(d, "DOWNLOADING")
     THEN SetRow(d, "SEARCHING") /\ Goto("spawn")
     ELSE UNCHANGED row /\ Goto("catch")
  /\ UNCHANGED <<title, job, apiVars, procVars, diskVars, bootVars>>

(* The row turns DOWNLOADING (no code writes the schema's SEARCHING). *)
MarkDownloading(d) ==
  /\ At(d, "mark")
  /\ IF CanSet(d, "DOWNLOADING")
     THEN SetRow(d, "DOWNLOADING") /\ Goto("spawn")
     ELSE UNCHANGED row /\ Goto("catch")
  /\ UNCHANGED <<title, job, apiVars, procVars, diskVars, bootVars>>

Spawn(d) ==
  /\ At(d, "spawn")
  /\ running' = running \cup {d}
  /\ starts' = [starts EXCEPT ![d] = @ + 1]
  /\ Goto("download")
  /\ UNCHANGED <<rowVars, job, apiVars, pid, recorded, diskVars, bootVars>>

(* The leader's pid is written without waiting for the answer. *)
RecordPid(d) ==
  /\ At(d, "download")
  /\ d \in running \ pid
  /\ Exists(d)
  /\ pid' = pid \cup {d} /\ recorded' = recorded \cup {d}
  /\ UNCHANGED <<rowVars, job, apiVars, cur, pc, running, starts, diskVars, bootVars>>

(* Mutant: the exit code is not looked at. *)
ExitIgnored(d) ==
  /\ At(d, "download")
  /\ running' = running \ {d} /\ recorded' = recorded \ {d} /\ pid' = pid \ {d}
  /\ Goto("import")
  /\ UNCHANGED <<rowVars, job, apiVars, starts, diskVars, bootVars>>

(* The downloader's exit: with code 0 everything is in the staging         *)
(* directory, if that still exists;                                        *)
ExitOk(d) ==
  /\ At(d, "download")
  /\ d \in running
  /\ running' = running \ {d} /\ recorded' = recorded \ {d} /\ pid' = pid \ {d}
  /\ staging' = [staging EXCEPT ![d] = IF @ = "none" THEN @ ELSE "whole"]
  /\ Goto("import")
  /\ UNCHANGED <<rowVars, job, apiVars, starts, library, bootVars>>

(* any other exit, the timeout, the byte cap, the free-space floor and a   *)
(* poll that reads CANCELLED all reject (a kill by a guard or by the       *)
(* reconciler looks the same to the catch).                                *)
ExitBad(d) ==
  /\ At(d, "download")
  /\ running' = running \ {d} /\ recorded' = recorded \ {d} /\ pid' = pid \ {d}
  /\ Goto("catch")
  /\ UNCHANGED <<rowVars, job, apiVars, starts, diskVars, bootVars>>

MarkImporting(d) ==
  /\ At(d, "import")
  /\ IF CanSet(d, "IMPORTING")
     THEN SetRow(d, "IMPORTING") /\ Goto("move")
     ELSE UNCHANGED row /\ Goto("catch")
  /\ UNCHANGED <<title, job, apiVars, procVars, diskVars, bootVars>>

(* The file moves, or stays because the name is taken or the move fails. *)
Move(d) ==
  /\ At(d, "move")
  /\ \/ /\ staging[d] # "none"
        /\ library' = [library EXCEPT ![d] = staging[d]]
        /\ staging' = [staging EXCEPT ![d] = "none"]
     \/ UNCHANGED diskVars
  /\ Goto("done")
  /\ UNCHANGED <<rowVars, job, apiVars, procVars, bootVars>>

MarkDone(d) ==
  /\ At(d, "done")
  /\ IF Exists(d)
     THEN SetRow(d, "DONE") /\ EndJob(d)
     ELSE UNCHANGED <<row, job>> /\ Goto("catch")
  /\ UNCHANGED <<title, apiVars, procVars, diskVars, bootVars>>

(* The catch: a cancelled row is left alone, *)
Catch(d) ==
  /\ At(d, "catch")
  /\ staging' = [staging EXCEPT ![d] = "none"]
  /\ IF row[d] = "CANCELLED" THEN EndJob(d) ELSE UNCHANGED job /\ Goto("fail")
  /\ UNCHANGED <<rowVars, apiVars, procVars, library, bootVars>>

(* any other is failed. *)
FailRow(d) ==
  /\ At(d, "fail")
  /\ IF Exists(d) THEN SetRow(d, "FAILED") ELSE UNCHANGED row
  /\ EndJob(d)
  /\ UNCHANGED <<title, apiVars, procVars, diskVars, bootVars>>

-----------------------------------------------------------------------------
(* The worker process dies; the detached downloader does not. *)
Crash ==
  /\ boot # "down"
  /\ crashes < MaxCrashes
  /\ crashes' = crashes + 1
  /\ boot' = "down"
  /\ cur' = None /\ pc' = "idle"
  /\ snap' = [d \in Downloads |-> "none"] /\ keep' = {}
  /\ job' = [d \in Downloads |-> IF job[d] = "active" THEN "waiting" ELSE job[d]]
  /\ UNCHANGED <<rowVars, apiVars, procVars, diskVars>>

(* A downloader nobody listens to any more ends by itself. *)
OrphanExits(d) ==
  /\ d \in running
  /\ cur # d
  /\ running' = running \ {d} /\ recorded' = recorded \ {d}
  /\ UNCHANGED <<rowVars, job, apiVars, cur, pc, pid, starts, diskVars, bootVars>>

(* It starts again: the workers take jobs at once, the reconciler follows. *)
Restart ==
  /\ boot = "down"
  /\ boot' = "booting"
  /\ UNCHANGED <<rowVars, job, apiVars, cur, pc, procVars, diskVars, snap, keep, crashes>>

Snapshot ==
  /\ boot = "booting"
  /\ boot' = "rows"
  /\ snap' = [d \in Downloads |->
                IF row[d] \notin Active THEN "none"
                ELSE IF row[d] = "QUEUED" THEN "queued"
                ELSE IF d \in pid THEN "pid" ELSE "noPid"]
  /\ UNCHANGED <<rowVars, job, apiVars, cur, pc, procVars, diskVars, keep, crashes>>

Requeue(d) ==
  /\ boot = "rows" /\ snap[d] = "queued"
  /\ job' = [job EXCEPT ![d] = IF @ = "none" THEN "waiting" ELSE @]
  /\ snap' = [snap EXCEPT ![d] = "none"]
  /\ keep' = keep \cup {d}
  /\ UNCHANGED <<rowVars, apiVars, cur, pc, procVars, diskVars, boot, crashes>>

(* Mutant: no look at the recorded process. *)
KillNobody(d) ==
  /\ boot = "rows" /\ snap[d] = "pid"
  /\ snap' = [snap EXCEPT ![d] = "noPid"]
  /\ UNCHANGED <<rowVars, job, apiVars, cur, pc, procVars, diskVars, boot, keep, crashes>>

(* A row that was under way: its recorded downloader is killed, *)
KillOrphan(d) ==
  /\ boot = "rows" /\ snap[d] = "pid"
  /\ running' = running \ {d} /\ recorded' = recorded \ {d}
  /\ snap' = [snap EXCEPT ![d] = "noPid"]
  /\ UNCHANGED <<rowVars, job, apiVars, cur, pc, pid, starts, diskVars, boot, keep, crashes>>

(* Mutant: the row keeps its status. *)
FailCrashedSkips(d) ==
  /\ boot = "rows" /\ snap[d] = "noPid"
  /\ snap' = [snap EXCEPT ![d] = "none"]
  /\ UNCHANGED <<rowVars, job, apiVars, cur, pc, procVars, diskVars, boot, keep, crashes>>

(* and the row is failed. *)
FailCrashed(d) ==
  /\ boot = "rows" /\ snap[d] = "noPid"
  /\ IF Exists(d) THEN SetRow(d, "FAILED") /\ pid' = pid \ {d} ELSE UNCHANGED <<row, pid>>
  /\ snap' = [snap EXCEPT ![d] = "none"]
  /\ UNCHANGED <<title, job, apiVars, cur, pc, running, recorded, starts, diskVars, boot, keep, crashes>>

(* Staging directories of rows that are not queued are removed. *)
Sweep ==
  /\ boot = "rows"
  /\ \A d \in Downloads : snap[d] = "none"
  /\ staging' = [d \in Downloads |-> IF d \in keep THEN staging[d] ELSE "none"]
  /\ boot' = "up"
  /\ keep' = {}
  /\ UNCHANGED <<rowVars, job, apiVars, cur, pc, procVars, library, snap, crashes>>

-----------------------------------------------------------------------------
Handler(d) ==
  \/ Create(d) \/ Enqueue(d) \/ EnqueueFails(d) \/ DropJob(d) \/ DeleteWrite(d)

Work(d) ==
  \/ Take(d) \/ Stage(d) \/ MarkDownloading(d) \/ Spawn(d) \/ ExitOk(d) \/ ExitBad(d)
  \/ MarkImporting(d) \/ Move(d) \/ MarkDone(d) \/ Catch(d) \/ FailRow(d)

Reconcile ==
  \/ Restart \/ Snapshot \/ Sweep
  \/ \E d \in Downloads : Requeue(d) \/ KillOrphan(d) \/ FailCrashed(d)

Next ==
  \/ \E d \in Downloads :
       \/ \E t \in Titles : Gates(d, t)
       \/ DeleteRead(d) \/ RecordPid(d) \/ OrphanExits(d)
       \/ Handler(d) \/ Work(d)
  \/ Reconcile
  \/ Crash

(* Awaited calls answer, a downloader ends or is timed out, the worker     *)
(* takes jobs, and the container is started again after a crash.  Clients  *)
(* need not call.                                                          *)
Spec ==
  /\ Init /\ [][Next]_vars
  /\ \A d \in Downloads : WF_vars(Handler(d)) /\ WF_vars(Work(d))
  /\ WF_vars(Reconcile)

-----------------------------------------------------------------------------
TypeOK ==
  /\ row \in [Downloads -> Active \cup Terminal \cup {"absent", "deleted"}]
  /\ title \in [Downloads -> Titles \cup {None}]
  /\ job \in [Downloads -> {"none", "waiting", "active"}]
  /\ post \in [Downloads -> {"idle", "create", "enqueue", "done"}]
  /\ del \in [Downloads -> {"idle", "cancel", "drop", "cancelRow", "dropRow"}]
  /\ cur \in Downloads \cup {None}
  /\ pc \in {"idle", "stage", "mark", "spawn", "download", "import", "move", "done", "catch", "fail"}
  /\ running \subseteq Downloads
  /\ pid \subseteq Downloads
  /\ recorded \subseteq running
  /\ starts \in [Downloads -> Nat]
  /\ staging \in [Downloads -> {"none", "partial", "whole"}]
  /\ library \in [Downloads -> {"none", "partial", "whole"}]
  /\ boot \in {"down", "booting", "rows", "up"}
  /\ snap \in [Downloads -> {"none", "queued", "pid", "noPid"}]
  /\ keep \subseteq Downloads
  /\ crashes \in 0..MaxCrashes

(* A download is attempted at most once, whatever the crash interrupted,   *)
(* however often its job is delivered and whatever the reconciler queues   *)
(* again.                                                                  *)
RunsOnce == \A d \in Downloads : starts[d] <= 1

(* The library never receives a file of a downloader that was killed or    *)
(* failed.                                                                 *)
LibraryIsWhole == \A d \in Downloads : library[d] # "partial"

(* Once the reconciler is through, a downloader the worker does not own    *)
(* runs only if its pid never reached the row or the row was cancelled or  *)
(* deleted before the reconciler read it.                                  *)
NoStrayDownloader ==
  boot = "up" =>
    \A d \in running \ {cur} : d \notin recorded \/ row[d] \in {"CANCELLED", "deleted"}

(* Every download settles: a crash, a failed enqueue or a rejected write   *)
(* never leaves an active row behind that nobody works on.                 *)
DownloadsSettle == <>[](\A d \in Downloads : row[d] \notin Active)

(* What the worker's poll says of itself: never let a cancelled download   *)
(* import.                                                                 *)
CancelledIsNotImported ==
  [][\A d \in Downloads : row[d] = "CANCELLED" => row'[d] # "IMPORTING"]_vars
=============================================================================
