---------------------------- MODULE LibraryScan ----------------------------
(***************************************************************************)
(* The scan of one library: the queue with its deterministic job id        *)
(* (enqueueScan in apps/worker/src/index.ts and in apps/api/src/           *)
(* admin-mgmt-routes.ts), processScan with its resume cursor,              *)
(* packages/scanner/src/ingest.ts at the granularity of its awaits, the    *)
(* prune that ends a scan (prune.ts) and the admin's show delete, which    *)
(* prunes on its own.  Around them people write, copy, rename and remove   *)
(* files, and the drive comes loose.                                       *)
(*                                                                         *)
(* A directory is a show folder with at most one video file; the numbers   *)
(* of Dirs are the scan's order.  A file's tag stands for its inode, size  *)
(* and mtime: a rename keeps it, a copy does not.  A row is a MediaFile    *)
(* with its item, so a deleted row takes the item's watch state along.     *)
(* Titles, kinds, evidence and artwork are left out.                       *)
(***************************************************************************)
EXTENDS Naturals

CONSTANTS Last,        \* directories 1..Last
          Ids,         \* row ids, taken again when nobody remembers them
          MaxFiles,    \* bound: files ever written or copied
          MaxTroubles  \* bound: renames, losses of the drive, crashes,
                       \* rejected calls, show deletes and the admin's
                       \* requests, all together

ASSUME LibraryScanAssumption ==
  /\ Last \in Nat \ {0} /\ Ids \subseteq Nat
  /\ MaxFiles \in Nat /\ MaxTroubles \in Nat

VARIABLES
  disk,     \* the file in each directory
  mounted,  \* whether the library's drive is there
  rows,     \* MediaFile rows
  cursor,   \* Library.scanCursor, 0 for null
  queue,    \* the waiting scan job's mode
  asked,    \* enqueueScan between its remove and its add
  scan,     \* the active scan job
  admin,    \* DELETE /admin-api/shows/:id
  spent,    \* counts against the bounds
  slip,     \* history: the drive came loose during this scan
  away      \* history: rows whose file was really absent at the scan's look

vars == <<disk, mounted, rows, cursor, queue, asked, scan, admin, spent, slip,
          away>>
world == <<disk, mounted>>
jobs  == <<queue, asked>>
hist  == <<slip, away>>

Dirs     == 1..Last
Contents == 1..MaxFiles
Modes    == {"light", "heavy"}
Callers  == {"sweep", "admin"}

Gone  == [tag |-> 0, content |-> 0]
NoRow == [path |-> 0, tag |-> 0, hash |-> 0, probe |-> 0, streams |-> 0]

Live(i)   == rows[i] # NoRow
OnDisk(d) == mounted /\ disk[d] # Gone          \* existsSync

Idle == [pc |-> "idle", mode |-> "light", at |-> 0, resume |-> 0,
         seen |-> [d \in Dirs |-> Gone], stored |-> [i \in Ids |-> NoRow],
         probes |-> [d \in Dirs |-> 0], item |-> 0, doomed |-> {}]
AdminIdle == [pc |-> "idle", doomed |-> {}]

Spend(what) == spent' = [spent EXCEPT ![what] = @ + 1]

Init ==
  /\ disk = [d \in Dirs |-> Gone]
  /\ mounted = TRUE
  /\ rows = [i \in Ids |-> NoRow]
  /\ cursor = 0
  /\ queue = "none"
  /\ asked = [c \in Callers |-> "none"]
  /\ scan = Idle
  /\ admin = AdminIdle
  /\ spent = [files |-> 0, troubles |-> 0]
  /\ slip = FALSE
  /\ away = {}

-----------------------------------------------------------------------------
(* The file system. *)
DiskStep == UNCHANGED <<mounted, rows, cursor, jobs, scan, admin, hist>>

NewFile(d, content) ==
  /\ mounted /\ spent.files < MaxFiles
  /\ disk' = [disk EXCEPT ![d] = [tag |-> spent.files + 1,
                                  content |-> content]]
  /\ Spend("files")
  /\ DiskStep

Write(d) == NewFile(d, spent.files + 1)

Copy(d, e) == disk[d] # Gone /\ NewFile(e, disk[d].content)

Rename(d, e) ==
  /\ mounted /\ disk[d] # Gone /\ spent.troubles < MaxTroubles
  /\ disk' = [disk EXCEPT ![e] = disk[d], ![d] = Gone]
  /\ Spend("troubles")
  /\ DiskStep

Remove(d) ==
  /\ OnDisk(d)
  /\ disk' = [disk EXCEPT ![d] = Gone]
  /\ UNCHANGED spent
  /\ DiskStep

(* The mount point stays behind, empty. *)
ComeLoose ==
  /\ mounted /\ spent.troubles < MaxTroubles
  /\ mounted' = FALSE
  /\ slip' = (scan.pc # "idle")
  /\ Spend("troubles")
  /\ UNCHANGED <<disk, rows, cursor, jobs, scan, admin, away>>

ComeBack ==
  /\ ~mounted
  /\ mounted' = TRUE
  /\ UNCHANGED <<disk, rows, cursor, jobs, scan, admin, spent, hist>>

-----------------------------------------------------------------------------
(* Mutant: a job id of its own for every request. *)
NeverActive == FALSE

(* The deterministic id is taken while the job runs. *)
JobActive == scan.pc # "idle"

(* enqueueScan: remove, whose refusal for an active job is swallowed, and   *)
(* add, which does nothing while a job of that id exists.                   *)
AskStep == UNCHANGED <<world, hist, rows, cursor, scan, admin>>

RemoveJob(c, mode) ==
  /\ asked[c] = "none"
  /\ asked' = [asked EXCEPT ![c] = mode]
  /\ queue' = "none"
  /\ AskStep

Sweep == RemoveJob("sweep", "light") /\ UNCHANGED spent

AdminAsks(mode) ==
  /\ spent.troubles < MaxTroubles
  /\ RemoveJob("admin", mode)
  /\ Spend("troubles")

AddJob(c) ==
  /\ asked[c] # "none"
  /\ queue' = IF queue = "none" /\ ~JobActive THEN asked[c] ELSE queue
  /\ asked' = [asked EXCEPT ![c] = "none"]
  /\ UNCHANGED spent
  /\ AskStep

-----------------------------------------------------------------------------
(* The scan. *)
ScanStep == UNCHANGED <<world, jobs, admin, spent>>

EndScan == scan' = Idle /\ slip' = FALSE /\ away' = {}

(* A rejected call ends processScan; removeOnFail drops the job, and the   *)
(* cursor stays.                                                           *)
Throw ==
  /\ EndScan
  /\ UNCHANGED <<rows, cursor>>

Keep == UNCHANGED <<rows, cursor, hist>>

Take ==
  /\ queue # "none" /\ scan.pc = "idle"
  /\ scan' = [Idle EXCEPT !.pc = "walk", !.mode = queue, !.at = 1,
                          !.resume = cursor]
  /\ queue' = "none"
  /\ Keep
  /\ UNCHANGED <<world, asked, admin, spent>>

Found == \E d \in Dirs : scan.seen[d] # Gone

(* walkVideoFiles: the root's entries first, then each folder.  An empty   *)
(* mount point has no entries; a folder that went with the drive rejects.  *)
Walk ==
  /\ scan.pc = "walk"
  /\ \/ /\ mounted \/ (scan.at > 1 /\ disk[scan.at] = Gone)
        /\ scan' = [scan EXCEPT !.seen[scan.at] = disk[scan.at],
                                !.at = IF @ = Last THEN 1 ELSE @ + 1,
                                !.pc = IF scan.at = Last THEN "fetch" ELSE @]
        /\ Keep
     \/ /\ ~mounted /\ scan.at = 1
        /\ scan' = [scan EXCEPT !.pc = "fetch"]
        /\ Keep
     \/ ~mounted /\ Throw
  /\ ScanStep

(* The one bulk fetch of every stored row. *)
Fetch ==
  /\ scan.pc = "fetch"
  /\ scan' = [scan EXCEPT !.stored = rows, !.pc = "probe", !.at = 1]
  /\ Keep /\ ScanStep

(* storedFor: the row of the path, else one of the same inode. *)
StoredFor(d) ==
  LET known  == {i \in Ids : scan.stored[i] # NoRow}
      byPath == {i \in known : scan.stored[i].path = d}
  IN  IF byPath # {} THEN byPath
      ELSE {i \in known : scan.stored[i].tag = scan.seen[d].tag}

(* needsProbe's repairs: the stored probe is missing or not of this file.  *)
Trusted(row, file) ==
  row.tag = file.tag /\ row.probe # 0 /\ row.streams # 0

NeedsProbe(d) ==
  /\ scan.seen[d] # Gone
  /\ \A i \in StoredFor(d) :
       scan.mode = "heavy" /\ ~Trusted(scan.stored[i], scan.seen[d])

(* The directories left: in order, past the cursor a killed scan left.     *)
ToDo(after) == {e \in Dirs : /\ e > after /\ e > scan.resume
                             /\ scan.seen[e] # Gone}

Proceed(s, after) ==
  \/ /\ ToDo(after) = {}
     /\ scan' = [Idle EXCEPT !.pc = "finish", !.mode = s.mode, !.seen = s.seen]
  \/ \E e \in ToDo(after) :
       /\ \A f \in ToDo(after) : e <= f
       /\ scan' = [s EXCEPT !.pc = "store", !.at = e, !.item = 0]

(* probeFile degrades and never throws: a failed probe and none at all are *)
(* both null to the leaf.                                                  *)
Probed(d) == IF NeedsProbe(d) /\ OnDisk(d) THEN disk[d].content ELSE 0

Probe ==
  /\ scan.pc = "probe"
  /\ \E d \in Dirs :
       LET p == Probed(d)
           s == [scan EXCEPT !.probes[d] = p]
       IN  /\ d = scan.at
           /\ IF d = Last THEN Proceed(s, 0)
              ELSE scan' = [s EXCEPT !.at = d + 1]
  /\ Keep /\ ScanStep

Clash(i, d) == \E j \in Ids \ {i} : Live(j) /\ rows[j].path = d

(* The write of row i for the walked file of d: its stat, a hash, and the  *)
(* probe's fields; the streams follow in a step of their own.  Paths are   *)
(* unique.                                                                 *)
Put(i, d, hash, kept) ==
  LET p == scan.probes[d]
  IN  IF Clash(i, d) THEN Throw
      ELSE /\ rows' = [rows EXCEPT ![i] =
                         [path |-> d, tag |-> scan.seen[d].tag, hash |-> hash,
                          probe |-> IF p # 0 THEN p ELSE kept,
                          streams |-> rows[i].streams]]
           /\ scan' = [scan EXCEPT !.item = i,
                                   !.pc = IF p # 0 THEN "sync" ELSE "mark"]
           /\ UNCHANGED <<cursor, hist>>

(* A known file: unchanged by size and mtime, or hashed again. *)
Refresh(d) ==
  \E i \in StoredFor(d) :
    LET old       == scan.stored[i]
        unchanged == old.tag = scan.seen[d].tag
    IN  IF ~Live(i) \/ (~unchanged /\ ~OnDisk(d)) THEN Throw
        ELSE Put(i, d, IF unchanged THEN old.hash ELSE disk[d].content,
                 IF unchanged THEN old.probe ELSE 0)

FreeIds == {i \in Ids : /\ ~Live(i) /\ scan.stored[i] = NoRow
                        /\ i \notin admin.doomed}

Create(d) ==
  \E i \in FreeIds :
    /\ \A j \in FreeIds : i <= j
    /\ Put(i, d, disk[d].content, 0)

SameHash(d) ==
  {i \in Ids : Live(i) /\ rows[i].hash = disk[d].content /\ rows[i].path # d}

(* Mutant: any row of that content will do. *)
VanishedOrNot(i) == rows[i].path \in Dirs

(* The content-identity steal: only from a row whose own file vanished. *)
Vanished(i) == ~OnDisk(rows[i].path)

Import(d) ==
  IF ~OnDisk(d) THEN Throw
  ELSE \/ /\ \/ SameHash(d) = {}
             \/ \E t \in SameHash(d) : ~Vanished(t)
          /\ Create(d)
       \/ \E t \in SameHash(d) :
            Vanished(t) /\ Put(t, d, disk[d].content, 0)

(* ingestLeafItem up to the row's write. *)
Store ==
  /\ scan.pc = "store"
  /\ \/ StoredFor(scan.at) # {} /\ Refresh(scan.at)
     \/ StoredFor(scan.at) = {} /\ Import(scan.at)
  /\ ScanStep

(* syncMediaStreams and syncSubtitleTracks, after a fresh probe only. *)
Sync ==
  /\ scan.pc = "sync"
  /\ IF ~Live(scan.item) THEN Throw
     ELSE /\ rows' = [rows EXCEPT ![scan.item].streams =
                                    scan.probes[scan.at]]
          /\ scan' = [scan EXCEPT !.pc = "mark"]
          /\ UNCHANGED <<cursor, hist>>
  /\ ScanStep

(* onDirectoryComplete: the checkpoint. *)
Mark ==
  /\ scan.pc = "mark"
  /\ cursor' = scan.at
  /\ Proceed(scan, scan.at)
  /\ UNCHANGED <<rows, hist>>
  /\ ScanStep

(* Mutant: the gate on a walk that found something is left out. *)
PruneAlways == TRUE

PruneGate == Found

(* Mutant: the cursor of a finished scan stays. *)
CursorKept == cursor

CursorAfter == 0

Finish ==
  /\ scan.pc = "finish"
  /\ cursor' = CursorAfter
  /\ \/ /\ PruneGate
        /\ scan' = [Idle EXCEPT !.pc = "look", !.mode = scan.mode]
        /\ UNCHANGED hist
     \/ ~PruneGate /\ EndScan
  /\ UNCHANGED rows
  /\ ScanStep

Missing == {i \in Ids : Live(i) /\ ~OnDisk(rows[i].path)}

Look ==
  /\ scan.pc = "look"
  /\ scan' = [scan EXCEPT !.pc = "delete", !.doomed = Missing]
  /\ away' = {i \in Missing : disk[rows[i].path] = Gone}
  /\ UNCHANGED <<rows, cursor, slip>>
  /\ ScanStep

Without(doomed) == [i \in Ids |-> IF i \in doomed THEN NoRow ELSE rows[i]]

Delete ==
  /\ scan.pc = "delete"
  /\ rows' = Without(scan.doomed)
  /\ EndScan
  /\ UNCHANGED cursor
  /\ ScanStep

(* Any awaited call rejects. *)
ScanFails ==
  /\ scan.pc # "idle" /\ spent.troubles < MaxTroubles
  /\ Throw
  /\ Spend("troubles")
  /\ UNCHANGED <<world, jobs, admin>>

(* The worker dies and its successor reconciles.  The active job is found  *)
(* stalled and waits again, or is dropped the second time; when its lock   *)
(* had run out by then, the reconciler's own light scan replaces it.       *)
Crash ==
  /\ spent.troubles < MaxTroubles
  /\ scan.pc # "idle"
  /\ \E next \in {scan.mode, "light", "none"} : queue' = next
  /\ asked' = [asked EXCEPT !["sweep"] = "none"]
  /\ Throw
  /\ Spend("troubles")
  /\ UNCHANGED <<world, admin>>

-----------------------------------------------------------------------------
(* DELETE /admin-api/shows/:id: the folder, then the same prune.  The      *)
(* existsSync(rootPath) before it sees the mount point of a loose drive.   *)
AdminStep == UNCHANGED <<mounted, hist, jobs, scan, cursor>>

ShowDelete(d) ==
  /\ admin.pc = "idle" /\ spent.troubles < MaxTroubles
  /\ disk' = IF mounted THEN [disk EXCEPT ![d] = Gone] ELSE disk
  /\ admin' = [AdminIdle EXCEPT !.pc = "look"]
  /\ Spend("troubles")
  /\ UNCHANGED rows
  /\ AdminStep

AdminLook ==
  /\ admin.pc = "look"
  /\ admin' = [admin EXCEPT !.pc = "delete", !.doomed = Missing]
  /\ UNCHANGED <<rows, disk, spent>>
  /\ AdminStep

AdminDelete ==
  /\ admin.pc = "delete"
  /\ rows' = Without(admin.doomed)
  /\ admin' = AdminIdle
  /\ UNCHANGED <<disk, spent>>
  /\ AdminStep

Scan == Walk \/ Fetch \/ Probe \/ Store \/ Sync \/ Mark \/ Finish \/ Look \/ Delete
AdminGoes == AdminLook \/ AdminDelete

Next ==
  \/ \E d \in Dirs : Write(d) \/ Remove(d) \/ ShowDelete(d)
  \/ \E d, e \in Dirs : d # e /\ (Copy(d, e) \/ Rename(d, e))
  \/ ComeLoose \/ ComeBack
  \/ Sweep
  \/ \E mode \in Modes : AdminAsks(mode)
  \/ \E c \in Callers : AddJob(c)
  \/ Take \/ Scan \/ ScanFails \/ Crash
  \/ AdminGoes

(* The sweep's interval comes round, calls answer, and the worker takes a  *)
(* waiting job sooner or later although the sweep keeps replacing it.      *)
Fairness ==
  /\ WF_vars(Sweep)
  /\ \A c \in Callers : WF_vars(AddJob(c))
  /\ SF_vars(Take)
  /\ WF_vars(Scan)
  /\ WF_vars(AdminGoes)

Spec == Init /\ [][Next]_vars /\ Fairness

-----------------------------------------------------------------------------
Files == {Gone} \cup [tag : Contents, content : Contents]
Rows  == {NoRow} \cup [path : Dirs, tag : Contents, hash : Contents,
                       probe : 0..MaxFiles, streams : 0..MaxFiles]

ScanPcs == {"idle", "walk", "fetch", "probe", "store", "sync", "mark",
            "finish", "look", "delete"}

(* Every variable has its type; no two rows share a path (a unique column), *)
(* and an active job leaves none waiting.                                   *)
TypeOK ==
  /\ disk \in [Dirs -> Files] /\ mounted \in BOOLEAN
  /\ rows \in [Ids -> Rows]
  /\ \A i, j \in Ids : Live(i) /\ rows[i].path = rows[j].path => i = j
  /\ cursor \in 0..Last
  /\ queue \in Modes \cup {"none"}
  /\ asked \in [Callers -> Modes \cup {"none"}]
  /\ scan \in [pc : ScanPcs, mode : Modes, at : 0..Last, resume : 0..Last,
               seen : [Dirs -> Files], stored : [Ids -> Rows],
               probes : [Dirs -> 0..MaxFiles], item : Ids \cup {0},
               doomed : SUBSET Ids]
  /\ scan.pc # "idle" => queue = "none"
  /\ admin \in [pc : {"idle", "look", "delete"}, doomed : SUBSET Ids]
  /\ spent \in [files : 0..MaxFiles, troubles : 0..MaxTroubles]
  /\ slip \in BOOLEAN /\ away \subseteq Ids

(* A row that tells the truth of a file that is where the row says.         *)
Settled(i) == /\ Live(i)
              /\ disk[rows[i].path] # Gone
              /\ disk[rows[i].path].tag = rows[i].tag

(* The known ways to lose such a row: a show delete that saw its file       *)
(* missing, or the whole drive; a drive that came loose between a scan's    *)
(* walk and its prune; a file that was away when the prune looked; and two  *)
(* walked files that both take the row for theirs, or one that has moved    *)
(* since the walk.                                                          *)
Excused(i) ==
  \/ i \in admin.doomed \cup away
  \/ slip /\ i \in scan.doomed
  \/ \E d, e \in Dirs : d # e /\ i \in StoredFor(d) \cap StoredFor(e)
                        /\ Gone \notin {scan.seen[d], scan.seen[e]}
  \/ \E d \in Dirs : i \in StoredFor(d) /\ scan.seen[d] \notin {Gone, disk[d]}

(* What hangs on a row (watch state, artwork) stays with its file: no step  *)
(* of a scan, a crash, a request or a prune deletes a settled row or hands  *)
(* it to another file, but for Excused.  In particular a copy never takes   *)
(* the row of a file that is still there (the steal's existsSync), and a    *)
(* drive that was loose before the walk costs nothing (the prune's gate).   *)
HistoryStays ==
  [][disk' = disk => \A i \in Ids : Settled(i) /\ ~Excused(i) => Settled(i)']_vars

(* When the drive stays and holds something, the library comes to match it: *)
(* a row for each file, with its stat, and none for a file that is gone,    *)
(* whatever requests, crashes, resumed scans, moves and deletes came before.*)
InSync ==
  /\ \A d \in Dirs : disk[d] # Gone =>
       \E i \in Ids : rows[i].path = d /\ rows[i].tag = disk[d].tag
  /\ \A i \in Ids : Live(i) => disk[rows[i].path] # Gone

LibraryConverges ==
  <>[](mounted /\ \E d \in Dirs : disk[d] # Gone) => <>[]InSync

(* "size + mtime match means the file never changed since its stored        *)
(* probe" (ingest.ts:471): when a heavy scan leaves the file of a path      *)
(* unprobed, the stored streams are of that file.                           *)
ScanTrustsTruth ==
  scan.pc = "probe" /\ scan.mode = "heavy" =>
    \A d \in Dirs, i \in Ids :
      /\ scan.seen[d] # Gone
      /\ scan.stored[i].path = d
      /\ Trusted(scan.stored[i], scan.seen[d])
      => scan.stored[i].streams = scan.seen[d].content

=============================================================================
