--------------------------- MODULE AcquireProofs ---------------------------
(***************************************************************************)
(* Machine-checked facts about what brings new episodes in: ani-cli's      *)
(* downloads, for any number of downloads and titles; the imports of       *)
(* providers' files, for any number of jobs, names and crashes; and the    *)
(* registry of providers.                                                  *)
(***************************************************************************)
EXTENDS SuiteAcquire, WellFoundedInduction, TLAPS

Started(d) == row[d] \notin {"absent", "QUEUED"}

(* The parts of the type invariant the argument needs. *)
Typed ==
  /\ row \in [Downloads -> Active \cup Terminal \cup {"absent", "deleted"}]
  /\ starts \in [Downloads -> Nat]
  /\ staging \in [Downloads -> {"none", "partial", "whole"}]
  /\ library \in [Downloads -> {"none", "partial", "whole"}]
  /\ post \in [Downloads -> {"idle", "create", "enqueue", "done"}]
  /\ running \subseteq Downloads
  /\ job \in [Downloads -> {"none", "waiting", "active"}]

(* A row that has had its downloader is past QUEUED, and nothing leads     *)
(* back there; the worker's current download has had none until it spawns. *)
StartsHold ==
  \A d \in Downloads :
    /\ starts[d] <= 1
    /\ starts[d] # 0 => Started(d)
    /\ d \in running => starts[d] # 0
    /\ cur = d /\ pc \in {"stage", "mark", "spawn"} => starts[d] = 0 /\ row[d] # "absent"
    /\ cur = d /\ pc = "spawn" => Started(d)
    /\ post[d] \in {"idle", "create"} => row[d] = "absent"

(* What is about to be moved came from a downloader that exited with 0. *)
StagingHolds ==
  \A d \in Downloads :
    /\ cur = d /\ pc \in {"import", "move"} => staging[d] # "partial"
    /\ library[d] # "partial"

(* Where a row can be while its downloader runs, unless the reconciler     *)
(* has mistaken a running download for a crashed one.                      *)
Loading == {"DOWNLOADING", "CANCELLED", "deleted"}

(* Before the crash the only downloader is the worker's own. *)
FirstLifeHolds ==
  /\ crashes \in {0, 1}
  /\ crashes = 0 => boot = "up"
  /\ cur \in running => pc = "download"
  /\ crashes = 0 =>
       /\ running \subseteq {cur}
       /\ \A d \in Downloads :
            /\ job[d] # "none" \/ cur = d => post[d] = "done"
            /\ cur = d /\ pc \in {"spawn", "download"} => row[d] \in Loading
            /\ d \in recorded => d \in pid

(* The downloader the crash left behind is on its way to being killed,     *)
(* unless its row was cancelled or deleted meanwhile.                      *)
StrayHolds ==
  \A d \in Downloads :
    d \in running /\ d # cur /\ d \in recorded =>
      /\ row[d] \in Loading
      /\ post[d] = "done"
      /\ boot = "rows" => snap[d] # "noPid"
      /\ row[d] = "DOWNLOADING" => d \in pid /\ boot # "up" /\ (boot = "rows" => snap[d] = "pid")

IInv == Typed /\ StartsHold /\ StagingHolds /\ FirstLifeHolds /\ StrayHolds

-----------------------------------------------------------------------------
LEMMA InitIInv == Init => IInv
  BY AnicliAssumption
  DEF Init, IInv, Typed, StartsHold, StagingHolds, FirstLifeHolds, StrayHolds, Loading, Started, Active,
      Terminal, AnicliAssumption

(* A step of POST or DELETE keeps the invariant. *)
LEMMA HandlerStep ==
  ASSUME IInv, NEW d \in Downloads,
         (\E t \in Titles : Gates(d, t)) \/ DeleteRead(d) \/ Handler(d)
  PROVE  IInv'
<1> USE AnicliAssumption
    DEF AnicliAssumption, IInv, Typed, StartsHold, StagingHolds, FirstLifeHolds, StrayHolds, Loading,
        Started, Active, Terminal, Exists, SetRow,
        apiVars, procVars, diskVars, bootVars, rowVars
<1>1. CASE \E t \in Titles : Gates(d, t)
  BY <1>1 DEF Gates
<1>2. CASE DeleteRead(d)
  BY <1>2 DEF DeleteRead
<1>3. CASE Create(d)
  BY <1>3 DEF Create
<1>4. CASE Enqueue(d)
  BY <1>4 DEF Enqueue
<1>5. CASE EnqueueFails(d)
  BY <1>5 DEF EnqueueFails
<1>6. CASE DropJob(d)
  BY <1>6 DEF DropJob
<1>7. CASE DeleteWrite(d)
  BY <1>7 DEF DeleteWrite
<1>8. QED
  BY <1>1, <1>2, <1>3, <1>4, <1>5, <1>6, <1>7 DEF Handler

(* A step of the worker or of the downloader keeps the invariant. *)
LEMMA WorkStep ==
  ASSUME IInv, NEW d \in Downloads, RecordPid(d) \/ OrphanExits(d) \/ Work(d)
  PROVE  IInv'
<1> USE AnicliAssumption
    DEF IInv, Typed, StartsHold, StagingHolds, FirstLifeHolds, StrayHolds, Loading,
        Started, Active, Terminal, Exists, SetRow, CanSet,
        At, Goto, EndJob, AnicliAssumption, apiVars, procVars, diskVars, bootVars, rowVars
<1>1. CASE RecordPid(d)
  BY <1>1 DEF RecordPid
<1>2. CASE OrphanExits(d)
  BY <1>2 DEF OrphanExits
<1>3. CASE Take(d)
  BY <1>3 DEF Take
<1>4. CASE Stage(d)
  BY <1>4 DEF Stage
<1>5. CASE MarkDownloading(d)
  BY <1>5 DEF MarkDownloading
<1>6. CASE Spawn(d)
  BY <1>6 DEF Spawn
<1>7. CASE ExitOk(d)
  BY <1>7 DEF ExitOk
<1>8. CASE ExitBad(d)
  BY <1>8 DEF ExitBad
<1>9. CASE MarkImporting(d)
  BY <1>9 DEF MarkImporting
<1>10. CASE Move(d)
  BY <1>10 DEF Move
<1>11. CASE MarkDone(d)
  BY <1>11 DEF MarkDone
<1>12. CASE Catch(d)
  BY <1>12 DEF Catch
<1>13. CASE FailRow(d)
  BY <1>13 DEF FailRow
<1>14. QED
  BY <1>1, <1>2, <1>3, <1>4, <1>5, <1>6, <1>7, <1>8, <1>9, <1>10, <1>11, <1>12, <1>13 DEF Work

(* A crash, the restart and the reconciler keep the invariant. *)
LEMMA BootStep ==
  ASSUME IInv, Crash \/ Reconcile
  PROVE  IInv'
<1> USE AnicliAssumption
    DEF IInv, Typed, StartsHold, StagingHolds, FirstLifeHolds, StrayHolds, Loading,
        Started, Active, Terminal, Exists, SetRow,
        AnicliAssumption, apiVars, procVars, diskVars, bootVars, rowVars
<1>1. CASE Crash
  BY <1>1 DEF Crash
<1>2. CASE Restart
  BY <1>2 DEF Restart
<1>3. CASE Snapshot
  BY <1>3 DEF Snapshot
<1>4. CASE Sweep
  BY <1>4 DEF Sweep
<1>5. ASSUME NEW d \in Downloads, Requeue(d) PROVE IInv'
  BY <1>5 DEF Requeue
<1>6. ASSUME NEW d \in Downloads, KillOrphan(d) PROVE IInv'
  BY <1>6 DEF KillOrphan
<1>7. ASSUME NEW d \in Downloads, FailCrashed(d) PROVE IInv'
  BY <1>7 DEF FailCrashed
<1>8. QED
  BY <1>1, <1>2, <1>3, <1>4, <1>5, <1>6, <1>7 DEF Reconcile

(* The inductive invariant holds in every reachable state. *)
THEOREM Invariance == Spec => []IInv
<1>1. ASSUME IInv, [Next]_vars
      PROVE  IInv'
  <2>1. CASE Next
    BY <1>1, <2>1, HandlerStep, WorkStep, BootStep DEF Next
  <2>2. CASE UNCHANGED vars
    BY <1>1, <2>2
    DEF vars, rowVars, apiVars, procVars, diskVars, bootVars, IInv, Typed, StartsHold,
        StagingHolds, FirstLifeHolds, StrayHolds, Loading, Started
  <2>3. QED
    BY <1>1, <2>1, <2>2
<1>2. QED
  BY InitIInv, <1>1, PTL DEF Spec

(* No download is attempted twice: the QUEUED check of processAnicli stops *)
(* every later delivery, because no write leads back to QUEUED.            *)
THEOREM AttemptedOnce == Spec => []RunsOnce
<1>1. IInv => RunsOnce
  BY DEF IInv, StartsHold, RunsOnce
<1>2. QED
  BY Invariance, <1>1, PTL

(* Only what a downloader finished reaches the library. *)
THEOREM NoPartialImport == Spec => []LibraryIsWhole
<1>1. IInv => LibraryIsWhole
  BY DEF IInv, StagingHolds, LibraryIsWhole
<1>2. QED
  BY Invariance, <1>1, PTL

(* No stray downloader: the reconciler kills what a crash left running,    *)
(* with the two exceptions the property names.                             *)
THEOREM StraysKilled == Spec => []NoStrayDownloader
<1>1. IInv => NoStrayDownloader
  BY DEF IInv, StrayHolds, Typed, FirstLifeHolds, Loading, NoStrayDownloader
<1>2. QED
  BY Invariance, <1>1, PTL

-----------------------------------------------------------------------------
(* A set of naturals that is not empty has a least element. *)
LEMMA Least ==
  ASSUME NEW S \in SUBSET Nat, S # {}
  PROVE  \E x \in S : \A y \in S : x <= y
<1>1. PICK x \in S : \A y \in S : <<y, x>> \notin OpToRel(<, Nat)
  BY WFMin, NatLessThanWellFounded
<1>2. ASSUME NEW y \in S
      PROVE  x <= y
  <2>1. x \in Nat /\ y \in Nat
    OBVIOUS
  <2>2. y < x => <<y, x>> \in OpToRel(<, Nat)
    BY <2>1 DEF OpToRel
  <2>3. ~(y < x)
    BY <1>1, <2>2, Zenon
  <2> QED  BY <2>1, <2>3
<1> QED  BY <1>2

-----------------------------------------------------------------------------
(***************************************************************************)
(* AcquireImport: what a job has looked at and what others did meanwhile.  *)
(***************************************************************************)
Hits == [title : Names, alias : Names \cup {Import!NoName}] \cup {Import!NoRow}

(* The types the argument needs beside the module's own. *)
ImportTyped ==
  /\ ask \in Asks /\ hit \in [Imports -> Hits]
  /\ at \in [Imports -> {"done", "failed", "refused", "asked", "wait", "match", "identify", "look", "canon",
                         "fetch", "mkdir", "check", "move", "settle"}]
  /\ stage \in [Imports -> {"none", "empty", "part", "whole"}]
  /\ name \in [Imports -> Names \cup {Import!NoName}]
  /\ dir \in [Imports -> Names \cup {Import!NoName}]
  /\ series \subseteq [title : Names, alias : Names \cup {Import!NoName}]
  /\ shelves \subseteq Names /\ maker \in [Names -> Imports \cup {Import!NoName}]
  /\ lib \in [Names \X Import!Subs \X Files -> Imports \cup {Import!NoName}]
  /\ restarts \in Nat

(* A job that has chosen a name keeps it, and a folder it found is there. *)
NamesHold ==
  \A j \in Imports :
    /\ at[j] \in {"look", "canon", "fetch", "mkdir", "check", "move", "settle"} => name[j] \in Names
    /\ dir[j] # Import!NoName => dir[j] \in shelves

(* Jobs that run at one time have met. *)
MeetingsHold == \A j, k \in Import!Running : j # k => {j, k} \in met

(* A folder like the one a job is about to make was made by a job it met,  *)
(* and so were the bytes that stand where it is about to move its own.     *)
LookHolds(j) ==
  /\ at[j] \in {"canon", "fetch", "mkdir"} /\ dir[j] = Import!NoName =>
       \A f \in shelves : Import!Like(name[j], f) => {j, maker[f]} \in met
  /\ at[j] = "move" /\ lib[Import!Dest(j)] # Import!NoName => {j, lib[Import!Dest(j)]} \in met

(* Nothing is staged before the fetch of a first life. *)
StageHolds ==
  \A j \in Imports :
    /\ at[j] = "done" => stage[j] = "none"
    /\ restarts = 0 /\ at[j] \in {"failed", "asked", "wait", "match", "identify", "look", "canon"} =>
         stage[j] = "none"

ImportInv ==
  /\ ImportTyped /\ NamesHold /\ MeetingsHold /\ (\A j \in Imports : LookHolds(j)) /\ StageHolds
  /\ lost \subseteq met /\ Import!OneFolderPerShow

LEMMA InitImport == Import!Init => ImportInv
<1> SUFFICES ASSUME Import!Init PROVE ImportInv
  OBVIOUS
<1>1. Import!NoRow \in Hits
  BY DEF Hits
<1>2. ImportTyped
  BY <1>1 DEF Import!Init, ImportTyped
<1>3. NamesHold /\ MeetingsHold /\ (\A j \in Imports : LookHolds(j)) /\ StageHolds
  BY DEF Import!Init, NamesHold, MeetingsHold, LookHolds, StageHolds, Import!Running, Import!Settled
<1>4. Import!OneFolderPerShow
  <2>1. series = {} \/ \E n \in Names : series = {[title |-> n, alias |-> Import!NoName]}
    BY DEF Import!Init
  <2>2. \A a, b \in shelves : a = b
    BY <2>1 DEF Import!Init
  <2> QED  BY <2>2 DEF Import!OneFolderPerShow
<1> QED  BY <1>2, <1>3, <1>4 DEF ImportInv, Import!Init

(* Names a job goes by are names. *)
LEMMA AskFits ==
  ASSUME ImportTyped, NEW j \in Imports
  PROVE  /\ ask[j].file \in Files /\ Import!Sub(j) \in Import!Subs
         /\ Import!Naming(j) # {} => Import!FirstName(j) \in Names
<1>1. ask[j] \in Import!Requests
  BY AcquireWorlds DEF Import!AcquireImportAssumption, ImportTyped
<1>3. ask[j].file \in Files /\ Import!Sub(j) \in Import!Subs
  BY <1>1 DEF Import!Requests, Import!Texts, Import!NoText, Import!Subs, Import!Sub,
              Import!Item, Import!Parse
<1>2. ASSUME Import!Naming(j) # {} PROVE Import!FirstName(j) \in Names
  <2>1. Import!Naming(j) \in SUBSET Nat
    BY <1>1 DEF Import!Naming
  <2>2. PICK m \in Import!Naming(j) : \A k \in Import!Naming(j) : m <= k
    BY <1>2, <2>1, Least
  <2>3. (CHOOSE i \in Import!Naming(j) : \A k \in Import!Naming(j) : i <= k) \in Import!Naming(j)
    BY <2>2
  <2>4. \A i \in Import!Naming(j) : Import!Cands(j)[i] \in Names
    BY AcquireWorlds DEF Import!AcquireImportAssumption, Import!Naming, Import!IsSeriesLike
  <2> QED  BY <2>3, <2>4 DEF Import!FirstName
<1> QED  BY <1>2, <1>3

LEMMA TargetFits ==
  ASSUME ImportTyped, NamesHold, NEW j \in Imports, at[j] \in {"mkdir", "check", "move", "settle"}
  PROVE  Import!Target(j) \in Names /\ Import!Dest(j) \in Names \X Import!Subs \X Files
<1>1. ask[j].file \in Files /\ Import!Sub(j) \in Import!Subs
  BY AskFits
<1>2. Import!Target(j) \in Names
  BY DEF ImportTyped, NamesHold, Import!Target
<1> QED  BY <1>1, <1>2 DEF Import!Dest

(* A step of one job that touches neither folders nor files disturbs only  *)
(* what holds of that job.                                                 *)
LEMMA Alone ==
  ASSUME ImportInv, NEW j \in Imports, NEW to, at' = [at EXCEPT ![j] = to],
         UNCHANGED <<ask, shelves, maker, lib, met, lost>>,
         \A k \in Imports \ {j} : name'[k] = name[k] /\ dir'[k] = dir[k],
         at[j] \notin Import!Settled \cup {"asked", "wait"} \/ to \in Import!Settled \cup {"asked", "wait"},
         LookHolds(j)'
  PROVE  MeetingsHold' /\ (\A k \in Imports : LookHolds(k)') /\ lost' \subseteq met' /\ Import!OneFolderPerShow'
<1>1. at \in [Imports -> {"done", "failed", "refused", "asked", "wait", "match", "identify", "look", "canon",
                         "fetch", "mkdir", "check", "move", "settle"}]
  BY DEF ImportInv, ImportTyped
<1>2. MeetingsHold'
  BY <1>1 DEF ImportInv, MeetingsHold, Import!Running, Import!Settled
<1>3. ASSUME NEW k \in Imports, k # j PROVE LookHolds(k)'
  <2>1. at'[k] = at[k] /\ name'[k] = name[k] /\ dir'[k] = dir[k]
    BY <1>1, <1>3
  <2>2. LookHolds(k)
    BY DEF ImportInv
  <2> QED
    BY <2>1, <2>2 DEF LookHolds, Import!Like, Import!Dest, Import!Sub, Import!Item, Import!Target
<1> QED  BY <1>2, <1>3 DEF ImportInv, Import!OneFolderPerShow, Import!Like

LEMMA AskStep ==
  ASSUME ImportInv, NEW j \in Imports, Import!Ask(j)
  PROVE  ImportInv'
<1>1. PICK to \in {"wait", "refused"} : at' = [at EXCEPT ![j] = to]
  BY DEF Import!Ask
<1>2. UNCHANGED <<ask, name, dir, hit, stage, series, shelves, maker, lib, restarts, met, lost>> /\ at[j] = "asked"
  BY DEF Import!Ask
<1>3. ImportTyped' /\ NamesHold'
  BY <1>1, <1>2 DEF ImportInv, ImportTyped, NamesHold
<1>4. LookHolds(j)' /\ StageHolds'
  BY <1>1, <1>2 DEF ImportInv, ImportTyped, LookHolds, StageHolds
<1>5. MeetingsHold' /\ (\A k \in Imports : LookHolds(k)') /\ lost' \subseteq met' /\ Import!OneFolderPerShow'
  BY <1>1, <1>2, <1>4, Alone DEF Import!Settled
<1> QED  BY <1>3, <1>4, <1>5 DEF ImportInv

LEMMA MatchStep ==
  ASSUME ImportInv, NEW j \in Imports, Import!Match(j)
  PROVE  ImportInv'
<1>1. at' = [at EXCEPT ![j] = "identify"] /\ at[j] = "match"
  BY DEF Import!Match
<1>2. UNCHANGED <<ask, name, dir, stage, series, shelves, maker, lib, restarts, met, lost>>
  BY DEF Import!Match
<1>3. hit' \in [Imports -> Hits]
  <2>1. hit \in [Imports -> Hits] /\ series \subseteq Hits
    BY DEF ImportInv, ImportTyped, Hits
  <2>2. \A X : UNION {Import!Existing(n) : n \in X} \subseteq series
    BY DEF Import!Existing
  <2>3. \A S : Import!Prefer(S) \subseteq S
    BY DEF Import!Prefer
  <2>4. hit' = hit \/ \E r \in series : hit' = [hit EXCEPT ![j] = r]
    BY <2>2, <2>3 DEF Import!Match
  <2> QED  BY <2>1, <2>4
<1>4. ImportTyped' /\ NamesHold'
  BY <1>1, <1>2, <1>3 DEF ImportInv, ImportTyped, NamesHold
<1>5. LookHolds(j)' /\ StageHolds'
  BY <1>1, <1>2 DEF ImportInv, ImportTyped, LookHolds, StageHolds
<1>6. MeetingsHold' /\ (\A k \in Imports : LookHolds(k)') /\ lost' \subseteq met' /\ Import!OneFolderPerShow'
  BY <1>1, <1>2, <1>5, Alone DEF Import!Settled
<1> QED  BY <1>4, <1>5, <1>6 DEF ImportInv

LEMMA IdentifyStep ==
  ASSUME ImportInv, NEW j \in Imports, Import!Identify(j)
  PROVE  ImportInv'
<1>1. at[j] = "identify" /\ UNCHANGED <<ask, dir, stage, series, shelves, maker, lib, restarts, met, lost>>
  BY DEF Import!Identify
<1>2. PICK h \in Hits : /\ hit' = [hit EXCEPT ![j] = h]
                       /\ IF h = Import!NoRow /\ Import!Naming(j) = {}
                          THEN at' = [at EXCEPT ![j] = "failed"] /\ UNCHANGED name
                          ELSE /\ name' = [name EXCEPT ![j] = IF h = Import!NoRow THEN Import!FirstName(j) ELSE h.title]
                               /\ at' = [at EXCEPT ![j] = "look"]
  <2>1. hit[j] \in Hits /\ series \subseteq Hits
    BY DEF ImportInv, ImportTyped, Hits
  <2>2. \A S : Import!Prefer(S) \subseteq S
    BY DEF Import!Prefer
  <2>3. \A S \in Import!Resolved({hit[j]} \ {Import!NoRow}) : S \subseteq Hits
    BY <2>1 DEF Import!Resolved, Import!Identified
  <2>4. UNION {Import!Prefer(S) : S \in Import!Resolved({hit[j]} \ {Import!NoRow})} \subseteq Hits
    BY <2>2, <2>3
  <2> QED  BY <2>1, <2>4 DEF Import!Identify
<1>3. CASE h = Import!NoRow /\ Import!Naming(j) = {}
  <2>1. at' = [at EXCEPT ![j] = "failed"] /\ UNCHANGED name
    BY <1>2, <1>3
  <2>2. ImportTyped' /\ NamesHold'
    BY <1>1, <1>2, <2>1 DEF ImportInv, ImportTyped, NamesHold
  <2>3. LookHolds(j)' /\ StageHolds'
    BY <1>1, <2>1 DEF ImportInv, ImportTyped, LookHolds, StageHolds
  <2>4. MeetingsHold' /\ (\A k \in Imports : LookHolds(k)') /\ lost' \subseteq met' /\ Import!OneFolderPerShow'
    BY <1>1, <2>1, <2>3, Alone DEF Import!Settled
  <2> QED  BY <2>2, <2>3, <2>4 DEF ImportInv
<1>4. CASE ~(h = Import!NoRow /\ Import!Naming(j) = {})
  <2>1. PICK n \in Names : name' = [name EXCEPT ![j] = n]
    <3>1. (IF h = Import!NoRow THEN Import!FirstName(j) ELSE h.title) \in Names
      BY <1>4, AskFits DEF Hits, ImportInv
    <3> QED  BY <1>2, <1>4, <3>1
  <2>2. at' = [at EXCEPT ![j] = "look"]
    BY <1>2, <1>4
  <2>3. ImportTyped' /\ NamesHold'
    BY <1>1, <1>2, <2>1, <2>2 DEF ImportInv, ImportTyped, NamesHold
  <2>4. LookHolds(j)' /\ StageHolds'
    BY <1>1, <2>2 DEF ImportInv, ImportTyped, LookHolds, StageHolds
  <2>5. \A k \in Imports \ {j} : name'[k] = name[k] /\ dir'[k] = dir[k]
    BY <1>1, <2>1 DEF ImportInv, ImportTyped
  <2>6. MeetingsHold' /\ (\A k \in Imports : LookHolds(k)') /\ lost' \subseteq met' /\ Import!OneFolderPerShow'
    BY <1>1, <2>2, <2>4, <2>5, Alone DEF Import!Settled
  <2> QED  BY <2>3, <2>4, <2>6 DEF ImportInv
<1> QED  BY <1>3, <1>4

LEMMA LookStep ==
  ASSUME ImportInv, NEW j \in Imports, Import!Look(j)
  PROVE  ImportInv'
<1>1. at[j] = "look" /\ UNCHANGED <<ask, name, hit, stage, series, shelves, maker, lib, restarts, met, lost>>
  BY DEF Import!Look
<1>2. PICK to \in {"canon", "fetch"} : at' = [at EXCEPT ![j] = to]
  BY DEF Import!Look
<1>3. CASE Import!OnDisk(name[j]) = {} /\ UNCHANGED dir
  <2>1. ImportTyped' /\ NamesHold'
    BY <1>1, <1>2, <1>3 DEF ImportInv, ImportTyped, NamesHold
  <2>2. LookHolds(j)'
    <3>1. \A f \in shelves : ~Import!Like(name[j], f)
      BY <1>3 DEF Import!OnDisk, Import!Alike, Import!Like
    <3>2. at'[j] # "move" /\ \A f \in shelves' : ~Import!Like(name'[j], f)
      BY <1>1, <1>2, <3>1 DEF ImportInv, ImportTyped, Import!Like
    <3> QED  BY <3>2 DEF LookHolds
  <2>3. StageHolds'
    BY <1>1, <1>2 DEF ImportInv, ImportTyped, StageHolds
  <2>4. MeetingsHold' /\ (\A k \in Imports : LookHolds(k)') /\ lost' \subseteq met' /\ Import!OneFolderPerShow'
    BY <1>1, <1>2, <1>3, <2>2, Alone DEF Import!Settled
  <2> QED  BY <2>1, <2>3, <2>4 DEF ImportInv
<1>4. ASSUME NEW f \in Import!OnDisk(name[j]), dir' = [dir EXCEPT ![j] = f]
      PROVE  ImportInv'
  <2>1. f \in shelves /\ f \in Names
    BY DEF Import!OnDisk, ImportInv, ImportTyped
  <2>2. ImportTyped' /\ NamesHold'
    BY <1>1, <1>2, <1>4, <2>1 DEF ImportInv, ImportTyped, NamesHold
  <2>3. dir'[j] # Import!NoName /\ at'[j] # "move"
    BY <1>2, <1>4, <2>1, AcquireWorlds DEF Import!AcquireImportAssumption, ImportInv, ImportTyped
  <2>4. LookHolds(j)'
    BY <2>3 DEF LookHolds
  <2>5. StageHolds'
    BY <1>1, <1>2 DEF ImportInv, ImportTyped, StageHolds
  <2>6. \A k \in Imports \ {j} : name'[k] = name[k] /\ dir'[k] = dir[k]
    BY <1>1, <1>4 DEF ImportInv, ImportTyped
  <2>7. MeetingsHold' /\ (\A k \in Imports : LookHolds(k)') /\ lost' \subseteq met' /\ Import!OneFolderPerShow'
    BY <1>1, <1>2, <2>4, <2>6, Alone DEF Import!Settled
  <2> QED  BY <2>2, <2>5, <2>7 DEF ImportInv
<1> QED  BY <1>3, <1>4 DEF Import!Look

LEMMA StartStep ==
  ASSUME ImportInv, NEW j \in Imports, Import!Start(j)
  PROVE  ImportInv'
<1>1. /\ at[j] = "wait" /\ at' = [at EXCEPT ![j] = "match"]
      /\ name' = [name EXCEPT ![j] = Import!NoName] /\ dir' = [dir EXCEPT ![j] = Import!NoName]
      /\ hit' = [hit EXCEPT ![j] = Import!NoRow] /\ met' = met \cup {{j, k} : k \in Import!Running}
      /\ UNCHANGED <<ask, stage, series, shelves, maker, lib, restarts, lost>>
  BY DEF Import!Start
<1>2. Import!NoRow \in Hits
  BY DEF Hits
<1>3. ImportTyped' /\ NamesHold'
  BY <1>1, <1>2 DEF ImportInv, ImportTyped, NamesHold
<1>4. \A k \in Imports \ {j} : at'[k] = at[k] /\ name'[k] = name[k] /\ dir'[k] = dir[k]
  BY <1>1 DEF ImportInv, ImportTyped
<1>5. at'[j] = "match"
  BY <1>1 DEF ImportInv, ImportTyped
<1>6. MeetingsHold'
  <2>1. ASSUME NEW k \in Import!Running', NEW l \in Import!Running', k # l
        PROVE  {k, l} \in met'
    <3>1. k # j => k \in Import!Running
      BY <1>4 DEF Import!Running
    <3>2. l # j => l \in Import!Running
      BY <1>4 DEF Import!Running
    <3>3. {k, l} = {l, k}
      OBVIOUS
    <3>4. k # j /\ l # j => {k, l} \in met
      BY <2>1, <3>1, <3>2 DEF ImportInv, MeetingsHold
    <3> QED  BY <1>1, <2>1, <3>1, <3>2, <3>3, <3>4
  <2> QED  BY <2>1 DEF MeetingsHold
<1>7. ASSUME NEW k \in Imports PROVE LookHolds(k)'
  <2>1. CASE k = j
    BY <1>5, <2>1 DEF LookHolds
  <2>2. CASE k # j
    <3>1. at'[k] = at[k] /\ name'[k] = name[k] /\ dir'[k] = dir[k] /\ LookHolds(k) /\ met \subseteq met'
      BY <1>1, <1>4, <2>2 DEF ImportInv
    <3> QED  BY <1>1, <3>1 DEF LookHolds, Import!Like, Import!Dest, Import!Sub, Import!Item, Import!Target
  <2> QED  BY <2>1, <2>2
<1>8. StageHolds'
  BY <1>1 DEF ImportInv, ImportTyped, StageHolds
<1>9. lost' \subseteq met' /\ Import!OneFolderPerShow'
  BY <1>1 DEF ImportInv, Import!OneFolderPerShow, Import!Like
<1> QED  BY <1>3, <1>6, <1>7, <1>8, <1>9 DEF ImportInv

LEMMA AdoptStep ==
  ASSUME ImportInv, NEW j \in Imports, Import!Adopt(j)
  PROVE  ImportInv'
<1>1. /\ at[j] = "canon" /\ at' = [at EXCEPT ![j] = "fetch"]
      /\ UNCHANGED <<ask, hit, stage, series, shelves, maker, lib, restarts, met, lost>>
  BY DEF Import!Adopt
<1>2. at'[j] = "fetch"
  BY <1>1 DEF ImportInv, ImportTyped
<1>3. StageHolds'
  BY <1>1 DEF ImportInv, ImportTyped, StageHolds
<1>4. CASE UNCHANGED <<name, dir>>
  <2>1. ImportTyped' /\ NamesHold'
    BY <1>1, <1>4 DEF ImportInv, ImportTyped, NamesHold
  <2>2. LookHolds(j)'
    BY <1>1, <1>2, <1>4 DEF ImportInv, LookHolds, Import!Like
  <2>3. MeetingsHold' /\ (\A k \in Imports : LookHolds(k)') /\ lost' \subseteq met' /\ Import!OneFolderPerShow'
    BY <1>1, <1>4, <2>2, Alone DEF Import!Settled
  <2> QED  BY <1>3, <2>1, <2>3 DEF ImportInv
<1>5. ASSUME NEW t \in Names, name' = [name EXCEPT ![j] = t],
             Import!OnDisk(t) = {}, UNCHANGED dir
      PROVE  ImportInv'
  <2>1. ImportTyped' /\ NamesHold'
    BY <1>1, <1>5 DEF ImportInv, ImportTyped, NamesHold
  <2>2. \A k \in Imports \ {j} : name'[k] = name[k] /\ dir'[k] = dir[k]
    BY <1>5 DEF ImportInv, ImportTyped
  <2>3. \A f \in shelves : ~Import!Like(t, f)
    BY <1>5 DEF Import!OnDisk, Import!Alike, Import!Like
  <2>4. name'[j] = t
    BY <1>5 DEF ImportInv, ImportTyped
  <2>5. \A f \in shelves' : ~Import!Like(name'[j], f)
    BY <1>1, <2>3, <2>4
  <2>6. LookHolds(j)'
    BY <1>2, <2>5 DEF LookHolds, Import!Like
  <2>7. MeetingsHold' /\ (\A k \in Imports : LookHolds(k)') /\ lost' \subseteq met' /\ Import!OneFolderPerShow'
    BY <1>1, <2>2, <2>6, Alone DEF Import!Settled
  <2> QED  BY <1>3, <2>1, <2>7 DEF ImportInv
<1>6. ASSUME NEW t \in Names, name' = [name EXCEPT ![j] = t],
             NEW f \in Import!OnDisk(t), dir' = [dir EXCEPT ![j] = f]
      PROVE  ImportInv'
  <2>1. f \in shelves /\ f \in Names
    BY DEF Import!OnDisk, ImportInv, ImportTyped
  <2>2. ImportTyped' /\ NamesHold'
    BY <1>1, <1>6, <2>1 DEF ImportInv, ImportTyped, NamesHold
  <2>3. dir'[j] # Import!NoName
    BY <1>6, <2>1, AcquireWorlds DEF Import!AcquireImportAssumption, ImportInv, ImportTyped
  <2>4. LookHolds(j)'
    BY <1>2, <2>3 DEF LookHolds
  <2>5. \A k \in Imports \ {j} : name'[k] = name[k] /\ dir'[k] = dir[k]
    BY <1>6 DEF ImportInv, ImportTyped
  <2>6. MeetingsHold' /\ (\A k \in Imports : LookHolds(k)') /\ lost' \subseteq met' /\ Import!OneFolderPerShow'
    BY <1>1, <2>4, <2>5, Alone DEF Import!Settled
  <2> QED  BY <1>3, <2>2, <2>6 DEF ImportInv
<1>7. (IF Import!Existing(Canon) = {} THEN {Canon} ELSE {r.title : r \in Import!Existing(Canon)}) \subseteq Names
  BY AcquireWorlds DEF Import!AcquireImportAssumption, Import!Existing, ImportInv, ImportTyped
<1> QED  BY <1>4, <1>5, <1>6, <1>7 DEF Import!Adopt

LEMMA StageStep ==
  ASSUME ImportInv, NEW j \in Imports, Import!Stage(j) \/ Import!Fetch(j) \/ Import!Settle(j)
  PROVE  ImportInv'
<1>1. /\ at[j] \in {"fetch", "settle"}
      /\ UNCHANGED <<ask, name, dir, hit, series, shelves, maker, lib, restarts, met, lost>>
  BY DEF Import!Stage, Import!Fetch, Import!Settle
<1>2. PICK to \in {"fetch", "mkdir", "failed", "done"}, st \in {"none", "empty", "whole"} :
        /\ at' = [at EXCEPT ![j] = to] /\ stage' = [stage EXCEPT ![j] = st]
        /\ to \in {"failed", "done"} => st = "none"
        /\ to = "done" <=> at[j] = "settle"
  <2>1. Import!Stage(j) => at' = [at EXCEPT ![j] = "fetch"]
    BY DEF Import!Stage, ImportInv, ImportTyped
  <2> QED
    BY <2>1, <1>1 DEF Import!Stage, Import!Fetch, Import!Settle
<1>3. ImportTyped' /\ NamesHold'
  BY <1>1, <1>2 DEF ImportInv, ImportTyped, NamesHold
<1>4. LookHolds(j)'
  BY <1>1, <1>2 DEF ImportInv, ImportTyped, LookHolds, Import!Like
<1>5. StageHolds'
  BY <1>1, <1>2 DEF ImportInv, ImportTyped, StageHolds
<1>6. MeetingsHold' /\ (\A k \in Imports : LookHolds(k)') /\ lost' \subseteq met' /\ Import!OneFolderPerShow'
  BY <1>1, <1>2, <1>4, Alone DEF Import!Settled
<1> QED  BY <1>3, <1>5, <1>6 DEF ImportInv

LEMMA CheckStep ==
  ASSUME ImportInv, NEW j \in Imports, Import!Check(j)
  PROVE  ImportInv'
<1>1. /\ at[j] = "check"
      /\ UNCHANGED <<ask, name, dir, hit, series, shelves, maker, lib, restarts, met, lost>>
  BY DEF Import!Check
<1>2. PICK to \in {"done", "move"} :
        /\ at' = [at EXCEPT ![j] = to]
        /\ stage' = IF to = "done" THEN [stage EXCEPT ![j] = "none"] ELSE stage
        /\ to = "move" => lib[Import!Dest(j)] = Import!NoName
  BY DEF Import!Check
<1>3. ImportTyped' /\ NamesHold'
  BY <1>1, <1>2 DEF ImportInv, ImportTyped, NamesHold
<1>4. LookHolds(j)'
  BY <1>1, <1>2 DEF ImportInv, ImportTyped, LookHolds, Import!Like, Import!Dest, Import!Sub, Import!Item, Import!Target
<1>5. StageHolds'
  BY <1>1, <1>2 DEF ImportInv, ImportTyped, StageHolds
<1>6. MeetingsHold' /\ (\A k \in Imports : LookHolds(k)') /\ lost' \subseteq met' /\ Import!OneFolderPerShow'
  BY <1>1, <1>2, <1>4, Alone DEF Import!Settled
<1> QED  BY <1>3, <1>5, <1>6 DEF ImportInv

(* The folder a job makes is new only under the name it looked for. *)
LEMMA MakeDirStep ==
  ASSUME ImportInv, NEW j \in Imports, Import!MakeDir(j)
  PROVE  ImportInv'
<1> DEFINE t == Import!Target(j)
<1>1. /\ at[j] = "mkdir" /\ at' = [at EXCEPT ![j] = "check"]
      /\ shelves' = shelves \cup {t}
      /\ maker' = IF t \in shelves THEN maker ELSE [maker EXCEPT ![t] = j]
      /\ UNCHANGED <<ask, name, dir, hit, stage, series, lib, restarts, met, lost>>
  BY DEF Import!MakeDir
<1>2. t \in Names
  BY <1>1, TargetFits DEF ImportInv
<1>3. ImportTyped' /\ NamesHold'
  BY <1>1, <1>2 DEF ImportInv, ImportTyped, NamesHold
<1>4. \A k \in Imports \ {j} : at'[k] = at[k]
  BY <1>1 DEF ImportInv, ImportTyped
<1>5. at'[j] = "check"
  BY <1>1 DEF ImportInv, ImportTyped
<1>6. MeetingsHold'
  <2>1. \A k \in Import!Running' : k \in Import!Running
    BY <1>1, <1>4 DEF Import!Running, Import!Settled
  <2> QED  BY <1>1, <2>1 DEF ImportInv, MeetingsHold
<1>7. \A f \in shelves : maker'[f] = maker[f]
  BY <1>1, <1>2 DEF ImportInv, ImportTyped
<1>8. t \notin shelves => maker'[t] = j /\ t = name[j] /\ dir[j] = Import!NoName
  BY <1>1, <1>2 DEF ImportInv, ImportTyped, NamesHold, Import!Target
<1>9. ASSUME NEW k \in Imports PROVE LookHolds(k)'
  <2>1. CASE k = j
    BY <1>5, <2>1 DEF LookHolds
  <2>2. CASE k # j
    <3>1. at'[k] = at[k] /\ LookHolds(k) /\ Import!Dest(k)' = Import!Dest(k)
      BY <1>1, <1>4, <2>2 DEF ImportInv, Import!Dest, Import!Sub, Import!Item, Import!Target
    <3>2. at[k] = "canon" \/ at[k] = "fetch" \/ at[k] = "mkdir" => {k, j} \in met
      BY <1>1, <2>2 DEF ImportInv, MeetingsHold, Import!Running, Import!Settled
    <3>3. ASSUME at[k] \in {"canon", "fetch", "mkdir"}, dir[k] = Import!NoName,
                 NEW f \in shelves', Import!Like(name[k], f)
          PROVE  {k, maker'[f]} \in met
      <4>1. CASE f \in shelves
        BY <1>7, <3>1, <3>3, <4>1 DEF LookHolds
      <4>2. CASE f \notin shelves
        <5>1. maker'[f] = j
          BY <1>1, <1>8, <3>3, <4>2
        <5> QED  BY <3>2, <3>3, <5>1
      <4> QED  BY <4>1, <4>2
    <3>4. \A f : Import!Like(name[k], f)' <=> Import!Like(name[k], f)
      BY <1>1 DEF Import!Like
    <3> QED  BY <1>1, <3>1, <3>3, <3>4 DEF LookHolds
  <2> QED  BY <2>1, <2>2
<1>10. StageHolds'
  BY <1>1 DEF ImportInv, ImportTyped, StageHolds
<1>11. Import!OneFolderPerShow'
  <2>1. ASSUME t \notin shelves, NEW f \in shelves, Import!Like(t, f)
        PROVE  {j, maker[f]} \in met
    BY <1>1, <1>8, <2>1 DEF ImportInv, LookHolds
  <2>2. ASSUME NEW a \in shelves', NEW b \in shelves', a # b, Import!Like(a, b)
        PROVE  {maker'[a], maker'[b]} \in met
    <3>1. CASE a \in shelves /\ b \in shelves
      BY <1>7, <2>2, <3>1 DEF ImportInv, Import!OneFolderPerShow
    <3>2. CASE a \notin shelves
      <4>1. a = t /\ b \in shelves
        BY <1>1, <2>2, <3>2
      <4> QED  BY <1>7, <1>8, <2>1, <2>2, <3>2, <4>1
    <3>3. CASE b \notin shelves
      <4>1. b = t /\ a \in shelves
        BY <1>1, <2>2, <3>3
      <4>2. Import!Like(t, a)
        BY <2>2, <4>1 DEF Import!Like
      <4>3. {maker'[a], maker'[b]} = {j, maker[a]}
        BY <1>7, <1>8, <3>3, <4>1
      <4> QED  BY <2>1, <3>3, <4>1, <4>2, <4>3
    <3> QED  BY <3>1, <3>2, <3>3
  <2>3. \A a, b : Import!Like(a, b)' <=> Import!Like(a, b)
    BY DEF Import!Like
  <2> QED  BY <1>1, <2>2, <2>3 DEF Import!OneFolderPerShow
<1> QED  BY <1>1, <1>3, <1>6, <1>9, <1>10, <1>11 DEF ImportInv

(* Whoever else is about to move bytes to the same place runs beside. *)
LEMMA MoveStep ==
  ASSUME ImportInv, NEW j \in Imports, Import!Move(j)
  PROVE  ImportInv'
<1>1. /\ at[j] = "move" /\ at' = [at EXCEPT ![j] = "settle"]
      /\ lost' = IF lib[Import!Dest(j)] = Import!NoName THEN lost ELSE lost \cup {{j, lib[Import!Dest(j)]}}
      /\ lib' = [lib EXCEPT ![Import!Dest(j)] = j]
      /\ stage' = [stage EXCEPT ![j] = "empty"]
      /\ UNCHANGED <<ask, name, dir, hit, series, shelves, maker, restarts, met>>
  BY DEF Import!Move
<1>2. Import!Dest(j) \in Names \X Import!Subs \X Files
  BY <1>1, TargetFits DEF ImportInv
<1>3. ImportTyped' /\ NamesHold'
  BY <1>1, <1>2 DEF ImportInv, ImportTyped, NamesHold
<1>4. \A k \in Imports \ {j} : at'[k] = at[k]
  BY <1>1 DEF ImportInv, ImportTyped
<1>5. at'[j] = "settle"
  BY <1>1 DEF ImportInv, ImportTyped
<1>6. MeetingsHold'
  <2>1. \A k \in Import!Running' : k \in Import!Running
    BY <1>1, <1>4 DEF Import!Running, Import!Settled
  <2> QED  BY <1>1, <2>1 DEF ImportInv, MeetingsHold
<1>7. ASSUME NEW k \in Imports PROVE LookHolds(k)'
  <2>1. CASE k = j
    BY <1>5, <2>1 DEF LookHolds
  <2>2. CASE k # j
    <3>1. at'[k] = at[k] /\ LookHolds(k) /\ Import!Dest(k)' = Import!Dest(k)
      BY <1>1, <1>4, <2>2 DEF ImportInv, Import!Dest, Import!Sub, Import!Item, Import!Target
    <3>2. at[k] = "move" => {k, j} \in met
      BY <1>1, <2>2 DEF ImportInv, MeetingsHold, Import!Running, Import!Settled
    <3>3. at[k] = "move" => Import!Dest(k) \in Names \X Import!Subs \X Files
      BY TargetFits DEF ImportInv
    <3>4. ASSUME at[k] = "move", lib'[Import!Dest(k)] # Import!NoName
          PROVE  {k, lib'[Import!Dest(k)]} \in met
      <4>1. CASE Import!Dest(k) = Import!Dest(j)
        BY <1>1, <1>2, <3>2, <3>4, <4>1 DEF ImportInv, ImportTyped
      <4>2. CASE Import!Dest(k) # Import!Dest(j)
        BY <1>1, <1>2, <3>1, <3>3, <3>4, <4>2 DEF ImportInv, ImportTyped, LookHolds
      <4> QED  BY <4>1, <4>2
    <3> QED  BY <1>1, <3>1, <3>4 DEF LookHolds, Import!Like
  <2> QED  BY <2>1, <2>2
<1>8. StageHolds'
  BY <1>1 DEF ImportInv, ImportTyped, StageHolds
<1>9. lost' \subseteq met'
  BY <1>1 DEF ImportInv, LookHolds
<1>10. Import!OneFolderPerShow'
  BY <1>1 DEF ImportInv, Import!OneFolderPerShow, Import!Like
<1> QED  BY <1>3, <1>6, <1>7, <1>8, <1>9, <1>10 DEF ImportInv

LEMMA CrashStep ==
  ASSUME ImportInv, Import!Crash
  PROVE  ImportInv'
<1>1. /\ restarts' = restarts + 1
      /\ at' = [j \in Imports |-> IF j \in Import!Running THEN "wait" ELSE at[j]]
      /\ stage' = [j \in Imports |-> IF at[j] = "fetch" /\ stage[j] = "empty" THEN "part" ELSE stage[j]]
      /\ UNCHANGED <<ask, name, dir, hit, series, shelves, maker, lib, met, lost>>
  BY DEF Import!Crash
<1>2. ImportTyped'
  BY <1>1 DEF ImportInv, ImportTyped
<1>3. \A j \in Imports : at'[j] \in {"wait", "asked", "done", "failed", "refused"} /\ (at'[j] # "wait" => at'[j] = at[j])
  BY <1>1 DEF ImportInv, ImportTyped, Import!Running, Import!Settled
<1>4. NamesHold' /\ MeetingsHold' /\ \A j \in Imports : LookHolds(j)'
  BY <1>1, <1>3 DEF ImportInv, NamesHold, MeetingsHold, LookHolds, Import!Running, Import!Settled
<1>5. StageHolds'
  <2>1. restarts \in Nat /\ restarts' # 0
    BY <1>1 DEF ImportInv, ImportTyped
  <2>2. ASSUME NEW j \in Imports, at'[j] = "done" PROVE stage'[j] = "none"
    BY <1>1, <1>3, <2>2 DEF ImportInv, ImportTyped, StageHolds
  <2> QED  BY <2>1, <2>2 DEF StageHolds
<1>6. Import!OneFolderPerShow'
  BY <1>1 DEF ImportInv, Import!OneFolderPerShow, Import!Like
<1> QED  BY <1>1, <1>2, <1>4, <1>5, <1>6 DEF ImportInv

(* The scanner and the matcher write rows only. *)
LEMMA RowsStep ==
  ASSUME ImportInv, Import!Scan \/ \E r \in series : Import!Enrich(r)
  PROVE  ImportInv'
<1>1. UNCHANGED <<ask, at, name, dir, hit, stage, shelves, maker, lib, restarts, met, lost>>
  BY DEF Import!Scan, Import!Enrich
<1>2. series' \subseteq [title : Names, alias : Names \cup {Import!NoName}]
  <2>1. CASE Import!Scan
    <3>1. \A d \in DOMAIN lib : d[1] \in Names
      BY DEF ImportInv, ImportTyped
    <3> QED  BY <2>1, <3>1 DEF Import!Scan, ImportInv, ImportTyped
  <2>2. ASSUME NEW r \in series, Import!Enrich(r)
        PROVE  series' \subseteq [title : Names, alias : Names \cup {Import!NoName}]
    <3>1. Alias \in Names
      BY AcquireWorlds DEF Import!AcquireImportAssumption
    <3>2. r \in [title : Names, alias : Names \cup {Import!NoName}]
      BY DEF ImportInv, ImportTyped
    <3>3. [r EXCEPT !.alias = Alias] \in [title : Names, alias : Names \cup {Import!NoName}]
      BY <3>1, <3>2
    <3> QED  BY <2>2, <3>3 DEF Import!Enrich, ImportInv, ImportTyped
  <2> QED  BY <2>1, <2>2
<1>3. ImportTyped' /\ NamesHold' /\ MeetingsHold' /\ StageHolds'
  BY <1>1, <1>2 DEF ImportInv, ImportTyped, NamesHold, MeetingsHold, StageHolds, Import!Running
<1>4. (\A j \in Imports : LookHolds(j)') /\ lost' \subseteq met' /\ Import!OneFolderPerShow'
  BY <1>1 DEF ImportInv, LookHolds, Import!OneFolderPerShow, Import!Like, Import!Dest, Import!Sub, Import!Item, Import!Target
<1> QED  BY <1>3, <1>4 DEF ImportInv

LEMMA ImportStep == ImportInv /\ [Import!Next]_importVars => ImportInv'
<1> SUFFICES ASSUME ImportInv, [Import!Next]_importVars PROVE ImportInv'
  OBVIOUS
<1>1. CASE UNCHANGED importVars
  <2>1. UNCHANGED <<ask, at, name, dir, hit, stage, series, shelves, maker, lib, restarts, met, lost>>
    BY <1>1 DEF importVars
  <2> QED
    BY <2>1 DEF ImportInv, ImportTyped, NamesHold, MeetingsHold, StageHolds, LookHolds, Import!Running,
      Import!OneFolderPerShow, Import!Like, Import!Dest, Import!Sub, Import!Item, Import!Target
<1>2. ASSUME NEW j \in Imports, Import!Step(j) PROVE ImportInv'
  BY <1>2, AskStep, StartStep, MatchStep, IdentifyStep, LookStep, AdoptStep, StageStep, MakeDirStep, CheckStep,
    MoveStep DEF Import!Step
<1> QED  BY <1>1, <1>2, CrashStep, RowsStep DEF Import!Next

(* The import world is moved by the actions of its module and no others. *)
LEMMA ImportMoves == [SuiteNext]_allVars => [Import!Next]_importVars
<1> SUFFICES ASSUME [SuiteNext]_allVars PROVE Import!Next \/ UNCHANGED importVars
  OBVIOUS
<1>1. CASE UNCHANGED allVars
  BY <1>1 DEF allVars
<1>2. CASE \E j \in Imports : Import!Step(j)
  BY <1>2 DEF Import!Next
<1>3. CASE Import!Crash \/ Import!Scan \/ \E r \in series : Import!Enrich(r)
  BY <1>3 DEF Import!Next
<1>4. CASE AnicliOnly \/ ProviderOnly
  BY <1>4 DEF AnicliOnly, ProviderOnly
<1> QED  BY <1>1, <1>2, <1>3, <1>4 DEF SuiteNext, Import!Step

(* An import never writes over what stands in the library unless the other *)
(* import ran beside it, and one show has one folder unless the two that   *)
(* made its folders really met: the look at the disk is before the         *)
(* transfer, the folder and the file come after it.                        *)
THEOREM ImportsStaySafe == SuiteSpec => []ImportsAreSafe
<1>1. SuiteInit => ImportInv
  BY InitImport DEF SuiteInit
<1>2. ImportInv /\ [SuiteNext]_allVars => ImportInv'
  BY ImportMoves, ImportStep
<1>3. ImportInv => ImportsAreSafe
  <2> SUFFICES ASSUME ImportInv PROVE ImportsAreSafe
    OBVIOUS
  <2>1. Import!TypeOK
    BY DEF ImportInv, ImportTyped, Import!TypeOK, Import!Settled
  <2>2. Import!NothingClobbered
    BY DEF ImportInv, StageHolds, Import!NothingClobbered
  <2> QED  BY <2>1, <2>2 DEF ImportInv, ImportsAreSafe
<1> QED  BY <1>1, <1>2, <1>3, PTL DEF SuiteSpec

-----------------------------------------------------------------------------
(***************************************************************************)
(* AcquireProviders: registrations, and the objects that calls hold.       *)
(***************************************************************************)
Regs == [n : 0..MaxRegs, tok : Tokens \cup {Provider!NoTok}]

(* The type invariant, with the counter and the calls it needs. *)
ProviderInv ==
  /\ reg \in [Ids -> Regs] /\ regs \in 0..MaxRegs
  /\ calls \subseteq [id : Ids, reg : Regs]
  /\ tabs \subseteq Provider!Tabs /\ active \in Provider!Tabs /\ listed \in Provider!Tabs \cup {""}
  /\ lists \cup finds \subseteq Provider!Tabs

LEMMA InitProvider == Provider!Init => ProviderInv
<1> SUFFICES ASSUME Provider!Init PROVE ProviderInv
  OBVIOUS
<1>1. Provider!NoReg \in Regs /\ 0 \in 0..MaxRegs
  BY AcquireWorlds DEF Provider!AcquireProvidersAssumption, Provider!NoReg, Regs
<1>2. Provider!Builtin \in Provider!Tabs
  BY DEF Provider!Tabs
<1> QED  BY <1>1, <1>2 DEF Provider!Init, ProviderInv

(* Entries are dropped, or left as they are. *)
LEMMA DropFits ==
  ASSUME ProviderInv, NEW entries, Provider!Drop(entries)
  PROVE  reg' \in [Ids -> Regs]
<1>1. Provider!NoReg \in Regs
  BY AcquireWorlds DEF Provider!AcquireProvidersAssumption, Provider!NoReg, Regs
<1> QED  BY <1>1 DEF Provider!Drop, ProviderInv

(* The registry's own steps and the relay's. *)
LEMMA RegistryStep ==
  ASSUME ProviderInv,
         \/ \E i \in Ids : \/ Provider!Dies(i)
                         \/ \E t \in Tokens \cup {Provider!NoTok} :
                              Provider!Register(i, t) \/ Provider!Deregister(i, t)
         \/ Provider!SweepStarts \/ Provider!SweepEnds \/ Provider!Submit
         \/ \E c \in calls : Provider!Accepted(c) \/ Provider!CallFails(c)
  PROVE  ProviderInv'
<1>1. ASSUME NEW i \in Ids, NEW t \in Tokens \cup {Provider!NoTok}, Provider!Register(i, t)
      PROVE  ProviderInv'
  <2>0. MaxRegs \in Nat
    BY AcquireWorlds DEF Provider!AcquireProvidersAssumption
  <2>1. regs' \in 0..MaxRegs
    <3>1. regs < MaxRegs /\ regs' = regs + 1
      BY <1>1 DEF Provider!Register
    <3>2. regs \in 0..MaxRegs
      BY DEF ProviderInv
    <3> QED  BY <2>0, <3>1, <3>2
  <2>2. [n |-> regs', tok |-> t] \in Regs
    BY <2>1 DEF Regs
  <2>3. /\ UNCHANGED <<calls, tabs, active, listed, lists, finds>>
        /\ reg' = [reg EXCEPT ![i] = [n |-> regs', tok |-> t]]
    BY <1>1 DEF Provider!Register, Provider!page
  <2> QED  BY <2>1, <2>2, <2>3 DEF ProviderInv
<1>2. ASSUME NEW i \in Ids, NEW t \in Tokens \cup {Provider!NoTok}, Provider!Deregister(i, t)
      PROVE  ProviderInv'
  <2>1. Provider!NoReg \in Regs
    BY AcquireWorlds DEF Provider!AcquireProvidersAssumption, Provider!NoReg, Regs
  <2> QED  BY <1>2, <2>1 DEF Provider!Deregister, Provider!page, ProviderInv
<1>3. CASE (\E i \in Ids : Provider!Dies(i)) \/ Provider!SweepStarts
  BY <1>3 DEF Provider!Dies, Provider!SweepStarts, Provider!page, ProviderInv
<1>4. CASE Provider!SweepEnds
  <2>1. reg' \in [Ids -> Regs]
    BY <1>4, DropFits DEF Provider!SweepEnds
  <2> QED  BY <1>4, <2>1 DEF Provider!SweepEnds, Provider!page, ProviderInv
<1>5. CASE Provider!Submit
  <2>1. active \in Ids
    BY <1>5 DEF Provider!Submit, Provider!Tabs, ProviderInv
  <2>2. [id |-> active, reg |-> reg[active]] \in [id : Ids, reg : Regs]
    BY <2>1 DEF ProviderInv
  <2>3. calls' \subseteq [id : Ids, reg : Regs]
    BY <1>5, <2>2 DEF Provider!Submit, ProviderInv
  <2> QED  BY <1>5, <2>3 DEF Provider!Submit, ProviderInv
<1>6. ASSUME NEW c \in calls, Provider!Accepted(c)
      PROVE  ProviderInv'
  <2>1. c.id \in Provider!Tabs
    BY DEF ProviderInv, Provider!Tabs
  <2> QED  BY <1>6, <2>1 DEF Provider!Accepted, ProviderInv
<1>7. ASSUME NEW c \in calls, Provider!CallFails(c)
      PROVE  ProviderInv'
  <2>1. reg' \in [Ids -> Regs]
    BY <1>7, DropFits DEF Provider!CallFails
  <2> QED  BY <1>7, <2>1 DEF Provider!CallFails, Provider!page, ProviderInv
<1> QED  BY <1>1, <1>2, <1>3, <1>4, <1>5, <1>6, <1>7

LEMMA ProviderStep == ProviderInv /\ [Provider!Next]_providerVars => ProviderInv'
<1> SUFFICES ASSUME ProviderInv, [Provider!Next]_providerVars PROVE ProviderInv'
  OBVIOUS
<1>1. CASE UNCHANGED providerVars
  BY <1>1 DEF providerVars, ProviderInv
<1>2. CASE Provider!PollTabs \/ Provider!FallBack \/ Provider!Reload \/ Provider!Cancel \/ Provider!Search
  BY <1>2 DEF Provider!PollTabs, Provider!FallBack, Provider!SwitchTo, Provider!Reload, Provider!Cancel,
    Provider!Search, Provider!Tabs, ProviderInv
<1>3. CASE \E t \in Provider!Tabs : Provider!Switch(t) \/ Provider!Listed(t) \/ Provider!Found(t)
  BY <1>3 DEF Provider!Switch, Provider!SwitchTo, Provider!Listed, Provider!Found, ProviderInv
<1> QED  BY <1>1, <1>2, <1>3, RegistryStep DEF Provider!Next

LEMMA ProviderMoves == [SuiteNext]_allVars => [Provider!Next]_providerVars
<1> SUFFICES ASSUME [SuiteNext]_allVars PROVE Provider!Next \/ UNCHANGED providerVars
  OBVIOUS
<1>1. CASE UNCHANGED allVars
  BY <1>1 DEF allVars
<1>2. CASE \E i \in Ids : \/ Provider!Dies(i)
                         \/ \E t \in Tokens \cup {Provider!NoTok} :
                              Provider!Register(i, t) \/ Provider!Deregister(i, t)
  BY <1>2 DEF Provider!Next
<1>3. CASE \/ Provider!SweepStarts \/ Provider!SweepEnds \/ Provider!Submit
           \/ Provider!PollTabs \/ Provider!FallBack \/ Provider!Reload \/ Provider!Cancel \/ Provider!Search
           \/ \E c \in calls : Provider!Accepted(c) \/ Provider!CallFails(c)
           \/ \E t \in Provider!Tabs : Provider!Switch(t) \/ Provider!Listed(t) \/ Provider!Found(t)
  BY <1>3 DEF Provider!Next
<1>4. CASE AnicliOnly \/ ImportOnly
  BY <1>4 DEF AnicliOnly, ImportOnly
<1> QED  BY <1>1, <1>2, <1>3, <1>4 DEF SuiteNext

(* Who may end a registration, step by step. *)
Ended(i) ==
  \/ <<i, reg[i]>> \in sweep \/ [id |-> i, reg |-> reg[i]] \in calls
  \/ \E t \in Tokens \cup {Provider!NoTok} :
       reg[i].tok \in {Provider!NoTok, t} /\ (Provider!Register(i, t) \/ Provider!Deregister(i, t))

LEMMA EndsStep ==
  ASSUME ProviderInv, [Provider!Next]_providerVars, NEW i \in Ids,
         reg[i] # Provider!NoReg, reg'[i] # reg[i]
  PROVE  Ended(i)
<1>1. ASSUME NEW k \in Ids, NEW t \in Tokens \cup {Provider!NoTok},
             Provider!Register(k, t) \/ Provider!Deregister(k, t)
      PROVE  Ended(i)
  <2>1. k = i
    BY <1>1 DEF Provider!Register, Provider!Deregister, ProviderInv
  <2>2. reg[i].tok \in {Provider!NoTok, t}
    BY <1>1, <2>1 DEF Provider!Register, Provider!Deregister, Provider!CanClaim
  <2> QED  BY <1>1, <2>1, <2>2 DEF Ended
<1>2. ASSUME NEW entries, Provider!Drop(entries)
      PROVE  <<i, reg[i]>> \in entries
  BY <1>2 DEF Provider!Drop
<1>3. CASE Provider!SweepEnds
  BY <1>2, <1>3 DEF Provider!SweepEnds, Ended
<1>4. ASSUME NEW c \in calls, Provider!CallFails(c)
      PROVE  Ended(i)
  <2>1. <<i, reg[i]>> \in {<<c.id, c.reg>>}
    BY <1>2, <1>4 DEF Provider!CallFails
  <2>2. c = [id |-> i, reg |-> reg[i]]
    BY <2>1 DEF ProviderInv
  <2> QED  BY <2>2 DEF Ended
<1>5. CASE UNCHANGED providerVars
  BY <1>5 DEF providerVars
<1>6. ~Provider!SweepStarts /\ ~Provider!Submit /\ ~Provider!PollTabs /\ ~Provider!FallBack /\ ~Provider!Reload
      /\ ~Provider!Cancel /\ ~Provider!Search
  BY DEF Provider!SweepStarts, Provider!Submit, Provider!PollTabs, Provider!FallBack, Provider!SwitchTo,
    Provider!Reload, Provider!Cancel, Provider!Search, Provider!page
<1>7. \A t : ~Provider!Switch(t) /\ ~Provider!Listed(t) /\ ~Provider!Found(t)
  BY DEF Provider!Switch, Provider!SwitchTo, Provider!Listed, Provider!Found
<1>8. \A k, c : ~Provider!Dies(k) /\ ~Provider!Accepted(c)
  BY DEF Provider!Dies, Provider!Accepted
<1> QED  BY <1>1, <1>3, <1>4, <1>5, <1>6, <1>7, <1>8 DEF Provider!Next

(* A registration ends for its own reasons: an answer about an older one   *)
(* of the same id, however late, never ends it.                            *)
THEOREM RegistrationsEndRightly == SuiteSpec => EndsForItsOwnReasons
<1>1. SuiteInit => ProviderInv
  BY InitProvider DEF SuiteInit
<1>2. ProviderInv /\ [SuiteNext]_allVars => ProviderInv'
  BY ProviderMoves, ProviderStep
<1>3. ProviderInv => Provider!TypeOK
  BY DEF ProviderInv, Regs, Provider!TypeOK
<1>4. ProviderInv /\ [SuiteNext]_allVars =>
        [\A i \in Ids : reg[i] # Provider!NoReg /\ reg'[i] # reg[i] => Ended(i)]_providerVars
  BY ProviderMoves, EndsStep
<1>5. SuiteSpec => [][\A i \in Ids : reg[i] # Provider!NoReg /\ reg'[i] # reg[i] => Ended(i)]_providerVars
  BY <1>1, <1>2, <1>4, PTL DEF SuiteSpec
<1>6. SuiteSpec => Provider!EndsForItsOwnReasons
  BY <1>5 DEF Ended, Provider!EndsForItsOwnReasons, Provider!vars, providerVars
<1> QED  BY <1>1, <1>2, <1>3, <1>6, PTL DEF SuiteSpec, EndsForItsOwnReasons
=============================================================================
