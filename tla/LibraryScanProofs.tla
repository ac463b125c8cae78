------------------------- MODULE LibraryScanProofs -------------------------
(***************************************************************************)
(* Machine-checked facts about LibraryScan, for any number of folders,     *)
(* files, row ids and troubles.                                            *)
(***************************************************************************)
EXTENDS LibraryScan, TLAPS

(* Where a scan stands: it works on a folder, and stores a file it saw.    *)
Positions ==
  /\ scan.pc \in {"walk", "probe", "store", "sync", "mark"} => scan.at \in Dirs
  /\ scan.pc \in {"store", "sync", "mark"} => scan.seen[scan.at] # Gone

TInv == TypeOK /\ Positions

ScanRecords ==
  [pc : ScanPcs, mode : Modes, at : 0..Last, resume : 0..Last,
   seen : [Dirs -> Files], stored : [Ids -> Rows],
   probes : [Dirs -> 0..MaxFiles], item : Ids \cup {0}, doomed : SUBSET Ids]

USE LibraryScanAssumption DEF LibraryScanAssumption

-----------------------------------------------------------------------------
LEMMA IdleTyped == Idle \in ScanRecords
  BY DEF Idle, ScanRecords, ScanPcs, Modes, Files, Rows, Dirs

LEMMA InitTInv == Init => TInv
<1> SUFFICES ASSUME Init PROVE TInv
  OBVIOUS
<1>1. scan \in ScanRecords /\ scan.pc = "idle"
  BY IdleTyped DEF Init, Idle
<1>2. /\ disk \in [Dirs -> Files] /\ rows \in [Ids -> Rows]
      /\ \A i \in Ids : ~Live(i)
  BY DEF Init, Files, Rows, Live
<1>3. /\ mounted \in BOOLEAN /\ slip \in BOOLEAN
      /\ queue = "none" /\ asked \in [Callers -> Modes \cup {"none"}]
  BY DEF Init
<1>4. /\ cursor \in 0..Last /\ away \subseteq Ids
      /\ admin \in [pc : {"idle", "look", "delete"}, doomed : SUBSET Ids]
      /\ spent \in [files : 0..MaxFiles, troubles : 0..MaxTroubles]
  BY DEF Init, AdminIdle
<1> QED
  BY <1>1, <1>2, <1>3, <1>4 DEF TInv, TypeOK, Positions, ScanRecords, Live

(* The rows' part of the types: a deletion keeps it, *)
UniquePaths ==
  \A i, j \in Ids : Live(i) /\ rows[i].path = rows[j].path => i = j

LEMMA LiveRow ==
  ASSUME TInv, NEW i \in Ids, Live(i)
  PROVE  rows[i] \in [path : Dirs, tag : Contents, hash : Contents,
                      probe : 0..MaxFiles, streams : 0..MaxFiles]
  BY DEF TInv, TypeOK, Live, Rows

LEMMA DeleteKeepsTypes ==
  ASSUME TInv, NEW doomed, rows' = Without(doomed)
  PROVE  rows' \in [Ids -> Rows] /\ UniquePaths'
<1>1. rows' \in [Ids -> Rows]
  BY DEF TInv, TypeOK, Without, Rows
<1>2. ASSUME NEW i \in Ids, NEW j \in Ids,
             rows'[i] # NoRow, rows'[i].path = rows'[j].path
      PROVE  i = j
  <2>1. rows'[i] = rows[i]
    BY <1>2 DEF Without
  <2>2. rows[i].path \in Dirs
    BY <1>2, <2>1, LiveRow DEF Live
  <2>3. rows'[j] = rows[j]
    BY <1>2, <2>1, <2>2 DEF Without, NoRow, Dirs
  <2> QED
    BY <1>2, <2>1, <2>3 DEF TInv, TypeOK, Live
<1> QED
  BY <1>1, <1>2 DEF UniquePaths, Live

(* types survive what people do to the disk, *)
LEMMA DiskKeepsTypes ==
  ASSUME TInv, \/ \E d \in Dirs : Write(d) \/ Remove(d) \/ ShowDelete(d)
               \/ \E d, e \in Dirs : d # e /\ (Copy(d, e) \/ Rename(d, e))
               \/ ComeLoose \/ ComeBack
  PROVE  TInv'
<1>1. ASSUME NEW d \in Dirs, Write(d) PROVE TInv'
  <2>1. spent.files + 1 \in Contents
    BY <1>1 DEF TInv, TypeOK, Positions, Write, NewFile, Contents
  <2> QED
    BY <1>1, <2>1
      DEF TInv, TypeOK, Positions, Write, NewFile, Files, Spend, DiskStep, jobs, hist, Live
<1>2. ASSUME NEW d \in Dirs, Remove(d) \/ ShowDelete(d) PROVE TInv'
  BY <1>2
    DEF TInv, TypeOK, Positions, Remove, ShowDelete, AdminStep, AdminIdle, Files, Spend, DiskStep, jobs, hist, Live
<1>3. ASSUME NEW d \in Dirs, NEW e \in Dirs, Copy(d, e) PROVE TInv'
  <2>1. spent.files + 1 \in Contents /\ disk[d].content \in Contents
    BY <1>3 DEF TInv, TypeOK, Positions, Copy, NewFile, Contents, Files, Gone
  <2> QED
    BY <1>3, <2>1
      DEF TInv, TypeOK, Positions, Copy, NewFile, Files, Spend, DiskStep, jobs, hist, Live
<1>4. ASSUME NEW d \in Dirs, NEW e \in Dirs, Rename(d, e) PROVE TInv'
  BY <1>4
    DEF TInv, TypeOK, Positions, Rename, Files, Spend, DiskStep, jobs, hist, Live
<1>5. CASE ComeLoose
  <2>1. slip' \in BOOLEAN
    BY <1>5 DEF ComeLoose
  <2>2. spent' \in [files : 0..MaxFiles, troubles : 0..MaxTroubles]
    BY <1>5 DEF TInv, TypeOK, ComeLoose, Spend
  <2> QED
    BY <1>5, <2>1, <2>2 DEF TInv, TypeOK, Positions, ComeLoose, jobs, Live
<1>6. CASE ComeBack
  BY <1>6 DEF TInv, TypeOK, Positions, ComeBack, jobs, hist, Live
<1> QED
  BY <1>1, <1>2, <1>3, <1>4, <1>5, <1>6

(* what is asked of the queue, what the admin's prune does, *)
LEMMA RequestsKeepTypes ==
  ASSUME TInv, \/ Sweep
               \/ \E mode \in Modes : AdminAsks(mode)
               \/ \E c \in Callers : AddJob(c)
               \/ AdminGoes
  PROVE  TInv'
<1>1. CASE Sweep
  BY <1>1
    DEF TInv, TypeOK, Positions, Sweep, RemoveJob, AskStep, world, hist, Callers, Modes, Live
<1>2. ASSUME NEW mode \in Modes, AdminAsks(mode) PROVE TInv'
  BY <1>2
    DEF TInv, TypeOK, Positions, AdminAsks, RemoveJob, AskStep, world, hist, Callers, Spend, Live
<1>3. ASSUME NEW c \in Callers, AddJob(c) PROVE TInv'
  BY <1>3
    DEF TInv, TypeOK, Positions, AddJob, JobActive, AskStep, world, hist, Live
<1>4. CASE AdminLook
  BY <1>4
    DEF TInv, TypeOK, Positions, AdminLook, Missing, AdminStep, jobs, hist, Live
<1>5. CASE AdminDelete
  <2>1. admin' \in [pc : {"idle", "look", "delete"}, doomed : SUBSET Ids]
    BY <1>5 DEF AdminDelete, AdminIdle
  <2> QED
    BY <1>5, <2>1, DeleteKeepsTypes
      DEF TInv, TypeOK, Positions, AdminDelete, AdminStep, jobs, hist, UniquePaths
<1> QED
  BY <1>1, <1>2, <1>3, <1>4, <1>5 DEF AdminGoes

(* and the end of a scan, however it comes about. *)
LEMMA EndKeepsTypes ==
  ASSUME TInv, EndScan
  PROVE  /\ scan' \in ScanRecords /\ scan'.pc = "idle"
         /\ slip' \in BOOLEAN /\ away' \subseteq Ids
  BY IdleTyped DEF EndScan, Idle

LEMMA ThrowKeepsTypes ==
  ASSUME TInv, Throw, UNCHANGED <<disk, mounted, admin>>,
         queue' \in Modes \cup {"none"}, asked' \in [Callers -> Modes \cup {"none"}],
         spent' \in [files : 0..MaxFiles, troubles : 0..MaxTroubles]
  PROVE  TInv'
<1>1. EndScan
  BY DEF Throw
<1> QED
  BY <1>1, EndKeepsTypes DEF TInv, TypeOK, Positions, ScanRecords, Throw, Live

-----------------------------------------------------------------------------
(* The steps of a scan. *)
ScanIs(s) ==
  /\ s \in ScanRecords
  /\ s.pc \in {"walk", "probe", "store", "sync", "mark"} => s.at \in Dirs
  /\ s.pc \in {"store", "sync", "mark"} => s.seen[s.at] # Gone

(* Steps that leave the rows alone owe the scan record and the history. *)
LEMMA ScanOnly ==
  ASSUME TInv, scan.pc # "idle", ScanIs(scan'), ScanStep, rows' = rows,
         cursor' \in 0..Last, slip' \in BOOLEAN, away' \subseteq Ids
  PROVE  TInv'
  BY DEF TInv, TypeOK, Positions, ScanIs, ScanRecords, ScanStep, world, jobs, Live

(* A record of the scan's stays one under each step's writes. *)
LEMMA RecordUpdates ==
  ASSUME NEW s \in ScanRecords, NEW pc \in ScanPcs
  PROVE  /\ [s EXCEPT !.pc = pc] \in ScanRecords
         /\ \A i \in Ids \cup {0} :
              [s EXCEPT !.item = i, !.pc = pc] \in ScanRecords
         /\ \A doomed \in SUBSET Ids :
              [s EXCEPT !.pc = pc, !.doomed = doomed] \in ScanRecords
         /\ \A d \in Dirs, p \in 0..MaxFiles :
              [s EXCEPT !.probes[d] = p] \in ScanRecords
  BY DEF ScanRecords

LEMMA PlaceUpdates ==
  ASSUME NEW s \in ScanRecords, NEW pc \in ScanPcs, NEW at \in 0..Last
  PROVE  /\ [s EXCEPT !.at = at] \in ScanRecords
         /\ \A i \in Ids \cup {0} :
              [s EXCEPT !.pc = pc, !.at = at, !.item = i] \in ScanRecords
         /\ \A d \in Dirs, f \in Files :
              [s EXCEPT !.seen[d] = f, !.at = at, !.pc = pc] \in ScanRecords
         /\ \A stored \in [Ids -> Rows] :
              [s EXCEPT !.stored = stored, !.pc = pc, !.at = at] \in ScanRecords
         /\ \A mode \in Modes, resume \in 0..Last :
              [s EXCEPT !.pc = pc, !.mode = mode, !.at = at,
                        !.resume = resume] \in ScanRecords
  BY DEF ScanRecords

LEMMA ScanTyped == ASSUME TInv PROVE scan \in ScanRecords
  BY DEF TInv, TypeOK, ScanRecords

LEMMA ProceedTyped ==
  ASSUME TInv, NEW s \in ScanRecords, s.seen = scan.seen,
         NEW after \in Nat, Proceed(s, after)
  PROVE  ScanIs(scan')
<1>1. CASE scan' = [Idle EXCEPT !.pc = "finish", !.mode = s.mode, !.seen = s.seen]
  BY <1>1, IdleTyped DEF ScanIs, ScanRecords, ScanPcs
<1>2. ASSUME NEW e \in ToDo(after),
             scan' = [s EXCEPT !.pc = "store", !.at = e, !.item = 0]
      PROVE  ScanIs(scan')
  <2>1. e \in Dirs /\ s.seen[e] # Gone
    BY DEF ToDo
  <2>2. scan' \in ScanRecords
    <3>1. "store" \in ScanPcs /\ e \in 0..Last /\ 0 \in Ids \cup {0}
      BY <2>1 DEF ScanPcs, Dirs
    <3> QED
      BY <1>2, <3>1, PlaceUpdates
  <2>3. scan'.at = e /\ scan'.seen = s.seen
    BY <1>2 DEF ScanRecords
  <2> QED
    BY <2>1, <2>2, <2>3 DEF ScanIs
<1> QED
  BY <1>1, <1>2 DEF Proceed

LEMMA WalkKeepsTypes == ASSUME TInv, Walk PROVE TInv'
<1>1. ASSUME scan' = [scan EXCEPT !.seen[scan.at] = disk[scan.at],
                                  !.at = IF @ = Last THEN 1 ELSE @ + 1,
                                  !.pc = IF scan.at = Last THEN "fetch" ELSE @]
      PROVE  ScanIs(scan')
  <2>1. scan.at \in Dirs /\ scan.pc = "walk" /\ disk[scan.at] \in Files
    BY DEF TInv, TypeOK, Positions, Walk
  <2>2. scan' \in ScanRecords
    <3>1. /\ (IF scan.at = Last THEN 1 ELSE scan.at + 1) \in 0..Last
          /\ (IF scan.at = Last THEN "fetch" ELSE scan.pc) \in ScanPcs
      BY <2>1 DEF ScanPcs, Dirs
    <3> QED
      BY <1>1, <2>1, <3>1, ScanTyped, PlaceUpdates
  <2>3. scan'.at \in Dirs /\ scan'.pc \in {"walk", "fetch"}
    BY <1>1, <2>1 DEF TInv, TypeOK, Dirs
  <2> QED
    BY <1>1, <2>1, <2>2, <2>3 DEF ScanIs
<1>2. ASSUME scan' = [scan EXCEPT !.pc = "fetch"] PROVE ScanIs(scan')
  BY <1>2 DEF TInv, TypeOK, ScanIs, ScanRecords, ScanPcs
<1>3. CASE Throw
  BY <1>3, ThrowKeepsTypes DEF Walk, ScanStep, world, jobs, TInv, TypeOK
<1>4. CASE Keep /\ ScanIs(scan')
  BY <1>4, ScanOnly DEF Walk, Keep, hist, TInv, TypeOK
<1> QED
  BY <1>1, <1>2, <1>3, <1>4 DEF Walk

LEMMA FetchKeepsTypes == ASSUME TInv, Fetch PROVE TInv'
<1>1. ScanIs(scan')
  <2>1. scan' \in ScanRecords
    <3>1. "probe" \in ScanPcs /\ 1 \in 0..Last /\ rows \in [Ids -> Rows]
      BY DEF ScanPcs, TInv, TypeOK
    <3> QED
      BY <3>1, ScanTyped, PlaceUpdates DEF Fetch
  <2>2. scan'.pc = "probe" /\ scan'.at = 1
    BY DEF Fetch, TInv, TypeOK
  <2> QED
    BY <2>1, <2>2 DEF ScanIs, Dirs
<1> QED
  BY <1>1, ScanOnly DEF Fetch, Keep, hist, TInv, TypeOK

LEMMA ProbeKeepsTypes == ASSUME TInv, Probe PROVE TInv'
<1>1. PICK d \in Dirs :
        LET p == Probed(d)
            s == [scan EXCEPT !.probes[d] = p]
        IN  /\ d = scan.at
            /\ IF d = Last THEN Proceed(s, 0)
               ELSE scan' = [s EXCEPT !.at = d + 1]
  BY DEF Probe
<1> DEFINE p == Probed(d)
           s == [scan EXCEPT !.probes[d] = p]
<1>2. p \in 0..MaxFiles
  BY DEF Probed, TInv, TypeOK, OnDisk, Files, Contents
<1>3. s \in ScanRecords /\ s.seen = scan.seen /\ s.pc = "probe"
  BY <1>2 DEF TInv, TypeOK, ScanRecords, Probe
<1> HIDE DEF p, s
<1>4. ASSUME d = Last PROVE ScanIs(scan')
  <2>1. Proceed(s, 0)
    BY <1>1, <1>4 DEF p, s
  <2> QED
    BY <1>3, <2>1, ProceedTyped
<1>5. ASSUME d # Last PROVE ScanIs(scan')
  <2>1. scan' = [s EXCEPT !.at = d + 1]
    BY <1>1, <1>5 DEF p, s
  <2>2. scan' \in ScanRecords
    <3>1. d + 1 \in 0..Last /\ "probe" \in ScanPcs
      BY <1>5 DEF Dirs, ScanPcs
    <3> QED
      BY <1>3, <2>1, <3>1, PlaceUpdates
  <2>3. scan'.at \in Dirs /\ scan'.pc = "probe"
    BY <1>3, <1>5, <2>1 DEF ScanRecords, Dirs
  <2> QED
    BY <1>3, <1>5, <2>1, <2>2, <2>3 DEF ScanIs
<1> QED
  BY <1>4, <1>5, ScanOnly DEF Probe, Keep, hist, TInv, TypeOK

(* The writes of a row. *)
LEMMA RowWrite ==
  ASSUME TInv, ScanStep, UNCHANGED <<cursor, hist>>, scan.pc # "idle",
         ScanIs(scan'), rows' \in [Ids -> Rows], UniquePaths'
  PROVE  TInv'
  BY DEF TInv, TypeOK, Positions, ScanIs, ScanRecords, ScanStep, world, jobs,
         hist, UniquePaths

LEMMA PutKeepsTypes ==
  ASSUME TInv, scan.pc = "store", NEW i \in Ids, NEW hash \in Contents,
         NEW kept \in 0..MaxFiles, Put(i, scan.at, hash, kept), ScanStep
  PROVE  TInv'
<1> DEFINE d == scan.at
           p == scan.probes[d]
           row == [path |-> d, tag |-> scan.seen[d].tag, hash |-> hash,
                   probe |-> IF p # 0 THEN p ELSE kept,
                   streams |-> rows[i].streams]
<1>1. d \in Dirs /\ p \in 0..MaxFiles /\ scan.seen[d].tag \in Contents
  BY DEF TInv, TypeOK, Positions, Files
<1>2. rows[i].streams \in 0..MaxFiles
  <2>1. rows[i] \in Rows
    BY DEF TInv, TypeOK
  <2> QED
    BY <2>1 DEF Rows, NoRow
<1>3. row \in Rows /\ row.path = d
  BY <1>1, <1>2 DEF Rows
<1>4. CASE Clash(i, d)
  <2>1. Throw
    BY <1>4 DEF Put
  <2> QED
    BY <2>1, ThrowKeepsTypes DEF ScanStep, world, jobs, TInv, TypeOK
<1>5. CASE ~Clash(i, d)
  <2>1. /\ rows' = [rows EXCEPT ![i] = row]
        /\ scan' = [scan EXCEPT !.item = i,
                                !.pc = IF p # 0 THEN "sync" ELSE "mark"]
        /\ UNCHANGED <<cursor, hist>>
    BY <1>5 DEF Put
  <2> HIDE DEF row
  <2>2. rows' \in [Ids -> Rows]
    BY <1>3, <2>1 DEF TInv, TypeOK
  <2>3. ASSUME NEW j \in Ids, NEW k \in Ids,
               rows'[j] # NoRow, rows'[j].path = rows'[k].path
        PROVE  j = k
    <3>1. /\ rows'[i] = row
          /\ \A m \in Ids \ {i} : rows'[m] = rows[m]
      BY <2>1 DEF TInv, TypeOK
    <3>2. \A m \in Ids \ {i} : rows[m].path # d
      BY <1>1, <1>5 DEF Clash, Live, NoRow, Dirs
    <3>3. CASE j # i /\ k # i
      BY <2>3, <3>1, <3>3 DEF TInv, TypeOK, Live
    <3>4. CASE j = i \/ k = i
      BY <1>3, <2>3, <3>1, <3>2, <3>4
    <3> QED
      BY <3>3, <3>4
  <2>4. UniquePaths'
    BY <2>3 DEF UniquePaths, Live
  <2>5. ScanIs(scan')
    <3>1. (IF p # 0 THEN "sync" ELSE "mark") \in ScanPcs
      BY DEF ScanPcs
    <3>2. scan' \in ScanRecords
      BY <2>1, <3>1, ScanTyped, RecordUpdates
    <3>3. scan'.at = scan.at /\ scan'.seen = scan.seen
      BY <2>1, ScanTyped DEF ScanRecords
    <3> QED
      BY <3>2, <3>3 DEF ScanIs, TInv, Positions
  <2> QED
    BY <2>1, <2>2, <2>4, <2>5, RowWrite
<1> QED
  BY <1>4, <1>5

LEMMA StoreKeepsTypes == ASSUME TInv, Store PROVE TInv'
<1> DEFINE d == scan.at
<1>1. scan.pc = "store" /\ ScanStep /\ d \in Dirs
  BY DEF Store, TInv, Positions
<1>2. CASE Throw
  BY <1>1, <1>2, ThrowKeepsTypes DEF ScanStep, world, jobs, TInv, TypeOK
<1>3. ASSUME disk[d] # Gone PROVE disk[d].content \in Contents
  BY <1>1, <1>3 DEF TInv, TypeOK, Files
<1>4. CASE Refresh(d)
  <2>1. PICK i \in StoredFor(d) :
          LET old       == scan.stored[i]
              unchanged == old.tag = scan.seen[d].tag
          IN  IF ~Live(i) \/ (~unchanged /\ ~OnDisk(d)) THEN Throw
              ELSE Put(i, d, IF unchanged THEN old.hash ELSE disk[d].content,
                       IF unchanged THEN old.probe ELSE 0)
    BY <1>4 DEF Refresh
  <2> DEFINE old       == scan.stored[i]
             unchanged == old.tag = scan.seen[d].tag
  <2>2. i \in Ids /\ old # NoRow
    BY <2>1 DEF StoredFor
  <2>3. old.hash \in Contents /\ old.probe \in 0..MaxFiles
    BY <2>2 DEF TInv, TypeOK, Rows
  <2>4. CASE ~Throw
    <3>1. (IF unchanged THEN old.hash ELSE disk[d].content) \in Contents
      BY <1>3, <2>1, <2>3, <2>4 DEF OnDisk
    <3>2. (IF unchanged THEN old.probe ELSE 0) \in 0..MaxFiles
      BY <2>3
    <3> QED
      BY <1>1, <2>1, <2>2, <2>4, <3>1, <3>2, PutKeepsTypes
  <2> QED
    BY <1>2, <2>4
<1>5. CASE Import(d)
  <2>1. ASSUME OnDisk(d), NEW i \in Ids, Put(i, d, disk[d].content, 0)
        PROVE  TInv'
    <3>1. 0 \in 0..MaxFiles /\ disk[d].content \in Contents
      BY <1>3, <2>1 DEF OnDisk
    <3> QED
      BY <1>1, <2>1, <3>1, PutKeepsTypes
  <2> QED
    BY <1>2, <1>5, <2>1 DEF Import, Create, FreeIds, SameHash
<1> QED
  BY <1>4, <1>5 DEF Store

LEMMA SyncKeepsTypes == ASSUME TInv, Sync PROVE TInv'
<1>1. scan.pc = "sync" /\ ScanStep /\ scan.at \in Dirs
  BY DEF Sync, TInv, Positions
<1>2. CASE ~Live(scan.item)
  BY <1>1, <1>2, ThrowKeepsTypes DEF Sync, ScanStep, world, jobs, TInv, TypeOK
<1>3. CASE Live(scan.item)
  <2> DEFINE i == scan.item
  <2>1. /\ rows' = [rows EXCEPT ![i].streams = scan.probes[scan.at]]
        /\ scan' = [scan EXCEPT !.pc = "mark"] /\ UNCHANGED <<cursor, hist>>
    BY <1>3 DEF Sync
  <2>2. scan.probes[scan.at] \in 0..MaxFiles
    BY <1>1 DEF TInv, TypeOK
  <2>3. rows' \in [Ids -> Rows] /\ UniquePaths'
    <3>1. CASE i \in Ids
      <4>1. /\ rows[i] \in Rows /\ rows[i] # NoRow
            /\ rows'[i] = [rows[i] EXCEPT !.streams = scan.probes[scan.at]]
            /\ \A j \in Ids \ {i} : rows'[j] = rows[j]
        BY <1>3, <2>1, <3>1 DEF TInv, TypeOK, Live
      <4>2. rows'[i] \in Rows /\ rows'[i].path = rows[i].path
        BY <2>2, <4>1 DEF Rows
      <4>3. rows' \in [Ids -> Rows]
        BY <2>1, <4>1, <4>2 DEF TInv, TypeOK
      <4>4. ASSUME NEW j \in Ids, NEW k \in Ids,
                   rows'[j] # NoRow, rows'[j].path = rows'[k].path
            PROVE  j = k
        <5>1. rows[j].path = rows[k].path /\ Live(j)
          BY <4>1, <4>2, <4>4 DEF Live
        <5> QED
          BY <5>1 DEF TInv, TypeOK
      <4> QED
        BY <4>3, <4>4 DEF UniquePaths, Live
    <3>2. CASE i \notin Ids
      BY <2>1, <3>2 DEF TInv, TypeOK, UniquePaths, Live
    <3> QED
      BY <3>1, <3>2
  <2>4. ScanIs(scan')
    <3>1. scan' \in ScanRecords
      BY <2>1, ScanTyped, RecordUpdates DEF ScanPcs
    <3>2. scan'.at = scan.at /\ scan'.seen = scan.seen
      BY <2>1, ScanTyped DEF ScanRecords
    <3> QED
      BY <1>1, <3>1, <3>2 DEF ScanIs, TInv, Positions
  <2> QED
    BY <1>1, <2>1, <2>3, <2>4, RowWrite
<1> QED
  BY <1>2, <1>3

LEMMA MarkKeepsTypes == ASSUME TInv, Mark PROVE TInv'
<1>1. scan.at \in Dirs /\ scan.at \in Nat
  BY DEF Mark, TInv, Positions, Dirs
<1>2. ScanIs(scan')
  BY <1>1, ScanTyped, ProceedTyped DEF Mark
<1> QED
  BY <1>1, <1>2, ScanOnly DEF Mark, hist, TInv, TypeOK, Dirs

(* The end of a scan. *)
LEMMA FinishKeepsTypes == ASSUME TInv, Finish PROVE TInv'
<1>1. CASE scan' = [Idle EXCEPT !.pc = "look", !.mode = scan.mode] /\ UNCHANGED hist
  <2>1. ScanIs(scan')
    BY <1>1, IdleTyped, ScanTyped DEF ScanIs, ScanRecords, ScanPcs
  <2> QED
    BY <1>1, <2>1, ScanOnly DEF Finish, CursorAfter, hist, TInv, TypeOK
<1>2. CASE EndScan
  <2>1. ScanIs(scan')
    BY <1>2, IdleTyped DEF EndScan, ScanIs, Idle
  <2> QED
    BY <1>2, <2>1, EndKeepsTypes, ScanOnly DEF Finish, CursorAfter
<1> QED
  BY <1>1, <1>2 DEF Finish

LEMMA LookKeepsTypes == ASSUME TInv, Look PROVE TInv'
<1>1. Missing \in SUBSET Ids /\ away' \subseteq Ids
  BY DEF Look, Missing
<1>2. scan' \in ScanRecords
  BY <1>1, ScanTyped, RecordUpdates DEF Look, ScanPcs
<1>3. ScanIs(scan')
  BY <1>2, ScanTyped DEF Look, ScanIs, ScanRecords
<1> QED
  BY <1>1, <1>3, ScanOnly DEF Look, TInv, TypeOK

LEMMA DeleteStepKeepsTypes == ASSUME TInv, Delete PROVE TInv'
<1>1. rows' \in [Ids -> Rows] /\ UniquePaths'
  BY DeleteKeepsTypes DEF Delete
<1>2. EndScan
  BY DEF Delete
<1> QED
  BY <1>1, <1>2, EndKeepsTypes
    DEF Delete, TInv, TypeOK, Positions, ScanRecords, ScanStep, world, jobs,
        UniquePaths

LEMMA TakeKeepsTypes == ASSUME TInv, Take PROVE TInv'
<1>1. scan' \in ScanRecords /\ scan'.pc = "walk" /\ scan'.at = 1
  <2>1. /\ "walk" \in ScanPcs /\ 1 \in 0..Last
        /\ queue \in Modes /\ cursor \in 0..Last
    BY DEF Take, ScanPcs, TInv, TypeOK
  <2>2. scan' \in ScanRecords
    BY <2>1, IdleTyped, PlaceUpdates DEF Take
  <2> QED
    BY <2>2, IdleTyped DEF Take, ScanRecords
<1> QED
  BY <1>1 DEF Take, Keep, TInv, TypeOK, Positions, ScanRecords, world, hist,
              Live, Dirs

LEMMA TroubleKeepsTypes == ASSUME TInv, ScanFails \/ Crash PROVE TInv'
<1>1. spent' \in [files : 0..MaxFiles, troubles : 0..MaxTroubles]
  BY DEF ScanFails, Crash, Spend, TInv, TypeOK
<1>2. CASE ScanFails
  BY <1>1, <1>2, ThrowKeepsTypes DEF ScanFails, world, jobs, TInv, TypeOK
<1>3. CASE Crash
  <2>1. queue' \in Modes \cup {"none"}
    BY <1>3 DEF Crash, TInv, TypeOK, Modes
  <2>2. asked' \in [Callers -> Modes \cup {"none"}]
    BY <1>3 DEF Crash, TInv, TypeOK, Callers
  <2> QED
    BY <1>1, <1>3, <2>1, <2>2, ThrowKeepsTypes DEF Crash, world
<1> QED
  BY <1>2, <1>3

LEMMA NextKeepsTypes == ASSUME TInv, [Next]_vars PROVE TInv'
<1>1. CASE Scan
  BY <1>1, WalkKeepsTypes, FetchKeepsTypes, ProbeKeepsTypes, StoreKeepsTypes,
     SyncKeepsTypes, MarkKeepsTypes, FinishKeepsTypes, LookKeepsTypes,
     DeleteStepKeepsTypes DEF Scan
<1>2. CASE UNCHANGED vars
  BY <1>2 DEF vars, TInv, TypeOK, Positions, Live
<1> QED
  BY <1>1, <1>2, DiskKeepsTypes, RequestsKeepTypes, TakeKeepsTypes,
     TroubleKeepsTypes DEF Next

(* Every variable has its type, no two rows share a path and no scan waits  *)
(* beside the active one, whatever the disk, the callers and crashes do.    *)
THEOREM TypeCorrect == Spec => []TypeOK
<1>1. TInv /\ [Next]_vars => TInv'
  BY NextKeepsTypes
<1>2. TInv => TypeOK
  BY DEF TInv
<1> QED
  BY <1>1, <1>2, InitTInv, PTL DEF Spec

-----------------------------------------------------------------------------
(* Why a prune takes no row of a file that is there: the walk that opened   *)
(* its gate saw the drive, so unless the drive came loose since, what is    *)
(* missing at the look is really away.                                      *)
Gated ==
  /\ scan.pc = "idle" => scan.doomed = {}
  /\ /\ ~slip /\ scan.pc # "idle"
     /\ Found \/ scan.pc \in {"look", "delete"}
     => mounted
  /\ ~slip => scan.doomed \subseteq away

HInv == TInv /\ Gated

LEMMA InitGated == Init => Gated
  BY DEF Init, Idle, Gated

(* Nobody else touches the scan; the drive that comes loose is noticed. *)
LEMMA OthersKeepGated ==
  ASSUME HInv, UNCHANGED <<scan, hist>>, mounted => mounted'
  PROVE  Gated'
  BY DEF HInv, Gated, Found, hist

LEMMA LooseKeepsGated == ASSUME HInv, ComeLoose PROVE Gated'
<1>1. CASE scan.pc = "idle"
  BY <1>1 DEF HInv, Gated, ComeLoose
<1>2. CASE scan.pc # "idle"
  <2>1. slip'
    BY <1>2 DEF ComeLoose
  <2>2. scan' = scan
    BY DEF ComeLoose
  <2> QED
    BY <1>2, <2>1, <2>2 DEF Gated
<1> QED
  BY <1>1, <1>2

LEMMA EndGated == ASSUME EndScan PROVE Gated'
  BY DEF EndScan, Idle, Gated

(* From the walk to the last checkpoint a scan keeps what it saw and dooms *)
(* nothing.                                                                *)
LEMMA WorkKeepsGated ==
  ASSUME HInv, UNCHANGED <<mounted, hist>>, scan.pc # "idle",
         scan'.pc \notin {"idle", "look", "delete"},
         Found' => Found, scan'.doomed \subseteq scan.doomed
  PROVE  Gated'
  BY DEF HInv, Gated, hist

LEMMA ProceedKeepsWork ==
  ASSUME NEW s \in ScanRecords, s.seen = scan.seen, s.doomed = scan.doomed,
         NEW after, Proceed(s, after)
  PROVE  /\ scan'.pc \notin {"idle", "look", "delete"}
         /\ scan'.seen = scan.seen /\ scan'.doomed \subseteq scan.doomed
<1>1. CASE scan' = [Idle EXCEPT !.pc = "finish", !.mode = s.mode, !.seen = s.seen]
  BY <1>1 DEF Idle
<1>2. ASSUME NEW e, scan' = [s EXCEPT !.pc = "store", !.at = e, !.item = 0]
      PROVE  /\ scan'.pc \notin {"idle", "look", "delete"}
             /\ scan'.seen = scan.seen /\ scan'.doomed \subseteq scan.doomed
  BY <1>2 DEF ScanRecords
<1> QED
  BY <1>1, <1>2 DEF Proceed

LEMMA WalkKeepsGated == ASSUME HInv, Walk PROVE Gated'
<1>1. /\ scan \in ScanRecords /\ scan.pc = "walk" /\ scan.at \in Dirs
      /\ mounted' = mounted
  BY ScanTyped DEF HInv, TInv, Positions, Walk, ScanStep, world
<1>2. CASE Throw
  BY <1>2, EndGated DEF Throw
<1>3. CASE /\ mounted \/ (scan.at > 1 /\ disk[scan.at] = Gone)
           /\ scan' = [scan EXCEPT !.seen[scan.at] = disk[scan.at],
                          !.at = IF @ = Last THEN 1 ELSE @ + 1,
                          !.pc = IF scan.at = Last THEN "fetch" ELSE @]
           /\ Keep
  <2>1. /\ scan'.seen = [scan.seen EXCEPT ![scan.at] = disk[scan.at]]
        /\ scan'.doomed = scan.doomed /\ scan'.pc \in {"walk", "fetch"}
    BY <1>1, <1>3 DEF ScanRecords
  <2>2. Found' => Found \/ mounted
    BY <1>1, <1>3, <2>1 DEF Found, ScanRecords
  <2> QED
    BY <1>1, <1>3, <2>1, <2>2 DEF HInv, Gated, Keep, hist
<1>4. CASE scan' = [scan EXCEPT !.pc = "fetch"] /\ Keep
  <2>1. /\ scan'.seen = scan.seen /\ scan'.doomed = scan.doomed
        /\ scan'.pc = "fetch"
    BY <1>1, <1>4 DEF ScanRecords
  <2> QED
    BY <1>1, <1>4, <2>1, WorkKeepsGated DEF Found, Keep, hist
<1> QED
  BY <1>2, <1>3, <1>4 DEF Walk

LEMMA FetchKeepsGated == ASSUME HInv, Fetch PROVE Gated'
<1>1. scan \in ScanRecords
  BY ScanTyped DEF HInv
<1>2. /\ scan'.seen = scan.seen /\ scan'.doomed = scan.doomed
      /\ scan'.pc = "probe"
  BY <1>1 DEF Fetch, ScanRecords
<1> QED
  BY <1>2, WorkKeepsGated DEF Fetch, ScanStep, world, Found, Keep, hist

LEMMA ProbeKeepsGated == ASSUME HInv, Probe PROVE Gated'
<1>1. scan \in ScanRecords
  BY ScanTyped DEF HInv
<1>2. PICK d \in Dirs :
        LET p == Probed(d)
            s == [scan EXCEPT !.probes[d] = p]
        IN  /\ d = scan.at
            /\ IF d = Last THEN Proceed(s, 0)
               ELSE scan' = [s EXCEPT !.at = d + 1]
  BY DEF Probe
<1> DEFINE p == Probed(d)
           s == [scan EXCEPT !.probes[d] = p]
<1>3. p \in 0..MaxFiles
  BY DEF Probed, HInv, TInv, TypeOK, OnDisk, Files, Contents
<1>4. /\ s \in ScanRecords /\ s.seen = scan.seen /\ s.doomed = scan.doomed
      /\ s.pc = "probe"
  BY <1>1, <1>3 DEF ScanRecords, Probe
<1> HIDE DEF p, s
<1>5. Proceed(s, 0) \/ scan' = [s EXCEPT !.at = d + 1]
  BY <1>2 DEF p, s
<1>6. /\ scan'.pc \notin {"idle", "look", "delete"}
      /\ scan'.seen = scan.seen /\ scan'.doomed \subseteq scan.doomed
  BY <1>4, <1>5, ProceedKeepsWork DEF ScanRecords
<1> QED
  BY <1>6, WorkKeepsGated DEF Probe, ScanStep, world, Found, Keep, hist

LEMMA PutKeepsGated ==
  ASSUME HInv, scan.pc = "store", ScanStep, NEW i, NEW hash, NEW kept,
         Put(i, scan.at, hash, kept)
  PROVE  Gated'
<1>1. scan \in ScanRecords
  BY ScanTyped DEF HInv
<1>2. CASE Throw
  BY <1>2, EndGated DEF Throw
<1>3. CASE UNCHANGED hist
  <2> DEFINE pc == IF scan.probes[scan.at] # 0 THEN "sync" ELSE "mark"
  <2>1. CASE scan' = [scan EXCEPT !.item = i, !.pc = pc]
    <3>1. /\ scan'.seen = scan.seen /\ scan'.doomed = scan.doomed
          /\ scan'.pc \in {"sync", "mark"}
      BY <1>1, <2>1 DEF ScanRecords
    <3> QED
      BY <1>3, <3>1, WorkKeepsGated DEF ScanStep, world, Found
  <2> QED
    BY <1>2, <2>1 DEF Put
<1> QED
  BY <1>2, <1>3 DEF Put

LEMMA StoreKeepsGated == ASSUME HInv, Store PROVE Gated'
<1>1. scan.pc = "store" /\ ScanStep
  BY DEF Store
<1>2. CASE Throw
  BY <1>2, EndGated DEF Throw
<1>3. CASE \E i, hash, kept : Put(i, scan.at, hash, kept)
  BY <1>1, <1>3, PutKeepsGated
<1>4. Refresh(scan.at) => Throw \/ \E i, hash, kept : Put(i, scan.at, hash, kept)
  BY DEF Refresh
<1>5. Import(scan.at) => Throw \/ \E i, hash, kept : Put(i, scan.at, hash, kept)
  BY DEF Import, Create
<1> QED
  BY <1>2, <1>3, <1>4, <1>5 DEF Store

LEMMA SyncKeepsGated == ASSUME HInv, Sync PROVE Gated'
<1>1. scan \in ScanRecords
  BY ScanTyped DEF HInv
<1>2. CASE Throw
  BY <1>2, EndGated DEF Throw
<1>3. CASE scan' = [scan EXCEPT !.pc = "mark"] /\ UNCHANGED hist
  <2>1. /\ scan'.seen = scan.seen /\ scan'.doomed = scan.doomed
        /\ scan'.pc = "mark"
    BY <1>1, <1>3 DEF ScanRecords
  <2> QED
    BY <1>3, <2>1, WorkKeepsGated DEF Sync, ScanStep, world, Found
<1> QED
  BY <1>2, <1>3 DEF Sync

LEMMA MarkKeepsGated == ASSUME HInv, Mark PROVE Gated'
<1>1. scan \in ScanRecords
  BY ScanTyped DEF HInv
<1>2. /\ scan'.pc \notin {"idle", "look", "delete"}
      /\ scan'.seen = scan.seen /\ scan'.doomed \subseteq scan.doomed
  BY <1>1, ProceedKeepsWork DEF Mark
<1> QED
  BY <1>2, WorkKeepsGated DEF Mark, ScanStep, world, Found

LEMMA FinishKeepsGated == ASSUME HInv, Finish PROVE Gated'
<1>1. CASE PruneGate /\ scan' = [Idle EXCEPT !.pc = "look", !.mode = scan.mode]
           /\ UNCHANGED hist
  <2>1. scan'.doomed = {} /\ scan'.pc = "look"
    BY <1>1 DEF Idle
  <2>2. mounted' = mounted /\ (~slip => mounted)
    BY <1>1 DEF Finish, ScanStep, world, HInv, Gated, PruneGate
  <2> QED
    BY <1>1, <2>1, <2>2 DEF Gated, hist
<1> QED
  BY <1>1, EndGated DEF Finish

(* What the look finds missing on a mounted drive is away. *)
LEMMA LookKeepsGated == ASSUME HInv, Look PROVE Gated'
<1>1. scan \in ScanRecords /\ UNCHANGED <<mounted, slip>>
  BY ScanTyped DEF HInv, Look, ScanStep, world
<1>2. scan'.pc = "delete" /\ scan'.doomed = Missing
  BY <1>1 DEF Look, ScanRecords
<1>3. ~slip => mounted
  BY DEF Look, HInv, Gated
<1>4. ~slip => Missing \subseteq away'
  BY <1>3 DEF Look, Missing, OnDisk
<1> QED
  BY <1>1, <1>2, <1>3, <1>4 DEF Gated

LEMMA TakeKeepsGated == ASSUME HInv, Take PROVE Gated'
<1>1. scan'.doomed = {} /\ scan'.pc = "walk" /\ ~Found'
  BY DEF Take, Idle, Found
<1> QED
  BY <1>1 DEF Gated

LEMMA NextKeepsGated == ASSUME HInv, [Next]_vars PROVE Gated'
<1>1. ASSUME NEW d \in Dirs, Write(d) \/ Remove(d) \/ ShowDelete(d) PROVE Gated'
  BY <1>1, OthersKeepGated
    DEF Write, NewFile, Remove, ShowDelete, DiskStep, AdminStep, hist
<1>2. ASSUME NEW d \in Dirs, NEW e \in Dirs, Copy(d, e) \/ Rename(d, e)
      PROVE  Gated'
  BY <1>2, OthersKeepGated DEF Copy, NewFile, Rename, DiskStep, hist
<1>3. CASE ComeBack
  BY <1>3, OthersKeepGated DEF ComeBack
<1>4. CASE Sweep \/ (\E mode \in Modes : AdminAsks(mode))
           \/ (\E c \in Callers : AddJob(c))
  BY <1>4, OthersKeepGated
    DEF Sweep, AdminAsks, RemoveJob, AddJob, AskStep, world
<1>5. CASE AdminGoes
  BY <1>5, OthersKeepGated DEF AdminGoes, AdminLook, AdminDelete, AdminStep
<1>6. CASE ScanFails \/ Crash \/ Delete
  BY <1>6, EndGated DEF ScanFails, Crash, Delete, Throw
<1>7. CASE UNCHANGED vars
  BY <1>7, OthersKeepGated DEF vars, hist
<1> QED
  BY <1>1, <1>2, <1>3, <1>4, <1>5, <1>6, <1>7, LooseKeepsGated, TakeKeepsGated,
     WalkKeepsGated, FetchKeepsGated, ProbeKeepsGated, StoreKeepsGated,
     SyncKeepsGated, MarkKeepsGated, FinishKeepsGated, LookKeepsGated
    DEF Next, Scan

-----------------------------------------------------------------------------
(* What a step may do to a settled row. *)
Kept == \A i \in Ids : Settled(i) /\ ~Excused(i) => Settled(i)'

LEMMA SameRowsKept ==
  ASSUME UNCHANGED <<disk, rows>> PROVE Kept
  BY DEF Kept, Settled, Live

(* A write on row i for the walked file keeps every other row; row i is     *)
(* the walked file's, not settled, or settled on that very file.            *)
LEMMA PutKept ==
  ASSUME HInv, scan.pc = "store", ScanStep, NEW i \in Ids, NEW hash, NEW kept,
         Put(i, scan.at, hash, kept),
         Settled(i) /\ ~Excused(i) => scan.seen[scan.at] = disk[scan.at]
  PROVE  Kept
<1> DEFINE d == scan.at
<1>1. disk' = disk /\ rows \in [Ids -> Rows] /\ d \in Dirs /\ scan.seen[d] # Gone
  BY DEF HInv, TInv, TypeOK, Positions, ScanStep, world
<1>2. CASE Throw
  BY <1>1, <1>2, SameRowsKept DEF Throw
<1>3. CASE ~Throw
  <2>1. PICK row :
          /\ rows' = [rows EXCEPT ![i] = row]
          /\ row.path = d /\ row.tag = scan.seen[d].tag
    BY <1>3 DEF Put
  <2>2. ASSUME Settled(i), ~Excused(i) PROVE Settled(i)'
    <3>1. rows'[i] = row /\ row # NoRow
      BY <1>1, <2>1 DEF NoRow, Dirs
    <3> QED
      BY <1>1, <2>1, <2>2, <3>1 DEF Settled, Live
  <2>3. ASSUME NEW j \in Ids \ {i}, Settled(j) PROVE Settled(j)'
    BY <1>1, <2>1, <2>3 DEF Settled, Live
  <2> QED
    BY <2>2, <2>3 DEF Kept
<1> QED
  BY <1>2, <1>3

LEMMA StoreKept == ASSUME HInv, Store PROVE Kept
<1> DEFINE d == scan.at
<1>1. scan.pc = "store" /\ ScanStep /\ disk' = disk
  BY DEF Store, ScanStep, world
<1>2. d \in Dirs /\ scan.seen[d] # Gone
  BY <1>1 DEF HInv, TInv, Positions
<1>3. CASE Throw
  BY <1>1, <1>3, SameRowsKept DEF Throw
<1>4. CASE Refresh(d)
  <2>1. PICK i \in StoredFor(d) :
          Throw \/ \E hash, kept : Put(i, d, hash, kept)
    BY <1>4 DEF Refresh
  <2>2. i \in Ids
    BY DEF StoredFor
  <2>3. ~Excused(i) => scan.seen[d] = disk[d]
    BY <1>2, <2>1 DEF Excused
  <2> QED
    BY <1>1, <1>3, <2>1, <2>2, <2>3, PutKept
<1>5. CASE Import(d)
  <2>1. CASE Create(d)
    <3>1. PICK i \in FreeIds : Put(i, d, disk[d].content, 0)
      BY <2>1 DEF Create
    <3>2. i \in Ids /\ ~Settled(i)
      BY DEF FreeIds, Settled
    <3> QED
      BY <1>1, <3>1, <3>2, PutKept
  <2>2. ASSUME OnDisk(d), NEW t \in SameHash(d), Vanished(t),
               Put(t, d, disk[d].content, 0)
        PROVE  Kept
    <3>1. t \in Ids /\ ~Settled(t)
      BY <2>2 DEF SameHash, Settled, Vanished, OnDisk
    <3> QED
      BY <1>1, <2>2, <3>1, PutKept
  <2> QED
    BY <1>3, <1>5, <2>1, <2>2 DEF Import
<1> QED
  BY <1>4, <1>5 DEF Store

(* The streams are no part of where a row stands. *)
LEMMA SyncKept == ASSUME HInv, Sync PROVE Kept
<1>1. disk' = disk /\ rows \in [Ids -> Rows]
  BY DEF HInv, TInv, TypeOK, Sync, ScanStep, world
<1>2. CASE Throw
  BY <1>1, <1>2, SameRowsKept DEF Throw
<1>3. CASE ~Throw
  <2>1. /\ Live(scan.item)
        /\ rows' = [rows EXCEPT ![scan.item].streams = scan.probes[scan.at]]
    BY <1>3 DEF Sync
  <2>2. ASSUME NEW i \in Ids, Settled(i) PROVE Settled(i)'
    <3>1. CASE i # scan.item
      <4>1. rows'[i] = rows[i]
        BY <1>1, <2>1, <3>1
      <4> QED
        BY <1>1, <2>2, <4>1 DEF Settled, Live
    <3>2. CASE i = scan.item
      <4>1. rows[i] \in [path : Dirs, tag : Contents, hash : Contents,
                         probe : 0..MaxFiles, streams : 0..MaxFiles]
        BY <2>1, <3>2, LiveRow DEF HInv
      <4>2. rows'[i] = [rows[i] EXCEPT !.streams = scan.probes[scan.at]]
        BY <1>1, <2>1, <3>2
      <4>3. rows'[i].path = rows[i].path /\ rows'[i].tag = rows[i].tag
        BY <4>1, <4>2
      <4>4. rows'[i] # NoRow
        BY <4>1, <4>3 DEF NoRow, Dirs
      <4> QED
        BY <1>1, <2>2, <4>3, <4>4 DEF Settled, Live
    <3> QED
      BY <3>1, <3>2
  <2> QED
    BY <2>2 DEF Kept
<1> QED
  BY <1>2, <1>3

(* A prune takes what was doomed, and what was doomed is excused. *)
LEMMA PruneKept ==
  ASSUME NEW doomed, disk' = disk, rows' = Without(doomed),
         \A i \in doomed : Excused(i)
  PROVE  Kept
<1>1. ASSUME NEW i \in Ids, Settled(i), ~Excused(i) PROVE Settled(i)'
  <2>1. rows'[i] = rows[i]
    BY <1>1 DEF Without
  <2> QED
    BY <1>1, <2>1 DEF Settled, Live
<1> QED
  BY <1>1 DEF Kept

LEMMA NextKept == ASSUME HInv, [Next]_vars, disk' = disk PROVE Kept
<1>1. CASE Delete
  <2>1. \A i \in scan.doomed : Excused(i)
    BY DEF HInv, Gated, Excused
  <2> QED
    BY <1>1, <2>1, PruneKept DEF Delete
<1>2. CASE AdminDelete
  <2>1. \A i \in admin.doomed : Excused(i)
    BY DEF Excused
  <2> QED
    BY <1>2, <2>1, PruneKept DEF AdminDelete
<1>3. CASE Walk \/ Fetch \/ Probe \/ Mark \/ Finish \/ Look
  BY <1>3, SameRowsKept DEF Walk, Fetch, Probe, Mark, Finish, Look, Keep, Throw
<1>4. CASE \/ \E d \in Dirs : Write(d) \/ Remove(d) \/ ShowDelete(d)
           \/ \E d, e \in Dirs : d # e /\ (Copy(d, e) \/ Rename(d, e))
           \/ ComeLoose \/ ComeBack
  BY <1>4, SameRowsKept
    DEF Write, NewFile, Remove, ShowDelete, Copy, Rename, ComeLoose, ComeBack,
        DiskStep
<1>5. CASE \/ Sweep \/ (\E mode \in Modes : AdminAsks(mode))
           \/ (\E c \in Callers : AddJob(c))
           \/ Take \/ AdminLook \/ ScanFails \/ Crash
  BY <1>5, SameRowsKept
    DEF Sweep, AdminAsks, RemoveJob, AddJob, AskStep, Take, Keep, AdminLook,
        ScanFails, Crash, Throw
<1>6. CASE UNCHANGED vars
  BY <1>6, SameRowsKept DEF vars
<1> QED
  BY <1>1, <1>2, <1>3, <1>4, <1>5, <1>6, StoreKept, SyncKept
    DEF Next, Scan, AdminGoes

(* A settled row, and the watch state that hangs on it, stays with its      *)
(* file but for the excused: however many folders, files and row ids there  *)
(* are, and however often the drive, the worker or a call fails.            *)
THEOREM HistoryStaysAlways == Spec => HistoryStays
<1>1. Init => HInv
  BY InitTInv, InitGated DEF HInv
<1>2. HInv /\ [Next]_vars => HInv'
  BY NextKeepsTypes, NextKeepsGated DEF HInv
<1>3. HInv /\ [Next]_vars =>
        [disk' = disk => \A i \in Ids : Settled(i) /\ ~Excused(i) => Settled(i)']_vars
  BY NextKept DEF Kept
<1> QED
  BY <1>1, <1>2, <1>3, PTL DEF Spec, HistoryStays

=============================================================================
