---------------------------- MODULE WorkerProofs ----------------------------
(***************************************************************************)
(* Machine-checked facts about what keeps the library: offline copies, for *)
(* any set of downloads; the match of an item, for any chain of providers, *)
(* whatever they know and however they fail; and the titles of episodes,   *)
(* for any series and any lists.                                           *)
(***************************************************************************)
EXTENDS SuiteWorker, FiniteSetTheorems, SequenceTheorems, WellFoundedInduction, TLAPS

(* The worker between marking the row and reporting it ready. *)
Packing == {"pack", "check", "swap", "rename", "ready"}

(* A deletion under way had a row to begin with, and past its row write    *)
(* there is none.                                                          *)
DeletionHolds ==
  \A d \in Downloads :
    /\ del[d] = "row" => row[d] # "absent"
    /\ del[d] \in {"both", "final", "tmp", "done"} => row[d] = "deleted"

(* While the worker packs, the row does not say READY; from the packing on *)
(* the temporary directory is whole or gone, and once it is renamed only a *)
(* deletion can have removed the artifact.                                 *)
WorkerHolds ==
  \A d \in Downloads :
    /\ worker[d] \in Packing => row[d] # "READY"
    /\ worker[d] \in {"check", "swap", "rename"} => tmp[d] # "partial"
    /\ worker[d] = "ready" /\ row[d] # "deleted" => final[d] = "complete"

(* A download has no row before POST has made it. *)
CreationHolds == \A d \in Downloads : post[d] = "idle" => row[d] = "absent"

(* A busy worker owns the active job, and a job that is still to be done   *)
(* has an attempt left.                                                    *)
QueueHolds ==
  \A d \in Downloads :
    /\ worker[d] # "idle" => job[d] = "active"
    /\ job[d] # "none" => tries[d] < Attempts
    /\ post[d] # "done" => job[d] = "none" /\ tries[d] = 0

(* Until a worker dies, only the attempt under way has a temporary directory. *)
TmpHolds ==
  \A d \in Downloads : crashes = 0 /\ tmp[d] # "none" =>
    worker[d] \in {"mark", "pack", "check", "swap", "rename", "fail"}

IInv == TypeOK /\ QueueHolds /\ DeletionHolds /\ WorkerHolds /\ CreationHolds /\ TmpHolds /\ ReadyIsServable

-----------------------------------------------------------------------------
LEMMA InitIInv == Init => IInv
  BY DownloadsAssumption
  DEF Init, IInv, TypeOK, QueueHolds, DeletionHolds, WorkerHolds, CreationHolds, TmpHolds, ReadyIsServable,
      DownloadsAssumption, Packing

(* A step of a request handler keeps the invariant. *)
LEMMA ApiStep ==
  ASSUME IInv, NEW d \in Downloads, Create(d) \/ DropJob(d) \/ Api(d)
  PROVE  IInv'
<1>1. CASE Create(d)
  BY <1>1 DEF Create, IInv, TypeOK, QueueHolds, DeletionHolds, WorkerHolds, CreationHolds, TmpHolds, ReadyIsServable,
    Packing, Exists, SetRow, At, Goto, api, disk
<1>2. CASE DropJob(d)
  BY <1>2 DEF DropJob, IInv, TypeOK, QueueHolds, DeletionHolds, WorkerHolds, CreationHolds, TmpHolds, ReadyIsServable,
    Packing, Exists, SetRow, At, Goto, api, disk
<1>3. CASE Enqueue(d)
  BY <1>3, DownloadsAssumption DEF DownloadsAssumption, Enqueue, IInv, TypeOK, QueueHolds, DeletionHolds, WorkerHolds, CreationHolds, TmpHolds, ReadyIsServable,
    Packing, Exists, SetRow, At, Goto, api, disk
<1>4. CASE EnqueueFails(d)
  BY <1>4 DEF EnqueueFails, IInv, TypeOK, QueueHolds, DeletionHolds, WorkerHolds, CreationHolds, TmpHolds, ReadyIsServable,
    Packing, Exists, SetRow, At, Goto, api, disk
<1>5. CASE DeleteRow(d)
  BY <1>5 DEF DeleteRow, IInv, TypeOK, QueueHolds, DeletionHolds, WorkerHolds, CreationHolds, TmpHolds, ReadyIsServable,
    Packing, Exists, SetRow, At, Goto, api, disk
<1>6. CASE RemoveFinal(d)
  BY <1>6 DEF RemoveFinal, IInv, TypeOK, QueueHolds, DeletionHolds, WorkerHolds, CreationHolds, TmpHolds, ReadyIsServable,
    Packing, Exists, SetRow, At, Goto, api, disk
<1>7. CASE RemoveTmp(d)
  BY <1>7 DEF RemoveTmp, IInv, TypeOK, QueueHolds, DeletionHolds, WorkerHolds, CreationHolds, TmpHolds, ReadyIsServable,
    Packing, Exists, SetRow, At, Goto, api, disk
<1>8. QED
  BY <1>1, <1>2, <1>3, <1>4, <1>5, <1>6, <1>7 DEF Api

(* A step of the worker keeps the invariant. *)
LEMMA WorkStep ==
  ASSUME IInv, NEW d \in Downloads, Work(d)
  PROVE  IInv'
<1>1. CASE Take(d)
  BY <1>1 DEF Take, IInv, TypeOK, QueueHolds, DeletionHolds, WorkerHolds, CreationHolds, TmpHolds, ReadyIsServable,
    Packing, Exists, SetRow, At, Goto, api, disk
<1>2. CASE Prepare(d)
  BY <1>2 DEF Prepare, IInv, TypeOK, QueueHolds, DeletionHolds, WorkerHolds, CreationHolds, TmpHolds, ReadyIsServable,
    Packing, Exists, SetRow, At, Goto, api, disk
<1>3. CASE Mark(d)
  BY <1>3 DEF Mark, IInv, TypeOK, QueueHolds, DeletionHolds, WorkerHolds, CreationHolds, TmpHolds, ReadyIsServable,
    Packing, Exists, SetRow, At, Goto, api, disk
<1>4. CASE Pack(d)
  BY <1>4 DEF Pack, IInv, TypeOK, QueueHolds, DeletionHolds, WorkerHolds, CreationHolds, TmpHolds, ReadyIsServable,
    Packing, Exists, SetRow, At, Goto, api, disk
<1>5. CASE PackFails(d)
  BY <1>5 DEF PackFails, IInv, TypeOK, QueueHolds, DeletionHolds, WorkerHolds, CreationHolds, TmpHolds, ReadyIsServable,
    Packing, Exists, SetRow, At, Goto, api, disk
<1>6. CASE Check(d)
  BY <1>6 DEF Check, IInv, TypeOK, QueueHolds, DeletionHolds, WorkerHolds, CreationHolds, TmpHolds, ReadyIsServable,
    Packing, Exists, SetRow, At, Goto, api, disk
<1>7. CASE Swap(d)
  BY <1>7 DEF Swap, IInv, TypeOK, QueueHolds, DeletionHolds, WorkerHolds, CreationHolds, TmpHolds, ReadyIsServable,
    Packing, Exists, SetRow, At, Goto, api, disk
<1>8. CASE Rename(d)
  BY <1>8 DEF Rename, IInv, TypeOK, QueueHolds, DeletionHolds, WorkerHolds, CreationHolds, TmpHolds, ReadyIsServable,
    Packing, Exists, SetRow, At, Goto, api, disk
<1>9. CASE Ready(d)
  BY <1>9 DEF Ready, IInv, TypeOK, QueueHolds, DeletionHolds, WorkerHolds, CreationHolds, TmpHolds, ReadyIsServable,
    Packing, Exists, SetRow, At, Goto, api, disk
<1>10. CASE Complete(d)
  BY <1>10 DEF Complete, IInv, TypeOK, QueueHolds, DeletionHolds, WorkerHolds, CreationHolds, TmpHolds, ReadyIsServable,
    Packing, Exists, SetRow, At, Goto, api, disk
<1>11. CASE Fail(d)
  BY <1>11 DEF Fail, IInv, TypeOK, QueueHolds, DeletionHolds, WorkerHolds, CreationHolds, TmpHolds, ReadyIsServable,
    Packing, Exists, SetRow, At, Goto, api, disk
<1>12. CASE FailRow(d)
  BY <1>12, DownloadsAssumption DEF DownloadsAssumption, FailRow, IInv, TypeOK, QueueHolds, DeletionHolds, WorkerHolds, CreationHolds, TmpHolds, ReadyIsServable,
    Packing, Exists, SetRow, At, Goto, api, disk
<1>13. QED
  BY <1>1, <1>2, <1>3, <1>4, <1>5, <1>6, <1>7, <1>8, <1>9, <1>10, <1>11, <1>12 DEF Work

LEMMA CrashStep ==
  ASSUME IInv, Crash
  PROVE  IInv'
  BY DownloadsAssumption
  DEF Crash, DownloadsAssumption, IInv, TypeOK, QueueHolds, DeletionHolds, WorkerHolds, CreationHolds,
      TmpHolds, ReadyIsServable, Packing, api, disk

(* The inductive invariant holds in every reachable state. *)
THEOREM Invariance == Spec => []IInv
<1>1. ASSUME IInv, [Next]_vars
      PROVE  IInv'
  <2>1. CASE Next
    BY <1>1, <2>1, ApiStep, WorkStep, CrashStep DEF Next
  <2>2. CASE UNCHANGED vars
    BY <1>1, <2>2
    DEF vars, IInv, TypeOK, QueueHolds, DeletionHolds, WorkerHolds, CreationHolds, TmpHolds, ReadyIsServable
  <2>3. QED
    BY <1>1, <2>1, <2>2
<1>2. QED
  BY InitIInv, <1>1, PTL DEF Spec

(* Every variable keeps its type. *)
THEOREM TypeCorrect == Spec => []TypeOK
<1>1. IInv => TypeOK
  BY DEF IInv
<1>2. QED
  BY Invariance, <1>1, PTL

(* A download the API calls READY has its whole artifact in place: the     *)
(* order of mark, rename and ready in processDownload, over crashes,       *)
(* repeated deliveries and a deletion at any point.                        *)
THEOREM ReadyServed == Spec => []ReadyIsServable
<1>1. IInv => ReadyIsServable
  BY DEF IInv
<1>2. QED
  BY Invariance, <1>1, PTL

(* And what is packed is whole: READY artifacts are complete, and as long  *)
(* as no worker dies no attempt leaves a half-packed directory behind.     *)
THEOREM CopiesStayWhole == Spec => []CopiesAreWhole
<1>1. IInv => NoTmpLeft
  BY DEF IInv, TypeOK, TmpHolds, NoTmpLeft
<1>2. IInv => CopiesAreWhole
  BY <1>1 DEF IInv, CopiesAreWhole
<1>3. QED
  BY Invariance, <1>2, PTL

(* No write of the worker or of a handler brings a deleted row back: all   *)
(* of them are updates, which reject on a missing row.                     *)
THEOREM NoResurrection == Spec => DeletedStaysDeleted
<1> DEFINE Kept == \A d \in Downloads : row[d] = "deleted" => row'[d] = "deleted"
<1>1. ASSUME IInv, Next
      PROVE  Kept
  <2>1. CASE Crash
    BY <2>1 DEF Crash
  <2>2. ASSUME NEW d \in Downloads, Create(d) \/ DropJob(d) \/ Api(d) \/ Work(d)
        PROVE  Kept
    BY <1>1, <2>2
    DEF IInv, TypeOK, CreationHolds, Api, Work, Create, DropJob, Enqueue, EnqueueFails,
        DeleteRow, RemoveFinal, RemoveTmp, Take, Prepare, Mark, Pack, PackFails, Check,
        Swap, Rename, Ready, Complete, Fail, FailRow, Exists, SetRow
  <2>3. QED
    BY <1>1, <2>1, <2>2 DEF Next
<1>2. IInv /\ [Next]_vars => [Kept]_vars
  BY <1>1
<1>3. QED
  BY Invariance, <1>2, PTL DEF Spec, DeletedStaysDeleted

-----------------------------------------------------------------------------
(***************************************************************************)
(* ProviderMatch: who is asked again, and for what.                        *)
(***************************************************************************)
JobRecords == [at : Match!JobStates, held : Entries \cup {None}, cached : BOOLEAN,
               id : Entries \cup {None}]

(* An answer comes from a provider that serves it, and is the held entry   *)
(* if the job went to ask for one.                                         *)
JobHolds(p) ==
  jobs[p].at \in {"identity", "evidence", "fields"} =>
    jobs[p].id \in Serves[p] /\ (jobs[p].held # None => jobs[p].id = jobs[p].held)

(* After a first match the rows agree with it once its job is over, and    *)
(* only its own evidence row may ask for a second look; after that nothing *)
(* does, so no job of the provider gets past the fast path.                *)
Counted(p) ==
  /\ answers[p] \in 0..2
  /\ answers[p] # 0 =>
       /\ poster /\ Serves[p] # {}
       /\ jobs[p].at # "identity" => ext[p] # None /\ ~old[p]
       /\ jobs[p].at \in {"evidence", "fields"} => ext[p] = jobs[p].id
       /\ jobs[p].at \notin {"identity", "evidence"} => evid[p] = ext[p]
       /\ jobs[p].at \in {"none", "waiting", "search"} => cache[p][ext[p]] = "fresh"
       /\ jobs[p].at = "search" => jobs[p].held = ext[p]
  /\ answers[p] = 2 =>
       /\ jobs[p].at # "search" /\ ext[p] # None /\ evid[p] = ext[p]
       /\ jobs[p].at = "identity" => ext[p] = jobs[p].id
       /\ jobs[p].at # "identity" => ~news[p]

MatchInv ==
  /\ Match!TypeOK
  /\ \A p \in Match!Providers : JobHolds(p)
  /\ OneServes => \A p \in Match!Providers : Counted(p)

LEMMA InitMatch == Match!Init => MatchInv
<1> SUFFICES ASSUME Match!Init PROVE MatchInv
  OBVIOUS
<1>1. Threshold \in Nat /\ MaxEdits \in Nat
  BY WorkerWorlds DEF Match!MatchAssumption
<1>2. Match!NoJob \in JobRecords /\ Match!NoJob.at = "none"
  BY DEF Match!NoJob, Match!JobStates, JobRecords
<1>3. Match!TypeOK
  <2>1. /\ fails \in [Match!Providers -> 0..Threshold] /\ edits \in 0..MaxEdits
        /\ answers \in [Match!Providers -> 0..3]
    BY <1>1 DEF Match!Init
  <2>2. /\ ext \in [Match!Providers -> Entries \cup {None}] /\ evid \in [Match!Providers -> Entries \cup {None}]
        /\ pinned \in [Match!Providers -> Entries \cup {None}]
        /\ jobs \in [Match!Providers -> JobRecords]
    BY <1>2 DEF Match!Init
  <2>3. /\ news \in [Match!Providers -> BOOLEAN] /\ old \in [Match!Providers -> BOOLEAN]
        /\ cache \in [Match!Providers -> [Entries -> {"none", "fresh", "expired"}]]
    BY DEF Match!Init
  <2>4. backed \in BOOLEAN /\ poster \in BOOLEAN /\ named = Match!Nobody /\ pin = Match!Nobody
    BY DEF Match!Init
  <2> QED  BY <2>1, <2>2, <2>3, <2>4 DEF Match!TypeOK, JobRecords
<1>4. \A p \in Match!Providers : JobHolds(p) /\ Counted(p)
  BY <1>2 DEF Match!Init, JobHolds, Counted
<1> QED  BY <1>3, <1>4 DEF MatchInv

(* A job waits where there was none, or is as it was. *)
Waits(q) == jobs'[q] = jobs[q] \/ (jobs[q].at = "none" /\ jobs'[q].at = "waiting")

LEMMA ChainFits ==
  /\ Chain[1] \in Match!Providers
  /\ \A p \in Match!Providers : Match!NextInChain(p) # None => Match!NextInChain(p) \in Match!Providers
<1>1. Len(Chain) >= 1 /\ Len(Chain) \in Nat
  BY WorkerWorlds DEF Match!MatchAssumption
<1>2. ASSUME NEW p \in Match!Providers, Match!NextInChain(p) # None
      PROVE  Match!NextInChain(p) \in Match!Providers
  <2> DEFINE k == CHOOSE x \in 1..Len(Chain) : Chain[x] = p
  <2>1. k \in 1..Len(Chain)
    BY DEF Match!Providers
  <2>2. k < Len(Chain) /\ Match!NextInChain(p) = Chain[k + 1]
    BY <1>2 DEF Match!NextInChain
  <2>3. k + 1 \in 1..Len(Chain)
    BY <1>1, <2>1, <2>2
  <2> HIDE DEF k
  <2> QED  BY <2>2, <2>3 DEF Match!Providers
<1> QED  BY <1>1, <1>2 DEF Match!Providers

LEMMA EnqueuedFits ==
  ASSUME NEW js \in [Match!Providers -> JobRecords], NEW p \in Match!Providers
  PROVE  /\ Match!Enqueued(js, p) \in [Match!Providers -> JobRecords]
         /\ \A q \in Match!Providers :
              \/ Match!Enqueued(js, p)[q] = js[q]
              \/ js[q].at = "none" /\ Match!Enqueued(js, p)[q].at = "waiting"
<1>1. [js[p] EXCEPT !.at = "waiting"] \in JobRecords
  <2>1. js[p] \in JobRecords
    OBVIOUS
  <2> QED  BY <2>1 DEF JobRecords, Match!JobStates
<1>2. [js[p] EXCEPT !.at = "waiting"].at = "waiting"
  <2>1. js[p] \in JobRecords
    OBVIOUS
  <2> QED  BY <2>1 DEF JobRecords
<1> QED  BY <1>1, <1>2 DEF Match!Enqueued

(* A job is over, and perhaps the next provider's begins. *)
Over(p) ==
  LET js == [jobs EXCEPT ![p] = Match!NoJob]
  IN  \/ jobs' = js
      \/ Match!NextInChain(p) # None /\ jobs' = Match!Enqueued(js, Match!NextInChain(p))

LEMMA EndedFits ==
  ASSUME Match!TypeOK, NEW p \in Match!Providers, Over(p)
  PROVE  /\ jobs' \in [Match!Providers -> JobRecords]
         /\ jobs'[p].at \in {"none", "waiting"}
         /\ \A q \in Match!Providers \ {p} : Waits(q)
<1> DEFINE js == [jobs EXCEPT ![p] = Match!NoJob]
<1>1. Match!NoJob \in JobRecords /\ Match!NoJob.at = "none"
  BY DEF Match!NoJob, Match!JobStates, JobRecords
<1>2. /\ js \in [Match!Providers -> JobRecords] /\ js[p].at = "none"
      /\ \A q \in Match!Providers \ {p} : js[q] = jobs[q]
  BY <1>1 DEF Match!TypeOK, JobRecords
<1>3. CASE jobs' = js
  BY <1>2, <1>3 DEF Waits
<1>4. CASE Match!NextInChain(p) # None /\ jobs' = Match!Enqueued(js, Match!NextInChain(p))
  <2>1. Match!NextInChain(p) \in Match!Providers
    BY <1>4, ChainFits
  <2> HIDE DEF js
  <2>2. /\ Match!Enqueued(js, Match!NextInChain(p)) \in [Match!Providers -> JobRecords]
        /\ \A q \in Match!Providers :
              \/ Match!Enqueued(js, Match!NextInChain(p))[q] = js[q]
              \/ js[q].at = "none" /\ Match!Enqueued(js, Match!NextInChain(p))[q].at = "waiting"
    BY <1>2, <2>1, EnqueuedFits
  <2> QED  BY <1>2, <1>4, <2>2 DEF Waits
<1> QED  BY <1>3, <1>4 DEF Over

(* Steps that leave a provider's rows alone keep what holds of it. *)
LEMMA JobsKept ==
  ASSUME NEW q \in Match!Providers, JobHolds(q), Waits(q)
  PROVE  JobHolds(q)'
BY DEF JobHolds, Waits

LEMMA CountKept ==
  ASSUME NEW q \in Match!Providers, Counted(q), Waits(q), UNCHANGED <<ext, news, old, evid, cache, answers>>,
         poster => poster'
  PROVE  Counted(q)'
BY DEF Counted, Waits

LEMMA Forgotten ==
  ASSUME Match!Forget, NEW q \in Match!Providers
  PROVE  Counted(q)'
BY DEF Match!Forget, Counted

(* A provider that serves nothing never writes, so while another's matches *)
(* are counted its job is before its answer.                               *)
LEMMA Silent ==
  ASSUME MatchInv, OneServes, NEW p \in Match!Providers, NEW q \in Match!Providers \ {p}, answers[q] # 0
  PROVE  Serves[p] = {} /\ jobs[p].at \notin {"identity", "evidence", "fields"}
<1>1. Serves[q] # {}
  BY DEF MatchInv, Counted
<1>2. Serves[p] = {}
  BY <1>1 DEF OneServes
<1> QED  BY <1>2 DEF MatchInv, JobHolds

(* Sweep and scan. *)
LEMMA EnqueueStep ==
  ASSUME MatchInv, Match!Sweep \/ Match!Scan
  PROVE  MatchInv'
<1>1. jobs \in [Match!Providers -> JobRecords] /\ Chain[1] \in Match!Providers
  BY ChainFits DEF MatchInv, Match!TypeOK, JobRecords
<1>2. jobs' = jobs \/ jobs' = Match!Enqueued(jobs, Chain[1])
  BY DEF Match!Sweep, Match!Scan
<1>3. jobs' \in [Match!Providers -> JobRecords] /\ \A q \in Match!Providers : Waits(q)
  BY <1>1, <1>2, EnqueuedFits DEF Waits
<1>4. UNCHANGED <<ext, news, old, evid, answers, cache, backed, named, poster, pin, edits, pinned>>
  BY DEF Match!Sweep, Match!Scan, Match!item, Match!user
<1>5. fails' \in [Match!Providers -> 0..Threshold]
  <2>1. Threshold \in Nat
    BY WorkerWorlds DEF Match!MatchAssumption
  <2> QED  BY <2>1 DEF Match!Sweep, Match!Scan, MatchInv, Match!TypeOK
<1>6. Match!TypeOK'
  BY <1>3, <1>4, <1>5 DEF MatchInv, Match!TypeOK, JobRecords
<1>7. \A q \in Match!Providers : JobHolds(q)' /\ (OneServes => Counted(q)')
  BY <1>3, <1>4, JobsKept, CountKept DEF MatchInv
<1> QED  BY <1>6, <1>7 DEF MatchInv, OneServes

(* The clock, the disk and what ingest records: the count begins again. *)
LEMMA ChangeStep ==
  ASSUME MatchInv, Match!Tick \/ Match!LocalEvidence \/ Match!LosePoster
  PROVE  MatchInv'
<1>1. Match!Forget /\ UNCHANGED <<ext, evid, named, jobs, fails, pin, edits, pinned>>
  BY DEF Match!Tick, Match!LocalEvidence, Match!LosePoster, Match!user
<1>2. cache' \in [Match!Providers -> [Entries -> {"none", "fresh", "expired"}]]
  BY DEF Match!Tick, Match!LocalEvidence, Match!LosePoster, MatchInv, Match!TypeOK
<1>3. /\ news' \in [Match!Providers -> BOOLEAN] /\ old' \in [Match!Providers -> BOOLEAN]
      /\ backed' \in BOOLEAN /\ poster' \in BOOLEAN
  BY DEF Match!Tick, Match!LocalEvidence, Match!LosePoster, MatchInv, Match!TypeOK
<1>4. answers' \in [Match!Providers -> 0..3]
  BY <1>1 DEF Match!Forget
<1>5. Match!TypeOK'
  BY <1>1, <1>2, <1>3, <1>4 DEF MatchInv, Match!TypeOK
<1>6. \A q \in Match!Providers : JobHolds(q)' /\ Counted(q)'
  BY <1>1, JobsKept, Forgotten DEF MatchInv, Waits
<1> QED  BY <1>5, <1>6 DEF MatchInv, OneServes

(* A user's pin or unpin. *)
LEMMA EditStep ==
  ASSUME MatchInv,
         \/ Match!PinEvidence
         \/ \E p \in Match!Providers : Match!Unpin(p) \/ \E i \in Entries : Match!PinIdentity(p, i)
  PROVE  MatchInv'
<1>1. Match!Forget
  BY DEF Match!PinEvidence, Match!Unpin, Match!PinIdentity
<1>2. answers' \in [Match!Providers -> 0..3]
  BY <1>1 DEF Match!Forget
<1>3. jobs \in [Match!Providers -> JobRecords]
  BY DEF MatchInv, Match!TypeOK, JobRecords
<1>4. CASE Match!PinEvidence
  <2>1. pin \in Match!Providers \X Entries
    BY <1>4 DEF Match!PinEvidence, MatchInv, Match!TypeOK
  <2>2. pin[1] \in Match!Providers /\ pin[2] \in Entries
    BY <2>1
  <2>3. jobs' \in [Match!Providers -> JobRecords] /\ \A q \in Match!Providers : Waits(q)
    BY <1>3, <1>4, <2>2, EnqueuedFits DEF Match!PinEvidence, Waits
  <2>4. evid' \in [Match!Providers -> Entries \cup {None}] /\ news' \in [Match!Providers -> BOOLEAN]
    BY <1>4, <2>2 DEF Match!PinEvidence, Match!SyncEvidence, MatchInv, Match!TypeOK
  <2>5. UNCHANGED <<ext, old, fails, edits, pinned, cache, backed, named, poster>> /\ pin' = Match!Nobody
    BY <1>4 DEF Match!PinEvidence, Match!item
  <2>6. Match!TypeOK'
    BY <1>2, <2>3, <2>4, <2>5 DEF MatchInv, Match!TypeOK, JobRecords
  <2>7. \A q \in Match!Providers : JobHolds(q)' /\ Counted(q)'
    BY <1>1, <2>3, JobsKept, Forgotten DEF MatchInv
  <2> QED  BY <2>6, <2>7 DEF MatchInv, OneServes
<1>5. ASSUME NEW p \in Match!Providers, Match!Unpin(p) \/ \E i \in Entries : Match!PinIdentity(p, i)
      PROVE  MatchInv'
  <2>1. /\ UNCHANGED <<fails, jobs, cache, backed, named, poster>>
        /\ evid' = evid \/ evid' = [evid EXCEPT ![p] = None]
    BY <1>5 DEF Match!Unpin, Match!PinIdentity, Match!item
  <2>2. edits' \in 0..MaxEdits
    <3>1. edits \in 0..MaxEdits /\ edits < MaxEdits /\ edits' = edits + 1
      BY <1>5 DEF Match!Unpin, Match!PinIdentity, MatchInv, Match!TypeOK
    <3>2. MaxEdits \in Nat
      BY WorkerWorlds DEF Match!MatchAssumption
    <3> QED  BY <3>1, <3>2
  <2>3. /\ ext' \in [Match!Providers -> Entries \cup {None}]
        /\ pinned' \in [Match!Providers -> Entries \cup {None}]
        /\ news' \in [Match!Providers -> BOOLEAN] /\ old' \in [Match!Providers -> BOOLEAN]
        /\ pin' \in (Match!Providers \X Entries) \cup {Match!Nobody}
    <3>1. CASE Match!Unpin(p)
      BY <3>1 DEF Match!Unpin, Match!user, MatchInv, Match!TypeOK
    <3>2. ASSUME NEW i \in Entries, Match!PinIdentity(p, i)
          PROVE  /\ ext' \in [Match!Providers -> Entries \cup {None}]
                 /\ pinned' \in [Match!Providers -> Entries \cup {None}]
                 /\ news' \in [Match!Providers -> BOOLEAN] /\ old' \in [Match!Providers -> BOOLEAN]
                 /\ pin' \in (Match!Providers \X Entries) \cup {Match!Nobody}
      BY <3>2 DEF Match!PinIdentity, MatchInv, Match!TypeOK
    <3> QED  BY <1>5, <3>1, <3>2
  <2>4. Match!TypeOK'
    BY <1>2, <2>1, <2>2, <2>3 DEF MatchInv, Match!TypeOK
  <2>5. \A q \in Match!Providers : JobHolds(q)' /\ Counted(q)'
    BY <1>1, <2>1, JobsKept, Forgotten DEF MatchInv, Waits
  <2> QED  BY <2>4, <2>5 DEF MatchInv, OneServes
<1> QED  BY <1>4, <1>5

(* A job is taken: by the fast path it ends, and a provider whose matches  *)
(* were counted twice has nothing that could keep it from that path.       *)
LEMMA TakeStep ==
  ASSUME MatchInv, NEW p \in Match!Providers, Match!Take(p)
  PROVE  MatchInv'
<1>1. /\ jobs[p].at = "waiting"
      /\ UNCHANGED <<ext, news, old, evid, answers, cache, backed, named, poster, pin, edits, pinned>>
  BY DEF Match!Take, Match!item, Match!user
<1>2. Match!TypeOK /\ jobs[p] \in JobRecords
  BY DEF MatchInv, Match!TypeOK, JobRecords
<1>3. CASE Match!FastPath(p)
  <2>1. jobs' = Match!Ended(p, TRUE) /\ fails' = [fails EXCEPT ![p] = 0]
    BY <1>3 DEF Match!Take
  <2>2. /\ jobs' \in [Match!Providers -> JobRecords] /\ jobs'[p].at \in {"none", "waiting"}
        /\ \A q \in Match!Providers \ {p} : Waits(q)
    <3>1. Over(p)
      BY <2>1 DEF Match!Ended, Over
    <3> QED  BY <1>2, <3>1, EndedFits
  <2>3. fails' \in [Match!Providers -> 0..Threshold]
    <3>1. Threshold \in Nat
      BY WorkerWorlds DEF Match!MatchAssumption
    <3> QED  BY <1>2, <2>1, <3>1 DEF Match!TypeOK
  <2>4. Match!TypeOK'
    BY <1>1, <1>2, <2>2, <2>3 DEF Match!TypeOK, JobRecords
  <2>5. \A q \in Match!Providers : JobHolds(q)'
    BY <2>2, JobsKept DEF MatchInv, JobHolds
  <2>6. ASSUME OneServes, NEW q \in Match!Providers PROVE Counted(q)'
    <3>1. CASE q = p
      BY <1>1, <2>2, <2>6, <3>1 DEF MatchInv, Counted
    <3>2. CASE q # p
      BY <1>1, <2>2, <2>6, <3>2, CountKept DEF MatchInv
    <3> QED  BY <3>1, <3>2
  <2> QED  BY <2>4, <2>5, <2>6 DEF MatchInv, OneServes
<1>4. CASE ~Match!FastPath(p)
  <2> DEFINE r == [at |-> "search", held |-> ext[p], id |-> None,
                   cached |-> ext[p] # None /\ cache[p][ext[p]] # "none"]
  <2>1. jobs' = [jobs EXCEPT ![p] = r] /\ UNCHANGED fails
    BY <1>4 DEF Match!Take
  <2>2. r \in JobRecords /\ r.at = "search" /\ r.held = ext[p]
    BY <1>2 DEF Match!TypeOK, JobRecords, Match!JobStates
  <2> HIDE DEF r
  <2>3. /\ jobs' \in [Match!Providers -> JobRecords] /\ jobs'[p] = r
        /\ \A q \in Match!Providers \ {p} : jobs'[q] = jobs[q]
    BY <1>2, <2>1, <2>2 DEF Match!TypeOK, JobRecords
  <2>4. Match!TypeOK'
    BY <1>1, <1>2, <2>1, <2>3 DEF Match!TypeOK, JobRecords
  <2>5. \A q \in Match!Providers : JobHolds(q)'
    BY <2>2, <2>3, JobsKept DEF MatchInv, JobHolds, Waits
  <2>6. ASSUME OneServes, NEW q \in Match!Providers PROVE Counted(q)'
    <3>1. CASE q = p
      <4>1. Counted(p)
        BY <2>6 DEF MatchInv
      <4>2. answers[p] # 2
        BY <1>1, <1>4, <4>1 DEF Counted, Match!FastPath, Match!DueForSelfHealing
      <4> QED  BY <1>1, <2>2, <2>3, <3>1, <4>1, <4>2 DEF Counted
    <3>2. CASE q # p
      BY <1>1, <2>3, <2>6, <3>2, CountKept DEF MatchInv, Waits
    <3> QED  BY <3>1, <3>2
  <2> QED  BY <2>4, <2>5, <2>6 DEF MatchInv, OneServes
<1> QED  BY <1>3, <1>4

(* What a provider answers with it serves, and a held entry is answered    *)
(* with itself.                                                            *)
LEMMA AnswerStep ==
  ASSUME MatchInv, NEW p \in Match!Providers, Match!Answers(p)
  PROVE  MatchInv'
<1>1. /\ jobs[p].at = "search"
      /\ UNCHANGED <<ext, news, old, evid, fails, cache, backed, named, poster, pin, edits, pinned>>
  BY DEF Match!Answers, Match!item, Match!user
<1>2. Match!TypeOK /\ jobs[p] \in JobRecords
  BY DEF MatchInv, Match!TypeOK, JobRecords
<1>3. PICK i \in Match!Accepted(p, jobs[p].held) :
        /\ jobs' = [jobs EXCEPT ![p].at = "identity", ![p].id = i]
        /\ answers' = [answers EXCEPT ![p] = IF poster /\ @ < 3 THEN @ + 1 ELSE @]
  BY DEF Match!Answers
<1>4. i \in Serves[p] /\ i \in Entries /\ (jobs[p].held # None => i = jobs[p].held)
  BY WorkerWorlds DEF Match!MatchAssumption, Match!Accepted
<1>5. /\ jobs' \in [Match!Providers -> JobRecords] /\ jobs'[p].at = "identity" /\ jobs'[p].id = i
      /\ jobs'[p].held = jobs[p].held /\ \A q \in Match!Providers \ {p} : jobs'[q] = jobs[q]
  <2> DEFINE r == [[jobs[p] EXCEPT !.at = "identity"] EXCEPT !.id = i]
  <2>1. r \in JobRecords /\ r.at = "identity" /\ r.id = i /\ r.held = jobs[p].held
    BY <1>2, <1>4 DEF JobRecords, Match!JobStates
  <2>2. jobs' = [jobs EXCEPT ![p] = r]
    BY <1>2, <1>3 DEF Match!TypeOK
  <2> HIDE DEF r
  <2> QED  BY <1>2, <2>1, <2>2 DEF Match!TypeOK, JobRecords
<1>6. /\ answers' \in [Match!Providers -> 0..3] /\ \A q \in Match!Providers \ {p} : answers'[q] = answers[q]
      /\ answers'[p] = (IF poster /\ answers[p] < 3 THEN answers[p] + 1 ELSE answers[p])
  BY <1>2, <1>3 DEF Match!TypeOK
<1>7. Match!TypeOK'
  BY <1>1, <1>2, <1>5, <1>6 DEF Match!TypeOK, JobRecords
<1>8. \A q \in Match!Providers : JobHolds(q)'
  BY <1>4, <1>5, JobsKept DEF MatchInv, JobHolds, Waits
<1>9. ASSUME OneServes, NEW q \in Match!Providers PROVE Counted(q)'
  <2>1. CASE q = p
    <3>1. Counted(p)
      BY <1>9 DEF MatchInv
    <3>2. answers[p] \in {0, 1}
      BY <1>1, <3>1 DEF Counted
    <3>3. i # None
      BY <1>4, WorkerWorlds DEF Match!MatchAssumption
    <3> QED  BY <1>1, <1>4, <1>5, <1>6, <2>1, <3>1, <3>2, <3>3 DEF Counted
  <2>2. CASE q # p
    BY <1>1, <1>5, <1>6, <1>9, <2>2 DEF MatchInv, Counted
  <2> QED  BY <2>1, <2>2
<1> QED  BY <1>7, <1>8, <1>9 DEF MatchInv, OneServes

(* A miss, an empty poll and an error end the job and match nothing. *)
LEMMA MissStep ==
  ASSUME MatchInv, NEW p \in Match!Providers, Match!Misses(p) \/ Match!Fault(p)
  PROVE  MatchInv'
<1>1. /\ jobs[p].at = "search"
      /\ UNCHANGED <<ext, evid, answers, backed, named, poster, pin, edits, pinned>>
  BY DEF Match!Misses, Match!Fault, Match!NotModified, Match!FailsTransiently, Match!Rejects,
    Match!item, Match!user
<1>2. Match!TypeOK /\ jobs[p] \in JobRecords /\ Threshold \in Nat
  BY WorkerWorlds DEF MatchInv, Match!TypeOK, JobRecords, Match!MatchAssumption
<1>3. Over(p)
  <2>1. CASE Match!Misses(p)
    BY <2>1 DEF Match!Misses, Match!Ended, Over
  <2>2. CASE Match!NotModified(p)
    BY <2>2 DEF Match!NotModified, Match!Ended, Over
  <2>3. CASE Match!FailsTransiently(p)
    BY <2>3 DEF Match!FailsTransiently, Match!Ended, Over
  <2>4. CASE Match!Rejects(p)
    BY <2>4 DEF Match!Rejects, Match!Ended, Over
  <2> QED  BY <2>1, <2>2, <2>3, <2>4 DEF Match!Fault
<1>4. /\ jobs' \in [Match!Providers -> JobRecords] /\ jobs'[p].at \in {"none", "waiting"}
      /\ \A q \in Match!Providers \ {p} : Waits(q)
  BY <1>2, <1>3, EndedFits
<1>5. fails' \in [Match!Providers -> 0..Threshold]
  <2>1. fails \in [Match!Providers -> 0..Threshold]
    BY <1>2 DEF Match!TypeOK
  <2>2. CASE Match!Rejects(p)
    <3>1. (IF fails[p] < Threshold THEN fails[p] + 1 ELSE fails[p]) \in 0..Threshold
      BY <1>2, <2>1
    <3> QED  BY <2>1, <2>2, <3>1 DEF Match!Rejects
  <2>3. CASE Match!Misses(p) \/ Match!NotModified(p) \/ Match!FailsTransiently(p)
    <3>1. fails' = fails \/ fails' = [fails EXCEPT ![p] = 0]
      BY <2>3 DEF Match!Misses, Match!NotModified, Match!FailsTransiently
    <3>2. 0 \in 0..Threshold
      BY <1>2
    <3> QED  BY <2>1, <3>1, <3>2
  <2> QED  BY <2>2, <2>3 DEF Match!Fault
<1>6. news' \in {news, [news EXCEPT ![p] = FALSE]} /\ old' \in {old, [old EXCEPT ![p] = FALSE]}
  BY DEF Match!Misses, Match!Fault, Match!NotModified, Match!FailsTransiently, Match!Rejects, Match!Touched
<1>7. /\ news' \in [Match!Providers -> BOOLEAN] /\ old' \in [Match!Providers -> BOOLEAN]
      /\ news'[p] \in {news[p], FALSE} /\ old'[p] \in {old[p], FALSE}
      /\ \A q \in Match!Providers \ {p} : news'[q] = news[q] /\ old'[q] = old[q]
  BY <1>2, <1>6 DEF Match!TypeOK
<1>8. cache' = cache \/ (jobs[p].held # None /\ cache' = [cache EXCEPT ![p][jobs[p].held] = "fresh"])
  BY DEF Match!Misses, Match!Fault, Match!NotModified, Match!FailsTransiently, Match!Rejects, Match!item
<1>9. /\ cache' \in [Match!Providers -> [Entries -> {"none", "fresh", "expired"}]]
      /\ \A q \in Match!Providers, i \in Entries : cache'[q][i] \in {cache[q][i], "fresh"}
  <2>1. jobs[p].held # None => jobs[p].held \in Entries
    BY <1>2 DEF JobRecords
  <2>2. cache \in [Match!Providers -> [Entries -> {"none", "fresh", "expired"}]]
    BY <1>2 DEF Match!TypeOK
  <2>3. CASE jobs[p].held # None /\ cache' = [cache EXCEPT ![p][jobs[p].held] = "fresh"]
    <3>1. jobs[p].held \in Entries
      BY <2>1, <2>3
    <3>2. cache' = [cache EXCEPT ![p] = [cache[p] EXCEPT ![jobs[p].held] = "fresh"]]
      BY <2>3
    <3>3. [cache[p] EXCEPT ![jobs[p].held] = "fresh"] \in [Entries -> {"none", "fresh", "expired"}]
      BY <2>2
    <3> QED  BY <2>2, <3>1, <3>2, <3>3
  <2> QED  BY <1>8, <2>2, <2>3
<1>10. Match!TypeOK'
  BY <1>1, <1>2, <1>4, <1>5, <1>7, <1>9 DEF Match!TypeOK, JobRecords
<1>11. \A q \in Match!Providers : JobHolds(q)'
  BY <1>4, JobsKept DEF MatchInv, JobHolds
<1>12. ASSUME OneServes, NEW q \in Match!Providers PROVE Counted(q)'
  <2>1. Counted(q) /\ ext[q] \in Entries \cup {None}
    BY <1>2, <1>12 DEF MatchInv, Match!TypeOK
  <2>2. news'[q] => news[q]
    BY <1>2, <1>7 DEF Match!TypeOK
  <2>3. old'[q] => old[q]
    BY <1>2, <1>7 DEF Match!TypeOK
  <2>4. ext[q] # None /\ cache[q][ext[q]] = "fresh" => cache'[q][ext[q]] = "fresh"
    BY <1>9, <2>1
  <2>5. CASE q = p
    BY <1>1, <1>4, <2>1, <2>2, <2>3, <2>4, <2>5 DEF Counted
  <2>6. CASE q # p
    BY <1>1, <1>4, <2>1, <2>2, <2>3, <2>4, <2>6 DEF Counted, Waits
  <2> QED  BY <2>5, <2>6
<1> QED  BY <1>10, <1>11, <1>12 DEF MatchInv, OneServes

(* applyMatch, in its three parts. *)
LEMMA IdentifyStep ==
  ASSUME MatchInv, NEW p \in Match!Providers, Match!Identify(p)
  PROVE  MatchInv'
<1> DEFINE i == jobs[p].id
           a == IF Alternate[p] = None THEN p ELSE Alternate[p]
<1>1. /\ jobs[p].at = "identity" /\ ext' = [ext EXCEPT ![p] = i, ![a] = i]
      /\ news' = [news EXCEPT ![p] = FALSE] /\ old' = [old EXCEPT ![p] = FALSE]
      /\ jobs' = [jobs EXCEPT ![p].at = "evidence"]
      /\ UNCHANGED <<evid, fails, answers, cache, backed, named, poster, pin, edits, pinned>>
  BY DEF Match!Identify, Match!item, Match!user
<1>2. Match!TypeOK /\ jobs[p] \in JobRecords
  BY DEF MatchInv, Match!TypeOK, JobRecords
<1>3. JobHolds(p) /\ i \in Serves[p] /\ i \in Entries /\ i # None
  BY <1>1, WorkerWorlds DEF MatchInv, JobHolds, Match!MatchAssumption
<1>4. a \in Match!Providers
  BY WorkerWorlds DEF Match!MatchAssumption
<1> HIDE DEF a, i
<1>5. /\ ext' \in [Match!Providers -> Entries \cup {None}] /\ ext'[p] = i
      /\ news' \in [Match!Providers -> BOOLEAN] /\ old' \in [Match!Providers -> BOOLEAN]
      /\ ~news'[p] /\ ~old'[p]
  BY <1>1, <1>2, <1>3, <1>4 DEF Match!TypeOK
<1>6. /\ jobs' \in [Match!Providers -> JobRecords] /\ jobs'[p].at = "evidence" /\ jobs'[p].id = jobs[p].id
      /\ jobs'[p].held = jobs[p].held /\ \A q \in Match!Providers \ {p} : jobs'[q] = jobs[q]
  <2> DEFINE r == [jobs[p] EXCEPT !.at = "evidence"]
  <2>1. r \in JobRecords /\ r.at = "evidence" /\ r.id = jobs[p].id /\ r.held = jobs[p].held
    BY <1>2 DEF JobRecords, Match!JobStates
  <2>2. jobs' = [jobs EXCEPT ![p] = r]
    BY <1>1
  <2> HIDE DEF r
  <2> QED  BY <1>2, <2>1, <2>2 DEF Match!TypeOK, JobRecords
<1>7. Match!TypeOK'
  BY <1>1, <1>2, <1>5, <1>6 DEF Match!TypeOK, JobRecords
<1>8. \A q \in Match!Providers : JobHolds(q)'
  BY <1>1, <1>3, <1>6, JobsKept DEF MatchInv, JobHolds, Waits
<1>9. ASSUME OneServes, NEW q \in Match!Providers PROVE Counted(q)'
  <2>1. Counted(q)
    BY <1>9 DEF MatchInv
  <2>2. CASE q = p
    BY <1>1, <1>3, <1>5, <1>6, <2>1, <2>2 DEF Counted, i
  <2>3. CASE q # p
    <3>1. answers[q] = 0
      BY <1>1, <1>9, <2>3, Silent
    <3> QED  BY <1>1, <2>1, <3>1 DEF Counted
  <2> QED  BY <2>2, <2>3
<1> QED  BY <1>7, <1>8, <1>9 DEF MatchInv, OneServes

LEMMA EvidenceStep ==
  ASSUME MatchInv, NEW p \in Match!Providers, Match!AddProviderMatchEvidence(p)
  PROVE  MatchInv'
<1> DEFINE i == jobs[p].id
<1>1. /\ jobs[p].at = "evidence" /\ evid' = [q \in Match!Providers |-> IF q = p THEN i ELSE None]
      /\ news' = IF evid[p] # i THEN [q \in Match!Providers |-> ext[q] # None] ELSE news
      /\ jobs' = [jobs EXCEPT ![p].at = "fields"]
      /\ UNCHANGED <<ext, old, fails, answers, cache, backed, named, poster, pin, edits, pinned>>
  BY DEF Match!AddProviderMatchEvidence, Match!SyncEvidence, Match!Changed, Match!item, Match!user
<1>2. Match!TypeOK /\ jobs[p] \in JobRecords
  BY DEF MatchInv, Match!TypeOK, JobRecords
<1>3. i \in Serves[p] /\ i \in Entries /\ i # None
  BY <1>1, WorkerWorlds DEF MatchInv, JobHolds, Match!MatchAssumption
<1>4. /\ evid' \in [Match!Providers -> Entries \cup {None}] /\ evid'[p] = i
      /\ news' \in [Match!Providers -> BOOLEAN] /\ (evid[p] = i => news' = news)
  BY <1>1, <1>2, <1>3 DEF Match!TypeOK
<1>5. /\ jobs' \in [Match!Providers -> JobRecords] /\ jobs'[p].at = "fields" /\ jobs'[p].id = jobs[p].id
      /\ jobs'[p].held = jobs[p].held /\ \A q \in Match!Providers \ {p} : jobs'[q] = jobs[q]
  <2> DEFINE r == [jobs[p] EXCEPT !.at = "fields"]
  <2>1. r \in JobRecords /\ r.at = "fields" /\ r.id = jobs[p].id /\ r.held = jobs[p].held
    BY <1>2 DEF JobRecords, Match!JobStates
  <2>2. jobs' = [jobs EXCEPT ![p] = r]
    BY <1>1
  <2> HIDE DEF r
  <2> QED  BY <1>2, <2>1, <2>2 DEF Match!TypeOK, JobRecords
<1>6. Match!TypeOK'
  BY <1>1, <1>2, <1>4, <1>5 DEF Match!TypeOK, JobRecords
<1>7. \A q \in Match!Providers : JobHolds(q)'
  BY <1>1, <1>5, JobsKept DEF MatchInv, JobHolds, Waits
<1>8. ASSUME OneServes, NEW q \in Match!Providers PROVE Counted(q)'
  <2>1. Counted(q)
    BY <1>8 DEF MatchInv
  <2>2. CASE q = p
    BY <1>1, <1>4, <1>5, <2>1, <2>2 DEF Counted
  <2>3. CASE q # p
    <3>1. answers[q] = 0
      BY <1>1, <1>8, <2>3, Silent
    <3> QED  BY <1>1, <2>1, <3>1 DEF Counted
  <2> QED  BY <2>2, <2>3
<1> QED  BY <1>6, <1>7, <1>8 DEF MatchInv, OneServes

LEMMA FieldsStep ==
  ASSUME MatchInv, NEW p \in Match!Providers, Match!ApplyFields(p)
  PROVE  MatchInv'
<1> DEFINE i == jobs[p].id
<1>1. /\ jobs[p].at = "fields" /\ named' = <<p, i>> /\ poster' \in {poster, TRUE}
      /\ cache' = [cache EXCEPT ![p][i] = "fresh"] /\ fails' = [fails EXCEPT ![p] = 0]
      /\ jobs' = Match!Ended(p, TRUE)
      /\ UNCHANGED <<ext, news, old, evid, answers, backed, pin, edits, pinned>>
  BY DEF Match!ApplyFields, Match!user
<1>2. Match!TypeOK /\ Threshold \in Nat
  BY WorkerWorlds DEF MatchInv, Match!MatchAssumption
<1>3. i \in Serves[p] /\ i \in Entries /\ i # None
  BY <1>1, WorkerWorlds DEF MatchInv, JobHolds, Match!MatchAssumption
<1>4. /\ jobs' \in [Match!Providers -> JobRecords] /\ jobs'[p].at \in {"none", "waiting"}
      /\ \A q \in Match!Providers \ {p} : Waits(q)
  <2>1. Over(p)
    BY <1>1 DEF Match!Ended, Over
  <2> QED  BY <1>2, <2>1, EndedFits
<1> HIDE DEF i
<1>5. /\ cache' \in [Match!Providers -> [Entries -> {"none", "fresh", "expired"}]] /\ cache'[p][i] = "fresh"
      /\ fails' \in [Match!Providers -> 0..Threshold]
  BY <1>1, <1>2, <1>3 DEF Match!TypeOK
<1>6. poster' \in BOOLEAN /\ (poster => poster') /\ named' \in Match!Providers \X Entries
  BY <1>1, <1>2, <1>3 DEF Match!TypeOK
<1>7. Match!TypeOK'
  BY <1>1, <1>2, <1>4, <1>5, <1>6 DEF Match!TypeOK, JobRecords
<1>8. \A q \in Match!Providers : JobHolds(q)'
  BY <1>4, JobsKept DEF MatchInv, JobHolds
<1>9. ASSUME OneServes, NEW q \in Match!Providers PROVE Counted(q)'
  <2>1. Counted(q)
    BY <1>9 DEF MatchInv
  <2>2. CASE q = p
    BY <1>1, <1>4, <1>5, <1>6, <2>1, <2>2 DEF Counted, i
  <2>3. CASE q # p
    <3>1. answers[q] = 0
      BY <1>1, <1>9, <2>3, Silent
    <3> QED  BY <1>1, <2>1, <3>1 DEF Counted
  <2> QED  BY <2>2, <2>3
<1> QED  BY <1>7, <1>8, <1>9 DEF MatchInv, OneServes

LEMMA MatchStep == MatchInv /\ [Match!Next]_matchvars => MatchInv'
<1> SUFFICES ASSUME MatchInv, [Match!Next]_matchvars PROVE MatchInv'
  OBVIOUS
<1>1. CASE UNCHANGED matchvars
  BY <1>1 DEF matchvars, MatchInv, Match!TypeOK, JobHolds, Counted, OneServes
<1>2. CASE Match!Next
  BY <1>2, EnqueueStep, ChangeStep, EditStep, TakeStep, AnswerStep, MissStep, IdentifyStep, EvidenceStep,
    FieldsStep DEF Match!Next, Match!Work, Match!Step
<1> QED  BY <1>1, <1>2

(* The match world is moved by the actions of its module and no others. *)
LEMMA MatchMoves == [SuiteNext]_allvars => [Match!Next]_matchvars
<1> SUFFICES ASSUME [SuiteNext]_allvars PROVE Match!Next \/ UNCHANGED matchvars
  OBVIOUS
<1>1. CASE UNCHANGED allvars
  BY <1>1 DEF allvars
<1>2. CASE CopyOnly \/ TitlesOnly \/ TreeOnly
  BY <1>2 DEF CopyOnly, TitlesOnly, TreeOnly
<1>3. CASE Match!Sweep \/ Match!Scan \/ Match!PinEvidence \/ Match!Tick \/ Match!LocalEvidence \/ Match!LosePoster
  BY <1>3 DEF Match!Next
<1>4. ASSUME NEW p \in Match!Providers,
             \/ Match!Step(p) \/ Match!Answers(p) \/ Match!Fault(p) \/ Match!Unpin(p)
             \/ \E i \in Entries : Match!PinIdentity(p, i)
      PROVE  Match!Next
  BY <1>4 DEF Match!Next, Match!Work
<1> QED  BY <1>1, <1>2, <1>3, <1>4 DEF SuiteNext, Pinnable, Match!Step, Match!Fault

(* A held id is never contested again, and between two changes the only    *)
(* provider that serves an item is asked for its match at most twice.      *)
THEOREM MatchesStaySteady == SuiteSpec => []MatchesAreSteady
<1>1. SuiteInit => MatchInv
  BY InitMatch DEF SuiteInit
<1>2. MatchInv /\ [SuiteNext]_allvars => MatchInv'
  BY MatchMoves, MatchStep
<1>3. MatchInv => MatchesAreSteady
  BY DEF MatchInv, JobHolds, Counted, MatchesAreSteady, Match!HeldIdIsKept, Match!AskedTwiceAtMost
<1> QED  BY <1>1, <1>2, <1>3, PTL DEF SuiteSpec

-----------------------------------------------------------------------------
(***************************************************************************)
(* The titles of episodes, of two metadata jobs: a source that throws is   *)
(* left alone for the back-off, and no episode gets another one's title.   *)
(***************************************************************************)
Names   == {"primary", "cour", "maze", "chain"}
Early   == {"primary", "ask", "merge", "walk"}
RunRecs == [at : {"off", "cours", "fill", "write"} \cup Early, due : BOOLEAN,
            lists : Seq(SUBSET Titles!Entry)]
ListRow == [age : {"none", "fresh", "expired"}, eps : SUBSET Titles!Entry]

TitlesTypes ==
  /\ dead \in DeadSets /\ aired \subseteq Late /\ stamped \in BOOLEAN /\ rested \in BOOLEAN
  /\ titled \in [Titles!Sources -> ListRow] /\ shown \in [Locals -> Nat \X Nat]
  /\ run \in [{"r1", "r2"} -> RunRecs] /\ epAsked \in [Names -> 0..5]
  /\ \A r \in {"r1", "r2"} : run[r].at = "merge" => Len(run[r].lists) = 1

(* A run that may still ask x although the stamp is set, and one that has   *)
(* passed the place where it would set it first: the window it read no     *)
(* stamp in is over.                                                       *)
MayAsk(o, x) ==
  \/ x = "primary" /\ (o.at = "ask" \/ (o.due /\ o.at = "primary"))
  \/ x = "chain" /\ o.due /\ o.at \in Early
  \/ x = "cour" /\ (o.at = "cours" \/ (o.due /\ o.at \in Early))
  \/ x = "maze" /\ o.due /\ o.at \in Early \cup {"cours", "fill"}
HasPassed(o, x) ==
  \/ x = "primary" /\ o.at = "ask"
  \/ x = "cour" /\ o.at = "cours"
  \/ x = "maze" /\ o.due /\ o.at \in {"cours", "fill"} /\ Titles!Gaps(o.lists) # {}

(* How often the job whose run is o may ask x in what is left of the window. *)
Left(set, o, x) ==
  IF set THEN IF MayAsk(o, x) THEN 1 ELSE 0
  ELSE IF HasPassed(o, x) THEN 2 ELSE 1

AskedRarely ==
  /\ "primary" \in dead => titled["primary"].age = "none"
  /\ \A x \in dead :
       epAsked[x] + Left(stamped, run["r1"], x) + Left(stamped, run["r2"], x) <= 4

(* What is cached, what a run holds and what is shown is right. *)
AllRight ==
  /\ \A s \in Titles!Sources : titled[s] = Titles!NoRow \/ Titles!Right(titled[s].eps)
  /\ \A r \in {"r1", "r2"} : \A i \in 1..Len(run[r].lists) : Titles!Right(run[r].lists[i])
  /\ \A l \in Locals : shown[l] \in {Titles!Untitled, l}

TitlesInv == TitlesTypes /\ AskedRarely /\ (Titles!SourcesAreRight => AllRight)

-----------------------------------------------------------------------------
LEMMA TwoRuns == Titles!Cap = 5 /\ Titles!Cardinality({"r1", "r2"}) = 2
<1>1. Cardinality({"r1"}) = 1 /\ IsFiniteSet({"r1"})
  BY FS_Singleton
<1>2. Cardinality({"r1"} \cup {"r2"}) = 2
  BY <1>1, FS_AddElement
<1>3. {"r1"} \cup {"r2"} = {"r1", "r2"}
  OBVIOUS
<1>4. Cardinality({"r1", "r2"}) = 2
  BY <1>2, <1>3, Zenon
<1>5. \A S : Titles!Cardinality(S) = Cardinality(S)
  BY DEF Titles!Cardinality, Cardinality
<1>6. Titles!Cardinality({"r1", "r2"}) = 2
  BY <1>4, <1>5, Zenon
<1> QED  BY <1>6 DEF Titles!Cap

LEMMA DeadAreNames == dead \in DeadSets => dead \subseteq Names
  BY WorkerWorlds DEF Titles!TitlesAssumption, Names

LEMMA LeftIs ==
  ASSUME NEW set, NEW o, NEW x
  PROVE  /\ Left(set, o, x) \in {0, 1, 2}
         /\ Left(TRUE, o, x) <= Left(set, o, x)
  BY DEF Left, MayAsk, HasPassed

LEMMA InitTitles == Titles!Init => TitlesInv
<1> SUFFICES ASSUME Titles!Init PROVE TitlesInv
  OBVIOUS
<1> USE DEF Titles!Init
<1>1. Titles!Off \in RunRecs /\ Titles!Off.lists = <<>> /\ Titles!Off.at = "off"
  BY DEF Titles!Off, RunRecs, Early
<1>2. Titles!NoRow \in ListRow /\ Titles!NoRow.age = "none"
  BY DEF Titles!NoRow, ListRow
<1>3. TitlesTypes
  <2>1. titled \in [Titles!Sources -> ListRow]
    BY <1>2
  <2>2. shown \in [Locals -> Nat \X Nat]
    BY DEF Titles!Untitled
  <2>3. run \in [{"r1", "r2"} -> RunRecs] /\ \A r \in {"r1", "r2"} : run[r].at # "merge"
    BY <1>1
  <2>4. epAsked \in [Names -> 0..5]
    BY DEF Names, Titles!Sources
  <2> QED  BY <2>1, <2>2, <2>3, <2>4 DEF TitlesTypes
<1>4. AskedRarely
  <2>1. \A x : Left(FALSE, Titles!Off, x) = 1
    BY <1>1 DEF Left, HasPassed
  <2>2. \A x \in dead : epAsked[x] = 0
    BY DeadAreNames DEF Names, Titles!Sources
  <2>3. run["r1"] = Titles!Off /\ run["r2"] = Titles!Off /\ titled["primary"].age = "none"
    BY <1>2 DEF Titles!Sources
  <2>4. ASSUME NEW x \in dead
        PROVE  epAsked[x] + Left(stamped, run["r1"], x) + Left(stamped, run["r2"], x) <= 4
    <3>1. Left(stamped, run["r1"], x) = 1 /\ Left(stamped, run["r2"], x) = 1
      BY <2>1, <2>3, Zenon
    <3> QED  BY <2>2, <3>1
  <2> QED  BY <2>3, <2>4 DEF AskedRarely
<1>5. AllRight
  BY <1>1 DEF AllRight
<1> QED  BY <1>3, <1>4, <1>5 DEF TitlesInv

(* Only r moves. *)
Alone(r) == /\ run' \in [{"r1", "r2"} -> RunRecs]
            /\ \A q \in {"r1", "r2"} : q # r => run'[q] = run[q]

(* Where a run goes next. *)
LEMMA RunBecomes ==
  ASSUME TitlesTypes, NEW r \in {"r1", "r2"}
  PROVE  /\ \A at \in {"cours", "fill", "write"} \cup Early : Titles!Goto(r, at) =>
              /\ Alone(r) /\ rested' = rested
              /\ run'[r] = [at |-> at, due |-> run[r].due, lists |-> run[r].lists]
         /\ \A at \in {"cours", "fill", "write"} \cup Early, lists \in Seq(SUBSET Titles!Entry) :
              Titles!With(r, lists, at) =>
                /\ Alone(r) /\ rested' = rested
                /\ run'[r] = [at |-> at, due |-> run[r].due, lists |-> lists]
         /\ Titles!End(r) => Alone(r) /\ rested' \in BOOLEAN /\ run'[r] = Titles!Off
<1>1. run \in [{"r1", "r2"} -> RunRecs] /\ run[r] \in RunRecs /\ rested \in BOOLEAN
  BY DEF TitlesTypes
<1>2. ASSUME NEW at \in {"cours", "fill", "write"} \cup Early, Titles!Goto(r, at)
      PROVE  /\ Alone(r) /\ rested' = rested
             /\ run'[r] = [at |-> at, due |-> run[r].due, lists |-> run[r].lists]
  BY <1>1, <1>2 DEF Titles!Goto, Alone, RunRecs
<1>3. ASSUME NEW at \in {"cours", "fill", "write"} \cup Early, NEW lists \in Seq(SUBSET Titles!Entry),
             Titles!With(r, lists, at)
      PROVE  /\ Alone(r) /\ rested' = rested
             /\ run'[r] = [at |-> at, due |-> run[r].due, lists |-> lists]
  BY <1>1, <1>3 DEF Titles!With, Alone, RunRecs
<1>4. ASSUME Titles!End(r)
      PROVE  Alone(r) /\ rested' \in BOOLEAN /\ run'[r] = Titles!Off
  <2>1. Titles!Off \in RunRecs
    BY DEF Titles!Off, RunRecs
  <2> QED  BY <1>1, <1>4, <2>1 DEF Titles!End, Alone
<1> QED  BY <1>2, <1>3, <1>4

(* The asks of a source are counted. *)
LEMMA AskCounts ==
  ASSUME TitlesTypes, NEW x \in Names, Titles!Ask(x)
  PROVE  /\ epAsked' \in [Names -> 0..5] /\ epAsked'[x] <= epAsked[x] + 1
         /\ \A y \in Names : y # x => epAsked'[y] = epAsked[y]
  BY TwoRuns DEF Titles!Ask, TitlesTypes

(* A run that may ask no more than before has no more left; one that asked  *)
(* where it was has one less.                                               *)
LEMMA LeftFalls ==
  ASSUME NEW set, NEW o, NEW n, NEW x, MayAsk(n, x) => MayAsk(o, x), HasPassed(n, x) => HasPassed(o, x)
  PROVE  /\ Left(set, n, x) <= Left(set, o, x)
         /\ ~MayAsk(n, x) /\ ~HasPassed(n, x) /\ MayAsk(o, x) /\ HasPassed(o, x) =>
              Left(set, n, x) + 1 <= Left(set, o, x)
  BY DEF Left

LEMMA LeftStamped ==
  ASSUME NEW set, NEW later, later, NEW o, NEW n, NEW x, MayAsk(n, x) => MayAsk(o, x)
  PROVE  Left(later, n, x) <= Left(set, o, x)
  BY DEF Left

LEMMA OffAsksNothing == \A x : ~MayAsk(Titles!Off, x) /\ ~HasPassed(Titles!Off, x)
  BY DEF MayAsk, HasPassed, Titles!Off, Early

(* A run moves on: what has to be shown of it, and of the rows. *)
LEMMA RunMoves ==
  ASSUME TitlesInv, NEW r \in {"r1", "r2"}, Alone(r),
         run'[r].at = "merge" => Len(run'[r].lists) = 1,
         UNCHANGED <<dead, aired>>, stamped' \in BOOLEAN, rested' \in BOOLEAN, stamped => stamped',
         titled' \in [Titles!Sources -> ListRow], shown' \in [Locals -> Nat \X Nat],
         epAsked' \in [Names -> 0..5],
         "primary" \in dead => titled'["primary"] = titled["primary"],
         \A x \in dead : epAsked'[x] + Left(stamped', run'[r], x) <= epAsked[x] + Left(stamped, run[r], x),
         (Titles!SourcesAreRight /\ AllRight) =>
           /\ \A s \in Titles!Sources : titled'[s] = Titles!NoRow \/ Titles!Right(titled'[s].eps)
           /\ \A i \in 1..Len(run'[r].lists) : Titles!Right(run'[r].lists[i])
           /\ \A l \in Locals : shown'[l] \in {Titles!Untitled, l}
  PROVE  TitlesInv'
<1>1. (\A q \in {"r1", "r2"} : q # r => run'[q] = run[q]) /\ run' \in [{"r1", "r2"} -> RunRecs]
  BY DEF Alone
<1>2. TitlesTypes'
  BY <1>1 DEF TitlesInv, TitlesTypes
<1>3. AskedRarely'
  <2>1. ASSUME NEW x \in dead
        PROVE  epAsked'[x] + Left(stamped', run'["r1"], x) + Left(stamped', run'["r2"], x) <= 4
    <3>1. ASSUME NEW q \in {"r1", "r2"}, q # r
          PROVE  Left(stamped', run'[q], x) <= Left(stamped, run[q], x)
      <4>1. CASE stamped' = stamped
        <5>1. Left(stamped', run'[q], x) = Left(stamped, run[q], x)
          BY <1>1, <3>1, <4>1
        <5>2. Left(stamped, run[q], x) \in {0, 1, 2}
          BY LeftIs
        <5> QED  BY <5>1, <5>2
      <4>2. CASE stamped' = TRUE
        BY <1>1, <3>1, <4>2, LeftIs
      <4> QED  BY <4>1, <4>2 DEF TitlesInv, TitlesTypes
    <3>2. x \in Names /\ epAsked[x] \in 0..5 /\ epAsked'[x] \in 0..5
      BY DeadAreNames DEF TitlesInv, TitlesTypes
    <3>3. \A q \in {"r1", "r2"} :
            Left(stamped', run'[q], x) \in {0, 1, 2} /\ Left(stamped, run[q], x) \in {0, 1, 2}
      BY LeftIs
    <3>4. epAsked'[x] + Left(stamped', run'[r], x) <= epAsked[x] + Left(stamped, run[r], x)
      BY <1>1
    <3>5. epAsked[x] + Left(stamped, run["r1"], x) + Left(stamped, run["r2"], x) <= 4
      BY DEF TitlesInv, AskedRarely
    <3>6. CASE r = "r1"
      BY <3>1, <3>2, <3>3, <3>4, <3>5, <3>6
    <3>7. CASE r = "r2"
      BY <3>1, <3>2, <3>3, <3>4, <3>5, <3>7
    <3> QED  BY <3>6, <3>7
  <2> QED  BY <2>1 DEF TitlesInv, AskedRarely
<1>4. Titles!SourcesAreRight => AllRight'
  <2> SUFFICES ASSUME Titles!SourcesAreRight PROVE AllRight'
    OBVIOUS
  <2>1. AllRight
    BY DEF TitlesInv
  <2>2. ASSUME NEW q \in {"r1", "r2"}, NEW i \in 1..Len(run'[q].lists)
        PROVE  Titles!Right(run'[q].lists[i])
    <3>1. CASE q = r
      BY <1>1, <2>1, <2>2, <3>1
    <3>2. CASE q # r
      BY <1>1, <2>1, <2>2, <3>2 DEF AllRight
    <3> QED  BY <3>1, <3>2
  <2> QED  BY <2>1, <2>2 DEF AllRight
<1>5. Titles!SourcesAreRight' <=> Titles!SourcesAreRight
  OBVIOUS
<1> QED  BY <1>2, <1>3, <1>4, <1>5 DEF TitlesInv


(* It asks nobody. *)
LEMMA QuietMoves ==
  ASSUME TitlesInv, NEW r \in {"r1", "r2"}, Alone(r),
         run'[r].at = "merge" => Len(run'[r].lists) = 1,
         UNCHANGED <<dead, aired, titled, epAsked>>, stamped' \in BOOLEAN, rested' \in BOOLEAN,
         stamped => stamped', shown' \in [Locals -> Nat \X Nat],
         \A x \in dead : Left(stamped', run'[r], x) <= Left(stamped, run[r], x),
         (Titles!SourcesAreRight /\ AllRight) =>
           /\ \A i \in 1..Len(run'[r].lists) : Titles!Right(run'[r].lists[i])
           /\ \A l \in Locals : shown'[l] \in {Titles!Untitled, l}
  PROVE  TitlesInv'
<1>1. titled' \in [Titles!Sources -> ListRow] /\ epAsked' \in [Names -> 0..5]
  BY DEF TitlesInv, TitlesTypes
<1>2. ASSUME NEW x \in dead
      PROVE  epAsked'[x] + Left(stamped', run'[r], x) <= epAsked[x] + Left(stamped, run[r], x)
  <2>1. epAsked'[x] = epAsked[x] /\ epAsked[x] \in 0..5
    BY DeadAreNames DEF TitlesInv, TitlesTypes
  <2>2. Left(stamped', run'[r], x) \in {0, 1, 2} /\ Left(stamped, run[r], x) \in {0, 1, 2}
    BY LeftIs
  <2>3. Left(stamped', run'[r], x) <= Left(stamped, run[r], x)
    OBVIOUS
  <2> QED  BY <2>1, <2>2, <2>3
<1>3. (Titles!SourcesAreRight /\ AllRight) =>
         \A s \in Titles!Sources : titled'[s] = Titles!NoRow \/ Titles!Right(titled'[s].eps)
  BY DEF AllRight
<1> QED  BY <1>1, <1>2, <1>3, RunMoves

(* What a run and its rows are before it moves. *)
LEMMA RunIs ==
  ASSUME TitlesInv, NEW r \in {"r1", "r2"}
  PROVE  /\ run[r] \in RunRecs /\ run[r].due \in BOOLEAN /\ run[r].lists \in Seq(SUBSET Titles!Entry)
         /\ stamped \in BOOLEAN /\ rested \in BOOLEAN /\ aired \subseteq Late
         /\ dead \subseteq Names
         /\ titled \in [Titles!Sources -> ListRow] /\ shown \in [Locals -> Nat \X Nat]
         /\ epAsked \in [Names -> 0..5]
         /\ \A s \in Titles!Sources : titled[s] \in ListRow /\ titled[s].eps \in SUBSET Titles!Entry
  BY DeadAreNames DEF TitlesInv, TitlesTypes, RunRecs, ListRow

LEMMA BeginStep ==
  ASSUME TitlesInv, NEW r \in {"r1", "r2"}, Titles!Begin(r)
  PROVE  TitlesInv'
<1>1. run' = [run EXCEPT ![r] = [at |-> "primary", due |-> ~stamped, lists |-> <<>>]]
      /\ UNCHANGED <<aired, stamped, titled, shown, epAsked, dead, rested>>
  BY DEF Titles!Begin, Titles!hist
<1>2. Alone(r) /\ run'[r] = [at |-> "primary", due |-> ~stamped, lists |-> <<>>]
  BY <1>1, RunIs DEF Alone, RunRecs, Early, TitlesInv, TitlesTypes
<1>3. ASSUME NEW x \in dead
      PROVE  Left(stamped', run'[r], x) <= Left(stamped, run[r], x)
  <2>1. CASE stamped
    <3>1. run'[r].at = "primary" /\ run'[r].due = ~stamped
      BY <1>2
    <3>2. ~MayAsk(run'[r], x) /\ ~HasPassed(run'[r], x)
      BY <2>1, <3>1 DEF MayAsk, HasPassed, Early
    <3> QED  BY <1>1, <3>2, LeftFalls
  <2>2. CASE ~stamped
    <3>1. ~HasPassed(run'[r], x)
      BY <1>2 DEF HasPassed
    <3> QED  BY <1>1, <2>2, <3>1 DEF Left
  <2> QED  BY <2>1, <2>2
<1>4. (Titles!SourcesAreRight /\ AllRight) =>
           /\ \A i \in 1..Len(run'[r].lists) : Titles!Right(run'[r].lists[i])
           /\ \A l \in Locals : shown'[l] \in {Titles!Untitled, l}
  BY <1>1, <1>2 DEF AllRight
<1>5. run'[r].at # "merge"
  BY <1>2
<1> QED  BY <1>1, <1>2, <1>3, <1>4, <1>5, RunIs, QuietMoves

(* A run that ends. *)
LEMMA OffIs ==
  ASSUME NEW r, run'[r] = Titles!Off
  PROVE  /\ run'[r].at # "merge" /\ run'[r].lists = <<>>
         /\ \A i \in 1..Len(run'[r].lists) : Titles!Right(run'[r].lists[i])
  BY DEF Titles!Off

LEMMA UsePrimaryStep ==
  ASSUME TitlesInv, NEW r \in {"r1", "r2"}, Titles!UsePrimary(r)
  PROVE  TitlesInv'
<1> DEFINE cached == titled["primary"]
<1>1. /\ run[r].at = "primary" /\ UNCHANGED <<dead, aired, titled, shown, epAsked>>
      /\ stamped' = (stamped \/ (cached.age = "none" /\ run[r].due))
  BY DEF Titles!UsePrimary
<1>2. cached \in ListRow /\ cached.eps \in SUBSET Titles!Entry
  BY RunIs DEF Titles!Sources
<1>3. stamped' \in BOOLEAN /\ (stamped => stamped')
  BY <1>1, RunIs
<1>4. (Titles!SourcesAreRight /\ AllRight) => \A l \in Locals : shown'[l] \in {Titles!Untitled, l}
  BY <1>1 DEF AllRight
<1>5. CASE cached.age = "fresh"
  <2>1. <<cached.eps>> \in Seq(SUBSET Titles!Entry) /\ Len(<<cached.eps>>) = 1
    BY <1>2
  <2>2. /\ Alone(r) /\ rested' = rested
        /\ run'[r] = [at |-> "merge", due |-> run[r].due, lists |-> <<cached.eps>>]
    <3>1. Titles!With(r, <<cached.eps>>, "merge")
      BY <1>5 DEF Titles!UsePrimary
    <3> QED  BY <2>1, <3>1, RunBecomes DEF TitlesInv, Early
  <2>3. stamped' = stamped
    BY <1>1, <1>5, RunIs
  <2>4. ASSUME NEW x \in dead
        PROVE  Left(stamped', run'[r], x) <= Left(stamped, run[r], x)
    <3>1. MayAsk(run'[r], x) => MayAsk(run[r], x)
      BY <1>1, <2>2 DEF MayAsk, Early
    <3>2. ~HasPassed(run'[r], x)
      BY <2>2 DEF HasPassed
    <3> QED  BY <2>3, <3>1, <3>2, LeftFalls
  <2>5. (Titles!SourcesAreRight /\ AllRight) =>
          \A i \in 1..Len(run'[r].lists) : Titles!Right(run'[r].lists[i])
    <3> SUFFICES ASSUME AllRight PROVE Titles!Right(cached.eps)
      BY <2>1, <2>2
    <3>1. cached # Titles!NoRow
      BY <1>5 DEF Titles!NoRow
    <3> QED  BY <3>1 DEF AllRight, Titles!Sources
  <2> QED  BY <1>1, <1>3, <1>4, <2>1, <2>2, <2>4, <2>5, RunIs, QuietMoves
<1>6. CASE cached.age = "none" /\ ~run[r].due
  <2>1. Alone(r) /\ rested' \in BOOLEAN /\ run'[r] = Titles!Off
    <3>1. Titles!End(r)
      BY <1>6 DEF Titles!UsePrimary
    <3> QED  BY <3>1, RunBecomes DEF TitlesInv
  <2>2. stamped' = stamped
    BY <1>1, <1>6, RunIs
  <2>3. \A x \in dead : Left(stamped', run'[r], x) <= Left(stamped, run[r], x)
    BY <2>1, <2>2, OffAsksNothing, LeftFalls
  <2> QED  BY <1>1, <1>3, <1>4, <2>1, <2>3, OffIs, RunIs, QuietMoves
<1>7. CASE cached.age # "fresh" /\ ~(cached.age = "none" /\ ~run[r].due)
  <2>1. /\ Alone(r) /\ rested' = rested
        /\ run'[r] = [at |-> "ask", due |-> run[r].due, lists |-> run[r].lists]
    <3>1. Titles!Goto(r, "ask")
      BY <1>7 DEF Titles!UsePrimary
    <3> QED  BY <3>1, RunBecomes DEF TitlesInv, Early
  <2>2. ASSUME NEW x \in dead
        PROVE  Left(stamped', run'[r], x) <= Left(stamped, run[r], x)
    <3>1. CASE cached.age = "none"
      <4>1. stamped' = TRUE /\ run[r].due
        BY <1>1, <1>7, <3>1
      <4>2. MayAsk(run'[r], x) => MayAsk(run[r], x)
        BY <1>1, <2>1, <4>1 DEF MayAsk, Early
      <4> QED  BY <4>1, <4>2, LeftStamped
    <3>2. CASE cached.age # "none"
      <4>1. stamped' = stamped
        BY <1>1, <3>2, RunIs
      <4>2. x # "primary"
        BY <3>2 DEF TitlesInv, AskedRarely
      <4>3. MayAsk(run'[r], x) => MayAsk(run[r], x)
        BY <1>1, <2>1, <4>2 DEF MayAsk, Early
      <4>4. ~HasPassed(run'[r], x)
        BY <2>1, <4>2 DEF HasPassed
      <4> QED  BY <4>1, <4>3, <4>4, LeftFalls
    <3> QED  BY <3>1, <3>2
  <2>3. run'[r].at # "merge" /\ run'[r].lists = run[r].lists
    BY <2>1
  <2>4. (Titles!SourcesAreRight /\ AllRight) =>
          \A i \in 1..Len(run'[r].lists) : Titles!Right(run'[r].lists[i])
    BY <2>3 DEF AllRight
  <2> QED  BY <1>1, <1>3, <1>4, <2>1, <2>2, <2>3, <2>4, RunIs, QuietMoves
<1> QED  BY <1>5, <1>6, <1>7


(* It asks x: that is counted, and it had that much left. *)
LEMMA AskMoves ==
  ASSUME TitlesInv, NEW r \in {"r1", "r2"}, NEW x \in Names, Titles!Ask(x), Alone(r),
         run'[r].at = "merge" => Len(run'[r].lists) = 1,
         UNCHANGED <<dead, aired, shown>>, stamped' \in BOOLEAN, rested' \in BOOLEAN,
         stamped => stamped',
         titled' \in [Titles!Sources -> ListRow],
         "primary" \in dead => titled'["primary"] = titled["primary"],
         x \in dead => Left(stamped', run'[r], x) + 1 <= Left(stamped, run[r], x),
         \A y \in dead : y # x => Left(stamped', run'[r], y) <= Left(stamped, run[r], y),
         (Titles!SourcesAreRight /\ AllRight) =>
           /\ \A s \in Titles!Sources : titled'[s] = Titles!NoRow \/ Titles!Right(titled'[s].eps)
           /\ \A i \in 1..Len(run'[r].lists) : Titles!Right(run'[r].lists[i])
  PROVE  TitlesInv'
<1>1. /\ epAsked' \in [Names -> 0..5] /\ epAsked'[x] <= epAsked[x] + 1
      /\ \A y \in Names : y # x => epAsked'[y] = epAsked[y]
  BY AskCounts DEF TitlesInv
<1>2. ASSUME NEW y \in dead
      PROVE  epAsked'[y] + Left(stamped', run'[r], y) <= epAsked[y] + Left(stamped, run[r], y)
  <2>1. y \in Names /\ epAsked[y] \in 0..5 /\ epAsked'[y] \in 0..5
    BY <1>1, RunIs
  <2>2. Left(stamped', run'[r], y) \in {0, 1, 2} /\ Left(stamped, run[r], y) \in {0, 1, 2}
    BY LeftIs
  <2>3. CASE y = x
    BY <1>1, <2>1, <2>2, <2>3
  <2>4. CASE y # x
    <3>1. Left(stamped', run'[r], y) <= Left(stamped, run[r], y) /\ epAsked'[y] = epAsked[y]
      BY <1>1, <2>1, <2>4
    <3> QED  BY <2>1, <2>2, <3>1
  <2> QED  BY <2>3, <2>4
<1>3. shown' \in [Locals -> Nat \X Nat]
  BY RunIs
<1>4. (Titles!SourcesAreRight /\ AllRight) => \A l \in Locals : shown'[l] \in {Titles!Untitled, l}
  BY DEF AllRight
<1> QED  BY <1>1, <1>2, <1>3, <1>4, RunMoves

(* What a source that is asked answers. *)
LEMMA AnswersAre ==
  /\ TitlesInv => /\ Titles!OnAir(Primary) \in SUBSET Titles!Entry
                  /\ Titles!OnAir(Maze) \in SUBSET Titles!Entry
                  /\ \A S \in SUBSET DOMAIN Cours :
                       UNION {Titles!OnAir(Cours[s]) : s \in S} \in SUBSET Titles!Entry
  /\ TitlesInv /\ Titles!SourcesAreRight =>
       /\ Titles!Right(Titles!OnAir(Primary)) /\ Titles!Right(Titles!OnAir(Maze))
       /\ \A S \in SUBSET DOMAIN Cours : Titles!Right(UNION {Titles!OnAir(Cours[s]) : s \in S})
<1>1. ASSUME TitlesInv
      PROVE  /\ Titles!OnAir(Primary) \in SUBSET Titles!Entry
             /\ Titles!OnAir(Maze) \in SUBSET Titles!Entry
             /\ \A S \in SUBSET DOMAIN Cours :
                  UNION {Titles!OnAir(Cours[s]) : s \in S} \in SUBSET Titles!Entry
  BY WorkerWorlds DEF Titles!TitlesAssumption, Titles!OnAir, Titles!Since
<1>2. ASSUME TitlesInv, Titles!SourcesAreRight
      PROVE  /\ Titles!Right(Titles!OnAir(Primary)) /\ Titles!Right(Titles!OnAir(Maze))
             /\ \A S \in SUBSET DOMAIN Cours :
                  Titles!Right(UNION {Titles!OnAir(Cours[s]) : s \in S})
  BY <1>2 DEF Titles!SourcesAreRight, Titles!OnAir, TitlesInv, TitlesTypes
<1> QED  BY <1>1, <1>2

(* The row of an answer. *)
LEMMA RowIsSet ==
  ASSUME TitlesInv, NEW x \in Titles!Sources, NEW eps \in SUBSET Titles!Entry,
         titled' = [titled EXCEPT ![x] = [age |-> "fresh", eps |-> eps]]
  PROVE  /\ titled' \in [Titles!Sources -> ListRow]
         /\ \A s \in Titles!Sources : s # x => titled'[s] = titled[s]
         /\ AllRight /\ Titles!Right(eps) =>
              \A s \in Titles!Sources : titled'[s] = Titles!NoRow \/ Titles!Right(titled'[s].eps)
<1>1. [age |-> "fresh", eps |-> eps] \in ListRow
  BY DEF ListRow
<1>2. titled' \in [Titles!Sources -> ListRow]
  BY <1>1, RunIs
<1>3. titled'[x].eps = eps /\ \A s \in Titles!Sources : s # x => titled'[s] = titled[s]
  BY RunIs
<1> QED  BY <1>2, <1>3 DEF AllRight

(* Or the rows stay. *)
LEMMA RowsStay ==
  ASSUME TitlesInv, titled' = titled
  PROVE  /\ titled' \in [Titles!Sources -> ListRow]
         /\ AllRight =>
              \A s \in Titles!Sources : titled'[s] = Titles!NoRow \/ Titles!Right(titled'[s].eps)
  BY RunIs DEF AllRight

(* A list more. *)
LEMMA OneMore ==
  ASSUME TitlesInv, NEW r \in {"r1", "r2"}, NEW eps \in SUBSET Titles!Entry
  PROVE  /\ Append(run[r].lists, eps) \in Seq(SUBSET Titles!Entry)
         /\ AllRight /\ Titles!Right(eps) =>
              \A i \in 1..Len(Append(run[r].lists, eps)) : Titles!Right(Append(run[r].lists, eps)[i])
         /\ Titles!Gaps(Append(run[r].lists, eps)) # {} => Titles!Gaps(run[r].lists) # {}
<1> DEFINE lists == run[r].lists
           more == Append(lists, eps)
<1>1. lists \in Seq(SUBSET Titles!Entry)
  BY RunIs
<1>2. /\ more \in Seq(SUBSET Titles!Entry) /\ Len(more) = Len(lists) + 1 /\ Len(lists) \in Nat
      /\ more[Len(lists) + 1] = eps /\ \A i \in 1..Len(lists) : more[i] = lists[i]
  BY <1>1
<1>3. ASSUME AllRight, Titles!Right(eps), NEW i \in 1..Len(more)
      PROVE  Titles!Right(more[i])
  <2>1. CASE i = Len(lists) + 1
    BY <1>2, <1>3, <2>1
  <2>2. CASE i \in 1..Len(lists)
    <3>1. Titles!Right(lists[i])
      BY <1>3, <2>2 DEF AllRight
    <3> QED  BY <1>2, <2>2, <3>1
  <2> QED  BY <1>2, <1>3, <2>1, <2>2
<1>4. Titles!Covered(lists) \subseteq Titles!Covered(more)
  <2>1. ASSUME NEW i \in DOMAIN lists
        PROVE  i \in DOMAIN more /\ more[i] = lists[i]
    BY <1>1, <1>2, <2>1
  <2> QED  BY <2>1 DEF Titles!Covered, Titles!Range
<1>5. Titles!Gaps(more) \subseteq Titles!Gaps(lists)
  BY <1>4 DEF Titles!Gaps
<1>6. Titles!Gaps(more) # {} => Titles!Gaps(lists) # {}
  BY <1>5
<1>7. AllRight /\ Titles!Right(eps) => \A i \in 1..Len(more) : Titles!Right(more[i])
  BY <1>3
<1> QED  BY <1>2, <1>6, <1>7

LEMMA GoesOnWith ==
  ASSUME TitlesInv, NEW r \in {"r1", "r2"}, NEW eps \in SUBSET Titles!Entry,
         NEW at \in {"fill", "write"}, Titles!With(r, Append(run[r].lists, eps), at)
  PROVE  /\ Alone(r) /\ rested' = rested
         /\ run'[r].at = at /\ run'[r].due = run[r].due
         /\ AllRight /\ Titles!Right(eps) =>
              \A i \in 1..Len(run'[r].lists) : Titles!Right(run'[r].lists[i])
         /\ Titles!Gaps(run'[r].lists) # {} => Titles!Gaps(run[r].lists) # {}
<1> DEFINE more == Append(run[r].lists, eps)
<1>1. /\ more \in Seq(SUBSET Titles!Entry)
      /\ AllRight /\ Titles!Right(eps) => \A i \in 1..Len(more) : Titles!Right(more[i])
      /\ Titles!Gaps(more) # {} => Titles!Gaps(run[r].lists) # {}
  BY OneMore
<1>2. TitlesTypes /\ at \in {"cours", "fill", "write"} \cup Early /\ Titles!With(r, more, at)
  BY DEF TitlesInv
<1> HIDE DEF more
<1>3. /\ Alone(r) /\ rested' = rested
      /\ run'[r] = [at |-> at, due |-> run[r].due, lists |-> more]
  BY <1>1, <1>2, RunBecomes, Zenon
<1>4. run'[r].at = at /\ run'[r].due = run[r].due /\ run'[r].lists = more
  BY <1>3
<1> QED  BY <1>1, <1>3, <1>4, Zenon

LEMMA AskPrimaryStep ==
  ASSUME TitlesInv, NEW r \in {"r1", "r2"}, Titles!AskPrimary(r)
  PROVE  TitlesInv'
<1> DEFINE eps == Titles!OnAir(Primary)
<1>1. /\ run[r].at = "ask" /\ UNCHANGED <<dead, aired, stamped, shown>>
      /\ Titles!Ask("primary") /\ "primary" \in Names
  BY DEF Titles!AskPrimary, Names
<1>2. MayAsk(run[r], "primary") /\ HasPassed(run[r], "primary")
  BY <1>1 DEF MayAsk, HasPassed
<1>3. CASE "primary" \in dead
  <2>1. Titles!End(r) /\ titled' = titled
    BY <1>3 DEF Titles!AskPrimary
  <2>2. Alone(r) /\ rested' \in BOOLEAN /\ run'[r] = Titles!Off
    BY <2>1, RunBecomes DEF TitlesInv
  <2>3. Left(stamped', run'[r], "primary") + 1 <= Left(stamped, run[r], "primary")
    BY <1>1, <1>2, <2>2, OffAsksNothing, LeftFalls
  <2>4. \A y \in dead : Left(stamped', run'[r], y) <= Left(stamped, run[r], y)
    BY <1>1, <2>2, OffAsksNothing, LeftFalls
  <2> QED  BY <1>1, <2>1, <2>2, <2>3, <2>4, OffIs, RowsStay, RunIs, AskMoves
<1>4. CASE "primary" \notin dead
  <2>1. /\ Titles!With(r, <<eps>>, "merge")
        /\ titled' = IF eps = {} THEN titled
                     ELSE [titled EXCEPT !["primary"] = [age |-> "fresh", eps |-> eps]]
    BY <1>4 DEF Titles!AskPrimary
  <2>2. eps \in SUBSET Titles!Entry /\ (Titles!SourcesAreRight => Titles!Right(eps))
    BY AnswersAre
  <2>3. <<eps>> \in Seq(SUBSET Titles!Entry) /\ Len(<<eps>>) = 1 /\ <<eps>>[1] = eps
    BY <2>2
  <2>4. /\ Alone(r) /\ rested' = rested
        /\ run'[r] = [at |-> "merge", due |-> run[r].due, lists |-> <<eps>>]
    <3>1. Titles!With(r, <<eps>>, "merge")
      BY <2>1
    <3>2. TitlesTypes /\ "merge" \in {"cours", "fill", "write"} \cup Early
      BY DEF TitlesInv, Early
    <3> HIDE DEF eps
    <3> QED  BY <2>3, <3>1, <3>2, RunBecomes, Zenon
  <2>5. ASSUME NEW y \in dead
        PROVE  y # "primary" /\ Left(stamped', run'[r], y) <= Left(stamped, run[r], y)
    <3>1. y # "primary"
      BY <1>4
    <3>2. MayAsk(run'[r], y) => MayAsk(run[r], y)
      BY <1>1, <2>4, <3>1 DEF MayAsk, Early
    <3>3. ~HasPassed(run'[r], y)
      BY <2>4, <3>1 DEF HasPassed
    <3> QED  BY <1>1, <3>1, <3>2, <3>3, LeftFalls
  <2>6. /\ titled' \in [Titles!Sources -> ListRow]
        /\ Titles!SourcesAreRight /\ AllRight =>
             \A s \in Titles!Sources : titled'[s] = Titles!NoRow \/ Titles!Right(titled'[s].eps)
    BY <2>1, <2>2, RowIsSet, RowsStay DEF Titles!Sources
  <2>7. Titles!SourcesAreRight => \A i \in 1..Len(run'[r].lists) : Titles!Right(run'[r].lists[i])
    BY <2>2, <2>3, <2>4
  <2>8. Len(run'[r].lists) = 1
    BY <2>3, <2>4
  <2> QED  BY <1>1, <1>4, <2>4, <2>5, <2>6, <2>7, <2>8, RunIs, AskMoves
<1> QED  BY <1>3, <1>4


LEMMA MergeStep ==
  ASSUME TitlesInv, NEW r \in {"r1", "r2"}, Titles!Merge(r)
  PROVE  TitlesInv'
<1> DEFINE a == run[r].lists[1]
           b == titled["maze"].eps
           new == IF Linked /\ b # {} THEN Titles!Broadest(a, b) ELSE run[r].lists
<1>1. /\ run[r].at = "merge" /\ UNCHANGED <<dead, aired, stamped, titled, shown, epAsked>>
      /\ Titles!With(r, new, "walk")
  BY DEF Titles!Merge
<1>2. Len(run[r].lists) = 1 /\ run[r].lists \in Seq(SUBSET Titles!Entry)
  BY <1>1, RunIs DEF TitlesInv, TitlesTypes
<1>3. a \in SUBSET Titles!Entry /\ b \in SUBSET Titles!Entry
  <2>1. a \in SUBSET Titles!Entry
    BY <1>2
  <2>2. b \in SUBSET Titles!Entry
    BY RunIs DEF Titles!Sources
  <2> QED  BY <2>1, <2>2
<1>4. AllRight => Titles!Right(a) /\ (b # {} => Titles!Right(b))
  <2>1. 1 \in 1..Len(run[r].lists)
    BY <1>2
  <2>2. b # {} => titled["maze"] # Titles!NoRow
    BY DEF Titles!NoRow
  <2>3. "maze" \in Titles!Sources
    BY DEF Titles!Sources
  <2> QED  BY <2>1, <2>2, <2>3 DEF AllRight
<1>5. /\ new \in Seq(SUBSET Titles!Entry)
      /\ AllRight => \A i \in 1..Len(new) : Titles!Right(new[i])
  <2>1. CASE new = run[r].lists
    BY <1>2, <2>1 DEF AllRight
  <2>2. CASE (new = <<a, b>> \/ new = <<b, a>>) /\ b # {}
    <3> HIDE DEF a, b, new
    <3>1. new \in Seq(SUBSET Titles!Entry) /\ Len(new) = 2
      <4>1. CASE new = <<a, b>>
        BY <1>3, <4>1
      <4>2. CASE new = <<b, a>>
        BY <1>3, <4>2
      <4> QED  BY <2>2, <4>1, <4>2
    <3>2. ASSUME NEW i \in 1..Len(new)
          PROVE  new[i] = a \/ new[i] = b
      <4>1. i = 1 \/ i = 2
        BY <3>1
      <4> QED  BY <2>2, <4>1
    <3> QED  BY <1>4, <2>2, <3>1, <3>2
  <2> QED  BY <2>1, <2>2 DEF Titles!Broadest
<1>6. /\ Alone(r) /\ rested' = rested
      /\ run'[r] = [at |-> "walk", due |-> run[r].due, lists |-> new]
  <2>1. Titles!With(r, new, "walk")
    BY <1>1
  <2> HIDE DEF new
  <2> QED  BY <1>5, <2>1, RunBecomes DEF TitlesInv, Early
<1>7. ASSUME NEW x \in dead
      PROVE  Left(stamped', run'[r], x) <= Left(stamped, run[r], x)
  <2>1. MayAsk(run'[r], x) => MayAsk(run[r], x)
    BY <1>1, <1>6 DEF MayAsk, Early
  <2>2. ~HasPassed(run'[r], x)
    BY <1>6 DEF HasPassed
  <2> QED  BY <1>1, <2>1, <2>2, LeftFalls
<1>8. run'[r].at # "merge" /\ run'[r].lists = new
  BY <1>6
<1>9. AllRight => /\ \A i \in 1..Len(run'[r].lists) : Titles!Right(run'[r].lists[i])
                  /\ \A l \in Locals : shown'[l] \in {Titles!Untitled, l}
  BY <1>1, <1>5, <1>8 DEF AllRight
<1> QED  BY <1>1, <1>6, <1>7, <1>8, <1>9, RunIs, QuietMoves

LEMMA WalkStep ==
  ASSUME TitlesInv, NEW r \in {"r1", "r2"}, Titles!Walk(r)
  PROVE  TitlesInv'
<1>1. run[r].at = "walk" /\ UNCHANGED <<dead, aired, titled, shown>> /\ "chain" \in Names
  BY DEF Titles!Walk, Names
<1>2. AllRight => /\ \A i \in 1..Len(run[r].lists) : Titles!Right(run[r].lists[i])
                  /\ \A l \in Locals : shown'[l] \in {Titles!Untitled, l}
  BY <1>1 DEF AllRight
<1>3. CASE Titles!Walks(r)
  <2>1. stamped' = TRUE /\ Titles!Ask("chain") /\ run[r].due
    BY <1>3 DEF Titles!Walk, Titles!StampBefore, Titles!Walks
  <2>2. \/ /\ "chain" \in dead /\ rested' \in BOOLEAN
           /\ Alone(r) /\ run'[r] = Titles!Off
        \/ /\ "chain" \notin dead /\ rested' = rested /\ Alone(r)
           /\ run'[r] = [at |-> "cours", due |-> run[r].due, lists |-> run[r].lists]
    <3>1. IF "chain" \in dead THEN Titles!End(r) ELSE Titles!Goto(r, "cours")
      BY <1>3 DEF Titles!Walk
    <3> QED  BY <3>1, RunBecomes DEF TitlesInv
  <2>3. "chain" \in dead => Left(stamped', run'[r], "chain") + 1 <= Left(stamped, run[r], "chain")
    <3> SUFFICES ASSUME "chain" \in dead
                 PROVE  Left(stamped', run'[r], "chain") + 1 <= Left(stamped, run[r], "chain")
      OBVIOUS
    <3>1. ~MayAsk(run'[r], "chain")
      BY <2>2, OffAsksNothing
    <3>2. MayAsk(run[r], "chain")
      BY <1>1, <2>1 DEF MayAsk, Early
    <3> QED  BY <2>1, <3>1, <3>2 DEF Left
  <2>4. ASSUME NEW y \in dead, y # "chain"
        PROVE  Left(stamped', run'[r], y) <= Left(stamped, run[r], y)
    <3>1. MayAsk(run'[r], y) => MayAsk(run[r], y)
      <4>1. CASE run'[r] = Titles!Off
        BY <4>1, OffAsksNothing
      <4>2. CASE run'[r] = [at |-> "cours", due |-> run[r].due, lists |-> run[r].lists]
        BY <1>1, <2>1, <2>4, <4>2 DEF MayAsk, Early
      <4> QED  BY <2>2, <4>1, <4>2
    <3> QED  BY <2>1, <3>1, LeftStamped
  <2>5. run'[r].at # "merge" /\ (run'[r].lists = run[r].lists \/ run'[r].lists = <<>>)
    BY <2>2 DEF Titles!Off
  <2>6. AllRight => \A i \in 1..Len(run'[r].lists) : Titles!Right(run'[r].lists[i])
    BY <1>2, <2>5
  <2> QED  BY <1>1, <2>1, <2>2, <2>3, <2>4, <2>5, <2>6, RowsStay, RunIs, AskMoves
<1>4. CASE ~Titles!Walks(r)
  <2>1. Titles!Goto(r, "fill") /\ UNCHANGED <<stamped, epAsked>>
    BY <1>4 DEF Titles!Walk
  <2>2. /\ Alone(r) /\ rested' = rested
        /\ run'[r] = [at |-> "fill", due |-> run[r].due, lists |-> run[r].lists]
    BY <2>1, RunBecomes DEF TitlesInv
  <2>3. ASSUME NEW x \in dead
        PROVE  Left(stamped', run'[r], x) <= Left(stamped, run[r], x)
    <3>1. MayAsk(run'[r], x) => MayAsk(run[r], x)
      BY <1>1, <2>2 DEF MayAsk, Early
    <3>2. ~HasPassed(run'[r], x)
      BY <1>4, <2>2 DEF HasPassed, Titles!Walks
    <3> QED  BY <2>1, <3>1, <3>2, LeftFalls
  <2>4. run'[r].at # "merge" /\ run'[r].lists = run[r].lists
    BY <2>2
  <2> QED  BY <1>1, <1>2, <2>1, <2>2, <2>3, <2>4, RunIs, QuietMoves
<1> QED  BY <1>3, <1>4


LEMMA WalkCoursStep ==
  ASSUME TitlesInv, NEW r \in {"r1", "r2"}, Titles!WalkCours(r)
  PROVE  TitlesInv'
<1> DEFINE gaps == Titles!Gaps(run[r].lists) \cap DOMAIN Cours
           eps == UNION {Titles!OnAir(Cours[s]) : s \in gaps}
           Missed == /\ rested' = rested /\ Alone(r) /\ titled' = titled
                     /\ run'[r] = [at |-> "fill", due |-> run[r].due, lists |-> run[r].lists]
<1>1. run[r].at = "cours" /\ UNCHANGED <<dead, aired, stamped, shown>> /\ "cour" \in Names
  BY DEF Titles!WalkCours, Names
<1>2. AllRight => /\ \A i \in 1..Len(run[r].lists) : Titles!Right(run[r].lists[i])
                  /\ \A l \in Locals : shown'[l] \in {Titles!Untitled, l}
  BY <1>1 DEF AllRight
<1>3. MayAsk(run[r], "cour") /\ HasPassed(run[r], "cour")
  BY <1>1 DEF MayAsk, HasPassed
<1>4. eps \in SUBSET Titles!Entry /\ (Titles!SourcesAreRight => Titles!Right(eps))
  BY AnswersAre
<1>5. ASSUME NEW y \in dead, run'[r].at = "fill", run'[r].due = run[r].due,
             Titles!Gaps(run'[r].lists) # {} => Titles!Gaps(run[r].lists) # {}
      PROVE  Left(stamped', run'[r], y) <= Left(stamped, run[r], y)
  <2>1. MayAsk(run'[r], y) => MayAsk(run[r], y)
    BY <1>1, <1>5 DEF MayAsk, Early
  <2>2. HasPassed(run'[r], y) => HasPassed(run[r], y)
    BY <1>1, <1>5 DEF HasPassed
  <2> QED  BY <1>1, <2>1, <2>2, LeftFalls
<1>6. "primary" \in dead => (\A c \in ListRow : titled' = [titled EXCEPT !["cour"] = c] =>
                               titled'["primary"] = titled["primary"])
  BY RunIs DEF Titles!Sources
<1>7. CASE Titles!Goto(r, "fill") /\ UNCHANGED <<titled, epAsked>>
  <2>1. Missed
    BY <1>7, RunBecomes DEF TitlesInv
  <2>2. run'[r].at = "fill" /\ run'[r].due = run[r].due /\ run'[r].lists = run[r].lists
    BY <2>1
  <2>3. \A y \in dead : Left(stamped', run'[r], y) <= Left(stamped, run[r], y)
    BY <1>5, <2>2
  <2> QED  BY <1>1, <1>2, <1>7, <2>1, <2>2, <2>3, RunIs, QuietMoves
<1>8. CASE /\ titled["cour"].age = "fresh" /\ UNCHANGED <<titled, epAsked>>
           /\ Titles!With(r, Append(run[r].lists, titled["cour"].eps), "fill")
  <2> DEFINE mine == titled["cour"].eps
  <2>1. mine \in SUBSET Titles!Entry /\ (AllRight => Titles!Right(mine))
    <3>1. titled["cour"] # Titles!NoRow /\ "cour" \in Titles!Sources
      BY <1>8 DEF Titles!NoRow, Titles!Sources
    <3> QED  BY <3>1, RunIs DEF AllRight
  <2>2. Titles!With(r, Append(run[r].lists, mine), "fill")
    BY <1>8
  <2> HIDE DEF mine
  <2>3. /\ Alone(r) /\ rested' = rested
        /\ run'[r].at = "fill" /\ run'[r].due = run[r].due
        /\ Titles!Gaps(run'[r].lists) # {} => Titles!Gaps(run[r].lists) # {}
        /\ AllRight => \A i \in 1..Len(run'[r].lists) : Titles!Right(run'[r].lists[i])
    BY <2>1, <2>2, GoesOnWith
  <2>4. \A y \in dead : Left(stamped', run'[r], y) <= Left(stamped, run[r], y)
    BY <1>5, <2>3
  <2>5. run'[r].at # "merge"
    BY <2>3
  <2> QED  BY <1>1, <1>2, <1>8, <2>3, <2>4, <2>5, RunIs, QuietMoves
<1>9. CASE "cour" \in dead /\ Titles!Ask("cour") /\ Titles!End(r) /\ titled' = titled
  <2>1. Alone(r) /\ rested' \in BOOLEAN /\ run'[r] = Titles!Off
    BY <1>9, RunBecomes DEF TitlesInv
  <2>2. Left(stamped', run'[r], "cour") + 1 <= Left(stamped, run[r], "cour")
    BY <1>1, <1>3, <2>1, OffAsksNothing, LeftFalls
  <2>3. \A y \in dead : Left(stamped', run'[r], y) <= Left(stamped, run[r], y)
    BY <1>1, <2>1, OffAsksNothing, LeftFalls
  <2> QED  BY <1>1, <1>9, <2>1, <2>2, <2>3, OffIs, RowsStay, RunIs, AskMoves
<1>10. CASE "cour" \notin dead /\ Titles!Ask("cour") /\ Titles!Goto(r, "fill") /\ titled' = titled
  <2>1. Missed
    BY <1>10, RunBecomes DEF TitlesInv
  <2>2. run'[r].at = "fill" /\ run'[r].due = run[r].due /\ run'[r].lists = run[r].lists
    BY <2>1
  <2>3. \A y \in dead : Left(stamped', run'[r], y) <= Left(stamped, run[r], y)
    BY <1>5, <2>2
  <2>4. AllRight => \A i \in 1..Len(run'[r].lists) : Titles!Right(run'[r].lists[i])
    BY <1>2, <2>2
  <2> QED  BY <1>1, <1>10, <2>1, <2>2, <2>3, <2>4, RowsStay, RunIs, AskMoves
<1>11. CASE /\ "cour" \notin dead /\ Titles!Ask("cour")
            /\ Titles!With(r, Append(run[r].lists, eps), "fill")
            /\ titled' = [titled EXCEPT !["cour"] = [age |-> "fresh", eps |-> eps]]
  <2>1. /\ Titles!With(r, Append(run[r].lists, eps), "fill")
        /\ titled' = [titled EXCEPT !["cour"] = [age |-> "fresh", eps |-> eps]]
    BY <1>11
  <2> HIDE DEF eps
  <2>2. /\ Alone(r) /\ rested' = rested
        /\ run'[r].at = "fill" /\ run'[r].due = run[r].due
        /\ Titles!Gaps(run'[r].lists) # {} => Titles!Gaps(run[r].lists) # {}
        /\ Titles!SourcesAreRight /\ AllRight =>
             \A i \in 1..Len(run'[r].lists) : Titles!Right(run'[r].lists[i])
    BY <1>4, <2>1, GoesOnWith
  <2>3. \A y \in dead : Left(stamped', run'[r], y) <= Left(stamped, run[r], y)
    BY <1>5, <2>2
  <2>4. run'[r].at # "merge"
    BY <2>2
  <2>5. /\ titled' \in [Titles!Sources -> ListRow]
        /\ titled'["primary"] = titled["primary"]
        /\ Titles!SourcesAreRight /\ AllRight =>
             \A s \in Titles!Sources : titled'[s] = Titles!NoRow \/ Titles!Right(titled'[s].eps)
    BY <1>4, <2>1, RowIsSet DEF Titles!Sources
  <2> QED  BY <1>1, <1>11, <2>2, <2>3, <2>4, <2>5, RunIs, AskMoves
<1> QED  BY <1>7, <1>8, <1>9, <1>10, <1>11 DEF Titles!WalkCours


LEMMA BackfillStep ==
  ASSUME TitlesInv, NEW r \in {"r1", "r2"}, Titles!Backfill(r)
  PROVE  TitlesInv'
<1> DEFINE eps == Titles!OnAir(Maze)
<1>1. run[r].at = "fill" /\ UNCHANGED <<dead, aired, stamped, shown>> /\ "maze" \in Names
  BY DEF Titles!Backfill, Names
<1>2. AllRight => /\ \A i \in 1..Len(run[r].lists) : Titles!Right(run[r].lists[i])
                  /\ \A l \in Locals : shown'[l] \in {Titles!Untitled, l}
  BY <1>1 DEF AllRight
<1>3. ASSUME NEW y \in dead, run'[r].at = "write"
      PROVE  Left(stamped', run'[r], y) <= Left(stamped, run[r], y)
  <2>1. ~MayAsk(run'[r], y) /\ ~HasPassed(run'[r], y)
    BY <1>3 DEF MayAsk, HasPassed, Early
  <2> QED  BY <1>1, <2>1, LeftFalls
<1>4. ASSUME Titles!Goto(r, "write")
      PROVE  /\ Alone(r) /\ rested' = rested
             /\ run'[r].at = "write" /\ run'[r].lists = run[r].lists
  <2>1. /\ Alone(r) /\ rested' = rested
        /\ run'[r] = [at |-> "write", due |-> run[r].due, lists |-> run[r].lists]
    BY <1>4, RunBecomes DEF TitlesInv
  <2> QED  BY <2>1
<1>5. CASE Titles!Goto(r, "write") /\ UNCHANGED <<titled, epAsked>>
  <2>1. run'[r].at # "merge"
    BY <1>4, <1>5
  <2> QED  BY <1>1, <1>2, <1>3, <1>4, <1>5, <2>1, RunIs, QuietMoves
<1>6. CASE Titles!Gaps(run[r].lists) # {} /\ run[r].due
  <2>1. MayAsk(run[r], "maze") /\ HasPassed(run[r], "maze") /\ Titles!Ask("maze")
    <3>1. Titles!Ask("maze")
      BY <1>6 DEF Titles!Backfill
    <3> QED  BY <1>1, <1>6, <3>1 DEF MayAsk, HasPassed
  <2>2. CASE "maze" \in dead
    <3>1. Titles!End(r) /\ titled' = titled
      BY <1>6, <2>2 DEF Titles!Backfill
    <3>2. Alone(r) /\ rested' \in BOOLEAN /\ run'[r] = Titles!Off
      BY <3>1, RunBecomes DEF TitlesInv
    <3>3. Left(stamped', run'[r], "maze") + 1 <= Left(stamped, run[r], "maze")
      BY <1>1, <2>1, <3>2, OffAsksNothing, LeftFalls
    <3>4. \A y \in dead : Left(stamped', run'[r], y) <= Left(stamped, run[r], y)
      BY <1>1, <3>2, OffAsksNothing, LeftFalls
    <3> QED  BY <1>1, <2>1, <3>1, <3>2, <3>3, <3>4, OffIs, RowsStay, RunIs, AskMoves
  <2>3. CASE "maze" \notin dead /\ eps = {}
    <3>1. Titles!Goto(r, "write") /\ titled' = titled
      BY <1>6, <2>3 DEF Titles!Backfill
    <3>2. /\ Alone(r) /\ rested' = rested
          /\ run'[r].at = "write" /\ run'[r].at # "merge" /\ run'[r].lists = run[r].lists
      BY <1>4, <3>1
    <3>3. \A y \in dead : Left(stamped', run'[r], y) <= Left(stamped, run[r], y)
      BY <1>3, <3>2
    <3>4. AllRight => \A i \in 1..Len(run'[r].lists) : Titles!Right(run'[r].lists[i])
      BY <1>2, <3>2
    <3> QED  BY <1>1, <2>1, <2>3, <3>1, <3>2, <3>3, <3>4, RowsStay, RunIs, AskMoves
  <2>4. CASE "maze" \notin dead /\ eps # {}
    <3>1. /\ Titles!With(r, Append(run[r].lists, eps), "write")
          /\ titled' = [titled EXCEPT !["maze"] = [age |-> "fresh", eps |-> eps]]
      BY <1>6, <2>4 DEF Titles!Backfill
    <3>2. eps \in SUBSET Titles!Entry /\ (Titles!SourcesAreRight => Titles!Right(eps))
      BY AnswersAre
    <3> HIDE DEF eps
    <3>3. /\ Alone(r) /\ rested' = rested /\ run'[r].at = "write" /\ run'[r].at # "merge"
          /\ Titles!SourcesAreRight /\ AllRight =>
               \A i \in 1..Len(run'[r].lists) : Titles!Right(run'[r].lists[i])
      BY <3>1, <3>2, GoesOnWith
    <3>4. /\ titled' \in [Titles!Sources -> ListRow]
          /\ titled'["primary"] = titled["primary"]
          /\ Titles!SourcesAreRight /\ AllRight =>
               \A s \in Titles!Sources : titled'[s] = Titles!NoRow \/ Titles!Right(titled'[s].eps)
      BY <3>1, <3>2, RowIsSet DEF Titles!Sources
    <3>5. \A y \in dead : Left(stamped', run'[r], y) <= Left(stamped, run[r], y)
      BY <1>3, <3>3
    <3> QED  BY <1>1, <2>1, <2>4, <3>3, <3>4, <3>5, RunIs, AskMoves
  <2> QED  BY <2>2, <2>3, <2>4
<1> QED  BY <1>5, <1>6 DEF Titles!Backfill

(* The first of some lists is one of them. *)
LEMMA FirstOf ==
  ASSUME NEW n \in Nat, NEW S \in SUBSET (1..n), S # {}
  PROVE  Titles!Min(S) \in S
<1>1. S \in SUBSET Nat
  OBVIOUS
<1>2. PICK x \in S : \A y \in S : <<y, x>> \notin OpToRel(<, Nat)
  BY <1>1, WFMin, NatLessThanWellFounded
<1>3. ASSUME NEW y \in S
      PROVE  x <= y
  <2>1. x \in Nat /\ y \in Nat
    BY <1>1
  <2>2. y < x => <<y, x>> \in OpToRel(<, Nat)
    BY <2>1 DEF OpToRel
  <2>3. ~(y < x)
    BY <1>2, <2>2, Zenon
  <2> QED  BY <2>1, <2>3
<1> QED  BY <1>3 DEF Titles!Min

(* The title of an episode: one there is, or none; and where every list is  *)
(* right its own.                                                           *)
LEMMA TitleIsOwn ==
  ASSUME NEW lists \in Seq(SUBSET Titles!Entry), NEW l \in Locals
  PROVE  /\ Titles!TitleFor(lists, l) \in Nat \X Nat
         /\ (\A i \in 1..Len(lists) : Titles!Right(lists[i])) =>
              Titles!TitleFor(lists, l) \in {Titles!Untitled, l}
<1> DEFINE Fine == \A i \in 1..Len(lists) : Titles!Right(lists[i])
           naming == {i \in 1..Len(lists) : \E e \in lists[i] : <<e.s, e.n>> = l}
           held == Titles!Holding(lists, l[1])
<1>1. Len(lists) \in Nat /\ \A i \in 1..Len(lists) : lists[i] \in SUBSET Titles!Entry
  OBVIOUS
<1>2. Titles!Untitled \in Nat \X Nat /\ \A e \in Titles!Entry : e.is \in Nat \X Nat
  BY DEF Titles!Untitled, Titles!Entry
<1>3. CASE naming # {}
  <2> DEFINE i == Titles!Min(naming)
             e == CHOOSE x \in lists[i] : <<x.s, x.n>> = l
  <2>1. i \in naming
    <3>1. naming \in SUBSET (1..Len(lists))
      OBVIOUS
    <3> HIDE DEF naming
    <3> QED  BY <1>1, <1>3, <3>1, FirstOf
  <2>2. i \in 1..Len(lists) /\ \E x \in lists[i] : <<x.s, x.n>> = l
    BY <2>1
  <2>3. e \in lists[i] /\ <<e.s, e.n>> = l
    BY <2>2
  <2>4. Titles!TitleFor(lists, l) = e.is
    BY <1>3 DEF Titles!TitleFor
  <2> HIDE DEF i, e
  <2>5. e \in Titles!Entry
    BY <1>1, <2>2, <2>3
  <2>6. Fine => e.is = l
    BY <2>2, <2>3 DEF Titles!Right
  <2> QED  BY <1>2, <2>4, <2>5, <2>6
<1>4. CASE naming = {} /\ held = {}
  <2>1. Titles!TitleFor(lists, l) = Titles!ByRank(lists, l)
    BY <1>4 DEF Titles!TitleFor
  <2>2. Titles!Place({}, Titles!Rank(l)) = {}
    BY DEF Titles!Place
  <2>3. Titles!ByRank(lists, l) = Titles!Untitled
    BY <1>4, <2>2 DEF Titles!ByRank, Titles!SeasonList
  <2> QED  BY <1>2, <2>1, <2>3
<1>5. CASE naming = {} /\ held # {}
  <2> DEFINE i == Titles!Min(held)
             at == Titles!Place(Titles!SeasonList(lists, l[1]), Titles!Rank(l))
             e == CHOOSE x \in at : TRUE
  <2>1. i \in 1..Len(lists)
    <3>1. held \in SUBSET (1..Len(lists))
      BY DEF Titles!Holding
    <3> HIDE DEF held
    <3> QED  BY <1>1, <1>5, <3>1, FirstOf
  <2>2. Titles!TitleFor(lists, l) = Titles!ByRank(lists, l)
    BY <1>5 DEF Titles!TitleFor
  <2>3. Titles!ByRank(lists, l) = IF at = {} THEN Titles!Untitled ELSE e.is
    BY DEF Titles!ByRank
  <2>4. at # {} => e \in at
    OBVIOUS
  <2>5. at = Titles!Place(Titles!InSeason(lists[i], l[1]), Titles!Rank(l))
    BY <1>5 DEF Titles!SeasonList
  <2>6. at \subseteq lists[i]
    BY <2>5 DEF Titles!Place, Titles!InSeason
  <2>7. Fine => \A x \in at : x.is = l
    BY <2>1, <2>5 DEF Titles!Right
  <2> HIDE DEF i, at, e
  <2> QED  BY <1>1, <1>2, <2>1, <2>2, <2>3, <2>4, <2>6, <2>7
<1> QED  BY <1>3, <1>4, <1>5

LEMMA WriteStep ==
  ASSUME TitlesInv, NEW r \in {"r1", "r2"}, Titles!Write(r)
  PROVE  TitlesInv'
<1> DEFINE For(l) == Titles!TitleFor(run[r].lists, l)
<1>1. /\ run[r].at = "write" /\ Titles!End(r) /\ UNCHANGED <<dead, aired, stamped, titled, epAsked>>
      /\ shown' = [l \in Locals |-> IF For(l) = Titles!Untitled THEN shown[l] ELSE For(l)]
  BY DEF Titles!Write
<1>2. Alone(r) /\ rested' \in BOOLEAN /\ run'[r] = Titles!Off
  BY <1>1, RunBecomes DEF TitlesInv
<1>3. \A x \in dead : Left(stamped', run'[r], x) <= Left(stamped, run[r], x)
  BY <1>1, <1>2, OffAsksNothing, LeftFalls
<1>4. \A l \in Locals : For(l) \in Nat \X Nat /\ (AllRight => For(l) \in {Titles!Untitled, l})
  <2>1. AllRight => \A i \in 1..Len(run[r].lists) : Titles!Right(run[r].lists[i])
    BY DEF AllRight
  <2> QED  BY <2>1, RunIs, TitleIsOwn
<1> HIDE DEF For
<1>5. shown' \in [Locals -> Nat \X Nat]
  BY <1>1, <1>4, RunIs
<1>6. AllRight => \A l \in Locals : shown'[l] \in {Titles!Untitled, l}
  BY <1>1, <1>4 DEF AllRight
<1> QED  BY <1>1, <1>2, <1>3, <1>5, <1>6, OffIs, RunIs, QuietMoves

LEMMA TickStep == TitlesInv /\ Titles!Tick => TitlesInv'
<1> SUFFICES ASSUME TitlesInv, Titles!Tick PROVE TitlesInv'
  OBVIOUS
<1> DEFINE Aged(c) == IF c.age = "fresh" THEN [c EXCEPT !.age = "expired"] ELSE c
<1>1. /\ stamped' = FALSE /\ rested' = FALSE /\ UNCHANGED <<dead, aired, shown, run>>
      /\ titled' = [s \in Titles!Sources |-> Aged(titled[s])]
      /\ epAsked' = [x \in DOMAIN epAsked |-> 0]
  BY DEF Titles!Tick
<1>2. \A c \in ListRow : /\ Aged(c) \in ListRow /\ Aged(c).eps = c.eps
                         /\ c.age = "none" => Aged(c) = c
  BY DEF ListRow
<1>3. epAsked' \in [Names -> 0..5] /\ \A x \in Names : epAsked'[x] = 0
  BY <1>1 DEF TitlesInv, TitlesTypes
<1> HIDE DEF Aged
<1>4. titled' \in [Titles!Sources -> ListRow] /\ \A s \in Titles!Sources : titled'[s] = Aged(titled[s])
  BY <1>1, <1>2, RunIs
<1>5. TitlesTypes'
  BY <1>1, <1>3, <1>4 DEF TitlesInv, TitlesTypes
<1>6. AskedRarely'
  <2>1. ASSUME "primary" \in dead
        PROVE  titled'["primary"].age = "none"
    <3>1. "primary" \in Titles!Sources /\ titled["primary"].age = "none"
      BY <2>1 DEF TitlesInv, AskedRarely, Titles!Sources
    <3> QED  BY <1>2, <1>4, <3>1, RunIs
  <2>2. ASSUME NEW x \in dead
        PROVE  epAsked'[x] + Left(stamped', run'["r1"], x) + Left(stamped', run'["r2"], x) <= 4
    <3>1. Left(stamped', run'["r1"], x) \in {0, 1, 2} /\ Left(stamped', run'["r2"], x) \in {0, 1, 2}
      BY LeftIs
    <3>2. epAsked'[x] = 0
      BY <1>3, RunIs
    <3> QED  BY <3>1, <3>2
  <2> QED  BY <1>1, <2>1, <2>2 DEF AskedRarely
<1>7. ASSUME AllRight
      PROVE  AllRight'
  <2>1. ASSUME NEW s \in Titles!Sources
        PROVE  titled'[s] = Titles!NoRow \/ Titles!Right(titled'[s].eps)
    <3>1. CASE titled[s] = Titles!NoRow
      <4>1. titled[s].age = "none"
        BY <3>1 DEF Titles!NoRow
      <4> QED  BY <1>2, <1>4, <3>1, <4>1, RunIs
    <3>2. CASE Titles!Right(titled[s].eps)
      <4>1. titled'[s].eps = titled[s].eps
        BY <1>2, <1>4, RunIs
      <4> QED  BY <3>2, <4>1
    <3> QED  BY <1>7, <3>1, <3>2 DEF AllRight
  <2> QED  BY <1>1, <1>7, <2>1 DEF AllRight
<1> QED  BY <1>5, <1>6, <1>7 DEF TitlesInv

LEMMA AirStep == TitlesInv /\ Titles!Air => TitlesInv'
<1> SUFFICES ASSUME TitlesInv, Titles!Air PROVE TitlesInv'
  OBVIOUS
<1>1. /\ aired' \subseteq Late
      /\ UNCHANGED <<stamped, titled, shown, run, epAsked, dead, rested>>
  BY RunIs DEF Titles!Air, Titles!hist
<1>2. TitlesTypes'
  BY <1>1 DEF TitlesInv, TitlesTypes
<1>3. AskedRarely'
  BY <1>1 DEF TitlesInv, AskedRarely
<1>4. AllRight => AllRight'
  BY <1>1 DEF AllRight
<1> QED  BY <1>2, <1>3, <1>4 DEF TitlesInv

LEMMA TitlesStep == TitlesInv /\ [Titles!Next]_titlesvars => TitlesInv'
<1> SUFFICES ASSUME TitlesInv, Titles!Next \/ UNCHANGED titlesvars PROVE TitlesInv'
  OBVIOUS
<1>1. CASE UNCHANGED titlesvars
  <2>1. UNCHANGED <<dead, aired, stamped, titled, shown, run, epAsked, rested>>
    BY <1>1 DEF titlesvars
  <2>2. TitlesTypes'
    BY <2>1 DEF TitlesInv, TitlesTypes
  <2>3. AskedRarely'
    BY <2>1 DEF TitlesInv, AskedRarely
  <2>4. AllRight => AllRight'
    BY <2>1 DEF AllRight
  <2> QED  BY <2>2, <2>3, <2>4 DEF TitlesInv
<1>2. ASSUME NEW r \in {"r1", "r2"}, Titles!Step(r)
      PROVE  TitlesInv'
  BY <1>2, BeginStep, UsePrimaryStep, AskPrimaryStep, MergeStep, WalkStep, WalkCoursStep,
     BackfillStep, WriteStep DEF Titles!Step
<1> QED  BY <1>1, <1>2, TickStep, AirStep DEF Titles!Next

LEMMA TitlesMoves == [SuiteNext]_allvars => [Titles!Next]_titlesvars
<1> SUFFICES ASSUME [SuiteNext]_allvars PROVE Titles!Next \/ UNCHANGED titlesvars
  OBVIOUS
<1>1. CASE UNCHANGED allvars
  BY <1>1 DEF allvars
<1>2. CASE CopyOnly \/ MatchOnly \/ TreeOnly
  BY <1>2 DEF CopyOnly, MatchOnly, TreeOnly
<1>3. CASE Titles!Tick \/ Titles!Air
  BY <1>3 DEF Titles!Next
<1>4. ASSUME NEW r \in {"r1", "r2"}, Titles!Step(r)
      PROVE  Titles!Next
  BY <1>4 DEF Titles!Next
<1> QED  BY <1>1, <1>2, <1>3, <1>4 DEF SuiteNext, Titles!Step

(* A source that throws is left alone for the back-off, whatever two jobs   *)
(* of a series read and write in turns, and no episode carries the title of *)
(* another one where each list by itself would give none.                   *)
THEOREM TitlesStayTheirOwn == SuiteSpec => []TitlesAreTheirOwn
<1>1. SuiteInit => TitlesInv
  BY InitTitles DEF SuiteInit
<1>2. TitlesInv /\ [SuiteNext]_allvars => TitlesInv'
  BY TitlesMoves, TitlesStep
<1>3. TitlesInv => TitlesAreTheirOwn
  <2> SUFFICES ASSUME TitlesInv PROVE TitlesAreTheirOwn
    OBVIOUS
  <2>1. Titles!TypeOK
    <3>1. ASSUME NEW s \in Titles!Sources
          PROVE  titled[s].age \in {"none", "fresh", "expired"} /\ titled[s].eps \subseteq Titles!Entry
      BY DEF TitlesInv, TitlesTypes, ListRow
    <3>2. ASSUME NEW r \in {"r1", "r2"}
          PROVE  /\ run[r].at \in {"off", "primary", "ask", "merge", "walk", "cours", "fill", "write"}
                 /\ run[r].due \in BOOLEAN
                 /\ \A i \in 1..Len(run[r].lists) : run[r].lists[i] \subseteq Titles!Entry
      <4>1. run[r] \in RunRecs
        BY RunIs
      <4>2. run[r].at \in {"off", "cours", "fill", "write"} \cup Early /\ run[r].due \in BOOLEAN
            /\ run[r].lists \in Seq(SUBSET Titles!Entry)
        BY <4>1 DEF RunRecs
      <4> QED  BY <4>2 DEF Early
    <3>3. epAsked \in [Titles!Sources \cup {"chain"} -> 0..Titles!Cap]
      <4>1. Names = Titles!Sources \cup {"chain"}
        BY DEF Names, Titles!Sources
      <4> QED  BY <4>1, TwoRuns DEF TitlesInv, TitlesTypes
    <3> QED  BY <3>1, <3>2, <3>3 DEF TitlesInv, TitlesTypes, Titles!TypeOK
  <2>2. Titles!DeadSourceIsLeftAlone
    <3>1. ASSUME NEW x \in dead
          PROVE  epAsked[x] <= 4
      <4>1. Left(stamped, run["r1"], x) \in {0, 1, 2} /\ Left(stamped, run["r2"], x) \in {0, 1, 2}
        BY LeftIs
      <4>2. epAsked[x] \in 0..5
        BY RunIs
      <4> QED  BY <4>1, <4>2 DEF TitlesInv, AskedRarely
    <3> QED  BY <3>1, TwoRuns DEF Titles!DeadSourceIsLeftAlone
  <2>3. Titles!SourcesAreRight => Titles!TitlesAreTheirOwn
    BY DEF TitlesInv, AllRight, Titles!TitlesAreTheirOwn
  <2> QED  BY <2>1, <2>2, <2>3 DEF TitlesAreTheirOwn
<1> QED  BY <1>1, <1>2, <1>3, PTL DEF SuiteSpec

=============================================================================
