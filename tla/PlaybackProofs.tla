---------------------------- MODULE PlaybackProofs ----------------------------
(***************************************************************************)
(* Proofs about PlaybackSessions, for every finite set of handler runs,    *)
(* every set of sessions, every cap and every set of worlds.               *)
(*                                                                         *)
(* The slots a behaviour takes and gives back are a behaviour of the       *)
(* semaphore with the handler runs as clients (SlotRefinement), whose      *)
(* invariants are inductive there (SlotInv).  The rest of the inductive    *)
(* invariant says which handlers reach which await and what they carry     *)
(* there (KindsFit, LocalsFit), who owns a slot (SlotFacts), that a job    *)
(* row or an entry never names a child nobody spawned (ChildFacts), and    *)
(* how a session's handlers exclude each other (SessionFacts,              *)
(* RestartFacts).                                                          *)
(*                                                                         *)
(* A disciplined client's sessions satisfy more (SessionFits): one handler *)
(* at a time, an entry whose directory exists and whose child is its own,  *)
(* a restart whose old child is gone before the new one comes.             *)
(***************************************************************************)
EXTENDS PlaybackSessions, FiniteSetTheorems, TLAPS

(* What the semaphore guarantees: its invariants are inductive together, as *)
(* in StreamProofs, with the handler runs as its clients.                  *)
SlotInv ==
  /\ Slot!TypeOK
  /\ Slot!QueueMatchesWaiting
  /\ Slot!CounterIsExact
  /\ Slot!CapRespected
  /\ Slot!WaitOnlyAtCap

(* Finitely many runs, a cap, and a count that is the count. *)
LEMMA SlotBounds ==
  /\ IsFiniteSet(Requests) /\ MaxTranscodes \in Nat \ {0}
  /\ \A S : Slot!Cardinality(S) = Cardinality(S)
<1>1. \A S : Slot!Cardinality(S) = Cardinality(S)
  BY DEF Slot!Cardinality, Cardinality
<1>2. QED
  BY <1>1, Playback DEF PlaybackAssumption

(* Slot holders form a finite set, so that counting them makes sense. *)
LEMMA SlotHoldersFinite ==
  /\ IsFiniteSet(Slot!Holders)
  /\ Cardinality(Slot!Holders) \in Nat
BY SlotBounds, FS_Subset, FS_CardinalityType DEF Slot!Holders

(* The same of the next state. *)
LEMMA SlotHoldersFiniteNext ==
  /\ IsFiniteSet(Slot!Holders')
  /\ Cardinality(Slot!Holders') \in Nat
BY SlotBounds, FS_Subset, FS_CardinalityType DEF Slot!Holders

(* What array.splice(i, 1) returns: a shorter sequence over the same set.  *)
LEMMA SlotWithoutType ==
  ASSUME NEW S, NEW seq \in Seq(S), NEW i \in DOMAIN seq
  PROVE  /\ Slot!Without(seq, i) \in Seq(S)
         /\ DOMAIN Slot!Without(seq, i) = 1..(Len(seq) - 1)
<1> DEFINE n == Len(seq) - 1
<1>1. /\ DOMAIN seq = 1..Len(seq)
      /\ Len(seq) \in Nat
      /\ n \in Nat
  OBVIOUS
<1>2. Slot!Without(seq, i) \in [1..n -> S]
  BY <1>1 DEF Slot!Without
<1>3. DOMAIN Slot!Without(seq, i) = 1..n
  BY DEF Slot!Without
<1>4. Slot!Without(seq, i) \in Seq(S)
  BY <1>1, <1>2
<1>5. QED
  BY <1>3, <1>4

(* What each action does to the set of holders. *)
LEMMA SlotHoldersStep ==
  ASSUME Slot!TypeOK, Slot!QueueMatchesWaiting, NEW c \in Requests
  PROVE  /\ Slot!AcquireNow(c) => c \notin Slot!Holders /\ Slot!Holders' = Slot!Holders \cup {c}
         /\ Slot!AcquireWait(c) => Slot!Holders' = Slot!Holders
         /\ Slot!Timeout(c) => Slot!Holders' = Slot!Holders
         /\ Slot!Free(c) => c \in Slot!Holders /\ Slot!Holders' = Slot!Holders \ {c}
         /\ Slot!Handoff(c) => /\ Head(waiters) \in Requests
                          /\ c \in Slot!Holders
                          /\ Head(waiters) \notin Slot!Holders
                          /\ Slot!Holders' = (Slot!Holders \ {c}) \cup {Head(waiters)}
<1> USE DEF Slot!TypeOK, Slot!Holders, Slot!ClientState
<1>1. Slot!AcquireNow(c) => c \notin Slot!Holders /\ Slot!Holders' = Slot!Holders \cup {c}
  BY DEF Slot!AcquireNow
<1>2. Slot!AcquireWait(c) => Slot!Holders' = Slot!Holders
  BY DEF Slot!AcquireWait
<1>3. Slot!Timeout(c) => Slot!Holders' = Slot!Holders
  BY DEF Slot!Timeout, Slot!QueueMatchesWaiting
<1>4. Slot!Free(c) => c \in Slot!Holders /\ Slot!Holders' = Slot!Holders \ {c}
  BY DEF Slot!Free
<1>5. ASSUME Slot!Handoff(c)
      PROVE  /\ Head(waiters) \in Requests
             /\ c \in Slot!Holders
             /\ Head(waiters) \notin Slot!Holders
             /\ Slot!Holders' = (Slot!Holders \ {c}) \cup {Head(waiters)}
  <2>1. /\ 1 \in DOMAIN waiters
        /\ Head(waiters) = waiters[1]
        /\ Head(waiters) \in Requests
    BY <1>5 DEF Slot!Handoff
  <2>2. client[Head(waiters)] = "waiting"
    BY <2>1 DEF Slot!QueueMatchesWaiting
  <2>3. QED
    BY <1>5, <2>1, <2>2 DEF Slot!Handoff
<1>6. QED
  BY <1>1, <1>2, <1>3, <1>4, <1>5

LEMMA SlotTypeStep == SlotInv /\ [Slot!Next]_slotVars => Slot!TypeOK'
<1> SUFFICES ASSUME SlotInv, [Slot!Next]_slotVars PROVE Slot!TypeOK'
  OBVIOUS
<1> USE DEF SlotInv, Slot!TypeOK, Slot!ClientState
<1>1. ASSUME NEW c \in Requests, Slot!AcquireNow(c) PROVE Slot!TypeOK'
  BY <1>1 DEF Slot!AcquireNow
<1>2. ASSUME NEW c \in Requests, Slot!AcquireWait(c) PROVE Slot!TypeOK'
  BY <1>2 DEF Slot!AcquireWait
<1>3. ASSUME NEW c \in Requests, Slot!Timeout(c) PROVE Slot!TypeOK'
  BY <1>3, SlotWithoutType DEF Slot!Timeout
<1>4. ASSUME NEW c \in Requests, Slot!Handoff(c) PROVE Slot!TypeOK'
  BY <1>4 DEF Slot!Handoff
<1>5. ASSUME NEW c \in Requests, Slot!Free(c) PROVE Slot!TypeOK'
  BY <1>5 DEF Slot!Free
<1>6. CASE UNCHANGED slotVars
  BY <1>6 DEF slotVars
<1>7. QED
  BY <1>1, <1>2, <1>3, <1>4, <1>5, <1>6 DEF Slot!Next, Slot!Acquire, Slot!Release

(* The queue stays in step with the waiting clients. *)
LEMMA SlotQueueStep == SlotInv /\ [Slot!Next]_slotVars => Slot!QueueMatchesWaiting'
<1> SUFFICES ASSUME SlotInv, [Slot!Next]_slotVars PROVE Slot!QueueMatchesWaiting'
  OBVIOUS
<1> USE DEF SlotInv, Slot!TypeOK, Slot!ClientState, Slot!QueueMatchesWaiting, Slot!Waiting
<1>1. ASSUME NEW c \in Requests, Slot!AcquireNow(c) PROVE Slot!QueueMatchesWaiting'
  BY <1>1 DEF Slot!AcquireNow
<1>2. ASSUME NEW c \in Requests, Slot!AcquireWait(c) PROVE Slot!QueueMatchesWaiting'
  <2>1. /\ DOMAIN waiters = 1..Len(waiters)
        /\ Len(waiters) \in Nat
        /\ DOMAIN waiters' = 1..(Len(waiters) + 1)
        /\ waiters'[Len(waiters) + 1] = c
        /\ \A i \in DOMAIN waiters : waiters'[i] = waiters[i]
    BY <1>2 DEF Slot!AcquireWait
  <2>2. /\ \A d \in Requests : client'[d] = IF d = c THEN "waiting" ELSE client[d]
        /\ client[c] = "idle"
    BY <1>2 DEF Slot!AcquireWait
  <2>3. \A i \in DOMAIN waiters : waiters[i] # c /\ waiters[i] \in Requests
    BY <2>2, <2>1
  <2>4. (\A i \in DOMAIN waiters : client[waiters[i]] = "waiting")'
    BY <2>1, <2>2, <2>3
  <2>5. (\A d \in Slot!Waiting : \E i \in DOMAIN waiters : waiters[i] = d)'
    BY <2>1, <2>2, <2>3
  <2>6. (\A i, j \in DOMAIN waiters : waiters[i] = waiters[j] => i = j)'
    BY <2>1, <2>2, <2>3
  <2>7. QED
    BY <2>4, <2>5, <2>6
<1>3. ASSUME NEW c \in Requests, Slot!Timeout(c) PROVE Slot!QueueMatchesWaiting'
  <2>1. PICK i \in DOMAIN waiters :
          /\ waiters[i] = c
          /\ waiters' = Slot!Without(waiters, i)
          /\ client' = [client EXCEPT ![c] = "idle"]
    BY <1>3 DEF Slot!Timeout
  <2>2. /\ DOMAIN waiters = 1..Len(waiters)
        /\ Len(waiters) \in Nat
        /\ DOMAIN waiters' = 1..(Len(waiters) - 1)
        /\ \A k \in DOMAIN waiters' :
             waiters'[k] = IF k < i THEN waiters[k] ELSE waiters[k + 1]
    BY <2>1, SlotWithoutType DEF Slot!Without
  <2>3. \A d \in Requests : client'[d] = IF d = c THEN "idle" ELSE client[d]
    BY <2>1
  <2>4. \A k \in DOMAIN waiters : waiters[k] \in Requests /\ (waiters[k] = c => k = i)
    BY <2>1, <2>2
  <2>5. (\A k \in DOMAIN waiters : client[waiters[k]] = "waiting")'
    BY <2>2, <2>3, <2>4
  <2>6. (\A d \in Slot!Waiting : \E k \in DOMAIN waiters : waiters[k] = d)'
    <3>1. SUFFICES ASSUME NEW d \in Requests, client'[d] = "waiting"
                   PROVE  \E k \in DOMAIN waiters' : waiters'[k] = d
      OBVIOUS
    <3>2. d # c /\ client[d] = "waiting"
      BY <3>1, <2>3
    <3>3. PICK k \in DOMAIN waiters : waiters[k] = d
      BY <3>2
    <3>4. k # i
      BY <3>2, <3>3, <2>1
    <3>5. CASE k < i
      BY <3>3, <3>5, <2>1, <2>2
    <3>6. CASE k > i
      <4>1. /\ k - 1 \in DOMAIN waiters'
            /\ ~(k - 1 < i)
            /\ (k - 1) + 1 = k
        BY <3>6, <2>1, <2>2
      <4>2. QED
        BY <4>1, <3>3, <2>2
    <3>7. QED
      BY <3>4, <3>5, <3>6, <2>1, <2>2
  <2>7. (\A k, m \in DOMAIN waiters : waiters[k] = waiters[m] => k = m)'
    BY <2>1, <2>2
  <2>8. QED
    BY <2>5, <2>6, <2>7
<1>4. ASSUME NEW c \in Requests, Slot!Handoff(c) PROVE Slot!QueueMatchesWaiting'
  <2> DEFINE h == Head(waiters)
  <2>1. /\ DOMAIN waiters = 1..Len(waiters)
        /\ Len(waiters) \in Nat
        /\ 1 \in DOMAIN waiters
        /\ h = waiters[1]
        /\ h \in Requests
        /\ DOMAIN waiters' = 1..(Len(waiters) - 1)
        /\ \A k \in DOMAIN waiters' : waiters'[k] = waiters[k + 1]
    BY <1>4 DEF Slot!Handoff
  <2>2. h # c /\ client[c] = "holding"
    BY <1>4, <2>1 DEF Slot!Handoff
  <2>3. \A d \in Requests :
          client'[d] = IF d = h THEN "holding" ELSE IF d = c THEN "idle" ELSE client[d]
    BY <1>4, <2>1, <2>2 DEF Slot!Handoff
  <2>4. \A k \in DOMAIN waiters :
          waiters[k] \in Requests /\ waiters[k] # c /\ (waiters[k] = h => k = 1)
    BY <2>1, <2>2
  <2>5. (\A k \in DOMAIN waiters : client[waiters[k]] = "waiting")'
    BY <2>1, <2>3, <2>4
  <2>6. (\A d \in Slot!Waiting : \E k \in DOMAIN waiters : waiters[k] = d)'
    <3>1. SUFFICES ASSUME NEW d \in Requests, client'[d] = "waiting"
                   PROVE  \E k \in DOMAIN waiters' : waiters'[k] = d
      OBVIOUS
    <3>2. d # h /\ client[d] = "waiting"
      BY <3>1, <2>3
    <3>3. PICK k \in DOMAIN waiters : waiters[k] = d
      BY <3>2
    <3>4. /\ k - 1 \in DOMAIN waiters'
          /\ (k - 1) + 1 = k
      BY <3>2, <3>3, <2>1
    <3>5. QED
      BY <3>3, <3>4, <2>1
  <2>7. (\A k, m \in DOMAIN waiters : waiters[k] = waiters[m] => k = m)'
    BY <2>1
  <2>8. QED
    BY <2>5, <2>6, <2>7
<1>5. ASSUME NEW c \in Requests, Slot!Free(c) PROVE Slot!QueueMatchesWaiting'
  BY <1>5 DEF Slot!Free
<1>6. CASE UNCHANGED slotVars
  BY <1>6 DEF slotVars
<1>7. QED
  BY <1>1, <1>2, <1>3, <1>4, <1>5, <1>6 DEF Slot!Next, Slot!Acquire, Slot!Release

(* The counter stays exact, within the cap, and full while anybody waits.  *)
LEMMA SlotCounterStep ==
  SlotInv /\ [Slot!Next]_slotVars => Slot!CounterIsExact' /\ Slot!CapRespected' /\ Slot!WaitOnlyAtCap'
<1> SUFFICES ASSUME SlotInv, [Slot!Next]_slotVars
             PROVE  Slot!CounterIsExact' /\ Slot!CapRespected' /\ Slot!WaitOnlyAtCap'
  OBVIOUS
<1> USE SlotBounds, SlotHoldersFinite
    DEF SlotInv, Slot!TypeOK, Slot!CounterIsExact, Slot!CapRespected, Slot!WaitOnlyAtCap
<1>1. ASSUME NEW c \in Requests, Slot!AcquireNow(c)
      PROVE  Slot!CounterIsExact' /\ Slot!CapRespected' /\ Slot!WaitOnlyAtCap'
  <2>1. Cardinality(Slot!Holders') = Cardinality(Slot!Holders) + 1
    BY <1>1, SlotHoldersStep, FS_AddElement
  <2>2. QED
    BY <1>1, <2>1 DEF Slot!AcquireNow
<1>2. ASSUME NEW c \in Requests, Slot!AcquireWait(c)
      PROVE  Slot!CounterIsExact' /\ Slot!CapRespected' /\ Slot!WaitOnlyAtCap'
  <2>1. Slot!Holders' = Slot!Holders
    BY <1>2, SlotHoldersStep
  <2>2. active' = active /\ active >= MaxTranscodes
    BY <1>2 DEF Slot!AcquireWait
  <2>3. QED
    BY <2>1, <2>2
<1>3. ASSUME NEW c \in Requests, Slot!Timeout(c)
      PROVE  Slot!CounterIsExact' /\ Slot!CapRespected' /\ Slot!WaitOnlyAtCap'
  <2>1. Slot!Holders' = Slot!Holders
    BY <1>3, SlotHoldersStep
  <2>2. active' = active /\ waiters # <<>>
    BY <1>3 DEF Slot!Timeout
  <2>3. QED
    BY <2>1, <2>2
<1>4. ASSUME NEW c \in Requests, Slot!Handoff(c)
      PROVE  Slot!CounterIsExact' /\ Slot!CapRespected' /\ Slot!WaitOnlyAtCap'
  <2>1. PICK h \in Requests : /\ c \in Slot!Holders
                             /\ h \notin Slot!Holders
                             /\ Slot!Holders' = (Slot!Holders \ {c}) \cup {h}
    BY <1>4, SlotHoldersStep
  <2>2. /\ IsFiniteSet(Slot!Holders \ {c})
        /\ Cardinality(Slot!Holders \ {c}) = Cardinality(Slot!Holders) - 1
    BY <2>1, FS_RemoveElement
  <2>3. Cardinality((Slot!Holders \ {c}) \cup {h}) = Cardinality(Slot!Holders \ {c}) + 1
    BY <2>1, <2>2, FS_AddElement
  <2>4. Cardinality(Slot!Holders') = Cardinality(Slot!Holders)
    BY <2>1, <2>2, <2>3
  <2>5. Slot!WaitOnlyAtCap' /\ active' = active
    BY <1>4 DEF Slot!Handoff
  <2>6. QED
    BY <2>4, <2>5
<1>5. ASSUME NEW c \in Requests, Slot!Free(c)
      PROVE  Slot!CounterIsExact' /\ Slot!CapRespected' /\ Slot!WaitOnlyAtCap'
  <2>1. Cardinality(Slot!Holders') = Cardinality(Slot!Holders) - 1
    BY <1>5, SlotHoldersStep, FS_RemoveElement
  <2>2. Cardinality(Slot!Holders') \in Nat
    BY SlotHoldersFiniteNext
  <2>3. QED
    BY <1>5, <2>1, <2>2 DEF Slot!Free
<1>6. CASE UNCHANGED slotVars
  BY <1>6 DEF slotVars, Slot!Holders
<1>7. QED
  BY <1>1, <1>2, <1>3, <1>4, <1>5, <1>6 DEF Slot!Next, Slot!Acquire, Slot!Release

(* Nobody holds or waits for a slot at boot. *)
LEMMA SlotStart == Slot!Init => SlotInv
<1> SUFFICES ASSUME Slot!Init PROVE SlotInv
  OBVIOUS
<1>1. Slot!Holders = {}
  BY DEF Slot!Init, Slot!Holders
<1>2. Cardinality(Slot!Holders) = 0
  BY <1>1, FS_EmptySet
<1>3. Slot!TypeOK /\ Slot!QueueMatchesWaiting
  BY DEF Slot!Init, Slot!TypeOK, Slot!ClientState, Slot!QueueMatchesWaiting, Slot!Waiting
<1>4. QED
  BY <1>2, <1>3, SlotBounds
  DEF Slot!Init, SlotInv, Slot!CounterIsExact, Slot!CapRespected, Slot!WaitOnlyAtCap

(* Every step of a handler run takes, waits for or gives back a slot, or   *)
(* leaves the semaphore alone.                                             *)
LEMMA SlotStep == [Next]_vars => [Slot!Next]_slotVars
<1> SUFFICES ASSUME [Next]_vars PROVE [Slot!Next]_slotVars
  OBVIOUS
<1>1. ASSUME NEW r \in Requests, Slot!Acquire(r) \/ Slot!Timeout(r) \/ Slot!Release(r)
      PROVE  Slot!Next
  BY <1>1 DEF Slot!Next
<1>2. ASSUME NEW r \in Requests, Call(r) PROVE UNCHANGED slotVars
  BY <1>2 DEF Call, Start, FirstSpawn, Seek, Switch, Reset, Stop
<1>3. ASSUME NEW r \in Requests, Continue(r)
      PROVE  UNCHANGED slotVars \/ Slot!Acquire(r) \/ Slot!Timeout(r) \/ Slot!Release(r)
  BY <1>3 DEF Continue, EndRow, KillLive, CancelKilled, RemoveDir, CancelJob,
     Enter,
     Acquire, SlotTimeout, SlotGranted, SetUp, SetUpFails, CreateJob, FailBeforeSpawn,
     Spawn, Commit, CommitFails, CommitWon, CommitLost, CancelNewJob, WritePlaylist,
     WriteFails, Publish
<1>4. ASSUME NEW r \in Requests, Exit(r) PROVE Slot!Release(r)
  BY <1>4 DEF Exit
<1>5. ASSUME NEW r \in Requests, AfterExit(r) PROVE UNCHANGED slotVars
  BY <1>5 DEF AfterExit, SetTerminal, Truncate, NoFallback, Fallback
<1>6. ASSUME SweepJobs PROVE UNCHANGED slotVars
  BY <1>6 DEF SweepJobs
<1>7. ASSUME UNCHANGED vars PROVE UNCHANGED slotVars
  BY <1>7 DEF vars, slotVars
<1>8. QED
  BY <1>1, <1>2, <1>3, <1>4, <1>5, <1>6, <1>7 DEF Next

(* The handlers drive the semaphore as TranscodeSlot says a client may: a  *)
(* behaviour of the handlers, seen through its slots, is one of it.        *)
THEOREM SlotRefinement == Spec => Slot!Init /\ [][Slot!Next]_slotVars
<1>1. Init => Slot!Init
  BY DEF Init
<1>2. [Next]_vars => [Slot!Next]_slotVars
  BY SlotStep
<1>3. QED
  BY <1>1, <1>2, PTL DEF Spec

(* What the semaphore guarantees holds here. *)
LEMMA SlotsConsistent == Spec => []SlotInv
<1>1. Slot!Init => SlotInv
  BY SlotStart
<1>2. SlotInv /\ [Slot!Next]_slotVars => SlotInv'
  BY SlotTypeStep, SlotQueueStep, SlotCounterStep DEF SlotInv
<1>3. QED
  BY <1>1, <1>2, SlotRefinement, PTL

(* Where a handler run is, in groups. *)
Early   == {"acquire", "cancel", "enter", "exitWait", "slot", "prep", "spawn"}
Spawned == {"commit", "committed", "tooLate", "lost", "write", "publish"}
First   == {"start", "first"}
Ending  == {"stop", "reset"}
Streams == {"REMUX", "TRANSCODE"}

Busy(r) == req[r].pc \notin {"idle", "done"}

(* Which handlers reach which await. *)
KindsFit ==
  \A r \in Requests :
    /\ At(r, "idle") => req[r].kind = "none" /\ Sess(r) = None
    /\ ~At(r, "idle") => req[r].kind \in AllKinds /\ Sess(r) \in Sessions
    /\ At(r, "acquire") => req[r].kind \in First
    /\ At(r, "cancel") => req[r].kind \in Restarts
    /\ req[r].pc \in {"enter", "exitWait"} => IsRestart(r)
    /\ req[r].pc \in {"slot", "prep", "spawn"} => req[r].kind \in First \/ IsRestart(r)
    /\ req[r].pc \in {"commit", "committed", "tooLate", "lost"} =>
         req[r].kind \in Restarts \cup {"first"}
    /\ req[r].pc \in {"write", "publish"} => req[r].kind = "start" \/ IsRestart(r)
    /\ req[r].pc \in {"end", "remove"} => req[r].kind = "stop"
    /\ req[r].pc \in {"kill", "cancelKilled"} => req[r].kind \in Ending

(* What a handler run carries from one await to the next. *)
LocalsFit ==
  \A r \in Requests :
    /\ req[r].pc \in Early \cup Spawned => req[r].seen \in Entry /\ req[r].method \in Streams
    /\ At(r, "cancelKilled") \/ child[r] # "none" => req[r].seen \in Entry
    /\ child[r] # "none" => req[r].pc \in Spawned \cup {"done"}
    /\ req[r].pc \in Spawned => child[r] # "none"
    /\ strand[r] # "none" \/ term[r] => child[r] # "none"

-----------------------------------------------------------------------------
(* The entry a spawn works on, and what becomes of an entry. *)
LEMMA EntryType ==
  /\ \A r \in Requests, d \in Dirs, m \in Streams, h \in BOOLEAN : NewEntry(r, d, m, h) \in Entry
  /\ \A e \in Entry, r \in Requests, d \in Dirs, m \in Streams, h \in BOOLEAN :
       /\ [e EXCEPT !.dir = d] \in Entry
       /\ [e EXCEPT !.hw = h] \in Entry
       /\ [e EXCEPT !.restarting = TRUE] \in Entry
       /\ [e EXCEPT !.child = r, !.method = m] \in Entry
BY DEF Entry, NewEntry, Streams

(* What an entry says. *)
LEMMA EntryFields ==
  /\ None \notin Entry
  /\ \A e \in Entry : /\ e.dir \in Dirs /\ e.child \in Requests
                       /\ e.hw \in BOOLEAN /\ e.method \in Streams
BY Playback DEF PlaybackAssumption, Entry, Streams

(* What a world and a handler run look like. *)
LEMMA FieldTypes ==
  /\ \A w \in WorldType : /\ w.methods \subseteq {"DIRECT_PLAY", "REMUX", "TRANSCODE"}
                          /\ w.hw \subseteq BOOLEAN
                          /\ w.kinds \subseteq AllKinds
                          /\ w.exits \subseteq {"exitedOk", "exitedBad"}
  /\ \A h \in Handler : /\ h.pc \in PC /\ h.kind \in AllKinds \cup {"none"}
                        /\ h.sess \in Sessions \cup {None} /\ h.seen \in Entry \cup {None}
                        /\ h.method \in {"none", "DIRECT_PLAY", "REMUX", "TRANSCODE"}
BY DEF WorldType, Handler

(* A handler run begins. *)
LEMMA BeginType ==
  ASSUME req \in [Requests -> Handler], NEW r \in Requests, NEW s \in Sessions,
         NEW k \in AllKinds, NEW p \in PC, NEW e \in Entry \cup {None},
         NEW m \in {"none", "DIRECT_PLAY", "REMUX", "TRANSCODE"}, Begin(r, s, k, p, e, m)
  PROVE  req' \in [Requests -> Handler]
BY DEF Begin, Handler

(* A handler run moves on, or is over. *)
LEMMA MoveType ==
  ASSUME req \in [Requests -> Handler], LocalsFit, NEW r \in Requests
  PROVE  /\ \A p \in PC : Goto(r, p) => req' \in [Requests -> Handler]
         /\ Finish(r) => req' \in [Requests -> Handler]
<1>1. \A p \in PC : Goto(r, p) => req' \in [Requests -> Handler]
  BY DEF Goto, Handler
<1> DEFINE e == IF child[r] = "none" THEN None ELSE NewEntry(r, req[r].seen.dir, "REMUX", FALSE)
<1>2. e \in Entry \cup {None}
  BY EntryType, EntryFields DEF LocalsFit, Streams
<1> HIDE DEF e
<1>3. ASSUME Finish(r) PROVE req' \in [Requests -> Handler]
  <2>1. req' = [req EXCEPT ![r] = [pc |-> "done", kind |-> req[r].kind, sess |-> req[r].sess,
                                   method |-> "none", seen |-> e]]
    BY <1>3 DEF Finish, e
  <2>2. QED
    BY <2>1, <1>2 DEF Handler, PC
<1>4. QED
  BY <1>1, <1>3

(* A handler run has spawned its child. *)
LEMMA SpawnType ==
  ASSUME NEW h \in Handler, NEW e \in Entry, NEW p \in PC
  PROVE  [h EXCEPT !.pc = p, !.seen = e] \in Handler
BY DEF Handler

(* What the pieces of an action evaluate to. *)
LEMMA PieceTypes ==
  ASSUME TypeOK, NEW r \in Requests
  PROVE  /\ \A c \in Requests :
              Killed(c) \in [Requests -> {"none", "running", "killed", "exitedOk", "exitedBad"}]
         /\ Restored(r) \in [Sessions -> Entry \cup {None}]
         /\ Unreserved(r) \subseteq Sessions
         /\ req[r].seen \in Entry /\ req[r].method \in Streams =>
              Published(r) \in [Sessions -> Entry \cup {None}]
<1>1. \A c \in Requests :
        Killed(c) \in [Requests -> {"none", "running", "killed", "exitedOk", "exitedBad"}]
  BY DEF TypeOK, Killed
<1>2. Restored(r) \in [Sessions -> Entry \cup {None}]
  BY FieldTypes DEF TypeOK, Restored
<1>3. Unreserved(r) \subseteq Sessions
  BY DEF TypeOK, Unreserved
<1>4. ASSUME req[r].seen \in Entry, req[r].method \in Streams
      PROVE  Published(r) \in [Sessions -> Entry \cup {None}]
  <2>1. [req[r].seen EXCEPT !.child = r, !.method = req[r].method] \in Entry
    BY <1>4 DEF Entry, Streams
  <2>2. QED
    BY <2>1 DEF TypeOK, Published
<1>5. QED
  BY <1>1, <1>2, <1>3, <1>4

(* What a step of a handler run leaves alone, in it and in the others. *)
Moves(r, p) ==
  /\ \A q \in Requests \ {r} : req'[q] = req[q]
  /\ req'[r].pc = p /\ req'[r].kind = req[r].kind /\ req'[r].sess = req[r].sess

(* What Goto and Finish change. *)
LEMMA MoveFacts ==
  ASSUME req \in [Requests -> Handler], NEW r \in Requests
  PROVE  /\ \A p \in PC : Goto(r, p) => /\ Moves(r, p)
                                       /\ req'[r].seen = req[r].seen
                                       /\ req'[r].method = req[r].method
         /\ Finish(r) => /\ Moves(r, "done")
                         /\ req'[r].seen = IF child[r] = "none" THEN None
                                           ELSE NewEntry(r, req[r].seen.dir, "REMUX", FALSE)
         /\ \A e \in Entry, p \in PC :
              req' = [req EXCEPT ![r] = [req[r] EXCEPT !.pc = p, !.seen = e]] =>
                Moves(r, p) /\ req'[r].seen = e /\ req'[r].method = req[r].method
<1>1. ASSUME NEW p \in PC, Goto(r, p)
      PROVE  Moves(r, p) /\ req'[r].seen = req[r].seen /\ req'[r].method = req[r].method
  BY <1>1 DEF Goto, Moves, Handler
<1>2. ASSUME Finish(r)
      PROVE  Moves(r, "done") /\ req'[r].seen = IF child[r] = "none" THEN None
                                                ELSE NewEntry(r, req[r].seen.dir, "REMUX", FALSE)
  BY <1>2 DEF Finish, Moves, Handler
<1>3. ASSUME NEW e \in Entry, NEW p \in PC,
             req' = [req EXCEPT ![r] = [req[r] EXCEPT !.pc = p, !.seen = e]]
      PROVE  Moves(r, p) /\ req'[r].seen = e /\ req'[r].method = req[r].method
  BY <1>3 DEF Moves, Handler
<1>4. QED
  BY <1>1, <1>2, <1>3

(* Every step keeps every variable in its type. *)
LEMMA TypeStep ==
  TypeOK /\ KindsFit /\ LocalsFit /\ Slot!TypeOK' /\ [Next]_vars => TypeOK'
<1> SUFFICES ASSUME TypeOK, KindsFit, LocalsFit, Slot!TypeOK', [Next]_vars PROVE TypeOK'
  OBVIOUS
<1> USE DEF TypeOK, slotVars, childVars, diskVars
<1>1. ASSUME NEW r \in Requests, NEW s \in Sessions, Start(r, s) PROVE TypeOK'
  <2>1. CASE Begin(r, s, "start", "done", None, "DIRECT_PLAY")
    <3>1. req' \in [Requests -> Handler]
      BY <2>1 DEF Begin, Handler, PC, AllKinds, Restarts, Streams
    <3>2. QED
      BY <3>1, <1>1 DEF Start
  <2>2. ASSUME NEW m \in world.methods \ {"DIRECT_PLAY"}, NEW h \in HwOf(m),
               Begin(r, s, "start", "acquire", NewEntry(r, "main", m, h), m)
        PROVE  TypeOK'
    <3>1. m \in Streams /\ NewEntry(r, "main", m, h) \in Entry
      BY <2>2, FieldTypes DEF NewEntry, Entry, HwOf, Dirs, Streams
    <3>2. req' \in [Requests -> Handler]
      BY <3>1, <2>2 DEF Begin, Handler, PC, AllKinds, Restarts, Streams
    <3>3. QED
      BY <3>2, <1>1 DEF Start
  <2>3. QED
    BY <2>1, <2>2, <1>1 DEF Start
<1>2. ASSUME NEW r \in Requests, NEW s \in Sessions, FirstSpawn(r, s) PROVE TypeOK'
  <2>1. ASSUME NEW m \in world.methods \ {"DIRECT_PLAY"}, NEW h \in HwOf(m),
               Begin(r, s, "first", "acquire", NewEntry(r, "alt", m, h), m)
        PROVE  TypeOK'
    <3>1. m \in Streams /\ NewEntry(r, "alt", m, h) \in Entry
      BY <2>1, FieldTypes DEF NewEntry, Entry, HwOf, Dirs, Streams
    <3>2. req' \in [Requests -> Handler]
      BY <3>1, <2>1 DEF Begin, Handler, PC, AllKinds, Restarts, Streams
    <3>3. QED
      BY <3>2, <1>2 DEF FirstSpawn
  <2>2. QED
    BY <2>1, <1>2 DEF FirstSpawn
<1>3. ASSUME NEW r \in Requests, NEW s \in Sessions, Seek(r, s) PROVE TypeOK'
  <2>1. live[s] \in Entry /\ live[s].method \in Streams
    BY <1>3, EntryFields DEF Seek
  <2>2. req' \in [Requests -> Handler]
    BY <2>1, <1>3 DEF Seek, Begin, Handler, PC, AllKinds, Restarts, Streams
  <2>3. QED
    BY <2>2, <1>3 DEF Seek
<1>4. ASSUME NEW r \in Requests, NEW s \in Sessions, Switch(r, s) PROVE TypeOK'
  <2>1. live[s] \in Entry
    BY <1>4 DEF Switch
  <2>2. \A d \in Dirs : [live[s] EXCEPT !.dir = d] \in Entry
    BY <2>1 DEF Entry
  <2>3. \A m \in world.methods \ {"DIRECT_PLAY"} : m \in Streams
    BY FieldTypes DEF Streams
  <2>4. req' \in [Requests -> Handler]
    BY <1>4, <2>2, <2>3 DEF Switch, Begin, Handler, PC, AllKinds, Restarts,
       Streams
  <2>5. QED
    BY <2>4, <1>4 DEF Switch
<1>5. ASSUME NEW r \in Requests, NEW s \in Sessions, Reset(r, s) PROVE TypeOK'
  BY <1>5 DEF Reset, Begin, Handler, PC, AllKinds, Restarts, Streams
<1>6. ASSUME NEW r \in Requests, NEW s \in Sessions, Stop(r, s) PROVE TypeOK'
  BY <1>6 DEF Stop, Begin, Handler, PC, AllKinds, Restarts, Streams
<1>7. ASSUME NEW r \in Requests, EndRow(r) PROVE TypeOK'
  <2>1. req' \in [Requests -> Handler]
    BY <1>7, MoveType DEF EndRow, PC
  <2>2. QED
    BY <2>1, <1>7, PieceTypes DEF EndRow, At
<1>8. ASSUME NEW r \in Requests, KillLive(r) PROVE TypeOK'
  <2>1. req' \in [Requests -> Handler]
    <3>1. CASE live[Sess(r)] = None
      BY <3>1, <1>8, MoveType DEF KillLive, PC
    <3>2. CASE live[Sess(r)] # None
      <4>1. live[Sess(r)] \in Entry
        BY <3>2, <1>8 DEF KillLive, KindsFit, At
      <4>2. req' = [req EXCEPT ![r] = [req[r] EXCEPT !.pc = "cancelKilled", !.seen = live[Sess(r)]]]
        BY <3>2, <1>8 DEF KillLive
      <4>3. [req[r] EXCEPT !.pc = "cancelKilled", !.seen = live[Sess(r)]] \in Handler
        BY <4>1, SpawnType DEF PC
      <4>4. QED
        BY <4>2, <4>3
    <3>3. QED
      BY <3>1, <3>2
  <2>2. live' \in [Sessions -> Entry \cup {None}]
    BY <1>8 DEF KillLive
  <2>3. child' \in [Requests -> {"none", "running", "killed", "exitedOk", "exitedBad"}]
    BY <1>8, PieceTypes, EntryFields DEF KillLive, Killed
  <2>4. QED
    BY <2>1, <2>2, <2>3, <1>8 DEF KillLive
<1>9. ASSUME NEW r \in Requests, CancelKilled(r) PROVE TypeOK'
  <2>1. req' \in [Requests -> Handler]
    BY <1>9, MoveType DEF CancelKilled, PC
  <2>2. QED
    BY <2>1, <1>9, PieceTypes DEF CancelKilled, At
<1>10. ASSUME NEW r \in Requests, RemoveDir(r) PROVE TypeOK'
  <2>1. req' \in [Requests -> Handler]
    BY <1>10, MoveType DEF RemoveDir, PC
  <2>2. QED
    BY <2>1, <1>10, PieceTypes DEF RemoveDir, At
<1>11. ASSUME NEW r \in Requests, CancelJob(r) PROVE TypeOK'
  <2>1. req' \in [Requests -> Handler]
    BY <1>11, MoveType DEF CancelJob, PC
  <2>2. req[r].seen.dir \in Dirs
    BY <1>11, EntryFields DEF CancelJob, LocalsFit, Early, At
  <2>3. dirs' \in [Sessions -> SUBSET Dirs]
    BY <2>2, <1>11 DEF CancelJob
  <2>4. job' \in [Requests -> {"none", "RUNNING", "CANCELLED", "DONE", "FAILED"}]
    BY <1>11 DEF CancelJob
  <2>5. QED
    BY <2>1, <2>2, <2>3, <2>4, <1>11 DEF CancelJob
<1>12. ASSUME NEW r \in Requests, Enter(r) PROVE TypeOK'
  <2>1. req' \in [Requests -> Handler]
    BY <1>12, MoveType DEF Enter, PC
  <2>2. \A e \in Entry : [e EXCEPT !.restarting = TRUE] \in Entry
    BY DEF Entry
  <2>3. live' \in [Sessions -> Entry \cup {None}]
    BY <2>2, <1>12 DEF Enter
  <2>4. child' \in [Requests -> {"none", "running", "killed", "exitedOk", "exitedBad"}]
    BY <1>12, PieceTypes, EntryFields DEF Enter, LocalsFit, Early, At
  <2>5. QED
    BY <2>1, <2>2, <2>3, <2>4, <1>12 DEF Enter
<1>13. ASSUME NEW r \in Requests, Acquire(r) PROVE TypeOK'
  <2>1. req' \in [Requests -> Handler]
    BY <1>13, MoveType DEF Acquire, PC
  <2>2. QED
    BY <2>1, <1>13, PieceTypes DEF Acquire, At
<1>14. ASSUME NEW r \in Requests, SlotTimeout(r) PROVE TypeOK'
  <2>1. req' \in [Requests -> Handler]
    BY <1>14, MoveType DEF SlotTimeout, PC
  <2>2. QED
    BY <2>1, <1>14, PieceTypes DEF SlotTimeout, At
<1>15. ASSUME NEW r \in Requests, SlotGranted(r) PROVE TypeOK'
  <2>1. req' \in [Requests -> Handler]
    BY <1>15, MoveType DEF SlotGranted, PC
  <2>2. QED
    BY <2>1, <1>15, PieceTypes DEF SlotGranted, At
<1>16. ASSUME NEW r \in Requests, SetUp(r) PROVE TypeOK'
  <2>1. req' \in [Requests -> Handler]
    BY <1>16, MoveType DEF SetUp, PC
  <2>2. req[r].seen.dir \in Dirs
    BY <1>16, EntryFields DEF SetUp, LocalsFit, Early, At
  <2>3. dirs' \in [Sessions -> SUBSET Dirs]
    BY <2>2, <1>16 DEF SetUp
  <2>4. listing' \in [Sessions -> [Dirs -> Requests \cup {None}]]
    BY <1>16 DEF SetUp
  <2>5. QED
    BY <2>1, <2>2, <2>3, <2>4, <1>16 DEF SetUp
<1>17. ASSUME NEW r \in Requests, SetUpFails(r) PROVE TypeOK'
  <2>1. req' \in [Requests -> Handler]
    BY <1>17, MoveType DEF SetUpFails, PC
  <2>2. QED
    BY <2>1, <1>17, PieceTypes DEF SetUpFails, At
<1>18. ASSUME NEW r \in Requests, CreateJob(r) PROVE TypeOK'
  <2>1. req' \in [Requests -> Handler]
    BY <1>18, MoveType DEF CreateJob, PC
  <2>2. QED
    BY <2>1, <1>18, PieceTypes DEF CreateJob, At
<1>19. ASSUME NEW r \in Requests, FailBeforeSpawn(r) PROVE TypeOK'
  <2>1. req' \in [Requests -> Handler]
    BY <1>19, MoveType DEF FailBeforeSpawn, PC
  <2>2. QED
    BY <2>1, <1>19, PieceTypes DEF FailBeforeSpawn, At
<1>20. ASSUME NEW r \in Requests, Spawn(r) PROVE TypeOK'
  <2>1. /\ req[r].seen \in Entry /\ req[r].method \in Streams
        /\ req[r].kind \in First \cup Restarts \cup {"fallback"}
    BY <1>20 DEF Spawn, LocalsFit, KindsFit, IsRestart, Early, At
  <2>2. AfterSpawn(r) \in PC
    BY <2>1 DEF AfterSpawn, PC, Streams
  <2>3. SpawnHw(r) \subseteq BOOLEAN
    BY <2>1, EntryFields, FieldTypes DEF SpawnHw, HwOf
  <2>4. PICK h \in SpawnHw(r) :
          req' = [req EXCEPT ![r] = [req[r] EXCEPT !.pc = AfterSpawn(r),
                                                   !.seen = [req[r].seen EXCEPT !.hw = h]]]
    BY <1>20 DEF Spawn
  <2>5. [req[r].seen EXCEPT !.hw = h] \in Entry
    BY <2>1, <2>3 DEF Entry
  <2>6. [req[r] EXCEPT !.pc = AfterSpawn(r), !.seen = [req[r].seen EXCEPT !.hw = h]] \in Handler
    BY <2>2, <2>5, SpawnType
  <2>7. req' \in [Requests -> Handler]
    BY <2>4, <2>6
  <2>8. QED
    BY <2>7, <1>20 DEF Spawn
<1>21. ASSUME NEW r \in Requests, Commit(r) PROVE TypeOK'
  <2>1. req' \in [Requests -> Handler]
    BY <1>21, MoveType DEF Commit, PC
  <2>2. QED
    BY <2>1, <1>21, PieceTypes DEF Commit, At
<1>22. ASSUME NEW r \in Requests, CommitFails(r) PROVE TypeOK'
  <2>1. req' \in [Requests -> Handler]
    BY <1>22, MoveType DEF CommitFails, PC
  <2>2. QED
    BY <2>1, <1>22, PieceTypes DEF CommitFails, At
<1>23. ASSUME NEW r \in Requests, CommitWon(r) PROVE TypeOK'
  <2>1. req' \in [Requests -> Handler]
    BY <1>23, MoveType DEF CommitWon, PC
  <2>2. req[r].seen \in Entry /\ req[r].method \in Streams
    BY <1>23 DEF CommitWon, Won, LocalsFit, Spawned, At
  <2>3. live' \in [Sessions -> Entry \cup {None}]
    BY <2>2, <1>23, PieceTypes DEF CommitWon
  <2>4. reserved' \subseteq Sessions
    BY <1>23, PieceTypes DEF CommitWon
  <2>5. QED
    BY <2>1, <2>2, <2>3, <2>4, <1>23 DEF CommitWon
<1>24. ASSUME NEW r \in Requests, CommitLost(r) PROVE TypeOK'
  <2>1. req' \in [Requests -> Handler]
    BY <1>24, MoveType DEF CommitLost, PC
  <2>2. QED
    BY <2>1, <1>24, PieceTypes DEF CommitLost, At
<1>25. ASSUME NEW r \in Requests, CancelNewJob(r) PROVE TypeOK'
  <2>1. req' \in [Requests -> Handler]
    BY <1>25, MoveType DEF CancelNewJob, PC
  <2>2. Sess(r) \in Sessions
    BY <1>25 DEF CancelNewJob, KindsFit, At
  <2>3. dirs' \in [Sessions -> SUBSET Dirs]
    BY <1>25 DEF CancelNewJob
  <2>4. \A d \in Dirs : [listing[Sess(r)] EXCEPT ![d] = None] \in [Dirs -> Requests \cup {None}]
    BY <2>2
  <2>5. req[r].seen.dir \in Dirs
    BY <1>25, EntryFields DEF CancelNewJob, LocalsFit, Spawned, At
  <2>6. listing' \in [Sessions -> [Dirs -> Requests \cup {None}]]
    BY <2>2, <2>4, <2>5, <1>25 DEF CancelNewJob
  <2>7. job' \in [Requests -> {"none", "RUNNING", "CANCELLED", "DONE", "FAILED"}]
    BY <1>25 DEF CancelNewJob
  <2>8. reserved' \subseteq Sessions
    BY <1>25, PieceTypes DEF CancelNewJob
  <2>9. QED
    BY <2>1, <2>2, <2>3, <2>4, <2>5, <2>6, <2>7, <2>8, <1>25 DEF CancelNewJob
<1>26. ASSUME NEW r \in Requests, WritePlaylist(r) PROVE TypeOK'
  <2>1. req' \in [Requests -> Handler]
    BY <1>26, MoveType DEF WritePlaylist, PC
  <2>2. QED
    BY <2>1, <1>26, PieceTypes DEF WritePlaylist, At
<1>27. ASSUME NEW r \in Requests, WriteFails(r) PROVE TypeOK'
  <2>1. req' \in [Requests -> Handler]
    BY <1>27, MoveType DEF WriteFails, PC
  <2>2. QED
    BY <2>1, <1>27, PieceTypes DEF WriteFails, At
<1>28. ASSUME NEW r \in Requests, Publish(r) PROVE TypeOK'
  <2>1. req' \in [Requests -> Handler]
    BY <1>28, MoveType DEF Publish, PC
  <2>2. req[r].seen \in Entry /\ req[r].method \in Streams
    BY <1>28 DEF Publish, LocalsFit, Spawned, At
  <2>3. live' \in [Sessions -> Entry \cup {None}]
    BY <2>2, <1>28, PieceTypes DEF Publish
  <2>4. child' \in [Requests -> {"none", "running", "killed", "exitedOk", "exitedBad"}]
    BY <1>28, PieceTypes DEF Publish
  <2>5. QED
    BY <2>1, <2>2, <2>3, <2>4, <1>28 DEF Publish
<1>29. ASSUME NEW c \in Requests, Exit(c) PROVE TypeOK'
  <2>1. child' \in [Requests -> {"none", "running", "killed", "exitedOk", "exitedBad"}]
    BY <1>29, FieldTypes DEF Exit
  <2>2. strand' \in [Requests -> {"none", "reading", "retry"}]
    BY <1>29 DEF Exit
  <2>3. term' \in [Requests -> BOOLEAN]
    BY <1>29 DEF Exit
  <2>4. QED
    BY <2>1, <2>2, <2>3, <1>29 DEF Exit
<1>30. ASSUME NEW c \in Requests, SetTerminal(c) PROVE TypeOK'
  BY <1>30 DEF SetTerminal
<1>31. ASSUME NEW c \in Requests, Truncate(c) PROVE TypeOK'
  BY <1>31 DEF Truncate
<1>32. ASSUME NEW c \in Requests, NoFallback(c) PROVE TypeOK'
  BY <1>32 DEF NoFallback
<1>33. ASSUME NEW r \in Requests, NEW c \in Requests, Fallback(r, c) PROVE TypeOK'
  <2> DEFINE l == live[Sess(c)]
  <2>1. Sess(c) \in Sessions /\ l \in Entry /\ l.method \in Streams
    BY <1>33, EntryFields DEF Fallback, MayFallBack, KindsFit, LocalsFit, At,
       Spawned
  <2>2. "fallback" \in AllKinds /\ "enter" \in PC
    BY DEF AllKinds, PC
  <2>3. Begin(r, Sess(c), "fallback", "enter", l, l.method)
    BY <1>33 DEF Fallback
  <2>4. req' \in [Requests -> Handler]
    BY <2>1, <2>2, <2>3, BeginType DEF Streams
  <2>5. QED
    BY <2>4, <1>33 DEF Fallback
<1>34. ASSUME SweepJobs PROVE TypeOK'
  BY <1>34 DEF SweepJobs
<1>35. CASE UNCHANGED vars
  BY <1>35 DEF vars, slotVars, childVars, diskVars
<1>36. QED
  BY <1>1, <1>2, <1>3, <1>4, <1>5, <1>6, <1>7, <1>8, <1>9, <1>10, <1>11,
     <1>12, <1>13, <1>14, <1>15, <1>16, <1>17, <1>18, <1>19, <1>20, <1>21,
     <1>22, <1>23, <1>24, <1>25, <1>26, <1>27, <1>28, <1>29, <1>30, <1>31,
     <1>32, <1>33, <1>34, <1>35 DEF Next, Call, Continue, AfterExit

(* Every handler run goes through its own awaits only. *)
LEMMA KindsStep ==
  TypeOK /\ TypeOK' /\ KindsFit /\ LocalsFit /\ [Next]_vars => KindsFit'
<1> SUFFICES ASSUME TypeOK, TypeOK', KindsFit, LocalsFit, [Next]_vars PROVE KindsFit'
  OBVIOUS
<1> USE DEF KindsFit, At, Sess, IsRestart, First, Ending, AllKinds, Restarts
<1>1. ASSUME NEW r \in Requests, NEW s \in Sessions, Start(r, s) PROVE KindsFit'
  <2>1. \A q \in Requests \ {r} : req'[q] = req[q]
    BY <1>1 DEF Start, Begin, TypeOK
  <2>2. req'[r].pc \in {"done", "acquire"} /\ req'[r].kind = "start" /\ req'[r].sess = s
    BY <1>1 DEF Start, Begin, TypeOK
  <2>3. QED
    BY <2>1, <2>2, <1>1 DEF Start, MayBegin
<1>2. ASSUME NEW r \in Requests, NEW s \in Sessions, FirstSpawn(r, s) PROVE KindsFit'
  BY <1>2 DEF FirstSpawn, Begin, TypeOK
<1>3. ASSUME NEW r \in Requests, NEW s \in Sessions, Seek(r, s) PROVE KindsFit'
  BY <1>3 DEF Seek, Begin, TypeOK
<1>4. ASSUME NEW r \in Requests, NEW s \in Sessions, Switch(r, s) PROVE KindsFit'
  BY <1>4 DEF Switch, Begin, TypeOK
<1>5. ASSUME NEW r \in Requests, NEW s \in Sessions, Reset(r, s) PROVE KindsFit'
  BY <1>5 DEF Reset, Begin, TypeOK
<1>6. ASSUME NEW r \in Requests, NEW s \in Sessions, Stop(r, s) PROVE KindsFit'
  BY <1>6 DEF Stop, Begin, TypeOK
<1>7. ASSUME NEW r \in Requests, EndRow(r) PROVE KindsFit'
  BY <1>7 DEF EndRow, Goto, Finish, TypeOK
<1>8. ASSUME NEW r \in Requests, KillLive(r) PROVE KindsFit'
  <2>1. PICK p \in {"done", "remove", "cancelKilled"} :
          Moves(r, p) /\ (p = "remove" => req[r].kind = "stop")
    <3>1. Sess(r) \in Sessions
      BY <1>8 DEF KillLive
    <3>2. CASE live[Sess(r)] = None
      BY <3>1, <3>2, <1>8, MoveFacts DEF KillLive, PC, TypeOK
    <3>3. CASE live[Sess(r)] # None
      <4>1. live[Sess(r)] \in Entry
        BY <3>1, <3>3 DEF TypeOK
      <4>2. QED
        BY <4>1, <3>3, <1>8, MoveFacts DEF KillLive, PC, TypeOK
    <3>4. QED
      BY <3>2, <3>3
  <2>2. QED
    BY <2>1, <1>8 DEF KillLive, Moves
<1>9. ASSUME NEW r \in Requests, CancelKilled(r) PROVE KindsFit'
  <2>1. PICK p \in {"done", "remove"} : Moves(r, p) /\ (p = "remove" => req[r].kind = "stop")
    BY <1>9, MoveFacts DEF CancelKilled, PC, TypeOK
  <2>2. QED
    BY <2>1, <1>9 DEF CancelKilled, Moves
<1>10. ASSUME NEW r \in Requests, RemoveDir(r) PROVE KindsFit'
  BY <1>10 DEF RemoveDir, Goto, Finish, TypeOK
<1>11. ASSUME NEW r \in Requests, CancelJob(r) PROVE KindsFit'
  BY <1>11 DEF CancelJob, Goto, Finish, TypeOK
<1>12. ASSUME NEW r \in Requests, Enter(r) PROVE KindsFit'
  <2>1. PICK p \in {"done", "exitWait"} : Moves(r, p)
    BY <1>12, MoveFacts DEF Enter, PC, TypeOK
  <2>2. QED
    BY <2>1, <1>12 DEF Enter, Moves
<1>13. ASSUME NEW r \in Requests, Acquire(r) PROVE KindsFit'
  BY <1>13 DEF Acquire, Goto, Finish, TypeOK
<1>14. ASSUME NEW r \in Requests, SlotTimeout(r) PROVE KindsFit'
  BY <1>14 DEF SlotTimeout, Goto, Finish, TypeOK
<1>15. ASSUME NEW r \in Requests, SlotGranted(r) PROVE KindsFit'
  <2>1. PICK p \in {"done", "prep"} : Moves(r, p)
    BY <1>15, MoveFacts DEF SlotGranted, PC, TypeOK
  <2>2. QED
    BY <2>1, <1>15 DEF SlotGranted, Moves
<1>16. ASSUME NEW r \in Requests, SetUp(r) PROVE KindsFit'
  BY <1>16 DEF SetUp, Goto, Finish, TypeOK
<1>17. ASSUME NEW r \in Requests, SetUpFails(r) PROVE KindsFit'
  BY <1>17 DEF SetUpFails, Goto, Finish, TypeOK
<1>18. ASSUME NEW r \in Requests, CreateJob(r) PROVE KindsFit'
  BY <1>18 DEF CreateJob, Goto, Finish, TypeOK
<1>19. ASSUME NEW r \in Requests, FailBeforeSpawn(r) PROVE KindsFit'
  BY <1>19 DEF FailBeforeSpawn, Goto, Finish, TypeOK
<1>20. ASSUME NEW r \in Requests, Spawn(r) PROVE KindsFit'
  <2>1. Moves(r, AfterSpawn(r))
    <3>1. PICK h \in SpawnHw(r) :
            req' = [req EXCEPT ![r] = [req[r] EXCEPT !.pc = AfterSpawn(r),
                                                     !.seen = [req[r].seen EXCEPT !.hw = h]]]
      BY <1>20 DEF Spawn
    <3>2. req[r] \in Handler
      BY DEF TypeOK
    <3>3. QED
      BY <3>1, <3>2 DEF Moves, Handler, TypeOK
  <2>2. IF req[r].kind \in Restarts \cup {"first"} THEN AfterSpawn(r) = "commit"
        ELSE AfterSpawn(r) \in {"write", "publish"}
    BY DEF AfterSpawn
  <2>3. ~At(r, "idle") /\ (req[r].kind \in First \/ IsRestart(r))
    BY <1>20 DEF Spawn
  <2>4. QED
    BY <2>1, <2>2, <2>3 DEF Moves
<1>21. ASSUME NEW r \in Requests, Commit(r) PROVE KindsFit'
  BY <1>21 DEF Commit, Goto, Finish, TypeOK
<1>22. ASSUME NEW r \in Requests, CommitFails(r) PROVE KindsFit'
  BY <1>22 DEF CommitFails, Goto, Finish, TypeOK
<1>23. ASSUME NEW r \in Requests, CommitWon(r) PROVE KindsFit'
  <2>1. PICK p \in {"done", "write"} : Moves(r, p) /\ (p = "write" => IsRestart(r))
    BY <1>23, MoveFacts DEF CommitWon, PC, TypeOK, Won
  <2>2. QED
    BY <2>1, <1>23 DEF CommitWon, Moves, Won
<1>24. ASSUME NEW r \in Requests, CommitLost(r) PROVE KindsFit'
  <2>1. PICK p \in {"lost"} : Moves(r, p)
    BY <1>24, MoveFacts DEF CommitLost, PC, TypeOK, Lost
  <2>2. QED
    BY <2>1, <1>24 DEF CommitLost, Moves, Lost
<1>25. ASSUME NEW r \in Requests, CancelNewJob(r) PROVE KindsFit'
  BY <1>25 DEF CancelNewJob, Goto, Finish, TypeOK
<1>26. ASSUME NEW r \in Requests, WritePlaylist(r) PROVE KindsFit'
  BY <1>26 DEF WritePlaylist, Goto, Finish, TypeOK
<1>27. ASSUME NEW r \in Requests, WriteFails(r) PROVE KindsFit'
  <2>1. PICK p \in {"publish", "done"} : Moves(r, p) /\ (p = "publish" => req[r].kind = "fallback")
    BY <1>27, MoveFacts DEF WriteFails, PC, TypeOK
  <2>2. QED
    BY <2>1, <1>27 DEF WriteFails, Moves
<1>28. ASSUME NEW r \in Requests, Publish(r) PROVE KindsFit'
  BY <1>28 DEF Publish, Goto, Finish, TypeOK
<1>29. ASSUME NEW c \in Requests, Exit(c) PROVE KindsFit'
  BY <1>29 DEF Exit
<1>30. ASSUME NEW c \in Requests, SetTerminal(c) PROVE KindsFit'
  BY <1>30 DEF SetTerminal
<1>31. ASSUME NEW c \in Requests, Truncate(c) PROVE KindsFit'
  BY <1>31 DEF Truncate
<1>32. ASSUME NEW c \in Requests, NoFallback(c) PROVE KindsFit'
  BY <1>32 DEF NoFallback
<1>33. ASSUME NEW r \in Requests, NEW c \in Requests, Fallback(r, c) PROVE KindsFit'
  <2>1. Sess(c) \in Sessions
    BY <1>33 DEF Fallback, LocalsFit, Spawned
  <2>2. QED
    BY <2>1, <1>33 DEF Fallback, Begin, MayBegin, TypeOK
<1>34. ASSUME SweepJobs PROVE KindsFit'
  BY <1>34 DEF SweepJobs
<1>35. CASE UNCHANGED vars
  BY <1>35 DEF vars, slotVars, childVars, diskVars
<1>36. QED
  BY <1>1, <1>2, <1>3, <1>4, <1>5, <1>6, <1>7, <1>8, <1>9, <1>10, <1>11,
     <1>12, <1>13, <1>14, <1>15, <1>16, <1>17, <1>18, <1>19, <1>20, <1>21,
     <1>22, <1>23, <1>24, <1>25, <1>26, <1>27, <1>28, <1>29, <1>30, <1>31,
     <1>32, <1>33, <1>34, <1>35 DEF Next, Call, Continue, AfterExit

(* A step of a handler run that goes on with the locals it has. *)
Hop(r, p) ==
  Moves(r, p) /\ req'[r].seen = req[r].seen /\ req'[r].method = req[r].method

(* The step in which it returns. *)
Over(r) ==
  /\ Moves(r, "done")
  /\ req'[r].seen = IF child[r] = "none" THEN None
                    ELSE NewEntry(r, req[r].seen.dir, "REMUX", FALSE)

(* Where each action takes the handler run it belongs to. *)
LEMMA Hops ==
  ASSUME TypeOK, KindsFit, NEW r \in Requests
  PROVE  /\ EndRow(r) => Hop(r, "kill")
         /\ CancelKilled(r) => \/ Hop(r, "remove") /\ req[r].kind = "stop"
                               \/ Over(r)
         /\ RemoveDir(r) \/ SlotTimeout(r) \/ SetUpFails(r) \/ FailBeforeSpawn(r)
              \/ CommitFails(r) \/ CancelNewJob(r) \/ Publish(r) => Over(r)
         /\ CancelJob(r) => Hop(r, "enter")
         /\ Enter(r) => Over(r) \/ Hop(r, "exitWait")
         /\ Acquire(r) => Hop(r, "slot")
         /\ SlotGranted(r) => Over(r) \/ Hop(r, "prep")
         /\ SetUp(r) => Hop(r, "prep")
         /\ CreateJob(r) => Hop(r, "spawn")
         /\ Commit(r) => Hop(r, IF session[Sess(r)] = "open" THEN "committed" ELSE "tooLate")
         /\ CommitWon(r) => Over(r) \/ Hop(r, "write")
         /\ CommitLost(r) => Hop(r, "lost")
         /\ WritePlaylist(r) => Hop(r, "publish")
         /\ WriteFails(r) => \/ Hop(r, "publish") /\ req[r].kind = "fallback"
                             \/ Over(r)
<1>1. \A p \in PC : Goto(r, p) => Hop(r, p)
  BY MoveFacts DEF Hop, TypeOK
<1>2. Finish(r) => Over(r)
  BY MoveFacts DEF Over, TypeOK
<1>3. QED
  BY <1>1, <1>2 DEF PC, EndRow, CancelKilled, RemoveDir, SlotTimeout,
     SetUpFails,
     FailBeforeSpawn, CommitFails, CancelNewJob, Publish, CancelJob, Enter, Acquire,
     SlotGranted, SetUp, CreateJob, Commit, CommitWon, CommitLost, WritePlaylist, WriteFails

(* killSessionTranscode takes the handler run to its job write with the    *)
(* entry it found, or on when there is none.                               *)
LEMMA KillLiveHops ==
  ASSUME TypeOK, KindsFit, NEW r \in Requests, KillLive(r)
  PROVE  \/ Moves(r, "cancelKilled") /\ req'[r].seen = live[Sess(r)] /\ live[Sess(r)] \in Entry
            /\ req'[r].method = req[r].method
         \/ Hop(r, "remove") /\ req[r].kind = "stop" /\ live[Sess(r)] = None
         \/ Over(r) /\ live[Sess(r)] = None
<1>1. Sess(r) \in Sessions
  BY DEF KillLive, KindsFit, At
<1>2. CASE live[Sess(r)] = None
  BY <1>2, MoveFacts DEF KillLive, PC, TypeOK, Hop, Over
<1>3. CASE live[Sess(r)] # None
  <2>1. live[Sess(r)] \in Entry
    BY <1>1, <1>3 DEF TypeOK
  <2>2. QED
    BY <2>1, <1>3, MoveFacts DEF KillLive, PC, TypeOK
<1>4. QED
  BY <1>2, <1>3

(* The handler run that spawns, and its child. *)
LEMMA SpawnHops ==
  ASSUME TypeOK, KindsFit, LocalsFit, NEW r \in Requests, Spawn(r)
  PROVE  /\ Moves(r, AfterSpawn(r))
         /\ req'[r].method = req[r].method
         /\ \E h \in BOOLEAN : req'[r].seen = [req[r].seen EXCEPT !.hw = h]
         /\ req'[r].seen \in Entry
         /\ req[r].seen \in Entry
         /\ req[r].method \in Streams
         /\ AfterSpawn(r) \in {"commit", "write", "publish"}
<1>1. req[r].seen \in Entry /\ req[r].method \in Streams
  BY DEF Spawn, LocalsFit, At, Early
<1>2. PICK h \in SpawnHw(r) :
        req' = [req EXCEPT ![r] = [req[r] EXCEPT !.pc = AfterSpawn(r),
                                                 !.seen = [req[r].seen EXCEPT !.hw = h]]]
  BY DEF Spawn
<1>3. h \in BOOLEAN
  BY <1>1, EntryFields, FieldTypes DEF SpawnHw, HwOf, TypeOK
<1>4. [req[r].seen EXCEPT !.hw = h] \in Entry
  BY <1>1, <1>3 DEF Entry
<1>5. AfterSpawn(r) \in {"commit", "write", "publish"}
  BY DEF AfterSpawn
<1>6. /\ Moves(r, AfterSpawn(r)) /\ req'[r].method = req[r].method
      /\ req'[r].seen = [req[r].seen EXCEPT !.hw = h]
  <2> DEFINE e == [req[r].seen EXCEPT !.hw = h]
  <2>1. /\ e \in Entry /\ AfterSpawn(r) \in PC
        /\ req' = [req EXCEPT ![r] = [req[r] EXCEPT !.pc = AfterSpawn(r), !.seen = e]]
    BY <1>2, <1>4, <1>5 DEF PC
  <2> HIDE DEF e
  <2>2. Moves(r, AfterSpawn(r)) /\ req'[r].method = req[r].method /\ req'[r].seen = e
    BY <2>1, MoveFacts DEF TypeOK
  <2>3. QED
    BY <2>2 DEF e
<1>7. QED
  BY <1>1, <1>3, <1>4, <1>5, <1>6

(* A handler run begins, the others stay. *)
Opens(r, s, k, p, e, m) ==
  /\ \A q \in Requests \ {r} : req'[q] = req[q]
  /\ req'[r].pc = p /\ req'[r].kind = k /\ req'[r].sess = s
  /\ req'[r].seen = e /\ req'[r].method = m

(* What Begin changes. *)
LEMMA BeginFacts ==
  ASSUME TypeOK, NEW r \in Requests, NEW s, NEW k, NEW p, NEW e, NEW m,
         Begin(r, s, k, p, e, m)
  PROVE  Opens(r, s, k, p, e, m)
BY DEF Opens, Begin, TypeOK

(* A kill changes one child, and only a running one. *)
LEMMA KilledFacts ==
  ASSUME TypeOK, NEW c \in Requests, child' = Killed(c)
  PROVE  \A q \in Requests : child'[q] = IF q = c /\ child[q] = "running" THEN "killed"
                                         ELSE child[q]
BY DEF Killed, TypeOK

(* What a handler's step other than Spawn may do to the children. *)
SameChildren ==
  /\ \A q \in Requests : \/ child'[q] = child[q]
                         \/ child[q] = "running" /\ child'[q] = "killed"
  /\ UNCHANGED <<term, strand>>

(* No handler step but Spawn does more to the children than kill some. *)
LEMMA Kills ==
  ASSUME TypeOK, KindsFit, LocalsFit, NEW r \in Requests,
         \/ KillLive(r) \/ Enter(r) \/ CommitLost(r) \/ Publish(r)
         \/ UNCHANGED <<child, term, strand>>
  PROVE  SameChildren
<1>1. \A c \in Requests : child' = Killed(c) /\ UNCHANGED <<term, strand>> => SameChildren
  BY KilledFacts DEF SameChildren
<1>2. child' = child /\ UNCHANGED <<term, strand>> => SameChildren
  BY DEF SameChildren
<1>3. ASSUME KillLive(r) PROVE SameChildren
  <2>1. live[Sess(r)] # None => live[Sess(r)].child \in Requests
    BY <1>3, EntryFields DEF KillLive, KindsFit, TypeOK, At
  <2>2. QED
    BY <1>1, <1>2, <1>3, <2>1 DEF KillLive
<1>4. ASSUME Enter(r) PROVE SameChildren
  <2>1. req[r].seen.child \in Requests
    BY <1>4, EntryFields DEF Enter, LocalsFit, At, Early
  <2>2. QED
    BY <1>1, <1>2, <1>4, <2>1 DEF Enter
<1>5. CommitLost(r) \/ Publish(r) => SameChildren
  BY <1>1, <1>2 DEF CommitLost, Publish
<1>6. QED
  BY <1>2, <1>3, <1>4, <1>5

(* A handler run that moves keeps LocalsFit if it carries what its new     *)
(* await needs.                                                            *)
LEMMA MoveLocals ==
  ASSUME LocalsFit, NEW r \in Requests, NEW p, Moves(r, p), SameChildren,
         p \in Early \cup Spawned => req'[r].seen \in Entry /\ req'[r].method \in Streams,
         p = "cancelKilled" \/ child[r] # "none" => req'[r].seen \in Entry,
         child[r] # "none" => p \in Spawned \cup {"done"},
         p \in Spawned => child[r] # "none"
  PROVE  LocalsFit'
<1>1. \A q \in Requests \ {r} : req'[q] = req[q]
  BY DEF Moves
<1>2. req'[r].pc = p
  BY DEF Moves
<1>3. ASSUME NEW q \in Requests
      PROVE  /\ child'[q] = "none" <=> child[q] = "none"
             /\ strand'[q] # "none" \/ term'[q] => child'[q] # "none"
  BY DEF LocalsFit, SameChildren
<1>4. QED
  BY <1>1, <1>2, <1>3 DEF LocalsFit, At

(* A handler run that goes on with the locals it has keeps LocalsFit. *)
LEMMA HopLocals ==
  ASSUME LocalsFit, NEW r \in Requests, NEW p, Hop(r, p), SameChildren,
         \/ req[r].pc \in Early /\ p \in Early
         \/ req[r].pc \in Spawned /\ p \in Spawned
         \/ req[r].pc \notin Spawned \cup {"done"} /\ p \in {"kill", "remove"}
  PROVE  LocalsFit'
<1>1. req[r].pc \in Early /\ p \in Early =>
        /\ req[r].seen \in Entry /\ req[r].method \in Streams /\ child[r] = "none"
        /\ p \notin Spawned \cup {"cancelKilled", "done"}
  BY DEF LocalsFit, Early, Spawned
<1>2. req[r].pc \in Spawned /\ p \in Spawned =>
        /\ req[r].seen \in Entry /\ req[r].method \in Streams /\ child[r] # "none"
        /\ p \notin Early \cup {"cancelKilled", "done"}
  BY DEF LocalsFit, Early, Spawned
<1>3. req[r].pc \notin Spawned \cup {"done"} /\ p \in {"kill", "remove"} =>
        /\ child[r] = "none"
        /\ p \notin Early \cup Spawned \cup {"cancelKilled", "done"}
  BY DEF LocalsFit, Early, Spawned
<1>4. Moves(r, p) /\ req'[r].seen = req[r].seen /\ req'[r].method = req[r].method
  BY DEF Hop
<1>5. QED
  BY <1>1, <1>2, <1>3, <1>4, MoveLocals

(* A handler run that returns keeps LocalsFit. *)
LEMMA OverLocals ==
  ASSUME LocalsFit, NEW r \in Requests, Over(r), SameChildren
  PROVE  LocalsFit'
<1>1. child[r] # "none" => req'[r].seen \in Entry
  BY EntryType, EntryFields DEF Over, LocalsFit, Streams
<1>2. "done" \notin Early \cup Spawned
  BY DEF Early, Spawned
<1>3. Moves(r, "done")
  BY DEF Over
<1>4. QED
  BY <1>1, <1>2, <1>3, MoveLocals

(* What a handler run carries stays what its next await needs. *)
LEMMA LocalsStep ==
  TypeOK /\ TypeOK' /\ KindsFit /\ LocalsFit /\ [Next]_vars => LocalsFit'
<1> SUFFICES ASSUME TypeOK, TypeOK', KindsFit, LocalsFit, [Next]_vars PROVE LocalsFit'
  OBVIOUS
<1>1. ASSUME NEW r \in Requests, NEW s \in Sessions, Start(r, s) PROVE LocalsFit'
  <2>a. child[r] = "none" /\ UNCHANGED childVars
    BY <1>1 DEF Start, MayBegin, LocalsFit, At, Spawned
  <2>1. CASE Begin(r, s, "start", "done", None, "DIRECT_PLAY")
    <3>1. Opens(r, s, "start", "done", None, "DIRECT_PLAY")
      BY <2>1, BeginFacts
    <3>2. QED
      BY <3>1, <2>a DEF LocalsFit, Early, Spawned, Opens, At, childVars
  <2>2. ASSUME NEW m \in world.methods \ {"DIRECT_PLAY"}, NEW h \in HwOf(m),
               Begin(r, s, "start", "acquire", NewEntry(r, "main", m, h), m)
        PROVE  LocalsFit'
    <3> DEFINE e == NewEntry(r, "main", m, h)
    <3>1. Opens(r, s, "start", "acquire", e, m)
      BY <2>2, BeginFacts
    <3>2. e \in Entry /\ m \in Streams
      <4>1. m \in Streams /\ h \in BOOLEAN
        BY FieldTypes DEF HwOf, TypeOK, Streams
      <4>2. QED
        BY <4>1, EntryType DEF Dirs
    <3> HIDE DEF e
    <3>3. QED
      BY <3>1, <3>2, <2>a DEF LocalsFit, Early, Spawned, Opens, At, childVars
  <2>3. QED
    BY <1>1, <2>1, <2>2 DEF Start
<1>2. ASSUME NEW r \in Requests, NEW s \in Sessions, FirstSpawn(r, s) PROVE LocalsFit'
  <2> PICK m \in world.methods \ {"DIRECT_PLAY"} : \E h \in HwOf(m) :
         Begin(r, s, "first", "acquire", NewEntry(r, "alt", m, h), m)
    BY <1>2 DEF FirstSpawn
  <2> PICK h \in HwOf(m) : Begin(r, s, "first", "acquire", NewEntry(r, "alt", m, h), m)
    OBVIOUS
  <2> DEFINE e == NewEntry(r, "alt", m, h)
  <2>1. Opens(r, s, "first", "acquire", e, m)
    BY BeginFacts
  <2>2. e \in Entry /\ m \in Streams
    <3>1. m \in Streams /\ h \in BOOLEAN
      BY FieldTypes DEF HwOf, TypeOK, Streams
    <3>2. QED
      BY <3>1, EntryType DEF Dirs
  <2> HIDE DEF e
  <2>9. child[r] = "none" /\ UNCHANGED childVars
    BY <1>2 DEF FirstSpawn, MayBegin, LocalsFit, At, Spawned
  <2>10. QED
    BY <2>1, <2>2, <2>9 DEF LocalsFit, Early, Spawned, Opens, At, childVars
<1>3. ASSUME NEW r \in Requests, NEW s \in Sessions, Seek(r, s) PROVE LocalsFit'
  <2>1. Opens(r, s, "seek", "cancel", live[s], live[s].method)
    BY <1>3, BeginFacts DEF Seek
  <2>2. live[s] \in Entry /\ live[s].method \in Streams
    BY <1>3, EntryFields DEF Seek, TypeOK
  <2>9. child[r] = "none" /\ UNCHANGED childVars
    BY <1>3 DEF Seek, MayBegin, LocalsFit, At, Spawned
  <2>10. QED
    BY <2>1, <2>2, <2>9 DEF LocalsFit, Early, Spawned, Opens, At, childVars
<1>4. ASSUME NEW r \in Requests, NEW s \in Sessions, Switch(r, s) PROVE LocalsFit'
  <2> PICK d \in Dirs, m \in world.methods \ {"DIRECT_PLAY"} :
         Begin(r, s, "switch", "cancel", [live[s] EXCEPT !.dir = d], m)
    BY <1>4 DEF Switch
  <2> DEFINE e == [live[s] EXCEPT !.dir = d]
  <2>1. Opens(r, s, "switch", "cancel", e, m)
    BY BeginFacts
  <2>2. e \in Entry /\ m \in Streams
    <3>1. live[s] \in Entry
      BY <1>4 DEF Switch, TypeOK
    <3>2. m \in Streams
      BY FieldTypes DEF TypeOK, Streams
    <3>3. QED
      BY <3>1, <3>2, EntryType
  <2> HIDE DEF e
  <2>9. child[r] = "none" /\ UNCHANGED childVars
    BY <1>4 DEF Switch, MayBegin, LocalsFit, At, Spawned
  <2>10. QED
    BY <2>1, <2>2, <2>9 DEF LocalsFit, Early, Spawned, Opens, At, childVars
<1>5. ASSUME NEW r \in Requests, NEW s \in Sessions, Reset(r, s) PROVE LocalsFit'
  <2>1. Opens(r, s, "reset", "kill", None, "DIRECT_PLAY")
    BY <1>5, BeginFacts DEF Reset
  <2>2. QED
    BY <2>1, <1>5 DEF Reset, MayBegin, Opens, LocalsFit, Early, Spawned, At,
       childVars
<1>6. ASSUME NEW r \in Requests, NEW s \in Sessions, Stop(r, s) PROVE LocalsFit'
  <2>1. Opens(r, s, "stop", "end", None, "none")
    BY <1>6, BeginFacts DEF Stop
  <2>2. QED
    BY <2>1, <1>6 DEF Stop, MayBegin, Opens, LocalsFit, Early, Spawned, At,
       childVars
<1>7. ASSUME NEW r \in Requests, EndRow(r) PROVE LocalsFit'
  <2>1. SameChildren
    BY <1>7, Kills DEF EndRow, childVars
  <2>2. QED
    BY <2>1, <1>7, Hops, HopLocals DEF EndRow, At, Early, Spawned
<1>8. ASSUME NEW r \in Requests, KillLive(r) PROVE LocalsFit'
  <2>1. SameChildren
    BY <1>8, Kills
  <2>2. At(r, "kill")
    BY <1>8 DEF KillLive
  <2>3. ASSUME Moves(r, "cancelKilled"), req'[r].seen \in Entry PROVE LocalsFit'
    BY <2>1, <2>2, <2>3, MoveLocals DEF LocalsFit, At, Early, Spawned
  <2>4. QED
    BY <2>1, <2>2, <2>3, <1>8, KillLiveHops, HopLocals, OverLocals DEF At,
       Early, Spawned
<1>9. ASSUME NEW r \in Requests, CancelKilled(r) PROVE LocalsFit'
  <2>1. SameChildren
    BY <1>9, Kills DEF CancelKilled, childVars
  <2>2. QED
    BY <2>1, <1>9, Hops, HopLocals, OverLocals DEF CancelKilled, Won, At,
       Early, Spawned
<1>10. ASSUME NEW r \in Requests, RemoveDir(r) PROVE LocalsFit'
  <2>1. SameChildren
    BY <1>10, Kills DEF RemoveDir, childVars
  <2>2. QED
    BY <2>1, <1>10, Hops, OverLocals
<1>11. ASSUME NEW r \in Requests, CancelJob(r) PROVE LocalsFit'
  <2>1. SameChildren
    BY <1>11, Kills DEF CancelJob, childVars
  <2>2. QED
    BY <2>1, <1>11, Hops, HopLocals DEF CancelJob, At, Early, Spawned
<1>12. ASSUME NEW r \in Requests, Enter(r) PROVE LocalsFit'
  <2>1. SameChildren
    BY <1>12, Kills
  <2>2. QED
    BY <2>1, <1>12, Hops, HopLocals, OverLocals DEF Enter, At, Early, Spawned
<1>13. ASSUME NEW r \in Requests, Acquire(r) PROVE LocalsFit'
  <2>1. SameChildren
    BY <1>13, Kills DEF Acquire, childVars
  <2>2. QED
    BY <2>1, <1>13, Hops, HopLocals DEF Acquire, At, Early, Spawned
<1>14. ASSUME NEW r \in Requests, SlotTimeout(r) PROVE LocalsFit'
  <2>1. SameChildren
    BY <1>14, Kills DEF SlotTimeout, childVars
  <2>2. QED
    BY <2>1, <1>14, Hops, OverLocals
<1>15. ASSUME NEW r \in Requests, SlotGranted(r) PROVE LocalsFit'
  <2>1. SameChildren
    BY <1>15, Kills DEF SlotGranted, childVars
  <2>2. QED
    BY <2>1, <1>15, Hops, HopLocals, OverLocals DEF SlotGranted, Won, At,
       Early, Spawned
<1>16. ASSUME NEW r \in Requests, SetUp(r) PROVE LocalsFit'
  <2>1. SameChildren
    BY <1>16, Kills DEF SetUp, childVars
  <2>2. QED
    BY <2>1, <1>16, Hops, HopLocals DEF SetUp, At, Early, Spawned
<1>17. ASSUME NEW r \in Requests, SetUpFails(r) PROVE LocalsFit'
  <2>1. SameChildren
    BY <1>17, Kills DEF SetUpFails, childVars
  <2>2. QED
    BY <2>1, <1>17, Hops, OverLocals
<1>18. ASSUME NEW r \in Requests, CreateJob(r) PROVE LocalsFit'
  <2>1. SameChildren
    BY <1>18, Kills DEF CreateJob, childVars
  <2>2. QED
    BY <2>1, <1>18, Hops, HopLocals DEF CreateJob, At, Early, Spawned
<1>19. ASSUME NEW r \in Requests, FailBeforeSpawn(r) PROVE LocalsFit'
  <2>1. SameChildren
    BY <1>19, Kills DEF FailBeforeSpawn, childVars
  <2>2. QED
    BY <2>1, <1>19, Hops, OverLocals
<1>20. ASSUME NEW r \in Requests, Spawn(r) PROVE LocalsFit'
  <2>1. /\ Moves(r, AfterSpawn(r)) /\ req'[r].seen \in Entry
        /\ req'[r].method \in Streams /\ AfterSpawn(r) \in {"commit", "write", "publish"}
    BY <1>20, SpawnHops
  <2>2. /\ \A q \in Requests \ {r} : child'[q] = child[q]
        /\ child'[r] = "running" /\ UNCHANGED <<strand, term>>
    BY <1>20 DEF Spawn, TypeOK
  <2>3. QED
    BY <2>1, <2>2 DEF Moves, LocalsFit, At, Early, Spawned
<1>21. ASSUME NEW r \in Requests, Commit(r) PROVE LocalsFit'
  <2>1. SameChildren
    BY <1>21, Kills DEF Commit, childVars
  <2>2. QED
    BY <2>1, <1>21, Hops, HopLocals DEF Commit, At, Early, Spawned
<1>22. ASSUME NEW r \in Requests, CommitFails(r) PROVE LocalsFit'
  <2>1. SameChildren
    BY <1>22, Kills DEF CommitFails, childVars
  <2>2. QED
    BY <2>1, <1>22, Hops, OverLocals
<1>23. ASSUME NEW r \in Requests, CommitWon(r) PROVE LocalsFit'
  <2>1. SameChildren
    BY <1>23, Kills DEF CommitWon, childVars
  <2>2. QED
    BY <2>1, <1>23, Hops, HopLocals, OverLocals DEF CommitWon, Won, At, Early,
       Spawned
<1>24. ASSUME NEW r \in Requests, CommitLost(r) PROVE LocalsFit'
  <2>1. SameChildren
    BY <1>24, Kills
  <2>2. QED
    BY <2>1, <1>24, Hops, HopLocals DEF CommitLost, Lost, At, Early, Spawned
<1>25. ASSUME NEW r \in Requests, CancelNewJob(r) PROVE LocalsFit'
  <2>1. SameChildren
    BY <1>25, Kills DEF CancelNewJob, childVars
  <2>2. QED
    BY <2>1, <1>25, Hops, OverLocals
<1>26. ASSUME NEW r \in Requests, WritePlaylist(r) PROVE LocalsFit'
  <2>1. SameChildren
    BY <1>26, Kills DEF WritePlaylist, childVars
  <2>2. QED
    BY <2>1, <1>26, Hops, HopLocals DEF WritePlaylist, At, Early, Spawned
<1>27. ASSUME NEW r \in Requests, WriteFails(r) PROVE LocalsFit'
  <2>1. SameChildren
    BY <1>27, Kills DEF WriteFails, childVars
  <2>2. QED
    BY <2>1, <1>27, Hops, HopLocals, OverLocals DEF WriteFails, Won, At,
       Early, Spawned
<1>28. ASSUME NEW r \in Requests, Publish(r) PROVE LocalsFit'
  <2>1. SameChildren
    BY <1>28, Kills
  <2>2. QED
    BY <2>1, <1>28, Hops, OverLocals
<1>29. ASSUME NEW c \in Requests, Exit(c) PROVE LocalsFit'
  <2>1. \A q \in Requests : child'[q] = "none" <=> child[q] = "none"
    BY <1>29, FieldTypes DEF Exit, Alive, TypeOK
  <2>2. \A q \in Requests : strand'[q] # "none" \/ term'[q] => child[q] # "none"
    BY <1>29 DEF Exit, Alive, TypeOK, LocalsFit
  <2>3. QED
    BY <2>1, <2>2, <1>29 DEF Exit, LocalsFit, At
<1>30. ASSUME NEW c \in Requests, SetTerminal(c) PROVE LocalsFit'
  <2>1. \A q \in Requests : strand'[q] # "none" \/ term'[q] => strand[q] # "none" \/ term[q]
    BY <1>30 DEF SetTerminal, TypeOK
  <2>2. QED
    BY <2>1, <1>30 DEF SetTerminal, LocalsFit, At
<1>31. ASSUME NEW c \in Requests, Truncate(c) PROVE LocalsFit'
  <2>1. \A q \in Requests : strand'[q] # "none" \/ term'[q] => strand[q] # "none" \/ term[q]
    BY <1>31 DEF Truncate, TypeOK
  <2>2. QED
    BY <2>1, <1>31 DEF Truncate, LocalsFit, At
<1>32. ASSUME NEW c \in Requests, NoFallback(c) PROVE LocalsFit'
  <2>1. \A q \in Requests : strand'[q] # "none" \/ term'[q] => strand[q] # "none" \/ term[q]
    BY <1>32 DEF NoFallback, TypeOK
  <2>2. QED
    BY <2>1, <1>32 DEF NoFallback, LocalsFit, At
<1>33. ASSUME NEW r \in Requests, NEW c \in Requests, Fallback(r, c) PROVE LocalsFit'
  <2>1. Sess(c) \in Sessions /\ live[Sess(c)] \in Entry
    BY <1>33 DEF Fallback, MayFallBack, TypeOK, KindsFit, LocalsFit, At, Spawned
  <2>2. live[Sess(c)].method \in Streams
    BY <2>1, EntryFields
  <2>3. Opens(r, Sess(c), "fallback", "enter", live[Sess(c)], live[Sess(c)].method)
    BY <1>33, BeginFacts DEF Fallback
  <2>4. child[r] = "none" /\ UNCHANGED child /\ UNCHANGED term
    BY <1>33 DEF Fallback, MayBegin, LocalsFit, At, Spawned
  <2>5. \A q \in Requests : strand'[q] # "none" => strand[q] # "none"
    BY <1>33 DEF Fallback, TypeOK
  <2>6. QED
    BY <2>1, <2>2, <2>3, <2>4, <2>5 DEF LocalsFit, Early, Spawned, Opens, At
<1>34. ASSUME SweepJobs PROVE LocalsFit'
  BY <1>34 DEF SweepJobs, LocalsFit, At
<1>35. CASE UNCHANGED vars
  BY <1>35 DEF vars, childVars, LocalsFit, At
<1>36. QED
  BY <1>1, <1>2, <1>3, <1>4, <1>5, <1>6, <1>7, <1>8, <1>9, <1>10, <1>11,
     <1>12, <1>13, <1>14, <1>15, <1>16, <1>17, <1>18, <1>19, <1>20, <1>21,
     <1>22, <1>23, <1>24, <1>25, <1>26, <1>27, <1>28, <1>29, <1>30, <1>31,
     <1>32, <1>33, <1>34, <1>35 DEF Next, Call, Continue, AfterExit

(* Who a slot belongs to: a child that has not exited, or the handler that *)
(* is about to spawn one.                                                  *)
Owner(r) ==
  \/ Alive(r)
  \/ req[r].pc \in {"prep", "spawn"}
  \/ At(r, "slot") /\ client[r] = "holding"

SlotFacts ==
  \A r \in Requests :
    /\ client[r] = "waiting" => At(r, "slot")
    /\ Owner(r) => client[r] = "holding"
    /\ "setup" \notin world.faults => (client[r] = "holding" => Owner(r))

(* What the operations of the semaphore do, client by client.              *)
LEMMA SlotMoves ==
  ASSUME SlotInv, NEW r \in Requests
  PROVE  /\ Slot!Acquire(r) => /\ client'[r] \in {"waiting", "holding"}
                               /\ \A q \in Requests \ {r} : client'[q] = client[q]
         /\ Slot!Timeout(r) => /\ client[r] = "waiting" /\ client'[r] = "idle"
                               /\ \A q \in Requests \ {r} : client'[q] = client[q]
         /\ Slot!Release(r) =>
              /\ client[r] = "holding" /\ client'[r] = "idle"
              /\ \A q \in Requests \ {r} :
                   \/ client'[q] = client[q]
                   \/ client[q] = "waiting" /\ client'[q] = "holding"
<1>1. client \in [Requests -> Slot!ClientState]
  BY DEF SlotInv, Slot!TypeOK
<1>2. ASSUME Slot!Acquire(r)
      PROVE  /\ client'[r] \in {"waiting", "holding"}
             /\ \A q \in Requests \ {r} : client'[q] = client[q]
  BY <1>1, <1>2 DEF Slot!Acquire, Slot!AcquireNow, Slot!AcquireWait
<1>3. ASSUME Slot!Timeout(r)
      PROVE  /\ client[r] = "waiting" /\ client'[r] = "idle"
             /\ \A q \in Requests \ {r} : client'[q] = client[q]
  BY <1>1, <1>3 DEF Slot!Timeout, SlotInv, Slot!QueueMatchesWaiting,
     Slot!Waiting
<1>4. ASSUME Slot!Release(r)
      PROVE  /\ client[r] = "holding" /\ client'[r] = "idle"
             /\ \A q \in Requests \ {r} :
                  \/ client'[q] = client[q]
                  \/ client[q] = "waiting" /\ client'[q] = "holding"
  <2>1. CASE Slot!Free(r)
    BY <1>1, <2>1 DEF Slot!Free
  <2>2. CASE Slot!Handoff(r)
    <3>1. waiters \in Seq(Requests) /\ waiters # <<>>
      BY <2>2 DEF Slot!Handoff, SlotInv, Slot!TypeOK
    <3>2. 1 \in DOMAIN waiters /\ Head(waiters) = waiters[1]
      BY <3>1
    <3>3. Head(waiters) \in Requests /\ client[Head(waiters)] = "waiting"
      BY <3>1, <3>2 DEF SlotInv, Slot!QueueMatchesWaiting, Slot!Waiting
    <3>4. QED
      BY <1>1, <2>2, <3>3 DEF Slot!Handoff
  <2>3. QED
    BY <1>4, <2>1, <2>2 DEF Slot!Release
<1>5. QED
  BY <1>2, <1>3, <1>4

(* A step of one handler run or of one exit callback: the others keep      *)
(* their slots or are handed one.                                          *)
LEMMA KeepSlots ==
  ASSUME SlotFacts, NEW r \in Requests, world' = world,
         \A q \in Requests \ {r} : req'[q].pc = req[q].pc,
         \A q \in Requests \ {r} : Alive(q)' <=> Alive(q),
         \A q \in Requests \ {r} : \/ client'[q] = client[q]
                                   \/ client[q] = "waiting" /\ client'[q] = "holding",
         client'[r] = "waiting" => At(r, "slot")',
         Owner(r)' => client'[r] = "holding",
         "setup" \notin world.faults => (client'[r] = "holding" => Owner(r)')
  PROVE  SlotFacts'
<1>1. ASSUME NEW q \in Requests \ {r}
      PROVE  /\ client'[q] = "waiting" => At(q, "slot")'
             /\ Owner(q)' => client'[q] = "holding"
             /\ "setup" \notin world.faults => (client'[q] = "holding" => Owner(q)')
  BY <1>1 DEF SlotFacts, Owner, At
<1>2. QED
  BY <1>1 DEF SlotFacts

(* A step of a handler run that is neither at the semaphore nor owns a     *)
(* slot for the child it will spawn, before and after.                     *)
LEMMA QuietSlots ==
  ASSUME SlotFacts, NEW r \in Requests, UNCHANGED <<world, client>>,
         \A q \in Requests \ {r} : req'[q].pc = req[q].pc,
         \A q \in Requests : Alive(q)' <=> Alive(q),
         req[r].pc \notin {"slot", "prep", "spawn"},
         req'[r].pc \notin {"slot", "prep", "spawn"}
  PROVE  SlotFacts'
<1>1. /\ client'[r] = "waiting" => At(r, "slot")'
      /\ Owner(r)' => client'[r] = "holding"
      /\ "setup" \notin world.faults => (client'[r] = "holding" => Owner(r)')
  BY DEF SlotFacts, Owner, At
<1>2. QED
  BY <1>1, KeepSlots

(* Killing a child does not make it exit. *)
LEMMA StillAlive ==
  ASSUME SameChildren
  PROVE  \A q \in Requests : Alive(q)' <=> Alive(q)
BY DEF SameChildren, Alive

(* Slots are taken, held and given back by their owners. *)
LEMMA SlotFactsStep ==
  TypeOK /\ TypeOK' /\ KindsFit /\ LocalsFit /\ SlotInv /\ SlotFacts /\ [Next]_vars
    => SlotFacts'
<1> SUFFICES ASSUME TypeOK, TypeOK', KindsFit, LocalsFit, SlotInv, SlotFacts, [Next]_vars
             PROVE  SlotFacts'
  OBVIOUS
<1>1. ASSUME NEW r \in Requests, NEW s \in Sessions, Start(r, s) PROVE SlotFacts'
  <2>1. /\ \A q \in Requests \ {r} : req'[q] = req[q]
        /\ req'[r].pc \in {"done", "acquire"}
    BY <1>1, BeginFacts DEF Start, Opens
  <2>2. UNCHANGED <<world, client, child>> /\ At(r, "idle")
    BY <1>1 DEF Start, MayBegin, slotVars, childVars
  <2>3. QED
    BY <2>1, <2>2, QuietSlots DEF At, Alive
<1>2. ASSUME NEW r \in Requests, NEW s \in Sessions, FirstSpawn(r, s) PROVE SlotFacts'
  <2>1. /\ \A q \in Requests \ {r} : req'[q] = req[q]
        /\ req'[r].pc \in {"acquire"}
    BY <1>2, BeginFacts DEF FirstSpawn, Opens
  <2>2. UNCHANGED <<world, client, child>> /\ At(r, "idle")
    BY <1>2 DEF FirstSpawn, MayBegin, slotVars, childVars
  <2>3. QED
    BY <2>1, <2>2, QuietSlots DEF At, Alive
<1>3. ASSUME NEW r \in Requests, NEW s \in Sessions, Seek(r, s) PROVE SlotFacts'
  <2>1. /\ \A q \in Requests \ {r} : req'[q] = req[q]
        /\ req'[r].pc \in {"cancel"}
    BY <1>3, BeginFacts DEF Seek, Opens
  <2>2. UNCHANGED <<world, client, child>> /\ At(r, "idle")
    BY <1>3 DEF Seek, MayBegin, slotVars, childVars
  <2>3. QED
    BY <2>1, <2>2, QuietSlots DEF At, Alive
<1>4. ASSUME NEW r \in Requests, NEW s \in Sessions, Switch(r, s) PROVE SlotFacts'
  <2>1. /\ \A q \in Requests \ {r} : req'[q] = req[q]
        /\ req'[r].pc \in {"cancel"}
    BY <1>4, BeginFacts DEF Switch, Opens
  <2>2. UNCHANGED <<world, client, child>> /\ At(r, "idle")
    BY <1>4 DEF Switch, MayBegin, slotVars, childVars
  <2>3. QED
    BY <2>1, <2>2, QuietSlots DEF At, Alive
<1>5. ASSUME NEW r \in Requests, NEW s \in Sessions, Reset(r, s) PROVE SlotFacts'
  <2>1. /\ \A q \in Requests \ {r} : req'[q] = req[q]
        /\ req'[r].pc \in {"kill"}
    BY <1>5, BeginFacts DEF Reset, Opens
  <2>2. UNCHANGED <<world, client, child>> /\ At(r, "idle")
    BY <1>5 DEF Reset, MayBegin, slotVars, childVars
  <2>3. QED
    BY <2>1, <2>2, QuietSlots DEF At, Alive
<1>6. ASSUME NEW r \in Requests, NEW s \in Sessions, Stop(r, s) PROVE SlotFacts'
  <2>1. /\ \A q \in Requests \ {r} : req'[q] = req[q]
        /\ req'[r].pc \in {"end"}
    BY <1>6, BeginFacts DEF Stop, Opens
  <2>2. UNCHANGED <<world, client, child>> /\ At(r, "idle")
    BY <1>6 DEF Stop, MayBegin, slotVars, childVars
  <2>3. QED
    BY <2>1, <2>2, QuietSlots DEF At, Alive
<1>7. ASSUME NEW r \in Requests, EndRow(r) PROVE SlotFacts'
  <2>1. /\ \A q \in Requests \ {r} : req'[q] = req[q]
        /\ req'[r].pc \in {"kill"}
    BY <1>7, Hops DEF Hop, Over, Moves
  <2>2. UNCHANGED <<world, client>> /\ req[r].pc \notin {"slot", "prep", "spawn"}
    BY <1>7 DEF EndRow, At, slotVars
  <2>3. SameChildren
    BY <1>7, Kills DEF EndRow, childVars
  <2>4. QED
    BY <2>1, <2>2, <2>3, QuietSlots, StillAlive
<1>8. ASSUME NEW r \in Requests, KillLive(r) PROVE SlotFacts'
  <2>1. /\ \A q \in Requests \ {r} : req'[q] = req[q]
        /\ req'[r].pc \in {"cancelKilled", "remove", "done"}
    BY <1>8, KillLiveHops DEF Hop, Over, Moves
  <2>2. UNCHANGED <<world, client>> /\ req[r].pc \notin {"slot", "prep", "spawn"}
    BY <1>8 DEF KillLive, At, slotVars
  <2>3. SameChildren
    BY <1>8, Kills
  <2>4. QED
    BY <2>1, <2>2, <2>3, QuietSlots, StillAlive
<1>9. ASSUME NEW r \in Requests, CancelKilled(r) PROVE SlotFacts'
  <2>1. /\ \A q \in Requests \ {r} : req'[q] = req[q]
        /\ req'[r].pc \in {"remove", "done"}
    BY <1>9, Hops DEF Hop, Over, Moves
  <2>2. UNCHANGED <<world, client>> /\ req[r].pc \notin {"slot", "prep", "spawn"}
    BY <1>9 DEF CancelKilled, At, slotVars
  <2>3. SameChildren
    BY <1>9, Kills DEF CancelKilled, childVars
  <2>4. QED
    BY <2>1, <2>2, <2>3, QuietSlots, StillAlive
<1>10. ASSUME NEW r \in Requests, RemoveDir(r) PROVE SlotFacts'
  <2>1. /\ \A q \in Requests \ {r} : req'[q] = req[q]
        /\ req'[r].pc \in {"done"}
    BY <1>10, Hops DEF Hop, Over, Moves
  <2>2. UNCHANGED <<world, client>> /\ req[r].pc \notin {"slot", "prep", "spawn"}
    BY <1>10 DEF RemoveDir, At, slotVars
  <2>3. SameChildren
    BY <1>10, Kills DEF RemoveDir, childVars
  <2>4. QED
    BY <2>1, <2>2, <2>3, QuietSlots, StillAlive
<1>11. ASSUME NEW r \in Requests, CancelJob(r) PROVE SlotFacts'
  <2>1. /\ \A q \in Requests \ {r} : req'[q] = req[q]
        /\ req'[r].pc \in {"enter"}
    BY <1>11, Hops DEF Hop, Over, Moves
  <2>2. UNCHANGED <<world, client>> /\ req[r].pc \notin {"slot", "prep", "spawn"}
    BY <1>11 DEF CancelJob, At, slotVars
  <2>3. SameChildren
    BY <1>11, Kills DEF CancelJob, childVars
  <2>4. QED
    BY <2>1, <2>2, <2>3, QuietSlots, StillAlive
<1>12. ASSUME NEW r \in Requests, Enter(r) PROVE SlotFacts'
  <2>1. /\ \A q \in Requests \ {r} : req'[q] = req[q]
        /\ req'[r].pc \in {"exitWait", "done"}
    BY <1>12, Hops DEF Hop, Over, Moves
  <2>2. UNCHANGED <<world, client>> /\ req[r].pc \notin {"slot", "prep", "spawn"}
    BY <1>12 DEF Enter, At, slotVars
  <2>3. SameChildren
    BY <1>12, Kills
  <2>4. QED
    BY <2>1, <2>2, <2>3, QuietSlots, StillAlive
<1>13. ASSUME NEW r \in Requests, Acquire(r) PROVE SlotFacts'
  <2>1. /\ \A q \in Requests \ {r} : req'[q] = req[q]
        /\ req'[r].pc = "slot"
    BY <1>13, Hops DEF Hop, Moves
  <2>2. UNCHANGED <<world, child>> /\ child[r] = "none"
    BY <1>13 DEF Acquire, childVars, LocalsFit, At, Spawned
  <2>3. /\ client'[r] \in {"waiting", "holding"}
        /\ \A q \in Requests \ {r} : client'[q] = client[q]
    BY <1>13, SlotMoves DEF Acquire
  <2>4. /\ Owner(r)' => client'[r] = "holding"
        /\ client'[r] = "holding" => Owner(r)'
        /\ At(r, "slot")'
    BY <2>1, <2>2, <2>3 DEF Owner, At, Alive
  <2>5. QED
    BY <2>1, <2>2, <2>3, <2>4, KeepSlots DEF Alive
<1>14. ASSUME NEW r \in Requests, SlotTimeout(r) PROVE SlotFacts'
  <2>1. /\ \A q \in Requests \ {r} : req'[q] = req[q]
        /\ req'[r].pc = "done"
    BY <1>14, Hops DEF Over, Moves
  <2>2. UNCHANGED <<world, child>>
    BY <1>14 DEF SlotTimeout, childVars
  <2>3. /\ client[r] = "waiting" /\ client'[r] = "idle"
        /\ \A q \in Requests \ {r} : client'[q] = client[q]
    BY <1>14, SlotMoves DEF SlotTimeout
  <2>4. ~Owner(r)'
    BY <2>1, <2>2, <2>3 DEF SlotFacts, Owner, At, Alive
  <2>5. QED
    BY <2>1, <2>2, <2>3, <2>4, KeepSlots DEF Alive
<1>15. ASSUME NEW r \in Requests, SlotGranted(r) PROVE SlotFacts'
  <2>1. UNCHANGED <<world, child>> /\ child[r] = "none" /\ client[r] = "holding"
    BY <1>15 DEF SlotGranted, childVars, LocalsFit, At, Spawned
  <2>2. CASE Slot!Release(r) /\ Over(r)
    <3>1. /\ client'[r] = "idle"
          /\ \A q \in Requests \ {r} :
               \/ client'[q] = client[q]
               \/ client[q] = "waiting" /\ client'[q] = "holding"
      BY <2>2, SlotMoves
    <3>2. /\ \A q \in Requests \ {r} : req'[q] = req[q]
          /\ ~Owner(r)'
      BY <2>1, <2>2 DEF Over, Moves, Owner, At, Alive
    <3>3. QED
      BY <2>1, <3>1, <3>2, KeepSlots DEF Alive
  <2>3. CASE UNCHANGED slotVars /\ Hop(r, "prep")
    <3>1. /\ \A q \in Requests \ {r} : req'[q] = req[q]
          /\ Owner(r)' /\ UNCHANGED client
      BY <2>3 DEF Hop, Moves, Owner, slotVars
    <3>2. QED
      BY <2>1, <3>1, KeepSlots DEF Alive
  <2>4. QED
    <3>1. Finish(r) => Over(r)
      BY MoveFacts DEF Over, TypeOK
    <3>2. Goto(r, "prep") => Hop(r, "prep")
      BY MoveFacts DEF Hop, TypeOK, PC
    <3>3. QED
      BY <2>2, <2>3, <3>1, <3>2, <1>15 DEF SlotGranted
<1>16. ASSUME NEW r \in Requests, SetUp(r) PROVE SlotFacts'
  <2>1. /\ \A q \in Requests \ {r} : req'[q] = req[q]
        /\ req'[r].pc = "prep"
    BY <1>16, Hops DEF Hop, Over, Moves
  <2>2. UNCHANGED <<world, child, client>> /\ client[r] = "holding"
    BY <1>16 DEF SetUp, childVars, slotVars, SlotFacts, Owner, At
  <2>3. Owner(r)'
    BY <2>1, <2>2 DEF Owner, At
  <2>4. QED
    BY <2>1, <2>2, <2>3, KeepSlots DEF Alive
<1>17. ASSUME NEW r \in Requests, SetUpFails(r) PROVE SlotFacts'
  <2>1. /\ \A q \in Requests \ {r} : req'[q] = req[q]
        /\ req'[r].pc = "done"
    BY <1>17, Hops DEF Hop, Over, Moves
  <2>2. UNCHANGED <<world, child, client>> /\ client[r] = "holding"
    BY <1>17 DEF SetUpFails, childVars, slotVars, SlotFacts, Owner, At
  <2>3. "setup" \in world.faults
    BY <2>1, <2>2, <1>17 DEF SetUpFails, Owner, At
  <2>4. QED
    BY <2>1, <2>2, <2>3, KeepSlots DEF Alive
<1>18. ASSUME NEW r \in Requests, CreateJob(r) PROVE SlotFacts'
  <2>1. /\ \A q \in Requests \ {r} : req'[q] = req[q]
        /\ req'[r].pc = "spawn"
    BY <1>18, Hops DEF Hop, Over, Moves
  <2>2. UNCHANGED <<world, child, client>> /\ client[r] = "holding"
    BY <1>18 DEF CreateJob, childVars, slotVars, SlotFacts, Owner, At
  <2>3. Owner(r)'
    BY <2>1, <2>2 DEF Owner, At
  <2>4. QED
    BY <2>1, <2>2, <2>3, KeepSlots DEF Alive
<1>19. ASSUME NEW r \in Requests, FailBeforeSpawn(r) PROVE SlotFacts'
  <2>1. /\ \A q \in Requests \ {r} : req'[q] = req[q]
        /\ req'[r].pc = "done"
    BY <1>19, Hops DEF Over, Moves
  <2>2. UNCHANGED <<world, child>> /\ child[r] = "none"
    BY <1>19 DEF FailBeforeSpawn, childVars, LocalsFit, At, Spawned
  <2>3. /\ client'[r] = "idle"
        /\ \A q \in Requests \ {r} :
             \/ client'[q] = client[q]
             \/ client[q] = "waiting" /\ client'[q] = "holding"
    BY <1>19, SlotMoves DEF FailBeforeSpawn
  <2>4. ~Owner(r)'
    BY <2>1, <2>2 DEF Owner, At, Alive
  <2>5. QED
    BY <2>1, <2>2, <2>3, <2>4, KeepSlots DEF Alive
<1>20. ASSUME NEW r \in Requests, Spawn(r) PROVE SlotFacts'
  <2>1. /\ \A q \in Requests \ {r} : req'[q] = req[q]
        /\ req'[r].pc \in {"commit", "write", "publish"}
    BY <1>20, SpawnHops DEF Moves
  <2>2. /\ \A q \in Requests \ {r} : child'[q] = child[q]
        /\ child'[r] = "running"
        /\ UNCHANGED <<world, client>> /\ client[r] = "holding"
    BY <1>20 DEF Spawn, TypeOK, slotVars, SlotFacts, Owner, At
  <2>3. Owner(r)'
    BY <2>2 DEF Owner, Alive
  <2>4. QED
    BY <2>1, <2>2, <2>3, KeepSlots DEF Alive
<1>21. ASSUME NEW r \in Requests, Commit(r) PROVE SlotFacts'
  <2>1. /\ \A q \in Requests \ {r} : req'[q] = req[q]
        /\ req'[r].pc \in {"committed", "tooLate"}
    BY <1>21, Hops DEF Hop, Over, Moves
  <2>2. UNCHANGED <<world, client>> /\ req[r].pc \notin {"slot", "prep", "spawn"}
    BY <1>21 DEF Commit, At, slotVars
  <2>3. SameChildren
    BY <1>21, Kills DEF Commit, childVars
  <2>4. QED
    BY <2>1, <2>2, <2>3, QuietSlots, StillAlive
<1>22. ASSUME NEW r \in Requests, CommitFails(r) PROVE SlotFacts'
  <2>1. /\ \A q \in Requests \ {r} : req'[q] = req[q]
        /\ req'[r].pc \in {"done"}
    BY <1>22, Hops DEF Hop, Over, Moves
  <2>2. UNCHANGED <<world, client>> /\ req[r].pc \notin {"slot", "prep", "spawn"}
    BY <1>22 DEF CommitFails, At, slotVars
  <2>3. SameChildren
    BY <1>22, Kills DEF CommitFails, childVars
  <2>4. QED
    BY <2>1, <2>2, <2>3, QuietSlots, StillAlive
<1>23. ASSUME NEW r \in Requests, CommitWon(r) PROVE SlotFacts'
  <2>1. /\ \A q \in Requests \ {r} : req'[q] = req[q]
        /\ req'[r].pc \in {"write", "done"}
    BY <1>23, Hops DEF Hop, Over, Moves
  <2>2. UNCHANGED <<world, client>> /\ req[r].pc \notin {"slot", "prep", "spawn"}
    BY <1>23 DEF CommitWon, At, slotVars, Won
  <2>3. SameChildren
    BY <1>23, Kills DEF CommitWon, childVars
  <2>4. QED
    BY <2>1, <2>2, <2>3, QuietSlots, StillAlive
<1>24. ASSUME NEW r \in Requests, CommitLost(r) PROVE SlotFacts'
  <2>1. /\ \A q \in Requests \ {r} : req'[q] = req[q]
        /\ req'[r].pc \in {"lost"}
    BY <1>24, Hops DEF Hop, Over, Moves
  <2>2. UNCHANGED <<world, client>> /\ req[r].pc \notin {"slot", "prep", "spawn"}
    BY <1>24 DEF CommitLost, At, slotVars, Lost
  <2>3. SameChildren
    BY <1>24, Kills
  <2>4. QED
    BY <2>1, <2>2, <2>3, QuietSlots, StillAlive
<1>25. ASSUME NEW r \in Requests, CancelNewJob(r) PROVE SlotFacts'
  <2>1. /\ \A q \in Requests \ {r} : req'[q] = req[q]
        /\ req'[r].pc \in {"done"}
    BY <1>25, Hops DEF Hop, Over, Moves
  <2>2. UNCHANGED <<world, client>> /\ req[r].pc \notin {"slot", "prep", "spawn"}
    BY <1>25 DEF CancelNewJob, At, slotVars
  <2>3. SameChildren
    BY <1>25, Kills DEF CancelNewJob, childVars
  <2>4. QED
    BY <2>1, <2>2, <2>3, QuietSlots, StillAlive
<1>26. ASSUME NEW r \in Requests, WritePlaylist(r) PROVE SlotFacts'
  <2>1. /\ \A q \in Requests \ {r} : req'[q] = req[q]
        /\ req'[r].pc \in {"publish"}
    BY <1>26, Hops DEF Hop, Over, Moves
  <2>2. UNCHANGED <<world, client>> /\ req[r].pc \notin {"slot", "prep", "spawn"}
    BY <1>26 DEF WritePlaylist, At, slotVars
  <2>3. SameChildren
    BY <1>26, Kills DEF WritePlaylist, childVars
  <2>4. QED
    BY <2>1, <2>2, <2>3, QuietSlots, StillAlive
<1>27. ASSUME NEW r \in Requests, WriteFails(r) PROVE SlotFacts'
  <2>1. /\ \A q \in Requests \ {r} : req'[q] = req[q]
        /\ req'[r].pc \in {"publish", "done"}
    BY <1>27, Hops DEF Hop, Over, Moves
  <2>2. UNCHANGED <<world, client>> /\ req[r].pc \notin {"slot", "prep", "spawn"}
    BY <1>27 DEF WriteFails, At, slotVars
  <2>3. SameChildren
    BY <1>27, Kills DEF WriteFails, childVars
  <2>4. QED
    BY <2>1, <2>2, <2>3, QuietSlots, StillAlive
<1>28. ASSUME NEW r \in Requests, Publish(r) PROVE SlotFacts'
  <2>1. /\ \A q \in Requests \ {r} : req'[q] = req[q]
        /\ req'[r].pc \in {"done"}
    BY <1>28, Hops DEF Hop, Over, Moves
  <2>2. UNCHANGED <<world, client>> /\ req[r].pc \notin {"slot", "prep", "spawn"}
    BY <1>28 DEF Publish, At, slotVars
  <2>3. SameChildren
    BY <1>28, Kills
  <2>4. QED
    BY <2>1, <2>2, <2>3, QuietSlots, StillAlive
<1>29. ASSUME NEW c \in Requests, Exit(c) PROVE SlotFacts'
  <2>1. /\ \A q \in Requests \ {c} : child'[q] = child[q]
        /\ UNCHANGED <<world, req>>
    BY <1>29 DEF Exit, TypeOK
  <2>2. ~Alive(c)' /\ Alive(c)
    BY <1>29, FieldTypes DEF Exit, Alive, TypeOK
  <2>3. /\ client'[c] = "idle"
        /\ \A q \in Requests \ {c} :
             \/ client'[q] = client[q]
             \/ client[q] = "waiting" /\ client'[q] = "holding"
    BY <1>29, SlotMoves DEF Exit
  <2>4. ~Owner(c)'
    BY <2>1, <2>2, <2>3 DEF Owner, At, Alive, LocalsFit, Spawned
  <2>5. QED
    BY <2>1, <2>2, <2>3, <2>4, KeepSlots DEF Alive
<1>30. ASSUME NEW c \in Requests, SetTerminal(c) PROVE SlotFacts'
  BY <1>30 DEF SetTerminal, slotVars, SlotFacts, Owner, At, Alive
<1>31. ASSUME NEW c \in Requests, Truncate(c) PROVE SlotFacts'
  BY <1>31 DEF Truncate, slotVars, SlotFacts, Owner, At, Alive
<1>32. ASSUME NEW c \in Requests, NoFallback(c) PROVE SlotFacts'
  BY <1>32 DEF NoFallback, slotVars, SlotFacts, Owner, At, Alive
<1>33. ASSUME NEW r \in Requests, NEW c \in Requests, Fallback(r, c) PROVE SlotFacts'
  <2>1. /\ \A q \in Requests \ {r} : req'[q] = req[q]
        /\ req'[r].pc = "enter"
    BY <1>33, BeginFacts DEF Fallback, Opens
  <2>2. UNCHANGED <<world, client, child>> /\ At(r, "idle")
    BY <1>33 DEF Fallback, MayBegin, slotVars
  <2>3. QED
    BY <2>1, <2>2, QuietSlots DEF At, Alive
<1>34. ASSUME SweepJobs PROVE SlotFacts'
  BY <1>34 DEF SweepJobs, slotVars, SlotFacts, Owner, At, Alive
<1>35. CASE UNCHANGED vars
  BY <1>35 DEF vars, slotVars, childVars, SlotFacts, Owner, At, Alive
<1>36. QED
  BY <1>1, <1>2, <1>3, <1>4, <1>5, <1>6, <1>7, <1>8, <1>9, <1>10, <1>11,
     <1>12, <1>13, <1>14, <1>15, <1>16, <1>17, <1>18, <1>19, <1>20, <1>21,
     <1>22, <1>23, <1>24, <1>25, <1>26, <1>27, <1>28, <1>29, <1>30, <1>31,
     <1>32, <1>33, <1>34, <1>35 DEF Next, Call, Continue, AfterExit

(* The entry marked by Enter, and the one a finished spawn publishes.      *)
Marked(e) == [e EXCEPT !.restarting = TRUE]
OwnEntry(r) == [req[r].seen EXCEPT !.child = r, !.method = req[r].method]

(* Marking an entry changes nothing else in it. *)
LEMMA MarkedFields ==
  ASSUME NEW e \in Entry
  PROVE  /\ Marked(e) \in Entry /\ Marked(e).restarting
         /\ Marked(e).child = e.child /\ Marked(e).dir = e.dir
         /\ Marked(e).method = e.method /\ Marked(e).hw = e.hw
BY DEF Marked, Entry

(* The entry a finished spawn publishes. *)
LEMMA OwnFields ==
  ASSUME NEW r \in Requests, req[r].seen \in Entry, req[r].method \in Streams
  PROVE  /\ OwnEntry(r) \in Entry
         /\ OwnEntry(r).child = r /\ OwnEntry(r).method = req[r].method
         /\ OwnEntry(r).dir = req[r].seen.dir
         /\ OwnEntry(r).restarting = req[r].seen.restarting
BY DEF OwnEntry, Entry, Streams

(* An action on one session's entry. *)
Sets(s, e) ==
  live'[s] = e /\ \A t \in Sessions \ {s} : live'[t] = live[t]

(* What the actions that touch the map of live sessions do to it. *)
LEMMA LiveMoves ==
  ASSUME TypeOK, KindsFit, LocalsFit, NEW r \in Requests
  PROVE  /\ KillLive(r) => Sets(Sess(r), None)
         /\ Enter(r) => \/ UNCHANGED live /\ live[Sess(r)] = None /\ Hop(r, "exitWait")
                        \/ /\ UNCHANGED live /\ live[Sess(r)] \in Entry
                           /\ live[Sess(r)].restarting /\ Over(r)
                        \/ /\ Sets(Sess(r), Marked(live[Sess(r)])) /\ live[Sess(r)] \in Entry
                           /\ ~live[Sess(r)].restarting /\ Hop(r, "exitWait")
         /\ SlotTimeout(r) \/ FailBeforeSpawn(r) =>
              \/ /\ Sets(Sess(r), req[r].seen) /\ live[Sess(r)] # None
                 /\ IsRestart(r) /\ req[r].seen \in Entry
              \/ UNCHANGED live /\ (IsRestart(r) => live[Sess(r)] = None)
         /\ CommitWon(r) =>
              \/ /\ UNCHANGED <<live, reserved>> /\ Hop(r, "write")
                 /\ IsRestart(r) /\ req[r].method = "TRANSCODE"
              \/ /\ Sets(Sess(r), OwnEntry(r)) /\ Over(r) /\ reserved' = Unreserved(r)
                 /\ IsRestart(r) => req[r].method # "TRANSCODE"
         /\ Publish(r) => \/ /\ Sets(Sess(r), OwnEntry(r)) /\ child' = child
                             /\ req[r].kind = "fallback" => live[Sess(r)] # None
                          \/ /\ UNCHANGED live /\ live[Sess(r)] = None
                             /\ req[r].kind = "fallback" /\ child' = Killed(r)
<1> DEFINE s == Sess(r)
<1>1. ~At(r, "idle") => s \in Sessions
  BY DEF KindsFit
<1>2. Goto(r, "exitWait") => Hop(r, "exitWait")
  BY MoveFacts DEF Hop, TypeOK, PC
<1>3. Goto(r, "write") => Hop(r, "write")
  BY MoveFacts DEF Hop, TypeOK, PC
<1>4. Finish(r) => Over(r)
  BY MoveFacts DEF Over, TypeOK
<1>5. s \in Sessions => live[s] \in Entry \cup {None}
  BY DEF TypeOK
<1>6. ASSUME NEW e, s \in Sessions, live' = [live EXCEPT ![s] = e] PROVE Sets(s, e)
  BY <1>6 DEF TypeOK, Sets
<1>7. KillLive(r) => Sets(s, None)
  BY <1>1, <1>6 DEF KillLive, At
<1>8. ASSUME Enter(r)
      PROVE  \/ UNCHANGED live /\ live[s] = None /\ Hop(r, "exitWait")
             \/ UNCHANGED live /\ live[s] \in Entry /\ live[s].restarting /\ Over(r)
             \/ /\ Sets(s, Marked(live[s])) /\ live[s] \in Entry
                /\ ~live[s].restarting /\ Hop(r, "exitWait")
  <2>1. s \in Sessions
    BY <1>1, <1>8 DEF Enter, At
  <2>2. CASE live[s] = None
    BY <1>2, <1>8, <2>2 DEF Enter
  <2>3. CASE live[s] # None /\ live[s].restarting
    BY <1>4, <1>5, <1>8, <2>1, <2>3 DEF Enter
  <2>4. CASE live[s] # None /\ ~live[s].restarting
    <3>1. live' = [live EXCEPT ![s] = Marked(live[s])]
      BY <1>8, <2>1, <2>4 DEF Enter, Marked, TypeOK
    <3>2. QED
      BY <1>2, <1>5, <1>6, <1>8, <2>1, <2>4, <3>1 DEF Enter
  <2>5. QED
    BY <2>2, <2>3, <2>4
<1>9. ASSUME SlotTimeout(r) \/ FailBeforeSpawn(r)
      PROVE  \/ /\ Sets(s, req[r].seen) /\ live[s] # None
                /\ IsRestart(r) /\ req[r].seen \in Entry
             \/ UNCHANGED live /\ (IsRestart(r) => live[s] = None)
  <2>1. live' = Restored(r)
    BY <1>9 DEF SlotTimeout, FailBeforeSpawn
  <2>2. s \in Sessions /\ req[r].seen \in Entry
    BY <1>1, <1>9 DEF SlotTimeout, FailBeforeSpawn, At, LocalsFit, Early
  <2>3. QED
    BY <1>6, <2>1, <2>2 DEF Restored
<1>10. ASSUME live' = Published(r), s \in Sessions PROVE Sets(s, OwnEntry(r))
  BY <1>6, <1>10 DEF Published, OwnEntry
<1>11. ASSUME CommitWon(r)
       PROVE  \/ /\ UNCHANGED <<live, reserved>> /\ Hop(r, "write")
                 /\ IsRestart(r) /\ req[r].method = "TRANSCODE"
              \/ /\ Sets(s, OwnEntry(r)) /\ Over(r) /\ reserved' = Unreserved(r)
                 /\ IsRestart(r) => req[r].method # "TRANSCODE"
  <2>1. s \in Sessions
    BY <1>1, <1>11 DEF CommitWon, Won, At
  <2>2. QED
    BY <1>3, <1>4, <1>10, <1>11, <2>1 DEF CommitWon
<1>12. ASSUME Publish(r)
       PROVE  \/ /\ Sets(s, OwnEntry(r)) /\ child' = child
                 /\ req[r].kind = "fallback" => live[s] # None
              \/ /\ UNCHANGED live /\ live[s] = None
                 /\ req[r].kind = "fallback" /\ child' = Killed(r)
  <2>1. s \in Sessions
    BY <1>1, <1>12 DEF Publish, At
  <2>2. QED
    BY <1>10, <1>12, <2>1 DEF Publish
<1>13. QED
  BY <1>7, <1>8, <1>9, <1>11, <1>12

(* Job rows, live entries and running handlers only ever name children     *)
(* that were spawned, or whose handler is about to spawn them.             *)
JobsNamed ==
  \A r \in Requests : job[r] # "none" => req[r].pc \in Spawned \cup {"spawn", "done"}
LiveNamed == \A s \in Sessions : live[s] # None => child[live[s].child] # "none"
Names(r) ==
  (IsRestart(r) /\ Busy(r)) \/ At(r, "cancelKilled") => child[req[r].seen.child] # "none"
ChildFacts == JobsNamed /\ LiveNamed /\ \A r \in Requests : Names(r)

(* Steps that forget no child, name no unspawned one in a job row, and     *)
(* leave the other handler runs alone.                                     *)
Remain    == \A c \in Requests : child[c] # "none" => child'[c] # "none"
JobsGrow  ==
  \A q \in Requests :
    job'[q] # "none" => job[q] # "none" \/ child[q] # "none" \/ req'[q].pc = "spawn"
Others(r) == \A q \in Requests \ {r} : req'[q] = req[q]

(* The session of a handler run, and the entry a live session has. *)
LEMMA InTypes ==
  ASSUME TypeOK, KindsFit
  PROVE  /\ \A r \in Requests : ~At(r, "idle") => Sess(r) \in Sessions
         /\ \A s \in Sessions : live[s] # None => /\ live[s] \in Entry
                                                  /\ live[s].child \in Requests
BY EntryFields DEF TypeOK, KindsFit

(* The entry a running handler carries. *)
LEMMA RunningSeen ==
  ASSUME KindsFit, LocalsFit, TypeOK, NEW r \in Requests,
         (IsRestart(r) /\ Busy(r)) \/ At(r, "cancelKilled")
  PROVE  req[r].seen \in Entry
<1>1. req[r].pc \in PC
  BY FieldTypes DEF TypeOK
<1>2. QED
  BY <1>1 DEF PC, KindsFit, LocalsFit, Busy, At, Early, Spawned, IsRestart,
     Restarts,
              First, Ending

(* A step that forgets no child keeps what names children, if its own      *)
(* handler run and the rows and entries it writes do.                      *)
LEMMA KeepChildren ==
  ASSUME TypeOK, ChildFacts, KindsFit, LocalsFit, LocalsFit', NEW r \in Requests,
         Others(r), Remain, JobsGrow, LiveNamed', Names(r)', ~At(r, "done"),
         req[r].pc \in Spawned \cup {"spawn"} => req'[r].pc \in Spawned \cup {"done"}
  PROVE  ChildFacts'
<1>1. ASSUME NEW q \in Requests, job'[q] # "none"
      PROVE  req'[q].pc \in Spawned \cup {"spawn", "done"}
  <2>1. CASE child[q] # "none"
    BY <2>1 DEF LocalsFit, Remain
  <2>2. CASE job[q] # "none" /\ child[q] = "none"
    BY <2>2 DEF ChildFacts, JobsNamed, At, Others
  <2>3. CASE req'[q].pc = "spawn"
    BY <2>3
  <2>4. QED
    BY <1>1, <2>1, <2>2, <2>3 DEF JobsGrow
<1>2. ASSUME NEW q \in Requests \ {r} PROVE Names(q)'
  <2>1. Names(q) /\ req'[q] = req[q]
    BY DEF ChildFacts, Others
  <2>2. (IsRestart(q) /\ Busy(q)) \/ At(q, "cancelKilled") => req[q].seen.child \in Requests
    BY RunningSeen, EntryFields
  <2>3. QED
    BY <2>1, <2>2 DEF Names, Remain, IsRestart, Busy, At
<1>3. QED
  BY <1>1, <1>2 DEF ChildFacts, JobsNamed

(* A spawned child's session is live with it, or as it was. *)
LEMMA LiveChildren ==
  ASSUME TypeOK, KindsFit, LocalsFit, ChildFacts, NEW r \in Requests,
         \/ KillLive(r) \/ Enter(r) \/ SlotTimeout(r) \/ FailBeforeSpawn(r)
         \/ CommitWon(r) \/ Publish(r) \/ UNCHANGED live,
         Remain
  PROVE  LiveNamed'
<1>a. \A s \in Sessions : live[s] # None =>
        live[s].child \in Requests /\ child'[live[s].child] # "none"
  BY InTypes DEF ChildFacts, LiveNamed, Remain
<1>1. \A e \in Entry \cup {None} :
        Sets(Sess(r), e) /\ (e # None => child[e.child] # "none") =>
          LiveNamed'
  BY <1>a, EntryFields DEF Sets, LiveNamed, Remain
<1>2. UNCHANGED live => LiveNamed'
  BY <1>a DEF LiveNamed
<1>3. CASE Enter(r)
  <2>1. live[Sess(r)] \in Entry => /\ child[live[Sess(r)].child] # "none"
                                   /\ Marked(live[Sess(r)]).child = live[Sess(r)].child
                                   /\ Marked(live[Sess(r)]) \in Entry
    BY <1>3, InTypes, MarkedFields, EntryFields DEF ChildFacts, LiveNamed,
       Enter, At
  <2>2. QED
    BY <1>1, <1>2, <1>3, <2>1, LiveMoves
<1>4. CASE SlotTimeout(r) \/ FailBeforeSpawn(r)
  <2>1. IsRestart(r) => child[req[r].seen.child] # "none"
    BY <1>4 DEF ChildFacts, Names, SlotTimeout, FailBeforeSpawn, Busy, At
  <2>2. QED
    BY <1>1, <1>2, <1>4, <2>1, LiveMoves
<1>5. CASE CommitWon(r) \/ Publish(r)
  <2>1. req[r].seen \in Entry /\ req[r].method \in Streams /\ child[r] # "none"
    BY <1>5 DEF CommitWon, Won, Publish, At, LocalsFit, Spawned
  <2>2. OwnEntry(r).child = r /\ OwnEntry(r) \in Entry
    BY <2>1, OwnFields
  <2>3. QED
    BY <1>1, <1>2, <1>5, <2>1, <2>2, LiveMoves
<1>6. QED
  BY <1>1, <1>2, <1>3, <1>4, <1>5, LiveMoves

(* The three ways a handler run moves. *)
LEMMA HopChildren ==
  ASSUME TypeOK, ChildFacts, KindsFit, LocalsFit, LocalsFit', NEW r \in Requests, NEW p,
         Hop(r, p), p # "cancelKilled", Busy(r), Remain, JobsGrow, LiveNamed',
         req[r].pc \in Spawned \cup {"spawn"} => p \in Spawned
  PROVE  ChildFacts'
<1>1. Others(r) /\ req'[r].pc = p /\ req'[r].kind = req[r].kind /\ req'[r].seen = req[r].seen
  BY DEF Hop, Moves, Others
<1>2. Names(r)'
  <2>1. Names(r)
    BY DEF ChildFacts
  <2>2. (IsRestart(r) /\ Busy(r)) \/ At(r, "cancelKilled") => req[r].seen.child \in Requests
    BY RunningSeen, EntryFields
  <2>3. QED
    BY <1>1, <2>1, <2>2 DEF Names, Remain, IsRestart, Busy, At
<1>3. ~At(r, "done")
  BY DEF Busy, At
<1>4. QED
  BY <1>1, <1>2, <1>3, KeepChildren

(* A handler run returns. *)
LEMMA OverChildren ==
  ASSUME TypeOK, ChildFacts, KindsFit, LocalsFit, LocalsFit', NEW r \in Requests,
         Over(r), Busy(r), Remain, JobsGrow, LiveNamed'
  PROVE  ChildFacts'
<1>1. Others(r) /\ req'[r].pc = "done"
  BY DEF Over, Moves, Others
<1>2. Names(r)' /\ ~At(r, "done")
  BY <1>1 DEF Names, Busy, At
<1>3. QED
  BY <1>1, <1>2, KeepChildren

(* A handler run moves on with another entry. *)
LEMMA MoveChildren ==
  ASSUME TypeOK, ChildFacts, KindsFit, LocalsFit, LocalsFit', NEW r \in Requests, NEW p,
         Moves(r, p), Busy(r), Remain, JobsGrow, LiveNamed',
         req[r].pc \in Spawned \cup {"spawn"} => p \in Spawned,
         IsRestart(r) \/ p = "cancelKilled" => child'[req'[r].seen.child] # "none"
  PROVE  ChildFacts'
<1>1. Others(r) /\ req'[r].pc = p /\ req'[r].kind = req[r].kind
  BY DEF Moves, Others
<1>2. Names(r)' /\ ~At(r, "done")
  BY <1>1 DEF Names, IsRestart, Busy, At
<1>3. QED
  BY <1>1, <1>2, KeepChildren

(* Nothing ever names a child that was not spawned. *)
LEMMA ChildFactsStep ==
  TypeOK /\ TypeOK' /\ KindsFit /\ LocalsFit /\ LocalsFit' /\ ChildFacts /\ [Next]_vars
    => ChildFacts'
<1> SUFFICES ASSUME TypeOK, TypeOK', KindsFit, LocalsFit, LocalsFit', ChildFacts, [Next]_vars
             PROVE  ChildFacts'
  OBVIOUS
<1>1. ASSUME NEW r \in Requests, NEW s \in Sessions, Start(r, s) PROVE ChildFacts'
  <2>1. Others(r) /\ req'[r].pc \in {"done", "acquire"} /\ req'[r].kind = "start"
    BY <1>1, BeginFacts DEF Start, Opens, Others
  <2>2. UNCHANGED <<job, live, child>> /\ At(r, "idle")
    BY <1>1 DEF Start, MayBegin, childVars
  <2>3. Remain /\ JobsGrow /\ LiveNamed' /\ Names(r)'
    BY <2>1, <2>2
    DEF Remain, JobsGrow, LiveNamed, ChildFacts, Names, IsRestart, Restarts, At
  <2>4. QED
    BY <2>1, <2>2, <2>3, KeepChildren DEF At, Spawned
<1>2. ASSUME NEW r \in Requests, NEW s \in Sessions, FirstSpawn(r, s) PROVE ChildFacts'
  <2>1. Others(r) /\ req'[r].pc \in {"acquire"} /\ req'[r].kind = "first"
    BY <1>2, BeginFacts DEF FirstSpawn, Opens, Others
  <2>2. UNCHANGED <<job, live, child>> /\ At(r, "idle")
    BY <1>2 DEF FirstSpawn, MayBegin, childVars
  <2>3. Remain /\ JobsGrow /\ LiveNamed' /\ Names(r)'
    BY <2>1, <2>2
    DEF Remain, JobsGrow, LiveNamed, ChildFacts, Names, IsRestart, Restarts, At
  <2>4. QED
    BY <2>1, <2>2, <2>3, KeepChildren DEF At, Spawned
<1>3. ASSUME NEW r \in Requests, NEW s \in Sessions, Seek(r, s) PROVE ChildFacts'
  <2>1. UNCHANGED <<job, live, child>> /\ At(r, "idle")
    BY <1>3 DEF Seek, MayBegin, childVars
  <2>2. Others(r) /\ req'[r].pc = "cancel"
    BY <1>3, BeginFacts DEF Seek, Opens, Others
  <2>3. Remain /\ JobsGrow /\ LiveNamed'
    BY <2>1 DEF Remain, JobsGrow, LiveNamed, ChildFacts
  <2>4. child[req'[r].seen.child] # "none"
    BY <1>3, BeginFacts DEF Seek, Opens, ChildFacts, LiveNamed
  <2>5. Names(r)'
    BY <2>1, <2>4 DEF Names
  <2>6. QED
    BY <2>1, <2>2, <2>3, <2>5, KeepChildren DEF At, Spawned
<1>4. ASSUME NEW r \in Requests, NEW s \in Sessions, Switch(r, s) PROVE ChildFacts'
  <2>1. UNCHANGED <<job, live, child>> /\ At(r, "idle")
    BY <1>4 DEF Switch, MayBegin, childVars
  <2>2. Others(r) /\ req'[r].pc = "cancel"
    BY <1>4, BeginFacts DEF Switch, Opens, Others
  <2>3. Remain /\ JobsGrow /\ LiveNamed'
    BY <2>1 DEF Remain, JobsGrow, LiveNamed, ChildFacts
  <2>4. child[req'[r].seen.child] # "none"
    <3>1. PICK d \in Dirs, m \in world.methods \ {"DIRECT_PLAY"} :
            Begin(r, s, "switch", "cancel", [live[s] EXCEPT !.dir = d], m)
      BY <1>4 DEF Switch
    <3>2. req'[r].seen = [live[s] EXCEPT !.dir = d]
      BY <3>1, BeginFacts DEF Opens
    <3>3. live[s] # None /\ live[s] \in Entry
      BY <1>4, InTypes DEF Switch
    <3>4. req'[r].seen.child = live[s].child
      BY <3>2, <3>3 DEF Entry
    <3>5. QED
      BY <3>3, <3>4 DEF ChildFacts, LiveNamed
  <2>5. Names(r)'
    BY <2>1, <2>4 DEF Names
  <2>6. QED
    BY <2>1, <2>2, <2>3, <2>5, KeepChildren DEF At, Spawned
<1>5. ASSUME NEW r \in Requests, NEW s \in Sessions, Reset(r, s) PROVE ChildFacts'
  <2>1. Others(r) /\ req'[r].pc \in {"kill"} /\ req'[r].kind = "reset"
    BY <1>5, BeginFacts DEF Reset, Opens, Others
  <2>2. UNCHANGED <<job, live, child>> /\ At(r, "idle")
    BY <1>5 DEF Reset, MayBegin, childVars
  <2>3. Remain /\ JobsGrow /\ LiveNamed' /\ Names(r)'
    BY <2>1, <2>2
    DEF Remain, JobsGrow, LiveNamed, ChildFacts, Names, IsRestart, Restarts, At
  <2>4. QED
    BY <2>1, <2>2, <2>3, KeepChildren DEF At, Spawned
<1>6. ASSUME NEW r \in Requests, NEW s \in Sessions, Stop(r, s) PROVE ChildFacts'
  <2>1. Others(r) /\ req'[r].pc \in {"end"} /\ req'[r].kind = "stop"
    BY <1>6, BeginFacts DEF Stop, Opens, Others
  <2>2. UNCHANGED <<job, live, child>> /\ At(r, "idle")
    BY <1>6 DEF Stop, MayBegin, childVars
  <2>3. Remain /\ JobsGrow /\ LiveNamed' /\ Names(r)'
    BY <2>1, <2>2
    DEF Remain, JobsGrow, LiveNamed, ChildFacts, Names, IsRestart, Restarts, At
  <2>4. QED
    BY <2>1, <2>2, <2>3, KeepChildren DEF At, Spawned
<1>7. ASSUME NEW r \in Requests, EndRow(r) PROVE ChildFacts'
  <2>1. Busy(r)
    BY <1>7 DEF EndRow, Busy, At
  <2>2. Remain
    BY <1>7, Kills DEF EndRow, childVars, SameChildren, Remain
  <2>3. LiveNamed'
    BY <1>7, <2>2, LiveChildren DEF EndRow
  <2>4. JobsGrow
    BY <1>7 DEF EndRow, childVars, JobsGrow
  <2>5. QED
    BY <1>7, <2>1, <2>2, <2>3, <2>4, Hops, HopChildren DEF EndRow, At, Spawned
<1>8. ASSUME NEW r \in Requests, KillLive(r) PROVE ChildFacts'
  <2>1. Busy(r) /\ JobsGrow /\ req[r].pc = "kill"
    BY <1>8 DEF KillLive, Busy, At, JobsGrow
  <2>2. Remain
    BY <1>8, Kills DEF SameChildren, Remain
  <2>3. LiveNamed'
    BY <1>8, <2>2, LiveChildren
  <2>4. ASSUME Moves(r, "cancelKilled"), req'[r].seen = live[Sess(r)], live[Sess(r)] \in Entry
        PROVE  ChildFacts'
    <3>1. child'[req'[r].seen.child] # "none"
      BY <2>1, <2>2, <2>4, InTypes, EntryFields DEF ChildFacts, LiveNamed,
         Remain, At
    <3>2. QED
      BY <2>1, <2>2, <2>3, <2>4, <3>1, MoveChildren DEF Spawned
  <2>5. QED
    BY <1>8, <2>1, <2>2, <2>3, <2>4, KillLiveHops, HopChildren, OverChildren
       DEF Spawned
<1>9. ASSUME NEW r \in Requests, CancelKilled(r) PROVE ChildFacts'
  <2>1. Busy(r)
    BY <1>9 DEF CancelKilled, Busy, At
  <2>2. Remain
    BY <1>9, Kills DEF CancelKilled, childVars, SameChildren, Remain
  <2>3. LiveNamed'
    BY <1>9, <2>2, LiveChildren DEF CancelKilled
  <2>4. JobsGrow
    BY <1>9 DEF CancelKilled, ChildFacts, Names, TypeOK, JobsGrow
  <2>5. QED
    BY <1>9, <2>1, <2>2, <2>3, <2>4, Hops, HopChildren, OverChildren DEF
       CancelKilled, At, Spawned
<1>10. ASSUME NEW r \in Requests, RemoveDir(r) PROVE ChildFacts'
  <2>1. Busy(r)
    BY <1>10 DEF RemoveDir, Busy, At
  <2>2. Remain
    BY <1>10, Kills DEF RemoveDir, childVars, SameChildren, Remain
  <2>3. LiveNamed'
    BY <1>10, <2>2, LiveChildren DEF RemoveDir
  <2>4. JobsGrow
    BY <1>10 DEF RemoveDir, childVars, JobsGrow
  <2>5. QED
    BY <1>10, <2>1, <2>2, <2>3, <2>4, Hops, OverChildren
<1>11. ASSUME NEW r \in Requests, CancelJob(r) PROVE ChildFacts'
  <2>1. Busy(r)
    BY <1>11 DEF CancelJob, Busy, At
  <2>2. Remain
    BY <1>11, Kills DEF CancelJob, childVars, SameChildren, Remain
  <2>3. LiveNamed'
    BY <1>11, <2>2, LiveChildren DEF CancelJob
  <2>4. JobsGrow
    <3> DEFINE e == IF req[r].kind = "seek" THEN req[r].seen ELSE live[Sess(r)]
    <3>1. e # None => child[e.child] # "none"
      BY <1>11, <2>1, InTypes
      DEF CancelJob, KindsFit, IsRestart, ChildFacts, Names, LiveNamed, At, Restarts
    <3>2. job' = IF e = None THEN job ELSE [job EXCEPT ![e.child] = "CANCELLED"]
      BY <1>11 DEF CancelJob
    <3> HIDE DEF e
    <3>3. QED
      BY <3>1, <3>2 DEF TypeOK, JobsGrow
  <2>5. QED
    BY <1>11, <2>1, <2>2, <2>3, <2>4, Hops, HopChildren DEF CancelJob, At,
       Spawned
<1>12. ASSUME NEW r \in Requests, Enter(r) PROVE ChildFacts'
  <2>1. Busy(r)
    BY <1>12 DEF Enter, Busy, At
  <2>2. Remain
    BY <1>12, Kills DEF SameChildren, Remain
  <2>3. LiveNamed'
    BY <1>12, <2>2, LiveChildren
  <2>4. JobsGrow
    BY <1>12 DEF Enter, JobsGrow
  <2>5. QED
    BY <1>12, <2>1, <2>2, <2>3, <2>4, Hops, HopChildren, OverChildren DEF
       Enter, At, Spawned
<1>13. ASSUME NEW r \in Requests, Acquire(r) PROVE ChildFacts'
  <2>1. Busy(r)
    BY <1>13 DEF Acquire, Busy, At
  <2>2. Remain
    BY <1>13, Kills DEF Acquire, childVars, SameChildren, Remain
  <2>3. LiveNamed'
    BY <1>13, <2>2, LiveChildren DEF Acquire
  <2>4. JobsGrow
    BY <1>13 DEF Acquire, childVars, JobsGrow
  <2>5. QED
    BY <1>13, <2>1, <2>2, <2>3, <2>4, Hops, HopChildren DEF Acquire, At, Spawned
<1>14. ASSUME NEW r \in Requests, SlotTimeout(r) PROVE ChildFacts'
  <2>1. Busy(r)
    BY <1>14 DEF SlotTimeout, Busy, At
  <2>2. Remain
    BY <1>14, Kills DEF SlotTimeout, childVars, SameChildren, Remain
  <2>3. LiveNamed'
    BY <1>14, <2>2, LiveChildren
  <2>4. JobsGrow
    BY <1>14 DEF SlotTimeout, childVars, JobsGrow
  <2>5. QED
    BY <1>14, <2>1, <2>2, <2>3, <2>4, Hops, OverChildren
<1>15. ASSUME NEW r \in Requests, SlotGranted(r) PROVE ChildFacts'
  <2>1. Busy(r)
    BY <1>15 DEF SlotGranted, Busy, At
  <2>2. Remain
    BY <1>15, Kills DEF SlotGranted, childVars, SameChildren, Remain
  <2>3. LiveNamed'
    BY <1>15, <2>2, LiveChildren DEF SlotGranted
  <2>4. JobsGrow
    BY <1>15 DEF SlotGranted, childVars, JobsGrow
  <2>5. QED
    BY <1>15, <2>1, <2>2, <2>3, <2>4, Hops, HopChildren, OverChildren DEF
       SlotGranted, At, Spawned
<1>16. ASSUME NEW r \in Requests, SetUp(r) PROVE ChildFacts'
  <2>1. Busy(r)
    BY <1>16 DEF SetUp, Busy, At
  <2>2. Remain
    BY <1>16, Kills DEF SetUp, childVars, SameChildren, Remain
  <2>3. LiveNamed'
    BY <1>16, <2>2, LiveChildren DEF SetUp
  <2>4. JobsGrow
    BY <1>16 DEF SetUp, childVars, JobsGrow
  <2>5. QED
    BY <1>16, <2>1, <2>2, <2>3, <2>4, Hops, HopChildren DEF SetUp, At, Spawned
<1>17. ASSUME NEW r \in Requests, SetUpFails(r) PROVE ChildFacts'
  <2>1. Busy(r)
    BY <1>17 DEF SetUpFails, Busy, At
  <2>2. Remain
    BY <1>17, Kills DEF SetUpFails, childVars, SameChildren, Remain
  <2>3. LiveNamed'
    BY <1>17, <2>2, LiveChildren DEF SetUpFails
  <2>4. JobsGrow
    BY <1>17 DEF SetUpFails, childVars, JobsGrow
  <2>5. QED
    BY <1>17, <2>1, <2>2, <2>3, <2>4, Hops, OverChildren
<1>18. ASSUME NEW r \in Requests, CreateJob(r) PROVE ChildFacts'
  <2>1. Busy(r)
    BY <1>18 DEF CreateJob, Busy, At
  <2>2. Remain
    BY <1>18, Kills DEF CreateJob, childVars, SameChildren, Remain
  <2>3. LiveNamed'
    BY <1>18, <2>2, LiveChildren DEF CreateJob
  <2>4. JobsGrow
    <3>1. req'[r].pc = "spawn"
      BY <1>18, Hops DEF Hop, Moves
    <3>2. QED
      BY <1>18, <3>1 DEF CreateJob, TypeOK, JobsGrow
  <2>5. QED
    BY <1>18, <2>1, <2>2, <2>3, <2>4, Hops, HopChildren DEF CreateJob, At,
       Spawned
<1>19. ASSUME NEW r \in Requests, FailBeforeSpawn(r) PROVE ChildFacts'
  <2>1. Busy(r)
    BY <1>19 DEF FailBeforeSpawn, Busy, At
  <2>2. Remain
    BY <1>19, Kills DEF FailBeforeSpawn, childVars, SameChildren, Remain
  <2>3. LiveNamed'
    BY <1>19, <2>2, LiveChildren
  <2>4. JobsGrow
    BY <1>19 DEF FailBeforeSpawn, childVars, JobsGrow
  <2>5. QED
    BY <1>19, <2>1, <2>2, <2>3, <2>4, Hops, OverChildren
<1>20. ASSUME NEW r \in Requests, Spawn(r) PROVE ChildFacts'
  <2>1. /\ Moves(r, AfterSpawn(r)) /\ AfterSpawn(r) \in Spawned
        /\ req'[r].seen.child = req[r].seen.child
    <3>1. PICK h \in BOOLEAN : req'[r].seen = [req[r].seen EXCEPT !.hw = h]
      BY <1>20, SpawnHops
    <3>2. req'[r].seen.child = req[r].seen.child
      BY <1>20, <3>1, SpawnHops DEF Entry
    <3>3. QED
      BY <1>20, <3>2, SpawnHops DEF Spawned
  <2>2. Remain /\ JobsGrow /\ UNCHANGED live /\ Busy(r)
    BY <1>20 DEF Spawn, TypeOK, Busy, At, Remain, JobsGrow
  <2>3. LiveNamed'
    BY <2>2, LiveChildren
  <2>4. IsRestart(r) => child'[req'[r].seen.child] # "none"
    BY <1>20, <2>1, <2>2, SpawnHops, EntryFields DEF ChildFacts, Names, Remain
  <2>5. AfterSpawn(r) # "cancelKilled"
    BY <2>1 DEF Spawned
  <2>6. QED
    BY <2>1, <2>2, <2>3, <2>4, <2>5, MoveChildren
<1>21. ASSUME NEW r \in Requests, Commit(r) PROVE ChildFacts'
  <2>1. Busy(r)
    BY <1>21 DEF Commit, Busy, At
  <2>2. Remain
    BY <1>21, Kills DEF Commit, childVars, SameChildren, Remain
  <2>3. LiveNamed'
    BY <1>21, <2>2, LiveChildren DEF Commit
  <2>4. JobsGrow
    BY <1>21 DEF Commit, childVars, JobsGrow
  <2>5. QED
    BY <1>21, <2>1, <2>2, <2>3, <2>4, Hops, HopChildren DEF Commit, At, Spawned
<1>22. ASSUME NEW r \in Requests, CommitFails(r) PROVE ChildFacts'
  <2>1. Busy(r)
    BY <1>22 DEF CommitFails, Busy, At
  <2>2. Remain
    BY <1>22, Kills DEF CommitFails, childVars, SameChildren, Remain
  <2>3. LiveNamed'
    BY <1>22, <2>2, LiveChildren DEF CommitFails
  <2>4. JobsGrow
    BY <1>22 DEF CommitFails, childVars, JobsGrow
  <2>5. QED
    BY <1>22, <2>1, <2>2, <2>3, <2>4, Hops, OverChildren
<1>23. ASSUME NEW r \in Requests, CommitWon(r) PROVE ChildFacts'
  <2>1. Busy(r)
    BY <1>23 DEF CommitWon, Busy, At, Won
  <2>2. Remain
    BY <1>23, Kills DEF CommitWon, childVars, SameChildren, Remain
  <2>3. LiveNamed'
    BY <1>23, <2>2, LiveChildren
  <2>4. JobsGrow
    BY <1>23 DEF CommitWon, childVars, JobsGrow
  <2>5. QED
    BY <1>23, <2>1, <2>2, <2>3, <2>4, Hops, HopChildren, OverChildren DEF
       CommitWon, At, Spawned, Won
<1>24. ASSUME NEW r \in Requests, CommitLost(r) PROVE ChildFacts'
  <2>1. Busy(r)
    BY <1>24 DEF CommitLost, Busy, At, Lost
  <2>2. Remain
    BY <1>24, Kills DEF SameChildren, Remain
  <2>3. LiveNamed'
    BY <1>24, <2>2, LiveChildren DEF CommitLost
  <2>4. JobsGrow
    BY <1>24 DEF CommitLost, JobsGrow
  <2>5. QED
    BY <1>24, <2>1, <2>2, <2>3, <2>4, Hops, HopChildren DEF CommitLost, At,
       Spawned, Lost
<1>25. ASSUME NEW r \in Requests, CancelNewJob(r) PROVE ChildFacts'
  <2>1. Busy(r)
    BY <1>25 DEF CancelNewJob, Busy, At
  <2>2. Remain
    BY <1>25, Kills DEF CancelNewJob, childVars, SameChildren, Remain
  <2>3. LiveNamed'
    BY <1>25, <2>2, LiveChildren DEF CancelNewJob
  <2>4. JobsGrow
    BY <1>25 DEF CancelNewJob, LocalsFit, Spawned, At, TypeOK, JobsGrow
  <2>5. QED
    BY <1>25, <2>1, <2>2, <2>3, <2>4, Hops, OverChildren
<1>26. ASSUME NEW r \in Requests, WritePlaylist(r) PROVE ChildFacts'
  <2>1. Busy(r)
    BY <1>26 DEF WritePlaylist, Busy, At
  <2>2. Remain
    BY <1>26, Kills DEF WritePlaylist, childVars, SameChildren, Remain
  <2>3. LiveNamed'
    BY <1>26, <2>2, LiveChildren DEF WritePlaylist
  <2>4. JobsGrow
    BY <1>26 DEF WritePlaylist, childVars, JobsGrow
  <2>5. QED
    BY <1>26, <2>1, <2>2, <2>3, <2>4, Hops, HopChildren DEF WritePlaylist, At,
       Spawned
<1>27. ASSUME NEW r \in Requests, WriteFails(r) PROVE ChildFacts'
  <2>1. Busy(r)
    BY <1>27 DEF WriteFails, Busy, At
  <2>2. Remain
    BY <1>27, Kills DEF WriteFails, childVars, SameChildren, Remain
  <2>3. LiveNamed'
    BY <1>27, <2>2, LiveChildren DEF WriteFails
  <2>4. JobsGrow
    BY <1>27 DEF WriteFails, childVars, JobsGrow
  <2>5. QED
    BY <1>27, <2>1, <2>2, <2>3, <2>4, Hops, HopChildren, OverChildren DEF
       WriteFails, At, Spawned
<1>28. ASSUME NEW r \in Requests, Publish(r) PROVE ChildFacts'
  <2>1. Busy(r)
    BY <1>28 DEF Publish, Busy, At
  <2>2. Remain
    BY <1>28, Kills DEF SameChildren, Remain
  <2>3. LiveNamed'
    BY <1>28, <2>2, LiveChildren
  <2>4. JobsGrow
    BY <1>28 DEF Publish, JobsGrow
  <2>5. QED
    BY <1>28, <2>1, <2>2, <2>3, <2>4, Hops, OverChildren
<1>29. ASSUME NEW c \in Requests, Exit(c) PROVE ChildFacts'
  <2>1. Remain /\ UNCHANGED <<req, job, live>>
    BY <1>29, FieldTypes DEF Exit, Alive, TypeOK, Remain
  <2>2. LiveNamed'
    BY <2>1, InTypes DEF ChildFacts, LiveNamed, Remain
  <2>3. \A q \in Requests :
          (IsRestart(q) /\ Busy(q)) \/ At(q, "cancelKilled") => req[q].seen.child \in Requests
    BY RunningSeen, EntryFields
  <2>4. QED
    BY <2>1, <2>2, <2>3 DEF ChildFacts, JobsNamed, Names, Remain, IsRestart,
       Busy, At
<1>30. ASSUME NEW c \in Requests, SetTerminal(c) PROVE ChildFacts'
  <2>1. \A q \in Requests : job'[q] # "none" => job[q] # "none" \/ child[q] # "none"
    BY <1>30 DEF SetTerminal, TypeOK, LocalsFit
  <2>2. UNCHANGED <<req, child, live>>
    BY <1>30 DEF SetTerminal
  <2>3. QED
    BY <2>1, <2>2 DEF LocalsFit, ChildFacts, JobsNamed, LiveNamed, Names,
       IsRestart, Busy, At
<1>31. ASSUME NEW c \in Requests, Truncate(c) PROVE ChildFacts'
  BY <1>31 DEF Truncate, ChildFacts, JobsNamed, LiveNamed, Names, IsRestart,
     Busy, At
<1>32. ASSUME NEW c \in Requests, NoFallback(c) PROVE ChildFacts'
  BY <1>32 DEF NoFallback, ChildFacts, JobsNamed, LiveNamed, Names, IsRestart,
     Busy, At
<1>33. ASSUME NEW r \in Requests, NEW c \in Requests, Fallback(r, c) PROVE ChildFacts'
  <2>1. UNCHANGED <<job, live, child>> /\ At(r, "idle")
    BY <1>33 DEF Fallback, MayBegin, childVars
  <2>2. Others(r) /\ req'[r].pc = "enter"
    BY <1>33, BeginFacts DEF Fallback, Opens, Others
  <2>3. Remain /\ JobsGrow /\ LiveNamed'
    BY <2>1 DEF Remain, JobsGrow, LiveNamed, ChildFacts
  <2>4. child[req'[r].seen.child] # "none"
    <3>1. Sess(c) \in Sessions
      BY <1>33, InTypes DEF Fallback, LocalsFit, At, Spawned
    <3>2. req'[r].seen = live[Sess(c)] /\ live[Sess(c)] # None
      BY <1>33, BeginFacts DEF Fallback, MayFallBack, Opens
    <3>3. QED
      BY <3>1, <3>2 DEF ChildFacts, LiveNamed
  <2>5. Names(r)'
    BY <2>1, <2>4 DEF Names
  <2>6. QED
    BY <2>1, <2>2, <2>3, <2>5, KeepChildren DEF At, Spawned
<1>34. ASSUME SweepJobs PROVE ChildFacts'
  <2>1. \A q \in Requests : job'[q] # "none" => job[q] # "none"
    BY <1>34 DEF SweepJobs, TypeOK
  <2>2. UNCHANGED <<req, child, live>>
    BY <1>34 DEF SweepJobs
  <2>3. QED
    BY <2>1, <2>2 DEF ChildFacts, JobsNamed, LiveNamed, Names, IsRestart,
       Busy, At
<1>35. CASE UNCHANGED vars
  BY <1>35 DEF vars, childVars, ChildFacts, JobsNamed, LiveNamed, Names,
     IsRestart, Busy, At
<1>36. QED
  BY <1>1, <1>2, <1>3, <1>4, <1>5, <1>6, <1>7, <1>8, <1>9, <1>10, <1>11,
     <1>12, <1>13, <1>14, <1>15, <1>16, <1>17, <1>18, <1>19, <1>20, <1>21,
     <1>22, <1>23, <1>24, <1>25, <1>26, <1>27, <1>28, <1>29, <1>30, <1>31,
     <1>32, <1>33, <1>34, <1>35 DEF Next, Call, Continue, AfterExit

(* What a step of a handler run does to the map of live sessions.          *)
LiveTurn(r) ==
  \/ UNCHANGED live /\ (InRestart(r)' => InRestart(r) \/ live[Sess(r)] = None)
  \/ Sets(Sess(r), None) /\ req[r].kind \in Ending
  \/ /\ Sets(Sess(r), Marked(live[Sess(r)])) /\ live[Sess(r)] \in Entry
     /\ ~live[Sess(r)].restarting /\ IsRestart(r)
  \/ /\ Sets(Sess(r), req[r].seen) /\ req[r].seen \in Entry
     /\ InRestart(r) /\ At(r, "done")'
  \/ /\ Sets(Sess(r), OwnEntry(r)) /\ OwnEntry(r) \in Entry
     /\ InRestart(r) \/ req[r].kind \in First
     /\ At(r, "done")'

(* What it does to the session rows and to the reservations.               *)
RowTurn(r) ==
  /\ \A t \in Sessions : session'[t] = session[t] \/ (t = Sess(r) /\ session'[t] = "ended")
  /\ \/ UNCHANGED reserved
     \/ req[r].kind = "first" /\ At(r, "done")' /\ reserved' = reserved \ {Sess(r)}

Turn(r) == Busy(r) /\ (\E p \in PC \ {"idle"} : Moves(r, p)) /\ LiveTurn(r) /\ RowTurn(r)

(* A handler run that goes on and writes nothing. *)
LEMMA HopTurn ==
  ASSUME NEW r \in Requests, NEW p \in PC \ {"idle"}, Hop(r, p) \/ Moves(r, p), Busy(r),
         UNCHANGED <<live, session, reserved>>,
         IsRestart(r) => p \in {"enter", "done", "lost"} \/ InRestart(r) \/ live[Sess(r)] = None
  PROVE  Turn(r)
BY DEF Turn, RowTurn, LiveTurn, Hop, Moves, InRestart, IsRestart

(* A handler run that returns and leaves the map alone. *)
LEMMA OverTurn ==
  ASSUME NEW r \in Requests, Over(r), Busy(r), UNCHANGED live, RowTurn(r)
  PROVE  Turn(r)
BY DEF Turn, LiveTurn, Over, Moves, InRestart, PC

(* Every step of a handler run is a turn of its session. *)
LEMMA Turns ==
  ASSUME TypeOK, KindsFit, LocalsFit, NEW r \in Requests, Continue(r)
  PROVE  Turn(r)
<1>1. ASSUME EndRow(r) PROVE Turn(r)
  <2>1. Busy(r)
    BY <1>1 DEF EndRow, Busy, At
  <2>2. RowTurn(r)
    BY <1>1 DEF EndRow, RowTurn, TypeOK
  <2>3. LiveTurn(r)
    BY <1>1, Hops DEF EndRow, LiveTurn, InRestart, At, KindsFit, Hop, Moves
  <2>4. QED
    BY <1>1, <2>1, <2>2, <2>3, Hops DEF Turn, Hop, PC
<1>2. ASSUME KillLive(r) PROVE Turn(r)
  <2>1. Busy(r)
    BY <1>2 DEF KillLive, Busy, At
  <2>2. RowTurn(r) /\ req[r].kind \in Ending
    BY <1>2 DEF KillLive, RowTurn, KindsFit, At
  <2>3. LiveTurn(r)
    BY <1>2, <2>2, LiveMoves DEF LiveTurn
  <2>4. QED
    BY <1>2, <2>1, <2>2, <2>3, KillLiveHops DEF Turn, Hop, Over, PC
<1>3. ASSUME CancelKilled(r) PROVE Turn(r)
  <2>1. Busy(r)
    BY <1>3 DEF CancelKilled, Busy, At
  <2>2. RowTurn(r) /\ UNCHANGED live /\ ~IsRestart(r)
    BY <1>3 DEF CancelKilled, RowTurn, At, KindsFit, Ending, IsRestart, Restarts
  <2>3. QED
    BY <1>3, <2>1, <2>2, Hops, HopTurn, OverTurn DEF CancelKilled, PC
<1>4. ASSUME RemoveDir(r) PROVE Turn(r)
  <2>1. Busy(r)
    BY <1>4 DEF RemoveDir, Busy, At
  <2>2. RowTurn(r)
    BY <1>4, Hops DEF RemoveDir, RowTurn, Unreserved, Over, Moves, At
  <2>3. QED
    BY <1>4, <2>1, <2>2, Hops, OverTurn DEF RemoveDir
<1>5. ASSUME CancelJob(r) PROVE Turn(r)
  <2>1. Busy(r)
    BY <1>5 DEF CancelJob, Busy, At
  <2>2. QED
    BY <1>5, <2>1, Hops, HopTurn DEF CancelJob, PC
<1>6. ASSUME Enter(r) PROVE Turn(r)
  <2>1. Busy(r)
    BY <1>6 DEF Enter, Busy, At
  <2>2. RowTurn(r) /\ IsRestart(r)
    BY <1>6 DEF Enter, RowTurn, KindsFit, At
  <2>3. LiveTurn(r)
    BY <1>6, <2>2, LiveMoves DEF LiveTurn, Over, Moves, InRestart, At
  <2>4. QED
    BY <1>6, <2>1, <2>2, <2>3, Hops DEF Turn, Hop, Over, PC
<1>7. ASSUME Acquire(r) PROVE Turn(r)
  <2>1. Busy(r)
    BY <1>7 DEF Acquire, Busy, At
  <2>2. IsRestart(r) => InRestart(r)
    BY <1>7 DEF Acquire, InRestart, At, KindsFit, IsRestart, Restarts, First
  <2>3. QED
    BY <1>7, <2>1, <2>2, Hops, HopTurn DEF Acquire, PC
<1>8. ASSUME SlotTimeout(r) PROVE Turn(r)
  <2>1. Busy(r)
    BY <1>8 DEF SlotTimeout, Busy, At
  <2>2. RowTurn(r)
    BY <1>8, Hops DEF SlotTimeout, RowTurn, Unreserved, TypeOK, Over, Moves, At
  <2>3. IsRestart(r) => InRestart(r)
    BY <1>8 DEF SlotTimeout, InRestart, At
  <2>4. LiveTurn(r)
    BY <1>8, <2>3, LiveMoves, Hops DEF LiveTurn, Over, Moves, InRestart, At
  <2>5. QED
    BY <1>8, <2>1, <2>2, <2>4, Hops DEF Turn, Over, PC
<1>9. ASSUME SlotGranted(r) PROVE Turn(r)
  <2>1. Busy(r)
    BY <1>9 DEF SlotGranted, Busy, At
  <2>2. RowTurn(r) /\ UNCHANGED <<live, session, reserved>> /\ InRestart(r)
    BY <1>9 DEF SlotGranted, RowTurn, InRestart, At
  <2>3. QED
    BY <1>9, <2>1, <2>2, Hops, HopTurn, OverTurn DEF PC
<1>10. ASSUME SetUp(r) PROVE Turn(r)
  <2>1. Busy(r)
    BY <1>10 DEF SetUp, Busy, At
  <2>2. IsRestart(r) => InRestart(r)
    BY <1>10 DEF SetUp, InRestart, At, KindsFit, IsRestart, Restarts, First
  <2>3. QED
    BY <1>10, <2>1, <2>2, Hops, HopTurn DEF SetUp, PC
<1>11. ASSUME SetUpFails(r) PROVE Turn(r)
  <2>1. Busy(r)
    BY <1>11 DEF SetUpFails, Busy, At
  <2>2. RowTurn(r)
    BY <1>11, Hops DEF SetUpFails, RowTurn, Unreserved, Over, Moves, At
  <2>3. QED
    BY <1>11, <2>1, <2>2, Hops, OverTurn DEF SetUpFails
<1>12. ASSUME CreateJob(r) PROVE Turn(r)
  <2>1. Busy(r)
    BY <1>12 DEF CreateJob, Busy, At
  <2>2. IsRestart(r) => InRestart(r)
    BY <1>12 DEF CreateJob, InRestart, At, KindsFit, IsRestart, Restarts, First
  <2>3. QED
    BY <1>12, <2>1, <2>2, Hops, HopTurn DEF CreateJob, PC
<1>13. ASSUME FailBeforeSpawn(r) PROVE Turn(r)
  <2>1. Busy(r)
    BY <1>13 DEF FailBeforeSpawn, Busy, At
  <2>2. RowTurn(r)
    BY <1>13, Hops DEF FailBeforeSpawn, RowTurn, Unreserved, TypeOK, Over,
       Moves, At
  <2>3. IsRestart(r) => InRestart(r)
    BY <1>13 DEF FailBeforeSpawn, InRestart, At
  <2>4. LiveTurn(r)
    BY <1>13, <2>3, LiveMoves, Hops DEF LiveTurn, Over, Moves, InRestart, At
  <2>5. QED
    BY <1>13, <2>1, <2>2, <2>4, Hops DEF Turn, Over, PC
<1>14. ASSUME Spawn(r) PROVE Turn(r)
  <2>1. Busy(r)
    BY <1>14 DEF Spawn, Busy, At
  <2>2. IsRestart(r) => InRestart(r)
    BY <1>14 DEF Spawn, InRestart, At
  <2>3. Moves(r, AfterSpawn(r)) /\ AfterSpawn(r) \in PC \ {"idle"}
    BY <1>14, SpawnHops DEF PC
  <2>4. QED
    BY <1>14, <2>1, <2>2, <2>3, HopTurn DEF Spawn
<1>15. ASSUME Commit(r) PROVE Turn(r)
  <2>1. Busy(r)
    BY <1>15 DEF Commit, Busy, At
  <2>2. IsRestart(r) => InRestart(r)
    BY <1>15 DEF Commit, InRestart, At, KindsFit, IsRestart, Restarts, First
  <2>3. QED
    BY <1>15, <2>1, <2>2, Hops, HopTurn DEF Commit, PC
<1>16. ASSUME CommitFails(r) PROVE Turn(r)
  <2>1. Busy(r)
    BY <1>16 DEF CommitFails, Busy, At
  <2>2. RowTurn(r)
    BY <1>16, Hops DEF CommitFails, RowTurn, Unreserved, Over, Moves, At
  <2>3. QED
    BY <1>16, <2>1, <2>2, Hops, OverTurn DEF CommitFails
<1>17. ASSUME CommitWon(r) PROVE Turn(r)
  <2>1. Busy(r)
    BY <1>17 DEF CommitWon, Busy, At, Won
  <2>2. IsRestart(r) => InRestart(r)
    BY <1>17 DEF CommitWon, Won, InRestart, At
  <2>3. req[r].seen \in Entry /\ req[r].method \in Streams /\ (IsRestart(r) \/ req[r].kind \in First)
    BY <1>17 DEF CommitWon, Won, At, LocalsFit, Spawned, KindsFit, IsRestart,
       First
  <2>4. OwnEntry(r) \in Entry
    BY <2>3, OwnFields
  <2>5. CASE Over(r) /\ Sets(Sess(r), OwnEntry(r)) /\ reserved' = Unreserved(r)
    <3>1. RowTurn(r)
      BY <1>17, <2>5 DEF CommitWon, RowTurn, Unreserved, Over, Moves, At
    <3>2. LiveTurn(r)
      BY <2>2, <2>3, <2>4, <2>5 DEF LiveTurn, Over, Moves, At
    <3>3. QED
      BY <2>1, <2>5, <3>1, <3>2 DEF Turn, Over, PC
  <2>6. CASE UNCHANGED <<live, reserved>> /\ Hop(r, "write")
    BY <1>17, <2>1, <2>2, <2>6, HopTurn DEF CommitWon, PC
  <2>7. QED
    BY <1>17, <2>5, <2>6, LiveMoves
<1>18. ASSUME CommitLost(r) PROVE Turn(r)
  <2>1. Busy(r)
    BY <1>18 DEF CommitLost, Busy, At, Lost
  <2>2. QED
    BY <1>18, <2>1, Hops, HopTurn DEF CommitLost, PC
<1>19. ASSUME CancelNewJob(r) PROVE Turn(r)
  <2>1. Busy(r)
    BY <1>19 DEF CancelNewJob, Busy, At
  <2>2. RowTurn(r)
    BY <1>19, Hops DEF CancelNewJob, RowTurn, Unreserved, Over, Moves, At
  <2>3. QED
    BY <1>19, <2>1, <2>2, Hops, OverTurn DEF CancelNewJob
<1>20. ASSUME WritePlaylist(r) PROVE Turn(r)
  <2>1. Busy(r)
    BY <1>20 DEF WritePlaylist, Busy, At
  <2>2. IsRestart(r) => InRestart(r)
    BY <1>20 DEF WritePlaylist, InRestart, At, KindsFit, IsRestart, Restarts,
       First
  <2>3. QED
    BY <1>20, <2>1, <2>2, Hops, HopTurn DEF WritePlaylist, PC
<1>21. ASSUME WriteFails(r) PROVE Turn(r)
  <2>1. Busy(r)
    BY <1>21 DEF WriteFails, Busy, At
  <2>2. (IsRestart(r) => InRestart(r)) /\ RowTurn(r) /\ UNCHANGED <<live, session, reserved>>
    BY <1>21 DEF WriteFails, InRestart, At, RowTurn
  <2>3. QED
    BY <1>21, <2>1, <2>2, Hops, HopTurn, OverTurn DEF PC
<1>22. ASSUME Publish(r) PROVE Turn(r)
  <2>1. Busy(r)
    BY <1>22 DEF Publish, Busy, At
  <2>2. RowTurn(r)
    BY <1>22 DEF Publish, RowTurn
  <2>3. InRestart(r) \/ req[r].kind \in First
    BY <1>22 DEF Publish, InRestart, At, KindsFit, First
  <2>4. OwnEntry(r) \in Entry
    BY <1>22, OwnFields DEF Publish, At, LocalsFit, Spawned
  <2>5. CASE Sets(Sess(r), OwnEntry(r))
    <3>1. LiveTurn(r)
      BY <1>22, <2>3, <2>4, <2>5, Hops DEF LiveTurn, Over, Moves, At
    <3>2. QED
      BY <1>22, <2>1, <2>2, <3>1, Hops DEF Turn, Over, PC
  <2>6. CASE UNCHANGED live
    BY <1>22, <2>1, <2>2, <2>6, Hops, OverTurn
  <2>7. QED
    BY <1>22, <2>5, <2>6, LiveMoves
<1>23. QED
  BY <1>1, <1>2, <1>3, <1>4, <1>5, <1>6, <1>7, <1>8, <1>9, <1>10, <1>11,
     <1>12, <1>13, <1>14, <1>15, <1>16, <1>17, <1>18, <1>19, <1>20, <1>21,
     <1>22 DEF Continue

(* Sessions that did not start have no entry and no handler; a session is  *)
(* alone with the handler that starts it, and has one first spawn at once. *)
SessionFacts ==
  /\ \A s \in Sessions : session[s] = "none" => live[s] = None
  /\ \A r \in Requests : ~At(r, "idle") => session[Sess(r)] # "none"
  /\ \A q, r \in Requests :
       req[r].kind = "start" /\ Busy(r) /\ Sess(q) = Sess(r) => q = r
  /\ \A r \in Requests : req[r].kind = "first" /\ Busy(r) => Sess(r) \in reserved
  /\ \A q, r \in Requests :
       /\ req[q].kind = "first" /\ Busy(q) /\ req[r].kind = "first" /\ Busy(r)
       /\ Sess(q) = Sess(r)
       => q = r

(* Until a stop or a reset takes it away, a session has no entry during a  *)
(* first spawn and has one, marked from restartTranscode's guard on, while *)
(* a restart runs; and it has one restart.                                 *)
RestartFacts ==
  /\ \A r \in Requests :
       req[r].kind \in First /\ Busy(r) /\ ~TornDown(Sess(r)) => live[Sess(r)] = None
  /\ \A r \in Requests : IsRestart(r) /\ Busy(r) /\ ~TornDown(Sess(r)) => live[Sess(r)] # None
  /\ \A r \in Requests : InRestart(r) /\ ~TornDown(Sess(r)) => live[Sess(r)].restarting
  /\ OneRestartAtATime

(* A handler run that begins on a session, its guards with it.             *)
Begins(r, s, k) ==
  /\ At(r, "idle") /\ ~Starting(s) /\ s \in Sessions
  /\ \A q \in Requests \ {r} : req'[q] = req[q]
  /\ req'[r].kind = k /\ req'[r].sess = s /\ k \in AllKinds
  /\ req'[r].pc \in {"done", "acquire", "cancel", "enter", "kill", "end"}
  /\ UNCHANGED live
  /\ IF k = "start"
     THEN session[s] = "none" /\ \A t \in Sessions : session'[t] = IF t = s THEN "open" ELSE session[t]
     ELSE session[s] # "none" /\ UNCHANGED session
  /\ IF k = "first" THEN live[s] = None /\ s \notin reserved /\ reserved' = reserved \cup {s}
     ELSE UNCHANGED reserved
  /\ k \in Restarts \cup {"fallback"} => live[s] # None

(* Every call begins a handler run. *)
LEMMA Beginnings ==
  ASSUME TypeOK, KindsFit, LocalsFit, SessionFacts, NEW r \in Requests, NEW s \in Sessions
  PROVE  /\ Start(r, s) => Begins(r, s, "start")
         /\ FirstSpawn(r, s) => Begins(r, s, "first")
         /\ Seek(r, s) => Begins(r, s, "seek")
         /\ Switch(r, s) => Begins(r, s, "switch")
         /\ Reset(r, s) => Begins(r, s, "reset")
         /\ Stop(r, s) => Begins(r, s, "stop")
<1>1. ASSUME Start(r, s) PROVE Begins(r, s, "start")
  <2>1. /\ \A q \in Requests \ {r} : req'[q] = req[q]
        /\ req'[r].kind = "start" /\ req'[r].sess = s /\ req'[r].pc \in {"done", "acquire"}
    BY <1>1, BeginFacts DEF Start, Opens
  <2>2. \A t \in Sessions : session'[t] = IF t = s THEN "open" ELSE session[t]
    BY <1>1 DEF Start, TypeOK
  <2>3. QED
    BY <1>1, <2>1, <2>2 DEF Start, MayBegin, Begins, AllKinds, Restarts
<1>2. ASSUME FirstSpawn(r, s) PROVE Begins(r, s, "first")
  <2>1. /\ \A q \in Requests \ {r} : req'[q] = req[q]
        /\ req'[r].kind = "first" /\ req'[r].sess = s /\ req'[r].pc = "acquire"
    BY <1>2, BeginFacts DEF FirstSpawn, Opens
  <2>2. QED
    BY <1>2, <2>1 DEF FirstSpawn, MayBegin, Begins, AllKinds, Restarts
<1>3. ASSUME Seek(r, s) PROVE Begins(r, s, "seek")
  <2>1. Opens(r, s, "seek", "cancel", live[s], live[s].method)
    BY <1>3, BeginFacts DEF Seek
  <2>2. QED
    BY <1>3, <2>1 DEF Seek, MayBegin, Begins, Opens, AllKinds, Restarts,
       SessionFacts
<1>4. ASSUME Switch(r, s) PROVE Begins(r, s, "switch")
  <2>1. /\ \A q \in Requests \ {r} : req'[q] = req[q]
        /\ req'[r].kind = "switch" /\ req'[r].sess = s /\ req'[r].pc = "cancel"
    BY <1>4, BeginFacts DEF Switch, Opens
  <2>2. QED
    BY <1>4, <2>1 DEF Switch, MayBegin, Begins, AllKinds, Restarts, SessionFacts
<1>5. ASSUME Reset(r, s) PROVE Begins(r, s, "reset")
  <2>1. Opens(r, s, "reset", "kill", None, "DIRECT_PLAY")
    BY <1>5, BeginFacts DEF Reset
  <2>2. QED
    BY <1>5, <2>1 DEF Reset, MayBegin, Begins, Opens, AllKinds, Restarts,
       SessionFacts
<1>6. ASSUME Stop(r, s) PROVE Begins(r, s, "stop")
  <2>1. Opens(r, s, "stop", "end", None, "none")
    BY <1>6, BeginFacts DEF Stop
  <2>2. QED
    BY <1>6, <2>1 DEF Stop, MayBegin, Begins, Opens, AllKinds, Restarts
<1>7. QED
  BY <1>1, <1>2, <1>3, <1>4, <1>5, <1>6

(* So does the software retry. *)
LEMMA FallbackBegins ==
  ASSUME TypeOK, KindsFit, LocalsFit, SessionFacts,
         NEW r \in Requests, NEW c \in Requests, Fallback(r, c)
  PROVE  Begins(r, Sess(c), "fallback")
<1>1. Sess(c) \in Sessions /\ live[Sess(c)] # None
  BY InTypes DEF Fallback, MayFallBack, LocalsFit, At, Spawned
<1>2. Opens(r, Sess(c), "fallback", "enter", live[Sess(c)], live[Sess(c)].method)
  BY BeginFacts DEF Fallback
<1>3. QED
  BY <1>1, <1>2 DEF Fallback, MayBegin, Begins, Opens, AllKinds, Restarts,
     SessionFacts

(* No session is called None. *)
LEMMA NoneIsNoSession == None \notin Sessions
BY Playback DEF PlaybackAssumption

(* A handler run that begins keeps SessionFacts. *)
LEMMA SessionBegins ==
  ASSUME TypeOK, KindsFit, SessionFacts, NEW r \in Requests, NEW s, NEW k, Begins(r, s, k)
  PROVE  SessionFacts'
<1>1. ASSUME NEW t \in Sessions, session'[t] = "none" PROVE live'[t] = None
  BY <1>1 DEF Begins, SessionFacts
<1>2. ASSUME NEW q \in Requests, ~At(q, "idle")' PROVE session'[Sess(q)'] # "none"
  BY <1>2, InTypes DEF Begins, SessionFacts, At, Sess
<1>3. ASSUME NEW q \in Requests, NEW u \in Requests,
             req'[u].kind = "start", Busy(u)', Sess(q)' = Sess(u)'
      PROVE  q = u
  <2>1. CASE u = r /\ q # r
    BY <1>3, <2>1, NoneIsNoSession DEF Begins, SessionFacts, KindsFit, At, Sess
  <2>2. CASE u # r /\ q = r
    BY <1>3, <2>2 DEF Begins, Starting, Busy, At, Sess
  <2>3. CASE u # r /\ q # r
    BY <1>3, <2>3 DEF Begins, SessionFacts, Busy, Sess
  <2>4. QED
    BY <2>1, <2>2, <2>3
<1>4. ASSUME NEW q \in Requests, req'[q].kind = "first", Busy(q)' PROVE Sess(q)' \in reserved'
  <2>1. CASE q = r
    BY <1>4, <2>1 DEF Begins, Sess
  <2>2. CASE q # r
    BY <1>4, <2>2 DEF Begins, SessionFacts, Busy, Sess
  <2>3. QED
    BY <2>1, <2>2
<1>5. ASSUME NEW q \in Requests, NEW u \in Requests, Sess(q)' = Sess(u)',
             req'[q].kind = "first", Busy(q)', req'[u].kind = "first", Busy(u)'
      PROVE  q = u
  <2>1. CASE u = r /\ q # r
    BY <1>5, <2>1 DEF Begins, SessionFacts, Busy, Sess
  <2>2. CASE u # r /\ q = r
    BY <1>5, <2>2 DEF Begins, SessionFacts, Busy, Sess
  <2>3. CASE u # r /\ q # r
    BY <1>5, <2>3 DEF Begins, SessionFacts, Busy, Sess
  <2>4. QED
    BY <2>1, <2>2, <2>3
<1>6. QED
  BY <1>1, <1>2, <1>3, <1>4, <1>5 DEF SessionFacts

(* What every step of a handler run leaves as it was. *)
LEMMA TurnKeeps ==
  ASSUME NEW r \in Requests, Turn(r)
  PROVE  /\ \A q \in Requests : /\ req'[q].kind = req[q].kind /\ Sess(q)' = Sess(q)
                                /\ At(q, "idle")' <=> At(q, "idle")
                                /\ Busy(q)' => Busy(q)
                                /\ IsRestart(q)' <=> IsRestart(q)
                                /\ q # r => (InRestart(q)' <=> InRestart(q))
         /\ \A t : TornDown(t)' <=> TornDown(t)
BY DEF Turn, Moves, Busy, At, Sess, IsRestart, InRestart, TornDown

(* A turn keeps SessionFacts. *)
LEMMA SessionTurn ==
  ASSUME TypeOK, KindsFit, SessionFacts, NEW r \in Requests, Turn(r)
  PROVE  SessionFacts'
<1> DEFINE s == Sess(r)
<1>1. s \in Sessions /\ session[s] # "none"
  BY InTypes DEF Turn, SessionFacts, Busy, At
<1>2. ASSUME NEW t \in Sessions, session'[t] = "none" PROVE live'[t] = None
  BY <1>1, <1>2 DEF Turn, RowTurn, LiveTurn, Sets, SessionFacts
<1>3. ASSUME NEW q \in Requests, ~At(q, "idle")' PROVE session'[Sess(q)'] # "none"
  BY <1>1, <1>3, TurnKeeps, InTypes DEF Turn, RowTurn, SessionFacts
<1>4. ASSUME NEW q \in Requests, NEW u \in Requests,
             req'[u].kind = "start", Busy(u)', Sess(q)' = Sess(u)'
      PROVE  q = u
  BY <1>4, TurnKeeps DEF SessionFacts
<1>5. ASSUME NEW q \in Requests, req'[q].kind = "first", Busy(q)' PROVE Sess(q)' \in reserved'
  <2>1. Sess(q) \in reserved /\ req[q].kind = "first" /\ Busy(q)
    BY <1>5, TurnKeeps DEF SessionFacts
  <2>2. CASE UNCHANGED reserved
    BY <2>1, <2>2, TurnKeeps
  <2>3. CASE req[r].kind = "first" /\ At(r, "done")' /\ reserved' = reserved \ {s}
    <3>1. q # r /\ Busy(r)
      BY <1>5, <2>3 DEF Busy, At, Turn
    <3>2. Sess(q) # s
      BY <2>1, <2>3, <3>1 DEF SessionFacts
    <3>3. QED
      BY <2>1, <2>3, <3>2, TurnKeeps
  <2>4. QED
    BY <2>2, <2>3 DEF Turn, RowTurn
<1>6. ASSUME NEW q \in Requests, NEW u \in Requests, Sess(q)' = Sess(u)',
             req'[q].kind = "first", Busy(q)', req'[u].kind = "first", Busy(u)'
      PROVE  q = u
  BY <1>6, TurnKeeps DEF SessionFacts
<1>7. QED
  BY <1>2, <1>3, <1>4, <1>5, <1>6 DEF SessionFacts

(* A handler run that begins keeps RestartFacts. *)
LEMMA RestartBegins ==
  ASSUME TypeOK, KindsFit, SessionFacts, RestartFacts,
         NEW r \in Requests, NEW s, NEW k, Begins(r, s, k)
  PROVE  RestartFacts'
<1>1. \A t : ~TornDown(t)' => ~TornDown(t)
  BY DEF Begins, TornDown, KindsFit, Sess
<1>2. ~InRestart(r)' /\ \A q \in Requests \ {r} : InRestart(q)' <=> InRestart(q)
  BY DEF Begins, InRestart, IsRestart
<1>3. ASSUME NEW q \in Requests, req'[q].kind \in First, Busy(q)', ~TornDown(Sess(q))'
      PROVE  live'[Sess(q)'] = None
  <2>1. CASE q = r
    BY <1>3, <2>1 DEF Begins, First, SessionFacts, Sess
  <2>2. CASE q # r
    BY <1>1, <1>3, <2>2 DEF Begins, RestartFacts, Busy, Sess
  <2>3. QED
    BY <2>1, <2>2
<1>4. ASSUME NEW q \in Requests, IsRestart(q)', Busy(q)', ~TornDown(Sess(q))'
      PROVE  live'[Sess(q)'] # None
  <2>1. CASE q = r
    BY <1>4, <2>1 DEF Begins, IsRestart, Sess
  <2>2. CASE q # r
    BY <1>1, <1>4, <2>2 DEF Begins, RestartFacts, Busy, IsRestart, Sess
  <2>3. QED
    BY <2>1, <2>2
<1>5. ASSUME NEW q \in Requests, InRestart(q)', ~TornDown(Sess(q))'
      PROVE  live'[Sess(q)'].restarting
  BY <1>1, <1>2, <1>5 DEF Begins, RestartFacts, Sess
<1>6. ASSUME NEW q \in Requests, NEW u \in Requests, InRestart(q)', InRestart(u)',
             Sess(q)' = Sess(u)', ~TornDown(Sess(q))'
      PROVE  q = u
  BY <1>1, <1>2, <1>6 DEF Begins, RestartFacts, OneRestartAtATime, Sess
<1>7. QED
  BY <1>3, <1>4, <1>5, <1>6 DEF RestartFacts, OneRestartAtATime

(* A turn keeps RestartFacts: only restartTranscode's entry guard starts a *)
(* restart, and it finds the entry unmarked.                               *)
LEMMA RestartTurn ==
  ASSUME TypeOK, KindsFit, SessionFacts, RestartFacts, NEW r \in Requests, Turn(r)
  PROVE  RestartFacts'
<1> DEFINE s == Sess(r)
<1>1. Busy(r) /\ s \in Sessions
  BY InTypes DEF Turn, Busy, At
<1>2. \A q \in Requests : Busy(q) => Sess(q) \in Sessions
  BY InTypes DEF Busy, At
<1>3. InRestart(r) => IsRestart(r) /\ Busy(r)
  BY DEF InRestart, Busy
<1>4. req[r].kind \in Ending => TornDown(s)
  BY DEF TornDown, Ending
<1>5. ASSUME NEW q \in Requests, req[q].kind \in First, Busy(q)', ~TornDown(Sess(q))
      PROVE  live'[Sess(q)] = None
  <2>1. live[Sess(q)] = None /\ Busy(q) /\ Sess(q) \in Sessions
    BY <1>2, <1>5, TurnKeeps DEF RestartFacts
  <2>2. CASE Sess(q) # s
    BY <2>1, <2>2 DEF Turn, LiveTurn, Sets
  <2>3. CASE Sess(q) = s
    <3>1. ~InRestart(r)
      BY <1>3, <1>5, <2>1, <2>3 DEF RestartFacts
    <3>2. live[s] \notin Entry
      BY <2>1, <2>3, EntryFields
    <3>3. ASSUME req[r].kind \in First, At(r, "done")' PROVE FALSE
      <4>1. q # r
        BY <1>5, <3>3 DEF Busy, At
      <4>2. QED
        BY <1>1, <1>5, <2>1, <2>3, <3>3, <4>1 DEF First, SessionFacts
    <3>4. QED
      BY <2>1, <2>3, <3>1, <3>2, <3>3 DEF Turn, LiveTurn, Sets
  <2>4. QED
    BY <2>2, <2>3
<1>6. ASSUME NEW q \in Requests, IsRestart(q), Busy(q)', ~TornDown(Sess(q))
      PROVE  live'[Sess(q)] # None
  <2>1. live[Sess(q)] # None /\ Sess(q) \in Sessions
    BY <1>2, <1>6, TurnKeeps DEF RestartFacts
  <2>2. CASE Sess(q) # s
    BY <2>1, <2>2 DEF Turn, LiveTurn, Sets
  <2>3. CASE Sess(q) = s
    <3>1. live[s] \in Entry => Marked(live[s]) \in Entry
      BY MarkedFields
    <3>2. QED
      BY <1>4, <1>6, <2>1, <2>3, <3>1, EntryFields DEF Turn, LiveTurn, Sets
  <2>4. QED
    BY <2>2, <2>3
<1>7. ASSUME NEW q \in Requests, InRestart(q)', ~TornDown(Sess(q))
      PROVE  live'[Sess(q)].restarting
  <2>1. IsRestart(q) /\ Busy(q) /\ Busy(q)'
    BY <1>7, TurnKeeps DEF InRestart, Busy, IsRestart
  <2>2. live[Sess(q)] # None /\ Sess(q) \in Sessions
    BY <1>2, <1>7, <2>1 DEF RestartFacts
  <2>3. CASE q = r
    <3>1. CASE UNCHANGED live /\ InRestart(r)
      BY <1>7, <2>3, <3>1 DEF RestartFacts
    <3>2. CASE Sets(s, Marked(live[s])) /\ live[s] \in Entry
      BY <2>3, <3>2, MarkedFields DEF Sets
    <3>3. ~At(r, "done")' /\ ~(req[r].kind \in Ending)
      BY <1>4, <1>7, <2>3 DEF InRestart, At
    <3>4. QED
      BY <1>7, <2>2, <2>3, <3>1, <3>2, <3>3 DEF Turn, LiveTurn
  <2>4. CASE q # r
    <3>1. InRestart(q) /\ live[Sess(q)].restarting
      BY <1>7, <2>4, TurnKeeps DEF RestartFacts
    <3>2. CASE Sess(q) # s
      BY <2>2, <3>1, <3>2 DEF Turn, LiveTurn, Sets
    <3>3. CASE Sess(q) = s
      <4>1. ~InRestart(r) /\ ~(req[r].kind \in Ending)
        BY <1>4, <1>7, <2>4, <3>1, <3>3 DEF RestartFacts, OneRestartAtATime
      <4>2. req[r].kind \notin First
        BY <1>1, <1>7, <2>2, <3>3 DEF RestartFacts
      <4>3. QED
        BY <3>1, <3>3, <4>1, <4>2 DEF Turn, LiveTurn
    <3>4. QED
      BY <3>2, <3>3
  <2>5. QED
    BY <2>3, <2>4
<1>8. ASSUME InRestart(r)', ~InRestart(r), NEW q \in Requests \ {r}, InRestart(q),
             Sess(q) = s, ~TornDown(s)
      PROVE  FALSE
  <2>1. live[s].restarting /\ live[s] # None
    BY <1>8 DEF RestartFacts, InRestart, Busy
  <2>2. ~At(r, "done")' /\ ~(req[r].kind \in Ending)
    BY <1>4, <1>8 DEF InRestart, At
  <2>3. QED
    BY <1>8, <2>1, <2>2 DEF Turn, LiveTurn
<1>9. ASSUME NEW q \in Requests, NEW u \in Requests, InRestart(q)', InRestart(u)',
             Sess(q) = Sess(u), ~TornDown(Sess(q))
      PROVE  q = u
  <2>1. CASE q # r /\ u # r
    BY <1>9, <2>1, TurnKeeps DEF RestartFacts, OneRestartAtATime
  <2>2. CASE q = r /\ u # r
    BY <1>8, <1>9, <2>2, TurnKeeps DEF RestartFacts, OneRestartAtATime
  <2>3. CASE q # r /\ u = r
    BY <1>8, <1>9, <2>3, TurnKeeps DEF RestartFacts, OneRestartAtATime
  <2>4. QED
    BY <2>1, <2>2, <2>3
<1>10. QED
  BY <1>5, <1>6, <1>7, <1>9, TurnKeeps DEF RestartFacts, OneRestartAtATime

(* Steps of the exit callbacks and of the reaper touch no handler run. *)
LEMMA AsideStep ==
  ASSUME SessionFacts, RestartFacts, UNCHANGED <<session, live, reserved, req>>
  PROVE  SessionFacts' /\ RestartFacts'
BY DEF SessionFacts, RestartFacts, OneRestartAtATime, InRestart, IsRestart,
   TornDown,
   Busy, At, Sess

(* Every step keeps SessionFacts and RestartFacts. *)
LEMMA SessionStep ==
  TypeOK /\ KindsFit /\ LocalsFit /\ SessionFacts /\ RestartFacts /\ [Next]_vars
    => SessionFacts' /\ RestartFacts'
<1> SUFFICES ASSUME TypeOK, KindsFit, LocalsFit, SessionFacts, RestartFacts, [Next]_vars
             PROVE  SessionFacts' /\ RestartFacts'
  OBVIOUS
<1>1. ASSUME NEW r \in Requests, Call(r) PROVE SessionFacts' /\ RestartFacts'
  <2>1. PICK s \in Sessions : \/ Start(r, s) \/ FirstSpawn(r, s) \/ Seek(r, s)
                              \/ Switch(r, s) \/ Reset(r, s) \/ Stop(r, s)
    BY <1>1 DEF Call
  <2>2. \E k : Begins(r, s, k)
    BY <2>1, Beginnings
  <2>3. QED
    BY <2>2, SessionBegins, RestartBegins
<1>2. ASSUME NEW r \in Requests, Continue(r) PROVE SessionFacts' /\ RestartFacts'
  BY <1>2, Turns, SessionTurn, RestartTurn
<1>3. ASSUME NEW c \in Requests, Exit(c) PROVE SessionFacts' /\ RestartFacts'
  BY <1>3, AsideStep DEF Exit
<1>4. ASSUME NEW c \in Requests, AfterExit(c) PROVE SessionFacts' /\ RestartFacts'
  <2>1. CASE SetTerminal(c) \/ Truncate(c) \/ NoFallback(c)
    BY <2>1, AsideStep DEF SetTerminal, Truncate, NoFallback
  <2>2. ASSUME NEW r \in Requests, Fallback(r, c) PROVE SessionFacts' /\ RestartFacts'
    BY <2>2, FallbackBegins, SessionBegins, RestartBegins
  <2>3. QED
    BY <1>4, <2>1, <2>2 DEF AfterExit
<1>5. CASE SweepJobs
  BY <1>5, AsideStep DEF SweepJobs
<1>6. CASE UNCHANGED vars
  BY <1>6, AsideStep DEF vars
<1>7. QED
  BY <1>1, <1>2, <1>3, <1>4, <1>5, <1>6 DEF Next

(* The inductive invariant. *)
IInv ==
  /\ TypeOK /\ KindsFit /\ LocalsFit
  /\ SlotFacts /\ ChildFacts /\ SessionFacts /\ RestartFacts

(* The inductive invariant holds initially. *)
LEMMA InitInv == Init => IInv
<1> SUFFICES ASSUME Init PROVE IInv
  OBVIOUS
<1>1. TypeOK
  <2>1. world \in WorldType
    BY Playback DEF Init, PlaybackAssumption
  <2>2. Slot!TypeOK
    BY DEF Init, Slot!Init, Slot!TypeOK, Slot!ClientState
  <2>3. req \in [Requests -> Handler]
    BY DEF Init, Handler, PC
  <2>4. QED
    BY <2>1, <2>2, <2>3 DEF Init, TypeOK
<1>2. KindsFit /\ LocalsFit
  BY DEF Init, KindsFit, LocalsFit, At, Sess, IsRestart, Early, Spawned
<1>3. SlotFacts
  BY DEF Init, Slot!Init, SlotFacts, Owner, At, Alive
<1>4. ChildFacts
  BY DEF Init, ChildFacts, JobsNamed, LiveNamed, Names, IsRestart, Busy, At,
     Restarts
<1>5. SessionFacts
  BY DEF Init, SessionFacts, Busy, At
<1>6. RestartFacts
  BY DEF Init, RestartFacts, OneRestartAtATime, InRestart, Busy, IsRestart,
     Restarts
<1>7. QED
  BY <1>1, <1>2, <1>3, <1>4, <1>5, <1>6 DEF IInv

(* Every step keeps it, given what holds of the semaphore. *)
LEMMA NextInv == SlotInv /\ SlotInv' /\ IInv /\ [Next]_vars => IInv'
<1> SUFFICES ASSUME SlotInv, SlotInv', IInv, [Next]_vars PROVE IInv'
  OBVIOUS
<1>1. TypeOK'
  BY TypeStep DEF IInv, SlotInv
<1>2. KindsFit' /\ LocalsFit'
  BY <1>1, KindsStep, LocalsStep DEF IInv
<1>3. SlotFacts' /\ ChildFacts' /\ SessionFacts' /\ RestartFacts'
  BY <1>1, <1>2, SlotFactsStep, ChildFactsStep, SessionStep DEF IInv
<1>4. QED
  BY <1>1, <1>2, <1>3 DEF IInv

(* It always holds. *)
LEMMA Inductive == Spec => [](SlotInv /\ IInv)
<1>1. SlotInv /\ SlotInv' /\ IInv /\ [Next]_vars => IInv'
  BY NextInv
<1>2. QED
  BY <1>1, InitInv, SlotsConsistent, PTL DEF Spec

(* Children that have not exited hold slots, and there are no more slots   *)
(* than the cap.                                                           *)
LEMMA CapHolds == SlotInv /\ IInv => FfmpegCap
<1> SUFFICES ASSUME SlotInv, IInv PROVE FfmpegCap
  OBVIOUS
<1>1. {c \in Requests : Alive(c)} \subseteq Slot!Holders
  BY DEF IInv, SlotFacts, Owner, Slot!Holders
<1>2. IsFiniteSet(Requests) /\ Slot!Holders \subseteq Requests
  BY Playback DEF PlaybackAssumption, Slot!Holders
<1>3. IsFiniteSet(Slot!Holders)
  BY <1>2, FS_Subset
<1>4. Cardinality({c \in Requests : Alive(c)}) <= Cardinality(Slot!Holders)
  BY <1>1, <1>3, FS_Subset
<1>5. Cardinality(Slot!Holders) <= MaxTranscodes
  BY DEF SlotInv, Slot!CapRespected, Slot!Cardinality, Cardinality
<1>6. Cardinality({c \in Requests : Alive(c)}) \in Nat /\ Cardinality(Slot!Holders) \in Nat
      /\ MaxTranscodes \in Nat
  BY <1>1, <1>3, FS_Subset, FS_CardinalityType, Playback DEF PlaybackAssumption
<1>7. QED
  BY <1>4, <1>5, <1>6 DEF FfmpegCap

(* However restarts, resets, stops and fallbacks of a session overlap,     *)
(* there are no more ffmpeg children than the cap and one restart of a     *)
(* session at a time; and unless the calls a first spawn makes before its  *)
(* try reject, a slot is held exactly by the children that have not exited *)
(* and the handlers about to spawn one.                                    *)
THEOREM SlotSafety == Spec => []SlotsAreOwned
<1>1. SlotInv /\ IInv => SlotsAreOwned
  <2> SUFFICES ASSUME SlotInv, IInv PROVE SlotsAreOwned
    OBVIOUS
  <2>1. TypeOK /\ FfmpegCap /\ OneRestartAtATime
    BY CapHolds DEF IInv, RestartFacts
  <2>2. ASSUME "setup" \notin world.faults PROVE SlotsMatchOwners
    BY <2>2 DEF IInv, SlotFacts, Owner, SlotsMatchOwners, Slot!Holders
  <2>3. QED
    BY <2>1, <2>2 DEF SlotsAreOwned
<1>2. QED
  BY <1>1, Inductive, PTL

(* No step rewrites a CANCELLED job: a job is created once, before its     *)
(* child exists, and the exit callback looks first.                        *)
LEMMA CancelledStep ==
  IInv /\ [Next]_vars => \A r \in Requests : job[r] = "CANCELLED" => job'[r] = "CANCELLED"
<1> SUFFICES ASSUME IInv, [Next]_vars, NEW q \in Requests, job[q] = "CANCELLED"
             PROVE  job'[q] = "CANCELLED"
  OBVIOUS
<1>1. job \in [Requests -> {"none", "RUNNING", "CANCELLED", "DONE", "FAILED"}]
  BY DEF IInv, TypeOK
<1>2. ASSUME NEW r \in Requests, Call(r) PROVE UNCHANGED job
  BY <1>2 DEF Call, Start, FirstSpawn, Seek, Switch, Reset, Stop, childVars
<1>3. ASSUME NEW r \in Requests, Continue(r) PROVE job'[q] = "CANCELLED"
  <2>1. CASE CreateJob(r)
    <3>1. q # r
      BY <2>1 DEF IInv, ChildFacts, JobsNamed, CreateJob, At, Spawned
    <3>2. QED
      BY <1>1, <2>1, <3>1 DEF CreateJob
  <2>2. CASE CancelKilled(r) \/ CancelNewJob(r)
    BY <1>1, <2>2 DEF CancelKilled, CancelNewJob
  <2>3. CASE CancelJob(r)
    <3>1. PICK c : job' = job \/ job' = [job EXCEPT ![c] = "CANCELLED"]
      BY <2>3 DEF CancelJob
    <3>2. QED
      BY <1>1, <3>1
  <2>4. CASE ~(CreateJob(r) \/ CancelKilled(r) \/ CancelNewJob(r) \/ CancelJob(r))
    BY <1>3, <2>4 DEF Continue, EndRow, KillLive, RemoveDir, Enter,
       Acquire, SlotTimeout, SlotGranted, SetUp, SetUpFails, FailBeforeSpawn,
       Spawn, Commit, CommitFails, CommitWon, CommitLost, WritePlaylist,
       WriteFails, Publish, childVars
  <2>5. QED
    BY <2>1, <2>2, <2>3, <2>4
<1>4. ASSUME NEW c \in Requests, Exit(c) \/ AfterExit(c) PROVE job'[q] = "CANCELLED"
  BY <1>1, <1>4 DEF Exit, AfterExit, SetTerminal, Truncate, NoFallback, Fallback
<1>5. CASE SweepJobs
  BY <1>1, <1>5 DEF SweepJobs
<1>6. CASE UNCHANGED vars
  BY <1>6 DEF vars, childVars
<1>7. QED
  BY <1>2, <1>3, <1>4, <1>5, <1>6 DEF Next

(* Whatever overlaps, a job cancelled on purpose is never rewritten as     *)
(* finished or failed (setTranscodeJobTerminal).                           *)
THEOREM CancelledSafety == Spec => CancelledStays
<1>1. IInv /\ [Next]_vars =>
        [\A r \in Requests : job[r] = "CANCELLED" => job'[r] = "CANCELLED"]_vars
  BY CancelledStep
<1>2. QED
  BY <1>1, Inductive, PTL DEF Spec, CancelledStays

-----------------------------------------------------------------------------
(* A client that restarts one at a time and never stops or resets: every   *)
(* handler is a start, a first spawn or a restart, and a session has one   *)
(* at a time.                                                              *)
Allowed == \A r \in Requests : ~At(r, "idle") => req[r].kind \in Restarts \cup First
Alone   == \A q, r \in Requests : Busy(q) /\ Busy(r) /\ Sess(q) = Sess(r) => q = r

(* The child of a settled entry, and the playlist in its directory. *)
Served(s) ==
  ~live[s].restarting =>
    /\ child[live[s].child] # "killed"
    /\ world.exits = {} /\ live[s].method = "TRANSCODE" /\ child[live[s].child] = "running"
       => listing[s][live[s].dir] = live[s].child

(* An entry belongs to an open session, its directory exists, and the      *)
(* handler that spawned its child has published it; whoever marked it is   *)
(* still there.                                                            *)
EntryFits(s) ==
  live[s] # None =>
    /\ session[s] = "open" /\ live[s].dir \in dirs[s]
    /\ At(live[s].child, "done") /\ Sess(live[s].child) = s
    /\ live[s].restarting => \E r \in Requests : Sess(r) = s /\ InRestart(r)
    /\ Served(s)

(* A running child has its handler or its entry. *)
ChildOwned(c) ==
  child[c] = "running" /\ At(c, "done") =>
    live[Sess(c)] # None /\ live[Sess(c)].child = c

(* A restart works on the entry as it was, in a directory that exists, and *)
(* its old child is gone before the new one comes.                         *)
RestartFits(r) ==
  /\ live[Sess(r)] # None
  /\ req[r].seen.child = live[Sess(r)].child
  /\ InRestart(r) <=> live[Sess(r)].restarting
  /\ req[r].kind = "seek" \/ ~At(r, "cancel") => req[r].seen.dir \in dirs[Sess(r)]
  /\ req[r].pc \in {"slot", "prep", "spawn"} \cup Spawned => ~Alive(req[r].seen.child)
  /\ req[r].pc \notin {"tooLate", "lost"}

(* A first spawn works in its own directory. *)
FirstFits(r) ==
  /\ live[Sess(r)] = None
  /\ req[r].pc \in {"prep", "spawn"} \cup Spawned => req[r].seen.dir \in dirs[Sess(r)]
  /\ req[r].seen.method = req[r].method
  /\ req[r].kind = "start" \/ At(r, "committed") => session[Sess(r)] = "open"

(* The playlist is written before the entry that serves it. *)
Written(r) ==
  \/ At(r, "publish")
  \/ req[r].kind = "first" /\ req[r].pc \in {"prep", "spawn", "commit", "committed"}

HandlerFits(r) ==
  Busy(r) =>
    /\ ~req[r].seen.restarting
    /\ req[r].kind \in Restarts => RestartFits(r)
    /\ req[r].kind \in First => FirstFits(r)
    /\ req[r].pc \in Spawned \ {"lost"} => child[r] # "killed"
    /\ At(r, "lost") => child[r] # "running"
    /\ world.exits = {} /\ req[r].method = "TRANSCODE" /\ Written(r) =>
         listing[Sess(r)][req[r].seen.dir] = r

(* All of it about one session. *)
SessionFits(s) ==
  /\ EntryFits(s)
  /\ \A r \in Requests : Sess(r) = s => HandlerFits(r) /\ ChildOwned(r)

NoneReads == world.exits = {} => \A c \in Requests : strand[c] # "reading"

DisciplinedFacts ==
  Disciplined => Allowed /\ Alone /\ NoneReads /\ \A s \in Sessions : SessionFits(s)

(* Without stops and resets nothing takes an entry away. *)
LEMMA Calm ==
  ASSUME KindsFit, Allowed
  PROVE  \A t : ~TornDown(t)
BY DEF TornDown, Allowed, KindsFit, Restarts, First

(* A step that touches one session only. *)
OnlyAt(s) ==
  /\ world' = world
  /\ \A t \in Sessions \ {s} : /\ live'[t] = live[t] /\ session'[t] = session[t]
                               /\ dirs'[t] = dirs[t] /\ listing'[t] = listing[t]
  /\ \A q \in Requests : /\ Sess(q)' # s => req'[q] = req[q] /\ child'[q] = child[q]
                         /\ Sess(q)' = Sess(q) \/ (Sess(q) = None /\ Sess(q)' = s)

(* What holds of the sessions it does not touch still does. *)
LEMMA Elsewhere ==
  ASSUME TypeOK, KindsFit, LocalsFit, NEW s \in Sessions, OnlyAt(s),
         NEW t \in Sessions \ {s}, SessionFits(t)
  PROVE  SessionFits(t)'
<1>1. ASSUME NEW q \in Requests
      PROVE  /\ Sess(q) = t <=> Sess(q)' = t
             /\ Sess(q) = t => req'[q] = req[q] /\ child'[q] = child[q]
  BY <1>1, NoneIsNoSession DEF OnlyAt
<1>2. /\ live'[t] = live[t] /\ session'[t] = session[t]
      /\ dirs'[t] = dirs[t] /\ listing'[t] = listing[t] /\ world' = world
  BY DEF OnlyAt
<1>3. live[t] # None => /\ live[t].child \in Requests /\ Sess(live[t].child) = t
                        /\ req'[live[t].child] = req[live[t].child]
                        /\ child'[live[t].child] = child[live[t].child]
  BY <1>1, InTypes DEF SessionFits, EntryFits
<1>4. \A q \in Requests : Sess(q) = t => (InRestart(q)' <=> InRestart(q))
  BY <1>1 DEF InRestart, IsRestart
<1>5. EntryFits(t)'
  BY <1>1, <1>2, <1>3, <1>4 DEF SessionFits, EntryFits, Served, At
<1>6. ASSUME NEW q \in Requests, Sess(q)' = t PROVE ChildOwned(q)'
  BY <1>1, <1>2, <1>6 DEF SessionFits, ChildOwned, At
<1>7. ASSUME NEW q \in Requests, Sess(q)' = t PROVE HandlerFits(q)'
  <2>1. /\ HandlerFits(q) /\ Sess(q) = t /\ req'[q] = req[q] /\ child'[q] = child[q]
        /\ InRestart(q)' <=> InRestart(q)
    BY <1>1, <1>4, <1>7 DEF SessionFits
  <2>2. FirstFits(q) => FirstFits(q)'
    BY <1>2, <2>1 DEF FirstFits, At, Sess
  <2>3. RestartFits(q) => RestartFits(q)'
    BY <1>2, <1>3, <2>1 DEF RestartFits, At, Sess, Alive
  <2>4. QED
    BY <1>2, <2>1, <2>2, <2>3 DEF HandlerFits, Busy, Written, At, Sess
<1>8. QED
  BY <1>5, <1>6, <1>7 DEF SessionFits

(* A running child of the session keeps its owner unless the entry changes *)
(* hands.                                                                  *)
LEMMA OwnedLater ==
  ASSUME NEW s \in Sessions, NEW r \in Requests, Sess(r) = s, NEW p, Moves(r, p), SessionFits(s),
         \A q \in Requests \ {r} : child'[q] = "running" => child[q] = "running",
         \/ live'[s] = live[s]
         \/ live[s] # None /\ live'[s] # None /\ live'[s].child = live[s].child,
         p = "done" => child'[r] # "running"
  PROVE  \A q \in Requests : Sess(q) = s => ChildOwned(q)'
<1> SUFFICES ASSUME NEW q \in Requests, Sess(q) = s PROVE ChildOwned(q)'
  OBVIOUS
<1>1. CASE q = r
  BY <1>1 DEF ChildOwned, At, Moves
<1>2. CASE q # r
  <2>1. req'[q] = req[q] /\ ChildOwned(q)
    BY <1>2 DEF Moves, SessionFits
  <2>2. QED
    BY <1>2, <2>1 DEF ChildOwned, At, Sess
<1>3. QED
  BY <1>1, <1>2

(* A session's only handler moves. *)
LEMMA TurnFits ==
  ASSUME NEW s \in Sessions, NEW r \in Requests, Sess(r) = s, Busy(r), Alone, NEW p, Moves(r, p),
         EntryFits(s)', HandlerFits(r)', \A q \in Requests : Sess(q) = s => ChildOwned(q)'
  PROVE  SessionFits(s)'
<1>1. ASSUME NEW q \in Requests, Sess(q)' = s PROVE Sess(q) = s
  BY <1>1 DEF Moves, Sess
<1>2. ASSUME NEW q \in Requests \ {r}, Sess(q)' = s PROVE HandlerFits(q)'
  <2>1. ~Busy(q) /\ req'[q] = req[q]
    BY <1>1, <1>2 DEF Alone, Moves
  <2>2. QED
    BY <2>1 DEF HandlerFits, Busy
<1>3. QED
  BY <1>1, <1>2 DEF SessionFits

(* It moves on and writes nothing the others read. *)
LEMMA HopFits ==
  ASSUME TypeOK, KindsFit, NEW s \in Sessions, NEW r \in Requests, Sess(r) = s, Busy(r), Alone,
         SessionFits(s), NEW p, p # "done", Moves(r, p), HandlerFits(r)',
         UNCHANGED <<world, live, session, dirs, listing, child>>,
         InRestart(r) => InRestart(r)'
  PROVE  SessionFits(s)'
<1>1. \A q \in Requests : /\ Sess(q)' = Sess(q)
                          /\ InRestart(q) => InRestart(q)'
                          /\ At(q, "done") => At(q, "done")'
  BY DEF Moves, Sess, InRestart, IsRestart, At, Busy
<1>2. live[s] # None => live[s].child \in Requests
  BY InTypes
<1>3. EntryFits(s)'
  BY <1>1, <1>2 DEF SessionFits, EntryFits, Served
<1>4. \A q \in Requests : Sess(q) = s => ChildOwned(q)'
  BY OwnedLater
<1>5. QED
  BY <1>3, <1>4, TurnFits

(* It returns, has no child running, and the entry stays as it is. *)
LEMMA OverFits ==
  ASSUME TypeOK, KindsFit, NEW s \in Sessions, NEW r \in Requests, Sess(r) = s, Busy(r), Alone,
         SessionFits(s), Over(r), req[r].kind \in First,
         world' = world, live' = live, child' = child, child[r] # "running"
  PROVE  SessionFits(s)'
<1>1. live[s] = None
  BY DEF SessionFits, HandlerFits, FirstFits
<1>2. EntryFits(s)'
  BY <1>1 DEF EntryFits
<1>3. HandlerFits(r)' /\ Moves(r, "done")
  BY DEF HandlerFits, Busy, Over, Moves
<1>4. \A q \in Requests : Sess(q) = s => ChildOwned(q)'
  BY <1>3, OwnedLater
<1>5. QED
  BY <1>2, <1>3, <1>4, TurnFits

(* The entry a running handler of a disciplined client works on. *)
LEMMA SeenEntry ==
  ASSUME TypeOK, KindsFit, LocalsFit, Allowed, NEW r \in Requests, Busy(r)
  PROVE  /\ req[r].seen \in Entry /\ req[r].method \in Streams
         /\ req[r].seen.child \in Requests
         /\ req[r].kind \in Restarts \cup First
         /\ req[r].kind \in Restarts => IsRestart(r)
         /\ req[r].kind \in First => ~IsRestart(r)
<1>1. req[r].pc \in PC /\ ~At(r, "idle")
  BY FieldTypes DEF TypeOK, Busy, At
<1>2. req[r].kind \in Restarts \cup First
  BY <1>1 DEF Allowed
<1>3. req[r].pc \in Early \cup Spawned
  BY <1>1, <1>2 DEF PC, KindsFit, Busy, At, Early, Spawned, Restarts, First,
     Ending
<1>4. QED
  BY <1>2, <1>3, EntryFields DEF LocalsFit, IsRestart, Restarts, First

(* Acquire, SlotGranted, CreateJob, Commit, and a restart on its way to    *)
(* its playlist write: the next await asks for no more than the code saw.  *)
LEMMA StepsOn ==
  ASSUME TypeOK, KindsFit, LocalsFit, Allowed, Alone, NEW s \in Sessions, NEW r \in Requests,
         Sess(r) = s, SessionFits(s),
         \/ Acquire(r) \/ SlotGranted(r) \/ CreateJob(r) \/ Commit(r)
         \/ (CommitWon(r) /\ Hop(r, "write"))
  PROVE  SessionFits(s)'
<1>1. Busy(r)
  BY DEF Acquire, SlotGranted, CreateJob, Commit, CommitWon, Won, Busy, At
<1>2. HandlerFits(r) /\ req[r].kind \in Restarts \cup First
  BY <1>1, SeenEntry DEF SessionFits
<1>3. req[r].seen.child \in Requests /\ s \in Sessions
  BY <1>1, SeenEntry
<1>4. ASSUME NEW p \in PC \ {"done", "idle"}, Hop(r, p),
             UNCHANGED <<world, live, session, dirs, listing, child>>,
             InRestart(r) <=> InRestart(r)',
             p # "cancel" => req[r].kind = "seek" \/ ~At(r, "cancel"),
             req[r].kind \in Restarts =>
               /\ p \in {"slot", "prep", "spawn"} \cup Spawned => ~Alive(req[r].seen.child)
               /\ p \notin {"tooLate", "lost"},
             req[r].kind \in First /\ p \in {"prep", "spawn"} \cup Spawned =>
               req[r].pc \in {"prep", "spawn"} \cup Spawned,
             p = "committed" => session[s] = "open",
             p \in Spawned => child[r] # "killed",
             p # "lost", p # "publish",
             req[r].kind = "first" /\ p \in {"prep", "spawn", "commit", "committed"} =>
               req[r].pc \in {"prep", "spawn", "commit", "committed"}
      PROVE  SessionFits(s)'
  <2>1. /\ Moves(r, p) /\ req'[r].seen = req[r].seen /\ req'[r].method = req[r].method
        /\ req'[r].pc = p /\ req'[r].kind = req[r].kind /\ Sess(r)' = s /\ Sess(r) = s
    BY <1>4 DEF Hop, Moves, Sess
  <2>2. req[r].kind \in First => FirstFits(r)'
    BY <1>1, <1>2, <1>4, <2>1 DEF HandlerFits, FirstFits, At
  <2>3. req[r].kind \in Restarts => RestartFits(r)'
    BY <1>1, <1>2, <1>3, <1>4, <2>1 DEF HandlerFits, RestartFits, At, Alive
  <2>4. HandlerFits(r)'
    BY <1>1, <1>2, <1>4, <2>1, <2>2, <2>3 DEF HandlerFits, Written, At
  <2>5. QED
    BY <1>1, <1>4, <2>1, <2>4, HopFits
<1>5. CASE Acquire(r)
  <2>1. Hop(r, "slot") /\ req[r].pc \in {"acquire", "exitWait"}
    BY <1>5, Hops DEF Acquire, At
  <2>2. InRestart(r) <=> InRestart(r)'
    BY <1>2, <2>1 DEF InRestart, IsRestart, Hop, Moves, KindsFit, At, First,
       Restarts
  <2>3. req[r].kind \in Restarts => ~Alive(req[r].seen.child)
    BY <1>5 DEF Acquire, KindsFit, At, First, Restarts
  <2>4. UNCHANGED <<world, live, session, dirs, listing, child>>
    BY <1>5 DEF Acquire, childVars, diskVars
  <2>5. QED
    BY <1>4, <2>1, <2>2, <2>3, <2>4 DEF PC, Spawned, At
<1>6. CASE SlotGranted(r)
  <2>1. IsRestart(r) /\ req[r].kind \in Restarts /\ live[s] # None /\ At(r, "slot")
    BY <1>1, <1>2, <1>6 DEF SlotGranted, HandlerFits, RestartFits, IsRestart,
       First, Restarts
  <2>2. Hop(r, "prep")
    BY <1>6, <2>1, MoveFacts DEF SlotGranted, Hop, TypeOK, PC
  <2>3. InRestart(r) <=> InRestart(r)'
    BY <2>1, <2>2 DEF InRestart, IsRestart, Hop, Moves, At
  <2>4. ~Alive(req[r].seen.child) /\ req[r].kind # "first" /\ req[r].kind \notin First
    BY <1>1, <1>2, <2>1 DEF HandlerFits, RestartFits, At, Restarts, First
  <2>5. UNCHANGED <<world, live, session, dirs, listing, child>>
    BY <1>6 DEF SlotGranted, childVars, diskVars
  <2>6. QED
    BY <1>4, <2>1, <2>2, <2>3, <2>4, <2>5 DEF PC, Spawned, At
<1>7. CASE CreateJob(r)
  <2>1. Hop(r, "spawn") /\ At(r, "prep")
    BY <1>7, Hops DEF CreateJob
  <2>2. InRestart(r) <=> InRestart(r)'
    BY <2>1 DEF InRestart, IsRestart, Hop, Moves, At
  <2>3. req[r].kind \in Restarts => ~Alive(req[r].seen.child)
    BY <1>1, <1>2, <2>1 DEF HandlerFits, RestartFits, At
  <2>4. UNCHANGED <<world, live, session, dirs, listing, child>>
    BY <1>7 DEF CreateJob, diskVars
  <2>5. QED
    BY <1>4, <2>1, <2>2, <2>3, <2>4 DEF PC, Spawned, At
<1>8. CASE Commit(r)
  <2> DEFINE p == IF session[s] = "open" THEN "committed" ELSE "tooLate"
  <2>1. Hop(r, p) /\ At(r, "commit") /\ p \in PC \ {"done", "idle"}
    BY <1>8, Hops DEF Commit, PC
  <2>2. req[r].kind \in Restarts => p = "committed" /\ ~Alive(req[r].seen.child)
    BY <1>1, <1>2, <2>1 DEF HandlerFits, RestartFits, SessionFits, EntryFits,
       At, Spawned
  <2>3. InRestart(r) <=> InRestart(r)'
    BY <2>1 DEF InRestart, IsRestart, Hop, Moves, At
  <2>4. UNCHANGED <<world, live, session, dirs, listing, child>>
    BY <1>8 DEF Commit, childVars, diskVars
  <2>5. child[r] # "killed"
    BY <1>1, <1>2, <2>1 DEF HandlerFits, At, Spawned
  <2>6. p \in {"committed", "tooLate"} /\ (p = "committed" => session[s] = "open")
    OBVIOUS
  <2> HIDE DEF p
  <2>7. QED
    BY <1>4, <2>1, <2>2, <2>3, <2>4, <2>5, <2>6 DEF Spawned, At
<1>9. CASE CommitWon(r) /\ Hop(r, "write")
  <2>1. Hop(r, "write") /\ At(r, "committed")
    BY <1>9 DEF CommitWon, Won
  <2>2. req[r].kind \in Restarts /\ UNCHANGED live
    BY <1>2, <1>9, LiveMoves DEF IsRestart, Hop, Over, Moves, First, Restarts
  <2>3. InRestart(r) <=> InRestart(r)'
    BY <2>1 DEF InRestart, IsRestart, Hop, Moves, At
  <2>4. ~Alive(req[r].seen.child) /\ child[r] # "killed" /\ req[r].kind \notin First
    BY <1>1, <1>2, <2>1, <2>2 DEF HandlerFits, RestartFits, At, Spawned,
       Restarts, First
  <2>5. UNCHANGED <<world, live, session, dirs, listing, child>>
    BY <1>9, <2>2 DEF CommitWon, childVars, diskVars
  <2>6. QED
    BY <1>4, <2>1, <2>2, <2>3, <2>4, <2>5 DEF PC, Spawned, At, First
<1>10. QED
  BY <1>5, <1>6, <1>7, <1>8, <1>9

(* mkdir and cancelCurrentJob: the directory exists from here. *)
LEMMA CancelJobFits ==
  ASSUME TypeOK, KindsFit, LocalsFit, Allowed, Alone, NEW s \in Sessions, NEW r \in Requests,
         Sess(r) = s, SessionFits(s), CancelJob(r)
  PROVE  SessionFits(s)'
<1>1. Busy(r) /\ At(r, "cancel")
  BY DEF CancelJob, Busy, At
<1>2. HandlerFits(r) /\ req[r].kind \in Restarts /\ IsRestart(r) /\ req[r].seen.child \in Requests
  BY <1>1, SeenEntry DEF SessionFits, KindsFit
<1>3. Hop(r, "enter") /\ UNCHANGED <<world, live, session, listing, child>>
  BY Hops DEF CancelJob
<1>4. /\ Moves(r, "enter") /\ req'[r].seen = req[r].seen /\ req'[r].method = req[r].method
      /\ req'[r].pc = "enter" /\ req'[r].kind = req[r].kind /\ Sess(r)' = s /\ Sess(r) = s
  BY <1>3 DEF Hop, Moves, Sess
<1>5. /\ dirs[s] \subseteq dirs'[s]
      /\ req[r].kind = "switch" => req[r].seen.dir \in dirs'[s]
  BY DEF CancelJob, TypeOK
<1>6. req[r].seen.dir \in dirs'[s]
  BY <1>1, <1>2, <1>5 DEF HandlerFits, RestartFits, Restarts
<1>7. RestartFits(r)'
  BY <1>1, <1>2, <1>3, <1>4, <1>6
  DEF HandlerFits, RestartFits, InRestart, IsRestart, At, Spawned
<1>8. HandlerFits(r)'
  BY <1>1, <1>2, <1>3, <1>4, <1>7 DEF HandlerFits, Written, At, Spawned,
     Restarts, First
<1>9. EntryFits(s)'
  <2>1. \A q \in Requests : /\ Sess(q)' = Sess(q)
                            /\ InRestart(q) => InRestart(q)'
                            /\ At(q, "done") => At(q, "done")'
    BY <1>1, <1>4 DEF Moves, Sess, InRestart, IsRestart, At
  <2>2. live[s] # None => live[s].child \in Requests
    BY InTypes
  <2>3. QED
    BY <1>3, <1>5, <2>1, <2>2 DEF SessionFits, EntryFits, Served
<1>10. \A q \in Requests : Sess(q) = s => ChildOwned(q)'
  BY <1>3, <1>4, OwnedLater
<1>11. QED
  BY <1>1, <1>4, <1>8, <1>9, <1>10, TurnFits

(* restartTranscode's entry: nobody else restarts this session, so it      *)
(* marks the entry and kills its child.                                    *)
LEMMA EnterFits ==
  ASSUME TypeOK, KindsFit, LocalsFit, Allowed, Alone, NEW s \in Sessions, NEW r \in Requests,
         Sess(r) = s, SessionFits(s), Enter(r)
  PROVE  SessionFits(s)'
<1>1. Busy(r) /\ At(r, "enter")
  BY DEF Enter, Busy, At
<1>2. /\ HandlerFits(r) /\ req[r].kind \in Restarts /\ IsRestart(r)
      /\ req[r].seen.child \in Requests
  BY <1>1, SeenEntry DEF SessionFits, KindsFit, At, IsRestart, Restarts, First
<1>3. RestartFits(r) /\ ~InRestart(r)
  BY <1>1, <1>2 DEF HandlerFits, InRestart, At
<1>4. live[s] # None /\ ~live[s].restarting /\ live[s] \in Entry
  BY <1>3, InTypes DEF RestartFits
<1>5. Sets(s, Marked(live[s])) /\ Hop(r, "exitWait")
  BY <1>4, LiveMoves
<1>6. /\ Moves(r, "exitWait") /\ req'[r].seen = req[r].seen /\ req'[r].method = req[r].method
      /\ req'[r].pc = "exitWait" /\ req'[r].kind = req[r].kind /\ Sess(r)' = s /\ Sess(r) = s
  BY <1>5 DEF Hop, Moves, Sess
<1>7. /\ live'[s] # None /\ live'[s].restarting /\ live'[s].child = live[s].child
      /\ live'[s].dir = live[s].dir
  BY <1>4, <1>5, MarkedFields, EntryFields DEF Sets
<1>8. child' = Killed(req[r].seen.child) /\ UNCHANGED <<world, session, dirs, listing>>
  BY <1>4 DEF Enter, diskVars
<1>9. InRestart(r)'
  BY <1>2, <1>6 DEF InRestart, IsRestart
<1>10. RestartFits(r)'
  BY <1>1, <1>3, <1>6, <1>7, <1>8, <1>9 DEF RestartFits, At, Spawned
<1>11. HandlerFits(r)'
  BY <1>1, <1>2, <1>6, <1>10 DEF HandlerFits, Written, At, Spawned, Restarts,
     First
<1>12. EntryFits(s)'
  <2> DEFINE c == live[s].child
  <2>1. c \in Requests /\ c # r /\ req[c].pc = "done" /\ req[c].sess = s
    BY <1>1, <1>4, EntryFields DEF SessionFits, EntryFits, At, Sess
  <2>2. req'[c].pc = "done" /\ req'[c].sess = s
    BY <1>6, <2>1 DEF Moves
  <2>3. QED
    BY <1>4, <1>6, <1>7, <1>8, <1>9, <2>2 DEF SessionFits, EntryFits, Served,
       At, Sess
<1>13. \A q \in Requests : child'[q] = "running" => child[q] = "running"
  BY <1>2, <1>8, KilledFacts
<1>14. \A q \in Requests : Sess(q) = s => ChildOwned(q)'
  BY <1>4, <1>6, <1>7, <1>13, OwnedLater
<1>15. QED
  BY <1>1, <1>6, <1>11, <1>12, <1>14, TurnFits

(* A restart that gives up before it spawned puts the entry back as it     *)
(* was; the child it kills has exited.                                     *)
LEMMA RestoreFits ==
  ASSUME TypeOK, KindsFit, LocalsFit, Allowed, Alone, NEW s \in Sessions, NEW r \in Requests,
         Sess(r) = s, SessionFits(s), SlotTimeout(r) \/ FailBeforeSpawn(r),
         req[r].kind \in Restarts
  PROVE  SessionFits(s)'
<1>1. Busy(r) /\ req[r].pc \in {"slot", "prep", "spawn"} /\ Over(r)
  BY Hops DEF SlotTimeout, FailBeforeSpawn, Busy, At
<1>2. /\ HandlerFits(r) /\ req[r].seen \in Entry /\ req[r].seen.child \in Requests
      /\ req[r].seen # None /\ IsRestart(r)
  BY <1>1, SeenEntry, EntryFields DEF SessionFits
<1>3. RestartFits(r) /\ ~req[r].seen.restarting /\ ~Alive(req[r].seen.child)
  BY <1>1, <1>2 DEF HandlerFits, RestartFits
<1>4. Sets(s, req[r].seen)
  BY <1>2, <1>3, LiveMoves DEF RestartFits
<1>5. UNCHANGED <<world, dirs, listing, child>> /\ session'[s] = session[s]
  BY DEF SlotTimeout, FailBeforeSpawn, childVars, diskVars, Restarts
<1>6. live'[s] = req[r].seen /\ live[s] # None /\ req[r].seen.child = live[s].child
  BY <1>3, <1>4 DEF Sets, RestartFits
<1>7. req[r].seen.dir \in dirs[s]
  BY <1>1, <1>3 DEF RestartFits, At
<1>8. Moves(r, "done") /\ HandlerFits(r)'
  BY <1>1 DEF Over, Moves, HandlerFits, Busy
<1>9. EntryFits(s)'
  <2> DEFINE c == live[s].child
  <2>1. /\ c \in Requests /\ c # r /\ req[c].pc = "done" /\ req[c].sess = s
        /\ session[s] = "open"
    BY <1>1, <1>2, <1>6 DEF SessionFits, EntryFits, At, Sess
  <2>2. req'[c].pc = "done" /\ req'[c].sess = s
    BY <1>8, <2>1 DEF Moves
  <2>3. Served(s)'
    BY <1>3, <1>5, <1>6 DEF Served, Alive
  <2>4. QED
    BY <1>3, <1>5, <1>6, <1>7, <2>1, <2>2, <2>3 DEF EntryFits, At, Sess
<1>10. child[r] = "none"
  BY <1>1 DEF LocalsFit, Spawned
<1>11. \A q \in Requests : Sess(q) = s => ChildOwned(q)'
  BY <1>2, <1>5, <1>6, <1>8, <1>10, OwnedLater
<1>12. QED
  BY <1>1, <1>8, <1>9, <1>11, TurnFits

(* A first spawn makes its directory, and /quality its playlist. *)
LEMMA SetUpFits ==
  ASSUME TypeOK, KindsFit, LocalsFit, Allowed, Alone, NEW s \in Sessions, NEW r \in Requests,
         Sess(r) = s, SessionFits(s), SetUp(r)
  PROVE  SessionFits(s)'
<1>1. Busy(r) /\ At(r, "slot") /\ Hop(r, "prep")
  BY Hops DEF SetUp, Busy, At
<1>2. /\ HandlerFits(r) /\ req[r].kind \in First /\ req[r].kind \notin Restarts
      /\ req[r].seen.dir \in Dirs
  BY <1>1, SeenEntry, EntryFields DEF SessionFits, SetUp, First, Restarts
<1>3. live[s] = None /\ UNCHANGED <<world, live, session, child>>
  BY <1>1, <1>2 DEF HandlerFits, FirstFits, SetUp, childVars
<1>4. /\ Moves(r, "prep") /\ req'[r].seen = req[r].seen /\ req'[r].method = req[r].method
      /\ req'[r].pc = "prep" /\ req'[r].kind = req[r].kind /\ Sess(r)' = s /\ Sess(r) = s
  BY <1>1 DEF Hop, Moves, Sess
<1>5. req[r].seen.dir \in dirs'[s]
  BY DEF SetUp, TypeOK
<1>6. FirstFits(r)'
  BY <1>1, <1>2, <1>3, <1>4, <1>5 DEF HandlerFits, FirstFits, At
<1>7. req[r].kind = "first" /\ req[r].method = "TRANSCODE" => listing'[s][req[r].seen.dir] = r
  BY <1>1, <1>2 DEF HandlerFits, FirstFits, SetUp, TypeOK
<1>8. HandlerFits(r)'
  BY <1>1, <1>2, <1>4, <1>6, <1>7 DEF HandlerFits, Written, At, Spawned
<1>9. EntryFits(s)' /\ \A q \in Requests : Sess(q) = s => ChildOwned(q)'
  BY <1>3, <1>4, OwnedLater DEF EntryFits
<1>10. QED
  BY <1>1, <1>4, <1>8, <1>9, TurnFits

(* The new child runs, in the directory its handler set up. *)
LEMMA SpawnFits ==
  ASSUME TypeOK, KindsFit, LocalsFit, Allowed, Alone, NEW s \in Sessions, NEW r \in Requests,
         Sess(r) = s, SessionFits(s), Spawn(r)
  PROVE  SessionFits(s)'
<1>1. Busy(r) /\ At(r, "spawn") /\ child[r] = "none"
  BY DEF Spawn, Busy, At, LocalsFit, Spawned
<1>2. HandlerFits(r) /\ req[r].kind \in Restarts \cup First /\ req[r].seen.child \in Requests
  BY <1>1, SeenEntry DEF SessionFits
<1>3. UNCHANGED <<world, live, session, dirs, listing>>
  BY DEF Spawn, diskVars
<1>4. child'[r] = "running" /\ \A q \in Requests \ {r} : child'[q] = child[q]
  BY DEF Spawn, TypeOK
<1>5. /\ Moves(r, AfterSpawn(r)) /\ req'[r].method = req[r].method
      /\ AfterSpawn(r) \in {"commit", "write", "publish"}
      /\ req'[r].pc = AfterSpawn(r) /\ req'[r].kind = req[r].kind /\ Sess(r)' = s /\ Sess(r) = s
  BY SpawnHops DEF Moves, Sess
<1>6. /\ req'[r].seen.dir = req[r].seen.dir /\ req'[r].seen.child = req[r].seen.child
      /\ req'[r].seen.restarting = req[r].seen.restarting
      /\ req'[r].seen.method = req[r].seen.method
  <2>1. PICK h \in BOOLEAN : req'[r].seen = [req[r].seen EXCEPT !.hw = h]
    BY SpawnHops
  <2>2. req[r].seen \in Entry
    BY SpawnHops
  <2>3. QED
    BY <2>1, <2>2 DEF Entry
<1>7. req[r].kind \in Restarts \cup {"first"} => AfterSpawn(r) = "commit"
  BY DEF AfterSpawn
<1>8. req[r].kind = "start" /\ req[r].method = "TRANSCODE" => AfterSpawn(r) = "write"
  BY DEF AfterSpawn, Restarts
<1>9. ASSUME req[r].kind \in Restarts
      PROVE  RestartFits(r)' /\ req[r].seen.child # r
  <2>1. RestartFits(r) /\ IsRestart(r)
    BY <1>1, <1>2, <1>9 DEF HandlerFits, IsRestart
  <2>2. req[r].seen.child # r
    BY <1>1, <2>1 DEF RestartFits, SessionFits, EntryFits, At
  <2>3. InRestart(r) /\ InRestart(r)'
    BY <1>1, <1>5, <1>7, <1>9, <2>1 DEF InRestart, IsRestart, At
  <2>4. QED
    BY <1>1, <1>2, <1>3, <1>4, <1>5, <1>6, <1>7, <1>9, <2>1, <2>2, <2>3
    DEF RestartFits, At, Alive, Spawned
<1>10. req[r].kind \in First => FirstFits(r)'
  BY <1>1, <1>2, <1>3, <1>5, <1>6 DEF HandlerFits, FirstFits, At, Spawned
<1>11. HandlerFits(r)'
  BY <1>1, <1>2, <1>3, <1>4, <1>5, <1>6, <1>7, <1>8, <1>9, <1>10
  DEF HandlerFits, Written, At, First
<1>12. EntryFits(s)'
  <2>1. \A q \in Requests : /\ Sess(q)' = Sess(q)
                            /\ InRestart(q) => InRestart(q)'
                            /\ At(q, "done") => At(q, "done")'
    BY <1>1, <1>5, <1>7 DEF Moves, Sess, InRestart, IsRestart, At
  <2>2. live[s] # None => live[s].child \in Requests
    BY InTypes
  <2>3. live[s] # None => child'[live[s].child] = child[live[s].child]
    BY <1>1, <1>4, <2>2 DEF SessionFits, EntryFits, At
  <2>4. QED
    BY <1>3, <2>1, <2>2, <2>3 DEF SessionFits, EntryFits, Served
<1>13. \A q \in Requests : Sess(q) = s => ChildOwned(q)'
  BY <1>3, <1>4, <1>5, OwnedLater
<1>14. QED
  BY <1>1, <1>5, <1>11, <1>12, <1>13, TurnFits

(* A first spawn whose session ended meanwhile kills its child and removes *)
(* what it set up; a restart finds its session open.                       *)
LEMMA LostFits ==
  ASSUME TypeOK, KindsFit, LocalsFit, Allowed, Alone, NEW s \in Sessions, NEW r \in Requests,
         Sess(r) = s, SessionFits(s), CommitLost(r) \/ CancelNewJob(r)
  PROVE  SessionFits(s)'
<1>1. Busy(r) /\ req[r].pc \in {"committed", "tooLate", "lost"}
  BY DEF CommitLost, Lost, CancelNewJob, Busy, At
<1>2. HandlerFits(r) /\ req[r].kind \in Restarts \cup First
  BY <1>1, SeenEntry DEF SessionFits
<1>3. req[r].kind \in First /\ req[r].kind \notin Restarts
  BY <1>1, <1>2
  DEF HandlerFits, RestartFits, CommitLost, Lost, Won, CancelNewJob, At, First, Restarts
<1>4. FirstFits(r) /\ live[s] = None /\ UNCHANGED <<world, live, session>>
  BY <1>1, <1>2, <1>3 DEF HandlerFits, FirstFits, CommitLost, CancelNewJob,
     diskVars
<1>5. CASE CommitLost(r)
  <2>1. /\ Hop(r, "lost") /\ child' = Killed(r) /\ UNCHANGED <<dirs, listing>>
    BY <1>5, Hops DEF CommitLost, diskVars
  <2>2. /\ Moves(r, "lost") /\ req'[r].seen = req[r].seen /\ req'[r].method = req[r].method
        /\ req'[r].pc = "lost" /\ req'[r].kind = req[r].kind /\ Sess(r)' = s /\ Sess(r) = s
    BY <2>1 DEF Hop, Moves, Sess
  <2>3. /\ child'[r] # "running"
        /\ \A q \in Requests \ {r} : child'[q] = "running" => child[q] = "running"
    BY <2>1, KilledFacts
  <2>4. FirstFits(r)'
    BY <1>1, <1>4, <2>1, <2>2 DEF FirstFits, At, Spawned
  <2>5. HandlerFits(r)'
    BY <1>1, <1>2, <1>3, <2>2, <2>3, <2>4 DEF HandlerFits, Written, At
  <2>6. EntryFits(s)' /\ \A q \in Requests : Sess(q) = s => ChildOwned(q)'
    BY <1>4, <2>2, <2>3, OwnedLater DEF EntryFits
  <2>7. QED
    BY <1>1, <2>2, <2>5, <2>6, TurnFits
<1>6. CASE CancelNewJob(r)
  BY <1>1, <1>2, <1>3, <1>4, <1>6, Hops, OverFits DEF CancelNewJob, HandlerFits
<1>7. QED
  BY <1>5, <1>6

(* The playlist of the new child replaces the old one's: nobody serves it  *)
(* before the entry is published.                                          *)
LEMMA WriteFits ==
  ASSUME TypeOK, KindsFit, LocalsFit, Allowed, Alone, NEW s \in Sessions, NEW r \in Requests,
         Sess(r) = s, SessionFits(s), WritePlaylist(r)
  PROVE  SessionFits(s)'
<1>1. Busy(r) /\ At(r, "write") /\ Hop(r, "publish")
  BY Hops DEF WritePlaylist, Busy, At
<1>2. /\ HandlerFits(r) /\ req[r].kind \in Restarts \cup First /\ req[r].seen.child \in Requests
      /\ req[r].seen.dir \in Dirs
  BY <1>1, SeenEntry, EntryFields DEF SessionFits
<1>3. UNCHANGED <<world, live, session, child, dirs>>
  BY DEF WritePlaylist, childVars
<1>4. /\ Moves(r, "publish") /\ req'[r].seen = req[r].seen /\ req'[r].method = req[r].method
      /\ req'[r].pc = "publish" /\ req'[r].kind = req[r].kind /\ Sess(r)' = s /\ Sess(r) = s
  BY <1>1 DEF Hop, Moves, Sess
<1>5. listing'[s][req[r].seen.dir] = r
  BY <1>2 DEF WritePlaylist, TypeOK
<1>6. req[r].kind \in First => FirstFits(r)'
  BY <1>1, <1>2, <1>3, <1>4 DEF HandlerFits, FirstFits, At, Spawned
<1>7. InRestart(r) <=> InRestart(r)'
  BY <1>1, <1>4 DEF InRestart, IsRestart, At
<1>8. req[r].kind \in Restarts => RestartFits(r)'
  BY <1>1, <1>2, <1>3, <1>4, <1>7 DEF HandlerFits, RestartFits, At, Alive,
     Spawned
<1>9. HandlerFits(r)'
  BY <1>1, <1>2, <1>3, <1>4, <1>5, <1>6, <1>8 DEF HandlerFits, At, Spawned
<1>10. live[s] # None => live[s].restarting
  BY <1>1, <1>2
  DEF HandlerFits, RestartFits, FirstFits, InRestart, IsRestart, At
<1>11. EntryFits(s)'
  <2>1. \A q \in Requests : /\ Sess(q)' = Sess(q)
                            /\ InRestart(q) => InRestart(q)'
                            /\ At(q, "done") => At(q, "done")'
    BY <1>1, <1>4, <1>7 DEF Moves, Sess, InRestart, IsRestart, At
  <2>2. live[s] # None => live[s].child \in Requests
    BY InTypes
  <2>3. QED
    BY <1>3, <1>10, <2>1, <2>2 DEF SessionFits, EntryFits, Served
<1>12. \A q \in Requests : Sess(q) = s => ChildOwned(q)'
  BY <1>3, <1>4, OwnedLater
<1>13. QED
  BY <1>1, <1>4, <1>9, <1>11, <1>12, TurnFits

(* The new entry is published with its own child; the old child is gone.   *)
LEMMA PublishFits ==
  ASSUME TypeOK, KindsFit, LocalsFit, Allowed, Alone, NEW s \in Sessions, NEW r \in Requests,
         Sess(r) = s, SessionFits(s), (CommitWon(r) /\ Over(r)) \/ Publish(r)
  PROVE  SessionFits(s)'
<1>1. Busy(r) /\ req[r].pc \in {"committed", "publish"} /\ Over(r)
  BY Hops DEF CommitWon, Won, Publish, Busy, At
<1>2. /\ HandlerFits(r) /\ req[r].kind \in Restarts \cup First
      /\ req[r].seen \in Entry /\ req[r].method \in Streams /\ req[r].seen.child \in Requests
  BY <1>1, SeenEntry DEF SessionFits
<1>3. UNCHANGED <<world, session, child, dirs, listing>> /\ Sets(s, OwnEntry(r))
  <2>1. CASE CommitWon(r)
    <3>1. ~Hop(r, "write")
      BY <1>1 DEF Hop, Over, Moves
    <3>2. Sets(s, OwnEntry(r))
      BY <2>1, <3>1, LiveMoves
    <3>3. QED
      BY <2>1, <3>2 DEF CommitWon, childVars, diskVars
  <2>2. CASE Publish(r)
    <3>1. req[r].kind # "fallback"
      BY <1>2 DEF Restarts, First
    <3>2. QED
      BY <2>2, <3>1, LiveMoves DEF Publish, diskVars
  <2>3. QED
    BY <2>1, <2>2
<1>4. /\ live'[s] # None /\ live'[s].child = r /\ live'[s].method = req[r].method
      /\ live'[s].dir = req[r].seen.dir /\ live'[s].restarting = req[r].seen.restarting
  BY <1>2, <1>3, OwnFields, EntryFields DEF Sets
<1>5. Moves(r, "done") /\ HandlerFits(r)' /\ req'[r].pc = "done" /\ req'[r].sess = s
  BY <1>1 DEF Over, Moves, HandlerFits, Busy, Sess
<1>6. ~req[r].seen.restarting /\ req[r].seen.dir \in dirs[s] /\ child[r] # "killed"
  BY <1>1, <1>2 DEF HandlerFits, RestartFits, FirstFits, At, Spawned
<1>7. session[s] = "open"
  <2>1. CASE req[r].kind \in Restarts
    BY <1>1, <1>2, <2>1 DEF HandlerFits, RestartFits, SessionFits, EntryFits
  <2>2. CASE req[r].kind \in First
    BY <1>1, <1>2, <2>2
    DEF HandlerFits, FirstFits, KindsFit, At, First, IsRestart, Restarts
  <2>3. QED
    BY <1>2, <2>1, <2>2
<1>8. world.exits = {} /\ req[r].method = "TRANSCODE" => listing[s][req[r].seen.dir] = r
  <2>1. req[r].method = "TRANSCODE" => Written(r)
    <3>1. CASE CommitWon(r)
      <4>1. req[r].method = "TRANSCODE" => ~IsRestart(r)
        BY <1>1, <3>1, LiveMoves DEF Hop, Over, Moves
      <4>2. QED
        BY <1>2, <3>1, <4>1 DEF CommitWon, Won, Written, IsRestart, KindsFit,
           At, First
    <3>2. CASE Publish(r)
      BY <3>2 DEF Publish, Written
    <3>3. QED
      BY <3>1, <3>2
  <2>2. QED
    BY <1>1, <1>2, <2>1 DEF HandlerFits
<1>9. EntryFits(s)'
  BY <1>3, <1>4, <1>5, <1>6, <1>7, <1>8 DEF EntryFits, Served, At, Sess
<1>10. ASSUME NEW q \in Requests, Sess(q) = s, child[q] = "running", At(q, "done")
       PROVE  FALSE
  <2>1. live[s] # None /\ live[s].child = q
    BY <1>10 DEF SessionFits, ChildOwned
  <2>2. req[r].kind \in Restarts
    BY <1>1, <1>2, <2>1 DEF HandlerFits, FirstFits
  <2>3. req[r].seen.child = q /\ ~Alive(q)
    BY <1>1, <1>2, <2>1, <2>2 DEF HandlerFits, RestartFits, Spawned
  <2>4. QED
    BY <1>10, <2>3 DEF Alive
<1>11. ASSUME NEW q \in Requests, Sess(q) = s PROVE ChildOwned(q)'
  <2>1. CASE q = r
    BY <1>4, <1>5, <2>1 DEF ChildOwned, Sess
  <2>2. CASE q # r
    <3>1. req'[q] = req[q]
      BY <1>5, <2>2 DEF Moves
    <3>2. QED
      BY <1>3, <1>10, <1>11, <3>1 DEF ChildOwned, At
  <2>3. QED
    BY <2>1, <2>2
<1>12. QED
  BY <1>1, <1>5, <1>9, <1>11, TurnFits

(* What a disciplined client's handlers never come to. *)
LEMMA Avoided ==
  ASSUME TypeOK, KindsFit, LocalsFit, Disciplined, Allowed, NEW s \in Sessions, NEW r \in Requests,
         Sess(r) = s, SessionFits(s)
  PROVE  /\ ~EndRow(r) /\ ~KillLive(r) /\ ~CancelKilled(r) /\ ~RemoveDir(r)
         /\ ~CommitFails(r) /\ ~WriteFails(r)
<1>1. ~EndRow(r) /\ ~KillLive(r) /\ ~CancelKilled(r) /\ ~RemoveDir(r)
  BY DEF EndRow, KillLive, CancelKilled, RemoveDir, At, KindsFit, Allowed,
     Ending,
         Restarts, First
<1>2. ~CommitFails(r)
  BY DEF CommitFails, Disciplined
<1>3. ASSUME WriteFails(r) PROVE FALSE
  <2>1. At(r, "write") /\ Busy(r) /\ req[r].seen.dir \notin dirs[s]
    BY <1>3 DEF WriteFails, Disciplined, Busy, At
  <2>2. HandlerFits(r) /\ req[r].kind \in Restarts \cup First
    BY <2>1, SeenEntry DEF SessionFits
  <2>3. QED
    BY <2>1, <2>2 DEF HandlerFits, RestartFits, FirstFits, At, Spawned
<1>4. QED
  BY <1>1, <1>2, <1>3

(* A handler's step touches its own session only. *)
LEMMA ContinueOnlyAt ==
  ASSUME TypeOK, KindsFit, LocalsFit, Disciplined, Allowed, NEW s \in Sessions, NEW r \in Requests,
         Sess(r) = s, SessionFits(s), Continue(r)
  PROVE  OnlyAt(s)
<1>1. Turn(r)
  BY Turns
<1>2. Busy(r) /\ \A q \in Requests : Sess(q)' = Sess(q) /\ (q # r => req'[q] = req[q])
  BY <1>1, TurnKeeps DEF Turn, Moves
<1>3. \A t \in Sessions \ {s} : live'[t] = live[t] /\ session'[t] = session[t]
  BY <1>1 DEF Turn, LiveTurn, RowTurn, Sets
<1>4. world' = world
  BY DEF Continue, EndRow, KillLive, CancelKilled, RemoveDir, CancelJob, Enter,
     Acquire, SlotTimeout, SlotGranted, SetUp, SetUpFails, CreateJob, FailBeforeSpawn,
     Spawn, Commit, CommitFails, CommitWon, CommitLost, CancelNewJob, WritePlaylist,
     WriteFails, Publish
<1>5. \A t \in Sessions \ {s} : dirs'[t] = dirs[t] /\ listing'[t] = listing[t]
  <2>1. CASE RemoveDir(r) \/ CancelJob(r) \/ SetUp(r) \/ CancelNewJob(r) \/ WritePlaylist(r)
    BY <2>1 DEF RemoveDir, CancelJob, SetUp, CancelNewJob, WritePlaylist,
       TypeOK, diskVars
  <2>2. CASE ~(RemoveDir(r) \/ CancelJob(r) \/ SetUp(r) \/ CancelNewJob(r) \/ WritePlaylist(r))
    BY <2>2 DEF Continue, EndRow, KillLive, CancelKilled, Enter,
       Acquire, SlotTimeout, SlotGranted, SetUpFails, CreateJob, FailBeforeSpawn,
       Spawn, Commit, CommitFails, CommitWon, CommitLost, WriteFails, Publish, diskVars
  <2>3. QED
    BY <2>1, <2>2
<1>6. ASSUME NEW q \in Requests, Sess(q) # s PROVE child'[q] = child[q]
  <2>1. q # r
    BY <1>6
  <2>2. CASE Enter(r)
    <3>1. RestartFits(r) /\ req[r].seen.child \in Requests
      BY <1>2, <2>2, SeenEntry
      DEF SessionFits, HandlerFits, Enter, KindsFit, At, IsRestart, Restarts, First
    <3>2. Sess(req[r].seen.child) = s
      BY <3>1 DEF RestartFits, SessionFits, EntryFits
    <3>3. QED
      BY <1>6, <2>2, <3>1, <3>2, KilledFacts DEF Enter
  <2>3. CASE Spawn(r)
    BY <2>1, <2>3 DEF Spawn, TypeOK
  <2>4. CASE CommitLost(r) \/ Publish(r)
    BY <2>1, <2>4, KilledFacts DEF CommitLost, Publish
  <2>5. CASE ~(Enter(r) \/ Spawn(r) \/ CommitLost(r) \/ Publish(r))
    BY <2>5, Avoided DEF Continue, CancelJob,
       Acquire, SlotTimeout, SlotGranted, SetUp, SetUpFails, CreateJob, FailBeforeSpawn,
       Commit, CommitWon, CancelNewJob, WritePlaylist, childVars
  <2>6. QED
    BY <2>2, <2>3, <2>4, <2>5
<1>7. QED
  BY <1>2, <1>3, <1>4, <1>5, <1>6 DEF OnlyAt

(* A handler's step keeps its session as it should be. *)
LEMMA ContinueFits ==
  ASSUME TypeOK, KindsFit, LocalsFit, Disciplined, Allowed, Alone,
         NEW s \in Sessions, NEW r \in Requests, Sess(r) = s, SessionFits(s), Continue(r)
  PROVE  SessionFits(s)'
<1>1. CASE Acquire(r) \/ SlotGranted(r) \/ CreateJob(r) \/ Commit(r)
  BY <1>1, StepsOn
<1>2. CASE CancelJob(r)
  BY <1>2, CancelJobFits
<1>3. CASE Enter(r)
  BY <1>3, EnterFits
<1>4. CASE SetUp(r)
  BY <1>4, SetUpFits
<1>5. CASE Spawn(r)
  BY <1>5, SpawnFits
<1>6. CASE CommitLost(r) \/ CancelNewJob(r)
  BY <1>6, LostFits
<1>7. CASE WritePlaylist(r)
  BY <1>7, WriteFits
<1>8. CASE CommitWon(r) \/ Publish(r)
  BY <1>8, Hops, StepsOn, PublishFits
<1>9. CASE SlotTimeout(r) \/ SetUpFails(r) \/ FailBeforeSpawn(r)
  <2>1. /\ Busy(r) /\ Over(r) /\ req[r].pc \in {"slot", "prep", "spawn"}
        /\ child[r] = "none"
    BY <1>9, Hops DEF SlotTimeout, SetUpFails, FailBeforeSpawn, Busy, At,
       LocalsFit, Spawned
  <2>2. CASE req[r].kind \in Restarts
    <3>1. ~SetUpFails(r)
      BY <2>2 DEF SetUpFails, IsRestart
    <3>2. QED
      BY <1>9, <2>2, <3>1, RestoreFits
  <2>3. CASE req[r].kind \in First
    <3>1. HandlerFits(r)
      BY DEF SessionFits
    <3>2. live[s] = None /\ UNCHANGED <<world, child>>
      BY <1>9, <2>1, <2>3, <3>1
      DEF HandlerFits, FirstFits, SlotTimeout, SetUpFails, FailBeforeSpawn, childVars
    <3>3. UNCHANGED live
      BY <1>9, <2>3, <3>2 DEF SlotTimeout, SetUpFails, FailBeforeSpawn, Restored
    <3>4. QED
      BY <2>1, <2>3, <3>2, <3>3, OverFits
  <2>4. QED
    BY <2>1, <2>2, <2>3, SeenEntry
<1>10. QED
  BY <1>1, <1>2, <1>3, <1>4, <1>5, <1>6, <1>7, <1>8, <1>9, Avoided DEF Continue

(* A handler begins on a session that has none. *)
LEMMA OpensFits ==
  ASSUME TypeOK, KindsFit, LocalsFit, Alone, NEW s \in Sessions, NEW r \in Requests,
         At(r, "idle"), SessionFits(s), NEW k, NEW p, NEW e, NEW m, Opens(r, s, k, p, e, m),
         \A q \in Requests : Sess(q) = s => ~Busy(q),
         UNCHANGED <<world, live, dirs, listing, child>>,
         \A t \in Sessions : session'[t] = session[t] \/ (t = s /\ live[s] = None),
         HandlerFits(r)'
  PROVE  SessionFits(s)' /\ OnlyAt(s) /\ Alone'
<1>1. /\ \A q \in Requests \ {r} : req'[q] = req[q] /\ Sess(q)' = Sess(q)
      /\ Sess(r) = None /\ Sess(r)' = s /\ child[r] = "none" /\ ~InRestart(r)
  BY DEF Opens, Sess, KindsFit, LocalsFit, At, Spawned, InRestart
<1>2. EntryFits(s)'
  <2>1. CASE live[s] = None
    BY <2>1 DEF EntryFits
  <2>2. CASE live[s] # None
    <3> DEFINE c == live[s].child
    <3>1. c \in Requests /\ c # r /\ req[c].pc = "done" /\ req[c].sess = s
      BY <2>2, InTypes DEF SessionFits, EntryFits, At, Sess
    <3>2. req'[c] = req[c]
      BY <1>1, <3>1
    <3>3. \A q \in Requests : InRestart(q) => InRestart(q)' /\ Sess(q)' = Sess(q)
      BY <1>1 DEF InRestart, IsRestart
    <3>4. session'[s] = session[s]
      BY <2>2
    <3>5. QED
      BY <3>1, <3>2, <3>3, <3>4 DEF SessionFits, EntryFits, Served, At, Sess
  <2>3. QED
    BY <2>1, <2>2
<1>3. ASSUME NEW q \in Requests, Sess(q)' = s PROVE HandlerFits(q)' /\ ChildOwned(q)'
  <2>1. CASE q = r
    BY <1>1, <2>1 DEF ChildOwned
  <2>2. CASE q # r
    <3>1. req'[q] = req[q] /\ Sess(q) = s /\ ~Busy(q)
      BY <1>1, <1>3, <2>2
    <3>2. QED
      BY <3>1 DEF SessionFits, HandlerFits, ChildOwned, Busy, At, Sess
  <2>3. QED
    BY <2>1, <2>2
<1>4. OnlyAt(s)
  BY <1>1 DEF OnlyAt
<1>5. Alone'
  <2>1. \A q \in Requests \ {r} : Busy(q)' => Busy(q) /\ Sess(q)' = Sess(q) /\ Sess(q) # s
    BY <1>1 DEF Busy
  <2>2. QED
    BY <1>1, <2>1 DEF Alone
<1>6. QED
  BY <1>2, <1>3, <1>4, <1>5 DEF SessionFits

(* A call a disciplined client makes finds no other handler on its         *)
(* session.                                                                *)
LEMMA FreeToBegin ==
  ASSUME TypeOK, KindsFit, LocalsFit, SessionFacts, Disciplined, Allowed,
         NEW s \in Sessions, NEW r \in Requests, NEW k, MayBegin(r, s, k), SessionFits(s),
         \/ k = "start" /\ session[s] = "none"
         \/ k = "first" /\ s \notin reserved /\ live[s] = None
         \/ k \in Restarts /\ live[s] # None
  PROVE  \A q \in Requests : Sess(q) = s => ~Busy(q)
<1> SUFFICES ASSUME NEW q \in Requests, Sess(q) = s, Busy(q) PROVE FALSE
  OBVIOUS
<1>1. HandlerFits(q) /\ req[q].kind \in Restarts \cup First /\ ~At(q, "idle") /\ ~At(q, "done")
  BY SeenEntry DEF SessionFits, Busy, At
<1>2. req[q].kind # "start"
  BY <1>1 DEF MayBegin, Starting
<1>3. session[s] # "none"
  BY <1>1 DEF SessionFacts
<1>4. CASE req[q].kind = "first"
  <2>1. s \in reserved /\ live[s] = None
    BY <1>1, <1>4 DEF SessionFacts, HandlerFits, FirstFits, First, Busy, At
  <2>2. QED
    BY <1>3, <2>1
<1>5. CASE req[q].kind \in Restarts
  <2>1. live[s] # None
    BY <1>1, <1>5 DEF HandlerFits, RestartFits
  <2>2. k \in Restarts
    BY <1>3, <2>1
  <2>3. Outstanding(s)
    BY <1>1, <1>5 DEF Outstanding
  <2>4. QED
    BY <2>2, <2>3 DEF MayBegin, Disciplined
<1>6. QED
  BY <1>1, <1>2, <1>4, <1>5 DEF First

(* Every call of a disciplined client begins as it should. *)
LEMMA CallFits ==
  ASSUME TypeOK, KindsFit, LocalsFit, SessionFacts, Disciplined, Allowed, Alone,
         NEW s \in Sessions, NEW r \in Requests, SessionFits(s),
         \/ Start(r, s) \/ FirstSpawn(r, s) \/ Seek(r, s) \/ Switch(r, s)
         \/ Reset(r, s) \/ Stop(r, s)
  PROVE  SessionFits(s)' /\ OnlyAt(s) /\ Alone'
<1>0. At(r, "idle") /\ child[r] = "none"
  BY DEF Start, FirstSpawn, Seek, Switch, Reset, Stop, MayBegin, LocalsFit,
     At, Spawned
<1>1. CASE Start(r, s)
  <2>1. live[s] = None /\ session'[s] = "open"
    BY <1>1 DEF Start, SessionFacts, TypeOK
  <2>2. \A t \in Sessions : session'[t] = session[t] \/ (t = s /\ live[s] = None)
    BY <1>1, <2>1 DEF Start, TypeOK
  <2>3. UNCHANGED <<world, live, dirs, listing, child>>
    BY <1>1 DEF Start, childVars, diskVars
  <2>4. \A q \in Requests : Sess(q) = s => ~Busy(q)
    BY <1>1, FreeToBegin DEF Start
  <2>5. CASE Begin(r, s, "start", "done", None, "DIRECT_PLAY")
    <3>1. Opens(r, s, "start", "done", None, "DIRECT_PLAY")
      BY <2>5, BeginFacts
    <3>2. HandlerFits(r)'
      BY <3>1 DEF Opens, HandlerFits, Busy
    <3>3. QED
      BY <1>0, <2>2, <2>3, <2>4, <3>1, <3>2, OpensFits
  <2>6. ASSUME NEW m \in world.methods \ {"DIRECT_PLAY"}, NEW h \in HwOf(m),
               Begin(r, s, "start", "acquire", NewEntry(r, "main", m, h), m)
        PROVE  SessionFits(s)' /\ OnlyAt(s) /\ Alone'
    <3> DEFINE e == NewEntry(r, "main", m, h)
    <3>1. ~e.restarting /\ e.method = m
      BY DEF NewEntry
    <3>2. Opens(r, s, "start", "acquire", e, m)
      BY <2>6, BeginFacts
    <3> HIDE DEF e
    <3>3. HandlerFits(r)'
      BY <2>1, <2>3, <3>1, <3>2
      DEF Opens, HandlerFits, FirstFits, Written, Busy, At, Sess, Spawned, First, Restarts
    <3>4. QED
      BY <1>0, <2>2, <2>3, <2>4, <3>2, <3>3, OpensFits
  <2>7. QED
    BY <1>1, <2>5, <2>6 DEF Start
<1>2. CASE FirstSpawn(r, s)
  <2>1. UNCHANGED <<world, live, session, dirs, listing, child>> /\ live[s] = None
    BY <1>2 DEF FirstSpawn, childVars, diskVars
  <2>2. \A q \in Requests : Sess(q) = s => ~Busy(q)
    BY <1>2, FreeToBegin DEF FirstSpawn
  <2>3. PICK m \in world.methods \ {"DIRECT_PLAY"} : \E h \in HwOf(m) :
          Begin(r, s, "first", "acquire", NewEntry(r, "alt", m, h), m)
    BY <1>2 DEF FirstSpawn
  <2>a. PICK h \in HwOf(m) : Begin(r, s, "first", "acquire", NewEntry(r, "alt", m, h), m)
    BY <2>3
  <2> DEFINE e == NewEntry(r, "alt", m, h)
  <2>4. ~e.restarting /\ e.method = m
    BY DEF NewEntry
  <2>5. Opens(r, s, "first", "acquire", e, m)
    BY <2>a, BeginFacts
  <2> HIDE DEF e
  <2>6. HandlerFits(r)'
    BY <2>1, <2>4, <2>5
    DEF Opens, HandlerFits, FirstFits, Written, Busy, At, Sess, Spawned, First, Restarts
  <2>7. QED
    BY <1>0, <2>1, <2>2, <2>5, <2>6, OpensFits
<1>3. CASE Seek(r, s) \/ Switch(r, s)
  <2>1. /\ UNCHANGED <<world, live, session, dirs, listing, child>>
        /\ live[s] # None /\ live[s] \in Entry
    BY <1>3, InTypes DEF Seek, Switch, childVars, diskVars
  <2>2. \A q \in Requests : Sess(q) = s => ~Busy(q)
    BY <1>3, FreeToBegin DEF Seek, Switch, Restarts
  <2>3. ~live[s].restarting
    BY <2>1, <2>2 DEF SessionFits, EntryFits, InRestart, Busy
  <2>4. PICK k \in Restarts, e \in Entry, m \in {"REMUX", "TRANSCODE"} :
          /\ Begin(r, s, k, "cancel", e, m)
          /\ e.child = live[s].child /\ ~e.restarting
          /\ k = "seek" => e.dir = live[s].dir
    <3>1. CASE Seek(r, s)
      BY <2>1, <2>3, <3>1, EntryFields DEF Seek, Restarts, Streams
    <3>2. CASE Switch(r, s)
      <4>1. PICK d \in Dirs, m \in world.methods \ {"DIRECT_PLAY"} :
              Begin(r, s, "switch", "cancel", [live[s] EXCEPT !.dir = d], m)
        BY <3>2 DEF Switch
      <4>2. LET e == [live[s] EXCEPT !.dir = d]
            IN  e \in Entry /\ e.child = live[s].child /\ ~e.restarting
        BY <2>1, <2>3 DEF Entry
      <4>3. m \in {"REMUX", "TRANSCODE"}
        BY FieldTypes DEF TypeOK
      <4>4. QED
        BY <4>1, <4>2, <4>3 DEF Restarts
    <3>3. QED
      BY <1>3, <3>1, <3>2
  <2>5. Opens(r, s, k, "cancel", e, m)
    BY <2>4, BeginFacts
  <2>6. HandlerFits(r)'
    <3>1. /\ req'[r].pc = "cancel" /\ req'[r].kind = k /\ Sess(r)' = s /\ req'[r].seen = e
          /\ ~InRestart(r)'
      BY <2>5 DEF Opens, Sess, InRestart
    <3>2. RestartFits(r)'
      BY <2>1, <2>3, <2>4, <3>1 DEF RestartFits, At, Spawned, SessionFits,
         EntryFits
    <3>3. QED
      BY <2>4, <3>1, <3>2 DEF HandlerFits, Written, At, Spawned, First, Restarts
  <2>7. QED
    BY <1>0, <2>1, <2>2, <2>5, <2>6, OpensFits
<1>4. ~Reset(r, s) /\ ~Stop(r, s)
  BY DEF Reset, Stop, MayBegin, Disciplined, Restarts
<1>5. QED
  BY <1>1, <1>2, <1>3, <1>4

(* A step that changes nothing a session's handlers and entry depend on. *)
LEMMA SameFits ==
  ASSUME NEW s \in Sessions, SessionFits(s), UNCHANGED <<world, live, session, dirs, req, child>>,
         world.exits = {} => UNCHANGED listing
  PROVE  SessionFits(s)'
<1>1. EntryFits(s)'
  BY DEF SessionFits, EntryFits, Served, At, Sess, InRestart, IsRestart
<1>2. ASSUME NEW q \in Requests, Sess(q) = s PROVE HandlerFits(q)' /\ ChildOwned(q)'
  BY <1>2 DEF SessionFits, HandlerFits, ChildOwned, RestartFits, FirstFits,
     Written, Busy, At,
     Sess, Alive, InRestart, IsRestart
<1>3. QED
  BY <1>1, <1>2 DEF SessionFits, Sess

(* A child ends: an entry it still serves settles as it was. *)
LEMMA ExitFits ==
  ASSUME TypeOK, KindsFit, LocalsFit, NEW c \in Requests, Exit(c),
         NEW s \in Sessions, SessionFits(s)
  PROVE  SessionFits(s)'
<1>1. UNCHANGED <<world, live, session, dirs, listing, req>>
  BY DEF Exit, diskVars
<1>2. \A q \in Requests : \/ child'[q] = child[q]
                          \/ q = c /\ child'[q] \in {"exitedOk", "exitedBad"}
  BY FieldTypes DEF Exit, TypeOK
<1>3. live[s] # None => live[s].child \in Requests
  BY InTypes
<1>4. EntryFits(s)'
  BY <1>1, <1>2, <1>3 DEF SessionFits, EntryFits, Served, At, Sess, InRestart,
     IsRestart
<1>5. ASSUME NEW q \in Requests, Sess(q) = s PROVE HandlerFits(q)' /\ ChildOwned(q)'
  <2>1. HandlerFits(q) /\ ChildOwned(q)
    BY <1>5 DEF SessionFits
  <2>2. ChildOwned(q)'
    BY <1>1, <1>2, <2>1 DEF ChildOwned, At, Sess
  <2>3. FirstFits(q) => FirstFits(q)'
    BY <1>1 DEF FirstFits, At, Sess
  <2>4. RestartFits(q) => RestartFits(q)'
    <3>1. RestartFits(q) => req[q].seen.child \in Requests
      BY <1>3, <1>5 DEF RestartFits
    <3>2. QED
      BY <1>1, <1>2, <3>1 DEF RestartFits, At, Sess, Alive, InRestart, IsRestart
  <2>5. QED
    BY <1>1, <1>2, <2>1, <2>2, <2>3, <2>4 DEF HandlerFits, Written, Busy, At,
       Sess
<1>6. QED
  BY <1>1, <1>4, <1>5 DEF SessionFits, Sess

(* A killed child is no settled entry's, so its callback truncates nothing. *)
LEMMA ExitReads ==
  ASSUME TypeOK, KindsFit, LocalsFit, NoneReads, \A s \in Sessions : SessionFits(s),
         NEW c \in Requests, Exit(c)
  PROVE  NoneReads'
<1> SUFFICES ASSUME world.exits = {}, NEW q \in Requests PROVE strand'[q] # "reading"
  BY DEF NoneReads, Exit
<1>1. child[c] = "killed" /\ strand[q] # "reading"
  BY DEF Exit, NoneReads
<1>2. Sess(c) \in Sessions
  BY <1>1 DEF KindsFit, LocalsFit, At, Spawned
<1>3. ~(live[Sess(c)] # None /\ ~live[Sess(c)].restarting /\ live[Sess(c)].child = c)
  BY <1>1, <1>2 DEF SessionFits, EntryFits, Served
<1>4. strand' = [strand EXCEPT ![c] = "retry"] \/ strand' = [strand EXCEPT ![c] = "none"]
  BY <1>3 DEF Exit
<1>5. QED
  BY <1>1, <1>4 DEF TypeOK

(* Every step of a disciplined client's handlers and their children keeps  *)
(* all of it.                                                              *)
LEMMA DisciplinedStep ==
  IInv /\ DisciplinedFacts /\ [Next]_vars => DisciplinedFacts'
<1> SUFFICES ASSUME IInv, DisciplinedFacts, [Next]_vars, Disciplined'
             PROVE  (Allowed /\ Alone /\ NoneReads /\ \A s \in Sessions : SessionFits(s))'
  BY DEF DisciplinedFacts
<1>0. UNCHANGED world
  <2>1. ASSUME NEW r \in Requests, Call(r) PROVE UNCHANGED world
    BY <2>1 DEF Call, Start, FirstSpawn, Seek, Switch, Reset, Stop
  <2>2. ASSUME NEW r \in Requests, Continue(r) PROVE UNCHANGED world
    BY <2>2 DEF Continue, EndRow, KillLive, CancelKilled, RemoveDir,
       CancelJob, Enter,
       Acquire, SlotTimeout, SlotGranted, SetUp, SetUpFails, CreateJob, FailBeforeSpawn,
       Spawn, Commit, CommitFails, CommitWon, CommitLost, CancelNewJob, WritePlaylist,
       WriteFails, Publish
  <2>3. ASSUME NEW c \in Requests, Exit(c) \/ AfterExit(c) PROVE UNCHANGED world
    BY <2>3 DEF Exit, AfterExit, SetTerminal, Truncate, NoFallback, Fallback
  <2>4. CASE SweepJobs \/ UNCHANGED vars
    BY <2>4 DEF SweepJobs, vars
  <2>5. QED
    BY <2>1, <2>2, <2>3, <2>4 DEF Next
<1>1. /\ TypeOK /\ KindsFit /\ LocalsFit /\ SessionFacts
      /\ Disciplined /\ Allowed /\ Alone /\ NoneReads /\ \A s \in Sessions : SessionFits(s)
  BY <1>0 DEF IInv, DisciplinedFacts, Disciplined
<1>2. ASSUME NEW r \in Requests, Call(r)
      PROVE  (Allowed /\ Alone /\ NoneReads /\ \A s \in Sessions : SessionFits(s))'
  <2>1. PICK s \in Sessions : \/ Start(r, s) \/ FirstSpawn(r, s) \/ Seek(r, s)
                              \/ Switch(r, s) \/ Reset(r, s) \/ Stop(r, s)
    BY <1>2 DEF Call
  <2>2. SessionFits(s)' /\ OnlyAt(s) /\ Alone'
    BY <1>1, <2>1, CallFits
  <2>3. \E k : Begins(r, s, k) /\ k \in world.kinds
    BY <1>1, <2>1, Beginnings DEF Start, FirstSpawn, Seek, Switch, Reset,
       Stop, MayBegin
  <2>4. Allowed'
    BY <1>1, <2>3 DEF Begins, Allowed, Disciplined, At, First, Restarts
  <2>5. NoneReads'
    BY <1>0, <1>1, <2>1
    DEF Start, FirstSpawn, Seek, Switch, Reset, Stop, childVars, NoneReads
  <2>6. QED
    BY <1>1, <2>2, <2>4, <2>5, Elsewhere
<1>3. ASSUME NEW r \in Requests, Continue(r)
      PROVE  (Allowed /\ Alone /\ NoneReads /\ \A s \in Sessions : SessionFits(s))'
  <2>1. Turn(r)
    BY <1>1, <1>3, Turns
  <2>2. Sess(r) \in Sessions
    BY <1>1, <2>1, InTypes DEF Turn, Busy, At
  <2>3. PICK s \in Sessions : Sess(r) = s
    BY <2>2
  <2>4. SessionFits(s)' /\ OnlyAt(s)
    BY <1>1, <1>3, <2>3, ContinueOnlyAt, ContinueFits
  <2>5. Allowed' /\ Alone'
    BY <1>1, <2>1, TurnKeeps DEF Allowed, Alone
  <2>6. strand' = strand
    BY <1>3 DEF Continue, EndRow,
     KillLive, CancelKilled, RemoveDir, CancelJob, Enter, Acquire, SlotTimeout, SlotGranted,
     SetUp, SetUpFails, CreateJob, FailBeforeSpawn, Spawn, Commit, CommitFails, CommitWon,
     CommitLost, CancelNewJob, WritePlaylist, WriteFails, Publish, childVars
  <2>7. QED
    BY <1>0, <1>1, <2>4, <2>5, <2>6, Elsewhere DEF NoneReads
<1>4. ASSUME NEW c \in Requests, Exit(c)
      PROVE  (Allowed /\ Alone /\ NoneReads /\ \A s \in Sessions : SessionFits(s))'
  <2>1. UNCHANGED req
    BY <1>4 DEF Exit
  <2>2. QED
    BY <1>1, <1>4, <2>1, ExitFits, ExitReads DEF Allowed, Alone, At, Busy, Sess
<1>5. ASSUME NEW c \in Requests, AfterExit(c)
      PROVE  (Allowed /\ Alone /\ NoneReads /\ \A s \in Sessions : SessionFits(s))'
  <2>1. ASSUME NEW r \in Requests PROVE ~Fallback(r, c)
    BY <1>1 DEF Fallback, MayBegin, Disciplined, Restarts
  <2>2. /\ UNCHANGED <<world, live, session, dirs, req, child>>
        /\ world.exits = {} => UNCHANGED listing
    BY <1>1, <1>5, <2>1
    DEF AfterExit, SetTerminal, Truncate, NoFallback, NoneReads, diskVars
  <2>3. \A q \in Requests : strand'[q] = "reading" => strand[q] = "reading"
    BY <1>1, <1>5, <2>1 DEF AfterExit, SetTerminal, Truncate, NoFallback, TypeOK
  <2>4. QED
    BY <1>1, <2>2, <2>3, SameFits DEF Allowed, Alone, NoneReads, At, Busy, Sess
<1>6. CASE SweepJobs \/ UNCHANGED vars
  <2>1. UNCHANGED <<world, live, session, dirs, listing, req, child, strand>>
    BY <1>6 DEF SweepJobs, vars, childVars, diskVars
  <2>2. QED
    BY <1>1, <2>1, SameFits DEF Allowed, Alone, NoneReads, At, Busy, Sess
<1>7. QED
  BY <1>2, <1>3, <1>4, <1>5, <1>6 DEF Next

(* Every entry, mark and child has its owner. *)
LEMMA Owned ==
  ASSUME IInv, DisciplinedFacts
  PROVE  EntriesAreOwned
<1> SUFFICES ASSUME Disciplined
             PROVE  /\ RestartMarkHasOwner /\ NoOrphanChild
                    /\ world.exits = {} => EntryIsServable
  BY DEF EntriesAreOwned
<1>1. /\ TypeOK /\ KindsFit /\ LocalsFit /\ \A s \in Sessions : SessionFits(s)
  BY DEF IInv, DisciplinedFacts
<1>2. RestartMarkHasOwner
  BY <1>1 DEF RestartMarkHasOwner, SessionFits, EntryFits
<1>3. NoOrphanChild
  <2> SUFFICES ASSUME NEW c \in Requests, child[c] = "running", At(c, "done")
               PROVE  live[Sess(c)] # None /\ live[Sess(c)].child = c
    BY DEF NoOrphanChild
  <2>1. Sess(c) \in Sessions
    BY <1>1 DEF KindsFit, At
  <2>2. QED
    BY <1>1, <2>1 DEF SessionFits, ChildOwned
<1>4. world.exits = {} => EntryIsServable
  BY <1>1 DEF EntryIsServable, SessionFits, EntryFits, Served
<1>5. QED
  BY <1>2, <1>3, <1>4

(* For a client that restarts one at a time and never stops or resets, a   *)
(* set-up or a restart that fails half-way leaves no mark without its      *)
(* restart and no child without its entry; and if its children end only    *)
(* when killed, the playlist of an entry whose child runs lists that       *)
(* child's segments.                                                       *)
THEOREM EntrySafety == Spec => []EntriesAreOwned
<1>1. Init => DisciplinedFacts
  <2> SUFFICES ASSUME Init
               PROVE  Allowed /\ Alone /\ NoneReads /\ \A s \in Sessions : SessionFits(s)
    BY DEF DisciplinedFacts
  <2>1. Allowed /\ Alone /\ NoneReads
    BY DEF Init, Allowed, Alone, NoneReads, At, Busy
  <2>2. ASSUME NEW s \in Sessions PROVE SessionFits(s)
    BY DEF Init, SessionFits, EntryFits, HandlerFits, ChildOwned, Busy
  <2>3. QED
    BY <2>1, <2>2
<1>2. IInv /\ DisciplinedFacts /\ [Next]_vars => DisciplinedFacts'
  BY DisciplinedStep
<1>3. IInv /\ DisciplinedFacts => EntriesAreOwned
  BY Owned
<1>4. QED
  BY <1>1, <1>2, <1>3, Inductive, PTL DEF Spec
===============================================================================
