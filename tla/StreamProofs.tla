---------------------------- MODULE StreamProofs ----------------------------
(***************************************************************************)
(* Machine-checked facts about what streams wait on.                       *)
(*                                                                         *)
(* The transcode slots, for any finite set of clients and any cap.  The    *)
(* inductive invariant is the conjunction of the invariants the model      *)
(* checker runs: the queue facts are needed for the counter (a handoff     *)
(* keeps the count only if the head of the queue was not already holding), *)
(* and WaitOnlyAtCap is what makes a newcomer unable to barge.             *)
(*                                                                         *)
(* The worker's ffmpeg gate, the segment route and the remux route, for    *)
(* any finite set of passes, any caps, any number of segments, fragments,  *)
(* files and requests, in the behaviours of SuiteStream.                   *)
(***************************************************************************)
EXTENDS SuiteStream, FiniteSetTheorems, TLAPS

IInv ==
  /\ TypeOK
  /\ QueueMatchesWaiting
  /\ CounterIsExact
  /\ CapRespected
  /\ WaitOnlyAtCap

(* Slot holders form a finite set, so that counting them makes sense. *)
LEMMA HoldersFinite ==
  /\ IsFiniteSet(Holders)
  /\ Cardinality(Holders) \in Nat
BY SlotAssumption, FS_Subset, FS_CardinalityType DEF Holders

(* The same of the next state. *)
LEMMA HoldersFiniteNext ==
  /\ IsFiniteSet(Holders')
  /\ Cardinality(Holders') \in Nat
BY SlotAssumption, FS_Subset, FS_CardinalityType DEF Holders

(* What array.splice(i, 1) returns: a shorter sequence over the same set.  *)
LEMMA WithoutType ==
  ASSUME NEW S, NEW seq \in Seq(S), NEW i \in DOMAIN seq
  PROVE  /\ Without(seq, i) \in Seq(S)
         /\ DOMAIN Without(seq, i) = 1..(Len(seq) - 1)
<1> DEFINE n == Len(seq) - 1
<1>1. /\ DOMAIN seq = 1..Len(seq)
      /\ Len(seq) \in Nat
      /\ n \in Nat
  OBVIOUS
<1>2. Without(seq, i) \in [1..n -> S]
  BY <1>1 DEF Without
<1>3. DOMAIN Without(seq, i) = 1..n
  BY DEF Without
<1>4. Without(seq, i) \in Seq(S)
  BY <1>1, <1>2
<1>5. QED
  BY <1>3, <1>4

(* What each action does to the set of holders. *)
LEMMA HoldersStep ==
  ASSUME TypeOK, QueueMatchesWaiting, NEW c \in Clients
  PROVE  /\ AcquireNow(c) => c \notin Holders /\ Holders' = Holders \cup {c}
         /\ AcquireWait(c) => Holders' = Holders
         /\ Timeout(c) => Holders' = Holders
         /\ Free(c) => c \in Holders /\ Holders' = Holders \ {c}
         /\ Handoff(c) => /\ Head(waiters) \in Clients
                          /\ c \in Holders
                          /\ Head(waiters) \notin Holders
                          /\ Holders' = (Holders \ {c}) \cup {Head(waiters)}
<1> USE DEF TypeOK, Holders, ClientState
<1>1. AcquireNow(c) => c \notin Holders /\ Holders' = Holders \cup {c}
  BY DEF AcquireNow
<1>2. AcquireWait(c) => Holders' = Holders
  BY DEF AcquireWait
<1>3. Timeout(c) => Holders' = Holders
  BY DEF Timeout, QueueMatchesWaiting
<1>4. Free(c) => c \in Holders /\ Holders' = Holders \ {c}
  BY DEF Free
<1>5. ASSUME Handoff(c)
      PROVE  /\ Head(waiters) \in Clients
             /\ c \in Holders
             /\ Head(waiters) \notin Holders
             /\ Holders' = (Holders \ {c}) \cup {Head(waiters)}
  <2>1. /\ 1 \in DOMAIN waiters
        /\ Head(waiters) = waiters[1]
        /\ Head(waiters) \in Clients
    BY <1>5 DEF Handoff
  <2>2. client[Head(waiters)] = "waiting"
    BY <2>1 DEF QueueMatchesWaiting
  <2>3. QED
    BY <1>5, <2>1, <2>2 DEF Handoff
<1>6. QED
  BY <1>1, <1>2, <1>3, <1>4, <1>5

-----------------------------------------------------------------------------
LEMMA TypeStep == IInv /\ [Next]_vars => TypeOK'
<1> SUFFICES ASSUME IInv, [Next]_vars PROVE TypeOK'
  OBVIOUS
<1> USE DEF IInv, TypeOK, ClientState
<1>1. ASSUME NEW c \in Clients, AcquireNow(c) PROVE TypeOK'
  BY <1>1 DEF AcquireNow
<1>2. ASSUME NEW c \in Clients, AcquireWait(c) PROVE TypeOK'
  BY <1>2 DEF AcquireWait
<1>3. ASSUME NEW c \in Clients, Timeout(c) PROVE TypeOK'
  BY <1>3, WithoutType DEF Timeout
<1>4. ASSUME NEW c \in Clients, Handoff(c) PROVE TypeOK'
  BY <1>4 DEF Handoff
<1>5. ASSUME NEW c \in Clients, Free(c) PROVE TypeOK'
  BY <1>5 DEF Free
<1>6. CASE UNCHANGED vars
  BY <1>6 DEF vars
<1>7. QED
  BY <1>1, <1>2, <1>3, <1>4, <1>5, <1>6 DEF Next, Acquire, Release

(* The queue stays in step with the waiting clients. *)
LEMMA QueueStep == IInv /\ [Next]_vars => QueueMatchesWaiting'
<1> SUFFICES ASSUME IInv, [Next]_vars PROVE QueueMatchesWaiting'
  OBVIOUS
<1> USE DEF IInv, TypeOK, ClientState, QueueMatchesWaiting, Waiting
<1>1. ASSUME NEW c \in Clients, AcquireNow(c) PROVE QueueMatchesWaiting'
  BY <1>1 DEF AcquireNow
<1>2. ASSUME NEW c \in Clients, AcquireWait(c) PROVE QueueMatchesWaiting'
  <2>1. /\ DOMAIN waiters = 1..Len(waiters)
        /\ Len(waiters) \in Nat
        /\ DOMAIN waiters' = 1..(Len(waiters) + 1)
        /\ waiters'[Len(waiters) + 1] = c
        /\ \A i \in DOMAIN waiters : waiters'[i] = waiters[i]
    BY <1>2 DEF AcquireWait
  <2>2. /\ \A d \in Clients : client'[d] = IF d = c THEN "waiting" ELSE client[d]
        /\ client[c] = "idle"
    BY <1>2 DEF AcquireWait
  <2>3. \A i \in DOMAIN waiters : waiters[i] # c /\ waiters[i] \in Clients
    BY <2>2, <2>1
  <2>4. (\A i \in DOMAIN waiters : client[waiters[i]] = "waiting")'
    BY <2>1, <2>2, <2>3
  <2>5. (\A d \in Waiting : \E i \in DOMAIN waiters : waiters[i] = d)'
    BY <2>1, <2>2, <2>3
  <2>6. (\A i, j \in DOMAIN waiters : waiters[i] = waiters[j] => i = j)'
    BY <2>1, <2>2, <2>3
  <2>7. QED
    BY <2>4, <2>5, <2>6
<1>3. ASSUME NEW c \in Clients, Timeout(c) PROVE QueueMatchesWaiting'
  <2>1. PICK i \in DOMAIN waiters :
          /\ waiters[i] = c
          /\ waiters' = Without(waiters, i)
          /\ client' = [client EXCEPT ![c] = "idle"]
    BY <1>3 DEF Timeout
  <2>2. /\ DOMAIN waiters = 1..Len(waiters)
        /\ Len(waiters) \in Nat
        /\ DOMAIN waiters' = 1..(Len(waiters) - 1)
        /\ \A k \in DOMAIN waiters' :
             waiters'[k] = IF k < i THEN waiters[k] ELSE waiters[k + 1]
    BY <2>1, WithoutType DEF Without
  <2>3. \A d \in Clients : client'[d] = IF d = c THEN "idle" ELSE client[d]
    BY <2>1
  <2>4. \A k \in DOMAIN waiters : waiters[k] \in Clients /\ (waiters[k] = c => k = i)
    BY <2>1, <2>2
  <2>5. (\A k \in DOMAIN waiters : client[waiters[k]] = "waiting")'
    BY <2>2, <2>3, <2>4
  <2>6. (\A d \in Waiting : \E k \in DOMAIN waiters : waiters[k] = d)'
    <3>1. SUFFICES ASSUME NEW d \in Clients, client'[d] = "waiting"
                   PROVE  \E k \in DOMAIN waiters' : waiters'[k] = d
      OBVIOUS
    <3>2. d # c /\ client[d] = "waiting"
      BY <3>1, <2>3
    <3>3. PICK k \in DOMAIN waiters : waiters[k] = d
      BY <3>2
    <3>4. k # i
      BY <3>2, <3>3, <2>1
    <3>5. CASE k < i
      BY <3>3, <3>5, <2>1, <2>2
    <3>6. CASE k > i
      <4>1. /\ k - 1 \in DOMAIN waiters'
            /\ ~(k - 1 < i)
            /\ (k - 1) + 1 = k
        BY <3>6, <2>1, <2>2
      <4>2. QED
        BY <4>1, <3>3, <2>2
    <3>7. QED
      BY <3>4, <3>5, <3>6, <2>1, <2>2
  <2>7. (\A k, m \in DOMAIN waiters : waiters[k] = waiters[m] => k = m)'
    BY <2>1, <2>2
  <2>8. QED
    BY <2>5, <2>6, <2>7
<1>4. ASSUME NEW c \in Clients, Handoff(c) PROVE QueueMatchesWaiting'
  <2> DEFINE h == Head(waiters)
  <2>1. /\ DOMAIN waiters = 1..Len(waiters)
        /\ Len(waiters) \in Nat
        /\ 1 \in DOMAIN waiters
        /\ h = waiters[1]
        /\ h \in Clients
        /\ DOMAIN waiters' = 1..(Len(waiters) - 1)
        /\ \A k \in DOMAIN waiters' : waiters'[k] = waiters[k + 1]
    BY <1>4 DEF Handoff
  <2>2. h # c /\ client[c] = "holding"
    BY <1>4, <2>1 DEF Handoff
  <2>3. \A d \in Clients :
          client'[d] = IF d = h THEN "holding" ELSE IF d = c THEN "idle" ELSE client[d]
    BY <1>4, <2>1, <2>2 DEF Handoff
  <2>4. \A k \in DOMAIN waiters :
          waiters[k] \in Clients /\ waiters[k] # c /\ (waiters[k] = h => k = 1)
    BY <2>1, <2>2
  <2>5. (\A k \in DOMAIN waiters : client[waiters[k]] = "waiting")'
    BY <2>1, <2>3, <2>4
  <2>6. (\A d \in Waiting : \E k \in DOMAIN waiters : waiters[k] = d)'
    <3>1. SUFFICES ASSUME NEW d \in Clients, client'[d] = "waiting"
                   PROVE  \E k \in DOMAIN waiters' : waiters'[k] = d
      OBVIOUS
    <3>2. d # h /\ client[d] = "waiting"
      BY <3>1, <2>3
    <3>3. PICK k \in DOMAIN waiters : waiters[k] = d
      BY <3>2
    <3>4. /\ k - 1 \in DOMAIN waiters'
          /\ (k - 1) + 1 = k
      BY <3>2, <3>3, <2>1
    <3>5. QED
      BY <3>3, <3>4, <2>1
  <2>7. (\A k, m \in DOMAIN waiters : waiters[k] = waiters[m] => k = m)'
    BY <2>1
  <2>8. QED
    BY <2>5, <2>6, <2>7
<1>5. ASSUME NEW c \in Clients, Free(c) PROVE QueueMatchesWaiting'
  BY <1>5 DEF Free
<1>6. CASE UNCHANGED vars
  BY <1>6 DEF vars
<1>7. QED
  BY <1>1, <1>2, <1>3, <1>4, <1>5, <1>6 DEF Next, Acquire, Release

(* The counter stays exact, within the cap, and full while anybody waits.  *)
LEMMA CounterStep ==
  IInv /\ [Next]_vars => CounterIsExact' /\ CapRespected' /\ WaitOnlyAtCap'
<1> SUFFICES ASSUME IInv, [Next]_vars
             PROVE  CounterIsExact' /\ CapRespected' /\ WaitOnlyAtCap'
  OBVIOUS
<1> USE SlotAssumption, HoldersFinite
    DEF IInv, TypeOK, CounterIsExact, CapRespected, WaitOnlyAtCap
<1>1. ASSUME NEW c \in Clients, AcquireNow(c)
      PROVE  CounterIsExact' /\ CapRespected' /\ WaitOnlyAtCap'
  <2>1. Cardinality(Holders') = Cardinality(Holders) + 1
    BY <1>1, HoldersStep, FS_AddElement
  <2>2. QED
    BY <1>1, <2>1 DEF AcquireNow
<1>2. ASSUME NEW c \in Clients, AcquireWait(c)
      PROVE  CounterIsExact' /\ CapRespected' /\ WaitOnlyAtCap'
  <2>1. Holders' = Holders
    BY <1>2, HoldersStep
  <2>2. active' = active /\ active >= MaxTranscodes
    BY <1>2 DEF AcquireWait
  <2>3. QED
    BY <2>1, <2>2
<1>3. ASSUME NEW c \in Clients, Timeout(c)
      PROVE  CounterIsExact' /\ CapRespected' /\ WaitOnlyAtCap'
  <2>1. Holders' = Holders
    BY <1>3, HoldersStep
  <2>2. active' = active /\ waiters # <<>>
    BY <1>3 DEF Timeout
  <2>3. QED
    BY <2>1, <2>2
<1>4. ASSUME NEW c \in Clients, Handoff(c)
      PROVE  CounterIsExact' /\ CapRespected' /\ WaitOnlyAtCap'
  <2>1. PICK h \in Clients : /\ c \in Holders
                             /\ h \notin Holders
                             /\ Holders' = (Holders \ {c}) \cup {h}
    BY <1>4, HoldersStep
  <2>2. /\ IsFiniteSet(Holders \ {c})
        /\ Cardinality(Holders \ {c}) = Cardinality(Holders) - 1
    BY <2>1, FS_RemoveElement
  <2>3. Cardinality((Holders \ {c}) \cup {h}) = Cardinality(Holders \ {c}) + 1
    BY <2>1, <2>2, FS_AddElement
  <2>4. Cardinality(Holders') = Cardinality(Holders)
    BY <2>1, <2>2, <2>3
  <2>5. WaitOnlyAtCap' /\ active' = active
    BY <1>4 DEF Handoff
  <2>6. QED
    BY <2>4, <2>5
<1>5. ASSUME NEW c \in Clients, Free(c)
      PROVE  CounterIsExact' /\ CapRespected' /\ WaitOnlyAtCap'
  <2>1. Cardinality(Holders') = Cardinality(Holders) - 1
    BY <1>5, HoldersStep, FS_RemoveElement
  <2>2. Cardinality(Holders') \in Nat
    BY HoldersFiniteNext
  <2>3. QED
    BY <1>5, <2>1, <2>2 DEF Free
<1>6. CASE UNCHANGED vars
  BY <1>6 DEF vars, Holders
<1>7. QED
  BY <1>1, <1>2, <1>3, <1>4, <1>5, <1>6 DEF Next, Acquire, Release

(* Nobody holds or waits for a slot at boot. *)
LEMMA InitIInv == Init => IInv
<1> SUFFICES ASSUME Init PROVE IInv
  OBVIOUS
<1>1. Holders = {}
  BY DEF Init, Holders
<1>2. Cardinality(Holders) = 0
  BY <1>1, FS_EmptySet
<1>3. TypeOK /\ QueueMatchesWaiting
  BY DEF Init, TypeOK, ClientState, QueueMatchesWaiting, Waiting
<1>4. QED
  BY <1>2, <1>3, SlotAssumption
  DEF Init, IInv, CounterIsExact, CapRespected, WaitOnlyAtCap

(* What any use of the semaphore may do, timers or not.                    *)
SafetySpec == Init /\ [][Next]_vars

(* The invariant holds however the clients use the semaphore. *)
LEMMA Safety == SafetySpec => []IInv
<1>1. Init => IInv
  BY InitIInv
<1>2. IInv /\ [Next]_vars => IInv'
  BY TypeStep, QueueStep, CounterStep DEF IInv
<1>3. QED
  BY <1>1, <1>2, PTL DEF SafetySpec

(* The invariant of every behaviour of the semaphore. *)
THEOREM Invariance == Spec => []IInv
BY Safety, PTL DEF Spec, SafetySpec

(* The state is always well typed. *)
THEOREM TypeCorrect == Spec => []TypeOK
BY Invariance, PTL DEF IInv

(* The counter always equals the number of slots in use: handoffs and      *)
(* timeouts, in any order, never wedge the semaphore.                      *)
THEOREM CounterNeverDrifts == Spec => []CounterIsExact
BY Invariance, PTL DEF IInv

(* The cap on ffmpeg processes is respected in every state. *)
THEOREM CapHolds == Spec => []CapRespected
BY Invariance, PTL DEF IInv

(* The semaphore never loses count: queue, counter and cap agree always. *)
THEOREM PoolStaysConsistent == Spec => []PoolConsistent
BY Invariance, PTL DEF IInv, PoolConsistent

-----------------------------------------------------------------------------
(* One step never lets a newcomer take a slot while others are queued.     *)
LEMMA NoBargingStep ==
  IInv /\ [Next]_vars =>
    [Waiting # {} =>
       \A c \in Clients : client[c] = "idle" => client'[c] # "holding"]_vars
<1> SUFFICES ASSUME IInv, [Next]_vars, Waiting # {},
                    NEW d \in Clients, client[d] = "idle"
             PROVE  client'[d] # "holding"
  OBVIOUS
<1> USE DEF IInv, TypeOK, ClientState
<1>1. waiters # <<>> /\ active = MaxTranscodes
  BY DEF QueueMatchesWaiting, Waiting, WaitOnlyAtCap
<1>2. ASSUME NEW c \in Clients, AcquireNow(c) PROVE FALSE
  BY <1>1, <1>2, SlotAssumption DEF AcquireNow
<1>3. ASSUME NEW c \in Clients, AcquireWait(c) PROVE client'[d] # "holding"
  BY <1>3 DEF AcquireWait
<1>4. ASSUME NEW c \in Clients, Timeout(c) PROVE client'[d] # "holding"
  BY <1>4 DEF Timeout
<1>5. ASSUME NEW c \in Clients, Handoff(c) PROVE client'[d] # "holding"
  <2>1. /\ Head(waiters) = waiters[1]
        /\ 1 \in DOMAIN waiters
        /\ Head(waiters) \in Clients
    BY <1>1
  <2>2. client[Head(waiters)] = "waiting"
    BY <2>1 DEF QueueMatchesWaiting
  <2>3. QED
    BY <1>5, <2>1, <2>2 DEF Handoff
<1>6. ASSUME NEW c \in Clients, Free(c) PROVE client'[d] # "holding"
  BY <1>6 DEF Free
<1>7. CASE UNCHANGED vars
  BY <1>7 DEF vars
<1>8. QED
  BY <1>2, <1>3, <1>4, <1>5, <1>6, <1>7 DEF Next, Acquire, Release

(* Slots go to callers in the order they queued: no newcomer overtakes.    *)
THEOREM FirstComeFirstServed == Spec => NoBarging
BY Invariance, NoBargingStep, PTL DEF Spec, NoBarging

(* Every step of the semaphore is a step of the pool, or invisible there.  *)
LEMMA PoolStep == IInv /\ [Next]_vars => [Pool!Next]_Holders
<1> SUFFICES ASSUME IInv, [Next]_vars PROVE [Pool!Next]_Holders
  OBVIOUS
<1> USE DEF IInv
<1>1. ASSUME NEW c \in Clients, AcquireNow(c) PROVE [Pool!Next]_Holders
  <2>1. c \notin Holders /\ Holders' = Holders \cup {c}
    BY <1>1, HoldersStep
  <2>2. Cardinality(Holders) < MaxTranscodes
    BY <1>1 DEF AcquireNow, CounterIsExact
  <2>3. QED
    BY <2>1, <2>2 DEF Pool!Next, Pool!Grant, Pool!Cardinality, Cardinality
<1>2. ASSUME NEW c \in Clients, AcquireWait(c) PROVE [Pool!Next]_Holders
  BY <1>2, HoldersStep
<1>3. ASSUME NEW c \in Clients, Timeout(c) PROVE [Pool!Next]_Holders
  BY <1>3, HoldersStep
<1>4. ASSUME NEW c \in Clients, Handoff(c) PROVE [Pool!Next]_Holders
  <2>1. /\ Head(waiters) \in Clients
        /\ c \in Holders
        /\ Head(waiters) \notin Holders
        /\ Holders' = (Holders \ {c}) \cup {Head(waiters)}
    BY <1>4, HoldersStep
  <2>2. QED
    BY <2>1 DEF Pool!Next, Pool!Transfer
<1>5. ASSUME NEW c \in Clients, Free(c) PROVE [Pool!Next]_Holders
  <2>1. c \in Holders /\ Holders' = Holders \ {c}
    BY <1>5, HoldersStep
  <2>2. QED
    BY <2>1 DEF Pool!Next, Pool!Return
<1>6. CASE UNCHANGED vars
  BY <1>6 DEF vars, Holders
<1>7. QED
  BY <1>1, <1>2, <1>3, <1>4, <1>5, <1>6 DEF Next, Acquire, Release

(* The semaphore implements the abstract pool of slots. *)
THEOREM Refinement == Spec => ImplementsPool
<1>1. Init => Pool!Init
  BY DEF Init, Pool!Init, Holders
<1>2. IInv /\ [Next]_vars => [Pool!Next]_Holders
  BY PoolStep
<1>3. QED
  BY <1>1, <1>2, Invariance, PTL DEF Spec, ImplementsPool, Pool!Spec

-----------------------------------------------------------------------------
(* The worker's ffmpeg gate.                                               *)
GateInv == Gate!TypeOK /\ Gate!GateIsExact

GateWaiting == {p \in Passes : gPc[p] = "wait"}

(* Counting in the gate's module is counting. *)
LEMMA GateCounts ==
  /\ IsFiniteSet(Passes)
  /\ \A S : Gate!Cardinality(S) = Cardinality(S)
<1>1. \A S : Gate!Cardinality(S) = Cardinality(S)
  BY DEF Gate!Cardinality, Cardinality
<1>2. \A S : Gate!IsFiniteSet(S) <=> IsFiniteSet(S)
  BY DEF Gate!IsFiniteSet, IsFiniteSet
<1>3. QED
  BY <1>1, <1>2, StreamWorlds DEF Gate!FfmpegGateAssumption

(* The children alive are finitely many, in this state and the next. *)
LEMMA RunningFinite ==
  /\ IsFiniteSet(Gate!Running) /\ IsFiniteSet(Gate!Running')
  /\ Cardinality(Gate!Running) \in Nat
  /\ Cardinality(Gate!Running) <= Cardinality(Passes)
  /\ Cardinality(Gate!Running') \in Nat
  /\ Cardinality(Gate!Running') <= Cardinality(Passes)
  /\ Cardinality(Passes) \in Nat
<1>1. Gate!Running \in SUBSET Passes /\ Gate!Running' \in SUBSET Passes
  BY DEF Gate!Running
<1>2. QED
  BY <1>1, GateCounts, FS_Subset, FS_CardinalityType

(* A call that leaves the counter and the line alone, and neither starts   *)
(* nor ends a child, keeps the count.                                      *)
LEMMA GateQuiet ==
  ASSUME GateInv, UNCHANGED <<gActive, line>>,
         Gate!Running' = Gate!Running, GateWaiting' = GateWaiting
  PROVE  Gate!SpawnsAreCounted'
<1>1. Gate!SpawnsAreCounted /\ Gate!InLine' = Gate!InLine
  BY DEF GateInv, Gate!GateIsExact, Gate!InLine
<1>2. QED
  BY <1>1 DEF Gate!SpawnsAreCounted, GateWaiting

(* A holder of either kind moves between two places that are neither the   *)
(* line nor a child.                                                       *)
Outside == {"idle", "prune", "count", "counted", "gate", "done", "failed"}

LEMMA GateAside ==
  ASSUME GateInv, NEW h \in Gate!Holders, NEW to,
         gPc' = [gPc EXCEPT ![h] = to], UNCHANGED <<gActive, line>>,
         h \in Passes => gPc[h] \in Outside /\ to \in Outside
  PROVE  Gate!SpawnsAreCounted'
<1>1. Gate!Running' = Gate!Running /\ GateWaiting' = GateWaiting
  BY DEF GateInv, Gate!TypeOK, Gate!Running, GateWaiting, Outside, Gate!Holders
<1>2. QED
  BY <1>1, GateQuiet

(* The steps before the gate and after the child, and those of a stream. *)
Aside(h) ==
  \/ Gate!Call(h) \/ Gate!Prune(h) \/ Gate!Count(h) \/ Gate!Add(h)
  \/ \E to \in {"prune", "gate", "run"} : Gate!WaitOrGiveUp(h, to)
  \/ h \in Passes /\ Gate!Return(h)
  \/ h \in Streams /\ Gate!StreamEnds(h)
  \/ h \in Streams /\ \E g \in Ghosts : Gate!StreamDies(h, g)

LEMMA AsideCounts ==
  ASSUME GateInv, NEW h \in Gate!Holders, Aside(h)
  PROVE  Gate!SpawnsAreCounted'
<1>1. PICK to : /\ gPc' = [gPc EXCEPT ![h] = to]
                /\ h \in Passes => gPc[h] \in Outside /\ to \in Outside
  <2>1. Passes \cap Streams = {}
    BY StreamWorlds DEF Gate!FfmpegGateAssumption
  <2>2. CASE Gate!Call(h)
    BY <2>2 DEF Gate!Call, Gate!Go, Outside
  <2>3. CASE Gate!Prune(h)
    BY <2>3 DEF Gate!Prune, Gate!Go, Outside
  <2>4. CASE Gate!Count(h)
    BY <2>4 DEF Gate!Count, Gate!Go, Outside
  <2>5. CASE Gate!Add(h)
    BY <2>5 DEF Gate!Add, Gate!Go, Gate!Then, Outside
  <2>6. CASE \E to \in {"prune", "gate", "run"} : Gate!WaitOrGiveUp(h, to)
    BY <2>6 DEF Gate!WaitOrGiveUp, Gate!Go, Gate!Then, Outside
  <2>7. CASE h \in Passes /\ Gate!Return(h)
    BY <2>7 DEF Gate!Return, Gate!Go, Outside
  <2>8. CASE h \in Streams /\ Gate!StreamEnds(h)
    BY <2>1, <2>8 DEF Gate!StreamEnds, Gate!Go, Outside
  <2>9. CASE h \in Streams /\ \E g \in Ghosts : Gate!StreamDies(h, g)
    BY <2>1, <2>9 DEF Gate!StreamDies, Gate!Go, Outside
  <2>10. QED
    BY <2>2, <2>3, <2>4, <2>5, <2>6, <2>7, <2>8, <2>9 DEF Aside
<1>2. UNCHANGED <<gActive, line>>
  BY DEF Aside, Gate!Call, Gate!Prune, Gate!Count, Gate!Add, Gate!WaitOrGiveUp,
     Gate!Return, Gate!StreamEnds, Gate!StreamDies, Gate!gate
<1>3. QED
  BY <1>1, <1>2, GateAside

(* Nobody before the gate is a member of the GPU's set. *)
LEMMA AsideTypes ==
  ASSUME GateInv, NEW h \in Gate!Holders, Aside(h)
  PROVE  Gate!TypeOK' /\ Gate!SlotsHaveHolders'
<1> USE DEF GateInv, Gate!TypeOK, Gate!GateIsExact, Gate!SlotsHaveHolders,
            Gate!Go, Gate!gate, Gate!gpu, Gate!Holders
<1>0. Passes \cap Streams = {} /\ Ghosts \cap (Passes \cup Streams) = {}
  BY StreamWorlds DEF Gate!FfmpegGateAssumption
<1>1. CASE Gate!Call(h)
  BY <1>1 DEF Gate!Call
<1>2. CASE Gate!Prune(h)
  BY <1>2 DEF Gate!Prune
<1>3. CASE Gate!Count(h)
  BY <1>3 DEF Gate!Count
<1>4. CASE Gate!Add(h)
  BY <1>4 DEF Gate!Add, Gate!Then
<1>5. CASE \E to \in {"prune", "gate", "run"} : Gate!WaitOrGiveUp(h, to)
  BY <1>5 DEF Gate!WaitOrGiveUp, Gate!Then
<1>6. CASE h \in Passes /\ Gate!Return(h)
  BY <1>6 DEF Gate!Return, Gate!Release
<1>7. CASE h \in Streams /\ Gate!StreamEnds(h)
  BY <1>7 DEF Gate!StreamEnds, Gate!Release
<1>8. CASE h \in Streams /\ \E g \in Ghosts : Gate!StreamDies(h, g)
  BY <1>0, <1>8 DEF Gate!StreamDies
<1>9. QED
  BY <1>1, <1>2, <1>3, <1>4, <1>5, <1>6, <1>7, <1>8 DEF Aside

(* A child is counted when it starts, and a caller at the cap queues once. *)
LEMMA EnterCounts ==
  ASSUME GateInv, NEW p \in Passes, Gate!EnterGate(p)
  PROVE  Gate!SpawnsAreCounted'
<1> USE DEF GateInv, Gate!TypeOK, Gate!GateIsExact
<1>1. p \in Gate!Holders /\ gPc[p] = "gate" /\ p \notin Gate!Running
  BY DEF Gate!EnterGate, Gate!Holders, Gate!Running
<1>2. gActive \in Nat /\ MaxSpawns \in Nat
  BY StreamWorlds, GateCounts, RunningFinite DEF Gate!FfmpegGateAssumption
<1>3. CASE gActive >= MaxSpawns
  <2>1. /\ line' = Append(line, p) /\ gActive' = gActive
        /\ gPc' = [gPc EXCEPT ![p] = "wait"]
    BY <1>3 DEF Gate!EnterGate, Gate!Go
  <2>2. Gate!Running' = Gate!Running
    BY <1>1, <2>1 DEF Gate!Running
  <2>3. /\ Len(line) \in Nat /\ Len(line') = Len(line) + 1
        /\ line'[Len(line) + 1] = p
        /\ \A n \in 1..Len(line) : line'[n] = line[n] /\ line[n] \in Passes
    BY <2>1
  <2>4. \A n \in 1..Len(line) : gPc[line[n]] = "wait"
    BY DEF Gate!SpawnsAreCounted, Gate!InLine
  <2>5. \A m, n \in 1..Len(line') : line'[m] = line'[n] => m = n
    BY <1>1, <2>3, <2>4 DEF Gate!SpawnsAreCounted
  <2>6. Gate!InLine' = Gate!InLine \cup {p}
    <3>1. ASSUME NEW x \in Gate!InLine' PROVE x \in Gate!InLine \cup {p}
      <4>1. PICK n \in 1..Len(line') : x = line'[n]
        BY <3>1 DEF Gate!InLine
      <4>2. n \in 1..Len(line) \/ n = Len(line) + 1
        BY <2>3
      <4>3. QED
        BY <4>1, <4>2, <2>3 DEF Gate!InLine
    <3>2. ASSUME NEW x \in Gate!InLine \cup {p} PROVE x \in Gate!InLine'
      BY <3>2, <2>3 DEF Gate!InLine
    <3>3. QED
      BY <3>1, <3>2
  <2>7. GateWaiting' = GateWaiting \cup {p}
    BY <1>1, <2>1 DEF GateWaiting
  <2>8. Gate!InLine = GateWaiting /\ gActive = MaxSpawns
    BY <1>2, <1>3 DEF Gate!SpawnsAreCounted, GateWaiting
  <2>9. QED
    BY <2>1, <2>2, <2>5, <2>6, <2>7, <2>8 DEF Gate!SpawnsAreCounted, GateWaiting
<1>4. CASE ~(gActive >= MaxSpawns)
  <2>1. /\ line' = line /\ gActive' = gActive + 1
        /\ gPc' = [gPc EXCEPT ![p] = "run"]
    BY <1>4 DEF Gate!EnterGate, Gate!Spawned, Gate!Go
  <2>2. Gate!Running' = Gate!Running \cup {p}
    BY <1>1, <2>1 DEF Gate!Running
  <2>3. Cardinality(Gate!Running') = Cardinality(Gate!Running) + 1
    BY <1>1, <2>2, RunningFinite, FS_AddElement
  <2>4. GateWaiting' = GateWaiting /\ Gate!InLine' = Gate!InLine
    BY <1>1, <2>1 DEF GateWaiting, Gate!InLine
  <2>5. line = <<>> /\ gActive + 1 <= MaxSpawns
    BY <1>2, <1>4 DEF Gate!SpawnsAreCounted
  <2>6. gActive' = Gate!Cardinality(Gate!Running')
    BY <2>1, <2>3, GateCounts DEF Gate!SpawnsAreCounted
  <2>7. QED
    BY <2>1, <2>4, <2>5, <2>6 DEF Gate!SpawnsAreCounted, GateWaiting
<1>5. QED
  BY <1>3, <1>4

(* A child that ends gives its place to the head of the line, or back. *)
LEMMA HandOverCounts ==
  ASSUME GateInv, NEW p \in Passes, gPc[p] = "run", NEW to,
         to \in {"done", "gate", "failed"}, Gate!HandOver, Gate!Moved(p, to)
  PROVE  Gate!SpawnsAreCounted'
<1> USE DEF GateInv, Gate!TypeOK, Gate!GateIsExact
<1>1. p \in Gate!Holders /\ p \in Gate!Running
  BY DEF Gate!Holders, Gate!Running
<1>2. gActive \in Nat /\ MaxSpawns \in Nat /\ gActive = Cardinality(Gate!Running)
  BY StreamWorlds, GateCounts, RunningFinite
  DEF Gate!FfmpegGateAssumption, Gate!SpawnsAreCounted
<1>3. CASE line = <<>>
  <2>1. /\ line' = line /\ gActive' = gActive - 1
        /\ \A q \in Gate!Holders : gPc'[q] = IF q = p THEN to ELSE gPc[q]
    BY <1>3 DEF Gate!HandOver, Gate!Moved, Gate!Woken
  <2>2. Gate!Running' = Gate!Running \ {p}
    BY <1>1, <2>1 DEF Gate!Running, Gate!Holders
  <2>3. Cardinality(Gate!Running') = Cardinality(Gate!Running) - 1
    BY <1>1, <2>2, RunningFinite, FS_RemoveElement
  <2>4. GateWaiting' = GateWaiting /\ Gate!InLine' = Gate!InLine
    BY <1>1, <2>1 DEF GateWaiting, Gate!InLine, Gate!Holders
  <2>5. gActive' = Gate!Cardinality(Gate!Running')
    BY <1>2, <2>1, <2>3, GateCounts
  <2>6. QED
    BY <1>2, <1>3, <2>1, <2>4, <2>5 DEF Gate!SpawnsAreCounted, GateWaiting
<1>4. CASE line # <<>>
  <2> DEFINE h == Head(line)
  <2>1. /\ Len(line) \in Nat /\ 1 \in 1..Len(line) /\ h = line[1] /\ h \in Passes
        /\ line' = Tail(line) /\ gActive' = gActive
        /\ Len(line') = Len(line) - 1
        /\ \A n \in 1..Len(line') : line'[n] = line[n + 1]
    BY <1>4 DEF Gate!HandOver
  <2>2. gPc[h] = "wait" /\ h # p
    BY <2>1 DEF Gate!SpawnsAreCounted, Gate!InLine
  <2>3. \A q \in Gate!Holders :
          gPc'[q] = IF q = p THEN to ELSE IF q = h THEN "run" ELSE gPc[q]
    BY <1>4 DEF Gate!Moved, Gate!Woken
  <2>4. /\ Gate!Running' = (Gate!Running \ {p}) \cup {h}
        /\ h \notin Gate!Running
    BY <1>1, <2>1, <2>2, <2>3 DEF Gate!Running, Gate!Holders
  <2>5. /\ IsFiniteSet(Gate!Running \ {p})
        /\ Cardinality(Gate!Running \ {p}) = Cardinality(Gate!Running) - 1
    BY <1>1, RunningFinite, FS_RemoveElement
  <2>6. h \notin Gate!Running \ {p}
    BY <2>4
  <2>7. Cardinality(Gate!Running') = Cardinality(Gate!Running \ {p}) + 1
    BY <2>4, <2>5, <2>6, FS_AddElement
  <2>8. Cardinality(Gate!Running') = Cardinality(Gate!Running)
    BY <1>2, <2>5, <2>7
  <2>9. GateWaiting' = GateWaiting \ {h}
    BY <1>1, <2>1, <2>2, <2>3 DEF GateWaiting, Gate!Holders
  <2>10. \A n \in 1..Len(line) : line[n] = h => n = 1
    BY <2>1 DEF Gate!SpawnsAreCounted
  <2>11. Gate!InLine' = Gate!InLine \ {h}
    <3>1. ASSUME NEW x \in Gate!InLine' PROVE x \in Gate!InLine \ {h}
      <4>1. PICK n \in 1..Len(line') : x = line'[n]
        BY <3>1 DEF Gate!InLine
      <4>2. n + 1 \in 1..Len(line) /\ n + 1 # 1 /\ x = line[n + 1]
        BY <4>1, <2>1
      <4>3. QED
        BY <4>2, <2>10 DEF Gate!InLine
    <3>2. ASSUME NEW x \in Gate!InLine \ {h} PROVE x \in Gate!InLine'
      <4>1. PICK n \in 1..Len(line) : x = line[n]
        BY <3>2 DEF Gate!InLine
      <4>2. n - 1 \in 1..Len(line') /\ (n - 1) + 1 = n
        BY <4>1, <3>2, <2>1
      <4>3. line'[n - 1] = x
        BY <4>1, <4>2, <2>1
      <4>4. QED
        BY <4>2, <4>3 DEF Gate!InLine
    <3>3. QED
      BY <3>1, <3>2
  <2>12. \A m, n \in 1..Len(line') : line'[m] = line'[n] => m = n
    <3>1. SUFFICES ASSUME NEW m \in 1..Len(line'), NEW n \in 1..Len(line'),
                          line'[m] = line'[n]
                   PROVE  m = n
      OBVIOUS
    <3>2. m + 1 \in 1..Len(line) /\ n + 1 \in 1..Len(line) /\ line[m + 1] = line[n + 1]
      BY <3>1, <2>1
    <3>3. m + 1 = n + 1
      BY <3>2 DEF Gate!SpawnsAreCounted
    <3>4. QED
      BY <3>3, <2>1
  <2>13. Gate!InLine = GateWaiting /\ gActive = MaxSpawns
    BY <1>4 DEF Gate!SpawnsAreCounted, GateWaiting
  <2>14. gActive' = Gate!Cardinality(Gate!Running')
    BY <1>2, <2>1, <2>8, GateCounts
  <2>15. QED
    BY <1>2, <2>1, <2>9, <2>11, <2>12, <2>13, <2>14
    DEF Gate!SpawnsAreCounted, GateWaiting
<1>5. QED
  BY <1>3, <1>4

(* The gate's own steps keep the types and the GPU's set. *)
LEMMA GateTypes ==
  ASSUME GateInv, NEW p \in Passes,
         Gate!EnterGate(p) \/ Gate!Exit(p) \/ Gate!ExitHw(p),
         Gate!SpawnsAreCounted'
  PROVE  Gate!TypeOK' /\ Gate!SlotsHaveHolders'
<1> USE DEF GateInv, Gate!TypeOK, Gate!GateIsExact, Gate!gpu, Gate!Holders
<1>1. gActive' \in 0..Gate!Cardinality(Passes)
  BY GateCounts, RunningFinite DEF Gate!SpawnsAreCounted
<1>2. Gate!Woken \subseteq GateWaiting
  BY DEF Gate!Woken, Gate!SpawnsAreCounted, Gate!InLine, GateWaiting
<1>3. CASE Gate!EnterGate(p)
  <2>1. gPc' \in [Gate!Holders -> {"idle", "prune", "count", "counted",
                                   "gate", "wait", "run", "done", "failed"}]
    BY <1>3 DEF Gate!EnterGate, Gate!Spawned, Gate!Go
  <2>2. line' \in Seq(Passes) /\ ran' \subseteq Passes
    BY <1>3 DEF Gate!EnterGate, Gate!Spawned
  <2>3. UNCHANGED <<cpu, slots, old, gFaults>>
    BY <1>3 DEF Gate!EnterGate
  <2>4. Gate!SlotsHaveHolders'
    BY <1>3, <2>3 DEF Gate!EnterGate, Gate!Spawned, Gate!Go, Gate!SlotsHaveHolders
  <2>5. QED
    BY <1>1, <2>1, <2>2, <2>3, <2>4
<1>4. ASSUME NEW to \in {"done", "gate", "failed"}, Gate!HandOver, Gate!Moved(p, to),
             gPc[p] = "run"
      PROVE  /\ gPc' \in [Gate!Holders -> {"idle", "prune", "count", "counted",
                                   "gate", "wait", "run", "done", "failed"}]
             /\ line' \in Seq(Passes) /\ ran' \subseteq Passes
             /\ UNCHANGED slots => Gate!SlotsHaveHolders'
  <2>1. gPc' \in [Gate!Holders -> {"idle", "prune", "count", "counted",
                                   "gate", "wait", "run", "done", "failed"}]
    BY <1>4 DEF Gate!Moved
  <2>2. line' \in Seq(Passes)
    BY <1>4 DEF Gate!HandOver
  <2>3. ran' \subseteq Passes
    BY <1>2, <1>4 DEF Gate!Moved, GateWaiting
  <2>4. \A q \in Gate!Holders : gPc'[q] \in {to, "run", gPc[q]}
    BY <1>4 DEF Gate!Moved
  <2>5. UNCHANGED slots => Gate!SlotsHaveHolders'
    BY <1>4, <2>4 DEF Gate!SlotsHaveHolders
  <2>6. QED
    BY <2>1, <2>2, <2>3, <2>5
<1>5. CASE Gate!Exit(p)
  <2>1. UNCHANGED <<cpu, slots, old, gFaults>>
    BY <1>5 DEF Gate!Exit
  <2>2. QED
    BY <1>1, <1>4, <1>5, <2>1 DEF Gate!Exit
<1>6. CASE Gate!ExitHw(p)
  <2>1. UNCHANGED <<slots, old>> /\ cpu' \subseteq Passes /\ gFaults' \in 0..GateFaults
    BY <1>6, StreamWorlds DEF Gate!ExitHw, Gate!FfmpegGateAssumption
  <2>2. QED
    BY <1>1, <1>4, <1>6, <2>1 DEF Gate!ExitHw
<1>7. QED
  BY <1>3, <1>5, <1>6

(* The gate's invariant is inductive. *)
LEMMA GateStep == GateInv /\ [Gate!Next]_gatevars => GateInv'
<1> SUFFICES ASSUME GateInv, [Gate!Next]_gatevars PROVE GateInv'
  OBVIOUS
<1>1. ASSUME NEW h \in Gate!Holders, Aside(h) PROVE GateInv'
  BY <1>1, AsideCounts, AsideTypes DEF GateInv, Gate!GateIsExact
<1>2. ASSUME NEW p \in Passes, Gate!EnterGate(p) \/ Gate!Exit(p) \/ Gate!ExitHw(p)
      PROVE  GateInv'
  <2>1. Gate!SpawnsAreCounted'
    BY <1>2, EnterCounts, HandOverCounts DEF Gate!Exit, Gate!ExitHw
  <2>2. QED
    BY <1>2, <2>1, GateTypes DEF GateInv, Gate!GateIsExact
<1>3. ASSUME NEW m \in Gate!Holders \cup Ghosts, Gate!GrowOld(m) PROVE GateInv'
  <2>1. Gate!Running' = Gate!Running /\ GateWaiting' = GateWaiting
    BY <1>3 DEF Gate!GrowOld, Gate!Running, GateWaiting
  <2>2. Gate!SpawnsAreCounted'
    BY <1>3, <2>1, GateQuiet DEF Gate!GrowOld, Gate!gate
  <2>3. QED
    BY <1>3, <2>2 DEF Gate!GrowOld, Gate!gate, GateInv, Gate!GateIsExact, Gate!TypeOK,
       Gate!SlotsHaveHolders
<1>4. CASE UNCHANGED gatevars
  BY <1>4 DEF gatevars, GateInv, Gate!GateIsExact, Gate!TypeOK, Gate!SpawnsAreCounted,
     Gate!Running, Gate!InLine, Gate!SlotsHaveHolders
<1>5. QED
  BY <1>1, <1>2, <1>3, <1>4 DEF Gate!Next, Aside, Gate!Holders

LEMMA GateStart == Gate!Init => GateInv
<1> SUFFICES ASSUME Gate!Init PROVE GateInv
  OBVIOUS
<1>1. Gate!Running = {} /\ Gate!InLine = {} /\ GateWaiting = {}
  BY DEF Gate!Init, Gate!Running, Gate!InLine, GateWaiting, Gate!Holders
<1>2. Gate!Cardinality(Gate!Running) = 0
  BY <1>1, GateCounts, FS_EmptySet
<1>3. Gate!SpawnsAreCounted
  BY <1>1, <1>2, StreamWorlds
  DEF Gate!Init, Gate!SpawnsAreCounted, GateWaiting, Gate!FfmpegGateAssumption
<1>4. Gate!TypeOK
  BY GateCounts, RunningFinite, StreamWorlds DEF Gate!Init, Gate!TypeOK, Gate!FfmpegGateAssumption
<1>5. Gate!SlotsHaveHolders
  BY DEF Gate!Init, Gate!SlotsHaveHolders
<1>6. QED
  BY <1>3, <1>4, <1>5 DEF GateInv, Gate!GateIsExact

-----------------------------------------------------------------------------
(* The segment route. *)
SLive   == [run : Segment!Runs, from : Segment!Segments, restarting : BOOLEAN]
SChild  == [from : Segment!Segments, next : 0..SegmentCount,
            state : {"none", "running", "exited", "killed"}]
STmp    == [there : BOOLEAN, lists : SUBSET Segment!Segments]
SExit   == [pc : {"idle", "check", "readdir", "write", "rename"},
            lists : SUBSET Segment!Segments]
SSeek   == [pc : {"idle", "spawn", "write", "rename"}, target : Segment!Segments,
            run : Segment!Runs]
SPlayer == [lists : SUBSET Segment!Segments, run : Segment!Runs]
SReq    == [pc : {"idle", "wait", "done"}, n : Segment!Segments,
            run : Segment!Runs, got : 0..MaxRuns]

SegmentTypes ==
  /\ fLive \in SLive /\ fChild \in [Segment!Runs -> SChild]
  /\ files \in [Segment!Segments -> 0..MaxRuns]
  /\ playlist \in SUBSET Segment!Segments
  /\ tmp \in STmp /\ exit \in [Segment!Runs -> SExit] /\ seek \in SSeek
  /\ player \in SPlayer /\ fReq \in [Players -> SReq]
  /\ fFaults \in 0..SegmentFaults

(* A restart under way still has a run to come. *)
SegmentInv ==
  /\ SegmentTypes
  /\ seek.pc = "spawn" => fLive.run < MaxRuns

LEMMA SegmentNumbers ==
  /\ SegmentCount \in Nat \ {0} /\ MaxRuns \in Nat \ {0} /\ SegmentFaults \in Nat
  /\ Segment!Segments = 0..(SegmentCount - 1) /\ Segment!Runs = 1..MaxRuns
BY StreamWorlds DEF Segment!SegmentFilesAssumption, Segment!Segments, Segment!Runs

LEMMA SegmentBounds ==
  /\ 0 \in Segment!Segments /\ 1 \in Segment!Runs
  /\ 0 \in 0..SegmentCount /\ 0 \in 0..MaxRuns /\ 0 \in 0..SegmentFaults
  /\ Segment!Segments \subseteq 0..SegmentCount /\ Segment!Runs \subseteq 0..MaxRuns
  /\ \A from \in Segment!Segments : Segment!Promise(from) \subseteq Segment!Segments
  /\ \A from \in Segment!Segments : Segment!ListedUpTo(from) \subseteq Segment!Segments
BY SegmentNumbers DEF Segment!Promise, Segment!ListedUpTo

LEMMA SegmentTyped == SegmentTypes => Segment!TypeOK
BY DEF SegmentTypes, Segment!TypeOK, SLive, SChild, STmp, SExit, SSeek, SPlayer, SReq

(* What a handler or a child may do to its own record. *)
LEMMA SegmentRecords ==
  /\ \A l \in SLive : /\ l.run \in Segment!Runs /\ l.from \in Segment!Segments
                      /\ [l EXCEPT !.restarting = TRUE] \in SLive
                      /\ [l EXCEPT !.restarting = TRUE].run = l.run
  /\ \A c \in SChild :
       /\ c.from \in Segment!Segments /\ c.next \in 0..SegmentCount
       /\ c.next < SegmentCount => /\ c.next \in Segment!Segments
                            /\ [c EXCEPT !.next = @ + 1] \in SChild
       /\ \A s \in {"exited", "killed"} : [c EXCEPT !.state = s] \in SChild
  /\ \A t \in STmp : t.lists \in SUBSET Segment!Segments
  /\ Segment!NoFile \in STmp /\ Segment!NoExit \in SExit
  /\ \A x \in SExit :
       /\ x.lists \in SUBSET Segment!Segments
       /\ \A to \in {"idle", "check", "readdir", "rename"} : [x EXCEPT !.pc = to] \in SExit
  /\ Segment!NoSeek \in SSeek /\ Segment!NoSeek.pc = "idle"
  /\ \A k \in SSeek : /\ k.run \in Segment!Runs /\ k.target \in Segment!Segments
                      /\ [k EXCEPT !.pc = "rename"] \in SSeek
                      /\ [k EXCEPT !.pc = "rename"].pc = "rename"
                      /\ \A r \in Segment!Runs :
                           /\ [k EXCEPT !.pc = "write", !.run = r] \in SSeek
                           /\ [k EXCEPT !.pc = "write", !.run = r].pc = "write"
  /\ Segment!NoReq \in SReq /\ Segment!NoChild \in SChild
  /\ \A q \in SReq :
       /\ q.n \in Segment!Segments
       /\ \A g \in 0..MaxRuns : [q EXCEPT !.pc = "done", !.got = g] \in SReq
<1>1. \A c \in SChild :
       /\ c.from \in Segment!Segments /\ c.next \in 0..SegmentCount
       /\ \A s \in {"exited", "killed"} : [c EXCEPT !.state = s] \in SChild
  BY DEF SChild
<1>2. ASSUME NEW c \in SChild, c.next < SegmentCount
      PROVE  c.next \in Segment!Segments /\ [c EXCEPT !.next = @ + 1] \in SChild
  <2>1. c.next \in 0..SegmentCount
    BY <1>1
  <2>2. c.next \in Segment!Segments /\ c.next + 1 \in 0..SegmentCount
    BY <1>2, <2>1, SegmentNumbers
  <2>3. QED
    BY <2>2 DEF SChild
<1>3. \A l \in SLive : /\ l.run \in Segment!Runs /\ l.from \in Segment!Segments
                       /\ [l EXCEPT !.restarting = TRUE] \in SLive
                       /\ [l EXCEPT !.restarting = TRUE].run = l.run
  BY DEF SLive
<1>4. /\ \A t \in STmp : t.lists \in SUBSET Segment!Segments
      /\ Segment!NoFile \in STmp
  BY DEF STmp, Segment!NoFile
<1>5. /\ Segment!NoExit \in SExit
      /\ \A x \in SExit :
           /\ x.lists \in SUBSET Segment!Segments
           /\ \A to \in {"idle", "check", "readdir", "rename"} : [x EXCEPT !.pc = to] \in SExit
  BY SegmentBounds DEF SExit, Segment!NoExit
<1>6. /\ Segment!NoSeek \in SSeek /\ Segment!NoSeek.pc = "idle"
      /\ \A k \in SSeek : /\ k.run \in Segment!Runs /\ k.target \in Segment!Segments
                          /\ [k EXCEPT !.pc = "rename"] \in SSeek
                          /\ [k EXCEPT !.pc = "rename"].pc = "rename"
                          /\ \A r \in Segment!Runs :
                               /\ [k EXCEPT !.pc = "write", !.run = r] \in SSeek
                               /\ [k EXCEPT !.pc = "write", !.run = r].pc = "write"
  BY SegmentBounds DEF SSeek, Segment!NoSeek
<1>7. Segment!NoReq \in SReq /\ Segment!NoChild \in SChild
  BY SegmentBounds DEF SReq, Segment!NoReq, SChild, Segment!NoChild
<1>8. \A q \in SReq :
       /\ q.n \in Segment!Segments
       /\ \A g \in 0..MaxRuns : [q EXCEPT !.pc = "done", !.got = g] \in SReq
  BY DEF SReq
<1>9. QED
  BY <1>1, <1>2, <1>3, <1>4, <1>5, <1>6, <1>7, <1>8

LEMMA SegmentStart == Segment!Init => SegmentInv
<1> SUFFICES ASSUME Segment!Init PROVE SegmentInv
  OBVIOUS
<1>1. PICK from \in Segment!Segments :
        /\ fLive = [run |-> 1, from |-> from, restarting |-> FALSE]
        /\ fChild = [r \in Segment!Runs |->
                      IF r = 1 THEN [from |-> from, next |-> from, state |-> "running"]
                      ELSE Segment!NoChild]
        /\ playlist = Segment!Promise(from)
        /\ player = [lists |-> Segment!Promise(from), run |-> 1]
  BY DEF Segment!Init
<1>2. fLive \in SLive /\ player \in SPlayer /\ playlist \in SUBSET Segment!Segments
  BY <1>1, SegmentBounds DEF SLive, SPlayer
<1>3. [from |-> from, next |-> from, state |-> "running"] \in SChild
  BY SegmentBounds DEF SChild
<1>4. fChild \in [Segment!Runs -> SChild]
  BY <1>1, <1>3, SegmentRecords
<1>5. /\ files \in [Segment!Segments -> 0..MaxRuns] /\ fFaults \in 0..SegmentFaults
  BY SegmentBounds DEF Segment!Init
<1>6. /\ tmp \in STmp /\ exit \in [Segment!Runs -> SExit]
      /\ fReq \in [Players -> SReq] /\ seek \in SSeek /\ seek.pc = "idle"
  BY SegmentRecords DEF Segment!Init
<1>7. QED
  BY <1>2, <1>4, <1>5, <1>6 DEF SegmentInv, SegmentTypes

(* A child's end sets its exit handler going. *)
LEMMA SegmentEnds ==
  ASSUME SegmentInv, NEW r \in Segment!Runs, NEW s \in {"exited", "killed"},
         Segment!End(r, s)
  PROVE  fChild' \in [Segment!Runs -> SChild] /\ exit' \in [Segment!Runs -> SExit]
<1>1. [fChild[r] EXCEPT !.state = s] \in SChild /\ [exit[r] EXCEPT !.pc = "check"] \in SExit
  BY SegmentRecords DEF SegmentInv, SegmentTypes
<1>2. QED
  BY <1>1 DEF Segment!End, SegmentInv, SegmentTypes

LEMMA SegmentStep == SegmentInv /\ [Segment!Next]_segmentvars => SegmentInv'
<1> SUFFICES ASSUME SegmentInv, [Segment!Next]_segmentvars PROVE SegmentInv'
  OBVIOUS
<1> USE DEF SegmentInv, SegmentTypes
<1>1. ASSUME NEW r \in Segment!Runs, Segment!CloseSegment(r) PROVE SegmentInv'
  <2>1. fChild[r] \in SChild /\ fChild[r].next < SegmentCount /\ r \in 0..MaxRuns
    BY <1>1, SegmentBounds DEF Segment!CloseSegment
  <2>2. /\ fChild[r].next \in Segment!Segments
        /\ [fChild[r] EXCEPT !.next = @ + 1] \in SChild
    BY <2>1, SegmentRecords
  <2>3. QED
    BY <1>1, <2>1, <2>2 DEF Segment!CloseSegment
<1>2. ASSUME NEW r \in Segment!Runs, Segment!Complete(r) PROVE SegmentInv'
  BY <1>2, SegmentEnds DEF Segment!Complete
<1>3. ASSUME NEW r \in Segment!Runs, Segment!Die(r) PROVE SegmentInv'
  <2>1. fFaults' \in 0..SegmentFaults
    BY <1>3, SegmentNumbers DEF Segment!Die
  <2>2. QED
    BY <1>3, <2>1, SegmentEnds DEF Segment!Die
<1>4. ASSUME NEW r \in Segment!Runs, Segment!ExitCheck(r) PROVE SegmentInv'
  BY <1>4, SegmentRecords DEF Segment!ExitCheck
<1>5. ASSUME NEW r \in Segment!Runs, Segment!Readdir(r) PROVE SegmentInv'
  <2>1. [pc |-> "write", lists |-> Segment!ListedUpTo(fChild[r].from)] \in SExit
    BY SegmentBounds, SegmentRecords DEF SExit
  <2>2. QED
    BY <1>5, <2>1 DEF Segment!Readdir
<1>6. ASSUME NEW r \in Segment!Runs, Segment!WriteTruncated(r) PROVE SegmentInv'
  <2>1. [there |-> TRUE, lists |-> exit[r].lists] \in STmp
    BY SegmentRecords DEF STmp
  <2>2. QED
    BY <1>6, <2>1, SegmentRecords DEF Segment!WriteTruncated
<1>7. ASSUME NEW r \in Segment!Runs, Segment!RenameTruncated(r) PROVE SegmentInv'
  BY <1>7, SegmentRecords DEF Segment!RenameTruncated
<1>8. ASSUME NEW n \in Segment!Segments, Segment!Seek(n) PROVE SegmentInv'
  <2>1. /\ fLive.run \in Segment!Runs /\ fLive.run < MaxRuns
        /\ fLive' = [fLive EXCEPT !.restarting = TRUE]
        /\ UNCHANGED <<files, playlist, tmp, player, fReq, fFaults>>
    BY <1>8, SegmentRecords DEF Segment!Seek
  <2>2. seek' \in SSeek
    BY <1>8, <2>1 DEF Segment!Seek, SSeek
  <2>3. fChild' \in [Segment!Runs -> SChild] /\ exit' \in [Segment!Runs -> SExit]
    BY <1>8, <2>1, SegmentEnds DEF Segment!Seek
  <2>4. fLive' \in SLive /\ fLive'.run < MaxRuns
    BY <2>1, SegmentRecords
  <2>5. QED
    BY <2>1, <2>2, <2>3, <2>4
<1>9. CASE Segment!Spawn
  <2>1. fLive.run \in Segment!Runs /\ fLive.run < MaxRuns
    BY <1>9, SegmentRecords DEF Segment!Spawn
  <2>2. fLive.run + 1 \in Segment!Runs
    BY <2>1, SegmentNumbers
  <2>3. [from |-> seek.target, next |-> seek.target, state |-> "running"] \in SChild
    BY SegmentBounds, SegmentRecords DEF SChild
  <2>4. QED
    BY <1>9, <2>2, <2>3, SegmentRecords DEF Segment!Spawn
<1>10. CASE Segment!WritePlaylist
  <2>1. [there |-> TRUE, lists |-> Segment!Promise(seek.target)] \in STmp
    BY SegmentBounds, SegmentRecords DEF STmp
  <2>2. QED
    BY <1>10, <2>1, SegmentRecords DEF Segment!WritePlaylist
<1>11. CASE Segment!Commit
  <2>1. [run |-> seek.run, from |-> seek.target, restarting |-> FALSE] \in SLive
    BY SegmentRecords DEF SLive
  <2>2. QED
    BY <1>11, <2>1, SegmentRecords DEF Segment!Commit
<1>12. CASE Segment!Load
  BY <1>12, SegmentRecords DEF Segment!Load, SPlayer
<1>13. ASSUME NEW q \in Players, NEW n \in Segment!Segments, Segment!Ask(q, n)
       PROVE  SegmentInv'
  <2>1. [pc |-> "wait", n |-> n, run |-> fLive.run, got |-> 0] \in SReq
    BY SegmentBounds, SegmentRecords DEF SReq
  <2>2. QED
    BY <1>13, <2>1 DEF Segment!Ask
<1>14. ASSUME NEW q \in Players, Segment!Answer(q) PROVE SegmentInv'
  <2>1. [fReq[q] EXCEPT !.pc = "done", !.got = files[fReq[q].n]] \in SReq
    BY SegmentRecords
  <2>2. QED
    BY <1>14, <2>1 DEF Segment!Answer
<1>15. ASSUME NEW q \in Players, Segment!Forget(q) PROVE SegmentInv'
  BY <1>15, SegmentRecords DEF Segment!Forget
<1>16. CASE UNCHANGED segmentvars
  BY <1>16 DEF segmentvars
<1>17. QED
  BY <1>1, <1>2, <1>3, <1>4, <1>5, <1>6, <1>7, <1>8, <1>9, <1>10, <1>11, <1>12,
     <1>13, <1>14, <1>15, <1>16
  DEF Segment!Next, Segment!ChildStep, Segment!ExitStep, Segment!SeekStep

-----------------------------------------------------------------------------
(* The remux route. *)
MLive   == [file : Remux!Files, patched : BOOLEAN, restarting : BOOLEAN]
MChild  == [state : {"none", "running", "ok", "failed", "killed"},
            wrote : 0..Remux!Complete]
MFile   == [linked : BOOLEAN, mehd : BOOLEAN]
MSeek   == [pc : {"idle", "spawn", "swap"}, file : Remux!Files]
Bytes   == Seq(Remux!Mehd..Remux!Complete)
MReader == [pc : {"idle", "refused", "sent", "open", "read", "empty", "ended",
                  "destroyed"},
            file : Remux!Files, got : Bytes]
Fits    == {m \in MReader : Len(m.got) <= Remux!Complete + 1}

RemuxTypes ==
  /\ mLive \in MLive /\ mChild \in [Remux!Files -> MChild]
  /\ file \in [Remux!Files -> MFile] /\ mSeek \in MSeek
  /\ reader \in [Readers -> Fits]
  /\ mFaults \in 0..RemuxFaults

(* A file the entry calls patched has its duration, which is what Send's    *)
(* test of the flag stands on.                                             *)
RemuxInv ==
  /\ RemuxTypes
  /\ mLive.patched => file[mLive.file].mehd
  /\ Remux!DurationIsKnown

LEMMA RemuxTyped == RemuxTypes => Remux!TypeOK
<1> SUFFICES ASSUME RemuxTypes PROVE Remux!TypeOK
  OBVIOUS
<1>1. Fits \subseteq MReader
  BY DEF Fits
<1>2. reader \in [Readers -> MReader]
  BY <1>1 DEF RemuxTypes
<1>3. \A r \in Readers : Len(reader[r].got) <= Remux!Complete + 1
  BY DEF RemuxTypes, Fits
<1>4. QED
  BY <1>2, <1>3 DEF RemuxTypes, Remux!TypeOK, MLive, MChild, MFile, MSeek, MReader, Bytes

LEMMA RemuxNumbers ==
  Fragments \in Nat /\ MaxFiles \in Nat \ {0} /\ RemuxFaults \in Nat
BY StreamWorlds DEF Remux!RemuxFollowAssumption

LEMMA RemuxBounds ==
  /\ 0 \in 0..Remux!Complete /\ 0 \in 0..RemuxFaults
  /\ 1 \in Remux!Files
  /\ Remux!Patched \in Bytes
  /\ Len(Remux!Patched) = Remux!Complete + 1
  /\ \A n \in 0..Remux!Complete : Remux!Plain(n) \in Bytes /\ Len(Remux!Plain(n)) = n
<1>1. Fragments \in Nat /\ MaxFiles \in Nat \ {0} /\ RemuxFaults \in Nat
  BY RemuxNumbers
<1>2. /\ 1 \in Remux!Files
      /\ 0 \in 0..Remux!Complete /\ 0 \in 0..RemuxFaults
  BY <1>1 DEF Remux!Files, Remux!Complete
<1>3. ASSUME NEW n \in 0..Remux!Complete
      PROVE  Remux!Plain(n) \in Bytes /\ Len(Remux!Plain(n)) = n
  <2>1. n \in Nat /\ Remux!Complete \in Nat
    BY <1>1 DEF Remux!Complete
  <2>2. \A i \in 1..n : i \in Remux!Mehd..Remux!Complete
    BY <2>1 DEF Remux!Mehd
  <2>3. Remux!Plain(n) \in [1..n -> Remux!Mehd..Remux!Complete]
    BY <2>2 DEF Remux!Plain
  <2>4. \A S : \A f \in [1..n -> S] : f \in Seq(S)
    BY <2>1
  <2>5. Remux!Plain(n) \in Bytes
    BY <2>3, <2>4 DEF Bytes
  <2>6. QED
    BY <2>1, <2>5 DEF Remux!Plain
<1> DEFINE head == <<1, Remux!Mehd>>
           tail == [i \in 1..Fragments |-> i + 1]
<1>4. head \in Bytes /\ Len(head) = 2
  BY <1>1 DEF Remux!Mehd, Remux!Complete, Bytes
<1>5. tail \in Bytes /\ Len(tail) = Fragments
  <2>1. \A i \in 1..Fragments : i + 1 \in Remux!Mehd..Remux!Complete
    BY <1>1 DEF Remux!Mehd, Remux!Complete
  <2>2. tail \in [1..Fragments -> Remux!Mehd..Remux!Complete]
    BY <2>1
  <2>3. QED
    BY <1>1, <2>2 DEF Bytes
<1> HIDE DEF head, tail
<1>6. /\ head \o tail \in Bytes
      /\ Len(head \o tail) = 2 + Fragments
  <2>1. \A S : \A s, t \in Seq(S) : s \o t \in Seq(S) /\ Len(s \o t) = Len(s) + Len(t)
    OBVIOUS
  <2>2. QED
    BY <1>4, <1>5, <2>1 DEF Bytes
<1>7. Remux!Patched = head \o tail
  BY DEF Remux!Patched, head, tail
<1>8. QED
  BY <1>1, <1>2, <1>3, <1>6, <1>7 DEF Remux!Complete

(* What a step may do to an entry, a child, a file and a request. *)
LEMMA RemuxRecords ==
  /\ \A l \in MLive : /\ l.file \in Remux!Files
                      /\ [l EXCEPT !.restarting = TRUE] \in MLive
                      /\ [l EXCEPT !.restarting = TRUE].file = l.file
                      /\ [l EXCEPT !.restarting = TRUE].patched = l.patched
                      /\ [l EXCEPT !.patched = TRUE] \in MLive
                      /\ [l EXCEPT !.patched = TRUE].file = l.file
  /\ \A c \in MChild :
       /\ c.wrote \in 0..Remux!Complete
       /\ c.wrote < Remux!Complete => [c EXCEPT !.wrote = @ + 1] \in MChild
       /\ \A s \in {"running", "ok", "failed", "killed"} : [c EXCEPT !.state = s] \in MChild
  /\ \A x \in MFile : /\ \A b \in BOOLEAN : /\ [x EXCEPT !.linked = b] \in MFile
                                            /\ [x EXCEPT !.linked = b].mehd = x.mehd
                      /\ [x EXCEPT !.mehd = TRUE] \in MFile
                      /\ [x EXCEPT !.mehd = TRUE].mehd
  /\ \A k \in MSeek : /\ k.file \in Remux!Files
                      /\ \A to \in {"idle", "swap"} : [k EXCEPT !.pc = to] \in MSeek
  /\ Remux!NoRead \in Fits /\ Remux!NoRead.pc = "idle"
  /\ \A m \in Fits :
       /\ m.file \in Remux!Files /\ m.got \in Bytes
       /\ Len(m.got) <= Remux!Complete + 1
       /\ \A to \in {"read", "empty", "ended", "destroyed"} :
            [m EXCEPT !.pc = to] \in Fits /\ [m EXCEPT !.pc = to].pc = to
       /\ \A got \in Bytes : Len(got) <= Remux!Complete + 1 =>
            [m EXCEPT !.got = got] \in Fits /\ [m EXCEPT !.got = got].pc = m.pc
<1>1. \A l \in MLive : /\ l.file \in Remux!Files
                       /\ [l EXCEPT !.restarting = TRUE] \in MLive
                       /\ [l EXCEPT !.restarting = TRUE].file = l.file
                       /\ [l EXCEPT !.restarting = TRUE].patched = l.patched
                       /\ [l EXCEPT !.patched = TRUE] \in MLive
                       /\ [l EXCEPT !.patched = TRUE].file = l.file
  BY DEF MLive
<1>2. \A c \in MChild :
       /\ c.wrote \in 0..Remux!Complete
       /\ \A s \in {"running", "ok", "failed", "killed"} : [c EXCEPT !.state = s] \in MChild
  BY DEF MChild
<1>3. ASSUME NEW c \in MChild, c.wrote < Remux!Complete
      PROVE  [c EXCEPT !.wrote = @ + 1] \in MChild
  <2>1. c.wrote \in 0..Remux!Complete
    BY <1>2
  <2>2. Remux!Complete \in Nat
    BY RemuxNumbers DEF Remux!Complete
  <2>3. c.wrote + 1 \in 0..Remux!Complete
    BY <1>3, <2>1, <2>2
  <2>4. QED
    BY <2>3 DEF MChild
<1>4. \A x \in MFile : /\ \A b \in BOOLEAN : /\ [x EXCEPT !.linked = b] \in MFile
                                             /\ [x EXCEPT !.linked = b].mehd = x.mehd
                       /\ [x EXCEPT !.mehd = TRUE] \in MFile
                       /\ [x EXCEPT !.mehd = TRUE].mehd
  BY DEF MFile
<1>5. \A k \in MSeek : /\ k.file \in Remux!Files
                       /\ \A to \in {"idle", "swap"} : [k EXCEPT !.pc = to] \in MSeek
  BY DEF MSeek
<1>6. Remux!NoRead \in Fits /\ Remux!NoRead.pc = "idle"
  <2>1. <<>> \in Bytes /\ Len(<<>>) <= Remux!Complete + 1
    BY RemuxBounds DEF Bytes, Remux!Complete
  <2>2. QED
    BY <2>1, RemuxBounds DEF Remux!NoRead, Fits, MReader
<1>7. \A m \in Fits :
       /\ m.file \in Remux!Files /\ m.got \in Bytes
       /\ Len(m.got) <= Remux!Complete + 1
       /\ \A to \in {"read", "empty", "ended", "destroyed"} :
            [m EXCEPT !.pc = to] \in Fits /\ [m EXCEPT !.pc = to].pc = to
       /\ \A got \in Bytes : Len(got) <= Remux!Complete + 1 =>
            [m EXCEPT !.got = got] \in Fits /\ [m EXCEPT !.got = got].pc = m.pc
  BY DEF Fits, MReader
<1>8. QED
  BY <1>1, <1>2, <1>3, <1>4, <1>5, <1>6, <1>7

LEMMA RemuxStart == Remux!Init => RemuxInv
<1> SUFFICES ASSUME Remux!Init PROVE RemuxInv
  OBVIOUS
<1>1. Remux!NoChild \in MChild
  BY RemuxBounds DEF MChild, Remux!NoChild, Remux!Complete
<1>2. [state |-> "running", wrote |-> 0] \in MChild
  BY RemuxBounds DEF MChild, Remux!Complete
<1>3. mChild \in [Remux!Files -> MChild]
  BY <1>1, <1>2 DEF Remux!Init
<1>4. mLive \in MLive /\ file \in [Remux!Files -> MFile] /\ mSeek \in MSeek
  BY RemuxBounds DEF Remux!Init, MLive, MFile, MSeek
<1>5. reader \in [Readers -> Fits] /\ mFaults \in 0..RemuxFaults
  BY RemuxBounds, RemuxRecords DEF Remux!Init
<1>6. RemuxTypes
  BY <1>3, <1>4, <1>5 DEF RemuxTypes
<1>7. QED
  BY <1>6, RemuxRecords DEF RemuxInv, Remux!Init, Remux!DurationIsKnown

(* A reader's bytes are those of one file, plain or patched. *)
LEMMA BytesFit ==
  ASSUME RemuxTypes, NEW f \in Remux!Files
  PROVE  Remux!Bytes(f) \in Bytes /\ Len(Remux!Bytes(f)) \in 0..(Remux!Complete + 1)
<1>1. mChild[f].wrote \in 0..Remux!Complete
  BY RemuxRecords DEF RemuxTypes
<1>2. Remux!Complete \in Nat
  BY RemuxNumbers DEF Remux!Complete
<1>3. CASE file[f].mehd
  BY <1>2, <1>3, RemuxBounds DEF Remux!Bytes
<1>4. CASE ~file[f].mehd
  <2>1. Remux!Bytes(f) = Remux!Plain(mChild[f].wrote)
    BY <1>4 DEF Remux!Bytes
  <2>2. QED
    BY <1>1, <1>2, <2>1, RemuxBounds
<1>5. QED
  BY <1>3, <1>4

(* The steps of ffmpeg and of a seek. *)
LEMMA RemuxMoves ==
  ASSUME RemuxInv,
         \/ \E f \in Remux!Files : Remux!ChildStep(f) \/ Remux!Fail(f)
         \/ Remux!Seek \/ Remux!Spawn \/ Remux!Swap
  PROVE  RemuxInv'
<1> USE DEF RemuxInv, RemuxTypes, Remux!DurationIsKnown
<1>1. ASSUME NEW f \in Remux!Files, Remux!OpenOutput(f) PROVE RemuxInv'
  <2>1. /\ [file[f] EXCEPT !.linked = TRUE] \in MFile
        /\ [file[f] EXCEPT !.linked = TRUE].mehd = file[f].mehd
        /\ mLive.file \in Remux!Files
    BY RemuxRecords
  <2>2. file' \in [Remux!Files -> MFile]
    BY <1>1, <2>1 DEF Remux!OpenOutput
  <2>3. \A g \in Remux!Files : file'[g].mehd = file[g].mehd
    BY <1>1, <2>1 DEF Remux!OpenOutput
  <2>4. QED
    BY <1>1, <2>1, <2>2, <2>3 DEF Remux!OpenOutput
<1>2. ASSUME NEW f \in Remux!Files, Remux!Append1(f) PROVE RemuxInv'
  <2>1. [mChild[f] EXCEPT !.wrote = @ + 1] \in MChild
    BY <1>2, RemuxRecords DEF Remux!Append1
  <2>2. QED
    BY <1>2, <2>1 DEF Remux!Append1
<1>3. ASSUME NEW f \in Remux!Files, Remux!Finish(f) PROVE RemuxInv'
  BY <1>3, RemuxRecords DEF Remux!Finish
<1>4. ASSUME NEW f \in Remux!Files, Remux!Fail(f) PROVE RemuxInv'
  <2>1. mFaults' \in 0..RemuxFaults
    BY <1>4, RemuxNumbers DEF Remux!Fail
  <2>2. QED
    BY <1>4, <2>1, RemuxRecords DEF Remux!Fail
<1>5. CASE Remux!Seek
  <2>1. mLive.file \in Remux!Files /\ mLive.file < MaxFiles
    BY <1>5, RemuxRecords DEF Remux!Seek
  <2>2. mLive.file + 1 \in Remux!Files
    BY <2>1, RemuxNumbers DEF Remux!Files
  <2>3. mSeek' \in MSeek
    BY <1>5, <2>2 DEF Remux!Seek, MSeek
  <2>4. mChild' \in [Remux!Files -> MChild]
    BY <1>5, <2>1, RemuxRecords DEF Remux!Seek
  <2>5. /\ mLive' = [mLive EXCEPT !.restarting = TRUE]
        /\ UNCHANGED <<file, reader, mFaults>>
    BY <1>5 DEF Remux!Seek
  <2>6. mLive' \in MLive /\ mLive'.file = mLive.file /\ mLive'.patched = mLive.patched
    BY <2>5, RemuxRecords
  <2>7. QED
    BY <2>3, <2>4, <2>5, <2>6
<1>6. CASE Remux!Spawn
  BY <1>6, RemuxRecords DEF Remux!Spawn
<1>7. CASE Remux!Swap
  <2>1. mLive' \in MLive /\ ~mLive'.patched
    BY <1>7, RemuxRecords DEF Remux!Swap, Remux!Entry, MLive
  <2>2. mLive.file \in Remux!Files /\ [file[mLive.file] EXCEPT !.linked = FALSE] \in MFile
    BY RemuxRecords
  <2>3. QED
    BY <1>7, <2>1, <2>2, RemuxRecords DEF Remux!Swap
<1>8. QED
  BY <1>1, <1>2, <1>3, <1>4, <1>5, <1>6, <1>7 DEF Remux!ChildStep

(* The steps of a request. *)
LEMMA RemuxReads ==
  ASSUME RemuxInv, NEW r \in Readers,
         Remux!Refuse(r) \/ Remux!Send(r) \/ Remux!Follow(r) \/ Remux!ReaderStep(r)
         \/ Remux!Leave(r)
  PROVE  RemuxInv'
<1> USE DEF RemuxInv, RemuxTypes, Remux!DurationIsKnown
<1>1. CASE Remux!Refuse(r)
  <2>1. [Remux!NoRead EXCEPT !.pc = "refused"] \in Fits
    BY RemuxRecords DEF Fits, MReader
  <2>2. [Remux!NoRead EXCEPT !.pc = "refused"].pc = "refused"
    BY DEF Remux!NoRead
  <2>3. QED
    BY <1>1, <2>1, <2>2 DEF Remux!Refuse
<1>2. CASE Remux!Send(r)
  <2> DEFINE f == mLive.file
             x == [file[f] EXCEPT !.mehd = @ \/ ~mLive.patched]
  <2>1. f \in Remux!Files /\ file[f] \in MFile /\ mLive.patched \in BOOLEAN
    BY RemuxRecords DEF MLive
  <2>2. /\ file' = [file EXCEPT ![f].mehd = @ \/ ~mLive.patched]
        /\ mLive' = [mLive EXCEPT !.patched = TRUE]
        /\ UNCHANGED <<mChild, mSeek, mFaults>>
        /\ reader' = [reader EXCEPT ![r] =
             [pc |-> "sent", file |-> f,
              got |-> IF file'[f].mehd THEN Remux!Patched
                      ELSE Remux!Plain(mChild[f].wrote)]]
    BY <1>2 DEF Remux!Send
  <2>3. file[f].mehd \/ ~mLive.patched
    OBVIOUS
  <2>4. x \in MFile /\ x.mehd
    BY <2>1, <2>3 DEF MFile
  <2>5. file' = [file EXCEPT ![f] = x]
    BY <2>2
  <2> HIDE DEF f, x
  <2>6. /\ file' \in [Remux!Files -> MFile] /\ file'[f].mehd
    BY <2>1, <2>4, <2>5
  <2>7. mLive' \in MLive /\ mLive'.file = f
    BY <2>2, RemuxRecords DEF f
  <2>8. reader' = [reader EXCEPT ![r] = [pc |-> "sent", file |-> f,
                                         got |-> Remux!Patched]]
    BY <2>2, <2>6
  <2>9. [pc |-> "sent", file |-> f, got |-> Remux!Patched] \in Fits
    BY <2>1, RemuxBounds DEF Fits, MReader, Remux!Complete
  <2>10. QED
    BY <2>2, <2>6, <2>8, <2>9, <2>7
<1>3. CASE Remux!Follow(r)
  <2>1. [Remux!NoRead EXCEPT !.pc = "open", !.file = mLive.file] \in Fits
    BY RemuxRecords DEF Fits, MReader
  <2>2. [Remux!NoRead EXCEPT !.pc = "open", !.file = mLive.file].pc = "open"
    BY DEF Remux!NoRead
  <2>3. QED
    BY <1>3, <2>1, <2>2 DEF Remux!Follow
<1>4. CASE Remux!OpenFile(r)
  BY <1>4, RemuxRecords DEF Remux!OpenFile
<1>5. CASE Remux!Read(r)
  <2> DEFINE bytes == Remux!Bytes(reader[r].file)
             next  == Append(reader[r].got, bytes[Len(reader[r].got) + 1])
  <2>1. bytes \in Bytes /\ Len(bytes) \in 0..(Remux!Complete + 1)
    BY BytesFit, RemuxRecords
  <2>2. \/ reader' = [reader EXCEPT ![r].pc = "empty"]
        \/ Len(reader[r].got) + 1 <= Len(bytes) /\ reader' = [reader EXCEPT ![r].got = next]
    BY <1>5 DEF Remux!Read
  <2>3. UNCHANGED <<mLive, mChild, file, mSeek, mFaults>> /\ reader[r].pc = "read"
    BY <1>5 DEF Remux!Read
  <2> HIDE DEF bytes
  <2>4. CASE reader' = [reader EXCEPT ![r].pc = "empty"]
    BY <2>3, <2>4, RemuxRecords
  <2>5. CASE Len(reader[r].got) + 1 <= Len(bytes) /\ reader' = [reader EXCEPT ![r].got = next]
    <3>1. reader[r] \in Fits /\ reader[r].got \in Bytes
      BY RemuxRecords
    <3>2. Len(reader[r].got) \in Nat
      BY <3>1 DEF Bytes
    <3>3. bytes[Len(reader[r].got) + 1] \in Remux!Mehd..Remux!Complete
      <4>1. /\ Len(reader[r].got) + 1 \in 1..Len(bytes)
        BY <2>1, <2>5, <3>2
      <4>2. \A S : \A s \in Seq(S) : \A i \in 1..Len(s) : s[i] \in S
        OBVIOUS
      <4>3. QED
        BY <2>1, <4>1, <4>2 DEF Bytes
    <3>4. next \in Bytes /\ Len(next) = Len(reader[r].got) + 1
      BY <3>1, <3>3 DEF Bytes
    <3>5. Len(next) <= Remux!Complete + 1
      BY <2>1, <2>5, <3>2, <3>4, RemuxNumbers DEF Remux!Complete
    <3> HIDE DEF next
    <3>6. [reader[r] EXCEPT !.got = next] \in Fits /\ [reader[r] EXCEPT !.got = next].pc = "read"
      <4>1. \A got \in Bytes : Len(got) <= Remux!Complete + 1 =>
              /\ [reader[r] EXCEPT !.got = got] \in Fits
              /\ [reader[r] EXCEPT !.got = got].pc = reader[r].pc
        BY <3>1, RemuxRecords
      <4>2. QED
        BY <2>3, <3>4, <3>5, <4>1
    <3>7. reader' = [reader EXCEPT ![r] = [reader[r] EXCEPT !.got = next]]
      BY <2>5
    <3>8. QED
      BY <2>3, <3>6, <3>7
  <2>6. QED
    BY <2>2, <2>4, <2>5
<1>6. CASE Remux!Look(r)
  BY <1>6, RemuxRecords DEF Remux!Look
<1>7. CASE Remux!Leave(r)
  BY <1>7, RemuxRecords DEF Remux!Leave
<1>8. QED
  BY <1>1, <1>2, <1>3, <1>4, <1>5, <1>6, <1>7 DEF Remux!ReaderStep

LEMMA RemuxStep == RemuxInv /\ [Remux!Next]_remuxvars => RemuxInv'
<1> SUFFICES ASSUME RemuxInv, [Remux!Next]_remuxvars PROVE RemuxInv'
  OBVIOUS
<1>1. CASE UNCHANGED remuxvars
  BY <1>1 DEF remuxvars, RemuxInv, RemuxTypes, Remux!DurationIsKnown
<1>2. QED
  BY <1>1, RemuxMoves, RemuxReads DEF Remux!Next

-----------------------------------------------------------------------------
(* A step of the run is a step of one world, and the others stand still.   *)
LEMMA WorldsStep ==
  [SuiteNext]_allvars =>
    /\ [Next]_poolvars /\ [Gate!Next]_gatevars
    /\ [Segment!Next]_segmentvars /\ [Remux!Next]_remuxvars
<1> SUFFICES ASSUME [SuiteNext]_allvars
             PROVE  /\ [Next]_poolvars /\ [Gate!Next]_gatevars
                    /\ [Segment!Next]_segmentvars /\ [Remux!Next]_remuxvars
  OBVIOUS
<1>1. CASE UNCHANGED allvars
  BY <1>1 DEF allvars
<1>2. CASE PoolOnly /\ Next
  BY <1>2 DEF PoolOnly
<1>3. CASE LiveOnly
  BY <1>3 DEF LiveOnly
<1>4. CASE GateOnly /\ Gate!Next
  BY <1>4 DEF GateOnly
<1>5. CASE SegmentOnly /\ Segment!Next
  BY <1>5 DEF SegmentOnly
<1>6. CASE RemuxOnly /\ Remux!Next
  BY <1>6 DEF RemuxOnly
<1>7. ASSUME SuiteNext
      PROVE  \/ PoolOnly /\ Next
             \/ LiveOnly
             \/ GateOnly /\ Gate!Next
             \/ SegmentOnly /\ Segment!Next
             \/ RemuxOnly /\ Remux!Next
  BY <1>7 DEF SuiteNext, Next, Gate!Next, Segment!Next, Segment!ChildStep,
     Segment!ExitStep, Segment!SeekStep, Remux!Next, Remux!ChildStep, Remux!ReaderStep
<1>8. QED
  BY <1>1, <1>2, <1>3, <1>4, <1>5, <1>6, <1>7

(* The gate's count and its GPU slots stay exact, and a remux that is sent  *)
(* whole knows its duration, in every behaviour of the run.                *)
THEOREM WorldsStayExact == SuiteSpec => []WorldsAreExact
<1> DEFINE Exact == GateInv /\ SegmentInv /\ RemuxInv
<1>1. SuiteInit => Exact
  BY GateStart, SegmentStart, RemuxStart DEF SuiteInit
<1>2. Exact /\ [SuiteNext]_allvars => Exact'
  BY WorldsStep, GateStep, SegmentStep, RemuxStep
<1>3. Exact => WorldsAreExact
  BY SegmentTyped, RemuxTyped DEF WorldsAreExact, GateInv, SegmentInv, RemuxInv
<1>4. QED
  BY <1>1, <1>2, <1>3, PTL DEF SuiteSpec

(* The slots of the run are a use of the semaphore, so they stay consistent *)
(* beside the other worlds too.                                            *)
THEOREM SuiteKeepsTheSlots == SuiteSpec => []PoolConsistent
<1>1. SuiteInit => IInv
  BY InitIInv DEF SuiteInit
<1>2. IInv /\ [SuiteNext]_allvars => IInv'
  BY WorldsStep, TypeStep, QueueStep, CounterStep DEF IInv, poolvars, vars
<1>3. IInv => PoolConsistent
  BY DEF IInv, PoolConsistent
<1>4. QED
  BY <1>1, <1>2, <1>3, PTL DEF SuiteSpec
=============================================================================
