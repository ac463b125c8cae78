----------------------------- MODULE FfmpegGate -----------------------------
(***************************************************************************)
(* The worker's short ffmpeg passes and the GPU they share with the API's  *)
(* transcodes: runFfmpeg and its cap on live children                      *)
(* (packages/scanner/src/generate-art.ts), the sorted set in valkey that   *)
(* both processes count their hardware sessions in                         *)
(* (packages/queue/src/gpu-slot.ts), and the hardware state a failure      *)
(* turns off for the whole worker (packages/ffmpeg/src/hwaccel.ts).        *)
(*                                                                         *)
(* A pass stands for a job's current call; it starts the next one when one *)
(* ends.  Time is the choice of giving up and of growing old.              *)
(***************************************************************************)
EXTENDS Naturals, Sequences, FiniteSets

CONSTANTS Passes,     \* calls of runFfmpeg at a time
          Streams,    \* transcodes of the API
          Ghosts,     \* bound: members whose owner crashed
          MaxSpawns,  \* HOKAGO_FFMPEG_SPAWNS
          GpuLimit,   \* HOKAGO_GPU_SESSION_LIMIT
          MaxFaults   \* bound: hardware failures

(* What the constants must satisfy, whoever instantiates the module. *)
FfmpegGateAssumption ==
  /\ IsFiniteSet(Passes)
  /\ MaxSpawns \in Nat \ {0} /\ GpuLimit \in Nat \ {0} /\ MaxFaults \in Nat
  /\ Passes \cap Streams = {} /\ Ghosts \cap (Passes \cup Streams) = {}

Holders == Passes \cup Streams

VARIABLES
  pc,      \* where each pass and each stream is
  hw,      \* hwState.method is not "none"
  ran,     \* passes whose child was given hardware arguments
  cpu,     \* passes on their second, software try
  slots,   \* members of hokago:gpu-sessions
  old,     \* members past MAX_AGE_MS
  saw,     \* the zcard an acquirer read
  active,  \* activeFfmpegSpawns
  line,    \* ffmpegSpawnWaiters
  faults

vars == <<pc, hw, ran, cpu, slots, old, saw, active, line, faults>>
gpu  == <<slots, old, saw>>
gate == <<active, line>>

Init ==
  /\ pc = [h \in Holders |-> "idle"]
  /\ hw \in BOOLEAN
  /\ ran = {} /\ cpu = {}
  /\ slots = {} /\ old = {}
  /\ saw = [h \in Holders |-> 0]
  /\ active = 0 /\ line = <<>>
  /\ faults = 0

Go(h, to) == pc' = [pc EXCEPT ![h] = to]

-----------------------------------------------------------------------------
(* acquireGpuSlot: prune, count, add are three round trips. *)
Call(h) ==
  /\ pc[h] = "idle"
  /\ Go(h, IF hw THEN "prune" ELSE IF h \in Passes THEN "gate" ELSE "idle")
  /\ UNCHANGED <<hw, ran, cpu, gpu, gate, faults>>

Prune(h) ==
  /\ pc[h] = "prune"
  /\ slots' = slots \ old
  /\ old' = {}
  /\ Go(h, "count")
  /\ UNCHANGED <<hw, ran, cpu, saw, gate, faults>>

Count(h) ==
  /\ pc[h] = "count"
  /\ saw' = [saw EXCEPT ![h] = Cardinality(slots)]
  /\ Go(h, "counted")
  /\ UNCHANGED <<hw, ran, cpu, slots, old, gate, faults>>

(* A pass goes on to the gate, a stream to its child. *)
Then(h) == IF h \in Passes THEN "gate" ELSE "run"

Add(h) ==
  /\ pc[h] = "counted" /\ saw[h] < GpuLimit
  /\ slots' = slots \cup {h}
  /\ old' = old \ {h}
  /\ saw' = [saw EXCEPT ![h] = 0]
  /\ Go(h, Then(h))
  /\ UNCHANGED <<hw, ran, cpu, gate, faults>>

(* 250 ms later, or at the deadline on the CPU. *)
WaitOrGiveUp(h, to) ==
  /\ pc[h] = "counted" /\ saw[h] >= GpuLimit
  /\ to \in {"prune", Then(h)}
  /\ saw' = [saw EXCEPT ![h] = 0]
  /\ Go(h, to)
  /\ UNCHANGED <<hw, ran, cpu, slots, old, gate, faults>>

GrowOld(m) ==
  /\ m \in slots \ old
  /\ old' = old \cup {m}
  /\ UNCHANGED <<pc, hw, ran, cpu, slots, saw, gate, faults>>

Release(h) == slots' = slots \ {h} /\ old' = old \ {h}

-----------------------------------------------------------------------------
(* withFfmpegSpawn, and the child's start: its arguments follow the shared *)
(* state as it is now.                                                     *)
Spawned(p) ==
  /\ Go(p, "run")
  /\ ran' = IF p \in slots \ cpu /\ hw THEN ran \cup {p} ELSE ran \ {p}

EnterGate(p) ==
  /\ pc[p] = "gate"
  /\ IF active >= MaxSpawns
     THEN line' = Append(line, p) /\ Go(p, "wait") /\ UNCHANGED <<active, ran>>
     ELSE active' = active + 1 /\ Spawned(p) /\ UNCHANGED line
  /\ UNCHANGED <<hw, cpu, gpu, faults>>

(* Mutant: the count drops although a waiter took the slot over. *)
HandOverTwice ==
  IF line # <<>> THEN line' = Tail(line) /\ active' = active - 1
  ELSE active' = active - 1 /\ UNCHANGED line

(* The freed slot goes straight to the next waiter. *)
HandOver ==
  IF line # <<>> THEN line' = Tail(line) /\ UNCHANGED active
  ELSE active' = active - 1 /\ UNCHANGED line

(* Mutant: the slot goes to a waiter nobody resolves. *)
Nobody == {}

Woken == IF line # <<>> THEN {Head(line)} ELSE {}

Moved(p, to) ==
  /\ pc' = [q \in Holders |-> IF q = p THEN to
                              ELSE IF q \in Woken THEN "run" ELSE pc[q]]
  /\ ran' = (ran \ ({p} \cup Woken))
            \cup {q \in Woken : q \in slots \ cpu /\ hw}

Exit(p) ==
  /\ pc[p] = "run" /\ p \in Passes
  /\ HandOver /\ Moved(p, "done")
  /\ UNCHANGED <<hw, cpu, gpu, faults>>

(* runFfmpeg's catch: the first to fail on the hardware turns it off and   *)
(* tries again on the CPU.                                                 *)
ExitHw(p) ==
  /\ pc[p] = "run" /\ p \in ran /\ faults < MaxFaults
  /\ faults' = faults + 1
  /\ HandOver
  /\ IF hw THEN hw' = FALSE /\ cpu' = cpu \cup {p} /\ Moved(p, "gate")
     ELSE UNCHANGED <<hw, cpu>> /\ Moved(p, "failed")
  /\ UNCHANGED gpu

Return(p) ==
  /\ pc[p] \in {"done", "failed"}
  /\ Release(p)
  /\ cpu' = cpu \ {p}
  /\ Go(p, "idle")
  /\ UNCHANGED <<hw, ran, saw, gate, faults>>

(* A transcode ends; or the API dies with it, and its member stays. *)
StreamEnds(s) ==
  /\ s \in Streams /\ pc[s] = "run"
  /\ Release(s)
  /\ Go(s, "idle")
  /\ UNCHANGED <<hw, ran, cpu, saw, gate, faults>>

StreamDies(s, g) ==
  /\ s \in Streams \cap slots /\ g \in Ghosts \ slots
  /\ slots' = (slots \ {s}) \cup {g}
  /\ old' = old \ {s}
  /\ Go(s, "idle")
  /\ UNCHANGED <<hw, ran, cpu, saw, gate, faults>>

-----------------------------------------------------------------------------
Next ==
  \/ \E h \in Holders :
       \/ Call(h) \/ Prune(h) \/ Count(h) \/ Add(h)
       \/ \E to \in {"prune", "gate", "run"} : WaitOrGiveUp(h, to)
  \/ \E m \in Holders \cup Ghosts : GrowOld(m)
  \/ \E p \in Passes : EnterGate(p) \/ Exit(p) \/ ExitHw(p) \/ Return(p)
  \/ \E s \in Streams : StreamEnds(s) \/ \E g \in Ghosts : StreamDies(s, g)

(* Round trips return, waits have a deadline, children exit. *)
Fairness ==
  \A p \in Passes :
    /\ WF_vars(Prune(p) \/ Count(p) \/ Add(p))
    /\ SF_vars(WaitOrGiveUp(p, "gate"))
    /\ WF_vars(EnterGate(p) \/ Exit(p) \/ Return(p))

Spec == Init /\ [][Next]_vars /\ Fairness

-----------------------------------------------------------------------------
InLine == {line[n] : n \in 1..Len(line)}
Running == {p \in Passes : pc[p] = "run"}

TypeOK ==
  /\ pc \in [Holders -> {"idle", "prune", "count", "counted",
                         "gate", "wait", "run", "done", "failed"}]
  /\ ran \subseteq Passes /\ cpu \subseteq Passes
  /\ slots \subseteq Holders \cup Ghosts /\ old \subseteq slots
  /\ active \in 0..Cardinality(Passes) /\ line \in Seq(Passes)
  /\ faults \in 0..MaxFaults

(* The children alive are exactly the ones counted, never more than the    *)
(* cap, and a pass waits in line, once, only while the cap is reached,     *)
(* although a slot changes hands without passing through the counter; and  *)
(* no member of the GPU's set outlives the call that added it.             *)
SpawnsAreCounted ==
  /\ active = Cardinality(Running) /\ active <= MaxSpawns
  /\ InLine = {p \in Passes : pc[p] = "wait"}
  /\ \A m, n \in 1..Len(line) : line[m] = line[n] => m = n
  /\ line # <<>> => active = MaxSpawns

SlotsHaveHolders ==
  \A h \in slots \cap Holders :
    pc[h] \notin {"idle", "prune", "count", "counted"}

GateIsExact == SpawnsAreCounted /\ SlotsHaveHolders

(* No pass is lost between the GPU's queue and the gate's: each call comes *)
(* back, the ones queued behind others and the ones that fell off the      *)
(* hardware included.                                                      *)
PassesEnd == \A p \in Passes : []<>(pc[p] = "idle")

(* A pass that failed on the hardware is tried once on the CPU, so that a  *)
(* flaky driver does not poison thumbnails (the comment in runFfmpeg).     *)
HwFailuresFallBack == \A p \in Passes : pc[p] # "failed"
=============================================================================
