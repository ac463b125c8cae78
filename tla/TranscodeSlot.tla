---------------------------- MODULE TranscodeSlot ----------------------------
(***************************************************************************)
(* The bounded ffmpeg semaphore of apps/api/src/transcode-slot.ts.  The    *)
(* module state is a counter and a FIFO of waiters; each function runs to  *)
(* completion on the event loop, so each is one action.  A client is one   *)
(* call of acquireTranscodeSlot and whatever process it then pays for.     *)
(***************************************************************************)
EXTENDS Naturals, Sequences, FiniteSets

CONSTANTS Clients,        \* the calls that may want a slot
          MaxTranscodes   \* HOKAGO_MAX_TRANSCODES, at least 1

ASSUME SlotAssumption ==
  /\ IsFiniteSet(Clients)
  /\ MaxTranscodes \in Nat \ {0}

VARIABLES active,   \* the counter `active`
          waiters,  \* the array `waiters`
          client    \* where each client stands with the semaphore

vars == <<active, waiters, client>>

ClientState == {"idle", "waiting", "holding"}

Holders == {c \in Clients : client[c] = "holding"}
Waiting == {c \in Clients : client[c] = "waiting"}

Init ==
  /\ active = 0
  /\ waiters = <<>>
  /\ client = [c \in Clients |-> "idle"]

-----------------------------------------------------------------------------
(* Mutant: the cap compared with <= . *)
AcquireNowPastCap(c) ==
  /\ client[c] = "idle"
  /\ active <= MaxTranscodes
  /\ active' = active + 1
  /\ client' = [client EXCEPT ![c] = "holding"]
  /\ UNCHANGED waiters

(* acquireTranscodeSlot with a slot spare: counted and granted at once.    *)
AcquireNow(c) ==
  /\ client[c] = "idle"
  /\ active < MaxTranscodes
  /\ active' = active + 1
  /\ client' = [client EXCEPT ![c] = "holding"]
  /\ UNCHANGED waiters

(* acquireTranscodeSlot at the cap: the caller queues and its timer starts. *)
AcquireWait(c) ==
  /\ client[c] = "idle"
  /\ active >= MaxTranscodes
  /\ waiters' = Append(waiters, c)
  /\ client' = [client EXCEPT ![c] = "waiting"]
  /\ UNCHANGED active

(* array.splice(i, 1) *)
Without(seq, i) ==
  [k \in 1..(Len(seq) - 1) |-> IF k < i THEN seq[k] ELSE seq[k + 1]]

(* Mutant: the timer answers the waiter but leaves it in the queue. *)
TimeoutLeavesEntry(c) ==
  \E i \in DOMAIN waiters :
    /\ waiters[i] = c
    /\ client' = [client EXCEPT ![c] = "idle"]
    /\ UNCHANGED <<active, waiters>>

(* Mutant: `idx > 0` for `idx >= 0`, so the first in line never times out. *)
TimeoutSkipsFirst(c) ==
  \E i \in DOMAIN waiters :
    /\ waiters[i] = c
    /\ i > 1
    /\ waiters' = Without(waiters, i)
    /\ client' = [client EXCEPT ![c] = "idle"]
    /\ UNCHANGED active

(* The timer of a waiter fires: it leaves the queue and is told false.     *)
Timeout(c) ==
  \E i \in DOMAIN waiters :
    /\ waiters[i] = c
    /\ waiters' = Without(waiters, i)
    /\ client' = [client EXCEPT ![c] = "idle"]
    /\ UNCHANGED active

(* Mutant: the waiter's callback counts its acquisition once more. *)
HandoffCountsAgain(c) ==
  /\ client[c] = "holding"
  /\ waiters # <<>>
  /\ active' = active + 1
  /\ waiters' = Tail(waiters)
  /\ client' = [client EXCEPT ![c] = "idle", ![Head(waiters)] = "holding"]

(* Mutant: a release gives the slot up and wakes nobody. *)
HandoffWakesNobody(c) ==
  /\ client[c] = "holding"
  /\ waiters # <<>>
  /\ active' = active - 1
  /\ client' = [client EXCEPT ![c] = "idle"]
  /\ UNCHANGED waiters

(* releaseTranscodeSlot with somebody queued: the slot goes to the oldest  *)
(* waiter, whose acquisition the counter already includes.                 *)
Handoff(c) ==
  /\ client[c] = "holding"
  /\ waiters # <<>>
  /\ waiters' = Tail(waiters)
  /\ client' = [client EXCEPT ![c] = "idle", ![Head(waiters)] = "holding"]
  /\ UNCHANGED active

(* Mutant: a slot given back both at the kill and at the exit, unguarded. *)
FreeTwice(c) ==
  /\ client[c] = "holding"
  /\ waiters = <<>>
  /\ active' = active - 2
  /\ client' = [client EXCEPT ![c] = "idle"]
  /\ UNCHANGED waiters

(* releaseTranscodeSlot with nobody queued. *)
Free(c) ==
  /\ client[c] = "holding"
  /\ waiters = <<>>
  /\ active' = IF active > 0 THEN active - 1 ELSE active
  /\ client' = [client EXCEPT ![c] = "idle"]
  /\ UNCHANGED waiters

Acquire(c) == AcquireNow(c) \/ AcquireWait(c)
Release(c) == Handoff(c) \/ Free(c)

Next == \E c \in Clients : Acquire(c) \/ Timeout(c) \/ Release(c)

(* A 60 s timer always fires in the end.  Nothing obliges a client to      *)
(* return its slot: an ffmpeg child may run as long as the film does.      *)
Spec == Init /\ [][Next]_vars /\ \A c \in Clients : WF_vars(Timeout(c))

-----------------------------------------------------------------------------
TypeOK ==
  /\ active \in Nat
  /\ waiters \in Seq(Clients)
  /\ client \in [Clients -> ClientState]

(* The queue lists exactly the waiting clients, each once: a timeout and a *)
(* handoff cannot both settle the same call.                               *)
QueueMatchesWaiting ==
  /\ \A i \in DOMAIN waiters : client[waiters[i]] = "waiting"
  /\ \A c \in Waiting : \E i \in DOMAIN waiters : waiters[i] = c
  /\ \A i, j \in DOMAIN waiters : waiters[i] = waiters[j] => i = j

(* The counter never drifts from the slots really held, so no sequence of  *)
(* handoffs and timeouts wedges it at the cap with nothing running: the    *)
(* failure the comment in `release` records.                               *)
CounterIsExact == active = Cardinality(Holders)

(* The cap itself: never more than MaxTranscodes holders. *)
CapRespected == Cardinality(Holders) <= MaxTranscodes

(* Nobody waits while a slot is spare. *)
WaitOnlyAtCap == waiters # <<>> => active = MaxTranscodes

(* The semaphore of transcode-slot.ts never loses count: the queue is who   *)
(* waits, the counter is who holds, nobody waits while a slot is spare and  *)
(* the cap holds, whatever handoffs and timeouts came before.              *)
PoolConsistent ==
  TypeOK /\ QueueMatchesWaiting /\ CounterIsExact /\ CapRespected /\ WaitOnlyAtCap

(* A newcomer never takes a slot past those already queued. *)
NoBarging ==
  [][Waiting # {} =>
       \A c \in Clients : client[c] = "idle" => client'[c] # "holding"]_vars

(* Every queued call is settled: no request hangs on the semaphore. *)
EveryWaitSettles ==
  \A c \in Clients : []<>(client[c] # "waiting")

Pool == INSTANCE SlotPool WITH holders <- Holders

(* The semaphore implements the pool of slots. *)
ImplementsPool == Pool!Spec
=============================================================================
