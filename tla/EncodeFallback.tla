--------------------------- MODULE EncodeFallback ---------------------------
(***************************************************************************)
(* Hardware encoding and its fail-soft path in one API process: the cached *)
(* acceleration state of hwaccel.ts, shared by every session, and the      *)
(* spawns of playback-routes.ts that copy it, claim a GPU slot for it, and *)
(* on a non-zero exit disable it for everybody (attemptHwFallback).        *)
(* What a spawn asks of ffmpeg comes from PlaybackPlan.                    *)
(***************************************************************************)
EXTENDS PlaybackPlan

CONSTANTS
  Hosts,        \* the machines: [devices, encoders, scaleNpp, cuvid]
  Requested,    \* HOKAGO_HWACCEL
  Files,        \* the files that are transcoded
  Profiles,     \* the clients' profiles
  Viewers,      \* concurrent sessions
  MaxFaults,    \* bound: ffmpeg deaths nobody planned
  MaxCooldowns, \* bound: cooldown windows that pass
  MaxSeeks      \* bound: restarts of a session

EncodeFallbackAssumption ==
  /\ \A h \in Hosts : h.scaleNpp \in BOOLEAN /\ h.cuvid \in BOOLEAN
  /\ \A f \in Files : f.ten \in BOOLEAN /\ f.hdr \in BOOLEAN /\ f.burn \in BOOLEAN
  /\ \A p \in Profiles : p.hdr \in BOOLEAN
  /\ MaxFaults \in Nat /\ MaxCooldowns \in Nat /\ MaxSeeks \in Nat

VARIABLES
  host,   \* this machine
  hw,     \* the cached state: [method, failed, cooled, object]
  jobs,   \* session -> its encode
  faults  \* deaths so far

vars == <<host, hw, jobs, faults>>

Idle == [pc |-> "idle"]
Methods == Hardware \cup {"none"}

(* A session's encode: the request, the state object it read, what it runs *)
(* on, the restarts left and why it died.                                  *)
Job(pc, file, profile, object, method, seeks, cause) ==
  [pc |-> pc, file |-> file, profile |-> profile, object |-> object,
   method |-> method, seeks |-> seeks, cause |-> cause]

Plan(s) == Transcode(host, jobs[s].method, jobs[s].file, jobs[s].profile)

(* getHwaccel: detect again once a failure's cooldown has passed. *)
Cached == IF hw.failed /\ hw.cooled
          THEN [method |-> Detected(host, Requested), failed |-> FALSE,
                cooled |-> FALSE, object |-> hw.object + 1]
          ELSE hw

Init ==
  /\ host \in Hosts
  /\ hw = [method |-> Detected(host, Requested), failed |-> FALSE,
           cooled |-> FALSE, object |-> 0]
  /\ jobs = [s \in Viewers |-> Idle]
  /\ faults = 0

(* /start decided TRANSCODE; it reads the state and waits for a GPU slot. *)
Start(s, file, profile) ==
  /\ jobs[s].pc = "idle"
  /\ hw' = Cached
  /\ jobs' = [jobs EXCEPT ![s] =
       Job("claiming", file, profile, hw'.object, "none", MaxSeeks, "none")]
  /\ UNCHANGED <<host, faults>>

(* A restart reads the shared state again. *)
Seek(s) ==
  /\ jobs[s].pc = "running" /\ jobs[s].seeks > 0
  /\ hw' = Cached
  /\ jobs' = [jobs EXCEPT ![s].pc = "claiming", ![s].object = hw'.object,
                          ![s].method = "none", ![s].seeks = @ - 1]
  /\ UNCHANGED <<host, faults>>

(* The state object a spawn read is mutated in place by a failure; a later *)
(* detection makes a new object.                                           *)
Held(s) == IF jobs[s].object = hw.object THEN hw.method ELSE "none"

(* resolveHwaccelForSpawn and the spawn: no slot, no hardware. *)
Spawn(s) ==
  /\ jobs[s].pc = "claiming"
  /\ \E method \in {Held(s), "none"} :
       jobs' = [jobs EXCEPT ![s].pc = "running", ![s].method = method]
  /\ UNCHANGED <<host, hw, faults>>

(* ffmpeg dies: on a command line it cannot run, on its device, or on      *)
(* anything else.                                                          *)
Die(s, cause) ==
  /\ jobs[s].pc = "running"
  /\ (cause = "plan") = ~Fits(Plan(s))
  /\ cause = "device" => jobs[s].method # "none"
  /\ cause # "plan" => faults < MaxFaults
  /\ jobs' = [jobs EXCEPT ![s].pc = "died", ![s].cause = cause]
  /\ faults' = IF cause = "plan" THEN faults ELSE faults + 1
  /\ UNCHANGED <<host, hw>>

(* Mutant: the session keeps the shared state instead of a copy. *)
SharedMethod(s) == hw.method

(* What this session's ffmpeg was running on. *)
OwnMethod(s) == jobs[s].method

(* reportHwFailure. *)
Disabled == [hw EXCEPT !.method = "none", !.failed = TRUE, !.cooled = FALSE]

(* attemptHwFallback: hardware goes for the whole process, and the session *)
(* is encoded in software.                                                 *)
FallBack(s) ==
  /\ jobs[s].pc = "died" /\ OwnMethod(s) # "none"
  /\ hw' = Disabled
  /\ jobs' = [jobs EXCEPT ![s].pc = "running", ![s].method = "none",
                          ![s].object = hw.object]
  /\ UNCHANGED <<host, faults>>

(* Nothing to fall back from: the session stays dead. *)
GiveUp(s) ==
  /\ jobs[s].pc = "died" /\ OwnMethod(s) = "none"
  /\ jobs' = [jobs EXCEPT ![s].pc = "failed"]
  /\ UNCHANGED <<host, hw, faults>>

Stop(s) ==
  /\ jobs[s].pc \in {"running", "failed"}
  /\ jobs' = [jobs EXCEPT ![s].pc = "stopped"]
  /\ UNCHANGED <<host, hw, faults>>

(* HW_RETRY_COOLDOWN_MS passes. *)
Cool ==
  /\ hw.failed /\ ~hw.cooled /\ hw.object < MaxCooldowns
  /\ hw' = [hw EXCEPT !.cooled = TRUE]
  /\ UNCHANGED <<host, jobs, faults>>

Next ==
  \/ \E s \in Viewers :
       \/ \E file \in Files, profile \in Profiles : Start(s, file, profile)
       \/ Seek(s) \/ Spawn(s)
       \/ \E cause \in {"plan", "device", "other"} : Die(s, cause)
       \/ FallBack(s) \/ GiveUp(s) \/ Stop(s)
  \/ Cool

Spec == Init /\ [][Next]_vars

-----------------------------------------------------------------------------
TypeOK ==
  /\ host \in Hosts
  /\ hw \in [method : Methods, failed : BOOLEAN, cooled : BOOLEAN,
             object : 0..MaxCooldowns]
  /\ \A s \in Viewers : jobs[s] # Idle =>
       /\ jobs[s].pc \in {"claiming", "running", "died", "failed", "stopped"}
       /\ jobs[s].file \in Files /\ jobs[s].profile \in Profiles
       /\ jobs[s].method \in Methods
  /\ faults \in 0..MaxFaults

(* Hardware is only taken from the process because an ffmpeg died on its    *)
(* own account, never because hokago asked it for something it cannot do:   *)
(* one session's odd profile must not push every other session to the CPU. *)
OnlyFaultsDisable ==
  [][hw'.failed /\ ~hw.failed =>
       \E s \in Viewers : jobs[s].pc = "died" /\ jobs[s].cause # "plan"]_vars

(* A session whose hardware encode died gets its software encode, whatever  *)
(* other sessions do to the shared state meanwhile; and no 10-bit HEVC      *)
(* source is decoded the way that garbles it on nvenc.                      *)
FaultsFallBack ==
  \A s \in Viewers :
    /\ jobs[s].pc = "failed" => jobs[s].cause = "other" /\ jobs[s].method = "none"
    /\ jobs[s].pc = "running" => ~Spoiled(Plan(s), jobs[s].method, jobs[s].file)
=============================================================================
