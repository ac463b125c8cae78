------------------------------- MODULE Artwork -------------------------------
(***************************************************************************)
(* The pictures of an item: the artwork job (processArtwork in             *)
(* apps/worker/src/index.ts) with its sidecars, embedded covers and        *)
(* generated frames (packages/scanner/src/artwork.ts and ingest.ts), the   *)
(* pictures a metadata provider ships (fetchAndStoreProviderArtwork in     *)
(* metadata.ts), and the poison count that parks an item whose file never  *)
(* decodes.                                                                *)
(*                                                                         *)
(* Every writer goes through upsertArtworkDescriptor, which is two calls:  *)
(* put the row of its own source, then remove the worse ones of that kind. *)
(* The jobs of different items and of different queues interleave between  *)
(* any two calls.  A picture's bytes and the ffmpeg passes that make them  *)
(* are left out; a frame keeps what scoring it measured, in units where    *)
(* the contrast already has its weight of one half.                        *)
(***************************************************************************)
EXTENDS Naturals, Sequences, FiniteSets, FiniteSetsExt

CONSTANTS Leaves,      \* movies and episodes
          Libraries,   \* the sets of leaves a library may consist of
          Ancestors,   \* seasons and series
          Parent,      \* the item above, or None
          None,
          Covers,      \* leaves whose file carries an attached picture
          Shots,       \* what ffmpeg measures on a leaf's candidate frames
          Offers,      \* what the provider ships for an item
          Threshold,   \* JOB_FAILURE_THRESHOLD
          MaxTroubles  \* bound: failing calls, broken frames, heavy scans

Items == Leaves \cup Ancestors
Kinds == {"POSTER", "BACKDROP"}

(* What the constants must satisfy, whoever instantiates the module. *)
ArtworkAssumption ==
  /\ Libraries \subseteq SUBSET Leaves
  /\ Parent \in [Items -> Ancestors \cup {None}]
  /\ Covers \subseteq Leaves
  /\ \A l \in Leaves : Shots[l] # {} /\ IsFiniteSet(Shots[l])
                      /\ Shots[l] \subseteq [colour : Nat, range : Nat, soft : BOOLEAN]
  /\ \A i \in DOMAIN Offers : i \in Items /\ Offers[i] \in Seq(Kinds) \ {<<>>}
  /\ Threshold \in Nat \ {0} /\ MaxTroubles \in Nat

VARIABLES
  files,    \* the leaves of this library
  side,     \* the sidecar pictures beside each leaf's file
  rows,     \* Artwork rows of each item: pairs of kind and source
  frame,    \* the score of an item's GENERATED backdrop row
  job,      \* the artwork job of each leaf
  fetch,    \* the provider match being stored for an item
  fails,    \* JobFailure.attempts of the artwork queue
  flagged,  \* items in state NEEDS_ATTENTION
  heavy,    \* the heavy scan that clears the failures
  spent,    \* troubles so far
  failed   \* history: failed decodes since the leaf's last success

vars == <<files, side, rows, frame, job, fetch, fails, flagged, heavy, spent,
          failed>>
poison == <<fails, flagged, failed>>

Rank(source) == CASE source = "LOCAL_SIDECAR" -> 0 [] source = "EMBEDDED" -> 2
                  [] source = "PROVIDER" -> 3 [] source = "GENERATED" -> 4
Sources == {"LOCAL_SIDECAR", "EMBEDDED", "PROVIDER", "GENERATED"}

Idle == [pc |-> "none", list |-> <<>>, lend |-> FALSE, up |-> None,
         saw |-> {}, shot |-> 0, beat |-> 0, best |-> 0, tries |-> 0]
Nothing == [pc |-> "none", list |-> <<>>]

Init ==
  /\ files \in Libraries
  /\ side = [l \in Leaves |-> {}]
  /\ rows = [i \in Items |-> {}]
  /\ frame = [i \in Items |-> 0]
  /\ job = [l \in Leaves |-> Idle]
  /\ fetch = [i \in DOMAIN Offers |-> Nothing]
  /\ fails = [l \in Leaves |-> 0]
  /\ flagged = {}
  /\ heavy = "idle"
  /\ spent = 0
  /\ failed = [l \in Leaves |-> 0]

Trouble == spent < MaxTroubles /\ spent' = spent + 1

-----------------------------------------------------------------------------
(* upsertArtworkDescriptor.  A failed upsert skips the cleanup. *)
Put(i, kind, source) == rows' = [rows EXCEPT ![i] = @ \cup {<<kind, source>>}]

Worse(i, kind, source) ==
  {r \in rows[i] : r[1] = kind /\ Rank(r[2]) > Rank(source)}

(* Mutant: the priority-blind cleanup of earlier versions. *)
Others(i, kind, source) == {r \in rows[i] : r[1] = kind /\ r[2] # source}

CleanUpBlind(i, kind, source) ==
  rows' = [rows EXCEPT ![i] = @ \ Others(i, kind, source)]

CleanUp(i, kind, source) ==
  rows' = [rows EXCEPT ![i] = @ \ Worse(i, kind, source)]

-----------------------------------------------------------------------------
(* enqueueArtwork and the callers that lead to it.  The job id is the      *)
(* item's, so a queued or running job makes the add a no-op.               *)
Provided(l, kind) ==
  \E r \in rows[l] : r[1] = kind /\ Rank(r[2]) <= Rank("PROVIDER")

Covered(l) == \A kind \in Kinds : Provided(l, kind)

Enqueue(l) ==
  job' = [job EXCEPT ![l] = IF ~Covered(l) /\ @.pc = "none"
                            THEN [@ EXCEPT !.pc = "queued"] ELSE @]

(* A new file, in a light scan or a heavy one. *)
Scan(l) ==
  /\ l \in files /\ job[l].pc = "none" /\ rows[l] = {}
  /\ Enqueue(l)
  /\ UNCHANGED <<files, side, rows, frame, fetch, poison, heavy, spent>>

(* The boot reconciler's artwork leg. *)
Reconcile(l) ==
  /\ l \in files /\ job[l].pc = "none"
  /\ l \notin flagged /\ fails[l] < Threshold
  /\ ~ \E r \in rows[l] : r[1] = "POSTER"
  /\ Enqueue(l)
  /\ UNCHANGED <<files, side, rows, frame, fetch, poison, heavy, spent>>

(* A heavy scan asks for everything, and once it has walked the library it *)
(* clears the failures and then the flags.                                 *)
HeavyScan ==
  /\ heavy = "idle" /\ Trouble
  /\ heavy' = "walked"
  /\ job' = [l \in Leaves |-> IF l \in files /\ ~Covered(l) /\ job[l].pc = "none"
                              THEN [Idle EXCEPT !.pc = "queued"] ELSE job[l]]
  /\ UNCHANGED <<files, side, rows, frame, fetch, poison>>

Forget ==
  /\ heavy = "walked"
  /\ heavy' = "forgot"
  /\ fails' = [l \in Leaves |-> 0]
  /\ UNCHANGED <<files, side, rows, frame, job, fetch, flagged, spent, failed>>

Unflag ==
  /\ heavy = "forgot"
  /\ heavy' = "idle"
  /\ flagged' = {}
  /\ UNCHANGED <<files, side, rows, frame, job, fetch, fails, spent, failed>>

AddSidecar(l, kind) ==
  /\ l \in files /\ kind \notin side[l]
  /\ side' = [side EXCEPT ![l] = @ \cup {kind}]
  /\ UNCHANGED <<files, rows, frame, job, fetch, poison, heavy, spent>>

-----------------------------------------------------------------------------
(* processArtwork.  What it will store is settled before the first row is  *)
(* written.                                                                *)
Of(kind, kinds, source) == IF kind \in kinds THEN <<<<kind, source>>>> ELSE <<>>

Sidecars(l) == Of("POSTER", side[l], "LOCAL_SIDECAR")
                 \o Of("BACKDROP", side[l], "LOCAL_SIDECAR")

Covering(l) == IF l \in Covers THEN {"POSTER"} \ side[l] ELSE {}

Embedded(l) == Of("POSTER", Covering(l), "EMBEDDED")

Missing(l) == Kinds \ (side[l] \cup Covering(l))

Generated(l) == Of("BACKDROP", Missing(l), "GENERATED")
                  \o Of("POSTER", Missing(l), "GENERATED")

(* selectBestFrame: the frames that decode are scored, and the dark, flat  *)
(* and blurred ones only count when there is no other.                     *)
Rejected(f) == f.range < 1 \/ f.soft
FrameScore(f) == f.colour + f.range

Pool(got) == IF \E f \in got : ~Rejected(f) THEN {f \in got : ~Rejected(f)}
             ELSE got

BestFrame(got) == IF got = {} THEN 0 ELSE Max({FrameScore(f) : f \in Pool(got)})

(* The backdrop is the frame itself, the poster a composition of it. *)
Drawn(l, got) == IF got = {} THEN <<>> ELSE Generated(l)

At(l, pc) == job[l].pc = pc
Enter(l, j) == job' = [job EXCEPT ![l] = j]
Rest == UNCHANGED <<files, side, fetch, heavy>>

(* Poster and backdrop are provider-grade: only sidecars are looked for. *)
Recheck(l) ==
  /\ At(l, "queued") /\ Covered(l)
  /\ Enter(l, [job[l] EXCEPT !.pc = "put", !.list = Sidecars(l),
                             !.lend = FALSE])
  /\ UNCHANGED <<rows, frame, poison, spent>> /\ Rest

(* A pass that fails is quiet: no crop, or one candidate less. *)
Extracted(l) == SUBSET Shots[l]

(* resolveArtwork: a frame, or none when no candidate decodes. *)
Resolve(l) ==
  /\ At(l, "queued") /\ ~Covered(l)
  /\ \E got \in IF Missing(l) = {} THEN {{}} ELSE Extracted(l) :
       /\ IF Missing(l) = {} \/ got = Shots[l] THEN UNCHANGED spent ELSE Trouble
       /\ Enter(l, [job[l] EXCEPT !.pc = "put", !.lend = TRUE,
                      !.shot = BestFrame(got),
                      !.list = Sidecars(l) \o Embedded(l) \o Drawn(l, got)])
  /\ UNCHANGED <<rows, frame, poison>> /\ Rest

PutNext(l) ==
  /\ At(l, "put") /\ job[l].list # <<>>
  /\ LET a == Head(job[l].list) IN
       /\ Put(l, a[1], a[2])
       /\ frame' = [frame EXCEPT ![l] = IF a = <<"BACKDROP", "GENERATED">>
                                        THEN job[l].shot ELSE @]
       /\ Enter(l, [job[l] EXCEPT !.pc = "clean"])
  /\ UNCHANGED <<poison, spent>> /\ Rest

AfterPut(l) ==
  LET j == job[l]
      a == Head(j.list)
  IN  [j EXCEPT !.pc = "put", !.list = Tail(@),
                !.up = IF j.lend /\ a[1] = "BACKDROP" THEN Parent[l] ELSE @,
                !.best = IF a[2] = "GENERATED" THEN j.shot ELSE 0]

(* The upsert is rejected: the old pictures stay as they are. *)
PutFails(l) ==
  /\ At(l, "put") /\ job[l].list # <<>> /\ Trouble
  /\ Enter(l, AfterPut(l))
  /\ UNCHANGED <<rows, frame, poison>> /\ Rest

CleanNext(l) ==
  /\ At(l, "clean")
  /\ LET a == Head(job[l].list) IN CleanUp(l, a[1], a[2])
  /\ Enter(l, AfterPut(l))
  /\ UNCHANGED <<frame, poison, spent>> /\ Rest

-----------------------------------------------------------------------------
(* lendBackdropToAncestors: read the ancestor's backdrops, then write. *)
Backdrops(i) == {r[2] : r \in {q \in rows[i] : q[1] = "BACKDROP"}}

LookUp(l) ==
  /\ At(l, "put") /\ job[l].list = <<>> /\ job[l].up # None
  /\ LET i == job[l].up IN
       Enter(l, [job[l] EXCEPT !.pc = "lend", !.saw = Backdrops(i),
                               !.beat = frame[i]])
  /\ UNCHANGED <<rows, frame, poison, spent>> /\ Rest

Creates(l) == job[l].saw = {}
Updates(l) == job[l].saw = {"GENERATED"} /\ job[l].best > job[l].beat

(* The create is dropped when a sibling came first. *)
Held(l) == <<"BACKDROP", "GENERATED">> \in rows[job[l].up]

Lend(l) ==
  /\ At(l, "lend") /\ (Updates(l) => Held(l))
  /\ LET i == job[l].up IN
       /\ IF Updates(l) \/ (Creates(l) /\ ~Held(l))
          THEN /\ Put(i, "BACKDROP", "GENERATED")
               /\ frame' = [frame EXCEPT ![i] = job[l].best]
          ELSE UNCHANGED <<rows, frame>>
       /\ Enter(l, [job[l] EXCEPT !.pc = "put", !.up = Parent[i], !.saw = {},
                                  !.beat = 0])
  /\ UNCHANGED <<poison, spent>> /\ Rest

-----------------------------------------------------------------------------
(* The job's end.  A success forgets the failures of earlier attempts. *)
(* Mutant: they count on. *)
KeepFails(l) == fails

ClearFails(l) == [fails EXCEPT ![l] = 0]

Succeed(l) ==
  /\ At(l, "put") /\ job[l].list = <<>> /\ job[l].up = None
  /\ fails' = ClearFails(l)
  /\ failed' = [failed EXCEPT ![l] = 0]
  /\ Enter(l, Idle)
  /\ UNCHANGED <<rows, frame, flagged, spent>> /\ Rest

Again(l) ==
  IF job[l].tries + 1 < Threshold
  THEN [Idle EXCEPT !.pc = "queued", !.tries = job[l].tries + 1] ELSE Idle

(* Mutant: a killed decode counts like a broken file. *)
CountAll(l) == fails[l] + 1

CountTransient(l) == fails[l]

(* A timeout, an OOM kill, a full disk: retried, never counted. *)
Transient(l) ==
  /\ At(l, "queued") /\ ~Covered(l) /\ Trouble
  /\ LET n == CountTransient(l) IN
       /\ fails' = [fails EXCEPT ![l] = n]
       /\ flagged' = IF n >= Threshold THEN flagged \cup {l} ELSE flagged
  /\ Enter(l, Again(l))
  /\ UNCHANGED <<rows, frame, failed>> /\ Rest

(* The poster cannot be composed, and nothing has been written yet; or the *)
(* ancestor's row went while its update was on the way, and the update     *)
(* throws.                                                                 *)
Broken(l) ==
  \/ At(l, "queued") /\ ~Covered(l) /\ Generated(l) # <<>> /\ Trouble
  \/ At(l, "lend") /\ Updates(l) /\ ~Held(l) /\ UNCHANGED spent

Fail(l) ==
  /\ Broken(l)
  /\ fails' = [fails EXCEPT ![l] = @ + 1]
  /\ failed' = [failed EXCEPT ![l] = @ + 1]
  /\ Enter(l, IF fails[l] + 1 >= Threshold
              THEN [job[l] EXCEPT !.pc = "flag"] ELSE Again(l))
  /\ UNCHANGED <<rows, frame, flagged>> /\ Rest

Flag(l) ==
  /\ At(l, "flag")
  /\ flagged' = flagged \cup {l}
  /\ Enter(l, Idle)
  /\ UNCHANGED <<rows, frame, fails, spent, failed>> /\ Rest

-----------------------------------------------------------------------------
(* fetchAndStoreProviderArtwork, one picture after the other. *)
FetchRest == UNCHANGED <<files, side, job, poison, heavy>>

Kept == files \cup {Parent[l] : l \in files}

Match(i) ==
  /\ i \in Kept
  /\ fetch[i].pc = "none"
  /\ fetch' = [fetch EXCEPT ![i] = [pc |-> "put", list |-> Offers[i]]]
  /\ UNCHANGED <<rows, frame, spent>> /\ FetchRest

Next1(f) == IF Len(f.list) = 1 THEN Nothing
            ELSE [pc |-> "put", list |-> Tail(f.list)]

FetchPut(i) ==
  /\ fetch[i].pc = "put"
  /\ Put(i, Head(fetch[i].list), "PROVIDER")
  /\ fetch' = [fetch EXCEPT ![i].pc = "clean"]
  /\ UNCHANGED <<frame, spent>> /\ FetchRest

(* A dead link, or a rejected upsert: on to the next picture. *)
FetchFails(i) ==
  /\ fetch[i].pc = "put" /\ Trouble
  /\ fetch' = [fetch EXCEPT ![i] = Next1(@)]
  /\ UNCHANGED <<rows, frame>> /\ FetchRest

FetchClean(i) ==
  /\ fetch[i].pc = "clean"
  /\ CleanUp(i, Head(fetch[i].list), "PROVIDER")
  /\ fetch' = [fetch EXCEPT ![i] = Next1(@)]
  /\ UNCHANGED <<frame, spent>> /\ FetchRest

-----------------------------------------------------------------------------
Next ==
  \/ \E l \in Leaves :
       \/ Scan(l) \/ Reconcile(l) \/ \E k \in Kinds : AddSidecar(l, k)
       \/ Recheck(l) \/ Resolve(l) \/ PutNext(l) \/ PutFails(l) \/ CleanNext(l)
       \/ LookUp(l) \/ Lend(l)
       \/ Succeed(l) \/ Transient(l) \/ Fail(l) \/ Flag(l)
  \/ HeavyScan \/ Forget \/ Unflag
  \/ \E i \in DOMAIN Offers :
       Match(i) \/ FetchPut(i) \/ FetchFails(i) \/ FetchClean(i)

Spec == Init /\ [][Next]_vars

-----------------------------------------------------------------------------
TypeOK ==
  /\ files \in Libraries
  /\ side \in [Leaves -> SUBSET Kinds]
  /\ rows \in [Items -> SUBSET (Kinds \X Sources)]
  /\ frame \in [Items -> Nat]
  /\ \A l \in Leaves : job[l].pc \in
       {"none", "queued", "put", "clean", "lend", "flag"}
  /\ fails \in [Leaves -> Nat]
  /\ flagged \subseteq Leaves
  /\ heavy \in {"idle", "walked", "forgot"}
  /\ spent \in 0..MaxTroubles

(* A picture only goes when a strictly better one of its kind stays: a     *)
(* generated frame that lands after the provider's art never evicts it,    *)
(* and a writer whose own upsert failed removes nothing.                   *)
ReplacedOnlyByBetter ==
  [][\A i \in Items : \A r \in rows[i] \ rows'[i] :
       \E b \in rows'[i] : b[1] = r[1] /\ Rank(b[2]) < Rank(r[2])]_vars

(* An item is parked for an administrator only by Threshold failures of    *)
(* its own with no success between them, whatever kills, timeouts and full *)
(* disks the other attempts met.                                           *)
PoisonIsEarned ==
  [][\A l \in flagged' \ flagged : failed[l] >= Threshold]_vars
=============================================================================
