---------------------------- MODULE ProviderMatch ----------------------------
(* One media item and the chain of metadata providers that may identify it.   *)
(* packages/scanner/src/metadata.ts (resolveMetadataStep and what it calls),   *)
(* evidence.ts, the metadata queues of apps/worker/src/index.ts, the manual    *)
(* "fix match" routes of apps/api/src/metadata-routes.ts.                      *)
(*                                                                             *)
(* A job asks one provider: a title search for an unknown item, the held id    *)
(* for a known one.  A miss or an error hands the item to the next provider.   *)
(* The deterministic job id makes a second add of a queued job a no-op.  Time  *)
(* is two bits: a cache row is fresh or expired, and a resolution is younger   *)
(* or older than the 24 h back-off.                                            *)
EXTENDS Naturals, Sequences, FiniteSets

CONSTANTS Chain,      \* the providers in the order buildProviderChain gives
          Ids,        \* catalogue entries
          Gate,       \* Gate[p]: entries of p a title search returns and acceptMatch lets through
          Serves,     \* Serves[p]: entries p still serves by id
          Alternate,  \* Alternate[p]: the provider whose id rides along with p's match, or None
          Polls,      \* providers that answer an id lookup "not modified" (TVmaze)
          Down,       \* providers that never answer
          Threshold,  \* JOB_FAILURE_THRESHOLD
          MaxEdits,   \* bound: pins and unpins
          None

Providers == {Chain[i] : i \in 1..Len(Chain)}

(* What the constants must satisfy, whoever instantiates the module. *)
MatchAssumption ==
    /\ Len(Chain) >= 1 /\ None \notin Providers \cup Ids
    /\ Gate \in [Providers -> SUBSET Ids] /\ Serves \in [Providers -> SUBSET Ids]
    /\ \A p \in Providers : Gate[p] \subseteq Serves[p]
    /\ Alternate \in [Providers -> Providers \cup {None}]
    /\ Polls \subseteq Providers /\ Down \subseteq Providers
    /\ Threshold \in Nat \ {0} /\ MaxEdits \in Nat

VARIABLES ext,      \* ExternalId rows: the id held per provider
          news,     \* news[p]: evidence observed after ext[p].lastResolvedAt
          old,      \* old[p]: lastResolvedAt is past the back-off
          cache,    \* MetadataCache: [p][id] -> "none", "fresh", "expired"
          evid,     \* PROVIDER_MATCH evidence rows, per source
          backed,   \* local evidence corroborates the item
          named,    \* <<p, id>> whose titles the item carries
          poster,   \* the POSTER slot has rows and their bytes are on disk
          jobs,     \* the one job each provider's queue can hold for this item
          fails,    \* JobFailure.attempts per queue
          pin,      \* a pin request between its identity and its evidence
          edits,    \* history: pins and unpins so far
          pinned,   \* history: the id a user pinned per provider
          answers   \* history: matches p handed out since something changed (saturates at 3)

vars == <<ext, news, old, cache, evid, backed, named, poster, jobs, fails, pin,
          edits, pinned, answers>>
item == <<cache, backed, named, poster>>
user == <<pin, edits, pinned>>

Nobody == <<None, None>>
NoJob == [at |-> "none", held |-> None, cached |-> FALSE, id |-> None]
JobStates == {"none", "waiting", "search", "identity", "evidence", "fields"}
Idle(p) == jobs[p].at = "none"

TypeOK ==
    /\ ext \in [Providers -> Ids \cup {None}] /\ evid \in [Providers -> Ids \cup {None}]
    /\ news \in [Providers -> BOOLEAN] /\ old \in [Providers -> BOOLEAN]
    /\ cache \in [Providers -> [Ids -> {"none", "fresh", "expired"}]]
    /\ backed \in BOOLEAN /\ poster \in BOOLEAN
    /\ named \in (Providers \X Ids) \cup {Nobody}
    /\ jobs \in [Providers -> [at : JobStates, held : Ids \cup {None}, cached : BOOLEAN,
                               id : Ids \cup {None}]]
    /\ fails \in [Providers -> 0..Threshold]
    /\ pin \in (Providers \X Ids) \cup {Nobody}
    /\ edits \in 0..MaxEdits /\ pinned \in [Providers -> Ids \cup {None}]
    /\ answers \in [Providers -> 0..3]

Init ==
    /\ ext = [p \in Providers |-> None] /\ evid = [p \in Providers |-> None]
    /\ news = [p \in Providers |-> FALSE] /\ old = [p \in Providers |-> FALSE]
    /\ cache = [p \in Providers |-> [i \in Ids |-> "none"]]
    /\ backed \in BOOLEAN /\ poster = FALSE /\ named = Nobody
    /\ jobs = [p \in Providers |-> NoJob] /\ fails = [p \in Providers |-> 0]
    /\ pin = Nobody /\ edits = 0 /\ pinned = [p \in Providers |-> None]
    /\ answers = [p \in Providers |-> 0]

-----------------------------------------------------------------------------
(* Derived state.                                                             *)

\* computeConfidence is a noisy-or: local evidence and one match, or two
\* matches, clear SELF_HEALING_CONFIDENCE_THRESHOLD; one of either does not.
Low == LET matches == Cardinality({p \in Providers : evid[p] # None})
       IN  IF backed THEN matches = 0 ELSE matches <= 1

DueForSelfHealing(p) == news[p] \/ (Low /\ old[p])

\* queue.add with metadataJobId: a no-op while the job is queued or active.
Enqueued(js, p) == IF js[p].at = "none" THEN [js EXCEPT ![p].at = "waiting"] ELSE js

NextInChain(p) == LET i == CHOOSE k \in 1..Len(Chain) : Chain[k] = p
                  IN  IF i < Len(Chain) THEN Chain[i + 1] ELSE None

\* The job of p ends; an unmatched item goes to the next provider.
Ended(p, matched) ==
    LET js == [jobs EXCEPT ![p] = NoJob]
    IN  IF matched \/ NextInChain(p) = None THEN js ELSE Enqueued(js, NextInChain(p))

\* syncEvidenceAndConfidence(.., ["PROVIDER_MATCH"]): the caller's row stays as
\* it is when its value did not change, and every other match row is pruned.
ResetAlways(p, i) == TRUE
Changed(p, i) == evid[p] # i
SyncEvidence(p, i, rows) ==
    /\ evid' = [q \in Providers |-> IF q = p THEN i ELSE None]
    /\ news' = IF Changed(p, i) THEN [q \in Providers |-> rows[q] # None] ELSE news

-----------------------------------------------------------------------------
(* Who enqueues.                                                              *)

Poisoned == \E p \in Providers : fails[p] >= Threshold

\* reconcileMetadata, at boot and every half hour: items no chain provider
\* holds, and matched series with title-less episodes; always to chain[0].
Sweep ==
    /\ ~Poisoned
    /\ jobs' = Enqueued(jobs, Chain[1]) /\ jobs' # jobs
    /\ UNCHANGED <<ext, news, old, evid, fails, answers, item, user>>

\* The metadata side of a scan: a light scan forgets the failures of the
\* metadata queues, and chain[0] gets the item unless it holds an id there.
Scan ==
    /\ fails' = [p \in Providers |-> 0]
    /\ jobs' = IF ext[Chain[1]] = None THEN Enqueued(jobs, Chain[1]) ELSE jobs
    /\ <<fails, jobs>>' # <<fails, jobs>>
    /\ UNCHANGED <<ext, news, old, evid, answers, item, user>>

-----------------------------------------------------------------------------
(* resolveMetadataStep.                                                       *)

\* The reads before any network: a fresh row that is not due for a second
\* look, under an intact poster, ends the job at once.
FastPath(p) == /\ ext[p] # None /\ cache[p][ext[p]] = "fresh"
               /\ ~DueForSelfHealing(p) /\ poster
Take(p) ==
    /\ jobs[p].at = "waiting"
    /\ IF FastPath(p)
         THEN /\ fails' = [fails EXCEPT ![p] = 0]
              /\ jobs' = Ended(p, TRUE)
         ELSE /\ UNCHANGED fails
              /\ jobs' = [jobs EXCEPT ![p] =
                    [at |-> "search", held |-> ext[p], id |-> None,
                     cached |-> ext[p] # None /\ cache[p][ext[p]] # "none"]]
    /\ UNCHANGED <<ext, news, old, evid, answers, item, user>>

\* What a provider answers with that the resolver accepts: any gated entry of a
\* title search, or exactly the held entry of an id lookup, gated or not.
ByTitle(p, held) == Gate[p]
Accepted(p, held) == IF held = None THEN Gate[p] ELSE {held} \cap Serves[p]

Answers(p) ==
    /\ jobs[p].at = "search" /\ p \notin Down
    /\ \E i \in Accepted(p, jobs[p].held) :
          /\ jobs' = [jobs EXCEPT ![p].at = "identity", ![p].id = i]
          /\ answers' = [answers EXCEPT ![p] = IF poster /\ @ < 3 THEN @ + 1 ELSE @]
    /\ UNCHANGED <<ext, news, old, evid, fails, item, user>>

\* touchLastResolvedAt: the row may be gone by now, the update's catch.
Touched(p, held) == /\ news' = IF held = None THEN news ELSE [news EXCEPT ![p] = FALSE]
                    /\ old' = IF held = None THEN old ELSE [old EXCEPT ![p] = FALSE]

\* Nothing acceptable: the caller tries the next provider.
Misses(p) ==
    /\ jobs[p].at = "search" /\ p \notin Down
    /\ Accepted(p, jobs[p].held) = {}
    /\ Touched(p, jobs[p].held)
    /\ fails' = [fails EXCEPT ![p] = 0]
    /\ jobs' = Ended(p, FALSE)
    /\ UNCHANGED <<ext, evid, answers, item, user>>

\* A polled catalogue did not list the id as changed today.  Under a cache row
\* that renews the row; without one the empty answer is a miss.
NotModified(p) ==
    /\ jobs[p].at = "search" /\ p \in Polls \ Down /\ jobs[p].held # None
    /\ Touched(p, jobs[p].held)
    /\ cache' = IF jobs[p].cached THEN [cache EXCEPT ![p][jobs[p].held] = "fresh"] ELSE cache
    /\ fails' = [fails EXCEPT ![p] = 0]
    /\ jobs' = Ended(p, jobs[p].cached)
    /\ UNCHANGED <<ext, evid, answers, backed, named, poster, user>>

\* 429, 5xx, network: nothing is recorded, the chain moves on.
FailsForGood(p) ==
    /\ jobs[p].at = "search"
    /\ jobs' = [jobs EXCEPT ![p] = NoJob]
    /\ UNCHANGED <<ext, news, old, evid, fails, answers, item, user>>
FailsTransiently(p) ==
    /\ jobs[p].at = "search"
    /\ jobs' = Ended(p, FALSE)
    /\ UNCHANGED <<ext, news, old, evid, fails, answers, item, user>>

\* A definite error counts; at the threshold the chain stops there.
Rejects(p) ==
    /\ jobs[p].at = "search"
    /\ fails' = [fails EXCEPT ![p] = IF @ < Threshold THEN @ + 1 ELSE @]
    /\ jobs' = Ended(p, fails'[p] >= Threshold)
    /\ UNCHANGED <<ext, news, old, evid, answers, item, user>>

\* applyMatch, first the rows that say who the item is ...
Identify(p) ==
    /\ jobs[p].at = "identity"
    /\ LET i == jobs[p].id  q == Alternate[p]
       IN  ext' = [ext EXCEPT ![p] = i, ![IF q = None THEN p ELSE q] = i]
    /\ news' = [news EXCEPT ![p] = FALSE] /\ old' = [old EXCEPT ![p] = FALSE]
    /\ jobs' = [jobs EXCEPT ![p].at = "evidence"]
    /\ UNCHANGED <<evid, fails, answers, item, user>>

\* ... then the evidence in one transaction ...
AddProviderMatchEvidence(p) ==
    /\ jobs[p].at = "evidence"
    /\ SyncEvidence(p, jobs[p].id, ext)
    /\ jobs' = [jobs EXCEPT ![p].at = "fields"]
    /\ UNCHANGED <<ext, old, fails, answers, item, user>>

\* ... then titles, unset fields, artwork (each file may fail) and the cache.
ApplyFields(p) ==
    /\ jobs[p].at = "fields"
    /\ named' = <<p, jobs[p].id>>
    /\ poster' \in {poster, TRUE}
    /\ cache' = [cache EXCEPT ![p][jobs[p].id] = "fresh"]
    /\ fails' = [fails EXCEPT ![p] = 0]
    /\ jobs' = Ended(p, TRUE)
    /\ UNCHANGED <<ext, news, old, evid, answers, backed, user>>

-----------------------------------------------------------------------------
(* The manual fix, the clock and the disk.                                    *)

Forget == answers' = [p \in Providers |-> 0]

\* POST metadata-match: the identity first (an existing row is re-stamped, a
\* new one is stamped by its default) ...
PinIdentity(p, i) ==
    /\ pin = Nobody /\ edits < MaxEdits
    /\ ext' = [ext EXCEPT ![p] = i]
    /\ news' = [news EXCEPT ![p] = FALSE] /\ old' = [old EXCEPT ![p] = FALSE]
    /\ pin' = <<p, i>> /\ edits' = edits + 1 /\ pinned' = [pinned EXCEPT ![p] = i]
    /\ Forget
    /\ UNCHANGED <<evid, fails, jobs, item>>

\* ... then the evidence and the resolve job; a failed add is only logged.
PinEvidence ==
    /\ pin # Nobody
    /\ SyncEvidence(pin[1], pin[2], ext)
    /\ jobs' \in {jobs, Enqueued(jobs, pin[1])}
    /\ pin' = Nobody /\ Forget
    /\ UNCHANGED <<ext, old, fails, edits, pinned, item>>

\* DELETE metadata-match: the row, its evidence, then the confidence.
Unpin(p) ==
    /\ pin = Nobody /\ edits < MaxEdits /\ ext[p] # None
    /\ ext' = [ext EXCEPT ![p] = None] /\ evid' = [evid EXCEPT ![p] = None]
    /\ edits' = edits + 1 /\ pinned' = [pinned EXCEPT ![p] = None]
    /\ Forget
    /\ UNCHANGED <<news, old, fails, jobs, pin, item>>

\* A day passes: every row with a TTL expires.
Tick ==
    /\ cache' = [p \in Providers |-> [i \in Ids |->
                    IF cache[p][i] = "fresh" THEN "expired" ELSE cache[p][i]]]
    /\ old' = [p \in Providers |-> TRUE]
    /\ Forget
    /\ UNCHANGED <<ext, news, evid, backed, named, poster, jobs, fails, user>>

\* Ingest records new local evidence (an NFO appeared, a file was renamed).
LocalEvidence ==
    /\ backed' \in BOOLEAN
    /\ news' = [p \in Providers |-> ext[p] # None]
    /\ Forget
    /\ UNCHANGED <<ext, old, cache, evid, named, poster, jobs, fails, user>>

LosePoster == /\ poster /\ poster' = FALSE /\ Forget
              /\ UNCHANGED <<ext, news, old, cache, evid, backed, named, jobs, fails, user>>

Step(p) == Take(p) \/ Misses(p) \/ Identify(p) \/ AddProviderMatchEvidence(p) \/ ApplyFields(p)
Fault(p) == NotModified(p) \/ FailsTransiently(p) \/ Rejects(p)
Work(p) == Step(p) \/ Answers(p) \/ Fault(p)

Next == \/ Sweep \/ Scan \/ PinEvidence \/ Tick \/ LocalEvidence \/ LosePoster
        \/ \E p \in Providers : Work(p) \/ Unpin(p)
                                \/ \E i \in Ids : PinIdentity(p, i)

\* The queues are worked, sweep and scan are intervals, a down provider's call
\* ends, and a provider that is up answers a question it keeps being asked.
Fairness ==
    /\ WF_vars(Sweep) /\ WF_vars(Scan) /\ WF_vars(PinEvidence)
    /\ \A p \in Providers : WF_vars(Work(p)) /\ SF_vars(Answers(p))

Spec == Init /\ [][Next]_vars /\ Fairness

-----------------------------------------------------------------------------
(* Properties.                                                                *)

\* A degraded provider does not keep an item from the healthy one behind it
\* (the comment at enqueueNextInChain): when some provider of the chain is up
\* and knows the item, the item holds an identity again and again.
Reached == (\E p \in Providers \ Down : Gate[p] # {}) => \E p \in Providers : ext[p] # None
FallbackIsReached == []<>Reached

\* "Fetch once": between two changes (a day, new local evidence, a pin, a lost
\* poster) a provider hands out an item's match at most twice; the second look
\* is the one its own evidence row, younger than lastResolvedAt, asks for.
AskedTwiceAtMost == \A p \in Providers : answers[p] <= 2

\* A held id is never re-contested: a job that asked about the id it held, a
\* pin included, writes exactly that id.
HeldIdIsKept == \A p \in Providers :
    jobs[p].at \in {"identity", "evidence", "fields"} /\ jobs[p].held # None
        => jobs[p].id = jobs[p].held

\* What the comment above the pin's enqueue says of a pin: "a failed enqueue
\* leaves the pin intact; the next scan wave or reconcile re-derives the job".
\* A pinned entry its provider serves is applied, or is no longer the pin.
PinTakesEffect == \A p \in Providers \ Down : \A i \in Serves[p] :
    (pinned[p] = i) ~> (named = <<p, i>> \/ pinned[p] # i)
=============================================================================
