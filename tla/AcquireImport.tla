--------------------------- MODULE AcquireImport ---------------------------
(***************************************************************************)
(* The worker's side of external acquisition                               *)
(* (apps/worker/src/acquire-import.ts, packages/providers): a job fetches  *)
(* one file from a provider and files it under the show it belongs to, as  *)
(* far as the names it carries, the rows and the folders on disk can tell. *)
(* Every name here means the same show; names differ by what they contain. *)
(***************************************************************************)
EXTENDS Naturals, Sequences, FiniteSets, SequencesExt

CONSTANTS
  Jobs,        \* import jobs
  Names,       \* spellings of the show
  Files,       \* file names in a folder
  Within,      \* <<a, b>>: a normalised equals b or is contained in it
  SeriesLike,  \* the names that can name a show at all ("01" cannot)
  Canon,       \* what the metadata provider calls the show
  Alias,       \* the original title a provider match stores
  Asks,        \* what the jobs ask for: set of [Jobs -> Requests]
  MaxCrashes   \* bound: worker crashes

NoName == "none"

(* A text that names a show: the show, a season, an episode marker, each if *)
(* it is there.  A season alone, which reads as a title, is left out, and   *)
(* so is release junk, which is stripped before anything is read.           *)
Subs   == {"flat", "specials", "one", "two"}
Texts  == {x \in [show : Names \cup {NoName}, season : Subs, mark : Names \cup {NoName}] :
             IF x.show = NoName THEN x.season = "flat" /\ x.mark # NoName ELSE TRUE}
NoText == [show |-> NoName, season |-> "flat", mark |-> NoName]

(* The title picked, the query typed, what the provider calls the item, and *)
(* the file it sends.                                                       *)
Requests == [title : Texts \cup {NoText}, query : Texts, item : Texts \cup {NoText}, file : Files]

(* What the constants must satisfy, whoever instantiates the module. *)
AcquireImportAssumption ==
  /\ Within \subseteq Names \X Names /\ \A n \in SeriesLike : <<n, n>> \in Within
  /\ SeriesLike \subseteq Names /\ {Canon, Alias} \subseteq SeriesLike
  /\ Asks \subseteq [Jobs -> Requests]
  /\ MaxCrashes \in Nat /\ NoName \notin Jobs \cup Names

NoRow == [title |-> NoName, alias |-> NoName]
Concurrency == 2   \* of the import worker

VARIABLES
  ask,        \* the request of each job
  pc, name, dir, hit,   \* each job: where it is, title, folder and row it goes by
  stage,      \* each job's staging directory: none, empty, part or whole
  rows,       \* the library's series: [title, alias]; alias NoName until matched
  known,      \* episodes the rows hold: <<folder, season, file>> scanned in
  folders,    \* series folders on disk
  lib,        \* which job's bytes stand at <<folder, season, file>>
  scanDue,    \* a scan of the library is queued
  maker,      \* history: the job that made each folder, none for one that was there
  crashes, met, lost   \* history: crashes, jobs that ran at once, overwritten files

vars == <<ask, pc, name, dir, hit, stage, rows, known, folders, maker, lib, scanDue, crashes, met, lost>>

Settled == {"done", "failed", "refused"}
Running == {j \in Jobs : pc[j] \notin Settled \cup {"asked", "wait"}}

Init ==
  /\ ask \in Asks
  /\ pc = [j \in Jobs |-> "asked"]
  /\ name = [j \in Jobs |-> NoName] /\ dir = [j \in Jobs |-> NoName] /\ hit = [j \in Jobs |-> NoRow]
  /\ stage = [j \in Jobs |-> "none"]
  /\ rows \in {{}} \cup {{[title |-> n, alias |-> NoName]} : n \in Names \ SeriesLike}
  /\ folders = {r.title : r \in rows} /\ known = {}
  /\ maker = [n \in Names |-> NoName]
  /\ lib = [d \in Names \X Subs \X Files |-> NoName]
  /\ scanDue = FALSE /\ crashes = 0 /\ met = {} /\ lost = {}

\* parseAnicliQuery: the episode marker goes, then the season, each only if
\* something is left before it.
Parse(x) == IF x.show = NoName THEN [title |-> x.mark, sub |-> "flat"]
            ELSE [title |-> x.show, sub |-> x.season]

\* isSeriesLikeTitle: no bare number, episode word or scene code.
IsSeriesLike(n) == n \in SeriesLike

\* The names a job goes by, the user's before the provider's.
Item(j)  == IF ask[j].item = NoText THEN ask[j].query ELSE ask[j].item
Cands(j) == <<Parse(ask[j].title).title, Parse(ask[j].query).title, Parse(Item(j)).title>>

\* The season, the provider's before the user's.
Sub(j) == LET item == Parse(Item(j)).sub  title == Parse(ask[j].title).sub IN
  IF item # "flat" THEN item ELSE IF title # "flat" THEN title ELSE Parse(ask[j].query).sub

OneWay(a, b) == <<a, b>> \in Within

\* acceptMatch asked both ways: either may be the fuller title.
Alike(a, b) == <<a, b>> \in Within \/ <<b, a>> \in Within

\* findExistingSeries: rows whose title or original title is like n.
Existing(n) == {r \in rows : Alike(n, r.title) \/ (r.alias # NoName /\ Alike(n, r.alias))}

\* resolveSeriesDirOnDisk.
OnDisk(n) == {f \in folders : Alike(n, f)}

\* A title that can name a show is preferred to one that cannot.
Prefer(S) == LET good == {r \in S : IsSeriesLike(r.title)} IN IF good # {} THEN good ELSE S

\* The first of a job's names that can name a show.
Naming(j) == {i \in 1..3 : IsSeriesLike(Cands(j)[i])}
FirstName(j) == Cands(j)[CHOOSE i \in Naming(j) : \A k \in Naming(j) : i <= k]

\* findSeriesByExternalIds: rows a provider match gave an identity.
Identified == {r \in rows : r.alias # NoName}

\* resolveQueryExternalIds never throws: no answer, no budget, no match all
\* leave what the strings found.
Resolved(S) == {S, S \cup Identified}

\* findLibraryMatch: what a lookup of these names picks from; the identity is
\* only asked for when they found nothing that can name a show.
LibraryMatches(S) ==
  LET found == UNION {Existing(n) : n \in S}
  IN  IF \E r \in found : IsSeriesLike(r.title) THEN {found} ELSE Resolved(found)

\* checkSeasonDedup: the episode is among the rows of the show's season; no
\* season means the first, and specials always clear.
SeasonOf(sub) == IF sub = "flat" THEN "one" ELSE sub
OnServer(r, sub, f) ==
  /\ sub # "specials"
  /\ \E x \in known : x[1] = r.title /\ SeasonOf(x[2]) = SeasonOf(sub) /\ x[3] = f

----------------------------------------------------------------------------
(* The API *)

\* The route looks for the show as the import will, by the query and the
\* picked title, and refuses an episode the rows already hold in the query's
\* season; then the provider accepts and the job is queued.
Ask(j) ==
  LET query == Parse(ask[j].query)
      names == {query.title, Parse(ask[j].title).title} IN
  /\ pc[j] = "asked"
  /\ \E S \in LibraryMatches(names) :
       \/ S = {} /\ pc' = [pc EXCEPT ![j] = "wait"]
       \/ \E r \in Prefer(S) :
            pc' = [pc EXCEPT ![j] = IF OnServer(r, query.sub, ask[j].file) THEN "refused" ELSE "wait"]
  /\ UNCHANGED <<ask, name, dir, hit, stage, rows, known, folders, maker, lib, scanDue, crashes, met, lost>>

----------------------------------------------------------------------------
(* One job *)

Start(j) ==
  /\ pc[j] = "wait" /\ Cardinality(Running) < Concurrency
  /\ pc' = [pc EXCEPT ![j] = "match"]
  /\ name' = [name EXCEPT ![j] = NoName] /\ dir' = [dir EXCEPT ![j] = NoName]
  /\ hit' = [hit EXCEPT ![j] = NoRow]
  /\ met' = met \cup {{j, k} : k \in Running}
  /\ UNCHANGED <<ask, stage, rows, known, folders, maker, lib, scanDue, crashes, lost>>

\* String matching of every name the job carries; a failed read is no match.
Match(j) ==
  LET found == UNION {Existing(n) : n \in ToSet(Cands(j))} IN
  /\ pc[j] = "match"
  /\ \/ \E r \in Prefer(found) : hit' = [hit EXCEPT ![j] = r]
     \/ found = {} /\ UNCHANGED hit
  /\ pc' = [pc EXCEPT ![j] = "identify"]
  /\ UNCHANGED <<ask, name, dir, stage, rows, known, folders, maker, lib, scanDue, crashes, met, lost>>

\* Nothing, or only a junk row: the provider's identity graph, which may not
\* answer, finds any row that was matched.  Then the name, or a refusal.
Identify(j) ==
  LET weak == hit[j] = NoRow \/ ~IsSeriesLike(hit[j].title)
      mine == {hit[j]} \ {NoRow} IN
  /\ pc[j] = "identify"
  /\ \E h \in {hit[j]} \cup (IF weak THEN UNION {Prefer(S) : S \in Resolved(mine)} ELSE {}) :
       /\ hit' = [hit EXCEPT ![j] = h]
       /\ IF h = NoRow /\ Naming(j) = {}
          THEN pc' = [pc EXCEPT ![j] = "failed"] /\ UNCHANGED name
          ELSE /\ name' = [name EXCEPT ![j] = IF h = NoRow THEN FirstName(j) ELSE h.title]
               /\ pc' = [pc EXCEPT ![j] = "look"]
  /\ UNCHANGED <<ask, dir, stage, rows, known, folders, maker, lib, scanDue, crashes, met, lost>>

\* The folder the show already has.
Look(j) ==
  /\ pc[j] = "look"
  /\ \/ \E f \in OnDisk(name[j]) : dir' = [dir EXCEPT ![j] = f]
     \/ OnDisk(name[j]) = {} /\ UNCHANGED dir
  /\ pc' = [pc EXCEPT ![j] = IF dir'[j] = NoName /\ hit[j] = NoRow THEN "canon" ELSE "fetch"]
  /\ UNCHANGED <<ask, name, hit, stage, rows, known, folders, maker, lib, scanDue, crashes, met, lost>>

\* adoptCanonicalSeries: a new folder is named as metadata names the show, if
\* it answers; rows and folders are asked again under that name.
Adopt(j) ==
  /\ pc[j] = "canon"
  /\ \/ UNCHANGED <<name, dir>>
     \/ \E t \in IF Existing(Canon) = {} THEN {Canon} ELSE {r.title : r \in Existing(Canon)} :
          /\ name' = [name EXCEPT ![j] = t]
          /\ \/ \E f \in OnDisk(t) : dir' = [dir EXCEPT ![j] = f]
             \/ OnDisk(t) = {} /\ UNCHANGED dir
  /\ pc' = [pc EXCEPT ![j] = "fetch"]
  /\ UNCHANGED <<ask, hit, stage, rows, known, folders, maker, lib, scanDue, crashes, met, lost>>

\* The staging directory is emptied, then filled from the provider's stream;
\* a stall, an error and a short read all end in failure and a cleanup.
Stage(j) ==
  /\ pc[j] = "fetch" /\ stage[j] # "empty"
  /\ stage' = [stage EXCEPT ![j] = "empty"]
  /\ UNCHANGED <<ask, pc, name, dir, hit, rows, known, folders, maker, lib, scanDue, crashes, met, lost>>

FetchKeepingStage(j) ==
  /\ pc[j] = "fetch" /\ stage[j] = "empty"
  /\ \/ stage' = [stage EXCEPT ![j] = "whole"] /\ pc' = [pc EXCEPT ![j] = "mkdir"]
     \/ stage' = [stage EXCEPT ![j] = "part"] /\ pc' = [pc EXCEPT ![j] = "failed"]
  /\ UNCHANGED <<ask, name, dir, hit, rows, known, folders, maker, lib, scanDue, crashes, met, lost>>

Fetch(j) ==
  /\ pc[j] = "fetch" /\ stage[j] = "empty"
  /\ \/ stage' = [stage EXCEPT ![j] = "whole"] /\ pc' = [pc EXCEPT ![j] = "mkdir"]
     \/ stage' = [stage EXCEPT ![j] = "none"] /\ pc' = [pc EXCEPT ![j] = "failed"]
  /\ UNCHANGED <<ask, name, dir, hit, rows, known, folders, maker, lib, scanDue, crashes, met, lost>>

\* The folder the show has, or seasonTargetDir's; and the season's below it.
Target(j) == IF dir[j] # NoName THEN dir[j] ELSE name[j]
Dest(j)   == <<Target(j), Sub(j), ask[j].file>>

MakeDir(j) ==
  /\ pc[j] = "mkdir"
  /\ folders' = folders \cup {Target(j)}
  /\ maker' = IF Target(j) \in folders THEN maker ELSE [maker EXCEPT ![Target(j)] = j]
  /\ pc' = [pc EXCEPT ![j] = "check"]
  /\ UNCHANGED <<ask, name, dir, hit, stage, rows, known, lib, scanDue, crashes, met, lost>>

CheckNothing(j) ==
  /\ pc[j] = "check"
  /\ pc' = [pc EXCEPT ![j] = "move"]
  /\ UNCHANGED <<ask, name, dir, hit, stage, rows, known, folders, maker, lib, scanDue, crashes, met, lost>>

\* A file already there wins: the transfer is thrown away.
Check(j) ==
  /\ pc[j] = "check"
  /\ IF lib[Dest(j)] # NoName
     THEN pc' = [pc EXCEPT ![j] = "done"] /\ stage' = [stage EXCEPT ![j] = "none"]
     ELSE pc' = [pc EXCEPT ![j] = "move"] /\ UNCHANGED stage
  /\ UNCHANGED <<ask, name, dir, hit, rows, known, folders, maker, lib, scanDue, crashes, met, lost>>

\* The rename lands after the check, in another turn of the event loop.
Move(j) ==
  /\ pc[j] = "move"
  /\ lost' = IF lib[Dest(j)] = NoName THEN lost ELSE lost \cup {{j, lib[Dest(j)]}}
  /\ lib' = [lib EXCEPT ![Dest(j)] = j]
  /\ stage' = [stage EXCEPT ![j] = "empty"]
  /\ pc' = [pc EXCEPT ![j] = "settle"]
  /\ UNCHANGED <<ask, name, dir, hit, rows, known, folders, maker, scanDue, crashes, met>>

\* cleanup, then a scan is queued; a failed enqueue is swallowed.
Settle(j) ==
  /\ pc[j] = "settle"
  /\ stage' = [stage EXCEPT ![j] = "none"]
  /\ scanDue' \in {TRUE, scanDue}
  /\ pc' = [pc EXCEPT ![j] = "done"]
  /\ UNCHANGED <<ask, name, dir, hit, rows, known, folders, maker, lib, crashes, met, lost>>

----------------------------------------------------------------------------
(* Around the jobs *)

\* BullMQ gives a job whose worker died back to the next worker.
Crash ==
  /\ crashes < MaxCrashes /\ Running # {}
  /\ crashes' = crashes + 1
  /\ pc' = [j \in Jobs |-> IF j \in Running THEN "wait" ELSE pc[j]]
  /\ stage' = [j \in Jobs |-> IF pc[j] = "fetch" /\ stage[j] = "empty" THEN "part" ELSE stage[j]]
  /\ UNCHANGED <<ask, name, dir, hit, rows, known, folders, maker, lib, scanDue, met, lost>>

\* The scanner makes a series of every folder with a file in it.
Scan ==
  LET seen == {d[1] : d \in {x \in DOMAIN lib : lib[x] # NoName}}
      new  == {f \in seen : \A r \in rows : r.title # f} IN
  /\ scanDue
  /\ scanDue' = FALSE
  /\ rows' = rows \cup {[title |-> f, alias |-> NoName] : f \in new}
  /\ known' = {x \in DOMAIN lib : lib[x] # NoName}
  /\ UNCHANGED <<ask, pc, name, dir, hit, stage, folders, maker, lib, crashes, met, lost>>

\* A provider match stores the original title and the identity.
Enrich(r) ==
  /\ r \in rows /\ r.alias = NoName /\ r.title \in SeriesLike
  /\ rows' = (rows \ {r}) \cup {[r EXCEPT !.alias = Alias]}
  /\ UNCHANGED <<ask, pc, name, dir, hit, stage, known, folders, maker, lib, scanDue, crashes, met, lost>>

Step(j) == \/ Ask(j) \/ Start(j) \/ Match(j) \/ Identify(j) \/ Look(j) \/ Adopt(j) \/ Stage(j)
           \/ Fetch(j) \/ MakeDir(j) \/ Check(j) \/ Move(j) \/ Settle(j)

Next == Crash \/ Scan \/ (\E r \in rows : Enrich(r)) \/ \E j \in Jobs : Step(j)

Spec == Init /\ [][Next]_vars /\ \A j \in Jobs : WF_vars(Step(j))

----------------------------------------------------------------------------
(* Properties *)

TypeOK ==
  /\ \A j \in Jobs : /\ pc[j] \in Settled \cup {"asked", "wait", "match", "identify", "look", "canon", "fetch",
                                               "mkdir", "check", "move", "settle"}
                     /\ stage[j] \in {"none", "empty", "part", "whole"}
                     /\ {name[j], dir[j]} \subseteq Names \cup {NoName}
  /\ rows \subseteq [title : Names, alias : Names \cup {NoName}] /\ folders \subseteq Names
  /\ maker \in [Names -> Jobs \cup {NoName}]
  /\ lib \in [Names \X Subs \X Files -> Jobs \cup {NoName}]

\* "Never clobber existing library content": what stands in the library is
\* replaced only by an import that ran beside the one that put it there, and
\* a finished import leaves nothing in staging, nor does a failed one unless a
\* crash left it there (a refusal comes before the cleanup).
NothingClobbered ==
  /\ lost \subseteq met
  /\ \A j \in Jobs : /\ pc[j] = "done" => stage[j] = "none"
                     /\ (pc[j] = "failed" /\ crashes = 0) => stage[j] = "none"

\* One show, one folder: of two folders with like names none was there before,
\* and they were made by two imports that ran at once (each looked before the
\* other made its folder).
Like(a, b) == {<<a, b>>, <<b, a>>} \cap Within # {}
OneFolderPerShow ==
  \A a, b \in folders : a # b /\ Like(a, b) => {maker[a], maker[b]} \in met

\* Every import is answered.
ImportsSettle == \A j \in Jobs : []<>(pc[j] \in Settled)
=============================================================================
