----------------------------- MODULE SuiteWorker -----------------------------
(***************************************************************************)
(* One run for what keeps the library, each in a world of its own: offline *)
(* copies (Downloads), the match of an item (ProviderMatch), the titles of *)
(* episodes (EpisodeTitles) and the tree of shows (SeriesTree).  part says *)
(* which world this behaviour is of; the others never move.                *)
(***************************************************************************)
EXTENDS Downloads, Integers, Sequences

CONSTANTS  \* of ProviderMatch
  Chain, Entries, Gate, Serves, Alternate, Polls, Down, Threshold, MaxEdits, None,
  Locals, Primary, Cours, Maze, Linked, Late, DeadSets  \* and of EpisodeTitles

VARIABLES
  part,
  ext, news, old, cache, evid, backed, named, poster, jobs, fails, pin, edits,
  pinned, answers,
  dead, aired, stamped, titled, shown, run, epAsked, rested,
  onDisk, folders, rows, items, shows, seasons, ids, mains, films, cursor, asked,
  scan, leaf, prune, spent

(* A does not know the item and fails as it likes; B, which is polled, knows *)
(* it as x and could serve y to a pin.                                      *)
TwoProviders == <<"A", "B">>
OnlyBFinds   == [p \in {"A", "B"} |-> IF p = "A" THEN {} ELSE {"x"}]
OnlyBServes  == [p \in {"A", "B"} |-> IF p = "A" THEN {} ELSE {"x", "y"}]
NoRiders     == [p \in {"A", "B"} |-> None]

Match == INSTANCE ProviderMatch WITH Ids <- Entries

(* At most one provider of the chain knows any entry. *)
OneServes ==
  \A p, q \in Match!Providers : Serves[p] # {} /\ Serves[q] # {} => p = q

(* Entries a provider does not serve are alike: where it serves none, one is *)
(* pinned for all.                                                           *)
Pinnable(p) ==
  {i \in Entries : Serves[p] = {} => i = CHOOSE e \in Entries : TRUE}

(* Two seasons of two; the primary list counts the first from 11, the cour  *)
(* record lists the second, TVmaze splits differently, <<2, 2>> airs late.  *)
E(s, n, i) == [s |-> s, n |-> n, is |-> <<s, i>>]
FourEpisodes == {<<1, 1>>, <<1, 2>>, <<2, 1>>, <<2, 2>>}
FromEleven   == {E(1, 11, 1), E(1, 12, 2)}
SecondCour   == [s \in {2} |-> {E(2, 1, 1), E(2, 2, 2)}]
SplitElse    == {E(1, 1, 1), E(2, 3, 1), E(2, 4, 2)}
LastOne      == {<<2, 2>>}
NoneOrOne    == {{}, {"chain"}, {"cour"}, {"maze"}, {"primary"}}

Titles == INSTANCE EpisodeTitles WITH
  Runs <- {"r1", "r2"}, rows <- titled, asked <- epAsked

(* An episode and a movie of show A, whose folder may become B. *)
Dir(t, n) == <<t, n>>
Videos == {"e1", "m"}
Order   == <<Dir("A", "Movies"), Dir("A", "S1"), Dir("B", "Movies"), Dir("B", "S1")>>
SeasonName == [n \in {"A", "B", "Movies", "S1"} |-> IF n = "S1" THEN 1 ELSE -1]
Parse   == [f \in Videos |-> [episode |-> IF f = "e1" THEN 1 ELSE -1,
                              season |-> -1, year |-> FALSE]]
Minutes == [f \in Videos |-> IF f = "m" THEN 100 ELSE 24]
Start   == [f \in Videos |-> Dir("A", IF f = "m" THEN "Movies" ELSE "S1")]

Tree == INSTANCE SeriesTree WITH
  MovieNames <- {"Movies"}, Files <- Videos, Ids <- 1..5, MaxMoves <- 1,
  MaxCrashes <- 1, disk <- onDisk

(* Every world's constants are what its module asks for. *)
ASSUME WorkerWorlds == Match!MatchAssumption /\ Titles!TitlesAssumption

copyvars   == vars
matchvars  == <<ext, news, old, cache, evid, backed, named, poster, jobs, fails, pin,
                edits, pinned, answers>>
titlesvars == <<dead, aired, stamped, titled, shown, run, epAsked, rested>>
treevars   == <<onDisk, folders, rows, items, shows, seasons, ids, mains, films, cursor,
                asked, scan, leaf, prune, spent>>
allvars == <<part, copyvars, matchvars, titlesvars, treevars>>

(* A world that is not this behaviour's starts in one of its states only. *)
SuiteInit ==
  /\ part \in {"copy", "match", "titles", "tree"}
  /\ Init /\ Match!Init /\ Titles!Init /\ Tree!Init
  /\ part # "match" => ~backed
  /\ part # "titles" => dead = CHOOSE sources \in DeadSets : TRUE

CopyOnly   == UNCHANGED <<part, matchvars, titlesvars, treevars>>
MatchOnly  == UNCHANGED <<part, copyvars, titlesvars, treevars>>
TitlesOnly == UNCHANGED <<part, copyvars, matchvars, treevars>>
TreeOnly   == UNCHANGED <<part, copyvars, matchvars, titlesvars>>

SuiteNext ==
  \/ \E d \in Downloads :
       \/ part = "copy" /\ Create(d) /\ CopyOnly
       \/ part = "copy" /\ DropJob(d) /\ CopyOnly
       \/ part = "copy" /\ Enqueue(d) /\ CopyOnly
       \/ part = "copy" /\ EnqueueFails(d) /\ CopyOnly
       \/ part = "copy" /\ DeleteRow(d) /\ CopyOnly
       \/ part = "copy" /\ RemoveFinal(d) /\ CopyOnly
       \/ part = "copy" /\ RemoveTmp(d) /\ CopyOnly
       \/ part = "copy" /\ Take(d) /\ CopyOnly
       \/ part = "copy" /\ Prepare(d) /\ CopyOnly
       \/ part = "copy" /\ Mark(d) /\ CopyOnly
       \/ part = "copy" /\ Pack(d) /\ CopyOnly
       \/ part = "copy" /\ PackFails(d) /\ CopyOnly
       \/ part = "copy" /\ Check(d) /\ CopyOnly
       \/ part = "copy" /\ Swap(d) /\ CopyOnly
       \/ part = "copy" /\ Rename(d) /\ CopyOnly
       \/ part = "copy" /\ Ready(d) /\ CopyOnly
       \/ part = "copy" /\ Complete(d) /\ CopyOnly
       \/ part = "copy" /\ Fail(d) /\ CopyOnly
       \/ part = "copy" /\ FailRow(d) /\ CopyOnly
  \/ part = "copy" /\ Crash /\ CopyOnly
  \/ part = "match" /\ Match!Sweep /\ MatchOnly
  \/ part = "match" /\ Match!Scan /\ MatchOnly
  \/ part = "match" /\ Match!PinEvidence /\ MatchOnly
  \/ part = "match" /\ Match!Tick /\ MatchOnly
  \/ part = "match" /\ Match!LocalEvidence /\ MatchOnly
  \/ part = "match" /\ Match!LosePoster /\ MatchOnly
  \/ \E p \in Match!Providers :
       \/ part = "match" /\ Match!Take(p) /\ MatchOnly
       \/ part = "match" /\ Match!Misses(p) /\ MatchOnly
       \/ part = "match" /\ Match!Identify(p) /\ MatchOnly
       \/ part = "match" /\ Match!AddProviderMatchEvidence(p) /\ MatchOnly
       \/ part = "match" /\ Match!ApplyFields(p) /\ MatchOnly
       \/ part = "match" /\ Match!Answers(p) /\ MatchOnly
       \/ part = "match" /\ Match!NotModified(p) /\ MatchOnly
       \/ part = "match" /\ Match!FailsTransiently(p) /\ MatchOnly
       \/ part = "match" /\ Match!Rejects(p) /\ MatchOnly
       \/ part = "match" /\ Match!Unpin(p) /\ MatchOnly
       \/ \E i \in Pinnable(p) :
            part = "match" /\ Match!PinIdentity(p, i) /\ MatchOnly
  \/ part = "titles" /\ Titles!Tick /\ TitlesOnly
  \/ part = "titles" /\ Titles!Air /\ TitlesOnly
  \/ \E r \in {"r1", "r2"} :
       \/ part = "titles" /\ Titles!Begin(r) /\ TitlesOnly
       \/ part = "titles" /\ Titles!UsePrimary(r) /\ TitlesOnly
       \/ part = "titles" /\ Titles!AskPrimary(r) /\ TitlesOnly
       \/ part = "titles" /\ Titles!Merge(r) /\ TitlesOnly
       \/ part = "titles" /\ Titles!Walk(r) /\ TitlesOnly
       \/ part = "titles" /\ Titles!WalkCours(r) /\ TitlesOnly
       \/ part = "titles" /\ Titles!Backfill(r) /\ TitlesOnly
       \/ part = "titles" /\ Titles!Write(r) /\ TitlesOnly
  \/ \E t, u \in {"A", "B"} : part = "tree" /\ Tree!RenameShow(t, u) /\ TreeOnly
  \/ \E f \in Videos : \/ \E t \in {"A", "B"}, n \in {"Movies", "S1"} :
                            part = "tree" /\ Tree!MoveFile(f, Dir(t, n)) /\ TreeOnly
                       \/ part = "tree" /\ Tree!Remove(f) /\ TreeOnly
                       \/ part = "tree" /\ Tree!Look(f) /\ TreeOnly
                       \/ part = "tree" /\ Tree!Create(f) /\ TreeOnly
                       \/ part = "tree" /\ Tree!Store(f) /\ TreeOnly
                       \/ part = "tree" /\ Tree!ReadIdentity(f) /\ TreeOnly
                       \/ part = "tree" /\ Tree!CopyIdentity(f) /\ TreeOnly
                       \/ part = "tree" /\ Tree!Relink(f) /\ TreeOnly
                       \/ part = "tree" /\ Tree!Unlink(f) /\ TreeOnly
  \/ \E t \in {"A", "B", "loose"} :
       \/ part = "tree" /\ Tree!Pin(t) /\ TreeOnly
       \/ part = "tree" /\ Tree!DeleteShow(t) /\ TreeOnly
       \/ part = "tree" /\ Tree!Resolve(t) /\ TreeOnly
  \/ \E a \in {"scan", "admin"} : \/ part = "tree" /\ Tree!PruneFiles(a) /\ TreeOnly
                                  \/ part = "tree" /\ Tree!PruneRows(a) /\ TreeOnly
                                  \/ part = "tree" /\ Tree!PruneItems(a) /\ TreeOnly
                                  \/ part = "tree" /\ Tree!PruneSeasons(a) /\ TreeOnly
                                  \/ part = "tree" /\ Tree!PruneShows(a) /\ TreeOnly
  \/ part = "tree" /\ Tree!Begin /\ TreeOnly
  \/ part = "tree" /\ Tree!OpenDir /\ TreeOnly
  \/ part = "tree" /\ Tree!CloseDir /\ TreeOnly
  \/ part = "tree" /\ Tree!Finish /\ TreeOnly
  \/ part = "tree" /\ Tree!Failed /\ TreeOnly
  \/ part = "tree" /\ Tree!Crash /\ TreeOnly

(* The fairness of each module, in its own world. *)
SuiteSpec ==
  /\ SuiteInit /\ [][SuiteNext]_allvars
  /\ \A d \in Downloads : /\ WF_copyvars(part = "copy" /\ Api(d))
                          /\ WF_copyvars(part = "copy" /\ Work(d))
  /\ WF_matchvars(part = "match" /\ Match!Sweep)
  /\ WF_matchvars(part = "match" /\ Match!Scan)
  /\ WF_matchvars(part = "match" /\ Match!PinEvidence)
  /\ \A p \in Match!Providers :
       /\ WF_matchvars(part = "match" /\ Match!Work(p))
       /\ SF_matchvars(part = "match" /\ Match!Answers(p))
  /\ \A r \in {"r1", "r2"} : WF_titlesvars(part = "titles" /\ Titles!Step(r))
  /\ WF_titlesvars(part = "titles" /\ Titles!Air)
  /\ WF_titlesvars(part = "titles" /\ Titles!Tick)
  /\ WF_treevars(part = "tree" /\ Tree!ScanStep)
  /\ \A f \in Videos : WF_treevars(part = "tree" /\ Tree!LeafStep(f))
  /\ \A a \in {"scan", "admin"} : WF_treevars(part = "tree" /\ Tree!PruneStep(a))

-----------------------------------------------------------------------------
(* An id once held is never contested again, and where one provider serves  *)
(* the item, it is asked between two changes at most twice for its match    *)
(* (resolveMetadataStep in scanner/metadata.ts).  Two may take turns: each  *)
(* match prunes the other's evidence, which asks for a second look.         *)
MatchesAreSteady ==
  Match!TypeOK /\ Match!HeldIdIsKept /\ (OneServes => Match!AskedTwiceAtMost)

(* fillMissingEpisodeTitles leaves a source that throws alone for the      *)
(* back-off, and no episode ever carries the title of another, whichever   *)
(* lists are merged, where each by itself would give none.                 *)
TitlesAreTheirOwn ==
  /\ Titles!TypeOK /\ Titles!DeadSourceIsLeftAlone
  /\ Titles!SourcesAreRight => Titles!TitlesAreTheirOwn

(* Every download asked for ends, a provider that fails does not keep an    *)
(* item from the one behind it, and every title the primary list has        *)
(* arrives.                                                                 *)
WorkIsDone ==
  /\ DownloadsSettle
  /\ []<>(part = "match" => Match!Reached)
  /\ []<>(part = "titles" => Titles!PrimaryShown)

(* Whatever people rename, move or delete, and whichever scans crash, the  *)
(* tree comes to agree with the folders (ingest.ts, prune.ts).             *)
TreeSettles == []Tree!TypeOK /\ <>[](part = "tree" => Tree!Settled)
=============================================================================
