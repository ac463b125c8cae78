---------------------------- MODULE SuiteAcquire ----------------------------
(***************************************************************************)
(* One run for what brings new episodes in, each in a world of its own:    *)
(* ani-cli's downloads (AnicliDownloads), the imports of providers' files  *)
(* (AcquireImport) and the providers themselves (AcquireProviders).  part  *)
(* says which world this behaviour is of; the others never move.           *)
(***************************************************************************)
EXTENDS AnicliDownloads, Integers, Sequences

CONSTANTS
  Imports, Names, Files, Within, SeriesLike, Canon, Alias, Asks,  \* of AcquireImport
  Ids, Tokens, MaxRegs, MaxClicks                                 \* of AcquireProviders

VARIABLES
  part,
  ask, at, name, dir, hit, stage, series, known, shelves, maker, lib, scanDue, restarts,
  met, lost,
  reg, gone, sweep, calls, imports, tabs, active, listed, lists, found, finds,
  cancels, regs, clicks

(* Two imports of one show: by its short name or its romaji one, and by its  *)
(* full name with an item that names nothing; of the first season or of the *)
(* second, which the provider's item does not tell.                         *)
Contained == {<<"short", "short">>, <<"full", "full">>, <<"short", "full">>,
              <<"romaji", "romaji">>}
Says(n, s) == [show |-> n, season |-> s, mark |-> "none"]
Nothing    == [show |-> "none", season |-> "flat", mark |-> "none"]
Numbered   == [Nothing EXCEPT !.mark = "junk"]
Asked(n, s) == [j \in Imports |->
  IF j = "j1" THEN [title |-> Nothing, query |-> Says(n, s), item |-> Nothing, file |-> "f"]
              ELSE [title |-> Says("full", s), query |-> Numbered, item |-> Numbered, file |-> "f"]]
TwoAsks   == {Asked("short", "flat"), Asked("romaji", "two")}

Import == INSTANCE AcquireImport WITH
  Jobs <- Imports, rows <- series, folders <- shelves, pc <- at, crashes <- restarts

Provider == INSTANCE AcquireProviders WITH dead <- gone, rows <- listed

(* Every world's constants are what its module asks for. *)
ASSUME AcquireWorlds ==
  Import!AcquireImportAssumption /\ Provider!AcquireProvidersAssumption

anicliVars   == vars
importVars   == <<ask, at, name, dir, hit, stage, series, known, shelves, maker, lib,
                  scanDue, restarts, met, lost>>
providerVars == <<reg, gone, sweep, calls, imports, tabs, active, listed, lists, found,
                  finds, cancels, regs, clicks>>
allVars == <<part, anicliVars, importVars, providerVars>>

(* A world that is not this behaviour's starts in one of its states only. *)
SuiteInit ==
  /\ part \in {"anicli", "import", "provider"}
  /\ Init /\ Import!Init /\ Provider!Init
  /\ part # "import" => series = {} /\ ask = CHOOSE a \in Asks : TRUE

AnicliOnly   == UNCHANGED <<part, importVars, providerVars>>
ImportOnly   == UNCHANGED <<part, anicliVars, providerVars>>
ProviderOnly == UNCHANGED <<part, anicliVars, importVars>>

SuiteNext ==
  \/ \E d \in Downloads :
       \/ \E q \in Titles : part = "anicli" /\ Gates(d, q) /\ AnicliOnly
       \/ part = "anicli" /\ Create(d) /\ AnicliOnly
       \/ part = "anicli" /\ Enqueue(d) /\ AnicliOnly
       \/ part = "anicli" /\ EnqueueFails(d) /\ AnicliOnly
       \/ part = "anicli" /\ DropJob(d) /\ AnicliOnly
       \/ part = "anicli" /\ DeleteWrite(d) /\ AnicliOnly
       \/ part = "anicli" /\ DeleteRead(d) /\ AnicliOnly
       \/ part = "anicli" /\ RecordPid(d) /\ AnicliOnly
       \/ part = "anicli" /\ OrphanExits(d) /\ AnicliOnly
       \/ part = "anicli" /\ Take(d) /\ AnicliOnly
       \/ part = "anicli" /\ Stage(d) /\ AnicliOnly
       \/ part = "anicli" /\ MarkDownloading(d) /\ AnicliOnly
       \/ part = "anicli" /\ Spawn(d) /\ AnicliOnly
       \/ part = "anicli" /\ ExitOk(d) /\ AnicliOnly
       \/ part = "anicli" /\ ExitBad(d) /\ AnicliOnly
       \/ part = "anicli" /\ MarkImporting(d) /\ AnicliOnly
       \/ part = "anicli" /\ Move(d) /\ AnicliOnly
       \/ part = "anicli" /\ MarkDone(d) /\ AnicliOnly
       \/ part = "anicli" /\ Catch(d) /\ AnicliOnly
       \/ part = "anicli" /\ FailRow(d) /\ AnicliOnly
       \/ part = "anicli" /\ Requeue(d) /\ AnicliOnly
       \/ part = "anicli" /\ KillOrphan(d) /\ AnicliOnly
       \/ part = "anicli" /\ FailCrashed(d) /\ AnicliOnly
  \/ part = "anicli" /\ Restart /\ AnicliOnly
  \/ part = "anicli" /\ Snapshot /\ AnicliOnly
  \/ part = "anicli" /\ Sweep /\ AnicliOnly
  \/ part = "anicli" /\ Crash /\ AnicliOnly
  \/ \E j \in Imports :
       \/ part = "import" /\ Import!Ask(j) /\ ImportOnly
       \/ part = "import" /\ Import!Start(j) /\ ImportOnly
       \/ part = "import" /\ Import!Match(j) /\ ImportOnly
       \/ part = "import" /\ Import!Identify(j) /\ ImportOnly
       \/ part = "import" /\ Import!Look(j) /\ ImportOnly
       \/ part = "import" /\ Import!Adopt(j) /\ ImportOnly
       \/ part = "import" /\ Import!Stage(j) /\ ImportOnly
       \/ part = "import" /\ Import!Fetch(j) /\ ImportOnly
       \/ part = "import" /\ Import!MakeDir(j) /\ ImportOnly
       \/ part = "import" /\ Import!Check(j) /\ ImportOnly
       \/ part = "import" /\ Import!Move(j) /\ ImportOnly
       \/ part = "import" /\ Import!Settle(j) /\ ImportOnly
  \/ part = "import" /\ Import!Crash /\ ImportOnly
  \/ part = "import" /\ Import!Scan /\ ImportOnly
  \/ \E r \in series : part = "import" /\ Import!Enrich(r) /\ ImportOnly
  \/ \E i \in Ids :
       \/ part = "provider" /\ Provider!Dies(i) /\ ProviderOnly
       \/ \E t \in Tokens \cup {Provider!NoTok} :
            \/ part = "provider" /\ Provider!Register(i, t) /\ ProviderOnly
            \/ part = "provider" /\ Provider!Deregister(i, t) /\ ProviderOnly
  \/ part = "provider" /\ Provider!SweepStarts /\ ProviderOnly
  \/ part = "provider" /\ Provider!SweepEnds /\ ProviderOnly
  \/ part = "provider" /\ Provider!Submit /\ ProviderOnly
  \/ part = "provider" /\ Provider!PollTabs /\ ProviderOnly
  \/ part = "provider" /\ Provider!FallBack /\ ProviderOnly
  \/ part = "provider" /\ Provider!Reload /\ ProviderOnly
  \/ part = "provider" /\ Provider!Cancel /\ ProviderOnly
  \/ part = "provider" /\ Provider!Search /\ ProviderOnly
  \/ \E c \in calls :
       \/ part = "provider" /\ Provider!Accepted(c) /\ ProviderOnly
       \/ part = "provider" /\ Provider!CallFails(c) /\ ProviderOnly
  \/ \E t \in Provider!Tabs :
       \/ part = "provider" /\ Provider!Switch(t) /\ ProviderOnly
       \/ part = "provider" /\ Provider!Listed(t) /\ ProviderOnly
       \/ part = "provider" /\ Provider!Found(t) /\ ProviderOnly

(* The fairness of each module, in its own world. *)
SuiteSpec ==
  /\ SuiteInit /\ [][SuiteNext]_allVars
  /\ \A d \in Downloads : /\ WF_anicliVars(part = "anicli" /\ Handler(d))
                          /\ WF_anicliVars(part = "anicli" /\ Work(d))
  /\ WF_anicliVars(part = "anicli" /\ Reconcile)
  /\ \A j \in Imports : WF_importVars(part = "import" /\ Import!Step(j))
  /\ WF_providerVars(part = "provider" /\ (Provider!SweepStarts \/ Provider!SweepEnds))
  /\ WF_providerVars(part = "provider" /\ (Provider!PollTabs \/ Provider!FallBack))

-----------------------------------------------------------------------------
(* An import clobbers nothing that stands in the library, and one show has *)
(* one folder unless two imports of it really ran at once.                 *)
ImportsAreSafe == Import!TypeOK /\ Import!NothingClobbered /\ Import!OneFolderPerShow

(* An answer about an older registration never ends the current one.       *)
EndsForItsOwnReasons == []Provider!TypeOK /\ Provider!EndsForItsOwnReasons

(* Every download and every import is answered in the end, and a dead      *)
(* provider leaves registry and page.                                      *)
AcquisitionsSettle ==
  /\ []TypeOK /\ DownloadsSettle
  /\ \A j \in Imports : []<>(part = "import" => at[j] \in Import!Settled)
  /\ Provider!DeadTabsGo
=============================================================================
