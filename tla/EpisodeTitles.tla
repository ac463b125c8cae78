---------------------------- MODULE EpisodeTitles ----------------------------
(* Episode-title enrichment of one series: enrichEpisodeTitles in               *)
(* packages/scanner/src/metadata.ts, with the episode lists of jikan.ts and     *)
(* tvmaze.ts.  A run reads the back-off stamp once, gets the primary list (from *)
(* cache or network), merges the cached lists of the other providers, walks the *)
(* sequel chain for seasons nobody covers, searches TVmaze for what is still    *)
(* missing, and writes one title per local episode: the exact number, else the  *)
(* same rank in its season.  Any fetch may throw, which ends the run without    *)
(* writing a title.  Several metadata jobs of one series may run at once.       *)
EXTENDS Integers, Sequences, FiniteSets, SequencesExt

CONSTANTS Runs,      \* metadata jobs of the series that run at the same time
          Locals,    \* local episodes <<season, number>>
          Primary,   \* entries [s, n, is] of the primary source's list, `is` the episode meant
          Cours,     \* Cours[s]: entries of the sequel record of season s
          Maze,      \* entries of the TVmaze record
          Linked,    \* the series holds a TVMAZE id, so a cached list of it is merged
          Late,      \* episodes that air during the run of the model
          DeadSets   \* which sources may be the ones that throw

Entry == [s : Nat, n : Nat, is : Nat \X Nat]
Seasons == {l[1] : l \in Locals}

(* What the constants must satisfy, whoever instantiates the module. *)
TitlesAssumption ==
    /\ Locals \subseteq Nat \X Nat /\ Late \subseteq Nat \X Nat
    /\ Primary \subseteq Entry /\ Maze \subseteq Entry
    /\ \A s \in DOMAIN Cours : Cours[s] \subseteq Entry
    /\ Linked \in BOOLEAN
    /\ DeadSets \subseteq SUBSET {"primary", "chain", "cour", "maze"}

Sources == {"primary", "cour", "maze"}

VARIABLES dead,    \* the sources that throw; fixed at the start
          aired,   \* the late episodes that have aired
          stamped, \* series.extra.titlesLastAttemptedAt is younger than the back-off
          rows,    \* MetadataCache rows with an episode list: [age, eps] per source
          shown,   \* extra.episodeTitle per local episode: the episode it names, or none
          run,     \* the enrichment runs
          asked,   \* history: network attempts per source since the last tick (saturates)
          rested   \* history: a run that found the stamp has ended since the last tick

vars == <<dead, aired, stamped, rows, shown, run, asked, rested>>
hist == <<dead, rested>>

NoRow == [age |-> "none", eps |-> {}]
Untitled == <<0, 0>>
Off == [at |-> "off", due |-> FALSE, lists |-> <<>>]
Cap == 2 * Cardinality(Runs) + 1

TypeOK ==
    /\ dead \in DeadSets /\ rested \in BOOLEAN
    /\ aired \subseteq Late /\ stamped \in BOOLEAN
    /\ \A s \in Sources : rows[s].age \in {"none", "fresh", "expired"} /\ rows[s].eps \subseteq Entry
    /\ shown \in [Locals -> (Nat \X Nat)]
    /\ \A r \in Runs : /\ run[r].at \in {"off", "primary", "ask", "merge", "walk", "cours", "fill", "write"}
                       /\ run[r].due \in BOOLEAN
                       /\ \A i \in 1..Len(run[r].lists) : run[r].lists[i] \subseteq Entry
    /\ asked \in [Sources \cup {"chain"} -> 0..Cap]

Init ==
    /\ dead \in DeadSets /\ rested = FALSE
    /\ aired = {} /\ stamped = FALSE
    /\ rows = [s \in Sources |-> NoRow]
    /\ shown = [l \in Locals |-> Untitled]
    /\ run = [r \in Runs |-> Off]
    /\ asked = [s \in Sources \cup {"chain"} |-> 0]

-----------------------------------------------------------------------------
(* The algorithm's data.                                                      *)

Since(eps, a) == {e \in eps : e.is \notin Late \ a}
OnAir(eps) == Since(eps, aired)
Covered(lists) == {e.s : e \in UNION Range(lists)}
Gaps(lists) == Seasons \ Covered(lists)

MaxSeason(eps) == IF eps = {} THEN 0 ELSE CHOOSE m \in {e.s : e \in eps} : \A e \in eps : e.s <= m
\* lists.sort by descending season coverage, of the two there are; it is stable.
Broadest(a, b) == IF MaxSeason(b) > MaxSeason(a) THEN <<b, a>> ELSE <<a, b>>

InSeason(eps, s) == {e \in eps : e.s = s}
\* The entries that may stand at place i when eps is sorted by number.
Place(eps, i) == {e \in eps : /\ Cardinality({x \in eps : x.n < e.n}) < i
                             /\ i <= Cardinality({x \in eps : x.n <= e.n})}
Holding(lists, s) == {i \in 1..Len(lists) : \E e \in lists[i] : e.s = s}
\* titlesBySeason: one list per season, the first that has it; pooling them
\* would read into the next list once a season outgrows the first.
AllLists(lists, s) == InSeason(UNION Range(lists), s)
SeasonList(lists, s) == IF Holding(lists, s) = {} THEN {}
                        ELSE InSeason(lists[Min(Holding(lists, s))], s)

Rank(l) == Cardinality({k \in Locals : k[1] = l[1] /\ k[2] <= l[2]})
ByRank(lists, l) == LET titles == Place(SeasonList(lists, l[1]), Rank(l))
                    IN  IF titles = {} THEN Untitled ELSE (CHOOSE e \in titles : TRUE).is
\* byKey, first write wins; else the same rank in the season; else no title.
TitleFor(lists, l) ==
    LET naming == {i \in 1..Len(lists) : \E e \in lists[i] : <<e.s, e.n>> = l}
    IN  IF naming = {} THEN ByRank(lists, l)
        ELSE (CHOOSE e \in lists[Min(naming)] : <<e.s, e.n>> = l).is

Goto(r, at) == run' = [run EXCEPT ![r].at = at] /\ UNCHANGED rested
With(r, lists, at) == run' = [run EXCEPT ![r].lists = lists, ![r].at = at] /\ UNCHANGED rested
End(r) == /\ run' = [run EXCEPT ![r] = Off]
          /\ rested' = (rested \/ ~run[r].due)
Ask(s) == asked' = [asked EXCEPT ![s] = IF @ < Cap THEN @ + 1 ELSE @]

-----------------------------------------------------------------------------
(* One run.                                                                   *)

\* titlesHealDue, read once.
Begin(r) == /\ run[r].at = "off"
            /\ run' = [run EXCEPT ![r] = [at |-> "primary", due |-> ~stamped, lists |-> <<>>]]
            /\ UNCHANGED <<aired, stamped, rows, shown, asked, hist>>

\* A fresh list needs no network.  A row without a list is a fetch that never
\* succeeded: only when due, and stamped before the call; an expired list is
\* refetched whatever the stamp says.
UsePrimary(r) ==
    /\ run[r].at = "primary"
    /\ IF rows["primary"].age = "fresh" THEN With(r, <<rows["primary"].eps>>, "merge")
       ELSE IF rows["primary"].age = "none" /\ ~run[r].due THEN End(r)
       ELSE Goto(r, "ask")
    /\ stamped' = (stamped \/ (rows["primary"].age = "none" /\ run[r].due))
    /\ UNCHANGED <<dead, aired, rows, shown, asked>>

\* Empty lists are never cached; a throw ends the run.
AskPrimary(r) ==
    /\ run[r].at = "ask" /\ Ask("primary")
    /\ IF "primary" \in dead THEN End(r) /\ UNCHANGED rows
       ELSE LET eps == OnAir(Primary)
            IN  /\ With(r, <<eps>>, "merge")
                /\ rows' = IF eps = {} THEN rows
                           ELSE [rows EXCEPT !["primary"] = [age |-> "fresh", eps |-> eps]]
    /\ UNCHANGED <<dead, aired, stamped, shown>>

\* The cached lists of the other providers the series holds an id for; stale
\* is fine.  Broadest coverage first.
Merge(r) ==
    /\ run[r].at = "merge"
    /\ With(r, IF Linked /\ rows["maze"].eps # {} THEN Broadest(run[r].lists[1], rows["maze"].eps)
               ELSE run[r].lists, "walk")
    /\ UNCHANGED <<dead, aired, stamped, rows, shown, asked>>

\* The sequel chain is asked only when due, and stamped up front.
WalksAnyway(r) == Gaps(run[r].lists) # {}
Walks(r) == Gaps(run[r].lists) # {} /\ run[r].due
StampAfter(r) == stamped' = (stamped \/ "chain" \notin dead)
StampBefore(r) == stamped' = TRUE
Walk(r) ==
    /\ run[r].at = "walk"
    /\ IF Walks(r)
         THEN /\ StampBefore(r) /\ Ask("chain")
              /\ IF "chain" \in dead THEN End(r) ELSE Goto(r, "cours")
         ELSE Goto(r, "fill") /\ UNCHANGED <<stamped, asked>>
    /\ UNCHANGED <<dead, aired, rows, shown>>

\* The cour of a season nobody covers: a fresh row, or a fetch when there is no
\* row.  An expired row is skipped.  (The model has one cour record.)
WalkCours(r) ==
    /\ run[r].at = "cours"
    /\ LET gaps == Gaps(run[r].lists) \cap DOMAIN Cours
           eps == UNION {OnAir(Cours[s]) : s \in gaps}
       IN  IF gaps = {} \/ rows["cour"].age = "expired"
             THEN Goto(r, "fill") /\ UNCHANGED <<rows, asked>>
           ELSE IF rows["cour"].age = "fresh"
             THEN With(r, Append(run[r].lists, rows["cour"].eps), "fill") /\ UNCHANGED <<rows, asked>>
           ELSE /\ Ask("cour")
                /\ IF "cour" \in dead THEN End(r) /\ UNCHANGED rows
                   ELSE IF eps = {} THEN Goto(r, "fill") /\ UNCHANGED rows
                   ELSE /\ With(r, Append(run[r].lists, eps), "fill")
                        /\ rows' = [rows EXCEPT !["cour"] = [age |-> "fresh", eps |-> eps]]
    /\ UNCHANGED <<dead, aired, stamped, shown>>

\* The TVmaze search for what is still missing, when due; gap-fill only.
Backfill(r) ==
    /\ run[r].at = "fill"
    /\ IF Gaps(run[r].lists) = {} \/ ~run[r].due
         THEN Goto(r, "write") /\ UNCHANGED <<rows, asked>>
         ELSE /\ Ask("maze")
              /\ IF "maze" \in dead THEN End(r) /\ UNCHANGED rows
                 ELSE IF OnAir(Maze) = {} THEN Goto(r, "write") /\ UNCHANGED rows
                 ELSE /\ With(r, Append(run[r].lists, OnAir(Maze)), "write")
                      /\ rows' = [rows EXCEPT !["maze"] = [age |-> "fresh", eps |-> OnAir(Maze)]]
    /\ UNCHANGED <<dead, aired, stamped, shown>>

\* A title found replaces the one shown; none found leaves it.
Write(r) ==
    /\ run[r].at = "write"
    /\ shown' = [l \in Locals |-> IF TitleFor(run[r].lists, l) = Untitled THEN shown[l]
                                  ELSE TitleFor(run[r].lists, l)]
    /\ End(r)
    /\ UNCHANGED <<dead, aired, stamped, rows, asked>>

Step(r) == \/ Begin(r) \/ UsePrimary(r) \/ AskPrimary(r) \/ Merge(r) \/ Walk(r)
           \/ WalkCours(r) \/ Backfill(r) \/ Write(r)

\* A day passes: the back-off ends and the lists of an ongoing series expire.
\* A day holds 48 sweeps: one of its runs begins after the stamp.
Tick ==
    /\ stamped => rested
    /\ stamped' = FALSE /\ rested' = FALSE
    /\ rows' = [s \in Sources |-> IF rows[s].age = "fresh" THEN [rows[s] EXCEPT !.age = "expired"]
                                  ELSE rows[s]]
    /\ asked' = [s \in DOMAIN asked |-> 0]
    /\ UNCHANGED <<dead, aired, shown, run>>

Air == \E e \in Late \ aired :
    aired' = aired \cup {e} /\ UNCHANGED <<stamped, rows, shown, run, asked, hist>>

Next == Tick \/ Air \/ \E r \in Runs : Step(r)

\* The metadata sweep re-drives a series with title-less episodes, and the
\* queue works its jobs; days and airings just happen.
Fairness == (\A r \in Runs : WF_vars(Step(r))) /\ WF_vars(Air)

Spec == Init /\ [][Next]_vars /\ Fairness /\ WF_vars(Tick)

-----------------------------------------------------------------------------
(* Properties.                                                                *)

\* "Without the stamp every metadata sweep would re-fetch the same dead source
\* forever": in one back-off window a source that throws is asked at most once
\* by each job that read the stamp before another wrote it, and once more by a
\* job that had read it before the window began.
DeadSourceIsLeftAlone == \A s \in dead : asked[s] <= 2 * Cardinality(Runs)

\* "A backfill miss must only skip the backfill": whatever the walk and the
\* backfill run into, every local episode the primary list names is titled.
PrimaryShown == "primary" \in dead \/
    \A l \in Locals : (\E e \in Primary : e.is = l) => shown[l] # Untitled
PrimaryTitlesLand == []<>PrimaryShown

\* A list that by itself gives no local episode the title of another one,
\* and sources whose lists are like that, whatever has aired and whichever
\* seasons are asked for.
Right(eps) ==
    /\ \A e \in eps : <<e.s, e.n>> \in Locals => e.is = <<e.s, e.n>>
    /\ \A l \in Locals : \A e \in Place(InSeason(eps, l[1]), Rank(l)) : e.is = l
SourcesAreRight == \A a \in SUBSET Late :
    /\ Right(Since(Primary, a)) /\ Right(Since(Maze, a))
    /\ \A S \in SUBSET DOMAIN Cours : Right(UNION {Since(Cours[s], a) : s \in S})

\* No local episode carries the title of another one.
TitlesAreTheirOwn == \A l \in Locals : shown[l] \in {Untitled, l}

\* The comment in the cour walk: an expired row "is a designed refetch cadence
\* (ONGOING)".  An episode of a later cour is titled some time after it aired.
NewEpisodesAreTitled == \A l \in {k \in Locals : k[1] \in DOMAIN Cours} : <>(shown[l] # Untitled)
=============================================================================
