----------------------------- MODULE SeriesTree -----------------------------
(***************************************************************************)
(* How a scan turns folders into shows: the directory heuristics of        *)
(* packages/scanner/src/ingest.ts (season folders, the anchor that makes a *)
(* folder part of a show, runtime outliers), the concurrent leaves of one  *)
(* directory, the move of a renamed show's identity to its new row, and    *)
(* the roll-up of prune.ts that removes what is empty, which the admin's   *)
(* show delete runs too.                                                   *)
(*                                                                         *)
(* A directory is the sequence of folder names below the library root; a   *)
(* file is recognised by its inode, so a move keeps its row (LibraryScan   *)
(* has the copies, the queue and the probes).  Shows are keyed by their    *)
(* title, the only key the scan looks them up by.  An ExternalId is one    *)
(* of "none", "guess" (the resolver's) and "pin" (the admin's).            *)
(* Files lying loose in the root itself are left out.                      *)
(***************************************************************************)
EXTENDS Integers, FiniteSets, Sequences

CONSTANTS Order,       \* the directories, in the order of comparePaths
          SeasonName,  \* parseSeasonDirName of each folder name, or Null
          MovieNames,  \* NON_SEASON_MOVIE_DIRS
          Files,       \* video files
          Parse,       \* parseFilename: [episode, season, year]
          Minutes,     \* what the probe says, 0 for nothing
          Start,       \* where each file is at first
          Ids,         \* item ids
          MaxMoves,    \* bound: things people do to the folders
          MaxCrashes   \* bound: worker crashes

Null    == -1
Nowhere == <<>>
Root    == "root"     \* parentId null
Loose   == "loose"    \* the title that the files themselves agree on
Actors  == {"scan", "admin"}

VARIABLES
  disk,     \* each file's directory, Nowhere when removed
  folders,  \* top-level folders that exist
  rows,     \* MediaFile: [item, dir], item 0 for no row
  items,    \* MOVIE and EPISODE rows: [kind, show, season, number]
  shows, seasons,       \* SERIES and SEASON rows
  ids,      \* ExternalId of each show
  mains, films,         \* franchise entries: <<collection, show or item>>
  cursor,   \* Library.scanCursor
  asked,    \* shows with a queued metadata job
  scan,     \* the active scan
  leaf,     \* ingestLeafItem of each file of the current directory
  prune,    \* pruneMissingMedia, by the scan's end and by the admin
  spent     \* counts against the bounds

world == <<disk, folders>>
links == <<mains, films>>
tree  == <<rows, items, shows, seasons>>
vars  == <<world, tree, ids, links, cursor, asked, scan, leaf, prune, spent>>

Dirs  == {Order[k] : k \in DOMAIN Order}
Tops  == {d[1] : d \in Dirs}
Titles == Tops \cup {Loose}
Base(d)   == d[Len(d)]
Prefix(d, k) == SubSeq(d, 1, k)
Number(d) == SeasonName[Base(d)]
In(at, d) == {f \in Files : at[f] = d}

NoItem == [kind |-> "none", show |-> Root, season |-> Null, number |-> Null]
NoRow  == [item |-> 0, dir |-> Nowhere]
NoLeaf == [pc |-> "done", item |-> 0, as |-> NoItem, old |-> Root,
           carried |-> "none"]
Idle   == [pc |-> "idle", at |-> 0, resume |-> 0,
           seen |-> [f \in Files |-> Nowhere],
           stored |-> [f \in Files |-> [item |-> 0, as |-> NoItem]]]
NoPrune == [pc |-> "idle", doomed |-> {}]

Init ==
  /\ disk = Start
  /\ folders = {Start[f][1] : f \in {g \in Files : Start[g] # Nowhere}}
  /\ rows = [f \in Files |-> NoRow]
  /\ items = [i \in Ids |-> NoItem]
  /\ shows = {} /\ seasons = {} /\ mains = {} /\ films = {} /\ asked = {}
  /\ ids = [t \in Titles |-> "none"]
  /\ cursor = 0
  /\ scan = Idle
  /\ leaf = [f \in Files |-> NoLeaf]
  /\ prune = [a \in Actors |-> NoPrune]
  /\ spent = [moves |-> 0, crashes |-> 0]

-----------------------------------------------------------------------------
(* What people do. *)
Move(changed) ==
  /\ spent.moves < MaxMoves
  /\ spent' = [spent EXCEPT !.moves = @ + 1]
  /\ disk' = [f \in Files |-> IF f \in DOMAIN changed THEN changed[f]
                              ELSE disk[f]]
  /\ UNCHANGED <<tree, links, cursor, asked, scan, leaf>>

Under(t) == {f \in Files : disk[f] # Nowhere /\ disk[f][1] = t}

RenameShow(t, u) ==
  /\ t \in folders /\ u \notin folders
  /\ \A f \in Under(t) : <<u>> \o Tail(disk[f]) \in Dirs
  /\ Move([f \in Under(t) |-> <<u>> \o Tail(disk[f])])
  /\ folders' = (folders \ {t}) \cup {u}
  /\ UNCHANGED <<ids, prune>>

MoveFile(f, d) ==
  /\ disk[f] \notin {Nowhere, d}
  /\ Move([g \in {f} |-> d])
  /\ folders' = folders \cup {d[1]}
  /\ UNCHANGED <<ids, prune>>

Remove(f) ==
  /\ disk[f] # Nowhere
  /\ Move([g \in {f} |-> Nowhere])
  /\ UNCHANGED <<folders, ids, prune>>

(* The admin pins the provider's identity of a show. *)
Pin(t) ==
  /\ t \in shows /\ ids[t] # "pin"
  /\ ids' = [ids EXCEPT ![t] = "pin"]
  /\ Move(<<>>)
  /\ UNCHANGED <<folders, prune>>

(* DELETE /admin-api/shows/:id: the folder first, then the prune. *)
DeleteShow(t) ==
  /\ t \in shows /\ prune["admin"].pc = "idle"
  /\ Move([f \in Under(t) |-> Nowhere])
  /\ folders' = folders \ {t}
  /\ prune' = [prune EXCEPT !["admin"].pc = "files"]
  /\ UNCHANGED ids

-----------------------------------------------------------------------------
(* The heuristics, on the walk at. *)
SeasonLike(at, d) ==
  LET here == In(at, d) IN
  /\ here # {}
  /\ Base(d) \notin MovieNames
  /\ 2 * Cardinality({f \in here : Parse[f].year}) < Cardinality(here)
  /\ 2 * Cardinality({f \in here : Parse[f].episode # Null})
       >= Cardinality(here)

HoldsASeason(at, p) ==
  \E d \in Dirs : /\ Len(d) = Len(p) + 1 /\ Prefix(d, Len(p)) = p
                  /\ In(at, d) # {}
                  /\ SeasonLike(at, d) \/ Number(d) # Null

(* Mutant: only the folder itself, never one above it. *)
AnchoredHere(at, d) ==
  Len(d) > 1 /\ (SeasonName[Base(d)] # Null \/ HoldsASeason(at, d))

(* findSeriesAnchor: the nearest folder, from d upwards, that is or holds a *)
(* season; a season directly under the root has no show above it.           *)
Anchored(at, d) ==
  LET hits == {k \in 1..Len(d) :
                 \/ SeasonName[d[k]] # Null
                 \/ SeasonLike(at, Prefix(d, k))
                 \/ HoldsASeason(at, Prefix(d, k))}
      nearest == CHOOSE k \in hits : \A j \in hits : j <= k
  IN hits # {} /\ ~(nearest = 1 /\ SeasonName[d[1]] # Null)

(* clusterByRuntime: twice the baseline is twice the median, or the        *)
(* shortest twice when fewer than four runtimes are known.                 *)
Outliers(here) ==
  LET known  == {f \in here : Minutes[f] # 0}
      n      == Cardinality(known)
      Nth(k) == CHOOSE m \in {Minutes[f] : f \in known} :
                  /\ Cardinality({f \in known : Minutes[f] < m}) < k
                  /\ Cardinality({f \in known : Minutes[f] <= m}) >= k
      twice  == IF n >= 4 THEN Nth((n + 1) \div 2) + Nth(n \div 2 + 1)
                ELSE 2 * Nth(1)
  IN IF n < 2 THEN {} ELSE {f \in known : 10 * Minutes[f] > 9 * twice}

(* The show is the top-level folder, however deep the season lies. *)
ShowOf(d) == IF Len(d) = 1 /\ Number(d) # Null THEN Loose ELSE d[1]

DirSeason(d) == IF Number(d) # Null THEN Number(d) ELSE 1

SeasonFor(d, f) ==
  IF Number(d) = Null /\ Parse[f].season # Null THEN Parse[f].season
  ELSE DirSeason(d)

Film(show) == [NoItem EXCEPT !.kind = "MOVIE", !.show = show]

(* Absolute numbers become relative to the seasons before. *)
Prior(show, season) ==
  Cardinality({i \in Ids : /\ items[i].kind = "EPISODE"
                           /\ items[i].show = show
                           /\ items[i].season < season})

EpisodeNumber(d, f) ==
  LET n == Parse[f].episode
      prior == Prior(ShowOf(d), SeasonFor(d, f))
  IN IF /\ n # Null /\ SeasonFor(d, f) > 1 /\ Parse[f].season = Null
        /\ prior > 0 /\ n > prior
     THEN n - prior ELSE n

Outlying(at, d) ==
  {f \in In(at, d) : Parse[f].episode = Null /\ f \in Outliers(In(at, d))}

Classify(at, f) ==
  LET d == at[f] IN
  IF SeasonLike(at, d)
  THEN IF f \in Outlying(at, d) THEN Film(ShowOf(d))
       ELSE [kind |-> "EPISODE", show |-> ShowOf(d),
             season |-> SeasonFor(d, f), number |-> EpisodeNumber(d, f)]
  ELSE Film(IF Anchored(at, d) THEN d[1] ELSE Root)

-----------------------------------------------------------------------------
(* findOrCreateChild: a lookup by title, then a create; one scan at a time  *)
(* makes rows, so none is made twice.                                       *)
FindOrCreate(S, keys) == S \cup keys

(* findOrCreateCollection: a franchise is known by its name, the title of   *)
(* its show.                                                                *)
Franchise(show) == show

LinkFranchise(show, movies) ==
  /\ mains' = mains \cup {<<Franchise(show), show>>}
  /\ films' = films \cup {<<Franchise(show), i>> : i \in movies}

(* processScan and the directory loop. *)
ScanKeeps == UNCHANGED <<world, cursor, prune, spent>>

(* The walk and the one bulk fetch; empty top-level folders get a bare row. *)
Begin ==
  /\ scan.pc = "idle" /\ \A f \in Files : leaf[f].pc = "done"
  /\ scan' = [pc |-> "dirs", at |-> 0, resume |-> cursor, seen |-> disk,
              stored |-> [f \in Files |->
                            IF rows[f].item = 0 THEN Idle.stored[f]
                            ELSE [item |-> rows[f].item,
                                  as |-> items[rows[f].item]]]]
  /\ shows' = FindOrCreate(shows, {t \in folders : Under(t) = {}})
  /\ UNCHANGED <<rows, items, seasons, ids, links, asked, leaf>>
  /\ ScanKeeps

Dir == Order[scan.at]
ToDo == {k \in DOMAIN Order : /\ k > scan.at /\ k > scan.resume
                              /\ In(scan.seen, Order[k]) # {}}

(* Show and season rows are made before any leaf runs. *)
OpenDir ==
  LET k == CHOOSE j \in ToDo : \A l \in ToDo : j <= l
      d == Order[k]
      like == SeasonLike(scan.seen, d)
      anchored == ~like /\ Anchored(scan.seen, d)
  IN
  /\ scan.pc = "dirs" /\ ToDo # {}
  /\ scan' = [scan EXCEPT !.pc = "leaves", !.at = k]
  /\ shows' = FindOrCreate(shows, IF like THEN {ShowOf(d)}
                                  ELSE IF anchored THEN {d[1]} ELSE {})
  /\ seasons' = FindOrCreate(seasons,
       IF like THEN {<<ShowOf(d), n>> : n \in {DirSeason(d)} \cup
                       {SeasonFor(d, f) : f \in In(scan.seen, d)}}
       ELSE {})
  /\ asked' = asked \cup IF anchored THEN {d[1]} ELSE {}
  /\ leaf' = [f \in Files |-> IF f \in In(scan.seen, d)
                              THEN [NoLeaf EXCEPT !.pc = "look"]
                              ELSE leaf[f]]
  /\ UNCHANGED <<rows, items, ids, links>>
  /\ ScanKeeps

CloseDir ==
  LET like  == SeasonLike(scan.seen, Dir)
      show  == IF like THEN ShowOf(Dir) ELSE Dir[1]
      inIt  == IF like THEN Outlying(scan.seen, Dir)
               ELSE IF Anchored(scan.seen, Dir) THEN In(scan.seen, Dir)
               ELSE {}
      linked == {f \in inIt : rows[f].item # 0}
  IN
  /\ scan.pc = "leaves" /\ \A f \in Files : leaf[f].pc = "done"
  /\ IF inIt # {} /\ show \in shows
     THEN LinkFranchise(show, {rows[f].item : f \in linked})
     ELSE UNCHANGED links
  /\ asked' = asked \cup IF like /\ ids[show] = "none" THEN {show} ELSE {}
  /\ scan' = [scan EXCEPT !.pc = "dirs"]
  /\ cursor' = scan.at
  /\ UNCHANGED <<world, tree, ids, leaf, prune, spent>>

(* The pass is over: the cursor goes, and the prune runs if the walk found *)
(* anything.                                                               *)
Finish ==
  /\ scan.pc = "dirs" /\ ToDo = {}
  /\ cursor' = 0
  /\ IF \E f \in Files : scan.seen[f] # Nowhere
     THEN /\ scan' = [scan EXCEPT !.pc = "prune"]
          /\ prune' = [prune EXCEPT !["scan"].pc = "files"]
     ELSE scan' = Idle /\ UNCHANGED prune
  /\ UNCHANGED <<world, tree, ids, links, asked, leaf, spent>>

(* A rejected leaf fails the job while its siblings run to their end. *)
Failed ==
  /\ scan.pc = "failed" /\ \A f \in Files : leaf[f].pc = "done"
  /\ scan' = Idle
  /\ UNCHANGED <<tree, ids, links, asked, leaf>>
  /\ ScanKeeps

Crash ==
  /\ scan.pc # "idle" /\ spent.crashes < MaxCrashes
  /\ spent' = [spent EXCEPT !.crashes = @ + 1]
  /\ scan' = Idle
  /\ leaf' = [f \in Files |-> NoLeaf]
  /\ prune' = [prune EXCEPT !["scan"] = NoPrune]
  /\ UNCHANGED <<world, tree, ids, links, cursor, asked>>

-----------------------------------------------------------------------------
(* ingestLeafItem, between its awaits. *)
At(f, pc) == leaf[f].pc = pc
Go(f, l) == leaf' = [leaf EXCEPT ![f] = l] /\ UNCHANGED scan
Throw(f) == /\ leaf' = [leaf EXCEPT ![f] = NoLeaf]
            /\ scan' = [scan EXCEPT !.pc = "failed"]

ParentIsThere(as) ==
  \/ as.show = Root
  \/ as.show \in shows /\ (as.season = Null \/ <<as.show, as.season>> \in seasons)

LeafKeeps == UNCHANGED <<world, shows, seasons, cursor, asked, prune, spent>>

(* The number, and the episode this season already has under it. *)
Twins(as) == {i \in Ids : as.kind = "EPISODE" /\ as.number # Null /\ items[i] = as}

Look(f) ==
  LET as == Classify(scan.seen, f)
      stored == scan.stored[f].item
  IN
  /\ At(f, "look")
  /\ IF stored # 0
     THEN Go(f, [NoLeaf EXCEPT !.pc = "store", !.item = stored, !.as = as])
     ELSE \/ /\ Twins(as) = {}
             /\ Go(f, [NoLeaf EXCEPT !.pc = "create", !.as = as])
          \/ \E i \in Twins(as) :
               Go(f, [NoLeaf EXCEPT !.pc = "store", !.item = i, !.as = as])
  /\ UNCHANGED <<rows, items, ids, links>> /\ LeafKeeps

Free == {i \in Ids : items[i] = NoItem /\ \A f \in Files :
           leaf[f].item # i /\ rows[f].item # i /\ scan.stored[f].item # i}

Create(f) ==
  /\ At(f, "create") /\ Free # {}
  /\ IF ParentIsThere(leaf[f].as)
     THEN LET i == CHOOSE j \in Free : \A k \in Free : j <= k IN
          /\ items' = [items EXCEPT ![i] = leaf[f].as]
          /\ Go(f, [leaf[f] EXCEPT !.pc = "store", !.item = i])
     ELSE Throw(f) /\ UNCHANGED items
  /\ UNCHANGED <<rows, ids, links>> /\ LeafKeeps

(* Mutant: a moved episode keeps its old parent. *)
ReshapedByNumber(f) == \/ scan.stored[f].as.kind # leaf[f].as.kind
                       \/ scan.stored[f].as.number # leaf[f].as.number

(* The item is reset in place when the file's shape changed; the identity  *)
(* follows when it changes parents.                                        *)
Reshaped(f) == scan.stored[f].as # leaf[f].as

Parent(as) == <<as.show, as.season>>

(* reparentItem: kind, parent and numbers follow the parse, a film that     *)
(* reverts to an episode loses its franchise links, and a change of parents *)
(* sets out to move the old show's identity.                                *)
Reparent(f) ==
  LET i   == leaf[f].item
      as  == leaf[f].as
      old == scan.stored[f].as
      moved == old.show # Root /\ as.show # Root /\ Parent(old) # Parent(as)
  IN
  /\ items' = [items EXCEPT ![i] = as]
  /\ films' = {e \in films : as.kind = "EPISODE" => e[2] # i}
  /\ Go(f, IF moved THEN [leaf[f] EXCEPT !.pc = "root", !.old = old.show]
           ELSE NoLeaf)

Store(f) ==
  LET i       == leaf[f].item
      stored  == scan.stored[f].item # 0
      reshape == stored /\ Reshaped(f)
  IN
  /\ At(f, "store")
  /\ IF \/ items[i] = NoItem
        \/ stored /\ rows[f].item = 0
        \/ reshape /\ ~ParentIsThere(leaf[f].as)
     THEN Throw(f) /\ UNCHANGED <<rows, items, films>>
     ELSE /\ rows' = [rows EXCEPT ![f] = [item |-> i, dir |-> scan.seen[f]]]
          /\ IF reshape THEN Reparent(f)
             ELSE UNCHANGED <<items, films>> /\ Go(f, NoLeaf)
  /\ UNCHANGED <<ids, mains>> /\ LeafKeeps

(* transferSeriesIdentity.  rootSeriesOf starts at the old parent, the     *)
(* season, so an old season that is gone ends it.                          *)
ReadIdentity(f) ==
  LET old == leaf[f].old
      oldSeason == scan.stored[f].as.season IN
  /\ At(f, "root")
  /\ Go(f, IF \/ old \notin shows \/ old = leaf[f].as.show
              \/ oldSeason # Null /\ <<old, oldSeason>> \notin seasons
              \/ leaf[f].as.show \notin shows \/ ids[old] = "none"
           THEN NoLeaf
           ELSE [leaf[f] EXCEPT !.pc = "copy", !.carried = ids[old]])
  /\ UNCHANGED <<rows, items, ids, links>> /\ LeafKeeps

(* createMany with skipDuplicates, and the old series' franchise entry. *)
CopyIdentity(f) ==
  LET new == leaf[f].as.show
      old == leaf[f].old IN
  /\ At(f, "copy")
  /\ IF new \notin shows THEN Throw(f) /\ UNCHANGED ids
     ELSE /\ ids' = [ids EXCEPT ![new] = IF @ = "none" THEN leaf[f].carried
                                         ELSE @]
          /\ Go(f, IF \E e \in mains : e[2] = old
                   THEN [leaf[f] EXCEPT !.pc = "relink"] ELSE NoLeaf)
  /\ UNCHANGED <<rows, items, links>> /\ LeafKeeps

Relink(f) ==
  LET new == leaf[f].as.show IN
  /\ At(f, "relink")
  /\ IF new \in shows
     THEN /\ mains' = mains \cup {<<Franchise(new), new>>}
          /\ Go(f, [leaf[f] EXCEPT !.pc = "unlink"])
     ELSE Throw(f) /\ UNCHANGED mains
  /\ UNCHANGED <<rows, items, ids, films>> /\ LeafKeeps

(* collectionEntry.delete throws when the row is gone. *)
Unlink(f) ==
  LET entry == <<leaf[f].old, leaf[f].old>> IN
  /\ At(f, "unlink")
  /\ IF entry \in mains THEN mains' = mains \ {entry} /\ Go(f, NoLeaf)
     ELSE Throw(f) /\ UNCHANGED mains
  /\ UNCHANGED <<rows, items, ids, films>> /\ LeafKeeps

(* A queued metadata job finds a match of its own, or none. *)
Resolve(t) ==
  /\ t \in asked
  /\ asked' = asked \ {t}
  /\ ids' = IF t \in shows /\ ids[t] = "none"
            THEN [ids EXCEPT ![t] = "guess"] ELSE ids
  /\ UNCHANGED <<world, tree, links, cursor, scan, leaf, prune, spent>>

-----------------------------------------------------------------------------
(* pruneMissingMedia: each round reads after the round before deleted, and *)
(* deletes by id what it read.                                             *)
PruneKeeps == UNCHANGED <<world, cursor, asked, leaf, spent>>

Round(a, pc, doomed) ==
  /\ prune' = [prune EXCEPT ![a] = [pc |-> pc, doomed |-> doomed]]
  /\ UNCHANGED scan

EmptyLeaves(rs) == {i \in Ids : items[i] # NoItem
                                /\ \A f \in Files : rs[f].item # i}
EmptySeasons(is) == {s \in seasons : \A i \in Ids :
                       is[i] = NoItem \/ Parent(is[i]) # s}
EmptyShows(is, ss) == {t \in shows : /\ \A i \in Ids : is[i] = NoItem \/ is[i].show # t
                                     /\ \A s \in ss : s[1] # t}

(* An item's rows go with it: its files' and its franchise entries. *)
DropItems(dead) ==
  /\ items' = [i \in Ids |-> IF i \in dead THEN NoItem ELSE items[i]]
  /\ films' = {e \in films : e[2] \notin dead}

PruneFiles(a) ==
  /\ prune[a].pc = "files"
  /\ Round(a, "leaves", {f \in Files : rows[f].item # 0 /\ disk[f] # rows[f].dir})
  /\ UNCHANGED <<tree, ids, links>> /\ PruneKeeps

PruneRows(a) ==
  LET left == [f \in Files |-> IF f \in prune[a].doomed THEN NoRow
                               ELSE rows[f]] IN
  /\ prune[a].pc = "leaves"
  /\ rows' = left
  /\ Round(a, "items", EmptyLeaves(left))
  /\ UNCHANGED <<items, shows, seasons, ids, links>> /\ PruneKeeps

PruneItems(a) ==
  LET dead == prune[a].doomed IN
  /\ prune[a].pc = "items"
  /\ DropItems(dead)
  /\ rows' = [f \in Files |-> IF rows[f].item \in dead THEN NoRow ELSE rows[f]]
  /\ Round(a, "seasons", EmptySeasons(items'))
  /\ UNCHANGED <<shows, seasons, ids, mains>> /\ PruneKeeps

PruneSeasons(a) ==
  LET dead == {i \in Ids : Parent(items[i]) \in prune[a].doomed} IN
  /\ prune[a].pc = "seasons"
  /\ seasons' = seasons \ prune[a].doomed
  /\ DropItems(dead)
  /\ rows' = [f \in Files |-> IF rows[f].item \in dead THEN NoRow ELSE rows[f]]
  /\ Round(a, "shows", {t \in EmptyShows(items', seasons') : t \notin folders})
  /\ UNCHANGED <<shows, ids, mains>> /\ PruneKeeps

PruneShows(a) ==
  LET gone == prune[a].doomed
      dead == {i \in Ids : items[i].show \in gone} IN
  /\ prune[a].pc = "shows"
  /\ shows' = shows \ gone
  /\ seasons' = {s \in seasons : s[1] \notin gone}
  /\ DropItems(dead)
  /\ rows' = [f \in Files |-> IF rows[f].item \in dead THEN NoRow ELSE rows[f]]
  /\ ids' = [t \in Titles |-> IF t \in gone THEN "none" ELSE ids[t]]
  /\ mains' = {e \in mains : e[2] \notin gone}
  /\ prune' = [prune EXCEPT ![a] = NoPrune]
  /\ scan' = IF a = "scan" THEN Idle ELSE scan
  /\ PruneKeeps

-----------------------------------------------------------------------------
ScanStep == Begin \/ OpenDir \/ CloseDir \/ Finish \/ Failed
LeafStep(f) == \/ Look(f) \/ Create(f) \/ Store(f) \/ ReadIdentity(f)
               \/ CopyIdentity(f) \/ Relink(f) \/ Unlink(f)
PruneStep(a) == \/ PruneFiles(a) \/ PruneRows(a) \/ PruneItems(a)
                \/ PruneSeasons(a) \/ PruneShows(a)

Next ==
  \/ \E t, u \in Tops : RenameShow(t, u)
  \/ \E f \in Files, d \in Dirs : MoveFile(f, d)
  \/ \E f \in Files : Remove(f) \/ LeafStep(f)
  \/ \E t \in Titles : Pin(t) \/ DeleteShow(t) \/ Resolve(t)
  \/ \E a \in Actors : PruneStep(a)
  \/ ScanStep \/ Crash

Spec == Init /\ [][Next]_vars

(* The sweep starts a scan every day and what runs goes on. *)
FairSpec == /\ Spec /\ WF_vars(ScanStep)
            /\ \A f \in Files : WF_vars(LeafStep(f))
            /\ \A a \in Actors : WF_vars(PruneStep(a))

-----------------------------------------------------------------------------
ItemType == [kind : {"none", "MOVIE", "EPISODE"}, show : Titles \cup {Root},
             season : Int, number : Int]

(* Every row and every step in flight has its declared shape. *)
TypeOK ==
  /\ disk \in [Files -> Dirs \cup {Nowhere}] /\ folders \subseteq Tops
  /\ rows \in [Files -> [item : Ids \cup {0}, dir : Dirs \cup {Nowhere}]]
  /\ \A i \in Ids : items[i] \in ItemType
  /\ shows \subseteq Titles /\ seasons \subseteq Titles \X Int
  /\ ids \in [Titles -> {"none", "guess", "pin"}]
  /\ mains \subseteq Titles \X Titles /\ films \subseteq Titles \X Ids
  /\ cursor \in 0..Len(Order) /\ asked \subseteq Titles
  /\ scan.pc \in {"idle", "dirs", "leaves", "prune", "failed"}
  /\ \A f \in Files : /\ leaf[f].item \in Ids \cup {0}
                      /\ leaf[f].as \in ItemType

Shown(f) == items[rows[f].item]

(* What the folders say, in words of their own: an episode is an episode   *)
(* of the season and show folder it lies in, a file of a show's movie      *)
(* folder is a movie of that show, what is gone has no row and no show     *)
(* outlives its folder (ingest.ts, "group first, match second").           *)
Matches ==
  /\ \A f \in Files :
       IF disk[f] = Nowhere THEN rows[f] = NoRow
       ELSE /\ rows[f].item # 0 /\ rows[f].dir = disk[f]
            /\ Len(disk[f]) = 2 /\ SeasonName[disk[f][2]] # Null =>
                 /\ Shown(f).show = disk[f][1]
                 /\ Parse[f].episode # Null /\ ~Parse[f].year =>
                      Shown(f).season = SeasonName[disk[f][2]]
            /\ Base(disk[f]) \in MovieNames
                 /\ (\E g \in Files : /\ disk[g] # Nowhere
                                      /\ Len(disk[g]) = 2
                                      /\ disk[g][1] = disk[f][1]
                                      /\ SeasonName[disk[g][2]] # Null) =>
                 Shown(f) = Film(disk[f][1])
  /\ \A t \in shows \ {Loose} : t \in folders

(* Whatever is renamed, moved, removed or deleted, and whichever scans     *)
(* crash or fail in between, the rows come to agree with the folders (a    *)
(* walk that finds no file at all prunes nothing).                         *)
Settled == Matches \/ \A f \in Files : disk[f] = Nowhere
TreeSettles == <>[]Settled

(* The comment of transferSeriesIdentity: concurrent leaves all run it and *)
(* "the first one wins and the rest no-op".                                *)
RenamesNeverFail == [][\A f \in Files : leaf[f].pc = "unlink" =>
                         scan'.pc # "failed" \/ scan.pc = "failed"]_vars

(* The comment of the dedupe: a second file of an episode becomes another  *)
(* version of it, never a second row of the number.                        *)
OneRowPerEpisode ==
  \A i, j \in Ids : i # j /\ items[i] = items[j] /\ items[i].kind = "EPISODE"
                     => items[i].number = Null

(* The roll-up removes only what has nothing left beneath it (prune.ts):   *)
(* no file that is on disk loses its row, and its watch state, to it.      *)
RollUpTakesOnlyEmpty ==
  [][\A f \in Files : rows[f].item # 0 /\ rows'[f].item = 0 =>
       \E a \in Actors : prune[a].pc = "leaves" /\ f \in prune[a].doomed]_vars

(* "The resolved ExternalIds move to the new series": an admin's pin is    *)
(* not dropped with the old row of a show that goes on under a new name.   *)
PinSurvives ==
  [][\A t \in Titles : t \in shows /\ t \notin shows' /\ ids[t] = "pin" =>
       \/ \E u \in shows' : ids[u] = "pin"
       \/ \A f \in Files : rows[f].item = 0]_vars

(* A rescan of folders nobody touched renumbers nothing. *)
RescanKeepsNumbers ==
  [][\A i \in Ids : items[i] # NoItem /\ items'[i] # NoItem
        /\ Parent(items[i]) = Parent(items'[i]) /\ spent.moves = 0 =>
       items'[i].number = items[i].number]_vars
=============================================================================
