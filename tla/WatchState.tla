----------------------------- MODULE WatchState -----------------------------
(***************************************************************************)
(* The watch state of one profile (apps/api/src/watch-state-routes.ts and  *)
(* continue-watching.ts): heartbeats as read-then-write handlers that may  *)
(* overlap, the manual mark, the replay of offline progress, and the       *)
(* continue-watching rail computed from the rows.                          *)
(* An item is <<season, episode>>; a film is a season of its own with one  *)
(* episode that is not an EPISODE.  Positions are 0..End, End past the     *)
(* watched threshold, one unit the most a heartbeat may credit.            *)
(***************************************************************************)
EXTENDS Naturals, Integers, Sequences, FiniteSets, SequencesExt

CONSTANTS
  Episodes,    \* set of <<season, number>>
  Films,       \* set of <<season, 0>>, no season shared with an episode
  Sessions,    \* playback sessions
  End,         \* the last position; the watched threshold
  MaxBeats,    \* bound: heartbeats sent
  MaxEdits     \* bound: marks and offline replays

(* What the constants must satisfy, whoever instantiates the module. *)
WatchStateAssumption ==
  /\ Episodes \subseteq (Nat \X (Nat \ {0})) /\ Films \subseteq (Nat \X {0})
  /\ {e[1] : e \in Episodes} \cap {f[1] : f \in Films} = {}
  /\ End \in Nat \ {0} /\ MaxBeats \in Nat /\ MaxEdits \in Nat

Items == Episodes \cup Films
Pos   == 0..End
Credit == 1    \* MAX_HEARTBEAT_CREDIT_MS

VARIABLES
  row,      \* PlaybackState by item; no row is NoRow
  recent,   \* the items with a row, latest updatedAt first
  sess,     \* PlaybackSession: item, position last stored
  head,     \* where the player of each session stands
  beat,     \* the heartbeat handler of each slot: what it was sent and has read
  edit,     \* the manual-mark handler, between its read and its upsert
  day,      \* WatchDay by item: credited units and completions
  seen,     \* history: units played, seeks, finishes and marks by item
  lapped    \* history: the items two handlers worked on at once

vars == <<row, recent, sess, head, beat, edit, day, seen, lapped>>

NoRow  == [pos |-> 0, watched |-> FALSE, plays |-> 0, exists |-> FALSE]
Slots  == {1, 2}
Idle   == [st |-> "idle"]

Init ==
  /\ row = [i \in Items |-> NoRow]
  /\ recent = <<>>
  /\ sess \in [Sessions -> [item : Items, pos : {0}]]
  /\ head = [s \in Sessions |-> 0]
  /\ beat = [h \in Slots |-> Idle]
  /\ edit = Idle
  /\ day = [i \in Items |-> [credit |-> 0, completions |-> 0]]
  /\ seen = [i \in Items |-> [played |-> 0, finished |-> 0, marks |-> 0, beats |-> 0, edits |-> 0]]
  /\ lapped = {}

Beats == MapThenSumSet(LAMBDA i : seen[i].beats, Items)
Edits == MapThenSumSet(LAMBDA i : seen[i].edits, Items)

\* Handlers at work on the item.
Busy(i) == \/ \E h \in Slots : beat[h].st # "idle" /\ sess[beat[h].sess].item = i
           \/ edit.st # "idle" /\ edit.item = i

Rank(i) == CHOOSE n \in DOMAIN recent : recent[n] = i

\* The upsert stamps updatedAt: the item moves to the front.
Touch(i) == recent' = <<i>> \o (IF i \in ToSet(recent) THEN RemoveAt(recent, Rank(i)) ELSE recent)

----------------------------------------------------------------------------
(* The player *)

Play(s) ==
  LET i == sess[s].item IN
  /\ head[s] < End
  /\ head' = [head EXCEPT ![s] = @ + 1]
  /\ seen' = [seen EXCEPT ![i].played = @ + 1, ![i].finished = @ + (IF head[s] + 1 = End THEN 1 ELSE 0)]
  /\ UNCHANGED <<row, recent, sess, beat, edit, day, lapped>>

\* A seek, back or forth.
Seek(s, p) ==
  LET i == sess[s].item IN
  /\ p # head[s] /\ seen[i].edits < MaxEdits
  /\ head' = [head EXCEPT ![s] = p]
  /\ seen' = [seen EXCEPT ![i].played = @ + (IF p > head[s] THEN Credit ELSE 0),
                          ![i].finished = @ + (IF p = End THEN 1 ELSE 0), ![i].edits = @ + 1]
  /\ UNCHANGED <<row, recent, sess, beat, edit, day, lapped>>

----------------------------------------------------------------------------
(* /playback/:sessionId/heartbeat *)

\* Every ten seconds, on a pause, at the end: nothing keeps two apart.
BeatSent(h, s) ==
  LET i == sess[s].item IN
  /\ beat[h] = Idle /\ Beats < MaxBeats
  /\ beat' = [beat EXCEPT ![h] = [st |-> "sent", sess |-> s, at |-> head[s]]]
  /\ seen' = [seen EXCEPT ![i].beats = @ + 1]
  /\ lapped' = IF Busy(i) THEN lapped \cup {i} ELSE lapped
  /\ UNCHANGED <<row, recent, sess, head, edit, day>>

\* The session and the profile's row are read before the transaction.
BeatReads(h) ==
  LET b == beat[h]  i == sess[b.sess].item IN
  /\ b.st = "sent"
  /\ beat' = [beat EXCEPT ![h] = [st |-> "read", sess |-> b.sess, at |-> b.at,
                                  from |-> sess[b.sess].pos, watched |-> row[i].watched]]
  /\ UNCHANGED <<row, recent, sess, head, edit, day, seen, lapped>>

UncappedCredit(b) == IF b.at > b.from THEN b.at - b.from ELSE 0

\* Watch-time credit: forward, and no more than a heartbeat is worth.
CreditOf(b) == LET d == b.at - b.from IN IF d < 0 THEN 0 ELSE IF d > Credit THEN Credit ELSE d

CountsEveryBeat(b) == b.at >= End

\* Finished now and not before: the play is counted.
Completes(b) == b.at >= End /\ ~b.watched

BeatWrites(h) ==
  LET b == beat[h]  i == sess[b.sess].item  n == IF Completes(b) THEN 1 ELSE 0 IN
  /\ b.st = "read"
  /\ sess' = [sess EXCEPT ![b.sess].pos = b.at]
  /\ row' = [row EXCEPT ![i] = [exists |-> TRUE, pos |-> b.at, watched |-> b.at >= End, plays |-> @.plays + n]]
  /\ day' = [day EXCEPT ![i].credit = @ + CreditOf(b), ![i].completions = @ + n]
  /\ Touch(i)
  /\ beat' = [beat EXCEPT ![h] = Idle]
  /\ UNCHANGED <<head, edit, seen, lapped>>

----------------------------------------------------------------------------
(* /watch-state *)

\* Marking by hand: the row is read, then upserted; unwatching wipes it.
MarkReads(i, watched) ==
  /\ edit = Idle /\ Edits < MaxEdits
  /\ edit' = [st |-> "read", item |-> i, to |-> watched, prev |-> row[i].watched]
  /\ seen' = [seen EXCEPT ![i].marks = @ + 1, ![i].edits = @ + 1]
  /\ lapped' = IF Busy(i) THEN lapped \cup {i} ELSE lapped
  /\ UNCHANGED <<row, recent, sess, head, beat, day>>

MarkWrites ==
  LET i == edit.item  old == row[i] IN
  /\ edit.st = "read"
  /\ row' = [row EXCEPT ![i] =
       IF ~edit.to THEN [NoRow EXCEPT !.exists = TRUE]
       ELSE IF ~old.exists THEN [exists |-> TRUE, pos |-> 0, watched |-> TRUE, plays |-> 1]
       ELSE [old EXCEPT !.watched = TRUE, !.plays = @ + (IF edit.prev THEN 0 ELSE 1)]]
  /\ Touch(i)
  /\ edit' = Idle
  /\ UNCHANGED <<sess, head, beat, day, seen, lapped>>

\* The replay of a download watched offline: an entry says what it says,
\* however old it is, and a play is counted for a new row only.
Sync(i, p, watched) ==
  /\ Edits < MaxEdits
  /\ row' = [row EXCEPT ![i] =
       IF @.exists THEN [@ EXCEPT !.pos = p, !.watched = watched]
       ELSE [exists |-> TRUE, pos |-> p, watched |-> watched, plays |-> IF watched THEN 1 ELSE 0]]
  /\ Touch(i)
  /\ seen' = [seen EXCEPT ![i].marks = @ + 1, ![i].edits = @ + 1]
  /\ lapped' = IF Busy(i) THEN lapped \cup {i} ELSE lapped
  /\ UNCHANGED <<sess, head, beat, edit, day>>

Next ==
  \/ \E s \in Sessions : Play(s) \/ (\E p \in Pos : Seek(s, p)) \/ \E h \in Slots : BeatSent(h, s)
  \/ \E h \in Slots : BeatReads(h) \/ BeatWrites(h)
  \/ \E i \in Items, w \in BOOLEAN : MarkReads(i, w) \/ \E p \in Pos : Sync(i, p, w)
  \/ MarkWrites

Spec == Init /\ [][Next]_vars

----------------------------------------------------------------------------
(* The continue-watching rail *)

None == <<>>

\* The next episode by number in the season, else the first of the next
\* season that has any season after it (season s and s + 1 are one show).
LaterIn(e)  == {x \in Episodes : x[1] = e[1] /\ x[2] > e[2]}
NextSeason(e) == {x[1] : x \in {y \in Episodes : y[1] > e[1]}}
Lowest(S) == CHOOSE x \in S : \A y \in S : x[2] <= y[2]
NextEpisode(e) ==
  IF LaterIn(e) # {} THEN Lowest(LaterIn(e))
  ELSE IF NextSeason(e) = {} THEN None
  ELSE LET n == CHOOSE a \in NextSeason(e) : \A b \in NextSeason(e) : a <= b
       IN Lowest({x \in Episodes : x[1] = n})

\* What a row shows: itself while unfinished, a finished episode its successor.
Shows(i) == IF ~row[i].watched THEN <<i, FALSE>>
            ELSE IF i \in Films \/ NextEpisode(i) = None THEN None
            ELSE <<NextEpisode(i), TRUE>>

LaterWins(rail, i) ==
  IF Shows(i) = None THEN rail
  ELSE SelectSeq(rail, LAMBDA x : x.season # i[1]) \o <<[season |-> i[1], entry |-> Shows(i)]>>

\* loadContinueWatching: the rows latest first, the first of a season wins.
OneRow(rail, i) ==
  IF Shows(i) = None \/ \E k \in DOMAIN rail : rail[k].season = i[1] THEN rail
  ELSE Append(rail, [season |-> i[1], entry |-> Shows(i)])

Rail ==
  LET shown[n \in 0..Len(recent)] == IF n = 0 THEN <<>> ELSE OneRow(shown[n - 1], recent[n])
  IN shown[Len(recent)]

----------------------------------------------------------------------------
(* Properties *)

TypeOK ==
  /\ row \in [Items -> [pos : Pos, watched : BOOLEAN, plays : Nat, exists : BOOLEAN]]
  /\ ToSet(recent) = {i \in Items : row[i].exists} /\ IsInjective(recent)
  /\ \A s \in Sessions : sess[s].pos \in Pos /\ head[s] \in Pos
  /\ day \in [Items -> [credit : Nat, completions : Nat]]

\* The rail answers "what do I watch next": of each season with anything left
\* it shows the latest touched row that has something to show, and rows keep
\* the order they were touched in.
RailIsLatest ==
  /\ \A i \in ToSet(recent) : Shows(i) # None =>
       \E k \in DOMAIN Rail : Rail[k].season = i[1]
  /\ \A k \in DOMAIN Rail : \E i \in ToSet(recent) :
       /\ i[1] = Rail[k].season /\ Shows(i) = Rail[k].entry
       /\ \A j \in ToSet(recent) : (j[1] = i[1] /\ Shows(j) # None) => Rank(i) <= Rank(j)
       /\ \A l \in DOMAIN Rail : l < k => \E j \in ToSet(recent) : j[1] = Rail[l].season /\ Rank(j) < Rank(i)

\* No play is counted that did not end or was not marked, and no minute is
\* credited that was not played, as long as no two handlers met on the item.
CountsAreEarned ==
  \A i \in Items \ lapped :
    /\ row[i].plays <= seen[i].finished + seen[i].marks
    /\ day[i].completions <= seen[i].finished + seen[i].marks
    /\ day[i].credit <= seen[i].played
=============================================================================
