------------------------- MODULE MCPlaybackSessions -------------------------
(***************************************************************************)
(* Model-checking instances of PlaybackSessions: clients that overlap      *)
(* restarts, resets, stops and fallbacks as they please (Free), a client   *)
(* that sends one restart at a time, with the faults only such a client    *)
(* survives (Serial) and with children that die (Dying), and one that      *)
(* stops while it seeks (StopSeek).  No run of this module checks          *)
(* liveness, so symmetry is sound.                                         *)
(***************************************************************************)
EXTENDS PlaybackSessions, TLC

CONSTANTS s1, s2, r1, r2, r3, r4

MCSymmetry == Permutations(Requests) \cup Permutations(Sessions)

Free ==
  [sessions |-> 2, runs |-> 3, kinds |-> AllKinds,
   methods |-> {"DIRECT_PLAY", "TRANSCODE"}, hw |-> {TRUE},
   exits |-> {"exitedOk", "exitedBad"}, faults |-> {"prep", "commit", "write"},
   overlap |-> TRUE]

Serial ==
  [sessions |-> 1, runs |-> 4, kinds |-> {"start", "first", "seek", "switch"},
   methods |-> {"TRANSCODE"}, hw |-> {FALSE}, exits |-> {},
   faults |-> {"setup", "prep"}, overlap |-> FALSE]

Dying ==
  [Serial EXCEPT !.runs = 3, !.methods = {"REMUX", "TRANSCODE"}, !.exits = {"exitedBad"}]

StopSeek ==
  [sessions |-> 1, runs |-> 3, kinds |-> {"start", "seek", "stop"},
   methods |-> {"TRANSCODE"}, hw |-> {FALSE}, exits |-> {}, faults |-> {},
   overlap |-> FALSE]

MCWorlds == {Free, Serial, Dying}
StopSeekWorlds == {StopSeek}
=============================================================================
