--------------------------- MODULE MCWatchClient ---------------------------
(* WatchClient: a title change with one gesture, and one title with two.    *)
EXTENDS WatchClient

MCWorlds ==
  { [fault |-> "none",  lossy |-> FALSE, gestures |-> 1, moves |-> 1],
    [fault |-> "video", lossy |-> FALSE, gestures |-> 2, moves |-> 0],
    [fault |-> "video", lossy |-> TRUE, gestures |-> 1, moves |-> 0],
    [fault |-> "video", lossy |-> TRUE, gestures |-> 0, moves |-> 1] }
============================================================================
