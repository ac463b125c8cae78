------------------------------ MODULE SlotPool ------------------------------
(***************************************************************************)
(* What the transcode semaphore promises its callers: a pool of at most    *)
(* MaxTranscodes slots.  A slot is granted while one is spare, returned,   *)
(* or passed straight from the client that frees it to another client.     *)
(* How callers queue is left open; TranscodeSlot says that.                *)
(***************************************************************************)
EXTENDS Naturals, FiniteSets

CONSTANTS Clients,       \* whoever may hold a slot
          MaxTranscodes  \* the number of slots

VARIABLE holders         \* the clients that hold a slot

Init == holders = {}

Grant(c) ==
  /\ c \notin holders
  /\ Cardinality(holders) < MaxTranscodes
  /\ holders' = holders \cup {c}

Return(c) ==
  /\ c \in holders
  /\ holders' = holders \ {c}

Transfer(c, d) ==
  /\ c \in holders
  /\ d \notin holders
  /\ holders' = (holders \ {c}) \cup {d}

Next ==
  \/ \E c \in Clients : Grant(c) \/ Return(c)
  \/ \E c, d \in Clients : Transfer(c, d)

Spec == Init /\ [][Next]_holders
=============================================================================
