SPECIFICATION Spec
CHECK_DEADLOCK FALSE
CONSTANTS
  s1 = s1
  s2 = s2
  r1 = r1
  r2 = r2
  r3 = r3
  r4 = r4
  None = None
  Sessions = {s1, s2}
  Requests = {r1, r2, r3, r4}
  MaxTranscodes = 1
  Worlds <- MCWorlds
SYMMETRY MCSymmetry
INVARIANTS
  SlotsAreOwned
  EntriesAreOwned
PROPERTIES
  CancelledStays
