SPECIFICATION Spec
CHECK_DEADLOCK FALSE
CONSTANTS
  s1 = s1
  s2 = s2
  r1 = r1
  r2 = r2
  r3 = r3
  r4 = r4
  None = None
  Sessions = {s1}
  Requests = {r1, r2, r3}
  MaxTranscodes = 2
  Worlds <- StopSeekWorlds
SYMMETRY MCSymmetry
INVARIANT
  StoppedIsGone
