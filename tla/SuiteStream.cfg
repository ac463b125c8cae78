SPECIFICATION SuiteSpec
CHECK_DEADLOCK FALSE
CONSTANTS
  None = None
  c1 = c1
  c2 = c2
  c3 = c3
  c4 = c4
  c5 = c5
  Clients <- MCClients
  MaxTranscodes = 2
  Passes = {p1, p2}
  Streams = {s1}
  Ghosts = {g1}
  MaxSpawns = 1
  GpuLimit = 1
  GateFaults = 2
  SegmentCount = 2
  Players = {q1}
  MaxRuns = 2
  SegmentFaults = 1
  Fragments = 2
  Readers = {r1}
  MaxFiles = 2
  RemuxFaults = 1
INVARIANTS
  PoolConsistent
  
PROPERTIES
  NoBarging
  EveryWaitSettles
  ImplementsPool
  StreamsSettle
