SPECIFICATION SuiteSpec
CHECK_DEADLOCK FALSE
CONSTANTS
  People = {a1, a2}
  Sessions = {s1, s2}
  Requests = {1, 2, 3}
  Guards = {g1}
  TTL = 2
  MaxStops = 1
  Servers = {api, other}
  Api = api
  None = None
  Members = {m1, m2, m3}
  Founders = {{m1}, {m1, m2}}
  Invites = {i1}
  Keys = {k1}
  Devices = {d1, d2}
  Users = {"ann", "ben"}
  Calls = {c1, c2}
  MaxSessions = 2
  Stored <- OneKept
  MaxFaults = 1
INVARIANTS
  SecretsAgree
  MintsArePaid
  LiveCallsPass
  HouseholdIsKept
PROPERTY RevocationBites
