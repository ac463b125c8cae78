SPECIFICATION Spec
CHECK_DEADLOCK FALSE
CONSTANTS
  Profiles = {h, g}
  Host = h
  Requests = {1, 2}
  Reaper = reaper
  None = None
PROPERTIES HostlessOnlyByCommand PartySettles
