SPECIFICATION Spec
CHECK_DEADLOCK FALSE
CONSTANTS
  Episodes <- TwoSeasons
  Films = {}
  End = 2
  MaxBeats = 2
  MaxEdits = 1
  Titles = {m}
  Flushes = {1, 2}
  MaxSaves = 3
  MaxOutages = 2
  MaxRows = 2
  MaxFaults = 1
  Leaves = {"e1", "m"}
  Libraries <- OneOfEach
  Ancestors = {"s"}
  Parent <- ParentOf
  Covers = {"e1"}
  Shots <- Candidates
  Offers <- Shipped
  Tiles = 2
  Ends = 1
  Fanout = 1
  Teams = {1, 2}
  MaxVersions = 2
  Threshold = 2
  MaxTroubles = 2
  Duration = 8
  Margin = 3
  Inputs <- TwoFiles
  Hosts <- TwoHosts
  Requested = "auto"
  Files <- TwoSources
  Profiles <- TwoProfiles
  MaxDeaths = 2
  MaxCooldowns = 1
  MaxSeeks = 1
  Viewers = {"u", "v"}
  Row <- TwoTracks
  Profile <- TwoClients
  Defects <- SomeDefects
  StartCaps = {3}
  MaxMenu = 1
  MaxBusy = 1
  MaxHiccups = 1
  MaxRescans = 1
INVARIANTS
  
  ProgressIsKept
  EntriesArePlayable
  AnchoredStartsAreExact
PROPERTIES
  PicturesAreEarned
  
  LadderHolds
