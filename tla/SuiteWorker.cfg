SPECIFICATION SuiteSpec
CHECK_DEADLOCK FALSE
CONSTANTS
  Downloads = {d1}
  Attempts = 3
  MaxCrashes = 1
  Chain <- TwoProviders
  Entries = {"x", "y"}
  Gate <- OnlyBFinds
  Serves <- OnlyBServes
  Alternate <- NoRiders
  Polls = {"B"}
  Down = {}
  Threshold = 2
  MaxEdits = 1
  None = "none"
  Locals <- FourEpisodes
  Primary <- FromEleven
  Cours <- SecondCour
  Maze <- SplitElse
  Linked = TRUE
  Late <- LastOne
  DeadSets <- NoneOrOne
INVARIANTS
  CopiesAreWhole
  MatchesAreSteady
  
PROPERTIES
  DeletedStaysDeleted
  WorkIsDone
  TreeSettles
