SPECIFICATION SuiteSpec
CHECK_DEADLOCK FALSE
CONSTANTS
  Downloads = {d1, d2}
  Titles = {t1}
  Cap = 1
  MaxCrashes = 1
  None = None
  Imports = {"j1", "j2"}
  Names = {"short", "full", "romaji", "junk"}
  Files = {"f"}
  Within <- Contained
  SeriesLike = {"short", "full", "romaji"}
  Canon = "full"
  Alias = "romaji"
  Asks <- TwoAsks
  Ids = {"ext"}
  Tokens = {"t"}
  MaxRegs = 2
  MaxClicks = 2
INVARIANTS
  RunsOnce
  LibraryIsWhole
  NoStrayDownloader
  
PROPERTIES
  EndsForItsOwnReasons
  AcquisitionsSettle
