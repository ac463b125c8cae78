SPECIFICATION Spec
CONSTANTS
  Last = 2
  Ids = {1, 2, 3, 4}
  MaxFiles = 2
  MaxTroubles = 2
PROPERTIES
  HistoryStays
  LibraryConverges
