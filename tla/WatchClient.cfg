SPECIFICATION PageSpec
CHECK_DEADLOCK FALSE
CONSTANTS
  Titles = {1, 2}
  MaxStarts = 2
  MaxAnchor = 1
  MaxTries = 1
  Worlds <- MCWorlds
PROPERTIES
  StreamsStayAligned
  PageSettles
  
