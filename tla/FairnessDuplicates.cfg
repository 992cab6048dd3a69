CONSTANTS
  Coalitions = {"red", "blue"}
  Sectors = {"north", "south", "east", "west"}
  PointSectors <- MCPoints
  ZoneSectors <- MCZones
  ReserveGroups <- MCReserves
  None = None
  Sessions = {s1}
  Decisions <- StillDecisions
  Begun <- MCBegun
  Worlds <- StillWorlds
  MaxMoves = 0
  MaxRequests = 2
SPECIFICATION ReviewSpec
PROPERTY ReviewsShortenTheQueue
