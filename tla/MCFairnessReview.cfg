CONSTANTS
  Coalitions = {"red", "blue"}
  Sectors = {"north", "south", "east", "west"}
  PointSectors <- MCPoints
  ZoneSectors <- MCZones
  ReserveGroups <- MCReserves
  None = None
  Sessions = {s1, s2}
  Decisions <- MCDecisions
  Begun <- MCBegun
  Worlds <- MCWorlds
  MaxMoves = 1
  MaxRequests = 3
SYMMETRY Symmetry
SPECIFICATION ReviewSpec
INVARIANTS ReviewTypeOK ReviewsHitTheirFinding VerdictsStand SettledIsTrue
