CONSTANTS
  Sectors <- FrontSectors
  Neighbours <- FrontNeighbours
  Points <- FrontPoints
  Zones <- FrontZones
  Site <- FrontSite
  NoDeploy <- FrontNoDeploy
  Units <- FrontUnits
  Foreign <- FrontForeign
  Immobile <- FrontImmobile
  Spent <- FrontSpent
  Reserves <- FrontReserves
  Cost <- FrontCost
  AllowedSectors <- FrontAllowed
  FiresReserves <- FrontFires
  DeployedAs <- FrontDeployedAs
  None = None
  Drivers = {d1}
  Batches <- ThereAndBack
  Home <- FrontHome
  Shown <- FrontShown
  Budget0 = 5
  MaxBatches = 3
  Faults = {}
SPECIFICATION Spec
INVARIANTS SkippedWritesAreInForce
