CONSTANTS
  Sectors <- FrontSectors
  Neighbours <- FrontNeighbours
  Points <- FrontPoints
  Zones <- FrontZones
  Site <- FrontSite
  NoDeploy <- FrontNoDeploy
  Units <- FrontUnits
  Foreign <- FrontForeign
  Immobile <- FrontImmobile
  Spent <- FrontSpent
  Reserves <- FrontReserves
  Cost <- FrontCost
  AllowedSectors <- FrontAllowed
  FiresReserves <- FrontFires
  DeployedAs <- FrontDeployedAs
  None = None
  Views <- FrontViews
  Menu <- FrontMenu
  Levels <- FrontLevels
  MaxBatch = 2
SPECIFICATION Spec
INVARIANTS BudgetPaysForTheBatch
