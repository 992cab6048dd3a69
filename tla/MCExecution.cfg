CONSTANTS
  Sectors <- FrontSectors
  Neighbours <- FrontNeighbours
  Points <- FrontPoints
  Zones <- FrontZones
  Site <- FrontSite
  NoDeploy <- FrontNoDeploy
  Units <- FrontUnits
  Foreign <- FrontForeign
  Immobile <- FrontImmobile
  Spent <- FrontSpent
  Reserves <- FrontReserves
  Cost <- FrontCost
  AllowedSectors <- FrontAllowed
  FiresReserves <- FrontFires
  DeployedAs <- FrontDeployedAs
  None = None
  Drivers = {d1}
  Batches <- FrontBatches
  Home <- FrontHome
  Shown <- FrontShown
  Budget0 = 5
  MaxBatches = 2
  Faults = {"refused", "lost", "locked", "killed"}
SPECIFICATION FairSpec
INVARIANTS TypeOK PlansFindTheirGroups ExecutedOnce DuplicatesAreCurrent
PROPERTIES ImplementsReservePool OnlySkipsMoveUncommanded CyclesEnd
