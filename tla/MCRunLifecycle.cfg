CONSTANTS
  Operators = {o1, o2}
  Loops = {l1, m1}
  MatrixLoops = {m1}
  MaxCommands = 2
  None = None
  Backends = {"b1", "b2", "b3"}
  Enabled = {"b1", "b2"}
  Catalog <- MCCatalog
  Section <- MCSection
  Case <- MCCase
  AdhocName <- MCAdhocName
  Broken = Broken
  NoBackend = NoBackend
  Patchers = {w1}
  Requests <- MCRequests
  MaxPatches = 1
SPECIFICATION FairRoutedSpec
INVARIANTS RoutedTypeOK LeavingCreatedIsStamped PausedAtTellsThePause CyclesRunOnStartedRuns EveryChainIsServed
PROPERTIES OnlyOvertakenWritersBreakTheTable PauseDrainsTheLoops RoutingSettles
