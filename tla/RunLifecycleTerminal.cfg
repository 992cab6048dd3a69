CONSTANTS
  Operators = {o1}
  Loops = {l1}
  MatrixLoops = {}
  MaxCommands = 2
  None = None
  Backends = {"b1", "b2", "b3"}
  Enabled = {"b1", "b2"}
  Catalog <- MCCatalog
  Section <- MCSection
  Case <- MCCase
  AdhocName <- MCAdhocName
  Broken = Broken
  NoBackend = NoBackend
  Patchers = {}
  Requests = {}
  MaxPatches = 0
SPECIFICATION RoutedSpec
INVARIANTS TerminalIsFinal
