SPECIFICATION Spec
CONSTANTS
  rg = rg
  bg = bg
  s1 = s1
  s2 = s2
  None = None
  Drivers = {d1}
  Groups = {rg, bg}
  Sectors = {s1, s2}
  SideOf <- MCSideOf
  Home <- MCHome
  Drift <- MCDrift
  Snapshots <- MCSnapshots
  Streams <- MCStreams
  Orders <- MCOrders
  Fresh = 1
  Decay = 2
  Archive = 3
  MaxClock = 3
  MaxIngests = 2
  MaxKills = 1
INVARIANT LastKnownWasSeen
