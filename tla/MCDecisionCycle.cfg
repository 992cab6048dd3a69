CONSTANTS
  Drivers = {live, dry}
  Live = {live}
  Backends = {"a", "b", "c"}
  Retries <- Attempts
  Replies <- Kinds
  Routings <- RunRoutings
  Starts = {1}
  MaxCycle = 2
  MaxBegun = 2
  MaxDeaths = 1
  MaxJudged = 2
  None = None

SPECIFICATION FairSpec
INVARIANTS TypeOK RecordsTellTheCalls CyclesCiteTheirOwn
PROPERTIES ImplementsLedger FailuresAreRecorded EveryCycleEnds
