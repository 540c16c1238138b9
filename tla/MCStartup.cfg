SPECIFICATION Spec
CONSTANTS
  p = p
  X = X
  Y = Y
  EU = EU
  GB = GB
  Process = {p}
  Tool = Tool
  Absent = Absent
  BLANK = BLANK
  NO_ADDR = NO_ADDR
  Contents <- MCContents
  Setups <- MCSetups
  CompiledIn = {42, 43, 50}
  MaxVersions = 3
  MaxStarts = 2
  MaxCrashes = 1
INVARIANTS
  RunsOnAcknowledgedVersion
  EverySymbolRequested
PROPERTY
  StartupEnds
CHECK_DEADLOCK FALSE
