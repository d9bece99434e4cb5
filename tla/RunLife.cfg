SPECIFICATION FairSpec
CONSTANTS
  Pids = {1, 2}
  HostGroup <- MCHostGroup
  RootGroup <- MCRootGroup
  MaxStarts = 2
INVARIANTS
  TypeOK
  CapturesContainer
PROPERTIES
  ImplementsPhases
  WindowBounded
