SPECIFICATION FairSpec
CONSTANTS
  read = read
  nameless = nameless
  futex = futex
  Zero = read
  Broken = Broken
  Ids <- MCIds
  Selected <- MCSelected
  Named <- MCNamed
  MaxEvents = 2
  MayFail = TRUE
INVARIANTS
  TypeOK
  NothingInHandAtReturn
  JsonIsTakenButOne
  QuietReportsExact
PROPERTIES
  ImplementsReport
  WindowEnds
