SPECIFICATION Spec
CONSTANTS
  read = read
  nameless = nameless
  futex = futex
  Zero = read
  Broken = Broken
  Ids <- MCIds
  Selected <- MCSelected
  Named <- MCNamed
  MaxEvents = 1
  MayFail = FALSE
INVARIANTS
  SummaryBeforeExit
