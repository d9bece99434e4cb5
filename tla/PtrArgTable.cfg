SPECIFICATION Spec
CONSTANTS
  NumArgs = 3
  BufSize = 3
  MaxRuns = 2
  Syscalls <- MCSyscalls
  Fields <- MCFields
  Formats <- MCFormats
  LineLen <- MCLineLen
INVARIANTS
  TypeOK
  UnmarkedIsExplained
  RunsWithLargest
