SPECIFICATION Spec
CONSTANTS
  Rets <- MCRets
  Delays <- MCDelays
  Half = 4
  MaxErrno = 3
  Part = 2
  Whole = 3
  MaxCalls = 4
INVARIANTS
  TypeOK
  MedianInTheMiddle
  FewAboveTail
  FailedAreErrors
