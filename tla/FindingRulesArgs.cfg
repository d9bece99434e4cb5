SPECIFICATION Spec
CONSTANTS
  Ids = {0, 10, 41, 101, 272, 500}
  SyscallTable <- MCTable
  Calls <- MCCalls
  TargetSyscalls <- MCTargets
  MinCalled = 2
  RatePart = 1
  RateWhole = 2
  WarningP50 = 5
  WarningP99 = 50
  Half = 128
  MaxErrno = 127
  MaxEvents = 2
INVARIANTS
  SensitiveArgsFound
