SPECIFICATION Spec
CONSTANTS
  w1 = w1
  Fault = Fault
  Unread = Unread
  NumArgs = 3
  Words <- MCWords
  Pointers <- MCPointers
INVARIANTS
  TypeOK
  ReportedWasThere
  EnterWordKept
  ZeroIsExplained
