SPECIFICATION Spec
CONSTANTS
  t1 = t1
  t2 = t2
  target = target
  other = other
  Tids <- OneTid
  Cgroups <- OneCgroup
  Target = target
  Ids <- MCIds
  TableSize <- MCTableSize
  MaxInflight = 1
  RingSlots = 1
  MaxClock = 3
  MaxPos = 3
INVARIANTS
  PairedWithOwnEnter
