SPECIFICATION FairSpec
CONSTANTS
  t1 = t1
  t2 = t2
  target = target
  other = other
  Tids <- TwoTids
  Cgroups <- TwoCgroups
  Target = target
  Ids <- MCIds
  TableSize <- MCTableSize
  MaxInflight = 1
  RingSlots = 2
  MaxClock = 2
  MaxPos = 3
INVARIANTS
  TypeOK
  EntryOfPresentCall
  MispairedOnlyAfterLoss
  TidIntervalsInOrder
  EventsFromTarget
  ReservationsSettled
PROPERTIES
  ImplementsTrace
  CompletedCallIsRead
