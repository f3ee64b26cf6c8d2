SPECIFICATION FairSpec
CHECK_DEADLOCK FALSE
CONSTANTS
  Writers = {w1, w2}
  Demo = Demo
  Connections = {k1, k2}
  Nobody = Nobody
  Capacity = 1
  MaxRows = 2
  MaxStatuses = 1
  MaxBreaks = 1
  MaxFaults = 1
INVARIANTS
  TypeOK
  NoPanic
  NoGap
  ReplayThenLive
PROPERTIES
  AppendsReturn
  RowsArrive
