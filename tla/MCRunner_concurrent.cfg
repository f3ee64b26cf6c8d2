SPECIFICATION Spec
CONSTANTS
  Goroutines = {g1, g2, g3}
  Events <- OneEvent
  EventIds = {"a"}
  Customers = {c1}
  c1 = c1
  Batches <- OneBatch
  Clocks <- DayClock
  Tunables <- SmallTunables
  MaxBatch = 20
  GuardLimit = 6
  MaxDeliveries = 4
  MaxCrashes = 1
  MaxFaults = 1
  NoEvent = NoEvent
SYMMETRY GoroutineSymmetry
INVARIANTS
  TypeOK
  AtMostOnce
  AuditBeforeAction
PROPERTIES
  NoActionAfterSettled
