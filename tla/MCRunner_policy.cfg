SPECIFICATION FairSpec
CONSTANTS
  Goroutines = {g1}
  Events <- AllEvents
  EventIds = {"e", "a", "c", "d", "v"}
  Customers = {c1}
  c1 = c1
  Batches <- AllBatches
  Clocks <- DayAndNight
  Tunables <- DefaultTunables
  MaxBatch = 20
  GuardLimit = 6
  MaxDeliveries = 1
  MaxCrashes = 0
  MaxFaults = 0
  NoEvent = NoEvent
INVARIANTS
  CappedTouches
  LockedRulesHold
  PromiseHonoured
PROPERTIES
  EveryRunEnds
