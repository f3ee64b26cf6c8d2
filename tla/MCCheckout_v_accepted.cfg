SPECIFICATION Spec
CHECK_DEADLOCK FALSE
CONSTANTS
  Checkouts = {c1, c2}
  Deliveries = {d1, d2}
  Nobody = Nobody
  Events = {"captured"}
  MaxCrashes = 0
  MaxFaults = 1
INVARIANTS
  AcceptedIsRecorded
