SPECIFICATION Spec
CONSTANTS
  p1 = p1
  Processes = {p1}
  Callers = {g1, g2, g3}
  Owner <- OneProcess
  EventIds = {"a", "b"}
  Notices = {"n"}
  Nobody = Nobody
  Nothing = Nothing
  Cuts = {"partial"}
  MaxCalls = 4
  MaxClears = 1
  MaxCrashes = 1
  MaxFaults = 1
INVARIANTS
  TypeOK
  ChainValid
  AckedStays
PROPERTIES
  NoGrantOfLogged
  LoudAfterCut
  KeepsAuditLog
