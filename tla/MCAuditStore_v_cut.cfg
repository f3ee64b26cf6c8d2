SPECIFICATION Spec
CONSTANTS
  p1 = p1
  Processes = {p1}
  Callers = {g1, g2}
  Owner <- OneProcess
  EventIds = {"a", "b"}
  Notices = {"n"}
  Nobody = Nobody
  Nothing = Nothing
  Cuts = {"partial", "unterminated"}
  MaxCalls = 4
  MaxClears = 0
  MaxCrashes = 1
  MaxFaults = 1
PROPERTIES
  LoudAfterCut
