\* two connections, with the shortest times that keep the order of the real ones
SPECIFICATION Spec
CONSTANTS
  r1 = r1
  r2 = r2
  Callers = {r1, r2}
  Preflight = Preflight
  MaxSize = 2
  StatementTimeout = 1
  HatchTimeout = 1
  CommandGrace = 1
  DrainGrace = 1
  MaxCloseTimeout = 2
  Keepalive = 3
  None = None
INVARIANTS TypeOK EveryCommandBounded
PROPERTIES ServerBoundFirst DrainSuffices
