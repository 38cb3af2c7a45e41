\* expected to fail: a command whose reply is lost
SPECIFICATION Spec
CONSTANTS
  r1 = r1
  r2 = r2
  Callers = {r1, r2}
  Preflight = Preflight
  MaxSize = 1
  StatementTimeout = 2
  HatchTimeout = 2
  CommandGrace = 3
  DrainGrace = 1
  MaxCloseTimeout = 3
  Keepalive = 9
  None = None
PROPERTIES TimeoutDegrades
