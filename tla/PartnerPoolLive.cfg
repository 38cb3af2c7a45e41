\* one connection, the real times in ticks of ten seconds, and a hatch whose
\* budget exceeds command_timeout, so that the client gives up on it
SPECIFICATION Spec
CONSTANTS
  r1 = r1
  r2 = r2
  Callers = {r1, r2}
  Preflight = Preflight
  MaxSize = 1
  StatementTimeout = 2
  HatchTimeout = 6
  CommandGrace = 3
  DrainGrace = 1
  MaxCloseTimeout = 3
  Keepalive = 9
  None = None
PROPERTIES EveryRequestEnds CloseReturns
