\* three calls, two spellings of one address, a hot tier of one; no symmetry, for the liveness
SPECIFICATION Spec
CONSTANTS
  a = a
  b = b
  c = c
  d = d
  ka = ka
  kc = kc
  kd = kd
  r1 = r1
  r2 = r2
  r3 = r3
  Calls = {r1, r2, r3}
  Spellings = {a, b, c}
  Blank = {c}
  Keys = {ka, kc}
  KeyOf <- MCKeyOf
  MaxId = 2
  MaxTime = 1
  HotTTL = 0
  ColdTTL = 0
  MaxHot = 1
  NoCall = NoCall
  NoEntry = NoEntry
INVARIANTS SingleFlight OwnAddress NoDeadTask
PROPERTIES NoStaleOverwrite EveryCallAnswered
