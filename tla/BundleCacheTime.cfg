\* three addresses over a hot tier of two, and time for both tiers to expire
SPECIFICATION Spec
CONSTANTS
  a = a
  b = b
  c = c
  d = d
  ka = ka
  kc = kc
  kd = kd
  r1 = r1
  r2 = r2
  r3 = r3
  Calls = {r1, r2, r3}
  Spellings = {a, c, d}
  Blank = {c}
  Keys = {ka, kc, kd}
  KeyOf <- MCKeyOf
  MaxId = 3
  MaxTime = 2
  HotTTL = 1
  ColdTTL = 1
  MaxHot = 2
  NoCall = NoCall
  NoEntry = NoEntry
SYMMETRY Symmetry
INVARIANTS TypeOK LeastRecentFirst HotAge
PROPERTIES Recoverable EvictedOnlyWhenFull AddressServiceSpec
