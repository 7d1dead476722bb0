SPECIFICATION MCSpec
CONSTANTS
  Contexts = {m1, m2}
  Null = Null
  MaxElements = 3
  Packets = {p1, p2}
  Timers = {k1, k2}
  NoTimer = NoTimer
  NumRegs = 2
  MaxUses = 2
  Chips = {c1, c2}
  MaxDepth = 2
  Clients = {u1, u2}
  Asks <- MCAsks
  Bauds = {115200, 300}
  Works = {w1, w2, w3}
  Delayed = {w1, w2}
  NoWork = NoWork
  Cdevs = {d1, d2, d3}
  MaxCdevs = 2
  NoMinor = NoMinor
  MemTop = 11
  SizeMax = 9
  KmallocSize = 4
  MemSizes = {1, 4, 8, 9}
  Alignments = {1, 2, 4}
  MaxBlocks = 2
PROPERTIES FullPushFails
CHECK_DEADLOCK FALSE
