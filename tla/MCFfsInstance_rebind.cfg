SPECIFICATION MCSpec
CONSTANTS
  Instances = {i1, i2}
  None = None
  Orderly = TRUE
  FileThreads = {f1, f2}
  NoThread = NoThread
  Aios = {r1, r2}
  MaxFunc = 2
  FileEvents = 1
  Blocks <- MCBlocks
  StringBlocks <- MCStringBlocks
  MaxEps = 3
  MaxSlots = 3
  Phys = {4, 5}
  StrWrap = 16
  OsBlocks <- MCOsBlocks
  Interfaces = 2
  MaxProps = 2
  Rebind = TRUE
  Drained = TRUE
  Users = {m1}
  Releasers = {x1, x2}
  MaxAddr = 3
  MaxAreas = 2
  Pollers = {p1, p2}
  Daemon = p1
  MaxCount = 2
INVARIANTS ArraysFilled
CHECK_DEADLOCK FALSE
