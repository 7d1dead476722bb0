SPECIFICATION MCSpec
CONSTANTS
  Callers = {}
  Clients = {c1, c2}
  Tokens = {t1, t2}
  NoToken = NoToken
  MaxPending = 2
  Wrap = 16
  DevmgrFirst = TRUE
  Devs = {d1, d2}
  Null = Null
  Ids = {1, 2}
  GadgetCalls = {k1, k2}
  SendFails = TRUE
  Bufs = {b1, b2}
  BufQueues = {q1, q2}
  Pad = 1
  Sizes = {1}
  Lens = {1, 2}
  MaxEnd = 3
  DsiTasks = {a1, a2}
  DsiIds = {0, 1}
  NoCntlr = NoCntlr
INVARIANTS WokenWhenAnswered ListedWaitsAlive AwakeNotSuspended
INVARIANTS ToldUnlessLost FoundInfoAlive GadgetToldLast
INVARIANTS SegmentsOK QueuedOnce MutualExclusion
SYMMETRY Symmetry
CHECK_DEADLOCK FALSE
