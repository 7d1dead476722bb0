SPECIFICATION FairSpec
CONSTANTS
  Threads = {t1, t2}
  Nobody = Nobody
  MaxSetup = 2
  MaxAio = 0
  FifoSlots = 1
  Raisable = {"BIND", "UNBIND", "SETUP"}
  Smp = FALSE
  SyncIorw = FALSE
  Signals = TRUE
INVARIANTS HolderInside PendingIsTold QueueDistinct
PROPERTIES EndsItsOwnRequest AnswerReturns
CHECK_DEADLOCK FALSE
