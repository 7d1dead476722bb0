SPECIFICATION Spec
CONSTANTS
  Threads = {t1}
  Nobody = Nobody
  MaxSetup = 2
  MaxAio = 0
  FifoSlots = 1
  Raisable = {"BIND", "SETUP"}
  Smp = TRUE
  SyncIorw = FALSE
  Signals = FALSE
PROPERTIES PendingEndsUnderMutex
CHECK_DEADLOCK FALSE
