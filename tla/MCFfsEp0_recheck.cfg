SPECIFICATION Spec
CONSTANTS
  Threads = {t1, t2}
  Nobody = Nobody
  MaxSetup = 1
  MaxAio = 0
  FifoSlots = 1
  Raisable = {"BIND", "SETUP", "RESUME"}
  Smp = FALSE
  SyncIorw = FALSE
  Signals = FALSE
PROPERTIES RecheckNotNoSetup
CHECK_DEADLOCK FALSE
