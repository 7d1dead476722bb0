SPECIFICATION Spec
CONSTANTS
  Threads = {t1, t2}
  Nobody = Nobody
  MaxSetup = 1
  MaxAio = 1
  FifoSlots = 1
  Raisable = {"BIND", "SETUP", "SUSPEND", "RESUME"}
  Smp = TRUE
  SyncIorw = TRUE
  Signals = TRUE
SYMMETRY Symmetry
INVARIANTS TypeOK QueueBounded LatestKept
CHECK_DEADLOCK FALSE
