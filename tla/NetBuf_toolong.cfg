SPECIFICATION NbSpec
CONSTANTS
  Bufs = {b1, b2}
  BufQueues = {q1, q2}
  Pad = 1
  Sizes = {2}
  Lens = {1, 2}
  MaxEnd = 4
INVARIANTS TooLongRefused
