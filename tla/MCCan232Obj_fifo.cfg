SPECIFICATION Spec
CONSTANTS
  Threads = {t1, t2}
  Messages = {m1, m2}
  NoData = {m2}
  Calls = {"write", "read", "close"}
  MaxSnd = 2
  MaxRcv = 1
  BufSize = 3
  PollEvery = 0
  MaxAckRetries = 0
  EmptyIsMinusOne = TRUE
  MaxAccepted = 2
  MaxCommands = 0
  MaxFrames = 2
  LineCap = 5
SYMMETRY ThreadSymmetry
INVARIANTS SendOrder ReceiveOrder Statistics
PROPERTIES ImplementsFifo
