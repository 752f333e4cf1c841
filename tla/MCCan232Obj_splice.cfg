SPECIFICATION Spec
CONSTANTS
  Threads = {t1}
  Messages = {m1}
  NoData = {}
  Calls = {"write", "read", "close"}
  MaxSnd = 1
  MaxRcv = 2
  BufSize = 3
  PollEvery = 0
  MaxAckRetries = 5
  EmptyIsMinusOne = TRUE
  MaxAccepted = 1
  MaxCommands = 0
  MaxFrames = 2
  LineCap = 5
INVARIANT WholeFrames
