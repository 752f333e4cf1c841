SPECIFICATION FairSpec
CONSTANTS
  Threads = {t1}
  Messages = {m1}
  NoData = {}
  Calls = {"write", "read", "close"}
  MaxSnd = 1
  MaxRcv = 1
  BufSize = 3
  PollEvery = 0
  MaxAckRetries = 0
  EmptyIsMinusOne = FALSE
  MaxAccepted = 1
  MaxCommands = 0
  MaxFrames = 1
  LineCap = 5
PROPERTY MutexReleased
