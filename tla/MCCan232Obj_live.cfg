SPECIFICATION FairSpec
CONSTANTS
  Threads = {t1, t2}
  Messages = {m1}
  NoData = {}
  Calls = {"write", "filter", "close"}
  MaxSnd = 1
  MaxRcv = 2
  BufSize = 3
  PollEvery = 0
  MaxAckRetries = 1
  EmptyIsMinusOne = TRUE
  MaxAccepted = 2
  MaxCommands = 1
  MaxFrames = 2
  LineCap = 4
INVARIANTS TypeOK ReceiveOrder LosslessReception
PROPERTIES PortQuiet MutexReleased CloseReturns AcceptedIsWritten
