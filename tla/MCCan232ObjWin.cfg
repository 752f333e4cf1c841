SPECIFICATION Spec
CONSTANTS
  Threads = {t1, t2}
  Messages = {m1, m2}
  Calls = {"write", "read", "filter", "close"}
  MaxSnd = 1
  MaxRcv = 1
  BufSize = 2
  PollEvery = 0
  MaxMessages = 3
  MaxCommands = 1
  MaxFrames = 2
  LineCap = 3
SYMMETRY Symmetry
INVARIANTS TypeOK RoomKept OneMessageLate
PROPERTIES ImplementsFifo
