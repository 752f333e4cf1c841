SPECIFICATION Spec
CONSTANTS
  Threads = {t1, t2}
  Messages = {m1, m2}
  Calls = {"write", "read"}
  MaxSnd = 2
  MaxRcv = 1
  BufSize = 2
  PollEvery = 0
  MaxMessages = 2
  MaxCommands = 0
  MaxFrames = 1
  LineCap = 4
INVARIANT ListsExclusive
