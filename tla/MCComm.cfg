SPECIFICATION PortsSpec
CONSTANTS
  Threads = {t1, t2}
  Sizes = {1, 3}
  MaxChars = 3
INVARIANTS TypeOK DeviceReleased TimeoutsRestored
PROPERTIES ImplementsPort MutexReleased
