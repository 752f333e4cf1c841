SPECIFICATION Spec
CONSTANTS
  Messages <- MCMessages
  Others <- MCOthers
  Stamps <- MCStamps
  MaxSent = 3
  MaxOthers = 1
INVARIANTS TypeOK DataReachesBus Understood
CHECK_DEADLOCK FALSE
