SPECIFICATION Spec
CONSTANTS
  Messages <- MCMessages
  Others <- MCOthers
  Stamps <- MCStamps
  MaxSent = 2
  MaxOthers = 1
INVARIANT MessageReachesBus
CHECK_DEADLOCK FALSE
