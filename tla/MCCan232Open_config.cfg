SPECIFICATION Spec
CONSTANTS
  Configs <- MCConfigs
  MaxTries = 3
  ResponseCap = 3
  LineCap = 6
INVARIANT AsDocumented
