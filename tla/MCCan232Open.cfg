SPECIFICATION FairSpec
CONSTANTS
  Configs <- MCConfigs
  MaxTries = 3
  ResponseCap = 3
  LineCap = 6
INVARIANTS TypeOK FailureReleasesPort OpensBusAsAsked AsConfigured FindsAdapter
  PollsUnlessAuto
PROPERTIES OpenReturns
