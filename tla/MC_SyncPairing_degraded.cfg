\* One master, one Sync, one call.
SPECIFICATION Spec
CONSTANTS
  Masters = {g1}
  Modulus = 3
  GeneralBufMax = 3
  FirstIds = {0, 2}
  TwoStep = {TRUE}
  MaxSyncs = 2
  MaxCopies = 0
  MaxCalls = 1
PROPERTIES
  DegradedOnlyWithoutSync
CHECK_DEADLOCK FALSE
