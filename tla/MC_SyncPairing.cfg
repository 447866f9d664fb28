\* Two masters that send the same numbers, across the wrap from 2 to 0; the
\* buffer holds three of the messages they send.
SPECIFICATION FairSpec
CONSTANTS
  Masters = {g1, g2}
  Modulus = 3
  GeneralBufMax = 3
  FirstIds = {2}
  TwoStep = {TRUE, FALSE}
  MaxSyncs = 2
  MaxCopies = 1
  MaxCalls = 2
INVARIANTS
  TypeOK
  SamplePaired
  SampleIsFresh
  DelayAnswered
PROPERTIES
  CallEnds
CHECK_DEADLOCK FALSE
