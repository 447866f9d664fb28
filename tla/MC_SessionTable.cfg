\* Three slaves for two places, two tokens per second, half-second ticks.
SPECIFICATION Spec
CONSTANTS
  Slaves = {s1, s2, s3}
  Macs = {m1}
  MaxSlaves = 2
  Rate = 2
  TicksPerSec = 2
  Timeout = 1
  MaxTime = 4
  MaxRequests = 3
SYMMETRY SlaveSymmetry
INVARIANTS
  TypeOK
  TableBounded
  SessionRateBound
PROPERTIES
  LiveSessionsStay
CHECK_DEADLOCK FALSE
