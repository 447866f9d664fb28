\* Two slaves share one place, two requests may wait in the queue; fair threads,
\* hence no symmetry.
SPECIFICATION FairSpec
CONSTANTS
  Slaves = {s1, s2}
  Macs = {m1}
  MaxSlaves = 1
  Rate = 1
  TicksPerSec = 1
  Timeout = 1
  MaxTime = 2
  MaxRequests = 4
  QueueSize = 2
  Discards = {"rx_other_type"}
  MaxFrames = 3
INVARIANTS
  TypeOK
  RequestsAccounted
  AnsweredOnceInOrder
PROPERTIES
  EveryRequestSettles
  StopCompletes
CHECK_DEADLOCK FALSE
