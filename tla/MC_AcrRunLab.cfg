\* Two runs that want the same ports, and one packet besides those of the teardown.
SPECIFICATION FairSpec
CONSTANTS
  MaxRuns = 2
  Free = Free
  MaxPackets = 1
INVARIANTS
  TypeOK
  PollsAddUp
  PortsTraceable
  NothingLeftBehind
PROPERTIES
  StopFinishes
CHECK_DEADLOCK FALSE
