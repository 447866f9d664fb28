\* Sends that fail, updates at any moment, late wake-ups, stop() and a clock that is set.
SPECIFICATION Spec
CONSTANTS
  InitialConfig <- Defaults
  Patches <- Updates
  Updaters = {u1}
  EarlyUpdates = FALSE
  LogRange <- Logs
  TicksPerSec = 4
  WaitCap = 2
  BackoffMin = 3
  BackoffMax = 4
  SeqMod = 2
  MaxLate = 1
  MaxTime = 12
  MaxFaults = 2
  Jumps <- BothWays
  MaxJumps = 1
INVARIANTS
  TypeOK
  Aligned
  UpdateTakesEffect
PROPERTIES
  BoundariesServedOnce
  FollowUpPaired
  EveryBoundaryServed
CHECK_DEADLOCK FALSE
