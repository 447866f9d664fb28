\* Every way to run a session: one or many exchanges, with and without a limit.
\* MinMargin is the least that one lost message and a late start leave enough.
SPECIFICATION FairSpec
CONSTANTS
  Duration = 10
  MinMargin = 6
  RequestTimeout = 1
  RetrySleep = 1
  AnnounceTimeout = 1
  SyncTimeout = 1
  DelayTimeout = 1
  Intervals = {0, 2}
  Limits = {0, 5}
  JoinTimeout = 1
  NegotiateDelayResp = FALSE
  Callers = {"lab", "cli_cancel_after"}
  GrantDurations = {0, 10}
  GeneralBufMax = 2
  MaxLosses = 1
  MaxDenials = 1
  MaxRefusals = 1
INVARIANTS
  TypeOK
  ContractKept
  LabLeavesNothing
PROPERTIES
  IsLease
  StopEnds
