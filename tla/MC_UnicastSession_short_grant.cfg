\* The grandmaster may grant half of what it is asked for; nothing is lost.
SPECIFICATION Spec
CONSTANTS
  Duration = 12
  MinMargin = 4
  RequestTimeout = 1
  RetrySleep = 1
  AnnounceTimeout = 1
  SyncTimeout = 1
  DelayTimeout = 1
  Intervals = {2}
  Limits = {0}
  JoinTimeout = 1
  NegotiateDelayResp = FALSE
  Callers = {"lab"}
  GrantDurations = {6, 12}
  GeneralBufMax = 2
  MaxLosses = 0
  MaxDenials = 1
  MaxRefusals = 1
INVARIANTS
  ContractKept
