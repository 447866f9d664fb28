\* One denial may be sent for each service, and counts go to three.
SPECIFICATION Spec
CONSTANTS
  Duration = 12
  MinMargin = 8
  RequestTimeout = 1
  RetrySleep = 1
  AnnounceTimeout = 1
  SyncTimeout = 1
  DelayTimeout = 1
  Intervals = {2}
  Limits = {0}
  JoinTimeout = 1
  NegotiateDelayResp = FALSE
  Callers = {"lab"}
  GrantDurations = {0, 12}
  GeneralBufMax = 2
  MaxLosses = 0
  MaxDenials = 3
  MaxRefusals = 1
INVARIANTS
  DenialsCounted
