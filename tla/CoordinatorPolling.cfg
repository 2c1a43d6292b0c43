SPECIFICATION FairSpec
CONSTANTS
  Polls = {p1}
  Callers = {c1}
  NoTask = NoTask
  Silent = {"D", "H"}
  RatedPowers = {2}
  MaxActivePowers = {0}
  FallbackCharge = 3
  FallbackDischarge = 4
  SerialAt10750 = "S1"
  SerialAt10100 = "S1"
  NoSerial = "unknown"
  RestoreMode = 20
  OtherModes = {20}
  PowerRequests = {}
  ModeRequests = {}
  LimitModes = {}
  LimitValues = {}
  WatchdogRequests = {}
  MinWatchdog = 3
  MaxWatchdog = 5
  Threshold = 2
  RetryAfter = 3
  InitialFaults = {TRUE}
  ScanTicks = 2
CHECK_DEADLOCK FALSE
PROPERTIES UsesSkipList MeterServed PollsRecover CallsReturn
