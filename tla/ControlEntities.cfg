SPECIFICATION ESpec
CONSTANTS
  Polls = {p1}
  Callers = {c1}
  NoTask = NoTask
  Silent = {"H", "M"}
  RatedPowers = {2}
  MaxActivePowers = {0, 2}
  FallbackCharge = 3
  FallbackDischarge = 4
  SerialAt10750 = "S1"
  SerialAt10100 = "S1"
  NoSerial = "unknown"
  RestoreMode = 20
  OtherModes = {20}
  PowerRequests = {9}
  ModeRequests = {20}
  LimitModes = {1}
  LimitValues = {2}
  WatchdogRequests = {0, 6}
  MinWatchdog = 0
  MaxWatchdog = 5
  Threshold = 1
  RetryAfter = 3
  InitialFaults = {FALSE}
  ScanTicks = 0
  PercentMode = 1
  PercentMax = 1
  WattMax = 2
CHECK_DEADLOCK FALSE
PROPERTIES SerialControlHolds LimitFitsItsMode
