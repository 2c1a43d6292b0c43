SPECIFICATION HSpec
CONSTANTS
  Polls = {p1}
  Callers = {c1, c2}
  NoTask = NoTask
  Silent = {}
  RatedPowers = {2}
  MaxActivePowers = {0, 2}
  FallbackCharge = 3
  FallbackDischarge = 4
  SerialAt10750 = "S1"
  SerialAt10100 = "S1"
  NoSerial = "unknown"
  RestoreMode = 20
  OtherModes = {16}
  PowerRequests = {9}
  ModeRequests = {}
  LimitModes = {}
  LimitValues = {}
  WatchdogRequests = {}
  MinWatchdog = 3
  MaxWatchdog = 5
  Threshold = 1
  RetryAfter = 3
  InitialFaults = {TRUE}
  ScanTicks = 0
SYMMETRY Interchangeable
CHECK_DEADLOCK FALSE
INVARIANTS TypeOK LockDiscipline OneGlitchOneStrike HandBackIsDisarmed SetpointWithinNameplate
PROPERTIES DoubtHasACause SerialControlHolds
