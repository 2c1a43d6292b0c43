SPECIFICATION FairSpec
CONSTANTS
  Entries = {e1, e2}
  NoEntry = NoEntry
  NoCall = NoCall
  Intervals = {1, 2}
  MinWatchdog = 3
  MaxWatchdog = 5
  Requests = {0, 3, 5}
  Factory = {0, 1}
INVARIANT HeardInTime
PROPERTY DeadMansSwitch
