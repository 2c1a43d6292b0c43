SPECIFICATION FairSpec
CONSTANTS
  MinSoc = 1
  MaxDischarge = 2
  TargetGrid = 0
  Deadband = 1
  GainNum = 4
  GainDen = 5
  WatchdogS = 2
  Modes = {3, 20}
  Watchdogs = {0, 5}
  Loads <- SurplusAndDemand
  Socs = {1, 2}
  MaxSignals = 2
CHECK_DEADLOCK FALSE
INVARIANTS TypeOK GuardedVPP ReportedRestoreHolds NeverOvershoots
PROPERTY LeavesVPP
