SPECIFICATION Spec
CONSTANTS
  MinSoc = 1
  MaxDischarge = 2
  TargetGrid = 0
  Deadband = 1
  GainNum = 4
  GainDen = 5
  WatchdogS = 2
  Modes = {3, 20}
  Watchdogs = {0, 5}
  Loads <- SurplusAndDemand
  Socs = {1, 2}
  MaxSignals = 1
CHECK_DEADLOCK FALSE
INVARIANT AlwaysRestores
