SPECIFICATION FairSpec
CONSTANTS
  Units = {u1}
  NoUnit = NoUnit
  Entries = {e1, e2}
  NoEntry = NoEntry
  Edited = {e1}
  Serials = {"S", "T"}
  Blank = "none"
  Identities <- SomeIdentities
  Address <- HostPorts
  Options <- SomeOptions
  Defaults <- Usual
  WorkModes = {0, 3, 16, 20}
  VPP = 3
  DefaultMode = 20
CHECK_DEADLOCK FALSE
INVARIANTS NoLeftovers OrphanHasACause DeviceIsTheEntry NoUnitTwice OptionsInForce
PROPERTY ComesUp
