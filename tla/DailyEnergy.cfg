SPECIFICATION Spec
CONSTANTS
  MaxEnergy = 5
  MaxDays = 2
  Crashes = TRUE
  Rollbacks = TRUE
INVARIANTS TypeOK TodaysEnergyOnly
PROPERTIES NothingCountedTwice
