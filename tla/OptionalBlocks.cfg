SPECIFICATION HistoryFairSpec
CONSTANTS
  Blocks = {H, M}
  NoBlock = NoBlock
  Threshold = 3
  RetryAfter = 2
INVARIANTS TypeOK StreakMatchesRetirement RetirementEarned
PROPERTY RetiredIsProbedAgain
