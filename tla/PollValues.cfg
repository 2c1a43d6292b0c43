SPECIFICATION PollSpec
CONSTANTS
  Base = 16
  Nameplates <- SomeNameplates
  Requests <- SomeRequests
  FallbackCharge = 6
  FallbackDischarge = 7
  Frames <- SomeFrames
  NoFrame = NoFrame
  PowerGain = 3
  Scale = 2
  LowestMains = 4
INVARIANTS WordsFit SetpointReadsBack NoPhantomPower CorrectionBetween IdleShowsNoLoss MeterVoltagesTrue
