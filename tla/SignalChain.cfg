SPECIFICATION Spec
CONSTANTS
  Unit = 64
  One = 4
  Kinds <- AllKinds
  Frames <- MCFrames
  Gains = {0, 2, 4, 9, 20}
  MaxGain = 16
  Shifts = {1, 3}
  Positions <- MCPositions
  SlewStep = 6
  MaxDelay = 3
  Delays <- MCDelays
  Units = {"samples", "ms", "s", "bars"}
  Fs = 2000
  Mixes = {"first", "half", "second"}
  MixGains <- MCMixGains
  Routes <- MCRoutes
INVARIANTS DelayedByDelay
PROPERTIES SumsSaturateOnce FadeStaysBetween
