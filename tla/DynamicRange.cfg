SPECIFICATION Spec
CONSTANTS
  Unit = 8
  One = 4
  Float32Step = 2
  Kinds <- AllKinds
  Pairs <- MCPairs
  Samples <- MCSamples
  Levels = {2, 4}
  Times = {0, 6}
  Ratios = {1, 2, 3}
  Presets <- MCPresets
INVARIANTS NeverLouder GainCurveMonotone SmoothingArrives
