SPECIFICATION Spec
CONSTANTS
  Unit = 64
  One = 4
  Grid = 4
  Designs <- MCSlewDesigns
  BiquadFrames <- MCBiquadFrames
  SlewShifts = {1}
  MaxFilters = 2
  FirFilters <- MCFirFilters
  Advances = {1, 2, 3}
  Overlaps = {0, 1}
  BlockSizes = {0, 4, 8}
  VpuBlock = 2
  FirGains = {1, 2}
  FirSamples <- MCFirSamples
  MaxHeard = 6
  CombLengths <- MCCombs
  AllpassLengths <- MCAllpasses
  Spread = 1
  PlateAllpasses <- MCPlateAllpasses
  PlateDelays <- MCPlateDelays
  PlateHeads <- MCPlateHeads
  PlateTaps <- MCPlateTaps
  Predelay = 2
  EffectGain = 12
  RoomSettings <- MCRoomSettings
  PlateSettings <- MCPlateSettings
  VerbFrames <- MCVerbFrames
  MaxPlayed = 4
  MaxTail = 60
PROPERTY CoeffsSlewTowards
CHECK_DEADLOCK FALSE
