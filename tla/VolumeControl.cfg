SPECIFICATION FairSpec
CONSTANTS
  Gains <- SomeGains
  Divisors <- SomeDivisors
  StartMuted = FALSE
  MutedReads = FALSE
INVARIANTS TypeOK TargetWanted
PROPERTIES NeverLouderWhileMuted FadesToSilence
