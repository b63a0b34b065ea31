SPECIFICATION Spec
CONSTANTS
  Gains <- SomeGains
  Divisors <- SomeDivisors
  StartMuted = FALSE
  MutedReads = TRUE
INVARIANT UnmuteRestores
