\* A design without thread= that the design classes accept, on time.
SPECIFICATION FairSpec
CONSTANTS
  Setups <- LateSetup
  NumFrames = 4
PROPERTY AppCallsReturn
CHECK_DEADLOCK FALSE
