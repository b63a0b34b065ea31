\* Small designs, source and sink called from one thread or from two.
SPECIFICATION FairSpec
CONSTANTS
  Setups <- PipelineSetups
  NumFrames = 4
INVARIANTS StageInputsAligned LatencyIsCrossings
PROPERTIES AppCallsReturn ControlServed
\* A stalled pipeline is reported by AppCallsReturn.
CHECK_DEADLOCK FALSE
