SPECIFICATION FairSpec
CONSTANTS
  Graphs <- SmallGraphs
  InputNames = {"inputs", "other"}
INVARIANTS OneConsumer SameSources RefusedIffCyclic
PROPERTY LoadingEnds
CHECK_DEADLOCK FALSE
