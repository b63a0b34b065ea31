SPECIFICATION Spec
CONSTANTS
  Graphs <- SingleOutputGraphs
  InputNames = {"inputs"}
INVARIANT ForkOnProducerThread
CHECK_DEADLOCK FALSE
