\* next_thread() only, four threads.  A finished design stops.
SPECIFICATION DesignSpec
CONSTANTS
  MaxThread = 3
  Placement = FALSE
INVARIANTS LatencyAgrees OutputsAligned NoThreadCycle
CHECK_DEADLOCK FALSE
