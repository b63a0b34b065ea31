\* The producer may stop between transactions.
SPECIFICATION FairSpec
CONSTANTS
  NumWrites = 3
  Samples <- MCSamples
  Empty = Empty
INVARIANTS TypeOK NoBufferRace OneNotification
PROPERTIES ImplementsSlot FrameTaken
CHECK_DEADLOCK FALSE
