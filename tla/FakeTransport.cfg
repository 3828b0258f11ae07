CONSTANTS
  Capacity = 2
  MaxChunk = 2
  EpochMax = 5
  MaxOpens = 2
SPECIFICATION Spec
INVARIANTS WindowIsExact QueuesDieWithSession
PROPERTIES EpochWitnessesContinuity ImplementsPacketLink
