SPECIFICATION FairSpec
CONSTANTS
  Base = 4
  Cylinders = 2
  Heads = 2
  Sectors = 2
  SectorBytes = 4
  BlockBytes = 4
  Capacity = 3
  PacketBytes = 4
  ReplyBytes = 5
  device <- MCDevice
  Tracks = 2
  Sides = 2
  Spt = 2
  Jobs <- MCJobs
  MaxChanges = 2
INVARIANTS
  InterruptLatched
PROPERTIES
  ReadsInOrder
  WritesInOrder
  FloppyInOrder
  JobEnds
CHECK_DEADLOCK FALSE
