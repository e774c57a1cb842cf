\* One interface, started once, possibly stopped or reset.
CONSTANTS
  Dev = {0}
  MaxStarts = 1
  MaxPackets = 6
SPECIFICATION FairSpec
 
PROPERTIES  ReadIsAcknowledged
CHECK_DEADLOCK FALSE
