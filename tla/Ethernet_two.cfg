\* Two interfaces share interrupt level 3.
CONSTANTS
  Dev = {0, 1}
  MaxStarts = 1
  MaxPackets = 3
SPECIFICATION Spec
PROPERTIES BufferKeptUntilRead
CHECK_DEADLOCK FALSE
