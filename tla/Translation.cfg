\* Two blocks in RAM, one in the ROM, two of them on one line, with lazy flushes.
CONSTANTS
  Addr = {0, 1, 2}
  Lines = 2
  Rom = {1}
  Code <- SomeCode
  Lazy = TRUE
  Opt0 = 2
  LateFaults = FALSE
SPECIFICATION FairSpec
INVARIANTS HandlersFresh RunsCurrent 
PROPERTIES GuestAdvances
