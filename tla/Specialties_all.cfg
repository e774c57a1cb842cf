SPECIFICATION FairSpec
CONSTANTS
  Thread = {"timer", "audio"}
  Mask = {3}
  TraceBit = {TRUE, FALSE}
  MaxRestarts = 1
INVARIANTS NoLostRequest
PROPERTIES StopWakes QuitHonoured
