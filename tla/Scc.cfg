\* A serial line with two characters, and the sources the code knows.
CONSTANTS
  Lsr = TRUE
  Wr1A = {{"AExt"}}
  Wr1B = {{}, {"BRx", "BTx", "BExt"}}
  Wr9 = {{"VIS", "MIE"}, {"Soft"}, {"VIS", "MIE", "Soft"}, {"ResetA", "ResetB"}}
  MaxChars = 2
SPECIFICATION FairSpec
INVARIANTS CharWaiting PendingFlagged
PROPERTY CharsRead
