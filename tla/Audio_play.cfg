SPECIFICATION Spec
CONSTANTS
    Length = 2
    Overrun = 1
INVARIANTS EnabledIsPlaying SourceInFrame
  
