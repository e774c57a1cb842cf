SPECIFICATION Spec
CONSTANTS
    Length = 2
    Overrun = 1
PROPERTY StopTakesEffect
