SPECIFICATION FairSpec
CONSTANTS
  Level = {5, 6, 13}
  Line = {4}
  Timer = {"A", "C"}
  TimerControl = {0, 5}
  TimerData = {2, 4}
  VectorBase = {0}
  MaxTicks = 2
INVARIANTS
  NoLostInterrupt
  IInv
PROPERTIES
  EdgeDetected
  ImplementsController
  CountdownMonotone
CONSTRAINT OneAtATime
