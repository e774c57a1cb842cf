SPECIFICATION Spec
CONSTANTS
  Mantissa = 24
  Word = 65536
  MaxNow = 60
  MaxRestarts = 1
  Poll = {4, 10}
  Controls = {1, 5, 7}
  Data = {0, 255}
INVARIANTS
  NoTickDebt
  VblOnTime
CHECK_DEADLOCK FALSE
