\* A queue that overflows, its interrupts, and the reset command; and, in MCIkbd,
\* mouse and joystick packets and commands in a queue with room.
CONSTANTS
  inbufferlen = 9
  Scancode = {30}
  Wheel = TRUE
  Motion <- LeftMotion
  Joys = {}
  Command = {1, 128}
  Enables = {TRUE, FALSE}
  MaxEvents = 3
SPECIFICATION MCSpec
INVARIANTS PacketsWhole MotionConserved JoysticksTold BoundaryKept RequestPending
