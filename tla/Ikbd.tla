--------------------------------- MODULE Ikbd ---------------------------------
(***************************************************************************)
(* The keyboard processor and its serial line (src/src/ikbd.cpp,           *)
(* src/src/acia.cpp).  Host events put packets of bytes into a ring        *)
(* buffer, the guest reads them one byte at a time and writes commands;    *)
(* everything runs in the emulation thread.                                *)
(*                                                                         *)
(* The ring is the sequence of its unread bytes: inread = inwrite is the   *)
(* empty queue, and a byte that makes it full removes what is at its head. *)
(* Each byte carries its place in its packet, which the code does not      *)
(* keep, so that the properties can speak of packets.                      *)
(***************************************************************************)
EXTENDS Integers, Sequences

CONSTANTS
  inbufferlen,  \* size of the ring (8192 in the code)
  Scancode,     \* key codes the host sends
  Wheel,        \* whether the host sends Eiffel wheel packets
  Motion,       \* mouse events: [x, y : Int, b : 0..3, slow : BOOLEAN]
  Joys,         \* joysticks the host has
  Command,      \* bytes the guest writes to the keyboard processor
  Enables,      \* values the guest gives the interrupt enable bits
  MaxEvents     \* bound on the number of host events and of replies

Switch == {"up", "down", "left", "right", "fire"}

ASSUME ConstantsAssumption ==
  /\ inbufferlen \in Nat /\ inbufferlen > 8
  /\ Scancode \subseteq 0..245
  /\ Wheel \in BOOLEAN
  /\ \A e \in Motion : e.x \in Int /\ e.y \in Int /\ e.b \in 0..3
                        /\ e.slow \in BOOLEAN
  /\ Joys \subseteq 0..1
  /\ Command \subseteq 0..255
  /\ Enables \subseteq BOOLEAN
  /\ MaxEvents \in Nat

VARIABLES
  queue,          \* inbuffer between inread and inwrite
  intype,         \* type of the packet sent last
  mouse_enabled, yaxis_reversed,
  joy_enabled, joy_state,
  outbuffer,      \* command bytes collected so far
  sr,             \* ACIA status: RXFULL and INTERRUPT
  rec_inter,      \* ACIA control: interrupt on reception
  gpip4,          \* MFP port bit 4, the ACIA's interrupt line, active low
  ier6,           \* MFP: channel 6 enabled
  irq6,           \* MFP: channel 6 pending
  handling,       \* the guest's handler runs and has not read yet
  events,         \* host events and replies so far
  last,           \* place of the byte the guest read last
  balance,        \* mouse motion of the host not yet read by the guest
  told,           \* joystick states the guest has read
  masked,         \* channel 6 was disabled since the line last fell
  lossy           \* a full queue or a reset has discarded bytes

config == <<mouse_enabled, yaxis_reversed, joy_enabled>>
line == <<sr, gpip4, irq6, masked>>
history == <<last, told>>
vars == <<queue, intype, config, joy_state, outbuffer, line, rec_inter, ier6,
          handling, events, history, balance, lossy>>

Byte == [v : 0..255, head : 0..255, pos : 1..8, len : 1..8]
MOUSE_DELTA_MAX == 63

Init ==
  /\ queue = <<>>
  /\ intype = "unknown"
  /\ mouse_enabled = TRUE
  /\ yaxis_reversed = FALSE
  /\ joy_enabled = [n \in 0..1 |-> n = 1]
  /\ joy_state = [n \in 0..1 |-> {}]
  /\ outbuffer = <<>>
  /\ sr = {}
  /\ rec_inter = FALSE
  /\ gpip4 = 1
  /\ ier6 = FALSE
  /\ irq6 = FALSE
  /\ handling = FALSE
  /\ events = 0
  /\ last = [pos |-> 1, len |-> 1]
  /\ balance = [x |-> 0, y |-> 0]
  /\ told = [n \in 0..1 |-> {}]
  /\ masked = FALSE
  /\ lossy = FALSE

(***************************************************************************)
(* The queue, host side.                                                   *)
(***************************************************************************)
\* The bytes a full queue loses, told from the byte at its head.
PacketLength(v) ==
  IF v = 246 THEN 8
  ELSE IF v = 247 THEN 6
  ELSE IF v \in 248..251 THEN 3
  ELSE IF v = 252 THEN 7
  ELSE IF v \in 254..255 THEN 2
  ELSE 1

\* Mutant: only a byte is removed.
DropByte(q) == Tail(q)

DropPacket(q) == SubSeq(q, PacketLength(q[1].v) + 1, Len(q))

send(q, byte) ==
  LET full == Append(q, byte)
  IN  IF Len(full) = inbufferlen THEN DropPacket(full) ELSE full

Tagged(bytes) ==
  [i \in DOMAIN bytes |->
     [v |-> bytes[i], head |-> bytes[1], pos |-> i, len |-> Len(bytes)]]

SendAll(q, bytes) ==
  LET sent[i \in 0..Len(bytes)] ==
        IF i = 0 THEN q ELSE send(sent[i - 1], Tagged(bytes)[i])
  IN  sent[Len(bytes)]

\* ThrowInterrupt: the MFP's enable register and the ACIA's control register
\* must both let it.
Throws == ier6 /\ rec_inter

\* The end of send: RXFULL, and the line is forced up and down again so that the
\* MFP sees an edge.
Announce(status) ==
  /\ sr' = status \cup {"RXFULL"} \cup (IF Throws THEN {"INTERRUPT"} ELSE {})
  /\ gpip4' = IF Throws THEN 0 ELSE gpip4
  /\ irq6' = (irq6 \/ Throws)
  /\ masked' = (masked /\ ~Throws)

\* One host event or reply: the queue becomes q, where n bytes were sent.
Enqueue(q, n) ==
  /\ queue' = q
  /\ lossy' = (lossy \/ Len(queue) + n >= inbufferlen)
  /\ Announce(sr)

Event ==
  /\ events < MaxEvents
  /\ events' = events + 1
  /\ UNCHANGED <<config, outbuffer, rec_inter, ier6, handling, history>>

SendKey(code) ==
  /\ Event
  /\ intype' = "keyboard"
  /\ Enqueue(SendAll(queue, <<code>>), 1)
  /\ UNCHANGED <<joy_state, balance>>

\* The wheel in Eiffel mode is eight calls of SendKey in one event.
EiffelWheel ==
  /\ Wheel
  /\ Event
  /\ intype' = "keyboard"
  /\ Enqueue(SendAll(queue, <<246, 5, 0, 0, 0, 0, 0, 89>>), 8)
  /\ UNCHANGED <<joy_state, balance>>

(***************************************************************************)
(* The mouse.                                                              *)
(***************************************************************************)
Abs(n) == IF n < 0 THEN -n ELSE n
Smaller(m, n) == IF m < n THEN m ELSE n
Larger(m, n) == IF m < n THEN n ELSE m
Signed(v) == IF v < 128 THEN v ELSE v - 256

\* The i-th part of a motion that is sent in parts of at most step.
Part(rel, step, i) ==
  LET rest == Larger(0, Abs(rel) - (i - 1) * step)
  IN  (IF rel < 0 THEN -1 ELSE 1) * Smaller(step, rest)

\* The number of parts; a motion of nothing (a button) is sent as well.
Parts(e, step) ==
  Larger(1, (Larger(Abs(e.x), Abs(e.y)) + step - 1) \div step)

SameButtons(header, b) == header = 248 + b

\* The three bytes of the packet sent last are all still ahead of inread.
NotBeingRead(q) == Len(q) > 3

\* MergeMousePacket: the previous packet, as unsigned bytes, can be replaced by
\* one that has both motions.
Merges(q, type, x, y, b) ==
  LET w == Len(q) - 2
  IN  /\ type = "mouse"
      /\ NotBeingRead(q)
      /\ SameButtons(q[w].v, b)
      /\ Abs(x + q[w + 1].v) <= MOUSE_DELTA_MAX
      /\ Abs(y + q[w + 2].v) <= MOUSE_DELTA_MAX

\* Mutant: the motion of the replaced packet is lost.
MergedLost(move, byte) == move

Merged(move, byte) == move + byte.v

\* Mutant: the first byte of the packet stays.
WithoutLastShort(q) == SubSeq(q, 1, Len(q) - 2)

\* inwrite = mouse_inwrite
WithoutLast(q) == SubSeq(q, 1, Len(q) - 3)

\* One turn of the loop of SendMouseMotion; s holds the queue, intype and
\* whether bytes were discarded.
SendPart(s, x, y, b, slow) ==
  LET merge == ~slow /\ Merges(s.q, s.type, x, y, b)
      w     == Len(s.q) - 2
      q     == IF merge THEN WithoutLast(s.q) ELSE s.q
      movex == IF merge THEN Merged(x, s.q[w + 1]) ELSE x
      movey == IF merge THEN Merged(y, s.q[w + 2]) ELSE y
  IN  [q    |-> SendAll(q, <<248 + b, movex % 256,
                             (IF yaxis_reversed THEN -movey ELSE movey) % 256>>),
       type |-> "mouse",
       lost |-> s.lost \/ Len(q) + 3 >= inbufferlen]

SendMouseMotion(e) ==
  LET step == IF e.slow THEN 1 ELSE MOUSE_DELTA_MAX
      turns[i \in 0..Parts(e, step)] ==
        IF i = 0 THEN [q |-> queue, type |-> intype, lost |-> lossy]
        ELSE SendPart(turns[i - 1], Part(e.x, step, i), Part(e.y, step, i), e.b, e.slow)
      sent == turns[Parts(e, step)]
  IN  /\ mouse_enabled
      /\ e.slow \/ (Abs(e.x) <= 2048 /\ Abs(e.y) <= 2048)
      /\ Event
      /\ queue' = sent.q
      /\ intype' = sent.type
      /\ lossy' = sent.lost
      /\ Announce(sr)
      /\ balance' = [x |-> balance.x + e.x,
                     y |-> balance.y + (IF yaxis_reversed THEN -e.y ELSE e.y)]
      /\ UNCHANGED joy_state

(***************************************************************************)
(* The joysticks.                                                          *)
(***************************************************************************)
Bit == [up |-> 1, down |-> 2, left |-> 4, right |-> 8, fire |-> 128]
JoyByte(state) ==
  LET bit(sw) == IF sw \in state THEN Bit[sw] ELSE 0
  IN  bit("up") + bit("down") + bit("left") + bit("right") + bit("fire")
JoyPacket(n, state) == <<254 + n, JoyByte(state)>>

\* Mutant: the report still has the state from before the event.
ReportOld(n, state) == JoyPacket(n, joy_state[n])

Report(n, state) == JoyPacket(n, state)

\* The common end of the three events: a change is stored and reported.
JoyChange(n, state) ==
  /\ n \in Joys
  /\ joy_enabled[n]
  /\ state # joy_state[n]
  /\ Event
  /\ joy_state' = [joy_state EXCEPT ![n] = state]
  /\ intype' = "joystick"
  /\ Enqueue(SendAll(queue, Report(n, state)), 2)
  /\ UNCHANGED balance

\* value is -1, 0 or 1 for below, within and above the threshold.
SendJoystickAxis(n, negative, positive, value) ==
  JoyChange(n, (joy_state[n] \ {negative, positive})
                 \cup (IF value < 0 THEN {negative} ELSE {})
                 \cup (IF value > 0 THEN {positive} ELSE {}))

SendJoystickHat(n, directions) ==
  JoyChange(n, (joy_state[n] \cap {"fire"}) \cup directions)

SendJoystickButton(n, pressed) ==
  JoyChange(n, (joy_state[n] \ {"fire"}) \cup (IF pressed THEN {"fire"} ELSE {}))

HostEvent ==
  \/ \E code \in Scancode : SendKey(code)
  \/ EiffelWheel
  \/ \E e \in Motion : SendMouseMotion(e)
  \/ \E n \in Joys, value \in -1..1 :
        \/ SendJoystickAxis(n, "left", "right", value)
        \/ SendJoystickAxis(n, "up", "down", value)
  \/ \E n \in Joys, directions \in SUBSET {"left", "up"} :
        SendJoystickHat(n, directions)
  \/ \E n \in Joys, pressed \in BOOLEAN : SendJoystickButton(n, pressed)

(***************************************************************************)
(* The guest.                                                              *)
(***************************************************************************)
Guest == UNCHANGED <<events, joy_state, intype>>

\* The motion along one axis that a byte tells.
Moved(byte, place) == IF byte.len = 3 /\ byte.pos = place THEN Signed(byte.v) ELSE 0

\* What the guest learns from a byte.
Learn(byte) ==
  /\ last' = [pos |-> byte.pos, len |-> byte.len]
  /\ balance' = [x |-> balance.x - Moved(byte, 2), y |-> balance.y - Moved(byte, 3)]
  /\ told' = IF byte.len = 2 /\ byte.pos = 2
             THEN [told EXCEPT ![byte.head - 254] =
                     CHOOSE state \in SUBSET Switch : JoyByte(state) = byte.v]
             ELSE told

\* The queue is empty: the line goes up and the status bits go.
Quiet ==
  /\ sr' = sr \ {"RXFULL", "INTERRUPT"}
  /\ gpip4' = 1
  /\ UNCHANGED <<irq6, masked>>

\* Mutant: bytes that are left raise no interrupt.
MoreSilent ==
  /\ sr' = sr \cup {"RXFULL"}
  /\ UNCHANGED <<gpip4, irq6, masked>>

\* Bytes are left: the next interrupt is thrown.
More == Announce(sr)

ReadData ==
  /\ queue # <<>>
  /\ queue' = Tail(queue)
  /\ IF Len(queue) = 1 THEN Quiet ELSE More
  /\ Learn(Head(queue))
  /\ handling' = FALSE
  /\ Guest
  /\ UNCHANGED <<config, outbuffer, rec_inter, ier6, lossy>>

\* An empty queue gives the last byte again.
ReadNothing ==
  /\ queue = <<>>
  /\ handling
  /\ handling' = FALSE
  /\ Guest
  /\ UNCHANGED <<queue, config, outbuffer, line, rec_inter, ier6, history,
                 balance, lossy>>

\* The CPU takes the MFP's interrupt and the handler begins.
TakeInterrupt ==
  /\ irq6
  /\ irq6' = FALSE
  /\ handling' = TRUE
  /\ Guest
  /\ UNCHANGED <<queue, config, outbuffer, sr, gpip4, masked, rec_inter, ier6,
                 history, balance, lossy>>

\* The guest enables or disables channel 6 of the MFP.
WriteIER(on) ==
  /\ ier6' = on
  /\ irq6' = (irq6 /\ on)
  /\ masked' = (masked \/ ~on)
  /\ Guest
  /\ UNCHANGED <<queue, config, outbuffer, sr, gpip4, rec_inter, handling,
                 history, balance, lossy>>

WriteControl(on) ==
  /\ rec_inter' = on
  /\ masked' = (masked \/ ~on)
  /\ Guest
  /\ UNCHANGED <<queue, config, outbuffer, sr, gpip4, irq6, ier6, handling,
                 history, balance, lossy>>

\* Master reset of the ACIA: its registers, not the queue and not the line.
ACIAReset ==
  /\ sr' = {}
  /\ rec_inter' = FALSE
  /\ masked' = TRUE
  /\ Guest
  /\ UNCHANGED <<queue, config, outbuffer, gpip4, irq6, ier6, handling, history,
                 balance, lossy>>

\* IKBD::reset, which takes the place of ACIA::reset: the queue goes with no
\* change of the ACIA's registers.  The guest's knowledge begins anew.
reset(q) ==
  /\ queue' = q
  /\ intype' = "unknown"
  /\ outbuffer' = <<>>
  /\ mouse_enabled' = TRUE
  /\ yaxis_reversed' = FALSE
  /\ joy_enabled' = [n \in 0..1 |-> n = 1]
  /\ joy_state' = [n \in 0..1 |-> {}]
  /\ last' = [pos |-> 1, len |-> 1]
  /\ balance' = [x |-> 0, y |-> 0]
  /\ told' = [n \in 0..1 |-> {}]
  /\ lossy' = FALSE

\* The machine is reset: the MFP is as well.
HWReset ==
  /\ reset(<<>>)
  /\ ier6' = FALSE
  /\ irq6' = FALSE
  /\ handling' = FALSE
  /\ masked' = TRUE
  /\ gpip4' = 1
  /\ UNCHANGED <<sr, rec_inter, events>>

(***************************************************************************)
(* Commands: WriteData.                                                    *)
(***************************************************************************)
\* The number of bytes after which a command is done; the collected bytes of
\* any other one are thrown away when the seventh comes.
CommandLength(out) ==
  CASE out[1] \in {8, 13, 15, 16, 17, 18, 19, 20, 21, 22, 24, 26, 28} -> 1
    [] out[1] \in {7, 23} -> 2
    [] out[1] = 128 /\ Len(out) > 1 /\ out[2] = 1 -> 2
    [] out[1] \in {10, 11, 12, 32, 33} -> 3
    [] out[1] = 9 -> 4
    [] out[1] = 14 -> 5
    [] out[1] \in {25, 27} -> 6
    [] OTHER -> 7

\* Date and time as six bytes of BCD.
ClockReply == <<252, 38, 17, 21, 35, 89, 89>>

\* The queue after a command that is answered.
Reply(out) ==
  IF out = <<22>> THEN SendAll(queue, JoyPacket(1, joy_state[1]))
                  ELSE SendAll(queue, ClockReply)

Answered(out) == out \in {<<22>>, <<28>>}

\* No command looks at what follows its second byte.
Collect(out) ==
  /\ outbuffer' = [i \in DOMAIN out |-> IF i > 2 THEN 0 ELSE out[i]]
  /\ UNCHANGED <<events, queue, intype, config, joy_state, line, history, balance, lossy>>

Answer(out) ==
  /\ events < MaxEvents
  /\ events' = events + 1
  /\ outbuffer' = <<>>
  /\ intype' = IF out = <<22>> THEN "joystick" ELSE intype
  /\ Enqueue(Reply(out), IF out = <<22>> THEN 2 ELSE 7)
  /\ UNCHANGED <<config, joy_state, history, balance>>

Configure(out) ==
  /\ outbuffer' = <<>>
  /\ mouse_enabled' = CASE out[1] \in 8..10 -> TRUE
                        [] out[1] = 18 -> FALSE
                        [] OTHER -> mouse_enabled
  /\ yaxis_reversed' = CASE out[1] = 15 -> TRUE
                         [] out[1] = 16 -> FALSE
                         [] OTHER -> yaxis_reversed
  /\ joy_enabled' = CASE out[1] \in 8..10 -> [joy_enabled EXCEPT ![1] = TRUE]
                      [] out[1] = 26 -> [n \in 0..1 |-> FALSE]
                      [] OTHER -> joy_enabled
  /\ UNCHANGED <<events, queue, intype, joy_state, line, history, balance, lossy>>

WriteData(b) ==
  LET out == Append(outbuffer, b)
  IN  /\ \/ Len(out) < CommandLength(out) /\ Collect(out)
         \/ /\ Len(out) >= CommandLength(out)
            /\ \/ Answered(out) /\ Answer(out)
               \/ /\ out = <<128, 1>>
                  /\ reset(SendAll(<<>>, <<241>>))
                  /\ Announce(sr)
                  /\ UNCHANGED events
               \/ ~Answered(out) /\ out # <<128, 1>> /\ Configure(out)
      /\ UNCHANGED <<rec_inter, ier6, handling>>

GuestStep ==
  \/ ReadData \/ ReadNothing \/ TakeInterrupt
  \/ \E on \in Enables : WriteIER(on) \/ WriteControl(on)
  \/ ACIAReset
  \/ \E b \in Command : WriteData(b)

Next == HostEvent \/ GuestStep \/ HWReset

Spec == Init /\ [][Next]_vars

(***************************************************************************)
(* Properties.                                                             *)
(***************************************************************************)
Follows(a, b) == b.pos = IF a.pos < a.len THEN a.pos + 1 ELSE 1

\* Between packets the guest finds the beginning of a packet, or nothing, at the
\* head of the queue: a full queue gives up whole packets.
BoundaryKept ==
  last.pos = last.len => queue = <<>> \/ Head(queue).pos = 1

\* Every packet in the queue is whole but for the part of the first one that is
\* gone, as long as no byte was discarded: merging and replies never leave a packet
\* cut or mixed with another.
PacketsWhole ==
  ~lossy =>
    /\ \A i \in 1..(Len(queue) - 1) : Follows(queue[i], queue[i + 1])
    /\ queue # <<>> => queue[Len(queue)].pos = queue[Len(queue)].len

\* The motion along one axis that the bytes of a queue tell.
Total(q, place) ==
  LET sum[i \in 0..Len(q)] ==
        IF i = 0 THEN 0 ELSE sum[i - 1] + Moved(q[i], place)
  IN  sum[Len(q)]

\* The mouse motion the host reported and the guest has not read is the sum of
\* the motions in the queue, merged packets included, as long as no byte was
\* discarded.
MotionConserved ==
  ~lossy => balance = [x |-> Total(queue, 2), y |-> Total(queue, 3)]

\* The byte tells the state of joystick n.
IsReport(byte, n) == byte.head = 254 + n /\ byte.len = 2 /\ byte.pos = 2

\* There is no report of joystick n from the given place on.
Silent(q, from, n) == \A k \in from..Len(q) : ~IsReport(q[k], n)

\* The joystick states the guest will have read when it has emptied the queue
\* are the states of the joysticks: the last report tells the present state, and
\* without a report the guest knows it.
JoysticksTold ==
  ~lossy =>
    \A n \in 0..1 :
      /\ Silent(queue, 1, n) => told[n] = joy_state[n]
      /\ \A i \in 1..Len(queue) :
           IsReport(queue[i], n) /\ Silent(queue, i + 1, n)
             => queue[i].v = JoyByte(joy_state[n])

\* A byte announced by an interrupt reaches the guest's handler: while the ACIA
\* requests service the MFP's channel is pending or its handler is about to read,
\* unless the guest has disabled the interrupt since.
RequestPending ==
  "INTERRUPT" \in sr /\ ~masked => (irq6 \/ handling) /\ gpip4 = 0
=============================================================================
