------------------------------ MODULE Clock200Hz ------------------------------
(***************************************************************************)
(* Guest time (src/src/main.cpp): the host clock, the rate the guest       *)
(* programs Timer C to, and invoke200HzInterrupt, which turns the time     *)
(* since its last call into Timer C ticks and vertical blanks.             *)
(*                                                                         *)
(* HostClock keeps milliseconds in a float, whose mantissa holds Mantissa  *)
(* bits (24 in an IEEE single): above 2^Mantissa a reading is rounded to a *)
(* multiple of 2, of 4, ...                                                *)
(***************************************************************************)
EXTENDS Integers

CONSTANTS
  Mantissa,     \* bits of the mantissa of the clock's float
  Word,         \* uint32 arithmetic is modulo Word
  MaxNow,       \* bound on the host's uptime in milliseconds
  MaxRestarts,  \* bound on the restarts of the emulated machine
  Poll,         \* possible times between two calls: the 100 Hz timer and delays
  Controls,     \* values the guest writes to Timer C's control nibble
  Data          \* values the guest writes to Timer C's data register

ASSUME ConstantsAssumption ==
  /\ Mantissa \in Nat \ {0}
  /\ Word \in Nat /\ MaxNow \in Nat /\ 2 * MaxNow + 1000 < Word
  /\ MaxRestarts \in Nat
  /\ Poll \subseteq Nat \ {0}
  /\ Controls \subseteq 0..15
  /\ Data \subseteq 0..255

VARIABLES
  now,          \* SDL_GetTicks: milliseconds since the program started
  startTime,    \* HostClock::startTime
  lastTicks,    \* the static of main.cpp; 0 asks for a fresh start
  VBL_counter,  \* milliseconds not yet turned into a vertical blank
  timerC,       \* control and start_data of the MFP's Timer C
  read,         \* newTicks of the last call
  ms,           \* ms_ticks of the last call
  restarts,     \* number of restarts so far
  crashed       \* the division by ms_ticks trapped

vars == <<now, startTime, lastTicks, VBL_counter, timerC, read, ms, restarts,
          crashed>>

VBL_MS == 20

(***************************************************************************)
(* The host clock.                                                         *)
(***************************************************************************)

\* The spacing of floats around n: 1 while n fits the mantissa.
Spacing[n \in Nat] == IF n < 2^Mantissa THEN 1 ELSE 2 * Spacing[n \div 2]

\* Conversion of a non-negative integer to float: nearest, ties to even.
Float(n) ==
  LET g == Spacing[n]
      q == n \div g
      r == n % g
  IN  g * (IF 2 * r > g \/ (2 * r = g /\ q % 2 = 1) THEN q + 1 ELSE q)

getCurTime == Float(now)

\* HostClock::getClock: a float subtraction, then the cast to uint32.
getClock == Float(getCurTime - startTime) % Word

(***************************************************************************)
(* Timer C's rate.                                                         *)
(***************************************************************************)
MFP_FREQ == 2457600

\* MFP_Timer::compute_timer_freq: unknown prescalers count as the TOS default.
compute_timer_freq(t) ==
  LET prescaler == [c \in 1..7 |-> CASE c = 1 -> 4 [] c = 2 -> 10 [] c = 3 -> 16
                                     [] c = 4 -> 50 [] c = 5 -> 64
                                     [] c = 6 -> 100 [] c = 7 -> 200]
      base == MFP_FREQ \div (IF t.control \in 1..7 THEN prescaler[t.control] ELSE 64)
  IN  base \div (IF t.start_data = 0 THEN 192 ELSE t.start_data)

timerC_ms_ticks == 1000 \div compute_timer_freq(timerC)

(***************************************************************************)
(* The operations.                                                         *)
(***************************************************************************)
Init ==
  /\ now = 0 /\ startTime = 0
  /\ lastTicks = 0 /\ VBL_counter = 0
  /\ timerC = [control |-> 0, start_data |-> 0]
  /\ read = 0 /\ ms = 5
  /\ restarts = 0
  /\ crashed = FALSE

\* The guest programs Timer C: MFP_Timer::setControl and setData.
SetTimerC(c, d) ==
  /\ ~crashed
  /\ timerC' = [control |-> c, start_data |-> d]
  /\ UNCHANGED <<now, startTime, lastTicks, VBL_counter, read, ms, restarts,
                 crashed>>

\* The ticks due after some time.
\* Mutant: at most one.
DueAtMostOne(time, ms_ticks) == IF time \div ms_ticks = 0 THEN 0 ELSE 1
Due(time, ms_ticks) == time \div ms_ticks

\* What a call leaves of the time since the last vertical blank.
\* Mutant: a blank only on the exact millisecond.
AfterVBLExact(counter) == IF counter = VBL_MS THEN counter - VBL_MS ELSE counter
AfterVBL(counter) == IF counter >= VBL_MS THEN counter - VBL_MS ELSE counter

\* The body of invoke200HzInterrupt, with the clock at now': the ticks since
\* the last call go to MFP::IRQ(5, count), and at most one vertical blank is
\* raised.
invoke200HzInterrupt ==
  LET ms_ticks == timerC_ms_ticks
      newTicks == getClock'
      last == IF lastTicks = 0 THEN (newTicks - ms_ticks) % Word ELSE lastTicks
      count == Due((newTicks - last) % Word, ms_ticks)
      milliseconds == count * ms_ticks
      vbl == VBL_counter + milliseconds
  IN  IF ms_ticks = 0
        THEN crashed' = TRUE /\ UNCHANGED <<lastTicks, VBL_counter, read, ms>>
        ELSE /\ lastTicks' = (last + milliseconds) % Word
             /\ VBL_counter' = IF count = 0 THEN VBL_counter ELSE AfterVBL(vbl)
             /\ read' = newTicks
             /\ ms' = ms_ticks
             /\ UNCHANGED crashed

\* Some time passes and the CPU loop serves SPCFLAG_INTERNAL_IRQ.
Tick(delay) ==
  /\ ~crashed
  /\ now + delay <= MaxNow
  /\ now' = now + delay
  /\ UNCHANGED <<startTime, timerC, restarts>>
  /\ invoke200HzInterrupt

\* RestartAll, from the event check of a vertical blank: host->reset restarts
\* the clock.
RestartAll ==
  /\ ~crashed
  /\ restarts < MaxRestarts
  /\ restarts' = restarts + 1
  /\ lastTicks' = 0
  /\ startTime' = getCurTime
  /\ UNCHANGED <<now, VBL_counter, timerC, read, ms, crashed>>

Next ==
  \/ \E c \in Controls, d \in Data : SetTimerC(c, d)
  \/ \E delay \in Poll : Tick(delay)
  \/ RestartAll

Spec == Init /\ [][Next]_vars

(***************************************************************************)
(* Properties.                                                             *)
(***************************************************************************)

\* Every call delivers all the Timer C ticks that were due: what is left of the
\* time read is less than one tick, whatever rates the guest programmed on the
\* way, and across a restart of the clock.
NoTickDebt == lastTicks # 0 => (read - lastTicks) % Word < ms

\* "VBL is fixed at 50 Hz in ARAnyM" (main.cpp:133): a call raises at most one
\* vertical blank, but as long as it is called once per VBL_MS never more than
\* one is overdue, even when a slower Timer C rate held back several ticks.
VblOnTime == VBL_counter < 2 * VBL_MS
=============================================================================
