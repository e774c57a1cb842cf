--------------------------------- MODULE Scc ---------------------------------
(***************************************************************************)
(* The interrupts of the serial controller SCC (src/src/scc.cpp) with the  *)
(* host's serial line on channel B (src/src/serial_port.cpp), the flag     *)
(* SPCFLAG_SCC of the CPU loop, and an interrupt-driven guest.  The tick   *)
(* (SCC::IRQ, called with Timer C) polls the line; only the receiver's     *)
(* state is a level, the other sources are edges a poll sees once.         *)
(*                                                                         *)
(* All of it is the emulation thread: the CPU loop serves a tick and then  *)
(* a flag it accepts before the next instruction of the guest.  The guest  *)
(* touches the SCC with interrupts masked, or in its handler, reads        *)
(* characters in the receive handler only, looks before it reads a second  *)
(* one, and ends each handler with Reset Highest IUS.                      *)
(***************************************************************************)
EXTENDS Integers, Sequences, FiniteSets

CONSTANTS
  Lsr,        \* the host tells the transmitter's state (ttyS0, not ttyUSB0)
  Wr1A, Wr1B, \* what the guest writes to WR1, as sets of sources
  Wr9,        \* values of WR9 the guest writes, as sets of bits
  MaxChars    \* bound on the characters waiting in the host's buffer

Priority == <<"ARx", "ATx", "AExt", "BRx", "BTx", "BExt">>
ChannelA == {"ARx", "ATx", "AExt"}
ChannelB == {"BRx", "BTx", "BExt"}
Bit == {"VIS", "NV", "DLC", "MIE", "High", "Soft", "ResetB", "ResetA"}

\* The guest's vector base, and what the source adds to it.
Base == 96
Status == [ARx |-> 12, ATx |-> 8, AExt |-> 10, BRx |-> 4, BTx |-> 0, BExt |-> 2]

ASSUME ConstantsAssumption ==
  /\ Lsr \in BOOLEAN
  /\ Wr1A \subseteq SUBSET ChannelA /\ Wr1B \subseteq SUBSET ChannelB
  /\ Wr9 \subseteq SUBSET Bit
  /\ MaxChars \in Nat

VARIABLES
  active_reg,  \* register the next access goes to
  wr1,         \* sources the WR1 of the two channels enable
  wr2, wr9,    \* vector base and master interrupt control
  RR3,         \* sources pending
  RR3M,        \* sources enabled
  charcount,   \* characters waiting at the last look at the line
  flag,        \* SPCFLAG_SCC
  nbchar,      \* characters in the host's buffer
  temt,        \* the host's transmitter is empty
  cts,         \* the line's CTS
  oldTBE,      \* Serialport::oldTBE
  oldStatus,   \* the CTS bit of Serialport::oldStatus
  masked,      \* the guest runs with a mask of 5 or more
  service,     \* source whose handler runs, or "none"
  rbf,         \* the guest knows of a character it has not read
  polled       \* the guest has read RR0B outside a handler since the flag
               \* was last brought up to date

line == <<nbchar, temt, cts>>
old == <<oldTBE, oldStatus>>
guest == <<masked, service, rbf>>
vars == <<active_reg, wr1, wr2, wr9, RR3, RR3M, charcount, flag, line, old, guest,
          polled>>

Init ==
  /\ active_reg = 0
  /\ wr1 = {} /\ wr2 = 0 /\ wr9 = {} /\ RR3 = {} /\ RR3M = {} /\ charcount = 0
  /\ flag = FALSE
  /\ nbchar = 0 /\ temt = TRUE /\ cts \in BOOLEAN
  /\ oldTBE = FALSE /\ oldStatus = FALSE
  /\ masked = TRUE /\ service = "none" /\ rbf = FALSE /\ polled = FALSE

Highest(S) ==
  IF S = {} THEN "none"
  ELSE Priority[CHOOSE i \in 1..6 :
         Priority[i] \in S /\ \A j \in 1..(i - 1) : Priority[j] \notin S]

(***************************************************************************)
(* The host's serial line: Serialport.                                     *)
(***************************************************************************)
\* getTBE: the bit it stores, and whether the transmitter has become empty.
TBE == ~Lsr \/ temt
Rises == Lsr /\ temt /\ ~oldTBE

\* Mutant: the receiver is reported once per character count, as an edge.
ReceivesEdge == nbchar > charcount

\* RBF.
Receives == nbchar > 0

\* The interrupt conditions of getStatus.
Conditions ==
  {s \in ChannelB : \/ s = "BRx" /\ Receives
                    \/ s = "BTx" /\ Rises
                    \/ s = "BExt" /\ cts # oldStatus}

\* getStatus: what it stores, in the SCC as well.
GetStatus ==
  /\ charcount' = nbchar
  /\ oldTBE' = TBE
  /\ oldStatus' = cts

(***************************************************************************)
(* The flag.                                                               *)
(***************************************************************************)
\* (0xB & WR9) == 9
Configured(w) == w \cap {"VIS", "NV", "MIE"} = {"VIS", "MIE"}

\* TriggerSCC after a command or a write to WR1, WR2 or WR9.
TriggerSCC ==
  /\ flag' = (RR3' \cap RR3M' # {} /\ Configured(wr9'))
  /\ polled' = FALSE

\* The CPU loop accepts the flag: nothing else runs before SERVE_VBL_MFP.
Accepted == flag /\ ~masked

\* Timer C: SCC::IRQ.  WR9 = 0x20 is the installation of HSMODEM.
IRQ ==
  /\ ~Accepted
  /\ GetStatus
  /\ RR3' = RR3M \cap (Conditions \cup (IF wr9 = {"Soft"} THEN {"AExt"} ELSE {}))
  /\ flag' = (flag \/ (RR3' # {} /\ Configured(wr9)))
  /\ polled' = FALSE
  /\ UNCHANGED <<active_reg, wr1, wr2, wr9, RR3M, line, guest>>

\* doInterrupt: a vector, or 0.
Vector ==
  LET source == Highest(RR3 \cap RR3M)
  IN  CASE wr9 \cap {"VIS", "NV"} = {} -> wr2
        [] wr9 \cap {"VIS", "NV"} # {} /\ wr9 \cap {"NV", "High", "Soft"} # {} -> 0
        [] OTHER -> IF source = "none" THEN 0 ELSE wr2 + Status[source]

\* The guest's handler of a vector.
Handler(v) ==
  LET S == {s \in DOMAIN Status : Base + Status[s] = v}
  IN  IF S = {} THEN "stray" ELSE CHOOSE s \in S : TRUE

\* SERVE_VBL_MFP, with a vector and without.
Interrupt ==
  /\ Accepted
  /\ Vector # 0
  /\ flag' = FALSE
  /\ masked' = TRUE
  /\ service' = Handler(Vector)
  /\ rbf' = (Handler(Vector) = "BRx")
  /\ UNCHANGED <<active_reg, wr1, wr2, wr9, RR3, RR3M, charcount, line, old, polled>>

NoInterrupt ==
  /\ Accepted
  /\ Vector = 0
  /\ flag' = FALSE
  /\ UNCHANGED <<active_reg, wr1, wr2, wr9, RR3, RR3M, charcount, line, old, guest,
                 polled>>

(***************************************************************************)
(* Accesses of the guest.                                                  *)
(***************************************************************************)
\* The guest's program, and its handlers, between two accesses.
InHandler == service # "none"
Main == ~InHandler /\ masked
Free == active_reg = 0

\* WR0 with a register number.
Point(r) ==
  /\ Main /\ Free
  /\ active_reg' = r
  /\ UNCHANGED <<wr1, wr2, wr9, RR3, RR3M, charcount, flag, line, old, guest, polled>>

\* The interrupt enables of a channel; RR3M keeps a source that is disabled.
Enable(channel, S) ==
  /\ RR3M' = RR3M \cup S
  /\ RR3' = RR3 \ (channel \ S)

\* WR1.
WriteWR1(channel, S) ==
  /\ Main /\ active_reg = 1
  /\ active_reg' = 0
  /\ wr1' = (wr1 \ channel) \cup S
  /\ Enable(channel, S)
  /\ UNCHANGED <<wr2, wr9, charcount, line, old, guest>>
  /\ TriggerSCC

\* WR2.
WriteWR2 ==
  /\ Main /\ active_reg = 2
  /\ active_reg' = 0
  /\ wr2' = Base
  /\ UNCHANGED <<wr1, wr9, RR3, RR3M, charcount, line, old, guest>>
  /\ TriggerSCC

\* What channelAreset and channelBreset take away.
ResetSources(v) ==
  (IF "ResetB" \in v THEN ChannelB ELSE {})
    \cup (IF "ResetA" \in v THEN ChannelA ELSE {})

\* WR9, which a reset of a channel clears.  The guest has set its vectors.
WriteWR9(v) ==
  /\ Main /\ active_reg = 9
  /\ Configured(v) => wr2 = Base
  /\ active_reg' = 0
  /\ wr9' = IF v \cap {"ResetA", "ResetB"} = {} THEN v ELSE {}
  /\ RR3' = RR3 \ ResetSources(v)
  /\ RR3M' = RR3M \ ResetSources(v)
  /\ UNCHANGED <<wr1, wr2, charcount, line, old, guest>>
  /\ TriggerSCC

\* A register without a part in interrupts is written (WR5 and WR13 drive the
\* line), or any but RR0 read.
OtherRegister ==
  /\ Main /\ active_reg = 5
  /\ active_reg' = 0
  /\ UNCHANGED <<wr1, wr2, wr9, RR3, RR3M, charcount, flag, line, old, guest, polled>>

\* RR0 of channel A; while HSMODEM is installed channel B is not in use.
ReadRR0A ==
  /\ Main /\ Free
  /\ wr9 = {"Soft"} => RR3M \cap ChannelB = {}
  /\ RR3' = IF wr9 = {"Soft"} THEN RR3 \cup {"AExt"} ELSE RR3
  /\ UNCHANGED <<active_reg, wr1, wr2, wr9, RR3M, charcount, flag, line, old, guest,
                 polled>>

\* RR0 of channel B, which leaves the flag as it is.
ReadRR0B ==
  /\ (Main \/ InHandler) /\ Free
  /\ GetStatus
  /\ RR3' = RR3M \cap Conditions
  /\ rbf' = (InHandler /\ nbchar > 0)
  /\ polled' = (polled \/ ~InHandler)
  /\ UNCHANGED <<active_reg, wr1, wr2, wr9, RR3M, flag, line, masked, service>>

\* The data register of channel B, through its own address.
ReadData ==
  /\ service = "BRx" /\ rbf /\ Free
  /\ nbchar' = IF nbchar > 0 THEN nbchar - 1 ELSE 0
  /\ rbf' = FALSE
  /\ UNCHANGED <<active_reg, wr1, wr2, wr9, RR3, RR3M, charcount, flag, temt, cts, old,
                 masked, service, polled>>

WriteData ==
  /\ Main \/ service = "BTx"
  /\ temt' = FALSE
  /\ UNCHANGED <<active_reg, wr1, wr2, wr9, RR3, RR3M, charcount, flag, nbchar, cts,
                 old, guest, polled>>

\* Reset Tx int pending, Reset Ext/Status ints.
ResetPending(source) ==
  /\ (Main \/ InHandler) /\ Free
  /\ RR3' = RR3 \ {source}
  /\ UNCHANGED <<active_reg, wr1, wr2, wr9, RR3M, charcount, line, old, guest>>
  /\ TriggerSCC

\* Mutant: one interrupt more than there are characters.
MoreCharsOne(n) == n >= 0

\* Characters are left for more interrupts.
MoreChars(n) == n > 0

\* Mutant: the flag is left to the next tick.
RetriggerNot == UNCHANGED <<flag, polled>>

Retrigger == TriggerSCC

\* Reset Highest IUS, and the handler's return.
ResetHighestIUS ==
  LET source == Highest(RR3)
  IN  /\ InHandler /\ Free
      /\ service = "BRx" => ~rbf
      /\ charcount' = IF source = "BRx" THEN charcount - 1 ELSE charcount
      /\ RR3' = IF source = "BRx" /\ MoreChars(charcount') THEN RR3
                ELSE RR3 \ {source}
      /\ service' = "none"
      /\ masked' = FALSE
      /\ rbf' = FALSE
      /\ UNCHANGED <<active_reg, wr1, wr2, wr9, RR3M, line, old>>
      /\ Retrigger

\* The guest raises or lowers its mask between accesses.
SetMask(on) ==
  /\ ~InHandler /\ ~Accepted /\ Free
  /\ masked' = on
  /\ UNCHANGED <<active_reg, wr1, wr2, wr9, RR3, RR3M, charcount, flag, line, old,
                 service, rbf, polled>>

\* The RESET instruction: SCC::reset, which leaves the flag as it is.
Reset ==
  /\ Main
  /\ active_reg' = 0
  /\ wr1' = {} /\ wr2' = 0 /\ wr9' = {} /\ RR3' = {} /\ RR3M' = {} /\ charcount' = 0
  /\ UNCHANGED <<flag, line, old, guest, polled>>

(***************************************************************************)
(* The other end of the line.                                              *)
(***************************************************************************)
Arrives ==
  /\ nbchar < MaxChars
  /\ nbchar' = nbchar + 1
  /\ UNCHANGED <<active_reg, wr1, wr2, wr9, RR3, RR3M, charcount, flag, temt, cts, old,
                 guest, polled>>

Drains ==
  /\ ~temt
  /\ temt' = TRUE
  /\ UNCHANGED <<active_reg, wr1, wr2, wr9, RR3, RR3M, charcount, flag, nbchar, cts,
                 old, guest, polled>>

CtsChanges ==
  /\ cts' = ~cts
  /\ UNCHANGED <<active_reg, wr1, wr2, wr9, RR3, RR3M, charcount, flag, nbchar, temt,
                 old, guest, polled>>

Program ==
  \/ \E r \in {1, 2, 5, 9} : Point(r)
  \/ \E S \in Wr1A : WriteWR1(ChannelA, S)
  \/ \E S \in Wr1B : WriteWR1(ChannelB, S)
  \/ WriteWR2
  \/ \E v \in Wr9 : WriteWR9(v)
  \/ OtherRegister \/ ReadRR0A \/ Reset
  \/ \E on \in BOOLEAN : SetMask(on)

Access ==
  \/ ReadRR0B \/ ReadData \/ WriteData
  \/ \E source \in {"ATx", "AExt", "BTx", "BExt"} : ResetPending(source)

Cpu == Interrupt \/ NoInterrupt

Host == Arrives \/ Drains \/ CtsChanges

Next == IRQ \/ Cpu \/ Program \/ Access \/ ResetHighestIUS \/ Host

Spec == Init /\ [][Next]_vars

\* The timer ticks, the CPU loop serves the flag, a handler reads its character
\* and returns, and the guest's program completes its accesses and does not keep
\* its mask for ever.
FairSpec ==
  /\ Spec
  /\ WF_vars(IRQ) /\ WF_vars(Cpu)
  /\ WF_vars(ReadData) /\ WF_vars(ResetHighestIUS)
  /\ WF_vars(~Free /\ Program) /\ SF_vars(SetMask(FALSE))

(***************************************************************************)
(* Properties.                                                             *)
(***************************************************************************)

\* The guest hears of the receiver.
Listening ==
  /\ wr2 = Base /\ "BRx" \in wr1 \cap RR3M
  /\ Configured(wr9) /\ wr9 \cap {"High", "Soft"} = {}

\* Every vector passed is one of the SCC's, and the handler of the receiver finds
\* a character: RxIP, which Reset Highest IUS keeps while charcount says so, never
\* outlives the characters, whatever ticks and looks at RR0B come between.
CharWaiting ==
  /\ service # "stray"
  /\ service = "BRx" /\ rbf => nbchar > 0

\* A source that is pending and enabled has SPCFLAG_SCC up or a handler at work
\* that will bring it up, though a vector passed lowers the flag with other
\* sources pending.  A look at RR0B from the program makes sources pending
\* without the flag, until the next tick.
PendingFlagged ==
  RR3 \cap RR3M # {} /\ Configured(wr9) /\ wr9 \cap {"High", "Soft"} = {}
    => flag \/ InHandler \/ polled

\* While the guest listens and CTS and the transmitter are quiet, characters that
\* wait are read: neither a look at RR0B, nor a count that is too small, nor a
\* handler that resets RxIP instead of its own source leaves them.  (With a new
\* edge in every handler of the other sources, each may reset RxIP.)
CharsRead ==
  /\ <>[](nbchar > 0 /\ Listening)
  /\ <>[][cts' = cts /\ temt' = temt]_vars
  => []<><<ReadData>>_vars

\* A source the guest has disabled in WR1 does not interrupt it.
DisabledQuiet == InHandler => service \in wr1
=============================================================================
