------------------------------ MODULE SccProofs ------------------------------
(***************************************************************************)
(* The invariants of the SCC's interrupts, for every set of values the     *)
(* guest may write to WR1 and WR9, with a line status register or without, *)
(* and any number of characters.                                           *)
(***************************************************************************)
EXTENDS Scc, TLAPS

Sources == ChannelA \cup ChannelB

(***************************************************************************)
(* The inductive invariant.                                                *)
(***************************************************************************)
\* The registers hold what their bits can say.
TypeOK ==
  /\ RR3 \subseteq Sources /\ RR3M \subseteq Sources
  /\ nbchar \in Nat /\ charcount \in Int

\* TriggerSCC and IRQ raise SPCFLAG_SCC only when WR9 is set up, and only a RESET
\* leaves the flag up with the registers cleared; the guest has written WR2 first.
FlagSetUp ==
  /\ Configured(wr9) => wr2 = Base
  /\ flag => Configured(wr9) \/ (wr9 = {} /\ wr2 = 0)

\* A handler runs masked and leaves WR9 alone.
HandlerSetUp == InHandler => masked /\ Configured(wr9)

\* RxIP is set by a look at the line only, which leaves no source pending that
\* is not enabled; while the receiver's handler runs, no source goes before it.
ReceiverFirst ==
  /\ "BRx" \in RR3 => RR3 \subseteq RR3M
  /\ service = "BRx" => RR3 \cap ChannelA = {}

\* charcount, which decides whether Reset Highest IUS keeps RxIP, promises no
\* more characters than there are; between the read of the data register and
\* Reset Highest IUS it counts the one just read.
CountKept ==
  "BRx" \in RR3 =>
    /\ charcount > 0
    /\ charcount <= nbchar + 1
    /\ ~(service = "BRx" /\ ~rbf) => charcount <= nbchar

IInv ==
  TypeOK /\ FlagSetUp /\ HandlerSetUp /\ ReceiverFirst /\ CountKept /\ CharWaiting

(***************************************************************************)
(* Lemmas on the vector.                                                   *)
(***************************************************************************)
\* Some source is the first of a set that is not empty, and only one is.
LEMMA FirstExists ==
  ASSUME NEW S, S \subseteq Sources, S # {}
  PROVE  \E i \in 1..6 : Priority[i] \in S /\ \A j \in 1..(i - 1) : Priority[j] \notin S
<1> DEFINE First(i) == Priority[i] \in S /\ \A j \in 1..(i - 1) : Priority[j] \notin S
<1>1. \E i \in 1..6 : Priority[i] \in S
  <2>1. PICK s \in Sources : s \in S
    OBVIOUS
  <2>2. \E i \in 1..6 : s = Priority[i]
    BY DEF Sources, ChannelA, ChannelB, Priority
  <2> QED
    BY <2>1, <2>2
<1>2. CASE Priority[1] \in S
  <2>1. First(1) BY <1>2
  <2> QED BY <2>1
<1>3. CASE Priority[1] \notin S /\ Priority[2] \in S
  <2>1. First(2) BY <1>3
  <2> QED BY <2>1
<1>4. CASE Priority[1] \notin S /\ Priority[2] \notin S /\ Priority[3] \in S
  <2>1. First(3) BY <1>4
  <2> QED BY <2>1
<1>5. CASE /\ Priority[1] \notin S /\ Priority[2] \notin S /\ Priority[3] \notin S
           /\ Priority[4] \in S
  <2>1. First(4) BY <1>5
  <2> QED BY <2>1
<1>6. CASE /\ Priority[1] \notin S /\ Priority[2] \notin S /\ Priority[3] \notin S
           /\ Priority[4] \notin S /\ Priority[5] \in S
  <2>1. First(5) BY <1>6
  <2> QED BY <2>1
<1>7. CASE /\ Priority[1] \notin S /\ Priority[2] \notin S /\ Priority[3] \notin S
           /\ Priority[4] \notin S /\ Priority[5] \notin S
  <2>1. Priority[6] \in S
    <3>1. PICK i \in 1..6 : Priority[i] \in S
      BY <1>1
    <3>2. i = 1 \/ i = 2 \/ i = 3 \/ i = 4 \/ i = 5 \/ i = 6
      OBVIOUS
    <3> QED
      BY <3>1, <3>2, <1>7
  <2>2. First(6) BY <1>7, <2>1
  <2> QED BY <2>2
<1> QED
  BY <1>2, <1>3, <1>4, <1>5, <1>6, <1>7

\* The loop over the sources finds one of those pending; and the receiver of
\* channel B exactly when it is pending and no source of channel A is.
LEMMA HighestIs ==
  ASSUME NEW S, S \subseteq Sources
  PROVE  /\ S = {} => Highest(S) = "none"
         /\ S # {} => Highest(S) \in S
         /\ Highest(S) = "BRx" <=> "BRx" \in S /\ S \cap ChannelA = {}
<1>1. CASE S = {}
  BY <1>1 DEF Highest
<1>2. CASE S # {}
  <2> DEFINE First(i) == Priority[i] \in S /\ \A j \in 1..(i - 1) : Priority[j] \notin S
             f == CHOOSE i \in 1..6 : First(i)
  <2>1. f \in 1..6 /\ First(f)
    <3>1. \E i \in 1..6 : First(i)
      BY <1>2, FirstExists
    <3> HIDE DEF First
    <3> QED
      BY <3>1
  <2>2. Highest(S) = Priority[f]
    BY <1>2 DEF Highest
  <2> HIDE DEF f
  <2>3. Priority[f] = "BRx" <=> f = 4
    BY <2>1 DEF Priority
  <2>4. f = 4 => "BRx" \in S /\ S \cap ChannelA = {}
    <3> SUFFICES ASSUME f = 4 PROVE "BRx" \in S /\ S \cap ChannelA = {}
      OBVIOUS
    <3>1. Priority[4] \in S /\ Priority[1] \notin S /\ Priority[2] \notin S /\ Priority[3] \notin S
      BY <2>1
    <3> QED
      BY <3>1 DEF Priority, ChannelA
  <2>5. "BRx" \in S /\ S \cap ChannelA = {} => f = 4
    <3> SUFFICES ASSUME "BRx" \in S, S \cap ChannelA = {} PROVE f = 4
      OBVIOUS
    <3>1. f # 1 /\ f # 2 /\ f # 3
      BY <2>1 DEF Priority, ChannelA
    <3>2. ~(f > 4)
      <4>1. SUFFICES ASSUME f > 4 PROVE FALSE
        OBVIOUS
      <4>2. 4 \in 1..(f - 1)
        BY <2>1, <4>1
      <4>3. Priority[4] \notin S
        BY <2>1, <4>2
      <4> QED
        BY <4>3 DEF Priority
    <3> QED
      BY <2>1, <3>1, <3>2
  <2> QED
    BY <1>2, <2>1, <2>2, <2>3, <2>4, <2>5
<1> QED
  BY <1>1, <1>2

\* doInterrupt, once WR9 asks for vectors that tell the source.
LEMMA VectorIs ==
  ASSUME Configured(wr9)
  PROVE  /\ wr9 \cap {"High", "Soft"} # {} => Vector = 0
         /\ wr9 \cap {"High", "Soft"} = {} =>
              Vector = IF Highest(RR3 \cap RR3M) = "none" THEN 0
                       ELSE wr2 + Status[Highest(RR3 \cap RR3M)]
<1>1. wr9 \cap {"VIS", "NV"} # {} /\ "NV" \notin wr9
  BY DEF Configured
<1>2. ASSUME wr9 \cap {"High", "Soft"} # {} PROVE Vector = 0
  <2>1. wr9 \cap {"NV", "High", "Soft"} # {}
    BY <1>2
  <2> QED
    BY <1>1, <2>1, Zenon DEF Vector
<1>3. ASSUME wr9 \cap {"High", "Soft"} = {}
      PROVE Vector = IF Highest(RR3 \cap RR3M) = "none" THEN 0
                       ELSE wr2 + Status[Highest(RR3 \cap RR3M)]
  <2>1. wr9 \cap {"NV", "High", "Soft"} = {}
    BY <1>1, <1>3
  <2> QED
    BY <1>1, <2>1, Zenon DEF Vector
<1> QED
  BY <1>2, <1>3

\* The guest finds the source in its vector.
LEMMA HandlerIs ==
  ASSUME NEW s \in Sources
  PROVE  Handler(Base + Status[s]) = s
<1> DEFINE S == {t \in DOMAIN Status : Base + Status[t] = Base + Status[s]}
<1>1. DOMAIN Status = Sources
  BY DEF Status, Sources, ChannelA, ChannelB
<1>2. \A t \in Sources : Base + Status[t] = Base + Status[s] => t = s
  BY DEF Status, Sources, ChannelA, ChannelB, Base
<1>3. S = {s}
  BY <1>1, <1>2
<1>4. Handler(Base + Status[s]) = IF S = {} THEN "stray" ELSE CHOOSE t \in S : TRUE
  BY DEF Handler
<1> QED
  BY <1>3, <1>4

\* A vector is passed for a source that is pending and enabled, the first one;
\* and there is one for each when WR9 has neither of the other bits.
LEMMA VectorPassed ==
  ASSUME TypeOK, FlagSetUp, Accepted
  PROVE  /\ Vector # 0 => /\ Configured(wr9)
                          /\ RR3 \cap RR3M # {}
                          /\ Handler(Vector) = Highest(RR3 \cap RR3M)
         /\ Configured(wr9) /\ wr9 \cap {"High", "Soft"} = {} /\ RR3 \cap RR3M # {}
              => Vector # 0
<1> DEFINE source == Highest(RR3 \cap RR3M)
<1>1. RR3 \cap RR3M \subseteq Sources
  BY DEF TypeOK
<1>2. RR3 \cap RR3M # {} => source \in Sources /\ source # "none"
  BY <1>1, HighestIs DEF Sources, ChannelA, ChannelB
<1>3. RR3 \cap RR3M = {} => source = "none"
  BY <1>1, HighestIs
<1> HIDE DEF source
<1>4. CASE Configured(wr9)
  <2>1. wr2 = Base
    BY <1>4 DEF FlagSetUp
  <2>2. /\ wr9 \cap {"High", "Soft"} # {} => Vector = 0
        /\ wr9 \cap {"High", "Soft"} = {} =>
              Vector = IF source = "none" THEN 0 ELSE Base + Status[source]
    BY <1>4, <2>1, VectorIs DEF source
  <2>3. source \in Sources => Base + Status[source] # 0
    BY DEF Base, Status, Sources, ChannelA, ChannelB
  <2>4. source \in Sources => Handler(Base + Status[source]) = source
    BY HandlerIs
  <2> QED
    BY <1>2, <1>3, <1>4, <2>2, <2>3, <2>4 DEF source
<1>5. CASE ~Configured(wr9)
  <2>1. wr9 = {} /\ wr2 = 0
    BY <1>5 DEF FlagSetUp, Accepted
  <2>2. wr9 \cap {"VIS", "NV"} = {}
    BY <2>1
  <2>3. Vector = 0
    BY <2>1, <2>2, Zenon DEF Vector
  <2> QED
    BY <1>5, <2>3
<1> QED
  BY <1>4, <1>5

(***************************************************************************)
(* The inductive invariant holds.                                          *)
(***************************************************************************)
\* SCC::reset and the guest's start.
LEMMA InitIInv == Init => IInv
BY DEF Init, IInv, TypeOK, FlagSetUp, HandlerSetUp, ReceiverFirst, CountKept,
       CharWaiting, Configured, InHandler

\* A look at the line, by the tick or by the guest, counts the characters anew.
LEMMA LookIInv ==
  ASSUME IInv, GetStatus, NEW More, More \subseteq ChannelA,
         RR3' = RR3M \cap (Conditions \cup More),
         InHandler => More = {},
         RR3M' = RR3M, nbchar' = nbchar, service' = service,
         service = "BRx" /\ rbf' => nbchar > 0
  PROVE  TypeOK' /\ ReceiverFirst' /\ CountKept' /\ CharWaiting'
<1>1. Conditions \subseteq ChannelB /\ ("BRx" \in Conditions => nbchar > 0)
  BY DEF Conditions, Receives, ChannelB
<1>2. RR3' \subseteq RR3M' /\ ("BRx" \in RR3' => nbchar > 0)
  BY <1>1 DEF ChannelA
<1>3. charcount' = nbchar
  BY DEF GetStatus
<1>4. TypeOK'
  BY <1>2, <1>3 DEF IInv, TypeOK
<1>5. ReceiverFirst'
  BY <1>1, <1>2 DEF ReceiverFirst, InHandler, ChannelA, ChannelB
<1>6. CountKept'
  BY <1>2, <1>3 DEF IInv, TypeOK, CountKept
<1>7. CharWaiting'
  BY DEF IInv, CharWaiting
<1> QED
  BY <1>4, <1>5, <1>6, <1>7

\* The tick's look at the line.
LEMMA TickIInv == IInv /\ IRQ => IInv'
<1> SUFFICES ASSUME IInv, IRQ PROVE IInv'
  OBVIOUS
<1> DEFINE More == IF wr9 = {"Soft"} THEN {"AExt"} ELSE {}
<1>1. More \subseteq ChannelA
  BY DEF ChannelA
<1>2. InHandler => More = {}
  BY DEF IInv, HandlerSetUp, Configured
<1>3. /\ GetStatus /\ RR3' = RR3M \cap (Conditions \cup More)
      /\ RR3M' = RR3M /\ nbchar' = nbchar /\ service' = service /\ rbf' = rbf
      /\ masked' = masked /\ wr2' = wr2 /\ wr9' = wr9
  BY DEF IRQ, line, guest
<1>4. service = "BRx" /\ rbf' => nbchar > 0
  BY <1>3, Zenon DEF IInv, CharWaiting
<1> HIDE DEF More
<1>5. TypeOK' /\ ReceiverFirst' /\ CountKept' /\ CharWaiting'
  BY <1>1, <1>2, <1>3, <1>4, LookIInv
<1>6. flag' => flag \/ Configured(wr9)
  BY Zenon DEF IRQ
<1>7. FlagSetUp'
  BY <1>3, <1>6 DEF IInv, FlagSetUp, Configured
<1>8. HandlerSetUp'
  BY <1>3, Zenon DEF IInv, HandlerSetUp, InHandler, Configured
<1> QED
  BY <1>5, <1>7, <1>8 DEF IInv

\* The CPU loop passes a vector, for the receiver only when a character waits.
LEMMA InterruptIInv == IInv /\ Interrupt => IInv'
<1> SUFFICES ASSUME IInv, Interrupt PROVE IInv'
  OBVIOUS
<1> DEFINE source == Highest(RR3 \cap RR3M)
<1>1. /\ Accepted /\ Vector # 0 /\ flag' = FALSE /\ masked' = TRUE
      /\ service' = Handler(Vector)
      /\ RR3' = RR3 /\ RR3M' = RR3M /\ charcount' = charcount /\ nbchar' = nbchar
      /\ wr2' = wr2 /\ wr9' = wr9
  BY DEF Interrupt, line
<1>2. Configured(wr9) /\ RR3 \cap RR3M # {} /\ service' = source
  BY <1>1, VectorPassed DEF IInv
<1>3. RR3 \cap RR3M \subseteq Sources
  BY DEF IInv, TypeOK
<1>4. source \in RR3 \cap RR3M
  BY <1>2, <1>3, HighestIs
<1>5. source = "BRx" => "BRx" \in RR3 /\ RR3 \cap RR3M \cap ChannelA = {}
  BY <1>3, HighestIs
<1> HIDE DEF source
<1>6. ~InHandler
  BY <1>1 DEF IInv, HandlerSetUp, Accepted
<1>7. "BRx" \in RR3 => nbchar > 0 /\ charcount > 0 /\ charcount <= nbchar
  BY <1>6 DEF IInv, CountKept, TypeOK, InHandler
<1>8. TypeOK' /\ FlagSetUp' /\ HandlerSetUp'
  BY <1>1, <1>2 DEF IInv, TypeOK, FlagSetUp, HandlerSetUp, Configured
<1>9. ReceiverFirst'
  BY <1>1, <1>2, <1>5 DEF IInv, ReceiverFirst
<1>10. CountKept'
  <2>1. charcount <= nbchar => charcount <= nbchar + 1
    BY DEF IInv, TypeOK
  <2> QED
    BY <1>1, <1>7, <2>1 DEF CountKept
<1>11. CharWaiting'
  BY <1>1, <1>2, <1>3, <1>4, <1>5, <1>7 DEF CharWaiting, Sources, ChannelA, ChannelB
<1> QED
  BY <1>8, <1>9, <1>10, <1>11 DEF IInv

\* A count that the characters cover is covered when more arrive.
LEMMA StillLess ==
  ASSUME NEW c \in Int, NEW m \in Nat, NEW n \in Nat, m <= n
  PROVE  (c <= m => c <= n) /\ (c <= m + 1 => c <= n + 1)
OBVIOUS

\* Steps that take neither a source nor the flag up, and no character away.
LEMMA KeepsIInv ==
  ASSUME IInv, RR3' = RR3, RR3M' = RR3M, charcount' = charcount,
         nbchar' \in Nat, nbchar <= nbchar', wr2' = wr2, wr9' = wr9,
         flag' => flag, service' = service, rbf' = rbf,
         InHandler => masked'
  PROVE  IInv'
<1>1. TypeOK' /\ ReceiverFirst'
  BY DEF IInv, TypeOK, ReceiverFirst
<1>2. FlagSetUp'
  BY DEF IInv, FlagSetUp, Configured
<1>3. HandlerSetUp'
  BY DEF IInv, HandlerSetUp, InHandler, Configured
<1>4. CountKept'
  <2>0. nbchar \in Nat /\ nbchar' \in Nat /\ charcount \in Int /\ nbchar <= nbchar'
    BY DEF IInv, TypeOK
  <2>1. /\ charcount <= nbchar => charcount <= nbchar'
        /\ charcount <= nbchar + 1 => charcount <= nbchar' + 1
    BY <2>0, StillLess, Zenon
  <2> QED
    BY <2>1 DEF IInv, CountKept
<1>5. CharWaiting'
  <2>1. nbchar > 0 => nbchar' > 0
    BY DEF IInv, TypeOK
  <2> QED
    BY <2>1 DEF IInv, CharWaiting
<1> QED
  BY <1>1, <1>2, <1>3, <1>4, <1>5 DEF IInv

\* Accesses of the program, which runs no handler: sources go away, and TriggerSCC
\* brings the flag up to date.
LEMMA ProgramIInv ==
  ASSUME IInv, ~InHandler, service' = service, rbf' = rbf,
         charcount' = charcount, nbchar' = nbchar, masked' = masked,
         RR3' \subseteq RR3, RR3M' \subseteq Sources,
         RR3 \subseteq RR3M => RR3' \subseteq RR3M',
         Configured(wr9') => wr2' = Base, TriggerSCC
  PROVE  IInv'
<1>1. TypeOK'
  BY DEF IInv, TypeOK
<1>2. FlagSetUp'
  <2>1. flag' => Configured(wr9')
    BY Zenon DEF TriggerSCC
  <2> QED
    BY <2>1, Zenon DEF FlagSetUp
<1>3. HandlerSetUp' /\ ReceiverFirst' /\ CharWaiting'
  BY DEF IInv, HandlerSetUp, ReceiverFirst, CharWaiting, InHandler
<1>4. CountKept'
  BY DEF IInv, CountKept, InHandler
<1> QED
  BY <1>1, <1>2, <1>3, <1>4 DEF IInv

\* Reset Highest IUS takes the receiver's source away with the last character.
LEMMA ReturnIInv == IInv /\ ResetHighestIUS => IInv'
<1> SUFFICES ASSUME IInv, ResetHighestIUS PROVE IInv'
  OBVIOUS
<1> DEFINE source == Highest(RR3)
<1>1. /\ InHandler /\ (service = "BRx" => ~rbf)
      /\ charcount' = IF source = "BRx" THEN charcount - 1 ELSE charcount
      /\ RR3' = IF source = "BRx" /\ charcount' > 0 THEN RR3 ELSE RR3 \ {source}
      /\ service' = "none" /\ masked' = FALSE
      /\ RR3M' = RR3M /\ nbchar' = nbchar /\ wr2' = wr2 /\ wr9' = wr9
  BY DEF ResetHighestIUS, MoreChars, line
<1>2. flag' => Configured(wr9')
  BY Zenon DEF ResetHighestIUS, Retrigger, TriggerSCC
<1>3. source = "BRx" <=> "BRx" \in RR3 /\ RR3 \cap ChannelA = {}
  BY HighestIs DEF IInv, TypeOK
<1> HIDE DEF source
<1>4. TypeOK'
  BY <1>1 DEF IInv, TypeOK
<1>5. FlagSetUp'
  BY <1>1, <1>2, Zenon DEF IInv, FlagSetUp
<1>6. HandlerSetUp' /\ ReceiverFirst' /\ CharWaiting'
  BY <1>1 DEF IInv, HandlerSetUp, ReceiverFirst, CharWaiting, InHandler
<1>7. CountKept'
  <2> SUFFICES ASSUME "BRx" \in RR3'
               PROVE  charcount' > 0 /\ charcount' <= nbchar + 1 /\ charcount' <= nbchar
    BY <1>1 DEF CountKept
  <2>1. "BRx" \in RR3 /\ nbchar \in Nat /\ charcount \in Int
    BY <1>1 DEF IInv, TypeOK
  <2>2. charcount > 0 /\ charcount <= nbchar + 1
    BY <2>1 DEF IInv, CountKept
  <2>3. CASE source = "BRx"
    <3>1. charcount' > 0 /\ charcount' = charcount - 1
      BY <1>1, <2>3
    <3> QED
      BY <2>1, <2>2, <3>1
  <2>4. CASE source # "BRx"
    <3>1. charcount' = charcount /\ service # "BRx"
      BY <1>1, <1>3, <2>1, <2>4 DEF IInv, ReceiverFirst
    <3>2. charcount <= nbchar
      BY <2>1, <3>1 DEF IInv, CountKept
    <3> QED
      BY <2>2, <3>1, <3>2
  <2> QED
    BY <2>3, <2>4
<1> QED
  BY <1>4, <1>5, <1>6, <1>7 DEF IInv

\* The guest reads a character in the receive handler.
LEMMA ReadDataIInv == IInv /\ ReadData => IInv'
<1> SUFFICES ASSUME IInv, ReadData PROVE IInv'
  OBVIOUS
<1>1. /\ service = "BRx" /\ rbf /\ rbf' = FALSE
      /\ nbchar' = IF nbchar > 0 THEN nbchar - 1 ELSE 0
      /\ RR3' = RR3 /\ RR3M' = RR3M /\ charcount' = charcount /\ service' = service
      /\ masked' = masked /\ wr2' = wr2 /\ wr9' = wr9 /\ flag' = flag
  BY DEF ReadData
<1>2. nbchar > 0 /\ nbchar \in Nat /\ charcount \in Int
  BY <1>1 DEF IInv, CharWaiting, TypeOK
<1>3. nbchar' = nbchar - 1 /\ nbchar' \in Nat
  BY <1>1, <1>2
<1>4. TypeOK' /\ ReceiverFirst'
  BY <1>1, <1>3 DEF IInv, TypeOK, ReceiverFirst
<1>5. FlagSetUp'
  BY <1>1 DEF IInv, FlagSetUp, Configured
<1>6. HandlerSetUp' /\ CharWaiting'
  BY <1>1, Zenon DEF IInv, HandlerSetUp, CharWaiting, InHandler, Configured
<1>7. CountKept'
  <2>1. charcount <= nbchar => charcount <= nbchar' + 1
    BY <1>2, <1>3
  <2> QED
    BY <1>1, <2>1 DEF IInv, CountKept
<1> QED
  BY <1>4, <1>5, <1>6, <1>7 DEF IInv

\* The guest looks at RR0B.
LEMMA ReadStatusIInv == IInv /\ ReadRR0B => IInv'
<1> SUFFICES ASSUME IInv, ReadRR0B PROVE IInv'
  OBVIOUS
<1>1. /\ GetStatus /\ RR3' = RR3M \cap (Conditions \cup {})
      /\ RR3M' = RR3M /\ nbchar' = nbchar /\ service' = service
      /\ masked' = masked /\ wr2' = wr2 /\ wr9' = wr9 /\ flag' = flag
  BY DEF ReadRR0B, line
<1>2. rbf' => nbchar > 0
  BY Zenon DEF ReadRR0B
<1>3. TypeOK' /\ ReceiverFirst' /\ CountKept' /\ CharWaiting'
  <2>1. PICK More : More = {}
    BY Zenon
  <2>2. More \subseteq ChannelA /\ RR3' = RR3M \cap (Conditions \cup More)
    BY <1>1, <2>1
  <2> QED
    BY <1>1, <1>2, <2>1, <2>2, LookIInv, Zenon
<1>4. FlagSetUp'
  BY <1>1 DEF IInv, FlagSetUp, Configured
<1>5. HandlerSetUp'
  BY <1>1, Zenon DEF IInv, HandlerSetUp, InHandler, Configured
<1> QED
  BY <1>3, <1>4, <1>5 DEF IInv

\* Every step keeps the invariant.
LEMMA NextIInv == IInv /\ [Next]_vars => IInv'
<1> SUFFICES ASSUME IInv, [Next]_vars PROVE IInv'
  OBVIOUS
<1>0. nbchar \in Nat /\ (InHandler => masked)
  BY DEF IInv, TypeOK, HandlerSetUp
<1>1. CASE IRQ
  BY <1>1, TickIInv
<1>2. CASE Interrupt
  BY <1>2, InterruptIInv
<1>3. CASE NoInterrupt
  BY <1>0, <1>3, KeepsIInv DEF NoInterrupt, line, guest
<1>4. CASE \E r \in {1, 2, 5, 9} : Point(r)
  BY <1>0, <1>4, KeepsIInv DEF Point, line, guest
<1>5. ASSUME NEW channel, NEW S \in SUBSET Sources, WriteWR1(channel, S) PROVE IInv'
  <2>1. /\ ~InHandler /\ service' = service /\ rbf' = rbf
        /\ charcount' = charcount /\ nbchar' = nbchar /\ masked' = masked
        /\ RR3' = RR3 \ (channel \ S) /\ RR3M' = RR3M \cup S
        /\ wr2' = wr2 /\ wr9' = wr9 /\ TriggerSCC
    BY <1>5, Zenon DEF WriteWR1, Main, Enable, line, guest
  <2>2. /\ RR3' \subseteq RR3 /\ RR3M' \subseteq Sources
        /\ RR3 \subseteq RR3M => RR3' \subseteq RR3M'
    BY <2>1 DEF IInv, TypeOK
  <2>3. Configured(wr9') => wr2' = Base
    BY <2>1 DEF IInv, FlagSetUp
  <2> QED
    BY <2>1, <2>2, <2>3, ProgramIInv, Zenon
<1>6. CASE WriteWR2
  <2>1. /\ ~InHandler /\ service' = service /\ rbf' = rbf
        /\ charcount' = charcount /\ nbchar' = nbchar /\ masked' = masked
        /\ RR3' = RR3 /\ RR3M' = RR3M /\ wr2' = Base /\ TriggerSCC
    BY <1>6, Zenon DEF WriteWR2, Main, line, guest
  <2>2. RR3' \subseteq RR3 /\ RR3M' \subseteq Sources
        /\ (RR3 \subseteq RR3M => RR3' \subseteq RR3M')
    BY <2>1 DEF IInv, TypeOK
  <2> QED
    BY <2>1, <2>2, ProgramIInv, Zenon
<1>7. ASSUME NEW v \in SUBSET Bit, WriteWR9(v) PROVE IInv'
  <2>1. /\ ~InHandler /\ service' = service /\ rbf' = rbf
        /\ charcount' = charcount /\ nbchar' = nbchar /\ masked' = masked
        /\ RR3' = RR3 \ ResetSources(v) /\ RR3M' = RR3M \ ResetSources(v)
        /\ Configured(v) => wr2 = Base
        /\ wr2' = wr2 /\ TriggerSCC
        /\ wr9' = IF v \cap {"ResetA", "ResetB"} = {} THEN v ELSE {}
    BY <1>7, Zenon DEF WriteWR9, Main, line, guest
  <2>2. /\ RR3' \subseteq RR3 /\ RR3M' \subseteq Sources
        /\ RR3 \subseteq RR3M => RR3' \subseteq RR3M'
    BY <2>1 DEF IInv, TypeOK
  <2>3. ~Configured({})
    BY DEF Configured
  <2>4. Configured(wr9') => wr2' = Base
    <3>1. wr9' = v \/ wr9' = {}
      BY <2>1
    <3> QED
      BY <2>1, <2>3, <3>1, Zenon
  <2> QED
    BY <2>1, <2>2, <2>4, ProgramIInv, Zenon
<1>8. CASE OtherRegister
  BY <1>0, <1>8, KeepsIInv DEF OtherRegister, line, guest
<1>9. CASE ReadRR0A
  <2>1. /\ ~InHandler /\ service' = service /\ rbf' = rbf /\ flag' = flag
        /\ charcount' = charcount /\ nbchar' = nbchar /\ masked' = masked
        /\ RR3M' = RR3M /\ wr2' = wr2 /\ wr9' = wr9
        /\ wr9 = {"Soft"} => RR3M \cap ChannelB = {}
        /\ RR3' = IF wr9 = {"Soft"} THEN RR3 \cup {"AExt"} ELSE RR3
    BY <1>9, Zenon DEF ReadRR0A, Main, line, guest
  <2>2. CASE wr9 # {"Soft"}
    BY <1>0, <2>1, <2>2, KeepsIInv
  <2>3. CASE wr9 = {"Soft"}
    <3>1. "BRx" \notin RR3'
      BY <2>1, <2>3 DEF IInv, ReceiverFirst, ChannelB
    <3>2. TypeOK' /\ ReceiverFirst' /\ CountKept'
      BY <2>1, <2>3, <3>1 DEF IInv, TypeOK, ReceiverFirst, CountKept, InHandler,
                              Sources, ChannelA
    <3>3. FlagSetUp'
      BY <2>1 DEF IInv, FlagSetUp, Configured
    <3>4. HandlerSetUp' /\ CharWaiting'
      BY <2>1 DEF IInv, HandlerSetUp, CharWaiting, InHandler
    <3> QED
      BY <3>2, <3>3, <3>4 DEF IInv
  <2> QED
    BY <2>2, <2>3
<1>10. CASE Reset
  <2>1. /\ ~InHandler /\ service' = service /\ nbchar' = nbchar
        /\ RR3' = {} /\ RR3M' = {} /\ charcount' = 0 /\ wr2' = 0 /\ wr9' = {}
    BY <1>10, Zenon DEF Reset, Main, line, guest
  <2>2. ~Configured(wr9')
    BY <2>1 DEF Configured
  <2>3. FlagSetUp'
    BY <2>1, <2>2, Zenon DEF FlagSetUp
  <2>4. TypeOK' /\ HandlerSetUp' /\ ReceiverFirst' /\ CountKept' /\ CharWaiting'
    BY <1>0, <2>1 DEF TypeOK, HandlerSetUp, ReceiverFirst, CountKept, CharWaiting, InHandler
  <2> QED
    BY <2>3, <2>4 DEF IInv
<1>11. CASE \E on \in BOOLEAN : SetMask(on)
  BY <1>0, <1>11, KeepsIInv DEF SetMask, line
<1>12. CASE ReadRR0B
  BY <1>12, ReadStatusIInv
<1>13. CASE ReadData
  BY <1>13, ReadDataIInv
<1>14. CASE WriteData
  BY <1>0, <1>14, KeepsIInv DEF WriteData, guest
<1>15. ASSUME NEW source \in {"ATx", "AExt", "BTx", "BExt"}, ResetPending(source)
       PROVE  IInv'
  <2>1. /\ service' = service /\ rbf' = rbf /\ wr2' = wr2 /\ wr9' = wr9
        /\ charcount' = charcount /\ nbchar' = nbchar /\ masked' = masked
        /\ RR3M' = RR3M /\ RR3' = RR3 \ {source}
    BY <1>15 DEF ResetPending, line, guest
  <2>2. flag' => Configured(wr9')
    BY <1>15, Zenon DEF ResetPending, TriggerSCC
  <2>3. FlagSetUp'
    BY <2>1, <2>2, Zenon DEF IInv, FlagSetUp
  <2>4. TypeOK' /\ ReceiverFirst'
    BY <2>1 DEF IInv, TypeOK, ReceiverFirst
  <2>5. HandlerSetUp' /\ CharWaiting'
    BY <2>1 DEF IInv, HandlerSetUp, CharWaiting, InHandler, Configured
  <2>6. CountKept'
    BY <2>1 DEF IInv, CountKept
  <2> QED
    BY <2>3, <2>4, <2>5, <2>6 DEF IInv
<1>16. CASE ResetHighestIUS
  BY <1>16, ReturnIInv
<1>17. CASE Arrives
  <2>1. nbchar' = nbchar + 1
    BY <1>17 DEF Arrives
  <2>2. nbchar' \in Nat /\ nbchar <= nbchar'
    BY <1>0, <2>1
  <2> QED
    BY <1>0, <1>17, <2>2, KeepsIInv DEF Arrives, guest
<1>18. CASE Drains
  BY <1>0, <1>18, KeepsIInv DEF Drains, guest
<1>19. CASE CtsChanges
  BY <1>0, <1>19, KeepsIInv DEF CtsChanges, guest
<1>20. CASE UNCHANGED vars
  BY <1>0, <1>20, KeepsIInv DEF vars, line, guest
<1>21. /\ Wr1A \subseteq SUBSET Sources /\ Wr1B \subseteq SUBSET Sources
       /\ Wr9 \subseteq SUBSET Bit
  BY ConstantsAssumption DEF Sources
<1> QED
  BY <1>1, <1>2, <1>3, <1>4, <1>5, <1>6, <1>7, <1>8, <1>9, <1>10, <1>11, <1>12,
     <1>13, <1>14, <1>15, <1>16, <1>17, <1>18, <1>19, <1>20, <1>21
     DEF Next, Cpu, Program, Access, Host

\* In every reachable state the invariant above holds, whatever the guest writes
\* to WR1 and WR9 and whatever the line does.
THEOREM Invariance == Spec => []IInv
<1>1. Init => IInv
  BY InitIInv
<1>2. IInv /\ [Next]_vars => IInv'
  BY NextIInv
<1> QED
  BY <1>1, <1>2, PTL DEF Spec

\* doInterrupt passes no vector of another device's, and the receive handler
\* always finds a character in the host's buffer: what Reset Highest IUS keeps
\* pending on the word of charcount was not read in between.
THEOREM HandlerFindsCharacter == Spec => []CharWaiting
<1>1. IInv => CharWaiting
  BY DEF IInv
<1> QED
  BY <1>1, Invariance, PTL

(***************************************************************************)
(* The flag follows the pending sources.                                   *)
(***************************************************************************)
\* A source becomes visible to the CPU: it is pending, enabled and has a vector.
Visible == RR3 \cap RR3M # {} /\ Configured(wr9) /\ wr9 \cap {"High", "Soft"} = {}

\* A step that makes no source visible and takes neither the flag away nor the
\* handler.
LEMMA KeepsFlagged ==
  ASSUME PendingFlagged, RR3' \cap RR3M' \subseteq RR3 \cap RR3M, wr9' = wr9,
         flag => flag', InHandler => InHandler', polled => polled'
  PROVE  PendingFlagged'
<1>1. Visible' => Visible
  BY DEF Visible, Configured
<1>2. Visible => flag \/ InHandler \/ polled
  BY Zenon DEF PendingFlagged, Visible
<1> QED
  BY <1>1, <1>2, Zenon DEF PendingFlagged, Visible

\* TriggerSCC raises the flag for what is visible.
LEMMA TriggerFlags == TriggerSCC => PendingFlagged'
<1>1. TriggerSCC => (RR3' \cap RR3M' # {} /\ Configured(wr9') => flag')
  BY Zenon DEF TriggerSCC
<1> QED
  BY <1>1, Zenon DEF PendingFlagged

\* Every step keeps the flag up for what is visible.
LEMMA NextFlagged == IInv /\ PendingFlagged /\ [Next]_vars => PendingFlagged'
<1> SUFFICES ASSUME IInv, PendingFlagged, [Next]_vars PROVE PendingFlagged'
  OBVIOUS
<1>1. CASE IRQ
  <2>1. /\ RR3' \subseteq RR3M /\ RR3M' = RR3M /\ wr9' = wr9
        /\ RR3' # {} /\ Configured(wr9) => flag'
    BY <1>1, Zenon DEF IRQ
  <2>2. RR3' \cap RR3M' # {} => RR3' # {}
    OBVIOUS
  <2> QED
    BY <2>1, <2>2, Zenon DEF PendingFlagged
<1>2. CASE Interrupt
  <2>1. Accepted /\ Vector # 0 /\ service' = Handler(Vector)
    BY <1>2 DEF Interrupt
  <2>2. service' = Highest(RR3 \cap RR3M) /\ RR3 \cap RR3M # {}
    BY <2>1, VectorPassed DEF IInv
  <2>3. service' \in RR3 \cap RR3M /\ RR3 \cap RR3M \subseteq Sources
    BY <2>2, HighestIs DEF IInv, TypeOK
  <2>4. InHandler'
    BY <2>3 DEF InHandler, Sources, ChannelA, ChannelB
  <2> QED
    BY <2>4, Zenon DEF PendingFlagged
<1>3. CASE NoInterrupt
  <2>1. Accepted /\ Vector = 0 /\ RR3' = RR3 /\ RR3M' = RR3M /\ wr9' = wr9
    BY <1>3 DEF NoInterrupt
  <2>2. ~Visible
    BY <2>1, VectorPassed DEF IInv, Visible
  <2>3. ~Visible'
    BY <2>1, <2>2 DEF Visible, Configured
  <2> QED
    BY <2>3, Zenon DEF PendingFlagged, Visible
<1>4. CASE ReadRR0A
  <2>1. CASE wr9 = {"Soft"}
    <3>1. "Soft" \in wr9'
      BY <1>4, <2>1 DEF ReadRR0A
    <3>2. wr9' \cap {"High", "Soft"} # {}
      BY <3>1
    <3> QED
      BY <3>2, Zenon DEF PendingFlagged
  <2>2. CASE wr9 # {"Soft"}
    BY <1>4, <2>2, KeepsFlagged DEF ReadRR0A, guest, InHandler
  <2> QED
    BY <2>1, <2>2
<1>5. CASE ReadRR0B
  <2>1. service' = service /\ (polled' \/ InHandler)
    BY <1>5, Zenon DEF ReadRR0B
  <2>2. polled' \/ InHandler'
    BY <2>1 DEF InHandler
  <2> QED
    BY <2>2, Zenon DEF PendingFlagged
<1>6. CASE Reset
  <2>1. RR3' \cap RR3M' = {}
    BY <1>6 DEF Reset
  <2> QED
    BY <2>1, Zenon DEF PendingFlagged
<1>7. CASE \/ \E r \in {1, 2, 5, 9} : Point(r)
           \/ OtherRegister \/ \E on \in BOOLEAN : SetMask(on)
           \/ ReadData \/ WriteData \/ Host \/ UNCHANGED vars
  <2>1. /\ RR3' = RR3 /\ RR3M' = RR3M /\ wr9' = wr9 /\ flag' = flag
        /\ service' = service /\ polled' = polled
    BY <1>7 DEF Point, OtherRegister, SetMask, ReadData, WriteData, Host, Arrives,
                Drains, CtsChanges, vars, guest
  <2> QED
    BY <2>1, KeepsFlagged DEF InHandler
<1>8. CASE \/ \E S \in Wr1A : WriteWR1(ChannelA, S)
           \/ \E S \in Wr1B : WriteWR1(ChannelB, S)
           \/ WriteWR2 \/ \E v \in Wr9 : WriteWR9(v)
           \/ \E source \in {"ATx", "AExt", "BTx", "BExt"} : ResetPending(source)
           \/ ResetHighestIUS
  <2>1. TriggerSCC
    BY <1>8, Zenon DEF WriteWR1, WriteWR2, WriteWR9, ResetPending, ResetHighestIUS, Retrigger
  <2> QED
    BY <2>1, TriggerFlags
<1> QED
  BY <1>1, <1>2, <1>3, <1>4, <1>5, <1>6, <1>7, <1>8 DEF Next, Cpu, Program, Access

\* No interrupt of the SCC is forgotten: a source pending and enabled has
\* SPCFLAG_SCC up, or a handler that ends with TriggerSCC, or was found by a look
\* at RR0B since the last tick.
THEOREM PendingIsFlagged == Spec => []PendingFlagged
<1>1. Init => PendingFlagged
  BY DEF Init, PendingFlagged
<1>2. IInv /\ PendingFlagged /\ [Next]_vars => PendingFlagged'
  BY NextFlagged
<1> QED
  BY <1>1, <1>2, Invariance, PTL DEF Spec

=============================================================================
