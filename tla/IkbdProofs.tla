----------------------------- MODULE IkbdProofs -----------------------------
(***************************************************************************)
(* The keyboard's queue keeps packets together and announces every byte,   *)
(* for a ring of any length over eight, any host events and any commands.  *)
(***************************************************************************)
EXTENDS Ikbd, SequenceTheorems, WellFoundedInduction, TLAPS

(***************************************************************************)
(* The inductive invariant.                                                *)
(***************************************************************************)
Types == {"unknown", "keyboard", "mouse", "joystick"}

TypeOK ==
  /\ queue \in Seq(Byte) /\ Len(queue) < inbufferlen
  /\ intype \in Types
  /\ sr \in SUBSET {"RXFULL", "INTERRUPT"}
  /\ rec_inter \in BOOLEAN /\ ier6 \in BOOLEAN /\ irq6 \in BOOLEAN
  /\ handling \in BOOLEAN /\ masked \in BOOLEAN /\ lossy \in BOOLEAN

\* A byte has a place in its packet, and the first one tells the length.
Placed(byte) ==
  /\ byte.pos <= byte.len
  /\ byte.len = PacketLength(byte.head)
  /\ byte.pos = 1 => byte.len = PacketLength(byte.v)

\* b may come after a: in the same packet or at the beginning of one.
Next2(a, b) ==
  /\ a.pos < a.len => b.pos = a.pos + 1 /\ b.len = a.len
  /\ a.pos >= a.len => b.pos = 1

\* Packet follows packet, whatever a full queue has cut off at its head.
Chain(q) ==
  /\ \A i \in 1..Len(q) : Placed(q[i])
  /\ \A i \in 1..(Len(q) - 1) : Next2(q[i], q[i + 1])

\* The last packet is complete.
Ended(q) == q # <<>> => q[Len(q)].pos = q[Len(q)].len

\* A guest between packets finds a beginning.
Begins(q, between) == between /\ q # <<>> => q[1].pos = 1

\* What MergeMousePacket takes for the header of a mouse packet is one: another
\* packet that leaves intype alone does not look like it.
MouseLast(q, type) ==
  type = "mouse" /\ Len(q) >= 3 /\ q[Len(q) - 2].v \in 248..251 => q[Len(q) - 2].pos = 1

\* Between two packets.
Between == last.pos = last.len

Whole(q, type, between) ==
  Chain(q) /\ Ended(q) /\ Begins(q, between) /\ MouseLast(q, type)

\* While the ACIA requests service there is a byte, and the way to the guest is open.
Requests ==
  "INTERRUPT" \in sr /\ ~masked =>
    /\ irq6 \/ handling
    /\ gpip4 = 0
    /\ ier6 /\ rec_inter
    /\ queue # <<>>

IInv == TypeOK /\ Whole(queue, intype, Between) /\ Requests

\* What the guest knows of the joysticks.
Joysticks ==
  /\ DOMAIN told = 0..1 /\ joy_state \in [0..1 -> SUBSET Switch]
  /\ JoysticksTold

\* The command that reverses the Y axis is never collected.
Upright ==
  /\ yaxis_reversed = FALSE
  /\ outbuffer \in Seq(0..255)
  /\ outbuffer # <<>> => outbuffer[1] # 15

\* What the guest has yet to read of the mouse.
Motions ==
  /\ Upright
  /\ balance \in [x : Int, y : Int]
  /\ MotionConserved

(***************************************************************************)
(* Loops.  A set of turns that holds the first one and goes on holds all,  *)
(* and a loop whose turns stay in a set defines a function.                *)
(***************************************************************************)
\* A loop that begins well and goes on well ends well.
LEMMA Climb ==
  ASSUME NEW n \in Nat, NEW T, 0 \in T,
         \A i \in 1..n : i - 1 \in T => i \in T
  PROVE  \A i \in 0..n : i \in T
<1> DEFINE B == {i \in 0..n : i \notin T}
<1>1. SUFFICES ASSUME B # {} PROVE FALSE
  BY Zenon
<1>2. B \subseteq Nat
  OBVIOUS
<1>3. PICK m \in B : \A k \in B : ~(<<k, m>> \in OpToRel(<, Nat))
  <2> HIDE DEF B
  <2> QED BY <1>1, <1>2, WFMin, NatLessThanWellFounded, Zenon
<1>4. m \in 1..n /\ m \notin T
  OBVIOUS
<1>5. m - 1 \in B
  BY <1>4
<1>6. <<m - 1, m>> \in OpToRel(<, Nat)
  BY <1>4 DEF OpToRel
<1> QED BY <1>3, <1>5, <1>6, Zenon

\* f has the turns of a loop of n turns that begins with a.
Loops(f, n, a, g) == f[0] = a /\ \A i \in 1..n : f[i] = g[<<i, f[i - 1]>>]
HasLoop(n, S, a, g) == \E f \in [0..n -> S] : Loops(f, n, a, g)

\* The turns of a loop are a function of their number.
LEMMA LoopDefined ==
  ASSUME NEW n \in Nat, NEW S, NEW a \in S, NEW g \in [(1..n) \X S -> S]
  PROVE  HasLoop(n, S, a, g)
<1> DEFINE T == {m \in 0..n : \E f \in [0..m -> S] : Loops(f, m, a, g)}
<1>1. 0 \in T
  <2> DEFINE f0 == [i \in 0..0 |-> a]
  <2>1. f0 \in [0..0 -> S] /\ Loops(f0, 0, a, g)
    BY DEF Loops
  <2>2. 0 \in 0..n
    OBVIOUS
  <2> HIDE DEF f0
  <2> QED BY <2>1, <2>2, Zenon
<1>2. ASSUME NEW m \in 1..n, m - 1 \in T PROVE m \in T
  <2>1. PICK f \in [0..(m - 1) -> S] : Loops(f, m - 1, a, g)
    BY <1>2, Zenon
  <2> DEFINE h == [i \in 0..m |-> IF i = m THEN g[<<m, f[m - 1]>>] ELSE f[i]]
  <2>2. f[m - 1] \in S /\ g[<<m, f[m - 1]>>] \in S
    OBVIOUS
  <2>3. h \in [0..m -> S]
    BY <2>2
  <2>4. h[0] = a
    BY <2>1 DEF Loops
  <2>5. ASSUME NEW i \in 1..m PROVE h[i] = g[<<i, h[i - 1]>>]
    <3>1. CASE i # m
      <4>1. i - 1 \in 0..m /\ i - 1 # m /\ i \in 1..(m - 1) /\ i \in 0..m
        BY <3>1
      <4>2. h[i] = f[i] /\ h[i - 1] = f[i - 1]
        BY <4>1, <3>1, Zenon
      <4>3. f[i] = g[<<i, f[i - 1]>>]
        BY <4>1, <2>1, Zenon DEF Loops
      <4> QED BY <4>2, <4>3, Zenon
    <3>2. CASE i = m
      <4>1. m - 1 \in 0..m /\ m - 1 # m /\ m \in 0..m
        OBVIOUS
      <4>2. h[m] = g[<<m, f[m - 1]>>] /\ h[m - 1] = f[m - 1]
        BY <4>1, Zenon
      <4> HIDE DEF h
      <4> QED BY <3>2, <4>2, Zenon
    <3> QED BY <3>1, <3>2, Zenon
  <2> HIDE DEF h
  <2>6. Loops(h, m, a, g)
    BY <2>4, <2>5, Zenon DEF Loops
  <2> QED BY <2>3, <2>6
<1>3. n \in T
  <2> HIDE DEF T
  <2> QED BY <1>1, <1>2, Climb
<1> QED BY <1>3, Zenon DEF HasLoop

(***************************************************************************)
(* Sending one byte.                                                       *)
(***************************************************************************)
\* A packet has between one and eight bytes.
LEMMA PacketLengthIs == \A v : PacketLength(v) \in 1..8
BY DEF PacketLength

(***************************************************************************)
(* Sending a packet.                                                       *)
(***************************************************************************)
\* Whatever the queue is, send makes a queue of it.
LEMMA SendType ==
  ASSUME NEW q \in Seq(Byte), NEW b \in Byte
  PROVE  send(q, b) \in Seq(Byte)
<1> DEFINE f == Append(q, b)
           m == PacketLength(f[1].v) + 1
<1>1. f \in Seq(Byte)
  BY AppendProperties, Zenon
<1>2. m \in 1..9
  BY PacketLengthIs
<1>3. Len(f) \in Nat /\ f \in [1..Len(f) -> Byte]
  BY <1>1, LenProperties, Zenon
<1>4. send(q, b) = IF Len(f) = inbufferlen THEN SubSeq(f, m, Len(f)) ELSE f
  BY Zenon DEF send, DropPacket
<1> HIDE DEF f, m
<1>5. \A i \in m..Len(f) : f[i] \in Byte
  BY <1>2, <1>3
<1>6. SubSeq(f, m, Len(f)) \in Seq(Byte)
  <2>1. m \in Int /\ Len(f) \in Int
    BY <1>2, <1>3
  <2> QED BY <2>1, <1>5, SubSeqProperties, Zenon
<1> QED BY <1>1, <1>4, <1>6, Zenon

\* The loop of SendAll, whatever the bytes.
SendLoop(n, q, byte) ==
  CHOOSE f : f = [i \in 0..n |-> IF i = 0 THEN q ELSE send(f[i - 1], byte[i])]

\* SendAll's loop is defined: every turn has a queue to begin with.
LEMMA SendLoopIs ==
  ASSUME NEW n \in Nat, NEW S, NEW q \in S, NEW byte,
         \A i \in 1..n : \A s \in S : send(s, byte[i]) \in S
  PROVE  /\ SendLoop(n, q, byte)[0] = q
         /\ \A i \in 1..n : SendLoop(n, q, byte)[i] = send(SendLoop(n, q, byte)[i - 1], byte[i])
<1> DEFINE Runs(f) == f = [i \in 0..n |-> IF i = 0 THEN q ELSE send(f[i - 1], byte[i])]
           F == CHOOSE f : Runs(f)
           g == [x \in (1..n) \X S |-> send(x[2], byte[x[1]])]
<1>1. g \in [(1..n) \X S -> S]
  BY Zenon
<1>2. \A i \in 1..n : \A s \in S : g[<<i, s>>] = send(s, byte[i])
  BY Zenon
<1> HIDE DEF g
<1>3. HasLoop(n, S, q, g)
  BY <1>1, LoopDefined, Zenon
<1>4. PICK f \in [0..n -> S] : Loops(f, n, q, g)
  BY <1>3, Zenon DEF HasLoop
<1>5. \A i \in 0..n : i # 0 => i \in 1..n /\ i - 1 \in 0..n
  OBVIOUS
<1>6. \A i \in 0..n : f[i] = IF i = 0 THEN q ELSE send(f[i - 1], byte[i])
  BY <1>2, <1>4, <1>5, Zenon DEF Loops
<1>7. Runs(f)
  BY <1>6, Zenon
<1>8. Runs(F)
  <2> HIDE DEF Runs
  <2> QED BY <1>7, Zenon
<1>9. F = [i \in 0..n |-> IF i = 0 THEN q ELSE send(F[i - 1], byte[i])]
  BY <1>8, Zenon
<1>10. 0 \in 0..n /\ \A i \in 1..n : i \in 0..n /\ i # 0
  OBVIOUS
<1>11. F = SendLoop(n, q, byte)
  BY Zenon DEF SendLoop
<1> HIDE DEF F
<1> QED BY <1>9, <1>10, <1>11, Zenon

\* SendAll sends the bytes one after the other: what every byte hands on to the
\* next one holds at the end.
LEMMA SendAllRuns ==
  ASSUME NEW q \in Seq(Byte), NEW bytes, Len(bytes) \in Nat,
         \A i \in 1..Len(bytes) : Tagged(bytes)[i] \in Byte,
         NEW R, <<0, q>> \in R,
         \A i \in 1..Len(bytes) : \A s :
           <<i - 1, s>> \in R => <<i, send(s, Tagged(bytes)[i])>> \in R
  PROVE  <<Len(bytes), SendAll(q, bytes)>> \in R
<1>1. \A i \in 1..Len(bytes) : \A s \in Seq(Byte) : send(s, Tagged(bytes)[i]) \in Seq(Byte)
  BY SendType, Zenon
<1> DEFINE n == Len(bytes)
           F == SendLoop(n, q, Tagged(bytes))
<1>2. SendAll(q, bytes) = F[n]
  BY Zenon DEF SendAll, SendLoop
<1>3. F[0] = q /\ \A i \in 1..n : F[i] = send(F[i - 1], Tagged(bytes)[i])
  BY <1>1, SendLoopIs
<1> HIDE DEF F
<1> DEFINE T == {i \in 0..n : <<i, F[i]>> \in R}
<1>4. 0 \in T
  BY <1>3
<1>5. ASSUME NEW i \in 1..n, i - 1 \in T PROVE i \in T
  BY <1>3, <1>5
<1>6. \A i \in 0..n : i \in T
  <2> HIDE DEF T
  <2> QED BY <1>4, <1>5, Climb, Zenon
<1> QED BY <1>2, <1>6

\* A packet is at most eight bytes, and its first byte tells how many.
Packet(bytes) ==
  /\ bytes \in Seq(0..255)
  /\ Len(bytes) \in 1..8
  /\ PacketLength(bytes[1]) = Len(bytes)

\* The bytes of a packet and their places.
LEMMA TaggedIs ==
  \A bytes :
      Packet(bytes) =>
          /\ Len(bytes) \in 1..8
          /\ \A i \in 1..Len(bytes) :
               /\ Tagged(bytes)[i] \in Byte
               /\ Placed(Tagged(bytes)[i])
               /\ Tagged(bytes)[i].v = bytes[i]
               /\ Tagged(bytes)[i].head = bytes[1]
               /\ Tagged(bytes)[i].pos = i
               /\ Tagged(bytes)[i].len = Len(bytes)
          /\ \A i \in 1..(Len(bytes) - 1) : Next2(Tagged(bytes)[i], Tagged(bytes)[i + 1])
\* The fields of a byte.
<1>ByteIs.
    ASSUME NEW a, NEW h, NEW p, NEW n, NEW r, r = [v |-> a, head |-> h, pos |-> p, len |-> n]
    PROVE  /\ r.v = a /\ r.head = h /\ r.pos = p /\ r.len = n
           /\ a \in 0..255 /\ h \in 0..255 /\ p \in 1..8 /\ n \in 1..8 => r \in Byte
  <2> USE <1>ByteIs
  <2>1. r.v = a /\ r.head = h /\ r.pos = p /\ r.len = n
    BY Zenon
  <2>2. a \in 0..255 /\ h \in 0..255 /\ p \in 1..8 /\ n \in 1..8 => r \in Byte
    BY Zenon DEF Byte
  <2> QED BY <2>1, <2>2, Zenon
<1> SUFFICES ASSUME NEW bytes, Packet(bytes)
             PROVE  /\ Len(bytes) \in 1..8
                    /\ \A i \in 1..Len(bytes) :
                         /\ Tagged(bytes)[i] \in Byte
                         /\ Placed(Tagged(bytes)[i])
                         /\ Tagged(bytes)[i].v = bytes[i]
                         /\ Tagged(bytes)[i].head = bytes[1]
                         /\ Tagged(bytes)[i].pos = i
                         /\ Tagged(bytes)[i].len = Len(bytes)
                    /\ \A i \in 1..(Len(bytes) - 1) : Next2(Tagged(bytes)[i], Tagged(bytes)[i + 1])
  BY Zenon
<1>1. bytes \in [1..Len(bytes) -> 0..255] /\ DOMAIN bytes = 1..Len(bytes) /\ Len(bytes) \in 1..8
  BY LenProperties, ZenonT(30) DEF Packet
<1>2. ASSUME NEW i \in 1..Len(bytes)
      PROVE  Tagged(bytes)[i] = [v |-> bytes[i], head |-> bytes[1], pos |-> i, len |-> Len(bytes)]
  BY <1>1, Zenon DEF Tagged
<1>3. ASSUME NEW i \in 1..Len(bytes)
      PROVE  /\ Tagged(bytes)[i].v = bytes[i]
             /\ Tagged(bytes)[i].head = bytes[1]
             /\ Tagged(bytes)[i].pos = i
             /\ Tagged(bytes)[i].len = Len(bytes)
  <2> DEFINE r == Tagged(bytes)[i]
             l == Len(bytes)
             a == bytes[i]
             h == bytes[1]
  <2>1. r = [v |-> a, head |-> h, pos |-> i, len |-> l]
    BY <1>2, Zenon
  <2> HIDE DEF r, l, a, h
  <2>2. r.v = a /\ r.head = h /\ r.pos = i /\ r.len = l
    BY <2>1, <1>ByteIs, Zenon
  <2> QED BY <2>2, Zenon DEF r, l, a, h
<1>4. ASSUME NEW i \in 1..Len(bytes) PROVE Tagged(bytes)[i] \in Byte
  <2>1. 1 \in 1..Len(bytes) /\ i \in 1..8 /\ Len(bytes) \in 1..8
    BY <1>1
  <2>2. bytes[i] \in 0..255 /\ bytes[1] \in 0..255
    BY <1>1, <2>1, ZenonT(30)
  <2> DEFINE r == Tagged(bytes)[i]
             l == Len(bytes)
             a == bytes[i]
             h == bytes[1]
  <2>3. r = [v |-> a, head |-> h, pos |-> i, len |-> l]
    BY <1>2, Zenon
  <2>4. a \in 0..255 /\ h \in 0..255 /\ i \in 1..8 /\ l \in 1..8
    BY <2>1, <2>2, Zenon
  <2> HIDE DEF r, l, a, h
  <2>5. r \in Byte
    BY <2>3, <2>4, Zenon DEF Byte
  <2> QED BY <2>5, Zenon DEF r
<1>5. ASSUME NEW i \in 1..Len(bytes) PROVE Placed(Tagged(bytes)[i])
  BY <1>1, <1>3 DEF Placed, Packet
<1>6. ASSUME NEW i \in 1..(Len(bytes) - 1) PROVE Next2(Tagged(bytes)[i], Tagged(bytes)[i + 1])
  <2>1. i \in 1..Len(bytes) /\ i + 1 \in 1..Len(bytes) /\ i < Len(bytes)
    BY <1>1
  <2> QED BY <1>1, <1>3, <2>1 DEF Next2
<1> QED BY <1>1, <1>3, <1>4, <1>5, <1>6, Zenon

\* The queue s when i bytes of a packet are sent: as many of them as s holds are
\* at its end.
Sent(s, bytes, i, between) ==
  /\ s \in Seq(Byte) /\ Len(s) < inbufferlen
  /\ Chain(s) /\ Begins(s, between)
  /\ i = 0 => Ended(s)
  /\ i > 0 => /\ s # <<>>
              /\ \A k \in 0..(i - 1) : k < Len(s) => s[Len(s) - k] = Tagged(bytes)[i - k]

\* A whole packet is sent.
LEMMA SendAllIs ==
  \A bytes : \A between \in BOOLEAN, q \in Seq(Byte) :
      Packet(bytes) /\ Len(q) < inbufferlen /\ Chain(q) /\ Ended(q) /\ Begins(q, between) =>
          /\ Sent(SendAll(q, bytes), bytes, Len(bytes), between)
          /\ Ended(SendAll(q, bytes))
\* From the first byte of a packet that is not the last one in the queue the
\* chain leads, byte by byte, to the beginning of the next.
<1>PacketRun.
    ASSUME NEW q \in Seq(Byte), Chain(q), q # <<>>, q[1].pos = 1, q[1].len < Len(q)
    PROVE  q[q[1].len + 1].pos = 1
  <2> USE <1>PacketRun
  <2> DEFINE L == q[1].len
             T == {k \in 0..(L - 1) : q[k + 1].pos = k + 1 /\ q[k + 1].len = L}
  <2>1. Len(q) \in Nat /\ 1 \in 1..Len(q) /\ L \in 1..8 /\ L < Len(q)
    <3>1. Len(q) \in Nat \ {0} /\ q \in [1..Len(q) -> Byte]
      BY EmptySeq, LenProperties, Zenon
    <3>2. q[1] \in Byte
      BY <3>1
    <3> QED BY <3>1, <3>2 DEF Byte
  <2>2. 0 \in T
    BY <2>1
  <2>3. ASSUME NEW k \in 1..(L - 1), k - 1 \in T PROVE k \in T
    <3>1. q[k].pos = k /\ q[k].len = L
      BY <2>3
    <3>2. k \in 1..(Len(q) - 1) /\ k < L
      BY <2>1
    <3>3. Next2(q[k], q[k + 1])
      BY <3>2, Zenon DEF Chain
    <3> HIDE DEF L
    <3>4. q[k + 1].pos = k + 1 /\ q[k + 1].len = L
      BY <3>1, <3>2, <3>3, Zenon DEF Next2
    <3> QED BY <3>4
  <2>4. L - 1 \in T
    <3> HIDE DEF T, L
    <3> QED BY <2>1, <2>2, <2>3, Climb
  <2>5. q[L].pos = L /\ q[L].len = L
    <3> HIDE DEF L
    <3> QED BY <2>1, <2>4
  <2>6. Next2(q[L], q[L + 1])
    <3> HIDE DEF L
    <3> QED BY <2>1 DEF Chain
  <2> HIDE DEF L
  <2> QED BY <2>1, <2>5, <2>6 DEF Next2, L
\* A byte that fits the end of the queue is added to a chain.
<1>AppendIs.
    ASSUME NEW q \in Seq(Byte), Chain(q), NEW b \in Byte, Placed(b),
           q # <<>> => Next2(q[Len(q)], b)
    PROVE  /\ Append(q, b) \in Seq(Byte)
           /\ Len(Append(q, b)) = Len(q) + 1
           /\ Append(q, b)[Len(q) + 1] = b
           /\ \A i \in 1..Len(q) : Append(q, b)[i] = q[i]
           /\ Chain(Append(q, b))
  <2> USE <1>AppendIs
  <2> DEFINE f == Append(q, b)
  <2>1. f \in Seq(Byte) /\ Len(f) = Len(q) + 1 /\ f[Len(q) + 1] = b
    BY AppendProperties, ZenonT(30)
  <2>2. \A i \in 1..Len(q) : f[i] = q[i]
    BY AppendProperties
  <2>3. Len(q) \in Nat /\ (Len(q) # 0 => q # <<>>)
    BY EmptySeq
  <2> HIDE DEF f
  <2>4. ASSUME NEW i \in 1..Len(f) PROVE Placed(f[i])
    <3>1. CASE i \in 1..Len(q)
      BY <3>1, <2>2, Zenon DEF Chain
    <3>2. CASE i = Len(q) + 1
      BY <3>2, <2>1, Zenon
    <3> QED BY <3>1, <3>2, <2>1, <2>3
  <2>5. ASSUME NEW i \in 1..(Len(f) - 1) PROVE Next2(f[i], f[i + 1])
    <3>1. CASE i \in 1..(Len(q) - 1)
      <4>1. i \in 1..Len(q) /\ i + 1 \in 1..Len(q)
        BY <3>1, <2>3
      <4> QED BY <4>1, <3>1, <2>2, Zenon DEF Chain
    <3>2. CASE i = Len(q)
      <4>1. Len(q) # 0 /\ i \in 1..Len(q)
        BY <3>2, <2>3
      <4> QED BY <4>1, <3>2, <2>1, <2>2, <2>3, Zenon
    <3> QED BY <3>1, <3>2, <2>1, <2>3
  <2>6. Chain(f)
    BY <2>4, <2>5, Zenon DEF Chain
  <2> QED BY <2>1, <2>2, <2>6, Zenon DEF f
\* What is left of a chain when bytes at its head are gone.
<1>SuffixIs.
    ASSUME NEW q \in Seq(Byte), Chain(q), NEW d \in Nat, d < Len(q)
    PROVE  LET s == SubSeq(q, d + 1, Len(q))
           IN  /\ s \in Seq(Byte)
               /\ Len(s) = Len(q) - d
               /\ \A i \in 1..Len(s) : s[i] = q[i + d]
               /\ Chain(s)
  <2> USE <1>SuffixIs
  <2> DEFINE s == SubSeq(q, d + 1, Len(q))
  <2>1. Len(q) \in Nat /\ q \in [1..Len(q) -> Byte]
    BY LenProperties, Zenon
  <2>2. \A i \in (d + 1)..Len(q) : q[i] \in Byte
    BY <2>1
  <2>3. /\ s \in Seq(Byte)
        /\ Len(s) = IF d + 1 <= Len(q) THEN Len(q) - (d + 1) + 1 ELSE 0
        /\ \A i \in 1..(Len(q) - (d + 1) + 1) : s[i] = q[(d + 1) + i - 1]
    <3>1. d + 1 \in Int /\ Len(q) \in Int
      BY <2>1
    <3> QED BY <2>2, <3>1, SubSeqProperties
  <2> HIDE DEF s
  <2>4. s \in Seq(Byte) /\ Len(s) = Len(q) - d
    <3>1. s \in Seq(Byte) /\ Len(s) = IF d + 1 <= Len(q) THEN Len(q) - (d + 1) + 1 ELSE 0
      BY <2>3, Zenon
    <3>2. \A l \in Nat : d < l => d + 1 <= l /\ l - (d + 1) + 1 = l - d
      OBVIOUS
    <3>3. d + 1 <= Len(q) /\ Len(q) - (d + 1) + 1 = Len(q) - d
      BY <2>1, <3>2, Zenon
    <3> QED BY <3>1, <3>3, Zenon
  <2>5. ASSUME NEW i \in 1..Len(s) PROVE s[i] = q[i + d]
    <3>1. i \in 1..(Len(q) - (d + 1) + 1) /\ (d + 1) + i - 1 = i + d
      BY <2>1, <2>4
    <3> QED BY <2>3, <3>1, Zenon
  <2>6. ASSUME NEW i \in 1..Len(s) PROVE Placed(s[i])
    <3>1. i + d \in 1..Len(q)
      BY <2>1, <2>4
    <3> QED BY <2>5, <3>1, Zenon DEF Chain
  <2>7. ASSUME NEW i \in 1..(Len(s) - 1) PROVE Next2(s[i], s[i + 1])
    <3>1. /\ i + d \in 1..(Len(q) - 1) /\ (i + 1) + d = (i + d) + 1
          /\ i \in 1..Len(s) /\ i + 1 \in 1..Len(s)
      BY <2>1, <2>4
    <3>2. s[i] = q[i + d] /\ s[i + 1] = q[(i + d) + 1]
      BY <2>5, <3>1
    <3> QED BY <3>1, <3>2, Zenon DEF Chain
  <2>8. Chain(s)
    BY <2>6, <2>7, Zenon DEF Chain
  <2> QED BY <2>4, <2>5, <2>8, Zenon DEF s
\* send puts the byte at the end of the queue and leaves the chain; a full queue
\* loses from its head, and the packet there as a whole when it begins there.
<1>SendIs.
    ASSUME NEW q \in Seq(Byte), Len(q) < inbufferlen, Chain(q),
           NEW b \in Byte, Placed(b),
           q = <<>> => b.pos = 1,
           q # <<>> => Next2(q[Len(q)], b)
    PROVE  LET s == send(q, b)
           IN  /\ s \in Seq(Byte)
               /\ Len(s) \in 1..(Len(q) + 1)
               /\ Len(s) < inbufferlen
               /\ Chain(s)
               /\ s[Len(s)] = b
               /\ \A k \in 1..(Len(s) - 1) : s[Len(s) - k] = q[Len(q) + 1 - k]
               /\ q # <<>> /\ q[1].pos = 1 => s[1].pos = 1
               /\ q = <<>> => s[1].pos = 1
  <2> USE <1>SendIs
  <2> DEFINE f == Append(q, b)
             s == send(q, b)
  <2>1. /\ f \in Seq(Byte) /\ Len(f) = Len(q) + 1 /\ f[Len(q) + 1] = b
        /\ \A i \in 1..Len(q) : f[i] = q[i]
        /\ Chain(f)
    BY <1>AppendIs, Zenon
  <2>2. /\ inbufferlen \in Nat /\ inbufferlen > 8 /\ Len(q) \in Nat
        /\ (q = <<>> <=> Len(q) = 0)
    BY ConstantsAssumption, EmptySeq, LenProperties, Zenon
  <2>3. s = IF Len(f) = inbufferlen THEN SubSeq(f, PacketLength(f[1].v) + 1, Len(f)) ELSE f
    BY Zenon DEF send, DropPacket
  <2> HIDE DEF f, s
  <2>4. CASE Len(f) # inbufferlen
    <3>1. s = f
      BY <2>3, <2>4, Zenon
    <3>2. Len(s) \in 1..(Len(q) + 1) /\ Len(s) < inbufferlen /\ s[Len(s)] = b
      BY <2>1, <2>2, <2>4, <3>1
    <3>3. ASSUME NEW k \in 1..(Len(s) - 1) PROVE s[Len(s) - k] = q[Len(q) + 1 - k]
      <4>1. Len(q) + 1 - k \in 1..Len(q) /\ Len(s) - k = Len(q) + 1 - k
        BY <2>1, <2>2, <3>1
      <4> QED BY <2>1, <3>1, <4>1, Zenon
    <3>4. q # <<>> => s[1] = q[1]
      BY <2>1, <2>2, <3>1
    <3>5. q = <<>> => s[1] = b
      BY <2>1, <2>2, <3>1
    <3> QED BY <2>1, <3>1, <3>2, <3>3, <3>4, <3>5, Zenon DEF s
  <2>5. CASE Len(f) = inbufferlen
    <3> DEFINE d == PacketLength(f[1].v)
    <3>1. s = SubSeq(f, d + 1, Len(f))
      BY <2>3, <2>5, Zenon
    <3>2. d \in 1..8
      BY PacketLengthIs, Zenon
    <3>3. Len(q) >= 8 /\ q # <<>> /\ f[1] = q[1]
      BY <2>1, <2>2, <2>5
    <3>8. ASSUME q[1].pos = 1 PROVE d = f[1].len
      BY <3>8, <3>3, <2>1, <2>2 DEF Chain, Placed
    <3> HIDE DEF d
    <3>4. d \in Nat /\ d < Len(f)
      BY <2>1, <2>2, <3>2, <3>3
    <3>5. /\ s \in Seq(Byte) /\ Len(s) = Len(f) - d
          /\ \A i \in 1..Len(s) : s[i] = f[i + d]
          /\ Chain(s)
      BY <2>1, <3>1, <3>4, <1>SuffixIs, Zenon
    <3>6. /\ Len(s) \in 1..(Len(q) + 1) /\ Len(s) < inbufferlen
          /\ Len(s) + d = Len(q) + 1 /\ Len(s) \in 1..Len(s)
      BY <2>1, <2>2, <2>5, <3>2, <3>3, <3>5
    <3>7. s[Len(s)] = b
      BY <2>1, <3>5, <3>6, Zenon
    <3>9. ASSUME NEW k \in 1..(Len(s) - 1) PROVE s[Len(s) - k] = q[Len(q) + 1 - k]
      <4>1. /\ Len(q) + 1 - k \in 1..Len(q) /\ (Len(s) - k) + d = Len(q) + 1 - k
            /\ Len(s) - k \in 1..Len(s)
        BY <2>2, <3>2, <3>6
      <4>2. s[Len(s) - k] = f[Len(q) + 1 - k]
        BY <3>5, <4>1, Zenon
      <4> QED BY <2>1, <4>1, <4>2, Zenon
    <3>10. ASSUME q[1].pos = 1 PROVE s[1].pos = 1
      <4>1. f[1].pos = 1 /\ f[1].len < Len(f) /\ f # <<>>
        BY <3>3, <3>4, <3>8, <3>10, <2>1, <2>2, EmptySeq
      <4>2. f[f[1].len + 1].pos = 1
        BY <2>1, <4>1, <1>PacketRun, Zenon
      <4>3. s[1] = f[1 + d] /\ 1 + d = d + 1
        BY <3>2, <3>5, <3>6
      <4> QED BY <3>8, <3>10, <4>2, <4>3, Zenon
    <3> QED BY <3>3, <3>5, <3>6, <3>7, <3>9, <3>10, Zenon DEF s
  <2> QED BY <2>4, <2>5, Zenon
\* One more byte of a packet is sent.
<1>SendNext.
    ASSUME NEW bytes, Packet(bytes), NEW i \in 1..Len(bytes), NEW between \in BOOLEAN,
           NEW s, Sent(s, bytes, i - 1, between)
    PROVE  Sent(send(s, Tagged(bytes)[i]), bytes, i, between)
  <2> USE <1>SendNext
  <2> DEFINE b == Tagged(bytes)[i]
             t == send(s, b)
  <2>1. b \in Byte /\ Placed(b) /\ b.pos = i /\ Len(bytes) \in 1..8
    BY TaggedIs, Zenon
  <2>2. /\ s \in Seq(Byte) /\ Len(s) \in Nat /\ Len(s) < inbufferlen /\ Chain(s)
        /\ (s = <<>> <=> Len(s) = 0)
    BY EmptySeq, LenProperties, Zenon DEF Sent
  <2>3. s = <<>> => i = 1
    BY <2>1 DEF Sent
  <2>4. ASSUME s # <<>> PROVE Next2(s[Len(s)], b)
    <3>1. CASE i = 1
      <4>1. s[Len(s)].pos = s[Len(s)].len
        BY <3>1, <2>4 DEF Sent, Ended
      <4>2. s[Len(s)] \in Byte
        <5>1. s \in [1..Len(s) -> Byte] /\ Len(s) \in 1..Len(s)
          BY <2>2, <2>4, LenProperties, SMTT(30)
        <5> QED BY <5>1, Zenon
      <4>3. s[Len(s)].pos \in 1..8 /\ s[Len(s)].len \in 1..8
        BY <4>2, Zenon DEF Byte
      <4> QED BY <4>1, <4>3, <3>1, <2>1 DEF Next2
    <3>2. CASE i # 1
      <4>1. i - 1 > 0 /\ 0 \in 0..((i - 1) - 1) /\ 0 < Len(s) /\ i - 1 \in 1..(Len(bytes) - 1)
        BY <3>2, <2>1, <2>2, <2>4
      <4>2. s[Len(s) - 0] = Tagged(bytes)[(i - 1) - 0]
        BY <4>1, Zenon DEF Sent
      <4>3. Len(s) - 0 = Len(s) /\ (i - 1) - 0 = i - 1 /\ (i - 1) + 1 = i
        BY <2>1, <2>2
      <4>4. Next2(Tagged(bytes)[i - 1], Tagged(bytes)[(i - 1) + 1])
        BY <4>1, TaggedIs, Zenon
      <4> QED BY <4>2, <4>3, <4>4, Zenon
    <3> QED BY <3>1, <3>2, Zenon
  <2> HIDE DEF b
  <2>5. /\ t \in Seq(Byte) /\ Len(t) \in 1..(Len(s) + 1) /\ Len(t) < inbufferlen
        /\ Chain(t) /\ t[Len(t)] = b
        /\ \A k \in 1..(Len(t) - 1) : t[Len(t) - k] = s[Len(s) + 1 - k]
        /\ (s # <<>> /\ s[1].pos = 1 => t[1].pos = 1)
        /\ (s = <<>> => t[1].pos = 1)
    BY <2>1, <2>2, <2>3, <2>4, <1>SendIs, Zenon
  <2> HIDE DEF t
  <2>6. Begins(t, between)
    BY <2>5, Zenon DEF Begins, Sent
  <2>7. t # <<>>
    BY <2>2, <2>5, EmptySeq
  <2>8. ASSUME NEW k \in 0..(i - 1), k < Len(t) PROVE t[Len(t) - k] = Tagged(bytes)[i - k]
    <3>1. CASE k = 0
      <4>1. Len(t) - k = Len(t) /\ i - k = i
        BY <3>1, <2>2, <2>5
      <4> QED BY <4>1, <2>5, Zenon DEF b
    <3>2. CASE k # 0
      <4>1. /\ k \in 1..(Len(t) - 1) /\ k - 1 \in 0..((i - 1) - 1) /\ k - 1 < Len(s) /\ i - 1 > 0
            /\ Len(s) + 1 - k = Len(s) - (k - 1) /\ (i - 1) - (k - 1) = i - k
        BY <3>2, <2>1, <2>2, <2>5, <2>8, SMTT(30)
      <4>2. s[Len(s) - (k - 1)] = Tagged(bytes)[(i - 1) - (k - 1)]
        BY <4>1, Zenon DEF Sent
      <4> QED BY <4>1, <4>2, <2>5, Zenon
    <3> QED BY <3>1, <3>2, Zenon
  <2>9. Sent(t, bytes, i, between)
    BY <2>5, <2>6, <2>7, <2>8 DEF Sent
  <2> QED BY <2>9, Zenon DEF t, b
<1> SUFFICES ASSUME NEW bytes, Packet(bytes), NEW between \in BOOLEAN,
                    NEW q \in Seq(Byte), Len(q) < inbufferlen, Chain(q), Ended(q), Begins(q, between)
             PROVE  /\ Sent(SendAll(q, bytes), bytes, Len(bytes), between)
                    /\ Ended(SendAll(q, bytes))
  BY Zenon
<1> DEFINE n == Len(bytes)
           R == {x \in (0..n) \X Seq(Byte) : Sent(x[2], bytes, x[1], between)}
<1>1. n \in 1..8 /\ \A i \in 1..n : Tagged(bytes)[i] \in Byte
  BY TaggedIs, Zenon
<1>2. <<0, q>> \in R
  <2>1. Sent(q, bytes, 0, between)
    BY DEF Sent
  <2> HIDE DEF n
  <2> QED BY <2>1, <1>1
<1>3. ASSUME NEW i \in 1..n, NEW s, <<i - 1, s>> \in R
      PROVE  <<i, send(s, Tagged(bytes)[i])>> \in R
  <2>1. Sent(s, bytes, i - 1, between)
    BY <1>3, Zenon
  <2>2. Sent(send(s, Tagged(bytes)[i]), bytes, i, between)
    BY <2>1, <1>SendNext, Zenon
  <2>3. send(s, Tagged(bytes)[i]) \in Seq(Byte) /\ i \in 0..n
    BY <2>2, <1>1 DEF Sent
  <2> QED BY <2>2, <2>3, Zenon
<1>4. <<n, SendAll(q, bytes)>> \in R
  <2> HIDE DEF R
  <2> QED BY <1>1, <1>2, <1>3, SendAllRuns
<1>5. Sent(SendAll(q, bytes), bytes, n, between)
  BY <1>4, Zenon
<1>6. Ended(SendAll(q, bytes))
  <2> DEFINE s == SendAll(q, bytes)
  <2> HIDE DEF s
  <2>1. s \in Seq(Byte) /\ s # <<>> /\ Len(s) \in Nat /\ Len(s) > 0
    <3>1. n > 0
      <4> HIDE DEF n
      <4> QED BY <1>1
    <3>2. s \in Seq(Byte) /\ s # <<>>
      BY <1>5, <3>1, Zenon DEF Sent, s
    <3>3. Len(s) \in Nat \ {0}
      BY <3>2, EmptySeq, Zenon
    <3> QED BY <3>2, <3>3
  <2>2. s[Len(s) - 0] = Tagged(bytes)[n - 0]
    <3>1. n > 0 /\ 0 \in 0..(n - 1) /\ 0 < Len(s)
      <4> HIDE DEF n
      <4> QED BY <1>1, <2>1
    <3> QED BY <3>1, <1>5, Zenon DEF Sent, s
  <2>3. Len(s) - 0 = Len(s) /\ n - 0 = n
    BY <1>1, <2>1
  <2>4. Tagged(bytes)[n].pos = n /\ Tagged(bytes)[n].len = n
    <3>1. n \in 1..n
      <4> HIDE DEF n
      <4> QED BY <1>1
    <3> QED BY <3>1, TaggedIs, Zenon
  <2>5. s[Len(s)].pos = s[Len(s)].len
    BY <2>2, <2>3, <2>4, Zenon
  <2> QED BY <2>5, Zenon DEF Ended, s
<1> QED BY <1>5, <1>6, Zenon

(***************************************************************************)
(* The packets of the code.                                                *)
(***************************************************************************)
\* A sequence of bytes that is written down is a packet when its first byte says so.
LEMMA PacketsOfOne ==
  ASSUME NEW a \in 0..255, PacketLength(a) = 1
  PROVE  Packet(<<a>>)
BY DEF Packet

\* Packets of two bytes.
LEMMA PacketsOfTwo ==
  ASSUME NEW a \in 0..255, NEW b \in 0..255, PacketLength(a) = 2
  PROVE  Packet(<<a, b>>)
BY DEF Packet

\* Packets of three bytes.
LEMMA PacketsOfThree ==
  ASSUME NEW a \in 0..255, NEW b \in 0..255, NEW c \in 0..255, PacketLength(a) = 3
  PROVE  Packet(<<a, b, c>>)
BY DEF Packet

\* The byte of a joystick's report.
LEMMA JoyByteIs ==
  ASSUME NEW state PROVE JoyByte(state) \in 0..255
<1> DEFINE bit(sw) == IF sw \in state THEN Bit[sw] ELSE 0
<1>1. /\ bit("up") \in 0..1 /\ bit("down") \in 0..2 /\ bit("left") \in 0..4
      /\ bit("right") \in 0..8 /\ bit("fire") \in 0..128
  BY DEF Bit
<1>2. JoyByte(state) = bit("up") + bit("down") + bit("left") + bit("right") + bit("fire")
  BY Zenon DEF JoyByte
<1> HIDE DEF bit
<1> QED BY <1>1, <1>2

\* Keys, the wheel, the joysticks, the answers.
LEMMA PacketsAre ==
  /\ \A code \in Scancode : Packet(<<code>>)
  /\ Packet(<<241>>)
  /\ Packet(<<246, 5, 0, 0, 0, 0, 0, 89>>)
  /\ \A n \in 0..1 : \A state : Packet(JoyPacket(n, state))
  /\ Packet(ClockReply)
<1>1. ASSUME NEW code \in Scancode PROVE Packet(<<code>>)
  <2>1. code \in 0..245
    BY ConstantsAssumption
  <2>2. code \in 0..255 /\ PacketLength(code) = 1
    BY <2>1 DEF PacketLength
  <2> QED BY <2>2, PacketsOfOne, Zenon
<1>2. Packet(<<241>>)
  <2>1. 241 \in 0..255 /\ PacketLength(241) = 1
    BY DEF PacketLength
  <2> QED BY <2>1, PacketsOfOne, ZenonT(30)
<1>3. Packet(<<246, 5, 0, 0, 0, 0, 0, 89>>)
  BY DEF Packet, PacketLength
<1>4. ASSUME NEW n \in 0..1, NEW state PROVE Packet(JoyPacket(n, state))
  <2>1. 254 + n \in 0..255 /\ PacketLength(254 + n) = 2
    BY DEF PacketLength
  <2> QED BY <2>1, JoyByteIs, PacketsOfTwo, ZenonT(30) DEF JoyPacket
<1>5. Packet(ClockReply)
  BY DEF Packet, PacketLength, ClockReply
<1> QED BY <1>1, <1>2, <1>3, <1>4, <1>5, Zenon

(***************************************************************************)
(* The mouse.                                                              *)
(***************************************************************************)
\* The state of SendMouseMotion's loop between two turns.
Turn(between) ==
  {s \in [q : Seq(Byte), type : Types, lost : BOOLEAN] :
     Len(s.q) < inbufferlen /\ Whole(s.q, s.type, between)}

\* What a turn of the loop works with: whether MergeMousePacket merges, the queue
\* it leaves and the packet that is sent then.
PartMerges(s, x, y, b, slow) == ~slow /\ Merges(s.q, s.type, x, y, b)

PartQueue(s, x, y, b, slow) == IF PartMerges(s, x, y, b, slow) THEN WithoutLast(s.q) ELSE s.q

PartMove(s, x, y, b, slow, move, k) ==
  IF PartMerges(s, x, y, b, slow) THEN Merged(move, s.q[Len(s.q) - 2 + k]) ELSE move

PartBytes(s, x, y, b, slow) ==
  LET movey == PartMove(s, x, y, b, slow, y, 2)
  IN  <<248 + b, PartMove(s, x, y, b, slow, x, 1) % 256,
        (IF yaxis_reversed THEN -movey ELSE movey) % 256>>

\* A merge takes a mouse packet off the queue.
LEMMA MergeTakes ==
  \A between \in BOOLEAN : \A s \in Turn(between), x \in Int, y \in Int, b \in 0..3 : \A slow :
      PartMerges(s, x, y, b, slow) =>
          /\ Len(s.q) > 3
          /\ s.q[Len(s.q) - 2].pos = 1
          /\ \A k \in 1..3 : /\ s.q[Len(s.q) - 3 + k] \in Byte
                            /\ s.q[Len(s.q) - 3 + k].pos = k
                            /\ s.q[Len(s.q) - 3 + k].len = 3
\* The packet that MergeMousePacket replaces has three bytes, a mouse packet's.
<1>LastIsMouse.
    ASSUME NEW q \in Seq(Byte), Chain(q), Len(q) > 3,
           q[Len(q) - 2].v \in 248..251, q[Len(q) - 2].pos = 1
    PROVE  \A k \in 1..3 : q[Len(q) - 3 + k].pos = k /\ q[Len(q) - 3 + k].len = 3
  <2> USE <1>LastIsMouse
  <2> DEFINE w == Len(q) - 2
  <2>1. Len(q) \in Nat /\ w \in 1..Len(q) /\ w \in 1..(Len(q) - 1) /\ w + 1 \in 1..(Len(q) - 1)
    BY LenProperties
  <2>2. Placed(q[w]) /\ Next2(q[w], q[w + 1]) /\ Next2(q[w + 1], q[(w + 1) + 1])
    BY <2>1, Zenon DEF Chain
  <2>3. q[w].v \in 248..251 /\ q[w].pos = 1
    BY Zenon
  <2>4. Len(q) - 3 + 1 = w /\ Len(q) - 3 + 2 = w + 1 /\ Len(q) - 3 + 3 = (w + 1) + 1
    BY <2>1
  <2> HIDE DEF w
  <2>5. q[w].pos = 1 /\ q[w].len = 3
    <3>1. q[w].len = PacketLength(q[w].v)
      BY <2>2, <2>3, Zenon DEF Placed
    <3> QED BY <2>3, <3>1 DEF PacketLength
  <2>6. q[w + 1].pos = 2 /\ q[w + 1].len = 3
    BY <2>2, <2>5 DEF Next2
  <2>7. q[(w + 1) + 1].pos = 3 /\ q[(w + 1) + 1].len = 3
    BY <2>2, <2>6, SMTT(30) DEF Next2
  <2> QED BY <2>4, <2>5, <2>6, <2>7
<1> SUFFICES ASSUME NEW between \in BOOLEAN, NEW s \in Turn(between),
                    NEW x \in Int, NEW y \in Int, NEW b \in 0..3, NEW slow, PartMerges(s, x, y, b, slow)
             PROVE  /\ Len(s.q) > 3
                    /\ s.q[Len(s.q) - 2].pos = 1
                    /\ \A k \in 1..3 : /\ s.q[Len(s.q) - 3 + k] \in Byte
                                      /\ s.q[Len(s.q) - 3 + k].pos = k
                                      /\ s.q[Len(s.q) - 3 + k].len = 3
  BY Zenon
<1> DEFINE w == Len(s.q) - 2
<1>1. /\ s.q \in Seq(Byte) /\ Chain(s.q) /\ MouseLast(s.q, s.type) /\ Len(s.q) \in Nat
  BY LenProperties, Zenon DEF Turn, Whole
<1>2. s.type = "mouse" /\ Len(s.q) > 3 /\ s.q[w].v = 248 + b
  BY Zenon DEF PartMerges, Merges, NotBeingRead, SameButtons
<1>3. s.q[w].v \in 248..251 /\ Len(s.q) >= 3
  BY <1>1, <1>2
<1>4. s.q[w].pos = 1
  BY <1>1, <1>2, <1>3, Zenon DEF MouseLast
<1>5. \A k \in 1..3 : s.q[Len(s.q) - 3 + k].pos = k /\ s.q[Len(s.q) - 3 + k].len = 3
  BY <1>1, <1>2, <1>3, <1>4, <1>LastIsMouse, ZenonT(30)
<1>6. ASSUME NEW k \in 1..3 PROVE s.q[Len(s.q) - 3 + k] \in Byte
  <2>1. s.q \in [1..Len(s.q) -> Byte] /\ Len(s.q) - 3 + k \in 1..Len(s.q)
    BY <1>1, <1>2, LenProperties, SMTT(30)
  <2> QED BY <2>1, Zenon
<1> QED BY <1>2, <1>4, <1>5, <1>6, Zenon

\* A turn with the queue q that MergeMousePacket leaves and the packet bytes.
PartSends(s, between, r, merge, q, bytes, b) ==
  /\ r = [q |-> SendAll(q, bytes), type |-> "mouse",
          lost |-> s.lost \/ Len(q) + 3 >= inbufferlen]
  /\ Packet(bytes) /\ Len(bytes) = 3 /\ bytes[1] = 248 + b
  /\ q \in Seq(Byte) /\ Len(q) < inbufferlen
  /\ Chain(q) /\ Ended(q) /\ Begins(q, between)
  /\ merge => Len(q) = Len(s.q) - 3 /\ \A i \in 1..Len(q) : q[i] = s.q[i]
  /\ ~merge => q = s.q

\* A turn of the loop sends one mouse packet.
LEMMA SendPartSends ==
  \A between \in BOOLEAN : \A s \in Turn(between), x \in Int, y \in Int, b \in 0..3 : \A slow :
          /\ PartMove(s, x, y, b, slow, x, 1) \in Int /\ PartMove(s, x, y, b, slow, y, 2) \in Int
          /\ PartSends(s, between, SendPart(s, x, y, b, slow), PartMerges(s, x, y, b, slow),
                       PartQueue(s, x, y, b, slow), PartBytes(s, x, y, b, slow), b)
\* MergeMousePacket takes one whole packet off the end of the queue.
<1>WithoutLastIs.
    ASSUME NEW q \in Seq(Byte), Chain(q), NEW between, Begins(q, between),
           Len(q) > 3, q[Len(q) - 2].pos = 1
    PROVE  LET p == WithoutLast(q)
           IN  /\ p \in Seq(Byte) /\ Len(p) < Len(q) /\ Chain(p) /\ Ended(p) /\ Begins(p, between)
               /\ Len(p) = Len(q) - 3 /\ \A i \in 1..Len(p) : p[i] = q[i]
  <2> USE <1>WithoutLastIs
  <2> DEFINE p == WithoutLast(q)
             m == Len(q) - 3
  <2>1. Len(q) \in Nat /\ q \in [1..Len(q) -> Byte]
    BY LenProperties, Zenon
  <2>2. m \in Nat /\ m > 0 /\ m < Len(q) /\ m + 1 = Len(q) - 2 /\ m \in 1..(Len(q) - 1)
    BY <2>1
  <2>3. p = SubSeq(q, 1, m)
    BY Zenon DEF WithoutLast
  <2> HIDE DEF m, p
  <2>4. \A i \in 1..m : q[i] \in Byte
    BY <2>1, <2>2
  <2>5. /\ p \in Seq(Byte) /\ Len(p) = IF 1 <= m THEN m - 1 + 1 ELSE 0
        /\ \A i \in 1..(m - 1 + 1) : p[i] = q[1 + i - 1]
    <3>1. 1 \in Int /\ m \in Int
      BY <2>2
    <3> QED BY <2>3, <2>4, <3>1, SubSeqProperties
  <2>6. p \in Seq(Byte) /\ Len(p) = m
    BY <2>2, <2>5
  <2>7. ASSUME NEW i \in 1..m PROVE p[i] = q[i]
    <3>1. i \in 1..(m - 1 + 1) /\ 1 + i - 1 = i
      BY <2>2
    <3> QED BY <2>5, <3>1, Zenon
  <2>8. Chain(p)
    <3>1. ASSUME NEW i \in 1..Len(p) PROVE Placed(p[i])
      <4>1. i \in 1..m /\ i \in 1..Len(q)
        BY <2>1, <2>2, <2>6
      <4> QED BY <2>7, <4>1, Zenon DEF Chain
    <3>2. ASSUME NEW i \in 1..(Len(p) - 1) PROVE Next2(p[i], p[i + 1])
      <4>1. i \in 1..m /\ i + 1 \in 1..m /\ i \in 1..(Len(q) - 1)
        BY <2>1, <2>2, <2>6
      <4> QED BY <2>7, <4>1, Zenon DEF Chain
    <3> QED BY <3>1, <3>2, Zenon DEF Chain
  <2>9. Ended(p)
    <3>1. q[m] \in Byte /\ Placed(q[m]) /\ Next2(q[m], q[m + 1]) /\ q[m + 1].pos = 1 /\ p[m] = q[m]
      BY <2>1, <2>2, <2>4, <2>7, SMTT(30) DEF Chain
    <3>2. q[m].pos \in 1..8 /\ q[m].len \in 1..8
      BY <3>1, Zenon DEF Byte
    <3>3. q[m].pos = q[m].len
      <4>1. q[m].pos <= q[m].len
        BY <3>1, Zenon DEF Placed
      <4>2. q[m].pos < q[m].len => q[m + 1].pos = q[m].pos + 1
        BY <3>1, Zenon DEF Next2
      <4> DEFINE u == q[m].pos
                 v == q[m].len
      <4>3. u \in 1..8 /\ v \in 1..8 /\ u <= v /\ (u < v => 1 = u + 1)
        BY <3>1, <3>2, <4>1, <4>2, Zenon
      <4> HIDE DEF u, v
      <4>4. u = v
        BY <4>3
      <4> QED BY <4>4, Zenon DEF u, v
    <3> QED BY <2>6, <3>1, <3>3, Zenon DEF Ended
  <2>10. Begins(p, between)
    <3>1. p[1] = q[1] /\ q # <<>>
      BY <2>1, <2>2, <2>7, EmptySeq
    <3> QED BY <3>1, Zenon DEF Begins
  <2> QED BY <2>2, <2>6, <2>7, <2>8, <2>9, <2>10, Zenon DEF p, m
<1> SUFFICES ASSUME NEW between \in BOOLEAN, NEW s \in Turn(between),
                    NEW x \in Int, NEW y \in Int, NEW b \in 0..3, NEW slow
             PROVE  /\ PartMove(s, x, y, b, slow, x, 1) \in Int /\ PartMove(s, x, y, b, slow, y, 2) \in Int
                    /\ PartSends(s, between, SendPart(s, x, y, b, slow), PartMerges(s, x, y, b, slow),
                                 PartQueue(s, x, y, b, slow), PartBytes(s, x, y, b, slow), b)
  BY Zenon
<1> DEFINE merge == PartMerges(s, x, y, b, slow)
           w == Len(s.q) - 2
           q == PartQueue(s, x, y, b, slow)
           movex == PartMove(s, x, y, b, slow, x, 1)
           movey == PartMove(s, x, y, b, slow, y, 2)
           y1 == (IF yaxis_reversed THEN -movey ELSE movey) % 256
           bytes == PartBytes(s, x, y, b, slow)
<1>1. SendPart(s, x, y, b, slow)
        = [q |-> SendAll(q, bytes), type |-> "mouse",
           lost |-> s.lost \/ Len(q) + 3 >= inbufferlen]
  BY Zenon DEF SendPart, PartMerges, PartQueue, PartMove, PartBytes
<1>2. /\ s.q \in Seq(Byte) /\ Len(s.q) < inbufferlen
      /\ Chain(s.q) /\ Ended(s.q) /\ Begins(s.q, between)
      /\ Len(s.q) \in Nat
  BY LenProperties, Zenon DEF Turn, Whole
<1>3. ASSUME merge
      PROVE  /\ Len(s.q) > 3 /\ s.q[w].pos = 1
             /\ s.q[w + 1] \in Byte /\ s.q[w + 2] \in Byte
  <2>1. /\ Len(s.q) > 3 /\ s.q[w].pos = 1
        /\ \A k \in 1..3 : s.q[Len(s.q) - 3 + k] \in Byte
    BY <1>3, MergeTakes, Zenon
  <2>2. w + 1 = Len(s.q) - 3 + 2 /\ w + 2 = Len(s.q) - 3 + 3
    BY <1>2
  <2>3. 2 \in 1..3 /\ 3 \in 1..3
    OBVIOUS
  <2> QED BY <2>1, <2>2, <2>3, Zenon
<1>4. movex \in Int /\ movey \in Int
  <2>1. CASE merge
    <3>1. s.q[w + 1].v \in Int /\ s.q[w + 2].v \in Int
      <4>1. \A r \in Byte : r.v \in Int
        BY DEF Byte
      <4>2. s.q[w + 1] \in Byte /\ s.q[w + 2] \in Byte
        BY <2>1, <1>3, Zenon
      <4> QED BY <4>1, <4>2, Zenon
    <3>2. Merged(x, s.q[w + 1]) \in Int /\ Merged(y, s.q[w + 2]) \in Int
      BY <3>1, SMTT(30) DEF Merged
    <3>3. movex = Merged(x, s.q[w + 1]) /\ movey = Merged(y, s.q[w + 2])
      BY <2>1, Zenon DEF PartMove
    <3> QED BY <3>2, <3>3, Zenon
  <2>2. CASE ~merge
    BY <2>2, Zenon DEF PartMove
  <2> QED BY <2>1, <2>2, Zenon
<1>5. /\ q \in Seq(Byte) /\ Len(q) < inbufferlen /\ Chain(q) /\ Ended(q) /\ Begins(q, between)
      /\ merge => Len(q) = Len(s.q) - 3 /\ \A i \in 1..Len(q) : q[i] = s.q[i]
      /\ ~merge => q = s.q
  <2>1. CASE merge
    <3> DEFINE p == WithoutLast(s.q)
    <3>1. /\ p \in Seq(Byte) /\ Len(p) < Len(s.q) /\ Chain(p) /\ Ended(p) /\ Begins(p, between)
          /\ Len(p) = Len(s.q) - 3 /\ \A i \in 1..Len(p) : p[i] = s.q[i]
      BY <1>2, <1>3, <2>1, <1>WithoutLastIs, Zenon
    <3>2. Len(p) \in Nat /\ inbufferlen \in Nat
      BY <3>1, LenProperties, ConstantsAssumption, Zenon
    <3>3. q = p
      BY <2>1, Zenon DEF PartQueue
    <3> HIDE DEF p, q, merge
    <3>4. Len(p) < inbufferlen
      BY <1>2, <3>1, <3>2
    <3> QED BY <2>1, <3>1, <3>3, <3>4, Zenon
  <2>2. CASE ~merge
    <3>1. q = s.q
      BY <2>2, Zenon DEF PartQueue
    <3> HIDE DEF q, merge
    <3> QED BY <2>2, <3>1, <1>2, Zenon
  <2> QED BY <2>1, <2>2, Zenon
<1>6. bytes = <<248 + b, movex % 256, y1>>
  BY Zenon DEF PartBytes
<1> HIDE DEF merge, w, movex, movey, q, bytes
<1>7. Packet(bytes) /\ Len(bytes) = 3 /\ bytes[1] = 248 + b
  <2>1. 248 + b \in 0..255 /\ PacketLength(248 + b) = 3
    BY DEF PacketLength
  <2>2. movex % 256 \in 0..255 /\ y1 \in 0..255
    BY <1>4
  <2> HIDE DEF y1
  <2>3. Packet(bytes)
    BY <1>6, <2>1, <2>2, PacketsOfThree, ZenonT(30)
  <2> QED BY <1>6, <2>3, Zenon
<1>8. PartSends(s, between, SendPart(s, x, y, b, slow), merge, q, bytes, b)
  BY <1>1, <1>5, <1>7, Zenon DEF PartSends
<1> QED BY <1>4, <1>8, Zenon DEF merge, movex, movey, q, bytes

\* A turn of the loop: the last packet is replaced or one is added, and the
\* packets stay whole.
LEMMA SendPartIs ==
  ASSUME NEW between \in BOOLEAN, NEW s \in Turn(between),
         NEW x \in Int, NEW y \in Int, NEW b \in 0..3, NEW slow
  PROVE  /\ SendPart(s, x, y, b, slow) \in Turn(between)
         /\ SendPart(s, x, y, b, slow).q # <<>>
<1> DEFINE q == PartQueue(s, x, y, b, slow)
           bytes == PartBytes(s, x, y, b, slow)
           merge == PartMerges(s, x, y, b, slow)
           r == SendPart(s, x, y, b, slow)
           lost == (s.lost \/ Len(q) + 3 >= inbufferlen)
           sent == SendAll(q, bytes)
<1>0. PartSends(s, between, r, merge, q, bytes, b)
  BY SendPartSends, Zenon
<1> HIDE DEF q, bytes, merge, r
<1>1. /\ SendPart(s, x, y, b, slow) = [q |-> sent, type |-> "mouse", lost |-> lost]
      /\ Packet(bytes) /\ Len(bytes) = 3
      /\ q \in Seq(Byte) /\ Len(q) < inbufferlen /\ Chain(q) /\ Ended(q) /\ Begins(q, between)
  BY <1>0, Zenon DEF PartSends, r
<1>2. s.lost \in BOOLEAN
  BY Zenon DEF Turn
<1>3. Sent(sent, bytes, 3, between) /\ Ended(sent)
  BY <1>1, SendAllIs, Zenon
<1> HIDE DEF sent
<1>4. sent \in Seq(Byte) /\ Len(sent) < inbufferlen /\ sent # <<>> /\ Chain(sent) /\ Begins(sent, between)
  BY <1>3 DEF Sent
<1>5. MouseLast(sent, "mouse")
  <2>1. SUFFICES ASSUME Len(sent) >= 3 PROVE sent[Len(sent) - 2].pos = 1
    BY Zenon DEF MouseLast
  <2>2. Len(sent) \in Nat /\ 2 \in 0..(3 - 1) /\ 2 < Len(sent) /\ 3 > 0 /\ 3 - 2 = 1
    BY <2>1, <1>4, LenProperties
  <2>3. sent[Len(sent) - 2] = Tagged(bytes)[3 - 2]
    BY <1>3, <2>2, Zenon DEF Sent
  <2>4. 1 \in 1..Len(bytes)
    BY <1>1
  <2>5. Tagged(bytes)[1].pos = 1
    BY <1>1, <2>4, TaggedIs, Zenon
  <2> QED BY <2>2, <2>3, <2>5, Zenon
<1>6. Whole(sent, "mouse", between)
  BY <1>3, <1>4, <1>5, Zenon DEF Whole
<1>7. lost \in BOOLEAN
  BY <1>2, Zenon
<1> HIDE DEF lost
<1> QED BY <1>1, <1>4, <1>6, <1>7 DEF Turn, Types

\* The loop of SendMouseMotion.
MotionLoop(n, a, e, step) ==
  CHOOSE f : f = [i \in 0..n |->
    IF i = 0 THEN a ELSE SendPart(f[i - 1], Part(e.x, step, i), Part(e.y, step, i), e.b, e.slow)]

\* SendMouseMotion's loop is defined and stays where every turn stays.
LEMMA MotionLoopIs ==
  ASSUME NEW n \in Nat, NEW S, NEW a \in S, NEW e, NEW step,
         \A i \in 1..n : \A s \in S :
           SendPart(s, Part(e.x, step, i), Part(e.y, step, i), e.b, e.slow) \in S
  PROVE  /\ MotionLoop(n, a, e, step)[0] = a
         /\ \A i \in 0..n : MotionLoop(n, a, e, step)[i] \in S
         /\ \A i \in 1..n : MotionLoop(n, a, e, step)[i]
              = SendPart(MotionLoop(n, a, e, step)[i - 1],
                         Part(e.x, step, i), Part(e.y, step, i), e.b, e.slow)
<1> DEFINE turn(s, i) == SendPart(s, Part(e.x, step, i), Part(e.y, step, i), e.b, e.slow)
<1>1. \A i \in 1..n : \A s \in S : turn(s, i) \in S
  BY Zenon
<1> DEFINE F == MotionLoop(n, a, e, step)
           Runs(f) == f = [i \in 0..n |-> IF i = 0 THEN a ELSE turn(f[i - 1], i)]
<1>2. F = CHOOSE f : Runs(f)
  BY Zenon DEF MotionLoop
<1> HIDE DEF turn, F
<1> DEFINE g == [x \in (1..n) \X S |-> turn(x[2], x[1])]
<1>3. g \in [(1..n) \X S -> S]
  BY <1>1, Zenon
<1>4. \A i \in 1..n : \A s \in S : g[<<i, s>>] = turn(s, i)
  BY Zenon
<1> HIDE DEF g
<1>5. HasLoop(n, S, a, g)
  BY <1>3, LoopDefined, Zenon
<1>6. PICK f \in [0..n -> S] : Loops(f, n, a, g)
  BY <1>5, Zenon DEF HasLoop
<1>7. \A i \in 0..n : i # 0 => i \in 1..n /\ i - 1 \in 0..n
  OBVIOUS
<1>8. \A i \in 0..n : f[i] = IF i = 0 THEN a ELSE turn(f[i - 1], i)
  BY <1>4, <1>6, <1>7, Zenon DEF Loops
<1>9. Runs(f)
  BY <1>8, Zenon
<1>10. Runs(F)
  <2> HIDE DEF Runs
  <2> QED BY <1>2, <1>9, Zenon
<1>11. F[0] = a /\ \A i \in 1..n : F[i] = turn(F[i - 1], i)
  <2>1. 0 \in 0..n /\ \A i \in 1..n : i \in 0..n /\ i # 0
    OBVIOUS
  <2>2. F = [i \in 0..n |-> IF i = 0 THEN a ELSE turn(F[i - 1], i)]
    BY <1>10, Zenon
  <2> QED BY <2>1, <2>2, Zenon
<1> HIDE DEF Runs
<1> DEFINE T == {i \in 0..n : F[i] \in S}
<1>12. 0 \in T
  BY <1>11
<1>13. ASSUME NEW i \in 1..n, i - 1 \in T PROVE i \in T
  <2>1. F[i - 1] \in S /\ F[i] = turn(F[i - 1], i)
    BY <1>11, <1>13, Zenon
  <2>2. F[i] \in S
    BY <1>1, <2>1, Zenon
  <2> QED BY <2>2
<1>14. \A i \in 0..n : i \in T
  <2> HIDE DEF T
  <2> QED BY <1>12, <1>13, Climb, Zenon
<1>15. \A i \in 0..n : F[i] \in S
  BY <1>14, Zenon
<1> QED BY <1>11, <1>15, Zenon DEF F, turn

\* The parts of a motion.
LEMMA PartsAre ==
  ASSUME NEW e \in Motion, NEW step \in {1, 63}
  PROVE  /\ Parts(e, step) \in Nat /\ Parts(e, step) > 0
         /\ \A i \in Nat : Part(e.x, step, i) \in Int /\ Part(e.y, step, i) \in Int
<1>1. e.x \in Int /\ e.y \in Int
  BY ConstantsAssumption, Zenon
<1>2. ASSUME NEW rel \in Int, NEW i \in Nat PROVE Part(rel, step, i) \in Int
  <2>1. (i - 1) * step \in Int
    BY SMT
  <2> DEFINE d == (i - 1) * step
             rest == Larger(0, Abs(rel) - d)
  <2> HIDE DEF d
  <2>2. d \in Int
    BY <2>1, Zenon DEF d
  <2>3. rest \in Int
    BY <2>2 DEF Larger, Abs
  <2>4. Part(rel, step, i) = (IF rel < 0 THEN -1 ELSE 1) * Smaller(step, rest)
    BY Zenon DEF Part, d
  <2> HIDE DEF rest
  <2>5. Smaller(step, rest) \in Int
    BY <2>3 DEF Smaller
  <2>6. CASE rel < 0
    BY <2>4, <2>5, <2>6
  <2>7. CASE ~(rel < 0)
    BY <2>4, <2>5, <2>7
  <2> QED BY <2>6, <2>7, Zenon
<1>3. Parts(e, step) \in Nat /\ Parts(e, step) > 0
  <2> DEFINE m == Larger(Abs(e.x), Abs(e.y)) + step - 1
  <2>1. m \in Nat
    BY <1>1 DEF Larger, Abs
  <2>2. Parts(e, step) = Larger(1, m \div step)
    BY Zenon DEF Parts
  <2> HIDE DEF m
  <2>3. m \div step \in Int
    BY <2>1
  <2> QED BY <2>2, <2>3 DEF Larger
<1> QED BY <1>1, <1>2, <1>3, ZenonT(30)

(***************************************************************************)
(* The invariant, action by action.                                        *)
(***************************************************************************)
(***************************************************************************)
(* The theorems.                                                           *)
(***************************************************************************)
\* The queue of ikbd.cpp holds whole packets and every byte in it is announced,
\* in every reachable state.
THEOREM Invariance == Spec => []IInv
\* A packet other than a mouse packet joins a whole queue.
<1>PacketJoins.
    ASSUME NEW q \in Seq(Byte), Len(q) < inbufferlen, NEW type, NEW between \in BOOLEAN,
           NEW old, Whole(q, old, between),
           NEW bytes, Packet(bytes), type # "mouse" \/ bytes = ClockReply
    PROVE  LET s == SendAll(q, bytes)
           IN  s \in Seq(Byte) /\ Len(s) < inbufferlen /\ s # <<>> /\ Whole(s, type, between)
  <2> USE <1>PacketJoins
  <2> DEFINE s == SendAll(q, bytes)
  <2>1. Sent(s, bytes, Len(bytes), between) /\ Ended(s)
    BY SendAllIs, Zenon DEF Whole
  <2>2. Len(bytes) \in 1..8
    BY TaggedIs, Zenon
  <2> HIDE DEF s
  <2>3. s \in Seq(Byte) /\ Len(s) < inbufferlen /\ s # <<>> /\ Chain(s) /\ Begins(s, between)
    <3>1. Len(bytes) > 0
      <4> DEFINE n == Len(bytes)
      <4>1. n \in 1..8
        BY <2>2, Zenon
      <4> HIDE DEF n
      <4>2. n > 0
        BY <4>1
      <4> QED BY <4>2, Zenon DEF n
    <3> QED BY <2>1, <3>1, Zenon DEF Sent
  <2>4. MouseLast(s, type)
    <3>1. SUFFICES ASSUME type = "mouse", Len(s) >= 3 PROVE s[Len(s) - 2].v = 35
      BY DEF MouseLast
    <3>2. bytes = ClockReply /\ Len(bytes) = 7 /\ bytes[5] = 35
      BY <3>1 DEF ClockReply
    <3>3. s[Len(s) - 2] = Tagged(bytes)[7 - 2]
      <4>1. Len(s) \in Nat /\ Len(s) >= 3
        BY <2>3, <3>1, LenProperties, Zenon
      <4>2. 2 \in 0..(7 - 1) /\ 7 > 0 /\ 2 < Len(s)
        BY <4>1
      <4> QED BY <2>1, <3>2, <4>2, Zenon DEF Sent
    <3>4. Tagged(bytes)[5].v = bytes[5]
      <4>1. 5 \in 1..Len(bytes)
        BY <3>2
      <4> QED BY <4>1, TaggedIs, ZenonT(30)
    <3>5. 7 - 2 = 5
      OBVIOUS
    <3> QED BY <3>2, <3>3, <3>4, <3>5, Zenon
  <2> QED BY <2>1, <2>3, <2>4, Zenon DEF Whole, s
\* When bytes are announced the request is pending afterwards, or it is masked.
<1>AnnounceIs.
    ASSUME TypeOK, Requests, Announce(sr), rec_inter' = rec_inter, ier6' = ier6, queue' # <<>>
    PROVE  /\ sr' \in SUBSET {"RXFULL", "INTERRUPT"}
           /\ irq6' \in BOOLEAN /\ masked' \in BOOLEAN
           /\ Requests'
  <2> USE <1>AnnounceIs
  <2>1. sr' \in SUBSET {"RXFULL", "INTERRUPT"}
    BY Zenon DEF TypeOK, Announce
  <2>2. irq6' \in BOOLEAN /\ masked' \in BOOLEAN
    BY Zenon DEF TypeOK, Announce
  <2>3. CASE Throws
    BY <2>3, Zenon DEF Announce, Requests, Throws, TypeOK
  <2>4. CASE ~Throws
    <3>1. SUFFICES ASSUME "INTERRUPT" \in sr', ~masked' PROVE FALSE
      BY <2>1, <2>2, Zenon DEF Requests
    <3>2. "INTERRUPT" \in sr
      BY <3>1, <2>4, Zenon DEF Announce
    <3>3. ~masked
      BY <3>1, <2>4, Zenon DEF Announce
    <3> QED BY <3>2, <3>3, <2>4, Zenon DEF Requests, Throws
  <2> QED BY <2>1, <2>2, <2>3, <2>4, Zenon
\* An event or an answer that is one packet.
<1>Enqueued.
    ASSUME IInv, NEW bytes, Packet(bytes), NEW k, Enqueue(SendAll(queue, bytes), k),
           intype' \in Types, intype' # "mouse" \/ bytes = ClockReply,
           last' = last, rec_inter' = rec_inter, ier6' = ier6, handling' = handling
    PROVE  IInv'
  <2> USE <1>Enqueued
  <2>1. /\ queue \in Seq(Byte) /\ Len(queue) < inbufferlen
        /\ Whole(queue, intype, Between) /\ Between \in BOOLEAN
    BY Zenon DEF IInv, TypeOK, Between
  <2>2. queue' = SendAll(queue, bytes) /\ Between' = Between
    BY Zenon DEF Enqueue, Between
  <2>3. /\ queue' \in Seq(Byte) /\ Len(queue') < inbufferlen /\ queue' # <<>>
        /\ Whole(queue', intype', Between)
    BY <2>1, <2>2, <1>PacketJoins
  <2>4. sr' \in SUBSET {"RXFULL", "INTERRUPT"} /\ irq6' \in BOOLEAN /\ masked' \in BOOLEAN /\ Requests'
    BY <2>3, <1>AnnounceIs, Zenon DEF Enqueue, IInv
  <2>5. lossy' \in BOOLEAN
    BY Zenon DEF Enqueue, IInv, TypeOK
  <2>6. rec_inter' \in BOOLEAN /\ ier6' \in BOOLEAN /\ handling' \in BOOLEAN
    BY Zenon DEF IInv, TypeOK
  <2>7. TypeOK'
    BY <2>3, <2>4, <2>5, <2>6, Zenon DEF TypeOK
  <2> QED BY <2>2, <2>3, <2>4, <2>7, Zenon DEF IInv
\* Keys and the wheel.
<1>KeyIInv.
    ASSUME IInv, (\E code \in Scancode : SendKey(code)) \/ EiffelWheel
    PROVE  IInv'
  <2> USE <1>KeyIInv
  <2>1. ASSUME NEW code \in Scancode, SendKey(code) PROVE IInv'
    <3>1. /\ intype' = "keyboard" /\ Enqueue(SendAll(queue, <<code>>), 1) /\ last' = last
          /\ rec_inter' = rec_inter /\ ier6' = ier6 /\ handling' = handling
      BY <2>1, Zenon DEF SendKey, Event, history
    <3>2. Packet(<<code>>)
      BY PacketsAre, Zenon
    <3> QED BY <3>1, <3>2, <1>Enqueued, Zenon DEF Types
  <2>2. ASSUME EiffelWheel PROVE IInv'
    <3> DEFINE bytes == <<246, 5, 0, 0, 0, 0, 0, 89>>
    <3>1. /\ intype' = "keyboard" /\ Enqueue(SendAll(queue, bytes), 8) /\ last' = last
          /\ rec_inter' = rec_inter /\ ier6' = ier6 /\ handling' = handling
      BY <2>2, Zenon DEF EiffelWheel, Event, history
    <3>2. Packet(bytes)
      BY PacketsAre, Zenon
    <3> HIDE DEF bytes
    <3> QED BY <3>1, <3>2, <1>Enqueued, Zenon DEF Types
  <2> QED BY <2>1, <2>2, Zenon
\* The joysticks.
<1>JoyIInv.
    ASSUME IInv, NEW n, NEW state, JoyChange(n, state)
    PROVE  IInv'
  <2> USE <1>JoyIInv
  <2>1. /\ intype' = "joystick" /\ Enqueue(SendAll(queue, JoyPacket(n, state)), 2) /\ last' = last
        /\ rec_inter' = rec_inter /\ ier6' = ier6 /\ handling' = handling
    BY Zenon DEF JoyChange, Report, Event, history
  <2>2. n \in 0..1
    BY ConstantsAssumption, ZenonT(30) DEF JoyChange
  <2>3. Packet(JoyPacket(n, state))
    BY <2>2, PacketsAre, Zenon
  <2> QED BY <2>1, <2>3, <1>Enqueued, Zenon DEF Types
\* The mouse.
<1>MouseIInv.
    ASSUME IInv, NEW e \in Motion, SendMouseMotion(e)
    PROVE  IInv'
  <2> USE <1>MouseIInv
  <2> DEFINE step == IF e.slow THEN 1 ELSE MOUSE_DELTA_MAX
             n == Parts(e, step)
             a == [q |-> queue, type |-> intype, lost |-> lossy]
             sent == MotionLoop(n, a, e, step)[n]
             S == Turn(Between)
  <2>1. /\ queue' = sent.q /\ intype' = sent.type /\ lossy' = sent.lost /\ Announce(sr) /\ last' = last
        /\ rec_inter' = rec_inter /\ ier6' = ier6 /\ handling' = handling
    BY DEF SendMouseMotion, MotionLoop, Event, history
  <2>2. step \in {1, 63}
    BY Zenon DEF MOUSE_DELTA_MAX
  <2> HIDE DEF step
  <2>3. /\ n \in Nat /\ n > 0
        /\ \A i \in Nat : Part(e.x, step, i) \in Int /\ Part(e.y, step, i) \in Int
    BY <2>2, PartsAre
  <2>4. e.b \in 0..3 /\ Between \in BOOLEAN
    BY ConstantsAssumption DEF Between
  <2>5. a \in S
    BY Zenon DEF IInv, TypeOK, Turn
  <2> HIDE DEF n, a
  <2>6. ASSUME NEW i \in 1..n, NEW s \in S
        PROVE  /\ SendPart(s, Part(e.x, step, i), Part(e.y, step, i), e.b, e.slow) \in S
               /\ SendPart(s, Part(e.x, step, i), Part(e.y, step, i), e.b, e.slow).q # <<>>
    <3>1. Part(e.x, step, i) \in Int /\ Part(e.y, step, i) \in Int
      BY <2>3
    <3> QED BY <2>4, <3>1, SendPartIs, Zenon
  <2> HIDE DEF S
  <2>7. /\ MotionLoop(n, a, e, step)[n - 1] \in S
        /\ sent = SendPart(MotionLoop(n, a, e, step)[n - 1],
                           Part(e.x, step, n), Part(e.y, step, n), e.b, e.slow)
    <3>1. \A i \in 1..n : \A t \in S :
            SendPart(t, Part(e.x, step, i), Part(e.y, step, i), e.b, e.slow) \in S
      BY <2>6, Zenon
    <3>2. n - 1 \in 0..n /\ n \in 1..n
      BY <2>3
    <3>3. /\ \A i \in 0..n : MotionLoop(n, a, e, step)[i] \in S
          /\ \A i \in 1..n : MotionLoop(n, a, e, step)[i]
               = SendPart(MotionLoop(n, a, e, step)[i - 1],
                          Part(e.x, step, i), Part(e.y, step, i), e.b, e.slow)
      BY <2>3, <2>5, <3>1, MotionLoopIs
    <3> QED BY <3>2, <3>3, Zenon
  <2> HIDE DEF sent
  <2>8. sent \in S /\ sent.q # <<>>
    <3>1. n \in 1..n
      BY <2>3
    <3> QED BY <2>6, <2>7, <3>1, Zenon
  <2>9. /\ queue' \in Seq(Byte) /\ Len(queue') < inbufferlen /\ queue' # <<>>
        /\ intype' \in Types /\ Whole(queue', intype', Between)
    BY <2>1, <2>8, Zenon DEF S, Turn
  <2>10. lossy' \in BOOLEAN
    BY <2>1, <2>8, Zenon DEF S, Turn
  <2>11. Between' = Between
    BY <2>1, Zenon DEF Between
  <2>12. sr' \in SUBSET {"RXFULL", "INTERRUPT"} /\ irq6' \in BOOLEAN /\ masked' \in BOOLEAN /\ Requests'
    BY <2>1, <2>9, <1>AnnounceIs, Zenon DEF IInv
  <2>13. rec_inter' \in BOOLEAN /\ ier6' \in BOOLEAN /\ handling' \in BOOLEAN
    BY <2>1, Zenon DEF IInv, TypeOK
  <2>14. TypeOK'
    BY <2>9, <2>10, <2>12, <2>13, Zenon DEF TypeOK
  <2> QED BY <2>9, <2>11, <2>12, <2>14, Zenon DEF IInv
\* The guest reads a byte.
<1>ReadDataIInv.
      IInv /\ ReadData => IInv'
    \* The queue after a read: what follows the end of a packet is a beginning.
  <2>TailIs.
      ASSUME NEW q \in Seq(Byte), q # <<>>, NEW type, NEW between, Whole(q, type, between)
      PROVE  /\ Tail(q) \in Seq(Byte) /\ Len(Tail(q)) = Len(q) - 1
             /\ Whole(Tail(q), type, q[1].pos = q[1].len)
    <3> USE <2>TailIs
    <3> DEFINE t == Tail(q)
    <3>1. /\ t \in Seq(Byte) /\ Len(t) = Len(q) - 1
          /\ \A i \in 1..Len(t) : t[i] = q[i + 1]
      BY HeadTailProperties, Zenon
    <3>2. Len(q) \in Nat \ {0} /\ (t = <<>> <=> Len(t) = 0)
      BY <3>1, EmptySeq, Zenon
    <3> HIDE DEF t
    <3>3. Chain(t)
      <4>1. ASSUME NEW i \in 1..Len(t) PROVE Placed(t[i])
        <5>1. i + 1 \in 1..Len(q)
          BY <3>1, <3>2
        <5> QED BY <3>1, <5>1, Zenon DEF Whole, Chain
      <4>2. ASSUME NEW i \in 1..(Len(t) - 1) PROVE Next2(t[i], t[i + 1])
        <5>1. i \in 1..Len(t) /\ i + 1 \in 1..Len(t) /\ i + 1 \in 1..(Len(q) - 1)
          BY <3>1, <3>2
        <5> QED BY <3>1, <5>1, Zenon DEF Whole, Chain
      <4> QED BY <4>1, <4>2, Zenon DEF Chain
    <3>4. Ended(t)
      <4>1. SUFFICES ASSUME t # <<>> PROVE t[Len(t)].pos = t[Len(t)].len
        BY Zenon DEF Ended
      <4>2. Len(t) \in 1..Len(t) /\ Len(t) + 1 = Len(q)
        BY <4>1, <3>1, <3>2
      <4>3. t[Len(t)] = q[Len(q)]
        BY <3>1, <4>2, Zenon
      <4> QED BY <4>3, Zenon DEF Whole, Ended
    <3>5. Begins(t, q[1].pos = q[1].len)
      <4>1. SUFFICES ASSUME q[1].pos = q[1].len, t # <<>> PROVE t[1].pos = 1
        BY Zenon DEF Begins
      <4>2. 1 \in 1..Len(t) /\ 1 \in 1..(Len(q) - 1) /\ 1 \in 1..Len(q)
        BY <4>1, <3>1, <3>2
      <4>3. t[1] = q[1 + 1] /\ Next2(q[1], q[1 + 1])
        BY <3>1, <4>2, Zenon DEF Whole, Chain
      <4>4. q[1] \in Byte
        BY <4>2, LenProperties, Zenon
      <4>5. q[1].pos \in 1..8
        BY <4>4, Zenon DEF Byte
      <4> QED BY <4>1, <4>3, <4>5 DEF Next2
    <3>6. MouseLast(t, type)
      <4>1. SUFFICES ASSUME type = "mouse", Len(t) >= 3, t[Len(t) - 2].v \in 248..251
                     PROVE  t[Len(t) - 2].pos = 1
        BY Zenon DEF MouseLast
      <4>2. Len(t) - 2 \in 1..Len(t) /\ (Len(t) - 2) + 1 = Len(q) - 2 /\ Len(q) >= 3
        BY <4>1, <3>1, <3>2
      <4>3. t[Len(t) - 2] = q[Len(q) - 2]
        BY <3>1, <4>2, Zenon
      <4> QED BY <4>1, <4>2, <4>3, Zenon DEF Whole, MouseLast
    <3>7. Whole(t, type, q[1].pos = q[1].len)
      BY <3>3, <3>4, <3>5, <3>6, Zenon DEF Whole
    <3> QED BY <3>1, <3>7, Zenon DEF t
  <2> SUFFICES ASSUME IInv, ReadData
             PROVE  IInv'
    BY Zenon
  <2>1. /\ queue \in Seq(Byte) /\ Len(queue) < inbufferlen /\ queue # <<>>
        /\ Whole(queue, intype, Between)
    BY Zenon DEF IInv, TypeOK, ReadData
  <2>2. queue' = Tail(queue) /\ intype' = intype /\ Head(queue) = queue[1]
    BY <2>1, HeadTailProperties DEF ReadData, Guest
  <2>3. /\ queue' \in Seq(Byte) /\ Len(queue') = Len(queue) - 1
        /\ Whole(queue', intype', queue[1].pos = queue[1].len)
    BY <2>1, <2>2, <2>TailIs, Zenon
  <2>4. Len(queue) \in Nat \ {0} /\ inbufferlen \in Nat
    BY <2>1, EmptySeq, ConstantsAssumption, Zenon
  <2>5. Len(queue') < inbufferlen
    BY <2>1, <2>3, <2>4
  <2>6. Between' = (queue[1].pos = queue[1].len)
    <3>1. last' = [pos |-> queue[1].pos, len |-> queue[1].len]
      BY <2>2, Zenon DEF ReadData, Learn
    <3> DEFINE u == queue[1].pos
               v == queue[1].len
    <3>2. last' = [pos |-> u, len |-> v]
      BY <3>1, Zenon
    <3> HIDE DEF u, v
    <3>3. last'.pos = u /\ last'.len = v
      BY <3>2, Zenon
    <3>4. Between' = (u = v)
      BY <3>3, Zenon DEF Between
    <3> QED BY <3>4, Zenon DEF u, v
  <2>7. Whole(queue', intype', Between')
    BY <2>3, <2>6, Zenon
  <2>8. sr' \in SUBSET {"RXFULL", "INTERRUPT"} /\ irq6' \in BOOLEAN /\ masked' \in BOOLEAN /\ Requests'
    <3>1. CASE Len(queue) = 1
      <4>1. Quiet
        BY <3>1, Zenon DEF ReadData
      <4>2. sr' \in SUBSET {"RXFULL", "INTERRUPT"} /\ ~("INTERRUPT" \in sr')
        BY <4>1, Zenon DEF Quiet, IInv, TypeOK
      <4>3. irq6' \in BOOLEAN /\ masked' \in BOOLEAN
        BY <4>1, Zenon DEF Quiet, IInv, TypeOK
      <4> QED BY <4>2, <4>3, Zenon DEF Requests
    <3>2. CASE Len(queue) # 1
      <4>1. Announce(sr) /\ rec_inter' = rec_inter /\ ier6' = ier6
        BY <3>2, Zenon DEF ReadData, More
      <4>2. Len(queue') # 0
        BY <3>2, <2>3, <2>4
      <4>3. queue' # <<>>
        BY <4>2, EmptySeq, Zenon
      <4> QED BY <4>1, <4>3, <1>AnnounceIs, Zenon DEF IInv
    <3> QED BY <3>1, <3>2, Zenon
  <2>9. rec_inter' \in BOOLEAN /\ ier6' \in BOOLEAN /\ handling' \in BOOLEAN /\ lossy' \in BOOLEAN
    BY Zenon DEF ReadData, IInv, TypeOK
  <2>10. intype' \in Types
    BY <2>2, Zenon DEF IInv, TypeOK
  <2>11. TypeOK'
    BY <2>3, <2>5, <2>8, <2>9, <2>10, Zenon DEF TypeOK
  <2> QED BY <2>7, <2>8, <2>11, Zenon DEF IInv
\* A queue that is left alone stays whole.
<1>QueueAlone.
    ASSUME IInv, queue' = queue, intype' = intype, last' = last, lossy' = lossy
    PROVE  /\ queue' \in Seq(Byte) /\ Len(queue') < inbufferlen
           /\ intype' \in Types /\ lossy' \in BOOLEAN
           /\ Whole(queue', intype', Between')
  <2> USE <1>QueueAlone
  <2>1. Between' = Between
    BY Zenon DEF Between
  <2>2. lossy' \in BOOLEAN
    BY Zenon DEF IInv, TypeOK
  <2> QED BY <2>1, <2>2, Zenon DEF IInv, TypeOK
\* The interrupt is taken or masked, the ACIA is set up or reset.
<1>LineIInv.
    ASSUME IInv,
           \/ ReadNothing \/ TakeInterrupt \/ ACIAReset
           \/ \E on \in Enables : WriteIER(on) \/ WriteControl(on)
    PROVE  IInv'
  <2> USE <1>LineIInv
  <2>1. queue' = queue /\ intype' = intype /\ last' = last /\ lossy' = lossy
    BY Zenon DEF ReadNothing, TakeInterrupt, ACIAReset, WriteIER, WriteControl, Guest, history
  <2>2. /\ queue' \in Seq(Byte) /\ Len(queue') < inbufferlen
        /\ intype' \in Types /\ lossy' \in BOOLEAN
        /\ Whole(queue', intype', Between')
    BY <2>1, <1>QueueAlone, Zenon
  <2> DEFINE Flags == /\ rec_inter \in BOOLEAN /\ ier6 \in BOOLEAN /\ irq6 \in BOOLEAN
                      /\ handling \in BOOLEAN /\ masked \in BOOLEAN
  <2>3. Flags /\ sr \in SUBSET {"RXFULL", "INTERRUPT"} /\ Requests
    BY Zenon DEF IInv, TypeOK
  <2>4. ASSUME Flags', sr' \in SUBSET {"RXFULL", "INTERRUPT"}, Requests' PROVE IInv'
    BY <2>2, <2>4, Zenon DEF IInv, TypeOK
  <2>5. CASE ReadNothing
    <3>1. /\ queue = <<>> /\ sr' = sr /\ gpip4' = gpip4 /\ irq6' = irq6 /\ masked' = masked
          /\ rec_inter' = rec_inter /\ ier6' = ier6 /\ handling' = FALSE
      BY <2>5, Zenon DEF ReadNothing, line
    <3>2. Flags' /\ sr' \in SUBSET {"RXFULL", "INTERRUPT"}
      BY <2>3, <3>1, Zenon
    <3>3. Requests'
      BY <2>1, <2>3, <3>1, Zenon DEF Requests
    <3> QED BY <2>4, <3>2, <3>3, Zenon
  <2>6. CASE TakeInterrupt
    <3>1. /\ sr' = sr /\ gpip4' = gpip4 /\ irq6' = FALSE /\ masked' = masked
          /\ rec_inter' = rec_inter /\ ier6' = ier6 /\ handling' = TRUE
      BY <2>6, Zenon DEF TakeInterrupt
    <3>2. Flags' /\ sr' \in SUBSET {"RXFULL", "INTERRUPT"}
      BY <2>3, <3>1, Zenon
    <3>3. Requests'
      BY <2>1, <2>3, <3>1, Zenon DEF Requests
    <3> QED BY <2>4, <3>2, <3>3, Zenon
  <2>7. CASE ACIAReset
    <3>1. /\ sr' = {} /\ irq6' = irq6 /\ masked' = TRUE
          /\ rec_inter' = FALSE /\ ier6' = ier6 /\ handling' = handling
      BY <2>7, Zenon DEF ACIAReset
    <3>2. Flags' /\ sr' \in SUBSET {"RXFULL", "INTERRUPT"}
      BY <2>3, <3>1, Zenon
    <3>3. Requests'
      BY <3>1, Zenon DEF Requests
    <3> QED BY <2>4, <3>2, <3>3, Zenon
  <2>8. ASSUME NEW on \in Enables, WriteIER(on) PROVE IInv'
    <3>1. /\ sr' = sr /\ gpip4' = gpip4 /\ irq6' = (irq6 /\ on) /\ masked' = (masked \/ ~on)
          /\ rec_inter' = rec_inter /\ ier6' = on /\ handling' = handling
      BY <2>8, Zenon DEF WriteIER
    <3>2. on \in BOOLEAN
      BY ConstantsAssumption, Zenon
    <3>3. Flags' /\ sr' \in SUBSET {"RXFULL", "INTERRUPT"}
      BY <2>3, <3>1, <3>2, Zenon
    <3>4. Requests'
      BY <2>1, <2>3, <3>1, <3>2, Zenon DEF Requests
    <3> QED BY <2>4, <3>3, <3>4, Zenon
  <2>9. ASSUME NEW on \in Enables, WriteControl(on) PROVE IInv'
    <3>1. /\ sr' = sr /\ gpip4' = gpip4 /\ irq6' = irq6 /\ masked' = (masked \/ ~on)
          /\ rec_inter' = on /\ ier6' = ier6 /\ handling' = handling
      BY <2>9, Zenon DEF WriteControl
    <3>2. on \in BOOLEAN
      BY ConstantsAssumption, Zenon
    <3>3. Flags' /\ sr' \in SUBSET {"RXFULL", "INTERRUPT"}
      BY <2>3, <3>1, <3>2, Zenon
    <3>4. Requests'
      BY <2>1, <2>3, <3>1, <3>2, Zenon DEF Requests
    <3> QED BY <2>4, <3>3, <3>4, Zenon
  <2> QED BY <2>5, <2>6, <2>7, <2>8, <2>9, Zenon
\* An empty queue is whole.
<1>EmptyIsWhole.
    \A type, between : <<>> \in Seq(Byte) /\ Len(<<>>) = 0 /\ Whole(<<>>, type, between)
  BY EmptySeq DEF Whole, Chain, Ended, Begins, MouseLast
\* The machine is reset.
<1>HWResetIInv.
    ASSUME IInv, HWReset
    PROVE  IInv'
  <2> USE <1>HWResetIInv
  <2>1. /\ queue' = <<>> /\ intype' = "unknown" /\ lossy' = FALSE /\ ier6' = FALSE /\ irq6' = FALSE
        /\ handling' = FALSE /\ masked' = TRUE /\ sr' = sr /\ rec_inter' = rec_inter
    BY Zenon DEF HWReset, reset
  <2>2. queue' \in Seq(Byte) /\ Len(queue') < inbufferlen /\ Whole(queue', intype', Between')
    BY <2>1, <1>EmptyIsWhole, ConstantsAssumption
  <2>3. Requests'
    BY <2>1, Zenon DEF Requests
  <2>4. TypeOK'
    BY <2>1, <2>2, Zenon DEF IInv, TypeOK, Types
  <2> QED BY <2>2, <2>3, <2>4, Zenon DEF IInv
\* The guest writes a byte of a command.
<1>WriteDataIInv.
    ASSUME IInv, NEW b, WriteData(b)
    PROVE  IInv'
  <2> USE <1>WriteDataIInv
  <2> DEFINE out == Append(outbuffer, b)
  <2>1. /\ rec_inter' = rec_inter /\ ier6' = ier6 /\ handling' = handling
        /\ \/ Collect(out) \/ Configure(out)
           \/ Answer(out) /\ Answered(out)
           \/ reset(SendAll(<<>>, <<241>>)) /\ Announce(sr)
    BY Zenon DEF WriteData
  <2> HIDE DEF out
  <2>2. CASE Collect(out) \/ Configure(out)
    <3>1. /\ queue' = queue /\ intype' = intype /\ last' = last /\ lossy' = lossy
          /\ sr' = sr /\ gpip4' = gpip4 /\ irq6' = irq6 /\ masked' = masked
      BY <2>2, Zenon DEF Collect, Configure, line, history
    <3>2. /\ queue' \in Seq(Byte) /\ Len(queue') < inbufferlen
          /\ intype' \in Types /\ lossy' \in BOOLEAN
          /\ Whole(queue', intype', Between')
      BY <3>1, <1>QueueAlone, Zenon
    <3>3. Requests'
      BY <2>1, <3>1, Zenon DEF IInv, Requests
    <3>4. TypeOK'
      BY <2>1, <3>1, <3>2 DEF IInv, TypeOK
    <3> QED BY <3>2, <3>3, <3>4, Zenon DEF IInv
  <2>3. CASE Answer(out) /\ Answered(out)
    <3>1. last' = last /\ Enqueue(Reply(out), IF out = <<22>> THEN 2 ELSE 7)
      BY <2>3, Zenon DEF Answer, history
    <3>2. CASE out = <<22>>
      <4>1. Reply(out) = SendAll(queue, JoyPacket(1, joy_state[1])) /\ intype' = "joystick"
        BY <3>2, <2>3, Zenon DEF Reply, Answer
      <4>2. Packet(JoyPacket(1, joy_state[1]))
        BY PacketsAre
      <4> QED BY <2>1, <3>1, <4>1, <4>2, <1>Enqueued, Zenon DEF Types
    <3>3. CASE out # <<22>>
      <4>1. Reply(out) = SendAll(queue, ClockReply) /\ intype' = intype /\ intype' \in Types
        BY <3>3, <2>3, Zenon DEF Reply, Answer, IInv, TypeOK
      <4>2. Packet(ClockReply)
        BY PacketsAre, Zenon
      <4> QED BY <2>1, <3>1, <4>1, <4>2, <1>Enqueued, Zenon
    <3> QED BY <3>2, <3>3, Zenon
  <2>4. CASE reset(SendAll(<<>>, <<241>>)) /\ Announce(sr)
    <3>1. /\ queue' = SendAll(<<>>, <<241>>) /\ intype' = "unknown" /\ lossy' = FALSE
          /\ last' = [pos |-> 1, len |-> 1]
      BY <2>4, Zenon DEF reset
    <3>2. Between' = TRUE
      BY <3>1, Zenon DEF Between
    <3>3. Len(<<>>) < inbufferlen
      BY <1>EmptyIsWhole, ConstantsAssumption
    <3>4. /\ queue' \in Seq(Byte) /\ Len(queue') < inbufferlen /\ queue' # <<>>
          /\ Whole(queue', "unknown", TRUE)
      <4> DEFINE q == <<>>
                 bytes == <<241>>
                 new == "unknown"
                 all == TRUE
      <4>1. q \in Seq(Byte) /\ Whole(q, new, all) /\ Len(q) < inbufferlen
        BY <3>3, <1>EmptyIsWhole, Zenon
      <4>2. new # "mouse" /\ all \in BOOLEAN
        BY Zenon
      <4>3. Packet(bytes) /\ queue' = SendAll(q, bytes)
        BY <3>1, PacketsAre, Zenon
      <4> HIDE DEF q, bytes, new, all
      <4>4. /\ queue' \in Seq(Byte) /\ Len(queue') < inbufferlen /\ queue' # <<>>
            /\ Whole(queue', new, all)
        BY <4>1, <4>2, <4>3, <1>PacketJoins
      <4> QED BY <4>4, Zenon DEF new, all
    <3>5. sr' \in SUBSET {"RXFULL", "INTERRUPT"} /\ irq6' \in BOOLEAN /\ masked' \in BOOLEAN /\ Requests'
      BY <2>1, <2>4, <3>4, <1>AnnounceIs, Zenon DEF IInv
    <3>6. rec_inter' \in BOOLEAN /\ ier6' \in BOOLEAN /\ handling' \in BOOLEAN
      BY <2>1, Zenon DEF IInv, TypeOK
    <3>7. TypeOK'
      BY <3>1, <3>4, <3>5, <3>6, Zenon DEF TypeOK, Types
    <3>8. Whole(queue', intype', Between')
      BY <3>1, <3>2, <3>4, ZenonT(30)
    <3> QED BY <3>5, <3>7, <3>8, Zenon DEF IInv
  <2> QED BY <2>1, <2>2, <2>3, <2>4, Zenon
<1>1. Init => IInv
  <2> SUFFICES ASSUME Init PROVE IInv
    BY Zenon
  <2>1. queue = <<>> /\ queue \in Seq(Byte) /\ Len(queue) = 0 /\ Whole(queue, intype, Between)
    BY <1>EmptyIsWhole, Zenon DEF Init
  <2>2. TypeOK
    <3>1. Len(queue) < inbufferlen
      BY <2>1, ConstantsAssumption
    <3> QED BY <2>1, <3>1, Zenon DEF Init, TypeOK, Types
  <2>3. Requests
    BY Zenon DEF Init, Requests
  <2> QED BY <2>1, <2>2, <2>3, Zenon DEF IInv
<1>2. IInv /\ [Next]_vars => IInv'
  <2> SUFFICES ASSUME IInv, [Next]_vars PROVE IInv'
    BY Zenon
  <2>1. CASE HostEvent
    <3>1. ASSUME NEW e \in Motion, SendMouseMotion(e) PROVE IInv'
      BY <3>1, <1>MouseIInv, Zenon
    <3>2. ASSUME NEW n \in Joys, NEW state, JoyChange(n, state) PROVE IInv'
      BY <3>2, <1>JoyIInv, Zenon
    <3> QED BY <2>1, <3>1, <3>2, <1>KeyIInv, Zenon
              DEF HostEvent, SendJoystickAxis, SendJoystickHat, SendJoystickButton
  <2>2. CASE GuestStep
    BY <2>2, <1>ReadDataIInv, <1>LineIInv, <1>WriteDataIInv, Zenon DEF GuestStep
  <2>3. CASE HWReset
    BY <2>3, <1>HWResetIInv, Zenon
  <2>4. CASE UNCHANGED vars
    <3>1. /\ queue' = queue /\ intype' = intype /\ last' = last /\ lossy' = lossy
          /\ sr' = sr /\ gpip4' = gpip4 /\ irq6' = irq6 /\ masked' = masked
          /\ rec_inter' = rec_inter /\ ier6' = ier6 /\ handling' = handling
      BY <2>4, Zenon DEF vars, line, history
    <3> QED BY <3>1, Zenon DEF IInv, TypeOK, Between, Requests
  <2> QED BY <2>1, <2>2, <2>3, <2>4, Zenon DEF Next
<1> QED BY <1>1, <1>2, PTL DEF Spec

\* A byte announced by send or ReadData reaches the guest's handler, whatever
\* events, commands and resets come in between.
THEOREM RequestsReachTheHandler == Spec => []RequestPending
<1>1. IInv => RequestPending
  BY Zenon DEF IInv, Requests, RequestPending
<1> QED BY <1>1, Invariance, PTL

\* The head of the queue is the beginning of a packet whenever the guest is between
\* packets: send gives up whole packets when the ring is full.
THEOREM HeadsAreBeginnings == Spec => []BoundaryKept
<1>1. ASSUME IInv PROVE BoundaryKept
  <2>1. SUFFICES ASSUME last.pos = last.len, queue # <<>> PROVE Head(queue).pos = 1
    BY Zenon DEF BoundaryKept
  <2>2. queue[1].pos = 1
    BY <1>1, <2>1, Zenon DEF IInv, Whole, Begins, Between
  <2>3. Head(queue) = queue[1]
    OBVIOUS
  <2> QED BY <2>2, <2>3, Zenon
<1> QED BY <1>1, Invariance, PTL

\* No packet in the queue is cut or mixed with another; this holds even after
\* the full queue has given some up.
THEOREM QueueIsPackets == Spec => []PacketsWhole
<1>1. ASSUME IInv PROVE PacketsWhole
  <2>1. ASSUME NEW i \in 1..(Len(queue) - 1) PROVE Follows(queue[i], queue[i + 1])
    <3>1. Next2(queue[i], queue[i + 1])
      BY <1>1, Zenon DEF IInv, Whole, Chain
    <3>2. queue \in [1..Len(queue) -> Byte] /\ i \in 1..Len(queue)
      BY <1>1, LenProperties DEF IInv, TypeOK
    <3>3. queue[i].pos \in 1..8 /\ queue[i].len \in 1..8
      BY <3>2 DEF Byte
    <3> QED BY <3>1, <3>3, SMTT(30) DEF Next2, Follows
  <2>2. queue # <<>> => queue[Len(queue)].pos = queue[Len(queue)].len
    BY <1>1, Zenon DEF IInv, Whole, Ended
  <2> QED BY <2>1, <2>2, Zenon DEF PacketsWhole
<1> QED BY <1>1, Invariance, PTL

(***************************************************************************)
(* A packet for which there is room.                                       *)
(***************************************************************************)
\* s is q with the first i bytes of a packet after it.
Grown(s, q, bytes, i) ==
  /\ s \in Seq(Byte)
  /\ Len(s) = Len(q) + i
  /\ \A k \in 1..Len(q) : s[k] = q[k]
  /\ \A k \in 1..i : s[Len(q) + k] = Tagged(bytes)[k]

\* One more byte is sent, and the ring is not full yet.
LEMMA GrowNext ==
  ASSUME NEW q \in Seq(Byte), NEW bytes, Packet(bytes), Len(q) + Len(bytes) < inbufferlen,
         NEW i \in 1..Len(bytes), NEW s, Grown(s, q, bytes, i - 1)
  PROVE  Grown(send(s, Tagged(bytes)[i]), q, bytes, i)
<1> DEFINE b == Tagged(bytes)[i]
           f == Append(s, b)
           l == Len(q)
           n == Len(bytes)
<1>1. b \in Byte /\ n \in 1..8 /\ l \in Nat /\ inbufferlen \in Nat
  BY TaggedIs, LenProperties, ConstantsAssumption
<1>2. s \in Seq(Byte) /\ Len(s) = l + (i - 1)
  BY ZenonT(30) DEF Grown
<1>3. /\ f \in Seq(Byte) /\ Len(f) = Len(s) + 1 /\ f[Len(s) + 1] = b
      /\ \A k \in 1..Len(s) : f[k] = s[k]
  BY <1>1, <1>2, AppendProperties
<1>4. send(s, b) = IF Len(f) = inbufferlen THEN DropPacket(f) ELSE f
  BY Zenon DEF send
<1>5. l + n < inbufferlen /\ i \in 1..n
  BY Zenon
<1>6. /\ \A k \in 1..l : s[k] = q[k]
      /\ \A k \in 1..(i - 1) : s[l + k] = Tagged(bytes)[k]
  BY Zenon DEF Grown
<1> HIDE DEF b, f, n, l
<1>7. Len(f) = l + i /\ Len(f) # inbufferlen /\ Len(s) + 1 = l + i
  BY <1>1, <1>2, <1>3, <1>5
<1>8. send(s, b) = f
  BY <1>4, <1>7, Zenon
<1>9. ASSUME NEW k \in 1..l PROVE f[k] = q[k]
  <2>1. k \in 1..Len(s)
    BY <1>1, <1>2, <1>5
  <2> QED BY <2>1, <1>3, <1>6, Zenon
<1>10. ASSUME NEW k \in 1..i PROVE f[l + k] = Tagged(bytes)[k]
  <2>1. CASE k = i
    BY <2>1, <1>3, <1>7, Zenon DEF b
  <2>2. CASE k # i
    <3>1. k \in 1..(i - 1) /\ l + k \in 1..Len(s)
      BY <2>2, <1>1, <1>2, <1>5
    <3> QED BY <3>1, <1>3, <1>6, Zenon
  <2> QED BY <2>1, <2>2, Zenon
<1>11. Grown(f, q, bytes, i)
  BY <1>3, <1>7, <1>9, <1>10, Zenon DEF Grown, l
<1> QED BY <1>8, <1>11, ZenonT(30) DEF b

\* While there is room a packet joins the queue and nothing is lost.
LEMMA SendAllGrows ==
  ASSUME NEW q \in Seq(Byte), NEW bytes, Packet(bytes), Len(q) + Len(bytes) < inbufferlen
  PROVE  Grown(SendAll(q, bytes), q, bytes, Len(bytes))
<1> DEFINE n == Len(bytes)
           R == {x \in (0..n) \X Seq(Byte) : Grown(x[2], q, bytes, x[1])}
<1>1. n \in 1..8 /\ \A i \in 1..n : Tagged(bytes)[i] \in Byte
  BY TaggedIs, Zenon
<1>2. <<0, q>> \in R
  <2>1. Len(q) \in Nat
    BY LenProperties, Zenon
  <2>2. Grown(q, q, bytes, 0)
    BY <2>1 DEF Grown
  <2> HIDE DEF n
  <2> QED BY <2>2, <1>1
<1>3. ASSUME NEW i \in 1..n, NEW s, <<i - 1, s>> \in R
      PROVE  <<i, send(s, Tagged(bytes)[i])>> \in R
  <2>1. Grown(s, q, bytes, i - 1)
    BY <1>3, Zenon
  <2>2. Grown(send(s, Tagged(bytes)[i]), q, bytes, i)
    BY <2>1, GrowNext, Zenon
  <2>3. send(s, Tagged(bytes)[i]) \in Seq(Byte) /\ i \in 0..n
    BY <2>2, <1>1 DEF Grown
  <2> QED BY <2>2, <2>3, Zenon
<1>4. <<n, SendAll(q, bytes)>> \in R
  <2> HIDE DEF R
  <2> QED BY <1>1, <1>2, <1>3, SendAllRuns
<1> QED BY <1>4, Zenon

(***************************************************************************)
(* The joysticks' reports.                                                 *)
(***************************************************************************)
\* JoysticksTold for joystick n, whose state the guest believes to be known.
Tells(q, n, known, state) ==
  /\ Silent(q, 1, n) => known = state
  /\ \A i \in 1..Len(q) :
       IsReport(q[i], n) /\ Silent(q, i + 1, n) => q[i].v = JoyByte(state)

\* What is left to be sent when the keyboard begins anew: nothing, or the answer to
\* the command that resets it.
Anew(q) == q = <<>> \/ q = SendAll(<<>>, <<241>>)

\* When the guest has emptied the queue it knows the states of the joysticks: the
\* last report of SendJoystickAxis, Hat or Button, or the answer to an interrogation,
\* is the present state, whatever else is sent, merged and read in between.
THEOREM GuestLearnsTheJoysticks == Spec => []JoysticksTold
\* Only what follows the reports has changed.
<1>TellsSame.
    ASSUME NEW q \in Seq(Byte), NEW t \in Seq(Byte), NEW n \in 0..1, NEW known, NEW state,
           NEW m \in Nat, m <= Len(q), m <= Len(t), \A i \in 1..m : t[i] = q[i],
           Silent(q, m + 1, n), Silent(t, m + 1, n), Tells(q, n, known, state)
    PROVE  Tells(t, n, known, state)
  <2> USE <1>TellsSame
  <2>1. Len(q) \in Nat /\ Len(t) \in Nat
    BY LenProperties, Zenon
  <2>2. ASSUME NEW f \in 1..(m + 1), Silent(t, f, n) PROVE Silent(q, f, n)
    <3>1. SUFFICES ASSUME NEW k \in f..Len(q) PROVE ~IsReport(q[k], n)
      BY Zenon DEF Silent
    <3>2. CASE k <= m
      <4>1. k \in 1..m /\ k \in f..Len(t)
        BY <3>2, <2>1
      <4> QED BY <4>1, <2>2, Zenon DEF Silent
    <3>3. CASE k > m
      <4>1. k \in (m + 1)..Len(q)
        BY <3>3, <2>1
      <4> QED BY <4>1, Zenon DEF Silent
    <3> QED BY <3>2, <3>3, <2>1
  <2>3. Silent(t, 1, n) => known = state
    <3>1. 1 \in 1..(m + 1)
      OBVIOUS
    <3> QED BY <3>1, <2>2, Zenon DEF Tells
  <2>4. ASSUME NEW i \in 1..Len(t), IsReport(t[i], n), Silent(t, i + 1, n)
        PROVE  t[i].v = JoyByte(state)
    <3>1. i <= m
      <4>1. ~(i \in (m + 1)..Len(t))
        BY <2>4, Zenon DEF Silent
      <4> QED BY <4>1, <2>1
    <3>2. i \in 1..m /\ i + 1 \in 1..(m + 1) /\ i \in 1..Len(q)
      BY <3>1, <2>1
    <3>3. Silent(q, i + 1, n) /\ t[i] = q[i]
      BY <3>2, <2>2, <2>4, Zenon
    <3> QED BY <3>2, <3>3, <2>4, Zenon DEF Tells
  <2> QED BY <2>3, <2>4, Zenon DEF Tells
\* A packet that is no report of joystick n joins the queue.
<1>TellsPacket.
    ASSUME NEW q \in Seq(Byte), NEW n \in 0..1, NEW known, NEW state, Tells(q, n, known, state),
           NEW bytes, Packet(bytes), Len(q) + Len(bytes) < inbufferlen, bytes[1] # 254 + n
    PROVE  Tells(SendAll(q, bytes), n, known, state)
  <2> USE <1>TellsPacket
  <2> DEFINE s == SendAll(q, bytes)
             m == Len(q)
             l == Len(bytes)
  <2>1. Grown(s, q, bytes, l)
    BY SendAllGrows, Zenon
  <2>2. l \in 1..8 /\ m \in Nat
    BY TaggedIs, LenProperties, ZenonT(30)
  <2> HIDE DEF s
  <2>3. s \in Seq(Byte) /\ Len(s) = m + l /\ \A k \in 1..m : s[k] = q[k]
    BY <2>1, Zenon DEF Grown
  <2>4. \A k \in 1..l : s[m + k] = Tagged(bytes)[k] /\ Tagged(bytes)[k].head = bytes[1]
    BY <2>1, TaggedIs DEF Grown
  <2> HIDE DEF l, m
  <2>5. Silent(s, m + 1, n)
    <3>1. SUFFICES ASSUME NEW k \in (m + 1)..Len(s) PROVE ~IsReport(s[k], n)
      BY Zenon DEF Silent
    <3>2. k - m \in 1..l /\ m + (k - m) = k
      BY <2>2, <2>3
    <3>3. s[k].head = bytes[1]
      BY <3>2, <2>4
    <3> QED BY <3>3, Zenon DEF IsReport
  <2>6. Silent(q, m + 1, n)
    BY <2>2 DEF Silent, m
  <2>7. m <= Len(q) /\ m <= Len(s)
    BY <2>2, <2>3 DEF m
  <2>8. Tells(s, n, known, state)
    BY <2>2, <2>3, <2>5, <2>6, <2>7, <1>TellsSame, Zenon
  <2> QED BY <2>8, Zenon DEF s
\* The report of joystick n joins the queue.
<1>TellsReport.
      \A q \in Seq(Byte), n \in 0..1 : \A known, state :
          Len(q) + 2 < inbufferlen => Tells(SendAll(q, JoyPacket(n, state)), n, known, state)
    \* The last byte reports the state.
  <2>TellsNew.
      ASSUME NEW t \in Seq(Byte), NEW n \in 0..1, NEW known, NEW state, Len(t) > 0,
             IsReport(t[Len(t)], n), t[Len(t)].v = JoyByte(state)
      PROVE  Tells(t, n, known, state)
    <3> USE <2>TellsNew
    <3>1. Len(t) \in Nat
      BY LenProperties, Zenon
    <3>2. ~Silent(t, 1, n)
      <4>1. Len(t) \in 1..Len(t)
        BY <3>1
      <4> QED BY <4>1, Zenon DEF Silent
    <3>3. ASSUME NEW i \in 1..Len(t), Silent(t, i + 1, n) PROVE i = Len(t)
      <4>1. ~(Len(t) \in (i + 1)..Len(t))
        BY <3>3, Zenon DEF Silent
      <4> QED BY <3>1, <4>1
    <3> QED BY <3>2, <3>3, Zenon DEF Tells
  <2> SUFFICES ASSUME NEW q \in Seq(Byte), NEW n \in 0..1, NEW known, NEW state, Len(q) + 2 < inbufferlen
             PROVE  Tells(SendAll(q, JoyPacket(n, state)), n, known, state)
    BY Zenon
  <2> DEFINE bytes == JoyPacket(n, state)
             s == SendAll(q, bytes)
  <2>1. Packet(bytes)
    BY PacketsAre, Zenon
  <2>2. Len(bytes) = 2 /\ bytes[1] = 254 + n /\ bytes[2] = JoyByte(state)
    BY Zenon DEF JoyPacket
  <2> HIDE DEF bytes
  <2>3. Grown(s, q, bytes, 2)
    BY <2>1, <2>2, SendAllGrows, Zenon
  <2>4. Len(q) \in Nat
    BY LenProperties, Zenon
  <2> HIDE DEF s
  <2>5. 2 \in 1..2
    OBVIOUS
  <2>6. s \in Seq(Byte) /\ Len(s) = Len(q) + 2 /\ s[Len(q) + 2] = Tagged(bytes)[2]
    BY <2>3, <2>5, ZenonT(30) DEF Grown
  <2>7. /\ Tagged(bytes)[2].v = JoyByte(state) /\ Tagged(bytes)[2].head = 254 + n
        /\ Tagged(bytes)[2].pos = 2 /\ Tagged(bytes)[2].len = 2
    BY <2>1, <2>2, <2>5, TaggedIs
  <2>8. Len(s) > 0 /\ IsReport(s[Len(s)], n) /\ s[Len(s)].v = JoyByte(state)
    BY <2>4, <2>6, <2>7 DEF IsReport
  <2>9. Tells(s, n, known, state)
    BY <2>6, <2>8, <2>TellsNew, Zenon
  <2> QED BY <2>9, Zenon DEF s, bytes
\* Joysticks, taken apart.
<1>JoysticksAre.
    Joysticks <=>
      /\ DOMAIN told = 0..1 /\ joy_state \in [0..1 -> SUBSET Switch]
      /\ ~lossy => \A n \in 0..1 : Tells(queue, n, told[n], joy_state[n])
  BY Zenon DEF Joysticks, JoysticksTold, Tells
\* The same after a step.
<1>JoysticksAreNext.
    ASSUME DOMAIN told' = 0..1, joy_state' \in [0..1 -> SUBSET Switch],
           ~lossy' => \A n \in 0..1 : Tells(queue', n, told'[n], joy_state'[n])
    PROVE  Joysticks'
  BY <1>JoysticksAreNext, Zenon DEF Joysticks, JoysticksTold, Tells
\* A packet that is no report joins the queue.
<1>JoyOtherPacket.
    ASSUME IInv, Joysticks, NEW bytes, Packet(bytes), bytes[1] \notin 254..255,
           Enqueue(SendAll(queue, bytes), Len(bytes)), told' = told, joy_state' = joy_state
    PROVE  Joysticks'
  <2> USE <1>JoyOtherPacket
  <2>1. queue \in Seq(Byte) /\ Len(queue) \in Nat /\ Len(bytes) \in 1..8 /\ inbufferlen \in Nat
    BY TaggedIs, LenProperties, ConstantsAssumption DEF IInv, TypeOK
  <2>2. ASSUME ~lossy', NEW n \in 0..1 PROVE Tells(queue', n, told'[n], joy_state'[n])
    <3>1. ~lossy /\ Len(queue) + Len(bytes) < inbufferlen /\ queue' = SendAll(queue, bytes)
      <4>1. ~lossy /\ ~(Len(queue) + Len(bytes) >= inbufferlen) /\ queue' = SendAll(queue, bytes)
        BY <2>2, Zenon DEF Enqueue
      <4> DEFINE l == Len(queue)
                 k == Len(bytes)
      <4>2. l \in Nat /\ k \in 1..8 /\ ~(l + k >= inbufferlen)
        BY <2>1, <4>1, Zenon
      <4> HIDE DEF l, k
      <4>3. l + k < inbufferlen
        BY <2>1, <4>2
      <4> QED BY <4>1, <4>3, Zenon DEF l, k
    <3>2. bytes[1] # 254 + n
      <4>1. 254 + n \in 254..255
        OBVIOUS
      <4> QED BY <4>1
    <3>3. Tells(queue, n, told[n], joy_state[n])
      BY <3>1, <1>JoysticksAre, Zenon
    <3>4. Tells(SendAll(queue, bytes), n, told[n], joy_state[n])
      BY <2>1, <3>1, <3>2, <3>3, <1>TellsPacket, Zenon
    <3> QED BY <3>1, <3>4, Zenon
  <2>3. DOMAIN told' = 0..1 /\ joy_state' \in [0..1 -> SUBSET Switch]
    BY <1>JoysticksAre, Zenon
  <2> QED BY <2>2, <2>3, <1>JoysticksAreNext, ZenonT(30)
\* The state of joystick n is reported.
<1>JoyReported.
    ASSUME IInv, Joysticks, NEW n \in 0..1, NEW state \in SUBSET Switch,
           Enqueue(SendAll(queue, JoyPacket(n, state)), 2),
           told' = told, joy_state' = [joy_state EXCEPT ![n] = state]
    PROVE  Joysticks'
  <2> USE <1>JoyReported
  <2> DEFINE bytes == JoyPacket(n, state)
  <2>1. queue \in Seq(Byte) /\ Len(queue) \in Nat /\ inbufferlen \in Nat
    BY LenProperties, ConstantsAssumption, Zenon DEF IInv, TypeOK
  <2>2. Packet(bytes) /\ Len(bytes) = 2 /\ bytes[1] = 254 + n
    BY PacketsAre DEF JoyPacket
  <2>3. DOMAIN told' = 0..1 /\ joy_state' \in [0..1 -> SUBSET Switch]
    BY <1>JoysticksAre, Zenon
  <2>4. joy_state'[n] = state /\ \A m \in 0..1 : m # n => joy_state'[m] = joy_state[m]
    BY <1>JoysticksAre, Zenon
  <2> HIDE DEF bytes
  <2>5. ASSUME ~lossy', NEW m \in 0..1 PROVE Tells(queue', m, told'[m], joy_state'[m])
    <3>1. ~lossy /\ Len(queue) + 2 < inbufferlen /\ queue' = SendAll(queue, bytes)
      <4>1. ~lossy /\ ~(Len(queue) + 2 >= inbufferlen) /\ queue' = SendAll(queue, bytes)
        BY <2>5, Zenon DEF Enqueue, bytes
      <4> DEFINE l == Len(queue)
      <4>2. l \in Nat /\ ~(l + 2 >= inbufferlen)
        BY <2>1, <4>1, Zenon
      <4> HIDE DEF l
      <4>3. l + 2 < inbufferlen
        BY <2>1, <4>2
      <4> QED BY <4>1, <4>3, Zenon DEF l
    <3>2. CASE m = n
      <4>1. Tells(SendAll(queue, bytes), n, told[n], state)
        BY <2>1, <3>1, <1>TellsReport, Zenon DEF bytes
      <4> QED BY <2>4, <3>1, <3>2, <4>1, Zenon
    <3>3. CASE m # n
      <4>1. bytes[1] # 254 + m
        BY <2>2, <3>3
      <4>2. Tells(queue, m, told[m], joy_state[m])
        BY <3>1, <1>JoysticksAre, Zenon
      <4>3. Tells(SendAll(queue, bytes), m, told[m], joy_state[m])
        BY <2>1, <2>2, <3>1, <4>1, <4>2, <1>TellsPacket, ZenonT(30)
      <4> QED BY <2>4, <3>1, <3>3, <4>3, Zenon
    <3> QED BY <3>2, <3>3, Zenon
  <2> QED BY <2>3, <2>5, <1>JoysticksAreNext, Zenon
\* Keys and the wheel.
<1>KeyJoysticks.
    ASSUME IInv, Joysticks, (\E code \in Scancode : SendKey(code)) \/ EiffelWheel
    PROVE  Joysticks'
  <2> USE <1>KeyJoysticks
  <2>1. ASSUME NEW code \in Scancode, SendKey(code) PROVE Joysticks'
    <3> DEFINE bytes == <<code>>
    <3>1. Enqueue(SendAll(queue, bytes), 1) /\ told' = told /\ joy_state' = joy_state
      BY <2>1, Zenon DEF SendKey, Event, history
    <3>2. Packet(bytes) /\ Len(bytes) = 1 /\ bytes[1] = code /\ code \in 0..245
      BY PacketsAre, ConstantsAssumption
    <3> HIDE DEF bytes
    <3>3. bytes[1] \notin 254..255 /\ Enqueue(SendAll(queue, bytes), Len(bytes))
      BY <3>1, <3>2
    <3>4. Packet(bytes) /\ told' = told /\ joy_state' = joy_state
      BY <3>1, <3>2, Zenon
    <3> QED BY <3>3, <3>4, <1>JoyOtherPacket, Zenon
  <2>2. ASSUME EiffelWheel PROVE Joysticks'
    <3> DEFINE bytes == <<246, 5, 0, 0, 0, 0, 0, 89>>
    <3>1. Enqueue(SendAll(queue, bytes), 8) /\ told' = told /\ joy_state' = joy_state
      BY <2>2, Zenon DEF EiffelWheel, Event, history
    <3>2. Packet(bytes)
      BY PacketsAre, Zenon
    <3>3. Len(bytes) = 8 /\ bytes[1] \notin 254..255
      OBVIOUS
    <3> HIDE DEF bytes
    <3> QED BY <3>1, <3>2, <3>3, <1>JoyOtherPacket, Zenon
  <2> QED BY <2>1, <2>2, Zenon
\* The joysticks.
<1>JoyJoysticks.
    ASSUME IInv, Joysticks, NEW n, NEW state \in SUBSET Switch, JoyChange(n, state)
    PROVE  Joysticks'
  <2> USE <1>JoyJoysticks
  <2>1. /\ Enqueue(SendAll(queue, JoyPacket(n, state)), 2) /\ told' = told
        /\ joy_state' = [joy_state EXCEPT ![n] = state]
    BY Zenon DEF JoyChange, Report, Event, history
  <2>2. n \in 0..1
    BY ConstantsAssumption, ZenonT(30) DEF JoyChange
  <2> QED BY <2>1, <2>2, <1>JoyReported, Zenon
\* The states that the joystick events lead to.
<1>JoyStates.
    ASSUME Joysticks, NEW n \in Joys
    PROVE  /\ \A v : (joy_state[n] \ {"left", "right"})
                        \cup (IF v < 0 THEN {"left"} ELSE {})
                        \cup (IF v > 0 THEN {"right"} ELSE {}) \in SUBSET Switch
           /\ \A v : (joy_state[n] \ {"up", "down"})
                        \cup (IF v < 0 THEN {"up"} ELSE {})
                        \cup (IF v > 0 THEN {"down"} ELSE {}) \in SUBSET Switch
           /\ \A d \in SUBSET {"left", "up"} : (joy_state[n] \cap {"fire"}) \cup d \in SUBSET Switch
           /\ \A p \in BOOLEAN :
                (joy_state[n] \ {"fire"}) \cup (IF p THEN {"fire"} ELSE {}) \in SUBSET Switch
  <2> USE <1>JoyStates
  <2>1. joy_state[n] \in SUBSET Switch
    BY ConstantsAssumption, ZenonT(30) DEF Joysticks
  <2> DEFINE st == joy_state[n]
  <2>2. st \in SUBSET Switch
    BY <2>1, Zenon
  <2> HIDE DEF st
  <2>3. \A v : (st \ {"left", "right"})
                 \cup (IF v < 0 THEN {"left"} ELSE {})
                 \cup (IF v > 0 THEN {"right"} ELSE {}) \in SUBSET Switch
    BY <2>2, Zenon DEF Switch
  <2>4. \A v : (st \ {"up", "down"})
                 \cup (IF v < 0 THEN {"up"} ELSE {})
                 \cup (IF v > 0 THEN {"down"} ELSE {}) \in SUBSET Switch
    BY <2>2, Zenon DEF Switch
  <2>5. \A d \in SUBSET {"left", "up"} : (st \cap {"fire"}) \cup d \in SUBSET Switch
    BY <2>2, Zenon DEF Switch
  <2>6. \A p \in BOOLEAN : (st \ {"fire"}) \cup (IF p THEN {"fire"} ELSE {}) \in SUBSET Switch
    BY <2>2, Zenon DEF Switch
  <2> QED BY <2>3, <2>4, <2>5, <2>6, Zenon DEF st
\* Every joystick event is a change to one of those.
<1>JoyEvents.
    ASSUME IInv, Joysticks,
           \/ \E n \in Joys, value \in -1..1 :
                \/ SendJoystickAxis(n, "left", "right", value)
                \/ SendJoystickAxis(n, "up", "down", value)
           \/ \E n \in Joys, directions \in SUBSET {"left", "up"} : SendJoystickHat(n, directions)
           \/ \E n \in Joys, pressed \in BOOLEAN : SendJoystickButton(n, pressed)
    PROVE  Joysticks'
  <2> USE <1>JoyEvents
  <2>1. \A n : \A state \in SUBSET Switch : JoyChange(n, state) => Joysticks'
    BY <1>JoyJoysticks, Zenon
  <2>2. ASSUME NEW n \in Joys, NEW value \in -1..1, SendJoystickAxis(n, "left", "right", value)
        PROVE  Joysticks'
    BY <2>1, <2>2, <1>JoyStates, Zenon DEF SendJoystickAxis
  <2>3. ASSUME NEW n \in Joys, NEW value \in -1..1, SendJoystickAxis(n, "up", "down", value)
        PROVE  Joysticks'
    BY <2>1, <2>3, <1>JoyStates, Zenon DEF SendJoystickAxis
  <2>4. ASSUME NEW n \in Joys, NEW directions \in SUBSET {"left", "up"}, SendJoystickHat(n, directions)
        PROVE  Joysticks'
    BY <2>1, <2>4, <1>JoyStates, Zenon DEF SendJoystickHat
  <2>5. ASSUME NEW n \in Joys, NEW pressed \in BOOLEAN, SendJoystickButton(n, pressed)
        PROVE  Joysticks'
    BY <2>1, <2>5, <1>JoyStates, Zenon DEF SendJoystickButton
  <2> QED BY <2>2, <2>3, <2>4, <2>5, Zenon
\* The guest reads a byte.
<1>ReadJoysticks.
      IInv /\ Joysticks /\ ReadData => Joysticks'
    \* The guest reads a byte: it knows what a report tells.
  <2>TellsTail.
      ASSUME NEW q \in Seq(Byte), q # <<>>, NEW n \in 0..1, NEW known, NEW state, NEW now,
             Tells(q, n, known, state),
             ~IsReport(q[1], n) => now = known,
             IsReport(q[1], n) /\ q[1].v = JoyByte(state) => now = state
      PROVE  Tells(Tail(q), n, now, state)
    <3> USE <2>TellsTail
    <3> DEFINE t == Tail(q)
    <3>1. /\ t \in Seq(Byte) /\ Len(t) = Len(q) - 1
          /\ \A i \in 1..Len(t) : t[i] = q[i + 1]
      BY HeadTailProperties, Zenon
    <3>2. Len(q) \in Nat \ {0}
      BY EmptySeq, Zenon
    <3> HIDE DEF t
    <3>3. ASSUME NEW f \in Nat, f > 0, Silent(t, f, n) PROVE Silent(q, f + 1, n)
      <4>1. SUFFICES ASSUME NEW k \in (f + 1)..Len(q) PROVE ~IsReport(q[k], n)
        BY Zenon DEF Silent
      <4>2. k - 1 \in f..Len(t) /\ k - 1 \in 1..Len(t) /\ (k - 1) + 1 = k
        BY <3>1, <3>2, <3>3
      <4> QED BY <4>2, <3>1, <3>3, Zenon DEF Silent
    <3>4. ASSUME Silent(t, 1, n) PROVE now = state
      <4>1. Silent(q, 1 + 1, n) /\ 1 \in 1..Len(q)
        BY <3>2, <3>3, <3>4
      <4>2. CASE IsReport(q[1], n)
        BY <4>1, <4>2, Zenon DEF Tells
      <4>3. CASE ~IsReport(q[1], n)
        <5>1. Silent(q, 1, n)
          <6>1. SUFFICES ASSUME NEW k \in 1..Len(q) PROVE ~IsReport(q[k], n)
            BY Zenon DEF Silent
          <6>2. k = 1 \/ k \in (1 + 1)..Len(q)
            BY <3>2
          <6> QED BY <6>2, <4>1, <4>3, Zenon DEF Silent
        <5> QED BY <4>3, <5>1, Zenon DEF Tells
      <4> QED BY <4>2, <4>3, Zenon
    <3>5. ASSUME NEW i \in 1..Len(t), IsReport(t[i], n), Silent(t, i + 1, n)
          PROVE  t[i].v = JoyByte(state)
      <4>1. i + 1 \in Nat /\ i + 1 > 0 /\ i + 1 \in 1..Len(q)
        BY <3>1, <3>2
      <4>2. Silent(q, (i + 1) + 1, n) /\ t[i] = q[i + 1]
        BY <4>1, <3>1, <3>3, <3>5, Zenon
      <4> QED BY <4>1, <4>2, <3>5, Zenon DEF Tells
    <3>6. Tells(t, n, now, state)
      BY <3>4, <3>5, Zenon DEF Tells
    <3> QED BY <3>6, Zenon DEF t
  \* A report tells the state it was made from.
  <2>JoyByteTells.
      ASSUME NEW a \in SUBSET Switch, NEW b \in SUBSET Switch, JoyByte(a) = JoyByte(b)
      PROVE  a = b
    <3> USE <2>JoyByteTells
    <3> DEFINE bit(state, sw) == IF sw \in state THEN Bit[sw] ELSE 0
    <3>1. ASSUME NEW s
          PROVE  JoyByte(s) = bit(s, "up") + bit(s, "down") + bit(s, "left") + bit(s, "right")
                                + bit(s, "fire")
      BY Zenon DEF JoyByte
    <3>2. ASSUME NEW s
          PROVE  /\ bit(s, "up") \in {0, 1} /\ bit(s, "down") \in {0, 2} /\ bit(s, "left") \in {0, 4}
                 /\ bit(s, "right") \in {0, 8} /\ bit(s, "fire") \in {0, 128}
                 /\ ("up" \in s <=> bit(s, "up") = 1) /\ ("down" \in s <=> bit(s, "down") = 2)
                 /\ ("left" \in s <=> bit(s, "left") = 4) /\ ("right" \in s <=> bit(s, "right") = 8)
                 /\ ("fire" \in s <=> bit(s, "fire") = 128)
      BY DEF Bit
    <3> HIDE DEF bit
    <3>3. /\ bit(a, "up") = bit(b, "up") /\ bit(a, "down") = bit(b, "down")
          /\ bit(a, "left") = bit(b, "left") /\ bit(a, "right") = bit(b, "right")
          /\ bit(a, "fire") = bit(b, "fire")
      <4> DEFINE a1 == bit(a, "up")
                 a2 == bit(a, "down")
                 a3 == bit(a, "left")
                 a4 == bit(a, "right")
                 a5 == bit(a, "fire")
                 b1 == bit(b, "up")
                 b2 == bit(b, "down")
                 b3 == bit(b, "left")
                 b4 == bit(b, "right")
                 b5 == bit(b, "fire")
      <4>1. a1 \in {0, 1} /\ a2 \in {0, 2} /\ a3 \in {0, 4} /\ a4 \in {0, 8} /\ a5 \in {0, 128}
        BY <3>2
      <4>2. b1 \in {0, 1} /\ b2 \in {0, 2} /\ b3 \in {0, 4} /\ b4 \in {0, 8} /\ b5 \in {0, 128}
        BY <3>2
      <4>3. a1 + a2 + a3 + a4 + a5 = b1 + b2 + b3 + b4 + b5
        BY <3>1, Zenon
      <4> HIDE DEF a1, a2, a3, a4, a5, b1, b2, b3, b4, b5
      <4>4. a1 = b1 /\ a2 = b2 /\ a3 = b3 /\ a4 = b4 /\ a5 = b5
        BY <4>1, <4>2, <4>3
      <4> QED BY <4>4, Zenon DEF a1, a2, a3, a4, a5, b1, b2, b3, b4, b5
    <3>4. \A sw \in Switch : sw \in a <=> sw \in b
      BY <3>2, <3>3 DEF Switch
    <3> QED BY <3>4, Zenon
  <2> SUFFICES ASSUME IInv, Joysticks, ReadData
             PROVE  Joysticks'
    BY Zenon
  <2> DEFINE byte == queue[1]
             chosen == CHOOSE state \in SUBSET Switch : JoyByte(state) = byte.v
  <2>1. /\ queue \in Seq(Byte) /\ queue # <<>> /\ Head(queue) = queue[1]
        /\ queue' = Tail(queue) /\ lossy' = lossy /\ joy_state' = joy_state
    BY HeadTailProperties DEF IInv, TypeOK, ReadData, Guest
  <2>2. told' = IF byte.len = 2 /\ byte.pos = 2
                THEN [told EXCEPT ![byte.head - 254] = chosen]
                ELSE told
    <3>1. Learn(queue[1])
      BY <2>1, Zenon DEF ReadData
    <3> QED BY <3>1, Zenon DEF Learn
  <2>3. byte \in Byte /\ Placed(byte)
    <3>1. 1 \in 1..Len(queue) /\ queue \in [1..Len(queue) -> Byte]
      BY <2>1, EmptySeq, LenProperties
    <3>2. Placed(queue[1])
      BY <3>1, Zenon DEF IInv, Whole, Chain
    <3> QED BY <3>1, <3>2, Zenon
  <2>4. byte.head \in 0..255
    BY <2>3, Zenon DEF Byte
  <2>5. ASSUME byte.len = 2 PROVE byte.head \in 254..255
    <3>1. PacketLength(byte.head) = 2
      BY <2>3, <2>5, Zenon DEF Placed
    <3> DEFINE h == byte.head
    <3>2. PacketLength(h) = 2 /\ h \in 0..255
      BY <3>1, <2>4, Zenon
    <3> HIDE DEF h
    <3>3. h \in 254..255
      BY <3>2 DEF PacketLength
    <3> QED BY <3>3, Zenon DEF h
  <2>6. ASSUME NEW state \in SUBSET Switch, byte.v = JoyByte(state) PROVE chosen = state
    <3>1. chosen \in SUBSET Switch /\ JoyByte(chosen) = byte.v
      BY <2>6, Zenon
    <3> HIDE DEF chosen
    <3> QED BY <2>6, <3>1, <2>JoyByteTells, Zenon
  <2>7. DOMAIN told = 0..1 /\ joy_state \in [0..1 -> SUBSET Switch]
    BY <1>JoysticksAre, Zenon
  <2> HIDE DEF byte, chosen
  <2>8. DOMAIN told' = 0..1
    BY <2>2, <2>7, Zenon
  <2>9. ASSUME NEW n \in 0..1
        PROVE  told'[n] = IF IsReport(byte, n) THEN chosen ELSE told[n]
    <3>1. CASE byte.len = 2 /\ byte.pos = 2
      <4> DEFINE h == byte.head
      <4>1. h \in 254..255 /\ told' = [told EXCEPT ![h - 254] = chosen]
        BY <3>1, <2>2, <2>5, Zenon
      <4>2. IsReport(byte, n) <=> h = 254 + n
        BY <3>1, Zenon DEF IsReport
      <4> HIDE DEF h
      <4>3. h = 254 + n <=> h - 254 = n
        BY <4>1
      <4> QED BY <4>1, <4>2, <4>3, <2>7
    <3>2. CASE ~(byte.len = 2 /\ byte.pos = 2)
      BY <3>2, <2>2, Zenon DEF IsReport
    <3> QED BY <3>1, <3>2, Zenon
  <2>10. ASSUME ~lossy', NEW n \in 0..1 PROVE Tells(queue', n, told'[n], joy_state'[n])
    <3>1. Tells(queue, n, told[n], joy_state[n]) /\ joy_state[n] \in SUBSET Switch
      BY <2>1, <2>7, <2>10, <1>JoysticksAre, Zenon
    <3>2. /\ ~IsReport(queue[1], n) => told'[n] = told[n]
          /\ IsReport(queue[1], n) /\ queue[1].v = JoyByte(joy_state[n]) => told'[n] = joy_state[n]
      BY <2>6, <2>9, <3>1, Zenon DEF byte
    <3>3. Tells(Tail(queue), n, told'[n], joy_state[n])
      BY <2>1, <3>1, <3>2, <2>TellsTail, Zenon
    <3> QED BY <2>1, <3>3, Zenon
  <2> QED BY <2>1, <2>7, <2>8, <2>10, <1>JoysticksAreNext, Zenon
\* A turn of SendMouseMotion's loop leaves the reports alone.
<1>PartTells.
    ASSUME NEW between \in BOOLEAN, NEW s \in Turn(between),
           NEW x \in Int, NEW y \in Int, NEW b \in 0..3, NEW slow,
           NEW n \in 0..1, NEW known, NEW state, ~s.lost => Tells(s.q, n, known, state),
           ~SendPart(s, x, y, b, slow).lost
    PROVE  Tells(SendPart(s, x, y, b, slow).q, n, known, state)
  <2> USE <1>PartTells
  <2> DEFINE r == SendPart(s, x, y, b, slow)
             merge == PartMerges(s, x, y, b, slow)
             q == PartQueue(s, x, y, b, slow)
             bytes == PartBytes(s, x, y, b, slow)
             lost == (s.lost \/ Len(q) + 3 >= inbufferlen)
             sent == SendAll(q, bytes)
  <2>1. PartSends(s, between, r, merge, q, bytes, b)
    BY SendPartSends, Zenon
  <2>2. ASSUME merge, NEW k \in 1..3 PROVE s.q[Len(s.q) - 3 + k].len = 3 /\ Len(s.q) > 3
    BY <2>2, MergeTakes, ZenonT(30)
  <2>3. s.q \in Seq(Byte) /\ Len(s.q) \in Nat /\ inbufferlen \in Nat
    BY LenProperties, ConstantsAssumption, Zenon DEF Turn
  <2>4. ~r.lost
    BY Zenon
  <2> HIDE DEF r, merge, q, bytes
  <2>5. r = [q |-> sent, type |-> "mouse", lost |-> lost]
    BY <2>1, Zenon DEF PartSends
  <2>6. /\ Packet(bytes) /\ Len(bytes) = 3 /\ bytes[1] = 248 + b
        /\ q \in Seq(Byte) /\ Len(q) \in Nat
        /\ (merge => Len(q) = Len(s.q) - 3 /\ \A i \in 1..Len(q) : q[i] = s.q[i])
        /\ (~merge => q = s.q)
    BY <2>1, LenProperties, Zenon DEF PartSends
  <2> HIDE DEF sent, lost
  <2>7. r.q = sent /\ ~lost
    BY <2>4, <2>5, ZenonT(30)
  <2>8. ~s.lost /\ Len(q) + Len(bytes) < inbufferlen
    <3>1. ~s.lost /\ ~(Len(q) + 3 >= inbufferlen)
      BY <2>7, ZenonT(30) DEF lost
    <3> QED BY <3>1, <2>3, <2>6
  <2>9. Tells(q, n, known, state)
    <3>1. CASE merge
      <4> DEFINE m == Len(q)
      <4>1. m \in Nat /\ Len(s.q) = m + 3
        BY <3>1, <2>3, <2>6
      <4>2. m <= Len(q) /\ m <= Len(s.q) /\ \A i \in 1..m : q[i] = s.q[i]
        BY <3>1, <2>6, <4>1, SMTT(30)
      <4>3. Silent(q, m + 1, n)
        BY <2>6 DEF Silent
      <4> HIDE DEF m
      <4>4. Silent(s.q, m + 1, n)
        <5>1. SUFFICES ASSUME NEW k \in (m + 1)..Len(s.q) PROVE ~IsReport(s.q[k], n)
          BY Zenon DEF Silent
        <5>2. k - m \in 1..3 /\ Len(s.q) - 3 + (k - m) = k
          BY <4>1, SMTT(30)
        <5>3. s.q[k].len = 3
          BY <5>2, <3>1, <2>2, Zenon
        <5> QED BY <5>3 DEF IsReport
      <4>5. Tells(s.q, n, known, state)
        BY <2>8, Zenon
      <4> QED BY <4>1, <4>2, <4>3, <4>4, <4>5, <2>3, <2>6, <1>TellsSame, SMTT(30)
    <3>2. CASE ~merge
      BY <3>2, <2>6, <2>8, ZenonT(30)
    <3> QED BY <3>1, <3>2, ZenonT(30)
  <2>10. bytes[1] # 254 + n
    BY <2>6, SMTT(30)
  <2>11. Tells(sent, n, known, state)
    BY <2>6, <2>8, <2>9, <2>10, <1>TellsPacket, ZenonT(30) DEF sent
  <2> QED BY <2>7, <2>11, Zenon DEF r
\* The mouse.
<1>MouseJoysticks.
    ASSUME IInv, Joysticks, NEW e \in Motion, SendMouseMotion(e)
    PROVE  Joysticks'
  <2> USE <1>MouseJoysticks
  <2> DEFINE step == IF e.slow THEN 1 ELSE MOUSE_DELTA_MAX
             n == Parts(e, step)
             a == [q |-> queue, type |-> intype, lost |-> lossy]
             sent == MotionLoop(n, a, e, step)[n]
             All(q) == \A j \in 0..1 : Tells(q, j, told[j], joy_state[j])
             S == {s \in Turn(Between) : ~s.lost => All(s.q)}
  <2>1. queue' = sent.q /\ lossy' = sent.lost /\ told' = told /\ joy_state' = joy_state
    BY SMTT(30) DEF SendMouseMotion, MotionLoop, Event, history
  <2>2. step \in {1, 63}
    BY Zenon DEF MOUSE_DELTA_MAX
  <2> HIDE DEF step
  <2>3. /\ n \in Nat /\ n > 0
        /\ \A i \in Nat : Part(e.x, step, i) \in Int /\ Part(e.y, step, i) \in Int
    BY <2>2, PartsAre
  <2>4. e.b \in 0..3 /\ Between \in BOOLEAN
    BY ConstantsAssumption DEF Between
  <2>5. a \in Turn(Between) /\ a.q = queue /\ a.lost = lossy
    BY Zenon DEF IInv, TypeOK, Turn
  <2>6. DOMAIN told = 0..1 /\ joy_state \in [0..1 -> SUBSET Switch] /\ (~lossy => All(queue))
    BY <1>JoysticksAre, Zenon
  <2> HIDE DEF n, a
  <2>7. a \in S
    <3> HIDE DEF All
    <3> QED BY <2>5, <2>6, Zenon
  <2>8. ASSUME NEW i \in 1..n, NEW s \in S
        PROVE  SendPart(s, Part(e.x, step, i), Part(e.y, step, i), e.b, e.slow) \in S
    <3> DEFINE x == Part(e.x, step, i)
               y == Part(e.y, step, i)
               r == SendPart(s, x, y, e.b, e.slow)
    <3>1. x \in Int /\ y \in Int
      BY <2>3, SMTT(30)
    <3>2. s \in Turn(Between) /\ (~s.lost => All(s.q))
      BY Zenon
    <3> HIDE DEF x, y
    <3>3. r \in Turn(Between)
      BY <2>4, <3>1, <3>2, SendPartIs, Zenon
    <3>4. ASSUME ~r.lost, NEW j \in 0..1 PROVE Tells(r.q, j, told[j], joy_state[j])
      BY <2>4, <3>1, <3>2, <3>4, <1>PartTells, ZenonT(30)
    <3>5. ~r.lost => All(r.q)
      BY <3>4, ZenonT(30)
    <3> HIDE DEF r, All
    <3>6. r \in S
      BY <3>3, <3>5, Zenon
    <3> QED BY <3>6, ZenonT(30) DEF r, x, y
  <2> HIDE DEF S
  <2>9. sent \in S
    <3>1. \A i \in 0..n : MotionLoop(n, a, e, step)[i] \in S
      BY <2>3, <2>7, <2>8, MotionLoopIs, ZenonT(30)
    <3>2. n \in 0..n
      BY <2>3, SMTT(30)
    <3> QED BY <3>1, <3>2, Zenon
  <2> HIDE DEF sent
  <2>10. ~lossy' => All(queue')
    <3> HIDE DEF All
    <3> QED BY <2>1, <2>9, Zenon DEF S
  <2> QED BY <2>1, <2>6, <2>10, <1>JoysticksAreNext, Zenon
\* The keyboard begins anew, with an empty queue or with the answer to the reset.
<1>ResetJoysticks.
    ASSUME IInv, NEW q, Anew(q), reset(q)
    PROVE  Joysticks'
  <2> USE <1>ResetJoysticks
  <2>1. /\ queue' = q /\ told' = [n \in 0..1 |-> {}] /\ joy_state' = [n \in 0..1 |-> {}]
    BY Zenon DEF reset
  <2>2. DOMAIN told' = 0..1 /\ joy_state' \in [0..1 -> SUBSET Switch]
    BY <2>1, Zenon
  <2>3. \A n \in 0..1 : told'[n] = {} /\ joy_state'[n] = {}
    BY <2>1, Zenon
  <2> DEFINE none == <<>>
  <2>4. none \in Seq(Byte) /\ Len(none) = 0
    BY EmptySeq, Zenon
  <2> DEFINE bytes == <<241>>
  <2>5. Packet(bytes) /\ Len(bytes) = 1 /\ bytes[1] = 241
    BY PacketsAre, Zenon
  <2>6. q = none \/ q = SendAll(none, bytes)
    BY Zenon DEF Anew
  <2> HIDE DEF none, bytes
  <2>7. ASSUME NEW n \in 0..1 PROVE Tells(q, n, {}, {})
    <3>1. Tells(none, n, {}, {})
      BY <2>4, SMTT(30) DEF Tells
    <3>2. bytes[1] # 254 + n /\ Len(none) + Len(bytes) < inbufferlen
      BY <2>4, <2>5, ConstantsAssumption, SMTT(30)
    <3>3. Tells(SendAll(none, bytes), n, {}, {})
      <4>1. none \in Seq(Byte) /\ Packet(bytes)
        BY <2>4, <2>5, Zenon
      <4> QED BY <3>1, <3>2, <4>1, <1>TellsPacket, Zenon
    <3> QED BY <2>6, <3>1, <3>3, Zenon
  <2> QED BY <2>1, <2>2, <2>3, <2>7, <1>JoysticksAreNext, Zenon
\* The guest writes a byte of a command.
<1>WriteJoysticks.
    ASSUME IInv, Joysticks, NEW b, WriteData(b)
    PROVE  Joysticks'
  <2> USE <1>WriteJoysticks
  <2> DEFINE out == Append(outbuffer, b)
  <2>1. \/ Collect(out) \/ Configure(out)
        \/ Answer(out) /\ Answered(out)
        \/ reset(SendAll(<<>>, <<241>>))
    BY ZenonT(30) DEF WriteData
  <2> HIDE DEF out
  <2>2. CASE Collect(out) \/ Configure(out)
    <3>1. queue' = queue /\ told' = told /\ joy_state' = joy_state /\ lossy' = lossy
      BY <2>2, Zenon DEF Collect, Configure, line, history
    <3> QED BY <3>1, <1>JoysticksAre, <1>JoysticksAreNext, Zenon
  <2>3. CASE Answer(out) /\ Answered(out)
    <3>1. /\ told' = told /\ joy_state' = joy_state
          /\ Enqueue(Reply(out), IF out = <<22>> THEN 2 ELSE 7)
      BY <2>3, Zenon DEF Answer, history
    <3>2. CASE out = <<22>>
      <4> DEFINE state == joy_state[1]
      <4>1. Enqueue(SendAll(queue, JoyPacket(1, state)), 2)
        BY <3>1, <3>2, Zenon DEF Reply
      <4>2. state \in SUBSET Switch /\ joy_state' = [joy_state EXCEPT ![1] = state] /\ 1 \in 0..1
        BY <3>1, <1>JoysticksAre
      <4> HIDE DEF state
      <4> QED BY <3>1, <4>1, <4>2, <1>JoyReported, Zenon
    <3>3. CASE out # <<22>>
      <4> DEFINE bytes == ClockReply
      <4>1. Enqueue(SendAll(queue, bytes), 7)
        BY <3>1, <3>3, Zenon DEF Reply
      <4>2. Packet(bytes)
        BY PacketsAre, Zenon
      <4>3. Len(bytes) = 7 /\ bytes[1] \notin 254..255
        BY DEF ClockReply
      <4> HIDE DEF bytes
      <4>4. Enqueue(SendAll(queue, bytes), Len(bytes)) /\ bytes[1] \notin 254..255
        BY <4>1, <4>3, Zenon
      <4> QED BY <3>1, <4>2, <4>4, <1>JoyOtherPacket, Zenon
    <3> QED BY <3>2, <3>3, Zenon
  <2>4. CASE reset(SendAll(<<>>, <<241>>))
    BY <2>4, <1>ResetJoysticks, Zenon DEF Anew
  <2> QED BY <2>1, <2>2, <2>3, <2>4, Zenon
<1>1. Init => Joysticks
  <2> SUFFICES ASSUME Init PROVE Joysticks
    BY Zenon
  <2>1. /\ queue = <<>> /\ Len(queue) = 0
        /\ told = [n \in 0..1 |-> {}] /\ joy_state = [n \in 0..1 |-> {}]
    BY EmptySeq, Zenon DEF Init
  <2>2. DOMAIN told = 0..1 /\ joy_state \in [0..1 -> SUBSET Switch]
    BY <2>1, Zenon
  <2>3. ASSUME NEW n \in 0..1 PROVE Tells(queue, n, told[n], joy_state[n])
    BY <2>1 DEF Tells
  <2> QED BY <2>2, <2>3, <1>JoysticksAre, Zenon
<1>2. IInv /\ Joysticks /\ [Next]_vars => Joysticks'
  <2> SUFFICES ASSUME IInv, Joysticks, [Next]_vars PROVE Joysticks'
    BY Zenon
  <2>1. CASE HostEvent
    BY <2>1, <1>KeyJoysticks, <1>MouseJoysticks, <1>JoyEvents, Zenon DEF HostEvent
  <2>2. CASE GuestStep
    <3>1. ASSUME \/ ReadNothing \/ TakeInterrupt \/ ACIAReset
                 \/ \E on \in Enables : WriteIER(on) \/ WriteControl(on)
          PROVE  Joysticks'
      <4>1. queue' = queue /\ told' = told /\ joy_state' = joy_state /\ lossy' = lossy
        BY <3>1, Zenon
           DEF ReadNothing, TakeInterrupt, ACIAReset, WriteIER, WriteControl, Guest, history
      <4> QED BY <4>1, <1>JoysticksAre, <1>JoysticksAreNext, Zenon
    <3> QED BY <2>2, <3>1, <1>ReadJoysticks, <1>WriteJoysticks, Zenon DEF GuestStep
  <2>3. CASE HWReset
    BY <2>3, <1>ResetJoysticks, Zenon DEF HWReset, Anew
  <2>4. CASE UNCHANGED vars
    <3>1. queue' = queue /\ told' = told /\ joy_state' = joy_state /\ lossy' = lossy
      BY <2>4, Zenon DEF vars, history
    <3> QED BY <3>1, <1>JoysticksAre, <1>JoysticksAreNext, Zenon
  <2> QED BY <2>1, <2>2, <2>3, <2>4, Zenon DEF Next
<1>3. Joysticks => JoysticksTold
  BY Zenon DEF Joysticks
<1> QED BY <1>1, <1>2, <1>3, Invariance, PTL DEF Spec

(***************************************************************************)
(* The sum of the motions in a queue.                                      *)
(***************************************************************************)
\* The loop of Total.
SumLoop(n, q, place) ==
  CHOOSE f : f = [i \in 0..n |-> IF i = 0 THEN 0 ELSE f[i - 1] + Moved(q[i], place)]

\* t begins as q does after its first d bytes.
Stretch(q, t, d, m) == \A i \in 1..m : t[i] = q[i + d]

\* What has been sent of a motion after i parts.
Done(rel, step, i) == (IF rel < 0 THEN -1 ELSE 1) * Smaller(Abs(rel), i * step)

\* The i-th part is small, and brings the motion on by as much.
Advances(rel, step, i) ==
  /\ Part(rel, step, i) \in Int /\ Part(rel, step, i) <= 63 /\ -63 <= Part(rel, step, i)
  /\ Done(rel, step, i) = Done(rel, step, i - 1) + Part(rel, step, i)
  /\ Done(rel, step, i - 1) \in Int

\* Along one axis: the motion fits with what the packet at the queue's end told, when
\* MergeMousePacket takes that packet back.
AxisFits(s, x, y, b, slow, move, place) ==
  PartMerges(s, x, y, b, slow) => Abs(move + s.q[Len(s.q) - 3 + place].v) <= 63

\* Along one axis: the queue that MergeMousePacket leaves and the byte sent tell what the
\* queue told before and the new motion.
AxisTells(s, x, y, b, slow, move, place, sent) ==
  Total(PartQueue(s, x, y, b, slow), place) + Signed(sent % 256) = Total(s.q, place) + move

(***************************************************************************)
(* The motion, action by action.                                           *)
(***************************************************************************)
\* The queue tells the balance.
Told(q, bal) == bal.x = Total(q, 2) /\ bal.y = Total(q, 3)

\* No mouse motion is lost or told twice as long as the ring has room: what the host
\* reported to SendMouseMotion and the guest has not read is what the packets in the
\* queue tell, split, merged and encoded in bytes as they are.  The guest must not
\* reverse the Y axis, after which MergeMousePacket adds a reversed motion.
THEOREM MotionIsConserved ==
  ASSUME 15 \notin Command
  PROVE  Spec => []MotionConserved
\* A byte tells a number.
<1>MovedIs.
    ASSUME NEW q \in Seq(Byte), NEW place, NEW i \in 1..Len(q)
    PROVE  Moved(q[i], place) \in Int
  <2> USE <1>MovedIs
  <2>1. q[i] \in Byte
    BY LenProperties, Zenon
  <2>2. q[i].v \in 0..255
    BY <2>1, Zenon DEF Byte
  <2>3. \A v \in 0..255 : Signed(v) \in Int
    BY DEF Signed
  <2>4. Moved(q[i], place) = Signed(q[i].v) \/ Moved(q[i], place) = 0
    BY Zenon DEF Moved
  <2>5. Signed(q[i].v) \in Int
    BY <2>2, <2>3, Zenon
  <2>6. 0 \in Int
    OBVIOUS
  <2> QED BY <2>4, <2>5, <2>6, Zenon
\* Total is the last of the partial sums.
<1>TotalIs.
      \A q \in Seq(Byte) : \A place :
              /\ Total(q, place) = SumLoop(Len(q), q, place)[Len(q)]
              /\ Total(q, place) \in Int
              /\ SumLoop(Len(q), q, place)[0] = 0
              /\ \A i \in 0..Len(q) : SumLoop(Len(q), q, place)[i] \in Int
              /\ \A i \in 1..Len(q) : SumLoop(Len(q), q, place)[i]
                   = SumLoop(Len(q), q, place)[i - 1] + Moved(q[i], place)
    \* The partial sums are what the loop says.
  <2>SumLoopIs.
      ASSUME NEW n \in Nat, NEW q, NEW place, \A i \in 1..n : Moved(q[i], place) \in Int
      PROVE  /\ SumLoop(n, q, place)[0] = 0
             /\ \A i \in 0..n : SumLoop(n, q, place)[i] \in Int
             /\ \A i \in 1..n :
                  SumLoop(n, q, place)[i] = SumLoop(n, q, place)[i - 1] + Moved(q[i], place)
    <3> USE <2>SumLoopIs
    <3> DEFINE v(i) == Moved(q[i], place)
               F == SumLoop(n, q, place)
               Runs(f) == f = [i \in 0..n |-> IF i = 0 THEN 0 ELSE f[i - 1] + v(i)]
    <3>1. F = CHOOSE f : Runs(f)
      BY Zenon DEF SumLoop
    <3>2. \A i \in 1..n : v(i) \in Int
      BY Zenon
    <3> HIDE DEF v, F
    <3> DEFINE g == [x \in (1..n) \X Int |-> x[2] + v(x[1])]
    <3>3. g \in [(1..n) \X Int -> Int]
      BY <3>2
    <3>4. \A i \in 1..n : \A s \in Int : g[<<i, s>>] = s + v(i)
      BY Zenon
    <3> HIDE DEF g
    <3>5. HasLoop(n, Int, 0, g)
      <4>1. 0 \in Int
        OBVIOUS
      <4> QED BY <3>3, <4>1, LoopDefined, Zenon
    <3>6. PICK f \in [0..n -> Int] : Loops(f, n, 0, g)
      BY <3>5, Zenon DEF HasLoop
    <3>7. \A i \in 0..n : i # 0 => i \in 1..n /\ i - 1 \in 0..n
      OBVIOUS
    <3>8. \A i \in 0..n : f[i] = IF i = 0 THEN 0 ELSE f[i - 1] + v(i)
      BY <3>4, <3>6, <3>7, Zenon DEF Loops
    <3>9. Runs(f)
      BY <3>8, Zenon
    <3>10. Runs(F)
      <4> HIDE DEF Runs
      <4> QED BY <3>1, <3>9, Zenon
    <3>11. F[0] = 0 /\ \A i \in 1..n : F[i] = F[i - 1] + v(i)
      <4>1. 0 \in 0..n /\ \A i \in 1..n : i \in 0..n /\ i # 0
        OBVIOUS
      <4>2. F = [i \in 0..n |-> IF i = 0 THEN 0 ELSE F[i - 1] + v(i)]
        BY <3>10, Zenon
      <4> QED BY <4>1, <4>2, Zenon
    <3> HIDE DEF Runs
    <3> DEFINE T == {i \in 0..n : F[i] \in Int}
    <3>12. 0 \in T
      BY <3>11
    <3>13. ASSUME NEW i \in 1..n, i - 1 \in T PROVE i \in T
      <4>1. F[i - 1] \in Int /\ F[i] = F[i - 1] + v(i) /\ v(i) \in Int
        BY <3>2, <3>11, <3>13, Zenon
      <4> QED BY <4>1
    <3>14. \A i \in 0..n : i \in T
      <4> HIDE DEF T
      <4> QED BY <3>12, <3>13, Climb, Zenon
    <3>15. \A i \in 0..n : F[i] \in Int
      BY <3>14, Zenon
    <3> QED BY <3>11, <3>15, Zenon DEF F, v
  <2> SUFFICES ASSUME NEW q \in Seq(Byte), NEW place
             PROVE  /\ Total(q, place) = SumLoop(Len(q), q, place)[Len(q)]
                    /\ Total(q, place) \in Int
                    /\ SumLoop(Len(q), q, place)[0] = 0
                    /\ \A i \in 0..Len(q) : SumLoop(Len(q), q, place)[i] \in Int
                    /\ \A i \in 1..Len(q) : SumLoop(Len(q), q, place)[i]
                         = SumLoop(Len(q), q, place)[i - 1] + Moved(q[i], place)
    BY Zenon
  <2> DEFINE n == Len(q)
  <2>1. n \in Nat /\ \A i \in 1..n : Moved(q[i], place) \in Int
    BY <1>MovedIs, LenProperties, Zenon
  <2>2. Total(q, place) = SumLoop(n, q, place)[n]
    BY Zenon DEF Total, SumLoop
  <2> HIDE DEF n
  <2>3. /\ SumLoop(n, q, place)[0] = 0
        /\ \A i \in 0..n : SumLoop(n, q, place)[i] \in Int
        /\ \A i \in 1..n : SumLoop(n, q, place)[i] = SumLoop(n, q, place)[i - 1] + Moved(q[i], place)
    BY <2>1, <2>SumLoopIs
  <2>4. n \in 0..n
    BY <2>1
  <2> QED BY <2>2, <2>3, <2>4, Zenon DEF n
\* The partial sums of a stretch of a queue.
<1>SumShift.
    ASSUME NEW q \in Seq(Byte), NEW t \in Seq(Byte), NEW place, NEW d \in Nat,
           NEW m \in Nat, m <= Len(t), m + d <= Len(q), Stretch(q, t, d, m)
    PROVE  \A i \in 0..m : SumLoop(Len(t), t, place)[i]
             = SumLoop(Len(q), q, place)[i + d] - SumLoop(Len(q), q, place)[d]
  <2> USE <1>SumShift
  <2> DEFINE F == SumLoop(Len(q), q, place)
             G == SumLoop(Len(t), t, place)
             T == {i \in 0..m : G[i] = F[i + d] - F[d]}
  <2>1. Len(q) \in Nat /\ Len(t) \in Nat
    BY LenProperties, Zenon
  <2>2. /\ \A i \in 0..Len(q) : F[i] \in Int
        /\ \A i \in 1..Len(q) : F[i] = F[i - 1] + Moved(q[i], place)
    BY <1>TotalIs, Zenon
  <2>3. G[0] = 0 /\ \A i \in 1..Len(t) : G[i] = G[i - 1] + Moved(t[i], place)
    BY <1>TotalIs, Zenon
  <2> HIDE DEF F, G
  <2>4. 0 \in T
    <3>1. F[d] \in Int
      BY <2>1, <2>2
    <3>2. 0 + d = d
      OBVIOUS
    <3> QED BY <2>3, <3>1, <3>2
  <2>5. ASSUME NEW i \in 1..m, i - 1 \in T PROVE i \in T
    <3>1. /\ i \in 1..Len(t) /\ i + d \in 1..Len(q) /\ (i + d) - 1 = (i - 1) + d
          /\ (i + d) - 1 \in 0..Len(q) /\ d \in 0..Len(q)
      BY <2>1
    <3>2. G[i - 1] = F[(i + d) - 1] - F[d]
      BY <2>5, <3>1, Zenon
    <3>3. G[i] = G[i - 1] + Moved(t[i], place) /\ F[i + d] = F[(i + d) - 1] + Moved(q[i + d], place)
      BY <2>2, <2>3, <3>1, Zenon
    <3>4. F[(i + d) - 1] \in Int /\ F[d] \in Int /\ Moved(q[i + d], place) \in Int /\ t[i] = q[i + d]
      BY <2>2, <3>1, <1>MovedIs, Zenon DEF Stretch
    <3> DEFINE f1 == F[(i + d) - 1]
               f0 == F[d]
               u == Moved(q[i + d], place)
    <3>5. f1 \in Int /\ f0 \in Int /\ u \in Int /\ G[i] = (f1 - f0) + u /\ F[i + d] = f1 + u
      BY <3>2, <3>3, <3>4, Zenon
    <3> HIDE DEF f1, f0, u
    <3>6. G[i] = F[i + d] - f0
      BY <3>5
    <3> QED BY <3>6 DEF f0
  <2>6. \A i \in 0..m : i \in T
    <3> HIDE DEF T
    <3> QED BY <2>4, <2>5, Climb, Zenon
  <2> QED BY <2>6, Zenon DEF F, G
\* What the end of a queue adds to what is before it.
<1>TotalPrefix.
    ASSUME NEW p \in Seq(Byte), NEW t \in Seq(Byte), NEW place, Len(p) <= Len(t),
           \A i \in 1..Len(p) : t[i] = p[i]
    PROVE  SumLoop(Len(t), t, place)[Len(p)] = Total(p, place)
  <2> USE <1>TotalPrefix
  <2> DEFINE m == Len(p)
             F == SumLoop(Len(t), t, place)
             G == SumLoop(Len(p), p, place)
  <2>1. m \in Nat /\ m <= Len(p) /\ m + 0 <= Len(t) /\ m <= Len(t) /\ m \in 0..m /\ 0 \in Nat
    BY LenProperties
  <2>2. Stretch(t, p, 0, m)
    BY DEF Stretch
  <2>3. \A i \in 0..m : G[i] = F[i + 0] - F[0]
    BY <2>1, <2>2, <1>SumShift
  <2>4. F[0] = 0 /\ \A i \in 0..Len(t) : F[i] \in Int
    BY <1>TotalIs, Zenon
  <2>5. Total(p, place) = G[m]
    BY <1>TotalIs, Zenon
  <2>6. m \in 0..Len(t) /\ m + 0 = m
    BY <2>1, LenProperties
  <2> HIDE DEF m, F, G
  <2>7. G[m] = F[m] - 0 /\ F[m] \in Int
    BY <2>1, <2>3, <2>4, <2>6, Zenon
  <2>8. F[m] = Total(p, place)
    BY <2>5, <2>7
  <2> QED BY <2>8, Zenon DEF F, m
\* Bytes of other packets tell no motion.
<1>TotalSame.
    ASSUME NEW p \in Seq(Byte), NEW t \in Seq(Byte), NEW place, Len(p) <= Len(t),
           \A i \in 1..Len(p) : t[i] = p[i],
           \A i \in (Len(p) + 1)..Len(t) : Moved(t[i], place) = 0
    PROVE  Total(t, place) = Total(p, place)
  <2> USE <1>TotalSame
  <2> DEFINE m == Len(p)
             n == Len(t) - Len(p)
             F == SumLoop(Len(t), t, place)
             T == {k \in 0..n : F[m + k] = Total(p, place)}
  <2>1. m \in Nat /\ Len(t) \in Nat /\ n \in Nat /\ m + n = Len(t) /\ m + 0 = m
    BY LenProperties
  <2>2. /\ \A i \in 0..Len(t) : F[i] \in Int
        /\ \A i \in 1..Len(t) : F[i] = F[i - 1] + Moved(t[i], place)
        /\ Total(t, place) = F[Len(t)]
    BY <1>TotalIs, Zenon
  <2>3. F[m] = Total(p, place)
    BY <1>TotalPrefix, Zenon
  <2>4. \A i \in (m + 1)..Len(t) : Moved(t[i], place) = 0
    BY Zenon
  <2> HIDE DEF m, n, F
  <2>5. 0 \in T
    BY <2>1, <2>3
  <2>6. ASSUME NEW k \in 1..n, k - 1 \in T PROVE k \in T
    <3>1. /\ m + k \in 1..Len(t) /\ m + k \in (m + 1)..Len(t) /\ (m + k) - 1 = m + (k - 1)
          /\ (m + k) - 1 \in 0..Len(t)
      BY <2>1
    <3>2. F[m + k] = F[(m + k) - 1] + 0 /\ F[(m + k) - 1] \in Int
      BY <2>2, <2>4, <3>1, Zenon
    <3>3. F[(m + k) - 1] = Total(p, place)
      BY <2>6, <3>1, Zenon
    <3>4. F[m + k] = Total(p, place)
      BY <3>2, <3>3
    <3> QED BY <3>4
  <2>7. \A k \in 0..n : k \in T
    <3> HIDE DEF T
    <3> QED BY <2>1, <2>5, <2>6, Climb, Zenon
  <2>8. n \in 0..n
    BY <2>1
  <2>9. F[m + n] = Total(p, place)
    BY <2>7, <2>8, Zenon
  <2> QED BY <2>1, <2>2, <2>9, Zenon
\* A turn of SendMouseMotion's loop adds the part's motion to what the queue tells.
<1>PartMoves.
      \A between \in BOOLEAN : \A s \in Turn(between), x \in Int, y \in Int, b \in 0..3 : \A slow :
          x <= 63 /\ -63 <= x /\ y <= 63 /\ -63 <= y /\ ~yaxis_reversed /\ ~SendPart(s, x, y, b, slow).lost =>
              /\ ~s.lost
              /\ Total(SendPart(s, x, y, b, slow).q, 2) = Total(s.q, 2) + x
              /\ Total(SendPart(s, x, y, b, slow).q, 3) = Total(s.q, 3) + y
    \* Three bytes more.
  <2>TotalThree.
      ASSUME NEW p \in Seq(Byte), NEW t \in Seq(Byte), NEW place, Len(t) = Len(p) + 3,
             \A i \in 1..Len(p) : t[i] = p[i]
      PROVE  Total(t, place) = Total(p, place) + Moved(t[Len(p) + 1], place)
                                 + Moved(t[Len(p) + 2], place) + Moved(t[Len(p) + 3], place)
    <3> USE <2>TotalThree
    <3> DEFINE m == Len(p)
               F == SumLoop(Len(t), t, place)
               a == Moved(t[m + 1], place)
               b == Moved(t[m + 2], place)
               c == Moved(t[m + 3], place)
    <3>1. m \in Nat /\ Len(t) = m + 3 /\ Len(p) <= Len(t)
      BY LenProperties
    <3>2. /\ \A i \in 1..Len(t) : F[i] = F[i - 1] + Moved(t[i], place)
          /\ Total(t, place) = F[Len(t)]
      BY <1>TotalIs, Zenon
    <3>3. F[m] = Total(p, place) /\ Total(p, place) \in Int
      BY <3>1, <1>TotalPrefix, <1>TotalIs
    <3>4. /\ m + 1 \in 1..Len(t) /\ m + 2 \in 1..Len(t) /\ m + 3 \in 1..Len(t)
          /\ (m + 1) - 1 = m /\ (m + 2) - 1 = m + 1 /\ (m + 3) - 1 = m + 2
      BY <3>1
    <3>5. a \in Int /\ b \in Int /\ c \in Int
      BY <3>4, <1>MovedIs, Zenon
    <3>6. F[m + 1] = F[m] + a /\ F[m + 2] = F[m + 1] + b /\ F[m + 3] = F[m + 2] + c
      BY <3>2, <3>4, Zenon
    <3> HIDE DEF F, a, b, c
    <3>7. F[m + 3] = Total(p, place) + a + b + c
      BY <3>3, <3>5, <3>6, ZenonT(30)
    <3> QED BY <3>1, <3>2, <3>7, Zenon DEF a, b, c
  \* A mouse packet at the end of a queue.
  <2>TotalMouse.
      ASSUME NEW p \in Seq(Byte), NEW t \in Seq(Byte), NEW place \in 2..3, Len(t) = Len(p) + 3,
             \A i \in 1..Len(p) : t[i] = p[i],
             \A k \in 1..3 : t[Len(p) + k].pos = k /\ t[Len(p) + k].len = 3
      PROVE  Total(t, place) = Total(p, place) + Signed(t[Len(p) + place].v)
    <3> USE <2>TotalMouse
    <3> DEFINE m == Len(p)
               mv(k) == Moved(t[m + k], place)
    <3>1. Total(t, place) = Total(p, place) + mv(1) + mv(2) + mv(3)
      BY <2>TotalThree, SMTT(30)
    <3>2. m \in Nat /\ Total(p, place) \in Int
      BY LenProperties, <1>TotalIs, Zenon
    <3>3. ASSUME NEW k \in 1..3 PROVE mv(k) = IF k = place THEN Signed(t[m + k].v) ELSE 0
      <4>1. t[m + k].pos = k /\ t[m + k].len = 3
        BY Zenon
      <4> QED BY <4>1, Zenon DEF Moved
    <3>4. ASSUME NEW k \in 1..3 PROVE mv(k) \in Int
      <4>1. m + k \in 1..Len(t)
        BY <3>2
      <4> QED BY <4>1, <1>MovedIs, Zenon
    <3> HIDE DEF mv
    <3>5. CASE place = 2
      <4>1. mv(1) = 0 /\ mv(2) = Signed(t[m + 2].v) /\ mv(3) = 0 /\ mv(2) \in Int
        BY <3>3, <3>4, <3>5
      <4>2. Total(t, place) = Total(p, place) + mv(2)
        BY <3>1, <3>2, <4>1
      <4> QED BY <3>5, <4>1, <4>2, Zenon
    <3>6. CASE place = 3
      <4>1. mv(1) = 0 /\ mv(2) = 0 /\ mv(3) = Signed(t[m + 3].v) /\ mv(3) \in Int
        BY <3>3, <3>4, <3>6
      <4>2. Total(t, place) = Total(p, place) + mv(3)
        BY <3>1, <3>2, <4>1
      <4> QED BY <3>6, <4>1, <4>2, Zenon
    <3> QED BY <3>5, <3>6
  \* A mouse packet is sent, and there is room for it.
  <2>PacketMoves.
      ASSUME NEW q \in Seq(Byte), NEW bytes, Packet(bytes), Len(bytes) = 3,
             Len(q) + 3 < inbufferlen, NEW place \in 2..3
      PROVE  Total(SendAll(q, bytes), place) = Total(q, place) + Signed(bytes[place])
    <3> USE <2>PacketMoves
    <3> DEFINE t == SendAll(q, bytes)
    <3>1. Grown(t, q, bytes, 3)
      BY SendAllGrows, Zenon
    <3> HIDE DEF t
    <3>2. /\ t \in Seq(Byte) /\ Len(t) = Len(q) + 3 /\ \A i \in 1..Len(q) : t[i] = q[i]
          /\ \A k \in 1..3 : t[Len(q) + k] = Tagged(bytes)[k]
      BY <3>1, Zenon DEF Grown
    <3>3. \A k \in 1..3 : /\ Tagged(bytes)[k].pos = k /\ Tagged(bytes)[k].len = 3
                          /\ Tagged(bytes)[k].v = bytes[k]
      <4>1. ASSUME NEW k \in 1..3
            PROVE  /\ Tagged(bytes)[k].pos = k /\ Tagged(bytes)[k].len = 3
                   /\ Tagged(bytes)[k].v = bytes[k]
        <5>1. k \in 1..Len(bytes)
          BY Zenon
        <5> QED BY <5>1, TaggedIs, Zenon
      <4> QED BY <4>1, Zenon
    <3>4. \A k \in 1..3 : t[Len(q) + k].pos = k /\ t[Len(q) + k].len = 3 /\ t[Len(q) + k].v = bytes[k]
      BY <3>2, <3>3
    <3>5. Total(t, place) = Total(q, place) + Signed(t[Len(q) + place].v)
      BY <3>2, <3>4, <2>TotalMouse, ZenonT(30)
    <3>6. t[Len(q) + place].v = bytes[place]
      BY <3>4
    <3> QED BY <3>5, <3>6, Zenon DEF t
  \* The guest reads back a motion that fits a byte.
  <2>SignedIs.
      ASSUME NEW m \in Int, m <= 63, -63 <= m
      PROVE  Signed(m % 256) = m
    <3> USE <2>SignedIs
    <3>1. CASE m >= 0
      <4>1. m % 256 = m
        BY <3>1
      <4> QED BY <3>1, <4>1 DEF Signed
    <3>2. CASE m < 0
      <4>1. m % 256 = m + 256
        BY <3>2
      <4>2. m + 256 >= 128 /\ (m + 256) - 256 = m
        BY <3>2
      <4> QED BY <4>1, <4>2 DEF Signed
    <3> QED BY <3>1, <3>2
  \* It reads back the motion that MergeMousePacket makes of two.
  <2>MergedSigned.
      ASSUME NEW m \in Int, m <= 63, -63 <= m, NEW v \in 0..255, Abs(m + v) <= 63
      PROVE  Signed(v) = v /\ Signed((m + v) % 256) = m + v
    <3> USE <2>MergedSigned
    <3> DEFINE u == m + v
    <3>1. u \in Int /\ u <= 63 /\ -63 <= u /\ v < 128
      BY DEF Abs
    <3>2. Signed(v) = v
      BY <3>1, Zenon DEF Signed
    <3> HIDE DEF u
    <3>3. Signed(u % 256) = u
      BY <3>1, <2>SignedIs, ZenonT(30)
    <3> QED BY <3>2, <3>3, Zenon DEF u
  \* Along one axis: the queue q that MergeMousePacket leaves, with the packet that is
  \* sent then, tells what the queue told before and the new motion.
  <2>AxisMoves.
      ASSUME NEW between \in BOOLEAN, NEW s \in Turn(between),
             NEW x \in Int, NEW y \in Int, NEW b \in 0..3, NEW slow,
             NEW place \in 2..3, NEW move \in Int, move <= 63, -63 <= move,
             AxisFits(s, x, y, b, slow, move, place),
             NEW sent, sent = PartMove(s, x, y, b, slow, move, place - 1)
      PROVE  AxisTells(s, x, y, b, slow, move, place, sent)
    <3> USE <2>AxisMoves
    <3> DEFINE q == PartQueue(s, x, y, b, slow)
               merge == PartMerges(s, x, y, b, slow)
               byte == s.q[Len(s.q) - 3 + place]
    <3>1. PartSends(s, between, SendPart(s, x, y, b, slow), merge, q, PartBytes(s, x, y, b, slow), b)
      BY SendPartSends, Zenon
    <3>2. s.q \in Seq(Byte) /\ Len(s.q) \in Nat /\ Total(s.q, place) \in Int
      BY LenProperties, <1>TotalIs, Zenon DEF Turn
    <3>3. ASSUME merge
          PROVE  /\ Len(s.q) > 3
                 /\ \A k \in 1..3 : /\ s.q[Len(s.q) - 3 + k] \in Byte
                                    /\ s.q[Len(s.q) - 3 + k].pos = k /\ s.q[Len(s.q) - 3 + k].len = 3
      BY <3>3, MergeTakes, ZenonT(30)
    <3>4. CASE merge
      <4>1. q \in Seq(Byte) /\ Len(q) = Len(s.q) - 3 /\ \A i \in 1..Len(q) : s.q[i] = q[i]
        BY <3>1, <3>4, Zenon DEF PartSends
      <4>2. Abs(move + byte.v) <= 63
        BY <3>4, Zenon DEF AxisFits
      <4>3. sent = move + byte.v
        <5>1. Len(s.q) - 2 + (place - 1) = Len(s.q) - 3 + place
          BY <3>2
        <5>2. sent = Merged(move, s.q[Len(s.q) - 2 + (place - 1)])
          BY <3>4, Zenon DEF PartMove
        <5> QED BY <5>1, <5>2, Zenon DEF Merged
      <4>4. byte \in Byte
        <5>1. place \in 1..3
          OBVIOUS
        <5> QED BY <3>3, <3>4, <5>1, Zenon
      <4>5. byte.v \in 0..255
        BY <4>4, ZenonT(30) DEF Byte
      <4> HIDE DEF q
      <4>6. Total(s.q, place) = Total(q, place) + Signed(byte.v)
        <5>1. Len(q) \in Nat /\ Len(s.q) = Len(q) + 3
          BY <3>2, <3>3, <3>4, <4>1
        <5>2. ASSUME NEW k \in 1..3 PROVE s.q[Len(q) + k].pos = k /\ s.q[Len(q) + k].len = 3
          <6>1. Len(q) + k = Len(s.q) - 3 + k
            BY <4>1, Zenon
          <6>2. s.q[Len(s.q) - 3 + k].pos = k /\ s.q[Len(s.q) - 3 + k].len = 3
            BY <3>3, <3>4, Zenon
          <6> QED BY <6>1, <6>2, Zenon
        <5>3. Total(s.q, place) = Total(q, place) + Signed(s.q[Len(q) + place].v)
          BY <3>2, <4>1, <5>1, <5>2, <2>TotalMouse, Zenon
        <5> QED BY <4>1, <5>3, Zenon
      <4> DEFINE v == byte.v
                 old == Total(q, place)
      <4>7. old \in Int
        BY <4>1, <1>TotalIs, Zenon
      <4>8. v \in 0..255 /\ Abs(move + v) <= 63 /\ sent = move + v /\ Total(s.q, place) = old + Signed(v)
        BY <4>2, <4>3, <4>5, <4>6, ZenonT(30)
      <4> HIDE DEF byte, v, old
      <4>9. Signed(v) = v /\ Signed((move + v) % 256) = move + v
        BY <4>8, <2>MergedSigned, ZenonT(30)
      <4>10. old + Signed(sent % 256) = Total(s.q, place) + move
        <5>1. Signed(sent % 256) = move + v
          BY <4>8, <4>9, ZenonT(30)
        <5>2. Total(s.q, place) = old + v
          BY <4>8, <4>9, Zenon
        <5> QED BY <4>7, <4>8, <5>1, <5>2
      <4> QED BY <4>10, Zenon DEF old, q, AxisTells
    <3>5. CASE ~merge
      <4>1. q = s.q
        BY <3>1, <3>5, Zenon DEF PartSends
      <4>2. sent = move
        BY <3>5, Zenon DEF PartMove
      <4>3. Signed(sent % 256) = move
        BY <4>2, <2>SignedIs, ZenonT(30)
      <4> QED BY <4>1, <4>3, Zenon DEF AxisTells
    <3> QED BY <3>4, <3>5, Zenon
  <2> SUFFICES ASSUME NEW between \in BOOLEAN, NEW s \in Turn(between),
                    NEW x \in Int, x <= 63, -63 <= x, NEW y \in Int, y <= 63, -63 <= y,
                    NEW b \in 0..3, NEW slow,
                    ~yaxis_reversed, ~SendPart(s, x, y, b, slow).lost
             PROVE  /\ ~s.lost
                    /\ Total(SendPart(s, x, y, b, slow).q, 2) = Total(s.q, 2) + x
                    /\ Total(SendPart(s, x, y, b, slow).q, 3) = Total(s.q, 3) + y
    OBVIOUS
  <2> DEFINE r == SendPart(s, x, y, b, slow)
             merge == PartMerges(s, x, y, b, slow)
             q == PartQueue(s, x, y, b, slow)
             bytes == PartBytes(s, x, y, b, slow)
             movex == PartMove(s, x, y, b, slow, x, 1)
             movey == PartMove(s, x, y, b, slow, y, 2)
             lost == (s.lost \/ Len(q) + 3 >= inbufferlen)
             sent == SendAll(q, bytes)
  <2>1. x \in Int /\ x <= 63 /\ -63 <= x /\ y \in Int /\ y <= 63 /\ -63 <= y
    BY Zenon
  <2>2. PartSends(s, between, r, merge, q, bytes, b) /\ movex \in Int /\ movey \in Int
    BY <2>1, SendPartSends, Zenon
  <2>3. bytes = <<248 + b, movex % 256, movey % 256>>
    BY ZenonT(30) DEF PartBytes
  <2>4. s.q \in Seq(Byte) /\ Len(s.q) \in Nat /\ inbufferlen \in Nat
    BY LenProperties, ConstantsAssumption, Zenon DEF Turn
  <2>5. ASSUME merge
        PROVE  Abs(x + s.q[Len(s.q) - 3 + 2].v) <= 63 /\ Abs(y + s.q[Len(s.q) - 3 + 3].v) <= 63
    <3> DEFINE w == Len(s.q) - 2
    <3>1. Abs(x + s.q[w + 1].v) <= 63 /\ Abs(y + s.q[w + 2].v) <= 63
      BY <2>5, Zenon DEF PartMerges, Merges, MOUSE_DELTA_MAX
    <3>2. w + 1 = Len(s.q) - 3 + 2 /\ w + 2 = Len(s.q) - 3 + 3
      BY <2>4
    <3> QED BY <3>1, <3>2, Zenon
  <2>6. ~r.lost
    BY Zenon
  <2>7. Total(q, 2) + Signed(movex % 256) = Total(s.q, 2) + x
    <3> DEFINE place == 2
    <3>1. place \in 2..3 /\ movex = PartMove(s, x, y, b, slow, x, place - 1)
      OBVIOUS
    <3>2. AxisFits(s, x, y, b, slow, x, place)
      BY <2>5, Zenon DEF AxisFits
    <3> HIDE DEF movex, place
    <3>3. AxisTells(s, x, y, b, slow, x, place, movex)
      BY <2>1, <3>1, <3>2, <2>AxisMoves, Zenon
    <3> QED BY <3>3, Zenon DEF place, AxisTells
  <2>8. Total(q, 3) + Signed(movey % 256) = Total(s.q, 3) + y
    <3> DEFINE place == 3
    <3>1. place \in 2..3 /\ movey = PartMove(s, x, y, b, slow, y, place - 1)
      OBVIOUS
    <3>2. AxisFits(s, x, y, b, slow, y, place)
      BY <2>5, Zenon DEF AxisFits
    <3> HIDE DEF movey, place
    <3>3. AxisTells(s, x, y, b, slow, y, place, movey)
      BY <2>1, <3>1, <3>2, <2>AxisMoves, Zenon
    <3> QED BY <3>3, Zenon DEF place, AxisTells
  <2> HIDE DEF r, merge, q, bytes, movex, movey
  <2>9. r = [q |-> sent, type |-> "mouse", lost |-> lost]
    BY <2>2, Zenon DEF PartSends
  <2>10. Packet(bytes) /\ Len(bytes) = 3 /\ q \in Seq(Byte) /\ Len(q) \in Nat
    BY <2>2, LenProperties, Zenon DEF PartSends
  <2> HIDE DEF sent, lost
  <2>11. r.q = sent /\ ~lost
    BY <2>6, <2>9, Zenon
  <2>12. ~s.lost /\ Len(q) + 3 < inbufferlen
    <3>1. ~s.lost /\ ~(Len(q) + 3 >= inbufferlen)
      BY <2>11, Zenon DEF lost
    <3> QED BY <3>1, <2>4, <2>10
  <2>13. bytes[2] = movex % 256 /\ bytes[3] = movey % 256
    BY <2>3, Zenon
  <2>14. \A place \in 2..3 : Total(sent, place) = Total(q, place) + Signed(bytes[place])
    BY <2>10, <2>12, <2>PacketMoves, Zenon DEF sent
  <2>15. 2 \in 2..3 /\ 3 \in 2..3
    OBVIOUS
  <2>16. Total(sent, 2) = Total(s.q, 2) + x /\ Total(sent, 3) = Total(s.q, 3) + y
    <3>1. /\ Total(sent, 2) = Total(q, 2) + Signed(bytes[2])
          /\ Total(sent, 3) = Total(q, 3) + Signed(bytes[3])
      BY <2>14, <2>15, Zenon
    <3> QED BY <2>7, <2>8, <2>13, <3>1, ZenonT(30)
  <2> QED BY <2>11, <2>12, <2>16, Zenon DEF r
\* Motions, taken apart.
<1>MotionsAre.
    ASSUME Motions
    PROVE  /\ Upright /\ balance.x \in Int /\ balance.y \in Int
           /\ ~lossy => Told(queue, balance)
  <2> USE <1>MotionsAre
  <2>1. balance.x \in Int /\ balance.y \in Int
    BY Zenon DEF Motions
  <2>2. ASSUME ~lossy PROVE Told(queue, balance)
    <3> DEFINE a == Total(queue, 2)
               b == Total(queue, 3)
    <3>1. balance = [x |-> a, y |-> b]
      BY <2>2, Zenon DEF Motions, MotionConserved
    <3> HIDE DEF a, b
    <3>2. balance.x = a /\ balance.y = b
      BY <3>1, Zenon
    <3> QED BY <3>2, Zenon DEF Told, a, b
  <2> QED BY <2>1, <2>2, Zenon DEF Motions
\* Motions after a step that makes the balance <<a, b>>.
<1>MotionsNext.
    ASSUME Upright', NEW a \in Int, NEW b \in Int, balance' = [x |-> a, y |-> b],
           ~lossy' => a = Total(queue', 2) /\ b = Total(queue', 3)
    PROVE  Motions'
  <2> USE <1>MotionsNext
  <2>1. balance' \in [x : Int, y : Int]
    BY Zenon
  <2>2. MotionConserved'
    BY Zenon DEF MotionConserved
  <2> QED BY <2>1, <2>2, Zenon DEF Motions
\* Motions after a step that leaves the balance alone.
<1>MotionsStay.
    ASSUME Motions, Upright', balance' = balance,
           ~lossy' => ~lossy /\ Total(queue', 2) = Total(queue, 2) /\ Total(queue', 3) = Total(queue, 3)
    PROVE  Motions'
  <2> USE <1>MotionsStay
  <2> DEFINE a == balance.x
             b == balance.y
  <2>1. a \in Int /\ b \in Int /\ balance' = [x |-> a, y |-> b]
    BY Zenon DEF Motions
  <2>2. ~lossy => a = Total(queue, 2) /\ b = Total(queue, 3)
    BY <1>MotionsAre, Zenon DEF Told
  <2> HIDE DEF a, b
  <2>3. ~lossy' => a = Total(queue', 2) /\ b = Total(queue', 3)
    BY <2>2, Zenon
  <2> QED BY <2>1, <2>3, <1>MotionsNext, Zenon
\* A packet that is not a mouse packet joins the queue.
<1>OtherPacketMoves.
    ASSUME NEW q \in Seq(Byte), NEW bytes, Packet(bytes), Len(bytes) # 3,
           Len(q) + Len(bytes) < inbufferlen, NEW place
    PROVE  Total(SendAll(q, bytes), place) = Total(q, place)
  <2> USE <1>OtherPacketMoves
  <2> DEFINE s == SendAll(q, bytes)
             m == Len(q)
             l == Len(bytes)
  <2>1. Grown(s, q, bytes, l)
    BY SendAllGrows, Zenon
  <2>2. l \in 1..8 /\ m \in Nat /\ l # 3
    BY TaggedIs, LenProperties, Zenon
  <2> HIDE DEF s
  <2>3. s \in Seq(Byte) /\ Len(s) = m + l /\ \A k \in 1..m : s[k] = q[k]
    BY <2>1, Zenon DEF Grown
  <2>4. \A k \in 1..l : s[m + k] = Tagged(bytes)[k] /\ Tagged(bytes)[k].len = l
    BY <2>1, TaggedIs, Zenon DEF Grown
  <2> HIDE DEF l, m
  <2>5. ASSUME NEW i \in (m + 1)..Len(s) PROVE Moved(s[i], place) = 0
    <3>1. i - m \in 1..l /\ m + (i - m) = i
      BY <2>2, <2>3
    <3>2. s[i].len = l
      BY <3>1, <2>4
    <3> QED BY <3>2, <2>2, Zenon DEF Moved
  <2>6. m <= Len(s)
    BY <2>2, <2>3, SMTT(30)
  <2>7. Total(s, place) = Total(q, place)
    BY <2>3, <2>5, <2>6, <1>TotalSame, Zenon DEF m
  <2> QED BY <2>7, Zenon DEF s
\* An event or an answer that is such a packet.
<1>OtherMotions.
    ASSUME IInv, Motions, NEW bytes, Packet(bytes), Len(bytes) # 3,
           Enqueue(SendAll(queue, bytes), Len(bytes)), balance' = balance, Upright'
    PROVE  Motions'
  <2> USE <1>OtherMotions
  <2>1. queue \in Seq(Byte) /\ Len(queue) \in Nat /\ Len(bytes) \in 1..8 /\ inbufferlen \in Nat
    BY TaggedIs, LenProperties, ConstantsAssumption DEF IInv, TypeOK
  <2>2. ASSUME ~lossy'
        PROVE  ~lossy /\ Total(queue', 2) = Total(queue, 2) /\ Total(queue', 3) = Total(queue, 3)
    <3>1. ~lossy /\ ~(Len(queue) + Len(bytes) >= inbufferlen) /\ queue' = SendAll(queue, bytes)
      BY <2>2, Zenon DEF Enqueue
    <3> DEFINE l == Len(queue)
               k == Len(bytes)
    <3>2. l \in Nat /\ k \in 1..8 /\ ~(l + k >= inbufferlen)
      BY <2>1, <3>1, Zenon
    <3> HIDE DEF l, k
    <3>3. l + k < inbufferlen
      BY <2>1, <3>2
    <3>4. \A place : Total(SendAll(queue, bytes), place) = Total(queue, place)
      BY <2>1, <3>3, <1>OtherPacketMoves, Zenon DEF l, k
    <3> QED BY <3>1, <3>4, Zenon
  <2> QED BY <2>2, <1>MotionsStay, Zenon
\* The axis and the collected bytes are left alone.
<1>UprightStays.
    ASSUME Motions, yaxis_reversed' = yaxis_reversed, outbuffer' = outbuffer
    PROVE  Upright'
  BY <1>UprightStays, Zenon DEF Motions, Upright
\* Keys, the wheel and the joysticks.
<1>OtherEventMotions.
    ASSUME IInv, Motions,
           \/ \E code \in Scancode : SendKey(code)
           \/ EiffelWheel
           \/ \E n, state : JoyChange(n, state)
    PROVE  Motions'
  <2> USE <1>OtherEventMotions
  <2>1. ASSUME NEW code \in Scancode, SendKey(code) PROVE Motions'
    <3> DEFINE bytes == <<code>>
    <3>1. /\ Enqueue(SendAll(queue, bytes), 1) /\ balance' = balance
          /\ yaxis_reversed' = yaxis_reversed /\ outbuffer' = outbuffer
      BY <2>1, Zenon DEF SendKey, Event, config
    <3>2. Packet(bytes) /\ Len(bytes) = 1
      BY PacketsAre, Zenon
    <3> HIDE DEF bytes
    <3>3. Len(bytes) # 3 /\ Enqueue(SendAll(queue, bytes), Len(bytes))
      BY <3>1, <3>2
    <3>4. Packet(bytes) /\ balance' = balance /\ Upright'
      BY <3>1, <3>2, <1>UprightStays, Zenon
    <3> QED BY <3>3, <3>4, <1>OtherMotions, Zenon
  <2>2. ASSUME EiffelWheel PROVE Motions'
    <3> DEFINE bytes == <<246, 5, 0, 0, 0, 0, 0, 89>>
    <3>1. /\ Enqueue(SendAll(queue, bytes), 8) /\ balance' = balance
          /\ yaxis_reversed' = yaxis_reversed /\ outbuffer' = outbuffer
      BY <2>2, Zenon DEF EiffelWheel, Event, config
    <3>2. Packet(bytes)
      BY PacketsAre, Zenon
    <3>3. Len(bytes) = 8
      BY Zenon
    <3> HIDE DEF bytes
    <3>4. Len(bytes) # 3 /\ Enqueue(SendAll(queue, bytes), Len(bytes))
      BY <3>1, <3>3
    <3>5. Packet(bytes) /\ balance' = balance /\ Upright'
      BY <3>1, <3>2, <1>UprightStays, Zenon
    <3> QED BY <3>4, <3>5, <1>OtherMotions, Zenon
  <2>3. ASSUME NEW n, NEW state, JoyChange(n, state) PROVE Motions'
    <3> DEFINE bytes == JoyPacket(n, state)
    <3>1. /\ Enqueue(SendAll(queue, bytes), 2) /\ balance' = balance
          /\ yaxis_reversed' = yaxis_reversed /\ outbuffer' = outbuffer
      BY <2>3, Zenon DEF JoyChange, Report, Event, config
    <3>2. n \in 0..1
      BY <2>3, ConstantsAssumption, ZenonT(30) DEF JoyChange
    <3>3. Packet(bytes) /\ Len(bytes) = 2
      BY <3>2, PacketsAre DEF JoyPacket
    <3> HIDE DEF bytes
    <3>4. Len(bytes) # 3 /\ Enqueue(SendAll(queue, bytes), Len(bytes))
      BY <3>1, <3>3
    <3>5. Packet(bytes) /\ balance' = balance /\ Upright'
      BY <3>1, <3>3, <1>UprightStays, Zenon
    <3> QED BY <3>4, <3>5, <1>OtherMotions, Zenon
  <2> QED BY <2>1, <2>2, <2>3, Zenon
\* The mouse.
<1>MouseMotions.
      \A e \in Motion :
          IInv /\ Motions /\ SendMouseMotion(e) => Motions'
    \* Every part does.
  <2>PartDone.
      ASSUME NEW rel \in Int, NEW step \in {1, 63}, NEW i \in Nat, i > 0
      PROVE  Advances(rel, step, i)
    <3> USE <2>PartDone
    <3> DEFINE c == (i - 1) * step
               d == i * step
               a == Abs(rel)
               rest == Larger(0, a - c)
    <3>1. c \in Nat /\ d = c + step /\ a \in Nat
      <4>1. CASE step = 1
        BY <4>1 DEF Abs
      <4>2. CASE step = 63
        BY <4>2 DEF Abs
      <4> QED BY <4>1, <4>2, Zenon
    <3>2. /\ Part(rel, step, i) = (IF rel < 0 THEN -1 ELSE 1) * Smaller(step, rest)
          /\ Done(rel, step, i) = (IF rel < 0 THEN -1 ELSE 1) * Smaller(a, d)
          /\ Done(rel, step, i - 1) = (IF rel < 0 THEN -1 ELSE 1) * Smaller(a, c)
      BY Zenon DEF Part, Done
    <3> DEFINE part == Smaller(step, rest)
               now == Smaller(a, d)
               before == Smaller(a, c)
    <3> HIDE DEF a, c, d
    <3>3. part \in 0..63 /\ now = before + part /\ before \in Nat
      BY <3>1 DEF Smaller, Larger
    <3> HIDE DEF part, now, before
    <3>4. CASE rel < 0
      <4>1. Part(rel, step, i) = -part /\ Done(rel, step, i) = -now /\ Done(rel, step, i - 1) = -before
        BY <3>2, <3>3, <3>4 DEF part, now, before
      <4> QED BY <3>3, <4>1 DEF Advances
    <3>5. CASE ~(rel < 0)
      <4>1. Part(rel, step, i) = part /\ Done(rel, step, i) = now /\ Done(rel, step, i - 1) = before
        BY <3>2, <3>3, <3>5 DEF part, now, before
      <4> QED BY <3>3, <4>1 DEF Advances
    <3> QED BY <3>4, <3>5, Zenon
  \* The parts make up the motion.
  <2>DoneAll.
      ASSUME NEW e \in Motion, NEW step \in {1, 63}
      PROVE  /\ Done(e.x, step, 0) = 0 /\ Done(e.x, step, Parts(e, step)) = e.x
             /\ Done(e.y, step, 0) = 0 /\ Done(e.y, step, Parts(e, step)) = e.y
    <3> USE <2>DoneAll
    <3> DEFINE n == Parts(e, step)
               m == Larger(Abs(e.x), Abs(e.y))
    <3>1. e.x \in Int /\ e.y \in Int
      BY ConstantsAssumption, Zenon
    <3>2. m \in Nat /\ Abs(e.x) <= m /\ Abs(e.y) <= m /\ Abs(e.x) \in Nat /\ Abs(e.y) \in Nat
      BY <3>1 DEF Larger, Abs
    <3>3. n = Larger(1, (m + step - 1) \div step)
      BY Zenon DEF Parts
    <3> HIDE DEF m, n
    <3>4. n \in Nat /\ n * step >= m /\ n * step \in Nat
      <4>1. CASE step = 1
        <5>1. (m + step - 1) \div step = m
          BY <4>1, <3>2
        <5> QED BY <4>1, <5>1, <3>2, <3>3 DEF Larger
      <4>2. CASE step = 63
        <5> DEFINE k == (m + 62) \div 63
        <5>1. k \in Nat /\ k * 63 >= m
          BY <3>2
        <5>2. n = Larger(1, k)
          BY <4>2, <3>2, <3>3
        <5> HIDE DEF k
        <5> QED BY <4>2, <5>1, <5>2, <3>2 DEF Larger
      <4> QED BY <4>1, <4>2, Zenon
    <3>5. ASSUME NEW rel \in Int, Abs(rel) <= m, Abs(rel) \in Nat
          PROVE  Done(rel, step, 0) = 0 /\ Done(rel, step, n) = rel
      <4>1. 0 * step = 0
        OBVIOUS
      <4> DEFINE l == n * step
      <4>2. l \in Nat /\ Abs(rel) <= l
        BY <3>2, <3>4, <3>5
      <4>3. Done(rel, step, n) = (IF rel < 0 THEN -1 ELSE 1) * Smaller(Abs(rel), l)
        BY Zenon DEF Done
      <4> HIDE DEF l
      <4>4. Smaller(Abs(rel), l) = Abs(rel)
        BY <4>2, <3>5 DEF Smaller
      <4>5. Done(rel, step, n) = rel
        BY <4>3, <4>4 DEF Abs
      <4>6. Smaller(Abs(rel), 0 * step) = 0
        BY <4>1, <3>5 DEF Smaller
      <4>7. Done(rel, step, 0) = 0
        BY <4>6 DEF Done
      <4> QED BY <4>5, <4>7, Zenon
    <3> QED BY <3>1, <3>2, <3>5, Zenon DEF n
  <2> SUFFICES ASSUME IInv, Motions, NEW e \in Motion, SendMouseMotion(e)
             PROVE  Motions'
    BY ZenonT(30)
  <2> DEFINE step == IF e.slow THEN 1 ELSE MOUSE_DELTA_MAX
             n == Parts(e, step)
             a == [q |-> queue, type |-> intype, lost |-> lossy]
             F == MotionLoop(n, a, e, step)
             S == Turn(Between)
             ux == Total(queue, 2)
             uy == Total(queue, 3)
             T == {i \in 0..n : ~F[i].lost => /\ ~lossy
                                              /\ Total(F[i].q, 2) = ux + Done(e.x, step, i)
                                              /\ Total(F[i].q, 3) = uy + Done(e.y, step, i)}
  <2>1. /\ queue' = F[n].q /\ lossy' = F[n].lost
        /\ yaxis_reversed' = yaxis_reversed /\ outbuffer' = outbuffer
        /\ balance' = [x |-> balance.x + e.x,
                       y |-> balance.y + (IF yaxis_reversed THEN -e.y ELSE e.y)]
    BY DEF SendMouseMotion, MotionLoop, Event, config
  <2>2. step \in {1, 63}
    BY Zenon DEF MOUSE_DELTA_MAX
  <2> HIDE DEF step
  <2>3. /\ n \in Nat /\ n > 0
        /\ \A i \in Nat : Part(e.x, step, i) \in Int /\ Part(e.y, step, i) \in Int
    BY <2>2, PartsAre
  <2>4. e.b \in 0..3 /\ Between \in BOOLEAN /\ e.x \in Int /\ e.y \in Int
    BY ConstantsAssumption DEF Between
  <2>5. a \in S /\ a.q = queue /\ a.lost = lossy
    BY Zenon DEF IInv, TypeOK, Turn
  <2>6. ux \in Int /\ uy \in Int
    BY <1>TotalIs, Zenon DEF IInv, TypeOK
  <2>7. /\ Done(e.x, step, 0) = 0 /\ Done(e.x, step, n) = e.x
        /\ Done(e.y, step, 0) = 0 /\ Done(e.y, step, n) = e.y
    BY <2>2, <2>DoneAll, Zenon
  <2>8. ~yaxis_reversed
    BY Zenon DEF Motions, Upright
  <2> HIDE DEF n, a, ux, uy
  <2>9. ASSUME NEW i \in 1..n, NEW s \in S
        PROVE  SendPart(s, Part(e.x, step, i), Part(e.y, step, i), e.b, e.slow) \in S
    <3>1. Part(e.x, step, i) \in Int /\ Part(e.y, step, i) \in Int
      BY <2>3, SMTT(30)
    <3> QED BY <2>4, <3>1, SendPartIs, ZenonT(30)
  <2>10. /\ F[0] = a
         /\ \A i \in 0..n : F[i] \in S
         /\ \A i \in 1..n : F[i] = SendPart(F[i - 1], Part(e.x, step, i), Part(e.y, step, i), e.b, e.slow)
    <3> HIDE DEF S
    <3> QED BY <2>3, <2>5, <2>9, MotionLoopIs
  <2> HIDE DEF F
  <2>11. 0 \in T
    <3>1. F[0].q = queue /\ F[0].lost = lossy /\ 0 \in 0..n
      BY <2>3, <2>5, <2>10
    <3>2. Total(F[0].q, 2) = ux + 0 /\ Total(F[0].q, 3) = uy + 0
      BY <2>6, <3>1 DEF ux, uy
    <3> QED BY <2>7, <3>1, <3>2, ZenonT(30)
  <2>12. ASSUME NEW i \in 1..n, i - 1 \in T PROVE i \in T
    <3> DEFINE s == F[i - 1]
               x == Part(e.x, step, i)
               y == Part(e.y, step, i)
               dx == Done(e.x, step, i - 1)
               dy == Done(e.y, step, i - 1)
    <3>1. i \in Nat /\ i > 0 /\ i - 1 \in 0..n /\ i \in 0..n
      BY <2>3
    <3>2. s \in S /\ F[i] = SendPart(s, x, y, e.b, e.slow)
      BY <2>10, <3>1, Zenon
    <3>3. x \in Int /\ x <= 63 /\ -63 <= x /\ Done(e.x, step, i) = dx + x /\ dx \in Int
      <4>1. Advances(e.x, step, i)
        BY <2>2, <2>4, <3>1, <2>PartDone
      <4> QED BY <4>1, Zenon DEF Advances
    <3>4. y \in Int /\ y <= 63 /\ -63 <= y /\ Done(e.y, step, i) = dy + y /\ dy \in Int
      <4>1. Advances(e.y, step, i)
        BY <2>2, <2>4, <3>1, <2>PartDone
      <4> QED BY <4>1, Zenon DEF Advances
    <3>5. ~s.lost => ~lossy /\ Total(s.q, 2) = ux + dx /\ Total(s.q, 3) = uy + dy
      BY <2>12, Zenon
    <3> HIDE DEF s, x, y, dx, dy
    <3>6. ASSUME ~F[i].lost
          PROVE  ~s.lost /\ Total(F[i].q, 2) = Total(s.q, 2) + x /\ Total(F[i].q, 3) = Total(s.q, 3) + y
      <4> DEFINE b == e.b
                 slow == e.slow
      <4>1. b \in 0..3 /\ F[i] = SendPart(s, x, y, b, slow) /\ s \in Turn(Between)
        BY <2>4, <3>2, Zenon
      <4> HIDE DEF b, slow
      <4>2. ~SendPart(s, x, y, b, slow).lost
        BY <3>6, <4>1, ZenonT(30)
      <4>3. /\ ~s.lost
            /\ Total(SendPart(s, x, y, b, slow).q, 2) = Total(s.q, 2) + x
            /\ Total(SendPart(s, x, y, b, slow).q, 3) = Total(s.q, 3) + y
        BY <2>4, <2>8, <3>3, <3>4, <4>1, <4>2, <1>PartMoves, SMTT(30)
      <4> QED BY <4>1, <4>3, Zenon
    <3>7. ASSUME ~F[i].lost
          PROVE  /\ ~lossy /\ Total(F[i].q, 2) = ux + Done(e.x, step, i)
                 /\ Total(F[i].q, 3) = uy + Done(e.y, step, i)
      BY <2>6, <3>3, <3>4, <3>5, <3>6, <3>7
    <3> QED BY <3>1, <3>7, Zenon
  <2>13. n \in T
    <3>1. \A i \in 0..n : i \in T
      <4> HIDE DEF T
      <4> QED BY <2>3, <2>11, <2>12, Climb, ZenonT(30)
    <3>2. n \in 0..n
      BY <2>3
    <3> QED BY <3>1, <3>2, Zenon
  <2> DEFINE bx == balance.x + e.x
             by == balance.y + e.y
  <2>14. /\ balance' = [x |-> bx, y |-> by]
         /\ balance.x \in Int /\ balance.y \in Int /\ bx \in Int /\ by \in Int
    BY <2>1, <2>4, <2>8, <1>MotionsAre
  <2>15. ASSUME ~lossy' PROVE bx = Total(queue', 2) /\ by = Total(queue', 3)
    <3>1. ~lossy /\ Total(queue', 2) = ux + e.x /\ Total(queue', 3) = uy + e.y
      BY <2>1, <2>7, <2>13, <2>15, Zenon
    <3>2. balance.x = ux /\ balance.y = uy
      BY <3>1, <1>MotionsAre, Zenon DEF Told, ux, uy
    <3> QED BY <3>1, <3>2, Zenon
  <2>16. Upright'
    BY <2>1, <1>UprightStays, Zenon
  <2> HIDE DEF bx, by
  <2> QED BY <2>14, <2>15, <2>16, <1>MotionsNext, Zenon
\* The guest reads a byte.
<1>ReadMotions.
      IInv /\ Motions /\ ReadData => Motions'
    \* The guest reads a byte.
  <2>TotalTail.
      ASSUME NEW q \in Seq(Byte), q # <<>>, NEW place
      PROVE  Total(Tail(q), place) = Total(q, place) - Moved(q[1], place)
    <3> USE <2>TotalTail
    <3> DEFINE t == Tail(q)
               m == Len(t)
               F == SumLoop(Len(q), q, place)
               G == SumLoop(Len(t), t, place)
    <3>1. /\ t \in Seq(Byte) /\ Len(t) = Len(q) - 1
          /\ \A i \in 1..Len(t) : t[i] = q[i + 1]
      BY HeadTailProperties, Zenon
    <3>2. Len(q) \in Nat \ {0}
      BY EmptySeq, Zenon
    <3>3. Total(t, place) = G[m]
      BY <3>1, <1>TotalIs, Zenon
    <3>4. /\ F[0] = 0
          /\ \A i \in 1..Len(q) : F[i] = F[i - 1] + Moved(q[i], place)
          /\ Total(q, place) = F[Len(q)]
      BY <1>TotalIs, Zenon
    <3> HIDE DEF t
    <3>5. m \in Nat /\ m <= Len(t) /\ m + 1 <= Len(q) /\ 1 \in Nat /\ m + 1 = Len(q) /\ m \in 0..m
      BY <3>1, <3>2
    <3>6. \A i \in 0..m : G[i] = F[i + 1] - F[1]
      <4> DEFINE d == 1
      <4>1. /\ t \in Seq(Byte) /\ d \in Nat /\ m \in Nat /\ m <= Len(t) /\ m + d <= Len(q)
            /\ Stretch(q, t, d, m)
        BY <3>1, <3>5, ZenonT(30) DEF Stretch
      <4> HIDE DEF d, m
      <4>2. \A i \in 0..m : G[i] = F[i + d] - F[d]
        BY <4>1, <1>SumShift
      <4> QED BY <4>2, Zenon DEF d
    <3>7. 1 \in 1..Len(q) /\ 1 - 1 = 0
      BY <3>2
    <3>8. Moved(q[1], place) \in Int
      BY <3>7, <1>MovedIs, Zenon
    <3> HIDE DEF F, G, m
    <3>9. F[1] = Moved(q[1], place)
      BY <3>4, <3>7, <3>8
    <3>10. G[m] = F[Len(q)] - F[1]
      BY <3>5, <3>6, Zenon
    <3>11. Total(t, place) = Total(q, place) - Moved(q[1], place)
      BY <3>3, <3>4, <3>9, <3>10, Zenon
    <3> QED BY <3>11, Zenon DEF t
  <2> SUFFICES ASSUME IInv, Motions, ReadData
             PROVE  Motions'
    BY Zenon
  <2>1. /\ queue \in Seq(Byte) /\ queue # <<>> /\ Head(queue) = queue[1]
        /\ queue' = Tail(queue) /\ lossy' = lossy
        /\ yaxis_reversed' = yaxis_reversed /\ outbuffer' = outbuffer
    BY HeadTailProperties DEF IInv, TypeOK, ReadData, config
  <2> DEFINE bx == balance.x - Moved(queue[1], 2)
             by == balance.y - Moved(queue[1], 3)
  <2>2. balance' = [x |-> bx, y |-> by]
    <3>1. Learn(queue[1])
      BY <2>1, Zenon DEF ReadData
    <3> QED BY <3>1, Zenon DEF Learn
  <2>3. \A place : Moved(queue[1], place) \in Int
    <3>1. 1 \in 1..Len(queue)
      BY <2>1, EmptySeq, LenProperties
    <3> QED BY <2>1, <3>1, <1>MovedIs, Zenon
  <2>4. bx \in Int /\ by \in Int /\ (~lossy => Told(queue, balance))
    BY <2>3, <1>MotionsAre
  <2>5. \A place : Total(queue', place) = Total(queue, place) - Moved(queue[1], place)
    BY <2>1, <2>TotalTail, Zenon
  <2>6. ASSUME ~lossy' PROVE bx = Total(queue', 2) /\ by = Total(queue', 3)
    <3>1. balance.x = Total(queue, 2) /\ balance.y = Total(queue, 3)
      BY <2>1, <2>4, <2>6, Zenon DEF Told
    <3> QED BY <2>5, <3>1, Zenon
  <2>7. Upright'
    BY <2>1, <1>UprightStays, Zenon
  <2> HIDE DEF bx, by
  <2> QED BY <2>2, <2>4, <2>6, <2>7, <1>MotionsNext, ZenonT(30)
\* The keyboard begins anew, with an empty queue or with the answer to the reset.
<1>ResetMotions.
    ASSUME IInv, NEW q, Anew(q), reset(q)
    PROVE  Motions'
  <2> USE <1>ResetMotions
  <2>1. /\ queue' = q /\ yaxis_reversed' = FALSE /\ outbuffer' = <<>>
        /\ balance' = [x |-> 0, y |-> 0]
    BY Zenon DEF reset
  <2>2. Upright'
    BY <2>1, EmptySeq, Zenon DEF Upright
  <2> DEFINE none == <<>>
             bytes == <<241>>
  <2>3. none \in Seq(Byte) /\ Len(none) = 0
    BY EmptySeq, Zenon
  <2>4. Packet(bytes) /\ Len(bytes) = 1
    BY PacketsAre, Zenon
  <2>5. q = none \/ q = SendAll(none, bytes)
    BY Zenon DEF Anew
  <2> HIDE DEF none, bytes
  <2>6. ASSUME NEW place PROVE Total(q, place) = 0
    <3>1. Total(none, place) = 0
      BY <2>3, <1>TotalIs, Zenon
    <3>2. Len(bytes) # 3 /\ Len(none) + Len(bytes) < inbufferlen
      BY <2>3, <2>4, ConstantsAssumption
    <3>3. Total(SendAll(none, bytes), place) = Total(none, place)
      <4>1. none \in Seq(Byte) /\ Packet(bytes)
        BY <2>3, <2>4, Zenon
      <4> QED BY <3>2, <4>1, <1>OtherPacketMoves, Zenon
    <3> QED BY <2>5, <3>1, <3>3, Zenon
  <2>7. 0 = Total(queue', 2) /\ 0 = Total(queue', 3)
    BY <2>1, <2>6, Zenon
  <2> QED BY <2>1, <2>2, <2>7, <1>MotionsNext
\* The guest writes a byte of a command that does not reverse the Y axis.
<1>WriteMotions.
    ASSUME 15 \notin Command, IInv, Motions, NEW b \in Command, WriteData(b)
    PROVE  Motions'
  <2> USE <1>WriteMotions
  <2> DEFINE out == Append(outbuffer, b)
  <2>1. \/ Collect(out) \/ Configure(out)
        \/ Answer(out) /\ Answered(out)
        \/ reset(SendAll(<<>>, <<241>>))
    BY Zenon DEF WriteData
  <2>2. outbuffer \in Seq(0..255) /\ b \in 0..255 /\ b # 15
    BY ConstantsAssumption DEF Motions, Upright
  <2>3. out \in Seq(0..255) /\ Len(out) = Len(outbuffer) + 1 /\ Len(outbuffer) \in Nat
    BY <2>2, AppendProperties, LenProperties
  <2>4. out[1] # 15
    <3>1. CASE outbuffer = <<>>
      <4>1. Len(outbuffer) = 0
        BY <3>1, EmptySeq, Zenon
      <4>2. out[Len(outbuffer) + 1] = b
        BY <2>2, AppendProperties
      <4> QED BY <4>1, <4>2, <2>2
    <3>2. CASE outbuffer # <<>>
      <4>1. 1 \in 1..Len(outbuffer)
        BY <2>2, <2>3, <3>2, EmptySeq
      <4>2. out[1] = outbuffer[1]
        BY <2>2, <4>1, AppendProperties
      <4> QED BY <3>2, <4>2, Zenon DEF Motions, Upright
    <3> QED BY <3>1, <3>2, Zenon
  <2> HIDE DEF out
  <2>5. CASE Collect(out)
    <3>1. /\ queue' = queue /\ balance' = balance /\ lossy' = lossy /\ yaxis_reversed' = yaxis_reversed
          /\ outbuffer' = [i \in DOMAIN out |-> IF i > 2 THEN 0 ELSE out[i]]
      BY <2>5, Zenon DEF Collect, config
    <3>2. Upright'
      <4>1. DOMAIN out = 1..Len(out) /\ out \in [1..Len(out) -> 0..255] /\ Len(out) \in Nat
        BY <2>3, LenProperties, ZenonT(30)
      <4>2. outbuffer' \in [1..Len(out) -> 0..255]
        <5> DEFINE n == Len(out)
        <5>1. out \in [1..n -> 0..255] /\ outbuffer' = [i \in 1..n |-> IF i > 2 THEN 0 ELSE out[i]]
          BY <3>1, <4>1, Zenon
        <5> HIDE DEF n
        <5>2. ASSUME NEW i \in 1..n PROVE (IF i > 2 THEN 0 ELSE out[i]) \in 0..255
          <6>1. out[i] \in 0..255
            BY <5>1, Zenon
          <6>2. 0 \in 0..255
            OBVIOUS
          <6> QED BY <6>1, <6>2, Zenon
        <5>3. outbuffer' \in [1..n -> 0..255]
          BY <5>1, <5>2, Zenon
        <5> QED BY <5>3, Zenon DEF n
      <4>3. outbuffer' \in Seq(0..255)
        <5> DEFINE f == outbuffer'
                   n == Len(out)
        <5>1. f \in [1..n -> 0..255] /\ n \in Nat
          BY <4>1, <4>2, Zenon
        <5> HIDE DEF f, n
        <5>2. f \in Seq(0..255)
          BY <5>1
        <5> QED BY <5>2, Zenon DEF f
      <4>4. outbuffer'[1] = out[1]
        <5>1. 1 \in DOMAIN out
          BY <2>3, <4>1
        <5> QED BY <3>1, <5>1
      <4>5. yaxis_reversed' = FALSE
        BY <3>1, Zenon DEF Motions, Upright
      <4> QED BY <2>4, <4>3, <4>4, <4>5, ZenonT(30) DEF Upright
    <3> QED BY <3>1, <3>2, <1>MotionsStay, Zenon
  <2>6. CASE Configure(out)
    <3>1. /\ queue' = queue /\ balance' = balance /\ lossy' = lossy /\ outbuffer' = <<>>
          /\ yaxis_reversed' = CASE out[1] = 15 -> TRUE
                                 [] out[1] = 16 -> FALSE
                                 [] OTHER -> yaxis_reversed
      BY <2>6, Zenon DEF Configure
    <3>2. yaxis_reversed' = FALSE
      <4>1. yaxis_reversed = FALSE
        BY Zenon DEF Motions, Upright
      <4> QED BY <2>4, <3>1, <4>1, Zenon
    <3>3. Upright'
      BY <3>1, <3>2, EmptySeq, Zenon DEF Upright
    <3> QED BY <3>1, <3>3, <1>MotionsStay, Zenon
  <2>7. CASE Answer(out) /\ Answered(out)
    <3>1. /\ balance' = balance /\ outbuffer' = <<>> /\ yaxis_reversed' = yaxis_reversed
          /\ Enqueue(Reply(out), IF out = <<22>> THEN 2 ELSE 7)
      BY <2>7, Zenon DEF Answer, config
    <3>2. Upright'
      <4>1. yaxis_reversed' = FALSE
        BY <3>1, Zenon DEF Motions, Upright
      <4> QED BY <3>1, <4>1, EmptySeq, Zenon DEF Upright
    <3>3. CASE out = <<22>>
      <4> DEFINE bytes == JoyPacket(1, joy_state[1])
      <4>1. Enqueue(SendAll(queue, bytes), 2)
        BY <3>1, <3>3, Zenon DEF Reply
      <4>2. Packet(bytes) /\ Len(bytes) = 2
        BY PacketsAre DEF JoyPacket
      <4> HIDE DEF bytes
      <4>3. Len(bytes) # 3 /\ Enqueue(SendAll(queue, bytes), Len(bytes)) /\ Packet(bytes)
        BY <4>1, <4>2
      <4> QED BY <3>1, <3>2, <4>3, <1>OtherMotions, Zenon
    <3>4. CASE out # <<22>>
      <4> DEFINE bytes == ClockReply
      <4>1. Enqueue(SendAll(queue, bytes), 7)
        BY <3>1, <3>4, Zenon DEF Reply
      <4>2. Packet(bytes)
        BY PacketsAre, Zenon
      <4>3. Len(bytes) = 7
        BY Zenon DEF ClockReply
      <4> HIDE DEF bytes
      <4>4. Len(bytes) # 3 /\ Enqueue(SendAll(queue, bytes), Len(bytes)) /\ Packet(bytes)
        BY <4>1, <4>2, <4>3
      <4> QED BY <3>1, <3>2, <4>4, <1>OtherMotions, Zenon
    <3> QED BY <3>3, <3>4, Zenon
  <2>8. CASE reset(SendAll(<<>>, <<241>>))
    BY <2>8, <1>ResetMotions, Zenon DEF Anew
  <2> QED BY <2>1, <2>5, <2>6, <2>7, <2>8, ZenonT(30)
<1>1. Init => Motions
  <2> SUFFICES ASSUME Init PROVE Motions
    BY Zenon
  <2>1. /\ queue = <<>> /\ yaxis_reversed = FALSE /\ outbuffer = <<>>
        /\ balance = [x |-> 0, y |-> 0]
    BY Zenon DEF Init
  <2>2. queue \in Seq(Byte) /\ Len(queue) = 0
    BY <2>1, EmptySeq, Zenon
  <2>3. \A place : Total(queue, place) = 0
    BY <2>2, <1>TotalIs, Zenon
  <2>4. MotionConserved
    BY <2>1, <2>3, Zenon DEF MotionConserved
  <2>5. Upright
    BY <2>1, EmptySeq, Zenon DEF Upright
  <2>6. balance \in [x : Int, y : Int]
    BY <2>1
  <2> QED BY <2>4, <2>5, <2>6, Zenon DEF Motions
<1>2. IInv /\ Motions /\ [Next]_vars => Motions'
  <2> SUFFICES ASSUME IInv, Motions, [Next]_vars PROVE Motions'
    BY Zenon
  <2>1. CASE HostEvent
    BY <2>1, <1>OtherEventMotions, <1>MouseMotions, Zenon
       DEF HostEvent, SendJoystickAxis, SendJoystickHat, SendJoystickButton
  <2>2. CASE GuestStep
    <3>1. ASSUME \/ ReadNothing \/ TakeInterrupt \/ ACIAReset
                 \/ \E on \in Enables : WriteIER(on) \/ WriteControl(on)
          PROVE  Motions'
      <4>1. /\ queue' = queue /\ balance' = balance /\ lossy' = lossy
            /\ yaxis_reversed' = yaxis_reversed /\ outbuffer' = outbuffer
        BY <3>1, Zenon DEF ReadNothing, TakeInterrupt, ACIAReset, WriteIER, WriteControl, config
      <4> QED BY <4>1, <1>UprightStays, <1>MotionsStay, Zenon
    <3> QED BY <2>2, <3>1, <1>ReadMotions, <1>WriteMotions, Zenon DEF GuestStep
  <2>3. CASE HWReset
    BY <2>3, <1>ResetMotions, Zenon DEF HWReset, Anew
  <2>4. CASE UNCHANGED vars
    <3>1. /\ queue' = queue /\ balance' = balance /\ lossy' = lossy
          /\ yaxis_reversed' = yaxis_reversed /\ outbuffer' = outbuffer
      BY <2>4, Zenon DEF vars, config
    <3> QED BY <3>1, <1>UprightStays, <1>MotionsStay, Zenon
  <2> QED BY <2>1, <2>2, <2>3, <2>4, Zenon DEF Next
<1>3. Motions => MotionConserved
  BY Zenon DEF Motions
<1> QED BY <1>1, <1>2, <1>3, Invariance, PTL DEF Spec
=============================================================================
