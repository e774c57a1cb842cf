---------------------------- MODULE EthernetProofs ----------------------------
(***************************************************************************)
(* The packets of one interface that is started once, for any number of    *)
(* packets.  With two interfaces, or with a second receive thread of the   *)
(* same one, the theorem is false: Ethernet_two.cfg.                       *)
(***************************************************************************)
EXTENDS Ethernet, SequenceTheorems, TLAPS

(***************************************************************************)
(* The inductive invariant.                                                *)
(***************************************************************************)
Packet == [len : Nat, data : Nat]
Places == {"idle", "next", "ask", "length", "block", "ack"}
Labels == {"none", "recv", "length", "load", "store", "trigger", "wait", "blocked",
           "reload", "clear"}
ThreadType == [pc : Labels, word : SUBSET Dev, sem : Nat]

\* The types, for any interfaces and any number of starts.
TypeOK ==
  /\ arrived \in [Dev -> Nat] /\ packet \in [Dev -> Nat] /\ packet_length \in [Dev -> Nat]
  /\ intAck \in [Dev -> Nat] /\ starts \in [Dev -> Nat]
  /\ semaphore \in [Thread -> Nat]
  /\ thread \in [Thread -> ThreadType]
  /\ pending_interrupts \in SUBSET Dev /\ up \in SUBSET Dev
  /\ guest \in [at : Places, todo : SUBSET Dev, dev : Dev \cup {-1}, len : Nat]
  /\ guest.at \in {"ask", "length", "block", "ack"} => guest.dev \in Dev
  /\ got \in [Dev -> Seq(Packet)]

\* The interface's driver has looked at the interrupt and reads the packet.
Reads == guest.at \in {"length", "block", "ack"}

\* It is going to look, in the interrupt it has taken.
Looks(d) == (guest.at = "next" /\ d \in guest.todo) \/ guest.at = "ask"

\* The driver works on the interface whose handler it runs, once per interrupt.
DriverAt(d) == Reads \/ guest.at = "ask" => guest.dev = d /\ d \notin guest.todo

\* The semaphore the thread waits for is the one the driver posts, and a thread
\* exists from the start on.
OneSemaphore(d, pc) ==
  /\ pc = "none" <=> starts[d] = 0
  /\ pc # "none" => intAck[d] = 1
  /\ pc = "blocked" => thread[<<d, 1>>].sem = 1

AllRead(d) == arrived[d] = Len(got[d])
OneUnread(d) == arrived[d] = Len(got[d]) + 1
NotPosted(d) == semaphore[<<d, 1>>] = 0
PostedOnce(d) == semaphore[<<d, 1>>] = 1

\* While the receive thread has the buffer the driver keeps away from it: no
\* interrupt is requested or being served, and no acknowledgement is left.
ThreadOwns(d) == ~INT3 /\ ~Looks(d) /\ ~Reads /\ NotPosted(d)

\* While the thread waits, the packet is announced by at most one interrupt,
\* looked for at most once, read, and then acknowledged; the acknowledgement is
\* for a packet that was read.
DriverOwns(d) ==
  /\ INT3 \/ Looks(d) \/ guest.at \in {"length", "block"} => OneUnread(d) /\ NotPosted(d)
  /\ INT3 => ~Looks(d) /\ ~Reads
  /\ guest.at = "ack" => AllRead(d) /\ NotPosted(d)
  /\ NotPosted(d) \/ (AllRead(d) /\ PostedOnce(d))
  /\ AllRead(d) \/ OneUnread(d)

\* Who may touch the buffer, and how far reading is behind.
Turns(d, pc) ==
  /\ pc \notin {"wait", "blocked"} => ThreadOwns(d)
  /\ pc \in {"wait", "blocked"} => DriverOwns(d)
  /\ pc \in {"none", "recv", "reload", "clear"} => AllRead(d)
  /\ pc \in {"length", "load", "store", "trigger"} => OneUnread(d)

\* The buffer holds the packet that arrived last, and its length but for a moment.
Buffer(d, pc) ==
  /\ packet[d] = arrived[d]
  /\ pc # "length" => packet_length[d] = arrived[d]
  /\ guest.at = "block" => guest.len = arrived[d]

\* The packets read so far are the first ones that arrived.
InOrder(d) == \A k \in 1 .. Len(got[d]) : got[d][k] = [len |-> k, data |-> k]

Pc(d) == thread[<<d, 1>>].pc

IInv(d) ==
  /\ DriverAt(d) /\ OneSemaphore(d, Pc(d)) /\ Turns(d, Pc(d)) /\ Buffer(d, Pc(d))
  /\ InOrder(d)

AllIInv == TypeOK /\ \A d \in Dev : IInv(d)

\* What the theorems assume: one interface, started at most once.
OneInterface == (\E d : Dev = {d}) /\ MaxStarts = 1

(***************************************************************************)
(* The types, for any interfaces.                                          *)
(***************************************************************************)
\* A thread is an interface and the number of one of its starts.
LEMMA ThreadIs ==
  ASSUME NEW t \in Thread
  PROVE  t[1] \in Dev /\ t = <<t[1], t[2]>> /\ t[2] \in 1 .. MaxStarts
  BY DEF Thread

\* Posting or taking a semaphore leaves numbers.
LEMMA CountType ==
  ASSUME NEW S, NEW f \in [S -> Nat], NEW x, NEW n, x \in S => n \in Nat
  PROVE  [f EXCEPT ![x] = n] \in [S -> Nat]
  BY Zenon

\* Every step of a receive thread keeps the types.
LEMMA ThreadKeepsType ==
  ASSUME TypeOK, NEW t \in Thread, Receive(t) \/ ThreadStep(t)
  PROVE  TypeOK'
  <1> USE ConstantsAssumption DEF ThreadAt, Goto, handler, buffer
  <1>a. t[1] \in Dev /\ thread[t] \in ThreadType /\ arrived[t[1]] + 1 \in Nat
        /\ intAck[t[1]] \in Nat
    <2>1. t[1] \in Dev
      BY ThreadIs
    <2>2. thread[t] \in ThreadType
      BY DEF TypeOK
    <2>3. arrived[t[1]] \in Nat /\ intAck[t[1]] \in Nat
      BY <2>1, Zenon DEF TypeOK
    <2> QED
      BY <2>1, <2>2, <2>3
  <1>b. thread[t].word \in SUBSET Dev
    BY <1>a DEF ThreadType
  <1>1. CASE Receive(t)
    <2>1. thread' \in [Thread -> ThreadType]
      BY <1>a, <1>1, Zenon DEF TypeOK, Receive, ThreadType, Labels
    <2> QED
      BY <1>a, <1>1, <2>1, Zenon DEF TypeOK, Receive
  <1>2. CASE StoreLength(t)
    <2>1. thread' \in [Thread -> ThreadType]
      BY <1>a, <1>2, Zenon DEF TypeOK, StoreLength, ThreadType, Labels
    <2> QED
      BY <1>a, <1>2, <2>1, Zenon DEF TypeOK, StoreLength
  <1>3. CASE LoadPending(t)
    <2>1. thread' \in [Thread -> ThreadType]
      BY <1>a, <1>3, Zenon DEF TypeOK, LoadPending, ThreadType, Labels
    <2> QED
      BY <1>a, <1>3, <2>1, Zenon DEF TypeOK, LoadPending
  <1>4. CASE StorePending(t)
    <2>1. thread' \in [Thread -> ThreadType]
      BY <1>a, <1>4, Zenon DEF TypeOK, StorePending, ThreadType, Labels
    <2>2. pending_interrupts' \in SUBSET Dev
      BY <1>a, <1>b, <1>4 DEF StorePending
    <2> QED
      BY <1>4, <2>1, <2>2 DEF TypeOK, StorePending
  <1>5. CASE Trigger(t)
    <2>1. thread' \in [Thread -> ThreadType]
      BY <1>a, <1>5, Zenon DEF TypeOK, Trigger, ThreadType, Labels
    <2> QED
      BY <1>a, <1>5, <2>1, Zenon DEF TypeOK, Trigger
  <1>6. CASE WaitBegin(t)
    <2>1. thread' \in [Thread -> ThreadType]
      BY <1>a, <1>6, Zenon DEF TypeOK, WaitBegin, ThreadType, Labels
    <2> QED
      BY <1>a, <1>6, <2>1, Zenon DEF TypeOK, WaitBegin
  <1>7. CASE WaitEnd(t)
    <2>1. thread' \in [Thread -> ThreadType]
      BY <1>a, <1>7, Zenon DEF TypeOK, WaitEnd, ThreadType, Labels
    <2>2. PICK x : semaphore' = [semaphore EXCEPT ![x] = semaphore[x] - 1] /\ semaphore[x] > 0
      BY <1>7, Zenon DEF WaitEnd
    <2>3. x \in Thread => semaphore[x] - 1 \in Nat
      BY <2>2 DEF TypeOK
    <2>4. semaphore' \in [Thread -> Nat]
      BY <2>2, <2>3, CountType DEF TypeOK
    <2> QED
      BY <1>7, <2>1, <2>4, Zenon DEF TypeOK, WaitEnd
  <1>8. CASE ReloadPending(t)
    <2>1. thread' \in [Thread -> ThreadType]
      BY <1>a, <1>8, Zenon DEF TypeOK, ReloadPending, ThreadType, Labels
    <2> QED
      BY <1>a, <1>8, <2>1, Zenon DEF TypeOK, ReloadPending
  <1>9. CASE ClearPending(t)
    <2>1. thread' \in [Thread -> ThreadType]
      BY <1>a, <1>9, Zenon DEF TypeOK, ClearPending, AfterClear, ThreadType, Labels
    <2>2. pending_interrupts' \in SUBSET Dev
      BY <1>a, <1>b, <1>9 DEF ClearPending
    <2> QED
      BY <1>9, <2>1, <2>2 DEF TypeOK, ClearPending, AfterClear
  <1> QED
    BY <1>1, <1>2, <1>3, <1>4, <1>5, <1>6, <1>7, <1>8, <1>9 DEF ThreadStep

\* Every step of the guest, its driver and the machine keeps the types.
LEMMA GuestKeepsType ==
  ASSUME TypeOK,
         GuestStep \/ (\E d \in Dev : Start(d) \/ Register(d) \/ Stop(d)) \/ Reset
  PROVE  TypeOK'
  <1> USE ConstantsAssumption DEF handler, buffer, Idle, Places, Labels
  <1>1. CASE TakeInterrupt
    BY <1>1, Zenon DEF TypeOK, TakeInterrupt
  <1>2. CASE ReturnFromInterrupt
    BY <1>2 DEF TypeOK, ReturnFromInterrupt
  <1>3. ASSUME NEW d \in Dev, NextHandler(d)
        PROVE  TypeOK'
    BY <1>3, Zenon DEF TypeOK, NextHandler
  <1>4. CASE AskIRQ
    BY <1>4, Zenon DEF TypeOK, AskIRQ
  <1>5. CASE readPacketLength
    BY <1>5, Zenon DEF TypeOK, readPacketLength
  <1>6. CASE readPacket
    <2>1. guest.dev \in Dev /\ guest.len \in Nat
      BY <1>6 DEF TypeOK, readPacket
    <2>2. [len |-> guest.len, data |-> packet[guest.dev]] \in Packet
      BY <2>1, Zenon DEF TypeOK, Packet
    <2>3. Append(got[guest.dev], [len |-> guest.len, data |-> packet[guest.dev]]) \in Seq(Packet)
      BY <2>1, <2>2, AppendProperties, Zenon DEF TypeOK
    <2>4. got' \in [Dev -> Seq(Packet)]
      BY <1>6, <2>3 DEF TypeOK, readPacket
    <2> QED
      BY <1>6, <2>4, Zenon DEF TypeOK, readPacket
  <1>7. CASE AckIRQ
    <2>1. PICK x : semaphore' = [semaphore EXCEPT ![x] = semaphore[x] + 1]
      BY <1>7, Zenon DEF AckIRQ
    <2>2. x \in Thread => semaphore[x] + 1 \in Nat
      BY DEF TypeOK
    <2>3. semaphore' \in [Thread -> Nat]
      BY <2>1, <2>2, CountType DEF TypeOK
    <2> QED
      BY <1>7, <2>3, Zenon DEF TypeOK, AckIRQ
  <1>8. ASSUME NEW d \in Dev, Start(d)
        PROVE  TypeOK'
    <2>1. starts[d] + 1 \in Nat
      BY DEF TypeOK
    <2>2. PICK x : thread' = [thread EXCEPT ![x].pc = "recv"]
      BY <1>8, Zenon DEF Start
    <2>3. thread' \in [Thread -> ThreadType]
      <3>1. thread \in [Thread -> ThreadType]
        BY Zenon DEF TypeOK
      <3>2. x \in Thread => [thread[x] EXCEPT !.pc = "recv"] \in ThreadType
        BY <3>1, Zenon DEF ThreadType, Labels
      <3> QED
        BY <2>2, <3>1, <3>2, Zenon
    <2> QED
      BY <1>8, <2>1, <2>3, Zenon DEF TypeOK, Start
  <1>9. ASSUME NEW d \in Dev, Register(d)
        PROVE  TypeOK'
    BY <1>9, Zenon DEF TypeOK, Register
  <1>10. ASSUME NEW d \in Dev, Stop(d)
         PROVE  TypeOK'
    BY <1>10, Zenon DEF TypeOK, Stop
  <1>11. CASE Reset
    BY <1>11, Zenon DEF TypeOK, Reset
  <1> QED
    BY <1>1, <1>2, <1>3, <1>4, <1>5, <1>6, <1>7, <1>8, <1>9, <1>10, <1>11 DEF GuestStep

\* The types are an invariant of the module, whatever the constants.
LEMMA Types == Spec => []TypeOK
  <1>1. Init => TypeOK
    BY ConstantsAssumption DEF Init, TypeOK, NoThread, Idle, Packet, Places, ThreadType, Labels
  <1>2. TypeOK /\ [Next]_vars => TypeOK'
    <2> SUFFICES ASSUME TypeOK, [Next]_vars
                 PROVE  TypeOK'
      OBVIOUS
    <2>1. CASE UNCHANGED vars
      BY <2>1 DEF TypeOK, vars, handler, buffer
    <2> QED
      BY <2>1, ThreadKeepsType, GuestKeepsType DEF Next
  <1> QED
    BY <1>1, <1>2, PTL DEF Spec

(***************************************************************************)
(* One interface, started once.                                            *)
(***************************************************************************)
\* It has one thread.
LEMMA OneThread ==
  ASSUME NEW d, Dev = {d}, MaxStarts = 1
  PROVE  Thread = {<<d, 1>>} /\ d \in Nat
  <1>1. d \in 0 .. 7
    BY ConstantsAssumption
  <1>2. 1 .. MaxStarts = {1}
    OBVIOUS
  <1> QED
    BY <1>1, <1>2 DEF Thread

\* A step that touches neither the driver, the request, the count of packets nor
\* the semaphore leaves it to the label of the thread who may touch the buffer.
LEMMA KeepsTurns ==
  ASSUME NEW d, UNCHANGED <<INT3, guest, arrived, got, semaphore>>
  PROVE  /\ ThreadOwns(d)' <=> ThreadOwns(d)
         /\ DriverOwns(d)' <=> DriverOwns(d)
         /\ AllRead(d)' <=> AllRead(d)
         /\ OneUnread(d)' <=> OneUnread(d)
         /\ DriverAt(d)' <=> DriverAt(d)
         /\ InOrder(d)' <=> InOrder(d)
  BY DEF ThreadOwns, DriverOwns, AllRead, OneUnread, DriverAt, InOrder, NotPosted,
         PostedOnce, Looks, Reads

\* Every step of the thread keeps the invariant.
LEMMA ThreadIInv ==
  ASSUME NEW d, Dev = {d}, MaxStarts = 1, TypeOK, IInv(d),
         NEW t \in Thread, Receive(t) \/ ThreadStep(t)
  PROVE  IInv(d)'
  <1> USE DEF ThreadAt, Goto, handler, buffer
  <1>a. t = <<d, 1>> /\ t[1] = d /\ d \in Dev /\ t \in Thread
    BY OneThread
  <1>b. thread \in [Thread -> ThreadType] /\ arrived[d] \in Nat /\ Len(got[d]) \in Nat
    BY <1>a, LenProperties DEF TypeOK
  <1>1. CASE Receive(t)
    <2>1. Pc(d) = "recv" /\ Pc(d)' = "length"
      BY <1>1, <1>a, <1>b DEF Receive, Pc
    <2>2. arrived'[d] = arrived[d] + 1 /\ packet'[d] = arrived[d] + 1
          /\ packet_length' = packet_length /\ starts' = starts /\ intAck' = intAck
      BY <1>1, <1>a, <1>b DEF Receive, TypeOK
    <2>3. INT3' = INT3 /\ guest' = guest /\ got' = got /\ semaphore' = semaphore
      BY <1>1 DEF Receive
    <2>4. ThreadOwns(d) /\ AllRead(d)
      BY <2>1 DEF IInv, Turns
    <2>5. ThreadOwns(d)' /\ DriverAt(d)' /\ InOrder(d)'
      BY <2>3, <2>4 DEF IInv, ThreadOwns, NotPosted, Looks, Reads, DriverAt, InOrder
    <2>6. OneUnread(d)'
      BY <2>2, <2>3, <2>4 DEF AllRead, OneUnread
    <2>7. guest'.at # "block"
      BY <2>5 DEF ThreadOwns, Reads
    <2>8. Turns(d, "length")' /\ Buffer(d, "length")'
      BY <2>2, <2>5, <2>6, <2>7 DEF Turns, Buffer
    <2>9. OneSemaphore(d, "length")'
      BY <2>1, <2>2 DEF IInv, OneSemaphore
    <2> QED
      BY <2>1, <2>5, <2>8, <2>9 DEF IInv
  <1>2. CASE StoreLength(t)
    <2>1. Pc(d) = "length" /\ Pc(d)' = "load" /\ UNCHANGED <<INT3, guest, arrived, got, semaphore>>
      BY <1>2, <1>a, <1>b DEF StoreLength, Pc
    <2>2. packet_length'[d] = packet[d] /\ UNCHANGED <<packet, starts, intAck>>
      BY <1>2, <1>a, <1>b DEF StoreLength, TypeOK
    <2>3. Turns(d, "load")' /\ DriverAt(d)' /\ InOrder(d)'
      BY <2>1, KeepsTurns DEF IInv, Turns
    <2>4. Buffer(d, "load")' /\ OneSemaphore(d, "load")'
      BY <2>1, <2>2 DEF IInv, Buffer, OneSemaphore
    <2> QED
      BY <2>1, <2>3, <2>4 DEF IInv
  <1>3. CASE LoadPending(t)
    <2>1. Pc(d) = "load" /\ Pc(d)' = "store" /\ UNCHANGED <<INT3, guest, arrived, got, semaphore>>
      BY <1>3, <1>a, <1>b DEF LoadPending, Pc
    <2>2. UNCHANGED <<packet, packet_length, starts, intAck>>
      BY <1>3 DEF LoadPending
    <2>3. Turns(d, "store")' /\ DriverAt(d)' /\ InOrder(d)'
      BY <2>1, KeepsTurns DEF IInv, Turns
    <2>4. Buffer(d, "store")' /\ OneSemaphore(d, "store")'
      BY <2>1, <2>2 DEF IInv, Buffer, OneSemaphore
    <2> QED
      BY <2>1, <2>3, <2>4 DEF IInv
  <1>4. CASE StorePending(t)
    <2>1. Pc(d) = "store" /\ Pc(d)' = "trigger" /\ UNCHANGED <<INT3, guest, arrived, got, semaphore>>
      BY <1>4, <1>a, <1>b DEF StorePending, Pc
    <2>2. UNCHANGED <<packet, packet_length, starts, intAck>>
      BY <1>4 DEF StorePending
    <2>3. Turns(d, "trigger")' /\ DriverAt(d)' /\ InOrder(d)'
      BY <2>1, KeepsTurns DEF IInv, Turns
    <2>4. Buffer(d, "trigger")' /\ OneSemaphore(d, "trigger")'
      BY <2>1, <2>2 DEF IInv, Buffer, OneSemaphore
    <2> QED
      BY <2>1, <2>3, <2>4 DEF IInv
  <1>5. CASE ReloadPending(t)
    <2>1. Pc(d) = "reload" /\ Pc(d)' = "clear" /\ UNCHANGED <<INT3, guest, arrived, got, semaphore>>
      BY <1>5, <1>a, <1>b DEF ReloadPending, Pc
    <2>2. UNCHANGED <<packet, packet_length, starts, intAck>>
      BY <1>5 DEF ReloadPending
    <2>3. Turns(d, "clear")' /\ DriverAt(d)' /\ InOrder(d)'
      BY <2>1, KeepsTurns DEF IInv, Turns
    <2>4. Buffer(d, "clear")' /\ OneSemaphore(d, "clear")'
      BY <2>1, <2>2 DEF IInv, Buffer, OneSemaphore
    <2> QED
      BY <2>1, <2>3, <2>4 DEF IInv
  <1>6. CASE ClearPending(t)
    <2>1. Pc(d) = "clear" /\ Pc(d)' = "recv" /\ UNCHANGED <<INT3, guest, arrived, got, semaphore>>
      BY <1>6, <1>a, <1>b DEF ClearPending, AfterClear, Pc
    <2>2. UNCHANGED <<packet, packet_length, starts, intAck>>
      BY <1>6 DEF ClearPending
    <2>3. Turns(d, "recv")' /\ DriverAt(d)' /\ InOrder(d)'
      BY <2>1, KeepsTurns DEF IInv, Turns
    <2>4. Buffer(d, "recv")' /\ OneSemaphore(d, "recv")'
      BY <2>1, <2>2 DEF IInv, Buffer, OneSemaphore
    <2> QED
      BY <2>1, <2>3, <2>4 DEF IInv
  <1>7. CASE Trigger(t)
    <2>1. Pc(d) = "trigger" /\ Pc(d)' = "wait" /\ INT3'
          /\ UNCHANGED <<guest, arrived, got, semaphore, packet, packet_length, starts, intAck>>
      BY <1>7, <1>a, <1>b DEF Trigger, Pc
    <2>2. ThreadOwns(d) /\ OneUnread(d)
      BY <2>1 DEF IInv, Turns
    <2>3. /\ ~Looks(d)' /\ ~Reads' /\ NotPosted(d)' /\ OneUnread(d)'
          /\ DriverAt(d)' /\ InOrder(d)'
      BY <2>1, <2>2 DEF IInv, ThreadOwns, NotPosted, OneUnread, Looks, Reads, DriverAt, InOrder
    <2>4. DriverOwns(d)'
      BY <2>1, <2>3 DEF DriverOwns, Reads
    <2>5. Turns(d, "wait")'
      BY <2>4 DEF Turns
    <2>6. Buffer(d, "wait")' /\ OneSemaphore(d, "wait")'
      BY <2>1 DEF IInv, Buffer, OneSemaphore
    <2> QED
      BY <2>1, <2>3, <2>5, <2>6 DEF IInv
  <1>8. CASE WaitBegin(t)
    <2>1. Pc(d) = "wait" /\ Pc(d)' = "blocked" /\ thread'[<<d, 1>>].sem = intAck[d]
          /\ UNCHANGED <<INT3, guest, arrived, got, semaphore, packet, packet_length, starts, intAck>>
      BY <1>8, <1>a, <1>b DEF WaitBegin, Pc, ThreadType
    <2>2. Turns(d, "blocked")' /\ DriverAt(d)' /\ InOrder(d)'
      BY <2>1, KeepsTurns DEF IInv, Turns
    <2>3. Buffer(d, "blocked")' /\ OneSemaphore(d, "blocked")'
      BY <2>1 DEF IInv, Buffer, OneSemaphore
    <2> QED
      BY <2>1, <2>2, <2>3 DEF IInv
  <1>9. CASE WaitEnd(t)
    <2>1. Pc(d) = "blocked" /\ Pc(d)' = "reload"
          /\ UNCHANGED <<INT3, guest, arrived, got, packet, packet_length, starts, intAck>>
      BY <1>9, <1>a, <1>b DEF WaitEnd, Pc
    <2>2. thread[t].sem = 1 /\ DriverOwns(d)
      BY <1>a, <2>1 DEF IInv, OneSemaphore, Turns
    <2>3. semaphore[<<d, 1>>] > 0 /\ semaphore' = [semaphore EXCEPT ![<<d, 1>>] = semaphore[<<d, 1>>] - 1]
      BY <1>9, <1>a, <2>2 DEF WaitEnd
    <2>4. ~NotPosted(d) /\ AllRead(d) /\ PostedOnce(d)
      BY <2>2, <2>3 DEF DriverOwns, NotPosted
    <2>5. NotPosted(d)'
      BY <1>a, <2>3, <2>4 DEF PostedOnce, NotPosted, TypeOK
    <2>6. ~INT3 /\ ~Looks(d) /\ guest.at \notin {"length", "block", "ack"}
      BY <2>2, <2>4 DEF DriverOwns
    <2>7. ThreadOwns(d)' /\ AllRead(d)' /\ DriverAt(d)' /\ InOrder(d)'
      BY <2>1, <2>4, <2>5, <2>6 DEF IInv, ThreadOwns, AllRead, Looks, Reads, DriverAt, InOrder
    <2>8. Turns(d, "reload")'
      BY <2>7 DEF Turns
    <2>9. Buffer(d, "reload")' /\ OneSemaphore(d, "reload")'
      BY <2>1 DEF IInv, Buffer, OneSemaphore
    <2> QED
      BY <2>1, <2>7, <2>8, <2>9 DEF IInv
  <1> QED
    BY <1>1, <1>2, <1>3, <1>4, <1>5, <1>6, <1>7, <1>8, <1>9 DEF ThreadStep

\* The driver acts only while the thread waits.
LEMMA DriverHasTurn ==
  ASSUME NEW d, IInv(d), INT3 \/ Looks(d) \/ Reads
  PROVE  Pc(d) \in {"wait", "blocked"} /\ DriverOwns(d)
  BY DEF IInv, Turns, ThreadOwns

\* The steps of the driver keep the invariant.
LEMMA DriverIInv ==
  ASSUME NEW d, Dev = {d}, MaxStarts = 1, TypeOK, IInv(d), GuestStep
  PROVE  IInv(d)'
  <1> USE DEF handler, buffer
  <1>a. d \in Dev /\ <<d, 1>> \in Thread /\ arrived[d] \in Nat /\ got[d] \in Seq(Packet)
        /\ Len(got[d]) \in Nat
    <2>1. d \in Dev /\ <<d, 1>> \in Thread
      BY OneThread
    <2>2. arrived[d] \in Nat /\ got[d] \in Seq(Packet)
      BY <2>1 DEF TypeOK
    <2> QED
      BY <2>1, <2>2, LenProperties
  <1>b. guest \in [at : Places, todo : SUBSET Dev, dev : Dev \cup {-1}, len : Nat]
    BY DEF TypeOK
  <1>1. CASE TakeInterrupt
    <2>1. INT3 /\ ~INT3' /\ guest'.at = "next"
          /\ UNCHANGED <<thread, arrived, got, semaphore, packet, packet_length, starts, intAck>>
      BY <1>1, <1>b DEF TakeInterrupt
    <2>2. Pc(d) \in {"wait", "blocked"} /\ OneUnread(d) /\ NotPosted(d)
      BY <2>1, DriverHasTurn DEF DriverOwns
    <2>3. Pc(d)' = Pc(d) /\ OneUnread(d)' /\ NotPosted(d)' /\ ~Reads'
      BY <2>1, <2>2 DEF Pc, OneUnread, NotPosted, Reads
    <2>4. DriverOwns(d)' /\ DriverAt(d)'
      BY <2>1, <2>3 DEF DriverOwns, DriverAt
    <2>5. InOrder(d)' /\ Buffer(d, Pc(d))' /\ OneSemaphore(d, Pc(d))'
      BY <2>1, <2>3 DEF IInv, InOrder, Buffer, OneSemaphore
    <2> QED
      BY <2>2, <2>3, <2>4, <2>5 DEF IInv, Turns
  <1>2. CASE ReturnFromInterrupt
    <2>1. guest'.at = "idle"
          /\ UNCHANGED <<INT3, thread, arrived, got, semaphore, packet, packet_length, starts, intAck>>
      BY <1>2 DEF ReturnFromInterrupt, Idle
    <2>2. Pc(d)' = Pc(d) /\ ~Looks(d)' /\ ~Reads' /\ guest'.at \notin {"length", "block", "ack"}
      BY <2>1 DEF Pc, Looks, Reads
    <2>3. /\ AllRead(d)' <=> AllRead(d)
          /\ OneUnread(d)' <=> OneUnread(d)
          /\ NotPosted(d)' <=> NotPosted(d)
          /\ PostedOnce(d)' <=> PostedOnce(d)
          /\ INT3' <=> INT3
      BY <2>1 DEF AllRead, OneUnread, NotPosted, PostedOnce
    <2>4. ThreadOwns(d) => ThreadOwns(d)'
      BY <2>2, <2>3 DEF ThreadOwns
    <2>5. DriverOwns(d) => DriverOwns(d)'
      BY <2>2, <2>3 DEF DriverOwns
    <2>6. Turns(d, Pc(d))'
      BY <2>2, <2>3, <2>4, <2>5 DEF IInv, Turns
    <2>7. DriverAt(d)' /\ InOrder(d)' /\ Buffer(d, Pc(d))' /\ OneSemaphore(d, Pc(d))'
      BY <2>1, <2>2 DEF IInv, DriverAt, InOrder, Buffer, OneSemaphore
    <2> QED
      BY <2>6, <2>7 DEF IInv
  <1>3. ASSUME NEW e \in Dev, NextHandler(e)
        PROVE  IInv(d)'
    <2>1. e = d /\ Looks(d)
      BY <1>3 DEF NextHandler, Looks
    <2>2. /\ guest'.at = "ask" /\ guest'.dev = d /\ guest'.todo = guest.todo \ {d}
          /\ UNCHANGED <<INT3, thread, arrived, got, semaphore, packet, packet_length, starts, intAck>>
      BY <1>3, <2>1, <1>b DEF NextHandler
    <2>3. Pc(d) \in {"wait", "blocked"} /\ OneUnread(d) /\ NotPosted(d) /\ ~INT3
      BY <2>1, DriverHasTurn DEF DriverOwns
    <2>4. Pc(d)' = Pc(d) /\ OneUnread(d)' /\ NotPosted(d)' /\ ~INT3'
      BY <2>2, <2>3 DEF Pc, OneUnread, NotPosted
    <2>5. DriverOwns(d)' /\ DriverAt(d)'
      BY <2>2, <2>4 DEF DriverOwns, DriverAt
    <2>6. InOrder(d)' /\ Buffer(d, Pc(d))' /\ OneSemaphore(d, Pc(d))'
      BY <2>2, <2>4 DEF IInv, InOrder, Buffer, OneSemaphore
    <2> QED
      BY <2>3, <2>4, <2>5, <2>6 DEF IInv, Turns
  <1>4. CASE AskIRQ
    <2>1. /\ guest.at = "ask" /\ guest'.at \in {"length", "next"}
          /\ guest'.dev = guest.dev /\ guest'.todo = guest.todo
          /\ UNCHANGED <<INT3, thread, arrived, got, semaphore, packet, packet_length, starts, intAck>>
      BY <1>4, <1>b DEF AskIRQ
    <2>2. guest.dev = d /\ d \notin guest.todo /\ Looks(d)
      BY <2>1 DEF IInv, DriverAt, Looks
    <2>3. Pc(d) \in {"wait", "blocked"} /\ OneUnread(d) /\ NotPosted(d) /\ ~INT3
      BY <2>2, DriverHasTurn DEF DriverOwns
    <2>4. Pc(d)' = Pc(d) /\ OneUnread(d)' /\ NotPosted(d)' /\ ~INT3'
      BY <2>1, <2>3 DEF Pc, OneUnread, NotPosted
    <2>5. DriverOwns(d)' /\ DriverAt(d)'
      BY <2>1, <2>2, <2>4 DEF DriverOwns, DriverAt
    <2>6. InOrder(d)' /\ Buffer(d, Pc(d))' /\ OneSemaphore(d, Pc(d))'
      BY <2>1, <2>4 DEF IInv, InOrder, Buffer, OneSemaphore
    <2> QED
      BY <2>3, <2>4, <2>5, <2>6 DEF IInv, Turns
  <1>5. CASE readPacketLength
    <2>1. Reads /\ guest.at = "length"
      BY <1>5 DEF readPacketLength, Reads
    <2>2. guest.dev = d /\ d \notin guest.todo
      BY <2>1 DEF IInv, DriverAt
    <2>3. /\ guest'.at = "block" /\ guest'.dev = guest.dev /\ guest'.todo = guest.todo
          /\ guest'.len = packet_length[d]
          /\ UNCHANGED <<INT3, thread, arrived, got, semaphore, packet, packet_length, starts, intAck>>
      BY <1>5, <1>b, <2>2 DEF readPacketLength
    <2>4. Pc(d) \in {"wait", "blocked"} /\ OneUnread(d) /\ NotPosted(d) /\ ~INT3
      BY <2>1, DriverHasTurn DEF DriverOwns
    <2>5. Pc(d)' = Pc(d) /\ OneUnread(d)' /\ NotPosted(d)' /\ ~INT3'
      BY <2>3, <2>4 DEF Pc, OneUnread, NotPosted
    <2>6. DriverOwns(d)' /\ DriverAt(d)'
      BY <2>2, <2>3, <2>5 DEF DriverOwns, DriverAt
    <2>7. InOrder(d)' /\ Buffer(d, Pc(d))' /\ OneSemaphore(d, Pc(d))'
      BY <2>3, <2>4, <2>5 DEF IInv, InOrder, Buffer, OneSemaphore
    <2> QED
      BY <2>4, <2>5, <2>6, <2>7 DEF IInv, Turns
  <1>6. CASE readPacket
    <2>1. Reads /\ guest.at = "block"
      BY <1>6 DEF readPacket, Reads
    <2>2. guest.dev = d /\ d \notin guest.todo /\ guest.len = arrived[d] /\ packet[d] = arrived[d]
      BY <2>1 DEF IInv, DriverAt, Buffer
    <2>3. /\ guest'.at = "ack" /\ guest'.dev = guest.dev /\ guest'.todo = guest.todo
          /\ got'[d] = Append(got[d], [len |-> arrived[d], data |-> arrived[d]])
          /\ UNCHANGED <<INT3, thread, arrived, semaphore, packet, packet_length, starts, intAck>>
      BY <1>6, <1>a, <1>b, <2>2 DEF readPacket, TypeOK
    <2>4. Pc(d) \in {"wait", "blocked"} /\ OneUnread(d) /\ NotPosted(d) /\ ~INT3
      BY <2>1, DriverHasTurn DEF DriverOwns
    <2>5. [len |-> arrived[d], data |-> arrived[d]] \in Packet
      BY <1>a DEF Packet
    <2>6. /\ Len(got'[d]) = Len(got[d]) + 1
          /\ got'[d][Len(got[d]) + 1] = [len |-> arrived[d], data |-> arrived[d]]
          /\ \A k \in 1 .. Len(got[d]) : got'[d][k] = got[d][k]
      BY <1>a, <2>3, <2>5, AppendProperties
    <2>7. arrived[d] = Len(got[d]) + 1
      BY <2>4 DEF OneUnread
    <2>8. Pc(d)' = Pc(d) /\ AllRead(d)' /\ NotPosted(d)' /\ ~INT3'
      BY <2>3, <2>4, <2>6, <2>7 DEF Pc, AllRead, NotPosted
    <2>9. InOrder(d)'
      <3>1. \A k \in 1 .. Len(got[d]) : got[d][k] = [len |-> k, data |-> k]
        BY DEF IInv, InOrder
      <3>2. ASSUME NEW k \in 1 .. Len(got'[d])
            PROVE  got'[d][k] = [len |-> k, data |-> k]
        <4>1. k \in 1 .. Len(got[d]) \/ k = Len(got[d]) + 1
          BY <1>a, <2>6
        <4> QED
          BY <2>6, <2>7, <3>1, <4>1
      <3> QED
        BY <3>2 DEF InOrder
    <2>10. DriverOwns(d)' /\ DriverAt(d)'
      BY <2>2, <2>3, <2>8 DEF DriverOwns, DriverAt, Looks
    <2>11. Buffer(d, Pc(d))' /\ OneSemaphore(d, Pc(d))'
      BY <2>3, <2>8 DEF IInv, Buffer, OneSemaphore
    <2> QED
      BY <2>4, <2>8, <2>9, <2>10, <2>11 DEF IInv, Turns
  <1>7. CASE AckIRQ
    <2>1. Reads /\ guest.at = "ack"
      BY <1>7 DEF AckIRQ, Reads
    <2>2. guest.dev = d /\ d \notin guest.todo
      BY <2>1 DEF IInv, DriverAt
    <2>3. Pc(d) \in {"wait", "blocked"} /\ AllRead(d) /\ NotPosted(d) /\ ~INT3
      BY <2>1, DriverHasTurn DEF DriverOwns
    <2>4. intAck[d] = 1
      BY <2>3 DEF IInv, OneSemaphore
    <2>5. /\ guest'.at = "next" /\ guest'.todo = guest.todo
          /\ semaphore' = [semaphore EXCEPT ![<<d, 1>>] = semaphore[<<d, 1>>] + 1]
          /\ UNCHANGED <<INT3, thread, arrived, got, packet, packet_length, starts, intAck>>
      BY <1>7, <1>b, <2>2, <2>4 DEF AckIRQ
    <2>6. Pc(d)' = Pc(d) /\ AllRead(d)' /\ PostedOnce(d)' /\ ~INT3'
      BY <1>a, <2>3, <2>5 DEF Pc, AllRead, NotPosted, PostedOnce, TypeOK
    <2>7. ~Looks(d)' /\ ~Reads' /\ guest'.at \notin {"length", "block", "ack"}
      BY <2>2, <2>5 DEF Looks, Reads
    <2>8. DriverOwns(d)' /\ DriverAt(d)'
      BY <2>5, <2>6, <2>7 DEF DriverOwns, DriverAt
    <2>9. InOrder(d)' /\ Buffer(d, Pc(d))' /\ OneSemaphore(d, Pc(d))'
      BY <2>5, <2>6 DEF IInv, InOrder, Buffer, OneSemaphore
    <2> QED
      BY <2>3, <2>6, <2>8, <2>9 DEF IInv, Turns
  <1> QED
    BY <1>1, <1>2, <1>3, <1>4, <1>5, <1>6, <1>7 DEF GuestStep

\* Starting, registering, stopping and resetting keep the invariant.
LEMMA MachineIInv ==
  ASSUME NEW d, Dev = {d}, MaxStarts = 1, TypeOK, IInv(d),
         (\E e \in Dev : Start(e) \/ Register(e) \/ Stop(e)) \/ Reset
  PROVE  IInv(d)'
  <1> USE DEF handler, buffer
  <1>a. d \in Dev /\ <<d, 1>> \in Thread
    BY OneThread
  <1>1. ASSUME NEW e \in Dev, Start(e)
        PROVE  IInv(d)'
    <2>1. e = d /\ starts[d] = 0
      BY <1>1, <1>a DEF Start, TypeOK
    <2>2. Pc(d) = "none"
      BY <2>1 DEF IInv, OneSemaphore
    <2>3. Pc(d)' = "recv" /\ starts'[d] = 1 /\ intAck'[d] = 1
          /\ UNCHANGED <<INT3, guest, arrived, got, semaphore, packet, packet_length>>
      <3>1. thread' = [thread EXCEPT ![<<d, 1>>].pc = "recv"]
        BY <1>1, <2>1 DEF Start
      <3>2. thread'[<<d, 1>>].pc = "recv"
        BY <1>a, <3>1 DEF TypeOK, ThreadType
      <3> QED
        BY <1>1, <1>a, <2>1, <3>2 DEF Start, Pc, TypeOK
    <2>4. Turns(d, "recv")' /\ DriverAt(d)' /\ InOrder(d)'
      BY <2>2, <2>3, KeepsTurns DEF IInv, Turns
    <2>5. Buffer(d, "recv")' /\ OneSemaphore(d, "recv")'
      BY <2>2, <2>3 DEF IInv, Buffer, OneSemaphore
    <2> QED
      BY <2>3, <2>4, <2>5 DEF IInv
  <1>2. ASSUME NEW e \in Dev, Register(e) \/ Stop(e)
        PROVE  IInv(d)'
    <2>1. UNCHANGED <<INT3, guest, thread, arrived, got, semaphore, packet, packet_length, starts, intAck>>
      BY <1>2 DEF Register, Stop
    <2>2. Pc(d)' = Pc(d)
      BY <2>1 DEF Pc
    <2>3. Turns(d, Pc(d))' /\ DriverAt(d)' /\ InOrder(d)'
      BY <2>1, <2>2, KeepsTurns DEF IInv, Turns
    <2>4. Buffer(d, Pc(d))' /\ OneSemaphore(d, Pc(d))'
      BY <2>1, <2>2 DEF IInv, Buffer, OneSemaphore
    <2> QED
      BY <2>3, <2>4 DEF IInv
  <1>3. CASE Reset
    <2>1. guest'.at = "idle" /\ ~INT3'
          /\ UNCHANGED <<thread, arrived, got, semaphore, packet, packet_length, starts, intAck>>
      BY <1>3 DEF Reset, Idle
    <2>2. Pc(d)' = Pc(d) /\ ~Looks(d)' /\ ~Reads' /\ guest'.at \notin {"length", "block", "ack"}
      BY <2>1 DEF Pc, Looks, Reads
    <2>3. /\ AllRead(d)' <=> AllRead(d)
          /\ OneUnread(d)' <=> OneUnread(d)
          /\ NotPosted(d)' <=> NotPosted(d)
          /\ PostedOnce(d)' <=> PostedOnce(d)
      BY <2>1 DEF AllRead, OneUnread, NotPosted, PostedOnce
    <2>4. ThreadOwns(d) => ThreadOwns(d)'
      BY <2>1, <2>2, <2>3 DEF ThreadOwns
    <2>5. DriverOwns(d) => DriverOwns(d)'
      BY <2>1, <2>2, <2>3 DEF DriverOwns
    <2>6. Turns(d, Pc(d))'
      BY <2>2, <2>3, <2>4, <2>5 DEF IInv, Turns
    <2>7. DriverAt(d)' /\ InOrder(d)' /\ Buffer(d, Pc(d))' /\ OneSemaphore(d, Pc(d))'
      BY <2>1, <2>2 DEF IInv, DriverAt, InOrder, Buffer, OneSemaphore
    <2> QED
      BY <2>6, <2>7 DEF IInv
  <1> QED
    BY <1>1, <1>2, <1>3

\* No interrupt is requested and nothing has arrived before the first start.
LEMMA InitIInv ==
  ASSUME NEW d, Dev = {d}, MaxStarts = 1, Init
  PROVE  IInv(d)
  <1>1. /\ Pc(d) = "none" /\ ~INT3 /\ guest.at = "idle" /\ arrived[d] = 0 /\ got[d] = <<>>
        /\ semaphore[<<d, 1>>] = 0 /\ packet[d] = 0 /\ packet_length[d] = 0 /\ starts[d] = 0
    BY OneThread, Zenon DEF Init, Pc, NoThread, Idle
  <1>2. Turns(d, "none")
    BY <1>1 DEF Turns, ThreadOwns, AllRead, NotPosted, Looks, Reads
  <1>3. DriverAt(d) /\ InOrder(d) /\ Buffer(d, "none") /\ OneSemaphore(d, "none")
    BY <1>1 DEF DriverAt, InOrder, Buffer, OneSemaphore, Reads
  <1> QED
    BY <1>1, <1>2, <1>3 DEF IInv

\* Every step keeps the invariant.
LEMMA NextIInv ==
  ASSUME NEW d, Dev = {d}, MaxStarts = 1, TypeOK, IInv(d), [Next]_vars
  PROVE  IInv(d)'
  <1>1. CASE UNCHANGED vars
    <2>1. UNCHANGED <<INT3, guest, thread, arrived, got, semaphore, packet, packet_length, starts, intAck>>
      BY <1>1 DEF vars, handler, buffer
    <2>2. Pc(d)' = Pc(d)
      BY <2>1 DEF Pc
    <2>3. Turns(d, Pc(d))' /\ DriverAt(d)' /\ InOrder(d)'
      BY <2>1, <2>2, KeepsTurns DEF IInv, Turns
    <2>4. Buffer(d, Pc(d))' /\ OneSemaphore(d, Pc(d))'
      BY <2>1, <2>2 DEF IInv, Buffer, OneSemaphore
    <2> QED
      BY <2>3, <2>4 DEF IInv
  <1> QED
    BY <1>1, ThreadIInv, DriverIInv, MachineIInv DEF Next

\* The invariant holds in every state of one interface that is started once.
THEOREM Invariance ==
  ASSUME OneInterface
  PROVE  Spec => []AllIInv
  <1>1. PICK eth : Dev = {eth} /\ MaxStarts = 1
    BY DEF OneInterface
  <1>2. Init => \A d \in Dev : IInv(d)
    BY <1>1, InitIInv
  <1>3. TypeOK /\ (\A d \in Dev : IInv(d)) /\ [Next]_vars => (\A d \in Dev : IInv(d))'
    BY <1>1, NextIInv
  <1> QED
    BY <1>2, <1>3, Types, PTL DEF Spec, AllIInv

\* The guest reads every packet of the interface once, whole and in the order of
\* arrival, and at most one is unread (receiveFunc, XIF_IRQ, XIF_READLENGTH and
\* XIF_READBLOCK), for any number of packets and wherever it is stopped or reset.
THEOREM PacketsAreReadOnce ==
  ASSUME OneInterface
  PROVE  Spec => []PacketsReadOnce
  <1>1. AllIInv => PacketsReadOnce
    <2> SUFFICES ASSUME AllIInv
                 PROVE  PacketsReadOnce
      OBVIOUS
    <2>0. PICK d : Dev = {d} /\ MaxStarts = 1
      BY DEF OneInterface
    <2>a. TypeOK /\ IInv(d)
      BY <2>0 DEF AllIInv
    <2>1. d \in Dev /\ got[d] \in Seq(Packet) /\ arrived[d] \in Nat
      BY <2>0, <2>a DEF TypeOK
    <2>2. DOMAIN got[d] = 1 .. Len(got[d]) /\ Len(got[d]) \in Nat
      BY <2>1, LenProperties
    <2>3. AllRead(d) \/ OneUnread(d)
      <3>1. thread[<<d, 1>>] \in ThreadType
        BY <2>0, <2>a, OneThread, Zenon DEF TypeOK
      <3>2. Pc(d) \in Labels
        BY <3>1 DEF Pc, ThreadType
      <3>3. Turns(d, Pc(d))
        BY <2>a DEF IInv
      <3> QED
        BY <3>2, <3>3 DEF Turns, DriverOwns, Labels
    <2>4. arrived[d] <= Len(got[d]) + 1
      BY <2>1, <2>2, <2>3 DEF AllRead, OneUnread
    <2> QED
      BY <2>0, <2>a, <2>2, <2>4 DEF PacketsReadOnce, IInv, InOrder
  <1> QED
    BY <1>1, Invariance, PTL

\* receiveFunc overwrites the buffer only after the packet in it has been read:
\* what the comment before SDL_SemWait promises holds with one interface.
THEOREM BufferIsKept ==
  ASSUME OneInterface
  PROVE  Spec => BufferKeptUntilRead
  <1>1. AllIInv /\ [Next]_vars =>
          [\A d \in Dev : packet'[d] # packet[d] =>
             packet[d] = 0 \/ \E i \in DOMAIN got[d] : got[d][i].data = packet[d]]_vars
    <2> SUFFICES ASSUME AllIInv, Next
                 PROVE  \A d \in Dev : packet'[d] # packet[d] =>
                          packet[d] = 0 \/ \E i \in DOMAIN got[d] : got[d][i].data = packet[d]
      OBVIOUS
    <2>0. PICK eth : Dev = {eth} /\ MaxStarts = 1
      BY DEF OneInterface
    <2>a. TypeOK /\ IInv(eth)
      BY <2>0 DEF AllIInv
    <2>1. ASSUME packet'[eth] # packet[eth]
          PROVE  \E t \in Thread : Receive(t)
      BY <2>1 DEF Next, ThreadStep, GuestStep, handler, buffer, StoreLength, LoadPending,
         StorePending, Trigger, WaitBegin, WaitEnd, ReloadPending, ClearPending, TakeInterrupt,
         ReturnFromInterrupt, NextHandler, AskIRQ, readPacketLength, readPacket, AckIRQ,
         Start, Register, Stop, Reset
    <2>2. ASSUME NEW t \in Thread, Receive(t)
          PROVE  packet[eth] = 0 \/ \E i \in DOMAIN got[eth] : got[eth][i].data = packet[eth]
      <3>1. AllRead(eth)
        BY <2>0, <2>a, <2>2, OneThread DEF Receive, ThreadAt, IInv, Turns, Pc
      <3>2. got[eth] \in Seq(Packet) /\ packet[eth] = Len(got[eth])
        BY <2>0, <2>a, <3>1 DEF AllRead, IInv, Buffer, TypeOK
      <3>3. DOMAIN got[eth] = 1 .. Len(got[eth]) /\ Len(got[eth]) \in Nat
        BY <3>2, LenProperties
      <3>4. packet[eth] # 0 => got[eth][packet[eth]] = [len |-> packet[eth], data |-> packet[eth]]
                             /\ packet[eth] \in DOMAIN got[eth]
        BY <2>a, <3>2, <3>3 DEF IInv, InOrder
      <3> QED
        BY <3>4
    <2> QED
      BY <2>0, <2>1, <2>2
  <1> QED
    BY <1>1, Invariance, PTL DEF Spec, BufferKeptUntilRead

===============================================================================
