------------------------------- MODULE Ethernet -------------------------------
(***************************************************************************)
(* The Ethernet native feature (src/src/natfeat/ethernet.cpp): one receive *)
(* thread per started device, and the guest's driver, which is told of a   *)
(* packet by interrupt level 3 and acknowledges it through a semaphore     *)
(* (src/atari/network/linux-m68k/atari_nfeth.c).                           *)
(*                                                                         *)
(* pending_interrupts is shared by all threads without a lock, so its "|=" *)
(* and "&=" are a load and a store.  stopThread forgets the thread but     *)
(* does not end it; a device started again has two.  A packet is its       *)
(* number.                                                                 *)
(***************************************************************************)
EXTENDS Integers, Sequences

CONSTANTS
  Dev,          \* the interfaces ethX that are configured
  MaxStarts,    \* bound on the starts of one interface
  MaxPackets    \* bound on the packets arriving at one interface

ASSUME ConstantsAssumption ==
  /\ Dev \subseteq 0..7
  /\ MaxStarts \in Nat
  /\ MaxPackets \in Nat

VARIABLES
  handlingThread, \* Handler::handlingThread; 0 is NULL
  intAck,         \* Handler::intAck, the semaphore of the last start
  packet,         \* Handler::packet, the number of the packet in the buffer
  packet_length,  \* Handler::packet_length, the packet it is the length of
  pending_interrupts,
  semaphore,      \* value of the semaphore of each start
  thread,         \* pc, loaded word and awaited semaphore of each thread
  INT3,           \* SPCFLAG_INT3
  starts,         \* number of starts of each interface
  arrived,        \* number of packets that arrived at each interface
  up,             \* interfaces whose interrupt handler the guest registered
  guest,          \* where the guest is in its interrupt handlers
  got             \* packets the guest has read from each interface

handler == <<handlingThread, intAck, starts>>
buffer == <<packet, packet_length>>
vars == <<handler, buffer, pending_interrupts, semaphore, thread, INT3, arrived,
          up, guest, got>>

\* A thread is named by its interface and the start that created it.
Thread == Dev \X (1..MaxStarts)
NoThread == [pc |-> "none", word |-> {}, sem |-> 0]
Idle == [at |-> "idle", todo |-> {}, dev |-> -1, len |-> 0]

Init ==
  /\ handlingThread = [d \in Dev |-> 0]
  /\ intAck = [d \in Dev |-> 0]
  /\ starts = [d \in Dev |-> 0]
  /\ packet = [d \in Dev |-> 0]
  /\ packet_length = [d \in Dev |-> 0]
  /\ pending_interrupts = {}
  /\ semaphore = [t \in Thread |-> 0]
  /\ thread = [t \in Thread |-> NoThread]
  /\ INT3 = FALSE
  /\ arrived = [d \in Dev |-> 0]
  /\ up = {}
  /\ guest = Idle
  /\ got = [d \in Dev |-> <<>>]

(***************************************************************************)
(* The receive thread: receiveFunc.                                        *)
(***************************************************************************)
ThreadAt(t, label) == thread[t].pc = label
Goto(t, label) == thread' = [thread EXCEPT ![t].pc = label]

\* recv fills the buffer, then its result is stored.
Receive(t) ==
  /\ ThreadAt(t, "recv")
  /\ arrived[t[1]] < MaxPackets
  /\ arrived' = [arrived EXCEPT ![t[1]] = @ + 1]
  /\ packet' = [packet EXCEPT ![t[1]] = arrived[t[1]] + 1]
  /\ Goto(t, "length")
  /\ UNCHANGED <<handler, packet_length, pending_interrupts, semaphore, INT3,
                 up, guest, got>>

StoreLength(t) ==
  /\ ThreadAt(t, "length")
  /\ packet_length' = [packet_length EXCEPT ![t[1]] = packet[t[1]]]
  /\ Goto(t, "load")
  /\ UNCHANGED <<handler, packet, pending_interrupts, semaphore, INT3, arrived,
                 up, guest, got>>

\* pending_interrupts |= (1 << ethX)
LoadPending(t) ==
  /\ ThreadAt(t, "load")
  /\ thread' = [thread EXCEPT ![t].pc = "store", ![t].word = pending_interrupts]
  /\ UNCHANGED <<handler, buffer, pending_interrupts, semaphore, INT3, arrived,
                 up, guest, got>>

StorePending(t) ==
  /\ ThreadAt(t, "store")
  /\ pending_interrupts' = thread[t].word \cup {t[1]}
  /\ thread' = [thread EXCEPT ![t].pc = "trigger", ![t].word = {}]
  /\ UNCHANGED <<handler, buffer, semaphore, INT3, arrived, up, guest, got>>

\* Mutant: the interrupt is not triggered.
TriggerNothing(t) ==
  /\ ThreadAt(t, "trigger")
  /\ Goto(t, "wait")
  /\ UNCHANGED <<handler, buffer, pending_interrupts, semaphore, INT3, arrived,
                 up, guest, got>>

\* TriggerInt3.
Trigger(t) ==
  /\ ThreadAt(t, "trigger")
  /\ INT3' = TRUE
  /\ Goto(t, "wait")
  /\ UNCHANGED <<handler, buffer, pending_interrupts, semaphore, arrived, up,
                 guest, got>>

\* SDL_SemWait(handler->intAck): the pointer is read when the wait begins.
WaitBegin(t) ==
  /\ ThreadAt(t, "wait")
  /\ thread' = [thread EXCEPT ![t].pc = "blocked", ![t].sem = intAck[t[1]]]
  /\ UNCHANGED <<handler, buffer, pending_interrupts, semaphore, INT3, arrived,
                 up, guest, got>>

\* Mutant: the wait returns without an acknowledgement.
WaitEndAlways(t) ==
  /\ ThreadAt(t, "blocked")
  /\ Goto(t, "reload")
  /\ UNCHANGED <<handler, buffer, pending_interrupts, semaphore, INT3, arrived,
                 up, guest, got>>

WaitEnd(t) ==
  LET sem == <<t[1], thread[t].sem>>
  IN  /\ ThreadAt(t, "blocked")
      /\ semaphore[sem] > 0
      /\ semaphore' = [semaphore EXCEPT ![sem] = @ - 1]
      /\ Goto(t, "reload")
      /\ UNCHANGED <<handler, buffer, pending_interrupts, INT3, arrived, up,
                     guest, got>>

\* pending_interrupts &= ~(1 << ethX)
ReloadPending(t) ==
  /\ ThreadAt(t, "reload")
  /\ thread' = [thread EXCEPT ![t].pc = "clear", ![t].word = pending_interrupts]
  /\ UNCHANGED <<handler, buffer, pending_interrupts, semaphore, INT3, arrived,
                 up, guest, got>>

AfterClear == "recv"

ClearPending(t) ==
  /\ ThreadAt(t, "clear")
  /\ pending_interrupts' = thread[t].word \ {t[1]}
  /\ thread' = [thread EXCEPT ![t].pc = AfterClear, ![t].word = {},
                               ![t].sem = 0]
  /\ UNCHANGED <<handler, buffer, semaphore, INT3, arrived, up, guest, got>>

ThreadStep(t) ==
  \/ StoreLength(t) \/ LoadPending(t) \/ StorePending(t)
  \/ Trigger(t) \/ WaitBegin(t) \/ WaitEnd(t)
  \/ ReloadPending(t) \/ ClearPending(t)

(***************************************************************************)
(* The guest's calls.  dispatch runs in the emulation thread, one call per *)
(* step; interrupt level 3 stays masked while a handler runs.              *)
(***************************************************************************)
\* XIF_START: startThread creates the semaphore and the thread unless the
\* handler has a thread already.
Start(d) ==
  /\ guest = Idle
  /\ handlingThread[d] = 0
  /\ starts[d] < MaxStarts
  /\ starts' = [starts EXCEPT ![d] = @ + 1]
  /\ intAck' = [intAck EXCEPT ![d] = starts[d] + 1]
  /\ handlingThread' = [handlingThread EXCEPT ![d] = starts[d] + 1]
  /\ thread' = [thread EXCEPT ![<<d, starts[d] + 1>>].pc = "recv"]
  /\ UNCHANGED <<buffer, pending_interrupts, semaphore, INT3, arrived, up,
                 guest, got>>

\* The driver registers its interrupt handler after XIF_START.
Register(d) ==
  /\ guest = Idle
  /\ handlingThread[d] # 0
  /\ d \notin up
  /\ up' = up \cup {d}
  /\ UNCHANGED <<handler, buffer, pending_interrupts, semaphore, thread, INT3,
                 arrived, guest, got>>

\* XIF_STOP: stopThread only forgets the thread.
Stop(d) ==
  /\ guest = Idle
  /\ d \in up
  /\ up' = up \ {d}
  /\ handlingThread' = [handlingThread EXCEPT ![d] = 0]
  /\ UNCHANGED <<intAck, starts, buffer, pending_interrupts, semaphore, thread,
                 INT3, arrived, guest, got>>

\* reset: stopThread for every handler.  The guest and its driver are gone, and
\* m68k_reset clears the flags.
Reset ==
  /\ \E d \in Dev : handlingThread[d] # 0
  /\ handlingThread' = [d \in Dev |-> 0]
  /\ up' = {}
  /\ guest' = Idle
  /\ INT3' = FALSE
  /\ UNCHANGED <<intAck, starts, buffer, pending_interrupts, semaphore, thread,
                 arrived, got>>

\* The CPU takes interrupt level 3 and calls the handlers registered for it.
TakeInterrupt ==
  /\ INT3
  /\ guest = Idle
  /\ INT3' = FALSE
  /\ guest' = [guest EXCEPT !.at = "next", !.todo = up]
  /\ UNCHANGED <<handler, buffer, pending_interrupts, semaphore, thread, arrived,
                 up, got>>

NextHandler(d) ==
  /\ guest.at = "next"
  /\ d \in guest.todo
  /\ guest' = [guest EXCEPT !.at = "ask", !.dev = d, !.todo = @ \ {d}]
  /\ UNCHANGED <<handler, buffer, pending_interrupts, semaphore, thread, INT3,
                 arrived, up, got>>

ReturnFromInterrupt ==
  /\ guest.at = "next"
  /\ guest.todo = {}
  /\ guest' = Idle
  /\ UNCHANGED <<handler, buffer, pending_interrupts, semaphore, thread, INT3,
                 arrived, up, got>>

\* XIF_IRQ(0) returns pending_interrupts.
AskIRQ ==
  /\ guest.at = "ask"
  /\ guest' = [guest EXCEPT
                 !.at = IF guest.dev \in pending_interrupts THEN "length" ELSE "next"]
  /\ UNCHANGED <<handler, buffer, pending_interrupts, semaphore, thread, INT3,
                 arrived, up, got>>

\* XIF_READLENGTH.
readPacketLength ==
  /\ guest.at = "length"
  /\ guest' = [guest EXCEPT !.at = "block", !.len = packet_length[guest.dev]]
  /\ UNCHANGED <<handler, buffer, pending_interrupts, semaphore, thread, INT3,
                 arrived, up, got>>

\* XIF_READBLOCK.
readPacket ==
  /\ guest.at = "block"
  /\ got' = [got EXCEPT ![guest.dev] =
               Append(@, [len |-> guest.len, data |-> packet[guest.dev]])]
  /\ guest' = [guest EXCEPT !.at = "ack", !.len = 0]
  /\ UNCHANGED <<handler, buffer, pending_interrupts, semaphore, thread, INT3,
                 arrived, up>>

\* Mutant: the acknowledgement does not reach the semaphore.
AckNothing ==
  /\ guest.at = "ack"
  /\ guest' = [guest EXCEPT !.at = "next"]
  /\ UNCHANGED <<handler, buffer, pending_interrupts, semaphore, thread, INT3,
                 arrived, up, got>>

\* XIF_IRQ(bit): post the semaphore the handler holds now.
AckIRQ ==
  /\ guest.at = "ack"
  /\ guest' = [guest EXCEPT !.at = "next"]
  /\ semaphore' = [semaphore EXCEPT ![<<guest.dev, intAck[guest.dev]>>] = @ + 1]
  /\ UNCHANGED <<handler, buffer, pending_interrupts, thread, INT3, arrived, up,
                 got>>

GuestStep ==
  \/ TakeInterrupt \/ ReturnFromInterrupt
  \/ \E d \in Dev : NextHandler(d)
  \/ AskIRQ \/ readPacketLength \/ readPacket \/ AckIRQ

Next ==
  \/ \E t \in Thread : Receive(t) \/ ThreadStep(t)
  \/ GuestStep
  \/ \E d \in Dev : Start(d) \/ Register(d) \/ Stop(d)
  \/ Reset

Spec == Init /\ [][Next]_vars

\* The host schedules every thread that can run, and the guest returns from
\* its interrupt handlers.  Nothing is assumed of the traffic.
FairSpec ==
  /\ Spec
  /\ \A t \in Thread : WF_vars(ThreadStep(t))
  /\ WF_vars(GuestStep)

(***************************************************************************)
(* Properties.                                                             *)
(***************************************************************************)
Blocked(t) == ThreadAt(t, "blocked")

\* The guest reads each packet once, whole and in the order of arrival, and at
\* most the one in the buffer is unread: receiveFunc waits for the driver to be
\* done with the buffer before it receives again.
PacketsReadOnce ==
  \A d \in Dev :
    /\ \A i \in DOMAIN got[d] : got[d][i] = [len |-> i, data |-> i]
    /\ arrived[d] <= Len(got[d]) + 1

\* A packet announced while the driver listens is read, unless the interface
\* goes down.
AnnouncedIsRead ==
  \A t \in Thread :
    (ThreadAt(t, "trigger") /\ t[1] \in up)
      ~> (Len(got[t[1]]) = arrived[t[1]] \/ t[1] \notin up)

\* The receive thread of a packet that has been read comes back to receive the
\* next one, unless the machine is reset before the driver acknowledges: no
\* acknowledgement is lost on its way.
ReadIsAcknowledged ==
  \A t \in Thread :
    (Blocked(t) /\ Len(got[t[1]]) = arrived[t[1]])
      ~> (ThreadAt(t, "recv") \/ t[1] \notin up)

\* ethernet.cpp, before SDL_SemWait: "Wait for interrupt acknowledge (m68k
\* network driver read interrupt to finish)".  A receive thread overwrites the
\* buffer only after the packet in it has been read.
BufferKeptUntilRead ==
  [][\A d \in Dev : packet'[d] # packet[d] =>
        packet[d] = 0
          \/ \E i \in DOMAIN got[d] : got[d][i].data = packet[d]]_vars
=============================================================================
