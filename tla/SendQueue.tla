------------------------------ MODULE SendQueue ------------------------------
(***************************************************************************)
(* sendFifo of routing.c and its two users.  queuePacket runs in the main  *)
(* loop (app/main.c:97,135) and is cut here at its accesses to the shared  *)
(* counters: `stored++' is a load and a store on the AVR, and nothing      *)
(* masks interrupts around it.  processSendQueue runs in the system timer  *)
(* interrupt (do_routing), which the main loop cannot interrupt.           *)
(*                                                                         *)
(* Preempt = TRUE is the application, where the timer may fire between any *)
(* two steps of queuePacket.  Preempt = FALSE is routing/main.c, whose     *)
(* loop calls queuePacket and processSendQueue one after the other.        *)
(***************************************************************************)
EXTENDS RingFifo

CONSTANT Preempt

ASSUME PreemptAssumption == Preempt \in BOOLEAN

VARIABLES
  sendFifo,
  pc,       \* where queuePacket stands
  packet,   \* its argument
  tmp,      \* the register between the load and the store of `stored++'
  returned, \* what the last call of queuePacket returned, and for how many waiting packets
  out,      \* the packet processSendQueue last took out to send
  queued    \* history: the packets accepted and not yet taken out, oldest first

vars == <<sendFifo, pc, packet, tmp, returned, out, queued>>

Steps == {"idle", "stored", "tail", "copy", "head", "load", "store"}

Init == /\ sendFifo = packet_fifo_init
        /\ pc = "idle"
        /\ packet = None
        /\ tmp = 0
        /\ returned = [ok |-> TRUE, waiting |-> 0]
        /\ out = None
        /\ queued = <<>>

-----------------------------------------------------------------------------
(* queuePacket, in the main loop. *)

Call(x) == /\ pc = "idle"
           /\ pc' = "stored"
           /\ packet' = x
           /\ UNCHANGED <<sendFifo, tmp, returned, out, queued>>

\* Wrong on purpose: `stored' is not asked, so the empty buffer looks full.
TestStoredSkipped == /\ pc = "stored"
                     /\ pc' = "tail"
                     /\ UNCHANGED <<sendFifo, packet, tmp, returned, out, queued>>

\* packet_fifo_isFull reads `stored' first ...
TestStored == /\ pc = "stored"
              /\ pc' = IF sendFifo.stored > 0 THEN "tail" ELSE "copy"
              /\ UNCHANGED <<sendFifo, packet, tmp, returned, out, queued>>

\* ... and then compares t with h; a full queue refuses the packet.
TestTail == /\ pc = "tail"
            /\ IF sendFifo.t = sendFifo.h
               THEN /\ pc' = "idle"
                    /\ returned' = [ok |-> FALSE, waiting |-> Len(queued)]
               ELSE pc' = "copy" /\ UNCHANGED returned
            /\ UNCHANGED <<sendFifo, packet, tmp, out, queued>>

CopyData == /\ pc = "copy"
            /\ pc' = "head"
            /\ sendFifo' = [sendFifo EXCEPT !.data[sendFifo.h] = packet]
            /\ UNCHANGED <<packet, tmp, returned, out, queued>>

AdvanceHead == /\ pc = "head"
               /\ pc' = "load"
               /\ sendFifo' = [sendFifo EXCEPT !.h = Advance(@)]
               /\ UNCHANGED <<packet, tmp, returned, out, queued>>

LoadStored == /\ pc = "load"
              /\ pc' = "store"
              /\ tmp' = sendFifo.stored
              /\ UNCHANGED <<sendFifo, packet, returned, out, queued>>

\* Wrong on purpose: the packet is not counted.
StoreStoredUncounted == /\ pc = "store"
                        /\ pc' = "idle"
                        /\ sendFifo' = [sendFifo EXCEPT !.stored = tmp]
                        /\ queued' = Append(queued, packet)
                        /\ returned' = [ok |-> TRUE, waiting |-> Len(queued)]
                        /\ UNCHANGED <<packet, tmp, out>>

StoreStored == /\ pc = "store"
               /\ pc' = "idle"
               /\ sendFifo' = [sendFifo EXCEPT !.stored = (tmp + 1) % 256]
               /\ queued' = Append(queued, packet)
               /\ returned' = [ok |-> TRUE, waiting |-> Len(queued)]
               /\ UNCHANGED <<packet, tmp, out>>

-----------------------------------------------------------------------------
(* processSendQueue, in the timer interrupt.  A packet whose destination   *)
(* has no route stays where it is, which is a step that changes nothing.   *)

\* Wrong on purpose: a packet is taken without asking isEmpty.
ConsumeUnasked == /\ Preempt \/ pc = "idle"
                  /\ out' = packet_fifo_peek(sendFifo)
                  /\ sendFifo' = packet_fifo_skip(sendFifo)
                  /\ queued' = IF queued = <<>> THEN queued ELSE Tail(queued)
                  /\ UNCHANGED <<pc, packet, tmp, returned>>

packet_fifo_read == /\ out' = packet_fifo_peek(sendFifo)
                    /\ sendFifo' = packet_fifo_skip(sendFifo)

Consume == /\ Preempt \/ pc = "idle"
           /\ ~packet_fifo_isEmpty(sendFifo)
           /\ packet_fifo_read
           /\ queued' = IF queued = <<>> THEN queued ELSE Tail(queued)
           /\ UNCHANGED <<pc, packet, tmp, returned>>

Main == \/ \E x \in Item : Call(x)
        \/ TestStored \/ TestTail \/ CopyData
        \/ AdvanceHead \/ LoadStored \/ StoreStored

Next == Main \/ Consume

Spec == Init /\ [][Next]_vars

-----------------------------------------------------------------------------
TypeOK == /\ sendFifo \in Fifo
          /\ pc \in Steps
          /\ packet \in Item \cup {None}
          /\ tmp \in 0..255
          /\ returned \in [ok : BOOLEAN, waiting : 0 .. Slots]
          /\ out \in Item \cup {None}
          /\ queued \in Seq(Item)

\* queuePacket refuses a packet (the host is then told nothing, main.c:135)
\* only when all the slots hold packets that wait to be sent.
RefusedOnlyWhenFull == ~returned.ok => returned.waiting = Slots

\* packet_fifo.h:24, "Returns 1 if empty, 0 if not empty": once queuePacket has
\* returned, processSendQueue finds the queue empty exactly when every accepted
\* packet has been taken out.
EmptyWhenNothingQueued == pc = "idle" => (packet_fifo_isEmpty(sendFifo) <=> queued = <<>>)

\* Without preemption the steps of queuePacket amount to one Put of a bounded
\* FIFO queue, and those of processSendQueue to a Take.
Queue == INSTANCE SlotQueue WITH q <- queued
ImplementsQueue == Queue!Spec
=============================================================================
