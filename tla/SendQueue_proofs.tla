-------------------------- MODULE SendQueue_proofs ---------------------------
(***************************************************************************)
(* sendFifo called from one loop (Preempt = FALSE, routing/main.c), for    *)
(* every number of slots and every set of packets: the steps of            *)
(* queuePacket and processSendQueue make a bounded first in, first out     *)
(* queue.  MCSendQueue shows that with Preempt = TRUE they do not.         *)
(***************************************************************************)
EXTENDS SendQueue, SequenceTheorems, TLAPS

(* The ring buffer of packet_fifo.c: as long as its three counters agree, a     *)
(* write that found room appends a packet and a skip that found one drops the   *)
(* oldest.                                                                      *)

\* The slot k places after slot t, for k no greater than Slots.
Slot(t, k) == IF t + k < Slots THEN t + k ELSE t + k - Slots

\* The relation between the three counters that the ring buffer relies on.
Aligned(f) == f.stored <= Slots /\ f.h = Slot(f.t, f.stored)

\* The items a ring buffer whose counters agree holds, oldest first.
Contents(f) == [i \in 1 .. f.stored |-> f.data[Slot(f.t, i - 1)]]

\* A ring buffer whose counters agree and whose counted slots were written.
Sound(r) == r \in Fifo /\ Aligned(r) /\ \A i \in 1 .. r.stored : Contents(r)[i] \in Item

\* Walking k places from a slot ends in a slot, and one more place is Advance.
LEMMA SlotStep ==
  ASSUME NEW s \in Index, NEW k \in 0 .. Slots - 1
  PROVE  /\ Slot(s, k) \in Index
         /\ Slot(s, k + 1) = Advance(Slot(s, k))
         /\ Slot(Advance(s), k) = Slot(s, k + 1)
         /\ Advance(s) \in Index
  BY SlotsAssumption DEF Index, Slot, Advance

\* No two of the first Slots places counted from a slot are the same slot.
LEMMA SlotInjective ==
  ASSUME NEW s \in Index, NEW j \in 0 .. Slots - 1, NEW k \in 0 .. Slots - 1,
         Slot(s, j) = Slot(s, k)
  PROVE  j = k
  BY SlotsAssumption DEF Index, Slot

\* packet_fifo_isFull answers whether all the slots are in use.
LEMMA IsFullExact ==
  ASSUME NEW r, Sound(r)
  PROVE  packet_fifo_isFull(r) <=> r.stored = Slots
<1>1. r.stored \in 0 .. Slots /\ r.t \in Index /\ r.h = Slot(r.t, r.stored)
  BY SlotsAssumption DEF Sound, Fifo, Aligned
<1> QED
  BY <1>1, SlotsAssumption DEF Index, Slot, packet_fifo_isFull

\* What a sound buffer holds is a sequence of `stored' packets.
LEMMA ContentsSeq ==
  ASSUME NEW r, Sound(r)
  PROVE  Contents(r) \in Seq(Item) /\ Len(Contents(r)) = r.stored
<1>1. r.stored \in Nat
  BY DEF Sound, Fifo
<1>2. Contents(r) \in [1 .. r.stored -> Item]
  BY DEF Contents, Sound
<1> QED
  BY <1>1, <1>2

\* A write into a buffer that has room keeps it sound and appends the packet.
LEMMA WriteAppends ==
  ASSUME NEW r, Sound(r), ~packet_fifo_isFull(r), NEW x \in Item
  PROVE  /\ Sound(packet_fifo_write(r, x))
         /\ Contents(packet_fifo_write(r, x)) = Append(Contents(r), x)
<1> DEFINE w == packet_fifo_write(r, x)
<1>1. r.stored \in 0 .. Slots - 1
  BY IsFullExact, SlotsAssumption DEF Sound, Fifo, Aligned
<1>2. r.t \in Index /\ r.h = Slot(r.t, r.stored) /\ r.h \in Index
  BY DEF Sound, Fifo, Aligned
<1>3. w.stored = r.stored + 1 /\ w.t = r.t /\ w.h = Advance(r.h)
      /\ w.data = [r.data EXCEPT ![r.h] = x]
  BY <1>1, SlotsAssumption DEF packet_fifo_write
<1>4. w \in Fifo
  <2>1. Advance(r.h) \in Index
    BY <1>2, SlotStep, SlotsAssumption
  <2>2. [r.data EXCEPT ![r.h] = x] \in [Index -> Item \cup {None}]
    BY <1>2 DEF Sound, Fifo
  <2>3. (r.stored + 1) % 256 \in 0 .. 255
    BY <1>1, SlotsAssumption
  <2> QED
    BY <1>2, <2>1, <2>2, <2>3 DEF Fifo, packet_fifo_write
<1>5. Aligned(w)
  <2>1. Slot(r.t, r.stored + 1) = Advance(r.h)
    BY <1>1, <1>2, SlotStep
  <2>2. r.stored + 1 <= Slots
    BY <1>1, SlotsAssumption
  <2> QED
    BY <1>3, <2>1, <2>2 DEF Aligned
<1>6. ASSUME NEW i \in 1 .. r.stored + 1
      PROVE  Contents(w)[i] = Append(Contents(r), x)[i]
  <2>1. Contents(w)[i] = w.data[Slot(r.t, i - 1)]
    BY <1>1, <1>3 DEF Contents
  <2>2. i - 1 \in 0 .. Slots - 1 /\ Slot(r.t, i - 1) \in Index
    <3>1. i - 1 \in 0 .. Slots - 1
      BY <1>1, SlotsAssumption
    <3> QED
      BY <1>2, <3>1, SlotStep
  <2>3. r.data \in [Index -> Item \cup {None}]
    BY DEF Sound, Fifo
  <2>4. CASE i = r.stored + 1
    BY <1>1, <1>2, <1>3, <2>1, <2>3, <2>4 DEF Contents
  <2>5. CASE i \in 1 .. r.stored
    <3>1. Slot(r.t, i - 1) # r.h
      BY <1>1, <1>2, <2>2, <2>5, SlotInjective
    <3>2. Contents(w)[i] = Contents(r)[i]
      BY <1>2, <1>3, <2>1, <2>2, <2>3, <2>5, <3>1 DEF Contents
    <3>3. Append(Contents(r), x)[i] = Contents(r)[i]
      BY <1>1, <2>5 DEF Contents
    <3> QED
      BY <3>2, <3>3
  <2>6. i = r.stored + 1 \/ i \in 1 .. r.stored
    BY <1>1, SlotsAssumption
  <2> QED
    BY <2>4, <2>5, <2>6
<1>7. Contents(r) \in Seq(Item) /\ Len(Contents(r)) = r.stored
  BY ContentsSeq
<1>8. Sound(w)
  <2>1. ASSUME NEW i \in 1 .. w.stored
        PROVE  Contents(w)[i] \in Item
    BY <1>3, <1>6, <1>7
  <2> QED
    BY <1>4, <1>5, <2>1 DEF Sound
<1>9. Contents(w) = Append(Contents(r), x)
  <2>1. Contents(w) \in Seq(Item) /\ Len(Contents(w)) = r.stored + 1
    BY <1>3, <1>8, ContentsSeq
  <2>2. Append(Contents(r), x) \in Seq(Item) /\ Len(Append(Contents(r), x)) = r.stored + 1
    BY <1>7
  <2> QED
    BY <1>6, <2>1, <2>2, SeqEqual
<1> QED
  BY <1>8, <1>9

\* A skip of a buffer that holds something keeps it sound and drops the oldest
\* packet, the one packet_fifo_peek shows.
LEMMA SkipDropsHead ==
  ASSUME NEW r, Sound(r), ~packet_fifo_isEmpty(r)
  PROVE  /\ Sound(packet_fifo_skip(r))
         /\ Contents(r) # <<>>
         /\ packet_fifo_peek(r) = Head(Contents(r))
         /\ packet_fifo_peek(r) \in Item
         /\ Contents(packet_fifo_skip(r)) = Tail(Contents(r))
<1> DEFINE w == packet_fifo_skip(r)
<1>1. r.stored \in 1 .. Slots
  BY DEF Sound, Fifo, Aligned, packet_fifo_isEmpty
<1>2. r.t \in Index /\ r.h = Slot(r.t, r.stored) /\ r.h \in Index
  BY DEF Sound, Fifo, Aligned
<1>3. w.stored = r.stored - 1 /\ w.t = Advance(r.t) /\ w.h = r.h /\ w.data = r.data
  BY <1>1, SlotsAssumption DEF packet_fifo_skip
<1>4. w \in Fifo
  <2>1. (r.stored + 255) % 256 \in 0 .. 255
    BY <1>1, SlotsAssumption
  <2>2. Advance(r.t) \in Index
    BY <1>2, SlotStep, SlotsAssumption
  <2>3. r.data \in [Index -> Item \cup {None}]
    BY DEF Sound, Fifo
  <2> QED
    BY <1>2, <2>1, <2>2, <2>3 DEF Fifo, packet_fifo_skip
<1>5. Aligned(w)
  <2>1. r.stored - 1 \in 0 .. Slots - 1 /\ (r.stored - 1) + 1 = r.stored
    BY <1>1, SlotsAssumption
  <2>2. Slot(Advance(r.t), r.stored - 1) = Slot(r.t, r.stored)
    BY <1>2, <2>1, SlotStep
  <2> QED
    BY <1>2, <1>3, <2>1, <2>2, SlotsAssumption DEF Aligned
<1>6. ASSUME NEW i \in 1 .. r.stored - 1
      PROVE  Contents(w)[i] = Contents(r)[i + 1]
  <2>1. i - 1 \in 0 .. Slots - 1 /\ (i - 1) + 1 = i /\ i \in 1 .. w.stored
        /\ i + 1 \in 1 .. r.stored /\ (i + 1) - 1 = i
    BY <1>1, <1>3, SlotsAssumption
  <2>2. Slot(Advance(r.t), i - 1) = Slot(r.t, i)
    BY <1>2, <2>1, SlotStep
  <2> QED
    BY <1>3, <2>1, <2>2 DEF Contents
<1>7. Contents(r) \in Seq(Item) /\ Len(Contents(r)) = r.stored /\ Contents(r) # <<>>
  BY <1>1, ContentsSeq
<1>8. Sound(w)
  <2>1. ASSUME NEW i \in 1 .. w.stored
        PROVE  Contents(w)[i] \in Item
    BY <1>1, <1>3, <1>6 DEF Sound
  <2> QED
    BY <1>4, <1>5, <2>1 DEF Sound
<1>9. packet_fifo_peek(r) = Contents(r)[1]
  <2>1. Slot(r.t, 0) = r.t
    BY <1>2, SlotsAssumption DEF Slot, Index
  <2> QED
    BY <1>1, <2>1 DEF Contents, packet_fifo_peek
<1>10. Contents(w) = Tail(Contents(r))
  <2>1. Contents(w) \in Seq(Item) /\ Len(Contents(w)) = r.stored - 1
    BY <1>3, <1>8, ContentsSeq
  <2>2. /\ Tail(Contents(r)) \in Seq(Item)
        /\ Len(Tail(Contents(r))) = r.stored - 1
        /\ \A i \in 1 .. r.stored - 1 : Tail(Contents(r))[i] = Contents(r)[i + 1]
    BY <1>7, HeadTailProperties
  <2> QED
    BY <1>6, <2>1, <2>2, SeqEqual
<1>11. Head(Contents(r)) = Contents(r)[1] /\ Contents(r)[1] \in Item
  BY <1>1, <1>7 DEF Sound
<1> QED
  BY <1>7, <1>8, <1>9, <1>10, <1>11

------------------------------------------------------------------------------
(* queuePacket and processSendQueue. *)

\* The fifo as the store of `stored++' will leave it.
Counted == [sendFifo EXCEPT !.stored = (sendFifo.stored + 1) % 256]

\* Before the head has moved, the fifo holds the packets queued.
Settled == Sound(sendFifo) /\ Contents(sendFifo) = queued

\* After it has moved, the fifo holds one more once it is counted.
Moved == /\ sendFifo \in Fifo
         /\ Sound(Counted)
         /\ Contents(Counted) = Append(queued, packet)
         /\ sendFifo.stored \in 0 .. Slots - 1
         /\ Len(queued) = sendFifo.stored

\* The inductive invariant: what holds at each step of queuePacket.
FifoInv ==
  /\ pc \in {"load", "store"} => Moved
  /\ pc \notin {"load", "store"} => Settled
  /\ pc = "tail" => sendFifo.stored > 0
  /\ pc \in {"copy", "head"} => ~packet_fifo_isFull(sendFifo)
  /\ pc = "head" => sendFifo.data[sendFifo.h] = packet
  /\ pc = "store" => tmp = sendFifo.stored

CallInv ==
  /\ pc \in Steps
  /\ packet \in Item \cup {None}
  /\ pc # "idle" => packet \in Item
  /\ tmp \in 0 .. 255
  /\ queued \in Seq(Item)
  /\ out \in Item \cup {None}
  /\ returned \in [ok : BOOLEAN, waiting : 0 .. Slots]
  /\ ~returned.ok => returned.waiting = Slots

IInv == CallInv /\ FifoInv

-----------------------------------------------------------------------------
\* The copy of a packet to the head of a fifo with room disturbs nothing.
LEMMA CopyHarmless ==
  ASSUME NEW r, Sound(r), ~packet_fifo_isFull(r), NEW x \in Item
  PROVE  LET w == [r EXCEPT !.data[r.h] = x]
         IN /\ Sound(w)
            /\ Contents(w) = Contents(r)
            /\ ~packet_fifo_isFull(w)
            /\ w.data[w.h] = x
<1> DEFINE w == [r EXCEPT !.data[r.h] = x]
<1>1. r \in Fifo /\ r.stored \in 0 .. Slots - 1 /\ r.t \in Index /\ r.h \in Index
      /\ r.h = Slot(r.t, r.stored)
  BY IsFullExact, SlotsAssumption DEF Sound, Fifo, Aligned
<1>2. w \in Fifo /\ w.h = r.h /\ w.t = r.t /\ w.stored = r.stored
      /\ w.data = [r.data EXCEPT ![r.h] = x]
  BY <1>1 DEF Fifo
<1>3. w.data[w.h] = x
  BY <1>1, <1>2 DEF Fifo
<1>4. ASSUME NEW i \in 1 .. r.stored
      PROVE  w.data[Slot(r.t, i - 1)] = r.data[Slot(r.t, i - 1)]
  <2>1. i - 1 \in 0 .. Slots - 1
    BY <1>1, SlotsAssumption
  <2>2. Slot(r.t, i - 1) \in Index
    BY <1>1, <2>1, SlotStep
  <2>3. Slot(r.t, i - 1) # r.h
    <3>1. r.stored \in 0 .. Slots - 1 /\ i - 1 # r.stored
      BY <1>1, SlotsAssumption
    <3> QED
      BY <1>1, <2>1, <3>1, SlotInjective
  <2> QED
    BY <1>1, <1>2, <2>2, <2>3 DEF Fifo
<1>5. Contents(w) = Contents(r)
  BY <1>2, <1>4 DEF Contents
<1>6. Sound(w)
  BY <1>2, <1>5 DEF Sound, Aligned
<1>7. ~packet_fifo_isFull(w)
  BY <1>2 DEF packet_fifo_isFull
<1> QED
  BY <1>3, <1>5, <1>6, <1>7

\* An empty fifo holds nothing, and a full one Slots packets.
LEMMA HowMany ==
  ASSUME Settled
  PROVE  /\ Len(queued) = sendFifo.stored
         /\ sendFifo.stored \in 0 .. Slots
         /\ packet_fifo_isEmpty(sendFifo) <=> queued = <<>>
         /\ packet_fifo_isFull(sendFifo) <=> Len(queued) = Slots
<1>1. Contents(sendFifo) \in Seq(Item) /\ Len(Contents(sendFifo)) = sendFifo.stored
  BY ContentsSeq DEF Settled
<1>2. sendFifo.stored \in 0 .. Slots
  BY SlotsAssumption DEF Settled, Sound, Fifo, Aligned
<1>3. packet_fifo_isFull(sendFifo) <=> sendFifo.stored = Slots
  BY IsFullExact DEF Settled
<1> QED
  BY <1>1, <1>2, <1>3 DEF Settled, packet_fifo_isEmpty

-----------------------------------------------------------------------------
LEMMA InitEstablishes == Init => IInv
<1> SUFFICES ASSUME Init PROVE IInv
  OBVIOUS
<1>1. CallInv
  BY SlotsAssumption DEF Init, CallInv, Steps
<1>2. Sound(sendFifo)
  BY SlotsAssumption
     DEF Init, packet_fifo_init, Sound, Fifo, Index, Aligned, Slot, Contents
<1>3. Contents(sendFifo) = queued
  BY DEF Init, packet_fifo_init, Contents
<1> QED
  BY <1>1, <1>2, <1>3 DEF Init, IInv, FifoInv, Settled

LEMMA CallStep ==
  ASSUME IInv, NEW x \in Item, Call(x)
  PROVE  IInv'
BY DEF IInv, CallInv, FifoInv, Settled, Call, Steps

LEMMA TestStoredStep ==
  ASSUME IInv, TestStored
  PROVE  IInv'
<1>1. Settled /\ CallInv /\ pc = "stored"
  BY DEF IInv, FifoInv, TestStored
<1>2. sendFifo.stored \in Nat
  BY <1>1, HowMany
<1>3. CallInv' /\ Settled' /\ pc' \in {"tail", "copy"}
  BY <1>1 DEF CallInv, Settled, TestStored, Steps
<1>4. CASE sendFifo.stored > 0
  BY <1>3, <1>4 DEF IInv, FifoInv, TestStored
<1>5. CASE ~(sendFifo.stored > 0)
  BY <1>3, <1>5 DEF IInv, FifoInv, TestStored, packet_fifo_isFull
<1> QED
  BY <1>4, <1>5

LEMMA TestTailStep ==
  ASSUME IInv, TestTail
  PROVE  IInv'
<1>1. Settled /\ CallInv /\ pc = "tail" /\ sendFifo.stored > 0
  BY DEF IInv, FifoInv, TestTail
<1>2. CASE sendFifo.t = sendFifo.h
  <2>1. Len(queued) = Slots
    BY <1>1, <1>2, HowMany DEF packet_fifo_isFull
  <2>2. returned' = [ok |-> FALSE, waiting |-> Slots] /\ pc' = "idle"
    BY <1>2, <2>1 DEF TestTail
  <2>3. CallInv'
    BY <1>1, <2>2, SlotsAssumption DEF CallInv, TestTail, Steps
  <2> QED
    BY <1>1, <2>2, <2>3 DEF IInv, FifoInv, Settled, TestTail
<1>3. CASE sendFifo.t # sendFifo.h
  <2>1. CallInv' /\ pc' = "copy"
    BY <1>1, <1>3 DEF CallInv, TestTail, Steps
  <2>2. ~packet_fifo_isFull(sendFifo)'
    BY <1>3 DEF TestTail, packet_fifo_isFull
  <2> QED
    BY <1>1, <2>1, <2>2 DEF IInv, FifoInv, Settled, TestTail
<1> QED
  BY <1>2, <1>3

LEMMA CopyDataStep ==
  ASSUME IInv, CopyData
  PROVE  IInv'
<1>1. Settled /\ CallInv /\ pc = "copy" /\ ~packet_fifo_isFull(sendFifo) /\ packet \in Item
  BY DEF IInv, FifoInv, CallInv, CopyData
<1>2. CallInv' /\ pc' = "head"
  BY <1>1 DEF CallInv, CopyData, Steps
<1>3. /\ Sound(sendFifo') /\ Contents(sendFifo') = Contents(sendFifo)
      /\ ~packet_fifo_isFull(sendFifo') /\ sendFifo'.data[sendFifo'.h] = packet
  BY <1>1, CopyHarmless DEF Settled, CopyData
<1> QED
  BY <1>1, <1>2, <1>3 DEF IInv, FifoInv, Settled, CopyData

LEMMA AdvanceHeadStep ==
  ASSUME IInv, AdvanceHead
  PROVE  IInv'
<1>1. /\ Settled /\ CallInv /\ pc = "head" /\ ~packet_fifo_isFull(sendFifo)
      /\ packet \in Item /\ sendFifo.data[sendFifo.h] = packet
  BY DEF IInv, FifoInv, CallInv, AdvanceHead
<1>2. CallInv' /\ pc' = "load"
  BY <1>1 DEF CallInv, AdvanceHead, Steps
<1>3. sendFifo \in Fifo /\ sendFifo.stored \in 0 .. Slots - 1 /\ Len(queued) = sendFifo.stored
  <2>1. sendFifo.stored # Slots
    BY <1>1, HowMany
  <2> QED
    BY <1>1, <2>1, HowMany, SlotsAssumption DEF Settled, Sound
<1>4. Counted' = packet_fifo_write(sendFifo, packet)
  <2>1. sendFifo' = [data |-> sendFifo.data, h |-> Advance(sendFifo.h), t |-> sendFifo.t,
                     stored |-> sendFifo.stored]
    BY <1>3 DEF AdvanceHead, Fifo
  <2>2. [sendFifo.data EXCEPT ![sendFifo.h] = packet] = sendFifo.data
    BY <1>1, <1>3 DEF Fifo
  <2> QED
    BY <2>1, <2>2 DEF Counted, packet_fifo_write
<1>5. Sound(Counted') /\ Contents(Counted') = Append(queued, packet)
  BY <1>1, <1>4, WriteAppends DEF Settled
<1>6. sendFifo'.stored = sendFifo.stored /\ packet' = packet /\ queued' = queued
  BY <1>3 DEF AdvanceHead, Fifo
<1>7. sendFifo' \in Fifo
  <2>1. Advance(sendFifo.h) \in Index
    BY <1>3, SlotStep, SlotsAssumption DEF Fifo
  <2> QED
    BY <1>3, <2>1 DEF AdvanceHead, Fifo
<1>8. Moved'
  BY <1>3, <1>5, <1>6, <1>7 DEF Moved
<1> QED
  BY <1>2, <1>8 DEF IInv, FifoInv

LEMMA LoadStoredStep ==
  ASSUME IInv, LoadStored
  PROVE  IInv'
<1>1. Moved /\ CallInv /\ pc = "load"
  BY DEF IInv, FifoInv, LoadStored
<1>2. Moved' /\ tmp' = sendFifo'.stored /\ pc' = "store"
  BY <1>1 DEF Moved, Counted, LoadStored
<1>3. CallInv'
  <2>1. tmp' \in 0 .. 255
    BY <1>1 DEF Moved, Fifo, LoadStored
  <2> QED
    BY <1>1, <2>1 DEF CallInv, LoadStored, Steps
<1> QED
  BY <1>2, <1>3 DEF IInv, FifoInv

LEMMA StoreStoredStep ==
  ASSUME IInv, StoreStored
  PROVE  IInv'
<1>1. Moved /\ CallInv /\ pc = "store" /\ tmp = sendFifo.stored /\ packet \in Item
  BY DEF IInv, FifoInv, CallInv, StoreStored
<1>2. sendFifo' = Counted /\ queued' = Append(queued, packet) /\ pc' = "idle"
  BY <1>1 DEF StoreStored, Counted
<1>3. Settled'
  BY <1>1, <1>2 DEF Moved, Settled
<1>4. Len(queued) \in 0 .. Slots
  BY <1>1, SlotsAssumption DEF Moved
<1>5. CallInv'
  BY <1>1, <1>2, <1>4 DEF CallInv, StoreStored, Steps
<1> QED
  BY <1>2, <1>3, <1>5 DEF IInv, FifoInv

\* Without preemption the interrupt's work falls between two calls.
LEMMA ConsumeStep ==
  ASSUME IInv, Preempt = FALSE, Consume
  PROVE  IInv' /\ queued # <<>> /\ out' = Head(queued) /\ queued' = Tail(queued)
<1>1. Settled /\ CallInv /\ pc = "idle" /\ ~packet_fifo_isEmpty(sendFifo)
  BY DEF IInv, FifoInv, Consume, packet_fifo_read
<1>2. /\ Sound(sendFifo') /\ Contents(sendFifo') = Tail(queued) /\ queued # <<>>
      /\ out' = Head(queued) /\ out' \in Item
  BY <1>1, SkipDropsHead DEF Settled, Consume, packet_fifo_read
<1>3. queued' = Tail(queued) /\ queued' \in Seq(Item)
  BY <1>1, <1>2 DEF Consume, packet_fifo_read, CallInv
<1>4. CallInv'
  BY <1>1, <1>2, <1>3 DEF CallInv, Consume, packet_fifo_read
<1> QED
  BY <1>1, <1>2, <1>3, <1>4 DEF IInv, FifoInv, Settled, Consume, packet_fifo_read

LEMMA IInvIsInductive ==
  ASSUME Preempt = FALSE
  PROVE  Spec => []IInv
<1>1. IInv /\ [Next]_vars => IInv'
  <2> SUFFICES ASSUME IInv, [Next]_vars PROVE IInv'
    OBVIOUS
  <2>1. ASSUME NEW x \in Item, Call(x) PROVE IInv'
    BY <2>1, CallStep
  <2>2. CASE TestStored
    BY <2>2, TestStoredStep
  <2>3. CASE TestTail
    BY <2>3, TestTailStep
  <2>4. CASE CopyData
    BY <2>4, CopyDataStep
  <2>5. CASE AdvanceHead
    BY <2>5, AdvanceHeadStep
  <2>6. CASE LoadStored
    BY <2>6, LoadStoredStep
  <2>7. CASE StoreStored
    BY <2>7, StoreStoredStep
  <2>8. CASE Consume
    BY <2>8, ConsumeStep
  <2>9. CASE UNCHANGED vars
    <3>1. (Settled' <=> Settled) /\ (Moved' <=> Moved)
      BY <2>9 DEF vars, Settled, Moved, Counted
    <3> QED
      BY <2>9, <3>1 DEF vars, IInv, CallInv, FifoInv
  <2> QED
    BY <2>1, <2>2, <2>3, <2>4, <2>5, <2>6, <2>7, <2>8, <2>9 DEF Next, Main
<1> QED
  BY <1>1, InitEstablishes, PTL DEF Spec

-----------------------------------------------------------------------------
\* Types: the offsets stay on slot boundaries and `stored' in its byte.
THEOREM TypeCorrect ==
  ASSUME Preempt = FALSE
  PROVE  Spec => []TypeOK
<1>1. IInv => TypeOK
  <2> SUFFICES ASSUME IInv PROVE TypeOK
    OBVIOUS
  <2>1. CASE pc \notin {"load", "store"}
    BY <2>1 DEF IInv, CallInv, FifoInv, Settled, Sound, TypeOK
  <2>2. CASE pc \in {"load", "store"}
    BY <2>2 DEF IInv, CallInv, FifoInv, Moved, TypeOK
  <2> QED
    BY <2>1, <2>2
<1> QED
  BY <1>1, IInvIsInductive, PTL

\* queuePacket refuses a packet only while Slots packets wait to be sent.
THEOREM RefusalsAreJustified ==
  ASSUME Preempt = FALSE
  PROVE  Spec => []RefusedOnlyWhenFull
<1>1. IInv => RefusedOnlyWhenFull
  BY DEF IInv, CallInv, RefusedOnlyWhenFull
<1> QED
  BY <1>1, IInvIsInductive, PTL

\* Between two calls, isEmpty answers 1 exactly when every packet accepted has
\* been taken out.
THEOREM EmptyIsExact ==
  ASSUME Preempt = FALSE
  PROVE  Spec => []EmptyWhenNothingQueued
<1>1. IInv => EmptyWhenNothingQueued
  BY HowMany DEF IInv, FifoInv, EmptyWhenNothingQueued
<1> QED
  BY <1>1, IInvIsInductive, PTL

\* The steps of queuePacket and processSendQueue implement the bounded queue:
\* the store of `stored' is a Put, the consumption of a packet is a Take, and
\* every other step changes nothing the users see.
THEOREM SendQueueImplementsQueue ==
  ASSUME Preempt = FALSE
  PROVE  Spec => ImplementsQueue
<1>1. Init => Queue!Init
  BY DEF Init, Queue!Init
<1>2. IInv /\ [Next]_vars => [Queue!Next]_<<queued, out>>
  <2> SUFFICES ASSUME IInv, [Next]_vars PROVE [Queue!Next]_<<queued, out>>
    OBVIOUS
  <2>1. CASE StoreStored
    <3>1. Moved /\ packet \in Item
      BY <2>1 DEF StoreStored, IInv, CallInv, FifoInv
    <3>2. Len(queued) < Slots
      BY <3>1, SlotsAssumption DEF Moved
    <3> QED
      BY <2>1, <3>1, <3>2 DEF StoreStored, Queue!Next, Queue!Put
  <2>2. CASE Consume
    BY <2>2, ConsumeStep DEF Queue!Next, Queue!Take
  <2>3. ASSUME NEW x \in Item, Call(x) PROVE UNCHANGED <<queued, out>>
    BY <2>3 DEF Call
  <2>4. CASE TestStored \/ TestTail \/ CopyData \/ AdvanceHead \/ LoadStored
    BY <2>4 DEF TestStored, TestTail, CopyData, AdvanceHead, LoadStored
  <2>5. CASE UNCHANGED vars
    BY <2>5 DEF vars
  <2> QED
    BY <2>1, <2>2, <2>3, <2>4, <2>5 DEF Next, Main
<1> QED
  BY <1>1, <1>2, IInvIsInductive, PTL DEF Spec, ImplementsQueue, Queue!Spec
=============================================================================
