---------------------------- MODULE HostRx_proofs ----------------------------
(***************************************************************************)
(* The ring of lines between the USB interrupt and the main loop, for any  *)
(* buffer, any lines and any number of slots below 255.  The interrupt may *)
(* write at any step of the main loop and its count may be lost, so this   *)
(* is not the queue of SendQueue_proofs: the ring can hold more lines than *)
(* it counts.  What can be said is how much it counts at most, and that is *)
(* enough for the line that the main loop works on.  Where a line comes    *)
(* from does not depend on the count: Typing is about the buffer alone.    *)
(***************************************************************************)
EXTENDS HostRx, SequenceTheorems, TLAPS

\* The slots from t to h, all of them if the two are the same.
Gap == IF fifo.h > fifo.t THEN fifo.h - fifo.t ELSE fifo.h - fifo.t + Slots

\* `stored' counts no more than that, or one more while a line is being skipped,
\* and it is not 0 from peek to skip, so the ring is full when h comes to t.
Bounded == /\ pc \in {"idle", "working", "tail"} => fifo.stored <= Gap
           /\ pc \in {"load", "store"} => fifo.stored <= Gap + 1
           /\ pc # "idle" => fifo.stored >= 1
           /\ pc = "store" => tmp >= 1 /\ tmp <= Gap + 1

\* The line peeked at is still there.
Seen == pc = "working" => item = hostMsg_fifo_peek(fifo)

Counted == /\ fifo.stored <= Len(unread)
           /\ pc = "store" => tmp <= Len(unread)

IInv == TypeOK /\ Bounded /\ Seen /\ SlotUndisturbed /\ Counted

-----------------------------------------------------------------------------
(* The ring. *)

LEMMA Offsets ==
  ASSUME TypeOK
  PROVE  /\ Slots \in Nat /\ Slots >= 1
         /\ fifo.h \in 0 .. Slots - 1 /\ fifo.t \in 0 .. Slots - 1 /\ fifo.stored \in 0 .. 255
         /\ Gap \in 1 .. Slots
<1>1. Slots \in Nat /\ Slots >= 1
  BY SlotsAssumption
<1>2. /\ fifo.h \in 0 .. Slots - 1 /\ fifo.t \in 0 .. Slots - 1 /\ fifo.stored \in 0 .. 255
      /\ fifo.data \in [0 .. Slots - 1 -> Item \cup {None}]
  BY DEF TypeOK, Fifo, Index
<1>3. Gap \in 1 .. Slots
  BY <1>1, <1>2 DEF Gap
<1> QED
  BY <1>1, <1>2, <1>3

\* What rx_callback stores is a line.
LEMMA StoredIsLine ==
  ASSUME NEW m \in [len : 1 .. BufSize - 1, data : [0 .. BufSize - 1 -> Cell]]
  PROVE  Stored(m) \in Line /\ Stored(m) \in Item
<1>1. Stored(m) \in [1 .. m.len -> Cell]
  BY BufAssumption DEF Stored
<1> QED
  BY <1>1, ItemAssumption DEF Line

\* A write behind isFull disturbs nothing of what the invariant is about.
LEMMA WriteStep ==
  ASSUME IInv, Slots < 255, Room, NEW x \in Item,
         fifo' = packet_fifo_write(fifo, x), UNCHANGED mainVars
  PROVE  /\ fifo' \in Fifo /\ fifo'.stored = fifo.stored + 1
         /\ Bounded' /\ Seen' /\ SlotUndisturbed'
<1>1. /\ Slots \in Nat /\ Slots >= 1
      /\ fifo.h \in 0 .. Slots - 1 /\ fifo.t \in 0 .. Slots - 1 /\ fifo.stored \in 0 .. 255
      /\ Gap \in 1 .. Slots
  BY Offsets DEF IInv
<1> /\ Bounded /\ pc \in Steps /\ tmp \in 0 .. 255
    /\ pc' = pc /\ tmp' = tmp
  BY DEF IInv, TypeOK, mainVars
<1>2. fifo' \in Fifo
  <2>1. [fifo.data EXCEPT ![fifo.h] = x] \in [Index -> Item \cup {None}]
    BY DEF IInv, TypeOK, Fifo
  <2>2. Advance(fifo.h) \in Index /\ fifo.t \in Index /\ (fifo.stored + 1) % 256 \in 0 .. 255
    BY <1>1 DEF Advance, Index
  <2> QED
    BY <2>1, <2>2 DEF packet_fifo_write, Fifo
<1>3. fifo.stored = 0 \/ fifo.h # fifo.t
  BY <1>1 DEF Room, host_rx_isFull, packet_fifo_isFull
<1>4. fifo.stored <= 254 /\ fifo'.stored = fifo.stored + 1
  <2>1. fifo.stored <= Slots
    BY <1>1, <1>3 DEF Steps, Bounded, Gap
  <2> QED
    BY <1>1, <2>1, SlotsAssumption DEF packet_fifo_write
<1>5. fifo'.h = Advance(fifo.h) /\ fifo'.t = fifo.t /\ fifo'.data = [fifo.data EXCEPT ![fifo.h] = x]
  BY DEF packet_fifo_write
<1>6. Gap' = IF fifo.h = fifo.t THEN (IF Slots = 1 THEN Slots ELSE 1) ELSE Gap + 1
  BY <1>1, <1>5 DEF Gap, Advance
<1>7. Bounded'
  BY <1>1, <1>3, <1>4, <1>6 DEF Bounded, Steps
<1>8. Seen' /\ SlotUndisturbed'
  <2>1. pc = "working" => fifo.h # fifo.t
    BY <1>1, <1>3 DEF IInv, Bounded
  <2>2. fifo.data \in [Index -> Item \cup {None}] /\ fifo.h \in Index /\ fifo.t \in Index
    BY DEF IInv, TypeOK, Fifo
  <2> QED
    BY <1>5, <2>1, <2>2 DEF IInv, Seen, SlotUndisturbed, hostMsg_fifo_peek, packet_fifo_peek, mainVars
<1> QED
  BY <1>2, <1>4, <1>7, <1>8

-----------------------------------------------------------------------------
(* The interrupt. *)

Buffers == [0 .. BufSize - 1 -> Cell]

\* What is read into the buffer are characters.
LEMMA ReadIsBuffer ==
  ASSUME NEW data \in Buffers, NEW k \in Nat, NEW n \in Nat, n <= Len(pending),
         pending \in Seq(Char \cup {End})
  PROVE  Read(data, k, n) \in Buffers
<1>1. ASSUME NEW i \in DOMAIN data, i \in k .. k + n - 1, i \in Nat
      PROVE  pending[i - k + 1] \in Cell
  <2>1. Len(pending) \in Nat
    BY LenProperties
  <2>2. i - k + 1 \in 1 .. Len(pending)
    BY <1>1, <2>1
  <2> QED
    BY <2>2, ElementOfSeq DEF Cell
<1>2. DOMAIN data = 0 .. BufSize - 1 /\ \A i \in DOMAIN data : i \in Nat /\ data[i] \in Cell
  BY BufAssumption DEF Buffers
<1> QED
  BY <1>1, <1>2 DEF Read, Buffers

\* The count of the ring and the lines that are there go up together.
LEMMA CountStep ==
  ASSUME Counted, fifo.stored \in Nat, tmp \in Nat, Len(unread) \in Nat,
         fifo'.stored = fifo.stored + 1, Len(unread') = Len(unread) + 1, UNCHANGED <<pc, tmp>>
  PROVE  Counted'
<1>1. \A i, j \in Nat : i <= j => i <= j + 1 /\ i + 1 <= j + 1
  OBVIOUS
<1>2. fifo.stored + 1 <= Len(unread) + 1 /\ (pc = "store" => tmp <= Len(unread) + 1)
  BY <1>1, Zenon DEF Counted
<1> QED
  BY <1>2, Zenon DEF Counted

LEMMA CompleteStep ==
  ASSUME IInv, Slots < 255, NEW m \in [len : 1 .. BufSize - 1, data : Buffers],
         Complete(m), UNCHANGED mainVars
  PROVE  /\ fifo' \in Fifo /\ unread' \in Seq(Line)
         /\ Bounded' /\ Seen' /\ SlotUndisturbed' /\ Counted'
         /\ msg' \in [len : 0 .. BufSize - 2, data : Buffers]
<1>1. msg' \in [len : 0 .. BufSize - 2, data : Buffers]
  BY BufAssumption DEF Complete, reset_message
<1>2. CASE Room
  <2>1. Stored(m) \in Line /\ Stored(m) \in Item
    BY StoredIsLine DEF Buffers
  <2>2. fifo' = packet_fifo_write(fifo, Stored(m)) /\ unread' = Append(unread, Stored(m))
    BY <1>2 DEF Complete, hostMsg_fifo_write
  <2>3. /\ fifo' \in Fifo /\ fifo'.stored = fifo.stored + 1
        /\ Bounded' /\ Seen' /\ SlotUndisturbed'
    BY <1>2, <2>1, <2>2, WriteStep
  <2>4. unread' \in Seq(Line) /\ Len(unread') = Len(unread) + 1 /\ Len(unread) \in Nat
    BY <2>1, <2>2, AppendProperties, LenProperties DEF IInv, TypeOK
  <2>5. fifo.stored \in Nat /\ tmp \in Nat
    <3>1. fifo.stored \in 0 .. 255
      BY Offsets DEF IInv
    <3>2. tmp \in 0 .. 255
      BY DEF IInv, TypeOK
    <3> QED
      BY <3>1, <3>2
  <2>6. Counted'
    BY <2>3, <2>4, <2>5, CountStep DEF IInv, mainVars
  <2> QED
    BY <1>1, <2>3, <2>4, <2>6
<1>3. CASE ~Room
  <2>1. UNCHANGED <<fifo, unread, mainVars>>
    BY <1>3 DEF Complete
  <2> QED
    BY <1>1, <2>1 DEF IInv, TypeOK, Bounded, Gap, Seen, SlotUndisturbed, Counted, mainVars
<1> QED
  BY <1>2, <1>3

LEMMA GatherStep == ASSUME IInv, Slots < 255, Gather PROVE IInv'
<1> DEFINE len  == msg.len + Len(pending)
           data == Read(msg.data, msg.len, Len(pending))
<1>1. /\ pending # <<>>
      /\ pending' = <<>>
      /\ UNCHANGED <<spilled, mainVars>>
  BY Zenon DEF Gather
<1>2. \/ /\ len >= BufSize - 1
         /\ Complete([len |-> BufSize - 1, data |-> [data EXCEPT ![BufSize - 1] = Zero]])
      \/ /\ len < BufSize - 1
         /\ Complete([len |-> len, data |-> [data EXCEPT ![len - 1] = Zero]])
      \/ /\ len < BufSize - 1
         /\ msg' = [len |-> len, data |-> data]
         /\ UNCHANGED <<fifo, unread>>
  BY DEF Gather
<1>3. data \in Buffers
  BY ReadIsBuffer, LenProperties DEF IInv, TypeOK, Buffers
<1>4. len \in Nat /\ len >= 1 /\ BufSize \in Nat /\ BufSize >= 3
  <2>1. Len(pending) \in Nat /\ Len(pending) # 0
    BY <1>1, LenProperties, EmptySeq DEF IInv, TypeOK
  <2>2. msg.len \in Nat
    BY BufAssumption DEF IInv, TypeOK
  <2> QED
    BY <2>1, <2>2, BufAssumption
<1> HIDE DEF len, data
<1>5. /\ fifo' \in Fifo /\ unread' \in Seq(Line)
      /\ Bounded' /\ Seen' /\ SlotUndisturbed' /\ Counted'
      /\ msg' \in [len : 0 .. BufSize - 2, data : Buffers]
  <2>1. CASE Complete([len |-> BufSize - 1, data |-> [data EXCEPT ![BufSize - 1] = Zero]])
    <3>1. [len |-> BufSize - 1, data |-> [data EXCEPT ![BufSize - 1] = Zero]]
            \in [len : 1 .. BufSize - 1, data : Buffers]
      BY <1>3, <1>4 DEF Buffers, Cell
    <3> QED
      BY <1>1, <2>1, <3>1, CompleteStep
  <2>2. CASE len < BufSize - 1 /\ Complete([len |-> len, data |-> [data EXCEPT ![len - 1] = Zero]])
    <3>1. [len |-> len, data |-> [data EXCEPT ![len - 1] = Zero]] \in [len : 1 .. BufSize - 1, data : Buffers]
      BY <1>3, <1>4, <2>2 DEF Buffers, Cell
    <3> QED
      BY <1>1, <2>2, <3>1, CompleteStep
  <2>3. CASE len < BufSize - 1 /\ msg' = [len |-> len, data |-> data] /\ UNCHANGED <<fifo, unread>>
    <3>1. msg' \in [len : 0 .. BufSize - 2, data : Buffers]
      BY <1>3, <1>4, <2>3
    <3> QED
      BY <1>1, <2>3, <3>1 DEF IInv, TypeOK, Bounded, Gap, Seen, SlotUndisturbed, Counted, mainVars
  <2> QED
    BY <1>2, <2>1, <2>2, <2>3
<1>6. pending' \in Seq(Char \cup {End})
  BY <1>1, EmptySeq
<1> QED
  BY <1>1, <1>5, <1>6 DEF IInv, TypeOK, Buffers, mainVars

LEMMA OverfullStep == ASSUME IInv, Slots < 255, Overfull PROVE IInv'
<1> DEFINE num_to_read == BufSize - msg.len - 1
           m == [len |-> BufSize - 1, data |-> Read(msg.data, BufSize - 1, num_to_read)]
<1>1. /\ pending # <<>> /\ msg.len + Len(pending) - 1 >= BufSize
      /\ Complete(m)
      /\ pending' = SubSeq(pending, num_to_read + 1, Len(pending))
      /\ spilled' = (num_to_read > 1)
      /\ UNCHANGED mainVars
  BY Zenon DEF Overfull
<1>2. /\ Len(pending) \in Nat
      /\ num_to_read \in Nat /\ num_to_read + 1 \in 1 .. Len(pending)
  <2>1. pending \in Seq(Char \cup {End}) /\ msg.len \in 0 .. BufSize - 2
    BY DEF IInv, TypeOK
  <2>2. Len(pending) \in Nat
    BY <2>1, LenProperties
  <2>3. msg.len + Len(pending) - 1 >= BufSize
    BY <1>1
  <2> QED
    BY <2>1, <2>2, <2>3, BufAssumption
<1>3. Read(msg.data, BufSize - 1, num_to_read) \in Buffers
  <2>1. msg.data \in Buffers /\ pending \in Seq(Char \cup {End})
    BY DEF IInv, TypeOK, Buffers
  <2>2. num_to_read <= Len(pending) /\ BufSize - 1 \in Nat
    BY <1>2, BufAssumption
  <2> QED
    BY <1>2, <2>1, <2>2, ReadIsBuffer
<1>4. m \in [len : 1 .. BufSize - 1, data : Buffers]
  BY <1>3, BufAssumption
<1> HIDE DEF m
<1>5. /\ fifo' \in Fifo /\ unread' \in Seq(Line)
      /\ Bounded' /\ Seen' /\ SlotUndisturbed' /\ Counted'
      /\ msg' \in [len : 0 .. BufSize - 2, data : Buffers]
  BY <1>1, <1>4, CompleteStep
<1>6. pending' \in Seq(Char \cup {End})
  BY <1>1, <1>2 DEF IInv, TypeOK
<1>7. spilled' \in BOOLEAN
  BY <1>1
<1> QED
  BY <1>1, <1>5, <1>6, <1>7 DEF IInv, TypeOK, Buffers, mainVars

LEMMA NotifyStep == ASSUME IInv, cdc_rx_notify PROVE IInv'
<1>1. PICK c \in Chunk : pending' = c
  BY Zenon DEF cdc_rx_notify
<1>2. UNCHANGED <<msg, spilled, fifo, mainVars, unread>>
  BY Zenon DEF cdc_rx_notify
<1>3. pending' \in Seq(Char \cup {End})
  <2>1. PICK k \in 1 .. MaxChunk : c \in [1 .. k -> Char \cup {End}]
    BY DEF Chunk
  <2> QED
    BY <1>1, <2>1, BoundAssumption
<1> QED
  BY <1>2, <1>3 DEF IInv, TypeOK, Bounded, Gap, Seen, SlotUndisturbed, Counted, mainVars

-----------------------------------------------------------------------------
(* The main loop. *)

LEMMA PeekStep == ASSUME IInv, host_rx_peek \/ Work PROVE IInv'
<1>1. UNCHANGED <<rxVars, fifo, tmp, unread>>
  BY DEF host_rx_peek, Work
<1>2. hostMsg_fifo_peek(fifo) \in Item \cup {None}
  BY DEF IInv, TypeOK, Fifo, hostMsg_fifo_peek, packet_fifo_peek
<1>3. TypeOK'
  BY <1>1, <1>2 DEF IInv, TypeOK, rxVars, Steps, host_rx_peek, Work
<1>4. CASE host_rx_peek
  <2>1. fifo.stored >= 1
    BY <1>4, Offsets DEF IInv, host_rx_peek, host_rx_isEmpty, packet_fifo_isEmpty
  <2>2. /\ pc = "idle" /\ pc' = "working" /\ item' = hostMsg_fifo_peek(fifo)
        /\ UNCHANGED <<fifo, tmp, unread>>
    BY <1>4 DEF host_rx_peek
  <2> QED
    BY <1>3, <2>1, <2>2 DEF IInv, Bounded, Gap, Seen, SlotUndisturbed, Counted
<1>5. CASE Work
  <2>1. /\ pc = "working" /\ pc' = "tail" /\ used' = hostMsg_fifo_peek(fifo)
        /\ UNCHANGED <<fifo, tmp, unread, item>>
    BY <1>5 DEF Work
  <2> QED
    BY <1>3, <2>1 DEF IInv, Bounded, Gap, Seen, SlotUndisturbed, Counted
<1> QED
  BY <1>4, <1>5

\* The tail has moved and the count has not: it is one too high at most.
LEMMA SkipTailStep == ASSUME IInv, SkipTail PROVE IInv'
<1>1. /\ pc = "tail" /\ pc' = "load"
      /\ fifo' = [fifo EXCEPT !.t = Advance(@)]
      /\ UNCHANGED <<rxVars, item, used, tmp, unread>>
  BY DEF SkipTail
<1>2. /\ Slots \in Nat /\ Slots >= 1
      /\ fifo.h \in 0 .. Slots - 1 /\ fifo.t \in 0 .. Slots - 1 /\ fifo.stored \in 0 .. 255
      /\ Gap \in 1 .. Slots
  BY Offsets DEF IInv
<1>3. Advance(fifo.t) \in 0 .. Slots - 1
  BY <1>2 DEF Advance
<1>4. fifo' \in Fifo
  BY <1>1, <1>3 DEF IInv, TypeOK, Fifo, Index
<1>5. fifo'.h = fifo.h /\ fifo'.t = Advance(fifo.t) /\ fifo'.stored = fifo.stored
  BY <1>1 DEF IInv, TypeOK, Fifo
<1>6. Gap' >= Gap - 1
  BY <1>2, <1>5 DEF Gap, Advance
<1>7. fifo.stored <= Gap /\ fifo.stored >= 1
  BY <1>1 DEF IInv, Bounded
<1>8. Gap' \in Nat
  BY <1>2, <1>3, <1>5 DEF Gap
<1>9. Bounded'
  BY <1>1, <1>2, <1>5, <1>6, <1>7, <1>8 DEF Bounded
<1>10. TypeOK'
  BY <1>1, <1>4 DEF IInv, TypeOK, rxVars, Steps
<1> QED
  BY <1>1, <1>5, <1>9, <1>10 DEF IInv, Seen, SlotUndisturbed, Counted

LEMMA SkipLoadStep == ASSUME IInv, SkipLoad PROVE IInv'
<1>1. /\ pc = "load" /\ pc' = "store" /\ tmp' = fifo.stored
      /\ UNCHANGED <<rxVars, fifo, item, used, unread>>
  BY DEF SkipLoad
<1>2. fifo.stored \in 0 .. 255
  BY Offsets DEF IInv
<1>3. TypeOK'
  BY <1>1, <1>2 DEF IInv, TypeOK, rxVars, Steps
<1> QED
  BY <1>1, <1>3 DEF IInv, Bounded, Gap, Seen, SlotUndisturbed, Counted

\* What arrived since the load is not counted.
LEMMA SkipStoreStep == ASSUME IInv, SkipStore PROVE IInv'
<1>1. /\ pc = "store" /\ pc' = "idle"
      /\ fifo' = [fifo EXCEPT !.stored = (tmp + 255) % 256]
      /\ unread' = Forget(unread)
      /\ UNCHANGED <<rxVars, item, used, tmp>>
  BY DEF SkipStore
<1>2. tmp \in 1 .. 255 /\ tmp <= Gap + 1 /\ Gap \in Nat
  <2>1. tmp \in 0 .. 255 /\ tmp >= 1 /\ tmp <= Gap + 1
    BY <1>1 DEF IInv, TypeOK, Bounded
  <2>2. Gap \in Nat
    BY Offsets DEF IInv
  <2> QED
    BY <2>1, <2>2
<1>3. (tmp + 255) % 256 = tmp - 1
  BY <1>2
<1>4. fifo' \in Fifo
  <2>1. fifo' = [fifo EXCEPT !.stored = tmp - 1] /\ tmp - 1 \in 0 .. 255
    BY <1>1, <1>2, <1>3
  <2> QED
    BY <2>1 DEF IInv, TypeOK, Fifo
<1>5. fifo'.h = fifo.h /\ fifo'.t = fifo.t /\ fifo'.stored = tmp - 1
  BY <1>1, <1>3 DEF IInv, TypeOK, Fifo
<1>6. Bounded'
  BY <1>1, <1>2, <1>5 DEF Bounded, Gap
<1>7. unread' \in Seq(Line) /\ tmp - 1 <= Len(unread')
  <2>1. unread \in Seq(Line) /\ Len(unread) \in Nat /\ tmp <= Len(unread)
    BY <1>1, LenProperties DEF IInv, TypeOK, Counted
  <2>2. unread # <<>>
    BY <1>2, <2>1, EmptySeq
  <2>3. unread' \in Seq(Line) /\ Len(unread') = Len(unread) - 1
    BY <1>1, <2>1, <2>2, HeadTailProperties DEF Forget
  <2> QED
    BY <1>2, <2>1, <2>3
<1>8. TypeOK'
  BY <1>1, <1>4, <1>7 DEF IInv, TypeOK, rxVars, Steps
<1> QED
  BY <1>1, <1>5, <1>6, <1>7, <1>8 DEF IInv, Seen, SlotUndisturbed, Counted

-----------------------------------------------------------------------------
(* The lines, from the keyboard to rx_fifo. *)

\* What msg and pending hold together is what has been typed since the last line, or,
\* if pending ends a line, that line, which is not yet stored.
Gathered == /\ msg.len + Len(pending) <= BufSize - 2
            /\ pending # <<>> /\ pending[Len(pending)] = End =>
                  /\ partial = <<>> /\ Len(typed) >= 1
                  /\ typed[Len(typed)] = [Stored(msg) \o pending EXCEPT ![msg.len + Len(pending)] = Zero]
                  /\ \A i \in 1 .. Len(origin) : origin[i] < Len(typed)
            /\ ~(pending # <<>> /\ pending[Len(pending)] = End) => partial = Stored(msg) \o pending

InOrder == /\ \A i \in 1 .. Len(origin) : origin[i] \in 1 .. Len(typed) /\ unread[i] = typed[origin[i]]
           /\ \A i, j \in 1 .. Len(origin) : i < j => origin[i] < origin[j]

Typing == /\ typed \in Seq(Seq(Cell)) /\ partial \in Seq(Cell)
          /\ origin \in Seq(Nat) /\ Len(origin) = Len(unread)
          /\ tidy => ~spilled /\ Gathered /\ InOrder

LEMMA StoredIsSeq ==
  ASSUME NEW m, m.len \in 0 .. BufSize - 1, m.data \in Buffers
  PROVE  /\ Stored(m) \in Seq(Cell) /\ Len(Stored(m)) = m.len
         /\ \A i \in 1 .. m.len : Stored(m)[i] = m.data[i - 1]
<1>1. Stored(m) \in [1 .. m.len -> Cell]
  BY BufAssumption DEF Stored, Buffers
<1>2. m.len \in Nat
  BY BufAssumption
<1>3. Stored(m) \in Seq(Cell) /\ Len(Stored(m)) = m.len
  BY <1>1, <1>2
<1>4. \A i \in 1 .. m.len : Stored(m)[i] = m.data[i - 1]
  BY DEF Stored
<1> QED
  BY <1>3, <1>4

LEMMA Joined ==
  ASSUME NEW a \in Seq(Cell), NEW b \in Seq(Cell)
  PROVE  /\ a \o b \in Seq(Cell) /\ Len(a \o b) = Len(a) + Len(b)
         /\ \A i \in 1 .. Len(a) + Len(b) : (a \o b)[i] = IF i <= Len(a) THEN a[i] ELSE b[i - Len(a)]
BY ConcatProperties

\* The buffer when a chunk that fits has been read.
ReadAll == Read(msg.data, msg.len, Len(pending))

\* It is read behind what was gathered.
LEMMA ReadAppends ==
  ASSUME TypeOK, msg.len + Len(pending) <= BufSize - 1
  PROVE  /\ Stored([len |-> msg.len + Len(pending), data |-> ReadAll]) = Stored(msg) \o pending
         /\ Stored(msg) \o pending \in Seq(Cell)
         /\ Len(Stored(msg) \o pending) = msg.len + Len(pending)
         /\ ReadAll \in Buffers
         /\ Len(pending) >= 1 => ReadAll[msg.len + Len(pending) - 1] = pending[Len(pending)]
<1> DEFINE d == ReadAll
           k == msg.len
           n == Len(pending)
           s == Stored([len |-> k + n, data |-> d])
           c == Stored(msg) \o pending
<1>1. k \in Nat /\ k <= BufSize - 2 /\ n \in Nat /\ pending \in Seq(Cell) /\ msg.data \in Buffers
  BY BufAssumption, LenProperties DEF TypeOK, Cell, Buffers
<1>2. d \in Buffers
  BY <1>1, ReadIsBuffer DEF TypeOK, ReadAll
<1>3. /\ s \in Seq(Cell) /\ Len(s) = k + n
      /\ \A i \in 1 .. k + n : s[i] = d[i - 1]
  BY <1>1, <1>2, BufAssumption, StoredIsSeq
<1>4. /\ Stored(msg) \in Seq(Cell) /\ Len(Stored(msg)) = k
      /\ \A i \in 1 .. k : Stored(msg)[i] = msg.data[i - 1]
  BY <1>1, BufAssumption, StoredIsSeq DEF TypeOK
<1>5. /\ c \in Seq(Cell) /\ Len(c) = k + n
      /\ \A i \in 1 .. k + n : c[i] = IF i <= k THEN Stored(msg)[i] ELSE pending[i - k]
  <2> HIDE DEF d, s, k, n
  <2>1. Stored(msg) \in Seq(Cell) /\ pending \in Seq(Cell)
    BY <1>1, <1>4
  <2>2. /\ c \in Seq(Cell) /\ Len(c) = Len(Stored(msg)) + Len(pending)
        /\ \A i \in 1 .. Len(Stored(msg)) + Len(pending) :
              c[i] = IF i <= Len(Stored(msg)) THEN Stored(msg)[i] ELSE pending[i - Len(Stored(msg))]
    BY <2>1, Joined, Zenon
  <2>3. Len(Stored(msg)) = k /\ Len(pending) = n
    BY <1>4 DEF n
  <2> HIDE DEF c
  <2> QED
    BY <2>2, <2>3
<1>6. \A i \in 0 .. BufSize - 1 : d[i] = IF i \in k .. k + n - 1 THEN pending[i - k + 1] ELSE msg.data[i]
  BY <1>1 DEF Read, ReadAll, Buffers
<1> HIDE DEF d, s, c, k, n
<1>7. ASSUME NEW i \in 1 .. k + n PROVE s[i] = c[i]
  <2>1. i - 1 \in 0 .. BufSize - 1
    BY <1>1, BufAssumption DEF k, n
  <2>2. CASE i <= k
    <3>1. i \in 1 .. k /\ ~(i - 1 \in k .. k + n - 1)
      BY <1>1, <2>2
    <3> QED
      BY <1>3, <1>4, <1>5, <1>6, <2>1, <2>2, <3>1
  <2>3. CASE ~(i <= k)
    <3>1. i - 1 \in k .. k + n - 1 /\ (i - 1) - k + 1 = i - k
      BY <1>1, <2>3
    <3> QED
      BY <1>3, <1>5, <1>6, <2>1, <2>3, <3>1
  <2> QED
    BY <2>2, <2>3
<1>8. s = c
  BY <1>1, <1>3, <1>5, <1>7, SeqEqual
<1>9. n >= 1 => d[k + n - 1] = pending[n]
  <2> SUFFICES ASSUME n >= 1 PROVE d[k + n - 1] = pending[n]
    OBVIOUS
  <2>1. k + n - 1 \in k .. k + n - 1 /\ (k + n - 1) - k + 1 = n /\ k + n - 1 \in 0 .. BufSize - 1
    BY <1>1, BufAssumption DEF k, n
  <2> QED
    BY <1>6, <2>1
<1> QED
  BY <1>2, <1>5, <1>8, <1>9 DEF d, s, c, k, n

\* The null character takes the place of the end of the line.
LEMMA ZeroAtEnd ==
  ASSUME NEW len \in 1 .. BufSize - 1, NEW d \in Buffers
  PROVE  Stored([len |-> len, data |-> [d EXCEPT ![len - 1] = Zero]])
           = [Stored([len |-> len, data |-> d]) EXCEPT ![len] = Zero]
<1>1. \A i \in 1 .. len : i - 1 \in 0 .. BufSize - 1 /\ (i - 1 = len - 1 <=> i = len)
  BY BufAssumption
<1>2. DOMAIN d = 0 .. BufSize - 1
  BY DEF Buffers
<1> QED
  BY <1>1, <1>2 DEF Stored

LEMMA InitTyping == Init => Typing
<1> SUFFICES ASSUME Init PROVE Typing
  OBVIOUS
<1>1. /\ pending = <<>> /\ msg.len = 0 /\ spilled = FALSE
      /\ unread = <<>> /\ origin = <<>> /\ typed = <<>> /\ partial = <<>>
  BY DEF Init
<1>2. msg.data \in Buffers
  BY DEF Init, Buffers, Cell
<1>3. Stored(msg) \in Seq(Cell) /\ Len(Stored(msg)) = 0
  BY <1>1, <1>2, StoredIsSeq, BufAssumption
<1>4. Stored(msg) \o pending = partial
  <2>1. Stored(msg) = <<>>
    BY <1>3, EmptySeq
  <2> QED
    BY <1>1, <2>1
<1>5. Gathered
  BY <1>1, <1>4, EmptySeq, BufAssumption DEF Gathered
<1>6. InOrder
  BY <1>1, EmptySeq DEF InOrder
<1> QED
  BY <1>1, <1>5, <1>6, EmptySeq DEF Typing

\* The host types on.
LEMMA NotifyTyping == ASSUME IInv, Typing, cdc_rx_notify PROVE Typing'
<1>1. PICK c \in Chunk :
         /\ pending' = c
         /\ tidy' = (tidy /\ OneLineAtMost(c) /\ Len(partial) + Len(c) <= BufSize - 2)
         /\ \/ /\ c[Len(c)] = End
               /\ typed' = Append(typed, [partial \o c EXCEPT ![Len(partial \o c)] = Zero])
               /\ partial' = <<>>
            \/ /\ c[Len(c)] # End
               /\ partial' = partial \o c /\ typed' = typed
  BY DEF cdc_rx_notify
<1>2. pending = <<>> /\ UNCHANGED <<msg, spilled, unread, origin>>
  BY DEF cdc_rx_notify
<1>3. c \in Seq(Cell) /\ Len(c) \in Nat /\ Len(c) >= 1 /\ c # <<>>
  <2>1. PICK k \in 1 .. MaxChunk : c \in [1 .. k -> Char \cup {End}]
    BY DEF Chunk
  <2>2. k \in Nat /\ k >= 1
    BY BoundAssumption
  <2>3. c \in [1 .. k -> Cell]
    BY <2>1 DEF Cell
  <2>4. c \in Seq(Cell) /\ Len(c) = k
    BY <2>2, <2>3
  <2> QED
    BY <2>2, <2>4, EmptySeq
<1> DEFINE w == partial \o c
           z == [w EXCEPT ![Len(w)] = Zero]
<1>4. /\ w \in Seq(Cell) /\ Len(w) = Len(partial) + Len(c) /\ Len(partial) \in Nat
      /\ z \in Seq(Cell)
  <2>1. w \in Seq(Cell) /\ Len(w) = Len(partial) + Len(c) /\ Len(partial) \in Nat
    BY <1>3, ConcatProperties, LenProperties DEF Typing
  <2>2. Len(w) \in Nat /\ w \in [1 .. Len(w) -> Cell]
    BY <2>1, LenProperties
  <2>3. z \in [1 .. Len(w) -> Cell]
    BY <2>2 DEF Cell
  <2> HIDE DEF z, w
  <2>4. z \in Seq(Cell)
    BY <2>2, <2>3
  <2> QED
    BY <2>1, <2>4 DEF w
<1> HIDE DEF z, w
<1>5. /\ typed \in Seq(Seq(Cell)) /\ Len(typed) \in Nat
      /\ Append(typed, z) \in Seq(Seq(Cell)) /\ Len(Append(typed, z)) = Len(typed) + 1
      /\ Append(typed, z)[Len(typed) + 1] = z
      /\ \A i \in 1 .. Len(typed) : Append(typed, z)[i] = typed[i]
  BY <1>4, AppendProperties, LenProperties DEF Typing
<1>6. typed' \in Seq(Seq(Cell)) /\ partial' \in Seq(Cell)
  BY <1>1, <1>4, <1>5, EmptySeq DEF w, z, Typing
<1>7. ASSUME tidy' PROVE ~spilled' /\ Gathered' /\ InOrder'
  <2>1. ~spilled /\ Gathered /\ InOrder /\ Len(partial) + Len(c) <= BufSize - 2
    BY <1>1, <1>7, Zenon DEF Typing
  <2>2. /\ Stored(msg) \in Seq(Cell) /\ Len(Stored(msg)) = msg.len
    BY StoredIsSeq, BufAssumption DEF IInv, TypeOK, Buffers
  <2>3. partial = Stored(msg) /\ Len(partial) = msg.len
    <3>1. partial = Stored(msg) \o <<>>
      BY <1>2, <2>1 DEF Gathered
    <3> QED
      BY <2>2, <3>1, ConcatEmptySeq
  <2>4. w = Stored(msg)' \o pending' /\ Len(w) = msg'.len + Len(pending')
    BY <1>1, <1>2, <1>4, <2>3 DEF w, Stored
  <2>5. CASE c[Len(c)] = End
    <3>1. typed' = Append(typed, z) /\ partial' = <<>>
      BY <1>1, <2>5 DEF w, z
    <3>2. Len(typed') = Len(typed) + 1 /\ typed'[Len(typed')] = z
      BY <1>5, <3>1
    <3>3. z = [Stored(msg)' \o pending' EXCEPT ![msg'.len + Len(pending')] = Zero]
      BY <2>4 DEF z
    <3>4. \A i \in 1 .. Len(origin) : origin[i] \in 1 .. Len(typed) /\ origin[i] < Len(typed')
      BY <1>5, <2>1, <3>2 DEF InOrder
    <3>5. Gathered'
      <4>1. msg'.len + Len(pending') <= BufSize - 2
        BY <1>4, <2>1, <2>4
      <4>2. Len(typed') >= 1
        BY <1>5, <3>2
      <4>3. pending' # <<>> /\ pending'[Len(pending')] = End
        BY <1>1, <1>3, <2>5
      <4>4. \A i \in 1 .. Len(origin') : origin'[i] < Len(typed')
        BY <1>2, <3>4
      <4>5. typed'[Len(typed')] = [Stored(msg)' \o pending' EXCEPT ![msg'.len + Len(pending')] = Zero]
        BY <3>2, <3>3
      <4> QED
        BY <3>1, <4>1, <4>2, <4>3, <4>4, <4>5, Zenon DEF Gathered
    <3>6. InOrder'
      BY <1>2, <1>5, <2>1, <3>1, <3>4 DEF InOrder
    <3> QED
      BY <1>2, <2>1, <3>5, <3>6
  <2>6. CASE c[Len(c)] # End
    <3>1. typed' = typed /\ partial' = w
      BY <1>1, <2>6 DEF w
    <3> QED
      BY <1>1, <1>2, <1>4, <2>1, <2>4, <2>6, <3>1 DEF Gathered, InOrder
  <2> QED
    BY <2>5, <2>6
<1> QED
  BY <1>2, <1>6, <1>7 DEF Typing

\* A line and where it comes from are stored together.
LEMMA OriginKept ==
  ASSUME IInv, Typing,
         \/ UNCHANGED <<unread, origin>>
         \/ \E x : unread' = Append(unread, x) /\ origin' = Append(origin, Len(typed))
  PROVE  origin' \in Seq(Nat) /\ Len(origin') = Len(unread')
<1>1. Len(typed) \in Nat /\ origin \in Seq(Nat) /\ Len(origin) = Len(unread) /\ unread \in Seq(Line)
  BY LenProperties DEF Typing, IInv, TypeOK
<1>2. CASE UNCHANGED <<unread, origin>>
  BY <1>1, <1>2
<1>3. ASSUME NEW x, unread' = Append(unread, x), origin' = Append(origin, Len(typed))
      PROVE  origin' \in Seq(Nat) /\ Len(origin') = Len(unread')
  <2>1. origin' \in Seq(Nat) /\ Len(origin') = Len(origin) + 1
    BY <1>1, <1>3, AppendProperties
  <2>2. unread \in Seq(Line \cup {x}) /\ x \in Line \cup {x}
    BY <1>1
  <2>3. Len(unread') = Len(unread) + 1
    BY <1>3, <2>2, AppendProperties
  <2> QED
    BY <1>1, <2>1, <2>3
<1> QED
  BY <1>2, <1>3

\* A line that fits is stored behind the others, or dropped, or not yet complete.
LEMMA GatherTyping == ASSUME IInv, Typing, Gather PROVE Typing'
<1> DEFINE len  == msg.len + Len(pending)
           data == ReadAll
           m    == [len |-> len, data |-> [data EXCEPT ![len - 1] = Zero]]
<1>1. /\ pending # <<>> /\ pending' = <<>>
      /\ UNCHANGED <<spilled, typed, partial, tidy>>
  BY DEF Gather, history
<1>2. \/ /\ len >= BufSize - 1
         /\ Complete([len |-> BufSize - 1, data |-> [data EXCEPT ![BufSize - 1] = Zero]])
      \/ /\ len < BufSize - 1 /\ data[len - 1] = End
         /\ Complete(m)
      \/ /\ len < BufSize - 1 /\ data[len - 1] # End
         /\ msg' = [len |-> len, data |-> data]
         /\ UNCHANGED <<fifo, unread, origin>>
  BY DEF Gather, ReadAll
<1>3. \/ UNCHANGED <<unread, origin>>
      \/ \E x : unread' = Append(unread, x) /\ origin' = Append(origin, Len(typed))
  BY <1>2 DEF Complete
<1>4. Len(typed) \in Nat /\ origin \in Seq(Nat) /\ Len(origin) = Len(unread) /\ unread \in Seq(Line)
  BY LenProperties DEF Typing, IInv, TypeOK
<1>5. origin' \in Seq(Nat) /\ Len(origin') = Len(unread')
  BY <1>3, OriginKept
<1>6. ASSUME tidy PROVE Gathered' /\ InOrder'
  <2>1. Gathered /\ InOrder
    BY <1>6, Zenon DEF Typing
  <2>2. Len(pending) \in Nat /\ Len(pending) >= 1 /\ msg.len \in Nat
        /\ len \in Nat /\ len <= BufSize - 2 /\ len <= BufSize - 1 /\ len >= 1
    BY <1>1, <2>1, EmptySeq, LenProperties, BufAssumption DEF Gathered, IInv, TypeOK
  <2>3. /\ Stored([len |-> len, data |-> data]) = Stored(msg) \o pending
        /\ data \in Buffers /\ data[len - 1] = pending[Len(pending)]
    <3>1. TypeOK /\ msg.len + Len(pending) <= BufSize - 1
      BY <2>2 DEF IInv
    <3>2. /\ Stored([len |-> msg.len + Len(pending), data |-> ReadAll]) = Stored(msg) \o pending
          /\ ReadAll \in Buffers
          /\ Len(pending) >= 1 => ReadAll[msg.len + Len(pending) - 1] = pending[Len(pending)]
      BY <3>1, ReadAppends, Zenon
    <3>3. Stored([len |-> len, data |-> data]) = Stored(msg) \o pending
      BY <3>2
    <3>4. data \in Buffers
      BY <3>2
    <3>5. data[len - 1] = pending[Len(pending)]
      BY <2>2, <3>2
    <3> QED
      BY <3>3, <3>4, <3>5
  <2> HIDE DEF data, m, len
  <2>4. CASE data[len - 1] = End /\ Complete(m)
    <3>1. /\ partial = <<>> /\ Len(typed) >= 1
          /\ typed[Len(typed)] = [Stored(msg) \o pending EXCEPT ![len] = Zero]
          /\ \A i \in 1 .. Len(origin) : origin[i] < Len(typed)
      BY <1>1, <2>1, <2>3, <2>4 DEF Gathered, len
    <3>2. Stored(m) = typed[Len(typed)]
      <4>1. len \in 1 .. BufSize - 1
        BY <2>2, BufAssumption
      <4>2. Stored(m) = [Stored([len |-> len, data |-> data]) EXCEPT ![len] = Zero]
        BY <2>3, <4>1, ZeroAtEnd DEF m
      <4> QED
        BY <2>3, <3>1, <4>2
    <3>3. msg'.len = 0 /\ msg'.data \in Buffers
      BY <2>2, <2>3, <2>4, BufAssumption DEF Complete, reset_message, m, Buffers, Cell
    <3>4. Stored(msg)' \o pending' = partial'
      <4>1. Stored(msg') \in Seq(Cell) /\ Len(Stored(msg')) = 0
        BY <3>3, StoredIsSeq, BufAssumption
      <4>2. Stored(msg') = <<>>
        BY <4>1, EmptySeq
      <4> QED
        BY <1>1, <3>1, <4>2
    <3>5. Gathered'
      BY <1>1, <3>3, <3>4, EmptySeq, BufAssumption DEF Gathered
    <3>6. InOrder'
      <4>1. CASE UNCHANGED <<unread, origin>>
        BY <1>1, <2>1, <4>1 DEF InOrder
      <4>2. CASE unread' = Append(unread, Stored(m)) /\ origin' = Append(origin, Len(typed))
        <5>1. /\ Len(origin') = Len(origin) + 1 /\ Len(origin) \in Nat
              /\ \A i \in 1 .. Len(origin) : origin'[i] = origin[i]
              /\ origin'[Len(origin) + 1] = Len(typed)
          BY <1>4, <4>2, AppendProperties
        <5>2. /\ \A i \in 1 .. Len(origin) : unread'[i] = unread[i]
              /\ unread'[Len(origin) + 1] = Stored(m)
          <6>1. unread \in Seq(Line \cup {Stored(m)})
            BY <1>4
          <6> QED
            BY <1>4, <4>2, <6>1, AppendProperties
        <5>3. \A i \in 1 .. Len(origin') : i \in 1 .. Len(origin) \/ i = Len(origin) + 1
          BY <5>1
        <5>4. ASSUME NEW i \in 1 .. Len(origin')
              PROVE  origin'[i] \in 1 .. Len(typed) /\ unread'[i] = typed[origin'[i]]
          BY <1>4, <2>1, <3>1, <3>2, <5>1, <5>2, <5>3 DEF InOrder
        <5>5. ASSUME NEW i \in 1 .. Len(origin'), NEW j \in 1 .. Len(origin'), i < j
              PROVE  origin'[i] < origin'[j]
          <6>1. i \in 1 .. Len(origin)
            BY <5>1, <5>5
          <6>2. CASE j \in 1 .. Len(origin)
            BY <2>1, <5>1, <5>5, <6>1, <6>2 DEF InOrder
          <6>3. CASE j = Len(origin) + 1
            BY <3>1, <5>1, <6>1, <6>3
          <6> QED
            BY <5>3, <6>2, <6>3
        <5> QED
          BY <1>1, <5>4, <5>5 DEF InOrder
      <4> QED
        BY <2>4, <4>1, <4>2 DEF Complete
    <3> QED
      BY <3>5, <3>6
  <2>5. CASE data[len - 1] # End /\ msg' = [len |-> len, data |-> data] /\ UNCHANGED <<unread, origin>>
    <3>1. partial = Stored(msg) \o pending
      BY <2>1, <2>3, <2>5 DEF Gathered
    <3>2. Stored(msg') = partial /\ Stored(msg') \in Seq(Cell) /\ msg'.len = len
      BY <2>2, <2>3, <2>5, <3>1, StoredIsSeq DEF Typing
    <3>3. Stored(msg') \o <<>> = Stored(msg')
      BY <3>2, ConcatEmptySeq
    <3>4. Gathered'
      <4>1. Len(pending') = 0 /\ len + 0 <= BufSize - 2
        BY <1>1, <2>2, EmptySeq
      <4>2. partial' = Stored(msg') \o pending'
        BY <1>1, <3>2, <3>3
      <4> QED
        BY <1>1, <3>2, <4>1, <4>2 DEF Gathered
    <3>5. InOrder'
      BY <1>1, <2>1, <2>5 DEF InOrder
    <3> QED
      BY <3>4, <3>5
  <2> QED
    <3>1. ~(len >= BufSize - 1)
      BY <2>2, BufAssumption
    <3> QED
      BY <1>2, <2>4, <2>5, <3>1
<1> QED
  BY <1>1, <1>5, <1>6 DEF Typing

\* A chunk that does not fit is not a tidy one.
LEMMA OverfullTyping == ASSUME IInv, Typing, Overfull PROVE Typing'
<1>1. /\ msg.len + Len(pending) - 1 >= BufSize
      /\ UNCHANGED <<typed, partial, tidy>>
  BY DEF Overfull, history
<1>2. \/ UNCHANGED <<unread, origin>>
      \/ \E x : unread' = Append(unread, x) /\ origin' = Append(origin, Len(typed))
  BY DEF Overfull, Complete
<1>3. origin' \in Seq(Nat) /\ Len(origin') = Len(unread')
  BY <1>2, OriginKept
<1>4. ~tidy
  <2>1. msg.len \in Nat /\ Len(pending) \in Nat
    BY LenProperties, BufAssumption DEF IInv, TypeOK
  <2>2. ~(msg.len + Len(pending) <= BufSize - 2)
    BY <1>1, <2>1, BufAssumption
  <2> QED
    BY <2>2, Zenon DEF Typing, Gathered
<1> QED
  BY <1>1, <1>3, <1>4 DEF Typing

\* A line that was worked on is forgotten with where it came from.
LEMMA SkipTyping == ASSUME IInv, Typing, SkipStore PROVE Typing'
<1>1. /\ unread' = Forget(unread) /\ origin' = Forget(origin)
      /\ UNCHANGED <<msg, pending, spilled, typed, partial, tidy>>
  BY DEF SkipStore, rxVars, history
<1>2. unread \in Seq(Line) /\ origin \in Seq(Nat) /\ Len(origin) = Len(unread) /\ Len(origin) \in Nat
  BY LenProperties DEF IInv, TypeOK, Typing
<1>3. CASE unread = <<>>
  <2>1. origin = <<>>
    BY <1>2, <1>3, EmptySeq
  <2>2. unread' = unread /\ origin' = origin
    BY <1>1, <1>3, <2>1 DEF Forget
  <2> QED
    BY <1>1, <2>2 DEF Typing, Gathered, InOrder, Stored
<1>4. CASE unread # <<>>
  <2>1. origin # <<>>
    BY <1>2, <1>4, EmptySeq
  <2>2. unread' = Tail(unread) /\ origin' = Tail(origin)
    BY <1>1, <1>4, <2>1 DEF Forget
  <2>3. /\ origin' \in Seq(Nat) /\ Len(origin') = Len(origin) - 1
        /\ \A i \in 1 .. Len(origin') : origin'[i] = origin[i + 1]
    BY <1>2, <2>1, <2>2, HeadTailProperties
  <2>4. /\ Len(unread') = Len(origin')
        /\ \A i \in 1 .. Len(origin') : unread'[i] = unread[i + 1]
    BY <1>2, <1>4, <2>2, <2>3, HeadTailProperties
  <2>5. \A i \in 1 .. Len(origin') : i + 1 \in 1 .. Len(origin)
    BY <1>2, <2>3
  <2>6. \A i, j \in 1 .. Len(origin') : i < j => i + 1 < j + 1
    OBVIOUS
  <2>7. ASSUME tidy PROVE Gathered' /\ InOrder'
    <3>1. Gathered /\ InOrder
      BY <2>7, Zenon DEF Typing
    <3>2. \A i \in 1 .. Len(origin') : origin'[i] \in 1 .. Len(typed) /\ unread'[i] = typed[origin'[i]]
      BY <2>3, <2>4, <2>5, <3>1 DEF InOrder
    <3>3. \A i, j \in 1 .. Len(origin') : i < j => origin'[i] < origin'[j]
      BY <2>3, <2>5, <2>6, <3>1 DEF InOrder
    <3>4. \A n : (\A i \in 1 .. Len(origin) : origin[i] < n) => \A i \in 1 .. Len(origin') : origin'[i] < n
      BY <2>3, <2>5
    <3>5. Gathered'
      BY <1>1, <3>1, <3>4 DEF Gathered, Stored
    <3> QED
      BY <1>1, <3>2, <3>3, <3>5 DEF InOrder
  <2> QED
    BY <1>1, <2>3, <2>4, <2>7 DEF Typing
<1> QED
  BY <1>3, <1>4

LEMMA MainTyping == ASSUME IInv, Typing, Main PROVE Typing'
<1>1. CASE SkipStore
  BY <1>1, SkipTyping
<1>2. CASE host_rx_peek \/ Work \/ SkipTail \/ SkipLoad
  <2>1. UNCHANGED <<msg, pending, spilled, unread, origin, typed, partial, tidy>>
    BY <1>2 DEF host_rx_peek, Work, SkipTail, SkipLoad, rxVars, history
  <2> QED
    BY <2>1 DEF Typing, Gathered, InOrder, Stored
<1> QED
  BY <1>1, <1>2 DEF Main

-----------------------------------------------------------------------------
(* The results. *)

LEMMA InitIInv == Init => IInv
<1> SUFFICES ASSUME Init PROVE IInv
  OBVIOUS
<1>1. pending = <<>> /\ unread = <<>>
  BY DEF Init
<1>2. spilled = FALSE /\ pc = "idle" /\ item = None /\ used = None /\ tmp = 0
  BY DEF Init
<1>3. msg \in [len : 0 .. BufSize - 2, data : [0 .. BufSize - 1 -> Cell]]
  BY BufAssumption DEF Init, Cell
<1>4. fifo \in Fifo /\ fifo.stored = 0
  <2>1. 0 \in Index
    BY SlotsAssumption DEF Index
  <2> QED
    BY <2>1 DEF Init, hostMsg_fifo_init, packet_fifo_init, Fifo
<1>5. TypeOK
  <2>1. pending \in Seq(Char \cup {End}) /\ unread \in Seq(Line)
    BY <1>1, EmptySeq
  <2>2. pc \in Steps /\ tmp \in 0 .. 255 /\ spilled \in BOOLEAN
        /\ item \in Item \cup {None} /\ used \in Item \cup {None}
    <3>1. 0 \in 0 .. 255
      OBVIOUS
    <3> QED
      BY <1>2, <3>1, Zenon DEF Steps
  <2> QED
    BY <1>3, <1>4, <2>1, <2>2 DEF TypeOK
<1>6. Gap \in 1 .. Slots
  BY <1>5, Offsets
<1>7. Bounded /\ Counted
  BY <1>1, <1>2, <1>4, <1>6, EmptySeq, SlotsAssumption DEF Bounded, Counted
<1> QED
  BY <1>1, <1>2, <1>5, <1>7 DEF IInv, Seen, SlotUndisturbed

LEMMA IInvIsInductive == ASSUME Slots < 255 PROVE IInv /\ [Next]_vars => IInv'
<1> SUFFICES ASSUME IInv, [Next]_vars PROVE IInv'
  OBVIOUS
<1>1. CASE UNCHANGED vars
  BY <1>1 DEF vars, rxVars, mainVars, IInv, TypeOK, Bounded, Gap, Seen, SlotUndisturbed, Counted
<1>2. CASE cdc_rx_notify
  BY <1>2, NotifyStep
<1>3. CASE rx_callback
  BY <1>3, GatherStep, OverfullStep DEF rx_callback
<1>4. CASE Main
  BY <1>4, PeekStep, SkipTailStep, SkipLoadStep, SkipStoreStep DEF Main
<1> QED
  BY <1>1, <1>2, <1>3, <1>4 DEF Next

LEMMA IInvAlways == ASSUME Slots < 255 PROVE Spec => []IInv
BY InitIInv, IInvIsInductive, PTL DEF Spec

\* The buffer never holds more than a line, also when a chunk does not fit, and the
\* count and the offsets of the ring stay in range.
THEOREM TypeCorrect == ASSUME Slots < 255 PROVE Spec => []TypeOK
BY IInvAlways, PTL DEF IInv

\* The line the main loop parses in rx_fifo stays as it was until it is done with
\* it, whatever the USB interrupt stores meanwhile and however many counts are lost.
THEOREM LineIsUndisturbed == ASSUME Slots < 255 PROVE Spec => []SlotUndisturbed
BY IInvAlways, PTL DEF IInv

\* Counts are lost, never invented: host_rx_isEmpty does not announce a line that
\* is not there.
THEOREM CountsAreNeverInvented == ASSUME Slots < 255 PROVE Spec => []NeverOvercounts
<1>1. IInv => NeverOvercounts
  BY DEF IInv, Counted, NeverOvercounts
<1> QED
  BY <1>1, IInvAlways, PTL

LEMMA TypingIsInductive == IInv /\ Typing /\ [Next]_vars => Typing'
<1> SUFFICES ASSUME IInv, Typing, [Next]_vars PROVE Typing'
  OBVIOUS
<1>1. CASE UNCHANGED vars
  BY <1>1 DEF vars, rxVars, history, Typing, Gathered, InOrder, Stored
<1>2. CASE cdc_rx_notify
  BY <1>2, NotifyTyping
<1>3. CASE rx_callback
  BY <1>3, GatherTyping, OverfullTyping DEF rx_callback
<1>4. CASE Main
  BY <1>4, MainTyping
<1> QED
  BY <1>1, <1>2, <1>3, <1>4 DEF Next

\* What a host types as it should, one line a chunk or less and no line too long, is
\* what lies in rx_fifo: each line whole, with its null character, and in the order
\* typed, however many of them rx_callback drops and however many counts are lost.
THEOREM LinesArriveAsTyped == ASSUME Slots < 255 PROVE Spec => []LinesAsTyped
<1>1. IInv /\ Typing => LinesAsTyped
  <2> SUFFICES ASSUME IInv, Typing, tidy PROVE LinesAsTyped
    BY DEF LinesAsTyped
  <2>1. ~spilled /\ InOrder
    BY DEF Typing
  <2>2. DOMAIN unread = 1 .. Len(origin) /\ DOMAIN origin = 1 .. Len(origin)
    BY LenProperties DEF IInv, TypeOK, Typing
  <2> QED
    BY <2>1, <2>2 DEF InOrder, LinesAsTyped
<1> QED
  BY <1>1, IInvAlways, InitTyping, TypingIsInductive, PTL DEF Spec
=============================================================================
