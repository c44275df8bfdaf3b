------------------------------ MODULE RingFifo -------------------------------
(***************************************************************************)
(* The ring buffer of routing/packet_fifo.c, as operators on a record.     *)
(* radio/fifo.c and app/host_msg_fifo.c are the same code with another     *)
(* slot size.  The byte offsets h and t only ever take multiples of the    *)
(* unit length, so they are counted here in slots; `stored' is a uint8_t.  *)
(* None of the operators looks at `stored' before it writes or skips: that *)
(* is left to the callers, and not every caller does it.                   *)
(***************************************************************************)
EXTENDS Integers, Sequences

CONSTANTS Item, Slots, None

ASSUME SlotsAssumption == Slots \in 1..255
ASSUME NoneAssumption  == None \notin Item

Index == 0 .. Slots - 1

Fifo == [data : [Index -> Item \cup {None}], h : Index, t : Index, stored : 0..255]

\* Wrong on purpose (see "mutants" in PROJECT.json): the wrap is forgotten.
AdvanceNoWrap(k) == k + 1

\* h += UNIT_LEN; if (h == SIZE) h = 0
Advance(k) == IF k + 1 = Slots THEN 0 ELSE k + 1

packet_fifo_init == [data |-> [i \in Index |-> None], h |-> 0, t |-> 0, stored |-> 0]

packet_fifo_isEmpty(f) == f.stored = 0

packet_fifo_isFull(f) == f.stored > 0 /\ f.t = f.h

packet_fifo_write(f, x) == [data   |-> [f.data EXCEPT ![f.h] = x],
                            h      |-> Advance(f.h),
                            t      |-> f.t,
                            stored |-> (f.stored + 1) % 256]

packet_fifo_peek(f) == f.data[f.t]

packet_fifo_skip(f) == [data   |-> f.data,
                        h      |-> f.h,
                        t      |-> Advance(f.t),
                        stored |-> (f.stored + 255) % 256]
=============================================================================
