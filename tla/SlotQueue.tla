------------------------------ MODULE SlotQueue ------------------------------
(***************************************************************************)
(* What every packet queue of the firmware promises its two users: a first *)
(* in, first out queue of at most Slots items.  The producer may add an    *)
(* item while there is room, the consumer takes the oldest one.  `out' is  *)
(* the item the consumer was last handed.                                  *)
(*                                                                         *)
(* SendQueue implements this where the two cannot interrupt one another.   *)
(***************************************************************************)
EXTENDS Naturals, Sequences

CONSTANTS Item,   \* what a slot holds
          Slots,  \* PACKET_FIFO_SLOTS
          None    \* "nothing taken yet"

VARIABLES q, out

Init == q = <<>> /\ out = None

Put(x) == /\ Len(q) < Slots
          /\ q' = Append(q, x)
          /\ UNCHANGED out

Take == /\ q # <<>>
        /\ out' = Head(q)
        /\ q' = Tail(q)

Next == Take \/ \E x \in Item : Put(x)

Spec == Init /\ [][Next]_<<q, out>>
=============================================================================
