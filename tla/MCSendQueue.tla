---------------------------- MODULE MCSendQueue ------------------------------
(* Model checking SendQueue with interchangeable packets. *)
EXTENDS SendQueue, TLC

Packets == Permutations(Item)
=============================================================================
