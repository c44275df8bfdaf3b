------------------------------ MODULE MCHostRx -------------------------------
(* Model checking HostRx with interchangeable characters. *)
EXTENDS HostRx, TLC

Letters == Permutations(Char)
=============================================================================
