------------------------------- MODULE MCRadio -------------------------------
(***************************************************************************)
(* The radio driver for TLC: two nodes.  The nodes run different programs, *)
(* so there is no symmetry.                                                *)
(***************************************************************************)
EXTENDS Radio
=============================================================================
