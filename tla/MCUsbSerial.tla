----------------------------- MODULE MCUsbSerial -----------------------------
(* Model checking UsbSerial: texts and numbers of two lengths, and a buffer   *)
(* that a text does not fit into.                                              *)
EXTENDS UsbSerial

OneOrTwo == {1, 2}
=============================================================================
