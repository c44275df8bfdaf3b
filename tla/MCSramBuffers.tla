---------------------------- MODULE MCSramBuffers -----------------------------
(* The SRAM buffers for TLC: pages of three bytes, two of them a buffer.   *)
EXTENDS SramBuffers

ShortAndLong   == {<<1>>, <<2, 1>>}
PacketsOfEvery == {<<1>>, <<2, 2>>, <<1, 2, 1>>}
=============================================================================
