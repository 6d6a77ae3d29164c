----------------------------- MODULE MCOutputSlot -----------------------------
(* A HOLD slot: both ends of the receiver's range, the neighbours of the   *)
(* seam of the two segments, the largest value of eleven bits, and travels *)
(* from none to 300 microseconds.                                          *)
EXTENDS OutputSlot

MCRaw == {172, 991, 992, 993, 1811, 2047}
MCPulseWidths == {1000, 1003, 1300}

=============================================================================
