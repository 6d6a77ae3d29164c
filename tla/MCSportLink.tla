----------------------------- MODULE MCSportLink -----------------------------
(* One field, answers of two bytes, and rings that hold one byte less     *)
(* than two answers, as the 32-byte rings hold one byte less than two of   *)
(* the longest answers of 16 bytes.                                        *)
EXTENDS SportLink

=============================================================================
