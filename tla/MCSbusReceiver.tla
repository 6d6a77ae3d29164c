--------------------------- MODULE MCSbusReceiver ---------------------------
(* One tick is 7 ms: a frame every 14 ms, a poll every 21 to 28 ms, a      *)
(* timeout of 42 ms, and a tick counter that wraps every 84 ms.            *)
EXTENDS SbusReceiver

=============================================================================
