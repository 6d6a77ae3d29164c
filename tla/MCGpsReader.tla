----------------------------- MODULE MCGpsReader -----------------------------
(* A ring that holds one sentence, and a line that holds one but its end.  *)
EXTENDS GpsReader

MCNoFix == [m \in {"gps"} |-> NoFix]
MCMaxPeriod == [m \in {"gps"} |-> 3]

=============================================================================
