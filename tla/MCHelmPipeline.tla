---------------------------- MODULE MCHelmPipeline ----------------------------
(* The firmware's periods in units of 10 ms: 20 ms passes, declared as     *)
(* 60 ms, polled every 10 ms.                                              *)
EXTENDS HelmPipeline

MCValue == RxFrames \cup MappingFrames \cup ControlFrames \cup OutputFrames
MCMaxPeriod == [m \in Stages |-> 6]

(* The defaults of output.c's table, and a reversal of the pitch slot.     *)
MCBootTrims ==
  [s \in Slots |-> [min |-> 1000, center |-> IF s = "S3" THEN 1550 ELSE 1500,
                    max |-> 2000, reversed |-> s = "S3"]]
MCSlotTrims ==
  [s \in Slots |-> {MCBootTrims[s]} \cup
                     {t \in {[MCBootTrims[s] EXCEPT !.reversed = TRUE]} : s = "S4"}]

=============================================================================
