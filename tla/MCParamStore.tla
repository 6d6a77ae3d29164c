---------------------------- MODULE MCParamStore ----------------------------
(* Two params in two data units, then the unit that holds the CRC.  The    *)
(* cli task sets one and the sport task the other: a param both set adds   *)
(* nothing, since where calls overlap only NeverTorn claims anything, and  *)
(* where they do not it makes no difference which task calls.              *)
EXTENDS ParamStore

MCIds == {"mode", "trim"}
MCDefault == [i \in MCIds |-> 0]
MCUnitOf == [mode |-> 1, trim |-> 2]
MCSettable == [w \in Writers |-> IF w = "sport" THEN {"trim"} ELSE {"mode"}]

=============================================================================
