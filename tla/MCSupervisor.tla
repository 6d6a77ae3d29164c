----------------------------- MODULE MCSupervisor -----------------------------
(* Two module tasks of different periods and a table with one entry, so    *)
(* that one of them gets no handle; a poll of two ticks, a tick counter    *)
(* that wraps every five, just above the longest period and one poll, and  *)
(* a watchdog of three ticks.                                              *)
EXTENDS Supervisor

CONSTANTS imu, servo, live, safe

MCModules == {imu, servo}
MCValue == {live, safe}
MCSeed == [m \in MCModules |-> safe]
MCPeriod == [m \in MCModules |-> 1]
MCDeadline == [m \in MCModules |-> IF m = imu THEN 2 ELSE 1]
MCMaxPeriod == [m \in MCModules |-> IF m = imu THEN 2 ELSE 1]

=============================================================================
