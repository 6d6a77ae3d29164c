----------------------------- MODULE MCBoardTable -----------------------------
(* The nine tasks that main() starts on matek_h743 and that register, and  *)
(* the eight entries of supervisor.h.                                      *)
EXTENDS Supervisor

MCBoardModules == {"rx", "mapping", "control", "output", "servo",
                   "imu", "baro", "battery", "gps"}
MCBoardSeed == [m \in MCBoardModules |-> "safe"]
MCBoardPeriod == [m \in MCBoardModules |-> 2]
MCBoardMaxPeriod == [m \in MCBoardModules |-> 6]

=============================================================================
