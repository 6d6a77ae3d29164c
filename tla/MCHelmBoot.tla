------------------------------ MODULE MCHelmBoot ------------------------------
(* Four pads on two timers, as S3, S4 (TIM5) and S7, S8 (TIM4); gps, input *)
(* and mag with a UART of their own each, and the I2C connector H.         *)
EXTENDS HelmBoot

MCSubsystems == {"gps", "input", "mag"}
MCLetters == {"c", "e", "h"}
MCUartPorts == {"c", "e"}
MCI2cPorts == {"h"}
MCI2cSubsystems == {"mag"}
MCSourceValues == {"NONE", "DIRECT"}
MCDefaultClaim ==
  [gps |-> [port |-> "c", source |-> "DIRECT"],
   input |-> [port |-> "e", source |-> "DIRECT"],
   mag |-> [port |-> "unset", source |-> "NONE"]]
MCGpsUarts == {"c"}
MCTimerOf == <<"TIM5", "TIM5", "TIM4", "TIM4">>
MCRateValues == {"50", "333"}
MCPeriodOf == [r \in MCRateValues |-> IF r = "50" THEN 20000 ELSE 3000]
=============================================================================
