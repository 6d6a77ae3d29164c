-------------------------- MODULE MCSensorTelemetry --------------------------
(* The battery's periods in units of the gather task's 100 ms.             *)
EXTENDS SensorTelemetry

MCModules == {"sensor"}
MCValue == Samples
MCFailed == [m \in MCModules |-> Failed]
MCMaxPeriod == [m \in MCModules |-> 15]

=============================================================================
