--------------------------- MODULE SensorTelemetry ---------------------------
(***************************************************************************)
(* One onboard sensor's way to the telemetry table: the sensor's task      *)
(* (lib/sensors/baro.c; battery.c is the same without failing reads), its  *)
(* chip behind blocking HAL calls, and the gather task that copies the     *)
(* sensor's queue to two fields (lib/telemetry/telemetry.c).  The sensor   *)
(* is supervised (DeadlineMonitor), the gather task is not.                *)
(*                                                                         *)
(* The unit of time is one period of the gather task.  A sample is a       *)
(* status and an identity; the two fields of a sensor, pressure and        *)
(* temperature or voltage and current, come from one sample.               *)
(***************************************************************************)
EXTENDS DeadlineMonitor

CONSTANTS
  SampleIds,       \* identities of what a chip can measure
  Period,          \* units the sensor's task sleeps
  Deadline,        \* units in which a live sensor task is through its
                   \* initialisation, or through its sleep and its pass
  GatherPeriod,    \* units the gather task sleeps
  GatherDeadline,  \* units by which a live gather task has finished its pass
  DarkHorizon,     \* history bound of dark
  BrightHorizon    \* history bound of bright

Nothing == 0
Failed == [status |-> "FAILED", sample |-> Nothing]
Measured == [status : {"OK"}, sample : SampleIds]
Samples == Measured \cup {Failed}

ASSUME SensorAssumption ==
  /\ Modules = {"sensor"}
  /\ Value = Samples
  /\ Seed = [m \in Modules |-> Failed]
  /\ Fallback = [m \in Modules |-> Failed]
  /\ Nothing \notin SampleIds
  /\ Period \in Nat \ {0}
  /\ Deadline \in Nat /\ Period <= Deadline /\ 2 * Deadline <= MaxPeriod["sensor"]
  /\ GatherPeriod \in Nat \ {0}
  /\ GatherDeadline \in Nat /\ GatherPeriod <= GatherDeadline
  /\ DarkHorizon \in Nat /\ BrightHorizon \in Nat
  \* A task hung before its kick and again after it, and two gather passes.
  /\ 2 * (MaxPeriod["sensor"] + PollPeriod) + 2 * GatherDeadline
       < DarkHorizon + Period + GatherPeriod
  \* A pass that a sweep may still overwrite, a second, and two gather passes.
  /\ 2 * Deadline + 2 * GatherDeadline < BrightHorizon + GatherPeriod

VARIABLES
  pc,         \* where the sensor's task is
  chipReady,  \* what the chip's initialisation returned
  sample,     \* the sample the pass has read
  stuck,      \* the sensor's task is inside a HAL call, or starved
  elapsed,    \* units since its sleep began, at first since it registered
  gpc,        \* where the gather task is
  copy,       \* the sample it has peeked
  slept,      \* units since its last pass ended
  starved,    \* it gets no further for now
  table,      \* field_queues: the sensor's two fields
  dark,       \* history: units since the sensor's task put OK in its queue,
              \* or the gather task was starved
  bright      \* history: units without a failed read or init, or anyone stuck

sensorVars == <<pc, chipReady, sample, stuck, elapsed>>
gatherVars == <<gpc, copy, slept, starved, table>>
vars == <<mvars, sensorVars, gatherVars, dark, bright>>

TypeOK ==
  /\ queue["sensor"] \in Samples
  /\ age["sensor"] \in 0 .. AgeCap
  /\ pc \in {"register", "init", "delay", "publish", "kick"}
  /\ gpc \in {"delay", "first", "second"}
  /\ {chipReady, stuck, starved} \subseteq BOOLEAN
  /\ {sample, copy, table[1], table[2]} \subseteq Samples
  /\ elapsed \in 0 .. Deadline
  /\ slept \in 0 .. GatherDeadline
  /\ dark \in 0 .. DarkHorizon
  /\ bright \in 0 .. BrightHorizon

(* baro_start() and telemetry_start() seed queue and fields with FAILED.   *)
Init ==
  /\ MonitorInit
  /\ pc = "register" /\ gpc = "delay"
  /\ chipReady = FALSE /\ stuck = FALSE /\ starved = FALSE
  /\ sample = Failed /\ copy = Failed
  /\ table = [f \in 1 .. 2 |-> Failed]
  /\ elapsed = 0 /\ slept = 0
  /\ dark = 0 /\ bright = 0

-----------------------------------------------------------------------------
(* baro_task. *)

(* supervisor_register() before the chip is touched: its initialisation    *)
(* runs against the first deadline.                                        *)
Register ==
  /\ pc = "register"
  /\ Watch("sensor")
  /\ pc' = "init"
  /\ UNCHANGED <<chipReady, sample, stuck, elapsed, gatherVars, dark, bright>>

(* baro_chip_init(): a chip that does not answer, has the wrong identity   *)
(* or is not ready after its reset is not tried again before the next      *)
(* boot.                                                                   *)
ChipInit(ok) ==
  /\ pc = "init" /\ ~ stuck
  /\ chipReady' = ok
  /\ pc' = "delay"
  /\ elapsed' = 0
  /\ bright' = IF ok THEN bright ELSE 0
  /\ UNCHANGED <<mvars, sample, stuck, gatherVars, dark>>

(* What a pass makes of baro_chip_read(). *)
SampleOf(ok, id) ==
  IF chipReady /\ ok THEN [status |-> "OK", sample |-> id] ELSE Failed

Read(ok, id) ==
  /\ pc = "delay" /\ ~ stuck
  /\ elapsed >= Period
  /\ sample' = SampleOf(ok, id)
  /\ pc' = "publish"
  /\ bright' = IF chipReady /\ ok THEN bright ELSE 0
  /\ UNCHANGED <<mvars, chipReady, stuck, elapsed, gatherVars, dark>>

(* Mutant: a failed read is not published. *)
PublishOnlyGood ==
  /\ pc = "publish" /\ ~ stuck
  /\ IF sample = Failed THEN UNCHANGED <<mvars, dark>>
                        ELSE Publish("sensor", sample) /\ dark' = 0
  /\ pc' = "kick"
  /\ UNCHANGED <<chipReady, sample, stuck, elapsed, gatherVars, bright>>

(* xQueueOverwrite(). *)
PublishSample ==
  /\ pc = "publish" /\ ~ stuck
  /\ Publish("sensor", sample)
  /\ pc' = "kick"
  /\ dark' = IF sample.status = "OK" THEN 0 ELSE dark
  /\ UNCHANGED <<chipReady, sample, stuck, elapsed, gatherVars, bright>>

(* supervisor_kick(). *)
KickSupervisor ==
  /\ pc = "kick" /\ ~ stuck
  /\ Kick("sensor")
  /\ pc' = "delay"
  /\ elapsed' = 0
  /\ UNCHANGED <<chipReady, sample, stuck, gatherVars, dark, bright>>

(* The driver waits with HAL_MAX_DELAY: a held bus line or a dead clock    *)
(* keeps the task for as long as it lasts.                                 *)
Hangs ==
  /\ pc # "register" /\ ~ stuck
  /\ stuck' = TRUE
  /\ UNCHANGED <<mvars, pc, chipReady, sample, elapsed, gatherVars, dark, bright>>

Returns ==
  /\ stuck
  /\ stuck' = FALSE
  /\ UNCHANGED <<mvars, pc, chipReady, sample, elapsed, gatherVars, dark, bright>>

-----------------------------------------------------------------------------
(* telemetry_gather_task. *)

(* baro_get_latest(). *)
Peek ==
  /\ gpc = "delay" /\ ~ starved
  /\ slept >= GatherPeriod
  /\ copy' = queue["sensor"]
  /\ gpc' = "first"
  /\ UNCHANGED <<mvars, sensorVars, slept, starved, table, dark, bright>>

(* Mutant: the first telemetry_set() names the second field, too. *)
SetFirstPasted ==
  /\ gpc = "first" /\ ~ starved
  /\ table' = [table EXCEPT ![2] = copy]
  /\ gpc' = "second"
  /\ UNCHANGED <<mvars, sensorVars, copy, slept, starved, dark, bright>>

(* telemetry_set() of the first field. *)
SetFirst ==
  /\ gpc = "first" /\ ~ starved
  /\ table' = [table EXCEPT ![1] = copy]
  /\ gpc' = "second"
  /\ UNCHANGED <<mvars, sensorVars, copy, slept, starved, dark, bright>>

(* Mutant: the second field is taken from the queue again. *)
SecondPeekedAgain == queue["sensor"]

Second == copy

(* telemetry_set() of the second field, and the end of the pass. *)
SetSecond ==
  /\ gpc = "second" /\ ~ starved
  /\ table' = [table EXCEPT ![2] = Second]
  /\ gpc' = "delay"
  /\ slept' = 0
  /\ UNCHANGED <<mvars, sensorVars, copy, starved, dark, bright>>

Starves ==
  /\ ~ starved
  /\ starved' = TRUE
  /\ UNCHANGED <<mvars, sensorVars, gpc, copy, slept, table, dark, bright>>

Runs ==
  /\ starved
  /\ starved' = FALSE
  /\ UNCHANGED <<mvars, sensorVars, gpc, copy, slept, table, dark, bright>>

-----------------------------------------------------------------------------
(* Time. *)

(* A task is stuck for less than the 49 days of the tick counter here:     *)
(* every sweep recognises it.                                              *)
SensorSweep ==
  /\ Sweep
  /\ Overdue("sensor") => queue'["sensor"] = Fallback["sensor"]
  /\ UNCHANGED <<sensorVars, gatherVars, dark, bright>>

Capped(n, cap) == IF n < cap THEN n + 1 ELSE n

(* A task that is neither stuck nor starved meets its deadline. *)
SensorTick ==
  /\ Tick
  /\ pc # "register"
  /\ stuck \/ elapsed < Deadline
  /\ starved \/ slept < GatherDeadline
  /\ elapsed' = Capped(elapsed, Deadline)
  /\ slept' = Capped(slept, GatherDeadline)
  /\ dark' = IF starved THEN 0 ELSE Capped(dark, DarkHorizon)
  /\ bright' = IF stuck \/ starved THEN 0 ELSE Capped(bright, BrightHorizon)
  /\ UNCHANGED <<pc, chipReady, sample, stuck, gpc, copy, starved, table>>

Next ==
  \/ Register
  \/ \E ok \in BOOLEAN : ChipInit(ok)
  \/ \E ok \in BOOLEAN, id \in SampleIds : Read(ok, id)
  \/ PublishSample
  \/ KickSupervisor
  \/ Hangs
  \/ Returns
  \/ Peek
  \/ SetFirst
  \/ SetSecond
  \/ Starves
  \/ Runs
  \/ SensorSweep
  \/ SensorTick

Spec == Init /\ [][Next]_vars

-----------------------------------------------------------------------------

(* telemetry.h: "FAILED (not STALE/zeroed) on any board without a baro, or *)
(* if the chip's own read fails -- same never-fabricate-a-value            *)
(* discipline".  A sensor that has delivered nothing for its deadline, the *)
(* supervisor's and the gather task's shows no number in either field,     *)
(* however it came to be silent: a failed initialisation, failing reads,   *)
(* or a HAL call that never returns at any point of the pass.              *)
SilenceReported ==
  dark = DarkHorizon => \A f \in 1 .. 2 : table[f] = Failed

(* A sensor that reads well reaches both fields, and again as soon after   *)
(* the supervisor has substituted FAILED for a task that was stuck.        *)
SamplesArrive ==
  bright = BrightHorizon => \A f \in 1 .. 2 : table[f] \in Measured

(* telemetry_gather_task peeks once for two fields: between its passes     *)
(* they are of one sample, whatever sensor and supervisor wrote meanwhile. *)
PairsAgree ==
  gpc = "delay" => table[1] = table[2]

=============================================================================
