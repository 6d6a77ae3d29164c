------------------------ MODULE SensorTelemetryProofs ------------------------
(* A sensor's way to its two fields, for any samples, periods and horizons. *)
EXTENDS SensorTelemetry, TLAPS

LEMMA SensorConstants ==
  /\ Modules = {"sensor"} /\ Value = Samples /\ Failed \in Samples
  /\ Fallback = [m \in Modules |-> Failed] /\ Seed = [m \in Modules |-> Failed]
  /\ Deadline \in Nat /\ GatherDeadline \in Nat
  /\ DarkHorizon \in Nat /\ BrightHorizon \in Nat
  /\ PollPeriod \in Nat \ {0} /\ AgeCap \in Nat
  BY SensorAssumption, MonitorAssumption DEF Samples

(***************************************************************************)
(* Types: the monitor's, the sensor task's and the gather task's.          *)
(***************************************************************************)

TaskTypeOK ==
  /\ pc \in {"register", "init", "delay", "publish", "kick"}
  /\ chipReady \in BOOLEAN /\ stuck \in BOOLEAN
  /\ sample \in Samples
  /\ elapsed \in 0 .. Deadline

GatherTypeOK ==
  /\ gpc \in {"delay", "first", "second"}
  /\ starved \in BOOLEAN
  /\ copy \in Samples
  /\ table \in [1 .. 2 -> Samples]
  /\ slept \in 0 .. GatherDeadline

HistoryTypeOK == dark \in 0 .. DarkHorizon /\ bright \in 0 .. BrightHorizon

TypeInv == MonitorTypeOK /\ TaskTypeOK /\ GatherTypeOK /\ HistoryTypeOK

LEMMA TypeStart == Init => TypeInv
<1> SUFFICES ASSUME Init PROVE TypeInv
  OBVIOUS
<1>1. MonitorTypeOK
  BY MonitorAssumption DEF Init, MonitorInit, MonitorTypeOK
<1>2. \A n \in Nat : 0 \in 0 .. n
  OBVIOUS
<1>3. TaskTypeOK
  BY <1>2, SensorConstants DEF Init, TaskTypeOK
<1>4. GatherTypeOK
  BY <1>2, SensorConstants DEF Init, GatherTypeOK
<1>5. HistoryTypeOK
  BY <1>2, SensorConstants DEF Init, HistoryTypeOK
<1>6. QED
  BY <1>1, <1>3, <1>4, <1>5 DEF TypeInv

(* The monitor's variables change only by its own actions. *)
LEMMA MonitorActions ==
  ASSUME [Next]_vars
  PROVE  \/ UNCHANGED mvars \/ Watch("sensor") \/ Publish("sensor", sample)
         \/ Kick("sensor") \/ Sweep \/ Tick
<1> USE DEF sensorVars, gatherVars
<1>1. CASE Register
  BY <1>1 DEF Register
<1>2. CASE PublishSample \/ KickSupervisor
  BY <1>2 DEF PublishSample, KickSupervisor
<1>3. CASE SensorSweep \/ SensorTick
  BY <1>3 DEF SensorSweep, SensorTick
<1>4. CASE \/ \E ok \in BOOLEAN : ChipInit(ok)
           \/ \E ok \in BOOLEAN, id \in SampleIds : Read(ok, id)
           \/ Hangs \/ Returns
  BY <1>4 DEF ChipInit, Read, Hangs, Returns
<1>5. CASE Peek \/ SetFirst \/ SetSecond \/ Starves \/ Runs
  BY <1>5 DEF Peek, SetFirst, SetSecond, Starves, Runs
<1>6. CASE UNCHANGED vars
  BY <1>6 DEF vars
<1>7. QED
  BY <1>1, <1>2, <1>3, <1>4, <1>5, <1>6 DEF Next

LEMMA MonitorStep == TypeInv /\ [Next]_vars => MonitorTypeOK'
<1> SUFFICES ASSUME TypeInv, [Next]_vars PROVE MonitorTypeOK'
  OBVIOUS
<1>1. MonitorTypeOK /\ "sensor" \in Modules /\ sample \in Value
  BY SensorConstants DEF TypeInv, TaskTypeOK
<1>2. CASE UNCHANGED mvars
  BY <1>1, <1>2 DEF mvars, MonitorTypeOK
<1>3. CASE Watch("sensor")
  BY <1>1, <1>3, MonitorAssumption DEF Watch, MonitorTypeOK
<1>4. CASE Publish("sensor", sample)
  BY <1>1, <1>4 DEF Publish, MonitorTypeOK
<1>5. CASE Kick("sensor")
  BY <1>1, <1>5, MonitorAssumption DEF Kick, MonitorTypeOK
<1>6. CASE Sweep
  BY <1>1, <1>6, MonitorAssumption DEF Sweep, MonitorTypeOK
<1>7. CASE Tick
  BY <1>1, <1>7, MonitorAssumption DEF Tick, Older, MonitorTypeOK
<1>8. QED
  BY <1>2, <1>3, <1>4, <1>5, <1>6, <1>7, MonitorActions

LEMMA CappedTyped ==
  ASSUME NEW cap \in Nat, NEW n \in 0 .. cap
  PROVE  Capped(n, cap) \in 0 .. cap /\ 0 \in 0 .. cap
  BY DEF Capped

LEMMA TaskStep == TypeInv /\ [Next]_vars => TaskTypeOK'
<1> SUFFICES ASSUME TypeInv, [Next]_vars PROVE TaskTypeOK'
  OBVIOUS
<1> USE DEF sensorVars, gatherVars
<1>1. TaskTypeOK /\ 0 \in 0 .. Deadline /\ Capped(elapsed, Deadline) \in 0 .. Deadline
  BY SensorConstants, CappedTyped DEF TypeInv, TaskTypeOK
<1>2. CASE UNCHANGED sensorVars
  BY <1>1, <1>2 DEF TaskTypeOK
<1>3. CASE Register \/ PublishSample \/ KickSupervisor
  BY <1>1, <1>3 DEF Register, PublishSample, KickSupervisor, TaskTypeOK
<1>4. ASSUME NEW ok \in BOOLEAN, ChipInit(ok) PROVE TaskTypeOK'
  BY <1>1, <1>4 DEF ChipInit, TaskTypeOK
<1>5. ASSUME NEW ok \in BOOLEAN, NEW id \in SampleIds, Read(ok, id) PROVE TaskTypeOK'
  <2>1. SampleOf(ok, id) \in Samples
    BY DEF SampleOf, Samples, Measured
  <2>2. QED
    BY <1>1, <1>5, <2>1 DEF Read, TaskTypeOK
<1>6. CASE Hangs \/ Returns
  BY <1>1, <1>6 DEF Hangs, Returns, TaskTypeOK
<1>7. CASE SensorTick
  BY <1>1, <1>7 DEF SensorTick, TaskTypeOK
<1>8. CASE Peek \/ SetFirst \/ SetSecond \/ Starves \/ Runs \/ SensorSweep \/ UNCHANGED vars
  BY <1>2, <1>8 DEF Peek, SetFirst, SetSecond, Starves, Runs, SensorSweep, vars
<1>9. QED
  BY <1>3, <1>4, <1>5, <1>6, <1>7, <1>8 DEF Next

LEMMA GatherStep == TypeInv /\ [Next]_vars => GatherTypeOK'
<1> SUFFICES ASSUME TypeInv, [Next]_vars PROVE GatherTypeOK'
  OBVIOUS
<1> USE DEF sensorVars, gatherVars
<1>1. /\ GatherTypeOK /\ 0 \in 0 .. GatherDeadline /\ queue["sensor"] \in Samples
      /\ Capped(slept, GatherDeadline) \in 0 .. GatherDeadline
  BY SensorConstants, CappedTyped DEF TypeInv, GatherTypeOK, MonitorTypeOK
<1>2. CASE UNCHANGED gatherVars
  BY <1>1, <1>2 DEF GatherTypeOK
<1>3. CASE Peek \/ Starves \/ Runs
  BY <1>1, <1>3 DEF Peek, Starves, Runs, GatherTypeOK
<1>4. CASE SetFirst \/ SetSecond
  <2>1. 1 \in 1 .. 2 /\ 2 \in 1 .. 2
    OBVIOUS
  <2>2. table' \in [1 .. 2 -> Samples]
    BY <1>1, <1>4, <2>1 DEF SetFirst, SetSecond, Second, GatherTypeOK
  <2>3. QED
    BY <1>1, <1>4, <2>2 DEF SetFirst, SetSecond, GatherTypeOK
<1>5. CASE SensorTick
  BY <1>1, <1>5 DEF SensorTick, GatherTypeOK
<1>6. CASE \/ Register \/ PublishSample \/ KickSupervisor \/ Hangs \/ Returns \/ SensorSweep
           \/ \E ok \in BOOLEAN : ChipInit(ok)
           \/ \E ok \in BOOLEAN, id \in SampleIds : Read(ok, id)
           \/ UNCHANGED vars
  BY <1>2, <1>6 DEF Register, PublishSample, KickSupervisor, Hangs, Returns, SensorSweep,
                    ChipInit, Read, vars
<1>7. QED
  BY <1>3, <1>4, <1>5, <1>6 DEF Next

LEMMA HistoryStep == TypeInv /\ [Next]_vars => HistoryTypeOK'
<1> SUFFICES ASSUME TypeInv, [Next]_vars PROVE HistoryTypeOK'
  OBVIOUS
<1>1. HistoryTypeOK /\ 0 \in 0 .. DarkHorizon /\ 0 \in 0 .. BrightHorizon
  BY SensorConstants, CappedTyped DEF TypeInv, HistoryTypeOK
<1>2. /\ Capped(dark, DarkHorizon) \in 0 .. DarkHorizon
      /\ Capped(bright, BrightHorizon) \in 0 .. BrightHorizon
  BY SensorConstants, CappedTyped DEF TypeInv, HistoryTypeOK
<1>3. /\ dark' \in {0, dark, Capped(dark, DarkHorizon)}
      /\ bright' \in {0, bright, Capped(bright, BrightHorizon)}
  BY DEF Next, Register, ChipInit, Read, PublishSample, KickSupervisor, Hangs, Returns, Peek,
         SetFirst, SetSecond, Starves, Runs, SensorSweep, SensorTick, vars
<1>4. QED
  BY <1>1, <1>2, <1>3 DEF HistoryTypeOK

LEMMA TypeStep == TypeInv /\ [Next]_vars => TypeInv'
  BY MonitorStep, TaskStep, GatherStep, HistoryStep DEF TypeInv

(* Queue, table, tasks and clocks keep their types for every sensor.       *)
THEOREM SensorTypeCorrect == Spec => []TypeOK
<1>1. TypeInv => TypeOK
  <2> SUFFICES ASSUME TypeInv PROVE TypeOK
    OBVIOUS
  <2>1. queue["sensor"] \in Samples /\ age["sensor"] \in 0 .. AgeCap
    BY SensorConstants DEF TypeInv, MonitorTypeOK
  <2>2. table[1] \in Samples /\ table[2] \in Samples
    BY DEF TypeInv, GatherTypeOK
  <2>3. QED
    BY <2>1, <2>2 DEF TypeInv, TaskTypeOK, GatherTypeOK, HistoryTypeOK, TypeOK
<1>2. QED
  BY <1>1, TypeStart, TypeStep, PTL DEF Spec

(* Whatever its chip does and wherever a HAL call keeps it, the sensor's   *)
(* queue and its age behave as DeadlineMonitor says of a supervised task.  *)
THEOREM SensorImplementsMonitor == Spec => MonitorSpec
<1>1. Init => MonitorInit
  BY DEF Init
<1>2. TypeInv /\ [Next]_vars => [MonitorNext]_mvars
  <2>1. TypeInv => "sensor" \in Modules /\ sample \in Value
    BY SensorConstants DEF TypeInv, TaskTypeOK
  <2>2. QED
    BY <2>1, MonitorActions DEF MonitorNext
<1>3. QED
  BY <1>1, <1>2, TypeStart, TypeStep, PTL DEF Spec, MonitorSpec

(***************************************************************************)
(* The two fields.                                                         *)
(***************************************************************************)

PairInv ==
  /\ gpc = "delay" => table[1] = table[2]
  /\ gpc = "second" => table[1] = copy

LEMMA PairStep == TypeInv /\ PairInv /\ [Next]_vars => PairInv'
<1> SUFFICES ASSUME TypeInv, PairInv, [Next]_vars PROVE PairInv'
  OBVIOUS
<1> USE DEF sensorVars, gatherVars
<1>1. table \in [1 .. 2 -> Samples] /\ 1 \in 1 .. 2 /\ 2 \in 1 .. 2
  BY DEF TypeInv, GatherTypeOK
<1>2. CASE SetFirst
  BY <1>1, <1>2 DEF SetFirst, PairInv
<1>3. CASE SetSecond
  BY <1>1, <1>3 DEF SetSecond, Second, PairInv
<1>4. CASE Peek
  BY <1>4 DEF Peek, PairInv
<1>5. CASE gpc' = gpc /\ table' = table /\ copy' = copy
  BY <1>5 DEF PairInv
<1>6. CASE \/ Register \/ PublishSample \/ KickSupervisor \/ Hangs \/ Returns \/ SensorSweep
           \/ \E ok \in BOOLEAN : ChipInit(ok)
           \/ \E ok \in BOOLEAN, id \in SampleIds : Read(ok, id)
           \/ Starves \/ Runs \/ SensorTick \/ UNCHANGED vars
  BY <1>5, <1>6 DEF Register, PublishSample, KickSupervisor, Hangs, Returns, SensorSweep,
                    ChipInit, Read, Starves, Runs, SensorTick, vars
<1>7. QED
  BY <1>2, <1>3, <1>4, <1>6 DEF Next

(* Between two passes of the gather task both fields show one sample,      *)
(* whatever the sensor and the supervisor have written meanwhile.          *)
THEOREM PairsAgreeHolds == Spec => []PairsAgree
<1>1. Init => PairInv
  BY DEF Init, PairInv
<1>2. PairInv => PairsAgree
  BY DEF PairInv, PairsAgree
<1>3. QED
  BY <1>1, <1>2, TypeStart, TypeStep, PairStep, PTL DEF Spec

(***************************************************************************)
(* Bounds.  Every clock moves with a tick only, and by one; dark and       *)
(* bright fall to zero, and age and elapsed stop at their caps.            *)
(***************************************************************************)

Limit == MaxPeriod["sensor"]

LEMMA Bounds ==
  /\ Limit \in Nat /\ Period \in Nat \ {0} /\ GatherPeriod \in Nat \ {0}
  /\ Period <= Deadline /\ 2 * Deadline <= Limit /\ GatherPeriod <= GatherDeadline
  /\ Limit + PollPeriod < AgeCap
  /\ 2 * (Limit + PollPeriod) + 2 * GatherDeadline < DarkHorizon + Period + GatherPeriod
  /\ 2 * Deadline + 2 * GatherDeadline < BrightHorizon + GatherPeriod
  BY SensorAssumption, MonitorAssumption DEF Limit

LEMMA Clocks ==
  ASSUME TypeInv
  PROVE  /\ dark \in Nat /\ bright \in Nat
         /\ dark <= DarkHorizon /\ bright <= BrightHorizon
         /\ elapsed \in Nat /\ elapsed <= Deadline
         /\ slept \in Nat /\ slept <= GatherDeadline
         /\ age["sensor"] \in Nat /\ age["sensor"] <= AgeCap
         /\ since \in Nat /\ since <= PollPeriod
         /\ age \in [{"sensor"} -> 0 .. AgeCap]
         /\ queue \in [{"sensor"} -> Samples]
         /\ table \in [1 .. 2 -> Samples]
<1>1. MonitorTypeOK /\ TaskTypeOK /\ GatherTypeOK /\ HistoryTypeOK
  BY DEF TypeInv
<1>2. age \in [{"sensor"} -> 0 .. AgeCap] /\ queue \in [{"sensor"} -> Samples]
  BY <1>1, SensorConstants DEF MonitorTypeOK
<1>3. age["sensor"] \in 0 .. AgeCap
  BY <1>2
<1>4. QED
  BY <1>1, <1>2, <1>3, SensorConstants
     DEF MonitorTypeOK, TaskTypeOK, GatherTypeOK, HistoryTypeOK

LEMMA Ticks ==
  ASSUME TypeInv, SensorTick
  PROVE  /\ since' = since + 1 /\ since < PollPeriod
         /\ queue' = queue /\ watched' = watched
         /\ pc' = pc /\ pc # "register" /\ sample' = sample /\ chipReady' = chipReady
         /\ gpc' = gpc /\ copy' = copy /\ table' = table
         /\ "sensor" \in watched =>
              age'["sensor"] = IF age["sensor"] < AgeCap THEN age["sensor"] + 1
                                                         ELSE age["sensor"]
         /\ elapsed' = IF elapsed < Deadline THEN elapsed + 1 ELSE elapsed
         /\ ~ stuck => elapsed < Deadline
         /\ slept' = IF slept < GatherDeadline THEN slept + 1 ELSE slept
         /\ ~ starved => slept < GatherDeadline
         /\ dark' <= dark + 1 /\ dark' \in Nat
         /\ starved => dark' = 0
         /\ bright' <= bright + 1 /\ bright' \in Nat
         /\ stuck \/ starved => bright' = 0
<1>1. age' = [m \in {"sensor"} |-> IF m \in watched THEN Older(age[m]) ELSE age[m]]
  BY SensorConstants DEF SensorTick, Tick
<1>2. "sensor" \in watched =>
        age'["sensor"] = IF age["sensor"] < AgeCap THEN age["sensor"] + 1 ELSE age["sensor"]
  BY <1>1 DEF Older
<1>3. /\ dark' <= dark + 1 /\ dark' \in Nat
      /\ starved => dark' = 0
      /\ bright' <= bright + 1 /\ bright' \in Nat
      /\ stuck \/ starved => bright' = 0
  BY Clocks, SensorConstants DEF SensorTick, Capped
<1>4. QED
  BY <1>2, <1>3 DEF SensorTick, Tick, Capped

(***************************************************************************)
(* Silence.  A queue that still holds a number was written before the      *)
(* kick that set the age back, so dark is bounded by the age before that   *)
(* kick and by two ages after it; the gather task adds two passes.         *)
(***************************************************************************)

Shows(s) == s # Failed

QueueDark ==
  /\ pc # "register" => "sensor" \in watched
  /\ pc \in {"register", "init"} => ~ Shows(queue["sensor"])
  /\ pc \in {"delay", "publish"} => elapsed <= age["sensor"]
  /\ pc = "publish" => Period <= elapsed
  /\ (pc = "kick" /\ Shows(queue["sensor"])) =>
       /\ dark + Period <= age["sensor"]
       /\ dark + Period <= Limit + since
  /\ (pc \in {"delay", "publish"} /\ Shows(queue["sensor"])) =>
       /\ dark + Period <= Limit + PollPeriod + age["sensor"]
       /\ dark + Period <= 2 * Limit + PollPeriod + since

TableDark ==
  /\ gpc \in {"first", "second"} => GatherPeriod <= slept
  /\ (gpc \in {"first", "second"} /\ Shows(copy)) =>
       dark + Period + GatherPeriod <= 2 * (Limit + PollPeriod) + slept
  /\ \A f \in 1 .. 2 : Shows(table[f]) =>
       dark + Period + GatherPeriod <= 2 * (Limit + PollPeriod) + GatherDeadline + slept

LEMMA QueueDarkBound ==
  ASSUME TypeInv, QueueDark, Shows(queue["sensor"])
  PROVE  dark + Period <= 2 * (Limit + PollPeriod)
<1>1. pc \in {"kick", "delay", "publish"}
  BY DEF QueueDark, TypeInv, TaskTypeOK
<1>2. QED
  BY <1>1, Bounds, Clocks, SensorConstants DEF QueueDark

\* A sweep leaves a number only where the age is within the limit.
LEMMA Swept ==
  ASSUME TypeInv, SensorSweep
  PROVE  /\ queue'["sensor"] \in {queue["sensor"], Failed}
         /\ ("sensor" \in watched /\ age["sensor"] > Limit) => queue'["sensor"] = Failed
         /\ ("sensor" \notin watched \/ age["sensor"] <= Limit) => queue'["sensor"] = queue["sensor"]
         /\ since' = 0
<1>1. PICK hit \in SUBSET {m \in Modules : Overdue(m)} :
        queue' = [m \in Modules |-> IF m \in hit THEN Fallback[m] ELSE queue[m]]
  BY DEF SensorSweep, Sweep
<1>2. queue'["sensor"] = IF "sensor" \in hit THEN Failed ELSE queue["sensor"]
  BY <1>1, SensorConstants
<1>3. Overdue("sensor") <=> "sensor" \in watched /\ age["sensor"] > Limit
  BY DEF Overdue, Limit
<1>4. Overdue("sensor") => queue'["sensor"] = Failed
  BY SensorConstants DEF SensorSweep
<1>5. ~ Overdue("sensor") => "sensor" \notin hit
  BY <1>1
<1>6. ("sensor" \notin watched \/ age["sensor"] <= Limit) => ~ Overdue("sensor")
  BY <1>3, Clocks, Bounds
<1>7. QED
  BY <1>2, <1>3, <1>4, <1>5, <1>6 DEF SensorSweep, Sweep

LEMMA QueueDarkStep == TypeInv /\ QueueDark /\ [Next]_vars => QueueDark'
<1> SUFFICES ASSUME TypeInv, QueueDark, [Next]_vars PROVE QueueDark'
  OBVIOUS
<1> USE DEF sensorVars, gatherVars
<1>1. CASE Register
  <2>1. "sensor" \in watched' /\ queue' = queue
    BY <1>1, SensorConstants DEF Register, Watch
  <2>2. QED
    BY <1>1, <2>1 DEF Register, QueueDark
<1>2. ASSUME NEW ok \in BOOLEAN, ChipInit(ok) PROVE QueueDark'
  BY <1>2, Clocks DEF ChipInit, mvars, QueueDark
<1>3. ASSUME NEW ok \in BOOLEAN, NEW id \in SampleIds, Read(ok, id) PROVE QueueDark'
  BY <1>3, Clocks DEF Read, mvars, QueueDark
<1>4. CASE PublishSample
  <2>1. /\ queue'["sensor"] = sample /\ age' = age /\ watched' = watched /\ since' = since
        /\ pc = "publish" /\ pc' = "kick"
    BY <1>4, Clocks DEF PublishSample, Publish
  <2>2. Shows(sample) => dark' = 0
    BY <1>4 DEF PublishSample, Shows, TypeInv, TaskTypeOK, Samples, Measured
  <2>3. QED
    BY <2>1, <2>2, Clocks, Bounds, SensorConstants DEF QueueDark
<1>5. CASE KickSupervisor
  <2>1. /\ queue' = queue /\ age'["sensor"] = 0 /\ watched' = watched /\ since' = since
        /\ pc = "kick" /\ pc' = "delay" /\ elapsed' = 0 /\ dark' = dark
    BY <1>5, Clocks DEF KickSupervisor, Kick
  <2>2. QED
    BY <2>1, Clocks, Bounds, SensorConstants DEF QueueDark
<1>6. CASE SensorSweep
  <2>1. /\ pc' = pc /\ elapsed' = elapsed /\ dark' = dark /\ age' = age /\ watched' = watched
    BY <1>6 DEF SensorSweep, Sweep
  <2>2. Shows(queue'["sensor"]) =>
          /\ queue'["sensor"] = queue["sensor"]
          /\ "sensor" \in watched => age["sensor"] <= Limit
    BY <1>6, Swept, Clocks, Bounds DEF Shows
  <2>3. since' = 0
    BY <1>6, Swept
  <2>4. QED
    BY <2>1, <2>2, <2>3, Clocks, Bounds, SensorConstants DEF QueueDark
<1>7. CASE SensorTick
  BY <1>7, Ticks, Clocks, Bounds, SensorConstants DEF QueueDark
<1>8. CASE \/ Hangs \/ Returns \/ Peek \/ SetFirst \/ SetSecond \/ Starves \/ Runs
           \/ UNCHANGED vars
  <2>1. UNCHANGED <<mvars, pc, elapsed, dark>>
    BY <1>8 DEF Hangs, Returns, Peek, SetFirst, SetSecond, Starves, Runs, vars
  <2>2. QED
    BY <2>1 DEF mvars, QueueDark
<1>9. QED
  BY <1>1, <1>2, <1>3, <1>4, <1>5, <1>6, <1>7, <1>8 DEF Next

LEMMA TableDarkStep == TypeInv /\ PairInv /\ QueueDark /\ TableDark /\ [Next]_vars => TableDark'
<1> SUFFICES ASSUME TypeInv, PairInv, QueueDark, TableDark, [Next]_vars PROVE TableDark'
  OBVIOUS
<1> USE DEF sensorVars, gatherVars
<1>1. 1 \in 1 .. 2 /\ 2 \in 1 .. 2 /\ \A f \in 1 .. 2 : f = 1 \/ f = 2
  OBVIOUS
<1>2. CASE Peek
  <2>1. /\ copy' = queue["sensor"] /\ table' = table /\ dark' = dark /\ slept' = slept
        /\ GatherPeriod <= slept
    BY <1>2, Clocks, Bounds DEF Peek
  <2>2. QED
    BY <2>1, QueueDarkBound, Clocks, Bounds, SensorConstants DEF TableDark
<1>3. CASE SetFirst
  <2>1. /\ gpc = "first" /\ gpc' = "second" /\ copy' = copy /\ dark' = dark /\ slept' = slept
        /\ table'[1] = copy /\ table'[2] = table[2]
    BY <1>1, <1>3, Clocks DEF SetFirst
  <2>2. QED
    BY <1>1, <2>1, Clocks, Bounds, SensorConstants DEF TableDark
<1>4. CASE SetSecond
  <2>1. /\ gpc = "second" /\ gpc' = "delay" /\ copy' = copy /\ dark' = dark /\ slept' = 0
        /\ table'[1] = copy /\ table'[2] = copy
    BY <1>1, <1>4, Clocks DEF SetSecond, Second, PairInv
  <2>2. QED
    BY <1>1, <2>1, Clocks, Bounds, SensorConstants DEF TableDark
<1>5. CASE SensorTick
  BY <1>5, Ticks, Clocks, Bounds, SensorConstants DEF TableDark
<1>6. CASE PublishSample
  <2>1. /\ gpc' = gpc /\ copy' = copy /\ table' = table /\ slept' = slept
        /\ dark' \in {0, dark}
    BY <1>6 DEF PublishSample
  <2>2. QED
    BY <2>1, Clocks, Bounds, SensorConstants DEF TableDark
<1>7. CASE \/ Register \/ KickSupervisor \/ Hangs \/ Returns \/ SensorSweep
           \/ \E ok \in BOOLEAN : ChipInit(ok)
           \/ \E ok \in BOOLEAN, id \in SampleIds : Read(ok, id)
           \/ Starves \/ Runs \/ UNCHANGED vars
  <2>1. UNCHANGED <<gpc, copy, table, slept, dark>>
    BY <1>7 DEF Register, KickSupervisor, Hangs, Returns, SensorSweep, ChipInit, Read,
                Starves, Runs, vars
  <2>2. QED
    BY <2>1 DEF TableDark
<1>8. QED
  BY <1>2, <1>3, <1>4, <1>5, <1>6, <1>7 DEF Next

LEMMA DarkStart == Init => QueueDark /\ TableDark
<1> SUFFICES ASSUME Init PROVE QueueDark /\ TableDark
  OBVIOUS
<1>1. queue["sensor"] = Failed
  BY SensorConstants DEF Init, MonitorInit
<1>2. \A f \in 1 .. 2 : table[f] = Failed
  BY DEF Init
<1>3. QED
  BY <1>1, <1>2 DEF Init, QueueDark, TableDark, Shows

(* A sensor that has put no number in its queue for DarkHorizon shows none *)
(* in its fields, for all periods: it failed, hung before its kick, after  *)
(* it, or both, and the supervisor and the gather task did their part.     *)
THEOREM SilenceIsReported == Spec => []SilenceReported
<1>1. TypeInv /\ TableDark => SilenceReported
  BY Clocks, Bounds, SensorConstants DEF TableDark, SilenceReported, Shows
<1>2. Init => PairInv
  BY DEF Init, PairInv
<1>3. QED
  BY <1>1, <1>2, TypeStart, TypeStep, PairStep, DarkStart, QueueDarkStep, TableDarkStep, PTL
     DEF Spec

(***************************************************************************)
(* Samples.  After one pass without trouble the age is within the limit,   *)
(* so what the next pass publishes is not substituted.                     *)
(***************************************************************************)

QueueBright ==
  /\ pc = "register" => bright = 0 /\ elapsed = 0 /\ age["sensor"] = 0
  /\ pc # "register" => "sensor" \in watched
  /\ pc = "init" => bright <= elapsed
  /\ (pc = "init" /\ (bright > 0 \/ elapsed < Deadline)) => age["sensor"] <= elapsed
  /\ (pc \in {"delay", "publish", "kick"} /\ bright > elapsed) =>
       age["sensor"] <= Deadline + elapsed
  /\ (pc = "publish" /\ bright > elapsed) => Shows(sample)
  /\ (pc = "kick" /\ bright > elapsed) => Shows(queue["sensor"])
  /\ bright > Deadline + elapsed => Shows(queue["sensor"])

TableBright ==
  /\ gpc \in {"first", "second"} => GatherPeriod <= slept
  /\ (gpc \in {"first", "second"} /\ ~ Shows(copy)) =>
       bright + GatherPeriod <= 2 * Deadline + slept
  /\ \A f \in 1 .. 2 : ~ Shows(table[f]) =>
       bright + GatherPeriod <= 2 * Deadline + GatherDeadline + slept

LEMMA QueueBrightBound ==
  ASSUME TypeInv, QueueBright, ~ Shows(queue["sensor"])
  PROVE  bright <= 2 * Deadline
  BY Clocks, SensorConstants DEF QueueBright

LEMMA QueueBrightStep == TypeInv /\ QueueBright /\ [Next]_vars => QueueBright'
<1> SUFFICES ASSUME TypeInv, QueueBright, [Next]_vars PROVE QueueBright'
  OBVIOUS
<1> USE DEF sensorVars, gatherVars
<1>1. CASE Register
  <2>1. /\ "sensor" \in watched' /\ queue' = queue /\ age'["sensor"] = 0
        /\ pc = "register" /\ pc' = "init" /\ elapsed' = elapsed /\ bright' = bright
    BY <1>1, Clocks, SensorConstants DEF Register, Watch
  <2>2. QED
    BY <2>1, Clocks, SensorConstants DEF QueueBright
<1>2. ASSUME NEW ok \in BOOLEAN, ChipInit(ok) PROVE QueueBright'
  <2>1. /\ pc = "init" /\ pc' = "delay" /\ elapsed' = 0 /\ bright' \in {0, bright}
        /\ queue' = queue /\ age' = age /\ watched' = watched
    BY <1>2 DEF ChipInit, mvars
  <2>2. QED
    BY <2>1, Clocks, SensorConstants DEF QueueBright
<1>3. ASSUME NEW ok \in BOOLEAN, NEW id \in SampleIds, Read(ok, id) PROVE QueueBright'
  <2>1. /\ pc = "delay" /\ pc' = "publish" /\ elapsed' = elapsed
        /\ queue' = queue /\ age' = age /\ watched' = watched
    BY <1>3 DEF Read, mvars
  <2>2. (bright' = bright /\ Shows(sample')) \/ bright' = 0
    <3>1. CASE chipReady /\ ok
      <4>1. sample' = [status |-> "OK", sample |-> id] /\ bright' = bright
        BY <1>3, <3>1 DEF Read, SampleOf
      <4>2. sample'.status = "OK" /\ Failed.status = "FAILED"
        BY <4>1 DEF Failed
      <4>3. QED
        BY <4>1, <4>2 DEF Shows
    <3>2. CASE ~ (chipReady /\ ok)
      BY <1>3, <3>2 DEF Read
    <3>3. QED
      BY <3>1, <3>2
  <2>3. QED
    BY <2>1, <2>2, Clocks, SensorConstants DEF QueueBright
<1>4. CASE PublishSample
  <2>1. /\ queue'["sensor"] = sample /\ age' = age /\ watched' = watched
        /\ pc = "publish" /\ pc' = "kick" /\ bright' = bright /\ elapsed' = elapsed
    BY <1>4, Clocks DEF PublishSample, Publish
  <2>2. QED
    BY <2>1, Clocks, SensorConstants DEF QueueBright
<1>5. CASE KickSupervisor
  <2>1. /\ queue' = queue /\ age'["sensor"] = 0 /\ watched' = watched
        /\ pc = "kick" /\ pc' = "delay" /\ elapsed' = 0 /\ bright' = bright
    BY <1>5, Clocks DEF KickSupervisor, Kick
  <2>2. QED
    BY <2>1, Clocks, SensorConstants DEF QueueBright
<1>6. CASE SensorSweep
  <2>1. UNCHANGED <<pc, elapsed, bright, age, watched, sample>>
    BY <1>6 DEF SensorSweep, Sweep
  <2>2. age["sensor"] <= Limit => queue'["sensor"] = queue["sensor"]
    BY <1>6, Swept
  <2>3. bright > elapsed => age["sensor"] <= Limit
    <3>1. pc \in {"register", "init", "delay", "publish", "kick"}
      BY DEF TypeInv, TaskTypeOK
    <3>2. QED
      BY <3>1, Clocks, Bounds, SensorConstants DEF QueueBright
  <2>4. QED
    BY <2>1, <2>2, <2>3, Clocks, SensorConstants DEF QueueBright
<1>7. CASE SensorTick
  <2>1. stuck \/ starved \/ (~ stuck /\ ~ starved)
    OBVIOUS
  <2>2. CASE stuck \/ starved
    BY <1>7, <2>2, Ticks, Clocks, Bounds, SensorConstants DEF QueueBright
  <2>3. CASE ~ stuck /\ ~ starved
    <3>1. /\ pc' = pc /\ pc # "register" /\ sample' = sample /\ queue' = queue
          /\ watched' = watched /\ elapsed' = elapsed + 1 /\ elapsed < Deadline
          /\ bright' <= bright + 1 /\ bright' \in Nat
          /\ age'["sensor"] \in Nat /\ age'["sensor"] <= age["sensor"] + 1
      BY <1>7, <2>3, Ticks, Clocks, SensorConstants DEF QueueBright
    <3>2. QED
      BY <3>1, Clocks, Bounds, SensorConstants DEF QueueBright
  <2>4. QED
    BY <2>2, <2>3
<1>8. CASE \/ Hangs \/ Returns \/ Peek \/ SetFirst \/ SetSecond \/ Starves \/ Runs
           \/ UNCHANGED vars
  <2>1. UNCHANGED <<mvars, pc, elapsed, bright, sample>>
    BY <1>8 DEF Hangs, Returns, Peek, SetFirst, SetSecond, Starves, Runs, vars
  <2>2. QED
    BY <2>1 DEF mvars, QueueBright
<1>9. QED
  BY <1>1, <1>2, <1>3, <1>4, <1>5, <1>6, <1>7, <1>8 DEF Next

LEMMA TableBrightStep ==
  TypeInv /\ PairInv /\ QueueBright /\ TableBright /\ [Next]_vars => TableBright'
<1> SUFFICES ASSUME TypeInv, PairInv, QueueBright, TableBright, [Next]_vars
             PROVE  TableBright'
  OBVIOUS
<1> USE DEF sensorVars, gatherVars
<1>1. 1 \in 1 .. 2 /\ 2 \in 1 .. 2 /\ \A f \in 1 .. 2 : f = 1 \/ f = 2
  OBVIOUS
<1>2. CASE Peek
  <2>1. /\ copy' = queue["sensor"] /\ table' = table /\ bright' = bright /\ slept' = slept
        /\ GatherPeriod <= slept
    BY <1>2, Clocks, Bounds DEF Peek
  <2>2. QED
    BY <2>1, QueueBrightBound, Clocks, Bounds, SensorConstants DEF TableBright
<1>3. CASE SetFirst
  <2>1. /\ gpc = "first" /\ gpc' = "second" /\ copy' = copy /\ bright' = bright
        /\ slept' = slept /\ table'[1] = copy /\ table'[2] = table[2]
    BY <1>1, <1>3, Clocks DEF SetFirst
  <2>2. QED
    BY <1>1, <2>1, Clocks, Bounds, SensorConstants DEF TableBright
<1>4. CASE SetSecond
  <2>1. /\ gpc = "second" /\ gpc' = "delay" /\ copy' = copy /\ bright' = bright
        /\ slept' = 0 /\ table'[1] = copy /\ table'[2] = copy
    BY <1>1, <1>4, Clocks DEF SetSecond, Second, PairInv
  <2>2. QED
    BY <1>1, <2>1, Clocks, Bounds, SensorConstants DEF TableBright
<1>5. CASE SensorTick
  BY <1>5, Ticks, Clocks, Bounds, SensorConstants DEF TableBright
<1>6. CASE \/ Register \/ PublishSample \/ KickSupervisor \/ Hangs \/ Returns
           \/ SensorSweep \/ Starves \/ Runs
           \/ \E ok \in BOOLEAN : ChipInit(ok)
           \/ \E ok \in BOOLEAN, id \in SampleIds : Read(ok, id)
           \/ UNCHANGED vars
  <2>1. /\ gpc' = gpc /\ copy' = copy /\ table' = table /\ slept' = slept
        /\ bright' \in {0, bright}
    BY <1>6 DEF Register, PublishSample, KickSupervisor, Hangs, Returns, SensorSweep,
                ChipInit, Read, Starves, Runs, vars
  <2>2. QED
    BY <2>1, Clocks, Bounds, SensorConstants DEF TableBright
<1>7. QED
  BY <1>2, <1>3, <1>4, <1>5, <1>6 DEF Next

LEMMA BrightStart == Init => QueueBright /\ TableBright
<1> SUFFICES ASSUME Init PROVE QueueBright /\ TableBright
  OBVIOUS
<1>1. age["sensor"] = 0
  BY SensorConstants DEF Init, MonitorInit
<1>2. QED
  BY <1>1, Bounds, SensorConstants DEF Init, QueueBright, TableBright

(* A sensor that has read well for BrightHorizon is seen in both fields,   *)
(* for all periods, also after a task that hung has been substituted.      *)
THEOREM SamplesDoArrive == Spec => []SamplesArrive
<1>1. TypeInv /\ TableBright => SamplesArrive
  <2> SUFFICES ASSUME TypeInv, TableBright, bright = BrightHorizon, NEW f \in 1 .. 2
               PROVE  table[f] \in Measured
    BY DEF SamplesArrive
  <2>1. table[f] \in Samples
    BY Clocks
  <2>2. Shows(table[f])
    BY Clocks, Bounds, SensorConstants DEF TableBright
  <2>3. QED
    BY <2>1, <2>2 DEF Shows, Samples
<1>2. Init => PairInv
  BY DEF Init, PairInv
<1>3. QED
  BY <1>1, <1>2, TypeStart, TypeStep, PairStep, BrightStart, QueueBrightStep, TableBrightStep,
     PTL DEF Spec

=============================================================================
