# A verification project for heimdall-helm

TLA+ modules of the firmware's own logic, TLC runs that check them on small
instances, and TLAPS proofs of what matters most. heimdall-helm is the flight
controller firmware in `src/`: C on FreeRTOS (1 kHz tick, 32-bit tick counter,
preemptive, time-sliced). Every task runs at priority 1 and the supervisor at
priority 2. The board modelled is `matek_h743` (STM32H7), the one that runs
everything; `afroflight32` runs the same tasks with fewer ports and
`nexus_xr` is a stub.

All paths below are relative to the repository. `PROJECT.json` maps every
definition to the lines it was translated from.

## 1. The system: components, state, operations

| Component | State it keeps | Operations that change it | What makes it correct |
|---|---|---|---|
| supervisor (`src/lib/supervisor`) | 8 entries: name, queue, fallback, period, last kick, in use | `supervisor_register` (critical section), `supervisor_kick`, one sweep per 10 ms, watchdog refresh | a silent module's queue shows its fallback in time, a live one is never touched, the board is reset only if the sweep stops |
| start-up and stop handlers (`src/src/main.c`, `diag wedge`, board IWDG) | the call `main()` is at, the watchdog's counter | 18 calls in a fixed order, any of which may halt in `Error_Handler`; crash hooks and `diag wedge` stop the CPU; the IWDG resets it after about 250 ms | nothing reads a param before it is loaded; a stop that no watchdog ends has moved no servo, any other boots again |
| rx (`src/lib/rx`, SBUS capture in `board.c`) | DMA capture buffer, latest frame, last valid tick, `rx_queue` | DMA idle-line event, error callback (both interrupts), 20 ms poll | a lost link is reported in bounded time, a good one is never lost for good |
| mapping (`src/lib/mapping`) | `mapping_queue` | 20 ms pass: peek rx, publish channels and pitch target | status and channels belong together |
| control (`src/lib/control`) | `control_queue` | 20 ms pass: peek mapping, pitch passthrough | inactive exactly when its input is not valid |
| output (`src/lib/output`) | `slotTrim[]`, `lastGoodValue[]`, `output_queue` | 20 ms pass: reload trims, peek mapping then control, resolve each slot (scale, reverse, substitute), publish | pulses in the slot's travel, ends on the trims, failsafe values in bounded time, HOLD slots do not move |
| servo (`src/lib/servo`) | `servoTimers[]`, a handle per pad, timer compare registers, `servo_queue` | `servo_start`: frame rate, one timer after another, all channels configured before any runs; 20 ms pass: peek output, write PWM | pads on one timer share its set-up; the pads carry what output resolved |
| params (`src/lib/params`) | RAM cache, one record with CRC in flash | `params_init`, `param_set_u32` (cli task and sport task), `param_set_port` | what was acknowledged is what boots; never a mixture of records |
| S.Port (`src/lib/telemetry/sport.c`, UART7 in `board.c`) | receive state machine, field index, two 32-byte rings, CR1 | `UART7_IRQHandler`, `sport_task`: answer a poll, apply a push | one whole answer in its own slot, silence in every other, the line is always given back |
| gps (`src/lib/sensors/gps.c`, its UARTs in `board.c`) | 128-byte ring, line buffer, `latestFix`, `gps_queue`, the UART it is bound to | binding by `gps.port` and `gps.source` at its start, the UART's handler, 100 ms pass: drain, parse, publish, kick | only whole sentences count; the fix published is the module's |
| imu, baro, battery (`src/lib/sensors`) | one queue each, whether the chip's initialisation succeeded | register, initialise, read or fail or hang, publish, kick | a silent sensor shows no number, one that reads well is shown |
| telemetry (`src/lib/telemetry/telemetry.c`) | one latest-value queue per field | 100 ms gather pass, unsupervised | the two fields of a sensor come from one sample |
| cli, shell, usb console | line buffer, receive ring, transmit guard | line editing and dispatch; `param set` | no write over a buffer in use |
| port claims (in `params.c`, `cli.c`) | `.port`, `.source`, `.protocol` triples, in RAM and flash | `param set` with the validation of `param_set_port`; boot | every claimed port exists; no port with two owners |
| bootloader request (`src/lib/bootloader`) | magic word in a backup register, the reset's cause | `dfu`, reset, the check at the start of `main()` | served once, and only by the reset it was written for |

How they interact:

* **Length-1 overwrite queues.** Every module publishes its latest value with
  `xQueueOverwrite` and readers `xQueuePeek` it. Nobody waits for anybody; the
  hazard is age, not blocking. A task can be stopped between its peek and its
  overwrite, and the two queues that output peeks can be of different age.
* **The supervisor writes into the same queues.** When a module has not kicked
  within the period it declared, the supervisor overwrites *that module's*
  queue with the fallback it registered. The module may be in the middle of a
  pass and may come back at any time.
* **Interrupt rings** between UART handlers and tasks (GPS, S.Port, USB
  console): single producer, single consumer, drop when full. S.Port's task and
  handler also share the UART's CR1, which both read, modify and write.
* **`param_set_u32` is called from two tasks** of equal priority with no lock
  in the software; output reloads trims from the same cache every pass, field by
  field.
* **Reset** (power, watchdog, pin, `dfu`) loses all RAM and can fall between
  any two flash operations. What a life leaves for the next one is the flash
  record, a backup register and the reset flags.
* **Priority as a lock.** The supervisor, alone at priority 2, starts the
  watchdog in its first run, before any other task has run at all.

Hard behaviour: wrapping tick arithmetic; sweep against publish and kick;
stuck and returning tasks; one-shot capture against line errors; a lost CR1
update; flash erased inside a task that must answer on a bus; power loss within
a record; halts at every point of a boot; commands that take effect one reset
later. `PROJECT.json` lists 40 such hazards, each at its line.

## 2. Modules

```
DeadlineMonitor  <---- implemented by ----  Supervisor
   |-- GpsReader                 (EXTENDS)
   |-- SensorTelemetry           (EXTENDS)
   \-- HelmPipeline              (EXTENDS, with OutputScaling)
OutputScaling -- OutputSlot      (EXTENDS)
ParamWrite
   |-- PortClaims  <---- implemented by ----  HelmBoot
   \-- ServoTimers
HelmBoot                         (EXTENDS PortClaims, ServoTimers, BootRequest)
SbusReceiver      ParamStore      SportLink
```

`HelmPipeline`, `GpsReader` and `SensorTelemetry` do not repeat the supervisor's
table. They use the promise, `DeadlineMonitor`, and `Supervisor` is shown (by TLC,
and by proof for all constants) to keep that promise. That the GPS and sensor tasks
keep to the promise's steps is proved as well (`GpsImplementsMonitor`,
`SensorImplementsMonitor`); the pipeline's passes publish and kick in one step,
where the promise has two.

* **DeadlineMonitor**: what registering with the supervisor buys, in real ages:
  no table, no handles, no wrapping counter. Actions `Watch`, `Publish`,
  `Kick`, `Sweep`, `Tick`, `Restart`.
* **Supervisor**: `supervisor.c` with the tasks that use it. One action per
  critical step: `Register` (search and insert under one critical section; the
  refusal of a fallback above `SUPERVISOR_MAX_VALUE_BYTES` is left out, as every
  module's fits),
  `Wake`, `Publish`, `Kick`, `Sweep` (the loop over the entries and the
  refresh). Ticks wrap at `TickMod`; `age` is the real age, a history variable.
  `Wedge`/`Recover` stop and free a task at any step of its loop, `StopCpu`
  stops everything, `StoppedTick`/`IwdgReset` are the watchdog. The supervisor
  preempts priority 1, so a due sweep comes before any module step.
* **SbusReceiver**: the receiver (good, in failsafe, silent), the wire, the DMA
  capture (`armed`, `aligned`, `late`, `off`), the two HAL callbacks, and
  `rx_poll` with decode, stamp and backstop as one action on a wrapping tick
  counter. A malformed frame (header, footer, length) is a value of its own.
* **HelmPipeline**: the five tasks from link to pads. A pass is split at its
  queue accesses (`Peek`, for output also `PeekControl`, then `XxxPublish`), and
  a task may be suspended between any two. One slot of each kind in
  `output.c`'s tables: a reversed FIXED slot, the pitch slot, and a HOLD slot.
  Trims are state: `SetTrim` stores one field of a slot's trim at any time, and
  `LoadTrims`, the start of an output pass, copies them all. `pwm` is what the pads
  carry. A publication and its kick are one step here, so a task suspended between
  the two is a case of `Supervisor`, `GpsReader` and `SensorTelemetry` only.
* **OutputScaling**: `scale_slot`, `apply_reverse` with C's truncating division
  and `uint16_t`; **OutputSlot**: one slot over many passes. `LoadField` reads one
  field of the trim, `SetTrim` may come between any two of them, and the pass ends in
  `ResolveValid` or `ResolveInvalid`. `during` records which trims were stored while
  the reload ran. The peeks need no steps here: a source is valid with some raw value
  or not, and which of them it is, is `HelmPipeline`'s matter.
* **ParamStore**: `param_set_u32` as a sequence of steps (cache, snapshot,
  unlock, erase, program unit by unit, lock, roll back), HAL's busy handle, the
  controller's LOCK bit that either task can set under the other, hardware
  failure, and power loss at any point followed by `params_init`. The program loop
  covers both backends: they differ in the size of a unit and of the region. HAL
  itself is not in the repository; it is taken to report an error when it is called
  with the control register locked (`Refused`), never to return success for an
  erase that the register ignored.
* **SportLink**: the bus by byte times, UART7's flags, the handler, and
  `sport_task` with its three read-modify-writes of CR1 as separate reads and
  writes. Where a HAL release performs one of them atomically, the model allows
  more interleavings than the binary has. A byte moves from TDR to the shift
  register only with TE on. The UART's echo of its own bytes, with TE and RE both on
  after a late answer, is left out: an answer has no poll marker in it.
* **GpsReader**: ring, handler, sentence accumulator and `gps_task`, with a
  GPS module that is plugged and unplugged at any byte. A sentence is three
  tokens (`$`, its text, its checksum and terminator), so that a splice of two
  sentences is a sequence the model can produce and the checksum must refuse. A
  pass ends in two steps, `PublishFix` and `KickSupervisor`, and may be stuck
  before either.
* **SensorTelemetry**: one sensor from its chip to the telemetry table. The task
  registers before it initialises the chip, an initialisation that fails is not
  repeated, a read fails or not, and any HAL call may not return (the drivers
  wait with `HAL_MAX_DELAY`). The gather task, which nobody supervises, peeks
  one sample and writes two fields in two steps, and may be starved. Baro is the
  general case; battery has no failing read and imu no fields.
* **ParamWrite**: what one undisturbed `param_set_u32` can leave in RAM, in flash
  and for the caller (stored, failed with the old record or with none, cut short
  by a reset), for the modules in which a write is one step. `ParamStore` has the
  steps.
* **PortClaims**: `.port` and `.source` of each subsystem, in the cache and as a
  boot would load them. `SetPort` has `param_set_port`'s two checks, `SetSource`
  none, as in the code; `.protocol` is opaque to the store and left out.
* **ServoTimers**: `servo_start` step by step: the rate, `ConfigureSlot` with the
  search for the pad's timer (a second `HAL_TIM_PWM_Init` of one timer would undo
  its channels), then `StartChannel` for each pad; a full handle table halts.
* **BootRequest**: the magic word and the soft reset flag that decide whether the
  ROM bootloader is entered.
* **HelmBoot**: the board from reset to reset. `main()` is the sequence `Calls`,
  one action per call, servo's own steps inside its call, params loaded at theirs;
  every call but the first and `params_init` may halt. Then the watchdog's start,
  the first servo write, the binding of the GPS UART with the window before its
  interrupt is enabled, the overrun nobody clears, `param set` with every outcome
  of its write, `dfu`, and four kinds of reset.
* **\*Proofs**: theorems and proofs. `HelmPipelineProofs` starts with the theorems
  of `DeadlineMonitor`, on which the pipeline's rest; `SerialProofs` has both serial
  links, `SbusReceiver` and `SportLink`.
* **MC\***: instances for TLC.

## 3. Runs

Nine runs must pass. Three must be violated: they state what a document, a
comment or a test of the repository says and the code does not do (section 5).

| Run | Instance and bounds | Shows |
|---|---|---|
| `supervisor` | 2 modules of different period, a table with one entry so that one of them has no handle, poll 2, ticks wrap at 5, watchdog 3, one task stuck at a time | table and handles agree under concurrent registration; wrapped ages are real ages; fallback in force in time; no false failsafe; the watchdog spares a live CPU; refinement of DeadlineMonitor; a stopped CPU is always reset; a late module, with a handle or without, always kicks again |
| `board_table` | the nine modules of `matek_h743`, the eight entries of the source | **violated**: the ninth module is not supervised |
| `slot` | a HOLD slot; raw values at both ends of the nominal range, at the centre and its neighbours, and 2047; three pulse widths, one not a multiple of the slope; all ordered trims, one field set at any step of a pass | pulses in the travel and ends on a trim that was stored, also when a set comes between two reads of the reload; monotone across the seam; HOLD never moves |
| `pipeline` | unit 10 ms, the firmware's periods; 3 changes of the link or of the pitch slot's direction, 1 suspension at any point, of any length | failsafe, sticks and stored trims reach the pads in bounded time; a held pad stays put |
| `sbus` | tick of 7 ms: frame 2, poll 3 to 4, timeout 6, wrap 12, history 16 | loss and recovery reported in time, also across wraps; failsafe bit believed at once; loss latched |
| `params` | 2 tasks with a param each, in 2 units, and the CRC unit; failures and power loss anywhere | never a torn record; acknowledged means stored; a failed call leaves the cache as promised |
| `params_race` | the same, flash never fails | **violated**: two overlapping calls both succeed and one value is not in flash |
| `sport` | 1 field, answers of 2 bytes, rings of 3, slots of 7 byte times | slots kept, pushes applied once, direction exclusive, line always given back, the write always returns |
| `gps` | ring of one sentence, line of one sentence less its end, periods and deadlines of the task | only whole sentences count; the published fix follows the last one |
| `sensor` | unit of 100 ms: poll 1, period 5, maximum period 15, deadline 6, gather 1 to 2; two samples; anything may fail, hang or starve | silence shows as FAILED in both fields; good samples arrive; the two fields agree |
| `boot` | 4 pads on 2 timers, gps and input with a UART each, mag on I2C, 2 rates, 3 settings in all; any number of resets, halts anywhere | claimed ports exist, and have one owner as long as `.source` is set before `.port`; pads ready when tasks run; the stored rate is the one in force; an unwatched halt has moved nothing; the request is served once; a stopped board boots again |
| `gps_stale` | as `gps` | **violated**: an unplugged module's last fix stays OK |

### Why the bounds are enough

* `supervisor`: the tick counter of 5 is the smallest that the longest period
  and a poll leave room in, so that ages run beyond the wrap and a silent module
  is swept when its computed age has become small again. With one entry for two
  modules the search for a free entry fails for either of them, in either order;
  two entries and more are covered by the proofs, which hold for every table.
* `pipeline`: `LossBound` adds up how long each queue can still show what its task
  published last (`Reach`: the deadline of a pass or, for a stuck task, its period
  and a poll), the pass of servo at the end, and the jitter of five passes. With
  one stuck task it is 120 ms here, and the history of 130 ms
  exceeds it. `SettleBound` is the same without a stuck task but with the output
  of a pass begun before the change, 100 ms, and the history 110 ms. Both
  histories saturate, and every state beyond is a saturated one. The time since the
  loss is counted anew when a late task comes back: it may publish the live frame it
  had peeked before. In the instance
  passes end when they are due at the latest (`Slack` is zero); the proofs hold for
  any slack, any number of stuck tasks and any histories.
  One suspension of unbounded length covers a task stuck at each point; two
  stuck tasks at once are in `Supervisor`, not here. Sticks are one raw value,
  so that the trim, the centre and the pulse of the stick all differ. The trim that
  changes is the pitch slot's direction, the one field that moves both ends; the
  proofs let every field of every slot change, to any 16-bit value.
* `sbus`: the wrap of 12 exceeds the timeout and the history of 16 exceeds the
  wrap, so a silent receiver stays silent through a whole rollover. A good link is
  reported once reception has been clean for more than a frame period and the
  deadline of a poll, 6 ticks.
* `slot`: the properties are about one segment, its ends and the seam, and the
  proofs cover every trim and raw value. 1000 to 1003 is a travel far smaller
  than the raw range, where truncation collapses values; 1000 to 1300 is one
  where it does not divide. Any number of sets may fall into one pass. A reload that
  two of them overtake is not judged by `WithinTravel` and `EndsMeetTrim`, because
  the code can then use a trim nobody stored (section 5).
* `params`: a record is torn by two units; the CRC sits in a third, after both,
  as in `ParamsRecord`. The CRC is taken as free of collisions. In the code it
  is a crc8 and misses one torn record in 256; see section 6.
* `sport`: rings that hold less than two answers, so that a full transmit ring
  occurs, and less than a slot's bytes, so that bytes are dropped while flash is erased. One field
  makes the answer's content unambiguous; the field index is still checked to
  move or stay as the code does.
* `sensor`: the battery's periods in units of the gather task's; baro's are
  twice as long. `DarkHorizon` is what silence takes at most to show: a task hung
  between its last sample and its kick for almost the maximum period, hung again
  after the kick for the maximum period and a poll, and the gather pass that had
  just begun. The proof found the exact bound, which `SensorAssumption` states:
  `2 * (MaxPeriod + PollPeriod) + 2 * GatherDeadline < DarkHorizon + Period +
  GatherPeriod`, and 31 is the least value that meets it here. `BrightHorizon` is
  an initialisation, a pass, and two passes of the gather task. Both histories
  saturate. A task is taken to hang for less than the 49 days of the tick counter.
* `gps`: a ring of three tokens drops any part of a second sentence before the
  task reads. The fix is in the queue once it has been calm for longer than
  `FollowBound`: what was left of one pass after its publication, and the next
  pass, three units here. The bound is exact; the history is one unit longer.
* `boot`: two pads on each of two timers are the least in which a second pad finds
  its timer and a third must not; the table of handles is just large enough.
  Three settings are what a wrong claim takes (free a port, take it, claim it
  back); the number of lives between them is unbounded, and so is the proofs'
  number of settings. `FirstPort` is the port index 0, what the zeroed cache
  reads as before `params_init`.

### Fairness

Only `supervisor`, `sport` and `boot` assume any:

* strong fairness of each task's steps: tasks of one priority are time-sliced
  by FreeRTOS at every tick (`configUSE_TIME_SLICING` is at its default), so a
  task that is ready again and again, although preempted in between by the
  supervisor or an interrupt, gets its slice. Weak fairness would let the
  supervisor preempt it each time;
* weak fairness of the tick interrupt, the supervisor task (highest priority),
  the watchdog's own oscillator, the UART handler, and the bus, which the
  receiver drives;
* for `boot`, weak fairness of `main()`'s progress, of the supervisor's first run
  and of the watchdog's reset: a CPU that is not halted executes, and the watchdog
  has its own clock. No reset by hand, no command and no halt is fair.

No fairness is assumed of faults, recoveries, link changes or frames. Progress of
the pipeline, the receiver and the sensors is stated as bounded time instead
(`lost`, `settled`, `calm`, `dark`, `bright`), with the code's deadlines as guards
of the clock: a live task completes its pass within its deadline, a suspended one
is exempt.

## 4. Proofs

50 theorems are listed in `PROJECT.json`; each is for every value of the constants
that meets its module's ASSUMEs, which TLC evaluates in the runs. Every safety
property that a passing run checks, invariant or action property, is one of them.
Type invariants are proved and not run, except SportLink's, which is both; the
runs keep the properties that several steps can break.

### Supervisor and its promise

`MonitorAssumption` and `SupervisorAssumption` ask that the poll period is
positive and shorter than the watchdog's timeout (10 ms against 250 ms), and that
every declared period plus one poll is below the width of the tick counter (at
most 300 ms against 2^32 ms). Nothing is assumed of the number of modules, of
the table's size or of the queues' values, and `Deadline` and `Period` are
arbitrary.

The inductive invariant of `Supervisor` is

```
IInv == TypeOK /\ NoHandleYet /\ TableAgrees /\ ElapsedIsAge
```

`TableAgrees` alone is not inductive: a second `Register` of a task would need
that a task that has not registered holds no handle (`NoHandleYet`).
`ElapsedIsAge` is inductive only together with it, since a kick through a
foreign handle would stamp another module's entry. `WatchdogFresh` (the watchdog
has been counted down by at most the time the supervisor has slept) is the
separate strengthening for `WatchdogSparesLiveCpu`.

* `TypeCorrect`, `TableConsistent`, `ElapsedCorrect`, `WatchdogSafe`: the
  invariants of `supervisor`, for every value of the constants.
* `NoFalseFailsafeHolds`: the action property, from `IInv` and the sweep.
* `SupervisorImplementsMonitor`: `Spec => Monitor!MonitorSpec` step by step.
  `Register` with a full table is a stutter of the promise, as is a kick by an
  unwatched module's task beyond its bookkeeping. An age at `TickMod` has
  outlived the counter: the wrapped age may then look young. `AgeCap` in the
  abstract `Sweep` says precisely that such an entry may be missed, which does no
  harm because its fallback is already in the queue.
* `MonitorTypeCorrect`, `MonitorReplacesOnTime`, `MonitorFallbackInForce`: the
  promise, proved of the abstract module; `ReplacedOnTime` (with what is left of
  the current poll) is the strengthening that makes `FallbackInForce` provable.
* `SupervisorFallbackInForce`: the same of the supervisor's own queues, by the same
  strengthening, over `IInv`.

### The pipeline

`PipelineAssumption` asks that a live pass ends no earlier than it is due and no
later than its deadline, that every stage declares three periods to the supervisor
(as the code does: 60 ms for passes of 20), and that sticks are in the nominal range.
Of trims it asks only that they fit 16 bits; each slot has a set of them, ordered or
not, the boot finds any of them stored, and `SetTrim` goes from one to another of the
set that differs in one field.
The inductive invariant is `Basis` with one of two families of inequalities:

```
Basis == PipelineTypeOK /\ TaskInv /\ LinkInv /\ ReplacedOnTime
```

`ReplacedOnTime` is the monitor's strengthening, proved again of the pipeline's own
steps (`PipelineReplacesOnTime`), since a pass publishes and kicks in one of them.

* `LossReachesServos` (`FailsafeReachesServos`) and `HeldServosStayPut`
  (`HoldStaysPut`) need `LossInv`. It follows a live value from queue to queue:
  what a task holds since its peek was live no longer after the loss than `UpTo`
  its input allows (`HeldIsRecent`, `PitchIsRecent`), what it published no longer
  than that and its pass (`ShownIsRecent`), and likewise for each slot of output
  and each pad (`SlotShown`, `SlotHeld`, `PadShown`). `LossBound` is what these
  add up to. `Reach` cannot be in the invariant itself: it jumps when a task is
  suspended and falls back when it resumes. `Lag` grows only once the task really is
  late, and is used instead.
* `SettledSticksReachServos` (`SticksReachServos`) needs `CalmInv`, the same six
  statements with "not yet what the link calls for" in place of "live", where what
  the link calls for is the pulse of the *stored* trim, and `FreshTrims`: as long as
  a pass works with a copy that is no longer the stored trim, calm has not begun.
* Setting a trim is a step of every proof. For the loss it disturbs nothing: `Safe`
  is the fixed value or the pulse held, and neither looks at a trim.

### Output slot

`OutputSlotProofs` proves every property of the `slot` run for all raw values,
all ordered trims and both failsafe policies. Its inductive invariant is

```
IInv == TypeOK /\ ReloadWhole /\ PulseExplained
```

`ReloadWhole` says that a reload overtaken by at most one set ends with one of the
trims that were stored during it: what is loaded of it agrees with that trim, and
what is not yet loaded is stored (`PendingIs`). The trim before the set qualifies
when the field set was read already, the one after it otherwise. `PulseExplained`
carries that over to the output of the last pass; `TypeOK` alone forgets which trim
it was. Below it stand lemmas about
the arithmetic, each for one idea: a truncated share of a segment grows with the
raw value and stays in the segment (`ShareGrows`, `ShareInSegment`), no cast to
16 bits changes a nominal pulse (`CastIsIdentity`), both segments meet at the
centre (`ScaleSlotInTravel`, `ScaleSlotGrows`), and mirroring keeps the travel
(`MirrorInTravel`).

* `SlotWithinTravel`, `SlotEndsMeetTrim`, `SlotFollowsStick`: the arithmetic, for
  the nominal raw range.
* `SlotHoldStaysPut`, `SlotTypeCorrect`: the slot's memory, for all raw values and
  whatever mixture of trims a reload makes.

They assume `OutputSlotAssumption`: raw values of 11 bits, endpoints of 16.

### SBUS receiver

`SbusAssumption` asks that the timeout and a poll fit the tick counter, and that a
poll is not later than its deadline. `LossReported` needs

```
LossInv == TypeOK /\ FreshCapture /\ FreshLatest
```

A captured good frame is no older than the last poll, and a frame reported as OK
is no older than its stamp and one poll; both hold although the stamp is the time
of the poll and not of the frame, and across every wrap. `LossIsLatched` and
`BitIsReported` are properties of one poll (lemma `PollOutcome`).

`GoodLinkIsReported` is the counterpart, and needs to know what a poll will find:

```
LinkInv == LossInv /\ CaptureAligned /\ LastFrameGood /\ AlarmIsRecent
```

A capture is late only in the frame of a line error; after a frame period without
trouble the last frame was a good one, and waits or has been taken; and an alarm is
no older than that frame and the poll. It assumes `FramePeriod < Timeout` (14 ms
against three times that): with a longer frame period the backstop would interrupt a good
link.

### S.Port link

`SportAssumption` asks that a slot has room for a poll, the task's latency and an
answer, and for a whole push and the latency, and that the ring holds one answer and
one byte more than arrive during the latency. `MarkAssumption` keeps the model's marks
apart from bytes and fields. The code has 32-byte rings and a task
that the interrupt wakes. The inductive invariant is

```
SportInv == SportTypeOK /\ Always /\ OnTime /\ Applied
OnTime   == ~ late => clean /\ Reception /\ RxAt /\ Answer /\ applied = NoReply
```

It is where the three processes meet. `Reception`: the ring and RDR hold exactly the
bytes of this slot that the task has not read, no more than it has been busy for, so
none is dropped. `RxAt`: the receive state is the one of the bytes it has read.
`Answer`: outside our own slot CR1 is as it was and nothing is loaded; in it the task
and the handler are at one of the stages `Loading`, `Turning`, `Sending`, `Answered`,
each with the only values CR1, TDR, the shift register and the task's copy of CR1 can
have, and the bytes of the answer in order across all of them. That is why no
read-modify-write of the task loses an update of the handler: while it runs, the
handler has no transmit interrupt to serve. `Applied` is the one way to become late:
a whole push, after which nothing is promised until the task has caught up.

* `SlotIsKept`, `PushIsApplied`, `DirectionIsOne`, `SportTypeCorrect`: the invariants
  of `sport`, for every number of fields, length of an answer, ring and slot.

### Parameter store

`ParamStoreAssumption` asks that the CRC unit comes after every param's, and that
an erased unit and one cut short are told from any written one, which is what the
CRC is for.

* `NeverTornHolds` holds for any number of tasks writing at once. `BuiltInv`: every
  record a call carries is one that was built, and the CRC unit in flash is of such
  a record, or the region is invalid and no call is past its erase.
* `AcknowledgedIsStoredHolds` and `CacheIsAcknowledgedHolds` follow from `Alone`,
  which says, as long as no two calls have overlapped, how far the one running has
  come and what flash holds at each step of it.

### Sensor and telemetry

* `SensorImplementsMonitor`: `Spec => MonitorSpec`, step by step.
* `PairsAgreeHolds`, from `PairInv`: between passes both fields are equal, and within
  one the first is the copy the task has in hand.
* `SilenceIsReported`, from `QueueDark` and `TableDark`: how long the queue, the
  gather task's copy and each field can still show a number, as inequalities
  between the age the monitor sees and the clocks of both tasks.
  `SamplesDoArrive`, from `QueueBright` and `TableBright`, is its counterpart. The
  bounds in `SensorAssumption` are exactly what the two need.

### GPS reader

`GpsTypeCorrect` includes that no byte is put past the ring or the line, whatever
their sizes.

* `WholeSentencesDecide` needs `RingExplained`: there is a sequence of states, one
  before and after each byte in the ring, that leads from what the reader has
  accumulated to what the wire has completed, each step being what reading that byte
  does. A dropped byte is at neither end: it was never in the ring.
* `GpsImplementsMonitor`: `Spec => MonitorSpec`; every step is one of the monitor's or
  leaves the monitor's variables alone.
* `FixIsFollowed` needs `FixInv == RingInv /\ FollowInv`, and `FollowInv` is
  `PassOutstanding /\ LateIsNotCalm /\ PassIsDue /\ StartedWatched`: as long as the
  queue and the last sentence disagree a pass is outstanding for at least as long as
  it has been calm, counted from the kick, which may come as late after a publication
  as the deadline allows; a pass past its deadline ends the calm, so that a
  substitution does too.

### Start-up

* `BootImplementsPorts`: `BootSpec => PortsSpec`; a boot, a command and a reset are
  steps of `PortClaims` or leave the claims alone. `PortsExist` and `OneOwnerHolds`
  are then proved of `PortClaims` alone (`PortsInv`), any number of settings long.
* `PadsAreReady`: `ServoInv` adds to `ChannelsKept` that the channels up to the
  current one run; `StartedInOrder` says which calls of `main()` are behind it.
* `HaltIsSafe`, `RateIsStored`, `RequestIsServedOnce` need
  `ControlInv == ControlTypeOK /\ StartedInOrder /\ MovedWatched /\ AskedFor`: a
  servo has moved only under the watchdog, and a magic word found after a soft
  reset is of a `dfu` since power-on that was not served.

### Only model-checked

Liveness: `StopLeadsToReboot`, `LateModuleReturns`, `ListensAgain`, `WriteReturns`,
`StoppedBoardReboots`. It needs fairness, hence ENABLED, which the proof system
cannot reason about. The three violations are counterexamples of one instance.

## 5. What the violations mean

* `board_table`: `SUPERVISOR_MAX_MODULES` is 8, and nine tasks register on
  `matek_h743`. Which one is left out depends on the order in which they reach
  their registration.
* `params_race`: the snapshot of one call is older than the other call's value
  and overwrites it. RAM is right, flash is not until the next call.
* `gps_stale`: nothing ages `latestFix`; the supervisor sees a live task.

Noticed while modelling, without a run:

* `load_slot_trim` (`output.c:255-285`) reads four params under no lock. One set in
  between is harmless, whichever field it is: the pass works with the trim before it
  or after it. Two sets, which takes both tasks and one of them to run while output is
  inside its reload, can make a trim that nobody stored: with `max` set after it was
  read and `reversed` before it is, the pass uses the old end reversed. The next
  pass, 20 ms later, corrects it.
* output's registered fallback is all zero (`output.c:375`) and the servo task
  writes any frame it peeks: for as long as output is stuck the pads get pulses of
  0 microseconds, not the failsafe values. `FailsafeReachesServos` therefore
  excepts a stuck output task.
* The GPS handlers read RDR and never clear ORE (`board.c:917-927`). An overrun,
  possible between `HAL_UART_Init` and the enabling of the interrupt, keeps the
  interrupt pending for ever; no task runs and the watchdog resets the board. With
  a talking module the next boot can meet the same. `HelmBoot` has it, and
  `StoppedBoardReboots` says that the watchdog does end it.
* `ports.md:99-101` promises that a port is claimed by exactly one subsystem, full
  stop. `.source` is not checked: set `.port` first and `.source = DIRECT` later
  and a port has two owners. `SourceFirstOneOwner` states what does hold.
* `ports.md:88` shows `param set gps.source direct`; `cmd_param` reads the value
  with `strtoul`, so the word is 0, which is NONE.
* `params.h:203-206` says that a failed call has written nothing; the backend
  erases first (`stm32h7.c:67`), so a failed call can leave no valid record.
  `AcknowledgedIsStored` is stated accordingly: after a success.
* `sport.c:210-219` relies on answering within a slot. After a push the task is
  inside a flash erase for a second or more and answers late, over others'
  slots. `SlotKept` and `PushApplied` are stated for slots that begin after that.
* `sbus_decode` (`sbus.c:60-82`) hands out all 11 bits: below 172 and above 1811
  `scale_slot` extends its two lines past the slot's travel (2047 and endpoints
  of 1000, 1500, 2000 give 2144). The slot's properties are stated for the
  nominal range.
* `imu_chip_read` (`icm42688p.c:114-129`) cannot fail: an IMU that dies after its
  initialisation is reported as OK with whatever the bus reads.
* `telemetry.h:53-60` promises GPS values; their code is under `HELM_HAS_GPS`,
  which no board defines. `GpsReader` therefore ends at `gps_queue`.
* `board.c:903` takes a GGA and RMC pair to be well under 128 bytes; real pairs
  reach 150, and arrive in a fraction of the period between two drains. The ring
  then drops the end of the second one, every time. `WholeSentencesCount` says that
  what is left of it is not joined to another sentence; that the sentence is lost no
  property forbids.

## 6. Not modelled, and why

* Inside the chip drivers (IMU, barometer, ADC): register sequences and
  calibration in floating point. `SensorTelemetry` has their outcomes.
* Clock set-up, LEDs, linker script, heartbeat and diagnostic prints: no state
  another part depends on.
* Line editing and command dispatch of the shell: text processing.
* The crc8's collisions: a matter of probability.
* The USB console's transport (`usb_cdc`, `usbd_conf.c`): its transmit guard rests
  on the vendor's USB stack, which hands back a busy endpoint; planned as ConsoleTx.
* `diag`'s commands other than `wedge`: they print.
* Which subsystem reads `.protocol`: the store does not look at it. `HelmBoot` lets
  it forbid the binding of the GPS UART at will.
* Trims out of order or above 16 bits: `OutputSlot` takes ordered trims, which
  the documentation asks for and nothing enforces (`output.c:262`). `HelmPipeline`'s
  theorems do not need the order.
* `afroflight32`, `nexus_xr`, `crsf.c`: subsets or stubs. The F1's flash backend and
  bootloader request behave as the H7's and are covered by the same actions.

## 7. Plan

1. (done) DeadlineMonitor, Supervisor and their proofs: everything else stands
   on them.
2. (done) The control path: SbusReceiver, HelmPipeline, OutputScaling, OutputSlot.
3. (done) ParamStore, SportLink, GpsReader, SensorTelemetry.
4. (done) Start-up: PortClaims, ServoTimers, BootRequest, composed in HelmBoot.
5. (done) Proofs of the scaling, OutputSlot, SbusReceiver's safety, ParamStore,
   SensorTelemetry and HelmBoot.
6. (done) Proofs of the pipeline, the S.Port link, the GPS reader and
   `GoodLinkReported`: every safety property of the runs is a theorem.
7. Refinement: the GPS and sensor tasks keep to the monitor's steps (done). Next the
   pipeline, whose `Finish` has to be split at the kick, with a task suspended
   there counted in `LossInv` and `CalmInv`; and `ParamStore` as an implementation of
   `ParamWrite`.
8. **ParamStore x OutputSlot**: a trim that output has used before the flash write
   failed, as a composition that takes the place of the `slot` run, whose
   properties are all proved.
9. **ConsoleTx**: the transmit guard of `usb_cdc/stm32h7.c`.
