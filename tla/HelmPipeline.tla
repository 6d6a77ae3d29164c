---------------------------- MODULE HelmPipeline ----------------------------
(***************************************************************************)
(* The control path rx -> mapping -> control -> output -> servo (lib/rx,   *)
(* lib/mapping, lib/control, lib/output, lib/servo): five periodic tasks   *)
(* that hand frames on through length-1 overwrite queues, under the        *)
(* supervisor's promise (DeadlineMonitor, which Supervisor implements).    *)
(*                                                                         *)
(* One unit of time is the supervisor's 10 ms poll.  A task's pass is      *)
(* split at its queue accesses, and a task can be suspended between any    *)
(* two of them, for less than a unit (the 1 ms time slice of its equals)   *)
(* or for long (a driver call that does not return): what it peeked may be *)
(* overtaken before it publishes.  The kick is in the step of the          *)
(* publication it follows (Supervisor.tla has them apart), so unkicked     *)
(* stays empty here.                                                       *)
(***************************************************************************)
EXTENDS DeadlineMonitor, OutputScaling

CONSTANTS
  Period,         \* units a task sleeps between passes (20 ms)
  Deadline,       \* units by which a live task has finished its next pass
  Sticks,         \* raw values the pilot can send
  SlotTrims,      \* [Slots -> the trims an operator can store for the slot]
  BootTrims,      \* [Slots -> trim]: what the parameter store holds at boot
  MaxSuspensions, \* bound: how often a task is suspended in a behaviour
  MaxChanges,     \* bound: how often the link or a trim changes
  LossHorizon,    \* history bound: how long a lost link is remembered
  SettleHorizon   \* history bound: how long calm is remembered

Stages == {"rx", "mapping", "control", "output", "servo"}

(* One slot of each kind in output.c's tables: S3/OUT1 passes a channel    *)
(* reversed and has a fixed failsafe value, S4/OUT2 follows the pitch      *)
(* loop, S5/OUT3 and all further slots pass a channel; those hold.         *)
Slots == {"S3", "S4", "S5"}
FixedSlots == {"S3"}
FixedValue == 1550
SERVO_PWM_SAFE_CENTER_US == 1500

Status == {"OK", "FAILSAFE"}
Links == [status : Status, raw : Sticks]
Frozen == [s \in Slots |-> 0]
Centered == [s \in Slots |-> SERVO_PWM_SAFE_CENTER_US]
AtStart == [s \in Slots |-> IF s \in FixedSlots THEN FixedValue ELSE BootTrims[s].center]

(* The trims of all slots, as params.c and output.c's slotTrim[] hold them.*)
AllTrims == UNION {SlotTrims[s] : s \in Slots}
TrimTables == {t \in [Slots -> AllTrims] : \A s \in Slots : t[s] \in SlotTrims[s]}

\* What each length-1 queue can hold; pitchMode has no consumer.
RawValues == Sticks \cup {0, RX_CHANNEL_RAW_CENTER}
Pulses == {0, FixedValue, SERVO_PWM_SAFE_CENTER_US}
            \cup {BootTrims[s].center : s \in Slots}
            \cup {Pulse(r, t) : r \in Sticks, t \in AllTrims}
RxFrames == [status : Status, raw : RawValues]
MappingFrames == [status : Status, raw : RawValues, pitchTarget : RawValues]
ControlFrames == [pitchActive : BOOLEAN, pitchOutput : RawValues]
OutputFrames == [status : Status, servos : [Slots -> Pulses]]

RxSilent == [status |-> "FAILSAFE", raw |-> 0]
MappingSilent ==
  [status |-> "FAILSAFE", raw |-> 0, pitchTarget |-> RX_CHANNEL_RAW_CENTER]
ControlSilent == [pitchActive |-> FALSE, pitchOutput |-> 0]

(* The fallbacks the tasks register: output's is all zero, servo's is the  *)
(* centre.                                                                 *)
StageFallback ==
  [m \in Stages |->
     CASE m = "rx" -> RxSilent
       [] m = "mapping" -> MappingSilent
       [] m = "control" -> ControlSilent
       [] m = "output" -> [status |-> "FAILSAFE", servos |-> Frozen]
       [] m = "servo" -> [status |-> "FAILSAFE", servos |-> Centered]]

(* The _start() functions' seeds: output's goes through its substitution.  *)
StageSeed ==
  [StageFallback EXCEPT !["output"] = [status |-> "FAILSAFE", servos |-> AtStart]]

ASSUME PipelineAssumption ==
  /\ Modules = Stages
  /\ Value = RxFrames \cup MappingFrames \cup ControlFrames \cup OutputFrames
  /\ Seed = StageSeed
  /\ Fallback = StageFallback
  /\ Period \in Nat
  /\ Deadline \in Nat
  /\ Period <= Deadline
  /\ \A m \in Stages : MaxPeriod[m] = 3 * Period /\ Deadline <= MaxPeriod[m]
  /\ Sticks \subseteq RX_CHANNEL_RAW_MIN .. RX_CHANNEL_RAW_MAX
  /\ SlotTrims \in [Slots -> SUBSET Trims(0 .. UINT16_MAX)]
  /\ BootTrims \in TrimTables
  /\ MaxSuspensions \in Nat
  /\ MaxChanges \in Nat
  /\ LossHorizon \in Nat
  /\ SettleHorizon \in Nat

VARIABLES
  link,     \* what the receiver driver's poll() reports
  pc,       \* [Stages -> where the task is in its pass]
  peeked,   \* [Stages -> what the task has peeked and not yet used]
  suspended, \* tasks that get no further for now
  stored,   \* [Slots -> trim]: the slots' params in RAM
  slotTrim, \* [Slots -> trim]: output.c's copy of them
  lastGood, \* [Slots -> pulse]: lastGoodValue[] of output.c
  pwm,      \* [Slots -> pulse]: the timers' compare registers
  suspensions, \* how often a task was suspended so far
  changes,  \* how often the link or a trim changed so far
  lost,     \* history: ticks the link has been lost without a break
  settled   \* history: ticks since link or trims changed or a task was late

trimVars == <<stored, slotTrim>>
stageVars == <<link, pc, peeked, suspended, trimVars, lastGood, pwm>>
boundVars == <<suspensions, changes>>
vars == <<mvars, stageVars, boundVars, lost, settled>>

Nothing == {}

(* sbus_init() reports FAILSAFE until a first frame.  output_start() loads *)
(* the trims, servo_hw_init() starts every channel at the centre.          *)
Init ==
  /\ MonitorInit
  /\ link \in {l \in Links : l.status = "FAILSAFE"}
  /\ pc = [m \in Stages |-> "start"]
  /\ peeked = [m \in Stages |-> Nothing]
  /\ suspended = {}
  /\ stored = BootTrims
  /\ slotTrim = BootTrims
  /\ lastGood = [s \in Slots |-> BootTrims[s].center]
  /\ pwm = Centered
  /\ suspensions = 0
  /\ changes = 0
  /\ lost = 0
  /\ settled = 0

-----------------------------------------------------------------------------
(* The tasks. *)

MidPass(m) == pc[m] \in {"loaded", "peeked", "ready"}

(* No task has the CPU. *)
Idle == \A m \in Stages : MidPass(m) => m \in suspended

(* The sweep comes first; then one task has the CPU until its pass is over *)
(* or it is suspended.                                                     *)
Runs(m) ==
  /\ since < PollPeriod
  /\ m \notin suspended
  /\ \A n \in Stages \ {m} : MidPass(n) => n \in suspended

Register(m) ==
  /\ Runs(m)
  /\ pc[m] = "start"
  /\ Watch(m)
  /\ pc' = [pc EXCEPT ![m] = "delay"]
  /\ UNCHANGED <<link, peeked, suspended, trimVars, lastGood, pwm, boundVars, lost, settled>>

Due(m) == pc[m] = "delay" /\ age[m] >= Period

(* Mutant: the trims are loaded in output_start() only. *)
LoadedAtStart == slotTrim

Reloaded == stored

(* load_slot_trim(), with which a pass of output_task starts.  OutputSlot  *)
(* has the reload of one slot field by field.                              *)
LoadTrims ==
  /\ Runs("output")
  /\ Due("output")
  /\ slotTrim' = Reloaded
  /\ pc' = [pc EXCEPT !["output"] = "loaded"]
  /\ UNCHANGED <<mvars, link, peeked, suspended, stored, lastGood, pwm, boundVars, lost, settled>>

(* The start of every other pass: the peek of the upstream queue (the      *)
(* driver's poll() for rx), kept in a local.                               *)
Upstream(m) ==
  CASE m = "rx" -> link
    [] m = "mapping" -> queue["rx"]
    [] m = "control" -> queue["mapping"]
    [] m = "output" -> queue["mapping"]
    [] m = "servo" -> queue["output"]

Peek(m) ==
  /\ Runs(m)
  /\ IF m = "output" THEN pc[m] = "loaded" ELSE Due(m)
  /\ peeked' = [peeked EXCEPT ![m] = Upstream(m)]
  /\ pc' = [pc EXCEPT ![m] = IF m = "output" THEN "peeked" ELSE "ready"]
  /\ UNCHANGED <<mvars, link, suspended, trimVars, lastGood, pwm, boundVars, lost, settled>>

(* output_task peeks control's queue after mapping's. *)
PeekControl ==
  /\ Runs("output")
  /\ pc["output"] = "peeked"
  /\ peeked' = [peeked EXCEPT !["output"] =
                  [mapping |-> peeked["output"], control |-> queue["control"]]]
  /\ pc' = [pc EXCEPT !["output"] = "ready"]
  /\ UNCHANGED <<mvars, link, suspended, trimVars, lastGood, pwm, boundVars, lost, settled>>

(* The end of a pass: xQueueOverwrite() and supervisor_kick(). *)
Finish(m, frame) ==
  /\ Runs(m)
  /\ pc[m] = "ready"
  /\ queue' = [queue EXCEPT ![m] = frame]
  /\ age' = [age EXCEPT ![m] = 0]
  /\ peeked' = [peeked EXCEPT ![m] = Nothing]
  /\ pc' = [pc EXCEPT ![m] = "delay"]
  /\ UNCHANGED <<watched, unkicked, since, link, suspended, trimVars, boundVars, lost, settled>>

RxPublish ==
  /\ Finish("rx", peeked["rx"])
  /\ UNCHANGED <<lastGood, pwm>>

Mapped(in) ==
  [status |-> in.status,
   raw |-> in.raw,
   pitchTarget |-> IF in.status = "FAILSAFE" THEN RX_CHANNEL_RAW_CENTER ELSE in.raw]

MappingPublish ==
  /\ Finish("mapping", Mapped(peeked["mapping"]))
  /\ UNCHANGED <<lastGood, pwm>>

ControlPublish ==
  /\ Finish("control", [pitchActive |-> peeked["control"].status = "OK",
                        pitchOutput |-> peeked["control"].pitchTarget])
  /\ UNCHANGED <<lastGood, pwm>>

SourceValid(s, in) ==
  IF s = "S4" THEN in.control.pitchActive ELSE in.mapping.status = "OK"

SourceRaw(s, in) == IF s = "S4" THEN in.control.pitchOutput ELSE in.mapping.raw

(* Mutant: a slot with a fixed value holds. *)
SubstituteHeld(s) == lastGood[s]

(* Mutant: direction is applied to the held pulse once more. *)
SubstituteReversed(s) ==
  IF s \in FixedSlots THEN FixedValue
  ELSE IF slotTrim[s].reversed THEN ApplyReverse(lastGood[s], slotTrim[s])
  ELSE lastGood[s]

Substitute(s) == IF s \in FixedSlots THEN FixedValue ELSE lastGood[s]

Resolved(in) ==
  [s \in Slots |-> IF SourceValid(s, in) THEN Pulse(SourceRaw(s, in), slotTrim[s])
                                         ELSE Substitute(s)]

OutputPublish ==
  LET in == peeked["output"] IN
  /\ pc["output"] = "ready"
  /\ Finish("output", [status |-> in.mapping.status, servos |-> Resolved(in)])
  /\ lastGood' = [s \in Slots |-> IF SourceValid(s, in) THEN Resolved(in)[s] ELSE lastGood[s]]
  /\ UNCHANGED pwm

(* The PWM registers take the frame whatever its status. *)
ServoPublish ==
  /\ Finish("servo", peeked["servo"])
  /\ pwm' = peeked["servo"].servos
  /\ UNCHANGED lastGood

-----------------------------------------------------------------------------
(* Time, the supervisor and the environment. *)

PipelineSweep ==
  /\ Sweep
  /\ UNCHANGED <<stageVars, boundVars, lost, settled>>

OnSchedule(m) ==
  m \in suspended \/ (pc[m] # "start" /\ ~ MidPass(m) /\ age[m] < Deadline)

Capped(n, horizon) == IF n < horizon THEN n + 1 ELSE n

PipelineTick ==
  /\ \A m \in Stages : OnSchedule(m)
  /\ Tick
  /\ lost' = IF link.status = "FAILSAFE" THEN Capped(lost, LossHorizon) ELSE 0
  /\ settled' = IF suspended = {} THEN Capped(settled, SettleHorizon) ELSE 0
  /\ UNCHANGED <<stageVars, boundVars>>

(* The receiver loses or regains its link, or the pilot moves the stick;   *)
(* a driver without a link keeps reporting the last channels.              *)
LinkChanges(l) ==
  /\ since < PollPeriod
  /\ Idle
  /\ l # link
  /\ l.status = "FAILSAFE" => l.raw = link.raw
  /\ changes < MaxChanges
  /\ changes' = changes + 1
  /\ link' = l
  /\ lost' = 0
  /\ settled' = 0
  /\ UNCHANGED <<mvars, pc, peeked, suspended, trimVars, lastGood, pwm, suspensions>>

(* `param set` or an S.Port push: one field of a slot's trim, in RAM.      *)
SetTrim(s, t) ==
  /\ since < PollPeriod
  /\ Idle
  /\ t # stored[s]
  /\ \E f \in {"min", "center", "max", "reversed"} : t = [stored[s] EXCEPT ![f] = t[f]]
  /\ changes < MaxChanges
  /\ changes' = changes + 1
  /\ stored' = [stored EXCEPT ![s] = t]
  /\ settled' = 0
  /\ UNCHANGED <<mvars, link, pc, peeked, suspended, slotTrim, lastGood, pwm, suspensions, lost>>

(* A task loses the CPU in a pass, or does not get it when one is due.     *)
Suspend(m) ==
  /\ since < PollPeriod
  /\ m \notin suspended
  /\ MidPass(m) \/ Due(m)
  /\ suspensions < MaxSuspensions
  /\ suspensions' = suspensions + 1
  /\ suspended' = suspended \cup {m}
  /\ UNCHANGED <<mvars, link, pc, peeked, trimVars, lastGood, pwm, changes, lost, settled>>

(* A task that gets the CPU again finishes the pass it was stopped in,     *)
(* with what it had peeked before.  If it is late by now, what the         *)
(* histories say of the time before no longer counts.                      *)
Resume(m) ==
  /\ since < PollPeriod
  /\ m \in suspended
  /\ Idle
  /\ suspended' = suspended \ {m}
  /\ lost' = IF age[m] > Deadline THEN 0 ELSE lost
  /\ UNCHANGED <<mvars, link, pc, peeked, trimVars, lastGood, pwm, boundVars, settled>>

Next ==
  \/ \E m \in Stages : Register(m) \/ Peek(m) \/ Suspend(m) \/ Resume(m)
  \/ LoadTrims
  \/ PeekControl
  \/ RxPublish
  \/ MappingPublish
  \/ ControlPublish
  \/ OutputPublish
  \/ ServoPublish
  \/ PipelineSweep
  \/ PipelineTick
  \/ \E l \in Links : LinkChanges(l)
  \/ \E s \in Slots : \E t \in SlotTrims[s] : SetTrim(s, t)

Spec == Init /\ [][Next]_vars

-----------------------------------------------------------------------------

(* Pulses a slot may carry without a valid source. *)
Safe(s) == IF s \in FixedSlots THEN FixedValue ELSE lastGood[s]

(* How late a pass can end, counted from when it was due.                  *)
Slack == Deadline - Period

(* For how long the next task can find the same frame in m's queue: a live *)
(* task replaces it by its deadline, a stuck one has it replaced.          *)
Reach(m) == IF m \in suspended THEN MaxPeriod[m] + PollPeriod - 1 ELSE Deadline

LossBound == Reach("rx") + Reach("mapping") + Reach("control") + Deadline + 5 * Slack
SettleBound == 5 * (Deadline + Slack)

(* A lost link reaches the pads: once the link has been lost for longer    *)
(* than LossBound, every pad carries its slot's failsafe value, although   *)
(* any of the tasks before output may still be stuck, in any place, with a *)
(* live frame in its queue.  One that comes back late can publish the live *)
(* frame it had peeked before, so its return starts the time anew.         *)
FailsafeReachesServos ==
  lost > LossBound /\ suspended \cap {"output", "servo"} = {} =>
    \A s \in Slots : pwm[s] = Safe(s)

(* The sticks reach the pads: when neither the link nor a trim has changed *)
(* and no task was late for longer than SettleBound, each pad carries      *)
(* exactly the pulse that stick and stored trim call for; whatever failed  *)
(* before leaves no trace.                                                 *)
SticksReachServos ==
  settled > SettleBound /\ link.status = "OK" =>
    \A s \in Slots : pwm[s] = Pulse(link.raw, stored[s])

(* A held servo does not move: once a lost link has reached the pads, no   *)
(* pad moves again before the link or a stuck task comes back, whichever   *)
(* trims are set meanwhile, unless output or servo itself gets stuck.      *)
HoldStaysPut ==
  [][lost > LossBound /\ suspended \cap {"output", "servo"} = {} => pwm' = pwm]_vars

=============================================================================
