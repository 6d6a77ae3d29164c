------------------------- MODULE HelmPipelineProofs -------------------------
(***************************************************************************)
(* What the control path promises, for any periods, stick values and trims *)
(* and any number of suspensions and trim changes: types, the safe values  *)
(* within LossBound of a lost link, the sticks within SettleBound of calm. *)
(* The supervisor's promise comes first: it is proved of DeadlineMonitor   *)
(* alone, and its step is what the pipeline uses of it.                    *)
(***************************************************************************)
EXTENDS HelmPipeline, TLAPS

-----------------------------------------------------------------------------
(* The promise of DeadlineMonitor, for any modules, periods and horizon.   *)

(* Every variable of the monitor keeps to its type: no age leaves          *)
(* 0..AgeCap and the sweep clock never passes the poll period.             *)
THEOREM MonitorTypeCorrect == MonitorSpec => []MonitorTypeOK
<1>1. MonitorInit => MonitorTypeOK
  BY MonitorAssumption DEF MonitorInit, MonitorTypeOK
<1>2. MonitorTypeOK /\ [MonitorNext]_mvars => MonitorTypeOK'
  <2> SUFFICES ASSUME MonitorTypeOK, [MonitorNext]_mvars
               PROVE  MonitorTypeOK'
    OBVIOUS
  <2> USE MonitorAssumption DEF MonitorTypeOK
  <2>1. ASSUME NEW m \in Modules, Watch(m) PROVE MonitorTypeOK'
    BY <2>1 DEF Watch
  <2>2. ASSUME NEW m \in Modules, Kick(m) PROVE MonitorTypeOK'
    BY <2>2 DEF Kick
  <2>3. ASSUME NEW m \in Modules, NEW v \in Value, Publish(m, v) PROVE MonitorTypeOK'
    BY <2>3 DEF Publish
  <2>4. CASE Sweep
    BY <2>4 DEF Sweep
  <2>5. CASE Tick
    BY <2>5 DEF Tick, Older
  <2>6. CASE Restart
    BY <2>6 DEF Restart
  <2>7. CASE UNCHANGED mvars
    BY <2>7 DEF mvars
  <2>8. QED
    BY <2>1, <2>2, <2>3, <2>4, <2>5, <2>6, <2>7 DEF MonitorNext
<1>3. QED
  BY <1>1, <1>2, PTL DEF MonitorSpec

(* One step keeps the replacement within its window.                       *)
LEMMA ReplacedOnTimeStep ==
  MonitorTypeOK /\ ReplacedOnTime /\ [MonitorNext]_mvars => ReplacedOnTime'
<1> SUFFICES ASSUME MonitorTypeOK, ReplacedOnTime, [MonitorNext]_mvars,
                    NEW n \in (watched \ unkicked)',
                    age'[n] > MaxPeriod[n] + since'
             PROVE  queue'[n] = Fallback[n]
  BY DEF ReplacedOnTime
<1> USE MonitorAssumption DEF MonitorTypeOK, ReplacedOnTime
<1>0. n \in Modules
  BY DEF MonitorNext, Watch, Kick, Publish, Sweep, Tick, Restart, mvars
<1>1. ASSUME NEW m \in Modules, Watch(m) PROVE queue'[n] = Fallback[n]
  BY <1>0, <1>1 DEF Watch
<1>2. ASSUME NEW m \in Modules, Kick(m) PROVE queue'[n] = Fallback[n]
  BY <1>0, <1>2 DEF Kick
<1>3. ASSUME NEW m \in Modules, NEW v \in Value, Publish(m, v)
      PROVE  queue'[n] = Fallback[n]
  BY <1>0, <1>3 DEF Publish
<1>4. CASE Sweep
  <2>1. n \in watched \ unkicked /\ age[n] > MaxPeriod[n]
    BY <1>0, <1>4 DEF Sweep
  <2>2. Overdue(n)
    BY <2>1 DEF Overdue
  <2>3. CASE age[n] < AgeCap
    BY <1>0, <1>4, <2>2, <2>3 DEF Sweep
  <2>4. CASE age[n] = AgeCap
    \* The horizon lies beyond a full poll period: already replaced.
    <3>1. age[n] > MaxPeriod[n] + since
      BY <1>0, <2>4
    <3>2. queue[n] = Fallback[n]
      BY <2>1, <3>1
    <3>3. QED
      BY <1>0, <1>4, <3>2 DEF Sweep
  <2>5. QED
    BY <1>0, <2>3, <2>4
<1>5. CASE Tick
  <2>1. n \in watched \ unkicked /\ age'[n] = Older(age[n]) /\ queue' = queue
    BY <1>0, <1>5 DEF Tick
  <2>2. age[n] > MaxPeriod[n] + since
    BY <1>0, <1>5, <2>1 DEF Tick, Older
  <2>3. QED
    BY <2>1, <2>2
<1>6. CASE Restart
  BY <1>6 DEF Restart
<1>7. CASE UNCHANGED mvars
  BY <1>7 DEF mvars
<1>8. QED
  BY <1>1, <1>2, <1>3, <1>4, <1>5, <1>6, <1>7 DEF MonitorNext

(* An overdue module is replaced by the end of the poll period in which it *)
(* became overdue, and stays replaced until it publishes again.            *)
THEOREM MonitorReplacesOnTime == MonitorSpec => []ReplacedOnTime
<1>1. MonitorInit => ReplacedOnTime
  BY DEF MonitorInit, ReplacedOnTime
<1>2. QED
  BY <1>1, ReplacedOnTimeStep, MonitorTypeCorrect, PTL DEF MonitorSpec

(* What a reader of the queue may rely on: silence longer than the         *)
(* declared period and one poll means the fallback is what it reads.       *)
THEOREM MonitorFallbackInForce == MonitorSpec => []FallbackInForce
<1>1. MonitorTypeOK /\ ReplacedOnTime => FallbackInForce
  <2> SUFFICES ASSUME MonitorTypeOK, ReplacedOnTime,
                      NEW m \in watched \ unkicked,
                      age[m] > MaxPeriod[m] + PollPeriod
               PROVE  queue[m] = Fallback[m]
    BY DEF FallbackInForce
  <2>1. age[m] > MaxPeriod[m] + since
    BY MonitorAssumption DEF MonitorTypeOK
  <2>2. QED
    BY <2>1 DEF ReplacedOnTime
<1>2. QED
  BY <1>1, MonitorTypeCorrect, MonitorReplacesOnTime, PTL
-----------------------------------------------------------------------------
(* The constants, and the stages one by one. *)

LEMMA PipelineNumbers ==
  /\ Modules = Stages
  /\ Period \in Nat
  /\ Deadline \in Nat
  /\ Period <= Deadline
  /\ PollPeriod \in Nat
  /\ PollPeriod > 0
  /\ AgeCap \in Nat
  /\ Slack \in Nat
  /\ Slack = Deadline - Period
  /\ LossHorizon \in Nat
  /\ SettleHorizon \in Nat
  /\ \A m \in Stages : /\ MaxPeriod[m] \in Nat
                       /\ Deadline <= MaxPeriod[m]
                       /\ MaxPeriod[m] + PollPeriod < AgeCap
<1>1. Modules = Stages /\ \A m \in Stages : MaxPeriod[m] \in Nat
  BY MonitorAssumption, PipelineAssumption
<1>2. QED
  BY <1>1, MonitorAssumption, PipelineAssumption DEF Slack

(* What a task's pass makes of what it peeked. *)
ControlOf(f) == [pitchActive |-> f.status = "OK", pitchOutput |-> f.pitchTarget]

FrameOf(m) ==
  CASE m = "rx" -> peeked["rx"]
    [] m = "mapping" -> Mapped(peeked["mapping"])
    [] m = "control" -> ControlOf(peeked["control"])
    [] m = "output" -> [status |-> peeked["output"].mapping.status,
                        servos |-> Resolved(peeked["output"])]
    [] m = "servo" -> peeked["servo"]

Ends(m) == Finish(m, FrameOf(m))

(* A live frame carries a value the pilot can send. *)
HonestLinks == {f \in RxFrames : f.status = "OK" => f.raw \in Sticks}
HonestMapping ==
  {f \in MappingFrames : f.status = "OK" => f.raw \in Sticks /\ f.pitchTarget \in Sticks}
HonestControl == {f \in ControlFrames : f.pitchActive => f.pitchOutput \in Sticks}
OutputInputs == [mapping : HonestMapping, control : HonestControl]

QueuesOK ==
  /\ queue \in [Stages -> Value]
  /\ queue["rx"] \in HonestLinks
  /\ queue["mapping"] \in HonestMapping
  /\ queue["control"] \in HonestControl
  /\ queue["output"] \in OutputFrames
  /\ queue["servo"] \in OutputFrames

PassesOK ==
  /\ pc \in [Stages -> {"start", "delay", "loaded", "peeked", "ready"}]
  /\ \A m \in Stages : pc[m] \in {"loaded", "peeked"} => m = "output"
  /\ peeked = [m \in Stages |-> peeked[m]]
  /\ pc["rx"] = "ready" => peeked["rx"] \in HonestLinks
  /\ pc["mapping"] = "ready" => peeked["mapping"] \in HonestLinks
  /\ pc["control"] = "ready" => peeked["control"] \in HonestMapping
  /\ pc["output"] = "peeked" => peeked["output"] \in HonestMapping
  /\ pc["output"] = "ready" => peeked["output"] \in OutputInputs
  /\ pc["servo"] = "ready" => peeked["servo"] \in OutputFrames

ClocksOK ==
  /\ watched \subseteq Stages
  /\ age \in [Stages -> 0 .. AgeCap]
  /\ unkicked = {}
  /\ since \in 0 .. PollPeriod
  /\ suspended \subseteq Stages
  /\ suspensions \in Nat
  /\ changes \in Nat
  /\ lost \in Nat
  /\ settled \in Nat

TrimsOK ==
  /\ stored \in TrimTables
  /\ slotTrim \in TrimTables

PadsOK ==
  /\ lastGood \in [Slots -> Pulses]
  /\ pwm \in [Slots -> Pulses]

PipelineTypeOK ==
  /\ ClocksOK
  /\ PassesOK
  /\ QueuesOK
  /\ TrimsOK
  /\ PadsOK
  /\ link \in Links

(* The pass of a typed input is typed. *)
LEMMA HonestFrames ==
  /\ Links \subseteq HonestLinks
  /\ \A f \in HonestLinks : Mapped(f) \in HonestMapping
  /\ \A f \in HonestMapping : ControlOf(f) \in HonestControl
  /\ RxSilent \in HonestLinks
  /\ MappingSilent \in HonestMapping
  /\ ControlSilent \in HonestControl
  /\ Frozen \in [Slots -> Pulses]
  /\ Centered \in [Slots -> Pulses]
  /\ AtStart \in [Slots -> Pulses]
<1>1. Links \subseteq HonestLinks
  BY DEF Links, HonestLinks, RxFrames, RawValues
<1>2. \A f \in HonestLinks : Mapped(f) \in HonestMapping
  BY DEF HonestLinks, HonestMapping, RxFrames, MappingFrames, Mapped, RawValues, Status
<1>3. \A f \in HonestMapping : ControlOf(f) \in HonestControl
  BY DEF HonestMapping, HonestControl, MappingFrames, ControlFrames, ControlOf, RawValues
<1>4. RxSilent \in HonestLinks /\ MappingSilent \in HonestMapping
  BY DEF HonestLinks, HonestMapping, RxSilent, MappingSilent, RxFrames,
         MappingFrames, Status, RawValues
<1>5. ControlSilent \in HonestControl
  BY DEF HonestControl, ControlSilent, ControlFrames, RawValues
<1>6. /\ Frozen \in [Slots -> Pulses]
      /\ Centered \in [Slots -> Pulses]
      /\ AtStart \in [Slots -> Pulses]
  BY DEF Frozen, Centered, AtStart, Pulses
<1>7. QED
  BY <1>1, <1>2, <1>3, <1>4, <1>5, <1>6

(* What the supervisor falls back on, stage by stage. *)
LEMMA FallbackFrames ==
  /\ Fallback["rx"] = RxSilent
  /\ Fallback["mapping"] = MappingSilent
  /\ Fallback["control"] = ControlSilent
  /\ Fallback["output"] = [status |-> "FAILSAFE", servos |-> Frozen]
  /\ Fallback["servo"] = [status |-> "FAILSAFE", servos |-> Centered]
BY PipelineAssumption DEF StageFallback, Stages

LEMMA SeedFrames ==
  /\ Seed["rx"] = RxSilent
  /\ Seed["mapping"] = MappingSilent
  /\ Seed["control"] = ControlSilent
  /\ Seed["output"] = [status |-> "FAILSAFE", servos |-> AtStart]
  /\ Seed["servo"] = [status |-> "FAILSAFE", servos |-> Centered]
BY PipelineAssumption DEF StageSeed, StageFallback, Stages

(* What output makes of typed inputs is typed. *)
LEMMA ResolvedTyped ==
  ASSUME PadsOK, TrimsOK, NEW in \in OutputInputs
  PROVE  Resolved(in) \in [Slots -> Pulses]
<1> SUFFICES ASSUME NEW s \in Slots
             PROVE  (IF SourceValid(s, in) THEN Pulse(SourceRaw(s, in), slotTrim[s])
                                           ELSE Substitute(s)) \in Pulses
  BY DEF Resolved
<1>1. CASE SourceValid(s, in)
  <2>1. SourceRaw(s, in) \in Sticks
    BY <1>1 DEF SourceValid, SourceRaw, OutputInputs, HonestMapping, HonestControl
  <2>2. slotTrim[s] \in AllTrims
    BY DEF TrimsOK, TrimTables
  <2>3. QED
    BY <1>1, <2>1, <2>2 DEF Pulses
<1>2. CASE ~ SourceValid(s, in)
  BY <1>2 DEF Substitute, PadsOK, Pulses
<1>3. QED
  BY <1>1, <1>2

(* A step of the pipeline as one of its stages sees it: it registers, it   *)
(* peeks, it ends its pass, or it keeps what it holds and its queue keeps  *)
(* what it holds or is overwritten by the supervisor.                      *)
Keeps(m) ==
  /\ pc'[m] = pc[m]
  /\ peeked'[m] = peeked[m]
  /\ \/ queue'[m] = queue[m]
     \/ /\ Overdue(m)
        /\ queue'[m] = Fallback[m]
        /\ UNCHANGED <<age, suspended, lost, settled>>

LEMMA StageSteps ==
  ASSUME PipelineTypeOK, [Next]_vars, NEW m \in Stages
  PROVE  \/ Register(m)
         \/ m = "output" /\ LoadTrims
         \/ Peek(m)
         \/ m = "output" /\ PeekControl
         \/ Ends(m)
         \/ Keeps(m)
<1> USE DEF PipelineTypeOK, PassesOK, QueuesOK, Keeps
<1>1. ASSUME NEW n \in Stages, Register(n) PROVE Register(m) \/ Keeps(m)
  BY <1>1 DEF Register, Watch
<1>2. ASSUME NEW n \in Stages, Peek(n) PROVE Peek(m) \/ Keeps(m)
  BY <1>2 DEF Peek, mvars
<1>3. ASSUME NEW n \in Stages, Suspend(n) \/ Resume(n) PROVE Keeps(m)
  BY <1>3 DEF Suspend, Resume, mvars
<1>4. CASE PeekControl
  <2>1. CASE m = "output"
    BY <1>4, <2>1
  <2>2. CASE m # "output"
    BY <1>4, <2>2 DEF PeekControl, mvars
  <2>3. QED
    BY <2>1, <2>2
<1>5. CASE LoadTrims
  <2>1. CASE m = "output"
    BY <1>5, <2>1
  <2>2. CASE m # "output"
    BY <1>5, <2>2 DEF LoadTrims, mvars
  <2>3. QED
    BY <2>1, <2>2
<1>6. ASSUME NEW s \in Slots, NEW t \in SlotTrims[s], SetTrim(s, t) PROVE Keeps(m)
  BY <1>6 DEF SetTrim, mvars
<1>7. ASSUME NEW n \in Stages, Ends(n) PROVE Ends(m) \/ Keeps(m)
  <2>1. CASE m = n
    BY <1>7, <2>1
  <2>2. CASE m # n
    BY <1>7, <2>2 DEF Ends, Finish
  <2>3. QED
    BY <2>1, <2>2
<1>8. CASE PipelineSweep
  <2>1. UNCHANGED <<age, suspended, lost, settled, pc, peeked>>
    BY <1>8 DEF PipelineSweep, Sweep, stageVars
  <2>2. queue'[m] = queue[m] \/ (Overdue(m) /\ queue'[m] = Fallback[m])
    BY <1>8, PipelineNumbers DEF PipelineSweep, Sweep
  <2>3. QED
    BY <2>1, <2>2
<1>9. CASE PipelineTick
  BY <1>9 DEF PipelineTick, Tick, stageVars
<1>10. ASSUME NEW l \in Links, LinkChanges(l) PROVE Keeps(m)
  BY <1>10 DEF LinkChanges, mvars
<1>11. CASE UNCHANGED vars
  BY <1>11 DEF vars, mvars, stageVars
<1>12. RxPublish => Ends("rx")
  BY DEF RxPublish, Ends, FrameOf
<1>13. MappingPublish => Ends("mapping")
  BY DEF MappingPublish, Ends, FrameOf
<1>14. ControlPublish => Ends("control")
  BY DEF ControlPublish, Ends, FrameOf, ControlOf
<1>15. OutputPublish => Ends("output")
  BY DEF OutputPublish, Ends, FrameOf
<1>16. ServoPublish => Ends("servo")
  BY DEF ServoPublish, Ends, FrameOf
<1>17. {"rx", "mapping", "control", "output", "servo"} = Stages
  BY DEF Stages
<1>18. QED
  BY <1>1, <1>2, <1>3, <1>4, <1>7, <1>8, <1>9, <1>10, <1>11, <1>12, <1>13, <1>14,
     <1>15, <1>16, <1>17, <1>5, <1>6 DEF Next

-----------------------------------------------------------------------------
(* Types. *)

LEMMA ClocksStep ==
  ASSUME PipelineTypeOK, [Next]_vars
  PROVE  ClocksOK'
<1> USE PipelineNumbers DEF PipelineTypeOK, ClocksOK
<1>1. ASSUME NEW m \in Stages, Register(m) PROVE ClocksOK'
  BY <1>1 DEF Register, Watch, boundVars
<1>2. ASSUME NEW m \in Stages, Peek(m) PROVE ClocksOK'
  BY <1>2 DEF Peek, mvars, boundVars
<1>3. ASSUME NEW m \in Stages, Suspend(m) PROVE ClocksOK'
  BY <1>3 DEF Suspend, mvars
<1>4. ASSUME NEW m \in Stages, Resume(m) PROVE ClocksOK'
  BY <1>4 DEF Resume, mvars, boundVars
<1>5. CASE PeekControl
  BY <1>5 DEF PeekControl, mvars, boundVars
<1>6. ASSUME NEW m \in Stages, NEW frame, Finish(m, frame), UNCHANGED <<lost, settled>>
      PROVE  ClocksOK'
  BY <1>6 DEF Finish, boundVars
<1>7. CASE PipelineSweep
  BY <1>7 DEF PipelineSweep, Sweep, stageVars, boundVars
<1>8. CASE PipelineTick
  <2>1. age' \in [Stages -> 0 .. AgeCap]
    BY <1>8 DEF PipelineTick, Tick, Older
  <2>2. lost' \in Nat /\ settled' \in Nat
    BY <1>8 DEF PipelineTick, Capped
  <2>3. QED
    BY <1>8, <2>1, <2>2 DEF PipelineTick, Tick, stageVars, boundVars
<1>9. ASSUME NEW l \in Links, LinkChanges(l) PROVE ClocksOK'
  BY <1>9 DEF LinkChanges, mvars
<1>10. CASE UNCHANGED vars
  BY <1>10 DEF vars, mvars, stageVars, boundVars
<1>11. "rx" \in Stages /\ "mapping" \in Stages /\ "control" \in Stages
       /\ "output" \in Stages /\ "servo" \in Stages
  BY DEF Stages
<1>12. ASSUME RxPublish \/ MappingPublish \/ ControlPublish \/ OutputPublish \/ ServoPublish
       PROVE  ClocksOK'
  BY <1>6, <1>11, <1>12 DEF RxPublish, MappingPublish, ControlPublish, OutputPublish,
                           ServoPublish, Finish
<1>13. CASE LoadTrims
  BY <1>13 DEF LoadTrims, mvars, boundVars
<1>14. ASSUME NEW s \in Slots, NEW t \in SlotTrims[s], SetTrim(s, t) PROVE ClocksOK'
  BY <1>14 DEF SetTrim, mvars
<1>15. QED
  BY <1>1, <1>2, <1>3, <1>4, <1>5, <1>7, <1>8, <1>9, <1>10, <1>12, <1>13, <1>14 DEF Next

(* The tasks' locals and queues stay functions on the stages. *)
LEMMA ShapesStep ==
  ASSUME PipelineTypeOK, [Next]_vars
  PROVE  /\ pc' \in [Stages -> {"start", "delay", "loaded", "peeked", "ready"}]
         /\ peeked' = [m \in Stages |-> peeked'[m]]
         /\ queue' = [m \in Stages |-> queue'[m]]
<1> DEFINE Shapes == /\ pc \in [Stages -> {"start", "delay", "loaded", "peeked", "ready"}]
                     /\ peeked = [m \in Stages |-> peeked[m]]
                     /\ queue = [m \in Stages |-> queue[m]]
<1>0. Shapes
  BY DEF PipelineTypeOK, PassesOK, QueuesOK
<1>1. ASSUME NEW m \in Stages, Register(m) PROVE Shapes'
  BY <1>0, <1>1 DEF Register, Watch
<1>2. ASSUME NEW m \in Stages, Peek(m) PROVE Shapes'
  BY <1>0, <1>2 DEF Peek, mvars
<1>3. ASSUME NEW m \in Stages, Suspend(m) \/ Resume(m) PROVE Shapes'
  BY <1>0, <1>3 DEF Suspend, Resume, mvars
<1>4. CASE PeekControl
  BY <1>0, <1>4 DEF PeekControl, mvars
<1>5. ASSUME NEW m \in Stages, NEW frame, Finish(m, frame) PROVE Shapes'
  BY <1>0, <1>5 DEF Finish
<1>6. CASE PipelineSweep
  BY <1>0, <1>6, PipelineNumbers DEF PipelineSweep, Sweep, stageVars
<1>7. CASE PipelineTick
  BY <1>0, <1>7 DEF PipelineTick, Tick, stageVars
<1>8. ASSUME NEW l \in Links, LinkChanges(l) PROVE Shapes'
  BY <1>0, <1>8 DEF LinkChanges, mvars
<1>9. CASE UNCHANGED vars
  BY <1>0, <1>9 DEF vars, mvars, stageVars
<1>10. ASSUME RxPublish \/ MappingPublish \/ ControlPublish \/ OutputPublish \/ ServoPublish
       PROVE  Shapes'
  BY <1>5, <1>10 DEF RxPublish, MappingPublish, ControlPublish, OutputPublish,
                     ServoPublish, Stages
<1>11. CASE LoadTrims
  BY <1>0, <1>11 DEF LoadTrims, mvars
<1>12. ASSUME NEW s \in Slots, NEW t \in SlotTrims[s], SetTrim(s, t) PROVE Shapes'
  BY <1>0, <1>12 DEF SetTrim, mvars
<1>13. QED
  BY <1>1, <1>2, <1>3, <1>4, <1>6, <1>7, <1>8, <1>9, <1>10, <1>11, <1>12 DEF Next

LEMMA PassesStep ==
  ASSUME PipelineTypeOK, [Next]_vars
  PROVE  PassesOK'
<1> USE DEF PassesOK
<1>0. PassesOK /\ QueuesOK /\ Links \subseteq HonestLinks /\ link \in Links
  BY HonestFrames DEF PipelineTypeOK
<1>1. ASSUME NEW m \in Stages, pc'[m] # "start", pc'[m] # "delay"
      PROVE  \/ m = "output" /\ LoadTrims
             \/ Peek(m)
             \/ m = "output" /\ PeekControl
             \/ pc'[m] = pc[m] /\ peeked'[m] = peeked[m]
  <2>1. ~ Register(m) /\ ~ Ends(m)
    BY <1>0, <1>1 DEF Register, Ends, Finish
  <2>2. QED
    BY <2>1, StageSteps DEF Keeps
<1>2. ASSUME NEW m \in Stages, Peek(m)
      PROVE  /\ peeked'[m] = Upstream(m)
             /\ pc'[m] = IF m = "output" THEN "peeked" ELSE "ready"
  <2>1. /\ peeked' = [peeked EXCEPT ![m] = Upstream(m)]
        /\ pc' = [pc EXCEPT ![m] = IF m = "output" THEN "peeked" ELSE "ready"]
    BY <1>2 DEF Peek
  <2>2. QED
    BY <1>0, <2>1
<1>3. ASSUME PeekControl
      PROVE  /\ pc["output"] = "peeked"
             /\ peeked'["output"] = [mapping |-> peeked["output"], control |-> queue["control"]]
             /\ pc'["output"] = "ready"
  BY <1>0, <1>3 DEF PeekControl, Stages
<1>4. ASSUME NEW m \in Stages, pc'[m] \in {"loaded", "peeked"} PROVE m = "output"
  BY <1>0, <1>1, <1>2, <1>4
<1>5. LoadTrims => pc'["output"] = "loaded"
  BY <1>0 DEF LoadTrims, Stages
<1>6. pc'["rx"] = "ready" => peeked'["rx"] \in HonestLinks
  BY <1>0, <1>1, <1>2 DEF Upstream, Stages
<1>7. pc'["mapping"] = "ready" => peeked'["mapping"] \in HonestLinks
  BY <1>0, <1>1, <1>2 DEF Upstream, QueuesOK, Stages
<1>8. pc'["control"] = "ready" => peeked'["control"] \in HonestMapping
  BY <1>0, <1>1, <1>2 DEF Upstream, QueuesOK, Stages
<1>9. pc'["output"] = "peeked" => peeked'["output"] \in HonestMapping
  BY <1>0, <1>1, <1>2, <1>3, <1>5 DEF Upstream, QueuesOK, Stages
<1>10. pc'["output"] = "ready" => peeked'["output"] \in OutputInputs
  BY <1>0, <1>1, <1>2, <1>3, <1>5 DEF OutputInputs, QueuesOK, Stages
<1>11. pc'["servo"] = "ready" => peeked'["servo"] \in OutputFrames
  BY <1>0, <1>1, <1>2 DEF Upstream, QueuesOK, Stages
<1>12. QED
  BY ShapesStep, <1>4, <1>6, <1>7, <1>8, <1>9, <1>10, <1>11

(* What a queue holds after a step: what it held, the fallback, or what    *)
(* its task made of its inputs.                                            *)
LEMMA QueueStep ==
  ASSUME PipelineTypeOK, [Next]_vars, NEW m \in Stages
  PROVE  \/ queue'[m] = queue[m]
         \/ queue'[m] = Fallback[m]
         \/ pc[m] = "ready" /\ queue'[m] = FrameOf(m)
<1>1. Register(m) => queue'[m] = queue[m]
  BY DEF Register, Watch
<1>2. LoadTrims \/ Peek(m) \/ PeekControl => queue'[m] = queue[m]
  BY DEF LoadTrims, Peek, PeekControl, mvars
<1>3. Ends(m) => pc[m] = "ready" /\ queue'[m] = FrameOf(m)
  BY DEF Ends, Finish, PipelineTypeOK, QueuesOK
<1>4. QED
  BY <1>1, <1>2, <1>3, StageSteps DEF Keeps

LEMMA QueuesStep ==
  ASSUME PipelineTypeOK, [Next]_vars
  PROVE  QueuesOK'
<1>0. PassesOK /\ QueuesOK /\ PadsOK /\ TrimsOK
  BY DEF PipelineTypeOK
<1>1. queue'["rx"] \in HonestLinks
  BY <1>0, QueueStep, FallbackFrames, HonestFrames DEF QueuesOK, PassesOK, FrameOf, Stages
<1>2. queue'["mapping"] \in HonestMapping
  BY <1>0, QueueStep, FallbackFrames, HonestFrames DEF QueuesOK, PassesOK, FrameOf, Stages
<1>3. queue'["control"] \in HonestControl
  BY <1>0, QueueStep, FallbackFrames, HonestFrames DEF QueuesOK, PassesOK, FrameOf, Stages
<1>4. queue'["output"] \in OutputFrames
  <2>1. ASSUME pc["output"] = "ready" PROVE FrameOf("output") \in OutputFrames
    <3>1. peeked["output"] \in OutputInputs
      BY <1>0, <2>1 DEF PassesOK
    <3>2. Resolved(peeked["output"]) \in [Slots -> Pulses]
      BY <1>0, <3>1, ResolvedTyped
    <3>3. peeked["output"].mapping.status \in Status
      BY <3>1 DEF OutputInputs, HonestMapping, MappingFrames
    <3>4. QED
      BY <3>2, <3>3 DEF FrameOf, OutputFrames
  <2>2. Fallback["output"] \in OutputFrames
    BY FallbackFrames, HonestFrames DEF OutputFrames, Status
  <2>3. QED
    BY <1>0, <2>1, <2>2, QueueStep DEF QueuesOK, Stages
<1>5. queue'["servo"] \in OutputFrames
  <2>1. Fallback["servo"] \in OutputFrames
    BY FallbackFrames, HonestFrames DEF OutputFrames, Status
  <2>2. QED
    BY <1>0, <2>1, QueueStep DEF QueuesOK, PassesOK, FrameOf, Stages
<1>6. /\ HonestLinks \subseteq Value
      /\ HonestMapping \subseteq Value
      /\ HonestControl \subseteq Value
      /\ OutputFrames \subseteq Value
  BY PipelineAssumption DEF HonestLinks, HonestMapping, HonestControl
<1>7. queue' \in [Stages -> Value]
  <2>1. ASSUME NEW m \in Stages PROVE queue'[m] \in Value
    BY <1>1, <1>2, <1>3, <1>4, <1>5, <1>6 DEF Stages
  <2>2. QED
    BY <2>1, ShapesStep
<1>8. QED
  BY <1>1, <1>2, <1>3, <1>4, <1>5, <1>7 DEF QueuesOK

(* Only a pass of output moves the hold memory, only a pass of servo the   *)
(* pads.                                                                   *)
LEMMA PadsSteps ==
  ASSUME [Next]_vars
  PROVE  /\ OutputPublish \/ lastGood' = lastGood
         /\ ServoPublish \/ pwm' = pwm
BY DEF Next, Register, LoadTrims, Peek, Suspend, Resume, PeekControl, RxPublish,
       MappingPublish, ControlPublish, OutputPublish, ServoPublish, PipelineSweep,
       PipelineTick, LinkChanges, SetTrim, vars, stageVars

(* Only a load copies the stored trims, and only a set changes them, each  *)
(* for another that the slot can have.                                     *)
LEMMA TrimsSteps ==
  ASSUME [Next]_vars
  PROVE  \/ LoadTrims
         \/ \E s \in Slots : \E t \in SlotTrims[s] : SetTrim(s, t)
         \/ UNCHANGED trimVars
BY DEF Next, Register, Peek, Suspend, Resume, PeekControl, RxPublish, MappingPublish,
       ControlPublish, OutputPublish, ServoPublish, Finish, PipelineSweep, PipelineTick,
       LinkChanges, vars, stageVars

LEMMA TrimsStep ==
  ASSUME PipelineTypeOK, [Next]_vars
  PROVE  TrimsOK'
<1> USE DEF PipelineTypeOK, TrimsOK, TrimTables
<1>1. CASE LoadTrims
  BY <1>1 DEF LoadTrims, Reloaded
<1>2. ASSUME NEW s \in Slots, NEW t \in SlotTrims[s], SetTrim(s, t) PROVE TrimsOK'
  <2>1. t \in AllTrims
    BY DEF AllTrims
  <2>2. QED
    BY <1>2, <2>1 DEF SetTrim
<1>3. CASE UNCHANGED trimVars
  BY <1>3 DEF trimVars
<1>4. QED
  BY <1>1, <1>2, <1>3, TrimsSteps

LEMMA PadsStep ==
  ASSUME PipelineTypeOK, [Next]_vars
  PROVE  PadsOK'
<1>0. PassesOK /\ PadsOK /\ TrimsOK
  BY DEF PipelineTypeOK
<1>1. lastGood' \in [Slots -> Pulses]
  <2>1. CASE OutputPublish
    <3>1. peeked["output"] \in OutputInputs
      BY <1>0, <2>1 DEF OutputPublish, PassesOK
    <3>2. Resolved(peeked["output"]) \in [Slots -> Pulses]
      BY <1>0, <3>1, ResolvedTyped
    <3>3. QED
      BY <1>0, <2>1, <3>2 DEF OutputPublish, PadsOK
  <2>2. QED
    BY <1>0, <2>1, PadsSteps DEF PadsOK
<1>2. pwm' \in [Slots -> Pulses]
  <2>1. CASE ServoPublish
    <3>1. peeked["servo"] \in OutputFrames
      BY <1>0, <2>1 DEF ServoPublish, Finish, PassesOK
    <3>2. QED
      BY <2>1, <3>1 DEF ServoPublish, OutputFrames
  <2>2. QED
    BY <1>0, <2>1, PadsSteps DEF PadsOK
<1>3. QED
  BY <1>1, <1>2 DEF PadsOK

LEMMA TypeStep ==
  ASSUME PipelineTypeOK, [Next]_vars
  PROVE  PipelineTypeOK'
<1>1. link' \in Links
  BY DEF PipelineTypeOK, Next, Register, LoadTrims, Peek, Suspend, Resume, PeekControl,
         RxPublish, MappingPublish, ControlPublish, OutputPublish, ServoPublish, Finish,
         PipelineSweep, PipelineTick, LinkChanges, SetTrim, vars, stageVars
<1>2. QED
  BY <1>1, ClocksStep, PassesStep, QueuesStep, TrimsStep, PadsStep DEF PipelineTypeOK

LEMMA TypeInit == Init => PipelineTypeOK
<1> SUFFICES ASSUME Init PROVE PipelineTypeOK
  OBVIOUS
<1>1. ClocksOK
  BY PipelineNumbers DEF Init, MonitorInit, ClocksOK
<1>2. PassesOK
  BY DEF Init, PassesOK, Stages
<1>3. QueuesOK
  BY SeedFrames, HonestFrames, PipelineNumbers, MonitorAssumption
     DEF Init, MonitorInit, QueuesOK, OutputFrames, Status
<1>4. PadsOK
  BY HonestFrames DEF Init, PadsOK, Pulses
<1>5. TrimsOK
  BY PipelineAssumption DEF Init, TrimsOK
<1>6. QED
  BY <1>1, <1>2, <1>3, <1>4, <1>5 DEF Init, PipelineTypeOK

(* Every frame in a queue or in a task's hands is of its kind, a live one  *)
(* carries a value the pilot can send, and no pad ever carries anything    *)
(* but a pulse made of such a value and a trim that some slot can have, a  *)
(* boot trim's centre, a declared safe value or, after an output fallback, *)
(* zero.                                                                   *)
THEOREM PipelineTypeCorrect == Spec => []PipelineTypeOK
BY TypeInit, TypeStep, PTL DEF Spec

-----------------------------------------------------------------------------
(* Time: what a task's age says about the histories. *)

(* Nothing has been timed before every task has started, a pass lasts from *)
(* when it is due, and only a suspended task is late while the histories   *)
(* count.                                                                  *)
TaskInv ==
  \A m \in Stages :
    /\ pc[m] # "start" => m \in watched
    /\ pc[m] = "start" => m \notin suspended /\ lost = 0 /\ settled = 0
    /\ MidPass(m) => age[m] >= Period
    /\ m \notin suspended /\ age[m] > Deadline => lost = 0
    /\ settled # 0 => age[m] <= Deadline

LinkInv == link.status = "OK" => lost = 0

LEMMA TaskStep ==
  ASSUME PipelineTypeOK, TaskInv, [Next]_vars
  PROVE  TaskInv'
<1> USE PipelineNumbers DEF TaskInv, MidPass, PipelineTypeOK, ClocksOK, PassesOK
<1>1. ASSUME NEW m \in Stages, Register(m) PROVE TaskInv'
  BY <1>1 DEF Register, Watch
<1>2. ASSUME NEW m \in Stages, Peek(m) PROVE TaskInv'
  BY <1>2 DEF Peek, Due, mvars
<1>3. ASSUME NEW m \in Stages, Suspend(m) PROVE TaskInv'
  BY <1>3 DEF Suspend, Due, mvars
<1>4. ASSUME NEW m \in Stages, Resume(m) PROVE TaskInv'
  BY <1>4 DEF Resume, mvars
<1>5. CASE PeekControl
  BY <1>5 DEF PeekControl, mvars
<1>6. ASSUME NEW m \in Stages, NEW frame, Finish(m, frame), UNCHANGED <<lost, settled>>
      PROVE  TaskInv'
  BY <1>6 DEF Finish
<1>7. CASE PipelineSweep
  BY <1>7 DEF PipelineSweep, Sweep, stageVars
<1>8. CASE PipelineTick
  <2> SUFFICES ASSUME NEW m \in Stages
               PROVE  /\ age'[m] \in Nat
                      /\ pc[m] # "start" /\ m \in watched
                      /\ MidPass(m) => age'[m] >= Period
                      /\ m \notin suspended => age'[m] <= Deadline
                      /\ settled' # 0 => age'[m] <= Deadline
    BY <1>8 DEF PipelineTick, Tick, stageVars
  <2>1. OnSchedule(m) /\ age'[m] = (IF m \in watched THEN Older(age[m]) ELSE age[m])
    BY <1>8 DEF PipelineTick, Tick
  <2>2. pc[m] # "start" /\ m \in watched
    BY <2>1 DEF OnSchedule
  <2>3. m \notin suspended => age'[m] <= Deadline
    BY <2>1 DEF OnSchedule, Older
  <2>4. settled' # 0 => suspended = {}
    BY <1>8 DEF PipelineTick
  <2>5. age'[m] \in Nat /\ age'[m] >= age[m]
    BY <2>1 DEF Older
  <2>6. QED
    BY <2>2, <2>3, <2>4, <2>5
<1>9. ASSUME NEW l \in Links, LinkChanges(l) PROVE TaskInv'
  BY <1>9 DEF LinkChanges, mvars
<1>10. CASE UNCHANGED vars
  BY <1>10 DEF vars, mvars, stageVars
<1>11. ASSUME RxPublish \/ MappingPublish \/ ControlPublish \/ OutputPublish \/ ServoPublish
       PROVE  TaskInv'
  BY <1>6, <1>11 DEF RxPublish, MappingPublish, ControlPublish, OutputPublish,
                     ServoPublish, Stages, Finish
<1>12. CASE LoadTrims
  BY <1>12 DEF LoadTrims, Due, mvars
<1>13. ASSUME NEW s \in Slots, NEW t \in SlotTrims[s], SetTrim(s, t) PROVE TaskInv'
  BY <1>13 DEF SetTrim, mvars
<1>14. QED
  BY <1>1, <1>2, <1>3, <1>4, <1>5, <1>7, <1>8, <1>9, <1>10, <1>11, <1>12, <1>13 DEF Next

LEMMA LinkStep ==
  ASSUME PipelineTypeOK, LinkInv, [Next]_vars
  PROVE  LinkInv'
<1> USE DEF LinkInv
<1>1. CASE PipelineTick
  BY <1>1 DEF PipelineTick, stageVars
<1>2. ASSUME NEW m \in Stages, Resume(m) PROVE LinkInv'
  BY <1>2 DEF Resume
<1>3. ASSUME NEW l \in Links, LinkChanges(l) PROVE LinkInv'
  BY <1>3 DEF LinkChanges
<1>4. QED
  BY <1>1, <1>2, <1>3 DEF Next, Register, LoadTrims, Peek, Suspend, PeekControl,
     RxPublish, MappingPublish, ControlPublish, OutputPublish, ServoPublish, Finish,
     PipelineSweep, SetTrim, vars, stageVars

(* The supervisor's promise holds of the pipeline: a pass that ends only   *)
(* makes its task young, every other step is the monitor's or none of its. *)
LEMMA PromiseStep ==
  ASSUME PipelineTypeOK, ReplacedOnTime, [Next]_vars
  PROVE  ReplacedOnTime'
<1>1. MonitorTypeOK
  BY PipelineNumbers DEF MonitorTypeOK, PipelineTypeOK, ClocksOK, QueuesOK
<1>2. ASSUME NEW m \in Stages, NEW frame, Finish(m, frame) PROVE ReplacedOnTime'
  <2> SUFFICES ASSUME NEW n \in watched', age'[n] > MaxPeriod[n] + since'
               PROVE  queue'[n] = Fallback[n]
    BY DEF ReplacedOnTime
  <2>1. n \in watched \ unkicked /\ n \in Stages
    BY <1>2 DEF Finish, PipelineTypeOK, ClocksOK
  <2>2. n # m
    BY <1>2, <2>1, PipelineNumbers DEF Finish, PipelineTypeOK, ClocksOK
  <2>3. age[n] > MaxPeriod[n] + since /\ queue'[n] = queue[n]
    BY <1>2, <2>1, <2>2 DEF Finish, PipelineTypeOK, ClocksOK, QueuesOK
  <2>4. QED
    BY <2>1, <2>3 DEF ReplacedOnTime
<1>3. ASSUME RxPublish \/ MappingPublish \/ ControlPublish \/ OutputPublish \/ ServoPublish
      PROVE  ReplacedOnTime'
  BY <1>2, <1>3 DEF RxPublish, MappingPublish, ControlPublish, OutputPublish,
                    ServoPublish, Stages
<1>4. CASE [MonitorNext]_mvars
  BY <1>1, <1>4, ReplacedOnTimeStep
<1>5. ASSUME NEW m \in Stages, Register(m) \/ Peek(m) \/ Suspend(m) \/ Resume(m)
      PROVE  [MonitorNext]_mvars
  BY <1>5, PipelineNumbers DEF Register, Peek, Suspend, Resume, MonitorNext
<1>6. LoadTrims \/ PeekControl \/ PipelineSweep \/ PipelineTick => [MonitorNext]_mvars
  BY DEF LoadTrims, PeekControl, PipelineSweep, PipelineTick, MonitorNext
<1>7. ASSUME NEW l \in Links, LinkChanges(l) PROVE [MonitorNext]_mvars
  BY <1>7 DEF LinkChanges
<1>8. UNCHANGED vars => [MonitorNext]_mvars
  BY DEF vars
<1>9. ASSUME NEW s \in Slots, NEW t \in SlotTrims[s], SetTrim(s, t)
       PROVE  [MonitorNext]_mvars
  BY <1>9 DEF SetTrim
<1>10. QED
  BY <1>3, <1>4, <1>5, <1>6, <1>7, <1>8, <1>9 DEF Next

(* Everything that a frame's age is judged by. *)
Basis ==
  /\ PipelineTypeOK
  /\ TaskInv
  /\ LinkInv
  /\ ReplacedOnTime

LEMMA BasisStep ==
  ASSUME Basis, [Next]_vars
  PROVE  Basis'
BY TypeStep, TaskStep, LinkStep, PromiseStep DEF Basis

LEMMA BasisInit == Init => Basis
<1> SUFFICES ASSUME Init PROVE Basis
  OBVIOUS
<1>1. TaskInv
  BY PipelineNumbers DEF Init, MonitorInit, TaskInv, MidPass
<1>2. LinkInv /\ ReplacedOnTime
  BY DEF Init, MonitorInit, LinkInv, ReplacedOnTime
<1>3. QED
  BY <1>1, <1>2, TypeInit DEF Basis

THEOREM BasisHolds == Spec => []Basis
BY BasisInit, BasisStep, PTL DEF Spec

(* The supervisor's promise, as the pipeline's readers have it: a task     *)
(* silent for its period and the poll under way has had its queue          *)
(* overwritten.                                                            *)
THEOREM PipelineReplacesOnTime == Spec => []ReplacedOnTime
BY BasisHolds, PTL DEF Basis

-----------------------------------------------------------------------------
(* A lost link: no live value is older than the way it has come. *)

(* A suspended task whose next pass is overdue. *)
Late(m) == m \in suspended /\ age[m] > Deadline

(* For how long m's queue can still show what m published last.  Unlike    *)
(* Reach it does not grow before the task really is late.                  *)
Lag(m) == IF Late(m) THEN MaxPeriod[m] + PollPeriod - 1 ELSE Deadline

(* For how long after the loss a pass can still start on a live input:     *)
(* what m peeks first, "pitch" being output's second peek and "servo" the  *)
(* frame that servo peeks.                                                 *)
UpTo(i) ==
  CASE i = "rx" -> 0
    [] i = "mapping" -> Slack + Lag("rx")
    [] i \in {"control", "output"} -> 2 * Slack + Lag("rx") + Lag("mapping")
    [] i = "pitch" -> 3 * Slack + Lag("rx") + Lag("mapping") + Lag("control")
    [] i = "servo" -> 4 * Slack + Lag("rx") + Lag("mapping") + Lag("control")

Inputs == {"rx", "mapping", "control", "output", "pitch", "servo"}

\* An input that was live until b is held for the rest of the pass, and
\* what the pass published is shown until the next one publishes.
HeldBy(m, b) == ~ Late(m) => lost + Period <= b + age[m]
ShownBy(m, b) == lost <= b + Slack + age[m]

Peeked(m) == pc[m] \in {"peeked", "ready"}
Held(m) == IF m = "output" /\ pc[m] = "ready" THEN peeked[m].mapping ELSE peeked[m]
HeldLive(m) == Peeked(m) /\ Held(m).status = "OK"
HeldPitch == pc["output"] = "ready" /\ peeked["output"].control.pitchActive
ShownLive(m) == IF m = "control" THEN queue[m].pitchActive ELSE queue[m].status = "OK"

HeldIsRecent ==
  \A m \in {"rx", "mapping", "control", "output"} : HeldLive(m) => HeldBy(m, UpTo(m))

PitchIsRecent == HeldPitch => HeldBy("output", UpTo("pitch"))

ShownIsRecent ==
  \A m \in {"rx", "mapping", "control"} : ShownLive(m) => ShownBy(m, UpTo(m))

SlotShown ==
  ~ Late("output") =>
    \A s \in Slots :
      queue["output"].servos[s] # Safe(s) => ShownBy("output", UpTo("output"))

SlotHeld ==
  MidPass("servo") /\ ~ Late("output") =>
    \A s \in Slots :
      peeked["servo"].servos[s] # Safe(s) => HeldBy("servo", UpTo("servo"))

PadShown ==
  ~ Late("output") /\ ~ Late("servo") =>
    \A s \in Slots : pwm[s] # Safe(s) => ShownBy("servo", UpTo("servo"))

LossInv ==
  /\ HeldIsRecent
  /\ PitchIsRecent
  /\ ShownIsRecent
  /\ SlotShown
  /\ SlotHeld
  /\ PadShown

(* The bounds are numbers, each no shorter than the way before it.         *)
LEMMA LagNumbers ==
  ASSUME Basis, NEW m \in Stages
  PROVE  /\ Lag(m) \in Nat
         /\ Deadline <= Lag(m)
         /\ age[m] \in Nat
         /\ lost \in Nat
         /\ ~ Late(m) /\ lost # 0 => age[m] <= Deadline
BY PipelineNumbers DEF Lag, Late, Basis, PipelineTypeOK, ClocksOK, TaskInv

LEMMA UpToNumbers ==
  ASSUME Basis
  PROVE  /\ \A i \in Inputs : UpTo(i) \in Nat
         /\ UpTo("rx") = 0
         /\ UpTo("mapping") = UpTo("rx") + Slack + Lag("rx")
         /\ UpTo("control") = UpTo("mapping") + Slack + Lag("mapping")
         /\ UpTo("output") = UpTo("mapping") + Slack + Lag("mapping")
         /\ UpTo("pitch") = UpTo("control") + Slack + Lag("control")
         /\ UpTo("servo") = UpTo("pitch") + Slack
<1>1. Lag("rx") \in Nat /\ Lag("mapping") \in Nat /\ Lag("control") \in Nat /\ Slack \in Nat
  BY LagNumbers, PipelineNumbers DEF Stages
<1>2. QED
  BY <1>1 DEF UpTo, Inputs

(* A step that does not end the history of the loss makes every task older *)
(* by as much as it adds to the history, but for a task that finishes and  *)
(* a stuck one beyond the horizon; and a late task stays late.             *)
Aged(m, d) ==
  \/ age'[m] = age[m] + d
  \/ Late(m)' /\ age[m] = AgeCap /\ age'[m] = AgeCap
  \/ Ends(m)

LossTicks(d) ==
  /\ lost' <= lost + d
  /\ \A m \in Stages : pc[m] # "start" /\ (Late(m) => Late(m)') /\ Aged(m, d)

LEMMA LossClock ==
  ASSUME Basis, [Next]_vars, lost' # 0
  PROVE  \E d \in {0, 1} : LossTicks(d)
<1> USE PipelineNumbers DEF Basis, PipelineTypeOK, ClocksOK, PassesOK, TaskInv, Late
<1> DEFINE Steady == /\ lost' = lost
                     /\ \A m \in Stages : /\ pc[m] # "start"
                                          /\ Late(m) => Late(m)'
                                          /\ age'[m] = age[m] \/ Ends(m)
<1>0. Steady => LossTicks(0)
  <2> SUFFICES ASSUME Steady PROVE LossTicks(0)
    OBVIOUS
  <2>1. lost' <= lost + 0
    OBVIOUS
  <2>2. ASSUME NEW m \in Stages PROVE age'[m] = age[m] => age'[m] = age[m] + 0
    OBVIOUS
  <2>3. QED
    BY <2>1, <2>2 DEF LossTicks, Aged
<1>1. ASSUME NEW m \in Stages, Register(m) PROVE FALSE
  BY <1>1 DEF Register
<1>2. ASSUME NEW m \in Stages, Peek(m) PROVE Steady
  BY <1>2 DEF Peek, mvars
<1>3. ASSUME NEW m \in Stages, Suspend(m) PROVE Steady
  BY <1>3 DEF Suspend, mvars
<1>4. ASSUME NEW m \in Stages, Resume(m) PROVE Steady
  BY <1>4 DEF Resume, mvars
<1>5. ASSUME PeekControl PROVE Steady
  BY <1>5 DEF PeekControl, mvars
<1>6. ASSUME NEW m \in Stages, Ends(m) PROVE Steady
  <2>1. /\ lost' = lost
        /\ suspended' = suspended
        /\ m \notin suspended
        /\ age' = [age EXCEPT ![m] = 0]
    BY <1>6 DEF Ends, Finish, Runs
  <2>2. QED
    BY <1>6, <2>1
<1>7. ASSUME PipelineSweep PROVE Steady
  BY <1>7 DEF PipelineSweep, Sweep, stageVars
<1>8. ASSUME PipelineTick PROVE LossTicks(1)
  <2>1. lost' <= lost + 1
    BY <1>8 DEF PipelineTick, Capped
  <2>2. ASSUME NEW m \in Stages
        PROVE  pc[m] # "start" /\ (Late(m) => Late(m)') /\ Aged(m, 1)
    <3>1. /\ OnSchedule(m)
          /\ age'[m] = (IF m \in watched THEN Older(age[m]) ELSE age[m])
          /\ suspended' = suspended
      BY <1>8 DEF PipelineTick, Tick, stageVars
    <3>2. pc[m] # "start" /\ age'[m] = Older(age[m])
      BY <3>1 DEF OnSchedule
    <3>3. m \notin suspended => age[m] < Deadline
      BY <3>1 DEF OnSchedule
    <3>4. Late(m) => Late(m)'
      BY <3>1, <3>2 DEF Older
    <3>5. CASE age[m] < AgeCap
      BY <3>2, <3>4, <3>5 DEF Older, Aged
    <3>6. CASE age[m] = AgeCap
      <4>1. age'[m] = AgeCap
        BY <3>2, <3>6 DEF Older
      <4>2. Late(m)
        BY <3>3, <3>6
      <4>3. QED
        BY <3>2, <3>4, <3>6, <4>1, <4>2 DEF Aged
    <3>7. QED
      BY <3>5, <3>6
  <2>3. QED
    BY <2>1, <2>2 DEF LossTicks
<1>9. ASSUME NEW l \in Links, LinkChanges(l) PROVE FALSE
  BY <1>9 DEF LinkChanges
<1>10. ASSUME UNCHANGED vars PROVE Steady
  <2>1. UNCHANGED <<lost, pc, age, suspended>>
    BY <1>10 DEF vars, mvars, stageVars
  <2>2. QED
    BY <2>1
<1>11. ASSUME RxPublish \/ MappingPublish \/ ControlPublish \/ OutputPublish \/ ServoPublish
       PROVE  Steady
  <2>1. \E m \in Stages : Ends(m)
    BY <1>11 DEF RxPublish, MappingPublish, ControlPublish, OutputPublish, ServoPublish,
                 Ends, FrameOf, ControlOf, Stages
  <2>2. QED
    BY <1>6, <2>1
<1>12. ASSUME LoadTrims PROVE Steady
  BY <1>12 DEF LoadTrims, mvars
<1>13. ASSUME NEW s \in Slots, NEW t \in SlotTrims[s], SetTrim(s, t) PROVE Steady
  BY <1>13 DEF SetTrim, mvars
<1>14. Steady \/ PipelineTick
  <2> HIDE DEF Steady
  <2>1. QED
    BY <1>1, <1>2, <1>3, <1>4, <1>5, <1>7, <1>9, <1>10, <1>11, <1>12, <1>13 DEF Next
<1>15. LossTicks(0) \/ LossTicks(1)
  BY <1>0, <1>8, <1>14
<1>16. QED
  BY <1>15

(* The bounds never shrink while the history goes on. *)
LEMMA UpToGrows ==
  ASSUME Basis, Basis', [Next]_vars, NEW i \in Inputs
  PROVE  /\ UpTo(i) \in Nat
         /\ UpTo(i)' \in Nat
         /\ lost' # 0 => UpTo(i) <= UpTo(i)'
<1>1. ASSUME NEW m \in Stages PROVE Lag(m) \in Nat /\ Lag(m)' \in Nat
  BY PipelineNumbers DEF Lag
<1>2. /\ Lag("rx") \in Nat /\ Lag("mapping") \in Nat /\ Lag("control") \in Nat
      /\ Lag("rx")' \in Nat /\ Lag("mapping")' \in Nat /\ Lag("control")' \in Nat
  BY <1>1 DEF Stages
<1>3. ASSUME lost' # 0 PROVE UpTo(i) <= UpTo(i)'
  <2>1. PICK d \in {0, 1} : LossTicks(d)
    BY <1>3, LossClock
  <2>2. ASSUME NEW m \in Stages PROVE Lag(m) <= Lag(m)'
    BY <2>1, PipelineNumbers DEF LossTicks, Lag
  <2>3. Lag("rx") <= Lag("rx")' /\ Lag("mapping") <= Lag("mapping")'
        /\ Lag("control") <= Lag("control")'
    BY <2>2 DEF Stages
  <2>4. QED
    BY <1>2, <2>3, PipelineNumbers DEF UpTo, Inputs
<1>4. UpTo(i) \in Nat /\ UpTo(i)' \in Nat
  BY <1>2, PipelineNumbers DEF UpTo, Inputs
<1>5. QED
  BY <1>3, <1>4

(* What a task holds on to stays as recent as it was, until the pass ends. *)
LEMMA HeldStays ==
  ASSUME Basis, Basis', [Next]_vars, NEW m \in Stages, MidPass(m), MidPass(m)',
         NEW b \in Nat, NEW c \in Nat, lost' # 0 => b <= c,
         HeldBy(m, b)
  PROVE  ~ Late(m)' => lost' + Period <= c + age'[m]
<1> SUFFICES ASSUME ~ Late(m)'
             PROVE  lost' + Period <= c + age'[m]
  OBVIOUS
<1>1. age'[m] >= Period /\ age'[m] \in Nat /\ lost' \in Nat /\ age[m] \in Nat /\ lost \in Nat
  BY PipelineNumbers DEF Basis, TaskInv, PipelineTypeOK, ClocksOK
<1>2. CASE lost' = 0
  BY <1>1, <1>2, PipelineNumbers
<1>3. CASE lost' # 0
  <2>1. PICK d \in {0, 1} : LossTicks(d)
    BY <1>3, LossClock
  <2>2. ~ Ends(m)
    BY DEF Ends, Finish, MidPass, Basis, PipelineTypeOK, PassesOK
  <2>3. age'[m] = age[m] + d /\ ~ Late(m)
    BY <2>1, <2>2 DEF LossTicks, Aged
  <2>4. lost + Period <= b + age[m]
    BY <2>3 DEF HeldBy
  <2>5. lost' <= lost + d
    BY <2>1 DEF LossTicks
  <2>6. QED
    BY <1>1, <1>3, <2>3, <2>4, <2>5, PipelineNumbers
<1>4. QED
  BY <1>2, <1>3

(* What a task has published stays as recent as it was, until the task     *)
(* publishes again.                                                        *)
LEMMA ShownStays ==
  ASSUME Basis, Basis', [Next]_vars, NEW m \in Stages, ~ Ends(m),
         age[m] < AgeCap \/ ~ Late(m)',
         NEW b \in Nat, NEW c \in Nat, lost' # 0 => b <= c,
         ShownBy(m, b)
  PROVE  lost' <= c + Slack + age'[m]
<1>1. age'[m] \in Nat /\ lost' \in Nat /\ age[m] \in Nat /\ lost \in Nat
  BY PipelineNumbers DEF Basis, PipelineTypeOK, ClocksOK
<1>2. CASE lost' = 0
  BY <1>1, <1>2, PipelineNumbers
<1>3. CASE lost' # 0
  <2>1. PICK d \in {0, 1} : LossTicks(d)
    BY <1>3, LossClock
  <2>2. age'[m] = age[m] + d
    BY <1>1, <2>1, PipelineNumbers DEF LossTicks, Aged
  <2>3. lost' <= lost + d
    BY <2>1 DEF LossTicks
  <2>4. lost <= b + Slack + age[m]
    BY DEF ShownBy
  <2>5. QED
    BY <1>1, <1>3, <2>2, <2>3, <2>4, PipelineNumbers
<1>4. QED
  BY <1>2, <1>3

(* What a task publishes is no older than what it held, and held no longer *)
(* than its deadline.                                                      *)
LEMMA PublishedIsRecent ==
  ASSUME Basis, Basis', [Next]_vars, NEW m \in Stages, Ends(m),
         NEW b \in Nat, NEW c \in Nat, lost' # 0 => b <= c,
         HeldBy(m, b)
  PROVE  lost' <= b + Slack /\ lost' <= c + Slack + age'[m]
<1>1. age'[m] \in Nat /\ lost' \in Nat /\ age[m] \in Nat /\ lost \in Nat
  BY PipelineNumbers DEF Basis, PipelineTypeOK, ClocksOK
<1>2. lost' = lost /\ m \notin suspended
  BY DEF Ends, Finish, Runs
<1>3. CASE lost = 0
  BY <1>1, <1>2, <1>3, PipelineNumbers
<1>4. CASE lost # 0
  <2>1. ~ Late(m) /\ age[m] <= Deadline
    BY <1>1, <1>2, <1>4, PipelineNumbers DEF Late, Basis, TaskInv
  <2>2. lost + Period <= b + age[m]
    BY <2>1 DEF HeldBy
  <2>3. lost <= b + Slack
    BY <1>1, <2>1, <2>2, PipelineNumbers
  <2>4. QED
    BY <1>1, <1>2, <1>4, <2>3, PipelineNumbers
<1>5. QED
  BY <1>3, <1>4

(* The supervisor's part: a queue that still shows what its task published *)
(* has been written no longer ago than the task's reach.                   *)
LEMMA LiveIsNotFallback ==
  ASSUME NEW m \in {"rx", "mapping", "control"}, queue[m] = Fallback[m]
  PROVE  ~ ShownLive(m)
BY FallbackFrames DEF ShownLive, RxSilent, MappingSilent, ControlSilent

LEMMA LiveIsYoung ==
  ASSUME Basis, NEW m \in {"rx", "mapping", "control"}, ShownLive(m), pc[m] # "start"
  PROVE  age[m] <= MaxPeriod[m] + since /\ age[m] < AgeCap
<1>1. m \in Stages
  BY DEF Stages
<1>2. m \in watched \ unkicked
  BY <1>1 DEF Basis, TaskInv, PipelineTypeOK, ClocksOK
<1>3. age[m] <= MaxPeriod[m] + since
  BY <1>1, <1>2, LiveIsNotFallback, PipelineNumbers
     DEF Basis, ReplacedOnTime, PipelineTypeOK, ClocksOK
<1>4. QED
  BY <1>1, <1>3, PipelineNumbers DEF Basis, PipelineTypeOK, ClocksOK

LEMMA ReadIsRecent ==
  ASSUME Basis, NEW m \in {"rx", "mapping", "control"}, ShownLive(m),
         since < PollPeriod, NEW b \in Nat, ShownBy(m, b)
  PROVE  lost <= b + Slack + Lag(m)
<1>1. m \in Stages
  BY DEF Stages
<1>2. age[m] \in Nat /\ lost \in Nat /\ Lag(m) \in Nat /\ since \in Nat
  BY <1>1, PipelineNumbers, LagNumbers DEF Basis, PipelineTypeOK, ClocksOK
<1>3. CASE lost = 0
  BY <1>2, <1>3, PipelineNumbers
<1>4. CASE lost # 0
  <2>1. age[m] <= Lag(m)
    <3>1. CASE Late(m)
      <4>1. age[m] <= MaxPeriod[m] + since
        BY <1>1, <1>4, LiveIsYoung DEF Basis, TaskInv
      <4>2. QED
        BY <1>1, <1>2, <3>1, <4>1, PipelineNumbers DEF Lag
    <3>2. CASE ~ Late(m)
      BY <1>1, <1>4, <3>2, LagNumbers DEF Lag
    <3>3. QED
      BY <3>1, <3>2
  <2>2. QED
    BY <1>2, <2>1, PipelineNumbers DEF ShownBy
<1>5. QED
  BY <1>3, <1>4

(* A pass of output and a pass of servo end in no other way.               *)
LEMMA OutputEnds ==
  ASSUME PipelineTypeOK, [Next]_vars, Ends("output")
  PROVE  OutputPublish
<1>1. pc["output"] = "ready" /\ pc'["output"] = "delay"
  BY DEF Ends, Finish, PipelineTypeOK, PassesOK, Stages
<1>2. ASSUME NEW m \in Stages, Register(m) \/ Peek(m) \/ Suspend(m) \/ Resume(m) PROVE FALSE
  BY <1>1, <1>2 DEF Register, Peek, Suspend, Resume, PipelineTypeOK, PassesOK, Stages
<1>3. ~ RxPublish /\ ~ MappingPublish /\ ~ ControlPublish /\ ~ ServoPublish
  BY <1>1 DEF RxPublish, MappingPublish, ControlPublish, ServoPublish, Finish,
              PipelineTypeOK, PassesOK, Stages
<1>4. ~ LoadTrims /\ ~ PeekControl /\ ~ PipelineSweep /\ ~ PipelineTick /\ vars' # vars
  BY <1>1 DEF LoadTrims, PeekControl, PipelineSweep, PipelineTick, vars, stageVars,
              PipelineTypeOK, PassesOK, Stages
<1>5. ASSUME NEW l \in Links, LinkChanges(l) PROVE FALSE
  BY <1>1, <1>5 DEF LinkChanges
<1>6. ASSUME NEW s \in Slots, NEW t \in SlotTrims[s], SetTrim(s, t) PROVE FALSE
  BY <1>1, <1>6 DEF SetTrim
<1>7. QED
  BY <1>2, <1>3, <1>4, <1>5, <1>6 DEF Next

LEMMA ServoEnds ==
  ASSUME PipelineTypeOK, [Next]_vars, Ends("servo")
  PROVE  ServoPublish
<1>1. pc["servo"] = "ready" /\ pc'["servo"] = "delay"
  BY DEF Ends, Finish, PipelineTypeOK, PassesOK, Stages
<1>2. ASSUME NEW m \in Stages, Register(m) \/ Peek(m) \/ Suspend(m) \/ Resume(m) PROVE FALSE
  BY <1>1, <1>2 DEF Register, Peek, Suspend, Resume, PipelineTypeOK, PassesOK, Stages
<1>3. ~ RxPublish /\ ~ MappingPublish /\ ~ ControlPublish /\ ~ OutputPublish
  BY <1>1 DEF RxPublish, MappingPublish, ControlPublish, OutputPublish, Finish,
              PipelineTypeOK, PassesOK, Stages
<1>4. ~ LoadTrims /\ ~ PeekControl /\ ~ PipelineSweep /\ ~ PipelineTick /\ vars' # vars
  BY <1>1 DEF LoadTrims, PeekControl, PipelineSweep, PipelineTick, vars, stageVars,
              PipelineTypeOK, PassesOK, Stages
<1>5. ASSUME NEW l \in Links, LinkChanges(l) PROVE FALSE
  BY <1>1, <1>5 DEF LinkChanges
<1>6. ASSUME NEW s \in Slots, NEW t \in SlotTrims[s], SetTrim(s, t) PROVE FALSE
  BY <1>1, <1>6 DEF SetTrim
<1>7. QED
  BY <1>2, <1>3, <1>4, <1>5, <1>6 DEF Next

(* The steps of a stage, by what they do to its locals.                    *)
LEMMA LoadTrimsDoes ==
  ASSUME PipelineTypeOK, LoadTrims
  PROVE  /\ pc["output"] = "delay"
         /\ pc'["output"] = "loaded"
         /\ slotTrim' = stored
         /\ UNCHANGED <<queue, stored, settled>>
BY DEF LoadTrims, Due, Reloaded, mvars, PipelineTypeOK, PassesOK, Stages

LEMMA PeekDoes ==
  ASSUME Basis, NEW m \in Stages, Peek(m)
  PROVE  /\ m \notin suspended /\ since < PollPeriod /\ age[m] >= Period
         /\ pc[m] = IF m = "output" THEN "loaded" ELSE "delay"
         /\ pc'[m] = IF m = "output" THEN "peeked" ELSE "ready"
         /\ peeked'[m] = Upstream(m)
         /\ UNCHANGED <<queue, age, suspended, lost, settled, link, lastGood, pwm>>
BY DEF Peek, Due, Runs, mvars, Basis, TaskInv, MidPass, PipelineTypeOK, PassesOK

LEMMA PeekControlDoes ==
  ASSUME PipelineTypeOK, PeekControl
  PROVE  /\ "output" \notin suspended /\ since < PollPeriod
         /\ pc["output"] = "peeked"
         /\ pc'["output"] = "ready"
         /\ peeked'["output"] = [mapping |-> peeked["output"], control |-> queue["control"]]
         /\ UNCHANGED <<queue, age, suspended, lost, settled, link, lastGood, pwm>>
BY DEF PeekControl, Runs, mvars, PipelineTypeOK, PassesOK, Stages

LEMMA EndsDoes ==
  ASSUME PipelineTypeOK, NEW m \in Stages, Ends(m)
  PROVE  /\ m \notin suspended
         /\ pc[m] = "ready"
         /\ pc'[m] = "delay"
         /\ queue'[m] = FrameOf(m)
         /\ age'[m] = 0
         /\ UNCHANGED <<suspended, lost, settled, link>>
BY DEF Ends, Finish, Runs, PipelineTypeOK, PassesOK, QueuesOK, ClocksOK

LEMMA RegisterDoes ==
  ASSUME PipelineTypeOK, NEW m \in Stages, Register(m)
  PROVE  /\ pc[m] = "start"
         /\ pc'[m] = "delay"
         /\ UNCHANGED <<queue, suspended, lost, settled, link>>
BY DEF Register, Watch, PipelineTypeOK, PassesOK

-----------------------------------------------------------------------------
(* The parts of LossInv, each through one step. *)

LEMMA HeldIsRecentStep ==
  ASSUME Basis, Basis', LossInv, [Next]_vars
  PROVE  HeldIsRecent'
<1> SUFFICES ASSUME NEW m \in {"rx", "mapping", "control", "output"}, HeldLive(m)'
             PROVE  ~ Late(m)' => lost' + Period <= UpTo(m)' + age'[m]
  BY DEF HeldIsRecent, HeldBy
<1>0. /\ m \in Stages /\ m \in Inputs /\ PipelineTypeOK
      /\ UpTo(m) \in Nat /\ UpTo(m)' \in Nat
      /\ lost' # 0 => UpTo(m) <= UpTo(m)'
  BY UpToNumbers, UpToGrows DEF Stages, Inputs, Basis
<1>1. CASE Peek(m)
  <2>1. Held(m)' = Upstream(m)
    BY <1>0, <1>1, PeekDoes DEF Held
  <2>2. Upstream(m).status = "OK"
    BY <2>1 DEF HeldLive
  <2>3. UNCHANGED <<lost, age, suspended>> /\ age[m] >= Period /\ since < PollPeriod
    BY <1>0, <1>1, PeekDoes
  <2>4. \A i \in Inputs : UpTo(i)' = UpTo(i)
    BY <2>3 DEF UpTo, Lag, Late
  <2>5. lost <= UpTo(m)
    <3>1. CASE m = "rx"
      BY <2>2, <3>1, UpToNumbers DEF Upstream, Basis, LinkInv
    <3>2. CASE m = "mapping"
      BY <2>2, <2>3, <3>2, UpToNumbers, ReadIsRecent
         DEF Upstream, LossInv, ShownIsRecent, ShownLive, Inputs
    <3>3. CASE m \in {"control", "output"}
      BY <2>2, <2>3, <3>3, UpToNumbers, ReadIsRecent
         DEF Upstream, LossInv, ShownIsRecent, ShownLive, Inputs
    <3>4. QED
      BY <3>1, <3>2, <3>3
  <2>6. QED
    BY <1>0, <2>3, <2>4, <2>5, PipelineNumbers DEF Basis, PipelineTypeOK, ClocksOK
<1>2. CASE HeldLive(m) /\ Peeked(m)'
  <2>1. HeldBy(m, UpTo(m))
    BY <1>2 DEF LossInv, HeldIsRecent
  <2>2. MidPass(m) /\ MidPass(m)'
    BY <1>2 DEF HeldLive, Peeked, MidPass
  <2>3. QED
    BY <1>0, <1>2, <2>1, <2>2, HeldStays
<1>3. Peeked(m)'
  BY DEF HeldLive
<1>4. ~ Register(m) /\ ~ (m = "output" /\ LoadTrims) /\ ~ Ends(m)
  BY <1>0, <1>3, RegisterDoes, LoadTrimsDoes, EndsDoes DEF Peeked
<1>5. CASE m = "output" /\ PeekControl
  <2>1. Held(m)' = Held(m) /\ Peeked(m)
    BY <1>0, <1>5, PeekControlDoes DEF Held, Peeked, OutputInputs
  <2>2. QED
    BY <1>2, <1>3, <2>1 DEF HeldLive
<1>6. CASE Keeps(m)
  BY <1>2, <1>3, <1>6 DEF HeldLive, Held, Peeked, Keeps
<1>7. QED
  BY <1>0, <1>1, <1>4, <1>5, <1>6, StageSteps

LEMMA PitchIsRecentStep ==
  ASSUME Basis, Basis', LossInv, [Next]_vars
  PROVE  PitchIsRecent'
<1> SUFFICES ASSUME HeldPitch'
             PROVE  ~ Late("output")' => lost' + Period <= UpTo("pitch")' + age'["output"]
  BY DEF PitchIsRecent, HeldBy
<1>0. /\ "output" \in Stages /\ "pitch" \in Inputs /\ PipelineTypeOK
      /\ UpTo("pitch") \in Nat /\ UpTo("pitch")' \in Nat
      /\ lost' # 0 => UpTo("pitch") <= UpTo("pitch")'
  BY UpToNumbers, UpToGrows DEF Stages, Inputs, Basis
<1>1. pc'["output"] = "ready"
  BY DEF HeldPitch
<1>2. ~ Register("output") /\ ~ LoadTrims /\ ~ Ends("output") /\ ~ Peek("output")
  BY <1>0, <1>1, RegisterDoes, LoadTrimsDoes, EndsDoes, PeekDoes
<1>3. CASE PeekControl
  <2>1. /\ UNCHANGED <<lost, age, suspended>>
        /\ since < PollPeriod
        /\ pc["output"] = "peeked"
        /\ peeked'["output"].control = queue["control"]
    BY <1>0, <1>3, PeekControlDoes
  <2>2. ShownLive("control")
    BY <2>1 DEF HeldPitch, ShownLive
  <2>3. lost <= UpTo("pitch")
    BY <2>1, <2>2, UpToNumbers, ReadIsRecent DEF LossInv, ShownIsRecent, Inputs
  <2>4. age["output"] >= Period
    BY <1>0, <2>1 DEF Basis, TaskInv, MidPass
  <2>5. UpTo("pitch")' = UpTo("pitch")
    BY <2>1 DEF UpTo, Lag, Late
  <2>6. QED
    BY <1>0, <2>1, <2>3, <2>4, <2>5, PipelineNumbers DEF Basis, PipelineTypeOK, ClocksOK
<1>4. CASE Keeps("output")
  <2>1. HeldPitch /\ MidPass("output") /\ MidPass("output")'
    BY <1>1, <1>4 DEF HeldPitch, MidPass, Keeps
  <2>2. HeldBy("output", UpTo("pitch"))
    BY <2>1 DEF LossInv, PitchIsRecent
  <2>3. QED
    BY <1>0, <2>1, <2>2, HeldStays
<1>5. QED
  BY <1>0, <1>2, <1>3, <1>4, StageSteps

LEMMA ShownIsRecentStep ==
  ASSUME Basis, Basis', LossInv, [Next]_vars
  PROVE  ShownIsRecent'
<1> SUFFICES ASSUME NEW m \in {"rx", "mapping", "control"}, ShownLive(m)', lost' # 0
             PROVE  lost' <= UpTo(m)' + Slack + age'[m]
  <2>1. ASSUME NEW m \in {"rx", "mapping", "control"}, lost' = 0
        PROVE  lost' <= UpTo(m)' + Slack + age'[m]
    <3>1. m \in Inputs /\ m \in Stages
      BY DEF Inputs, Stages
    <3>2. UpTo(m)' \in Nat /\ age'[m] \in Nat
      BY <3>1, UpToGrows, PipelineNumbers DEF Basis, PipelineTypeOK, ClocksOK
    <3>3. QED
      BY <2>1, <3>2, PipelineNumbers
  <2>2. QED
    BY <2>1 DEF ShownIsRecent, ShownBy
<1>0. /\ m \in Stages /\ m \in Inputs /\ PipelineTypeOK
      /\ UpTo(m) \in Nat /\ UpTo(m)' \in Nat
      /\ lost' # 0 => UpTo(m) <= UpTo(m)'
  BY UpToGrows DEF Stages, Inputs, Basis
<1>1. pc[m] # "start"
  BY <1>0, LossClock DEF LossTicks
<1>2. CASE Ends(m)
  <2>1. queue'[m] = FrameOf(m) /\ pc[m] = "ready"
    BY <1>0, <1>2, EndsDoes
  <2>2. HeldLive(m)
    <3>1. CASE m = "control"
      <4>1. ControlOf(peeked["control"]).pitchActive
        BY <2>1, <3>1 DEF ShownLive, FrameOf
      <4>2. peeked["control"].status = "OK"
        BY <4>1, Zenon DEF ControlOf
      <4>3. QED
        BY <2>1, <3>1, <4>2 DEF HeldLive, Held, Peeked
    <3>2. CASE m # "control"
      BY <2>1, <3>2 DEF ShownLive, HeldLive, Held, Peeked, FrameOf, Mapped
    <3>3. QED
      BY <3>1, <3>2
  <2>3. HeldBy(m, UpTo(m))
    BY <2>2 DEF LossInv, HeldIsRecent
  <2>4. QED
    BY <1>0, <1>2, <2>3, PublishedIsRecent
<1>3. ASSUME ~ Ends(m), queue'[m] = queue[m] PROVE lost' <= UpTo(m)' + Slack + age'[m]
  <2>1. ShownLive(m)
    BY <1>3 DEF ShownLive
  <2>2. ShownBy(m, UpTo(m)) /\ age[m] < AgeCap
    BY <1>1, <2>1, LiveIsYoung DEF LossInv, ShownIsRecent
  <2>3. QED
    BY <1>0, <1>3, <2>2, ShownStays
<1>4. ~ Register(m)
  BY <1>0, <1>1, RegisterDoes
<1>5. LoadTrims \/ Peek(m) \/ PeekControl => queue'[m] = queue[m]
  BY DEF LoadTrims, Peek, PeekControl, mvars
<1>6. queue'[m] # Fallback[m]
  BY FallbackFrames DEF ShownLive, RxSilent, MappingSilent, ControlSilent
<1>7. QED
  BY <1>0, <1>2, <1>3, <1>4, <1>5, <1>6, StageSteps DEF Keeps

(* What output resolves is either what the slot then holds, or live.       *)
LEMMA OutputResolves ==
  ASSUME PipelineTypeOK, OutputPublish, NEW s \in Slots
  PROVE  /\ queue'["output"].servos[s] # Safe(s)' => s \in FixedSlots /\ HeldLive("output")
         /\ Safe(s)' # Safe(s) => HeldLive("output") \/ HeldPitch
         /\ Ends("output")
<1> DEFINE in == peeked["output"]
<1>1. Ends("output") /\ pc["output"] = "ready" /\ "output" \in Stages
  BY DEF OutputPublish, Ends, FrameOf, Stages
<1>2. queue'["output"].servos = Resolved(in)
  BY <1>1, EndsDoes DEF FrameOf
<1>3. lastGood'[s] = IF SourceValid(s, in) THEN Resolved(in)[s] ELSE lastGood[s]
  BY DEF OutputPublish
<1>4. ~ SourceValid(s, in) => Resolved(in)[s] = Substitute(s)
  BY DEF Resolved
<1>5. s # "S4" /\ SourceValid(s, in) => HeldLive("output")
  BY <1>1 DEF SourceValid, HeldLive, Held, Peeked
<1>6. s = "S4" /\ SourceValid(s, in) => HeldPitch
  BY <1>1 DEF SourceValid, HeldPitch
<1>7. s \in FixedSlots => s # "S4"
  BY DEF FixedSlots
<1> HIDE DEF in
<1>8. QED
  BY <1>1, <1>2, <1>3, <1>4, <1>5, <1>6, <1>7 DEF Safe, Substitute

(* A slot gets a new value to hold only while its source is recent.        *)
LEMMA NewHoldIsRecent ==
  ASSUME Basis, Basis', LossInv, [Next]_vars, NEW s \in Slots, Safe(s)' # Safe(s)
  PROVE  lost' <= UpTo("servo") /\ lost' = lost
<1>0. PipelineTypeOK /\ "output" \in Stages /\ UpTo("output") \in Nat /\ UpTo("pitch") \in Nat
      /\ Lag("control") \in Nat /\ lost \in Nat
  BY UpToNumbers, LagNumbers DEF Basis, Inputs, Stages
<1>1. OutputPublish
  BY PadsSteps DEF Safe
<1>2. Ends("output") /\ (HeldLive("output") \/ HeldPitch)
  BY <1>0, <1>1, OutputResolves
<1>3. lost' = lost
  BY <1>0, <1>2, EndsDoes
<1>4. UpTo("output") <= UpTo("pitch")
  BY <1>0, UpToNumbers, PipelineNumbers
<1>5. CASE HeldLive("output")
  <2>1. HeldBy("output", UpTo("output"))
    BY <1>5 DEF LossInv, HeldIsRecent
  <2>2. lost' <= UpTo("output") + Slack
    <3>1. UpTo("output") <= UpTo("output")
      BY <1>0
    <3>2. QED
      BY <1>0, <1>2, <2>1, <3>1, PublishedIsRecent
  <2>3. QED
    BY <1>0, <1>3, <1>4, <2>2, UpToNumbers, PipelineNumbers
<1>6. CASE HeldPitch
  <2>1. HeldBy("output", UpTo("pitch"))
    BY <1>6 DEF LossInv, PitchIsRecent
  <2>2. lost' <= UpTo("pitch") + Slack
    <3>1. UpTo("pitch") <= UpTo("pitch")
      BY <1>0
    <3>2. QED
      BY <1>0, <1>2, <2>1, <3>1, PublishedIsRecent
  <2>3. QED
    BY <1>3, <2>2, UpToNumbers
<1>7. QED
  BY <1>2, <1>5, <1>6

(* A late task has been late before, unless the history starts anew.       *)
LEMMA OnTimeBefore ==
  ASSUME Basis, [Next]_vars, lost' # 0, NEW m \in Stages, ~ Late(m)'
  PROVE  ~ Late(m) /\ pc[m] # "start"
BY LossClock DEF LossTicks

LEMMA SlotShownStep ==
  ASSUME Basis, Basis', LossInv, [Next]_vars
  PROVE  SlotShown'
<1>0. /\ "output" \in Stages /\ "output" \in Inputs /\ PipelineTypeOK
      /\ UpTo("output") \in Nat /\ UpTo("output")' \in Nat
      /\ lost' # 0 => UpTo("output") <= UpTo("output")'
      /\ age'["output"] \in Nat /\ lost' \in Nat
  BY UpToGrows, PipelineNumbers DEF Stages, Inputs, Basis, PipelineTypeOK, ClocksOK
<1> SUFFICES ASSUME ~ Late("output")', NEW s \in Slots,
                    queue'["output"].servos[s] # Safe(s)', lost' # 0
             PROVE  lost' <= UpTo("output")' + Slack + age'["output"]
  <2>1. lost' = 0 => lost' <= UpTo("output")' + Slack + age'["output"]
    BY <1>0, PipelineNumbers
  <2>2. QED
    BY <2>1 DEF SlotShown, ShownBy
<1>1. ~ Late("output") /\ pc["output"] # "start"
  BY <1>0, OnTimeBefore
<1>2. CASE Ends("output")
  <2>1. HeldLive("output")
    BY <1>0, <1>2, OutputEnds, OutputResolves
  <2>2. HeldBy("output", UpTo("output"))
    BY <2>1 DEF LossInv, HeldIsRecent
  <2>3. QED
    BY <1>0, <1>2, <2>2, PublishedIsRecent
<1>3. ASSUME ~ Ends("output"), queue'["output"] = queue["output"]
      PROVE  lost' <= UpTo("output")' + Slack + age'["output"]
  <2>1. lastGood' = lastGood
    BY <1>0, <1>3, PadsSteps, OutputResolves DEF Slots
  <2>2. queue["output"].servos[s] # Safe(s)
    BY <1>3, <2>1 DEF Safe
  <2>3. ShownBy("output", UpTo("output"))
    BY <1>1, <2>2 DEF LossInv, SlotShown
  <2>4. QED
    BY <1>0, <1>3, <2>3, ShownStays
<1>4. ~ Register("output")
  BY <1>0, <1>1, RegisterDoes
<1>5. LoadTrims \/ Peek("output") \/ PeekControl => queue'["output"] = queue["output"]
  BY DEF LoadTrims, Peek, PeekControl, mvars
<1>6. ~ (Overdue("output") /\ lost' = lost)
  BY <1>0, <1>1, PipelineNumbers
     DEF Overdue, Late, Basis, TaskInv, PipelineTypeOK, ClocksOK
<1>7. QED
  BY <1>0, <1>2, <1>3, <1>4, <1>5, <1>6, StageSteps DEF Keeps, Ends, Finish

LEMMA SlotHeldStep ==
  ASSUME Basis, Basis', LossInv, [Next]_vars
  PROVE  SlotHeld'
<1>0. /\ "servo" \in Stages /\ "servo" \in Inputs /\ PipelineTypeOK /\ "output" \in Stages
      /\ UpTo("servo") \in Nat /\ UpTo("servo")' \in Nat
      /\ lost' # 0 => UpTo("servo") <= UpTo("servo")'
      /\ age'["servo"] \in Nat /\ lost' \in Nat
  BY UpToGrows, PipelineNumbers DEF Stages, Inputs, Basis, PipelineTypeOK, ClocksOK
<1> SUFFICES ASSUME MidPass("servo")', ~ Late("output")', NEW s \in Slots,
                    peeked'["servo"].servos[s] # Safe(s)', ~ Late("servo")'
             PROVE  lost' + Period <= UpTo("servo")' + age'["servo"]
  BY DEF SlotHeld, HeldBy
<1>1. age'["servo"] >= Period
  BY <1>0 DEF Basis, TaskInv
<1>2. CASE lost' = 0
  BY <1>0, <1>1, <1>2, PipelineNumbers
<1>3. ASSUME lost' # 0, Safe(s)' # Safe(s)
      PROVE  lost' + Period <= UpTo("servo")' + age'["servo"]
  <2>1. lost' <= UpTo("servo")
    BY <1>3, NewHoldIsRecent
  <2>2. QED
    BY <1>0, <1>1, <1>3, <2>1, PipelineNumbers
<1>4. ASSUME lost' # 0, Safe(s)' = Safe(s), MidPass("servo"), peeked'["servo"] = peeked["servo"]
      PROVE  lost' + Period <= UpTo("servo")' + age'["servo"]
  <2>1. ~ Late("output")
    BY <1>0, <1>4, OnTimeBefore
  <2>2. HeldBy("servo", UpTo("servo"))
    BY <1>4, <2>1 DEF LossInv, SlotHeld
  <2>3. QED
    BY <1>0, <1>4, <2>2, HeldStays
<1>5. ASSUME lost' # 0, Safe(s)' = Safe(s), Peek("servo")
      PROVE  lost' + Period <= UpTo("servo")' + age'["servo"]
  <2>1. peeked'["servo"] = queue["output"] /\ UNCHANGED <<lost, age, suspended>>
    BY <1>0, <1>5, PeekDoes DEF Upstream
  <2>2. ~ Late("output")
    BY <1>0, <1>5, OnTimeBefore
  <2>3. ShownBy("output", UpTo("output"))
    BY <1>5, <2>1, <2>2 DEF LossInv, SlotShown
  <2>4. age["output"] <= Deadline /\ age["output"] \in Nat
    BY <1>0, <1>5, <2>1, <2>2, LagNumbers
  <2>5. UpTo("output") + Slack + Deadline <= UpTo("servo")
    <3>1. /\ Lag("control") \in Nat /\ Deadline <= Lag("control")
          /\ UpTo("output") \in Nat /\ UpTo("control") = UpTo("output")
      BY LagNumbers, UpToNumbers DEF Stages, Inputs
    <3>2. UpTo("servo") = UpTo("output") + Slack + Lag("control") + Slack
      BY <3>1, UpToNumbers
    <3>3. QED
      BY <3>1, <3>2, PipelineNumbers
  <2>6. lost <= UpTo("servo")
    <3>1. lost <= UpTo("output") + Slack + age["output"] /\ UpTo("output") \in Nat /\ lost \in Nat
      BY <2>3, UpToNumbers, LagNumbers DEF ShownBy, Inputs, Stages
    <3>2. QED
      BY <1>0, <2>4, <2>5, <3>1, PipelineNumbers
  <2>7. QED
    BY <1>0, <1>1, <1>5, <2>1, <2>6, PipelineNumbers
<1>6. ~ Register("servo") /\ ~ Ends("servo")
  BY <1>0, RegisterDoes, EndsDoes DEF MidPass
<1>7. Keeps("servo") => MidPass("servo") /\ peeked'["servo"] = peeked["servo"]
  BY DEF Keeps, MidPass
<1>8. QED
  BY <1>0, <1>2, <1>3, <1>4, <1>5, <1>6, <1>7, StageSteps

LEMMA PadShownStep ==
  ASSUME Basis, Basis', LossInv, [Next]_vars
  PROVE  PadShown'
<1>0. /\ "servo" \in Stages /\ "servo" \in Inputs /\ PipelineTypeOK /\ "output" \in Stages
      /\ UpTo("servo") \in Nat /\ UpTo("servo")' \in Nat
      /\ lost' # 0 => UpTo("servo") <= UpTo("servo")'
      /\ age'["servo"] \in Nat /\ lost' \in Nat
  BY UpToGrows, PipelineNumbers DEF Stages, Inputs, Basis, PipelineTypeOK, ClocksOK
<1> SUFFICES ASSUME ~ Late("output")', ~ Late("servo")', NEW s \in Slots,
                    pwm'[s] # Safe(s)'
             PROVE  lost' <= UpTo("servo")' + Slack + age'["servo"]
  BY DEF PadShown, ShownBy
<1>1. CASE lost' = 0
  BY <1>0, <1>1, PipelineNumbers
<1>2. ASSUME lost' # 0, Safe(s)' # Safe(s)
      PROVE  lost' <= UpTo("servo")' + Slack + age'["servo"]
  <2>1. lost' <= UpTo("servo")
    BY <1>2, NewHoldIsRecent
  <2>2. QED
    BY <1>0, <1>2, <2>1, PipelineNumbers
<1>3. ASSUME lost' # 0, Safe(s)' = Safe(s)
      PROVE  lost' <= UpTo("servo")' + Slack + age'["servo"]
  <2>1. ~ Late("output") /\ ~ Late("servo")
    BY <1>0, <1>3, OnTimeBefore
  <2>2. CASE Ends("servo")
    <3>1. pwm' = peeked["servo"].servos
      BY <1>0, <2>2, ServoEnds DEF ServoPublish
    <3>2. MidPass("servo")
      BY <1>0, <2>2, EndsDoes DEF MidPass
    <3>3. HeldBy("servo", UpTo("servo"))
      BY <1>3, <2>1, <3>1, <3>2 DEF LossInv, SlotHeld
    <3>4. QED
      BY <1>0, <1>3, <2>2, <3>3, PublishedIsRecent
  <2>3. CASE ~ Ends("servo")
    <3>1. pwm' = pwm
      BY <2>3, PadsSteps DEF ServoPublish, Ends, FrameOf
    <3>2. ShownBy("servo", UpTo("servo"))
      BY <1>3, <2>1, <3>1 DEF LossInv, PadShown
    <3>3. QED
      BY <1>0, <1>3, <2>3, <3>2, ShownStays
  <2>4. QED
    BY <2>2, <2>3
<1>4. QED
  BY <1>1, <1>2, <1>3

LEMMA LossStep ==
  ASSUME Basis, LossInv, [Next]_vars
  PROVE  LossInv'
BY BasisStep, HeldIsRecentStep, PitchIsRecentStep, ShownIsRecentStep, SlotShownStep,
   SlotHeldStep, PadShownStep DEF LossInv

LEMMA LossInit == Init => LossInv
<1> SUFFICES ASSUME Init PROVE LossInv
  OBVIOUS
<1>0. Basis
  BY BasisInit
<1>1. \A m \in Stages : ~ MidPass(m)
  BY DEF Init, MidPass
<1>2. ~ MidPass("rx") /\ ~ MidPass("mapping") /\ ~ MidPass("control") /\ ~ MidPass("output")
      /\ ~ MidPass("servo") /\ pc["output"] # "ready"
  BY <1>1 DEF Stages, MidPass
<1>3. ASSUME NEW m \in Stages, NEW b \in Nat PROVE ShownBy(m, b)
  BY <1>0, <1>3, LagNumbers, PipelineNumbers DEF Init, ShownBy
<1>4. HeldIsRecent /\ PitchIsRecent /\ SlotHeld
  BY <1>2 DEF HeldIsRecent, PitchIsRecent, SlotHeld, HeldLive, HeldPitch, Peeked, MidPass
<1>5. ShownIsRecent /\ SlotShown /\ PadShown
  BY <1>0, <1>3, UpToNumbers DEF ShownIsRecent, SlotShown, PadShown, Stages, Inputs
<1>6. QED
  BY <1>4, <1>5 DEF LossInv

THEOREM LossHolds == Spec => [](Basis /\ LossInv)
<1>1. Init => Basis /\ LossInv
  BY BasisInit, LossInit
<1>2. Basis /\ LossInv /\ [Next]_vars => (Basis /\ LossInv)'
  BY BasisStep, LossStep
<1>3. QED
  BY <1>1, <1>2, PTL DEF Spec

(* LossBound is the way of a live value from the receiver to the pads.     *)
LEMMA LossBoundCovers ==
  ASSUME Basis
  PROVE  /\ LossBound \in Nat
         /\ UpTo("servo") \in Nat
         /\ UpTo("servo") + Slack + Deadline <= LossBound
<1>1. ASSUME NEW m \in Stages PROVE Lag(m) \in Nat /\ Reach(m) \in Nat /\ Lag(m) <= Reach(m)
  BY PipelineNumbers DEF Lag, Late, Reach
<1>2. /\ Lag("rx") \in Nat /\ Reach("rx") \in Nat /\ Lag("rx") <= Reach("rx")
      /\ Lag("mapping") \in Nat /\ Reach("mapping") \in Nat /\ Lag("mapping") <= Reach("mapping")
      /\ Lag("control") \in Nat /\ Reach("control") \in Nat /\ Lag("control") <= Reach("control")
  BY <1>1 DEF Stages
<1>3. QED
  BY <1>2, PipelineNumbers DEF UpTo, LossBound

(* A lost link reaches the pads, however the tasks are scheduled, whatever *)
(* the sticks said, whichever trims are set meanwhile and however often a  *)
(* task before output gets stuck: after LossBound, counted anew when a     *)
(* late task comes back, every pad carries its slot's failsafe value.      *)
THEOREM LossReachesServos == Spec => []FailsafeReachesServos
<1>1. Basis /\ LossInv => FailsafeReachesServos
  <2> SUFFICES ASSUME Basis, LossInv, lost > LossBound,
                      suspended \cap {"output", "servo"} = {},
                      NEW s \in Slots, pwm[s] # Safe(s)
               PROVE  FALSE
    BY DEF FailsafeReachesServos
  <2>1. ~ Late("output") /\ ~ Late("servo")
    BY DEF Late
  <2>2. ShownBy("servo", UpTo("servo"))
    BY <2>1 DEF LossInv, PadShown
  <2>3. LossBound \in Nat /\ lost \in Nat /\ age["servo"] \in Nat
    BY LossBoundCovers, LagNumbers DEF Stages
  <2>4. age["servo"] <= Deadline
    BY <2>1, <2>3, LagNumbers DEF Stages
  <2>5. QED
    BY <2>2, <2>3, <2>4, LossBoundCovers, PipelineNumbers DEF ShownBy
<1>2. QED
  BY <1>1, LossHolds, PTL

(* Once it has, no pad moves again before the link or a stuck task is      *)
(* back, whichever trims are set meanwhile: what servo still holds are the *)
(* values that the slots hold, and those are pulses, not stick values.     *)
THEOREM HeldServosStayPut == Spec => HoldStaysPut
<1>1. Basis /\ LossInv /\ [Next]_vars =>
        [lost > LossBound /\ suspended \cap {"output", "servo"} = {} => pwm' = pwm]_vars
  <2> SUFFICES ASSUME Basis, LossInv, [Next]_vars, lost > LossBound,
                      suspended \cap {"output", "servo"} = {}, pwm' # pwm
               PROVE  FALSE
    OBVIOUS
  <2>1. ServoPublish
    BY PadsSteps
  <2>2. PipelineTypeOK /\ pc["servo"] = "ready" /\ MidPass("servo")
    BY <2>1 DEF Basis, ServoPublish, Finish, MidPass
  <2>3. ~ Late("output") /\ ~ Late("servo")
    BY DEF Late
  <2>4. LossBound \in Nat /\ UpTo("servo") \in Nat /\ lost \in Nat /\ age["servo"] \in Nat
    BY LossBoundCovers, LagNumbers DEF Stages
  <2>5. age["servo"] <= Deadline
    BY <2>3, <2>4, LagNumbers DEF Stages
  <2>6. ASSUME NEW s \in Slots PROVE peeked["servo"].servos[s] = pwm[s]
    <3>1. peeked["servo"].servos[s] = Safe(s)
      <4>1. ~ HeldBy("servo", UpTo("servo"))
        BY <2>3, <2>4, <2>5, LossBoundCovers, PipelineNumbers DEF HeldBy
      <4>2. QED
        BY <2>2, <2>3, <4>1 DEF LossInv, SlotHeld
    <3>2. pwm[s] = Safe(s)
      <4>1. ~ ShownBy("servo", UpTo("servo"))
        BY <2>4, <2>5, LossBoundCovers, PipelineNumbers DEF ShownBy
      <4>2. QED
        BY <2>3, <4>1 DEF LossInv, PadShown
    <3>3. QED
      BY <3>1, <3>2
  <2>7. peeked["servo"].servos \in [Slots -> Pulses] /\ pwm \in [Slots -> Pulses]
    BY <2>2 DEF PipelineTypeOK, PassesOK, PadsOK, OutputFrames
  <2>8. peeked["servo"].servos = pwm
    BY <2>6, <2>7
  <2>9. QED
    BY <2>1, <2>8 DEF ServoPublish
<1>2. QED
  BY <1>1, LossHolds, PTL DEF Spec, HoldStaysPut

-----------------------------------------------------------------------------
(* Calm: nothing that was decided before the last change is older than the *)
(* way it has come.  No task is late here, so the bounds are constants.    *)

\* How long a task can show a frame after it was due to be replaced.
Stride == Slack + Deadline

CalmUpTo(i) ==
  CASE i = "rx" -> 0
    [] i = "mapping" -> Stride
    [] i \in {"control", "output"} -> 2 * Stride
    [] i = "pitch" -> 3 * Stride
    [] i = "servo" -> 4 * Stride

HeldSince(m, b) == settled + Period <= b + age[m]
ShownSince(m, b) == settled <= b + Slack + age[m]

\* What a task should hold and show for the link as it is.
Wanted(m) == IF m \in {"rx", "mapping"} THEN link ELSE Mapped(link)
Result(m) ==
  CASE m = "rx" -> link
    [] m = "mapping" -> Mapped(link)
    [] m = "control" -> ControlOf(Mapped(link))
CalledFor(servos) == \A s \in Slots : servos[s] = Pulse(link.raw, stored[s])

(* A pass that is under way in calm works with the trims as they are.      *)
FreshTrims == MidPass("output") /\ slotTrim # stored => settled = 0

StaleHeld ==
  \A m \in {"rx", "mapping", "control", "output"} :
    Peeked(m) /\ Held(m) # Wanted(m) => HeldSince(m, CalmUpTo(m))

StalePitch ==
  pc["output"] = "ready" /\ peeked["output"].control # Result("control") =>
    HeldSince("output", CalmUpTo("pitch"))

StaleShown ==
  \A m \in {"rx", "mapping", "control"} :
    queue[m] # Result(m) => ShownSince(m, CalmUpTo(m))

StaleSlots ==
  link.status = "OK" /\ ~ CalledFor(queue["output"].servos) =>
    ShownSince("output", CalmUpTo("pitch"))

StaleServo ==
  link.status = "OK" /\ MidPass("servo") /\ ~ CalledFor(peeked["servo"].servos) =>
    HeldSince("servo", CalmUpTo("servo"))

StalePads ==
  link.status = "OK" /\ ~ CalledFor(pwm) => ShownSince("servo", CalmUpTo("servo"))

CalmInv ==
  /\ FreshTrims
  /\ StaleHeld
  /\ StalePitch
  /\ StaleShown
  /\ StaleSlots
  /\ StaleServo
  /\ StalePads

LEMMA CalmNumbers ==
  /\ Stride \in Nat
  /\ CalmUpTo("rx") = 0
  /\ CalmUpTo("mapping") = Stride
  /\ CalmUpTo("control") = 2 * Stride
  /\ CalmUpTo("output") = 2 * Stride
  /\ CalmUpTo("pitch") = 3 * Stride
  /\ CalmUpTo("servo") = 4 * Stride
  /\ \A i \in Inputs : CalmUpTo(i) \in Nat
<1>1. Stride \in Nat
  BY PipelineNumbers DEF Stride
<1>2. QED
  BY <1>1 DEF CalmUpTo, Inputs

(* While calm is counted link and trims stay, every task runs on time and no    *)
(* queue is overwritten by the supervisor.                                 *)
CalmTicks(d) ==
  /\ settled' <= settled + d
  /\ link' = link
  /\ stored' = stored
  /\ \A m \in Stages : /\ pc[m] # "start"
                       /\ age[m] <= Deadline
                       /\ age'[m] = age[m] + d \/ Ends(m)

LEMMA CalmClock ==
  ASSUME Basis, [Next]_vars, settled' # 0
  PROVE  \E d \in {0, 1} : CalmTicks(d)
<1> USE PipelineNumbers DEF Basis, PipelineTypeOK, ClocksOK, PassesOK, TaskInv
<1> DEFINE Steady == /\ settled' = settled
                     /\ link' = link
                     /\ stored' = stored
                     /\ \A m \in Stages : age'[m] = age[m] \/ Ends(m)
<1>0. Steady => CalmTicks(0)
  <2> SUFFICES ASSUME Steady PROVE CalmTicks(0)
    OBVIOUS
  <2>1. settled' <= settled + 0 /\ settled # 0
    OBVIOUS
  <2>2. ASSUME NEW m \in Stages
        PROVE  pc[m] # "start" /\ age[m] <= Deadline /\ (age'[m] = age[m] => age'[m] = age[m] + 0)
    BY <2>1
  <2>3. QED
    BY <2>1, <2>2 DEF CalmTicks
<1>1. ASSUME NEW m \in Stages, Register(m) PROVE FALSE
  BY <1>1 DEF Register
<1>2. ASSUME NEW m \in Stages, Peek(m) PROVE Steady
  BY <1>2 DEF Peek, mvars, trimVars
<1>3. ASSUME NEW m \in Stages, Suspend(m) PROVE Steady
  BY <1>3 DEF Suspend, mvars, trimVars
<1>4. ASSUME NEW m \in Stages, Resume(m) PROVE Steady
  BY <1>4 DEF Resume, mvars, trimVars
<1>5. ASSUME PeekControl PROVE Steady
  BY <1>5 DEF PeekControl, mvars, trimVars
<1>6. ASSUME NEW m \in Stages, Ends(m) PROVE Steady
  <2>1. /\ settled' = settled /\ link' = link /\ stored' = stored
        /\ age' = [age EXCEPT ![m] = 0]
    BY <1>6 DEF Ends, Finish, trimVars
  <2>2. QED
    BY <1>6, <2>1
<1>7. ASSUME PipelineSweep PROVE Steady
  BY <1>7 DEF PipelineSweep, Sweep, stageVars, trimVars
<1>8. ASSUME PipelineTick PROVE CalmTicks(1)
  <2>1. settled' <= settled + 1 /\ link' = link /\ stored' = stored /\ suspended = {}
    BY <1>8 DEF PipelineTick, Capped, stageVars, trimVars
  <2>2. ASSUME NEW m \in Stages
        PROVE  pc[m] # "start" /\ age[m] <= Deadline /\ age'[m] = age[m] + 1
    <3>1. /\ OnSchedule(m)
          /\ age'[m] = (IF m \in watched THEN Older(age[m]) ELSE age[m])
      BY <1>8 DEF PipelineTick, Tick
    <3>2. pc[m] # "start" /\ age[m] < Deadline
      BY <2>1, <3>1 DEF OnSchedule
    <3>3. QED
      BY <3>1, <3>2 DEF Older
  <2>3. QED
    BY <2>1, <2>2 DEF CalmTicks
<1>9. ASSUME NEW l \in Links, LinkChanges(l) PROVE FALSE
  BY <1>9 DEF LinkChanges
<1>10. ASSUME UNCHANGED vars PROVE Steady
  BY <1>10 DEF vars, mvars, stageVars, trimVars
<1>11. ASSUME RxPublish \/ MappingPublish \/ ControlPublish \/ OutputPublish \/ ServoPublish
       PROVE  Steady
  <2>1. \E m \in Stages : Ends(m)
    BY <1>11 DEF RxPublish, MappingPublish, ControlPublish, OutputPublish, ServoPublish,
                 Ends, FrameOf, ControlOf, Stages
  <2>2. QED
    BY <1>6, <2>1
<1>12. ASSUME LoadTrims PROVE Steady
  BY <1>12 DEF LoadTrims, mvars
<1>13. ASSUME NEW s \in Slots, NEW t \in SlotTrims[s], SetTrim(s, t) PROVE FALSE
  BY <1>13 DEF SetTrim
<1>14. Steady \/ PipelineTick
  <2> HIDE DEF Steady
  <2>1. QED
    BY <1>1, <1>2, <1>3, <1>4, <1>5, <1>7, <1>9, <1>10, <1>11, <1>12, <1>13 DEF Next
<1>15. CalmTicks(0) \/ CalmTicks(1)
  BY <1>0, <1>8, <1>14
<1>16. QED
  BY <1>15

LEMMA CalmKeepsQueues ==
  ASSUME Basis, [Next]_vars, settled' # 0, NEW m \in Stages
  PROVE  ~ Register(m) /\ ~ Overdue(m) /\ link' = link /\ stored' = stored
<1>1. PICK d \in {0, 1} : CalmTicks(d)
  BY CalmClock
<1>2. QED
  BY <1>1, PipelineNumbers
     DEF CalmTicks, Register, Overdue, Basis, PipelineTypeOK, ClocksOK

(* What was decided before goes the same way as a live value: held for a   *)
(* pass, published at its end, shown until the next one.                   *)
LEMMA StaleStays ==
  ASSUME Basis, Basis', [Next]_vars, NEW m \in Stages, MidPass(m), MidPass(m)',
         NEW b \in Nat, HeldSince(m, b)
  PROVE  settled' + Period <= b + age'[m]
<1>1. /\ age'[m] >= Period
      /\ age'[m] \in Nat /\ settled' \in Nat /\ age[m] \in Nat /\ settled \in Nat
  BY PipelineNumbers DEF Basis, TaskInv, PipelineTypeOK, ClocksOK
<1>2. CASE settled' = 0
  BY <1>1, <1>2, PipelineNumbers
<1>3. CASE settled' # 0
  <2>1. PICK d \in {0, 1} : CalmTicks(d)
    BY <1>3, CalmClock
  <2>2. ~ Ends(m)
    BY EndsDoes DEF MidPass, Basis
  <2>3. age'[m] = age[m] + d /\ settled' <= settled + d
    BY <2>1, <2>2 DEF CalmTicks
  <2>4. QED
    BY <1>1, <2>3, PipelineNumbers DEF HeldSince
<1>4. QED
  BY <1>2, <1>3

LEMMA StaleRemains ==
  ASSUME Basis, Basis', [Next]_vars, NEW m \in Stages, ~ Ends(m),
         NEW b \in Nat, settled' # 0 => ShownSince(m, b)
  PROVE  settled' <= b + Slack + age'[m]
<1>1. age'[m] \in Nat /\ settled' \in Nat /\ age[m] \in Nat /\ settled \in Nat
  BY PipelineNumbers DEF Basis, PipelineTypeOK, ClocksOK
<1>2. CASE settled' = 0
  BY <1>1, <1>2, PipelineNumbers
<1>3. CASE settled' # 0
  <2>1. PICK d \in {0, 1} : CalmTicks(d)
    BY <1>3, CalmClock
  <2>2. age'[m] = age[m] + d /\ settled' <= settled + d
    BY <2>1 DEF CalmTicks
  <2>3. QED
    BY <1>1, <1>3, <2>2, PipelineNumbers DEF ShownSince
<1>4. QED
  BY <1>2, <1>3

LEMMA StalePublished ==
  ASSUME Basis, Basis', [Next]_vars, NEW m \in Stages, Ends(m),
         NEW b \in Nat, settled' # 0 => HeldSince(m, b)
  PROVE  settled' <= b + Slack + age'[m]
<1>1. /\ age'[m] \in Nat /\ settled' \in Nat /\ age[m] \in Nat /\ settled \in Nat
      /\ settled' = settled
  BY EndsDoes, PipelineNumbers DEF Basis, PipelineTypeOK, ClocksOK
<1>2. CASE settled' = 0
  BY <1>1, <1>2, PipelineNumbers
<1>3. CASE settled' # 0
  <2>1. age[m] <= Deadline
    BY <1>1, <1>3 DEF Basis, TaskInv
  <2>2. QED
    BY <1>1, <1>3, <2>1, PipelineNumbers DEF HeldSince
<1>4. QED
  BY <1>2, <1>3

LEMMA StaleRead ==
  ASSUME Basis, Basis', [Next]_vars, NEW m \in Stages, NEW n \in Stages,
         UNCHANGED <<age, settled>>, MidPass(n)',
         NEW b \in Nat, settled' # 0 => ShownSince(m, b)
  PROVE  settled' + Period <= b + Stride + age'[n]
<1>1. /\ age[n] \in Nat /\ age'[n] >= Period
      /\ age[m] \in Nat /\ settled \in Nat
  BY PipelineNumbers DEF Basis, TaskInv, PipelineTypeOK, ClocksOK
<1>2. CASE settled = 0
  BY <1>1, <1>2, CalmNumbers, PipelineNumbers
<1>3. CASE settled # 0
  <2>1. age[m] <= Deadline
    BY <1>3 DEF Basis, TaskInv
  <2>2. QED
    BY <1>1, <1>3, <2>1, PipelineNumbers DEF ShownSince, Stride
<1>4. QED
  BY <1>2, <1>3

(* When nothing has been calm for a tick, all that is claimed is trivial.  *)
LEMMA FreshHolds ==
  ASSUME Basis, settled = 0, NEW m \in Stages, NEW b \in Nat
  PROVE  ShownSince(m, b) /\ (MidPass(m) => HeldSince(m, b))
BY PipelineNumbers DEF ShownSince, HeldSince, Basis, TaskInv, PipelineTypeOK, ClocksOK

LEMMA FreshHoldsNext ==
  ASSUME Basis', settled' = 0, NEW m \in Stages, NEW b \in Nat
  PROVE  /\ settled' <= b + Slack + age'[m]
         /\ MidPass(m)' => settled' + Period <= b + age'[m]
BY PipelineNumbers DEF Basis, TaskInv, PipelineTypeOK, ClocksOK

(* A set starts calm anew, and so does time that passes over a pass.       *)
LEMMA FreshTrimsStep ==
  ASSUME Basis, CalmInv, [Next]_vars
  PROVE  FreshTrims'
<1> SUFFICES ASSUME MidPass("output")', slotTrim' # stored', settled' # 0
             PROVE  FALSE
  BY DEF FreshTrims
<1>0. PipelineTypeOK /\ "output" \in Stages
  BY DEF Basis, Stages
<1>1. ~ LoadTrims
  BY <1>0, LoadTrimsDoes
<1>2. stored' = stored /\ ~ Register("output") /\ ~ Ends("output")
  BY <1>0, CalmKeepsQueues, EndsDoes DEF MidPass
<1>3. UNCHANGED trimVars
  <2>1. ASSUME NEW s \in Slots, NEW t \in SlotTrims[s], SetTrim(s, t) PROVE FALSE
    BY <2>1 DEF SetTrim
  <2>2. QED
    BY <1>1, <2>1, TrimsSteps
<1>4. MidPass("output")
  BY <1>0, <1>1, <1>2, PeekDoes, PeekControlDoes, StageSteps DEF Keeps, MidPass
<1>5. settled = 0
  BY <1>3, <1>4 DEF CalmInv, FreshTrims, trimVars
<1>6. PipelineTick
  BY <1>1, <1>5 DEF Next, Register, Peek, Suspend, Resume, PeekControl, RxPublish,
     MappingPublish, ControlPublish, OutputPublish, ServoPublish, Finish, PipelineSweep,
     LinkChanges, SetTrim, vars
<1>7. "output" \in suspended
  BY <1>0, <1>4, <1>6 DEF PipelineTick, OnSchedule
<1>8. QED
  BY <1>6, <1>7 DEF PipelineTick

LEMMA StaleHeldStep ==
  ASSUME Basis, Basis', CalmInv, [Next]_vars
  PROVE  StaleHeld'
<1> SUFFICES ASSUME NEW m \in {"rx", "mapping", "control", "output"},
                    Peeked(m)', Held(m)' # Wanted(m)', settled' # 0
             PROVE  settled' + Period <= CalmUpTo(m) + age'[m]
  <2>1. ASSUME NEW m \in {"rx", "mapping", "control", "output"}, settled' = 0, MidPass(m)'
        PROVE  settled' + Period <= CalmUpTo(m) + age'[m]
    BY <2>1, FreshHoldsNext, CalmNumbers DEF Stages, Inputs
  <2>2. \A m \in Stages : Peeked(m)' => MidPass(m)'
    BY DEF Peeked, MidPass
  <2>3. QED
    BY <2>1, <2>2 DEF StaleHeld, HeldSince, CalmUpTo, Stages
<1>0. m \in Stages /\ CalmUpTo(m) \in Nat /\ PipelineTypeOK /\ MidPass(m)'
  BY CalmNumbers DEF Stages, Inputs, Basis, Peeked, MidPass
<1>1. ~ Register(m) /\ link' = link
  BY <1>0, CalmKeepsQueues
<1>2. Wanted(m)' = Wanted(m)
  BY <1>1 DEF Wanted
<1>3. CASE Peek(m)
  <2>1. Held(m)' = Upstream(m) /\ UNCHANGED <<age, settled>>
    BY <1>0, <1>3, PeekDoes DEF Held
  <2>2. CASE m = "rx"
    BY <1>2, <2>1, <2>2 DEF Upstream, Wanted
  <2>3. CASE m = "mapping"
    <3>1. ShownSince("rx", 0)
      BY <1>2, <2>1, <2>3, CalmNumbers DEF Upstream, Wanted, Result, CalmInv, StaleShown
    <3>2. settled' + Period <= 0 + Stride + age'[m]
      BY <1>0, <2>1, <3>1, StaleRead DEF Stages
    <3>3. QED
      BY <2>3, <3>2, CalmNumbers
  <2>4. CASE m \in {"control", "output"}
    <3>1. ShownSince("mapping", Stride)
      BY <1>2, <2>1, <2>4, CalmNumbers DEF Upstream, Wanted, Result, CalmInv, StaleShown
    <3>2. settled' + Period <= Stride + Stride + age'[m]
      BY <1>0, <2>1, <3>1, StaleRead, CalmNumbers DEF Stages
    <3>3. QED
      BY <2>4, <3>2, CalmNumbers
  <2>5. QED
    BY <2>2, <2>3, <2>4
<1>4. ASSUME Peeked(m), Held(m)' = Held(m)
      PROVE  settled' + Period <= CalmUpTo(m) + age'[m]
  <2>1. HeldSince(m, CalmUpTo(m))
    BY <1>2, <1>4 DEF CalmInv, StaleHeld
  <2>2. MidPass(m)
    BY <1>4 DEF Peeked, MidPass
  <2>3. QED
    BY <1>0, <2>1, <2>2, StaleStays
<1>5. ~ Ends(m) /\ ~ (m = "output" /\ LoadTrims)
  BY <1>0, EndsDoes, LoadTrimsDoes DEF Peeked
<1>6. CASE m = "output" /\ PeekControl
  BY <1>0, <1>4, <1>6, PeekControlDoes DEF Held, Peeked
<1>7. CASE Keeps(m)
  BY <1>4, <1>7 DEF Keeps, Peeked, Held
<1>8. QED
  BY <1>0, <1>1, <1>3, <1>5, <1>6, <1>7, StageSteps

LEMMA StalePitchStep ==
  ASSUME Basis, Basis', CalmInv, [Next]_vars
  PROVE  StalePitch'
<1>0. /\ "output" \in Stages /\ "control" \in Stages /\ PipelineTypeOK
      /\ CalmUpTo("pitch") = CalmUpTo("control") + Stride
      /\ CalmUpTo("pitch") \in Nat /\ CalmUpTo("control") \in Nat
  BY CalmNumbers DEF Stages, Inputs, Basis
<1> SUFFICES ASSUME pc'["output"] = "ready", settled' # 0,
                    peeked'["output"].control # Result("control")'
             PROVE  settled' + Period <= CalmUpTo("pitch") + age'["output"]
  <2>1. pc'["output"] = "ready" => MidPass("output")'
    BY DEF MidPass
  <2>2. pc'["output"] = "ready" /\ settled' = 0 =>
          settled' + Period <= CalmUpTo("pitch") + age'["output"]
    BY <1>0, <2>1, FreshHoldsNext
  <2>3. QED
    BY <2>2 DEF StalePitch, HeldSince, CalmUpTo
<1>1. /\ link' = link
      /\ ~ Register("output") /\ ~ LoadTrims /\ ~ Ends("output") /\ ~ Peek("output")
  BY <1>0, CalmKeepsQueues, LoadTrimsDoes, EndsDoes, PeekDoes
<1>2. Result("control")' = Result("control")
  BY <1>1 DEF Result
<1>3. CASE PeekControl
  <2>1. peeked'["output"].control = queue["control"] /\ UNCHANGED <<age, settled>>
    BY <1>0, <1>3, PeekControlDoes
  <2>2. ShownSince("control", CalmUpTo("control"))
    BY <1>2, <2>1 DEF CalmInv, StaleShown
  <2>3. MidPass("output")'
    BY DEF MidPass
  <2>4. QED
    BY <1>0, <2>1, <2>2, <2>3, StaleRead
<1>4. CASE Keeps("output")
  <2>1. /\ pc["output"] = "ready" /\ peeked["output"].control # Result("control")
        /\ MidPass("output") /\ MidPass("output")'
    BY <1>2, <1>4 DEF Keeps, MidPass
  <2>2. HeldSince("output", CalmUpTo("pitch"))
    BY <2>1 DEF CalmInv, StalePitch
  <2>3. QED
    BY <1>0, <2>1, <2>2, StaleStays
<1>5. QED
  BY <1>0, <1>1, <1>3, <1>4, StageSteps

(* In calm a queue changes only at the end of its task's pass.             *)
LEMMA CalmQueue ==
  ASSUME Basis, [Next]_vars, settled' # 0, NEW m \in Stages, ~ Ends(m)
  PROVE  queue'[m] = queue[m]
<1>1. ~ Register(m) /\ ~ Overdue(m) /\ PipelineTypeOK
  BY CalmKeepsQueues DEF Basis
<1>2. LoadTrims \/ Peek(m) \/ PeekControl => queue'[m] = queue[m]
  BY DEF LoadTrims, Peek, PeekControl, mvars
<1>3. QED
  BY <1>1, <1>2, StageSteps DEF Keeps

LEMMA StaleShownStep ==
  ASSUME Basis, Basis', CalmInv, [Next]_vars
  PROVE  StaleShown'
<1> SUFFICES ASSUME NEW m \in {"rx", "mapping", "control"},
                    queue'[m] # Result(m)', settled' # 0
             PROVE  settled' <= CalmUpTo(m) + Slack + age'[m]
  <2>1. ASSUME NEW m \in {"rx", "mapping", "control"}, settled' = 0
        PROVE  settled' <= CalmUpTo(m) + Slack + age'[m]
    BY <2>1, FreshHoldsNext, CalmNumbers DEF Stages, Inputs
  <2>2. QED
    BY <2>1 DEF StaleShown, ShownSince, CalmUpTo
<1>0. m \in Stages /\ CalmUpTo(m) \in Nat /\ PipelineTypeOK
  BY CalmNumbers DEF Stages, Inputs, Basis
<1>1. link' = link
  BY <1>0, CalmKeepsQueues
<1>2. Result(m)' = Result(m)
  BY <1>1 DEF Result
<1>3. CASE Ends(m)
  <2>1. queue'[m] = FrameOf(m) /\ Peeked(m) /\ Held(m) = peeked[m]
    BY <1>0, <1>3, EndsDoes DEF Peeked, Held
  <2>2. Held(m) # Wanted(m)
    BY <1>2, <2>1 DEF FrameOf, Result, Wanted
  <2>3. HeldSince(m, CalmUpTo(m))
    BY <2>1, <2>2 DEF CalmInv, StaleHeld
  <2>4. QED
    BY <1>0, <1>3, <2>3, StalePublished
<1>4. CASE ~ Ends(m)
  <2>1. ShownSince(m, CalmUpTo(m))
    BY <1>0, <1>2, <1>4, CalmQueue DEF CalmInv, StaleShown
  <2>2. QED
    BY <1>0, <1>4, <2>1, StaleRemains
<1>5. QED
  BY <1>3, <1>4

(* What output makes of the frames that the link calls for.                *)
LEMMA CalledForResolves ==
  ASSUME link.status = "OK", slotTrim = stored, NEW in,
         in.mapping = Mapped(link), in.control = ControlOf(Mapped(link))
  PROVE  CalledFor(Resolved(in))
<1> SUFFICES ASSUME NEW s \in Slots
             PROVE  Resolved(in)[s] = Pulse(link.raw, stored[s])
  BY DEF CalledFor
<1>1. Mapped(link).status = "OK" /\ Mapped(link).raw = link.raw
      /\ Mapped(link).pitchTarget = link.raw
  BY DEF Mapped
<1>2. SourceRaw(s, in) = link.raw
  BY <1>1 DEF SourceRaw, ControlOf
<1>3. SourceValid(s, in)
  <2>1. in.mapping.status = "OK"
    BY <1>1
  <2>2. in.control.pitchActive
    <3>1. ASSUME NEW f, f.status = "OK" PROVE ControlOf(f).pitchActive
      BY <3>1, Zenon DEF ControlOf
    <3>2. ControlOf(Mapped(link)).pitchActive
      BY <1>1, <3>1
    <3>3. QED
      BY <3>2, Zenon
  <2>3. QED
    BY <2>1, <2>2 DEF SourceValid
<1>4. QED
  BY <1>2, <1>3 DEF Resolved

LEMMA StaleSlotsStep ==
  ASSUME Basis, Basis', CalmInv, [Next]_vars
  PROVE  StaleSlots'
<1>0. /\ "output" \in Stages /\ PipelineTypeOK
      /\ CalmUpTo("pitch") \in Nat /\ CalmUpTo("output") \in Nat
      /\ CalmUpTo("output") <= CalmUpTo("pitch")
  BY CalmNumbers DEF Stages, Inputs, Basis
<1> SUFFICES ASSUME link'.status = "OK", ~ CalledFor(queue["output"].servos)', settled' # 0
             PROVE  settled' <= CalmUpTo("pitch") + Slack + age'["output"]
  BY <1>0, FreshHoldsNext DEF StaleSlots, ShownSince, CalmUpTo
<1>1. link' = link /\ stored' = stored
  BY <1>0, CalmKeepsQueues
<1>2. ~ CalledFor(queue'["output"].servos)
  BY <1>1 DEF CalledFor
<1>3. CASE Ends("output")
  <2>1. /\ queue'["output"].servos = Resolved(peeked["output"])
        /\ pc["output"] = "ready" /\ MidPass("output") /\ Peeked("output")
        /\ Held("output") = peeked["output"].mapping /\ settled' = settled
    BY <1>0, <1>3, EndsDoes DEF FrameOf, MidPass, Peeked, Held
  <2>2. slotTrim = stored
    BY <2>1 DEF CalmInv, FreshTrims
  <2>3. \/ peeked["output"].mapping # Mapped(link)
        \/ peeked["output"].control # ControlOf(Mapped(link))
    BY <1>1, <1>2, <2>1, <2>2, CalledForResolves
  <2>4. \/ HeldSince("output", CalmUpTo("output"))
        \/ HeldSince("output", CalmUpTo("pitch"))
    BY <2>1, <2>3 DEF CalmInv, StaleHeld, StalePitch, Wanted, Result
  <2>5. HeldSince("output", CalmUpTo("pitch"))
    BY <1>0, <2>4, PipelineNumbers DEF HeldSince, Basis, PipelineTypeOK, ClocksOK
  <2>6. QED
    BY <1>0, <1>3, <2>5, StalePublished
<1>4. CASE ~ Ends("output")
  <2>1. ShownSince("output", CalmUpTo("pitch"))
    BY <1>0, <1>1, <1>2, <1>4, CalmQueue DEF CalmInv, StaleSlots
  <2>2. QED
    BY <1>0, <1>4, <2>1, StaleRemains
<1>5. QED
  BY <1>3, <1>4

LEMMA StaleServoStep ==
  ASSUME Basis, Basis', CalmInv, [Next]_vars
  PROVE  StaleServo'
<1>0. /\ "servo" \in Stages /\ "output" \in Stages /\ PipelineTypeOK
      /\ CalmUpTo("pitch") \in Nat /\ CalmUpTo("servo") \in Nat
      /\ CalmUpTo("servo") = CalmUpTo("pitch") + Stride
  BY CalmNumbers DEF Stages, Inputs, Basis
<1> SUFFICES ASSUME link'.status = "OK", MidPass("servo")',
                    ~ CalledFor(peeked["servo"].servos)', settled' # 0
             PROVE  settled' + Period <= CalmUpTo("servo") + age'["servo"]
  BY <1>0, FreshHoldsNext DEF StaleServo, HeldSince, CalmUpTo
<1>1. link' = link /\ stored' = stored /\ ~ Register("servo") /\ ~ Ends("servo")
  BY <1>0, CalmKeepsQueues, EndsDoes DEF MidPass
<1>2. ~ CalledFor(peeked'["servo"].servos)
  BY <1>1 DEF CalledFor
<1>3. CASE Peek("servo")
  <2>1. peeked'["servo"] = queue["output"] /\ UNCHANGED <<age, settled>>
    BY <1>0, <1>3, PeekDoes DEF Upstream
  <2>2. ShownSince("output", CalmUpTo("pitch"))
    BY <1>1, <1>2, <2>1 DEF CalmInv, StaleSlots
  <2>3. QED
    BY <1>0, <2>1, <2>2, StaleRead
<1>4. CASE Keeps("servo")
  <2>1. MidPass("servo") /\ peeked'["servo"] = peeked["servo"]
    BY <1>4 DEF Keeps, MidPass
  <2>2. HeldSince("servo", CalmUpTo("servo"))
    BY <1>1, <1>2, <2>1 DEF CalmInv, StaleServo
  <2>3. QED
    BY <1>0, <2>1, <2>2, StaleStays
<1>5. QED
  BY <1>0, <1>1, <1>3, <1>4, StageSteps

LEMMA StalePadsStep ==
  ASSUME Basis, Basis', CalmInv, [Next]_vars
  PROVE  StalePads'
<1>0. "servo" \in Stages /\ PipelineTypeOK /\ CalmUpTo("servo") \in Nat
  BY CalmNumbers DEF Stages, Inputs, Basis
<1> SUFFICES ASSUME link'.status = "OK", ~ CalledFor(pwm)', settled' # 0
             PROVE  settled' <= CalmUpTo("servo") + Slack + age'["servo"]
  BY <1>0, FreshHoldsNext DEF StalePads, ShownSince, CalmUpTo
<1>1. link' = link /\ stored' = stored
  BY <1>0, CalmKeepsQueues
<1>2. ~ CalledFor(pwm')
  BY <1>1 DEF CalledFor
<1>3. CASE Ends("servo")
  <2>1. pwm' = peeked["servo"].servos /\ MidPass("servo")
    BY <1>0, <1>3, ServoEnds, EndsDoes DEF ServoPublish, MidPass
  <2>2. HeldSince("servo", CalmUpTo("servo"))
    BY <1>1, <1>2, <2>1 DEF CalmInv, StaleServo
  <2>3. QED
    BY <1>0, <1>3, <2>2, StalePublished
<1>4. CASE ~ Ends("servo")
  <2>1. pwm' = pwm
    BY <1>4, PadsSteps DEF ServoPublish, Ends, FrameOf
  <2>2. ShownSince("servo", CalmUpTo("servo"))
    BY <1>1, <1>2, <2>1 DEF CalmInv, StalePads
  <2>3. QED
    BY <1>0, <1>4, <2>2, StaleRemains
<1>5. QED
  BY <1>3, <1>4

THEOREM CalmHolds == Spec => [](Basis /\ CalmInv)
<1>1. Init => Basis /\ CalmInv
  <2> SUFFICES ASSUME Init PROVE Basis /\ CalmInv
    OBVIOUS
  <2>1. Basis /\ settled = 0
    BY BasisInit DEF Init
  <2>2. "rx" \in Stages /\ "mapping" \in Stages /\ "control" \in Stages /\ "output" \in Stages
        /\ "servo" \in Stages
    BY DEF Stages
  <2>3. StaleHeld
    BY <2>1, <2>2, FreshHolds, CalmNumbers DEF StaleHeld, Inputs, Peeked, MidPass
  <2>4. StalePitch
    BY <2>2 DEF Init, StalePitch
  <2>5. StaleShown /\ StaleSlots /\ StaleServo /\ StalePads
    BY <2>1, <2>2, FreshHolds, CalmNumbers
       DEF StaleShown, StaleSlots, StaleServo, StalePads, Inputs
  <2>6. FreshTrims
    BY <2>1 DEF FreshTrims
  <2>7. QED
    BY <2>1, <2>3, <2>4, <2>5, <2>6 DEF CalmInv
<1>2. Basis /\ CalmInv /\ [Next]_vars => (Basis /\ CalmInv)'
  BY BasisStep, FreshTrimsStep, StaleHeldStep, StalePitchStep, StaleShownStep, StaleSlotsStep,
     StaleServoStep, StalePadsStep DEF CalmInv
<1>3. QED
  BY <1>1, <1>2, PTL DEF Spec

(* The sticks reach the pads: after SettleBound of unchanged link and      *)
(* trims and tasks on time, each pad carries exactly what the link calls   *)
(* for under the trims stored last, whatever was lost, late, suspended or  *)
(* set before.                                                             *)
THEOREM SettledSticksReachServos == Spec => []SticksReachServos
<1>1. Basis /\ CalmInv => SticksReachServos
  <2> SUFFICES ASSUME Basis, CalmInv, settled > SettleBound, link.status = "OK",
                      ~ CalledFor(pwm)
               PROVE  FALSE
    BY DEF SticksReachServos, CalledFor
  <2>1. ShownSince("servo", 4 * Stride)
    BY CalmNumbers DEF CalmInv, StalePads
  <2>2. age["servo"] \in Nat /\ settled \in Nat
    BY PipelineNumbers DEF Basis, PipelineTypeOK, ClocksOK, Stages
  <2>3. SettleBound = 5 * Stride /\ settled # 0
    <3>1. Deadline + Slack = Stride
      BY PipelineNumbers DEF Stride
    <3>2. SettleBound = 5 * Stride
      BY <3>1 DEF SettleBound
    <3>3. QED
      BY <2>2, <3>2, CalmNumbers
  <2>4. age["servo"] <= Deadline
    BY <2>3 DEF Basis, TaskInv, Stages
  <2>5. QED
    BY <2>1, <2>2, <2>3, <2>4, PipelineNumbers, CalmNumbers DEF ShownSince, Stride
<1>2. QED
  BY <1>1, CalmHolds, PTL

=============================================================================
