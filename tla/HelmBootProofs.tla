--------------------------- MODULE HelmBootProofs ---------------------------
(* Start-up, port claims and the bootloader request, for every set of      *)
(* subsystems and ports, every pad table and every number of commands.     *)
EXTENDS HelmBoot, TLAPS

(***************************************************************************)
(* Port claims, on their own.                                              *)
(***************************************************************************)

PortsInv == PortsTypeOK /\ ClaimsExist /\ SourceFirstOneOwner

(* What a call of param_set_u32() leaves, in RAM and in flash, is the old  *)
(* record, the new one or the defaults.                                    *)
LEMMA StoreFacts ==
  ASSUME NEW new \in Claims, NEW outcome \in Outcomes, StoreClaim(new, outcome)
  PROVE  /\ loaded /\ loaded' = loaded
         /\ claim' \in {claim, new}
         /\ savedClaim' \in {savedClaim, claim, new, DefaultClaim}
  BY DEF StoreClaim, Outcomes, Cached, Saved

(* A port that param_set_port() accepts is on the board, and no other      *)
(* subsystem claims it.                                                    *)
LEMMA AcceptedPort ==
  ASSUME NEW s \in Subsystems, NEW p \in PortValues, claim \in Claims, Accepts(s, p)
  PROVE  LET new == [claim EXCEPT ![s].port = p]
         IN /\ new \in Claims
            /\ OnBoard(claim) => OnBoard(new)
            /\ OneOwner(claim) => OneOwner(new)
<1> DEFINE new == [claim EXCEPT ![s].port = p]
<1>1. new \in Claims
  BY DEF Claims, Fields
<1>2. /\ new[s] = [port |-> p, source |-> claim[s].source]
      /\ \A t \in Subsystems : t # s => new[t] = claim[t]
  BY DEF Claims, Fields
<1>3. OnBoard(claim) => OnBoard(new)
  BY <1>2 DEF OnBoard, Accepts, Exists, Transport
<1>4. \A t \in Subsystems : t # s /\ Claimed(new, t) /\ Claimed(new, s) => new[t].port # p
  <2>1. SUFFICES ASSUME NEW t \in Subsystems, t # s, claim[t].source = "DIRECT",
                        claim[t].port = p, p # Unset
                 PROVE  FALSE
    BY <1>2 DEF Claimed
  <2>2. claim[t] = [port |-> p, source |-> "DIRECT"]
    BY <2>1 DEF Claims, Fields
  <2>3. QED
    BY <2>1, <2>2 DEF Accepts, Taken
<1>5. OneOwner(claim) => OneOwner(new)
  BY <1>2, <1>4 DEF OneOwner, Claimed
<1>6. QED
  BY <1>1, <1>3, <1>5

(* A .source that becomes DIRECT while its .port is unset claims nothing.  *)
LEMMA SourceSet ==
  ASSUME NEW s \in Subsystems, NEW v \in SourceValues, claim \in Claims
  PROVE  LET new == [claim EXCEPT ![s].source = v]
         IN /\ new \in Claims
            /\ OnBoard(claim) => OnBoard(new)
            /\ /\ OneOwner(claim)
               /\ v = "DIRECT" => claim[s].port = Unset \/ claim[s].source = "DIRECT"
               => OneOwner(new)
<1> DEFINE new == [claim EXCEPT ![s].source = v]
<1>1. new \in Claims
  BY DEF Claims, Fields
<1>2. /\ new[s] = [port |-> claim[s].port, source |-> v]
      /\ \A t \in Subsystems : t # s => new[t] = claim[t]
  BY DEF Claims, Fields
<1>3. OnBoard(claim) => OnBoard(new)
  BY <1>2 DEF OnBoard
<1>4. ASSUME OneOwner(claim), v = "DIRECT" => claim[s].port = Unset \/ claim[s].source = "DIRECT"
      PROVE  OneOwner(new)
  <2>1. \A t \in Subsystems : Claimed(new, t) => Claimed(claim, t) /\ new[t].port = claim[t].port
    BY <1>2, <1>4 DEF Claimed
  <2>2. QED
    BY <1>4, <2>1 DEF OneOwner
<1>5. QED
  BY <1>1, <1>3, <1>4

LEMMA PortsStart == PortsInit => PortsInv
<1> SUFFICES ASSUME PortsInit PROVE PortsInv
  OBVIOUS
<1>1. ZeroClaim \in Claims /\ OneOwner(ZeroClaim)
  BY PortAssumption DEF ZeroClaim, Claims, Fields, PortValues, OneOwner, Claimed
<1>2. QED
  BY <1>1, PortAssumption
     DEF PortsInit, PortsInv, PortsTypeOK, ClaimsExist, SourceFirstOneOwner

LEMMA PortsStep == PortsInv /\ [PortsNext]_portVars => PortsInv'
<1> SUFFICES ASSUME PortsInv, [PortsNext]_portVars PROVE PortsInv'
  OBVIOUS
<1> USE PortAssumption DEF PortsInv, PortsTypeOK, ClaimsExist, SourceFirstOneOwner
<1>1. ASSUME NEW outcome \in Outcomes, NEW s \in Subsystems, NEW p \in PortValues,
             SetPort(s, p, outcome)
      PROVE  PortsInv'
  BY <1>1, StoreFacts, AcceptedPort DEF SetPort
<1>2. ASSUME NEW outcome \in Outcomes, NEW s \in Subsystems, NEW v \in SourceValues,
             SetSource(s, v, outcome)
      PROVE  PortsInv'
  BY <1>2, StoreFacts, SourceSet DEF SetSource
<1>3. ASSUME NEW outcome \in Outcomes, SetOther(outcome) PROVE PortsInv'
  BY <1>3, StoreFacts DEF SetOther
<1>4. CASE ForgetClaims
  <2>1. ZeroClaim \in Claims /\ OneOwner(ZeroClaim)
    BY DEF ZeroClaim, Claims, Fields, PortValues, OneOwner, Claimed
  <2>2. QED
    BY <1>4, <2>1 DEF ForgetClaims
<1>5. CASE LoadClaims
  BY <1>5 DEF LoadClaims
<1>6. CASE UNCHANGED portVars
  BY <1>6 DEF portVars
<1>7. QED
  BY <1>1, <1>2, <1>3, <1>4, <1>5, <1>6 DEF PortsNext

(***************************************************************************)
(* Timers and channels, on their own.                                      *)
(***************************************************************************)

(* What pads have been started run. *)
StartedRun == \A p \in Pads : PadCount + p <= done => channel[p] = "running"

ServoInv == ServoTypeOK /\ ChannelsKept /\ StartedRun

LEMMA RateFacts ==
  ASSUME ServoTypeOK, NEW r \in RateValues, NEW outcome \in Outcomes, StoreRate(r, outcome)
  PROVE  /\ rate' \in RateValues /\ savedRate' \in RateValues
         /\ UNCHANGED <<period, timers, handles, channel, done>>
  BY ServoAssumption DEF StoreRate, Outcomes, Cached, Saved, ServoTypeOK

LEMMA ServoStart == TimersInit => ServoInv
<1> SUFFICES ASSUME TimersInit PROVE ServoInv
  OBVIOUS
<1> USE ServoAssumption DEF TimersInit, Pads
<1>1. ServoTypeOK
  BY DEF ServoTypeOK
<1>2. ChannelsKept
  BY DEF ChannelsKept
<1>3. StartedRun
  BY DEF StartedRun
<1>4. QED
  BY <1>1, <1>2, <1>3 DEF ServoInv

(* A pad configured on a timer that has its handle, or on a new one, which *)
(* no pad configured before it uses.                                       *)
LEMMA ConfigureStep == ServoInv /\ ConfigureSlot => ServoInv'
<1> SUFFICES ASSUME ServoInv, ConfigureSlot PROVE ServoInv'
  OBVIOUS
<1> DEFINE p == done + 1
           t == TimerOf[p]
<1>1. /\ PadCount \in Nat /\ MaxTimers \in Nat /\ done \in Nat /\ done < PadCount
      /\ p \in Pads /\ t \in Timers /\ done' = p
      /\ \A q \in Pads : q <= p => q = p \/ q <= done
      /\ UNCHANGED <<rate, savedRate, period>>
  BY ServoAssumption DEF ConfigureSlot, ServoInv, ServoTypeOK, Pads
<1>2. /\ timers \in Seq(Timers) /\ Len(timers) \in Nat /\ Len(timers) <= MaxTimers
      /\ DOMAIN timers = 1 .. Len(timers)
      /\ handles \in [Pads -> 0 .. MaxTimers]
      /\ channel \in [Pads -> {"off", "centre", "running"}]
  BY DEF ServoInv, ServoTypeOK
<1>3. /\ \A i, j \in DOMAIN timers : timers[i] = timers[j] => i = j
      /\ \A q \in Pads : q <= done => /\ handles[q] \in DOMAIN timers
                                     /\ timers[handles[q]] = TimerOf[q]
                                     /\ channel[q] # "off"
      /\ \A q \in Pads : channel[q] # "running"
  BY <1>1 DEF ServoInv, ChannelsKept
<1> HIDE DEF p, t
<1>4. ASSUME /\ timers' \in Seq(Timers) /\ Len(timers') <= MaxTimers
             /\ handles' \in [Pads -> 0 .. MaxTimers]
             /\ channel' \in [Pads -> {"off", "centre"}]
             /\ \A i, j \in DOMAIN timers' : timers'[i] = timers'[j] => i = j
             /\ \A q \in Pads : q <= p => /\ handles'[q] \in DOMAIN timers'
                                         /\ timers'[handles'[q]] = TimerOf[q]
                                         /\ channel'[q] # "off"
      PROVE  ServoInv'
  <2>1. channel' \in [Pads -> {"off", "centre", "running"}]
    BY <1>4
  <2>2. done' \in 0 .. 2 * PadCount /\ ~ (done' > PadCount)
    BY <1>1 DEF p
  <2>3. ServoTypeOK'
    BY <1>1, <1>4, <2>1, <2>2 DEF ServoInv, ServoTypeOK
  <2>4. ChannelsKept'
    BY <1>1, <1>4 DEF ChannelsKept
  <2>5. StartedRun'
    BY <1>1 DEF StartedRun, p, Pads
  <2>6. QED
    BY <2>3, <2>4, <2>5 DEF ServoInv
<1>5. CASE /\ UNCHANGED timers
           /\ channel' = [channel EXCEPT ![p] = Configured]
           /\ \E i \in Known(t) : handles' = [handles EXCEPT ![p] = i]
  <2>1. PICK i \in DOMAIN timers : timers[i] = t /\ handles' = [handles EXCEPT ![p] = i]
    BY <1>5 DEF Known
  <2>2. i \in 0 .. MaxTimers
    BY <1>1, <1>2, <2>1
  <2>3. handles' \in [Pads -> 0 .. MaxTimers] /\ channel' \in [Pads -> {"off", "centre"}]
    BY <1>1, <1>2, <1>3, <1>5, <2>1, <2>2 DEF Configured
  <2>4. \A q \in Pads : q <= p => /\ handles'[q] \in DOMAIN timers'
                                /\ timers'[handles'[q]] = TimerOf[q]
                                /\ channel'[q] # "off"
    BY <1>1, <1>2, <1>3, <1>5, <2>1 DEF Configured, t
  <2>5. QED
    BY <1>2, <1>3, <1>4, <1>5, <2>3, <2>4
<1>6. CASE /\ Known(t) = {} /\ Len(timers) < MaxTimers
           /\ timers' = Append(timers, t)
           /\ handles' = [handles EXCEPT ![p] = Len(timers) + 1]
           /\ channel' = [Initialised(t) EXCEPT ![p] = Configured]
  <2>1. /\ timers' \in Seq(Timers) /\ Len(timers') = Len(timers) + 1
        /\ DOMAIN timers' = 1 .. Len(timers) + 1
        /\ \A i \in 1 .. Len(timers) : timers'[i] = timers[i]
        /\ timers'[Len(timers) + 1] = t
    BY <1>1, <1>2, <1>6
  <2>2. \A i \in 1 .. Len(timers) : timers[i] # t
    BY <1>2, <1>6 DEF Known
  <2>3. /\ Initialised(t) \in [Pads -> {"off", "centre"}]
        /\ \A q \in Pads : TimerOf[q] # t => Initialised(t)[q] = channel[q]
    BY <1>2, <1>3 DEF Initialised
  <2>4. Len(timers) + 1 \in 0 .. MaxTimers /\ Len(timers') <= MaxTimers
    BY <1>1, <1>2, <1>6, <2>1
  <2>5. handles' \in [Pads -> 0 .. MaxTimers] /\ channel' \in [Pads -> {"off", "centre"}]
    BY <1>1, <1>2, <1>6, <2>3, <2>4 DEF Configured
  <2>6. \A i, j \in DOMAIN timers' : timers'[i] = timers'[j] => i = j
    BY <1>2, <1>3, <2>1, <2>2
  <2>7. ASSUME NEW q \in Pads, q <= p
        PROVE  /\ handles'[q] \in DOMAIN timers' /\ timers'[handles'[q]] = TimerOf[q]
               /\ channel'[q] # "off"
    <3>1. CASE q = p
      BY <1>1, <1>2, <1>6, <2>1, <2>3, <3>1 DEF Configured, t
    <3>2. CASE q # p
      <4>1. q <= done /\ handles'[q] = handles[q]
        BY <1>1, <1>2, <1>6, <2>7, <3>2
      <4>2. handles[q] \in 1 .. Len(timers) /\ timers[handles[q]] = TimerOf[q]
        BY <1>2, <1>3, <4>1
      <4>3. channel'[q] = channel[q]
        BY <1>1, <1>6, <2>2, <2>3, <3>2, <4>2
      <4>4. handles[q] \in DOMAIN timers'
        BY <1>2, <2>1, <4>2
      <4>5. QED
        BY <1>3, <2>1, <4>1, <4>2, <4>3, <4>4
    <3>3. QED
      BY <3>1, <3>2
  <2>8. QED
    BY <1>4, <2>1, <2>4, <2>5, <2>6, <2>7
<1>7. QED
  BY <1>5, <1>6 DEF ConfigureSlot, p, t

LEMMA ServoStep == ServoInv /\ [ServoNext]_servoVars => ServoInv'
<1> SUFFICES ASSUME ServoInv, [ServoNext]_servoVars PROVE ServoInv'
  OBVIOUS
<1> USE ServoAssumption DEF ServoInv
<1>1. CASE ReloadRate
  BY <1>1 DEF ReloadRate, ServoTypeOK, ChannelsKept, StartedRun
<1>2. CASE ResolveRate
  BY <1>2 DEF ResolveRate, ServoTypeOK, ChannelsKept, StartedRun
<1>3. CASE ConfigureSlot
  BY <1>3, ConfigureStep
<1>4. CASE StartChannel
  <2>1. ServoTypeOK'
    BY <1>4 DEF StartChannel, ServoTypeOK, Pads
  <2>2. ChannelsKept'
    BY <1>4 DEF StartChannel, ServoTypeOK, ChannelsKept, Pads
  <2>3. StartedRun'
    <3>1. /\ channel \in [Pads -> {"off", "centre", "running"}]
          /\ done \in Nat /\ PadCount \in Nat /\ done - PadCount + 1 \in Pads
      BY <1>4 DEF StartChannel, ServoTypeOK, Pads
    <3>2. SUFFICES ASSUME NEW q \in Pads, PadCount + q <= done + 1
                   PROVE  channel'[q] = "running"
      BY <1>4 DEF StartedRun, StartChannel
    <3>3. q = done - PadCount + 1 \/ PadCount + q <= done
      BY <3>1, <3>2 DEF Pads
    <3>4. QED
      BY <1>4, <3>1, <3>2, <3>3 DEF StartedRun, StartChannel
  <2>4. QED
    BY <2>1, <2>2, <2>3
<1>5. CASE TimersReset
  <2>1. ServoTypeOK'
    BY <1>5 DEF TimersReset, ServoTypeOK, Pads
  <2>2. ChannelsKept' /\ StartedRun'
    BY <1>5 DEF TimersReset, ChannelsKept, StartedRun, Pads
  <2>3. QED
    BY <2>1, <2>2
<1>6. ASSUME NEW r \in RateValues, NEW outcome \in Outcomes, StoreRate(r, outcome)
      PROVE  ServoInv'
  BY <1>6, RateFacts DEF ServoTypeOK, ChannelsKept, StartedRun
<1>7. CASE UNCHANGED servoVars
  BY <1>7 DEF servoVars, ServoTypeOK, ChannelsKept, StartedRun
<1>8. QED
  BY <1>1, <1>2, <1>3, <1>4, <1>5, <1>6, <1>7 DEF ServoNext

(***************************************************************************)
(* The board is a composition: what a step of it does to the claims and    *)
(* to the timers is a step of PortClaims and of ServoTimers, or nothing.   *)
(***************************************************************************)

LEMMA BootStepsPorts == [BootNext]_vars => [PortsNext]_portVars
<1>1. ASSUME SetParam PROVE PortsNext
  BY <1>1 DEF SetParam, PortsNext
<1>2. ASSUME DfuReset \/ WatchdogReset \/ PinReset \/ PowerLoss PROVE PortsNext
  BY <1>2 DEF DfuReset, WatchdogReset, PinReset, PowerLoss, Reset, PortsNext
<1>3. ASSUME LoadParams PROVE PortsNext
  BY <1>3 DEF LoadParams, PortsNext
<1>4. ASSUME CheckRequest \/ StartPlain \/ StartServo \/ StartScheduler \/ HaltInMain
             \/ StartWatchdog \/ HaltInTask \/ MoveServos
             \/ OpenGps \/ ArmGps \/ ByteArrives \/ HandleByte \/ RequestDfu
      PROVE  UNCHANGED portVars
  BY <1>4 DEF CheckRequest, StartPlain, StartServo, StartScheduler, HaltInMain,
              StartWatchdog, HaltInTask, MoveServos, OpenGps, ArmGps, ByteArrives,
              HandleByte, RequestDfu
<1>5. ASSUME UNCHANGED vars PROVE UNCHANGED portVars
  BY <1>5 DEF vars
<1>6. QED
  BY <1>1, <1>2, <1>3, <1>4, <1>5 DEF BootNext

LEMMA BootStepsServo ==
  ASSUME ServoTypeOK, [BootNext]_vars
  PROVE  [ServoNext]_servoVars
<1>1. ASSUME SetParam PROVE ServoNext
  <2>1. rate \in RateValues
    BY DEF ServoTypeOK
  <2>2. QED
    BY <1>1, <2>1 DEF SetParam, ServoNext
<1>2. ASSUME DfuReset \/ WatchdogReset \/ PinReset \/ PowerLoss PROVE ServoNext
  BY <1>2 DEF DfuReset, WatchdogReset, PinReset, PowerLoss, Reset, ServoNext
<1>3. ASSUME LoadParams PROVE ServoNext
  BY <1>3 DEF LoadParams, ServoNext
<1>4. ASSUME StartServo PROVE ServoNext \/ UNCHANGED servoVars
  BY <1>4 DEF StartServo, ServoNext
<1>5. ASSUME CheckRequest \/ StartPlain \/ StartScheduler \/ HaltInMain
             \/ StartWatchdog \/ HaltInTask \/ MoveServos
             \/ OpenGps \/ ArmGps \/ ByteArrives \/ HandleByte \/ RequestDfu
      PROVE  UNCHANGED servoVars
  BY <1>5 DEF CheckRequest, StartPlain, StartScheduler, HaltInMain,
              StartWatchdog, HaltInTask, MoveServos, OpenGps, ArmGps, ByteArrives,
              HandleByte, RequestDfu
<1>6. ASSUME UNCHANGED vars PROVE UNCHANGED servoVars
  BY <1>6 DEF vars
<1>7. QED
  BY <1>1, <1>2, <1>3, <1>4, <1>5, <1>6 DEF BootNext

(* The boot implements PortClaims: no reset, halt or command does to the   *)
(* port claims what that module does not allow.                            *)
THEOREM BootImplementsPorts == BootSpec => PortsSpec
<1>1. BootInit => PortsInit
  BY DEF BootInit
<1>2. QED
  BY <1>1, BootStepsPorts, PTL DEF BootSpec, PortsSpec

(* Every .port in RAM or in flash names a connector of its transport.      *)
THEOREM PortsExist == BootSpec => []ClaimsExist
<1>1. PortsInv => ClaimsExist
  BY DEF PortsInv
<1>2. QED
  BY <1>1, PortsStart, PortsStep, BootImplementsPorts, PTL DEF PortsSpec

(* No two subsystems claim one port while .source is set first.            *)
THEOREM OneOwnerHolds == BootSpec => []SourceFirstOneOwner
<1>1. PortsInv => SourceFirstOneOwner
  BY DEF PortsInv
<1>2. QED
  BY <1>1, PortsStart, PortsStep, BootImplementsPorts, PTL DEF PortsSpec

LEMMA BootServoInv == BootSpec => []ServoInv
<1>1. BootInit => ServoInv
  BY ServoStart DEF BootInit
<1>2. ServoInv /\ [BootNext]_vars => ServoInv'
  BY BootStepsServo, ServoStep DEF ServoInv
<1>3. QED
  BY <1>1, <1>2, PTL DEF BootSpec

(* No pad's configuration is lost to another's, whatever the pad table.    *)
THEOREM ChannelsAreKept == BootSpec => []ChannelsKept
<1>1. ServoInv => ChannelsKept
  BY DEF ServoInv
<1>2. QED
  BY <1>1, BootServoInv, PTL

(***************************************************************************)
(* The control of the board: where main() is, what has been started, and   *)
(* what is left of a request.                                              *)
(***************************************************************************)

ControlTypeOK ==
  /\ cpu \in {"main", "tasks", "halted", "rom"}
  /\ next \in 1 .. 18
  /\ watchdog \in BOOLEAN /\ moved \in BOOLEAN
  /\ gps \in {"unopened", "unbound", "opening", "bound"}
  /\ uart \in GpsUarts \cup {Unset}
  /\ received \in {0, 1} /\ overrun \in BOOLEAN
  /\ dfu \in BOOLEAN
  /\ sets \in 0 .. MaxSets

(* The call of servo_start() returns only when every channel runs. *)
StartedInOrder ==
  /\ (cpu = "main" /\ next > 9) \/ cpu = "tasks" => AllStarted
  /\ done > 0 => period # NoPeriod
  /\ cpu = "main" => /\ next > 4 => rate = savedRate
                     /\ period # NoPeriod => next > 4 /\ period = PeriodOf[savedRate]

(* A servo is moved under the watchdog's eye only. *)
MovedWatched == moved => watchdog

(* What the next boot would act on was asked for; a request is pending     *)
(* only in the tasks that wrote it.                                        *)
AskedFor ==
  /\ RequestTypeOK
  /\ Requested => asked
  /\ dfu => asked /\ cpu \in {"tasks", "halted"}

ControlInv == ControlTypeOK /\ StartedInOrder /\ MovedWatched /\ AskedFor

(* Where in main() the calls that matter are. *)
LEMMA CallIndices ==
  ASSUME next \in 1 .. 18
  PROVE  /\ Calls[next] = "bootloader" <=> next = 1
         /\ Calls[next] = "params" <=> next = 4
         /\ Calls[next] = "servo" <=> next = 9
         /\ Calls[next] = "scheduler" <=> next = 18
  BY DEF Calls

LEMMA ControlStart == BootInit => ControlInv
<1> SUFFICES ASSUME BootInit PROVE ControlInv
  OBVIOUS
<1>1. ControlTypeOK /\ MovedWatched
  <2>1. 0 \in 0 .. MaxSets /\ 1 \in 1 .. 18
    BY BootAssumption
  <2>2. QED
    BY <2>1 DEF BootInit, ControlTypeOK, MovedWatched
<1>2. StartedInOrder
  BY DEF BootInit, TimersInit, StartedInOrder
<1>3. AskedFor
  BY DEF BootInit, RequestInit, AskedFor, RequestTypeOK, Requested
<1>4. QED
  BY <1>1, <1>2, <1>3 DEF ControlInv

LEMMA TypesStep == ControlTypeOK /\ [BootNext]_vars => ControlTypeOK'
<1> SUFFICES ASSUME ControlTypeOK, [BootNext]_vars PROVE ControlTypeOK'
  OBVIOUS
<1> USE DEF ControlTypeOK, bootVars, gpsVars
<1>1. CASE CheckRequest \/ LoadParams \/ StartPlain \/ StartServo
  BY <1>1, CallIndices
     DEF CheckRequest, LoadParams, StartPlain, StartServo, Calling, Return
<1>2. CASE StartScheduler \/ HaltInMain \/ StartWatchdog \/ HaltInTask \/ MoveServos
  BY <1>2 DEF StartScheduler, HaltInMain, StartWatchdog, HaltInTask, MoveServos
<1>3. CASE OpenGps \/ ArmGps \/ ByteArrives \/ HandleByte
  BY <1>3 DEF OpenGps, Bindable, Bind, ArmGps, ByteArrives, HandleByte
<1>4. CASE SetParam \/ RequestDfu
  <2>1. sets' \in 0 .. MaxSets
    BY <1>4, BootAssumption DEF SetParam, RequestDfu
  <2>2. dfu' \in BOOLEAN
    BY <1>4 DEF SetParam, RequestDfu
  <2>3. QED
    BY <1>4, <2>1, <2>2 DEF SetParam, RequestDfu
<1>5. CASE DfuReset \/ WatchdogReset \/ PinReset \/ PowerLoss
  <2>1. Reset
    BY <1>5 DEF DfuReset, WatchdogReset, PinReset, PowerLoss
  <2>2. 1 \in 1 .. 18
    OBVIOUS
  <2>3. QED
    BY <2>1, <2>2 DEF Reset
<1>6. CASE UNCHANGED vars
  BY <1>6 DEF vars
<1>7. QED
  BY <1>1, <1>2, <1>3, <1>4, <1>5, <1>6 DEF BootNext

LEMMA OrderStep ==
  ControlTypeOK /\ ServoTypeOK /\ StartedInOrder /\ [BootNext]_vars => StartedInOrder'
<1> SUFFICES ASSUME ControlTypeOK, ServoTypeOK, StartedInOrder, [BootNext]_vars
             PROVE  StartedInOrder'
  OBVIOUS
<1>1. /\ next \in 1 .. 18 /\ PadCount \in Nat \ {0} /\ done \in Nat
  BY ServoAssumption DEF ControlTypeOK, ServoTypeOK
<1>2. CASE CheckRequest
  BY <1>1, <1>2, CallIndices
     DEF StartedInOrder, CheckRequest, Calling, Return, servoVars, AllStarted
<1>3. CASE LoadParams
  BY <1>1, <1>3, CallIndices
     DEF StartedInOrder, LoadParams, ReloadRate, Calling, Return, AllStarted
<1>4. CASE StartPlain
  BY <1>1, <1>4, CallIndices
     DEF StartedInOrder, StartPlain, Return, servoVars, AllStarted
<1>5. CASE StartServo
  <2>1. next = 9 /\ cpu = "main" /\ cpu' = "main"
    BY <1>1, <1>5, CallIndices DEF StartServo, Calling, Return, bootVars
  <2>2. CASE ResolveRate /\ UNCHANGED bootVars
    BY <1>1, <2>1, <2>2 DEF StartedInOrder, ResolveRate, bootVars, AllStarted
  <2>3. CASE ConfigureSlot /\ UNCHANGED bootVars
    BY <1>1, <2>1, <2>3 DEF StartedInOrder, ConfigureSlot, bootVars, AllStarted
  <2>4. CASE StartChannel /\ UNCHANGED bootVars
    <3>1. done > 0 /\ done' > 0
      BY <1>1, <2>4 DEF StartChannel
    <3>2. QED
      BY <1>1, <2>1, <2>4, <3>1 DEF StartedInOrder, StartChannel, bootVars, AllStarted
  <2>5. CASE AllStarted /\ Return /\ UNCHANGED servoVars
    BY <1>1, <2>1, <2>5 DEF StartedInOrder, Return, servoVars, AllStarted
  <2>6. QED
    BY <1>5, <2>2, <2>3, <2>4, <2>5 DEF StartServo
<1>6. CASE StartScheduler
  BY <1>1, <1>6, CallIndices
     DEF StartedInOrder, StartScheduler, Calling, servoVars, AllStarted
<1>7. CASE HaltInMain \/ StartWatchdog \/ HaltInTask \/ MoveServos
  BY <1>7 DEF StartedInOrder, HaltInMain, StartWatchdog, HaltInTask, MoveServos,
              Runs, TasksRun, servoVars, AllStarted
<1>8. CASE OpenGps \/ ArmGps \/ ByteArrives \/ HandleByte \/ RequestDfu
  BY <1>8 DEF StartedInOrder, OpenGps, ArmGps, ByteArrives, HandleByte, RequestDfu,
              bootVars, servoVars, AllStarted
<1>9. CASE SetParam
  <2>1. cpu = "tasks" /\ cpu' = "tasks"
    BY <1>9 DEF SetParam, CommandRuns, Runs, TasksRun, bootVars
  <2>2. UNCHANGED <<period, done>>
    BY <1>9 DEF SetParam, StoreRate
  <2>3. QED
    BY <2>1, <2>2 DEF StartedInOrder, AllStarted
<1>10. CASE DfuReset \/ WatchdogReset \/ PinReset \/ PowerLoss
  BY <1>10 DEF DfuReset, WatchdogReset, PinReset, PowerLoss, Reset, TimersReset,
               StartedInOrder
<1>11. CASE UNCHANGED vars
  BY <1>11 DEF vars, bootVars, servoVars, StartedInOrder, AllStarted
<1>12. QED
  BY <1>2, <1>3, <1>4, <1>5, <1>6, <1>7, <1>8, <1>9, <1>10, <1>11 DEF BootNext

LEMMA MovedStep == MovedWatched /\ [BootNext]_vars => MovedWatched'
<1> SUFFICES ASSUME MovedWatched, [BootNext]_vars PROVE MovedWatched'
  OBVIOUS
<1> USE DEF MovedWatched, bootVars
<1>1. CASE CheckRequest \/ LoadParams \/ StartPlain \/ StartServo
  BY <1>1 DEF CheckRequest, LoadParams, StartPlain, StartServo, Return
<1>2. CASE StartScheduler \/ HaltInMain \/ StartWatchdog \/ HaltInTask \/ MoveServos
  BY <1>2 DEF StartScheduler, HaltInMain, StartWatchdog, HaltInTask, MoveServos,
              Runs, TasksRun
<1>3. CASE OpenGps \/ ArmGps \/ ByteArrives \/ HandleByte \/ SetParam \/ RequestDfu
  BY <1>3 DEF OpenGps, ArmGps, ByteArrives, HandleByte, SetParam, RequestDfu
<1>4. CASE DfuReset \/ WatchdogReset \/ PinReset \/ PowerLoss
  BY <1>4 DEF DfuReset, WatchdogReset, PinReset, PowerLoss, Reset
<1>5. CASE UNCHANGED vars
  BY <1>5 DEF vars
<1>6. QED
  BY <1>1, <1>2, <1>3, <1>4, <1>5 DEF BootNext

LEMMA AskedStep == AskedFor /\ [BootNext]_vars => AskedFor'
<1> SUFFICES ASSUME AskedFor, [BootNext]_vars PROVE AskedFor'
  OBVIOUS
<1> USE DEF AskedFor, RequestTypeOK, Requested, bootVars, requestVars
<1>1. CASE CheckRequest
  <2>1. ~ dfu /\ dfu' = dfu
    BY <1>1 DEF CheckRequest, Calling
  <2>2. CASE ConsumeRequest
    BY <2>1, <2>2 DEF ConsumeRequest, BackupConsumed
  <2>3. CASE UNCHANGED requestVars
    BY <2>1, <2>3
  <2>4. QED
    BY <1>1, <2>2, <2>3 DEF CheckRequest
<1>2. CASE LoadParams \/ StartPlain \/ StartServo \/ StartScheduler \/ HaltInMain
  BY <1>2 DEF LoadParams, StartPlain, StartServo, StartScheduler, HaltInMain,
              Calling, Return
<1>3. CASE StartWatchdog \/ HaltInTask \/ MoveServos
  BY <1>3 DEF StartWatchdog, HaltInTask, MoveServos
<1>4. CASE OpenGps \/ ArmGps \/ ByteArrives \/ HandleByte \/ SetParam
  BY <1>4 DEF OpenGps, ArmGps, ByteArrives, HandleByte, SetParam
<1>5. CASE RequestDfu
  BY <1>5 DEF RequestDfu, WriteRequest, CommandRuns, Runs, TasksRun
<1>6. CASE DfuReset
  BY <1>6 DEF DfuReset, SoftReset, Reset
<1>7. CASE WatchdogReset \/ PinReset \/ PowerLoss
  <2>1. ~ dfu'
    BY <1>7 DEF WatchdogReset, PinReset, PowerLoss, Reset
  <2>2. CASE UNCHANGED requestVars
    BY <2>1, <2>2
  <2>3. CASE PowerOn
    BY <2>1, <2>3 DEF PowerOn
  <2>4. QED
    BY <1>7, <2>2, <2>3 DEF WatchdogReset, PinReset, PowerLoss
<1>8. CASE UNCHANGED vars
  BY <1>8 DEF vars
<1>9. QED
  BY <1>1, <1>2, <1>3, <1>4, <1>5, <1>6, <1>7, <1>8 DEF BootNext

LEMMA BootControlInv == BootSpec => []ControlInv
<1>1. ServoInv /\ ControlInv /\ [BootNext]_vars => ControlInv'
  BY TypesStep, OrderStep, MovedStep, AskedStep DEF ControlInv, ServoInv
<1>2. QED
  BY <1>1, ControlStart, BootServoInv, PTL DEF BootSpec

(***************************************************************************)
(* What follows of a board that is switched on.                            *)
(***************************************************************************)

(* Every variable of the board keeps its type, the claims and the timers'  *)
(* state included.                                                         *)
THEOREM BootTypeCorrect == BootSpec => []BootTypeOK
<1>1. PortsInv /\ ServoInv /\ ControlInv => BootTypeOK
  <2>1. Len(Calls) = 18
    BY DEF Calls
  <2>2. GpsUarts \subseteq UartPorts
    BY BootAssumption
  <2>3. PortsInv /\ ServoInv /\ ControlInv => PortsTypeOK /\ ServoTypeOK /\ RequestTypeOK
    BY DEF PortsInv, ServoInv, ControlInv, AskedFor
  <2>4. QED
    BY <2>1, <2>2, <2>3 DEF ControlInv, ControlTypeOK, BootTypeOK
<1>2. QED
  BY <1>1, PortsStart, PortsStep, BootImplementsPorts, BootServoInv, BootControlInv, PTL
     DEF PortsSpec

(* A board that stops with no watchdog counting has moved no servo.        *)
THEOREM HaltIsSafe == BootSpec => []UnrecoveredHaltIsSafe
<1>1. ControlInv => UnrecoveredHaltIsSafe
  BY DEF ControlInv, MovedWatched, UnrecoveredHaltIsSafe
<1>2. QED
  BY <1>1, BootControlInv, PTL

(* No pad's set-up undoes another's, and the tasks find every channel      *)
(* running on its timer's handle, for any pads and timers.                 *)
THEOREM PadsAreReady == BootSpec => []PadsReady
<1>1. ServoInv /\ ControlInv => PadsReady
  <2>1. SUFFICES ASSUME ServoInv, ControlInv, cpu = "tasks", NEW p \in Pads
                 PROVE  channel[p] = "running" /\ handles[p] # 0
    BY DEF PadsReady, ServoInv
  <2>2. done = 2 * PadCount /\ PadCount \in Nat /\ p \in 1 .. PadCount
    BY <2>1, ServoAssumption DEF ControlInv, StartedInOrder, AllStarted, Pads
  <2>3. channel[p] = "running"
    BY <2>1, <2>2 DEF ServoInv, StartedRun
  <2>4. handles[p] \in DOMAIN timers /\ timers \in Seq(Timers)
    BY <2>1, <2>2 DEF ServoInv, ServoTypeOK, ChannelsKept
  <2>5. QED
    BY <2>3, <2>4
<1>2. QED
  BY <1>1, BootServoInv, BootControlInv, PTL

(* The tasks start with the frame period of the rate in flash.             *)
THEOREM RateIsStored == BootSpec => BootUsesStoredRate
<1> DEFINE Step == cpu = "main" /\ cpu' = "tasks" => period = PeriodOf[savedRate]
<1>1. ServoInv /\ ControlInv /\ [BootNext]_vars => [Step]_vars
  <2>1. SUFFICES ASSUME ServoInv, ControlInv, BootNext, cpu = "main", cpu' = "tasks"
                 PROVE  period = PeriodOf[savedRate]
    OBVIOUS
  <2>2. StartScheduler
    BY <2>1 DEF BootNext, CheckRequest, LoadParams, StartPlain, StartServo, HaltInMain,
                StartWatchdog, HaltInTask, MoveServos, OpenGps, ArmGps, ByteArrives,
                HandleByte, SetParam, RequestDfu, DfuReset, WatchdogReset, PinReset,
                PowerLoss, Reset, Return, CommandRuns, Runs, TasksRun, bootVars
  <2>3. next \in 1 .. 18 /\ next = 18
    BY <2>1, <2>2, CallIndices DEF ControlInv, ControlTypeOK, StartScheduler, Calling
  <2>4. done > 0
    BY <2>1, <2>3, ServoAssumption DEF ControlInv, StartedInOrder, AllStarted
  <2>5. QED
    BY <2>1, <2>3, <2>4 DEF ControlInv, StartedInOrder
<1>2. QED
  BY <1>1, BootServoInv, BootControlInv, PTL DEF BootSpec, BootUsesStoredRate

(* The ROM bootloader is entered only by a `dfu` it has not served yet.    *)
THEOREM RequestIsServedOnce == BootSpec => RequestServedOnce
<1> DEFINE Step == cpu # "rom" /\ cpu' = "rom" => asked
<1>1. ControlInv /\ [BootNext]_vars => [Step]_vars
  <2>1. SUFFICES ASSUME ControlInv, BootNext, cpu # "rom", cpu' = "rom" PROVE asked
    OBVIOUS
  <2>2. CheckRequest
    BY <2>1 DEF BootNext, LoadParams, StartPlain, StartServo, StartScheduler, HaltInMain,
                StartWatchdog, HaltInTask, MoveServos, OpenGps, ArmGps, ByteArrives,
                HandleByte, SetParam, RequestDfu, DfuReset, WatchdogReset, PinReset,
                PowerLoss, Reset, Return, bootVars
  <2>3. Requested
    BY <2>1, <2>2 DEF CheckRequest, ConsumeRequest, Return
  <2>4. QED
    BY <2>1, <2>3 DEF ControlInv, AskedFor
<1>2. QED
  BY <1>1, BootControlInv, PTL DEF BootSpec, RequestServedOnce

=============================================================================
