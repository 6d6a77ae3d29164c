------------------------------ MODULE ServoTimers ------------------------------
(***************************************************************************)
(* servo_start(): how the pads of lib/servo/servo.c get their PWM channels.*)
(* Several pads are channels of one hardware timer; the timer is           *)
(* initialised once, by the first pad that needs it, every channel is then *)
(* configured, and only after that are the channels started one by one.    *)
(*                                                                         *)
(* HAL_TIM_PWM_Init() clears what was configured on its timer, as          *)
(* find_or_create_timer()'s comment has it.  The boot order and the halts  *)
(* are HelmBoot's.                                                         *)
(***************************************************************************)
EXTENDS ParamWrite, Naturals, Sequences

CONSTANTS
  PadCount,        \* HELM_SERVO_COUNT
  Timers,          \* the timer instances of the chip
  TimerOf,         \* padConfigs[].timer
  MaxTimers,       \* SERVO_MAX_TIMERS
  RateValues,      \* what PARAM_SERVO_RATE may hold
  DefaultRate,     \* its default
  ZeroRate,        \* the value 0, which the zeroed cache holds
  PeriodOf,        \* the PWM period of each rate value
  NoPeriod         \* servoPeriodUs before servo_start()

Pads == 1 .. PadCount

ASSUME ServoAssumption ==
  /\ PadCount \in Nat \ {0}
  /\ TimerOf \in [Pads -> Timers]
  /\ MaxTimers \in Nat
  /\ {DefaultRate, ZeroRate} \subseteq RateValues
  /\ DOMAIN PeriodOf = RateValues

VARIABLES
  rate,       \* PARAM_SERVO_RATE in the RAM cache
  savedRate,  \* what a boot would load
  period,     \* servoPeriodUs
  timers,     \* the instances of servoTimers[], in order
  handles,    \* slotTimerHandle[]: index into timers, or 0
  channel,    \* what each pad's PWM channel does
  done        \* pads configured, then pads started: 0 to 2 * PadCount

servoVars == <<rate, savedRate, period, timers, handles, channel, done>>

ServoTypeOK ==
  /\ rate \in RateValues
  /\ savedRate \in RateValues
  /\ period \in {PeriodOf[r] : r \in RateValues} \cup {NoPeriod}
  /\ timers \in Seq(Timers)
  /\ Len(timers) <= MaxTimers
  /\ handles \in [Pads -> 0 .. MaxTimers]
  /\ channel \in [Pads -> {"off", "centre", "running"}]
  /\ done \in 0 .. 2 * PadCount

(* Zero-initialised statics, timers out of reset, a blank flash region. *)
TimersInit ==
  /\ period = NoPeriod
  /\ timers = <<>>
  /\ handles = [p \in Pads |-> 0]
  /\ channel = [p \in Pads |-> "off"]
  /\ done = 0
  /\ rate = ZeroRate
  /\ savedRate = DefaultRate

(* Any reset: the statics are zeroed, the timers reset. *)
TimersReset ==
  /\ period' = NoPeriod
  /\ timers' = <<>>
  /\ handles' = [p \in Pads |-> 0]
  /\ channel' = [p \in Pads |-> "off"]
  /\ done' = 0
  /\ rate' = ZeroRate
  /\ UNCHANGED savedRate

(* params_init() *)
ReloadRate ==
  /\ rate' = savedRate
  /\ UNCHANGED <<savedRate, period, timers, handles, channel, done>>

(* servo_start() resolves the frame rate before it touches a timer. *)
ResolveRate ==
  /\ period = NoPeriod
  /\ period' = PeriodOf[rate]
  /\ UNCHANGED <<rate, savedRate, timers, handles, channel, done>>

(* Mutant: every pad makes a handle of its own while there is room. *)
KnownNever(t) == {}

(* find_or_create_timer(): the handles made for this timer. *)
Known(t) == {i \in DOMAIN timers : timers[i] = t}

\* What HAL_TIM_PWM_Init() leaves of the channels.
Initialised(t) ==
  [p \in Pads |-> IF TimerOf[p] = t THEN "off" ELSE channel[p]]

\* HAL_TIM_PWM_ConfigChannel(): the safe centre, not running yet.
Configured == "centre"

(* configure_slot(); with no room for another timer it does not return,     *)
(* which is one of HelmBoot's halts.                                       *)
ConfigureSlot ==
  LET p == done + 1
      t == TimerOf[p]
  IN /\ period # NoPeriod
     /\ done < PadCount
     /\ \/ \E i \in Known(t) :
             /\ handles' = [handles EXCEPT ![p] = i]
             /\ channel' = [channel EXCEPT ![p] = Configured]
             /\ UNCHANGED timers
        \/ /\ Known(t) = {}
           /\ Len(timers) < MaxTimers
           /\ timers' = Append(timers, t)
           /\ handles' = [handles EXCEPT ![p] = Len(timers) + 1]
           /\ channel' = [Initialised(t) EXCEPT ![p] = Configured]
     /\ done' = done + 1
     /\ UNCHANGED <<rate, savedRate, period>>

(* The second loop of servo_hw_init(). *)
StartChannel ==
  /\ done \in PadCount .. 2 * PadCount - 1
  /\ channel' = [channel EXCEPT ![done - PadCount + 1] = "running"]
  /\ done' = done + 1
  /\ UNCHANGED <<rate, savedRate, period, timers, handles>>

AllStarted == done = 2 * PadCount

(* A set of the rate, or of another param (new = rate). *)
StoreRate(new, outcome) ==
  /\ rate' = Cached(rate, new, outcome)
  /\ savedRate' = Saved(savedRate, rate, new, DefaultRate, outcome)
  /\ UNCHANGED <<period, timers, handles, channel, done>>

\* What main(), a reset and `param set` may do with the timers' state.
ServoNext ==
  \/ ReloadRate \/ ResolveRate \/ ConfigureSlot \/ StartChannel \/ TimersReset
  \/ \E r \in RateValues, outcome \in Outcomes : StoreRate(r, outcome)

-----------------------------------------------------------------------------

(* No pad's configuration is lost to another pad's: each has the handle    *)
(* made for its own timer, no timer has two, and what has been configured  *)
(* stays configured.  No channel runs before every channel is configured   *)
(* (servo_hw_init()'s two passes).                                         *)
ChannelsKept ==
  /\ \A i, j \in DOMAIN timers : timers[i] = timers[j] => i = j
  /\ \A p \in Pads :
       p <= done => /\ handles[p] \in DOMAIN timers
                    /\ timers[handles[p]] = TimerOf[p]
                    /\ channel[p] # "off"
  /\ (\E p \in Pads : channel[p] = "running") => done > PadCount

=============================================================================
