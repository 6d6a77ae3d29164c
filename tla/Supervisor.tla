------------------------------ MODULE Supervisor ------------------------------
(***************************************************************************)
(* lib/supervisor/supervisor.c with the tasks that use it: a fixed table   *)
(* of entries stamped with a wrapping tick counter, filled by the module   *)
(* tasks after the scheduler starts, swept by one task of higher priority  *)
(* that also feeds the independent watchdog (IWDG).                        *)
(*                                                                         *)
(* The module tasks run at priority 1 and interleave freely; the           *)
(* supervisor runs at priority 2, so a sweep that is due comes before any  *)
(* module step of the same tick and is not interleaved with them.          *)
(***************************************************************************)
EXTENDS Integers, FiniteSets

CONSTANTS
  Modules,                 \* the tasks that call supervisor_register()
  NoModule,                \* marks an entry whose in_use is false
  Value, Seed, Fallback,   \* output queue contents, see DeadlineMonitor
  Period,                  \* [Modules -> Nat]: the task's own vTaskDelay
  Deadline,                \* [Modules -> Nat]: by when a live task has kicked
  MaxPeriod,               \* [Modules -> Nat]: max_period_ticks it declares
  SUPERVISOR_MAX_MODULES,  \* entries in the table
  PollPeriod,              \* SUPERVISOR_POLL_PERIOD_MS in ticks
  TickMod,                 \* TickType_t counts modulo this (2^32 on the MCU)
  IwdgTimeout,             \* ticks from a feed to the hardware reset
  MaxStalled               \* bound: tasks stuck at the same time

ASSUME SupervisorAssumption ==
  /\ NoModule \notin Modules
  /\ Seed \in [Modules -> Value]
  /\ Fallback \in [Modules -> Value]
  /\ Period \in [Modules -> Nat]
  /\ Deadline \in [Modules -> Nat]
  /\ MaxPeriod \in [Modules -> Nat]
  /\ SUPERVISOR_MAX_MODULES \in Nat
  /\ PollPeriod \in Nat \ {0}
  /\ TickMod \in Nat \ {0}
  /\ IwdgTimeout \in Nat
  /\ PollPeriod < IwdgTimeout
  /\ \A m \in Modules : MaxPeriod[m] + PollPeriod < TickMod

Slots == 0 .. SUPERVISOR_MAX_MODULES - 1
INVALID_HANDLE == -1
Ticks == 0 .. TickMod - 1

VARIABLES
  owner,      \* [Slots -> module]: name, queue, fallback and period of an entry
  last_kick,  \* [Slots -> Ticks]: last_kick_tick of an entry
  handle,     \* [Modules -> handle]: the task's local variable
  pc,         \* [Modules -> where the task is in its loop]
  stalled,    \* tasks that get no further (fault of the environment)
  queue,      \* [Modules -> Value]: the length-1 output queues
  tick,       \* xTaskGetTickCount()
  since,      \* ticks the supervisor has slept in its vTaskDelay
  iwdg,       \* ticks until the watchdog bites
  cpu,        \* "booting", "running", or "stopped" for good
  age         \* history: ticks since each task's last kick, up to TickMod

tableVars == <<owner, last_kick, handle>>
clockVars == <<tick, since, iwdg, cpu>>
vars == <<owner, last_kick, handle, pc, stalled, queue, tick, since, iwdg, cpu, age>>

(* Mutant: signed subtraction. *)
ElapsedSigned(now, then) == now - then

(* TickType_t subtraction: unsigned, modulo TickMod. *)
Elapsed(now, then) == IF now >= then THEN now - then ELSE now - then + TickMod

NextTick(t) == IF t + 1 = TickMod THEN 0 ELSE t + 1
Older(n) == IF n < TickMod THEN n + 1 ELSE n

TypeOK ==
  /\ owner \in [Slots -> Modules \cup {NoModule}]
  /\ last_kick \in [Slots -> Ticks]
  /\ handle \in [Modules -> Slots \cup {INVALID_HANDLE}]
  /\ pc \in [Modules -> {"start", "delay", "busy", "published"}]
  /\ stalled \subseteq Modules
  /\ queue \in [Modules -> Value]
  /\ tick \in Ticks
  /\ since \in 0 .. PollPeriod
  /\ iwdg \in 0 .. IwdgTimeout
  /\ cpu \in {"booting", "running", "stopped"}
  /\ age \in [Modules -> 0 .. TickMod]

(* Zero-initialised statics, queues seeded by the _start() functions.      *)
Init ==
  /\ owner = [i \in Slots |-> NoModule]
  /\ last_kick = [i \in Slots |-> 0]
  /\ handle = [m \in Modules |-> INVALID_HANDLE]
  /\ pc = [m \in Modules |-> "start"]
  /\ stalled = {}
  /\ queue = Seed
  /\ tick = 0
  /\ since = 0
  /\ iwdg = IwdgTimeout
  /\ cpu = "booting"
  /\ age = [m \in Modules |-> 0]

-----------------------------------------------------------------------------
(* The module tasks. *)

Runs(m) == cpu = "running" /\ since < PollPeriod /\ m \notin stalled

(* Mutant: the search for a free entry does not look at in_use. *)
FreeSlotsIgnoringUse == Slots

FreeSlots == {i \in Slots : owner[i] = NoModule}

(* supervisor_register() from the task's own context; the critical section *)
(* makes the search and the insert one step.  Every module's fallback fits *)
(* SUPERVISOR_MAX_VALUE_BYTES, so its refusal of a larger one is left out. *)
Register(m) ==
  /\ Runs(m)
  /\ pc[m] = "start"
  /\ \/ /\ FreeSlots = {}
        /\ handle' = [handle EXCEPT ![m] = INVALID_HANDLE]
        /\ UNCHANGED <<owner, last_kick>>
     \/ \E i \in FreeSlots :
          /\ \A j \in FreeSlots : i <= j
          /\ owner' = [owner EXCEPT ![i] = m]
          /\ last_kick' = [last_kick EXCEPT ![i] = tick]
          /\ handle' = [handle EXCEPT ![m] = i]
  /\ pc' = [pc EXCEPT ![m] = "delay"]
  /\ age' = [age EXCEPT ![m] = 0]
  /\ UNCHANGED <<stalled, queue, tick, since, iwdg, cpu>>

(* vTaskDelay() returns and the pass begins. *)
Wake(m) ==
  /\ Runs(m)
  /\ pc[m] = "delay"
  /\ age[m] >= Period[m]
  /\ pc' = [pc EXCEPT ![m] = "busy"]
  /\ UNCHANGED <<tableVars, stalled, queue, clockVars, age>>

(* xQueueOverwrite() on the task's own queue. *)
Publish(m, v) ==
  /\ Runs(m)
  /\ pc[m] = "busy"
  /\ queue' = [queue EXCEPT ![m] = v]
  /\ pc' = [pc EXCEPT ![m] = "published"]
  /\ UNCHANGED <<tableVars, stalled, clockVars, age>>

(* Mutant: a task without an entry never gets past its kick. *)
KickNeedsHandle(m) ==
  /\ Runs(m)
  /\ pc[m] = "published"
  /\ handle[m] \in Slots
  /\ last_kick' = [last_kick EXCEPT ![handle[m]] = tick]
  /\ pc' = [pc EXCEPT ![m] = "delay"]
  /\ age' = [age EXCEPT ![m] = 0]
  /\ UNCHANGED <<owner, handle, stalled, queue, clockVars>>

(* supervisor_kick(): a no-op on an invalid handle. *)
Kick(m) ==
  /\ Runs(m)
  /\ pc[m] = "published"
  /\ last_kick' = [i \in Slots |-> IF i = handle[m] THEN tick ELSE last_kick[i]]
  /\ pc' = [pc EXCEPT ![m] = "delay"]
  /\ age' = [age EXCEPT ![m] = 0]
  /\ UNCHANGED <<owner, handle, stalled, queue, clockVars>>

(* A task gets stuck anywhere in its loop (a driver call that does not     *)
(* return, starvation), and may come back as if nothing had happened.      *)
Wedge(m) ==
  /\ cpu = "running"
  /\ m \notin stalled
  /\ Cardinality(stalled) < MaxStalled
  /\ stalled' = stalled \cup {m}
  /\ UNCHANGED <<tableVars, pc, queue, clockVars, age>>

Recover(m) ==
  /\ cpu = "running"
  /\ m \in stalled
  /\ stalled' = stalled \ {m}
  /\ UNCHANGED <<tableVars, pc, queue, clockVars, age>>

-----------------------------------------------------------------------------
(* The supervisor task, the tick interrupt and the watchdog. *)

(* First run of supervisor_task: board_iwdg_init(). *)
SupervisorStart ==
  /\ cpu = "booting"
  /\ cpu' = "running"
  /\ iwdg' = IwdgTimeout
  /\ UNCHANGED <<tableVars, pc, stalled, queue, tick, since, age>>

(* Mutants: >= for >, and a loop that ends one entry early. *)
IsOverdueEarly(i) ==
  owner[i] # NoModule /\ Elapsed(tick, last_kick[i]) >= MaxPeriod[owner[i]]

IsOverdueSkipsLast(i) ==
  /\ i < SUPERVISOR_MAX_MODULES - 1
  /\ owner[i] # NoModule
  /\ Elapsed(tick, last_kick[i]) > MaxPeriod[owner[i]]

IsOverdue(i) ==
  /\ owner[i] # NoModule
  /\ Elapsed(tick, last_kick[i]) > MaxPeriod[owner[i]]

(* Mutant: the refresh at the end of a sweep is lost. *)
FeedLost == iwdg

(* board_iwdg_refresh(). *)
Feed == IwdgTimeout

(* The for loop over entries[], then the feed. *)
Sweep ==
  /\ cpu = "running"
  /\ since = PollPeriod
  /\ queue' = [m \in Modules |->
                 IF \E i \in Slots : owner[i] = m /\ IsOverdue(i)
                   THEN Fallback[m] ELSE queue[m]]
  /\ since' = 0
  /\ iwdg' = Feed
  /\ UNCHANGED <<tableVars, pc, stalled, tick, cpu, age>>

(* A live task completes a pass within its Deadline: time does not run     *)
(* past it.  A task that has come back late is not held to it again until  *)
(* its next kick.                                                          *)
OnSchedule(m) == m \in stalled \/ (pc[m] # "start" /\ age[m] # Deadline[m])

Tick ==
  /\ cpu = "running"
  /\ since < PollPeriod
  /\ iwdg > 0
  /\ \A m \in Modules : OnSchedule(m)
  /\ tick' = NextTick(tick)
  /\ since' = since + 1
  /\ iwdg' = iwdg - 1
  /\ age' = [m \in Modules |-> IF pc[m] = "start" THEN age[m] ELSE Older(age[m])]
  /\ UNCHANGED <<tableVars, pc, stalled, queue, cpu>>

(* `diag wedge` spins above the supervisor's priority, or a crash hook     *)
(* disables interrupts: no task runs again before the reset.               *)
StopCpu ==
  /\ cpu = "running"
  /\ cpu' = "stopped"
  /\ UNCHANGED <<tableVars, pc, stalled, queue, tick, since, iwdg, age>>

(* Mutant: something below the supervisor, an interrupt, feeds it. *)
StoppedTickFed ==
  /\ cpu = "stopped"
  /\ iwdg > 0
  /\ iwdg' = IwdgTimeout
  /\ UNCHANGED <<tableVars, pc, stalled, queue, tick, since, cpu, age>>

(* The IWDG has its own oscillator.  The tick count no longer matters.     *)
StoppedTick ==
  /\ cpu = "stopped"
  /\ iwdg > 0
  /\ iwdg' = iwdg - 1
  /\ UNCHANGED <<tableVars, pc, stalled, queue, tick, since, cpu, age>>

IwdgReset ==
  /\ iwdg = 0
  /\ owner' = [i \in Slots |-> NoModule]
  /\ last_kick' = [i \in Slots |-> 0]
  /\ handle' = [m \in Modules |-> INVALID_HANDLE]
  /\ pc' = [m \in Modules |-> "start"]
  /\ stalled' = {}
  /\ queue' = Seed
  /\ tick' = 0
  /\ since' = 0
  /\ iwdg' = IwdgTimeout
  /\ cpu' = "booting"
  /\ age' = [m \in Modules |-> 0]

ModuleStep(m) ==
  \/ Register(m)
  \/ Wake(m)
  \/ \E v \in Value : Publish(m, v)
  \/ Kick(m)

Next ==
  \/ \E m \in Modules : ModuleStep(m) \/ Wedge(m) \/ Recover(m)
  \/ SupervisorStart
  \/ Sweep
  \/ Tick
  \/ StopCpu
  \/ StoppedTick
  \/ IwdgReset

Spec == Init /\ [][Next]_vars

(* The tick interrupt and the IWDG oscillator keep going and the           *)
(* supervisor preempts everything else.  Tasks of equal priority are       *)
(* time-sliced: one that is ready again and again gets its slice, although *)
(* the supervisor keeps preempting it (strong fairness).  Faults and       *)
(* recoveries need not happen.                                             *)
FairSpec ==
  /\ Spec
  /\ \A m \in Modules : SF_vars(ModuleStep(m))
  /\ WF_vars(SupervisorStart)
  /\ WF_vars(Sweep)
  /\ WF_vars(Tick)
  /\ WF_vars(StoppedTick)
  /\ WF_vars(IwdgReset)

-----------------------------------------------------------------------------

(* The table and the tasks' handles say the same thing: an entry in use is *)
(* the handle of exactly the module it belongs to, so no task can stamp    *)
(* another's entry, and no module holds two entries.  (supervisor_register *)
(* is called concurrently by every task.)                                  *)
TableAgrees ==
  \A m \in Modules, i \in Slots : owner[i] = m <=> handle[m] = i

(* The wrapped subtraction in the sweep measures real silence, across      *)
(* every rollover of the tick counter, up to a full period of the counter. *)
ElapsedIsAge ==
  \A i \in Slots :
    owner[i] # NoModule /\ age[owner[i]] < TickMod =>
      Elapsed(tick, last_kick[i]) = age[owner[i]]

Watched == {m \in Modules : handle[m] \in Slots}
Unkicked == {m \in Modules : pc[m] = "published"}

(* A module silent for longer than its period and one poll shows its       *)
(* fallback, and keeps showing it although the elapsed time the sweep      *)
(* computes wraps around every TickMod ticks.                              *)
FallbackInForce ==
  \A m \in Watched \ Unkicked :
    age[m] > MaxPeriod[m] + PollPeriod => queue[m] = Fallback[m]

(* A queue changes under a module that is within its period only by that   *)
(* module's own xQueueOverwrite: the sweep never takes the output away     *)
(* from a task that is on time.  (A chip reset starts everything over.)    *)
NoFalseFailsafe ==
  [][\A m \in Modules :
       queue'[m] # queue[m] =>
         \/ age[m] > MaxPeriod[m]
         \/ pc[m] = "busy" /\ pc'[m] = "published"
         \/ cpu = "stopped"]_vars

(* The watchdog resets a board only if the supervisor stopped sweeping: as *)
(* long as the CPU schedules it, at least one tick is always left.         *)
WatchdogSparesLiveCpu == cpu = "running" => iwdg + since >= IwdgTimeout

(* Every module that got past its registration is supervised.              *)
EveryModuleCovered ==
  \A m \in Modules : pc[m] # "start" => handle[m] \in Slots

(* A CPU that stopped scheduling is always reset and comes back.           *)
StopLeadsToReboot == cpu = "stopped" ~> cpu = "booting"

(* A module that is late and no longer stuck kicks again, unless it gets   *)
(* stuck again or the CPU stops.                                           *)
LateModuleReturns ==
  \A m \in Modules :
    (age[m] > MaxPeriod[m] /\ m \notin stalled)
      ~> (age[m] <= MaxPeriod[m] \/ m \in stalled \/ cpu # "running")

(* The table, the handles and the wrapping stamps keep the promise of      *)
(* DeadlineMonitor.                                                        *)
Monitor == INSTANCE DeadlineMonitor
  WITH watched <- Watched,
       unkicked <- Unkicked,
       age <- [m \in Modules |-> IF m \in Watched THEN age[m] ELSE 0],
       AgeCap <- TickMod

ImplementsMonitor == Monitor!MonitorSpec

=============================================================================
