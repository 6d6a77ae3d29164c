--------------------------- MODULE DeadlineMonitor ---------------------------
(***************************************************************************)
(* What lib/supervisor promises every module that registers with it: if    *)
(* the module's task is silent for longer than the period it declared, its *)
(* length-1 output queue is overwritten with the fallback it declared, and *)
(* a task that is on time is never touched.  The promise is in real time   *)
(* (ages); there is no table, no handle and no wrapping tick counter here. *)
(* Supervisor.tla is the code; it implements this module.                  *)
(***************************************************************************)
EXTENDS Integers

CONSTANTS
  Modules,     \* the tasks that register
  Value,       \* what an output queue can hold
  Seed,        \* [Modules -> Value]: put in the queue by <module>_start()
  Fallback,    \* [Modules -> Value]: the declared safe substitute
  MaxPeriod,   \* [Modules -> Nat]: the declared max_period_ticks
  PollPeriod,  \* ticks between two sweeps of the supervisor
  AgeCap       \* ages saturate here: the horizon of the promise

ASSUME MonitorAssumption ==
  /\ Seed \in [Modules -> Value]
  /\ Fallback \in [Modules -> Value]
  /\ MaxPeriod \in [Modules -> Nat]
  /\ PollPeriod \in Nat \ {0}
  /\ AgeCap \in Nat
  /\ \A m \in Modules : MaxPeriod[m] + PollPeriod < AgeCap

VARIABLES
  queue,     \* [Modules -> Value]: each module's latest-value queue
  watched,   \* the modules the supervisor holds an entry for
  age,       \* [Modules -> 0..AgeCap]: ticks since the last kick
  unkicked,  \* modules between their xQueueOverwrite and their kick
  since      \* ticks since the last sweep

mvars == <<queue, watched, age, unkicked, since>>

MonitorTypeOK ==
  /\ queue \in [Modules -> Value]
  /\ watched \subseteq Modules
  /\ age \in [Modules -> 0 .. AgeCap]
  /\ unkicked \subseteq Modules
  /\ since \in 0 .. PollPeriod

MonitorInit ==
  /\ queue = Seed
  /\ watched = {}
  /\ age = [m \in Modules |-> 0]
  /\ unkicked = {}
  /\ since = 0

(* supervisor_register: the clock of m starts now. *)
Watch(m) ==
  /\ m \notin watched
  /\ watched' = watched \cup {m}
  /\ age' = [age EXCEPT ![m] = 0]
  /\ UNCHANGED <<queue, unkicked, since>>

(* xQueueOverwrite by the module's own task. *)
Publish(m, v) ==
  /\ queue' = [queue EXCEPT ![m] = v]
  /\ unkicked' = unkicked \cup {m}
  /\ UNCHANGED <<watched, age, since>>

(* supervisor_kick. *)
Kick(m) ==
  /\ unkicked' = unkicked \ {m}
  /\ age' = [age EXCEPT ![m] = 0]
  /\ UNCHANGED <<queue, watched, since>>

Overdue(m) == m \in watched /\ age[m] > MaxPeriod[m]

(* One pass of supervisor_task.  An age at AgeCap has outlived the         *)
(* horizon: such an entry may or may not be recognised as overdue.         *)
Sweep ==
  /\ since = PollPeriod
  /\ \E hit \in SUBSET {m \in Modules : Overdue(m)} :
       /\ \A m \in Modules : Overdue(m) /\ age[m] < AgeCap => m \in hit
       /\ queue' = [m \in Modules |-> IF m \in hit THEN Fallback[m] ELSE queue[m]]
  /\ since' = 0
  /\ UNCHANGED <<watched, age, unkicked>>

Older(n) == IF n < AgeCap THEN n + 1 ELSE n

Tick ==
  /\ since < PollPeriod
  /\ since' = since + 1
  /\ age' = [m \in Modules |-> IF m \in watched THEN Older(age[m]) ELSE age[m]]
  /\ UNCHANGED <<queue, watched, unkicked>>

(* Chip reset: everything above is RAM. *)
Restart ==
  /\ queue' = Seed
  /\ watched' = {}
  /\ age' = [m \in Modules |-> 0]
  /\ unkicked' = {}
  /\ since' = 0

MonitorNext ==
  \/ \E m \in Modules : Watch(m) \/ Kick(m)
  \/ \E m \in Modules, v \in Value : Publish(m, v)
  \/ Sweep
  \/ Tick
  \/ Restart

MonitorSpec == MonitorInit /\ [][MonitorNext]_mvars

-----------------------------------------------------------------------------

(* The window in which an overdue module is not yet replaced is what is    *)
(* left of the current poll period.                                        *)
ReplacedOnTime ==
  \A m \in watched \ unkicked :
    age[m] > MaxPeriod[m] + since => queue[m] = Fallback[m]

(* A module that has been silent for its period and one poll more shows    *)
(* its fallback to every reader, however long the silence lasts.           *)
FallbackInForce ==
  \A m \in watched \ unkicked :
    age[m] > MaxPeriod[m] + PollPeriod => queue[m] = Fallback[m]

=============================================================================
