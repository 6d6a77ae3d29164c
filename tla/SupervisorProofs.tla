--------------------------- MODULE SupervisorProofs ---------------------------
(* The supervisor's table and stamps, for any number of modules, any table *)
(* size, any periods and any width of the tick counter.                    *)
EXTENDS Supervisor, TLAPS

(* A task that has not registered holds no handle. *)
NoHandleYet == \A m \in Modules : pc[m] = "start" => handle[m] = INVALID_HANDLE

(* The inductive invariant: types, the table's agreement with the handles, *)
(* and stamps that measure real silence.                                   *)
IInv == TypeOK /\ NoHandleYet /\ TableAgrees /\ ElapsedIsAge

-----------------------------------------------------------------------------

(* The wrapped difference of two equal stamps is zero, and one tick later  *)
(* it is one more, until it reaches the width of the counter.              *)
LEMMA ElapsedFacts ==
  ASSUME NEW t \in Ticks, NEW s \in Ticks
  PROVE  /\ Elapsed(t, t) = 0
         /\ NextTick(t) \in Ticks
         /\ Elapsed(t, s) \in 0 .. TickMod - 1
         /\ Elapsed(t, s) + 1 < TickMod => Elapsed(NextTick(t), s) = Elapsed(t, s) + 1
  BY SupervisorAssumption DEF Elapsed, NextTick, Ticks

(* Every step keeps every variable in its type; the interesting ones are   *)
(* the wrapping tick and the watchdog's countdown.                         *)
LEMMA TypeStep == TypeOK /\ [Next]_vars => TypeOK'
<1> SUFFICES ASSUME TypeOK, [Next]_vars PROVE TypeOK'
  OBVIOUS
<1> USE SupervisorAssumption DEF TypeOK, tableVars, clockVars
<1>1. ASSUME NEW m \in Modules, Register(m) PROVE TypeOK'
  <2>1. handle' \in [Modules -> Slots \cup {INVALID_HANDLE}]
    BY <1>1 DEF Register, FreeSlots
  <2>2. owner' \in [Slots -> Modules \cup {NoModule}] /\ last_kick' \in [Slots -> Ticks]
    BY <1>1 DEF Register, FreeSlots
  <2>3. QED
    BY <1>1, <2>1, <2>2 DEF Register
<1>2. ASSUME NEW m \in Modules, Wake(m) PROVE TypeOK'
  BY <1>2 DEF Wake
<1>3. ASSUME NEW m \in Modules, NEW v \in Value, Publish(m, v) PROVE TypeOK'
  BY <1>3 DEF Publish
<1>4. ASSUME NEW m \in Modules, Kick(m) PROVE TypeOK'
  BY <1>4 DEF Kick
<1>5. ASSUME NEW m \in Modules, Wedge(m) PROVE TypeOK'
  BY <1>5 DEF Wedge
<1>6. ASSUME NEW m \in Modules, Recover(m) PROVE TypeOK'
  BY <1>6 DEF Recover
<1>7. CASE SupervisorStart
  BY <1>7 DEF SupervisorStart
<1>8. CASE Sweep
  BY <1>8 DEF Sweep, Feed
<1>9. CASE Tick
  <2>1. tick' \in Ticks
    BY <1>9, ElapsedFacts DEF Tick
  <2>2. age' \in [Modules -> 0 .. TickMod]
    BY <1>9 DEF Tick, Older
  <2>3. QED
    BY <1>9, <2>1, <2>2 DEF Tick
<1>10. CASE StopCpu
  BY <1>10 DEF StopCpu
<1>11. CASE StoppedTick
  BY <1>11 DEF StoppedTick
<1>12. CASE IwdgReset
  BY <1>12 DEF IwdgReset, Ticks
<1>13. CASE UNCHANGED vars
  BY <1>13 DEF vars
<1>14. QED
  BY <1>1, <1>2, <1>3, <1>4, <1>5, <1>6, <1>7, <1>8, <1>9, <1>10, <1>11, <1>12, <1>13
     DEF Next, ModuleStep

(* No step lets the table and the handles drift apart. *)
LEMMA TableStep ==
  TypeOK /\ NoHandleYet /\ TableAgrees /\ [Next]_vars => NoHandleYet' /\ TableAgrees'
<1> SUFFICES ASSUME TypeOK, NoHandleYet, TableAgrees, [Next]_vars
             PROVE  NoHandleYet' /\ TableAgrees'
  OBVIOUS
<1> USE SupervisorAssumption DEF TypeOK, NoHandleYet, TableAgrees, tableVars, clockVars
<1>1. ASSUME NEW m \in Modules, Register(m) PROVE NoHandleYet' /\ TableAgrees'
  <2>1. NoHandleYet'
    BY <1>1 DEF Register
  <2>2. CASE UNCHANGED <<owner, last_kick>> /\ handle' = [handle EXCEPT ![m] = INVALID_HANDLE]
    BY <1>1, <2>1, <2>2 DEF Register, Slots, INVALID_HANDLE
  <2>3. ASSUME NEW i \in FreeSlots,
               owner' = [owner EXCEPT ![i] = m],
               handle' = [handle EXCEPT ![m] = i]
        PROVE  TableAgrees'
    <3> SUFFICES ASSUME NEW n \in Modules, NEW j \in Slots
                 PROVE  owner'[j] = n <=> handle'[n] = j
      OBVIOUS
    <3>1. i \in Slots /\ owner[i] = NoModule
      BY DEF FreeSlots
    <3>2. handle[m] = INVALID_HANDLE
      BY <1>1 DEF Register
    <3>3. INVALID_HANDLE \notin Slots
      BY DEF Slots, INVALID_HANDLE
    <3>4. CASE n = m
      BY <2>3, <3>1, <3>2, <3>3, <3>4
    <3>5. CASE n # m
      <4>1. handle[n] # i
        BY <3>1
      <4>2. QED
        BY <2>3, <3>1, <3>5, <4>1
    <3>6. QED
      BY <3>4, <3>5
  <2>4. QED
    BY <1>1, <2>1, <2>2, <2>3 DEF Register
<1>2. ASSUME NEW m \in Modules,
             Wake(m) \/ (\E v \in Value : Publish(m, v)) \/ Kick(m) \/ Wedge(m) \/ Recover(m)
      PROVE  NoHandleYet' /\ TableAgrees'
  BY <1>2 DEF Wake, Publish, Kick, Wedge, Recover
<1>3. CASE SupervisorStart \/ Sweep \/ Tick \/ StopCpu \/ StoppedTick
  BY <1>3 DEF SupervisorStart, Sweep, Tick, StopCpu, StoppedTick
<1>4. CASE IwdgReset
  BY <1>4 DEF IwdgReset, Slots, INVALID_HANDLE
<1>5. CASE UNCHANGED vars
  BY <1>5 DEF vars
<1>6. QED
  BY <1>1, <1>2, <1>3, <1>4, <1>5 DEF Next, ModuleStep

(* Stamps keep measuring silence: a kick and a registration set both to    *)
(* zero, a tick advances both, and nothing else moves either.              *)
LEMMA ElapsedStep == IInv /\ [Next]_vars => ElapsedIsAge'
<1> SUFFICES ASSUME IInv, [Next]_vars,
                    NEW i \in Slots,
                    owner'[i] # NoModule,
                    age'[owner'[i]] < TickMod
             PROVE  Elapsed(tick', last_kick'[i]) = age'[owner'[i]]
  BY DEF ElapsedIsAge
<1> USE SupervisorAssumption DEF IInv, TypeOK, tableVars, clockVars
<1>0. owner'[i] \in Modules
  BY TypeStep
<1>1. ASSUME NEW m \in Modules, Register(m)
      PROVE  Elapsed(tick', last_kick'[i]) = age'[owner'[i]]
  <2>1. CASE owner'[i] = m
    <3>0. handle[m] = INVALID_HANDLE /\ INVALID_HANDLE \notin Slots
      BY <1>1 DEF Register, NoHandleYet, Slots, INVALID_HANDLE
    <3>1. owner[i] # m
      BY <3>0 DEF TableAgrees
    <3>2. last_kick'[i] = tick /\ tick' = tick /\ age'[m] = 0
      BY <1>1, <2>1, <3>1 DEF Register, FreeSlots
    <3>3. QED
      BY <2>1, <3>2, ElapsedFacts
  <2>2. CASE owner'[i] # m
    <3>1. owner'[i] = owner[i] /\ last_kick'[i] = last_kick[i] /\ tick' = tick
      BY <1>1, <2>2 DEF Register, FreeSlots
    <3>2. age'[owner[i]] = age[owner[i]]
      BY <1>0, <1>1, <2>2, <3>1 DEF Register
    <3>3. QED
      BY <3>1, <3>2 DEF ElapsedIsAge
  <2>3. QED
    BY <2>1, <2>2
<1>2. ASSUME NEW m \in Modules, Kick(m)
      PROVE  Elapsed(tick', last_kick'[i]) = age'[owner'[i]]
  <2>1. owner' = owner /\ tick' = tick
    BY <1>2 DEF Kick
  <2>2. CASE owner[i] = m
    <3>1. i = handle[m]
      BY <2>2 DEF TableAgrees
    <3>2. last_kick'[i] = tick /\ age'[m] = 0
      BY <1>2, <3>1 DEF Kick
    <3>3. QED
      BY <2>1, <2>2, <3>2, ElapsedFacts
  <2>3. CASE owner[i] # m
    <3>1. i # handle[m]
      BY <2>3 DEF TableAgrees
    <3>2. last_kick'[i] = last_kick[i] /\ age'[owner[i]] = age[owner[i]]
      BY <1>0, <1>2, <2>1, <2>3, <3>1 DEF Kick
    <3>3. QED
      BY <2>1, <3>2 DEF ElapsedIsAge
  <2>4. QED
    BY <2>2, <2>3
<1>3. CASE Tick
  <2>1. owner' = owner /\ last_kick' = last_kick /\ tick' = NextTick(tick)
    BY <1>3 DEF Tick
  <2>2. pc[owner[i]] # "start"
    BY <1>0, <2>1 DEF NoHandleYet, TableAgrees, Slots, INVALID_HANDLE
  <2>3. age'[owner[i]] = Older(age[owner[i]])
    BY <1>0, <1>3, <2>1, <2>2 DEF Tick
  <2>4. age[owner[i]] < TickMod /\ age'[owner[i]] = age[owner[i]] + 1
    BY <1>0, <2>1, <2>3 DEF Older
  <2>5. Elapsed(tick, last_kick[i]) = age[owner[i]]
    BY <2>1, <2>4 DEF ElapsedIsAge
  <2>6. QED
    BY <2>1, <2>4, <2>5, ElapsedFacts
<1>4. CASE IwdgReset
  BY <1>4 DEF IwdgReset
<1>5. ASSUME NEW m \in Modules,
             Wake(m) \/ (\E v \in Value : Publish(m, v)) \/ Wedge(m) \/ Recover(m)
      PROVE  Elapsed(tick', last_kick'[i]) = age'[owner'[i]]
  BY <1>5 DEF Wake, Publish, Wedge, Recover, ElapsedIsAge
<1>6. CASE SupervisorStart \/ Sweep \/ StopCpu \/ StoppedTick
  BY <1>6 DEF SupervisorStart, Sweep, StopCpu, StoppedTick, ElapsedIsAge
<1>7. CASE UNCHANGED vars
  BY <1>7 DEF vars, ElapsedIsAge
<1>8. QED
  BY <1>1, <1>2, <1>3, <1>4, <1>5, <1>6, <1>7 DEF Next, ModuleStep

-----------------------------------------------------------------------------

(* The inductive invariant holds. *)
THEOREM Invariance == Spec => []IInv
<1>1. Init => IInv
  BY SupervisorAssumption
     DEF Init, IInv, TypeOK, NoHandleYet, TableAgrees, ElapsedIsAge, Slots, Ticks, INVALID_HANDLE
<1>2. IInv /\ [Next]_vars => IInv'
  BY TypeStep, TableStep, ElapsedStep DEF IInv
<1>3. QED
  BY <1>1, <1>2, PTL DEF Spec

(* Type correctness of the supervisor and its tasks. *)
THEOREM TypeCorrect == Spec => []TypeOK
  BY Invariance, PTL DEF IInv

(* No module holds two entries, no entry serves two modules, and a kick    *)
(* stamps the kicker's own entry, however registrations interleave.        *)
THEOREM TableConsistent == Spec => []TableAgrees
  BY Invariance, PTL DEF IInv

(* Rollover of the tick counter never disturbs the sweep's elapsed times.  *)
THEOREM ElapsedCorrect == Spec => []ElapsedIsAge
  BY Invariance, PTL DEF IInv

(* Also before the supervisor's first run the countdown is fresh. *)
WatchdogFresh == cpu # "stopped" => iwdg + since >= IwdgTimeout

(* What is left of the countdown and what has passed of the poll period    *)
(* together never fall below the timeout until the CPU stops.              *)
LEMMA WatchdogStaysFresh == Spec => []WatchdogFresh
<1>1. Init => WatchdogFresh
  BY SupervisorAssumption DEF Init, WatchdogFresh
<1>2. TypeOK /\ WatchdogFresh /\ [Next]_vars => WatchdogFresh'
  <2> SUFFICES ASSUME TypeOK, WatchdogFresh, [Next]_vars
               PROVE  WatchdogFresh'
    OBVIOUS
  <2> USE SupervisorAssumption DEF TypeOK, WatchdogFresh, clockVars
  <2>1. ASSUME NEW m \in Modules, ModuleStep(m) \/ Wedge(m) \/ Recover(m)
        PROVE  WatchdogFresh'
    BY <2>1 DEF ModuleStep, Register, Wake, Publish, Kick, Wedge, Recover
  <2>2. CASE SupervisorStart
    BY <2>2 DEF SupervisorStart
  <2>3. CASE Sweep
    BY <2>3 DEF Sweep, Feed
  <2>4. CASE Tick
    BY <2>4 DEF Tick
  <2>5. CASE StopCpu \/ StoppedTick \/ IwdgReset \/ UNCHANGED vars
    BY <2>5 DEF StopCpu, StoppedTick, IwdgReset, vars
  <2>6. QED
    BY <2>1, <2>2, <2>3, <2>4, <2>5 DEF Next
<1>3. QED
  BY <1>1, <1>2, TypeCorrect, PTL DEF Spec

(* The watchdog never bites while the supervisor is scheduled.             *)
THEOREM WatchdogSafe == Spec => []WatchdogSparesLiveCpu
<1>1. WatchdogFresh => WatchdogSparesLiveCpu
  BY DEF WatchdogFresh, WatchdogSparesLiveCpu
<1>2. QED
  BY <1>1, WatchdogStaysFresh, PTL

(* What the sweep finds overdue has really been silent for its period.     *)
LEMMA OverdueIsSilent ==
  ASSUME IInv, NEW i \in Slots, NEW m \in Modules, owner[i] = m
  PROVE  /\ IsOverdue(i) => age[m] > MaxPeriod[m]
         /\ age[m] > MaxPeriod[m] /\ age[m] < TickMod => IsOverdue(i)
<1> USE SupervisorAssumption DEF IInv, TypeOK
<1>1. CASE age[m] < TickMod
  <2>1. Elapsed(tick, last_kick[i]) = age[m]
    BY <1>1 DEF ElapsedIsAge
  <2>2. QED
    BY <1>1, <2>1 DEF IsOverdue
<1>2. CASE age[m] = TickMod
  BY <1>2
<1>3. QED
  BY <1>1, <1>2

(* The sweep never takes the output away from a task that is on time.      *)
THEOREM NoFalseFailsafeHolds == Spec => NoFalseFailsafe
<1>1. IInv /\ WatchdogFresh /\ [Next]_vars =>
        [\A m \in Modules :
           queue'[m] # queue[m] =>
             \/ age[m] > MaxPeriod[m]
             \/ pc[m] = "busy" /\ pc'[m] = "published"
             \/ cpu = "stopped"]_vars
  <2> SUFFICES ASSUME IInv, WatchdogFresh, Next, NEW m \in Modules, queue'[m] # queue[m]
               PROVE  \/ age[m] > MaxPeriod[m]
                      \/ pc[m] = "busy" /\ pc'[m] = "published"
                      \/ cpu = "stopped"
    OBVIOUS
  <2> USE DEF IInv, TypeOK
  <2>1. ASSUME NEW n \in Modules, NEW v \in Value, Publish(n, v)
        PROVE  pc[m] = "busy" /\ pc'[m] = "published"
    BY <2>1 DEF Publish
  <2>2. CASE Sweep
    <3>1. PICK i \in Slots : owner[i] = m /\ IsOverdue(i)
      BY <2>2 DEF Sweep
    <3>2. QED
      BY <3>1, OverdueIsSilent
  <2>3. ASSUME NEW n \in Modules,
               Register(n) \/ Wake(n) \/ Kick(n) \/ Wedge(n) \/ Recover(n)
        PROVE  FALSE
    BY <2>3 DEF Register, Wake, Kick, Wedge, Recover
  <2>4. CASE SupervisorStart \/ Tick \/ StopCpu \/ StoppedTick
    BY <2>4 DEF SupervisorStart, Tick, StopCpu, StoppedTick
  <2>5. CASE IwdgReset
    BY <2>5, SupervisorAssumption DEF IwdgReset, WatchdogFresh
  <2>6. QED
    BY <2>1, <2>2, <2>3, <2>4, <2>5 DEF Next, ModuleStep
<1>2. QED
  BY <1>1, Invariance, WatchdogStaysFresh, PTL DEF Spec, NoFalseFailsafe

-----------------------------------------------------------------------------

(* What the sweep overwrites is what the promise allows it to overwrite,   *)
(* and all that it demands.                                                *)
LEMMA SweepSimulated == IInv /\ Sweep => Monitor!Sweep
<1> SUFFICES ASSUME IInv, Sweep PROVE Monitor!Sweep
  OBVIOUS
<1> USE SupervisorAssumption DEF IInv, TypeOK
<1> DEFINE Hit == {m \in Modules : \E i \in Slots : owner[i] = m /\ IsOverdue(i)}
           Clock == [m \in Modules |-> IF m \in Watched THEN age[m] ELSE 0]
<1>1. ASSUME NEW m \in Hit PROVE m \in Watched /\ Clock[m] > MaxPeriod[m]
  <2>1. PICK i \in Slots : owner[i] = m /\ IsOverdue(i)
    OBVIOUS
  <2>2. m \in Watched
    BY <2>1 DEF TableAgrees, Watched
  <2>3. QED
    BY <2>1, <2>2, OverdueIsSilent
<1>2. ASSUME NEW m \in Watched, age[m] > MaxPeriod[m], age[m] < TickMod
      PROVE  m \in Hit
  <2>1. handle[m] \in Slots /\ owner[handle[m]] = m
    BY DEF TableAgrees, Watched
  <2>2. QED
    BY <1>2, <2>1, OverdueIsSilent DEF Watched
<1>3. Hit \in SUBSET {m \in Modules : Monitor!Overdue(m)}
  BY <1>1 DEF Monitor!Overdue
<1>4. \A m \in Modules : Monitor!Overdue(m) /\ Clock[m] < TickMod => m \in Hit
  BY <1>2 DEF Monitor!Overdue
<1>5. queue' = [m \in Modules |-> IF m \in Hit THEN Fallback[m] ELSE queue[m]]
  BY DEF Sweep
<1>6. /\ since = PollPeriod
      /\ since' = 0
      /\ Watched' = Watched
      /\ Clock' = Clock
      /\ Unkicked' = Unkicked
  BY DEF Sweep, Watched, Unkicked, tableVars
<1> HIDE DEF Hit
<1>7. QED
  BY <1>3, <1>4, <1>5, <1>6 DEF Monitor!Sweep

(* A module step is a step of the promise, or invisible to it.             *)
LEMMA ModuleStepSimulated ==
  ASSUME IInv, IInv', NEW m \in Modules, ModuleStep(m)
  PROVE  Monitor!MonitorNext \/ UNCHANGED Monitor!mvars
<1> USE SupervisorAssumption DEF IInv, TypeOK
<1>0. INVALID_HANDLE \notin Slots
  BY DEF Slots, INVALID_HANDLE
<1>1. CASE Register(m)
  <2>1. handle[m] = INVALID_HANDLE /\ m \notin Watched
    BY <1>0, <1>1 DEF Register, NoHandleYet, Watched
  <2>2. Unkicked' = Unkicked
    BY <1>1 DEF Register, Unkicked
  <2>3. CASE handle' = [handle EXCEPT ![m] = INVALID_HANDLE]
    <3>1. handle' = handle /\ Watched' = Watched
      BY <2>1, <2>3 DEF Watched
    <3>2. UNCHANGED Monitor!mvars
      BY <1>1, <2>1, <2>2, <3>1 DEF Register, Monitor!mvars
    <3>3. QED
      BY <3>2
  <2>4. ASSUME NEW i \in FreeSlots, handle' = [handle EXCEPT ![m] = i]
        PROVE  Monitor!Watch(m)
    <3>1. i \in Slots
      BY DEF FreeSlots
    <3>2. Watched' = Watched \cup {m}
      BY <2>4, <3>1 DEF Watched
    <3>3. QED
      BY <1>1, <2>1, <2>2, <3>2 DEF Register, Monitor!Watch
  <2>5. QED
    BY <1>1, <2>3, <2>4 DEF Register, Monitor!MonitorNext
<1>2. CASE Wake(m)
  BY <1>2 DEF Wake, Monitor!mvars, Watched, Unkicked, tableVars, clockVars
<1>3. ASSUME NEW v \in Value, Publish(m, v)
      PROVE  Monitor!Publish(m, v)
  BY <1>3 DEF Publish, Monitor!Publish, Watched, Unkicked, tableVars, clockVars
<1>4. CASE Kick(m)
  <2>1. Watched' = Watched /\ Unkicked' = Unkicked \ {m}
    BY <1>4 DEF Kick, Watched, Unkicked
  <2>2. Monitor!Kick(m)
    BY <1>4, <2>1 DEF Kick, Monitor!Kick, clockVars
  <2>3. QED
    BY <2>2 DEF Monitor!MonitorNext
<1>5. QED
  BY <1>1, <1>2, <1>3, <1>4 DEF ModuleStep, Monitor!MonitorNext

(* The clock advances for the promise as it does for the tasks: a task     *)
(* that holds an entry is past its registration.                           *)
LEMMA TickSimulated == IInv /\ Tick => Monitor!Tick
<1> SUFFICES ASSUME IInv, Tick PROVE Monitor!Tick
  OBVIOUS
<1> USE SupervisorAssumption DEF IInv, TypeOK
<1>1. Watched' = Watched /\ Unkicked' = Unkicked
  BY DEF Tick, Watched, Unkicked, tableVars
<1>2. \A m \in Watched : pc[m] # "start"
  BY DEF NoHandleYet, Watched, Slots, INVALID_HANDLE
<1>3. QED
  BY <1>1, <1>2 DEF Tick, Monitor!Tick, Monitor!Older, Older, Watched

(* The fixed table, the handles and the wrapping tick counter implement    *)
(* the promise of DeadlineMonitor, with the counter's width as horizon.    *)
THEOREM SupervisorImplementsMonitor == Spec => ImplementsMonitor
<1>1. Init => Monitor!MonitorInit
  BY DEF Init, Monitor!MonitorInit, Watched, Unkicked, Slots, INVALID_HANDLE
<1>2. IInv /\ IInv' /\ [Next]_vars => [Monitor!MonitorNext]_(Monitor!mvars)
  <2> SUFFICES ASSUME IInv, IInv', [Next]_vars
               PROVE  Monitor!MonitorNext \/ UNCHANGED Monitor!mvars
    OBVIOUS
  <2>1. ASSUME NEW m \in Modules, ModuleStep(m)
        PROVE  Monitor!MonitorNext \/ UNCHANGED Monitor!mvars
    BY <2>1, ModuleStepSimulated
  <2>2. CASE Sweep
    BY <2>2, SweepSimulated DEF Monitor!MonitorNext
  <2>3. CASE Tick
    BY <2>3, TickSimulated DEF Monitor!MonitorNext
  <2>4. CASE IwdgReset
    <3>1. Monitor!Restart
      BY <2>4 DEF IwdgReset, Monitor!Restart, Watched, Unkicked, Slots, INVALID_HANDLE
    <3>2. QED
      BY <3>1 DEF Monitor!MonitorNext
  <2>5. ASSUME NEW m \in Modules, Wedge(m) \/ Recover(m)
        PROVE  UNCHANGED Monitor!mvars
    BY <2>5 DEF Wedge, Recover, Monitor!mvars, Watched, Unkicked, tableVars, clockVars
  <2>6. CASE SupervisorStart \/ StopCpu \/ StoppedTick \/ UNCHANGED vars
    BY <2>6 DEF SupervisorStart, StopCpu, StoppedTick, vars, Monitor!mvars,
                Watched, Unkicked, tableVars
  <2>7. QED
    BY <2>1, <2>2, <2>3, <2>4, <2>5, <2>6 DEF Next
<1>3. QED
  BY <1>1, <1>2, Invariance, PTL DEF Spec, ImplementsMonitor, Monitor!MonitorSpec

(***************************************************************************)
(* What a reader of a queue may rely on: an overdue module is replaced by  *)
(* the end of the poll period in which it became overdue, and stays        *)
(* replaced until it publishes again.                                      *)
(***************************************************************************)

Replaced(m) == age[m] > MaxPeriod[m] + since => queue[m] = Fallback[m]

ReplacedOnTime == \A m \in Watched \ Unkicked : Replaced(m)

LEMMA ReplacedOnTimeStep ==
  IInv /\ ReplacedOnTime /\ [Next]_vars => ReplacedOnTime'
<1> SUFFICES ASSUME IInv, ReplacedOnTime, [Next]_vars,
                    NEW n \in Modules, n \in (Watched \ Unkicked)'
             PROVE  Replaced(n)'
  BY DEF ReplacedOnTime, Watched
<1> USE DEF tableVars, clockVars
<1>1. /\ age \in [Modules -> 0 .. TickMod] /\ age[n] \in Nat /\ since \in Nat
      /\ queue \in [Modules -> Value] /\ handle \in [Modules -> Slots \cup {INVALID_HANDLE}]
      /\ MaxPeriod[n] \in Nat /\ PollPeriod \in Nat \ {0} /\ TickMod \in Nat
      /\ MaxPeriod[n] + PollPeriod < TickMod /\ since <= PollPeriod
      /\ INVALID_HANDLE \notin Slots
      /\ DOMAIN pc = Modules
  BY SupervisorAssumption DEF IInv, TypeOK, Slots, INVALID_HANDLE
<1>2. n \in Watched \ Unkicked => Replaced(n)
  BY DEF ReplacedOnTime
<1>3. ASSUME age'[n] = 0, since' \in Nat PROVE Replaced(n)'
  <2>1. ~ (age'[n] > MaxPeriod[n] + since')
    <3>1. PICK k \in Nat : since' = k
      BY <1>3
    <3>2. ~ (0 > MaxPeriod[n] + k)
      BY <1>1
    <3>3. QED
      BY <1>3, <3>1, <3>2
  <2>2. QED
    BY <2>1 DEF Replaced
<1>4. ASSUME NEW m \in Modules, Register(m) PROVE Replaced(n)'
  <2>1. age' = [age EXCEPT ![m] = 0] /\ since' = since /\ queue' = queue
    BY <1>4 DEF Register
  <2>2. CASE n = m
    BY <1>1, <1>3, <2>1, <2>2
  <2>3. CASE n # m
    <3>1. n \in Watched \ Unkicked
      BY <1>1, <1>4, <2>3 DEF Register, Watched, Unkicked, FreeSlots
    <3>2. QED
      BY <1>1, <1>2, <2>1, <2>3, <3>1 DEF Replaced
  <2>4. QED
    BY <2>2, <2>3
<1>5. ASSUME NEW m \in Modules, Kick(m) PROVE Replaced(n)'
  <2>1. age' = [age EXCEPT ![m] = 0] /\ since' = since /\ queue' = queue
    BY <1>5 DEF Kick
  <2>2. CASE n = m
    BY <1>1, <1>3, <2>1, <2>2
  <2>3. CASE n # m
    <3>1. n \in Watched \ Unkicked
      BY <1>1, <1>5, <2>3 DEF Kick, Watched, Unkicked
    <3>2. QED
      BY <1>1, <1>2, <2>1, <2>3, <3>1 DEF Replaced
  <2>4. QED
    BY <2>2, <2>3
<1>6. ASSUME NEW m \in Modules, NEW v \in Value, Publish(m, v) PROVE Replaced(n)'
  <2>1. n # m /\ n \in Watched \ Unkicked
    BY <1>1, <1>6 DEF Publish, Watched, Unkicked
  <2>2. QED
    BY <1>1, <1>2, <1>6, <2>1 DEF Publish, Replaced
<1>7. ASSUME NEW m \in Modules, Wake(m) \/ Wedge(m) \/ Recover(m) PROVE Replaced(n)'
  <2>1. n \in Watched \ Unkicked
    BY <1>1, <1>7 DEF Wake, Wedge, Recover, Watched, Unkicked
  <2>2. QED
    BY <1>2, <1>7, <2>1 DEF Wake, Wedge, Recover, Replaced
<1>8. CASE Sweep
  <2>1. /\ n \in Watched \ Unkicked /\ age' = age /\ since = PollPeriod /\ since' = 0
        /\ queue'[n] = IF \E i \in Slots : owner[i] = n /\ IsOverdue(i)
                         THEN Fallback[n] ELSE queue[n]
    BY <1>1, <1>8 DEF Sweep, Watched, Unkicked
  <2>2. handle[n] \in Slots /\ owner[handle[n]] = n
    BY <2>1 DEF IInv, TableAgrees, Watched
  <2>3. CASE age[n] > MaxPeriod[n] /\ age[n] < TickMod
    BY <2>1, <2>2, <2>3, OverdueIsSilent DEF Replaced
  \* The counter's width lies beyond a full poll period: already replaced.
  <2>4. CASE ~ (age[n] < TickMod)
    <3>1. queue[n] = Fallback[n]
      BY <1>1, <1>2, <2>1, <2>4 DEF Replaced
    <3>2. QED
      BY <2>1, <3>1 DEF Replaced
  <2>5. CASE ~ (age[n] > MaxPeriod[n])
    BY <1>1, <2>1, <2>5 DEF Replaced
  <2>6. QED
    BY <2>3, <2>4, <2>5
<1>9. CASE Tick
  <2>1. /\ n \in Watched \ Unkicked /\ since' = since + 1 /\ queue' = queue
        /\ age'[n] = IF pc[n] = "start" THEN age[n] ELSE Older(age[n])
    BY <1>1, <1>9 DEF Tick, Watched, Unkicked
  <2>2. age'[n] <= age[n] + 1 /\ age'[n] \in Nat
    BY <1>1, <2>1 DEF Older
  <2>3. age'[n] > MaxPeriod[n] + since' => age[n] > MaxPeriod[n] + since
    BY <1>1, <2>1, <2>2
  <2>4. QED
    BY <1>2, <2>1, <2>3 DEF Replaced
<1>10. CASE IwdgReset
  BY <1>1, <1>10 DEF IwdgReset, Watched
<1>11. CASE SupervisorStart \/ StopCpu \/ StoppedTick \/ UNCHANGED vars
  <2>1. n \in Watched \ Unkicked /\ UNCHANGED <<age, queue>> /\ since' \in {since, 0}
    BY <1>11 DEF SupervisorStart, StopCpu, StoppedTick, vars, Watched, Unkicked
  <2>2. QED
    BY <1>1, <1>2, <1>11, <2>1 DEF SupervisorStart, StopCpu, StoppedTick, vars, Replaced
<1>12. QED
  BY <1>4, <1>5, <1>6, <1>7, <1>8, <1>9, <1>10, <1>11 DEF Next, ModuleStep

(* A module silent for its period and one poll shows its fallback to every *)
(* reader, however often the tick counter has wrapped since.               *)
THEOREM SupervisorFallbackInForce == Spec => []FallbackInForce
<1>1. Init => ReplacedOnTime
  BY SupervisorAssumption DEF Init, ReplacedOnTime, Watched, Slots, INVALID_HANDLE
<1>2. IInv /\ ReplacedOnTime => FallbackInForce
  <2> SUFFICES ASSUME IInv, ReplacedOnTime, NEW m \in Watched \ Unkicked,
                      age[m] > MaxPeriod[m] + PollPeriod
               PROVE  queue[m] = Fallback[m]
    BY DEF FallbackInForce
  <2>1. age[m] > MaxPeriod[m] + since
    BY SupervisorAssumption DEF IInv, TypeOK, Watched
  <2>2. QED
    BY <2>1 DEF ReplacedOnTime, Replaced
<1>3. QED
  BY <1>1, <1>2, ReplacedOnTimeStep, Invariance, PTL DEF Spec

=============================================================================
