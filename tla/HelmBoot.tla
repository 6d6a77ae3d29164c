------------------------------- MODULE HelmBoot -------------------------------
(***************************************************************************)
(* The life of a matek_h743 board from reset to reset: main() and its      *)
(* start-up order (src/src/main.c), the halts of Error_Handler() and the   *)
(* FreeRTOS hooks, the first passes of the tasks that touch hardware, the  *)
(* commands that change the next boot, and every kind of reset.            *)
(*                                                                         *)
(* It composes PortClaims, ServoTimers and BootRequest.  What the tasks do *)
(* once they run is in the other modules.  The board's own UARTs are rx's  *)
(* and sport's for good; gps_task alone binds one by its .port.            *)
(***************************************************************************)
EXTENDS PortClaims, ServoTimers, BootRequest

CONSTANTS
  GpsUarts,    \* the ports board_gps_uart_init() knows
  MaxSets      \* bound: calls of `param set`

ASSUME BootAssumption ==
  /\ "gps" \in Subsystems
  /\ GpsUarts \subseteq UartPorts
  /\ MaxSets \in Nat

(* Mutant: the params are loaded after the pipeline has started. *)
LateParams ==
  <<"bootloader", "board", "supervisor", "rx", "mapping", "control", "output",
    "servo", "params", "imu", "baro", "battery", "gps", "cli", "telemetry",
    "sport", "heartbeat", "scheduler">>

(* main() *)
Calls ==
  <<"bootloader", "board", "supervisor", "params", "rx", "mapping", "control",
    "output", "servo", "imu", "baro", "battery", "gps", "cli", "telemetry",
    "sport", "heartbeat", "scheduler">>

VARIABLES
  cpu,       \* "main", "tasks" once the scheduler runs, "halted" with its
             \* interrupts off, or "rom" in the ROM bootloader
  next,      \* the call main() is at
  watchdog,  \* the IWDG counts
  moved,     \* servo_task has written a commanded pulse since the reset
  gps,       \* gps_task's UART: "unopened", "unbound", "opening" before its
             \* receive interrupt is enabled, "bound"
  uart,      \* the port gps_task has opened, or Unset
  received,  \* bytes in that UART's RDR: 0 or 1
  overrun,   \* its overrun flag, which no code clears
  dfu,       \* the cli is between writing the request and the reset
  sets       \* calls of `param set` so far

bootVars == <<cpu, next, watchdog, moved>>
gpsVars == <<gps, uart, received, overrun>>
vars == <<portVars, servoVars, requestVars, bootVars, gpsVars, dfu, sets>>

BootTypeOK ==
  /\ PortsTypeOK /\ ServoTypeOK /\ RequestTypeOK
  /\ cpu \in {"main", "tasks", "halted", "rom"}
  /\ next \in 1 .. Len(Calls)
  /\ watchdog \in BOOLEAN
  /\ moved \in BOOLEAN
  /\ gps \in {"unopened", "unbound", "opening", "bound"}
  /\ uart \in UartPorts \cup {Unset}
  /\ received \in {0, 1}
  /\ overrun \in BOOLEAN
  /\ dfu \in BOOLEAN
  /\ sets \in 0 .. MaxSets

BootInit ==
  /\ PortsInit /\ TimersInit /\ RequestInit
  /\ cpu = "main"
  /\ next = 1
  /\ watchdog = FALSE
  /\ moved = FALSE
  /\ gps = "unopened"
  /\ uart = Unset
  /\ received = 0
  /\ overrun = FALSE
  /\ dfu = FALSE
  /\ sets = 0

-----------------------------------------------------------------------------
(* main() *)

Calling(c) == cpu = "main" /\ Calls[next] = c
Return == next' = next + 1 /\ UNCHANGED <<cpu, watchdog, moved>>

(* bootloader_jump_if_requested(): jump_to_system_bootloader() or go on. *)
CheckRequest ==
  /\ Calling("bootloader")
  /\ \/ ConsumeRequest /\ cpu' = "rom" /\ UNCHANGED <<next, watchdog, moved>>
     \/ ~ Requested /\ Return /\ UNCHANGED requestVars
  /\ UNCHANGED <<portVars, servoVars, gpsVars, dfu, sets>>

(* params_init() *)
LoadParams ==
  /\ Calling("params")
  /\ LoadClaims
  /\ ReloadRate
  /\ Return
  /\ UNCHANGED <<requestVars, gpsVars, dfu, sets>>

(* HAL_Init() and board_init(), and the _start() functions that create and *)
(* seed a queue and create a task.                                         *)
StartPlain ==
  /\ cpu = "main"
  /\ Calls[next] \notin {"bootloader", "params", "servo", "scheduler"}
  /\ Return
  /\ UNCHANGED <<portVars, servoVars, requestVars, gpsVars, dfu, sets>>

(* servo_start(): rate, every slot, every channel, then the task. *)
StartServo ==
  /\ Calling("servo")
  /\ \/ (ResolveRate \/ ConfigureSlot \/ StartChannel) /\ UNCHANGED bootVars
     \/ AllStarted /\ Return /\ UNCHANGED servoVars
  /\ UNCHANGED <<portVars, requestVars, gpsVars, dfu, sets>>

(* vTaskStartScheduler() *)
StartScheduler ==
  /\ Calling("scheduler")
  /\ cpu' = "tasks"
  /\ UNCHANGED <<portVars, servoVars, requestVars, next, watchdog, moved, gpsVars, dfu, sets>>

(* The clock tree, a UART, a DMA stream, a timer or the heap refuses, and  *)
(* Error_Handler() or the malloc hook stops everything; nothing can refuse *)
(* in the first call and in params_init().                                 *)
HaltInMain ==
  /\ cpu = "main"
  /\ Calls[next] \notin {"bootloader", "params"}
  /\ cpu' = "halted"
  /\ UNCHANGED <<portVars, servoVars, requestVars, next, watchdog, moved, gpsVars, dfu, sets>>

-----------------------------------------------------------------------------
(* The tasks.  The supervisor has the higher priority: it starts the       *)
(* watchdog and sleeps before any other task has run.                      *)

(* Mutant: supervisor_task at the priority of the others. *)
TasksRunAtOnce == cpu = "tasks"

TasksRun == cpu = "tasks" /\ watchdog

\* USART2/3_IRQHandler() reads RDR only, and an overrun keeps its interrupt
\* pending: nothing of lower priority runs again.
Storm == gps = "bound" /\ overrun

Runs == TasksRun /\ ~ Storm

(* supervisor_task's first run; HAL_IWDG_Init() may time out, but has then *)
(* started the counter already.                                            *)
StartWatchdog ==
  /\ cpu = "tasks" /\ ~ watchdog
  /\ watchdog' = TRUE
  /\ cpu' \in {"tasks", "halted"}
  /\ UNCHANGED <<portVars, servoVars, requestVars, next, moved, gpsVars, dfu, sets>>

(* imu, baro, battery and gps bring up their hardware in their tasks, and  *)
(* a stack may overflow in any.                                            *)
HaltInTask ==
  /\ Runs
  /\ cpu' = "halted"
  /\ UNCHANGED <<portVars, servoVars, requestVars, next, watchdog, moved, gpsVars, dfu, sets>>

(* servo_hw_write() in servo_task. *)
MoveServos ==
  /\ Runs
  /\ moved' = TRUE
  /\ UNCHANGED <<portVars, servoVars, requestVars, cpu, next, watchdog, gpsVars, dfu, sets>>

(* The switch of board_gps_uart_init(). *)
Bindable == claim["gps"].port \in GpsUarts

(* gps_uart_common_init(): HAL_UART_Init() turns the receiver on. *)
Bind == gps' = "opening" /\ uart' = claim["gps"].port

(* gps_task resolves its binding once; .protocol, which is not modelled,   *)
(* may forbid it.                                                          *)
OpenGps ==
  /\ Runs /\ gps = "unopened"
  /\ \/ claim["gps"].source = "DIRECT" /\ Bindable /\ Bind
     \/ gps' = "unbound" /\ UNCHANGED uart
  /\ UNCHANGED <<portVars, servoVars, requestVars, bootVars, received, overrun, dfu, sets>>

(* LL_USART_EnableIT_RXNE() *)
ArmGps ==
  /\ Runs /\ gps = "opening"
  /\ gps' = "bound"
  /\ UNCHANGED <<portVars, servoVars, requestVars, bootVars, uart, received, overrun, dfu, sets>>

(* A byte ends on the wire.  Once the interrupt is enabled the handler is  *)
(* taken to read each byte before the next ends.                           *)
ByteArrives ==
  /\ Runs /\ uart # Unset
  /\ gps = "bound" => received = 0
  /\ received' = 1
  /\ overrun' = (overrun \/ received = 1)
  /\ UNCHANGED <<portVars, servoVars, requestVars, bootVars, gps, uart, dfu, sets>>

(* USART2_IRQHandler(), USART3_IRQHandler() *)
HandleByte ==
  /\ cpu = "tasks" /\ gps = "bound" /\ received = 1
  /\ received' = 0
  /\ UNCHANGED <<portVars, servoVars, requestVars, bootVars, gps, uart, overrun, dfu, sets>>

-----------------------------------------------------------------------------
(* The cli task: `param set` and `dfu`. *)

CommandRuns == Runs /\ ~ dfu

SetParam ==
  /\ CommandRuns
  /\ sets < MaxSets
  /\ sets' = sets + 1
  /\ \E outcome \in Outcomes :
       \/ StoreRate(rate, outcome)
          /\ \/ \E s \in Subsystems, p \in PortValues : SetPort(s, p, outcome)
             \/ \E s \in Subsystems, v \in SourceValues : SetSource(s, v, outcome)
       \/ SetOther(outcome) /\ \E r \in RateValues : StoreRate(r, outcome)
  /\ UNCHANGED <<requestVars, bootVars, gpsVars, dfu>>

RequestDfu ==
  /\ CommandRuns
  /\ WriteRequest
  /\ dfu' = TRUE
  /\ UNCHANGED <<portVars, servoVars, bootVars, gpsVars, sets>>

-----------------------------------------------------------------------------
(* Resets.  All of them stop the watchdog and reset every peripheral. *)

Reset ==
  /\ cpu' = "main" /\ next' = 1 /\ watchdog' = FALSE /\ moved' = FALSE
  /\ gps' = "unopened" /\ uart' = Unset /\ received' = 0 /\ overrun' = FALSE
  /\ dfu' = FALSE
  /\ ForgetClaims
  /\ TimersReset
  /\ UNCHANGED sets

DfuReset == Runs /\ dfu /\ SoftReset /\ Reset

(* Mutant: an interrupt handler feeds the watchdog. *)
UnfedByHandler == cpu = "halted"

\* The supervisor's sweeps, which alone feed the watchdog, have stopped.
Unfed == cpu = "halted" \/ Storm

WatchdogReset ==
  /\ watchdog /\ Unfed
  /\ Reset
  /\ UNCHANGED requestVars

(* The reset pin, or the ROM bootloader starting the application. *)
PinReset == Reset /\ UNCHANGED requestVars

PowerLoss == PowerOn /\ Reset

BootNext ==
  \/ CheckRequest \/ LoadParams \/ StartPlain \/ StartServo \/ StartScheduler
  \/ HaltInMain
  \/ StartWatchdog \/ HaltInTask \/ MoveServos
  \/ OpenGps \/ ArmGps \/ ByteArrives \/ HandleByte
  \/ SetParam \/ RequestDfu
  \/ DfuReset \/ WatchdogReset \/ PinReset \/ PowerLoss

(* The watchdog's own clock never stops; a CPU that is not stopped         *)
(* executes main() and lets the supervisor run.                            *)
BootFairness ==
  /\ WF_vars(CheckRequest \/ LoadParams \/ StartPlain \/ StartServo \/ StartScheduler)
  /\ WF_vars(StartWatchdog)
  /\ WF_vars(WatchdogReset)

BootSpec == BootInit /\ [][BootNext]_vars
FairBootSpec == BootSpec /\ BootFairness

-----------------------------------------------------------------------------

(* A board that stops where nothing resets it (Error_Handler() before the  *)
(* scheduler, main.c:51-58) has moved no servo: each pad is silent or      *)
(* holds the safe centre.  It rests on the supervisor's priority, which    *)
(* puts the start of the watchdog before servo_task's first write.         *)
UnrecoveredHaltIsSafe == (cpu = "halted" /\ ~ watchdog) => ~ moved

(* Pads that share a timer share its one handle, none undoes another's     *)
(* set-up, and when the tasks run every pad has a running channel and the  *)
(* handle that servo_hw_write() will use: no boot gets there half-way.     *)
PadsReady ==
  /\ ChannelsKept
  /\ cpu = "tasks" => \A p \in Pads : channel[p] = "running" /\ handles[p] # 0

(* main.c's order: the frame period a boot starts with is that of the rate *)
(* in flash, not of a cache that params_init() has yet to fill.            *)
BootUsesStoredRate ==
  [][cpu = "main" /\ cpu' = "tasks" => period = PeriodOf[savedRate]]_vars

(* The ROM is entered only by a `dfu` since power-on, and once for it: not *)
(* by a register an earlier life left, and not again by the resets that    *)
(* follow, though the soft reset flag stays set.                           *)
RequestServedOnce == [][cpu # "rom" /\ cpu' = "rom" => asked]_vars

(* A board that stops once the watchdog counts boots again: after a halt   *)
(* in a task, and after an overrun of the GPS UART has taken the CPU away. *)
StoppedBoardReboots ==
  (watchdog /\ (cpu = "halted" \/ Storm)) ~> (cpu = "main")

=============================================================================
