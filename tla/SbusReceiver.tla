---------------------------- MODULE SbusReceiver ----------------------------
(***************************************************************************)
(* The SBUS input of matek_h743: the one-shot DMA capture of board.c and   *)
(* its interrupt callbacks, the decode of lib/rx/sbus.c, its receive       *)
(* timeout (lib/rx/shared/rx_timeout.c) on a wrapping tick counter, and    *)
(* the rx task that polls it into rx_queue.                                *)
(*                                                                         *)
(* The callbacks run in interrupts; sbus_poll() copies and clears the      *)
(* captured frame with interrupts off, and everything after that is local  *)
(* to the rx task, so a poll is one step.  frame_loss_count and            *)
(* last_frame_age_ms are diagnostics nothing reads back; they are left out.*)
(***************************************************************************)
EXTENDS Integers

CONSTANTS
  Sticks,        \* channel contents
  FramePeriod,   \* ticks between two frames of the receiver (14 ms)
  PollPeriod,    \* the rx task's vTaskDelay (20 ms)
  PollDeadline,  \* by when the rx task has polled again
  Timeout,       \* SBUS_TIMEOUT_MS (42 ms)
  TickMod,       \* TickType_t counts modulo this
  Malformed,     \* a full capture that is no SBUS frame
  NoFrame,       \* sbusFrameReady is false
  Horizon        \* history bound: how long silence and calm are remembered

ASSUME SbusAssumption ==
  /\ FramePeriod \in Nat \ {0}
  /\ PollPeriod \in Nat \ {0}
  /\ PollDeadline \in Nat
  /\ PollPeriod <= PollDeadline
  /\ Timeout \in Nat
  /\ FramePeriod < Timeout
  /\ TickMod \in Nat
  /\ Timeout + PollDeadline < TickMod
  /\ Horizon \in Nat

Ticks == 0 .. TickMod - 1

\* A well-formed 25-byte capture with its failsafe bit.
Frames == [ch : Sticks, failsafe : BOOLEAN]

ASSUME CaptureAssumption ==
  /\ Malformed \notin Frames
  /\ NoFrame \notin Frames \cup {Malformed}

VARIABLES
  receiver,   \* "good", "failsafe" (sets the bit) or "silent" (wire cut, dead)
  wire,       \* "gap" or "frame": a frame is on the wire
  sinceFrame, \* ticks since the receiver's last frame
  dma,        \* the capture: "off", "armed", "aligned", or begun "late"
  captured,   \* sbusLatestFrame, or NoFrame
  latest,     \* sbus.c's latest: [ch, status]
  lastValid,  \* timeout_watchdog.last_valid_frame_tick
  tick,       \* xTaskGetTickCount()
  sincePoll,  \* ticks since the rx task's last poll
  rxFrame,    \* rx_queue: what the rest of the pipeline sees
  noGood,     \* history: ticks since a frame without the bit was captured
  calm        \* history: ticks the receiver has been good and the line clean

lineVars == <<receiver, wire, sinceFrame>>
taskVars == <<latest, lastValid, sincePoll, rxFrame>>
vars == <<receiver, wire, sinceFrame, dma, captured, latest, lastValid, tick,
          sincePoll, rxFrame, noGood, calm>>

RxFrames == [ch : Sticks \cup {0}, status : {"OK", "FAILSAFE"}]

TypeOK ==
  /\ receiver \in {"good", "failsafe", "silent"}
  /\ wire \in {"gap", "frame"}
  /\ sinceFrame \in 0 .. FramePeriod
  /\ dma \in {"off", "armed", "aligned", "late"}
  /\ captured \in Frames \cup {Malformed, NoFrame}
  /\ latest \in RxFrames
  /\ lastValid \in Ticks
  /\ tick \in Ticks
  /\ sincePoll \in 0 .. PollDeadline
  /\ rxFrame \in RxFrames
  /\ noGood \in 0 .. Horizon
  /\ calm \in 0 .. Horizon

(* sbus_init() and the seeding poll of rx_start(). *)
Init ==
  /\ receiver \in {"good", "failsafe", "silent"}
  /\ wire = "gap"
  /\ sinceFrame \in 0 .. FramePeriod
  /\ dma = "armed"
  /\ captured = NoFrame
  /\ latest = [ch |-> 0, status |-> "FAILSAFE"]
  /\ tick \in Ticks
  /\ lastValid = tick
  /\ sincePoll = 0
  /\ rxFrame = latest
  /\ noGood = Horizon
  /\ calm = 0

-----------------------------------------------------------------------------
(* The receiver, the line and the interrupt callbacks. *)

(* Mutant: the capture is not re-armed, as the default weak callback does. *)
RearmForgotten == "off"

(* sbus_uart_rearm(): a capture that starts inside a frame ends at that    *)
(* frame's idle line, short.                                               *)
Rearm == IF wire = "frame" THEN "late" ELSE "armed"

FrameBegins ==
  /\ receiver # "silent"
  /\ wire = "gap"
  /\ sinceFrame = FramePeriod
  /\ wire' = "frame"
  /\ dma' = IF dma = "armed" THEN "aligned" ELSE dma
  /\ UNCHANGED <<receiver, sinceFrame, captured, tick, taskVars, noGood, calm>>

(* HAL_UARTEx_RxEventCallback(): a full capture replaces the latest frame, *)
(* read or not; a short one is dropped; both re-arm, outside the frame.    *)
FrameEnds(f) ==
  /\ wire = "frame"
  /\ wire' = "gap"
  /\ sinceFrame' = 0
  /\ captured' = IF dma = "aligned" THEN f ELSE captured
  /\ dma' = IF dma = "off" THEN "off" ELSE "armed"
  /\ noGood' = IF dma = "aligned" /\ f \in Frames /\ ~ f.failsafe THEN 0 ELSE noGood
  /\ calm' = IF f = Malformed THEN 0 ELSE calm
  /\ UNCHANGED <<receiver, tick, taskVars>>

Sent == {f \in Frames : f.failsafe = (receiver = "failsafe")} \cup {Malformed}

(* A parity, framing, noise or overrun error aborts the DMA reception;     *)
(* HAL_UART_ErrorCallback().                                               *)
LineError ==
  /\ dma # "off"
  /\ dma' = Rearm
  /\ calm' = 0
  /\ UNCHANGED <<lineVars, captured, tick, taskVars, noGood>>

(* The receiver loses or finds its radio link, or stops or starts sending; *)
(* a frame cut off ends as a short capture.                                *)
ReceiverChanges(r) ==
  /\ r # receiver
  /\ receiver' = r
  /\ IF r = "silent" /\ wire = "frame"
       THEN wire' = "gap" /\ dma' = IF dma = "off" THEN "off" ELSE "armed"
       ELSE UNCHANGED <<wire, dma>>
  /\ sinceFrame' \in IF receiver = "silent" THEN 0 .. FramePeriod ELSE {sinceFrame}
  /\ calm' = 0
  /\ UNCHANGED <<captured, tick, taskVars, noGood>>

-----------------------------------------------------------------------------
(* The rx task and time. *)

(* Mutant: signed subtraction. *)
ElapsedSigned(now, then) == now - then

Elapsed(now, then) == IF now >= then THEN now - then ELSE now - then + TickMod

(* Mutant: the failsafe bit is ignored. *)
StatusWithoutBit(f) == IF f \in Frames THEN "OK" ELSE "FAILSAFE"

StatusOf(f) == IF f.failsafe THEN "FAILSAFE" ELSE "OK"

(* rx_timeout_has_expired(). *)
Expired(stamp) == Elapsed(tick, stamp) >= Timeout

(* Mutant: the timer alone sets the status. *)
BackstopDecides(frame, stamp) ==
  [frame EXCEPT !.status = IF Expired(stamp) THEN "FAILSAFE" ELSE "OK"]

Backstop(frame, stamp) ==
  IF Expired(stamp) THEN [frame EXCEPT !.status = "FAILSAFE"] ELSE frame

(* rx_poll(): board_sbus_uart_take_frame(), decode and stamp of a          *)
(* well-formed frame, the backstop, and xQueueOverwrite().                 *)
Poll ==
  /\ sincePoll >= PollPeriod
  /\ LET wellFormed == captured \in Frames
         decoded == IF wellFormed THEN [ch |-> captured.ch, status |-> StatusOf(captured)]
                                  ELSE latest
         stamp == IF wellFormed THEN tick ELSE lastValid
     IN /\ lastValid' = stamp
        /\ latest' = Backstop(decoded, stamp)
  /\ captured' = NoFrame
  /\ rxFrame' = latest'
  /\ sincePoll' = 0
  /\ UNCHANGED <<lineVars, dma, tick, noGood, calm>>

Capped(n) == IF n < Horizon THEN n + 1 ELSE n

NextTick(t) == IF t + 1 = TickMod THEN 0 ELSE t + 1

(* A frame takes less than a tick, and a receiver that sends is punctual.  *)
Tick ==
  /\ sincePoll < PollDeadline
  /\ wire = "gap"
  /\ receiver = "silent" \/ sinceFrame < FramePeriod
  /\ tick' = NextTick(tick)
  /\ sincePoll' = sincePoll + 1
  /\ sinceFrame' = IF sinceFrame < FramePeriod THEN sinceFrame + 1 ELSE sinceFrame
  /\ noGood' = Capped(noGood)
  /\ calm' = IF receiver = "good" THEN Capped(calm) ELSE 0
  /\ UNCHANGED <<receiver, wire, dma, captured, latest, lastValid, rxFrame>>

Next ==
  \/ FrameBegins
  \/ \E f \in Sent : FrameEnds(f)
  \/ LineError
  \/ \E r \in {"good", "failsafe", "silent"} : ReceiverChanges(r)
  \/ Poll
  \/ Tick

Spec == Init /\ [][Next]_vars

-----------------------------------------------------------------------------

(* What the pipeline is told is good is recent: rx_queue says OK only if a *)
(* frame without the failsafe bit was captured within the timeout and two  *)
(* polls, also after any number of rollovers of the tick counter.          *)
LossReported ==
  rxFrame.status = "OK" => noGood <= Timeout + 2 * PollDeadline

(* The fast path: a receiver that reports its own loss is believed at the  *)
(* first poll of its frame, not after the timeout, and stays believed      *)
(* until it sends a good frame.                                            *)
BitReported ==
  [][(captured \in Frames /\ captured.failsafe /\ captured' = NoFrame)
       => rxFrame.status' = "FAILSAFE"]_vars

(* No false alarm and no deaf receiver: after a line error, a cut frame or *)
(* a loss, a frame period and a poll of clean reception are enough for     *)
(* rx_queue to say OK, and it says so as long as reception stays clean.    *)
GoodLinkReported ==
  calm > FramePeriod + PollDeadline => rxFrame.status = "OK"

(* A loss is latched: rx_queue goes from FAILSAFE back to OK only in a     *)
(* poll that takes a good frame; the timeout's elapsed time, which falls   *)
(* below the limit again with every rollover, never revives the link.      *)
LossLatched ==
  [][(rxFrame.status = "FAILSAFE" /\ rxFrame.status' = "OK")
       => (captured \in Frames /\ ~ captured.failsafe)]_vars

=============================================================================
