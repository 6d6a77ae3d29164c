------------------------------ MODULE GpsReader ------------------------------
(***************************************************************************)
(* A position's way from the GPS module's UART to gps_queue: the receive   *)
(* ring and its interrupt (boards/matek_h743/board.c), the sentence        *)
(* accumulator and gps_task (lib/sensors/gps.c) under the supervisor's     *)
(* promise (DeadlineMonitor).  The module can be unplugged and plugged in  *)
(* again at any byte.                                                      *)
(*                                                                         *)
(* A sentence is three tokens: "$", its text, and its checksum with the    *)
(* line terminator; the checksum accepts its own text and no other.  The   *)
(* unit of time is one period of gps_task; any number of bytes may arrive  *)
(* in one.                                                                 *)
(***************************************************************************)
EXTENDS DeadlineMonitor, Sequences

CONSTANTS
  RingUsable,     \* tokens the ring holds: GPS_UART_RING_SIZE - 1
  LineMax,        \* tokens of a line: GPS_LINE_MAX_LEN - 1
  Period,         \* units gps_task sleeps (GPS_TASK_PERIOD_MS)
  Deadline,       \* units by which a live gps_task has finished its pass
  Horizon         \* history bound: how long calm is remembered

(* A GGA with a fix, one without, and an RMC or any other sentence.  Only  *)
(* a GGA sets the status, and the numbers of a fix are left out.           *)
Fixes == {"position", "no position"}
Contents == Fixes \cup {"other"}
Sentence(s) == << <<"$">>, <<"text", s>>, <<"end", s>> >>
Begun == {SubSeq(Sentence(s), 1, i) : s \in Contents, i \in 1 .. 2}
Ends == {<<"end", s>> : s \in Contents}
Tokens == {<<"$">>} \cup {<<"text", s>> : s \in Contents} \cup Ends

Readings == {"OK", "FAILED"}
NoFix == "FAILED"

ASSUME GpsAssumption ==
  /\ Modules = {"gps"}
  /\ Value = Readings
  /\ Seed = [m \in Modules |-> NoFix]
  /\ Fallback = [m \in Modules |-> NoFix]
  /\ RingUsable \in Nat
  /\ LineMax \in Nat
  /\ 2 <= LineMax
  /\ Period \in Nat \ {0}
  /\ Deadline \in Nat /\ Period <= Deadline /\ Deadline <= MaxPeriod["gps"]
  /\ Horizon \in Nat

VARIABLES
  plugged,  \* the module has power and is connected
  sending,  \* tokens of its current sentence still to come
  ring,     \* gpsRxBuf from tail to head
  line,     \* lineBuf up to lineLen
  latest,   \* latestFix
  pc,       \* where gps_task is
  stuck,    \* gps_task gets no further for now
  heard,    \* history: what the ring took since it last took a "$", up to an end
  newest,   \* history: the last GGA the ring took from "$" to its end, or "none"
  calm      \* history: units since newest changed, the plug was pulled or
            \* gps_task was stuck

wireVars == <<plugged, sending, ring, heard, newest>>
readVars == <<line, latest>>
taskVars == <<pc, stuck>>
vars == <<mvars, wireVars, readVars, taskVars, calm>>

TypeOK ==
  /\ queue["gps"] \in Readings
  /\ watched \subseteq Modules
  /\ age["gps"] \in 0 .. AgeCap
  /\ unkicked \subseteq Modules
  /\ since \in 0 .. PollPeriod
  /\ {plugged, stuck} \subseteq BOOLEAN
  /\ sending \in Seq(Tokens) /\ Len(sending) <= 3
  /\ ring \in Seq(Tokens) /\ Len(ring) <= RingUsable
  /\ line \in Seq(Tokens) /\ Len(line) <= LineMax
  /\ latest \in Readings
  /\ pc \in {"start", "delay", "drain", "kick"}
  /\ heard \in Begun \cup {<<>>}
  /\ newest \in Fixes \cup {"none"}
  /\ calm \in 0 .. Horizon

(* gps_start() seeds the queue with FAILED. *)
Init ==
  /\ MonitorInit
  /\ plugged \in BOOLEAN
  /\ sending = <<>>
  /\ ring = <<>>
  /\ line = <<>>
  /\ latest = NoFix
  /\ pc = "start"
  /\ stuck = FALSE
  /\ heard = <<>>
  /\ newest = "none"
  /\ calm = 0

-----------------------------------------------------------------------------
(* The GPS module and the UART. *)

Room == Len(ring) < RingUsable

(* USART3_IRQHandler() and gps_ring_push(): a full ring drops the byte.    *)
(* Before gps_task has bound the port nothing is received.                 *)
Receive(b) ==
  LET taken == pc # "start" /\ Room
      whole == {s \in Fixes : taken /\ Append(heard, b) = Sentence(s)}
  IN
  /\ ring' = IF taken THEN Append(ring, b) ELSE ring
  /\ heard' = CASE ~ taken -> heard
                [] taken /\ b = <<"$">> -> <<b>>
                [] taken /\ b # <<"$">> ->
                     IF Append(heard, b) \in Begun THEN Append(heard, b) ELSE <<>>
  /\ \/ whole = {} /\ UNCHANGED <<newest, calm>>
     \/ newest' \in whole /\ calm' = IF newest = newest' THEN calm ELSE 0
  /\ UNCHANGED <<mvars, plugged, readVars, taskVars>>

StartsSentence(s) ==
  /\ plugged /\ sending = <<>>
  /\ sending' = Tail(Sentence(s))
  /\ Receive(Head(Sentence(s)))

GoesOn ==
  /\ sending # <<>>
  /\ sending' = Tail(sending)
  /\ Receive(Head(sending))

Unplug ==
  /\ plugged
  /\ plugged' = FALSE
  /\ sending' = <<>>
  /\ calm' = 0
  /\ UNCHANGED <<mvars, ring, heard, newest, readVars, taskVars>>

(* The module is connected in the middle of a sentence, or between two.    *)
Plug(s, k) ==
  /\ ~ plugged
  /\ plugged' = TRUE
  /\ sending' = SubSeq(Sentence(s), k, 3)
  /\ UNCHANGED <<mvars, ring, heard, newest, readVars, taskVars, calm>>

-----------------------------------------------------------------------------
(* gps_task. *)

(* supervisor_register() and board_gps_uart_init(). *)
Start ==
  /\ pc = "start"
  /\ Watch("gps")
  /\ pc' = "delay"
  /\ UNCHANGED <<wireVars, readVars, stuck, calm>>

Wake ==
  /\ pc = "delay" /\ ~ stuck
  /\ age["gps"] >= Period
  /\ pc' = "drain"
  /\ UNCHANGED <<mvars, wireVars, readVars, stuck, calm>>

(* nmea_checksum_valid(): the sentences a line with its end can be.        *)
Valid(text) == {s \in Contents : text = Sentence(s)}

(* parse_gga(): a fix quality of 0 or an empty position is no fix.         *)
Parsed(s) ==
  CASE s = "position" -> "OK"
    [] s = "no position" -> "FAILED"
    [] s = "other" -> latest

(* Mutant: "$" inside a line is an ordinary byte. *)
RestartsOnlyIdle(b) == b = <<"$">> /\ line = <<>>

RestartsLine(b) == b = <<"$">>

(* gps_process_byte() on the oldest byte of the ring: "$" starts over, a   *)
(* terminator ends the line, and a line that is too long is dropped.       *)
ReadByte ==
  LET b == Head(ring) IN
  /\ pc = "drain" /\ ~ stuck
  /\ ring # <<>>
  /\ ring' = Tail(ring)
  /\ \/ RestartsLine(b) /\ line' = <<b>> /\ latest' = latest
     \/ /\ ~ RestartsLine(b) /\ line # <<>> /\ b \in Ends
        /\ line' = <<>>
        /\ IF Valid(Append(line, b)) = {}
             THEN latest' = latest
             ELSE latest' \in {Parsed(s) : s \in Valid(Append(line, b))}
     \/ /\ ~ RestartsLine(b) /\ line # <<>> /\ b \notin Ends
        /\ line' = IF Len(line) < LineMax THEN Append(line, b) ELSE <<>>
        /\ latest' = latest
     \/ ~ RestartsLine(b) /\ line = <<>> /\ UNCHANGED <<line, latest>>
  /\ UNCHANGED <<mvars, plugged, sending, heard, newest, taskVars, calm>>

(* xQueueOverwrite(), whether or not anything was received. *)
PublishFix ==
  /\ pc = "drain" /\ ~ stuck
  /\ ring = <<>>
  /\ Publish("gps", latest)
  /\ pc' = "kick"
  /\ UNCHANGED <<wireVars, readVars, stuck, calm>>

(* supervisor_kick(). *)
KickSupervisor ==
  /\ pc = "kick" /\ ~ stuck
  /\ Kick("gps")
  /\ pc' = "delay"
  /\ UNCHANGED <<wireVars, readVars, stuck, calm>>

(* The task gets no further in its pass, before its publication or between *)
(* that and its kick.                                                      *)
GetsStuck ==
  /\ pc \in {"drain", "kick"} /\ ~ stuck
  /\ stuck' = TRUE
  /\ UNCHANGED <<mvars, wireVars, readVars, pc, calm>>

GetsFree ==
  /\ stuck
  /\ stuck' = FALSE
  /\ UNCHANGED <<mvars, wireVars, readVars, pc, calm>>

-----------------------------------------------------------------------------
(* Time. *)

GpsSweep ==
  /\ Sweep
  /\ UNCHANGED <<wireVars, readVars, taskVars, calm>>

Capped(n) == IF n < Horizon THEN n + 1 ELSE n

GpsTick ==
  /\ Tick
  /\ pc # "start"
  /\ stuck \/ age["gps"] < Deadline
  /\ calm' = IF stuck THEN 0 ELSE Capped(calm)
  /\ UNCHANGED <<wireVars, readVars, taskVars>>

Next ==
  \/ \E s \in Contents : StartsSentence(s)
  \/ GoesOn
  \/ Unplug
  \/ \E s \in Contents, k \in 2 .. 4 : Plug(s, k)
  \/ Start
  \/ Wake
  \/ ReadByte
  \/ PublishFix
  \/ KickSupervisor
  \/ GetsStuck
  \/ GetsFree
  \/ GpsSweep
  \/ GpsTick

Spec == Init /\ [][Next]_vars

-----------------------------------------------------------------------------

StatusOf(gga) == IF gga = "position" THEN "OK" ELSE "FAILED"

(* Whatever bytes a full ring has dropped, in whichever sentences, and     *)
(* wherever the module was plugged in: the last GGA the ring took from "$" *)
(* to its terminator decides the status once it is read, and nothing else  *)
(* does, no splice of two sentences and no line without an end.            *)
WholeSentencesCount == ring = <<>> => latest = StatusOf(newest)

(* For how long a pass can be outstanding: what was left of the last one   *)
(* after its publication, and the next one.                                *)
FollowBound == Deadline - Period + Deadline

(* What gps_get_latest() hands out follows the last whole GGA: once it has *)
(* not changed for longer than FollowBound, and again as soon after the    *)
(* supervisor has substituted FAILED for a gps_task that was stuck, before *)
(* its publication or between that and its kick.                           *)
FixFollows == calm > FollowBound => queue["gps"] = StatusOf(newest)

(* sensors.md: gps_get_latest() reports FAILED "for as long as nothing     *)
(* answers, never a fabricated last-known value".                          *)
AbsenceReported == ~ plugged /\ calm = Horizon => queue["gps"] = "FAILED"

=============================================================================
