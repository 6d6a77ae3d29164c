------------------------------ MODULE SportLink ------------------------------
(***************************************************************************)
(* The S.Port link of matek_h743: sport_task() and its receive state       *)
(* machine (lib/telemetry/sport.c) over the half-duplex driver of UART7    *)
(* (boards/matek_h743/board.c), on a bus whose receiver polls one sensor   *)
(* per time slot or pushes a parameter.                                    *)
(*                                                                         *)
(* One unit of time is one byte on the wire.  The interrupt handler runs   *)
(* as soon as it is pending and preempts the task between any two of its   *)
(* accesses to CR1, which the task reads and writes back separately.  The  *)
(* task is late only after a pushed parameter: param_set_u32() erases      *)
(* flash inside it, and the bytes of the slots it misses wait in the ring. *)
(* Payload bytes are tokens and the checksum accepts exactly whole frames. *)
(***************************************************************************)
EXTENDS Integers, Sequences

CONSTANTS
  SPORT_FIELD_COUNT, \* entries of sport_fields[]
  FrameLen,     \* bytes of a stuffed answer
  RingUsable,   \* bytes a ring holds: SPORT_UART_RING_SIZE - 1
  SlotLen,      \* byte times from one poll to the next
  Latency,      \* byte times within which the task is done, if not erasing
  NoByte,
  NoReply,
  Skipped       \* a poll whose field is FAILED

ASSUME SportAssumption ==
  /\ SPORT_FIELD_COUNT \in Nat \ {0}
  /\ FrameLen \in Nat \ {0}
  /\ RingUsable \in Nat
  /\ FrameLen <= RingUsable
  /\ Latency \in Nat
  /\ Latency < RingUsable
  /\ SlotLen \in Nat
  /\ 3 + Latency + FrameLen <= SlotLen
  /\ 6 + Latency <= SlotLen

Fields == 0 .. SPORT_FIELD_COUNT - 1
Frame(f) == [k \in 1 .. FrameLen |-> <<f, k>>]

(* A push sets a parameter of the trim block or any other one, which is    *)
(* ignored.                                                                *)
Pushes == {"trim", "mode"}

(* What the receiver does with a slot, and the bytes it puts on the wire.  *)
(* Another sensor's answer may hold our own ID as a data byte.  The data   *)
(* of a push goes as it is, its checksum needs stuffing.                   *)
Kinds == {"ours", "other"} \cup Pushes
START_STOP == <<"START_STOP">>
PHYSICAL_ID == <<"PHYSICAL_ID">>
PUSH_PHYSICAL_ID == <<"PUSH_PHYSICAL_ID">>
DLE == <<"DLE">>

BytesOf(kind) ==
  CASE kind = "ours" -> <<START_STOP, PHYSICAL_ID>>
    [] kind = "other" -> <<START_STOP, <<"ID">>, PHYSICAL_ID>>
    [] OTHER -> <<START_STOP, PUSH_PHYSICAL_ID, <<"data", kind>>, DLE, <<"sum", kind>> >>

Received == UNION {{BytesOf(k)[i] : i \in DOMAIN BytesOf(k)} : k \in Kinds}
TxBytes == Fields \X (1 .. FrameLen)

(* The three marks are none of what they stand beside. *)
ASSUME MarkAssumption ==
  /\ NoByte \notin Received \cup TxBytes
  /\ Skipped \notin Fields
  /\ NoReply \notin Fields
  /\ NoReply \notin Pushes
  /\ NoReply # Skipped

VARIABLES
  slot,     \* what the receiver does in the current slot
  slotTime, \* byte times since the slot began
  rdr,      \* received byte the handler has not read, or NoByte
  cr1,      \* TE, RE, TXEIE and TCIE
  tdr,      \* transmit data register, or NoByte
  shifting, \* byte in the shift register, or NoByte
  tc,       \* the transmission complete flag
  rxRing,   \* sportRxBuf from tail to head
  txRing,   \* sportTxBuf from tail to head
  notified, \* the task's notification
  pc,       \* where sport_task is
  reg,      \* CR1 as the task has read it
  toSend,   \* bytes of the answer not yet appended
  rx,       \* sportRxState, sportRxByteStuffing and sportPushBuf
  field,    \* sportFieldIndex
  lag,      \* byte times the task has had work to do
  late,     \* history: an erase made the task late, and it still shows
  clean,    \* history: the slot began without being late
  out,      \* history: bytes that left in this slot
  reply,    \* history: the field answered in this slot, Skipped or NoReply
  applied   \* history: the push applied in this slot, or NoReply

busVars == <<slot, slotTime, clean>>
uartVars == <<rdr, cr1, tdr, shifting, tc>>
ringVars == <<rxRing, txRing, notified>>
sportTaskVars == <<pc, reg, toSend, rx, field, reply, applied, late>>
sportVars == <<busVars, uartVars, ringVars, sportTaskVars, lag, out>>

CR1 == [te : BOOLEAN, re : BOOLEAN, txeie : BOOLEAN, tcie : BOOLEAN]
Listening == [te |-> FALSE, re |-> TRUE, txeie |-> FALSE, tcie |-> FALSE]
RxStates == [state : {"IDLE", "AWAITING_ID", "PUSH_PAYLOAD"}, stuffing : BOOLEAN,
             payload : Received \cup {NoByte}]

SportTypeOK ==
  /\ slot \in Kinds
  /\ slotTime \in 0 .. SlotLen
  /\ rdr \in Received \cup {NoByte}
  /\ cr1 \in CR1
  /\ tdr \in TxBytes \cup {NoByte}
  /\ shifting \in TxBytes \cup {NoByte}
  /\ tc \in BOOLEAN
  /\ rxRing \in Seq(Received) /\ Len(rxRing) <= RingUsable
  /\ txRing \in Seq(TxBytes) /\ Len(txRing) <= RingUsable
  /\ notified \in BOOLEAN
  /\ pc \in {"wait", "drain", "append", "clear", "clear write", "set", "set write",
             "arm", "arm write", "erasing"}
  /\ reg \in CR1
  /\ toSend \in Seq(TxBytes) /\ Len(toSend) <= FrameLen
  /\ rx \in RxStates
  /\ field \in Fields
  /\ lag \in 0 .. Latency
  /\ {late, clean} \subseteq BOOLEAN
  /\ out \in Seq(TxBytes)
  /\ reply \in Fields \cup {Skipped, NoReply}
  /\ applied \in Pushes \cup {NoReply}

(* board_sport_uart_init() has left the driver listening; no pin has been  *)
(* driven, so TC is still set from the peripheral's reset.                 *)
SportInit ==
  /\ slot \in Kinds
  /\ slotTime = 0
  /\ rdr = NoByte
  /\ cr1 = Listening
  /\ tdr = NoByte
  /\ shifting = NoByte
  /\ tc = TRUE
  /\ rxRing = <<>>
  /\ txRing = <<>>
  /\ notified = FALSE
  /\ pc = "wait"
  /\ reg = Listening
  /\ toSend = <<>>
  /\ rx = [state |-> "IDLE", stuffing |-> FALSE, payload |-> NoByte]
  /\ field = 0
  /\ lag = 0
  /\ late = FALSE
  /\ clean = TRUE
  /\ out = <<>>
  /\ reply = NoReply
  /\ applied = NoReply

-----------------------------------------------------------------------------
(* UART7 and its interrupt. *)

Pending ==
  \/ rdr # NoByte
  \/ cr1.txeie /\ tdr = NoByte
  \/ cr1.tcie /\ tc

(* Mutant: a full ring is overrun by one. *)
RoomOffByOne(ring) == Len(ring) <= RingUsable

Room(ring) == Len(ring) < RingUsable

(* Mutant: TCIE is not armed after the last byte. *)
NothingLeftUnarmed(cr) == [cr EXCEPT !.txeie = FALSE]

(* The ring is empty: wait for the last byte to be gone. *)
NothingLeft(cr) == [cr EXCEPT !.txeie = FALSE, !.tcie = TRUE]

(* Mutant: the transmitter is left on. *)
EnableReceiveOnly(cr) == [cr EXCEPT !.re = TRUE]

(* sport_uart_enable_receive(). *)
EnableReceive(cr) == [cr EXCEPT !.te = FALSE, !.re = TRUE]

(* UART7_IRQHandler(): the received byte, or nothing if the ring is full,  *)
(* then TXE, then TC.  A byte put into TDR clears TC and moves on if the   *)
(* transmitter is enabled and idle.                                        *)
UART7_IRQHandler ==
  LET feeds == cr1.txeie /\ tdr = NoByte /\ txRing # <<>>
      drained == cr1.txeie /\ tdr = NoByte /\ txRing = <<>>
      completes == tc /\ ~ feeds /\ (cr1.tcie \/ drained)
      afterTxe == IF drained THEN NothingLeft(cr1) ELSE cr1
      moves == feeds /\ cr1.te /\ shifting = NoByte
  IN
  /\ Pending
  /\ rdr' = NoByte
  /\ rxRing' = IF rdr # NoByte /\ Room(rxRing) THEN Append(rxRing, rdr) ELSE rxRing
  /\ notified' = (notified \/ rdr # NoByte)
  /\ txRing' = IF feeds THEN Tail(txRing) ELSE txRing
  /\ shifting' = IF moves THEN Head(txRing) ELSE shifting
  /\ tdr' = IF feeds /\ ~ moves THEN Head(txRing) ELSE tdr
  /\ tc' = (tc /\ ~ feeds)
  /\ cr1' = IF completes THEN EnableReceive([afterTxe EXCEPT !.tcie = FALSE]) ELSE afterTxe
  /\ UNCHANGED <<busVars, sportTaskVars, lag, out>>

(* A write to CR1: a byte that is being shifted is lost when TE goes off,  *)
(* TC is set then, and a byte that waits in TDR starts when TE comes on.   *)
WriteCr1(new) ==
  LET kept == IF new.te THEN shifting ELSE NoByte
      moves == new.te /\ kept = NoByte /\ tdr # NoByte
  IN
  /\ cr1' = new
  /\ shifting' = IF moves THEN tdr ELSE kept
  /\ tdr' = IF moves THEN NoByte ELSE tdr
  /\ tc' = (tc \/ (cr1.te /\ ~ new.te))
  /\ UNCHANGED rdr

-----------------------------------------------------------------------------
(* sport_task. *)

Goto(step) == pc' = step

(* ulTaskNotifyTake() returns. *)
Wake ==
  /\ pc = "wait" /\ notified
  /\ notified' = FALSE
  /\ Goto("drain")
  /\ UNCHANGED <<busVars, uartVars, rxRing, txRing, reg, toSend, rx, field, reply, applied,
                 late, lag, out>>

Block ==
  /\ pc = "drain" /\ rxRing = <<>>
  /\ Goto("wait")
  /\ lag' = 0
  /\ UNCHANGED <<busVars, uartVars, ringVars, reg, toSend, rx, field, reply, applied, late, out>>

(* A byte of a push frame as destuffed; <<"ID">> stands for a wrong one. *)
Destuffed(b) == IF rx.stuffing = (b[1] = "sum") THEN b ELSE <<"ID">>

(* Mutant: the poll marker does not clear the stuffing flag. *)
ReceivedMarkerStuffed == [rx EXCEPT !.state = "AWAITING_ID", !.payload = NoByte]

ReceivedMarker == [rx EXCEPT !.state = "AWAITING_ID", !.stuffing = FALSE, !.payload = NoByte]

(* sport_receive_byte(): the state it leaves ... *)
Receive(b) ==
  CASE b = START_STOP -> ReceivedMarker
    [] b # START_STOP /\ rx.state = "AWAITING_ID" ->
         IF b = PUSH_PHYSICAL_ID THEN [rx EXCEPT !.state = "PUSH_PAYLOAD"]
                                 ELSE [rx EXCEPT !.state = "IDLE"]
    [] b # START_STOP /\ rx.state = "PUSH_PAYLOAD" ->
         IF b = DLE THEN [rx EXCEPT !.stuffing = TRUE]
         ELSE IF rx.payload = NoByte THEN [rx EXCEPT !.stuffing = FALSE, !.payload = Destuffed(b)]
         ELSE [rx EXCEPT !.stuffing = FALSE, !.payload = NoByte, !.state = "IDLE"]
    [] OTHER -> rx

(* Mutant: our ID is taken for a poll wherever it stands. *)
IsPollAnywhere(b) == b = PHYSICAL_ID

(* ... whether it was a poll of ours, and whether it completed a push that *)
(* sport_apply_push() lets through.                                        *)
IsPoll(b) == rx.state = "AWAITING_ID" /\ b = PHYSICAL_ID

IsPush(b) ==
  /\ rx.state = "PUSH_PAYLOAD"
  /\ rx.payload = <<"data", "trim">>
  /\ Destuffed(b) = <<"sum", "trim">>

ReadByte ==
  LET b == Head(rxRing) IN
  /\ pc = "drain" /\ rxRing # <<>>
  /\ rxRing' = Tail(rxRing)
  /\ rx' = Receive(b)
  /\ \/ /\ ~ IsPoll(b) /\ ~ IsPush(b)
        /\ UNCHANGED <<pc, field, toSend, reply, applied, late, out>>
     \/ /\ IsPoll(b)
        /\ field' = (field + 1) % SPORT_FIELD_COUNT
        /\ \/ /\ toSend' = Frame(field)
              /\ reply' = IF clean THEN field ELSE NoReply
              /\ Goto("append")
           \/ /\ reply' = IF clean THEN Skipped ELSE NoReply
              /\ UNCHANGED <<toSend, pc>>
        /\ UNCHANGED <<applied, late, out>>
     \/ /\ IsPush(b)
        /\ applied' = IF clean THEN "trim" ELSE NoReply
        /\ late' = TRUE
        /\ out' = <<>>
        /\ Goto("erasing")
        /\ UNCHANGED <<field, toSend, reply>>
  /\ UNCHANGED <<busVars, uartVars, txRing, notified, reg, lag>>

(* param_set_u32() returns, after a second or two. *)
EraseEnds ==
  /\ pc = "erasing"
  /\ Goto("drain")
  /\ UNCHANGED <<busVars, uartVars, ringVars, reg, toSend, rx, field, reply, applied, late,
                 lag, out>>

(* One turn of board_sport_uart_write()'s loop; a full ring makes it spin. *)
AppendByte ==
  /\ pc = "append" /\ Room(txRing)
  /\ txRing' = Append(txRing, Head(toSend))
  /\ toSend' = Tail(toSend)
  /\ Goto(IF Len(toSend) = 1 THEN "clear" ELSE "append")
  /\ UNCHANGED <<busVars, uartVars, rxRing, notified, reg, rx, field, reply, applied, late,
                 lag, out>>

(* Mutant: TXE is armed only while the line still listens. *)
ArmedLate(cr) == [cr EXCEPT !.txeie = cr.re]

Armed(cr) == [cr EXCEPT !.txeie = TRUE]

(* sport_uart_enable_transmit() and the arming of TXE: three               *)
(* read-modify-writes of CR1.                                              *)
ReadCr1 ==
  /\ pc \in {"clear", "set", "arm"}
  /\ reg' = cr1
  /\ Goto(CASE pc = "clear" -> "clear write" [] pc = "set" -> "set write" [] pc = "arm" -> "arm write")
  /\ UNCHANGED <<busVars, uartVars, ringVars, toSend, rx, field, reply, applied, late, lag, out>>

WriteBack ==
  /\ \/ pc = "clear write" /\ WriteCr1([reg EXCEPT !.te = FALSE, !.re = FALSE]) /\ Goto("set")
     \/ pc = "set write" /\ WriteCr1([reg EXCEPT !.te = TRUE]) /\ Goto("arm")
     \/ pc = "arm write" /\ WriteCr1(Armed(reg)) /\ Goto("drain")
  /\ reg' = Listening
  /\ UNCHANGED <<busVars, ringVars, toSend, rx, field, reply, applied, late, lag, out>>

Task ==
  /\ ~ Pending
  /\ Wake \/ Block \/ ReadByte \/ EraseEnds \/ AppendByte \/ ReadCr1 \/ WriteBack

-----------------------------------------------------------------------------
(* The bus. *)

(* One byte time: a byte of the receiver's reaches the UART if it listens, *)
(* a byte that was being shifted has left, and one that waits in TDR       *)
(* starts if the transmitter is enabled.  With TE and RE both on, which    *)
(* only a late time reaches, the UART's echo of itself is left out: a      *)
(* frame has no poll marker in it.                                         *)
ByteTime ==
  /\ ~ Pending
  /\ slotTime < SlotLen
  /\ late \/ lag < Latency
  /\ slotTime' = slotTime + 1
  /\ rdr' = IF cr1.re /\ slotTime' \in DOMAIN BytesOf(slot) THEN BytesOf(slot)[slotTime'] ELSE NoByte
  /\ shifting' = IF cr1.te THEN tdr ELSE NoByte
  /\ tdr' = IF cr1.te THEN NoByte ELSE tdr
  /\ tc' = (tc \/ (shifting # NoByte /\ tdr = NoByte))
  /\ out' = IF shifting = NoByte \/ late THEN out ELSE Append(out, shifting)
  /\ lag' = IF late \/ (pc = "wait" /\ ~ notified) THEN 0 ELSE lag + 1
  /\ UNCHANGED <<slot, clean, cr1, ringVars, sportTaskVars>>

(* Nothing is left of a late time but the receive state. *)
Settled ==
  /\ pc = "wait" /\ ~ notified /\ rxRing = <<>>
  /\ txRing = <<>> /\ tdr = NoByte /\ shifting = NoByte
  /\ cr1 = Listening

NextSlot(kind) ==
  /\ ~ Pending
  /\ slotTime = SlotLen
  /\ slot' = kind
  /\ slotTime' = 0
  /\ late' = (late /\ ~ Settled)
  /\ clean' = ~ late'
  /\ out' = <<>>
  /\ reply' = NoReply
  /\ applied' = NoReply
  /\ UNCHANGED <<uartVars, ringVars, pc, reg, toSend, rx, field, lag>>

SportNext ==
  \/ UART7_IRQHandler
  \/ Task
  \/ ByteTime
  \/ \E kind \in Kinds : NextSlot(kind)

SportSpec == SportInit /\ [][SportNext]_sportVars

(* Interrupts are taken, the bus goes on, and a task that is ready again   *)
(* and again between the interrupts gets its time slices.                  *)
FairSpec ==
  /\ SportSpec
  /\ WF_sportVars(UART7_IRQHandler)
  /\ SF_sportVars(Task)
  /\ WF_sportVars(ByteTime)
  /\ WF_sportVars(\E kind \in Kinds : NextSlot(kind))

-----------------------------------------------------------------------------

(* A slot that began with nothing left of an erase is kept: a poll of ours *)
(* is answered in its own slot, with exactly one whole frame of the field  *)
(* whose turn it is, or with nothing if that field is FAILED; in anybody   *)
(* else's slot the driver does not put a byte on the bus.                  *)
SlotKept ==
  slotTime = SlotLen /\ clean =>
    IF slot = "ours"
      THEN IF reply = Skipped THEN out = <<>> ELSE reply \in Fields /\ out = Frame(reply)
      ELSE reply = NoReply /\ out = <<>>

(* Whatever was dropped or cut short before, a push that arrives whole is  *)
(* applied, once, in its slot; one outside the trim block never is.        *)
PushApplied ==
  slotTime = SlotLen /\ clean =>
    applied = IF slot = "trim" THEN "trim" ELSE NoReply

(* The driver is never deaf to a later poll: of TE and RE one is set,      *)
(* except between the task's two writes, also when the handler changes     *)
(* CR1 between the task's read and its write.  Without a late answer the   *)
(* direction is exclusive, and TXE never fires while listening (board.c:   *)
(* "there's no window").                                                   *)
OneDirection ==
  /\ cr1.te \/ cr1.re \/ pc \in {"set", "set write"}
  /\ late \/ ~ (cr1.te /\ cr1.re)
  /\ late \/ (cr1.txeie => cr1.te)

(* The driver gives the line back: however late the answers, and whatever  *)
(* of CR1 the race between task and handler loses.                         *)
ListensAgain == cr1.te ~> cr1.re

(* board_sport_uart_write() returns: the ring it may spin on is drained.   *)
WriteReturns == pc = "append" ~> pc = "drain"


=============================================================================
