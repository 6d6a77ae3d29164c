---------------------------- MODULE OutputScaling ----------------------------
(***************************************************************************)
(* The integer arithmetic of lib/output/output.c that turns a raw receiver *)
(* value into a pulse width, with the C types' widths and division.        *)
(***************************************************************************)
EXTENDS Integers

\* rx.h: the receiver drivers' raw range.
RX_CHANNEL_RAW_MIN == 172
RX_CHANNEL_RAW_CENTER == 992
RX_CHANNEL_RAW_MAX == 1811

(* uint16_t. *)
UINT16_MAX == 65535
U16(n) == n % (UINT16_MAX + 1)

(* C's / on int32_t, for a positive divisor. *)
TruncDiv(a, b) == IF a >= 0 THEN a \div b ELSE -((-a) \div b)

(* A slot's trim: its pulse at the low, centre and high end of the source. *)
Trims(pulses) == [min : pulses, center : pulses, max : pulses, reversed : BOOLEAN]

(* Mutant: both halves of the travel scaled by the lower half's slope. *)
ScaleSlotOneLine(raw, t) ==
  U16(t.min + TruncDiv((raw - RX_CHANNEL_RAW_MIN) * (t.center - t.min),
                       RX_CHANNEL_RAW_CENTER - RX_CHANNEL_RAW_MIN))

(* Mutant: the upper half starts from the low end. *)
ScaleSlotFromMin(raw, t) ==
  IF raw <= RX_CHANNEL_RAW_CENTER
    THEN ScaleSlotOneLine(raw, t)
    ELSE U16(t.min + TruncDiv((raw - RX_CHANNEL_RAW_CENTER) * (t.max - t.center),
                              RX_CHANNEL_RAW_MAX - RX_CHANNEL_RAW_CENTER))

(* scale_slot() for a slot whose source has the receiver's raw range, as   *)
(* every configured slot has.  The spans of that range are not zero.       *)
ScaleSlot(raw, t) ==
  IF raw <= RX_CHANNEL_RAW_CENTER
    THEN U16(t.min + TruncDiv((raw - RX_CHANNEL_RAW_MIN) * (t.center - t.min),
                              RX_CHANNEL_RAW_CENTER - RX_CHANNEL_RAW_MIN))
    ELSE U16(t.center + TruncDiv((raw - RX_CHANNEL_RAW_CENTER) * (t.max - t.center),
                                 RX_CHANNEL_RAW_MAX - RX_CHANNEL_RAW_CENTER))

(* apply_reverse(): mirrored about the slot's own travel. *)
ApplyReverse(value, t) == U16(t.min + t.max - value)

(* The pulse resolve_slot() makes of a valid raw value. *)
Pulse(raw, t) ==
  IF t.reversed THEN ApplyReverse(ScaleSlot(raw, t), t) ELSE ScaleSlot(raw, t)

=============================================================================
