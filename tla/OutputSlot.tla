------------------------------ MODULE OutputSlot ------------------------------
(***************************************************************************)
(* One physical servo slot of lib/output/output.c over many passes of      *)
(* output_task: the source comes and goes, and operators change the slot's *)
(* trim (CLI, S.Port) while the task runs, in the middle of its reload     *)
(* too: the four fields are read one by one, under no lock.                *)
(***************************************************************************)
EXTENDS OutputScaling

CONSTANTS
  Raw,           \* raw values the receiver can report
  PulseWidths,   \* endpoint values an operator can set
  Policy,        \* "HOLD" or "FIXED": failsafePolicy
  FixedValue     \* failsafeFixedValue

ASSUME OutputSlotAssumption ==
  /\ Raw \subseteq 0 .. 2047
  /\ PulseWidths \subseteq 0 .. UINT16_MAX
  /\ Policy \in {"HOLD", "FIXED"}
  /\ FixedValue \in 0 .. UINT16_MAX

VARIABLES
  stored,         \* the trim in the parameter store
  slotTrim,       \* slotTrim[slot]: the copy a pass works with
  loaded,         \* how many of its fields the pass under way has reloaded
  during,         \* history: the trims stored during the reload under way
  lastGoodValue,  \* lastGoodValue[slot]
  passed,         \* history: what the last pass worked with, none without a source
  value           \* servos[slot] in output_queue

vars == <<stored, slotTrim, loaded, during, lastGoodValue, passed, value>>

(* An operator keeps the three endpoints in order; the store does not      *)
(* check it.                                                               *)
Ordered(t) == t.min <= t.center /\ t.center <= t.max
AcceptedTrims == {t \in Trims(PulseWidths) : Ordered(t)}

(* The pulses resolve_slot() makes of valid sources, and the centres. *)
Pulses == {Pulse(r, t) : r \in Raw, t \in Trims(PulseWidths)}
            \cup {t.center : t \in AcceptedTrims}

TypeOK ==
  /\ stored \in AcceptedTrims
  /\ slotTrim \in Trims(PulseWidths)
  /\ loaded \in 0 .. 4
  /\ during \subseteq AcceptedTrims
  /\ lastGoodValue \in Pulses
  /\ passed \subseteq [raw : Raw, during : SUBSET AcceptedTrims]
  /\ value \in Pulses \cup {FixedValue}

(* resolve_slot() without a valid source. *)
Substitute == IF Policy = "FIXED" THEN FixedValue ELSE lastGoodValue

(* output_start(): the hold memory starts at the slot's centre.  What an   *)
(* earlier boot persisted may be any trim an operator could set.           *)
Init ==
  /\ stored \in AcceptedTrims
  /\ slotTrim = stored
  /\ loaded = 0
  /\ during = {}
  /\ lastGoodValue = stored.center
  /\ passed = {}
  /\ value = IF Policy = "FIXED" THEN FixedValue ELSE stored.center

(* `param set out<n>.<field>` changes one field at a time.  A reload that  *)
(* two sets overtake, from two tasks, is not judged: it can make a trim    *)
(* that nobody ever stored, and the history forgets what it saw.           *)
SetTrim(t) ==
  /\ \/ \E p \in PulseWidths : \/ t = [stored EXCEPT !.min = p]
                               \/ t = [stored EXCEPT !.center = p]
                               \/ t = [stored EXCEPT !.max = p]
     \/ t = [stored EXCEPT !.reversed = ~ @]
  /\ Ordered(t)
  /\ stored' = t
  /\ during' = IF loaded \notin 1 .. 3 THEN during
               ELSE IF during = {stored} THEN {stored, t} ELSE {}
  /\ UNCHANGED <<slotTrim, loaded, lastGoodValue, passed, value>>

(* Mutant: the direction is not reloaded. *)
CopiedEndpoints ==
  CASE loaded = 0 -> [slotTrim EXCEPT !.min = stored.min]
    [] loaded = 1 -> [slotTrim EXCEPT !.center = stored.center]
    [] loaded = 2 -> [slotTrim EXCEPT !.max = stored.max]
    [] loaded = 3 -> slotTrim

(* load_slot_trim() reads one field after the other. *)
Copied ==
  CASE loaded = 0 -> [slotTrim EXCEPT !.min = stored.min]
    [] loaded = 1 -> [slotTrim EXCEPT !.center = stored.center]
    [] loaded = 2 -> [slotTrim EXCEPT !.max = stored.max]
    [] loaded = 3 -> [slotTrim EXCEPT !.reversed = stored.reversed]

(* One param_get_u32() and the store of its field. *)
LoadField ==
  /\ loaded < 4
  /\ slotTrim' = Copied
  /\ loaded' = loaded + 1
  /\ during' = IF loaded = 0 THEN {stored} ELSE during
  /\ UNCHANGED <<stored, lastGoodValue, passed, value>>

(* Mutant: the position before direction is applied is remembered. *)
RememberedBeforeReverse(raw, t) == ScaleSlot(raw, t)

(* What resolve_slot() puts in lastGoodValue. *)
Remembered(raw, t) == Pulse(raw, t)

(* The rest of the pass, resolve_slot() with the copy that was loaded: the *)
(* latest frame upstream (mapping's for a passthrough slot, control's for  *)
(* the pitch slot) has a valid source with this raw value ...              *)
ResolveValid(raw) ==
  /\ loaded = 4
  /\ value' = Pulse(raw, slotTrim)
  /\ lastGoodValue' = Remembered(raw, slotTrim)
  /\ passed' = {[raw |-> raw, during |-> during]}
  /\ loaded' = 0
  /\ during' = {}
  /\ UNCHANGED <<stored, slotTrim>>

(* ... or none.                                                            *)
ResolveInvalid ==
  /\ loaded = 4
  /\ value' = Substitute
  /\ passed' = {}
  /\ loaded' = 0
  /\ during' = {}
  /\ UNCHANGED <<stored, slotTrim, lastGoodValue>>

Next ==
  \/ \E t \in AcceptedTrims : SetTrim(t)
  \/ LoadField
  \/ \E raw \in Raw : ResolveValid(raw)
  \/ ResolveInvalid

Spec == Init /\ [][Next]_vars

-----------------------------------------------------------------------------

(* The receiver's nominal range.  sbus_decode() clamps nothing: 11 bits    *)
(* reach 0 and 2047, and the same two slopes then extend the travel.       *)
Nominal(raw) == raw \in RX_CHANNEL_RAW_MIN .. RX_CHANNEL_RAW_MAX

(* receiver-to-servo.md: "each slot has its own physical travel range. A   *)
(* source's value is scaled into that range".  A stick within the          *)
(* receiver's range never drives a slot past the endpoints it has, nor     *)
(* past those it had before the set that came between two of the reads.    *)
WithinTravel ==
  \A p \in passed :
    Nominal(p.raw) /\ p.during # {} => \E t \in p.during : t.min <= value /\ value <= t.max

(* The pulse of an end or the centre of the receiver's range is that of    *)
(* the trim, the far end when the slot is reversed, and truncation never   *)
(* crosses the centre: a stick on one side of its centre never puts the    *)
(* servo on the other side of its own.                                     *)
Meets(v, raw, t) ==
  LET low == IF t.reversed THEN t.max ELSE t.min
      high == IF t.reversed THEN t.min ELSE t.max
      mid == IF t.reversed THEN t.min + t.max - t.center ELSE t.center
  IN /\ raw = RX_CHANNEL_RAW_MIN => v = low
     /\ raw = RX_CHANNEL_RAW_MAX => v = high
     /\ raw = RX_CHANNEL_RAW_CENTER => v = mid
     /\ raw > RX_CHANNEL_RAW_CENTER => IF t.reversed THEN v <= mid ELSE v >= mid

(* A pass meets a trim that was stored while it reloaded, whole: never the *)
(* endpoints of one and the direction of another, or an end of each.       *)
EndsMeetTrim ==
  \A p \in passed :
    Nominal(p.raw) /\ p.during # {} => \E t \in p.during : Meets(value, p.raw, t)

(* The servo follows the stick in one direction: of two passes with valid  *)
(* sources and the same trim, the larger raw value never gives the pulse   *)
(* on the other side, across the seam of the two segments too.             *)
FollowsStick ==
  [][\A p \in passed, q \in passed' : \A t \in p.during :
       /\ p.during = {t} /\ q.during = {t}
       /\ Nominal(p.raw) /\ Nominal(q.raw) /\ p.raw <= q.raw
       => IF t.reversed THEN value' <= value ELSE value <= value']_vars

(* Losing the source never moves a HOLD slot, not even when its trim or    *)
(* its direction was changed since, or is being changed: the servo stays   *)
(* where it physically is until a valid source comes back.                 *)
HoldStaysPut ==
  [][Policy = "HOLD" /\ passed' = {} => value' = value]_vars

=============================================================================
