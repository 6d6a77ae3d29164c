--------------------------- MODULE OutputSlotProofs ---------------------------
(***************************************************************************)
(* What OutputSlot promises of a slot's pulse, for every set of raw values *)
(* and of pulse widths, every trim in order and either failsafe policy.    *)
(***************************************************************************)
EXTENDS OutputSlot, TLAPS

(* The share of a travel s that x of n steps of the stick make. *)
Share(x, s, n) == TruncDiv(x * s, n)

(* The constants of the C headers, as facts. *)
LEMMA ConstantValues ==
  /\ UINT16_MAX = 65535
  /\ RX_CHANNEL_RAW_MIN = 172 /\ RX_CHANNEL_RAW_CENTER = 992 /\ RX_CHANNEL_RAW_MAX = 1811
  BY DEF UINT16_MAX, RX_CHANNEL_RAW_MIN, RX_CHANNEL_RAW_CENTER, RX_CHANNEL_RAW_MAX

LEMMA Uint16MaxIsNat == UINT16_MAX \in Nat
  BY DEF UINT16_MAX

(* A product of naturals grows with either factor. *)
LEMMA ProductGrows ==
  ASSUME NEW x \in Nat, NEW y \in Nat, NEW s \in Nat, x <= y
  PROVE  /\ x * s \in Nat
         /\ x * s <= y * s
  BY SMT

(* The lengths of the two halves of the receiver's range. *)
Lengths == {819, 820}

(* C's division of naturals by either length of a segment: it keeps order, *)
(* and undoes a product.                                                   *)
LEMMA DivisionByLength ==
  ASSUME NEW n \in Lengths, NEW a \in Nat, NEW b \in Nat, a <= b
  PROVE  /\ TruncDiv(a, n) \in Nat
         /\ TruncDiv(a, n) <= TruncDiv(b, n)
         /\ \A s \in Nat : a = n * s => TruncDiv(a, n) = s
  <1>1. CASE n = 819
    BY <1>1 DEF TruncDiv
  <1>2. CASE n = 820
    BY <1>2 DEF TruncDiv
  <1> QED
    BY <1>1, <1>2 DEF Lengths

(* Truncation keeps the order of two stick positions. *)
LEMMA ShareGrows ==
  ASSUME NEW n \in Lengths, NEW s \in Nat, NEW x \in Nat, NEW y \in Nat, x <= y
  PROVE  Share(x, s, n) \in Nat /\ Share(x, s, n) <= Share(y, s, n)
  <1> DEFINE a == x * s
             b == y * s
  <1>1. a \in Nat /\ b \in Nat /\ a <= b
    BY ProductGrows
  <1> HIDE DEF a, b
  <1>2. TruncDiv(a, n) \in Nat /\ TruncDiv(a, n) <= TruncDiv(b, n)
    BY <1>1, DivisionByLength
  <1> QED
    BY <1>2 DEF Share, a, b

(* Interpolation over a segment of n steps, n the length of either half of *)
(* the receiver's range: the share of none is none, the share of all is    *)
(* all, and what lies between lies between.                                *)
LEMMA ShareInSegment ==
  ASSUME NEW n \in Lengths, NEW s \in Nat, NEW x \in Nat, x <= n
  PROVE  /\ Share(x, s, n) \in 0 .. s
         /\ x = 0 => Share(x, s, n) = 0
         /\ x = n => Share(x, s, n) = s
  <1>0. n \in Nat
    BY DEF Lengths
  <1>1. Share(n, s, n) = s
    <2> DEFINE a == n * s
    <2>1. a \in Nat
      BY <1>0, ProductGrows
    <2>2. a = n * s
      OBVIOUS
    <2> HIDE DEF a
    <2>3. TruncDiv(a, n) = s
      BY <2>1, <2>2, DivisionByLength
    <2> QED
      BY <2>3 DEF Share, a
  <1>2. Share(0, s, n) = 0
    <2>1. 0 * s = 0 /\ n * 0 = 0
      BY <1>0
    <2>2. TruncDiv(0, n) = 0
      BY <2>1, DivisionByLength
    <2> QED
      BY <2>1, <2>2 DEF Share
  <1>3. Share(x, s, n) \in Nat /\ Share(x, s, n) <= Share(n, s, n)
    BY <1>0, ShareGrows
  <1> QED
    BY <1>1, <1>2, <1>3

(* Any trim of 16-bit pulses in order. *)
Pulses16 == 0 .. UINT16_MAX
OrderedTrims == {t \in Trims(Pulses16) : Ordered(t)}

LEMMA OrderedTrimFields ==
  ASSUME NEW t \in OrderedTrims
  PROVE  /\ t.min \in 0 .. UINT16_MAX /\ t.center \in 0 .. UINT16_MAX /\ t.max \in 0 .. UINT16_MAX
         /\ t.min <= t.center /\ t.center <= t.max
         /\ t.reversed \in BOOLEAN
  <1>1. t \in Trims(Pulses16) /\ Ordered(t)
    BY DEF OrderedTrims
  <1>2. /\ t.min \in Pulses16 /\ t.center \in Pulses16 /\ t.max \in Pulses16
        /\ t.reversed \in BOOLEAN
    BY <1>1 DEF Trims
  <1> QED
    BY <1>1, <1>2 DEF Ordered, Pulses16

LEMMA CastIsIdentity ==
  ASSUME NEW v \in Nat, v <= UINT16_MAX
  PROVE  U16(v) = v
  BY ConstantValues DEF U16

(* One segment of scale_slot(), from the pulse lo at its near end to hi at *)
(* its far end: no cast changes anything, and the ends are met.            *)
Segment(x, lo, hi, n) == U16(lo + TruncDiv(x * (hi - lo), n))

LEMMA SegmentInTravel ==
  ASSUME NEW n \in Lengths, NEW x \in Nat, x <= n,
         NEW lo \in 0 .. UINT16_MAX, NEW hi \in 0 .. UINT16_MAX, lo <= hi
  PROVE  /\ Segment(x, lo, hi, n) = lo + Share(x, hi - lo, n)
         /\ Segment(x, lo, hi, n) \in lo .. hi
         /\ x = 0 => Segment(x, lo, hi, n) = lo
         /\ x = n => Segment(x, lo, hi, n) = hi
  <1> DEFINE s == hi - lo
             q == Share(x, s, n)
  <1>1. s \in Nat
    OBVIOUS
  <1>2. q \in 0 .. s /\ (x = 0 => q = 0) /\ (x = n => q = s)
    <2> HIDE DEF s
    <2> QED
      BY <1>1, ShareInSegment
  <1>3. Segment(x, lo, hi, n) = U16(lo + q)
    BY DEF Segment, Share
  <1> HIDE DEF q
  <1>4. U16(lo + q) = lo + q
    <2>1. lo + q \in Nat /\ lo + q <= hi
      BY <1>2
    <2>2. hi <= UINT16_MAX /\ UINT16_MAX \in Nat
      BY ConstantValues
    <2>3. lo + q <= UINT16_MAX
      BY <2>1, <2>2
    <2> QED
      BY <2>1, <2>3, CastIsIdentity
  <1> QED
    BY <1>2, <1>3, <1>4 DEF q

LEMMA SegmentGrows ==
  ASSUME NEW n \in Lengths, NEW x \in Nat, NEW y \in Nat, x <= y, y <= n,
         NEW lo \in 0 .. UINT16_MAX, NEW hi \in 0 .. UINT16_MAX, lo <= hi
  PROVE  Segment(x, lo, hi, n) <= Segment(y, lo, hi, n)
  <1>1. hi - lo \in Nat /\ x <= n
    BY DEF Lengths
  <1>2. \A s \in Nat : Share(x, s, n) \in Nat /\ Share(x, s, n) <= Share(y, s, n)
    BY ShareGrows
  <1>3. \A s \in Nat : Share(y, s, n) \in Nat
    BY ShareGrows
  <1>4. /\ Segment(x, lo, hi, n) = lo + Share(x, hi - lo, n)
        /\ Segment(y, lo, hi, n) = lo + Share(y, hi - lo, n)
    BY <1>1, SegmentInTravel
  <1>5. /\ Share(x, hi - lo, n) \in Nat /\ Share(y, hi - lo, n) \in Nat
        /\ Share(x, hi - lo, n) <= Share(y, hi - lo, n)
    BY <1>1, <1>2, <1>3
  <1> QED
    BY <1>4, <1>5

(* scale_slot() as its two segments. *)
LEMMA ScaleSlotSegments ==
  ASSUME NEW t, NEW raw
  PROVE  ScaleSlot(raw, t) =
           IF raw <= 992 THEN Segment(raw - 172, t.min, t.center, 820)
                         ELSE Segment(raw - 992, t.center, t.max, 819)
  BY DEF ScaleSlot, Segment, RX_CHANNEL_RAW_MIN, RX_CHANNEL_RAW_CENTER, RX_CHANNEL_RAW_MAX

(* Where scale_slot() puts a nominal raw value. *)
LEMMA ScaleSlotInTravel ==
  ASSUME NEW t \in OrderedTrims, NEW raw \in RX_CHANNEL_RAW_MIN .. RX_CHANNEL_RAW_MAX
  PROVE  /\ raw <= 992 => ScaleSlot(raw, t) \in t.min .. t.center
         /\ raw > 992 => ScaleSlot(raw, t) \in t.center .. t.max
         /\ raw = 172 => ScaleSlot(raw, t) = t.min
         /\ raw = 992 => ScaleSlot(raw, t) = t.center
         /\ raw = 1811 => ScaleSlot(raw, t) = t.max
  <1>0. 819 \in Lengths /\ 820 \in Lengths
    BY DEF Lengths
  <1>1. /\ t.min \in 0 .. UINT16_MAX /\ t.center \in 0 .. UINT16_MAX /\ t.max \in 0 .. UINT16_MAX
        /\ t.min <= t.center /\ t.center <= t.max
    BY OrderedTrimFields
  <1>2. CASE raw <= 992
    <2>1. raw - 172 \in Nat /\ raw - 172 <= 820 /\ (raw = 172 => raw - 172 = 0) /\ (raw = 992 => raw - 172 = 820)
      BY <1>2, ConstantValues
    <2>2. ScaleSlot(raw, t) = Segment(raw - 172, t.min, t.center, 820)
      BY <1>2, ScaleSlotSegments
    <2>3. /\ Segment(raw - 172, t.min, t.center, 820) \in t.min .. t.center
          /\ raw - 172 = 0 => Segment(raw - 172, t.min, t.center, 820) = t.min
          /\ raw - 172 = 820 => Segment(raw - 172, t.min, t.center, 820) = t.center
      BY <1>0, <1>1, <2>1, SegmentInTravel
    <2> QED
      BY <1>2, <2>1, <2>2, <2>3, <1>1
  <1>3. CASE raw > 992
    <2>1. raw - 992 \in Nat /\ raw - 992 <= 819 /\ (raw = 1811 => raw - 992 = 819)
      BY <1>3, ConstantValues
    <2>2. ScaleSlot(raw, t) = Segment(raw - 992, t.center, t.max, 819)
      BY <1>3, ScaleSlotSegments
    <2>3. /\ Segment(raw - 992, t.center, t.max, 819) \in t.center .. t.max
          /\ raw - 992 = 819 => Segment(raw - 992, t.center, t.max, 819) = t.max
      BY <1>0, <1>1, <2>1, SegmentInTravel
    <2> QED
      BY <1>3, <2>1, <2>2, <2>3, <1>1
  <1> QED
    BY <1>2, <1>3

LEMMA ScaleSlotGrows ==
  ASSUME NEW t \in OrderedTrims,
         NEW raw \in RX_CHANNEL_RAW_MIN .. RX_CHANNEL_RAW_MAX,
         NEW next \in RX_CHANNEL_RAW_MIN .. RX_CHANNEL_RAW_MAX, raw <= next
  PROVE  ScaleSlot(raw, t) <= ScaleSlot(next, t)
  <1>0. 819 \in Lengths /\ 820 \in Lengths
    BY DEF Lengths
  <1>1. /\ t.min \in 0 .. UINT16_MAX /\ t.center \in 0 .. UINT16_MAX /\ t.max \in 0 .. UINT16_MAX
        /\ t.min <= t.center /\ t.center <= t.max
    BY OrderedTrimFields
  <1>2. raw \in 172 .. next /\ next \in raw .. 1811
    BY ConstantValues
  <1>3. CASE next <= 992
    <2>1. raw - 172 \in Nat /\ next - 172 \in Nat /\ raw - 172 <= next - 172 /\ next - 172 <= 820
      BY <1>2, <1>3
    <2>2. Segment(raw - 172, t.min, t.center, 820) <= Segment(next - 172, t.min, t.center, 820)
      BY <1>0, <1>1, <2>1, SegmentGrows
    <2> QED
      BY <1>2, <1>3, <2>2, ScaleSlotSegments
  <1>4. CASE raw > 992
    <2>1. raw - 992 \in Nat /\ next - 992 \in Nat /\ raw - 992 <= next - 992 /\ next - 992 <= 819
      BY <1>2, <1>4
    <2>2. Segment(raw - 992, t.center, t.max, 819) <= Segment(next - 992, t.center, t.max, 819)
      BY <1>0, <1>1, <2>1, SegmentGrows
    <2> QED
      BY <1>2, <1>4, <2>2, ScaleSlotSegments
  <1>5. CASE raw <= 992 /\ next > 992
    BY <1>1, <1>5, ScaleSlotInTravel
  <1> QED
    BY <1>2, <1>3, <1>4, <1>5

LEMMA MirrorInTravel ==
  ASSUME NEW lo \in Nat, NEW hi \in Nat, NEW v \in lo .. hi, hi <= UINT16_MAX
  PROVE  U16(lo + hi - v) = lo + hi - v
  <1>1. lo + hi - v \in Nat /\ lo + hi - v <= hi
    OBVIOUS
  <1>2. lo + hi - v <= UINT16_MAX
    BY <1>1, ConstantValues
  <1> QED
    BY <1>1, <1>2, CastIsIdentity

(* The pulse of a nominal raw value, direction applied. *)
LEMMA PulseOfNominal ==
  ASSUME NEW t \in OrderedTrims, NEW raw \in RX_CHANNEL_RAW_MIN .. RX_CHANNEL_RAW_MAX
  PROVE  /\ ScaleSlot(raw, t) \in t.min .. t.max
         /\ Pulse(raw, t) = IF t.reversed THEN t.min + t.max - ScaleSlot(raw, t)
                                          ELSE ScaleSlot(raw, t)
  <1>1. /\ t.min \in 0 .. UINT16_MAX /\ t.center \in 0 .. UINT16_MAX /\ t.max \in 0 .. UINT16_MAX
        /\ t.min <= t.center /\ t.center <= t.max
    BY OrderedTrimFields
  <1>2. raw \in Int
    BY ConstantValues
  <1>3. ScaleSlot(raw, t) \in t.min .. t.max
    BY <1>1, <1>2, ScaleSlotInTravel
  <1>4. t.min \in Nat /\ t.max \in Nat /\ t.max <= UINT16_MAX
    BY <1>1, Uint16MaxIsNat
  <1>5. U16(t.min + t.max - ScaleSlot(raw, t)) = t.min + t.max - ScaleSlot(raw, t)
    BY <1>3, <1>4, MirrorInTravel
  <1> QED
    BY <1>3, <1>5 DEF Pulse, ApplyReverse

-----------------------------------------------------------------------------

(* What a reload has made so far, with the rest as it would read it now.   *)
PendingIs(t) ==
  /\ (IF loaded > 0 THEN slotTrim.min ELSE stored.min) = t.min
  /\ (IF loaded > 1 THEN slotTrim.center ELSE stored.center) = t.center
  /\ (IF loaded > 2 THEN slotTrim.max ELSE stored.max) = t.max
  /\ (IF loaded > 3 THEN slotTrim.reversed ELSE stored.reversed) = t.reversed

(* A reload that is still judged is making one of the trims it saw, and a  *)
(* HOLD slot's pulse is the one it remembers.                              *)
ReloadWhole == loaded > 0 /\ during # {} => \E t \in during : PendingIs(t)

PulseExplained ==
  /\ \A p \in passed : p.during # {} => \E t \in p.during : value = Pulse(p.raw, t)
  /\ Policy = "HOLD" => value = lastGoodValue

IInv == TypeOK /\ ReloadWhole /\ PulseExplained

LEMMA AcceptedFields ==
  ASSUME NEW t \in AcceptedTrims
  PROVE  t \in Trims(PulseWidths) /\ t \in OrderedTrims
  <1>1. t \in Trims(PulseWidths) /\ Ordered(t)
    BY DEF AcceptedTrims
  <1>2. PulseWidths \subseteq Pulses16
    BY OutputSlotAssumption DEF Pulses16
  <1>3. t \in Trims(Pulses16)
    BY <1>1, <1>2 DEF Trims
  <1> QED
    BY <1>1, <1>3 DEF OrderedTrims

(* A trim is what its four fields are. *)
LEMMA SameFields ==
  ASSUME NEW t \in Trims(PulseWidths), NEW u \in Trims(PulseWidths),
         t.min = u.min, t.center = u.center, t.max = u.max, t.reversed = u.reversed
  PROVE  t = u
  BY DEF Trims

LEMMA InitIInv == Init => IInv
  <1> SUFFICES ASSUME Init
               PROVE  IInv
    OBVIOUS
  <1>1. stored.center \in Pulses
    BY DEF Init, Pulses
  <1>2. TypeOK
    BY <1>1, OutputSlotAssumption, AcceptedFields DEF Init, TypeOK
  <1>3. ReloadWhole /\ PulseExplained
    BY DEF Init, ReloadWhole, PulseExplained
  <1> QED
    BY <1>2, <1>3 DEF IInv

(* A set changes one field: the reload is making the old trim if it has    *)
(* read that field, and the new one if it has not.                         *)
LEMMA SetTrimIInv ==
  ASSUME IInv, NEW t \in AcceptedTrims, SetTrim(t)
  PROVE  IInv'
  <1> USE DEF IInv
  <1>1. /\ stored' = t
        /\ UNCHANGED <<slotTrim, loaded, lastGoodValue, passed, value>>
        /\ during' \in {during, {stored, t}, {}}
        /\ loaded \in 0 .. 4 /\ stored \in AcceptedTrims
    BY DEF SetTrim, TypeOK
  <1>2. TypeOK'
    BY <1>1 DEF TypeOK
  <1>3. PulseExplained'
    BY <1>1 DEF PulseExplained
  <1>4. ReloadWhole'
    <2> SUFFICES ASSUME loaded > 0, during' # {}
                 PROVE  \E u \in during' : PendingIs(u)'
      BY <1>1 DEF ReloadWhole
    <2>1. CASE loaded = 4
      <3>1. during' = during
        BY <2>1 DEF SetTrim
      <3>2. PICK u \in during : PendingIs(u)
        BY <2>1, <3>1 DEF ReloadWhole
      <3>3. PendingIs(u)'
        BY <1>1, <2>1, <3>2 DEF PendingIs
      <3> QED
        BY <3>1, <3>3
    <2>2. CASE loaded \in 1 .. 3
      <3>1. during = {stored} /\ during' = {stored, t}
        BY <2>2 DEF SetTrim
      <3>2. PICK old \in AcceptedTrims : old = stored
        BY <1>1
      <3>3. PendingIs(old) /\ during' = {old, t}
        BY <2>2, <3>1, <3>2 DEF ReloadWhole
      <3>4. old \in Trims(PulseWidths)
        BY <3>2, AcceptedFields
      <3>5. ASSUME NEW p \in PulseWidths, t = [old EXCEPT !.min = p]
            PROVE  PendingIs(old)'
        BY <1>1, <2>2, <3>2, <3>3, <3>4, <3>5 DEF PendingIs, Trims
      <3>6. ASSUME NEW p \in PulseWidths, t = [old EXCEPT !.center = p]
            PROVE  PendingIs(old)' \/ PendingIs(t)'
        BY <1>1, <2>2, <3>2, <3>3, <3>4, <3>6 DEF PendingIs, Trims
      <3>7. ASSUME NEW p \in PulseWidths, t = [old EXCEPT !.max = p]
            PROVE  PendingIs(old)' \/ PendingIs(t)'
        BY <1>1, <2>2, <3>2, <3>3, <3>4, <3>7 DEF PendingIs, Trims
      <3>8. ASSUME t = [old EXCEPT !.reversed = ~ @]
            PROVE  PendingIs(t)'
        BY <1>1, <2>2, <3>2, <3>3, <3>4, <3>8 DEF PendingIs, Trims
      <3> QED
        BY <3>2, <3>3, <3>5, <3>6, <3>7, <3>8 DEF SetTrim
    <2> QED
      BY <1>1, <2>1, <2>2
  <1> QED
    BY <1>2, <1>3, <1>4

(* A read makes the copy more of what it already was to become. *)
LEMMA LoadFieldIInv ==
  ASSUME IInv, LoadField
  PROVE  IInv'
  <1> USE DEF IInv
  <1>1. /\ slotTrim' = Copied
        /\ loaded \in 0 .. 3 /\ loaded' = loaded + 1
        /\ during' = IF loaded = 0 THEN {stored} ELSE during
        /\ UNCHANGED <<stored, lastGoodValue, passed, value>>
        /\ stored \in AcceptedTrims /\ stored \in Trims(PulseWidths)
        /\ slotTrim \in Trims(PulseWidths)
    BY AcceptedFields DEF LoadField, TypeOK
  <1>2. slotTrim' \in Trims(PulseWidths)
    BY <1>1 DEF Copied, Trims
  <1>3. TypeOK'
    BY <1>1, <1>2 DEF TypeOK
  <1>4. PulseExplained'
    BY <1>1 DEF PulseExplained
  <1>5. ASSUME NEW t \in AcceptedTrims, PendingIs(t)
        PROVE  PendingIs(t)'
    BY <1>1, <1>5 DEF PendingIs, Copied, Trims
  <1>6. ReloadWhole'
    <2>1. CASE loaded = 0
      <3>1. PICK t \in AcceptedTrims : t = stored
        BY <1>1
      <3>2. PendingIs(t)
        BY <2>1, <3>1 DEF PendingIs
      <3> QED
        BY <1>1, <1>5, <2>1, <3>1, <3>2 DEF ReloadWhole
    <2>2. CASE loaded # 0
      BY <1>1, <1>5, <2>2 DEF ReloadWhole, TypeOK
    <2> QED
      BY <2>1, <2>2
  <1> QED
    BY <1>3, <1>4, <1>6

(* A completed reload is the trim that it was making. *)
LEMMA ResolveIInv ==
  ASSUME IInv, (\E raw \in Raw : ResolveValid(raw)) \/ ResolveInvalid
  PROVE  IInv'
  <1> USE DEF IInv
  <1>1. CASE ResolveInvalid
    <2>1. Substitute \in Pulses \cup {FixedValue} /\ (Policy = "HOLD" => Substitute = lastGoodValue)
      BY DEF Substitute, TypeOK
    <2> QED
      BY <1>1, <2>1 DEF ResolveInvalid, TypeOK, ReloadWhole, PulseExplained
  <1>2. ASSUME NEW raw \in Raw, ResolveValid(raw)
        PROVE  IInv'
    <2>1. /\ value' = Pulse(raw, slotTrim) /\ lastGoodValue' = Pulse(raw, slotTrim)
          /\ passed' = {[raw |-> raw, during |-> during]}
          /\ loaded' = 0 /\ during' = {} /\ UNCHANGED <<stored, slotTrim>>
          /\ loaded = 4
      BY <1>2 DEF ResolveValid, Remembered
    <2>2. Pulse(raw, slotTrim) \in Pulses
      BY DEF TypeOK, Pulses
    <2>3. TypeOK'
      BY <2>1, <2>2 DEF TypeOK
    <2>4. ASSUME during # {}
          PROVE  slotTrim \in during
      <3>1. PICK t \in during : PendingIs(t)
        BY <2>1, <2>4 DEF ReloadWhole
      <3>2. t \in Trims(PulseWidths) /\ slotTrim \in Trims(PulseWidths)
        BY AcceptedFields DEF TypeOK
      <3>3. slotTrim = t
        BY <2>1, <3>1, <3>2, SameFields DEF PendingIs
      <3> QED
        BY <3>3
    <2>5. PulseExplained' /\ ReloadWhole'
      BY <2>1, <2>4 DEF PulseExplained, ReloadWhole
    <2> QED
      BY <2>3, <2>5
  <1> QED
    BY <1>1, <1>2

LEMMA NextIInv == IInv /\ [Next]_vars => IInv'
  <1>1. IInv /\ UNCHANGED vars => IInv'
    BY DEF vars, IInv, TypeOK, ReloadWhole, PendingIs, PulseExplained
  <1> QED
    BY <1>1, SetTrimIInv, LoadFieldIInv, ResolveIInv DEF Next

(* The slot's copy is whole when a pass uses it, or two sets overtook the  *)
(* reload, and its pulse is always one that source, memory or fixed value  *)
(* explains.                                                               *)
THEOREM SlotInvariant == Spec => []IInv
  BY InitIInv, NextIInv, PTL DEF Spec

(* The slot's state keeps its types for every set of trims and raw values: *)
(* no reload, however often it is overtaken, makes anything but a trim of  *)
(* pulses that were stored, and no pulse comes from anything but a trim.   *)
THEOREM SlotTypeCorrect == Spec => []TypeOK
  <1>1. IInv => TypeOK
    BY DEF IInv
  <1> QED
    BY <1>1, SlotInvariant, PTL

(* The trim that a judged pass worked with, and what follows of its pulse. *)
LEMMA JudgedPass ==
  ASSUME IInv, NEW p \in passed, Nominal(p.raw), p.during # {}
  PROVE  \E t \in p.during :
           /\ t \in OrderedTrims
           /\ ScaleSlot(p.raw, t) \in t.min .. t.max
           /\ value = IF t.reversed THEN t.min + t.max - ScaleSlot(p.raw, t)
                                    ELSE ScaleSlot(p.raw, t)
  <1>1. PICK t \in p.during : value = Pulse(p.raw, t)
    BY DEF IInv, PulseExplained
  <1>2. t \in OrderedTrims
    BY AcceptedFields DEF IInv, TypeOK
  <1> QED
    BY <1>1, <1>2, PulseOfNominal DEF Nominal

(* A nominal stick never drives a slot past the endpoints it has or had    *)
(* while the pass reloaded them, for any trims and however they change.    *)
THEOREM SlotWithinTravel == Spec => []WithinTravel
  <1>1. IInv => WithinTravel
    <2> SUFFICES ASSUME IInv, NEW p \in passed, Nominal(p.raw), p.during # {}
                 PROVE  \E t \in p.during : t.min <= value /\ value <= t.max
      BY DEF WithinTravel
    <2>1. PICK t \in p.during :
             /\ t \in OrderedTrims
             /\ ScaleSlot(p.raw, t) \in t.min .. t.max
             /\ value = IF t.reversed THEN t.min + t.max - ScaleSlot(p.raw, t)
                                      ELSE ScaleSlot(p.raw, t)
      BY JudgedPass
    <2>2. t.min \in Int /\ t.max \in Int
      BY <2>1, OrderedTrimFields
    <2> QED
      BY <2>1, <2>2
  <1> QED
    BY <1>1, SlotInvariant, PTL

(* Ends and centre of the stick land on the positions of a trim that was   *)
(* stored, whole, while the pass reloaded it, and no truncation crosses    *)
(* the centre.                                                             *)
THEOREM SlotEndsMeetTrim == Spec => []EndsMeetTrim
  <1>1. IInv => EndsMeetTrim
    <2> SUFFICES ASSUME IInv, NEW p \in passed, Nominal(p.raw), p.during # {}
                 PROVE  \E t \in p.during : Meets(value, p.raw, t)
      BY DEF EndsMeetTrim
    <2>1. PICK t \in p.during :
             /\ t \in OrderedTrims
             /\ ScaleSlot(p.raw, t) \in t.min .. t.max
             /\ value = IF t.reversed THEN t.min + t.max - ScaleSlot(p.raw, t)
                                      ELSE ScaleSlot(p.raw, t)
      BY JudgedPass
    <2> DEFINE v == ScaleSlot(p.raw, t)
    <2>2. value = IF t.reversed THEN t.min + t.max - v ELSE v
      BY <2>1
    <2>3. /\ t.min \in Int /\ t.center \in Int /\ t.max \in Int
          /\ t.min <= t.center /\ t.center <= t.max
      BY <2>1, OrderedTrimFields
    <2>4. /\ p.raw <= 992 => v \in t.min .. t.center
          /\ p.raw > 992 => v \in t.center .. t.max
          /\ p.raw = 172 => v = t.min
          /\ p.raw = 992 => v = t.center
          /\ p.raw = 1811 => v = t.max
      BY <2>1, ScaleSlotInTravel DEF Nominal
    <2>5. p.raw \in Int
      BY ConstantValues DEF Nominal
    <2> HIDE DEF v
    <2>6. CASE t.reversed
      BY <2>2, <2>3, <2>4, <2>5, <2>6, ConstantValues DEF Meets
    <2>7. CASE ~ t.reversed
      BY <2>2, <2>3, <2>4, <2>5, <2>7, ConstantValues DEF Meets
    <2> QED
      BY <2>6, <2>7
  <1> QED
    BY <1>1, SlotInvariant, PTL

(* The pulse follows the stick in one direction, across the seam too.      *)
THEOREM SlotFollowsStick == Spec => FollowsStick
  <1> DEFINE Follows ==
        \A p \in passed, q \in passed' : \A t \in p.during :
          /\ p.during = {t} /\ q.during = {t}
          /\ Nominal(p.raw) /\ Nominal(q.raw) /\ p.raw <= q.raw
          => IF t.reversed THEN value' <= value ELSE value <= value'
  <1>1. IInv /\ IInv' => Follows
    <2> SUFFICES ASSUME IInv, IInv', NEW p \in passed, NEW q \in passed', NEW t \in p.during,
                        p.during = {t}, q.during = {t},
                        Nominal(p.raw), Nominal(q.raw), p.raw <= q.raw
                 PROVE  IF t.reversed THEN value' <= value ELSE value <= value'
      OBVIOUS
    <2> DEFINE v == ScaleSlot(p.raw, t)
               w == ScaleSlot(q.raw, t)
    <2>1. t \in OrderedTrims
      BY AcceptedFields DEF IInv, TypeOK
    <2>2. value = Pulse(p.raw, t) /\ value' = Pulse(q.raw, t)
      BY DEF IInv, PulseExplained
    <2>3. /\ v \in t.min .. t.max
          /\ value = IF t.reversed THEN t.min + t.max - v ELSE v
      BY <2>1, <2>2, PulseOfNominal DEF Nominal
    <2>4. /\ w \in t.min .. t.max
          /\ value' = IF t.reversed THEN t.min + t.max - w ELSE w
      BY <2>1, <2>2, PulseOfNominal DEF Nominal
    <2>5. v <= w
      BY <2>1, ScaleSlotGrows DEF Nominal
    <2>6. t.min \in Int /\ t.max \in Int
      BY <2>1, OrderedTrimFields
    <2> HIDE DEF v, w
    <2> QED
      BY <2>3, <2>4, <2>5, <2>6
  <1>2. Spec => [][Follows]_vars
    BY <1>1, SlotInvariant, PTL DEF Spec
  <1> QED
    BY <1>2 DEF FollowsStick

(* A HOLD slot that loses its source stays where it is, for every history  *)
(* of trims and sources and every interleaving of sets and reloads.        *)
THEOREM SlotHoldStaysPut == Spec => HoldStaysPut
  <1> DEFINE Stays == Policy = "HOLD" /\ passed' = {} => value' = value
  <1>1. IInv /\ [Next]_vars => [Stays]_vars
    <2> SUFFICES ASSUME IInv, Next, Policy = "HOLD", passed' = {}
                 PROVE  value' = value
      BY DEF vars
    <2>1. ASSUME NEW t \in AcceptedTrims, SetTrim(t)
          PROVE  value' = value
      BY <2>1 DEF SetTrim
    <2>2. ASSUME NEW raw \in Raw, ResolveValid(raw)
          PROVE  FALSE
      BY <2>2 DEF ResolveValid
    <2>3. CASE ResolveInvalid
      BY <2>3 DEF ResolveInvalid, Substitute, IInv, PulseExplained
    <2>4. CASE LoadField
      BY <2>4 DEF LoadField
    <2> QED
      BY <2>1, <2>2, <2>3, <2>4 DEF Next
  <1>2. Spec => [][Stays]_vars
    BY <1>1, SlotInvariant, PTL DEF Spec
  <1> QED
    BY <1>2 DEF HoldStaysPut

=============================================================================
