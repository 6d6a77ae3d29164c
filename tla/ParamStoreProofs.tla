--------------------------- MODULE ParamStoreProofs ---------------------------
(* The parameter store for any number of tasks, params and program units.  *)
EXTENDS ParamStore, TLAPS

LEMMA Constants ==
  /\ Units \in Nat /\ CrcUnit \in 1 .. Units /\ 1 \in 1 .. Units
  /\ UnitOf \in [Ids -> 1 .. Units]
  /\ \A i \in Ids : UnitOf[i] < CrcUnit
  /\ Default \in Records
  /\ NoCall \in Calls
  /\ NoCall.pc = "idle"
<1>1. /\ Units \in Nat /\ CrcUnit \in 1 .. Units /\ 1 \in 1 .. Units
      /\ UnitOf \in [Ids -> 1 .. Units]
      /\ \A i \in Ids : UnitOf[i] < CrcUnit
  BY ParamStoreAssumption
<1>2. Default \in Records
  BY ParamStoreAssumption
<1>3. PICK i \in Ids : Default[i] \in Vals
  BY <1>2, ParamStoreAssumption DEF Records
<1>4. (CHOOSE j \in Ids : TRUE) \in Ids /\ (CHOOSE v \in Vals : TRUE) \in Vals
  BY <1>3
<1>5. NoCall \in Calls /\ NoCall.pc = "idle"
  BY <1>1, <1>2, <1>4 DEF NoCall, Calls, Steps
<1>6. QED
  BY <1>1, <1>2, <1>5

(***************************************************************************)
(* The record in flash: every unit holds its own part of some record, or   *)
(* nothing that can be read as one.                                        *)
(***************************************************************************)

Part(u) == {Erased, Garbage} \cup {Contents(r, u) : r \in Records}

FlashOK(region) ==
  /\ region = [u \in 1 .. Units |-> region[u]]
  /\ \A u \in 1 .. Units : region[u] \in Part(u)

LEMMA FlashTyped ==
  ASSUME NEW region, FlashOK(region)
  PROVE  region \in [1 .. Units -> UnitContents]
<1>1. \A u \in 1 .. Units : region[u] \in UnitContents
  BY DEF FlashOK, Part, UnitContents
<1>2. QED
  BY <1>1 DEF FlashOK

LEMMA Regions ==
  /\ FlashOK(Blank) /\ FlashOK(Scrambled)
  /\ \A r \in Records : FlashOK(Image(r))
  BY DEF FlashOK, Part, Blank, Scrambled, Image

LEMMA UnitWritten ==
  ASSUME NEW region, FlashOK(region), NEW u \in 1 .. Units, NEW part \in Part(u)
  PROVE  FlashOK([region EXCEPT ![u] = part])
  BY DEF FlashOK

(* A valid region holds the record of its CRC unit; a boot loads that one, *)
(* or the defaults.                                                        *)
LEMMA ValidRecord ==
  ASSUME NEW region, FlashOK(region), Valid(region)
  PROVE  /\ region[CrcUnit] \notin {Erased, Garbage}
         /\ region[CrcUnit] \in Records
         /\ ReadRecord(region) = region[CrcUnit]
<1>1. ReadRecord(region) = region[CrcUnit]
  BY DEF Valid
<1>2. region[CrcUnit] \in {Erased, Garbage} \cup Records
  <2>1. CrcUnit \in Nat /\ CrcUnit \in 1 .. Units
    BY Constants
  <2>2. \A r \in Records : Contents(r, CrcUnit) = r
    BY <2>1 DEF Contents
  <2>3. QED
    BY <2>1, <2>2 DEF FlashOK, Part
<1>3. \A i \in Ids : ReadValue(region, i) \in Vals \cup {Erased, Garbage}
  <2>1. SUFFICES ASSUME NEW i \in Ids, region[UnitOf[i]] \notin {Erased, Garbage}
                 PROVE  region[UnitOf[i]][i] \in Vals
    BY DEF ReadValue
  <2>2. PICK r \in Records : region[UnitOf[i]] = Contents(r, UnitOf[i])
    BY <2>1, Constants DEF FlashOK, Part
  <2>3. Contents(r, UnitOf[i]) = [j \in {k \in Ids : UnitOf[k] = UnitOf[i]} |-> r[j]]
    BY Constants DEF Contents
  <2>4. QED
    BY <2>2, <2>3 DEF Records
<1>4. ReadRecord(region) \in [Ids -> Vals \cup {Erased, Garbage}]
  BY <1>3 DEF ReadRecord
<1>5. QED
  BY <1>1, <1>2, <1>4, ParamStoreAssumption

LEMMA LoadedRecord ==
  ASSUME NEW region, FlashOK(region)
  PROVE  Loaded(region) \in Records
  BY ValidRecord, Constants DEF Loaded

(***************************************************************************)
(* Types.                                                                  *)
(***************************************************************************)

TypeInv == TypeOK /\ FlashOK(flash)

LEMMA TypeStart == Init => TypeInv
<1> SUFFICES ASSUME Init PROVE TypeInv
  OBVIOUS
<1>1. FlashOK(flash)
  BY Regions DEF Init
<1>2. cache \in Records /\ promised \in Records /\ built \in SUBSET Records
  BY <1>1, LoadedRecord, Constants DEF Init
<1>3. call \in [Writers -> Calls]
  BY Constants DEF Init
<1>4. QED
  BY <1>1, <1>2, <1>3, FlashTyped DEF Init, TypeInv, TypeOK

LEMMA InterruptedOK ==
  ASSUME TypeInv, NEW region \in Interrupted
  PROVE  FlashOK(region)
<1>1. CASE region = flash \/ region \in {Blank, Scrambled}
  BY <1>1, Regions DEF TypeInv
<1>2. CASE \E w \in Writers : region = [flash EXCEPT ![call[w].unit] = Garbage]
  <2>1. PICK w \in Writers : region = [flash EXCEPT ![call[w].unit] = Garbage]
    BY <1>2
  <2>2. call[w].unit \in 1 .. Units
    BY DEF TypeInv, TypeOK, Calls
  <2>3. Garbage \in Part(call[w].unit)
    BY DEF Part
  <2>4. QED
    BY <2>1, <2>2, <2>3, UnitWritten DEF TypeInv
<1>3. QED
  BY <1>1, <1>2 DEF Interrupted

LEMMA TypeStep == TypeInv /\ [Next]_vars => TypeInv'
<1> SUFFICES ASSUME TypeInv, [Next]_vars PROVE TypeInv'
  OBVIOUS
<1> USE DEF flashVars, historyVars
<1>1. /\ TypeOK /\ FlashOK(flash)
      /\ call \in [Writers -> Calls] /\ cache \in Records /\ promised \in Records
      /\ built \in SUBSET Records
  BY DEF TypeInv, TypeOK
<1>2. ASSUME FlashOK(flash'), cache' \in Records, promised' \in Records,
             built' \in SUBSET Records, call' \in [Writers -> Calls],
             locked' \in BOOLEAN, busy' \in Writers \cup {NoOne},
             failures' \in {"none", "earlier", "last"}, overlapped' \in BOOLEAN
      PROVE  TypeInv'
  BY <1>2, FlashTyped DEF TypeInv, TypeOK
<1>3. ASSUME NEW w \in Writers, NEW i \in Settable[w], NEW v \in Vals, Set(w, i, v)
      PROVE  TypeInv'
  <2>1. i \in Ids
    BY ParamStoreAssumption
  <2>2. cache' \in Records
    BY <1>1, <1>3, <2>1 DEF Set, Records
  <2>3. [NoCall EXCEPT !.pc = "snapshot", !.id = i, !.previous = cache[i]] \in Calls
    BY <1>1, <2>1, Constants DEF Calls, Steps, Records
  <2>4. call' \in [Writers -> Calls]
    BY <1>1, <1>3, <2>3 DEF Set
  <2>5. overlapped' \in BOOLEAN
    BY <1>1, <1>3 DEF Set, TypeOK
  <2>6. QED
    BY <1>1, <1>2, <1>3, <2>2, <2>4, <2>5 DEF Set, TypeOK
<1>4. ASSUME NEW w \in Writers, Snapshot(w) PROVE TypeInv'
  <2>1. call' \in [Writers -> Calls]
    BY <1>1, <1>4 DEF Snapshot, Calls, Steps
  <2>2. QED
    BY <1>1, <1>2, <1>4, <2>1 DEF Snapshot, TypeOK
<1>5. ASSUME NEW w \in Writers, Unlock(w) \/ Refused(w) \/ Begins(w) \/ Lock(w) PROVE TypeInv'
  <2>1. call[w] \in Calls
    BY <1>1
  <2>2. \A step \in Steps : [call[w] EXCEPT !.pc = step] \in Calls
    BY <2>1 DEF Calls
  <2>3. [call[w] EXCEPT !.ok = FALSE, !.pc = "lock"] \in Calls
    BY <2>1 DEF Calls, Steps
  <2>4. \A step \in Steps : Goto(w, step) => call' \in [Writers -> Calls]
    BY <1>1, <2>2 DEF Goto
  <2>5. CASE Unlock(w)
    <3>1. call' \in [Writers -> Calls]
      BY <2>4, <2>5 DEF Unlock, Steps
    <3>2. QED
      BY <1>1, <1>2, <2>5, <3>1 DEF Unlock, TypeOK
  <2>6. CASE Refused(w)
    <3>1. call' \in [Writers -> Calls]
      BY <1>1, <2>3, <2>6 DEF Refused
    <3>2. QED
      BY <1>1, <1>2, <2>6, <3>1 DEF Refused, TypeOK
  <2>7. CASE Begins(w)
    <3>1. call' \in [Writers -> Calls]
      BY <2>4, <2>7 DEF Begins, Steps
    <3>2. QED
      BY <1>1, <1>2, <2>7, <3>1 DEF Begins, TypeOK
  <2>8. CASE Lock(w)
    <3>1. call' \in [Writers -> Calls]
      BY <2>4, <2>8 DEF Lock, Steps
    <3>2. QED
      BY <1>1, <1>2, <2>8, <3>1 DEF Lock, TypeOK
  <2>9. QED
    BY <1>5, <2>5, <2>6, <2>7, <2>8
<1>6. ASSUME NEW w \in Writers, NEW result \in Results, EraseEnds(w, result) PROVE TypeInv'
  <2>1. result \in BOOLEAN
    BY DEF Results
  <2>2. call' \in [Writers -> Calls]
    <3>1. call[w] \in Calls
      BY <1>1
    <3>2. \A b \in BOOLEAN, step \in Steps :
            [call[w] EXCEPT !.ok = b, !.pc = step] \in Calls
      BY <3>1 DEF Calls
    <3>3. (IF Checked(result) THEN "program" ELSE "lock") \in Steps
      BY DEF Steps
    <3>4. Checked(result) \in BOOLEAN
      BY <2>1 DEF Checked
    <3>5. PICK b \in BOOLEAN, step \in Steps :
            call' = [call EXCEPT ![w].ok = b, ![w].pc = step]
      BY <1>6, <3>3, <3>4 DEF EraseEnds
    <3>6. QED
      BY <1>1, <3>2, <3>5
  <2>3. FlashOK(flash')
    BY <1>6, Regions DEF EraseEnds
  <2>4. QED
    BY <1>1, <1>2, <1>6, <2>2, <2>3 DEF EraseEnds, TypeOK
<1>7. ASSUME NEW w \in Writers, NEW result \in Results, ProgramEnds(w, result) PROVE TypeInv'
  <2>1. result \in BOOLEAN
    BY DEF Results
  <2>2. /\ call[w] \in Calls /\ call[w].unit \in 1 .. Units /\ call[w].record \in Records
        /\ call[w].unit < Units => call[w].unit + 1 \in 1 .. Units
    BY <1>1, Constants DEF Calls
  <2>3. Programmed(w) \in Part(call[w].unit) /\ Garbage \in Part(call[w].unit)
    BY <2>2 DEF Programmed, Part
  <2>4. FlashOK(flash')
    BY <1>1, <1>7, <2>2, <2>3, UnitWritten DEF ProgramEnds
  <2>5. call' \in [Writers -> Calls]
    BY <1>1, <1>7, <2>1, <2>2 DEF ProgramEnds, Checked, Calls, Steps
  <2>6. QED
    BY <1>1, <1>2, <1>7, <2>4, <2>5 DEF ProgramEnds, TypeOK
<1>8. ASSUME NEW w \in Writers, Return(w) PROVE TypeInv'
  <2>1. call[w] \in Calls
    BY <1>1
  <2>2. cache' \in Records /\ promised' \in Records
    BY <1>1, <1>8, <2>1 DEF Return, RolledBack, Calls, Records
  <2>3. call' \in [Writers -> Calls]
    BY <1>1, <1>8, Constants DEF Return
  <2>4. QED
    BY <1>1, <1>2, <1>8, <2>2, <2>3 DEF Return, TypeOK
<1>9. CASE Restart
  <2>1. PICK region \in Interrupted :
          /\ flash' = region /\ cache' = Loaded(region) /\ promised' = Loaded(region)
          /\ locked' = TRUE /\ busy' = NoOne /\ call' = [w \in Writers |-> NoCall]
          /\ failures' = "none" /\ overlapped' = FALSE
          /\ built' = {Loaded(region), Default}
    BY <1>9 DEF Restart
  <2>2. FlashOK(region)
    BY InterruptedOK
  <2>3. Loaded(region) \in Records /\ Default \in Records
    BY <2>2, LoadedRecord, Constants
  <2>4. QED
    BY <1>2, <2>1, <2>2, <2>3, Constants
<1>10. CASE UNCHANGED vars
  BY <1>1, <1>2, <1>10 DEF vars, TypeOK
<1>11. QED
  BY <1>3, <1>4, <1>5, <1>6, <1>7, <1>8, <1>9, <1>10 DEF Next

(* Cache, flash, locals and histories keep their types, also when power is *)
(* lost in the middle of an erase.                                         *)
THEOREM StoreTypeCorrect == Spec => []TypeOK
<1>1. TypeInv => TypeOK
  BY DEF TypeInv
<1>2. QED
  BY <1>1, TypeStart, TypeStep, PTL DEF Spec

(***************************************************************************)
(* What a boot loads is whole: the crc unit holds the record of a call of  *)
(* this boot, or the region is one that this boot found invalid and that   *)
(* nobody has programmed since.                                            *)
(***************************************************************************)

BuiltInv ==
  /\ Default \in built
  /\ \A w \in Writers : call[w].record \in built
  /\ \/ flash[CrcUnit] \in {Erased, Garbage} \cup built
     \/ /\ ~ Valid(flash)
        /\ \A w \in Writers : call[w].pc \notin {"program", "programming"}

LEMMA BuiltBoot ==
  ASSUME NEW region, FlashOK(region)
  PROVE  \/ region[CrcUnit] \in {Erased, Garbage} \cup {Loaded(region), Default}
         \/ ~ Valid(region)
  BY ValidRecord DEF Loaded

LEMMA BuiltStart == Init => BuiltInv
<1> SUFFICES ASSUME Init PROVE BuiltInv
  OBVIOUS
<1>1. FlashOK(flash)
  BY Regions DEF Init
<1>2. NoCall.record = Default /\ NoCall.pc = "idle"
  BY DEF NoCall
<1>3. QED
  BY <1>1, <1>2, BuiltBoot DEF Init, BuiltInv

LEMMA BuiltStep == TypeInv /\ BuiltInv /\ [Next]_vars => BuiltInv'
<1> SUFFICES ASSUME TypeInv, BuiltInv, [Next]_vars PROVE BuiltInv'
  OBVIOUS
<1> USE DEF flashVars, historyVars
<1>1. /\ FlashOK(flash) /\ call \in [Writers -> Calls] /\ CrcUnit \in 1 .. Units
      /\ flash = [u \in 1 .. Units |-> flash[u]]
  BY Constants DEF TypeInv, TypeOK, FlashOK
<1>2. NoCall.record = Default /\ NoCall.pc = "idle"
  BY DEF NoCall
<1>3. ASSUME NEW w \in Writers, NEW i \in Settable[w], NEW v \in Vals, Set(w, i, v)
      PROVE  BuiltInv'
  <2>1. /\ call'[w].record = Default /\ call'[w].pc = "snapshot"
        /\ \A x \in Writers : x # w => call'[x] = call[x]
    BY <1>1, <1>2, <1>3 DEF Set, NoCall
  <2>2. QED
    BY <1>3, <2>1 DEF BuiltInv, Set, Valid, ReadRecord, ReadValue
<1>4. ASSUME NEW w \in Writers, Snapshot(w) PROVE BuiltInv'
  <2>1. /\ call'[w].record = cache /\ call'[w].pc = "unlock"
        /\ \A x \in Writers : x # w => call'[x] = call[x]
    BY <1>1, <1>4 DEF Snapshot, Calls
  <2>2. flash' = flash /\ built' = built \cup {cache}
    BY <1>4 DEF Snapshot
  <2>3. Valid(flash)' <=> Valid(flash)
    BY <2>2 DEF Valid, ReadRecord, ReadValue
  <2>4. \A x \in Writers : call'[x].record \in built'
    BY <2>1, <2>2 DEF BuiltInv
  <2>5. QED
    BY <2>1, <2>2, <2>3, <2>4 DEF BuiltInv
<1>5. ASSUME NEW w \in Writers, Unlock(w) \/ Refused(w) \/ Begins(w) \/ Lock(w)
      PROVE  BuiltInv'
  <2>1. /\ call'[w].record = call[w].record
        /\ call'[w].pc \in {"program", "programming"} => call[w].pc = "program"
        /\ \A x \in Writers : x # w => call'[x] = call[x]
    <3>1. CASE Unlock(w)
      BY <1>1, <3>1 DEF Unlock, Goto, Calls
    <3>2. CASE Refused(w)
      BY <1>1, <3>2 DEF Refused, Calls
    <3>3. CASE Begins(w)
      BY <1>1, <3>3 DEF Begins, Goto, At, Calls
    <3>4. CASE Lock(w)
      BY <1>1, <3>4 DEF Lock, Goto, Calls
    <3>5. QED
      BY <1>5, <3>1, <3>2, <3>3, <3>4
  <2>2. flash' = flash /\ built' = built
    BY <1>5 DEF Unlock, Refused, Begins, Lock
  <2>3. QED
    BY <2>1, <2>2 DEF BuiltInv, Valid, ReadRecord, ReadValue
<1>6. ASSUME NEW w \in Writers, NEW result \in Results, EraseEnds(w, result)
      PROVE  BuiltInv'
  <2>1. /\ call'[w].record = call[w].record
        /\ \A x \in Writers : x # w => call'[x] = call[x]
    BY <1>1, <1>6 DEF EraseEnds, Calls
  <2>2. flash'[CrcUnit] \in {Erased, Garbage}
    BY <1>1, <1>6 DEF EraseEnds, Blank, Scrambled
  <2>3. built' = built
    BY <1>6 DEF EraseEnds
  <2>4. \A x \in Writers : call'[x].record \in built'
    BY <2>1, <2>3 DEF BuiltInv
  <2>5. QED
    BY <2>2, <2>3, <2>4 DEF BuiltInv
<1>7. ASSUME NEW w \in Writers, NEW result \in Results, ProgramEnds(w, result)
      PROVE  BuiltInv'
  <2>1. /\ call'[w].record = call[w].record
        /\ \A x \in Writers : x # w => call'[x] = call[x]
    <3>1. CASE Checked(result) /\ call[w].unit < Units
      BY <1>1, <1>7, <3>1 DEF ProgramEnds, Calls
    <3>2. CASE ~ (Checked(result) /\ call[w].unit < Units)
      <4>1. PICK b : call' = [call EXCEPT ![w].pc = "lock", ![w].ok = b]
        BY <1>7, <3>2 DEF ProgramEnds
      <4>2. QED
        BY <1>1, <4>1 DEF Calls
    <3>3. QED
      BY <3>1, <3>2
  <2>2. flash[CrcUnit] \in {Erased, Garbage} \cup built
    BY <1>7 DEF BuiltInv, ProgramEnds, At
  <2>3. CASE call[w].unit = CrcUnit
    <3>1. Contents(call[w].record, CrcUnit) = call[w].record
      BY Constants DEF Contents
    <3>2. flash'[CrcUnit] \in {Garbage, call[w].record}
      BY <1>1, <1>7, <2>3, <3>1 DEF ProgramEnds, Programmed
    <3>3. QED
      BY <1>7, <2>1, <3>2 DEF BuiltInv, ProgramEnds
  <2>4. CASE call[w].unit # CrcUnit
    <3>1. flash'[CrcUnit] = flash[CrcUnit]
      BY <1>1, <1>7, <2>4 DEF ProgramEnds
    <3>2. QED
      BY <1>7, <2>1, <2>2, <3>1 DEF BuiltInv, ProgramEnds
  <2>5. QED
    BY <2>3, <2>4
<1>8. ASSUME NEW w \in Writers, Return(w) PROVE BuiltInv'
  <2>1. /\ call'[w] = NoCall
        /\ \A x \in Writers : x # w => call'[x] = call[x]
    BY <1>1, <1>8 DEF Return
  <2>2. flash' = flash /\ built' = built
    BY <1>8 DEF Return
  <2>3. QED
    BY <1>2, <2>1, <2>2 DEF BuiltInv, Valid, ReadRecord, ReadValue
<1>9. CASE Restart
  <2>1. PICK region \in Interrupted :
          /\ flash' = region /\ call' = [w \in Writers |-> NoCall]
          /\ built' = {Loaded(region), Default}
    BY <1>9 DEF Restart
  <2>2. FlashOK(region)
    BY InterruptedOK
  <2>3. \/ flash'[CrcUnit] \in {Erased, Garbage} \cup built'
        \/ ~ Valid(flash')
    BY <2>1, <2>2, BuiltBoot
  <2>4. \A w \in Writers : call'[w].record \in built' /\ call'[w].pc = "idle"
    BY <1>2, <2>1
  <2>5. Valid(flash)' <=> Valid(flash')
    BY DEF Valid, ReadRecord, ReadValue
  <2>6. QED
    BY <2>1, <2>3, <2>4, <2>5 DEF BuiltInv
<1>10. CASE UNCHANGED vars
  BY <1>10 DEF vars, BuiltInv, Valid, ReadRecord, ReadValue
<1>11. QED
  BY <1>3, <1>4, <1>5, <1>6, <1>7, <1>8, <1>9, <1>10 DEF Next

(* A boot never loads a mixture of two records, wherever power goes,       *)
(* whatever fails and however many tasks write at once.                    *)
THEOREM NeverTornHolds == Spec => []NeverTorn
<1>1. TypeInv /\ BuiltInv => NeverTorn
  <2>1. SUFFICES ASSUME TypeInv, BuiltInv PROVE Loaded(flash) \in built
    BY DEF NeverTorn
  <2>2. CASE Valid(flash)
    BY <2>1, <2>2, ValidRecord DEF BuiltInv, Loaded, TypeInv
  <2>3. CASE ~ Valid(flash)
    BY <2>1, <2>3 DEF BuiltInv, Loaded
  <2>4. QED
    BY <2>2, <2>3
<1>2. QED
  BY <1>1, TypeStart, TypeStep, BuiltStart, BuiltStep, PTL DEF Spec

(***************************************************************************)
(* One call at a time: the call that runs accounts for every difference    *)
(* between the cache, the flash and what callers have been told.           *)
(***************************************************************************)

Progress(rec, n) == [u \in 1 .. Units |-> IF u < n THEN Contents(rec, u) ELSE Erased]

Accounted(c) ==
  /\ cache = [promised EXCEPT ![c.id] = cache[c.id]]
  /\ c.previous = promised[c.id]
  /\ c.pc # "snapshot" => c.record = cache
  /\ c.pc \notin {"lock", "return"} => c.ok = TRUE
  /\ c.pc \in {"snapshot", "unlock", "erase", "erasing"} => c.unit = 1
  /\ c.pc \in {"program", "programming"} => flash = Progress(c.record, c.unit)
  /\ (c.pc \in {"lock", "return"} /\ c.ok) => flash = Image(c.record)

Alone ==
  /\ \A w, x \in Writers : ~ At(w, "idle") /\ ~ At(x, "idle") => w = x
  /\ \A w \in Writers : ~ At(w, "idle") => Accounted(call[w])
  /\ Quiet => cache = promised
  /\ (Quiet /\ failures # "last") => Loaded(flash) = promised

AloneInv == ~ overlapped => Alone

(* A record written whole is the one a boot loads. *)
LEMMA ImageLoads ==
  ASSUME NEW rec \in Records
  PROVE  Loaded(Image(rec)) = rec
<1> DEFINE region == Image(rec)
<1>1. CrcUnit \in Nat /\ 1 < CrcUnit /\ CrcUnit \in 1 .. Units
  BY Constants, ParamStoreAssumption
<1>2. \A u \in 1 .. CrcUnit - 1 :
        /\ region[u] = [i \in {j \in Ids : UnitOf[j] = u} |-> rec[i]]
        /\ region[u] \notin {Erased, Garbage}
  <2>1. SUFFICES ASSUME NEW u \in 1 .. CrcUnit - 1
                 PROVE  /\ region[u] = [i \in {j \in Ids : UnitOf[j] = u} |-> rec[i]]
                        /\ region[u] \notin {Erased, Garbage}
    OBVIOUS
  <2>2. u \in 1 .. Units /\ u < CrcUnit
    BY <1>1, Constants
  <2>3. region[u] = [i \in {j \in Ids : UnitOf[j] = u} |-> rec[i]]
    BY <2>2 DEF Image, Contents
  <2>4. {j \in Ids : UnitOf[j] = u} \in SUBSET Ids
    OBVIOUS
  <2>5. region[u] \in [{j \in Ids : UnitOf[j] = u} -> Vals \cup {Erased, Garbage}]
    BY <2>3 DEF Records
  <2>6. QED
    BY <2>3, <2>4, <2>5, ParamStoreAssumption
<1>3. region[CrcUnit] = rec
  BY <1>1 DEF Image, Contents
<1>4. \A i \in Ids : ReadValue(region, i) = rec[i]
  <2>1. SUFFICES ASSUME NEW i \in Ids PROVE ReadValue(region, i) = rec[i]
    OBVIOUS
  <2>2. UnitOf[i] \in 1 .. CrcUnit - 1
    BY ParamStoreAssumption
  <2>3. QED
    BY <1>2, <2>2 DEF ReadValue
<1>5. ReadRecord(region) = rec
  BY <1>4 DEF ReadRecord, Records
<1>6. 1 \in 1 .. CrcUnit - 1
  BY <1>1
<1>7. Valid(region)
  BY <1>2, <1>3, <1>5, <1>6 DEF Valid
<1>8. QED
  BY <1>5, <1>7 DEF Loaded

(* Of a constant operator, only the arguments change in a step. *)
LEMMA Primed ==
  ASSUME NEW w \in Writers
  PROVE  /\ Progress(call[w].record, call[w].unit)' = Progress(call'[w].record, call'[w].unit)
         /\ Image(call[w].record)' = Image(call'[w].record)
  BY DEF Progress, Image, Contents

LEMMA AloneStart == Init => AloneInv
  BY DEF Init, AloneInv, Alone, At, Quiet, NoCall

LEMMA AloneStep == TypeInv /\ AloneInv /\ [Next]_vars => AloneInv'
<1> SUFFICES ASSUME TypeInv, AloneInv, [Next]_vars PROVE AloneInv'
  OBVIOUS
<1> USE DEF flashVars, historyVars
<1>1. /\ call \in [Writers -> Calls] /\ cache \in Records /\ promised \in Records
      /\ flash = [u \in 1 .. Units |-> flash[u]] /\ Units \in Nat
  BY Constants DEF TypeInv, TypeOK, FlashOK
<1>2. NoCall.pc = "idle"
  BY Constants
\* A step of one call that ends neither it nor the others.
<1>3. ASSUME NEW w \in Writers, ~ At(w, "idle"), call'[w].pc # "idle",
             \A x \in Writers : x # w => call'[x] = call[x],
             overlapped' = overlapped, promised' = promised, cache' = cache,
             ~ overlapped => Accounted(call[w])',
             call'[w].id = call[w].id
      PROVE  AloneInv'
  <2>1. SUFFICES ASSUME ~ overlapped PROVE Alone'
    BY <1>3 DEF AloneInv
  <2>2. \A x \in Writers : x # w => call[x].pc = "idle"
    BY <1>3, <2>1 DEF AloneInv, Alone, At
  <2>3. \A x \in Writers : call'[x].pc # "idle" => x = w
    BY <1>3, <2>2
  <2>4. ~ Quiet'
    BY <1>3 DEF Quiet, At
  <2>5. \A x \in Writers : call'[x].pc # "idle" => Accounted(call[x])'
    BY <1>3, <2>1, <2>3
  <2>6. QED
    BY <2>3, <2>4, <2>5 DEF Alone, At
<1>4. ASSUME NEW w \in Writers, ~ At(w, "idle"), ~ overlapped
      PROVE  Accounted(call[w]) /\ call[w] \in Calls
  BY <1>1, <1>4 DEF AloneInv, Alone
<1>5. ASSUME NEW w \in Writers, NEW i \in Settable[w], NEW v \in Vals, Set(w, i, v)
      PROVE  AloneInv'
  <2>1. i \in Ids
    BY ParamStoreAssumption
  <2>2. SUFFICES ASSUME ~ overlapped' PROVE Alone'
    BY DEF AloneInv
  <2>3. ~ overlapped /\ Quiet
    BY <1>5, <2>2 DEF Set
  <2>4. cache = promised /\ cache' = [promised EXCEPT ![i] = v] /\ promised' = promised
    BY <1>5, <2>3 DEF AloneInv, Alone, Set
  <2>5. /\ call'[w].pc = "snapshot" /\ call'[w].id = i /\ call'[w].previous = promised[i]
        /\ call'[w].ok = TRUE /\ call'[w].unit = 1
        /\ \A x \in Writers : x # w => call'[x] = call[x]
    BY <1>1, <1>5, <2>4 DEF Set, NoCall
  <2>6. cache' = [promised' EXCEPT ![i] = cache'[i]]
    BY <1>1, <2>1, <2>4 DEF Records
  <2>7. Accounted(call[w])'
    BY <2>4, <2>5, <2>6 DEF Accounted
  <2>8. \A x \in Writers : call'[x].pc # "idle" => x = w
    BY <2>3, <2>5 DEF Quiet, At
  <2>9. ~ Quiet'
    BY <2>5 DEF Quiet, At
  <2>10. QED
    BY <2>7, <2>8, <2>9 DEF Alone, At
<1>6. ASSUME NEW w \in Writers, Snapshot(w) PROVE AloneInv'
  <2>1. /\ call' = [call EXCEPT ![w].record = cache, ![w].pc = "unlock"]
        /\ At(w, "snapshot") /\ ~ At(w, "idle") /\ cache' = cache /\ flash' = flash
        /\ promised' = promised /\ overlapped' = overlapped
    BY <1>6 DEF Snapshot, At
  <2>2. /\ call'[w].pc = "unlock" /\ call'[w].record = cache /\ call'[w].id = call[w].id
        /\ call'[w].unit = call[w].unit /\ call'[w].previous = call[w].previous
        /\ call'[w].ok = call[w].ok
        /\ \A x \in Writers : x # w => call'[x] = call[x]
    BY <1>1, <2>1 DEF Calls
  <2>3. ~ overlapped => Accounted(call[w])'
    BY <1>4, <2>1, <2>2 DEF Accounted, At
  <2>4. QED
    BY <1>3, <2>1, <2>2, <2>3
<1>7. ASSUME NEW w \in Writers, Unlock(w) \/ Begins(w) \/ Lock(w) PROVE AloneInv'
  <2>1. /\ ~ At(w, "idle") /\ cache' = cache /\ flash' = flash
        /\ promised' = promised /\ overlapped' = overlapped
    BY <1>7 DEF Unlock, Begins, Lock, At
  <2>2. PICK step \in Steps :
          /\ Goto(w, step)
          /\ \/ call[w].pc = "unlock" /\ step = "erase"
             \/ call[w].pc = "erase" /\ step = "erasing"
             \/ call[w].pc = "program" /\ step = "programming"
             \/ call[w].pc = "lock" /\ step = "return"
    BY <1>7 DEF Unlock, Begins, Lock, At, Steps
  <2>3. /\ call'[w].pc = step /\ call'[w].record = call[w].record
        /\ call'[w].unit = call[w].unit /\ call'[w].previous = call[w].previous
        /\ call'[w].ok = call[w].ok /\ call'[w].id = call[w].id
        /\ \A x \in Writers : x # w => call'[x] = call[x]
    BY <1>1, <2>2 DEF Goto, Calls
  <2>4. ~ overlapped => Accounted(call[w])'
    BY <1>4, <2>1, <2>2, <2>3 DEF Accounted
  <2>5. step # "idle"
    BY <2>2
  <2>6. QED
    BY <1>3, <2>1, <2>3, <2>4, <2>5
<1>8. ASSUME NEW w \in Writers, Refused(w) PROVE AloneInv'
  <2>1. /\ ~ At(w, "idle") /\ cache' = cache /\ flash' = flash
        /\ promised' = promised /\ overlapped' = overlapped
        /\ call[w].pc \in {"erase", "program"}
    BY <1>8 DEF Refused, At
  <2>2. /\ call'[w].pc = "lock" /\ call'[w].record = call[w].record
        /\ call'[w].previous = call[w].previous /\ ~ call'[w].ok
        /\ call'[w].id = call[w].id
        /\ \A x \in Writers : x # w => call'[x] = call[x]
    BY <1>1, <1>8 DEF Refused, Calls
  <2>3. ~ overlapped => Accounted(call[w])'
    BY <1>4, <2>1, <2>2 DEF Accounted
  <2>4. QED
    BY <1>3, <2>1, <2>2, <2>3
<1>9. ASSUME NEW w \in Writers, NEW result \in Results, EraseEnds(w, result)
      PROVE  AloneInv'
  <2>1. /\ ~ At(w, "idle") /\ cache' = cache /\ promised' = promised
        /\ overlapped' = overlapped /\ call[w].pc = "erasing"
        /\ flash' = IF result THEN Blank ELSE Scrambled
    BY <1>9 DEF EraseEnds, At
  <2>2. CASE result = TRUE
    <3>1. call' = [call EXCEPT ![w].ok = TRUE, ![w].pc = "program"]
      BY <1>9, <2>2 DEF EraseEnds, Checked
    <3>2. /\ call'[w].pc = "program" /\ call'[w].record = call[w].record
          /\ call'[w].previous = call[w].previous /\ call'[w].ok = TRUE
          /\ call'[w].id = call[w].id /\ call'[w].unit = call[w].unit
          /\ \A x \in Writers : x # w => call'[x] = call[x]
      BY <1>1, <3>1 DEF Calls
    <3>3. flash' = Progress(call[w].record, 1)
      BY <2>1, <2>2 DEF Progress, Blank
    <3>4. ~ overlapped => Accounted(call[w])'
      BY <1>4, <2>1, <3>2, <3>3, Primed DEF Accounted
    <3>5. QED
      BY <1>3, <2>1, <3>2, <3>4
  <2>3. CASE result = FALSE
    <3>1. call' = [call EXCEPT ![w].ok = FALSE, ![w].pc = "lock"]
      BY <1>9, <2>3 DEF EraseEnds, Checked
    <3>2. /\ call'[w].pc = "lock" /\ call'[w].record = call[w].record
          /\ call'[w].previous = call[w].previous /\ ~ call'[w].ok
          /\ call'[w].id = call[w].id
          /\ \A x \in Writers : x # w => call'[x] = call[x]
      BY <1>1, <3>1 DEF Calls
    <3>3. ~ overlapped => Accounted(call[w])'
      BY <1>4, <2>1, <3>2 DEF Accounted
    <3>4. QED
      BY <1>3, <2>1, <3>2, <3>3
  <2>4. QED
    BY <2>2, <2>3 DEF Results
<1>10. ASSUME NEW w \in Writers, NEW result \in Results, ProgramEnds(w, result)
       PROVE  AloneInv'
  <2>1. /\ ~ At(w, "idle") /\ cache' = cache /\ promised' = promised
        /\ overlapped' = overlapped /\ call[w].pc = "programming"
        /\ flash' = [flash EXCEPT ![call[w].unit] =
                       IF result THEN Programmed(w) ELSE Garbage]
    BY <1>10 DEF ProgramEnds, At
  <2>2. call[w] \in Calls /\ call[w].unit \in 1 .. Units
    BY <1>1 DEF Calls
  <2>3. CASE result = FALSE
    <3>1. call' = [call EXCEPT ![w].pc = "lock", ![w].ok = FALSE]
      BY <1>10, <2>3 DEF ProgramEnds, Checked
    <3>2. /\ call'[w].pc = "lock" /\ call'[w].record = call[w].record
          /\ call'[w].previous = call[w].previous /\ ~ call'[w].ok
          /\ call'[w].id = call[w].id
          /\ \A x \in Writers : x # w => call'[x] = call[x]
      BY <1>1, <3>1 DEF Calls
    <3>3. ~ overlapped => Accounted(call[w])'
      BY <1>4, <2>1, <3>2 DEF Accounted
    <3>4. QED
      BY <1>3, <2>1, <3>2, <3>3
  <2>4. ASSUME result = TRUE, ~ overlapped
        PROVE  flash' = Progress(call[w].record, call[w].unit + 1)
    <3>1. flash = Progress(call[w].record, call[w].unit)
      BY <1>4, <2>1, <2>4 DEF Accounted
    <3>2. flash[call[w].unit] = Erased
      BY <2>2, <3>1 DEF Progress
    <3>3. flash' = [flash EXCEPT ![call[w].unit] = Contents(call[w].record, call[w].unit)]
      BY <2>1, <2>4, <3>2 DEF Programmed
    <3>4. QED
      BY <1>1, <2>2, <3>1, <3>3 DEF Progress
  <2>5. CASE result = TRUE /\ call[w].unit < Units
    <3>1. call' = [call EXCEPT ![w].pc = "program", ![w].unit = @ + 1]
      BY <1>10, <2>5 DEF ProgramEnds, Checked
    <3>2. /\ call'[w].pc = "program" /\ call'[w].record = call[w].record
          /\ call'[w].previous = call[w].previous /\ call'[w].ok = call[w].ok
          /\ call'[w].id = call[w].id /\ call'[w].unit = call[w].unit + 1
          /\ \A x \in Writers : x # w => call'[x] = call[x]
      BY <1>1, <3>1 DEF Calls
    <3>3. ~ overlapped => Accounted(call[w])'
      BY <1>4, <2>1, <2>4, <2>5, <3>2, Primed DEF Accounted
    <3>4. QED
      BY <1>3, <2>1, <3>2, <3>3
  <2>6. CASE result = TRUE /\ ~ call[w].unit < Units
    <3>1. call' = [call EXCEPT ![w].pc = "lock", ![w].ok = TRUE]
      BY <1>10, <2>6 DEF ProgramEnds, Checked
    <3>2. /\ call'[w].pc = "lock" /\ call'[w].record = call[w].record
          /\ call'[w].previous = call[w].previous /\ call'[w].ok = TRUE
          /\ call'[w].id = call[w].id
          /\ \A x \in Writers : x # w => call'[x] = call[x]
      BY <1>1, <3>1 DEF Calls
    <3>3. \A u \in 1 .. Units : u < call[w].unit + 1
      BY <1>1, <2>2, <2>6
    <3>4. Progress(call[w].record, call[w].unit + 1) = Image(call[w].record)
      BY <3>3 DEF Progress, Image
    <3>5. ~ overlapped => flash' = Image(call[w].record)
      BY <2>4, <2>6, <3>4
    <3>6. ~ overlapped => Accounted(call[w])'
      BY <1>4, <2>1, <3>2, <3>5, Primed DEF Accounted
    <3>7. QED
      BY <1>3, <2>1, <3>2, <3>6
  <2>7. QED
    BY <2>3, <2>5, <2>6 DEF Results
<1>11. ASSUME NEW w \in Writers, Return(w) PROVE AloneInv'
  <2>1. SUFFICES ASSUME ~ overlapped PROVE Alone'
    BY <1>11 DEF Return, AloneInv
  <2>2. ~ At(w, "idle") /\ call[w].pc = "return" /\ flash' = flash
    BY <1>11 DEF Return, At
  <2>3. Accounted(call[w]) /\ call[w] \in Calls
    BY <1>4, <2>1, <2>2
  <2>4. \A x \in Writers : call'[x].pc = "idle"
    <3>1. \A x \in Writers : x # w => call[x].pc = "idle"
      BY <2>1, <2>2 DEF AloneInv, Alone, At
    <3>2. QED
      BY <1>1, <1>2, <1>11, <3>1 DEF Return
  <2>5. call[w].id \in Ids /\ call[w].ok \in BOOLEAN
    BY <2>3 DEF Calls
  <2>6. CASE call[w].ok
    <3>1. cache' = cache /\ promised' = [promised EXCEPT ![call[w].id] = call[w].record[call[w].id]]
      BY <1>11, <2>6 DEF Return, RolledBack
    <3>2. call[w].record = cache /\ flash = Image(cache)
      BY <2>2, <2>3, <2>6 DEF Accounted
    <3>3. promised' = cache'
      BY <2>3, <3>1, <3>2 DEF Accounted
    <3>4. Loaded(flash) = cache
      BY <1>1, <3>2, ImageLoads
    <3>5. Loaded(flash)' = promised'
      BY <2>2, <3>1, <3>3, <3>4 DEF Loaded, Valid, ReadRecord, ReadValue
    <3>6. QED
      BY <2>4, <3>3, <3>5 DEF Alone, At
  <2>7. CASE ~ call[w].ok
    <3>1. /\ cache' = [cache EXCEPT ![call[w].id] = call[w].previous]
          /\ promised' = promised /\ failures' = "last"
      BY <1>11, <2>7 DEF Return, RolledBack
    <3>2. cache' = promised'
      BY <1>1, <2>3, <2>5, <3>1 DEF Accounted, Records
    <3>3. QED
      BY <2>4, <3>1, <3>2 DEF Alone, At
  <2>8. QED
    BY <2>5, <2>6, <2>7
<1>12. CASE Restart
  <2>1. PICK region \in Interrupted :
          /\ flash' = region /\ call' = [w \in Writers |-> NoCall]
          /\ cache' = Loaded(region) /\ promised' = Loaded(region)
    BY <1>12 DEF Restart
  <2>2. Loaded(flash)' = Loaded(region)
    BY <2>1 DEF Loaded, Valid, ReadRecord, ReadValue
  <2>3. QED
    BY <1>2, <2>1, <2>2 DEF AloneInv, Alone, At
<1>13. CASE UNCHANGED vars
  <2>1. /\ call' = call /\ cache' = cache /\ promised' = promised /\ flash' = flash
        /\ overlapped' = overlapped /\ failures' = failures
    BY <1>13 DEF vars
  <2>2. \A w \in Writers : Accounted(call[w]) => Accounted(call[w])'
    BY <2>1, Primed DEF Accounted
  <2>3. Loaded(flash)' = Loaded(flash)
    BY <2>1 DEF Loaded, Valid, ReadRecord, ReadValue
  <2>4. QED
    BY <2>1, <2>2, <2>3 DEF AloneInv, Alone, At, Quiet
<1>14. QED
  BY <1>5, <1>6, <1>7, <1>8, <1>9, <1>10, <1>11, <1>12, <1>13 DEF Next

(* TRUE means stored: with no overlap, and unless the last call failed, a  *)
(* boot would load every acknowledged value, also over a region that a     *)
(* failure had destroyed.                                                  *)
THEOREM AcknowledgedIsStoredHolds == Spec => []AcknowledgedIsStored
<1>1. AloneInv => AcknowledgedIsStored
  BY DEF AloneInv, Alone, AcknowledgedIsStored
<1>2. QED
  BY <1>1, TypeStart, TypeStep, AloneStart, AloneStep, PTL DEF Spec

(* FALSE means forgotten: with no overlap, the cache holds exactly what    *)
(* callers have been told whenever no call runs.                           *)
THEOREM CacheIsAcknowledgedHolds == Spec => []CacheIsAcknowledged
<1>1. AloneInv => CacheIsAcknowledged
  BY DEF AloneInv, Alone, CacheIsAcknowledged
<1>2. QED
  BY <1>1, TypeStart, TypeStep, AloneStart, AloneStep, PTL DEF Spec

=============================================================================
