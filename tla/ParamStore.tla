----------------------------- MODULE ParamStore -----------------------------
(***************************************************************************)
(* The parameter store: the RAM cache of lib/params/params.c and the one   *)
(* record its backends (stm32h7.c, stm32f1.c) keep in flash.               *)
(*                                                                         *)
(* param_set_u32() is called from the cli task and, on matek_h743, from    *)
(* the sport task.  Both have priority 1 and are time-sliced, the H7 erases*)
(* bank 2 while code runs from bank 1, and nothing serialises the two: a   *)
(* call is one action per step that touches the cache or the flash.  Power *)
(* may go at any point; params_init() then runs before any other task.     *)
(*                                                                         *)
(* The flash is a row of program units.  Data units hold the params, one   *)
(* unit holds the CRC, and the units after it are the rest of the region.  *)
(* The CRC is taken to be free of collisions: crc8 misses one torn record  *)
(* in 256.                                                                 *)
(***************************************************************************)
EXTENDS Integers

CONSTANTS
  Writers,      \* the tasks that call param_set_u32()
  Settable,     \* the params each of them sets
  Ids,          \* the params modelled
  Vals,         \* the values they are set to
  Default,      \* g_paramDefs' default values
  UnitOf,       \* the program unit a param is stored in
  CrcUnit,      \* the unit of the record's crc
  Units,        \* program units of PARAMS_REGION_SIZE
  MayFail,      \* whether the flash hardware may fail
  Erased,       \* a unit that reads 0xFF
  Garbage,      \* a unit that reads as anything else
  NoOne

Records == [Ids -> Vals]

ASSUME ParamStoreAssumption ==
  /\ Settable \in [Writers -> SUBSET Ids]
  /\ Default \in Records
  /\ Units \in Nat
  /\ CrcUnit \in 1 .. Units
  /\ UnitOf \in [Ids -> 1 .. CrcUnit - 1]
  /\ MayFail \in BOOLEAN
  /\ NoOne \notin Writers
  /\ Ids # {}
  /\ \A some \in SUBSET Ids :
       {Erased, Garbage} \cap [some -> Vals \cup {Erased, Garbage}] = {}

VARIABLES
  cache,       \* s_cache
  flash,       \* the reserved region, unit by unit
  locked,      \* the LOCK bit of the flash control register
  busy,        \* the task inside a HAL flash call (its handle lock), or NoOne
  call,        \* per writer: its call of param_set_u32(), see Calls
  promised,    \* history: what callers have been told the store holds
  failures,    \* history: whether a call since boot returned FALSE: "none",
               \* "earlier" than the last to end, or that "last" one
  overlapped,  \* history: two calls have overlapped since boot
  built        \* history: the records built since boot, and those it found

flashVars == <<flash, locked, busy>>
historyVars == <<promised, failures, overlapped, built>>
vars == <<cache, flashVars, call, historyVars>>

Steps == {"idle", "snapshot", "unlock", "erase", "erasing", "program",
          "programming", "lock", "return"}

\* The locals of param_set_u32() and params_backend_write(): the param set,
\* the value to roll back to, the ParamsRecord built, the loop's unit and ok.
Calls == [pc : Steps, id : Ids, previous : Vals, record : Records,
          unit : 1 .. Units, ok : BOOLEAN]

NoCall == [pc |-> "idle", id |-> CHOOSE i \in Ids : TRUE,
           previous |-> CHOOSE v \in Vals : TRUE, record |-> Default,
           unit |-> 1, ok |-> TRUE]

-----------------------------------------------------------------------------
(* The record in flash. *)

(* params_backend_read() of one unit of the record. *)
Contents(rec, u) ==
  IF u < CrcUnit THEN [i \in {j \in Ids : UnitOf[j] = u} |-> rec[i]]
  ELSE IF u = CrcUnit THEN rec
  ELSE Erased

\* The value read back for a param, whatever its unit holds.
ReadValue(region, i) ==
  IF region[UnitOf[i]] \in {Erased, Garbage} THEN region[UnitOf[i]]
                                             ELSE region[UnitOf[i]][i]

ReadRecord(region) == [i \in Ids |-> ReadValue(region, i)]

(* Mutant: only magic and version are compared. *)
ValidByMagic(region) == region[1] \notin {Erased, Garbage}

(* params_init(): magic, version and crc. *)
Valid(region) ==
  region[1] \notin {Erased, Garbage} /\ region[CrcUnit] = ReadRecord(region)

(* params_init(): what a boot loads. *)
Loaded(region) == IF Valid(region) THEN ReadRecord(region) ELSE Default

Blank == [u \in 1 .. Units |-> Erased]
Scrambled == [u \in 1 .. Units |-> Garbage]
Image(rec) == [u \in 1 .. Units |-> Contents(rec, u)]

UnitContents ==
  {Erased, Garbage} \cup UNION {{Contents(r, u) : r \in Records} : u \in 1 .. Units}

TypeOK ==
  /\ cache \in Records
  /\ flash \in [1 .. Units -> UnitContents]
  /\ locked \in BOOLEAN
  /\ busy \in Writers \cup {NoOne}
  /\ call \in [Writers -> Calls]
  /\ promised \in Records
  /\ failures \in {"none", "earlier", "last"}
  /\ overlapped \in BOOLEAN
  /\ built \in SUBSET Records

(* The region as flashed with the firmware, or as an earlier run left it,  *)
(* and the RAM once params_init() has read it.                             *)
Init ==
  /\ flash \in {Blank, Scrambled} \cup {Image(r) : r \in Records}
  /\ cache = Loaded(flash)
  /\ locked = TRUE
  /\ busy = NoOne
  /\ call = [w \in Writers |-> NoCall]
  /\ promised = Loaded(flash)
  /\ failures = "none"
  /\ overlapped = FALSE
  /\ built = {Loaded(flash), Default}

-----------------------------------------------------------------------------
(* One call of param_set_u32(). *)

At(w, step) == call[w].pc = step
Quiet == \A w \in Writers : At(w, "idle")
Goto(w, step) == call' = [call EXCEPT ![w].pc = step]

Set(w, i, v) ==
  /\ At(w, "idle")
  /\ cache' = [cache EXCEPT ![i] = v]
  /\ call' = [call EXCEPT ![w] = [NoCall EXCEPT
                 !.pc = "snapshot", !.id = i, !.previous = cache[i]]]
  /\ overlapped' = (overlapped \/ ~ Quiet)
  /\ UNCHANGED <<flashVars, promised, failures, built>>

(* The ParamsRecord on the caller's stack. *)
Snapshot(w) ==
  /\ At(w, "snapshot")
  /\ call' = [call EXCEPT ![w].record = cache, ![w].pc = "unlock"]
  /\ built' = built \cup {cache}
  /\ UNCHANGED <<cache, flashVars, promised, failures, overlapped>>

(* HAL_FLASH_Unlock() and the error flags. *)
Unlock(w) ==
  /\ At(w, "unlock")
  /\ locked' = FALSE
  /\ Goto(w, "erase")
  /\ UNCHANGED <<cache, flash, busy, historyVars>>

(* HAL_FLASHEx_Erase() or HAL_FLASH_Program() without effect: HAL_BUSY     *)
(* while the other task is inside one, a hardware refusal, or a control    *)
(* register the other task has locked meanwhile.  HAL is taken to report   *)
(* the last as an error, not to succeed with an erase that was ignored.    *)
Refused(w) ==
  /\ At(w, "erase") \/ At(w, "program")
  /\ busy # NoOne \/ locked \/ MayFail
  /\ call' = [call EXCEPT ![w].ok = FALSE, ![w].pc = "lock"]
  /\ UNCHANGED <<cache, flashVars, historyVars>>

(* The call takes HAL's handle lock and starts work. *)
Begins(w) ==
  /\ At(w, "erase") \/ At(w, "program")
  /\ busy = NoOne /\ ~ locked
  /\ busy' = w
  /\ Goto(w, IF At(w, "erase") THEN "erasing" ELSE "programming")
  /\ UNCHANGED <<cache, flash, locked, historyVars>>

(* Mutant: the status of an erase or program call is not looked at. *)
CheckedNever(result) == result \in BOOLEAN

Checked(result) == result

EraseEnds(w, result) ==
  /\ At(w, "erasing")
  /\ busy' = NoOne
  /\ flash' = IF result THEN Blank ELSE Scrambled
  /\ call' = [call EXCEPT ![w].ok = Checked(result),
                          ![w].pc = IF Checked(result) THEN "program" ELSE "lock"]
  /\ UNCHANGED <<cache, locked, historyVars>>

\* A unit programmed twice since its erase is ruined unless nothing changes.
Programmed(w) ==
  LET new == Contents(call[w].record, call[w].unit)
      old == flash[call[w].unit]
  IN IF old \in {Erased, new} THEN new ELSE Garbage

(* The end of one turn of params_backend_write()'s loop. *)
ProgramEnds(w, result) ==
  /\ At(w, "programming")
  /\ busy' = NoOne
  /\ flash' = [flash EXCEPT ![call[w].unit] = IF result THEN Programmed(w) ELSE Garbage]
  /\ IF Checked(result) /\ call[w].unit < Units
       THEN call' = [call EXCEPT ![w].pc = "program", ![w].unit = @ + 1]
       ELSE call' = [call EXCEPT ![w].pc = "lock", ![w].ok = Checked(result)]
  /\ UNCHANGED <<cache, locked, historyVars>>

(* HAL_FLASH_Lock(), whoever else is at work. *)
Lock(w) ==
  /\ At(w, "lock")
  /\ locked' = TRUE
  /\ Goto(w, "return")
  /\ UNCHANGED <<cache, flash, busy, historyVars>>

(* Mutant: a failed value stays in the cache. *)
NotRolledBack(c) == [cache EXCEPT ![c.id] = cache[c.id]]

RolledBack(c) == IF c.ok THEN cache ELSE [cache EXCEPT ![c.id] = c.previous]

Return(w) ==
  /\ At(w, "return")
  /\ LET c == call[w]
     IN /\ cache' = RolledBack(c)
        /\ promised' = IF c.ok THEN [promised EXCEPT ![c.id] = c.record[c.id]] ELSE promised
        /\ failures' = IF ~ c.ok THEN "last"
                        ELSE IF failures = "none" THEN "none" ELSE "earlier"
  /\ call' = [call EXCEPT ![w] = NoCall]
  /\ UNCHANGED <<flashVars, overlapped, built>>

(* What an interrupted erase or program call leaves. *)
Interrupted ==
  {flash}
    \cup {r \in {Blank, Scrambled} : \E w \in Writers : At(w, "erasing")}
    \cup {[flash EXCEPT ![call[w].unit] = Garbage] : w \in {v \in Writers : At(v, "programming")}}

(* Power loss, watchdog reset or bootloader reboot, and the next boot's    *)
(* params_init().                                                          *)
Restart ==
  \E region \in Interrupted :
    /\ flash' = region
    /\ cache' = Loaded(region)
    /\ promised' = Loaded(region)
    /\ locked' = TRUE
    /\ busy' = NoOne
    /\ call' = [w \in Writers |-> NoCall]
    /\ failures' = "none"
    /\ overlapped' = FALSE
    /\ built' = {Loaded(region), Default}

Results == IF MayFail THEN BOOLEAN ELSE {TRUE}

Next ==
  \/ \E w \in Writers :
       \/ \E i \in Settable[w], v \in Vals : Set(w, i, v)
       \/ Snapshot(w)
       \/ Unlock(w)
       \/ Refused(w)
       \/ Begins(w)
       \/ \E result \in Results : EraseEnds(w, result) \/ ProgramEnds(w, result)
       \/ Lock(w)
       \/ Return(w)
  \/ Restart

Spec == Init /\ [][Next]_vars

-----------------------------------------------------------------------------

(* Never a mixture: what a boot would load now is the defaults, what the   *)
(* last boot found or a whole record some call has built since, wherever   *)
(* power goes, whatever fails and however two calls interleave.            *)
NeverTorn == Loaded(flash) \in built

(* TRUE means stored: when no call runs, none has overlapped another and   *)
(* the last one returned TRUE, a boot would load every value acknowledged, *)
(* also after earlier calls that failed and left the region destroyed.     *)
AcknowledgedIsStored ==
  (Quiet /\ ~ overlapped /\ failures # "last") => Loaded(flash) = promised

(* FALSE means forgotten, in RAM: the cache that the other tasks read      *)
(* holds the acknowledged values again once a failed call has returned.    *)
CacheIsAcknowledged ==
  (Quiet /\ ~ overlapped) => cache = promised

(* params.h on param_set_u32(): each call persists the whole record, so a  *)
(* value acknowledged with TRUE survives whichever tasks call.             *)
EveryCallPersists ==
  (Quiet /\ failures = "none") => Loaded(flash) = promised

=============================================================================
