------------------------------ MODULE BootRequest ------------------------------
(***************************************************************************)
(* The way into the chip's ROM bootloader (lib/bootloader/stm32h7.c): the  *)
(* `dfu` command leaves a magic word in a backup register and resets; the  *)
(* next boot's first statement finds it and jumps.  stm32f1.c does the     *)
(* same with another register.                                             *)
(*                                                                         *)
(* The backup register may outlive a power loss (VBAT) or not.  The soft   *)
(* reset flag of RCC->RSR is set by the reset NVIC_SystemReset() makes and *)
(* cleared by power-on; no code clears it, so it is also seen by later     *)
(* boots after a watchdog or pin reset.                                    *)
(***************************************************************************)

VARIABLES
  backup,     \* RTC_BKP_DR0: "magic" or "other"
  softReset,  \* RCC_RSR_SFTRSTF
  asked       \* history: a `dfu` since power-on that the ROM has not served

requestVars == <<backup, softReset, asked>>

RequestTypeOK ==
  /\ backup \in {"magic", "other"}
  /\ softReset \in BOOLEAN
  /\ asked \in BOOLEAN

(* Power-on: the register may hold anything an earlier life left. *)
RequestInit ==
  /\ backup \in {"magic", "other"}
  /\ softReset = FALSE
  /\ asked = FALSE

(* Mutant: the reset's cause is not looked at. *)
RequestedByValue == backup = "magic"

(* bootloader_jump_if_requested(): what it acts on. *)
Requested == softReset /\ backup = "magic"

BackupConsumed == "other"

(* The consumption that precedes the jump. *)
ConsumeRequest ==
  /\ Requested
  /\ backup' = BackupConsumed
  /\ asked' = FALSE
  /\ UNCHANGED softReset

(* bootloader_request_dfu(), up to NVIC_SystemReset(). *)
WriteRequest ==
  /\ backup' = "magic"
  /\ asked' = TRUE
  /\ UNCHANGED softReset

(* NVIC_SystemReset() *)
SoftReset ==
  /\ softReset' = TRUE
  /\ UNCHANGED <<backup, asked>>

PowerOn ==
  /\ backup' \in {backup, "other"}
  /\ softReset' = FALSE
  /\ asked' = FALSE

=============================================================================
