------------------------------ MODULE ParamWrite ------------------------------
(***************************************************************************)
(* What one call of param_set_u32() makes of a field of the RAM cache and  *)
(* of what a boot would load: ParamStore in one step, for the modules that *)
(* are about the meaning of params.  The whole cache is written, so every  *)
(* field goes through the same call with the same outcome.                 *)
(***************************************************************************)

(* A call that succeeds may be overtaken by another task's, whose snapshot *)
(* of the cache is older and is written later.  A call that fails, or that *)
(* power cuts short, rolls the cache back; it may have left the old record,*)
(* the new one all the same, or none that is valid.                        *)
Outcomes == {"written", "overtaken", "unwritten", "unacknowledged", "destroyed"}

Cached(old, new, outcome) == IF outcome \in {"written", "overtaken"} THEN new ELSE old

Saved(saved, old, new, default, outcome) ==
  CASE outcome \in {"written", "unacknowledged"} -> new
    [] outcome = "overtaken" -> old
    [] outcome = "unwritten" -> saved
    [] outcome = "destroyed" -> default

=============================================================================
