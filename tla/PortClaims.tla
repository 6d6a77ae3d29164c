------------------------------ MODULE PortClaims ------------------------------
(***************************************************************************)
(* Which subsystem claims which connector of the board: the .port and      *)
(* .source fields of lib/params/params.c and the way `param set` changes   *)
(* them (lib/cli/cli.c).                                                   *)
(*                                                                         *)
(* Only .port is validated, against the board's connectors and against the *)
(* other subsystems' claims; .source is written as it comes.  The cli task *)
(* is the only one that sets either, so a `param set` is one action here,  *)
(* with the outcomes ParamWrite names.                                     *)
(***************************************************************************)
EXTENDS ParamWrite

CONSTANTS
  Subsystems,     \* the rows of kPortOwners
  Letters,        \* what param_parse_port_value() accepts besides "none"
  UartPorts,      \* kPortUartExists
  I2cPorts,       \* kPortI2cExists
  I2cSubsystems,  \* the subsystems whose .port names an I2C connector
  SourceValues,   \* what .source may hold; all but "DIRECT" claim nothing
  DefaultClaim,   \* g_paramDefs' default .port and .source
  FirstPort,      \* the letter of index 0
  Unset           \* PARAM_PORT_UNSET

PortValues == Letters \cup {Unset}
Fields == [port : PortValues, source : SourceValues]
Claims == [Subsystems -> Fields]

\* The zeroed cache before params_init().
ZeroClaim == [s \in Subsystems |-> [port |-> FirstPort, source |-> "NONE"]]

VARIABLES
  loaded,      \* params_init() has filled the RAM cache
  claim,       \* the fields in the cache
  savedClaim,  \* the fields a boot would load
  sourceFirst  \* history: .source became "DIRECT" only while .port was unset

portVars == <<loaded, claim, savedClaim, sourceFirst>>

(* Mutant: mag's .port is checked like the others. *)
TransportUart(s) == "UART"

(* param_port_field_transport() *)
Transport(s) == IF s \in I2cSubsystems THEN "I2C" ELSE "UART"

(* param_port_exists() *)
Exists(p, transport) == p \in (IF transport = "UART" THEN UartPorts ELSE I2cPorts)

Claimed(c, s) == c[s].source = "DIRECT" /\ c[s].port # Unset

\* Every .port that holds a letter names a connector of its transport.
OnBoard(c) ==
  \A s \in Subsystems :
    c[s].port \in {Unset} \cup (IF s \in I2cSubsystems THEN I2cPorts ELSE UartPorts)

\* ports.md: a port can be claimed by exactly one subsystem.
OneOwner(c) ==
  \A s, t \in Subsystems :
    s # t /\ Claimed(c, s) /\ Claimed(c, t) => c[s].port # c[t].port

ASSUME PortAssumption ==
  /\ UartPorts \subseteq Letters
  /\ I2cPorts \subseteq Letters
  /\ I2cSubsystems \subseteq Subsystems
  /\ Unset \notin Letters
  /\ {"NONE", "DIRECT"} \subseteq SourceValues
  /\ FirstPort \in Letters
  /\ DefaultClaim \in Claims
  /\ OnBoard(DefaultClaim)
  /\ OneOwner(DefaultClaim)

PortsTypeOK ==
  /\ loaded \in BOOLEAN
  /\ claim \in Claims
  /\ savedClaim \in Claims
  /\ sourceFirst \in BOOLEAN

(* A blank region, of which a boot loads the defaults. *)
PortsInit ==
  /\ loaded = FALSE
  /\ claim = ZeroClaim
  /\ savedClaim = DefaultClaim
  /\ sourceFirst = TRUE

-----------------------------------------------------------------------------
(* param_set_u32() of a .port or .source, after params_init(). *)
StoreClaim(new, outcome) ==
  /\ loaded /\ UNCHANGED loaded
  /\ claim' = Cached(claim, new, outcome)
  /\ savedClaim' = Saved(savedClaim, claim, new, DefaultClaim, outcome)

(* Mutant: the other subsystems' claims are not looked at. *)
TakenNever(s, p) == FALSE

(* param_set_port(): another subsystem with .source DIRECT has the port. *)
Taken(s, p) ==
  p # Unset /\ \E t \in Subsystems \ {s} : claim[t] = [port |-> p, source |-> "DIRECT"]

Accepts(s, p) == (p # Unset => Exists(p, Transport(s))) /\ ~ Taken(s, p)

(* `param set <s>.port <p>` that the checks let through. *)
SetPort(s, p, outcome) ==
  /\ Accepts(s, p)
  /\ StoreClaim([claim EXCEPT ![s].port = p], outcome)
  /\ UNCHANGED sourceFirst

(* `param set <s>.source <v>` *)
SetSource(s, v, outcome) ==
  /\ StoreClaim([claim EXCEPT ![s].source = v], outcome)
  /\ sourceFirst' = (sourceFirst /\ (v = "DIRECT" => claim[s].port = Unset
                                                    \/ claim[s].source = "DIRECT"))

(* A set of any other param writes the whole cache. *)
SetOther(outcome) ==
  /\ StoreClaim(claim, outcome)
  /\ UNCHANGED sourceFirst

(* A reset: the cache is zeroed, the flash is not. *)
ForgetClaims ==
  /\ loaded' = FALSE
  /\ claim' = ZeroClaim
  /\ UNCHANGED <<savedClaim, sourceFirst>>

(* params_init() *)
LoadClaims ==
  /\ loaded' = TRUE
  /\ claim' = savedClaim
  /\ UNCHANGED <<savedClaim, sourceFirst>>

PortsNext ==
  \/ \E outcome \in Outcomes :
       \/ \E s \in Subsystems, p \in PortValues : SetPort(s, p, outcome)
       \/ \E s \in Subsystems, v \in SourceValues : SetSource(s, v, outcome)
       \/ SetOther(outcome)
  \/ ForgetClaims
  \/ LoadClaims

PortsSpec == PortsInit /\ [][PortsNext]_portVars

-----------------------------------------------------------------------------

(* Whatever is set in whatever order, whichever write fails and wherever   *)
(* the board is reset, every .port in RAM or in flash names a connector    *)
(* this board has, of the kind its subsystem needs.                        *)
ClaimsExist == (loaded => OnBoard(claim)) /\ OnBoard(savedClaim)

(* ports.md's rule, as far as the code keeps it: no two subsystems claim   *)
(* one port, in RAM or in what a boot would load, as long as .source is    *)
(* set to DIRECT before .port is given a letter.  The other order is the   *)
(* way around the check.                                                   *)
SourceFirstOneOwner == sourceFirst => OneOwner(claim) /\ OneOwner(savedClaim)

=============================================================================
