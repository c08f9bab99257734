----------------------------- MODULE MCHolonic ------------------------------
(***************************************************************************)
(* What stands above a store: a holon's ticks (Holon), the validation of   *)
(* its boundary (ShaclRun) and the server's workers (Server).  Holon takes *)
(* whatever a validation may report, and a worker's request is one step on *)
(* the store; each behaviour is one of the three at work while the others  *)
(* rest.                                                                   *)
(***************************************************************************)
EXTENDS MCHolon, MCShaclRun, MCServer

VARIABLE part       \* the one looked at

RunRests ==
    /\ schema = (CHOOSE k \in DOMAIN Schemas : TRUE)
    /\ options = (CHOOSE o \in Filters[schema] : TRUE)
    /\ data_quads = {} /\ RunInit
ServerRests == config = (CHOOSE c \in Configs : TRUE) /\ spatial = 0 /\ ServerInit

HolonicInit ==
    /\ HolonInit
    /\ \/ part = "holon" /\ RunRests /\ ServerRests
       \/ part = "boundary" /\ RunInit /\ ServerRests
       \/ part = "server" /\ RunRests /\ ServerInit

HolonicNext ==
    /\ UNCHANGED part
    /\ \/ part = "holon" /\ HolonNext /\ UNCHANGED <<run_vars, server_vars>>
       \/ part = "boundary" /\ RunNext /\ UNCHANGED <<holon_vars, server_vars>>
       \/ part = "server" /\ ServerNext /\ UNCHANGED <<holon_vars, run_vars>>

HolonicSpec == HolonicInit /\ [][HolonicNext]_<<part, holon_vars, run_vars, server_vars>>
=============================================================================
