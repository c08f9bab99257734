------------------------------ MODULE MCServed ------------------------------
(***************************************************************************)
(* What a served write goes through: the update request (Update) and the   *)
(* RocksDB backend (RocksStore).  Update knows the backend by the promise  *)
(* of the Storage trait, which RocksStore is shown to keep; each behaviour *)
(* is one of the two at work while the other rests.                        *)
(***************************************************************************)
EXTENDS MCRocksStore, MCUpdate

VARIABLE part       \* the one looked at

ServedInit ==
    /\ Init
    /\ \/ part = "store" /\ session = (CHOOSE s \in Session : TRUE) /\ UpdateInit
       \/ part = "update" /\ UpdateInit

ServedNext ==
    /\ UNCHANGED part
    /\ \/ part = "store" /\ Next /\ UNCHANGED update_vars
       \/ part = "update" /\ UpdateNext /\ UNCHANGED vars

ServedSpec == ServedInit /\ [][ServedNext]_<<part, vars, update_vars>>
=============================================================================
