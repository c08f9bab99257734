----------------------------- MODULE MCDataPath -----------------------------
(***************************************************************************)
(* The way of the data: in through a bulk load and its dictionary          *)
(* (MCIngest), out through the operators of a query (MCOperators).  Each   *)
(* behaviour is one of the four at work while the others rest.             *)
(***************************************************************************)
EXTENDS MCIngest, MCOperators

ingest_vars == <<subject, bulk_vars, dictionary_vars>>
operators_vars == <<operator, join_vars, spill_vars>>

OperatorsRest == operator = "none" /\ JoinRests /\ SpillRests

DataPathInit ==
    \/ IngestInit /\ OperatorsRest
    \/ OperatorsInit /\ subject = "none" /\ BulkRests /\ DictionaryInit

DataPathNext ==
    \/ IngestNext /\ UNCHANGED operators_vars
    \/ OperatorsNext /\ UNCHANGED ingest_vars

DataPathSpec == DataPathInit /\ [][DataPathNext]_<<ingest_vars, operators_vars>> /\ BulkFairness
=============================================================================
