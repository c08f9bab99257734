------------------------------ MODULE MCIngest ------------------------------
(***************************************************************************)
(* What a RocksDB bulk load is made of, one part at a time: the index      *)
(* orders with their spill worker and merge threads (BulkLoad), and the    *)
(* dictionary with its windows (Dictionary).  They meet in one step only,  *)
(* BulkLoad's WriteDictionary; the part that is not looked at rests.       *)
(***************************************************************************)
EXTENDS BulkLoad, MCDictionary

CONSTANTS q1, q2, q3, g, m1, m2     \* quads, a named graph, merge threads

MCQuad == {q1, q2, q3}
MCStores == {{q1}}
MCGraphOf == [q \in {q3} |-> g]
MCMerger == {m1, m2}
MCTripleOrders == <<"dspo", "dpos">>
MCQuadOrders == <<"gspo">>

VARIABLE subject    \* the part looked at

(* No load is under way: the last one was of nothing.                      *)
BulkRests ==
    /\ before = {} /\ orders = [o \in Order |-> {}] /\ catalogue = {} /\ quad_count = 0
    /\ pc = "done" /\ buffer = <<>> /\ graphs = {} /\ inserted = {} /\ inserts = 0
    /\ channel = <<>> /\ closed = TRUE /\ worker = "none" /\ sorting = {} /\ runs = NoRuns
    /\ jobs = <<>> /\ job = [m \in Merger |-> "ended"] /\ todo = [m \in Merger |-> {}]
    /\ files = <<>> /\ outcome = "ok" /\ told = FALSE /\ failures = 0

IngestInit ==
    /\ DictionaryInit
    /\ \/ subject = "orders" /\ BulkInit
       \/ subject = "dictionary" /\ BulkRests

IngestNext ==
    /\ UNCHANGED subject
    /\ \/ subject = "orders" /\ BulkNext /\ UNCHANGED dictionary_vars
       \/ subject = "dictionary" /\ DictionaryNext /\ UNCHANGED bulk_vars

IngestSpec == IngestInit /\ [][IngestNext]_<<subject, bulk_vars, dictionary_vars>> /\ BulkFairness
=============================================================================
