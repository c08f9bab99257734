------------------------------ MODULE MCEngine ------------------------------
(***************************************************************************)
(* The two kinds of call into the engine that run beside a thread of their *)
(* own: a load with its parse thread (Loader) and a query with its         *)
(* watchdog (QueryLife).  One engine runs one of them at a time here; the  *)
(* other rests.                                                            *)
(***************************************************************************)
EXTENDS Loader, QueryLife

MCNames == <<"transient", "transient1">>

VARIABLE call       \* the call looked at

(* The last load was of nothing.                                           *)
LoaderRests ==
    /\ doc = <<>> /\ mode = "bulk" /\ contents = {} /\ terms = {}
    /\ before = [contents |-> contents, terms |-> terms]
    /\ scope = FALSE /\ name = Default
    /\ parsed = 0 /\ batch = <<>> /\ parser = "ended"
    /\ chan = <<>> /\ hungup = TRUE /\ todo = <<>>
    /\ n = 0 /\ inserted = <<>> /\ seen = {}
    /\ stage = "done" /\ outcome = "ok"

(* The last query is over.                                                 *)
QueryRests ==
    /\ shape = "rows" /\ joins = FALSE
    /\ opts = [timed |-> FALSE, capped |-> FALSE, spill |-> FALSE,
               plain |-> FALSE, explain |-> FALSE, over |-> FALSE]
    /\ place = "end" /\ answer = "ok" /\ error = "none"
    /\ cursor = Rows /\ read = Rows /\ buffered = 0 /\ out = Rows
    /\ watch = "off" /\ over = 0 /\ baseline = 0
    /\ trip = "none" /\ token = FALSE /\ done = FALSE /\ late = FALSE
    /\ other = Loaded /\ resting = Loaded /\ ceiling = Ceiling

EngineInit ==
    \/ call = "load" /\ LoaderInit /\ QueryRests
    \/ call = "query" /\ LoaderRests /\ QueryInit

EngineNext ==
    /\ UNCHANGED call
    /\ \/ call = "load" /\ LoaderNext /\ UNCHANGED query_vars
       \/ call = "query" /\ QueryNext /\ UNCHANGED loader_vars

EngineSpec ==
    EngineInit /\ [][EngineNext]_<<call, loader_vars, query_vars>> /\ LoaderFairness /\ QueryFairness
=============================================================================
