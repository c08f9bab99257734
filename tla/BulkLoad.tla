------------------------------ MODULE BulkLoad ------------------------------
(***************************************************************************)
(* The quads of a bulk load (crates/holos-store/src/rocks/mod.rs, sort.rs): *)
(* three kinds of threads between insert_encoded and the index.            *)
(*                                                                         *)
(* The loading thread fills a buffer.  A full one goes through a channel   *)
(* that holds one to the spill worker, which sorts it once per order into  *)
(* runs.  At the end the merge threads claim the orders one by one, merge  *)
(* the runs with the tail that was never spilled and send finished files   *)
(* to the loading thread, which ingests them, writes the catalogue and     *)
(* counts again.  Any of these steps may fail.                             *)
(*                                                                         *)
(* A run is the set of its rows: runs are sorted and merged without        *)
(* duplicates.  The dictionary's part of the load is module Dictionary;    *)
(* here it may only fail.                                                  *)
(***************************************************************************)
EXTENDS Integers, FiniteSets, Sequences

CONSTANTS
    Quad,          \* the quads
    Stores,        \* what the store may hold when the load begins
    GraphOf,       \* the graph of each quad of a named graph
    TripleOrders,  \* TRIPLE_PERMS: the index orders of the default graph
    QuadOrders,    \* QUAD_PERMS: the index orders of named graphs
    Merger,        \* the merge threads
    IngestLimit,   \* quads in a full buffer
    FileRows,      \* rows in a full index file
    MaxInserts,    \* inserts in the load
    MaxFailures    \* steps that fail

ASSUME QuadAssumption ==
    DOMAIN GraphOf \subseteq Quad /\ Stores \subseteq SUBSET Quad /\ \A S \in Stores : IsFiniteSet(S)

ASSUME BoundAssumption ==
    IngestLimit \in Nat \ {0} /\ FileRows \in Nat \ {0} /\ {MaxInserts, MaxFailures} \subseteq Nat

SetOf(s) == {s[i] : i \in DOMAIN s}
Order == SetOf(TripleOrders) \cup SetOf(QuadOrders)
Named == DOMAIN GraphOf
GraphsOf(S) == {GraphOf[q] : q \in S \cap Named}

ASSUME OrderAssumption ==
    /\ TripleOrders \in Seq(SetOf(TripleOrders)) /\ QuadOrders \in Seq(SetOf(QuadOrders))
    /\ {"claiming", "stopping", "ended"} \cap Order = {}
    /\ Merger # {}      \* MERGE_THREADS, at most one per order
    /\ "dspo" \in SetOf(TripleOrders) /\ "gspo" \in SetOf(QuadOrders)
    /\ SetOf(TripleOrders) \cap SetOf(QuadOrders) = {}

VARIABLES
    orders,      \* the rows of each order
    catalogue,   \* the named graphs
    quad_count,  \* RocksStorage::quad_count
    pc,          \* the loading thread: the call it is in
    buffer,      \* BulkState::quads
    graphs,      \* BulkState::graphs
    channel,     \* to_worker: buffers sent and not yet taken
    closed,      \* the sender has been dropped
    worker,      \* the spill worker
    sorting,     \* the buffer it is at
    runs,        \* its Spilled
    jobs,        \* the orders no merge thread has claimed
    job,         \* what each merge thread is at
    todo,        \* the rows of its order that it has not yet written
    files,       \* messages of the merge threads
    outcome,     \* of the ingestion so far
    told,        \* the caller has been given an error
    before,      \* auxiliary: the quads the store had
    inserted,    \* auxiliary: the quads the load was given
    inserts,     \* auxiliary: how many times it was given one
    failures     \* auxiliary: steps that have failed

store == <<orders, catalogue, quad_count>>
offered == <<inserted, inserts>>
filling == <<buffer, graphs, offered>>
spiller == <<channel, closed, worker, sorting, runs>>
threads == <<jobs, job, todo, files>>
bulk_vars == <<store, pc, filling, spiller, threads, outcome, told, before, failures>>

\* partition: the rows of S that order o has.
Partition(S, o) == IF o \in SetOf(TripleOrders) THEN S \ Named ELSE S \cap Named

NoRuns == [o \in Order |-> {}]
Failure == [order |-> "failure", rows |-> {}]

Works == failures' = failures
Fails == failures < MaxFailures /\ failures' = failures + 1

-----------------------------------------------------------------------------
(* Filling and spilling                                                    *)

\* begin_bulk_load on a store that holds something already.
BulkInit ==
    /\ before \in Stores
    /\ orders = [o \in Order |-> Partition(before, o)]
    /\ catalogue = GraphsOf(before) /\ quad_count = Cardinality(before)
    /\ pc = "loading" /\ buffer = <<>> /\ graphs = {} /\ inserted = {} /\ inserts = 0
    /\ channel = <<>> /\ closed = FALSE /\ worker = "none" /\ sorting = {} /\ runs = NoRuns
    /\ jobs = <<>> /\ job = [m \in Merger |-> "ended"] /\ todo = [m \in Merger |-> {}]
    /\ files = <<>> /\ outcome = "ok" /\ told = FALSE /\ failures = 0

\* The quad is held back and no duplicate looked for; a caller stops at the first error.
insert_encoded(q) ==
    /\ pc = "loading" /\ ~told /\ inserts < MaxInserts
    /\ buffer' = Append(buffer, q) /\ graphs' = graphs \cup GraphsOf({q})
    /\ inserted' = inserted \cup {q} /\ inserts' = inserts + 1
    /\ pc' = IF Len(buffer) + 1 >= IngestLimit THEN "spilling" ELSE "loading"
    /\ UNCHANGED <<store, spiller, threads, outcome, told, before, failures>>

\* The first buffer starts the worker; send blocks while the channel holds one.
spill ==
    /\ pc = "spilling" /\ worker # "stopped" /\ channel = <<>>
    /\ channel' = <<SetOf(buffer)>> /\ buffer' = <<>>
    /\ worker' = IF worker = "none" THEN "waiting" ELSE worker
    /\ pc' = "loading"
    /\ UNCHANGED <<store, graphs, offered, closed, sorting, runs, threads, outcome, told, before, failures>>

\* The worker has stopped, perhaps while this thread waited for it: it is joined, and its
\* error is given to the caller.
SpillRefused ==
    /\ pc = "spilling" /\ worker = "stopped"
    /\ buffer' = <<>> /\ worker' = "none" /\ runs' = NoRuns
    /\ pc' = "loading" /\ told' = TRUE
    /\ UNCHANGED <<store, graphs, offered, channel, closed, sorting, threads, outcome, before, failures>>

TakeBuffer ==
    /\ worker = "waiting" /\ channel # <<>>
    /\ sorting' = Head(channel) /\ channel' = Tail(channel) /\ worker' = "sorting"
    /\ UNCHANGED <<store, pc, filling, closed, runs, threads, outcome, told, before, failures>>

\* One run per order.
SortBuffer ==
    /\ worker = "sorting"
    /\ runs' = [o \in Order |-> runs[o] \cup Partition(sorting, o)]
    /\ sorting' = {} /\ worker' = "waiting"
    /\ UNCHANGED <<store, pc, filling, channel, closed, threads, outcome, told, before, failures>>

\* A run that cannot be written ends the worker.  Its end of the channel goes with it, and
\* so do the runs.
SortFails ==
    /\ worker = "sorting" /\ Fails
    /\ runs' = NoRuns /\ sorting' = {} /\ channel' = <<>> /\ worker' = "stopped"
    /\ UNCHANGED <<store, pc, filling, closed, threads, outcome, told, before>>

WorkerEnds ==
    /\ worker = "waiting" /\ channel = <<>> /\ closed
    /\ worker' = "finished"
    /\ UNCHANGED <<store, pc, filling, channel, closed, sorting, runs, threads, outcome, told, before, failures>>

-----------------------------------------------------------------------------
(* end_bulk_load                                                           *)

\* A call that fails tells its caller and is over.
Report == pc' = "done" /\ told' = TRUE

end_bulk_load ==
    /\ pc = "loading"
    /\ pc' = "dictionary"
    /\ UNCHANGED <<store, filling, spiller, threads, outcome, told, before, failures>>

\* A mutation: the worker is joined with its sender still alive.
M_WriteDictionary_holds_sender ==
    /\ pc = "dictionary"
    /\ \/ Works /\ pc' = "joining" /\ UNCHANGED told
       \/ Fails /\ Report
    /\ UNCHANGED <<store, filling, spiller, threads, outcome, before>>

\* The dictionary's windows and the buffered rows first; then the worker's sender is dropped.
WriteDictionary ==
    /\ pc = "dictionary"
    /\ \/ Works /\ pc' = "joining" /\ closed' = TRUE /\ UNCHANGED told
       \/ Fails /\ Report /\ UNCHANGED closed
    /\ UNCHANGED <<store, filling, channel, worker, sorting, runs, threads, outcome, before>>

\* finish_bulk waits for the worker, if there is one.
finish ==
    /\ pc = "joining" /\ worker \in {"none", "finished", "stopped"}
    /\ IF worker = "stopped" THEN Report /\ UNCHANGED threads
       ELSE /\ UNCHANGED told
            /\ IF buffer = <<>> /\ worker = "none"
               THEN pc' = "recounting" /\ UNCHANGED threads
               ELSE /\ pc' = "ingesting"
                    /\ jobs' = TripleOrders \o QuadOrders
                    /\ job' = [m \in Merger |-> "claiming"]
                    /\ UNCHANGED <<todo, files>>
    /\ UNCHANGED <<store, filling, spiller, outcome, before, failures>>

-----------------------------------------------------------------------------
(* The merge threads                                                       *)

\* A mutation: the quads that were never spilled are left out.
M_Merged_without_tail(o) == runs[o]

\* An order's runs and its share of the tail.
Merged(o) == runs[o] \cup Partition(SetOf(buffer), o)

claim(m) ==
    /\ job[m] = "claiming"
    /\ IF jobs = <<>> THEN job' = [job EXCEPT ![m] = "ended"] /\ UNCHANGED <<jobs, todo>>
       ELSE /\ job' = [job EXCEPT ![m] = Head(jobs)] /\ jobs' = Tail(jobs)
            /\ todo' = [todo EXCEPT ![m] = Merged(Head(jobs))]
    /\ UNCHANGED <<store, pc, filling, spiller, files, outcome, told, before, failures>>

\* A file of FileRows rows, or of the rest; an order without rows has no file.
WriteFile(m) ==
    /\ job[m] \in Order /\ todo[m] # {}
    /\ \E rows \in SUBSET todo[m] :
        /\ Cardinality(rows) = FileRows \/ (rows = todo[m] /\ Cardinality(rows) < FileRows)
        /\ files' = Append(files, [order |-> job[m], rows |-> rows])
        /\ todo' = [todo EXCEPT ![m] = @ \ rows]
    /\ UNCHANGED <<store, pc, filling, spiller, jobs, job, outcome, told, before, failures>>

OrderDone(m) ==
    /\ job[m] \in Order /\ todo[m] = {}
    /\ job' = [job EXCEPT ![m] = "claiming"]
    /\ UNCHANGED <<store, pc, filling, spiller, jobs, todo, files, outcome, told, before, failures>>

\* The failure is sent before the other threads are stopped.
MergeFails(m) ==
    /\ job[m] \in Order /\ Fails
    /\ files' = Append(files, Failure)
    /\ job' = [job EXCEPT ![m] = "stopping"] /\ todo' = [todo EXCEPT ![m] = {}]
    /\ UNCHANGED <<store, pc, filling, spiller, jobs, outcome, told, before>>

stop(m) ==
    /\ job[m] = "stopping"
    /\ jobs' = <<>> /\ job' = [job EXCEPT ![m] = "ended"]
    /\ UNCHANGED <<store, pc, filling, spiller, todo, files, outcome, told, before, failures>>

-----------------------------------------------------------------------------
(* Ingestion, on the loading thread                                        *)

\* Files are taken in as they come; after a failure they are only drained.
ingest_index_sst ==
    /\ pc = "ingesting" /\ files # <<>>
    /\ files' = Tail(files)
    /\ LET file == Head(files)
       IN  \/ /\ outcome = "failed"
              /\ Works /\ UNCHANGED <<orders, outcome, jobs>>
           \/ /\ outcome = "ok" /\ file # Failure
              /\ orders' = [orders EXCEPT ![file.order] = @ \cup file.rows]
              /\ Works /\ UNCHANGED <<outcome, jobs>>
           \/ /\ outcome = "ok"
              /\ IF file = Failure THEN Works ELSE Fails
              /\ outcome' = "failed" /\ jobs' = <<>> /\ UNCHANGED orders
    /\ UNCHANGED <<catalogue, quad_count, pc, filling, spiller, job, todo, told, before>>

\* The channel is empty and every thread has dropped its end.
Joined ==
    /\ pc = "ingesting" /\ files = <<>> /\ \A m \in Merger : job[m] = "ended"
    /\ IF outcome = "ok" THEN pc' = "cataloguing" /\ UNCHANGED told ELSE Report
    /\ UNCHANGED <<store, filling, spiller, threads, outcome, before, failures>>

WriteCatalogue ==
    /\ pc = "cataloguing"
    /\ \/ Works /\ catalogue' = catalogue \cup graphs /\ pc' = "recounting" /\ UNCHANGED told
       \/ Fails /\ Report /\ UNCHANGED catalogue
    /\ UNCHANGED <<orders, quad_count, filling, spiller, threads, outcome, before>>

\* One pass over one order of each kind.
recount ==
    /\ pc = "recounting"
    /\ \/ /\ Works /\ pc' = "flushing" /\ UNCHANGED told
          /\ quad_count' = Cardinality(orders["dspo"]) + Cardinality(orders["gspo"])
       \/ Fails /\ Report /\ UNCHANGED quad_count
    /\ UNCHANGED <<orders, catalogue, filling, spiller, threads, outcome, before>>

flush ==
    /\ pc = "flushing"
    /\ \/ Works /\ pc' = "done" /\ UNCHANGED told
       \/ Fails /\ Report
    /\ UNCHANGED <<store, filling, spiller, threads, outcome, before>>

LoaderStep ==
    \/ spill \/ SpillRefused \/ WriteDictionary \/ finish
    \/ ingest_index_sst \/ Joined \/ WriteCatalogue \/ recount \/ flush
WorkerStep == TakeBuffer \/ SortBuffer \/ SortFails \/ WorkerEnds
MergerStep(m) == claim(m) \/ WriteFile(m) \/ OrderDone(m) \/ MergeFails(m) \/ stop(m)

BulkNext ==
    \/ \E q \in Quad : insert_encoded(q)
    \/ end_bulk_load
    \/ LoaderStep
    \/ WorkerStep
    \/ \E m \in Merger : MergerStep(m)

\* A thread that can go on does.  Nothing makes the caller insert more, or end the load.
BulkFairness ==
    /\ WF_bulk_vars(LoaderStep) /\ WF_bulk_vars(WorkerStep)
    /\ \A m \in Merger : WF_bulk_vars(MergerStep(m))

BulkSpec == BulkInit /\ [][BulkNext]_bulk_vars /\ BulkFairness

-----------------------------------------------------------------------------
(* Properties                                                              *)

All == before \cup inserted

\* A load that told its caller of no error has every quad it was given in every order, once,
\* with its graph in the catalogue, and len is the number of distinct quads: whatever was
\* spilled, whatever came twice, and however the orders' files were cut and interleaved.
SuccessMeansLoaded ==
    pc = "done" /\ ~told =>
        /\ \A o \in Order : orders[o] = Partition(All, o)
        /\ catalogue = GraphsOf(All) /\ quad_count = Cardinality(All)

\* Every call returns: the loading thread never waits for ever for a worker that has
\* stopped, a worker never for a sender that is not dropped, and the draining ends.
CallsReturn == pc # "loading" ~> pc \in {"loading", "done"}
=============================================================================
