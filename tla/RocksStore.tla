----------------------------- MODULE RocksStore -----------------------------
(***************************************************************************)
(* The RocksDB backend's quads and commit scopes                           *)
(* (crates/holos-store/src/rocks/mod.rs), outside a bulk load.             *)
(*                                                                         *)
(* The database is a map from keys to values.  A quad is one row in each   *)
(* index order of its kind; the catalogue, the per-predicate counts, the   *)
(* quad count and the write generation are rows too.  A batch is the map   *)
(* of the keys it writes: a batch is applied in order, so for each key     *)
(* only the last operation on it counts.  Value 0 stands for "no such row":*)
(* a row with no payload is 1, a count is never stored as 0, and the       *)
(* missing metadata of a new store reads as 0.                             *)
(*                                                                         *)
(* Everything outside the database is lost in a crash.                     *)
(***************************************************************************)
EXTENDS Integers, FiniteSets

CONSTANTS
    Quad,          \* encoded quads
    Graph,         \* ids of named graphs
    Predicate,     \* ids of predicates
    DefaultGraph,  \* GraphOf of a quad with graph_name = None
    NoGraph,       \* no drop is under way
    GraphOf,       \* the graph of each quad
    PredOf,        \* the predicate of each quad
    Word,          \* 2^64: quad_count is a u64 and wraps in a release build
    MaxScopeOps,   \* MAX_SCOPE_OPS
    MaxGeneration, \* bound: quad writes stop when the generation gets here
    ErrorsSwallowed  \* the caller carries on after an error in its scope

ASSUME GraphAssumption ==
    /\ DefaultGraph \notin Graph
    /\ NoGraph \notin Graph \cup {DefaultGraph}
    /\ GraphOf \in [Quad -> Graph \cup {DefaultGraph}]

ASSUME PredicateAssumption == PredOf \in [Quad -> Predicate]

ASSUME FiniteAssumption == IsFiniteSet(Quad)

\* No store holds 2^64 quads.
ASSUME WordAssumption == Word \in Nat /\ Cardinality(Quad) < Word

ASSUME BoundAssumption == MaxScopeOps \in Nat /\ MaxGeneration \in Nat

ASSUME FaultAssumption == ErrorsSwallowed \in BOOLEAN

VARIABLES
    db,                \* the database: key -> value
    snapshot,          \* META_STATISTICS: {} or one [generation, quads]
    quad_count,        \* RocksStorage::quad_count
    predicate_counts,  \* RocksStorage::predicate_counts, 0 where there is no entry
    generation,        \* RocksStorage::generation
    in_scope,          \* RocksStorage::scope is Some
    pending,           \* ScopeState::pending, as the batch it becomes
    ops,               \* ScopeState::pending.len()
    quads,             \* ScopeState::quads: quad -> [in_db, present]
    graphs,            \* ScopeState::graphs: graph -> [in_db, present]
    saved,             \* the counters the scope opened with
    errored,           \* an operation of this scope returned an error
    dropping,          \* the graph remove_named_graph is half way through
    refused_batches    \* auxiliary: the kinds of quad batch RocksDB has refused so far

counters == <<quad_count, predicate_counts, generation>>
overlay == <<quads, graphs>>
vars == <<db, snapshot, quad_count, predicate_counts, generation, in_scope, pending, ops,
          quads, graphs, saved, errored, dropping, refused_batches>>

-----------------------------------------------------------------------------
(* Keys                                                                    *)

TripleOrders == {"dspo", "dpos", "dosp"}
QuadOrders == {"spog", "posg", "ospg", "gspo", "gpos", "gosp"}

IsDefault(q) == GraphOf[q] = DefaultGraph

\* The index orders a quad is a row of, and the one that is asked whether it is there.
Orders(q) == IF IsDefault(q) THEN TripleOrders ELSE QuadOrders
PrimaryOrder(q) == IF IsDefault(q) THEN "dspo" ELSE "gspo"

RowKeys(q) == {<<f, q>> : f \in Orders(q)}
PrimaryKey(q) == <<PrimaryOrder(q), q>>
GraphKey(g) == <<"graphs", g>>
StatsKey(p) == <<"stats", p>>
QuadsKey == <<"meta", "quads">>
GenerationKey == <<"meta", "generation">>

Key == (UNION {RowKeys(q) : q \in Quad})
          \cup {GraphKey(g) : g \in Graph}
          \cup {StatsKey(p) : p \in Predicate}
          \cup {QuadsKey, GenerationKey}

CatalogueKeys(q) == IF IsDefault(q) THEN {} ELSE {GraphKey(GraphOf[q])}
CounterKeys(q) == {QuadsKey, GenerationKey, StatsKey(PredOf[q])}

-----------------------------------------------------------------------------
(* Batches                                                                 *)

EmptyMap == [k \in {} |-> 0]

Wrap(n) == IF n < 0 THEN n + Word ELSE IF n >= Word THEN n - Word ELSE n

\* A quad count row written before the counter is advanced.
M_CounterValue_stale_count(q, d, k) ==
    IF k = QuadsKey THEN quad_count
    ELSE IF k = GenerationKey THEN generation + 1
    ELSE predicate_counts[PredOf[q]] + d

\* A generation row written before the counter is advanced.
M_CounterValue_stale_generation(q, d, k) ==
    IF k = QuadsKey THEN Wrap(quad_count + d)
    ELSE IF k = GenerationKey THEN generation
    ELSE predicate_counts[PredOf[q]] + d

\* The values of the counter rows after the quad count has moved by d.
CounterValue(q, d, k) ==
    IF k = QuadsKey THEN Wrap(quad_count + d)
    ELSE IF k = GenerationKey THEN generation + 1
    ELSE predicate_counts[PredOf[q]] + d

InsertBatch(q) ==
    [k \in RowKeys(q) \cup CatalogueKeys(q) \cup CounterKeys(q) |->
        IF k \in CounterKeys(q) THEN CounterValue(q, 1, k) ELSE 1]

\* decrement deletes the row of a predicate whose count reaches 0, which is value 0 here,
\* and writes no row for a predicate it has no count of.
NoCountOf(q) == predicate_counts[PredOf[q]] = 0

\* A removal that forgets one order.
M_RemoveBatch_forgets_an_order(q) ==
    [k \in (RowKeys(q) \ {<<"dosp", q>>, <<"gosp", q>>})
              \cup (IF NoCountOf(q) THEN {QuadsKey, GenerationKey} ELSE CounterKeys(q)) |->
        IF k \in CounterKeys(q) THEN CounterValue(q, -1, k) ELSE 0]

RemoveBatch(q) ==
    [k \in RowKeys(q) \cup (IF NoCountOf(q) THEN {QuadsKey, GenerationKey} ELSE CounterKeys(q)) |->
        IF k \in CounterKeys(q) THEN CounterValue(q, -1, k) ELSE 0]

GraphBatch(g, present) == [k \in {GraphKey(g)} |-> IF present THEN 1 ELSE 0]

\* How many Pending entries each of them is.
InsertOps(q) == IF IsDefault(q) THEN 6 ELSE 10
RemoveOps(q) == (IF IsDefault(q) THEN 5 ELSE 8) + (IF NoCountOf(q) THEN 0 ELSE 1)

Extend(batch, more) ==
    [k \in DOMAIN batch \cup DOMAIN more |->
        IF k \in DOMAIN more THEN more[k] ELSE batch[k]]

\* What a batch makes of a database.
Over(rows, batch) == [k \in Key |-> IF k \in DOMAIN batch THEN batch[k] ELSE rows[k]]

\* One WriteBatch: all of it lands or none of it does.
Written(batch) == Over(db, batch)

-----------------------------------------------------------------------------
(* Reads                                                                   *)

db_contains(q) == db[PrimaryKey(q)] = 1
db_contains_graph(g) == db[GraphKey(g)] = 1

\* A read that does not look at the scope.
M_contains_encoded_ignores_scope(q) == db_contains(q)

\* The scope's own writes first, then the database.
contains_encoded(q) == IF q \in DOMAIN quads THEN quads[q].present ELSE db_contains(q)

contains_named_graph(g) ==
    IF g \in DOMAIN graphs THEN graphs[g].present ELSE db_contains_graph(g)

\* The two halves of a scan routed to order f: the rows of that order that the scope did
\* not remove, and then what the scope wrote that the database does not hold.
ScannedRows(f) ==
    {q \in Quad : /\ f \in Orders(q)
                  /\ db[<<f, q>>] = 1
                  /\ q \in DOMAIN quads => quads[q].present}
ScannedOverlay(f) ==
    {q \in DOMAIN quads : /\ f \in Orders(q)
                          /\ quads[q].present
                          /\ ~quads[q].in_db}

\* named_graphs has the same two halves, over the catalogue.
ListedGraphs == {g \in Graph : db_contains_graph(g) /\ (g \in DOMAIN graphs => graphs[g].present)}
AddedGraphs == {g \in DOMAIN graphs : graphs[g].present /\ ~graphs[g].in_db}

Visible == {q \in Quad : contains_encoded(q)}
VisibleGraphs == {g \in Graph : contains_named_graph(g)}
Stored == {q \in Quad : db_contains(q)}
StoredGraphs == {g \in Graph : db_contains_graph(g)}

OfPredicate(S, p) == {q \in S : PredOf[q] = p}

-----------------------------------------------------------------------------
(* Writes                                                                  *)

\* The caller may start another operation: no call is half done, and the last one did
\* not fail.  LOAD, CLEAR, CREATE and DROP SILENT go on after a failure.
Ready == dropping = NoGraph /\ (errored => ErrorsSwallowed)

\* commit_ops: a scope buffers, anything else is written at once.
commit_ops(batch, n) ==
    IF in_scope
    THEN /\ pending' = Extend(pending, batch)
         /\ ops' = ops + n
         /\ UNCHANGED db
    ELSE /\ db' = Written(batch)
         /\ UNCHANGED <<pending, ops>>

\* commit_ops reports this after it has already extended the buffer.
Overflows(n) == in_scope /\ ops + n > MaxScopeOps

Advance(q, d) ==
    /\ quad_count' = Wrap(quad_count + d)
    /\ predicate_counts' =
          [predicate_counts EXCEPT ![PredOf[q]] = IF d = -1 /\ @ = 0 THEN 0 ELSE @ + d]
    /\ generation' = generation + 1

\* A second note that overwrites what the first one learnt of the database.
M_Note_forgets_in_db(notes, x, in_db, present) ==
    [y \in DOMAIN notes \cup {x} |->
        IF y # x THEN notes[y] ELSE [in_db |-> in_db, present |-> present]]

\* entry(..).or_insert(..).present = present: the first note decides in_db.
Note(notes, x, in_db, present) ==
    [y \in DOMAIN notes \cup {x} |->
        IF y # x THEN notes[y]
        ELSE [in_db |-> IF x \in DOMAIN notes THEN notes[x].in_db ELSE in_db,
              present |-> present]]

note_quad(q, present, in_db_if_new) ==
    quads' = IF in_scope THEN Note(quads, q, in_db_if_new, present) ELSE quads

note_graph(g, present) ==
    graphs' = IF in_scope THEN Note(graphs, g, db_contains_graph(g), present) ELSE graphs

insert_encoded(q) ==
    /\ Ready
    /\ generation < MaxGeneration
    /\ ~contains_encoded(q)
    /\ ~Overflows(InsertOps(q))
    /\ commit_ops(InsertBatch(q), InsertOps(q))
    /\ Advance(q, 1)
    /\ note_quad(q, TRUE, FALSE)
    /\ IF IsDefault(q) THEN UNCHANGED graphs ELSE note_graph(GraphOf[q], TRUE)
    /\ UNCHANGED <<snapshot, in_scope, saved, errored, dropping, refused_batches>>

\* What a removal does, whoever asked for it.
RemoveQuad(q) ==
    /\ generation < MaxGeneration
    /\ contains_encoded(q)
    /\ ~Overflows(RemoveOps(q))
    /\ commit_ops(RemoveBatch(q), RemoveOps(q))
    /\ Advance(q, -1)
    /\ note_quad(q, FALSE, TRUE)
    /\ UNCHANGED <<snapshot, in_scope, saved, graphs, errored, dropping, refused_batches>>

remove_encoded(q) == Ready /\ RemoveQuad(q)

\* A write the scope has no room for: the buffer and the counters keep it, the overlay
\* does not, and the caller gets an error.
WriteOverflows(q, d) ==
    /\ Ready \/ (d = -1 /\ GraphOf[q] = dropping)
    /\ generation < MaxGeneration
    /\ contains_encoded(q) <=> d = -1
    /\ LET n == IF d = 1 THEN InsertOps(q) ELSE RemoveOps(q)
       IN  /\ Overflows(n)
           /\ commit_ops(IF d = 1 THEN InsertBatch(q) ELSE RemoveBatch(q), n)
    /\ Advance(q, d)
    /\ errored' = TRUE
    /\ dropping' = NoGraph
    /\ UNCHANGED <<snapshot, in_scope, saved, quads, graphs, refused_batches>>

\* RocksDB refuses the batch of a write made outside a scope.  The counters were
\* advanced before the write and nothing puts them back.
DirectWriteFails(q, d) ==
    /\ ~in_scope
    /\ Ready \/ (d = -1 /\ GraphOf[q] = dropping)
    /\ generation < MaxGeneration
    /\ contains_encoded(q) <=> d = -1
    /\ Advance(q, d)
    /\ dropping' = NoGraph
    /\ refused_batches' = refused_batches \cup {"write"}
    /\ UNCHANGED <<db, snapshot, in_scope, pending, ops, saved, quads, graphs, errored>>

\* A catalogue entry written past the open scope.
M_insert_named_graph_past_scope(g) ==
    /\ Ready
    /\ ~contains_named_graph(g)
    /\ db' = Written(GraphBatch(g, TRUE))
    /\ UNCHANGED <<snapshot, counters, in_scope, saved, pending, ops, overlay, errored, dropping,
                   refused_batches>>

insert_named_graph(g) ==
    /\ Ready
    /\ ~contains_named_graph(g)
    /\ commit_ops(GraphBatch(g, TRUE), 1)
    /\ IF Overflows(1)
       THEN errored' = TRUE /\ UNCHANGED graphs
       ELSE note_graph(g, TRUE) /\ UNCHANGED errored
    /\ UNCHANGED <<snapshot, counters, in_scope, saved, quads, dropping, refused_batches>>

\* remove_named_graph: one removal per quad of the graph, then the catalogue entry.
\* Inside a scope they share its batch; outside, each is a batch of its own.
StartDrop(g) ==
    /\ Ready
    /\ contains_named_graph(g)
    /\ dropping' = g
    /\ UNCHANGED <<db, snapshot, counters, in_scope, pending, ops, overlay, saved, errored,
                   refused_batches>>

DropQuad(q) == GraphOf[q] = dropping /\ RemoveQuad(q)

FinishDrop ==
    /\ dropping \in Graph
    /\ \A q \in Visible : GraphOf[q] # dropping
    /\ commit_ops(GraphBatch(dropping, FALSE), 1)
    /\ IF Overflows(1)
       THEN errored' = TRUE /\ UNCHANGED graphs
       ELSE note_graph(dropping, FALSE) /\ UNCHANGED errored
    /\ dropping' = NoGraph
    /\ UNCHANGED <<snapshot, counters, in_scope, saved, quads, refused_batches>>

\* RocksDB refuses the last batch of a drop made outside a scope: the graph is empty and
\* still in the catalogue.
DropFails ==
    /\ ~in_scope
    /\ dropping \in Graph
    /\ \A q \in Visible : GraphOf[q] # dropping
    /\ dropping' = NoGraph
    /\ UNCHANGED <<db, snapshot, counters, in_scope, pending, ops, overlay, saved, errored,
                   refused_batches>>

-----------------------------------------------------------------------------
(* Scopes                                                                  *)

NoCounters ==
    [quad_count |-> 0, predicate_counts |-> [p \in Predicate |-> 0], generation |-> 0]

EmptyScope ==
    /\ pending' = EmptyMap
    /\ ops' = 0
    /\ quads' = EmptyMap
    /\ graphs' = EmptyMap
    /\ errored' = FALSE

CloseScope == in_scope' = FALSE /\ saved' = NoCounters /\ EmptyScope

begin ==
    /\ Ready
    /\ ~in_scope
    /\ in_scope' = TRUE
    /\ saved' = [quad_count |-> quad_count, predicate_counts |-> predicate_counts,
                 generation |-> generation]
    /\ EmptyScope
    /\ UNCHANGED <<db, snapshot, counters, dropping, refused_batches>>

commit ==
    /\ Ready
    /\ in_scope
    /\ db' = Written(pending)
    /\ CloseScope
    /\ UNCHANGED <<snapshot, counters, dropping, refused_batches>>

\* The batch did not land: two of the three counters go back.
CommitFails ==
    /\ Ready
    /\ in_scope
    /\ quad_count' = saved.quad_count
    /\ predicate_counts' = saved.predicate_counts
    /\ CloseScope
    /\ refused_batches' = refused_batches \cup {"commit"}
    /\ UNCHANGED <<db, snapshot, generation, dropping>>

\* A rollback that forgets the generation.
M_rollback_keeps_generation ==
    /\ dropping = NoGraph
    /\ in_scope
    /\ quad_count' = saved.quad_count
    /\ predicate_counts' = saved.predicate_counts
    /\ CloseScope
    /\ UNCHANGED <<db, snapshot, generation, dropping, refused_batches>>

rollback ==
    /\ dropping = NoGraph
    /\ in_scope
    /\ quad_count' = saved.quad_count
    /\ predicate_counts' = saved.predicate_counts
    /\ generation' = saved.generation
    /\ CloseScope
    /\ UNCHANGED <<db, snapshot, dropping, refused_batches>>

\* The process dies at any point and open reads the counters back.
CrashAndOpen ==
    /\ quad_count' = db[QuadsKey]
    /\ generation' = db[GenerationKey]
    /\ predicate_counts' = [p \in Predicate |-> db[StatsKey(p)]]
    /\ dropping' = NoGraph
    /\ CloseScope
    /\ UNCHANGED <<db, snapshot, refused_batches>>

\* Statistics::cached: keep the snapshot there is if it carries this generation, else
\* scan the default graph and save what was found straight to the database.
CacheStatistics ==
    /\ Ready
    /\ ~in_scope
    /\ \A s \in snapshot : s.generation # generation
    /\ snapshot' = {[generation |-> generation,
                     quads |-> ScannedRows("dspo") \cup ScannedOverlay("dspo")]}
    /\ UNCHANGED <<db, counters, in_scope, pending, ops, overlay, saved, errored, dropping,
                   refused_batches>>

-----------------------------------------------------------------------------
Init ==
    /\ db = [k \in Key |-> 0]
    /\ snapshot = {}
    /\ quad_count = 0
    /\ predicate_counts = [p \in Predicate |-> 0]
    /\ generation = 0
    /\ in_scope = FALSE
    /\ pending = EmptyMap
    /\ ops = 0
    /\ quads = EmptyMap
    /\ graphs = EmptyMap
    /\ saved = NoCounters
    /\ errored = FALSE
    /\ dropping = NoGraph
    /\ refused_batches = {}

Next ==
    \/ \E q \in Quad : insert_encoded(q) \/ remove_encoded(q) \/ DropQuad(q)
    \/ \E q \in Quad, d \in {1, -1} : WriteOverflows(q, d) \/ DirectWriteFails(q, d)
    \/ \E g \in Graph : insert_named_graph(g) \/ StartDrop(g)
    \/ FinishDrop
    \/ DropFails
    \/ begin
    \/ commit
    \/ CommitFails
    \/ rollback
    \/ CrashAndOpen
    \/ CacheStatistics

Spec == Init /\ [][Next]_vars
-----------------------------------------------------------------------------
(* Properties                                                              *)

Presence == [in_db : BOOLEAN, present : BOOLEAN]

\* Every variable of the storage struct, its scope and the database has its type.
TypeOK ==
    /\ db \in [Key -> Int]
    /\ snapshot \in SUBSET [generation : Int, quads : SUBSET Quad]
    /\ quad_count \in Int
    /\ predicate_counts \in [Predicate -> Int]
    /\ generation \in Int
    /\ in_scope \in BOOLEAN
    /\ DOMAIN pending \subseteq Key
    /\ pending \in [DOMAIN pending -> Int]
    /\ ops \in Nat
    /\ DOMAIN quads \subseteq Quad
    /\ quads \in [DOMAIN quads -> Presence]
    /\ DOMAIN graphs \subseteq Graph
    /\ graphs \in [DOMAIN graphs -> Presence]
    /\ saved \in [quad_count : Int, predicate_counts : [Predicate -> Int], generation : Int]
    /\ errored \in BOOLEAN
    /\ dropping \in Graph \cup {NoGraph}
    /\ refused_batches \subseteq {"write", "commit"}

\* What a crash at this instant would leave is a well-formed database: every index order
\* of a quad's kind holds the same quads, and no stored quad is in a graph the catalogue
\* lost.  Only one order is ever asked whether a quad is there, so an order that
\* disagreed would be served to queries for good.
IndexesAgree ==
    /\ \A q \in Quad : \A f \in Orders(q) : db[<<f, q>>] = db[PrimaryKey(q)]
    /\ \A q \in Stored : IsDefault(q) \/ GraphOf[q] \in StoredGraphs

\* The counts in the database are the counts of the rows in it, at every instant a crash
\* could come, failed commits included: open trusts them and never recounts.  A refused
\* write outside a scope has moved the counters for good, and the next batch stores them.
StoredCountsExact ==
    "write" \notin refused_batches =>
        /\ db[QuadsKey] = Cardinality(Stored)
        /\ \A p \in Predicate : db[StatsKey(p)] = Cardinality(OfPredicate(Stored, p))

\* len and predicate_count report exactly what a read would find: inside a scope, after
\* a commit, after a rollback, after a commit that failed and after a restart.  A scope
\* that has been told of an error is only good for a rollback and is left out, and so is a
\* store that RocksDB has refused a write outside a scope.
CountersExact ==
    ~errored /\ "write" \notin refused_batches =>
        /\ quad_count = Cardinality(Visible)
        /\ \A p \in Predicate : predicate_counts[p] = Cardinality(OfPredicate(Visible, p))

\* A scan routed to any index order yields each visible quad of that order's kind once and
\* nothing else, whatever the scope removed, wrote or wrote back; so does a listing of
\* the named graphs.
ScanExact ==
    /\ \A f \in TripleOrders \cup QuadOrders :
          /\ ScannedRows(f) \cap ScannedOverlay(f) = {}
          /\ ScannedRows(f) \cup ScannedOverlay(f) = {q \in Visible : f \in Orders(q)}
    /\ ListedGraphs \cap AddedGraphs = {}
    /\ ListedGraphs \cup AddedGraphs = VisibleGraphs

\* A kept statistics snapshot that carries the store's generation describes the store
\* exactly, across scopes, overflows, rollbacks and restarts.  A refused batch leaves the
\* generation in memory ahead of the one on disk, so that a snapshot saved then carries a
\* generation that a restart hands out again.
SnapshotTruthful ==
    refused_batches = {} =>
        \A s \in snapshot :
            ~in_scope /\ s.generation = generation => s.quads = {q \in Visible : IsDefault(q)}

\* The durable generation moves whenever the durable quads do, so nothing derived from
\* them before a restart can pass for current after it.
GenerationMoves ==
    [][Stored' # Stored => db'[GenerationKey] > db[GenerationKey]]_vars

\* Scopes are atomic and writes are durable: the backend implements the promise of the
\* Storage trait.
Abstract ==
    INSTANCE AbstractStore WITH
        committed <- [quads |-> Stored, graphs |-> StoredGraphs],
        current <- [quads |-> Visible, graphs |-> VisibleGraphs],
        open <- in_scope

ImplementsStorage == Abstract!Spec

-----------------------------------------------------------------------------
(* The inductive invariants                                                *)

\* The quads a database holds, judged by the order that is asked.
QuadsIn(rows) == {q \in Quad : rows[PrimaryKey(q)] = 1}

\* A database whose orders agree and whose catalogue covers its quads.
Indexed(rows) ==
    /\ \A q \in Quad : rows[PrimaryKey(q)] \in {0, 1}
    /\ \A q \in Quad : \A f \in Orders(q) : rows[<<f, q>>] = rows[PrimaryKey(q)]
    /\ \A q \in QuadsIn(rows) : IsDefault(q) \/ rows[GraphKey(GraphOf[q])] = 1

\* A database whose counts are the counts of its rows.
Counted(rows) ==
    /\ rows[QuadsKey] = Cardinality(QuadsIn(rows))
    /\ \A p \in Predicate : rows[StatsKey(p)] = Cardinality(OfPredicate(QuadsIn(rows), p))

\* The overlay answers every read as the database will once the buffer is written.
OverlayIsBuffer ==
    /\ \A q \in Quad : contains_encoded(q) <=> Written(pending)[PrimaryKey(q)] = 1
    /\ \A g \in Graph : contains_named_graph(g) <=> Written(pending)[GraphKey(g)] = 1

\* in_db says whether the database iterator will produce the entry.
OverlayKnowsDatabase ==
    /\ \A q \in DOMAIN quads : quads[q].in_db <=> db_contains(q)
    /\ \A g \in DOMAIN graphs : graphs[g].in_db <=> db_contains_graph(g)

\* A closed scope has nothing in it, and an error ends the drop that met it.
ScopeShape ==
    /\ ~in_scope => DOMAIN pending = {} /\ DOMAIN quads = {} /\ DOMAIN graphs = {} /\ ~errored
    /\ errored => dropping = NoGraph

\* Between any two steps the database is well indexed, and so is what it would become if
\* the open scope committed now, which is what the scope's reads show.
StructureInv ==
    /\ TypeOK
    /\ Indexed(db)
    /\ ~errored => Indexed(Written(pending)) /\ OverlayIsBuffer
    /\ OverlayKnowsDatabase
    /\ ScopeShape

\* The counters in memory are the ones the buffer carries.
CountersAreBuffer ==
    /\ quad_count = Written(pending)[QuadsKey]
    /\ \A p \in Predicate : predicate_counts[p] = Written(pending)[StatsKey(p)]

\* What a rollback puts back is what the database says.
SavedAreStored ==
    in_scope => /\ saved.quad_count = db[QuadsKey]
                /\ \A p \in Predicate : saved.predicate_counts[p] = db[StatsKey(p)]

\* The counts of the database, of the buffer and of the fields agree with the rows.
CountInv ==
    /\ Counted(db)
    /\ ~errored => Counted(Written(pending)) /\ CountersAreBuffer
    /\ SavedAreStored

\* They do as long as no write outside a scope was refused.
CountsUntilRefused == "write" \notin refused_batches => CountInv

\* The durable generation is never ahead of the counter, and a buffer that touches a quad
\* carries a later one.
GenerationInv ==
    /\ generation >= db[GenerationKey]
    /\ in_scope => saved.generation >= db[GenerationKey]
    /\ GenerationKey \in DOMAIN pending => pending[GenerationKey] <= generation
    /\ (\E q \in Quad : PrimaryKey(q) \in DOMAIN pending)
           => GenerationKey \in DOMAIN pending /\ pending[GenerationKey] > db[GenerationKey]
    /\ ~in_scope => DOMAIN pending = {}
=============================================================================
