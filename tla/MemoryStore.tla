---------------------------- MODULE MemoryStore ----------------------------
(***************************************************************************)
(* The in-memory backend (crates/holos-store/src/memory.rs over index.rs). *)
(*                                                                         *)
(* It applies every write at once and, while a commit scope is open, keeps *)
(* a journal of inverses.  Committing drops the journal; rolling back      *)
(* plays it backwards through the same operations that wrote it.           *)
(***************************************************************************)
EXTENDS Integers, FiniteSets, Sequences

CONSTANTS
    Quad,          \* encoded quads
    Graph,         \* ids of named graphs
    Predicate,     \* ids of predicates
    DefaultGraph,  \* GraphOf of a quad with graph_name = None
    GraphOf,       \* the graph of each quad
    PredOf,        \* the predicate of each quad
    MaxGeneration, \* bound: writes stop when the generation gets here
    MaxUndo        \* bound: writes stop when the journal is this long

ASSUME GraphAssumption ==
    DefaultGraph \notin Graph /\ GraphOf \in [Quad -> Graph \cup {DefaultGraph}]

ASSUME PredicateAssumption == PredOf \in [Quad -> Predicate]

VARIABLES
    store,                \* the index, its catalogue and the predicate counts
    generation,           \* MemoryStorage::generation
    generation_at_begin,  \* MemoryStorage::generation_at_begin
    in_scope,             \* MemoryStorage::undo is Some
    undo,                 \* the journal
    statistics            \* MemoryStorage::statistics: {} or one [generation, quads]

memory_vars == <<store, generation, generation_at_begin, in_scope, undo, statistics>>

TripleOrders == {"dspo", "dpos", "dosp"}
QuadOrders == {"spog", "posg", "ospg", "gspo", "gpos", "gosp"}
AllOrders == TripleOrders \cup QuadOrders

IsDefault(q) == GraphOf[q] = DefaultGraph
Orders(q) == IF IsDefault(q) THEN TripleOrders ELSE QuadOrders
GraphsOfQuad(q) == IF IsDefault(q) THEN {} ELSE {GraphOf[q]}

-----------------------------------------------------------------------------
(* QuadIndex, as functions of a store                                      *)

\* The set that insert and remove ask is dspo or gspo.
holds_quad(st, q) == q \in st.index[IF IsDefault(q) THEN "dspo" ELSE "gspo"]

IndexInsert(st, q) ==
    [index  |-> [f \in AllOrders |-> IF f \in Orders(q) THEN st.index[f] \cup {q} ELSE st.index[f]],
     graphs |-> st.graphs \cup GraphsOfQuad(q),
     counts |-> st.counts]

IndexRemove(st, q) ==
    [st EXCEPT !.index = [f \in AllOrders |-> IF f \in Orders(q) THEN @[f] \ {q} ELSE @[f]]]

\* What a scan of one graph finds, and of the store.
QuadsOf(st) == st.index["dspo"] \cup st.index["gspo"]
QuadsOfGraph(st, g) == {q \in st.index["gspo"] : GraphOf[q] = g}

\* Every quad in Q leaves every order.
IndexRemoveAll(st, Q) == [st EXCEPT !.index = [f \in AllOrders |-> @[f] \ Q]]

-----------------------------------------------------------------------------
(* MemoryStorage, as functions of a store                                  *)

Inserted(st, q) ==
    IF holds_quad(st, q) THEN st
    ELSE [IndexInsert(st, q) EXCEPT !.counts[PredOf[q]] = @ + 1]

Removed(st, q) ==
    IF ~holds_quad(st, q) THEN st
    ELSE [IndexRemove(st, q) EXCEPT !.counts[PredOf[q]] = @ - 1]

GraphCreated(st, g) == [st EXCEPT !.graphs = @ \cup {g}]

\* A drop that leaves the counts of the quads it takes.
M_GraphDropped_keeps_counts(st, g) ==
    [IndexRemoveAll(st, QuadsOfGraph(st, g)) EXCEPT !.graphs = @ \ {g}]

GraphDropped(st, g) ==
    LET doomed == QuadsOfGraph(st, g)
    IN  [index  |-> IndexRemoveAll(st, doomed).index,
         graphs |-> st.graphs \ {g},
         counts |-> [p \in Predicate |-> st.counts[p] - Cardinality({q \in doomed : PredOf[q] = p})]]

\* What undoes a journal entry.
Undone(st, entry) ==
    CASE entry.op = "Inserted"     -> Removed(st, entry.of)
      [] entry.op = "Removed"      -> Inserted(st, entry.of)
      [] entry.op = "GraphCreated" -> GraphDropped(st, entry.of)
      [] entry.op = "GraphDropped" -> GraphCreated(st, entry.of)

\* The store after the last n entries of a journal have been undone, last first.
PlayedBack(st, journal) ==
    LET after[n \in 0 .. Len(journal)] ==
            IF n = 0 THEN st ELSE Undone(after[n - 1], journal[Len(journal) + 1 - n])
    IN  after[Len(journal)]

-----------------------------------------------------------------------------
(* Operations                                                              *)

\* Nothing is journalled outside a scope.
record(entries) == undo' = IF in_scope THEN undo \o entries ELSE undo

Bounded == generation < MaxGeneration /\ Len(undo) < MaxUndo

\* An insertion that asks whether the graph is new once the quad has created it.
M_insert_encoded_asks_late(q) ==
    /\ Bounded
    /\ ~holds_quad(store, q)
    /\ store' = Inserted(store, q)
    /\ record(<<[op |-> "Inserted", of |-> q]>>)
    /\ generation' = generation + 1
    /\ UNCHANGED <<generation_at_begin, in_scope, statistics>>

insert_encoded(q) ==
    /\ Bounded
    /\ ~holds_quad(store, q)
    /\ store' = Inserted(store, q)
    /\ LET created == IF GraphsOfQuad(q) \subseteq store.graphs THEN <<>>
                      ELSE <<[op |-> "GraphCreated", of |-> GraphOf[q]]>>
       IN  record(created \o <<[op |-> "Inserted", of |-> q]>>)
    /\ generation' = generation + 1
    /\ UNCHANGED <<generation_at_begin, in_scope, statistics>>

remove_encoded(q) ==
    /\ Bounded
    /\ holds_quad(store, q)
    /\ store' = Removed(store, q)
    /\ record(<<[op |-> "Removed", of |-> q]>>)
    /\ generation' = generation + 1
    /\ UNCHANGED <<generation_at_begin, in_scope, statistics>>

insert_named_graph(g) ==
    /\ Bounded
    /\ g \notin store.graphs
    /\ store' = GraphCreated(store, g)
    /\ record(<<[op |-> "GraphCreated", of |-> g]>>)
    /\ UNCHANGED <<generation, generation_at_begin, in_scope, statistics>>

\* One entry for each quad, in whatever order the scan gave them, then the graph's own.
\* The generation does not move.
remove_named_graph(g) ==
    /\ Bounded
    /\ g \in store.graphs
    /\ store' = GraphDropped(store, g)
    /\ LET doomed == QuadsOfGraph(store, g)
       IN  \E order \in [1 .. Cardinality(doomed) -> doomed] :
             /\ \A q \in doomed : \E i \in DOMAIN order : order[i] = q
             /\ record([i \in DOMAIN order |-> [op |-> "Removed", of |-> order[i]]]
                          \o <<[op |-> "GraphDropped", of |-> g]>>)
    /\ UNCHANGED <<generation, generation_at_begin, in_scope, statistics>>

begin ==
    /\ ~in_scope
    /\ in_scope' = TRUE
    /\ undo' = <<>>
    /\ generation_at_begin' = generation
    /\ UNCHANGED <<store, generation, statistics>>

commit ==
    /\ in_scope
    /\ in_scope' = FALSE
    /\ undo' = <<>>
    /\ UNCHANGED <<store, generation, generation_at_begin, statistics>>

rollback ==
    /\ in_scope
    /\ store' = PlayedBack(store, undo)
    /\ generation' = generation_at_begin
    /\ in_scope' = FALSE
    /\ undo' = <<>>
    /\ UNCHANGED <<generation_at_begin, statistics>>

\* Statistics::cached: keep what is there if it carries this generation, else scan the
\* default graph and save.
CacheStatistics ==
    /\ ~in_scope
    /\ \A s \in statistics : s.generation # generation
    /\ statistics' = {[generation |-> generation, quads |-> store.index["dspo"]]}
    /\ UNCHANGED <<store, generation, generation_at_begin, in_scope, undo>>

MemoryInit ==
    /\ store = [index  |-> [f \in AllOrders |-> {}],
                graphs |-> {},
                counts |-> [p \in Predicate |-> 0]]
    /\ generation = 0
    /\ generation_at_begin = 0
    /\ in_scope = FALSE
    /\ undo = <<>>
    /\ statistics = {}

MemoryNext ==
    \/ \E q \in Quad : insert_encoded(q) \/ remove_encoded(q)
    \/ \E g \in Graph : insert_named_graph(g) \/ remove_named_graph(g)
    \/ begin
    \/ commit
    \/ rollback
    \/ CacheStatistics

MemorySpec == MemoryInit /\ [][MemoryNext]_memory_vars
-----------------------------------------------------------------------------
(* Properties                                                              *)

\* What a read finds: the orders agree, the catalogue covers the quads, and
\* predicate_count is the count of the rows.  A rollback comes here through the same
\* operations as a caller, so the journal must be complete for this to survive one; and a statistics
\* snapshot kept before it that carries the store's generation describes the default graph.
StoreConsistent ==
    /\ \A f \in AllOrders : store.index[f] = {q \in QuadsOf(store) : f \in Orders(q)}
    /\ \A q \in QuadsOf(store) : GraphsOfQuad(q) \subseteq store.graphs
    /\ \A p \in Predicate : store.counts[p] = Cardinality({q \in QuadsOf(store) : PredOf[q] = p})
    /\ \A s \in statistics :
          ~in_scope /\ s.generation = generation => s.quads = store.index["dspo"]

\* A scope's journal, played back at any moment, is exactly what was there when the scope
\* opened; so the backend keeps the promise of the Storage trait.
Abstract ==
    INSTANCE AbstractStore WITH
        committed <- LET back == IF in_scope THEN PlayedBack(store, undo) ELSE store
                     IN  [quads |-> QuadsOf(back), graphs |-> back.graphs],
        current <- [quads |-> QuadsOf(store), graphs |-> store.graphs],
        open <- in_scope

ImplementsStorage == Abstract!Spec
=============================================================================
