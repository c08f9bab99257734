---------------------------- MODULE AbstractStore ----------------------------
(***************************************************************************)
(* What the Storage trait (crates/holos-store/src/storage.rs) promises the *)
(* layers above it, with no word about how a backend keeps the promise.    *)
(*                                                                         *)
(* There is one dataset: a set of quads and a catalogue of named graphs.   *)
(* Writes made while a commit scope is open are seen at once by the        *)
(* scope's own reads and are kept only if the scope commits; writes made   *)
(* outside a scope are kept at once.  A rollback, a commit whose write     *)
(* fails and a crash all leave exactly what was committed before.          *)
(***************************************************************************)
CONSTANTS
    Quad,          \* encoded quads
    Graph,         \* ids of named graphs
    DefaultGraph,  \* GraphOf of a quad with graph_name = None
    GraphOf        \* the graph each quad is in

VARIABLES
    committed,  \* the dataset a restart would find
    current,    \* the dataset a read is answered from
    open        \* whether a commit scope is open

vars == <<committed, current, open>>

Dataset == [quads : SUBSET Quad, graphs : SUBSET Graph]

EmptyDataset == [quads |-> {}, graphs |-> {}]

\* The catalogue entries that inserting q creates: a quad brings its graph along.
GraphsOfQuad(q) == IF GraphOf[q] = DefaultGraph THEN {} ELSE {GraphOf[q]}

TypeOK ==
    /\ committed \in Dataset
    /\ current \in Dataset
    /\ open \in BOOLEAN

Init ==
    /\ committed = EmptyDataset
    /\ current = EmptyDataset
    /\ open = FALSE

-----------------------------------------------------------------------------
\* Every write goes to the current dataset, and outside a scope it is kept.
Write(dataset) ==
    /\ current' = dataset
    /\ committed' = IF open THEN committed ELSE dataset
    /\ UNCHANGED open

Insert(q) ==
    Write([quads  |-> current.quads \cup {q},
           graphs |-> current.graphs \cup GraphsOfQuad(q)])

\* Emptying a graph does not drop it.
Remove(q) ==
    Write([quads |-> current.quads \ {q}, graphs |-> current.graphs])

InsertNamedGraph(g) ==
    Write([quads |-> current.quads, graphs |-> current.graphs \cup {g}])

\* A graph leaves the catalogue with whatever it still held.
DropNamedGraph(g) ==
    Write([quads  |-> {q \in current.quads : GraphOf[q] # g},
           graphs |-> current.graphs \ {g}])

Begin ==
    /\ ~open
    /\ open' = TRUE
    /\ UNCHANGED <<committed, current>>

Commit ==
    /\ open
    /\ open' = FALSE
    /\ committed' = current
    /\ UNCHANGED current

\* A rollback, a failed commit and a crash are one event to a reader.
Abandon ==
    /\ open
    /\ open' = FALSE
    /\ current' = committed
    /\ UNCHANGED committed

Next ==
    \/ \E q \in Quad : Insert(q) \/ Remove(q)
    \/ \E g \in Graph : InsertNamedGraph(g) \/ DropNamedGraph(g)
    \/ Begin
    \/ Commit
    \/ Abandon

Spec == Init /\ [][Next]_vars
=============================================================================
