----------------------------- MODULE EngineRun -----------------------------
(***************************************************************************)
(* The graph that the SHACL engine keeps of a store (EngineRun of          *)
(* holos-shacl/src/engine.rs, bridged by bridge.rs): built once from the   *)
(* store, then told of every change, and taken back to a checkpoint when   *)
(* the store does not keep what was written.                               *)
(*                                                                         *)
(* A quad is <<graph, triple>>; a change is [quad, added].                 *)
(***************************************************************************)
EXTENDS RdfTerms, Integers, Sequences

CONSTANTS
    Schemas,     \* name of a shapes graph |-> the shapes graph
    Quads,       \* name of a shapes graph |-> the quads its data is made of
    Filters,     \* and the options it is run with: [data, shapes] graph filters
    MaxChanges,  \* and the changes in one write
    MaxPending   \* and the changes between a checkpoint and its end

ASSUME RunAssumption ==
    \A k \in DOMAIN Schemas : MaxChanges[k] \in Nat /\ MaxPending[k] \in Nat

VARIABLES
    schema,      \* which shapes graph
    options,     \* the graphs both validators were given
    data_quads,  \* the store's data
    graph,       \* bridged.graph
    recorded,    \* [open, changes]: the changes since the checkpoint
    base,        \* the store at the checkpoint
    stale,       \* the run could not undo its changes
    refusal      \* it refused a change: its caller reverts, or prepares it again

run_vars == <<schema, options, data_quads, graph, recorded, base, stale, refusal>>

Changes == [quad : Quads[schema], added : BOOLEAN]

-----------------------------------------------------------------------------
(* bridge.rs and the graph filters.                                        *)

in_graph(g, filter) ==
    CASE filter = "default" -> g = "default" [] filter = "anyNamed" -> g # "default"
      [] filter = "any" -> TRUE [] OTHER -> g = filter
bridge(store, filter) == {q[2] : q \in {q \in store : in_graph(q[1], filter)}}

(* A change that would need the shapes compiled again.                     *)
affects_shapes(t) ==
    \/ t[2] \in {ShapeOf, Iri("targetNode"), First, Rest}
    \/ t[2] = Type /\ t[3] \in {Iri("NodeShape"), Iri("PropertyShape"), Iri("Class")}

-----------------------------------------------------------------------------
(* EngineRun.                                                              *)

(* The changes to a triple of the data graph; the last of them counts.     *)
Mentions(changes, t) ==
    {i \in DOMAIN changes : in_graph(changes[i].quad[1], options.data) /\ changes[i].quad[2] = t}
net(changes, added) ==
    {t \in {changes[i].quad[2] : i \in DOMAIN changes} :
        \E i \in Mentions(changes, t) : changes[i].added = added /\ \A j \in Mentions(changes, t) : j <= i}

refused(changes) ==
    \/ stale
    \/ \E i \in DOMAIN changes : in_graph(changes[i].quad[1], options.shapes) /\ affects_shapes(changes[i].quad[2])

(* Graph::apply.                                                           *)
applied(G, changes) == (G \ net(changes, FALSE)) \cup net(changes, TRUE)

(* A term that cannot be read from the store fails the call before the     *)
(* graph is touched.                                                       *)
apply(changes, unreadable) ==
    IF refused(changes) \/ unreadable THEN refusal' = TRUE /\ UNCHANGED <<graph, recorded>>
    ELSE /\ graph' = applied(graph, changes)
         /\ recorded' = IF recorded.open THEN [recorded EXCEPT !.changes = recorded.changes \o changes] ELSE recorded
         /\ UNCHANGED refusal

-----------------------------------------------------------------------------
(* The steps.                                                              *)

RunInit ==
    /\ schema \in DOMAIN Schemas
    /\ options \in Filters[schema]
    /\ data_quads \in SUBSET Quads[schema]
    /\ graph = bridge(data_quads, options.data)
    /\ recorded = [open |-> FALSE, changes |-> <<>>]
    /\ base = {}
    /\ stale = FALSE
    /\ refusal = FALSE

(* A run that refused a change is prepared again from the store.           *)
prepare ==
    /\ refusal \/ stale
    /\ graph' = bridge(data_quads, options.data)
    /\ recorded' = [open |-> FALSE, changes |-> <<>>]
    /\ stale' = FALSE
    /\ refusal' = FALSE
    /\ UNCHANGED <<schema, options, data_quads, base>>

(* A write: changes that took effect, one after another, and the store     *)
(* they leave.                                                             *)
Ends(changes, added) ==
    {q \in {changes[i].quad : i \in DOMAIN changes} :
        \E i \in DOMAIN changes : /\ changes[i] = [quad |-> q, added |-> added]
                                  /\ \A j \in DOMAIN changes : changes[j].quad = q => j <= i}
After(store, changes) == (store \ Ends(changes, FALSE)) \cup Ends(changes, TRUE)
TookEffect(store, changes) ==
    \A i \in DOMAIN changes :
        changes[i].added <=> changes[i].quad \notin After(store, SubSeq(changes, 1, i - 1))

Write ==
    \E n \in 1..MaxChanges[schema] : \E changes \in [1..n -> Changes] : \E unreadable \in BOOLEAN :
        /\ ~refusal
        /\ TookEffect(data_quads, changes)
        /\ recorded.open => Len(recorded.changes) + n <= MaxPending[schema]
        /\ data_quads' = After(data_quads, changes)
        /\ apply(changes, unreadable)
        /\ UNCHANGED <<schema, options, base, stale>>

checkpoint ==
    /\ ~recorded.open /\ ~refusal
    /\ MaxPending[schema] > 0
    /\ recorded' = [open |-> TRUE, changes |-> <<>>]
    /\ base' = data_quads
    /\ UNCHANGED <<schema, options, data_quads, graph, stale, refusal>>

accept ==
    /\ recorded.open /\ ~refusal
    /\ recorded' = [open |-> FALSE, changes |-> <<>>]
    /\ base' = {}
    /\ UNCHANGED <<schema, options, data_quads, graph, stale, refusal>>

undone(change) == [change EXCEPT !.added = ~change.added]
M_inverse_in_order(changes) == [i \in 1..Len(changes) |-> undone(changes[i])]
inverse(changes) == [i \in 1..Len(changes) |-> undone(changes[Len(changes) - i + 1])]

(* The store is taken back, and the run undoes its changes, last first.    *)
revert ==
    /\ recorded.open
    /\ \E unreadable \in BOOLEAN :
            IF refused(inverse(recorded.changes)) \/ unreadable THEN stale' = TRUE /\ UNCHANGED graph
            ELSE graph' = applied(graph, inverse(recorded.changes)) /\ UNCHANGED stale
    /\ refusal' = FALSE
    /\ recorded' = [open |-> FALSE, changes |-> <<>>]
    /\ data_quads' = base
    /\ base' = {}
    /\ UNCHANGED <<schema, options>>

RunNext == prepare \/ Write \/ checkpoint \/ accept \/ revert
RunSpec == RunInit /\ [][RunNext]_run_vars

-----------------------------------------------------------------------------
(* Properties.                                                             *)

data == bridge(data_quads, options.data)
Usable == ~stale /\ ~refusal

(* The graph the engine keeps is the store's, whatever was written,        *)
(* refused, undone or prepared again (EngineRun::apply and revert: a       *)
(* triple that is added and removed in one write, and a revert after a     *)
(* refused change, are the cases that go wrong).                           *)
RunInStep == Usable => graph = data
=============================================================================
