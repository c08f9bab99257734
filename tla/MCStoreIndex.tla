---------------------------- MODULE MCStoreIndex ----------------------------
(***************************************************************************)
(* The in-memory backend (MemoryStore) and the spatial index kept beside a *)
(* store (SpatialIndex), one at a time.  The index knows a store only by   *)
(* its quads, its length and its dictionary, which SpatialIndex has itself *)
(* so that several workers can write: the one not looked at rests.         *)
(***************************************************************************)
EXTENDS MemoryStore, SpatialIndex

CONSTANTS q1, q2, q3, g1, p1, p2, default, w1, w2, a, b, none

MCQuad == {q1, q2, q3}
MCGraph == {g1}
MCPredicate == {p1, p2}
MCGraphOf == [q \in MCQuad |-> IF q = q1 THEN default ELSE g1]
MCPredOf == [q \in MCQuad |-> IF q = q3 THEN p2 ELSE p1]

MCWorker == {w1, w2}
MCGeometry == {a, b}
MCObjectOf == [q \in MCQuad |-> CASE q = q1 -> a [] q = q2 -> b [] q = q3 -> none]

VARIABLE subject    \* which of the two is looked at

StoreIndexInit == subject \in {"store", "index"} /\ MemoryInit /\ SpatialInit

StoreIndexNext ==
    /\ UNCHANGED subject
    /\ \/ subject = "store" /\ MemoryNext /\ UNCHANGED spatial_vars
       \/ subject = "index" /\ SpatialNext /\ UNCHANGED memory_vars

StoreIndexSpec == StoreIndexInit /\ [][StoreIndexNext]_<<subject, memory_vars, spatial_vars>> /\ SpatialFairness
=============================================================================
