----------------------------- MODULE MCEmbedded -----------------------------
(***************************************************************************)
(* An engine in the caller's process: the in-memory store and the spatial  *)
(* index (MCStoreIndex), and the load or the query called for (MCEngine).  *)
(* Each behaviour is one of the four at work while the others rest: they   *)
(* share no state but the quads, which each has for itself.                *)
(***************************************************************************)
EXTENDS MCStoreIndex, MCEngine

engine_vars == <<call, loader_vars, query_vars>>
index_vars == <<subject, memory_vars, spatial_vars>>

EmbeddedInit ==
    \/ StoreIndexInit /\ call = "none" /\ LoaderRests /\ QueryRests
    \/ EngineInit /\ subject = "none" /\ MemoryInit /\ SpatialInit

EmbeddedNext ==
    \/ StoreIndexNext /\ UNCHANGED engine_vars
    \/ EngineNext /\ UNCHANGED index_vars

EmbeddedSpec ==
    /\ EmbeddedInit /\ [][EmbeddedNext]_<<engine_vars, index_vars>>
    /\ SpatialFairness /\ LoaderFairness /\ QueryFairness
=============================================================================
