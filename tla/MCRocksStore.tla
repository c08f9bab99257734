---------------------------- MODULE MCRocksStore ----------------------------
(* A small store: two quads of the default graph and one of a named graph,   *)
(* over two predicates.                                                      *)
EXTENDS RocksStore

CONSTANTS q1, q2, q3, g1, p1, p2, default, none

MCQuad == {q1, q2, q3}
MCGraph == {g1}
MCPredicate == {p1, p2}
MCGraphOf == [q \in MCQuad |-> IF q \in {q1, q2} THEN default ELSE g1]
MCPredOf == [q \in MCQuad |-> IF q = q2 THEN p2 ELSE p1]
=============================================================================
