------------------------------- MODULE MCHolon -------------------------------
(* Two holons.  The rules infer b from a; the boundary forbids c beside b, and *)
(* wants a wherever c is.                                                      *)
EXTENDS Holon

CONSTANTS h1, h2, ta, tb, tc, apart, needs

MCPair == {h1, h2}
MCOne == {h1}
MCTriple == {ta, tb, tc}
MCShape == {apart, needs}
MCReads == [sh \in MCShape |-> IF sh = apart THEN {tb, tc} ELSE {ta, tc}]
MCViolated ==
    [S \in SUBSET MCTriple |->
        {sh \in MCShape : IF sh = apart THEN {tb, tc} \subseteq S ELSE tc \in S /\ ta \notin S}]
MCClosure == [S \in SUBSET MCTriple |-> IF ta \in S THEN S \cup {tb} ELSE S]
=============================================================================
