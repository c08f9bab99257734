---------------------------- MODULE MCDictionary ----------------------------
(* A short term, two long ones with one hash, and a triple term that names    *)
(* the short one twice.                                                       *)
EXTENDS Dictionary

CONSTANTS short, long1, long2, nested, h

MCLeaf == {short, long1, long2}
MCTriple == {nested}
MCParts == [x \in MCTriple |-> <<short, long1, short>>]
MCLong == {long1, long2}
MCHash == [x \in MCLong |-> h]
=============================================================================
