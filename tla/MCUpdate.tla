------------------------------ MODULE MCUpdate ------------------------------
(* A quad of the default graph, and three of a named graph, one of them       *)
(* secret and one for reading only.  The owner may do everything; a guest may *)
(* write the secret one unseen, and the auditor's reads of it are refused.    *)
EXTENDS Update

CONSTANTS d, secret, noted, fixed, g, unnamed, owner, guest, auditor

MCStatement == {d, secret, noted, fixed}
MCNamedGraph == {g}
MCHomeOf == [q \in MCStatement |-> IF q = d THEN unnamed ELSE g]
MCSession == {guest, auditor}
MCReadable == [s \in MCSession |-> IF s = owner THEN MCStatement ELSE MCStatement \ {secret}]
MCWritable == [s \in MCSession |-> IF s = owner THEN MCStatement ELSE {d, noted, secret}]
MCStrict == {auditor}
=============================================================================
