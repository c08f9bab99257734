------------------------------ MODULE MCServer ------------------------------
EXTENDS Server
R(o, g, u, a) == [op |-> o, graph |-> g, usable |-> u, admin |-> a]
MCRequests ==
    {R("update", NoTarget, TRUE, FALSE), R("GET", "g", TRUE, FALSE), R("PUT", "g", TRUE, FALSE),
     R("POST", "mint", FALSE, FALSE), R("DELETE", "g", TRUE, FALSE),
     R("backup", NoTarget, TRUE, TRUE), R("purge", NoTarget, TRUE, TRUE)}
Config(ro, ba, tr, ad, re, me) ==
    [read_only |-> ro, base |-> re, backup |-> ba, purge |-> ba, trusted |-> tr,
     admin |-> ad, reorder |-> re, memory |-> me]
MCConfigs ==
    {Config(FALSE, TRUE, TRUE, FALSE, TRUE, TRUE),
     Config(TRUE, TRUE, FALSE, TRUE, FALSE, FALSE), Config(FALSE, TRUE, FALSE, FALSE, FALSE, FALSE)}
=============================================================================
