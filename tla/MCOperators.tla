---------------------------- MODULE MCOperators ----------------------------
(***************************************************************************)
(* The operators of a query above the store: the bind join with the        *)
(* rewrites made before it (BindJoin), and those that hold their rows      *)
(* (Spill).  They meet in the row that one hands to the other; the one not *)
(* looked at rests where it began.                                         *)
(***************************************************************************)
EXTENDS MCBindJoin, Spill

T(c, v, l) == [class |-> c, num |-> v, lex |-> l]
MCKeys == {<<T("num", 10, 1)>>, <<T("num", 2, 3)>>, <<T("str", 0, 2)>>, <<Unbound>>}
MCDescending == <<TRUE>>
MCSlices == {[start |-> 0, length |-> -1], [start |-> 1, length |-> 2]}

VARIABLE operator   \* the one looked at

(* No query is asked.                                                      *)
JoinRests ==
    /\ case = <<>> /\ sinking = FALSE /\ the = {} /\ stack = <<>> /\ out = <<>>
    /\ seen_rows = {} /\ skipped = 0 /\ completions = 0
    /\ abandoned = FALSE /\ cancelled = FALSE /\ answered = "running"

(* No row is held.                                                         *)
SpillRests == input = <<>> /\ op = "distinct" /\ limit = 0 /\ SpillInit

OperatorsInit ==
    \/ operator = "join" /\ JoinInit /\ SpillRests
    \/ operator = "holding" /\ JoinRests /\ SpillInit

OperatorsNext ==
    /\ UNCHANGED operator
    /\ \/ operator = "join" /\ JoinNext /\ UNCHANGED spill_vars
       \/ operator = "holding" /\ SpillNext /\ UNCHANGED join_vars

OperatorsSpec == OperatorsInit /\ [][OperatorsNext]_<<operator, join_vars, spill_vars>>
=============================================================================
