----------------------------- MODULE HolonProofs -----------------------------
(***************************************************************************)
(* That the log of a holon has one event for each version and tells the    *)
(* scene, that a boundary which rejects is crossed only by what a          *)
(* revalidation overlooks, and that the rules' bridge is in step with the  *)
(* scene, for any holons, triples, shapes, rules and deltas.               *)
(***************************************************************************)
EXTENDS Holon, WellFoundedInduction, TLAPS

-----------------------------------------------------------------------------
(* Sequences of changes                                                    *)

Touches(changes, x) == \E i \in DOMAIN changes : changes[i].triple = x

IsFirst(changes, x, i) ==
    /\ i \in DOMAIN changes
    /\ changes[i].triple = x
    /\ \A j \in DOMAIN changes : changes[j].triple = x => i <= j

IsLast(changes, x, i) ==
    /\ i \in DOMAIN changes
    /\ changes[i].triple = x
    /\ \A j \in DOMAIN changes : changes[j].triple = x => j <= i

\* The changes took graph S to graph T, and each of them changed something: a row's first
\* change says what it was, its last one what it is.
Took(changes, S, T) ==
    /\ changes \in Seq(Change)
    /\ S \in SUBSET Triple /\ T \in SUBSET Triple
    /\ \A x \in Triple : ~Touches(changes, x) => (x \in S <=> x \in T)
    /\ \A x \in Triple : Touches(changes, x) =>
          /\ \E i \in Nat : IsFirst(changes, x, i) /\ (changes[i].added <=> x \notin S)
          /\ \E i \in Nat : IsLast(changes, x, i) /\ (changes[i].added <=> x \in T)

\* Net goes by the last change of each row it touches.
LEMMA NetIs ==
    ASSUME NEW graph, NEW changes, NEW x
    PROVE  /\ Touches(changes, x) => (x \in Net(graph, changes) <=> LastChange(changes, x))
           /\ ~Touches(changes, x) => (x \in Net(graph, changes) <=> x \in graph)
BY DEF Net, Touches

\* Only triples are touched.
LEMMA TouchedType ==
    ASSUME NEW changes \in Seq(Change), NEW x, Touches(changes, x)
    PROVE  x \in Triple
<1>1. PICK i \in DOMAIN changes : changes[i].triple = x
    BY DEF Touches
<1>2. changes[i] \in Change
    BY <1>1
<1>3. changes[i].triple \in Triple
    BY <1>2 DEF Change
<1> QED
    BY <1>1, <1>3

\* LastChange is what the last change says.
LEMMA LastIs ==
    ASSUME NEW changes \in Seq(Change), NEW x, NEW i, IsLast(changes, x, i)
    PROVE  LastChange(changes, x) = changes[i].added
<1> DEFINE at == {j \in DOMAIN changes : changes[j].triple = x}
<1>1. i \in at /\ (\A j \in at : i >= j) /\ at \subseteq Nat
    BY DEF IsLast
<1>2. Max(at) \in at /\ \A j \in at : Max(at) >= j
    BY <1>1 DEF Max
<1>3. Max(at) = i
    <2> DEFINE m == Max(at)
    <2>1. m \in at /\ m >= i
        BY <1>1, <1>2
    <2> HIDE DEF m, at
    <2>2. m \in Nat /\ i \in Nat /\ i >= m /\ m >= i
        BY <1>1, <2>1
    <2>3. m = i
        BY <2>2
    <2> QED
        BY <2>3 DEF m
<1> QED
    BY <1>3 DEF LastChange

\* A graph taken forward.
LEMMA TookForward ==
    ASSUME NEW changes, NEW S, NEW T, Took(changes, S, T)
    PROVE  Net(S, changes) = T
<1>1. ASSUME NEW x \in Triple PROVE x \in Net(S, changes) <=> x \in T
    <2>1. CASE Touches(changes, x)
        <3>1. PICK i \in Nat : IsLast(changes, x, i) /\ (changes[i].added <=> x \in T)
            BY <2>1 DEF Took
        <3>2. LastChange(changes, x) = changes[i].added
            BY <3>1, LastIs DEF Took
        <3> QED
            BY <2>1, <3>1, <3>2, NetIs
    <2>2. CASE ~Touches(changes, x)
        BY <2>2, NetIs DEF Took
    <2> QED
        BY <2>1, <2>2
<1>2. Net(S, changes) \subseteq Triple
    <2>1. \A x : Touches(changes, x) => x \in Triple
        BY TouchedType DEF Took
    <2>2. \A x \in S : x \in Triple
        BY DEF Took
    <2>3. ASSUME NEW x \in Net(S, changes) PROVE x \in Triple
        BY <2>1, <2>2, NetIs, Zenon
    <2> QED
        BY <2>3
<1> QED
    BY <1>1, <1>2 DEF Took

\* The changes that take a sequence back are its own, last one first.
LEMMA InverseIs ==
    ASSUME NEW changes \in Seq(Change)
    PROVE  /\ InverseOf(changes) \in Seq(Change)
           /\ \A x : Touches(InverseOf(changes), x) <=> Touches(changes, x)
           /\ \A x, i : IsFirst(changes, x, i) =>
                /\ IsLast(InverseOf(changes), x, Len(changes) + 1 - i)
                /\ InverseOf(changes)[Len(changes) + 1 - i].added = ~changes[i].added
<1> DEFINE n == Len(changes)
           inv == InverseOf(changes)
<1>1. n \in Nat /\ DOMAIN changes = 1..n /\ \A i \in 1..n : changes[i] \in Change
    OBVIOUS
<1>2. \A i \in 1..n : n + 1 - i \in 1..n /\ n + 1 - (n + 1 - i) = i
    BY <1>1
<1>3. /\ inv = [i \in 1..n |-> inv[i]]
      /\ \A i \in 1..n : inv[i] = [triple |-> changes[n + 1 - i].triple, added |-> ~changes[n + 1 - i].added]
    BY <1>1 DEF InverseOf
<1>4. \A i \in 1..n : inv[i].triple = changes[n + 1 - i].triple /\ inv[i].added = ~changes[n + 1 - i].added
    BY <1>3
<1>5. ASSUME NEW i \in 1..n PROVE inv[i] \in Change
    <2>1. changes[n + 1 - i] \in Change
        BY <1>1, <1>2
    <2>2. changes[n + 1 - i].triple \in Triple /\ (~changes[n + 1 - i].added) \in BOOLEAN
        BY <2>1 DEF Change
    <2>3. \A y \in Triple, b \in BOOLEAN : [triple |-> y, added |-> b] \in Change
        BY DEF Change
    <2> DEFINE y == changes[n + 1 - i].triple
               b == ~changes[n + 1 - i].added
    <2>4. inv[i] = [triple |-> y, added |-> b] /\ y \in Triple /\ b \in BOOLEAN
        BY <1>3, <2>2
    <2> HIDE DEF y, b
    <2> QED
        BY <2>3, <2>4
<1>6. DOMAIN inv = 1..n
    BY <1>3
<1>7. inv \in Seq(Change)
    <2> HIDE DEF inv
    <2>1. inv \in [1..n -> Change]
        BY <1>3, <1>5
    <2> QED
        BY <1>1, <2>1
<1> HIDE DEF inv, n
<1>8. ASSUME NEW x PROVE Touches(inv, x) <=> Touches(changes, x)
    <2>1. ASSUME NEW i \in 1..n, inv[i].triple = x PROVE Touches(changes, x)
        BY <1>1, <1>2, <1>4, <2>1 DEF Touches
    <2>2. ASSUME NEW i \in 1..n, changes[i].triple = x PROVE Touches(inv, x)
        <3>1. inv[n + 1 - i].triple = x
            BY <1>2, <1>4, <2>2
        <3> QED
            BY <1>2, <1>6, <3>1 DEF Touches
    <2> QED
        BY <1>1, <1>6, <2>1, <2>2 DEF Touches
<1>9. ASSUME NEW x, NEW i, IsFirst(changes, x, i)
      PROVE  IsLast(inv, x, n + 1 - i) /\ inv[n + 1 - i].added = ~changes[i].added
    <2>1. i \in 1..n /\ changes[i].triple = x /\ \A j \in 1..n : changes[j].triple = x => i <= j
        BY <1>1, <1>9 DEF IsFirst
    <2>2. inv[n + 1 - i].triple = x /\ inv[n + 1 - i].added = ~changes[i].added
        BY <1>2, <1>4, <2>1
    <2>3. ASSUME NEW j \in 1..n, inv[j].triple = x PROVE j <= n + 1 - i
        <3>1. changes[n + 1 - j].triple = x
            BY <1>4, <2>3
        <3>2. i <= n + 1 - j
            BY <1>2, <2>1, <3>1
        <3> QED
            BY <1>1, <2>1, <3>2
    <2> QED
        BY <1>2, <1>6, <2>1, <2>2, <2>3 DEF IsLast
<1> QED
    BY <1>7, <1>8, <1>9 DEF inv, n

\* A graph taken back, or what the rules kept of it.
LEMMA TakenBack ==
    ASSUME NEW changes, NEW S, NEW T, Took(changes, S, T), NEW B \in SUBSET Triple, NEW x \in Triple
    PROVE  x \in Net(B, InverseOf(changes)) <=> IF Touches(changes, x) THEN x \in S ELSE x \in B
<1>1. changes \in Seq(Change)
    BY DEF Took
<1>2. CASE Touches(changes, x)
    <2>1. PICK i \in Nat : IsFirst(changes, x, i) /\ (changes[i].added <=> x \notin S)
        BY <1>2 DEF Took
    <2>2. /\ IsLast(InverseOf(changes), x, Len(changes) + 1 - i)
          /\ InverseOf(changes)[Len(changes) + 1 - i].added = ~changes[i].added
        BY <1>1, <2>1, InverseIs
    <2>3. LastChange(InverseOf(changes), x) = ~changes[i].added
        BY <1>1, <2>2, InverseIs, LastIs
    <2> QED
        BY <1>1, <1>2, <2>1, <2>3, NetIs, InverseIs
<1>3. CASE ~Touches(changes, x)
    BY <1>1, <1>3, NetIs, InverseIs
<1> QED
    BY <1>2, <1>3

\* Net stays among the triples.
LEMMA NetType ==
    ASSUME NEW changes \in Seq(Change), NEW B \in SUBSET Triple
    PROVE  Net(B, changes) \in SUBSET Triple
<1>1. \A x : Touches(changes, x) => x \in Triple
    BY TouchedType
<1>2. ASSUME NEW x \in Net(B, changes) PROVE x \in Triple
    BY <1>1, NetIs, Zenon
<1> QED
    BY <1>2

\* A graph taken back is the graph it was.
LEMMA TookBack ==
    ASSUME NEW changes, NEW S, NEW T, Took(changes, S, T)
    PROVE  Net(T, InverseOf(changes)) = S
<1>1. changes \in Seq(Change) /\ S \in SUBSET Triple /\ T \in SUBSET Triple
    BY DEF Took
<1>2. Net(T, InverseOf(changes)) \in SUBSET Triple
    BY <1>1, NetType, InverseIs
<1>3. \A x \in Triple : x \in Net(T, InverseOf(changes)) <=> x \in S
    BY <1>1, TakenBack DEF Took
<1> QED
    BY <1>1, <1>2, <1>3

\* Nothing took a graph to itself.
LEMMA TookNothing == ASSUME NEW S \in SUBSET Triple PROVE Took(<<>>, S, S)
BY DEF Took, Touches

\* One more change that changes something.
LEMMA TookMore ==
    ASSUME NEW changes, NEW S, NEW T, Took(changes, S, T), NEW x \in Triple, NEW b \in BOOLEAN,
           (x \in T) # b
    PROVE  Took(Append(changes, [triple |-> x, added |-> b]), S,
                IF b THEN T \cup {x} ELSE T \ {x})
<1> DEFINE c == [triple |-> x, added |-> b]
           n == Len(changes)
           more == Append(changes, c)
           U == IF b THEN T \cup {x} ELSE T \ {x}
<1>1. changes \in Seq(Change) /\ c \in Change
    BY DEF Took, Change
<1>2. /\ n \in Nat /\ DOMAIN changes = 1..n /\ DOMAIN more = 1..(n + 1)
      /\ more[n + 1] = c /\ (\A i \in 1..n : more[i] = changes[i]) /\ more \in Seq(Change)
    BY <1>1
<1>3. c.triple = x /\ c.added = b
    OBVIOUS
<1>4. U \in SUBSET Triple /\ (x \in U <=> b) /\ \A y : y # x => (y \in U <=> y \in T)
    BY DEF Took
<1> HIDE DEF c, n, more, U
<1>5. \A y : y # x => (Touches(more, y) <=> Touches(changes, y))
    BY <1>2, <1>3 DEF Touches
<1>6. \A y, i : y # x => (IsFirst(changes, y, i) => IsFirst(more, y, i)) /\ (IsLast(changes, y, i) => IsLast(more, y, i))
    <2> SUFFICES ASSUME NEW y, NEW i, y # x
                 PROVE  /\ IsFirst(changes, y, i) => IsFirst(more, y, i)
                        /\ IsLast(changes, y, i) => IsLast(more, y, i)
        OBVIOUS
    <2>1. \A j \in 1..(n + 1) : more[j].triple = y => j \in 1..n /\ changes[j].triple = y
        BY <1>2, <1>3
    <2>2. \A j \in 1..n : j \in 1..(n + 1) /\ more[j] = changes[j]
        BY <1>2
    <2> QED
        BY <1>2, <2>1, <2>2 DEF IsFirst, IsLast
<1>7. Touches(more, x) /\ IsLast(more, x, n + 1) /\ more[n + 1].added = b
    BY <1>2, <1>3 DEF Touches, IsLast
<1>8. \E i \in Nat : IsFirst(more, x, i) /\ (more[i].added <=> x \notin S)
    <2>1. CASE Touches(changes, x)
        <3>1. PICK i \in Nat : IsFirst(changes, x, i) /\ (changes[i].added <=> x \notin S)
            BY <2>1 DEF Took
        <3>2. IsFirst(more, x, i) /\ more[i] = changes[i]
            BY <1>2, <3>1 DEF IsFirst
        <3> QED
            BY <3>1, <3>2
    <2>2. CASE ~Touches(changes, x)
        <3>1. x \in S <=> x \in T
            BY <2>2 DEF Took
        <3>2. IsFirst(more, x, n + 1)
            BY <1>2, <1>3, <2>2 DEF IsFirst, Touches
        <3>3. more[n + 1].added <=> x \notin S
            BY <1>2, <1>3, <3>1
        <3> QED
            BY <1>2, <3>2, <3>3
    <2> QED
        BY <2>1, <2>2
<1>9. ASSUME NEW y \in Triple, y # x, Touches(more, y)
      PROVE  /\ \E i \in Nat : IsFirst(more, y, i) /\ (more[i].added <=> y \notin S)
             /\ \E i \in Nat : IsLast(more, y, i) /\ (more[i].added <=> y \in U)
    <2>1. Touches(changes, y)
        BY <1>5, <1>9
    <2>2. PICK i \in Nat : IsFirst(changes, y, i) /\ (changes[i].added <=> y \notin S)
        BY <2>1 DEF Took
    <2>3. PICK j \in Nat : IsLast(changes, y, j) /\ (changes[j].added <=> y \in T)
        BY <2>1 DEF Took
    <2>4. more[i] = changes[i] /\ more[j] = changes[j]
        BY <1>2, <2>2, <2>3 DEF IsFirst, IsLast
    <2> QED
        BY <1>4, <1>6, <1>9, <2>2, <2>3, <2>4
<1>10. ASSUME NEW y \in Triple, ~Touches(more, y) PROVE y \in S <=> y \in U
    <2>1. y # x /\ ~Touches(changes, y)
        BY <1>5, <1>7, <1>10
    <2> QED
        BY <1>4, <2>1 DEF Took
<1>11. n + 1 \in Nat /\ (more[n + 1].added <=> x \in U)
    BY <1>2, <1>4, <1>7
<1>12. Took(more, S, U)
    <2>1. S \in SUBSET Triple
        BY DEF Took
    <2> QED
        BY <1>2, <1>4, <1>7, <1>8, <1>9, <1>10, <1>11, <2>1 DEF Took
<1> QED
    BY <1>12 DEF more, U, c

\* A copy that is in step with a graph, taken along with it, is in step with what becomes
\* of the graph, and taken back it is in step with what the graph was.
LEMMA CopyTaken ==
    ASSUME NEW changes, NEW S, NEW T, Took(changes, S, T), NEW B \in SUBSET S
    PROVE  /\ Net(B, changes) \in SUBSET T
           /\ T \ Net(B, changes) \subseteq S \ B
           /\ Net(Net(B, changes), InverseOf(changes)) \in SUBSET S
           /\ S \ Net(Net(B, changes), InverseOf(changes)) \subseteq S \ B
<1>1. changes \in Seq(Change) /\ S \in SUBSET Triple /\ T \in SUBSET Triple /\ B \in SUBSET Triple
    BY DEF Took
<1>2. Net(B, changes) \in SUBSET Triple /\ Net(Net(B, changes), InverseOf(changes)) \in SUBSET Triple
    BY <1>1, NetType, InverseIs
<1>3. ASSUME NEW x \in Triple
      PROVE  x \in Net(B, changes) <=> IF Touches(changes, x) THEN x \in T ELSE x \in B
    <2>1. CASE Touches(changes, x)
        <3>1. PICK i \in Nat : IsLast(changes, x, i) /\ (changes[i].added <=> x \in T)
            BY <2>1 DEF Took
        <3>2. LastChange(changes, x) = changes[i].added
            BY <1>1, <3>1, LastIs
        <3> QED
            BY <2>1, <3>1, <3>2, NetIs
    <2>2. CASE ~Touches(changes, x)
        BY <2>2, NetIs
    <2> QED
        BY <2>1, <2>2
<1>4. \A x \in Triple : ~Touches(changes, x) => (x \in S <=> x \in T)
    BY DEF Took
<1>5. \A x \in Triple : x \in Net(Net(B, changes), InverseOf(changes))
                          <=> IF Touches(changes, x) THEN x \in S ELSE x \in Net(B, changes)
    BY <1>2, TakenBack
<1> HIDE DEF Took
<1> QED
    BY <1>1, <1>2, <1>3, <1>4, <1>5

-----------------------------------------------------------------------------
(* Types                                                                   *)

Event == [version : Nat, changes : Seq(Change), missed : SUBSET Shape, admitted : BOOLEAN]

StoreType ==
    [scene      : [HolonId -> SUBSET Triple],
     base       : [HolonId -> SUBSET Triple],
     events     : [HolonId -> SUBSET Event],
     versions   : [HolonId -> SUBSET Nat],
     branched   : [HolonId -> Nat],
     registered : SUBSET HolonId,
     rejects    : SUBSET HolonId]

TickType ==
    [pc : {"idle", "apply", "infer", "validate", "record", "end"},
     holon : HolonId, owned : BOOLEAN, rules : BOOLEAN, version : Nat,
     adding : SUBSET Triple, removing : SUBSET Triple, inferred : SUBSET Triple,
     applied : Seq(Change), missed : SUBSET Shape, admitted : BOOLEAN, ok : BOOLEAN]

Typed ==
    /\ holons \in StoreType /\ at_begin \in StoreType
    /\ scope_open \in BOOLEAN /\ checkpointed \in BOOLEAN /\ failed \in BOOLEAN /\ lost \in BOOLEAN
    /\ bridged \in SUBSET Triple
    /\ since_checkpoint \in Seq(Change)
    /\ tick \in TickType

\* A set of naturals has a least member.
LEMMA LeastOf ==
    ASSUME NEW T \in SUBSET Nat, T # {}
    PROVE  \E m \in T : \A k \in T : m <= k
<1> DEFINE R == OpToRel(<, Nat)
<1>1. IsWellFoundedOn(R, Nat)
    BY NatLessThanWellFounded
<1>2. \A x, y \in Nat : x < y => <<x, y>> \in R
    BY DEF OpToRel
<1> HIDE DEF R
<1>3. PICK x \in T : \A y \in T : ~(<<y, x>> \in R)
    BY <1>1, WFMin
<1>4. ASSUME NEW k \in T PROVE ~(k < x)
    <2>1. k \in Nat /\ x \in Nat
        OBVIOUS
    <2>2. k < x => <<k, x>> \in R
        BY <1>2, <2>1, Zenon
    <2> QED
        BY <1>3, <2>2, Zenon
<1> QED
    BY <1>4

\* A version is a number, and the one row's if there is one row.
LEMMA VersionIs ==
    ASSUME NEW st \in StoreType, NEW h \in HolonId
    PROVE  /\ version(st, h) \in Nat
           /\ st.versions[h] = {} => version(st, h) = 0
           /\ \A v \in Nat : st.versions[h] = {v} => version(st, h) = v
           /\ Stuck(st, h) => version(st, h) = 0
<1> DEFINE V == st.versions[h]
<1>1. V \in SUBSET Nat
    BY DEF StoreType
<1>2. version(st, h) = IF V = {} THEN 0 ELSE Min(V)
    BY DEF version
<1> HIDE DEF V
<1>3. ASSUME V # {} PROVE Min(V) \in V
    <2>1. \E m \in V : \A k \in V : m <= k
        BY <1>1, <1>3, LeastOf
    <2> QED
        BY <2>1 DEF Min
<1>4. version(st, h) \in Nat
    <2>1. CASE V = {}
        BY <1>2, <2>1
    <2>2. CASE V # {}
        <3>1. Min(V) \in Nat
            BY <1>1, <1>3, <2>2
        <3> QED
            BY <1>2, <2>2, <3>1
    <2> QED
        BY <2>1, <2>2
<1>5. \A v \in Nat : V = {v} => version(st, h) = v
    BY <1>2, <1>3
<1>6. ASSUME 0 \in V PROVE Min(V) = 0
    <2>1. 0 \in V /\ \A k \in V : 0 <= k
        BY <1>1, <1>6
    <2> DEFINE m == Min(V)
    <2>2. m \in V /\ \A k \in V : m <= k
        BY <2>1 DEF Min
    <2> HIDE DEF m
    <2>3. m \in Nat /\ m <= 0
        BY <1>1, <2>1, <2>2
    <2>4. m = 0
        BY <2>3
    <2> QED
        BY <2>4 DEF m
<1> QED
    BY <1>2, <1>4, <1>5, <1>6 DEF V, Stuck

\* set_version touches one holon's version rows and nothing else.
LEMMA SetVersionIs ==
    ASSUME NEW st \in StoreType, NEW h \in HolonId, NEW v \in Nat
    PROVE  /\ set_version(st, h, v) \in StoreType
           /\ set_version(st, h, v).scene = st.scene
           /\ set_version(st, h, v).base = st.base
           /\ set_version(st, h, v).events = st.events
           /\ set_version(st, h, v).branched = st.branched
           /\ set_version(st, h, v).registered = st.registered
           /\ set_version(st, h, v).rejects = st.rejects
           /\ \A g \in HolonId : g # h => set_version(st, h, v).versions[g] = st.versions[g]
           /\ set_version(st, h, v).versions[h]
                = (IF version(st, h) = 0 THEN st.versions[h]
                   ELSE st.versions[h] \ {version(st, h)}) \cup {v}
<1> DEFINE rows == (IF version(st, h) = 0 THEN st.versions[h]
                    ELSE st.versions[h] \ {version(st, h)}) \cup {v}
<1>1. rows \in SUBSET Nat
    BY DEF StoreType
<1>2. set_version(st, h, v) = [st EXCEPT !.versions[h] = rows]
    BY DEF set_version
<1> HIDE DEF rows
<1>3. [st EXCEPT !.versions[h] = rows] \in StoreType
    BY <1>1 DEF StoreType
<1> DEFINE u == [st EXCEPT !.versions[h] = rows]
<1>4. /\ u.scene = st.scene /\ u.base = st.base /\ u.events = st.events
      /\ u.branched = st.branched /\ u.registered = st.registered /\ u.rejects = st.rejects
      /\ u.versions[h] = rows
      /\ \A g \in HolonId : g # h => u.versions[g] = st.versions[g]
    BY <1>1 DEF StoreType
<1> HIDE DEF u
<1>5. set_version(st, h, v) = u /\ u \in StoreType
    BY <1>2, <1>3 DEF u
<1> QED
    BY <1>4, <1>5 DEF rows

\* A new store.
LEMMA NewStoreType == NewStore \in StoreType
BY HolonAssumption DEF NewStore, StoreType

\* No change is a sequence of changes.
LEMMA NoChange == <<>> \in Seq(Change)
OBVIOUS

\* No tick.
LEMMA IdleType == Idle \in TickType
BY HolonAssumption DEF Idle, TickType

\* A row's change is remembered if it is one.
LEMMA AppliedType ==
    ASSUME Typed, NEW x \in Triple, NEW b \in BOOLEAN
    PROVE  Applied(x, b) \in Seq(Change)
<1>1. [triple |-> x, added |-> b] \in Change /\ tick.applied \in Seq(Change)
    BY DEF Typed, TickType, Change
<1> QED
    BY <1>1 DEF Applied

\* u is st with another scene for one holon.
Rescened(u, st, h, S) ==
    /\ u \in StoreType
    /\ u.base = st.base /\ u.events = st.events /\ u.versions = st.versions
    /\ u.branched = st.branched /\ u.registered = st.registered /\ u.rejects = st.rejects
    /\ u.scene[h] = S
    /\ \A g \in HolonId : g # h => u.scene[g] = st.scene[g]

\* Writing a holon's scene is such a change.
LEMMA RescenedIs ==
    ASSUME NEW st \in StoreType, NEW h \in HolonId, NEW S \in SUBSET Triple
    PROVE  Rescened([st EXCEPT !.scene[h] = S], st, h, S)
<1> DEFINE u == [st EXCEPT !.scene[h] = S]
<1>1. u \in StoreType
    BY DEF StoreType
<1>2. /\ u.base = st.base /\ u.events = st.events /\ u.versions = st.versions
      /\ u.branched = st.branched /\ u.registered = st.registered /\ u.rejects = st.rejects
      /\ u.scene[h] = S
      /\ \A g \in HolonId : g # h => u.scene[g] = st.scene[g]
    BY DEF StoreType
<1> HIDE DEF u
<1>3. Rescened(u, st, h, S)
    BY <1>1, <1>2 DEF Rescened
<1> QED
    BY <1>3 DEF u

\* The version rows of a holon that is given version v.
RowsAfter(st, h, v) ==
    (IF version(st, h) = 0 THEN st.versions[h] ELSE st.versions[h] \ {version(st, h)}) \cup {v}

\* u is st with an event more in one holon's log, and that event's version.
Recorded(u, st, h, e) ==
    /\ u \in StoreType
    /\ u.scene = st.scene /\ u.base = st.base /\ u.branched = st.branched
    /\ u.registered = st.registered /\ u.rejects = st.rejects
    /\ u.events[h] = st.events[h] \cup {e}
    /\ u.versions[h] = RowsAfter(st, h, e.version)
    /\ \A g \in HolonId : g # h => u.events[g] = st.events[g] /\ u.versions[g] = st.versions[g]

\* Writing a tick's event and its version row is such a change.
LEMMA RecordedIs ==
    ASSUME NEW st \in StoreType, NEW h \in HolonId, NEW e \in Event
    PROVE  Recorded(set_version([st EXCEPT !.events[h] = @ \cup {e}], h, e.version), st, h, e)
<1> DEFINE w == [st EXCEPT !.events[h] = @ \cup {e}]
           u == set_version(w, h, e.version)
<1>1. w \in StoreType
    BY DEF StoreType
<1>2. /\ w.scene = st.scene /\ w.base = st.base /\ w.versions = st.versions
      /\ w.branched = st.branched /\ w.registered = st.registered /\ w.rejects = st.rejects
      /\ w.events[h] = st.events[h] \cup {e}
      /\ \A g \in HolonId : g # h => w.events[g] = st.events[g]
    BY DEF StoreType
<1>3. e.version \in Nat
    BY DEF Event
<1> HIDE DEF w
<1>4. version(w, h) = version(st, h)
    BY <1>2 DEF version
<1>5. /\ u \in StoreType /\ u.scene = w.scene /\ u.base = w.base /\ u.events = w.events
      /\ u.branched = w.branched /\ u.registered = w.registered /\ u.rejects = w.rejects
      /\ \A g \in HolonId : g # h => u.versions[g] = w.versions[g]
      /\ u.versions[h] = RowsAfter(w, h, e.version)
    BY <1>1, <1>3, SetVersionIs DEF RowsAfter
<1>6. RowsAfter(w, h, e.version) = RowsAfter(st, h, e.version)
    BY <1>2, <1>4 DEF RowsAfter
<1> HIDE DEF u
<1>7. Recorded(u, st, h, e)
    BY <1>2, <1>5, <1>6 DEF Recorded
<1> QED
    BY <1>7 DEF u, w

\* u is st with a new holon that begins as a copy of another.
Branched(u, st, source, child) ==
    /\ u \in StoreType
    /\ u.registered = st.registered \cup {child}
    /\ u.rejects = IF source \in st.rejects THEN st.rejects \cup {child} ELSE st.rejects
    /\ u.events = st.events
    /\ u.scene[child] = st.scene[child] \cup st.scene[source]
    /\ u.base[child] = st.scene[source]
    /\ u.branched[child] = version(st, source)
    /\ u.versions[child] = RowsAfter(st, child, version(st, source))
    /\ \A g \in HolonId : g # child =>
          /\ u.scene[g] = st.scene[g] /\ u.base[g] = st.base[g]
          /\ u.branched[g] = st.branched[g] /\ u.versions[g] = st.versions[g]

\* What branch writes is such a change.
LEMMA BranchedIs ==
    ASSUME Typed, NEW source \in HolonId, NEW child \in HolonId, branch(source, child)
    PROVE  Branched(holons', holons, source, child)
<1> DEFINE v == version(holons, source)
           R == IF source \in holons.rejects THEN holons.rejects \cup {child} ELSE holons.rejects
           w == [holons EXCEPT !.scene[child] = @ \cup holons.scene[source],
                              !.base[child] = holons.scene[source],
                              !.branched[child] = v,
                              !.registered = @ \cup {child},
                              !.rejects = IF source \in @ THEN @ \cup {child} ELSE @]
           u == set_version(w, child, v)
<1>0. holons \in StoreType
    BY DEF Typed
<1>1. v \in Nat
    BY <1>0, VersionIs
<1>2. holons' = u
    BY DEF branch
<1> HIDE DEF v
<1>3. w \in StoreType
    BY <1>0, <1>1 DEF StoreType
<1>4. /\ w.scene[child] = holons.scene[child] \cup holons.scene[source]
      /\ w.base[child] = holons.scene[source] /\ w.branched[child] = v
      /\ w.registered = holons.registered \cup {child} /\ w.rejects = R
      /\ w.events = holons.events /\ w.versions = holons.versions
      /\ \A g \in HolonId : g # child =>
            /\ w.scene[g] = holons.scene[g] /\ w.base[g] = holons.base[g]
            /\ w.branched[g] = holons.branched[g]
    BY <1>0, <1>1 DEF StoreType
<1> HIDE DEF w
<1>5. version(w, child) = version(holons, child)
    BY <1>4 DEF version
<1>6. /\ u \in StoreType /\ u.scene = w.scene /\ u.base = w.base /\ u.events = w.events
      /\ u.branched = w.branched /\ u.registered = w.registered /\ u.rejects = w.rejects
      /\ \A g \in HolonId : g # child => u.versions[g] = w.versions[g]
      /\ u.versions[child] = RowsAfter(w, child, v)
    BY <1>1, <1>3, SetVersionIs DEF RowsAfter
<1>7. RowsAfter(w, child, v) = RowsAfter(holons, child, v)
    BY <1>4, <1>5 DEF RowsAfter
<1> HIDE DEF u
<1> QED
    BY <1>2, <1>4, <1>6, <1>7 DEF Branched, v

\* u is st with one more holon.
Registered(u, st, h) ==
    /\ u \in StoreType
    /\ u.scene = st.scene /\ u.base = st.base /\ u.events = st.events
    /\ u.versions = st.versions /\ u.branched = st.branched
    /\ u.registered = st.registered \cup {h}
    /\ u.rejects \subseteq st.rejects \cup {h}

\* What register writes is such a change.
LEMMA RegisteredIs ==
    ASSUME Typed, NEW h \in HolonId, NEW reject \in BOOLEAN, register(h, reject)
    PROVE  Registered(holons', holons, h)
<1> DEFINE R == IF reject THEN holons.rejects \cup {h} ELSE holons.rejects
           u == [holons EXCEPT !.registered = @ \cup {h}, !.rejects = R]
<1>0. holons \in StoreType
    BY DEF Typed
<1>1. holons' = u
    BY DEF register
<1>2. R \in SUBSET HolonId /\ R \subseteq holons.rejects \cup {h}
    BY <1>0 DEF StoreType
<1> HIDE DEF R
<1>3. u \in StoreType
    BY <1>0, <1>2 DEF StoreType
<1>4. /\ u.scene = holons.scene /\ u.base = holons.base /\ u.events = holons.events
      /\ u.versions = holons.versions /\ u.branched = holons.branched
      /\ u.registered = holons.registered \cup {h} /\ u.rejects = R
    BY <1>0, <1>2 DEF StoreType
<1> HIDE DEF u
<1> QED
    BY <1>1, <1>2, <1>3, <1>4 DEF Registered

-----------------------------------------------------------------------------
(* What every argument below rests on                                      *)

\* A holon nobody registered has nothing.
Blank(st) ==
    \A g \in HolonId : g \notin st.registered =>
        /\ st.scene[g] = {} /\ st.base[g] = {} /\ st.events[g] = {} /\ st.versions[g] = {}
        /\ st.branched[g] = 0 /\ g \notin st.rejects

Working == tick.pc \in {"apply", "infer", "validate", "record"}

\* The scene holds what the tick has done to it so far.
Undoable == tick.pc \in {"apply", "infer", "validate"} \/ (tick.pc = "record" /\ tick.admitted)

\* What the ticking holon's scene was before the tick.
Before == Net(Scene, InverseOf(tick.applied))

\* A tick has a scope, its own or the caller's, and a registered holon; what it remembers
\* takes the scene back to what it was.
FrameInv ==
    /\ Typed
    /\ Blank(holons) /\ Blank(at_begin)
    /\ ~scope_open => tick.pc = "idle" /\ ~failed
    /\ failed => tick.pc = "idle"
    /\ tick.pc # "idle" => Here \in holons.registered
    /\ Working => ~tick.ok
    /\ Undoable => Took(tick.applied, Before, Scene)

\* A change that is remembered if it is one, and a scene that has it.
LEMMA ChangeTook ==
    ASSUME Typed, NEW T, Took(tick.applied, T, Scene), NEW x \in Triple, NEW b \in BOOLEAN
    PROVE  /\ Took(Applied(x, b), T, IF b THEN Scene \cup {x} ELSE Scene \ {x})
           /\ Net(IF b THEN Scene \cup {x} ELSE Scene \ {x}, InverseOf(Applied(x, b))) = T
<1> DEFINE U == IF b THEN Scene \cup {x} ELSE Scene \ {x}
           A == Applied(x, b)
<1>1. ASSUME (x \in Scene) = b PROVE Took(A, T, U) /\ Net(U, InverseOf(A)) = T
    <2>1. A = tick.applied
        BY <1>1, Zenon DEF Applied
    <2>2. U = Scene
        <3>1. CASE b
            <4>1. x \in Scene
                BY <1>1, <3>1, Zenon
            <4> QED
                BY <3>1, <4>1
        <3>2. CASE ~b
            <4>1. x \notin Scene
                BY <1>1, <3>2, Zenon
            <4> QED
                BY <3>2, <4>1
        <3> QED
            BY <3>1, <3>2
    <2>3. Net(Scene, InverseOf(tick.applied)) = T
        BY TookBack
    <2> HIDE DEF U, A
    <2> QED
        BY <2>1, <2>2, <2>3
<1>2. ASSUME (x \in Scene) # b PROVE Took(A, T, U) /\ Net(U, InverseOf(A)) = T
    <2>1. A = Append(tick.applied, [triple |-> x, added |-> b])
        BY <1>2, Zenon DEF Applied
    <2>2. Took(Append(tick.applied, [triple |-> x, added |-> b]), T, U)
        BY <1>2, TookMore
    <2> HIDE DEF A, U
    <2> QED
        BY <2>1, <2>2, TookBack
<1> HIDE DEF A, U
<1>3. Took(A, T, U) /\ Net(U, InverseOf(A)) = T
    BY <1>1, <1>2
<1> USE DEF A, U
<1> QED
    BY <1>3

\* A step of a tick's body that changes one triple.
ChangeStep(x, b) ==
    /\ holons' = [holons EXCEPT !.scene[Here] = IF b THEN Scene \cup {x} ELSE Scene \ {x}]
    /\ tick' \in TickType
    /\ tick'.pc = tick.pc /\ tick'.holon = tick.holon /\ tick'.applied = Applied(x, b)
    /\ tick'.owned = tick.owned /\ tick'.rules = tick.rules /\ tick'.version = tick.version
    /\ tick'.admitted = tick.admitted /\ tick'.ok = tick.ok
    /\ UNCHANGED <<at_begin, scope_open, bridged, since_checkpoint, checkpointed, failed, lost>>

\* The three actions that write a triple of the scene are such steps.
LEMMA ChangeSteps ==
    ASSUME Typed, NEW x \in Triple
    PROVE  /\ ApplyAdd(x) => ChangeStep(x, TRUE) /\ tick.pc = "apply"
           /\ ApplyRemove(x) => ChangeStep(x, FALSE) /\ tick.pc = "apply"
           /\ WriteInferred(x) => /\ ChangeStep(x, TRUE) /\ tick.pc = "infer"
                               /\ x \in tick.inferred /\ tick'.inferred \subseteq tick.inferred
<1> DEFINE a == Applied(x, TRUE)
           r == Applied(x, FALSE)
<1>1. a \in Seq(Change) /\ r \in Seq(Change) /\ tick \in TickType
    BY AppliedType DEF Typed
<1>2. ApplyAdd(x) => ChangeStep(x, TRUE) /\ tick.pc = "apply"
    <2> SUFFICES ASSUME ApplyAdd(x) PROVE ChangeStep(x, TRUE) /\ tick.pc = "apply"
        OBVIOUS
    <2>1. /\ tick' = [tick EXCEPT !.adding = @ \ {x}, !.applied = a]
          /\ holons' = [holons EXCEPT !.scene[Here] = Scene \cup {x}]
          /\ tick.pc = "apply"
          /\ UNCHANGED <<at_begin, scope_open, bridged, since_checkpoint, checkpointed, failed, lost>>
        BY DEF ApplyAdd, Scene
    <2> HIDE DEF a
    <2>2. /\ tick' \in TickType
          /\ tick'.pc = tick.pc /\ tick'.holon = tick.holon /\ tick'.applied = a
          /\ tick'.owned = tick.owned /\ tick'.rules = tick.rules /\ tick'.version = tick.version
          /\ tick'.admitted = tick.admitted /\ tick'.ok = tick.ok
        BY <1>1, <2>1 DEF TickType
    <2> QED
        BY <2>1, <2>2 DEF ChangeStep, a
<1>3. ApplyRemove(x) => ChangeStep(x, FALSE) /\ tick.pc = "apply"
    <2> SUFFICES ASSUME ApplyRemove(x) PROVE ChangeStep(x, FALSE) /\ tick.pc = "apply"
        OBVIOUS
    <2>1. /\ tick' = [tick EXCEPT !.removing = @ \ {x}, !.applied = r]
          /\ holons' = [holons EXCEPT !.scene[Here] = Scene \ {x}]
          /\ tick.pc = "apply"
          /\ UNCHANGED <<at_begin, scope_open, bridged, since_checkpoint, checkpointed, failed, lost>>
        BY DEF ApplyRemove, Scene
    <2> HIDE DEF r
    <2>2. /\ tick' \in TickType
          /\ tick'.pc = tick.pc /\ tick'.holon = tick.holon /\ tick'.applied = r
          /\ tick'.owned = tick.owned /\ tick'.rules = tick.rules /\ tick'.version = tick.version
          /\ tick'.admitted = tick.admitted /\ tick'.ok = tick.ok
        BY <1>1, <2>1 DEF TickType
    <2> QED
        BY <2>1, <2>2 DEF ChangeStep, r
<1>4. WriteInferred(x) => /\ ChangeStep(x, TRUE) /\ tick.pc = "infer"
                          /\ x \in tick.inferred /\ tick'.inferred \subseteq tick.inferred
    <2> SUFFICES ASSUME WriteInferred(x)
                 PROVE  /\ ChangeStep(x, TRUE) /\ tick.pc = "infer"
                        /\ x \in tick.inferred /\ tick'.inferred \subseteq tick.inferred
        OBVIOUS
    <2>1. /\ tick' = [tick EXCEPT !.inferred = @ \ {x}, !.applied = a]
          /\ holons' = [holons EXCEPT !.scene[Here] = Scene \cup {x}]
          /\ tick.pc = "infer" /\ x \in tick.inferred
          /\ UNCHANGED <<at_begin, scope_open, bridged, since_checkpoint, checkpointed, failed, lost>>
        BY DEF WriteInferred, Scene
    <2> HIDE DEF a
    <2>2. /\ tick' \in TickType
          /\ tick'.pc = tick.pc /\ tick'.holon = tick.holon /\ tick'.applied = a
          /\ tick'.owned = tick.owned /\ tick'.rules = tick.rules /\ tick'.version = tick.version
          /\ tick'.admitted = tick.admitted /\ tick'.ok = tick.ok
          /\ tick'.inferred \subseteq tick.inferred
        BY <1>1, <2>1 DEF TickType
    <2> QED
        BY <2>1, <2>2 DEF ChangeStep, a
<1> QED
    BY <1>2, <1>3, <1>4

\* What such a step leaves.
LEMMA ChangeStepGives ==
    ASSUME FrameInv, NEW x \in Triple, NEW b \in BOOLEAN, ChangeStep(x, b), Undoable
    PROVE  /\ Rescened(holons', holons, Here, IF b THEN Scene \cup {x} ELSE Scene \ {x})
           /\ Here' = Here /\ Scene' = IF b THEN Scene \cup {x} ELSE Scene \ {x}
           /\ Before' = Before
           /\ Took(tick'.applied, Before', Scene')
<1> DEFINE S == IF b THEN Scene \cup {x} ELSE Scene \ {x}
<1>1. holons \in StoreType /\ Here \in HolonId /\ Scene \in SUBSET Triple
    BY DEF FrameInv, Typed, StoreType, TickType, Here, Scene
<1>2. S \in SUBSET Triple
    BY <1>1
<1>3. holons' = [holons EXCEPT !.scene[Here] = S]
    BY DEF ChangeStep
<1>4. /\ Took(Applied(x, b), Before, S)
      /\ Net(S, InverseOf(Applied(x, b))) = Before
    BY ChangeTook DEF FrameInv
<1>5. Here' = Here /\ tick'.applied = Applied(x, b)
    BY DEF ChangeStep, Here
<1> HIDE DEF S
<1>6. Rescened(holons', holons, Here, S)
    BY <1>1, <1>2, <1>3, RescenedIs
<1>7. Scene' = S
    BY <1>5, <1>6 DEF Scene, Rescened
<1>8. Before' = Before
    BY <1>4, <1>5, <1>7 DEF Before
<1> QED
    BY <1>4, <1>5, <1>6, <1>7, <1>8 DEF S

\* A step of the tick's program that writes nothing to the store.
MoveStep(p) ==
    /\ tick' \in TickType
    /\ tick'.pc = p /\ tick'.holon = tick.holon /\ tick'.applied = tick.applied
    /\ tick'.owned = tick.owned /\ tick'.rules = tick.rules /\ tick'.version = tick.version
    /\ tick'.admitted = tick.admitted /\ tick'.ok = tick.ok
    /\ UNCHANGED <<holons, at_begin, scope_open, failed, lost>>

\* The actions that are such steps.
LEMMA MoveSteps ==
    ASSUME Typed
    PROVE  /\ SkipRules => MoveStep("validate") /\ tick.pc = "apply"
           /\ WrongRules => MoveStep("end") /\ tick.pc = "apply"
           /\ AllInferred => MoveStep("validate") /\ tick.pc = "infer"
           /\ TickFails => MoveStep("end") /\ Working
           /\ SkipRules \/ WrongRules \/ AllInferred \/ TickFails => UNCHANGED <<bridged, since_checkpoint, checkpointed>>
<1>1. tick \in TickType
    BY DEF Typed
<1>2. ASSUME NEW p \in {"validate", "end"}, tick' = [tick EXCEPT !.pc = p],
             UNCHANGED <<holons, at_begin, scope_open, failed, lost>>
      PROVE  MoveStep(p)
    BY <1>1, <1>2 DEF MoveStep, TickType
<1>3. SkipRules => MoveStep("validate") /\ tick.pc = "apply" /\ UNCHANGED <<bridged, since_checkpoint, checkpointed>>
    BY <1>2 DEF SkipRules, AllApplied
<1>4. WrongRules => MoveStep("end") /\ tick.pc = "apply" /\ UNCHANGED <<bridged, since_checkpoint, checkpointed>>
    BY <1>2 DEF WrongRules, AllApplied
<1>5. AllInferred => MoveStep("validate") /\ tick.pc = "infer" /\ UNCHANGED <<bridged, since_checkpoint, checkpointed>>
    BY <1>2 DEF AllInferred
<1>6. TickFails => MoveStep("end") /\ Working /\ UNCHANGED <<bridged, since_checkpoint, checkpointed>>
    BY <1>2 DEF TickFails, Working
<1> QED
    BY <1>3, <1>4, <1>5, <1>6

\* fire is one too, and moves the bridge.
LEMMA FireStep ==
    ASSUME Typed, fire_rules
    PROVE  /\ MoveStep("infer") /\ tick.pc = "apply"
           /\ tick.rules /\ Here = Ruled
           /\ bridged' = Net(bridged, tick.applied) /\ bridged' \in SUBSET Triple
           /\ since_checkpoint' = tick.applied /\ checkpointed' = TRUE
           /\ tick'.inferred = Closure[bridged'] \ bridged'
<1>1. tick \in TickType /\ tick.applied \in Seq(Change) /\ bridged \in SUBSET Triple
    BY DEF Typed, TickType
<1>2. /\ bridged' = Net(bridged, tick.applied) /\ since_checkpoint' = tick.applied /\ checkpointed' = TRUE
      /\ tick.pc = "apply" /\ tick.rules /\ Here = Ruled
      /\ UNCHANGED <<holons, at_begin, scope_open, failed, lost>>
      /\ tick' = [tick EXCEPT !.pc = "infer", !.inferred = Closure[bridged'] \ bridged']
    BY DEF fire_rules, AllApplied
<1>3. bridged' \in SUBSET Triple
    BY <1>1, <1>2, NetType
<1>4. Closure[bridged'] \ bridged' \in SUBSET Triple
    BY <1>3, RuleAssumption
<1>5. tick'.inferred = Closure[bridged'] \ bridged' /\ MoveStep("infer")
    BY <1>1, <1>2, <1>4 DEF MoveStep, TickType
<1> QED
    BY <1>2, <1>3, <1>5

\* A tick begins with nothing done.
LEMMA BeginStep ==
    ASSUME Typed, NEW holon \in HolonId, NEW rules \in BOOLEAN,
           NEW adding \in SUBSET Triple, NEW removing \in SUBSET Triple,
           begin_commit(holon, rules, adding, removing)
    PROVE  /\ tick' \in TickType /\ tick.pc = "idle" /\ ~failed
           /\ tick'.pc = "apply" /\ tick'.holon = holon /\ tick'.rules = rules
           /\ tick'.applied = <<>> /\ tick'.owned = ~scope_open /\ tick'.ok = FALSE
           /\ tick'.version = version(holons, holon) + 1
           /\ holon \in holons.registered /\ (holon = Ruled => tick'.rules)
           /\ scope_open' = TRUE /\ at_begin' = (IF scope_open THEN at_begin ELSE holons)
           /\ UNCHANGED <<holons, bridged, since_checkpoint, checkpointed, failed, lost>>
<1> DEFINE v == version(holons, holon) + 1
           o == ~scope_open
<1>1. v \in Nat /\ o \in BOOLEAN
    BY VersionIs DEF Typed
<1>2. /\ tick' = [Idle EXCEPT !.pc = "apply", !.holon = holon, !.rules = rules,
                              !.owned = o, !.version = v,
                              !.adding = adding, !.removing = removing]
      /\ tick.pc = "idle" /\ ~failed /\ holon \in holons.registered /\ (holon = Ruled => rules)
      /\ scope_open' = TRUE /\ at_begin' = (IF scope_open THEN at_begin ELSE holons)
      /\ UNCHANGED <<holons, bridged, since_checkpoint, checkpointed, failed, lost>>
    BY DEF begin_commit
<1> HIDE DEF v, o
<1>3. /\ tick' \in TickType
      /\ tick'.pc = "apply" /\ tick'.holon = holon /\ tick'.rules = rules
      /\ tick'.applied = <<>> /\ tick'.owned = o /\ tick'.ok = FALSE /\ tick'.version = v
    <2>1. Idle \in TickType /\ Idle.applied = <<>> /\ Idle.ok = FALSE
        BY IdleType DEF Idle
    <2> QED
        BY <1>1, <1>2, <2>1 DEF TickType
<1> QED
    BY <1>2, <1>3 DEF v, o

\* A validation keeps the scene or takes it back.
LEMMA ValidateStep ==
    ASSUME Typed, validate
    PROVE  /\ tick' \in TickType /\ tick.pc = "validate"
           /\ tick'.pc = "record" /\ tick'.holon = tick.holon /\ tick'.applied = tick.applied
           /\ tick'.owned = tick.owned /\ tick'.rules = tick.rules /\ tick'.version = tick.version
           /\ tick'.ok = tick.ok
           /\ UNCHANGED <<at_begin, scope_open, bridged, since_checkpoint, checkpointed, failed, lost>>
           /\ tick'.admitted => /\ holons' = holons
                                /\ \/ Here \notin holons.rejects
                                   \/ Violated[Scene] \cap Implicated(tick.applied) \subseteq tick'.missed
           /\ ~tick'.admitted => holons' = [holons EXCEPT !.scene[Here] = Before]
<1>1. tick \in TickType
    BY DEF Typed
<1>2. PICK found \in SUBSET Violated[Scene] :
          LET admitted == found = {} \/ Here \notin holons.rejects
          IN  /\ tick' = [tick EXCEPT !.pc = "record", !.admitted = admitted,
                                      !.missed = IF found = {}
                                                 THEN Violated[Scene] \cap Implicated(tick.applied)
                                                 ELSE {}]
              /\ holons' = IF admitted THEN holons
                          ELSE [holons EXCEPT !.scene[Here] = Net(@, InverseOf(tick.applied))]
    BY DEF validate
<1> DEFINE admitted == found = {} \/ Here \notin holons.rejects
           missed == IF found = {} THEN Violated[Scene] \cap Implicated(tick.applied) ELSE {}
<1>3. admitted \in BOOLEAN /\ missed \in SUBSET Shape
    BY DEF Implicated
<1>4. /\ tick' = [tick EXCEPT !.pc = "record", !.admitted = admitted, !.missed = missed]
      /\ holons' = IF admitted THEN holons ELSE [holons EXCEPT !.scene[Here] = Before]
    BY <1>2 DEF Before, Scene
<1>5. admitted => \/ Here \notin holons.rejects
                  \/ Violated[Scene] \cap Implicated(tick.applied) \subseteq missed
    BY <1>2
<1>6. /\ tick.pc = "validate"
      /\ UNCHANGED <<at_begin, scope_open, bridged, since_checkpoint, checkpointed, failed, lost>>
    BY DEF validate
<1> HIDE DEF admitted, missed
<1>7. /\ tick' \in TickType /\ tick'.missed = missed
      /\ tick'.pc = "record" /\ tick'.holon = tick.holon /\ tick'.applied = tick.applied
      /\ tick'.owned = tick.owned /\ tick'.rules = tick.rules /\ tick'.version = tick.version
      /\ tick'.ok = tick.ok /\ tick'.admitted = admitted
    BY <1>1, <1>3, <1>4 DEF TickType
<1> QED
    BY <1>4, <1>5, <1>6, <1>7

\* The event a tick records.
Event0 == [version |-> tick.version, changes |-> tick.applied, missed |-> tick.missed,
           admitted |-> tick.admitted]

\* A record adds the event and the version.
LEMMA RecordStep ==
    ASSUME Typed, record
    PROVE  /\ Event0 \in Event
           /\ Recorded(holons', holons, Here, Event0)
           /\ tick' \in TickType /\ tick.pc = "record"
           /\ tick'.pc = "end" /\ tick'.holon = tick.holon /\ tick'.owned = tick.owned
           /\ tick'.rules = tick.rules /\ tick'.admitted = tick.admitted /\ tick'.ok = TRUE
           /\ UNCHANGED <<at_begin, scope_open, bridged, since_checkpoint, checkpointed, failed, lost>>
<1>1. tick \in TickType /\ holons \in StoreType /\ Here \in HolonId
    BY DEF Typed, TickType, Here
<1>2. Event0 \in Event
    BY <1>1 DEF Event0, Event, TickType
<1>3. Event0.version = tick.version
    BY DEF Event0
<1>4. /\ holons' = set_version([holons EXCEPT !.events[Here] = @ \cup {Event0}], Here, tick.version)
      /\ tick' = [tick EXCEPT !.pc = "end", !.ok = TRUE]
      /\ tick.pc = "record"
      /\ UNCHANGED <<at_begin, scope_open, bridged, since_checkpoint, checkpointed, failed, lost>>
    BY DEF record, Event0
<1>5. Recorded(holons', holons, Here, Event0)
    <2> HIDE DEF Event0
    <2> QED
        BY <1>1, <1>2, <1>3, <1>4, RecordedIs
<1>6. /\ tick' \in TickType
      /\ tick'.pc = "end" /\ tick'.holon = tick.holon /\ tick'.owned = tick.owned
      /\ tick'.rules = tick.rules /\ tick'.admitted = tick.admitted /\ tick'.ok = TRUE
    BY <1>1, <1>4 DEF TickType
<1> QED
    BY <1>2, <1>4, <1>5, <1>6

\* A new store has nothing but the ruled holon.
LEMMA BlankNew == Blank(NewStore)
BY DEF Blank, NewStore

\* What is written goes to registered holons.
LEMMA BlankKept ==
    ASSUME NEW st, Blank(st), NEW u, NEW h
    PROVE  /\ h \in st.registered /\ (\E S : Rescened(u, st, h, S)) => Blank(u)
           /\ h \in st.registered /\ (\E e : Recorded(u, st, h, e)) => Blank(u)
           /\ (\E g : Branched(u, st, g, h)) => Blank(u)
           /\ Registered(u, st, h) => Blank(u)
<1>1. ASSUME h \in st.registered, NEW S, Rescened(u, st, h, S) PROVE Blank(u)
    BY <1>1 DEF Blank, Rescened
<1>2. ASSUME h \in st.registered, NEW e, Recorded(u, st, h, e) PROVE Blank(u)
    BY <1>2 DEF Blank, Recorded
<1>3. ASSUME NEW g, Branched(u, st, g, h) PROVE Blank(u)
    BY <1>3 DEF Blank, Branched
<1>4. ASSUME Registered(u, st, h) PROVE Blank(u)
    BY <1>4 DEF Blank, Registered
<1> QED
    BY <1>1, <1>2, <1>3, <1>4

\* A step that ends with no tick under way.
LEMMA IdleFrame ==
    ASSUME tick' = Idle, Typed', Blank(holons)', Blank(at_begin)', ~scope_open' => ~failed'
    PROVE  FrameInv'
<1>1. tick'.pc = "idle"
    BY DEF Idle
<1> QED
    BY <1>1 DEF FrameInv, Undoable, Working

\* It all begins with no tick under way.
LEMMA InitFrame == HolonInit => FrameInv
<1> SUFFICES ASSUME HolonInit PROVE FrameInv
    OBVIOUS
<1>1. Typed
    BY NewStoreType, IdleType, NoChange DEF HolonInit, Typed
<1>2. tick.pc = "idle"
    BY DEF HolonInit, Idle
<1> QED
    BY <1>1, <1>2, BlankNew DEF HolonInit, FrameInv, Undoable, Working

\* Every step keeps it.
LEMMA NextFrame ==
    ASSUME FrameInv, [HolonNext]_holon_vars
    PROVE  FrameInv'
<1>0. /\ Typed /\ holons \in StoreType /\ at_begin \in StoreType /\ Here \in HolonId
      /\ Scene \in SUBSET Triple /\ Before \in SUBSET Triple
    <2>1. Typed /\ holons \in StoreType /\ at_begin \in StoreType /\ tick \in TickType
        BY DEF FrameInv, Typed
    <2>2. Here \in HolonId /\ Scene \in SUBSET Triple /\ tick.applied \in Seq(Change)
        BY <2>1 DEF StoreType, TickType, Here, Scene
    <2>3. Before \in SUBSET Triple
        BY <2>2, NetType, InverseIs DEF Before
    <2> QED
        BY <2>1, <2>2, <2>3
<1>1. ASSUME NEW holon \in HolonId, NEW rules \in BOOLEAN, NEW delta \in SmallDelta,
             begin_commit(holon, rules, delta[1], delta[2])
      PROVE  FrameInv'
    <2>1. delta[1] \in SUBSET Triple /\ delta[2] \in SUBSET Triple
        BY DEF SmallDelta
    <2>2. /\ tick' \in TickType /\ tick'.pc = "apply" /\ tick'.holon = holon /\ tick'.applied = <<>>
          /\ tick'.ok = FALSE /\ holon \in holons.registered /\ scope_open' = TRUE /\ ~failed
          /\ at_begin' = (IF scope_open THEN at_begin ELSE holons)
          /\ UNCHANGED <<holons, bridged, since_checkpoint, checkpointed, failed, lost>>
        BY <1>0, <1>1, <2>1, BeginStep
    <2>3. Here' = holon /\ Scene' = holons.scene[holon] /\ holons.scene[holon] \in SUBSET Triple
        BY <1>0, <2>2 DEF Here, Scene, StoreType
    <2>4. Took(<<>>, Scene', Scene')
        BY <2>3, TookNothing
    <2>5. Took(tick'.applied, Before', Scene')
        BY <2>2, <2>4, TookBack DEF Before
    <2>6. Typed' /\ Blank(holons)' /\ Blank(at_begin)'
        BY <1>0, <2>2 DEF FrameInv, Typed, Blank
    <2> QED
        BY <2>2, <2>3, <2>5, <2>6 DEF FrameInv
<1>2. ASSUME NEW x \in Triple, NEW b \in BOOLEAN, ChangeStep(x, b), tick.pc \in {"apply", "infer"}
      PROVE  FrameInv'
    <2>1. Undoable /\ Here \in holons.registered
        BY <1>2 DEF Undoable, FrameInv
    <2>2. /\ \E S : Rescened(holons', holons, Here, S)
          /\ Here' = Here /\ Took(tick'.applied, Before', Scene')
        BY <1>2, <2>1, ChangeStepGives
    <2>3. /\ Blank(holons)' /\ holons' \in StoreType /\ holons'.registered = holons.registered
        BY <2>1, <2>2, BlankKept DEF FrameInv, Rescened
    <2>4. /\ tick' \in TickType /\ tick'.pc = tick.pc
          /\ UNCHANGED <<at_begin, scope_open, bridged, since_checkpoint, checkpointed, failed, lost>>
        BY <1>2 DEF ChangeStep
    <2>5. Typed' /\ Blank(at_begin)'
        BY <1>0, <2>3, <2>4 DEF FrameInv, Typed, Blank
    <2>6. ~tick'.ok
        BY <1>2 DEF ChangeStep, FrameInv, Working
    <2> QED
        BY <2>1, <2>2, <2>3, <2>4, <2>5, <2>6 DEF FrameInv
<1>3. ASSUME NEW p \in {"validate", "end"}, MoveStep(p), UNCHANGED <<bridged, since_checkpoint, checkpointed>>,
             Undoable \/ p = "end", tick.pc # "idle"
      PROVE  FrameInv'
    <2>1. Here' = Here /\ Scene' = Scene /\ Before' = Before /\ tick'.applied = tick.applied
        BY <1>3 DEF MoveStep, Here, Scene, Before
    <2>2. Undoable' => Undoable
        BY <1>3 DEF Undoable, MoveStep
    <2>3. Typed' /\ Blank(holons)' /\ Blank(at_begin)'
        BY <1>0, <1>3 DEF MoveStep, FrameInv, Typed, Blank
    <2>4. UNCHANGED <<holons, scope_open, failed>> /\ tick'.pc = p
        BY <1>3 DEF MoveStep
    <2>5. Working' => ~tick'.ok
        BY <1>3 DEF MoveStep, FrameInv, Working, Undoable
    <2> QED
        BY <1>3, <2>1, <2>2, <2>3, <2>4, <2>5 DEF FrameInv
<1>4. ASSUME fire_rules PROVE FrameInv'
    <2>1. /\ MoveStep("infer") /\ tick.pc = "apply"
          /\ bridged' \in SUBSET Triple /\ since_checkpoint' = tick.applied /\ checkpointed' = TRUE
        BY <1>0, <1>4, FireStep
    <2>2. Here' = Here /\ Scene' = Scene /\ Before' = Before /\ tick'.applied = tick.applied
        BY <2>1 DEF MoveStep, Here, Scene, Before
    <2>3. Undoable
        BY <2>1 DEF Undoable
    <2>4. tick \in TickType /\ tick.applied \in Seq(Change)
        BY <1>0 DEF Typed, TickType
    <2>5. Typed' /\ Blank(holons)' /\ Blank(at_begin)'
        BY <1>0, <2>1, <2>4 DEF MoveStep, FrameInv, Typed, Blank
    <2>6. UNCHANGED <<holons, scope_open, failed>> /\ tick'.pc = "infer"
        BY <2>1 DEF MoveStep
    <2>7. ~tick'.ok
        BY <2>1 DEF MoveStep, FrameInv, Working
    <2> QED
        BY <2>1, <2>2, <2>3, <2>5, <2>6, <2>7 DEF FrameInv
<1>5. ASSUME validate PROVE FrameInv'
    <2>1. /\ tick' \in TickType /\ tick.pc = "validate" /\ tick'.pc = "record"
          /\ tick'.holon = tick.holon /\ tick'.applied = tick.applied /\ tick'.ok = tick.ok
          /\ UNCHANGED <<at_begin, scope_open, bridged, since_checkpoint, checkpointed, failed, lost>>
          /\ tick'.admitted => holons' = holons
          /\ ~tick'.admitted => holons' = [holons EXCEPT !.scene[Here] = Before]
        BY <1>0, <1>5, ValidateStep
    <2>2. Undoable /\ Here \in holons.registered /\ Here' = Here
        BY <2>1 DEF Undoable, FrameInv, Here
    <2>3. ~tick'.admitted => Rescened(holons', holons, Here, Before)
        BY <1>0, <2>1, RescenedIs
    <2>4. Blank(holons)' /\ holons' \in StoreType /\ Here' \in holons'.registered
        <3>1. CASE tick'.admitted
            BY <1>0, <2>1, <2>2, <3>1 DEF FrameInv, Blank
        <3>2. CASE ~tick'.admitted
            BY <2>2, <2>3, <3>2, BlankKept DEF FrameInv, Rescened
        <3> QED
            BY <3>1, <3>2
    <2>5. tick'.admitted => Scene' = Scene /\ Before' = Before
        BY <2>1, <2>2 DEF Scene, Before
    <2>6. Typed' /\ Blank(at_begin)'
        BY <1>0, <2>1, <2>4 DEF FrameInv, Typed, Blank
    <2>7. Undoable' => tick'.admitted
        BY <2>1 DEF Undoable
    <2>8. ~tick'.ok
        BY <2>1 DEF FrameInv, Working
    <2> QED
        BY <2>1, <2>2, <2>4, <2>5, <2>6, <2>7, <2>8 DEF FrameInv
<1>6. ASSUME record PROVE FrameInv'
    <2>1. /\ Recorded(holons', holons, Here, Event0)
          /\ tick' \in TickType /\ tick.pc = "record" /\ tick'.pc = "end" /\ tick'.holon = tick.holon
          /\ UNCHANGED <<at_begin, scope_open, bridged, since_checkpoint, checkpointed, failed, lost>>
        BY <1>0, <1>6, RecordStep
    <2>2. Here \in holons.registered /\ Here' = Here
        BY <2>1 DEF FrameInv, Here
    <2>3. Blank(holons)' /\ holons' \in StoreType /\ Here' \in holons'.registered
        BY <2>1, <2>2, BlankKept DEF FrameInv, Recorded
    <2>4. Typed' /\ Blank(at_begin)' /\ ~Undoable'
        BY <1>0, <2>1, <2>3 DEF FrameInv, Typed, Blank, Undoable
    <2> QED
        BY <2>1, <2>3, <2>4 DEF FrameInv, Working
<1>7. ASSUME end_commit PROVE FrameInv'
    <2>1. /\ tick' = Idle /\ holons' \in {holons, at_begin} /\ at_begin' \in {at_begin, NewStore}
          /\ scope_open' = ~tick.owned /\ failed' = (~tick.owned /\ ~tick.ok) /\ UNCHANGED lost
          /\ settle(tick.ok /\ tick.admitted)
        BY <1>7 DEF end_commit
    <2>2. since_checkpoint' \in Seq(Change) /\ checkpointed' \in BOOLEAN
        BY <1>0, <2>1, NoChange DEF Typed, settle
    <2>3. bridged' \in SUBSET Triple
        <3>1. Net(bridged, InverseOf(since_checkpoint)) \in SUBSET Triple
            BY <1>0, NetType, InverseIs DEF Typed
        <3>2. bridged' = Net(bridged, InverseOf(since_checkpoint)) \/ bridged' = bridged
            BY <2>1 DEF settle, Settled
        <3> QED
            BY <1>0, <3>1, <3>2 DEF Typed
    <2>4. scope_open' \in BOOLEAN /\ failed' \in BOOLEAN /\ (~scope_open' => ~failed')
        BY <2>1
    <2>5. Typed'
        BY <1>0, <2>1, <2>2, <2>3, <2>4, NewStoreType, IdleType DEF Typed
    <2>6. Blank(holons)' /\ Blank(at_begin)'
        BY <2>1, BlankNew DEF FrameInv
    <2> QED
        BY <2>1, <2>4, <2>5, <2>6, IdleFrame
<1>8. ASSUME TickRefused PROVE FrameInv'
    <2>1. /\ tick' = Idle /\ holons' = at_begin /\ at_begin' = NewStore /\ scope_open' = FALSE
          /\ lost' = (lost \/ tick.rules) /\ UNCHANGED <<bridged, since_checkpoint, checkpointed, failed>>
          /\ tick.pc = "end"
        BY <1>8 DEF TickRefused
    <2>2. lost' \in BOOLEAN /\ ~failed'
        BY <2>1 DEF FrameInv
    <2>3. Typed'
        BY <1>0, <2>1, <2>2, NewStoreType, IdleType DEF Typed
    <2>4. Blank(holons)' /\ Blank(at_begin)'
        BY <2>1, BlankNew DEF FrameInv
    <2> QED
        BY <2>1, <2>2, <2>3, <2>4, IdleFrame
<1>9. ASSUME NEW st, Blank(st), st \in StoreType, holons' = st, tick.pc = "idle",
             UNCHANGED <<at_begin, scope_open, bridged, since_checkpoint, checkpointed, failed, lost, tick>>
      PROVE  FrameInv'
    <2>1. Typed' /\ Blank(holons)' /\ Blank(at_begin)'
        BY <1>0, <1>9 DEF FrameInv, Typed, Blank
    <2> QED
        BY <1>9, <2>1 DEF FrameInv, Undoable, Working
<1>10. ASSUME NEW holon \in HolonId, NEW reject \in BOOLEAN, register(holon, reject) PROVE FrameInv'
    <2>1. Registered(holons', holons, holon)
        BY <1>0, <1>10, RegisteredIs
    <2>2. Blank(holons') /\ holons' \in StoreType
        BY <2>1, BlankKept DEF FrameInv, Registered
    <2> QED
        BY <1>9, <1>10, <2>2 DEF register
<1>11. ASSUME NEW source \in HolonId, NEW child \in HolonId, branch(source, child) PROVE FrameInv'
    <2>1. Branched(holons', holons, source, child)
        BY <1>0, <1>11, BranchedIs
    <2>2. Blank(holons') /\ holons' \in StoreType
        <3>1. holons' \in StoreType
            BY <2>1 DEF Branched
        <3>2. Blank(holons')
            BY <2>1, BlankKept DEF FrameInv
        <3> QED
            BY <3>1, <3>2
    <2> QED
        BY <1>9, <1>11, <2>2 DEF branch
<1>12. ASSUME prepare_run PROVE FrameInv'
    <2>1. /\ tick.pc = "idle" /\ bridged' = holons.scene[Ruled] /\ since_checkpoint' = <<>> /\ checkpointed' = FALSE
          /\ lost' = FALSE /\ UNCHANGED <<holons, at_begin, scope_open, failed, tick>>
        BY <1>12 DEF prepare_run
    <2>2. bridged' \in SUBSET Triple
        BY <1>0, <2>1, HolonAssumption DEF StoreType
    <2>3. Typed' /\ Blank(holons)' /\ Blank(at_begin)'
        BY <1>0, <2>1, <2>2, NoChange DEF FrameInv, Typed, Blank
    <2> QED
        BY <2>1, <2>3 DEF FrameInv, Undoable, Working
<1>13. ASSUME CallerBegins PROVE FrameInv'
    <2>1. /\ tick.pc = "idle" /\ scope_open' = TRUE /\ at_begin' = holons
          /\ UNCHANGED <<holons, bridged, since_checkpoint, checkpointed, failed, lost, tick>>
        BY <1>13 DEF CallerBegins
    <2>2. Typed' /\ Blank(holons)' /\ Blank(at_begin)'
        BY <1>0, <2>1 DEF FrameInv, Typed, Blank
    <2> QED
        BY <2>1, <2>2 DEF FrameInv, Undoable, Working
<1>14. ASSUME NEW kept \in BOOLEAN, CallerEnds(kept) PROVE FrameInv'
    <2>1. /\ tick.pc = "idle" /\ scope_open' = FALSE /\ failed' = FALSE
          /\ holons' \in {holons, at_begin} /\ at_begin' = NewStore
          /\ lost' = (lost \/ (~kept /\ holons # at_begin)) /\ UNCHANGED <<bridged, since_checkpoint, checkpointed, tick>>
        BY <1>14 DEF CallerEnds
    <2>2. lost' \in BOOLEAN
        BY <2>1
    <2>3. Typed'
        BY <1>0, <2>1, <2>2, NewStoreType DEF Typed
    <2>4. Blank(holons)' /\ Blank(at_begin)'
        BY <2>1, BlankNew DEF FrameInv
    <2> QED
        BY <2>1, <2>3, <2>4 DEF FrameInv, Undoable, Working
<1>15. ASSUME Crash PROVE FrameInv'
    <2>1. /\ tick' = Idle /\ scope_open' = FALSE /\ failed' = FALSE /\ lost' = FALSE
          /\ holons' \in {holons, at_begin} /\ at_begin' = NewStore
          /\ bridged' = holons'.scene[Ruled] /\ since_checkpoint' = <<>> /\ checkpointed' = FALSE
        BY <1>15 DEF Crash
    <2>2. holons' \in StoreType /\ bridged' \in SUBSET Triple
        BY <1>0, <2>1, HolonAssumption DEF StoreType
    <2>3. Typed'
        BY <2>1, <2>2, NewStoreType, IdleType, NoChange DEF Typed
    <2>4. Blank(holons)' /\ Blank(at_begin)'
        BY <2>1, BlankNew DEF FrameInv
    <2> QED
        BY <2>1, <2>3, <2>4, IdleFrame
<1>16. ASSUME UNCHANGED holon_vars PROVE FrameInv'
    BY <1>16 DEF holon_vars, FrameInv, Typed, Blank, Undoable, Working, Before, Scene, Here, Took
<1>17. ASSUME NEW x \in Triple, ApplyAdd(x) \/ ApplyRemove(x) \/ WriteInferred(x) PROVE FrameInv'
    BY <1>0, <1>2, <1>17, ChangeSteps
<1>18. ASSUME SkipRules \/ WrongRules \/ AllInferred \/ TickFails PROVE FrameInv'
    BY <1>0, <1>3, <1>18, MoveSteps DEF Working, Undoable
<1> QED
    BY <1>1, <1>4, <1>5, <1>6, <1>7, <1>8, <1>10, <1>11, <1>12, <1>13, <1>14, <1>15, <1>16, <1>17, <1>18
       DEF HolonNext

-----------------------------------------------------------------------------
(* The boundary                                                            *)

\* The scenes as they were before the tick under way.
PriorScene(g) == IF g = Here /\ Undoable THEN Before ELSE holons.scene[g]

Within(st) == \A g \in st.rejects : Violated[st.scene[g]] \subseteq Overlooked(st, g)

\* What the tick under way has overlooked in a scene.
JustMissed(g) == IF g = Here THEN tick.missed ELSE {}

\* The store has no violation but those overlooked, between ticks, in what a failure goes
\* back to and, during a tick, in what the scene was before it.  What an admitted tick leaves
\* was looked at only where it changed: the rest is within because it was.
BoundaryInv ==
    /\ scope_open => Within(at_begin)
    /\ tick.pc = "idle" /\ ~failed => Within(holons)
    /\ Working => \A g \in holons.rejects : Violated[PriorScene(g)] \subseteq Overlooked(holons, g)
    /\ tick.pc = "record" /\ tick.admitted =>
          \A g \in holons.rejects :
              Violated[holons.scene[g]] \subseteq Overlooked(holons, g) \cup JustMissed(g)
    /\ tick.pc = "end" /\ tick.ok => Within(holons)

\* What is overlooked depends on where a holon began and on its log.
LEMMA OverlookedSame ==
    ASSUME NEW st, NEW u, NEW g, u.base[g] = st.base[g], u.events[g] = st.events[g]
    PROVE  Overlooked(u, g) = Overlooked(st, g)
BY DEF Overlooked

\* A shape the changes do not touch sees the scene it saw.
LEMMA UnimplicatedHolds ==
    ASSUME NEW changes, NEW S, NEW T, Took(changes, S, T), NEW sh \in Violated[T],
           sh \notin Implicated(changes)
    PROVE  sh \in Violated[S]
<1>1. S \in SUBSET Triple /\ T \in SUBSET Triple
    BY DEF Took
<1>2. sh \in Shape
    BY <1>1, ShapeAssumption
<1>3. \A i \in DOMAIN changes : changes[i].triple \notin Reads[sh]
    BY <1>2 DEF Implicated
<1>4. \A x \in Reads[sh] : ~Touches(changes, x)
    BY <1>3 DEF Touches
<1>5. Reads[sh] \in SUBSET Triple
    BY <1>2, ShapeAssumption
<1>6. \A x \in Reads[sh] : x \in S <=> x \in T
    BY <1>4, <1>5 DEF Took
<1>7. S \cap Reads[sh] = T \cap Reads[sh]
    BY <1>6
<1> QED
    BY <1>1, <1>2, <1>7, ShapeAssumption

\* It all begins with nothing but the violations an empty scene has.
LEMMA InitBoundary == ASSUME HolonInit PROVE BoundaryInv
<1>1. \A g \in NewStore.rejects : NewStore.scene[g] = NewStore.base[g]
    BY HolonAssumption DEF NewStore
<1>2. Within(holons) /\ tick.pc = "idle" /\ ~scope_open
    BY <1>1 DEF HolonInit, Within, Idle, Overlooked
<1> QED
    BY <1>2 DEF BoundaryInv, Working

\* Every step keeps it.
LEMMA NextBoundary ==
    ASSUME FrameInv, BoundaryInv, [HolonNext]_holon_vars
    PROVE  BoundaryInv'
<1>0. /\ Typed /\ holons \in StoreType /\ at_begin \in StoreType /\ Here \in HolonId
      /\ holons.rejects \subseteq HolonId
    <2>1. Typed /\ holons \in StoreType /\ at_begin \in StoreType /\ tick \in TickType
        BY DEF FrameInv, Typed
    <2> QED
        BY <2>1 DEF StoreType, TickType, Here
<1>1. ASSUME NEW holon \in HolonId, NEW rules \in BOOLEAN, NEW delta \in SmallDelta,
             begin_commit(holon, rules, delta[1], delta[2])
      PROVE  BoundaryInv'
    <2>1. delta[1] \in SUBSET Triple /\ delta[2] \in SUBSET Triple
        BY DEF SmallDelta
    <2>2. /\ tick.pc = "idle" /\ ~failed
          /\ tick'.pc = "apply" /\ tick'.holon = holon /\ tick'.applied = <<>>
          /\ scope_open' = TRUE /\ at_begin' = (IF scope_open THEN at_begin ELSE holons) /\ holons' = holons
        BY <1>0, <1>1, <2>1, BeginStep
    <2>3. Here' = holon /\ Scene' = holons.scene[holon] /\ holons.scene[holon] \in SUBSET Triple
        BY <1>0, <2>2 DEF Here, Scene, StoreType
    <2>4. Before' = Scene'
        <3>1. Took(<<>>, holons.scene[holon], holons.scene[holon])
            BY <2>3, TookNothing
        <3>2. Net(holons.scene[holon], InverseOf(<<>>)) = holons.scene[holon]
            BY <3>1, TookBack
        <3> QED
            BY <2>2, <2>3, <3>2 DEF Before
    <2>5. \A g : PriorScene(g)' = holons.scene[g]
        BY <2>2, <2>3, <2>4 DEF PriorScene
    <2>6. Within(holons) /\ Within(at_begin)'
        BY <2>2 DEF BoundaryInv, Within
    <2> QED
        BY <2>2, <2>5, <2>6 DEF BoundaryInv, Within
<1>2. ASSUME NEW x \in Triple, NEW b \in BOOLEAN, ChangeStep(x, b), tick.pc \in {"apply", "infer"}
      PROVE  BoundaryInv'
    <2>1. Undoable /\ Working /\ Undoable'
        BY <1>2 DEF Undoable, Working, ChangeStep
    <2>2. /\ \E S : Rescened(holons', holons, Here, S)
          /\ Here' = Here /\ Before' = Before
        BY <1>2, <2>1, ChangeStepGives
    <2>3. holons'.rejects = holons.rejects /\ \A g \in HolonId : g # Here => holons'.scene[g] = holons.scene[g]
        BY <2>2 DEF Rescened
    <2>4. \A g \in HolonId : PriorScene(g)' = PriorScene(g)
        BY <2>1, <2>2, <2>3 DEF PriorScene
    <2>5. UNCHANGED <<scope_open, at_begin>> /\ tick'.pc = tick.pc
        BY <1>2 DEF ChangeStep
    <2>6. \A g : Overlooked(holons', g) = Overlooked(holons, g)
        BY <2>2, OverlookedSame DEF Rescened
    <2> QED
        BY <1>0, <1>2, <2>1, <2>3, <2>4, <2>5, <2>6 DEF BoundaryInv, Within
<1>3. ASSUME NEW p \in {"infer", "validate", "end"}, MoveStep(p),
             Undoable \/ p = "end", Working
      PROVE  BoundaryInv'
    <2>1. /\ UNCHANGED <<holons, at_begin, scope_open>> /\ tick'.pc = p
          /\ tick'.ok = tick.ok /\ tick'.holon = tick.holon /\ tick'.applied = tick.applied
        BY <1>3 DEF MoveStep
    <2>2. ~tick.ok
        BY <1>3 DEF FrameInv
    <2>3. CASE p = "end"
        BY <2>1, <2>2, <2>3 DEF BoundaryInv, Within, Working
    <2>4. CASE p # "end"
        <3>1. Undoable /\ Undoable'
            BY <1>3, <2>1, <2>4 DEF Undoable
        <3>2. Here' = Here /\ Before' = Before
            BY <2>1 DEF Here, Scene, Before
        <3>3. \A g : PriorScene(g)' = PriorScene(g)
            BY <2>1, <3>1, <3>2 DEF PriorScene
        <3> QED
            BY <1>3, <2>1, <2>4, <3>3 DEF BoundaryInv, Within, Working
    <2> QED
        BY <2>3, <2>4
<1>4. ASSUME fire_rules PROVE BoundaryInv'
    <2>1. MoveStep("infer") /\ Undoable /\ Working
        BY <1>0, <1>4, FireStep DEF Undoable, Working
    <2> QED
        BY <1>3, <2>1
<1>5. ASSUME validate PROVE BoundaryInv'
    <2>1. /\ tick.pc = "validate" /\ tick'.pc = "record"
          /\ tick'.holon = tick.holon /\ tick'.applied = tick.applied
          /\ UNCHANGED <<at_begin, scope_open>>
          /\ tick'.admitted => /\ holons' = holons
                               /\ \/ Here \notin holons.rejects
                                  \/ Violated[Scene] \cap Implicated(tick.applied) \subseteq tick'.missed
          /\ ~tick'.admitted => holons' = [holons EXCEPT !.scene[Here] = Before]
        BY <1>0, <1>5, ValidateStep
    <2>2. Undoable /\ Working /\ Here' = Here /\ Took(tick.applied, Before, Scene)
        BY <2>1 DEF Undoable, Working, FrameInv, Here
    <2>3. \A g \in holons.rejects : Violated[PriorScene(g)] \subseteq Overlooked(holons, g)
        BY <2>2 DEF BoundaryInv
    <2>4. Before \in SUBSET Triple
        BY <2>2 DEF Took
    <2>5. CASE tick'.admitted
        <3>1. holons' = holons /\ Scene' = Scene /\ Before' = Before /\ Undoable'
            BY <2>1, <2>2, <2>5 DEF Scene, Before, Undoable
        <3>2. \A g : PriorScene(g)' = PriorScene(g)
            BY <2>2, <3>1 DEF PriorScene
        <3>3. ASSUME NEW g \in holons.rejects
              PROVE  Violated[holons.scene[g]] \subseteq Overlooked(holons, g) \cup JustMissed(g)'
            <4>1. CASE g = Here
                <5>1. Violated[Before] \subseteq Overlooked(holons, Here)
                    BY <2>2, <2>3, <4>1 DEF PriorScene
                <5>2. Violated[Scene] \cap Implicated(tick.applied) \subseteq tick'.missed
                    BY <2>1, <2>5, <4>1
                <5>3. ASSUME NEW sh \in Violated[Scene], sh \notin Implicated(tick.applied)
                      PROVE  sh \in Violated[Before]
                    BY <2>2, <5>3, UnimplicatedHolds
                <5>4. Violated[Scene] \subseteq Overlooked(holons, Here) \cup tick'.missed
                    BY <5>1, <5>2, <5>3
                <5> QED
                    BY <2>2, <4>1, <5>4 DEF Scene, JustMissed
            <4>2. CASE g # Here
                BY <2>3, <4>2 DEF PriorScene
            <4> QED
                BY <4>1, <4>2
        <3> QED
            BY <2>1, <2>3, <3>1, <3>2, <3>3 DEF BoundaryInv, Within
    <2>6. CASE ~tick'.admitted
        <3>1. Rescened(holons', holons, Here, Before)
            BY <1>0, <2>1, <2>4, <2>6, RescenedIs
        <3>2. ~Undoable'
            BY <2>1, <2>6 DEF Undoable
        <3>3. \A g \in HolonId : PriorScene(g)' = PriorScene(g)
            BY <2>2, <3>1, <3>2 DEF PriorScene, Rescened
        <3>4. holons'.rejects = holons.rejects
            BY <3>1 DEF Rescened
        <3>5. \A g : Overlooked(holons', g) = Overlooked(holons, g)
            BY <3>1, OverlookedSame DEF Rescened
        <3> QED
            BY <1>0, <2>1, <2>3, <2>6, <3>3, <3>4, <3>5 DEF BoundaryInv, Within
    <2> QED
        BY <2>5, <2>6
<1>6. ASSUME record PROVE BoundaryInv'
    <2>1. /\ Recorded(holons', holons, Here, Event0)
          /\ tick.pc = "record" /\ tick'.pc = "end" /\ UNCHANGED <<at_begin, scope_open>>
        BY <1>0, <1>6, RecordStep
    <2>2. /\ holons'.rejects = holons.rejects /\ holons'.scene = holons.scene /\ holons'.base = holons.base
          /\ holons'.events[Here] = holons.events[Here] \cup {Event0}
          /\ \A g \in HolonId : g # Here => holons'.events[g] = holons.events[g]
        BY <2>1 DEF Recorded
    <2>3. Event0.missed = tick.missed /\ Event0.admitted = tick.admitted
        BY DEF Event0
    <2>4. /\ \A g \in HolonId : Overlooked(holons, g) \subseteq Overlooked(holons', g)
          /\ tick.admitted => tick.missed \subseteq Overlooked(holons', Here)
        <3>1. \A g \in HolonId : holons.events[g] \subseteq holons'.events[g]
            BY <2>2
        <3> HIDE DEF Event0
        <3> QED
            BY <2>2, <2>3, <3>1 DEF Overlooked
    <2>5. ASSUME NEW g \in holons.rejects
          PROVE  Violated[holons.scene[g]] \subseteq Overlooked(holons', g)
        <3>0. g \in HolonId
            BY <1>0
        <3>1. CASE tick.admitted
            <4>1. Violated[holons.scene[g]] \subseteq Overlooked(holons, g) \cup JustMissed(g)
                BY <2>1, <3>1 DEF BoundaryInv
            <4>2. JustMissed(g) \subseteq Overlooked(holons', g)
                BY <2>4, <3>1 DEF JustMissed
            <4> QED
                BY <2>4, <3>0, <4>1, <4>2
        <3>2. CASE ~tick.admitted
            <4>1. PriorScene(g) = holons.scene[g]
                BY <2>1, <3>2 DEF PriorScene, Undoable
            <4>2. Violated[PriorScene(g)] \subseteq Overlooked(holons, g)
                BY <2>1 DEF BoundaryInv, Working
            <4> QED
                BY <2>4, <3>0, <4>1, <4>2
        <3> QED
            BY <3>1, <3>2
    <2>6. Within(holons')
        BY <2>2, <2>5 DEF Within
    <2> QED
        BY <2>1, <2>6 DEF BoundaryInv, Within, Working
<1>7. ASSUME tick' = Idle \/ (tick' = tick /\ tick.pc = "idle"),
             scope_open' => Within(at_begin'), ~failed' => Within(holons')
      PROVE  BoundaryInv'
    <2>1. tick'.pc = "idle"
        BY <1>7 DEF Idle
    <2> QED
        BY <1>7, <2>1 DEF BoundaryInv, Within, Working
<1>8. ASSUME end_commit PROVE BoundaryInv'
    <2>1. /\ tick' = Idle /\ tick.pc = "end"
          /\ holons' = (IF tick.owned /\ ~tick.ok THEN at_begin ELSE holons)
          /\ at_begin' = (IF tick.owned THEN NewStore ELSE at_begin)
          /\ scope_open' = ~tick.owned /\ failed' = (~tick.owned /\ ~tick.ok)
        BY <1>8 DEF end_commit
    <2>2. scope_open
        BY <2>1 DEF FrameInv
    <2>3. Within(at_begin) /\ (tick.ok => Within(holons))
        BY <2>1, <2>2 DEF BoundaryInv
    <2>4. scope_open' => Within(at_begin')
        BY <2>1, <2>3
    <2>5. ~failed' => Within(holons')
        BY <2>1, <2>3
    <2> QED
        BY <1>7, <2>1, <2>4, <2>5
<1>9. ASSUME TickRefused PROVE BoundaryInv'
    <2>1. tick' = Idle /\ holons' = at_begin /\ scope_open' = FALSE /\ tick.pc = "end"
        BY <1>9 DEF TickRefused
    <2>2. Within(at_begin)
        BY <2>1 DEF FrameInv, BoundaryInv
    <2> QED
        BY <1>7, <2>1, <2>2
<1>10. ASSUME NEW holon \in HolonId, NEW reject \in BOOLEAN, register(holon, reject) PROVE BoundaryInv'
    <2>1. Registered(holons', holons, holon)
        BY <1>0, <1>10, RegisteredIs
    <2>2. /\ tick' = tick /\ tick.pc = "idle" /\ holon \notin holons.registered
          /\ UNCHANGED <<at_begin, scope_open, failed>> /\ ~scope_open
        BY <1>10 DEF register
    <2>3. Within(holons) /\ holons.scene[holon] = holons.base[holon]
        BY <2>2 DEF BoundaryInv, FrameInv, Blank
    <2>4. \A g : Overlooked(holons', g) = Overlooked(holons, g)
        BY <2>1, OverlookedSame DEF Registered
    <2>5. Violated[holons.scene[holon]] \subseteq Overlooked(holons, holon)
        BY <2>3 DEF Overlooked
    <2>6. Within(holons')
        BY <2>1, <2>3, <2>4, <2>5 DEF Within, Registered
    <2> QED
        BY <1>7, <2>2, <2>6
<1>11. ASSUME NEW source \in HolonId, NEW child \in HolonId, branch(source, child) PROVE BoundaryInv'
    <2>1. Branched(holons', holons, source, child)
        BY <1>0, <1>11, BranchedIs
    <2>2. /\ tick' = tick /\ tick.pc = "idle" /\ child \notin holons.registered
          /\ UNCHANGED <<at_begin, scope_open, failed>> /\ ~scope_open
        BY <1>11 DEF branch
    <2>3. Within(holons) /\ holons.scene[child] = {} /\ child \notin holons.rejects
        BY <2>2 DEF BoundaryInv, FrameInv, Blank
    <2>4. ASSUME NEW g \in holons'.rejects
          PROVE  Violated[holons'.scene[g]] \subseteq Overlooked(holons', g)
        <3>1. CASE g = child
            <4>1. holons'.scene[g] = holons'.base[g]
                BY <2>1, <2>3, <3>1 DEF Branched
            <4> QED
                BY <4>1 DEF Overlooked
        <3>2. CASE g # child
            <4>1. g \in holons.rejects
                BY <2>1, <3>2 DEF Branched
            <4>2. /\ holons'.scene[g] = holons.scene[g] /\ holons'.base[g] = holons.base[g]
                  /\ holons'.events[g] = holons.events[g]
                BY <1>0, <2>1, <3>2, <4>1 DEF Branched
            <4>3. Overlooked(holons', g) = Overlooked(holons, g)
                BY <4>2, OverlookedSame
            <4> QED
                BY <2>3, <4>1, <4>2, <4>3 DEF Within
        <3> QED
            BY <3>1, <3>2
    <2> QED
        BY <1>7, <2>2, <2>4 DEF Within
<1>12. ASSUME prepare_run PROVE BoundaryInv'
    BY <1>7, <1>12 DEF prepare_run, BoundaryInv, Within
<1>13. ASSUME CallerBegins PROVE BoundaryInv'
    <2>1. tick.pc = "idle" /\ ~scope_open /\ at_begin' = holons /\ UNCHANGED <<holons, tick, failed>>
        BY <1>13 DEF CallerBegins
    <2>2. Within(holons)
        BY <2>1 DEF FrameInv, BoundaryInv
    <2> QED
        BY <1>7, <2>1, <2>2
<1>14. ASSUME NEW kept \in BOOLEAN, CallerEnds(kept) PROVE BoundaryInv'
    <2>1. /\ tick.pc = "idle" /\ scope_open /\ (kept => ~failed) /\ scope_open' = FALSE
          /\ holons' = (IF kept THEN holons ELSE at_begin) /\ tick' = tick
        BY <1>14 DEF CallerEnds
    <2>2. Within(holons')
        BY <2>1 DEF BoundaryInv
    <2> QED
        BY <1>7, <2>1, <2>2
<1>15. ASSUME Crash PROVE BoundaryInv'
    <2>1. tick' = Idle /\ scope_open' = FALSE /\ holons' = IF scope_open THEN at_begin ELSE holons
        BY <1>15 DEF Crash
    <2>2. Within(holons')
        BY <2>1 DEF BoundaryInv, FrameInv
    <2> QED
        BY <1>7, <2>1, <2>2
<1>16. ASSUME UNCHANGED holon_vars PROVE BoundaryInv'
    <2>1. UNCHANGED <<holons, at_begin, scope_open, failed, tick>>
        BY <1>16 DEF holon_vars
    <2>2. \A g : PriorScene(g)' = PriorScene(g) /\ JustMissed(g)' = JustMissed(g)
        BY <2>1 DEF PriorScene, JustMissed, Undoable, Before, Scene, Here
    <2> QED
        BY <2>1, <2>2 DEF BoundaryInv, Within, Working
<1>17. ASSUME NEW x \in Triple, ApplyAdd(x) \/ ApplyRemove(x) \/ WriteInferred(x) PROVE BoundaryInv'
    BY <1>0, <1>2, <1>17, ChangeSteps
<1>18. ASSUME SkipRules \/ WrongRules \/ AllInferred \/ TickFails PROVE BoundaryInv'
    BY <1>0, <1>3, <1>18, MoveSteps DEF Working, Undoable
<1> QED
    BY <1>1, <1>4, <1>5, <1>6, <1>8, <1>9, <1>10, <1>11, <1>12, <1>13, <1>14, <1>15, <1>16, <1>17, <1>18
       DEF HolonNext

\* Whatever failed, joined, was refused, branched or crashed, each violation a crash would
\* leave in a holon whose boundary rejects was there when the holon began, or the revalidation
\* of an admitted tick was to look at it and overlooked it.
THEOREM BoundaryAlwaysHolds == HolonSpec => []BoundaryHolds
<1>1. HolonInit => FrameInv /\ BoundaryInv
    BY InitFrame, InitBoundary
<1>2. (FrameInv /\ BoundaryInv) /\ [HolonNext]_holon_vars => (FrameInv /\ BoundaryInv)'
    BY NextFrame, NextBoundary
<1>3. FrameInv /\ BoundaryInv => BoundaryHolds
    BY DEF FrameInv, BoundaryInv, BoundaryHolds, Durable, Within
<1> QED
    BY <1>1, <1>2, <1>3, PTL DEF HolonSpec

-----------------------------------------------------------------------------
(* The log, replayed                                                       *)

\* A set of naturals that holds zero and every successor of its members is all of them.
LEMMA Induction ==
    ASSUME NEW S \in SUBSET Nat, 0 \in S, \A n \in S : n + 1 \in S
    PROVE  S = Nat
<1> SUFFICES ASSUME Nat \ S # {} PROVE FALSE
    OBVIOUS
<1> PICK m \in Nat \ S : \A k \in Nat \ S : m <= k
    BY LeastOf
<1>1. m - 1 \in Nat /\ m - 1 \in S
    OBVIOUS
<1> QED
    BY <1>1

\* What an event makes of a scene.
Moved(S, e) == IF e.admitted THEN Net(S, e.changes) ELSE S

\* play[v] is the scene at version v of a holon that began at version from with scene base.
Replay(base, from, to, events, play) ==
    /\ play = [v \in 0..to |-> play[v]]
    /\ \A v \in 0..to :
          play[v] = IF v <= from THEN base ELSE Moved(play[v - 1], EventAt(events, v))

\* There is such a sequence of scenes, ...
LEMMA ReplayExists ==
    ASSUME NEW base, NEW from \in Nat, NEW events, NEW to \in Nat
    PROVE  \E play : Replay(base, from, to, events, play)
<1> DEFINE S == {n \in Nat : \E play : Replay(base, from, n, events, play)}
<1>1. 0 \in S
    <2> DEFINE p == [v \in 0..0 |-> base]
    <2>1. p = [v \in 0..0 |-> p[v]] /\ \A v \in 0..0 : p[v] = base /\ v <= from
        OBVIOUS
    <2> HIDE DEF p
    <2>2. Replay(base, from, 0, events, p)
        BY <2>1 DEF Replay
    <2> QED
        BY <2>2
<1>2. ASSUME NEW n \in Nat, NEW p, Replay(base, from, n, events, p)
      PROVE  \E q : Replay(base, from, n + 1, events, q)
    <2> DEFINE last == IF n + 1 <= from THEN base ELSE Moved(p[n], EventAt(events, n + 1))
               q == [v \in 0..(n + 1) |-> IF v = n + 1 THEN last ELSE p[v]]
    <2> HIDE DEF last
    <2>1. q = [v \in 0..(n + 1) |-> q[v]] /\ q[n + 1] = last /\ \A v \in 0..n : q[v] = p[v]
        OBVIOUS
    <2> HIDE DEF q
    <2>2. ASSUME NEW v \in 0..(n + 1)
          PROVE  q[v] = IF v <= from THEN base ELSE Moved(q[v - 1], EventAt(events, v))
        <3>1. CASE v = n + 1
            <4>1. v - 1 = n /\ n \in 0..n
                BY <3>1
            <4>2. q[v - 1] = p[n]
                BY <2>1, <4>1
            <4> QED
                BY <2>1, <3>1, <4>2 DEF last
        <3>2. CASE v \in 0..n /\ v <= from
            BY <1>2, <2>1, <3>2 DEF Replay
        <3>3. CASE v \in 0..n /\ ~(v <= from)
            <4>1. v - 1 \in 0..n
                BY <3>3
            <4>2. q[v - 1] = p[v - 1] /\ q[v] = p[v]
                BY <2>1, <3>3, <4>1
            <4>3. p[v] = Moved(p[v - 1], EventAt(events, v))
                BY <1>2, <3>3 DEF Replay
            <4> QED
                BY <3>3, <4>2, <4>3
        <3> QED
            BY <3>1, <3>2, <3>3
    <2>3. Replay(base, from, n + 1, events, q)
        BY <2>1, <2>2 DEF Replay
    <2> QED
        BY <2>3
<1>3. ASSUME NEW n \in S PROVE n + 1 \in S
    BY <1>2
<1> HIDE DEF S
<1>4. S = Nat
    <2>1. S \in SUBSET Nat
        BY DEF S
    <2> QED
        BY <1>1, <1>3, <2>1, Induction
<1> QED
    BY <1>4 DEF S

\* ... Replayed is a function of that kind, ...
LEMMA ReplayedIs ==
    ASSUME NEW st, NEW g
    PROVE  Replayed(st, g) =
             (CHOOSE after : after = [v \in 0 .. version(st, g) |->
                 IF v <= st.branched[g] THEN st.base[g]
                 ELSE IF EventAt(st.events[g], v).admitted
                      THEN Net(after[v - 1], EventAt(st.events[g], v).changes)
                      ELSE after[v - 1]])[version(st, g)]
BY DEF Replayed

\* ... and it is where such a sequence ends.
LEMMA ReplayedEnds ==
    ASSUME NEW st \in StoreType, NEW g \in HolonId
    PROVE  \E play : /\ Replay(st.base[g], st.branched[g], version(st, g), st.events[g], play)
                     /\ Replayed(st, g) = play[version(st, g)]
<1> DEFINE n == version(st, g)
           base == st.base[g]
           from == st.branched[g]
           events == st.events[g]
           Rec(p) == p = [v \in 0..n |-> IF v <= from THEN base
                                         ELSE IF EventAt(events, v).admitted
                                              THEN Net(p[v - 1], EventAt(events, v).changes)
                                              ELSE p[v - 1]]
           after == CHOOSE p : Rec(p)
<1>1. Replayed(st, g) = after[n]
    BY ReplayedIs, Zenon
<1>2. n \in Nat /\ from \in Nat
    BY VersionIs DEF StoreType
<1> HIDE DEF n, base, from, events
<1>3. PICK p : Replay(base, from, n, events, p)
    BY <1>2, ReplayExists
<1>4. Rec(p)
    <2>1. p = [v \in 0..n |-> p[v]]
        BY <1>3, Zenon DEF Replay
    <2>2. \A v \in 0..n : p[v] = IF v <= from THEN base
                                 ELSE IF EventAt(events, v).admitted
                                      THEN Net(p[v - 1], EventAt(events, v).changes)
                                      ELSE p[v - 1]
        BY <1>3, Zenon DEF Replay, Moved
    <2> QED
        BY <2>1, <2>2, Zenon
<1>5. Rec(after)
    BY <1>4, Zenon
<1> HIDE DEF after
<1>6. after = [v \in 0..n |-> after[v]]
    BY <1>5
<1>7. \A v \in 0..n : after[v] = IF v <= from THEN base
                                 ELSE IF EventAt(events, v).admitted
                                      THEN Net(after[v - 1], EventAt(events, v).changes)
                                      ELSE after[v - 1]
    BY <1>5, Zenon
<1>8. Replay(base, from, n, events, after)
    BY <1>6, <1>7, Zenon DEF Replay, Moved
<1>9. \E play : Replay(base, from, n, events, play) /\ Replayed(st, g) = play[n]
    BY <1>1, <1>8
<1> QED
    BY <1>9 DEF n, base, from, events

\* Two logs that agree on the events they share are replayed alike up to there.
LEMMA ReplayAgrees ==
    ASSUME NEW base, NEW from \in Nat, NEW n \in Nat, NEW m \in Nat, n <= m, NEW E, NEW F,
           NEW p, Replay(base, from, n, E, p), NEW q, Replay(base, from, m, F, q),
           \A v \in 0..n : v > from => EventAt(E, v) = EventAt(F, v)
    PROVE  \A v \in 0..n : p[v] = q[v]
<1> DEFINE S == {v \in Nat : v <= n => p[v] = q[v]}
<1>1. \A v \in 0..n : v \in 0..m
    OBVIOUS
<1>2. ASSUME NEW v \in 0..n, v <= from PROVE p[v] = q[v]
    BY <1>1, <1>2 DEF Replay
<1>3. 0 \in S
    BY <1>2
<1>4. ASSUME NEW v \in Nat, v + 1 <= n, p[v] = q[v] PROVE p[v + 1] = q[v + 1]
    <2>1. v + 1 \in 0..n /\ v + 1 \in 0..m /\ (v + 1) - 1 = v
        BY <1>4
    <2>2. CASE v + 1 <= from
        BY <1>2, <2>1, <2>2
    <2>3. CASE ~(v + 1 <= from)
        <3>1. p[v + 1] = Moved(p[(v + 1) - 1], EventAt(E, v + 1))
            BY <2>1, <2>3, Zenon DEF Replay
        <3>2. q[v + 1] = Moved(q[(v + 1) - 1], EventAt(F, v + 1))
            BY <2>1, <2>3, Zenon DEF Replay
        <3>3. v + 1 > from
            BY <2>3
        <3>4. EventAt(E, v + 1) = EventAt(F, v + 1)
            BY <2>1, <3>3
        <3> QED
            BY <1>4, <2>1, <3>1, <3>2, <3>4, Zenon
    <2> QED
        BY <2>2, <2>3
<1>5. ASSUME NEW v \in S PROVE v + 1 \in S
    BY <1>4
<1> HIDE DEF S
<1>6. S = Nat
    <2>1. S \in SUBSET Nat
        BY DEF S
    <2> QED
        BY <1>3, <1>5, <2>1, Induction
<1> QED
    BY <1>6 DEF S

\* The event of a version is the one that has it.
LEMMA EventAtIs ==
    ASSUME NEW E, NEW e \in E, \A f \in E : f.version = e.version => f = e
    PROVE  EventAt(E, e.version) = e
BY DEF EventAt

\* A holon has one version row or none, and an event for each version since it began.
LogOf(st, g) ==
    /\ st.versions[g] = {} \/ \E v \in Nat \ {0} : st.versions[g] = {v}
    /\ st.branched[g] <= version(st, g)
    /\ {e.version : e \in st.events[g]} = (st.branched[g] + 1) .. version(st, g)
    /\ \A e, f \in st.events[g] : e.version = f.version => e = f

Log(st) == \A g \in HolonId : ~Stuck(st, g) => LogOf(st, g)

\* Holons with the same log and the same start are replayed alike.
LEMMA ReplayedSame ==
    ASSUME NEW st \in StoreType, NEW u \in StoreType, NEW g \in HolonId,
           u.versions[g] = st.versions[g], u.branched[g] = st.branched[g],
           u.base[g] = st.base[g], u.events[g] = st.events[g]
    PROVE  /\ version(u, g) = version(st, g) /\ Replayed(u, g) = Replayed(st, g)
           /\ LogOf(st, g) => LogOf(u, g)
           /\ Stuck(u, g) <=> Stuck(st, g)
<1> DEFINE n == version(st, g)
<1>0. version(u, g) = n
    BY DEF version
<1>a. n \in Nat
    BY VersionIs
<1>1. version(u, g) = n /\ n \in Nat /\ st.branched[g] \in Nat /\ n \in 0..n
    BY <1>0, <1>a DEF StoreType
<1> HIDE DEF n
<1>2. PICK p : Replay(st.base[g], st.branched[g], n, st.events[g], p) /\ Replayed(st, g) = p[n]
    BY ReplayedEnds DEF n
<1>3. PICK q : Replay(st.base[g], st.branched[g], n, st.events[g], q) /\ Replayed(u, g) = q[n]
    BY <1>1, ReplayedEnds
<1>4. p[n] = q[n]
    BY <1>1, <1>2, <1>3, ReplayAgrees
<1>5. (LogOf(st, g) => LogOf(u, g)) /\ (Stuck(u, g) <=> Stuck(st, g))
    BY <1>1 DEF LogOf, n, Stuck
<1> QED
    BY <1>1, <1>2, <1>3, <1>4, <1>5 DEF n

\* A version more, and its event.
LEMMA RecordedLog ==
    ASSUME NEW st \in StoreType, NEW h \in HolonId, LogOf(st, h), NEW e \in Event,
           e.version = version(st, h) + 1, NEW u, Recorded(u, st, h, e)
    PROVE  /\ LogOf(u, h) /\ version(u, h) = version(st, h) + 1
           /\ e \notin st.events[h]
           /\ Replayed(u, h) = Moved(Replayed(st, h), e)
<1> DEFINE n == version(st, h)
           E == st.events[h]
           from == st.branched[h]
<1>0. /\ n \in Nat /\ from \in Nat /\ n + 1 \in Nat \ {0} /\ u \in StoreType /\ E \in SUBSET Event
      /\ e.version = n + 1
    BY VersionIs DEF StoreType, Recorded
<1>1. u.versions[h] = {n + 1}
    <2>1. u.versions[h] = RowsAfter(st, h, n + 1)
        BY <1>0 DEF Recorded
    <2>2. CASE st.versions[h] = {}
        BY <2>1, <2>2, VersionIs DEF RowsAfter
    <2>3. ASSUME NEW v \in Nat \ {0}, st.versions[h] = {v} PROVE u.versions[h] = {n + 1}
        <3>1. n = v
            BY <2>3, VersionIs
        <3> QED
            BY <2>1, <2>3, <3>1 DEF RowsAfter
    <2> QED
        BY <2>2, <2>3 DEF LogOf
<1>2. version(u, h) = n + 1
    BY <1>0, <1>1, VersionIs
<1>3. /\ {f.version : f \in E} = (from + 1)..n /\ from <= n
      /\ \A f, k \in E : f.version = k.version => f = k
    BY DEF LogOf
<1>4. u.events[h] = E \cup {e} /\ u.branched[h] = from /\ u.base[h] = st.base[h]
    BY DEF Recorded
<1> HIDE DEF n, E, from
<1>5. \A f \in E : f.version \in (from + 1)..n /\ f.version # e.version
    <2>1. \A f \in E : f.version \in (from + 1)..n
        BY <1>3
    <2> QED
        BY <1>0, <2>1
<1>6. \A f, k \in E \cup {e} : f.version = k.version => f = k
    BY <1>3, <1>5
<1>7. {f.version : f \in E \cup {e}} = (from + 1)..(n + 1)
    <2>1. {f.version : f \in E \cup {e}} = {f.version : f \in E} \cup {e.version}
        OBVIOUS
    <2>2. (from + 1)..(n + 1) = ((from + 1)..n) \cup {n + 1}
        BY <1>0, <1>3
    <2> QED
        BY <1>0, <1>3, <2>1, <2>2
<1>8. LogOf(u, h)
    BY <1>0, <1>1, <1>2, <1>3, <1>4, <1>6, <1>7 DEF LogOf
<1>9. PICK p : Replay(st.base[h], from, n, E, p) /\ Replayed(st, h) = p[n]
    BY ReplayedEnds DEF n, E, from
<1>10. PICK q : Replay(st.base[h], from, n + 1, E \cup {e}, q) /\ Replayed(u, h) = q[n + 1]
    BY <1>0, <1>2, <1>4, ReplayedEnds
<1>11. ASSUME NEW v \in 0..n, v > from PROVE EventAt(E, v) = EventAt(E \cup {e}, v)
    <2>1. v \in (from + 1)..n
        BY <1>0, <1>11
    <2>2. PICK f \in E : f.version = v
        BY <1>3, <2>1
    <2>3. EventAt(E, f.version) = f
        BY <1>3, EventAtIs
    <2>4. EventAt(E \cup {e}, f.version) = f
        BY <1>6, EventAtIs
    <2> QED
        BY <2>2, <2>3, <2>4
<1>12. p[n] = q[n]
    <2> DEFINE m == n + 1
               F == E \cup {e}
               base == st.base[h]
    <2>1. /\ n <= m /\ n \in 0..n /\ m \in Nat
          /\ Replay(base, from, n, E, p) /\ Replay(base, from, m, F, q)
          /\ \A v \in 0..n : v > from => EventAt(E, v) = EventAt(F, v)
        BY <1>0, <1>9, <1>10, <1>11
    <2> HIDE DEF m, F, base
    <2>2. n \in Nat /\ from \in Nat
        BY <1>0
    <2>3. \A v \in 0..n : p[v] = q[v]
        BY ONLY <2>1, <2>2, ReplayAgrees
    <2> QED
        BY <2>1, <2>3
<1>13. q[n + 1] = Moved(q[n], EventAt(E \cup {e}, n + 1))
    <2>1. n + 1 \in 0..(n + 1) /\ ~(n + 1 <= from) /\ (n + 1) - 1 = n
        BY <1>0, <1>3
    <2>2. q[n + 1] = Moved(q[(n + 1) - 1], EventAt(E \cup {e}, n + 1))
        BY <1>10, <2>1, Zenon DEF Replay
    <2> QED
        BY <2>1, <2>2, Zenon
<1>14. EventAt(E \cup {e}, n + 1) = e
    <2>1. EventAt(E \cup {e}, e.version) = e
        BY <1>6, EventAtIs
    <2> QED
        BY <1>0, <2>1
<1>15. Replayed(u, h) = Moved(Replayed(st, h), e)
    BY <1>9, <1>10, <1>12, <1>13, <1>14
<1>16. e \notin E
    BY <1>5
<1> QED
    BY <1>2, <1>8, <1>15, <1>16 DEF n, E

\* A branch begins with nothing to replay.
LEMMA BranchedLog ==
    ASSUME NEW u \in StoreType, NEW h \in HolonId, NEW v \in Nat \ {0},
           u.versions[h] = {v}, u.branched[h] = v, u.events[h] = {}
    PROVE  LogOf(u, h) /\ Replayed(u, h) = u.base[h]
<1>1. version(u, h) = v
    BY VersionIs
<1>2. (v + 1)..v = {}
    OBVIOUS
<1>3. LogOf(u, h)
    BY <1>1, <1>2 DEF LogOf
<1>4. PICK p : Replay(u.base[h], v, v, u.events[h], p) /\ Replayed(u, h) = p[v]
    BY <1>1, ReplayedEnds
<1>5. v \in 0..v /\ v <= v
    OBVIOUS
<1>6. p[v] = u.base[h]
    BY <1>4, <1>5 DEF Replay
<1> QED
    BY <1>3, <1>4, <1>6

\* The log of every holon, but those branched at version 0, is whole and tells its scene.
Told(st) == Log(st) /\ \A g \in HolonId : ~Stuck(st, g) => Replayed(st, g) = st.scene[g]

\* Between ticks, and in what a failure goes back to, the logs tell the scenes; during a
\* tick they tell what the scenes were before it, and the tick holds the next version.
LogInv ==
    /\ scope_open => Told(at_begin)
    /\ tick.pc = "idle" /\ ~failed => Told(holons)
    /\ Working => /\ Log(holons)
                  /\ tick.version = version(holons, Here) + 1
                  /\ \A g \in HolonId : ~Stuck(holons, g) => Replayed(holons, g) = PriorScene(g)
    /\ tick.pc = "end" /\ tick.ok => Told(holons)

\* A new store's logs are empty.
LEMMA ToldNew == Told(NewStore)
<1>1. ASSUME NEW g \in HolonId PROVE LogOf(NewStore, g) /\ Replayed(NewStore, g) = NewStore.scene[g]
    <2> DEFINE st == NewStore
    <2>1. st \in StoreType
        BY NewStoreType
    <2>2. /\ st.versions[g] = {} /\ st.branched[g] = 0 /\ st.events[g] = {} /\ st.base[g] = {}
          /\ st.scene[g] = {}
        BY DEF NewStore
    <2> HIDE DEF st
    <2>3. version(st, g) = 0
        BY <2>1, <2>2, VersionIs
    <2>4. LogOf(st, g)
        <3>1. {e.version : e \in st.events[g]} = {} /\ (0 + 1) .. 0 = {}
            BY <2>2
        <3> QED
            BY <2>2, <2>3, <3>1 DEF LogOf
    <2>5. PICK p : Replay(st.base[g], st.branched[g], 0, st.events[g], p) /\ Replayed(st, g) = p[0]
        BY <2>1, <2>3, ReplayedEnds
    <2>6. p[0] = st.base[g]
        BY <2>2, <2>5 DEF Replay
    <2>7. LogOf(st, g) /\ Replayed(st, g) = st.scene[g]
        BY <2>2, <2>4, <2>5, <2>6
    <2> QED
        BY <2>7 DEF st
<1> QED
    BY <1>1 DEF Told, Log

\* It all begins with empty logs.
LEMMA InitLog == HolonInit => LogInv
<1> SUFFICES ASSUME HolonInit PROVE LogInv
    OBVIOUS
<1>1. holons = NewStore /\ tick.pc = "idle" /\ ~scope_open
    BY DEF HolonInit, Idle
<1> QED
    BY <1>1, ToldNew DEF LogInv, Working

\* Every step keeps the logs.
LEMMA NextLog ==
    ASSUME FrameInv, LogInv, [HolonNext]_holon_vars
    PROVE  LogInv'
<1>0. /\ Typed /\ holons \in StoreType /\ at_begin \in StoreType /\ Here \in HolonId
    <2>1. Typed /\ holons \in StoreType /\ at_begin \in StoreType /\ tick \in TickType
        BY DEF FrameInv, Typed
    <2> QED
        BY <2>1 DEF TickType, Here
<1>1. ASSUME NEW holon \in HolonId, NEW rules \in BOOLEAN, NEW delta \in SmallDelta,
             begin_commit(holon, rules, delta[1], delta[2])
      PROVE  LogInv'
    <2>1. delta[1] \in SUBSET Triple /\ delta[2] \in SUBSET Triple
        BY DEF SmallDelta
    <2>2. /\ tick.pc = "idle" /\ ~failed
          /\ tick'.pc = "apply" /\ tick'.holon = holon /\ tick'.applied = <<>>
          /\ tick'.version = version(holons, holon) + 1
          /\ scope_open' = TRUE /\ at_begin' = (IF scope_open THEN at_begin ELSE holons) /\ holons' = holons
        BY <1>0, <1>1, <2>1, BeginStep
    <2>3. Here' = holon /\ Scene' = holons.scene[holon] /\ holons.scene[holon] \in SUBSET Triple
        BY <1>0, <2>2 DEF Here, Scene, StoreType
    <2>4. Before' = Scene'
        <3>1. Took(<<>>, holons.scene[holon], holons.scene[holon])
            BY <2>3, TookNothing
        <3>2. Net(holons.scene[holon], InverseOf(<<>>)) = holons.scene[holon]
            BY <3>1, TookBack
        <3> QED
            BY <2>2, <2>3, <3>2 DEF Before
    <2>5. \A g : PriorScene(g)' = holons.scene[g]
        BY <2>2, <2>3, <2>4 DEF PriorScene
    <2>6. Told(holons) /\ Told(at_begin')
        BY <2>2 DEF LogInv
    <2> QED
        BY <2>2, <2>3, <2>5, <2>6 DEF LogInv, Told
<1>2. ASSUME NEW S, Rescened(holons', holons, Here, S), Here' = Here, tick'.version = tick.version,
             Working, Working', \A g \in HolonId : PriorScene(g)' = PriorScene(g),
             UNCHANGED <<scope_open, at_begin>>
      PROVE  LogInv'
    <2>1. ASSUME NEW g \in HolonId
          PROVE  /\ version(holons', g) = version(holons, g) /\ Replayed(holons', g) = Replayed(holons, g)
                 /\ LogOf(holons, g) => LogOf(holons', g)
                 /\ Stuck(holons', g) <=> Stuck(holons, g)
        <3>1. /\ holons' \in StoreType
              /\ holons'.versions[g] = holons.versions[g] /\ holons'.branched[g] = holons.branched[g]
              /\ holons'.base[g] = holons.base[g] /\ holons'.events[g] = holons.events[g]
            BY <1>2 DEF Rescened
        <3> QED
            BY <1>0, <3>1, ReplayedSame
    <2>2. /\ Log(holons) /\ tick.version = version(holons, Here) + 1
          /\ \A g \in HolonId : ~Stuck(holons, g) => Replayed(holons, g) = PriorScene(g)
        BY <1>2 DEF LogInv
    <2>3. Log(holons')
        BY <2>1, <2>2 DEF Log
    <2>4. /\ tick'.version = version(holons', Here') + 1
          /\ \A g \in HolonId : ~Stuck(holons', g) => Replayed(holons', g) = PriorScene(g)'
        BY <1>0, <1>2, <2>1, <2>2
    <2>5. tick'.pc # "idle" /\ tick'.pc # "end"
        BY <1>2 DEF Working
    <2> QED
        BY <1>2, <2>3, <2>4, <2>5 DEF LogInv
<1>3. ASSUME NEW x \in Triple, NEW b \in BOOLEAN, ChangeStep(x, b), tick.pc \in {"apply", "infer"}
      PROVE  LogInv'
    <2>1. Undoable /\ Working /\ Undoable' /\ Working'
        BY <1>3 DEF Undoable, Working, ChangeStep
    <2>2. /\ \E S : Rescened(holons', holons, Here, S)
          /\ Here' = Here /\ Before' = Before
        BY <1>3, <2>1, ChangeStepGives
    <2>3. \A g \in HolonId : PriorScene(g)' = PriorScene(g)
        BY <2>1, <2>2 DEF PriorScene, Rescened
    <2>4. UNCHANGED <<scope_open, at_begin>> /\ tick'.version = tick.version
        BY <1>3 DEF ChangeStep
    <2> QED
        BY <1>2, <2>1, <2>2, <2>3, <2>4
<1>4. ASSUME NEW p \in {"infer", "validate", "end"}, MoveStep(p),
             Undoable \/ p = "end", Working
      PROVE  LogInv'
    <2>1. /\ UNCHANGED <<holons, at_begin, scope_open>> /\ tick'.pc = p /\ tick'.version = tick.version
          /\ tick'.ok = tick.ok /\ tick'.holon = tick.holon /\ tick'.applied = tick.applied
        BY <1>4 DEF MoveStep
    <2>2. ~tick.ok
        BY <1>4 DEF FrameInv
    <2>3. CASE p = "end"
        BY <2>1, <2>2, <2>3 DEF LogInv, Working
    <2>4. CASE p # "end"
        <3>1. Undoable /\ Undoable'
            BY <1>4, <2>1, <2>4 DEF Undoable
        <3>2. Here' = Here /\ Before' = Before
            BY <2>1 DEF Here, Scene, Before
        <3>3. \A g : PriorScene(g)' = PriorScene(g)
            BY <2>1, <3>1, <3>2 DEF PriorScene
        <3> QED
            BY <1>4, <2>1, <2>4, <3>2, <3>3 DEF LogInv, Working
    <2> QED
        BY <2>3, <2>4
<1>5. ASSUME fire_rules PROVE LogInv'
    <2>1. MoveStep("infer") /\ Undoable /\ Working
        BY <1>0, <1>5, FireStep DEF Undoable, Working
    <2> QED
        BY <1>4, <2>1
<1>6. ASSUME validate PROVE LogInv'
    <2>1. /\ tick.pc = "validate" /\ tick'.pc = "record"
          /\ tick'.holon = tick.holon /\ tick'.applied = tick.applied /\ tick'.version = tick.version
          /\ UNCHANGED <<at_begin, scope_open>>
          /\ tick'.admitted => holons' = holons
          /\ ~tick'.admitted => holons' = [holons EXCEPT !.scene[Here] = Before]
        BY <1>0, <1>6, ValidateStep
    <2>2. Undoable /\ Working /\ Working' /\ Here' = Here /\ Took(tick.applied, Before, Scene)
        BY <2>1 DEF Undoable, Working, FrameInv, Here
    <2>3. Before \in SUBSET Triple
        BY <2>2 DEF Took
    <2>4. CASE tick'.admitted
        <3>1. holons' = holons /\ Scene' = Scene /\ Before' = Before /\ Undoable'
            BY <2>1, <2>2, <2>4 DEF Scene, Before, Undoable
        <3>2. \A g : PriorScene(g)' = PriorScene(g)
            BY <2>2, <3>1 DEF PriorScene
        <3> QED
            BY <2>1, <2>2, <3>1, <3>2 DEF LogInv, Working
    <2>5. CASE ~tick'.admitted
        <3>1. Rescened(holons', holons, Here, Before)
            BY <1>0, <2>1, <2>3, <2>5, RescenedIs
        <3>2. ~Undoable'
            BY <2>1, <2>5 DEF Undoable
        <3>3. \A g \in HolonId : PriorScene(g)' = PriorScene(g)
            BY <2>2, <3>1, <3>2 DEF PriorScene, Rescened
        <3> QED
            BY <1>2, <2>1, <2>2, <3>1, <3>3
    <2> QED
        BY <2>4, <2>5
<1>7. ASSUME record PROVE LogInv'
    <2>1. /\ Event0 \in Event /\ Recorded(holons', holons, Here, Event0)
          /\ tick.pc = "record" /\ tick'.pc = "end" /\ UNCHANGED <<at_begin, scope_open>>
        BY <1>0, <1>7, RecordStep
    <2>2. /\ Log(holons) /\ tick.version = version(holons, Here) + 1
          /\ \A g \in HolonId : ~Stuck(holons, g) => Replayed(holons, g) = PriorScene(g)
        BY <2>1 DEF LogInv, Working
    <2>3. /\ Event0.version = tick.version /\ Event0.admitted = tick.admitted
          /\ Event0.changes = tick.applied
        BY DEF Event0
    <2>8. ASSUME ~Stuck(holons', Here) PROVE ~Stuck(holons, Here)
        <3>1. Stuck(holons, Here) => 0 \in holons.versions[Here] /\ version(holons, Here) = 0
            BY <1>0, VersionIs DEF Stuck
        <3>2. holons.versions[Here] \subseteq holons'.versions[Here] \/ version(holons, Here) # 0
            BY <2>1 DEF Recorded, RowsAfter
        <3> QED
            BY <2>8, <3>1, <3>2 DEF Stuck
    <2>4. ASSUME ~Stuck(holons', Here)
          PROVE  /\ LogOf(holons', Here)
                 /\ Replayed(holons', Here) = Moved(Replayed(holons, Here), Event0)
        <3>1. LogOf(holons, Here)
            BY <1>0, <2>2, <2>4, <2>8 DEF Log
        <3>2. Event0.version = version(holons, Here) + 1
            BY <2>2, <2>3
        <3> HIDE DEF Event0
        <3> QED
            BY <1>0, <2>1, <3>1, <3>2, RecordedLog
    <2>5. ASSUME ~Stuck(holons', Here) PROVE Replayed(holons', Here) = holons'.scene[Here]
        <3>0. Replayed(holons, Here) = PriorScene(Here) /\ Replayed(holons', Here) = Moved(Replayed(holons, Here), Event0)
            BY <1>0, <2>2, <2>4, <2>5, <2>8
        <3>1. holons'.scene[Here] = Scene
            BY <2>1 DEF Recorded, Scene
        <3>2. CASE tick.admitted
            <4>1. Undoable /\ PriorScene(Here) = Before
                BY <2>1, <3>2 DEF Undoable, PriorScene
            <4>2. Net(Before, tick.applied) = Scene
                BY <4>1, TookForward DEF FrameInv
            <4> QED
                BY <2>3, <3>0, <3>1, <3>2, <4>1, <4>2 DEF Moved
        <3>3. CASE ~tick.admitted
            <4>1. PriorScene(Here) = Scene
                BY <2>1, <3>3 DEF Undoable, PriorScene, Scene
            <4> QED
                BY <2>3, <3>0, <3>1, <3>3, <4>1 DEF Moved
        <3> QED
            BY <3>2, <3>3
    <2>6. ASSUME NEW g \in HolonId, g # Here, ~Stuck(holons', g)
          PROVE  LogOf(holons', g) /\ Replayed(holons', g) = holons'.scene[g]
        <3>1. /\ holons' \in StoreType /\ holons'.scene[g] = holons.scene[g]
              /\ holons'.versions[g] = holons.versions[g] /\ holons'.branched[g] = holons.branched[g]
              /\ holons'.base[g] = holons.base[g] /\ holons'.events[g] = holons.events[g]
            BY <2>1, <2>6 DEF Recorded
        <3>2. Replayed(holons', g) = Replayed(holons, g) /\ LogOf(holons', g) /\ ~Stuck(holons, g)
            BY <1>0, <2>2, <2>6, <3>1, ReplayedSame DEF Log
        <3>3. PriorScene(g) = holons.scene[g]
            BY <2>6 DEF PriorScene
        <3> QED
            BY <2>2, <2>6, <3>1, <3>2, <3>3
    <2>7. Told(holons')
        BY <2>4, <2>5, <2>6 DEF Told, Log
    <2> QED
        BY <2>1, <2>7 DEF LogInv, Working
<1>8. ASSUME tick' = Idle \/ (tick' = tick /\ tick.pc = "idle"),
             scope_open' => Told(at_begin'), ~failed' => Told(holons')
      PROVE  LogInv'
    <2>1. tick'.pc = "idle"
        BY <1>8 DEF Idle
    <2> QED
        BY <1>8, <2>1 DEF LogInv, Working
<1>9. ASSUME end_commit PROVE LogInv'
    <2>1. /\ tick' = Idle /\ tick.pc = "end"
          /\ holons' = (IF tick.owned /\ ~tick.ok THEN at_begin ELSE holons)
          /\ at_begin' = (IF tick.owned THEN NewStore ELSE at_begin)
          /\ scope_open' = ~tick.owned /\ failed' = (~tick.owned /\ ~tick.ok)
        BY <1>9 DEF end_commit
    <2>2. scope_open
        BY <2>1 DEF FrameInv
    <2>3. Told(at_begin) /\ (tick.ok => Told(holons))
        BY <2>1, <2>2 DEF LogInv
    <2>4. scope_open' => Told(at_begin')
        BY <2>1, <2>3
    <2>5. ~failed' => Told(holons')
        BY <2>1, <2>3
    <2> QED
        BY <1>8, <2>1, <2>4, <2>5
<1>10. ASSUME TickRefused PROVE LogInv'
    <2>1. tick' = Idle /\ holons' = at_begin /\ scope_open' = FALSE /\ tick.pc = "end"
        BY <1>10 DEF TickRefused
    <2>2. Told(at_begin)
        BY <2>1 DEF FrameInv, LogInv
    <2> QED
        BY <1>8, <2>1, <2>2
<1>11. ASSUME NEW holon \in HolonId, NEW reject \in BOOLEAN, register(holon, reject) PROVE LogInv'
    <2>1. Registered(holons', holons, holon)
        BY <1>0, <1>11, RegisteredIs
    <2>2. /\ tick' = tick /\ tick.pc = "idle" /\ UNCHANGED <<at_begin, scope_open, failed>> /\ ~scope_open
        BY <1>11 DEF register
    <2>3. Told(holons)
        BY <2>2 DEF LogInv, FrameInv
    <2>4. ASSUME NEW g \in HolonId, ~Stuck(holons', g)
          PROVE  LogOf(holons', g) /\ Replayed(holons', g) = holons'.scene[g]
        <3>1. /\ holons' \in StoreType /\ holons'.scene = holons.scene
              /\ holons'.versions[g] = holons.versions[g] /\ holons'.branched[g] = holons.branched[g]
              /\ holons'.base[g] = holons.base[g] /\ holons'.events[g] = holons.events[g]
            BY <2>1 DEF Registered
        <3> QED
            BY <1>0, <2>3, <2>4, <3>1, ReplayedSame DEF Told, Log
    <2> QED
        BY <1>8, <2>2, <2>4 DEF Told, Log
<1>12. ASSUME NEW source \in HolonId, NEW child \in HolonId, branch(source, child) PROVE LogInv'
    <2>1. Branched(holons', holons, source, child)
        BY <1>0, <1>12, BranchedIs
    <2>2. /\ tick' = tick /\ tick.pc = "idle" /\ child \notin holons.registered
          /\ UNCHANGED <<at_begin, scope_open, failed>> /\ ~scope_open
        BY <1>12 DEF branch
    <2>3. Told(holons) /\ holons.scene[child] = {} /\ holons.versions[child] = {} /\ holons.events[child] = {}
        BY <2>2 DEF LogInv, FrameInv, Blank
    <2>4. version(holons, source) \in Nat /\ version(holons, child) = 0
        BY <1>0, <2>2, <2>3, VersionIs
    <2>5. ASSUME ~Stuck(holons', child)
          PROVE  LogOf(holons', child) /\ Replayed(holons', child) = holons'.scene[child]
        <3>1. /\ holons' \in StoreType /\ holons'.events[child] = {}
              /\ holons'.branched[child] = version(holons, source)
              /\ holons'.base[child] = holons.scene[source] /\ holons'.scene[child] = holons.scene[source]
            BY <2>1, <2>3 DEF Branched
        <3>2. holons'.versions[child] = {version(holons, source)}
            BY <2>1, <2>3, <2>4 DEF Branched, RowsAfter
        <3>3. version(holons, source) \in Nat \ {0}
            BY <2>4, <2>5, <3>2 DEF Stuck
        <3> QED
            BY <3>1, <3>2, <3>3, BranchedLog
    <2>6. ASSUME NEW g \in HolonId, g # child, ~Stuck(holons', g)
          PROVE  LogOf(holons', g) /\ Replayed(holons', g) = holons'.scene[g]
        <3>1. /\ holons' \in StoreType /\ holons'.scene[g] = holons.scene[g]
              /\ holons'.versions[g] = holons.versions[g] /\ holons'.branched[g] = holons.branched[g]
              /\ holons'.base[g] = holons.base[g] /\ holons'.events[g] = holons.events[g]
            BY <2>1, <2>6 DEF Branched
        <3> QED
            BY <1>0, <2>3, <2>6, <3>1, ReplayedSame DEF Told, Log
    <2> QED
        BY <1>8, <2>2, <2>5, <2>6 DEF Told, Log
<1>13. ASSUME prepare_run PROVE LogInv'
    BY <1>8, <1>13 DEF prepare_run, LogInv
<1>14. ASSUME CallerBegins PROVE LogInv'
    <2>1. tick.pc = "idle" /\ ~scope_open /\ at_begin' = holons /\ UNCHANGED <<holons, tick, failed>>
        BY <1>14 DEF CallerBegins
    <2>2. Told(holons)
        BY <2>1 DEF FrameInv, LogInv
    <2> QED
        BY <1>8, <2>1, <2>2
<1>15. ASSUME NEW kept \in BOOLEAN, CallerEnds(kept) PROVE LogInv'
    <2>1. /\ tick.pc = "idle" /\ scope_open /\ (kept => ~failed) /\ scope_open' = FALSE
          /\ holons' = (IF kept THEN holons ELSE at_begin) /\ tick' = tick
        BY <1>15 DEF CallerEnds
    <2>2. Told(holons')
        BY <2>1 DEF LogInv
    <2> QED
        BY <1>8, <2>1, <2>2
<1>16. ASSUME Crash PROVE LogInv'
    <2>1. tick' = Idle /\ scope_open' = FALSE /\ holons' = IF scope_open THEN at_begin ELSE holons
        BY <1>16 DEF Crash
    <2>2. Told(holons')
        BY <2>1 DEF LogInv, FrameInv
    <2> QED
        BY <1>8, <2>1, <2>2
<1>17. ASSUME UNCHANGED holon_vars PROVE LogInv'
    <2>1. UNCHANGED <<holons, at_begin, scope_open, failed, tick>>
        BY <1>17 DEF holon_vars
    <2>2. \A g : PriorScene(g)' = PriorScene(g)
        BY <2>1 DEF PriorScene, Undoable, Before, Scene, Here
    <2> QED
        BY <2>1, <2>2 DEF LogInv, Working, Here
<1>18. ASSUME NEW x \in Triple, ApplyAdd(x) \/ ApplyRemove(x) \/ WriteInferred(x) PROVE LogInv'
    BY <1>0, <1>3, <1>18, ChangeSteps
<1>19. ASSUME SkipRules \/ WrongRules \/ AllInferred \/ TickFails PROVE LogInv'
    BY <1>0, <1>4, <1>19, MoveSteps DEF Working, Undoable
<1> QED
    BY <1>1, <1>5, <1>6, <1>7, <1>9, <1>10, <1>11, <1>12, <1>13, <1>14, <1>15, <1>16, <1>17, <1>18, <1>19
       DEF HolonNext

\* What a crash would leave has one event for each version of each holon, whatever failed,
\* was refused, joined or branched, but for the holons branched at version 0.
THEOREM AlwaysOneEventPerVersion == HolonSpec => []OneEventPerVersion
<1>1. HolonInit => FrameInv /\ LogInv
    BY InitFrame, InitLog
<1>2. (FrameInv /\ LogInv) /\ [HolonNext]_holon_vars => (FrameInv /\ LogInv)'
    BY NextFrame, NextLog
<1>3. FrameInv /\ LogInv => OneEventPerVersion
    <2> SUFFICES ASSUME FrameInv, LogInv PROVE OneEventPerVersion
        OBVIOUS
    <2>1. Log(Durable)
        BY DEF FrameInv, LogInv, Told, Durable
    <2> QED
        BY <2>1 DEF OneEventPerVersion, TickCounts, Log, LogOf
<1> QED
    BY <1>1, <1>2, <1>3, PTL DEF HolonSpec

\* With the same exception, replaying what the log says was admitted gives the scene, at
\* every instant a crash could come.
THEOREM LogAlwaysTellsScene == HolonSpec => []LogTellsScene
<1>1. HolonInit => FrameInv /\ LogInv
    BY InitFrame, InitLog
<1>2. (FrameInv /\ LogInv) /\ [HolonNext]_holon_vars => (FrameInv /\ LogInv)'
    BY NextFrame, NextLog
<1>3. FrameInv /\ LogInv => LogTellsScene
    <2> SUFFICES ASSUME FrameInv, LogInv PROVE LogTellsScene
        OBVIOUS
    <2>1. Told(Durable)
        BY DEF FrameInv, LogInv, Durable
    <2> QED
        BY <2>1 DEF LogTellsScene, Told
<1> QED
    BY <1>1, <1>2, <1>3, PTL DEF HolonSpec

-----------------------------------------------------------------------------
(* The bridge                                                              *)

\* The ruled scene goes back to what it was when the scope began, unless a tick has been
\* recorded since; a tick's own scope holds nothing but that tick.
GrowInv ==
    /\ Ruled \in holons.registered /\ Ruled \in at_begin.registered
    /\ ~Stuck(holons, Ruled) /\ ~Stuck(at_begin, Ruled)
    /\ scope_open => at_begin.events[Ruled] \subseteq holons.events[Ruled]
    /\ scope_open /\ tick.pc = "idle" /\ ~failed /\ holons.events[Ruled] = at_begin.events[Ruled]
          => at_begin.scene[Ruled] = holons.scene[Ruled]
    /\ Working /\ holons.events[Ruled] = at_begin.events[Ruled] => at_begin.scene[Ruled] = PriorScene(Ruled)
    /\ tick.pc # "idle" /\ tick.owned /\ ~tick.ok => holons.events[Ruled] = at_begin.events[Ruled]
    /\ tick.pc = "end" /\ tick.ok /\ holons.events[Ruled] = at_begin.events[Ruled]
          => at_begin.scene[Ruled] = holons.scene[Ruled]
    /\ tick.pc # "idle" /\ tick.owned /\ Here # Ruled => at_begin.scene[Ruled] = holons.scene[Ruled]

\* It all begins with the ruled holon.
LEMMA InitGrow == HolonInit => GrowInv
<1> SUFFICES ASSUME HolonInit PROVE GrowInv
    OBVIOUS
<1>1. holons = NewStore /\ at_begin = NewStore /\ tick.pc = "idle" /\ ~scope_open
    BY DEF HolonInit, Idle
<1>2. Ruled \in NewStore.registered /\ ~Stuck(NewStore, Ruled)
    BY HolonAssumption DEF NewStore, Stuck
<1> QED
    BY <1>1, <1>2 DEF GrowInv, Working

\* Every step keeps it.
LEMMA NextGrow ==
    ASSUME FrameInv, LogInv, GrowInv, [HolonNext]_holon_vars
    PROVE  GrowInv'
<1>0. /\ Typed /\ holons \in StoreType /\ at_begin \in StoreType /\ Here \in HolonId /\ Ruled \in HolonId
    <2>1. Typed /\ holons \in StoreType /\ at_begin \in StoreType /\ tick \in TickType
        BY DEF FrameInv, Typed
    <2> QED
        BY <2>1, HolonAssumption DEF TickType, Here
<1>1. ASSUME NEW holon \in HolonId, NEW rules \in BOOLEAN, NEW delta \in SmallDelta,
             begin_commit(holon, rules, delta[1], delta[2])
      PROVE  GrowInv'
    <2>1. delta[1] \in SUBSET Triple /\ delta[2] \in SUBSET Triple
        BY DEF SmallDelta
    <2>2. /\ tick.pc = "idle" /\ ~failed
          /\ tick'.pc = "apply" /\ tick'.holon = holon /\ tick'.applied = <<>> /\ tick'.owned = ~scope_open
          /\ scope_open' = TRUE /\ at_begin' = (IF scope_open THEN at_begin ELSE holons) /\ holons' = holons
          /\ tick'.ok = FALSE
        <3> DEFINE adding == delta[1]
                   removing == delta[2]
        <3>1. /\ adding \in SUBSET Triple /\ removing \in SUBSET Triple
              /\ begin_commit(holon, rules, adding, removing)
            BY <1>1, <2>1
        <3>2. Typed
            BY <1>0
        <3> HIDE DEF adding, removing
        <3> QED
            BY <3>1, <3>2, BeginStep
    <2>3. Here' = holon /\ Scene' = holons.scene[holon] /\ holons.scene[holon] \in SUBSET Triple
        BY <1>0, <2>2 DEF Here, Scene, StoreType
    <2>4. Before' = Scene'
        <3>1. Took(<<>>, holons.scene[holon], holons.scene[holon])
            BY <2>3, TookNothing
        <3>2. Net(holons.scene[holon], InverseOf(<<>>)) = holons.scene[holon]
            BY <3>1, TookBack
        <3> QED
            BY <2>2, <2>3, <3>2 DEF Before
    <2>5. \A g : PriorScene(g)' = holons.scene[g]
        BY <2>2, <2>3, <2>4 DEF PriorScene
    <2>6. CASE scope_open
        <3>1. at_begin' = at_begin /\ ~tick'.owned
            BY <2>2, <2>6
        <3> QED
            BY <2>2, <2>5, <2>6, <3>1 DEF GrowInv
    <2>7. CASE ~scope_open
        <3>1. at_begin' = holons
            BY <2>2, <2>7
        <3> QED
            BY <2>2, <2>5, <3>1 DEF GrowInv
    <2> QED
        BY <2>6, <2>7
<1>2. ASSUME NEW S, Rescened(holons', holons, Here, S), Here' = Here, tick'.ok = tick.ok,
             tick'.owned = tick.owned, Working, Working',
             \A g \in HolonId : PriorScene(g)' = PriorScene(g), UNCHANGED <<scope_open, at_begin>>
      PROVE  GrowInv'
    <2>1. /\ holons'.registered = holons.registered /\ holons'.events = holons.events
          /\ (Stuck(holons', Ruled) <=> Stuck(holons, Ruled))
          /\ Here # Ruled => holons'.scene[Ruled] = holons.scene[Ruled]
        BY <1>0, <1>2 DEF Rescened, Stuck
    <2>2. tick'.pc # "idle" /\ tick'.pc # "end" /\ tick.pc # "idle" /\ tick.pc # "end"
        BY <1>2 DEF Working
    <2>3. PriorScene(Ruled)' = PriorScene(Ruled)
        BY <1>0, <1>2
    <2> QED
        BY <1>2, <2>1, <2>2, <2>3 DEF GrowInv
<1>3. ASSUME NEW x \in Triple, NEW b \in BOOLEAN, ChangeStep(x, b), tick.pc \in {"apply", "infer"}
      PROVE  GrowInv'
    <2>1. Undoable /\ Working /\ Undoable' /\ Working'
        BY <1>3 DEF Undoable, Working, ChangeStep
    <2>2. /\ \E S : Rescened(holons', holons, Here, S)
          /\ Here' = Here /\ Before' = Before
        BY <1>3, <2>1, ChangeStepGives
    <2>3. \A g \in HolonId : PriorScene(g)' = PriorScene(g)
        BY <2>1, <2>2 DEF PriorScene, Rescened
    <2>4. UNCHANGED <<scope_open, at_begin>> /\ tick'.ok = tick.ok /\ tick'.owned = tick.owned
        BY <1>3 DEF ChangeStep
    <2> QED
        BY <1>2, <2>1, <2>2, <2>3, <2>4
<1>4. ASSUME NEW p \in {"infer", "validate", "end"}, MoveStep(p),
             Undoable \/ p = "end", Working
      PROVE  GrowInv'
    <2>1. /\ UNCHANGED <<holons, at_begin, scope_open>> /\ tick'.pc = p /\ tick'.owned = tick.owned
          /\ tick'.ok = tick.ok /\ tick'.holon = tick.holon /\ tick'.applied = tick.applied
        BY <1>4 DEF MoveStep
    <2>2. ~tick.ok /\ tick.pc # "idle"
        BY <1>4 DEF FrameInv, Working
    <2>3. Here' = Here /\ Before' = Before
        BY <2>1 DEF Here, Scene, Before
    <2>4. CASE p = "end"
        BY <2>1, <2>2, <2>3, <2>4 DEF GrowInv, Working
    <2>5. CASE p # "end"
        <3>1. Undoable /\ Undoable'
            BY <1>4, <2>1, <2>5 DEF Undoable
        <3>2. PriorScene(Ruled)' = PriorScene(Ruled)
            BY <2>1, <2>3, <3>1 DEF PriorScene
        <3> QED
            BY <1>4, <2>1, <2>2, <2>3, <2>5, <3>2 DEF GrowInv, Working
    <2> QED
        BY <2>4, <2>5
<1>5. ASSUME fire_rules PROVE GrowInv'
    <2>1. MoveStep("infer") /\ Undoable /\ Working
        BY <1>0, <1>5, FireStep DEF Undoable, Working
    <2> QED
        BY <1>4, <2>1
<1>6. ASSUME validate PROVE GrowInv'
    <2>1. /\ tick.pc = "validate" /\ tick'.pc = "record"
          /\ tick'.holon = tick.holon /\ tick'.applied = tick.applied
          /\ tick'.ok = tick.ok /\ tick'.owned = tick.owned
          /\ UNCHANGED <<at_begin, scope_open>>
          /\ tick'.admitted => holons' = holons
          /\ ~tick'.admitted => holons' = [holons EXCEPT !.scene[Here] = Before]
        BY <1>0, <1>6, ValidateStep
    <2>2. Undoable /\ Working /\ Working' /\ Here' = Here /\ Took(tick.applied, Before, Scene)
        BY <2>1 DEF Undoable, Working, FrameInv, Here
    <2>3. Before \in SUBSET Triple
        BY <2>2 DEF Took
    <2>4. CASE tick'.admitted
        <3>1. holons' = holons /\ Scene' = Scene /\ Before' = Before /\ Undoable'
            BY <2>1, <2>2, <2>4 DEF Scene, Before, Undoable
        <3>2. PriorScene(Ruled)' = PriorScene(Ruled)
            BY <2>2, <3>1 DEF PriorScene
        <3> QED
            BY <2>1, <2>2, <3>1, <3>2 DEF GrowInv, Working
    <2>5. CASE ~tick'.admitted
        <3>1. Rescened(holons', holons, Here, Before)
            BY <1>0, <2>1, <2>3, <2>5, RescenedIs
        <3>2. ~Undoable'
            BY <2>1, <2>5 DEF Undoable
        <3>3. \A g \in HolonId : PriorScene(g)' = PriorScene(g)
            BY <2>2, <3>1, <3>2 DEF PriorScene, Rescened
        <3> QED
            BY <1>2, <2>1, <2>2, <3>1, <3>3
    <2> QED
        BY <2>4, <2>5
<1>7. ASSUME record PROVE GrowInv'
    <2>1. /\ Event0 \in Event /\ Recorded(holons', holons, Here, Event0)
          /\ tick.pc = "record" /\ tick'.pc = "end" /\ UNCHANGED <<at_begin, scope_open>>
          /\ tick'.ok = TRUE /\ tick'.holon = tick.holon /\ tick'.owned = tick.owned
        BY <1>0, <1>7, RecordStep
    <2>2. scope_open /\ ~Stuck(holons, Ruled) /\ at_begin.events[Ruled] \subseteq holons.events[Ruled]
        BY <2>1 DEF FrameInv, GrowInv
    <2>3. /\ holons'.events[Here] = holons.events[Here] \cup {Event0}
          /\ \A g \in HolonId : g # Here => holons'.events[g] = holons.events[g] /\ holons'.versions[g] = holons.versions[g]
          /\ holons'.scene = holons.scene /\ holons'.registered = holons.registered
          /\ holons'.versions[Here] = RowsAfter(holons, Here, Event0.version)
        BY <2>1 DEF Recorded
    <2>4. Here' = Here
        BY <2>1 DEF Here
    <2>5. CASE Here = Ruled
        <3>1. LogOf(holons, Here) /\ tick.version = version(holons, Here) + 1
            BY <1>0, <2>1, <2>2, <2>5 DEF LogInv, Working, Log
        <3>2. Event0.version = tick.version
            BY DEF Event0
        <3> HIDE DEF Event0
        <3>3. Event0 \notin holons.events[Here]
            BY <1>0, <2>1, <3>1, <3>2, RecordedLog
        <3>4. version(holons, Here) \in Nat
            BY <1>0, VersionIs
        <3>5. ~Stuck(holons', Ruled)
            BY <2>2, <2>3, <2>5, <3>1, <3>2, <3>4 DEF Stuck, RowsAfter
        <3>6. holons'.events[Ruled] # at_begin.events[Ruled] /\ at_begin.events[Ruled] \subseteq holons'.events[Ruled]
            BY <2>2, <2>3, <2>5, <3>3
        <3> QED
            BY <2>1, <2>3, <2>4, <2>5, <3>5, <3>6 DEF GrowInv, Working
    <2>6. CASE Here # Ruled
        <3>1. ~Stuck(holons', Ruled) /\ holons'.events[Ruled] = holons.events[Ruled]
            BY <1>0, <2>2, <2>3, <2>6 DEF Stuck
        <3>2. PriorScene(Ruled) = holons.scene[Ruled]
            BY <2>6 DEF PriorScene
        <3> QED
            BY <2>1, <2>2, <2>3, <2>4, <2>6, <3>1, <3>2 DEF GrowInv, Working
    <2> QED
        BY <2>5, <2>6
<1>8. ASSUME tick' = Idle \/ (tick' = tick /\ tick.pc = "idle"),
             Ruled \in holons'.registered, Ruled \in at_begin'.registered,
             ~Stuck(holons', Ruled), ~Stuck(at_begin', Ruled),
             scope_open' => at_begin'.events[Ruled] \subseteq holons'.events[Ruled],
             scope_open' /\ ~failed' /\ holons'.events[Ruled] = at_begin'.events[Ruled]
                => at_begin'.scene[Ruled] = holons'.scene[Ruled]
      PROVE  GrowInv'
    <2>1. tick'.pc = "idle"
        BY <1>8 DEF Idle
    <2> QED
        BY <1>8, <2>1 DEF GrowInv, Working
<1>9. Ruled \in NewStore.registered /\ ~Stuck(NewStore, Ruled)
    BY <1>0 DEF NewStore, Stuck
<1>10. ASSUME end_commit PROVE GrowInv'
    <2>1. /\ tick' = Idle /\ tick.pc = "end"
          /\ holons' = (IF tick.owned /\ ~tick.ok THEN at_begin ELSE holons)
          /\ at_begin' = (IF tick.owned THEN NewStore ELSE at_begin)
          /\ scope_open' = ~tick.owned /\ failed' = (~tick.owned /\ ~tick.ok)
        BY <1>10 DEF end_commit
    <2>2. scope_open
        BY <2>1 DEF FrameInv
    <2>3. CASE tick.owned
        BY <1>8, <1>9, <2>1, <2>3 DEF GrowInv
    <2>4. CASE ~tick.owned
        <3>1. holons' = holons /\ at_begin' = at_begin /\ (~failed' => tick.ok)
            BY <2>1, <2>4
        <3> QED
            BY <1>8, <2>1, <2>2, <3>1 DEF GrowInv
    <2> QED
        BY <2>3, <2>4
<1>11. ASSUME TickRefused PROVE GrowInv'
    <2>1. tick' = Idle /\ holons' = at_begin /\ scope_open' = FALSE /\ at_begin' = NewStore
        BY <1>11 DEF TickRefused
    <2> QED
        BY <1>8, <1>9, <2>1 DEF GrowInv
<1>12. ASSUME NEW holon \in HolonId, NEW reject \in BOOLEAN, register(holon, reject) PROVE GrowInv'
    <2>1. Registered(holons', holons, holon)
        BY <1>0, <1>12, RegisteredIs
    <2>2. Ruled \in holons'.registered /\ ~Stuck(holons', Ruled)
        BY <2>1 DEF Registered, GrowInv, Stuck
    <2>3. tick' = tick /\ tick.pc = "idle" /\ ~scope_open' /\ at_begin' = at_begin
        BY <1>12 DEF register
    <2> QED
        BY <1>8, <2>2, <2>3 DEF GrowInv
<1>13. ASSUME NEW source \in HolonId, NEW child \in HolonId, branch(source, child) PROVE GrowInv'
    <2>1. Branched(holons', holons, source, child)
        BY <1>0, <1>13, BranchedIs
    <2>2. Ruled \in holons'.registered /\ ~Stuck(holons', Ruled)
        <3>1. child # Ruled
            BY <1>13 DEF branch, GrowInv
        <3> QED
            BY <1>0, <2>1, <3>1 DEF Branched, GrowInv, Stuck
    <2>3. tick' = tick /\ tick.pc = "idle" /\ ~scope_open' /\ at_begin' = at_begin
        BY <1>13 DEF branch
    <2> QED
        BY <1>8, <2>2, <2>3 DEF GrowInv
<1>14. ASSUME prepare_run PROVE GrowInv'
    <2>1. UNCHANGED <<holons, at_begin, scope_open, failed, tick>> /\ tick.pc = "idle"
        BY <1>14 DEF prepare_run
    <2> QED
        BY <1>8, <2>1 DEF GrowInv
<1>15. ASSUME CallerBegins PROVE GrowInv'
    <2>1. tick.pc = "idle" /\ at_begin' = holons /\ UNCHANGED <<holons, tick>>
        BY <1>15 DEF CallerBegins
    <2> QED
        BY <1>8, <2>1 DEF GrowInv
<1>16. ASSUME NEW kept \in BOOLEAN, CallerEnds(kept) PROVE GrowInv'
    <2>1. /\ tick.pc = "idle" /\ scope_open' = FALSE /\ tick' = tick
          /\ holons' \in {holons, at_begin} /\ at_begin' = NewStore
        BY <1>16 DEF CallerEnds
    <2> QED
        BY <1>8, <1>9, <2>1 DEF GrowInv
<1>17. ASSUME Crash PROVE GrowInv'
    <2>1. tick' = Idle /\ scope_open' = FALSE /\ holons' \in {holons, at_begin} /\ at_begin' = NewStore
        BY <1>17 DEF Crash
    <2> QED
        BY <1>8, <1>9, <2>1 DEF GrowInv
<1>18. ASSUME UNCHANGED holon_vars PROVE GrowInv'
    <2>1. UNCHANGED <<holons, at_begin, scope_open, failed, tick>>
        BY <1>18 DEF holon_vars
    <2>2. \A g : PriorScene(g)' = PriorScene(g)
        BY <2>1 DEF PriorScene, Undoable, Before, Scene, Here
    <2> QED
        BY <2>1, <2>2 DEF GrowInv, Working, Here
<1>19. ASSUME NEW x \in Triple, ApplyAdd(x) \/ ApplyRemove(x) \/ WriteInferred(x) PROVE GrowInv'
    BY <1>0, <1>3, <1>19, ChangeSteps
<1>20. ASSUME SkipRules \/ WrongRules \/ AllInferred \/ TickFails PROVE GrowInv'
    BY <1>0, <1>4, <1>20, MoveSteps DEF Working, Undoable
<1> QED
    BY <1>1, <1>5, <1>6, <1>7, <1>10, <1>11, <1>12, <1>13, <1>14, <1>15, <1>16, <1>17, <1>18, <1>19, <1>20
       DEF HolonNext

\* A copy that believes in nothing the scene does not have, and lacks nothing but what the
\* rules would infer again.
InStep(copy, S) == copy \subseteq S /\ S \ copy \subseteq Inferable

\* What the bridge would be if it were taken back to its checkpoint.
Reverted == IF checkpointed THEN Net(bridged, InverseOf(since_checkpoint)) ELSE bridged

\* Until the store loses a tick behind its back, the bridge is in step between ticks; during
\* one, what it would be taken back to is in step with what the scene was, and what it is
\* with what the scene will be if the tick is kept.  A checkpoint is open only while a tick
\* of the ruled holon is under way.
BridgeInv == ~lost =>
    /\ checkpointed => tick.rules /\ tick.pc # "idle" /\ tick.pc # "apply" /\ Here = Ruled
    /\ tick.pc # "idle" /\ Here = Ruled => tick.rules
    /\ tick.pc = "infer" => Here = Ruled /\ tick.inferred \subseteq Inferable
    /\ tick.pc = "idle" /\ ~failed => InStep(bridged, holons.scene[Ruled])
    /\ tick.pc = "idle" /\ failed /\ holons = at_begin => InStep(bridged, at_begin.scene[Ruled])
    /\ Working => InStep(Reverted, PriorScene(Ruled))
    /\ Undoable /\ tick.pc # "apply" /\ Here = Ruled => InStep(bridged, Scene)
    /\ tick.pc = "end" /\ tick.ok =>
          InStep(IF tick.admitted THEN bridged ELSE Reverted, holons.scene[Ruled])
    /\ tick.pc = "end" /\ ~tick.ok /\ holons.events[Ruled] = at_begin.events[Ruled] =>
          InStep(Reverted, at_begin.scene[Ruled])

\* It all begins in step.
LEMMA InitBridge == HolonInit => BridgeInv
<1> SUFFICES ASSUME HolonInit PROVE BridgeInv
    OBVIOUS
<1>1. holons = NewStore /\ bridged = {} /\ ~checkpointed /\ ~failed /\ tick.pc = "idle"
    BY DEF HolonInit, Idle
<1>2. NewStore.scene[Ruled] = {}
    BY HolonAssumption DEF NewStore
<1> QED
    BY <1>1, <1>2 DEF BridgeInv, InStep, Working, Undoable

\* Every step keeps it.
LEMMA NextBridge ==
    ASSUME FrameInv, LogInv, GrowInv, BridgeInv, [HolonNext]_holon_vars
    PROVE  BridgeInv'
<1>0. /\ Typed /\ holons \in StoreType /\ at_begin \in StoreType /\ Here \in HolonId /\ Ruled \in HolonId
      /\ holons.scene[Ruled] \in SUBSET Triple /\ tick \in TickType
    <2>1. Typed /\ holons \in StoreType /\ at_begin \in StoreType /\ tick \in TickType
        BY DEF FrameInv, Typed
    <2> QED
        BY <2>1, HolonAssumption DEF TickType, Here, StoreType
<1>1. ASSUME NEW holon \in HolonId, NEW rules \in BOOLEAN, NEW delta \in SmallDelta,
             begin_commit(holon, rules, delta[1], delta[2])
      PROVE  BridgeInv'
    <2>0. Typed
        BY <1>0
    <2>1. delta[1] \in SUBSET Triple /\ delta[2] \in SUBSET Triple
        BY DEF SmallDelta
    <2>2. /\ tick.pc = "idle" /\ ~failed
          /\ tick'.pc = "apply" /\ tick'.holon = holon /\ tick'.applied = <<>>
          /\ holons' = holons
        <3> DEFINE adding == delta[1]
                   removing == delta[2]
        <3>1. /\ adding \in SUBSET Triple /\ removing \in SUBSET Triple
              /\ begin_commit(holon, rules, adding, removing)
            BY <1>1, <2>1
        <3> HIDE DEF adding, removing
        <3> QED
            BY <2>0, <3>1, BeginStep
    <2>6. UNCHANGED <<bridged, since_checkpoint, checkpointed, failed, lost>> /\ (holon = Ruled => tick'.rules)
        <3>1. UNCHANGED <<bridged, since_checkpoint, checkpointed, failed, lost>>
            BY <1>1 DEF begin_commit
        <3>2. ASSUME holon = Ruled PROVE tick'.rules
            <4> DEFINE adding == delta[1]
                       removing == delta[2]
            <4>1. /\ adding \in SUBSET Triple /\ removing \in SUBSET Triple
                  /\ begin_commit(holon, rules, adding, removing)
                BY <1>1, <2>1
            <4> HIDE DEF adding, removing
            <4> QED
                BY <2>0, <3>2, <4>1, BeginStep
        <3> QED
            BY <3>1, <3>2
    <2>3. Here' = holon /\ Scene' = holons.scene[holon] /\ holons.scene[holon] \in SUBSET Triple
        BY <1>0, <2>2 DEF Here, Scene, StoreType
    <2>4. Before' = Scene'
        <3>1. Took(<<>>, holons.scene[holon], holons.scene[holon])
            BY <2>3, TookNothing
        <3>2. Net(holons.scene[holon], InverseOf(<<>>)) = holons.scene[holon]
            BY <3>1, TookBack
        <3> QED
            BY <2>2, <2>3, <3>2 DEF Before
    <2>5. PriorScene(Ruled)' = holons.scene[Ruled]
        BY <2>2, <2>3, <2>4 DEF PriorScene
    <2> QED
        BY <2>2, <2>3, <2>5, <2>6 DEF BridgeInv, Reverted
<1>2. ASSUME NEW x \in Triple, NEW b \in BOOLEAN, ChangeStep(x, b), tick.pc \in {"apply", "infer"},
             tick.pc = "infer" => b /\ x \in tick.inferred /\ tick'.inferred \subseteq tick.inferred
      PROVE  BridgeInv'
    <2>1. Undoable /\ Working /\ Undoable' /\ Working'
        BY <1>2 DEF Undoable, Working, ChangeStep
    <2>2. /\ Rescened(holons', holons, Here, IF b THEN Scene \cup {x} ELSE Scene \ {x})
          /\ Scene' = (IF b THEN Scene \cup {x} ELSE Scene \ {x})
          /\ Here' = Here /\ Before' = Before
        BY <1>2, <2>1, ChangeStepGives
    <2>3. PriorScene(Ruled)' = PriorScene(Ruled)
        BY <1>0, <2>1, <2>2 DEF PriorScene, Rescened
    <2>4. /\ UNCHANGED <<at_begin, bridged, since_checkpoint, checkpointed, failed, lost>>
          /\ tick'.pc = tick.pc /\ tick'.rules = tick.rules
        BY <1>2 DEF ChangeStep
    <2>5. Reverted' = Reverted
        BY <2>4 DEF Reverted
    <2>6. ASSUME tick.pc = "infer", ~lost PROVE InStep(bridged', Scene')
        <3>1. x \in Inferable /\ InStep(bridged, Scene)
            BY <1>2, <2>1, <2>6 DEF BridgeInv
        <3>2. Scene' = Scene \cup {x} /\ bridged' = bridged
            BY <1>2, <2>2, <2>4, <2>6
        <3> QED
            BY <3>1, <3>2 DEF InStep
    <2> QED
        BY <1>2, <2>1, <2>2, <2>3, <2>4, <2>5, <2>6 DEF BridgeInv
<1>3. ASSUME NEW p \in {"validate", "end"}, MoveStep(p), Undoable \/ p = "end", Working,
             UNCHANGED <<bridged, since_checkpoint, checkpointed>>, tick.pc = "apply" /\ p = "validate" => Here # Ruled
      PROVE  BridgeInv'
    <2>1. /\ UNCHANGED <<holons, at_begin, failed, lost>> /\ tick'.pc = p /\ tick'.rules = tick.rules
          /\ tick'.ok = tick.ok /\ tick'.holon = tick.holon /\ tick'.applied = tick.applied
        BY <1>3 DEF MoveStep
    <2>2. ~tick.ok /\ tick.pc # "idle"
        BY <1>3 DEF FrameInv, Working
    <2>3. Here' = Here /\ Before' = Before /\ Scene' = Scene /\ Reverted' = Reverted
        BY <1>3, <2>1 DEF Here, Scene, Before, Reverted
    <2>4. CASE p = "end"
        <3>1. ~lost /\ holons.events[Ruled] = at_begin.events[Ruled] => InStep(Reverted, at_begin.scene[Ruled])
            BY <1>3 DEF BridgeInv, GrowInv
        <3>2. ~Working' /\ ~Undoable'
            BY <2>1, <2>4 DEF Working, Undoable
        <3> QED
            BY <1>3, <2>1, <2>2, <2>3, <2>4, <3>1, <3>2 DEF BridgeInv
    <2>5. CASE p = "validate"
        <3>1. Undoable /\ Undoable' /\ Working'
            BY <1>3, <2>1, <2>5 DEF Undoable, Working
        <3>2. PriorScene(Ruled)' = PriorScene(Ruled)
            BY <2>1, <2>3, <3>1 DEF PriorScene
        <3> QED
            BY <1>3, <2>1, <2>2, <2>3, <2>5, <3>1, <3>2 DEF BridgeInv
    <2> QED
        BY <2>4, <2>5
<1>4. ASSUME fire_rules PROVE BridgeInv'
    <2>1. /\ MoveStep("infer") /\ tick.pc = "apply" /\ tick.rules /\ Here = Ruled
          /\ bridged' = Net(bridged, tick.applied) /\ bridged' \in SUBSET Triple
          /\ since_checkpoint' = tick.applied /\ checkpointed' = TRUE
          /\ tick'.inferred = Closure[bridged'] \ bridged'
        BY <1>0, <1>4, FireStep
    <2>2. /\ UNCHANGED <<holons, at_begin, failed, lost>> /\ tick'.pc = "infer" /\ tick'.rules = tick.rules
          /\ tick'.holon = tick.holon /\ tick'.applied = tick.applied
        BY <2>1 DEF MoveStep
    <2>3. Here' = Here /\ Before' = Before /\ Scene' = Scene
        BY <2>2 DEF Here, Scene, Before
    <2>4. Undoable /\ Undoable' /\ Working /\ Working' /\ Took(tick.applied, Before, Scene)
        BY <2>1, <2>2 DEF Undoable, Working, FrameInv
    <2>5. PriorScene(Ruled) = Before /\ PriorScene(Ruled)' = Before
        BY <2>1, <2>3, <2>4 DEF PriorScene
    <2>6. Reverted' = Net(Net(bridged, tick.applied), InverseOf(tick.applied))
        BY <2>1 DEF Reverted
    <2>7. ASSUME ~lost
          PROVE  InStep(bridged', Scene') /\ InStep(Reverted', Before) /\ tick'.inferred \subseteq Inferable
        <3>1. InStep(bridged, Before)
            BY <2>1, <2>4, <2>5, <2>7 DEF BridgeInv, Reverted
        <3>2. bridged \in SUBSET Before /\ Before \ bridged \subseteq Inferable
            BY <3>1 DEF InStep
        <3>3. /\ bridged' \in SUBSET Scene
              /\ Scene \ bridged' \subseteq Before \ bridged
              /\ Reverted' \in SUBSET Before
              /\ Before \ Reverted' \subseteq Before \ bridged
            BY <2>1, <2>4, <2>6, <3>2, CopyTaken
        <3>4. tick'.inferred \subseteq Inferable
            <4> DEFINE B == bridged'
            <4>1. B \in SUBSET Triple /\ tick'.inferred = Closure[B] \ B
                BY <2>1
            <4> HIDE DEF B
            <4>2. Closure[B] \in SUBSET Triple
                BY <4>1, RuleAssumption
            <4> QED
                BY <4>1, <4>2 DEF Inferable
        <3> QED
            BY <2>3, <3>2, <3>3, <3>4 DEF InStep
    <2> QED
        BY <2>1, <2>2, <2>3, <2>4, <2>5, <2>7 DEF BridgeInv
<1>5. ASSUME validate PROVE BridgeInv'
    <2>1. /\ tick.pc = "validate" /\ tick'.pc = "record" /\ tick'.rules = tick.rules
          /\ tick'.holon = tick.holon /\ tick'.applied = tick.applied
          /\ UNCHANGED <<at_begin, bridged, since_checkpoint, checkpointed, failed, lost>>
          /\ tick'.admitted => holons' = holons
          /\ ~tick'.admitted => holons' = [holons EXCEPT !.scene[Here] = Before]
        BY <1>0, <1>5, ValidateStep
    <2>2. /\ Undoable /\ Working /\ Working' /\ Here' = Here /\ Reverted' = Reverted
          /\ Took(tick.applied, Before, Scene)
        BY <2>1 DEF Undoable, Working, FrameInv, Here, Reverted
    <2>3. Before \in SUBSET Triple
        BY <2>2 DEF Took
    <2>4. CASE tick'.admitted
        <3>1. Scene' = Scene /\ Before' = Before /\ Undoable' /\ holons' = holons
            BY <2>1, <2>2, <2>4 DEF Scene, Before, Undoable
        <3>2. PriorScene(Ruled)' = PriorScene(Ruled)
            BY <2>2, <3>1 DEF PriorScene
        <3> QED
            BY <2>1, <2>2, <3>1, <3>2 DEF BridgeInv
    <2>5. CASE ~tick'.admitted
        <3>1. Rescened(holons', holons, Here, Before)
            BY <1>0, <2>1, <2>3, <2>5, RescenedIs
        <3>2. ~Undoable'
            BY <2>1, <2>5 DEF Undoable
        <3>3. PriorScene(Ruled)' = PriorScene(Ruled)
            BY <1>0, <2>2, <3>1, <3>2 DEF PriorScene, Rescened
        <3> QED
            BY <2>1, <2>2, <3>2, <3>3 DEF BridgeInv
    <2> QED
        BY <2>4, <2>5
<1>6. ASSUME record PROVE BridgeInv'
    <2>1. /\ Recorded(holons', holons, Here, Event0)
          /\ tick.pc = "record" /\ tick'.pc = "end" /\ UNCHANGED <<at_begin, bridged, since_checkpoint, checkpointed, failed, lost>>
          /\ tick'.ok = TRUE /\ tick'.holon = tick.holon /\ tick'.rules = tick.rules
          /\ tick'.admitted = tick.admitted
        BY <1>0, <1>6, RecordStep
    <2>2. holons'.scene = holons.scene
        BY <2>1 DEF Recorded
    <2>3. Here' = Here /\ Reverted' = Reverted /\ Working /\ ~Working' /\ ~Undoable'
        BY <2>1 DEF Here, Reverted, Working, Undoable
    <2>4. ASSUME ~lost
          PROVE  InStep(IF tick.admitted THEN bridged ELSE Reverted, holons.scene[Ruled])
        <3>1. CASE tick.admitted /\ Here = Ruled
            <4>1. Undoable /\ Scene = holons.scene[Ruled]
                BY <2>1, <3>1 DEF Undoable, Scene
            <4> QED
                BY <2>1, <2>4, <3>1, <4>1 DEF BridgeInv
        <3>2. CASE Here # Ruled
            <4>1. PriorScene(Ruled) = holons.scene[Ruled]
                BY <3>2 DEF PriorScene
            <4>2. ~checkpointed
                BY <2>4, <3>2 DEF BridgeInv
            <4>3. Reverted = bridged
                BY <4>2 DEF Reverted
            <4> QED
                BY <2>3, <2>4, <4>1, <4>3 DEF BridgeInv
        <3>3. CASE ~tick.admitted
            <4>1. PriorScene(Ruled) = holons.scene[Ruled]
                BY <2>1, <3>3 DEF PriorScene, Undoable
            <4> QED
                BY <2>3, <2>4, <3>3, <4>1 DEF BridgeInv
        <3> QED
            BY <3>1, <3>2, <3>3
    <2> QED
        BY <2>1, <2>2, <2>3, <2>4 DEF BridgeInv
<1>7. ASSUME tick' = Idle \/ (tick' = tick /\ tick.pc = "idle"), ~lost' => ~checkpointed',
             ~lost' /\ ~failed' => InStep(bridged', holons'.scene[Ruled]),
             ~lost' /\ failed' /\ holons' = at_begin' => InStep(bridged', at_begin'.scene[Ruled])
      PROVE  BridgeInv'
    <2>1. tick'.pc = "idle"
        BY <1>7 DEF Idle
    <2>2. ~Working' /\ ~Undoable'
        BY <2>1 DEF Working, Undoable
    <2> QED
        BY <1>7, <2>1, <2>2 DEF BridgeInv
<1>8. ASSUME end_commit PROVE BridgeInv'
    <2>1. /\ tick' = Idle /\ tick.pc = "end" /\ lost' = lost
          /\ holons' = (IF tick.owned /\ ~tick.ok THEN at_begin ELSE holons)
          /\ at_begin' = (IF tick.owned THEN NewStore ELSE at_begin)
          /\ failed' = (~tick.owned /\ ~tick.ok)
        BY <1>8 DEF end_commit
    <2>2. ASSUME ~lost
          PROVE  ~checkpointed' /\ bridged' = IF tick.ok /\ tick.admitted THEN bridged ELSE Reverted
        <3>1. CASE tick.rules
            BY <1>8, <3>1 DEF end_commit, settle, Settled, Reverted
        <3>2. CASE ~tick.rules
            <4>1. ~checkpointed
                BY <2>2, <3>2 DEF BridgeInv
            <4>2. UNCHANGED <<bridged, checkpointed>>
                BY <1>8, <3>2 DEF end_commit, settle
            <4> QED
                BY <4>1, <4>2 DEF Reverted
        <3> QED
            BY <3>1, <3>2
    <2>3. CASE tick.ok
        <3>1. holons' = holons /\ ~failed'
            BY <2>1, <2>3
        <3>2. ~lost => InStep(bridged', holons.scene[Ruled])
            BY <2>1, <2>2, <2>3 DEF BridgeInv
        <3> QED
            BY <1>7, <2>1, <2>2, <3>1, <3>2
    <2>4. CASE ~tick.ok
        <3>1. ~lost => bridged' = Reverted /\ ~checkpointed'
            BY <2>2, <2>4
        <3>2. ~lost /\ holons.events[Ruled] = at_begin.events[Ruled] => InStep(bridged', at_begin.scene[Ruled])
            BY <2>1, <2>4, <3>1 DEF BridgeInv
        <3>3. CASE tick.owned
            <4>1. holons.events[Ruled] = at_begin.events[Ruled]
                BY <2>1, <2>4, <3>3 DEF GrowInv
            <4>2. holons' = at_begin /\ ~failed'
                BY <2>1, <2>4, <3>3
            <4> QED
                BY <1>7, <2>1, <3>1, <3>2, <4>1, <4>2
        <3>4. CASE ~tick.owned
            <4>1. holons' = holons /\ at_begin' = at_begin /\ failed'
                BY <2>1, <2>4, <3>4
            <4>2. holons = at_begin => holons.events[Ruled] = at_begin.events[Ruled]
                OBVIOUS
            <4> QED
                BY <1>7, <2>1, <3>1, <3>2, <4>1, <4>2
        <3> QED
            BY <3>3, <3>4
    <2> QED
        BY <2>3, <2>4
<1>9. ASSUME TickRefused PROVE BridgeInv'
    <2>1. /\ tick' = Idle /\ holons' = at_begin /\ tick.pc = "end" /\ tick.owned /\ tick.ok
          /\ lost' = (lost \/ tick.rules) /\ UNCHANGED <<bridged, since_checkpoint, checkpointed, failed>>
        BY <1>9 DEF TickRefused
    <2>2. ASSUME ~lost' PROVE ~checkpointed' /\ ~failed' /\ InStep(bridged', at_begin.scene[Ruled])
        <3>1. ~lost /\ ~tick.rules
            BY <2>1, <2>2
        <3>2. Here # Ruled /\ ~checkpointed
            BY <2>1, <3>1 DEF BridgeInv
        <3>3. at_begin.scene[Ruled] = holons.scene[Ruled]
            BY <2>1, <3>2 DEF GrowInv
        <3>4. InStep(bridged, holons.scene[Ruled])
            BY <2>1, <3>1, <3>2 DEF BridgeInv, Reverted
        <3>5. ~failed
            BY <2>1 DEF FrameInv
        <3> QED
            BY <2>1, <3>2, <3>3, <3>4, <3>5
    <2> QED
        BY <1>7, <2>1, <2>2
<1>10. ASSUME tick' = tick, tick.pc = "idle", ~scope_open, holons'.scene[Ruled] = holons.scene[Ruled],
              UNCHANGED <<bridged, checkpointed, failed, lost>>
       PROVE  BridgeInv'
    <2>1. ~failed
        BY <1>10 DEF FrameInv
    <2> QED
        BY <1>7, <1>10, <2>1 DEF BridgeInv
<1>11. ASSUME NEW holon \in HolonId, NEW reject \in BOOLEAN, register(holon, reject) PROVE BridgeInv'
    <2>1. Registered(holons', holons, holon)
        BY <1>0, <1>11, RegisteredIs
    <2>2. holons'.scene = holons.scene
        BY <2>1 DEF Registered
    <2> QED
        BY <1>10, <1>11, <2>2 DEF register
<1>12. ASSUME NEW source \in HolonId, NEW child \in HolonId, branch(source, child) PROVE BridgeInv'
    <2>1. Branched(holons', holons, source, child) /\ child \notin holons.registered
        BY <1>0, <1>12, BranchedIs DEF branch
    <2>2. child # Ruled
        BY <2>1 DEF GrowInv
    <2>3. holons'.scene[Ruled] = holons.scene[Ruled]
        BY <1>0, <2>1, <2>2 DEF Branched
    <2> QED
        BY <1>10, <1>12, <2>3 DEF branch
<1>13. ASSUME prepare_run PROVE BridgeInv'
    <2>1. /\ UNCHANGED <<holons, at_begin, failed, tick>> /\ tick.pc = "idle"
          /\ bridged' = holons.scene[Ruled] /\ ~checkpointed'
        BY <1>13 DEF prepare_run
    <2>2. InStep(bridged', holons.scene[Ruled])
        BY <2>1 DEF InStep
    <2> QED
        BY <1>7, <2>1, <2>2
<1>14. ASSUME CallerBegins PROVE BridgeInv'
    BY <1>10, <1>14 DEF CallerBegins
<1>15. ASSUME NEW kept \in BOOLEAN, CallerEnds(kept) PROVE BridgeInv'
    <2>1. /\ tick.pc = "idle" /\ tick' = tick /\ UNCHANGED <<bridged, checkpointed>> /\ ~failed' /\ (kept => ~failed)
          /\ holons' = (IF kept THEN holons ELSE at_begin) /\ lost' = (lost \/ (~kept /\ holons # at_begin))
        BY <1>15 DEF CallerEnds
    <2>2. ASSUME ~lost' PROVE ~checkpointed /\ InStep(bridged, holons'.scene[Ruled])
        <3>1. ~lost /\ (kept \/ holons = at_begin)
            BY <2>1, <2>2
        <3>2. ~checkpointed
            BY <2>1, <3>1 DEF BridgeInv
        <3>3. CASE kept
            BY <2>1, <3>1, <3>2, <3>3 DEF BridgeInv
        <3>4. CASE ~kept
            <4>1. holons = at_begin /\ holons' = at_begin
                BY <2>1, <3>1, <3>4
            <4> QED
                BY <2>1, <3>1, <3>2, <4>1 DEF BridgeInv
        <3> QED
            BY <3>3, <3>4
    <2> QED
        BY <1>7, <2>1, <2>2
<1>16. ASSUME Crash PROVE BridgeInv'
    <2>1. tick' = Idle /\ bridged' = holons'.scene[Ruled] /\ ~checkpointed' /\ ~failed'
        BY <1>16 DEF Crash
    <2>2. InStep(bridged', holons'.scene[Ruled])
        BY <2>1 DEF InStep
    <2> QED
        BY <1>7, <2>1, <2>2
<1>17. ASSUME UNCHANGED holon_vars PROVE BridgeInv'
    <2>1. UNCHANGED <<holons, at_begin, scope_open, bridged, since_checkpoint, checkpointed, failed, lost, tick>>
        BY <1>17 DEF holon_vars
    <2>2. /\ PriorScene(Ruled)' = PriorScene(Ruled) /\ Reverted' = Reverted /\ Here' = Here /\ Scene' = Scene
          /\ Working' = Working /\ Undoable' = Undoable
        BY <2>1 DEF PriorScene, Undoable, Before, Scene, Here, Reverted, Working
    <2> QED
        BY <2>1, <2>2 DEF BridgeInv
<1>18. ASSUME NEW x \in Triple, ApplyAdd(x) \/ ApplyRemove(x) \/ WriteInferred(x) PROVE BridgeInv'
    BY <1>0, <1>2, <1>18, ChangeSteps
<1>19. ASSUME SkipRules \/ WrongRules \/ AllInferred \/ TickFails PROVE BridgeInv'
    <2>1. CASE SkipRules
        <3>1. tick.pc = "apply" /\ Undoable /\ Working /\ ~tick.rules /\ MoveStep("validate") /\ UNCHANGED <<bridged, since_checkpoint, checkpointed>>
            BY <1>0, <2>1, MoveSteps DEF Working, Undoable, SkipRules
        <3>2. CASE lost
            BY <3>1, <3>2 DEF BridgeInv, MoveStep
        <3>3. CASE ~lost
            <4>1. Here # Ruled
                BY <3>1, <3>3 DEF BridgeInv
            <4> QED
                BY <1>3, <3>1, <4>1
        <3> QED
            BY <3>2, <3>3
    <2>2. CASE WrongRules \/ AllInferred \/ TickFails
        BY <1>0, <1>3, <2>2, MoveSteps DEF Working, Undoable
    <2> QED
        BY <1>19, <2>1, <2>2
<1> QED
    BY <1>1, <1>4, <1>5, <1>6, <1>8, <1>9, <1>11, <1>12, <1>13, <1>14, <1>15, <1>16, <1>17, <1>18, <1>19
       DEF HolonNext

\* Between ticks the bridge of the rules is in step with the scene, whatever was refused,
\* failed, joined, branched or crashed, until the store loses a tick that the bridge has been
\* told is kept.
THEOREM BridgeStaysInStep == HolonSpec => []BridgeInStep
<1> DEFINE I == FrameInv /\ LogInv /\ GrowInv /\ BridgeInv
<1>1. HolonInit => I
    BY InitFrame, InitLog, InitGrow, InitBridge
<1>2. I /\ [HolonNext]_holon_vars => I'
    BY NextFrame, NextLog, NextGrow, NextBridge
<1>3. I => BridgeInStep
    BY DEF FrameInv, BridgeInv, BridgeInStep, BridgeAlwaysInStep, InStep
<1> QED
    BY <1>1, <1>2, <1>3, PTL DEF HolonSpec

=============================================================================
