----------------------------- MODULE SpillProofs -----------------------------
(***************************************************************************)
(* That the operators which hold rows leave no scratch behind, and that    *)
(* they deliver what one sort or one deduplication of the whole input in   *)
(* memory would: for any rows, keys, budget, scratch limit and slice,      *)
(* wherever the input was cut into runs.                                   *)
(***************************************************************************)
EXTENDS Spill, FiniteSetTheorems, WellFoundedInduction, TLAPS

-----------------------------------------------------------------------------
(* Scratch                                                                 *)

\* While the operator runs, the files are those of the runs on record and the directory is
\* there, but for the heap, which has neither.
ScratchInv ==
    /\ \E S : run_rows \in Seq(S)
    /\ op = "topk" => run_rows = <<>> /\ heads = <<>>
    /\ ending = "running" => run_files = 1..Len(run_rows) /\ dir = (op # "topk")
    /\ ScratchGone

\* A longer sequence of runs.
LEMMA AppendRun ==
    ASSUME NEW S, NEW s \in Seq(S), NEW e
    PROVE  /\ Append(s, e) \in Seq(S \cup {e})
           /\ Len(Append(s, e)) = Len(s) + 1
<1>1. s \in Seq(S \cup {e})
  OBVIOUS
<1> QED
  BY <1>1

\* A spill leaves the files of the runs on record, nothing, or the file whose writing failed.
LEMMA ScratchSpill ==
    ASSUME ScratchInv, ending = "running", op # "topk", UNCHANGED <<op, heads>>,
           NEW buffer, spill_buffer(buffer)
    PROVE  ScratchInv'
<1>1. PICK S : run_rows \in Seq(S)
  BY DEF ScratchInv
<1>2. Len(run_rows) \in Nat /\ run_files = 1..Len(run_rows) /\ dir = (op # "topk")
  BY <1>1 DEF ScratchInv
<1>3. CASE ending' = "io" /\ run_files' \in {{}, {Len(run_rows) + 1}} /\ dir' = (run_files' # {}) /\ UNCHANGED run_rows
  BY <1>1, <1>2, <1>3 DEF ScratchInv, ScratchGone
<1>4. ASSUME NEW run, run_rows' = Append(run_rows, run),
             \/ ending' = "DiskLimit" /\ run_files' = {} /\ dir' = FALSE
             \/ run_files' = run_files \cup {Len(run_rows')} /\ UNCHANGED <<ending, dir>>
      PROVE  ScratchInv'
  <2>1. run_rows' \in Seq(S \cup {run}) /\ Len(run_rows') = Len(run_rows) + 1
    BY <1>1, <1>4, AppendRun
  <2>2. 1..Len(run_rows') = 1..Len(run_rows) \cup {Len(run_rows')}
    BY <1>2, <2>1
  <2> QED
    BY <1>2, <1>4, <2>1, <2>2 DEF ScratchInv, ScratchGone
<1> QED
  BY <1>3, <1>4 DEF spill_buffer

\* An operator that ends with its runs on record leaves nothing.
LEMMA ScratchEnd ==
    ASSUME ScratchInv, ending = "running", NEW o, o # "running", End(o, Len(run_rows)),
           UNCHANGED <<op, heads, run_rows>>
    PROVE  ScratchInv'
<1>1. run_files' = {} /\ dir' = FALSE /\ ending' = o
  BY DEF ScratchInv, End, Drop
<1> QED
  BY <1>1 DEF ScratchInv, ScratchGone

\* Every step keeps the scratch in order.
LEMMA ScratchKept ==
    ASSUME ScratchInv, [SpillNext]_spill_vars
    PROVE  ScratchInv'
<1>1. CASE push
  <2>1. UNCHANGED <<op, heads>> /\ ending = "running" /\ op # "topk"
    BY <1>1 DEF push, Arriving, query
  <2>2. CASE UNCHANGED <<run_rows, run_files, dir, ending>>
    BY <2>1, <2>2 DEF ScratchInv, ScratchGone
  <2>3. ASSUME NEW buffer, spill_buffer(buffer) PROVE ScratchInv'
    BY <2>1, <2>3, ScratchSpill
  <2> QED
    BY <1>1, <2>2, <2>3 DEF push
<1>2. CASE offer
  BY <1>2 DEF offer, query, ScratchInv, ScratchGone
<1>3. CASE GiveUp
  BY <1>3, ScratchEnd DEF GiveUp, query
<1>4. CASE finish_heap
  <2>1. run_rows = <<>> /\ End("ok", Len(run_rows))
    BY <1>4 DEF finish_heap, ScratchInv
  <2> QED
    BY <1>4, <2>1, ScratchEnd DEF finish_heap, query, Arriving
<1>5. CASE merge
  BY <1>5 DEF merge, query, ScratchInv, ScratchGone
<1>6. CASE next_row
  <2>1. ending = "running" /\ UNCHANGED <<op, run_rows>> /\ op # "topk"
    BY <1>6 DEF next_row, query, Merging, ScratchInv
  <2>2. CASE UNCHANGED <<ending, run_files, dir>>
    BY <2>1, <2>2 DEF ScratchInv, ScratchGone
  <2>3. ASSUME NEW o \in {"ok", "io"}, End(o, Len(run_rows)), UNCHANGED heads PROVE ScratchInv'
    BY <2>1, <2>3, ScratchEnd
  <2> QED
    BY <1>6, <2>2, <2>3 DEF next_row
<1>7. CASE UNCHANGED spill_vars
  BY <1>7 DEF spill_vars, ScratchInv, ScratchGone
<1> QED
  BY <1>1, <1>2, <1>3, <1>4, <1>5, <1>6, <1>7 DEF SpillNext

\* However an operator ends (exhausted, satisfied, over its scratch limit, abandoned by the
\* client, or on a read that fails), Drop leaves neither run files nor their directory; only a
\* run whose writing failed is left, since it was not on record.
THEOREM ScratchAlwaysGone == SpillSpec => []ScratchGone
<1>1. SpillInit => ScratchInv
  <2>1. <<>> \in Seq({}) /\ Len(<<>>) = 0
    OBVIOUS
  <2> QED
    BY <2>1 DEF SpillInit, ScratchInv, ScratchGone
<1>2. ScratchInv /\ [SpillNext]_spill_vars => ScratchInv'
  BY ScratchKept
<1>3. ScratchInv => ScratchGone
  BY DEF ScratchInv
<1> QED
  BY <1>1, <1>2, <1>3, PTL DEF SpillSpec

-----------------------------------------------------------------------------
(* The order of rows                                                       *)

\* Rows that are told apart by their arrival, with keys that are totally ordered.
Row == [key : Keys, val : Values, at : Nat]
Apart(S) == S \subseteq Row /\ \A x, y \in S : x.at = y.at => x = y
Chain(S) == Apart(S) /\ Total(S)

\* The place of a row in the order: how many rows come before it.
Place(S, x) == Cardinality({y \in S : Before(y, x)})

\* The rank of a class.
LEMMA RankIs ==
    ASSUME NEW c \in Classes
    PROVE  Rank(c) \in 0..4 /\ (Rank(c) = 3 <=> c \in {"num", "str", "other"})
BY DEF Rank, Classes

\* Comparing the other way round gives the opposite.
LEMMA TermsOpposite ==
    ASSUME NEW a \in SortTerm, NEW b \in SortTerm
    PROVE  cmp_terms(a, b) \in {-1, 0, 1} /\ cmp_terms(b, a) = -cmp_terms(a, b)
<1>1. /\ a.class \in Classes /\ a.num \in Int /\ a.lex \in Int
      /\ b.class \in Classes /\ b.num \in Int /\ b.lex \in Int
  BY DEF SortTerm
<1>2. Rank(a.class) \in 0..4 /\ Rank(b.class) \in 0..4
  BY <1>1, RankIs
<1>3. \A i, j \in Int : Sign(i, j) \in {-1, 0, 1} /\ Sign(j, i) = -Sign(i, j)
  BY DEF Sign
<1>4. CASE Rank(a.class) # Rank(b.class)
  BY <1>2, <1>3, <1>4 DEF cmp_terms
<1>5. CASE Rank(a.class) = Rank(b.class) /\ Rank(a.class) # 3
  BY <1>1, <1>3, <1>5 DEF cmp_terms
<1>6. CASE Rank(a.class) = 3 /\ Rank(b.class) = 3
  <2>1. CASE a.class = "num" /\ b.class = "num"
    <3>1. partial_cmp_literals(a, b) = {Sign(a.num, b.num)} /\ partial_cmp_literals(b, a) = {Sign(b.num, a.num)}
      BY <2>1 DEF partial_cmp_literals
    <3>2. cmp_terms(a, b) = Sign(a.num, b.num) /\ cmp_terms(b, a) = Sign(b.num, a.num)
      BY <1>6, <3>1 DEF cmp_terms
    <3> QED
      BY <1>1, <1>3, <3>2
  <2>2. CASE a.class = "str" /\ b.class = "str"
    <3>1. partial_cmp_literals(a, b) = {Sign(a.lex, b.lex)} /\ partial_cmp_literals(b, a) = {Sign(b.lex, a.lex)}
      BY <2>2 DEF partial_cmp_literals
    <3>2. cmp_terms(a, b) = Sign(a.lex, b.lex) /\ cmp_terms(b, a) = Sign(b.lex, a.lex)
      BY <1>6, <3>1 DEF cmp_terms
    <3> QED
      BY <1>1, <1>3, <3>2
  <2>3. CASE ~(a.class = "num" /\ b.class = "num") /\ ~(a.class = "str" /\ b.class = "str")
    <3>1. partial_cmp_literals(a, b) = {} /\ partial_cmp_literals(b, a) = {}
      BY <2>3 DEF partial_cmp_literals
    <3>2. cmp_terms(a, b) = lexical_cmp(a, b) /\ cmp_terms(b, a) = lexical_cmp(b, a)
      BY <1>6, <3>1 DEF cmp_terms
    <3>3. lexical_cmp(a, b) \in {-1, 0, 1} /\ lexical_cmp(b, a) = -lexical_cmp(a, b)
      BY <1>1, <1>3 DEF lexical_cmp
    <3> QED
      BY <3>2, <3>3
  <2> QED
    BY <2>1, <2>2, <2>3
<1> QED
  BY <1>4, <1>5, <1>6

\* A set of naturals has a least member.
LEMMA LeastOf ==
    ASSUME NEW T \in SUBSET Nat, T # {}
    PROVE  \E m \in T : \A k \in T : m <= k
<1> DEFINE R == OpToRel(<, Nat)
<1>1. IsWellFoundedOn(R, Nat)
  BY NatLessThanWellFounded
<1>2. \A x, y \in Nat : x < y => <<x, y>> \in R
  BY DEF OpToRel
<1> HIDE DEF R
<1>3. PICK x \in T : \A y \in T : ~(<<y, x>> \in R)
  BY <1>1, WFMin
<1>4. ASSUME NEW k \in T PROVE x <= k
  <2>1. k \in Nat /\ x \in Nat
    OBVIOUS
  <2>2. k < x => <<k, x>> \in R
    BY <1>2, <2>1, Zenon
  <2> QED
    BY <1>3, <2>1, <2>2
<1> QED
  BY <1>4

\* The same for lists of keys, ascending or descending.
LEMMA KeysOpposite ==
    ASSUME NEW a \in Keys, NEW b \in Keys
    PROVE  cmp_keys(a, b) \in {-1, 0, 1} /\ cmp_keys(b, a) = 0 - cmp_keys(a, b)
<1>1. DOMAIN a = DOMAIN Descending /\ DOMAIN b = DOMAIN Descending /\ DOMAIN Descending \subseteq Nat
  BY SpillAssumption
<1>2. \A i \in DOMAIN a : a[i] \in SortTerm /\ b[i] \in SortTerm /\ Descending[i] \in BOOLEAN
  BY <1>1, SpillAssumption
<1>3. \A i \in DOMAIN a : cmp_terms(a[i], b[i]) \in {-1, 0, 1} /\ cmp_terms(b[i], a[i]) = -cmp_terms(a[i], b[i])
  BY <1>2, TermsOpposite
<1> DEFINE differ == {i \in DOMAIN a : cmp_terms(a[i], b[i]) # 0}
           back == {i \in DOMAIN b : cmp_terms(b[i], a[i]) # 0}
           i == Min(differ)
<1>4. back = differ
  BY <1>1, <1>3
<1>5. cmp_keys(a, b) = IF differ = {} THEN 0
                       ELSE IF Descending[i] THEN -cmp_terms(a[i], b[i]) ELSE cmp_terms(a[i], b[i])
  BY DEF cmp_keys
<1>6. cmp_keys(b, a) = IF back = {} THEN 0
                       ELSE IF Descending[Min(back)] THEN -cmp_terms(b[Min(back)], a[Min(back)])
                            ELSE cmp_terms(b[Min(back)], a[Min(back)])
  BY DEF cmp_keys
<1>7. CASE differ = {}
  <2> HIDE DEF differ, back, i
  <2>1. cmp_keys(a, b) = 0 /\ cmp_keys(b, a) = 0
    BY <1>4, <1>5, <1>6, <1>7
  <2> QED
    BY <2>1
<1>8. CASE differ # {}
  <2>1. \E m \in differ : \A k \in differ : m <= k
    BY <1>1, <1>8, LeastOf
  <2>2. i \in differ
    BY <2>1 DEF Min
  <2>3. i \in DOMAIN a /\ Descending[i] \in BOOLEAN
    BY <1>2, <2>2
  <2> HIDE DEF differ, back, i
  <2>4. cmp_keys(a, b) = IF Descending[i] THEN -cmp_terms(a[i], b[i]) ELSE cmp_terms(a[i], b[i])
    BY <1>5, <1>8
  <2>5. cmp_keys(b, a) = IF Descending[i] THEN -cmp_terms(b[i], a[i]) ELSE cmp_terms(b[i], a[i])
    BY <1>4, <1>6, <1>8 DEF i
  <2> QED
    BY <1>3, <2>3, <2>4, <2>5
<1> QED
  BY <1>7, <1>8

\* Before is a strict total order of a chain.
LEMMA BeforeOrders ==
    ASSUME NEW S, Chain(S), NEW x \in S, NEW y \in S
    PROVE  /\ ~Before(x, x)
           /\ x # y => Before(x, y) \/ Before(y, x)
           /\ Before(x, y) => ~Before(y, x)
           /\ \A z \in S : Before(x, y) /\ Before(y, z) => Before(x, z)
<1>1. \A u \in S : u \in Row /\ u.key \in Keys /\ u.at \in Nat
  BY DEF Chain, Apart, Row
<1> DEFINE c(u, v) == cmp_keys(u.key, v.key)
<1>2. \A u, v \in S : c(u, v) \in {-1, 0, 1} /\ c(v, u) = 0 - c(u, v)
  BY <1>1, KeysOpposite
<1>3. \A u, v, w \in S : c(u, v) <= 0 /\ c(v, w) <= 0 => c(u, w) <= 0
  BY DEF Chain, Total
<1>4. \A u, v \in S : Before(u, v) <=> c(u, v) < 0 \/ (c(u, v) = 0 /\ u.at < v.at)
  BY DEF Before
<1>5. \A u, v \in S : u.at = v.at => u = v
  BY DEF Chain, Apart
<1> HIDE DEF c
<1>6. ~Before(x, x)
  BY <1>1, <1>2, <1>4
<1>7. x # y => Before(x, y) \/ Before(y, x)
  BY <1>1, <1>2, <1>4, <1>5
<1>8. Before(x, y) => ~Before(y, x)
  BY <1>1, <1>2, <1>4
<1>9. ASSUME NEW z \in S, Before(x, y), Before(y, z) PROVE Before(x, z)
  <2>1. c(x, y) <= 0 /\ c(y, z) <= 0
    BY <1>2, <1>4, <1>9
  <2>2. c(x, z) <= 0
    BY <1>3, <2>1
  <2>3. CASE c(x, z) < 0
    BY <1>4, <2>3
  <2>4. CASE c(x, z) = 0
    <3>1. c(z, x) <= 0
      BY <1>2, <2>4
    <3>2. c(y, x) <= 0 /\ c(z, y) <= 0
      BY <1>3, <2>1, <3>1
    <3>3. c(x, y) = 0 /\ c(y, z) = 0
      BY <1>2, <2>1, <3>2
    <3>4. x.at < y.at /\ y.at < z.at
      BY <1>4, <1>9, <3>3
    <3> QED
      BY <1>1, <1>4, <2>4, <3>4
  <2> QED
    BY <1>2, <2>2, <2>3, <2>4
<1> QED
  BY <1>6, <1>7, <1>8, <1>9

-----------------------------------------------------------------------------
(* Sequences without repetition                                            *)

Injective(s) == \A i, j \in DOMAIN s : s[i] = s[j] => i = j

\* A sequence without repetition has as many members as its length says, and its first k
\* members are k.
LEMMA PrefixCount ==
    ASSUME NEW S, NEW s \in Seq(S), Injective(s), NEW k \in 0..Len(s)
    PROVE  /\ IsFiniteSet({s[i] : i \in 1..k})
           /\ Cardinality({s[i] : i \in 1..k}) = k
<1> DEFINE T == {s[i] : i \in 1..k}
           f == [i \in 1..k |-> s[i]]
<1>1. DOMAIN s = 1..Len(s) /\ Len(s) \in Nat /\ k \in Nat /\ 1..k \subseteq DOMAIN s
  OBVIOUS
<1>2. f \in [1..k -> T] /\ (\A t \in T : \E i \in 1..k : f[i] = t)
  OBVIOUS
<1>3. \A i, j \in 1..k : f[i] = f[j] => i = j
  BY <1>1 DEF Injective
<1> HIDE DEF f, T
<1>4. f \in Bijection(1..k, T)
  BY <1>2, <1>3 DEF Bijection, Injection, IsInjective, Surjection
<1>5. ExistsBijection(1..k, T)
  BY <1>4 DEF ExistsBijection
<1>6. IsFiniteSet(1..k) /\ Cardinality(1..k) = k
  BY <1>1, FS_Interval
<1> QED
  BY <1>5, <1>6, FS_Bijection DEF T

\* All of it.
LEMMA RowsCount ==
    ASSUME NEW S, NEW s \in Seq(S), Injective(s)
    PROVE  IsFiniteSet(Rows(s)) /\ Cardinality(Rows(s)) = Len(s) /\ Len(s) \in Nat /\ Rows(s) \subseteq S
<1>1. Rows(s) = {s[i] : i \in 1..Len(s)} /\ Len(s) \in 0..Len(s) /\ Len(s) \in Nat
  BY DEF Rows
<1>2. Rows(s) \subseteq S
  BY DEF Rows
<1> QED
  BY <1>1, <1>2, PrefixCount, Zenon

\* A sequence that SetToSeqs makes of a finite set has its members, each once.
LEMMA SeqsOf ==
    ASSUME NEW S, IsFiniteSet(S), NEW s \in SetToSeqs(S)
    PROVE  s \in Seq(S) /\ Len(s) = Cardinality(S) /\ Injective(s) /\ Rows(s) = S
<1>1. Cardinality(S) \in Nat
  BY FS_CardinalityType
<1>2. s \in [1..Cardinality(S) -> S] /\ \A i, j \in 1..Cardinality(S) : i # j => s[i] # s[j]
  BY DEF SetToSeqs
<1>3. s \in Seq(S) /\ Len(s) = Cardinality(S) /\ DOMAIN s = 1..Cardinality(S)
  BY <1>1, <1>2
<1>4. Injective(s)
  BY <1>2, <1>3 DEF Injective
<1>5. Rows(s) \subseteq S /\ Cardinality(Rows(s)) = Cardinality(S)
  BY <1>3, <1>4, RowsCount
<1>6. Rows(s) = S
  BY <1>5, FS_Subset
<1> QED
  BY <1>3, <1>4, <1>6

\* A sequence without repetition is one that SetToSeqs makes.
LEMMA SeqsHas ==
    ASSUME NEW S, NEW s \in Seq(S), Injective(s), Rows(s) = S
    PROVE  s \in SetToSeqs(S)
<1>1. Cardinality(S) = Len(s)
  BY RowsCount
<1>2. s \in [1..Cardinality(S) -> S]
  BY <1>1
<1> QED
  BY <1>1, <1>2 DEF SetToSeqs, Injective

-----------------------------------------------------------------------------
(* Places in the order                                                     *)

\* A part of a chain is one.
LEMMA PartOfChain ==
    ASSUME NEW S, Chain(S), NEW T, T \subseteq S
    PROVE  Chain(T)
BY DEF Chain, Apart, Total

\* A row's place is a number, and rows in order have rising places.
LEMMA PlaceRises ==
    ASSUME NEW S, IsFiniteSet(S), Chain(S), NEW x \in S
    PROVE  /\ Place(S, x) \in 0..(Cardinality(S) - 1)
           /\ \A y \in S : Before(x, y) => Place(S, x) < Place(S, y)
<1> DEFINE Under(v) == {u \in S : Before(u, v)}
<1>1. \A v \in S : IsFiniteSet(Under(v)) /\ Cardinality(Under(v)) \in Nat /\ x \notin Under(x)
  BY FS_Subset, FS_CardinalityType, BeforeOrders
<1>2. IsFiniteSet(Under(x) \cup {x}) /\ Cardinality(Under(x) \cup {x}) = Cardinality(Under(x)) + 1
  <2> HIDE DEF Under
  <2> QED
    BY <1>1, FS_AddElement
<1>3. Cardinality(Under(x)) + 1 <= Cardinality(S) /\ Cardinality(S) \in Nat
  <2>1. Under(x) \cup {x} \subseteq S
    OBVIOUS
  <2> HIDE DEF Under
  <2> QED
    BY <1>2, <2>1, FS_Subset, FS_CardinalityType
<1>4. ASSUME NEW y \in S, Before(x, y) PROVE Cardinality(Under(x)) < Cardinality(Under(y))
  <2>1. Under(x) \cup {x} \subseteq Under(y)
    BY <1>4, BeforeOrders
  <2> HIDE DEF Under
  <2>2. Cardinality(Under(x) \cup {x}) <= Cardinality(Under(y))
    BY <1>1, <2>1, FS_Subset
  <2> QED
    BY <1>1, <1>2, <2>2
<1>5. \A v \in S : Place(S, v) = Cardinality(Under(v))
  BY DEF Place
<1> HIDE DEF Under
<1> QED
  BY <1>1, <1>3, <1>4, <1>5

\* No two rows have the same place.
LEMMA PlaceTells ==
    ASSUME NEW S, IsFiniteSet(S), Chain(S), NEW x \in S, NEW y \in S, Place(S, x) = Place(S, y)
    PROVE  x = y
<1>1. Place(S, x) \in Int /\ Place(S, y) \in Int
  BY PlaceRises
<1>2. CASE Before(x, y)
  BY <1>1, <1>2, PlaceRises
<1>3. CASE Before(y, x)
  BY <1>1, <1>3, PlaceRises
<1> QED
  BY <1>2, <1>3, BeforeOrders

\* The k-th of rows in order has k - 1 rows before it.
LEMMA PlaceInOrder ==
    ASSUME NEW S, IsFiniteSet(S), Chain(S), NEW s \in InOrder(S), NEW k \in DOMAIN s
    PROVE  Place(S, s[k]) = k - 1
<1>1. s \in Seq(S) /\ Injective(s) /\ Rows(s) = S
  BY SeqsOf DEF InOrder
<1>2. \A i, j \in DOMAIN s : i < j => Before(s[i], s[j])
  BY DEF InOrder
<1>3. DOMAIN s = 1..Len(s) /\ Len(s) \in Nat /\ \A i \in DOMAIN s : s[i] \in S
  BY <1>1
<1>4. {y \in S : Before(y, s[k])} = {s[i] : i \in 1..(k - 1)}
  <2>1. ASSUME NEW i \in 1..(k - 1) PROVE s[i] \in S /\ Before(s[i], s[k])
    BY <1>2, <1>3
  <2>2. ASSUME NEW y \in S, Before(y, s[k]) PROVE y \in {s[i] : i \in 1..(k - 1)}
    <3>1. PICK i \in DOMAIN s : s[i] = y
      BY <1>1 DEF Rows
    <3>2. ~(k < i) /\ i # k
      BY <1>2, <1>3, <2>2, <3>1, BeforeOrders
    <3> QED
      BY <1>3, <3>1, <3>2
  <2> QED
    BY <2>1, <2>2
<1>5. k - 1 \in 0..Len(s)
  BY <1>3
<1> QED
  BY <1>1, <1>4, <1>5, PrefixCount DEF Place

\* A finite chain can be put in order: the row for each place.
LEMMA OrderExists ==
    ASSUME NEW S, IsFiniteSet(S), Chain(S)
    PROVE  \E s : s \in InOrder(S)
<1> DEFINE N == Cardinality(S)
           f == [x \in S |-> Place(S, x) + 1]
<1>1. N \in Nat
  BY FS_CardinalityType
<1>2. \A x \in S : Place(S, x) \in 0..(N - 1)
  BY PlaceRises
<1>3. f \in [S -> 1..N]
  BY <1>1, <1>2
<1>4. \A x, y \in S : f[x] = f[y] => x = y
  BY <1>2, PlaceTells
<1>5. f \in Surjection(S, 1..N)
  <2>1. f \in Injection(S, 1..N)
    BY <1>3, <1>4 DEF Injection, IsInjective
  <2>2. IsFiniteSet(1..N) /\ Cardinality(1..N) = Cardinality(S)
    BY <1>1, FS_Interval
  <2> HIDE DEF f, N
  <2> QED
    BY <2>1, <2>2, FS_Injection
<1>6. \A k \in 1..N : \E x \in S : f[x] = k
  BY <1>5 DEF Surjection
<1>7. \A k \in 1..N : \E x \in S : Place(S, x) = k - 1
  BY <1>1, <1>2, <1>6
<1> DEFINE s == [k \in 1..N |-> CHOOSE x \in S : Place(S, x) = k - 1]
<1> HIDE DEF N
<1>8. s \in [1..N -> S] /\ \A k \in 1..N : Place(S, s[k]) = k - 1
  BY <1>7
<1> HIDE DEF s
<1>9. \A i, j \in 1..N : i # j => s[i] # s[j]
  BY <1>1, <1>8
<1>10. \A i, j \in 1..N : i < j => Before(s[i], s[j])
  <2>1. SUFFICES ASSUME NEW i \in 1..N, NEW j \in 1..N, i < j PROVE Before(s[i], s[j])
    OBVIOUS
  <2>2. s[i] \in S /\ s[j] \in S /\ Place(S, s[i]) < Place(S, s[j]) /\ Place(S, s[i]) \in Int /\ Place(S, s[j]) \in Int
    BY <1>1, <1>8, <2>1
  <2>3. ~Before(s[j], s[i]) /\ s[i] # s[j]
    BY <2>2, PlaceRises
  <2> QED
    BY <2>2, <2>3, BeforeOrders
<1>11. s \in SetToSeqs(S)
  BY <1>8, <1>9 DEF SetToSeqs, N
<1> QED
  BY <1>8, <1>10, <1>11 DEF InOrder

-----------------------------------------------------------------------------
(* The input                                                               *)

Arrived(k) == {input[i] : i \in 1..k}

InputTyped == input \in Seq(Row) /\ \A i \in DOMAIN input : input[i].at = i

\* The rows of the input are told apart by their arrival, and are as many as its length.
LEMMA InputIs ==
    ASSUME InputTyped
    PROVE  /\ Injective(input) /\ Apart(Rows(input)) /\ IsFiniteSet(Rows(input))
           /\ Cardinality(Rows(input)) = Len(input) /\ Len(input) \in Nat
           /\ Arrived(Len(input)) = Rows(input) /\ Arrived(0) = {}
           /\ Total(Rows(input)) => Chain(Rows(input))
<1>1. Injective(input)
  BY DEF InputTyped, Injective
<1>2. /\ IsFiniteSet(Rows(input)) /\ Cardinality(Rows(input)) = Len(input) /\ Len(input) \in Nat
      /\ Rows(input) \subseteq Row
  BY <1>1, RowsCount DEF InputTyped
<1>3. Apart(Rows(input))
  BY <1>2 DEF InputTyped, Apart, Rows
<1>4. Arrived(Len(input)) = Rows(input) /\ Arrived(0) = {}
  BY DEF InputTyped, Arrived, Rows
<1> QED
  BY <1>1, <1>2, <1>3, <1>4 DEF Chain

\* One more row: it is new, and came after all the others.
LEMMA OneMore ==
    ASSUME InputTyped, NEW k \in Nat, k < Len(input)
    PROVE  /\ Arrived(k + 1) = Arrived(k) \cup {input[k + 1]} /\ Arrived(k + 1) \subseteq Rows(input)
           /\ input[k + 1] \in Row /\ input[k + 1] \notin Arrived(k) /\ input[k + 1] \in Rows(input)
           /\ \A r \in Arrived(k) : r \in Row /\ r.at < input[k + 1].at
<1>1. /\ DOMAIN input = 1..Len(input) /\ Len(input) \in Nat /\ k + 1 \in DOMAIN input
      /\ \A i \in DOMAIN input : input[i] \in Row /\ input[i].at = i
  BY DEF InputTyped
<1>2. 1..(k + 1) = 1..k \cup {k + 1} /\ 1..(k + 1) \subseteq DOMAIN input
  BY <1>1
<1>3. Arrived(k + 1) = Arrived(k) \cup {input[k + 1]} /\ Arrived(k + 1) \subseteq Rows(input)
  BY <1>2 DEF Arrived, Rows
<1>4. \A r \in Arrived(k) : r \in Row /\ r.at < input[k + 1].at
  BY <1>1 DEF Arrived
<1>5. input[k + 1] \notin Arrived(k)
  BY <1>1, <1>4
<1> QED
  BY <1>1, <1>3, <1>4, <1>5 DEF Rows

\* What has arrived is of the input.
LEMMA ArrivedIs ==
    ASSUME InputTyped, NEW k \in 0..Len(input)
    PROVE  Arrived(k) \subseteq Rows(input) /\ Arrived(k) \subseteq Row
BY DEF InputTyped, Arrived, Rows

\* Rows that stand at consecutive places from a on are that part of the input in order.
LEMMA FromPlaces ==
    ASSUME InputTyped, Total(Rows(input)), NEW s \in InOrder(Rows(input)), NEW a \in Nat, NEW b \in 0..Len(input),
           NEW d \in Seq(Row), Len(d) = IF a <= b THEN b - a ELSE 0,
           \A j \in DOMAIN d : d[j] \in Rows(input) /\ Place(Rows(input), d[j]) = a + j - 1
    PROVE  d = SubSeq(s, a + 1, b)
<1> DEFINE S == Rows(input)
<1>1. IsFiniteSet(S) /\ Chain(S) /\ Cardinality(S) = Len(input) /\ Len(input) \in Nat
  BY InputIs
<1> HIDE DEF S
<1>2. s \in Seq(S) /\ Len(s) = Len(input) /\ Rows(s) = S
  BY <1>1, SeqsOf DEF InOrder, S
<1>3. ASSUME NEW j \in 1..Len(d) PROVE d[j] = s[a + j]
  <2>1. a + j \in DOMAIN s /\ j \in DOMAIN d /\ a + j \in Nat /\ j \in Nat
    BY <1>1, <1>2
  <2>2. Place(S, s[a + j]) = a + j - 1 /\ s[a + j] \in S
    BY <1>1, <1>2, <2>1, PlaceInOrder DEF S
  <2>3. Place(S, d[j]) = a + j - 1 /\ d[j] \in S
    BY <2>1 DEF S
  <2> QED
    BY <1>1, <2>2, <2>3, PlaceTells
<1> DEFINE e == SubSeq(s, a + 1, b)
<1>4. e \in Seq(S) /\ Len(e) = Len(d) /\ \A j \in 1..Len(d) : e[j] = s[a + j]
  BY <1>1, <1>2
<1> HIDE DEF e
<1>5. d = e
  BY <1>3, <1>4
<1> QED
  BY <1>5 DEF e

-----------------------------------------------------------------------------
(* The sources of the merge                                                *)

RowsOf(src) == {r \in Row : \E i \in DOMAIN src : \E k \in DOMAIN src[i] : src[i][k] = r}

\* No row is twice in a source, and the rows of a source arrived before those of a later one.
ByArrival(src) ==
    /\ \A i \in DOMAIN src : Injective(src[i])
    /\ \A i, j \in DOMAIN src : i < j =>
          \A k \in DOMAIN src[i], l \in DOMAIN src[j] : src[i][k].at < src[j][l].at

\* Sources, and one more.
LEMMA OneSourceMore ==
    ASSUME NEW rs \in Seq(Seq(Row)), NEW b \in Seq(Row), NEW src, src = Append(rs, b)
    PROVE  /\ src \in Seq(Seq(Row)) /\ Len(src) = Len(rs) + 1 /\ Len(rs) \in Nat
           /\ DOMAIN src = 1..(Len(rs) + 1) /\ DOMAIN rs = 1..Len(rs)
           /\ src[Len(rs) + 1] = b /\ \A i \in DOMAIN rs : src[i] = rs[i]
OBVIOUS

\* Its rows are theirs and its own.
LEMMA RowsOfMore ==
    ASSUME NEW rs \in Seq(Seq(Row)), NEW b \in Seq(Row)
    PROVE  RowsOf(Append(rs, b)) = RowsOf(rs) \cup Rows(b)
<1>1. PICK src : src = Append(rs, b)
  OBVIOUS
<1>2. /\ DOMAIN src = 1..(Len(rs) + 1) /\ DOMAIN rs = 1..Len(rs) /\ Len(rs) \in Nat
      /\ src[Len(rs) + 1] = b /\ \A i \in DOMAIN rs : src[i] = rs[i]
  BY <1>1, OneSourceMore
<1>3. ASSUME NEW r \in RowsOf(src) PROVE r \in RowsOf(rs) \cup Rows(b)
  <2>1. PICK i \in DOMAIN src : \E k \in DOMAIN src[i] : src[i][k] = r
    BY DEF RowsOf
  <2>2. CASE i = Len(rs) + 1
    BY <1>2, <2>1, <2>2 DEF Rows
  <2>3. CASE i \in DOMAIN rs
    BY <1>2, <2>1, <2>3 DEF RowsOf
  <2> QED
    BY <1>2, <2>2, <2>3
<1>4. ASSUME NEW r \in RowsOf(rs) PROVE r \in RowsOf(src)
  BY <1>2 DEF RowsOf
<1>5. ASSUME NEW r \in Rows(b) PROVE r \in RowsOf(src)
  <2>1. r \in Row /\ \E k \in DOMAIN b : b[k] = r
    BY DEF Rows
  <2> QED
    BY <1>2, <2>1 DEF RowsOf
<1> QED
  BY <1>1, <1>3, <1>4, <1>5

\* It keeps the order of arrival if its rows came after theirs.
LEMMA ByArrivalMore ==
    ASSUME NEW rs \in Seq(Seq(Row)), NEW b \in Seq(Row)
    PROVE  ByArrival(Append(rs, b)) <=>
             /\ ByArrival(rs) /\ Injective(b)
             /\ \A r \in RowsOf(rs), q \in Rows(b) : r.at < q.at
<1>1. PICK src : src = Append(rs, b)
  OBVIOUS
<1>2. /\ DOMAIN src = 1..(Len(rs) + 1) /\ DOMAIN rs = 1..Len(rs) /\ Len(rs) \in Nat
      /\ src[Len(rs) + 1] = b /\ \A i \in DOMAIN rs : src[i] = rs[i]
  BY <1>1, OneSourceMore
<1>3. ASSUME ByArrival(src)
      PROVE  /\ ByArrival(rs) /\ Injective(b)
             /\ \A r \in RowsOf(rs), q \in Rows(b) : r.at < q.at
  <2>1. ByArrival(rs)
    <3>1. \A i \in DOMAIN rs : Injective(rs[i])
      BY <1>2, <1>3 DEF ByArrival
    <3>2. ASSUME NEW i \in DOMAIN rs, NEW j \in DOMAIN rs, i < j,
                 NEW k \in DOMAIN rs[i], NEW l \in DOMAIN rs[j]
          PROVE  rs[i][k].at < rs[j][l].at
      <4>1. i \in DOMAIN src /\ j \in DOMAIN src /\ src[i] = rs[i] /\ src[j] = rs[j]
        BY <1>2
      <4> QED
        BY <1>3, <3>2, <4>1 DEF ByArrival
    <3> QED
      BY <3>1, <3>2 DEF ByArrival
  <2>2. Injective(b)
    BY <1>2, <1>3 DEF ByArrival
  <2>3. ASSUME NEW r \in RowsOf(rs), NEW q \in Rows(b) PROVE r.at < q.at
    <3>1. PICK i \in DOMAIN rs : \E k \in DOMAIN rs[i] : rs[i][k] = r
      BY DEF RowsOf
    <3>2. PICK l \in DOMAIN b : b[l] = q
      BY DEF Rows
    <3>3. i \in DOMAIN src /\ Len(rs) + 1 \in DOMAIN src /\ i < Len(rs) + 1
      BY <1>2
    <3> QED
      BY <1>2, <1>3, <3>1, <3>2, <3>3 DEF ByArrival
  <2> QED
    BY <2>1, <2>2, <2>3
<1>4. ASSUME ByArrival(rs), Injective(b), \A r \in RowsOf(rs), q \in Rows(b) : r.at < q.at
      PROVE  ByArrival(src)
  <2>1. \A i \in DOMAIN src : Injective(src[i])
    BY <1>2, <1>4 DEF ByArrival
  <2>2. ASSUME NEW i \in DOMAIN src, NEW j \in DOMAIN src, i < j,
               NEW k \in DOMAIN src[i], NEW l \in DOMAIN src[j]
        PROVE  src[i][k].at < src[j][l].at
    <3>1. i \in DOMAIN rs /\ src[i] = rs[i] /\ rs[i] \in Seq(Row)
      BY <1>2, <2>2
    <3>2. CASE j \in DOMAIN rs
      BY <1>2, <1>4, <2>2, <3>1, <3>2 DEF ByArrival
    <3>3. CASE j = Len(rs) + 1
      <4>1. src[i][k] \in RowsOf(rs)
        BY <2>2, <3>1 DEF RowsOf
      <4>2. src[j][l] \in Rows(b)
        BY <1>2, <2>2, <3>3 DEF Rows
      <4> QED
        BY <1>4, <4>1, <4>2
    <3>4. j \in DOMAIN rs \/ j = Len(rs) + 1
      BY <1>2, <2>2
    <3> QED
      BY <3>2, <3>3, <3>4
  <2> QED
    BY <2>1, <2>2 DEF ByArrival
<1> QED
  BY <1>1, <1>3, <1>4

\* A row is at one place only.
LEMMA OnePlace ==
    ASSUME NEW src \in Seq(Seq(Row)), ByArrival(src), NEW i \in DOMAIN src, NEW j \in DOMAIN src,
           NEW k \in DOMAIN src[i], NEW l \in DOMAIN src[j], src[i][k] = src[j][l]
    PROVE  i = j /\ k = l
<1>1. i \in Int /\ j \in Int /\ src[i] \in Seq(Row) /\ src[j] \in Seq(Row)
  OBVIOUS
<1>2. src[i][k] \in Row /\ src[i][k].at \in Int
  <2>1. \A s \in Seq(Row) : \A m \in DOMAIN s : s[m] \in Row
    OBVIOUS
  <2>2. src[i][k] \in Row
    BY <1>1, <2>1
  <2> QED
    BY <2>2 DEF Row
<1>3. ~(i < j) /\ ~(j < i)
  BY <1>1, <1>2 DEF ByArrival
<1> QED
  BY <1>1, <1>3 DEF ByArrival, Injective

Taken(src, h) ==
    {r \in Row : \E i \in DOMAIN src : \E k \in DOMAIN src[i] : k < h[i] /\ src[i][k] = r}
Left(src, h) ==
    {r \in Row : \E i \in DOMAIN src : \E k \in DOMAIN src[i] : h[i] <= k /\ src[i][k] = r}

\* At first nothing is taken; every row is taken or left; at last nothing is left.
LEMMA TakenOrLeft ==
    ASSUME NEW src \in Seq(Seq(Row)), NEW h \in [DOMAIN src -> Nat \ {0}]
    PROVE  /\ Taken(src, h) \cup Left(src, h) = RowsOf(src)
           /\ (\A i \in DOMAIN src : h[i] = 1) => Taken(src, h) = {}
           /\ (\A i \in DOMAIN src : ~(h[i] <= Len(src[i]))) => Left(src, h) = {}
<1>1. \A i \in DOMAIN src : DOMAIN src[i] = 1..Len(src[i]) /\ Len(src[i]) \in Nat /\ h[i] \in Nat \ {0}
  OBVIOUS
<1>2. Taken(src, h) \cup Left(src, h) \subseteq RowsOf(src)
  BY DEF Taken, Left, RowsOf
<1>3. ASSUME NEW r \in RowsOf(src) PROVE r \in Taken(src, h) \cup Left(src, h)
  <2>0. PICK i \in DOMAIN src : \E k \in DOMAIN src[i] : src[i][k] = r
    BY DEF RowsOf
  <2>1. PICK k \in DOMAIN src[i] : src[i][k] = r
    BY <2>0
  <2>2. k < h[i] \/ h[i] <= k
    BY <1>1, <2>1
  <2> QED
    BY <2>1, <2>2 DEF Taken, Left, RowsOf
<1>4. (\A i \in DOMAIN src : h[i] = 1) => Taken(src, h) = {}
  BY <1>1 DEF Taken
<1>5. (\A i \in DOMAIN src : ~(h[i] <= Len(src[i]))) => Left(src, h) = {}
  BY <1>1 DEF Left
<1> QED
  BY <1>2, <1>3, <1>4, <1>5

\* The types of sources and heads.
LEMMA HeadTypes ==
    ASSUME NEW src \in Seq(Seq(Row)), NEW h \in [DOMAIN src -> Nat \ {0}], NEW j \in DOMAIN src
    PROVE  DOMAIN src[j] = 1..Len(src[j]) /\ Len(src[j]) \in Nat /\ h[j] \in Nat \ {0} /\ src[j] \in Seq(Row)
OBVIOUS

Moved(src, h, g, r) ==
    /\ g \in [DOMAIN src -> Nat \ {0}]
    /\ r \in Row /\ r \in Left(src, h) /\ r \notin Taken(src, h)
    /\ Taken(src, g) = Taken(src, h) \cup {r}
    /\ Left(src, g) = Left(src, h) \ {r}

\* A head moves on: its row is taken, was not before, and is left no more.
LEMMA HeadMoves ==
    ASSUME NEW src \in Seq(Seq(Row)), ByArrival(src), NEW h \in [DOMAIN src -> Nat \ {0}],
           NEW i \in DOMAIN src, h[i] <= Len(src[i]), NEW g, g = [h EXCEPT ![i] = @ + 1], NEW r, r = src[i][h[i]]
    PROVE  Moved(src, h, g, r)
<1>1. \A j \in DOMAIN src : DOMAIN src[j] = 1..Len(src[j]) /\ Len(src[j]) \in Nat /\ h[j] \in Nat \ {0} /\ src[j] \in Seq(Row)
  BY HeadTypes
<1>2. g \in [DOMAIN src -> Nat \ {0}] /\ g[i] = h[i] + 1 /\ \A j \in DOMAIN src \ {i} : g[j] = h[j]
  BY <1>1
<1>3. h[i] \in DOMAIN src[i] /\ r \in Row
  BY <1>1
<1>4. r \in Left(src, h)
  BY <1>1, <1>3 DEF Left
<1>5. ASSUME NEW j \in DOMAIN src, NEW k \in DOMAIN src[j], src[j][k] = r PROVE j = i /\ k = h[i]
  <2>1. h[i] \in DOMAIN src[i] /\ k \in DOMAIN src[j] /\ src[j][k] = src[i][h[i]]
    BY <1>3, <1>5
  <2>2. \A a, b \in DOMAIN src : \A x \in DOMAIN src[a], y \in DOMAIN src[b] : src[a][x] = src[b][y] => a = b /\ x = y
    BY OnePlace
  <2> QED
    BY <1>5, <2>1, <2>2
<1>6. r \notin Taken(src, h)
  BY <1>1, <1>5 DEF Taken
<1>7. Taken(src, g) = Taken(src, h) \cup {r}
  <2>1. ASSUME NEW q \in Taken(src, g), q # r PROVE q \in Taken(src, h)
    <3>0. PICK j \in DOMAIN src : \E k \in DOMAIN src[j] : k < g[j] /\ src[j][k] = q
      BY <2>1 DEF Taken
    <3>1. PICK k \in DOMAIN src[j] : k < g[j] /\ src[j][k] = q
      BY <3>0
    <3>2. k < h[j]
      BY <1>1, <1>2, <2>1, <3>1
    <3> QED
      BY <2>1, <3>1, <3>2 DEF Taken
  <2>2. ASSUME NEW q \in Taken(src, h) PROVE q \in Taken(src, g)
    <3>0. PICK j \in DOMAIN src : \E k \in DOMAIN src[j] : k < h[j] /\ src[j][k] = q
      BY <2>2 DEF Taken
    <3>1. PICK k \in DOMAIN src[j] : k < h[j] /\ src[j][k] = q
      BY <3>0
    <3>2. k < g[j]
      BY <1>1, <1>2, <3>1
    <3> QED
      BY <2>2, <3>1, <3>2 DEF Taken
  <2>3. r \in Taken(src, g)
    BY <1>1, <1>2, <1>3 DEF Taken
  <2> QED
    BY <2>1, <2>2, <2>3
<1>8. Left(src, g) = Left(src, h) \ {r}
  <2>1. ASSUME NEW q \in Left(src, g) PROVE q \in Left(src, h) /\ q # r
    <3>0. PICK j \in DOMAIN src : \E k \in DOMAIN src[j] : g[j] <= k /\ src[j][k] = q
      BY <2>1 DEF Left
    <3>1. PICK k \in DOMAIN src[j] : g[j] <= k /\ src[j][k] = q
      BY <3>0
    <3>2. h[j] <= k /\ ~(j = i /\ k = h[i])
      BY <1>1, <1>2, <3>1
    <3>3. q # r
      BY <1>5, <3>1, <3>2
    <3> QED
      BY <2>1, <3>1, <3>2, <3>3 DEF Left
  <2>2. ASSUME NEW q \in Left(src, h), q # r PROVE q \in Left(src, g)
    <3>0. PICK j \in DOMAIN src : \E k \in DOMAIN src[j] : h[j] <= k /\ src[j][k] = q
      BY <2>2 DEF Left
    <3>1. PICK k \in DOMAIN src[j] : h[j] <= k /\ src[j][k] = q
      BY <3>0
    <3>2. g[j] <= k
      BY <1>1, <1>2, <2>2, <3>1
    <3> QED
      BY <2>2, <3>1, <3>2 DEF Left
  <2> QED
    BY <2>1, <2>2
<1> QED
  BY <1>2, <1>3, <1>4, <1>6, <1>7, <1>8 DEF Moved

-----------------------------------------------------------------------------
(* The invariant                                                           *)

Sources == Append(run_rows, live)

Rising(s) == \A i, j \in DOMAIN s : i < j => Before(s[i], s[j])
Climbing(s) == \A i, j \in DOMAIN s : i < j => s[i].val < s[j].val
ValuesApart(s) == \A i, j \in DOMAIN s : s[i].val = s[j].val => i = j

OpTyped ==
    /\ InputTyped /\ op \in {"distinct", "sort", "topk"}
    /\ slice \in [start : Nat, length : Int] /\ (op = "topk" => slice.length > 0)
    /\ n \in 0..Len(input) /\ run_rows \in Seq(Seq(Row)) /\ live \in Seq(Row)
    /\ delivered \in Seq(Row) /\ passed_over \in Nat

\* What the runs and the buffer hold of k rows: all of them (sort) or one for each value
\* (DISTINCT), cut into runs in the order of their arrival, each run sorted.
Holding(rs, b, k) ==
    /\ ByArrival(rs) /\ Injective(b) /\ \A r \in RowsOf(rs), q \in Rows(b) : r.at < q.at
    /\ RowsOf(rs) \cup Rows(b) \subseteq Arrived(k)
    /\ op = "sort" => /\ Arrived(k) \subseteq RowsOf(rs) \cup Rows(b)
                      /\ Total(Rows(input)) => \A i \in DOMAIN rs : Rising(rs[i])
    /\ op = "distinct" => /\ \A r \in Arrived(k) : \E q \in RowsOf(rs) \cup Rows(b) : q.val = r.val
                          /\ \A i \in DOMAIN rs : Climbing(rs[i])
                          /\ ValuesApart(b)

HeldInv == Holding(run_rows, live, n)

\* The sort's merge: what was taken was passed over or delivered, and stands in the order
\* before what is left; each row was delivered at its place in the whole input.
SortAt(src, h, d, p) ==
    /\ Total(Rows(input)) =>
          /\ \A x \in Taken(src, h), y \in Left(src, h) : Before(x, y)
          /\ \A j \in DOMAIN d : Place(Rows(input), d[j]) = p + j - 1
    /\ IsFiniteSet(Taken(src, h)) /\ Cardinality(Taken(src, h)) = p + Len(d)
    /\ Injective(d) /\ Rows(d) \subseteq Taken(src, h)
    /\ p <= slice.start /\ (Len(d) > 0 => p = slice.start)
    /\ slice.length >= 0 => Len(d) <= slice.length

SortInv ==
    /\ Total(Rows(input)) => Rising(live)
    /\ SortAt(Sources, heads, delivered, passed_over)

\* DISTINCT's merge: every value that was taken was delivered, once, and what is left is not
\* below it (or, read straight from the buffer, has other values).
DistinctAt(src, h, d) ==
    /\ ValuesApart(d) /\ Rows(d) \subseteq Taken(src, h)
    /\ \A r \in Taken(src, h) : \E q \in Rows(d) : q.val = r.val
    /\ run_rows # <<>> => Climbing(d) /\ \A x \in Rows(d), y \in Left(src, h) : x.val <= y.val
    /\ run_rows = <<>> => \A x \in Rows(d), y \in Left(src, h) : x.val # y.val

DistinctInv ==
    /\ run_rows # <<>> => Climbing(live)
    /\ DistinctAt(Sources, heads, delivered)

MergeInv ==
    /\ n = Len(input) /\ heads \in [DOMAIN Sources -> Nat \ {0}]
    /\ op = "sort" => SortInv
    /\ op = "distinct" => DistinctInv

\* The heap: of k rows as many as it may hold, and those the first.
HeapAt(b, k) ==
    /\ Injective(b) /\ Rows(b) \subseteq Arrived(k)
    /\ k <= Holds => Len(b) = k /\ Arrived(k) \subseteq Rows(b)
    /\ k > Holds => Len(b) = Holds
    /\ Total(Rows(input)) => \A x \in Rows(b), y \in Arrived(k) \ Rows(b) : Before(x, y)

HeapInv == HeapAt(live, n)

RunningInv ==
    /\ op = "topk" => HeapInv /\ heads = <<>>
    /\ op # "topk" => HeldInv /\ (heads # <<>> => MergeInv)
    /\ heads = <<>> => passed_over = 0 /\ delivered = <<>>

OpInv ==
    /\ OpTyped
    /\ ending = "running" => RunningInv
    /\ OperatorsExact

-----------------------------------------------------------------------------
(* Rows arrive: the buffer and the runs                                    *)

\* What sorting a buffer gives.
LEMMA SortingsIs ==
    ASSUME NEW b \in Seq(Row), Injective(b), NEW t, t \in Sortings(b) \/ t \in SetToSeqs(Rows(b))
    PROVE  /\ t \in Seq(Row) /\ Injective(t) /\ Rows(t) = Rows(b) /\ Len(t) = Len(b)
           /\ op = "distinct" /\ t \in Sortings(b) => Climbing(t)
           /\ op # "distinct" /\ t \in Sortings(b) /\ Total(Rows(b)) => Rising(t)
<1>1. IsFiniteSet(Rows(b)) /\ Rows(b) \subseteq Row /\ Cardinality(Rows(b)) = Len(b)
  BY RowsCount
<1>2. t \in SetToSeqs(Rows(b))
  BY DEF Sortings, InOrder
<1>3. t \in Seq(Rows(b)) /\ Injective(t) /\ Rows(t) = Rows(b) /\ Len(t) = Len(b)
  BY <1>1, <1>2, SeqsOf
<1>4. t \in Seq(Row)
  <2>1. \A A, B : A \subseteq B => Seq(A) \subseteq Seq(B)
    OBVIOUS
  <2> QED
    BY <1>1, <1>3, <2>1
<1>5. op = "distinct" /\ t \in Sortings(b) => Climbing(t)
  BY DEF Sortings, Climbing
<1>6. op # "distinct" /\ t \in Sortings(b) /\ Total(Rows(b)) => Rising(t)
  BY DEF Sortings, InOrder, Rising
<1> QED
  BY <1>3, <1>4, <1>5, <1>6

\* Values that are apart stay so in another order of the rows.
LEMMA ValuesStayApart ==
    ASSUME NEW b, NEW t, ValuesApart(b), Injective(t), Rows(t) = Rows(b)
    PROVE  ValuesApart(t)
<1>1. SUFFICES ASSUME NEW i \in DOMAIN t, NEW j \in DOMAIN t, t[i].val = t[j].val PROVE i = j
  BY DEF ValuesApart
<1>2. t[i] \in Rows(b) /\ t[j] \in Rows(b)
  BY DEF Rows
<1>3. PICK k \in DOMAIN b : b[k] = t[i]
  BY <1>2 DEF Rows
<1>4. PICK l \in DOMAIN b : b[l] = t[j]
  BY <1>2 DEF Rows
<1>5. k = l
  BY <1>1, <1>3, <1>4 DEF ValuesApart
<1> QED
  BY <1>3, <1>4, <1>5 DEF Injective

\* A buffer and a row: the rows, and that they are without repetition.
LEMMA RowsAppend ==
    ASSUME NEW b \in Seq(Row), NEW r \in Row
    PROVE  /\ Append(b, r) \in Seq(Row) /\ Rows(Append(b, r)) = Rows(b) \cup {r} /\ Len(Append(b, r)) = Len(b) + 1
           /\ Injective(b) /\ r \notin Rows(b) => Injective(Append(b, r))
           /\ ValuesApart(b) /\ (\A q \in Rows(b) : q.val # r.val) => ValuesApart(Append(b, r))
<1>1. PICK c : c = Append(b, r)
  OBVIOUS
<1>2. /\ c \in Seq(Row) /\ Len(c) = Len(b) + 1 /\ DOMAIN c = DOMAIN b \cup {Len(b) + 1}
      /\ c[Len(b) + 1] = r /\ (\A i \in DOMAIN b : c[i] = b[i]) /\ Len(b) + 1 \notin DOMAIN b
  BY <1>1
<1>3. Rows(c) = Rows(b) \cup {r}
  BY <1>2 DEF Rows
<1>4. Injective(b) /\ r \notin Rows(b) => Injective(c)
  BY <1>2 DEF Rows, Injective
<1>5. ValuesApart(b) /\ (\A q \in Rows(b) : q.val # r.val) => ValuesApart(c)
  BY <1>2 DEF Rows, ValuesApart
<1> QED
  BY <1>1, <1>2, <1>3, <1>4, <1>5

\* The rows of an empty source.
LEMMA NoRows == <<>> \in Seq(Row) /\ Rows(<<>>) = {} /\ Injective(<<>>) /\ ValuesApart(<<>>)
BY DEF Rows, Injective, ValuesApart

\* A row arrives in the buffer.
LEMMA HoldingRow ==
    ASSUME OpTyped, op # "topk", n < Len(input), Holding(run_rows, live, n), NEW b, b = Buffered(input[n + 1])
    PROVE  b \in Seq(Row) /\ Holding(run_rows, b, n + 1)
<1>1. PICK r : r = input[n + 1]
  OBVIOUS
<1>2. /\ Arrived(n + 1) = Arrived(n) \cup {r} /\ r \in Row /\ r \notin Arrived(n)
      /\ \A q \in Arrived(n) : q.at < r.at
  BY <1>1, OneMore DEF OpTyped
<1>3. live \in Seq(Row) /\ run_rows \in Seq(Seq(Row))
  BY DEF OpTyped
<1>4. CASE op = "distinct" /\ \E q \in Rows(live) : q.val = r.val
  <2>1. b = live
    BY <1>1, <1>4 DEF Buffered
  <2> QED
    BY <1>2, <1>3, <1>4, <2>1 DEF Holding
<1>5. CASE ~(op = "distinct" /\ \E q \in Rows(live) : q.val = r.val)
  <2>1. b = Append(live, r)
    BY <1>1, <1>5 DEF Buffered
  <2>2. b \in Seq(Row) /\ Rows(b) = Rows(live) \cup {r}
    BY <1>2, <1>3, <2>1, RowsAppend
  <2>3. Injective(b)
    BY <1>2, <1>3, <2>1, RowsAppend DEF Holding
  <2>4. \A x \in RowsOf(run_rows), q \in Rows(b) : x.at < q.at
    BY <1>2, <2>2 DEF Holding
  <2>5. RowsOf(run_rows) \cup Rows(b) \subseteq Arrived(n + 1)
    BY <1>2, <2>2 DEF Holding
  <2>6. op = "sort" => Arrived(n + 1) \subseteq RowsOf(run_rows) \cup Rows(b)
    BY <1>2, <2>2 DEF Holding
  <2>7. op = "distinct" => ValuesApart(b)
    BY <1>2, <1>3, <1>5, <2>1, RowsAppend DEF Holding
  <2>8. op = "distinct" => \A x \in Arrived(n + 1) : \E q \in RowsOf(run_rows) \cup Rows(b) : q.val = x.val
    BY <1>2, <2>2 DEF Holding
  <2> QED
    BY <2>2, <2>3, <2>4, <2>5, <2>6, <2>7, <2>8 DEF Holding
<1> QED
  BY <1>4, <1>5

\* The buffer is sorted, for the merge.
LEMMA HoldingSorted ==
    ASSUME NEW rs, NEW b \in Seq(Row), NEW k, Holding(rs, b, k), NEW t, t \in Sortings(b) \/ t \in SetToSeqs(Rows(b))
    PROVE  t \in Seq(Row) /\ Holding(rs, t, k)
<1>1. Injective(b)
  BY DEF Holding
<1>2. t \in Seq(Row) /\ Injective(t) /\ Rows(t) = Rows(b)
  BY <1>1, SortingsIs
<1>3. ValuesApart(b) => ValuesApart(t)
  BY <1>2, ValuesStayApart
<1> QED
  BY <1>2, <1>3 DEF Holding

\* The buffer becomes a run.
LEMMA HoldingRun ==
    ASSUME InputTyped, NEW rs \in Seq(Seq(Row)), NEW b \in Seq(Row), NEW k \in 0..Len(input), Holding(rs, b, k),
           op # "topk", NEW t \in Sortings(b)
    PROVE  Append(rs, t) \in Seq(Seq(Row)) /\ Holding(Append(rs, t), <<>>, k)
<1>1. t \in Seq(Row) /\ Holding(rs, t, k)
  BY HoldingSorted
<1>2. PICK src : src = Append(rs, t)
  OBVIOUS
<1>3. /\ src \in Seq(Seq(Row)) /\ DOMAIN src = DOMAIN rs \cup {Len(rs) + 1}
      /\ src[Len(rs) + 1] = t /\ \A i \in DOMAIN rs : src[i] = rs[i]
  BY <1>1, <1>2
<1>4. RowsOf(src) = RowsOf(rs) \cup Rows(t) /\ ByArrival(src)
  BY <1>1, <1>2, RowsOfMore, ByArrivalMore DEF Holding
<1>5. op = "distinct" => Climbing(t)
  BY SortingsIs DEF Holding
<1>6. op = "sort" /\ Total(Rows(input)) => Rising(t)
  <2>1. Rows(b) \subseteq Rows(input)
    BY ArrivedIs DEF Holding
  <2>2. Total(Rows(input)) => Total(Rows(b))
    BY <2>1 DEF Total
  <2> QED
    BY <2>2, SortingsIs DEF Holding
<1>7. op = "sort" => Arrived(k) \subseteq RowsOf(src) /\ (Total(Rows(input)) => \A i \in DOMAIN src : Rising(src[i]))
  BY <1>1, <1>3, <1>4, <1>6 DEF Holding
<1>8. op = "distinct" => /\ \A r \in Arrived(k) : \E q \in RowsOf(src) : q.val = r.val
                         /\ \A i \in DOMAIN src : Climbing(src[i])
  BY <1>1, <1>3, <1>4, <1>5 DEF Holding
<1>9. RowsOf(src) \subseteq Arrived(k)
  BY <1>1, <1>4 DEF Holding
<1> QED
  BY <1>2, <1>3, <1>4, <1>7, <1>8, <1>9, NoRows DEF Holding

-----------------------------------------------------------------------------
(* The merge: the head that goes first                                     *)

\* The sources of the merge, as the invariant and as the model name them.
LEMMA SourcesAre ==
    ASSUME OpTyped, HeldInv
    PROVE  /\ Sources \in Seq(Seq(Row)) /\ ByArrival(Sources) /\ RowsOf(Sources) = RowsOf(run_rows) \cup Rows(live)
           /\ DOMAIN Sources = 1..(Len(run_rows) + 1) /\ DOMAIN run_rows = 1..Len(run_rows) /\ Len(run_rows) \in Nat
           /\ \A i \in DOMAIN Sources : Source(i) = Sources[i] /\ (i \in DOMAIN run_rows => Sources[i] = run_rows[i])
                                                              /\ (i \notin DOMAIN run_rows => Sources[i] = live)
<1>1. run_rows \in Seq(Seq(Row)) /\ live \in Seq(Row)
  BY DEF OpTyped
<1>2. PICK src : src = Append(run_rows, live)
  OBVIOUS
<1>3. /\ src \in Seq(Seq(Row)) /\ DOMAIN src = 1..(Len(run_rows) + 1) /\ DOMAIN run_rows = 1..Len(run_rows) /\ Len(run_rows) \in Nat
      /\ src[Len(run_rows) + 1] = live /\ \A i \in DOMAIN run_rows : src[i] = run_rows[i]
  BY <1>1, <1>2, OneSourceMore
<1>4. ByArrival(src) /\ RowsOf(src) = RowsOf(run_rows) \cup Rows(live)
  BY <1>1, <1>2, RowsOfMore, ByArrivalMore DEF HeldInv, Holding
<1>5. ASSUME NEW i \in DOMAIN src
      PROVE  /\ Source(i) = src[i]
             /\ i \in DOMAIN run_rows => src[i] = run_rows[i]
             /\ i \notin DOMAIN run_rows => src[i] = live
  <2>1. CASE i \in DOMAIN run_rows
    BY <1>3, <2>1 DEF Source
  <2>2. CASE i = Len(run_rows) + 1
    BY <1>3, <2>2 DEF Source
  <2> QED
    BY <1>3, <1>5, <2>1, <2>2
<1> QED
  BY <1>2, <1>3, <1>4, <1>5 DEF Sources

\* A head in waiting is the first of its source that is left.
LEMMA HeadIs ==
    ASSUME OpTyped, HeldInv, heads \in [DOMAIN Sources -> Nat \ {0}], NEW j \in Waiting
    PROVE  /\ j \in DOMAIN Sources /\ j \in Nat /\ heads[j] \in DOMAIN Sources[j] /\ heads[j] <= Len(Sources[j])
           /\ HeadOf(j) = Sources[j][heads[j]] /\ HeadOf(j) \in Row /\ HeadOf(j) \in RowsOf(Sources)
<1> DEFINE src == Sources
<1>1. src \in Seq(Seq(Row)) /\ heads \in [DOMAIN src -> Nat \ {0}] /\ \A i \in DOMAIN src : Source(i) = src[i]
  BY SourcesAre
<1> HIDE DEF src
<1>2. j \in DOMAIN src /\ heads[j] <= Len(src[j])
  BY <1>1 DEF Waiting
<1>3. j \in Nat /\ heads[j] \in DOMAIN src[j]
  BY <1>1, <1>2, HeadTypes
<1>4. HeadOf(j) = src[j][heads[j]]
  BY <1>1, <1>2 DEF HeadOf
<1>5. HeadOf(j) \in Row
  BY <1>1, <1>2, <1>3, <1>4
<1>6. HeadOf(j) \in RowsOf(src)
  BY <1>2, <1>3, <1>4, <1>5 DEF RowsOf
<1> QED
  BY <1>2, <1>3, <1>4, <1>5, <1>6 DEF src

\* A row that is left is at or after the head of its source, which is in waiting.
LEMMA LeftIs ==
    ASSUME OpTyped, HeldInv, heads \in [DOMAIN Sources -> Nat \ {0}], NEW y \in Left(Sources, heads)
    PROVE  \E j \in Waiting : \E k \in DOMAIN Sources[j] : heads[j] <= k /\ Sources[j][k] = y
<1> DEFINE src == Sources
<1>1. src \in Seq(Seq(Row)) /\ heads \in [DOMAIN src -> Nat \ {0}] /\ \A i \in DOMAIN src : Source(i) = src[i]
  BY SourcesAre
<1>2. PICK j \in DOMAIN src : \E k \in DOMAIN src[j] : heads[j] <= k /\ src[j][k] = y
  BY DEF Left
<1> HIDE DEF src
<1>3. PICK k \in DOMAIN src[j] : heads[j] <= k /\ src[j][k] = y
  BY <1>2
<1>4. DOMAIN src[j] = 1..Len(src[j]) /\ Len(src[j]) \in Nat /\ heads[j] \in Nat \ {0}
  BY <1>1, HeadTypes
<1>5. heads[j] <= Len(src[j])
  BY <1>3, <1>4
<1>6. j \in Waiting
  BY <1>1, <1>5 DEF Waiting
<1> QED
  BY <1>3, <1>6 DEF src

\* The sort takes the first of the rows that are left: on equal keys the earlier source, whose
\* rows arrived earlier.
LEMMA FirstRises ==
    ASSUME OpTyped, HeldInv, op = "sort", heads \in [DOMAIN Sources -> Nat \ {0}],
           Total(Rows(input)), Rising(live), NEW i \in First, NEW y \in Left(Sources, heads), y # HeadOf(i)
    PROVE  Before(HeadOf(i), y)
<1> DEFINE S == Rows(input)
<1>1. Chain(S)
  BY InputIs DEF OpTyped
<1>2. RowsOf(Sources) \subseteq S
  BY SourcesAre, ArrivedIs DEF OpTyped, HeldInv, Holding
<1>3. \A j \in Waiting : HeadOf(j) \in S
  BY <1>2, HeadIs
<1>4. Total({HeadOf(j) : j \in Waiting})
  BY <1>3 DEF Total
<1>5. i \in Waiting /\ \A j \in Waiting \ {i} : Precedes(i, j)
  BY <1>4 DEF First
<1>6. PICK j \in Waiting : \E k \in DOMAIN Sources[j] : heads[j] <= k /\ Sources[j][k] = y
  BY LeftIs
<1>7. PICK k \in DOMAIN Sources[j] : heads[j] <= k /\ Sources[j][k] = y
  BY <1>6
<1>8. y \in S
  BY <1>2, SourcesAre, TakenOrLeft
<1>9. j \in DOMAIN Sources /\ j \in Nat /\ heads[j] \in DOMAIN Sources[j] /\ HeadOf(j) = Sources[j][heads[j]]
  BY HeadIs
<1>10. HeadOf(j) = y \/ Before(HeadOf(j), y)
  <2>1. Rising(Sources[j])
    BY <1>9, SourcesAre DEF HeldInv, Holding
  <2>2. Sources[j] \in Seq(Row)
    BY <1>9, SourcesAre
  <2>3. heads[j] = k \/ heads[j] < k
    BY <1>7, <1>9, <2>2
  <2> QED
    BY <1>7, <1>9, <2>1, <2>3 DEF Rising
<1>11. CASE j = i
  BY <1>10, <1>11
<1>12. CASE j # i
  <2>1. Precedes(i, j)
    BY <1>5, <1>12
  <2>2. cmp_keys(HeadOf(i).key, HeadOf(j).key) < 0 \/ (cmp_keys(HeadOf(i).key, HeadOf(j).key) = 0 /\ i < j)
    BY <2>1 DEF Precedes
  <2>3. i < j => HeadOf(i).at < HeadOf(j).at
    <3>1. i \in DOMAIN Sources /\ heads[i] \in DOMAIN Sources[i] /\ HeadOf(i) = Sources[i][heads[i]]
      BY <1>5, HeadIs
    <3> QED
      BY <1>9, <3>1, SourcesAre DEF ByArrival
  <2>4. Before(HeadOf(i), HeadOf(j))
    BY <2>2, <2>3 DEF Before
  <2>5. HeadOf(i) \in S /\ HeadOf(j) \in S
    BY <1>3, <1>5
  <2> HIDE DEF S
  <2> QED
    BY <1>1, <1>8, <1>10, <2>4, <2>5, BeforeOrders
<1> QED
  BY <1>11, <1>12

\* DISTINCT takes a row with the least of the values that are left.
LEMMA FirstClimbs ==
    ASSUME OpTyped, HeldInv, op = "distinct", heads \in [DOMAIN Sources -> Nat \ {0}],
           Climbing(live), NEW i \in First, NEW y \in Left(Sources, heads)
    PROVE  HeadOf(i).val <= y.val
<1>1. i \in Waiting /\ \A j \in Waiting \ {i} : Precedes(i, j)
  BY DEF First
<1>2. PICK j \in Waiting : \E k \in DOMAIN Sources[j] : heads[j] <= k /\ Sources[j][k] = y
  BY LeftIs
<1>3. PICK k \in DOMAIN Sources[j] : heads[j] <= k /\ Sources[j][k] = y
  BY <1>2
<1>4. /\ j \in DOMAIN Sources /\ heads[j] \in DOMAIN Sources[j] /\ HeadOf(j) = Sources[j][heads[j]]
      /\ HeadOf(j) \in Row /\ HeadOf(i) \in Row /\ y \in Row
  BY <1>1, HeadIs DEF Left
<1>5. HeadOf(j).val \in Int /\ HeadOf(i).val \in Int /\ y.val \in Int
  BY <1>4, SpillAssumption DEF Row
<1>6. HeadOf(j).val <= y.val
  <2>1. Climbing(Sources[j])
    BY <1>4, SourcesAre DEF HeldInv, Holding
  <2>2. Sources[j] \in Seq(Row)
    BY <1>4, SourcesAre
  <2>3. heads[j] = k \/ heads[j] < k
    BY <1>3, <1>4, <2>2
  <2> QED
    BY <1>3, <1>4, <1>5, <2>1, <2>3 DEF Climbing
<1>7. j # i => HeadOf(i).val <= HeadOf(j).val
  BY <1>1, <1>5 DEF Precedes
<1> QED
  BY <1>5, <1>6, <1>7

-----------------------------------------------------------------------------
(* The merge: a row is taken                                               *)

\* The sort passes a row over or delivers it.
LEMMA SortMoves ==
    ASSUME OpTyped, HeldInv, op = "sort", n = Len(input), heads \in [DOMAIN Sources -> Nat \ {0}], SortInv,
           ~(slice.length >= 0 /\ Len(delivered) >= slice.length),
           NEW i \in First, NEW r, r = HeadOf(i), NEW g, g = [heads EXCEPT ![i] = @ + 1], NEW d, NEW p,
           \/ passed_over < slice.start /\ p = passed_over + 1 /\ d = delivered
           \/ ~(passed_over < slice.start) /\ p = passed_over /\ d = Append(delivered, r)
    PROVE  /\ g \in [DOMAIN Sources -> Nat \ {0}] /\ d \in Seq(Row) /\ p \in Nat
           /\ SortAt(Sources, g, d, p)
<1> DEFINE src == Sources
           h == heads
           S == Rows(input)
<1>1. src \in Seq(Seq(Row)) /\ ByArrival(src) /\ h \in [DOMAIN src -> Nat \ {0}] /\ RowsOf(src) = S
  BY SourcesAre, InputIs DEF OpTyped, HeldInv, Holding
<1>2. i \in Waiting
  BY DEF First
<1>3. i \in DOMAIN src /\ h[i] <= Len(src[i]) /\ r = src[i][h[i]]
  BY <1>2, HeadIs
<1>4. /\ SortAt(src, h, delivered, passed_over)
      /\ delivered \in Seq(Row) /\ passed_over \in Nat /\ slice.start \in Nat /\ slice.length \in Int
      /\ g = [h EXCEPT ![i] = @ + 1] /\ Len(delivered) \in Nat
  BY DEF SortInv, OpTyped
<1>5. Total(S) => \A y \in Left(src, h) : y # r => Before(r, y)
  BY FirstRises DEF SortInv
<1>6. IsFiniteSet(S) /\ (Total(S) => Chain(S))
  BY InputIs DEF OpTyped
<1> HIDE DEF src, h, S
<1>7. /\ g \in [DOMAIN src -> Nat \ {0}]
      /\ r \in Row /\ r \in Left(src, h) /\ r \notin Taken(src, h)
      /\ Taken(src, g) = Taken(src, h) \cup {r}
      /\ Left(src, g) = Left(src, h) \ {r}
  <2>1. Moved(src, h, g, r)
    BY <1>1, <1>3, <1>4, HeadMoves
  <2> QED
    BY <2>1 DEF Moved
<1>8. Taken(src, h) \cup Left(src, h) = S
  BY <1>1, TakenOrLeft
<1>9. IsFiniteSet(Taken(src, h)) /\ Cardinality(Taken(src, h)) = passed_over + Len(delivered)
  BY <1>4 DEF SortAt
<1>10. IsFiniteSet(Taken(src, g)) /\ Cardinality(Taken(src, g)) = passed_over + Len(delivered) + 1
  <2>1. PICK T : T = Taken(src, h)
    OBVIOUS
  <2>2. IsFiniteSet(T) /\ r \notin T /\ Cardinality(T) = passed_over + Len(delivered)
    BY <1>7, <1>9, <2>1
  <2>3. IsFiniteSet(T \cup {r}) /\ Cardinality(T \cup {r}) = Cardinality(T) + 1
    BY <2>2, FS_AddElement
  <2> QED
    BY <1>7, <2>1, <2>2, <2>3
<1>11. Total(S) => \A x \in Taken(src, h), y \in Left(src, h) : Before(x, y)
  BY <1>4 DEF SortAt, S
<1>12. Total(S) => \A x \in Taken(src, g), y \in Left(src, g) : Before(x, y)
  BY <1>5, <1>7, <1>11
<1>13. /\ Total(S) => \A j \in DOMAIN delivered : Place(S, delivered[j]) = passed_over + j - 1
       /\ Injective(delivered) /\ Rows(delivered) \subseteq Taken(src, h)
       /\ passed_over <= slice.start /\ (Len(delivered) > 0 => passed_over = slice.start)
       /\ slice.length >= 0 => Len(delivered) <= slice.length
  BY <1>4 DEF SortAt, S
<1>14. CASE passed_over < slice.start /\ p = passed_over + 1 /\ d = delivered
  <2>1. Len(d) = 0 /\ d \in Seq(Row) /\ DOMAIN d = {}
    BY <1>4, <1>13, <1>14
  <2>2. p \in Nat /\ p <= slice.start /\ Cardinality(Taken(src, g)) = p + Len(d)
    BY <1>4, <1>10, <1>14, <2>1
  <2>3. Injective(d) /\ Rows(d) \subseteq Taken(src, g)
    BY <1>7, <1>13, <1>14
  <2>4. SortAt(src, g, d, p)
    <3>1. (Len(d) > 0 => p = slice.start) /\ (slice.length >= 0 => Len(d) <= slice.length)
      BY <1>4, <2>1
    <3>2. \A j \in DOMAIN d : Place(S, d[j]) = p + j - 1
      BY <2>1
    <3> QED
      BY <1>10, <1>12, <2>2, <2>3, <3>1, <3>2 DEF SortAt, S
  <2> QED
    BY <1>7, <2>1, <2>2, <2>4 DEF src
<1>15. CASE ~(passed_over < slice.start) /\ p = passed_over /\ d = Append(delivered, r)
  <2>1. p = slice.start /\ p \in Nat
    BY <1>4, <1>13, <1>15
  <2>2. d \in Seq(Row) /\ Rows(d) = Rows(delivered) \cup {r} /\ Len(d) = Len(delivered) + 1
    BY <1>4, <1>7, <1>15, RowsAppend
  <2>3. Injective(d)
    BY <1>4, <1>7, <1>13, <1>15, RowsAppend
  <2>4. Rows(d) \subseteq Taken(src, g)
    BY <1>7, <1>13, <2>2
  <2>5. Cardinality(Taken(src, g)) = p + Len(d) /\ (slice.length >= 0 => Len(d) <= slice.length)
    BY <1>4, <1>10, <1>15, <2>2
  <2>6. ASSUME Total(S), NEW j \in DOMAIN d PROVE Place(S, d[j]) = p + j - 1
    <3>1. CASE j \in DOMAIN delivered
      <4>1. d[j] = delivered[j]
        BY <1>4, <1>15, <3>1
      <4> QED
        BY <1>13, <1>15, <2>6, <3>1, <4>1
    <3>2. CASE j = Len(delivered) + 1
      <4>1. d[j] = r
        BY <1>4, <1>15, <3>2
      <4>2. {y \in S : Before(y, r)} = Taken(src, h)
        <5>1. \A y \in Taken(src, h) : y \in S /\ Before(y, r)
          BY <1>7, <1>8, <1>11, <2>6
        <5>2. \A y \in Left(src, h) : ~Before(y, r)
          BY <1>5, <1>6, <1>7, <1>8, <2>6, BeforeOrders
        <5> QED
          BY <1>8, <5>1, <5>2
      <4>3. Place(S, r) = passed_over + Len(delivered)
        BY <1>9, <4>2 DEF Place
      <4> QED
        BY <1>4, <1>15, <3>2, <4>1, <4>3
    <3>3. j \in DOMAIN delivered \/ j = Len(delivered) + 1
      BY <1>4, <1>15, <2>6
    <3> QED
      BY <3>1, <3>2, <3>3
  <2>7. SortAt(src, g, d, p)
    <3>1. p <= slice.start /\ (Len(d) > 0 => p = slice.start)
      BY <1>4, <2>1
    <3>2. Total(S) => \A j \in DOMAIN d : Place(S, d[j]) = p + j - 1
      BY <2>6
    <3> QED
      BY <1>10, <1>12, <2>3, <2>4, <2>5, <3>1, <3>2 DEF SortAt, S
  <2> QED
    BY <1>7, <2>1, <2>2, <2>7 DEF src
<1> QED
  BY <1>14, <1>15

\* DISTINCT delivers a row, or drops it as the last value again.
LEMMA DistinctMoves ==
    ASSUME OpTyped, HeldInv, op = "distinct", heads \in [DOMAIN Sources -> Nat \ {0}], DistinctInv,
           NEW i \in First, NEW r, r = HeadOf(i), NEW g, g = [heads EXCEPT ![i] = @ + 1], NEW d,
           d = IF delivered # <<>> /\ Last(delivered).val = r.val THEN delivered ELSE Append(delivered, r)
    PROVE  /\ g \in [DOMAIN Sources -> Nat \ {0}] /\ d \in Seq(Row)
           /\ DistinctAt(Sources, g, d)
<1> DEFINE src == Sources
           h == heads
<1>1. src \in Seq(Seq(Row)) /\ ByArrival(src) /\ h \in [DOMAIN src -> Nat \ {0}]
  BY SourcesAre
<1>2. i \in Waiting
  BY DEF First
<1>3. i \in DOMAIN src /\ h[i] <= Len(src[i]) /\ r = src[i][h[i]]
  BY <1>2, HeadIs
<1>4. DistinctAt(src, h, delivered) /\ delivered \in Seq(Row) /\ Len(delivered) \in Nat /\ g = [h EXCEPT ![i] = @ + 1]
  BY DEF DistinctInv, OpTyped
<1>5. run_rows # <<>> => \A y \in Left(src, h) : r.val <= y.val
  BY FirstClimbs DEF DistinctInv
<1>6. run_rows = <<>> => \A x, y \in Left(src, h) : x.val = y.val => x = y
  <2>1. SUFFICES ASSUME run_rows = <<>>, NEW x \in Left(src, h), NEW y \in Left(src, h), x.val = y.val PROVE x = y
    OBVIOUS
  <2>2. RowsOf(run_rows) = {}
    BY <2>1 DEF RowsOf
  <2>3. RowsOf(src) = Rows(live)
    BY <2>2, SourcesAre
  <2>4. x \in Rows(live) /\ y \in Rows(live)
    BY <1>1, <2>3, TakenOrLeft
  <2>5. ValuesApart(live)
    BY DEF HeldInv, Holding
  <2> QED
    BY <2>1, <2>4, <2>5 DEF Rows, ValuesApart
<1> HIDE DEF src, h
<1>7. /\ g \in [DOMAIN src -> Nat \ {0}]
      /\ r \in Row /\ r \in Left(src, h) /\ r \notin Taken(src, h)
      /\ Taken(src, g) = Taken(src, h) \cup {r}
      /\ Left(src, g) = Left(src, h) \ {r}
  <2>1. Moved(src, h, g, r)
    BY <1>1, <1>3, <1>4, HeadMoves
  <2> QED
    BY <2>1 DEF Moved
<1>8. /\ ValuesApart(delivered) /\ Rows(delivered) \subseteq Taken(src, h)
      /\ \A x \in Taken(src, h) : \E q \in Rows(delivered) : q.val = x.val
      /\ run_rows # <<>> => Climbing(delivered) /\ \A x \in Rows(delivered), y \in Left(src, h) : x.val <= y.val
      /\ run_rows = <<>> => \A x \in Rows(delivered), y \in Left(src, h) : x.val # y.val
  BY <1>4 DEF DistinctAt
<1>9. delivered # <<>> => Len(delivered) \in DOMAIN delivered /\ Last(delivered) = delivered[Len(delivered)] /\ Last(delivered) \in Rows(delivered)
  BY <1>4 DEF Last, Rows
<1>10. \A q \in Rows(delivered) : q \in Row /\ q.val \in Int
  <2>1. \A q \in Rows(delivered) : q \in Row
    BY <1>4 DEF Rows
  <2> QED
    BY <2>1, SpillAssumption DEF Row
<1>11. r.val \in Int
  BY <1>7, SpillAssumption DEF Row
<1>12. CASE delivered # <<>> /\ Last(delivered).val = r.val
  <2>1. d = delivered
    BY <1>12
  <2>2. run_rows # <<>>
    BY <1>7, <1>8, <1>9, <1>12
  <2>3. \A x \in Taken(src, g) : \E q \in Rows(d) : q.val = x.val
    BY <1>7, <1>8, <1>9, <1>12, <2>1
  <2>4. DistinctAt(src, g, d)
    BY <1>7, <1>8, <2>1, <2>2, <2>3 DEF DistinctAt
  <2> QED
    BY <1>4, <1>7, <2>1, <2>4 DEF src
<1>13. CASE ~(delivered # <<>> /\ Last(delivered).val = r.val)
  <2>1. d = Append(delivered, r)
    BY <1>13
  <2>2. d \in Seq(Row) /\ Rows(d) = Rows(delivered) \cup {r} /\ Len(d) = Len(delivered) + 1
    BY <1>4, <1>7, <2>1, RowsAppend
  <2>3. run_rows # <<>> => \A q \in Rows(delivered) : q.val < r.val
    <3>1. SUFFICES ASSUME run_rows # <<>>, NEW q \in Rows(delivered) PROVE q.val < r.val
      OBVIOUS
    <3>2. PICK k \in DOMAIN delivered : delivered[k] = q
      BY DEF Rows
    <3>3. delivered # <<>>
      BY <3>2
    <3>4. k = Len(delivered) \/ k < Len(delivered)
      BY <1>4, <3>2
    <3>5. q.val <= Last(delivered).val
      BY <1>8, <1>9, <1>10, <3>1, <3>2, <3>3, <3>4 DEF Climbing
    <3>6. Last(delivered).val <= r.val
      BY <1>7, <1>8, <1>9, <3>1, <3>3
    <3>7. Last(delivered).val # r.val
      BY <1>13, <3>3
    <3> QED
      BY <1>9, <1>10, <1>11, <3>3, <3>5, <3>6, <3>7
  <2>4. \A q \in Rows(delivered) : q.val # r.val
    BY <1>7, <1>8, <1>10, <1>11, <2>3
  <2>5. ValuesApart(d)
    BY <1>4, <1>7, <1>8, <2>1, <2>4, RowsAppend
  <2>6. Rows(d) \subseteq Taken(src, g) /\ \A x \in Taken(src, g) : \E q \in Rows(d) : q.val = x.val
    BY <1>7, <1>8, <2>2
  <2>7. run_rows # <<>> => Climbing(d)
    <3>1. SUFFICES ASSUME run_rows # <<>>, NEW k \in DOMAIN d, NEW l \in DOMAIN d, k < l PROVE d[k].val < d[l].val
      BY DEF Climbing
    <3>2. k \in DOMAIN delivered /\ d[k] = delivered[k] /\ delivered[k] \in Rows(delivered)
      BY <1>4, <2>1, <3>1 DEF Rows
    <3>3. CASE l \in DOMAIN delivered
      <4>1. d[l] = delivered[l]
        BY <1>4, <2>1, <3>3
      <4> QED
        BY <1>8, <3>1, <3>2, <3>3, <4>1 DEF Climbing
    <3>4. CASE l = Len(delivered) + 1
      <4>1. d[l] = r
        BY <1>4, <2>1, <3>4
      <4> QED
        BY <2>3, <3>1, <3>2, <4>1
    <3>5. l \in DOMAIN delivered \/ l = Len(delivered) + 1
      BY <1>4, <2>1, <3>1
    <3> QED
      BY <3>3, <3>4, <3>5
  <2>8. run_rows # <<>> => \A x \in Rows(d), y \in Left(src, g) : x.val <= y.val
    BY <1>5, <1>7, <1>8, <2>2
  <2>9. run_rows = <<>> => \A x \in Rows(d), y \in Left(src, g) : x.val # y.val
    BY <1>6, <1>7, <1>8, <2>2
  <2>10. DistinctAt(src, g, d)
    BY <2>5, <2>6, <2>7, <2>8, <2>9 DEF DistinctAt
  <2> QED
    BY <1>7, <2>2, <2>10 DEF src
<1> QED
  BY <1>12, <1>13

-----------------------------------------------------------------------------
(* The ends                                                                *)

\* What OperatorsExact says of the rows delivered at the end.
SliceExact(d) ==
    /\ Total(Rows(input)) => \E sorted \in InOrder(Rows(input)) : d = Sliced(sorted)
    /\ Rows(d) \subseteq Rows(input) /\ Cardinality(Rows(d)) = Len(d)
    /\ Len(d) = Len(Sliced(input))

ValuesExact(d) ==
    /\ {r.val : r \in Rows(d)} = {r.val : r \in Rows(input)}
    /\ \A i, j \in DOMAIN d : d[i].val = d[j].val => i = j

\* The last place of the slice.
SliceEnd == IF slice.length < 0 THEN Len(input) ELSE IF Holds < Len(input) THEN Holds ELSE Len(input)

\* As many rows as the slice asks for, without repetition, each at its place, are the slice.
LEMMA SliceFromPlaces ==
    ASSUME OpTyped, NEW d \in Seq(Row), Injective(d), Rows(d) \subseteq Rows(input),
           Len(d) = IF slice.start <= SliceEnd THEN SliceEnd - slice.start ELSE 0,
           Total(Rows(input)) => \A j \in DOMAIN d : Place(Rows(input), d[j]) = slice.start + j - 1
    PROVE  SliceExact(d)
<1>1. slice.start \in Nat /\ slice.length \in Int /\ Len(input) \in Nat /\ InputTyped /\ input \in Seq(Row)
  BY DEF OpTyped, InputTyped
<1>2. SliceEnd \in 0..Len(input)
  BY <1>1 DEF SliceEnd, Holds
<1>3. \A s : Len(s) = Len(input) => Sliced(s) = SubSeq(s, slice.start + 1, SliceEnd)
  BY DEF Sliced, SliceEnd
<1>4. Len(d) = Len(Sliced(input))
  <2>1. Sliced(input) = SubSeq(input, slice.start + 1, SliceEnd)
    BY <1>3
  <2>2. PICK a, b : a = slice.start /\ b = SliceEnd
    OBVIOUS
  <2>3. a \in Nat /\ b \in 0..Len(input)
    BY <1>1, <1>2, <2>2
  <2>4. Len(SubSeq(input, a + 1, b)) = IF a <= b THEN b - a ELSE 0
    BY <1>1, <2>3
  <2> QED
    BY <2>1, <2>2, <2>4
<1>5. Cardinality(Rows(d)) = Len(d)
  BY RowsCount
<1>6. ASSUME Total(Rows(input)) PROVE \E sorted \in InOrder(Rows(input)) : d = Sliced(sorted)
  <2>1. IsFiniteSet(Rows(input)) /\ Chain(Rows(input)) /\ Cardinality(Rows(input)) = Len(input)
    BY <1>1, <1>6, InputIs
  <2>2. PICK s : s \in InOrder(Rows(input))
    BY <2>1, OrderExists
  <2>3. Len(s) = Len(input)
    BY <2>1, <2>2, SeqsOf DEF InOrder
  <2>4. \A j \in DOMAIN d : d[j] \in Rows(input) /\ Place(Rows(input), d[j]) = slice.start + j - 1
    BY <1>6 DEF Rows
  <2>5. PICK a, b : a = slice.start /\ b = SliceEnd
    OBVIOUS
  <2>6. a \in Nat /\ b \in 0..Len(input) /\ Len(d) = IF a <= b THEN b - a ELSE 0
    BY <1>1, <1>2, <2>5
  <2>7. \A j \in DOMAIN d : d[j] \in Rows(input) /\ Place(Rows(input), d[j]) = a + j - 1
    BY <2>4, <2>5
  <2>8. d = SubSeq(s, a + 1, b)
    BY <1>1, <1>6, <2>2, <2>6, <2>7, FromPlaces
  <2>9. d = Sliced(s)
    BY <1>3, <2>3, <2>5, <2>8
  <2> QED
    BY <2>2, <2>9
<1> QED
  BY <1>4, <1>5, <1>6 DEF SliceExact

\* The sort ends: it ran out of rows, or has delivered the LIMIT.
LEMMA SortEnds ==
    ASSUME OpTyped, HeldInv, MergeInv, op = "sort",
           Waiting = {} \/ (slice.length >= 0 /\ Len(delivered) >= slice.length)
    PROVE  SliceExact(delivered)
<1> DEFINE src == Sources
           h == heads
           D == Len(delivered)
           L == Len(input)
<1>1. /\ src \in Seq(Seq(Row)) /\ h \in [DOMAIN src -> Nat \ {0}] /\ RowsOf(src) = Rows(input)
      /\ \A i \in DOMAIN src : Source(i) = src[i]
  BY SourcesAre, InputIs DEF OpTyped, HeldInv, Holding, MergeInv
<1>2. SortAt(src, h, delivered, passed_over)
  BY DEF MergeInv, SortInv
<1>3. /\ slice.start \in Nat /\ slice.length \in Int /\ L \in Nat /\ D \in Nat /\ passed_over \in Nat
      /\ delivered \in Seq(Row)
  BY DEF OpTyped, InputTyped
<1>4. IsFiniteSet(Rows(input)) /\ Cardinality(Rows(input)) = L
  BY InputIs DEF OpTyped
<1>5. Waiting = {} => Left(src, h) = {}
  <2>1. SUFFICES ASSUME Waiting = {} PROVE Left(src, h) = {}
    OBVIOUS
  <2>2. \A i \in DOMAIN src : i \in DOMAIN heads /\ Source(i) = src[i]
    BY <1>1
  <2>3. \A i \in DOMAIN src : ~(h[i] <= Len(src[i]))
    BY <2>1, <2>2 DEF Waiting
  <2> HIDE DEF src, h
  <2> QED
    BY <1>1, <2>3, TakenOrLeft
<1> HIDE DEF src, h
<1>6. Taken(src, h) \cup Left(src, h) = Rows(input)
  BY <1>1, TakenOrLeft
<1>7. PICK T : T = Taken(src, h)
  OBVIOUS
<1>8. T \subseteq Rows(input) /\ Cardinality(T) = passed_over + D
  BY <1>2, <1>6, <1>7 DEF SortAt
<1>9. passed_over + D <= L
  BY <1>4, <1>8, FS_Subset
<1>10. Waiting = {} => passed_over + D = L
  BY <1>4, <1>5, <1>6, <1>7, <1>8
<1>11. /\ passed_over <= slice.start /\ (D > 0 => passed_over = slice.start)
       /\ slice.length >= 0 => D <= slice.length
       /\ Injective(delivered) /\ Rows(delivered) \subseteq Rows(input)
  BY <1>2, <1>6 DEF SortAt
<1>12. D = IF slice.start <= SliceEnd THEN SliceEnd - slice.start ELSE 0
  <2>1. PICK a, m : a = slice.start /\ m = slice.length
    OBVIOUS
  <2>2. SliceEnd = IF m < 0 THEN L ELSE IF a + m < L THEN a + m ELSE L
    BY <2>1 DEF SliceEnd, Holds
  <2> HIDE DEF D, L
  <2>3. /\ a \in Nat /\ m \in Int /\ L \in Nat /\ D \in Nat /\ passed_over \in Nat
        /\ passed_over + D <= L /\ passed_over <= a /\ (D > 0 => passed_over = a) /\ (m >= 0 => D <= m)
    BY <1>3, <1>9, <1>11, <2>1
  <2>4. passed_over + D = L \/ (m >= 0 /\ D >= m)
    BY <1>10, <2>1 DEF D
  <2>5. D = IF a <= SliceEnd THEN SliceEnd - a ELSE 0
    BY <2>2, <2>3, <2>4
  <2> QED
    BY <2>1, <2>5
<1>13. Total(Rows(input)) => \A j \in DOMAIN delivered : Place(Rows(input), delivered[j]) = slice.start + j - 1
  <2>1. SUFFICES ASSUME Total(Rows(input)), NEW j \in DOMAIN delivered
                 PROVE  Place(Rows(input), delivered[j]) = slice.start + j - 1
    OBVIOUS
  <2>2. D > 0
    BY <1>3, <2>1
  <2>3. Place(Rows(input), delivered[j]) = passed_over + j - 1
    BY <1>2, <2>1 DEF SortAt
  <2> QED
    BY <1>11, <2>2, <2>3
<1> QED
  BY <1>3, <1>11, <1>12, <1>13, SliceFromPlaces

\* DISTINCT ends: it ran out of rows.
LEMMA DistinctEnds ==
    ASSUME OpTyped, HeldInv, MergeInv, op = "distinct", Waiting = {}
    PROVE  ValuesExact(delivered)
<1> DEFINE src == Sources
           h == heads
<1>1. /\ src \in Seq(Seq(Row)) /\ h \in [DOMAIN src -> Nat \ {0}] /\ RowsOf(src) \subseteq Rows(input)
      /\ \A i \in DOMAIN src : Source(i) = src[i]
      /\ \A r \in Rows(input) : \E q \in RowsOf(src) : q.val = r.val
  BY SourcesAre, InputIs DEF OpTyped, HeldInv, Holding, MergeInv
<1>2. DistinctAt(src, h, delivered)
  BY DEF MergeInv, DistinctInv
<1>3. Left(src, h) = {}
  <2>1. \A i \in DOMAIN src : i \in DOMAIN heads /\ Source(i) = src[i]
    BY <1>1
  <2>2. \A i \in DOMAIN src : ~(h[i] <= Len(src[i]))
    BY <2>1 DEF Waiting
  <2> HIDE DEF src, h
  <2> QED
    BY <1>1, <2>2, TakenOrLeft
<1> HIDE DEF src, h
<1>4. Taken(src, h) = RowsOf(src)
  BY <1>1, <1>3, TakenOrLeft
<1>5. \A r \in Rows(input) : \E q \in Rows(delivered) : q.val = r.val
  BY <1>1, <1>2, <1>4 DEF DistinctAt
<1>6. Rows(delivered) \subseteq Rows(input)
  BY <1>1, <1>2, <1>4 DEF DistinctAt
<1>7. {r.val : r \in Rows(delivered)} = {r.val : r \in Rows(input)}
  BY <1>5, <1>6
<1> QED
  BY <1>2, <1>7 DEF DistinctAt, ValuesApart, ValuesExact

-----------------------------------------------------------------------------
(* The heap                                                                *)

ReplacedAt(b, w, r, c) == c = [b EXCEPT ![w] = r]

\* A heap with one entry replaced by a row that is not in it.
LEMMA RowsReplaced ==
    ASSUME NEW b \in Seq(Row), NEW r \in Row, NEW w \in DOMAIN b, Injective(b), r \notin Rows(b),
           NEW c, ReplacedAt(b, w, r, c), NEW v, v = b[w]
    PROVE  c \in Seq(Row) /\ Len(c) = Len(b) /\ Injective(c) /\ Rows(c) = (Rows(b) \ {v}) \cup {r}
<1>1. c \in Seq(Row) /\ Len(c) = Len(b) /\ DOMAIN c = DOMAIN b /\ c[w] = r /\ \A i \in DOMAIN b \ {w} : c[i] = b[i]
  BY DEF ReplacedAt
<1>2. \A i \in DOMAIN b : b[i] # r
  BY DEF Rows
<1>3. Injective(c)
  BY <1>1, <1>2 DEF Injective
<1>4. Rows(c) = (Rows(b) \ {b[w]}) \cup {r}
  <2>1. ASSUME NEW x \in Rows(c) PROVE x \in (Rows(b) \ {b[w]}) \cup {r}
    <3>1. PICK i \in DOMAIN b : c[i] = x
      BY <1>1 DEF Rows
    <3> QED
      BY <1>1, <3>1 DEF Rows, Injective
  <2>2. ASSUME NEW x \in Rows(b), x # b[w] PROVE x \in Rows(c)
    <3>1. PICK i \in DOMAIN b : b[i] = x
      BY DEF Rows
    <3>2. i # w
      BY <2>2, <3>1
    <3> QED
      BY <1>1, <3>1, <3>2 DEF Rows
  <2>3. r \in Rows(c)
    BY <1>1 DEF Rows
  <2> QED
    BY <2>1, <2>2, <2>3
<1> QED
  BY <1>1, <1>3, <1>4

\* A row is offered: it is held, replaces the worst entry, or is dropped.
LEMMA HeapOffers ==
    ASSUME OpTyped, op = "topk", HeapInv, n < Len(input), NEW r, r = input[n + 1], NEW b,
           \/ Len(live) < Holds /\ b = Append(live, r)
           \/ /\ ~(Len(live) < Holds)
              /\ \E w \in DOMAIN live : /\ live[w] \in Worst(Rows(live))
                                        /\ b = IF Before(r, live[w]) THEN [live EXCEPT ![w] = r] ELSE live
    PROVE  b \in Seq(Row) /\ HeapAt(b, n + 1)
<1> DEFINE S == Rows(input)
<1>1. /\ Arrived(n + 1) = Arrived(n) \cup {r} /\ Arrived(n + 1) \subseteq S /\ r \in Row /\ r \notin Arrived(n) /\ r \in S
      /\ n \in Nat /\ live \in Seq(Row) /\ Len(live) \in Nat
  BY OneMore DEF OpTyped
<1>2. Holds \in Nat
  BY DEF OpTyped, Holds
<1>3. /\ Injective(live) /\ Rows(live) \subseteq Arrived(n)
      /\ n <= Holds => Len(live) = n /\ Arrived(n) \subseteq Rows(live)
      /\ n > Holds => Len(live) = Holds
      /\ Total(S) => \A x \in Rows(live), y \in Arrived(n) \ Rows(live) : Before(x, y)
  BY DEF HeapInv, HeapAt
<1>4. Total(S) => Chain(S)
  BY InputIs DEF OpTyped
<1>5. CASE Len(live) < Holds /\ b = Append(live, r)
  <2>1. b \in Seq(Row) /\ Rows(b) = Rows(live) \cup {r} /\ Len(b) = Len(live) + 1
    BY <1>1, <1>5, RowsAppend
  <2>2. Injective(b)
    BY <1>1, <1>3, <1>5, RowsAppend
  <2>3. n < Holds /\ Len(live) = n /\ Arrived(n) \subseteq Rows(live)
    BY <1>1, <1>2, <1>3, <1>5
  <2>4. Rows(b) = Arrived(n + 1) /\ Len(b) = n + 1 /\ n + 1 <= Holds
    BY <1>1, <1>2, <1>3, <2>1, <2>3
  <2> QED
    BY <1>1, <1>2, <2>1, <2>2, <2>4 DEF HeapAt
<1>6. CASE ~(Len(live) < Holds)
  <2>1. PICK w \in DOMAIN live : /\ live[w] \in Worst(Rows(live))
                                 /\ b = IF Before(r, live[w]) THEN [live EXCEPT ![w] = r] ELSE live
    BY <1>6
  <2>2. PICK v : v = live[w]
    OBVIOUS
  <2>3. v \in Rows(live) /\ v \in Row /\ r \notin Rows(live) /\ v # r
    BY <1>1, <1>3, <2>1, <2>2 DEF Rows
  <2>4. n >= Holds /\ Len(live) = Holds /\ n + 1 > Holds
    BY <1>1, <1>2, <1>3, <1>6
  <2>5. Total(S) => \A x \in Rows(live) \ {v} : Before(x, v)
    <3>1. SUFFICES ASSUME Total(S) PROVE \A x \in Rows(live) \ {v} : Before(x, v)
      OBVIOUS
    <3>2. Total(Rows(live))
      BY <1>1, <1>3, <3>1 DEF Total
    <3> QED
      BY <2>1, <2>2, <3>2 DEF Worst
  <2>6. Rows(live) \subseteq S /\ Arrived(n) \subseteq S /\ v \in S /\ r \in S
    BY <1>1, <1>3, <2>3
  <2>7. CASE Before(r, v)
    <3>1. ReplacedAt(live, w, r, b)
      BY <2>1, <2>2, <2>7 DEF ReplacedAt
    <3>2. b \in Seq(Row) /\ Len(b) = Len(live) /\ Injective(b) /\ Rows(b) = (Rows(live) \ {v}) \cup {r}
      <4>1. live \in Seq(Row) /\ r \in Row /\ w \in DOMAIN live /\ Injective(live) /\ r \notin Rows(live)
        BY <1>1, <1>3, <2>1, <2>3
      <4> HIDE DEF S
      <4> QED
        BY <2>2, <3>1, <4>1, RowsReplaced
    <3>3. Arrived(n + 1) \ Rows(b) = (Arrived(n) \ Rows(live)) \cup {v}
      BY <1>1, <1>3, <2>3, <3>2
    <3>4. ASSUME Total(S), NEW x \in Rows(b), NEW y \in Arrived(n + 1) \ Rows(b) PROVE Before(x, y)
      <4>1. CASE x = r
        <5>1. CASE y = v
          BY <2>7, <4>1, <5>1
        <5>2. CASE y \in Arrived(n) \ Rows(live)
          <6>1. Before(v, y)
            BY <1>3, <2>3, <3>4, <5>2
          <6>2. Chain(S) /\ y \in S
            BY <1>4, <2>6, <3>4, <5>2
          <6> HIDE DEF S
          <6> QED
            BY <2>6, <2>7, <4>1, <6>1, <6>2, BeforeOrders
        <5> QED
          BY <3>3, <3>4, <5>1, <5>2
      <4>2. CASE x \in Rows(live) \ {v}
        BY <1>3, <2>5, <3>3, <3>4, <4>2
      <4> QED
        BY <3>2, <3>4, <4>1, <4>2
    <3>5. Rows(b) \subseteq Arrived(n + 1)
      BY <1>1, <1>3, <3>2
    <3>6. ~(n + 1 <= Holds) /\ Len(b) = Holds
      BY <1>1, <1>2, <2>4, <3>2
    <3> QED
      BY <3>2, <3>4, <3>5, <3>6 DEF HeapAt
  <2>8. CASE ~Before(r, v)
    <3>1. b = live
      BY <2>1, <2>2, <2>8
    <3>2. ASSUME Total(S), NEW x \in Rows(b), NEW y \in Arrived(n + 1) \ Rows(b) PROVE Before(x, y)
      <4>1. Chain(S)
        BY <1>4, <3>2
      <4>2. Before(v, r)
        <5> HIDE DEF S
        <5> QED
          BY <2>3, <2>6, <2>8, <4>1, BeforeOrders
      <4>3. x = v \/ Before(x, v)
        BY <2>5, <3>1, <3>2
      <4>4. Before(x, r)
        <5>1. x \in S
          BY <2>6, <3>1, <3>2
        <5> HIDE DEF S
        <5> QED
          BY <2>6, <4>1, <4>2, <4>3, <5>1, BeforeOrders
      <4> QED
        BY <1>1, <1>3, <3>1, <3>2, <4>4
    <3>3. Rows(b) \subseteq Arrived(n + 1) /\ Injective(b)
      BY <1>1, <1>3, <3>1
    <3>4. ~(n + 1 <= Holds) /\ Len(b) = Holds
      BY <1>1, <1>2, <2>4, <3>1
    <3> QED
      BY <1>1, <3>1, <3>2, <3>3, <3>4 DEF HeapAt
  <2> QED
    BY <2>7, <2>8
<1> QED
  BY <1>5, <1>6

TailOf(t, a, e, d) == d = SubSeq(t, a + 1, e)

\* What is left of a sequence after its first a members.
LEMMA TailIs ==
    ASSUME NEW t \in Seq(Row), NEW a \in Nat, NEW e \in Nat, Len(t) = e, NEW d, TailOf(t, a, e, d)
    PROVE  /\ d \in Seq(Row) /\ Len(d) = IF a <= e THEN e - a ELSE 0
           /\ \A j \in DOMAIN d : a + j \in DOMAIN t /\ d[j] = t[a + j] /\ j \in Nat
<1>1. d \in Seq(Row) /\ Len(d) = IF a <= e THEN e - a ELSE 0
  BY DEF TailOf
<1>2. ASSUME NEW j \in DOMAIN d PROVE a + j \in DOMAIN t /\ d[j] = t[a + j] /\ j \in Nat
  <2>1. j \in 1..Len(d)
    BY <1>1
  <2>2. a <= e /\ j \in 1..(e - a)
    BY <1>1, <2>1
  <2>3. a + j \in 1..e
    BY <2>2
  <2> QED
    BY <2>2, <2>3 DEF TailOf
<1> QED
  BY <1>1, <1>2

\* The heap ends: its entries in order, from the start of the slice on.
LEMMA HeapEnds ==
    ASSUME OpTyped, op = "topk", HeapInv, n = Len(input), NEW t \in Sortings(live),
           NEW d, TailOf(t, slice.start, Len(t), d)
    PROVE  d \in Seq(Row) /\ SliceExact(d)
<1> DEFINE S == Rows(input)
<1>1. /\ Injective(live) /\ Rows(live) \subseteq S /\ live \in Seq(Row)
      /\ Total(S) => \A x \in Rows(live), y \in S \ Rows(live) : Before(x, y)
  BY InputIs DEF HeapInv, HeapAt, OpTyped
<1>2. t \in Seq(Row) /\ Injective(t) /\ Rows(t) = Rows(live) /\ Len(t) = Len(live)
  BY <1>1, SortingsIs
<1>3. /\ slice.start \in Nat /\ slice.length \in Nat /\ Len(input) \in Nat /\ Holds = slice.start + slice.length
      /\ n \in Nat
  BY DEF OpTyped, InputTyped, Holds
<1>4. Len(t) = SliceEnd /\ SliceEnd \in Nat
  <2>1. /\ Len(input) <= Holds => Len(live) = Len(input)
        /\ Len(input) > Holds => Len(live) = Holds
    BY DEF HeapInv, HeapAt
  <2> QED
    BY <1>2, <1>3, <2>1 DEF SliceEnd
<1>5. PICK a, e : a = slice.start /\ e = SliceEnd
  OBVIOUS
<1>6. a \in Nat /\ e \in Nat /\ Len(t) = e /\ TailOf(t, a, e, d)
  BY <1>3, <1>4, <1>5
<1>7. /\ d \in Seq(Row) /\ Len(d) = IF a <= e THEN e - a ELSE 0
      /\ \A j \in DOMAIN d : a + j \in DOMAIN t /\ d[j] = t[a + j] /\ j \in Nat
  BY <1>2, <1>6, TailIs
<1>8. Injective(d)
  <2>1. SUFFICES ASSUME NEW j \in DOMAIN d, NEW k \in DOMAIN d, d[j] = d[k] PROVE j = k
    BY DEF Injective
  <2>2. a + j = a + k
    BY <1>2, <1>7, <2>1 DEF Injective
  <2> QED
    BY <1>6, <1>7, <2>2
<1>9. Rows(d) \subseteq S
  BY <1>1, <1>2, <1>7 DEF Rows
<1>10. ASSUME Total(S), NEW j \in DOMAIN d PROVE Place(S, d[j]) = a + j - 1
  <2>1. Chain(S) /\ IsFiniteSet(S)
    BY <1>10, InputIs DEF OpTyped
  <2>2. PICK H : H = Rows(live)
    OBVIOUS
  <2>3. Chain(H) /\ IsFiniteSet(H) /\ H \subseteq S
    <3>1. H \subseteq S
      BY <1>1, <2>2
    <3> HIDE DEF S
    <3> QED
      BY <2>1, <3>1, PartOfChain, FS_Subset
  <2>4. t \in InOrder(H)
    BY <2>2, <2>3 DEF Sortings, Chain
  <2>5. PICK k : k = a + j
    OBVIOUS
  <2>6. k \in DOMAIN t /\ d[j] = t[k]
    BY <1>7, <1>10, <2>5
  <2>7. Place(H, t[k]) = k - 1
    BY <2>3, <2>4, <2>6, PlaceInOrder
  <2>8. t[k] \in H
    BY <1>2, <2>2, <2>6 DEF Rows
  <2>9. {y \in S : Before(y, t[k])} = {y \in H : Before(y, t[k])}
    <3>1. \A y \in S \ H : Before(t[k], y)
      BY <1>1, <1>10, <2>2, <2>8
    <3>2. t[k] \in S
      BY <2>3, <2>8
    <3> HIDE DEF S
    <3>3. \A y \in S \ H : ~Before(y, t[k])
      BY <2>1, <3>1, <3>2, BeforeOrders
    <3> QED
      BY <2>3, <3>3
  <2>10. Place(S, t[k]) = Place(H, t[k])
    BY <2>9 DEF Place
  <2>11. Place(S, d[j]) = k - 1
    BY <2>6, <2>7, <2>10
  <2> QED
    BY <1>6, <1>7, <1>10, <2>5, <2>11
<1> QED
  BY <1>5, <1>7, <1>8, <1>9, <1>10, SliceFromPlaces

-----------------------------------------------------------------------------
(* Every step keeps the invariant                                          *)

\* An operator starts with nothing held.
LEMMA OpStarts ==
    ASSUME SpillInit
    PROVE  OpInv
<1>1. InputTyped
  <2>1. PICK s \in SeqOf(Keys \X Values, MaxRows) :
               input = [i \in DOMAIN s |-> [key |-> s[i][1], val |-> s[i][2], at |-> i]]
    BY DEF SpillInit, Inputs
  <2>2. PICK m \in 0..MaxRows : s \in [1..m -> Keys \X Values]
    BY DEF SeqOf
  <2>3. m \in Nat /\ DOMAIN s = 1..m /\ \A i \in 1..m : s[i][1] \in Keys /\ s[i][2] \in Values
    BY <2>2, SpillAssumption
  <2>4. \A i \in 1..m : [key |-> s[i][1], val |-> s[i][2], at |-> i] \in Row
    BY <2>3 DEF Row
  <2>5. input \in [1..m -> Row] /\ \A i \in 1..m : input[i].at = i
    BY <2>1, <2>3, <2>4
  <2>6. input \in Seq(Row) /\ DOMAIN input = 1..m
    BY <2>3, <2>5
  <2> QED
    BY <2>5, <2>6 DEF InputTyped
<1>2. slice \in [start : Nat, length : Int] /\ (op = "topk" => slice.length > 0) /\ op \in {"distinct", "sort", "topk"}
  <2>1. CASE op = "distinct"
    BY <2>1 DEF SpillInit
  <2>2. CASE op # "distinct"
    <3>1. slice \in {s \in Slices : op = "topk" => s.length > 0}
      BY <2>2 DEF SpillInit
    <3>2. slice \in Slices /\ (op = "topk" => slice.length > 0)
      BY <3>1
    <3>3. op \in {"distinct", "sort", "topk"}
      BY DEF SpillInit
    <3> QED
      BY <3>2, <3>3, SpillAssumption
  <2> QED
    BY <2>1, <2>2
<1>3. /\ n = 0 /\ live = <<>> /\ run_rows = <<>> /\ heads = <<>> /\ passed_over = 0 /\ delivered = <<>>
      /\ ending = "running"
  BY DEF SpillInit
<1>4. <<>> \in Seq(Row) /\ <<>> \in Seq(Seq(Row)) /\ 0 \in 0..Len(input) /\ Len(<<>>) = 0
  BY <1>1 DEF InputTyped
<1>5. OpTyped
  BY <1>1, <1>2, <1>3, <1>4 DEF OpTyped
<1>6. Arrived(n) = {} /\ Rows(live) = {} /\ RowsOf(run_rows) = {} /\ DOMAIN run_rows = {} /\ DOMAIN live = {}
  BY <1>1, <1>3, InputIs DEF Rows, RowsOf
<1>7. HeldInv
  BY <1>6 DEF HeldInv, Holding, ByArrival, Injective, ValuesApart
<1>8. ASSUME op = "topk" PROVE HeapInv
  <2>1. Holds \in Nat /\ (0 <= Holds) /\ ~(0 > Holds)
    BY <1>2, <1>8 DEF Holds
  <2> QED
    BY <1>3, <1>4, <1>6, <2>1 DEF HeapInv, HeapAt, Injective
<1> QED
  BY <1>3, <1>5, <1>7, <1>8 DEF OpInv, RunningInv, OperatorsExact

\* Where nothing of a query changes but how it ended, and it did not end well.
LEMMA OpStops ==
    ASSUME OpInv, ending' \notin {"running", "ok"},
           UNCHANGED <<query, n, live, run_rows, passed_over, delivered>>
    PROVE  OpInv'
<1>1. OpTyped'
  BY DEF OpInv, OpTyped, InputTyped, query
<1> QED
  BY <1>1 DEF OpInv, OperatorsExact

\* Distinct::push and Sorted::push.
LEMMA OpPush ==
    ASSUME OpInv, push
    PROVE  OpInv'
<1>1. /\ ending = "running" /\ heads = <<>> /\ op # "topk" /\ n < Len(input) /\ n' = n + 1
      /\ UNCHANGED <<op, slice, input, heads, passed_over, delivered>>
  BY DEF push, Arriving, Merging, query
<1>2. OpTyped /\ HeldInv /\ passed_over = 0 /\ delivered = <<>>
  BY <1>1 DEF OpInv, RunningInv
<1>3. n \in Nat /\ n + 1 \in 0..Len(input) /\ run_rows \in Seq(Seq(Row)) /\ live \in Seq(Row) /\ InputTyped
  BY <1>1, <1>2 DEF OpTyped, InputTyped
<1>4. PICK b : b = Buffered(input[n + 1])
  OBVIOUS
<1>5. b \in Seq(Row) /\ Holding(run_rows, b, n + 1)
  BY <1>1, <1>2, <1>4, HoldingRow DEF HeldInv
<1>6. IF Len(b) >= Budget THEN spill_buffer(b) ELSE live' = b /\ UNCHANGED <<run_rows, ending>>
  BY <1>1, <1>4 DEF push
<1>7. ASSUME run_rows' \in Seq(Seq(Row)), live' \in Seq(Row) PROVE OpTyped'
  BY <1>1, <1>2, <1>3, <1>7 DEF OpTyped, InputTyped
<1>8. ASSUME OpTyped', Holding(run_rows', live', n + 1), ending' # "ok" PROVE OpInv'
  <2>1. HeldInv'
    BY <1>1, <1>8 DEF HeldInv, Holding, Arrived
  <2> QED
    BY <1>1, <1>2, <1>8, <2>1 DEF OpInv, RunningInv, OperatorsExact
<1>9. CASE live' = b /\ UNCHANGED <<run_rows, ending>>
  BY <1>1, <1>3, <1>5, <1>7, <1>8, <1>9
<1>10. CASE spill_buffer(b)
  <2>1. CASE ending' = "io" /\ UNCHANGED <<run_rows, live>>
    <3>1. OpTyped'
      BY <1>3, <1>7, <2>1
    <3> QED
      BY <2>1, <3>1 DEF OpInv, OperatorsExact
  <2>2. ASSUME NEW run \in Sortings(b), run_rows' = Append(run_rows, run), live' = <<>>, ending' \in {"DiskLimit", ending}
        PROVE  OpInv'
    <3>1. run_rows' \in Seq(Seq(Row)) /\ Holding(run_rows', <<>>, n + 1)
      BY <1>1, <1>3, <1>5, <2>2, HoldingRun
    <3>2. live' \in Seq(Row)
      BY <2>2, NoRows
    <3> QED
      BY <1>1, <1>7, <1>8, <2>2, <3>1, <3>2
  <2> QED
    BY <1>10, <2>1, <2>2 DEF spill_buffer
<1> QED
  BY <1>6, <1>9, <1>10

\* Collector::offer.
LEMMA OpOffer ==
    ASSUME OpInv, offer
    PROVE  OpInv'
<1>1. /\ ending = "running" /\ heads = <<>> /\ op = "topk" /\ n < Len(input) /\ n' = n + 1
      /\ UNCHANGED <<op, slice, input, run_rows, heads, passed_over, delivered, ending>>
  BY DEF offer, Arriving, Merging, query
<1>2. OpTyped /\ HeapInv /\ passed_over = 0 /\ delivered = <<>>
  BY <1>1 DEF OpInv, RunningInv
<1>3. PICK r : r = input[n + 1]
  OBVIOUS
<1>4. \/ Len(live) < Holds /\ live' = Append(live, r)
      \/ /\ ~(Len(live) < Holds)
         /\ \E w \in DOMAIN live : /\ live[w] \in Worst(Rows(live))
                                   /\ live' = IF Before(r, live[w]) THEN [live EXCEPT ![w] = r] ELSE live
  BY <1>1, <1>3 DEF offer
<1>5. live' \in Seq(Row) /\ HeapAt(live', n + 1)
  BY <1>1, <1>2, <1>3, <1>4, HeapOffers
<1>6. OpTyped'
  BY <1>1, <1>2, <1>5 DEF OpTyped, InputTyped
<1>7. HeapInv'
  BY <1>1, <1>5 DEF HeapInv, HeapAt, Arrived, Holds
<1> QED
  BY <1>1, <1>2, <1>6, <1>7 DEF OpInv, RunningInv, OperatorsExact

\* Collector::finish.
LEMMA OpFinishHeap ==
    ASSUME OpInv, finish_heap
    PROVE  OpInv'
<1>1. /\ ending = "running" /\ op = "topk" /\ n = Len(input) /\ ending' = "ok"
      /\ UNCHANGED <<op, slice, input, n, live, run_rows, passed_over>>
  BY DEF finish_heap, Arriving, query, End
<1>2. OpTyped /\ HeapInv
  BY <1>1 DEF OpInv, RunningInv
<1>3. PICK t \in Sortings(live) : TailOf(t, slice.start, Len(t), delivered')
  BY DEF finish_heap, TailOf
<1>4. delivered' \in Seq(Row) /\ SliceExact(delivered')
  BY <1>1, <1>2, <1>3, HeapEnds
<1>5. OpTyped'
  BY <1>1, <1>2, <1>4 DEF OpTyped, InputTyped
<1>6. OperatorsExact'
  BY <1>1, <1>4 DEF OperatorsExact, SliceExact, Sliced, Holds
<1> QED
  BY <1>1, <1>5, <1>6 DEF OpInv

\* The merge begins: the rest of the buffer is the last source, and no row is taken.
LEMMA OpMerge ==
    ASSUME OpInv, merge
    PROVE  OpInv'
<1>1. /\ ending = "running" /\ heads = <<>> /\ op \in {"distinct", "sort"} /\ n = Len(input)
      /\ heads' = [i \in 1..(Len(run_rows) + 1) |-> 1]
      /\ UNCHANGED <<op, slice, input, n, run_rows, passed_over, delivered, ending>>
  BY DEF merge, Arriving, Merging, query
<1>2. OpTyped /\ HeldInv /\ passed_over = 0 /\ delivered = <<>>
  BY <1>1 DEF OpInv, RunningInv
<1>3. /\ live' \in Sortings(live) \/ live' \in SetToSeqs(Rows(live))
      /\ ~(op = "distinct" /\ run_rows = <<>>) => live' \in Sortings(live)
  BY DEF merge
<1>4. live \in Seq(Row) /\ run_rows \in Seq(Seq(Row)) /\ Len(run_rows) \in Nat /\ Injective(live) /\ InputTyped
  BY <1>2 DEF OpTyped, HeldInv, Holding
<1>5. live' \in Seq(Row) /\ Holding(run_rows, live', n)
  BY <1>2, <1>3, <1>4, HoldingSorted DEF HeldInv
<1>6. OpTyped'
  BY <1>1, <1>2, <1>5 DEF OpTyped, InputTyped
<1>7. HeldInv'
  BY <1>1, <1>5 DEF HeldInv, Holding, Arrived
<1>8. PICK src : src = Append(run_rows, live')
  OBVIOUS
<1>9. src \in Seq(Seq(Row)) /\ DOMAIN src = 1..(Len(run_rows) + 1)
  BY <1>4, <1>5, <1>8, OneSourceMore
<1>10. heads' \in [DOMAIN src -> Nat \ {0}] /\ \A i \in DOMAIN src : heads'[i] = 1
  BY <1>1, <1>9
<1>11. PICK h : h = heads'
  OBVIOUS
<1>12. Taken(src, h) = {}
  BY <1>9, <1>10, <1>11, TakenOrLeft
<1>13. Rows(<<>>) = {} /\ Injective(<<>>) /\ ValuesApart(<<>>) /\ Len(<<>>) = 0 /\ DOMAIN <<>> = {} /\ Climbing(<<>>)
  BY DEF Rows, Injective, ValuesApart, Climbing
<1>14. ASSUME op = "sort" PROVE SortInv'
  <2>1. Total(Rows(input)) => Rising(live')
    <3>1. Rows(live) \subseteq Rows(input)
      BY <1>1, <1>2, InputIs DEF HeldInv, Holding, OpTyped
    <3>2. Total(Rows(input)) => Total(Rows(live))
      BY <3>1 DEF Total
    <3>3. live' \in Sortings(live)
      BY <1>3, <1>14
    <3> QED
      BY <1>4, <1>14, <3>2, <3>3, SortingsIs
  <2>2. slice.start \in Nat /\ slice.length \in Int
    BY <1>2 DEF OpTyped
  <2>3. SortAt(src, h, <<>>, 0)
    BY <1>12, <1>13, <2>2, FS_EmptySet DEF SortAt
  <2> QED
    BY <1>1, <1>2, <1>8, <1>11, <2>1, <2>3 DEF SortInv, SortAt, Sources
<1>15. ASSUME op = "distinct" PROVE DistinctInv'
  <2>1. run_rows # <<>> => Climbing(live')
    <3>1. run_rows # <<>> => live' \in Sortings(live)
      BY <1>3
    <3> QED
      BY <1>4, <1>15, <3>1, SortingsIs
  <2>2. DistinctAt(src, h, <<>>)
    BY <1>12, <1>13 DEF DistinctAt
  <2> QED
    BY <1>1, <1>2, <1>8, <1>11, <2>1, <2>2 DEF DistinctInv, DistinctAt, Sources
<1>16. MergeInv'
  BY <1>1, <1>8, <1>10, <1>14, <1>15 DEF MergeInv, Sources
<1>17. heads' # <<>>
  <2>1. 1 \in DOMAIN heads'
    BY <1>1, <1>4
  <2> QED
    BY <2>1
<1> QED
  BY <1>1, <1>6, <1>7, <1>16, <1>17 DEF OpInv, RunningInv, OperatorsExact

\* Merged::next_row, SortedRows::next_row and the loop of collect_spilled.
LEMMA OpNextRow ==
    ASSUME OpInv, next_row
    PROVE  OpInv'
<1>1. ending = "running" /\ heads # <<>> /\ UNCHANGED <<query, n, live, run_rows>> /\ UNCHANGED <<op, slice, input>>
  BY DEF next_row, Merging, query
<1>2. OpTyped /\ HeldInv /\ MergeInv /\ op \in {"distinct", "sort"}
  BY <1>1 DEF OpInv, RunningInv, OpTyped
<1>3. /\ n = Len(input) /\ heads \in [DOMAIN Sources -> Nat \ {0}]
      /\ op = "sort" => SortInv
      /\ op = "distinct" => DistinctInv
  BY <1>2 DEF MergeInv
<1>4. HeldInv'
  BY <1>1, <1>2 DEF HeldInv, Holding, Arrived
<1>5. ASSUME UNCHANGED <<passed_over, delivered>>, ending' = "ok",
             Waiting = {} \/ (op = "sort" /\ slice.length >= 0 /\ Len(delivered) >= slice.length)
      PROVE  OpInv'
  <2>1. OpTyped'
    BY <1>1, <1>2, <1>5 DEF OpTyped, InputTyped
  <2>2. CASE op = "sort"
    <3>1. SliceExact(delivered)
      BY <1>2, <1>5, <2>2, SortEnds
    <3>2. OperatorsExact'
      BY <1>1, <1>5, <2>2, <3>1 DEF OperatorsExact, SliceExact, Sliced, Holds
    <3> QED
      BY <1>5, <2>1, <3>2 DEF OpInv
  <2>3. CASE op = "distinct"
    <3>1. ValuesExact(delivered)
      BY <1>2, <1>5, <2>3, DistinctEnds
    <3>2. OperatorsExact'
      BY <1>1, <1>5, <2>3, <3>1 DEF OperatorsExact, ValuesExact
    <3> QED
      BY <1>5, <2>1, <3>2 DEF OpInv
  <2> QED
    BY <1>2, <2>2, <2>3
<1>6. ASSUME UNCHANGED <<passed_over, delivered>>, ending' = "io"
      PROVE  OpInv'
  BY <1>1, <1>6, OpStops
<1>7. ASSUME NEW i \in First, heads' = [heads EXCEPT ![i] = @ + 1], Emitted(HeadOf(i)), ending' = ending,
             ~(op = "sort" /\ slice.length >= 0 /\ Len(delivered) >= slice.length)
      PROVE  OpInv'
  <2>1. PICK r : r = HeadOf(i)
    OBVIOUS
  <2>2. PICK g : g = [heads EXCEPT ![i] = @ + 1]
    OBVIOUS
  <2>3. ASSUME OpTyped', MergeInv', g \in [DOMAIN Sources -> Nat \ {0}] PROVE OpInv'
    <3>1. heads' # <<>>
      <4>1. DOMAIN heads' = DOMAIN heads /\ DOMAIN heads = 1..(Len(run_rows) + 1) /\ Len(run_rows) \in Nat
        BY <1>2, <1>3, <1>7, SourcesAre
      <4>2. 1 \in DOMAIN heads'
        BY <4>1
      <4> QED
        BY <4>2
    <3> QED
      BY <1>1, <1>2, <1>4, <1>7, <2>3, <3>1 DEF OpInv, RunningInv, OperatorsExact
  <2>4. CASE op = "sort"
    <3>1. \/ passed_over < slice.start /\ passed_over' = passed_over + 1 /\ delivered' = delivered
          \/ ~(passed_over < slice.start) /\ passed_over' = passed_over /\ delivered' = Append(delivered, r)
      BY <1>7, <2>1, <2>4 DEF Emitted
    <3>2. PICK d, p : d = delivered' /\ p = passed_over'
      OBVIOUS
    <3>3. \/ passed_over < slice.start /\ p = passed_over + 1 /\ d = delivered
          \/ ~(passed_over < slice.start) /\ p = passed_over /\ d = Append(delivered, r)
      BY <3>1, <3>2
    <3>4. ~(slice.length >= 0 /\ Len(delivered) >= slice.length)
      BY <1>7, <2>4
    <3>5. /\ g \in [DOMAIN Sources -> Nat \ {0}] /\ d \in Seq(Row) /\ p \in Nat
          /\ SortAt(Sources, g, d, p)
      BY <1>2, <1>3, <1>7, <2>1, <2>2, <2>4, <3>3, <3>4, SortMoves
    <3>6. OpTyped'
      BY <1>1, <1>2, <3>2, <3>5 DEF OpTyped, InputTyped
    <3>7. SortInv'
      <4>1. Total(Rows(input)) => Rising(live)
        BY <1>3, <2>4 DEF SortInv
      <4>2. Sources' = Sources /\ heads' = g
        BY <1>1, <1>7, <2>2 DEF Sources
      <4> QED
        BY <1>1, <3>2, <3>5, <4>1, <4>2 DEF SortInv, SortAt
    <3>8. MergeInv'
      BY <1>1, <1>3, <1>7, <2>2, <2>4, <3>5, <3>7 DEF MergeInv, Sources
    <3> QED
      BY <2>3, <3>5, <3>6, <3>8
  <2>5. CASE op = "distinct"
    <3>1. PICK d : d = delivered'
      OBVIOUS
    <3>2. /\ d = IF delivered # <<>> /\ Last(delivered).val = r.val THEN delivered ELSE Append(delivered, r)
          /\ passed_over' = passed_over
      BY <1>7, <2>1, <2>5, <3>1 DEF Emitted
    <3>3. g \in [DOMAIN Sources -> Nat \ {0}] /\ d \in Seq(Row) /\ DistinctAt(Sources, g, d)
      BY <1>2, <1>3, <1>7, <2>1, <2>2, <2>5, <3>2, DistinctMoves
    <3>4. OpTyped'
      BY <1>1, <1>2, <3>1, <3>2, <3>3 DEF OpTyped, InputTyped
    <3>5. DistinctInv'
      <4>1. run_rows # <<>> => Climbing(live)
        BY <1>3, <2>5 DEF DistinctInv
      <4>2. Sources' = Sources /\ heads' = g
        BY <1>1, <1>7, <2>2 DEF Sources
      <4> QED
        BY <1>1, <3>1, <3>3, <4>1, <4>2 DEF DistinctInv, DistinctAt
    <3>6. MergeInv'
      BY <1>1, <1>3, <1>7, <2>2, <2>5, <3>3, <3>5 DEF MergeInv, Sources
    <3> QED
      BY <2>3, <3>3, <3>4, <3>6
  <2> QED
    BY <1>2, <2>4, <2>5
<1> QED
  BY <1>5, <1>6, <1>7 DEF next_row, End

\* Every step keeps what the operator holds and has delivered.
LEMMA OpKept ==
    ASSUME OpInv, [SpillNext]_spill_vars
    PROVE  OpInv'
<1>1. CASE GiveUp
  BY <1>1, OpStops DEF GiveUp, End
<1>2. CASE UNCHANGED spill_vars
  <2>1. UNCHANGED <<op, slice, input, n, live, run_rows, heads, passed_over, delivered, ending>>
    BY <1>2 DEF spill_vars
  <2>2. OpTyped' /\ OperatorsExact'
    BY <2>1 DEF OpInv, OpTyped, InputTyped, OperatorsExact, Sliced, Holds
  <2>3. HeldInv => HeldInv'
    BY <2>1 DEF HeldInv, Holding, Arrived
  <2>4. HeapInv => HeapInv'
    BY <2>1 DEF HeapInv, HeapAt, Arrived, Holds
  <2>5. MergeInv => MergeInv'
    BY <2>1 DEF MergeInv, SortInv, SortAt, DistinctInv, DistinctAt, Sources
  <2> QED
    BY <2>1, <2>2, <2>3, <2>4, <2>5 DEF OpInv, RunningInv
<1> QED
  BY <1>1, <1>2, OpPush, OpOffer, OpFinishHeap, OpMerge, OpNextRow DEF SpillNext

\* The heap and the spilling sort deliver, row for row, the slice of one stable sort of the
\* whole input where the keys are totally ordered, and otherwise rows of the input, none twice,
\* as many as the slice asks for; DISTINCT delivers each value that arrived once: wherever the
\* budget cut the input into runs, whichever head goes first on equal keys.
THEOREM OperatorsAlwaysExact == SpillSpec => []OperatorsExact
<1>1. SpillInit => OpInv
  BY OpStarts
<1>2. OpInv /\ [SpillNext]_spill_vars => OpInv'
  BY OpKept
<1>3. OpInv => OperatorsExact
  BY DEF OpInv
<1> QED
  BY <1>1, <1>2, <1>3, PTL DEF SpillSpec

=============================================================================
