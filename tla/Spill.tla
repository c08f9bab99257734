------------------------------- MODULE Spill -------------------------------
(***************************************************************************)
(* The operators that hold rows: the spilling DISTINCT and the spilling    *)
(* sort of spill.rs, and the heap of topk.rs.  Rows arrive one by one; a   *)
(* buffer that reaches its budget is sorted into a run on disk; at the end *)
(* the runs and the rest of the buffer are merged.                         *)
(*                                                                         *)
(* A row is its sort keys, a value, and its place of arrival.  Byte        *)
(* encodings are represented by their order; a run is a sequence of rows.  *)
(***************************************************************************)
EXTENDS Integers, Sequences, FiniteSets, SequencesExt, FiniteSetsExt

CONSTANTS
    Keys,        \* lists of sort keys rows may have
    Descending,  \* which keys are DESC
    Values,      \* what a row projects
    Budget,      \* rows held before a spill
    DiskLimits,  \* rows of scratch allowed; 0 is no limit
    Slices,      \* [start, length]; length -1 is no LIMIT
    MaxRows      \* BOUND: rows of the input

-----------------------------------------------------------------------------
(* SPARQL's ORDER BY order over terms                                      *)

(* A key: unbound, or a term with its class; numbers have a value, every   *)
(* literal a lexical form, given by its rank among the lexical forms.      *)
Unbound == [class |-> "unbound", num |-> 0, lex |-> 0]
Classes == {"unbound", "blank", "iri", "num", "str", "other", "triple"}
SortTerm == [class : Classes, num : Int, lex : Int]

ASSUME SpillAssumption ==
    /\ Budget \in Nat \ {0} /\ MaxRows \in Nat /\ DiskLimits \subseteq Nat
    /\ Descending \in Seq(BOOLEAN) /\ Keys \subseteq [DOMAIN Descending -> SortTerm]
    /\ Values \subseteq Int
    /\ Slices \subseteq [start : Nat, length : Int]

Rank(class) == CASE class = "unbound" -> 0 [] class = "blank" -> 1 [] class = "iri" -> 2
                 [] class \in {"num", "str", "other"} -> 3 [] class = "triple" -> 4

Sign(a, b) == IF a < b THEN -1 ELSE IF a > b THEN 1 ELSE 0

(* Where < is defined: numbers with numbers, strings with strings.         *)
partial_cmp_literals(a, b) ==
    IF a.class = "num" /\ b.class = "num" THEN {Sign(a.num, b.num)}
    ELSE IF a.class = "str" /\ b.class = "str" THEN {Sign(a.lex, b.lex)}
    ELSE {}

lexical_cmp(a, b) ==
    IF a.lex # b.lex THEN Sign(a.lex, b.lex)
    ELSE Sign(IF a.class = "str" THEN 1 ELSE 0, IF b.class = "str" THEN 1 ELSE 0)

cmp_terms(a, b) ==
    IF Rank(a.class) # Rank(b.class) THEN Sign(Rank(a.class), Rank(b.class))
    ELSE IF Rank(a.class) = 3
    THEN LET value == partial_cmp_literals(a, b)
         IN  IF value # {} THEN CHOOSE v \in value : TRUE ELSE lexical_cmp(a, b)
    ELSE Sign(a.lex, b.lex)

(* Key by key, reversed where DESC, until one decides.                     *)
cmp_keys(a, b) ==
    LET differ == {i \in DOMAIN a : cmp_terms(a[i], b[i]) # 0}
        i == Min(differ)
    IN  IF differ = {} THEN 0
        ELSE IF Descending[i] THEN -cmp_terms(a[i], b[i]) ELSE cmp_terms(a[i], b[i])

(* The order is total on these rows: no three of them go round in a        *)
(* circle, as 2, 10 and "1abc" do.                                         *)
Total(rows) ==
    \A x, y, z \in rows :
        cmp_keys(x.key, y.key) <= 0 /\ cmp_keys(y.key, z.key) <= 0
            => cmp_keys(x.key, z.key) <= 0

Before(x, y) == LET c == cmp_keys(x.key, y.key) IN c < 0 \/ (c = 0 /\ x.at < y.at)

-----------------------------------------------------------------------------
VARIABLES
    op, slice, limit,        \* the operator, its slice and its scratch limit
    input, n,                \* the rows, and how many have arrived
    live,                    \* the buffer, or the heap's entries
    run_rows,                \* runs written
    written,                 \* rows written to scratch
    run_files, dir,          \* scratch on disk: run files, and their directory
    heads,                   \* the merge: per source the next row's place
    passed_over, delivered,  \* rows passed over for OFFSET, rows delivered
    ending                   \* "running", "ok" or how it failed

spill_vars == <<op, slice, limit, input, n, live, run_rows, written, run_files, dir, heads,
          passed_over, delivered, ending>>
query == <<op, slice, limit, input>>

Rows(s) == {s[i] : i \in DOMAIN s}
Merging == heads # <<>>
Arriving == ending = "running" /\ ~Merging

(* Drop: the files of the runs on record, then the directory, which goes   *)
(* only when it is empty.                                                  *)
Drop(recorded) ==
    /\ run_files' = run_files \ (1..recorded)
    /\ dir' = (dir /\ run_files' # {})

End(o, recorded) == ending' = o /\ Drop(recorded)

-----------------------------------------------------------------------------
(* Sorting the buffer.  DISTINCT sorts encoded rows by their bytes; the    *)
(* sort is stable where the keys are totally ordered, and where they are   *)
(* not the outcome is any order.                                           *)

(* The rows in order, equal keys in the order of their arrival.            *)
InOrder(rows) ==
    {t \in SetToSeqs(rows) : \A i, j \in DOMAIN t : i < j => Before(t[i], t[j])}

Sortings(s) ==
    IF op = "distinct"
    THEN {t \in SetToSeqs(Rows(s)) : \A i, j \in DOMAIN t : i < j => t[i].val < t[j].val}
    ELSE IF Total(Rows(s)) THEN InOrder(Rows(s))
    ELSE SetToSeqs(Rows(s))

over_disk_limit(rows) == limit # 0 /\ rows > limit

(* The buffer as a run: the file is there before it is on record.          *)
M_spill_unrecorded(buffer) ==
    \E run \in Sortings(buffer) :
        /\ run_rows' = Append(run_rows, run) /\ written' = written + Len(run) /\ live' = <<>>
        /\ run_files' = run_files \cup {Len(run_rows')}
        /\ IF over_disk_limit(written') THEN ending' = "DiskLimit" /\ dir' = dir
           ELSE UNCHANGED <<ending, dir>>

spill_buffer(buffer) ==
    \/ \E run \in Sortings(buffer) :
          /\ run_rows' = Append(run_rows, run) /\ written' = written + Len(run)
          /\ live' = <<>>
          /\ IF over_disk_limit(written')
             THEN ending' = "DiskLimit" /\ run_files' = {} /\ dir' = FALSE
             ELSE /\ run_files' = run_files \cup {Len(run_rows')}
                  /\ UNCHANGED <<ending, dir>>
    \/ \* the file cannot be made, or a write fails: it is not on record
       /\ ending' = "io" /\ run_files' \in {{}, {Len(run_rows) + 1}} /\ dir' = (run_files' # {})
       /\ UNCHANGED <<run_rows, written, live>>

Buffered(row) ==
    IF op = "distinct" /\ \E r \in Rows(live) : r.val = row.val THEN live ELSE Append(live, row)

(* Distinct::push and Sorted::push.                                        *)
push ==
    /\ Arriving /\ op \in {"distinct", "sort"} /\ n < Len(input)
    /\ n' = n + 1
    /\ LET buffer == Buffered(input[n'])
       IN  IF Len(buffer) >= Budget THEN spill_buffer(buffer)
           ELSE live' = buffer /\ UNCHANGED <<run_rows, written, run_files, dir, ending>>
    /\ UNCHANGED <<query, heads, passed_over, delivered>>

(* Collector::offer: a row that sorts after the worst of a full heap is    *)
(* dropped on arrival.                                                     *)
(* A heap whose order goes round in circles may have any entry on top.     *)
Worst(entries) ==
    IF Total(entries) THEN {e \in entries : \A o \in entries \ {e} : Before(o, e)} ELSE entries
Holds == slice.start + slice.length

M_offer_late_ties ==
    /\ Arriving /\ op = "topk" /\ n < Len(input)
    /\ n' = n + 1
    /\ LET row == input[n'] IN
       IF Len(live) < Holds THEN live' = Append(live, row)
       ELSE \E w \in DOMAIN live :
              /\ live[w] \in Worst(Rows(live))
              /\ live' = IF cmp_keys(row.key, live[w].key) <= 0 THEN [live EXCEPT ![w] = row] ELSE live
    /\ UNCHANGED <<query, run_rows, written, run_files, dir, heads, passed_over, delivered, ending>>

offer ==
    /\ Arriving /\ op = "topk" /\ n < Len(input)
    /\ n' = n + 1
    /\ LET row == input[n'] IN
       IF Len(live) < Holds THEN live' = Append(live, row)
       ELSE \E w \in DOMAIN live :
              /\ live[w] \in Worst(Rows(live))
              /\ live' = IF Before(row, live[w]) THEN [live EXCEPT ![w] = row] ELSE live
    /\ UNCHANGED <<query, run_rows, written, run_files, dir, heads, passed_over, delivered, ending>>

(* The input fails, or the client gives up: everything held is dropped.    *)
GiveUp ==
    /\ ending = "running"
    /\ End("abandoned", Len(run_rows))
    /\ UNCHANGED <<query, n, live, run_rows, written, heads, passed_over, delivered>>

-----------------------------------------------------------------------------
(* The merge                                                               *)

(* Collector::finish_heap: the heap in order, then the slice.                   *)
finish_heap ==
    /\ Arriving /\ op = "topk" /\ n = Len(input)
    /\ \E sorted \in Sortings(live) : delivered' = SubSeq(sorted, slice.start + 1, Len(sorted))
    /\ End("ok", 0)
    /\ UNCHANGED <<query, n, live, run_rows, written, heads, passed_over>>

(* The rest of the buffer is the last source.  What never spilled is read  *)
(* straight from the buffer.                                               *)
merge ==
    /\ Arriving /\ op \in {"distinct", "sort"} /\ n = Len(input)
    /\ IF op = "distinct" /\ run_rows = <<>> THEN live' \in SetToSeqs(Rows(live))
       ELSE live' \in Sortings(live)
    /\ heads' = [i \in 1..(Len(run_rows) + 1) |-> 1]
    /\ UNCHANGED <<query, n, run_rows, written, run_files, dir, passed_over, delivered, ending>>

Source(i) == IF i <= Len(run_rows) THEN run_rows[i] ELSE live
Waiting == {i \in DOMAIN heads : heads[i] <= Len(Source(i))}
HeadOf(i) == Source(i)[heads[i]]

(* Head's order: by bytes or by keys, and the earlier source on a tie.     *)
Precedes(i, j) ==
    IF op = "distinct"
    THEN HeadOf(i).val < HeadOf(j).val \/ (HeadOf(i).val = HeadOf(j).val /\ i < j)
    ELSE LET c == cmp_keys(HeadOf(i).key, HeadOf(j).key) IN c < 0 \/ (c = 0 /\ i < j)

First ==
    IF op = "sort" /\ ~Total({HeadOf(i) : i \in Waiting}) THEN Waiting
    ELSE {i \in Waiting : \A j \in Waiting \ {i} : Precedes(i, j)}

Emitted(row) ==
    IF op = "distinct"
    THEN /\ delivered' = IF delivered # <<>> /\ Last(delivered).val = row.val THEN delivered ELSE Append(delivered, row)
         /\ UNCHANGED passed_over
    ELSE IF passed_over < slice.start
    THEN passed_over' = passed_over + 1 /\ UNCHANGED delivered
    ELSE delivered' = Append(delivered, row) /\ UNCHANGED passed_over

(* Merged::next_row, SortedRows::next_row and the loop of collect_spilled; *)
(* reading a run back may fail.                                            *)
next_row ==
    /\ ending = "running" /\ Merging
    /\ IF Waiting = {} \/ (op = "sort" /\ slice.length >= 0 /\ Len(delivered) >= slice.length)
       THEN End("ok", Len(run_rows)) /\ UNCHANGED <<heads, passed_over, delivered>>
       ELSE \/ \E i \in First :
                  /\ heads' = [heads EXCEPT ![i] = @ + 1]
                  /\ Emitted(HeadOf(i))
                  /\ UNCHANGED <<ending, run_files, dir>>
            \/ run_rows # <<>> /\ End("io", Len(run_rows)) /\ UNCHANGED <<heads, passed_over, delivered>>
    /\ UNCHANGED <<query, n, live, run_rows, written>>

-----------------------------------------------------------------------------
Inputs ==
    {[i \in DOMAIN s |-> [key |-> s[i][1], val |-> s[i][2], at |-> i]] :
        s \in SeqOf(Keys \X Values, MaxRows)}

(* Plan::held: the heap needs a LIMIT, the sort takes either.              *)
SpillInit ==
    /\ op \in {"distinct", "sort", "topk"}
    /\ slice \in IF op = "distinct" THEN {[start |-> 0, length |-> -1]}
                 ELSE {s \in Slices : op = "topk" => s.length > 0}
    /\ limit \in IF op = "topk" THEN {0} ELSE DiskLimits
    /\ input \in Inputs
    /\ n = 0 /\ live = <<>> /\ run_rows = <<>> /\ written = 0
    /\ run_files = {} /\ dir = (op # "topk") /\ heads = <<>>
    /\ passed_over = 0 /\ delivered = <<>> /\ ending = "running"

SpillNext == push \/ offer \/ GiveUp \/ finish_heap \/ merge \/ next_row

SpillSpec == SpillInit /\ [][SpillNext]_spill_vars

-----------------------------------------------------------------------------
(* The slice a query asks for, of a sequence of rows.                      *)
Sliced(s) ==
    IF slice.length < 0 THEN SubSeq(s, slice.start + 1, Len(s))
    ELSE SubSeq(s, slice.start + 1, IF Holds < Len(s) THEN Holds ELSE Len(s))

(* The heap and the spilling sort give, row for row, the slice of one      *)
(* stable sort of the whole input, wherever the buffer was cut into runs   *)
(* (topk.rs, cmp_keys: "a query answered by either comes back the same     *)
(* way"), if the keys are totally ordered; where they are not, still rows  *)
(* of the input, none twice, and as many as the slice asks for.  DISTINCT  *)
(* delivers every value that arrived, once, however often it was spilled.  *)
OperatorsExact ==
    ending = "ok" =>
        IF op = "distinct"
        THEN /\ {r.val : r \in Rows(delivered)} = {r.val : r \in Rows(input)}
             /\ \A i, j \in DOMAIN delivered : delivered[i].val = delivered[j].val => i = j
        ELSE /\ Total(Rows(input)) => \E sorted \in InOrder(Rows(input)) : delivered = Sliced(sorted)
             /\ Rows(delivered) \subseteq Rows(input) /\ Cardinality(Rows(delivered)) = Len(delivered)
             /\ Len(delivered) = Len(Sliced(input))

(* Whatever way the operator ends, nothing of it is left in scratch        *)
(* (OPERATIONS.md: "It is removed when the query ends, including on        *)
(* error").                                                                *)
ScratchRemoved == ending # "running" => run_files = {} /\ ~dir

(* The same but for the run whose writing failed: its file is not on       *)
(* record when Drop runs, and the directory stays with it.  Every other    *)
(* run's file goes, on every other way to end and on this one.             *)
ScratchGone ==
    ending # "running" =>
        \/ run_files = {} /\ ~dir
        \/ ending = "io" /\ run_files = {Len(run_rows) + 1} /\ dir
=============================================================================
