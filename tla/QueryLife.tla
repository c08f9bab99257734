----------------------------- MODULE QueryLife -----------------------------
(***************************************************************************)
(* The life of one query in the engine: the pipeline Engine::run chooses a *)
(* path for it, the guard (options.rs, Deadline) watches it from a thread  *)
(* of its own, the counting allocator (alloc.rs, memory.rs) tells both how *)
(* much memory is live, and the client drains the answer row by row.       *)
(*                                                                         *)
(* A query of `Rows` solutions is read one row at a time.  The rows are    *)
(* not modelled, only how many have been read, are held by an operator,    *)
(* and were delivered.  Finding the next row is not fair: a scan may look  *)
(* at quads that match nothing for as long as it likes, which is what a    *)
(* time limit is for.                                                      *)
(***************************************************************************)
EXTENDS Naturals

CONSTANTS
    Rows,         \* solutions of the query
    MemoryLimit,  \* --max-query-memory of one query, in rows
    Ceiling,      \* the process's ceiling above its resting set
    Loaded,       \* what the store holds in memory when serving begins
    MaxOther      \* BOUND: what neighbours may hold beyond `Loaded`

ASSUME QueryLifeAssumption ==
    /\ {Rows, MemoryLimit, Ceiling, Loaded, MaxOther} \subseteq Nat
    /\ Rows > 0 /\ Ceiling > 0

(* What the algebra of a query is, as far as the pipeline tells shapes     *)
(* apart: a boolean, plain rows, ORDER BY with a LIMIT that is held in a   *)
(* heap, ORDER BY without, DISTINCT, the DISTINCT that is answered from    *)
(* the store's predicate list, and GROUP BY.                               *)
Shapes == {"ask", "rows", "topk", "sort", "distinct", "predicates", "group"}

(* QueryOptions, as far as the pipeline reads them.  `plain`: no dataset,  *)
(* no substitution and the index join not switched off; `over`: a budget   *)
(* and statistics are given and a blocking operator is estimated over it.  *)
Options == [timed : BOOLEAN, capped : BOOLEAN, spill : BOOLEAN,
            plain : BOOLEAN, explain : BOOLEAN, over : BOOLEAN]

VARIABLES
    shape, opts,        \* the query; `joins`: the index join accepts its body
    joins,
    place,              \* where the query's thread is
    error,              \* what the last read brought: "none" or an error
    cursor,             \* how far the scan that runs now has come
    read,               \* rows its operator has taken from it
    buffered,           \* rows an operator holds in memory
    out,                \* rows delivered to the client
    answer,             \* "running", "ok", or how the query failed
    watch,              \* the watchdog: "off", "asleep", "trip", "ended"
    over,               \* consecutive samples above the limit
    baseline,           \* live bytes when the guard was made
    trip, token, done,  \* the guard's shared state
    late,               \* the deadline has passed
    other,              \* what everything but this query has allocated
    resting, ceiling    \* memory.rs: RESTING, CEILING

query == <<shape, opts, joins>>
guardv == <<watch, over, baseline, trip, token>>
rowv == <<cursor, read, buffered, out, error>>
memv == <<other, resting, ceiling>>
query_vars == <<query, place, rowv, answer, guardv, done, late, memv>>

-----------------------------------------------------------------------------
(* The allocator and the figures kept from it                              *)

live_bytes == other + buffered

Saturating(a, b) == IF a > b THEN a - b ELSE 0

over_ceiling == ceiling # 0 /\ Saturating(live_bytes, resting) > ceiling

(* Neighbours allocate and release; realloc is the difference of the two.  *)
Neighbour ==
    /\ place \notin {"boot", "end"}
    /\ \/ other < Loaded + MaxOther /\ other' = other + 1
       \/ other > 0 /\ other' = other - 1
    /\ UNCHANGED <<query, place, rowv, answer, guardv, done, late, resting, ceiling>>

(* The store is open and loaded; only then is the ceiling set.             *)
set_ceiling ==
    /\ place = "boot"
    /\ resting' = live_bytes /\ ceiling' = Ceiling
    /\ place' = "start"
    /\ UNCHANGED <<query, rowv, answer, guardv, done, late, other>>

-----------------------------------------------------------------------------
(* The guard                                                               *)

Guarded == opts.timed \/ opts.capped

(* The error a tripped guard hands over, and what an error passing back up *)
(* through a guard becomes.                                                *)
cancellation == IF trip = "none" THEN "Cancelled" ELSE trip

explain(e) == IF e = "Cancelled" /\ token THEN cancellation ELSE e

SustainedSamples == 3

(* A watchdog that cancels on waking and says why afterwards.              *)
M_Sample_cancels_first ==
    /\ watch = "asleep"
    /\ LET used == Saturating(live_bytes, baseline)
           above == opts.capped /\ used > MemoryLimit
       IN  IF done
           THEN watch' = "ended" /\ UNCHANGED <<over, token>>
           ELSE /\ over' = IF above THEN over + 1 ELSE 0
                /\ IF (opts.timed /\ late) \/ over' >= SustainedSamples
                   THEN watch' = "trip" /\ token' = TRUE
                   ELSE UNCHANGED <<watch, token>>
    /\ UNCHANGED <<query, place, rowv, answer, baseline, trip, done, late, memv>>

(* One wake of the watchdog: it leaves when the query is done; the deadline *)
(* is looked at first, memory only before it.                              *)
Sample ==
    /\ watch = "asleep"
    /\ LET used == Saturating(live_bytes, baseline)
           above == opts.capped /\ used > MemoryLimit
       IN  IF done
           THEN watch' = "ended" /\ UNCHANGED <<over, trip>>
           ELSE IF opts.timed /\ late
           THEN watch' = "trip" /\ trip' = "Timeout" /\ UNCHANGED over
           ELSE /\ over' = IF above THEN over + 1 ELSE 0
                /\ IF over' >= SustainedSamples
                   THEN watch' = "trip" /\ trip' = "Memory"
                   ELSE UNCHANGED <<watch, trip>>
    /\ UNCHANGED <<query, place, rowv, answer, baseline, token, done, late, memv>>

(* The reason is on record: the token may be cancelled, and the watchdog   *)
(* has nothing left to do.                                                 *)
Cancel ==
    /\ watch = "trip"
    /\ token' = TRUE /\ watch' = "ended"
    /\ UNCHANGED <<query, place, rowv, answer, over, baseline, trip, done, late, memv>>

Expire ==
    /\ opts.timed /\ watch # "off" /\ ~late
    /\ late' = TRUE
    /\ UNCHANGED <<query, place, rowv, answer, guardv, done, memv>>

-----------------------------------------------------------------------------
(* The pipeline                                                            *)

Goto(l) == place' = l /\ UNCHANGED <<answer, done>>

(* The query is over: its operators let go of what they held, and dropping *)
(* the guard tells the watchdog.                                           *)
Finish(a) ==
    /\ place' = "end" /\ answer' = a
    /\ done' = (watch # "off")
    /\ buffered' = 0
    /\ UNCHANGED <<query, cursor, read, out, error, guardv, late, memv>>

(* Nothing in the options changes what the query means.                    *)
Plain == opts.plain /\ ~opts.explain

(* Check, shortcut, admit: all before there is a guard.                    *)
Start ==
    /\ place = "start"
    /\ IF shape = "predicates" /\ Plain THEN Goto("list")
       ELSE Goto("admit")
    /\ UNCHANGED <<query, rowv, guardv, late, memv>>

(* A statement of admission: refused, unless it is the DISTINCT that can   *)
(* be spilled and there is a budget to spill in; that one is evaluated     *)
(* with no guard.                                                          *)
Admit ==
    /\ place = "admit"
    /\ LET Blocking == shape \in {"distinct", "sort"}
       IN  \/ /\ opts.over /\ Blocking
              /\ IF opts.spill /\ shape = "distinct"
                 THEN Goto("dedup") /\ UNCHANGED <<rowv, query, guardv, late, memv>>
                 ELSE IF opts.spill /\ shape = "sort"
                 THEN Goto("guard") /\ UNCHANGED <<rowv, query, guardv, late, memv>>
                 ELSE Finish("Refused")
           \/ /\ ~(opts.over /\ Blocking)
              /\ Goto("guard")
              /\ UNCHANGED <<rowv, query, guardv, late, memv>>

guard ==
    /\ place = "guard"
    /\ IF Guarded
       THEN watch' = "asleep" /\ baseline' = live_bytes
       ELSE UNCHANGED <<watch, baseline>>
    /\ Goto(IF shape = "group" /\ joins /\ Plain THEN "group" ELSE "route")
    /\ UNCHANGED <<query, rowv, over, trip, token, late, memv>>

(* Outside the index join's fragment, which DISTINCT and LIMIT are in.      *)
Folded == {"ask", "sort", "group"}

(* Which path runs: the heap of an ORDER BY with a LIMIT, fed with ids by  *)
(* the index join or with decoded rows; the spilling sort; the index join; *)
(* or the evaluator.                                                       *)
route ==
    /\ place = "route"
    /\ \/ /\ shape = "topk" /\ ~opts.explain
          /\ Goto(IF joins /\ opts.plain THEN "ids" ELSE "heap")
       \/ /\ shape = "sort" /\ ~opts.explain /\ opts.spill
          /\ Goto("sorter")
       \/ /\ ~(~opts.explain /\ (shape = "topk" \/ (shape = "sort" /\ opts.spill)))
          /\ Goto(IF joins /\ Plain /\ shape \notin Folded
                  THEN "join" ELSE "evaluate")
    /\ UNCHANGED <<query, rowv, guardv, late, memv>>

(* One read through the dataset view, where the token and the ceiling are  *)
(* asked: what it brings, if it does not bring a row.                      *)
ReadError ==
    IF token THEN "Cancelled" ELSE IF over_ceiling THEN "OverCeiling" ELSE "none"

(* A row more read, and held when the operator keeps its rows.             *)
Row(keeps) ==
    /\ cursor < Rows /\ cursor' = cursor + 1 /\ read' = read + 1
    /\ buffered' = IF keeps THEN buffered + 1 ELSE buffered
    /\ place' = place
    /\ UNCHANGED <<query, out, error, answer, guardv, done, late, other, resting, ceiling>>

(* The shortcut's rows are a table in the query, which every path reads.   *)
Tabled == shape = "predicates" /\ Plain

(* Rows of a join that gave up left among those of the evaluator.          *)
M_Fall_keeps_rows == cursor' = 0 /\ UNCHANGED <<read, buffered>>

(* The index join gave up: its rows are thrown away and the evaluator      *)
(* starts from nothing but the query and its tables.                       *)
Fall ==
    IF Tabled THEN UNCHANGED <<cursor, read, buffered>>
    ELSE cursor' = 0 /\ read' = 0 /\ buffered' = 0

(* An index join that collects its rows gives up, at any of them: on the   *)
(* token, on a row too many for its budget, on a term that the dictionary  *)
(* never saw (bindjoin.rs), and for a group on a blank node.  The caller   *)
(* goes on at `next` as if there were no index join.                       *)
GivesUp(next) ==
    /\ Fall /\ Goto(next)
    /\ UNCHANGED <<query, out, error, guardv, late, memv>>

(* try_bind_join: all rows into memory, and an error of the view is the    *)
(* query's.  The guard goes when the rows are in.                          *)
try_bind_join ==
    /\ place = "join"
    /\ \/ GivesUp("evaluate")
       \/ ~token /\ over_ceiling /\ Finish("OverCeiling")
       \/ ~token /\ ~over_ceiling /\ Row(TRUE)
       \/ /\ cursor = Rows /\ place' = "held" /\ done' = (watch # "off")
          /\ UNCHANGED <<query, rowv, answer, guardv, late, memv>>

(* The same join for the input of a group, which then becomes a table of   *)
(* the query: the guard stays.                                             *)
group_materialised ==
    /\ place = "group"
    /\ \/ GivesUp("route")
       \/ ~token /\ over_ceiling /\ Finish("OverCeiling")
       \/ ~token /\ ~over_ceiling /\ Row(TRUE)
       \/ /\ cursor = Rows /\ Goto("route")
          /\ UNCHANGED <<query, rowv, guardv, late, memv>>

(* An index join of ids that never looks at its token.                     *)
M_top_k_ignores_token ==
    /\ place = "ids"
    /\ \/ over_ceiling /\ Finish("OverCeiling")
       \/ ~over_ceiling /\ Row(TRUE)
       \/ /\ cursor = Rows /\ place' = "held" /\ done' = (watch # "off")
          /\ UNCHANGED <<query, rowv, answer, guardv, late, memv>>

(* collect_ids: no budget, but abandoned on its token or on a term that    *)
(* the dictionary never saw (a path's end, a row of VALUES).  Either way   *)
(* the guard is asked why, and the evaluator is not.                       *)
top_k ==
    /\ place = "ids"
    /\ \/ Finish(cancellation)
       \/ ~token /\ over_ceiling /\ Finish("OverCeiling")
       \/ ~token /\ ~over_ceiling /\ Row(TRUE)
       \/ /\ cursor = Rows /\ place' = "held" /\ done' = (watch # "off")
          /\ UNCHANGED <<query, rowv, answer, guardv, late, memv>>

(* The shortcut's list and the spilled DISTINCT read with no guard: no     *)
(* token to look at.  The list becomes a table of the query, which goes on *)
(* without reading the store.                                              *)
Unguarded ==
    /\ place \in {"list", "dedup"}
    /\ \/ over_ceiling /\ Finish("OverCeiling")
       \/ ~over_ceiling /\ Row(place = "list")
       \/ /\ cursor = Rows
          /\ Goto(IF place = "list" THEN "admit" ELSE "held")
          /\ UNCHANGED <<query, rowv, guardv, late, memv>>

(* The evaluator reads: its own Cancelled, the view's refusal, or a row.   *)
(* The rows go to the client, the heap, or the sorter.                     *)
EvaluatorStages == {"evaluate", "heap", "sorter"}

Keeps == place # "evaluate" \/ shape \in {"distinct", "sort", "topk", "group"}

evaluate_with ==
    /\ place \in EvaluatorStages /\ error = "none" /\ cursor < Rows
    /\ \/ /\ ReadError # "none" /\ error' = ReadError
          /\ UNCHANGED <<query, place, cursor, read, buffered, out, answer, guardv, done, late, memv>>
       \/ ReadError = "none" /\ Row(Keeps)

(* guard_with_deadline: each row, good or bad, passes the guard; an error  *)
(* of an explained query's execution passes it only when rows are yielded. *)
guard_with_deadline ==
    /\ place \in EvaluatorStages
    /\ error # "none"
    /\ IF shape = "ask" /\ opts.explain THEN Finish(error)
       ELSE IF watch # "off" /\ token THEN Finish(cancellation)
       ELSE Finish(explain(error))

(* A row in hand is withheld when the guard has fired meanwhile: the       *)
(* evaluator's iterator is abandoned.                                      *)
Withhold ==
    /\ place \in EvaluatorStages /\ error = "none"
    /\ token /\ out < read /\ shape # "ask"
    /\ Finish(cancellation)

(* The client takes what the evaluator yields one row at a time.           *)
Deliver ==
    /\ place = "evaluate" /\ error = "none" /\ ~token
    /\ shape # "ask" /\ out < read
    /\ shape \in {"distinct", "sort", "topk", "group"} => cursor = Rows
    /\ out' = out + 1
    /\ UNCHANGED <<query, place, cursor, read, buffered, error, answer, guardv, done, late, memv>>

EndOfRows ==
    /\ place = "evaluate" /\ error = "none" /\ cursor = Rows
    /\ shape = "ask" \/ out = read
    /\ Finish("ok")

(* The body is drained.  The heap's rows need no guard any more; the       *)
(* sorter keeps the drained iterator, and the guard in it, for its merge.  *)
Drained ==
    /\ place \in {"heap", "sorter"} /\ error = "none" /\ cursor = Rows
    /\ IF place = "heap"
       THEN place' = "held" /\ done' = (watch # "off")
       ELSE place' = "merge" /\ done' = done
    /\ UNCHANGED <<query, rowv, answer, guardv, late, memv>>

(* collect_spilled's merge reads the token itself, and has nobody to       *)
(* explain it.                                                             *)
Merge ==
    /\ place = "merge"
    /\ \/ token /\ Finish("Cancelled")
       \/ /\ ~token /\ out < read /\ out' = out + 1
          /\ UNCHANGED <<query, place, cursor, read, buffered, error, answer, guardv, done, late, memv>>
       \/ out = read /\ Finish("ok")

(* Rows in memory go out with nothing left to stop them.                   *)
Held ==
    /\ place = "held"
    /\ \/ /\ out < read /\ out' = out + 1
          /\ UNCHANGED <<query, place, cursor, read, buffered, error, answer, guardv, done, late, memv>>
       \/ out = read /\ Finish("ok")

(* The client goes away: dropping the rows drops the guard.                *)
Abandon ==
    /\ place \in {"evaluate", "held", "merge"} /\ error = "none"
    /\ Finish("abandoned")

-----------------------------------------------------------------------------
QueryInit ==
    /\ shape \in Shapes /\ opts \in Options /\ joins \in BOOLEAN
    /\ place = "boot" /\ answer = "running" /\ error = "none"
    /\ cursor = 0 /\ read = 0 /\ buffered = 0 /\ out = 0
    /\ watch = "off" /\ over = 0 /\ baseline = 0
    /\ trip = "none" /\ token = FALSE /\ done = FALSE /\ late = FALSE
    /\ other = Loaded /\ resting = 0 /\ ceiling = 0

Thread ==
    \/ Start \/ Admit \/ guard \/ route
    \/ try_bind_join \/ top_k \/ Unguarded \/ group_materialised
    \/ evaluate_with \/ guard_with_deadline \/ Withhold \/ Drained
    \/ Deliver \/ EndOfRows \/ Merge \/ Held

Watchdog == Sample \/ Cancel

QueryNext == set_ceiling \/ Thread \/ Abandon \/ Watchdog \/ Expire \/ Neighbour

(* A scan is looking for its next row and nobody asked it to stop.         *)
Scanning ==
    /\ place \in {"join", "group", "ids", "list", "dedup"} \cup EvaluatorStages
    /\ error = "none" /\ cursor < Rows /\ ~token

(* Threads run and clocks advance; the scan for the next row, asked to     *)
(* stop or not, neighbours and impatient clients owe nothing.              *)
QueryFairness ==
    /\ WF_query_vars(Thread /\ ~Scanning /\ cursor' <= cursor)
    /\ WF_query_vars(Watchdog) /\ WF_query_vars(Expire) /\ WF_query_vars(set_ceiling)

QuerySpec == QueryInit /\ [][QueryNext]_query_vars /\ QueryFairness

-----------------------------------------------------------------------------
(* Properties                                                              *)

(* A query that is stopped was stopped by its guard and says which limit   *)
(* it was (options.rs, cancellation: the reason is on record before the    *)
(* token is cancelled).  Three paths do not keep to it: the merge of a     *)
(* spilled sort reads the token itself and reports the bare Cancelled,     *)
(* "timeout" to the client even when it was memory; the error of an        *)
(* explained ASK passes no guard; and the heap's index join reports        *)
(* Cancelled, with no limit reached, for a term that the dictionary never  *)
(* saw, although top_k has it that only the guard cancels the token.       *)
StoppedSaysWhy ==
    answer \in {"Timeout", "Memory", "Cancelled"} =>
        \/ answer = trip
        \/ /\ answer = "Cancelled" /\ token /\ trip # "none"
           /\ (shape = "sort" /\ opts.spill) \/ (shape = "ask" /\ opts.explain)
        \/ /\ answer = "Cancelled" /\ trip = "none"
           /\ shape = "topk" /\ joins /\ opts.plain

(* A query that reports success has delivered every row once, whichever    *)
(* paths were tried and given up at whatever row before (Engine::run):     *)
(* the index join's rows, or the evaluator's, never some of each.          *)
SuccessComplete ==
    answer = "ok" => read = Rows /\ (shape = "ask" \/ out = Rows)

(* A query whose time limit is being watched ends, however long its scan:  *)
(* every path looks at the token (options.rs, guard; lib.rs, run).  And no *)
(* thread is left behind: its watchdog ends too (Drop for Deadline).       *)
TimedQueryEnds ==
    (opts.timed /\ watch # "off") ~> (place = "end" /\ watch = "ended")
=============================================================================
