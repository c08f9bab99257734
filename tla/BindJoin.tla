------------------------------ MODULE BindJoin -----------------------------
(***************************************************************************)
(* bindjoin.rs: a SELECT is planned into items and filters, or refused;    *)
(* the items are then joined one at a time by nested loops, the cheapest   *)
(* first, and the rows are collected, or handed to the heap of top_k as    *)
(* they come.  Estimates are whatever the statistics say, so any order     *)
(* they could suggest is explored.  A run that meets a term the store does *)
(* not hold, too many rows or a cancelled token is abandoned, and the      *)
(* query goes to the evaluator, or fails under top_k.                      *)
(***************************************************************************)
EXTENDS Algebra

CONSTANTS
    Cases,      \* the queries and datasets: [query, data]
    RowBudget,  \* Limits.rows
    MayCancel   \* the token may be cancelled

-----------------------------------------------------------------------------
(* Planning.  A plan part is [items, filters, certain, possible]; a        *)
(* failure is the empty set, a result a singleton.                         *)

part(items, filters, certain, possible) ==
    [items |-> items, filters |-> filters, certain |-> certain, possible |-> possible]

The(found) == CHOOSE x \in found : TRUE

(* bnode-as-variable: a blank node joins like a variable nobody projects.  *)
unblank(t) == IF t[1] = "blank" THEN <<"var", "bnode", t[2]>> ELSE t
without_blank_nodes(t) == <<unblank(t[1]), unblank(t[2]), unblank(t[3])>>
Scoped(scope) == IF IsVar(scope) THEN {scope} ELSE {}

PatternItem(t, scope) == [k |-> "pattern", t |-> without_blank_nodes(t), scope |-> scope]

patterns_of(triples, scope) == [i \in DOMAIN triples |-> PatternItem(triples[i], scope)]

collect_variables(item) == {v \in Pos(item.t) : IsVar(v)}
variables_of_pattern(item) == collect_variables(item) \cup Scoped(item.scope)
bound_of(items) == UNION {variables_of_pattern(items[i]) : i \in DOMAIN items}

(* union_branches: alternatives of plain patterns only.                    *)
RECURSIVE union_branches(_, _)
union_branches(p, scope) ==
    CASE p.op = "union" ->
            LET a == union_branches(p.l, scope)
                b == union_branches(p.r, scope)
            IN  IF a = {} \/ b = {} THEN {}
                ELSE {[branches |-> The(a).branches \o The(b).branches,
                       certain |-> The(a).certain \cap The(b).certain,
                       possible |-> The(a).possible \cup The(b).possible]}
      [] p.op = "graph" -> IF scope # Default THEN {} ELSE union_branches(p.in, p.name)
      [] p.op = "bgp" ->
            LET items == patterns_of(p.triples, scope)
            IN  IF items = <<>> THEN {}
                ELSE {[branches |-> <<items>>, certain |-> bound_of(items), possible |-> bound_of(items)]}
      [] OTHER -> {}

inspect_expression(e) == \A c \in conjuncts(e) : c.f \notin {"exists", "rand"}
needs(e) == {v \in {e.args[i] : i \in DOMAIN e.args} : IsVar(v)}
Filters(e) == ListOf(conjuncts(e))

OptionalItem(mode, inner, owned, outer) ==
    [k |-> "optional", mode |-> mode, items |-> inner.items, filters |-> owned,
     fresh |-> inner.possible \ outer.possible]

(* The right side of OPTIONAL or MINUS becomes one item.  Its filters join *)
(* the list, of which "before" were there, and the item owns those places: *)
(* also the ones of an OPTIONAL inside it, which itself keeps the places   *)
(* its filters had in a list of their own.                                 *)
attach(mode, outer, inner, filters, before) ==
    LET all == outer.filters \o filters
        owned == (before + Len(outer.filters) + 1)..(before + Len(all))
    IN  part(Append(outer.items, OptionalItem(mode, inner, owned, outer)), all, outer.certain,
             IF mode = "extend" THEN outer.possible \cup inner.possible ELSE outer.possible)

joined(a, b) ==
    part(a.items \o b.items, a.filters \o b.filters, a.certain \cup b.certain, a.possible \cup b.possible)

(* before: how many filters the list already has.                          *)
RECURSIVE collect(_, _, _)
collect(p, scope, before) ==
    CASE p.op = "bgp" ->
            LET items == patterns_of(p.triples, scope)
            IN  {part(items, <<>>, bound_of(items), bound_of(items))}
      [] p.op = "project" -> {a \in collect(p.in, scope, 0) : a.possible \subseteq p.vars}
      [] p.op = "minus" ->
            {attach("remove", ab[1], ab[2], ab[2].filters, before) :
                ab \in {x \in collect(p.l, scope, before) \X collect(p.r, scope, 0) :
                            x[2].possible \cap x[1].certain # {}}}
      [] p.op = "leftjoin" ->
            {attach("extend", ab[1], ab[2], ab[2].filters \o Filters(p.e), before) :
                ab \in {x \in collect(p.l, scope, before) \X collect(p.r, scope, 0) :
                            /\ inspect_expression(p.e)
                            /\ \A c \in conjuncts(p.e) : needs(c) \subseteq x[1].certain \cup x[2].certain}}
      [] p.op = "closure" ->
            LET item == [k |-> "closure", s |-> unblank(p.s), o |-> unblank(p.o), p |-> p.p,
                         inverse |-> p.inverse, hops |-> p.hops, scope |-> scope]
                vars == {v \in {item.s, item.o} : IsVar(v)}
            IN  {part(<<item>>, <<>>, vars, vars)}
      [] p.op = "alternatives" ->
            LET branches == [i \in DOMAIN p.preds |-> patterns_of(<<<<p.s, p.preds[i], p.o>>>>, scope)]
                vars == {v \in {unblank(p.s), unblank(p.o)} : IsVar(v)}
            IN  {part(<<[k |-> "union", branches |-> branches]>>, <<>>, vars, vars)}
      [] p.op = "graph" -> IF scope # Default THEN {} ELSE collect(p.in, p.name, before)
      [] p.op = "join" ->
            UNION {{joined(a, b) : b \in collect(p.r, scope, before + Len(a.filters))} :
                      a \in collect(p.l, scope, before)}
      [] p.op = "filter" ->
            {[a EXCEPT !.filters = @ \o Filters(p.e)] :
                a \in {a \in collect(p.in, scope, before) :
                          /\ inspect_expression(p.e)
                          /\ \A c \in conjuncts(p.e) : needs(c) \subseteq a.certain}}
      [] p.op = "union" ->
            {part(<<[k |-> "union", branches |-> u.branches]>>, <<>>, u.certain, u.possible) :
                u \in union_branches(p, scope)}
      [] p.op = "values" ->
            {part(<<[k |-> "values", vars |-> p.vars, rows |-> p.rows]>>, <<>>,
                  {v \in p.vars : \A i \in DOMAIN p.rows : v \in DOMAIN p.rows[i]}, p.vars)}
      [] OTHER -> {}

Optionals(items) == SelectSeq(items, LAMBDA item : item.k = "optional")

RECURSIVE variables_of_items(_)
variables_of_items(items) ==
    LET of(item) == CASE item.k = "pattern" -> variables_of_pattern(item)
                      [] item.k = "closure" -> {v \in {item.s, item.o} : IsVar(v)}
                      [] item.k = "union" -> UNION {bound_of(item.branches[i]) : i \in DOMAIN item.branches}
                      [] item.k = "values" -> item.vars
                      [] item.k = "optional" -> variables_of_items(item.items)
    IN  UNION {of(items[i]) : i \in DOMAIN items}

RECURSIVE gather_optionals(_)
gather_optionals(items) ==
    Concat([i \in DOMAIN Optionals(items) |->
                <<Optionals(items)[i]>> \o gather_optionals(Optionals(items)[i].items)])

RECURSIVE collect_outside(_, _)
collect_outside(items, skip) ==
    LET of(item) == IF item.k # "optional" THEN variables_of_items(<<item>>)
                    ELSE IF item = skip THEN {} ELSE collect_outside(item.items, skip)
    IN  UNION {of(items[i]) : i \in DOMAIN items}

(* What an OPTIONAL is first to bind is mentioned nowhere else.            *)
well_designed(items, filters) ==
    LET all == gather_optionals(items)
        elsewhere(i) ==
            UNION {variables_of_items(all[j].items) : j \in DOMAIN all \ {i}}
                \cup collect_outside(items, all[i])
                \cup UNION {needs(filters[f]) : f \in DOMAIN filters \ all[i].filters}
    IN  \A i \in DOMAIN all : all[i].fresh \cap elsewhere(i) = {}

closures_can_be_anchored(items) ==
    \A i \in {i \in DOMAIN items : items[i].k = "closure"} :
        LET elsewhere == variables_of_items([j \in 1..(Len(items) - 1) |-> items[IF j < i THEN j ELSE j + 1]])
        IN  \E t \in {items[i].s, items[i].o} : IsVar(t) => t \in elsewhere

(* DISTINCT and one slice above the projection; no slice under DISTINCT.   *)
RECURSIVE plan_of(_, _, _, _)
plan_of(node, distinct, start, length) ==
    CASE node.op = "distinct" -> plan_of(node.in, TRUE, start, length)
      [] node.op = "slice" -> IF start # 0 \/ length # -1 \/ distinct THEN {}
                              ELSE plan_of(node.in, distinct, node.start, node.length)
      [] node.op = "project" ->
            {[items |-> a.items, filters |-> a.filters, vars |-> node.vars,
              distinct |-> distinct, offset |-> start, limit |-> length] :
                a \in {a \in collect(node.in, Default, 0) :
                          /\ a.items # <<>> /\ node.vars \subseteq a.possible
                          /\ well_designed(a.items, a.filters)
                          /\ closures_can_be_anchored(a.items)}}
      [] OTHER -> {}

plan(query) == IF query.from # Default THEN {} ELSE plan_of(query.pattern, FALSE, 0, -1)

-----------------------------------------------------------------------------
(* topk.rs: ORDER BY with LIMIT runs its body, wide enough for the keys.   *)

topk_body(pattern) ==
    LET projection == IF pattern.op = "slice" THEN pattern.in ELSE pattern
    IN  IF projection.op # "project" THEN {}
        ELSE IF projection.in.op # "orderby" THEN {}
        ELSE IF pattern.op # "slice" THEN {}
        ELSE IF pattern.length <= 0 THEN {}
        ELSE {[op |-> "project", in |-> projection.in.in, vars |-> projection.vars \cup projection.in.by]}

-----------------------------------------------------------------------------
VARIABLES
    case,            \* the query and the data
    sinking,         \* rows go to the heap of top_k
    the,             \* the plan, or {} where there is none
    stack,           \* the calls of step under way, the innermost last
    out, seen_rows,  \* rows held (or handed to the heap), rows seen
    skipped, completions,
    abandoned, cancelled,
    answered         \* "running", then how the query was answered

join_vars == <<case, sinking, the, stack, out, seen_rows, skipped, completions, abandoned, cancelled, answered>>

data == case.data
Body == IF sinking THEN [case.query EXCEPT !.pattern = The(topk_body(case.query.pattern))] ELSE case.query

Frame(call, todo, pending, row) ==
    [call |-> call, todo |-> todo, pending |-> pending, row |-> row,
     mode |-> "", before |-> completions, saved |-> Len(out), rows |-> <<>>]
Step(todo, pending, row) == Frame("step", todo, pending, row)

Top == stack[Len(stack)]
Below == SubSeq(stack, 1, Len(stack) - 1)
Steps(rows, rest, pending) == [i \in DOMAIN rows |-> Step(rest, pending, rows[Len(rows) + 1 - i])]

owned_by_optionals(items) ==
    UNION {gather_optionals(items)[i].filters : i \in DOMAIN gather_optionals(items)}

(* run: every filter no OPTIONAL owns is pending, nothing is bound.        *)
JoinInit ==
    /\ case \in Cases
    /\ sinking = (topk_body(case.query.pattern) # {})
    /\ the = plan(Body)
    /\ out = <<>> /\ seen_rows = {} /\ skipped = 0 /\ completions = 0
    /\ abandoned = FALSE /\ cancelled = FALSE
    /\ IF the = {} THEN stack = <<>> /\ answered = "evaluator"
       ELSE /\ answered = "running"
            /\ stack = <<Step(The(the).items,
                              DOMAIN The(the).filters \ owned_by_optionals(The(the).items), <<>>)>>

Plan == The(the)
FilterAt(f) == Plan.filters[f]
Ready(pending, row) == {f \in pending : f \in DOMAIN Plan.filters /\ needs(FilterAt(f)) \subseteq DOMAIN row}
Full == Plan.limit # -1 /\ ~sinking /\ Len(out) >= Plan.limit
OverBudget == ~sinking /\ Len(out) + Cardinality(seen_rows) > RowBudget

Return == stack' = Below
Idle == UNCHANGED <<case, sinking, the, cancelled, answered>>
Quiet == UNCHANGED <<out, seen_rows, skipped, completions, abandoned>>

-----------------------------------------------------------------------------
(* Matching items                                                          *)

InScope(scope, row, q) ==
    IF scope = Default THEN q.g = Default
    ELSE IF ~IsVar(scope) THEN q.g = scope
    ELSE IF scope \in DOMAIN row THEN q.g = row[scope] ELSE q.g # Default

(* range.rs: the ids a comparison admits: the span of the inline integers, *)
(* and every literal of the dictionary, whose id says nothing of its value.*)
Comparison(e, v) == e.f \in {"lt", "le"} /\ v \in needs(e) /\ Cardinality(needs(e)) = 1
                        /\ \E i \in 1..2 : e.args[i] = v /\ e.args[3 - i][1] \in {"int", "dec"}
spans(e, v, t) ==
    \/ t[1] \in {"dec", "str", "lang", "geo"}
    \/ t[1] = "int" /\ Truth(e, [x \in {v} |-> t])

spans_for(item, row, pending, t) ==
    LET v == item.t[3]
        bounds == {f \in pending : f \in DOMAIN Plan.filters /\ Comparison(FilterAt(f), v)}
        e == FilterAt(Min(bounds))
    IN  IsVar(v) /\ v \notin DOMAIN row /\ bounds # {} /\ (\E i \in 1..2 : e.args[i][1] = "int")
            => spans(e, v, t)

probe(item, row, pending) ==
    LET t == <<At(row, item.t[1]), At(row, item.t[2]), At(row, item.t[3])>>
        graph(q) == [v \in Scoped(item.scope) |-> q.g]
        hits == {q \in data : /\ InScope(item.scope, row, q) /\ Unifies(t, q)
                               /\ Compatible(Binding(t, q), graph(q))
                               /\ spans_for(item, row, pending, q.t[3])}
        rows == ListOf(hits)
    IN  [i \in DOMAIN rows |-> Both(row, Both(Binding(t, rows[i]), graph(rows[i])))]

(* reach.rs: breadth first, each node expanded once and given once.        *)
RECURSIVE reachable(_, _, _, _, _)
reachable(frontier, expanded, emitted, edges, hops) ==
    IF frontier = {} THEN emitted
    ELSE LET reached == {e[2] : e \in {e \in edges : e[1] \in frontier}}
             next == IF hops = "zero_or_one" THEN {} ELSE reached \ expanded
         IN  reachable(next, expanded \cup next, emitted \cup reached, edges, hops)

zero_length_admissible(item, row, seed) ==
    item.hops # "one_or_more" /\ IsVar(item.s) /\ IsVar(item.o)
        => \E q \in data : InScope(item.scope, row, q) /\ seed \in {q.t[1], q.t[3]}

(* A walk from the end that is known.  The walk of a scope whose graph is  *)
(* not bound yet goes over all named graphs.                               *)
probe_closure(item, row) ==
    LET s == At(row, item.s)
        o == At(row, item.o)
        forward == ~IsVar(s)
        seed == IF forward THEN s ELSE o
        far == IF forward THEN item.o ELSE item.s
        target == IF forward THEN o ELSE s
        edges == Edges(item.p, forward = item.inverse, {q \in data : InScope(item.scope, row, q)})
        start == IF item.hops = "one_or_more" THEN {} ELSE {seed}
        nodes == IF ~zero_length_admissible(item, row, seed) THEN {}
                 ELSE reachable({seed}, {seed}, start, edges, item.hops)
        found == ListOf({n \in nodes : IsVar(target) \/ n = target})
    IN  [i \in DOMAIN found |-> Both(row, [v \in {x \in {far} : IsVar(x)} |-> found[i]])]

Unwalkable(item, row) ==
    LET ends == {At(row, item.s), At(row, item.o)}
    IN  (\E t \in ends : ~IsVar(t) /\ ~Known(t, data)) \/ (\A t \in ends : IsVar(t))

-----------------------------------------------------------------------------
(* cheapest: required items before OPTIONALs.  A pattern costs what the    *)
(* statistics say; a VALUES its rows, a walk 1, or anything where neither  *)
(* end is known.                                                           *)

Anchored(item, row) == \E t \in {item.s, item.o} : ~IsVar(At(row, t))
cheapest(todo, row) ==
    LET required == {i \in DOMAIN todo : todo[i].k # "optional"}
        cost(i) == CASE todo[i].k = "values" -> Len(todo[i].rows)
                     [] todo[i].k = "closure" -> IF Anchored(todo[i], row) THEN 1 ELSE 1000
                     [] OTHER -> 0
        fixed == {i \in required : todo[i].k \in {"values", "closure"}}
    IN  IF required = {} THEN {1}
        ELSE {i \in required :
                /\ i \in fixed => \A j \in fixed : cost(i) <= cost(j) /\ (cost(i) = cost(j) => i <= j)
                /\ cost(i) = 1000 => required \subseteq fixed}

Project(row) == Onto(row, Plan.vars)

(* emit: DISTINCT, then OFFSET, then the row.                              *)
emit(row) ==
    LET r == Project(row)
        old == Plan.distinct /\ r \in seen_rows
    IN  /\ seen_rows' = IF Plan.distinct THEN seen_rows \cup {r} ELSE seen_rows
        /\ skipped' = IF ~old /\ skipped < Plan.offset THEN skipped + 1 ELSE skipped
        /\ out' = IF ~old /\ skipped >= Plan.offset THEN Append(out, r) ELSE out
        /\ completions' = completions + 1
        /\ UNCHANGED abandoned

Abandon == abandoned' = TRUE /\ UNCHANGED <<out, seen_rows, skipped, completions>>

(* What is left to do once todo[i] is taken.                               *)
Rest(todo, i) == SubSeq(todo, 1, i - 1) \o SubSeq(todo, i + 1, Len(todo))

take(f, pending, i) ==
    LET item == f.todo[i]
        rest == Rest(f.todo, i)
    IN  CASE item.k = "pattern" ->
                stack' = Below \o Steps(probe(item, f.row, pending), rest, pending) /\ Quiet
          [] item.k = "union" ->
                LET n == Len(item.branches)
                IN  stack' = Below \o [b \in 1..n |-> Step(item.branches[n + 1 - b] \o rest, pending, f.row)]
                    /\ Quiet
          [] item.k = "values" ->
                stack' = Append(Below, [Frame("rows", rest, pending, f.row) EXCEPT !.rows = item.rows]) /\ Quiet
          [] item.k = "closure" ->
                IF Unwalkable(item, f.row) THEN Return /\ Abandon
                ELSE stack' = Below \o Steps(probe_closure(item, f.row), rest, pending) /\ Quiet
          [] item.k = "optional" ->
                LET inner == IF item.mode = "extend" THEN item.items \o rest ELSE item.items
                IN  stack' = Below \o <<[Frame("settle", rest, pending, f.row) EXCEPT !.mode = item.mode],
                                        Step(inner, pending \cup item.filters, f.row)>>
                    /\ Quiet

step ==
    /\ answered = "running" /\ stack # <<>> /\ Top.call = "step"
    /\ Idle
    /\ LET f == Top
           ready == Ready(f.pending, f.row)
       IN  IF abandoned THEN Return /\ Quiet
           ELSE IF OverBudget THEN Return /\ Abandon
           ELSE IF (\E i \in ready : ~Truth(FilterAt(i), f.row)) \/ Full THEN Return /\ Quiet
           ELSE IF f.todo = <<>> THEN Return /\ emit(f.row)
           ELSE \E i \in cheapest(f.todo, f.row) : take(f, f.pending \ ready, i)

(* One row of VALUES after another.                                        *)
rows_of ==
    /\ answered = "running" /\ stack # <<>> /\ Top.call = "rows"
    /\ Idle
    /\ LET f == Top
           r == Head(f.rows)
       IN  IF abandoned \/ Full \/ f.rows = <<>> THEN Return /\ Quiet
           ELSE IF OverBudget THEN Return /\ Abandon
           ELSE IF \E v \in DOMAIN r : ~Known(r[v], data) THEN Return /\ Abandon
           ELSE /\ Quiet
                /\ LET later == Append(Below, [f EXCEPT !.rows = Tail(f.rows)])
                   IN  stack' = IF Compatible(f.row, r)
                                THEN Append(later, Step(f.todo, f.pending, Both(f.row, r))) ELSE later

(* After the inside of an OPTIONAL or MINUS: without a match the row goes  *)
(* on as it is.  A MINUS takes back the rows its inside put out.           *)
M_settle_keeps_rows ==
    /\ answered = "running" /\ stack # <<>> /\ Top.call = "settle"
    /\ Idle /\ UNCHANGED <<seen_rows, skipped, abandoned, out, completions>>
    /\ LET f == Top IN
       stack' = IF completions = f.before /\ ~abandoned
                THEN Append(Below, Step(f.todo, f.pending, f.row)) ELSE Below

settle ==
    /\ answered = "running" /\ stack # <<>> /\ Top.call = "settle"
    /\ Idle /\ UNCHANGED <<seen_rows, skipped, abandoned>>
    /\ LET f == Top IN
       /\ stack' = IF completions = f.before /\ ~abandoned
                   THEN Append(Below, Step(f.todo, f.pending, f.row)) ELSE Below
       /\ IF f.mode = "remove"
          THEN /\ completions' = f.before
               /\ out' = IF sinking THEN out ELSE SubSeq(out, 1, f.saved)
          ELSE UNCHANGED <<out, completions>>

(* The token is looked at now and then; once cancelled it stays so.        *)
Cancel ==
    /\ MayCancel /\ answered = "running" /\ ~abandoned
    /\ abandoned' = TRUE /\ cancelled' = TRUE
    /\ UNCHANGED <<case, sinking, the, stack, out, seen_rows, skipped, completions, answered>>

(* evaluate, or top_k's collect_ids.                                       *)
finish_plan ==
    /\ answered = "running" /\ stack = <<>>
    /\ answered' = IF ~abandoned THEN "joined" ELSE IF sinking THEN "failed" ELSE "evaluator"
    /\ UNCHANGED <<case, sinking, the, stack, out, seen_rows, skipped, completions, abandoned, cancelled>>

JoinNext == step \/ rows_of \/ settle \/ Cancel \/ finish_plan
JoinSpec == JoinInit /\ [][JoinNext]_join_vars /\ WF_join_vars(JoinNext)

-----------------------------------------------------------------------------
(* Properties                                                              *)

(* Rows the bind join answers with are the query's answer, whatever order  *)
(* the estimates suggested: what OPTIONAL extends, MINUS removes and a     *)
(* walk reaches, each as often as it should be.                            *)
AnswerExact ==
    answered = "joined" => IF sinking THEN SameBag(out, Eval(Body.pattern, Default, data))
                          ELSE Answers(out, case.query, data)

(* Every rewrite before evaluation keeps the answer: predicates from the   *)
(* histogram, geometries through the index, keys pushed into SERVICE,      *)
(* constants pinned by filters, groups over rows computed first.           *)
RewritesPreserve ==
    answered # "running" =>
        LET q == case.query
            same(p) == Answers(Eval(p, Default, Dataset(q, data)), q, data)
            plain == topology_rewrite(q.pattern, 1, data, FALSE)
        IN  /\ same(distinct_materialised(q, data))
            /\ same(bind_services(q, data))
            /\ same(equality_rewrite(q.pattern, data))
            /\ SameBag(Eval(topology_rewrite(q.pattern, 1, data, TRUE), Default, data),
                       Eval(plain, Default, data))
            /\ group_input(q.pattern) # {} =>
                    LET in == The(group_input(q.pattern)).in
                    IN  same(group_materialised(q.pattern, Eval(in, Default, data), data))
=============================================================================
