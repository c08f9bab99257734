------------------------------ MODULE Algebra ------------------------------
(***************************************************************************)
(* SPARQL algebra over a small dataset, what a query means, and the        *)
(* rewrites a query goes through before it is evaluated (Engine::run):     *)
(* distinct.rs, topology.rs, boundjoin.rs with Engine::bind_services,      *)
(* equality.rs and group.rs.                                               *)
(*                                                                         *)
(* A term is <<kind, value, form>>: "int" is inline in its id, "dec",      *)
(* "str", "lang" and "geo" are literals of the dictionary.  A position of  *)
(* a pattern is a term, <<"var", name>> or <<"blank", label>>.  A solution *)
(* is a function from variables to terms, a multiset of solutions a        *)
(* sequence whose order means nothing.                                     *)
(***************************************************************************)
EXTENDS Integers, Sequences, FiniteSets, SequencesExt, FiniteSetsExt

CONSTANTS
    Remote,         \* the quads of the one SERVICE endpoint
    MaxPushed,      \* MAX_PUSHED_BINDINGS
    NothingIri      \* urn:holos:nothing

Var(name) == <<"var", name>>
IsVar(t) == t[1] = "var"
Free(t) == t[1] \in {"var", "blank"}

Default == <<"default">>        \* the default graph; any other graph is a term
Numeric(t) == t[1] \in {"int", "dec"}

-----------------------------------------------------------------------------
(* Multisets of solutions                                                  *)

Elements(s) == {s[i] : i \in DOMAIN s}
Times(s, x) == Cardinality({i \in DOMAIN s : s[i] = x})
WithinBag(s, t) == \A x \in Elements(s) : Times(s, x) <= Times(t, x)
SameBag(s, t) == Len(s) = Len(t) /\ WithinBag(s, t)

Compatible(a, b) == \A v \in DOMAIN a \cap DOMAIN b : a[v] = b[v]
Both(a, b) == [v \in DOMAIN a \cup DOMAIN b |-> IF v \in DOMAIN a THEN a[v] ELSE b[v]]
Onto(row, vars) == [v \in DOMAIN row \cap vars |-> row[v]]
EachOf(s, Op(_)) == [i \in DOMAIN s |-> Op(s[i])]
Concat(ss) == FlattenSeq(ss)
ListOf(S) == FoldSet(LAMBDA e, list : Append(list, e), <<>>, S)

JoinBags(A, B) ==
    LET met == ListOf({ij \in (DOMAIN A) \X (DOMAIN B) : Compatible(A[ij[1]], B[ij[2]])})
    IN  [k \in DOMAIN met |-> Both(A[met[k][1]], B[met[k][2]])]

-----------------------------------------------------------------------------
(* Expressions: [f, args]; an error counts as false.                       *)

E(f, args) == [f |-> f, args |-> args]
At(row, t) == IF t \in DOMAIN row THEN row[t] ELSE t

Equal(a, b) == IF Numeric(a) /\ Numeric(b) THEN a[2] = b[2] ELSE a = b
Less(a, b) == Numeric(a) /\ Numeric(b) /\ a[2] < b[2]

TestHolds(f, arg) ==
    /\ \A i \in DOMAIN arg : ~Free(arg[i])
    /\ CASE f = "eq" -> Equal(arg[1], arg[2])
         [] f = "ne" -> ~Equal(arg[1], arg[2])
         [] f = "lt" -> Less(arg[1], arg[2])
         [] f = "le" -> Less(arg[1], arg[2]) \/ (Numeric(arg[1]) /\ Equal(arg[1], arg[2]))
         [] f = "same" -> arg[1] = arg[2]
         [] f = "in" -> \E i \in 2..Len(arg) : Equal(arg[1], arg[i])
         [] f = "label" -> arg[1][1] = "lang" /\ arg[1][2] = arg[2][2]
         [] f = "bound" -> TRUE
         [] f = "rel" -> arg[1][1] = "geo" /\ arg[2][1] = "geo" /\ arg[1][3] = arg[2][3] /\ arg[1][2] <= arg[2][2]
         [] f = "disjoint" -> arg[1][1] = "geo" /\ arg[2][1] = "geo" /\ arg[1][3] # arg[2][3]
         [] OTHER -> FALSE
RECURSIVE Truth(_, _)
Truth(e, row) ==
    IF e.f = "and" THEN \A i \in DOMAIN e.args : Truth(e.args[i], row)
    ELSE TestHolds(e.f, [i \in DOMAIN e.args |-> At(row, e.args[i])])

(* A left join: met are the pairs that satisfy it.                         *)
Extended(A, B, met) ==
    LET pairs == ListOf(met)
    IN  [k \in DOMAIN pairs |-> Both(A[pairs[k][1]], B[pairs[k][2]])]
            \o FlattenSeq([i \in DOMAIN A |-> IF \E ij \in met : ij[1] = i THEN <<>> ELSE <<A[i]>>])
LeftJoinBags(A, B, e) ==
    Extended(A, B, {ij \in (DOMAIN A) \X (DOMAIN B) :
                        Compatible(A[ij[1]], B[ij[2]]) /\ Truth(e, Both(A[ij[1]], B[ij[2]]))})

-----------------------------------------------------------------------------
(* What a pattern means, as the evaluator below the rewrites computes it.  *)

Pos(t) == {t[1], t[2], t[3]}
Unifies(t, q) == \A i, j \in 1..3 : /\ Free(t[i]) \/ t[i] = q.t[i]
                                    /\ Free(t[i]) /\ t[i] = t[j] => q.t[i] = q.t[j]
Binding(t, q) == [v \in {x \in Pos(t) : Free(x)} |-> q.t[CHOOSE i \in 1..3 : t[i] = v]]
NamedGraphs(data) == {q.g : q \in data} \ {Default}
Nodes(g, data) == UNION {{q.t[1], q.t[3]} : q \in {q \in data : q.g = g}}

TripleRows(t, g, data) ==
    LET hits == ListOf({q \in data : q.g = g /\ Unifies(t, q)})
    IN  [i \in DOMAIN hits |-> Binding(t, hits[i])]

RECURSIVE Closed(_, _, _)
Closed(from, edges, again) ==
    LET next == from \cup {e[2] : e \in {e \in edges : e[1] \in from}}
    IN  IF next = from \/ ~again THEN next ELSE Closed(next, edges, again)

Edges(p, inverse, in) ==
    {IF inverse THEN <<q.t[3], q.t[1]>> ELSE <<q.t[1], q.t[3]>> : q \in {q \in in : q.t[2] = p}}

Hop(path, g, data) == Edges(path.p, path.inverse, {q \in data : q.g = g})

(* A closure relates nodes of the graph, and a constant end to itself.     *)
ClosurePairs(path, ends, g, data) ==
    LET edges == Hop(path, g, data)
        from == Nodes(g, data) \cup {t \in ends : ~Free(t)}
        plus(x) == Closed({e[2] : e \in {e \in edges : e[1] = x}}, edges, TRUE)
        zero(x) == IF path.hops = "one_or_more" THEN {} ELSE {x}
        far(x) == IF path.hops = "zero_or_one" THEN {e[2] : e \in {e \in edges : e[1] = x}} ELSE plus(x)
    IN  {<<x, y>> \in UNION {{x} \X (zero(x) \cup far(x)) : x \in from} : TRUE}

RECURSIVE Eval(_, _, _)
Eval(p, g, data) ==
    CASE p.op = "bgp" ->
            LET all == FoldLeft(LAMBDA acc, t : JoinBags(acc, TripleRows(t, g, data)), <<<<>>>>, p.triples)
            IN  EachOf(all, LAMBDA row : Onto(row, {v \in DOMAIN row : IsVar(v)}))
      [] p.op = "alternatives" ->
            EachOf(Concat([i \in DOMAIN p.preds |-> TripleRows(<<p.s, p.preds[i], p.o>>, g, data)]),
                   LAMBDA row : Onto(row, {v \in DOMAIN row : IsVar(v)}))
      [] p.op = "closure" ->
            EachOf(ListOf({xy \in ClosurePairs(p, {p.s, p.o}, g, data) :
                                /\ Free(p.s) \/ p.s = xy[1]
                                /\ Free(p.o) \/ p.o = xy[2]
                                /\ p.s = p.o => xy[1] = xy[2]}), LAMBDA xy :
                   [v \in {x \in {p.s, p.o} : IsVar(x)} |-> IF v = p.s THEN xy[1] ELSE xy[2]])
      [] p.op = "join" -> JoinBags(Eval(p.l, g, data), Eval(p.r, g, data))
      [] p.op = "union" -> Eval(p.l, g, data) \o Eval(p.r, g, data)
      [] p.op = "leftjoin" ->
            LeftJoinBags(Eval(p.l, g, data), Eval(p.r, g, data), p.e)
      [] p.op = "minus" ->
            LET B == Elements(Eval(p.r, g, data))
            IN  SelectSeq(Eval(p.l, g, data), LAMBDA a :
                    ~\E b \in B : Compatible(a, b) /\ DOMAIN a \cap DOMAIN b # {})
      [] p.op = "filter" -> SelectSeq(Eval(p.in, g, data), LAMBDA row : Truth(p.e, row))
      [] p.op = "values" -> p.rows
      [] p.op = "graph" ->
            IF ~IsVar(p.name) THEN Eval(p.in, p.name, data)
            ELSE LET gs == ListOf(NamedGraphs(data))
                 IN  Concat([i \in DOMAIN gs |->
                        JoinBags(<<[v \in {p.name} |-> gs[i]]>>, Eval(p.in, gs[i], data))])
      [] p.op = "project" -> EachOf(Eval(p.in, g, data), LAMBDA row : Onto(row, p.vars))
      [] p.op = "distinct" -> ListOf(Elements(Eval(p.in, g, data)))
      [] p.op = "slice" ->
            LET rows == Eval(p.in, g, data)
                rest == SubSeq(rows, p.start + 1, Len(rows))
            IN  IF p.length = -1 \/ Len(rest) <= p.length THEN rest ELSE SubSeq(rest, 1, p.length)
      [] p.op = "orderby" -> Eval(p.in, g, data)
      [] p.op = "group" ->
            LET rows == Eval(p.in, g, data)
                key(row) == Onto(row, p.keys)
                keys == IF p.keys = {} THEN {<<>>} ELSE {key(rows[i]) : i \in DOMAIN rows}
                one(k) == Both(k, [v \in {p.as} |->
                            <<"int", Cardinality({i \in DOMAIN rows : key(rows[i]) = k}), 0>>])
            IN  ListOf({one(k) : k \in keys})
      [] p.op = "service" -> Eval(p.in, Default, Remote)
      (* FILTER [NOT] EXISTS and BIND, in the queries of SHACL only *)
      [] p.op = "exists" ->
            LET B == Elements(Eval(p.r, g, data))
            IN  SelectSeq(Eval(p.l, g, data), LAMBDA a : p.wanted = \E b \in B : Compatible(a, b))
      [] p.op = "extend" ->
            EachOf(Eval(p.in, g, data), LAMBDA row : Both(row, [v \in {p.var} |-> At(row, p.term)]))

(* A query: its pattern, and the graph its FROM names (Default for none).  *)
Dataset(query, data) ==
    IF query.from = Default THEN data
    ELSE {[q EXCEPT !.g = Default] : q \in {q \in data : q.g = query.from}}

(* Rows answer a query when they are its multiset; under a slice any rows  *)
(* of the unsliced answer do, as long as there are as many of them.        *)
Answers(rows, query, data) ==
    LET p == query.pattern
        d == Dataset(query, data)
    IN  IF p.op = "slice"
        THEN WithinBag(rows, Eval(p.in, Default, d)) /\ Len(rows) = Len(Eval(p, Default, d))
        ELSE SameBag(rows, Eval(p, Default, d))

(* Terms the store holds: inline ones always.                              *)
Known(t, data) == t[1] = "int" \/ \E q \in data : t \in Pos(q.t) \/ t = q.g

-----------------------------------------------------------------------------
(* Nodes, and walking them                                                 *)

Bgp(triples) == [op |-> "bgp", triples |-> triples]
Node2(op, l, r) == [op |-> op, l |-> l, r |-> r]
FilterNode(e, in) == [op |-> "filter", e |-> e, in |-> in]
Table(vars, rows) == [op |-> "values", vars |-> vars, rows |-> rows]

TwoSided == {"join", "union", "minus", "leftjoin"}
OneSided == {"filter", "graph", "project", "distinct", "slice", "orderby", "group"}

(* The same node over other children.                                      *)
Over1(p, in) == [p EXCEPT !.in = in]
Over2(p, l, r) == [p EXCEPT !.l = l, !.r = r]

(* service.rs: every variable a pattern may bind.                          *)
RECURSIVE pattern_variables(_)
pattern_variables(p) ==
    CASE p.op = "bgp" -> {v \in UNION {Pos(p.triples[i]) : i \in DOMAIN p.triples} : IsVar(v)}
      [] p.op \in {"closure", "alternatives"} -> {v \in {p.s, p.o} : IsVar(v)}
      [] p.op \in TwoSided -> pattern_variables(p.l) \cup pattern_variables(p.r)
      [] p.op = "graph" -> {v \in {p.name} : IsVar(v)} \cup pattern_variables(p.in)
      [] p.op = "project" -> p.vars
      [] p.op = "group" -> p.keys \cup {p.as}
      [] p.op = "values" -> p.vars
      [] OTHER -> pattern_variables(p.in)

-----------------------------------------------------------------------------
(* distinct.rs: SELECT DISTINCT ?p { ?s ?p ?o } answered from the          *)
(* predicate histogram.                                                    *)

RECURSIVE replace_pattern(_, _)
replace_pattern(p, table) ==
    IF p.op = "bgp" THEN table
    ELSE IF p.op \in {"slice", "distinct", "project", "orderby"}
    THEN Over1(p, replace_pattern(p.in, table)) ELSE p

shape(pattern) ==
    LET top == IF pattern.op = "slice" THEN pattern.in ELSE pattern
        body == IF top.in.in.op = "orderby" THEN top.in.in.in ELSE top.in.in
        t == body.triples[1]
    IN  /\ top.op = "distinct" /\ top.in.op = "project" /\ Cardinality(top.in.vars) = 1
        /\ top.in.in.op = "orderby" => top.in.in.by \subseteq top.in.vars
        /\ body.op = "bgp" /\ Len(body.triples) = 1
        /\ IsVar(t[2]) /\ top.in.vars = {t[2]}
        /\ Free(t[1]) /\ Free(t[3]) /\ Cardinality(Pos(t)) = 3

distinct_materialised(query, data) ==
    IF ~shape(query.pattern) THEN query.pattern
    ELSE LET v == CHOOSE v \in pattern_variables(query.pattern) : TRUE
             ps == ListOf({q.t[2] : q \in {q \in data : q.g = Default}})
         IN  replace_pattern(query.pattern, Table({v}, [i \in DOMAIN ps |-> [x \in {v} |-> ps[i]]]))

-----------------------------------------------------------------------------
(* topology.rs: a topology property is shorthand for fetching both         *)
(* geometries and calling the function.                                    *)

GEO(name) == <<"iri", name, 0>>
RELATIONS == {GEO("rel"), GEO("disjoint")}
relation_of(t) == IF t = GEO("rel") THEN "rel" ELSE "disjoint"

(* The rewrite numbers its variables: at is the part of the query and n a  *)
(* number within it.                                                       *)
fresh(at, n) == <<"var", "_topo_wkt_", at, n>>

geometry_path(resource, target, at, n) ==
    LET through(property, k) == Bgp(<<<<resource, GEO(property), fresh(at, k)>>,
                                      <<fresh(at, k), GEO("asWKT"), target>>>>)
    IN  Node2("union", Bgp(<<<<resource, GEO("asWKT"), target>>>>),
                       Node2("union", through("hasDefaultGeometry", n), through("hasGeometry", n + 1)))

(* The index: geometries of the dictionary, found by their boxes, and used *)
(* only when it is selective.  Disjointness cannot be filtered by boxes.   *)
Geometries(data) == {t \in UNION {Pos(q.t) : q \in data} : t[1] = "geo"}

restrict(relation, constant, variable, inner, data, routing) ==
    LET found == {t \in Geometries(data) : t[3] = constant[3]}
        rows == ListOf(found)
    IN  IF ~routing \/ relation = "disjoint"
            \/ 4 * Cardinality(found) > Cardinality(Geometries(data)) THEN inner
        ELSE Node2("join", inner, Table({variable}, [i \in DOMAIN rows |-> [v \in {variable} |-> rows[i]]]))

side(term, variable, inner, at, n) ==
    IF term[1] = "geo" THEN inner ELSE Node2("join", inner, geometry_path(term, variable, at, n))

(* One relation after another; each uses up to six numbers.                *)
relate(inner, t, at, n, data, routing) ==
    LET rel == relation_of(t[2])
        s == IF t[1][1] = "geo" THEN t[1] ELSE fresh(at, n)
        o == IF t[3][1] = "geo" THEN t[3] ELSE fresh(at, n + 1)
        narrowed == IF t[1][1] = "geo" /\ t[3][1] # "geo" THEN restrict(rel, t[1], o, inner, data, routing)
                    ELSE IF t[3][1] = "geo" /\ t[1][1] # "geo" THEN restrict(rel, t[3], s, inner, data, routing)
                    ELSE inner
    IN  FilterNode(E(rel, <<s, o>>), side(t[3], o, side(t[1], s, narrowed, at, n + 2), at, n + 4))

rewrite_bgp(triples, at, data, routing) ==
    LET plain == Bgp(SelectSeq(triples, LAMBDA t : t[2] \notin RELATIONS))
        relations == SelectSeq(triples, LAMBDA t : t[2] \in RELATIONS)
        upto[k \in 0..Len(relations)] ==
            IF k = 0 THEN plain ELSE relate(upto[k - 1], relations[k], at, 6 * (k - 1), data, routing)
    IN  upto[Len(relations)]

(* No two parts of a query share a variable.                               *)
RECURSIVE topology_rewrite(_, _, _, _)
topology_rewrite(p, at, data, routing) ==
    CASE p.op = "bgp" -> rewrite_bgp(p.triples, at, data, routing)
      [] p.op \in TwoSided -> Over2(p, topology_rewrite(p.l, 2 * at, data, routing),
                                       topology_rewrite(p.r, 2 * at + 1, data, routing))
      [] p.op \in OneSided -> Over1(p, topology_rewrite(p.in, at, data, routing))
      [] OTHER -> p

-----------------------------------------------------------------------------
(* boundjoin.rs: SERVICE is sent the keys it will be joined against.       *)

RECURSIVE without_services(_)
without_services(p) ==
    CASE p.op = "service" -> Bgp(<<>>)
      [] p.op \in TwoSided -> Over2(p, without_services(p.l), without_services(p.r))
      [] p.op \in OneSided -> Over1(p, without_services(p.in))
      [] OTHER -> p

RECURSIVE query_body(_)
query_body(p) ==
    IF p.op \in {"project", "distinct", "slice", "orderby"} THEN query_body(p.in) ELSE p

(* Variables the probe bound to a term every time, while the keys are few. *)
keys_from_rows(candidates, rows) ==
    LET keep == {v \in candidates : \A i \in DOMAIN rows : v \in DOMAIN rows[i] /\ rows[i][v][1] # "node"}
        tuples == {Onto(rows[i], keep) : i \in DOMAIN rows}
    IN  IF candidates = {} \/ rows = <<>> \/ keep = {} \/ Cardinality(tuples) > MaxPushed THEN {}
        ELSE {Table(keep, ListOf(tuples))}

(* Both passes of the rewrite at once: a SERVICE below siblings that may   *)
(* bind "bound" is given the keys of the probe's rows.                     *)
RECURSIVE rewrite_services(_, _, _)
rewrite_services(p, bound, probe) ==
    CASE p.op = "service" ->
            LET keys == keys_from_rows(pattern_variables(p.in) \cap bound, probe)
            IN  IF keys = {} THEN p ELSE Over1(p, Node2("join", CHOOSE k \in keys : TRUE, p.in))
      [] p.op = "join" ->
            Over2(p, rewrite_services(p.l, bound \cup pattern_variables(p.r), probe),
                     rewrite_services(p.r, bound \cup pattern_variables(p.l), probe))
      [] p.op = "leftjoin" ->
            Over2(p, rewrite_services(p.l, bound, probe),
                     rewrite_services(p.r, bound \cup pattern_variables(p.l), probe))
      [] p.op \in {"union", "minus"} ->
            Over2(p, rewrite_services(p.l, bound, probe), rewrite_services(p.r, bound, probe))
      [] p.op \in OneSided -> Over1(p, rewrite_services(p.in, bound, probe))
      [] OTHER -> p

bind_services(query, data) ==
    rewrite_services(query.pattern, {},
        Eval(without_services(query_body(query.pattern)), Default, Dataset(query, data)))

-----------------------------------------------------------------------------
(* equality.rs: a FILTER that names a constant binds it first.             *)

RECURSIVE conjuncts(_)
conjuncts(e) == IF e.f = "and" THEN UNION {conjuncts(e.args[i]) : i \in DOMAIN e.args} ELSE {e}

M_equal_admits_numbers(t) == ~Free(t)
equal_admits(t) == t[1] \in {"iri", "str"}

(* Variables a conjunct pins, each with every term the conjunct accepts.   *)
pins(e) ==
    LET of(c) == CASE c.f = "eq" /\ IsVar(c.args[1]) /\ equal_admits(c.args[2]) -> {<<c.args[1], {c.args[2]}>>}
                   [] c.f = "eq" /\ IsVar(c.args[2]) /\ equal_admits(c.args[1]) -> {<<c.args[2], {c.args[1]}>>}
                   [] c.f = "same" /\ IsVar(c.args[1]) -> {<<c.args[1], {c.args[2]}>>}
                   [] c.f = "in" /\ IsVar(c.args[1]) /\ (\A i \in 2..Len(c.args) : equal_admits(c.args[i])) ->
                        {<<c.args[1], {c.args[i] : i \in 2..Len(c.args)}>>}
                   [] c.f = "label" -> {<<c.args[1], {<<"lang", c.args[2][2], d>> : d \in 0..2}>>}
                   [] OTHER -> {}
    IN  UNION {of(c) : c \in conjuncts(e)}

(* Variables every solution binds, and to a term of the store.             *)
RECURSIVE store_bound(_)
store_bound(p) ==
    CASE p.op \in {"bgp", "closure", "alternatives"} -> pattern_variables(p)
      [] p.op = "join" -> store_bound(p.l) \cup store_bound(p.r)
      [] p.op = "leftjoin" -> store_bound(p.l)
      [] p.op = "union" -> store_bound(p.l) \cap store_bound(p.r)
      [] p.op = "filter" -> store_bound(p.in)
      [] p.op = "graph" -> store_bound(p.in) \cup {v \in {p.name} : IsVar(v)}
      [] OTHER -> {}

Nothing == Bgp(<<<<NothingIri, NothingIri, NothingIri>>>>)

pinned_input(e, inner, data) ==
    LET pinned == ListOf({pin \in pins(e) : pin[1] \in store_bound(inner)})
        held(pin) == {t \in pin[2] : Known(t, data)}
        table(pin) == IF held(pin) = {} THEN Nothing
                      ELSE LET ts == ListOf(held(pin))
                           IN  Table({pin[1]}, [i \in DOMAIN ts |-> [v \in {pin[1]} |-> ts[i]]])
        joins(pin) == held(pin) # {} \/ ~Known(NothingIri, data)
    IN  FoldLeft(LAMBDA acc, pin : IF joins(pin) THEN Node2("join", table(pin), acc) ELSE acc,
                 inner, pinned)

RECURSIVE equality_rewrite(_, _)
equality_rewrite(p, data) ==
    CASE p.op = "filter" -> Over1(p, pinned_input(p.e, equality_rewrite(p.in, data), data))
      [] p.op \in TwoSided -> Over2(p, equality_rewrite(p.l, data), equality_rewrite(p.r, data))
      [] p.op \in OneSided \ {"filter"} -> Over1(p, equality_rewrite(p.in, data))
      [] OTHER -> p

-----------------------------------------------------------------------------
(* group.rs: the rows a GROUP counts, computed by the bind join first.     *)

RECURSIVE group_input(_)
group_input(p) ==
    CASE p.op = "group" -> {[in |-> p.in, keyless |-> p.keys = {}]}
      [] p.op \in {"project", "distinct", "slice", "orderby", "filter"} -> group_input(p.in)
      [] OTHER -> {}

RECURSIVE replace_group_input(_, _)
replace_group_input(p, table) ==
    CASE p.op = "group" -> Over1(p, table)
      [] p.op \in {"project", "distinct", "slice", "orderby", "filter"} ->
            Over1(p, replace_group_input(p.in, table))
      [] OTHER -> p

RECURSIVE is_one_scan(_)
is_one_scan(p) ==
    CASE p.op = "bgp" -> Len(p.triples) = 1
      [] p.op = "graph" -> is_one_scan(p.in)
      [] OTHER -> FALSE

(* A blank node of a row cannot be written in VALUES, and then nothing is  *)
(* replaced; no rows and no keys is one group, so the input becomes a      *)
(* pattern without answers.                                                *)
group_materialised(pattern, rows, data) ==
    LET found == CHOOSE f \in group_input(pattern) : TRUE
    IN  IF rows = <<>> /\ found.keyless
        THEN IF Known(NothingIri, data) THEN pattern ELSE replace_group_input(pattern, Nothing)
        ELSE IF \E i \in DOMAIN rows : \E v \in DOMAIN rows[i] : rows[i][v][1] = "node" THEN pattern
        ELSE replace_group_input(pattern, Table(pattern_variables(found.in), rows))
=============================================================================
