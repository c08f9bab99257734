---------------------------- MODULE ShaclValidate --------------------------
(***************************************************************************)
(* The SHACL engine at work: nodeexpr.rs and validate.rs of                *)
(* holos-shacl-engine.                                                     *)
(*                                                                         *)
(* Engine is a record E: the shapes graph S and its compiled shapes, the   *)
(* data graph G, at_hand (whether the shapes graph can be read: a          *)
(* conformance test inside a node expression reads the data graph in its   *)
(* place), max (-1: no limit) and blocking, the severities that count      *)
(* towards it ({None}: all of them).                                       *)
(***************************************************************************)
EXTENDS ShaclEngine

Engine(S, shapes, G) ==
    [S |-> S, shapes |-> shapes, G |-> G, at_hand |-> TRUE, max |-> -1, blocking |-> {None}]
shapes_graph(E) == IF E.at_hand THEN Statements(E.S) ELSE E.G

Blocks(E, r) == None \in E.blocking \/ r.severity \in E.blocking
M_enough_counts_all(E, out) == E.max >= 0 /\ Len(out) >= E.max
enough(E, out) == E.max >= 0 /\ Len(SelectSeq(out, LAMBDA r : Blocks(E, r))) >= E.max

-----------------------------------------------------------------------------
(* datatypes.rs and model/: values and lists.                              *)

ValueSpace(t) ==
    CASE t[2] \in {"string", "langString"} -> "text" [] t[2] \in Numeric -> "number"
      [] t[2] = "boolean" -> "bool" [] OTHER -> "other"
compare(a, b) ==
    IF ~(is_literal(a) /\ is_literal(b)) \/ ~(well_formed(a) /\ well_formed(b)) THEN "none"
    ELSE IF ValueSpace(a) # ValueSpace(b) \/ ValueSpace(a) = "other" THEN "none"
    ELSE IF ValueSpace(a) = "text" THEN text_cmp(a[3], b[3])
    ELSE IF ValueSpace(a) = "number" THEN int_cmp(a[3], b[3])
    ELSE int_cmp(IF a[3] THEN 1 ELSE 0, IF b[3] THEN 1 ELSE 0)

language_matches(tag, range) ==
    IF range = <<"*">> THEN tag # <<>> ELSE tag = range \/ (range # <<>> /\ IsPrefix(range, tag))
is_line_break == {10, 11, 12, 13}

(* Graph::list: the first of several firsts and rests is taken, and a walk *)
(* longer than the graph is a cycle.                                       *)
RECURSIVE list_from(_, _, _)
list_from(G, cell, left) ==
    IF left < 0 THEN Error
    ELSE IF cell = Nil THEN Answer(<<>>)
    ELSE LET f == objects(G, cell, First)
             r == objects(G, cell, Rest)
             more == list_from(G, CHOOSE x \in r : TRUE, left - 1)
         IN  IF f = {} \/ r = {} THEN Error
             ELSE IF more.ok THEN Answer(<<CHOOSE x \in f : TRUE>> \o more.rows) ELSE Error
list_in(G, head) == list_from(G, head, Cardinality(G))

-----------------------------------------------------------------------------
(* nodeexpr.rs.  A focus is a sequence of at most one node.                *)

Gather(answers) ==
    IF \A i \in DOMAIN answers : answers[i].ok THEN Answer(FlattenSeq(EachOf(answers, LAMBDA a : a.rows))) ELSE Error
FirstOf(s) == IF s = <<>> THEN <<>> ELSE <<s[1]>>
truthy(s) == s # <<>> /\ is_literal(s[1]) /\ Lexical(s[1]) = Lexical(True)
distinct(s) == FoldLeft(LAMBDA seen, t : IF t \in Elements(seen) THEN seen ELSE Append(seen, t), <<>>, s)
number(t) ==
    IF is_literal(t) /\ Len(Lexical(t)) = 1 /\ Lexical(t)[1] \in 48..57 THEN {Lexical(t)[1] - 48} ELSE {}
integer(t) == number(t)
subclasses(G, c) == up(G, {c}, TRUE)
instances_of(G, c) == UNION {subjects(G, Type, sub) : sub \in subclasses(G, c)}

sum(values) ==
    LET total == FoldLeft(LAMBDA n, t : IF number(t) = {} THEN n ELSE n + CHOOSE k \in number(t) : TRUE, 0, values)
    IN  Lit(IF \A i \in DOMAIN values : datatype_of(values[i]) = Iri("integer") THEN "integer" ELSE "decimal", total)
(* The smallest or the largest; of a pair that is not two numbers the      *)
(* first is kept.                                                          *)
extreme(values, want_min) ==
    LET of(t) == CHOOSE k \in number(t) : TRUE
        better(a, b) == IF number(a) = {} \/ number(b) = {} THEN a
                        ELSE IF (of(a) < of(b)) = want_min THEN a ELSE b
    IN  IF values = <<>> THEN <<>> ELSE <<FoldLeft(better, values[1], Tail(values))>>

(* A stable sort: keys that cannot be compared are equal.                  *)
order_by(keyed, descending) ==
    LET cmp(a, b) == IF a.key = <<>> \/ b.key = <<>>
                     THEN int_cmp(Len(a.key), Len(b.key))
                     ELSE compare(a.key[1], b.key[1])
        before(a, b) == cmp(a, b) = IF descending THEN "gt" ELSE "lt"
        insert(sorted, x) ==
            LET after == {i \in DOMAIN sorted : before(x, sorted[i])}
            IN  IF after = {} THEN Append(sorted, x) ELSE InsertAt(sorted, Min(after), x)
    IN  EachOf(FoldLeft(insert, <<>>, keyed), LAMBDA k : k.node)

Infix == {"greater-than", "greater-than-or-equal", "less-than", "less-than-or-equal", "equals", "not-equals",
          "plus", "subtract", "multiply", "divide", "logical-and", "logical-or"}
Prefix == {"unary-minus", "unary-plus", "logical-not"}
(* The SPARQL evaluator on whole numbers; another operand is a type error, *)
(* which leaves the variable unbound.  Division and the other functions    *)
(* are left out.                                                           *)
Computed(func, args) ==
    LET n(i) == args[i][3]
        numbers == \A i \in DOMAIN args : args[i][1] = "lit" /\ args[i][2] = "integer"
    IN  CASE func = "logical-not" -> <<Bool(~truthy(args))>>
          [] func = "logical-and" -> <<Bool(truthy(args) /\ truthy(Tail(args)))>>
          [] func = "logical-or" -> <<Bool(truthy(args) \/ truthy(Tail(args)))>>
          [] ~numbers -> <<>>
          [] func = "greater-than" -> <<Bool(n(1) > n(2))>>
          [] func = "greater-than-or-equal" -> <<Bool(n(1) >= n(2))>>
          [] func = "less-than" -> <<Bool(n(1) < n(2))>>
          [] func = "less-than-or-equal" -> <<Bool(n(1) <= n(2))>>
          [] func = "equals" -> <<Bool(n(1) = n(2))>>
          [] func = "not-equals" -> <<Bool(n(1) # n(2))>>
          [] func = "plus" -> <<Num(n(1) + n(2))>>
          [] func = "subtract" -> <<Num(n(1) - n(2))>>
          [] func = "multiply" -> <<Num(n(1) * n(2))>>
          [] func = "unary-minus" -> <<Num(0 - n(1))>>
          [] func = "unary-plus" -> <<Num(n(1))>>
          [] OTHER -> <<>>

eval_sparql_call(func, args) ==
    IF \E i \in DOMAIN args : args[i] = <<>> THEN Answer(<<>>)
    ELSE IF (func \in Infix /\ Len(args) # 2) \/ (func \in Prefix /\ Len(args) # 1) THEN Error
    ELSE Answer(Computed(func, FlattenSeq(args)))

(* Calls that the expression answers by itself: args are its arguments'    *)
(* first values, each a sequence of at most one.                           *)
sparql_call(func, args) ==
    LET given(i) == i \in DOMAIN args /\ args[i] # <<>>
        kind == node_kind(args[1][1])
        wanted == CASE func = "isBlank" -> "blank" [] func = "isLiteral" -> "literal" [] OTHER -> "iri"
    IN  CASE func = "bound" -> Answer(<<Bool(given(1))>>)
          [] func = "coalesce" -> Answer(FirstOf(FlattenSeq(args)))
          [] func \in {"isBlank", "isIRI", "isURI", "isLiteral"} ->
                Answer(IF given(1) THEN <<Bool(kind = wanted)>> ELSE <<>>)
          [] func = "hasLang" ->
                Answer(IF given(1) /\ given(2)
                       THEN <<Bool(language_matches(language_of(args[1][1]), args[2][1][2]))>> ELSE <<>>)
          [] func = "hasLangdir" ->
                Answer(IF given(1) THEN <<Bool("" \in Elements(language_of(args[1][1])))>> ELSE <<>>)
          [] OTHER -> eval_sparql_call(func, args)

(* A query inside an expression, its first variable the answer.            *)
eval_select(E, e, focus) ==
    LET query == IF "select" \in DOMAIN e THEN e.select ELSE e.sparqlExpr
        variables == IF "select" \in DOMAIN e THEN projected_variables(query) ELSE {Var("value")}
        bindings == IF focus = <<>> THEN <<>> ELSE [v \in {This} |-> focus[1]]
        v == CHOOSE v \in variables : TRUE
    IN  IF variables = {} THEN Error
        ELSE Then(run_in(query, bindings, E.G, shapes_graph(E)), LAMBDA rows :
                Answer(EachOf(SelectSeq(rows, LAMBDA row : v \in DOMAIN row), LAMBDA row : row[v])))

eval_path(E, path, starts) ==
    IF ill_formed_path(path, 0) THEN Error
    ELSE Answer(FlattenSeq(EachOf(starts, LAMBDA n : ListOf(path_values(compile_at(path), n, E.G)))))


RECURSIVE eval_at(_, _, _, _)
RECURSIVE validate_shape(_, _, _, _, _, _)

(* node_conforms: the conformance test of a node expression or of a rule.  *)
(* An unknown shape holds.  The test starts on a fresh stack, and reads    *)
(* the data graph where a validation reads the shapes graph.               *)
node_conforms(E, node, shape) ==
    IF shape \notin DOMAIN E.shapes THEN "holds"
    ELSE Verdict(validate_shape([E EXCEPT !.at_hand = FALSE, !.max = 1, !.blocking = {None}],
                                shape, <<node>>, {}, 0, <<>>))
verdicts(E, nodes, shape) == EachOf(nodes, LAMBDA n : node_conforms(E, n, shape))
(* The nodes of a sequence that conform, given the verdicts on them.       *)
conforming(nodes, judged) ==
    LET kept == {i \in DOMAIN nodes : judged[i] = "holds"}
    IN  IF "error" \in Elements(judged) THEN Error
        ELSE Answer([i \in 1..Cardinality(kept) |->
                        nodes[CHOOSE k \in kept : Cardinality({j \in kept : j < k}) = i - 1]])

(* Node expressions that compute with the values of others.                *)
eval_values(E, e, focus, operand, depth) ==
    LET has(p) == p \in DOMAIN e
        sub(x, f) == eval_at(E, x, f, depth + 1)
        listed(t, Op(_)) == IF t[1] = "list" THEN Op(EachOf(t[2], LAMBDA x : sub(x, focus))) ELSE Error
        over(p, Op(_)) == Then(sub(e[p], focus), Op)
    IN  CASE has("pathValues") ->
                Then(IF has("focusNode") THEN sub(e.focusNode, focus) ELSE Answer(focus),
                     LAMBDA starts : eval_path(E, e.pathValues, starts))
          [] has("count") -> over("count", LAMBDA vs : Answer(<<Num(Len(vs))>>))
          [] has("distinct") -> over("distinct", LAMBDA vs : Answer(distinct(vs)))
          [] has("exists") -> over("exists", LAMBDA vs : Answer(<<Bool(vs # <<>>)>>))
          [] has("if") -> over("if", LAMBDA vs :
                LET branch == IF truthy(vs) THEN "then" ELSE "else"
                IN  IF has(branch) THEN sub(e[branch], focus) ELSE Answer(<<>>))
          [] has("concat") -> listed(e.concat, Gather)
          [] has("sum") -> over("sum", LAMBDA vs : Answer(<<sum(vs)>>))
          [] has("min") -> over("min", LAMBDA vs : Answer(extreme(vs, TRUE)))
          [] has("max") -> over("max", LAMBDA vs : Answer(extreme(vs, FALSE)))
          [] has("limit") -> Then(operand, LAMBDA vs :
                LET k == integer(e.limit)
                IN  Answer(IF k = {} THEN vs ELSE SubSeq(vs, 1, Min(k \cup {Len(vs)}))))
          [] has("offset") -> Then(operand, LAMBDA vs :
                Answer(SubSeq(vs, 1 + (IF integer(e.offset) = {} THEN 0 ELSE Max(integer(e.offset))), Len(vs))))
          [] has("intersection") -> listed(e.intersection, LAMBDA parts :
                Then(Gather(parts), LAMBDA all :
                     Answer(IF parts = <<>> THEN <<>>
                            ELSE distinct(SelectSeq(parts[1].rows, LAMBDA t :
                                    \A i \in DOMAIN parts : t \in Elements(parts[i].rows))))))
          [] has("remove") -> Then(operand, LAMBDA vs :
                over("remove", LAMBDA gone : Answer(SelectSeq(vs, LAMBDA t : t \notin Elements(gone)))))
          [] has("instancesOf") -> over("instancesOf", LAMBDA cs :
                Answer(ListOf(UNION {instances_of(E.G, c) : c \in Elements(cs)})))
          [] has("orderBy") -> Then(operand, LAMBDA vs :
                LET keys == EachOf(vs, LAMBDA v : sub(e.orderBy, <<v>>))
                IN  IF \E i \in DOMAIN keys : ~keys[i].ok THEN Error
                    ELSE Answer(order_by([i \in DOMAIN vs |-> [key |-> FirstOf(keys[i].rows), node |-> vs[i]]],
                                         has("desc") /\ truthy(<<e.desc>>))))
          [] has("var") -> Answer(IF e.var = "focusNode" THEN focus ELSE <<>>)
          [] has("flatMap") -> Then(operand, LAMBDA vs : Gather(EachOf(vs, LAMBDA v : sub(e.flatMap, <<v>>))))

(* Node expressions that ask whether nodes conform to a shape.             *)
Tests == {"conformsToShape", "filterShape", "findFirst", "matchAll", "nodesMatching"}
Boolean(x) == IF x = "error" THEN Error ELSE Answer(<<Bool(x = "holds")>>)
tested(e, nodes, judged) ==
    LET has(p) == p \in DOMAIN e
    IN  CASE has("conformsToShape") -> IF nodes = <<>> THEN Answer(<<>>) ELSE Boolean(judged[1])
          [] has("matchAll") -> Boolean(Until(judged, "holds"))
          [] has("findFirst") ->
                LET x == Until(judged, "fails")
                IN  IF x = "error" THEN Error ELSE IF x = "fails" THEN Answer(<<>>)
                    ELSE Answer(<<nodes[Min({i \in DOMAIN nodes : judged[i] = "holds"})]>>)
          [] OTHER -> conforming(nodes, judged)
eval_tests(E, e, focus, operand, depth) ==
    LET has(p) == p \in DOMAIN e
        sub(x, f) == eval_at(E, x, f, depth + 1)
        of(i) == sub(list(e.conformsToShape)[i], focus)
        pair == IF Len(list(e.conformsToShape)) # 2 THEN Error
                ELSE Then(of(1), LAMBDA ns : Then(of(2), LAMBDA ss : Answer(FirstOf(ns) \o FirstOf(ss))))
        nodes == CASE has("conformsToShape") -> Then(pair, LAMBDA two : Answer(IF Len(two) = 2 THEN <<two[1]>> ELSE <<>>))
                   [] has("nodesMatching") -> Answer(ListOf(nodes_of(E.G)))
                   [] OTHER -> operand
        shape == IF has("conformsToShape") THEN pair.rows[2] ELSE e[CHOOSE p \in Tests \cap DOMAIN e : TRUE]
    IN  Then(nodes, LAMBDA vs : tested(e, vs, verdicts(E, vs, shape)))

(* The node expressions of SHACL-AF.                                       *)
eval_af(E, e, focus, depth) ==
    LET has(p) == p \in DOMAIN e
        sub(x, f) == eval_at(E, x, f, depth + 1)
        parts(p) == EachOf(list(e[p]), LAMBDA x : sub(x, focus))
        nodes == IF has("shNodes") THEN sub(e.shNodes, focus) ELSE Answer(focus)
        sorted(rows) == Answer(ListOf(Elements(rows)))
    IN  CASE has("path") -> Then(nodes, LAMBDA starts : Then(eval_path(E, e.path, starts), sorted))
          [] has("shFilterShape") ->
                IF has("shNodes") THEN Then(nodes, LAMBDA vs : conforming(vs, verdicts(E, vs, e.shFilterShape))) ELSE Error
          [] has("union") /\ e.union[1] = "list" -> Then(Gather(parts("union")), sorted)
          [] has("shIntersection") /\ e.shIntersection[1] = "list" ->
                Then(Gather(parts("shIntersection")), LAMBDA all :
                    sorted(SelectSeq(all, LAMBDA t :
                        \A i \in DOMAIN parts("shIntersection") : t \in Elements(parts("shIntersection")[i].rows))))
          [] OTHER -> Error

Valued == {"pathValues", "count", "distinct", "exists", "if", "concat", "sum", "min", "max", "limit", "offset",
           "intersection", "remove", "instancesOf", "orderBy", "var", "flatMap"}

eval_at(E, t, focus, depth) ==
    LET sub(x, f) == eval_at(E, x, f, depth + 1)
        e == t[2]
        operand == IF "nodes" \in DOMAIN e THEN sub(e.nodes, focus) ELSE Answer(focus)
        args == EachOf(list(e.call[2]), LAMBDA x : sub(x, focus))
    IN  CASE depth > MaxExprDepth -> Error
          [] t = Iri("this") -> Answer(focus)
          [] t = <<"list", <<>>>> -> Answer(<<Nil>>)
          [] t[1] \notin {"expr", "list", "bnode"} -> Answer(<<t>>)
          [] t[1] = "bnode" \/ ~E.at_hand -> Answer(<<>>)       \* no statements about it
          [] t[1] = "list" -> Gather(EachOf(e, LAMBDA x : sub(x, focus)))
          [] DOMAIN e \cap {"select", "sparqlExpr"} # {} -> eval_select(E, e, focus)
          [] DOMAIN e \cap Valued # {} -> eval_values(E, e, focus, operand, depth)
          [] DOMAIN e \cap Tests # {} -> eval_tests(E, e, focus, operand, depth)
          [] "call" \in DOMAIN e ->
                IF e.call[2][1] # "list" \/ \E i \in DOMAIN args : ~args[i].ok THEN Error
                ELSE sparql_call(e.call[1], EachOf(args, LAMBDA a : FirstOf(a.rows)))
          [] OTHER -> eval_af(E, e, focus, depth)
eval_expr(E, t, node) == eval_at(E, t, <<node>>, 0)

-----------------------------------------------------------------------------
(* validate.rs.                                                            *)

(* closed_allowed, property_paths and closed_by_types: the predicates a    *)
(* closed shape lets its focus nodes have.                                 *)
predicate_of(shapes, n) ==
    LET p == shapes[n].path IN IF p = None \/ compound(p) THEN {} ELSE {p[2]}
named_by(shapes, n, kinds) ==
    UNION {LET c == shapes[n].constraints[i]
           IN  IF c[1] \notin kinds THEN {} ELSE IF c[1] \in {"and", "or", "xone"} THEN Elements(c[2]) ELSE {c[2]}
           : i \in DOMAIN shapes[n].constraints}
closed_allowed(shapes, n, ignored) ==
    ignored \cup UNION {predicate_of(shapes, m) : m \in named_by(shapes, n, {"property"})}

RECURSIVE property_paths(_, _)
property_paths(shapes, queue) ==
    LET next == queue \cup UNION {named_by(shapes, n, {"node", "and", "or", "xone"}) : n \in queue}
    IN  IF next # queue THEN property_paths(shapes, next)
        ELSE UNION {closed_allowed(shapes, n, {}) : n \in queue}
closed_by_types(E, focus, ignored) ==
    LET classes == up(E.G, objects(E.G, focus, Type), FALSE)
        described == classes \cup UNION {subjects(shapes_graph(E), Iri("targetClass"), c) : c \in classes}
    IN  ignored \cup {Type} \cup property_paths(E.shapes, described \cap DOMAIN E.shapes)

result(shape, component, focus) ==
    Result(focus, shape.path_node, None, shape.node, component, shape.severity, None, {})

(* Ordering of the values that satisfy a bound, and of those that satisfy  *)
(* a comparison with another property.                                     *)
Wanted == [minExclusive |-> {"gt"}, minInclusive |-> {"gt", "eq"}, maxExclusive |-> {"lt"},
           maxInclusive |-> {"lt", "eq"}, lessThan |-> {"lt"}, lessThanOrEquals |-> {"lt", "eq"}]
cmp_is(a, b, wanted) == compare(a, b) \in wanted

(* The constraints of one value that ask nothing of other shapes.          *)
OfValue == {"class", "datatype", "nodeKind", "minExclusive", "minInclusive", "maxExclusive", "maxInclusive",
            "minLength", "maxLength", "pattern", "languageIn", "in", "minListLength", "maxListLength",
            "singleLine", "rootClass"}
per_value(G, c, v) ==
    LET a == c[2]
        list_len == list_in(G, v)
    IN  CASE c[1] = "class" -> \E i \in DOMAIN a : v \in instances_of(G, a[i])
          [] c[1] = "datatype" -> datatype_of(v) \in Elements(a) /\ well_formed(v)
          [] c[1] = "nodeKind" -> node_kind(v) \in a
          [] c[1] \in {"minExclusive", "minInclusive", "maxExclusive", "maxInclusive"} -> cmp_is(v, a, Wanted[c[1]])
          [] c[1] = "minLength" -> HasText(v) /\ length(v) >= a
          [] c[1] = "maxLength" -> HasText(v) /\ length(v) <= a
          [] c[1] = "pattern" -> HasText(v) /\ matches(a, v)
          [] c[1] = "languageIn" ->
                language_of(v) # <<>> /\ \E i \in DOMAIN a : language_matches(language_of(v), a[i][2])
          [] c[1] = "in" -> v \in Elements(a)
          [] c[1] = "minListLength" -> list_len.ok /\ Len(list_len.rows) >= a
          [] c[1] = "maxListLength" -> list_len.ok /\ Len(list_len.rows) <= a
          [] c[1] = "singleLine" -> node_kind(v) # "triple" /\ (is_literal(v) => Elements(Lexical(v)) \cap is_line_break = {})
          [] c[1] = "rootClass" -> v \in subclasses(G, a)

(* The constraints of a focus node's values that ask nothing of other      *)
(* shapes: one row, or all of them for uniqueValuesFor.                    *)
OfRow == {"minCount", "maxCount", "uniqueLang", "equals", "disjoint", "subsetOf", "lessThan", "lessThanOrEquals",
          "hasValue", "closed", "uniqueMembers"}
per_row(E, shape, c, row) ==
    LET a == c[2]
        vs == row.values
        bare == result(shape, c[1], row.focus)
        at(v) == [bare EXCEPT !.value = v]
        other == path_values(a, row.focus, E.G)
        tags == EachOf(vs, language_of)
        allowed == IF a.by_types THEN closed_by_types(E, row.focus, a.ignored)
                   ELSE closed_allowed(E.shapes, shape.node, a.ignored)
    IN  CASE c[1] = "minCount" -> Keep(Len(vs) >= a, bare)
          [] c[1] = "maxCount" -> Keep(Len(vs) <= a, bare)
          [] c[1] = "hasValue" -> Keep(a \in Elements(vs), bare)
          [] c[1] = "uniqueLang" ->
                [i \in 1..Cardinality({t \in Elements(tags) : t # <<>> /\ Times(tags, t) > 1}) |-> bare]
          [] c[1] = "equals" ->
                EachOf(SelectSeq(vs, LAMBDA v : v \notin other) \o ListOf(other \ Elements(vs)), at)
          [] c[1] = "disjoint" -> EachOf(SelectSeq(vs, LAMBDA v : v \in other), at)
          [] c[1] = "subsetOf" -> EachOf(SelectSeq(vs, LAMBDA v : v \notin other), at)
          [] c[1] \in {"lessThan", "lessThanOrEquals"} ->
                FlattenSeq(EachOf(vs, LAMBDA v :
                    FlattenSeq(EachOf(ListOf(other), LAMBDA o : Keep(cmp_is(v, o, Wanted[c[1]]), at(v))))))
          [] c[1] = "closed" ->
                EachOf(ListOf({t \in E.G : t[1] = row.focus /\ t[2] \notin allowed}), LAMBDA t :
                    [at(t[3]) EXCEPT !.path = t[2]])
          [] c[1] = "uniqueMembers" ->
                FlattenSeq(EachOf(vs, LAMBDA v :
                    LET members == list_in(E.G, v)
                        dupes == {m \in Elements(members.rows) : Times(members.rows, m) > 1}
                    IN  IF ~members.ok THEN <<at(v)>>
                        ELSE Keep(dupes = {}, [at(v) EXCEPT !.details = {at(m) : m \in dupes}])))

(* Two focus nodes clash when every key has values, and the same values.   *)
unique_values_for(E, shape, c, rows) ==
    LET key(i) == EachOf(c[2], LAMBDA p : path_values(p, rows[i].focus, E.G))
        clashes(i) == {} \notin Elements(key(i)) /\ \E j \in DOMAIN rows \ {i} : key(j) = key(i)
    IN  FlattenSeq([i \in DOMAIN rows |-> Keep(~clashes(i), result(shape, c[1], rows[i].focus))])

(* What another shape says of a node, asked from within seen.              *)
asked(E, n, v, seen, depth) == Verdict(validate_shape(E, n, <<v>>, seen, depth, <<>>))

(* The constraints that ask another shape.                                 *)
per_shape(E, shape, c, row, seen, depth) ==
    LET a == c[2]
        ok(n, v) == asked(E, n, v, seen, depth)
        nested(n, vs) == validate_shape(E, n, vs, seen, depth, <<>>)
        bare == result(shape, c[1], row.focus)
        at(v) == [bare EXCEPT !.value = v]
        each(V(_)) == PerValue(row.values, V, at)
        oks(ns, v) == EachOf(ns, LAMBDA n : ok(n, v))
        counted(v) == Until(<<ok(a.shape, v)>> \o EachOf(ListOf(a.siblings), LAMBDA n : Opposite(ok(n, v))), "holds")
        qualified == EachOf(row.values, counted)
        count == Times(qualified, "holds")
        reifiers(v) == ListOf(subjects(E.G, Reifies, <<"triple", row.focus, shape.path[2], v>>))
    IN  CASE c[1] = "not" -> each(LAMBDA v : Opposite(ok(a, v)))
          [] c[1] = "and" -> each(LAMBDA v : Until(oks(a, v), "holds"))
          [] c[1] = "or" -> each(LAMBDA v : Until(oks(a, v), "fails"))
          [] c[1] = "xone" -> each(LAMBDA v : ExactlyOne(oks(a, v)))
          [] c[1] = "node" -> each(LAMBDA v : ok(a, v))
          [] c[1] = "someValue" -> Once(Until(EachOf(row.values, LAMBDA v : ok(a, v)), "fails"), bare)
          [] c[1] = "qualified" ->
                IF "error" \in Elements(qualified) THEN <<Abort>>
                ELSE Keep(a.min < 0 \/ count >= a.min, [bare EXCEPT !.component = "qualifiedMinCount"])
                     \o Keep(a.max < 0 \/ count <= a.max, [bare EXCEPT !.component = "qualifiedMaxCount"])
          [] c[1] = "reifierShape" ->
                IF predicate_of(E.shapes, shape.node) = {} THEN <<>>
                ELSE each(LAMBDA v : IF reifiers(v) = <<>> THEN IfSo(~a.required)
                                     ELSE Verdict(nested(a.shape, reifiers(v))))
          [] c[1] = "memberShape" ->
                FlattenSeq(EachOf(row.values, LAMBDA v :
                    LET members == list_in(E.G, v)
                        found == nested(a, members.rows)
                    IN  IF ~members.ok THEN <<at(v)>>
                        ELSE IF Aborted(found) THEN <<Abort>>
                        ELSE Keep(found = <<>>, [at(v) EXCEPT !.details = Elements(found)])))

(* The constraints that run an expression or a query.                      *)
OrAbort(answer, Op(_)) == IF answer.ok THEN Op(answer.rows) ELSE <<Abort>>
FromRow(row, name, default) == IF Var(name) \in DOMAIN row THEN row[Var(name)] ELSE default
eval_sparql(E, shape, c, row) ==
    LET q == c[2].query
        base == [result(shape, "sparql", row.focus) EXCEPT !.by = c[2].source,
                    !.severity = IF c[2].severity = None THEN shape.severity ELSE c[2].severity]
        bindings == [v \in {This, Var("currentShape"), Var("shapesGraph")} |->
                        CASE v = This -> row.focus [] v = Var("currentShape") -> shape.node [] OTHER -> ShapesGraph]
        failures(rows) == IF q.form # "ask" THEN rows ELSE IF rows = <<>> THEN <<<<>>>> ELSE <<>>
        of(solution) == LET focus == FromRow(solution, "this", row.focus)
                        IN  [base EXCEPT !.focus = focus, !.value = FromRow(solution, "value", focus),
                                         !.path = FromRow(solution, "path", shape.path_node)]
    IN  OrAbort(run_in(q, bindings, E.G, shapes_graph(E)), LAMBDA rows : EachOf(failures(rows), of))

per_expression(E, shape, c, row, seen, depth) ==
    LET a == c[2]
        at(v, by) == [result(shape, c[1], row.focus) EXCEPT !.value = v, !.by = by]
        bindings(v) == [x \in {This, Var("value")} \cup DOMAIN a.bindings |->
                            IF x = This THEN row.focus ELSE IF x = Var("value") THEN v ELSE a.bindings[x]]
        custom(v, rows) == Keep((rows = <<>>) # (a.query.form = "ask"), [at(v, None) EXCEPT !.component = a.component[2]])
        verdict(n, v) == IF n \in DOMAIN E.shapes THEN asked(E, n, v, seen, depth) ELSE "holds"
        judged(v, rows) == IF c[1] = "expression" THEN Keep(truthy(rows), at(v, a))
                           ELSE FlattenSeq(EachOf(rows, LAMBDA n : Once(verdict(n, v), at(v, a))))
    IN  CASE c[1] = "sparql" -> eval_sparql(E, shape, c, row)
          [] c[1] = "custom" -> FlattenSeq(EachOf(row.values, LAMBDA v :
                OrAbort(run(a.query, bindings(v), E.G), LAMBDA rows : custom(v, rows))))
          [] OTHER -> FlattenSeq(EachOf(row.values, LAMBDA v :
                OrAbort(eval_expr(E, a, v), LAMBDA rows : judged(v, rows))))

eval_row(E, shape, c, row, seen, depth) ==
    CASE c[1] \in OfValue -> EachOf(SelectSeq(row.values, LAMBDA v : ~per_value(E.G, c, v)), LAMBDA v :
                                [result(shape, c[1], row.focus) EXCEPT !.value = v])
      [] c[1] \in OfRow -> per_row(E, shape, c, row)
      [] c[1] \in {"sparql", "custom", "expression", "nodeByExpression"} -> per_expression(E, shape, c, row, seen, depth)
      [] OTHER -> per_shape(E, shape, c, row, seen, depth)
eval(E, shape, c, rows, seen, depth) ==
    IF c[1] = "uniqueValuesFor" THEN unique_values_for(E, shape, c, rows)
    ELSE FlattenSeq(EachOf(rows, LAMBDA row : eval_row(E, shape, c, row, seen, depth)))

(* The shapes a node is being validated against, which break recursion:    *)
(* what a frame adds is dropped when the frame ends.                       *)
Stack(seen, n, focus) == seen \cup ({n} \X Elements(focus))

(* push_frame and run_frames: a property shape is a frame of its own, on   *)
(* all the values at once and no deeper; its results keep their severity.  *)
RECURSIVE push_frame(_, _, _, _, _, _)
frame_rows(E, shape, fresh) ==
    IF shape.values # None
    THEN Gather(EachOf(fresh, LAMBDA f :
            Then(eval_expr(E, shape.values, f), LAMBDA vs : Answer(<<push_row(f, Elements(vs))>>))))
    ELSE Answer(IF shape.path = None THEN identity(fresh) ELSE eval_sets(shape.path, fresh, E.G))
run_frames(E, shape, i, rows, seen, depth, results) ==
    LET c == shape.constraints[i]
        severity == shape.annotations[i]
    IN  IF Aborted(results) \/ enough(E, results) THEN results
        ELSE IF c[1] = "property" THEN push_frame(E, c[2], all_values(rows), seen, depth, results)
        ELSE results \o EachOf(eval(E, shape, c, rows, seen, depth), LAMBDA r :
                IF severity = None \/ r = Abort THEN r ELSE [r EXCEPT !.severity = severity])
frame(E, shape, answer, seen, depth, out) ==
    IF ~answer.ok THEN Append(out, Abort)
    ELSE FoldLeft(LAMBDA results, i : run_frames(E, shape, i, answer.rows, seen, depth, results),
                  out, [i \in DOMAIN shape.constraints |-> i])
push_frame(E, n, focus, seen, depth, out) ==
    LET shape == E.shapes[n]
        fresh == SelectSeq(focus, LAMBDA f : <<n, f>> \notin seen)
    IN  IF shape.deactivated \/ fresh = <<>> THEN out
        ELSE frame(E, shape, frame_rows(E, shape, fresh), Stack(seen, n, fresh), depth, out)

validate_shape(E, n, focus, seen, depth, out) ==
    IF depth >= MaxDepth THEN Append(out, Abort) ELSE push_frame(E, n, focus, seen, depth + 1, out)

(* The focus nodes of a shape, or an error.                                *)
target_nodes(E, t) ==
    CASE t[1] = "node" -> Answer(<<t[2]>>)
      [] t[1] = "class" -> Answer(ListOf(instances_of(E.G, t[2])))
      [] t[1] = "subjectsOf" -> Answer(ListOf(subjects_of(E.G, t[2])))
      [] t[1] = "objectsOf" -> Answer(ListOf(objects_of(E.G, t[2])))
      [] t[1] = "sparql" -> Then(run(t[2], <<>>, E.G), LAMBDA rows :
            Answer(FlattenSeq(EachOf(rows, LAMBDA row :
                IF This \in DOMAIN row THEN <<row[This]>>
                ELSE IF DOMAIN row = {} THEN <<>> ELSE <<row[CHOOSE v \in DOMAIN row : TRUE]>>))))
      [] t[1] = "where" ->
            IF t[2] \notin DOMAIN E.shapes THEN Answer(<<>>)
            ELSE conforming(ListOf(nodes_of(E.G)),
                            EachOf(ListOf(nodes_of(E.G)), LAMBDA v : asked(E, t[2], v, {}, 0)))
focus_nodes(E, n) ==
    Then(Gather(EachOf(E.shapes[n].targets, LAMBDA t : target_nodes(E, t))), LAMBDA nodes : Answer(ListOf(Elements(nodes))))
focus_nodes_of(S, shapes, G, n) == focus_nodes(Engine(S, shapes, G), n)

Report(results) == IF Aborted(results) THEN <<Abort>> ELSE results
(* A bounded report ends at the result that fills it.                      *)
cut(E, results) ==
    LET full == {i \in DOMAIN results : enough(E, SubSeq(results, 1, i))}
    IN  IF E.max < 0 \/ full = {} THEN results ELSE SubSeq(results, 1, Min(full))

Finished(E, results) == IF Aborted(results) THEN <<Abort>> ELSE cut(E, results)

validate_found(E, n, nodes, out) ==
    IF nodes.ok THEN validate_shape(E, n, nodes.rows, {}, 0, out) ELSE Append(out, Abort)

(* validate_in_with: the shapes with targets, then the nodes that name     *)
(* their own shape.                                                        *)
validate_in_with(E) ==
    LET targets == EachOf(ListOf(roots(E.shapes)), LAMBDA n : [shape |-> n, root |-> TRUE, node |-> None])
        declared == EachOf(ListOf({t \in E.G : t[2] = ShapeOf /\ t[3] \in DOMAIN E.shapes}),
                           LAMBDA t : [shape |-> t[3], root |-> FALSE, node |-> t[1]])
    IN  Finished(E, FoldLeft(LAMBDA out, w :
                        IF Aborted(out) \/ enough(E, out) THEN out
                        ELSE validate_found(E, w.shape, IF w.root THEN focus_nodes(E, w.shape) ELSE Answer(<<w.node>>), out),
                     <<>>, targets \o declared))

(* validate_nodes: some focus nodes of some shapes, shape by shape.        *)
validate_nodes(E, work) ==
    Report(FoldLeft(LAMBDA out, n : IF Aborted(out) THEN out
                                    ELSE validate_shape(E, n, ListOf({w[2] : w \in {w \in work : w[1] = n}}), {}, 0, out),
                    <<>>, ListOf({w[1] : w \in work})))
=============================================================================
