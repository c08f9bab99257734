----------------------------- MODULE ShaclEngine ---------------------------
(***************************************************************************)
(* The SHACL engine, holos-shacl-engine: shapes.rs (the compiler and its   *)
(* indexes), path.rs and valueset.rs.                                      *)
(***************************************************************************)
EXTENDS ShaclSparql

CONSTANTS
    MaxDepth,       \* MAX_DEPTH of a validation
    MaxPathDepth,   \* MAX_DEPTH of a path
    MaxExprDepth    \* MAX_DEPTH of a node expression

-----------------------------------------------------------------------------
(* path.rs: compiling a path.                                              *)

RECURSIVE ill_formed_path(_, _)
ill_formed_path(t, depth) ==
    \/ depth > MaxPathDepth
    \/ t[1] \notin {"iri", "list", "path"}
    \/ t[1] = "list" /\ (Len(t[2]) = 1 \/ \E i \in DOMAIN t[2] : ill_formed_path(t[2][i], depth + 1))
    \/ t[1] = "path" /\ t[2] = "alternative"
            /\ (Len(list(t[3])) < 2 \/ \E i \in DOMAIN list(t[3]) : ill_formed_path(list(t[3])[i], depth + 1))
    \/ t[1] = "path" /\ t[2] # "alternative" /\ ill_formed_path(t[3], depth + 1)

RECURSIVE compile_at(_)
compile_at(t) ==
    CASE t[1] = "list" /\ t[2] = <<>> -> <<"pred", Nil>>
      [] t[1] = "list" -> <<"seq", EachOf(t[2], compile_at)>>
      [] t[1] = "path" /\ t[2] = "alternative" -> <<"alt", EachOf(list(t[3]), compile_at)>>
      [] t[1] = "path" -> <<t[2], compile_at(t[3])>>
      [] OTHER -> <<"pred", t>>

RECURSIVE path_predicates(_)
path_predicates(p) ==
    CASE p[1] = "pred" -> {p[2]}
      [] p[1] \in {"seq", "alt"} -> UNION {path_predicates(p[2][i]) : i \in DOMAIN p[2]}
      [] OTHER -> path_predicates(p[2])

(* Walking a path for every focus node at once: a pair is an origin, by    *)
(* its position, and a node reached from it.                               *)
probe(input, p, G, reverse) ==
    UNION {{<<on[1], n>> : n \in IF reverse THEN subjects(G, p, on[2]) ELSE objects(G, on[2], p)} : on \in input}

RECURSIVE walk(_, _, _, _)
RECURSIVE closure(_, _, _, _, _)
walk(p, input, G, reverse) ==
    CASE p[1] = "pred" -> probe(input, p[2], G, reverse)
      [] p[1] = "inverse" -> walk(p[2], input, G, ~reverse)
      [] p[1] = "seq" -> FoldLeft(LAMBDA frontier, step : walk(step, frontier, G, reverse), input,
                                  IF reverse THEN Reverse(p[2]) ELSE p[2])
      [] p[1] = "alt" -> UNION {walk(p[2][i], input, G, reverse) : i \in DOMAIN p[2]}
      [] p[1] = "zeroOrMore" -> input \cup closure(p[2], input, G, reverse, {})
      [] p[1] = "oneOrMore" -> closure(p[2], input, G, reverse, {})
      [] p[1] = "zeroOrOne" -> input \cup walk(p[2], input, G, reverse)
closure(p, frontier, G, reverse, seen) ==
    LET next == walk(p, frontier, G, reverse) \ seen
    IN  IF next = {} THEN seen ELSE closure(p, next, G, reverse, seen \cup next)

(* ValueSets: a row is a focus node and its values, none of them twice.    *)
push_row(focus, values) == [focus |-> focus, values |-> ListOf(values)]
eval_sets(p, foci, G) ==
    LET reached == walk(p, {<<i, foci[i]>> : i \in DOMAIN foci}, G, FALSE)
    IN  [i \in DOMAIN foci |-> push_row(foci[i], {on[2] : on \in {on \in reached : on[1] = i}})]
identity(foci) == EachOf(foci, LAMBDA f : [focus |-> f, values |-> <<f>>])
all_values(rows) == FlattenSeq(EachOf(rows, LAMBDA r : r.values))
path_values(p, focus, G) == Elements(eval_sets(p, <<focus>>, G)[1].values)

-----------------------------------------------------------------------------
(* shapes.rs: compiling the shapes graph.                                  *)

target_predicates == {"targetClass", "targetNode", "targetSubjectsOf", "targetObjectsOf"}
constraint_predicates ==
    {"class", "datatype", "nodeKind", "minCount", "maxCount", "minExclusive", "minInclusive",
     "maxExclusive", "maxInclusive", "minLength", "maxLength", "pattern", "languageIn", "uniqueLang",
     "equals", "disjoint", "lessThan", "lessThanOrEquals", "not", "and", "or", "xone", "node",
     "property", "qualifiedValueShape", "closed", "hasValue", "in", "path", "severity"}

candidates(S) ==
    {n \in DOMAIN S.decl : \/ Elements(Objs(S, n, "type")) \cap {Iri("NodeShape"), Iri("PropertyShape")} # {}
                           \/ DOMAIN S.decl[n] \cap (target_predicates \cup constraint_predicates) # {}}

statement_deactivated(S, n, p, o) ==
    \E i \in DOMAIN S.notes : LET r == S.notes[i]
                              IN  r.deactivated /\ r.parameter = p /\ r.subject = n /\ r.value = o
objects_active(S, n, p) == SelectSeq(Objs(S, n, p), LAMBDA o : ~statement_deactivated(S, n, p, o))

uint(t) == t[1] = "lit" /\ t[2] = "integer" /\ t[3] >= 0
NodeKinds == [IRI |-> {"iri"}, BlankNode |-> {"blank"}, Literal |-> {"literal"}, IRIOrLiteral |-> {"iri", "literal"},
              BlankNodeOrIRI |-> {"iri", "blank"}, BlankNodeOrLiteral |-> {"blank", "literal"}]
alternatives(t) == one_or_list(t)

(* compile_sparql: a query node, $PATH replaced by the shape's path.       *)
compile_sparql(t, path) ==
    [query |-> with_path(t[2].query, path), severity |-> t[2].severity, source |-> t[2].node]

sibling_qualified_shapes(S, n) ==
    LET parents == {m \in DOMAIN S.decl : n \in Elements(Objs(S, m, "property"))}
        siblings == UNION {Elements(Objs(S, m, "property")) : m \in parents} \ {n}
    IN  UNION {Elements(Objs(S, s, "qualifiedValueShape")) : s \in siblings}

(* A component applies where each of its parameters that is not optional   *)
(* is given, and at least one is.                                          *)
compile_custom(S, n, path) ==
    LET given(m) == SelectSeq(Objs(S, m, "parameter"), LAMBDA q : Objs(S, n, q[2].path) # <<>>)
        applies(m) == /\ given(m) # <<>>
                      /\ \A q \in Elements(Objs(S, m, "parameter")) : q[2].optional \/ Objs(S, n, q[2].path) # <<>>
        specific == IF path = None THEN "nodeValidator" ELSE "propertyValidator"
        validator(m) == IF Obj(S, m, specific) = None THEN Obj(S, m, "validator") ELSE Obj(S, m, specific)
        components == ListOf({m \in DOMAIN S.decl : applies(m) /\ validator(m) # None})
    IN  EachOf(components, LAMBDA m :
            <<"custom", [component |-> m, query |-> compile_sparql(validator(m), path).query,
                         bindings |-> [v \in {Var(q[2].path) : q \in Elements(given(m))} |-> Obj(S, n, v[2])]]>>)

Each(terms, p, Arg(_)) == EachOf(terms, LAMBDA t : <<p, Arg(t)>>)
Same(t) == t
Value(t) == t[3]

value_constraints(S, n) ==
    LET act(p, Arg(_)) == Each(objects_active(S, n, p), p, Arg)
        any(p) == Each(Objs(S, n, p), p, compile_at)
        kinds(t) == UNION {NodeKinds[k[2]] : k \in Elements(alternatives(t))}
    IN  act("class", alternatives) \o act("datatype", alternatives) \o act("nodeKind", kinds)
        \o act("minCount", Value) \o act("maxCount", Value)
        \o act("minExclusive", Same) \o act("minInclusive", Same)
        \o act("maxExclusive", Same) \o act("maxInclusive", Same)
        \o act("minLength", Value) \o act("maxLength", Value)
        \o act("pattern", Same) \o act("languageIn", list)
        \o (IF Flag(S, n, "uniqueLang") THEN <<<<"uniqueLang", TRUE>>>> ELSE <<>>)
        \o any("equals") \o any("disjoint") \o any("lessThan") \o any("lessThanOrEquals")

shape_constraints(S, n) ==
    LET act(p, Arg(_)) == Each(objects_active(S, n, p), p, Arg)
        bound(p) == IF Obj(S, n, p) = None THEN -1 ELSE Obj(S, n, p)[3]
        siblings == IF Flag(S, n, "qualifiedValueShapesDisjoint") THEN sibling_qualified_shapes(S, n) ELSE {}
        qualified(t) == <<"qualified", [shape |-> t, min |-> bound("qualifiedMinCount"),
                                        max |-> bound("qualifiedMaxCount"), siblings |-> siblings]>>
    IN  act("not", Same)
        \o Each(Objs(S, n, "and"), "and", list) \o Each(Objs(S, n, "or"), "or", list)
        \o Each(Objs(S, n, "xone"), "xone", list)
        \o act("node", Same) \o act("property", Same)
        \o EachOf(objects_active(S, n, "qualifiedValueShape"), qualified)

other_constraints(S, n, path) ==
    LET act(p, Arg(_)) == Each(objects_active(S, n, p), p, Arg)
        flag(p) == IF Flag(S, n, p) THEN <<<<p, TRUE>>>> ELSE <<>>
        by_types == Obj(S, n, "closed") = Iri("ByTypes")
    IN  (IF by_types \/ Flag(S, n, "closed")
         THEN <<<<"closed", [ignored |-> Elements(list(Obj(S, n, "ignoredProperties"))), by_types |-> by_types]>>>>
         ELSE <<>>)
        \o act("hasValue", Same) \o act("in", list)
        \o act("minListLength", Value) \o act("maxListLength", Value)
        \o act("reifierShape", LAMBDA t : [shape |-> t, required |-> Flag(S, n, "reificationRequired")])
        \o act("memberShape", Same) \o flag("uniqueMembers") \o flag("singleLine")
        \o act("subsetOf", compile_at) \o act("rootClass", Same) \o act("someValue", Same)
        \o act("uniqueValuesFor", LAMBDA t : EachOf(alternatives(t), compile_at))
        \o Each(Objs(S, n, "sparql"), "sparql", LAMBDA t : compile_sparql(t, path))
        \o act("expression", Same) \o act("nodeByExpression", Same)
        \o compile_custom(S, n, path)
compile_constraints(S, n, path) == value_constraints(S, n) \o shape_constraints(S, n) \o other_constraints(S, n, path)

(* What stops the compilation of the whole shapes graph.                   *)
Counts == {"minCount", "maxCount", "minLength", "maxLength", "minListLength", "maxListLength"}
PathPairs == {"equals", "disjoint", "lessThan", "lessThanOrEquals", "subsetOf"}
malformed(S, n) ==
    LET given(p) == Elements(objects_active(S, n, p))
        written(p) == Elements(Objs(S, n, p))
    IN  \/ \E p \in Counts : \E t \in given(p) : ~uint(t)
        \/ given("qualifiedValueShape") # {} /\ \E p \in {"qualifiedMinCount", "qualifiedMaxCount"} :
                Obj(S, n, p) # None /\ ~uint(Obj(S, n, p))
        \/ \E t \in given("nodeKind") : \E k \in Elements(alternatives(t)) : k[2] \notin DOMAIN NodeKinds
        \/ \E t \in given("pattern") : ~t[3]
        \/ \E t \in given("languageIn") \cup given("in") \cup UNION {written(p) : p \in {"and", "or", "xone"}} :
                t[1] # "list"
        \/ Obj(S, n, "path") # None /\ ill_formed_path(Obj(S, n, "path"), 0)
        \/ \E p \in PathPairs : \E t \in IF p = "subsetOf" THEN given(p) ELSE written(p) : ill_formed_path(t, 0)
        \/ \E t \in given("uniqueValuesFor") : \E q \in Elements(alternatives(t)) : ill_formed_path(q, 0)
        \/ \E t \in written("sparql") : t[2].query.form \notin {"select", "ask"}

(* Which of a shape's constraints a reified statement is about.            *)
ByValue == {"minExclusive", "minInclusive", "maxExclusive", "maxInclusive", "hasValue", "rootClass",
            "expression", "nodeByExpression", "not", "node", "property", "memberShape", "someValue"}
ByNothing == {"qualified", "closed", "sparql", "custom"}
declared_by(c, parameter, value) ==
    /\ c[1] \notin ByNothing
    /\ parameter = c[1]
    /\ c[1] \in ByValue => value = c[2]
    /\ c[1] = "reifierShape" => value = c[2].shape

annotations_for(S, n, c) ==
    LET about == SelectSeq(S.notes, LAMBDA r :
                    r.subject = n /\ declared_by(c, r.parameter, r.value) /\ (r.message \/ r.severity # None))
    IN  IF about = <<>> THEN None ELSE Last(about).severity

compile_targets(S, n) ==
    LET of(p, kind) == EachOf(Objs(S, n, p), LAMBDA t : <<kind, t>>)
        types == Elements(Objs(S, n, "type"))
        selectors == SelectSeq(Objs(S, n, "target") \o Objs(S, n, "targetNode"), LAMBDA t :
                        t[1] = "sparql" /\ t[2].query.form = "select")
    IN  EachOf(SelectSeq(Objs(S, n, "targetNode"), LAMBDA t : t[1] # "sparql"), LAMBDA t : <<"node", t>>)
        \o of("targetClass", "class") \o of("targetSubjectsOf", "subjectsOf")
        \o of("targetObjectsOf", "objectsOf") \o of("targetWhere", "where")
        \o EachOf(selectors, LAMBDA t : <<"sparql", t[2].query>>)
        \o (IF n[1] = "iri" /\ types \cap {Iri("Class"), Iri("ShapeClass")} # {} THEN <<<<"class", n>>>> ELSE <<>>)

(* A rule is a triple of node expressions, a CONSTRUCT, or Broken, which   *)
(* only matters when it fires.                                             *)
compile_rules(S, n) ==
    EachOf(Objs(S, n, "rule"), LAMBDA t :
        LET r == t[2]
        IN  [kind |-> CASE "construct" \in DOMAIN r -> IF r.construct.form = "construct" THEN "sparql" ELSE "broken"
                        [] {"subject", "predicate", "object"} \subseteq DOMAIN r -> "triple"
                        [] OTHER -> "broken",
             body |-> r, conditions |-> r.conditions, order |-> r.order, deactivated |-> r.deactivated])

shape_of(S, n, path, constraints) ==
    [node |-> n, path |-> path, path_node |-> Obj(S, n, "path"), values |-> Obj(S, n, "values"),
     targets |-> compile_targets(S, n), constraints |-> constraints,
     severity |-> IF Obj(S, n, "severity") = None THEN Iri("Violation") ELSE Obj(S, n, "severity"),
     annotations |-> EachOf(constraints, LAMBDA c : annotations_for(S, n, c)),
     deactivated |-> Flag(S, n, "deactivated"), rules |-> compile_rules(S, n),
     order |-> IF Obj(S, n, "order") = None THEN 0 ELSE Obj(S, n, "order")[3]]
compile_shape(S, n) ==
    LET path == IF Obj(S, n, "path") = None THEN None ELSE compile_at(Obj(S, n, "path"))
    IN  shape_of(S, n, path, compile_constraints(S, n, path))

(* The shapes a shape's constraints name; they are compiled with it.  The  *)
(* shape of a sh:targetWhere is only looked up.                            *)
referenced_by(c) ==
    CASE c[1] \in {"not", "node", "property", "memberShape", "someValue"} -> {c[2]}
      [] c[1] = "reifierShape" -> {c[2].shape}
      [] c[1] \in {"and", "or", "xone"} -> Elements(c[2])
      [] c[1] = "qualified" -> {c[2].shape} \cup c[2].siblings
      [] OTHER -> {}
constraint_refs(shape) == UNION {referenced_by(shape.constraints[i]) : i \in DOMAIN shape.constraints}
referenced_shapes(shapes, n) ==
    constraint_refs(shapes[n])
    \cup ({t[2] : t \in {t \in Elements(shapes[n].targets) : t[1] = "where"}} \cap DOMAIN shapes)

RECURSIVE drain(_, _, _)
drain(S, pending, done) ==
    IF pending = {} THEN done
    ELSE LET n == CHOOSE n \in pending : TRUE
         IN  drain(S, (pending \cup (IF malformed(S, n) THEN {} ELSE constraint_refs(compile_shape(S, n))))
                      \ (done \cup {n}), done \cup {n})
Compiles(S) == \A n \in drain(S, candidates(S), {}) : ~malformed(S, n)
compile(S) == [n \in drain(S, candidates(S), {}) |-> compile_shape(S, n)]

roots(shapes) == {n \in DOMAIN shapes : shapes[n].targets # <<>>}

-----------------------------------------------------------------------------
(* The indexes that incremental validation reads.                          *)

(* The predicates a shape's verdict depends on, or Anything.               *)
reads(c) ==
    CASE c[1] \in PathPairs -> path_predicates(c[2])
      [] c[1] = "uniqueValuesFor" -> UNION {path_predicates(c[2][i]) : i \in DOMAIN c[2]}
      [] c[1] \in {"class", "rootClass", "closed"} -> {Type}
      [] c[1] = "reifierShape" -> {Reifies}
      [] c[1] \in {"minListLength", "maxListLength", "uniqueMembers", "memberShape"} -> {First, Rest}
      [] c[1] \in {"sparql", "custom"} -> predicates(c[2].query)
      [] c[1] \in {"expression", "nodeByExpression"} -> Anything
      [] OTHER -> {}
dependencies(shape) ==
    LET read == {reads(shape.constraints[i]) : i \in DOMAIN shape.constraints}
    IN  IF Anything \in read \/ \E i \in DOMAIN shape.targets : shape.targets[i][1] = "sparql" THEN Anything
        ELSE UNION read \cup (IF shape.path = None THEN {} ELSE path_predicates(shape.path))

unconditional(shapes) == {n \in DOMAIN shapes : dependencies(shapes[n]) = Anything}
shapes_touching(shapes, p) == {n \in DOMAIN shapes \ unconditional(shapes) : p \in dependencies(shapes[n])}
shapes_targeting_class(shapes, c) == {n \in DOMAIN shapes : <<"class", c>> \in Elements(shapes[n].targets)}

RECURSIVE ancestors(_, _)
ancestors(shapes, seen) ==
    LET parents == {n \in DOMAIN shapes : referenced_shapes(shapes, n) \cap seen # {}}
    IN  IF parents \subseteq seen THEN seen ELSE ancestors(shapes, seen \cup parents)
targeted_ancestors(shapes, n) == ancestors(shapes, {n}) \cap roots(shapes)

focus_may_be_upstream(shapes, n) ==
    \/ shapes[n].path # None /\ compound(shapes[n].path)
    \/ \E c \in Elements(shapes[n].constraints) :
            \/ c[1] \in PathPairs /\ compound(c[2])
            \/ c[1] = "uniqueValuesFor" /\ \E i \in DOMAIN c[2] : compound(c[2][i])
=============================================================================
