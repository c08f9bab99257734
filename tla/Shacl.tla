------------------------------- MODULE Shacl -------------------------------
(***************************************************************************)
(* The native SHACL evaluator: ir.rs (the compiler and its indexes),       *)
(* validate.rs, incremental.rs and lib.rs of holos-shacl.                  *)
(***************************************************************************)
EXTENDS ShaclTerms

CONSTANTS
    MaxDepth,       \* MAX_DEPTH: how deep shapes may refer to shapes
    MaxPathDepth    \* how deep a path expression may nest

-----------------------------------------------------------------------------
(* ir.rs: compiling the shapes graph.  A constraint is <<kind, argument>>. *)

KNOWN == {"type", "targetClass", "targetNode", "targetSubjectsOf", "targetObjectsOf", "targetWhere",
          "path", "property", "node", "deactivated", "severity", "class", "datatype", "nodeKind",
          "minCount", "maxCount", "minInclusive", "maxInclusive", "minExclusive", "maxExclusive",
          "minLength", "maxLength", "pattern", "languageIn", "uniqueLang", "equals", "disjoint",
          "lessThan", "lessThanOrEquals", "not", "and", "or", "xone", "closed", "ignoredProperties",
          "hasValue", "in", "qualifiedValueShape", "qualifiedMinCount", "qualifiedMaxCount",
          "qualifiedValueShapesDisjoint", "minListLength", "maxListLength", "uniqueMembers",
          "memberShape", "singleLine", "subsetOf", "uniqueValuesFor", "someValue", "rootClass",
          "nodeByExpression", "reifierShape", "reificationRequired", "rule"}

refuse_unsupported(S, n) == n \in DOMAIN S.decl /\ ~(DOMAIN S.decl[n] \subseteq KNOWN)

integer(t) == IF t[1] = "lit" /\ t[2] = "integer" /\ t[3] >= 0 THEN {t[3]} ELSE {}

(* compile_path refuses a blank node that is no path, and deep nesting.    *)
RECURSIVE ill_formed_path(_, _)
ill_formed_path(t, depth) ==
    \/ depth > MaxPathDepth
    \/ t[1] = "bnode"
    \/ t[1] = "list" /\ \E i \in DOMAIN t[2] : ill_formed_path(t[2][i], depth + 1)
    \/ t[1] = "path" /\ t[2] = "alternative"
            /\ \E i \in DOMAIN list(t[3]) : ill_formed_path(list(t[3])[i], depth + 1)
    \/ t[1] = "path" /\ t[2] # "alternative" /\ ill_formed_path(t[3], depth + 1)

(* What the compiled path is: an empty list is the IRI rdf:nil.            *)
RECURSIVE compile_path(_)
compile_path(t) ==
    CASE t[1] = "list" /\ t[2] = <<>> -> <<"pred", Nil>>
      [] t[1] = "list" -> <<"seq", EachOf(t[2], compile_path)>>
      [] t[1] = "path" /\ t[2] = "alternative" -> <<"alt", EachOf(list(t[3]), compile_path)>>
      [] t[1] = "path" -> <<t[2], compile_path(t[3])>>
      [] OTHER -> <<"pred", t>>

RECURSIVE path_predicates(_)
path_predicates(p) ==
    CASE p[1] = "pred" -> {p[2]}
      [] p[1] \in {"seq", "alt"} -> UNION {path_predicates(p[2][i]) : i \in DOMAIN p[2]}
      [] OTHER -> path_predicates(p[2])

node_kind_spec(t) ==
    CASE t = Iri("IRI") -> {"iri"} [] t = Iri("BlankNode") -> {"blank"} [] t = Iri("Literal") -> {"literal"}
      [] t = Iri("IRIOrLiteral") -> {"iri", "literal"} [] t = Iri("BlankNodeOrIRI") -> {"iri", "blank"}
      [] t = Iri("BlankNodeOrLiteral") -> {"blank", "literal"} [] OTHER -> {}

M_sibling_qualified_shapes_own(S, n) ==
    LET parents == {m \in DOMAIN S.decl : n \in Elements(Objs(S, m, "property"))}
    IN  UNION {Elements(Objs(S, s, "qualifiedValueShape")) :
                    s \in UNION {Elements(Objs(S, m, "property")) : m \in parents}}
sibling_qualified_shapes(S, n) ==
    LET parents == {m \in DOMAIN S.decl : n \in Elements(Objs(S, m, "property"))}
        siblings == UNION {Elements(Objs(S, m, "property")) : m \in parents} \ {n}
    IN  UNION {Elements(Objs(S, s, "qualifiedValueShape")) : s \in siblings}

(* One constraint for each object of a parameter, or for the first that is *)
(* of the right form.                                                      *)
all(S, n, p, Arg(_)) == EachOf(Objs(S, n, p), LAMBDA t : <<p, Arg(t)>>)
same(t) == t
count(S, n, p) == LET v == integer(Obj(S, n, p)) IN IF v = {} THEN <<>> ELSE <<<<p, CHOOSE i \in v : TRUE>>>>
flag(S, n, p) == IF Flag(S, n, p) THEN <<<<p, TRUE>>>> ELSE <<>>
first(S, n, p) == IF Obj(S, n, p) = None THEN <<>> ELSE <<<<p, list(Obj(S, n, p))>>>>

value_constraints(S, n) ==
    all(S, n, "class", one_or_list) \o all(S, n, "datatype", one_or_list)
    \o SelectSeq(all(S, n, "nodeKind", LAMBDA t : UNION {node_kind_spec(k) : k \in Elements(one_or_list(t))}),
                 LAMBDA c : c[2] # {})
    \o count(S, n, "minCount") \o count(S, n, "maxCount")
    \o all(S, n, "minInclusive", same) \o all(S, n, "maxInclusive", same)
    \o all(S, n, "minExclusive", same) \o all(S, n, "maxExclusive", same) \o all(S, n, "hasValue", same)
    \o all(S, n, "lessThan", compile_path) \o all(S, n, "lessThanOrEquals", compile_path)
    \o all(S, n, "equals", compile_path) \o all(S, n, "disjoint", compile_path)
    \o count(S, n, "minLength") \o count(S, n, "maxLength") \o all(S, n, "pattern", same)
    \o first(S, n, "languageIn") \o flag(S, n, "uniqueLang") \o first(S, n, "in")

shape_constraints(S, n) ==
    count(S, n, "minListLength") \o count(S, n, "maxListLength") \o flag(S, n, "uniqueMembers")
    \o flag(S, n, "singleLine") \o all(S, n, "subsetOf", compile_path) \o all(S, n, "uniqueValuesFor", one_or_list)
    \o all(S, n, "not", same) \o all(S, n, "memberShape", same) \o all(S, n, "someValue", same)
    \o SelectSeq(all(S, n, "nodeByExpression", same), LAMBDA c : c[2][1] = "iri")
    \o all(S, n, "rootClass", same)
    \o all(S, n, "reifierShape", LAMBDA t : [shape |-> t, required |-> Flag(S, n, "reificationRequired")])
    \o all(S, n, "and", list) \o all(S, n, "or", list) \o all(S, n, "xone", list)
    \o all(S, n, "node", same) \o all(S, n, "property", same)

compile_constraints(S, n) ==
    LET siblings == IF Flag(S, n, "qualifiedValueShapesDisjoint") THEN sibling_qualified_shapes(S, n) ELSE {}
        bound(q, kind, p) == EachOf(count(S, n, p), LAMBDA c :
                                <<kind, [shape |-> q, bound |-> c[2], siblings |-> siblings]>>)
        qualified(q) == bound(q, "qualifiedMin", "qualifiedMinCount") \o bound(q, "qualifiedMax", "qualifiedMaxCount")
        by_types == Obj(S, n, "closed") = Iri("ByTypes")
        closed == IF by_types \/ Flag(S, n, "closed")
                  THEN <<<<"closed", [ignored |-> Elements(list(Obj(S, n, "ignoredProperties"))),
                                      by_types |-> by_types]>>>>
                  ELSE <<>>
    IN  value_constraints(S, n) \o shape_constraints(S, n)
        \o FlattenSeq(EachOf(Objs(S, n, "qualifiedValueShape"), qualified)) \o closed

(* Which of a shape's constraints a reified statement is about.  The ones  *)
(* that are told apart by their value compare it, the others do not.       *)
ByValue == {"minInclusive", "maxInclusive", "minExclusive", "maxExclusive", "hasValue"}
ByShape == {"property", "node", "not", "memberShape", "someValue"}
ByParameter == {"datatype", "class", "nodeKind", "minCount", "maxCount", "pattern", "minLength", "maxLength",
                "in", "languageIn", "uniqueLang", "closed", "singleLine"}
declared_by(c, parameter, value) ==
    \/ c[1] \in ByParameter /\ parameter = c[1]
    \/ c[1] \in ByValue /\ parameter = c[1] /\ value = c[2]
    \/ c[1] \in ByShape /\ parameter \in ByShape /\ value = c[2]

annotations_for(S, n, c) ==
    LET about == SelectSeq(S.notes, LAMBDA r :
                    r.subject = n /\ declared_by(c, r.parameter, r.value)
                    /\ (r.message \/ r.severity # None \/ r.deactivated))
    IN  [severity |-> IF about = <<>> THEN None ELSE about[Len(about)].severity,
         deactivated |-> \E i \in DOMAIN about : about[i].deactivated]

(* Target and Shape.                                                       *)
shape_of(S, n, constraints) ==
    LET types == Elements(Objs(S, n, "type"))
        of(p, kind) == EachOf(Objs(S, n, p), LAMBDA t : <<kind, t>>)
        implicit == (Iri("Class") \in types /\ types \cap {Iri("NodeShape"), Iri("PropertyShape")} # {})
                    \/ Iri("ShapeClass") \in types
        path == Obj(S, n, "path")
    IN  [id |-> n,
         path |-> IF path = None THEN None ELSE compile_path(path),
         path_node |-> path,
         targets |-> of("targetNode", "node") \o of("targetClass", "class")
                     \o of("targetSubjectsOf", "subjectsOf") \o of("targetObjectsOf", "objectsOf")
                     \o of("targetWhere", "where") \o (IF implicit THEN <<<<"class", n>>>> ELSE <<>>),
         constraints |-> constraints,
         annotations |-> [i \in DOMAIN constraints |-> annotations_for(S, n, constraints[i])],
         severity |-> IF Obj(S, n, "severity") = None THEN Iri("Violation") ELSE Obj(S, n, "severity"),
         deactivated |-> Flag(S, n, "deactivated")]
build(S, n) == shape_of(S, n, compile_constraints(S, n))

referenced_shapes(shape) ==
    {shape.targets[i][2] : i \in {i \in DOMAIN shape.targets : shape.targets[i][1] = "where"}}
    \cup UNION {LET c == shape.constraints[i]
                IN  CASE c[1] \in {"not", "node", "property", "memberShape", "someValue", "nodeByExpression"} -> {c[2]}
                      [] c[1] = "reifierShape" -> {c[2].shape}
                      [] c[1] \in {"and", "or", "xone"} -> Elements(c[2])
                      [] c[1] \in {"qualifiedMin", "qualifiedMax"} -> {c[2].shape} \cup c[2].siblings
                      [] OTHER -> {} : i \in DOMAIN shape.constraints}

root_shape_nodes(S) ==
    {n \in DOMAIN S.decl :
        \/ Elements(Objs(S, n, "type")) \cap {Iri("NodeShape"), Iri("PropertyShape"), Iri("ShapeClass")} # {}
        \/ \E p \in {"targetClass", "targetNode", "targetSubjectsOf", "targetObjectsOf", "path"} : Objs(S, n, p) # <<>>}

(* shape_for: every shape the roots lead to is compiled once; a shape met  *)
(* again while it is being built is referred to by its reserved index.     *)
RECURSIVE shape_for(_, _, _)
shape_for(S, todo, done) ==
    IF todo = {} THEN done
    ELSE LET n == CHOOSE n \in todo : TRUE
             refs == referenced_shapes(build(S, n))
         IN  shape_for(S, (todo \cup refs) \ (done \cup {n}), done \cup {n})

PathParameters == {"path", "lessThan", "lessThanOrEquals", "equals", "disjoint", "subsetOf"}
ill_formed(S, n) ==
    \/ \E p \in PathParameters : \E i \in DOMAIN Objs(S, n, p) :
            (p = "path" => i = 1) /\ ill_formed_path(Objs(S, n, p)[i], 0)
    \/ \E i \in DOMAIN Objs(S, n, "pattern") : ~Objs(S, n, "pattern")[i][3]

Compiles(S) ==
    \A n \in shape_for(S, root_shape_nodes(S), {}) : ~refuse_unsupported(S, n) /\ ~ill_formed(S, n)
compile(S) == [n \in shape_for(S, root_shape_nodes(S), {}) |-> build(S, n)]

targeted(IR) == {n \in DOMAIN IR : IR[n].targets # <<>>}

(* The indexes that incremental validation reads.                          *)
predicates_of(shape) ==
    (IF shape.path = None THEN {} ELSE path_predicates(shape.path))
    \cup UNION {LET c == shape.constraints[i]
                IN  CASE c[1] \in PathParameters -> path_predicates(c[2])
                      [] c[1] = "uniqueValuesFor" -> Elements(c[2])
                      [] c[1] = "class" -> {Type}
                      [] OTHER -> {} : i \in DOMAIN shape.constraints}
shapes_touching(IR, p) ==
    {n \in DOMAIN IR : \/ p \in predicates_of(IR[n])
                       \/ \E i \in DOMAIN IR[n].targets : IR[n].targets[i] \in {<<"subjectsOf", p>>, <<"objectsOf", p>>}}
shapes_targeting_class(IR, c) == {n \in DOMAIN IR : <<"class", c>> \in Elements(IR[n].targets)}

RECURSIVE ancestors(_, _)
ancestors(IR, seen) ==
    LET parents == {n \in DOMAIN IR : referenced_shapes(IR[n]) \cap seen # {}}
    IN  IF parents \subseteq seen THEN seen ELSE ancestors(IR, seen \cup parents)
targeted_ancestors(IR, n) == ancestors(IR, {n}) \cap targeted(IR)

focus_may_be_upstream(IR, n) ==
    \/ IR[n].path # None /\ compound(IR[n].path)
    \/ \E i \in DOMAIN IR[n].constraints :
            IR[n].constraints[i][1] \in PathParameters /\ compound(IR[n].constraints[i][2])

-----------------------------------------------------------------------------
(* validate.rs: values.                                                    *)

instances_of(G, c) == UNION {subjects(G, Type, sub) : sub \in up(G, {c}, TRUE)}
is_instance_of(G, n, c) == c \in up(G, objects(G, n, Type), FALSE)
is_subclass_of(G, c, root) == root \in up(G, {c}, FALSE)

language_matches(tag, range) == range # <<>> /\ IsPrefix(range, tag)
BREAKS == {10, 11, 12, 13, 133, 8232, 8233}
single_line(t) == is_literal(t) /\ Elements(Lexical(t)) \cap BREAKS = {}

(* Numbers by value, dates by date, the rest of one datatype by its text.  *)
compare(a, b) ==
    IF ~(is_literal(a) /\ is_literal(b)) THEN "none"
    ELSE IF {a[2], b[2]} \subseteq Numeric /\ well_formed(a) /\ well_formed(b) THEN int_cmp(a[3], b[3])
    ELSE IF a[2] # b[2] THEN "none"
    ELSE text_cmp(Lexical(a), Lexical(b))

(* rdf_list: the members, or none where a cell is not a cell or the list   *)
(* comes back to one it has passed.                                        *)
RECURSIVE cells(_, _, _)
cells(G, cell, visited) ==
    IF cell = Nil THEN <<Nil>>
    ELSE LET f == objects(G, cell, First)
             r == objects(G, cell, Rest)
         IN  IF cell \in visited \/ Cardinality(f) # 1 \/ Cardinality(r) # 1 THEN <<None>>
             ELSE <<CHOOSE x \in f : TRUE>> \o cells(G, CHOOSE x \in r : TRUE, visited \cup {cell})
IsList(G, head) == Last(cells(G, head, {})) = Nil
rdf_list(G, head) == Front(cells(G, head, {}))

reifiers_of(G, s, p, o) == subjects(G, Reifies, <<"triple", s, p, o>>)

(* An inverse of anything but a predicate is refused when it is walked.    *)
Refused == <<"refused">>
RECURSIVE walk(_, _, _)
RECURSIVE closure(_, _, _)
walk(G, p, from) ==
    CASE from = Refused \/ (p[1] = "inverse" /\ compound(p[2])) -> {Refused}
      [] p[1] = "pred" -> objects(G, from, p[2])
      [] p[1] = "inverse" -> subjects(G, p[2][2], from)
      [] p[1] = "seq" -> FoldLeft(LAMBDA now, step : UNION {walk(G, step, n) : n \in now}, {from}, p[2])
      [] p[1] = "alt" -> UNION {walk(G, p[2][i], from) : i \in DOMAIN p[2]}
      [] p[1] = "zeroOrMore" -> {from} \cup closure(G, p[2], walk(G, p[2], from))
      [] p[1] = "oneOrMore" -> closure(G, p[2], walk(G, p[2], from))
      [] p[1] = "zeroOrOne" -> {from} \cup walk(G, p[2], from)
closure(G, p, seen) ==
    LET next == seen \cup UNION {walk(G, p, n) : n \in seen}
    IN  IF next = seen THEN seen ELSE closure(G, p, next)
eval_path(G, p, from) == walk(G, p, from)

-----------------------------------------------------------------------------
(* validate.rs: results.                                                   *)

component(c) ==
    CASE c[1] = "qualifiedMin" -> "qualifiedMinCount" [] c[1] = "qualifiedMax" -> "qualifiedMaxCount"
      [] OTHER -> c[1]
result(shape, focus, value, c) ==
    Result(focus, shape.path_node, value, shape.id, component(c), shape.severity, None, {})

allowed_predicates(IR, shape, ignored) ==
    ignored \cup UNION {LET c == shape.constraints[i]
                        IN  IF c[1] = "property" /\ IR[c[2]].path # None /\ ~compound(IR[c[2]].path)
                            THEN {IR[c[2]].path[2]} ELSE {} : i \in DOMAIN shape.constraints}

RECURSIVE through_node(_, _)
through_node(IR, queue) ==
    LET next == queue \cup UNION {{IR[n].constraints[i][2] :
                    i \in {i \in DOMAIN IR[n].constraints : IR[n].constraints[i][1] = "node"}} : n \in queue}
    IN  IF next = queue THEN queue ELSE through_node(IR, next)

allowed_by_types(IR, G, focus, ignored) ==
    LET classes == up(G, objects(G, focus, Type), FALSE)
        queue == (classes \cap DOMAIN IR) \cup UNION {shapes_targeting_class(IR, c) : c \in classes}
    IN  ignored \cup {Type} \cup UNION {allowed_predicates(IR, IR[n], {}) : n \in through_node(IR, queue)}

(* Constraints on one value that ask nothing of other shapes.              *)
satisfies(G, c, v) ==
    LET a == c[2]
    IN  CASE c[1] = "class" -> \E i \in DOMAIN a : is_instance_of(G, v, a[i])
          [] c[1] = "datatype" -> datatype_of(v) \in Elements(a) /\ well_formed(v)
          [] c[1] = "nodeKind" -> node_kind(v) \in a
          [] c[1] = "minInclusive" -> compare(v, a) \in {"eq", "gt"}
          [] c[1] = "maxInclusive" -> compare(v, a) \in {"eq", "lt"}
          [] c[1] = "minExclusive" -> compare(v, a) = "gt"
          [] c[1] = "maxExclusive" -> compare(v, a) = "lt"
          [] c[1] = "minLength" -> HasText(v) /\ length(v) >= a
          [] c[1] = "maxLength" -> HasText(v) /\ length(v) <= a
          [] c[1] = "pattern" -> HasText(v) /\ matches(a, v)
          [] c[1] = "languageIn" ->
                language_of(v) # <<>> /\ \E i \in DOMAIN a : language_matches(language_of(v), a[i][2])
          [] c[1] = "in" -> v \in Elements(a)
          [] c[1] = "minListLength" -> IsList(G, v) /\ Len(rdf_list(G, v)) >= a
          [] c[1] = "maxListLength" -> IsList(G, v) /\ Len(rdf_list(G, v)) <= a
          [] c[1] = "singleLine" -> single_line(v)
          [] c[1] = "rootClass" -> is_subclass_of(G, v, a)
Plain == {"class", "datatype", "nodeKind", "minInclusive", "maxInclusive", "minExclusive", "maxExclusive",
          "minLength", "maxLength", "pattern", "languageIn", "in", "minListLength", "maxListLength",
          "singleLine", "rootClass"}

RECURSIVE validate_shape(_, _, _, _, _)

holds(IR, G, n, focus, depth) == Verdict(validate_shape(IR, G, n, focus, depth + 1))

(* Members of a list that is a value.                                      *)
check_list(IR, G, shape, c, focus, v, depth) ==
    LET ms == rdf_list(G, v)
        at(x) == result(shape, focus, x, c)
        repeated == {m \in Elements(ms) : Times(ms, m) > 1}
        found == FlattenSeq(EachOf(ms, LAMBDA m : validate_shape(IR, G, c[2], m, depth + 1)))
    IN  IF ~IsList(G, v) THEN <<at(v)>>
        ELSE IF c[1] = "uniqueMembers" THEN Keep(repeated = {}, [at(v) EXCEPT !.details = {at(m) : m \in repeated}])
        ELSE IF Aborted(found) THEN <<Abort>>
        ELSE Keep(found = <<>>, [at(v) EXCEPT !.details = Elements(found)])

(* What other shapes say of a value, one after another.                    *)
check_shapes(IR, G, shape, c, focus, v, depth) ==
    LET a == c[2]
        verdict(n) == holds(IR, G, n, v, depth)
        reifiers == ListOf(reifiers_of(G, focus, shape.path[2], v))
    IN  CASE c[1] \in {"node", "someValue"} -> verdict(a)
          [] c[1] = "not" -> Opposite(verdict(a))
          [] c[1] = "and" -> Until(EachOf(a, verdict), "holds")
          [] c[1] = "or" -> Until(EachOf(a, verdict), "fails")
          [] c[1] = "xone" -> ExactlyOne(EachOf(a, verdict))
          [] c[1] = "reifierShape" ->
                IF shape.path = None \/ compound(shape.path) THEN "holds"
                ELSE IF a.required /\ reifiers = <<>> THEN "fails"
                ELSE Until(EachOf(reifiers, LAMBDA r : holds(IR, G, a.shape, r, depth)), "holds")
OfShapes == {"node", "not", "and", "or", "xone", "reifierShape"}

(* Constraints on all the values together, and on the values of another    *)
(* path of the same focus.                                                 *)
check_set(G, shape, c, focus, values) ==
    LET a == c[2]
        at(v) == result(shape, focus, v, c)
        bare == at(None)
        vs == ListOf(values)
        others == ListOf(eval_path(G, a, focus))
        tags == EachOf(vs, language_of)
        ok == IF c[1] = "lessThan" THEN {"lt"} ELSE {"lt", "eq"}
    IN  CASE c[1] = "minCount" -> Keep(Len(vs) >= a, bare)
          [] c[1] = "maxCount" -> Keep(Len(vs) <= a, bare)
          [] c[1] = "hasValue" -> Keep(a \in values, bare)
          [] c[1] = "uniqueLang" ->
                [i \in 1..Cardinality({t \in Elements(tags) : t # <<>> /\ Times(tags, t) > 1}) |-> bare]
          [] c[1] = "uniqueValuesFor" -> <<>>
          [] c[1] \in PathParameters /\ Refused \in Elements(others) -> <<Abort>>
          [] c[1] = "subsetOf" -> PerValue(vs, LAMBDA v : IfSo(v \in Elements(others)), at)
          [] c[1] = "equals" ->
                PerValue(vs, LAMBDA v : IfSo(v \in Elements(others)), at)
                \o EachOf(SelectSeq(others, LAMBDA o : o \notin values), at)
          [] c[1] = "disjoint" -> PerValue(vs, LAMBDA v : IfSo(v \notin Elements(others)), at)
          [] c[1] \in {"lessThan", "lessThanOrEquals"} ->
                FlattenSeq(EachOf(vs, LAMBDA v :
                    FlattenSeq(EachOf(others, LAMBDA o : Keep(compare(v, o) \in ok, at(v))))))
OfSets == {"minCount", "maxCount", "hasValue", "uniqueLang", "uniqueValuesFor", "subsetOf", "equals", "disjoint",
           "lessThan", "lessThanOrEquals"}

check(IR, G, shape, c, focus, values, depth) ==
    LET a == c[2]
        vs == ListOf(values)
        bare == result(shape, focus, None, c)
        at(v) == result(shape, focus, v, c)
        verdict(n, v) == holds(IR, G, n, v, depth)
        of_shapes(v) == check_shapes(IR, G, shape, c, focus, v, depth)
        qualified == EachOf(vs, LAMBDA v :
            Until(<<verdict(a.shape, v)>> \o EachOf(ListOf(a.siblings), LAMBDA n : Opposite(verdict(n, v))), "holds"))
        allowed == IF a.by_types THEN allowed_by_types(IR, G, focus, a.ignored)
                   ELSE allowed_predicates(IR, shape, a.ignored)
    IN  CASE c[1] \in Plain -> PerValue(vs, LAMBDA v : IfSo(satisfies(G, c, v)), at)
          [] c[1] \in OfShapes -> PerValue(vs, of_shapes, at)
          [] c[1] \in OfSets -> check_set(G, shape, c, focus, values)
          [] c[1] = "someValue" -> Once(Until(EachOf(vs, of_shapes), "fails"), bare)
          [] c[1] \in {"uniqueMembers", "memberShape"} ->
                FlattenSeq(EachOf(vs, LAMBDA v : check_list(IR, G, shape, c, focus, v, depth)))
          [] c[1] = "nodeByExpression" -> Once(verdict(a, focus), [at(focus) EXCEPT !.by = a])
          [] c[1] = "property" -> FlattenSeq(EachOf(vs, LAMBDA v : validate_shape(IR, G, a, v, depth + 1)))
          [] c[1] \in {"qualifiedMin", "qualifiedMax"} ->
                IF "error" \in Elements(qualified) THEN <<Abort>>
                ELSE Keep(IF c[1] = "qualifiedMin" THEN Times(qualified, "holds") >= a.bound
                          ELSE Times(qualified, "holds") <= a.bound, bare)
          [] c[1] = "closed" ->
                EachOf(ListOf({t \in G : t[1] = focus /\ t[2] \notin allowed}), LAMBDA t :
                    [at(t[3]) EXCEPT !.path = t[2]])

annotated(note, found) ==
    IF note.severity = None \/ Aborted(found) THEN found
    ELSE EachOf(found, LAMBDA r : [r EXCEPT !.severity = note.severity])
check_all(IR, G, shape, focus, values, depth) ==
    IF Refused \in values THEN <<Abort>>
    ELSE FlattenSeq([i \in DOMAIN shape.constraints |->
            IF shape.annotations[i].deactivated THEN <<>>
            ELSE annotated(shape.annotations[i], check(IR, G, shape, shape.constraints[i], focus, values, depth))])
validate_shape(IR, G, n, focus, depth) ==
    LET shape == IR[n]
    IN  IF depth > MaxDepth THEN <<Abort>>
        ELSE IF shape.deactivated THEN <<>>
        ELSE check_all(IR, G, shape, focus,
                       IF shape.path = None THEN {focus} ELSE eval_path(G, shape.path, focus), depth)

(* The nodes of the graph, or the instances of the first class the shape   *)
(* asks for, that conform to it; one that cannot be tested fails the call. *)
filtered(IR, G, n) ==
    LET classes == SelectSeq(IR[n].constraints, LAMBDA c : c[1] = "class")
    IN  IF classes = <<>> THEN nodes_of(G) ELSE UNION {instances_of(G, c) : c \in Elements(classes[1][2])}
conforming_nodes(IR, G, n) == {v \in filtered(IR, G, n) : holds(IR, G, n, v, 0) = "holds"}
focus_fails(IR, G, n) ==
    \E t \in Elements(IR[n].targets) : t[1] = "where" /\ \E v \in filtered(IR, G, t[2]) : holds(IR, G, t[2], v, 0) = "error"

focus_nodes(IR, G, n) ==
    UNION {LET t == IR[n].targets[i]
           IN  CASE t[1] = "node" -> {t[2]}
                 [] t[1] = "class" -> instances_of(G, t[2])
                 [] t[1] = "subjectsOf" -> subjects_of(G, t[2])
                 [] t[1] = "objectsOf" -> objects_of(G, t[2])
                 [] t[1] = "where" -> conforming_nodes(IR, G, t[2]) : i \in DOMAIN IR[n].targets}

(* Nodes of one shape that share a combination of values of the keys.      *)
keys_of(G, focus, properties) ==
    FoldLeft(LAMBDA keys, p : {Append(k, v) : k \in keys, v \in objects(G, focus, p)}, {<<>>}, properties)
unique_values_for(IR, G, n, foci) ==
    LET of(c) == IF c[1] # "uniqueValuesFor" THEN <<>>
                 ELSE EachOf(ListOf({f \in foci : \E g \in foci \ {f} :
                                keys_of(G, f, c[2]) \cap keys_of(G, g, c[2]) # {}}),
                             LAMBDA f : result(IR[n], f, None, c))
    IN  FlattenSeq(EachOf(IR[n].constraints, of))

data_declared_targets(IR, G) ==
    FlattenSeq(EachOf(ListOf({t \in G : t[2] = ShapeOf /\ t[3] \in DOMAIN IR}),
                      LAMBDA t : validate_shape(IR, G, t[3], t[1], 0)))

(* Report::new: Debug and Trace results do not fail a graph.               *)
is_judgement(r) == r.severity \notin {Iri("Debug"), Iri("Trace")}
conforms(report) == ~\E i \in DOMAIN report : is_judgement(report[i])

(* A report, or <<Abort>> alone.                                           *)
Report(results) == IF Aborted(results) THEN <<Abort>> ELSE results
validate_foci(IR, G, n, foci) ==
    FlattenSeq(EachOf(ListOf(foci), LAMBDA f : validate_shape(IR, G, n, f, 0))) \o unique_values_for(IR, G, n, foci)
validate_all(IR, G) ==
    Report(FlattenSeq(EachOf(ListOf(targeted(IR)), LAMBDA n :
                IF focus_fails(IR, G, n) THEN <<Abort>> ELSE validate_foci(IR, G, n, focus_nodes(IR, G, n))))
           \o data_declared_targets(IR, G))

-----------------------------------------------------------------------------
(* incremental.rs and CompiledShapes::revalidate: a change is a triple     *)
(* that was added or removed; G is the graph after all of them.            *)

plan(IR, G, changes) ==
    UNION {shapes_touching(IR, t[2]) \X {t[1], t[3]}
           \cup (IF t[2] # Type THEN {}
                 ELSE (UNION {shapes_targeting_class(IR, c) : c \in {t[3]} \cup objects(G, t[1], Type)}) \X {t[1]})
           : t \in changes}

(* Of a shape that a change implicates, the nodes of the change that are   *)
(* focus nodes; of one that has none of them, or that may be reached from  *)
(* elsewhere, all the focus nodes.                                         *)
within(named, widen, focus) ==
    LET attributed == {w \in named : w[2] \in focus[w[1]]}
    IN  attributed \cup UNION {{n} \X focus[n] : n \in {n \in DOMAIN focus :
                                    n \in widen \/ ~\E w \in attributed : w[1] = n}}
validate_selected(IR, G, selected, focus) ==
    Report(FlattenSeq(EachOf(ListOf(selected), LAMBDA w : validate_shape(IR, G, w[1], w[2], 0)))
           \o FlattenSeq(EachOf(ListOf({w[1] : w \in selected}), LAMBDA n : unique_values_for(IR, G, n, focus[n]))))
validate_focus(IR, G, named, widen, focus) == validate_selected(IR, G, within(named, widen, focus), focus)
(* Where the focus nodes of a shape cannot be found, it is taken to have   *)
(* none.                                                                   *)
validate_within(IR, G, named, widen) ==
    validate_focus(IR, G, named, widen, [n \in {w[1] : w \in named} |->
                                            IF focus_fails(IR, G, n) THEN {} ELSE focus_nodes(IR, G, n)])
revalidate(IR, G, changes) ==
    LET work == plan(IR, G, changes)
    IN  validate_within(IR, G, UNION {targeted_ancestors(IR, w[1]) \X {w[2]} : w \in work},
            UNION {targeted_ancestors(IR, w[1]) : w \in {w \in work : focus_may_be_upstream(IR, w[1])}})

=============================================================================
