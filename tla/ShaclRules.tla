----------------------------- MODULE ShaclRules ----------------------------
(***************************************************************************)
(* rules.rs and inference.rs of holos-shacl-engine: what a graph entails   *)
(* by the rules of the shapes graph, and by RDFS.  An answer is            *)
(* [ok, graph].                                                            *)
(***************************************************************************)
EXTENDS ShaclValidate

CONSTANT MaxTriples     \* DEFAULT_MAX_TRIPLES of an inference

Entailed(G) == [ok |-> TRUE, graph |-> G]
Refused == [ok |-> FALSE, graph |-> {}]

-----------------------------------------------------------------------------
(* rules.rs.                                                               *)

(* What a rule adds for one focus node.                                    *)
Parts == <<"subject", "predicate", "object">>
triples_of(parts) ==
    LET named == SelectSeq(parts[2].rows, LAMBDA t : t[1] = "iri")
    IN  IF \E i \in DOMAIN parts : ~parts[i].ok THEN Error
        ELSE Answer(FlattenSeq(EachOf(parts[1].rows, LAMBDA x :
                FlattenSeq(EachOf(named, LAMBDA y : EachOf(parts[3].rows, LAMBDA z : <<x, y, z>>))))))
fire(E, rule, focus) ==
    CASE rule.kind = "broken" -> Error
      [] rule.kind = "sparql" -> run_construct(rule.body.construct, [v \in {This} |-> focus], E.G)
      [] OTHER -> triples_of(EachOf(Parts, LAMBDA p : eval_expr(E, rule.body[p], focus)))

conforms_to_all(E, conditions, node) ==
    Until(EachOf(conditions, LAMBDA n : node_conforms(E, node, n)), "holds")

(* The bound counts what the rules produced, known or repeated included.   *)
merge(G, extra) ==
    IF extra # <<>> /\ Cardinality(G) + Len(extra) > MaxTriples THEN Refused ELSE Entailed(G \cup Elements(extra))

(* Rules run in the order of their shape and their own; the ones of one    *)
(* order see the same graph.  A shape is taken up once for each of its     *)
(* rules, and every time all its rules of that order fire.                 *)
level_of(shape, rule) == <<shape.order, rule.order>>
work(shapes) ==
    UNION {{<<n, j>> : j \in {j \in DOMAIN shapes[n].rules : ~shapes[n].deactivated /\ ~shapes[n].rules[j].deactivated}}
           : n \in DOMAIN shapes}
before(a, b) == a[1] < b[1] \/ (a[1] = b[1] /\ a[2] < b[2])

fired(E, r, node, verdict) ==
    IF verdict = "error" THEN Error ELSE IF verdict = "fails" THEN Answer(<<>>) ELSE fire(E, r, node)
rules_at(shape, level) == SelectSeq(shape.rules, LAMBDA r : ~r.deactivated /\ level_of(shape, r) = level)
entries_at(shapes, level) == {w \in work(shapes) : level_of(shapes[w[1]], shapes[w[1]].rules[w[2]]) = level}
at_level(E, level) ==
    Gather(EachOf(ListOf(entries_at(E.shapes, level)), LAMBDA w :
        Then(focus_nodes(E, w[1]), LAMBDA foci :
            Gather(FlattenSeq(EachOf(foci, LAMBDA node :
                EachOf(rules_at(E.shapes[w[1]], level), LAMBDA r :
                    fired(E, r, node, conforms_to_all(E, r.conditions, node)))))))))

merged(G, pending) == IF pending.ok THEN merge(G, pending.rows) ELSE Refused
earliest(levels) == CHOOSE l \in levels : ~\E m \in levels : before(m, l)
AndThen(next, Op(_)) == IF next.ok THEN Op(next.graph) ELSE Refused
RECURSIVE run_levels(_, _)
run_levels(E, levels) ==
    IF levels = {} THEN Entailed(E.G)
    ELSE AndThen(merged(E.G, at_level(E, earliest(levels))), LAMBDA G :
            run_levels([E EXCEPT !.G = G], levels \ {earliest(levels)}))
apply_bounded(E) ==
    run_levels(E, {level_of(E.shapes[w[1]], E.shapes[w[1]].rules[w[2]]) : w \in work(E.shapes)})

(* Round after round, until one adds nothing.                              *)
M_apply_iterated_once(E, rounds) == apply_bounded(E)
RECURSIVE apply_iterated(_, _)
apply_iterated(E, rounds) ==
    IF rounds = 0 THEN Entailed(E.G)
    ELSE AndThen(apply_bounded(E), LAMBDA G :
            IF Cardinality(G) = Cardinality(E.G) THEN Entailed(G)
            ELSE IF rounds = 1 THEN Refused
            ELSE apply_iterated([E EXCEPT !.G = G], rounds - 1))

-----------------------------------------------------------------------------
(* inference.rs.                                                           *)

Domain == Iri("domain")
Range_ == Iri("range")
SubPropertyOf == Iri("subPropertyOf")
pairs(G, p) == {<<t[1], t[3]>> : t \in {t \in G : t[2] = p}}

(* What one round derives.                                                 *)
derived(G) ==
    UNION {{<<t[1], Type, dc[2]>> : dc \in {dc \in pairs(G, Domain) : dc[1] = t[2]}}
           \cup {<<t[3], Type, dc[2]>> : dc \in {dc \in pairs(G, Range_) : dc[1] = t[2]}}
           \cup {<<t[1], sp[2], t[3]>> : sp \in {sp \in pairs(G, SubPropertyOf) : sp[1] = t[2]}}
           \cup {<<t[1], Type, sc[2]>> : sc \in {sc \in pairs(G, SubClassOf) : t[2] = Type /\ sc[1] = t[3]}}
           : t \in G}
    \cup UNION {{<<ab[1], p, cd[2]>> : <<ab, cd>> \in
                    {x \in pairs(G, p) \X pairs(G, p) : x[1][2] = x[2][1] /\ x[1][1] # x[2][2]}}
                : p \in {SubPropertyOf, SubClassOf}}

RECURSIVE rdfs_closure(_)
rdfs_closure(G) ==
    LET next == G \cup derived(G)
    IN  IF Cardinality(next) > MaxTriples THEN Refused
        ELSE IF next = G THEN Entailed(G) ELSE rdfs_closure(next)
=============================================================================
