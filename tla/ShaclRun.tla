------------------------------ MODULE ShaclRun -----------------------------
(***************************************************************************)
(* A store that is written to while two validators watch it: the native    *)
(* one (CompiledShapes of holos-shacl), which reads the store, and the     *)
(* engine behind EngineRun (engine.rs, bridge.rs), which keeps a graph of  *)
(* its own and is told of every change.  Both can check the whole graph or *)
(* only what a change may have affected; the engine also infers.           *)
(*                                                                         *)
(* A quad is <<graph, triple>>; a change is [quad, added].                 *)
(***************************************************************************)
EXTENDS ShaclRules, EngineRun

CONSTANTS
    Alike,          \* the shapes graphs that both evaluators read alike
    MaxRounds       \* rounds of an inference

Native == INSTANCE Shacl

-----------------------------------------------------------------------------
(* Both compilers, once for each shapes graph.                             *)

IRs == [k \in DOMAIN Schemas |-> IF Native!Compiles(Schemas[k]) THEN Native!compile(Schemas[k]) ELSE <<>>]
Shapes == [k \in DOMAIN Schemas |-> IF Compiles(Schemas[k]) THEN compile(Schemas[k]) ELSE <<>>]
Run == Engine(Schemas[schema], Shapes[schema], graph)

-----------------------------------------------------------------------------
(* EngineRun::revalidate, for the graph after the changes: everything when *)
(* some shape may depend on anything.                                      *)
M_implicated_by_predicate(shapes, G, t) == shapes_touching(shapes, t[2]) \X {t[1], t[3]}
implicated_by(shapes, G, t) ==
    shapes_touching(shapes, t[2]) \X {t[1], t[3]}
    \cup (IF t[2] # Type THEN {}
          ELSE (UNION {shapes_targeting_class(shapes, c) : c \in {t[3]} \cup objects(G, t[1], Type)}) \X {t[1]})

(* The nodes of a change that are focus nodes of a shape it implicates; of *)
(* a shape that has none of them, or that may be reached from elsewhere,   *)
(* all the focus nodes.                                                    *)
within(named, widened, focus) ==
    LET attributed == {w \in named : w[2] \in focus[w[1]]}
    IN  attributed \cup UNION {{n} \X focus[n] : n \in {n \in DOMAIN focus :
                                    n \in widened \/ ~\E w \in attributed : w[1] = n}}
validate_within(E, named, widened, focus) ==
    IF \E n \in DOMAIN focus : ~focus[n].ok THEN <<Abort>>
    ELSE validate_nodes(E, within(named, widened, [n \in DOMAIN focus |-> Elements(focus[n].rows)]))
revalidate_nodes(E, named, widened) ==
    validate_within(E, named, widened, [n \in {w[1] : w \in named} |-> focus_nodes(E, n)])
revalidate(E, triples) ==
    IF unconditional(E.shapes) # {} THEN validate_in_with(E)
    ELSE LET touched == UNION {implicated_by(E.shapes, E.G, t) : t \in triples}
         IN  revalidate_nodes(E, UNION {targeted_ancestors(E.shapes, w[1]) \X {w[2]} : w \in touched},
                UNION {targeted_ancestors(E.shapes, w[1]) : w \in {w \in touched : focus_may_be_upstream(E.shapes, w[1])}})

all_severities == {Iri("Violation"), Iri("Warning"), Iri("Info")}
conforms(report) == ~\E i \in DOMAIN report : report[i].severity \in all_severities

infer(E) ==
    AndThen(apply_iterated(E, MaxRounds), LAMBDA after :
        Entailed({t \in after \ E.G : t[1][1] \in {"iri", "bnode"} /\ t[2][1] = "iri"}))

-----------------------------------------------------------------------------
(* Properties.                                                             *)

(* What follows holds whenever the graph is about to change.               *)

(* The native evaluator and the engine report the same results, the same   *)
(* number of times, on the shapes graphs that both read alike, and draw    *)
(* the same verdict from them: the CLI and the server may use either.      *)
SameReport(native, engine) ==
    /\ SameBag(native, engine)
    /\ Aborted(native) \/ (Native!conforms(native) <=> conforms(engine))
Agreed == schema \in Alike /\ Usable => SameReport(Native!validate_all(IRs[schema], data), validate_in_with(Run))
ReportsAgree == [][graph' # graph => Agreed]_run_vars

(* Asking for the first n results of the blocking severities answers as    *)
(* the full report does: it has n of them if there are n, and otherwise    *)
(* all there are (Options::first_blocking decides whether a write is       *)
(* refused).                                                               *)
Violations(report) == SelectSeq(report, LAMBDA r : r.severity = Iri("Violation"))
BoundedAs(E, full) ==
    Aborted(full) \/ \A n \in {1, 2} :
        Len(Violations(validate_in_with([E EXCEPT !.max = n, !.blocking = {Iri("Violation")}])))
            = Min({n, Len(Violations(full))})
Bounded == Usable => BoundedAs(Run, validate_in_with(Run))
BoundedVerdict == [][graph' # graph => Bounded]_run_vars

(* The RDFS closure, stated at once instead of round by round.             *)
Above(G, p, x) == {x} \cup {on[2] : on \in walk(<<"oneOrMore", <<"pred", p>>>>, {<<1, x>>}, G, FALSE)}
Consequences(G) ==
    LET stated == UNION {{<<t[1], p, t[3]>> : p \in Above(G, SubPropertyOf, t[2])} : t \in G}
        typed == {<<t[1], t[3]>> : t \in {t \in stated : t[2] = Type}}
                 \cup UNION {{<<t[1], c>> : c \in objects(G, t[2], Domain)} \cup {<<t[3], c>> : c \in objects(G, t[2], Range_)}
                             : t \in stated}
    IN  stated
        \cup UNION {{<<xc[1], Type, d>> : d \in Above(G, SubClassOf, xc[2])} : xc \in typed}
        \cup UNION {{<<c, p, d>> : d \in Above(G, p, c) \ {c}} : <<c, p>> \in subjects_of(G, SubClassOf) \X {SubClassOf}
                                                                 \cup subjects_of(G, SubPropertyOf) \X {SubPropertyOf}}

(* What the rules infer is what they produce from the data and what they   *)
(* inferred, no less and no more, and what is inferred of a literal is     *)
(* dropped (EngineRun::infer, apply_iterated); the RDFS closure holds what *)
(* the data and its schema entail, over hierarchies of any length and with *)
(* cycles (rdfs_closure).                                                  *)
Produced(E) ==
    UNION {Elements(fire(E, r, node).rows) : <<r, node>> \in
        UNION {Elements(E.shapes[n].rules) \X Elements(focus_nodes(E, n).rows) : n \in DOMAIN E.shapes}}
Monotone(shapes) ==
    \A n \in DOMAIN shapes : \A i \in DOMAIN shapes[n].rules :
        LET r == shapes[n].rules[i]
        IN  r.conditions = <<>> /\ r.kind # "broken" /\ ~r.deactivated
InferredExactly(E, after, inferred) ==
    Monotone(E.shapes) /\ after.ok =>
        /\ after.graph = E.G \cup Produced([E EXCEPT !.G = after.graph])
        /\ inferred.graph = {t \in after.graph \ E.G : t[1][1] # "lit"}
ClosedExactly(G, closed) == closed.ok => closed.graph = Consequences(G)
Inferred ==
    Usable =>
        /\ InferredExactly(Run, apply_iterated(Run, MaxRounds), infer(Run))
        /\ ClosedExactly(graph, rdfs_closure(graph))
InferenceExact == [][graph' # graph => Inferred]_run_vars

-----------------------------------------------------------------------------
(* Where the shapes of a change's nodes are all it can affect.  Outside    *)
(* this, a revalidation may miss a result; the README lists the cases.     *)

Below == {"node", "not", "and", "or", "xone"}
RECURSIVE SameFocus(_, _)
SameFocus(shapes, ns) ==
    LET inside == {n \in ns : shapes[n].path = None}
        next == ns \cup UNION {named_by(shapes, n, Below) : n \in inside}
    IN  IF next = ns THEN ns ELSE SameFocus(shapes, next)
OwnFocus(shapes, a) ==
    LET wheres == {t[2] : t \in {t \in Elements(shapes[a].targets) : t[1] = "where"}} \cap DOMAIN shapes
        kin == SameFocus(shapes, {a} \cup wheres)
    IN  kin \cup UNION {named_by(shapes, n, {"property"}) : n \in {n \in kin : shapes[n].path = None}}

ReadsElsewhere(c, p) ==
    \/ c[1] \in {"class", "rootClass"} /\ p = Type
    \/ c[1] = "reifierShape" /\ p = Reifies
    \/ c[1] \in {"minListLength", "maxListLength", "uniqueMembers", "memberShape"} /\ p \in {First, Rest}
Local(shape, p) == ~\E i \in DOMAIN shape.constraints : ReadsElsewhere(shape.constraints[i], p)

Unseen(shapes, G, t) ==
    \/ t[2] = SubClassOf \/ \E u \in G \cup {t} : u[2] = ShapeOf /\ u[3] \in DOMAIN shapes
    \/ t[2] = Type /\ \E c \in up(G, {t[3]}, FALSE) \ {t[3]} : shapes_targeting_class(shapes, c) # {}
    \/ \E n \in DOMAIN shapes : \E i \in DOMAIN shapes[n].constraints : shapes[n].constraints[i][1] = "closed"

Attributed(shapes, touched, ancestors_of(_), upstream(_), focus(_), t) ==
    \A n \in touched : \A a \in ancestors_of(n) :
        \/ upstream(n)
        \/ n \in OwnFocus(shapes, a) /\ Local(shapes[n], t[2])
        \/ {t[1], t[3]} \cap focus(a) = {}

NativeAttributable(IR, G, t) ==
    /\ ~Unseen(IR, G, t)
    /\ t[2] \in {First, Rest, Reifies} => \A n \in DOMAIN IR : Local(IR[n], t[2])
    /\ Attributed(IR, Native!shapes_touching(IR, t[2]), LAMBDA n : Native!targeted_ancestors(IR, n),
                  LAMBDA n : Native!focus_may_be_upstream(IR, n), LAMBDA n : Native!focus_nodes(IR, G, n), t)
EngineAttributable(E, t) ==
    /\ ~Unseen(E.shapes, E.G, t)
    /\ \A n \in DOMAIN E.shapes : /\ "uniqueValuesFor" \notin {c[1] : c \in Elements(E.shapes[n].constraints)}
                                  /\ {<<"subjectsOf", t[2]>>, <<"objectsOf", t[2]>>} \cap Elements(E.shapes[n].targets) # {}
                                        => n \in shapes_touching(E.shapes, t[2])
    /\ Attributed(E.shapes, shapes_touching(E.shapes, t[2]), LAMBDA n : targeted_ancestors(E.shapes, n),
                  LAMBDA n : focus_may_be_upstream(E.shapes, n), LAMBDA n : Elements(focus_nodes(E, n).rows), t)

(* A report of the changes: everything it says is so, and everything that  *)
(* was not so before is in it.                                             *)
Covers(part, was, is) ==
    Aborted(was) \/ Aborted(is)
    \/ (Elements(part) \subseteq Elements(is) /\ Elements(is) \ Elements(was) \subseteq Elements(part))
CoversChange(part, reports, old, new) == Covers(part, reports[old], reports[new])

(* A write is checked by revalidating what it touched: no new result is    *)
(* missed and none is made up, by either evaluator, where the change is    *)
(* attributable to the nodes it names (CompiledShapes::revalidate and      *)
(* EngineRun::revalidate: "under-reporting lets an invalid graph           *)
(* through").                                                              *)
NativeReports(IR, old, new, triples) ==
    CoversChange(Native!revalidate(IR, new, triples), [G \in {old, new} |-> Native!validate_all(IR, G)], old, new)
EngineReports(E, old, triples) ==
    CoversChange(revalidate(E, triples), [G \in {old, E.G} |-> validate_in_with([E EXCEPT !.G = G])], old, E.G)
NativeCovers(IR, old, new, triples) ==
    (\A t \in triples : \A G \in {old, new} : NativeAttributable(IR, G, t)) => NativeReports(IR, old, new, triples)
EngineCovers(E, old, triples) ==
    (\A t \in triples : \A G \in {old, E.G} : EngineAttributable([E EXCEPT !.G = G], t)) => EngineReports(E, old, triples)
Changed(store) ==
    {q[2] : q \in {q \in (store \ data_quads) \cup (data_quads \ store) : in_graph(q[1], options.data)}}
Revalidated(store, G) ==
    /\ NativeCovers(IRs[schema], data, bridge(store, options.data), Changed(store))
    /\ EngineCovers([Run EXCEPT !.G = G], data, Changed(store))
RevalidateCovers ==
    [][data_quads' # data_quads /\ Usable' => \E store \in {data_quads'}, G \in {graph'} : Revalidated(store, G)]_run_vars

(* A write is checked by revalidating what it touched, and no new result   *)
(* of the full validation is missed, whatever the change (incremental.rs:  *)
(* under-reporting "would silently let an invalid graph through").         *)
RevalidateMissesNothing ==
    [][data_quads' # data_quads /\ Usable' => \E store \in {data_quads'} :
          NativeReports(IRs[schema], data, bridge(store, options.data), Changed(store))]_run_vars
=============================================================================
