----------------------------- MODULE ShaclSparql ---------------------------
(***************************************************************************)
(* sparql.rs of holos-shacl-engine: a SPARQL query inside a shape, run     *)
(* with $this and others bound beforehand.  A ground binding is written    *)
(* into the query; a blank node cannot be (it would be a variable), so it  *)
(* is handed to the evaluator as an initial value.                         *)
(*                                                                         *)
(* A query is [form, pattern, template]: form "select", "ask",             *)
(* "construct", or "none" when the node has no query or one that does not  *)
(* parse; the pattern and its meaning are Algebra's.                       *)
(***************************************************************************)
EXTENDS ShaclTerms

Alg == INSTANCE Algebra WITH Remote <- {}, MaxPushed <- 0, NothingIri <- Iri("nothing")

Var(name) == <<"var", name>>
This == Var("this")
Answer(rows) == [ok |-> TRUE, rows |-> rows]
Error == [ok |-> FALSE, rows |-> <<>>]
Then(answer, Op(_)) == IF answer.ok THEN Op(answer.rows) ELSE Error
ShapesGraph == Iri("shapesGraph")

Ground == {"iri", "lit", "bad"}

-----------------------------------------------------------------------------
(* The dataset: the data, and the shapes graph under its name.             *)

Statements(S) ==
    UNION {UNION {{<<n, Iri(p), S.decl[n][p][i]>> : i \in DOMAIN S.decl[n][p]} : p \in DOMAIN S.decl[n]}
           : n \in DOMAIN S.decl}
adapter(G, shapes) ==
    {[g |-> Alg!Default, t |-> t] : t \in G} \cup {[g |-> ShapesGraph, t |-> t] : t \in shapes}

-----------------------------------------------------------------------------
(* Which predicates a query reads, or Anything.                            *)

Anything == {<<"anything">>}
RECURSIVE predicates_in(_)
predicates_in(p) ==
    LET both(a, b) == IF Anything \in {a, b} THEN Anything ELSE a \cup b
    IN  CASE p.op = "bgp" ->
                LET ps == {p.triples[i][2] : i \in DOMAIN p.triples}
                IN  IF \E x \in ps : x[1] = "var" THEN Anything ELSE ps
          [] p.op \in {"closure", "alternatives", "service"} -> Anything
          [] p.op \in {"join", "union", "leftjoin", "minus", "exists"} ->
                both(predicates_in(p.l), predicates_in(p.r))
          [] p.op = "values" -> {}
          [] OTHER -> predicates_in(p.in)
predicates(query) == predicates_in(query.pattern)

-----------------------------------------------------------------------------
(* fold_pattern: the ground bindings of pre, written into a pattern.  The  *)
(* evaluator's initial values reach the same places, except below a        *)
(* subquery that does not return them.                                     *)

Onto(t, pre, kinds) == IF t \in DOMAIN pre /\ pre[t][1] \in kinds THEN pre[t] ELSE t
fold_term_pattern(t, pre, kinds) == Onto(t, pre, kinds)
fold_named_node_pattern(t, pre) == Onto(t, pre, {"iri"})

RECURSIVE fold_expr(_, _, _)
fold_expr(e, pre, kinds) ==
    CASE e.f = "and" -> [e EXCEPT !.args = EachOf(e.args, LAMBDA x : fold_expr(x, pre, kinds))]
      [] e.f = "bound" /\ e.args[1] \in DOMAIN pre -> Alg!E("and", <<>>)
      [] OTHER -> [e EXCEPT !.args = EachOf(e.args, LAMBDA t : Onto(t, pre, kinds))]

Within(p, pre, kinds) ==
    CASE p.op = "bgp" ->
            [p EXCEPT !.triples = EachOf(p.triples, LAMBDA t :
                <<fold_term_pattern(t[1], pre, kinds), fold_named_node_pattern(t[2], pre),
                  fold_term_pattern(t[3], pre, kinds)>>)]
      [] p.op \in {"closure", "alternatives"} ->
            [p EXCEPT !.s = fold_term_pattern(p.s, pre, kinds), !.o = fold_term_pattern(p.o, pre, kinds)]
      [] p.op \in {"filter", "leftjoin"} -> [p EXCEPT !.e = fold_expr(p.e, pre, kinds)]
      [] p.op = "extend" -> [p EXCEPT !.term = Onto(p.term, pre, kinds)]
      [] OTHER -> p

Leaves == {"bgp", "closure", "alternatives", "values"}
TwoSided == {"join", "union", "leftjoin", "minus", "exists"}
RECURSIVE fold_pattern(_, _)
fold_below(q, pre) ==
    IF q.op \in Leaves THEN q
    ELSE IF q.op \in TwoSided THEN [q EXCEPT !.l = fold_pattern(q.l, pre), !.r = fold_pattern(q.r, pre)]
    ELSE IF q.op = "project" THEN [q EXCEPT !.in = fold_pattern(q.in, pre), !.vars = q.vars \ DOMAIN pre]
    ELSE [q EXCEPT !.in = fold_pattern(q.in, pre)]
fold_pattern(p, pre) == fold_below(Within(p, pre, Ground), pre)
substitute(query, bindings) ==
    [query EXCEPT !.pattern = fold_pattern(query.pattern, bindings),
                  !.template = EachOf(query.template, LAMBDA t :
                        <<fold_term_pattern(t[1], bindings, Ground), fold_named_node_pattern(t[2], bindings),
                          fold_term_pattern(t[3], bindings, Ground)>>)]

(* The variables fold_pattern looks up: not the name of a GRAPH, nor what  *)
(* BIND, GROUP BY and VALUES bind.                                         *)
RECURSIVE looked_up(_)
looked_up(p) ==
    LET inside == IF p.op \in Leaves THEN {}
                  ELSE IF p.op \in TwoSided THEN looked_up(p.l) \cup looked_up(p.r)
                  ELSE looked_up(p.in)
        RECURSIVE in_expr(_)
        in_expr(e) == IF e.f = "and" THEN UNION {in_expr(e.args[i]) : i \in DOMAIN e.args} ELSE Elements(e.args)
    IN  inside \cup
        CASE p.op = "bgp" -> UNION {Elements(p.triples[i]) : i \in DOMAIN p.triples}
          [] p.op \in {"closure", "alternatives"} -> {p.s, p.o}
          [] p.op \in {"filter", "leftjoin"} -> in_expr(p.e)
          [] p.op = "extend" -> {p.term}
          [] p.op = "project" -> p.vars
          [] OTHER -> {}
mentions_variable(p, v) == v \in looked_up(p)
mentions(query, v) == mentions_variable(query.pattern, v)

-----------------------------------------------------------------------------
(* What cannot be combined with pre-binding.                               *)

RECURSIVE unsupported_in(_, _, _)
unsupported_in(p, prebound, outermost) ==
    LET recurse(x) == unsupported_in(x, prebound, FALSE)
    IN  CASE p.op \in {"values", "minus", "service"} -> TRUE
          [] p.op = "extend" -> p.var \in prebound \/ recurse(p.in)
          [] p.op = "project" ->
                \/ ~outermost /\ This \in prebound /\ This \notin p.vars /\ mentions_variable(p.in, This)
                \/ recurse(p.in)
          [] p.op \in {"join", "union", "leftjoin"} -> recurse(p.l) \/ recurse(p.r)
          [] p.op \in {"orderby", "distinct", "slice"} -> unsupported_in(p.in, prebound, outermost)
          [] p.op \in {"filter", "graph", "group"} -> recurse(p.in)
          [] p.op = "exists" -> recurse(p.l)        \* a filter: its expression is not looked into
          [] OTHER -> FALSE
reject_unsupported(query, bindings) == unsupported_in(query.pattern, DOMAIN bindings, TRUE)

(* A variable the evaluator is to bind must be among the projected ones.   *)
RECURSIVE widen(_, _)
widen(p, names) ==
    CASE p.op = "project" -> [p EXCEPT !.vars = p.vars \cup names]
      [] p.op \in {"distinct", "orderby", "slice"} -> [p EXCEPT !.in = widen(p.in, names)]
      [] OTHER -> p
ensure_projected(query, names) ==
    IF query.form = "select" THEN [query EXCEPT !.pattern = widen(query.pattern, names)] ELSE query

RECURSIVE projected_of(_)
projected_of(p) ==
    CASE p.op = "project" -> p.vars
      [] p.op \in {"slice", "distinct", "orderby"} -> projected_of(p.in)
      [] OTHER -> {}
projected_variables(query) == IF query.form = "select" THEN projected_of(query.pattern) ELSE {}

(* The evaluator (spareval) under initial values.                          *)
RECURSIVE initial(_, _)
initial_below(q, pre) ==
    IF q.op \in Leaves THEN q
    ELSE IF q.op \in TwoSided THEN [q EXCEPT !.l = initial(q.l, pre), !.r = initial(q.r, pre)]
    ELSE [q EXCEPT !.in = initial(q.in, IF q.op # "project" THEN pre ELSE [v \in DOMAIN pre \cap q.vars |-> pre[v]])]
initial(p, pre) == initial_below(Within(p, pre, {"bnode"}), pre)

Only(bindings, vars) == [v \in vars |-> bindings[v]]
solved(prepared, values, quads) ==
    Answer(EachOf(Alg!Eval(initial(prepared.pattern, values), Alg!Default, quads),
                  LAMBDA row : Alg!Both(row, values)))
substituted(query, values, quads) ==
    LET wanted == {v \in DOMAIN values : mentions(query, v)}
    IN  solved(ensure_projected(query, wanted), Only(values, wanted), quads)
evaluate(query, bindings, quads) ==
    LET blank == {v \in DOMAIN bindings : bindings[v][1] = "bnode"}
    IN  IF reject_unsupported(query, bindings) THEN Error
        ELSE substituted(substitute(query, Only(bindings, DOMAIN bindings \ blank)), Only(bindings, blank), quads)

(* A true ASK is one empty solution.                                       *)
Solutions(form, answer) == IF form = "ask" /\ answer.rows # <<>> THEN Answer(<<<<>>>>) ELSE answer
run_in(query, bindings, G, shapes) ==
    IF query.form \in {"none", "construct"} THEN Error
    ELSE Solutions(query.form, evaluate(query, bindings, adapter(G, shapes)))
run(query, bindings, G) == run_in(query, bindings, G, {})

(* The triples of a template, where every position is bound and fits.      *)
run_construct(query, bindings, G) ==
    LET template == substitute(query, bindings).template
        at(row, t) == IF t \in DOMAIN row THEN row[t] ELSE t
        of(row) == EachOf(template, LAMBDA t : <<at(row, t[1]), at(row, t[2]), at(row, t[3])>>)
        fits(t) == t[1][1] \in {"iri", "bnode"} /\ t[2][1] = "iri" /\ t[3][1] # "var"
    IN  IF query.form # "construct" THEN Error
        ELSE Then(evaluate(query, bindings, adapter(G, {})), LAMBDA rows :
                Answer(SelectSeq(FlattenSeq(EachOf(rows, of)), fits)))

(* $PATH in a query of a property shape.                                   *)
PATH == <<"var", "PATH">>
with_path(query, path) ==
    IF path = None \/ query.form = "none" THEN query
    ELSE LET RECURSIVE in(_)
             in(p) == CASE p.op = "bgp" -> [p EXCEPT !.triples = EachOf(p.triples, LAMBDA t :
                                                IF t[2] = PATH THEN <<t[1], path[2], t[3]>> ELSE t)]
                        [] p.op \in Leaves -> p
                        [] p.op \in TwoSided -> [p EXCEPT !.l = in(p.l), !.r = in(p.r)]
                        [] OTHER -> [p EXCEPT !.in = in(p.in)]
         IN  [query EXCEPT !.pattern = in(query.pattern)]
=============================================================================
