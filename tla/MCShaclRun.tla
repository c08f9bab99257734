----------------------------- MODULE MCShaclRun ----------------------------
(* Shapes graphs, each with the triples its data is made of.               *)
EXTENDS ShaclRun

a == Iri("a")
b == Iri("b")
p == Iri("p")
q == Iri("q")
C == Iri("C")
D == Iri("D")
S == Iri("S")
P == Iri("P")
N == Iri("N")
M == Iri("M")
list_head == Blank("l")

L(members) == <<"list", members>>
Path(kind, inner) == <<"path", kind, inner>>
Tags(subtags) == <<"range", subtags>>
True1 == <<True>>
en == <<"en">>
gb == <<"en", "GB">>

Schema(decl) == [decl |-> decl, notes |-> <<>>]
(* A shape for the instances of C, with one property shape.                *)
OnC(property) == (S :> [targetClass |-> <<C>>, property |-> <<P>>]) @@ (P :> property)
aC == <<a, Type, C>>
bC == <<b, Type, C>>
bD == <<b, Type, D>>
ap(o) == <<a, p, o>>
Of(triples) == {<<"default", t>> : t \in triples}

Case(decl, triples) == [shapes |-> Schema(decl), data_quads |-> Of(triples)]

Common == [
    class |-> Case(OnC([path |-> <<p>>, class |-> <<D>>, minCount |-> <<Num(1)>>]),
                   {aC, bC, bD, ap(b), <<b, p, a>>}),
    counts |-> Case(OnC([path |-> <<p>>, maxCount |-> <<Num(1)>>, hasValue |-> <<b>>, nodeKind |-> <<Iri("IRI")>>,
                         severity |-> <<Iri("Warning")>>]),
                    {aC, bC, ap(b), ap(Num(1)), <<b, p, b>>}),
    severities |-> Case((S :> [targetClass |-> <<C>>, property |-> <<P, Iri("P2")>>, class |-> <<D>>])
                        @@ (P :> [path |-> <<p>>, minCount |-> <<Num(1)>>, severity |-> <<Iri("Warning")>>])
                        @@ (Iri("P2") :> [path |-> <<q>>, minCount |-> <<Num(1)>>, property |-> <<N>>])
                        @@ (N :> [nodeKind |-> <<Iri("Literal")>>, severity |-> <<Iri("Debug")>>]),
                        {aC, bC, bD, ap(b), <<b, q, a>>}),
    ranges |-> Case(OnC([path |-> <<p>>, datatype |-> <<Iri("integer")>>, minInclusive |-> <<Num(1)>>,
                         maxExclusive |-> <<Num(3)>>]),
                    {aC, ap(Num(1)), ap(Num(3)), ap(Lit("decimal", 2)), ap(b)}),
    bounds |-> Case(OnC([path |-> <<p>>, minExclusive |-> <<Num(1)>>, maxInclusive |-> <<Num(3)>>,
                         in |-> <<L(<<Num(1), Num(3)>>)>>]),
                    {aC, ap(Num(1)), ap(Num(3)), ap(Num(4)), ap(b)}),
    text |-> Case(OnC([path |-> <<p>>, minLength |-> <<Num(2)>>, maxLength |-> <<Num(2)>>, uniqueLang |-> True1,
                       languageIn |-> <<L(<<Tags(en)>>)>>]),
                  {aC, ap(Text(<<97, 98>>, en)), ap(Text(<<97>>, en)), ap(Text(<<98>>, gb)), ap(Text(<<97, 98>>, <<"fr">>))}),
    pattern |-> Case(OnC([path |-> <<p>>, datatype |-> <<L(<<Iri("string"), Iri("integer")>>)>>, pattern |-> <<<<"regex", {Text(<<97>>, <<>>)}, TRUE>>>>, singleLine |-> True1]),
                     {aC, ap(Text(<<97>>, <<>>)), ap(Text(<<97, 10>>, <<>>)), ap(Num(1)), ap(<<"bad", "integer", <<97>>, <<>>>>)}),
    pairs |-> Case(OnC([path |-> <<p>>, equals |-> <<q>>, lessThanOrEquals |-> <<q>>]),
                   {aC, ap(Num(1)), ap(Num(2)), <<a, q, Num(1)>>, <<a, q, Num(2)>>}),
    apart |-> Case(OnC([path |-> <<p>>, disjoint |-> <<q>>, lessThan |-> <<q>>, subsetOf |-> <<Iri("r")>>]),
                   {aC, ap(Num(1)), <<a, q, Num(1)>>, <<a, q, Num(2)>>, <<a, Iri("r"), Num(1)>>}),
    logic |-> Case((S :> [targetClass |-> <<C>>, or |-> <<L(<<N, M>>)>>, xone |-> <<L(<<N, M>>)>>,
                          and |-> <<L(<<N>>)>>, not |-> <<M>>])
                   @@ (N :> [property |-> <<P>>]) @@ (P :> [path |-> <<p>>, minCount |-> <<Num(1)>>])
                   @@ (M :> [path |-> <<q>>, minCount |-> <<Num(1)>>]),
                   {aC, bC, ap(b), <<a, q, b>>, <<b, q, a>>}),
    nested |-> Case(OnC([path |-> <<p>>, node |-> <<N>>]) @@ (N :> [path |-> <<q>>, minCount |-> <<Num(1)>>]),
                    {aC, bC, ap(b), <<b, q, b>>, <<b, p, b>>}),
    qualified |-> Case((S :> [targetClass |-> <<C>>, property |-> <<P, Iri("P2")>>])
                       @@ (P :> [path |-> <<p>>, qualifiedValueShape |-> <<N>>, qualifiedMinCount |-> <<Num(1)>>,
                                 qualifiedValueShapesDisjoint |-> True1])
                       @@ (Iri("P2") :> [path |-> <<p>>, qualifiedValueShape |-> <<M>>, qualifiedMaxCount |-> <<Num(0)>>])
                       @@ (N :> [class |-> <<D>>]) @@ (M :> [nodeKind |-> <<Iri("Literal")>>]),
                       {aC, bD, ap(b), ap(Num(1)), <<b, Type, C>>}),
    paths |-> Case(OnC([path |-> <<Path("zeroOrMore", p)>>, class |-> <<C>>])
                   @@ (Iri("S2") :> [targetNode |-> <<b>>, path |-> <<L(<<Path("inverse", p), q>>)>>, maxCount |-> <<Num(0)>>]),
                   {aC, bC, ap(b), <<b, p, a>>, <<a, q, Num(1)>>}),
    steps |-> Case(OnC([path |-> <<Path("alternative", L(<<p, Path("oneOrMore", q)>>))>>, minCount |-> <<Num(2)>>])
                   @@ (Iri("S2") :> [targetClass |-> <<D>>, path |-> <<Path("zeroOrOne", p)>>, class |-> <<C>>]),
                   {aC, bD, ap(b), <<b, q, a>>, <<a, q, b>>}),
    targets |-> Case((S :> [targetSubjectsOf |-> <<p>>, targetNode |-> <<b>>, property |-> <<P>>])
                     @@ (N :> [targetObjectsOf |-> <<p>>, class |-> <<D>>])
                     @@ (P :> [path |-> <<p>>, maxCount |-> <<Num(1)>>]),
                     {ap(b), ap(Num(1)), <<b, p, a>>, bD, <<D, SubClassOf, C>>}),
    hierarchy |-> Case(OnC([path |-> <<p>>, class |-> <<C>>, minCount |-> <<Num(1)>>]),
                       {aC, bD, <<D, SubClassOf, C>>, ap(b), <<b, p, b>>}),
    where |-> Case((S :> [type |-> <<Iri("NodeShape")>>, targetWhere |-> <<N>>, property |-> <<P>>])
                   @@ (N :> [class |-> <<C>>]) @@ (P :> [path |-> <<p>>, minCount |-> <<Num(1)>>]),
                   {aC, bC, ap(b), <<b, p, Num(1)>>}),
    reified |-> Case(OnC([path |-> <<p>>, reifierShape |-> <<N>>, reificationRequired |-> True1])
                     @@ (N :> [class |-> <<D>>]),
                     {aC, ap(b), <<Blank("r"), Reifies, <<"triple", a, p, b>>>>, <<Blank("r"), Type, D>>}),
    lists |-> Case(OnC([path |-> <<p>>, memberShape |-> <<N>>, minListLength |-> <<Num(1)>>, maxListLength |-> <<Num(1)>>,
                        uniqueMembers |-> True1])
                   @@ (N :> [nodeKind |-> <<Iri("IRI")>>]),
                   {aC, ap(list_head), <<list_head, First, b>>, <<list_head, Rest, Nil>>, ap(Nil)}),
    closed |-> Case((S :> [targetClass |-> <<C>>, closed |-> True1, ignoredProperties |-> <<L(<<Type>>)>>, property |-> <<P>>])
                    @@ (P :> [path |-> <<p>>]),
                    {aC, ap(b), <<a, q, b>>, bC}),
    some |-> Case((S :> [targetClass |-> <<C>>, property |-> <<P>>, deactivated |-> <<Bool(FALSE)>>])
                  @@ (P :> [path |-> <<p>>, someValue |-> <<N>>, rootClass |-> <<D>>])
                  @@ (N :> [class |-> <<D>>]) @@ (M :> [targetClass |-> <<C>>, deactivated |-> True1, class |-> <<D>>]),
                  {aC, bD, ap(b), <<b, SubClassOf, D>>}),
    unique |-> Case((S :> [targetClass |-> <<C>>, uniqueValuesFor |-> <<p>>]),
                    {aC, bC, ap(Num(1)), <<b, p, Num(1)>>, <<b, p, Num(2)>>}),
    declared |-> Case((S :> [type |-> <<Iri("NodeShape")>>, class |-> <<D>>]),
                      {<<b, ShapeOf, S>>, bD, aC, <<a, ShapeOf, N>>}) ]
Noted == [shapes |->
            [decl |-> OnC([path |-> <<p>>, minCount |-> <<Num(1)>>, maxCount |-> <<Num(1)>>, class |-> <<D>>]),
             notes |-> <<[subject |-> P, parameter |-> "maxCount", value |-> Num(1), severity |-> Iri("Info"),
                          message |-> FALSE, deactivated |-> FALSE]>>],
          data_quads |-> Of({aC, ap(b), ap(Num(1)), bD})]

(* Queries, node expressions and rules, which only the engine runs.        *)
Sel(vs, in) == [form |-> "select", template |-> <<>>, pattern |-> [op |-> "project", vars |-> vs, in |-> in]]
Ask(in) == [form |-> "ask", template |-> <<>>, pattern |-> in]
Construct(template, in) == [form |-> "construct", template |-> template, pattern |-> in]
Triples(ts) == [op |-> "bgp", triples |-> ts]
Sparql(query, severity) == <<"sparql", [query |-> query, severity |-> severity, node |-> Blank("c")]>>
Expr(e) == <<"expr", e>>
this == Iri("this")
x == Var("x")
Rule(r, conditions, order) == <<"rule", r @@ [conditions |-> conditions, order |-> order, deactivated |-> FALSE]>>
SPO(s, pred, o) == [subject |-> s, predicate |-> pred, object |-> o]

Values == Expr([pathValues |-> p])
Call(f, left, right) == Expr([call |-> <<f, L(<<left, right>>)>>])

EngineOnly == [
    select |-> Case(OnC([path |-> <<p>>, sparql |->
                        <<Sparql(Sel({This, Var("value")}, Triples(<<<<This, PATH, Var("value")>>, <<Var("value"), q, x>>>>)),
                                 Iri("Warning"))>>]),
                    {aC, bC, ap(b), <<b, q, a>>, <<b, p, Blank("n")>>, <<Blank("n"), q, b>>}),
    ask |-> Case((S :> [targetClass |-> <<C>>, sparql |-> <<Sparql(Ask(Triples(<<<<This, p, x>>>>)), None)>>])
                 @@ (N :> [target |-> <<Sparql(Sel({x}, Triples(<<<<x, q, Var("y")>>>>)), None)>>, class |-> <<C>>]),
                 {aC, <<Blank("n"), Type, C>>, ap(b), <<Blank("n"), p, b>>, <<b, q, a>>}),
    custom |-> Case((S :> [targetClass |-> <<C>>, limit |-> <<b>>])
                    @@ (M :> [parameter |-> <<<<"parameter", [path |-> "limit", optional |-> FALSE]>>>>,
                              validator |-> <<Sparql(Ask(Triples(<<<<Var("value"), p, Var("limit")>>>>)), None)>>]),
                    {aC, bC, ap(b), <<b, p, b>>, <<b, q, b>>}),
    expression |-> Case((S :> [targetClass |-> <<C>>, expression |->
                            <<Expr([call |-> <<"equals", L(<<Expr([count |-> Expr([pathValues |-> p])]), Num(1)>>)>>])>>])
                        @@ (N :> [targetClass |-> <<D>>, nodeByExpression |->
                            <<Expr([if |-> Expr([exists |-> Expr([pathValues |-> q])]), then |-> S, else |-> M])>>])
                        @@ (M :> [class |-> <<C>>]),
                        {aC, bD, ap(b), ap(Num(1)), <<b, p, b>>, <<b, q, a>>}),
    values |-> Case((S :> [targetClass |-> <<C>>, property |-> <<P>>])
                    @@ (P :> [path |-> <<p>>, minCount |-> <<Num(1)>>, values |->
                            <<Expr([filterShape |-> N, nodes |-> Expr([remove |-> b, nodes |->
                                    Expr([concat |-> L(<<Expr([pathValues |-> p]), Expr([instancesOf |-> D])>>)])])])>>])
                    @@ (N :> [nodeKind |-> <<Iri("IRI")>>]),
                    {aC, bD, ap(b), ap(Num(1)), <<a, Type, D>>}),
    computed |-> Case((S :> [targetClass |-> <<C>>, expression |->
                            <<Call("less-than", Expr([sum |-> Expr([distinct |-> Values])]),
                                   Expr([max |-> Expr([limit |-> Num(2), nodes |-> Expr([orderBy |-> this, desc |-> True, nodes |-> Values])])])),
                              Call("not-equals", Expr([min |-> Expr([offset |-> Num(1), nodes |-> Values])]), Num(2)),
                              Expr([matchAll |-> N, nodes |-> Expr([intersection |-> L(<<Values, Expr([flatMap |-> this, nodes |-> Values])>>)])]),
                              Call("logical-or", Expr([exists |-> Expr([findFirst |-> N, nodes |-> Expr([nodesMatching |-> N])])]),
                                   Expr([conformsToShape |-> L(<<this, N>>)]))>>])
                      @@ (N :> [nodeKind |-> <<Iri("Literal")>>]),
                      {aC, ap(b), ap(Num(1)), ap(Num(2)), ap(Num(3))}) ]

Rules == [
    chain |-> Case((S :> [targetClass |-> <<C>>, rule |->
                        <<Rule(SPO(Expr([pathValues |-> p]), Type, C), <<>>, 0), Rule(SPO(this, q, this), <<>>, 1)>>])
                   @@ (N :> [targetSubjectsOf |-> <<q>>, order |-> <<Num(1)>>, rule |->
                        <<Rule([construct |-> Construct(<<<<x, p, This>>>>, Triples(<<<<This, q, x>>>>))], <<>>, 0)>>]),
                   {aC, ap(b), <<b, p, Num(1)>>, <<b, q, a>>}) ,
    guarded |-> Case((S :> [targetClass |-> <<C>>, rule |-> <<Rule(SPO(this, p, Num(1)), <<M>>, 0)>>])
                     @@ (M :> [path |-> <<p>>, maxCount |-> <<Num(0)>>]),
                     {aC, bC, ap(b), <<b, q, a>>}),
    entailed |-> Case((S :> [targetClass |-> <<C>>, class |-> <<D>>]),
                       {ap(b), <<p, SubPropertyOf, q>>, <<q, SubPropertyOf, Iri("r")>>, <<Iri("r"), SubPropertyOf, p>>,
                        <<Iri("r"), Domain, C>>, <<q, Range_, D>>, <<C, SubClassOf, D>>, <<D, SubClassOf, C>>}) ]

(* Writes of two changes, checkpoints and two graphs, on one of them.      *)
Transactions == [shapes |-> Common.counts.shapes,
                 data_quads |-> {<<"default", aC>>, <<"default", ap(b)>>, <<"g", ap(b)>>, <<"g", <<a, ShapeOf, S>>>>}]

MCCases == Common @@ EngineOnly @@ Rules @@ ("noted" :> Noted) @@ ("transactions" :> Transactions)
MCSchemas == [k \in DOMAIN MCCases |-> MCCases[k].shapes]
MCQuads == [k \in DOMAIN MCCases |-> MCCases[k].data_quads]
MCAlike == (DOMAIN Common \ {"unique"}) \cup {"noted"}

Plain1 == {[data |-> "default", shapes |-> "shapes"]}
MCFilters == [k \in DOMAIN MCCases |->
    IF k = "transactions" THEN Plain1 \cup {[data |-> "g", shapes |-> "any"]} ELSE Plain1]
MCMaxChanges == [k \in DOMAIN MCCases |-> IF k = "transactions" THEN 2 ELSE 1]
MCMaxPending == [k \in DOMAIN MCCases |-> IF k = "transactions" THEN 3 ELSE 0]
=============================================================================
