----------------------------- MODULE MCBindJoin ----------------------------
(* Queries and datasets for the bind join and the rewrites.                *)
EXTENDS BindJoin

I(name) == <<"iri", name, 0>>
MCNothing == <<"iri", "nothing", 0>>
N(n) == <<"int", n, 0>>
D(n) == <<"dec", n, 0>>
G(n, box) == <<"geo", n, box>>
x == Var("x")
y == Var("y")
z == Var("z")
gn == Var("g")

DefaultQuad(s, p, o) == [g |-> Default, t |-> <<s, p, o>>]
NamedQuad(s, p, o, graph) == [g |-> graph, t |-> <<s, p, o>>]

MCRemote == {DefaultQuad(N(1), I("r"), I("far")), DefaultQuad(I("a"), I("r"), I("c")),
             DefaultQuad(N(3), I("r"), I("far"))}

(* Joins, optionals, shared values, cycles, two named graphs.              *)
Data1 == {DefaultQuad(I("a"), I("p"), N(1)), DefaultQuad(I("a"), I("p"), N(2)),
          DefaultQuad(I("b"), I("p"), D(1)), DefaultQuad(I("a"), I("q"), N(1)),
          DefaultQuad(I("a"), I("e"), I("b")), DefaultQuad(I("b"), I("e"), I("a")),
          NamedQuad(I("a"), I("p"), N(2), I("g1")), NamedQuad(I("b"), I("e"), I("c"), I("g2")),
          NamedQuad(I("a"), I("e"), I("b"), I("g1"))}
Data2 == {DefaultQuad(I("b"), I("p"), N(1)), DefaultQuad(I("b"), I("q"), N(1)),
          DefaultQuad(I("b"), I("q"), <<"lang", 1, 0>>), DefaultQuad(I("c"), I("p"), <<"str", 1, 0>>)}
DataGeo == {DefaultQuad(I("f"), I("hasGeometry"), I("s")), DefaultQuad(I("s"), I("asWKT"), G(1, 1)),
            DefaultQuad(I("t"), I("asWKT"), G(2, 2)), DefaultQuad(I("u"), I("asWKT"), G(3, 3)),
            DefaultQuad(I("v"), I("asWKT"), G(4, 3)), DefaultQuad(I("a"), I("p"), N(1))}

Sel(vs, in) == [op |-> "project", vars |-> vs, in |-> in]
Dist(in) == [op |-> "distinct", in |-> in]
Slice(in, start, length) == [op |-> "slice", in |-> in, start |-> start, length |-> length]
Ordered(in, by) == [op |-> "orderby", in |-> in, by |-> by]
Opt(l, r, e) == [op |-> "leftjoin", l |-> l, r |-> r, e |-> e]
GraphNode(name, in) == [op |-> "graph", name |-> name, in |-> in]
Walk(s, p, o, hops, inverse) ==
    [op |-> "closure", s |-> s, p |-> p, o |-> o, hops |-> hops, inverse |-> inverse]
Alt(s, preds, o) == [op |-> "alternatives", s |-> s, preds |-> preds, o |-> o]
Service(in) == [op |-> "service", in |-> in]
GroupNode(in, keys) == [op |-> "group", in |-> in, keys |-> keys, as |-> z]
True == E("and", <<>>)
Query(p) == [pattern |-> p, from |-> Default]

xp == Bgp(<<<<x, I("p"), y>>>>)
xq == Bgp(<<<<x, I("q"), z>>>>)
xe == Bgp(<<<<x, I("e"), z>>>>)
one(v, t) == [w \in {v} |-> t]

Patterns == {
    Sel({x, y, z}, Bgp(<<<<x, I("p"), y>>, <<x, I("e"), z>>>>)),
    Sel({x}, Bgp(<<<<x, I("p"), <<"blank", "b">>>>>>)),
    Dist(Sel({x}, Bgp(<<<<x, I("p"), y>>, <<x, I("p"), z>>>>))),
    Slice(Sel({x, y}, xp), 1, 1),
    Slice(Dist(Sel({x}, xp)), 0, 1),
    Sel({x, y, z}, Opt(xp, xq, True)),
    Sel({x, y, z}, Opt(xp, xq, E("eq", <<y, z>>))),
    Sel({x, y, z}, Opt(Opt(xp, xq, E("lt", <<y, N(2)>>)), Bgp(<<<<x, I("e"), x>>>>), True)),
    Sel({x, y, z}, Node2("join", Opt(xp, xq, True), Bgp(<<<<x, I("e"), z>>>>))),
    Sel({x, y, z}, FilterNode(E("bound", <<z>>), Opt(xp, xq, True))),
    Sel({x, y}, Node2("minus", xp, Bgp(<<<<x, I("q"), y>>>>))),
    Sel({x, y}, Node2("minus", xp, xe)),
    Sel({x, y}, Node2("minus", xp, Bgp(<<<<z, I("q"), gn>>>>))),
    Sel({x, y}, Node2("union", xp, Bgp(<<<<x, I("q"), y>>>>))),
    Sel({x, y, z}, Node2("join", Node2("union", xp, xq), xe)),
    Sel({x, y}, FilterNode(E("lt", <<y, N(2)>>), xp)),
    Sel({x, y}, FilterNode(E("le", <<N(2), y>>), xp)),
    Sel({x, y}, FilterNode(E("rand", <<>>), xp)),
    Sel({x, y}, FilterNode(E("and", <<E("ne", <<y, N(2)>>), E("eq", <<x, I("a")>>)>>), xp)),
    Sel({x, y}, FilterNode(E("eq", <<y, N(1)>>), xp)),
    Sel({x, y}, FilterNode(E("eq", <<y, <<"str", 1, 0>>>>), xp)),
    Sel({x, y}, FilterNode(E("in", <<x, I("a"), I("absent"), I("a")>>), xp)),
    Sel({x, y}, FilterNode(E("same", <<x, I("absent")>>), xp)),
    Sel({x, y, z}, FilterNode(E("eq", <<z, I("b")>>), Opt(xp, xe, True))),
    Sel({x, z}, FilterNode(E("label", <<z, <<"str", 1, 0>>>>), xq)),
    Sel({x, y}, Node2("join", Table({x}, <<one(x, I("a")), one(x, I("b"))>>), xp)),
    Sel({x, y}, Node2("join", Table({x}, <<one(x, I("absent")), one(x, I("a"))>>), xp)),
    Sel({x, y, z}, Node2("join", Table({x, z}, <<one(x, I("a")), one(z, I("b"))>>), xp)),
    Slice(Sel({x, y}, Ordered(xp, {y})), 0, 2),
    Slice(Sel({x}, Ordered(Node2("join", Table({x}, <<one(x, I("a"))>>), xp), {y})), 0, 2),
    Sel({x, y, gn}, GraphNode(gn, xp)),
    Sel({x, y}, GraphNode(I("g1"), xp)),
    Sel({x, z, gn}, Node2("join", GraphNode(gn, xe), GraphNode(gn, xp))),
    Sel({x, z}, Node2("join", xp, Walk(x, I("e"), z, "one_or_more", FALSE))),
    Sel({x, z}, Node2("join", xp, Walk(x, I("e"), z, "zero_or_more", TRUE))),
    Sel({x, y, z}, Node2("join", xp, Walk(z, I("e"), x, "zero_or_one", FALSE))),
    Sel({z}, Walk(I("absent"), I("e"), z, "zero_or_more", FALSE)),
    Sel({x, y}, Node2("join", xp, Walk(y, I("none"), z, "zero_or_more", FALSE))),
    Sel({x, z}, Walk(x, I("e"), z, "one_or_more", FALSE)),
    Sel({x, z}, Node2("join", Table({x}, <<one(x, N(9))>>), Walk(x, I("e"), z, "zero_or_more", FALSE))),
    Sel({x, y}, Alt(x, <<I("p"), I("q")>>, y)),
    Sel({x, y}, Node2("join", Sel({x}, Bgp(<<<<x, I("q"), N(1)>>>>)), xp)),
    Sel({x, y}, Node2("join", Sel({x}, xq), xp)),
    Dist(Sel({y}, Bgp(<<<<x, y, z>>>>))),
    Slice(Dist(Sel({y}, Ordered(Bgp(<<<<x, y, z>>>>), {y}))), 0, 2),
    Dist(Sel({y}, Bgp(<<<<x, y, x>>>>))),
    Sel({z}, GroupNode(Node2("join", xp, Bgp(<<<<x, I("e"), gn>>>>)), {})),
    Sel({x, z}, GroupNode(Node2("join", xp, Bgp(<<<<x, I("e"), gn>>>>)), {x})),
    Sel({z}, GroupNode(Bgp(<<<<x, I("none"), y>>, <<x, I("p"), gn>>>>), {})),
    Sel({x, y, z}, Node2("join", xp, Service(Bgp(<<<<y, I("r"), z>>>>)))),
    Sel({x, y, z}, Opt(xp, Service(Bgp(<<<<y, I("r"), z>>>>)), True)),
    Sel({x, z}, Node2("join", Opt(xe, Bgp(<<<<z, I("q"), y>>>>), True), Service(Bgp(<<<<y, I("r"), gn>>>>)))),
    Sel({x}, Bgp(<<<<x, I("rel"), G(1, 1)>>>>)),
    Sel({x}, Bgp(<<<<x, I("disjoint"), G(1, 1)>>>>)),
    Sel({x, y}, Bgp(<<<<x, I("rel"), y>>>>))}

MCCases == {[query |-> Query(p), data |-> d] : p \in Patterns, d \in {Data1, Data2, DataGeo}}

(* A MINUS under DISTINCT, OFFSET, or ORDER BY with LIMIT.                 *)
MinusXq == Node2("minus", xp, Bgp(<<<<x, I("q"), y>>>>))
MCMinusCases ==
    {[query |-> Query(p), data |-> Data1] :
        p \in {Dist(Sel({x}, MinusXq)), Slice(Sel({x, y}, MinusXq), 1, -1),
               Slice(Sel({x, y}, Ordered(MinusXq, {y})), 0, 3)}}
=============================================================================
