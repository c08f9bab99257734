------------------------------ MODULE RdfTerms -----------------------------
(* IRIs, and those that the SHACL evaluators and the run that is kept in   *)
(* step with the store know by name (the vocabulary of holos-shacl-engine).*)

Iri(n) == <<"iri", n>>

Type == Iri("type")
SubClassOf == Iri("subClassOf")
First == Iri("first")
Rest == Iri("rest")
Nil == Iri("nil")
Reifies == Iri("reifies")
ShapeOf == Iri("shape")             \* sh:shape, said of a data node
=============================================================================
