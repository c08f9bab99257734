----------------------------- MODULE ShaclTerms ----------------------------
(***************************************************************************)
(* Terms, graphs, shapes graphs and results, as both SHACL evaluators see  *)
(* them: the native one (access.rs and validate.rs of holos-shacl) and the *)
(* engine (model/ and report.rs of holos-shacl-engine).                    *)
(*                                                                         *)
(* A term is <<"iri", n>>, <<"bnode", n>>, <<"triple", s, p, o>> or a      *)
(* literal <<"lit", datatype, value, subtags>>: a number, a text (a        *)
(* sequence of code points), a Boolean; "bad" in place of "lit" when its   *)
(* text, which is then its value, is not one of its datatype.  subtags is  *)
(* the language tag, split at its hyphens (a direction adds an empty       *)
(* subtag and itself).                                                     *)
(*                                                                         *)
(* A data graph is a set of triples.  A shapes graph is a record: decl     *)
(* maps a shape's node to its parameters and their objects, in store       *)
(* order, and notes are the reifiers of its statements.  An object that is *)
(* a blank node with statements of its own is written out: an RDF list is  *)
(* <<"list", members>>, the empty one rdf:nil; a path <<"path", parameter, *)
(* inner>>; a node expression <<"expr", its parameters>>; a query          *)
(* <<"sparql", its parts>>; a rule <<"rule", its parts>>.                  *)
(***************************************************************************)
EXTENDS RdfTerms, Integers, Sequences, FiniteSets, SequencesExt, FiniteSetsExt

Blank(n) == <<"bnode", n>>
Lit(datatype, value) == <<"lit", datatype, value, <<>>>>
Text(chars, subtags) == <<"lit", IF subtags = <<>> THEN "string" ELSE "langString", chars, subtags>>
Num(n) == Lit("integer", n)
Bool(b) == Lit("boolean", b)
True == Bool(TRUE)
None == <<"none">>

ListOf(S) == FoldSet(LAMBDA e, list : Append(list, e), <<>>, S)
Elements(s) == {s[i] : i \in DOMAIN s}
Times(s, x) == Cardinality({i \in DOMAIN s : s[i] = x})
SameBag(s, t) == Len(s) = Len(t) /\ \A x \in Elements(s) : Times(s, x) <= Times(t, x)
EachOf(s, Op(_)) == [i \in DOMAIN s |-> Op(s[i])]

-----------------------------------------------------------------------------
(* Reading a graph.                                                        *)

objects(G, s, p) == {t[3] : t \in {t \in G : t[1] = s /\ t[2] = p}}
subjects(G, p, o) == {t[1] : t \in {t \in G : t[2] = p /\ t[3] = o}}
subjects_of(G, p) == {t[1] : t \in {t \in G : t[2] = p}}
objects_of(G, p) == {t[3] : t \in {t \in G : t[2] = p}}
nodes_of(G) == UNION {{t[1], t[3]} : t \in G}

node_kind(t) ==
    CASE t[1] = "iri" -> "iri" [] t[1] = "bnode" -> "blank"
      [] t[1] = "triple" -> "triple" [] OTHER -> "literal"
is_literal(t) == node_kind(t) = "literal"

(* The objects of a parameter of a shape's node, and the first of them.    *)
Objs(S, n, p) ==
    IF n \in DOMAIN S.decl /\ p \in DOMAIN S.decl[n] THEN S.decl[n][p] ELSE <<>>
Obj(S, n, p) == IF Objs(S, n, p) = <<>> THEN None ELSE Objs(S, n, p)[1]
Flag(S, n, p) == Obj(S, n, p) = True

list(t) == IF t[1] = "list" THEN t[2] ELSE <<>>
(* An object that may be one term or a list of alternatives.               *)
one_or_list(t) == IF t[1] = "list" THEN IF t[2] = <<>> THEN <<Nil>> ELSE t[2] ELSE <<t>>

(* Classes reached over rdfs:subClassOf, downwards or upwards.             *)
RECURSIVE up(_, _, _)
up(G, from, down) ==
    LET next == from \cup UNION {IF down THEN subjects(G, SubClassOf, c) ELSE objects(G, c, SubClassOf) : c \in from}
    IN  IF next = from THEN from ELSE up(G, next, down)

-----------------------------------------------------------------------------
(* Values.                                                                 *)

datatype_of(t) == IF is_literal(t) THEN Iri(t[2]) ELSE None
well_formed(t) == t[1] # "bad"
language_of(t) == IF is_literal(t) THEN t[4] ELSE <<>>

(* The text of a literal; numbers have one digit here.                     *)
Lexical(t) ==
    CASE t[1] = "bad" \/ t[2] \in {"string", "langString"} -> t[3]
      [] t[2] = "boolean" -> IF t[3] THEN <<116, 114, 117, 101>> ELSE <<102, 97, 108, 115, 101>>
      [] OTHER -> <<48 + t[3]>>

RECURSIVE text_cmp(_, _)
text_cmp(a, b) ==
    CASE a = b -> "eq" [] a = <<>> -> "lt" [] b = <<>> -> "gt"
      [] a[1] # b[1] -> IF a[1] < b[1] THEN "lt" ELSE "gt"
      [] OTHER -> text_cmp(Tail(a), Tail(b))
int_cmp(a, b) == IF a = b THEN "eq" ELSE IF a < b THEN "lt" ELSE "gt"
Numeric == {"integer", "decimal"}

(* Length and pattern ask for a text: a blank node has none.               *)
HasText(t) == node_kind(t) \in {"iri", "literal"}
length(t) == IF t[1] = "iri" THEN Len(t[2]) ELSE Len(Lexical(t))
(* A pattern is <<"regex", the terms whose text it matches, compiles>>.    *)
matches(regex, t) == t \in regex[2]
(* A language range is <<"range", subtags>>.                               *)

compound(p) == p[1] # "pred"

-----------------------------------------------------------------------------
(* Results.  The kind of a constraint stands for its component.            *)

Result(focus, path, value, shape, comp, severity, by, details) ==
    [focus |-> focus, path |-> path, value |-> value, shape |-> shape, component |-> comp,
     severity |-> severity, by |-> by, details |-> details]

(* An error ends the whole validation.                                     *)
Abort == Result(None, None, None, None, "error", None, None, {})
Aborted(results) == \E i \in DOMAIN results : results[i] = Abort

Verdict(results) == IF results = <<>> THEN "holds" ELSE IF Aborted(results) THEN "error" ELSE "fails"
(* Verdicts asked one after another, until one is not the expected one.    *)
Until(verdicts, expected) ==
    LET at == {i \in DOMAIN verdicts : verdicts[i] # expected}
    IN  IF at = {} THEN expected ELSE verdicts[Min(at)]
Opposite(verdict) == IF verdict = "holds" THEN "fails" ELSE IF verdict = "fails" THEN "holds" ELSE verdict
IfSo(ok) == IF ok THEN "holds" ELSE "fails"
Keep(ok, r) == IF ok THEN <<>> ELSE <<r>>

(* One result for each value the verdict on which is "fails".              *)
PerValue(values, V(_), At(_)) ==
    FlattenSeq(EachOf(values, LAMBDA v :
        LET x == V(v) IN IF x = "holds" THEN <<>> ELSE IF x = "error" THEN <<Abort>> ELSE <<At(v)>>))
Once(x, r) == IF x = "holds" THEN <<>> ELSE IF x = "error" THEN <<Abort>> ELSE <<r>>
ExactlyOne(xs) == IF \E i \in DOMAIN xs : xs[i] = "error" THEN "error" ELSE IfSo(Times(xs, "holds") = 1)
=============================================================================
