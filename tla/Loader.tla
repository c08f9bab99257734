------------------------------- MODULE Loader -------------------------------
(***************************************************************************)
(* Loading RDF (engine lib.rs, load_parsed): one thread parses and sends   *)
(* batches down a bounded channel, the calling thread inserts.  The load   *)
(* stands alone (bulk_load, bulk_load_into_graph) or fills a graph that    *)
(* exists only for one call (with_transient_graph), inside a commit scope  *)
(* that is always rolled back.                                             *)
(***************************************************************************)
EXTENDS Naturals, Sequences, FiniteSets, SequencesExt

CONSTANTS
    Triples,       \* what a quad says, its graph apart
    Names,         \* the transient graph's candidate names, a sequence
    Batch, Queue,  \* PARSE_BATCH, PARSE_QUEUE
    MaxDocument    \* BOUND: quads of a document

ASSUME LoaderAssumption == {Batch, Queue, MaxDocument} \subseteq Nat \ {0} /\ IsFiniteSet(Triples)

\* The candidates do not run out (urn:holos:transient, urn:holos:transient:1, ...), and no
\* document names one of them.
ASSUME NameAssumption ==
    /\ Names \in Seq(STRING) /\ Len(Names) > 1 /\ Names[1] # Names[2]
    /\ \A i \in DOMAIN Names : Names[i] # "other"

(* A document: quads, in the default graph or in a graph they name, and    *)
(* perhaps a place where it does not parse.                                *)
Bad == [g |-> "none", t |-> "none"]
Default == "default"
QuadIn(g, t) == [g |-> g, t |-> t]
Documents == SeqOf({QuadIn(g, t) : g \in {Default, "other"}, t \in Triples} \cup {Bad},
                   MaxDocument)

VARIABLES
    doc, mode,              \* "bulk", "graph" or "transient"
    contents,               \* the quads of the store
    terms,                  \* the names its dictionary knows
    before,                 \* the store as the call found it
    scope,                  \* a commit scope is open
    name,                   \* the graph the load fills
    parsed, batch, parser,  \* the parse thread
    chan, hungup,           \* the channel; the receiver is gone
    todo,                   \* the batch being inserted
    n, inserted,            \* new quads; history: what was offered to the store
    seen,                   \* what the caller's function saw of the graph
    stage, outcome

parsev == <<parsed, batch, parser>>
loader_vars == <<doc, mode, contents, terms, before, scope, name, parsev, chan, hungup,
          todo, n, inserted, seen, stage, outcome>>

-----------------------------------------------------------------------------
(* The parse thread                                                        *)

ParseUnchanged == UNCHANGED <<doc, mode, contents, terms, before, scope, name, todo,
                              n, inserted, seen, stage, outcome>>

(* A quad joins the batch; a quad that does not parse goes down the        *)
(* channel as the error it is.                                             *)
Parse ==
    /\ parser = "parsing" /\ Len(batch) < Batch
    /\ IF parsed = Len(doc)
       THEN parser' = (IF batch = <<>> THEN "ended" ELSE "tail") /\ UNCHANGED <<parsed, batch>>
       ELSE /\ parsed' = parsed + 1
            /\ IF doc[parsed + 1] = Bad
               THEN parser' = "error" /\ UNCHANGED batch
               ELSE batch' = Append(batch, doc[parsed + 1]) /\ UNCHANGED parser
    /\ UNCHANGED <<chan, hungup>> /\ ParseUnchanged

(* A send waits for room; with the receiver gone it fails and the thread   *)
(* returns.  Whatever is sent as an error or as the tail is the last.      *)
M_Send_drops_tail ==
    /\ parser \in {"error", "tail"} \/ (parser = "parsing" /\ Len(batch) = Batch)
    /\ \/ hungup /\ parser' = "ended" /\ UNCHANGED <<chan, batch>>
       \/ /\ ~hungup /\ Len(chan) < Queue
          /\ chan' = CASE parser = "tail" -> chan
                       [] parser = "error" -> Append(chan, <<Bad>>)
                       [] OTHER -> Append(chan, batch)
          /\ batch' = <<>>
          /\ parser' = IF parser = "parsing" THEN "parsing" ELSE "ended"
    /\ UNCHANGED <<parsed, hungup>> /\ ParseUnchanged

M_Send_blind ==
    /\ parser \in {"error", "tail"} \/ (parser = "parsing" /\ Len(batch) = Batch)
    /\ Len(chan) < Queue
    /\ chan' = Append(chan, IF parser = "error" THEN <<Bad>> ELSE batch)
    /\ batch' = <<>>
    /\ parser' = IF parser = "parsing" THEN "parsing" ELSE "ended"
    /\ UNCHANGED <<parsed, hungup>> /\ ParseUnchanged

Send ==
    /\ parser \in {"error", "tail"} \/ (parser = "parsing" /\ Len(batch) = Batch)
    /\ \/ hungup /\ parser' = "ended" /\ UNCHANGED <<chan, batch>>
       \/ /\ ~hungup /\ Len(chan) < Queue
          /\ chan' = Append(chan, IF parser = "error" THEN <<Bad>> ELSE batch)
          /\ batch' = <<>>
          /\ parser' = IF parser = "parsing" THEN "parsing" ELSE "ended"
    /\ UNCHANGED <<parsed, hungup>> /\ ParseUnchanged

-----------------------------------------------------------------------------
(* The calling thread                                                      *)

CallUnchanged == UNCHANGED <<doc, mode, before>>

(* A name nothing in the store uses, not even as a term.                   *)
FreshName == LET free == {i \in DOMAIN Names : Names[i] \notin terms}
             IN  Names[CHOOSE i \in free : \A j \in free : i <= j]

(* The call begins: a transient graph gets its name and its scope.         *)
Begin ==
    /\ stage = "idle"
    /\ name' = CASE mode = "bulk" -> Default [] mode = "graph" -> "target"
                 [] mode = "transient" -> FreshName
    /\ scope' = (mode = "transient")
    /\ terms' = IF mode = "transient" THEN terms \cup {name'} ELSE terms
    /\ parser' = "parsing" /\ stage' = "load"
    /\ UNCHANGED <<contents, parsed, batch, chan, hungup, todo, n, inserted, seen, outcome>>
    /\ CallUnchanged

(* The scope joins the parse thread before the load returns.               *)
Leave(o) ==
    /\ hungup' = TRUE /\ chan' = <<>> /\ todo' = <<>>
    /\ stage' = "join" /\ outcome' = o

(* The next batch; the channel is over when it is empty and its sender is  *)
(* gone; a parse error ends the load.                                      *)
Receive ==
    /\ stage = "load" /\ todo = <<>>
    /\ \/ /\ chan # <<>> /\ Head(chan) # <<Bad>>
          /\ todo' = Head(chan) /\ chan' = Tail(chan)
          /\ UNCHANGED <<hungup, stage, outcome>>
       \/ chan # <<>> /\ Head(chan) = <<Bad>> /\ Leave("parse")
       \/ chan = <<>> /\ parser = "ended" /\ Leave("ok")
    /\ UNCHANGED <<contents, terms, scope, name, parsev, n, inserted, seen>>
    /\ CallUnchanged

(* Where a quad lands: one that names its graph keeps it.                  *)
Placed(q) == IF q.g = Default THEN QuadIn(name, q.t) ELSE q

(* One quad offered to the store, counted if it was new; or refused.       *)
Insert ==
    /\ stage = "load" /\ todo # <<>>
    /\ LET q == Placed(Head(todo))
       IN  \/ /\ contents' = contents \cup {q}
              /\ n' = IF q \in contents THEN n ELSE n + 1
              /\ inserted' = Append(inserted, q) /\ todo' = Tail(todo)
              /\ terms' = terms \cup {q.g}
              /\ UNCHANGED <<chan, hungup, stage, outcome>>
           \/ /\ Leave("storage")
              /\ UNCHANGED <<contents, terms, n, inserted>>
    /\ UNCHANGED <<scope, name, parsev, seen>>
    /\ CallUnchanged

(* The load is over.  A transient graph is handed to the caller's function *)
(* if it loaded, and rolled back if not.                                   *)
Join ==
    /\ stage = "join" /\ parser = "ended"
    /\ IF mode # "transient"
       THEN stage' = "done" /\ UNCHANGED <<contents, terms, scope>>
       ELSE IF outcome = "ok"
       THEN stage' = "call" /\ UNCHANGED <<contents, terms, scope>>
       ELSE /\ stage' = "done" /\ scope' = FALSE
            /\ contents' = before.contents /\ terms' = before.terms
    /\ UNCHANGED <<name, parsev, chan, hungup, todo, n, inserted, seen, outcome>>
    /\ CallUnchanged

(* The function reads the graph, and returns or panics: either way the     *)
(* scope is rolled back.                                                   *)
Call ==
    /\ stage = "call"
    /\ seen' = {q.t : q \in {x \in contents : x.g = name}}
    /\ outcome' \in {"ok", "panic"}
    /\ scope' = FALSE /\ contents' = before.contents /\ terms' = before.terms
    /\ stage' = "done"
    /\ UNCHANGED <<name, parsev, chan, hungup, todo, n, inserted>>
    /\ CallUnchanged

-----------------------------------------------------------------------------
(* The store may hold a graph of the first transient name that an earlier  *)
(* version left behind.                                                    *)
LoaderInit ==
    /\ doc \in Documents /\ mode \in {"bulk", "graph", "transient"}
    /\ contents \in {{}, {QuadIn(Names[1], t) : t \in Triples}}
    /\ terms = {q.g : q \in contents}
    /\ before = [contents |-> contents, terms |-> terms]
    /\ scope = FALSE /\ name = "none"
    /\ parsed = 0 /\ batch = <<>> /\ parser = "none"
    /\ chan = <<>> /\ hungup = FALSE /\ todo = <<>>
    /\ n = 0 /\ inserted = <<>> /\ seen = {}
    /\ stage = "idle" /\ outcome = "none"

Caller == Begin \/ Receive \/ Insert \/ Join \/ Call
Parser == Parse \/ Send
LoaderNext == Caller \/ Parser

LoaderFairness == WF_loader_vars(Caller) /\ WF_loader_vars(Parser)

LoaderSpec == LoaderInit /\ [][LoaderNext]_loader_vars /\ LoaderFairness

-----------------------------------------------------------------------------
Range2(s) == {s[i] : i \in DOMAIN s}

(* A load that reports no error has given the store the whole document, in *)
(* the order of the file whatever the threads do (load_parsed: "ids are    *)
(* still issued in file order"), and counted what the store grew by: no    *)
(* place that does not parse is passed over.  A transient graph holds the  *)
(* document's own triples and nothing else, even where an earlier version  *)
(* left a graph of that name behind, and after the call, a failure or a    *)
(* panic included, the store is as it was found.                           *)
LoadExact ==
    stage = "done" =>
        /\ outcome \in {"ok", "panic"} =>
              inserted = [i \in 1..Len(doc) |-> Placed(doc[i])] /\ Bad \notin Range2(doc)
        /\ mode # "transient" =>
              /\ contents = before.contents \cup Range2(inserted)
              /\ n = Cardinality(contents) - Cardinality(before.contents)
        /\ mode = "transient" =>
              /\ contents = before.contents /\ terms = before.terms /\ ~scope
              /\ outcome = "ok" => seen = {q.t : q \in {x \in Range2(doc) : x.g = Default}}

(* Every call returns, with its parse thread gone: a parser waiting for    *)
(* room is released by the receiver that hung up.                          *)
LoadReturns == <>(stage = "done" /\ parser = "ended")
=============================================================================
