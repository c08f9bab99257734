---------------------------- MODULE EngineProofs ----------------------------
(***************************************************************************)
(* That a query which was stopped says why and one which succeeds is       *)
(* complete, for any number of rows, any limits and whatever the           *)
(* neighbours allocate; that a load which succeeds has loaded its          *)
(* document, for any batch and queue; that the graph the SHACL engine      *)
(* keeps is the store's.                                                   *)
(***************************************************************************)
EXTENDS Loader, QueryLife, EngineRun, FiniteSetTheorems, SequenceTheorems, WellFoundedInduction, TLAPS

\* The types the arguments below need.
Typed ==
    /\ opts \in Options /\ shape \in Shapes
    /\ error \in {"none", "Cancelled", "OverCeiling"}
    /\ {cursor, read, buffered, out, other, resting, ceiling} \subseteq Nat

\* A guard is made once, after everything that runs without one.
Unwatched == {"boot", "start", "admit", "guard", "list", "dedup"}

\* The reason is on record before the token is cancelled, and is never changed.
GuardInv ==
    /\ trip \in {"none", "Timeout", "Memory"}
    /\ trip # "none" => watch \in {"trip", "ended"}
    /\ watch = "trip" \/ token => trip # "none"
    /\ place \in Unwatched => watch = "off" /\ ~token /\ trip = "none"
    /\ error = "Cancelled" => token

StoppedInv ==
    /\ GuardInv
    /\ place \in {"sorter", "merge"} => shape = "sort" /\ opts.spill
    /\ place = "ids" => shape = "topk" /\ joins /\ opts.plain
    /\ answer # "running" => place = "end"
    /\ place = "end" => done = (watch # "off")
    /\ StoppedSaysWhy

\* Every row taken is of the scan that runs now, and rows that wait to be
\* delivered are all there are.
CompleteInv ==
    /\ read = cursor
    /\ place \in {"merge", "held"} => read = Rows
    /\ answer = "ok" => place = "end"
    /\ SuccessComplete

USE DEF query, guardv, rowv, memv, Goto, Finish, Row, Fall, GivesUp

-----------------------------------------------------------------------------
\* No step leaves the types.
LEMMA TypedKept ==
    ASSUME Typed, [QueryNext]_query_vars
    PROVE  Typed'
<1> USE QueryLifeAssumption DEF Typed
<1>1. CASE set_ceiling
  BY <1>1 DEF set_ceiling, live_bytes
<1>2. CASE Start \/ Admit \/ guard \/ route
  BY <1>2 DEF Start, Admit, guard, route
<1>3. CASE try_bind_join \/ group_materialised
  BY <1>3 DEF try_bind_join, group_materialised
<1>4. CASE top_k \/ Unguarded
  BY <1>4 DEF top_k, Unguarded
<1>5. CASE evaluate_with \/ guard_with_deadline \/ Withhold \/ Drained
  BY <1>5 DEF evaluate_with, guard_with_deadline, Withhold, Drained, ReadError
<1>6. CASE Deliver \/ EndOfRows \/ Merge \/ Held \/ Abandon
  BY <1>6 DEF Deliver, EndOfRows, Merge, Held, Abandon
<1>7. CASE Sample \/ Cancel \/ Expire
  BY <1>7 DEF Sample, Cancel, Expire
<1>8. CASE Neighbour
  BY <1>8 DEF Neighbour
<1>9. CASE UNCHANGED query_vars
  BY <1>9 DEF query_vars
<1> QED
  BY <1>1, <1>2, <1>3, <1>4, <1>5, <1>6, <1>7, <1>8, <1>9 DEF QueryNext, Thread, Watchdog

\* No step of the query, its watchdog or its neighbours separates a
\* cancellation from its reason.
LEMMA StoppedKept ==
    ASSUME Typed, StoppedInv, [QueryNext]_query_vars
    PROVE  StoppedInv'
<1> USE DEF Typed, StoppedInv, GuardInv, StoppedSaysWhy, Unwatched
<1>1. CASE set_ceiling
  BY <1>1 DEF set_ceiling
<1>2. CASE Start \/ Admit \/ guard \/ route
  BY <1>2 DEF Start, Admit, guard, route
<1>3. CASE try_bind_join
  BY <1>3 DEF try_bind_join
<1>4. CASE group_materialised
  BY <1>4 DEF group_materialised
<1>5. CASE top_k
  <2>1. shape = "topk" /\ joins /\ opts.plain
    BY <1>5 DEF top_k
  <2>2. CASE Finish(cancellation)
    <3>1. CASE trip = "none"
      BY <1>5, <2>1, <2>2, <3>1 DEF top_k, cancellation
    <3>2. CASE trip # "none"
      BY <1>5, <2>2, <3>2 DEF top_k, cancellation
    <3> QED
      BY <3>1, <3>2
  <2>3. CASE Finish("OverCeiling")
    BY <1>5, <2>3 DEF top_k
  <2>4. CASE Row(TRUE)
    BY <1>5, <2>4 DEF top_k
  <2>5. CASE place' = "held" /\ done' = (watch # "off") /\ UNCHANGED <<query, rowv, answer, guardv, late, memv>>
    BY <1>5, <2>5 DEF top_k
  <2> QED
    BY <1>5, <2>2, <2>3, <2>4, <2>5 DEF top_k
<1>6. CASE Unguarded
  BY <1>6 DEF Unguarded
<1>7. CASE evaluate_with \/ Drained
  BY <1>7 DEF evaluate_with, Drained, ReadError, EvaluatorStages
<1>8. CASE guard_with_deadline \/ Withhold
  BY <1>8 DEF guard_with_deadline, Withhold, EvaluatorStages, cancellation, explain
<1>9. CASE Deliver \/ EndOfRows \/ Held \/ Abandon
  BY <1>9 DEF Deliver, EndOfRows, Held, Abandon
<1>10. CASE Merge
  BY <1>10 DEF Merge
<1>11. CASE Sample
  <2>1. ~done => place # "end" /\ answer = "running"
    BY <1>11 DEF Sample
  <2> QED
    BY <1>11, <2>1 DEF Sample
<1>12. CASE Cancel \/ Expire
  BY <1>12 DEF Cancel, Expire
<1>13. CASE Neighbour
  BY <1>13 DEF Neighbour
<1>14. CASE UNCHANGED query_vars
  BY <1>14 DEF query_vars
<1> QED
  BY <1>1, <1>2, <1>3, <1>4, <1>5, <1>6, <1>7, <1>8, <1>9, <1>10, <1>11, <1>12, <1>13, <1>14 DEF QueryNext, Thread, Watchdog

\* No path of the pipeline reports success with rows missing.
LEMMA CompleteKept ==
    ASSUME Typed, GuardInv, CompleteInv, [QueryNext]_query_vars
    PROVE  CompleteInv'
<1> USE DEF CompleteInv, SuccessComplete, GuardInv
<1>1. CASE set_ceiling
  BY <1>1 DEF set_ceiling
<1>2. CASE Start \/ Admit \/ guard \/ route
  BY <1>2 DEF Start, Admit, guard, route
<1>3. CASE try_bind_join \/ group_materialised
  BY <1>3 DEF try_bind_join, group_materialised
<1>4. CASE top_k \/ Unguarded
  BY <1>4 DEF top_k, Unguarded, cancellation
<1>5. CASE evaluate_with \/ Drained
  BY <1>5 DEF evaluate_with, Drained, EvaluatorStages
<1>6. CASE guard_with_deadline \/ Withhold
  BY <1>6 DEF Typed, guard_with_deadline, Withhold, EvaluatorStages, cancellation, explain
<1>7. CASE Deliver \/ EndOfRows \/ Merge \/ Held \/ Abandon
  BY <1>7 DEF Deliver, EndOfRows, Merge, Held, Abandon
<1>8. CASE Sample \/ Cancel \/ Expire
  BY <1>8 DEF Sample, Cancel, Expire
<1>9. CASE Neighbour
  BY <1>9 DEF Neighbour
<1>10. CASE UNCHANGED query_vars
  BY <1>10 DEF query_vars
<1> QED
  BY <1>1, <1>2, <1>3, <1>4, <1>5, <1>6, <1>7, <1>8, <1>9, <1>10 DEF QueryNext, Thread, Watchdog

-----------------------------------------------------------------------------
\* The engine's figures keep their types, whatever the threads do.
LEMMA TypesHold == QuerySpec => []Typed
<1>1. QueryInit => Typed
  BY QueryLifeAssumption DEF QueryInit, Typed
<1> QED
  BY <1>1, TypedKept, PTL DEF QuerySpec

\* A query its guard stopped tells the client which limit it was, wherever the
\* watchdog and the query's thread are when the limit is reached (options.rs,
\* cancellation): the reason is on record before the token can be seen.
THEOREM StoppedAlwaysSaysWhy == QuerySpec => []StoppedSaysWhy
<1>1. QueryInit => StoppedInv
  BY DEF QueryInit, StoppedInv, GuardInv, StoppedSaysWhy, Unwatched
<1>2. StoppedInv => StoppedSaysWhy
  BY DEF StoppedInv
<1> QED
  BY <1>1, <1>2, TypesHold, StoppedKept, PTL DEF QuerySpec

\* The guard's part of it, for the theorem that follows.
LEMMA GuardHolds == QuerySpec => []GuardInv
<1>1. QueryInit => StoppedInv
  BY DEF QueryInit, StoppedInv, GuardInv, StoppedSaysWhy, Unwatched
<1>2. StoppedInv => GuardInv
  BY DEF StoppedInv
<1> QED
  BY <1>1, <1>2, TypesHold, StoppedKept, PTL DEF QuerySpec

\* A query that reports success has delivered every row, whichever of the
\* paths of Engine::run were tried and given up before.
THEOREM SuccessAlwaysComplete == QuerySpec => []SuccessComplete
<1>1. QueryInit => CompleteInv
  BY DEF QueryInit, CompleteInv, SuccessComplete
<1>2. CompleteInv => SuccessComplete
  BY DEF CompleteInv
<1> QED
  BY <1>1, <1>2, TypesHold, GuardHolds, CompleteKept, PTL DEF QuerySpec

-----------------------------------------------------------------------------
(* Loading                                                                 *)

\* What parses.
Good == {QuadIn(g, t) : g \in {Default, "other"}, t \in Triples}

\* Where a quad may land.
GraphName == {"none", Default, "other", "target"} \cup {Names[i] : i \in DOMAIN Names}

\* The types the argument about a load needs.
LoadTyped ==
    /\ doc \in Seq(Good \cup {Bad}) /\ mode \in {"bulk", "graph", "transient"}
    /\ parsed \in 0 .. Len(doc) /\ batch \in Seq(Good) /\ todo \in Seq(Good)
    /\ chan \in Seq(Seq(Good) \cup {<<Bad>>})
    /\ parser \in {"none", "parsing", "error", "tail", "ended"}
    /\ stage \in {"idle", "load", "join", "call", "done"}
    /\ outcome \in {"none", "ok", "parse", "storage", "panic"} /\ name \in GraphName

\* The store has grown by what was offered to it, and by no more than was counted.
StoreInv ==
    /\ IsFiniteSet(before.contents) /\ IsFiniteSet(contents)
    /\ inserted \in Seq([g : GraphName, t : Triples]) /\ n \in Nat
    /\ stage = "idle" => /\ inserted = <<>> /\ ~scope /\ seen = {}
                         /\ terms = {q.g : q \in contents} /\ \A q \in contents : q.g = Names[1]
    /\ stage = "done" /\ mode = "transient" =>
          contents = before.contents /\ terms = before.terms /\ ~scope
    /\ stage # "done" \/ mode # "transient" =>
          /\ contents = before.contents \cup Range2(inserted)
          /\ n = Cardinality(contents) - Cardinality(before.contents)

\* A transient graph was empty when it was named.
FreshInv ==
    stage # "idle" /\ mode = "transient" =>
        name # "other" /\ \A q \in before.contents : q.g # name

\* The channel holds consecutive pieces of the document, from where the batch being inserted
\* ends to where the batch being parsed begins; an error is the last thing in it.
Lined(at) ==
    /\ at \in [1 .. Len(chan) + 1 -> Nat]
    /\ at[1] = Len(inserted) + Len(todo)
    /\ \A i \in 1 .. Len(chan) : chan[i] # <<Bad>> =>
          /\ at[i + 1] = at[i] + Len(chan[i])
          /\ \A k \in 1 .. Len(chan[i]) : chan[i][k] = doc[at[i] + k]
    /\ \A i \in 1 .. Len(chan) : chan[i] = <<Bad>> => i = Len(chan) /\ parser = "ended"
    /\ parser \in {"parsing", "tail"} \/ (parser = "ended" /\ \A i \in 1 .. Len(chan) : chan[i] # <<Bad>>) =>
          /\ at[Len(chan) + 1] + Len(batch) = parsed
          /\ \A k \in 1 .. Len(batch) : batch[k] = doc[at[Len(chan) + 1] + k]
          /\ \A k \in 1 .. parsed : doc[k] # Bad
          /\ parser # "parsing" => parsed = Len(doc)
          /\ parser = "ended" => batch = <<>>

Whole == inserted = [i \in 1 .. Len(doc) |-> Placed(doc[i])] /\ Bad \notin Range2(doc)

\* What has been inserted is the beginning of the document, and what waits is the rest.
PipeInv ==
    /\ stage = "idle" => parser = "none" /\ parsed = 0 /\ batch = <<>> /\ chan = <<>> /\ todo = <<>> /\ ~hungup
    /\ stage = "load" =>
          /\ ~hungup /\ parser # "none" /\ \E at : Lined(at)
          /\ \A k \in 1 .. Len(inserted) : inserted[k] = Placed(doc[k])
          /\ \A k \in 1 .. Len(todo) : todo[k] = doc[Len(inserted) + k]
    /\ stage \in {"join", "call", "done"} =>
          hungup /\ (outcome \in {"ok", "panic"} => Whole)
    /\ stage = "call" => outcome = "ok" /\ mode = "transient"
    /\ stage = "join" => outcome # "panic"
    /\ stage = "done" /\ mode = "transient" /\ outcome = "ok" =>
          seen = {q.t : q \in {x \in Range2(doc) : x.g = Default}}

\* What parses is not what does not.
LEMMA GoodIsGood == Bad \notin Good /\ Good \subseteq [g : GraphName, t : Triples]
<1>1. ASSUME NEW q \in Good PROVE q # Bad /\ q \in [g : GraphName, t : Triples]
  <2>1. PICK g \in {Default, "other"}, t \in Triples : q = [g |-> g, t |-> t]
    BY <1>1 DEF Good, QuadIn
  <2>2. g \in GraphName /\ g # "none"
    BY DEF Default, GraphName
  <2>3. q.g = g /\ Bad.g = "none"
    BY <2>1 DEF Bad
  <2> QED
    BY <2>1, <2>2, <2>3
<1> QED
  BY <1>1

\* A document is a sequence.
LEMMA DocumentsAre == Documents \subseteq Seq(Good \cup {Bad})
<1> DEFINE S == Good \cup {Bad}
<1>1. Documents = SeqOf(S, MaxDocument)
  BY DEF Documents, Good
<1> HIDE DEF S
<1>2. ASSUME NEW d \in SeqOf(S, MaxDocument) PROVE d \in Seq(S)
  <2>1. PICK m \in 0 .. MaxDocument : d \in [1 .. m -> S]
    BY <1>2 DEF SeqOf
  <2>2. m \in Nat
    BY <2>1, LoaderAssumption
  <2> QED
    BY <2>1, <2>2
<1> QED
  BY <1>1, <1>2 DEF S

\* A quad lands in some graph.
LEMMA PlacedType ==
    ASSUME NEW q \in Good, name \in GraphName
    PROVE  Placed(q) \in [g : GraphName, t : Triples]
BY GoodIsGood DEF Placed, QuadIn

\* A sequence may grow, and begins with nothing.
LEMMA AppendType ==
    ASSUME NEW S
    PROVE  /\ <<>> \in Seq(S)
           /\ \A s \in Seq(S), x \in S : Append(s, x) \in Seq(S)
OBVIOUS

\* What the range of a sequence becomes when it grows.
LEMMA RangeGrows ==
    ASSUME NEW S, NEW s \in Seq(S), NEW x \in S
    PROVE  Range2(Append(s, x)) = Range2(s) \cup {x}
<1>1. /\ Append(s, x) \in Seq(S) /\ Len(Append(s, x)) = Len(s) + 1
      /\ Append(s, x)[Len(s) + 1] = x /\ \A i \in 1 .. Len(s) : Append(s, x)[i] = s[i]
  OBVIOUS
<1>2. DOMAIN Append(s, x) = 1 .. Len(s) + 1 /\ DOMAIN s = 1 .. Len(s) /\ Len(s) \in Nat
  BY <1>1
<1> QED
  BY <1>1, <1>2 DEF Range2

\* The graph an earlier version may have left is finite.
LEMMA LeftFinite == IsFiniteSet({QuadIn(Names[1], t) : t \in Triples})
<1> DEFINE T == {QuadIn(Names[1], t) : t \in Triples}
           f == [t \in Triples |-> QuadIn(Names[1], t)]
<1>1. f \in Surjection(Triples, T)
  BY DEF Surjection
<1> HIDE DEF f
<1>2. IsFiniteSet(T)
  BY <1>1, LoaderAssumption, FS_Surjection
<1> QED
  BY <1>2

\* A name is always found, and it is nobody's.
LEMMA FreshNameIs ==
    ASSUME \A x \in terms : x = Names[1]
    PROVE  FreshName \notin terms /\ FreshName \in GraphName /\ FreshName # "other"
<1> DEFINE free == {i \in DOMAIN Names : Names[i] \notin terms}
           least == CHOOSE i \in free : \A j \in free : i <= j
<1>1. DOMAIN Names = 1 .. Len(Names) /\ Len(Names) \in Nat
  BY NameAssumption
<1>2. 2 \in free
  BY <1>1, NameAssumption
<1>3. \E i \in free : \A j \in free : i <= j
  <2>1. CASE 1 \in free
    BY <1>1, <2>1
  <2>2. CASE 1 \notin free
    BY <1>1, <1>2, <2>2
  <2> QED
    BY <2>1, <2>2
<1>4. least \in free
  BY <1>3
<1>5. FreshName = Names[least]
  BY DEF FreshName
<1> HIDE DEF least
<1> QED
  BY <1>1, <1>4, <1>5, NameAssumption DEF GraphName

\* Begin: the name, whatever the load is for.
LEMMA NamedIs ==
    ASSUME LoadTyped, StoreInv, Begin
    PROVE  /\ name' \in GraphName
           /\ mode = "transient" => name' # "other" /\ \A q \in before.contents : q.g # name'
<1>1. /\ stage = "idle"
      /\ name' = CASE mode = "bulk" -> Default [] mode = "graph" -> "target" [] mode = "transient" -> FreshName
  BY DEF Begin
<1>2. /\ inserted = <<>> /\ terms = {q.g : q \in contents} /\ \A q \in contents : q.g = Names[1]
      /\ contents = before.contents \cup Range2(inserted)
  BY <1>1 DEF StoreInv
<1>3. FreshName \notin terms /\ FreshName \in GraphName /\ FreshName # "other"
  BY <1>2, FreshNameIs
<1>4. before.contents \subseteq contents
  BY <1>2
<1>5. CASE mode = "bulk"
  <2>1. name' = "default"
    BY <1>1, <1>5 DEF Default
  <2> QED
    BY <1>5, <2>1 DEF GraphName, Default
<1>6. CASE mode = "graph"
  <2>1. name' = "target"
    BY <1>1, <1>6
  <2> QED
    BY <1>6, <2>1 DEF GraphName
<1>7. CASE mode = "transient"
  <2>1. name' = FreshName
    BY <1>1, <1>7
  <2> QED
    BY <1>2, <1>3, <1>4, <2>1
<1> QED
  BY <1>5, <1>6, <1>7 DEF LoadTyped

\* The beginning.
LEMMA InitLoad == LoaderInit => LoadTyped /\ StoreInv /\ FreshInv /\ PipeInv
<1> SUFFICES ASSUME LoaderInit PROVE LoadTyped /\ StoreInv /\ FreshInv /\ PipeInv
  OBVIOUS
<1>1. /\ doc \in Seq(Good \cup {Bad}) /\ mode \in {"bulk", "graph", "transient"}
      /\ parsed = 0 /\ batch = <<>> /\ todo = <<>> /\ chan = <<>> /\ parser = "none" /\ name = "none"
      /\ stage = "idle" /\ outcome = "none" /\ hungup = FALSE /\ scope = FALSE
      /\ n = 0 /\ inserted = <<>> /\ seen = {} /\ terms = {q.g : q \in contents} /\ before.contents = contents
      /\ contents \in {{}, {QuadIn(Names[1], t) : t \in Triples}}
  BY DocumentsAre DEF LoaderInit
<1>2. LoadTyped
  <2>1. <<>> \in Seq(Good) /\ <<>> \in Seq(Seq(Good) \cup {<<Bad>>})
    OBVIOUS
  <2>2. 0 \in 0 .. Len(doc) /\ "none" \in GraphName
    BY <1>1 DEF GraphName
  <2> QED
    BY <1>1, <2>1, <2>2 DEF LoadTyped
<1>3. IsFiniteSet(contents) /\ \A q \in contents : q.g = Names[1]
  <2> DEFINE T == {QuadIn(Names[1], t) : t \in Triples}
  <2>1. IsFiniteSet(T) /\ IsFiniteSet({})
    BY LeftFinite, FS_EmptySet
  <2>2. \A q \in T : q.g = Names[1]
    BY DEF QuadIn
  <2> HIDE DEF T
  <2>3. contents = {} \/ contents = T
    BY <1>1 DEF T
  <2> QED
    BY <2>1, <2>2, <2>3
<1>4. Cardinality(contents) \in Nat
  BY <1>3, FS_CardinalityType
<1>5. Range2(inserted) = {}
  BY <1>1 DEF Range2
<1>6. StoreInv
  BY <1>1, <1>3, <1>4, <1>5 DEF StoreInv
<1> QED
  BY <1>1, <1>2, <1>6 DEF FreshInv, PipeInv

\* The types are kept.
LEMMA NextLoadTyped ==
    ASSUME LoadTyped, StoreInv, [LoaderNext]_loader_vars
    PROVE  LoadTyped'
<1> DEFINE Q == Good \cup {Bad}
           C == Seq(Good) \cup {<<Bad>>}
<1>0. /\ doc \in Seq(Q) /\ parsed \in Nat /\ Len(doc) \in Nat /\ parsed <= Len(doc)
      /\ batch \in Seq(Good) /\ todo \in Seq(Good) /\ chan \in Seq(C)
  BY DEF LoadTyped
<1>1. CASE Begin
  <2>1. name' \in GraphName
    BY <1>1, NamedIs
  <2> QED
    BY <1>1, <2>1 DEF Begin, CallUnchanged, LoadTyped
<1>2. ASSUME NEW o \in {"ok", "parse", "storage"}, Leave(o), UNCHANGED <<name, parsev, doc, mode>> PROVE LoadTyped'
  <2>1. <<>> \in Seq(Good) /\ <<>> \in Seq(C)
    OBVIOUS
  <2> QED
    BY <1>2, <2>1 DEF Leave, LoadTyped, parsev
<1>3. CASE Receive
  <2>1. CASE /\ chan # <<>> /\ Head(chan) # <<Bad>>
             /\ todo' = Head(chan) /\ chan' = Tail(chan)
             /\ UNCHANGED <<hungup, stage, outcome>>
    <3>1. todo' \in Seq(Good) /\ chan' \in Seq(C)
      <4>1. Head(chan) \in C /\ Tail(chan) \in Seq(C)
        BY <1>0, <2>1
      <4> QED
        BY <2>1, <4>1
    <3> QED
      BY <1>3, <2>1, <3>1 DEF Receive, CallUnchanged, LoadTyped, parsev
  <2>2. CASE Leave("parse") \/ Leave("ok")
    BY <1>2, <1>3, <2>2 DEF Receive, CallUnchanged
  <2> QED
    BY <1>3, <2>1, <2>2 DEF Receive
<1>4. CASE Insert
  <2>1. CASE Leave("storage")
    BY <1>2, <1>4, <2>1 DEF Insert, CallUnchanged
  <2>2. CASE todo' = Tail(todo) /\ UNCHANGED <<chan, hungup, stage, outcome>>
    <3>1. todo' \in Seq(Good)
      BY <1>0, <1>4, <2>2 DEF Insert
    <3> QED
      BY <1>4, <2>2, <3>1 DEF Insert, CallUnchanged, LoadTyped, parsev
  <2> QED
    BY <1>4, <2>1, <2>2 DEF Insert
<1>5. CASE Join
  BY <1>5 DEF Join, CallUnchanged, LoadTyped, parsev
<1>6. CASE Call
  BY <1>6 DEF Call, CallUnchanged, LoadTyped, parsev
<1>7. CASE Parse
  <2>1. /\ UNCHANGED <<doc, mode, todo, name, stage, outcome, chan>>
        /\ \/ parsed' = parsed /\ batch' = batch /\ parser' \in {"ended", "tail"}
           \/ /\ parsed # Len(doc) /\ parsed' = parsed + 1
              /\ \/ batch' = batch /\ parser' = "error"
                 \/ doc[parsed + 1] # Bad /\ batch' = Append(batch, doc[parsed + 1]) /\ parser' = parser
    BY <1>7 DEF Parse, ParseUnchanged
  <2>2. parsed' \in 0 .. Len(doc)
    BY <1>0, <2>1
  <2>3. batch' \in Seq(Good)
    <3>1. parsed # Len(doc) => doc[parsed + 1] \in Q
      BY <1>0
    <3>2. CASE batch' = batch
      BY <1>0, <3>2
    <3>3. CASE parsed # Len(doc) /\ doc[parsed + 1] # Bad /\ batch' = Append(batch, doc[parsed + 1])
      <4>1. doc[parsed + 1] \in Good
        BY <3>1, <3>3
      <4> QED
        BY <1>0, <3>3, <4>1, AppendType
    <3> QED
      BY <2>1, <3>2, <3>3
  <2> QED
    BY <2>1, <2>2, <2>3 DEF LoadTyped
<1>8. CASE Send
  <2>1. /\ UNCHANGED <<doc, mode, todo, name, stage, outcome, parsed>>
        /\ parser' \in {"parsing", "ended"}
        /\ batch' \in {batch, <<>>}
        /\ chan' \in {chan, Append(chan, <<Bad>>), Append(chan, batch)}
    BY <1>8 DEF Send, ParseUnchanged
  <2>2. chan' \in Seq(C)
    <3>1. <<Bad>> \in C /\ batch \in C
      BY <1>0
    <3> HIDE DEF C
    <3>2. Append(chan, <<Bad>>) \in Seq(C) /\ Append(chan, batch) \in Seq(C)
      BY <1>0, <3>1, AppendType
    <3> QED
      BY <1>0, <2>1, <3>2
  <2>3. batch' \in Seq(Good)
    <3>1. <<>> \in Seq(Good)
      BY AppendType
    <3> QED
      BY <1>0, <2>1, <3>1
  <2> QED
    BY <2>1, <2>2, <2>3 DEF LoadTyped
<1>9. CASE UNCHANGED loader_vars
  BY <1>9 DEF loader_vars, parsev, LoadTyped
<1> QED
  BY <1>1, <1>3, <1>4, <1>5, <1>6, <1>7, <1>8, <1>9 DEF LoaderNext, Caller, Parser

\* What the store has grown by is kept.
LEMMA NextStore ==
    ASSUME LoadTyped, StoreInv, PipeInv, [LoaderNext]_loader_vars
    PROVE  StoreInv'
<1>0. /\ IsFiniteSet(before.contents) /\ IsFiniteSet(contents) /\ n \in Nat /\ name \in GraphName
      /\ Cardinality(contents) \in Nat /\ Cardinality(before.contents) \in Nat
      /\ inserted \in Seq([g : GraphName, t : Triples])
  BY FS_CardinalityType DEF LoadTyped, StoreInv
<1>1. CASE Begin
  BY <1>1 DEF Begin, CallUnchanged, StoreInv
<1>2. ASSUME stage \in {"load", "join", "call"}, stage' \in {"load", "join", "call", "done"},
             stage' = "done" => mode # "transient",
             UNCHANGED <<contents, n, inserted, mode, before>>
      PROVE  StoreInv'
  BY <1>2 DEF StoreInv
<1>3. CASE Receive
  BY <1>2, <1>3 DEF Receive, Leave, CallUnchanged
<1>4. CASE Insert
  <2> DEFINE q == Placed(Head(todo))
  <2>1. stage = "load" /\ todo # <<>> /\ UNCHANGED <<mode, before>>
    BY <1>4 DEF Insert, CallUnchanged
  <2>2. CASE Leave("storage") /\ UNCHANGED <<contents, n, inserted>>
    BY <1>2, <2>1, <2>2 DEF Leave
  <2>3. CASE /\ contents' = contents \cup {q} /\ n' = (IF q \in contents THEN n ELSE n + 1)
             /\ inserted' = Append(inserted, q) /\ UNCHANGED stage
    <3>1. Head(todo) \in Good
      BY <2>1 DEF LoadTyped
    <3>2. q \in [g : GraphName, t : Triples]
      BY <1>0, <3>1, PlacedType
    <3> HIDE DEF q
    <3>3. inserted' \in Seq([g : GraphName, t : Triples]) /\ Range2(inserted') = Range2(inserted) \cup {q}
      <4> DEFINE R == [g : GraphName, t : Triples]
      <4>1. inserted \in Seq(R) /\ q \in R
        BY <1>0, <3>2
      <4> HIDE DEF R
      <4>2. inserted' \in Seq(R) /\ Range2(inserted') = Range2(inserted) \cup {q}
        BY <2>3, <4>1, RangeGrows, AppendType
      <4> QED
        BY <4>2 DEF R
    <3>4. /\ IsFiniteSet(contents')
          /\ Cardinality(contents') = IF q \in contents THEN Cardinality(contents) ELSE Cardinality(contents) + 1
      BY <1>0, <2>3, FS_AddElement
    <3>5. contents = before.contents \cup Range2(inserted) /\ n = Cardinality(contents) - Cardinality(before.contents)
      BY <2>1 DEF StoreInv
    <3>6. n' = Cardinality(contents') - Cardinality(before.contents) /\ n' \in Nat
      BY <1>0, <2>3, <3>4, <3>5
    <3>7. contents' = before.contents \cup Range2(inserted')
      BY <2>3, <3>3, <3>5
    <3> QED
      BY <1>0, <2>1, <2>3, <3>3, <3>4, <3>6, <3>7 DEF StoreInv
  <2> QED
    BY <1>4, <2>2, <2>3 DEF Insert
<1>5. ASSUME stage' = "done", mode = "transient", contents' = before.contents, terms' = before.terms, ~scope',
             UNCHANGED <<n, inserted, mode, before>>
      PROVE  StoreInv'
  BY <1>0, <1>5 DEF StoreInv
<1>6. CASE Join
  <2>1. stage = "join" /\ UNCHANGED <<n, inserted, mode, before>>
    BY <1>6 DEF Join, CallUnchanged
  <2>2. CASE mode = "transient" /\ outcome # "ok"
    <3>1. stage' = "done" /\ scope' = FALSE /\ contents' = before.contents /\ terms' = before.terms
      BY <1>6, <2>2 DEF Join
    <3> QED
      BY <1>5, <2>1, <2>2, <3>1
  <2>3. CASE mode # "transient" \/ outcome = "ok"
    <3>1. contents' = contents /\ stage' \in {"call", "done"} /\ (stage' = "done" => mode # "transient")
      BY <1>6, <2>3 DEF Join
    <3> QED
      BY <1>2, <2>1, <3>1
  <2> QED
    BY <2>2, <2>3
<1>7. CASE Call
  <2>1. mode = "transient"
    BY <1>7 DEF Call, PipeInv
  <2> QED
    BY <1>5, <1>7, <2>1 DEF Call, CallUnchanged
<1>8. CASE Parse \/ Send
  BY <1>8 DEF Parse, Send, ParseUnchanged, StoreInv
<1>9. CASE UNCHANGED loader_vars
  BY <1>9 DEF loader_vars, parsev, StoreInv
<1> QED
  BY <1>1, <1>3, <1>4, <1>6, <1>7, <1>8, <1>9 DEF LoaderNext, Caller, Parser

\* The transient graph's name stays its own.
LEMMA NextFresh ==
    ASSUME LoadTyped, StoreInv, FreshInv, [LoaderNext]_loader_vars
    PROVE  FreshInv'
<1>1. CASE Begin
  BY <1>1, NamedIs DEF Begin, CallUnchanged, FreshInv
<1>2. CASE Receive \/ Insert \/ Join \/ Call
  BY <1>2 DEF Receive, Insert, Join, Call, CallUnchanged, FreshInv
<1>3. CASE Parse \/ Send
  BY <1>3 DEF Parse, Send, ParseUnchanged, FreshInv
<1>4. CASE UNCHANGED loader_vars
  BY <1>4 DEF loader_vars, FreshInv
<1> QED
  BY <1>1, <1>2, <1>3, <1>4 DEF LoaderNext, Caller, Parser

\* The quads of the document that a transient graph shows.
LEMMA WholeSeen ==
    ASSUME LoadTyped, StoreInv, FreshInv, Whole, stage = "call", mode = "transient"
    PROVE  {q.t : q \in {x \in contents : x.g = name}} = {q.t : q \in {x \in Range2(doc) : x.g = Default}}
<1>1. /\ doc \in Seq(Good \cup {Bad}) /\ DOMAIN doc = 1 .. Len(doc)
      /\ inserted = [i \in 1 .. Len(doc) |-> Placed(doc[i])] /\ Bad \notin Range2(doc)
  BY DEF LoadTyped, Whole
<1>2. name # "other" /\ \A q \in before.contents : q.g # name
  BY DEF FreshInv
<1>3. contents = before.contents \cup Range2(inserted)
  BY DEF StoreInv
<1>4. \A i \in 1 .. Len(doc) : doc[i] \in Good
  BY <1>1 DEF Range2
<1>5. \A q \in Good : q.g \in {Default, "other"}
  BY DEF Good, QuadIn
<1>6. \A q \in Good : /\ Placed(q).t = q.t
                      /\ Placed(q).g = name <=> q.g = Default
  <2> SUFFICES ASSUME NEW q \in Good PROVE Placed(q).t = q.t /\ (Placed(q).g = name <=> q.g = Default)
    OBVIOUS
  <2>1. CASE q.g = Default
    BY <2>1 DEF Placed, QuadIn
  <2>2. CASE q.g # Default
    BY <1>2, <1>5, <2>2 DEF Placed
  <2> QED
    BY <2>1, <2>2
<1>7. ASSUME NEW q \in contents, q.g = name PROVE \E x \in Range2(doc) : x.g = Default /\ x.t = q.t
  <2>1. q \in Range2(inserted)
    BY <1>2, <1>3, <1>7
  <2>2. PICK i \in 1 .. Len(doc) : q = Placed(doc[i])
    BY <1>1, <2>1 DEF Range2
  <2> QED
    BY <1>1, <1>4, <1>6, <1>7, <2>2 DEF Range2
<1>8. ASSUME NEW x \in Range2(doc), x.g = Default PROVE \E q \in contents : q.g = name /\ q.t = x.t
  <2>1. PICK i \in 1 .. Len(doc) : x = doc[i]
    BY <1>1, <1>8 DEF Range2
  <2>2. Placed(x) \in Range2(inserted)
    BY <1>1, <2>1 DEF Range2
  <2> QED
    BY <1>3, <1>4, <1>6, <1>8, <2>1, <2>2
<1> QED
  BY <1>7, <1>8

\* Every step keeps the pipe in line.
LEMMA NextPipe ==
    ASSUME LoadTyped, StoreInv, FreshInv, PipeInv, [LoaderNext]_loader_vars
    PROVE  PipeInv'
<1> DEFINE C == Seq(Good) \cup {<<Bad>>}
<1>0. /\ doc \in Seq(Good \cup {Bad}) /\ parsed \in Nat /\ Len(doc) \in Nat /\ parsed <= Len(doc)
      /\ batch \in Seq(Good) /\ todo \in Seq(Good) /\ chan \in Seq(C) /\ inserted \in Seq([g : GraphName, t : Triples])
      /\ Len(batch) \in Nat /\ Len(todo) \in Nat /\ Len(chan) \in Nat /\ Len(inserted) \in Nat
  BY DEF LoadTyped, StoreInv
<1> HIDE DEF C
<1>1. CASE Begin
  <2>1. /\ stage = "idle" /\ stage' = "load" /\ parser' = "parsing"
        /\ UNCHANGED <<parsed, batch, chan, hungup, todo, inserted, doc, mode>>
    BY <1>1 DEF Begin, CallUnchanged
  <2>2. /\ parsed = 0 /\ batch = <<>> /\ chan = <<>> /\ todo = <<>> /\ ~hungup /\ inserted = <<>>
    BY <2>1 DEF PipeInv, StoreInv
  <2> DEFINE at == [i \in 1 .. 1 |-> 0]
  <2>3. Lined(at)'
    BY <2>1, <2>2 DEF Lined
  <2> HIDE DEF at
  <2> QED
    BY <2>1, <2>2, <2>3 DEF PipeInv
<1>2. ASSUME NEW o \in {"ok", "parse", "storage"}, Leave(o), o = "ok" => Whole,
             UNCHANGED <<name, doc, mode, inserted>>
      PROVE  PipeInv'
  <2>1. Whole' <=> Whole
    BY <1>2 DEF Whole, Placed
  <2> QED
    BY <1>2, <2>1 DEF Leave, PipeInv
<1>3. CASE Receive
  <2>1. stage = "load" /\ todo = <<>> /\ UNCHANGED <<name, parsed, batch, parser, doc, mode, inserted>>
    BY <1>3 DEF Receive, parsev, CallUnchanged
  <2>2. PICK at : Lined(at)
    BY <2>1 DEF PipeInv
  <2>3. CASE /\ chan # <<>> /\ Head(chan) # <<Bad>>
             /\ todo' = Head(chan) /\ chan' = Tail(chan)
             /\ UNCHANGED <<hungup, stage, outcome>>
    <3> DEFINE c == Len(chan)
    <3>1. /\ c \in Nat \ {0} /\ Len(chan') = c - 1 /\ todo' = chan[1] /\ chan[1] # <<Bad>>
          /\ \A i \in 1 .. (c - 1) : chan'[i] = chan[i + 1]
      BY <1>0, <2>3
    <3>2. /\ at \in [1 .. c + 1 -> Nat]
          /\ at[1] = Len(inserted)
          /\ \A i \in 1 .. c : chan[i] # <<Bad>> =>
                at[i + 1] = at[i] + Len(chan[i]) /\ \A k \in 1 .. Len(chan[i]) : chan[i][k] = doc[at[i] + k]
          /\ \A i \in 1 .. c : chan[i] = <<Bad>> => i = c /\ parser = "ended"
          /\ parser \in {"parsing", "tail"} \/ (parser = "ended" /\ \A i \in 1 .. c : chan[i] # <<Bad>>) =>
                /\ at[c + 1] + Len(batch) = parsed
                /\ \A k \in 1 .. Len(batch) : batch[k] = doc[at[c + 1] + k]
                /\ \A k \in 1 .. parsed : doc[k] # Bad
                /\ parser # "parsing" => parsed = Len(doc)
                /\ parser = "ended" => batch = <<>>
      BY <1>0, <2>1, <2>2 DEF Lined
    <3> HIDE DEF c
    <3>0. PICK at2 : at2 = [i \in 1 .. c |-> at[i + 1]]
      OBVIOUS
    <3>3. /\ at2 \in [1 .. c -> Nat] /\ at2[c] = at[c + 1] /\ at2[1] = at[2]
          /\ \A i \in 1 .. (c - 1) : at2[i] = at[i + 1] /\ at2[i + 1] = at[(i + 1) + 1]
      <4>1. c \in Nat \ {0} /\ at \in [1 .. c + 1 -> Nat]
        BY <3>1, <3>2
      <4> QED
        BY <3>0, <4>1
    <3>4. at[2] = Len(inserted) + Len(todo') /\ \A k \in 1 .. Len(todo') : todo'[k] = doc[Len(inserted) + k]
      <4>1. 1 \in 1 .. c
        BY <3>1
      <4>2. at[1 + 1] = at[1] + Len(chan[1]) /\ \A k \in 1 .. Len(chan[1]) : chan[1][k] = doc[at[1] + k]
        BY <3>1, <3>2, <4>1
      <4>3. at[2] = at[1] + Len(chan[1])
        BY <4>2
      <4> QED
        BY <3>1, <3>2, <4>2, <4>3, Zenon
    <3>5. \A i \in 1 .. (c - 1) : chan'[i] # <<Bad>> =>
             /\ at2[i + 1] = at2[i] + Len(chan'[i])
             /\ \A k \in 1 .. Len(chan'[i]) : chan'[i][k] = doc[at2[i] + k]
      <4> SUFFICES ASSUME NEW i \in 1 .. (c - 1), chan'[i] # <<Bad>>
                   PROVE  /\ at2[i + 1] = at2[i] + Len(chan'[i])
                          /\ \A k \in 1 .. Len(chan'[i]) : chan'[i][k] = doc[at2[i] + k]
        OBVIOUS
      <4>1. i + 1 \in 1 .. c /\ chan'[i] = chan[i + 1]
        BY <3>1
      <4>2. /\ at[(i + 1) + 1] = at[i + 1] + Len(chan[i + 1])
            /\ \A k \in 1 .. Len(chan[i + 1]) : chan[i + 1][k] = doc[at[i + 1] + k]
        BY <3>2, <4>1
      <4> QED
        BY <3>3, <4>1, <4>2
    <3>6. \A i \in 1 .. (c - 1) : chan'[i] = <<Bad>> => i = c - 1 /\ parser = "ended"
      <4> SUFFICES ASSUME NEW i \in 1 .. (c - 1), chan'[i] = <<Bad>> PROVE i = c - 1 /\ parser = "ended"
        OBVIOUS
      <4>1. i + 1 \in 1 .. c /\ chan[i + 1] = <<Bad>>
        BY <3>1
      <4>2. i + 1 = c /\ parser = "ended"
        BY <3>2, <4>1
      <4> QED
        BY <3>1, <4>2
    <3>7. (\A i \in 1 .. (c - 1) : chan'[i] # <<Bad>>) => \A i \in 1 .. c : chan[i] # <<Bad>>
      <4> SUFFICES ASSUME \A i \in 1 .. (c - 1) : chan'[i] # <<Bad>>, NEW i \in 1 .. c PROVE chan[i] # <<Bad>>
        OBVIOUS
      <4>1. CASE i = 1
        BY <3>1, <4>1
      <4>2. CASE i # 1
        <5>1. i - 1 \in 1 .. (c - 1) /\ (i - 1) + 1 = i
          BY <3>1, <4>2
        <5>2. chan'[i - 1] = chan[(i - 1) + 1]
          BY <3>1, <5>1
        <5> QED
          BY <5>1, <5>2
      <4> QED
        BY <4>1, <4>2
    <3>8. (c - 1) + 1 = c
      BY <3>1
    <3>9. Lined(at2)'
      <4>1. Len(chan') = c - 1 /\ Len(chan') + 1 = c /\ parser' = parser /\ batch' = batch /\ parsed' = parsed
            /\ doc' = doc /\ inserted' = inserted
        BY <2>1, <3>1, <3>8
      <4>2. at2 \in [1 .. Len(chan') + 1 -> Nat] /\ at2[1] = Len(inserted') + Len(todo')
        BY <3>3, <3>4, <4>1
      <4>3. \A i \in 1 .. Len(chan') : chan'[i] # <<Bad>> =>
               /\ at2[i + 1] = at2[i] + Len(chan'[i])
               /\ \A k \in 1 .. Len(chan'[i]) : chan'[i][k] = doc'[at2[i] + k]
        BY <3>5, <4>1, Zenon
      <4>4. \A i \in 1 .. Len(chan') : chan'[i] = <<Bad>> => i = Len(chan') /\ parser' = "ended"
        BY <3>6, <4>1, Zenon
      <4>5. ASSUME parser' \in {"parsing", "tail"}
                   \/ (parser' = "ended" /\ \A i \in 1 .. Len(chan') : chan'[i] # <<Bad>>)
            PROVE  /\ at2[Len(chan') + 1] + Len(batch') = parsed'
                   /\ \A k \in 1 .. Len(batch') : batch'[k] = doc'[at2[Len(chan') + 1] + k]
                   /\ \A k \in 1 .. parsed' : doc'[k] # Bad
                   /\ parser' # "parsing" => parsed' = Len(doc')
                   /\ parser' = "ended" => batch' = <<>>
        <5>1. parser \in {"parsing", "tail"} \/ (parser = "ended" /\ \A i \in 1 .. c : chan[i] # <<Bad>>)
          BY <3>7, <4>1, <4>5, Zenon
        <5>2. /\ at[c + 1] + Len(batch) = parsed
              /\ \A k \in 1 .. Len(batch) : batch[k] = doc[at[c + 1] + k]
              /\ \A k \in 1 .. parsed : doc[k] # Bad
              /\ parser # "parsing" => parsed = Len(doc)
              /\ parser = "ended" => batch = <<>>
          BY <3>2, <5>1, Zenon
        <5>3. at2[Len(chan') + 1] = at[c + 1]
          BY <3>3, <4>1
        <5> QED
          BY <4>1, <5>2, <5>3, Zenon
      <4> QED
        BY <4>2, <4>3, <4>4, <4>5, Zenon DEF Lined
    <3> QED
      BY <2>1, <2>3, <3>4, <3>9 DEF PipeInv, Placed
  <2>4. CASE Leave("parse")
    BY <1>2, <2>1, <2>4
  <2>5. CASE chan = <<>> /\ parser = "ended" /\ Leave("ok")
    <3>1. /\ at[1] = Len(inserted) /\ at[1] + Len(batch) = parsed /\ parsed = Len(doc) /\ batch = <<>>
          /\ \A k \in 1 .. parsed : doc[k] # Bad /\ at[1] \in Nat
      <4>1. Len(chan) = 0 /\ Len(chan) + 1 = 1
        BY <2>5
      <4>2. at \in [1 .. 1 -> Nat]
        BY <2>2, <4>1 DEF Lined
      <4> QED
        BY <1>0, <2>1, <2>2, <2>5, <4>1, <4>2 DEF Lined
    <3>2. Len(inserted) = Len(doc)
      BY <1>0, <3>1
    <3>3. \A k \in 1 .. Len(inserted) : inserted[k] = Placed(doc[k])
      BY <2>1 DEF PipeInv
    <3>4. Whole
      <4> DEFINE R == [g : GraphName, t : Triples]
      <4>1. inserted \in Seq(R)
        BY <1>0
      <4> HIDE DEF R
      <4>2. inserted \in [1 .. Len(doc) -> R]
        BY <3>2, <4>1
      <4>3. inserted = [k \in 1 .. Len(doc) |-> Placed(doc[k])]
        BY <3>2, <3>3, <4>2
      <4>4. DOMAIN doc = 1 .. parsed
        BY <1>0, <3>1
      <4>5. Bad \notin Range2(doc)
        BY <3>1, <4>4 DEF Range2
      <4> QED
        BY <4>3, <4>5 DEF Whole
    <3> QED
      BY <1>2, <2>1, <2>5, <3>4
  <2> QED
    BY <1>3, <2>3, <2>4, <2>5 DEF Receive
<1>4. CASE Insert
  <2> DEFINE q == Placed(Head(todo))
  <2>1. stage = "load" /\ todo # <<>> /\ UNCHANGED <<name, parsed, batch, parser, doc, mode>>
    BY <1>4 DEF Insert, parsev, CallUnchanged
  <2>2. CASE Leave("storage") /\ UNCHANGED inserted
    BY <1>2, <2>1, <2>2
  <2>3. CASE /\ inserted' = Append(inserted, q) /\ todo' = Tail(todo)
             /\ UNCHANGED <<chan, hungup, stage, outcome>>
    <3>1. PICK at : Lined(at)
      BY <2>1 DEF PipeInv
    <3>2. /\ Len(todo') = Len(todo) - 1 /\ \A k \in 1 .. Len(todo') : todo'[k] = todo[k + 1]
          /\ Head(todo) = todo[1] /\ Len(todo) > 0 /\ Head(todo) \in Good
      BY <1>0, <2>1, <2>3
    <3>3. q \in [g : GraphName, t : Triples]
      BY <3>2, PlacedType DEF LoadTyped
    <3>4. todo[1] = doc[Len(inserted) + 1]
      BY <1>0, <2>1, <3>2 DEF PipeInv
    <3>5. q = Placed(doc[Len(inserted) + 1])
      BY <3>2, <3>4
    <3> HIDE DEF q
    <3>6. /\ Len(inserted') = Len(inserted) + 1 /\ inserted'[Len(inserted) + 1] = q
          /\ \A k \in 1 .. Len(inserted) : inserted'[k] = inserted[k]
      BY <1>0, <2>3, <3>3
    <3>7. \A k \in 1 .. Len(inserted') : inserted'[k] = Placed(doc[k])
      <4> SUFFICES ASSUME NEW k \in 1 .. Len(inserted') PROVE inserted'[k] = Placed(doc[k])
        OBVIOUS
      <4>1. CASE k = Len(inserted) + 1
        BY <3>5, <3>6, <4>1
      <4>2. CASE k # Len(inserted) + 1
        <5>1. k \in 1 .. Len(inserted)
          BY <1>0, <3>6, <4>2
        <5> QED
          BY <2>1, <3>6, <5>1 DEF PipeInv
      <4> QED
        BY <4>1, <4>2
    <3>8. \A k \in 1 .. Len(todo') : todo'[k] = doc[Len(inserted') + k]
      <4> SUFFICES ASSUME NEW k \in 1 .. Len(todo') PROVE todo'[k] = doc[Len(inserted') + k]
        OBVIOUS
      <4>1. k + 1 \in 1 .. Len(todo) /\ Len(inserted) + (k + 1) = Len(inserted') + k
        BY <1>0, <3>2, <3>6
      <4>2. todo[k + 1] = doc[Len(inserted) + (k + 1)]
        BY <2>1, <4>1 DEF PipeInv
      <4> QED
        BY <3>2, <4>1, <4>2
    <3>9. Len(inserted') + Len(todo') = Len(inserted) + Len(todo)
      BY <1>0, <3>2, <3>6
    <3>10. Lined(at)'
      BY <2>1, <2>3, <3>1, <3>9 DEF Lined
    <3>11. (\A k \in 1 .. Len(inserted) : inserted[k] = Placed(doc[k]))'
      BY <2>1, <3>7 DEF Placed
    <3> QED
      BY <2>1, <2>3, <3>8, <3>10, <3>11 DEF PipeInv
  <2> QED
    BY <1>4, <2>2, <2>3 DEF Insert
<1>5. CASE Join
  <2>1. /\ stage = "join" /\ stage' \in {"call", "done"} /\ UNCHANGED <<name, doc, mode, inserted, hungup, outcome>>
        /\ stage' = "call" => outcome = "ok" /\ mode = "transient"
        /\ stage' = "done" /\ mode = "transient" => outcome # "ok"
    BY <1>5 DEF Join, CallUnchanged
  <2>2. Whole' <=> Whole
    BY <2>1 DEF Whole, Placed
  <2> QED
    BY <2>1, <2>2 DEF PipeInv
<1>6. CASE Call
  <2>1. /\ stage = "call" /\ stage' = "done" /\ UNCHANGED <<name, doc, mode, inserted, hungup>>
        /\ seen' = {q.t : q \in {x \in contents : x.g = name}} /\ outcome' \in {"ok", "panic"}
    BY <1>6 DEF Call, CallUnchanged
  <2>2. Whole /\ mode = "transient" /\ hungup
    BY <2>1 DEF PipeInv
  <2>3. Whole'
    BY <2>1, <2>2 DEF Whole, Placed
  <2>4. seen' = {q.t : q \in {x \in Range2(doc) : x.g = Default}}
    BY <2>1, <2>2, WholeSeen
  <2> QED
    BY <2>1, <2>2, <2>3, <2>4 DEF PipeInv
<1>7. ASSUME Parse \/ Send, stage # "load" PROVE PipeInv'
  <2>1. UNCHANGED <<name, doc, mode, inserted, hungup, outcome, stage, seen>> /\ parser # "none"
    BY <1>7 DEF Parse, Send, ParseUnchanged
  <2>2. Whole' <=> Whole
    BY <2>1 DEF Whole, Placed
  <2> QED
    BY <1>7, <2>1, <2>2 DEF PipeInv
<1>8. ASSUME stage = "load", parser' # "none", \E at : Lined(at)',
             UNCHANGED <<name, doc, mode, inserted, todo, hungup, outcome, stage, seen>>
      PROVE  PipeInv'
  BY <1>8 DEF PipeInv, Placed
<1>9. CASE Parse /\ stage = "load"
  <2>1. /\ parser = "parsing" /\ UNCHANGED <<chan, hungup, name, doc, mode, inserted, todo, outcome, stage, seen>>
        /\ IF parsed = Len(doc)
           THEN parser' = (IF batch = <<>> THEN "ended" ELSE "tail") /\ UNCHANGED <<parsed, batch>>
           ELSE /\ parsed' = parsed + 1
                /\ IF doc[parsed + 1] = Bad
                   THEN parser' = "error" /\ UNCHANGED batch
                   ELSE batch' = Append(batch, doc[parsed + 1]) /\ UNCHANGED parser
    BY <1>9 DEF Parse, ParseUnchanged
  <2>2. PICK at : Lined(at)
    BY <1>9 DEF PipeInv
  <2> DEFINE m == at[Len(chan) + 1]
  <2>3. /\ at \in [1 .. Len(chan) + 1 -> Nat]
        /\ at[1] = Len(inserted) + Len(todo)
        /\ \A i \in 1 .. Len(chan) : chan[i] # <<Bad>> =>
              at[i + 1] = at[i] + Len(chan[i]) /\ \A k \in 1 .. Len(chan[i]) : chan[i][k] = doc[at[i] + k]
        /\ \A i \in 1 .. Len(chan) : chan[i] # <<Bad>>
        /\ m + Len(batch) = parsed
        /\ \A k \in 1 .. Len(batch) : batch[k] = doc[m + k]
        /\ \A k \in 1 .. parsed : doc[k] # Bad
    <3>1. parser = "parsing" /\ parser # "ended"
      BY <2>1
    <3>2. \A i \in 1 .. Len(chan) : chan[i] # <<Bad>>
      BY <2>2, <3>1, Zenon DEF Lined
    <3>3. /\ at \in [1 .. Len(chan) + 1 -> Nat]
          /\ at[1] = Len(inserted) + Len(todo)
          /\ \A i \in 1 .. Len(chan) : chan[i] # <<Bad>> =>
                at[i + 1] = at[i] + Len(chan[i]) /\ \A k \in 1 .. Len(chan[i]) : chan[i][k] = doc[at[i] + k]
      BY <2>2, Zenon DEF Lined
    <3>4. parser \in {"parsing", "tail"}
      BY <3>1
    <3>5. /\ m + Len(batch) = parsed
          /\ \A k \in 1 .. Len(batch) : batch[k] = doc[m + k]
          /\ \A k \in 1 .. parsed : doc[k] # Bad
      BY <2>2, <3>4, Zenon DEF Lined
    <3> QED
      BY <3>2, <3>3, <3>5, Zenon
  <2>4. m \in Nat
    <3>1. Len(chan) + 1 \in 1 .. Len(chan) + 1
      BY <1>0
    <3>2. at \in [1 .. Len(chan) + 1 -> Nat]
      BY <2>3
    <3> QED
      BY <3>1, <3>2
  <2> HIDE DEF m
  <2>5. CASE parsed = Len(doc)
    <3>1. parser' \in {"ended", "tail"} /\ (parser' = "ended" => batch = <<>>) /\ UNCHANGED <<parsed, batch>>
      BY <2>1, <2>5
    <3>2. Lined(at)'
      BY <2>1, <2>3, <2>5, <3>1 DEF Lined, m
    <3> QED
      BY <1>8, <1>9, <2>1, <3>1, <3>2
  <2>6. CASE parsed # Len(doc) /\ doc[parsed + 1] = Bad
    <3>1. parser' = "error"
      BY <2>1, <2>6
    <3>2. Lined(at)'
      BY <2>1, <2>3, <3>1 DEF Lined
    <3> QED
      BY <1>8, <1>9, <2>1, <3>1, <3>2
  <2>7. CASE parsed # Len(doc) /\ doc[parsed + 1] # Bad
    <3>1. parsed' = parsed + 1 /\ batch' = Append(batch, doc[parsed + 1]) /\ parser' = "parsing"
      BY <2>1, <2>7
    <3>2. doc[parsed + 1] \in Good
      BY <1>0, <2>7
    <3>3. /\ Len(batch') = Len(batch) + 1 /\ batch'[Len(batch) + 1] = doc[parsed + 1]
          /\ \A k \in 1 .. Len(batch) : batch'[k] = batch[k]
      BY <1>0, <3>1, <3>2
    <3>0. parsed \in Nat /\ Len(batch) \in Nat /\ m + Len(batch) = parsed
      BY <1>0, <2>3
    <3>4. m + Len(batch') = parsed'
      <4>1. Len(batch') = Len(batch) + 1 /\ parsed' = parsed + 1
        BY <3>1, <3>3
      <4> QED
        BY <2>4, <3>0, <4>1
    <3>5. ASSUME NEW k \in 1 .. Len(batch') PROVE batch'[k] = doc[m + k]
      <4>1. CASE k = Len(batch) + 1
        <5>1. m + k = parsed + 1
          BY <2>4, <3>0, <4>1
        <5> QED
          BY <3>3, <4>1, <5>1
      <4>2. CASE k # Len(batch) + 1
        <5>1. k \in 1 .. Len(batch)
          <6>1. Len(batch') = Len(batch) + 1
            BY <3>3
          <6> QED
            BY <3>0, <3>5, <4>2, <6>1
        <5> QED
          BY <2>3, <3>3, <5>1
      <4> QED
        BY <4>1, <4>2
    <3>6. \A k \in 1 .. parsed' : doc[k] # Bad
      BY <1>0, <2>3, <2>7, <3>1
    <3>7. Lined(at)'
      BY <2>1, <2>3, <3>1, <3>4, <3>5, <3>6 DEF Lined, m
    <3> QED
      BY <1>8, <1>9, <2>1, <3>1, <3>7
  <2> QED
    BY <2>5, <2>6, <2>7
<1>10. CASE Send /\ stage = "load"
  <2>1. /\ ~hungup
        /\ UNCHANGED <<parsed, hungup, name, doc, mode, inserted, todo, outcome, stage, seen>>
        /\ parser \in {"error", "tail", "parsing"}
        /\ chan' = Append(chan, IF parser = "error" THEN <<Bad>> ELSE batch)
        /\ batch' = <<>>
        /\ parser' = IF parser = "parsing" THEN "parsing" ELSE "ended"
    BY <1>10 DEF Send, ParseUnchanged, PipeInv
  <2>2. PICK at : Lined(at)
    BY <1>10 DEF PipeInv
  <2> DEFINE c == Len(chan)
             b == IF parser = "error" THEN <<Bad>> ELSE batch
  <2>3. /\ at \in [1 .. c + 1 -> Nat]
        /\ at[1] = Len(inserted) + Len(todo)
        /\ \A i \in 1 .. c : chan[i] # <<Bad>> =>
              at[i + 1] = at[i] + Len(chan[i]) /\ \A k \in 1 .. Len(chan[i]) : chan[i][k] = doc[at[i] + k]
        /\ \A i \in 1 .. c : chan[i] # <<Bad>>
        /\ parser # "error" =>
              /\ at[c + 1] + Len(batch) = parsed
              /\ \A k \in 1 .. Len(batch) : batch[k] = doc[at[c + 1] + k]
              /\ \A k \in 1 .. parsed : doc[k] # Bad
              /\ parser # "parsing" => parsed = Len(doc)
    BY <2>1, <2>2 DEF Lined
  <2>4. b \in C /\ chan' = Append(chan, b) /\ c \in Nat
    BY <1>0, <2>1 DEF C
  <2>5. parser # "error" => b # <<Bad>>
    <3>1. batch # <<Bad>>
      <4> SUFFICES ASSUME batch = <<Bad>> PROVE FALSE
        OBVIOUS
      <4>1. <<Bad>>[1] = Bad /\ Len(<<Bad>>) = 1
        OBVIOUS
      <4>2. batch[1] \in Good
        BY <1>0, <4>1
      <4> QED
        BY <4>1, <4>2, GoodIsGood
    <3> QED
      BY <3>1
  <2>6. parser # "error" => b = batch
    OBVIOUS
  <2>7. parser = "error" => b = <<Bad>>
    OBVIOUS
  <2> HIDE DEF b, c
  <2>8. /\ Len(chan') = c + 1 /\ chan'[c + 1] = b /\ \A i \in 1 .. c : chan'[i] = chan[i]
    BY <1>0, <2>4 DEF c
  <2>9. PICK at2 : /\ at2 \in [1 .. (c + 1) + 1 -> Nat] /\ at2[1] = at[1]
                   /\ at2[(c + 1) + 1] = at[c + 1] + Len(batch)
                   /\ \A i \in 1 .. c + 1 : at2[i] = at[i]
    <3> DEFINE f == [i \in 1 .. c + 2 |-> IF i <= c + 1 THEN at[i] ELSE at[c + 1] + Len(batch)]
    <3>1. /\ f \in [1 .. (c + 1) + 1 -> Nat] /\ f[1] = at[1] /\ f[(c + 1) + 1] = at[c + 1] + Len(batch)
          /\ \A i \in 1 .. c + 1 : f[i] = at[i]
      BY <1>0, <2>3, <2>4
    <3> HIDE DEF f
    <3> QED
      BY <3>1
  <2>10. ASSUME NEW i \in 1 .. c + 1, chan'[i] # <<Bad>>
         PROVE  at2[i + 1] = at2[i] + Len(chan'[i]) /\ \A k \in 1 .. Len(chan'[i]) : chan'[i][k] = doc[at2[i] + k]
    <3>1. CASE i = c + 1
      <4>1. chan'[i] = batch /\ parser # "error" /\ at2[i] = at[c + 1] /\ at2[i + 1] = at[c + 1] + Len(batch)
        BY <2>6, <2>7, <2>8, <2>9, <2>10, <3>1
      <4> QED
        BY <2>3, <4>1
    <3>2. CASE i # c + 1
      <4>1. i \in 1 .. c /\ i + 1 \in 1 .. c + 1
        BY <2>4, <3>2
      <4>2. chan'[i] = chan[i] /\ at2[i] = at[i] /\ at2[i + 1] = at[i + 1]
        BY <2>8, <2>9, <4>1
      <4>3. at[i + 1] = at[i] + Len(chan[i]) /\ \A k \in 1 .. Len(chan[i]) : chan[i][k] = doc[at[i] + k]
        BY <2>3, <4>1
      <4> QED
        BY <4>2, <4>3
    <3> QED
      BY <3>1, <3>2
  <2>11. ASSUME NEW i \in 1 .. c + 1, chan'[i] = <<Bad>> PROVE i = c + 1 /\ parser' = "ended"
    <3>1. i = c + 1
      <4> SUFFICES ASSUME i # c + 1 PROVE FALSE
        OBVIOUS
      <4>1. i \in 1 .. c
        BY <2>4
      <4> QED
        BY <2>3, <2>8, <2>11, <4>1
    <3>2. parser = "error"
      BY <2>5, <2>8, <2>11, <3>1
    <3> QED
      BY <2>1, <3>1, <3>2
  <2>12. ASSUME parser' \in {"parsing", "tail"} \/ (parser' = "ended" /\ \A i \in 1 .. c + 1 : chan'[i] # <<Bad>>)
         PROVE  /\ at2[(c + 1) + 1] + Len(batch') = parsed'
                /\ \A k \in 1 .. parsed' : doc[k] # Bad
                /\ parser' # "parsing" => parsed' = Len(doc)
                /\ \A k \in 1 .. Len(batch') : batch'[k] = doc[at2[(c + 1) + 1] + k]
    <3>1. c + 1 \in 1 .. c + 1
      BY <2>4
    <3>2. parser # "error"
      BY <2>1, <2>7, <2>8, <2>12, <3>1
    <3>3. at[c + 1] + Len(batch) = parsed /\ (\A k \in 1 .. parsed : doc[k] # Bad) /\ (parser # "parsing" => parsed = Len(doc))
      BY <2>3, <3>2
    <3>4. parsed' = parsed /\ Len(batch') = 0 /\ at2[(c + 1) + 1] = parsed
      BY <2>1, <2>9, <3>3
    <3>5. parser' # "parsing" => parser # "parsing"
      BY <2>1
    <3> QED
      BY <1>0, <3>3, <3>4, <3>5
  <2>13. Lined(at2)'
    <3>1. /\ Len(chan') = c + 1 /\ doc' = doc /\ inserted' = inserted /\ todo' = todo /\ batch' = <<>>
      BY <2>1, <2>8
    <3>2. at2 \in [1 .. Len(chan') + 1 -> Nat] /\ at2[1] = Len(inserted') + Len(todo')
      BY <2>3, <2>9, <3>1
    <3>3. \A i \in 1 .. Len(chan') : chan'[i] # <<Bad>> =>
             /\ at2[i + 1] = at2[i] + Len(chan'[i])
             /\ \A k \in 1 .. Len(chan'[i]) : chan'[i][k] = doc'[at2[i] + k]
      BY <2>10, <3>1, Zenon
    <3>4. \A i \in 1 .. Len(chan') : chan'[i] = <<Bad>> => i = Len(chan') /\ parser' = "ended"
      BY <2>11, <3>1, Zenon
    <3>5. ASSUME parser' \in {"parsing", "tail"}
                 \/ (parser' = "ended" /\ \A i \in 1 .. Len(chan') : chan'[i] # <<Bad>>)
          PROVE  /\ at2[Len(chan') + 1] + Len(batch') = parsed'
                 /\ \A k \in 1 .. Len(batch') : batch'[k] = doc'[at2[Len(chan') + 1] + k]
                 /\ \A k \in 1 .. parsed' : doc'[k] # Bad
                 /\ parser' # "parsing" => parsed' = Len(doc')
                 /\ parser' = "ended" => batch' = <<>>
      BY <2>12, <3>1, <3>5, Zenon
    <3> QED
      BY <3>2, <3>3, <3>4, <3>5, Zenon DEF Lined
  <2> QED
    BY <1>8, <1>10, <2>1, <2>13
<1>11. CASE UNCHANGED loader_vars
  <2>1. UNCHANGED <<parsed, batch, parser, chan, hungup, name, doc, mode, inserted, todo, outcome, stage, seen>>
    BY <1>11 DEF loader_vars, parsev
  <2>2. (Whole' <=> Whole) /\ \A at : Lined(at)' <=> Lined(at)
    BY <2>1 DEF Whole, Placed, Lined
  <2> QED
    BY <2>1, <2>2 DEF PipeInv, Placed
<1> QED
  BY <1>1, <1>3, <1>4, <1>5, <1>6, <1>7, <1>9, <1>10, <1>11 DEF LoaderNext, Caller, Parser

\* A load that reports no error has given the store the whole document in the order of the
\* file, and counted what it grew by, however the parse thread and the inserting thread take
\* turns, for any batch and queue; a transient graph shows its document and leaves nothing
\* (load_parsed, with_transient_graph).
THEOREM LoadsAlwaysExact == LoaderSpec => []LoadExact
<1> DEFINE I == LoadTyped /\ StoreInv /\ FreshInv /\ PipeInv
<1>1. LoaderInit => I
  BY InitLoad
<1>2. I /\ [LoaderNext]_loader_vars => I'
  BY NextLoadTyped, NextStore, NextFresh, NextPipe
<1>3. I => LoadExact
  BY DEF StoreInv, PipeInv, Whole, LoadExact
<1> QED
  BY <1>1, <1>2, <1>3, PTL DEF LoaderSpec

-----------------------------------------------------------------------------
(* The graph that the SHACL engine keeps.                                  *)

\* No triple is in two of the graphs that the data filter selects: so it is for every filter
\* that names one graph.
OneGraph ==
    \A k \in DOMAIN Schemas : \A f \in Filters[k] : \A q, r \in Quads[k] :
        q[2] = r[2] /\ in_graph(q[1], f.data) /\ in_graph(r[1], f.data) => q = r

DataTriples == {q[2] : q \in Quads[schema]}
RunTyped ==
    /\ schema \in DOMAIN Schemas /\ options \in Filters[schema]
    /\ data_quads \subseteq Quads[schema] /\ base \subseteq Quads[schema]
    /\ graph \subseteq DataTriples
    /\ recorded \in [open : BOOLEAN, changes : Seq(Changes)]

\* A triple that no change since the checkpoint names is in the graph as it was in the store
\* at the checkpoint; of one that some change names, the first of them tells where it was.
BackAt(at, t, G, changes) ==
    /\ Mentions(changes, t) = {} => (t \in G <=> t \in at)
    /\ Mentions(changes, t) # {} =>
            \E i \in Mentions(changes, t) : (\A j \in Mentions(changes, t) : i <= j) /\ (changes[i].added <=> t \notin at)
Undoable == recorded.open /\ ~stale => \A t \in DataTriples : BackAt(bridge(base, options.data), t, graph, recorded.changes)

\* The inductive invariant behind RunInStep.
RunInv == RunTyped /\ Undoable /\ RunInStep

\* A set of naturals has a least member.
LEMMA LeastIndex ==
    ASSUME NEW T \in SUBSET Nat, T # {}
    PROVE  \E m \in T : \A k \in T : m <= k
<1> DEFINE R == OpToRel(<, Nat)
<1>1. IsWellFoundedOn(R, Nat)
  BY NatLessThanWellFounded
<1>2. \A x, y \in Nat : x < y => <<x, y>> \in R
  BY DEF OpToRel
<1> HIDE DEF R
<1>3. PICK x \in T : \A y \in T : ~(<<y, x>> \in R)
  BY <1>1, WFMin
<1>4. ASSUME NEW k \in T PROVE x <= k
  <2>1. k \in Nat /\ x \in Nat
    OBVIOUS
  <2>2. k < x => <<k, x>> \in R
    BY <1>2, <2>1
  <2> QED
    BY <1>3, <2>1, <2>2
<1> QED
  BY <1>4

\* A set of positions in a sequence has a first and a last one.
LEMMA FirstAndLast ==
    ASSUME NEW m \in Nat, NEW T \in SUBSET (1..m), T # {}
    PROVE  /\ \E i \in T : \A j \in T : i <= j
           /\ \E i \in T : \A j \in T : j <= i
<1>1. \E i \in T : \A j \in T : i <= j
  BY LeastIndex
<1> DEFINE U == {m - i : i \in T}
<1>2. U \in SUBSET Nat /\ U # {}
  <2>1. \A i \in T : m - i \in Nat
    OBVIOUS
  <2> QED
    BY <2>1
<1>3. PICK u \in U : \A k \in U : u <= k
  BY <1>2, LeastIndex
<1>4. PICK i \in T : u = m - i
  OBVIOUS
<1>5. ASSUME NEW j \in T PROVE j <= i
  BY <1>3, <1>4
<1> QED
  BY <1>1, <1>5

\* The members of a sequence.
LEMMA AtEach ==
    ASSUME NEW D, NEW c \in Seq(D)
    PROVE  DOMAIN c = 1..Len(c) /\ Len(c) \in Nat /\ \A i \in DOMAIN c : c[i] \in D
OBVIOUS

\* What a sequence of changes is made of.
LEMMA ChangeTypes ==
    ASSUME NEW c \in Seq(Changes)
    PROVE  DOMAIN c = 1..Len(c) /\ Len(c) \in Nat /\ \A i \in DOMAIN c : c[i].quad \in Quads[schema] /\ c[i].added \in BOOLEAN
<1>1. DOMAIN c = 1..Len(c) /\ Len(c) \in Nat /\ \A i \in DOMAIN c : c[i] \in Changes
  BY AtEach
<1> QED
  BY <1>1 DEF Changes

\* The last change to a triple decides, and a triple that none names stays as it was
\* (EngineRun::apply, Graph::apply).
LEMMA AppliedAt ==
    ASSUME NEW c \in Seq(Changes), NEW G, NEW t
    PROVE  /\ Mentions(c, t) = {} => (t \in applied(G, c) <=> t \in G)
           /\ \A i \in Mentions(c, t) : (\A j \in Mentions(c, t) : j <= i) => (t \in applied(G, c) <=> c[i].added)
<1>1. DOMAIN c = 1..Len(c) /\ Len(c) \in Nat /\ \A i \in DOMAIN c : c[i] \in Changes /\ c[i].added \in BOOLEAN
  BY AtEach, ChangeTypes
<1>2. ASSUME Mentions(c, t) = {} PROVE t \in applied(G, c) <=> t \in G
  BY <1>2 DEF applied, net
<1>3. ASSUME NEW i \in Mentions(c, t), \A j \in Mentions(c, t) : j <= i PROVE t \in applied(G, c) <=> c[i].added
  <2>1. i \in DOMAIN c /\ c[i].quad[2] = t /\ c[i].added \in BOOLEAN
    BY <1>1, <1>3 DEF Mentions
  <2>2. \A j \in Mentions(c, t) : (\A k \in Mentions(c, t) : k <= j) => j = i
    <3>1. Mentions(c, t) \subseteq Nat
      BY <1>1 DEF Mentions
    <3> QED
      BY <1>3, <3>1
  <2>3. t \in {c[k].quad[2] : k \in DOMAIN c}
    BY <2>1
  <2>4. ASSUME NEW a \in BOOLEAN PROVE t \in net(c, a) <=> c[i].added = a
    BY <1>3, <2>2, <2>3 DEF net
  <2> QED
    BY <2>1, <2>4 DEF applied
<1> QED
  BY <1>2, <1>3

\* The same of the store.
LEMMA AfterAt ==
    ASSUME NEW c \in Seq(Changes), NEW S, NEW q
    PROVE  /\ (\A i \in DOMAIN c : c[i].quad # q) => (q \in After(S, c) <=> q \in S)
           /\ \A i \in DOMAIN c : c[i].quad = q /\ (\A j \in DOMAIN c : c[j].quad = q => j <= i)
                                    => (q \in After(S, c) <=> c[i].added)
<1>1. DOMAIN c = 1..Len(c) /\ Len(c) \in Nat /\ \A i \in DOMAIN c : c[i] \in Changes /\ c[i].added \in BOOLEAN
  BY AtEach, ChangeTypes
<1>2. ASSUME \A i \in DOMAIN c : c[i].quad # q PROVE q \in After(S, c) <=> q \in S
  BY <1>2 DEF After, Ends
<1>3. ASSUME NEW i \in DOMAIN c, c[i].quad = q, \A j \in DOMAIN c : c[j].quad = q => j <= i PROVE q \in After(S, c) <=> c[i].added
  <2>1. i \in DOMAIN c /\ c[i].quad = q /\ c[i].added \in BOOLEAN /\ c[i] = [quad |-> q, added |-> c[i].added]
    BY <1>1, <1>3 DEF Changes
  <2>2. \A j \in DOMAIN c : c[j].quad = q => j <= i
    BY <1>3
  <2>3. ASSUME NEW a \in BOOLEAN PROVE q \in Ends(c, a) <=> c[i].added = a
    <3>1. ASSUME c[i].added = a PROVE q \in Ends(c, a)
      BY <2>1, <2>2, <3>1 DEF Ends
    <3>2. ASSUME q \in Ends(c, a) PROVE c[i].added = a
      <4>1. PICK k \in DOMAIN c : /\ c[k] = [quad |-> q, added |-> a]
                                  /\ \A j \in DOMAIN c : c[j].quad = q => j <= k
        BY <3>2 DEF Ends
      <4>2. c[k].quad = q /\ c[k].added = a
        BY <4>1
      <4>3. i <= k /\ k <= i
        BY <2>1, <2>2, <4>1, <4>2
      <4>4. i = k
        BY <1>1, <2>1, <4>3
      <4> QED
        BY <4>2, <4>4
    <3> QED
      BY <3>1, <3>2
  <2> QED
    BY <2>1, <2>3 DEF After
<1> QED
  BY <1>2, <1>3

\* What a run is set up with: a shapes graph, and a filter under which no triple is selected twice.
Prepared == OneGraph /\ schema \in DOMAIN Schemas /\ options \in Filters[schema]
Selected(q) == q \in Quads[schema] /\ in_graph(q[1], options.data)

\* A selected quad is in a store when its triple is in the graph bridged from it.
LEMMA InBridge ==
    ASSUME Prepared, NEW S, S \subseteq Quads[schema], NEW q, Selected(q)
    PROVE  q[2] \in bridge(S, options.data) <=> q \in S
<1>1. ASSUME NEW r \in S, in_graph(r[1], options.data), r[2] = q[2] PROVE q = r
  BY <1>1 DEF Prepared, OneGraph, Selected
<1> QED
  BY <1>1 DEF bridge, Selected

\* A triple that is in no selected quad is in no graph and named by no change.
LEMMA NotSelected ==
    ASSUME NEW S, S \subseteq Quads[schema], NEW c \in Seq(Changes), NEW t, \A q : Selected(q) => q[2] # t
    PROVE  t \notin bridge(S, options.data) /\ Mentions(c, t) = {}
<1>1. t \notin bridge(S, options.data)
  BY DEF bridge, Selected
<1>2. \A i \in DOMAIN c : c[i].quad \in Quads[schema]
  BY ChangeTypes
<1>3. Mentions(c, t) = {}
  BY <1>2 DEF Mentions, Selected
<1> QED
  BY <1>1, <1>3

\* The changes to a selected quad are those that name its triple.
LEMMA ChangesTo ==
    ASSUME Prepared, NEW c \in Seq(Changes), NEW q, Selected(q)
    PROVE  Mentions(c, q[2]) = {i \in DOMAIN c : c[i].quad = q}
<1>1. \A i \in DOMAIN c : c[i].quad \in Quads[schema]
  BY ChangeTypes
<1>2. ASSUME NEW i \in DOMAIN c, in_graph(c[i].quad[1], options.data), c[i].quad[2] = q[2] PROVE c[i].quad = q
  BY <1>1, <1>2 DEF Prepared, OneGraph, Selected
<1>3. ASSUME NEW i \in DOMAIN c, c[i].quad = q PROVE in_graph(c[i].quad[1], options.data) /\ c[i].quad[2] = q[2]
  BY <1>3 DEF Selected
<1> QED
  BY <1>2, <1>3 DEF Mentions

\* What the graph makes of a write is the graph of the store it leaves.
LEMMA WriteInStep ==
    ASSUME Prepared, NEW S, S \subseteq Quads[schema], NEW c \in Seq(Changes)
    PROVE  /\ After(S, c) \subseteq Quads[schema]
           /\ applied(bridge(S, options.data), c) = bridge(After(S, c), options.data)
<1>1. \A i \in DOMAIN c : c[i].quad \in Quads[schema]
  BY ChangeTypes
<1>2. After(S, c) \subseteq Quads[schema]
  BY <1>1 DEF After, Ends
<1> DEFINE A == applied(bridge(S, options.data), c)
           B == bridge(After(S, c), options.data)
<1>3. ASSUME NEW t PROVE t \in A <=> t \in B
  <2>1. CASE \A q : Selected(q) => q[2] # t
    <3>1. t \notin bridge(S, options.data) /\ t \notin B /\ Mentions(c, t) = {}
      BY <1>2, <2>1, NotSelected
    <3> QED
      BY <3>1, AppliedAt
  <2>2. ASSUME NEW q, Selected(q), q[2] = t PROVE t \in A <=> t \in B
    <3> DEFINE T == {i \in DOMAIN c : c[i].quad = q}
    <3>1. Mentions(c, t) = T
      BY <2>2, ChangesTo
    <3>2. (t \in bridge(S, options.data) <=> q \in S) /\ (t \in B <=> q \in After(S, c))
      BY <1>2, <2>2, InBridge
    <3>3. CASE T = {}
      <4>1. t \in A <=> t \in bridge(S, options.data)
        BY <3>1, <3>3, AppliedAt
      <4>2. q \in After(S, c) <=> q \in S
        BY <3>3, AfterAt
      <4> QED
        BY <3>2, <4>1, <4>2
    <3>4. CASE T # {}
      <4>1. PICK i \in T : \A j \in T : j <= i
        <5>1. Len(c) \in Nat /\ T \in SUBSET (1..Len(c))
          BY AtEach
        <5> HIDE DEF T
        <5> QED
          BY <3>4, <5>1, FirstAndLast
      <4> HIDE DEF T
      <4>2. t \in A <=> c[i].added
        BY <3>1, <4>1, AppliedAt
      <4> USE DEF T
      <4>3. i \in DOMAIN c /\ c[i].quad = q /\ \A j \in DOMAIN c : c[j].quad = q => j <= i
        BY <4>1
      <4>4. q \in After(S, c) <=> c[i].added
        BY <4>3, AfterAt
      <4> QED
        BY <3>2, <4>2, <4>4
    <3> QED
      BY <3>3, <3>4
  <2> QED
    BY <2>1, <2>2
<1> QED
  BY <1>2, <1>3

\* Of changes that took effect, the first to a quad tells where it was.
LEMMA FirstTells ==
    ASSUME NEW S, NEW c \in Seq(Changes), TookEffect(S, c),
           NEW i \in DOMAIN c, \A j \in DOMAIN c : c[j].quad = c[i].quad => i <= j
    PROVE  c[i].added <=> c[i].quad \notin S
<1>1. DOMAIN c = 1..Len(c) /\ Len(c) \in Nat
  BY AtEach
<1>2. PICK d : d = SubSeq(c, 1, i - 1)
  OBVIOUS
<1>3. d \in Seq(Changes) /\ DOMAIN d = 1..(i - 1) /\ \A j \in 1..(i - 1) : d[j] = c[j]
  BY <1>1, <1>2, SubSeqProperties
<1>4. \A j \in DOMAIN d : d[j].quad # c[i].quad
  BY <1>1, <1>3
<1>5. c[i].quad \in After(S, d) <=> c[i].quad \in S
  BY <1>3, <1>4, AfterAt
<1> QED
  BY <1>2, <1>5 DEF TookEffect

\* Two sequences of changes, one after the other: the changes to a triple are those of both.
Joined(c, d, e, t) ==
    /\ e \in Seq(Changes)
    /\ \A i \in DOMAIN e : i \in Mentions(e, t) <=> IF i <= Len(c) THEN i \in Mentions(c, t) ELSE i - Len(c) \in Mentions(d, t)
    /\ \A i \in Mentions(c, t) : i \in Mentions(e, t) /\ e[i] = c[i]
    /\ \A i \in Mentions(d, t) : Len(c) + i \in Mentions(e, t) /\ e[Len(c) + i] = d[i]

\* So it is with one sequence put after another.
LEMMA MentionsBoth ==
    ASSUME NEW c \in Seq(Changes), NEW d \in Seq(Changes), NEW t
    PROVE  Joined(c, d, c \o d, t)
<1>1. DOMAIN c = 1..Len(c) /\ Len(c) \in Nat /\ DOMAIN d = 1..Len(d) /\ Len(d) \in Nat
  BY AtEach
<1>2. PICK e : e = c \o d
  OBVIOUS
<1>3. e \in Seq(Changes) /\ DOMAIN e = 1..(Len(c) + Len(d))
  BY <1>1, <1>2
<1>4. \A i \in 1..(Len(c) + Len(d)) : e[i] = IF i <= Len(c) THEN c[i] ELSE d[i - Len(c)]
  BY <1>1, <1>2
<1>5. ASSUME NEW i \in DOMAIN e PROVE i \in Mentions(e, t) <=> IF i <= Len(c) THEN i \in Mentions(c, t) ELSE i - Len(c) \in Mentions(d, t)
  BY <1>1, <1>3, <1>4 DEF Mentions
<1>6. ASSUME NEW i \in Mentions(c, t) PROVE i \in Mentions(e, t) /\ e[i] = c[i]
  <2>1. i \in 1..Len(c)
    BY <1>1 DEF Mentions
  <2> QED
    BY <1>1, <1>3, <1>4, <1>5, <2>1
<1>7. ASSUME NEW i \in Mentions(d, t) PROVE Len(c) + i \in Mentions(e, t) /\ e[Len(c) + i] = d[i]
  <2>1. i \in 1..Len(d)
    BY <1>1 DEF Mentions
  <2>2. Len(c) + i \in DOMAIN e /\ ~(Len(c) + i <= Len(c)) /\ (Len(c) + i) - Len(c) = i
    BY <1>1, <1>3, <2>1
  <2> QED
    BY <1>3, <1>4, <1>5, <2>2
<1> QED
  BY <1>2, <1>3, <1>5, <1>6, <1>7 DEF Joined

\* A write after others: the graph can still be taken back to where it was at the checkpoint.
LEMMA WriteUndoable ==
    ASSUME Prepared, NEW S, S \subseteq Quads[schema], NEW c \in Seq(Changes), NEW d \in Seq(Changes), TookEffect(S, d),
           NEW G, G = bridge(S, options.data), NEW at, NEW t, BackAt(at, t, G, c)
    PROVE  BackAt(at, t, applied(G, d), c \o d)
<1>1. DOMAIN c = 1..Len(c) /\ Len(c) \in Nat /\ DOMAIN d = 1..Len(d) /\ Len(d) \in Nat
  BY AtEach
<1>2. PICK e : e = c \o d
  OBVIOUS
<1>3. /\ e \in Seq(Changes)
      /\ \A i \in DOMAIN e : i \in Mentions(e, t) <=> IF i <= Len(c) THEN i \in Mentions(c, t) ELSE i - Len(c) \in Mentions(d, t)
      /\ \A i \in Mentions(c, t) : i \in Mentions(e, t) /\ e[i] = c[i]
      /\ \A i \in Mentions(d, t) : Len(c) + i \in Mentions(e, t) /\ e[Len(c) + i] = d[i]
  <2>1. Joined(c, d, e, t)
    BY <1>2, MentionsBoth
  <2> QED
    BY <2>1 DEF Joined
<1>4. DOMAIN e = 1..Len(e) /\ Len(e) \in Nat /\ Mentions(e, t) \subseteq DOMAIN e /\ Mentions(c, t) \subseteq 1..Len(c) /\ Mentions(d, t) \subseteq 1..Len(d)
  <2>1. DOMAIN e = 1..Len(e) /\ Len(e) \in Nat
    BY <1>3, AtEach
  <2> QED
    BY <1>1, <2>1 DEF Mentions
<1>5. CASE Mentions(c, t) # {}
  <2>1. PICK i \in Mentions(c, t) : (\A j \in Mentions(c, t) : i <= j) /\ (c[i].added <=> t \notin at)
    BY <1>5 DEF BackAt
  <2>2. i \in Mentions(e, t) /\ (e[i].added <=> t \notin at)
    BY <1>3, <2>1
  <2>3. ASSUME NEW j \in Mentions(e, t) PROVE i <= j
    BY <1>1, <1>3, <1>4, <2>1
  <2> QED
    BY <1>2, <2>2, <2>3 DEF BackAt
<1>6. CASE Mentions(c, t) = {} /\ Mentions(d, t) = {}
  <2>1. Mentions(e, t) = {}
    BY <1>3, <1>4, <1>6
  <2>2. t \in applied(G, d) <=> t \in G
    BY <1>6, AppliedAt
  <2> QED
    BY <1>2, <1>6, <2>1, <2>2 DEF BackAt
<1>7. CASE Mentions(c, t) = {} /\ Mentions(d, t) # {}
  <2>1. PICK i \in Mentions(d, t) : \A j \in Mentions(d, t) : i <= j
    BY <1>1, <1>4, <1>7, FirstAndLast
  <2>2. PICK q : q = d[i].quad
    OBVIOUS
  <2>3. i \in DOMAIN d /\ Selected(q) /\ q[2] = t
    BY <2>1, <2>2, ChangeTypes DEF Mentions, Selected
  <2>4. Mentions(d, t) = {j \in DOMAIN d : d[j].quad = q}
    BY <2>3, ChangesTo
  <2>5. d[i].added <=> q \notin S
    BY <2>1, <2>2, <2>3, <2>4, FirstTells
  <2>6. t \in G <=> q \in S
    BY <2>3, InBridge
  <2>7. Len(c) + i \in Mentions(e, t) /\ (e[Len(c) + i].added <=> t \notin at)
    BY <1>3, <1>7, <2>1, <2>5, <2>6 DEF BackAt
  <2>8. ASSUME NEW j \in Mentions(e, t) PROVE Len(c) + i <= j
    BY <1>1, <1>3, <1>4, <1>7, <2>1
  <2> QED
    BY <1>2, <2>7, <2>8 DEF BackAt
<1> QED
  BY <1>5, <1>6, <1>7

\* Undone last first, the changes take the graph back to the checkpoint (EngineRun::revert).
LEMMA UndoneIs ==
    ASSUME NEW c \in Seq(Changes), NEW G, NEW at, NEW t, BackAt(at, t, G, c)
    PROVE  t \in applied(G, inverse(c)) <=> t \in at
<1>1. DOMAIN c = 1..Len(c) /\ Len(c) \in Nat /\ \A i \in DOMAIN c : c[i] \in Changes
  BY AtEach
<1>2. PICK e : e = inverse(c)
  OBVIOUS
<1>3. \A k \in Changes : undone(k) \in Changes /\ undone(k).quad = k.quad /\ (undone(k).added <=> ~k.added)
  BY DEF undone, Changes
<1>4. e = [i \in 1..Len(c) |-> undone(c[Len(c) - i + 1])]
  BY <1>2 DEF inverse
<1>5. \A i \in 1..Len(c) : Len(c) - i + 1 \in 1..Len(c) /\ Len(c) - (Len(c) - i + 1) + 1 = i
  BY <1>1
<1>6. e \in Seq(Changes) /\ DOMAIN e = 1..Len(c)
  BY <1>1, <1>3, <1>4, <1>5
<1>7. \A i \in 1..Len(c) : e[i].quad = c[Len(c) - i + 1].quad /\ (e[i].added <=> ~c[Len(c) - i + 1].added)
  BY <1>1, <1>3, <1>4, <1>5
<1>8. \A i \in 1..Len(c) : i \in Mentions(e, t) <=> Len(c) - i + 1 \in Mentions(c, t)
  BY <1>1, <1>5, <1>6, <1>7 DEF Mentions
<1>9. CASE Mentions(c, t) = {}
  <2>1. Mentions(e, t) = {}
    BY <1>6, <1>8, <1>9 DEF Mentions
  <2> QED
    BY <1>2, <1>6, <1>9, <2>1, AppliedAt DEF BackAt
<1>10. CASE Mentions(c, t) # {}
  <2>1. PICK i \in Mentions(c, t) : (\A j \in Mentions(c, t) : i <= j) /\ (c[i].added <=> t \notin at)
    BY <1>10 DEF BackAt
  <2>2. PICK k : k = Len(c) - i + 1
    OBVIOUS
  <2>3. i \in 1..Len(c) /\ k \in 1..Len(c) /\ Len(c) - k + 1 = i
    BY <1>1, <2>2 DEF Mentions
  <2>4. k \in Mentions(e, t) /\ (e[k].added <=> t \in at)
    BY <1>7, <1>8, <2>1, <2>3
  <2>5. ASSUME NEW j \in Mentions(e, t) PROVE j <= k
    <3>1. j \in 1..Len(c)
      BY <1>6 DEF Mentions
    <3>2. i <= Len(c) - j + 1
      BY <1>8, <2>1, <3>1
    <3> QED
      BY <1>1, <2>2, <2>3, <3>1, <3>2
  <2> QED
    BY <1>2, <1>6, <2>4, <2>5, AppliedAt
<1> QED
  BY <1>9, <1>10

\* Undoing brings nothing into the graph but triples of the data.
LEMMA InverseWithin ==
    ASSUME NEW c \in Seq(Changes), NEW G, G \subseteq DataTriples
    PROVE  applied(G, inverse(c)) \subseteq DataTriples
<1>1. DOMAIN c = 1..Len(c) /\ Len(c) \in Nat /\ \A i \in DOMAIN c : c[i] \in Changes
  BY AtEach
<1>2. \A k \in Changes : undone(k).quad = k.quad /\ k.quad[2] \in DataTriples
  BY DEF undone, Changes, DataTriples
<1>3. \A i \in 1..Len(c) : Len(c) - i + 1 \in 1..Len(c)
  BY <1>1
<1>4. DOMAIN inverse(c) = 1..Len(c) /\ \A i \in 1..Len(c) : inverse(c)[i].quad[2] \in DataTriples
  BY <1>1, <1>2, <1>3 DEF inverse
<1>5. \A a : net(inverse(c), a) \subseteq DataTriples
  BY <1>4 DEF net
<1> QED
  BY <1>5 DEF applied

\* A run is prepared in step with its store.
LEMMA InitRun == RunInit => RunInv
<1> SUFFICES ASSUME RunInit PROVE RunInv
  OBVIOUS
<1>1. bridge(data_quads, options.data) \subseteq DataTriples
  BY DEF RunInit, bridge, DataTriples
<1>2. recorded \in [open : BOOLEAN, changes : Seq(Changes)] /\ ~recorded.open
  BY DEF RunInit
<1>3. RunTyped
  BY <1>1, <1>2 DEF RunInit, RunTyped
<1> QED
  BY <1>2, <1>3 DEF RunInv, Undoable, RunInStep, data, RunInit

\* Every step keeps the graph in step with the store, or says that it is not, and able to be
\* taken back to its checkpoint.
LEMMA NextRun == OneGraph /\ RunInv /\ [RunNext]_run_vars => RunInv'
<1> SUFFICES ASSUME OneGraph, RunInv, [RunNext]_run_vars PROVE RunInv'
  OBVIOUS
<1> USE RunAssumption
<1> DEFINE F == options.data
           P == recorded.changes
<1>1. /\ Prepared /\ data_quads \subseteq Quads[schema] /\ base \subseteq Quads[schema] /\ graph \subseteq DataTriples
      /\ recorded \in [open : BOOLEAN, changes : Seq(Changes)] /\ P \in Seq(Changes)
  BY DEF RunInv, RunTyped, Prepared
<1>2. \A S : S \subseteq Quads[schema] => bridge(S, F) \subseteq DataTriples
  BY DEF bridge, DataTriples
<1>3. \A closed : closed = [open |-> FALSE, changes |-> <<>>] => closed \in [open : BOOLEAN, changes : Seq(Changes)] /\ ~closed.open
  OBVIOUS
<1>4. CASE prepare
  <2>1. UNCHANGED <<schema, options, data_quads, base>> /\ graph' = bridge(data_quads, F) /\ recorded' = [open |-> FALSE, changes |-> <<>>]
    BY <1>4 DEF prepare
  <2>2. recorded' \in [open : BOOLEAN, changes : Seq(Changes)] /\ ~recorded'.open
    BY <1>3, <2>1
  <2>3. RunTyped'
    BY <1>1, <1>2, <2>1, <2>2 DEF RunTyped, Prepared, DataTriples, Changes
  <2>4. RunInStep' /\ Undoable'
    BY <2>1, <2>2 DEF RunInStep, data, Undoable
  <2> QED
    BY <2>3, <2>4 DEF RunInv
<1>5. CASE Write
  <2>0. PICK m \in 1..MaxChanges[schema] : \E c \in [1..m -> Changes] : \E unreadable \in BOOLEAN :
            /\ ~refusal /\ TookEffect(data_quads, c) /\ data_quads' = After(data_quads, c) /\ apply(c, unreadable)
            /\ UNCHANGED <<schema, options, base, stale>>
    BY <1>5 DEF Write
  <2>1. PICK c \in [1..m -> Changes], unreadable \in BOOLEAN :
            /\ ~refusal /\ TookEffect(data_quads, c) /\ data_quads' = After(data_quads, c) /\ apply(c, unreadable)
            /\ UNCHANGED <<schema, options, base, stale>>
    BY <2>0
  <2>2. c \in Seq(Changes)
    <3>1. m \in Nat
      BY <1>1 DEF Prepared
    <3> QED
      BY <2>1, <3>1
  <2>3. data_quads' \subseteq Quads[schema] /\ applied(bridge(data_quads, F), c) = bridge(data_quads', F)
    BY <1>1, <2>1, <2>2, WriteInStep
  <2>4. CASE refused(c) \/ unreadable
    <3>1. refusal' = TRUE /\ UNCHANGED <<graph, recorded>>
      BY <2>1, <2>4 DEF apply
    <3>2. RunTyped'
      BY <1>1, <2>1, <2>3, <3>1 DEF RunTyped, Prepared, DataTriples, Changes
    <3>3. Undoable'
      <4>1. \A t : BackAt(bridge(base, options.data), t, graph, recorded.changes)' <=> BackAt(bridge(base, options.data), t, graph, recorded.changes)
        BY <2>1, <3>1 DEF BackAt, Mentions, bridge
      <4> QED
        BY <2>1, <3>1, <4>1 DEF RunInv, Undoable, DataTriples
    <3> QED
      BY <3>1, <3>2, <3>3 DEF RunInv, RunInStep, Usable
  <2>5. CASE ~(refused(c) \/ unreadable)
    <3>1. /\ graph' = applied(graph, c) /\ UNCHANGED refusal /\ ~stale
          /\ recorded' = IF recorded.open THEN [recorded EXCEPT !.changes = P \o c] ELSE recorded
      BY <2>1, <2>5 DEF apply, refused
    <3>2. graph = bridge(data_quads, F)
      BY <2>1, <3>1 DEF RunInv, RunInStep, Usable, data
    <3>3. graph' = bridge(data_quads', F) /\ graph' \subseteq DataTriples
      BY <1>2, <2>3, <3>1, <3>2
    <3>4. recorded' \in [open : BOOLEAN, changes : Seq(Changes)] /\ (recorded'.open => recorded.open /\ recorded'.changes = P \o c)
      <4>1. P \o c \in Seq(Changes)
        BY <1>1, <2>2
      <4> QED
        BY <1>1, <3>1, <4>1
    <3>5. RunTyped'
      BY <1>1, <2>1, <2>3, <3>3, <3>4 DEF RunTyped, Prepared, DataTriples, Changes
    <3>6. ASSUME recorded'.open, NEW t \in DataTriples PROVE BackAt(bridge(base, F), t, graph', recorded'.changes)
      <4>1. BackAt(bridge(base, F), t, graph, P)
        BY <3>1, <3>4, <3>6 DEF RunInv, Undoable
      <4>2. BackAt(bridge(base, F), t, applied(graph, c), P \o c)
        BY <1>1, <2>1, <2>2, <3>2, <4>1, WriteUndoable
      <4> QED
        BY <3>1, <3>4, <3>6, <4>2
    <3>7. Undoable'
      <4>1. ASSUME NEW t, BackAt(bridge(base, F), t, graph', recorded'.changes)
            PROVE  BackAt(bridge(base, options.data), t, graph, recorded.changes)'
        BY <2>1, <4>1 DEF BackAt, Mentions, bridge
      <4> QED
        BY <2>1, <3>6, <4>1 DEF Undoable, DataTriples
    <3> QED
      BY <2>1, <3>3, <3>5, <3>7 DEF RunInv, RunInStep, data
  <2> QED
    BY <2>4, <2>5
<1>6. CASE checkpoint
  <2>1. /\ UNCHANGED <<schema, options, data_quads, graph, stale, refusal>> /\ base' = data_quads /\ ~refusal
        /\ recorded' = [open |-> TRUE, changes |-> <<>>]
    BY <1>6 DEF checkpoint
  <2>2. recorded' \in [open : BOOLEAN, changes : Seq(Changes)] /\ recorded'.changes = <<>>
    BY <2>1
  <2>3. RunTyped'
    BY <1>1, <2>1, <2>2 DEF RunTyped, Prepared, DataTriples, Changes
  <2>4. RunInStep'
    BY <2>1 DEF RunInv, RunInStep, Usable, data
  <2>5. Undoable'
    <3>1. ASSUME ~stale, NEW t PROVE BackAt(bridge(base, options.data), t, graph, recorded.changes)'
      <4>1. graph' = bridge(base', options'.data)
        BY <2>1, <3>1 DEF RunInv, RunInStep, Usable, data
      <4>2. Mentions(recorded.changes, t)' = {}
        BY <2>2 DEF Mentions
      <4> QED
        BY <4>1, <4>2 DEF BackAt
    <3> QED
      BY <2>1, <3>1 DEF Undoable
  <2> QED
    BY <2>3, <2>4, <2>5 DEF RunInv
<1>7. CASE accept
  <2>1. /\ UNCHANGED <<schema, options, data_quads, graph, stale, refusal>> /\ base' = {}
        /\ recorded' = [open |-> FALSE, changes |-> <<>>]
    BY <1>7 DEF accept
  <2>2. recorded' \in [open : BOOLEAN, changes : Seq(Changes)] /\ ~recorded'.open
    BY <1>3, <2>1
  <2>3. RunTyped'
    BY <1>1, <2>1, <2>2 DEF RunTyped, Prepared, DataTriples, Changes
  <2>4. RunInStep' /\ Undoable'
    BY <2>1, <2>2 DEF RunInv, RunInStep, Usable, data, Undoable
  <2> QED
    BY <2>3, <2>4 DEF RunInv
<1>8. CASE revert
  <2>1. /\ recorded.open /\ UNCHANGED <<schema, options>> /\ data_quads' = base /\ base' = {}
        /\ recorded' = [open |-> FALSE, changes |-> <<>>]
    BY <1>8 DEF revert
  <2>2. \/ stale' = TRUE /\ UNCHANGED graph
        \/ graph' = applied(graph, inverse(P)) /\ UNCHANGED stale /\ ~stale
    BY <1>8 DEF revert, refused
  <2>3. recorded' \in [open : BOOLEAN, changes : Seq(Changes)] /\ ~recorded'.open
    BY <1>3, <2>1
  <2>4. CASE stale' = TRUE /\ UNCHANGED graph
    <3>1. RunTyped'
      BY <1>1, <2>1, <2>3, <2>4 DEF RunTyped, Prepared, DataTriples, Changes
    <3> QED
      BY <2>3, <2>4, <3>1 DEF RunInv, RunInStep, Usable, Undoable
  <2>5. CASE graph' = applied(graph, inverse(P)) /\ UNCHANGED stale /\ ~stale
    <3>1. \A t \in DataTriples : t \in graph' <=> t \in bridge(base, F)
      BY <1>1, <2>1, <2>5, UndoneIs DEF RunInv, Undoable
    <3>2. graph' \subseteq DataTriples
      BY <1>1, <2>5, InverseWithin
    <3>3. bridge(base, F) \subseteq DataTriples
      BY <1>1, <1>2
    <3>4. graph' = bridge(base, F)
      BY <3>1, <3>2, <3>3
    <3>5. RunTyped'
      BY <1>1, <2>1, <2>3, <3>2 DEF RunTyped, Prepared, DataTriples, Changes
    <3> QED
      BY <2>1, <2>3, <3>4, <3>5 DEF RunInv, RunInStep, data, Undoable
  <2> QED
    BY <2>2, <2>4, <2>5
<1>9. CASE UNCHANGED run_vars
  <2>1. UNCHANGED <<schema, options, data_quads, graph, recorded, base, stale, refusal>>
    BY <1>9 DEF run_vars
  <2>2. \A t : BackAt(bridge(base, options.data), t, graph, recorded.changes)' <=> BackAt(bridge(base, options.data), t, graph, recorded.changes)
    BY <2>1 DEF BackAt, Mentions, bridge
  <2>3. RunTyped'
    BY <1>1, <2>1 DEF RunTyped, Prepared, DataTriples, Changes
  <2> QED
    BY <2>1, <2>2, <2>3 DEF RunInv, RunInStep, Usable, data, Undoable, DataTriples
<1> QED
  BY <1>4, <1>5, <1>6, <1>7, <1>8, <1>9 DEF RunNext

\* If no triple is in two of the graphs that the run was given as its data, the graph that the
\* engine keeps is the store's whenever it can be used, through writes, refusals, reverts and
\* new preparations, for any shapes graphs, quads, and changes in a write and since a
\* checkpoint (EngineRun::apply, EngineRun::revert).
THEOREM RunAlwaysInStep ==
    ASSUME OneGraph
    PROVE  RunSpec => []RunInStep
<1>1. RunInit => RunInv
  BY InitRun
<1>2. RunInv /\ [RunNext]_run_vars => RunInv'
  BY NextRun
<1>3. RunInv => RunInStep
  BY DEF RunInv
<1> QED
  BY <1>1, <1>2, <1>3, PTL DEF RunSpec
=============================================================================
