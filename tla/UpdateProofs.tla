---------------------------- MODULE UpdateProofs ----------------------------
(***************************************************************************)
(* That a request is all or nothing, that one which succeeds leaves what   *)
(* its operations mean, and that it keeps to the policy quad by quad, for  *)
(* any quads, graphs, policies and bounds.                                 *)
(***************************************************************************)
EXTENDS Update, TLAPS

\* The parts of TypeOK that the arguments below need.
Plan == [remove : SUBSET Statement, insert : SUBSET Statement, drop : SUBSET NamedGraph, create : SUBSET NamedGraph, silent : BOOLEAN]

Typed ==
    /\ committed \in Store!Dataset /\ current \in Store!Dataset /\ meant \in Store!Dataset
    /\ loose \in Store!Dataset /\ plan \in Plan
    /\ session \in Session /\ target \in NamedGraph \cup {HomeDefault}

\* The scope is open while a request is served, and holds all that it has written.
ScopeInv ==
    /\ open = (pc # "idle")
    /\ AllOrNothing

\* Until it is applied, the plan stands between what the store holds and what is meant, but
\* for what a hidden failure has left loose.
Applied == With(Without(current, plan.remove, plan.drop), plan.insert, plan.create)

MeaningInv ==
    /\ pc # "working" => plan.remove = {} /\ plan.insert = {} /\ plan.drop = {} /\ plan.create = {}
    /\ plan.insert # {} \/ plan.create # {} => plan.drop = {}
    /\ pc \notin {"idle", "ending"} => ended_as = "ok"
    /\ pc # "idle" /\ ended_as = "ok" => Agree(Applied, meant)
    /\ pc = "idle" /\ ended_as = "ok" => Agree(committed, meant)

-----------------------------------------------------------------------------
\* The scope: every action but the first and the last of a request either leaves the
\* store alone or writes inside the scope.
LEMMA ScopeKept ==
    ASSUME ScopeInv, [UpdateNext]_update_vars
    PROVE  ScopeInv'
<1> USE DEF ScopeInv, AllOrNothing, store, request, history
<1>1. CASE StartUpdate
  BY <1>1 DEF StartUpdate, Store!Begin
<1>2. CASE StartGraphStore
  BY <1>2 DEF StartGraphStore, Store!Begin
<1>3. CASE InsertData \/ DeleteData \/ delete_insert \/ load \/ Clear \/ drop_graph \/ create \/ merge_graph
  BY <1>3 DEF InsertData, DeleteData, delete_insert, load, Clear, drop_graph, clear, create, merge_graph, NextOperation, Begins, RefusedAt, silence, EndsWith
<1>4. CASE EndUpdate \/ gsp_clear \/ EndDelete \/ EndOperation \/ Denied
  BY <1>4 DEF EndUpdate, gsp_clear, EndDelete, EndOperation, Denied, silence, EndsWith
<1>5. CASE remove \/ insert \/ remove_named_graph \/ insert_graph_name
  BY <1>5 DEF remove, insert, remove_named_graph, insert_graph_name, Writes,
     Store!Remove, Store!Insert, Store!DropNamedGraph, Store!InsertNamedGraph, Store!Write
<1>6. CASE StoreFails
  BY <1>6 DEF StoreFails, silence, EndsWith,
     Store!Remove, Store!Insert, Store!DropNamedGraph, Store!InsertNamedGraph, Store!Write
<1>7. CASE gsp_create
  BY <1>7 DEF gsp_create, EndsWith, Store!InsertNamedGraph, Store!Write
<1>8. CASE End
  BY <1>8 DEF End, Store!Commit, Store!Abandon
<1>9. CASE ProcessDies
  BY <1>9 DEF ProcessDies, Store!Abandon
<1>10. CASE UNCHANGED update_vars
  BY <1>10 DEF update_vars
<1> QED
  BY <1>1, <1>2, <1>3, <1>4, <1>5, <1>6, <1>7, <1>8, <1>9, <1>10 DEF UpdateNext

\* A request that fails, is refused at any of its writes, or is cut off by a crash leaves
\* the store as it was: apply's and graph_store's scope covers all that a request writes.
THEOREM RequestsAllOrNothing == UpdateSpec => []AllOrNothing
<1>1. UpdateInit => ScopeInv
  BY DEF UpdateInit, ScopeInv, AllOrNothing, Store!Init
<1>2. ScopeInv /\ [UpdateNext]_update_vars => ScopeInv'
  BY ScopeKept
<1>3. ScopeInv => AllOrNothing
  BY DEF ScopeInv
<1> QED
  BY <1>1, <1>2, <1>3, PTL DEF UpdateSpec

-----------------------------------------------------------------------------
(* What an operation means                                                 *)

\* Nothing taken away.
LEMMA NothingWithout ==
    ASSUME NEW d \in Store!Dataset
    PROVE  Without(d, {}, {}) = d
BY DEF Without, Store!Dataset

\* No quad added: only the catalogue grows.
LEMMA GraphsAdded ==
    ASSUME NEW d \in Store!Dataset, NEW G
    PROVE  With(d, {}, G) = [quads |-> d.quads, graphs |-> d.graphs \cup G]
<1>1. UNION {Store!GraphsOfQuad(q) : q \in {}} = {}
  OBVIOUS
<1> QED
  BY <1>1 DEF With

\* Nothing added.
LEMMA NothingWith ==
    ASSUME NEW d \in Store!Dataset
    PROVE  With(d, {}, {}) = d
BY GraphsAdded DEF Store!Dataset

\* Nothing taken away and nothing added.
LEMMA NothingLeft ==
    ASSUME NEW d \in Store!Dataset
    PROVE  With(Without(d, {}, {}), {}, {}) = d
BY NothingWithout, NothingWith

\* Dropping one graph of several first makes no difference to what they all take away.
LEMMA DropOfSeveral ==
    ASSUME NEW d \in Store!Dataset, NEW D \in SUBSET NamedGraph, NEW g \in D
    PROVE  Without([quads |-> {x \in d.quads : HomeOf[x] # g}, graphs |-> d.graphs \ {g}], {}, D \ {g}) = Without(d, {}, D)
BY DEF Without, Store!Dataset

\* Writing one quad of several first makes no difference to what they all write.
LEMMA OneOfSeveral ==
    ASSUME NEW d \in Store!Dataset, NEW Q \in SUBSET Statement, NEW G \in SUBSET NamedGraph, NEW q \in Q
    PROVE  With([quads |-> d.quads \cup {q}, graphs |-> d.graphs \cup Store!GraphsOfQuad(q)], Q \ {q}, G) = With(d, Q, G)
<1> DEFINE Brought(S) == UNION {Store!GraphsOfQuad(x) : x \in S}
<1>1. Store!GraphsOfQuad(q) \cup Brought(Q \ {q}) = Brought(Q)
  <2>1. ASSUME NEW g, g \in Brought(Q) PROVE g \in Store!GraphsOfQuad(q) \cup Brought(Q \ {q})
    <3> PICK x \in Q : g \in Store!GraphsOfQuad(x)
      BY <2>1
    <3> QED
      OBVIOUS
  <2>2. ASSUME NEW g, g \in Store!GraphsOfQuad(q) \cup Brought(Q \ {q}) PROVE g \in Brought(Q)
    BY <2>2
  <2> QED
    BY <2>1, <2>2
<1> DEFINE e == [quads |-> d.quads \cup {q}, graphs |-> d.graphs \cup Store!GraphsOfQuad(q)]
<1>2. e.quads \cup (Q \ {q}) = d.quads \cup Q
  OBVIOUS
<1> HIDE DEF Brought
<1>3. e.graphs \cup G \cup Brought(Q \ {q}) = d.graphs \cup G \cup Brought(Q)
  BY <1>1
<1> HIDE DEF e
<1>4. With(e, Q \ {q}, G) = With(d, Q, G)
  BY <1>2, <1>3 DEF With, Brought
<1> QED
  BY <1>4 DEF e

\* Datasets stay datasets.
LEMMA DatasetKept ==
    ASSUME NEW d \in Store!Dataset, NEW Q \in SUBSET Statement, NEW G \in SUBSET NamedGraph
    PROVE  /\ Without(d, Q, G) \in Store!Dataset
           /\ With(d, Q, G) \in Store!Dataset
<1>1. \A q \in Statement : Store!GraphsOfQuad(q) \subseteq NamedGraph
  BY StatementAssumption DEF Store!GraphsOfQuad
<1> QED
  BY <1>1 DEF Without, With, Store!Dataset

\* How much a plan may ask for, and that it never drops a graph it writes to.
Sensible(p) == p \in Plan /\ (p.insert # {} \/ p.create # {} => p.drop = {})

\* With nothing left of the plan, what is meant is what is there.
LEMMA NothingPlanned ==
    ASSUME Typed, plan.remove = {}, plan.insert = {}, plan.drop = {}, plan.create = {}
    PROVE  Applied = current
BY NothingLeft DEF Typed, Applied

\* What is done to two datasets alike leaves them as much alike as they were.
LEMMA AlikeKept ==
    ASSUME NEW d \in Store!Dataset, NEW e \in Store!Dataset, Agree(d, e),
           NEW Q \in SUBSET Statement, NEW G \in SUBSET NamedGraph, NEW R \in SUBSET Statement, NEW H \in SUBSET NamedGraph
    PROVE  /\ Agree(Without(d, Q, G), Without(e, Q, G))
           /\ Agree(With(d, R, H), With(e, R, H))
           /\ Agree(With(Without(d, Q, G), R, H), With(Without(e, Q, G), R, H))
<1>1. \A a, b \in Store!Dataset : Agree(a, b) => Agree(With(a, R, H), With(b, R, H))
  BY DEF Agree, With
<1>2. Agree(Without(d, Q, G), Without(e, Q, G))
  BY DEF Agree, Without
<1>3. Without(d, Q, G) \in Store!Dataset /\ Without(e, Q, G) \in Store!Dataset
  BY DatasetKept
<1> QED
  BY <1>1, <1>2, <1>3

\* An operation that begins.
LEMMA BeginsMeans ==
    ASSUME Typed, MeaningInv, pc = "between", NEW p, Sensible(p), Begins(p)
    PROVE  Typed' /\ MeaningInv'
<1>1. Typed'
  BY DatasetKept DEF Begins, Typed, Sensible, Plan, store, request
<1>2. Agree(current, meant)
  BY NothingPlanned DEF MeaningInv
<1>3. Agree(With(Without(current, p.remove, p.drop), p.insert, p.create),
            With(Without(meant, p.remove, p.drop), p.insert, p.create))
  BY <1>2, AlikeKept DEF Typed, Sensible, Plan
<1>4. /\ meant' = With(Without(meant, p.remove, p.drop), p.insert, p.create)
      /\ Applied' = With(Without(current, p.remove, p.drop), p.insert, p.create) /\ loose' = loose
  BY DEF Begins, Applied, store
<1>5. Agree(Applied, meant)'
  BY <1>3, <1>4 DEF Agree
<1> QED
  BY <1>1, <1>5 DEF MeaningInv, Begins, Sensible

\* A write of the plan, done.
LEMMA WriteMeans ==
    ASSUME Typed, MeaningInv, pc = "working", remove \/ insert \/ remove_named_graph \/ insert_graph_name
    PROVE  Typed' /\ MeaningInv'
<1> USE DEF Plan, Writes, Store!Write, request, history
<1>0. ASSUME Typed', Applied' = Applied, UNCHANGED <<pc, ended_as, meant, loose>> PROVE Agree(Applied, meant) => Agree(Applied, meant)'
  BY <1>0 DEF Agree
<1>1. CASE remove
  <2> PICK q \in plan.remove : Store!Remove(q) /\ Writes([plan EXCEPT !.remove = @ \ {q}])
    BY <1>1 DEF remove
  <2>1. Typed'
    BY DEF Typed, Store!Remove, Store!Dataset
  <2>2. Applied' = Applied
    <3>1. /\ current' = [quads |-> current.quads \ {q}, graphs |-> current.graphs]
          /\ plan' = [plan EXCEPT !.remove = @ \ {q}] /\ plan \in Plan
      BY DEF Typed, Store!Remove
    <3>2. /\ plan'.remove = plan.remove \ {q} /\ plan'.drop = plan.drop
          /\ plan'.insert = plan.insert /\ plan'.create = plan.create
      BY <3>1
    <3>3. Without(current, plan.remove, plan.drop)' = Without(current, plan.remove, plan.drop)
      BY <3>1, <3>2 DEF Without
    <3> QED
      BY <3>2, <3>3 DEF Applied, With
  <2> QED
    BY <1>0, <2>1, <2>2 DEF MeaningInv, Typed
<1>2. CASE insert
  <2> PICK q \in plan.insert : Deleted /\ Store!Insert(q) /\ Writes([plan EXCEPT !.insert = @ \ {q}])
    BY <1>2 DEF insert
  <2>0. q \in Statement /\ plan.remove = {} /\ plan.drop = {}
    BY DEF Typed, Deleted, MeaningInv
  <2>1. Typed'
    BY <2>0, StatementAssumption DEF Typed, Store!Insert, Store!GraphsOfQuad, Store!Dataset
  <2>2. Applied' = Applied
    <3>1. Applied = With(current, plan.insert, plan.create)
      BY <2>0, NothingWithout DEF Typed, Applied
    <3>2. Applied' = With(current', plan.insert \ {q}, plan.create)
      BY <2>0, <2>1, NothingWithout DEF Typed, Applied
    <3> QED
      BY <3>1, <3>2, OneOfSeveral DEF Typed, Store!Insert
  <2> QED
    BY <1>0, <2>1, <2>2 DEF MeaningInv, Typed
<1>3. CASE remove_named_graph
  <2> PICK g \in plan.drop : Deleted /\ Store!DropNamedGraph(g) /\ Writes([plan EXCEPT !.drop = @ \ {g}])
    BY <1>3 DEF remove_named_graph
  <2>0. g \in NamedGraph /\ plan.remove = {} /\ plan.insert = {} /\ plan.create = {}
    BY DEF Typed, Deleted, MeaningInv
  <2>1. Typed'
    BY DEF Typed, Store!DropNamedGraph, Store!Dataset
  <2>2. Applied' = Applied
    <3>1. Applied = With(Without(current, {}, plan.drop), {}, {})
      BY <2>0 DEF Applied
    <3>2. Applied' = With(Without(current', {}, plan.drop \ {g}), {}, {})
      BY <2>0 DEF Typed, Applied
    <3>3. Without(current', {}, plan.drop \ {g}) = Without(current, {}, plan.drop)
      BY <2>0, DropOfSeveral DEF Typed, Store!DropNamedGraph
    <3> QED
      BY <3>1, <3>2, <3>3
  <2> QED
    BY <1>0, <2>0, <2>1, <2>2 DEF MeaningInv, Typed
<1>4. CASE insert_graph_name
  <2> PICK g \in plan.create : Store!InsertNamedGraph(g) /\ Writes([plan EXCEPT !.create = @ \ {g}])
    BY <1>4 DEF insert_graph_name
  <2>0. g \in NamedGraph /\ plan.drop = {}
    BY DEF Typed, MeaningInv
  <2>1. Typed'
    BY <2>0 DEF Typed, Store!InsertNamedGraph, Store!Dataset
  <2>2. Applied' = Applied
    BY <2>0 DEF Typed, Applied, With, Without, Store!InsertNamedGraph, Store!Dataset
  <2> QED
    BY <1>0, <2>1, <2>2 DEF MeaningInv, Typed
<1> QED
  BY <1>1, <1>2, <1>3, <1>4

\* What an operation asks for is quads and graphs there can be.
LEMMA Named ==
    ASSUME Typed, NEW t \in Target
    PROVE  /\ quads_in(t) \subseteq Statement /\ DroppedBy(t) \subseteq NamedGraph
           /\ Few(InTarget(t)) \subseteq SUBSET Statement
<1>1. quads_in(t) \subseteq Statement
  BY DEF Typed, quads_in, Scanned, Store!Dataset
<1>2. DroppedBy(t) \subseteq NamedGraph
  BY DEF Typed, DroppedBy, Target, Store!Dataset
<1>3. InTarget(t) \subseteq Statement
  BY DEF InTarget
<1> QED
  BY <1>1, <1>2, <1>3 DEF Few

\* An operation that could not begin, whether or not that is hidden.
LEMMA RefusedMeans ==
    ASSUME Typed, MeaningInv, pc = "between", NEW r \in {"failed", "denied", "withheld"}, NEW silent, RefusedAt(r, silent)
    PROVE  Typed' /\ MeaningInv'
<1>1. Typed' /\ Applied' = Applied /\ loose' = loose /\ meant' = meant
  BY DEF RefusedAt, Typed, Applied, store, request
<1> QED
  BY <1>1 DEF MeaningInv, RefusedAt, silence, EndsWith, Agree

\* The operations of an update, and the documents of a PUT or a POST.
LEMMA OperationMeans ==
    ASSUME Typed, MeaningInv,
           InsertData \/ DeleteData \/ delete_insert \/ load \/ Clear \/ drop_graph \/ create \/ merge_graph
    PROVE  Typed' /\ MeaningInv'
<1> DEFINE Fits(p) == Sensible(p) /\ Begins(p)
<1>1. \A S : Few(S) = {X \in SUBSET S : Cardinality(X) <= MaxQuads}
  BY DEF Few
<1>2. pc = "between"
  BY DEF InsertData, DeleteData, delete_insert, load, Clear, drop_graph, create, merge_graph, NextOperation
<1>3. (\E p : Fits(p)) \/ (\E r \in {"failed", "denied", "withheld"}, silent \in BOOLEAN : RefusedAt(r, silent))
  <2> USE DEF Sensible, Plan, NoPlan
  <2>1. CASE InsertData \/ DeleteData
    BY <2>1, <1>1 DEF InsertData, DeleteData
  <2>2. CASE delete_insert
    BY <2>2, <1>1 DEF delete_insert
  <2>3. CASE load
    BY <2>3, Named DEF load, Target
  <2>4. CASE Clear \/ drop_graph
    <3> PICK t \in Target, silent \in BOOLEAN : clear(t, silent, {}) \/ clear(t, silent, DroppedBy(t))
      BY <2>4 DEF Clear, drop_graph
    <3> QED
      BY Named DEF clear
  <2>5. CASE create
    BY <2>5 DEF create
  <2>6. CASE merge_graph
    BY <2>6, Named DEF merge_graph, Target, Typed
  <2> QED
    BY <2>1, <2>2, <2>3, <2>4, <2>5, <2>6
<1> HIDE DEF Fits
<1>4. CASE \E p : Fits(p)
  BY <1>2, <1>4, BeginsMeans DEF Fits
<1>5. CASE \E r \in {"failed", "denied", "withheld"}, silent \in BOOLEAN : RefusedAt(r, silent)
  BY <1>2, <1>5, RefusedMeans
<1> QED
  BY <1>3, <1>4, <1>5

\* A write that the store refuses, under SILENT or not: what of it is there is loose.
LEMMA FailureMeans ==
    ASSUME Typed, MeaningInv, StoreFails
    PROVE  Typed' /\ MeaningInv'
<1> USE DEF request
<1>1. /\ plan' = NoPlan /\ UNCHANGED <<session, target, meant>> /\ pc = "working"
      /\ loose' = IF plan.silent
                  THEN [quads |-> loose.quads \cup Touched(plan).quads, graphs |-> loose.graphs \cup Touched(plan).graphs]
                  ELSE loose
      /\ \/ plan.silent /\ pc' = "between" /\ ended_as' = ended_as
         \/ pc' = "ending" /\ ended_as' = "failed"
  BY DEF StoreFails, silence, EndsWith
<1>2. Touched(plan).quads \subseteq Statement /\ Touched(plan).graphs \subseteq NamedGraph
  BY StatementAssumption DEF Touched, Typed, Plan, Store!GraphsOfQuad
<1>3. current' \in Store!Dataset /\ committed' \in {committed, current'}
  <2> USE DEF Typed, Plan, Store!Dataset, Store!Write
  <2>1. ASSUME NEW q \in plan.remove, Store!Remove(q) PROVE current' \in Store!Dataset /\ committed' \in {committed, current'}
    BY <2>1 DEF Store!Remove
  <2>2. ASSUME NEW q \in plan.insert, Store!Insert(q) PROVE current' \in Store!Dataset /\ committed' \in {committed, current'}
    BY <2>2, StatementAssumption DEF Store!Insert, Store!GraphsOfQuad
  <2>3. ASSUME NEW g \in plan.drop, Store!DropNamedGraph(g) PROVE current' \in Store!Dataset /\ committed' \in {committed, current'}
    BY <2>3 DEF Store!DropNamedGraph
  <2>4. ASSUME NEW g \in plan.create, Store!InsertNamedGraph(g) PROVE current' \in Store!Dataset /\ committed' \in {committed, current'}
    BY <2>4 DEF Store!InsertNamedGraph
  <2>5. CASE UNCHANGED store
    BY <2>5 DEF store
  <2> QED
    BY <2>1, <2>2, <2>3, <2>4, <2>5 DEF StoreFails
<1>4. Typed'
  BY <1>1, <1>2, <1>3 DEF Typed, Plan, NoPlan, Store!Dataset
<1>5. CASE plan.silent /\ pc' = "between" /\ ended_as' = ended_as
  <2>1. ASSUME NEW q \in Statement \ Touched(plan).quads PROVE q \in current'.quads <=> q \in Applied.quads
    <3>1. q \notin plan.remove /\ q \notin plan.insert /\ HomeOf[q] \notin plan.drop
      BY <2>1 DEF Touched
    <3>2. q \in Applied.quads <=> q \in current.quads
      BY <3>1 DEF Applied, With, Without
    <3>3. q \in current'.quads <=> q \in current.quads
      BY <3>1 DEF StoreFails, store, Store!Remove, Store!Insert, Store!DropNamedGraph, Store!InsertNamedGraph, Store!Write
    <3> QED
      BY <3>2, <3>3
  <2>2. ASSUME NEW x \in NamedGraph \ Touched(plan).graphs PROVE x \in current'.graphs <=> x \in Applied.graphs
    <3>1. x \notin plan.drop /\ x \notin plan.create /\ \A q \in plan.insert : x \notin Store!GraphsOfQuad(q)
      BY <2>2 DEF Touched
    <3>2. x \in Applied.graphs <=> x \in current.graphs
      BY <3>1 DEF Applied, With, Without
    <3>3. x \in current'.graphs <=> x \in current.graphs
      BY <3>1 DEF StoreFails, store, Store!Remove, Store!Insert, Store!DropNamedGraph, Store!InsertNamedGraph, Store!Write
    <3> QED
      BY <3>2, <3>3
  <2>3. Agree(Applied, meant) /\ ended_as = "ok"
    BY <1>1 DEF MeaningInv
  <2>4. Applied' = current'
    BY <1>1, <1>3, NothingLeft DEF Applied, NoPlan
  <2>5. Agree(Applied, meant)'
    BY <1>1, <1>5, <2>1, <2>2, <2>3, <2>4 DEF Agree
  <2> QED
    BY <1>1, <1>4, <1>5, <2>3, <2>5 DEF MeaningInv, NoPlan
<1>6. CASE pc' = "ending" /\ ended_as' = "failed"
  BY <1>1, <1>4, <1>6 DEF MeaningInv, NoPlan
<1> QED
  BY <1>1, <1>5, <1>6

\* The meaning is kept by every step.
LEMMA MeaningKept ==
    ASSUME Typed, MeaningInv, [UpdateNext]_update_vars
    PROVE  Typed' /\ MeaningInv'
<1> USE DEF store, request, history
<1>1. CASE InsertData \/ DeleteData \/ delete_insert \/ load \/ Clear \/ drop_graph \/ create \/ merge_graph
  BY <1>1, OperationMeans
<1>2. CASE remove \/ insert \/ remove_named_graph \/ insert_graph_name
  BY <1>2, WriteMeans DEF remove, insert, remove_named_graph, insert_graph_name
<1>3. CASE StartUpdate \/ StartGraphStore
  <2>0. /\ plan' = NoPlan /\ meant' = current /\ loose' = Nothing /\ UNCHANGED <<committed, current>>
        /\ session' \in Session /\ target' \in NamedGraph \cup {HomeDefault}
    <3>1. CASE StartUpdate
      BY <3>1 DEF StartUpdate, Store!Begin
    <3>2. CASE StartGraphStore
      BY <3>2 DEF StartGraphStore, Store!Begin
    <3> QED
      BY <1>3, <3>1, <3>2
  <2>1. Typed' /\ plan' = NoPlan /\ meant' = current'
    BY <2>0 DEF Typed, Plan, NoPlan, Nothing, Store!Dataset
  <2>2. Applied' = current'
    BY <2>1, NothingLeft DEF Applied, NoPlan, Typed
  <2>3. /\ pc' = "idle" => ended_as' # "ok"
        /\ pc' \notin {"idle", "ending"} => ended_as' = "ok"
    BY <1>3 DEF StartUpdate, StartGraphStore
  <2> QED
    BY <2>1, <2>2, <2>3 DEF MeaningInv, NoPlan, Agree
<1>4. CASE gsp_clear /\ kind = "POST"
  BY <1>4 DEF gsp_clear, Typed, MeaningInv, Applied, Agree
<1>5. CASE gsp_clear /\ kind # "POST"
  <2>1. plan' \in Plan /\ plan'.insert = {} /\ plan'.create = {}
    <3>1. target \in Target
      BY DEF Typed, Target
    <3>2. quads_in(target) \subseteq Statement /\ DroppedBy(target) \subseteq NamedGraph
      BY <3>1, Named
    <3> QED
      BY <1>5, <3>2 DEF gsp_clear, Plan, NoPlan
  <2>2. ended_as = "ok" /\ Agree(current, meant)
    BY <1>5, NothingPlanned DEF gsp_clear, MeaningInv
  <2>3. meant' = Without(meant, plan'.remove, plan'.drop) /\ UNCHANGED <<current, committed, loose, session, target, ended_as>>
    BY <1>5 DEF gsp_clear
  <2>4. Typed'
    BY <2>1, <2>3, DatasetKept DEF Typed, Plan
  <2>5. Applied' = Without(current, plan'.remove, plan'.drop)
    <3>1. Without(current, plan'.remove, plan'.drop) \in Store!Dataset
      BY <2>1, DatasetKept DEF Typed, Plan
    <3> QED
      BY <2>1, <2>3, <3>1, NothingWith DEF Applied
  <2>6. Agree(Without(current, plan'.remove, plan'.drop), Without(meant, plan'.remove, plan'.drop))
    BY <2>1, <2>2, AlikeKept DEF Typed, Plan
  <2>7. Agree(Applied, meant)'
    BY <2>3, <2>5, <2>6 DEF Agree
  <2> QED
    BY <1>5, <2>1, <2>4, <2>7 DEF gsp_clear, MeaningInv
<1>6. CASE EndUpdate \/ EndDelete
  BY <1>6 DEF EndUpdate, EndDelete, EndsWith, Typed, MeaningInv, Applied, Agree
<1>7. CASE gsp_create
  <2>1. Agree(current, meant) /\ ended_as = "ok"
    BY <1>7, NothingPlanned DEF gsp_create, MeaningInv
  <2>2. Typed' /\ Agree(current, meant)'
    <3>0. UNCHANGED <<request, plan, loose>>
      BY <1>7 DEF gsp_create
    <3>1. CASE target = HomeDefault
      BY <1>7, <2>1, <3>0, <3>1 DEF gsp_create, Typed, Agree
    <3>2. CASE target # HomeDefault
      <4>1. target \in NamedGraph
        BY <3>2 DEF Typed
      <4>2. current' = With(current, {}, {target}) /\ meant' = With(meant, {}, {target})
        BY <1>7, <3>2, GraphsAdded DEF gsp_create, Typed, Store!InsertNamedGraph, Store!Write
      <4>3. current' \in Store!Dataset /\ meant' \in Store!Dataset
        BY <4>1, <4>2, DatasetKept DEF Typed
      <4>4. committed' \in {committed, current'}
        BY <1>7, <3>2 DEF gsp_create, Store!InsertNamedGraph, Store!Write
      <4>5. Agree(With(current, {}, {target}), With(meant, {}, {target}))
        BY <2>1, <4>1, AlikeKept DEF Typed
      <4>6. Agree(current, meant)'
        BY <3>0, <4>2, <4>5 DEF Agree
      <4> QED
        BY <3>0, <4>3, <4>4, <4>6 DEF Typed
    <3> QED
      BY <3>1, <3>2
  <2>3. Applied' = current'
    BY <1>7, <2>2, NothingLeft DEF gsp_create, Applied, Typed, MeaningInv
  <2> QED
    BY <1>7, <2>2, <2>3 DEF gsp_create, EndsWith, MeaningInv
<1>8. CASE Denied
  BY <1>8 DEF Denied, silence, EndsWith, Typed, Plan, NoPlan, MeaningInv
<1>9. CASE StoreFails
  BY <1>9, FailureMeans
<1>10. CASE EndOperation
  <2>1. Typed' /\ Applied' = Applied
    BY <1>10 DEF EndOperation, Typed, Plan, NoPlan, Applied
  <2> QED
    BY <1>10, <2>1 DEF EndOperation, MeaningInv, NoPlan, Agree
<1>11. CASE End
  BY <1>11, NothingPlanned DEF End, Store!Commit, Store!Abandon, Typed, MeaningInv, Agree
<1>12. CASE ProcessDies
  BY <1>12 DEF ProcessDies, Store!Abandon, Typed, MeaningInv, Plan, NoPlan
<1>13. CASE UNCHANGED update_vars
  BY <1>13 DEF update_vars, Typed, MeaningInv, Applied, Agree
<1> QED
  BY <1>1, <1>2, <1>3, <1>4, <1>5, <1>6, <1>7, <1>8, <1>9, <1>10, <1>11, <1>12, <1>13 DEF UpdateNext

\* A request that succeeds leaves exactly what its operations mean one after the other, but
\* for the quads and graphs of an operation whose failure SILENT hid, whatever the store and
\* the policy refuse (apply, silence, clear, load, create, merge).
THEOREM SuccessIsWhatIsMeant == UpdateSpec => []SuccessMeansDone
<1>1. UpdateInit => Typed /\ MeaningInv
  BY NothingLeft DEF UpdateInit, Store!Init, Store!EmptyDataset, Store!Dataset, Typed, Plan, NoPlan, Nothing, MeaningInv, Agree
<1>2. Typed /\ MeaningInv /\ [UpdateNext]_update_vars => Typed' /\ MeaningInv'
  BY MeaningKept
<1>3. MeaningInv => SuccessMeansDone
  BY DEF MeaningInv, SuccessMeansDone
<1> QED
  BY <1>1, <1>2, <1>3, PTL DEF UpdateSpec

-----------------------------------------------------------------------------
(* The policy                                                              *)

\* What a request has changed is within the policy, and what it is about to drop is among
\* the graphs it has set out to drop.
PolicyInv ==
    /\ WithinPolicy
    /\ plan.drop \subseteq gone

\* A write to the store: what it adds may be written, what it takes may be read and written
\* or goes with its graph.
LEMMA WriteWithin ==
    ASSUME PolicyInv, UNCHANGED <<request, gone>>,
           plan' = NoPlan \/ plan'.drop \subseteq plan.drop,
           \/ \E q \in plan.remove : MayRemove(q) /\ Store!Remove(q)
           \/ \E q \in plan.insert : q \in Writable[session] /\ Store!Insert(q)
           \/ \E g \in plan.drop : Store!DropNamedGraph(g)
           \/ \E g \in plan.create : Store!InsertNamedGraph(g)
           \/ UNCHANGED store
    PROVE  PolicyInv'
<1> USE DEF PolicyInv, WithinPolicy, Store!Write
<1>1. session' = session /\ at_request' = at_request /\ gone' = gone
  BY DEF request
<1>2. WithinPolicy'
  <2>1. CASE \E q \in plan.remove : MayRemove(q) /\ Store!Remove(q)
    BY <1>1, <2>1 DEF MayRemove, Store!Remove
  <2>2. CASE \E q \in plan.insert : q \in Writable[session] /\ Store!Insert(q)
    BY <1>1, <2>2 DEF Store!Insert
  <2>3. CASE \E g \in plan.drop : Store!DropNamedGraph(g)
    BY <1>1, <2>3 DEF Store!DropNamedGraph
  <2>4. CASE \E g \in plan.create : Store!InsertNamedGraph(g)
    BY <1>1, <2>4 DEF Store!InsertNamedGraph
  <2>5. CASE UNCHANGED store
    BY <1>1, <2>5 DEF store
  <2> QED
    BY <2>1, <2>2, <2>3, <2>4, <2>5
<1>3. plan'.drop \subseteq gone'
  BY <1>1 DEF NoPlan
<1> QED
  BY <1>2, <1>3

\* Every step keeps to the policy.
LEMMA PolicyKept ==
    ASSUME Typed, ScopeInv, PolicyInv, [UpdateNext]_update_vars
    PROVE  PolicyInv'
<1> USE DEF history
<1>1. CASE InsertData \/ DeleteData \/ delete_insert \/ load \/ Clear \/ drop_graph \/ create \/ merge_graph
  <2>1. (\E p : Begins(p)) \/ (\E r, silent : RefusedAt(r, silent))
    BY <1>1 DEF InsertData, DeleteData, delete_insert, load, Clear, drop_graph, clear, create, merge_graph
  <2>2. ASSUME NEW p, Begins(p) PROVE PolicyInv'
    BY <2>2 DEF Begins, PolicyInv, WithinPolicy, store, request
  <2>3. ASSUME NEW r, NEW silent, RefusedAt(r, silent) PROVE PolicyInv'
    BY <2>3 DEF RefusedAt, PolicyInv, WithinPolicy, store, request
  <2> QED
    BY <2>1, <2>2, <2>3
<1>2. CASE remove \/ insert \/ remove_named_graph \/ insert_graph_name
  <2>1. plan'.drop \subseteq plan.drop
    BY <1>2 DEF remove, insert, remove_named_graph, insert_graph_name, Writes, Typed, Plan
  <2> QED
    BY <1>2, <2>1, WriteWithin DEF remove, insert, remove_named_graph, insert_graph_name, Writes
<1>3. CASE Denied \/ StoreFails
  <2>1. plan' = NoPlan /\ UNCHANGED <<request, gone>>
    BY <1>3 DEF Denied, StoreFails
  <2> QED
    BY <1>3, <2>1, WriteWithin DEF Denied, StoreFails
<1>4. CASE StartUpdate \/ StartGraphStore
  <2>1. plan' = NoPlan /\ at_request' = current /\ current' = current
    <3>1. CASE StartUpdate
      BY <3>1 DEF StartUpdate, Store!Begin
    <3>2. CASE StartGraphStore
      BY <3>2 DEF StartGraphStore, Store!Begin, store
    <3> QED
      BY <1>4, <3>1, <3>2
  <2> QED
    BY <2>1 DEF PolicyInv, WithinPolicy, NoPlan
<1>5. CASE gsp_clear
  BY <1>5 DEF gsp_clear, PolicyInv, WithinPolicy, store, request
<1>6. CASE EndUpdate \/ EndDelete \/ EndOperation
  BY <1>6 DEF EndUpdate, EndDelete, EndOperation, EndsWith, PolicyInv, WithinPolicy, NoPlan, store, request
<1>7. CASE gsp_create
  BY <1>7 DEF gsp_create, PolicyInv, WithinPolicy, Store!InsertNamedGraph, Store!Write, store, request
<1>8. ASSUME Store!Commit \/ Store!Abandon, UNCHANGED <<request, history>>, pc # "idle", plan' \in {NoPlan, plan}
      PROVE  PolicyInv'
  BY <1>8 DEF Store!Commit, Store!Abandon, ScopeInv, AllOrNothing, PolicyInv, WithinPolicy, NoPlan, request
<1>9. CASE End
  BY <1>8, <1>9 DEF End
<1>10. CASE ProcessDies
  BY <1>8, <1>10 DEF ProcessDies
<1>11. CASE UNCHANGED update_vars
  BY <1>11 DEF update_vars, PolicyInv, WithinPolicy, store, request
<1> QED
  BY <1>1, <1>2, <1>3, <1>4, <1>5, <1>6, <1>7, <1>9, <1>10, <1>11 DEF UpdateNext

\* Nothing a session may not write changes, and nothing it may not read goes but with a graph
\* that the request drops, for every policy: not halfway through a request either, whatever
\* fails, is refused or is hidden by SILENT (Engine::insert, Engine::remove, clear, drop_graph).
THEOREM AlwaysWithinPolicy == UpdateSpec => []WithinPolicy
<1>1. UpdateInit => Typed /\ MeaningInv /\ ScopeInv /\ PolicyInv
  <2>1. UpdateInit => Typed /\ MeaningInv
    BY NothingLeft DEF UpdateInit, Store!Init, Store!EmptyDataset, Store!Dataset, Typed, Plan, NoPlan, Nothing, MeaningInv, Agree
  <2>2. UpdateInit => ScopeInv
    BY DEF UpdateInit, ScopeInv, AllOrNothing, Store!Init
  <2>3. UpdateInit => current = at_request /\ plan.drop = {}
    BY DEF UpdateInit, Store!Init, NoPlan
  <2> QED
    BY <2>1, <2>2, <2>3 DEF PolicyInv, WithinPolicy
<1>2. Typed /\ MeaningInv /\ [UpdateNext]_update_vars => Typed' /\ MeaningInv'
  BY MeaningKept
<1>3. PolicyInv => WithinPolicy
  BY DEF PolicyInv
<1> QED
  BY <1>1, <1>2, <1>3, ScopeKept, PolicyKept, PTL DEF UpdateSpec
=============================================================================
