-------------------------- MODULE RocksStoreProofs --------------------------
(***************************************************************************)
(* Proofs about RocksStore for every set of quads, graphs and predicates   *)
(* and every bound.                                                        *)
(***************************************************************************)
EXTENDS RocksStore, FiniteSetTheorems, TLAPS

-----------------------------------------------------------------------------
(* Keys and batches                                                        *)

\* The keys a batch can mention are keys of the database, and the families are disjoint.
LEMMA KeysInKey ==
    ASSUME NEW q \in Quad
    PROVE  /\ RowKeys(q) \subseteq Key
           /\ CatalogueKeys(q) \subseteq Key
           /\ CounterKeys(q) \subseteq Key
           /\ PrimaryKey(q) \in RowKeys(q)
BY GraphAssumption, PredicateAssumption
   DEF RowKeys, CatalogueKeys, CounterKeys, PrimaryKey, PrimaryOrder, Orders, Key, IsDefault,
       TripleOrders, QuadOrders, GraphKey, StatsKey, QuadsKey, GenerationKey

\* A removal deletes the rows of its quad and writes counters, whichever they are.
LEMMA RemoveBatchShape ==
    ASSUME NEW q \in Quad
    PROVE  /\ RowKeys(q) \subseteq DOMAIN RemoveBatch(q)
           /\ DOMAIN RemoveBatch(q) \subseteq RowKeys(q) \cup CounterKeys(q)
           /\ \A k \in DOMAIN RemoveBatch(q) :
                 RemoveBatch(q)[k] = IF k \in CounterKeys(q) THEN CounterValue(q, -1, k) ELSE 0
           /\ RemoveBatch(q) = [k \in DOMAIN RemoveBatch(q) |-> RemoveBatch(q)[k]]
<1>1. (IF NoCountOf(q) THEN {QuadsKey, GenerationKey} ELSE CounterKeys(q)) \subseteq CounterKeys(q)
    BY DEF CounterKeys
<1>2. QED
    BY <1>1 DEF RemoveBatch

\* The batch of an insertion or a removal is a map from keys to integers.
LEMMA BatchType ==
    ASSUME TypeOK, NEW q \in Quad
    PROVE  /\ DOMAIN InsertBatch(q) \subseteq Key
           /\ InsertBatch(q) \in [DOMAIN InsertBatch(q) -> Int]
           /\ DOMAIN RemoveBatch(q) \subseteq Key
           /\ RemoveBatch(q) \in [DOMAIN RemoveBatch(q) -> Int]
<1>1. \A k \in Key : CounterValue(q, 1, k) \in Int /\ CounterValue(q, -1, k) \in Int
    BY PredicateAssumption, WordAssumption DEF CounterValue, Wrap, TypeOK
<1>2. /\ DOMAIN InsertBatch(q) \subseteq Key
      /\ InsertBatch(q) \in [DOMAIN InsertBatch(q) -> Int]
    BY <1>1, KeysInKey DEF InsertBatch
<1>3. DOMAIN RemoveBatch(q) \subseteq Key
    BY KeysInKey, RemoveBatchShape
<1>4. \A k \in DOMAIN RemoveBatch(q) : RemoveBatch(q)[k] \in Int
    BY <1>1, <1>3, RemoveBatchShape
<1>5. RemoveBatch(q) \in [DOMAIN RemoveBatch(q) -> Int]
    BY <1>4, RemoveBatchShape
<1>6. QED
    BY <1>2, <1>3, <1>5

\* So is the batch that changes one entry of the catalogue.
LEMMA GraphBatchType ==
    ASSUME NEW g \in Graph, NEW b \in BOOLEAN
    PROVE  /\ DOMAIN GraphBatch(g, b) \subseteq Key
           /\ GraphBatch(g, b) \in [DOMAIN GraphBatch(g, b) -> Int]
BY DEF GraphBatch, Key

\* commit_ops keeps the types of the database and of the buffer.
LEMMA CommitOpsType ==
    ASSUME TypeOK, NEW batch, NEW n \in Nat,
           DOMAIN batch \subseteq Key, batch \in [DOMAIN batch -> Int],
           commit_ops(batch, n)
    PROVE  /\ db' \in [Key -> Int]
           /\ DOMAIN pending' \subseteq Key
           /\ pending' \in [DOMAIN pending' -> Int]
           /\ ops' \in Nat
<1>1. CASE in_scope
    BY <1>1 DEF commit_ops, Extend, TypeOK
<1>2. CASE ~in_scope
    BY <1>2 DEF commit_ops, Written, Over, TypeOK
<1>3. QED
    BY <1>1, <1>2

\* Noting a member of S keeps a map of notes a map of notes.
LEMMA NoteType ==
    ASSUME NEW S, NEW notes, NEW x \in S, NEW b \in BOOLEAN, NEW present \in BOOLEAN,
           DOMAIN notes \subseteq S, notes \in [DOMAIN notes -> Presence]
    PROVE  /\ DOMAIN Note(notes, x, b, present) \subseteq S
           /\ Note(notes, x, b, present) \in [DOMAIN Note(notes, x, b, present) -> Presence]
BY DEF Note, Presence

\* The empty map is a map from the empty set, whatever its values are said to be.
LEMMA EmptyMapType ==
    ASSUME NEW T
    PROVE  DOMAIN EmptyMap = {} /\ EmptyMap \in [{} -> T]
<1>1. DOMAIN EmptyMap = {}
    BY DEF EmptyMap
<1>2. EmptyMap = [k \in {} |-> EmptyMap[k]]
    BY DEF EmptyMap
<1>3. \A k \in {} : EmptyMap[k] \in T
    OBVIOUS
<1>4. QED
    BY <1>1, <1>2, <1>3

\* Closing a scope leaves well-typed scope variables.
LEMMA CloseScopeType ==
    ASSUME CloseScope
    PROVE  /\ in_scope' \in BOOLEAN
           /\ DOMAIN pending' \subseteq Key
           /\ pending' \in [DOMAIN pending' -> Int]
           /\ ops' \in Nat
           /\ DOMAIN quads' \subseteq Quad
           /\ quads' \in [DOMAIN quads' -> Presence]
           /\ DOMAIN graphs' \subseteq Graph
           /\ graphs' \in [DOMAIN graphs' -> Presence]
           /\ saved' \in [quad_count : Int, predicate_counts : [Predicate -> Int],
                          generation : Int]
           /\ errored' \in BOOLEAN
<1>1. EmptyMap \in [{} -> Int] /\ EmptyMap \in [{} -> Presence] /\ DOMAIN EmptyMap = {}
    BY EmptyMapType
<1>2. NoCounters \in [quad_count : Int, predicate_counts : [Predicate -> Int],
                      generation : Int]
    BY DEF NoCounters
<1>3. QED
    BY <1>1, <1>2 DEF CloseScope, EmptyScope

-----------------------------------------------------------------------------
(* Type correctness                                                        *)

\* The counters stay integers when a quad write advances them.
LEMMA AdvanceType ==
    ASSUME TypeOK, NEW q \in Quad, NEW d \in {1, -1}, Advance(q, d)
    PROVE  /\ quad_count' \in Int
           /\ predicate_counts' \in [Predicate -> Int]
           /\ generation' \in Int
BY PredicateAssumption, WordAssumption DEF Advance, Wrap, TypeOK

\* Noting a quad or a graph keeps the overlay's type.
LEMMA NoteQuadType ==
    ASSUME TypeOK, NEW q \in Quad, NEW present \in BOOLEAN, NEW b \in BOOLEAN,
           note_quad(q, present, b)
    PROVE  DOMAIN quads' \subseteq Quad /\ quads' \in [DOMAIN quads' -> Presence]
BY NoteType DEF note_quad, TypeOK

\* Likewise for a graph.
LEMMA NoteGraphType ==
    ASSUME TypeOK, NEW g \in Graph, NEW present \in BOOLEAN, note_graph(g, present)
    PROVE  DOMAIN graphs' \subseteq Graph /\ graphs' \in [DOMAIN graphs' -> Presence]
<1>1. db_contains_graph(g) \in BOOLEAN
    BY DEF db_contains_graph
<1>2. QED
    BY <1>1, NoteType DEF note_graph, TypeOK

\* The first state of a new store has the right types.
LEMMA InitType == Init => TypeOK
<1> SUFFICES ASSUME Init PROVE TypeOK
    OBVIOUS
<1>1. EmptyMap \in [{} -> Int] /\ EmptyMap \in [{} -> Presence] /\ DOMAIN EmptyMap = {}
    BY EmptyMapType
<1>2. /\ db \in [Key -> Int]
      /\ predicate_counts \in [Predicate -> Int]
      /\ saved \in [quad_count : Int, predicate_counts : [Predicate -> Int],
                     generation : Int]
    BY DEF Init, NoCounters
<1>3. /\ DOMAIN pending \subseteq Key
      /\ pending \in [DOMAIN pending -> Int]
      /\ DOMAIN quads \subseteq Quad
      /\ quads \in [DOMAIN quads -> Presence]
      /\ DOMAIN graphs \subseteq Graph
      /\ graphs \in [DOMAIN graphs -> Presence]
    BY <1>1 DEF Init
<1>4. snapshot \in SUBSET [generation : Int, quads : SUBSET Quad]
    BY DEF Init
<1>5. quad_count \in Int /\ generation \in Int /\ ops \in Nat /\ refused_batches = {}
    BY DEF Init
<1>6. in_scope \in BOOLEAN /\ errored \in BOOLEAN /\ dropping \in Graph \cup {NoGraph}
    BY Zenon DEF Init
<1>7. QED
    BY <1>2, <1>3, <1>4, <1>5, <1>6 DEF TypeOK

\* Every step keeps the types.
LEMMA NextType == TypeOK /\ [Next]_vars => TypeOK'
<1> SUFFICES ASSUME TypeOK, [Next]_vars PROVE TypeOK'
    OBVIOUS
<1>1. ASSUME NEW q \in Quad, insert_encoded(q) PROVE TypeOK'
    <2>1. InsertOps(q) \in Nat
        BY DEF InsertOps
    <2>2. /\ db' \in [Key -> Int]
          /\ DOMAIN pending' \subseteq Key
          /\ pending' \in [DOMAIN pending' -> Int]
          /\ ops' \in Nat
        BY <1>1, <2>1, BatchType, CommitOpsType DEF insert_encoded
    <2>3. DOMAIN quads' \subseteq Quad /\ quads' \in [DOMAIN quads' -> Presence]
        BY <1>1, NoteQuadType DEF insert_encoded
    <2>4. DOMAIN graphs' \subseteq Graph /\ graphs' \in [DOMAIN graphs' -> Presence]
        <3>1. CASE IsDefault(q)
            BY <1>1, <3>1 DEF insert_encoded, TypeOK
        <3>2. CASE ~IsDefault(q)
            BY <1>1, <3>2, GraphAssumption, NoteGraphType DEF insert_encoded, IsDefault
        <3>3. QED
            BY <3>1, <3>2
    <2>5. QED
        BY <1>1, <2>2, <2>3, <2>4, AdvanceType DEF insert_encoded, TypeOK
<1>2. ASSUME NEW q \in Quad, RemoveQuad(q) PROVE TypeOK'
    <2>1. RemoveOps(q) \in Nat
        BY DEF RemoveOps
    <2>2. /\ db' \in [Key -> Int]
          /\ DOMAIN pending' \subseteq Key
          /\ pending' \in [DOMAIN pending' -> Int]
          /\ ops' \in Nat
        BY <1>2, <2>1, BatchType, CommitOpsType DEF RemoveQuad
    <2>3. DOMAIN quads' \subseteq Quad /\ quads' \in [DOMAIN quads' -> Presence]
        BY <1>2, NoteQuadType DEF RemoveQuad
    <2>4. QED
        BY <1>2, <2>2, <2>3, AdvanceType DEF RemoveQuad, TypeOK
<1>3. ASSUME NEW q \in Quad, NEW d \in {1, -1}, WriteOverflows(q, d) PROVE TypeOK'
    <2>1. InsertOps(q) \in Nat /\ RemoveOps(q) \in Nat
        BY DEF InsertOps, RemoveOps
    <2>2. /\ db' \in [Key -> Int]
          /\ DOMAIN pending' \subseteq Key
          /\ pending' \in [DOMAIN pending' -> Int]
          /\ ops' \in Nat
        BY <1>3, <2>1, BatchType, CommitOpsType DEF WriteOverflows
    <2>3. QED
        BY <1>3, <2>2, AdvanceType DEF WriteOverflows, TypeOK
<1>4. ASSUME NEW q \in Quad, NEW d \in {1, -1}, DirectWriteFails(q, d) PROVE TypeOK'
    BY <1>4, AdvanceType DEF DirectWriteFails, TypeOK
<1>5. ASSUME NEW g \in Graph, insert_named_graph(g) PROVE TypeOK'
    <2>1. /\ db' \in [Key -> Int]
          /\ DOMAIN pending' \subseteq Key
          /\ pending' \in [DOMAIN pending' -> Int]
          /\ ops' \in Nat
        BY <1>5, GraphBatchType, CommitOpsType DEF insert_named_graph
    <2>2. /\ DOMAIN graphs' \subseteq Graph
          /\ graphs' \in [DOMAIN graphs' -> Presence]
          /\ errored' \in BOOLEAN
        BY <1>5, NoteGraphType DEF insert_named_graph, TypeOK
    <2>3. QED
        BY <1>5, <2>1, <2>2 DEF insert_named_graph, counters, TypeOK
<1>6. ASSUME NEW g \in Graph, StartDrop(g) PROVE TypeOK'
    BY <1>6 DEF StartDrop, counters, overlay, TypeOK
<1>7. ASSUME FinishDrop PROVE TypeOK'
    <2>1. dropping \in Graph
        BY <1>7 DEF FinishDrop
    <2>2. /\ db' \in [Key -> Int]
          /\ DOMAIN pending' \subseteq Key
          /\ pending' \in [DOMAIN pending' -> Int]
          /\ ops' \in Nat
        BY <1>7, <2>1, GraphBatchType, CommitOpsType DEF FinishDrop
    <2>3. /\ DOMAIN graphs' \subseteq Graph
          /\ graphs' \in [DOMAIN graphs' -> Presence]
          /\ errored' \in BOOLEAN
        BY <1>7, <2>1, NoteGraphType DEF FinishDrop, TypeOK
    <2>4. QED
        BY <1>7, <2>2, <2>3 DEF FinishDrop, counters, TypeOK
<1>8. ASSUME begin PROVE TypeOK'
    <2>1. EmptyMap \in [{} -> Int] /\ EmptyMap \in [{} -> Presence] /\ DOMAIN EmptyMap = {}
        BY EmptyMapType
    <2>2. QED
        BY <1>8, <2>1 DEF begin, EmptyScope, counters, TypeOK
<1>9. ASSUME commit PROVE TypeOK'
    BY <1>9, CloseScopeType DEF commit, Written, Over, counters, TypeOK
<1>10. ASSUME CommitFails PROVE TypeOK'
    BY <1>10, CloseScopeType DEF CommitFails, TypeOK
<1>11. ASSUME rollback PROVE TypeOK'
    BY <1>11, CloseScopeType DEF rollback, TypeOK
<1>12. ASSUME CrashAndOpen PROVE TypeOK'
    <2>1. /\ db[QuadsKey] \in Int
          /\ db[GenerationKey] \in Int
          /\ \A p \in Predicate : db[StatsKey(p)] \in Int
        BY DEF Key, TypeOK
    <2>2. QED
        BY <1>12, <2>1, CloseScopeType DEF CrashAndOpen, TypeOK
<1>13. ASSUME CacheStatistics PROVE TypeOK'
    <2>1. ScannedRows("dspo") \cup ScannedOverlay("dspo") \in SUBSET Quad
        BY DEF ScannedRows, ScannedOverlay, TypeOK
    <2>2. QED
        BY <1>13, <2>1 DEF CacheStatistics, counters, overlay, TypeOK
<1>14. ASSUME DropFails PROVE TypeOK'
    BY <1>14 DEF DropFails, counters, overlay, TypeOK
<1>15. ASSUME UNCHANGED vars PROVE TypeOK'
    BY <1>15 DEF vars, TypeOK
<1>16. QED
    BY <1>1, <1>2, <1>3, <1>4, <1>5, <1>6, <1>7, <1>8, <1>9, <1>10, <1>11, <1>12, <1>13, <1>14,
       <1>15
       DEF Next, remove_encoded, DropQuad

\* Whatever the calls, the faults and the crashes, every field of the storage keeps its
\* type.
THEOREM TypeCorrect == Spec => []TypeOK
BY InitType, NextType, PTL DEF Spec

-----------------------------------------------------------------------------
(* What a batch does to a database                                         *)

\* Every row key of a quad begins with the name of an order, and no other key does.
LEMMA RowKeyShape ==
    ASSUME NEW y \in Quad
    PROVE  /\ \A k \in RowKeys(y) : k[1] \in TripleOrders \cup QuadOrders /\ k[2] = y
           /\ {"graphs", "stats", "meta"} \cap (TripleOrders \cup QuadOrders) = {}
<1>1. \A k \in RowKeys(y) : k[1] \in TripleOrders \cup QuadOrders /\ k[2] = y
    BY DEF RowKeys, Orders
<1>2. {"graphs", "stats", "meta"} \cap (TripleOrders \cup QuadOrders) = {}
    BY DEF TripleOrders, QuadOrders
<1>3. QED
    BY <1>1, <1>2

\* A row of one quad is written by no batch of another.
LEMMA RowKeyOwner ==
    ASSUME NEW x \in Quad, NEW y \in Quad, NEW f \in Orders(x)
    PROVE  /\ <<f, x>> \in Key
           /\ <<f, x>> \in RowKeys(y) <=> x = y
           /\ <<f, x>> \notin CatalogueKeys(y) \cup CounterKeys(y)
           /\ \A g : <<f, x>> # GraphKey(g)
<1>1. <<f, x>> \in RowKeys(x) /\ <<f, x>> \in Key
    BY DEF RowKeys, Key
<1>2. f \notin {"graphs", "stats", "meta"}
    BY <1>1, RowKeyShape
<1>3. <<f, x>> \in RowKeys(y) <=> x = y
    BY <1>1, RowKeyShape
<1>4. QED
    BY <1>1, <1>2, <1>3
       DEF CatalogueKeys, CounterKeys, GraphKey, StatsKey, QuadsKey, GenerationKey

\* A catalogue row is written only by an insertion into that graph.
LEMMA GraphKeyOwner ==
    ASSUME NEW y \in Quad, NEW g \in Graph
    PROVE  /\ GraphKey(g) \in Key
           /\ GraphKey(g) \notin RowKeys(y) \cup CounterKeys(y)
           /\ GraphKey(g) \in CatalogueKeys(y) <=> ~IsDefault(y) /\ g = GraphOf[y]
BY RowKeyShape
   DEF Key, CatalogueKeys, CounterKeys, GraphKey, StatsKey, QuadsKey, GenerationKey

\* The counter rows are written by every quad batch, each with its own predicate.
LEMMA CounterKeyOwner ==
    ASSUME NEW y \in Quad
    PROVE  /\ CounterKeys(y) \cap (RowKeys(y) \cup CatalogueKeys(y)) = {}
           /\ {QuadsKey, GenerationKey} \subseteq Key \cap CounterKeys(y)
           /\ QuadsKey # GenerationKey
           /\ \A p \in Predicate :
                 /\ StatsKey(p) \in Key
                 /\ StatsKey(p) \notin {QuadsKey, GenerationKey}
                 /\ StatsKey(p) \in CounterKeys(y) <=> p = PredOf[y]
                 /\ StatsKey(p) \notin RowKeys(y) \cup CatalogueKeys(y)
           /\ \A g : GraphKey(g) \notin {QuadsKey, GenerationKey}
           /\ \A g, p : GraphKey(g) # StatsKey(p)
BY RowKeyShape
   DEF Key, CatalogueKeys, CounterKeys, GraphKey, StatsKey, QuadsKey, GenerationKey

\* The order that is asked is one of the orders of the quad.
LEMMA PrimaryIsOrder ==
    ASSUME NEW q \in Quad
    PROVE  PrimaryOrder(q) \in Orders(q) /\ PrimaryKey(q) = <<PrimaryOrder(q), q>>
BY DEF PrimaryOrder, Orders, PrimaryKey, TripleOrders, QuadOrders

\* Through commit_ops a batch reaches what the database will be, buffered or not.
LEMMA BufferedBatch ==
    ASSUME TypeOK, ScopeShape, NEW batch, NEW n, DOMAIN batch \subseteq Key,
           commit_ops(batch, n)
    PROVE  Written(pending)' = Over(Written(pending), batch)
<1>1. CASE in_scope
    BY <1>1 DEF commit_ops, Written, Over, Extend, TypeOK
<1>2. CASE ~in_scope
    BY <1>2 DEF commit_ops, Written, Over, ScopeShape, TypeOK
<1>3. QED
    BY <1>1, <1>2

\* Outside a scope what the database will be is what it is.
LEMMA ClosedIsWritten ==
    ASSUME TypeOK, DOMAIN pending = {}
    PROVE  Written(pending) = db
BY DEF Written, Over, TypeOK

\* An inserted quad is in every one of its orders and its graph is in the catalogue;
\* nothing else moves.
LEMMA InsertIndexed ==
    ASSUME TypeOK, NEW rows, Indexed(rows), NEW q \in Quad
    PROVE  LET after == Over(rows, InsertBatch(q))
           IN  /\ Indexed(after)
               /\ \A x \in Quad : after[PrimaryKey(x)] = 1
                                      <=> x = q \/ rows[PrimaryKey(x)] = 1
               /\ \A g \in Graph : after[GraphKey(g)] = 1
                                       <=> (~IsDefault(q) /\ g = GraphOf[q])
                                             \/ rows[GraphKey(g)] = 1
<1> DEFINE after == Over(rows, InsertBatch(q))
<1>1. ASSUME NEW x \in Quad, NEW f \in Orders(x)
      PROVE  after[<<f, x>>] = IF x = q THEN 1 ELSE rows[<<f, x>>]
    BY RowKeyOwner DEF Over, InsertBatch
<1>2. ASSUME NEW g \in Graph
      PROVE  after[GraphKey(g)] = IF ~IsDefault(q) /\ g = GraphOf[q] THEN 1
                                  ELSE rows[GraphKey(g)]
    BY GraphKeyOwner DEF Over, InsertBatch
<1>3. ASSUME NEW x \in Quad
      PROVE  after[PrimaryKey(x)] = IF x = q THEN 1 ELSE rows[PrimaryKey(x)]
    BY <1>1, PrimaryIsOrder
<1> HIDE DEF after
<1>4. \A x \in Quad : after[PrimaryKey(x)] \in {0, 1}
    BY <1>3 DEF Indexed
<1>5. \A x \in Quad : \A f \in Orders(x) : after[<<f, x>>] = after[PrimaryKey(x)]
    BY <1>1, <1>3 DEF Indexed
<1>6. \A x \in QuadsIn(after) : IsDefault(x) \/ after[GraphKey(GraphOf[x])] = 1
    BY <1>2, <1>3, GraphAssumption DEF Indexed, QuadsIn, IsDefault
<1>7. Indexed(after)
    BY <1>4, <1>5, <1>6 DEF Indexed
<1>8. QED
    BY <1>2, <1>3, <1>7 DEF after

\* A removed quad leaves every one of its orders; the catalogue does not move.
LEMMA RemoveIndexed ==
    ASSUME TypeOK, NEW rows, Indexed(rows), NEW q \in Quad
    PROVE  LET after == Over(rows, RemoveBatch(q))
           IN  /\ Indexed(after)
               /\ \A x \in Quad : after[PrimaryKey(x)] = 1
                                      <=> x # q /\ rows[PrimaryKey(x)] = 1
               /\ \A g \in Graph : after[GraphKey(g)] = rows[GraphKey(g)]
<1> DEFINE after == Over(rows, RemoveBatch(q))
<1>1. ASSUME NEW x \in Quad, NEW f \in Orders(x)
      PROVE  after[<<f, x>>] = IF x = q THEN 0 ELSE rows[<<f, x>>]
    BY RowKeyOwner, RemoveBatchShape DEF Over
<1>2. ASSUME NEW g \in Graph
      PROVE  after[GraphKey(g)] = rows[GraphKey(g)]
    BY GraphKeyOwner, RemoveBatchShape DEF Over
<1>3. ASSUME NEW x \in Quad
      PROVE  after[PrimaryKey(x)] = IF x = q THEN 0 ELSE rows[PrimaryKey(x)]
    BY <1>1, PrimaryIsOrder
<1> HIDE DEF after
<1>4. \A x \in Quad : after[PrimaryKey(x)] \in {0, 1}
    BY <1>3 DEF Indexed
<1>5. \A x \in Quad : \A f \in Orders(x) : after[<<f, x>>] = after[PrimaryKey(x)]
    BY <1>1, <1>3 DEF Indexed
<1>6. \A x \in QuadsIn(after) : IsDefault(x) \/ after[GraphKey(GraphOf[x])] = 1
    BY <1>2, <1>3, GraphAssumption DEF Indexed, QuadsIn, IsDefault
<1>7. Indexed(after)
    BY <1>4, <1>5, <1>6 DEF Indexed
<1>8. QED
    BY <1>2, <1>3, <1>7 DEF after

\* A catalogue batch moves one entry; taking an entry away needs its graph empty.
LEMMA GraphIndexed ==
    ASSUME NEW rows, Indexed(rows), NEW g \in Graph, NEW b \in BOOLEAN,
           b \/ \A x \in QuadsIn(rows) : GraphOf[x] # g
    PROVE  LET after == Over(rows, GraphBatch(g, b))
           IN  /\ Indexed(after)
               /\ \A x \in Quad : after[PrimaryKey(x)] = rows[PrimaryKey(x)]
               /\ \A h \in Graph : after[GraphKey(h)] = 1
                                       <=> IF h = g THEN b ELSE rows[GraphKey(h)] = 1
<1> DEFINE after == Over(rows, GraphBatch(g, b))
<1>1. ASSUME NEW x \in Quad, NEW f \in Orders(x)
      PROVE  after[<<f, x>>] = rows[<<f, x>>]
    BY RowKeyOwner DEF Over, GraphBatch
<1>2. ASSUME NEW h \in Graph
      PROVE  after[GraphKey(h)] = IF h = g THEN (IF b THEN 1 ELSE 0) ELSE rows[GraphKey(h)]
    BY DEF Over, GraphBatch, GraphKey, Key
<1>3. ASSUME NEW x \in Quad
      PROVE  after[PrimaryKey(x)] = rows[PrimaryKey(x)]
    BY <1>1, PrimaryIsOrder
<1> HIDE DEF after
<1>4. \A x \in Quad : after[PrimaryKey(x)] \in {0, 1}
    BY <1>3 DEF Indexed
<1>5. \A x \in Quad : \A f \in Orders(x) : after[<<f, x>>] = after[PrimaryKey(x)]
    BY <1>1, <1>3 DEF Indexed
<1>6. \A x \in QuadsIn(after) : IsDefault(x) \/ after[GraphKey(GraphOf[x])] = 1
    BY <1>2, <1>3, GraphAssumption DEF Indexed, QuadsIn, IsDefault
<1>7. Indexed(after)
    BY <1>4, <1>5, <1>6 DEF Indexed
<1>8. QED
    BY <1>2, <1>3, <1>7 DEF after

\* The rows of the database after a batch: its own, or those the scope will leave.
LEMMA DatabaseAfter ==
    ASSUME TypeOK, TypeOK', ScopeShape, NEW batch, NEW n, DOMAIN batch \subseteq Key,
           commit_ops(batch, n), UNCHANGED in_scope
    PROVE  /\ in_scope => db' = db
           /\ ~in_scope => DOMAIN pending' = {} /\ db' = Over(Written(pending), batch)
<1>1. CASE in_scope
    BY <1>1 DEF commit_ops
<1>2. CASE ~in_scope
    <2>1. Written(pending) = db /\ DOMAIN pending' = {}
        BY <1>2, ClosedIsWritten DEF ScopeShape, commit_ops
    <2>2. QED
        BY <1>2, <2>1 DEF commit_ops, Written
<1>3. QED
    BY <1>1, <1>2

-----------------------------------------------------------------------------
(* The overlay and the indexes                                             *)

\* A write that the scope has room for keeps the structure, given what its batch does to
\* the database to come (seen) and what it notes.
LEMMA WriteStructure ==
    ASSUME StructureInv, TypeOK', NEW batch, NEW n, DOMAIN batch \subseteq Key,
           commit_ops(batch, n), UNCHANGED <<in_scope, errored>>, ~errored,
           Indexed(Over(Written(pending), batch))
    PROVE  /\ Indexed(db')
           /\ Indexed(Written(pending)')
<1>1. Written(pending)' = Over(Written(pending), batch)
    BY BufferedBatch DEF StructureInv
<1>2. Indexed(db')
    BY DatabaseAfter DEF StructureInv
<1>3. QED
    BY <1>1, <1>2

\* After insert_encoded.
LEMMA InsertStructure ==
    ASSUME StructureInv, TypeOK', ErrorsSwallowed = FALSE, NEW q \in Quad, insert_encoded(q)
    PROVE  StructureInv'
<1> DEFINE W == Written(pending)
           after == Over(W, InsertBatch(q))
<1>1. ~errored /\ ~errored'
    BY DEF insert_encoded, Ready
<1>2. DOMAIN InsertBatch(q) \subseteq Key
    BY BatchType DEF StructureInv
<1>3. /\ Indexed(after)
      /\ \A x \in Quad : after[PrimaryKey(x)] = 1 <=> x = q \/ W[PrimaryKey(x)] = 1
      /\ \A g \in Graph : after[GraphKey(g)] = 1
                              <=> (~IsDefault(q) /\ g = GraphOf[q]) \/ W[GraphKey(g)] = 1
    BY <1>1, InsertIndexed DEF StructureInv
<1>4. Written(pending)' = after
    BY <1>2, BufferedBatch DEF StructureInv, insert_encoded
<1>5. Indexed(db') /\ Indexed(Written(pending)')
    BY <1>1, <1>2, <1>3, WriteStructure DEF insert_encoded
<1>6. /\ in_scope => db' = db
      /\ ~in_scope => db' = after /\ DOMAIN pending' = {}
    BY <1>2, DatabaseAfter DEF StructureInv, insert_encoded
<1>7. in_scope' = in_scope
    BY DEF insert_encoded
<1>8. CASE in_scope
    <2>1. quads' = Note(quads, q, FALSE, TRUE)
        BY <1>8 DEF insert_encoded, note_quad
    <2>2. graphs' = IF IsDefault(q) THEN graphs
                    ELSE Note(graphs, GraphOf[q], db_contains_graph(GraphOf[q]), TRUE)
        BY <1>8 DEF insert_encoded, note_graph
    <2>3. \A x \in Quad : contains_encoded(x)' <=> x = q \/ contains_encoded(x)
        BY <1>6, <1>8, <2>1 DEF contains_encoded, db_contains, Note, StructureInv, TypeOK, Presence
    <2>4. \A g \in Graph : contains_named_graph(g)'
                              <=> (~IsDefault(q) /\ g = GraphOf[q]) \/ contains_named_graph(g)
        BY <1>6, <1>8, <2>2 DEF contains_named_graph, db_contains_graph, Note, StructureInv,
           TypeOK, Presence
    <2>5. OverlayIsBuffer'
        BY <1>1, <1>3, <1>4, <2>3, <2>4 DEF StructureInv, OverlayIsBuffer
    <2>6. \A x \in DOMAIN quads' : quads'[x].in_db <=> db_contains(x)'
        BY <1>6, <1>8, <2>1 DEF StructureInv, OverlayKnowsDatabase, Note, db_contains,
           insert_encoded, contains_encoded
    <2>7. \A g \in DOMAIN graphs' : graphs'[g].in_db <=> db_contains_graph(g)'
        BY <1>6, <1>8, <2>2 DEF StructureInv, OverlayKnowsDatabase, Note, db_contains_graph
    <2>8. ScopeShape'
        BY <1>1, <1>7, <1>8 DEF ScopeShape
    <2>9. QED
        BY <1>5, <2>5, <2>6, <2>7, <2>8 DEF StructureInv, OverlayKnowsDatabase
<1>9. CASE ~in_scope
    <2>1. quads' = quads /\ graphs' = graphs /\ DOMAIN quads = {} /\ DOMAIN graphs = {}
        BY <1>9 DEF insert_encoded, note_quad, note_graph, StructureInv, ScopeShape
    <2>2. OverlayIsBuffer'
        BY <1>4, <1>6, <1>9, <2>1 DEF OverlayIsBuffer, contains_encoded, contains_named_graph,
           db_contains, db_contains_graph
    <2>3. ScopeShape'
        BY <1>1, <1>6, <1>7, <1>9, <2>1 DEF ScopeShape
    <2>4. OverlayKnowsDatabase'
        BY <2>1 DEF OverlayKnowsDatabase
    <2>5. QED
        BY <1>5, <2>2, <2>3, <2>4 DEF StructureInv
<1>10. QED
    BY <1>8, <1>9

\* After a removal, asked for by itself or by remove_named_graph.
LEMMA RemoveStructure ==
    ASSUME StructureInv, TypeOK', ~errored, NEW q \in Quad, RemoveQuad(q)
    PROVE  StructureInv'
<1> DEFINE W == Written(pending)
           after == Over(W, RemoveBatch(q))
<1>1. ~errored'
    BY DEF RemoveQuad
<1>2. DOMAIN RemoveBatch(q) \subseteq Key
    BY BatchType DEF StructureInv
<1>3. /\ Indexed(after)
      /\ \A x \in Quad : after[PrimaryKey(x)] = 1 <=> x # q /\ W[PrimaryKey(x)] = 1
      /\ \A g \in Graph : after[GraphKey(g)] = W[GraphKey(g)]
    BY RemoveIndexed DEF StructureInv
<1>4. Written(pending)' = after
    BY <1>2, BufferedBatch DEF StructureInv, RemoveQuad
<1>5. Indexed(db') /\ Indexed(Written(pending)')
    BY <1>1, <1>2, <1>3, WriteStructure DEF RemoveQuad
<1>6. /\ in_scope => db' = db
      /\ ~in_scope => db' = after /\ DOMAIN pending' = {}
    BY <1>2, DatabaseAfter DEF StructureInv, RemoveQuad
<1>7. in_scope' = in_scope /\ graphs' = graphs
    BY DEF RemoveQuad
<1>8. CASE in_scope
    <2>1. quads' = Note(quads, q, TRUE, FALSE)
        BY <1>8 DEF RemoveQuad, note_quad
    <2>2. \A x \in Quad : contains_encoded(x)' <=> x # q /\ contains_encoded(x)
        BY <1>6, <1>8, <2>1 DEF contains_encoded, db_contains, Note, StructureInv, TypeOK, Presence
    <2>3. \A g \in Graph : contains_named_graph(g)' <=> contains_named_graph(g)
        BY <1>6, <1>7, <1>8 DEF contains_named_graph, db_contains_graph
    <2>4. OverlayIsBuffer'
        BY <1>3, <1>4, <2>2, <2>3 DEF StructureInv, OverlayIsBuffer
    <2>5. \A x \in DOMAIN quads' : quads'[x].in_db <=> db_contains(x)'
        BY <1>6, <1>8, <2>1 DEF StructureInv, OverlayKnowsDatabase, Note, db_contains,
           RemoveQuad, contains_encoded
    <2>6. \A g \in DOMAIN graphs' : graphs'[g].in_db <=> db_contains_graph(g)'
        BY <1>6, <1>7, <1>8 DEF StructureInv, OverlayKnowsDatabase, db_contains_graph
    <2>7. ScopeShape'
        BY <1>1, <1>7, <1>8 DEF ScopeShape
    <2>8. QED
        BY <1>5, <2>4, <2>5, <2>6, <2>7 DEF StructureInv, OverlayKnowsDatabase
<1>9. CASE ~in_scope
    <2>1. quads' = quads /\ DOMAIN quads = {} /\ DOMAIN graphs = {}
        BY <1>9 DEF RemoveQuad, note_quad, StructureInv, ScopeShape
    <2>2. OverlayIsBuffer'
        BY <1>4, <1>6, <1>7, <1>9, <2>1 DEF OverlayIsBuffer, contains_encoded,
           contains_named_graph, db_contains, db_contains_graph
    <2>3. ScopeShape'
        BY <1>1, <1>6, <1>7, <1>9, <2>1 DEF ScopeShape
    <2>4. OverlayKnowsDatabase'
        BY <1>7, <2>1 DEF OverlayKnowsDatabase
    <2>5. QED
        BY <1>5, <2>2, <2>3, <2>4 DEF StructureInv
<1>10. QED
    BY <1>8, <1>9

\* After a catalogue entry was added, or taken from a graph nobody sees a quad in.
LEMMA GraphStructure ==
    ASSUME StructureInv, TypeOK', ~errored, NEW g \in Graph, NEW b \in BOOLEAN,
           b \/ \A x \in Visible : GraphOf[x] # g,
           commit_ops(GraphBatch(g, b), 1), note_graph(g, b),
           UNCHANGED <<in_scope, quads, errored>>
    PROVE  StructureInv'
<1> DEFINE W == Written(pending)
           after == Over(W, GraphBatch(g, b))
<1>1. DOMAIN GraphBatch(g, b) \subseteq Key
    BY GraphBatchType
<1>2. b \/ \A x \in QuadsIn(W) : GraphOf[x] # g
    BY DEF StructureInv, OverlayIsBuffer, Visible, QuadsIn
<1>3. /\ Indexed(after)
      /\ \A x \in Quad : after[PrimaryKey(x)] = W[PrimaryKey(x)]
      /\ \A h \in Graph : after[GraphKey(h)] = 1 <=> IF h = g THEN b ELSE W[GraphKey(h)] = 1
    BY <1>2, GraphIndexed DEF StructureInv
<1>4. Written(pending)' = after
    BY <1>1, BufferedBatch DEF StructureInv
<1>5. Indexed(db') /\ Indexed(Written(pending)')
    BY <1>1, <1>3, WriteStructure
<1>6. /\ in_scope => db' = db
      /\ ~in_scope => db' = after /\ DOMAIN pending' = {}
    BY <1>1, DatabaseAfter DEF StructureInv
<1>8. CASE in_scope
    <2>1. graphs' = Note(graphs, g, db_contains_graph(g), b)
        BY <1>8 DEF note_graph
    <2>2. \A x \in Quad : contains_encoded(x)' <=> contains_encoded(x)
        BY <1>6, <1>8 DEF contains_encoded, db_contains
    <2>3. \A h \in Graph : contains_named_graph(h)' <=> IF h = g THEN b ELSE contains_named_graph(h)
        BY <1>6, <1>8, <2>1 DEF contains_named_graph, db_contains_graph, Note, StructureInv,
           TypeOK, Presence
    <2>4. OverlayIsBuffer'
        BY <1>3, <1>4, <2>2, <2>3 DEF StructureInv, OverlayIsBuffer
    <2>5. \A x \in DOMAIN quads' : quads'[x].in_db <=> db_contains(x)'
        BY <1>6, <1>8 DEF StructureInv, OverlayKnowsDatabase, db_contains
    <2>6. \A h \in DOMAIN graphs' : graphs'[h].in_db <=> db_contains_graph(h)'
        BY <1>6, <1>8, <2>1 DEF StructureInv, OverlayKnowsDatabase, Note, db_contains_graph
    <2>7. ScopeShape'
        BY <1>8 DEF ScopeShape
    <2>8. QED
        BY <1>5, <2>4, <2>5, <2>6, <2>7 DEF StructureInv, OverlayKnowsDatabase
<1>9. CASE ~in_scope
    <2>1. graphs' = graphs /\ DOMAIN quads = {} /\ DOMAIN graphs = {}
        BY <1>9 DEF note_graph, StructureInv, ScopeShape
    <2>2. OverlayIsBuffer'
        BY <1>4, <1>6, <1>9, <2>1 DEF OverlayIsBuffer, contains_encoded,
           contains_named_graph, db_contains, db_contains_graph
    <2>3. ScopeShape'
        BY <1>6, <1>9, <2>1 DEF ScopeShape
    <2>4. OverlayKnowsDatabase'
        BY <2>1 DEF OverlayKnowsDatabase
    <2>5. QED
        BY <1>5, <2>2, <2>3, <2>4 DEF StructureInv
<1>10. QED
    BY <1>8, <1>9

\* After a write the scope had no room for: it is only good for a rollback.
LEMMA OverflowStructure ==
    ASSUME StructureInv, TypeOK', in_scope, NEW batch, NEW n, commit_ops(batch, n),
           errored' = TRUE, dropping' = NoGraph, UNCHANGED <<in_scope, quads, graphs>>
    PROVE  StructureInv'
BY DEF StructureInv, commit_ops, OverlayKnowsDatabase, ScopeShape, db_contains, db_contains_graph

\* After a scope was closed, with the database it leaves well indexed.
LEMMA CloseStructure ==
    ASSUME TypeOK', CloseScope, Indexed(db'), UNCHANGED dropping \/ dropping' = NoGraph
    PROVE  StructureInv'
<1>1. DOMAIN EmptyMap = {}
    BY EmptyMapType
<1>2. DOMAIN pending' = {} /\ DOMAIN quads' = {} /\ DOMAIN graphs' = {} /\ ~errored' /\ ~in_scope'
    BY <1>1 DEF CloseScope, EmptyScope
<1>3. Written(pending)' = db'
    BY <1>2 DEF Written, Over, TypeOK
<1>4. OverlayIsBuffer'
    BY <1>2, <1>3 DEF OverlayIsBuffer, contains_encoded, contains_named_graph, db_contains,
       db_contains_graph
<1>5. OverlayKnowsDatabase' /\ ScopeShape'
    BY <1>2 DEF OverlayKnowsDatabase, ScopeShape
<1>6. QED
    BY <1>3, <1>4, <1>5 DEF StructureInv

\* A new store is well indexed.
LEMMA InitStructure == Init => StructureInv
<1> SUFFICES ASSUME Init PROVE StructureInv
    OBVIOUS
<1>1. TypeOK
    BY InitType
<1>2. DOMAIN pending = {} /\ DOMAIN quads = {} /\ DOMAIN graphs = {} /\ ~errored
    BY EmptyMapType DEF Init
<1>3. Written(pending) = db
    BY <1>1, <1>2, ClosedIsWritten
<1>4. \A q \in Quad : \A f \in Orders(q) : db[<<f, q>>] = 0
    BY RowKeyOwner DEF Init
<1>5. \A q \in Quad : db[PrimaryKey(q)] = 0
    BY <1>4, PrimaryIsOrder
<1>6. Indexed(db)
    BY <1>4, <1>5 DEF Indexed, QuadsIn
<1>7. OverlayIsBuffer /\ OverlayKnowsDatabase /\ ScopeShape
    BY <1>2, <1>3 DEF OverlayIsBuffer, OverlayKnowsDatabase, ScopeShape, contains_encoded,
       contains_named_graph, db_contains, db_contains_graph
<1>8. QED
    BY <1>1, <1>3, <1>6, <1>7 DEF StructureInv

\* Every step keeps the structure, as long as no caller carries on after an error.
LEMMA NextStructure ==
    ASSUME ErrorsSwallowed = FALSE, StructureInv, [Next]_vars
    PROVE  StructureInv'
<1>0. TypeOK /\ TypeOK'
    BY NextType DEF StructureInv
<1>1. ASSUME NEW q \in Quad, insert_encoded(q) PROVE StructureInv'
    BY <1>0, <1>1, InsertStructure
<1>2. ASSUME NEW q \in Quad, remove_encoded(q) PROVE StructureInv'
    BY <1>0, <1>2, RemoveStructure DEF remove_encoded, Ready
<1>3. ASSUME NEW q \in Quad, DropQuad(q) PROVE StructureInv'
    <2>1. ~errored
        BY <1>3, GraphAssumption DEF DropQuad, StructureInv, ScopeShape
    <2>2. QED
        BY <1>0, <1>3, <2>1, RemoveStructure DEF DropQuad
<1>4. ASSUME NEW q \in Quad, NEW d \in {1, -1}, WriteOverflows(q, d) PROVE StructureInv'
    BY <1>0, <1>4, OverflowStructure DEF WriteOverflows, Overflows
<1>5. ASSUME NEW q \in Quad, NEW d \in {1, -1}, DirectWriteFails(q, d) PROVE StructureInv'
    BY <1>0, <1>5 DEF DirectWriteFails, StructureInv, OverlayIsBuffer, OverlayKnowsDatabase,
       ScopeShape, contains_encoded, contains_named_graph, db_contains, db_contains_graph, Written
<1>6. ASSUME NEW g \in Graph, insert_named_graph(g) PROVE StructureInv'
    <2>1. ~errored
        BY <1>6 DEF insert_named_graph, Ready
    <2>2. CASE Overflows(1)
        <3>1. dropping' = NoGraph
            BY <1>6 DEF insert_named_graph, Ready
        <3>2. QED
            BY <1>0, <1>6, <2>2, <3>1, OverflowStructure DEF insert_named_graph, Overflows
    <2>3. CASE ~Overflows(1)
        BY <1>0, <1>6, <2>1, <2>3, GraphStructure DEF insert_named_graph
    <2>4. QED
        BY <2>2, <2>3
<1>7. ASSUME NEW g \in Graph, StartDrop(g) PROVE StructureInv'
    BY <1>0, <1>7 DEF StartDrop, Ready, overlay, StructureInv, OverlayIsBuffer,
       OverlayKnowsDatabase, ScopeShape, contains_encoded, contains_named_graph, db_contains,
       db_contains_graph, Written
<1>8. ASSUME FinishDrop PROVE StructureInv'
    <2>1. ~errored /\ dropping \in Graph
        BY <1>8, GraphAssumption DEF FinishDrop, StructureInv, ScopeShape
    <2>2. CASE Overflows(1)
        BY <1>0, <1>8, <2>2, OverflowStructure DEF FinishDrop, Overflows
    <2>3. CASE ~Overflows(1)
        BY <1>0, <1>8, <2>1, <2>3, GraphStructure DEF FinishDrop
    <2>4. QED
        BY <2>2, <2>3
<1>9. ASSUME begin PROVE StructureInv'
    <2>1. DOMAIN pending' = {} /\ DOMAIN quads' = {} /\ DOMAIN graphs' = {} /\ ~errored'
        BY <1>9, EmptyMapType DEF begin, EmptyScope
    <2>2. Written(pending)' = db' /\ db' = db
        BY <1>0, <1>9, <2>1 DEF begin, Written, Over, TypeOK
    <2>3. OverlayIsBuffer' /\ OverlayKnowsDatabase' /\ ScopeShape'
        BY <1>9, <2>1, <2>2 DEF OverlayIsBuffer, OverlayKnowsDatabase, ScopeShape,
           contains_encoded, contains_named_graph, db_contains, db_contains_graph
    <2>4. QED
        BY <1>0, <2>2, <2>3 DEF StructureInv
<1>10. ASSUME commit PROVE StructureInv'
    BY <1>0, <1>10, CloseStructure DEF commit, Ready, StructureInv
<1>11. ASSUME CommitFails PROVE StructureInv'
    BY <1>0, <1>11, CloseStructure DEF CommitFails, StructureInv
<1>12. ASSUME rollback PROVE StructureInv'
    BY <1>0, <1>12, CloseStructure DEF rollback, StructureInv
<1>13. ASSUME CrashAndOpen PROVE StructureInv'
    BY <1>0, <1>13, CloseStructure DEF CrashAndOpen, StructureInv
<1>14. ASSUME CacheStatistics PROVE StructureInv'
    BY <1>0, <1>14 DEF CacheStatistics, overlay, StructureInv, OverlayIsBuffer,
       OverlayKnowsDatabase, ScopeShape, contains_encoded, contains_named_graph, db_contains,
       db_contains_graph, Written
<1>15. ASSUME UNCHANGED vars PROVE StructureInv'
    BY <1>0, <1>15 DEF vars, StructureInv, OverlayIsBuffer, OverlayKnowsDatabase, ScopeShape,
       contains_encoded, contains_named_graph, db_contains, db_contains_graph, Written
<1>16. ASSUME DropFails PROVE StructureInv'
    BY <1>0, <1>16 DEF DropFails, overlay, StructureInv, OverlayIsBuffer,
       OverlayKnowsDatabase, ScopeShape, contains_encoded, contains_named_graph, db_contains,
       db_contains_graph, Written
<1>17. QED
    BY <1>1, <1>2, <1>3, <1>4, <1>5, <1>6, <1>7, <1>8, <1>9, <1>10, <1>11, <1>12, <1>13, <1>14,
       <1>15, <1>16 DEF Next

\* The structure gives what the runs check of it.
LEMMA StructureGivesIndexes == StructureInv => IndexesAgree
BY GraphAssumption DEF StructureInv, Indexed, IndexesAgree, Stored, StoredGraphs, QuadsIn,
   db_contains, db_contains_graph, IsDefault

\* Whatever fails underneath, a crash finds every index order of the database holding the
\* same quads and the catalogue covering them.
THEOREM IndexesAlwaysAgree ==
    ASSUME ErrorsSwallowed = FALSE
    PROVE  Spec => []IndexesAgree
<1>1. Init => StructureInv
    BY InitStructure
<1>2. StructureInv /\ [Next]_vars => StructureInv'
    BY NextStructure
<1>3. StructureInv => IndexesAgree
    BY StructureGivesIndexes
<1>4. QED
    BY <1>1, <1>2, <1>3, PTL DEF Spec

\* The two halves of a scan are disjoint because in_db is what the database says, and
\* together they are what the overlay and the database show.
LEMMA StructureGivesScans == StructureInv => ScanExact
<1> SUFFICES ASSUME StructureInv PROVE ScanExact
    OBVIOUS
<1>1. ASSUME NEW q \in Quad, NEW f \in Orders(q)
      PROVE  db[<<f, q>>] = 1 <=> db_contains(q)
    BY DEF StructureInv, Indexed, db_contains
<1>2. ASSUME NEW f \in TripleOrders \cup QuadOrders
      PROVE  /\ ScannedRows(f) \cap ScannedOverlay(f) = {}
             /\ ScannedRows(f) \cup ScannedOverlay(f) = {q \in Visible : f \in Orders(q)}
    BY <1>1 DEF StructureInv, TypeOK, OverlayKnowsDatabase, ScannedRows, ScannedOverlay, Visible,
       contains_encoded
<1>3. /\ ListedGraphs \cap AddedGraphs = {}
      /\ ListedGraphs \cup AddedGraphs = VisibleGraphs
    BY DEF StructureInv, TypeOK, OverlayKnowsDatabase, ListedGraphs, AddedGraphs, VisibleGraphs,
       contains_named_graph
<1>4. QED
    BY <1>2, <1>3 DEF ScanExact

\* A scan in any order merges the database and the scope's overlay into exactly the visible
\* quads, each once, even in a scope that has been told of an error.
THEOREM ScansAlwaysExact ==
    ASSUME ErrorsSwallowed = FALSE
    PROVE  Spec => []ScanExact
<1>1. Init => StructureInv
    BY InitStructure
<1>2. StructureInv /\ [Next]_vars => StructureInv'
    BY NextStructure
<1>3. StructureInv => ScanExact
    BY StructureGivesScans
<1>4. QED
    BY <1>1, <1>2, <1>3, PTL DEF Spec

-----------------------------------------------------------------------------
(* The counts                                                              *)

\* One more quad is one more in the count of all and in its predicate's, in no other's.
LEMMA InsertCounted ==
    ASSUME TypeOK, NEW rows, Counted(rows), NEW q \in Quad, rows[PrimaryKey(q)] # 1,
           Indexed(rows), quad_count = rows[QuadsKey],
           predicate_counts[PredOf[q]] = rows[StatsKey(PredOf[q])]
    PROVE  LET after == Over(rows, InsertBatch(q))
           IN  /\ Counted(after)
               /\ Wrap(quad_count + 1) = rows[QuadsKey] + 1
               /\ after[QuadsKey] = rows[QuadsKey] + 1
               /\ \A p \in Predicate :
                     after[StatsKey(p)] = rows[StatsKey(p)] + IF p = PredOf[q] THEN 1 ELSE 0
<1> DEFINE after == Over(rows, InsertBatch(q))
           S == QuadsIn(rows)
<1>1. after[QuadsKey] = Wrap(quad_count + 1)
    BY CounterKeyOwner DEF Over, InsertBatch, CounterValue
<1>2. ASSUME NEW p \in Predicate
      PROVE  after[StatsKey(p)] = IF p = PredOf[q] THEN rows[StatsKey(p)] + 1
                                  ELSE rows[StatsKey(p)]
    BY CounterKeyOwner DEF Over, InsertBatch, CounterValue
<1>3. QuadsIn(after) = S \cup {q} /\ q \notin S
    BY InsertIndexed DEF QuadsIn
<1>4. IsFiniteSet(S) /\ \A p \in Predicate : IsFiniteSet(OfPredicate(S, p))
    BY FiniteAssumption, FS_Subset DEF QuadsIn, OfPredicate
<1> HIDE DEF after, S
<1>5. Cardinality(QuadsIn(after)) = Cardinality(S) + 1
    BY <1>3, <1>4, FS_AddElement
<1>6. ASSUME NEW p \in Predicate
      PROVE  Cardinality(OfPredicate(QuadsIn(after), p))
                = IF p = PredOf[q] THEN Cardinality(OfPredicate(S, p)) + 1
                  ELSE Cardinality(OfPredicate(S, p))
    <2>1. CASE p = PredOf[q]
        <3>1. /\ OfPredicate(QuadsIn(after), p) = OfPredicate(S, p) \cup {q}
              /\ q \notin OfPredicate(S, p)
            BY <1>3, <2>1 DEF OfPredicate
        <3>2. QED
            BY <1>4, <2>1, <3>1, FS_AddElement
    <2>2. CASE p # PredOf[q]
        <3>1. OfPredicate(QuadsIn(after), p) = OfPredicate(S, p)
            BY <1>3, <2>2 DEF OfPredicate
        <3>2. QED
            BY <2>2, <3>1
    <2>3. QED
        BY <2>1, <2>2
<1>7. rows[QuadsKey] = Cardinality(S) /\ \A p \in Predicate : rows[StatsKey(p)] = Cardinality(OfPredicate(S, p))
    BY DEF Counted, S
<1>12. Wrap(quad_count + 1) = rows[QuadsKey] + 1
    <2>1. Cardinality(QuadsIn(after)) <= Cardinality(Quad) /\ Cardinality(S) \in Nat
        BY <1>4, FiniteAssumption, FS_Subset, FS_CardinalityType DEF QuadsIn
    <2>2. Cardinality(Quad) \in Nat
        BY FiniteAssumption, FS_CardinalityType
    <2>3. QED
        BY <1>5, <1>7, <2>1, <2>2, WordAssumption DEF Wrap
<1>8. Counted(after)
    BY <1>1, <1>2, <1>5, <1>6, <1>7, <1>12 DEF Counted
<1>9. \A p \in Predicate : rows[StatsKey(p)] \in Int
    BY <1>4, <1>7, FS_CardinalityType
<1>10. \A p \in Predicate : after[StatsKey(p)] = rows[StatsKey(p)] + IF p = PredOf[q] THEN 1 ELSE 0
    BY <1>2, <1>9
<1>11. QED
    BY <1>1, <1>8, <1>10, <1>12 DEF after

\* One quad less is one less in the same two counts.
LEMMA RemoveCounted ==
    ASSUME TypeOK, NEW rows, Counted(rows), NEW q \in Quad, rows[PrimaryKey(q)] = 1,
           Indexed(rows), quad_count = rows[QuadsKey],
           predicate_counts[PredOf[q]] = rows[StatsKey(PredOf[q])]
    PROVE  LET after == Over(rows, RemoveBatch(q))
           IN  /\ Counted(after)
               /\ Wrap(quad_count - 1) = rows[QuadsKey] - 1
               /\ ~NoCountOf(q)
               /\ after[QuadsKey] = rows[QuadsKey] - 1
               /\ \A p \in Predicate :
                     after[StatsKey(p)] = rows[StatsKey(p)] - IF p = PredOf[q] THEN 1 ELSE 0
<1> DEFINE after == Over(rows, RemoveBatch(q))
           S == QuadsIn(rows)
<1>1. after[QuadsKey] = Wrap(quad_count - 1)
    <2>1. quad_count + (-1) = quad_count - 1
        BY DEF TypeOK
    <2>2. QED
        BY <2>1, CounterKeyOwner DEF Over, RemoveBatch, CounterValue
<1>3. QuadsIn(after) = S \ {q} /\ q \in S
    BY RemoveIndexed DEF QuadsIn
<1>4. IsFiniteSet(S) /\ \A p \in Predicate : IsFiniteSet(OfPredicate(S, p))
    BY FiniteAssumption, FS_Subset DEF QuadsIn, OfPredicate
<1> HIDE DEF after, S
<1>5. Cardinality(QuadsIn(after)) = Cardinality(S) - 1
    BY <1>3, <1>4, FS_RemoveElement
<1>6. ASSUME NEW p \in Predicate
      PROVE  Cardinality(OfPredicate(QuadsIn(after), p))
                = IF p = PredOf[q] THEN Cardinality(OfPredicate(S, p)) - 1
                  ELSE Cardinality(OfPredicate(S, p))
    <2>1. CASE p = PredOf[q]
        <3>1. /\ OfPredicate(QuadsIn(after), p) = OfPredicate(S, p) \ {q}
              /\ q \in OfPredicate(S, p)
            BY <1>3, <2>1 DEF OfPredicate
        <3>2. QED
            BY <1>4, <2>1, <3>1, FS_RemoveElement
    <2>2. CASE p # PredOf[q]
        <3>1. OfPredicate(QuadsIn(after), p) = OfPredicate(S, p)
            BY <1>3, <2>2 DEF OfPredicate
        <3>2. QED
            BY <2>2, <3>1
    <2>3. QED
        BY <2>1, <2>2
<1>7. rows[QuadsKey] = Cardinality(S) /\ \A p \in Predicate : rows[StatsKey(p)] = Cardinality(OfPredicate(S, p))
    BY DEF Counted, S
<1>12. Wrap(quad_count - 1) = rows[QuadsKey] - 1
    <2>1. Cardinality(S) <= Cardinality(Quad) /\ Cardinality(S) \in Nat
        BY FiniteAssumption, FS_Subset, FS_CardinalityType DEF QuadsIn, S
    <2>2. Cardinality(Quad) \in Nat /\ Cardinality(QuadsIn(after)) \in Nat
        BY <1>3, <1>4, FS_RemoveElement, FiniteAssumption, FS_CardinalityType
    <2>3. QED
        BY <1>5, <1>7, <2>1, <2>2, WordAssumption DEF Wrap
<1>13. ~NoCountOf(q)
    <2>1. PredOf[q] \in Predicate /\ q \in OfPredicate(S, PredOf[q])
        BY <1>3, PredicateAssumption DEF OfPredicate
    <2>2. Cardinality(OfPredicate(S, PredOf[q])) # 0
        BY <1>4, <2>1, FS_EmptySet
    <2>3. QED
        BY <1>7, <2>1, <2>2 DEF NoCountOf
<1>2. ASSUME NEW p \in Predicate
      PROVE  after[StatsKey(p)] = IF p = PredOf[q] THEN rows[StatsKey(p)] - 1
                                  ELSE rows[StatsKey(p)]
    <2>1. CASE p = PredOf[q]
        BY <1>13, <2>1, CounterKeyOwner DEF Over, RemoveBatch, CounterValue, TypeOK, after
    <2>2. CASE p # PredOf[q]
        BY <1>13, <2>2, CounterKeyOwner DEF Over, RemoveBatch, after
    <2>3. QED
        BY <2>1, <2>2
<1>8. Counted(after)
    BY <1>1, <1>2, <1>5, <1>6, <1>7, <1>12 DEF Counted
<1>9. \A p \in Predicate : rows[StatsKey(p)] \in Int
    BY <1>4, <1>7, FS_CardinalityType
<1>10. \A p \in Predicate : after[StatsKey(p)] = rows[StatsKey(p)] - IF p = PredOf[q] THEN 1 ELSE 0
    BY <1>2, <1>9
<1>11. QED
    BY <1>1, <1>8, <1>10, <1>12, <1>13 DEF after

\* A catalogue batch leaves the counts alone.
LEMMA GraphCounted ==
    ASSUME NEW rows, Counted(rows), NEW g \in Graph, NEW b \in BOOLEAN
    PROVE  LET after == Over(rows, GraphBatch(g, b))
           IN  /\ Counted(after)
               /\ after[QuadsKey] = rows[QuadsKey]
               /\ \A p \in Predicate : after[StatsKey(p)] = rows[StatsKey(p)]
<1> DEFINE after == Over(rows, GraphBatch(g, b))
<1>1. after[QuadsKey] = rows[QuadsKey]
    BY DEF Over, GraphBatch, GraphKey, QuadsKey, Key
<1>2. \A p \in Predicate : after[StatsKey(p)] = rows[StatsKey(p)]
    BY DEF Over, GraphBatch, GraphKey, StatsKey, Key
<1>3. \A x \in Quad : after[PrimaryKey(x)] = rows[PrimaryKey(x)]
    BY PrimaryIsOrder, RowKeyOwner DEF Over, GraphBatch
<1>4. QuadsIn(after) = QuadsIn(rows)
    BY <1>3 DEF QuadsIn
<1>5. QED
    BY <1>1, <1>2, <1>4 DEF Counted

\* A write the scope has room for keeps the counts of the database and of the buffer.
LEMMA WriteCounts ==
    ASSUME StructureInv, CountInv, TypeOK', NEW batch, NEW n, DOMAIN batch \subseteq Key,
           commit_ops(batch, n), UNCHANGED <<in_scope, saved>>,
           Counted(Over(Written(pending), batch))
    PROVE  /\ Counted(db')
           /\ Counted(Written(pending)')
           /\ SavedAreStored'
<1>1. Written(pending)' = Over(Written(pending), batch)
    BY BufferedBatch DEF StructureInv
<1>2. in_scope => db' = db
    BY DatabaseAfter DEF StructureInv
<1>3. Counted(db')
    BY <1>2, DatabaseAfter DEF StructureInv, CountInv
<1>4. SavedAreStored'
    BY <1>2 DEF SavedAreStored, CountInv
<1>5. QED
    BY <1>1, <1>3, <1>4

\* The counters follow the buffer through a quad write.
LEMMA InsertCounts ==
    ASSUME StructureInv, CountInv, TypeOK', ErrorsSwallowed = FALSE, NEW q \in Quad,
           insert_encoded(q)
    PROVE  CountInv'
<1> DEFINE W == Written(pending)
           after == Over(W, InsertBatch(q))
<1>1. ~errored /\ PredOf[q] \in Predicate
    BY PredicateAssumption DEF insert_encoded, Ready
<1>2. W[PrimaryKey(q)] # 1
    BY <1>1 DEF StructureInv, OverlayIsBuffer, insert_encoded
<1>3. /\ quad_count = W[QuadsKey]
      /\ \A p \in Predicate : predicate_counts[p] = W[StatsKey(p)]
    BY <1>1 DEF CountInv, CountersAreBuffer
<1>4. /\ Counted(after)
      /\ Wrap(quad_count + 1) = W[QuadsKey] + 1
      /\ after[QuadsKey] = W[QuadsKey] + 1
      /\ \A p \in Predicate : after[StatsKey(p)] = W[StatsKey(p)] + IF p = PredOf[q] THEN 1 ELSE 0
    BY <1>1, <1>2, <1>3, InsertCounted DEF StructureInv, CountInv
<1>5. DOMAIN InsertBatch(q) \subseteq Key
    BY BatchType DEF StructureInv
<1>6. Written(pending)' = after
    BY <1>5, BufferedBatch DEF StructureInv, insert_encoded
<1>7. Counted(db') /\ Counted(Written(pending)') /\ SavedAreStored'
    BY <1>4, <1>5, WriteCounts DEF insert_encoded
<1>8. CountersAreBuffer'
    <2>1. quad_count' = Wrap(quad_count + 1)
        BY DEF insert_encoded, Advance
    <2>2. \A p \in Predicate : predicate_counts'[p]
                                 = predicate_counts[p] + IF p = PredOf[q] THEN 1 ELSE 0
        BY <1>1 DEF insert_encoded, Advance, StructureInv, TypeOK
    <2>3. QED
        BY <1>3, <1>4, <1>6, <2>1, <2>2 DEF CountersAreBuffer
<1>9. QED
    BY <1>7, <1>8 DEF CountInv

\* A removal keeps the counts exact, through the buffer or straight to the database.
LEMMA RemoveCounts ==
    ASSUME StructureInv, CountInv, TypeOK', ~errored, NEW q \in Quad, RemoveQuad(q)
    PROVE  CountInv'
<1> DEFINE W == Written(pending)
           after == Over(W, RemoveBatch(q))
<1>1. PredOf[q] \in Predicate
    BY PredicateAssumption
<1>2. W[PrimaryKey(q)] = 1
    BY DEF StructureInv, OverlayIsBuffer, RemoveQuad
<1>3. /\ quad_count = W[QuadsKey]
      /\ \A p \in Predicate : predicate_counts[p] = W[StatsKey(p)]
    BY DEF CountInv, CountersAreBuffer
<1>4. /\ Counted(after)
      /\ Wrap(quad_count - 1) = W[QuadsKey] - 1
      /\ ~NoCountOf(q)
      /\ after[QuadsKey] = W[QuadsKey] - 1
      /\ \A p \in Predicate : after[StatsKey(p)] = W[StatsKey(p)] - IF p = PredOf[q] THEN 1 ELSE 0
    BY <1>1, <1>2, <1>3, RemoveCounted DEF StructureInv, CountInv
<1>5. DOMAIN RemoveBatch(q) \subseteq Key
    BY BatchType DEF StructureInv
<1>6. Written(pending)' = after
    BY <1>5, BufferedBatch DEF StructureInv, RemoveQuad
<1>7. Counted(db') /\ Counted(Written(pending)') /\ SavedAreStored'
    BY <1>4, <1>5, WriteCounts DEF RemoveQuad
<1>8. CountersAreBuffer'
    <2>1. quad_count' = Wrap(quad_count - 1)
        <3>1. quad_count + (-1) = quad_count - 1
            BY DEF StructureInv, TypeOK
        <3>2. QED
            BY <3>1 DEF RemoveQuad, Advance
    <2>2. \A p \in Predicate : predicate_counts'[p]
                                 = predicate_counts[p] - IF p = PredOf[q] THEN 1 ELSE 0
        BY <1>1, <1>4 DEF RemoveQuad, Advance, NoCountOf, StructureInv, TypeOK
    <2>3. QED
        BY <1>3, <1>4, <1>6, <2>1, <2>2 DEF CountersAreBuffer
<1>9. QED
    BY <1>7, <1>8 DEF CountInv

\* A catalogue write does not touch them.
LEMMA GraphCounts ==
    ASSUME StructureInv, CountInv, TypeOK', ~errored, NEW g \in Graph, NEW b \in BOOLEAN,
           commit_ops(GraphBatch(g, b), 1), UNCHANGED <<in_scope, saved, counters>>
    PROVE  CountInv'
<1> DEFINE W == Written(pending)
           after == Over(W, GraphBatch(g, b))
<1>1. /\ Counted(after)
      /\ after[QuadsKey] = W[QuadsKey]
      /\ \A p \in Predicate : after[StatsKey(p)] = W[StatsKey(p)]
    BY GraphCounted DEF CountInv
<1>2. DOMAIN GraphBatch(g, b) \subseteq Key
    BY GraphBatchType
<1>3. Written(pending)' = after
    BY <1>2, BufferedBatch DEF StructureInv
<1>4. Counted(db') /\ Counted(Written(pending)') /\ SavedAreStored'
    BY <1>1, <1>2, WriteCounts
<1>5. CountersAreBuffer'
    BY <1>1, <1>3 DEF CountersAreBuffer, CountInv, counters
<1>6. QED
    BY <1>4, <1>5 DEF CountInv

\* A closed scope whose counters are the database's.
LEMMA CloseCounts ==
    ASSUME TypeOK', CloseScope, Counted(db'),
           quad_count' = db'[QuadsKey],
           \A p \in Predicate : predicate_counts'[p] = db'[StatsKey(p)]
    PROVE  CountInv'
<1>1. DOMAIN pending' = {} /\ ~in_scope'
    BY EmptyMapType DEF CloseScope, EmptyScope
<1>2. Written(pending)' = db'
    BY <1>1 DEF Written, Over, TypeOK
<1>3. QED
    BY <1>1, <1>2 DEF CountInv, CountersAreBuffer, SavedAreStored

\* An error in a scope leaves the database, and so what a rollback restores, alone.
LEMMA OverflowCounts ==
    ASSUME CountInv, in_scope, NEW batch, NEW n, commit_ops(batch, n), errored' = TRUE,
           UNCHANGED <<in_scope, saved>>
    PROVE  CountInv'
BY DEF CountInv, commit_ops, SavedAreStored

\* A new store holds nothing and says so.
LEMMA InitCounts == Init => CountInv
<1> SUFFICES ASSUME Init PROVE CountInv
    OBVIOUS
<1>1. StructureInv
    BY InitStructure
<1>2. Written(pending) = db /\ ~in_scope
    BY <1>1, EmptyMapType, ClosedIsWritten DEF Init, StructureInv
<1>3. db[QuadsKey] = 0 /\ \A p \in Predicate : db[StatsKey(p)] = 0
    BY DEF Init, Key
<1>4. QuadsIn(db) = {} /\ \A p \in Predicate : OfPredicate(QuadsIn(db), p) = {}
    BY PrimaryIsOrder, RowKeyOwner DEF Init, QuadsIn, OfPredicate
<1>5. Counted(db)
    BY <1>3, <1>4, FS_EmptySet DEF Counted
<1>6. QED
    BY <1>2, <1>3, <1>5 DEF CountInv, CountersAreBuffer, SavedAreStored, Init

\* What was refused stays refused.
LEMMA RefusedGrows == [Next]_vars => refused_batches \subseteq refused_batches'
BY DEF Next, vars, insert_encoded, remove_encoded, DropQuad, RemoveQuad, WriteOverflows,
       DirectWriteFails, insert_named_graph, StartDrop, FinishDrop, DropFails, begin, commit,
       CommitFails, rollback, CrashAndOpen, CacheStatistics

\* Every step keeps the counts, until a write outside a scope is refused.
LEMMA NextCounts ==
    ASSUME ErrorsSwallowed = FALSE, StructureInv, CountInv, [Next]_vars, "write" \notin refused_batches'
    PROVE  CountInv'
<1>0. TypeOK /\ TypeOK'
    BY NextType DEF StructureInv
<1>1. ASSUME NEW q \in Quad, insert_encoded(q) PROVE CountInv'
    BY <1>0, <1>1, InsertCounts
<1>2. ASSUME NEW q \in Quad, remove_encoded(q) PROVE CountInv'
    BY <1>0, <1>2, RemoveCounts DEF remove_encoded, Ready
<1>3. ASSUME NEW q \in Quad, DropQuad(q) PROVE CountInv'
    <2>1. ~errored
        BY <1>3, GraphAssumption DEF DropQuad, StructureInv, ScopeShape
    <2>2. QED
        BY <1>0, <1>3, <2>1, RemoveCounts DEF DropQuad
<1>4. ASSUME NEW q \in Quad, NEW d \in {1, -1}, WriteOverflows(q, d) PROVE CountInv'
    BY <1>0, <1>4, OverflowCounts DEF WriteOverflows, Overflows
<1>5. ASSUME NEW q \in Quad, NEW d \in {1, -1}, DirectWriteFails(q, d) PROVE CountInv'
    BY <1>5 DEF DirectWriteFails
<1>6. ASSUME NEW g \in Graph, insert_named_graph(g) PROVE CountInv'
    <2>1. ~errored
        BY <1>6 DEF insert_named_graph, Ready
    <2>2. QED
        BY <1>0, <1>6, <2>1, GraphCounts DEF insert_named_graph
<1>7. ASSUME NEW g \in Graph, StartDrop(g) PROVE CountInv'
    BY <1>7 DEF StartDrop, counters, CountInv, CountersAreBuffer, SavedAreStored, Written
<1>8. ASSUME FinishDrop PROVE CountInv'
    <2>1. ~errored /\ dropping \in Graph
        BY <1>8, GraphAssumption DEF FinishDrop, StructureInv, ScopeShape
    <2>2. QED
        BY <1>0, <1>8, <2>1, GraphCounts DEF FinishDrop
<1>9. ASSUME begin PROVE CountInv'
    <2>1. ~in_scope /\ ~errored
        BY <1>9 DEF begin, Ready
    <2>2. Written(pending) = db
        BY <1>0, <2>1, ClosedIsWritten DEF StructureInv, ScopeShape
    <2>3. DOMAIN pending' = {} /\ ~errored'
        BY <1>9, EmptyMapType DEF begin, EmptyScope
    <2>4. Written(pending)' = db' /\ db' = db
        BY <1>0, <1>9, <2>3 DEF begin, Written, Over, TypeOK
    <2>5. CountersAreBuffer'
        BY <1>9, <2>1, <2>2, <2>4 DEF begin, counters, CountInv, CountersAreBuffer
    <2>6. SavedAreStored'
        BY <1>9, <2>1, <2>2, <2>4 DEF begin, CountInv, CountersAreBuffer, SavedAreStored
    <2>7. QED
        BY <2>4, <2>5, <2>6 DEF CountInv
<1>10. ASSUME commit PROVE CountInv'
    <2>1. ~errored /\ db' = Written(pending) /\ CloseScope
        BY <1>10 DEF commit, Ready
    <2>2. Counted(Written(pending)) /\ CountersAreBuffer
        BY <2>1 DEF CountInv
    <2>3. /\ quad_count' = db'[QuadsKey]
          /\ \A p \in Predicate : predicate_counts'[p] = db'[StatsKey(p)]
        BY <1>10, <2>1, <2>2 DEF commit, counters, CountersAreBuffer
    <2>4. QED
        BY <1>0, <2>1, <2>2, <2>3, CloseCounts
<1>11. ASSUME CommitFails PROVE CountInv'
    BY <1>0, <1>11, CloseCounts DEF CommitFails, CountInv, SavedAreStored
<1>12. ASSUME rollback PROVE CountInv'
    BY <1>0, <1>12, CloseCounts DEF rollback, CountInv, SavedAreStored
<1>13. ASSUME CrashAndOpen PROVE CountInv'
    BY <1>0, <1>13, CloseCounts DEF CrashAndOpen, CountInv
<1>14. ASSUME CacheStatistics PROVE CountInv'
    BY <1>14 DEF CacheStatistics, counters, CountInv, CountersAreBuffer, SavedAreStored, Written
<1>15. ASSUME UNCHANGED vars PROVE CountInv'
    BY <1>15 DEF vars, CountInv, CountersAreBuffer, SavedAreStored, Written
<1>16. ASSUME DropFails PROVE CountInv'
    BY <1>16 DEF DropFails, counters, CountInv, CountersAreBuffer, SavedAreStored, Written
<1>17. QED
    BY <1>1, <1>2, <1>3, <1>4, <1>5, <1>6, <1>7, <1>8, <1>9, <1>10, <1>11, <1>12, <1>13, <1>14,
       <1>15, <1>16 DEF Next

\* The same, from step to step.
LEMMA CountsUntilRefusedKept ==
    ASSUME ErrorsSwallowed = FALSE, StructureInv, CountsUntilRefused, [Next]_vars
    PROVE  CountsUntilRefused'
<1>1. ASSUME "write" \notin refused_batches' PROVE CountInv'
    <2>1. CountInv
        BY <1>1, RefusedGrows DEF CountsUntilRefused
    <2>2. QED
        BY <1>1, <2>1, NextCounts
<1>2. QED
    BY <1>1 DEF CountsUntilRefused

\* The counts give what the runs check of them.
LEMMA CountsGiveExactness ==
    ASSUME StructureInv, CountsUntilRefused
    PROVE  StoredCountsExact /\ CountersExact
<1>1. QuadsIn(db) = Stored
    BY DEF QuadsIn, Stored, db_contains
<1>2. StoredCountsExact
    BY <1>1 DEF CountsUntilRefused, CountInv, Counted, StoredCountsExact
<1>3. ASSUME ~errored PROVE QuadsIn(Written(pending)) = Visible
    BY <1>3 DEF StructureInv, OverlayIsBuffer, QuadsIn, Visible
<1>4. CountersExact
    BY <1>3 DEF CountsUntilRefused, CountInv, Counted, CountersAreBuffer, CountersExact
<1>5. QED
    BY <1>2, <1>4

\* The counts a restart reads back are the counts of the rows it finds, at every instant
\* until a write outside a scope is refused.
THEOREM StoredCountsAlwaysExact ==
    ASSUME ErrorsSwallowed = FALSE
    PROVE  Spec => []StoredCountsExact
<1>1. Init => StructureInv /\ CountsUntilRefused
    BY InitStructure, InitCounts DEF CountsUntilRefused
<1>2. (StructureInv /\ CountsUntilRefused) /\ [Next]_vars => (StructureInv /\ CountsUntilRefused)'
    BY NextStructure, CountsUntilRefusedKept
<1>3. StructureInv /\ CountsUntilRefused => StoredCountsExact
    BY CountsGiveExactness
<1>4. QED
    BY <1>1, <1>2, <1>3, PTL DEF Spec

\* len and predicate_count never disagree with what a read finds, through scopes,
\* rollbacks, failed commits and restarts, until a write outside a scope is refused.
THEOREM CountersAlwaysExact ==
    ASSUME ErrorsSwallowed = FALSE
    PROVE  Spec => []CountersExact
<1>1. Init => StructureInv /\ CountsUntilRefused
    BY InitStructure, InitCounts DEF CountsUntilRefused
<1>2. (StructureInv /\ CountsUntilRefused) /\ [Next]_vars => (StructureInv /\ CountsUntilRefused)'
    BY NextStructure, CountsUntilRefusedKept
<1>3. StructureInv /\ CountsUntilRefused => CountersExact
    BY CountsGiveExactness
<1>4. QED
    BY <1>1, <1>2, <1>3, PTL DEF Spec

-----------------------------------------------------------------------------
(* The generation                                                          *)

\* A new store is at generation 0 on disk and in memory.
LEMMA InitGeneration == Init => GenerationInv
<1> SUFFICES ASSUME Init PROVE GenerationInv
    OBVIOUS
<1>1. DOMAIN pending = {} /\ ~in_scope
    BY EmptyMapType DEF Init
<1>2. db[GenerationKey] = 0 /\ generation = 0
    BY DEF Init, Key
<1>3. QED
    BY <1>1, <1>2 DEF GenerationInv

\* A quad batch carries the generation after this one.
LEMMA QuadWriteGeneration ==
    ASSUME TypeOK, GenerationInv, NEW q \in Quad, NEW batch, NEW n,
           DOMAIN batch \subseteq Key, GenerationKey \in DOMAIN batch,
           batch[GenerationKey] = generation + 1, commit_ops(batch, n),
           generation' = generation + 1, UNCHANGED <<in_scope, saved>>
    PROVE  GenerationInv' /\ (Stored' # Stored => db'[GenerationKey] > db[GenerationKey])
<1>1. GenerationKey \in Key /\ db[GenerationKey] \in Int
    BY DEF Key, TypeOK
<1>2. CASE in_scope
    <2>1. db' = db /\ pending' = Extend(pending, batch)
        BY <1>2 DEF commit_ops
    <2>2. GenerationKey \in DOMAIN pending' /\ pending'[GenerationKey] = generation + 1
        BY <2>1 DEF Extend
    <2>3. QED
        BY <1>1, <1>2, <2>1, <2>2 DEF GenerationInv, TypeOK, Stored, db_contains
<1>3. CASE ~in_scope
    <2>1. db' = Over(db, batch) /\ pending' = pending
        BY <1>3 DEF commit_ops, Written
    <2>2. db'[GenerationKey] = generation + 1
        BY <1>1, <2>1 DEF Over
    <2>3. QED
        BY <1>1, <1>3, <2>1, <2>2 DEF GenerationInv, TypeOK
<1>4. QED
    BY <1>2, <1>3

\* A catalogue batch touches neither a quad nor the generation.
LEMMA GraphWriteGeneration ==
    ASSUME TypeOK, GenerationInv, NEW g \in Graph, NEW b \in BOOLEAN,
           commit_ops(GraphBatch(g, b), 1), UNCHANGED <<generation, in_scope, saved>>
    PROVE  GenerationInv' /\ Stored' = Stored
<1>1. GenerationKey # GraphKey(g) /\ GenerationKey \in Key
    BY DEF GenerationKey, GraphKey, Key
<1>2. \A x \in Quad : PrimaryKey(x) # GraphKey(g) /\ PrimaryKey(x) \in Key
    BY PrimaryIsOrder, RowKeyOwner
<1>3. CASE in_scope
    <2>1. db' = db /\ pending' = Extend(pending, GraphBatch(g, b))
        BY <1>3 DEF commit_ops
    <2>2. /\ \A k : k # GraphKey(g) => (k \in DOMAIN pending' <=> k \in DOMAIN pending)
          /\ GenerationKey \in DOMAIN pending => pending'[GenerationKey] = pending[GenerationKey]
        BY <1>1, <2>1 DEF Extend, GraphBatch
    <2>3. QED
        BY <1>1, <1>2, <1>3, <2>1, <2>2 DEF GenerationInv, Stored, db_contains
<1>4. CASE ~in_scope
    <2>1. db' = Over(db, GraphBatch(g, b)) /\ pending' = pending
        BY <1>4 DEF commit_ops, Written
    <2>2. /\ db'[GenerationKey] = db[GenerationKey]
          /\ \A x \in Quad : db'[PrimaryKey(x)] = db[PrimaryKey(x)]
        BY <1>1, <1>2, <2>1 DEF Over, GraphBatch
    <2>3. QED
        BY <1>4, <2>1, <2>2 DEF GenerationInv, Stored, db_contains
<1>5. QED
    BY <1>3, <1>4

\* A scope that closes over an unchanged database, or over its buffer.
LEMMA CloseGeneration ==
    ASSUME TypeOK, TypeOK', GenerationInv, CloseScope, generation' >= db'[GenerationKey]
    PROVE  GenerationInv'
<1>1. DOMAIN pending' = {} /\ ~in_scope'
    BY EmptyMapType DEF CloseScope, EmptyScope
<1>2. QED
    BY <1>1 DEF GenerationInv

\* Every step keeps the generation ahead, and moves it with the quads.
LEMMA NextGeneration ==
    ASSUME TypeOK, TypeOK', GenerationInv, [Next]_vars
    PROVE  GenerationInv' /\ (Stored' # Stored => db'[GenerationKey] > db[GenerationKey])
<1> DEFINE Goal == GenerationInv' /\ (Stored' # Stored => db'[GenerationKey] > db[GenerationKey])
<1>1. ASSUME NEW q \in Quad, insert_encoded(q) PROVE Goal
    <2>1. /\ DOMAIN InsertBatch(q) \subseteq Key
          /\ GenerationKey \in DOMAIN InsertBatch(q)
          /\ InsertBatch(q)[GenerationKey] = generation + 1
        BY BatchType, CounterKeyOwner DEF InsertBatch, CounterValue
    <2>2. QED
        BY <1>1, <2>1, QuadWriteGeneration DEF insert_encoded, Advance
<1>2. ASSUME NEW q \in Quad
      PROVE  /\ DOMAIN RemoveBatch(q) \subseteq Key
             /\ GenerationKey \in DOMAIN RemoveBatch(q)
             /\ RemoveBatch(q)[GenerationKey] = generation + 1
    BY BatchType, CounterKeyOwner DEF RemoveBatch, CounterValue
<1>3. ASSUME NEW q \in Quad, RemoveQuad(q) PROVE Goal
    BY <1>2, <1>3, QuadWriteGeneration DEF RemoveQuad, Advance
<1>4. ASSUME NEW q \in Quad, NEW d \in {1, -1}, WriteOverflows(q, d) PROVE Goal
    <2> DEFINE batch == IF d = 1 THEN InsertBatch(q) ELSE RemoveBatch(q)
    <2>1. /\ DOMAIN batch \subseteq Key
          /\ GenerationKey \in DOMAIN batch
          /\ batch[GenerationKey] = generation + 1
        BY <1>2, BatchType, CounterKeyOwner DEF InsertBatch, CounterValue
    <2>2. \E n : commit_ops(batch, n)
        BY <1>4 DEF WriteOverflows
    <2>3. generation' = generation + 1 /\ UNCHANGED <<in_scope, saved>>
        BY <1>4 DEF WriteOverflows, Advance
    <2> HIDE DEF batch
    <2>4. QED
        BY <2>1, <2>2, <2>3, QuadWriteGeneration
<1>5. ASSUME NEW q \in Quad, NEW d \in {1, -1}, DirectWriteFails(q, d) PROVE Goal
    <2>1. db[GenerationKey] \in Int /\ DOMAIN pending = {}
        BY <1>5 DEF Key, TypeOK, DirectWriteFails, GenerationInv
    <2>2. QED
        BY <1>5, <2>1 DEF DirectWriteFails, Advance, GenerationInv, Stored, db_contains, TypeOK
<1>6. ASSUME NEW g \in Graph, insert_named_graph(g) PROVE Goal
    BY <1>6, GraphWriteGeneration DEF insert_named_graph, counters
<1>7. ASSUME NEW g \in Graph, StartDrop(g) PROVE Goal
    BY <1>7 DEF StartDrop, counters, GenerationInv, Stored, db_contains
<1>8. ASSUME FinishDrop PROVE Goal
    BY <1>8, GraphWriteGeneration DEF FinishDrop, counters
<1>9. ASSUME begin PROVE Goal
    <2>1. DOMAIN pending' = {}
        BY <1>9, EmptyMapType DEF begin, EmptyScope
    <2>2. QED
        BY <1>9, <2>1 DEF begin, counters, GenerationInv, Stored, db_contains
<1>10. ASSUME commit PROVE Goal
    <2>1. GenerationKey \in Key /\ db[GenerationKey] \in Int
        BY DEF Key, TypeOK
    <2>2. db' = Over(db, pending) /\ CloseScope /\ generation' = generation
        BY <1>10 DEF commit, Written, counters
    <2>3. generation' >= db'[GenerationKey]
        BY <2>1, <2>2 DEF Over, GenerationInv
    <2>4. ASSUME Stored' # Stored PROVE db'[GenerationKey] > db[GenerationKey]
        <3>1. \E q \in Quad : db'[PrimaryKey(q)] # db[PrimaryKey(q)]
            BY <2>4 DEF Stored, db_contains
        <3>2. \E q \in Quad : PrimaryKey(q) \in DOMAIN pending
            BY <2>2, <3>1, PrimaryIsOrder, RowKeyOwner DEF Over
        <3>3. QED
            BY <2>1, <2>2, <3>2 DEF Over, GenerationInv
    <2>5. QED
        BY <2>2, <2>3, <2>4, CloseGeneration
<1>11. ASSUME CommitFails PROVE Goal
    <2>1. db' = db /\ CloseScope /\ generation' = generation
        BY <1>11 DEF CommitFails
    <2>2. QED
        BY <2>1, CloseGeneration DEF GenerationInv, Stored, db_contains
<1>12. ASSUME rollback PROVE Goal
    <2>1. db' = db /\ CloseScope /\ generation' = saved.generation /\ in_scope
        BY <1>12 DEF rollback
    <2>2. QED
        BY <2>1, CloseGeneration DEF GenerationInv, Stored, db_contains
<1>13. ASSUME CrashAndOpen PROVE Goal
    <2>1. db' = db /\ CloseScope /\ generation' = db[GenerationKey]
        BY <1>13 DEF CrashAndOpen
    <2>2. db[GenerationKey] \in Int
        BY DEF Key, TypeOK
    <2>3. QED
        BY <2>1, <2>2, CloseGeneration DEF Stored, db_contains
<1>14. ASSUME CacheStatistics PROVE Goal
    BY <1>14 DEF CacheStatistics, counters, GenerationInv, Stored, db_contains
<1>15. ASSUME UNCHANGED vars PROVE Goal
    BY <1>15 DEF vars, GenerationInv, Stored, db_contains
<1>16. ASSUME DropFails PROVE Goal
    BY <1>16 DEF DropFails, counters, GenerationInv, Stored, db_contains
<1>17. QED
    BY <1>1, <1>3, <1>4, <1>5, <1>6, <1>7, <1>8, <1>9, <1>10, <1>11, <1>12, <1>13, <1>14, <1>15, <1>16
       DEF Next, remove_encoded, DropQuad

\* Whatever fails and whoever swallows the error, the durable quads never change without
\* the durable generation moving on.
THEOREM GenerationAlwaysMoves == Spec => GenerationMoves
<1>1. Init => TypeOK /\ GenerationInv
    BY InitType, InitGeneration
<1>2. (TypeOK /\ GenerationInv) /\ [Next]_vars
        => /\ (TypeOK /\ GenerationInv)'
           /\ [Stored' # Stored => db'[GenerationKey] > db[GenerationKey]]_vars
    BY NextType, NextGeneration
<1>3. QED
    BY <1>1, <1>2, PTL DEF Spec, GenerationMoves

-----------------------------------------------------------------------------
(* The statistics snapshot                                                 *)

\* The default graph as the database holds it.
StoredDefault == {q \in Stored : IsDefault(q)}

\* No snapshot is newer than the database, and one of the database's age describes it.
SnapshotOfStored ==
    \A s \in snapshot :
        /\ s.generation <= db[GenerationKey]
        /\ s.generation = db[GenerationKey] => s.quads = StoredDefault

\* The generation in memory is the one the database will hold once the buffer is written,
\* and a rollback puts back the one it holds now; a closed scope hides nothing of the
\* database.  Without them a snapshot could be saved under a generation that a restart
\* would hand out again, for other quads.
SnapshotInv ==
    /\ generation = Written(pending)[GenerationKey]
    /\ in_scope => saved.generation = db[GenerationKey]
    /\ ~in_scope => DOMAIN quads = {} /\ DOMAIN graphs = {}
    /\ SnapshotOfStored

\* The generation has a row of its own.
LEMMA GenerationRow == TypeOK => GenerationKey \in Key /\ db[GenerationKey] \in Int
BY DEF TypeOK, Key

\* An empty buffer leaves the generation row as it is.
LEMMA EmptyBufferGeneration ==
    ASSUME TypeOK, DOMAIN pending = {}
    PROVE  Written(pending)[GenerationKey] = db[GenerationKey]
BY GenerationRow DEF Written, Over

\* A snapshot survives any step that moves the generation when it moves the quads.
LEMMA SnapshotKept ==
    ASSUME TypeOK, TypeOK', SnapshotOfStored, snapshot' = snapshot,
           db'[GenerationKey] >= db[GenerationKey],
           Stored' # Stored => db'[GenerationKey] > db[GenerationKey]
    PROVE  SnapshotOfStored'
<1>1. db[GenerationKey] \in Int /\ db'[GenerationKey] \in Int
    BY GenerationRow DEF TypeOK
<1>2. Stored' = Stored => StoredDefault' = StoredDefault
    BY DEF StoredDefault, IsDefault
<1>3. \A s \in snapshot : s.generation \in Int
    BY DEF TypeOK
<1>4. QED
    BY <1>1, <1>2, <1>3 DEF SnapshotOfStored

\* A snapshot survives a step that leaves the database alone.
LEMMA SnapshotUntouched ==
    ASSUME SnapshotOfStored, UNCHANGED <<snapshot, db>>
    PROVE  SnapshotOfStored'
BY DEF SnapshotOfStored, StoredDefault, Stored, db_contains, IsDefault

\* A quad's batch keeps the generation in memory and in the buffer the same.
LEMMA QuadWriteSnapshot ==
    ASSUME TypeOK, TypeOK', GenerationInv, SnapshotInv, NEW batch, NEW n,
           GenerationKey \in DOMAIN batch, batch[GenerationKey] = generation + 1,
           commit_ops(batch, n), generation' = generation + 1,
           UNCHANGED <<in_scope, saved, snapshot>>,
           ~in_scope => UNCHANGED <<quads, graphs>>,
           Stored' # Stored => db'[GenerationKey] > db[GenerationKey]
    PROVE  SnapshotInv'
<1>1. GenerationKey \in Key /\ db[GenerationKey] \in Int /\ generation \in Int
    BY GenerationRow DEF TypeOK
<1>2. CASE in_scope
    <2>1. db' = db /\ pending' = Extend(pending, batch)
        BY <1>2 DEF commit_ops
    <2>2. GenerationKey \in DOMAIN pending' /\ pending'[GenerationKey] = generation + 1
        BY <2>1 DEF Extend
    <2>3. Written(pending)'[GenerationKey] = generation + 1
        BY <1>1, <2>2 DEF Written, Over
    <2>4. SnapshotOfStored'
        BY <2>1, SnapshotUntouched DEF SnapshotInv
    <2>5. QED
        BY <1>2, <2>1, <2>3, <2>4 DEF SnapshotInv
<1>3. CASE ~in_scope
    <2>1. db' = Over(db, batch) /\ pending' = pending /\ DOMAIN pending = {}
        BY <1>3 DEF commit_ops, Written, GenerationInv
    <2>2. db'[GenerationKey] = generation + 1
        BY <1>1, <2>1 DEF Over
    <2>3. Written(pending)'[GenerationKey] = generation + 1
        BY <1>1, <2>1, <2>2 DEF Written, Over
    <2>4. SnapshotOfStored'
        BY <1>1, <2>2, SnapshotKept DEF SnapshotInv, GenerationInv
    <2>5. QED
        BY <1>3, <2>3, <2>4 DEF SnapshotInv
<1>4. QED
    BY <1>2, <1>3

\* A catalogue batch leaves the generation and the quads as they are.
LEMMA GraphWriteSnapshot ==
    ASSUME TypeOK, TypeOK', GenerationInv, SnapshotInv, NEW g \in Graph, NEW b \in BOOLEAN,
           commit_ops(GraphBatch(g, b), 1), UNCHANGED <<generation, in_scope, saved, snapshot>>,
           ~in_scope => UNCHANGED <<quads, graphs>>
    PROVE  SnapshotInv'
<1>1. GenerationKey # GraphKey(g) /\ GenerationKey \in Key /\ db[GenerationKey] \in Int
    BY GenerationRow DEF GenerationKey, GraphKey
<1>2. Stored' = Stored
    BY GraphWriteGeneration
<1>3. CASE in_scope
    <2>1. db' = db /\ pending' = Extend(pending, GraphBatch(g, b))
        BY <1>3 DEF commit_ops
    <2>2. /\ GenerationKey \in DOMAIN pending' <=> GenerationKey \in DOMAIN pending
          /\ GenerationKey \in DOMAIN pending => pending'[GenerationKey] = pending[GenerationKey]
        BY <1>1, <2>1 DEF Extend, GraphBatch
    <2>3. Written(pending)'[GenerationKey] = Written(pending)[GenerationKey]
        BY <1>1, <2>1, <2>2 DEF Written, Over
    <2>4. SnapshotOfStored'
        BY <2>1, SnapshotUntouched DEF SnapshotInv
    <2>5. QED
        BY <1>3, <2>1, <2>3, <2>4 DEF SnapshotInv
<1>4. CASE ~in_scope
    <2>1. db' = Over(db, GraphBatch(g, b)) /\ pending' = pending /\ DOMAIN pending = {}
        BY <1>4 DEF commit_ops, Written, GenerationInv
    <2>2. db'[GenerationKey] = db[GenerationKey]
        BY <1>1, <2>1 DEF Over, GraphBatch
    <2>3. Written(pending)'[GenerationKey] = Written(pending)[GenerationKey]
        BY <1>1, <2>1, <2>2 DEF Written, Over
    <2>4. SnapshotOfStored'
        BY <1>1, <1>2, <2>2, SnapshotKept DEF SnapshotInv
    <2>5. QED
        BY <1>4, <2>3, <2>4 DEF SnapshotInv
<1>5. QED
    BY <1>3, <1>4

\* A scope closes on a generation that is the database's.
LEMMA CloseSnapshot ==
    ASSUME TypeOK', CloseScope, generation' = db'[GenerationKey], SnapshotOfStored'
    PROVE  SnapshotInv'
<1>1. DOMAIN pending' = {} /\ DOMAIN quads' = {} /\ DOMAIN graphs' = {} /\ ~in_scope'
    BY EmptyMapType DEF CloseScope, EmptyScope
<1>2. Written(pending)'[GenerationKey] = db'[GenerationKey]
    BY <1>1, GenerationRow DEF Written, Over, Key
<1>3. QED
    BY <1>1, <1>2 DEF SnapshotInv

\* A new store has no snapshot.
LEMMA InitSnapshot == Init => SnapshotInv
<1> SUFFICES ASSUME Init PROVE SnapshotInv
    OBVIOUS
<1>1. /\ DOMAIN pending = {} /\ DOMAIN quads = {} /\ DOMAIN graphs = {}
      /\ ~in_scope /\ snapshot = {} /\ generation = 0
    BY EmptyMapType DEF Init
<1>2. GenerationKey \in Key /\ db[GenerationKey] = 0
    BY DEF Init, Key
<1>3. Written(pending)[GenerationKey] = 0
    BY <1>1, <1>2 DEF Written, Over
<1>4. QED
    BY <1>1, <1>3 DEF SnapshotInv, SnapshotOfStored

\* Every step keeps the snapshot behind the database, until a batch is refused.
LEMMA NextSnapshot ==
    ASSUME refused_batches' = {}, TypeOK, TypeOK', GenerationInv, SnapshotInv, [Next]_vars
    PROVE  SnapshotInv'
<1>0. Stored' # Stored => db'[GenerationKey] > db[GenerationKey]
    BY NextGeneration
<1> USE DEF note_quad, note_graph
<1>1. ASSUME NEW q \in Quad, insert_encoded(q) PROVE SnapshotInv'
    <2>1. GenerationKey \in DOMAIN InsertBatch(q) /\ InsertBatch(q)[GenerationKey] = generation + 1
        BY CounterKeyOwner DEF InsertBatch, CounterValue
    <2>2. /\ commit_ops(InsertBatch(q), InsertOps(q))
          /\ generation' = generation + 1
          /\ UNCHANGED <<in_scope, saved, snapshot>>
          /\ ~in_scope => UNCHANGED <<quads, graphs>>
        BY <1>1 DEF insert_encoded, Advance
    <2>3. QED
        BY <1>0, <2>1, <2>2, QuadWriteSnapshot
<1>2. ASSUME NEW q \in Quad
      PROVE  GenerationKey \in DOMAIN RemoveBatch(q) /\ RemoveBatch(q)[GenerationKey] = generation + 1
    BY CounterKeyOwner DEF RemoveBatch, CounterValue
<1>3. ASSUME NEW q \in Quad, RemoveQuad(q) PROVE SnapshotInv'
    <2>1. /\ commit_ops(RemoveBatch(q), RemoveOps(q))
          /\ generation' = generation + 1
          /\ UNCHANGED <<in_scope, saved, snapshot>>
          /\ ~in_scope => UNCHANGED <<quads, graphs>>
        BY <1>3 DEF RemoveQuad, Advance
    <2>2. QED
        BY <1>0, <1>2, <2>1, QuadWriteSnapshot
<1>4. ASSUME NEW q \in Quad, NEW d \in {1, -1}, WriteOverflows(q, d) PROVE SnapshotInv'
    <2> DEFINE batch == IF d = 1 THEN InsertBatch(q) ELSE RemoveBatch(q)
    <2>1. GenerationKey \in DOMAIN batch /\ batch[GenerationKey] = generation + 1
        BY <1>2, CounterKeyOwner DEF InsertBatch, CounterValue
    <2>2. \E n : commit_ops(batch, n)
        BY <1>4 DEF WriteOverflows
    <2>3. generation' = generation + 1 /\ UNCHANGED <<in_scope, saved, snapshot, quads, graphs>>
        BY <1>4 DEF WriteOverflows, Advance
    <2> HIDE DEF batch
    <2>4. QED
        BY <1>0, <2>1, <2>2, <2>3, QuadWriteSnapshot
<1>5. ASSUME NEW q \in Quad, NEW d \in {1, -1}, DirectWriteFails(q, d) PROVE SnapshotInv'
    BY <1>5 DEF DirectWriteFails
<1>6. ASSUME NEW g \in Graph, insert_named_graph(g) PROVE SnapshotInv'
    BY <1>6, GraphWriteSnapshot DEF insert_named_graph, counters
<1>7. ASSUME FinishDrop PROVE SnapshotInv'
    BY <1>7, GraphWriteSnapshot DEF FinishDrop, counters
<1>8. ASSUME UNCHANGED <<db, snapshot, generation, in_scope, pending, quads, graphs, saved>>
      PROVE  SnapshotInv'
    BY <1>8, SnapshotUntouched DEF SnapshotInv, Written, Over
<1>9. ASSUME begin PROVE SnapshotInv'
    <2>1. DOMAIN pending' = {} /\ DOMAIN pending = {}
        BY <1>9, EmptyMapType DEF begin, EmptyScope, GenerationInv
    <2>2. db' = db /\ snapshot' = snapshot /\ generation' = generation
        BY <1>9 DEF begin, counters
    <2>3. generation = db[GenerationKey]
        BY <2>1, EmptyBufferGeneration DEF SnapshotInv
    <2>4. Written(pending)'[GenerationKey] = db'[GenerationKey]
        BY <2>1, GenerationRow DEF Written, Over, Key
    <2>5. in_scope' /\ saved'.generation = generation
        BY <1>9 DEF begin
    <2>6. QED
        BY <2>2, <2>3, <2>4, <2>5, SnapshotUntouched DEF SnapshotInv
<1>10. ASSUME commit PROVE SnapshotInv'
    <2>1. /\ db' = Written(pending) /\ CloseScope
          /\ generation' = generation /\ snapshot' = snapshot
        BY <1>10 DEF commit, counters
    <2>2. generation' = db'[GenerationKey] /\ db'[GenerationKey] >= db[GenerationKey]
        BY <2>1 DEF SnapshotInv, GenerationInv
    <2>3. SnapshotOfStored'
        BY <1>0, <2>1, <2>2, SnapshotKept DEF SnapshotInv
    <2>4. QED
        BY <2>1, <2>2, <2>3, CloseSnapshot
<1>11. ASSUME CommitFails PROVE SnapshotInv'
    BY <1>11 DEF CommitFails
<1>12. ASSUME rollback PROVE SnapshotInv'
    <2>1. /\ db' = db /\ CloseScope /\ snapshot' = snapshot
          /\ generation' = saved.generation /\ in_scope
        BY <1>12 DEF rollback
    <2>2. QED
        BY <2>1, CloseSnapshot, SnapshotUntouched DEF SnapshotInv
<1>13. ASSUME CrashAndOpen PROVE SnapshotInv'
    <2>1. db' = db /\ CloseScope /\ snapshot' = snapshot /\ generation' = db[GenerationKey]
        BY <1>13 DEF CrashAndOpen
    <2>2. QED
        BY <2>1, CloseSnapshot, SnapshotUntouched DEF SnapshotInv
<1>14. ASSUME CacheStatistics PROVE SnapshotInv'
    <2>1. /\ ~in_scope
          /\ UNCHANGED <<db, generation, in_scope, pending, quads, graphs, saved>>
          /\ snapshot' = {[generation |-> generation,
                           quads |-> ScannedRows("dspo") \cup ScannedOverlay("dspo")]}
        BY <1>14 DEF CacheStatistics, counters, overlay
    <2>2. DOMAIN quads = {} /\ DOMAIN pending = {}
        BY <2>1 DEF SnapshotInv, GenerationInv
    <2>3. \A q \in Quad : "dspo" \in Orders(q) <=> IsDefault(q)
        BY DEF Orders, TripleOrders, QuadOrders
    <2>4. \A q \in Quad : IsDefault(q) => PrimaryKey(q) = <<"dspo", q>>
        BY DEF PrimaryKey, PrimaryOrder
    <2>5. ScannedRows("dspo") \cup ScannedOverlay("dspo") = StoredDefault
        BY <2>2, <2>3, <2>4 DEF ScannedRows, ScannedOverlay, StoredDefault, Stored, db_contains
    <2>6. generation = db[GenerationKey] /\ db[GenerationKey] \in Int
        BY <2>2, EmptyBufferGeneration, GenerationRow DEF SnapshotInv
    <2>7. db'[GenerationKey] = db[GenerationKey] /\ StoredDefault' = StoredDefault
        BY <2>1 DEF StoredDefault, Stored, db_contains, IsDefault
    <2>8. SnapshotOfStored'
        BY <2>1, <2>5, <2>6, <2>7 DEF SnapshotOfStored
    <2>9. QED
        BY <2>1, <2>8 DEF SnapshotInv, Written, Over
<1>15. (\E g \in Graph : StartDrop(g)) \/ DropFails \/ UNCHANGED vars
          => UNCHANGED <<db, snapshot, generation, in_scope, pending, quads, graphs, saved>>
    BY DEF StartDrop, DropFails, counters, overlay, vars
<1>16. QED
    BY <1>1, <1>3, <1>4, <1>5, <1>6, <1>7, <1>8, <1>9, <1>10, <1>11, <1>12, <1>13, <1>14, <1>15
       DEF Next, remove_encoded, DropQuad

SnapshotUntilRefused == refused_batches = {} => SnapshotInv

\* The same, from step to step.
LEMMA SnapshotUntilRefusedKept ==
    ASSUME TypeOK, TypeOK', GenerationInv, SnapshotUntilRefused, [Next]_vars
    PROVE  SnapshotUntilRefused'
<1>1. ASSUME refused_batches' = {} PROVE SnapshotInv'
    <2>1. SnapshotInv
        BY <1>1, RefusedGrows DEF SnapshotUntilRefused
    <2>2. QED
        BY <1>1, <2>1, NextSnapshot
<1>2. QED
    BY <1>1 DEF SnapshotUntilRefused

\* Outside a scope the generation in memory is the database's and reads are of it.
LEMMA SnapshotInvGives == TypeOK /\ GenerationInv /\ SnapshotUntilRefused => SnapshotTruthful
<1> SUFFICES ASSUME TypeOK, GenerationInv, SnapshotInv, ~in_scope, NEW s \in snapshot,
                    s.generation = generation
             PROVE  s.quads = {q \in Visible : IsDefault(q)}
    BY DEF SnapshotTruthful, SnapshotUntilRefused
<1>1. generation = db[GenerationKey]
    BY EmptyBufferGeneration DEF SnapshotInv, GenerationInv
<1>2. DOMAIN quads = {} /\ DOMAIN graphs = {}
    BY DEF SnapshotInv
<1>3. Visible = Stored
    BY <1>2 DEF Visible, Stored, contains_encoded
<1>4. QED
    BY <1>1, <1>3 DEF SnapshotInv, SnapshotOfStored, StoredDefault

\* Until RocksDB refuses a batch, a kept snapshot that carries the store's generation
\* describes the default graph exactly, whatever overflowed, was swallowed, rolled back or
\* lost in a crash.
THEOREM SnapshotAlwaysTruthful == Spec => []SnapshotTruthful
<1>1. Init => TypeOK /\ GenerationInv /\ SnapshotUntilRefused
    BY InitType, InitGeneration, InitSnapshot DEF SnapshotUntilRefused
<1>2. (TypeOK /\ GenerationInv /\ SnapshotUntilRefused) /\ [Next]_vars
        => (TypeOK /\ GenerationInv /\ SnapshotUntilRefused)'
    BY NextType, NextGeneration, SnapshotUntilRefusedKept
<1>3. TypeOK /\ GenerationInv /\ SnapshotUntilRefused => SnapshotTruthful
    BY SnapshotInvGives
<1>4. QED
    BY <1>1, <1>2, <1>3, PTL DEF Spec

-----------------------------------------------------------------------------
(* The promise of the Storage trait                                        *)

\* The catalogue of a database.
GraphsIn(rows) == {g \in Graph : rows[GraphKey(g)] = 1}

\* A scope nobody reported an error in shows what its buffer would leave.
LEMMA VisibleIsBuffer ==
    ASSUME StructureInv, ~errored
    PROVE  Visible = QuadsIn(Written(pending)) /\ VisibleGraphs = GraphsIn(Written(pending))
BY DEF StructureInv, OverlayIsBuffer, Visible, VisibleGraphs, QuadsIn, GraphsIn

\* What is stored is what the database says.
LEMMA StoredIsDatabase == Stored = QuadsIn(db) /\ StoredGraphs = GraphsIn(db)
BY DEF Stored, StoredGraphs, QuadsIn, GraphsIn, db_contains, db_contains_graph

\* With no notes in the overlay, what is seen is what is stored.
LEMMA NoNotesSeesStored ==
    ASSUME DOMAIN quads = {}, DOMAIN graphs = {}
    PROVE  Visible = Stored /\ VisibleGraphs = StoredGraphs
BY DEF Visible, VisibleGraphs, Stored, StoredGraphs, contains_encoded, contains_named_graph

\* A step that touches neither the database nor the overlay is not seen.
LEMMA UnseenStep ==
    ASSUME UNCHANGED <<db, quads, graphs>>
    PROVE  UNCHANGED <<Visible, VisibleGraphs, Stored, StoredGraphs>>
BY DEF Visible, VisibleGraphs, Stored, StoredGraphs, contains_encoded, contains_named_graph,
   db_contains, db_contains_graph

\* A write that is buffered in a scope and lands outside one is an abstract write.
LEMMA WriteRefines ==
    ASSUME StructureInv', UNCHANGED in_scope, in_scope => db' = db,
           NEW Q, NEW G, Visible' = Q, VisibleGraphs' = G
    PROVE  Abstract!Write([quads |-> Q, graphs |-> G])
<1>1. in_scope => Stored' = Stored /\ StoredGraphs' = StoredGraphs
    BY DEF Stored, StoredGraphs, db_contains, db_contains_graph
<1>2. ~in_scope => Stored' = Q /\ StoredGraphs' = G
    <2>1. ~in_scope => DOMAIN quads' = {} /\ DOMAIN graphs' = {}
        BY DEF StructureInv, ScopeShape
    <2>2. QED
        BY <2>1 DEF Visible, VisibleGraphs, Stored, StoredGraphs, contains_encoded,
           contains_named_graph
<1>3. QED
    BY <1>1, <1>2 DEF Abstract!Write

\* insert_encoded inserts.
LEMMA InsertRefines ==
    ASSUME ErrorsSwallowed = FALSE, StructureInv, StructureInv', NEW q \in Quad, insert_encoded(q)
    PROVE  Abstract!Insert(q)
<1> DEFINE W == Written(pending)
           after == Over(W, InsertBatch(q))
<1>1. ~errored /\ ~errored' /\ in_scope' = in_scope
    BY DEF insert_encoded, Ready
<1>2. DOMAIN InsertBatch(q) \subseteq Key
    BY BatchType DEF StructureInv
<1>3. /\ \A x \in Quad : after[PrimaryKey(x)] = 1 <=> x = q \/ W[PrimaryKey(x)] = 1
      /\ \A g \in Graph : after[GraphKey(g)] = 1
                              <=> (~IsDefault(q) /\ g = GraphOf[q]) \/ W[GraphKey(g)] = 1
    BY <1>1, InsertIndexed DEF StructureInv
<1>4. Written(pending)' = after
    BY <1>2, BufferedBatch DEF StructureInv, insert_encoded
<1>5. in_scope => db' = db
    BY DEF insert_encoded, commit_ops
<1>6. Visible = QuadsIn(W) /\ VisibleGraphs = GraphsIn(W)
    BY <1>1, VisibleIsBuffer
<1>7. Visible' = QuadsIn(after) /\ VisibleGraphs' = GraphsIn(after)
    BY <1>1, <1>4 DEF StructureInv, OverlayIsBuffer, Visible, VisibleGraphs, QuadsIn, GraphsIn
<1> HIDE DEF W, after
<1>8. Visible' = Visible \cup {q}
    BY <1>3, <1>6, <1>7 DEF QuadsIn
<1>9. VisibleGraphs' = VisibleGraphs \cup Abstract!GraphsOfQuad(q)
    BY <1>3, <1>6, <1>7, GraphAssumption DEF GraphsIn, IsDefault, Abstract!GraphsOfQuad
<1>10. QED
    BY <1>1, <1>5, <1>8, <1>9, WriteRefines DEF Abstract!Insert

\* A removal removes.
LEMMA RemoveRefines ==
    ASSUME StructureInv, StructureInv', ~errored, NEW q \in Quad, RemoveQuad(q)
    PROVE  Abstract!Remove(q)
<1> DEFINE W == Written(pending)
           after == Over(W, RemoveBatch(q))
<1>1. ~errored' /\ in_scope' = in_scope
    BY DEF RemoveQuad
<1>2. DOMAIN RemoveBatch(q) \subseteq Key
    BY BatchType DEF StructureInv
<1>3. /\ \A x \in Quad : after[PrimaryKey(x)] = 1 <=> x # q /\ W[PrimaryKey(x)] = 1
      /\ \A g \in Graph : after[GraphKey(g)] = W[GraphKey(g)]
    BY RemoveIndexed DEF StructureInv
<1>4. Written(pending)' = after
    BY <1>2, BufferedBatch DEF StructureInv, RemoveQuad
<1>5. in_scope => db' = db
    BY DEF RemoveQuad, commit_ops
<1>6. Visible = QuadsIn(W) /\ VisibleGraphs = GraphsIn(W)
    BY VisibleIsBuffer
<1>7. Visible' = QuadsIn(after) /\ VisibleGraphs' = GraphsIn(after)
    BY <1>1, <1>4 DEF StructureInv, OverlayIsBuffer, Visible, VisibleGraphs, QuadsIn, GraphsIn
<1> HIDE DEF W, after
<1>8. Visible' = Visible \ {q} /\ VisibleGraphs' = VisibleGraphs
    BY <1>3, <1>6, <1>7 DEF QuadsIn, GraphsIn
<1>9. QED
    BY <1>1, <1>5, <1>8, WriteRefines DEF Abstract!Remove

\* An entry of the catalogue comes, or goes from a graph nobody sees a quad in.
LEMMA GraphRefines ==
    ASSUME StructureInv, StructureInv', ~errored, NEW g \in Graph, NEW b \in BOOLEAN,
           b \/ \A x \in Visible : GraphOf[x] # g,
           commit_ops(GraphBatch(g, b), 1), UNCHANGED <<in_scope, errored>>
    PROVE  IF b THEN Abstract!InsertNamedGraph(g) ELSE Abstract!DropNamedGraph(g)
<1> DEFINE W == Written(pending)
           after == Over(W, GraphBatch(g, b))
<1>1. DOMAIN GraphBatch(g, b) \subseteq Key
    BY GraphBatchType
<1>2. b \/ \A x \in QuadsIn(W) : GraphOf[x] # g
    BY VisibleIsBuffer
<1>3. /\ \A x \in Quad : after[PrimaryKey(x)] = W[PrimaryKey(x)]
      /\ \A h \in Graph : after[GraphKey(h)] = 1 <=> IF h = g THEN b ELSE W[GraphKey(h)] = 1
    BY <1>2, GraphIndexed DEF StructureInv
<1>4. Written(pending)' = after
    BY <1>1, BufferedBatch DEF StructureInv
<1>5. in_scope => db' = db
    BY DEF commit_ops
<1>6. Visible = QuadsIn(W) /\ VisibleGraphs = GraphsIn(W)
    BY VisibleIsBuffer
<1>7. Visible' = QuadsIn(after) /\ VisibleGraphs' = GraphsIn(after)
    BY <1>4 DEF StructureInv, OverlayIsBuffer, Visible, VisibleGraphs, QuadsIn, GraphsIn
<1> HIDE DEF W, after
<1>8. Visible' = Visible
    BY <1>3, <1>6, <1>7 DEF QuadsIn
<1>9. VisibleGraphs' = IF b THEN VisibleGraphs \cup {g} ELSE VisibleGraphs \ {g}
    BY <1>3, <1>6, <1>7 DEF GraphsIn
<1>10. CASE b
    BY <1>5, <1>8, <1>9, <1>10, WriteRefines DEF Abstract!InsertNamedGraph
<1>11. CASE ~b
    <2>1. {q \in Visible : GraphOf[q] # g} = Visible
        BY <1>11
    <2>2. QED
        BY <1>5, <1>8, <1>9, <1>11, <2>1, WriteRefines DEF Abstract!DropNamedGraph
<1>12. QED
    BY <1>10, <1>11

\* A scope that closes over an unchanged database is abandoned, and a closed one is not seen
\* to change.
LEMMA CloseRefines ==
    ASSUME StructureInv, StructureInv', CloseScope, db' = db
    PROVE  Abstract!Abandon \/ UNCHANGED Abstract!vars
<1>1. DOMAIN quads' = {} /\ DOMAIN graphs' = {} /\ in_scope' = FALSE
    BY EmptyMapType DEF CloseScope, EmptyScope
<1>2. Stored' = Stored /\ StoredGraphs' = StoredGraphs
    BY DEF Stored, StoredGraphs, db_contains, db_contains_graph
<1>3. Visible' = Stored /\ VisibleGraphs' = StoredGraphs
    BY <1>1, <1>2 DEF Visible, VisibleGraphs, Stored, StoredGraphs, contains_encoded,
       contains_named_graph
<1>4. CASE in_scope
    BY <1>1, <1>2, <1>3, <1>4 DEF Abstract!Abandon
<1>5. CASE ~in_scope
    <2>1. Visible = Stored /\ VisibleGraphs = StoredGraphs
        BY <1>5, NoNotesSeesStored DEF StructureInv, ScopeShape
    <2>2. in_scope' = in_scope
        BY <1>1, <1>5 DEF StructureInv, TypeOK
    <2>3. QED
        BY <1>2, <1>3, <2>1, <2>2 DEF Abstract!vars
<1>6. QED
    BY <1>4, <1>5

\* Every step of the backend is a step of the abstract store or is not seen.
LEMMA NextRefines ==
    ASSUME ErrorsSwallowed = FALSE, StructureInv, StructureInv', [Next]_vars
    PROVE  [Abstract!Next]_(Abstract!vars)
<1> DEFINE Goal == Abstract!Next \/ UNCHANGED Abstract!vars
<1>0. ASSUME UNCHANGED <<db, quads, graphs, in_scope>> PROVE Goal
    BY <1>0, UnseenStep DEF Abstract!vars
<1>1. ASSUME NEW q \in Quad, insert_encoded(q) PROVE Goal
    BY <1>1, InsertRefines DEF Abstract!Next
<1>2. ASSUME NEW q \in Quad, remove_encoded(q) PROVE Goal
    BY <1>2, RemoveRefines DEF remove_encoded, Ready, Abstract!Next
<1>3. ASSUME NEW q \in Quad, DropQuad(q) PROVE Goal
    <2>1. ~errored
        BY <1>3, GraphAssumption DEF DropQuad, StructureInv, ScopeShape
    <2>2. QED
        BY <1>3, <2>1, RemoveRefines DEF DropQuad, Abstract!Next
<1>4. ASSUME NEW q \in Quad, NEW d \in {1, -1}, WriteOverflows(q, d) PROVE Goal
    BY <1>0, <1>4 DEF WriteOverflows, Overflows, commit_ops
<1>5. ASSUME NEW q \in Quad, NEW d \in {1, -1}, DirectWriteFails(q, d) PROVE Goal
    BY <1>0, <1>5 DEF DirectWriteFails
<1>6. ASSUME NEW g \in Graph, insert_named_graph(g) PROVE Goal
    <2>1. ~errored
        BY <1>6 DEF insert_named_graph, Ready
    <2>2. CASE Overflows(1)
        BY <1>0, <1>6, <2>2 DEF insert_named_graph, Overflows, commit_ops
    <2>3. CASE ~Overflows(1)
        <3>1. commit_ops(GraphBatch(g, TRUE), 1) /\ UNCHANGED <<in_scope, errored>>
            BY <1>6, <2>3 DEF insert_named_graph
        <3>2. Abstract!InsertNamedGraph(g)
            BY <2>1, <3>1, GraphRefines
        <3>3. QED
            BY <3>2 DEF Abstract!Next
    <2>4. QED
        BY <2>2, <2>3
<1>7. ASSUME NEW g \in Graph, StartDrop(g) PROVE Goal
    BY <1>0, <1>7 DEF StartDrop, overlay
<1>8. ASSUME FinishDrop PROVE Goal
    <2>1. ~errored /\ dropping \in Graph
        BY <1>8, GraphAssumption DEF FinishDrop, StructureInv, ScopeShape
    <2>2. CASE Overflows(1)
        BY <1>0, <1>8, <2>2 DEF FinishDrop, Overflows, commit_ops
    <2>3. CASE ~Overflows(1)
        <3>1. /\ commit_ops(GraphBatch(dropping, FALSE), 1) /\ UNCHANGED <<in_scope, errored>>
              /\ \A x \in Visible : GraphOf[x] # dropping
            BY <1>8, <2>3 DEF FinishDrop
        <3>2. Abstract!DropNamedGraph(dropping)
            BY <2>1, <3>1, GraphRefines
        <3>3. QED
            BY <2>1, <3>2 DEF Abstract!Next
    <2>4. QED
        BY <2>2, <2>3
<1>9. ASSUME begin PROVE Goal
    <2>1. /\ DOMAIN quads' = {} /\ DOMAIN graphs' = {} /\ DOMAIN quads = {} /\ DOMAIN graphs = {}
          /\ db' = db /\ ~in_scope /\ in_scope' = TRUE
        BY <1>9, EmptyMapType DEF begin, EmptyScope, StructureInv, ScopeShape
    <2>2. UNCHANGED <<Visible, VisibleGraphs, Stored, StoredGraphs>>
        BY <2>1 DEF Visible, VisibleGraphs, Stored, StoredGraphs, contains_encoded,
           contains_named_graph, db_contains, db_contains_graph
    <2>3. Abstract!Begin
        BY <2>1, <2>2 DEF Abstract!Begin
    <2>4. QED
        BY <2>3 DEF Abstract!Next
<1>10. ASSUME commit PROVE Goal
    <2>1. ~errored /\ db' = Written(pending) /\ in_scope /\ in_scope' = FALSE
        BY <1>10 DEF commit, Ready, CloseScope
    <2>2. Visible = QuadsIn(Written(pending)) /\ VisibleGraphs = GraphsIn(Written(pending))
        BY <2>1, VisibleIsBuffer
    <2>3. Stored' = Visible /\ StoredGraphs' = VisibleGraphs
        BY <2>1, <2>2 DEF Stored, StoredGraphs, QuadsIn, GraphsIn, db_contains, db_contains_graph
    <2>4. DOMAIN quads' = {} /\ DOMAIN graphs' = {}
        BY <1>10, EmptyMapType DEF commit, CloseScope, EmptyScope
    <2>5. Visible' = Stored' /\ VisibleGraphs' = StoredGraphs'
        BY <2>4 DEF Visible, VisibleGraphs, Stored, StoredGraphs, contains_encoded,
           contains_named_graph
    <2>6. Abstract!Commit
        BY <2>1, <2>3, <2>5 DEF Abstract!Commit
    <2>7. QED
        BY <2>6 DEF Abstract!Next
<1>11. ASSUME CommitFails PROVE Goal
    BY <1>11, CloseRefines DEF CommitFails, Abstract!Next
<1>12. ASSUME rollback PROVE Goal
    BY <1>12, CloseRefines DEF rollback, Abstract!Next
<1>13. ASSUME CrashAndOpen PROVE Goal
    BY <1>13, CloseRefines DEF CrashAndOpen, Abstract!Next
<1>14. ASSUME CacheStatistics PROVE Goal
    BY <1>0, <1>14 DEF CacheStatistics, overlay
<1>15. ASSUME UNCHANGED vars PROVE Goal
    BY <1>0, <1>15 DEF vars
<1>16. ASSUME DropFails PROVE Goal
    BY <1>0, <1>16 DEF DropFails, overlay
<1> HIDE DEF Goal
<1>17. Goal
    BY <1>1, <1>2, <1>3, <1>4, <1>5, <1>6, <1>7, <1>8, <1>9, <1>10, <1>11, <1>12, <1>13, <1>14,
       <1>15, <1>16 DEF Next
<1>18. QED
    BY <1>17 DEF Goal

\* A new store is empty to a reader.
LEMMA InitRefines == Init => Abstract!Init
<1> SUFFICES ASSUME Init PROVE Abstract!Init
    OBVIOUS
<1>1. \A q \in Quad : PrimaryKey(q) \in Key
    BY PrimaryIsOrder, RowKeyOwner
<1>2. \A g \in Graph : GraphKey(g) \in Key
    BY DEF Key
<1>3. Stored = {} /\ StoredGraphs = {}
    BY <1>1, <1>2 DEF Init, Stored, StoredGraphs, db_contains, db_contains_graph
<1>4. Visible = Stored /\ VisibleGraphs = StoredGraphs
    BY NoNotesSeesStored, EmptyMapType DEF Init
<1>5. QED
    BY <1>3, <1>4 DEF Init, Abstract!Init, Abstract!EmptyDataset

\* Whatever RocksDB refuses and wherever the process dies, as long as a caller does not carry
\* on after an error the backend keeps the promise of the Storage trait: the writes of a scope
\* land together or not at all, and nothing that was committed is lost.
THEOREM RocksIsAStorage ==
    ASSUME ErrorsSwallowed = FALSE
    PROVE  Spec => ImplementsStorage
<1>1. Init => StructureInv
    BY InitStructure
<1>2. StructureInv /\ [Next]_vars => StructureInv'
    BY NextStructure
<1>3. Init => Abstract!Init
    BY InitRefines
<1>4. StructureInv /\ StructureInv' /\ [Next]_vars => [Abstract!Next]_(Abstract!vars)
    BY NextRefines
<1>5. QED
    BY <1>1, <1>2, <1>3, <1>4, PTL DEF Spec, ImplementsStorage, Abstract!Spec
=============================================================================
