---------------------------- MODULE IngestProofs ----------------------------
(***************************************************************************)
(* What the RocksDB backend takes in.                                      *)
(*                                                                         *)
(* First, that a bulk load which reported no error has loaded everything,  *)
(* for any quads, orders, buffer and file sizes, any number of merge       *)
(* threads, and whatever fails.                                            *)
(*                                                                         *)
(* Second, that an id of the dictionary keeps its meaning, whatever the    *)
(* order of encodes, scopes, loads, failed writes and crashes, and that a  *)
(* lookup finds the id of every term that can be read back: for any terms, *)
(* hashes and number of ids.  The former needs that the rows tell the      *)
(* truth (Sound); the latter also that they leave nothing out (Complete),  *)
(* which a triple term that repeats a new part outside a scope, or a load  *)
(* that meets a hash of the window being written, would break.             *)
(***************************************************************************)
EXTENDS BulkLoad, Dictionary, FiniteSetTheorems, TLAPS

-----------------------------------------------------------------------------
(* The bulk load                                                           *)

File == [order : Order, rows : SUBSET Quad] \cup {Failure}

\* The types the arguments below need.
LoadTyped ==
    /\ before \in SUBSET Quad /\ inserted \in SUBSET Quad
    /\ IsFiniteSet(before) /\ IsFiniteSet(inserted)
    /\ buffer \in Seq(Quad) /\ channel \in Seq(SUBSET Quad)
    /\ jobs \in Seq(Order) /\ files \in Seq(File)
    /\ DOMAIN job = Merger /\ todo \in [Merger -> SUBSET Quad]
    /\ DOMAIN orders = Order /\ runs \in [Order -> SUBSET Quad] /\ sorting \in SUBSET Quad

-----------------------------------------------------------------------------
(* Sequences as sets                                                       *)

\* What a buffer, the channel, the list of jobs and the files hold as they grow and shrink.
LEMMA SetOfAppend ==
    ASSUME NEW S, NEW s \in Seq(S), NEW x \in S
    PROVE  SetOf(Append(s, x)) = SetOf(s) \cup {x}
<1>1. DOMAIN Append(s, x) = DOMAIN s \cup {Len(s) + 1}
  OBVIOUS
<1>2. \A i \in DOMAIN s : Append(s, x)[i] = s[i]
  OBVIOUS
<1>3. Append(s, x)[Len(s) + 1] = x
  OBVIOUS
<1> QED
  BY <1>1, <1>2, <1>3 DEF SetOf

\* Taking the first element leaves the others.
LEMMA SetOfTail ==
    ASSUME NEW S, NEW s \in Seq(S), s # <<>>
    PROVE  SetOf(s) = {Head(s)} \cup SetOf(Tail(s)) /\ Tail(s) \in Seq(S) /\ Head(s) \in S
<1>1. Len(s) \in Nat \ {0} /\ DOMAIN s = 1..Len(s) /\ Head(s) = s[1]
  OBVIOUS
<1>2. DOMAIN Tail(s) = 1..(Len(s) - 1) /\ \A i \in 1..(Len(s) - 1) : Tail(s)[i] = s[i + 1]
  BY <1>1
<1>3. SetOf(Tail(s)) = {s[i + 1] : i \in 1..(Len(s) - 1)}
  BY <1>2 DEF SetOf
<1>4. ASSUME NEW i \in 1..Len(s) PROVE i = 1 \/ (i - 1 \in 1..(Len(s) - 1) /\ s[i] = s[(i - 1) + 1])
  BY <1>1
<1>5. SetOf(s) \subseteq {Head(s)} \cup SetOf(Tail(s))
  <2> SUFFICES ASSUME NEW i \in 1..Len(s) PROVE s[i] \in {Head(s)} \cup SetOf(Tail(s))
    BY <1>1 DEF SetOf
  <2>1. CASE i = 1
    BY <1>1, <2>1
  <2>2. CASE i - 1 \in 1..(Len(s) - 1) /\ s[i] = s[(i - 1) + 1]
    BY <1>3, <2>2
  <2> QED
    BY <1>4, <2>1, <2>2
<1>6. {Head(s)} \cup SetOf(Tail(s)) \subseteq SetOf(s)
  BY <1>1, <1>3 DEF SetOf
<1> QED
  BY <1>1, <1>5, <1>6

\* One sequence after another holds what either holds.
LEMMA SetOfConcat ==
    ASSUME NEW S, NEW s \in Seq(S), NEW t \in Seq(S)
    PROVE  SetOf(s \o t) = SetOf(s) \cup SetOf(t)
<1>1. DOMAIN s = 1..Len(s) /\ DOMAIN t = 1..Len(t) /\ DOMAIN (s \o t) = 1..(Len(s) + Len(t))
  OBVIOUS
<1>2. \A i \in 1..Len(s) : (s \o t)[i] = s[i]
  OBVIOUS
<1>3. \A i \in 1..Len(t) : (s \o t)[Len(s) + i] = t[i]
  OBVIOUS
<1>4. ASSUME NEW i \in 1..(Len(s) + Len(t))
      PROVE  i \in 1..Len(s) \/ (i - Len(s) \in 1..Len(t) /\ i = Len(s) + (i - Len(s)))
  OBVIOUS
<1>5. SetOf(s \o t) \subseteq SetOf(s) \cup SetOf(t)
  <2> SUFFICES ASSUME NEW i \in 1..(Len(s) + Len(t)) PROVE (s \o t)[i] \in SetOf(s) \cup SetOf(t)
    BY <1>1 DEF SetOf
  <2>1. CASE i \in 1..Len(s)
    BY <1>1, <1>2, <2>1 DEF SetOf
  <2>2. CASE i - Len(s) \in 1..Len(t)
    BY <1>1, <1>3, <1>4, <2>2 DEF SetOf
  <2> QED
    BY <1>4, <2>1, <2>2
<1>6. SetOf(s) \subseteq SetOf(s \o t)
  BY <1>1, <1>2 DEF SetOf
<1>7. SetOf(t) \subseteq SetOf(s \o t)
  <2>1. \A i \in 1..Len(t) : Len(s) + i \in 1..(Len(s) + Len(t))
    OBVIOUS
  <2> QED
    BY <1>1, <1>3, <2>1 DEF SetOf
<1> QED
  BY <1>5, <1>6, <1>7

\* A sequence without elements holds nothing.
LEMMA SetOfEmpty == SetOf(<<>>) = {}
BY DEF SetOf

\* A sequence of one element holds it alone.
LEMMA SetOfOne == \A x : SetOf(<<x>>) = {x}
BY DEF SetOf

-----------------------------------------------------------------------------
(* Types                                                                   *)

\* No step leaves the types.
LEMMA TypedKept ==
    ASSUME LoadTyped, [BulkNext]_bulk_vars
    PROVE  LoadTyped'
<1> USE DEF LoadTyped, store, filling, offered, spiller, threads
<1>0. <<>> \in Seq(Order) /\ <<>> \in Seq(SUBSET Quad) /\ NoRuns \in [Order -> SUBSET Quad]
  BY DEF NoRuns
<1>1. ASSUME NEW q \in Quad, insert_encoded(q) PROVE LoadTyped'
  <2>1. IsFiniteSet(inserted \cup {q})
    BY FS_AddElement
  <2> QED
    BY <1>1, <2>1 DEF insert_encoded
<1>2. CASE spill
  <2>1. SetOf(buffer) \in SUBSET Quad
    BY DEF SetOf
  <2> QED
    BY <1>2, <2>1 DEF spill
<1>3. CASE SpillRefused \/ TakeBuffer
  <2>1. channel # <<>> => Tail(channel) \in Seq(SUBSET Quad) /\ Head(channel) \in SUBSET Quad
    BY SetOfTail
  <2> QED
    <3>1. CASE SpillRefused
      BY <3>1 DEF SpillRefused, NoRuns
    <3>2. CASE TakeBuffer
      BY <2>1, <3>2 DEF TakeBuffer
    <3> QED
      BY <1>3, <3>1, <3>2
<1>4. CASE SortBuffer \/ SortFails \/ WorkerEnds
  <2>1. \A o : Partition(sorting, o) \in SUBSET Quad
    BY DEF Partition
  <2> QED
    <3>1. CASE SortBuffer
      <4>1. runs' \in [Order -> SUBSET Quad]
        BY <2>1, <3>1 DEF SortBuffer
      <4> QED
        BY <3>1, <4>1 DEF SortBuffer
    <3>2. CASE SortFails \/ WorkerEnds
      BY <1>0, <3>2 DEF SortFails, WorkerEnds
    <3> QED
      BY <1>4, <3>1, <3>2
<1>5. CASE end_bulk_load \/ WriteDictionary
  BY <1>5 DEF end_bulk_load, WriteDictionary
<1>6. CASE finish
  <2>1. TripleOrders \o QuadOrders \in Seq(Order)
    BY OrderAssumption DEF Order
  <2> QED
    BY <1>6, <2>1 DEF finish
<1>7. ASSUME NEW m \in Merger, claim(m) \/ OrderDone(m) \/ stop(m) PROVE LoadTyped'
  <2>1. jobs # <<>> => Tail(jobs) \in Seq(Order) /\ Head(jobs) \in Order
    BY SetOfTail
  <2>2. \A o \in Order : Merged(o) \in SUBSET Quad
    BY DEF Merged, Partition, SetOf
  <2> QED
    <3>1. CASE claim(m)
      BY <2>1, <2>2, <3>1 DEF claim
    <3>2. CASE OrderDone(m) \/ stop(m)
      BY <1>0, <3>2 DEF OrderDone, stop
    <3> QED
      BY <1>7, <3>1, <3>2
<1>8. ASSUME NEW m \in Merger, WriteFile(m) PROVE LoadTyped'
  <2>1. PICK out \in SUBSET todo[m] : files' = Append(files, [order |-> job[m], rows |-> out])
    BY <1>8 DEF WriteFile
  <2>2. [order |-> job[m], rows |-> out] \in File
    BY <1>8, <2>1 DEF WriteFile, File
  <2> QED
    BY <1>8, <2>1, <2>2 DEF WriteFile
<1>9. ASSUME NEW m \in Merger, MergeFails(m) PROVE LoadTyped'
  BY <1>9 DEF MergeFails, File
<1>10. CASE ingest_index_sst
  <2>1. Tail(files) \in Seq(File)
    BY <1>10, SetOfTail DEF ingest_index_sst
  <2>2. DOMAIN orders' = Order /\ jobs' \in Seq(Order)
    BY <1>0, <1>10 DEF ingest_index_sst
  <2> QED
    BY <1>10, <2>1, <2>2 DEF ingest_index_sst
<1>11. CASE Joined \/ WriteCatalogue \/ recount \/ flush
  BY <1>11 DEF Joined, WriteCatalogue, recount, flush
<1>12. CASE UNCHANGED bulk_vars
  BY <1>12 DEF bulk_vars
<1> QED
  BY <1>1, <1>2, <1>3, <1>4, <1>5, <1>6, <1>7, <1>8, <1>9, <1>10, <1>11, <1>12
  DEF BulkNext, LoaderStep, WorkerStep, MergerStep

-----------------------------------------------------------------------------
(* Until the merge: buffers and runs                                       *)

\* An order's share of two parts is its share of the whole.
LEMMA PartitionUnion ==
    \A S, T, o : Partition(S \cup T, o) = Partition(S, o) \cup Partition(T, o)
BY DEF Partition

\* The named graphs of two parts are those of the whole.
LEMMA GraphsUnion ==
    \A S, T : GraphsOf(S \cup T) = GraphsOf(S) \cup GraphsOf(T)
BY DEF GraphsOf

\* Quads that no run has yet.
Waiting == SetOf(buffer) \cup sorting \cup UNION SetOf(channel)

\* Nothing is lost on the way: unless an error is due, what was inserted is in the runs or waits.
SpillInv ==
    /\ worker \in {"none", "waiting", "sorting", "finished", "stopped"}
    /\ worker # "sorting" => sorting = {}
    /\ worker \in {"none", "finished", "stopped"} => channel = <<>>
    /\ worker = "none" => runs = NoRuns
    /\ worker = "finished" => closed
    /\ closed => pc \notin {"loading", "spilling", "dictionary"}
    /\ pc \in {"ingesting", "cataloguing", "recounting", "flushing", "done"} /\ ~told => worker \in {"none", "finished"}
    /\ graphs = GraphsOf(inserted)
    /\ ~told /\ worker # "stopped" =>
          \A o \in Order : Partition(inserted, o) = runs[o] \cup Partition(Waiting, o)

\* No step of the loading thread or of the spill worker loses a quad.
LEMMA SpillKept ==
    ASSUME LoadTyped, SpillInv, [BulkNext]_bulk_vars
    PROVE  SpillInv'
<1> USE DEF SpillInv, store, filling, offered, spiller, threads
<1>0. UNION SetOf(<<>>) = {} /\ SetOf(<<>>) = {}
  BY SetOfEmpty
<1>1. ASSUME NEW q \in Quad, insert_encoded(q) PROVE SpillInv'
  <2>1. Waiting' = Waiting \cup {q}
    BY <1>1, SetOfAppend DEF insert_encoded, Waiting, LoadTyped
  <2>2. GraphsOf(inserted') = graphs'
    BY <1>1, GraphsUnion DEF insert_encoded
  <2>3. \A o \in Order : Partition(inserted', o) = Partition(inserted, o) \cup Partition({q}, o)
    BY <1>1, PartitionUnion DEF insert_encoded
  <2>4. \A o \in Order : Partition(Waiting', o) = Partition(Waiting, o) \cup Partition({q}, o)
    BY <2>1, PartitionUnion
  <2> QED
    BY <1>1, <2>2, <2>3, <2>4 DEF insert_encoded
<1>2. CASE spill
  <2>1. Waiting' = Waiting
    BY <1>0, <1>2, SetOfOne DEF spill, Waiting
  <2> QED
    BY <1>2, <2>1 DEF spill
<1>3. CASE SpillRefused
  BY <1>3 DEF SpillRefused
<1>4. CASE TakeBuffer
  <2>1. SetOf(channel) = {Head(channel)} \cup SetOf(Tail(channel))
    BY <1>4, SetOfTail DEF TakeBuffer, LoadTyped
  <2>2. UNION SetOf(channel) = Head(channel) \cup UNION SetOf(channel')
    BY <1>4, <2>1 DEF TakeBuffer
  <2>3. sorting = {} /\ sorting' = Head(channel) /\ buffer' = buffer
    BY <1>4 DEF TakeBuffer
  <2>4. Waiting' = Waiting
    BY <2>2, <2>3 DEF Waiting
  <2> QED
    BY <1>4, <2>4 DEF TakeBuffer
<1>5. CASE SortBuffer
  <2>1. Waiting = Waiting' \cup sorting
    <3>1. buffer' = buffer /\ channel' = channel /\ sorting' = {}
      BY <1>5 DEF SortBuffer
    <3> QED
      BY <3>1 DEF Waiting
  <2>2. \A o \in Order : Partition(Waiting, o) = Partition(Waiting', o) \cup Partition(sorting, o)
    BY <2>1, PartitionUnion
  <2>3. \A o \in Order : runs'[o] = runs[o] \cup Partition(sorting, o)
    BY <1>5 DEF SortBuffer
  <2>4. pc' = pc /\ worker' = "waiting" /\ sorting' = {} /\ UNCHANGED <<closed, told, graphs, inserted>>
    BY <1>5 DEF SortBuffer
  <2>5. ~told => \A o \in Order : Partition(inserted, o) = runs'[o] \cup Partition(Waiting', o)
    BY <1>5, <2>2, <2>3 DEF SortBuffer
  <2> QED
    BY <1>5, <2>4, <2>5 DEF SortBuffer
<1>6. CASE SortFails \/ WorkerEnds
  <2>1. CASE SortFails
    BY <2>1 DEF SortFails
  <2>2. CASE WorkerEnds
    <3>1. Waiting' = Waiting
      BY <2>2 DEF WorkerEnds, Waiting
    <3> QED
      BY <2>2, <3>1 DEF WorkerEnds
  <2> QED
    BY <1>6, <2>1, <2>2
<1>7. CASE end_bulk_load \/ WriteDictionary
  <2>1. Waiting' = Waiting
    BY <1>7 DEF end_bulk_load, WriteDictionary, Waiting
  <2> QED
    BY <1>7, <2>1 DEF end_bulk_load, WriteDictionary, Report
<1>8. CASE finish
  <2>1. Waiting' = Waiting
    BY <1>8 DEF finish, Waiting
  <2> QED
    BY <1>8, <2>1 DEF finish, Report
<1>9. ASSUME NEW m \in Merger, MergerStep(m) PROVE SpillInv'
  <2>1. Waiting' = Waiting
    BY <1>9 DEF MergerStep, claim, WriteFile, OrderDone, MergeFails, stop, Waiting
  <2> QED
    BY <1>9, <2>1 DEF MergerStep, claim, WriteFile, OrderDone, MergeFails, stop
<1>10. CASE ingest_index_sst \/ Joined
  <2>1. Waiting' = Waiting
    BY <1>10 DEF ingest_index_sst, Joined, Waiting
  <2> QED
    BY <1>10, <2>1 DEF ingest_index_sst, Joined, Report
<1>11. CASE WriteCatalogue \/ recount \/ flush
  <2>1. Waiting' = Waiting
    BY <1>11 DEF WriteCatalogue, recount, flush, Waiting
  <2> QED
    BY <1>11, <2>1 DEF WriteCatalogue, recount, flush, Report
<1>12. CASE UNCHANGED bulk_vars
  BY <1>12 DEF bulk_vars, Waiting
<1> QED
  BY <1>1, <1>2, <1>3, <1>4, <1>5, <1>6, <1>7, <1>8, <1>9, <1>10, <1>11, <1>12
  DEF BulkNext, LoaderStep, WorkerStep

\* From the join on, the merge of an order's runs and its tail is what was inserted.
LEMMA MergedIsInserted ==
    ASSUME SpillInv, ~told, worker \in {"none", "finished"}
    PROVE  \A o \in Order : Merged(o) = Partition(inserted, o)
BY SetOfEmpty DEF SpillInv, Merged, Waiting

-----------------------------------------------------------------------------
(* From the merge on: files and orders                                     *)

Loading == {"loading", "spilling", "dictionary", "joining"}

\* No step of the ingestion has failed, and no failure is on its way.
Clean == outcome = "ok" /\ Failure \notin SetOf(files)

\* A quad that an order is still to get is in a file, with a merge thread, or in an order
\* that none has claimed.
Coming(o, q) ==
    \/ q \in orders[o] \/ o \in SetOf(jobs)
    \/ \E m \in Merger : job[m] = o /\ q \in todo[m]
    \/ \E f \in SetOf(files) : f.order = o /\ q \in f.rows

\* The merge threads: they work during the ingestion only, on what was inserted only.
ThreadInv ==
    /\ \A m \in Merger : job[m] \in Order \cup {"claiming", "stopping", "ended"}
    /\ pc # "ingesting" => \A m \in Merger : job[m] = "ended"
    /\ pc \in Loading => files = <<>> /\ outcome = "ok"
    /\ outcome \in {"ok", "failed"}
    /\ pc = "ingesting" /\ ~told =>
          /\ \A m \in Merger : job[m] \in Order => todo[m] \subseteq Partition(inserted, job[m])
          /\ \A f \in SetOf(files) : f # Failure => f.rows \subseteq Partition(inserted, f.order)
    /\ pc = "ingesting" /\ Clean => \A m \in Merger : job[m] # "stopping" /\ (job[m] = "ended" => jobs = <<>>)

\* The orders: what the store had, then what comes, then all.
OrderInv ==
    /\ pc \in Loading => \A o \in Order : orders[o] = Partition(before, o)
    /\ pc \in Loading \cup {"ingesting", "cataloguing"} => catalogue = GraphsOf(before)
    /\ pc = "ingesting" /\ ~told =>
          \A o \in Order : Partition(before, o) \subseteq orders[o] /\ orders[o] \subseteq Partition(All, o)
    /\ pc = "ingesting" /\ ~told /\ Clean =>
          \A o \in Order : \A q \in Partition(inserted, o) : Coming(o, q)
    /\ ~told =>
          /\ pc \in {"cataloguing", "recounting", "flushing", "done"} => \A o \in Order : orders[o] = Partition(All, o)
          /\ pc \in {"recounting", "flushing", "done"} => catalogue = GraphsOf(All)
          /\ pc \in {"flushing", "done"} => quad_count = Cardinality(All)

\* The merge threads keep to their orders.
LEMMA ThreadKept ==
    ASSUME LoadTyped, SpillInv, ThreadInv, [BulkNext]_bulk_vars
    PROVE  ThreadInv'
<1> USE DEF ThreadInv, store, filling, offered, spiller, threads
<1>1. ASSUME NEW q \in Quad, insert_encoded(q) PROVE ThreadInv'
  BY <1>1 DEF insert_encoded, Loading
<1>2. CASE spill \/ SpillRefused
  BY <1>2 DEF spill, SpillRefused, Loading
<1>3. CASE WorkerStep
  BY <1>3 DEF WorkerStep, TakeBuffer, SortBuffer, SortFails, WorkerEnds, Clean
<1>4. CASE end_bulk_load \/ WriteDictionary
  BY <1>4 DEF end_bulk_load, WriteDictionary, Report, Loading
<1>5. CASE finish
  BY <1>5, OrderAssumption, SetOfEmpty DEF finish, Report, Loading
<1>6. ASSUME NEW m \in Merger, claim(m) PROVE ThreadInv'
  <2>1. pc = "ingesting"
    BY <1>6 DEF claim
  <2>2. jobs # <<>> => Head(jobs) \in Order
    BY SetOfTail DEF LoadTyped
  <2>3. ~told => \A o \in Order : Merged(o) = Partition(inserted, o)
    BY <2>1, MergedIsInserted DEF SpillInv
  <2>4. CASE jobs = <<>>
    BY <1>6, <2>1, <2>4, OrderAssumption DEF claim, Clean, LoadTyped
  <2>5. CASE jobs # <<>>
    BY <1>6, <2>1, <2>2, <2>3, <2>5, OrderAssumption DEF claim, Clean, LoadTyped
  <2> QED
    BY <2>4, <2>5
<1>7. ASSUME NEW m \in Merger, WriteFile(m) PROVE ThreadInv'
  <2>1. PICK out \in SUBSET todo[m] : /\ files' = Append(files, [order |-> job[m], rows |-> out])
                                       /\ todo' = [todo EXCEPT ![m] = @ \ out]
    BY <1>7 DEF WriteFile
  <2>2. [order |-> job[m], rows |-> out] \in File
    BY <1>7, <2>1 DEF WriteFile, File, LoadTyped
  <2>3. SetOf(files') = SetOf(files) \cup {[order |-> job[m], rows |-> out]}
    BY <2>1, <2>2, SetOfAppend DEF LoadTyped
  <2>4. pc = "ingesting" /\ UNCHANGED <<pc, job, jobs, outcome, told, inserted>>
    BY <1>7, OrderAssumption DEF WriteFile
  <2>5. Clean' => Clean
    BY <2>3, <2>4 DEF Clean
  <2>6. job[m] \in Order
    BY <1>7 DEF WriteFile
  <2>7. ASSUME ~told, NEW k \in Merger, job[k] \in Order PROVE todo'[k] \subseteq Partition(inserted, job[k])
    <3>1. todo'[k] \subseteq todo[k]
      BY <2>1 DEF LoadTyped
    <3> QED
      BY <2>4, <2>7, <3>1
  <2>8. ASSUME ~told, NEW f \in SetOf(files'), f # Failure PROVE f.rows \subseteq Partition(inserted, f.order)
    <3>1. CASE f \in SetOf(files)
      BY <2>4, <2>8, <3>1
    <3>2. CASE f = [order |-> job[m], rows |-> out]
      <4>1. todo[m] \subseteq Partition(inserted, job[m])
        BY <2>4, <2>6, <2>8
      <4> QED
        BY <2>1, <3>2, <4>1
    <3> QED
      BY <2>3, <2>8, <3>1, <3>2
  <2>9. (\A k \in Merger : job[k] \in Order => todo[k] \subseteq Partition(inserted, job[k]))' \/ told
    BY <2>4, <2>7 DEF Partition
  <2>10. (\A f \in SetOf(files) : f # Failure => f.rows \subseteq Partition(inserted, f.order))' \/ told
    BY <2>4, <2>8 DEF Partition
  <2> QED
    BY <2>4, <2>5, <2>9, <2>10 DEF Loading
<1>8. ASSUME NEW m \in Merger, OrderDone(m) PROVE ThreadInv'
  BY <1>8, OrderAssumption DEF OrderDone, Clean, LoadTyped, Loading
<1>9. ASSUME NEW m \in Merger, MergeFails(m) PROVE ThreadInv'
  <2>1. SetOf(files') = SetOf(files) \cup {Failure}
    BY <1>9, SetOfAppend DEF MergeFails, LoadTyped, File
  <2> QED
    BY <1>9, <2>1, OrderAssumption DEF MergeFails, Clean, LoadTyped, Loading
<1>10. ASSUME NEW m \in Merger, stop(m) PROVE ThreadInv'
  BY <1>10, OrderAssumption DEF stop, Clean, LoadTyped, Loading
<1>11. CASE ingest_index_sst
  <2>1. SetOf(files) = {Head(files)} \cup SetOf(files')
    BY <1>11, SetOfTail DEF ingest_index_sst, LoadTyped
  <2> QED
    BY <1>11, <2>1 DEF ingest_index_sst, Clean, Loading
<1>12. CASE Joined
  BY <1>12 DEF Joined, Report, Loading
<1>13. CASE WriteCatalogue \/ recount \/ flush
  BY <1>13 DEF WriteCatalogue, recount, flush, Report, Loading
<1>14. CASE UNCHANGED bulk_vars
  BY <1>14 DEF bulk_vars, Clean
<1> QED
  BY <1>1, <1>2, <1>3, <1>4, <1>5, <1>6, <1>7, <1>8, <1>9, <1>10, <1>11, <1>12, <1>13, <1>14
  DEF BulkNext, LoaderStep, MergerStep

\* recount's pass over one order of each kind counts every quad once.
LEMMA Counted ==
    ASSUME NEW S, IsFiniteSet(S)
    PROVE  Cardinality(Partition(S, "dspo")) + Cardinality(Partition(S, "gspo")) = Cardinality(S)
<1>1. Partition(S, "dspo") = S \ Named /\ Partition(S, "gspo") = S \cap Named
  BY OrderAssumption DEF Partition
<1>2. IsFiniteSet(S \ Named) /\ IsFiniteSet(S \cap Named)
  BY FS_Subset
<1>3. Cardinality((S \ Named) \cup (S \cap Named)) =
        Cardinality(S \ Named) + Cardinality(S \cap Named) - Cardinality((S \ Named) \cap (S \cap Named))
  BY <1>2, FS_Union
<1>4. (S \ Named) \cup (S \cap Named) = S /\ (S \ Named) \cap (S \cap Named) = {}
  OBVIOUS
<1>5. Cardinality(S \ Named) \in Nat /\ Cardinality(S \cap Named) \in Nat
  BY <1>2, FS_CardinalityType
<1> QED
  BY <1>1, <1>3, <1>4, <1>5, FS_EmptySet

\* A store without the rows of a load that had none is the store with them.
LEMMA NothingInserted ==
    ASSUME \A o \in Order : Partition(inserted, o) = {}, inserted \in SUBSET Quad
    PROVE  inserted = {}
<1>1. Partition(inserted, "dspo") = inserted \ Named /\ Partition(inserted, "gspo") = inserted \cap Named
  BY OrderAssumption DEF Partition
<1>2. "dspo" \in Order /\ "gspo" \in Order
  BY OrderAssumption DEF Order
<1> QED
  BY <1>1, <1>2

\* The rows of every order come in, and none but them.
LEMMA OrderKept ==
    ASSUME LoadTyped, SpillInv, ThreadInv, OrderInv, [BulkNext]_bulk_vars
    PROVE  OrderInv'
<1> USE DEF OrderInv, store, filling, offered, spiller, threads
<1>1. ASSUME NEW q \in Quad, insert_encoded(q) PROVE OrderInv'
  BY <1>1 DEF insert_encoded, Loading
<1>2. CASE spill \/ SpillRefused
  BY <1>2 DEF spill, SpillRefused, Loading
<1>3. CASE WorkerStep
  <2>1. UNCHANGED <<store, pc, inserted, threads, outcome, told, before>>
    BY <1>3 DEF WorkerStep, TakeBuffer, SortBuffer, SortFails, WorkerEnds
  <2>2. All' = All /\ Clean' = Clean /\ \A o, q : Coming(o, q)' = Coming(o, q)
    BY <2>1 DEF All, Clean, Coming
  <2> QED
    BY <2>1, <2>2
<1>4. CASE end_bulk_load \/ WriteDictionary
  BY <1>4 DEF end_bulk_load, WriteDictionary, Report, Loading
<1>5. CASE finish
  <2>1. CASE told'
    BY <1>5, <2>1 DEF finish, Loading
  <2>2. CASE ~told' /\ buffer = <<>> /\ worker = "none"
    <3>1. \A o \in Order : Partition(inserted, o) = {}
      BY <1>5, <2>2, MergedIsInserted, SetOfEmpty DEF finish, Merged, SpillInv, NoRuns, Partition
    <3>2. All = before
      BY <3>1, NothingInserted DEF All, LoadTyped
    <3> QED
      BY <1>5, <2>2, <3>2 DEF finish, Loading, All
  <2>3. CASE ~told' /\ ~(buffer = <<>> /\ worker = "none")
    <3>1. pc' = "ingesting" /\ jobs' = TripleOrders \o QuadOrders /\ UNCHANGED <<store, before, inserted>> /\ pc \in Loading
      BY <1>5, <2>3 DEF finish, Report, Loading
    <3>2. SetOf(jobs') = Order
      <4>1. TripleOrders \in Seq(Order) /\ QuadOrders \in Seq(Order)
        BY OrderAssumption DEF Order
      <4> QED
        BY <3>1, <4>1, SetOfConcat DEF Order
    <3>3. \A o \in Order : Partition(before, o) \subseteq Partition(All, o)
      BY PartitionUnion DEF All
    <3> QED
      BY <3>1, <3>2, <3>3 DEF Coming, Loading, All
  <2> QED
    BY <2>1, <2>2, <2>3
<1>6. ASSUME NEW m \in Merger, claim(m) PROVE OrderInv'
  <2>1. pc = "ingesting" /\ UNCHANGED <<orders, catalogue, quad_count, pc, before, inserted, told, files, outcome>>
    BY <1>6 DEF claim, ThreadInv
  <2>2. ASSUME ~told, Clean, NEW o \in Order, NEW q \in Partition(inserted, o) PROVE Coming(o, q)'
    <3>1. CASE jobs = <<>>
      BY <1>6, <2>1, <2>2, <3>1, OrderAssumption DEF claim, Coming, LoadTyped
    <3>2. CASE jobs # <<>>
      <4>1. SetOf(jobs) = {Head(jobs)} \cup SetOf(Tail(jobs)) /\ Head(jobs) \in Order
        BY <3>2, SetOfTail DEF LoadTyped
      <4>2. jobs' = Tail(jobs) /\ job' = [job EXCEPT ![m] = Head(jobs)] /\ todo' = [todo EXCEPT ![m] = Merged(Head(jobs))]
        BY <1>6, <3>2 DEF claim
      <4>3. Merged(Head(jobs)) = Partition(inserted, Head(jobs))
        BY <2>1, <2>2, <4>1, MergedIsInserted DEF SpillInv
      <4>4. job'[m] = Head(jobs) /\ todo'[m] = Partition(inserted, Head(jobs))
        BY <4>2, <4>3 DEF LoadTyped
      <4>5. \A v \in Merger \ {m} : job'[v] = job[v] /\ todo'[v] = todo[v]
        BY <4>2 DEF LoadTyped
      <4>6. Coming(o, q)
        BY <2>1, <2>2
      <4>7. job[m] # o
        BY <1>6, OrderAssumption DEF claim
      <4> QED
        BY <2>1, <4>1, <4>2, <4>4, <4>5, <4>6, <4>7 DEF Coming
    <3> QED
      BY <3>1, <3>2
  <2> QED
    BY <2>1, <2>2 DEF Clean, All
<1>7. ASSUME NEW m \in Merger, WriteFile(m) PROVE OrderInv'
  <2>1. PICK out \in SUBSET todo[m] : /\ files' = Append(files, [order |-> job[m], rows |-> out])
                                       /\ todo' = [todo EXCEPT ![m] = @ \ out]
    BY <1>7 DEF WriteFile
  <2>2. [order |-> job[m], rows |-> out] \in File
    BY <1>7, <2>1 DEF WriteFile, File, LoadTyped
  <2>3. SetOf(files') = SetOf(files) \cup {[order |-> job[m], rows |-> out]}
    BY <2>1, <2>2, SetOfAppend DEF LoadTyped
  <2>4. pc = "ingesting" /\ UNCHANGED <<orders, catalogue, quad_count, pc, before, inserted, told, jobs, job, outcome>>
    BY <1>7, OrderAssumption DEF WriteFile, ThreadInv
  <2>5. \A v \in Merger \ {m} : todo'[v] = todo[v]
    BY <2>1 DEF LoadTyped
  <2>6. todo'[m] = todo[m] \ out
    BY <2>1 DEF LoadTyped
  <2>7. Clean' => Clean
    BY <2>3, <2>4 DEF Clean
  <2>8. ASSUME NEW o \in Order, NEW q, Coming(o, q) PROVE Coming(o, q)'
    <3> DEFINE r == [order |-> job[m], rows |-> out]
    <3>1. r.order = job[m] /\ r.rows = out /\ r \in SetOf(files')
      BY <2>3
    <3> HIDE DEF r
    <3>2. SetOf(files) \subseteq SetOf(files')
      BY <2>3
    <3> QED
      BY <2>4, <2>5, <2>6, <2>8, <3>1, <3>2 DEF Coming
  <2> QED
    BY <2>4, <2>7, <2>8 DEF All
<1>8. ASSUME NEW m \in Merger, OrderDone(m) PROVE OrderInv'
  <2>1. pc = "ingesting" /\ UNCHANGED <<orders, catalogue, quad_count, pc, before, inserted, told, files, jobs, todo, outcome>> /\ todo[m] = {}
    BY <1>8, OrderAssumption DEF OrderDone, ThreadInv
  <2>2. \A v \in Merger \ {m} : job'[v] = job[v]
    BY <1>8 DEF OrderDone
  <2>3. ASSUME NEW o \in Order, NEW q, Coming(o, q) PROVE Coming(o, q)'
    BY <2>1, <2>2, <2>3 DEF Coming
  <2> QED
    BY <2>1, <2>3 DEF Clean, All
<1>9. ASSUME NEW m \in Merger, MergeFails(m) PROVE OrderInv'
  <2>1. SetOf(files') = SetOf(files) \cup {Failure}
    <3>1. Failure \in File /\ files' = Append(files, Failure)
      BY <1>9 DEF MergeFails, File
    <3> QED
      BY <3>1, SetOfAppend DEF LoadTyped
  <2> QED
    BY <1>9, <2>1, OrderAssumption DEF MergeFails, ThreadInv, Clean, All
<1>10. ASSUME NEW m \in Merger, stop(m) PROVE OrderInv'
  <2>1. pc = "ingesting" /\ ~Clean /\ ~Clean' /\ UNCHANGED <<orders, catalogue, quad_count, pc, before, inserted, told>>
    BY <1>10 DEF stop, ThreadInv, Clean
  <2> QED
    BY <2>1 DEF All
<1>11. CASE ingest_index_sst
  <2>1. SetOf(files) = {Head(files)} \cup SetOf(files') /\ Head(files) \in File
    BY <1>11, SetOfTail DEF ingest_index_sst, LoadTyped
  <2>2. pc = "ingesting" /\ UNCHANGED <<pc, catalogue, quad_count, before, inserted, told, todo, job>>
    BY <1>11 DEF ingest_index_sst
  <2>3. CASE orders' = orders /\ ~Clean'
    BY <2>2, <2>3 DEF All
  <2>4. CASE /\ outcome = "ok" /\ Head(files) # Failure /\ UNCHANGED <<outcome, jobs>>
             /\ orders' = [orders EXCEPT ![Head(files).order] = @ \cup Head(files).rows]
    <3> DEFINE f == Head(files)
    <3>1. f.order \in Order
      BY <2>1, <2>4 DEF File
    <3> HIDE DEF f
    <3>2. orders'[f.order] = orders[f.order] \cup f.rows /\ \A o \in Order \ {f.order} : orders'[o] = orders[o]
      BY <2>4, <3>1 DEF f, LoadTyped
    <3>3. ~told => f.rows \subseteq Partition(All, f.order)
      <4>1. ~told => f.rows \subseteq Partition(inserted, f.order)
        BY <2>1, <2>2, <2>4 DEF ThreadInv, f
      <4> QED
        BY <4>1, PartitionUnion DEF All
    <3>4. Clean' => Clean
      BY <2>1, <2>4 DEF Clean
    <3>5. ASSUME NEW o \in Order, NEW q, Coming(o, q) PROVE Coming(o, q)'
      BY <2>1, <2>2, <2>4, <3>1, <3>2, <3>5 DEF Coming, f
    <3> QED
      <4>1. All' = All
        BY <2>2 DEF All
      <4>2. ~told => \A o \in Order : Partition(before, o) \subseteq orders'[o] /\ orders'[o] \subseteq Partition(All, o)
        BY <2>2, <3>1, <3>2, <3>3
      <4>3. ~told /\ Clean' => \A o \in Order : \A q \in Partition(inserted, o) : Coming(o, q)'
        BY <2>2, <3>4, <3>5
      <4> QED
        BY <2>2, <4>1, <4>2, <4>3 DEF Loading
  <2> QED
    BY <1>11, <2>3, <2>4 DEF ingest_index_sst, Clean
<1>12. CASE Joined
  <2>1. CASE told'
    BY <1>12, <2>1 DEF Joined, Report, Loading
  <2>2. CASE ~told'
    <3>1. pc = "ingesting" /\ pc' = "cataloguing" /\ outcome = "ok" /\ files = <<>> /\ UNCHANGED <<store, before, inserted, told>>
      BY <1>12, <2>2 DEF Joined, Report
    <3>2. Clean /\ SetOf(files) = {}
      BY <3>1, SetOfEmpty DEF Clean
    <3>3. \A m \in Merger : job[m] \notin Order
      BY <1>12, OrderAssumption DEF Joined
    <3>4. SetOf(jobs) = {}
      BY <1>12, <3>1, <3>2, OrderAssumption, SetOfEmpty DEF Joined, ThreadInv
    <3>5. \A o \in Order : Partition(inserted, o) \subseteq orders[o]
      BY <2>2, <3>1, <3>2, <3>3, <3>4 DEF Coming
    <3>6. \A o \in Order : orders[o] = Partition(All, o)
      <4>1. \A o \in Order : Partition(All, o) = Partition(before, o) \cup Partition(inserted, o)
        BY PartitionUnion DEF All
      <4> QED
        BY <2>2, <3>1, <3>5, <4>1
    <3> QED
      BY <2>2, <3>1, <3>6 DEF Loading, All
  <2> QED
    BY <2>1, <2>2
<1>13. CASE WriteCatalogue
  <2>1. GraphsOf(All) = GraphsOf(before) \cup graphs
    BY GraphsUnion DEF All, SpillInv
  <2>2. All' = All
    BY <1>13 DEF WriteCatalogue, All
  <2> QED
    BY <1>13, <2>1, <2>2 DEF WriteCatalogue, Report, Loading
<1>14. CASE recount
  <2>1. IsFiniteSet(All)
    BY FS_Union DEF All, LoadTyped
  <2>2. Cardinality(Partition(All, "dspo")) + Cardinality(Partition(All, "gspo")) = Cardinality(All)
    BY <2>1, Counted
  <2>3. "dspo" \in Order /\ "gspo" \in Order
    BY OrderAssumption DEF Order
  <2> QED
    BY <1>14, <2>2, <2>3 DEF recount, Report, Loading, All
<1>15. CASE flush
  BY <1>15 DEF flush, Report, Loading, All
<1>16. CASE UNCHANGED bulk_vars
  BY <1>16 DEF bulk_vars, Clean, Coming, All
<1> QED
  BY <1>1, <1>2, <1>3, <1>4, <1>5, <1>6, <1>7, <1>8, <1>9, <1>10, <1>11, <1>12, <1>13, <1>14, <1>15, <1>16
  DEF BulkNext, LoaderStep, MergerStep

\* A bulk load that told its caller of no error has every quad in every order, every graph
\* in the catalogue and the right count (begin_bulk_load to end_bulk_load): whatever was
\* spilled when, however the orders were shared out, and wherever a step failed.
THEOREM SuccessAlwaysMeansLoaded == BulkSpec => []SuccessMeansLoaded
<1>1. BulkInit => LoadTyped
  BY QuadAssumption, FS_EmptySet DEF BulkInit, LoadTyped, NoRuns
<1>2. BulkInit => SpillInv
  BY SetOfEmpty DEF BulkInit, SpillInv, Waiting, Partition, GraphsOf, NoRuns
<1>3. BulkInit => ThreadInv /\ OrderInv
  BY DEF BulkInit, ThreadInv, OrderInv, Loading
<1>4. OrderInv => SuccessMeansLoaded
  BY DEF OrderInv, SuccessMeansLoaded
<1> QED
  BY <1>1, <1>2, <1>3, <1>4, TypedKept, SpillKept, ThreadKept, OrderKept, PTL DEF BulkSpec

-----------------------------------------------------------------------------
(* The dictionary: types                                                   *)

Ids == Tag \X Nat
Bytes == ({"leaf"} \X Leaf) \cup ({"triple"} \X (Ids \X Ids \X Ids))
Row == {x \in Ids \X Bytes : x[1][1] = TagOf(x[2])}
Key == ({"hashed"} \X {Hash[x] : x \in Long}) \cup ({"exact"} \X Bytes)
RowSet == [id2str : SUBSET Row, str2id : SUBSET (Key \X Ids)]
Counts == [Tag -> Nat]
WorkSet == [next : Counts, rows : RowSet, counters : Counts, terms : SUBSET Row, seen : SUBSET Bytes, id : Ids]

Typed ==
    /\ db \in [id2str : SUBSET Row, str2id : SUBSET (Key \X Ids), next : Counts]
    /\ rows \in RowSet /\ flight \in RowSet
    /\ next \in Counts /\ counters \in Counts /\ issued \in Counts
    /\ mode \in {"plain", "scope", "bulk"} /\ filtered \in BOOLEAN
    /\ terms \in SUBSET Row /\ seen \in SUBSET Bytes
    /\ given \in SUBSET (Ids \X Term) /\ lost \in SUBSET Ids

-----------------------------------------------------------------------------
(* Rows that tell the truth                                                *)

\* An id has one row.
OneRow(A) == \A x, y \in A : x[1] = y[1] => x = y

\* Ids the counters c have passed.
Below(A, c) == \A x \in A : x[1][2] < c[x[1][1]]

\* The parts a triple term's bytes name are leaves that have rows in A.
PartsIn(b, A) == TagOf(b) = "triple" => \A k \in 1..3 : \E t \in Leaf : <<b[2][k], LeafBytes(t)>> \in A
Closed(L, A) == \A x \in L : PartsIn(x[2], A)

\* Every id a str2id row lists has a term with that key.
Listed(s, A) == \A e \in s : \E x \in A : e = <<dictionary_key(x[2]), x[1]>>

\* Bytes that stand for the term t.
Means(A, b, t) ==
    IF t \in Leaf THEN b = LeafBytes(t)
    ELSE TagOf(b) = "triple" /\ \A k \in 1..3 : <<b[2][k], LeafBytes(Parts[t][k])>> \in A

\* The rows of the database, of the window being written, and of the window or scope r.
AllRows(r) == db.id2str \cup flight.id2str \cup r.id2str

StoredSound ==
    /\ Closed(db.id2str, db.id2str) /\ Listed(db.str2id, db.id2str)
    /\ Closed(flight.id2str, db.id2str \cup flight.id2str)
    /\ Listed(flight.str2id, db.id2str \cup flight.id2str)

WorkSound(w) ==
    /\ \A g \in Tag : w.counters[g] <= w.next[g]
    /\ OneRow(AllRows(w.rows)) /\ Below(AllRows(w.rows), w.counters)
    /\ Closed(w.rows.id2str, AllRows(w.rows))
    /\ Listed(w.rows.str2id, db.id2str \cup w.rows.id2str)
    /\ w.terms \subseteq AllRows(w.rows)

\* What is held back, and where the counters stand, in each mode.
ModeSound ==
    /\ mode # "bulk" => flight = NoRows /\ Below(db.id2str, db.next)
    /\ mode = "plain" => rows = NoRows /\ counters = db.next
    /\ \A g \in Tag : db.next[g] <= counters[g]

\* The ids G given out, with rows A, counters n and lost ids l: an id was given for one
\* term, and its row, which only a lost one may not have, means that term.
GivenSound(G, A, n, l) ==
    /\ \A x, y \in G : x[1] = y[1] => x[2] = y[2]
    /\ \A x \in G : x[1][2] < n[x[1][1]]
    /\ \A x \in G, y \in A : y[1] = x[1] => Means(A, y[2], x[2])
    /\ \A x \in G : x[1] \notin l => \E y \in A : y[1] = x[1]

Sound ==
    /\ Typed /\ StoredSound /\ WorkSound(Work) /\ ModeSound
    /\ GivenSound(given, AllRows(rows), next, lost)

-----------------------------------------------------------------------------
(* Rows that leave nothing out                                             *)

\* A term has one id.
OneId(A) == \A x, y \in A : x[2] = y[2] => x = y

SameKey(x, y) == dictionary_key(x[2]) = dictionary_key(y[2])

\* The list of a key that L has names every row of L and of the rows B below with that key.
ListsAll(s, L, B) ==
    /\ \A x \in L, y \in L \cup B : SameKey(x, y) => <<dictionary_key(y[2]), y[1]>> \in s
    /\ \A e \in s : \E x \in L : e[1] = dictionary_key(x[2])

Apart(L, M) == \A x \in L, y \in M : ~SameKey(x, y)

StoredComplete ==
    /\ ListsAll(db.str2id, db.id2str, {}) /\ ListsAll(flight.str2id, flight.id2str, db.id2str)

WorkComplete(w) ==
    /\ OneId(AllRows(w.rows))
    /\ ListsAll(w.rows.str2id, w.rows.id2str, db.id2str)
    /\ Apart(flight.id2str, w.rows.id2str)
    /\ mode # "plain" => flight.id2str \cup w.rows.id2str \subseteq w.terms
    /\ mode = "plain" => w.terms = {}
    /\ filtered => mode = "bulk" /\ \A x \in AllRows(w.rows) : x[2] \in w.seen
    /\ flight # NoRows => \A x \in w.rows.id2str : x[1][2] >= issued[x[1][1]]
    /\ \A g \in Tag : issued[g] <= w.next[g]

Complete ==
    /\ StoredComplete /\ WorkComplete(Work)
    /\ mode # "bulk" => issued = Zero

-----------------------------------------------------------------------------
(* Keys and lists                                                          *)

\* A row is a pair of an id, itself a pair, and bytes.
LEMMA RowParts ==
    ASSUME NEW x \in Row
    PROVE  /\ x = <<x[1], x[2]>> /\ x[1] \in Ids /\ x[2] \in Bytes
           /\ x[1] = <<x[1][1], x[1][2]>> /\ x[1][1] \in Tag /\ x[1][2] \in Nat /\ x[1][1] = TagOf(x[2])
  BY DEF Row, Ids

\* Bytes begin with a tag.
LEMMA BytesTag ==
    ASSUME NEW b \in Bytes
    PROVE  /\ TagOf(b) \in Tag
           /\ TagOf(b) = "leaf" => b = LeafBytes(b[2]) /\ b[2] \in Leaf
           /\ TagOf(b) = "triple" => b = TripleBytes(b[2]) /\ b[2] \in Ids \X Ids \X Ids
  BY DEF Bytes, TagOf, Tag, LeafBytes, TripleBytes

\* dictionary_key gives bytes a key.
LEMMA KeyType ==
    ASSUME NEW b \in Bytes
    PROVE  dictionary_key(b) \in Key
<1>1. CASE Hashed(b)
  BY <1>1 DEF dictionary_key, Hashed, Key
<1>2. CASE ~Hashed(b)
  BY <1>2 DEF dictionary_key, Key
<1> QED
  BY <1>1, <1>2

\* Only hashed bytes share a key.
LEMMA KeyExact ==
    ASSUME NEW b \in Bytes, NEW c \in Bytes, dictionary_key(b) = dictionary_key(c)
    PROVE  /\ Hashed(b) <=> Hashed(c)
           /\ ~Hashed(b) => b = c
           /\ dictionary_key(b)[1] = "hashed" <=> Hashed(b)
  BY DEF dictionary_key

\* The ids of a list.
LEMMA ListAtIs ==
    ASSUME NEW r, r.str2id \subseteq Key \X Ids, NEW key, NEW i
    PROVE  i \in ListAt(r, key) <=> <<key, i>> \in r.str2id
<1>1. \A e \in r.str2id : e = <<e[1], e[2]>>
  OBVIOUS
<1> QED
  BY <1>1 DEF ListAt

\* The bytes of an id.
LEMMA BytesAtIs ==
    ASSUME NEW r, r.id2str \subseteq Row, NEW i, NEW b
    PROVE  b \in BytesAt(r, i) <=> <<i, b>> \in r.id2str
<1>1. \A x \in r.id2str : x = <<x[1], x[2]>>
  BY RowParts
<1> QED
  BY <1>1 DEF BytesAt

\* The ids a cache has for bytes.
LEMMA CachedAsIs ==
    ASSUME NEW cache, cache \subseteq Row, NEW i, NEW b
    PROVE  i \in CachedAs(cache, b) <=> <<i, b>> \in cache
<1>1. \A x \in cache : x = <<x[1], x[2]>>
  BY RowParts
<1> QED
  BY <1>1 DEF CachedAs

\* A listed id has a term with that key.
LEMMA ListedIs ==
    ASSUME NEW s, NEW A, A \subseteq Row, Listed(s, A), NEW key, NEW i, <<key, i>> \in s
    PROVE  \E b \in Bytes : <<i, b>> \in A /\ dictionary_key(b) = key
<1>1. PICK x \in A : <<key, i>> = <<dictionary_key(x[2]), x[1]>>
  BY DEF Listed
<1>2. key = dictionary_key(x[2]) /\ i = x[1]
  BY <1>1
<1> QED
  BY <1>2, RowParts

\* resolve finds only ids whose row has the bytes asked for.
LEMMA ResolveSound ==
    ASSUME Typed, StoredSound, NEW bytes \in Bytes, NEW i \in resolve(bytes)
    PROVE  <<i, bytes>> \in db.id2str
<1>1. db.id2str \subseteq Row /\ db.str2id \subseteq Key \X Ids
  BY DEF Typed
<1>2. CASE Hashed(bytes)
  <2>1. bytes \in BytesAt(db, i)
    BY <1>2, Zenon DEF resolve
  <2> QED
    BY <1>1, <2>1, BytesAtIs
<1>3. CASE ~Hashed(bytes)
  <2>1. i \in ListAt(db, dictionary_key(bytes))
    BY <1>3, Zenon DEF resolve
  <2>2. <<dictionary_key(bytes), i>> \in db.str2id
    BY <1>1, <2>1, ListAtIs
  <2>3. PICK b \in Bytes : <<i, b>> \in db.id2str /\ dictionary_key(b) = dictionary_key(bytes)
    <3> DEFINE S == db.str2id
               D == db.id2str
    <3>1. Listed(S, D) /\ D \subseteq Row /\ <<dictionary_key(bytes), i>> \in S
      BY <1>1, <2>2 DEF StoredSound
    <3> HIDE DEF S, D
    <3>2. PICK k : k = dictionary_key(bytes)
      OBVIOUS
    <3>3. \E b \in Bytes : <<i, b>> \in D /\ dictionary_key(b) = k
      <4>1. <<k, i>> \in S
        BY <3>1, <3>2
      <4> QED
        BY <3>1, <4>1, ListedIs, ZenonT(40)
    <3>4. \E b \in Bytes : <<i, b>> \in D /\ dictionary_key(b) = dictionary_key(bytes)
      BY <3>2, <3>3
    <3> QED
      BY <3>4 DEF D
  <2>4. b = bytes
    BY <1>3, <2>3, KeyExact
  <2> QED
    BY <2>3, <2>4
<1> QED
  BY <1>2, <1>3

-----------------------------------------------------------------------------
(* encode_into keeps the rows sound                                        *)

\* What one encode leaves to the next: more rows, with ids the counter had not reached.
Grows(w, e) ==
    /\ w.rows.id2str \subseteq e.rows.id2str
    /\ \A g \in Tag : w.next[g] <= e.next[g] /\ w.counters[g] <= e.counters[g]
    /\ \A x \in e.rows.id2str \ w.rows.id2str : x[1][2] >= w.next[x[1][1]]

\* A working state is the record of its fields.
LEMMA WorkFields ==
    ASSUME NEW w \in WorkSet
    PROVE  /\ w.next \in Counts /\ w.counters \in Counts /\ w.terms \subseteq Row /\ w.seen \subseteq Bytes
           /\ w.id \in Ids /\ w.rows.id2str \subseteq Row /\ w.rows.str2id \subseteq Key \X Ids
           /\ w.rows \in RowSet
  BY DEF WorkSet, RowSet

\* The next id of a tag has no row.
LEMMA NextIdFree ==
    ASSUME Typed, NEW w \in WorkSet, WorkSound(w), NEW g \in Tag, NEW x \in AllRows(w.rows)
    PROVE  x[1] # <<g, w.next[g]>>
<1>1. x \in Row
  BY WorkFields DEF AllRows, Typed, RowSet
<1>2. x[1][2] < w.counters[x[1][1]]
  BY DEF WorkSound, Below
<1>3. x[1][1] \in Tag /\ x[1][2] \in Nat
  BY <1>1, RowParts
<1>4. w.counters[x[1][1]] <= w.next[x[1][1]]
  BY <1>3 DEF WorkSound
<1>5. w.counters[x[1][1]] \in Nat /\ w.next[x[1][1]] \in Nat
  BY <1>3, WorkFields DEF Counts
<1>6. x[1][2] # w.next[x[1][1]]
  BY <1>2, <1>3, <1>4, <1>5
<1> QED
  BY <1>6

\* What allocate lists under the key.
NewList(w, bytes) ==
    {<<TagOf(bytes), w.next[TagOf(bytes)]>>}
        \cup (IF Hashed(bytes) THEN Candidates(w, dictionary_key(bytes)) ELSE {})
        \cup (IF mode = "bulk" /\ dictionary_key(bytes)[1] = "hashed" THEN ListAt(w.rows, dictionary_key(bytes)) ELSE {})

\* The fields allocate gives a working state.
Allocates(w, e, bytes, x) ==
    LET g == TagOf(bytes)
    IN  /\ x = <<<<g, w.next[g]>>, bytes>>
        /\ e.id = <<g, w.next[g]>>
        /\ e.next = [w.next EXCEPT ![g] = w.next[g] + 1]
        /\ e.counters = [w.counters EXCEPT ![g] = w.next[g] + 1]
        /\ e.rows.id2str = w.rows.id2str \cup {x}
        /\ e.rows.str2id = PutList(w.rows, dictionary_key(bytes), NewList(w, bytes))
        /\ e.rows = [id2str |-> e.rows.id2str, str2id |-> e.rows.str2id]
        /\ e.terms = IF mode = "plain" THEN {} ELSE w.terms \cup {x}
        /\ e.seen = IF filtered THEN w.seen \cup {bytes} ELSE w.seen
        /\ e = [next |-> e.next, counters |-> e.counters, rows |-> e.rows, terms |-> e.terms,
                seen |-> e.seen, id |-> e.id]

\* allocate gives a working state those fields.
LEMMA AllocateFields ==
    ASSUME NEW w \in WorkSet, NEW bytes \in Bytes
    PROVE  Allocates(w, allocate(w, bytes), bytes, <<<<TagOf(bytes), w.next[TagOf(bytes)]>>, bytes>>)
<1> DEFINE e == allocate(w, bytes)
           g == TagOf(bytes)
<1>1. g \in Tag
  BY BytesTag
<1>2. /\ e.id = <<g, w.next[g]>>
      /\ e.next = [w.next EXCEPT ![g] = w.next[g] + 1]
      /\ e.counters = [w.counters EXCEPT ![g] = w.next[g] + 1]
      /\ e.rows.id2str = w.rows.id2str \cup {<<<<g, w.next[g]>>, bytes>>}
  BY <1>1, WorkFields DEF allocate, Counts
<1>3. e.rows.str2id = PutList(w.rows, dictionary_key(bytes), NewList(w, bytes))
  <2>1. CASE mode = "bulk"
    <3>1. e.rows.str2id = combine(w.rows, dictionary_key(bytes), {<<g, w.next[g]>>}
              \cup IF Hashed(bytes) THEN Candidates(w, dictionary_key(bytes)) ELSE {})
      BY <2>1 DEF allocate
    <3>2. NewList(w, bytes) = ({<<g, w.next[g]>>}
              \cup IF Hashed(bytes) THEN Candidates(w, dictionary_key(bytes)) ELSE {})
              \cup IF dictionary_key(bytes)[1] = "hashed" THEN ListAt(w.rows, dictionary_key(bytes)) ELSE {}
      BY <2>1 DEF NewList
    <3> QED
      BY <3>1, <3>2 DEF combine
  <2>2. CASE mode # "bulk"
    <3>1. e.rows.str2id = PutList(w.rows, dictionary_key(bytes), {<<g, w.next[g]>>}
              \cup IF Hashed(bytes) THEN Candidates(w, dictionary_key(bytes)) ELSE {})
      BY <2>2 DEF allocate
    <3>2. NewList(w, bytes) = {<<g, w.next[g]>>}
              \cup IF Hashed(bytes) THEN Candidates(w, dictionary_key(bytes)) ELSE {}
      BY <2>2 DEF NewList
    <3> QED
      BY <3>1, <3>2
  <2> QED
    BY <2>1, <2>2
<1>4. /\ e.rows = [id2str |-> e.rows.id2str, str2id |-> e.rows.str2id]
      /\ e.terms = IF mode = "plain" THEN {} ELSE w.terms \cup {<<<<g, w.next[g]>>, bytes>>}
      /\ e.seen = IF filtered THEN w.seen \cup {bytes} ELSE w.seen
  BY DEF allocate
<1>5. e = [next |-> e.next, counters |-> e.counters, rows |-> e.rows, terms |-> e.terms,
           seen |-> e.seen, id |-> e.id]
  BY DEF allocate
<1>6. Allocates(w, e, bytes, <<<<g, w.next[g]>>, bytes>>)
  <2> HIDE DEF e
  <2> QED
    BY <1>2, <1>3, <1>4, <1>5 DEF Allocates
<1> QED
  BY <1>6

\* Sets of rows that grow.
LEMMA ClosedGrows ==
    ASSUME NEW L, NEW M, NEW A, NEW B, Closed(L, A), A \subseteq B, M \subseteq L
    PROVE  Closed(M, B)
<1>1. \A x \in M : PartsIn(x[2], A)
  BY DEF Closed
<1> SUFFICES ASSUME NEW x \in M PROVE PartsIn(x[2], B)
  BY DEF Closed
<1> QED
  BY <1>1 DEF PartsIn

\* Lists that grow.
LEMMA ListedGrows ==
    ASSUME NEW s, NEW r, NEW A, NEW B, Listed(s, A), A \subseteq B, r \subseteq s
    PROVE  Listed(r, B)
  BY DEF Listed

\* One more row, with an id of its own.
LEMMA OneRowMore ==
    ASSUME NEW A, OneRow(A), NEW x, \A y \in A : y[1] # x[1]
    PROVE  OneRow(A \cup {x})
  BY DEF OneRow

\* The entries of a list that is put.
LEMMA PutListIs ==
    ASSUME NEW r, r.str2id \subseteq Key \X Ids, NEW key, NEW ids, NEW e
    PROVE  e \in PutList(r, key, ids) <=>
               \/ e \in r.str2id /\ e[1] # key
               \/ \E i \in ids : e = <<key, i>>
  BY DEF PutList

\* allocate lists ids that have terms with the key.
LEMMA NewListSound ==
    ASSUME Typed, StoredSound, NEW w \in WorkSet, WorkSound(w), NEW bytes \in Bytes, NEW i \in NewList(w, bytes)
    PROVE  \/ i = <<TagOf(bytes), w.next[TagOf(bytes)]>>
           \/ \E b \in Bytes : <<i, b>> \in db.id2str \cup w.rows.id2str /\ dictionary_key(b) = dictionary_key(bytes)
<1> DEFINE key == dictionary_key(bytes)
           D == db.id2str
           DW == db.id2str \cup w.rows.id2str
           S == db.str2id
           R == w.rows.str2id
<1>1. i = <<TagOf(bytes), w.next[TagOf(bytes)]>> \/ i \in Candidates(w, key) \/ i \in ListAt(w.rows, key)
  BY Zenon DEF NewList
<1>2. Candidates(w, key) = ListAt(w.rows, key) \/ Candidates(w, key) = ListAt(db, key)
  BY DEF Candidates
<1>3. db.str2id \subseteq Key \X Ids /\ w.rows.str2id \subseteq Key \X Ids
  BY WorkFields DEF Typed
<1>4. i = <<TagOf(bytes), w.next[TagOf(bytes)]>> \/ <<key, i>> \in S \/ <<key, i>> \in R
  BY <1>1, <1>2, <1>3, ListAtIs
<1>5. D \subseteq Row /\ DW \subseteq Row
  BY WorkFields DEF Typed
<1>6. Listed(S, D) /\ Listed(R, DW)
  BY DEF StoredSound, WorkSound
<1> HIDE DEF key, D, DW, S, R
<1>7. <<key, i>> \in S => \E b \in Bytes : <<i, b>> \in D /\ dictionary_key(b) = key
  BY <1>5, <1>6, ListedIs
<1>8. <<key, i>> \in R => \E b \in Bytes : <<i, b>> \in DW /\ dictionary_key(b) = key
  BY <1>5, <1>6, ListedIs
<1> QED
  BY <1>4, <1>7, <1>8 DEF key, D, DW

\* One more term, interned.
LEMMA AllocateSound ==
    ASSUME Typed, StoredSound, NEW w \in WorkSet, WorkSound(w), NEW bytes \in Bytes,
           PartsIn(bytes, AllRows(w.rows))
    PROVE  LET e == allocate(w, bytes)
           IN  /\ e \in WorkSet /\ WorkSound(e) /\ Grows(w, e)
               /\ <<e.id, bytes>> \in e.rows.id2str
<1> DEFINE e == allocate(w, bytes)
           g == TagOf(bytes)
           n == w.next[g]
           x == <<<<g, n>>, bytes>>
           A == AllRows(w.rows)
           B == AllRows(e.rows)
           W == w.rows.id2str
           D == db.id2str
           R == w.rows.str2id
           Q == e.rows.str2id
           key == dictionary_key(bytes)
<1>1. /\ e.id = <<g, n>>
      /\ e.next = [w.next EXCEPT ![g] = n + 1]
      /\ e.counters = [w.counters EXCEPT ![g] = n + 1]
      /\ e.rows.id2str = W \cup {x}
      /\ Q = PutList(w.rows, key, NewList(w, bytes))
      /\ e.rows = [id2str |-> e.rows.id2str, str2id |-> Q]
      /\ e.terms = IF mode = "plain" THEN {} ELSE w.terms \cup {x}
      /\ e.seen = IF filtered THEN w.seen \cup {bytes} ELSE w.seen
      /\ e = [next |-> e.next, counters |-> e.counters, rows |-> e.rows, terms |-> e.terms,
              seen |-> e.seen, id |-> e.id]
  <2>1. Allocates(w, e, bytes, x)
    BY AllocateFields
  <2> HIDE DEF e
  <2> QED
    BY <2>1 DEF Allocates
<1>2. g \in Tag /\ n \in Nat /\ w.next \in Counts /\ w.counters \in Counts
  BY BytesTag, WorkFields DEF Counts
<1>3. x \in Row
  BY <1>2 DEF Row, Ids
<1>4. A \subseteq Row /\ D \cup W \subseteq Row /\ B = A \cup {x} /\ R \subseteq Key \X Ids
  BY <1>1, WorkFields DEF AllRows, Typed, RowSet
<1>5. \A y \in A : y[1] # x[1]
  BY <1>2, NextIdFree
<1> HIDE DEF e, g, n, x, A, B, W, D, R, Q, key
<1>6. OneRow(B)
  <2>1. OneRow(A)
    BY DEF WorkSound, A
  <2> QED
    BY <1>4, <1>5, <2>1, OneRowMore
<1>7. e.next \in Counts /\ e.counters \in Counts
  BY <1>1, <1>2 DEF Counts
<1>8. \A h \in Tag : w.next[h] <= e.next[h] /\ w.counters[h] <= e.counters[h] /\ e.counters[h] <= e.next[h]
  <2>1. \A h \in Tag : w.counters[h] <= w.next[h]
    BY DEF WorkSound
  <2>2. \A h \in Tag : w.counters[h] \in Nat /\ w.next[h] \in Nat
    BY <1>2 DEF Counts
  <2>3. \A h \in Tag : IF h = g THEN e.next[h] = n + 1 /\ e.counters[h] = n + 1
                       ELSE e.next[h] = w.next[h] /\ e.counters[h] = w.counters[h]
    BY <1>1, <1>2 DEF Counts
  <2>4. n = w.next[g]
    BY DEF n
  <2> QED
    BY <1>2, <2>1, <2>2, <2>3, <2>4
<1>9. Below(B, e.counters)
  <2>1. \A y \in A : y[1][2] < w.counters[y[1][1]] /\ y[1][2] \in Nat /\ y[1][1] \in Tag
    BY <1>4, RowParts DEF WorkSound, Below, A
  <2>2. \A h \in Tag : w.counters[h] \in Nat /\ e.counters[h] \in Nat
    BY <1>2, <1>7 DEF Counts
  <2>3. \A y \in A : y[1][2] < e.counters[y[1][1]]
    BY <1>8, <2>1, <2>2
  <2>4. x[1][1] = g /\ x[1][2] = n /\ e.counters[g] = n + 1
    BY <1>1, <1>2 DEF x, Counts
  <2> QED
    BY <1>2, <1>4, <2>3, <2>4 DEF Below
<1>10. Closed(W \cup {x}, B)
  <2>1. Closed(W, A) /\ A \subseteq B
    BY <1>4 DEF WorkSound, W, A
  <2>2. Closed(W, B)
    BY <2>1, ClosedGrows
  <2>3. PartsIn(bytes, B)
    BY <2>1 DEF PartsIn, A
  <2>4. x[2] = bytes
    BY DEF x
  <2> QED
    BY <2>2, <2>3, <2>4 DEF Closed
<1>11. Listed(Q, D \cup (W \cup {x}))
  <2> SUFFICES ASSUME NEW q \in Q PROVE \E y \in D \cup (W \cup {x}) : q = <<dictionary_key(y[2]), y[1]>>
    BY DEF Listed
  <2>1. CASE q \in R
    <3>1. Listed(R, D \cup W)
      BY DEF WorkSound, R, D, W
    <3> QED
      BY <2>1, <3>1 DEF Listed
  <2>2. CASE q \notin R
    <3>1. PICK i \in NewList(w, bytes) : q = <<key, i>>
      BY <1>1, <1>4, <2>2, PutListIs DEF R, Q
    <3>2. i = <<g, n>> \/ \E b \in Bytes : <<i, b>> \in D \cup W /\ dictionary_key(b) = key
      BY NewListSound DEF g, n, D, W, key
    <3>3. CASE i = <<g, n>>
      <4>1. q = <<dictionary_key(x[2]), x[1]>>
        BY <3>1, <3>3 DEF x, key
      <4> QED
        BY <4>1
    <3>4. ASSUME NEW b \in Bytes, <<i, b>> \in D \cup W, dictionary_key(b) = key
          PROVE  \E y \in D \cup (W \cup {x}) : q = <<dictionary_key(y[2]), y[1]>>
      <4> DEFINE y == <<i, b>>
      <4>1. y \in D \cup (W \cup {x}) /\ q = <<dictionary_key(y[2]), y[1]>>
        BY <3>1, <3>4
      <4> QED
        BY <4>1
    <3> QED
      BY <3>2, <3>3, <3>4
  <2> QED
    BY <2>1, <2>2
<1>12. e.terms \subseteq B /\ e.terms \subseteq Row
  <2>1. w.terms \subseteq A
    BY DEF WorkSound, A
  <2> QED
    BY <1>1, <1>3, <1>4, <2>1
<1>13. Q \subseteq Key \X Ids
  <2>1. \A q \in Q : \E y \in Row : q = <<dictionary_key(y[2]), y[1]>>
    BY <1>3, <1>4, <1>11 DEF Listed
  <2>2. \A y \in Row : dictionary_key(y[2]) \in Key /\ y[1] \in Ids
    BY RowParts, KeyType
  <2> QED
    BY <2>1, <2>2
<1>14. e.rows \in RowSet
  <2>1. e.rows.id2str \in SUBSET Row
    BY <1>1, <1>3, <1>4
  <2> QED
    BY <1>1, <1>13, <2>1 DEF RowSet
<1>15. e.seen \in SUBSET Bytes /\ e.id \in Ids
  BY <1>1, <1>2, WorkFields DEF Ids
<1>16. e \in WorkSet
  BY <1>1, <1>7, <1>12, <1>14, <1>15 DEF WorkSet
<1>17. Grows(w, e)
  <2>1. x[1][1] = g /\ x[1][2] = n /\ n = w.next[g]
    BY DEF x, n
  <2> QED
    BY <1>1, <1>2, <1>8, <2>1 DEF Grows, W
<1>18. WorkSound(e)
  BY <1>1, <1>6, <1>8, <1>9, <1>10, <1>11, <1>12 DEF WorkSound, B, D, Q
<1>19. <<e.id, bytes>> \in e.rows.id2str
  BY <1>1 DEF x
<1> QED
  BY <1>16, <1>17, <1>18, <1>19 DEF e

\* The ids an encode finds for bytes: in the cache, nowhere if the filter says so, or in the database.
Found(w, bytes, crowded) ==
    IF CachedAs(w.terms, bytes) # {} THEN CachedAs(w.terms, bytes)
    ELSE IF mode = "bulk" /\ filtered /\ bytes \notin w.seen /\ ~crowded THEN {}
    ELSE resolve(bytes)

\* An encode that takes an id: nothing but the cache of a load changes.
Takes(w, e, bytes) ==
    /\ e.next = w.next /\ e.rows = w.rows /\ e.counters = w.counters /\ e.seen = w.seen
    /\ e.terms = IF mode = "bulk" THEN w.terms \cup {<<e.id, bytes>>} ELSE w.terms
    /\ e = [next |-> e.next, counters |-> e.counters, rows |-> e.rows, terms |-> e.terms,
            seen |-> e.seen, id |-> e.id]

\* An encode of bytes takes an id it finds, or a new one if it finds none.
LEMMA EncodeBytesIs ==
    ASSUME NEW w \in WorkSet, NEW bytes, NEW crowded, NEW e, e = EncodeBytes(w, bytes, crowded)
    PROVE  \/ Found(w, bytes, crowded) = {} /\ e = allocate(w, bytes)
           \/ e.id \in Found(w, bytes, crowded) /\ Takes(w, e, bytes)
<1> DEFINE f == Found(w, bytes, crowded)
           i == CHOOSE j \in f : TRUE
<1>1. e = IF f = {} THEN allocate(w, bytes)
          ELSE [w EXCEPT !.id = i, !.terms = IF mode = "bulk" THEN @ \cup {<<i, bytes>>} ELSE @]
  BY ZenonT(40) DEF EncodeBytes, Found
<1> HIDE DEF f
<1>2. CASE f = {}
  BY <1>1, <1>2 DEF f
<1>3. CASE f # {}
  <2>1. i \in f
    BY <1>3
  <2> HIDE DEF i
  <2>2. e = [w EXCEPT !.id = i, !.terms = IF mode = "bulk" THEN @ \cup {<<i, bytes>>} ELSE @]
    BY <1>1, <1>3
  <2>3. /\ e.id = i /\ e.next = w.next /\ e.rows = w.rows /\ e.counters = w.counters /\ e.seen = w.seen
        /\ e.terms = IF mode = "bulk" THEN w.terms \cup {<<i, bytes>>} ELSE w.terms
    BY <2>2 DEF WorkSet
  <2>4. e = [next |-> e.next, counters |-> e.counters, rows |-> e.rows, terms |-> e.terms,
             seen |-> e.seen, id |-> e.id]
    BY <2>2 DEF WorkSet
  <2> QED
    BY <2>1, <2>3, <2>4 DEF f, Takes
<1> QED
  BY <1>2, <1>3

\* What an encode finds has a row with those bytes.
LEMMA FoundSound ==
    ASSUME Typed, StoredSound, NEW w \in WorkSet, WorkSound(w), NEW bytes \in Bytes, NEW crowded,
           NEW i \in Found(w, bytes, crowded)
    PROVE  <<i, bytes>> \in AllRows(w.rows)
<1>1. i \in CachedAs(w.terms, bytes) \/ i \in resolve(bytes)
  BY DEF Found
<1>2. CASE i \in CachedAs(w.terms, bytes)
  <2>1. w.terms \subseteq Row
    BY WorkFields
  <2>2. <<i, bytes>> \in w.terms
    BY <1>2, <2>1, CachedAsIs
  <2> QED
    BY <2>2 DEF WorkSound
<1>3. CASE i \in resolve(bytes)
  BY <1>3, ResolveSound DEF AllRows
<1> QED
  BY <1>1, <1>2, <1>3

\* The encode of one leaf, or of a triple term whose parts have been encoded.
LEMMA EncodeBytesSound ==
    ASSUME Typed, StoredSound, NEW w \in WorkSet, WorkSound(w), NEW bytes \in Bytes,
           PartsIn(bytes, AllRows(w.rows)), NEW crowded
    PROVE  LET e == EncodeBytes(w, bytes, crowded)
           IN  /\ e \in WorkSet /\ WorkSound(e) /\ Grows(w, e)
               /\ <<e.id, bytes>> \in AllRows(e.rows)
<1> SUFFICES ASSUME NEW e, e = EncodeBytes(w, bytes, crowded)
             PROVE  e \in WorkSet /\ WorkSound(e) /\ Grows(w, e) /\ <<e.id, bytes>> \in AllRows(e.rows)
  BY Zenon
<1>0. \/ Found(w, bytes, crowded) = {} /\ e = allocate(w, bytes)
      \/ e.id \in Found(w, bytes, crowded) /\ Takes(w, e, bytes)
  BY EncodeBytesIs
<1>1. CASE e = allocate(w, bytes)
  BY <1>1, AllocateSound DEF AllRows
<1>2. CASE e # allocate(w, bytes)
  <2>1. /\ e.id \in Found(w, bytes, crowded)
        /\ e.next = w.next /\ e.rows = w.rows /\ e.counters = w.counters /\ e.seen = w.seen
        /\ e.terms = IF mode = "bulk" THEN w.terms \cup {<<e.id, bytes>>} ELSE w.terms
        /\ e = [next |-> e.next, counters |-> e.counters, rows |-> e.rows, terms |-> e.terms,
                seen |-> e.seen, id |-> e.id]
    BY <1>0, <1>2 DEF Takes
  <2>2. <<e.id, bytes>> \in AllRows(w.rows)
    BY <2>1, FoundSound
  <2>3. AllRows(w.rows) \subseteq Row
    BY WorkFields DEF AllRows, Typed, RowSet
  <2>4. e.terms \subseteq AllRows(w.rows)
    BY <2>1, <2>2 DEF WorkSound
  <2>5. e.id \in Ids
    <3> DEFINE y == <<e.id, bytes>>
    <3>1. y \in Row /\ y[1] = e.id
      BY <2>2, <2>3
    <3> HIDE DEF y
    <3> QED
      BY <3>1, RowParts
  <2>6. e \in WorkSet
    <3>1. e.next \in Counts /\ e.counters \in Counts /\ e.rows \in RowSet /\ e.seen \in SUBSET Bytes
      BY <2>1, WorkFields
    <3>2. e.terms \in SUBSET Row
      BY <2>3, <2>4
    <3> QED
      BY <2>1, <2>5, <3>1, <3>2 DEF WorkSet
  <2>7. WorkSound(e)
    BY <2>1, <2>4 DEF WorkSound
  <2>8. Grows(w, e)
    BY <2>1, WorkFields DEF Grows, Counts
  <2> QED
    BY <2>1, <2>2, <2>6, <2>7, <2>8
<1> QED
  BY <1>1, <1>2

\* Growing is transitive.
LEMMA GrowsTwice ==
    ASSUME NEW w \in WorkSet, NEW e \in WorkSet, NEW f \in WorkSet, Grows(w, e), Grows(e, f)
    PROVE  Grows(w, f)
<1>1. \A g \in Tag : /\ w.next[g] \in Nat /\ e.next[g] \in Nat /\ f.next[g] \in Nat
                     /\ w.counters[g] \in Nat /\ e.counters[g] \in Nat /\ f.counters[g] \in Nat
  BY WorkFields DEF Counts
<1>2. \A g \in Tag : w.next[g] <= e.next[g] /\ w.counters[g] <= e.counters[g]
  BY DEF Grows
<1>3. \A g \in Tag : e.next[g] <= f.next[g] /\ e.counters[g] <= f.counters[g]
  BY DEF Grows
<1>4. \A g \in Tag : w.next[g] <= f.next[g] /\ w.counters[g] <= f.counters[g]
  BY <1>1, <1>2, <1>3
<1>5. ASSUME NEW x \in f.rows.id2str \ w.rows.id2str PROVE x[1][2] >= w.next[x[1][1]]
  <2>1. x \in Row
    BY WorkFields
  <2>2. x[1][2] \in Nat /\ x[1][1] \in Tag
    BY <2>1, RowParts
  <2>3. x[1][2] >= w.next[x[1][1]] \/ x[1][2] >= e.next[x[1][1]]
    BY DEF Grows
  <2> QED
    BY <1>1, <1>2, <2>2, <2>3
<1>6. w.rows.id2str \subseteq f.rows.id2str
  BY DEF Grows
<1> QED
  BY <1>4, <1>5, <1>6 DEF Grows

\* The state an encode starts from.
LEMMA WorkType ==
    ASSUME Typed
    PROVE  /\ Work \in WorkSet /\ Work.next = next /\ Work.rows = rows /\ Work.counters = counters
           /\ Work.terms = terms /\ Work.seen = seen
<1>1. <<"leaf", 0>> \in Ids
  BY DEF Ids, Tag
<1> QED
  BY <1>1 DEF Work, WorkSet, Typed

\* The bytes of a leaf, and of a triple term with known parts.
LEMMA LeafBytesType ==
    ASSUME NEW t \in Leaf, NEW A
    PROVE  LeafBytes(t) \in Bytes /\ PartsIn(LeafBytes(t), A) /\ TagOf(LeafBytes(t)) = "leaf"
  BY DEF LeafBytes, Bytes, PartsIn, TagOf

\* The bytes of a triple term.
LEMMA TripleBytesType ==
    ASSUME NEW i \in Ids, NEW j \in Ids, NEW k \in Ids
    PROVE  /\ TripleBytes(<<i, j, k>>) \in Bytes /\ TagOf(TripleBytes(<<i, j, k>>)) = "triple"
           /\ TripleBytes(<<i, j, k>>)[2][1] = i /\ TripleBytes(<<i, j, k>>)[2][2] = j
           /\ TripleBytes(<<i, j, k>>)[2][3] = k
  BY DEF TripleBytes, Bytes, TagOf

\* The parts of a triple term are leaves.
LEMMA PartsType ==
    ASSUME NEW t \in Triple
    PROVE  t \notin Leaf /\ \A k \in 1..3 : Parts[t][k] \in Leaf
  BY TermAssumption

\* The four encodes of a triple term, one after the other.
LEMMA EncodePartsSound ==
    ASSUME Typed, StoredSound, WorkSound(Work), NEW t \in Triple, NEW crowded,
           NEW s, s = EncodeBytes(Work, LeafBytes(Parts[t][1]), crowded),
           NEW p, p = EncodeBytes(s, LeafBytes(Parts[t][2]), crowded),
           NEW o, o = EncodeBytes(p, LeafBytes(Parts[t][3]), crowded),
           NEW b, b = TripleBytes(<<s.id, p.id, o.id>>)
    PROVE  /\ s \in WorkSet /\ WorkSound(s) /\ Grows(Work, s)
           /\ p \in WorkSet /\ WorkSound(p) /\ Grows(s, p)
           /\ o \in WorkSet /\ WorkSound(o) /\ Grows(p, o)
           /\ b \in Bytes /\ TagOf(b) = "triple" /\ PartsIn(b, AllRows(o.rows))
           /\ Means(AllRows(o.rows), b, t)
<1> DEFINE b1 == LeafBytes(Parts[t][1])
           b2 == LeafBytes(Parts[t][2])
           b3 == LeafBytes(Parts[t][3])
<1>1. Parts[t][1] \in Leaf /\ Parts[t][2] \in Leaf /\ Parts[t][3] \in Leaf
  BY PartsType
<1>2. /\ b1 \in Bytes /\ \A A : PartsIn(b1, A)
      /\ b2 \in Bytes /\ \A A : PartsIn(b2, A)
      /\ b3 \in Bytes /\ \A A : PartsIn(b3, A)
  BY <1>1, LeafBytesType
<1>3. Work \in WorkSet
  BY WorkType
<1> HIDE DEF b1, b2, b3
<1>4. s \in WorkSet /\ WorkSound(s) /\ Grows(Work, s) /\ <<s.id, b1>> \in AllRows(s.rows)
  BY <1>2, <1>3, EncodeBytesSound DEF b1
<1>5. p \in WorkSet /\ WorkSound(p) /\ Grows(s, p) /\ <<p.id, b2>> \in AllRows(p.rows)
  BY <1>2, <1>4, EncodeBytesSound DEF b2
<1>6. o \in WorkSet /\ WorkSound(o) /\ Grows(p, o) /\ <<o.id, b3>> \in AllRows(o.rows)
  BY <1>2, <1>5, EncodeBytesSound DEF b3
<1>7. AllRows(s.rows) \subseteq AllRows(p.rows) /\ AllRows(p.rows) \subseteq AllRows(o.rows)
  BY <1>5, <1>6 DEF Grows, AllRows
<1>8. <<s.id, b1>> \in AllRows(o.rows) /\ <<p.id, b2>> \in AllRows(o.rows) /\ <<o.id, b3>> \in AllRows(o.rows)
  BY <1>4, <1>5, <1>6, <1>7
<1>9. s.id \in Ids /\ p.id \in Ids /\ o.id \in Ids
  BY <1>4, <1>5, <1>6, WorkFields
<1>10. b \in Bytes /\ TagOf(b) = "triple" /\ b[2][1] = s.id /\ b[2][2] = p.id /\ b[2][3] = o.id
  BY <1>9, TripleBytesType
<1>11. \A k \in 1..3 : <<b[2][k], LeafBytes(Parts[t][k])>> \in AllRows(o.rows)
  <2> SUFFICES ASSUME NEW k \in 1..3 PROVE <<b[2][k], LeafBytes(Parts[t][k])>> \in AllRows(o.rows)
    OBVIOUS
  <2>1. k = 1 \/ k = 2 \/ k = 3
    OBVIOUS
  <2>2. CASE k = 1
    BY <1>8, <1>10, <2>2 DEF b1
  <2>3. CASE k = 2
    BY <1>8, <1>10, <2>3 DEF b2
  <2>4. CASE k = 3
    BY <1>8, <1>10, <2>4 DEF b3
  <2> QED
    BY <2>1, <2>2, <2>3, <2>4
<1>12. PartsIn(b, AllRows(o.rows))
  BY <1>11, PartsType DEF PartsIn
<1>13. Means(AllRows(o.rows), b, t)
  BY <1>10, <1>11, PartsType DEF Means
<1> QED
  BY <1>4, <1>5, <1>6, <1>10, <1>12, <1>13

\* An encode keeps the rows sound, and the id it gives has a row that means the term.
LEMMA EncodeIntoSound ==
    ASSUME Typed, StoredSound, WorkSound(Work), NEW t \in Term, NEW crowded, NEW w, w = encode_into(t, crowded)
    PROVE  /\ w \in WorkSet /\ WorkSound(w) /\ Grows(Work, w)
           /\ \E b \in Bytes : <<w.id, b>> \in AllRows(w.rows) /\ Means(AllRows(w.rows), b, t)
<1>1. CASE t \in Leaf
  <2>1. w = EncodeBytes(Work, LeafBytes(t), crowded)
    BY <1>1 DEF encode_into
  <2>2. LeafBytes(t) \in Bytes /\ PartsIn(LeafBytes(t), AllRows(Work.rows)) /\ Work \in WorkSet
    BY <1>1, LeafBytesType, WorkType
  <2>3. w \in WorkSet /\ WorkSound(w) /\ Grows(Work, w) /\ <<w.id, LeafBytes(t)>> \in AllRows(w.rows)
    BY <2>1, <2>2, EncodeBytesSound
  <2> QED
    BY <1>1, <2>2, <2>3 DEF Means
<1>2. CASE t \in Triple
  <2>1. PICK s : s = EncodeBytes(Work, LeafBytes(Parts[t][1]), crowded)
    OBVIOUS
  <2>2. PICK p : p = EncodeBytes(s, LeafBytes(Parts[t][2]), crowded)
    OBVIOUS
  <2>3. PICK o : o = EncodeBytes(p, LeafBytes(Parts[t][3]), crowded)
    OBVIOUS
  <2>4. PICK b : b = TripleBytes(<<s.id, p.id, o.id>>)
    OBVIOUS
  <2>5. w = EncodeBytes(o, b, crowded)
    BY <1>2, <2>1, <2>2, <2>3, <2>4, PartsType, Zenon DEF encode_into
  <2>6. /\ s \in WorkSet /\ WorkSound(s) /\ Grows(Work, s)
        /\ p \in WorkSet /\ WorkSound(p) /\ Grows(s, p)
        /\ o \in WorkSet /\ WorkSound(o) /\ Grows(p, o)
        /\ b \in Bytes /\ TagOf(b) = "triple" /\ PartsIn(b, AllRows(o.rows))
        /\ Means(AllRows(o.rows), b, t)
    BY <1>2, <2>1, <2>2, <2>3, <2>4, EncodePartsSound, ZenonT(60)
  <2>7. w \in WorkSet /\ WorkSound(w) /\ Grows(o, w) /\ <<w.id, b>> \in AllRows(w.rows)
    BY <2>5, <2>6, EncodeBytesSound
  <2>8. Work \in WorkSet
    BY WorkType
  <2>9. Grows(Work, p)
    BY <2>6, <2>8, GrowsTwice
  <2>10. Grows(Work, o)
    BY <2>6, <2>8, <2>9, GrowsTwice
  <2>11. Grows(Work, w)
    BY <2>6, <2>7, <2>8, <2>10, GrowsTwice
  <2>12. Means(AllRows(w.rows), b, t)
    <3>1. AllRows(o.rows) \subseteq AllRows(w.rows)
      BY <2>7 DEF Grows, AllRows
    <3> QED
      BY <2>6, <3>1 DEF Means
  <2> QED
    BY <2>6, <2>7, <2>11, <2>12
<1> QED
  BY <1>1, <1>2 DEF Term

-----------------------------------------------------------------------------
(* What ids mean                                                           *)

\* Bytes mean one term.
LEMMA MeansOnce ==
    ASSUME NEW A, OneRow(A), NEW b, NEW t \in Term, NEW u \in Term, Means(A, b, t), Means(A, b, u)
    PROVE  t = u
<1>0. \A x \in Leaf, y \in Leaf : LeafBytes(x) = LeafBytes(y) => x = y
  BY DEF LeafBytes
<1>1. \A x \in Leaf : TagOf(LeafBytes(x)) # "triple"
  BY DEF LeafBytes, TagOf
<1>2. CASE t \in Leaf
  <2>1. b = LeafBytes(t) /\ TagOf(b) # "triple"
    BY <1>1, <1>2 DEF Means
  <2>2. u \in Leaf /\ b = LeafBytes(u)
    BY <2>1 DEF Means
  <2> QED
    BY <1>0, <1>2, <2>1, <2>2
<1>3. CASE t \notin Leaf
  <2>1. TagOf(b) = "triple" /\ \A k \in 1..3 : <<b[2][k], LeafBytes(Parts[t][k])>> \in A
    BY <1>3 DEF Means
  <2>2. u \notin Leaf
    BY <1>1, <2>1 DEF Means
  <2>3. \A k \in 1..3 : <<b[2][k], LeafBytes(Parts[u][k])>> \in A
    BY <2>2 DEF Means
  <2>4. t \in Triple /\ u \in Triple
    BY <1>3, <2>2 DEF Term
  <2>5. ASSUME NEW k \in 1..3 PROVE Parts[t][k] = Parts[u][k]
    <3>1. <<b[2][k], LeafBytes(Parts[t][k])>> = <<b[2][k], LeafBytes(Parts[u][k])>>
      BY <2>1, <2>3 DEF OneRow
    <3>2. LeafBytes(Parts[t][k]) = LeafBytes(Parts[u][k])
      BY <3>1
    <3>3. Parts[t][k] \in Leaf /\ Parts[u][k] \in Leaf
      BY <2>4, PartsType
    <3> QED
      BY <1>0, <3>2, <3>3
  <2>6. Parts[t] \in [1..3 -> Leaf] /\ Parts[u] \in [1..3 -> Leaf]
    BY <2>4, TermAssumption
  <2>7. Parts[t] = Parts[u]
    BY <2>5, <2>6
  <2> QED
    BY <2>4, <2>7, TermAssumption
<1> QED
  BY <1>2, <1>3

\* More rows take no meaning away.
LEMMA MeansMore ==
    ASSUME NEW A, NEW B, A \subseteq B, NEW b, NEW t, Means(A, b, t)
    PROVE  Means(B, b, t)
  BY DEF Means

\* Rows whose parts are among them keep their meaning without the others.
LEMMA MeansWithin ==
    ASSUME NEW A, NEW D, D \subseteq A, OneRow(A), NEW b, PartsIn(b, D), NEW t, Means(A, b, t)
    PROVE  Means(D, b, t)
<1>1. CASE t \in Leaf
  BY <1>1 DEF Means
<1>2. CASE t \notin Leaf
  <2>1. TagOf(b) = "triple" /\ \A k \in 1..3 : <<b[2][k], LeafBytes(Parts[t][k])>> \in A
    BY <1>2 DEF Means
  <2>2. ASSUME NEW k \in 1..3 PROVE <<b[2][k], LeafBytes(Parts[t][k])>> \in D
    <3>1. PICK u \in Leaf : <<b[2][k], LeafBytes(u)>> \in D
      BY <2>1 DEF PartsIn
    <3>2. <<b[2][k], LeafBytes(u)>> = <<b[2][k], LeafBytes(Parts[t][k])>>
      BY <2>1, <3>1 DEF OneRow
    <3> QED
      BY <3>1, <3>2
  <2> QED
    BY <1>2, <2>1, <2>2 DEF Means
<1> QED
  BY <1>1, <1>2

\* An encode that gives the id of a row, among rows with ids that no one had.
LEMMA GivenMore ==
    ASSUME NEW G, NEW A, NEW n \in Counts, NEW l, GivenSound(G, A, n, l), G \subseteq Ids \X Term,
           NEW B, A \subseteq B, B \subseteq Row, OneRow(B), NEW m \in Counts,
           \A g \in Tag : n[g] <= m[g],
           \A x \in B \ A : x[1][2] >= n[x[1][1]],
           NEW i, NEW b, <<i, b>> \in B, NEW t \in Term, Means(B, b, t), i[2] < m[i[1]]
    PROVE  GivenSound(G \cup {<<i, t>>}, B, m, l)
<1> DEFINE new == <<i, t>>
           row == <<i, b>>
<1>1. new[1] = i /\ new[2] = t /\ row[1] = i /\ row[2] = b /\ row \in B
  OBVIOUS
<1> HIDE DEF new, row
<1>2. \A x \in G : x[1][2] \in Nat /\ x[1][1] \in Tag /\ x[2] \in Term
  BY DEF Ids
<1>3. \A g \in Tag : n[g] \in Nat /\ m[g] \in Nat
  BY DEF Counts
<1>4. \A x \in G : x[1][2] < n[x[1][1]]
  BY DEF GivenSound
<1>5. \A x \in G : x[1][2] < m[x[1][1]]
  BY <1>2, <1>3, <1>4
<1>6. ASSUME NEW x \in G, NEW y \in B, y[1] = x[1] PROVE y \in A
  <2>1. y \notin A => x[1][2] >= n[x[1][1]]
    BY <1>6
  <2> QED
    BY <1>2, <1>3, <1>4, <2>1
<1>7. ASSUME NEW x \in G, NEW y \in B, y[1] = x[1] PROVE Means(B, y[2], x[2])
  <2>1. Means(A, y[2], x[2])
    BY <1>6, <1>7 DEF GivenSound
  <2> QED
    BY <2>1, MeansMore
<1>8. ASSUME NEW y \in B, y[1] = i PROVE Means(B, y[2], t)
  <2>1. y = row
    BY <1>1, <1>8 DEF OneRow
  <2> QED
    BY <1>1, <2>1
<1>9. ASSUME NEW x \in G, x[1] = i PROVE x[2] = t
  <2>1. Means(B, b, x[2])
    BY <1>1, <1>7, <1>9
  <2> QED
    BY <1>2, <2>1, MeansOnce
<1>10. \A x, y \in G \cup {new} : x[1] = y[1] => x[2] = y[2]
  BY <1>1, <1>9 DEF GivenSound
<1>11. \A x \in G \cup {new} : x[1][2] < m[x[1][1]]
  BY <1>1, <1>5
<1>12. \A x \in G \cup {new}, y \in B : y[1] = x[1] => Means(B, y[2], x[2])
  BY <1>1, <1>7, <1>8
<1>13. \A x \in G \cup {new} : x[1] \notin l => \E y \in B : y[1] = x[1]
  BY <1>1 DEF GivenSound
<1> QED
  BY <1>10, <1>11, <1>12, <1>13 DEF GivenSound, new

\* Rows W that are dropped from A, their ids lost.
LEMMA GivenLost ==
    ASSUME NEW G, NEW A, NEW n, NEW l, GivenSound(G, A, n, l), NEW D, NEW W, A = D \cup W,
           OneRow(A), Closed(D, D)
    PROVE  GivenSound(G, D, n, l \cup {x[1] : x \in W})
<1>1. ASSUME NEW x \in G, NEW y \in D, y[1] = x[1] PROVE Means(D, y[2], x[2])
  <2>1. Means(A, y[2], x[2]) /\ PartsIn(y[2], D)
    BY <1>1 DEF GivenSound, Closed
  <2> QED
    BY <2>1, MeansWithin
<1>2. ASSUME NEW x \in G, x[1] \notin l \cup {z[1] : z \in W} PROVE \E y \in D : y[1] = x[1]
  <2>1. PICK y \in A : y[1] = x[1]
    BY <1>2 DEF GivenSound
  <2> QED
    BY <1>2, <2>1
<1> QED
  BY <1>1, <1>2 DEF GivenSound

\* After a crash only rows D count, and who held other ids is gone.
LEMMA GivenAfterCrash ==
    ASSUME NEW G, NEW A, NEW n, NEW l, GivenSound(G, A, n, l), NEW D, D \subseteq A,
           OneRow(A), Closed(D, D), NEW m, Below(D, m)
    PROVE  GivenSound({g \in G : g[1] \in {x[1] : x \in D}}, D, m, {})
<1> DEFINE H == {g \in G : g[1] \in {x[1] : x \in D}}
<1>1. ASSUME NEW x \in G, NEW y \in D, y[1] = x[1] PROVE Means(D, y[2], x[2])
  <2>1. Means(A, y[2], x[2]) /\ PartsIn(y[2], D)
    BY <1>1 DEF GivenSound, Closed
  <2> QED
    BY <2>1, MeansWithin
<1>2. ASSUME NEW x \in H PROVE x \in G /\ x[1][2] < m[x[1][1]] /\ \E y \in D : y[1] = x[1]
  BY DEF Below
<1> QED
  BY <1>1, <1>2 DEF GivenSound

-----------------------------------------------------------------------------
(* Rows on their way into the database                                     *)

\* The rows D and lists S of the database, F and T of the window in flight, W and R of the
\* window or scope being filled tell the truth.
Truthful(D, S, F, T, W, R) ==
    /\ OneRow(D \cup F \cup W)
    /\ Closed(D, D) /\ Closed(F, D \cup F) /\ Closed(W, D \cup F \cup W)
    /\ Listed(S, D) /\ Listed(T, D \cup F) /\ Listed(R, D \cup W)

\* Rows written over others: none is lost, and the lists are the old ones or the new ones.
LEMMA OverRows ==
    ASSUME NEW r, NEW new, OneRow(r.id2str \cup new.id2str)
    PROVE  /\ Over(r, new).id2str = r.id2str \cup new.id2str
           /\ Over(r, new).str2id \subseteq r.str2id \cup new.str2id
           /\ Over(r, new) = [id2str |-> Over(r, new).id2str, str2id |-> Over(r, new).str2id]
<1>1. Over(r, new).id2str = {x \in r.id2str : \A y \in new.id2str : y[1] # x[1]} \cup new.id2str
  BY DEF Over
<1>2. \A x \in r.id2str, y \in new.id2str : y[1] = x[1] => x = y
  BY DEF OneRow
<1>3. Over(r, new).id2str = r.id2str \cup new.id2str
  BY <1>1, <1>2
<1>4. Over(r, new).str2id \subseteq r.str2id \cup new.str2id
  BY DEF Over
<1>5. Over(r, new) = [id2str |-> Over(r, new).id2str, str2id |-> Over(r, new).str2id]
  BY DEF Over
<1> QED
  BY <1>3, <1>4, <1>5

\* Rows written over those of the database.
LEMMA StoredRows ==
    ASSUME NEW new, NEW n, OneRow(db.id2str \cup new.id2str)
    PROVE  /\ Stored(new, n).id2str = db.id2str \cup new.id2str
           /\ Stored(new, n).str2id \subseteq db.str2id \cup new.str2id
           /\ Stored(new, n).str2id = {e \in db.str2id : \A f \in new.str2id : f[1] # e[1]} \cup new.str2id
           /\ Stored(new, n).next = n
           /\ Stored(new, n) = [id2str |-> Stored(new, n).id2str, str2id |-> Stored(new, n).str2id, next |-> n]
<1> DEFINE r == [id2str |-> db.id2str, str2id |-> db.str2id]
<1>1. r.id2str = db.id2str /\ r.str2id = db.str2id
  OBVIOUS
<1>2. /\ Stored(new, n).id2str = Over(r, new).id2str /\ Stored(new, n).str2id = Over(r, new).str2id
      /\ Stored(new, n).next = n
      /\ Stored(new, n) = [id2str |-> Stored(new, n).id2str, str2id |-> Stored(new, n).str2id, next |-> n]
  BY DEF Stored
<1>3. Over(r, new).str2id = {e \in db.str2id : \A f \in new.str2id : f[1] # e[1]} \cup new.str2id
  BY DEF Over
<1> HIDE DEF r
<1>4. Over(r, new).id2str = r.id2str \cup new.id2str
  BY <1>1, OverRows
<1> QED
  BY <1>1, <1>2, <1>3, <1>4

\* Fewer rows.
LEMMA OneRowFewer ==
    ASSUME NEW A, NEW B, OneRow(A), B \subseteq A
    PROVE  OneRow(B)
  BY DEF OneRow

\* The window in flight is taken in.
LEMMA TruthfulTaken ==
    ASSUME NEW D, NEW S, NEW F, NEW T, NEW W, NEW R, Truthful(D, S, F, T, W, R), NEW Q, Q \subseteq S \cup T
    PROVE  Truthful(D \cup F, Q, {}, {}, W, R)
<1> DEFINE DF == D \cup F
           A == D \cup F \cup W
           DW == D \cup W
<1>1. /\ OneRow(A) /\ Closed(D, D) /\ Closed(F, DF) /\ Closed(W, A)
      /\ Listed(S, D) /\ Listed(T, DF) /\ Listed(R, DW)
  BY DEF Truthful
<1>2. D \subseteq DF /\ DF \subseteq A /\ DW \subseteq A
  OBVIOUS
<1>3. DF \cup {} \cup W = A /\ DF \cup W = A /\ DF \cup {} = DF
  OBVIOUS
<1>4. \A x \in DF : x \in D \/ x \in F
  OBVIOUS
<1> HIDE DEF DF, A, DW
<1>5. Closed(D, DF)
  BY <1>1, <1>2, ClosedGrows
<1>6. Closed(DF, DF)
  BY <1>1, <1>4, <1>5 DEF Closed
<1>7. Listed(Q, DF)
  BY <1>1, <1>2 DEF Listed
<1>8. Listed(R, A)
  BY <1>1, <1>2, ListedGrows
<1>9. Closed({}, DF) /\ Listed({}, DF)
  BY DEF Closed, Listed
<1> QED
  BY <1>1, <1>3, <1>6, <1>7, <1>8, <1>9 DEF Truthful, DF

\* A full window is handed over.
LEMMA TruthfulHanded ==
    ASSUME NEW D, NEW S, NEW W, NEW R, Truthful(D, S, {}, {}, W, R)
    PROVE  Truthful(D, S, W, R, {}, {})
<1>1. D \cup {} \cup W = D \cup W /\ D \cup W \cup {} = D \cup W
  OBVIOUS
<1>2. Closed({}, D \cup W) /\ Listed({}, D \cup {})
  BY DEF Closed, Listed
<1> QED
  BY <1>1, <1>2 DEF Truthful

\* What is held back is dropped.
LEMMA TruthfulDropped ==
    ASSUME NEW D, NEW S, NEW F, NEW T, NEW W, NEW R, Truthful(D, S, F, T, W, R)
    PROVE  Truthful(D, S, F, T, {}, {})
<1>1. OneRow(D \cup F \cup {})
  BY DEF Truthful, OneRow
<1>2. Closed({}, D \cup F \cup {}) /\ Listed({}, D \cup {})
  BY DEF Closed, Listed
<1> QED
  BY <1>1, <1>2 DEF Truthful

\* A window in flight and the one behind it, as one.
LEMMA TruthfulJoined ==
    ASSUME NEW D, NEW S, NEW F, NEW T, NEW W, NEW R, Truthful(D, S, F, T, W, R), NEW Q, Q \subseteq T \cup R
    PROVE  Truthful(D, S, F \cup W, Q, {}, {})
<1> DEFINE DF == D \cup F
           A == D \cup F \cup W
           DW == D \cup W
           FW == F \cup W
<1>1. /\ OneRow(A) /\ Closed(D, D) /\ Closed(F, DF) /\ Closed(W, A)
      /\ Listed(S, D) /\ Listed(T, DF) /\ Listed(R, DW)
  BY DEF Truthful
<1>2. DF \subseteq A /\ DW \subseteq A /\ D \cup FW = A /\ D \cup FW \cup {} = A
  OBVIOUS
<1>3. \A x \in FW : x \in F \/ x \in W
  OBVIOUS
<1> HIDE DEF DF, A, DW, FW
<1>4. Closed(F, A)
  BY <1>1, <1>2, ClosedGrows
<1>5. Closed(FW, A)
  BY <1>1, <1>3, <1>4 DEF Closed
<1>6. Listed(Q, A)
  BY <1>1, <1>2 DEF Listed
<1>7. Closed({}, A) /\ Listed({}, D \cup {})
  BY DEF Closed, Listed
<1> QED
  BY <1>1, <1>2, <1>5, <1>6, <1>7 DEF Truthful, FW

\* A working state that is sound.
LEMMA TruthfulWork ==
    ASSUME StoredSound, NEW w, WorkSound(w)
    PROVE  Truthful(db.id2str, db.str2id, flight.id2str, flight.str2id, w.rows.id2str, w.rows.str2id)
  BY DEF StoredSound, WorkSound, Truthful, AllRows

-----------------------------------------------------------------------------
(* Every step keeps the rows sound                                         *)

\* No rows.
LEMMA NoRowsType ==
    NoRows.id2str = {} /\ NoRows.str2id = {} /\ NoRows \in RowSet
  BY DEF NoRows, RowSet

\* The database after a batch or an ingestion.
LEMMA StoredType ==
    ASSUME Typed, NEW new \in RowSet, NEW n \in Counts, OneRow(db.id2str \cup new.id2str)
    PROVE  Stored(new, n) \in [id2str : SUBSET Row, str2id : SUBSET (Key \X Ids), next : Counts]
<1> DEFINE d == Stored(new, n)
<1>1. /\ d.id2str = db.id2str \cup new.id2str /\ d.str2id \subseteq db.str2id \cup new.str2id
      /\ d = [id2str |-> d.id2str, str2id |-> d.str2id, next |-> n]
  BY StoredRows
<1>2. db.id2str \subseteq Row /\ db.str2id \subseteq Key \X Ids
  BY DEF Typed
<1>3. new.id2str \subseteq Row /\ new.str2id \subseteq Key \X Ids
  BY DEF RowSet
<1> HIDE DEF d
<1>4. d.id2str \in SUBSET Row /\ d.str2id \in SUBSET (Key \X Ids)
  BY <1>1, <1>2, <1>3
<1>5. d \in [id2str : SUBSET Row, str2id : SUBSET (Key \X Ids), next : Counts]
  BY <1>1, <1>4
<1> QED
  BY <1>5 DEF d

\* What is to be shown of the state after a step.
LEMMA SoundAfter ==
    ASSUME Typed',
           Truthful(db.id2str, db.str2id, flight.id2str, flight.str2id, rows.id2str, rows.str2id)',
           Below(AllRows(rows), counters)', \A g \in Tag : counters'[g] <= next'[g],
           terms' \subseteq AllRows(rows)', ModeSound', GivenSound(given, AllRows(rows), next, lost)'
    PROVE  Sound'
<1>1. StoredSound'
  BY DEF StoredSound, Truthful
<1>2. WorkSound(Work)'
  BY DEF WorkSound, Truthful, Work, AllRows
<1> QED
  BY <1>1, <1>2 DEF Sound

\* The facts about the present state that the steps below start from.
LEMMA SoundNow ==
    ASSUME Sound
    PROVE  /\ Typed /\ StoredSound /\ WorkSound(Work) /\ ModeSound
           /\ GivenSound(given, AllRows(rows), next, lost)
           /\ Truthful(db.id2str, db.str2id, flight.id2str, flight.str2id, rows.id2str, rows.str2id)
           /\ Below(AllRows(rows), counters) /\ OneRow(AllRows(rows)) /\ Closed(db.id2str, db.id2str)
           /\ terms \subseteq AllRows(rows) /\ AllRows(rows) \subseteq Row
           /\ \A g \in Tag : counters[g] <= next[g]
<1>1. Typed /\ StoredSound /\ WorkSound(Work) /\ ModeSound /\ GivenSound(given, AllRows(rows), next, lost)
  BY DEF Sound
<1>2. /\ Below(AllRows(rows), counters) /\ OneRow(AllRows(rows)) /\ terms \subseteq AllRows(rows)
      /\ \A g \in Tag : counters[g] <= next[g]
  BY <1>1, WorkType DEF WorkSound
<1>3. Truthful(db.id2str, db.str2id, flight.id2str, flight.str2id, rows.id2str, rows.str2id)
  BY <1>1, WorkType, TruthfulWork
<1>4. Closed(db.id2str, db.id2str)
  BY <1>1 DEF StoredSound
<1>5. AllRows(rows) \subseteq Row
  BY <1>1 DEF AllRows, Typed, RowSet
<1> QED
  BY <1>1, <1>2, <1>3, <1>4, <1>5

\* The facts about the result of an encode that the steps below need.
LEMMA EncodeNow ==
    ASSUME Sound, NEW t \in Term, NEW crowded, NEW w, w = encode_into(t, crowded)
    PROVE  /\ w \in WorkSet /\ w.rows \in RowSet /\ w.next \in Counts /\ w.counters \in Counts
           /\ w.terms \in SUBSET Row /\ w.seen \in SUBSET Bytes /\ w.id \in Ids
           /\ Truthful(db.id2str, db.str2id, flight.id2str, flight.str2id, w.rows.id2str, w.rows.str2id)
           /\ Below(AllRows(w.rows), w.counters) /\ OneRow(AllRows(w.rows))
           /\ w.terms \subseteq AllRows(w.rows) /\ AllRows(w.rows) \subseteq Row
           /\ \A g \in Tag : w.counters[g] <= w.next[g] /\ next[g] <= w.next[g] /\ counters[g] <= w.counters[g]
           /\ GivenSound(given \cup {<<w.id, t>>}, AllRows(w.rows), w.next, lost)
           /\ given \cup {<<w.id, t>>} \in SUBSET (Ids \X Term)
<1>1. Typed /\ StoredSound /\ WorkSound(Work) /\ GivenSound(given, AllRows(rows), next, lost)
  BY SoundNow
<1>2. w \in WorkSet /\ WorkSound(w) /\ Grows(Work, w)
  BY <1>1, EncodeIntoSound
<1>3. PICK b \in Bytes : <<w.id, b>> \in AllRows(w.rows) /\ Means(AllRows(w.rows), b, t)
  BY <1>1, EncodeIntoSound
<1>4. /\ w.rows \in RowSet /\ w.next \in Counts /\ w.counters \in Counts
      /\ w.terms \in SUBSET Row /\ w.seen \in SUBSET Bytes /\ w.id \in Ids
  BY <1>2, WorkFields
<1>5. /\ Below(AllRows(w.rows), w.counters) /\ OneRow(AllRows(w.rows)) /\ w.terms \subseteq AllRows(w.rows)
      /\ \A g \in Tag : w.counters[g] <= w.next[g]
  BY <1>2 DEF WorkSound
<1>6. AllRows(w.rows) \subseteq Row
  BY <1>1, <1>4 DEF AllRows, Typed, RowSet
<1>7. Truthful(db.id2str, db.str2id, flight.id2str, flight.str2id, w.rows.id2str, w.rows.str2id)
  BY <1>1, <1>2, TruthfulWork
<1>8. /\ rows.id2str \subseteq w.rows.id2str
      /\ \A g \in Tag : next[g] <= w.next[g] /\ counters[g] <= w.counters[g]
      /\ \A x \in w.rows.id2str \ rows.id2str : x[1][2] >= next[x[1][1]]
  BY <1>1, <1>2, WorkType DEF Grows
<1>9. given \subseteq Ids \X Term /\ next \in Counts
  BY <1>1 DEF Typed
<1>10. given \cup {<<w.id, t>>} \in SUBSET (Ids \X Term)
  BY <1>4, <1>9
<1> DEFINE A == AllRows(rows)
           B == AllRows(w.rows)
           i == w.id
           m == w.next
<1>11. /\ A \subseteq B /\ B \subseteq Row /\ OneRow(B) /\ GivenSound(given, A, next, lost)
       /\ \A x \in B \ A : x[1][2] >= next[x[1][1]]
       /\ m \in Counts /\ <<i, b>> \in B /\ Means(B, b, t) /\ \A g \in Tag : next[g] <= m[g]
  BY <1>1, <1>3, <1>4, <1>5, <1>6, <1>8 DEF AllRows
<1>12. i[2] < m[i[1]]
  <2> DEFINE y == <<i, b>>
  <2>1. y[1] = i /\ y \in B /\ y \in Row /\ y[1][2] < w.counters[y[1][1]]
    BY <1>5, <1>11 DEF Below
  <2> HIDE DEF y, i, m, B
  <2>2. i[1] \in Tag /\ i[2] \in Nat /\ i[2] < w.counters[i[1]]
    BY <2>1, RowParts
  <2>3. w.counters[i[1]] <= m[i[1]] /\ w.counters[i[1]] \in Nat /\ m[i[1]] \in Nat
    BY <1>4, <1>5, <2>2 DEF m, Counts
  <2> QED
    BY <2>2, <2>3
<1>13. GivenSound(given \cup {<<i, t>>}, B, m, lost)
  <2> HIDE DEF A, B, i, m
  <2> QED
    BY <1>9, <1>11, <1>12, GivenMore
<1> QED
  BY <1>2, <1>4, <1>5, <1>6, <1>7, <1>8, <1>10, <1>13

\* An encode outside a scope whose batch is written.
LEMMA EncodePlainSound ==
    ASSUME Sound, NEW t \in Term, EncodePlain(t)
    PROVE  Sound'
<1>1. PICK w : w = encode_into(t, FALSE)
  OBVIOUS
<1>2. /\ mode = "plain" /\ next' = w.next /\ db' = Stored(w.rows, w.counters) /\ counters' = w.counters
      /\ given' = given \cup {<<w.id, t>>}
      /\ UNCHANGED <<mode, rows, terms, seen, filtered, flight, issued, lost>>
  BY <1>1 DEF EncodePlain, Given, load
<1>3. /\ Typed /\ ModeSound /\ terms \subseteq AllRows(rows)
  BY SoundNow
<1>4. flight = NoRows /\ rows = NoRows
  BY <1>2, <1>3 DEF ModeSound
<1>5. /\ w.rows \in RowSet /\ w.next \in Counts /\ w.counters \in Counts
      /\ Truthful(db.id2str, db.str2id, flight.id2str, flight.str2id, w.rows.id2str, w.rows.str2id)
      /\ Below(AllRows(w.rows), w.counters) /\ OneRow(AllRows(w.rows))
      /\ \A g \in Tag : w.counters[g] <= w.next[g]
      /\ GivenSound(given \cup {<<w.id, t>>}, AllRows(w.rows), w.next, lost)
      /\ given \cup {<<w.id, t>>} \in SUBSET (Ids \X Term)
  BY <1>1, EncodeNow
<1> DEFINE D == db.id2str
           W == w.rows.id2str
<1>6. AllRows(w.rows) = D \cup W
  BY <1>4, NoRowsType DEF AllRows
<1>7. OneRow(D \cup W)
  BY <1>5, <1>6
<1>8. db'.id2str = D \cup W /\ db'.str2id \subseteq db.str2id \cup w.rows.str2id /\ db'.next = w.counters
  BY <1>2, <1>7, StoredRows
<1>9. db' \in [id2str : SUBSET Row, str2id : SUBSET (Key \X Ids), next : Counts]
  BY <1>2, <1>3, <1>5, <1>7, StoredType
<1>10. Typed'
  BY <1>2, <1>3, <1>5, <1>9 DEF Typed
<1>11. Truthful(D \cup W, db'.str2id, {}, {}, {}, {})
  <2>1. Truthful(D, db.str2id, {}, {}, W, w.rows.str2id)
    BY <1>4, <1>5, NoRowsType
  <2>2. Truthful(D, db.str2id, W, w.rows.str2id, {}, {})
    BY <2>1, TruthfulHanded
  <2> QED
    BY <1>8, <2>2, TruthfulTaken
<1>12. Truthful(db.id2str, db.str2id, flight.id2str, flight.str2id, rows.id2str, rows.str2id)'
  BY <1>2, <1>4, <1>8, <1>11, NoRowsType
<1>13. AllRows(rows)' = D \cup W
  BY <1>2, <1>4, <1>8, NoRowsType DEF AllRows
<1>14. Below(AllRows(rows), counters)' /\ GivenSound(given, AllRows(rows), next, lost)'
  BY <1>2, <1>5, <1>6, <1>13
<1>15. \A g \in Tag : counters'[g] <= next'[g]
  BY <1>2, <1>5
<1>16. terms' \subseteq AllRows(rows)'
  BY <1>2, <1>3, <1>4, <1>13, NoRowsType DEF AllRows
<1>17. ModeSound'
  <2>1. Below(db.id2str, db.next)'
    BY <1>5, <1>6, <1>8
  <2>2. \A g \in Tag : db'.next[g] <= counters'[g]
    BY <1>2, <1>5, <1>8 DEF Counts
  <2> QED
    BY <1>2, <1>4, <1>8, <2>1, <2>2 DEF ModeSound
<1> QED
  BY <1>10, <1>12, <1>14, <1>15, <1>16, <1>17, SoundAfter

\* A batch that is refused moves the counters in memory, nothing else.
LEMMA EncodePlainFailsSound ==
    ASSUME Sound, NEW t \in Term, EncodePlainFails(t)
    PROVE  Sound'
<1>1. PICK w : w = encode_into(t, FALSE)
  OBVIOUS
<1>2. /\ next' = w.next
      /\ UNCHANGED <<db, mode, rows, counters, terms, seen, filtered, flight, issued, given, lost>>
  BY <1>1 DEF EncodePlainFails, load, held
<1>3. /\ Typed /\ ModeSound /\ terms \subseteq AllRows(rows) /\ Below(AllRows(rows), counters)
      /\ GivenSound(given, AllRows(rows), next, lost) /\ \A g \in Tag : counters[g] <= next[g]
      /\ Truthful(db.id2str, db.str2id, flight.id2str, flight.str2id, rows.id2str, rows.str2id)
  BY SoundNow
<1>4. w.next \in Counts /\ \A g \in Tag : next[g] <= w.next[g]
  BY <1>1, EncodeNow
<1>5. Typed'
  BY <1>2, <1>3, <1>4 DEF Typed
<1>6. AllRows(rows)' = AllRows(rows)
  BY <1>2 DEF AllRows
<1>7. \A g \in Tag : counters[g] \in Nat /\ next[g] \in Nat /\ w.next[g] \in Nat
  BY <1>3, <1>4 DEF Typed, Counts
<1>8. \A g \in Tag : counters'[g] <= next'[g]
  BY <1>2, <1>3, <1>4, <1>7
<1>9. \A x \in given : x[1][2] < w.next[x[1][1]]
  <2> SUFFICES ASSUME NEW x \in given PROVE x[1][2] < w.next[x[1][1]]
    OBVIOUS
  <2>1. x[1][1] \in Tag /\ x[1][2] \in Nat
    BY <1>3 DEF Typed, Ids
  <2>2. x[1][2] < next[x[1][1]]
    BY <1>3 DEF GivenSound
  <2> QED
    BY <1>4, <1>7, <2>1, <2>2
<1>10. GivenSound(given, AllRows(rows), w.next, lost)
  BY <1>3, <1>9 DEF GivenSound
<1>11. GivenSound(given, AllRows(rows), next, lost)'
  BY <1>2, <1>6, <1>10
<1>12. ModeSound'
  BY <1>2, <1>3 DEF ModeSound
<1> QED
  BY <1>2, <1>3, <1>5, <1>6, <1>8, <1>11, <1>12, SoundAfter

\* An encode in a scope.
LEMMA EncodeInScopeSound ==
    ASSUME Sound, NEW t \in Term, EncodeInScope(t)
    PROVE  Sound'
<1>1. PICK w : w = encode_into(t, FALSE)
  OBVIOUS
<1>2. /\ mode = "scope" /\ next' = w.next /\ rows' = w.rows /\ counters' = w.counters /\ terms' = w.terms
      /\ given' = given \cup {<<w.id, t>>}
      /\ UNCHANGED <<db, mode, seen, filtered, flight, issued, lost>>
  BY <1>1 DEF EncodeInScope, Given, load
<1>3. Typed /\ ModeSound
  BY SoundNow
<1>4. /\ w.rows \in RowSet /\ w.next \in Counts /\ w.counters \in Counts /\ w.terms \in SUBSET Row
      /\ Truthful(db.id2str, db.str2id, flight.id2str, flight.str2id, w.rows.id2str, w.rows.str2id)
      /\ Below(AllRows(w.rows), w.counters) /\ w.terms \subseteq AllRows(w.rows)
      /\ \A g \in Tag : w.counters[g] <= w.next[g] /\ counters[g] <= w.counters[g]
      /\ GivenSound(given \cup {<<w.id, t>>}, AllRows(w.rows), w.next, lost)
      /\ given \cup {<<w.id, t>>} \in SUBSET (Ids \X Term)
  BY <1>1, EncodeNow
<1>5. Typed'
  BY <1>2, <1>3, <1>4 DEF Typed
<1>6. AllRows(rows)' = AllRows(w.rows)
  BY <1>2 DEF AllRows
<1>7. ModeSound'
  <2>1. \A g \in Tag : db.next[g] \in Nat /\ counters[g] \in Nat /\ w.counters[g] \in Nat /\ db.next[g] <= counters[g]
    BY <1>3, <1>4 DEF Typed, Counts, ModeSound
  <2>2. \A g \in Tag : db.next[g] <= w.counters[g]
    BY <1>4, <2>1
  <2> QED
    BY <1>2, <1>3, <2>2 DEF ModeSound
<1>8. Truthful(db.id2str, db.str2id, flight.id2str, flight.str2id, rows.id2str, rows.str2id)'
  BY <1>2, <1>4
<1>9. Below(AllRows(rows), counters)' /\ GivenSound(given, AllRows(rows), next, lost)' /\ terms' \subseteq AllRows(rows)'
  BY <1>2, <1>4, <1>6
<1>10. \A g \in Tag : counters'[g] <= next'[g]
  BY <1>2, <1>4
<1> QED
  BY <1>5, <1>7, <1>8, <1>9, <1>10, SoundAfter

\* A step that changes the mode, the filter, or nothing.
LEMMA StartsSound ==
    ASSUME Sound, begin \/ start_bulk \/ UNCHANGED dictionary_vars
    PROVE  Sound'
<1>1. /\ UNCHANGED <<db, next, rows, counters, terms, seen, flight, issued, given, lost>>
      /\ \/ mode = "plain" /\ mode' \in {"scope", "bulk"} /\ filtered' \in BOOLEAN
         \/ mode' = mode /\ filtered' = filtered
  <2>1. CASE begin
    BY <2>1, SoundNow DEF begin, held, load, Typed
  <2>2. CASE start_bulk
    BY <2>2 DEF start_bulk, held, Empty
  <2>3. CASE UNCHANGED dictionary_vars
    BY <2>3 DEF dictionary_vars, held, load
  <2> QED
    BY <2>1, <2>2, <2>3
<1>2. /\ Typed /\ ModeSound /\ terms \subseteq AllRows(rows) /\ Below(AllRows(rows), counters)
      /\ GivenSound(given, AllRows(rows), next, lost) /\ \A g \in Tag : counters[g] <= next[g]
      /\ Truthful(db.id2str, db.str2id, flight.id2str, flight.str2id, rows.id2str, rows.str2id)
  BY SoundNow
<1>3. Typed'
  BY <1>1, <1>2 DEF Typed
<1>4. AllRows(rows)' = AllRows(rows)
  BY <1>1 DEF AllRows
<1>5. ModeSound'
  BY <1>1, <1>2 DEF ModeSound
<1> QED
  BY <1>1, <1>2, <1>3, <1>4, <1>5, SoundAfter

\* The rows of a scope go to the database with the counters.
LEMMA CommitSound ==
    ASSUME Sound, commit
    PROVE  Sound'
<1>1. /\ mode = "scope" /\ db' = Stored(rows, counters)
      /\ mode' = "plain" /\ rows' = NoRows /\ counters' = counters /\ terms' = {}
      /\ UNCHANGED <<next, seen, filtered, flight, issued, given, lost>>
  BY DEF commit, Release, load
<1>2. /\ Typed /\ ModeSound /\ Below(AllRows(rows), counters) /\ OneRow(AllRows(rows))
      /\ GivenSound(given, AllRows(rows), next, lost) /\ \A g \in Tag : counters[g] <= next[g]
      /\ Truthful(db.id2str, db.str2id, flight.id2str, flight.str2id, rows.id2str, rows.str2id)
  BY SoundNow
<1>3. flight = NoRows
  BY <1>1, <1>2 DEF ModeSound
<1> DEFINE D == db.id2str
           W == rows.id2str
<1>4. AllRows(rows) = D \cup W
  BY <1>3, NoRowsType DEF AllRows
<1>5. OneRow(D \cup W)
  BY <1>2, <1>4
<1>6. db'.id2str = D \cup W /\ db'.str2id \subseteq db.str2id \cup rows.str2id /\ db'.next = counters
  BY <1>1, <1>5, StoredRows
<1>7. rows \in RowSet /\ counters \in Counts
  BY <1>2 DEF Typed
<1>8. db' \in [id2str : SUBSET Row, str2id : SUBSET (Key \X Ids), next : Counts]
  BY <1>1, <1>2, <1>5, <1>7, StoredType
<1>9. Typed'
  BY <1>1, <1>2, <1>8, NoRowsType DEF Typed
<1>10. Truthful(D \cup W, db'.str2id, {}, {}, {}, {})
  <2>1. Truthful(D, db.str2id, {}, {}, W, rows.str2id)
    BY <1>2, <1>3, NoRowsType
  <2>2. Truthful(D, db.str2id, W, rows.str2id, {}, {})
    BY <2>1, TruthfulHanded
  <2> QED
    BY <1>6, <2>2, TruthfulTaken
<1>11. Truthful(db.id2str, db.str2id, flight.id2str, flight.str2id, rows.id2str, rows.str2id)'
  BY <1>1, <1>3, <1>6, <1>10, NoRowsType
<1>12. AllRows(rows)' = D \cup W
  BY <1>1, <1>3, <1>6, NoRowsType DEF AllRows
<1>13. Below(AllRows(rows), counters)' /\ GivenSound(given, AllRows(rows), next, lost)'
  BY <1>1, <1>2, <1>4, <1>12
<1>14. ModeSound'
  <2>1. Below(db.id2str, db.next)'
    BY <1>2, <1>4, <1>6
  <2>2. \A g \in Tag : db'.next[g] <= counters'[g]
    BY <1>1, <1>6, <1>7 DEF Counts
  <2> QED
    BY <1>1, <1>3, <1>6, <2>1, <2>2 DEF ModeSound
<1> QED
  BY <1>1, <1>2, <1>9, <1>11, <1>13, <1>14, SoundAfter

\* The rows of a scope are dropped; its ids are lost and the counters stay.
LEMMA RollbackSound ==
    ASSUME Sound, rollback
    PROVE  Sound'
<1>1. /\ mode = "scope" /\ mode' = "plain" /\ rows' = NoRows /\ counters' = db.next /\ terms' = {}
      /\ lost' = lost \cup {x[1] : x \in rows.id2str}
      /\ UNCHANGED <<db, next, seen, filtered, flight, issued, given>>
  BY DEF rollback, Release, load
<1>2. /\ Typed /\ ModeSound /\ OneRow(AllRows(rows)) /\ Closed(db.id2str, db.id2str)
      /\ GivenSound(given, AllRows(rows), next, lost) /\ \A g \in Tag : counters[g] <= next[g]
      /\ Truthful(db.id2str, db.str2id, flight.id2str, flight.str2id, rows.id2str, rows.str2id)
  BY SoundNow
<1>3. flight = NoRows /\ Below(db.id2str, db.next)
  BY <1>1, <1>2 DEF ModeSound
<1>4. AllRows(rows) = db.id2str \cup rows.id2str
  BY <1>3, NoRowsType DEF AllRows
<1>5. Typed'
  <2>1. db.next \in Counts
    BY <1>2 DEF Typed
  <2>2. {x[1] : x \in rows.id2str} \subseteq Ids
    BY <1>2, RowParts DEF Typed, RowSet
  <2> QED
    BY <1>1, <1>2, <2>1, <2>2, NoRowsType DEF Typed
<1>6. Truthful(db.id2str, db.str2id, flight.id2str, flight.str2id, rows.id2str, rows.str2id)'
  BY <1>1, <1>2, NoRowsType, TruthfulDropped
<1>7. AllRows(rows)' = db.id2str
  BY <1>1, <1>3, NoRowsType DEF AllRows
<1>8. GivenSound(given, db.id2str, next, lost \cup {x[1] : x \in rows.id2str})
  <2> DEFINE D == db.id2str
             W == rows.id2str
             A == AllRows(rows)
  <2>1. A = D \cup W /\ OneRow(A) /\ Closed(D, D) /\ GivenSound(given, A, next, lost)
    BY <1>2, <1>4
  <2> HIDE DEF D, W, A
  <2>2. GivenSound(given, D, next, lost \cup {x[1] : x \in W})
    BY <2>1, GivenLost
  <2> QED
    BY <2>2 DEF D, W
<1>9. Below(AllRows(rows), counters)' /\ GivenSound(given, AllRows(rows), next, lost)'
  BY <1>1, <1>3, <1>7, <1>8
<1>10. \A g \in Tag : counters'[g] <= next'[g] /\ db'.next[g] <= counters'[g]
  <2>1. \A g \in Tag : db.next[g] \in Nat /\ counters[g] \in Nat /\ next[g] \in Nat /\ db.next[g] <= counters[g]
    BY <1>2 DEF Typed, Counts, ModeSound
  <2> QED
    BY <1>1, <1>2, <2>1
<1>11. ModeSound'
  BY <1>1, <1>3, <1>10 DEF ModeSound
<1> QED
  BY <1>1, <1>5, <1>6, <1>9, <1>10, <1>11, SoundAfter

\* A crash leaves what the database has, and open reads the counters back.
LEMMA CrashSound ==
    ASSUME Sound, CrashAndOpen
    PROVE  Sound'
<1>1. /\ mode # "bulk" /\ mode' = "plain" /\ rows' = NoRows /\ counters' = db.next /\ terms' = {}
      /\ next' = db.next /\ lost' = {} /\ given' = {g \in given : g[1] \in {x[1] : x \in db.id2str}}
      /\ UNCHANGED <<db, seen, filtered, flight, issued>>
  BY DEF CrashAndOpen, Release, load
<1>2. /\ Typed /\ ModeSound /\ OneRow(AllRows(rows)) /\ Closed(db.id2str, db.id2str)
      /\ GivenSound(given, AllRows(rows), next, lost)
      /\ Truthful(db.id2str, db.str2id, flight.id2str, flight.str2id, rows.id2str, rows.str2id)
  BY SoundNow
<1>3. flight = NoRows /\ Below(db.id2str, db.next)
  BY <1>1, <1>2 DEF ModeSound
<1>4. db.next \in Counts
  BY <1>2 DEF Typed
<1>5. Typed'
  BY <1>1, <1>2, <1>4, NoRowsType DEF Typed
<1>6. Truthful(db.id2str, db.str2id, flight.id2str, flight.str2id, rows.id2str, rows.str2id)'
  BY <1>1, <1>2, NoRowsType, TruthfulDropped
<1>7. AllRows(rows)' = db.id2str
  BY <1>1, <1>3, NoRowsType DEF AllRows
<1>8. GivenSound({g \in given : g[1] \in {x[1] : x \in db.id2str}}, db.id2str, db.next, {})
  <2> DEFINE D == db.id2str
             A == AllRows(rows)
             m == db.next
  <2>1. D \subseteq A /\ OneRow(A) /\ Closed(D, D) /\ Below(D, m) /\ GivenSound(given, A, next, lost)
    BY <1>2, <1>3 DEF AllRows
  <2> HIDE DEF D, A, m
  <2>2. GivenSound({g \in given : g[1] \in {x[1] : x \in D}}, D, m, {})
    BY <2>1, GivenAfterCrash
  <2> QED
    BY <2>2 DEF D, m
<1>9. Below(AllRows(rows), counters)' /\ GivenSound(given, AllRows(rows), next, lost)'
  BY <1>1, <1>3, <1>7, <1>8
<1>10. \A g \in Tag : counters'[g] <= next'[g] /\ db'.next[g] <= counters'[g]
  BY <1>1, <1>4 DEF Counts
<1>11. ModeSound'
  BY <1>1, <1>3, <1>10 DEF ModeSound
<1> QED
  BY <1>1, <1>5, <1>6, <1>9, <1>10, <1>11, SoundAfter

\* The window in flight is taken in.
LEMMA TakeInRows ==
    ASSUME Typed, OneRow(db.id2str \cup flight.id2str), NEW cache, TakeIn(cache)
    PROVE  /\ flight # NoRows /\ db'.id2str = db.id2str \cup flight.id2str
           /\ db'.str2id \subseteq db.str2id \cup flight.str2id /\ db'.next = db.next
           /\ db'.str2id = {e \in db.str2id : \A f \in flight.str2id : f[1] # e[1]} \cup flight.str2id
           /\ db' \in [id2str : SUBSET Row, str2id : SUBSET (Key \X Ids), next : Counts]
           /\ terms' \subseteq cache
           /\ \A x \in cache : x[1][2] >= issued[x[1][1]] => x \in terms'
<1>1. flight # NoRows /\ db' = Stored(flight, db.next)
  BY DEF TakeIn
<1>2. PICK hot \in SUBSET {x[2] : x \in cache} : terms' = Kept(cache, hot)
  BY DEF TakeIn
<1>3. flight \in RowSet /\ db.next \in Counts
  BY DEF Typed
<1>4. /\ db'.id2str = db.id2str \cup flight.id2str
      /\ db'.str2id \subseteq db.str2id \cup flight.str2id /\ db'.next = db.next
      /\ db'.str2id = {e \in db.str2id : \A f \in flight.str2id : f[1] # e[1]} \cup flight.str2id
  BY <1>1, StoredRows
<1>5. db' \in [id2str : SUBSET Row, str2id : SUBSET (Key \X Ids), next : Counts]
  BY <1>1, <1>3, StoredType
<1>6. terms' \subseteq cache /\ \A x \in cache : x[1][2] >= issued[x[1][1]] => x \in terms'
  BY <1>2 DEF Kept
<1> QED
  BY <1>1, <1>4, <1>5, <1>6

\* The ways a window moves on with an encode of a load: not at all, taken in, handed over.
WindowStays(w) == UNCHANGED <<db, flight, issued>> /\ rows' = w.rows /\ terms' = w.terms
WindowTaken(w) == TakeIn(w.terms) /\ rows' = w.rows /\ flight' = NoRows /\ UNCHANGED issued
WindowHanded(w) ==
    /\ IF flight = NoRows THEN db' = db /\ terms' = w.terms ELSE TakeIn(w.terms)
    /\ rows' = NoRows /\ flight' = w.rows /\ issued' = w.next

\* An encode of a load, in those terms.
LEMMA EncodeInLoadIs ==
    ASSUME NEW t, EncodeInLoad(t)
    PROVE  \E crowded \in BOOLEAN : \E w :
               /\ w = encode_into(t, crowded)
               /\ mode = "bulk" /\ (CollisionsInFlight \/ ~CollidesInFlight(t))
               /\ next' = w.next /\ counters' = w.counters /\ seen' = w.seen
               /\ given' = given \cup {<<w.id, t>>} /\ UNCHANGED <<mode, filtered, lost>>
               /\ WindowStays(w) \/ WindowTaken(w) \/ WindowHanded(w)
<1>1. PICK crowded \in BOOLEAN :
          LET w == encode_into(t, crowded)
          IN  /\ next' = w.next /\ counters' = w.counters /\ seen' = w.seen /\ Given(w.id, t)
              /\ \/ /\ UNCHANGED <<db, flight, issued>>
                    /\ rows' = w.rows /\ terms' = w.terms
                 \/ /\ TakeIn(w.terms)
                    /\ rows' = w.rows /\ flight' = NoRows /\ UNCHANGED issued
                 \/ /\ IF flight = NoRows THEN db' = db /\ terms' = w.terms ELSE TakeIn(w.terms)
                    /\ rows' = NoRows /\ flight' = w.rows /\ issued' = w.next
  BY DEF EncodeInLoad
<1>2. PICK w : w = encode_into(t, crowded)
  OBVIOUS
<1>3. WindowStays(w) \/ WindowTaken(w) \/ WindowHanded(w)
  BY <1>1, <1>2 DEF WindowStays, WindowTaken, WindowHanded
<1>4. /\ next' = w.next /\ counters' = w.counters /\ seen' = w.seen
      /\ given' = given \cup {<<w.id, t>>}
  BY <1>1, <1>2 DEF Given
<1>5. mode = "bulk" /\ (CollisionsInFlight \/ ~CollidesInFlight(t)) /\ UNCHANGED <<mode, filtered, lost>>
  BY DEF EncodeInLoad
<1> QED
  BY <1>2, <1>3, <1>4, <1>5

\* An encode of a load, whichever way its window moves on.
LEMMA EncodeInLoadSound ==
    ASSUME Sound, NEW t \in Term, EncodeInLoad(t)
    PROVE  Sound'
<1>1. PICK crowded \in BOOLEAN : \E w :
               /\ w = encode_into(t, crowded)
               /\ mode = "bulk" /\ (CollisionsInFlight \/ ~CollidesInFlight(t))
               /\ next' = w.next /\ counters' = w.counters /\ seen' = w.seen
               /\ given' = given \cup {<<w.id, t>>} /\ UNCHANGED <<mode, filtered, lost>>
               /\ WindowStays(w) \/ WindowTaken(w) \/ WindowHanded(w)
  BY EncodeInLoadIs
<1>2. PICK w :
               /\ w = encode_into(t, crowded) /\ mode = "bulk"
               /\ next' = w.next /\ counters' = w.counters /\ seen' = w.seen
               /\ given' = given \cup {<<w.id, t>>} /\ UNCHANGED <<mode, filtered, lost>>
               /\ WindowStays(w) \/ WindowTaken(w) \/ WindowHanded(w)
  BY <1>1
<1>3. Typed /\ ModeSound
  BY SoundNow
<1>4. /\ w.rows \in RowSet /\ w.next \in Counts /\ w.counters \in Counts /\ w.terms \in SUBSET Row
      /\ w.seen \in SUBSET Bytes
      /\ Truthful(db.id2str, db.str2id, flight.id2str, flight.str2id, w.rows.id2str, w.rows.str2id)
      /\ Below(AllRows(w.rows), w.counters) /\ OneRow(AllRows(w.rows)) /\ w.terms \subseteq AllRows(w.rows)
      /\ \A g \in Tag : w.counters[g] <= w.next[g] /\ counters[g] <= w.counters[g]
      /\ GivenSound(given \cup {<<w.id, t>>}, AllRows(w.rows), w.next, lost)
      /\ given \cup {<<w.id, t>>} \in SUBSET (Ids \X Term)
  BY <1>2, EncodeNow
<1>5. OneRow(db.id2str \cup flight.id2str)
  BY <1>4, OneRowFewer DEF AllRows
<1>6. db \in [id2str : SUBSET Row, str2id : SUBSET (Key \X Ids), next : Counts] /\ flight \in RowSet /\ issued \in Counts
  BY <1>3 DEF Typed
<1> DEFINE After == /\ db' \in [id2str : SUBSET Row, str2id : SUBSET (Key \X Ids), next : Counts]
                    /\ db'.next = db.next /\ rows' \in RowSet /\ flight' \in RowSet /\ issued' \in Counts
                    /\ terms' \subseteq w.terms /\ AllRows(rows)' = AllRows(w.rows)
                    /\ Truthful(db.id2str, db.str2id, flight.id2str, flight.str2id, rows.id2str, rows.str2id)'
<1>7. ASSUME WindowStays(w) PROVE After
  <2>1. db' = db /\ flight' = flight /\ issued' = issued /\ rows' = w.rows /\ terms' = w.terms
    BY <1>7 DEF WindowStays
  <2>2. AllRows(rows)' = AllRows(w.rows)
    BY <2>1 DEF AllRows
  <2>3. Truthful(db.id2str, db.str2id, flight.id2str, flight.str2id, rows.id2str, rows.str2id)'
    BY <1>4, <2>1
  <2> QED
    BY <1>4, <1>6, <2>1, <2>2, <2>3
<1>8. ASSUME WindowTaken(w) PROVE After
  <2>1. TakeIn(w.terms) /\ rows' = w.rows /\ flight' = NoRows /\ issued' = issued
    BY <1>8 DEF WindowTaken
  <2>2. /\ db'.id2str = db.id2str \cup flight.id2str
        /\ db'.str2id \subseteq db.str2id \cup flight.str2id /\ db'.next = db.next
        /\ db' \in [id2str : SUBSET Row, str2id : SUBSET (Key \X Ids), next : Counts]
        /\ terms' \subseteq w.terms
    BY <1>3, <1>5, <2>1, TakeInRows
  <2>3. AllRows(rows)' = AllRows(w.rows)
    BY <2>1, <2>2, NoRowsType DEF AllRows
  <2>4. Truthful(db.id2str \cup flight.id2str, db'.str2id, {}, {}, w.rows.id2str, w.rows.str2id)
    BY <1>4, <2>2, TruthfulTaken
  <2>5. Truthful(db.id2str, db.str2id, flight.id2str, flight.str2id, rows.id2str, rows.str2id)'
    BY <2>1, <2>2, <2>4, NoRowsType
  <2> QED
    BY <1>4, <1>6, <2>1, <2>2, <2>3, <2>5, NoRowsType
<1>9. ASSUME WindowHanded(w) PROVE After
  <2>1. rows' = NoRows /\ flight' = w.rows /\ issued' = w.next
    BY <1>9 DEF WindowHanded
  <2>2. /\ db'.id2str = db.id2str \cup flight.id2str
        /\ db' \in [id2str : SUBSET Row, str2id : SUBSET (Key \X Ids), next : Counts]
        /\ db'.next = db.next /\ terms' \subseteq w.terms
        /\ Truthful(db.id2str \cup flight.id2str, db'.str2id, {}, {}, w.rows.id2str, w.rows.str2id)
    <3>1. CASE flight = NoRows
      <4>1. db' = db /\ terms' = w.terms
        BY <1>9, <3>1 DEF WindowHanded
      <4>2. flight.id2str = {} /\ flight.str2id = {} /\ db.id2str \cup flight.id2str = db.id2str
        BY <3>1, NoRowsType
      <4>3. Truthful(db.id2str, db.str2id, {}, {}, w.rows.id2str, w.rows.str2id)
        BY <1>4, <4>2
      <4> QED
        BY <1>6, <4>1, <4>2, <4>3
    <3>2. CASE flight # NoRows
      <4>1. TakeIn(w.terms)
        BY <1>9, <3>2 DEF WindowHanded
      <4>2. /\ db'.id2str = db.id2str \cup flight.id2str
            /\ db'.str2id \subseteq db.str2id \cup flight.str2id /\ db'.next = db.next
            /\ db' \in [id2str : SUBSET Row, str2id : SUBSET (Key \X Ids), next : Counts]
            /\ terms' \subseteq w.terms
        BY <1>3, <1>5, <4>1, TakeInRows
      <4>3. Truthful(db.id2str \cup flight.id2str, db'.str2id, {}, {}, w.rows.id2str, w.rows.str2id)
        BY <1>4, <4>2, TruthfulTaken
      <4> QED
        BY <4>2, <4>3
    <3> QED
      BY <3>1, <3>2
  <2>3. AllRows(rows)' = AllRows(w.rows)
    BY <2>1, <2>2, NoRowsType DEF AllRows
  <2>4. Truthful(db.id2str \cup flight.id2str, db'.str2id, w.rows.id2str, w.rows.str2id, {}, {})
    BY <2>2, TruthfulHanded
  <2>5. Truthful(db.id2str, db.str2id, flight.id2str, flight.str2id, rows.id2str, rows.str2id)'
    BY <2>1, <2>2, <2>4, NoRowsType
  <2> QED
    BY <1>4, <2>1, <2>2, <2>3, <2>5, NoRowsType
<1>10. After
  BY <1>2, <1>7, <1>8, <1>9
<1>11. Typed'
  BY <1>2, <1>3, <1>4, <1>10 DEF Typed
<1>12. \A g \in Tag : db'.next[g] <= counters'[g]
  <2>1. \A g \in Tag : db.next[g] \in Nat /\ counters[g] \in Nat /\ w.counters[g] \in Nat /\ db.next[g] <= counters[g]
    BY <1>3, <1>4 DEF Typed, Counts, ModeSound
  <2> QED
    BY <1>2, <1>4, <1>10, <2>1
<1>13. ModeSound'
  BY <1>2, <1>12 DEF ModeSound
<1>14. Below(AllRows(rows), counters)' /\ GivenSound(given, AllRows(rows), next, lost)'
  BY <1>2, <1>4, <1>10
<1>15. terms' \subseteq AllRows(rows)'
  BY <1>4, <1>10
<1>16. \A g \in Tag : counters'[g] <= next'[g]
  BY <1>2, <1>4
<1> QED
  BY <1>10, <1>11, <1>13, <1>14, <1>15, <1>16, SoundAfter

\* The end of a load: both windows and the counters.
LEMMA FinishBulkSound ==
    ASSUME Sound, finish_bulk
    PROVE  Sound'
<1>1. /\ mode = "bulk" /\ db' = Stored(Over(flight, rows), counters)
      /\ mode' = "plain" /\ rows' = NoRows /\ counters' = counters /\ terms' = {}
      /\ seen' = {} /\ filtered' = FALSE /\ flight' = NoRows /\ issued' = Zero
      /\ UNCHANGED <<next, given, lost>>
  BY DEF finish_bulk, Release
<1>2. /\ Typed /\ ModeSound /\ Below(AllRows(rows), counters) /\ OneRow(AllRows(rows))
      /\ GivenSound(given, AllRows(rows), next, lost) /\ \A g \in Tag : counters[g] <= next[g]
      /\ Truthful(db.id2str, db.str2id, flight.id2str, flight.str2id, rows.id2str, rows.str2id)
  BY SoundNow
<1> DEFINE D == db.id2str
           F == flight.id2str
           W == rows.id2str
           new == Over(flight, rows)
<1>3. OneRow(F \cup W) /\ OneRow(D \cup (F \cup W)) /\ D \cup (F \cup W) = AllRows(rows)
  BY <1>2, OneRowFewer DEF AllRows
<1>4. /\ new.id2str = F \cup W /\ new.str2id \subseteq flight.str2id \cup rows.str2id
      /\ new = [id2str |-> new.id2str, str2id |-> new.str2id]
  BY <1>3, OverRows
<1> HIDE DEF new
<1>5. new \in RowSet
  <2>1. flight.id2str \subseteq Row /\ flight.str2id \subseteq Key \X Ids /\ rows.id2str \subseteq Row /\ rows.str2id \subseteq Key \X Ids
    BY <1>2 DEF Typed, RowSet
  <2>2. new.id2str \in SUBSET Row /\ new.str2id \in SUBSET (Key \X Ids)
    BY <1>4, <2>1
  <2> QED
    BY <1>4, <2>2 DEF RowSet
<1>6. OneRow(D \cup new.id2str)
  BY <1>3, <1>4
<1>7. db'.id2str = D \cup (F \cup W) /\ db'.str2id \subseteq db.str2id \cup new.str2id /\ db'.next = counters
  BY <1>1, <1>4, <1>6, StoredRows DEF new
<1>8. counters \in Counts /\ Zero \in Counts
  BY <1>2 DEF Typed, Zero, Counts
<1>9. db' \in [id2str : SUBSET Row, str2id : SUBSET (Key \X Ids), next : Counts]
  BY <1>1, <1>2, <1>5, <1>6, <1>8, StoredType DEF new
<1>10. Typed'
  BY <1>1, <1>2, <1>8, <1>9, NoRowsType DEF Typed
<1>11. Truthful(D \cup (F \cup W), db'.str2id, {}, {}, {}, {})
  <2>1. Truthful(D, db.str2id, F \cup W, new.str2id, {}, {})
    BY <1>2, <1>4, TruthfulJoined
  <2> QED
    BY <1>7, <2>1, TruthfulTaken
<1>12. Truthful(db.id2str, db.str2id, flight.id2str, flight.str2id, rows.id2str, rows.str2id)'
  BY <1>1, <1>7, <1>11, NoRowsType
<1>13. AllRows(rows)' = AllRows(rows)
  BY <1>1, <1>3, <1>7, NoRowsType DEF AllRows
<1>14. Below(AllRows(rows), counters)' /\ GivenSound(given, AllRows(rows), next, lost)'
  BY <1>1, <1>2, <1>13
<1>15. ModeSound'
  <2>1. Below(db.id2str, db.next)'
    BY <1>2, <1>3, <1>7
  <2>2. \A g \in Tag : db'.next[g] <= counters'[g]
    BY <1>1, <1>7, <1>8 DEF Counts
  <2> QED
    BY <1>1, <1>7, <2>1, <2>2 DEF ModeSound
<1> QED
  BY <1>1, <1>2, <1>10, <1>12, <1>14, <1>15, SoundAfter

\* An empty store is sound.
LEMMA InitSound ==
    ASSUME DictionaryInit
    PROVE  Sound
<1>1. /\ db = [id2str |-> {}, str2id |-> {}, next |-> Zero] /\ next = Zero /\ mode = "plain"
      /\ rows = NoRows /\ counters = Zero /\ terms = {} /\ seen = {} /\ filtered = FALSE
      /\ flight = NoRows /\ issued = Zero /\ given = {} /\ lost = {}
  BY DEF DictionaryInit
<1>2. Zero \in Counts /\ \A g \in Tag : Zero[g] = 0
  BY DEF Zero, Counts
<1>3. db.id2str = {} /\ db.str2id = {} /\ db.next = Zero
  BY <1>1
<1>4. Typed
  BY <1>1, <1>2, NoRowsType DEF Typed
<1>5. AllRows(rows) = {}
  BY <1>1, <1>3, NoRowsType DEF AllRows
<1>6. StoredSound
  BY <1>1, <1>3, NoRowsType DEF StoredSound, Closed, Listed
<1>7. WorkSound(Work)
  <2>1. OneRow({}) /\ Below({}, counters) /\ Closed({}, {}) /\ Listed({}, db.id2str \cup rows.id2str)
    BY DEF OneRow, Below, Closed, Listed
  <2>2. \A g \in Tag : counters[g] <= next[g]
    BY <1>1, <1>2
  <2> QED
    BY <1>1, <1>4, <1>5, <2>1, <2>2, WorkType, NoRowsType DEF WorkSound
<1>8. ModeSound
  <2>1. Below(db.id2str, db.next)
    BY <1>3 DEF Below
  <2>2. \A g \in Tag : db.next[g] <= counters[g]
    BY <1>1, <1>2, <1>3
  <2> QED
    BY <1>1, <1>3, <2>1, <2>2 DEF ModeSound
<1>9. GivenSound(given, AllRows(rows), next, lost)
  BY <1>1 DEF GivenSound
<1> QED
  BY <1>4, <1>6, <1>7, <1>8, <1>9 DEF Sound

\* Every step keeps the rows sound.
LEMMA NextSound ==
    ASSUME Sound, [DictionaryNext]_dictionary_vars
    PROVE  Sound'
<1>1. CASE \E t \in Term : EncodePlain(t)
  BY <1>1, EncodePlainSound
<1>2. CASE \E t \in Term : EncodePlainFails(t)
  BY <1>2, EncodePlainFailsSound
<1>3. CASE \E t \in Term : EncodeInScope(t)
  BY <1>3, EncodeInScopeSound
<1>4. CASE begin
  BY <1>4, StartsSound
<1>5. CASE commit
  BY <1>5, CommitSound
<1>6. CASE rollback
  BY <1>6, RollbackSound
<1>7. CASE CrashAndOpen
  BY <1>7, CrashSound
<1>8. CASE start_bulk
  BY <1>8, StartsSound
<1>9. CASE \E t \in Term : EncodeInLoad(t)
  BY <1>9, EncodeInLoadSound
<1>10. CASE finish_bulk
  BY <1>10, FinishBulkSound
<1>11. CASE UNCHANGED dictionary_vars
  BY <1>11, StartsSound
<1> QED
  BY <1>1, <1>2, <1>3, <1>4, <1>5, <1>6, <1>7, <1>8, <1>9, <1>10, <1>11 DEF DictionaryNext

\* The rows of the dictionary tell the truth whatever terms repeat and whichever hashes
\* collide: ids have one row and are below the counters, triple terms name leaves that
\* are there, lists name ids with that key, and what was given out means what it meant.
THEOREM DictionarySound == DictionarySpec => []Sound
<1>1. DictionaryInit => Sound
  BY InitSound
<1>2. Sound /\ [DictionaryNext]_dictionary_vars => Sound'
  BY NextSound
<1> QED
  BY <1>1, <1>2, PTL DEF DictionarySpec

\* What an id is read back as is in its row; outside a load the rows are all read.
LEMMA ReadBytesIs ==
    ASSUME Sound, NEW i, NEW b
    PROVE  /\ b \in ReadBytes(i) => <<i, b>> \in AllRows(rows)
           /\ mode # "bulk" /\ <<i, b>> \in AllRows(rows) => b \in ReadBytes(i)
<1>1. Typed /\ ModeSound /\ OneRow(AllRows(rows))
  BY SoundNow
<1>2. db.id2str \subseteq Row /\ rows.id2str \subseteq Row
  BY <1>1 DEF Typed, RowSet
<1>3. /\ \A c : c \in BytesAt(db, i) <=> <<i, c>> \in db.id2str
      /\ \A c : c \in BytesAt(rows, i) <=> <<i, c>> \in rows.id2str
  BY <1>2, BytesAtIs
<1>4. b \in ReadBytes(i) => <<i, b>> \in AllRows(rows)
  BY <1>3 DEF ReadBytes, AllRows
<1>5. ASSUME mode # "bulk", <<i, b>> \in AllRows(rows) PROVE b \in ReadBytes(i)
  <2>1. flight.id2str = {}
    BY <1>1, <1>5, NoRowsType DEF ModeSound
  <2>2. <<i, b>> \in db.id2str \/ <<i, b>> \in rows.id2str
    BY <1>5, <2>1 DEF AllRows
  <2>3. CASE mode = "scope" /\ BytesAt(rows, i) # {}
    <3>1. PICK c : <<i, c>> \in rows.id2str
      BY <1>3, <2>3
    <3>2. <<i, c>> = <<i, b>>
      BY <1>1, <1>5, <3>1 DEF OneRow, AllRows
    <3> QED
      BY <1>3, <2>3, <3>1, <3>2 DEF ReadBytes
  <2>4. CASE ~(mode = "scope" /\ BytesAt(rows, i) # {})
    <3>1. <<i, b>> \notin rows.id2str
      <4>1. CASE mode = "scope"
        BY <1>3, <2>4, <4>1
      <4>2. CASE mode # "scope"
        <5>1. mode = "plain"
          BY <1>1, <1>5, <4>2 DEF Typed
        <5>2. rows = NoRows
          BY <1>1, <5>1 DEF ModeSound
        <5> QED
          BY <5>2, NoRowsType
      <4> QED
        BY <4>1, <4>2
    <3> QED
      BY <1>3, <2>2, <2>4, <3>1 DEF ReadBytes
  <2> QED
    BY <2>3, <2>4
<1> QED
  BY <1>4, <1>5

\* An id decodes to what its row means.
LEMMA DecodeIs ==
    ASSUME Sound, NEW i, NEW t
    PROVE  /\ t \in decode(i) => t \in Term /\ \E b : <<i, b>> \in AllRows(rows) /\ Means(AllRows(rows), b, t)
           /\ mode # "bulk" /\ t \in Term
                /\ (\E b : <<i, b>> \in AllRows(rows) /\ Means(AllRows(rows), b, t)) => t \in decode(i)
<1>1. t \in decode(i) <=>
          /\ t \in Term
          /\ \E b \in ReadBytes(i) :
                IF t \in Leaf THEN b = LeafBytes(t)
                ELSE TagOf(b) = "triple" /\ \A k \in 1..3 : LeafBytes(Parts[t][k]) \in ReadBytes(b[2][k])
  BY Zenon DEF decode
<1>2. ASSUME t \in decode(i) PROVE \E b : <<i, b>> \in AllRows(rows) /\ Means(AllRows(rows), b, t)
  <2>1. PICK b \in ReadBytes(i) :
                IF t \in Leaf THEN b = LeafBytes(t)
                ELSE TagOf(b) = "triple" /\ \A k \in 1..3 : LeafBytes(Parts[t][k]) \in ReadBytes(b[2][k])
    BY <1>1, <1>2
  <2>2. <<i, b>> \in AllRows(rows)
    BY ReadBytesIs
  <2>3. \A k \in 1..3 : LeafBytes(Parts[t][k]) \in ReadBytes(b[2][k]) => <<b[2][k], LeafBytes(Parts[t][k])>> \in AllRows(rows)
    BY ReadBytesIs
  <2>4. Means(AllRows(rows), b, t)
    BY <2>1, <2>3, Zenon DEF Means
  <2> QED
    BY <2>2, <2>4
<1>3. ASSUME mode # "bulk", t \in Term, NEW b, <<i, b>> \in AllRows(rows), Means(AllRows(rows), b, t)
      PROVE  t \in decode(i)
  <2>1. b \in ReadBytes(i)
    BY <1>3, ReadBytesIs
  <2>2. \A k \in 1..3 : <<b[2][k], LeafBytes(Parts[t][k])>> \in AllRows(rows) => LeafBytes(Parts[t][k]) \in ReadBytes(b[2][k])
    BY <1>3, ReadBytesIs
  <2>3. IF t \in Leaf THEN b = LeafBytes(t)
        ELSE TagOf(b) = "triple" /\ \A k \in 1..3 : LeafBytes(Parts[t][k]) \in ReadBytes(b[2][k])
    BY <1>3, <2>2, Zenon DEF Means
  <2> QED
    BY <1>1, <1>3, <2>1, <2>3
<1> QED
  BY <1>1, <1>2, <1>3, Zenon

\* Soundness is what keeps the meaning of an id.
LEMMA SoundKeepsMeaning ==
    ASSUME Sound
    PROVE  IdsKeepMeaning
<1> SUFFICES ASSUME NEW x \in given
             PROVE  /\ \A y \in given : x[1] = y[1] => x[2] = y[2]
                    /\ decode(x[1]) \subseteq {x[2]}
                    /\ mode # "bulk" /\ x[1] \notin lost => decode(x[1]) = {x[2]}
  BY DEF IdsKeepMeaning
<1> DEFINE A == AllRows(rows)
<1>1. GivenSound(given, A, next, lost) /\ OneRow(A) /\ Typed
  BY SoundNow
<1>2. x[2] \in Term
  BY <1>1 DEF Typed
<1>3. \A y \in given : x[1] = y[1] => x[2] = y[2]
  BY <1>1 DEF GivenSound
<1>4. ASSUME NEW b, <<x[1], b>> \in A PROVE Means(A, b, x[2])
  <2> DEFINE y == <<x[1], b>>
  <2>1. y \in A /\ y[1] = x[1] /\ y[2] = b
    BY <1>4
  <2> HIDE DEF y
  <2>2. Means(A, y[2], x[2])
    BY <1>1, <2>1 DEF GivenSound
  <2> QED
    BY <2>1, <2>2
<1> HIDE DEF A
<1>5. ASSUME NEW t \in decode(x[1]) PROVE t = x[2]
  <2>1. PICK b : t \in Term /\ <<x[1], b>> \in A /\ Means(A, b, t)
    BY DecodeIs DEF A
  <2>2. Means(A, b, x[2])
    BY <1>4, <2>1
  <2> QED
    BY <1>1, <1>2, <2>1, <2>2, MeansOnce
<1>6. ASSUME mode # "bulk", x[1] \notin lost PROVE x[2] \in decode(x[1])
  <2>1. PICK y \in A : y[1] = x[1]
    BY <1>1, <1>6 DEF GivenSound
  <2>2. y = <<y[1], y[2]>>
    BY <2>1, SoundNow, RowParts DEF A
  <2>3. <<x[1], y[2]>> \in A
    BY <2>1, <2>2
  <2>4. Means(A, y[2], x[2])
    BY <1>4, <2>3
  <2> QED
    BY <1>2, <1>6, <2>3, <2>4, DecodeIs DEF A
<1> QED
  BY <1>3, <1>5, <1>6

\* An id of the dictionary never comes to mean something else: however encodes, scopes,
\* loads, refused batches and crashes follow one another, it was given for one term, decodes
\* to nothing but that term, and to that term unless its scope was abandoned or its load is
\* under way (allocate, commit_scope, rollback_scope, open).
THEOREM MeaningKept == DictionarySpec => []IdsKeepMeaning
<1>1. Sound => IdsKeepMeaning
  BY SoundKeepsMeaning
<1> QED
  BY <1>1, DictionarySound, PTL

-----------------------------------------------------------------------------
(* encode_into leaves nothing out                                          *)

\* resolve finds every id whose row has the bytes asked for.
LEMMA ResolveComplete ==
    ASSUME Typed, StoredComplete, NEW bytes, NEW i, <<i, bytes>> \in db.id2str
    PROVE  i \in resolve(bytes)
<1> DEFINE x == <<i, bytes>>
           D == db.id2str
           S == db.str2id
<1>1. x \in D /\ x[1] = i /\ x[2] = bytes /\ ListsAll(S, D, {})
  BY DEF StoredComplete
<1>2. db.id2str \subseteq Row /\ db.str2id \subseteq Key \X Ids
  BY DEF Typed
<1> HIDE DEF x, D, S
<1>3. <<dictionary_key(bytes), i>> \in S
  BY <1>1 DEF ListsAll, SameKey
<1>4. i \in ListAt(db, dictionary_key(bytes))
  BY <1>2, <1>3, ListAtIs DEF S
<1>5. bytes \in BytesAt(db, i)
  BY <1>2, BytesAtIs
<1> QED
  BY <1>4, <1>5, Zenon DEF resolve

\* When an encode may take a new id: outside a scope and a load no row it has added has the
\* key; in a load no row of the window in flight has.
Safe(w, bytes) ==
    /\ mode = "plain" /\ resolve(bytes) = {} => \A x \in w.rows.id2str : dictionary_key(x[2]) # dictionary_key(bytes)
    /\ mode = "bulk" /\ Hashed(bytes) /\ CachedAs(w.terms, bytes) = {} /\ resolve(bytes) = {} =>
           \A x \in flight.id2str : dictionary_key(x[2]) # dictionary_key(bytes)

\* An encode that finds nothing is of a term that has no row, and whose key no row has that
\* the new list would not be read with.
LEMMA NothingFound ==
    ASSUME Typed, StoredSound, StoredComplete, ModeSound, NEW w \in WorkSet, WorkComplete(w), NEW bytes \in Bytes,
           NEW crowded, Safe(w, bytes), Found(w, bytes, crowded) = {}
    PROVE  /\ \A x \in AllRows(w.rows) : x[2] # bytes
           /\ \A x \in flight.id2str : dictionary_key(x[2]) # dictionary_key(bytes)
           /\ mode = "plain" => \A x \in w.rows.id2str : dictionary_key(x[2]) # dictionary_key(bytes)
<1> DEFINE D == db.id2str
           F == flight.id2str
           W == w.rows.id2str
<1>1. D \subseteq Row /\ F \subseteq Row /\ W \subseteq Row /\ w.terms \subseteq Row
  BY WorkFields DEF Typed, RowSet
<1>2. CachedAs(w.terms, bytes) = {}
  BY Zenon DEF Found
<1>3. \A i : <<i, bytes>> \notin w.terms
  BY <1>1, <1>2, CachedAsIs
<1>4. \/ mode = "bulk" /\ filtered /\ bytes \notin w.seen
      \/ resolve(bytes) = {}
  BY <1>2, Zenon DEF Found
<1>5. \A i : <<i, bytes>> \notin D
  <2>1. CASE mode = "bulk" /\ filtered /\ bytes \notin w.seen
    <3>1. \A x \in AllRows(w.rows) : x[2] \in w.seen
      BY <2>1 DEF WorkComplete
    <3> SUFFICES ASSUME NEW i, <<i, bytes>> \in D PROVE FALSE
      OBVIOUS
    <3> DEFINE y == <<i, bytes>>
    <3>2. y \in AllRows(w.rows) /\ y[2] = bytes
      BY DEF AllRows
    <3> HIDE DEF y
    <3> QED
      BY <2>1, <3>1, <3>2
  <2>2. CASE resolve(bytes) = {}
    BY <2>2, ResolveComplete
  <2> QED
    BY <1>4, <2>1, <2>2
<1>6. resolve(bytes) = {}
  <2>1. \A i \in resolve(bytes) : <<i, bytes>> \in D
    BY ResolveSound
  <2> QED
    BY <1>5, <2>1
<1>7. \A x \in F : dictionary_key(x[2]) # dictionary_key(bytes)
  <2>1. CASE mode # "bulk"
    BY <2>1, NoRowsType DEF ModeSound
  <2>2. CASE mode = "bulk" /\ Hashed(bytes)
    BY <1>2, <1>6, <2>2 DEF Safe
  <2>3. CASE mode = "bulk" /\ ~Hashed(bytes)
    <3> SUFFICES ASSUME NEW x \in F, dictionary_key(x[2]) = dictionary_key(bytes) PROVE FALSE
      OBVIOUS
    <3>1. x \in w.terms
      BY <2>3 DEF WorkComplete
    <3>2. x[2] \in Bytes /\ x = <<x[1], x[2]>>
      BY <1>1, RowParts
    <3>3. x[2] = bytes
      BY <2>3, <3>2, KeyExact
    <3> QED
      BY <1>3, <3>1, <3>2, <3>3
  <2> QED
    BY <2>1, <2>2, <2>3
<1>8. mode = "plain" => \A x \in W : dictionary_key(x[2]) # dictionary_key(bytes)
  BY <1>6 DEF Safe
<1>9. ASSUME NEW x \in AllRows(w.rows), x[2] = bytes PROVE FALSE
  <2>1. x \in D \/ x \in F \/ x \in W
    BY DEF AllRows
  <2>2. x = <<x[1], bytes>>
    BY <1>1, <1>9, <2>1, RowParts
  <2>3. x \in W
    BY <1>5, <1>7, <1>9, <2>1, <2>2
  <2>4. CASE mode = "plain"
    BY <1>8, <1>9, <2>3, <2>4
  <2>5. CASE mode # "plain"
    BY <1>3, <2>2, <2>3, <2>5 DEF WorkComplete
  <2> QED
    BY <2>4, <2>5
<1> QED
  BY <1>7, <1>8, <1>9

\* The list allocate writes names every row below it and beside it with the key.
LEMMA NewListComplete ==
    ASSUME Typed, StoredComplete, NEW w \in WorkSet, WorkComplete(w), NEW bytes \in Bytes,
           \A x \in AllRows(w.rows) : x[2] # bytes,
           mode = "plain" => \A x \in w.rows.id2str : dictionary_key(x[2]) # dictionary_key(bytes),
           NEW y \in db.id2str \cup w.rows.id2str, dictionary_key(y[2]) = dictionary_key(bytes)
    PROVE  y[1] \in NewList(w, bytes)
<1> DEFINE D == db.id2str
           W == w.rows.id2str
           S == db.str2id
           R == w.rows.str2id
           key == dictionary_key(bytes)
<1>1. D \subseteq Row /\ W \subseteq Row /\ S \subseteq Key \X Ids /\ R \subseteq Key \X Ids
  BY WorkFields DEF Typed
<1>2. y[2] \in Bytes /\ y[2] # bytes
  BY <1>1, RowParts DEF AllRows
<1>3. Hashed(bytes) /\ key[1] = "hashed"
  BY <1>2, KeyExact
<1>4. ListsAll(S, D, {}) /\ ListsAll(R, W, D)
  BY DEF StoredComplete, WorkComplete
<1>5. y \in D => y[1] \in ListAt(db, key)
  <2>1. y \in D => <<key, y[1]>> \in S
    BY <1>4 DEF ListsAll, SameKey
  <2> QED
    BY <1>1, <2>1, ListAtIs
<1>6. ASSUME NEW z \in W, dictionary_key(z[2]) = key PROVE y[1] \in ListAt(w.rows, key)
  <2>1. SameKey(z, y) /\ y \in W \cup D
    BY <1>6 DEF SameKey
  <2>2. <<dictionary_key(y[2]), y[1]>> \in R
    BY <1>4, <2>1 DEF ListsAll
  <2> QED
    BY <1>1, <2>2, ListAtIs
<1>7. HasKey(w.rows, key) <=> \E z \in W : dictionary_key(z[2]) = key
  <2>1. HasKey(w.rows, key) => \E z \in W : dictionary_key(z[2]) = key
    BY <1>4 DEF HasKey, ListsAll
  <2>2. ASSUME NEW z \in W, dictionary_key(z[2]) = key PROVE HasKey(w.rows, key)
    <3>1. <<key, z[1]>> \in R
      BY <1>4, <2>2 DEF ListsAll, SameKey
    <3>2. <<key, z[1]>>[1] = key
      OBVIOUS
    <3> QED
      BY <3>1, <3>2 DEF HasKey
  <2> QED
    BY <2>1, <2>2
<1>8. y[1] \in Candidates(w, key) \/ (mode = "bulk" /\ y[1] \in ListAt(w.rows, key))
  <2>1. CASE mode = "scope" /\ HasKey(w.rows, key)
    <3>1. Candidates(w, key) = ListAt(w.rows, key)
      BY <2>1 DEF Candidates
    <3> QED
      BY <1>6, <1>7, <2>1, <3>1
  <2>2. CASE ~(mode = "scope" /\ HasKey(w.rows, key))
    <3>1. Candidates(w, key) = ListAt(db, key)
      BY <2>2 DEF Candidates
    <3>2. CASE y \in D
      BY <1>5, <3>1, <3>2
    <3>3. CASE y \in W
      <4>1. HasKey(w.rows, key) /\ y[1] \in ListAt(w.rows, key)
        BY <1>6, <1>7, <3>3
      <4>2. mode # "plain" /\ mode # "scope"
        BY <2>2, <3>3, <4>1
      <4>3. mode = "bulk"
        BY <4>2 DEF Typed
      <4> QED
        BY <4>1, <4>3
    <3> QED
      BY <3>2, <3>3
  <2> QED
    BY <2>1, <2>2
<1> QED
  BY <1>3, <1>8, Zenon DEF NewList

\* One more term, interned.
LEMMA AllocateComplete ==
    ASSUME Typed, StoredSound, StoredComplete, ModeSound, NEW w \in WorkSet, WorkSound(w), WorkComplete(w),
           NEW bytes \in Bytes,
           \A x \in AllRows(w.rows) : x[2] # bytes,
           \A x \in flight.id2str : dictionary_key(x[2]) # dictionary_key(bytes),
           mode = "plain" => \A x \in w.rows.id2str : dictionary_key(x[2]) # dictionary_key(bytes)
    PROVE  WorkComplete(allocate(w, bytes))
<1> DEFINE g == TagOf(bytes)
           n == w.next[g]
           x == <<<<g, n>>, bytes>>
           A == AllRows(w.rows)
           D == db.id2str
           F == flight.id2str
           W == w.rows.id2str
           R == w.rows.str2id
           key == dictionary_key(bytes)
<1>0. PICK e : e = allocate(w, bytes)
  OBVIOUS
<1> DEFINE Q == e.rows.str2id
<1>1. /\ e.next = [w.next EXCEPT ![g] = n + 1]
      /\ e.rows.id2str = W \cup {x}
      /\ Q = PutList(w.rows, key, NewList(w, bytes))
      /\ e.terms = IF mode = "plain" THEN {} ELSE w.terms \cup {x}
      /\ e.seen = IF filtered THEN w.seen \cup {bytes} ELSE w.seen
  <2>1. Allocates(w, e, bytes, x)
    BY <1>0, AllocateFields
  <2> QED
    BY <2>1 DEF Allocates
<1>2. g \in Tag /\ n \in Nat /\ w.next \in Counts
  BY BytesTag, WorkFields DEF Counts
<1>3. /\ x[1] = <<g, n>> /\ x[1][1] = g /\ x[1][2] = n /\ x[2] = bytes
      /\ x[1] \in NewList(w, bytes)
  BY DEF NewList
<1>4. R \subseteq Key \X Ids /\ AllRows(e.rows) = A \cup {x}
  BY <1>1, WorkFields DEF AllRows
<1>5. \A q : q \in Q <=> \/ q \in R /\ q[1] # key
                         \/ \E i \in NewList(w, bytes) : q = <<key, i>>
  BY <1>1, <1>4, PutListIs
<1>6. ListsAll(R, W, D)
  BY DEF WorkComplete
<1>7. \A y \in D \cup W : dictionary_key(y[2]) = key => y[1] \in NewList(w, bytes)
  BY NewListComplete
<1>8. /\ \A y \in A : y[2] # bytes
      /\ \A y \in F : dictionary_key(y[2]) # key
      /\ OneId(A) /\ Apart(F, W)
      /\ mode # "plain" => F \cup W \subseteq w.terms
      /\ filtered => mode = "bulk" /\ \A y \in A : y[2] \in w.seen
      /\ flight # NoRows => \A y \in W : y[1][2] >= issued[y[1][1]]
      /\ \A h \in Tag : issued[h] <= w.next[h]
  BY DEF WorkComplete
<1>9. \A h \in Tag : issued[h] \in Nat /\ w.next[h] \in Nat
  BY <1>2 DEF Typed, Counts
<1>10. n = w.next[g]
  OBVIOUS
<1> HIDE DEF g, n, x, A, D, F, W, R, Q, key
<1>11. ListsAll(Q, W \cup {x}, D)
  <2>1. ASSUME NEW y \in W \cup {x}, NEW z \in (W \cup {x}) \cup D, SameKey(y, z)
        PROVE  <<dictionary_key(z[2]), z[1]>> \in Q
    <3>1. dictionary_key(y[2]) = dictionary_key(z[2])
      BY <2>1 DEF SameKey
    <3>2. CASE dictionary_key(z[2]) = key
      <4>1. z[1] \in NewList(w, bytes)
        BY <1>3, <1>7, <2>1, <3>2
      <4> QED
        BY <1>5, <3>2, <4>1
    <3>3. CASE dictionary_key(z[2]) # key
      <4>1. dictionary_key(x[2]) = key
        BY <1>3 DEF key
      <4>2. y \in W /\ z \in W \cup D
        BY <3>1, <3>3, <4>1
      <4>3. <<dictionary_key(z[2]), z[1]>> \in R
        BY <1>6, <2>1, <4>2 DEF ListsAll
      <4>4. <<dictionary_key(z[2]), z[1]>>[1] = dictionary_key(z[2])
        OBVIOUS
      <4> QED
        BY <1>5, <3>3, <4>3, <4>4
    <3> QED
      BY <3>2, <3>3
  <2>2. ASSUME NEW q \in Q PROVE \E y \in W \cup {x} : q[1] = dictionary_key(y[2])
    <3>1. CASE q \in R
      BY <1>6, <3>1 DEF ListsAll
    <3>2. CASE q \notin R
      <4>1. q[1] = key
        BY <1>5, <3>2
      <4> QED
        BY <1>3, <4>1 DEF key
    <3> QED
      BY <3>1, <3>2
  <2> QED
    BY <2>1, <2>2 DEF ListsAll
<1>12. OneId(A \cup {x})
  BY <1>3, <1>8 DEF OneId
<1>13. Apart(F, W \cup {x})
  <2>1. \A y \in F : ~SameKey(y, x)
    BY <1>3, <1>8 DEF SameKey, key
  <2> QED
    BY <1>8, <2>1 DEF Apart
<1>14. mode # "plain" => F \cup (W \cup {x}) \subseteq e.terms
  BY <1>1, <1>8
<1>15. mode = "plain" => e.terms = {}
  BY <1>1
<1>16. filtered => mode = "bulk" /\ \A y \in A \cup {x} : y[2] \in e.seen
  BY <1>1, <1>3, <1>8
<1>17. flight # NoRows => \A y \in W \cup {x} : y[1][2] >= issued[y[1][1]]
  <2>1. n >= issued[g]
    BY <1>2, <1>8, <1>9, <1>10
  <2> QED
    BY <1>3, <1>8, <2>1
<1>18. \A h \in Tag : issued[h] <= e.next[h]
  <2>1. \A h \in Tag : e.next[h] = IF h = g THEN n + 1 ELSE w.next[h]
    BY <1>1, <1>2 DEF Counts
  <2> QED
    BY <1>2, <1>8, <1>9, <1>10, <2>1
<1>19. WorkComplete(e)
  BY <1>1, <1>4, <1>11, <1>12, <1>13, <1>14, <1>15, <1>16, <1>17, <1>18
     DEF WorkComplete, D, F, Q
<1> QED
  BY <1>0, <1>19

\* The encode of one leaf, or of a triple term whose parts have been encoded.
LEMMA EncodeBytesComplete ==
    ASSUME Typed, StoredSound, StoredComplete, ModeSound, NEW w \in WorkSet, WorkSound(w), WorkComplete(w),
           NEW bytes \in Bytes, NEW crowded, Safe(w, bytes),
           NEW e, e = EncodeBytes(w, bytes, crowded)
    PROVE  /\ WorkComplete(e)
           /\ mode # "plain" => w.terms \subseteq e.terms
           /\ mode = "plain" => \A x \in e.rows.id2str \ w.rows.id2str : x[2] = bytes /\ resolve(bytes) = {}
<1>0. \/ Found(w, bytes, crowded) = {} /\ e = allocate(w, bytes)
      \/ e.id \in Found(w, bytes, crowded) /\ Takes(w, e, bytes)
  BY EncodeBytesIs
<1>1. CASE Found(w, bytes, crowded) = {} /\ e = allocate(w, bytes)
  <2>1. /\ \A x \in AllRows(w.rows) : x[2] # bytes
        /\ \A x \in flight.id2str : dictionary_key(x[2]) # dictionary_key(bytes)
        /\ mode = "plain" => \A x \in w.rows.id2str : dictionary_key(x[2]) # dictionary_key(bytes)
    BY <1>1, NothingFound
  <2>2. WorkComplete(e)
    BY <1>1, <2>1, AllocateComplete
  <2>0. e = allocate(w, bytes)
    BY <1>1
  <2> DEFINE g == TagOf(bytes)
             y == <<<<g, w.next[g]>>, bytes>>
  <2>3. /\ e.rows.id2str = w.rows.id2str \cup {y}
        /\ e.terms = IF mode = "plain" THEN {} ELSE w.terms \cup {y}
    <3>1. Allocates(w, e, bytes, y)
      BY <2>0, AllocateFields
    <3> QED
      BY <3>1 DEF Allocates
  <2>5. y[2] = bytes
    OBVIOUS
  <2> HIDE DEF y
  <2>4. mode = "plain" => resolve(bytes) = {}
    <3>1. CachedAs(w.terms, bytes) = {}
      BY <1>1, Zenon DEF Found
    <3> QED
      BY <1>1, <3>1 DEF Found
  <2> QED
    BY <2>2, <2>3, <2>4, <2>5
<1>2. CASE e.id \in Found(w, bytes, crowded) /\ Takes(w, e, bytes)
  <2>1. /\ e.next = w.next /\ e.rows = w.rows /\ e.seen = w.seen
        /\ e.terms = IF mode = "bulk" THEN w.terms \cup {<<e.id, bytes>>} ELSE w.terms
    BY <1>2 DEF Takes
  <2>2. w.terms \subseteq e.terms /\ (mode = "plain" => e.terms = w.terms)
    BY <2>1
  <2>3. WorkComplete(e)
    BY <2>1, <2>2 DEF WorkComplete
  <2> QED
    BY <2>1, <2>2, <2>3
<1> QED
  BY <1>0, <1>1, <1>2

\* In a load, no leaf of a term whose encode does not collide has the key of a row in flight.
LEMMA SafeInLoad ==
    ASSUME Typed, StoredComplete, NEW t, mode # "plain", mode = "bulk" => ~CollidesInFlight(t),
           NEW x \in LeavesOf(t), NEW w \in WorkSet, terms \subseteq w.terms
    PROVE  Safe(w, LeafBytes(x))
<1> DEFINE b == LeafBytes(x)
           F == flight.id2str
           T == flight.str2id
<1> SUFFICES ASSUME mode = "bulk", Hashed(b), CachedAs(w.terms, b) = {}, resolve(b) = {},
                    NEW y \in F, dictionary_key(y[2]) = dictionary_key(b)
             PROVE  FALSE
  BY DEF Safe
<1>1. terms \subseteq Row /\ w.terms \subseteq Row
  BY WorkFields DEF Typed
<1>2. \A i : i \notin CachedAs(terms, b)
  <2> SUFFICES ASSUME NEW i, i \in CachedAs(terms, b) PROVE FALSE
    OBVIOUS
  <2>1. <<i, b>> \in terms
    BY <1>1, CachedAsIs
  <2>2. i \in CachedAs(w.terms, b)
    BY <1>1, <2>1, CachedAsIs
  <2> QED
    BY <2>2
<1>3. <<dictionary_key(b), y[1]>> \in T
  <2>1. ListsAll(T, F, db.id2str)
    BY DEF StoredComplete
  <2> QED
    BY <2>1 DEF ListsAll, SameKey
<1>4. HasKey(flight, dictionary_key(b))
  <2>1. <<dictionary_key(b), y[1]>>[1] = dictionary_key(b)
    OBVIOUS
  <2> QED
    BY <1>3, <2>1 DEF HasKey
<1> QED
  BY <1>2, <1>4 DEF CollidesInFlight

\* The rows an encode outside a scope has added so far: of new parts.
NewParts(w, B) == \A x \in w.rows.id2str : x[2] \in B /\ resolve(x[2]) = {}

\* Outside a scope and a load, a leaf whose key no new part before it has.
LEMMA SafeOutside ==
    ASSUME mode = "plain", NEW w, NEW B, NewParts(w, B), NEW b,
           \A c \in B : resolve(c) = {} /\ resolve(b) = {} => dictionary_key(c) # dictionary_key(b)
    PROVE  Safe(w, b)
<1>1. ASSUME resolve(b) = {}, NEW x \in w.rows.id2str PROVE dictionary_key(x[2]) # dictionary_key(b)
  <2>1. x[2] \in B /\ resolve(x[2]) = {}
    BY DEF NewParts
  <2> QED
    BY <1>1, <2>1
<1> QED
  BY <1>1 DEF Safe

\* The bytes of a triple term share no key with those of a leaf.
LEMMA TripleKeyApart ==
    ASSUME NEW b \in Bytes, TagOf(b) = "triple", NEW x \in Leaf
    PROVE  ~Hashed(b) /\ dictionary_key(LeafBytes(x)) # dictionary_key(b)
<1>1. ~Hashed(b)
  BY DEF Hashed
<1>2. LeafBytes(x) \in Bytes /\ TagOf(LeafBytes(x)) = "leaf"
  BY LeafBytesType
<1>3. dictionary_key(b) = dictionary_key(LeafBytes(x)) => b = LeafBytes(x)
  BY <1>1, <1>2, KeyExact
<1> QED
  BY <1>1, <1>2, <1>3

\* An encode leaves nothing out, unless a triple term repeats a new part outside a scope, or
\* a load meets a hash of the window in flight.
LEMMA EncodeIntoComplete ==
    ASSUME Typed, StoredSound, StoredComplete, ModeSound, WorkSound(Work), WorkComplete(Work),
           NEW t \in Term, NEW crowded, NEW w, w = encode_into(t, crowded),
           mode = "plain" => ~RepeatsNewPart(t), mode = "bulk" => ~CollidesInFlight(t)
    PROVE  WorkComplete(w)
<1>0. Work \in WorkSet /\ Work.terms = terms /\ Work.rows = rows
  BY WorkType
<1>1. mode = "plain" => NewParts(Work, {})
  BY <1>0, NoRowsType DEF ModeSound, NewParts
<1>2. CASE t \in Leaf
  <2>1. w = EncodeBytes(Work, LeafBytes(t), crowded)
    BY <1>2 DEF encode_into
  <2>2. LeafBytes(t) \in Bytes
    BY <1>2, LeafBytesType
  <2>3. Safe(Work, LeafBytes(t))
    <3>1. CASE mode = "plain"
      BY <1>1, <3>1, SafeOutside
    <3>2. CASE mode # "plain"
      BY <1>0, <1>2, <3>2, SafeInLoad DEF LeavesOf
    <3> QED
      BY <3>1, <3>2
  <2> QED
    BY <1>0, <2>1, <2>2, <2>3, EncodeBytesComplete
<1>3. CASE t \in Triple
  <2>1. PICK s : s = EncodeBytes(Work, LeafBytes(Parts[t][1]), crowded)
    OBVIOUS
  <2>2. PICK p : p = EncodeBytes(s, LeafBytes(Parts[t][2]), crowded)
    OBVIOUS
  <2>3. PICK o : o = EncodeBytes(p, LeafBytes(Parts[t][3]), crowded)
    OBVIOUS
  <2>4. PICK b : b = TripleBytes(<<s.id, p.id, o.id>>)
    OBVIOUS
  <2>5. w = EncodeBytes(o, b, crowded)
    BY <1>3, <2>1, <2>2, <2>3, <2>4, PartsType, Zenon DEF encode_into
  <2>6. /\ s \in WorkSet /\ WorkSound(s) /\ Grows(Work, s)
        /\ p \in WorkSet /\ WorkSound(p) /\ Grows(s, p)
        /\ o \in WorkSet /\ WorkSound(o) /\ Grows(p, o)
        /\ b \in Bytes /\ TagOf(b) = "triple" /\ PartsIn(b, AllRows(o.rows))
        /\ Means(AllRows(o.rows), b, t)
    BY <1>3, <2>1, <2>2, <2>3, <2>4, EncodePartsSound, ZenonT(60)
  <2>7. /\ Parts[t][1] \in Leaf /\ Parts[t][2] \in Leaf /\ Parts[t][3] \in Leaf
        /\ Parts[t][1] \in LeavesOf(t) /\ Parts[t][2] \in LeavesOf(t) /\ Parts[t][3] \in LeavesOf(t)
    BY <1>3, PartsType DEF LeavesOf
  <2>8. PICK b1, b2, b3 : b1 = LeafBytes(Parts[t][1]) /\ b2 = LeafBytes(Parts[t][2]) /\ b3 = LeafBytes(Parts[t][3])
    OBVIOUS
  <2>9. b1 \in Bytes /\ b2 \in Bytes /\ b3 \in Bytes
    BY <2>7, <2>8, LeafBytesType
  <2>10. ASSUME mode = "plain"
         PROVE  /\ resolve(b1) = {} /\ resolve(b2) = {} => dictionary_key(b1) # dictionary_key(b2)
                /\ resolve(b1) = {} /\ resolve(b3) = {} => dictionary_key(b1) # dictionary_key(b3)
                /\ resolve(b2) = {} /\ resolve(b3) = {} => dictionary_key(b2) # dictionary_key(b3)
    <3>1. \A i, j \in 1..3 :
              /\ i < j
              /\ resolve(LeafBytes(Parts[t][i])) = {} /\ resolve(LeafBytes(Parts[t][j])) = {}
              => dictionary_key(LeafBytes(Parts[t][i])) # dictionary_key(LeafBytes(Parts[t][j]))
      BY <1>3, <2>10 DEF RepeatsNewPart
    <3>2. 1 \in 1..3 /\ 2 \in 1..3 /\ 3 \in 1..3 /\ 1 < 2 /\ 1 < 3 /\ 2 < 3
      OBVIOUS
    <3> QED
      BY <2>8, <3>1, <3>2
  <2>11. Safe(Work, b1)
    <3>1. CASE mode = "plain"
      BY <1>1, <3>1, SafeOutside
    <3>2. CASE mode # "plain"
      BY <1>0, <2>7, <2>8, <3>2, SafeInLoad
    <3> QED
      BY <3>1, <3>2
  <2>12. /\ WorkComplete(s) /\ (mode # "plain" => terms \subseteq s.terms)
         /\ mode = "plain" => \A x \in s.rows.id2str \ rows.id2str : x[2] = b1 /\ resolve(b1) = {}
    BY <1>0, <2>1, <2>8, <2>9, <2>11, EncodeBytesComplete
  <2>13. mode = "plain" => NewParts(s, {b1})
    BY <1>0, <1>1, <2>12 DEF NewParts
  <2>14. Safe(s, b2)
    <3>1. CASE mode = "plain"
      BY <2>10, <2>13, <3>1, SafeOutside
    <3>2. CASE mode # "plain"
      BY <2>6, <2>7, <2>8, <2>12, <3>2, SafeInLoad
    <3> QED
      BY <3>1, <3>2
  <2>15. /\ WorkComplete(p) /\ (mode # "plain" => s.terms \subseteq p.terms)
         /\ mode = "plain" => \A x \in p.rows.id2str \ s.rows.id2str : x[2] = b2 /\ resolve(b2) = {}
    BY <2>2, <2>6, <2>8, <2>9, <2>12, <2>14, EncodeBytesComplete
  <2>16. mode = "plain" => NewParts(p, {b1, b2})
    BY <2>13, <2>15 DEF NewParts
  <2>17. Safe(p, b3)
    <3>1. CASE mode = "plain"
      <4>1. \A c \in {b1, b2} : resolve(c) = {} /\ resolve(b3) = {} => dictionary_key(c) # dictionary_key(b3)
        BY <2>10, <3>1
      <4> QED
        BY <2>16, <3>1, <4>1, SafeOutside
    <3>2. CASE mode # "plain"
      <4>1. terms \subseteq p.terms
        BY <2>12, <2>15, <3>2
      <4> QED
        BY <2>6, <2>7, <2>8, <3>2, <4>1, SafeInLoad
    <3> QED
      BY <3>1, <3>2
  <2>18. /\ WorkComplete(o)
         /\ mode = "plain" => \A x \in o.rows.id2str \ p.rows.id2str : x[2] = b3 /\ resolve(b3) = {}
    BY <2>3, <2>6, <2>8, <2>9, <2>15, <2>17, EncodeBytesComplete
  <2>19. mode = "plain" => NewParts(o, {b1, b2, b3})
    BY <2>16, <2>18 DEF NewParts
  <2>20. Safe(o, b)
    <3>1. ~Hashed(b) /\ \A c \in {b1, b2, b3} : dictionary_key(c) # dictionary_key(b)
      BY <2>6, <2>7, <2>8, TripleKeyApart
    <3>2. CASE mode = "plain"
      BY <2>19, <3>1, <3>2, SafeOutside
    <3>3. CASE mode # "plain"
      BY <3>1, <3>3 DEF Safe
    <3> QED
      BY <3>2, <3>3
  <2> QED
    BY <2>5, <2>6, <2>18, <2>20, EncodeBytesComplete
<1> QED
  BY <1>2, <1>3 DEF Term

-----------------------------------------------------------------------------
(* Every step leaves nothing out                                           *)

\* The database, the window in flight and the window or scope being filled leave nothing
\* out, when each is written over what is below it.
Full(D, S, F, T, W, R) ==
    /\ OneId(D \cup F \cup W) /\ Apart(F, W)
    /\ ListsAll(S, D, {}) /\ ListsAll(T, F, D) /\ ListsAll(R, W, D)

\* Nothing has no lists.
LEMMA ListsNothing ==
    ASSUME NEW B
    PROVE  ListsAll({}, {}, B)
  BY DEF ListsAll

\* The window in flight is taken in.
LEMMA FullTaken ==
    ASSUME NEW D, NEW S, NEW F, NEW T, NEW W, NEW R, Full(D, S, F, T, W, R),
           NEW Q, Q = {e \in S : \A f \in T : f[1] # e[1]} \cup T
    PROVE  Full(D \cup F, Q, {}, {}, W, R)
<1> DEFINE DF == D \cup F
<1>1. OneId(D \cup F \cup W) /\ Apart(F, W) /\ ListsAll(S, D, {}) /\ ListsAll(T, F, D) /\ ListsAll(R, W, D)
  BY DEF Full
<1>2. \A x \in DF : x \in D \/ x \in F
  OBVIOUS
<1>3. D \subseteq DF /\ F \subseteq DF /\ DF \cup {} \cup W = D \cup F \cup W
  OBVIOUS
<1> HIDE DEF DF
<1>4. ASSUME NEW x \in DF, NEW y \in DF \cup {}, SameKey(x, y) PROVE <<dictionary_key(y[2]), y[1]>> \in Q
  <2> DEFINE e == <<dictionary_key(y[2]), y[1]>>
  <2>1. e[1] = dictionary_key(y[2])
    OBVIOUS
  <2> HIDE DEF e
  <2>2. CASE \E z \in F : SameKey(z, y)
    <3>1. PICK z \in F : SameKey(z, y)
      BY <2>2
    <3>2. y \in F \cup D
      BY <1>2
    <3>3. <<dictionary_key(y[2]), y[1]>> \in T
      BY <1>1, <3>1, <3>2 DEF ListsAll
    <3> QED
      BY <3>3
  <2>3. CASE ~ \E z \in F : SameKey(z, y)
    <3>1. x \in D /\ y \in D
      BY <1>2, <1>4, <2>3 DEF SameKey
    <3>2. e \in S
      BY <1>1, <1>4, <3>1 DEF ListsAll, e
    <3>3. ASSUME NEW f \in T, f[1] = e[1] PROVE FALSE
      <4>1. PICK z \in F : f[1] = dictionary_key(z[2])
        BY <1>1 DEF ListsAll
      <4> QED
        BY <2>1, <2>3, <3>3, <4>1 DEF SameKey
    <3> QED
      BY <3>2, <3>3 DEF e
  <2> QED
    BY <2>2, <2>3
<1>5. ASSUME NEW e \in Q PROVE \E x \in DF : e[1] = dictionary_key(x[2])
  <2>1. CASE e \in S
    BY <1>1, <1>3, <2>1 DEF ListsAll
  <2>2. CASE e \in T
    BY <1>1, <1>3, <2>2 DEF ListsAll
  <2> QED
    BY <2>1, <2>2
<1>6. ListsAll(Q, DF, {})
  BY <1>4, <1>5 DEF ListsAll
<1>7. ListsAll(R, W, DF)
  <2>1. ASSUME NEW x \in W, NEW y \in W \cup DF, SameKey(x, y) PROVE <<dictionary_key(y[2]), y[1]>> \in R
    <3>1. y \notin F
      BY <1>1, <2>1 DEF Apart, SameKey
    <3>2. y \in W \cup D
      BY <1>2, <3>1
    <3> QED
      BY <1>1, <2>1, <3>2 DEF ListsAll
  <2> QED
    BY <1>1, <2>1 DEF ListsAll
<1>8. Apart({}, W)
  BY DEF Apart
<1> QED
  BY <1>1, <1>3, <1>6, <1>7, <1>8, ListsNothing DEF Full, DF

\* A full window is handed over.
LEMMA FullHanded ==
    ASSUME NEW D, NEW S, NEW W, NEW R, Full(D, S, {}, {}, W, R)
    PROVE  Full(D, S, W, R, {}, {})
<1>1. D \cup {} \cup W = D \cup W \cup {}
  OBVIOUS
<1>2. Apart(W, {})
  BY DEF Apart
<1> QED
  BY <1>1, <1>2, ListsNothing DEF Full

\* What is held back is dropped.
LEMMA FullDropped ==
    ASSUME NEW D, NEW S, NEW F, NEW T, NEW W, NEW R, Full(D, S, F, T, W, R)
    PROVE  Full(D, S, F, T, {}, {})
<1>1. OneId(D \cup F \cup {})
  BY DEF Full, OneId
<1>2. Apart(F, {})
  BY DEF Apart
<1> QED
  BY <1>1, <1>2, ListsNothing DEF Full

\* A window in flight and the one behind it, as one.
LEMMA FullJoined ==
    ASSUME NEW D, NEW S, NEW F, NEW T, NEW W, NEW R, Full(D, S, F, T, W, R),
           NEW Q, Q = {e \in T : \A f \in R : f[1] # e[1]} \cup R
    PROVE  Full(D, S, F \cup W, Q, {}, {})
<1> DEFINE FW == F \cup W
<1>1. OneId(D \cup F \cup W) /\ Apart(F, W) /\ ListsAll(S, D, {}) /\ ListsAll(T, F, D) /\ ListsAll(R, W, D)
  BY DEF Full
<1>2. \A x : x \in FW <=> x \in F \/ x \in W
  OBVIOUS
<1>3. D \cup FW \cup {} = D \cup F \cup W
  OBVIOUS
<1> HIDE DEF FW
<1>4. ASSUME NEW x \in FW, NEW y \in FW \cup D, SameKey(x, y) PROVE <<dictionary_key(y[2]), y[1]>> \in Q
  <2> DEFINE e == <<dictionary_key(y[2]), y[1]>>
  <2>1. e[1] = dictionary_key(y[2])
    OBVIOUS
  <2> HIDE DEF e
  <2>2. CASE x \in F
    <3>1. y \notin W
      BY <1>1, <1>4, <2>2 DEF Apart
    <3>2. y \in F \cup D
      BY <1>2, <3>1
    <3>3. e \in T
      BY <1>1, <1>4, <2>2, <3>2 DEF ListsAll, e
    <3>4. ASSUME NEW f \in R, f[1] = e[1] PROVE FALSE
      <4>1. PICK z \in W : f[1] = dictionary_key(z[2])
        BY <1>1 DEF ListsAll
      <4>2. SameKey(x, z)
        BY <1>4, <2>1, <3>4, <4>1 DEF SameKey
      <4> QED
        BY <1>1, <2>2, <4>2 DEF Apart
    <3> QED
      BY <3>3, <3>4 DEF e
  <2>3. CASE x \in W
    <3>1. y \notin F
      BY <1>1, <1>4, <2>3 DEF Apart, SameKey
    <3>2. y \in W \cup D
      BY <1>2, <3>1
    <3> QED
      BY <1>1, <1>4, <2>3, <3>2 DEF ListsAll
  <2> QED
    BY <1>2, <2>2, <2>3
<1>5. ASSUME NEW e \in Q PROVE \E x \in FW : e[1] = dictionary_key(x[2])
  <2>1. CASE e \in T
    BY <1>1, <1>2, <2>1 DEF ListsAll
  <2>2. CASE e \in R
    BY <1>1, <1>2, <2>2 DEF ListsAll
  <2> QED
    BY <2>1, <2>2
<1>6. ListsAll(Q, FW, D)
  BY <1>4, <1>5 DEF ListsAll
<1>7. Apart(FW, {})
  BY DEF Apart
<1> QED
  BY <1>1, <1>3, <1>6, <1>7, ListsNothing DEF Full, FW

\* What the cache, the filter and the counters handed over leave out: nothing that is held
\* back, no term that has a row, no id of the window being filled.
CacheComplete ==
    /\ mode # "plain" => flight.id2str \cup rows.id2str \subseteq terms
    /\ mode = "plain" => terms = {}
    /\ filtered => mode = "bulk" /\ \A x \in AllRows(rows) : x[2] \in seen
    /\ flight # NoRows => \A x \in rows.id2str : x[1][2] >= issued[x[1][1]]
    /\ \A g \in Tag : issued[g] <= next[g]
    /\ mode # "bulk" => issued = Zero

\* What is to be shown of the state after a step.
LEMMA CompleteAfter ==
    ASSUME Full(db.id2str, db.str2id, flight.id2str, flight.str2id, rows.id2str, rows.str2id)', CacheComplete'
    PROVE  Complete'
<1>1. StoredComplete'
  BY DEF Full, StoredComplete
<1>2. Work'.rows = rows' /\ Work'.terms = terms' /\ Work'.seen = seen' /\ Work'.next = next'
  BY DEF Work
<1>3. WorkComplete(Work)'
  BY <1>2 DEF WorkComplete, Full, CacheComplete, AllRows
<1> QED
  BY <1>1, <1>3 DEF Complete, CacheComplete

\* The facts about the present state that the steps below start from.
LEMMA CompleteNow ==
    ASSUME Sound, Complete
    PROVE  /\ StoredComplete /\ WorkComplete(Work) /\ CacheComplete /\ OneId(AllRows(rows))
           /\ Full(db.id2str, db.str2id, flight.id2str, flight.str2id, rows.id2str, rows.str2id)
<1>1. StoredComplete /\ WorkComplete(Work) /\ (mode # "bulk" => issued = Zero)
  BY DEF Complete
<1>2. Work.rows = rows /\ Work.terms = terms /\ Work.seen = seen /\ Work.next = next
  BY SoundNow, WorkType
<1>3. CacheComplete /\ OneId(AllRows(rows))
  BY <1>1, <1>2 DEF WorkComplete, CacheComplete
<1>4. Full(db.id2str, db.str2id, flight.id2str, flight.str2id, rows.id2str, rows.str2id)
  BY <1>1, <1>2 DEF WorkComplete, StoredComplete, Full, AllRows
<1> QED
  BY <1>1, <1>3, <1>4

\* The facts about the result of an encode that the steps below need.
LEMMA EncodeCompleteNow ==
    ASSUME Sound, Complete, NEW t \in Term, NEW crowded, NEW w, w = encode_into(t, crowded),
           mode = "plain" => ~RepeatsNewPart(t), mode = "bulk" => ~CollidesInFlight(t)
    PROVE  /\ Full(db.id2str, db.str2id, flight.id2str, flight.str2id, w.rows.id2str, w.rows.str2id)
           /\ mode # "plain" => flight.id2str \cup w.rows.id2str \subseteq w.terms
           /\ filtered => mode = "bulk" /\ \A x \in AllRows(w.rows) : x[2] \in w.seen
           /\ flight # NoRows => \A x \in w.rows.id2str : x[1][2] >= issued[x[1][1]]
           /\ \A g \in Tag : issued[g] <= w.next[g]
<1>1. Typed /\ StoredSound /\ ModeSound /\ WorkSound(Work)
  BY SoundNow
<1>2. StoredComplete /\ WorkComplete(Work)
  BY CompleteNow
<1>3. WorkComplete(w)
  BY <1>1, <1>2, EncodeIntoComplete
<1>4. Full(db.id2str, db.str2id, flight.id2str, flight.str2id, w.rows.id2str, w.rows.str2id)
  BY <1>2, <1>3 DEF WorkComplete, StoredComplete, Full, AllRows
<1> QED
  BY <1>3, <1>4 DEF WorkComplete

\* An encode outside a scope whose batch is written.
LEMMA EncodePlainComplete ==
    ASSUME Sound, Complete, RepeatsOutside = FALSE, NEW t \in Term, EncodePlain(t)
    PROVE  Complete'
<1>1. PICK w : w = encode_into(t, FALSE)
  OBVIOUS
<1>2. /\ mode = "plain" /\ ~RepeatsNewPart(t) /\ next' = w.next /\ db' = Stored(w.rows, w.counters)
      /\ UNCHANGED <<mode, rows, terms, seen, filtered, flight, issued, lost>>
  BY <1>1 DEF EncodePlain, load
<1>3. Typed /\ ModeSound /\ CacheComplete
  BY SoundNow, CompleteNow
<1>4. flight = NoRows /\ rows = NoRows
  BY <1>2, <1>3 DEF ModeSound
<1>5. OneRow(AllRows(w.rows))
  BY <1>1, EncodeNow
<1>6. /\ Full(db.id2str, db.str2id, flight.id2str, flight.str2id, w.rows.id2str, w.rows.str2id)
      /\ \A g \in Tag : issued[g] <= w.next[g]
  BY <1>1, <1>2, EncodeCompleteNow
<1> DEFINE D == db.id2str
           S == db.str2id
           W == w.rows.id2str
           R == w.rows.str2id
<1>7. OneRow(D \cup W)
  BY <1>4, <1>5, NoRowsType DEF AllRows
<1>8. db'.id2str = D \cup W /\ db'.str2id = {e \in S : \A f \in R : f[1] # e[1]} \cup R
  BY <1>2, <1>7, StoredRows
<1>9. Full(D, S, {}, {}, W, R)
  BY <1>4, <1>6, NoRowsType
<1> DEFINE Q == db'.str2id
<1>10. Q = {e \in S : \A f \in R : f[1] # e[1]} \cup R
  BY <1>8
<1>11. Full(D \cup W, Q, {}, {}, {}, {})
  <2> HIDE DEF D, S, W, R, Q
  <2>1. Full(D, S, W, R, {}, {})
    BY <1>9, FullHanded
  <2> QED
    BY <1>10, <2>1, FullTaken
<1>12. Full(db.id2str, db.str2id, flight.id2str, flight.str2id, rows.id2str, rows.str2id)'
  BY <1>2, <1>4, <1>8, <1>11, NoRowsType
<1>13. CacheComplete'
  BY <1>2, <1>3, <1>4, <1>6 DEF CacheComplete
<1> QED
  BY <1>12, <1>13, CompleteAfter

\* An encode in a scope.
LEMMA EncodeInScopeComplete ==
    ASSUME Sound, Complete, NEW t \in Term, EncodeInScope(t)
    PROVE  Complete'
<1>1. PICK w : w = encode_into(t, FALSE)
  OBVIOUS
<1>2. /\ mode = "scope" /\ next' = w.next /\ rows' = w.rows /\ terms' = w.terms
      /\ UNCHANGED <<db, mode, seen, filtered, flight, issued, lost>>
  BY <1>1 DEF EncodeInScope, load
<1>3. Typed /\ ModeSound /\ CacheComplete
  BY SoundNow, CompleteNow
<1>4. /\ Full(db.id2str, db.str2id, flight.id2str, flight.str2id, w.rows.id2str, w.rows.str2id)
      /\ mode # "plain" => flight.id2str \cup w.rows.id2str \subseteq w.terms
      /\ \A g \in Tag : issued[g] <= w.next[g]
  BY <1>1, <1>2, EncodeCompleteNow
<1>5. flight = NoRows /\ filtered = FALSE
  BY <1>2, <1>3 DEF ModeSound, CacheComplete, Typed
<1>6. Full(db.id2str, db.str2id, flight.id2str, flight.str2id, rows.id2str, rows.str2id)'
  BY <1>2, <1>4
<1>7. CacheComplete'
  BY <1>2, <1>3, <1>4, <1>5 DEF CacheComplete
<1> QED
  BY <1>6, <1>7, CompleteAfter

\* Steps that leave the rows alone: a refused batch, the start of a scope, nothing.
LEMMA QuietComplete ==
    ASSUME Sound, Complete, (\E t \in Term : EncodePlainFails(t)) \/ begin \/ UNCHANGED dictionary_vars
    PROVE  Complete'
<1>1. Typed /\ ModeSound /\ CacheComplete
      /\ Full(db.id2str, db.str2id, flight.id2str, flight.str2id, rows.id2str, rows.str2id)
  BY SoundNow, CompleteNow
<1>2. /\ UNCHANGED <<db, rows, terms, seen, filtered, flight, issued>>
      /\ next' \in Counts /\ \A g \in Tag : next[g] <= next'[g]
      /\ mode' = mode \/ (mode = "plain" /\ mode' = "scope")
  <2>1. CASE \E t \in Term : EncodePlainFails(t)
    <3>1. PICK t \in Term : EncodePlainFails(t)
      BY <2>1
    <3>2. PICK w : w = encode_into(t, FALSE)
      OBVIOUS
    <3>3. next' = w.next /\ UNCHANGED <<db, mode, rows, terms, seen, filtered, flight, issued>>
      BY <3>1, <3>2 DEF EncodePlainFails, load, held
    <3>4. w.next \in Counts /\ \A g \in Tag : next[g] <= w.next[g]
      BY <3>2, EncodeNow
    <3> QED
      BY <3>3, <3>4
  <2>2. CASE begin
    BY <1>1, <2>2 DEF begin, held, load, Typed, Counts
  <2>3. CASE UNCHANGED dictionary_vars
    BY <1>1, <2>3 DEF dictionary_vars, held, load, Typed, Counts
  <2> QED
    BY <2>1, <2>2, <2>3
<1>3. \A g \in Tag : issued[g] <= next'[g]
  <2>1. \A g \in Tag : issued[g] \in Nat /\ next[g] \in Nat /\ next'[g] \in Nat /\ issued[g] <= next[g]
    BY <1>1, <1>2 DEF Typed, Counts, CacheComplete
  <2> QED
    BY <1>2, <2>1
<1>4. mode' # mode => flight.id2str = {} /\ rows.id2str = {} /\ filtered = FALSE
  BY <1>1, <1>2, NoRowsType DEF ModeSound, CacheComplete, Typed
<1>5. AllRows(rows)' = AllRows(rows)
  BY <1>2 DEF AllRows
<1>6. CacheComplete'
  BY <1>1, <1>2, <1>3, <1>4, <1>5 DEF CacheComplete
<1>7. Full(db.id2str, db.str2id, flight.id2str, flight.str2id, rows.id2str, rows.str2id)'
  BY <1>1, <1>2
<1> QED
  BY <1>6, <1>7, CompleteAfter

\* The start of a load: it has a filter only if the dictionary is empty.
LEMMA StartBulkComplete ==
    ASSUME Sound, Complete, start_bulk
    PROVE  Complete'
<1>1. /\ mode = "plain" /\ mode' = "bulk" /\ filtered' = (next = Zero)
      /\ UNCHANGED <<db, next, rows, counters, terms, seen, flight, issued, given, lost>>
  BY DEF start_bulk, held, Empty
<1>2. /\ Typed /\ ModeSound /\ CacheComplete /\ AllRows(rows) \subseteq Row
      /\ Below(AllRows(rows), counters) /\ \A g \in Tag : counters[g] <= next[g]
      /\ Full(db.id2str, db.str2id, flight.id2str, flight.str2id, rows.id2str, rows.str2id)
  BY SoundNow, CompleteNow
<1>3. flight.id2str = {} /\ rows.id2str = {} /\ flight = NoRows
  BY <1>1, <1>2, NoRowsType DEF ModeSound
<1>4. ASSUME next = Zero, NEW x \in AllRows(rows) PROVE FALSE
  <2>1. x[1][1] \in Tag /\ x[1][2] \in Nat
    BY <1>2, RowParts
  <2>2. x[1][2] < counters[x[1][1]]
    BY <1>2 DEF Below
  <2>3. counters[x[1][1]] \in Nat /\ counters[x[1][1]] <= next[x[1][1]] /\ next[x[1][1]] = 0
    BY <1>2, <1>4, <2>1 DEF Typed, Counts, Zero
  <2> QED
    BY <2>1, <2>2, <2>3
<1>5. AllRows(rows)' = AllRows(rows)
  BY <1>1 DEF AllRows
<1>6. filtered' => \A x \in AllRows(rows)' : x[2] \in seen'
  BY <1>1, <1>4, <1>5
<1>7. CacheComplete'
  BY <1>1, <1>2, <1>3, <1>6 DEF CacheComplete
<1>8. Full(db.id2str, db.str2id, flight.id2str, flight.str2id, rows.id2str, rows.str2id)'
  BY <1>1, <1>2
<1> QED
  BY <1>7, <1>8, CompleteAfter

\* The end of a scope, and a crash.
LEMMA ScopeEndComplete ==
    ASSUME Sound, Complete, commit \/ rollback \/ CrashAndOpen
    PROVE  Complete'
<1>1. /\ mode # "bulk" /\ mode' = "plain" /\ rows' = NoRows /\ terms' = {}
      /\ UNCHANGED <<seen, filtered, flight, issued>>
  BY DEF commit, rollback, CrashAndOpen, Release, load
<1>2. /\ Typed /\ ModeSound /\ CacheComplete /\ OneRow(AllRows(rows))
      /\ Full(db.id2str, db.str2id, flight.id2str, flight.str2id, rows.id2str, rows.str2id)
  BY SoundNow, CompleteNow
<1>3. flight = NoRows /\ filtered = FALSE /\ issued = Zero
  BY <1>1, <1>2 DEF ModeSound, CacheComplete, Typed
<1>4. \A g \in Tag : issued'[g] <= next'[g]
  <2>1. next' \in Counts
    BY <1>2 DEF commit, rollback, CrashAndOpen, Typed
  <2> QED
    BY <1>1, <1>3, <2>1 DEF Zero, Counts
<1>5. CacheComplete'
  BY <1>1, <1>3, <1>4, NoRowsType DEF CacheComplete
<1> DEFINE D == db.id2str
           S == db.str2id
           W == rows.id2str
           R == rows.str2id
           Q == db'.str2id
<1>6. Full(D, S, {}, {}, W, R)
  BY <1>2, <1>3, NoRowsType
<1>7. CASE commit
  <2>1. db' = Stored(rows, counters)
    BY <1>7 DEF commit
  <2>2. OneRow(D \cup W)
    BY <1>2, <1>3, NoRowsType DEF AllRows
  <2>3. db'.id2str = D \cup W /\ Q = {e \in S : \A f \in R : f[1] # e[1]} \cup R
    BY <2>1, <2>2, StoredRows
  <2>4. Full(D \cup W, Q, {}, {}, {}, {})
    <3> HIDE DEF D, S, W, R, Q
    <3>1. Full(D, S, W, R, {}, {})
      BY <1>6, FullHanded
    <3> QED
      BY <2>3, <3>1, FullTaken
  <2>5. Full(db.id2str, db.str2id, flight.id2str, flight.str2id, rows.id2str, rows.str2id)'
    BY <1>1, <1>3, <2>3, <2>4, NoRowsType
  <2> QED
    BY <1>5, <2>5, CompleteAfter
<1>8. CASE rollback \/ CrashAndOpen
  <2>1. db' = db
    BY <1>8 DEF rollback, CrashAndOpen
  <2>2. Full(D, S, {}, {}, {}, {})
    <3> HIDE DEF D, S, W, R
    <3> QED
      BY <1>6, FullDropped
  <2>3. Full(db.id2str, db.str2id, flight.id2str, flight.str2id, rows.id2str, rows.str2id)'
    BY <1>1, <1>3, <2>1, <2>2, NoRowsType
  <2> QED
    BY <1>5, <2>3, CompleteAfter
<1> QED
  BY <1>7, <1>8

\* An encode of a load, whichever way its window moves on.
LEMMA EncodeInLoadComplete ==
    ASSUME Sound, Complete, CollisionsInFlight = FALSE, NEW t \in Term, EncodeInLoad(t)
    PROVE  Complete'
<1>1. PICK crowded \in BOOLEAN : \E w :
               /\ w = encode_into(t, crowded)
               /\ mode = "bulk" /\ (CollisionsInFlight \/ ~CollidesInFlight(t))
               /\ next' = w.next /\ counters' = w.counters /\ seen' = w.seen
               /\ given' = given \cup {<<w.id, t>>} /\ UNCHANGED <<mode, filtered, lost>>
               /\ WindowStays(w) \/ WindowTaken(w) \/ WindowHanded(w)
  BY EncodeInLoadIs
<1>2. PICK w :
               /\ w = encode_into(t, crowded) /\ mode = "bulk" /\ ~CollidesInFlight(t)
               /\ next' = w.next /\ seen' = w.seen /\ UNCHANGED <<mode, filtered>>
               /\ WindowStays(w) \/ WindowTaken(w) \/ WindowHanded(w)
  BY <1>1
<1>3. Typed
  BY SoundNow
<1>4. OneRow(AllRows(w.rows)) /\ w.next \in Counts
  BY <1>2, EncodeNow
<1> DEFINE D == db.id2str
           S == db.str2id
           F == flight.id2str
           T == flight.str2id
           W == w.rows.id2str
           R == w.rows.str2id
           Q == db'.str2id
<1>5. /\ Full(D, S, F, T, W, R)
      /\ F \cup W \subseteq w.terms
      /\ filtered => \A x \in AllRows(w.rows) : x[2] \in w.seen
      /\ flight # NoRows => \A x \in W : x[1][2] >= issued[x[1][1]]
      /\ \A g \in Tag : issued[g] <= w.next[g]
  BY <1>2, EncodeCompleteNow
<1>6. OneRow(D \cup F)
  BY <1>4, OneRowFewer DEF AllRows
<1>7. ASSUME TakeIn(w.terms)
      PROVE  /\ db'.id2str = D \cup F /\ Full(D \cup F, Q, {}, {}, W, R) /\ W \subseteq terms'
  <2>1. /\ flight # NoRows /\ db'.id2str = D \cup F
        /\ Q = {e \in S : \A f \in T : f[1] # e[1]} \cup T
        /\ \A x \in w.terms : x[1][2] >= issued[x[1][1]] => x \in terms'
    BY <1>3, <1>6, <1>7, TakeInRows
  <2>2. Full(D \cup F, Q, {}, {}, W, R)
    <3> HIDE DEF D, S, F, T, W, R, Q
    <3> QED
      BY <1>5, <2>1, FullTaken
  <2>3. W \subseteq terms'
    BY <1>5, <2>1
  <2> QED
    BY <2>1, <2>2, <2>3
<1> DEFINE After == /\ Full(db.id2str, db.str2id, flight.id2str, flight.str2id, rows.id2str, rows.str2id)'
                    /\ flight'.id2str \cup rows'.id2str \subseteq terms'
                    /\ AllRows(rows)' = AllRows(w.rows)
                    /\ flight' # NoRows => \A x \in rows'.id2str : x[1][2] >= issued'[x[1][1]]
                    /\ \A g \in Tag : issued'[g] <= w.next[g]
<1>8. ASSUME WindowStays(w) PROVE After
  <2>1. db' = db /\ flight' = flight /\ issued' = issued /\ rows' = w.rows /\ terms' = w.terms
    BY <1>8 DEF WindowStays
  <2>2. AllRows(rows)' = AllRows(w.rows)
    BY <2>1 DEF AllRows
  <2>3. Full(db.id2str, db.str2id, flight.id2str, flight.str2id, rows.id2str, rows.str2id)'
    BY <1>5, <2>1
  <2> QED
    BY <1>5, <2>1, <2>2, <2>3
<1>9. ASSUME WindowTaken(w) PROVE After
  <2>1. TakeIn(w.terms) /\ rows' = w.rows /\ flight' = NoRows /\ issued' = issued
    BY <1>9 DEF WindowTaken
  <2>2. db'.id2str = D \cup F /\ Full(D \cup F, Q, {}, {}, W, R) /\ W \subseteq terms'
    BY <1>7, <2>1
  <2>3. AllRows(rows)' = AllRows(w.rows)
    BY <2>1, <2>2, NoRowsType DEF AllRows
  <2>4. Full(db.id2str, db.str2id, flight.id2str, flight.str2id, rows.id2str, rows.str2id)'
    BY <2>1, <2>2, NoRowsType
  <2> QED
    BY <1>5, <2>1, <2>2, <2>3, <2>4, NoRowsType
<1>10. ASSUME WindowHanded(w) PROVE After
  <2>1. rows' = NoRows /\ flight' = w.rows /\ issued' = w.next
    BY <1>10 DEF WindowHanded
  <2>2. db'.id2str = D \cup F /\ Full(D \cup F, Q, {}, {}, W, R) /\ W \subseteq terms'
    <3>1. CASE flight = NoRows
      <4>1. db' = db /\ terms' = w.terms
        BY <1>10, <3>1 DEF WindowHanded
      <4>2. F = {} /\ T = {} /\ D \cup F = D
        BY <3>1, NoRowsType
      <4>3. Full(D, S, {}, {}, W, R)
        BY <1>5, <4>2
      <4> QED
        BY <1>5, <4>1, <4>2, <4>3
    <3>2. CASE flight # NoRows
      <4>1. TakeIn(w.terms)
        BY <1>10, <3>2 DEF WindowHanded
      <4> QED
        BY <1>7, <4>1
    <3> QED
      BY <3>1, <3>2
  <2>3. AllRows(rows)' = AllRows(w.rows)
    BY <2>1, <2>2, NoRowsType DEF AllRows
  <2>4. Full(D \cup F, Q, W, R, {}, {})
    BY <2>2, FullHanded
  <2>5. Full(db.id2str, db.str2id, flight.id2str, flight.str2id, rows.id2str, rows.str2id)'
    BY <2>1, <2>2, <2>4, NoRowsType
  <2>6. \A g \in Tag : issued'[g] <= w.next[g]
    BY <1>4, <2>1 DEF Counts
  <2> QED
    BY <2>1, <2>2, <2>3, <2>5, <2>6, NoRowsType
<1>11. After
  BY <1>2, <1>8, <1>9, <1>10
<1>12. CacheComplete'
  BY <1>2, <1>5, <1>11 DEF CacheComplete
<1> QED
  BY <1>11, <1>12, CompleteAfter

\* The end of a load: both windows.
LEMMA FinishBulkComplete ==
    ASSUME Sound, Complete, finish_bulk
    PROVE  Complete'
<1>1. /\ db' = Stored(Over(flight, rows), counters)
      /\ mode' = "plain" /\ rows' = NoRows /\ terms' = {} /\ filtered' = FALSE /\ flight' = NoRows
      /\ issued' = Zero /\ next' = next
  BY DEF finish_bulk, Release
<1>2. /\ Typed /\ OneRow(AllRows(rows))
      /\ Full(db.id2str, db.str2id, flight.id2str, flight.str2id, rows.id2str, rows.str2id)
  BY SoundNow, CompleteNow
<1> DEFINE D == db.id2str
           S == db.str2id
           F == flight.id2str
           T == flight.str2id
           W == rows.id2str
           R == rows.str2id
           new == Over(flight, rows)
           N == new.str2id
           Q == db'.str2id
<1>3. OneRow(F \cup W) /\ OneRow(D \cup (F \cup W))
  BY <1>2, OneRowFewer DEF AllRows
<1>4. new.id2str = F \cup W
  BY <1>3, OverRows
<1>5. N = {e \in T : \A f \in R : f[1] # e[1]} \cup R
  BY DEF Over
<1>6. OneRow(D \cup new.id2str)
  BY <1>3, <1>4
<1>7. db'.id2str = D \cup (F \cup W) /\ Q = {e \in S : \A f \in N : f[1] # e[1]} \cup N
  BY <1>1, <1>4, <1>6, StoredRows
<1>8. Full(D \cup (F \cup W), Q, {}, {}, {}, {})
  <2> DEFINE FW == F \cup W
  <2>1. Full(D, S, F, T, W, R)
    BY <1>2
  <2>2. Full(D, S, FW, N, {}, {})
    <3> HIDE DEF D, S, F, T, W, R, N
    <3> QED
      BY <1>5, <2>1, FullJoined
  <2>3. Full(D \cup FW, Q, {}, {}, {}, {})
    <3> HIDE DEF D, S, FW, N, Q
    <3> QED
      BY <1>7, <2>2, FullTaken
  <2> QED
    BY <2>3
<1>9. Full(db.id2str, db.str2id, flight.id2str, flight.str2id, rows.id2str, rows.str2id)'
  BY <1>1, <1>7, <1>8, NoRowsType
<1>10. \A g \in Tag : issued'[g] <= next'[g]
  BY <1>1, <1>2 DEF Typed, Counts, Zero
<1>11. CacheComplete'
  BY <1>1, <1>10, NoRowsType DEF CacheComplete
<1> QED
  BY <1>9, <1>11, CompleteAfter

\* An empty store leaves nothing out.
LEMMA InitComplete ==
    ASSUME DictionaryInit
    PROVE  Complete
<1>1. /\ db = [id2str |-> {}, str2id |-> {}, next |-> Zero] /\ next = Zero /\ mode = "plain"
      /\ rows = NoRows /\ terms = {} /\ filtered = FALSE /\ flight = NoRows /\ issued = Zero
  BY DEF DictionaryInit
<1>2. db.id2str = {} /\ db.str2id = {}
  BY <1>1
<1>3. Typed
  BY InitSound, SoundNow
<1>4. StoredComplete
  BY <1>1, <1>2, NoRowsType, ListsNothing DEF StoredComplete
<1>5. WorkComplete(Work)
  <2>1. AllRows(rows) = {}
    BY <1>1, <1>2, NoRowsType DEF AllRows
  <2>2. OneId({}) /\ ListsAll({}, {}, {}) /\ Apart({}, {})
    BY ListsNothing DEF OneId, Apart
  <2>3. \A g \in Tag : issued[g] <= next[g]
    BY <1>1 DEF Zero
  <2> QED
    BY <1>1, <1>2, <1>3, <2>1, <2>2, <2>3, WorkType, NoRowsType DEF WorkComplete
<1> QED
  BY <1>1, <1>4, <1>5 DEF Complete

\* Every step leaves nothing out, without the two cases that do.
LEMMA NextComplete ==
    ASSUME Sound, Complete, RepeatsOutside = FALSE, CollisionsInFlight = FALSE, [DictionaryNext]_dictionary_vars
    PROVE  Complete'
<1>1. CASE \E t \in Term : EncodePlain(t)
  BY <1>1, EncodePlainComplete
<1>2. CASE (\E t \in Term : EncodePlainFails(t)) \/ begin \/ UNCHANGED dictionary_vars
  BY <1>2, QuietComplete
<1>3. CASE \E t \in Term : EncodeInScope(t)
  BY <1>3, EncodeInScopeComplete
<1>4. CASE commit \/ rollback \/ CrashAndOpen
  BY <1>4, ScopeEndComplete
<1>5. CASE start_bulk
  BY <1>5, StartBulkComplete
<1>6. CASE \E t \in Term : EncodeInLoad(t)
  BY <1>6, EncodeInLoadComplete
<1>7. CASE finish_bulk
  BY <1>7, FinishBulkComplete
<1> QED
  BY <1>1, <1>2, <1>3, <1>4, <1>5, <1>6, <1>7 DEF DictionaryNext

\* If no triple term repeats a new part outside a scope and no load meets a hash of the
\* window in flight, the dictionary leaves nothing out: a term has one id, the list of a key
\* names every id with that key, the cache of a scope or a load has every row held back, and
\* the filter of a load every term.
THEOREM DictionaryComplete ==
    ASSUME RepeatsOutside = FALSE, CollisionsInFlight = FALSE
    PROVE  DictionarySpec => []Complete
<1>1. DictionaryInit => Complete
  BY InitComplete
<1>2. Sound /\ Complete /\ [DictionaryNext]_dictionary_vars => Complete'
  BY NextComplete
<1> QED
  BY <1>1, <1>2, DictionarySound, PTL DEF DictionarySpec

\* Outside a load, a lookup of bytes that have a row finds the id of the row, and no other.
LEMMA LookupBytesIs ==
    ASSUME Sound, Complete, mode # "bulk", NEW i, NEW b \in Bytes, <<i, b>> \in AllRows(rows)
    PROVE  LookupBytes(b) = {i}
<1>1. /\ Typed /\ StoredSound /\ ModeSound /\ StoredComplete /\ CacheComplete /\ OneId(AllRows(rows))
      /\ terms \subseteq AllRows(rows)
  BY SoundNow, CompleteNow
<1>2. terms \subseteq Row /\ flight.id2str = {}
  BY <1>1, NoRowsType DEF Typed, ModeSound
<1>3. ASSUME NEW j, <<j, b>> \in AllRows(rows) PROVE j = i
  <2>1. <<j, b>> = <<i, b>>
    BY <1>1, <1>3 DEF OneId
  <2> QED
    BY <2>1
<1>4. \A j \in CachedAs(terms, b) : j = i
  BY <1>1, <1>2, <1>3, CachedAsIs
<1>5. \A j \in resolve(b) : j = i
  BY <1>1, <1>3, ResolveSound DEF AllRows
<1>6. <<i, b>> \in db.id2str => i \in resolve(b)
  BY <1>1, ResolveComplete
<1>7. CASE mode = "scope" /\ CachedAs(terms, b) # {}
  <2>1. LookupBytes(b) = CachedAs(terms, b)
    BY <1>7 DEF LookupBytes
  <2> QED
    BY <1>4, <1>7, <2>1
<1>8. CASE ~(mode = "scope" /\ CachedAs(terms, b) # {})
  <2>1. LookupBytes(b) = resolve(b)
    BY <1>8 DEF LookupBytes
  <2>2. <<i, b>> \notin rows.id2str
    <3>1. CASE mode = "plain"
      BY <1>1, <3>1, NoRowsType DEF ModeSound
    <3>2. CASE mode = "scope"
      <4>1. rows.id2str \subseteq terms
        BY <1>1, <3>2 DEF CacheComplete
      <4>2. <<i, b>> \in terms => i \in CachedAs(terms, b)
        BY <1>2, CachedAsIs
      <4> QED
        BY <1>8, <3>2, <4>1, <4>2
    <3> QED
      BY <1>1, <3>1, <3>2 DEF Typed
  <2>3. <<i, b>> \in db.id2str
    BY <1>2, <2>2 DEF AllRows
  <2> QED
    BY <1>5, <1>6, <2>1, <2>3
<1> QED
  BY <1>7, <1>8

\* Outside a load, a lookup of a term that has a row finds the id of the row, and no other.
LEMMA LookupIs ==
    ASSUME Sound, Complete, mode # "bulk", NEW i, NEW t \in Term, NEW b,
           <<i, b>> \in AllRows(rows), Means(AllRows(rows), b, t)
    PROVE  lookup(t) = {i}
<1>0. b \in Bytes
  <2> DEFINE y == <<i, b>>
  <2>1. y \in Row /\ y[2] = b
    BY SoundNow
  <2> HIDE DEF y
  <2> QED
    BY <2>1, RowParts
<1>1. CASE t \in Leaf
  <2>1. b = LeafBytes(t)
    BY <1>1 DEF Means
  <2> QED
    BY <1>0, <1>1, <2>1, LookupBytesIs DEF lookup
<1>2. CASE t \notin Leaf
  <2>1. TagOf(b) = "triple" /\ \A k \in 1..3 : <<b[2][k], LeafBytes(Parts[t][k])>> \in AllRows(rows)
    BY <1>2 DEF Means
  <2>2. t \in Triple /\ \A k \in 1..3 : Parts[t][k] \in Leaf
    BY <1>2, PartsType DEF Term
  <2>3. ASSUME NEW k \in 1..3 PROVE LookupBytes(LeafBytes(Parts[t][k])) = {b[2][k]}
    <3>1. LeafBytes(Parts[t][k]) \in Bytes
      BY <2>2, LeafBytesType
    <3>2. <<b[2][k], LeafBytes(Parts[t][k])>> \in AllRows(rows)
      BY <2>1
    <3> QED
      BY <3>1, <3>2, LookupBytesIs
  <2>4. b = TripleBytes(<<b[2][1], b[2][2], b[2][3]>>)
    <3>1. b = TripleBytes(b[2]) /\ b[2] \in Ids \X Ids \X Ids
      BY <1>0, <2>1, BytesTag
    <3>2. b[2] = <<b[2][1], b[2][2], b[2][3]>>
      BY <3>1
    <3> QED
      BY <3>1, <3>2
  <2>5. LookupBytes(b) = {i}
    BY <1>0, LookupBytesIs
  <2> DEFINE found == [k \in 1..3 |-> LookupBytes(LeafBytes(Parts[t][k]))]
             i1 == b[2][1]
             i2 == b[2][2]
             i3 == b[2][3]
             U == {LookupBytes(TripleBytes(<<x, y, z>>)) : x \in found[1], y \in found[2], z \in found[3]}
  <2>6. lookup(t) = UNION U
    BY <1>2 DEF lookup
  <2>7. found[1] = {i1} /\ found[2] = {i2} /\ found[3] = {i3}
    BY <2>3
  <2>8. LookupBytes(TripleBytes(<<i1, i2, i3>>)) = {i}
    BY <2>4, <2>5
  <2> HIDE DEF found, i1, i2, i3
  <2>9. U = {{i}}
    BY <2>7, <2>8
  <2> HIDE DEF U
  <2>10. UNION U = {i}
    BY <2>9
  <2> QED
    BY <2>6, <2>10
<1> QED
  BY <1>1, <1>2

\* Soundness and completeness are what a lookup needs.
LEMMA CompleteRoundTrip ==
    ASSUME Sound, Complete
    PROVE  RoundTrip
<1> SUFFICES ASSUME mode # "bulk", NEW x \in db.id2str \cup rows.id2str, NEW t \in decode(x[1])
             PROVE  lookup(t) = {x[1]}
  BY DEF RoundTrip
<1>1. PICK b : t \in Term /\ <<x[1], b>> \in AllRows(rows) /\ Means(AllRows(rows), b, t)
  BY DecodeIs
<1> QED
  BY <1>1, LookupIs

\* Every id that decodes is the one a lookup of its term finds, in a scope and outside one,
\* whichever terms share a hash and however many loads, scopes and crashes there were before
\* (resolve, lookup): if no triple term repeats a new part outside a scope, which the
\* repository's code does not guard against, and no load meets a hash of the window in flight.
THEOREM LookupExact ==
    ASSUME RepeatsOutside = FALSE, CollisionsInFlight = FALSE
    PROVE  DictionarySpec => []RoundTrip
<1>1. Sound /\ Complete => RoundTrip
  BY CompleteRoundTrip
<1> QED
  BY <1>1, DictionarySound, DictionaryComplete, PTL

=============================================================================
