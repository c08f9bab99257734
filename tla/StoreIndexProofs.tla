-------------------------- MODULE StoreIndexProofs --------------------------
(***************************************************************************)
(* That the spatial index omits nothing a query asks it for, and that the  *)
(* in-memory backend keeps the promise of the Storage trait: its journal,  *)
(* played back at any moment, is what was there when the scope opened.     *)
(***************************************************************************)
EXTENDS MemoryStore, SpatialIndex, FiniteSetTheorems, WellFoundedInduction, TLAPS

-----------------------------------------------------------------------------
(* The spatial index                                                       *)

\* Where a worker is between its update and the end of its refresh.
Behind == {"written", "refresh", "checked", "resurrected"}

\* The types the argument needs.  A quad brings the geometry it refers to into the dictionary.
SpatialTyped ==
    /\ stored \in SUBSET Quads /\ IsFiniteSet(stored)
    /\ dictionary \in Seq(Geometry) /\ Referenced \subseteq Interned
    /\ watermark \in Nat /\ quads_at_last_check \in Nat
    /\ pc \in [Worker -> {"idle", "purging", "query"} \cup Behind]
    /\ from \in [Worker -> Nat] /\ DOMAIN held = Worker
    /\ unsure \in BOOLEAN

\* The ids up to n.
Old(n) == {dictionary[i] : i \in {j \in DOMAIN dictionary : j <= n}}

\* What the watermark vouches for is in the tree, on the watchlist or overwritten.
MarkInv ==
    /\ watermark <= Count
    /\ Old(watermark) \subseteq tree \cup dormant \cup overwritten
    /\ \A w \in Worker : pc[w] \in {"refresh", "checked", "resurrected"} => from[w] <= watermark

\* Unless that is unsure, the number of quads tells whether the watchlist was looked at.
WatchInv ==
    /\ ~unsure => quads_at_last_check <= StoreLen
    /\ ~unsure /\ quads_at_last_check = StoreLen => dormant \cap Referenced \subseteq tree \cup overwritten
    /\ \A w \in Worker :
          pc[w] = "resurrected" /\ quads_at_last_check < StoreLen => dormant \cap Referenced \subseteq held[w]

SpatialInv == MarkInv /\ WatchInv /\ QueryComplete

-----------------------------------------------------------------------------
\* No step leaves the types.
LEMMA SpatialTypedKept ==
    ASSUME SpatialTyped, [SpatialNext]_spatial_vars
    PROVE  SpatialTyped' /\ StoreLen \in Nat
<1> USE DEF SpatialTyped, Behind
<1>0. StoreLen \in Nat /\ Count \in Nat
  BY FS_CardinalityType DEF StoreLen, Count
<1>1. ASSUME NEW w \in Worker, NEW q \in Quads, Intern(q)
      PROVE  /\ dictionary' \in Seq(Geometry)
             /\ Interned \subseteq Interned' /\ {ObjectOf[q]} \cap Geometry \subseteq Interned'
  <2>1. CASE ObjectOf[q] \in Geometry \ Interned
    <3>1. dictionary' = Append(dictionary, ObjectOf[q]) /\ ObjectOf[q] \in Geometry
      BY <1>1, <2>1 DEF Intern
    <3>2. DOMAIN dictionary' = DOMAIN dictionary \cup {Len(dictionary) + 1}
      BY <3>1
    <3>3. dictionary'[Len(dictionary) + 1] = ObjectOf[q] /\ \A i \in DOMAIN dictionary : dictionary'[i] = dictionary[i]
      BY <3>1
    <3> QED
      BY <3>1, <3>2, <3>3 DEF Interned
  <2>2. CASE ObjectOf[q] \notin Geometry \ Interned
    BY <1>1, <2>2 DEF Intern, Interned
  <2> QED
    BY <2>1, <2>2
<1>2. ASSUME NEW w \in Worker, apply_update(w) PROVE SpatialTyped'
  <2>1. pc' \in [Worker -> {"idle", "purging", "query"} \cup Behind] /\ UNCHANGED <<index, from, held, overwritten>> /\ unsure' \in BOOLEAN
    BY <1>2 DEF apply_update
  <2>2. CASE \E q \in Quads \ stored : stored' = stored \cup {q} /\ Intern(q)
    <3>1. PICK q \in Quads \ stored : stored' = stored \cup {q} /\ Intern(q)
      BY <2>2
    <3>2. IsFiniteSet(stored')
      BY <3>1, FS_AddElement
    <3>3. Referenced' \subseteq Referenced \cup ({ObjectOf[q]} \cap Geometry)
      BY <3>1 DEF Referenced
    <3> QED
      BY <1>1, <2>1, <3>1, <3>2, <3>3 DEF index
  <2>3. CASE \E q \in stored : stored' = stored \ {q} /\ UNCHANGED dictionary
    <3>1. IsFiniteSet(stored')
      BY <2>3, FS_RemoveElement
    <3>2. Referenced' \subseteq Referenced /\ Interned' = Interned
      BY <2>3 DEF Referenced, Interned
    <3> QED
      BY <2>1, <2>3, <3>1, <3>2 DEF index
  <2>4. CASE \E q \in Quads \ stored, r \in stored : stored' = (stored \ {r}) \cup {q} /\ Intern(q)
    <3>1. PICK q \in Quads \ stored, r \in stored : stored' = (stored \ {r}) \cup {q} /\ Intern(q)
      BY <2>4
    <3>2. IsFiniteSet(stored \ {r})
      BY FS_RemoveElement
    <3>3. IsFiniteSet(stored')
      BY <3>1, <3>2, FS_AddElement
    <3>4. Referenced' \subseteq Referenced \cup ({ObjectOf[q]} \cap Geometry)
      BY <3>1 DEF Referenced
    <3>5. stored' \subseteq Quads
      BY <3>1
    <3>6. UNCHANGED <<tree, watermark, dormant, quads_at_last_check>>
      BY <2>1 DEF index
    <3> QED
      BY <1>1, <2>1, <3>1, <3>3, <3>4, <3>5, <3>6
  <2> QED
    BY <1>2, <2>2, <2>3, <2>4 DEF apply_update
<1>3. ASSUME NEW w \in Worker, UpdateFails(w) PROVE SpatialTyped'
  <2>1. Referenced' = Referenced
    BY <1>3 DEF UpdateFails, Referenced
  <2> QED
    BY <1>1, <1>3, <2>1 DEF UpdateFails, index
<1>4. ASSUME NEW w \in Worker, RefreshStep(w) \/ StartPurge(w) \/ purge(w) \/ usable(w) \/ candidates(w) PROVE SpatialTyped'
  <2>1. Referenced' = Referenced /\ Interned' = Interned /\ UNCHANGED <<stored, dictionary>>
    BY <1>4 DEF RefreshStep, refresh, CheckLevel, resurrect, catch_up, StartPurge, purge, usable, candidates, Referenced, Interned
  <2>2. pc' \in [Worker -> {"idle", "purging", "query"} \cup Behind]
    BY <1>4 DEF RefreshStep, refresh, CheckLevel, resurrect, catch_up, StartPurge, purge, usable, candidates
  <2>3. from' \in [Worker -> Nat] /\ DOMAIN held' = Worker
    <3>1. CASE RefreshStep(w)
      BY <3>1 DEF RefreshStep, refresh, CheckLevel, resurrect, catch_up
    <3>2. CASE StartPurge(w) \/ purge(w) \/ usable(w) \/ candidates(w)
      BY <3>2 DEF StartPurge, purge, usable, candidates
    <3> QED
      BY <1>4, <3>1, <3>2
  <2>4. watermark' \in Nat /\ quads_at_last_check' \in Nat /\ unsure' \in BOOLEAN
    BY <1>0, <1>4 DEF RefreshStep, refresh, CheckLevel, resurrect, catch_up, StartPurge, purge, usable, candidates, index
  <2> QED
    BY <2>1, <2>2, <2>3, <2>4
<1>5. CASE UNCHANGED spatial_vars
  <2>1. Referenced' = Referenced /\ Interned' = Interned
    BY <1>5 DEF spatial_vars, Referenced, Interned
  <2>2. UNCHANGED <<stored, dictionary, tree, watermark, dormant, quads_at_last_check, pc, from, held, unsure, overwritten>>
    BY <1>5 DEF spatial_vars, index
  <2> QED
    BY <1>0, <2>1, <2>2
<1> QED
  BY <1>0, <1>2, <1>3, <1>4, <1>5 DEF SpatialNext

\* A write goes on while nobody reads, and sends its worker to the index.
LEMMA WriteKeeps ==
    ASSUME SpatialTyped, SpatialInv, NEW w \in Worker, apply_update(w)
    PROVE  SpatialInv'
<1> USE DEF SpatialTyped, SpatialInv, Behind
<1>1. /\ \A v \in Worker : pc[v] \notin Reading /\ UNCHANGED <<tree, watermark, dormant, quads_at_last_check, overwritten>>
      /\ pc' = [pc EXCEPT ![w] = "written"]
  BY DEF apply_update, NoReader, index
<1>2. \A v \in Worker : pc'[v] \notin Reading /\ pc'[w] = "written"
  BY <1>1 DEF Reading
<1>3. Old(watermark)' \subseteq Old(watermark) /\ watermark <= Count'
  <2>1. CASE dictionary' = dictionary
    BY <1>1, <2>1 DEF Old, MarkInv, Count
  <2>2. ASSUME NEW x \in Geometry, dictionary' = Append(dictionary, x) PROVE Old(watermark)' \subseteq Old(watermark) /\ watermark <= Count'
    <3>1. Len(dictionary') = Len(dictionary) + 1 /\ DOMAIN dictionary' = 1..(Len(dictionary) + 1) /\ DOMAIN dictionary = 1..Len(dictionary)
      BY <2>2
    <3>2. \A i \in 1..Len(dictionary) : dictionary'[i] = dictionary[i]
      BY <2>2
    <3>3. watermark <= Len(dictionary)
      BY DEF MarkInv, Count
    <3> QED
      BY <1>1, <3>1, <3>2, <3>3 DEF Old, Count
  <2> QED
    BY <2>1, <2>2 DEF apply_update, Intern
<1>4. ~unsure' => ~unsure /\ StoreLen < StoreLen'
  <2>1. CASE \E q \in Quads \ stored : stored' = stored \cup {q}
    <3>1. PICK q \in Quads \ stored : stored' = stored \cup {q}
      BY <2>1
    <3>2. Cardinality(stored') = Cardinality(stored) + 1 /\ Cardinality(stored) \in Nat
      BY <3>1, FS_AddElement, FS_CardinalityType
    <3> QED
      BY <3>2 DEF apply_update, StoreLen
  <2>2. CASE ~(stored \subseteq stored')
    BY <2>2 DEF apply_update
  <2> QED
    BY <2>1, <2>2 DEF apply_update
<1>5. StoreLen \in Nat /\ (~unsure' => StoreLen' \in Nat)
  <2>1. SpatialTyped'
    BY SpatialTypedKept DEF SpatialNext
  <2> QED
    BY <2>1, FS_CardinalityType DEF StoreLen
<1>6. QueryComplete'
  BY <1>2 DEF QueryComplete, Reading
<1>7. MarkInv'
  BY <1>1, <1>2, <1>3 DEF MarkInv, Reading
<1>8. WatchInv'
  BY <1>1, <1>2, <1>4, <1>5 DEF WatchInv, Reading
<1> QED
  BY <1>6, <1>7, <1>8

\* The end of a refresh: all that is interned is in the tree or on the watchlist, and what the
\* worker found on the watchlist is in the tree.
LEMMA CatchUpKeeps ==
    ASSUME SpatialTyped, SpatialInv, NEW w \in Worker, catch_up(w)
    PROVE  SpatialInv'
<1> USE DEF SpatialTyped, SpatialInv, Behind
<1>0. StoreLen \in Nat /\ Count \in Nat
  BY FS_CardinalityType DEF StoreLen, Count
<1>1. Referenced' = Referenced /\ StoreLen' = StoreLen /\ Count' = Count
  BY DEF catch_up, Referenced, StoreLen, Count
<1>2. pc[w] = "resurrected" /\ quads_at_last_check' = StoreLen /\ watermark' = Count
  BY <1>0 DEF catch_up, MarkInv
<1>3. pc'[w] = "idle" /\ \A v \in Worker \ {w} : pc'[v] = pc[v] /\ from'[v] = from[v] /\ held'[v] = held[v]
  BY DEF catch_up
<1>4. tree \subseteq tree' /\ held[w] \subseteq tree' /\ Fresh(from[w]) \subseteq tree' /\ dormant' = dormant \ held[w]
  BY DEF catch_up
<1>5. overwritten \subseteq overwritten' \cup tree'
  BY DEF catch_up
<1>6. MarkInv'
  <2>1. Old(watermark)' \subseteq Old(watermark) \cup Fresh(from[w])
    <3>1. dictionary' = dictionary /\ from[w] <= watermark /\ DOMAIN dictionary = 1..Count
      BY <1>2 DEF catch_up, MarkInv, Count
    <3> QED
      BY <1>0, <1>2, <3>1 DEF Old, Fresh
  <2> QED
    BY <1>0, <1>1, <1>2, <1>3, <1>4, <1>5, <2>1 DEF MarkInv
<1>7. (unsure /\ ~unsure') \/ ~unsure => dormant' \cap Referenced \subseteq tree' \cup overwritten'
  <2>1. CASE quads_at_last_check < StoreLen
    BY <1>2, <1>4, <2>1 DEF WatchInv
  <2>2. CASE ~unsure /\ quads_at_last_check = StoreLen
    BY <1>4, <1>5, <2>2 DEF WatchInv
  <2>3. CASE unsure /\ ~unsure'
    <3>1. ~(StoreLen <= quads_at_last_check)
      BY <2>3 DEF catch_up
    <3> QED
      BY <1>0, <2>1, <3>1
  <2> QED
    BY <1>0, <2>1, <2>2, <2>3 DEF WatchInv
<1>8. WatchInv'
  <2>1. ~unsure' => dormant' \cap Referenced \subseteq tree' \cup overwritten'
    BY <1>7
  <2> QED
    BY <1>0, <1>1, <1>2, <2>1 DEF WatchInv
<1>9. QueryComplete'
  <2>1. ASSUME NEW v \in Worker, pc'[v] = "query" 
        PROVE  Referenced \subseteq tree' \cup overwritten' \cup (IF unsure' THEN dormant' ELSE {})
    <3>1. pc[v] = "query"
      BY <1>3, <2>1
    <3>2. Referenced \subseteq tree \cup overwritten \cup (IF unsure THEN dormant ELSE {})
      BY <3>1 DEF QueryComplete
    <3>3. CASE ~unsure
      BY <1>4, <1>5, <3>2, <3>3
    <3>4. CASE unsure /\ unsure'
      BY <1>4, <1>5, <3>2, <3>4
    <3>5. CASE unsure /\ ~unsure'
      BY <1>4, <1>5, <1>7, <3>2, <3>5
    <3> QED
      BY <3>3, <3>4, <3>5
  <2> QED
    BY <1>1, <2>1 DEF QueryComplete
<1> QED
  BY <1>6, <1>8, <1>9

\* The rest of a refresh, purges and queries.
LEMMA SpatialKept ==
    ASSUME SpatialTyped, SpatialInv, [SpatialNext]_spatial_vars
    PROVE  SpatialInv'
<1> USE DEF SpatialTyped, SpatialInv, Behind
<1>0. StoreLen \in Nat /\ Count \in Nat
  BY FS_CardinalityType DEF StoreLen, Count
<1>1. ASSUME NEW w \in Worker, UpdateFails(w) PROVE SpatialInv'
  <2>1. /\ \A v \in Worker : pc[v] \notin Reading
        /\ UNCHANGED <<stored, tree, watermark, dormant, quads_at_last_check, pc, from, held, unsure, overwritten>>
    BY <1>1 DEF UpdateFails, NoReader, index
  <2>2. Old(watermark)' \subseteq Old(watermark) /\ watermark <= Count'
    <3>1. CASE dictionary' = dictionary
      BY <2>1, <3>1 DEF Old, MarkInv, Count
    <3>2. ASSUME NEW x \in Geometry, dictionary' = Append(dictionary, x) PROVE Old(watermark)' \subseteq Old(watermark) /\ watermark <= Count'
      <4>1. Len(dictionary') = Len(dictionary) + 1 /\ DOMAIN dictionary' = 1..(Len(dictionary) + 1) /\ DOMAIN dictionary = 1..Len(dictionary)
        BY <3>2
      <4>2. \A i \in 1..Len(dictionary) : dictionary'[i] = dictionary[i]
        BY <3>2
      <4>3. watermark <= Len(dictionary)
        BY DEF MarkInv, Count
      <4> QED
        BY <2>1, <4>1, <4>2, <4>3 DEF Old, Count
    <3> QED
      BY <1>1, <3>1, <3>2 DEF UpdateFails, Intern
  <2>3. Referenced' = Referenced /\ StoreLen' = StoreLen
    BY <2>1 DEF Referenced, StoreLen
  <2> QED
    BY <2>1, <2>2, <2>3 DEF MarkInv, WatchInv, QueryComplete
<1>2. ASSUME NEW w \in Worker,
             refresh(w) \/ CheckLevel(w) \/ resurrect(w) \/ StartPurge(w) \/ purge(w) \/ usable(w) \/ candidates(w)
      PROVE  /\ Referenced' = Referenced /\ StoreLen' = StoreLen /\ Count' = Count
             /\ watermark' = watermark /\ Old(watermark)' = Old(watermark)
             /\ ~purge(w) => unsure' = unsure /\ overwritten' = overwritten
  BY <1>2 DEF refresh, CheckLevel, resurrect, StartPurge, purge, usable, candidates, index, Referenced, StoreLen, Count, Old
<1>3. ASSUME NEW w \in Worker, refresh(w) PROVE SpatialInv'
  <2>1. /\ UNCHANGED <<tree, dormant, quads_at_last_check, held, unsure, overwritten>>
        /\ pc[w] = "written" /\ pc'[w] = "refresh" /\ from'[w] = watermark
    BY <1>3 DEF refresh, index
  <2>2. \A v \in Worker \ {w} : pc'[v] = pc[v] /\ from'[v] = from[v]
    BY <1>3 DEF refresh
  <2>3. MarkInv'
    BY <1>2, <1>3, <2>1, <2>2 DEF MarkInv
  <2>4. WatchInv' /\ QueryComplete'
    BY <1>2, <1>3, <2>1, <2>2 DEF WatchInv, QueryComplete
  <2> QED
    BY <2>3, <2>4
<1>4. ASSUME NEW w \in Worker, CheckLevel(w) PROVE SpatialInv'
  <2>1. /\ UNCHANGED <<tree, dormant, quads_at_last_check, held, unsure, overwritten>> /\ pc[w] = "refresh"
        /\ \A v \in Worker \ {w} : pc'[v] = pc[v] /\ from'[v] = from[v]
    BY <1>4 DEF CheckLevel, index
  <2>2. \/ pc'[w] = "idle" /\ quads_at_last_check = StoreLen
        \/ pc'[w] = "checked" /\ from' = from
    BY <1>4 DEF CheckLevel
  <2>3. MarkInv'
    BY <1>2, <1>4, <2>1, <2>2 DEF MarkInv
  <2>4. WatchInv' /\ QueryComplete'
    BY <1>2, <1>4, <2>1, <2>2 DEF WatchInv, QueryComplete
  <2> QED
    BY <2>3, <2>4
<1>5. ASSUME NEW w \in Worker, resurrect(w) PROVE SpatialInv'
  BY <1>0, <1>2, <1>5 DEF resurrect, index, MarkInv, WatchInv, QueryComplete
<1>6. ASSUME NEW w \in Worker, StartPurge(w) PROVE SpatialInv'
  <2>1. UNCHANGED <<tree, dormant, quads_at_last_check, from, unsure, overwritten>> /\ pc'[w] = "purging"
    BY <1>6 DEF StartPurge, index
  <2>2. \A v \in Worker \ {w} : pc'[v] = pc[v] /\ held'[v] = held[v]
    BY <1>6 DEF StartPurge
  <2> QED
    BY <1>2, <1>6, <2>1, <2>2 DEF MarkInv, WatchInv, QueryComplete
<1>7. ASSUME NEW w \in Worker, purge(w) PROVE SpatialInv'
  <2>1. /\ pc'[w] = "idle" /\ quads_at_last_check' = StoreLen /\ from' = from
        /\ \A v \in Worker \ {w} : pc'[v] = pc[v]
    BY <1>7 DEF purge
  <2>2. /\ tree' = held[w] \cap Referenced /\ dormant' = dormant \cup (held[w] \ Referenced)
        /\ overwritten' = (overwritten \cup (tree \ held[w])) \ tree'
        /\ unsure' = (unsure \/ (StoreLen # quads_at_last_check /\ dormant # {}))
    BY <1>7 DEF purge
  <2>3. /\ tree \subseteq tree' \cup dormant' \cup overwritten'
        /\ overwritten \subseteq tree' \cup overwritten' /\ dormant \subseteq dormant'
        /\ tree \cap Referenced \subseteq tree' \cup overwritten'
        /\ dormant' \cap Referenced = dormant \cap Referenced
    BY <2>2
  <2>4. MarkInv'
    BY <1>2, <1>7, <2>1, <2>3 DEF MarkInv
  <2>5. ~unsure' => dormant' \cap Referenced \subseteq tree' \cup overwritten'
    <3>1. CASE dormant = {}
      BY <2>3, <3>1
    <3>2. CASE ~unsure /\ StoreLen = quads_at_last_check
      BY <2>3, <3>2 DEF WatchInv
    <3> QED
      BY <2>2, <3>1, <3>2
  <2>6. WatchInv'
    BY <1>0, <1>2, <1>7, <2>1, <2>5 DEF WatchInv
  <2>7. QueryComplete'
    <3>1. ASSUME NEW v \in Worker, pc'[v] = "query"
          PROVE  Referenced \subseteq tree' \cup overwritten' \cup (IF unsure' THEN dormant' ELSE {})
      <4>1. Referenced \subseteq tree \cup overwritten \cup (IF unsure THEN dormant ELSE {})
        BY <2>1, <3>1 DEF QueryComplete
      <4> QED
        BY <2>2, <2>3, <4>1
    <3> QED
      BY <1>2, <1>7, <3>1 DEF QueryComplete
  <2> QED
    BY <2>4, <2>6, <2>7
<1>8. ASSUME NEW w \in Worker, usable(w) PROVE SpatialInv'
  <2>1. watermark = Count \/ watermark > Count
    BY <1>0, <1>8 DEF usable, is_current_for
  <2>2. Interned \subseteq tree \cup dormant \cup overwritten
    BY <1>0, <1>8 DEF usable, is_current_for, Interned, MarkInv, Old, Count
  <2>3. Referenced \subseteq tree \cup overwritten \cup (IF unsure THEN dormant ELSE {})
    BY <1>8, <2>2 DEF usable, is_current_for, WatchInv
  <2>4. /\ UNCHANGED <<tree, dormant, quads_at_last_check, from, held, unsure, overwritten>>
        /\ pc' = [pc EXCEPT ![w] = "query"]
    BY <1>8 DEF usable, index
  <2>5. \A v \in Worker : pc'[v] = pc[v] \/ (v = w /\ pc[v] = "idle" /\ pc'[v] = "query")
    BY <1>8, <2>4 DEF usable, SpatialTyped
  <2>6. Referenced' = Referenced /\ StoreLen' = StoreLen
    BY <1>2, <1>8
  <2>7. MarkInv'
    BY <1>2, <1>8, <2>4, <2>5 DEF MarkInv, usable, index
  <2>8. WatchInv'
    BY <2>4, <2>5, <2>6 DEF WatchInv
  <2>9. QueryComplete'
    BY <2>3, <2>4, <2>6 DEF QueryComplete
  <2> QED
    BY <2>7, <2>8, <2>9
<1>9. ASSUME NEW w \in Worker, candidates(w) PROVE SpatialInv'
  BY <1>2, <1>9 DEF candidates, index, MarkInv, WatchInv, QueryComplete
<1>10. CASE UNCHANGED spatial_vars
  <2>1. Referenced' = Referenced /\ StoreLen' = StoreLen /\ Count' = Count /\ Old(watermark)' = Old(watermark)
    BY <1>10 DEF spatial_vars, index, Referenced, StoreLen, Count, Old
  <2> QED
    BY <1>10, <2>1 DEF spatial_vars, index, MarkInv, WatchInv, QueryComplete
<1> QED
  BY <1>1, <1>3, <1>4, <1>5, <1>6, <1>7, <1>8, <1>9, <1>10, WriteKeeps, CatchUpKeeps DEF SpatialNext, RefreshStep

\* Whatever the other workers do meanwhile, a query that was told the index is current
\* (restrict asks is_current_for) finds every geometry the store refers to, but for what a
\* purge overwrote and what a deletion or a purge hides from the watchlist.
THEOREM QueriesAlwaysComplete == SpatialSpec => []QueryComplete
<1>1. SpatialInit => SpatialTyped
  <2> SUFFICES ASSUME SpatialInit PROVE SpatialTyped
    OBVIOUS
  <2>1. stored = {} /\ IsFiniteSet(stored) /\ Referenced = {}
    BY FS_EmptySet DEF SpatialInit, Referenced
  <2>2. dictionary \in Seq(Geometry) /\ stored \in SUBSET Quads /\ watermark \in Nat /\ quads_at_last_check \in Nat
    BY DEF SpatialInit
  <2>3. pc \in [Worker -> {"idle", "purging", "query"} \cup Behind] /\ from \in [Worker -> Nat] /\ DOMAIN held = Worker
    BY DEF SpatialInit
  <2>4. unsure \in BOOLEAN
    BY DEF SpatialInit
  <2> QED
    BY <2>1, <2>2, <2>3, <2>4 DEF SpatialTyped
<1>2. SpatialInit => SpatialInv
  BY FS_EmptySet DEF SpatialInit, SpatialInv, MarkInv, WatchInv, QueryComplete, StoreLen, Count, Old
<1>3. SpatialInv => QueryComplete
  BY DEF SpatialInv
<1>4. SpatialTyped /\ [SpatialNext]_spatial_vars => SpatialTyped'
  BY SpatialTypedKept
<1>5. SpatialTyped /\ SpatialInv /\ [SpatialNext]_spatial_vars => SpatialInv'
  BY SpatialKept
<1> QED
  BY <1>1, <1>2, <1>3, <1>4, <1>5, PTL DEF SpatialSpec

-----------------------------------------------------------------------------
(* The journal, played back                                                *)

\* Well-founded induction over the naturals, for sets: the library's rule takes a predicate.
LEMMA LeastOf ==
    ASSUME NEW T \in SUBSET Nat, T # {}
    PROVE  \E m \in T : \A k \in T : m <= k
<1> DEFINE R == OpToRel(<, Nat)
<1>1. IsWellFoundedOn(R, Nat)
  BY NatLessThanWellFounded
<1>2. \A x, y \in Nat : x < y => <<x, y>> \in R
  BY DEF OpToRel
<1> HIDE DEF R
<1>3. PICK x \in T : \A y \in T : ~(<<y, x>> \in R)
  BY <1>1, WFMin
<1>4. \A k \in T : ~(k < x)
  <2> TAKE k \in T
  <2>1. k \in Nat /\ x \in Nat
    OBVIOUS
  <2>2. k < x => <<k, x>> \in R
    BY <1>2, <2>1, Zenon
  <2> QED
    BY <1>3, <2>2, Zenon
<1> QED
  BY <1>4

\* A set of naturals that holds zero and every successor of its members is all of them.
LEMMA Induction ==
    ASSUME NEW S \in SUBSET Nat, 0 \in S, \A n \in S : n + 1 \in S
    PROVE  S = Nat
<1> SUFFICES ASSUME Nat \ S # {} PROVE FALSE
  OBVIOUS
<1> PICK m \in Nat \ S : \A k \in Nat \ S : m <= k
  BY LeastOf
<1>1. m - 1 \in Nat /\ m - 1 \in S
  OBVIOUS
<1> QED
  BY <1>1

\* The stores a rollback goes through, from st back to the start of journal j.
Playback(st, j, play) ==
    /\ play = [n \in 0..Len(j) |-> play[n]] /\ play[0] = st
    /\ \A n \in 0..(Len(j) - 1) : play[n + 1] = Undone(play[n], j[Len(j) - n])

\* There is such a sequence of stores; ...
LEMMA PlaybackExists ==
    ASSUME NEW E, NEW j \in Seq(E), NEW st
    PROVE  \E play : Playback(st, j, play)
<1> DEFINE Upto(k, g) == /\ g = [n \in 0..k |-> g[n]] /\ g[0] = st
                         /\ \A n \in 0..(k - 1) : g[n + 1] = Undone(g[n], j[Len(j) - n])
           S == {k \in Nat : \E g : Upto(k, g)}
<1>1. 0 \in S
  <2>1. Upto(0, [n \in 0..0 |-> st])
    OBVIOUS
  <2> QED
    BY <2>1
<1>2. ASSUME NEW k \in Nat, NEW g, Upto(k, g) PROVE \E h : Upto(k + 1, h)
  <2> DEFINE h == [n \in 0..(k + 1) |-> IF n = k + 1 THEN Undone(g[k], j[Len(j) - k]) ELSE g[n]]
  <2>1. h = [n \in 0..(k + 1) |-> h[n]] /\ h[0] = st
    BY <1>2
  <2>2. ASSUME NEW n \in 0..((k + 1) - 1) PROVE h[n + 1] = Undone(h[n], j[Len(j) - n])
    <3>1. CASE n = k
      <4>1. h[n + 1] = Undone(g[k], j[Len(j) - k]) /\ h[n] = g[k]
        BY <3>1
      <4> QED
        BY <3>1, <4>1
    <3>2. CASE n \in 0..(k - 1)
      <4>1. h[n + 1] = g[n + 1] /\ h[n] = g[n]
        BY <3>2
      <4>2. g[n + 1] = Undone(g[n], j[Len(j) - n])
        BY <1>2, <3>2
      <4> QED
        BY <4>1, <4>2
    <3> QED
      BY <2>2, <3>1, <3>2
  <2> HIDE DEF h
  <2>3. Upto(k + 1, h)
    BY <2>1, <2>2
  <2> HIDE DEF Upto
  <2> QED
    BY <2>3
<1> HIDE DEF Upto
<1>3. ASSUME NEW k \in S PROVE k + 1 \in S
  BY <1>2
<1>4. S = Nat
  <2> HIDE DEF S
  <2>1. S \in SUBSET Nat
    BY DEF S
  <2> QED
    BY <1>1, <1>3, <2>1, Induction
<1>5. Len(j) \in Nat
  OBVIOUS
<1>6. PICK g : Upto(Len(j), g)
  BY <1>4, <1>5
<1> QED
  BY <1>6 DEF Upto, Playback

\* PlayedBack is a function of the last n entries undone, ...
LEMMA PlayedBackIs ==
    ASSUME NEW st, NEW j
    PROVE  PlayedBack(st, j) =
             (CHOOSE after : after = [n \in 0..Len(j) |->
                 IF n = 0 THEN st ELSE Undone(after[n - 1], j[Len(j) + 1 - n])])[Len(j)]
  BY DEF PlayedBack

\* ... and it ends where PlayedBack does.
LEMMA PlayedBackEnds ==
    ASSUME NEW E, NEW j \in Seq(E), NEW st
    PROVE  \E play : Playback(st, j, play) /\ PlayedBack(st, j) = play[Len(j)]
<1> DEFINE Rec(g) == g = [n \in 0..Len(j) |-> IF n = 0 THEN st ELSE Undone(g[n - 1], j[Len(j) + 1 - n])]
           after == CHOOSE g : Rec(g)
<1>0. Len(j) \in Nat
  OBVIOUS
<1>1. PlayedBack(st, j) = after[Len(j)]
  BY PlayedBackIs, Zenon
<1>2. PICK g : Playback(st, j, g)
  BY PlaybackExists
<1>3. Rec(g)
  <2>1. ASSUME NEW n \in 0..Len(j), n # 0 PROVE g[n] = Undone(g[n - 1], j[Len(j) + 1 - n])
    <3>1. n - 1 \in 0..(Len(j) - 1) /\ (n - 1) + 1 = n /\ Len(j) - (n - 1) = Len(j) + 1 - n
      BY <1>0, <2>1
    <3>2. g[(n - 1) + 1] = Undone(g[n - 1], j[Len(j) - (n - 1)])
      BY <1>2, <3>1, Zenon DEF Playback
    <3> QED
      BY <3>1, <3>2, Zenon
  <2>2. \A n \in 0..Len(j) : g[n] = IF n = 0 THEN st ELSE Undone(g[n - 1], j[Len(j) + 1 - n])
    BY <1>2, <2>1, Zenon DEF Playback
  <2>3. g = [n \in 0..Len(j) |-> g[n]]
    BY <1>2, Zenon DEF Playback
  <2> QED
    BY <2>2, <2>3, Zenon
<1>4. Rec(after)
  BY <1>3, Zenon
<1> HIDE DEF after
<1>5. after = [n \in 0..Len(j) |-> after[n]]
  BY <1>4
<1>6. ASSUME NEW n \in 0..(Len(j) - 1) PROVE after[n + 1] = Undone(after[n], j[Len(j) - n])
  <2>1. n + 1 \in 0..Len(j) /\ n + 1 # 0 /\ (n + 1) - 1 = n /\ Len(j) + 1 - (n + 1) = Len(j) - n
    BY <1>0
  <2>2. \A i \in 0..Len(j) : after[i] = IF i = 0 THEN st ELSE Undone(after[i - 1], j[Len(j) + 1 - i])
    BY <1>4, Zenon
  <2>3. after[n + 1] = Undone(after[(n + 1) - 1], j[Len(j) + 1 - (n + 1)])
    BY <2>1, <2>2, Zenon
  <2> QED
    BY <2>1, <2>3, Zenon
<1>7. after[0] = st
  BY <1>0, <1>4
<1>8. Playback(st, j, after)
  BY <1>5, <1>6, <1>7, Zenon DEF Playback
<1> QED
  BY <1>1, <1>8, Zenon

\* Playing back is undoing the last entry first.
LEMMA PlayedBackLast ==
    ASSUME NEW E, NEW j \in Seq(E), NEW e \in E, NEW st
    PROVE  PlayedBack(st, Append(j, e)) = PlayedBack(Undone(st, e), j)
<1> DEFINE k == Append(j, e)
<1>1. k \in Seq(E) /\ Len(j) \in Nat /\ Len(k) = Len(j) + 1 /\ k[Len(j) + 1] = e /\ \A i \in 1..Len(j) : k[i] = j[i]
  OBVIOUS
<1> HIDE DEF k
<1>2. PICK f : Playback(st, k, f) /\ PlayedBack(st, k) = f[Len(k)]
  BY <1>1, PlayedBackEnds
<1>3. PICK g : Playback(Undone(st, e), j, g) /\ PlayedBack(Undone(st, e), j) = g[Len(j)]
  BY PlayedBackEnds
<1> DEFINE S == {n \in Nat : n <= Len(j) => f[n + 1] = g[n]}
<1>4. 0 \in S
  <2>1. 0 \in 0..(Len(k) - 1) /\ Len(k) - 0 = Len(j) + 1
    BY <1>1
  <2>2. f[0 + 1] = Undone(f[0], k[Len(k) - 0]) /\ f[0] = st
    BY <1>2, <2>1, Zenon DEF Playback
  <2>3. f[0 + 1] = Undone(st, e)
    BY <1>1, <2>1, <2>2, Zenon
  <2>4. g[0] = Undone(st, e)
    BY <1>3, Zenon DEF Playback
  <2> QED
    BY <2>3, <2>4
<1>5. ASSUME NEW n \in Nat, n <= Len(j) => f[n + 1] = g[n], n + 1 <= Len(j) PROVE f[(n + 1) + 1] = g[n + 1]
  <2>1. f[n + 1] = g[n]
    BY <1>1, <1>5
  <2>2. /\ n + 1 \in 0..(Len(k) - 1) /\ n \in 0..(Len(j) - 1)
        /\ Len(k) - (n + 1) = Len(j) - n /\ Len(j) - n \in 1..Len(j)
    BY <1>1, <1>5
  <2>3. f[(n + 1) + 1] = Undone(f[n + 1], k[Len(k) - (n + 1)])
    BY <1>2, <2>2, Zenon DEF Playback
  <2>4. g[n + 1] = Undone(g[n], j[Len(j) - n])
    BY <1>3, <2>2, Zenon DEF Playback
  <2>5. k[Len(j) - n] = j[Len(j) - n]
    BY <1>1, <2>2
  <2> QED
    BY <2>1, <2>2, <2>3, <2>4, <2>5, Zenon
<1>6. \A n \in S : n + 1 \in S
  BY <1>5
<1>7. S = Nat
  <2> HIDE DEF S
  <2>1. S \in SUBSET Nat
    BY DEF S
  <2> QED
    BY <1>4, <1>6, <2>1, Induction
<1>8. f[Len(j) + 1] = g[Len(j)]
  BY <1>1, <1>7
<1> QED
  BY <1>1, <1>2, <1>3, <1>8, Zenon DEF k

\* A journal of nothing undoes nothing.
LEMMA PlayedBackNothing ==
    ASSUME NEW st
    PROVE  PlayedBack(st, <<>>) = st
<1>1. <<>> \in Seq({}) /\ Len(<<>>) = 0
  OBVIOUS
<1>2. PICK f : Playback(st, <<>>, f) /\ PlayedBack(st, <<>>) = f[Len(<<>>)]
  BY <1>1, PlayedBackEnds
<1> QED
  BY <1>1, <1>2 DEF Playback
-----------------------------------------------------------------------------
(* Stores as datasets                                                      *)

\* The store that holds the quads Q and the catalogue G, and nothing left over.
Built(Q, G) ==
    [index  |-> [f \in AllOrders |-> {q \in Q : f \in Orders(q)}],
     graphs |-> G,
     counts |-> [p \in Predicate |-> Cardinality({q \in Q : PredOf[q] = p})]]

\* What replacing one part of a store gives: its orders, ...
LEMMA IndexReplaced ==
    ASSUME NEW st, NEW i, NEW g, NEW c, NEW v, st = [index |-> i, graphs |-> g, counts |-> c]
    PROVE  [st EXCEPT !.index = v] = [index |-> v, graphs |-> g, counts |-> c]
<1> SUFFICES [[index |-> i, graphs |-> g, counts |-> c] EXCEPT !.index = v]
               = [index |-> v, graphs |-> g, counts |-> c]
  OBVIOUS
<1> QED
  BY SMT

\* ... its catalogue, ...
LEMMA GraphsReplaced ==
    ASSUME NEW st, NEW i, NEW g, NEW c, NEW v, st = [index |-> i, graphs |-> g, counts |-> c]
    PROVE  [st EXCEPT !.graphs = v] = [index |-> i, graphs |-> v, counts |-> c]
<1> SUFFICES [[index |-> i, graphs |-> g, counts |-> c] EXCEPT !.graphs = v]
               = [index |-> i, graphs |-> v, counts |-> c]
  OBVIOUS
<1> QED
  BY SMT

\* ... and one predicate's count, up ...
LEMMA CountRaised ==
    ASSUME NEW st, NEW i, NEW g, NEW c, NEW p, st = [index |-> i, graphs |-> g, counts |-> c]
    PROVE  [st EXCEPT !.counts[p] = @ + 1] = [index |-> i, graphs |-> g, counts |-> [c EXCEPT ![p] = @ + 1]]
  BY SMT

\* ... or down.
LEMMA CountLowered ==
    ASSUME NEW st, NEW i, NEW g, NEW c, NEW p, st = [index |-> i, graphs |-> g, counts |-> c]
    PROVE  [st EXCEPT !.counts[p] = @ - 1] = [index |-> i, graphs |-> g, counts |-> [c EXCEPT ![p] = @ - 1]]
  BY SMT

\* A scan finds what the store was built from.
LEMMA BuiltHolds ==
    ASSUME NEW Q, NEW G
    PROVE  /\ QuadsOf(Built(Q, G)) = Q
           /\ Built(Q, G).graphs = G
           /\ \A f \in AllOrders : Built(Q, G).index[f] = {q \in Q : f \in Orders(q)}
           /\ \A p \in Predicate : Built(Q, G).counts[p] = Cardinality({q \in Q : PredOf[q] = p})
           /\ \A q \in Quad : holds_quad(Built(Q, G), q) <=> q \in Q
<1>1. \A f \in AllOrders : Built(Q, G).index[f] = {q \in Q : f \in Orders(q)}
  BY DEF Built
<1>2. "dspo" \in AllOrders /\ "gspo" \in AllOrders
  BY DEF AllOrders, TripleOrders, QuadOrders
<1>3. /\ Built(Q, G).index["dspo"] = {q \in Q : IsDefault(q)}
      /\ Built(Q, G).index["gspo"] = {q \in Q : ~IsDefault(q)}
  BY <1>1, <1>2 DEF Orders, TripleOrders, QuadOrders
<1>4. QuadsOf(Built(Q, G)) = Q
  BY <1>3 DEF QuadsOf
<1>5. \A q \in Quad : holds_quad(Built(Q, G), q) <=> q \in Q
  BY <1>3 DEF holds_quad
<1>6. /\ Built(Q, G).graphs = G
      /\ \A p \in Predicate : Built(Q, G).counts[p] = Cardinality({q \in Q : PredOf[q] = p})
  BY DEF Built
<1> QED
  BY <1>1, <1>4, <1>5, <1>6

\* A part of a finite set of quads is finite and has so many members.
LEMMA PartFinite ==
    ASSUME NEW Q, IsFiniteSet(Q), NEW T \in SUBSET Q
    PROVE  IsFiniteSet(T) /\ Cardinality(T) \in Nat
  BY FS_Subset, FS_CardinalityType

\* Inserting a quad builds the store with it; one that is there changes nothing.
LEMMA InsertedBuilt ==
    ASSUME NEW Q \in SUBSET Quad, IsFiniteSet(Q), NEW G, NEW q \in Quad
    PROVE  Inserted(Built(Q, G), q) =
             IF q \in Q THEN Built(Q, G) ELSE Built(Q \cup {q}, G \cup GraphsOfQuad(q))
<1>1. holds_quad(Built(Q, G), q) <=> q \in Q
  BY BuiltHolds
<1>2. CASE q \in Q
  BY <1>1, <1>2 DEF Inserted
<1>3. CASE q \notin Q
  <2> DEFINE B == Built(Q \cup {q}, G \cup GraphsOfQuad(q))
             J == IndexInsert(Built(Q, G), q)
  <2>0. PredOf[q] \in Predicate
    BY PredicateAssumption
  <2>1. Inserted(Built(Q, G), q) = [J EXCEPT !.counts[PredOf[q]] = @ + 1]
    BY <1>1, <1>3 DEF Inserted
  <2>2. J = [index |-> B.index, graphs |-> G \cup GraphsOfQuad(q), counts |-> Built(Q, G).counts]
    <3>1. [f \in AllOrders |-> IF f \in Orders(q) THEN Built(Q, G).index[f] \cup {q} ELSE Built(Q, G).index[f]]
            = [f \in AllOrders |-> {r \in Q \cup {q} : f \in Orders(r)}]
      BY DEF Built
    <3> QED
      BY <3>1 DEF IndexInsert, Built
  <2>3. ASSUME NEW p \in Predicate
        PROVE  Cardinality({r \in Q \cup {q} : PredOf[r] = p}) =
                 IF p = PredOf[q] THEN Cardinality({r \in Q : PredOf[r] = p}) + 1
                 ELSE Cardinality({r \in Q : PredOf[r] = p})
    <3> DEFINE T == {r \in Q : PredOf[r] = p}
    <3>1. IsFiniteSet(T)
      <4>1. T \in SUBSET Q
        OBVIOUS
      <4> QED
        BY <4>1, PartFinite
    <3>2. Cardinality(T \cup {q}) = Cardinality(T) + 1
      <4>1. q \notin T
        BY <1>3
      <4> QED
        BY <3>1, <4>1, FS_AddElement
    <3>3. CASE p = PredOf[q]
      <4>1. {r \in Q \cup {q} : PredOf[r] = p} = T \cup {q}
        BY <3>3
      <4> QED
        BY <3>2, <3>3, <4>1
    <3>4. CASE p # PredOf[q]
      <4>1. {r \in Q \cup {q} : PredOf[r] = p} = T
        BY <3>4
      <4> QED
        BY <3>4, <4>1
    <3> QED
      BY <3>3, <3>4
  <2>4. [Built(Q, G).counts EXCEPT ![PredOf[q]] = @ + 1]
          = [p \in Predicate |-> Cardinality({r \in Q \cup {q} : PredOf[r] = p})]
    BY <2>0, <2>3 DEF Built
  <2>5. [J EXCEPT !.counts[PredOf[q]] = @ + 1]
          = [index |-> B.index, graphs |-> G \cup GraphsOfQuad(q),
             counts |-> [Built(Q, G).counts EXCEPT ![PredOf[q]] = @ + 1]]
    <3> DEFINE i == B.index
               h == G \cup GraphsOfQuad(q)
               c == Built(Q, G).counts
               p == PredOf[q]
    <3>1. J = [index |-> i, graphs |-> h, counts |-> c]
      BY <2>2
    <3> HIDE DEF i, h, c, p, J
    <3>2. [J EXCEPT !.counts[p] = @ + 1] = [index |-> i, graphs |-> h, counts |-> [c EXCEPT ![p] = @ + 1]]
      BY <3>1, CountRaised
    <3> QED
      BY <3>2 DEF i, h, c, p
  <2>6. [J EXCEPT !.counts[PredOf[q]] = @ + 1] = B
    BY <2>4, <2>5 DEF Built
  <2> QED
    BY <1>3, <2>1, <2>6
<1> QED
  BY <1>2, <1>3

\* Removing a quad builds the store without it.
LEMMA RemovedBuilt ==
    ASSUME NEW Q \in SUBSET Quad, IsFiniteSet(Q), NEW G, NEW q \in Quad
    PROVE  Removed(Built(Q, G), q) = Built(Q \ {q}, G)
<1>1. holds_quad(Built(Q, G), q) <=> q \in Q
  BY BuiltHolds
<1>2. CASE q \notin Q
  <2>1. Q \ {q} = Q
    BY <1>2
  <2> QED
    BY <1>1, <1>2, <2>1 DEF Removed
<1>3. CASE q \in Q
  <2> DEFINE B == Built(Q \ {q}, G)
             J == IndexRemove(Built(Q, G), q)
  <2>0. PredOf[q] \in Predicate
    BY PredicateAssumption
  <2>1. Removed(Built(Q, G), q) = [J EXCEPT !.counts[PredOf[q]] = @ - 1]
    BY <1>1, <1>3 DEF Removed
  <2>2. J = [index |-> B.index, graphs |-> G, counts |-> Built(Q, G).counts]
    <3>1. [f \in AllOrders |-> IF f \in Orders(q) THEN Built(Q, G).index[f] \ {q} ELSE Built(Q, G).index[f]]
            = [f \in AllOrders |-> {r \in Q \ {q} : f \in Orders(r)}]
      BY DEF Built
    <3> DEFINE X == [f \in AllOrders |-> {r \in Q \ {q} : f \in Orders(r)}]
    <3>2. J = [Built(Q, G) EXCEPT !.index = X]
      BY <3>1 DEF IndexRemove
    <3>3. Built(Q, G) = [index |-> Built(Q, G).index, graphs |-> G, counts |-> Built(Q, G).counts]
      BY DEF Built
    <3>4. B.index = X
      BY DEF Built
    <3> HIDE DEF J, B, X
    <3> QED
      BY <3>2, <3>3, <3>4, IndexReplaced
  <2>3. ASSUME NEW p \in Predicate
        PROVE  Cardinality({r \in Q \ {q} : PredOf[r] = p}) =
                 IF p = PredOf[q] THEN Cardinality({r \in Q : PredOf[r] = p}) - 1
                 ELSE Cardinality({r \in Q : PredOf[r] = p})
    <3> DEFINE T == {r \in Q : PredOf[r] = p}
    <3>1. IsFiniteSet(T)
      <4>1. T \in SUBSET Q
        OBVIOUS
      <4> QED
        BY <4>1, PartFinite
    <3>2. Cardinality(T \ {q}) = IF q \in T THEN Cardinality(T) - 1 ELSE Cardinality(T)
      BY <3>1, FS_RemoveElement
    <3>3. {r \in Q \ {q} : PredOf[r] = p} = T \ {q} /\ (q \in T <=> p = PredOf[q])
      BY <1>3
    <3> QED
      BY <3>2, <3>3
  <2>4. [Built(Q, G).counts EXCEPT ![PredOf[q]] = @ - 1]
          = [p \in Predicate |-> Cardinality({r \in Q \ {q} : PredOf[r] = p})]
    BY <2>0, <2>3 DEF Built
  <2>5. [J EXCEPT !.counts[PredOf[q]] = @ - 1]
          = [index |-> B.index, graphs |-> G,
             counts |-> [Built(Q, G).counts EXCEPT ![PredOf[q]] = @ - 1]]
    <3> HIDE DEF J, B
    <3> QED
      BY <2>2, CountLowered
  <2>6. [J EXCEPT !.counts[PredOf[q]] = @ - 1] = B
    BY <2>4, <2>5 DEF Built
  <2> QED
    BY <2>1, <2>6
<1> QED
  BY <1>2, <1>3

\* Creating a graph builds the store with it.
LEMMA GraphCreatedBuilt ==
    ASSUME NEW Q, NEW G, NEW g
    PROVE  GraphCreated(Built(Q, G), g) = Built(Q, G \cup {g})
<1>1. GraphCreated(Built(Q, G), g) = [Built(Q, G) EXCEPT !.graphs = G \cup {g}]
  BY DEF GraphCreated, Built
<1> QED
  BY <1>1, GraphsReplaced, Zenon DEF Built

\* What a scan of a named graph finds.
LEMMA BuiltGraph ==
    ASSUME NEW Q \in SUBSET Quad, NEW G, NEW g \in Graph
    PROVE  QuadsOfGraph(Built(Q, G), g) = {q \in Q : GraphOf[q] = g}
<1>1. Built(Q, G).index["gspo"] = {q \in Q : "gspo" \in Orders(q)}
  <2>1. "gspo" \in AllOrders
    BY DEF AllOrders, QuadOrders
  <2> QED
    BY <2>1 DEF Built
<1>2. \A q \in Q : GraphOf[q] = g => "gspo" \in Orders(q)
  BY GraphAssumption DEF Orders, IsDefault, QuadOrders
<1> QED
  BY <1>1, <1>2 DEF QuadsOfGraph

\* Dropping a graph builds the store without it and without what it held.
LEMMA GraphDroppedBuilt ==
    ASSUME NEW Q \in SUBSET Quad, IsFiniteSet(Q), NEW G, NEW g \in Graph
    PROVE  GraphDropped(Built(Q, G), g) = Built({q \in Q : GraphOf[q] # g}, G \ {g})
<1> DEFINE K == {q \in Q : GraphOf[q] # g}
           doomed == QuadsOfGraph(Built(Q, G), g)
           B == Built(K, G \ {g})
<1>1. doomed = {q \in Q : GraphOf[q] = g}
  BY BuiltGraph
<1> HIDE DEF doomed
<1>2. [f \in AllOrders |-> Built(Q, G).index[f] \ doomed] = B.index
  BY <1>1 DEF Built
<1>3. ASSUME NEW p \in Predicate
      PROVE  Cardinality({q \in Q : PredOf[q] = p}) - Cardinality({q \in doomed : PredOf[q] = p})
               = Cardinality({q \in K : PredOf[q] = p})
  <2> DEFINE S == {q \in Q : PredOf[q] = p}
             T == {q \in doomed : PredOf[q] = p}
  <2>1. T \in SUBSET Q /\ S \in SUBSET Q /\ S \cap T = T /\ S \ T = {q \in K : PredOf[q] = p}
    BY <1>1
  <2>2. /\ IsFiniteSet(S) /\ IsFiniteSet(T)
        /\ Cardinality(S) \in Nat /\ Cardinality(T) \in Nat
    BY <2>1, PartFinite
  <2>3. Cardinality(S \ T) = Cardinality(S) - Cardinality(S \cap T)
    BY <2>2, FS_Difference
  <2> QED
    BY <2>1, <2>3
<1>4. [p \in Predicate |-> Built(Q, G).counts[p] - Cardinality({q \in doomed : PredOf[q] = p})] = B.counts
  BY <1>3 DEF Built
<1>5. IndexRemoveAll(Built(Q, G), doomed).index = B.index
  BY <1>2 DEF IndexRemoveAll, Built
<1>6. GraphDropped(Built(Q, G), g)
        = [index  |-> IndexRemoveAll(Built(Q, G), doomed).index,
           graphs |-> Built(Q, G).graphs \ {g},
           counts |-> [p \in Predicate |-> Built(Q, G).counts[p] - Cardinality({q \in doomed : PredOf[q] = p})]]
  BY DEF GraphDropped, doomed
<1>7. GraphDropped(Built(Q, G), g) = [index |-> B.index, graphs |-> G \ {g}, counts |-> B.counts]
  BY <1>4, <1>5, <1>6, BuiltHolds
<1> QED
  BY <1>7 DEF Built
-----------------------------------------------------------------------------
(* The journal of each operation, played back                              *)

\* What the journal is made of.
Ins(q) == [op |-> "Inserted", of |-> q]
Rem(q) == [op |-> "Removed", of |-> q]
Crt(g) == [op |-> "GraphCreated", of |-> g]
Drp(g) == [op |-> "GraphDropped", of |-> g]
Entry == [op : {"Inserted", "Removed", "GraphCreated", "GraphDropped"}, of : Quad \cup Graph]

\* What undoes each of them.
LEMMA UndoneIs ==
    ASSUME NEW st, NEW x
    PROVE  /\ Undone(st, Ins(x)) = Removed(st, x)
           /\ Undone(st, Rem(x)) = Inserted(st, x)
           /\ Undone(st, Crt(x)) = GraphDropped(st, x)
           /\ Undone(st, Drp(x)) = GraphCreated(st, x)
<1>1. Undone(st, Ins(x)) = Removed(st, x)
  BY DEF Undone, Ins
<1>2. Undone(st, Rem(x)) = Inserted(st, x)
  BY DEF Undone, Rem
<1>3. Undone(st, Crt(x)) = GraphDropped(st, x)
  BY DEF Undone, Crt
<1>4. Undone(st, Drp(x)) = GraphCreated(st, x)
  BY DEF Undone, Drp
<1> QED
  BY <1>1, <1>2, <1>3, <1>4

\* They are entries.
LEMMA EntriesTyped ==
    /\ \A q \in Quad : Ins(q) \in Entry /\ Rem(q) \in Entry
    /\ \A g \in Graph : Crt(g) \in Entry /\ Drp(g) \in Entry
  BY DEF Entry, Ins, Rem, Crt, Drp

\* Playing back the removals of quads whose graphs are there puts exactly those quads
\* back, whatever their order and however often one is named.
LEMMA RemovalsPlayedBack ==
    ASSUME NEW j \in Seq(Entry), NEW G,
           NEW n \in Nat, NEW order \in [1..n -> Quad],
           \A i \in 1..n : GraphsOfQuad(order[i]) \subseteq G,
           NEW Q \in SUBSET Quad, IsFiniteSet(Q)
    PROVE  PlayedBack(Built(Q, G), j \o [i \in 1..n |-> Rem(order[i])])
             = PlayedBack(Built(Q \cup {order[i] : i \in 1..n}, G), j)
<1> DEFINE Fits(m, o) == o \in [1..m -> Quad] /\ \A i \in 1..m : GraphsOfQuad(o[i]) \subseteq G
           Works(m) == \A o : Fits(m, o) =>
                         \A P \in SUBSET Quad : IsFiniteSet(P) =>
                            PlayedBack(Built(P, G), j \o [i \in 1..m |-> Rem(o[i])])
                              = PlayedBack(Built(P \cup {o[i] : i \in 1..m}, G), j)
           S == {m \in Nat : Works(m)}
<1>1. Works(0)
  <2> SUFFICES ASSUME NEW o, NEW P \in SUBSET Quad
               PROVE  PlayedBack(Built(P, G), j \o [i \in 1..0 |-> Rem(o[i])])
                        = PlayedBack(Built(P \cup {o[i] : i \in 1..0}, G), j)
    OBVIOUS
  <2>1. [i \in 1..0 |-> Rem(o[i])] = <<>> /\ P \cup {o[i] : i \in 1..0} = P
    OBVIOUS
  <2>2. j \o <<>> = j
    OBVIOUS
  <2> QED
    BY <2>1, <2>2, Zenon
<1>2. ASSUME NEW m \in Nat, Works(m) PROVE Works(m + 1)
  <2> SUFFICES ASSUME NEW o, Fits(m + 1, o), NEW P \in SUBSET Quad, IsFiniteSet(P)
               PROVE  PlayedBack(Built(P, G), j \o [i \in 1..(m + 1) |-> Rem(o[i])])
                        = PlayedBack(Built(P \cup {o[i] : i \in 1..(m + 1)}, G), j)
    BY Zenon
  <2> DEFINE c == [i \in 1..m |-> o[i]]
             R == [i \in 1..m |-> Rem(c[i])]
             q == o[m + 1]
             P1 == P \cup {q}
  <2>1. Fits(m, c) /\ q \in Quad /\ GraphsOfQuad(q) \subseteq G
    OBVIOUS
  <2>2. R \in Seq(Entry) /\ Len(R) = m
    <3>1. \A i \in 1..m : Rem(c[i]) \in Entry
      BY <2>1, EntriesTyped
    <3> QED
      BY <3>1
  <2>3. [i \in 1..(m + 1) |-> Rem(o[i])] = Append(R, Rem(q))
    <3>1. R = [i \in 1..m |-> Rem(o[i])]
      OBVIOUS
    <3> QED
      BY <3>1
  <2>4. Rem(q) \in Entry
    BY <2>1, EntriesTyped
  <2>5. P1 \in SUBSET Quad /\ IsFiniteSet(P1)
    BY <2>1, FS_AddElement
  <2>6. Undone(Built(P, G), Rem(q)) = Built(P1, G)
    <3>1. Undone(Built(P, G), Rem(q)) = Inserted(Built(P, G), q)
      BY UndoneIs
    <3>2. q \in P => P1 = P
      OBVIOUS
    <3>3. G \cup GraphsOfQuad(q) = G
      BY <2>1
    <3>4. q \notin P => Inserted(Built(P, G), q) = Built(P1, G)
      BY <2>1, <3>3, InsertedBuilt
    <3>5. q \in P => Inserted(Built(P, G), q) = Built(P, G)
      BY <2>1, InsertedBuilt
    <3> QED
      BY <3>1, <3>2, <3>4, <3>5
  <2>7. P1 \cup {c[i] : i \in 1..m} = P \cup {o[i] : i \in 1..(m + 1)}
    OBVIOUS
  <2>8. PlayedBack(Built(P1, G), j \o R) = PlayedBack(Built(P1 \cup {c[i] : i \in 1..m}, G), j)
    <3> HIDE DEF c, q, P1, Fits
    <3> QED
      BY <1>2, <2>1, <2>5, Zenon
  <2> HIDE DEF R, c, q, P1
  <2>9. j \o Append(R, Rem(q)) = Append(j \o R, Rem(q)) /\ j \o R \in Seq(Entry)
    BY <2>2, <2>4
  <2>10. PlayedBack(Built(P, G), Append(j \o R, Rem(q))) = PlayedBack(Undone(Built(P, G), Rem(q)), j \o R)
    BY <2>4, <2>9, PlayedBackLast
  <2> QED
    BY <2>3, <2>6, <2>7, <2>8, <2>9, <2>10, Zenon
<1> HIDE DEF Works
<1>3. S = Nat
  <2>1. 0 \in S /\ \A m \in S : m + 1 \in S
    BY <1>1, <1>2
  <2> HIDE DEF S
  <2>2. S \in SUBSET Nat
    BY DEF S
  <2> QED
    BY <2>1, <2>2, Induction
<1>4. Works(n)
  BY <1>3
<1>5. Fits(n, order)
  OBVIOUS
<1> QED
  BY <1>4, <1>5, Zenon DEF Works
\* A dataset whose catalogue covers its quads.
Covered(Q, G) ==
    /\ Q \in SUBSET Quad /\ IsFiniteSet(Q) /\ G \in SUBSET Graph
    /\ \A q \in Q : GraphsOfQuad(q) \subseteq G

\* Undoing the creation of a graph that was not in the catalogue.
LEMMA CreationUndone ==
    ASSUME NEW Q, NEW G, Covered(Q, G), NEW g \in Graph, g \notin G
    PROVE  Undone(Built(Q, G \cup {g}), Crt(g)) = Built(Q, G)
<1>1. {q \in Q : GraphOf[q] # g} = Q
  BY GraphAssumption DEF Covered, GraphsOfQuad, IsDefault
<1>2. (G \cup {g}) \ {g} = G
  OBVIOUS
<1>3. GraphDropped(Built(Q, G \cup {g}), g) = Built({q \in Q : GraphOf[q] # g}, (G \cup {g}) \ {g})
  BY GraphDroppedBuilt DEF Covered
<1> QED
  BY <1>1, <1>2, <1>3, UndoneIs, Zenon

\* The entries of an insertion take it back: the graph it created goes after its quad.
LEMMA InsertionUndone ==
    ASSUME NEW Q, NEW G, Covered(Q, G), NEW q \in Quad, q \notin Q, NEW j \in Seq(Entry)
    PROVE  LET created == IF GraphsOfQuad(q) \subseteq G THEN <<>> ELSE <<Crt(GraphOf[q])>>
               k == j \o (created \o <<Ins(q)>>)
           IN  /\ k \in Seq(Entry)
               /\ PlayedBack(Built(Q \cup {q}, G \cup GraphsOfQuad(q)), k) = PlayedBack(Built(Q, G), j)
<1> DEFINE G1 == G \cup GraphsOfQuad(q)
           B == Built(Q \cup {q}, G1)
<1>1. Ins(q) \in Entry
  BY EntriesTyped
<1>2. Undone(B, Ins(q)) = Built(Q, G1)
  <2>1. Q \cup {q} \in SUBSET Quad /\ IsFiniteSet(Q \cup {q})
    BY FS_AddElement DEF Covered
  <2>2. Removed(B, q) = Built((Q \cup {q}) \ {q}, G1)
    BY <2>1, RemovedBuilt
  <2>3. (Q \cup {q}) \ {q} = Q
    OBVIOUS
  <2> QED
    BY <2>2, <2>3, UndoneIs, Zenon
<1>3. CASE GraphsOfQuad(q) \subseteq G
  <2>1. <<>> \o <<Ins(q)>> = <<Ins(q)>> /\ j \o <<Ins(q)>> = Append(j, Ins(q)) /\ Append(j, Ins(q)) \in Seq(Entry)
    BY <1>1
  <2>2. G1 = G
    BY <1>3
  <2>3. PlayedBack(B, Append(j, Ins(q))) = PlayedBack(Undone(B, Ins(q)), j)
    BY <1>1, PlayedBackLast
  <2> QED
    BY <1>2, <1>3, <2>1, <2>2, <2>3, Zenon
<1>4. CASE ~(GraphsOfQuad(q) \subseteq G)
  <2> DEFINE g == GraphOf[q]
  <2>1. GraphsOfQuad(q) = {g} /\ g \in Graph /\ g \notin G
    BY <1>4, GraphAssumption DEF GraphsOfQuad, IsDefault
  <2>2. Crt(g) \in Entry
    BY <2>1, EntriesTyped
  <2> DEFINE c == Append(j, Crt(g))
  <2>3. /\ c \in Seq(Entry) /\ Append(c, Ins(q)) \in Seq(Entry)
        /\ j \o (<<Crt(g)>> \o <<Ins(q)>>) = Append(c, Ins(q))
    BY <1>1, <2>2
  <2>4. PlayedBack(B, Append(c, Ins(q))) = PlayedBack(Undone(B, Ins(q)), c)
    BY <1>1, <2>3, PlayedBackLast
  <2>5. PlayedBack(Built(Q, G1), c) = PlayedBack(Undone(Built(Q, G1), Crt(g)), j)
    BY <2>2, PlayedBackLast
  <2>6. Undone(Built(Q, G1), Crt(g)) = Built(Q, G)
    BY <2>1, CreationUndone, Zenon
  <2> HIDE DEF c
  <2> QED
    BY <1>2, <1>4, <2>3, <2>4, <2>5, <2>6, Zenon
<1> QED
  BY <1>3, <1>4

\* The entry of a removal takes it back.
LEMMA RemovalUndone ==
    ASSUME NEW Q, NEW G, Covered(Q, G), NEW q \in Q, NEW j \in Seq(Entry)
    PROVE  /\ j \o <<Rem(q)>> \in Seq(Entry)
           /\ PlayedBack(Built(Q \ {q}, G), j \o <<Rem(q)>>) = PlayedBack(Built(Q, G), j)
<1> DEFINE B == Built(Q \ {q}, G)
<1>0. q \in Quad
  BY DEF Covered
<1>1. Rem(q) \in Entry
  BY <1>0, EntriesTyped
<1>2. j \o <<Rem(q)>> = Append(j, Rem(q)) /\ Append(j, Rem(q)) \in Seq(Entry)
  BY <1>1
<1>3. Inserted(B, q) = Built(Q, G)
  <2>1. Q \ {q} \in SUBSET Quad /\ IsFiniteSet(Q \ {q})
    BY FS_RemoveElement DEF Covered
  <2>2. Inserted(B, q) = Built((Q \ {q}) \cup {q}, G \cup GraphsOfQuad(q))
    <3>1. q \notin Q \ {q}
      OBVIOUS
    <3> QED
      BY <1>0, <2>1, <3>1, InsertedBuilt
  <2>3. (Q \ {q}) \cup {q} = Q /\ G \cup GraphsOfQuad(q) = G
    BY DEF Covered
  <2> QED
    BY <2>2, <2>3, Zenon
<1>4. PlayedBack(B, Append(j, Rem(q))) = PlayedBack(Undone(B, Rem(q)), j)
  BY <1>1, PlayedBackLast
<1> QED
  BY <1>2, <1>3, <1>4, UndoneIs, Zenon

\* The entry of a graph's creation takes it back.
LEMMA GraphUndone ==
    ASSUME NEW Q, NEW G, Covered(Q, G), NEW g \in Graph, g \notin G, NEW j \in Seq(Entry)
    PROVE  /\ j \o <<Crt(g)>> \in Seq(Entry)
           /\ PlayedBack(Built(Q, G \cup {g}), j \o <<Crt(g)>>) = PlayedBack(Built(Q, G), j)
<1>1. Crt(g) \in Entry
  BY EntriesTyped
<1>2. j \o <<Crt(g)>> = Append(j, Crt(g)) /\ Append(j, Crt(g)) \in Seq(Entry)
  BY <1>1
<1>3. PlayedBack(Built(Q, G \cup {g}), Append(j, Crt(g)))
        = PlayedBack(Undone(Built(Q, G \cup {g}), Crt(g)), j)
  BY <1>1, PlayedBackLast
<1> QED
  BY <1>2, <1>3, CreationUndone, Zenon

\* R is one entry for the removal of each quad of T, in some order.
RemovalsOf(T, R) ==
    \E n \in Nat : \E order \in [1..n -> Quad] :
        /\ R = [i \in 1..n |-> Rem(order[i])]
        /\ \A i \in 1..n : order[i] \in T
        /\ \A q \in T : \E i \in 1..n : order[i] = q

\* The entries of a drop take it back: the graph first, then its quads in any order.
LEMMA DropUndone ==
    ASSUME NEW Q, NEW G, Covered(Q, G), NEW g \in G, NEW j \in Seq(Entry),
           NEW R, RemovalsOf({q \in Q : GraphOf[q] = g}, R),
           NEW K, K = {q \in Q : GraphOf[q] # g}
    PROVE  /\ j \o (R \o <<Drp(g)>>) \in Seq(Entry)
           /\ PlayedBack(Built(K, G \ {g}), j \o (R \o <<Drp(g)>>)) = PlayedBack(Built(Q, G), j)
<1>n. PICK n \in Nat : \E order \in [1..n -> Quad] :
        /\ R = [i \in 1..n |-> Rem(order[i])]
        /\ \A i \in 1..n : order[i] \in Q /\ GraphOf[order[i]] = g
        /\ \A q \in Q : GraphOf[q] = g => \E i \in 1..n : order[i] = q
  <2> DEFINE T == {q \in Q : GraphOf[q] = g}
  <2>1. \A q : q \in T <=> q \in Q /\ GraphOf[q] = g
    OBVIOUS
  <2>2. RemovalsOf(T, R)
    OBVIOUS
  <2> HIDE DEF T
  <2>3. PICK n \in Nat : \E order \in [1..n -> Quad] :
          /\ R = [i \in 1..n |-> Rem(order[i])]
          /\ \A i \in 1..n : order[i] \in T
          /\ \A q \in T : \E i \in 1..n : order[i] = q
    BY <2>2, Zenon DEF RemovalsOf
  <2>4. PICK order \in [1..n -> Quad] :
          /\ R = [i \in 1..n |-> Rem(order[i])]
          /\ \A i \in 1..n : order[i] \in T
          /\ \A q \in T : \E i \in 1..n : order[i] = q
    BY <2>3, Zenon
  <2>5. \A i \in 1..n : order[i] \in Q /\ GraphOf[order[i]] = g
    BY <2>1, <2>4, Zenon
  <2>6. \A q \in Q : GraphOf[q] = g => \E i \in 1..n : order[i] = q
    BY <2>1, <2>4, Zenon
  <2> QED
    BY <2>4, <2>5, <2>6, Zenon
<1>0. PICK order \in [1..n -> Quad] :
        /\ R = [i \in 1..n |-> Rem(order[i])]
        /\ \A i \in 1..n : order[i] \in Q /\ GraphOf[order[i]] = g
        /\ \A q \in Q : GraphOf[q] = g => \E i \in 1..n : order[i] = q
  BY <1>n
<1>1. /\ g \in Graph /\ K \in SUBSET Quad /\ IsFiniteSet(K)
      /\ order \in [1..n -> Quad] /\ \A i \in 1..n : GraphsOfQuad(order[i]) \subseteq G
  BY <1>0, PartFinite DEF Covered
<1>2. R \in Seq(Entry) /\ Drp(g) \in Entry
  <2>1. \A i \in 1..n : Rem(order[i]) \in Entry
    BY <1>1, EntriesTyped
  <2> QED
    <3>1. [i \in 1..n |-> Rem(order[i])] \in Seq(Entry)
      BY <2>1
    <3> QED
      BY <1>0, <1>1, <3>1, EntriesTyped
<1>3. K \cup {order[i] : i \in 1..n} = Q
  BY <1>0
<1>4. PlayedBack(Built(K, G), j \o R) = PlayedBack(Built(K \cup {order[i] : i \in 1..n}, G), j)
  BY <1>0, <1>1, RemovalsPlayedBack
<1>5. Undone(Built(K, G \ {g}), Drp(g)) = Built(K, G)
  <2>1. (G \ {g}) \cup {g} = G
    OBVIOUS
  <2>2. Undone(Built(K, G \ {g}), Drp(g)) = GraphCreated(Built(K, G \ {g}), g)
    BY UndoneIs
  <2>3. GraphCreated(Built(K, G \ {g}), g) = Built(K, (G \ {g}) \cup {g})
    BY GraphCreatedBuilt
  <2> QED
    BY <2>1, <2>2, <2>3, Zenon
<1>6. /\ j \o (R \o <<Drp(g)>>) = Append(j \o R, Drp(g)) /\ j \o R \in Seq(Entry)
      /\ Append(j \o R, Drp(g)) \in Seq(Entry)
  BY <1>2
<1>7. PlayedBack(Built(K, G \ {g}), Append(j \o R, Drp(g)))
        = PlayedBack(Undone(Built(K, G \ {g}), Drp(g)), j \o R)
  BY <1>2, <1>6, PlayedBackLast
<1> QED
  BY <1>3, <1>4, <1>5, <1>6, <1>7, Zenon
-----------------------------------------------------------------------------
(* The in-memory backend                                                   *)

Sound(st) == \E Q, G : Covered(Q, G) /\ st = Built(Q, G)

\* What a rollback would leave, and the generation it would leave it at.
Back == IF in_scope THEN PlayedBack(store, undo) ELSE store
BackGeneration == IF in_scope THEN generation_at_begin ELSE generation

\* The store and what a rollback would leave are sound; while the generation is still what a
\* rollback would leave, so is the default graph; and a statistics snapshot is never newer.
MemoryInv ==
    /\ Sound(store) /\ Sound(Back)
    /\ in_scope \in BOOLEAN /\ undo \in Seq(Entry)
    /\ generation \in Nat /\ generation_at_begin \in Nat
    /\ BackGeneration <= generation
    /\ generation = BackGeneration => store.index["dspo"] = Back.index["dspo"]
    /\ \A s \in statistics :
         /\ s.generation \in Nat /\ s.generation <= BackGeneration
         /\ s.generation = BackGeneration => s.quads = Back.index["dspo"]

\* A write: the dataset it leaves, a journal that takes it back, and the generation.
Wrote(Q, G, rows) ==
    /\ Covered(Q, G)
    /\ store' = Built(Q, G)
    /\ undo' \in Seq(Entry)
    /\ in_scope => PlayedBack(store', undo') = PlayedBack(store, undo)
    /\ IF rows THEN generation' = generation + 1
       ELSE generation' = generation /\ store'.index["dspo"] = store.index["dspo"]
    /\ UNCHANGED <<generation_at_begin, in_scope, statistics>>

\* What insert_encoded writes.
LEMMA InsertWrites ==
    ASSUME NEW Q, NEW G, Covered(Q, G), store = Built(Q, G), undo \in Seq(Entry),
           NEW q \in Quad, insert_encoded(q)
    PROVE  Wrote(Q \cup {q}, G \cup GraphsOfQuad(q), TRUE)
<1>1. q \notin Q /\ store.graphs = G
  BY BuiltHolds DEF insert_encoded, Covered
<1>2. store' = Built(Q \cup {q}, G \cup GraphsOfQuad(q))
  BY <1>1, InsertedBuilt DEF insert_encoded, Covered
<1>3. Covered(Q \cup {q}, G \cup GraphsOfQuad(q))
  <2>1. IsFiniteSet(Q \cup {q}) /\ Q \cup {q} \in SUBSET Quad
    BY FS_AddElement DEF Covered
  <2>2. GraphsOfQuad(q) \in SUBSET Graph
    BY GraphAssumption DEF GraphsOfQuad, IsDefault
  <2> QED
    BY <2>1, <2>2 DEF Covered
<1> DEFINE created == IF GraphsOfQuad(q) \subseteq G THEN <<>> ELSE <<Crt(GraphOf[q])>>
           k == undo \o (created \o <<Ins(q)>>)
<1>4. k \in Seq(Entry) /\ PlayedBack(store', k) = PlayedBack(store, undo)
  BY <1>1, <1>2, InsertionUndone
<1>5. undo' = IF in_scope THEN k ELSE undo
  BY <1>1 DEF insert_encoded, record, Crt, Ins
<1> HIDE DEF k
<1>6. generation' = generation + 1 /\ UNCHANGED <<generation_at_begin, in_scope, statistics>>
  BY DEF insert_encoded
<1> QED
  BY <1>2, <1>3, <1>4, <1>5, <1>6 DEF Wrote

\* What remove_encoded writes.
LEMMA RemoveWrites ==
    ASSUME NEW Q, NEW G, Covered(Q, G), store = Built(Q, G), undo \in Seq(Entry),
           NEW q \in Quad, remove_encoded(q)
    PROVE  Wrote(Q \ {q}, G, TRUE)
<1>1. q \in Q
  BY BuiltHolds DEF remove_encoded, Covered
<1>2. store' = Built(Q \ {q}, G)
  BY RemovedBuilt DEF remove_encoded, Covered
<1>3. Covered(Q \ {q}, G)
  BY FS_RemoveElement DEF Covered
<1> DEFINE k == undo \o <<Rem(q)>>
<1>4. k \in Seq(Entry) /\ PlayedBack(store', k) = PlayedBack(store, undo)
  BY <1>1, <1>2, RemovalUndone
<1>5. undo' = IF in_scope THEN k ELSE undo
  BY DEF remove_encoded, record, Rem
<1> HIDE DEF k
<1>6. generation' = generation + 1 /\ UNCHANGED <<generation_at_begin, in_scope, statistics>>
  BY DEF remove_encoded
<1> QED
  BY <1>2, <1>3, <1>4, <1>5, <1>6 DEF Wrote

\* What insert_named_graph writes.
LEMMA CreateWrites ==
    ASSUME NEW Q, NEW G, Covered(Q, G), store = Built(Q, G), undo \in Seq(Entry),
           NEW g \in Graph, insert_named_graph(g)
    PROVE  Wrote(Q, G \cup {g}, FALSE)
<1>1. g \notin G
  BY BuiltHolds DEF insert_named_graph, Covered
<1>2. store' = Built(Q, G \cup {g})
  BY GraphCreatedBuilt DEF insert_named_graph
<1>3. Covered(Q, G \cup {g})
  BY DEF Covered
<1> DEFINE k == undo \o <<Crt(g)>>
<1>4. k \in Seq(Entry) /\ PlayedBack(store', k) = PlayedBack(store, undo)
  BY <1>1, <1>2, GraphUndone
<1>5. undo' = IF in_scope THEN k ELSE undo
  BY DEF insert_named_graph, record, Crt
<1> HIDE DEF k
<1>6. generation' = generation /\ UNCHANGED <<generation_at_begin, in_scope, statistics>>
  BY DEF insert_named_graph
<1>7. store'.index["dspo"] = store.index["dspo"]
  BY <1>2 DEF Built
<1> QED
  BY <1>2, <1>3, <1>4, <1>5, <1>6, <1>7 DEF Wrote

\* What remove_named_graph writes.
LEMMA DropWrites ==
    ASSUME NEW Q, NEW G, Covered(Q, G), store = Built(Q, G), undo \in Seq(Entry),
           NEW g \in Graph, remove_named_graph(g)
    PROVE  Wrote({q \in Q : GraphOf[q] # g}, G \ {g}, FALSE)
<1> DEFINE K == {q \in Q : GraphOf[q] # g}
           doomed == {q \in Q : GraphOf[q] = g}
<1>1. g \in G
  BY BuiltHolds DEF remove_named_graph, Covered
<1>2. store' = Built(K, G \ {g})
  BY GraphDroppedBuilt DEF remove_named_graph, Covered
<1>3. Covered(K, G \ {g})
  <2>1. IsFiniteSet(K)
    BY PartFinite DEF Covered
  <2> QED
    BY <2>1 DEF Covered, GraphsOfQuad
<1>4. QuadsOfGraph(store, g) = doomed
  <2>1. Q \in SUBSET Quad
    BY DEF Covered
  <2>2. QuadsOfGraph(Built(Q, G), g) = {q \in Q : GraphOf[q] = g}
    BY <2>1, BuiltGraph, Zenon
  <2> QED
    BY <2>2
<1> DEFINE n == Cardinality(doomed)
<1>5. n \in Nat
  BY PartFinite DEF Covered
<1>6. PICK order \in [1..n -> doomed] :
        /\ \A q \in doomed : \E i \in DOMAIN order : order[i] = q
        /\ record([i \in DOMAIN order |-> [op |-> "Removed", of |-> order[i]]]
                     \o <<[op |-> "GraphDropped", of |-> g]>>)
  BY <1>4 DEF remove_named_graph
<1> DEFINE R == [i \in 1..n |-> Rem(order[i])]
           k == undo \o (R \o <<Drp(g)>>)
<1>7. DOMAIN order = 1..n
  OBVIOUS
<1>8. undo' = IF in_scope THEN k ELSE undo
  BY <1>6, <1>7 DEF record, Rem, Drp
<1>9. k \in Seq(Entry) /\ PlayedBack(store', k) = PlayedBack(store, undo)
  <2>1. RemovalsOf(doomed, R)
    <3> HIDE DEF n
    <3>1. order \in [1..n -> Quad] /\ \A i \in 1..n : order[i] \in doomed
      BY DEF Covered
    <3>2. \A q \in doomed : \E i \in 1..n : order[i] = q
      BY <1>6, <1>7
    <3> HIDE DEF doomed
    <3> QED
      BY <1>5, <3>1, <3>2 DEF RemovalsOf
  <2>2. k \in Seq(Entry) /\ PlayedBack(Built(K, G \ {g}), k) = PlayedBack(Built(Q, G), undo)
    <3>1. K = {q \in Q : GraphOf[q] # g}
      OBVIOUS
    <3> HIDE DEF R, K
    <3> QED
      BY <1>1, <2>1, <3>1, DropUndone
  <2> QED
    BY <1>2, <2>2
<1>10. generation' = generation /\ UNCHANGED <<generation_at_begin, in_scope, statistics>>
  BY DEF remove_named_graph
<1>11. store'.index["dspo"] = store.index["dspo"]
  <2>1. "dspo" \in AllOrders /\ "dspo" \in TripleOrders /\ "dspo" \notin QuadOrders
    BY DEF AllOrders, TripleOrders, QuadOrders
  <2>2. /\ store'.index["dspo"] = {q \in K : "dspo" \in Orders(q)}
        /\ store.index["dspo"] = {q \in Q : "dspo" \in Orders(q)}
    BY <1>2, <2>1 DEF Built
  <2>3. \A q \in Q : "dspo" \in Orders(q) => GraphOf[q] # g
    BY <2>1, GraphAssumption DEF Orders, IsDefault
  <2> QED
    BY <2>2, <2>3
<1> HIDE DEF k, K
<1> QED
  BY <1>2, <1>3, <1>8, <1>9, <1>10, <1>11 DEF Wrote, K

\* A write leaves what a rollback would leave.
LEMMA DatasetWriteKeeps ==
    ASSUME MemoryInv, NEW Q, NEW G, NEW rows \in BOOLEAN, Wrote(Q, G, rows)
    PROVE  MemoryInv'
<1>1. Sound(store')
  BY DEF Wrote, Sound
<1>2. CASE in_scope
  <2>1. Back' = Back /\ in_scope' /\ BackGeneration' = BackGeneration
    BY <1>2 DEF Wrote, Back, BackGeneration
  <2>2. /\ BackGeneration <= generation'
        /\ generation' = BackGeneration => store'.index["dspo"] = Back.index["dspo"]
    <3>1. /\ BackGeneration <= generation /\ generation \in Nat /\ BackGeneration \in Nat
          /\ generation = BackGeneration => store.index["dspo"] = Back.index["dspo"]
      BY DEF MemoryInv, BackGeneration
    <3>2. \/ generation' = generation + 1
          \/ generation' = generation /\ store'.index["dspo"] = store.index["dspo"]
      BY DEF Wrote
    <3> QED
      BY <3>1, <3>2
  <2>3. /\ in_scope' \in BOOLEAN /\ undo' \in Seq(Entry)
        /\ generation' \in Nat /\ generation_at_begin' \in Nat
    BY DEF Wrote, MemoryInv
  <2>4. statistics' = statistics
    BY DEF Wrote
  <2> QED
    BY <1>1, <2>1, <2>2, <2>3, <2>4 DEF MemoryInv
<1>3. CASE ~in_scope
  <2>1. /\ Back' = store' /\ Back = store /\ ~in_scope'
        /\ BackGeneration' = generation' /\ BackGeneration = generation
    BY <1>3 DEF Wrote, Back, BackGeneration
  <2>2. /\ in_scope' \in BOOLEAN /\ undo' \in Seq(Entry)
        /\ generation' \in Nat /\ generation_at_begin' \in Nat
    BY DEF Wrote, MemoryInv
  <2>3. statistics' = statistics
    BY DEF Wrote
  <2>4. ASSUME NEW s \in statistics
        PROVE  /\ s.generation \in Nat /\ s.generation <= BackGeneration'
               /\ s.generation = BackGeneration' => s.quads = Back'.index["dspo"]
    <3>1. s.generation \in Nat /\ s.generation <= generation
      BY <2>1, <2>4 DEF MemoryInv
    <3>2. s.generation = generation => s.quads = store.index["dspo"]
      BY <2>1, <2>4 DEF MemoryInv
    <3>3. \/ generation' = generation + 1
          \/ generation' = generation /\ store'.index["dspo"] = store.index["dspo"]
      BY DEF Wrote
    <3>4. generation \in Nat
      BY DEF MemoryInv
    <3> QED
      BY <2>1, <3>1, <3>2, <3>3, <3>4
  <2> QED
    BY <1>1, <2>1, <2>2, <2>3, <2>4 DEF MemoryInv
<1>4. QED
  BY <1>2, <1>3, Zenon

\* Opening, committing and rolling back a scope, and keeping statistics.
LEMMA ScopeKeeps ==
    ASSUME MemoryInv, begin \/ commit \/ rollback \/ CacheStatistics
    PROVE  MemoryInv'
<1>0. <<>> \in Seq(Entry)
  OBVIOUS
<1>1. CASE begin
  <2>1. PlayedBack(store, <<>>) = store
    BY PlayedBackNothing
  <2>2. Back' = store' /\ store' = store /\ Back = store
    BY <1>1, <2>1 DEF begin, Back
  <2>3. BackGeneration' = generation /\ BackGeneration = generation
    BY <1>1 DEF begin, BackGeneration
  <2>4. /\ in_scope' \in BOOLEAN /\ undo' \in Seq(Entry) /\ generation' = generation
        /\ generation_at_begin' = generation /\ statistics' = statistics
    BY <1>0, <1>1 DEF begin
  <2> QED
    BY <2>2, <2>3, <2>4 DEF MemoryInv
<1>2. CASE commit
  <2>1. Back' = store' /\ store' = store /\ BackGeneration' = generation /\ ~in_scope'
    BY <1>2 DEF commit, Back, BackGeneration
  <2>2. /\ in_scope' \in BOOLEAN /\ undo' \in Seq(Entry) /\ generation' = generation
        /\ generation_at_begin' = generation_at_begin /\ statistics' = statistics
    BY <1>0, <1>2 DEF commit
  <2>3. ASSUME NEW s \in statistics
        PROVE  /\ s.generation \in Nat /\ s.generation <= generation
               /\ s.generation = generation => s.quads = store.index["dspo"]
    <3>1. /\ s.generation \in Nat /\ s.generation <= BackGeneration
          /\ s.generation = BackGeneration => s.quads = Back.index["dspo"]
      BY <2>3 DEF MemoryInv
    <3>2. /\ BackGeneration \in Nat /\ generation \in Nat /\ BackGeneration <= generation
          /\ generation = BackGeneration => store.index["dspo"] = Back.index["dspo"]
      BY DEF MemoryInv, BackGeneration
    <3> QED
      BY <3>1, <3>2
  <2> QED
    BY <2>1, <2>2, <2>3 DEF MemoryInv
<1>3. CASE rollback
  <2>1. Back' = Back /\ store' = Back /\ BackGeneration' = BackGeneration /\ ~in_scope'
    BY <1>3 DEF rollback, Back, BackGeneration
  <2>2. /\ in_scope' \in BOOLEAN /\ undo' \in Seq(Entry) /\ generation' = generation_at_begin
        /\ generation_at_begin' = generation_at_begin /\ statistics' = statistics
    BY <1>0, <1>3 DEF rollback
  <2>3. BackGeneration = generation_at_begin /\ generation_at_begin \in Nat /\ Sound(Back)
    BY <1>3 DEF rollback, BackGeneration, MemoryInv
  <2>4. Sound(store') /\ Sound(Back')
    BY <2>1, <2>3
  <2>5. BackGeneration' <= generation' /\ store'.index["dspo"] = Back'.index["dspo"]
    BY <2>1, <2>2, <2>3
  <2>6. \A s \in statistics' : /\ s.generation \in Nat /\ s.generation <= BackGeneration'
                               /\ s.generation = BackGeneration' => s.quads = Back'.index["dspo"]
    BY <2>1, <2>2 DEF MemoryInv
  <2> QED
    BY <2>2, <2>3, <2>4, <2>5, <2>6 DEF MemoryInv
<1>4. CASE CacheStatistics
  <2>1. Back' = Back /\ Back = store /\ BackGeneration' = BackGeneration /\ BackGeneration = generation
    BY <1>4 DEF CacheStatistics, Back, BackGeneration
  <2>2. /\ UNCHANGED <<store, generation, generation_at_begin, in_scope, undo>>
        /\ statistics' = {[generation |-> generation, quads |-> store.index["dspo"]]}
    BY <1>4 DEF CacheStatistics
  <2> QED
    BY <2>1, <2>2 DEF MemoryInv
<1> QED
  BY <1>1, <1>2, <1>3, <1>4

\* Every step keeps the invariant.
LEMMA MemoryKept ==
    ASSUME MemoryInv, [MemoryNext]_memory_vars
    PROVE  MemoryInv'
<1>1. PICK Q, G : Covered(Q, G) /\ store = Built(Q, G)
  BY DEF MemoryInv, Sound
<1>2. undo \in Seq(Entry)
  BY DEF MemoryInv
<1>3. ASSUME NEW q \in Quad, insert_encoded(q) PROVE MemoryInv'
  BY <1>1, <1>2, <1>3, InsertWrites, DatasetWriteKeeps
<1>4. ASSUME NEW q \in Quad, remove_encoded(q) PROVE MemoryInv'
  BY <1>1, <1>2, <1>4, RemoveWrites, DatasetWriteKeeps
<1>5. ASSUME NEW g \in Graph, insert_named_graph(g) PROVE MemoryInv'
  BY <1>1, <1>2, <1>5, CreateWrites, DatasetWriteKeeps
<1>6. ASSUME NEW g \in Graph, remove_named_graph(g) PROVE MemoryInv'
  BY <1>1, <1>2, <1>6, DropWrites, DatasetWriteKeeps
<1>7. CASE UNCHANGED memory_vars
  BY <1>7 DEF memory_vars, MemoryInv, Back, BackGeneration
<1> QED
  BY <1>3, <1>4, <1>5, <1>6, <1>7, ScopeKeeps DEF MemoryNext

\* The empty store satisfies it.
LEMMA MemoryInitInv == MemoryInit => MemoryInv
<1> SUFFICES ASSUME MemoryInit PROVE MemoryInv
  OBVIOUS
<1>1. Covered({}, {})
  BY FS_EmptySet DEF Covered
<1>2. store = Built({}, {})
  <2>1. \A p \in Predicate : Cardinality({q \in {} : PredOf[q] = p}) = 0
    <3>1. \A p : {q \in {} : PredOf[q] = p} = {}
      OBVIOUS
    <3> QED
      BY <3>1, FS_EmptySet
  <2> QED
    BY <2>1 DEF MemoryInit, Built
<1>3. Sound(store) /\ Back = store
  BY <1>1, <1>2 DEF Sound, Back, MemoryInit
<1>4. undo \in Seq(Entry)
  <2>1. <<>> \in Seq(Entry)
    OBVIOUS
  <2> QED
    BY <2>1 DEF MemoryInit
<1>5. BackGeneration = 0 /\ generation = 0 /\ generation_at_begin = 0 /\ in_scope = FALSE /\ statistics = {}
  BY DEF MemoryInit, BackGeneration
<1>6. /\ Sound(Back) /\ in_scope \in BOOLEAN /\ BackGeneration <= generation
      /\ generation \in Nat /\ generation_at_begin \in Nat
      /\ store.index["dspo"] = Back.index["dspo"]
  <2>1. Sound(Back) /\ in_scope \in BOOLEAN /\ store.index["dspo"] = Back.index["dspo"]
    BY <1>3, <1>5, Zenon
  <2>2. BackGeneration <= generation /\ generation \in Nat /\ generation_at_begin \in Nat
    BY <1>5
  <2> QED
    BY <2>1, <2>2
<1>7. \A s \in statistics : FALSE
  BY <1>5
<1> QED
  BY <1>3, <1>4, <1>6, <1>7, Zenon DEF MemoryInv

\* The invariant says what StoreConsistent says.
LEMMA MemoryInvConsistent == MemoryInv => StoreConsistent
<1> SUFFICES ASSUME MemoryInv PROVE StoreConsistent
  OBVIOUS
<1>1. PICK Q, G : Covered(Q, G) /\ store = Built(Q, G)
  BY DEF MemoryInv, Sound
<1>2. Q \in SUBSET Quad /\ \A q \in Q : GraphsOfQuad(q) \subseteq G
  BY <1>1 DEF Covered
<1>3. /\ QuadsOf(store) = Q /\ store.graphs = G
      /\ \A f \in AllOrders : store.index[f] = {q \in Q : f \in Orders(q)}
      /\ \A p \in Predicate : store.counts[p] = Cardinality({q \in Q : PredOf[q] = p})
  <2>1. /\ QuadsOf(Built(Q, G)) = Q /\ Built(Q, G).graphs = G
        /\ \A f \in AllOrders : Built(Q, G).index[f] = {q \in Q : f \in Orders(q)}
        /\ \A p \in Predicate : Built(Q, G).counts[p] = Cardinality({q \in Q : PredOf[q] = p})
    BY BuiltHolds
  <2> QED
    BY <1>1, <2>1
<1>4. ASSUME NEW s \in statistics, ~in_scope, s.generation = generation
      PROVE  s.quads = store.index["dspo"]
  BY <1>4 DEF MemoryInv, Back, BackGeneration
<1> QED
  BY <1>2, <1>3, <1>4 DEF StoreConsistent

\* In every state of every execution, scopes open or not and rolled back or not, the nine
\* orders agree, the catalogue covers the quads, the predicate counts are exact and a
\* statistics snapshot that carries the store's generation describes it.
THEOREM MemoryAlwaysConsistent == MemorySpec => []StoreConsistent
<1>1. MemoryInit => MemoryInv
  BY MemoryInitInv
<1>2. MemoryInv /\ [MemoryNext]_memory_vars => MemoryInv'
  BY MemoryKept
<1>3. MemoryInv => StoreConsistent
  BY MemoryInvConsistent
<1> QED
  BY <1>1, <1>2, <1>3, PTL DEF MemorySpec

-----------------------------------------------------------------------------
(* The promise of the Storage trait                                        *)

\* What a store is to a reader.
DatasetOf(st) == [quads |-> QuadsOf(st), graphs |-> st.graphs]

\* The refinement mapping in these terms.
LEMMA MappingIs ==
    /\ Abstract!Init <=> /\ DatasetOf(Back) = Abstract!EmptyDataset
                         /\ DatasetOf(store) = Abstract!EmptyDataset
                         /\ in_scope = FALSE
    /\ UNCHANGED Abstract!vars <=>
         UNCHANGED <<DatasetOf(Back), DatasetOf(store), in_scope>>
    /\ \A ds : Abstract!Write(ds) <=>
         /\ DatasetOf(store)' = ds
         /\ DatasetOf(Back)' = IF in_scope THEN DatasetOf(Back) ELSE ds
         /\ UNCHANGED in_scope
<1>1. Abstract!Init <=> /\ DatasetOf(Back) = Abstract!EmptyDataset
                        /\ DatasetOf(store) = Abstract!EmptyDataset
                        /\ in_scope = FALSE
  BY DEF Abstract!Init, DatasetOf, Back
<1>2. UNCHANGED Abstract!vars <=>
         UNCHANGED <<DatasetOf(Back), DatasetOf(store), in_scope>>
  BY DEF Abstract!vars, DatasetOf, Back
<1>3. \A ds : Abstract!Write(ds) <=>
         /\ DatasetOf(store)' = ds
         /\ DatasetOf(Back)' = IF in_scope THEN DatasetOf(Back) ELSE ds
         /\ UNCHANGED in_scope
  BY DEF Abstract!Write, DatasetOf, Back
<1> QED
  BY <1>1, <1>2, <1>3

\* What a reader of a built store sees.
LEMMA DatasetOfBuilt ==
    ASSUME NEW Q, NEW G
    PROVE  DatasetOf(Built(Q, G)) = [quads |-> Q, graphs |-> G]
  BY BuiltHolds DEF DatasetOf

\* A write of the backend is a write of the abstract store.
LEMMA WroteWrites ==
    ASSUME NEW Q, NEW G, NEW rows, Wrote(Q, G, rows)
    PROVE  Abstract!Write([quads |-> Q, graphs |-> G])
<1>1. DatasetOf(store)' = [quads |-> Q, graphs |-> G] /\ in_scope' = in_scope
  BY DatasetOfBuilt DEF Wrote
<1>2. DatasetOf(Back)' = IF in_scope THEN DatasetOf(Back) ELSE [quads |-> Q, graphs |-> G]
  BY <1>1 DEF Wrote, Back
<1> QED
  BY <1>1, <1>2, MappingIs, Zenon

\* Every step of the backend is a step of the abstract store or leaves it alone.
LEMMA MemoryStepRefines ==
    ASSUME MemoryInv, [MemoryNext]_memory_vars
    PROVE  [Abstract!Next]_(Abstract!vars)
<1>1. PICK Q, G : Covered(Q, G) /\ store = Built(Q, G)
  BY DEF MemoryInv, Sound
<1>2. undo \in Seq(Entry)
  BY DEF MemoryInv
<1>3. QuadsOf(store) = Q /\ store.graphs = G
  BY <1>1, BuiltHolds
<1>4. ASSUME NEW q \in Quad, insert_encoded(q) PROVE Abstract!Next
  <2>1. Wrote(Q \cup {q}, G \cup GraphsOfQuad(q), TRUE)
    BY <1>1, <1>2, <1>4, InsertWrites
  <2>2. Abstract!Write([quads |-> Q \cup {q}, graphs |-> G \cup GraphsOfQuad(q)])
    BY <2>1, WroteWrites
  <2>3. Abstract!Insert(q)
    BY <1>3, <2>2 DEF Abstract!Insert, Abstract!GraphsOfQuad, GraphsOfQuad, IsDefault
  <2> QED
    BY <2>3 DEF Abstract!Next
<1>5. ASSUME NEW q \in Quad, remove_encoded(q) PROVE Abstract!Next
  <2>1. Wrote(Q \ {q}, G, TRUE)
    BY <1>1, <1>2, <1>5, RemoveWrites
  <2>2. Abstract!Write([quads |-> Q \ {q}, graphs |-> G])
    BY <2>1, WroteWrites
  <2>3. Abstract!Remove(q)
    BY <1>3, <2>2 DEF Abstract!Remove
  <2> QED
    BY <2>3 DEF Abstract!Next
<1>6. ASSUME NEW g \in Graph, insert_named_graph(g) PROVE Abstract!Next
  <2>1. Wrote(Q, G \cup {g}, FALSE)
    BY <1>1, <1>2, <1>6, CreateWrites
  <2>2. Abstract!Write([quads |-> Q, graphs |-> G \cup {g}])
    BY <2>1, WroteWrites
  <2>3. Abstract!InsertNamedGraph(g)
    BY <1>3, <2>2 DEF Abstract!InsertNamedGraph
  <2> QED
    BY <2>3 DEF Abstract!Next
<1>7. ASSUME NEW g \in Graph, remove_named_graph(g) PROVE Abstract!Next
  <2>1. Wrote({q \in Q : GraphOf[q] # g}, G \ {g}, FALSE)
    BY <1>1, <1>2, <1>7, DropWrites
  <2>2. Abstract!Write([quads |-> {q \in Q : GraphOf[q] # g}, graphs |-> G \ {g}])
    BY <2>1, WroteWrites
  <2>3. Abstract!DropNamedGraph(g)
    BY <1>3, <2>2 DEF Abstract!DropNamedGraph
  <2> QED
    BY <2>3 DEF Abstract!Next
<1>8. CASE begin
  <2>1. PlayedBack(store, <<>>) = store
    BY PlayedBackNothing
  <2>2. Abstract!Begin
    BY <1>8, <2>1 DEF begin, Abstract!Begin
  <2> QED
    BY <2>2 DEF Abstract!Next
<1>9. CASE commit
  <2>1. Abstract!Commit
    BY <1>9 DEF commit, Abstract!Commit
  <2> QED
    BY <2>1 DEF Abstract!Next
<1>10. CASE rollback
  <2>1. Abstract!Abandon
    BY <1>10 DEF rollback, Abstract!Abandon
  <2> QED
    BY <2>1 DEF Abstract!Next
<1>11. CASE CacheStatistics
  BY <1>11 DEF CacheStatistics, Abstract!vars
<1>12. CASE UNCHANGED memory_vars
  BY <1>12 DEF memory_vars, Abstract!vars
<1> QED
  BY <1>4, <1>5, <1>6, <1>7, <1>8, <1>9, <1>10, <1>11, <1>12 DEF MemoryNext

\* The in-memory backend keeps the promise of the Storage trait: a write is seen at once, a
\* commit keeps the scope's writes, and a rollback that plays the journal backwards leaves
\* exactly what was there when the scope opened.
THEOREM MemoryIsAStorage == MemorySpec => ImplementsStorage
<1>1. MemoryInit => Abstract!Init
  <2> SUFFICES ASSUME MemoryInit PROVE Abstract!Init
    OBVIOUS
  <2>1. Back = store /\ in_scope = FALSE
    BY DEF MemoryInit, Back
  <2>2. DatasetOf(store) = Abstract!EmptyDataset
    BY DEF MemoryInit, DatasetOf, QuadsOf, AllOrders, TripleOrders, QuadOrders, Abstract!EmptyDataset
  <2> QED
    BY <2>1, <2>2, MappingIs
<1>2. MemoryInit => MemoryInv
  BY MemoryInitInv
<1>3. MemoryInv /\ [MemoryNext]_memory_vars => MemoryInv'
  BY MemoryKept
<1>4. MemoryInv /\ [MemoryNext]_memory_vars => [Abstract!Next]_(Abstract!vars)
  BY MemoryStepRefines
<1> QED
  BY <1>1, <1>2, <1>3, <1>4, PTL DEF MemorySpec, ImplementsStorage, Abstract!Spec
=============================================================================
