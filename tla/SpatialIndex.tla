---------------------------- MODULE SpatialIndex ----------------------------
(***************************************************************************)
(* The spatial index (crates/holos-engine/src/spatial.rs) as the server's  *)
(* worker threads share it (crates/holos-server/src/main.rs).              *)
(*                                                                         *)
(* Every worker takes the engine's RwLock: for writing while it applies an *)
(* update, for reading while it brings the index up to date, purges it or  *)
(* answers a query.  Readers run side by side, and the index has a lock of *)
(* its own that each of them takes several times, for a moment.  The store *)
(* cannot move under a reader; the index can.                              *)
(*                                                                         *)
(* A literal that is not a geometry, and how the tree is packed, change    *)
(* nothing here and are left out.                                          *)
(***************************************************************************)
EXTENDS Integers, FiniteSets, Sequences

CONSTANTS
    Worker,       \* the server's worker threads
    Quads,         \* the quads updates write
    Geometry,     \* geometry literals
    NoGeometry,   \* ObjectOf of a quad whose object is not a geometry
    ObjectOf,     \* the object of each quad
    Deletes,      \* updates delete
    Mixed,        \* one update may both delete and insert
    Fails,        \* an update may fail after it has interned its terms
    Purges        \* the purge endpoint is switched on

ASSUME ObjectAssumption ==
    NoGeometry \notin Geometry /\ ObjectOf \in [Quads -> Geometry \cup {NoGeometry}]

ASSUME SwitchAssumption == {Deletes, Mixed, Fails, Purges} \subseteq BOOLEAN

VARIABLES
    stored,               \* the quads in the store
    dictionary,           \* the geometries interned, in the order of their ids
    tree,                 \* Inner::tree, as the set of geometries in it
    watermark,            \* Inner::watermark
    dormant,              \* Inner::dormant
    quads_at_last_check,  \* Inner::quads_at_last_check
    pc,                   \* where each worker is
    from,                 \* catch_up's argument
    held,                 \* what a worker copied out of the index: resurrected or entries
    unsure,               \* auxiliary: quads_at_last_check does not tell whether the
                          \* watchlist has to be looked at
    overwritten           \* auxiliary: what a purge put out of the tree that a refresh had
                          \* entered since the purge copied it

index == <<tree, watermark, dormant, quads_at_last_check>>
spatial_vars == <<stored, dictionary, index, pc, from, held, unsure, overwritten>>

Interned == {dictionary[i] : i \in DOMAIN dictionary}
Count == Len(dictionary)
StoreLen == Cardinality(stored)
Referenced == {ObjectOf[q] : q \in stored} \cap Geometry

\* Guards that hold the engine's lock for reading.
Reading == {"refresh", "checked", "resurrected", "purging", "query"}
NoReader == \A w \in Worker : pc[w] \notin Reading

\* A check that trusts the watermark after a purge too.
M_is_current_for_by_watermark == watermark >= Count

is_current_for ==
    /\ watermark >= Count
    /\ dormant = {} \/ quads_at_last_check = StoreLen

-----------------------------------------------------------------------------
(* Writers                                                                 *)

\* Interning a geometry the dictionary has makes no new id.
Intern(q) ==
    dictionary' = IF ObjectOf[q] \in Geometry \ Interned
                  THEN Append(dictionary, ObjectOf[q]) ELSE dictionary

\* An update under the write lock; the index is refreshed after the lock is gone.
apply_update(w) ==
    /\ pc[w] = "idle"
    /\ NoReader
    /\ \/ \E q \in Quads \ stored : stored' = stored \cup {q} /\ Intern(q)
       \/ /\ Deletes
          /\ \E q \in stored : stored' = stored \ {q} /\ UNCHANGED dictionary
       \/ /\ Mixed
          /\ \E q \in Quads \ stored, r \in stored :
                stored' = (stored \ {r}) \cup {q} /\ Intern(q)
    /\ pc' = [pc EXCEPT ![w] = "written"]
    /\ unsure' = (unsure \/ ~(stored \subseteq stored'))
    /\ UNCHANGED <<index, from, held, overwritten>>

\* An update that fails is rolled back and not followed by a refresh; the ids stay issued.
UpdateFails(w) ==
    /\ Fails
    /\ pc[w] = "idle"
    /\ NoReader
    /\ \E q \in Quads \ stored : Intern(q)
    /\ UNCHANGED <<stored, index, pc, from, held, unsure, overwritten>>

-----------------------------------------------------------------------------
(* Refreshing                                                              *)

\* refresh reads the watermark, under the engine's read lock.
refresh(w) ==
    /\ pc[w] = "written"
    /\ from' = [from EXCEPT ![w] = watermark]
    /\ pc' = [pc EXCEPT ![w] = "refresh"]
    /\ UNCHANGED <<stored, dictionary, index, held, unsure, overwritten>>

\* catch_up returns early when nothing was interned and the store has as many quads as when
\* the watchlist was last checked.
CheckLevel(w) ==
    /\ pc[w] = "refresh"
    /\ IF Count <= from[w] /\ quads_at_last_check = StoreLen
       THEN /\ pc' = [pc EXCEPT ![w] = "idle"]
            /\ from' = [from EXCEPT ![w] = 0]
       ELSE /\ pc' = [pc EXCEPT ![w] = "checked"]
            /\ UNCHANGED from
    /\ UNCHANGED <<stored, dictionary, index, held, unsure, overwritten>>

\* The watchlist is looked at only if the store has grown since.
resurrect(w) ==
    /\ pc[w] = "checked"
    /\ held' = [held EXCEPT ![w] =
                   IF StoreLen > quads_at_last_check THEN dormant \cap Referenced ELSE {}]
    /\ pc' = [pc EXCEPT ![w] = "resurrected"]
    /\ UNCHANGED <<stored, dictionary, index, from, unsure, overwritten>>

\* The geometries with an id from n up.
Fresh(n) == {dictionary[i] : i \in {j \in DOMAIN dictionary : j > n}}

\* Readings entered in the tree but not marked.
M_catch_up_keeps_watermark(w) ==
    /\ pc[w] = "resurrected"
    /\ tree' = tree \cup Fresh(from[w]) \cup held[w]
    /\ dormant' = dormant \ held[w]
    /\ quads_at_last_check' = StoreLen
    /\ unsure' = (unsure /\ StoreLen <= quads_at_last_check)
    /\ overwritten' = overwritten \ tree'
    /\ pc' = [pc EXCEPT ![w] = "idle"]
    /\ from' = [from EXCEPT ![w] = 0]
    /\ held' = [held EXCEPT ![w] = {}]
    /\ UNCHANGED <<stored, dictionary, watermark>>

\* The end of catch_up, under the index's write lock.
catch_up(w) ==
    /\ pc[w] = "resurrected"
    /\ tree' = tree \cup Fresh(from[w]) \cup held[w]
    /\ dormant' = dormant \ held[w]
    /\ quads_at_last_check' = StoreLen
    /\ unsure' = (unsure /\ StoreLen <= quads_at_last_check)
    /\ overwritten' = overwritten \ tree'
    /\ watermark' = IF Count > watermark THEN Count ELSE watermark
    /\ pc' = [pc EXCEPT ![w] = "idle"]
    /\ from' = [from EXCEPT ![w] = 0]
    /\ held' = [held EXCEPT ![w] = {}]
    /\ UNCHANGED <<stored, dictionary>>

-----------------------------------------------------------------------------
(* Purging                                                                 *)

\* purge copies the tree, then asks the store about each entry without the index's lock.
StartPurge(w) ==
    /\ Purges
    /\ pc[w] = "idle"
    /\ held' = [held EXCEPT ![w] = tree]
    /\ pc' = [pc EXCEPT ![w] = "purging"]
    /\ UNCHANGED <<stored, dictionary, index, from, unsure, overwritten>>

\* What is still referenced becomes the tree, the rest goes on the watchlist.  Whatever a
\* refresh has entered meanwhile is gone, and the count is moved whether or not anybody has
\* looked at the watchlist since the store grew.
purge(w) ==
    /\ pc[w] = "purging"
    /\ tree' = held[w] \cap Referenced
    /\ dormant' = dormant \cup (held[w] \ Referenced)
    /\ quads_at_last_check' = StoreLen
    /\ pc' = [pc EXCEPT ![w] = "idle"]
    /\ held' = [held EXCEPT ![w] = {}]
    /\ unsure' = (unsure \/ (StoreLen # quads_at_last_check /\ dormant # {}))
    /\ overwritten' = (overwritten \cup (tree \ held[w])) \ tree'
    /\ UNCHANGED <<stored, dictionary, watermark, from>>

-----------------------------------------------------------------------------
(* Queries                                                                 *)

\* restrict asks whether the index is current, and then probes it.  If it is not, the query
\* scans the store and the index plays no part.
usable(w) ==
    /\ pc[w] = "idle"
    /\ is_current_for
    /\ pc' = [pc EXCEPT ![w] = "query"]
    /\ UNCHANGED <<stored, dictionary, index, from, held, unsure, overwritten>>

candidates(w) ==
    /\ pc[w] = "query"
    /\ pc' = [pc EXCEPT ![w] = "idle"]
    /\ UNCHANGED <<stored, dictionary, index, from, held, unsure, overwritten>>

-----------------------------------------------------------------------------
SpatialInit ==
    /\ stored = {}
    /\ dictionary = <<>>
    /\ tree = {}
    /\ watermark = 0
    /\ dormant = {}
    /\ quads_at_last_check = 0
    /\ pc = [w \in Worker |-> "idle"]
    /\ from = [w \in Worker |-> 0]
    /\ held = [w \in Worker |-> {}]
    /\ unsure = FALSE
    /\ overwritten = {}

\* What a worker that has applied an update still does before it takes another request.
RefreshStep(w) == refresh(w) \/ CheckLevel(w) \/ resurrect(w) \/ catch_up(w)

SpatialNext ==
    \E w \in Worker :
        \/ apply_update(w)
        \/ UpdateFails(w)
        \/ RefreshStep(w)
        \/ StartPurge(w)
        \/ purge(w)
        \/ usable(w)
        \/ candidates(w)

\* Worker threads run: none of them stops in the middle of a request.
SpatialFairness == \A w \in Worker : WF_spatial_vars(RefreshStep(w) \/ purge(w) \/ candidates(w))

SpatialSpec == SpatialInit /\ [][SpatialNext]_spatial_vars /\ SpatialFairness

-----------------------------------------------------------------------------
(* Properties                                                              *)

\* A query that was told the index is current finds every geometry the store refers to,
\* from the moment it asks until it has probed, whatever the other workers do meanwhile:
\* omitting one is an answer silently missing a row.
QueryFindsAll == \A w \in Worker : pc[w] = "query" => Referenced \subseteq tree

\* The same, but for two things.  A purge overwrites what a refresh enters beside it.  And
\* once a quad has been deleted, or a purge has moved the count without a look at the
\* watchlist, the number of quads no longer tells whether what is on the watchlist is
\* referred to again.
QueryComplete ==
    \A w \in Worker :
        pc[w] = "query" =>
            Referenced \subseteq tree \cup overwritten \cup (IF unsure THEN dormant ELSE {})

\* After an update the index comes back into use: it is current again at some point, even
\* if other updates keep coming.
IndexCatchesUp == \A w \in Worker : pc[w] = "written" ~> is_current_for
=============================================================================
