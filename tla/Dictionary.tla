----------------------------- MODULE Dictionary -----------------------------
(***************************************************************************)
(* The RocksDB backend's dictionary (crates/holos-store/src/rocks/mod.rs   *)
(* with dictsort.rs and seen.rs): terms get ids outside any scope, inside  *)
(* a commit scope and during a bulk load.                                  *)
(*                                                                         *)
(* A short term is the key of its own str2id row.  A long one is stored    *)
(* under a hash, and the row lists every id whose term has that hash.  A   *)
(* triple term is written as the ids of its parts.  Terms that are encoded *)
(* in the id itself (vocabulary, small literals) never come here.          *)
(*                                                                         *)
(* A bulk load holds the rows of a window back, hands a full window to a   *)
(* thread that sorts and writes it, and takes the file in later; only its  *)
(* cache knows the terms until then.  A load that is interrupted leaves a  *)
(* store to be thrown away, so there is no crash or failure during one.    *)
(***************************************************************************)
EXTENDS Integers, FiniteSets, Sequences

CONSTANTS
    Leaf,               \* terms without parts
    Triple,             \* triple terms
    Parts,              \* the three leaves of each triple term
    Long,               \* leaves past INLINE_KEY_MAX
    Hash,               \* hash128 of each long leaf
    MaxId,              \* ids per tag
    WritesMayFail,      \* RocksDB may refuse a batch
    RepeatsOutside,     \* a triple term may repeat a new part outside a scope and a load
    CollisionsInFlight  \* a load may meet a hash that the window being written has too

ASSUME TermAssumption ==
    /\ Leaf \cap Triple = {} /\ Long \subseteq Leaf
    /\ Parts \in [Triple -> [1..3 -> Leaf]]
    /\ \A s, t \in Triple : Parts[s] = Parts[t] => s = t
    /\ DOMAIN Hash = Long

ASSUME IdAssumption == MaxId \in Nat

ASSUME SwitchAssumption == {WritesMayFail, RepeatsOutside, CollisionsInFlight} \subseteq BOOLEAN

Term == Leaf \cup Triple
Tag == {"leaf", "triple"}

VARIABLES
    db,        \* the rows of ID2STR and STR2ID, and the META_NEXT counters
    next,      \* RocksStorage::next
    mode,      \* "plain", "scope" or "bulk"
    rows,      \* rows held back: ScopeState::pending, or the window a load fills
    counters,  \* META_NEXT as the scope or the load will leave it: its own pending rows
    terms,     \* ScopeState::terms, or the cache of a load, as pairs of id and bytes
    seen,      \* BulkState::seen, as the set of what was put in
    filtered,  \* whether the load has a filter
    flight,    \* DictFlush: the rows being written
    issued,    \* DictFlush::next: the counters when they were handed over
    given,     \* auxiliary: the id and the term of every encode since open
    lost       \* auxiliary: ids of scopes that were abandoned

load == <<seen, filtered, flight, issued>>
held == <<rows, counters, terms>>
dictionary_vars == <<db, next, mode, held, load, given, lost>>

NoRows == [id2str |-> {}, str2id |-> {}]
Zero == [g \in Tag |-> 0]

-----------------------------------------------------------------------------
(* Keys and rows                                                           *)

\* put_term: the bytes of a leaf, and of a triple term whose parts have the ids s.
LeafBytes(t) == <<"leaf", t>>
TripleBytes(s) == <<"triple", s>>
TagOf(bytes) == bytes[1]

Hashed(bytes) == TagOf(bytes) = "leaf" /\ bytes[2] \in Long

dictionary_key(bytes) == IF Hashed(bytes) THEN <<"hashed", Hash[bytes[2]]>> ELSE <<"exact", bytes>>

ListAt(r, key) == {x[2] : x \in {y \in r.str2id : y[1] = key}}
BytesAt(r, id) == {x[2] : x \in {y \in r.id2str : y[1] = id}}
HasKey(r, key) == \E x \in r.str2id : x[1] = key

\* A list of ids that replaces whatever the key had.
PutList(r, key, ids) == {x \in r.str2id : x[1] # key} \cup {<<key, i>> : i \in ids}

\* Rows written over others, by a batch or by the ingestion of a file.
Over(r, new) ==
    [id2str |-> {x \in r.id2str : \A y \in new.id2str : y[1] # x[1]} \cup new.id2str,
     str2id |-> {x \in r.str2id : \A y \in new.str2id : y[1] # x[1]} \cup new.str2id]

Stored(new, n) ==
    LET r == Over([id2str |-> db.id2str, str2id |-> db.str2id], new)
    IN  [id2str |-> r.id2str, str2id |-> r.str2id, next |-> n]

-----------------------------------------------------------------------------
(* Reading                                                                 *)

\* The candidates of a hashed key are compared with the term.
resolve(bytes) ==
    LET candidates == ListAt(db, dictionary_key(bytes))
    IN  IF Hashed(bytes) THEN {i \in candidates : bytes \in BytesAt(db, i)} ELSE candidates

CachedAs(cache, bytes) == {x[1] : x \in {y \in cache : y[2] = bytes}}

\* A load's cache is not asked: a read during a load sees the database only.
LookupBytes(bytes) ==
    LET buffered == IF mode = "scope" THEN CachedAs(terms, bytes) ELSE {}
    IN  IF buffered # {} THEN buffered ELSE resolve(bytes)

lookup(t) ==
    IF t \in Leaf THEN LookupBytes(LeafBytes(t))
    ELSE LET found == [k \in 1..3 |-> LookupBytes(LeafBytes(Parts[t][k]))]
         IN  UNION {LookupBytes(TripleBytes(<<i, j, k>>)) : i \in found[1], j \in found[2], k \in found[3]}

\* The terms an id may be read back as; an id without a row has none.
ReadBytes(id) == IF mode = "scope" /\ BytesAt(rows, id) # {} THEN BytesAt(rows, id) ELSE BytesAt(db, id)

decode(id) ==
    {t \in Term : \E b \in ReadBytes(id) :
        IF t \in Leaf THEN b = LeafBytes(t)
        ELSE TagOf(b) = "triple" /\ \A k \in 1..3 : LeafBytes(Parts[t][k]) \in ReadBytes(b[2][k])}

-----------------------------------------------------------------------------
(* encode_into                                                             *)

\* What an encode works on: the counters, the rows it adds to, the cache and the filter.
Work == [next |-> next, rows |-> rows, counters |-> counters, terms |-> terms, seen |-> seen,
         id |-> <<"leaf", 0>>]

\* A mutation: the row of a key replaces the one held back.
M_combine_replaces(r, key, ids) == PutList(r, key, ids)

\* dictsort's combine: rows of one hashed key are joined, of an exact one the later counts.
combine(r, key, ids) == PutList(r, key, ids \cup IF key[1] = "hashed" THEN ListAt(r, key) ELSE {})

\* A list is read from the scope if it holds one, otherwise from the database: a load
\* reads the database's however much of it is held back.
Candidates(w, key) == IF mode = "scope" /\ HasKey(w.rows, key) THEN ListAt(w.rows, key) ELSE ListAt(db, key)

allocate(w, bytes) ==
    LET id   == <<TagOf(bytes), w.next[TagOf(bytes)]>>
        key  == dictionary_key(bytes)
        ids  == {id} \cup IF Hashed(bytes) THEN Candidates(w, key) ELSE {}
    IN  [next  |-> [w.next EXCEPT ![TagOf(bytes)] = @ + 1],
         counters |-> [w.counters EXCEPT ![TagOf(bytes)] = id[2] + 1],
         rows  |-> [id2str |-> w.rows.id2str \cup {<<id, bytes>>},
                    str2id |-> IF mode = "bulk" THEN combine(w.rows, key, ids) ELSE PutList(w.rows, key, ids)],
         terms |-> IF mode = "plain" THEN {} ELSE w.terms \cup {<<id, bytes>>},
         seen  |-> IF filtered THEN w.seen \cup {bytes} ELSE w.seen,
         id    |-> id]

\* A term the filter has never been given is new; the filter may err the other way
\* (crowded), and then the database is asked.
EncodeBytes(w, bytes, crowded) ==
    LET cached       == CachedAs(w.terms, bytes)
        provably_new == mode = "bulk" /\ filtered /\ bytes \notin w.seen /\ ~crowded
        found        == IF cached # {} THEN cached ELSE IF provably_new THEN {} ELSE resolve(bytes)
    IN  IF found = {} THEN allocate(w, bytes)
        ELSE LET id == CHOOSE i \in found : TRUE
             IN  [w EXCEPT !.id = id, !.terms = IF mode = "bulk" THEN @ \cup {<<id, bytes>>} ELSE @]

\* The parts of a triple term first, one after the other, into the same rows.
encode_into(t, crowded) ==
    IF t \in Leaf THEN EncodeBytes(Work, LeafBytes(t), crowded)
    ELSE LET s == EncodeBytes(Work, LeafBytes(Parts[t][1]), crowded)
             p == EncodeBytes(s, LeafBytes(Parts[t][2]), crowded)
             o == EncodeBytes(p, LeafBytes(Parts[t][3]), crowded)
         IN  EncodeBytes(o, TripleBytes(<<s.id, p.id, o.id>>), crowded)

\* The leaves an encode of t interns.
LeavesOf(t) == IF t \in Leaf THEN {t} ELSE {Parts[t][k] : k \in 1..3}

\* Two places of t that share a key and that the database knows nothing of.
RepeatsNewPart(t) ==
    t \in Triple /\ \E i, j \in 1..3 :
        /\ i < j
        /\ dictionary_key(LeafBytes(Parts[t][i])) = dictionary_key(LeafBytes(Parts[t][j]))
        /\ resolve(LeafBytes(Parts[t][i])) = {} /\ resolve(LeafBytes(Parts[t][j])) = {}

\* A new leaf of t has the hash of a row in the window being written.
CollidesInFlight(t) ==
    \E x \in LeavesOf(t) :
        /\ Hashed(LeafBytes(x)) /\ HasKey(flight, dictionary_key(LeafBytes(x)))
        /\ CachedAs(terms, LeafBytes(x)) = {} /\ resolve(LeafBytes(x)) = {}

\* The bound on ids.
Fits(w) == \A g \in Tag : w.next[g] <= MaxId

Given(id, t) == given' = given \cup {<<id, t>>}

-----------------------------------------------------------------------------
(* Outside a load                                                          *)

DictionaryInit ==
    /\ db = [id2str |-> {}, str2id |-> {}, next |-> Zero]
    /\ next = Zero
    /\ mode = "plain"
    /\ rows = NoRows /\ counters = Zero /\ terms = {} /\ seen = {} /\ filtered = FALSE
    /\ flight = NoRows /\ issued = Zero
    /\ given = {} /\ lost = {}

\* Outside a scope the rows and the counters are one batch.
EncodePlain(t) ==
    /\ mode = "plain"
    /\ RepeatsOutside \/ ~RepeatsNewPart(t)
    /\ LET w == encode_into(t, FALSE)
       IN  /\ Fits(w)
           /\ next' = w.next
           /\ db' = Stored(w.rows, w.counters)
           /\ counters' = w.counters
           /\ Given(w.id, t)
    /\ UNCHANGED <<mode, rows, terms, load, lost>>

\* RocksDB refuses the batch: the counters in memory have moved, nothing else.
EncodePlainFails(t) ==
    /\ WritesMayFail
    /\ mode = "plain"
    /\ LET w == encode_into(t, FALSE)
       IN  Fits(w) /\ w.rows # NoRows /\ next' = w.next
    /\ UNCHANGED <<db, mode, held, load, given, lost>>

\* In a scope the rows wait.  An operation past MAX_SCOPE_OPS fails after it has been
\* buffered, which leaves the same dictionary.
EncodeInScope(t) ==
    /\ mode = "scope"
    /\ LET w == encode_into(t, FALSE)
       IN  /\ Fits(w)
           /\ next' = w.next /\ rows' = w.rows /\ counters' = w.counters /\ terms' = w.terms
           /\ Given(w.id, t)
    /\ UNCHANGED <<db, mode, load, lost>>

begin ==
    /\ mode = "plain"
    /\ mode' = "scope"
    /\ UNCHANGED <<db, next, held, load, given, lost>>

\* Nothing is held back any more.
Release(stored) == mode' = "plain" /\ rows' = NoRows /\ counters' = stored /\ terms' = {}

\* The counters go with the rows, in one batch.
commit ==
    /\ mode = "scope"
    /\ db' = Stored(rows, counters)
    /\ Release(counters)
    /\ UNCHANGED <<next, load, given, lost>>

\* A mutation: the counters go back with the rest.
M_rollback_restores_next ==
    /\ mode = "scope"
    /\ Release(db.next)
    /\ next' = db.next
    /\ lost' = lost \cup {x[1] : x \in rows.id2str}
    /\ UNCHANGED <<db, load, given>>

\* A scope that is rolled back, or whose batch is refused.  The counters stay.
rollback ==
    /\ mode = "scope"
    /\ Release(db.next)
    /\ lost' = lost \cup {x[1] : x \in rows.id2str}
    /\ UNCHANGED <<db, next, load, given>>

\* open reads the counters back.  Who held an id that was never stored is gone too.
CrashAndOpen ==
    /\ mode # "bulk"
    /\ next' = db.next
    /\ Release(db.next)
    /\ given' = {g \in given : g[1] \in {x[1] : x \in db.id2str}} /\ lost' = {}
    /\ UNCHANGED <<db, load>>

-----------------------------------------------------------------------------
(* During a load                                                           *)

\* dictionary_len
Empty == next = Zero

\* begin_bulk_load is refused in a scope, and its callers end one load before the next.
start_bulk ==
    /\ mode = "plain"
    /\ mode' = "bulk" /\ filtered' = Empty
    /\ UNCHANGED <<db, next, held, seen, flight, issued, given, lost>>

\* What a settle leaves in the cache: terms of the window still being filled, and the hot ones.
Kept(cache, hot) == {x \in cache : x[1][2] >= issued[x[1][1]] \/ x[2] \in hot}

\* settle_dictionary: the window in flight is ingested, and only then are terms forgotten.
\* Which are hot depends on how far apart their uses were.
TakeIn(cache) ==
    /\ flight # NoRows
    /\ db' = Stored(flight, db.next)
    /\ \E hot \in SUBSET {x[2] : x \in cache} : terms' = Kept(cache, hot)

\* commit_ops during a load: the rows are pushed, a window whose thread has finished is
\* taken in, and a full one is handed over (flush_dictionary) when the one before it has been.
EncodeInLoad(t) ==
    /\ mode = "bulk"
    /\ CollisionsInFlight \/ ~CollidesInFlight(t)
    /\ \E crowded \in BOOLEAN :
        /\ crowded => filtered
        /\ LET w == encode_into(t, crowded)
           IN  /\ Fits(w)
               /\ next' = w.next /\ counters' = w.counters /\ seen' = w.seen /\ Given(w.id, t)
               /\ \/ /\ UNCHANGED <<db, flight, issued>>
                     /\ rows' = w.rows /\ terms' = w.terms
                  \/ /\ TakeIn(w.terms)
                     /\ rows' = w.rows /\ flight' = NoRows /\ UNCHANGED issued
                  \/ /\ w.rows # rows
                     /\ IF flight = NoRows THEN db' = db /\ terms' = w.terms ELSE TakeIn(w.terms)
                     /\ rows' = NoRows /\ flight' = w.rows /\ issued' = w.next
    /\ UNCHANGED <<mode, filtered, lost>>

\* finish_bulk: the window being written, the one being filled, then the counters.
finish_bulk ==
    /\ mode = "bulk"
    /\ db' = Stored(Over(flight, rows), counters)
    /\ Release(counters)
    /\ seen' = {} /\ filtered' = FALSE /\ flight' = NoRows /\ issued' = Zero
    /\ UNCHANGED <<next, given, lost>>

DictionaryNext ==
    \/ \E t \in Term : EncodePlain(t)
    \/ \E t \in Term : EncodePlainFails(t)
    \/ \E t \in Term : EncodeInScope(t)
    \/ begin
    \/ commit
    \/ rollback
    \/ CrashAndOpen
    \/ start_bulk
    \/ \E t \in Term : EncodeInLoad(t)
    \/ finish_bulk

DictionarySpec == DictionaryInit /\ [][DictionaryNext]_dictionary_vars

-----------------------------------------------------------------------------
(* Properties                                                              *)

\* An id never comes to mean something else: it is given for one term, it decodes to that
\* term or, if its scope was abandoned or its load is under way, to nothing.
IdsKeepMeaning ==
    \A x \in given :
        /\ \A y \in given : x[1] = y[1] => x[2] = y[2]
        /\ decode(x[1]) \subseteq {x[2]}
        /\ mode # "bulk" /\ x[1] \notin lost => decode(x[1]) = {x[2]}

\* Every id that decodes is the one a lookup of its term finds, so that no quad written with
\* it is out of a query's reach; a hash shared with other terms makes no difference.
RoundTrip ==
    mode # "bulk" =>
        \A x \in db.id2str \cup rows.id2str : \A t \in decode(x[1]) : lookup(t) = {x[1]}
=============================================================================
