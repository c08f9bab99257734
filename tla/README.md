# A TLA+ model of the HOLOS triplestore

HOLOS (`src/crates/`) is an RDF triplestore written in Rust: a storage layer with two
backends, a SPARQL engine over it, a server whose workers share one engine, and *holons*,
graphs that accept changes in versioned ticks guarded by SHACL boundaries and rules. This
directory holds TLA+ modules that model its state-changing parts, the TLC configurations
that check them, and machine-checked proofs of the properties that matter most.

## 1. Inventory

| Component | State it keeps | Operations | What makes it correct |
|---|---|---|---|
| Storage trait (`holos-store/src/storage.rs`) | a dataset: quads, catalogue of named graphs; a commit scope; a write generation | insert, remove, create and drop a graph, begin, commit, rollback, scans | scopes are atomic; the generation names one set of quads; `len` never scans |
| RocksDB backend (`rocks/mod.rs`) | nine index orders, catalogue, counts and metadata rows; counters in memory; `ScopeState` (buffer and overlay) | the trait's, `open`, statistics saved beside the data | orders agree, counts are the counts of the rows at any instant a crash could come, a scan inside a scope sees each visible quad once |
| RocksDB dictionary and bulk load (`rocks/mod.rs`, `sort.rs`, `dictsort.rs`, `seen.rs`) | term ids and their two tables; sorted runs, windows, a spill worker, a dictionary writer | encode, resolve, decode, begin and end of a bulk load | one id per term and one term per id, across windows and restarts; what is loaded is what is counted |
| In-memory backend (`memory.rs`, `index.rs`) | `BTreeSet` orders, catalogue, counts, journal of inverses | the trait's | the journal always leads back |
| Spatial index (`holos-engine/src/spatial.rs`) | tree, watermark, watchlist, number of quads at the last check | refresh, purge, candidates | a query told that the index is current misses no row |
| Server (`holos-server/src/main.rs`) | `RwLock<Engine>`, slots for statistics and the spatial index, eight workers | update, query, graph store, backup, purge | derived structures never pass for current when they are not |
| Holons (`holos-holon/`) with the SHACL bridge (`holos-shacl/src/engine.rs`) | scenes, events, version rows, registry; the rules' copy of a scene with its checkpoint | register, tick, branch, prepare | the log tells the scene; boundaries hold; the bridge is in step |
| Requests that write (`holos-engine/src/update.rs`, `holos-server/src/gsp.rs`) | none that outlives the request | the SPARQL Update operations, `SILENT`; PUT, POST and DELETE of a graph | a request is all or nothing; one that succeeds has done what its operations mean; the policy holds for every write; `SILENT` hides only its own operation's failure |
| Query pipeline, deadline, memory ceiling (`lib.rs`, `options.rs`, `memory.rs`, `alloc.rs`) | the path a query is on, a watchdog thread, atomics shared by all queries | `Engine::run` with its paths and fallbacks, sample, trip, finish | a query that is stopped says why, one that succeeds is complete, one with a time limit ends |
| Loading (`lib.rs`, `load_parsed`) | a parse thread, a bounded channel, a graph that lives for one call | load, load into a graph, transient graph | what is reported is what was done, in file order; a transient graph leaves nothing |
| Operators that hold rows (`topk.rs`, `spill.rs`) | heap, buffer, runs on disk | push, spill, merge, give up | they deliver what a sort or a deduplication in memory would, and clean up |
| Bind join and rewrites (`bindjoin.rs`, `equality.rs`, `topology.rs`, `boundjoin.rs`, `distinct.rs`, `group.rs`) | a stack of half-bound rows, rows seen, rows skipped | plan, probe, settle, fall back; five rewrites of the algebra | the answer is the query's answer |
| SHACL (`holos-shacl/`, `holos-shacl-engine/`) | compiled shapes; `EngineRun`'s copy of the graph with its checkpoint | compile, validate, revalidate a change, infer, checkpoint, accept, revert | both evaluators agree; incremental and bounded reports decide as the full one does |
| Statistics (`holos-stats/`) | characteristic sets, sketches | build, load, save | a snapshot is used only while it describes the store |
| Access policy (`holos-security/`) | roles, rules, a session's view | check, filter | a session sees and writes what its policy allows |
| Geometry, functions, entailment, HTTP parsing, CLI, bindings, conformance, benchmarks | none that outlives a call | pure functions, I/O | outside this project, see section 7 |

How they interact: everything above storage writes through the trait's scope (`begin`,
`commit`, `rollback`); an operation that finds a scope open joins it. The server takes the
engine's lock for writing while an update runs and refreshes derived structures (statistics,
spatial index) after it has let go, under the lock for reading. A tick opens a scope (or
joins its caller's), tells the rules of its delta before it knows whether the delta will be
kept, and settles them afterwards. A query is rewritten, then tried by the index join and handed to the
evaluator (an external crate) when that gives up; its rows may pass through operators that hold them,
and a watchdog looks on. A boundary is checked by the SHACL evaluators, one of which reads the store
and the other a copy that is told of every change.

The hard behaviours are: partial failure (a refused batch, a scope that overflows, a tick
that fails after the rules have heard of it), crashes between the batches of one operation,
derived state that must not outlive what it was derived from, and readers that work side by
side on an index with short locks, a watchdog that trips at any moment of a query, joins whose order
is chosen while they run, and validation that looks only at what a change can have touched. They are listed one by one, with the line where each
bites, under `hazards` in `PROJECT.json`.

## 2. Modules

| Module | Models | Checked by |
|---|---|---|
| `AbstractStore` | the promise of the Storage trait | refinement target of both backends |
| `RocksStore` | RocksDB backend outside a bulk load | `MCServed` |
| `RocksStoreProofs` | theorems about `RocksStore` | TLAPS |
| `MemoryStore` | in-memory backend | `MCEmbedded` |
| `SpatialIndex` | spatial index and the server's workers | `MCEmbedded` |
| `StoreIndexProofs` | theorems about `MemoryStore` and `SpatialIndex` | TLAPS |
| `BulkLoad` | the threads of a bulk load between a quad and the index | `MCDataPath` |
| `Dictionary` | the RocksDB backend's dictionary in all three write modes | `MCDataPath`, `MCDictionary` |
| `IngestProofs` | theorems about `BulkLoad` and `Dictionary` | TLAPS |
| `Holon` | ticks, branches, the rules' bridge | `MCHolonic` |
| `HolonProofs` | theorems about `Holon` | TLAPS |
| `Update` | SPARQL updates and the Graph Store Protocol, over `AbstractStore` | `MCServed` |
| `UpdateProofs` | theorems about `Update` | TLAPS |
| `Server` | workers, lock, statuses, derived slots, backups | `MCHolonic` |
| `ServerProofs` | theorems about `Server` | TLAPS |
| `Loader` | parse thread and channel, transient graphs | `MCEmbedded` |
| `QueryLife` | a query's path through the engine, its watchdog, memory | `MCEmbedded` |
| `EngineProofs` | theorems about `Loader`, `QueryLife` and `EngineRun` | TLAPS |
| `Spill` | spilling sort, heap, spilling DISTINCT | `MCDataPath` |
| `SpillProofs` | theorems about `Spill` | TLAPS |
| `Algebra` | what a query means; the rewrites before evaluation | `MCDataPath` |
| `BindJoin` | the index join, planned and run | `MCBindJoin`, `MCDataPath` |
| `RdfTerms`, `ShaclTerms` | terms, graphs, shapes graphs and results of both evaluators | the modules below |
| `Shacl` | native evaluator: compiler, constraints, dependencies, revalidation | `MCHolonic` |
| `ShaclEngine`, `ShaclValidate` | SHACL engine: compiler and paths; constraints, node expressions, bounded reports | `MCHolonic` |
| `ShaclSparql`, `ShaclRules` | queries inside shapes; rules and RDFS inference | `MCHolonic` |
| `EngineRun` | the graph that the SHACL engine keeps of a store under change | `MCHolonic` |
| `ShaclRun` | both evaluators watching that store: reports, bounds, inference, revalidation | `MCHolonic` |

Each module has an MC module that gives its constants values (`MCRocksStore`, `MCUpdate`, `MCStoreIndex`, `MCEngine`, `MCIngest`,
`MCOperators`, `MCHolon`, `MCShaclRun`, `MCServer`); the violation runs use these directly. The passing runs use four hosts that
extend several of them: `MCServed`, `MCEmbedded`, `MCDataPath` and `MCHolonic`. A variable (`part`, `subject`, `call`, `operator`) is chosen in the
initial state and says which component takes steps in the behaviour; the others rest in a state the program can be in. A host's state
space is the union of its components', not their product, and every property is about one of them. What
components owe each other is stated where they meet: `Update` and `Holon` use a store by the promise (`AbstractStore`) that both
backends are shown to keep, `Holon` takes whatever a revalidation may report, and `Server` a write as one new generation.
Where a host extends two modules with one name for two things, the module that was written later has the longer
name (`UpdateInit`, `HomeOf` for `GraphOf`, `served` and `holons` for the store).

### AbstractStore
Two datasets, `committed` (what a restart finds) and `current` (what a read sees), and
whether a scope is open. A rollback, a failed commit and a crash are all `Abandon`.

### RocksStore
The database is one function `db` from keys to values; a key is a pair of a column family and
what it is the key of, and value 0 stands for no row. A batch is the map of the keys it
writes, so `Written(batch)` is RocksDB's atomic write. `pending`, `ops`, `quads`, `graphs` and
`saved` are the fields of `ScopeState`; `quad_count`, `predicate_counts`, `generation` are the
struct's counters. `contains_encoded`, `ScannedRows` and `ScannedOverlay` are the read paths.
Each method is one action; the paths on which it returns an error after having changed
something are actions of their own (`WriteOverflows`, `DirectWriteFails`, `DropFails`,
`CommitFails`). `remove_named_graph` is several steps (`StartDrop`, `DropQuad`, `FinishDrop`),
since outside a scope each is a batch and a crash may come between any two. A caller that has
been told of an error may only roll back, unless `ErrorsSwallowed`, which is what `SILENT`
does in `update.rs`. `CacheStatistics` is `Statistics::cached`. RocksDB may refuse any batch; auxiliary: `refused_batches`, the kinds it
has refused so far ("write" outside a scope, "commit"), since a refusal leaves figures behind that three properties except (section 4).

### MemoryStore
The index, catalogue and counts are one record `store`; the operations are functions of it,
because a rollback applies the same ones: `PlayedBack(store, undo)` is the store after the
journal has been undone. `ImplementsStorage` maps `committed` to `PlayedBack(store, undo)` at
every moment of a scope, so the journal must be right after every operation, not only at the end.

### Dictionary
`db` holds the rows of the two tables, as sets of pairs, and the stored counters; `next` is the
counters in memory. `mode` says whether an encode writes at once (`plain`), into a scope's buffer
(`scope`) or into a window (`bulk`); `rows`, `counters` and `terms` are what the scope or the load
holds back. In a load `seen` is the filter, `flight` the window that the writer thread has, and
`issued` the counters when it was handed over, which decide what a settle may forget (`Kept`). A
long term is stored under a hash with a list of candidate ids, so two terms may share a key.
`encode_into` is one function of all this (`Work`), used by the three encode actions, which differ
in where its result goes. The filter may say "perhaps" of a term it was never given (`crowded`).

Auxiliary: `given`, every id handed out with its term, and `lost`, the ids of abandoned scopes. A
load has no crash and no failure here because one that is interrupted leaves a store that its
documentation says to discard (`rocks/mod.rs:763`). Two switches leave out behaviours
in which the properties do not hold: `RepeatsOutside` and `CollisionsInFlight` (section 4).

### BulkLoad
The loading thread's `pc` runs through `insert_encoded`, `spill` and the stages of
`end_bulk_load`. The spill worker takes buffers from a channel that holds one. The merge threads
claim the orders from one list (`jobs`), cut their rows into files and send them to the loading
thread, which ingests until one fails and then only drains. `Fails` is a failure of any stage;
`told` is whether the caller has got an error. A run is the set of its rows.

### SpatialIndex
A worker's `pc` says where it is: holding the engine's lock for reading (`Reading`) or not. An
update needs that no one is reading. `refresh` reads the watermark, `CheckLevel` is the early
return of `catch_up`, `resurrect` copies what the watchlist should give back, and `catch_up`
enters it all under the index's lock; `StartPurge` and `purge` are the two ends of a purge, which
holds the index's lock at neither side of its work. The tree is the set of geometries in it.
Any number of refreshes, purges and queries overlap. Auxiliary: `overwritten`, what a purge took out of the tree that a
refresh had entered since the purge copied it; `unsure`, a quad has been deleted, or a purge has moved the count, since the watchlist was looked
at. `QueryFindsAll` is what the code claims; `QueryComplete` is exact about what is left of it: a
query misses nothing but what these two name.

### Holon
The store is used through its promise: `holons` is what the scope has written, `at_begin` what there
is if it does not commit. A tick goes through `apply`, `infer`, `validate`, `record` and `end`;
`TickFails` is `?` anywhere in between. `bridged`, `since_checkpoint` and `checkpointed` are `EngineRun`'s copy of the
scene and its checkpoint. `Closure` (the rules), `Violated` and `Reads` (the shapes) are
parameters: any function with the assumed properties. `validate` assumes nothing of a revalidation but that what it reports is
there: it may overlook any violation, as the run `revalidate` shows it does. What it overlooks although the tick's changes implicate it
is noted in the event (`missed`), and `BoundaryHolds` says that a rejecting boundary is crossed by that alone, and by what a branch brought along. A branch may be
taken at any version. A holon branched at version 0 keeps a row that says 0 (`Stuck`); `VersionsContinue` is the
claim without that exception. `lost` is
auxiliary: the store has lost a tick after the rules were told of it; `BridgeInStep` speaks of the
time before, `BridgeAlwaysInStep` of all time. The bridge is told of the ticks that carry its rules and of no other:
`begin_commit` lets the ruled holon have only such ticks, which the code leaves to its callers.

### Update
The store is an instance of `AbstractStore`, so `current` is what the request sees and `committed` what
it will leave if it fails. A request (`kind`) opens a scope, runs operations one after the other and ends
with a commit or a rollback; the engine's lock is held throughout, so there is one request at a time. An
operation is first computed and then carried out: `plan` is what is left of it, and `remove`, `insert`,
`remove_named_graph` and `insert_graph_name` each do one write of it, in the code's order. `Denied` is the
policy's refusal of the next quad, `StoreFails` an error of the store at it, `silence` what `SILENT` makes of
either. A session is what its policy says of each quad (`Readable`, `Writable`) and whether a scan that meets
a hidden quad fails (`Strict`). A write that the policy refuses is "denied" (`EngineError::AccessDenied`), a scan that it refuses
"withheld" (`ViewError::AccessDenied`, an `EngineError::View`): `silence` lets only the first through. Auxiliary: `at_request`, the store when
the request came; `meant`, what the operations that began mean one after the other, each in one step; `loose`, what an operation
touches that the store failed under `SILENT`; `gone`, the graphs the request set out to drop; `refusals`, the policy refused something.

### Server
A request is the endpoint and verb, the graph it names, whether it is usable and what its headers claim; a write is one
more generation of the store and perhaps a graph more or less, for a SPARQL update too (what it does to quads is `Update`'s business). `Take` is the
routing with its refusals, `StartRead` and `StartWrite` take the engine's lock, and after a write the worker builds, saves
and installs statistics and refreshes the spatial index, each a step of its own without the write lock. A backup stamps
its name, opens its partial file, writes it in two chunks and renames it. Auxiliary: `saw`, the generations a read has
looked at; `balance`, graphs reported created, or made by an update, less those reported deleted, or dropped by one; `raced` and `shared`, the two overlaps that the
properties except.

### Loader
`Parse` and `Send` are the parse thread, `Receive` and `Insert` the caller's; the channel holds `Queue` batches. `Begin` picks
the transient graph's name, `Join` ends the load with the first error of either thread, `Call` runs the caller's
function, which may fail or panic, and rolls the scope back. A document is up to five quads, one of which may not parse.

### QueryLife
`place` follows `Engine::run`: admission, the rewrites that read the store, the index join, the heap, the spilling
operators and the evaluator; `error` is what the last read brought. The guard is `watch`, `trip`, `token` and `done`; `Sample`
writes the reason before `Cancel` trips the token. `live_bytes` is the counting allocator: what the operator holds and
what `Neighbour` has. Rows are counted: `cursor` is how far the scan that runs now has come, `read` what its operator has of it. An index join may give
up at any row, on the token, its row budget or a term the dictionary never saw (`GivesUp`), and the evaluator starts again (`Fall`). Reading the
next row is the one step of the query's thread that is not fair.

### Spill
A row is its sort keys, a value and its place of arrival. `push` spills a full buffer into a run, `merge` opens the runs and
`next_row` draws from them; `offer` and `finish_heap` are the heap. `cmp_terms` is the order of terms as the code compares
them, so that rows it does not order totally are there too. Writing a run, the disk limit and the client (`GiveUp`) may
end the operator at any row.

### Algebra and BindJoin
`Eval` is the meaning of a pattern, a reference definition that stands for the external evaluator. The rewrites
(`distinct_materialised`, `topology_rewrite`, `bind_services`, `equality_rewrite`, `group_materialised`) are functions of the
algebra and the data. `BindJoin` plans a query into items and filters (`the`) or refuses it; a frame of `stack` is one
item being probed. `step` picks any item the estimates could pick, `rows_of` probes it, `settle` decides what a probe on
behalf of an OPTIONAL or a MINUS leaves. `abandoned` is the run that gives up; `finish_plan` sends it to the evaluator, or
fails it when a heap has already been fed (`sinking`).

### SHACL
Each evaluator has its own compiler, from a shapes graph to a record per shape, with its targets, constraints, path and
the indexes by predicate and class that revalidation uses. The native evaluator is `Shacl`, the engine `ShaclEngine` and
`ShaclValidate`; they are separate translations of separate code and share only `ShaclTerms`. Lexical forms, regular
expressions and messages are represented by what the comparisons ask of them. In `EngineRun` a store is written to
change by change; the run has a checkpoint, `accept` and `revert`, and refuses when it is stale. `ShaclRun` extends it: the two
evaluators, the bounds, inference and revalidation are compared at each step that changes the data, on the data the step
changes, while a checkpoint is open as well as between them.

## 3. Runs

`pass` means that TLC finishes without an error; `violation` that it finds the named property violated.

| Run | Expected | Shows |
|---|---|---|
| `served` | pass | *RocksStore*: with any batch refused and crashes anywhere, orders agree, scans and counts are exact, the generation moves with the quads, statistics that carry it are true, `AbstractStore` is implemented. *Update*: requests of two operations by three sessions, with refusals, failures at any write and crashes: all or nothing, success means done, within the policy but for dropped graphs |
| `embedded` | pass | *MemoryStore*: the journal leads back at every moment and `AbstractStore` is implemented. *SpatialIndex*: two workers update, refresh, purge and query in any overlap; a query told that the index is current misses nothing but what two named races hide, and the index catches up. *Loader*: a load reports what it did and returns. *QueryLife*: a stopped query says why, a successful one is complete whatever was given up before, a query with a time limit ends with its watchdog |
| `data_path` | pass | *BulkLoad*: what a load reports as loaded is loaded and counted, and every call returns. *Dictionary*: an id keeps its meaning and every stored id is found again, in all three write modes. *BindJoin*, *Algebra*: the index join and the rewrites give the reference answer in every order of probes. *Spill*: sort, heap and DISTINCT deliver what they would in memory, and leave no scratch but a run that failed |
| `holonic` | pass | *Holon*: the log tells the scene, versions are unique, a boundary is crossed only by what revalidation overlooks, the bridge is in step, with refusals, failures, crashes, branches and joined scopes. *ShaclRun*: both evaluators report alike, bounded and incremental reports decide as the full one, the engine's graph is in step, inference reaches its fixpoint. *Server*: what leaves it is one state of the store, one client is told it created a graph, derived structures are current at rest |
| `dictionary_nested` | violation of `RoundTrip` | a new term twice in one triple term gets two ids outside a scope |
| `spatial_purge` | violation of `QueryFindsAll` | a purge beside a refresh takes a geometry out of the tree that the index then vouches for |
| `bind_join_minus` | violation of `AnswerExact` | a MINUS takes back the row but not what DISTINCT, OFFSET or a sort has made of it |
| `scratch` | violation of `ScratchRemoved` | a run whose writing fails stays in the scratch directory |
| `holon_branch` | violation of `VersionsContinue` | the ticks of a holon branched at version 0 all take version 1 |
| `revalidate` | violation of `RevalidateMissesNothing` | a node that points to the changed one is not looked at if the changed one is itself a focus node |
| `update_drop` | violation of `DropsWithinPolicy` | dropping a named graph takes along what the session may not see or write |
| `update_silent` | violation of `RefusalsReported` | a refused scan under `SILENT` is reported as success |

A violation run shows a disagreement between the code and what its comments, tests or operating manual say; its finding in
`PROJECT.json` has the quotation. The passing run of the same component then states how far the claim does hold.

Every property of a passing run has a mutant: a definition of the model changed the way a plausible
bug would change the code (`M_...` before the definition), under which TLC finds the property violated.

### Bounds
* Stores: three quads are enough for two of one predicate, two graphs, and a graph dropped with a quad in
  it while another stays; every index order is asked about each. `MaxScopeOps` lets a scope overflow
  after a few operations. `MaxGeneration` only stops the counter; it is 3 for RocksDB and 5 in memory, so that a generation can be
  used, lost in a crash and used again. The in-memory journal has up to 6 entries.
* Dictionary: a short term, two long ones with one hash, and a triple term that names the short one twice,
  so that each kind of key, a collision and a repetition occur; `MaxId` 4 ids per tag leaves room for ids
  that are burnt by abandoned scopes and refused batches.
* Bulk load: buffers of 2 and 5 inserts give two spills and a tail; files of one row give an order several
  files; two merge threads for three orders make one of them claim twice; one failure anywhere.
* Spatial index: two workers suffice for every pair of steps to overlap; two geometries and a quad about neither.
* Holons: `MaxVersion` 2 and `MaxEvents` 3 in both logs together, deltas of one triple; three triples (one of them inferred)
  let the rules infer something a later delta removes and let the two shapes be violated separately. Two
  holons, one of which may be a branch of the other.
* Updates: two operations of two quads each, so that one can undo or build on what another did, on a store that earlier requests left;
  two quads of the default graph, one of which only the owner may read, and two of a named graph, one of which only the
  owner may write; an owner, a guest whose scans are filtered and an auditor whose scans fail.
* Server: two workers, three requests in a behaviour out of seven, so that a third request sees what two that overlapped
  left; one graph, which both create and delete; a clock of two seconds, so that two backups share a second or do not.
* Loader: batches of 2 and a channel of one make a document of 5 quads fill the channel, keep the parser waiting and
  leave a tail. QueryLife: two rows and a limit of one, so that holding both is over it; a ceiling of two above what is
  loaded, which a neighbour and the query exceed together. Every shape and all options.
* Operators: four rows with a buffer of two give two full runs; three keys that compare and one unbound; limits of
  zero, and of a disk that the second run fills. Fifty-five queries on three datasets of four to nine quads have each item of the
  planner, and each rewrite, apply and be refused.
* SHACL: thirty-two shapes graphs cover every constraint component; the data is every subset of four to eight triples
  chosen for it, and a change any triple of them; one case has two changes in a checkpoint and two graphs.

### Fairness
* `SpatialIndex` and `BulkLoad` have weak fairness of each worker's steps inside a request, of the loading thread inside a call, of
  the spill worker and of each merge thread: a thread that has begun goes on, because it waits for nothing but short locks and
  the channels that the model has. Nothing forces an update, a query, a purge, an insert or the end of a load to come.
* `Loader`: weak fairness of the calling thread and of the parse thread.
* `QueryLife`: weak fairness of the query's thread except where it finds another row (a scan may look at quads
  that match nothing for as long as it likes), of the watchdog and of the clock. That a query with a limit ends
  therefore rests on the token, which every path must look at.

## 4. Deviations

### With a run
Eight, each under `findings` in `PROJECT.json` with the line it contradicts: `dictionary_nested`, `spatial_purge`, `bind_join_minus`, `scratch`,
`holon_branch`, `revalidate`, `update_drop` and `update_silent`.

### Behaviours left out by a switch, an exception or a choice of inputs
The passing runs leave out behaviours with which a property does not hold. A switch or a parameter that is
named here admits the behaviour, and TLC then finds the violation; an exception is a disjunct of the property, and
its comment says so; the rest are inputs that the instances do not include, listed with the lines that treat them.


* `RocksStore`: a refused commit puts the counters back and leaves the generation
  advanced (`rocks/mod.rs:2216`), so that a later scope gives the number to other quads; `SnapshotTruthful` speaks of the time before the first refusal.
  A write outside a scope that RocksDB refuses leaves the counters in memory changed; `StoredCountsExact` and `CountersExact` speak of the
  time before that, and hold through refused commits. `ErrorsSwallowed`: a scope whose caller goes on after an
  overflow commits counts that do not match, so `CountersExact` fails.
* `SpatialIndex`: besides the race of `spatial_purge`, `QueryComplete` excepts a geometry on the watchlist once the number of quads no longer tells
  whether the list has been looked at (`unsure`): an update that deletes one quad and inserts another leaves the number as it was
  (`spatial.rs:248`), and a purge sets the number without looking at the list.
* `Holon`: `BridgeAlwaysInStep` fails when the commit of a tick fails, because `tick` returns
  (`lib.rs:245`) before it settles the rules, and when a tick is joined to a caller's scope that is then rolled back; `BridgeInStep` excepts both (`lost`).
  It also holds only while every tick of the ruled holon carries its rules: `begin_commit` has that as a guard, the code does not.
* `Update`: a `SILENT` operation that the store fails in the middle keeps what it had written, and the
  update goes on and commits it; `update.rs:21` says "If any operation fails the scope is abandoned". `SuccessMeansDone` allows for what that operation
  touches (`loose`) and nothing else.
  `exists` answers from the catalogue also for a graph none of whose quads the session may read, where
  `gsp.rs:132` promises a 404. `graphs_created` does not count a graph that an insertion brings along.
* `Dictionary`, `CollisionsInFlight`: a new term whose hash is also in the window being written gets a list
  from the database without that window's ids, and the later file replaces the earlier list. `dictsort.rs:32`
  argues that merging by key cannot miss one; that is so within a window only. It takes a collision of
  128-bit hashes.
* `Loader`: a transient graph is given a name that the store does not have; a document that itself names that graph would have its
  quads in it. `NameAssumption` leaves such documents out.
* `Server`: `dump.rs:105` says "The file appears complete or not at all"; two in-memory backups in one second share their partial file, and the first to rename announces a file that the
  second may still be writing (`OneState` excepts it). Two builds of statistics that overlap may leave the older in the
  slot until the next write, which costs plans and no answers (`DerivedCurrentAtRest` excepts it).
* `QueryLife`: the merge of a spilled sort reads the token itself and reports a bare cancellation, also when memory
  tripped it; the error of an explained ASK passes no guard (`StoppedSaysWhy` excepts both). The heap's index join answers a term that the dictionary never saw with a cancellation when no
  limit was reached (`bindjoin.rs:1809`, `:1843`, `:1939`, `:2007`), where `lib.rs:947` says "Abandoned on its token, which only the guard cancels" (a third exception). The rewrites that read
  the store run before the guard exists, and a spilled DISTINCT is evaluated without a deadline of its own.
* `Spill`: `ScratchGone` excepts the run of `scratch`. `cmp_terms` is documented as a total order and is not transitive across numbers and other
  literals; `OperatorsExact` asks for the sorted order only where the rows at hand are totally ordered.
* `BindJoin`: a join fed into a heap that meets an unknown term fails the query as cancelled, where without ORDER BY and
  LIMIT it would fall back (`bindjoin.rs:1966`). A walk under `GRAPH ?g` follows edges of different graphs (`:1834`); filters of
  an OPTIONAL inside an OPTIONAL or a MINUS are counted from the wrong place (`:609`, `:828`); a MINUS whose right side shares only a variable
  that may be unbound is accepted (`:605`); `GRAPH ?g {}` is dropped.
* `Algebra`: keys are pushed into a SERVICE right of a MINUS or of an OPTIONAL, or into a subquery that hides the variable,
  where they change the answer; the tables of `distinct.rs:53` and `group.rs:90` ignore `FROM`; a geometry reached both
  directly and through `hasGeometry` is counted twice.
* SHACL revalidation (`revalidate` shows one case; `RevalidateCovers` asks only for changes that can be attributed, of both evaluators): the engine's dependencies leave out
  `targetSubjectsOf` and `targetObjectsOf` (`shapes.rs:403`) and check `uniqueValuesFor` over the touched nodes only; changes of
  the class hierarchy, of an arbitrary predicate under `sh:closed`, and targets declared in the data implicate nothing;
  a nested shape is skipped when the changed value is itself a focus node of the outer one (`lib.rs:309`, `engine.rs:485`); the
  native index leaves out list cells and reifiers. When all graphs are bridged as one, removing a triple from one graph
  removes it from the copy though another graph has it (`engine.rs:259`).
* SHACL reports: the engine's `conforms` counts only violations, warnings and infos (`engine.rs:354`). The evaluators differ on ill-typed
  literals in ranges, recursion, `uniqueValuesFor`, closed by types, annotations of property shapes, implicit class
  targets, malformed paths, the language range `*` and literals of unknown datatypes; `ReportsAgree` is about the shapes
  graphs that have none of these.
* `MemoryStorage::remove_named_graph` drops a graph with its quads and leaves the generation where it was, while
  `storage.rs:103` calls it "a counter that moves every time the set of quads changes". Its one user, the statistics,
  describes the default graph, so that the snapshot is still true.
* The channel of the spill worker holds a buffer while another is sorted and a third is filled; the comments at
  `rocks/mod.rs:459` and `:490` count one less.

## 5. Proofs

Eight modules hold theorems. Each is about the specification that the runs check, for every value of the constants
that satisfies the named assumptions of its module; TLC evaluates these assumptions on every run of the module. A theorem with a
restriction says so in an ASSUME of its own; section 4 has the behaviour that makes it necessary. The exceptions that a property itself names, and
section 4 lists, are part of what is proved.

| Theorem | Property | Restriction |
|---|---|---|
| `RocksStoreProofs!TypeCorrect` | `TypeOK` | none |
| `RocksStoreProofs!IndexesAlwaysAgree`, `ScansAlwaysExact` | `IndexesAgree`, `ScanExact` | errors in a scope are not swallowed |
| `RocksStoreProofs!StoredCountsAlwaysExact`, `CountersAlwaysExact` | `StoredCountsExact`, `CountersExact` | the same |
| `RocksStoreProofs!GenerationAlwaysMoves` | `GenerationMoves` | none |
| `RocksStoreProofs!SnapshotAlwaysTruthful` | `SnapshotTruthful` | none |
| `RocksStoreProofs!RocksIsAStorage` | `ImplementsStorage`, the refinement of `AbstractStore` | errors in a scope are not swallowed |
| `StoreIndexProofs!MemoryAlwaysConsistent` | `StoreConsistent` | none |
| `StoreIndexProofs!MemoryIsAStorage` | `ImplementsStorage`, the refinement of `AbstractStore` | none |
| `StoreIndexProofs!QueriesAlwaysComplete` | `QueryComplete` | none |
| `IngestProofs!SuccessAlwaysMeansLoaded` | `SuccessMeansLoaded` | none |
| `IngestProofs!DictionarySound`, `MeaningKept` | the invariant `Sound`; `IdsKeepMeaning` | none |
| `IngestProofs!DictionaryComplete`, `LookupExact` | the invariant `Complete`; `RoundTrip` | no triple term repeats a new part outside a scope, no load meets a hash of the window in flight |
| `UpdateProofs!RequestsAllOrNothing` | `AllOrNothing` | none |
| `UpdateProofs!SuccessIsWhatIsMeant` | `SuccessMeansDone` | none |
| `UpdateProofs!AlwaysWithinPolicy` | `WithinPolicy` | none |
| `ServerProofs!AnswersAreOneState`, `AlwaysCreatedOnce`, `RestsUpToDate` | `OneState`, `CreatedOnce`, `DerivedCurrentAtRest` | none |
| `EngineProofs!StoppedAlwaysSaysWhy`, `SuccessAlwaysComplete` | `StoppedSaysWhy`, `SuccessComplete` | none |
| `EngineProofs!LoadsAlwaysExact` | `LoadExact` | none |
| `EngineProofs!RunAlwaysInStep` | `RunInStep` | no triple is in two of the graphs selected as data |
| `SpillProofs!ScratchAlwaysGone`, `OperatorsAlwaysExact` | `ScratchGone`, `OperatorsExact` | none |
| `HolonProofs!BoundaryAlwaysHolds` | `BoundaryHolds` | none |
| `HolonProofs!AlwaysOneEventPerVersion`, `LogAlwaysTellsScene`, `BridgeStaysInStep` | `OneEventPerVersion`, `LogTellsScene`, `BridgeInStep` | none |

### The arguments

*RocksStore.* None of the invariants is inductive by itself, since what a commit does to the database depends
on the buffer. `StructureInv` says that the database is well indexed, that what it would become if
the scope committed now is well indexed too, and that the overlay shows exactly that. Each
action is then handled by what its batch does to a well indexed map (`InsertIndexed`,
`RemoveIndexed`, `GraphIndexed`), once, whether the batch goes to the buffer or to the database.
`CountInv` says the same of the counts. `GenerationInv` says a buffer that touches a quad
carries a generation later than the stored one; `SnapshotInv` adds that the generation in memory is the one the database
will hold once the buffer is written, that a rollback puts back the stored one, and that a kept snapshot is never newer
than the database and describes it when it carries its generation.
The refinement maps `committed` to what the database holds and `current` to what a read sees, both of which the structure
pins down: a step is the abstract step of the same name, `Abandon`, or none. The assumptions: finitely many quads,
fewer than 2^64, each with one graph and one predicate.

*MemoryStore.* `MemoryInv` says that the store and what the journal played backwards would leave (`PlayedBack`) are both
sound. That an entry of the journal takes back what was done is `InsertionUndone` and its like. `PlayedBack` is
a recursive function; `PlayedBackLast`, that a journal longer by an entry is played back by undoing the
entry first, and `RemovalsPlayedBack`, for the many entries of a dropped graph, are what the proofs use of it, and both are
shown with the well-ordering of the natural numbers. The refinement follows: a write changes `store` and the journal
together and leaves `PlayedBack` alone.

*SpatialIndex.* `MarkInv` says that what the watermark vouches for is in the tree, on the watchlist or overwritten by a purge, and `WatchInv` that, unless that is
unsure, the number of quads tells whether the watchlist was looked at. A refresh reads, lets go of the lock
and enters what it read: what it enters is still true, because the watermark only covers what was read before it.

*BulkLoad.* `SpillInv`: unless an error is due, what was inserted is in the runs or waits in the buffer, with the sorter or
in the channel. `ThreadInv`: merge threads hold nothing but what was inserted, and as long as nothing has failed none ends while
there is a job. `OrderInv`: as long as nothing has failed, each row of an order is in the database, in a file on its way, still with a
thread, or its order is still to be claimed (`Coming`). Assumed: the orders
are two disjoint sequences and there is a merge thread.

*Dictionary.* The invariant comes in two parts, since they need different things of the world. `Sound` says that what the rows tell is true,
and needs nothing: an id has one row and is below the counters, also those that a scope or a load will leave; a triple term's
parts are there; a list names only ids of its key; and what was given out still means that term, unless its
scope was abandoned. `IdsKeepMeaning` follows. `Complete` says that the rows leave nothing out: a term has one id, the list of a key
in a window names what is below it too, the cache of a scope or load has every row held back and the filter
every term. It breaks in the two cases of section 4 (`RepeatsOutside`, `CollisionsInFlight`; the run `dictionary_nested` shows the first), so the
theorems that need it, and `RoundTrip` with them, assume these switches off. Assumed of the constants: leaves and
triple terms are different terms, and a triple term is known by its parts.

*Update.* `RequestsAllOrNothing` rests on `ScopeInv`: the scope is open exactly while a request is served, so that no write reaches
`committed`. `SuccessIsWhatIsMeant` needs `MeaningInv`: what the store holds, with what is left of the plan applied to it, is
always what is meant, but for what is loose. A write moves one quad or graph from the plan to the store and leaves that equation alone
(`WriteMeans`, with `OneOfSeveral` for the graphs that quads bring along); an operation that begins changes both
sides in the same way (`BeginsMeans`); with no plan left the two are equal. It holds because no plan both drops a graph and
writes, which is part of the invariant. `AlwaysWithinPolicy` needs `PolicyInv`: each quad is asked for where it is written, and a graph that
a plan drops is one the request set out to drop. Policies are arbitrary, and faults hidden by `SILENT` are included.

*Server.* `LockInv` ties the lock to where the workers are: readers are those that read or dump, and a writer excludes them. From it follow
`SeenInv` and `WholeInv` (a reader has seen one generation; a file that is written alone holds one generation in as many chunks as were
written), `CreateInv` (the balance of what answers and updates did is the graph's existence, also between asking and writing) and `DerivedInv` (if the statistics
or the index are behind, a worker is on the way to refresh them). The number of workers and of requests is arbitrary.

*QueryLife.* `GuardInv`: the reason is on record before the token is cancelled, and there is one reason at most. The rest follows the
paths: a path that is given up starts the next one from the beginning, so what the operator has is always what the scan that runs now has brought (`read` = `cursor`).

*Loader.* `PipeInv` follows each quad through the pipe: there is a place in the document where each batch in the channel begins, the
batch the caller works on begins where the inserts end, and the one being filled ends where the parser is. `StoreInv` says the store is
what it was with the inserts, `FreshInv` that no quad had the transient graph's name before. Assumed: the candidates
for that name do not run out, and the document uses none of them.

*EngineRun.* `Undoable`: since the checkpoint, a triple that no change names is in the graph as it was in the store then, and of one that
some change names the first change tells where it was. Undone last first, that change is the last, and `apply` lets the last one
decide (`UndoneIs`); a write adds changes at the end and keeps what the first one tells (`WriteUndoable`). The invariant does not
speak of the store as it is, so a refused write, which leaves graph and store apart, can still be reverted. That a graph and the store it is
bridged from change alike (`WriteInStep`) needs `OneGraph`, true of every filter that names one graph; section 4 has
the other case. The holons, the command line and the bindings use filters of one graph.

*Spill.* `ScratchInv` says that while the operator runs the files are the runs on record and nothing else. For
`OperatorsExact`, `Before` is shown to be a strict total order on rows whose keys are totally ordered (`cmp_terms` and `cmp_keys` are antisymmetric;
ties go by arrival), and `Place` is the number of rows before a row. Places tell rows apart and run from 0 to the number of rows, so that the sorted sequence
exists and is the one in which each row stands at its place: by counting, with no induction over the rows. `SortInv` has each row
delivered at its place: the runs are cut in the order of arrival, so the earlier of two sources with equal keys has the
earlier row, and the row at the head of all sources is the one with the fewest before it. `HeapInv` has the heap hold the first `Holds` rows of those
that arrived. `DistinctInv` has each value that was taken delivered once; over runs the values climb, so an
equal one can only be the last. Where keys are not
totally ordered the same invariant gives that rows come from the input, none twice, and in the right number. Assumed
of the constants: budgets, limits and slices are numbers, and a key has a term for each direction.

*Holon.* `FrameInv` says that what a tick remembers takes the scene back to what it was; it rests on lemmas about a sequence of changes
(`Took`: a row's first change says what it was, its last one what it is). `BoundaryInv` has a tick's scene violate nothing new where it did not change, because a shape judges only what it reads, and where
it did, nothing that is not noted as overlooked. `LogInv` says that between ticks, and in
what a failure goes back to, replaying a log gives its scene, and that a tick holds the next version; that a log with an event more replays to
the scene with its changes is proved with the well-ordering of the natural numbers. `BridgeInv` has three copies in step at
once: what a revert would give with the scene a failure would give, what the bridge is with what the tick will leave, and each
through a scope joined to a caller's (`GrowInv`).

### Only model-checked
* Liveness: `CallsReturn`, `IndexCatchesUp`, `LoadReturns`, `TimedQueryEnds`. The prover has no rules for fairness.
* `AnswerExact` and `RewritesPreserve` of `BindJoin` and `Algebra`, `ReportsAgree`, `RevalidateCovers`, `BoundedVerdict` and `InferenceExact`
  of `ShaclRun`: they follow recursive structures of any depth (patterns, paths, nested shapes) with recursive operators, which the
  prover does not admit in a module it reasons about, and would be inductions over that structure.

## 6. Plan

Done, with proofs: the storage layer with its dictionary, requests that write, the spatial index, holons, the server's
workers, the life of a query, loading, the operators that hold rows, and the graph the SHACL engine keeps. Done, model-checked: the index join and the rewrites, and both SHACL evaluators.

Left, in order:

1. Comparison and merging of branches in `Holon`.
2. The policy of a session, and entailment regimes as a rewrite of `Algebra`.
3. A run for the two backups in one second and for the heap's cancellation of section 4, once there is room for them.

## 7. Not modelled

* Query functions, coordinate systems and geometry: floating point and strings.
* Entailment regimes and the computation of a session's policy: pure functions, not written yet. `Update` takes the policy as
  a parameter, so that its properties hold for any.
* The estimates of statistics and admission: arithmetic that changes no answer. What follows from an estimate is
  modelled: `BindJoin` explores every order that one could suggest, `QueryLife` both verdicts of admission.
* The evaluator of SPARQL queries and the parsers: external crates.
* HTTP parsing and pages, the command line and the language bindings (wrappers), conformance runners and benchmarks (not part of
  the running system).
* Inside the modelled parts: the packing of the R-tree, byte layouts of keys and rows, lexical forms, and compaction, which change
  nothing a property tells apart.
