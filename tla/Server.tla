------------------------------- MODULE Server -------------------------------
(***************************************************************************)
(* holos-server: worker threads that take requests from one port and share *)
(* the engine behind a readers-writer lock, the statistics and the spatial *)
(* index in slots of their own, and the directory backups go to.           *)
(*                                                                         *)
(* A request is what the handlers tell apart; what an update or a document *)
(* does to quads is the business of module Update, and here a write is one *)
(* more generation of the store and perhaps a graph more or less.          *)
(***************************************************************************)
EXTENDS Integers, FiniteSets

CONSTANTS
    Workers,      \* --threads
    Graphs,       \* graphs the Graph Store Protocol addresses
    Requests,     \* the requests clients may send
    Configs,      \* how the server may be started
    MaxRequests,  \* BOUND: requests of a behaviour
    MaxSecond     \* BOUND: the clock, in seconds

NoTarget == "none"

ASSUME ServerAssumption ==
    /\ MaxRequests \in Nat /\ MaxSecond \in Nat
    /\ NoTarget \notin Workers /\ "mint" \notin Graphs

NoGen == -1             \* no generation: nothing derived yet
Chunks == {1, 2}        \* a backup is written in more than one write

(* A request: the endpoint and verb, the graph a Graph Store request names *)
(* ("mint": none, the server is to name one; None: not one graph), whether *)
(* its parameters and body are usable, and the roles its headers claim.    *)
Request == [op : {"query", "explain", "update", "GET", "PUT", "POST", "DELETE",
                  "backup", "purge", "stats", "other"},
            graph : Graphs \cup {"mint", NoTarget}, usable : BOOLEAN, admin : BOOLEAN]

(* A file of the backup directory, by the name and the worker it was made for. *)
Files == (0..MaxSecond) \X Workers
NoFile == <<>>

NoRequest == [op |-> "other", graph |-> NoTarget, usable |-> FALSE, admin |-> FALSE]

VARIABLES
    config,                 \* [read_only, base, backup, purge, trusted, admin, reorder, memory]
    served,                 \* [gen, graphs]
    readers, writer,        \* the engine's RwLock
    phase, req, status,     \* each worker's request and its answer
    saw,                    \* generations a read request has looked at
    existed,                \* gsp::exists, asked on entering
    built,                  \* statistics a worker carries: a generation, or NoGen
    slot, kept_statistics,  \* statistics: in memory, and kept with the store
    spatial,                \* the generation the spatial index was brought up to
    raced,                  \* history: refreshes overlapped, or one failed
    second,                 \* the clock
    path, fd,               \* a backup's name and the file it writes
    partial, files, inode,  \* the backup directory
    shared,                 \* history: two backups wrote one file
    balance,                \* history: graphs answers say were created, or updates created, less
                            \* those answers say were deleted, or updates dropped
    left                    \* requests still to come

lockv == <<readers, writer>>
derived_state == <<built, slot, kept_statistics, spatial, raced>>
backupv == <<second, path, fd, partial, files, inode, shared>>
server_vars == <<config, served, lockv, phase, req, status, saw, existed, derived_state, backupv, balance, left>>

-----------------------------------------------------------------------------
(* Routing and the refusals that need no lock                              *)

WriteMethods == {"PUT", "POST", "DELETE"}

(* Roles come from headers only where forwarded identity is trusted; roles *)
(* of the configuration are everybody's.                                   *)
principal_for(r) == (config.trusted /\ r.admin) \/ config.admin

(* A handler's name, or the status that answers at once.                   *)
dispatch(r) ==
    CASE r.op = "update" /\ config.read_only -> 403
      [] r.op \in {"query", "explain", "update"} /\ ~r.usable -> 400
      [] r.op \in WriteMethods /\ config.read_only -> 403
      [] r.graph = "mint" /\ ~config.base -> 400
      [] r.op \in WriteMethods \cup {"GET"} /\ r.graph = NoTarget -> 400
      [] r.op = "backup" /\ ~config.backup -> 404
      [] r.op = "purge" /\ ~config.purge -> 404
      [] r.op \in {"backup", "purge"} /\ ~principal_for(r) -> 403
      [] r.op = "other" -> 404
      [] OTHER -> 0

Answered(w, s) == phase' = [phase EXCEPT ![w] = "answered"] /\ status' = [status EXCEPT ![w] = s]
Goto(w, l) == phase' = [phase EXCEPT ![w] = l] /\ UNCHANGED status

(* A worker takes the next request off the port.                           *)
Take(w) ==
    /\ phase[w] = "idle" /\ left > 0
    /\ \E r \in Requests :
          /\ req' = [req EXCEPT ![w] = r]
          /\ IF dispatch(r) # 0 THEN Answered(w, dispatch(r))
             ELSE Goto(w, CASE r.op = "backup" -> "stamp"
                            [] r.op \in WriteMethods \cup {"update"} -> "wait_write"
                            [] OTHER -> "wait_read")
    /\ left' = left - 1
    /\ UNCHANGED <<config, served, lockv, saw, existed, derived_state, backupv, balance>>

Respond(w) ==
    /\ phase[w] = "answered"
    /\ phase' = [phase EXCEPT ![w] = "idle"] /\ status' = [status EXCEPT ![w] = 0]
    /\ req' = [req EXCEPT ![w] = NoRequest] /\ saw' = [saw EXCEPT ![w] = {}]
    /\ path' = [path EXCEPT ![w] = 0] /\ fd' = [fd EXCEPT ![w] = NoFile]
    /\ UNCHANGED <<config, served, lockv, existed, derived_state, second, partial, files, inode,
                   shared, balance, left>>

-----------------------------------------------------------------------------
(* The lock                                                                *)

ReadLock(w) == writer = NoTarget /\ readers' = readers \cup {w} /\ UNCHANGED writer
WriteLock(w) == writer = NoTarget /\ readers = {} /\ writer' = w /\ UNCHANGED readers
ReadUnlock(w) == readers' = readers \ {w} /\ UNCHANGED writer
WriteUnlock == writer' = NoTarget /\ UNCHANGED readers

(* answer, stats, and the reading half of graph_store: the read lock is    *)
(* held from the first look at the store until the answer is rendered.     *)
StartRead(w) ==
    /\ phase[w] = "wait_read" /\ ReadLock(w)
    /\ saw' = [saw EXCEPT ![w] = {served.gen}]
    /\ Goto(w, "reading")
    /\ UNCHANGED <<config, served, req, existed, derived_state, backupv, balance, left>>

(* A timeout, a ceiling or a failing scan arrives while rendering; purging *)
(* needs an index to purge.                                                *)
FinishRead(w) ==
    /\ phase[w] = "reading" /\ ReadUnlock(w)
    /\ saw' = [saw EXCEPT ![w] = @ \cup {served.gen}]
    /\ \/ Answered(w, IF req[w].op = "GET" /\ req[w].graph \notin served.graphs THEN 404
                    ELSE IF req[w].op = "purge" /\ spatial = NoGen THEN 409 ELSE 200)
       \/ req[w].op # "stats" /\ Answered(w, 500)
    /\ UNCHANGED <<config, served, req, existed, derived_state, backupv, balance, left>>

-----------------------------------------------------------------------------
(* Writing: SPARQL Update, and PUT, POST and DELETE of a graph             *)

Existing(g) == g # "mint" /\ g \in served.graphs

M_StartWrite_asks_early(w) ==
    /\ phase[w] = "wait_write"
    /\ IF existed[w] = NoTarget
       THEN /\ existed' = [existed EXCEPT ![w] = IF Existing(req[w].graph) THEN "yes" ELSE "no"]
            /\ UNCHANGED <<phase, status, readers, writer>>
       ELSE WriteLock(w) /\ Goto(w, "writing") /\ UNCHANGED existed
    /\ UNCHANGED <<config, served, req, saw, derived_state, backupv, balance, left>>

(* The write lock, and under it the question whether the graph is there.   *)
StartWrite(w) ==
    /\ phase[w] = "wait_write" /\ WriteLock(w)
    /\ existed' = [existed EXCEPT ![w] = IF Existing(req[w].graph) THEN "yes" ELSE "no"]
    /\ Goto(w, "writing")
    /\ UNCHANGED <<config, served, req, saw, derived_state, backupv, balance, left>>

(* The refusals decided before a scope is opened.                          *)
Refusal(w) ==
    LET r == req[w]
    IN  IF r.op = "DELETE" /\ existed[w] = "no" THEN 404
        ELSE IF r.op \in {"PUT", "POST"} /\ ~r.usable THEN 415
        ELSE 0

(* Where a write goes on: a Graph Store request refreshes whatever came of *)
(* it, an update only when it succeeded.                                   *)
AfterWrite(w, ok) ==
    IF req[w].op \in WriteMethods \/ ok THEN "refresh" ELSE "answered"

(* The stores a request may leave: an update creates and drops whichever   *)
(* graphs its operations name, a Graph Store request the one it addresses. *)
WrittenStores(r) ==
    [gen : {served.gen + 1},
     graphs : CASE r.op = "update" -> SUBSET Graphs
                [] r.op = "DELETE" -> {served.graphs \ {r.graph}}
                [] r.graph = "mint" -> {served.graphs}
                [] OTHER -> {served.graphs \cup {r.graph}}]

StatusOf(w, ok) ==
    LET r == req[w]
    IN  IF ~ok THEN 400
        ELSE IF r.op = "update" THEN 200
        ELSE IF r.op = "DELETE" THEN 204
        ELSE IF existed[w] = "yes" THEN 204 ELSE 201

(* The request in one commit scope: all of it, or a rollback and nothing;  *)
(* the lock goes before anything is refreshed.                             *)
FinishWrite(w) ==
    /\ phase[w] = "writing" /\ WriteUnlock
    /\ LET r == req[w]
       IN  IF Refusal(w) # 0
           THEN Answered(w, Refusal(w)) /\ UNCHANGED <<served, balance>>
           ELSE \E ok \in BOOLEAN : \E after \in WrittenStores(r) :
                  /\ served' = IF ok THEN after ELSE served
                  /\ status' = [status EXCEPT ![w] = StatusOf(w, ok)]
                  /\ balance' = [g \in Graphs |->
                        CASE g = r.graph /\ StatusOf(w, ok) = 201 -> balance[g] + 1
                          [] g = r.graph /\ r.op = "DELETE" /\ ok -> balance[g] - 1
                          [] r.op = "update" /\ ok /\ g \in after.graphs \ served.graphs -> balance[g] + 1
                          [] r.op = "update" /\ ok /\ g \in served.graphs \ after.graphs -> balance[g] - 1
                          [] OTHER -> balance[g]]
                  /\ phase' = [phase EXCEPT ![w] = AfterWrite(w, ok)]
    /\ existed' = [existed EXCEPT ![w] = NoTarget]
    /\ UNCHANGED <<config, req, saw, derived_state, backupv, left>>

-----------------------------------------------------------------------------
(* refresh_statistics and refresh_spatial                                  *)

Refreshing == {v \in Workers : phase[v] \in {"save", "slot"}}

(* Under the read lock: the kept snapshot if it is current, else a build,  *)
(* which may fail.  Without --reorder there is nothing to do.              *)
BuildStatistics(w) ==
    /\ phase[w] = "refresh" /\ writer = NoTarget
    /\ \/ ~config.reorder /\ Goto(w, "spatial") /\ UNCHANGED derived_state
       \/ /\ config.reorder
          /\ built' = [built EXCEPT ![w] = served.gen]
          /\ Goto(w, IF kept_statistics = served.gen THEN "slot" ELSE "save")
          /\ raced' = (raced \/ Refreshing # {})
          /\ UNCHANGED <<slot, kept_statistics, spatial>>
       \/ config.reorder /\ Goto(w, "spatial") /\ raced' = TRUE
          /\ UNCHANGED <<built, slot, kept_statistics, spatial>>
    /\ UNCHANGED <<config, served, lockv, req, saw, existed, backupv, balance, left>>

(* The write lock, only to save; save asks again whether the store is      *)
(* still the one the snapshot describes.                                   *)
SaveStatistics(w) ==
    /\ phase[w] = "save" /\ writer = NoTarget /\ readers = {}
    /\ kept_statistics' = IF built[w] = served.gen THEN built[w] ELSE kept_statistics
    /\ Goto(w, "slot")
    /\ UNCHANGED <<config, served, lockv, req, saw, existed, built, slot, spatial, raced, backupv, balance, left>>

M_SetSlot_keeps_first(w) ==
    /\ phase[w] = "slot"
    /\ slot' = (IF slot = NoGen THEN built[w] ELSE slot) /\ built' = [built EXCEPT ![w] = NoGen]
    /\ Goto(w, "spatial")
    /\ UNCHANGED <<config, served, lockv, req, saw, existed, kept_statistics, spatial, raced, backupv, balance, left>>

(* Nothing orders this store of the slot against another worker's.         *)
SetSlot(w) ==
    /\ phase[w] = "slot"
    /\ slot' = built[w] /\ built' = [built EXCEPT ![w] = NoGen]
    /\ Goto(w, "spatial")
    /\ UNCHANGED <<config, served, lockv, req, saw, existed, kept_statistics, spatial, raced, backupv, balance, left>>

(* Under the read lock; the index's own lock and its watermark are module  *)
(* SpatialIndex.                                                           *)
RefreshSpatial(w) ==
    /\ phase[w] = "spatial" /\ writer = NoTarget
    /\ \/ spatial' = served.gen /\ UNCHANGED raced
       \/ raced' = TRUE /\ UNCHANGED spatial
    /\ phase' = [phase EXCEPT ![w] = "answered"] /\ UNCHANGED status
    /\ UNCHANGED <<config, served, lockv, req, saw, existed, built, slot, kept_statistics, backupv, balance, left>>

-----------------------------------------------------------------------------
(* Backups                                                                 *)

Stamp(w) ==
    /\ phase[w] = "stamp"
    /\ path' = [path EXCEPT ![w] = second]
    /\ Goto(w, "wait_backup")
    /\ UNCHANGED <<config, served, lockv, req, saw, existed, derived_state, second, fd, partial,
                   files, inode, shared, balance, left>>

(* The read lock for as long as the backup takes.  A store on disk is      *)
(* checkpointed in one step of RocksDB's, refused when it will not fit or  *)
(* when the name is taken; one in memory is dumped to a file beside its    *)
(* name, which exists already if another backup bears this second.         *)
backup(w) ==
    /\ phase[w] = "wait_backup" /\ writer = NoTarget
    /\ LET p == path[w]
       IN  \/ /\ ~config.memory
              /\ \/ /\ files[p] = NoFile /\ Answered(w, 201)
                    /\ files' = [files EXCEPT ![p] = <<p, w>>]
                    /\ inode' = [inode EXCEPT ![<<p, w>>] = [c \in Chunks |-> served.gen]]
                 \/ files[p] # NoFile /\ Answered(w, 409) /\ UNCHANGED <<files, inode>>
                 \/ Answered(w, 507) /\ UNCHANGED <<files, inode>>
              /\ UNCHANGED <<lockv, partial, fd, shared>>
           \/ /\ config.memory /\ files[p] # NoFile /\ Answered(w, 409)
              /\ UNCHANGED <<lockv, partial, files, inode, fd, shared>>
           \/ /\ config.memory /\ files[p] = NoFile
              /\ readers' = readers \cup {w} /\ UNCHANGED writer
              /\ LET f == IF partial[p] = NoFile THEN <<p, w>> ELSE partial[p]
                 IN  /\ partial' = [partial EXCEPT ![p] = f]
                     /\ fd' = [fd EXCEPT ![w] = f]
                     /\ inode' = [inode EXCEPT ![f] = [c \in Chunks |-> NoGen]]
                     /\ shared' = (shared \/ partial[p] # NoFile)
              /\ Goto(w, "dump1") /\ UNCHANGED files
    /\ UNCHANGED <<config, served, req, saw, existed, derived_state, second, path, balance, left>>

M_WriteChunk_renames_first(w) ==
    /\ phase[w] = "dump1"
    /\ inode' = [inode EXCEPT ![fd[w]][1] = served.gen]
    /\ Goto(w, "rename")
    /\ UNCHANGED <<partial, lockv>>
    /\ UNCHANGED <<config, served, req, saw, existed, derived_state, second, path, fd, files, shared, balance, left>>

(* The dump goes through the file it opened, whatever its name by now.     *)
WriteChunk(w) ==
    /\ phase[w] \in {"dump1", "dump2"}
    /\ LET c == IF phase[w] = "dump1" THEN 1 ELSE 2
       IN  \/ /\ inode' = [inode EXCEPT ![fd[w]][c] = served.gen]
              /\ Goto(w, IF c = 1 THEN "dump2" ELSE "rename")
              /\ UNCHANGED <<partial, lockv>>
           \/ /\ partial' = [partial EXCEPT ![path[w]] = NoFile]
              /\ ReadUnlock(w) /\ Answered(w, 507) /\ UNCHANGED inode
    /\ UNCHANGED <<config, served, req, saw, existed, derived_state, second, path, fd, files, shared, balance, left>>

(* The rename publishes the file; it fails if there is nothing of that     *)
(* name any more.                                                          *)
Rename(w) ==
    /\ phase[w] = "rename" /\ ReadUnlock(w)
    /\ LET p == path[w]
       IN  IF partial[p] # NoFile
           THEN /\ files' = [files EXCEPT ![p] = partial[p]]
                /\ partial' = [partial EXCEPT ![p] = NoFile] /\ Answered(w, 201)
           ELSE Answered(w, 500) /\ UNCHANGED <<files, partial>>
    /\ UNCHANGED <<config, served, req, saw, existed, derived_state, second, path, fd, inode, shared, balance, left>>

Tick ==
    /\ second < MaxSecond /\ second' = second + 1
    /\ UNCHANGED <<config, served, lockv, phase, req, status, saw, existed, derived_state, path, fd,
                   partial, files, inode, shared, balance, left>>

-----------------------------------------------------------------------------
(* main: the store is opened, statistics and spatial index are brought up  *)
(* to it, and only then do workers take requests.                          *)
ServerInit ==
    /\ config \in Configs
    /\ served = [gen |-> 0, graphs |-> {}]
    /\ readers = {} /\ writer = NoTarget
    /\ phase = [w \in Workers |-> "idle"] /\ req = [w \in Workers |-> NoRequest]
    /\ status = [w \in Workers |-> 0]
    /\ saw = [w \in Workers |-> {}] /\ existed = [w \in Workers |-> NoTarget]
    /\ built = [w \in Workers |-> NoGen]
    /\ slot = (IF config.reorder THEN 0 ELSE NoGen) /\ kept_statistics = slot
    /\ spatial \in {0, NoGen} /\ raced = (spatial = NoGen) /\ second = 0
    /\ path = [w \in Workers |-> 0] /\ fd = [w \in Workers |-> NoFile]
    /\ partial = [p \in 0..MaxSecond |-> NoFile] /\ files = partial
    /\ inode = [f \in Files |-> [c \in Chunks |-> NoGen]] /\ shared = FALSE
    /\ balance = [g \in Graphs |-> 0] /\ left = MaxRequests

Work(w) ==
    \/ Respond(w) \/ StartRead(w) \/ FinishRead(w) \/ StartWrite(w) \/ FinishWrite(w)
    \/ BuildStatistics(w) \/ SaveStatistics(w) \/ SetSlot(w) \/ RefreshSpatial(w)
    \/ Stamp(w) \/ backup(w) \/ WriteChunk(w) \/ Rename(w)

ServerNext == Tick \/ \E w \in Workers : Take(w) \/ Work(w)

(* A worker with a request runs; nobody has to send one.                   *)
ServerSpec == ServerInit /\ [][ServerNext]_server_vars /\ \A w \in Workers : WF_server_vars(Work(w))

-----------------------------------------------------------------------------
AllIdle == \A w \in Workers : phase[w] = "idle"

(* What leaves the server is one state of the store: a query, a graph that *)
(* is read and a report of the counts see nothing written while they are   *)
(* rendered (answer, graph_store and stats keep the read lock), and a      *)
(* backup that has been announced is whole.  Two backups in one second     *)
(* share their partial file: the first to rename announces a file the      *)
(* second may still be writing.                                            *)
OneState ==
    /\ \A w \in Workers : Cardinality(saw[w]) <= 1
    /\ ~shared => \A p \in DOMAIN files : files[p] # NoFile =>
          /\ inode[files[p]][1] # NoGen
          /\ inode[files[p]][1] = inode[files[p]][2]

(* 201 is told to exactly one of the clients that create a graph, and 204  *)
(* to a DELETE only if there was one to delete, however Graph Store        *)
(* requests interleave with each other and with updates that create and    *)
(* drop the same graphs: what was created and not removed, as the clients  *)
(* were told it, is what there is (graph_store asks gsp::exists under the  *)
(* lock it writes under).                                                  *)
CreatedOnce ==
    \A g \in Graphs : balance[g] = IF g \in served.graphs THEN 1 ELSE 0

(* When the server is at rest what it derives from the store describes the *)
(* store, if no refresh failed and no two builds of statistics overlapped: *)
(* a slower build of an older store may take the slot from a newer one,    *)
(* which costs plans and no answers.                                       *)
DerivedCurrentAtRest ==
    AllIdle /\ ~raced => spatial = served.gen /\ (config.reorder => slot = served.gen)
=============================================================================
