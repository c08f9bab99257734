---------------------------- MODULE ServerProofs ----------------------------
(***************************************************************************)
(* That what leaves the server is one state of the store, that a graph is  *)
(* reported created once, and that statistics and spatial index are up to  *)
(* date when the server rests, for any number of workers and requests.     *)
(***************************************************************************)
EXTENDS Server, FiniteSetTheorems, TLAPS

Dumping == {"dump1", "dump2", "rename"}
Labels ==
    {"idle", "answered", "stamp", "wait_write", "wait_read", "reading", "writing", "refresh",
     "save", "slot", "spatial", "wait_backup"} \cup Dumping
Seconds == 0..MaxSecond

\* The types the arguments below need: of the workers, and of the backup directory.
Threads ==
    /\ served.gen \in Nat
    /\ phase \in [Workers -> Labels] /\ DOMAIN req = Workers /\ DOMAIN saw = Workers
    /\ DOMAIN existed = Workers /\ DOMAIN built = Workers

Directory ==
    /\ second \in Seconds /\ path \in [Workers -> Seconds]
    /\ fd \in [Workers -> Files \cup {NoFile}]
    /\ partial \in [Seconds -> Files \cup {NoFile}] /\ files \in [Seconds -> Files \cup {NoFile}]
    /\ inode \in [Files -> [Chunks -> Int]]
    /\ \A w \in Workers : phase[w] \in Dumping => fd[w] \in Files

\* The lock is held by those the handlers say hold it, and excludes.
LockInv ==
    /\ readers = {w \in Workers : phase[w] \in {"reading"} \cup Dumping}
    /\ \A w \in Workers : phase[w] = "writing" <=> writer = w
    /\ writer \in Workers \cup {NoTarget}
    /\ writer # NoTarget => readers = {}

-----------------------------------------------------------------------------
\* No step leaves the types of what the workers keep.
LEMMA ThreadsKept ==
    ASSUME Threads, [ServerNext]_server_vars
    PROVE  Threads'
<1> USE DEF Threads, Labels, Dumping, derived_state, Answered, Goto
<1>1. CASE Tick
  BY <1>1 DEF Tick
<1>2. ASSUME NEW w \in Workers, Take(w) PROVE Threads'
  BY <1>2 DEF Take
<1>3. ASSUME NEW w \in Workers, Respond(w) \/ StartRead(w) PROVE Threads'
  BY <1>3 DEF Respond, StartRead
<1>4. ASSUME NEW w \in Workers, FinishRead(w) \/ StartWrite(w) PROVE Threads'
  BY <1>4 DEF FinishRead, StartWrite
<1>5. ASSUME NEW w \in Workers, FinishWrite(w) PROVE Threads'
  BY <1>5 DEF FinishWrite, WrittenStores, AfterWrite
<1>6. ASSUME NEW w \in Workers, BuildStatistics(w) \/ SaveStatistics(w) \/ SetSlot(w) \/ RefreshSpatial(w) PROVE Threads'
  BY <1>6 DEF BuildStatistics, SaveStatistics, SetSlot, RefreshSpatial
<1>7. ASSUME NEW w \in Workers, Stamp(w) \/ backup(w) PROVE Threads'
  BY <1>7 DEF Stamp, backup
<1>8. ASSUME NEW w \in Workers, WriteChunk(w) \/ Rename(w) PROVE Threads'
  BY <1>8 DEF WriteChunk, Rename
<1>9. CASE UNCHANGED server_vars
  BY <1>9 DEF server_vars
<1> QED
  BY <1>1, <1>2, <1>3, <1>4, <1>5, <1>6, <1>7, <1>8, <1>9 DEF ServerNext, Work

\* No step leaves the types of the backup directory; whoever dumps has a file open.
LEMMA DirectoryKept ==
    ASSUME Threads, Directory, [ServerNext]_server_vars
    PROVE  Directory'
<1> USE DEF Directory, Dumping, backupv, Answered, Goto
<1>1. CASE Tick
  BY <1>1, ServerAssumption DEF Tick, Seconds
<1>2. ASSUME NEW w \in Workers, Take(w) PROVE Directory'
  BY <1>2 DEF Take, Threads
<1>3. ASSUME NEW w \in Workers, Respond(w) PROVE Directory'
  BY <1>3, ServerAssumption DEF Respond, Threads, Seconds
<1>4. ASSUME NEW w \in Workers, StartRead(w) \/ FinishRead(w) \/ StartWrite(w) PROVE Directory'
  BY <1>4 DEF StartRead, FinishRead, StartWrite, Threads
<1>5. ASSUME NEW w \in Workers, FinishWrite(w) PROVE Directory'
  BY <1>5 DEF FinishWrite, AfterWrite, Threads
<1>6. ASSUME NEW w \in Workers, BuildStatistics(w) \/ SaveStatistics(w) \/ SetSlot(w) \/ RefreshSpatial(w) PROVE Directory'
  BY <1>6 DEF BuildStatistics, SaveStatistics, SetSlot, RefreshSpatial, Threads
<1>7. ASSUME NEW w \in Workers, Stamp(w) PROVE Directory'
  BY <1>7 DEF Stamp, Threads
<1>8. ASSUME NEW w \in Workers, backup(w) PROVE Directory'
  <2>1. <<path[w], w>> \in Files
    BY DEF Files, Seconds
  <2>2. served.gen \in Int /\ NoGen \in Int
    BY DEF Threads, NoGen
  <2>3. [c \in Chunks |-> served.gen] \in [Chunks -> Int] /\ [c \in Chunks |-> NoGen] \in [Chunks -> Int]
    BY <2>2
  <2>4. CASE phase' = [phase EXCEPT ![w] = "answered"]
    <3>1. phase' # [phase EXCEPT ![w] = "dump1"]
      BY <2>4 DEF Threads
    <3>2. /\ UNCHANGED <<second, path, partial, fd>>
          /\ \/ UNCHANGED <<files, inode>>
             \/ /\ files' = [files EXCEPT ![path[w]] = <<path[w], w>>]
                /\ inode' = [inode EXCEPT ![<<path[w], w>>] = [c \in Chunks |-> served.gen]]
      BY <1>8, <3>1 DEF backup
    <3>3. files' \in [Seconds -> Files \cup {NoFile}]
      <4> DEFINE F == Files \cup {NoFile}
      <4>1. files \in [Seconds -> F] /\ <<path[w], w>> \in F
        BY <2>1
      <4> HIDE DEF F
      <4>2. files' \in [Seconds -> F]
        BY <3>2, <4>1
      <4> QED
        BY <4>2 DEF F
    <3>4. inode' \in [Files -> [Chunks -> Int]]
      BY <2>1, <2>3, <3>2
    <3>5. \A v \in Workers : phase'[v] \in Dumping => phase[v] \in Dumping
      BY <2>4 DEF Threads
    <3> QED
      BY <3>2, <3>3, <3>4, <3>5
  <2>5. CASE phase' = [phase EXCEPT ![w] = "dump1"]
    <3> DEFINE f == IF partial[path[w]] = NoFile THEN <<path[w], w>> ELSE partial[path[w]]
    <3>1. f \in Files
      BY <2>1
    <3>2. phase' # [phase EXCEPT ![w] = "answered"]
      BY <2>5 DEF Threads
    <3>3. /\ partial' = [partial EXCEPT ![path[w]] = f] /\ fd' = [fd EXCEPT ![w] = f]
          /\ inode' = [inode EXCEPT ![f] = [c \in Chunks |-> NoGen]]
          /\ UNCHANGED <<second, path, files>>
      BY <1>8, <3>2 DEF backup
    <3> HIDE DEF f
    <3> QED
      BY <2>3, <2>5, <3>1, <3>3 DEF Threads
  <2> QED
    BY <1>8, <2>4, <2>5 DEF backup
<1>9. ASSUME NEW w \in Workers, WriteChunk(w) PROVE Directory'
  BY <1>9 DEF WriteChunk, Chunks, Threads
<1>10. ASSUME NEW w \in Workers, Rename(w) PROVE Directory'
  <2>1. path[w] \in Seconds /\ partial[path[w]] \in Files \cup {NoFile}
    OBVIOUS
  <2>2. phase' = [phase EXCEPT ![w] = "answered"] /\ UNCHANGED <<second, path, fd, inode>>
    BY <1>10 DEF Rename
  <2>3. files' \in [Seconds -> Files \cup {NoFile}] /\ partial' \in [Seconds -> Files \cup {NoFile}]
    BY <1>10, <2>1 DEF Rename
  <2>4. \A v \in Workers : phase'[v] \in Dumping => phase[v] \in Dumping
    BY <2>2 DEF Threads
  <2> QED
    BY <2>2, <2>3, <2>4
<1>11. CASE UNCHANGED server_vars
  BY <1>11 DEF server_vars
<1> QED
  BY <1>1, <1>2, <1>3, <1>4, <1>5, <1>6, <1>7, <1>8, <1>9, <1>10, <1>11 DEF ServerNext, Work

\* Every handler takes the lock before, and gives it back after, what it is for.
LEMMA LockKept ==
    ASSUME Threads, LockInv, [ServerNext]_server_vars
    PROVE  LockInv'
<1> USE ServerAssumption DEF Threads, LockInv, Labels, Dumping, lockv, derived_state, backupv, Answered, Goto
<1>1. CASE Tick
  BY <1>1 DEF Tick
<1>2. ASSUME NEW w \in Workers, Take(w) PROVE LockInv'
  BY <1>2 DEF Take
<1>3. ASSUME NEW w \in Workers, Respond(w) \/ StartRead(w) \/ FinishRead(w) PROVE LockInv'
  BY <1>3 DEF Respond, StartRead, FinishRead, ReadLock, ReadUnlock
<1>4. ASSUME NEW w \in Workers, StartWrite(w) PROVE LockInv'
  BY <1>4 DEF StartWrite, WriteLock
<1>5. ASSUME NEW w \in Workers, FinishWrite(w) PROVE LockInv'
  BY <1>5 DEF FinishWrite, AfterWrite, WriteUnlock
<1>6. ASSUME NEW w \in Workers, BuildStatistics(w) \/ SaveStatistics(w) \/ SetSlot(w) \/ RefreshSpatial(w) PROVE LockInv'
  BY <1>6 DEF BuildStatistics, SaveStatistics, SetSlot, RefreshSpatial
<1>7. ASSUME NEW w \in Workers, Stamp(w) PROVE LockInv'
  BY <1>7 DEF Stamp
<1>8. ASSUME NEW w \in Workers, backup(w) PROVE LockInv'
  BY <1>8 DEF backup
<1>9. ASSUME NEW w \in Workers, WriteChunk(w) \/ Rename(w) PROVE LockInv'
  BY <1>9 DEF WriteChunk, Rename, ReadUnlock
<1>10. CASE UNCHANGED server_vars
  BY <1>10 DEF server_vars
<1> QED
  BY <1>1, <1>2, <1>3, <1>4, <1>5, <1>6, <1>7, <1>8, <1>9, <1>10 DEF ServerNext, Work

\* Types and lock, in every state.
LEMMA LockHolds == ServerSpec => [](Threads /\ Directory /\ LockInv)
<1>1. ServerInit => Threads
  BY DEF ServerInit, Threads, Labels
<1>2. ServerInit => Directory
  BY ServerAssumption DEF ServerInit, Directory, Seconds, Dumping, NoGen
<1>3. ServerInit => LockInv
  BY ServerAssumption DEF ServerInit, LockInv, Dumping
<1> QED
  BY <1>1, <1>2, <1>3, ThreadsKept, DirectoryKept, LockKept, PTL DEF ServerSpec

-----------------------------------------------------------------------------
(* One state: reads and backups                                            *)

\* Whoever reads has seen the store as it still is.
SeenInv ==
    \A w \in Workers :
        /\ phase[w] = "reading" => saw[w] = {served.gen}
        /\ saw[w] = {} \/ \E g \in Nat : saw[w] = {g}

\* Only a writer makes a generation, and then nobody reads.
LEMMA StoreKept ==
    ASSUME Threads, LockInv, [ServerNext]_server_vars
    PROVE  served' = served \/ \A v \in Workers : phase[v] \notin {"reading"} \cup Dumping
<1>1. ASSUME NEW w \in Workers, FinishWrite(w)
      PROVE  \A v \in Workers : phase[v] \notin {"reading"} \cup Dumping
  BY <1>1, ServerAssumption DEF FinishWrite, LockInv
<1>2. CASE Tick \/ UNCHANGED server_vars
  BY <1>2 DEF Tick, server_vars
<1>3. ASSUME NEW w \in Workers, Take(w) \/ (Work(w) /\ ~FinishWrite(w)) PROVE served' = served
  BY <1>3 DEF Take, Work, Respond, StartRead, FinishRead, StartWrite, BuildStatistics, SaveStatistics,
     SetSlot, RefreshSpatial, Stamp, backup, WriteChunk, Rename
<1> QED
  BY <1>1, <1>2, <1>3 DEF ServerNext, Work

\* A reader goes on seeing what it saw first.
LEMMA SeenKept ==
    ASSUME Threads, LockInv, SeenInv, [ServerNext]_server_vars
    PROVE  SeenInv'
<1> USE DEF Threads, SeenInv, Answered, Goto
<1>1. CASE Tick \/ UNCHANGED server_vars
  BY <1>1 DEF Tick, server_vars
<1>2. ASSUME NEW w \in Workers, Take(w) \/ Respond(w) PROVE SeenInv'
  BY <1>2 DEF Take, Respond
<1>3. ASSUME NEW w \in Workers, StartRead(w) \/ FinishRead(w) PROVE SeenInv'
  BY <1>3 DEF StartRead, FinishRead
<1>4. ASSUME NEW w \in Workers, FinishWrite(w) PROVE SeenInv'
  BY <1>4, StoreKept DEF FinishWrite, AfterWrite, ServerNext, Work
<1>5. ASSUME NEW w \in Workers, StartWrite(w) \/ BuildStatistics(w) \/ SaveStatistics(w) PROVE SeenInv'
  BY <1>5 DEF StartWrite, BuildStatistics, SaveStatistics
<1>6. ASSUME NEW w \in Workers, SetSlot(w) \/ RefreshSpatial(w) \/ Stamp(w) PROVE SeenInv'
  BY <1>6 DEF SetSlot, RefreshSpatial, Stamp
<1>7. ASSUME NEW w \in Workers, backup(w) PROVE SeenInv'
  BY <1>7 DEF backup
<1>8. ASSUME NEW w \in Workers, WriteChunk(w) \/ Rename(w) PROVE SeenInv'
  BY <1>8 DEF WriteChunk, Rename
<1> QED
  BY <1>1, <1>2, <1>3, <1>4, <1>5, <1>6, <1>7, <1>8 DEF ServerNext, Work

\* While no two backups share a file, each dump has a file of its own, under the name it
\* will publish, that holds the store as it still is as far as it has been written.
Published(f) == inode[f][1] # NoGen /\ inode[f][1] = inode[f][2]

WholeInv ==
    /\ \A w \in Workers : phase[w] \in Dumping => config.memory
    /\ ~shared => \A p \in Seconds : files[p] # NoFile => files[p][1] = p /\ Published(files[p])
    /\ ~shared => \A w \in Workers : phase[w] \in Dumping =>
          /\ fd[w] = <<path[w], w>> /\ partial[path[w]] = fd[w] /\ files[path[w]] = NoFile
          /\ phase[w] # "dump1" => inode[fd[w]][1] = served.gen
          /\ phase[w] = "rename" => inode[fd[w]][2] = served.gen

\* The three ways a backup's request can go on: refused, checkpointed, or dumped.
LEMMA BackupGoes ==
    ASSUME NEW w \in Workers, backup(w)
    PROVE  LET p == path[w]
               f == IF partial[p] = NoFile THEN <<p, w>> ELSE partial[p]
           IN  /\ UNCHANGED <<config, served, path, saw>> /\ phase[w] = "wait_backup"
               /\ \/ /\ phase' = [phase EXCEPT ![w] = "answered"]
                     /\ UNCHANGED <<files, inode, fd, partial, shared>>
                  \/ /\ phase' = [phase EXCEPT ![w] = "answered"] /\ ~config.memory /\ files[p] = NoFile
                     /\ files' = [files EXCEPT ![p] = <<p, w>>]
                     /\ inode' = [inode EXCEPT ![<<p, w>>] = [c \in Chunks |-> served.gen]]
                     /\ UNCHANGED <<fd, partial, shared>>
                  \/ /\ phase' = [phase EXCEPT ![w] = "dump1"] /\ config.memory /\ files[p] = NoFile
                     /\ partial' = [partial EXCEPT ![p] = f] /\ fd' = [fd EXCEPT ![w] = f]
                     /\ inode' = [inode EXCEPT ![f] = [c \in Chunks |-> NoGen]]
                     /\ shared' = (shared \/ partial[p] # NoFile) /\ UNCHANGED files
BY DEF backup, Answered, Goto

\* A file is named by its second and its worker, and is something.
LEMMA FileNames ==
    ASSUME NEW p \in Seconds, NEW w \in Workers
    PROVE  <<p, w>> \in Files /\ <<p, w>> # NoFile /\ <<p, w>>[1] = p /\ <<p, w>>[2] = w
BY DEF Files, Seconds, NoFile

\* A dump keeps its own file, and publishes it when both writes are in.
LEMMA WholeKept ==
    ASSUME Threads, Directory, LockInv, WholeInv, [ServerNext]_server_vars
    PROVE  WholeInv'
<1> USE DEF Threads, WholeInv, Published, Answered, Goto
<1>1. CASE Tick \/ UNCHANGED server_vars
  BY <1>1 DEF Tick, server_vars, backupv
<1>2. ASSUME NEW w \in Workers, Take(w) PROVE WholeInv'
  BY <1>2 DEF Take, backupv, Dumping
<1>3. ASSUME NEW w \in Workers, Respond(w) PROVE WholeInv'
  BY <1>3 DEF Respond, Dumping, Directory
<1>4. ASSUME NEW w \in Workers, StartRead(w) \/ FinishRead(w) \/ StartWrite(w) PROVE WholeInv'
  BY <1>4 DEF StartRead, FinishRead, StartWrite, backupv, Dumping
<1>5. ASSUME NEW w \in Workers, FinishWrite(w) PROVE WholeInv'
  <2>1. \A v \in Workers : phase[v] \notin Dumping
    BY <1>5, ServerAssumption DEF FinishWrite, LockInv
  <2>2. \A v \in Workers : phase'[v] \notin Dumping
    BY <1>5, <2>1 DEF FinishWrite, AfterWrite, Dumping
  <2> QED
    BY <1>5, <2>2 DEF FinishWrite, backupv
<1>6. ASSUME NEW w \in Workers, BuildStatistics(w) \/ SaveStatistics(w) \/ SetSlot(w) \/ RefreshSpatial(w) PROVE WholeInv'
  BY <1>6 DEF BuildStatistics, SaveStatistics, SetSlot, RefreshSpatial, backupv, Dumping
<1>7. ASSUME NEW w \in Workers, Stamp(w) PROVE WholeInv'
  BY <1>7 DEF Stamp, Dumping, Directory
<1>8. ASSUME NEW w \in Workers, backup(w) PROVE WholeInv'
  <2> DEFINE p == path[w]
             f == <<p, w>>
  <2>1. p \in Seconds /\ f \in Files /\ f # NoFile /\ f[1] = p
    BY FileNames DEF Directory
  <2>2. CASE phase' = [phase EXCEPT ![w] = "answered"] /\ UNCHANGED <<files, inode, fd, partial, shared>>
    <3>1. UNCHANGED <<config, served, path>>
      BY <1>8, BackupGoes
    <3>2. \A v \in Workers : phase'[v] = phase[v] \/ phase'[v] \notin Dumping
      BY <2>2 DEF Dumping
    <3> QED
      BY <2>2, <3>1, <3>2
  <2>3. CASE /\ phase' = [phase EXCEPT ![w] = "answered"] /\ ~config.memory /\ files[p] = NoFile
             /\ files' = [files EXCEPT ![p] = f]
             /\ inode' = [inode EXCEPT ![f] = [c \in Chunks |-> served.gen]]
             /\ UNCHANGED <<fd, partial, shared>>
    <3>1. \A v \in Workers : phase'[v] \notin Dumping
      BY <2>3 DEF Dumping
    <3>2. inode'[f][1] = served.gen /\ inode'[f][2] = served.gen /\ served.gen # NoGen
      BY <2>1, <2>3 DEF Chunks, Directory, NoGen
    <3>3. \A q \in Seconds \ {p} : files'[q] = files[q] /\ (files[q] # NoFile /\ ~shared => inode'[files[q]] = inode[files[q]])
      BY <2>1, <2>3 DEF Directory
    <3>4. files'[p] = f
      BY <2>1, <2>3 DEF Directory
    <3> HIDE DEF f, p
    <3> QED
      BY <2>1, <2>3, <3>1, <3>2, <3>3, <3>4
  <2>4. CASE /\ phase' = [phase EXCEPT ![w] = "dump1"] /\ config.memory /\ files[p] = NoFile
             /\ shared' = (shared \/ partial[p] # NoFile) /\ ~shared'
             /\ partial' = [partial EXCEPT ![p] = f] /\ fd' = [fd EXCEPT ![w] = f]
             /\ inode' = [inode EXCEPT ![f] = [c \in Chunks |-> NoGen]]
             /\ UNCHANGED files
    <3>0. ~shared /\ partial[p] = NoFile
      BY <2>4
    <3>1. \A q \in Seconds : files[q] # NoFile => files[q][1] = q /\ inode'[files[q]] = inode[files[q]]
      <4> SUFFICES ASSUME NEW q \in Seconds, files[q] # NoFile
                   PROVE  files[q][1] = q /\ inode'[files[q]] = inode[files[q]]
        OBVIOUS
      <4>1. files[q] \in Files /\ files[q][1] = q
        BY <3>0 DEF Directory
      <4>2. files[q] # f
        BY <2>1, <2>4, <4>1
      <4> HIDE DEF f
      <4> QED
        BY <2>1, <2>4, <4>1, <4>2 DEF Directory
    <3>2. \A v \in Workers \ {w} : phase[v] \in Dumping =>
             fd[v] # NoFile /\ path[v] # p /\ fd[v] # f /\ fd[v] \in Files
      <4> SUFFICES ASSUME NEW v \in Workers \ {w}, phase[v] \in Dumping
                   PROVE  fd[v] # NoFile /\ path[v] # p /\ fd[v] # f /\ fd[v] \in Files
        OBVIOUS
      <4>1. path[v] \in Seconds
        BY DEF Directory
      <4>2. fd[v] = <<path[v], v>> /\ partial[path[v]] = fd[v] /\ fd[v] \in Files
        BY <2>4 DEF Directory
      <4>3. fd[v] # NoFile /\ fd[v][2] = v /\ f[2] = w
        BY <2>1, <4>1, <4>2, FileNames
      <4> QED
        BY <2>4, <4>2, <4>3
    <3>3. \A v \in Workers \ {w} : phase[v] \in Dumping =>
             fd'[v] = fd[v] /\ partial'[path[v]] = partial[path[v]] /\ inode'[fd[v]] = inode[fd[v]]
      BY <2>1, <2>4, <3>2 DEF Directory
    <3>4. fd'[w] = f /\ partial'[p] = f
      BY <2>1, <2>4 DEF Directory
    <3>5. \A v \in Workers \ {w} : phase'[v] = phase[v]
      BY <2>4
    <3>6. phase'[w] = "dump1" /\ path' = path /\ served' = served /\ config' = config
      BY <1>8, <2>4, BackupGoes
    <3> HIDE DEF f
    <3> QED
      <4>1. \A q \in Seconds : files'[q] # NoFile =>
               files'[q][1] = q /\ inode'[files'[q]][1] # NoGen /\ inode'[files'[q]][1] = inode'[files'[q]][2]
        BY <2>4, <3>0, <3>1
      <4>2. \A v \in Workers \ {w} : phase'[v] \in Dumping =>
               /\ fd'[v] = <<path'[v], v>> /\ partial'[path'[v]] = fd'[v] /\ files'[path'[v]] = NoFile
               /\ phase'[v] # "dump1" => inode'[fd'[v]][1] = served'.gen
               /\ phase'[v] = "rename" => inode'[fd'[v]][2] = served'.gen
        BY <2>4, <3>0, <3>3, <3>5, <3>6
      <4>3. fd'[w] = <<path'[w], w>> /\ partial'[path'[w]] = fd'[w] /\ files'[path'[w]] = NoFile
        BY <2>4, <3>4, <3>6 DEF f
      <4> QED
        BY <2>4, <3>5, <3>6, <4>1, <4>2, <4>3
  <2>5. CASE phase' = [phase EXCEPT ![w] = "dump1"] /\ config.memory /\ shared'
    BY <1>8, <2>5, BackupGoes DEF Dumping
  <2> HIDE DEF f
  <2>6. f = <<p, w>>
    BY DEF f
  <2>7. \/ phase' = [phase EXCEPT ![w] = "answered"] /\ UNCHANGED <<files, inode, fd, partial, shared>>
        \/ /\ phase' = [phase EXCEPT ![w] = "answered"] /\ ~config.memory /\ files[p] = NoFile
           /\ files' = [files EXCEPT ![p] = f]
           /\ inode' = [inode EXCEPT ![f] = [c \in Chunks |-> served.gen]]
           /\ UNCHANGED <<fd, partial, shared>>
        \/ /\ phase' = [phase EXCEPT ![w] = "dump1"] /\ config.memory /\ files[p] = NoFile
           /\ shared' = (shared \/ partial[p] # NoFile)
           /\ partial[p] = NoFile => /\ partial' = [partial EXCEPT ![p] = f] /\ fd' = [fd EXCEPT ![w] = f]
                                     /\ inode' = [inode EXCEPT ![f] = [c \in Chunks |-> NoGen]]
           /\ UNCHANGED files
    BY <1>8, <2>6, BackupGoes
  <2> HIDE DEF p
  <2>8. (shared' = (shared \/ partial[p] # NoFile)) /\ ~shared' => partial[p] = NoFile
    OBVIOUS
  <2> QED
    BY <2>2, <2>3, <2>4, <2>5, <2>7, <2>8
<1>9. ASSUME NEW w \in Workers, WriteChunk(w) PROVE WholeInv'
  <2> USE <1>9
  <2>1. phase[w] \in Dumping /\ shared' = shared /\ UNCHANGED <<config, served, path, fd, files>>
    BY DEF WriteChunk, Dumping
  <2>2. \A v \in Workers \ {w} : phase'[v] = phase[v]
    BY DEF WriteChunk
  <2>3. CASE inode' = inode /\ phase'[w] = "answered" /\ partial' = [partial EXCEPT ![path[w]] = NoFile]
    <3>1. ~shared => \A v \in Workers \ {w} : phase[v] \in Dumping => partial'[path[v]] = partial[path[v]]
      BY <2>1, <2>3, FileNames DEF Directory
    <3> QED
      BY <2>1, <2>2, <2>3, <3>1 DEF Dumping
  <2>4. ASSUME NEW c \in Chunks, partial' = partial,
               inode' = [inode EXCEPT ![fd[w]][c] = served.gen],
               c = 1 => phase[w] = "dump1" /\ phase'[w] = "dump2",
               c = 2 => phase[w] = "dump2" /\ phase'[w] = "rename"
        PROVE  WholeInv'
    <3>1. ~shared => \A v \in Workers \ {w} : phase[v] \in Dumping => inode'[fd[v]] = inode[fd[v]]
      BY <2>1, <2>4, FileNames DEF Directory
    <3>2. ~shared => \A q \in Seconds : files[q] # NoFile => inode'[files[q]] = inode[files[q]]
      BY <2>1, <2>4, FileNames DEF Directory
    <3>3. inode'[fd[w]][c] = served.gen /\ \A d \in Chunks \ {c} : inode'[fd[w]][d] = inode[fd[w]][d]
      BY <2>1, <2>4 DEF Directory
    <3> QED
      BY <2>1, <2>2, <2>4, <3>1, <3>2, <3>3 DEF Dumping, Chunks
  <2> QED
    BY <2>3, <2>4 DEF WriteChunk, Chunks
<1>10. ASSUME NEW w \in Workers, Rename(w) PROVE WholeInv'
  <2>1. phase[w] \in Dumping /\ UNCHANGED <<config, served, path, fd, inode, shared>>
    BY <1>10 DEF Rename, Dumping
  <2>2. phase'[w] = "answered" /\ \A v \in Workers \ {w} : phase'[v] = phase[v]
    BY <1>10 DEF Rename
  <2>3. CASE ~shared
    <3>1. /\ files' = [files EXCEPT ![path[w]] = fd[w]] /\ partial' = [partial EXCEPT ![path[w]] = NoFile]
          /\ fd[w][1] = path[w] /\ Published(fd[w])
      BY <1>10, <2>1, <2>3, FileNames DEF Rename, Directory, NoGen
    <3>2. \A v \in Workers \ {w} : phase[v] \in Dumping => path[v] # path[w]
      BY <2>1, <2>3, FileNames DEF Directory
    <3> QED
      BY <2>1, <2>2, <2>3, <3>1, <3>2 DEF Dumping, Directory
  <2> QED
    BY <2>1, <2>2, <2>3 DEF Dumping
<1> QED
  BY <1>1, <1>2, <1>3, <1>4, <1>5, <1>6, <1>7, <1>8, <1>9, <1>10 DEF ServerNext, Work

\* What leaves the server is one state of the store: readers and dumps hold the read lock,
\* a writer excludes them, and a backup alone with its file publishes it whole.
THEOREM AnswersAreOneState == ServerSpec => []OneState
<1>1. ServerInit => SeenInv /\ WholeInv
  BY DEF ServerInit, SeenInv, WholeInv, Dumping, Seconds
<1>2. Directory /\ SeenInv /\ WholeInv => OneState
  <2> SUFFICES ASSUME Directory, SeenInv, WholeInv PROVE OneState
    OBVIOUS
  <2>1. ASSUME NEW w \in Workers PROVE Cardinality(saw[w]) <= 1
    <3>1. CASE saw[w] = {}
      BY <3>1, FS_EmptySet
    <3>2. ASSUME NEW g \in Nat, saw[w] = {g} PROVE Cardinality(saw[w]) <= 1
      BY <3>2, FS_Singleton
    <3> QED
      BY <3>1, <3>2 DEF SeenInv
  <2>2. DOMAIN files = Seconds
    BY DEF Directory
  <2> QED
    BY <2>1, <2>2 DEF WholeInv, Published, OneState
<1> QED
  BY <1>1, <1>2, LockHolds, SeenKept, WholeKept, PTL DEF ServerSpec

-----------------------------------------------------------------------------
(* Graphs created and deleted                                              *)

\* What the writer learnt on entering is still so: nobody else has written since.
CreateInv ==
    /\ balance \in [Graphs -> Int] /\ CreatedOnce
    /\ \A w \in Workers :
          /\ phase[w] \in {"wait_write", "writing"} => req[w].op \in WriteMethods \cup {"update"}
          /\ phase[w] = "writing" => existed[w] = IF Existing(req[w].graph) THEN "yes" ELSE "no"

\* What is reported and what is there move together.
LEMMA CreateKept ==
    ASSUME Threads, LockInv, CreateInv, [ServerNext]_server_vars
    PROVE  CreateInv'
<1> USE DEF Threads, CreateInv, CreatedOnce, Existing, Answered, Goto
<1>1. CASE Tick \/ UNCHANGED server_vars
  BY <1>1 DEF Tick, server_vars
<1>2. ASSUME NEW w \in Workers, Take(w) PROVE CreateInv'
  BY <1>2 DEF Take
<1>3. ASSUME NEW w \in Workers, Respond(w) \/ StartRead(w) \/ FinishRead(w) PROVE CreateInv'
  BY <1>3 DEF Respond, StartRead, FinishRead
<1>4. ASSUME NEW w \in Workers, StartWrite(w) PROVE CreateInv'
  BY <1>4 DEF StartWrite
<1>5. ASSUME NEW w \in Workers, FinishWrite(w) PROVE CreateInv'
  <2>1. phase[w] = "writing" /\ \A v \in Workers \ {w} : phase[v] # "writing" /\ phase'[v] = phase[v] /\ req'[v] = req[v]
    BY <1>5 DEF FinishWrite, LockInv
  <2>2. phase'[w] \notin {"wait_write", "writing"}
    BY <1>5 DEF FinishWrite, AfterWrite
  <2>3. balance' \in [Graphs -> Int] /\ CreatedOnce'
    BY <1>5, <2>1, ServerAssumption DEF FinishWrite, Refusal, WrittenStores, StatusOf, WriteMethods
  <2> QED
    BY <1>5, <2>1, <2>2, <2>3
<1>6. ASSUME NEW w \in Workers, BuildStatistics(w) \/ SaveStatistics(w) \/ SetSlot(w) \/ RefreshSpatial(w) PROVE CreateInv'
  BY <1>6 DEF BuildStatistics, SaveStatistics, SetSlot, RefreshSpatial
<1>7. ASSUME NEW w \in Workers, Stamp(w) \/ backup(w) PROVE CreateInv'
  BY <1>7 DEF Stamp, backup
<1>8. ASSUME NEW w \in Workers, WriteChunk(w) \/ Rename(w) PROVE CreateInv'
  BY <1>8 DEF WriteChunk, Rename
<1> QED
  BY <1>1, <1>2, <1>3, <1>4, <1>5, <1>6, <1>7, <1>8 DEF ServerNext, Work

\* 201 goes to one of the clients that create a graph (graph_store asks gsp::exists under
\* the write lock it then writes under): created less deleted is what there is.
THEOREM AlwaysCreatedOnce == ServerSpec => []CreatedOnce
<1>1. ServerInit => CreateInv
  BY DEF ServerInit, CreateInv, CreatedOnce
<1>2. CreateInv => CreatedOnce
  BY DEF CreateInv
<1> QED
  BY <1>1, <1>2, LockHolds, CreateKept, PTL DEF ServerSpec

-----------------------------------------------------------------------------
(* Statistics and the spatial index                                        *)

\* A store that is newer than what is derived from it has somebody on the way to derive it
\* again; and while nobody still has to build, whoever carries statistics carries the
\* latest, alone.
Behind == \E w \in Workers : phase[w] = "refresh"

DerivedInv ==
    ~raced =>
        /\ spatial # served.gen => \E w \in Workers : phase[w] \in {"refresh", "save", "slot", "spatial"}
        /\ \A v, w \in Refreshing : v = w
        /\ config.reorder /\ ~Behind => \A w \in Refreshing : built[w] = served.gen
        /\ config.reorder /\ ~Behind /\ Refreshing = {} => slot = served.gen

\* Whatever leaves the derived state behind leaves somebody to bring it up.
LEMMA DerivedKept ==
    ASSUME Threads, DerivedInv, [ServerNext]_server_vars
    PROVE  DerivedInv'
<1> USE DEF Threads, DerivedInv, Behind, Refreshing, Answered, Goto
<1>1. CASE Tick \/ UNCHANGED server_vars
  BY <1>1 DEF Tick, server_vars, derived_state
<1>2. ASSUME NEW w \in Workers, Take(w) PROVE DerivedInv'
  BY <1>2 DEF Take, derived_state
<1>3. ASSUME NEW w \in Workers, Respond(w) \/ StartRead(w) \/ FinishRead(w) PROVE DerivedInv'
  BY <1>3 DEF Respond, StartRead, FinishRead, derived_state
<1>4. ASSUME NEW w \in Workers, StartWrite(w) PROVE DerivedInv'
  BY <1>4 DEF StartWrite, derived_state
<1>5. ASSUME NEW w \in Workers, FinishWrite(w) PROVE DerivedInv'
  BY <1>5 DEF FinishWrite, AfterWrite, derived_state
<1>6. ASSUME NEW w \in Workers, BuildStatistics(w) PROVE DerivedInv'
  <2>1. CASE raced'
    BY <2>1
  <2>2. CASE ~config.reorder /\ UNCHANGED derived_state
    BY <1>6, <2>2 DEF BuildStatistics, derived_state
  <2>3. CASE ~raced' /\ config.reorder
    <3>1. ~raced /\ Refreshing = {}
      BY <1>6, <2>3 DEF BuildStatistics
    <3>2. phase'[w] \in {"save", "slot"} /\ built'[w] = served.gen /\ UNCHANGED <<config, served, spatial>>
      BY <1>6, <2>3 DEF BuildStatistics
    <3>3. \A v \in Workers \ {w} : phase'[v] = phase[v]
      BY <1>6 DEF BuildStatistics
    <3> QED
      BY <3>1, <3>2, <3>3
  <2> QED
    BY <1>6, <2>1, <2>2, <2>3 DEF BuildStatistics, derived_state
<1>7. ASSUME NEW w \in Workers, SaveStatistics(w) \/ SetSlot(w) PROVE DerivedInv'
  BY <1>7 DEF SaveStatistics, SetSlot
<1>8. ASSUME NEW w \in Workers, RefreshSpatial(w) PROVE DerivedInv'
  BY <1>8 DEF RefreshSpatial
<1>9. ASSUME NEW w \in Workers, Stamp(w) \/ backup(w) PROVE DerivedInv'
  BY <1>9 DEF Stamp, backup, derived_state
<1>10. ASSUME NEW w \in Workers, WriteChunk(w) \/ Rename(w) PROVE DerivedInv'
  BY <1>10 DEF WriteChunk, Rename, derived_state
<1> QED
  BY <1>1, <1>2, <1>3, <1>4, <1>5, <1>6, <1>7, <1>8, <1>9, <1>10 DEF ServerNext, Work

\* At rest the slot's statistics and the spatial index describe the store, unless a refresh
\* failed or two builds overlapped: refresh_statistics and refresh_spatial follow every
\* write that made a generation.
THEOREM RestsUpToDate == ServerSpec => []DerivedCurrentAtRest
<1>1. ServerInit => DerivedInv
  <2>1. ServerInit => Refreshing = {}
    BY DEF ServerInit, Refreshing
  <2>2. ServerInit /\ ~raced => spatial = served.gen /\ (config.reorder => slot = served.gen)
    <3>1. ServerInit => spatial \in {0, NoGen} /\ served.gen = 0 /\ raced = (spatial = NoGen)
      BY DEF ServerInit
    <3>2. ServerInit /\ config.reorder => slot = 0
      BY DEF ServerInit
    <3>3. ServerInit /\ ~raced => spatial # NoGen
      BY <3>1, Zenon
    <3> QED
      BY <3>1, <3>2, <3>3
  <2> QED
    BY <2>1, <2>2 DEF DerivedInv
<1>2. Threads /\ DerivedInv => DerivedCurrentAtRest
  BY DEF DerivedInv, DerivedCurrentAtRest, AllIdle, Refreshing, Behind
<1> QED
  BY <1>1, <1>2, LockHolds, DerivedKept, PTL DEF ServerSpec
=============================================================================
