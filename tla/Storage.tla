------------------------------- MODULE Storage -------------------------------
(***************************************************************************)
(* The files of a queue: log generations, the pointer that names the live  *)
(* one, and how processes follow it (Layout in nobroker/logfile.py;        *)
(* _open_live_log, _catch_up, _replay, _commit and compact in              *)
(* nobroker/queue.py).  The writes of Queue are one step each; here they   *)
(* are what they are made of, and a kill, an OSError or a power cut may    *)
(* come between any two system calls.                                      *)
(*                                                                         *)
(* Operations exclude each other (Lock).  What the records mean is kept to *)
(* the least that shows a loss: a job is added, and later done.            *)
(***************************************************************************)
EXTENDS LogFile, SequencesExt

CONSTANTS
  Proc, Job,
  Chunk,         \* cells read at a time
  Ino,           \* inodes for logs
  Chunks,        \* other sizes a chunk might have
  Faults,        \* what may go wrong: kill, killsync, raise, dirsync, power; and what
                 \*   breaks the promises: reopen, switch, powersync
  MaxGen, MaxFaults    \* bounds of the instance

ASSUME StorageAssumption ==
  /\ Type = {"add", "done"} /\ Chunk \in Nat \ {0} /\ Chunks \subseteq Nat \ {0}
  /\ Job \subseteq Nat /\ None \notin Proc /\ None \notin Ino /\ None \notin Nat
  /\ MaxGen \in Nat /\ MaxFaults \in Nat
  /\ \A g \in 0..MaxGen : FileHeader(g) # Hole

\* There is always an inode that nothing refers to.
ASSUME InodesSuffice ==
  IsFiniteSet(Proc) /\ (IsFiniteSet(Ino) => Cardinality(Ino) > 2 * (MaxGen + 1) + Cardinality(Proc))

VARIABLES
  files,     \* what each inode holds
  dir,       \* the directory, [log, current]: the inode of each generation's log,
             \*   the generation in the pointer file
  disk,      \* the directory as it was last synced
  unsynced,  \* ghost: a sync of the directory was passed over, and none has followed
  proc,      \* of each process's Queue: [up, log, gen, pos, end, idx]
  op,        \* the operation that has the lock, [by, at, new]
  tried,     \* ghost: the records somebody tried to write
  acked,     \* ghost: the records whose writer was told of success
  faults     \* how many faults have happened

vars == <<files, dir, disk, unsynced, proc, op, tried, acked, faults>>

NoJobs == [j \in Job |-> "none"]
Down == [up |-> FALSE, log |-> None, gen |-> 0, pos |-> 0, end |-> 0, idx |-> NoJobs]
Free == [by |-> None, at |-> "free", new |-> None]
Empty == Synced(<<>>)

Init ==
  /\ files = [i \in Ino |-> Empty]
  /\ dir = [log |-> [g \in 0..MaxGen |-> None], current |-> None]
  /\ disk = dir /\ unsynced = FALSE
  /\ proc = [p \in Proc |-> Down] /\ op = Free
  /\ tried = {} /\ acked = {} /\ faults = 0

-----------------------------------------------------------------------------
Add(j) == [type |-> "add", job |-> j]
Done(j) == [type |-> "done", job |-> j]

Apply(idx, record) ==
  [idx EXCEPT ![record.job] = IF record.type = "add" THEN "live" ELSE "done"]

Replayed(idx, records) == FoldLeft(Apply, idx, records)

\* read_generation: zero without a pointer file.
Generation(d) == IF d.current = None THEN 0 ELSE d.current

LiveLog(d) == d.log[Generation(d)]

\* Slip: the pointer is read once.
LiveGenerationCached(p) == IF proc[p].up THEN proc[p].gen ELSE Generation(dir)

\* The answer is cached for as long as the pointer file is the same file, by inode,
\* mtime and size; taken to be right: no replacement looks like what it replaced.
LiveGeneration(p) == Generation(dir)

Names(dirs) == {d.log[g] : d \in dirs, g \in 0..MaxGen}

\* An inode that no name and no process refers to.
Fresh ==
  LET used == Names({dir, disk}) \cup {proc[p].log : p \in Proc}
  IN CHOOSE i \in Ino : i \notin used

At(p, place) == op.by = p /\ op.at = place
Goto(place) == op' = [op EXCEPT !.at = place]

\* A fault: allowed by the instance, and counted.
Fault(kind) == kind \in Faults /\ faults < MaxFaults /\ faults' = faults + 1

-----------------------------------------------------------------------------
(***************************************************************************)
(* Catching up, by a running process or in a constructor.                  *)
(***************************************************************************)
\* An operation begins with the lock free, or goes on once a log has been created.
Enters(p) == op = Free \/ At(p, "entered")

Take(p, place) == op' = [by |-> p, at |-> place, new |-> None]

Reopens(p) == ~proc[p].up \/ proc[p].gen # LiveGeneration(p)

\* LogFile._create: the header goes to a temporary file, which is synced and renamed.
Create(p) ==
  /\ op = Free /\ Take(p, "created") /\ Reopens(p) /\ LiveLog(dir) = None
  /\ files' = [files EXCEPT ![Fresh] = Synced(<<FileHeader(Generation(dir))>>)]
  /\ dir' = [dir EXCEPT !.log[Generation(dir)] = Fresh]
  /\ UNCHANGED <<disk, unsynced, proc, tried, acked, faults>>

\* Slip: repair keeps the tail.
RepairedNot(file, scan) == file

\* A damaged tail is cut off.
Repaired(file, scan) ==
  IF scan.why = "NONE" THEN file ELSE Truncated(file, scan.end)

\* _replay of process p from a log: everything, or what follows the read position.
Replay(p, log, full) ==
  LET scan == Scan(files[log].cells, IF full THEN HeaderSize ELSE proc[p].pos, Chunk)
      file == Repaired(files[log], scan)
  IN [file |-> file, records |-> scan.records,
      proc |-> [up |-> TRUE, log |-> log, gen |-> files[log].cells[1].of.generation,
                pos |-> scan.end, end |-> Len(file.cells),
                idx |-> Replayed(IF full THEN NoJobs ELSE proc[p].idx, scan.records)]]

HasHeader(log) == log # None /\ files[log].cells[1] # Hole

CatchUp(p) ==
  LET log == IF Reopens(p) THEN LiveLog(dir) ELSE proc[p].log IN
  /\ Enters(p) /\ Take(p, "inside") /\ HasHeader(log)
  /\ \E r \in {Replay(p, log, Reopens(p))} :
       files' = [files EXCEPT ![log] = r.file] /\ proc' = [proc EXCEPT ![p] = r.proc]
  /\ UNCHANGED <<dir, disk, unsynced, tried, acked, faults>>

\* An exception among the records: some are applied, the read position is what it was,
\* in whatever log that is now.  Reading on from it is harmless in the same log.
CatchUpBreaks(p) ==
  LET log == IF Reopens(p) THEN LiveLog(dir) ELSE proc[p].log IN
  /\ Enters(p) /\ op' = Free /\ HasHeader(log) /\ proc[p].up
  /\ Fault(IF Reopens(p) THEN "reopen" ELSE "raise")
  /\ LET r == Replay(p, log, Reopens(p)) IN \E n \in 0..Len(r.records) :
       proc' = [proc EXCEPT ![p] =
                  [r.proc EXCEPT !.pos = proc[p].pos, !.end = Len(files[log].cells),
                                 !.idx = Replayed(IF Reopens(p) THEN NoJobs ELSE proc[p].idx,
                                                  SubSeq(r.records, 1, n))]]
  /\ UNCHANGED <<files, dir, disk, unsynced, tried, acked>>

\* The operation needs to write nothing, or nothing more.
Leave(p) ==
  /\ At(p, "inside") /\ op' = Free
  /\ UNCHANGED <<files, dir, disk, unsynced, proc, tried, acked, faults>>

-----------------------------------------------------------------------------
(***************************************************************************)
(* _commit: append, fsync, then the index.                                 *)
(***************************************************************************)
\* Job keys are numbered in the order of their first use.
Wanted(p) ==
  {Add(j) : j \in {k \in Job : {i \in Job : Add(i) \notin tried} = {i \in Job : i >= k}}} \cup
  {Done(j) : j \in {k \in Job : proc[p].idx[k] = "live"}}

\* Slip: the fsync is left out.
WriteUnsynced(p, record) ==
  LET file == Written(files[proc[p].log], proc[p].end, Encoded(record), Len(Encoded(record)))
  IN /\ files' = [files EXCEPT ![proc[p].log] = file]
     /\ proc' = [proc EXCEPT ![p].pos = Len(file.cells), ![p].end = Len(file.cells),
                             ![p].idx = Apply(@, record)]

Write(p, record) ==
  LET file == Written(files[proc[p].log], proc[p].end, Encoded(record), Len(Encoded(record)))
  IN /\ files' = [files EXCEPT ![proc[p].log] = Synced(file.cells)]
     /\ proc' = [proc EXCEPT ![p].pos = Len(file.cells), ![p].end = Len(file.cells),
                             ![p].idx = Apply(@, record)]

Commit(p) ==
  /\ At(p, "inside") /\ op' = Free
  /\ \E record \in Wanted(p) :
       Write(p, record) /\ tried' = tried \cup {record} /\ acked' = acked \cup {record}
  /\ UNCHANGED <<dir, disk, unsynced, faults>>

\* Any part of the write happens, then the process dies or sees an OSError.
CommitBreaks(p) ==
  /\ At(p, "inside") /\ op' = Free
  /\ \E record \in Wanted(p) : \E n \in 0..Len(Encoded(record)) :
       /\ files' = [files EXCEPT ![proc[p].log] = Written(@, proc[p].end, Encoded(record), n)]
       /\ tried' = tried \cup {record}
  /\ \/ Fault("kill") /\ proc' = [proc EXCEPT ![p] = Down]
     \/ Fault("raise") /\ UNCHANGED proc
  /\ UNCHANGED <<dir, disk, unsynced, acked>>

-----------------------------------------------------------------------------
(***************************************************************************)
(* compact, one system call at a time: the new log under a temporary name, *)
(* synced; its rename; the directory; the pointer, which is the commit     *)
(* point; the directory; then the process turns to the new log and the old *)
(* ones are swept.                                                         *)
(***************************************************************************)
Target(p) == proc[p].gen + 1

Snapshot(p) ==
  LET live == {j \in Job : proc[p].idx[j] = "live"} IN
  <<FileHeader(Target(p))>> \o FlattenSeq([i \in 1..Cardinality(live) |->
                                             Encoded(Add(SetToSeq(live)[i]))])

WriteNew(p) ==
  /\ At(p, "inside") /\ Target(p) <= MaxGen
  /\ files' = [files EXCEPT ![Fresh] = Synced(Snapshot(p))]
  /\ op' = [op EXCEPT !.at = "written", !.new = Fresh]
  /\ UNCHANGED <<dir, disk, unsynced, proc, tried, acked, faults>>

Place(p) ==
  /\ At(p, "written") /\ Goto("placed")
  /\ dir' = [dir EXCEPT !.log[Target(p)] = op.new]
  /\ UNCHANGED <<files, disk, unsynced, proc, tried, acked, faults>>

Flip(p) ==
  /\ At(p, "listed") /\ Goto("flipped")
  /\ dir' = [dir EXCEPT !.current = Target(p)]
  /\ UNCHANGED <<files, disk, unsynced, proc, tried, acked, faults>>

\* Slip: a rename is taken to be durable by itself.
SyncDirectoryNot(p) ==
  /\ op.by = p /\ UNCHANGED <<disk, unsynced>>
  /\ \/ op.at = "created" /\ Goto("entered")
     \/ op.at = "placed" /\ Goto("listed")
     \/ op.at = "flipped" /\ Goto("committed")
  /\ UNCHANGED <<files, dir, proc, tried, acked, faults>>

\* fsync_directory, after each of the renames: of all of them so far.  An OSError of it is
\* swallowed (everywhere, on a system that cannot sync a directory), and the operation goes on.
SyncDirectory(p) ==
  /\ op.by = p
  /\ \/ op.at = "created" /\ Goto("entered")
     \/ op.at = "placed" /\ Goto("listed")
     \/ op.at = "flipped" /\ Goto("committed")
  /\ \/ disk' = dir /\ unsynced' = FALSE /\ UNCHANGED faults
     \/ Fault("dirsync") /\ unsynced' = TRUE /\ UNCHANGED disk
  /\ UNCHANGED <<files, dir, proc, tried, acked>>

\* Slip: stale means up to the live one.
StaleUpTo(generation) == 0..generation

\* stale_logs: the generations before the live one.
Stale(generation) == {g \in 0..MaxGen : g < generation}

\* The process takes up its new log and unlinks the old ones; one that a peer has open
\* may stay (on Windows).
Switch(p) ==
  LET g == Target(p)  end == Len(files[op.new].cells) IN
  /\ At(p, "committed") /\ op' = Free
  /\ proc' = [proc EXCEPT ![p] =
                [@ EXCEPT !.log = op.new, !.gen = g, !.pos = end, !.end = end,
                          !.idx = [j \in Job |->
                                     IF proc[p].idx[j] = "live" THEN "live" ELSE "none"]]]
  /\ \E swept \in SUBSET Stale(g) :
       /\ \A h \in Stale(g) \ swept : \E q \in Proc \ {p} : proc[q].log = dir.log[h]
       /\ dir' = [dir EXCEPT !.log = [h \in 0..MaxGen |-> IF h \in swept THEN None ELSE @[h]]]
  /\ UNCHANGED <<files, disk, unsynced, tried, acked, faults>>

\* An OSError before the commit point: the target is unlinked, whoever left it there.
CompactBreaks(p) ==
  /\ op.by = p /\ op.at \in {"inside", "written", "listed"} /\ op' = Free
  /\ Target(p) <= MaxGen /\ Fault("raise")
  /\ dir' = [dir EXCEPT !.log[Target(p)] = None]
  /\ UNCHANGED <<files, disk, unsynced, proc, tried, acked>>

\* After it: the new log is not opened, and a LogFile that is not open has generation 0;
\* or the old one is not closed, or an interrupt comes next: the new log is installed, with
\* the index of the old one and perhaps its read position.
SwitchBreaks(p) ==
  /\ At(p, "committed") /\ op' = Free
  /\ \E opened \in BOOLEAN :
       /\ Fault(IF opened THEN "switch" ELSE "raise")
       /\ IF opened
          THEN LET end == Len(files[op.new].cells) IN
               \E pos \in {proc[p].pos, end} :
                 proc' = [proc EXCEPT ![p].log = op.new, ![p].gen = Target(p),
                                      ![p].pos = pos, ![p].end = end]
          ELSE proc' = [proc EXCEPT ![p].log = None, ![p].gen = 0]
  /\ UNCHANGED <<files, dir, disk, unsynced, tried, acked>>

-----------------------------------------------------------------------------
\* close, or a kill, between two operations.
Stop(p) ==
  /\ op = Free /\ proc[p].up /\ proc' = [proc EXCEPT ![p] = Down]
  /\ UNCHANGED <<files, dir, disk, unsynced, op, tried, acked, faults>>

\* A kill in the middle of one.  Between a rename that others see and the sync of its
\* directory it is a fault of its own: who comes next does not sync it.
Kill(p) ==
  /\ op.by = p /\ op' = Free /\ proc' = [proc EXCEPT ![p] = Down]
  /\ LET early == op.at \in {"created", "flipped"} IN
     /\ Fault(IF early THEN "killsync" ELSE "kill")
     /\ unsynced' = (unsynced \/ early)
  /\ UNCHANGED <<files, dir, disk, tried, acked>>

\* The power goes: each name is as it was last synced or as it was, the files keep what
\* was synced, the live one perhaps more.  While a sync of the directory is passed over it
\* is a fault of its own: acknowledged records may be in a log that no name leads to.
PowerCut ==
  /\ Fault(IF unsynced THEN "powersync" ELSE "power") /\ unsynced' = FALSE
  /\ op' = Free /\ proc' = [p \in Proc |-> Down]
  /\ \E current \in {disk.current, dir.current}, fresh \in SUBSET (0..MaxGen) :
     LET left == [log |-> [g \in 0..MaxGen |-> IF g \in fresh THEN dir.log[g] ELSE disk.log[g]],
                  current |-> current]
         kept == [i \in Ino |-> IF i \in Names({left})
                            THEN Synced(SubSeq(files[i].cells, 1, files[i].synced)) ELSE Empty]
     IN /\ dir' = left /\ disk' = left
        /\ \/ LiveLog(left) = None /\ files' = kept
           \/ /\ LiveLog(left) # None
              /\ \E file \in AfterPowerCut(files[LiveLog(left)]) :
                   files' = [kept EXCEPT ![LiveLog(left)] = file]
  /\ UNCHANGED <<tried, acked>>

Next ==
  \/ \E p \in Proc :
       \/ Create(p) \/ CatchUp(p) \/ CatchUpBreaks(p) \/ Leave(p)
       \/ Commit(p) \/ CommitBreaks(p)
       \/ WriteNew(p) \/ Place(p) \/ Flip(p) \/ SyncDirectory(p) \/ Switch(p)
       \/ CompactBreaks(p) \/ SwitchBreaks(p) \/ Stop(p) \/ Kill(p)
  \/ PowerCut

Spec == Init /\ [][Next]_vars

-----------------------------------------------------------------------------
Contents(d) ==
  IF HasHeader(LiveLog(d))
  THEN Replayed(NoJobs, Scan(files[LiveLog(d)].cells, HeaderSize, Chunk).records)
  ELSE NoJobs

TypeOK ==
  /\ \A i \in Ino : files[i].synced \in 0..Len(files[i].cells)
  /\ {dir, disk} \subseteq [log : [0..MaxGen -> Ino \cup {None}],
                            current : 1..MaxGen \cup {None}]
  /\ proc \in [Proc -> [up : BOOLEAN, log : Ino \cup {None}, gen : 0..MaxGen, pos : Nat,
                        end : Nat, idx : [Job -> {"none", "live", "done"}]]]
  /\ op \in [by : Proc \cup {None}, new : Ino \cup {None},
             at : {"free", "entered", "created", "inside", "written", "placed", "listed",
                   "flipped", "committed"}]
  /\ unsynced \in BOOLEAN
  /\ acked \subseteq tried /\ tried \subseteq {Add(j) : j \in Job} \cup {Done(j) : j \in Job}
  /\ faults \in 0..MaxFaults

\* What the pointer leads to holds everything anybody was promised: a job whose add was
\* acknowledged is there until somebody tries to finish it, one whose end was acknowledged
\* never comes back, and nothing is there that nobody wrote (append, _replay, compact;
\* "fsync before returning").  So through kills, failing writes and power cuts between any
\* two system calls, and syncs of the directory that fail, unless the power goes before the
\* next that succeeds (powersync), or a process fails between taking up a log and setting its
\* read position (reopen, switch): those break it.
PromisesKept ==
  Once(Contents(dir), LAMBDA jobs : \A j \in Job :
    /\ Add(j) \in acked /\ Done(j) \notin tried => jobs[j] = "live"
    /\ Done(j) \in acked => jobs[j] # "live"
    /\ jobs[j] # "none" => Add(j) \in tried)

\* An operation that has caught up works on the live log, up to its very end, and its
\* index is what that log says: however many compactions, repairs and failures of peers
\* it slept through (_catch_up, _live_generation); with the exceptions of PromisesKept.
WorksOnLiveLog ==
  \A p \in Proc : At(p, "inside") =>
    LET log == LiveLog(dir) IN
    /\ proc[p].log = log /\ proc[p].idx = Contents(dir)
    /\ {proc[p].pos, proc[p].end} = {Len(files[log].cells)}

\* What scan returns, for each of these sizes of its chunks: it starts with whole records, no
\* whole record follows, and no damage is reported exactly when nothing is left.
ScanIsExact ==
  HasHeader(LiveLog(dir)) => \A chunk \in Chunks :
    LET cells == files[LiveLog(dir)].cells
        next  == [r \in tried |-> Encoded(r)] IN
    Once(Scan(cells, HeaderSize, chunk), LAMBDA scan :
      /\ SubSeq(cells, 1, scan.end) =
           <<cells[1]>> \o FlattenSeq([n \in DOMAIN scan.records |-> Encoded(scan.records[n])])
      /\ (scan.why = "NONE") = (scan.end = Len(cells))
      /\ \A r \in tried : ~IsPrefix(next[r], SubSeq(cells, scan.end + 1, Len(cells))))
-----------------------------------------------------------------------------
(***************************************************************************)
(* The inductive invariant.                                                *)
(***************************************************************************)
Records == {Add(j) : j \in Job} \cup {Done(j) : j \in Job}

\* What a cell may hold: a file header at the start, then pieces of records, or nothing.
DataCell == {Hole} \cup UNION {ToSet(Encoded(r)) : r \in Records}
Cell == {FileHeader(g) : g \in 0..MaxGen} \cup DataCell

Recs(cells) == Scan(cells, HeaderSize, Chunk).records
Ends(cells) == Scan(cells, HeaderSize, Chunk).end

FilesTyped == files \in [Ino -> [cells : Seq(Cell), synced : Nat]]

\* A log of this generation.
IsLog(file, gen) ==
  /\ file.synced \in 1..Len(file.cells) /\ file.cells[1] = FileHeader(gen)
  /\ \A i \in 2..Len(file.cells) : file.cells[i] \in DataCell

\* A log that keeps the promises wherever beyond its synced part it is cut: what was
\* promised is in the synced part, what was finished comes back nowhere.
Keeps(file) ==
  LET all  == Recs(file.cells)
      safe == ToSet(Recs(SubSeq(file.cells, 1, file.synced)))
  IN /\ ToSet(all) \subseteq tried
     /\ \A j \in Job : Add(j) \in acked /\ Done(j) \notin tried => Add(j) \in safe
     /\ \A j \in Job : Done(j) \in acked => Done(j) \in safe \/ Add(j) \notin ToSet(all)
     /\ \A k, m \in DOMAIN all : k < m => all[m] # Add(all[k].job) \/ all[k] = all[m]

\* The directory a power cut may fall back to; after a sync that was passed over, the one
\* that everybody sees is taken for it.
Relied == IF unsynced THEN dir ELSE disk

KeptLog(ino, gen) == ino # None /\ IsLog(files[ino], gen) /\ Keeps(files[ino])

\* Before anything is promised there may be no log, or one that only the directory in
\* memory names, as its creator has yet to sync it.
Unborn ==
  /\ tried = {} /\ dir.current = None /\ Relied.current = None /\ Relied.log[0] = None
  /\ op.at = "created" \/ dir.log[0] = None

\* Somebody always sees a log once a sync was passed over; its creator, when it is created.
PassedOver ==
  /\ unsynced => LiveLog(dir) # None
  /\ op.at = "created" => LiveLog(dir) # None /\ ~unsynced

\* Whatever a power cut picks of the two directories leads to a log that keeps.
Anchored ==
  \/ Unborn
  \/ /\ op.at # "created"
     /\ \A d \in {dir, Relied} : dir.log[Generation(d)] = Relied.log[Generation(d)]

LogsKeep ==
  \A d \in {dir, Relied} : LiveLog(d) # None \/ ~Unborn => KeptLog(LiveLog(d), Generation(d))

DonesWereAdded == \A j \in Job : Done(j) \in tried => Add(j) \in tried

\* p works on the live log, all of which it has read.
Working(p) ==
  /\ proc[p].up /\ proc[p].gen = Generation(dir) /\ proc[p].log = LiveLog(dir)
  /\ proc[p].log # None /\ proc[p].idx = Contents(dir)
  /\ LET cells == files[LiveLog(dir)].cells
     IN {proc[p].pos, proc[p].end, Ends(cells)} = {Len(cells)}

\* The new log is complete and holds the jobs that live in p's index.
SnapshotMade(p) ==
  /\ Target(p) <= MaxGen /\ KeptLog(op.new, Target(p))
  /\ LET file == files[op.new] IN
     /\ {file.synced, Ends(file.cells)} = {Len(file.cells)}
     /\ ToSet(Recs(file.cells)) = {Add(j) : j \in {k \in Job : proc[p].idx[k] = "live"}}

\* How far the operation that has the lock has come.
OpInPlace ==
  /\ op.by = None <=> op.at = "free"
  /\ op.at = "free" => op = Free
  /\ op.at # "flipped" => dir.current = Relied.current
  /\ op.at \in {"inside", "written", "placed", "listed"} => Working(op.by)
  /\ op.at \in {"written", "placed", "listed", "flipped", "committed"} => SnapshotMade(op.by)
  /\ op.at \in {"placed", "listed", "flipped", "committed"} => dir.log[Target(op.by)] = op.new
  /\ op.at \in {"listed", "flipped", "committed"} => Relied.log[Target(op.by)] = op.new
  /\ op.at \in {"flipped", "committed"} => proc[op.by].up /\ dir.current = Target(op.by)

\* A process that will read on from where it is, does so in the live log, from the end
\* of a record, and knows of every job that no record to come is about.
ReadsOn(p) ==
  LET cells == files[LiveLog(dir)].cells  pos == proc[p].pos IN
  /\ proc[p].log = LiveLog(dir) /\ pos \in 1..Len(cells) /\ Ends(SubSeq(cells, 1, pos)) = pos
  /\ \A j \in Job : (\A r \in ToSet(Scan(cells, pos, Chunk).records) : r.job # j) =>
                      proc[p].idx[j] = Contents(dir)[j]

Caches ==
  \A p \in Proc : proc[p].up =>
    /\ proc[p].gen <= Generation(dir)
    /\ proc[p].gen = Generation(dir) => LiveLog(dir) # None /\ ReadsOn(p)

\* Whichever directory is read, it leads to a log that keeps the promises wherever it is cut,
\* the operation at work has left what it is to find, and who reads on does so in the live
\* log (append, _catch_up, compact); with the exceptions of PromisesKept.
IInv == /\ TypeOK /\ FilesTyped /\ IsFiniteSet(tried) /\ DonesWereAdded
        /\ PassedOver /\ Anchored /\ LogsKeep /\ OpInPlace /\ Caches
=============================================================================
