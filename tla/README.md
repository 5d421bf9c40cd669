# nobroker in TLA+

nobroker is a job queue without a server: processes that open the same
directory share one append-only log, and each keeps in memory an index of what
it has read. This project models that core: the bytes of the log and its failures,
the files and the two locks, the index, every public operation of a queue, the
contract it gives to the holders of jobs, and the worker that lives by it. TLC
checks the models on small instances; TLAPS proves the invariants of the queue and its
index, of its files, of the contract, of the locks and of the worker, and that the queue
implements the contract, for every instance.

Paths below are relative to `src/src/nobroker/` unless they say otherwise.

## 1. The system

| Part | State | Operations | Interacts with |
|---|---|---|---|
| `index.py`, `job.py` | jobs by id, `seq`, three heaps (`_ready`, `_scheduled`, `_leases`), a count of orphan records | `apply` (nine record types), `promote`, `next_ready`, `restore`, `expired_leases`, `live_jobs`, `retain` | called by `Queue` only; pure, no I/O, no clock |
| `queue.py` | an `Index`, a `LogFile`, `_read_pos`, the cached pointer, `_closed` | `enqueue(_many)`, `lease`, `ack`, `nack`, `extend`, `requeue_dead`, `purge`, reads, `compact`, `close` | every operation: file lock, catch up with the log, reap, append, apply |
| `logfile.py` | the file's descriptor, `_end`, generation; the pointer file | `open`, `append`, `scan`, `truncate`, `write_generation` | the disk; peers write to the same file |
| `codec.py` | none | framing, checksum | `logfile.py` |
| `lock.py` | descriptor, held flag | `acquire` (polling with a time-out), `release` | the kernel's file lock, dropped on death |
| `backoff.py` | none | `delay_for` | nack and the reaper |
| `worker.py` | threads, stop event, in-flight table, counters | poll loop, run one job, heartbeat, stop | `lease_one`, `ack`, `nack`, `extend` from several threads |
| `cli.py`, `bench.py`, examples, tools, web | none of their own | | the public operations |

What is hard here, and what the properties are about:

- **failures inside an operation.** A write may stop anywhere, raise in a process
  that goes on living, or be cut by the death of the process; the machine may
  lose what was not fsynced. The order "disk first, memory second" has to leave
  cache and log in agreement each time.
- **peers.** Between two operations of a process others append, reap its leases,
  purge, or compact the log away under it.
- **stale holders.** A handler may outlive its lease, and its job may meanwhile
  be delivered to another, completed, buried, revived, purged or created again.
- **lazy deletion.** Heaps hold entries of states long gone; one entry too few
  makes a job invisible, one too many hands it out twice.
- **time.** Delays, deadlines, calls that come exactly at a deadline, and a clock
  that is set back.
- **files.** A log is made of system calls, not of records: a scan in chunks, a
  rename that is seen before it is durable, a pointer that moves under a reader.
- **locks.** Two of them, a thread's and the kernel's; the second belongs to an open
  file description, which outlives a `close` by a waiting thread, an interrupt, or a
  parent that forked.
- **threads of a worker.** Handlers, heartbeats and shutdown run side by side, over
  a queue that peers use too.

`PROJECT.json` lists each hazard at its line with the properties that cover it,
and those that are left for later with the reason.

## 2. The modules

```
Index            pure: an index and the operators on it        index.py, job.py
  Queue          processes, log, clock, faults                 queue.py, logfile.py, backoff.py
    QueueProperties
      QueueRefinement   Queue implements Delivery              (history variable)
        MCRefinement    instances
      MCQueue           instances
      RefinementProofs  the theorem that Queue implements Delivery, over
        LeasingProofs   theorems on the heaps and on deliveries, over
          QueueProofs   theorems on log, processes and replies, and on the operators of Index
            Induction   over numbers and finite sets
Delivery         what a queue promises to holders of jobs      the contract of queue.py
  DeliveryProofs theorems
  MCDelivery     instance
  Worker         threads and heartbeat over Delivery's jobs    worker.py
    WorkerProofs theorems
    MCWorker     instance
LogFile          pure: framing, scan, writes of one file       codec.py, logfile.py
  Storage        generations, pointer, followers, faults       logfile.py, queue.py
    StorageProofs theorems
    MCStorage    instances
Lock             thread lock and file lock                     lock.py, queue.py
  LockProofs     theorems
  MCLock         instances
```

The layers fit as follows. `Lock` shows that operations exclude each other, which
`Queue` and `Storage` take for granted. `Storage` shows that what is acknowledged is
in the file the pointer leads to, through every crash between two system calls;
`Queue` takes a write for one step with the outcomes listed below, and follows what
the records mean. `QueueRefinement` shows that its deliveries are those of
`Delivery`, and `Worker` runs on jobs that move as `Delivery` has them.

**Index.** An index is a record `[jobs, seq, orphans, ready, scheduled, leases]`
and each method is an operator from index to index. Payload, error text and
enqueue time are left out, no decision reads them. A heap is the set of its
entries: what is popped is defined by the order of entries alone, and equal
entries are never pushed (each push follows a version bump, a new `seq`, or the
pop of that very entry). Where the code's order depends on more than is modelled (two
leases that lapse with the same deadline and version are compared by id), or a sequence
is asked for, the operator is the set of the sequences there may be.

**Queue.** `log` is the live log: generation, records, whether a torn record
follows them, and how many are fsynced. `proc[p]` is what a process holds:
generation, read position and index. Since the file lock excludes every other
process from start to end, an operation is one action. `Transaction` is the
prologue common to all, `_transaction`: catch up (or replay the new generation),
repair a torn tail, reap, then the body on that session. Every write,
the reap's included, goes through `Commit` or `Interrupted`, whose outcomes are:

| outcome | what is left |
|---|---|
| `Returns` | all records written and (with `Fsync`) synced, applied, position moved |
| kill | any prefix of the batch in the file, perhaps a torn record after it; the process is down |
| raise | the same on disk; the process keeps its index with all that was popped from its heaps, its position before the write |

`AbortedLease` is an exception inside the loop of `lease`; `Compact` may fail on
either side of the pointer flip. `PowerLoss` takes any number of unsynced records
and every process down; `Stop` is a clean or violent end between operations;
`ClockBack` sets the clock back. Tokens are numbered in the order they are drawn.

`Jobs` (what a fresh process would see) and `History` (all records ever persisted
and not lost, without the snapshots compaction writes) are what properties speak
of. `past` and `told` are ghosts: records retired by compactions, and the replies
callers got. `Watched` says which replies an instance records.

**Delivery.** Jobs with a state, attempts, limit, availability, deadline and token,
and a set `grants` of intervals: the time during which the holder of a token could
rely on having a job to itself. A step reaps any of the lapsed jobs, then moves any
of the jobs; nobody can act on a lapsed lease. The type `Grant` and the promises
`Exclusive`, `AttemptsBounded`, `LapsedStaysLapsed` are stated there.

**QueueRefinement.** `view` is a history variable that holds the refinement
mapping: the jobs of the log, and one grant per LEASE record of the history, from
the time it was written to its last deadline, or to the moment its job was taken
from the holder by something other than a reap. `ImplementsDelivery == D!Spec`. `Tokens`
are the numbers that tokens may have and `Deadlines` (of `Delivery`) those that deadlines may:
both are sets TLC can enumerate in the runs, and all there are in the theorem.

**Worker.** `pc[t]` is where a handler thread is in `_loop` and `_run_one`: check (the
stop event and the cap), lease, got, running, ended; dead when an exception that
nothing catches ended it. `running` lasts until the outcome is in the log or given up:
the wait of ack or nack for the lock is a part of it, and the job is in flight all
along. `held[t]` is the job a thread was handed, and the in-flight table is what the
threads in `running` hold. `beat` is the heartbeat thread with the jobs its present beat
has still to extend, `main` is `run`. Each call of the queue is one step: `Sweeps` are
the outcomes of the reap with which it begins, then it changes one job or nothing. Faults
are `busy` (any `NobrokerError`, as from a lock that times out), `oserror` (from the log)
and `exit` (a handler that raises what is no `Exception`). A call that fails changes
nothing here; what a failed write may leave in the log is the subject of `Queue`. The poll
interval and the idle time-out are choices, not durations.

The heartbeat takes time. It waits `Interval`, then extends the jobs in flight one by one,
and each of these calls may wait for the lock, so that a beat lasts up to `BeatTime` before
it succeeds or gives up; only then does it wait again (`_heartbeat_loop`). `TimePasses` lets
the clock run within a beat that has calls to make, up to that moment. In the code
`BeatTime` is `lock_timeout` for each job in flight, ten seconds by default.

**Lock.** `owner` is the open file description that has the kernel's lock, `fd[p]`
the description behind a process's `FileLock._fd`, `held[p]` its flag, `tlock[p]` the
queue's `RLock`, `life[p]` and `logOpen[p]` the state of the `Queue` object. An
operation is `Call` (which reads `_closed`), `TakeThreadLock`, `StartAcquire`,
`TryLock` or `GiveUp`, `Work`, `Release`, `Leave`; a constructor skips the thread
lock. `Close` waits for the thread lock only, so an operation may be waiting behind
it and go on afterwards: it opens the lock file anew, and fails or reopens the log.
`Kill` closes the descriptors, `Fork` duplicates one: the child keeps it and does
other things (`keep`), or goes on with the Queue it was born with (`use`).
`Interrupted` is an exception raised inside `acquire` once the lock is taken.

**LogFile.** A cell is a stretch of bytes that is written whole or not at all: one for
the file header, two for a record's header, some for its payload. A cell says what it
is part of, which stands for the checksum. `Decode`, `Decodable` and `Scan` follow
`decode_record` and the two loops of `scan`, with the chunk as a parameter; `Written`,
`Truncated` and `AfterPowerCut` are what happens to a file with a synced prefix.

**Storage.** `files` are inodes, `dir` the names as processes see them, `disk` as they
were last synced. An operation `op` goes through `CatchUp` (with repair), then `Commit`,
or a compaction: `WriteNew`, `Place`, `SyncDirectory`, `Flip`, `SyncDirectory`,
`Switch`. A kill, an `OSError` or a power cut may come between any two. `proc[p]`
is what a process believes: its open log, generation, `_read_pos`, `_end` and index. Records
are cut down to two, a job is added and later done, and `tried` and `acked` say what
was begun and what a caller was told. The faults are

| fault | what happens |
|---|---|
| `kill` | the process dies, in the middle of a write or between two system calls |
| `killsync` | it dies between a rename and the sync of the directory |
| `raise` | an error in a process that goes on: in a write, in reading on in its log, in a compaction before the commit point, or from opening the new log after it |
| `dirsync` | `fsync_directory` fails, which it keeps to itself (`logfile.py:454`), and the operation goes on; on Windows it does so always, as documented there |
| `power` | a power cut while every rename has been synced since |
| `powersync` | a power cut after `killsync` or `dirsync`, before a sync that succeeds (the ghost `unsynced`) |
| `reopen` | an error in a full replay, once the new log is taken up (`queue.py:239`) |
| `switch` | an error of `old.close()` or an interrupt in `compact` (`queue.py:672`), once the new log is installed: its index is the old one's, and perhaps its read position |

The last three break what the files promise, as the code is; runs and theorems about
promises leave them out by name, and the findings below say what happens with them.

Definitions whose comment begins with "Slip:" are wrong variants of the definition
after them, a plausible error each. No specification uses them. `PROJECT.json`
names, for each property of each passing run, a slip with which TLC finds that
property violated.

## 3. The runs

`CHECK_DEADLOCK FALSE` stands in the Queue runs because `MaxEvents` stops the
instance: with no record left to write and a lapsed lease to reap, no operation can
go on. A real queue just waits for its callers. MCDelivery checks deadlock.

| Run | What it asks | Instance |
|---|---|---|
| `order` | `TypeOK`; each READY job is on exactly one waiting heap, once (`ReadyCovered`); each lease takes the best job there is (`LeasesBestFirst`) | 1 process, 3 jobs with 2 priorities and a delay, leases of 1 or 2, nacks, renewals, revivals, purges, aborted leases, one clock step back, 5 records |
| `peers` | the inductive invariant `IInv` and its parts: caches agree with the log (`CacheOfLog`), nothing acknowledged is lost (`NothingLost`), the log bears out every reply wherever it is cut (`RepliesKept`), nothing completed comes back (`CompletedStaysCompleted`), `SeqUnique` | 2 processes that stop and come back, 2 jobs alone or in a batch, one compaction, one fault of any kind, 5 records |
| `contract` | `AckFenced`, `ImplementsDelivery`; no process reads on after losing the thread of the log (`NoOrphans`), leases can always time out (`LeaseCovered`), attempts are counted through revivals and compactions (`DeliveriesBounded`) | 2 processes, 1 job of one or two attempts, every handle it ever had and the bare id; all operations, reads, stops; 5 records |
| `progress` | `Settles`: every job comes to rest; `DeliveriesBounded` and `LeaseCovered` with a kill inside a write | 2 processes that poll and die, one compaction; no acks |
| `delivery` | `IInv`, `Exclusive`, `AttemptsBounded`, `LapsedStaysLapsed` of the contract | 2 jobs, 3 tokens, time to 3 |
| `worker` | the inductive invariant `IInv`; a running handler keeps its lease (`LeaseKept`), `CapBound`, nothing is left leased after shutdown (`NothingAbandoned`), every job counted by its outcome (`Accounted`), peers' jobs are left alone (`Fenced`), every step is one of the contract's (`CallsAreDelivery`), `run` returns (`Returns`) | 2 threads, a heartbeat, peers, 1 job of three attempts, time-out 6, interval 1, beats of up to 1, a cap of 1, one fault of any kind, time to 6 |
| `lock` | `MutualExclusion`, its inductive invariant `IInv`, `NeverLeftBehind`, `CallsEnd` | 2 processes with 2 and 1 threads, 3 descriptions, 6 calls, deaths, closes, an interrupt, a child that keeps a descriptor |
| `storage` | what was acknowledged is where the pointer leads (`PromisesKept`), who works works on the live log and knows it (`WorksOnLiveLog`), scans are exact whatever the chunk (`ScanIsExact`); the inductive invariant `IInv` | 2 processes, 2 jobs, one compaction, two faults of kinds kill, killsync, raise, dirsync, power |

The bounds are those at which the interesting cases happen. Two processes suffice
for any disagreement between a writer and a reader, since a third is to each of
them another writer or reader. Five or six records hold enqueue, lease, reap,
second lease and a completion, with a compaction (which writes none of them) in
any place. Two jobs suffice where jobs
meet (heaps, batches, `seq`), three where an order is decided; one where only one
job's life is at stake. `SYMMETRY` over processes is used where invariants or
`ImplementsDelivery` are checked and they are interchangeable, and not in
`progress`. In `worker` the time-out is the least that meets `BeatsSuffice`: a job leased just
after a beat began waits for its end (1), for the next (2), and for one more since the
fault may spoil that (2), and is still leased then. The code's interval is a third of
the time-out, for which no such instance exists if a beat may take as long as the interval; see
the findings. Time to 6 is a whole time-out, and a cap of 1 is overshot by the second
thread. Two faults in `storage`
are a first one that leaves something behind and a second one that meets it (a torn
write, then a power cut during its repair). Three descriptions in `lock` are
one for each process and one that a dead or closed process left with a child. The clock moves when somebody waits for it, a delay or a lease; in
`order` it moves freely. In `progress` the bounds on time and records are never
reached: they are the most that one job of two attempts, a compaction
and one kill can use.

**Fairness.** `FairSpec` of `Queue` (run `progress`): weak fairness of the clock, of
starting a process that is down, and of `Poll`, the `lease_one` call that
`Worker._loop` repeats until it is stopped. Nothing is assumed of acks, nacks or
of the death of processes: jobs settle because attempts are counted and leases
lapse. Weak fairness is enough since a process that is up can poll at any time.
`Worker`: weak fairness of each handler thread (the scheduler runs it, its handler ends)
and of `run`; none of the heartbeat, which `run` does not wait for, of peers, `stop` or
time. `Lock`: weak fairness of
each thread's next step; nobody need call, die, fork or end. A thread that polls
proceeds either way, it gets the lock or gives up at its deadline, so `CallsEnd` says that a
call ends, not that it succeeds: the code gives no promise of that under contention. For
the thread lock there is no deadline; that a thread gets it follows here from the calls
being finitely many (`MaxCalls`), and in the code from nothing but the fairness of `RLock`.

**Findings.** Four runs show where the code does other than its own text says; each
checks the one property that states the text.

| Run | What happens |
|---|---|
| `lease_write_fails` | the write at the end of `lease` raises: the popped jobs are on no heap of that process, the restore loop does not cover it. It recovers when it replays in full (restart, or a peer's compaction); peers are not affected |
| `forked` | a forked child that uses its parent's `Queue` shares the open file description, for which the kernel's lock is no obstacle: both are at work at once |
| `interrupted_replay` | an exception (an `OSError` of a read, a `KeyboardInterrupt`, a record that cannot be applied) during the replay of a new generation leaves `_read_pos` as it was in the old one. The next operation finds the generation unchanged, scans from there, perhaps inside a record, and truncates what follows as damage. `compact` has the same hole at `queue.py:672`: if `old.close()` raises, or an interrupt comes before the next line, the new log and generation are installed with the old read position (fault `switch`) |
| `record_raises` | an `OSError` of the log (a full disk) while the outcome is recorded is no `NobrokerError`: it passes through `_run_one`, which "never raises" (`worker.py:150`), and ends the thread; in `extend` it ends the heartbeat |

More disagreements of the kind are in the models, or were met while modelling, and
have no run of their own:

- the write of a reap that raises leaves the lapsed leases off this process's lease heap
  (`queue.py:309`): `LeaseCovered` fails once `raise` is among the faults;
- an exception between `next_ready` and `taken.append` loses the job just popped
  (fault `interrupt`, `ReadyCovered`);
- a key given twice in one `enqueue_many` call is enqueued twice (`queue.py:372`);
- compaction forgets the keys of completed jobs, so that a retried enqueue schedules
  the work again;
- a stale `ack` returns normally once somebody else completed the job
  (`queue.py:462`; `src/README.md:215` has it rejected), and finds no job at all if that
  was compacted away, though nobody purged (`worker.py:185`);
- a batch cut by a crash keeps its first records (`queue.py:361` has it discarded whole);
- an enqueue that finds its key returns without an fsync;
- the heartbeat's margin of "two missed beats" (`worker.py:225`) is one at best: a job leased
  just after a beat has two beats before its lease lapses. And a beat may wait for the lock:
  with the defaults, a time-out of 30 s and a `lock_timeout` of 10 s, a job leased just
  after the beat at 0 has its first beat at 10; if that waits until 20 for the lock and
  gives up, the next begins at 30, when the lease has run out. One busy beat suffices. With `Interval` a third of `Timeout` and `BeatTime` as much, `LeaseKept` fails in
  `Worker`; it holds where `BeatsSuffice`;
- an interrupt inside `acquire` leaves the process with the lock: every later call raises
  `RuntimeError`, or succeeds as if nothing had been (`Interrupted`);
- a process killed between the rename of the pointer and the sync of its directory, or
  whose sync failed without anybody being told, leaves a pointer that peers follow and a
  power cut may take back, with what they wrote (fault `powersync` of `Storage`).

## 4. The proofs

Each section names a module of theorems, what it assumes and how it argues. Whatever
a theorem needs beyond the type of the constants is a hypothesis in its statement.

### The queue and its index

`QueueProofs` proves, for any processes, keys, calls, timeouts, back-off parameters and
bounds, with and without fsync, and with every fault of the model (a write cut short in
a process that dies or lives on, an aborted lease, a power cut, a clock set back), from
the types of the constants (`BackoffAssumption`, `InputAssumption`, `BoundsAssumption`,
`NoneAssumption`):

| Theorem | |
|---|---|
| `QueueInvariant` | `Spec => []IInv` |
| `QueueTyped` | `Spec => []TypeOK` |
| `IndexIsReplay` | `Spec => []CacheOfLog` |
| `NothingOrphaned` | `Spec => []NoOrphans` |
| `SeqsDistinct` | `Spec => []SeqUnique` |

`CacheOfLog` is not inductive: after a crash or a power cut the log is a prefix of what
it was, and nothing in `CacheOfLog` says that a prefix makes sense. `SoundLog` does:
read up to any record, the log has no orphan, no two jobs with one `seq`, and no `seq` it
does not count. `IInv == TypeOK /\ SoundLog /\ CacheOfLog /\ NoOrphans`.

The argument has three layers. The first says of each operator of `Index` what it
does to jobs, counters and heaps; its main lemma, `ReplayMirrors`, says that two indexes
that agree on the jobs and perhaps not on versions agree after any further records. It
is what makes the indexes of a process that wrote, of one that read and of one that
compacted the same. `Fits` are the records that may follow (fresh numbers for new jobs,
known jobs for the others) and `BatchSound` takes a sound log through any prefix of a
batch that fits. Then come the pieces of an operation: `CaughtUpFacts`, `ReapFacts`,
`CommittedFacts` and `StepKeeps` follow a session through its prologue and every
outcome of its writes, and one lemma per action shows that the records it writes fit.
`CompactedFacts` shows that a snapshot replays to the very jobs that were kept.

`Replay` and `Taken` are recursive functions; `ReplayPreserves` and `ReplayRelates` do
the inductions over them once, for a set (or a relation) in place of a predicate, since
a lemma with an operator parameter cannot be cited. The statements of `Induction` are
for sets for the same reason.

### What callers were told

The second part of `QueueProofs` proves, with the one hypothesis `Durable`
(`Fsync \/ "power" \notin Faults`: a queue told not to sync promises nothing to a power
cut):

| Theorem | |
|---|---|
| `RepliesBorneOut` | `Spec => []RepliesKept` |
| `CreatedIsKept` | `Spec => []NothingLost` |
| `CompletedIsKept` | `Spec => []CompletedStaysCompleted` |
| `AcksAreFenced` | `Spec => []AckFenced` |

The last three relate replies to the whole history, and none is inductive, for two
reasons. A power cut may shorten the history, so `RepliesKept` speaks of every cut the log
may yet suffer (`Cuts`: what is synced is never taken, and a reply is given after the
sync). And a history says nothing of the record to come. `Known`, `Finished` and
`LeasesRecorded` therefore tie it to the jobs: a job created and not heard of since is one
the log has, not done; one that is done stays so until it is purged or created; and
the lease a job is held on is the last the history says of it, renewals apart, which is
why an ack with the job's token is that holder's.

`BearsOutMore` carries all of this over one record, `Rightful` over a batch: every batch
an operation writes is of purges, or of new jobs, or names jobs that are known and not done,
an ACK on its own. `AppendKept` does so for any prefix of the batch that an interrupted write
leaves; `Earned` says what a reply may promise, and each operation's lemma shows it
earns its own. `GrownLog`, `FlippedLog` and `LostLog` say once what a write, a compaction
and a power cut make of history and reading. `FlipKept` is the compaction: the history grows by what the old log held, the jobs lose
those that are done, and `RetainedBearsOut` shows the replies bear that.

### Heaps and deliveries

`LeasingProofs` proves five more, each under the hypotheses it names:

| Theorem | | Hypotheses |
|---|---|---|
| `LeasesTimeOut` | `Spec => []LeaseCovered` | `"raise" \notin Faults` |
| `HeapsStayInOrder` | `Spec => []HeapsInOrder` | `DistinctKeys` |
| `WaitingJobsFound` | `Spec => []ReadyCovered` | `DistinctKeys`, `Gentle` |
| `BestLeasedFirst` | `Spec => []LeasesBestFirst` | `DistinctKeys`, `Gentle` |
| `DeliveriesStayBounded` | `Spec => []DeliveriesBounded` | `DistinctKeys`, `LimitsPositive` |

`DistinctKeys` is that no `enqueue_many` call names a key twice, `Gentle` that no write
raises under a process that goes on and no signal arrives between `next_ready` and
`taken.append`, `LimitsPositive` that no call sets `max_attempts` to 0. Each is there
because the code needs it: a repeated key is written twice and may be leased twice at
once; a write that raises leaves what was popped on no heap (run `lease_write_fails`); and
`max_attempts` is not validated, so that a job with limit 0 is leased once all the same.
Kills, aborted leases, power cuts and clocks set back are allowed to all five.

Every operation has one shape, which `Operates` states once: the prologue, then either a
reply, or one batch from a prepared session (`Proper`), or what lease took given back
(`GivesBack`), or a compaction, each with its failures. `StepIs` reduces the next-state
relation to that, `Open`, `Stop`, `PowerLoss` and steps that leave log and processes alone.

For `LeasesTimeOut` the set `Untimed`, of leased jobs without an entry, is followed: no record
adds to it (`ApplyTimes`), and a reap names whoever loses an entry
(`LapsedTimes`, `BegunTimes`).

`ReadyCovered` is not inductive: it does not say that an entry which looks present is right.
`Tidy` does: an entry's version is one its job has had, an entry of the job's present
version says of it what the job says, and no job has one on both heaps; `Unseen` are the
waiting jobs on neither. `ApplyTidy` and `ApplyShows` follow them through one record, for
which a job must not be created over an existing one: `News` says so of the log.
`InHand` is the invariant of lease's loop (the jobs in hand are distinct and out of sight),
`RestoreTidy` that of giving back, `RetainTidy` and `CompactedNews` do compaction. `Tidy`
survives a write that raises too, which is `HeapsStayInOrder`.

`LeasesBestFirst` compares a job with all others at the moment of its LEASE record, and speaks
of a history that nobody keeps whole. Three things are joined. `NextReadyBest`: what `next_ready`
takes, after `promote`, goes before every job that is left and due, since no due job is out of
sight (`Unseen`) and no entry misleads (`Tidy`); `InTurn` carries that through the loop of lease.
`InFront`: so each LEASE of a batch is `Foremost` when it is written, the earlier ones
applied (`HandsInFront`, with `BatchLeased` for what those change). And `Tally`: a replay of the
whole history knows the jobs of the log as they are, and besides them only jobs that
are done, which are never READY; so what is first for the writer is first in the
history. `BestKept` says it of every point at which the log may be cut, as `LimitsKept` does.

`DeliveriesBounded` counts records of the history, and nothing in it bounds the next LEASE.
`Limited` ties the count to the job: its attempts are at least the leases since the record
that last created or revived it, at most its limit, less than that while it is READY,
and its limit is the one it was created with. `Lawful` are the records that keep this, `Lawfully` the batches: a lease
takes distinct READY jobs (from `InHand`), a reap or a nack sends back only jobs with an
attempt left. `LimitsKept` says it of every point at which a power loss may cut the log,
so it needs neither fsync nor a clean end.

### The queue keeps the contract

`RefinementProofs` proves that every behaviour of `Queue`, seen through `view`, is one of
`Delivery`, for any processes, keys, calls, timeouts, back-off and bounds:

| Theorem | | Hypotheses |
|---|---|---|
| `QueueDelivers` | `RSpec => ImplementsDelivery` | `DistinctKeys`, `LimitsPositive`, `Tokens = Nat \ {0}`, `Steadfast` |

`Tokens` are unbounded since nothing bounds the tokens a queue draws. `Steadfast` is that
there is no power loss, no clock set back and no write that raises under a process that goes on;
kills in the middle of any write, aborted leases, exceptions in lease's loop and processes that stop
are allowed. Each exclusion is one the promise needs. A power loss takes back what was not
synced: without fsync a lease that somebody holds, and with it at least the prefix that a
killed process left, reaps and nacks among it. When the clock is set back, a job that was
reaped may be leased anew at a time at which, by the clock, its former lease still runs
(`src/README.md`, "Clock-dependent"). And a reap whose write raises has
popped the lease heap (`queue.py:309`), so that this process lets a holder renew or complete a
lease that has run out. A limit of 0 is delivered once, and a key twice in one call is
leased twice.

The states that can be reached are narrowed by `RInv`: `IInv`, `HeapsInOrder`, `LeaseCovered`, and three
more conjuncts. `Ledger` accounts for each LEASE record of the history: its token is its own
and among those drawn; if its job still has that token the lease has not ended and runs to the
job's deadline, otherwise some later record ended it; and a leased job has such a record. `TimersTrue` is that an
entry of the lease heap which looks present has the job's deadline; with `LeaseCovered`, which
says that none is missing, a reap takes exactly the leases that have lapsed. The last
conjunct is that `view` is what it should be, `Picture`.

A step of `Delivery` reaps, then moves jobs, and so does one of `Queue`: `Sweeping` is what the records of a reap
do to jobs and grants (`ReapPart`), `Working` what the operation's own batch does
(`WorkPart`), and `ContractStep` joins the two. Each is an induction over the records
of a batch. `LedgerMore`, `GrantMore` and `GrantNew` take ledger and grants over one record: a record ends or
renews the last lease of its job and no other. `JobMore` and `SeenMore` do the jobs, and `HeldMoves`,
`ReviveMoves`, `LeaseMoves`, `CreateMoves` and `PurgeMoves` find the move of `Delivery` for each
type of record. A kill leaves a prefix of the batch, which is why all is said of prefixes
(`Proceeds`). `BegunRunning` says that after the reap nothing leased has lapsed: what
an ack, nack or extension then touches is a grant that is still on. Compaction drops
only jobs that are done and leaves history alone (`CompactedSame`, `CompactPart`); a process that only reaps, or
finds nothing to do, makes the first half of a step.

That grants of a queue never overlap, that its deliveries are bounded, and that a lapsed one is
never lengthened follows from this and the theorems of the next section, since `Delivery`'s
constants may be any that meet `ConstantsAssumption`; the instance of those theorems at `Queue`'s
view is not a theorem of its own, because the prover cannot cite a theorem through `INSTANCE`.

### The contract

`DeliveryProofs` proves, for any sets of jobs and tokens, any delays and timeouts
that are natural numbers and any limits that are positive ones
(`ConstantsAssumption`):

| Theorem | |
|---|---|
| `Invariance` | `Spec => []IInv` |
| `Typed` | `Spec => []TypeOK` |
| `ExclusiveGrants` | `Spec => []Exclusive`: two grants of one job never overlap |
| `LapsedGrantsStay` | `Spec => LapsedStaysLapsed`: a grant that has run out is never lengthened |
| `BoundedDeliveries` | `Spec => []AttemptsBounded` |

`Exclusive` is not inductive: it says nothing of the grant to come. What makes the
next grant safe is that a job without a token has only grants that are over, and
that is `GrantsEnd`: a grant whose token is its job's runs to the job's deadline,
every other one has ended by now. That in turn needs tokens to be unique, held jobs
to be exactly those with a token, and starts to lie in the past; and when the
current holder's grant is cut short or extended, `HolderIsLatest` keeps the former
ones out of it. `IInv` is the conjunction, and run `delivery` checks it too.

The proof follows a step through its two halves. `SweptFacts` and `MovedFacts` say
what reaping and moving do to one job's token and deadline, `JobStep` joins them,
`GrantStep` turns that into what happens to one grant, and `StepInv` has one step
per conjunct with the cases "renewed" and "new" for each grant. `AttemptsBounded`
has an invariant of its own, `WithinLimit` for each job: a revival sets attempts to
0, which is below the limit only because a limit is positive once a job exists.

### The files

`StorageProofs` proves, for any processes, jobs, sizes of bodies and chunks, and any number
of generations and faults:

| Theorem | |
|---|---|
| `StorageInvariant` | `Covered => (Spec => []IInv)` |
| `StorageTypes` | `Covered => (Spec => []TypeOK)` |
| `PromisesAreKept` | `Covered => (Spec => []PromisesKept)` |
| `OperationsWorkOnLiveLog` | `Covered => (Spec => []WorksOnLiveLog)` |
| `ScansAreExact` | `Covered => (Spec => []ScanIsExact)` |

`Covered` is that none of the three faults happens that break the promise: an error between
taking up a log and setting the read position, in a full replay (`reopen`, run
`interrupted_replay`) or in a compaction (`switch`), and a power cut after a sync of the
directory was passed over, by a kill or an error, before the next that succeeds
(`powersync`). Kills, also between a rename and its sync, errors, syncs of the directory
that fail, and other power cuts may come between any two system calls. `Chunks`, the sizes for
which `ScanIsExact` speaks, is any set of positive numbers. `InodesSuffice` says that a new
file gets an inode that nothing refers to: not the two directories, not an open
descriptor, not the file a compaction is making. `StorageAssumption` types the constants
and has a file header differ from a hole.

`PromisesKept` speaks of the log that processes see, and a power cut replaces it: by what the
directory on the disk names, with any part of what was not synced gone. `IInv` therefore
says it of both directories, and of every cut. While a sync is passed over, what is on the disk
is not relied on (`Relied`): the next one that succeeds makes it good, for all the names:

- `LogsKeep`: the log that either directory leads to keeps what was promised within its synced
  part (`Keeps`), so that no cut, hole or repair beyond it can break anything; and its
  records are in an order that cannot bring a finished job back;
- `Anchored`: the two directories agree on the log of each one's generation, but for a first
  log that its creator has yet to sync, before which nothing was promised (`Unborn`);
- `OpInPlace`: how far a compaction has come, what its new log holds by then
  (`SnapshotMade`) and which of the two directories has its name; that the operation that
  writes is at the end of the live log (`Working`);
- `Caches`: a process whose generation is the pointer's reads on in the live log, at the end of a record,
  and knows all that earlier records say (`ReadsOn`). One that is behind replays in full.

The first third of the module is about cells. `Decodable` and `Scan` recurse over offsets,
and `RecursionExists` gives such functions their equations from a rank that falls with each
call. `Laid` is a run of whole records in the cells, and the lemma `ScanFacts` that a scan
with any chunk returns the longest one from where it starts. Given that, `Longer`
and `Tells` (the last record about a job decides) compare what a log says before and after a
write, a cut or a snapshot. Then `KeptWritten`, `KeptRepaired`, `KeptThroughPowerCut` and `KeptCompacted` take
a log that keeps the promises through an interrupted write, a repair, a power cut and a compaction,
and one lemma per action (`CreateKeeps` to `PowerCutKeeps`) does the two directories and the caches.

### The locks

`LockProofs` proves, for any processes, threads, descriptions and calls, with deaths,
closes, interrupts and forked children that keep descriptors, and from the one
assumption `Forks # "use"` that no child uses the queue it was born with (where one
does, run `forked` shows the theorem false):

| Theorem | |
|---|---|
| `InvariantHolds` | `Spec => []IInv` |
| `Exclusion` | `Spec => []MutualExclusion` |
| `LockComesBack` | `Spec => []NeverLeftBehind` |

`MutualExclusion` follows from three facts: who is inside has the kernel's lock
(`InsideOwns`), no two processes share a description (`DescriptorsApart`), and of one
process only one thread is past the thread lock (`ThreadLockHeld`). The kernel alone does
not exclude: a description's own lock is no obstacle to it, so within a process
it is the thread lock that counts. `DescriptorOpen` and `CallersLive` keep `None` from being
a common description, and a thread from being in a call of a queue that is down.
`StepInv` has one step per action; `StepLeft` proves the third theorem relative to `IInv`.

### The worker

`WorkerProofs` proves, for any number of threads, jobs and tokens, any timeouts, cap and
faults, and from the typing of the constants (`WorkerAssumption`: finitely many
threads, at least one; the worker's tokens are not its peers'):

| Theorem | |
|---|---|
| `InvariantHolds` | `Spec => []IInv` |
| `CapHolds` | `Spec => []CapBound` |
| `ShutdownAbandonsNothing` | `Spec => []NothingAbandoned` |
| `LeasesKept` | `BeatsSuffice => (Spec => []LeaseKept)` |
| `EveryJobAccounted` | `Spec => []Accounted` |
| `PeersLeftAlone` | `Spec => Fenced` |
| `CallsFollowContract` | `Spec => CallsAreDelivery` |

`CapBound` alone is not inductive: a thread that has passed the check is about to
raise the counter. `RoomUnderCap` adds those threads to it. `NothingAbandoned` follows
from `OwnLeasesHeld` (a job leased to the worker is in some thread's hands), `Joined`
(`run` has waited for them all) and the types (a thread that has ended holds nothing).
`Fenced` needs `TokenIffLeased`: a job with a peer's token is leased, so it is not
eligible, and a stale handle does not have its token. The lemmas about calls
(`LeaseOneStep`, `OutcomeStep`, `ExtendStep`, `PeerStep`) carry it over the sweep that
begins each of them; then there is one lemma for each part of `IInv`.

`LeaseKept` is a race between the heartbeat and the deadline, and `InTime` is how far
ahead the heartbeat is: a job in flight is leased past the end of the next beat that can extend
it (`NextBeat`: the one due if the heartbeat waits, the present one if it has yet to come to
this job, the following one otherwise) and past as many rounds, an `Interval` and a
`BeatTime`, as faults may still make it miss (`Spare`). `BeatSoon` bounds the next beat,
`HandlesUsed` and `HandlesDiffer` keep one thread's outcome from ending another's lease. The
hypothesis `BeatsSuffice`, `BeatTime + Round + MaxFaults * Round < Timeout` with
`Round == Interval + BeatTime`, is about the instance, and it is what the code needs: with its
interval of a third of the time-out, one missed beat is survived if a beat takes less
than a ninth of the time-out, and with a `lock_timeout` as long as the interval none need
be missed for a lease to lapse. `Accounted` follows from `Balanced`, which
counts the jobs in hand with those that have an outcome; `CallsAreDelivery` from the
lemmas about calls, since each of them is a sweep and then one move of `Delivery`.

### What is only model-checked

The liveness properties `Settles`, `CallsEnd` and `Returns`, which are beyond the prover.
Every invariant and every action property of a passing run, and the refinement, is a theorem.
What their hypotheses exclude is not: `Storage` with the faults that `Covered` leaves
out (`reopen`, `switch`, `powersync`) and `Lock` with children that use the queue, where runs show what goes wrong, and
deliveries under the faults that `Steadfast` leaves out, where the promise is not kept.

## 5. What is not modelled, and limits of what is

- **Locks.** A child that uses its parent's `Queue` is left to run `forked`; otherwise
  one child at a time keeps a descriptor. A constructor that times out leaks its
  descriptor, and it is not followed. Windows' byte-range lock is taken for `flock`.
- **The byte level.** Cells stand for bytes: a checksum is taken to catch everything that is not the
  record, text read as a length to be too large. Damage of what was synced and
  records of an unknown type are not among the faults, though both end a scan and
  cut off what follows. A power cut leaves at most one hole.
- **fsync.** A failed fsync leaves the cells as they were, unsynced; that a kernel may
  drop them and let the next fsync succeed is not modelled.
- **The pointer cache.** The stat of a replaced pointer file is taken to differ from
  that of the old one, as `_live_generation` says; temporary files are written, synced
  and renamed in one or two steps, and their names are left out.
- **Queue's compaction and power.** In `Queue` a pointer flip, once seen by anybody,
  survives a power loss; `Storage` takes it apart.
- **Storage's records.** A job is added once and done once; what else records mean is in
  `Queue`. That `Storage` implements `Queue`'s log is stated by its invariants, not as
  a refinement.
- **Applying records.** An exception inside the loop that applies a batch or what was caught up
  (`queue.py:245`, `278`), after which the same records would be applied again, has no
  outcome in `Queue`; `Storage` has it, where it is harmless unless the log is a new one.
- **Compaction's last steps.** An error of `os.close` in `fsync_directory` after the pointer
  flip would make `compact` unlink the live log, and an interrupt earlier in it leave
  files behind; neither is modelled.
- **Worker.** The heartbeat thread is scheduled on time and a beat takes `BeatTime` at most;
  time does not pass between a lease and the job's entry in the in-flight table, and the effect
  of a call that fails with an `OSError` is none. `Limit` is one for all jobs.
- **Floats.** Times and delays are natural numbers; jitter takes any of them in range.
  The overflow of `factor ** (attempts - 1)` is not modelled.
- **Ids.** Keys are given by callers, in every instance distinct within a batch (and by
  hypothesis where a theorem needs it); a drawn uuid is a key nobody used before.
- **`requeue_dead(None)`** writes its records in the order of `seq`, which is the
  order in which the dictionary holds the jobs unless a key was repeated in a batch.
- **The refinement** is run without faults other than processes that stop, and proved with
  kills and aborted leases too. With power loss, a clock set back or a reap whose write fails,
  the promise itself does not hold.
- **CLI, bench, examples, tools, web**: they parse, print, time or package, and keep no
  state of their own; see the components in `PROJECT.json`.

## 6. Plan

In this order; all of it is done.

1. `Index` and `Queue` with every operation and fault; `QueueProperties`.
2. `Delivery` and the refinement.
3. Liveness of polling, reaping and burial.
4. Runs for the statements of the documentation the code does not meet.
5. `DeliveryProofs`.
6. `Worker` over `Delivery`.
7. `Lock` with its proofs.
8. `LogFile` and `Storage`: scan, repair, compaction and pointer, crash by crash.
9. `WorkerProofs`.
10. `QueueProofs`: index, log, processes and replies.
11. `LeasingProofs`: the coverage of the heaps, the order of leases, and the bound on
    deliveries.
12. `StorageProofs`: the durability of the files.
13. `RefinementProofs`: `Queue` implements `Delivery`.

Left for who goes on from here: `Storage` shown to implement the log of `Queue`, and the
overflow of `backoff.py:53`.
