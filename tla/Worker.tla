------------------------------- MODULE Worker --------------------------------
(***************************************************************************)
(* A worker (nobroker/worker.py) over a queue whose jobs move as those of  *)
(* Delivery do: threads that poll, run a handler and record its outcome,   *)
(* and a heartbeat that extends the leases of the jobs in flight.  Other   *)
(* processes, the peers, use the same queue.                               *)
(*                                                                         *)
(* A call of the queue is one step: it reaps what has lapsed, then acts.   *)
(* Time passes between steps.  The heartbeat thread is taken to be         *)
(* scheduled on time, so not past the moment a beat is due; but a beat may *)
(* take BeatTime, as each call of extend may wait for the lock, and then   *)
(* succeed or give up.  Giving up, or any other error, is a fault.         *)
(***************************************************************************)
EXTENDS Naturals, Sequences, FiniteSets

CONSTANTS
  Id, Token, NoToken, Delays, MaxTime, Deadlines,    \* as in Delivery
  Thread,        \* the handler threads; concurrency is their number
  OwnTokens,     \* tokens drawn by this worker; peers draw the others
  NoJob,         \* what a thread holds between jobs
  Limit,         \* max_attempts of every job
  Timeout,       \* the queue's visibility timeout
  Interval,      \* time between heartbeats, a third of it
  BeatTime,      \* bound: how long a beat may take, waiting for the lock: in the code
                 \*   lock_timeout, for each job in flight
  MaxJobs,       \* max_jobs
  Faults,        \* what may go wrong: busy, oserror, exit
  MaxFaults      \* bound: how many faults may happen

ASSUME WorkerAssumption ==
  /\ Thread # {} /\ IsFiniteSet(Thread) /\ OwnTokens \subseteq Token /\ NoJob \notin Id \X Token
  /\ NoToken \notin Token /\ Delays \subseteq Nat /\ MaxTime \in Nat /\ MaxFaults \in Nat
  /\ Limit \in Nat \ {0} /\ Timeout \in Nat /\ Interval \in Nat \ {0} /\ MaxJobs \in Nat
  /\ BeatTime \in Nat

VARIABLES
  now, jobs, \* the clock and the jobs, as in Delivery
  used,      \* the leases ever given: <<id, token>>
  pc,        \* where each thread is
  held,      \* the job each thread was handed: <<id, token>>, or NoJob
  stop,      \* the stop event
  beat,      \* the heartbeat thread: [at, due, todo]; due is when the next beat starts,
             \*   or by when the one under way is over
  main,      \* run(): waiting for the threads, for the heartbeat, or returned
  stats,     \* the counters
  faults     \* what has gone wrong so far, in order

queue == <<now, jobs, used>>
worker == <<pc, held, stop, beat, main, stats, faults>>
vars == <<queue, worker>>

\* The leases ever given stand for the grants: all that is asked of them is their token.
D == INSTANCE Delivery WITH
       Limits <- {Limit}, Timeouts <- {Timeout}, grants <- {[token |-> u[2]] : u \in used}

NoStats == [leased |-> 0, succeeded |-> 0, failed |-> 0, dead |-> 0, lost_leases |-> 0]

Init ==
  /\ now = 0 /\ jobs = [i \in Id |-> D!Absent] /\ used = {}
  /\ pc = [t \in Thread |-> "check"] /\ held = [t \in Thread |-> NoJob]
  /\ stop = FALSE /\ main = "threads" /\ stats = NoStats /\ faults = <<>>
  /\ beat = [at |-> "waiting", due |-> Interval, todo |-> {}]

-----------------------------------------------------------------------------
(***************************************************************************)
(* The calls of the queue.  Sweeps are what the jobs may be after the reap *)
(* that begins every call; the call then changes job i to j, or nothing.   *)
(***************************************************************************)
\* Slip: a call does not reap.
Unreaped == {jobs}

Sweeps ==
  {f \in [Id -> UNION {D!Swept(jobs[i]) : i \in Id}] :
     \A i \in Id : f[i] \in IF D!Lapsed(jobs[i]) THEN D!Reaped(jobs[i]) ELSE {jobs[i]}}

Changes(mid, i, j) == jobs' = [mid EXCEPT ![i] = j] /\ UNCHANGED <<now, used>>
ChangesNothing(mid) == jobs' = mid /\ UNCHANGED <<now, used>>

Eligible(mid) == {i \in Id : mid[i].state = "ready" /\ mid[i].available <= now}

\* lease_one by one of those who draw from tokens; which token is drawn makes no
\* difference, only that it was never drawn before.
Leases(mid, i, token, tokens) ==
  LET fresh == {t \in tokens : \A u \in used : u[2] # t} IN
  /\ i \in Eligible(mid)
  /\ fresh # {} /\ token = CHOOSE t \in fresh : TRUE
  /\ jobs' = [mid EXCEPT ![i] = D!Leased(mid[i], Timeout, token)]
  /\ used' = used \cup {<<i, token>>}
  /\ UNCHANGED now

\* Slip: a stale token is as good as the current one.
HoldsAny(mid, h) == mid[h[1]].state = "leased"

\* _require_lease, for a Job that carries its token.
Holds(mid, h) == mid[h[1]].state = "leased" /\ mid[h[1]].token = h[2]

\* busy is a NobrokerError, such as a lock that times out; oserror comes from the
\* log's files; exit is an exception of the handler that is no Exception.
Fault(kind) == kind \in Faults /\ Len(faults) < MaxFaults /\ faults' = Append(faults, kind)

Goto(t, place) == pc' = [pc EXCEPT ![t] = place]

\* Slip: a lost lease is not counted.
CountNoLosses(counters) ==
  stats' = [c \in DOMAIN stats |-> stats[c] + IF c \in counters \ {"lost_leases"} THEN 1 ELSE 0]

Count(counters) == stats' = [c \in DOMAIN stats |-> stats[c] + IF c \in counters THEN 1 ELSE 0]

-----------------------------------------------------------------------------
(***************************************************************************)
(* _loop.  The stop event and the cap are read once a round.               *)
(***************************************************************************)
\* Slip: one job too many.
Uncapped == stats.leased > MaxJobs

ReachedCap == stats.leased >= MaxJobs

\* Slip: only the cap ends the loop.
CheckCapOnly(t) ==
  /\ pc[t] = "check"
  /\ Goto(t, IF ReachedCap THEN "ended" ELSE "lease")
  /\ UNCHANGED <<queue, held, stop, beat, main, stats, faults>>

Check(t) ==
  /\ pc[t] = "check"
  /\ Goto(t, IF stop \/ ReachedCap THEN "ended" ELSE "lease")
  /\ UNCHANGED <<queue, held, stop, beat, main, stats, faults>>

\* Slip: a job that arrives together with the stop event is dropped.
LeaseOneUnlessStopped(t) ==
  /\ pc[t] = "lease"
  /\ \E mid \in Sweeps, i \in Id, token \in OwnTokens :
       /\ Leases(mid, i, token, OwnTokens)
       /\ held' = [held EXCEPT ![t] = IF stop THEN NoJob ELSE <<i, token>>]
  /\ Goto(t, IF stop THEN "ended" ELSE "got")
  /\ UNCHANGED <<stop, beat, main, stats, faults>>

\* lease_one hands out a job.
LeaseOne(t) ==
  /\ pc[t] = "lease"
  /\ \E mid \in Sweeps, i \in Id, token \in OwnTokens :
       /\ Leases(mid, i, token, OwnTokens)
       /\ held' = [held EXCEPT ![t] = <<i, token>>]
  /\ Goto(t, "got")
  /\ UNCHANGED <<stop, beat, main, stats, faults>>

\* lease_one finds nothing: the thread waits for the poll interval, or has been
\* idle for long enough to end.
FindNothing(t) ==
  /\ pc[t] = "lease"
  /\ \E mid \in Sweeps : Eligible(mid) = {} /\ ChangesNothing(mid)
  /\ Goto(t, "check") \/ Goto(t, "ended")
  /\ UNCHANGED <<held, stop, beat, main, stats, faults>>

\* lease_one raises: a NobrokerError is waited out, anything else ends the thread.
LeaseFails(t) ==
  /\ pc[t] = "lease"
  /\ \/ Fault("busy") /\ Goto(t, "check")
     \/ Fault("oserror") /\ Goto(t, "dead")
  /\ UNCHANGED <<queue, held, stop, beat, main, stats>>

\* The job is counted and put in flight.
StartHandler(t) ==
  /\ pc[t] = "got"
  /\ Count({"leased"})
  /\ Goto(t, "running")
  /\ UNCHANGED <<queue, held, stop, beat, main, faults>>

-----------------------------------------------------------------------------
(***************************************************************************)
(* _run_one.  The job is in flight until its outcome is dealt with; a beat *)
(* that began before may still go on to extend it.  Until its outcome is   *)
(* in the log the handler may as well be running: the wait for the lock is *)
(* a part of running.                                                      *)
(***************************************************************************)
\* Slip: the finally is missing.
LandsHeld(t, place) == Goto(t, place) /\ UNCHANGED held

\* The job leaves the in-flight table, whatever became of it.
Lands(t, place) == held' = [held EXCEPT ![t] = NoJob] /\ Goto(t, place)

\* The handler raises what is no Exception: nothing is recorded and the thread ends.
HandlerExits(t) ==
  /\ pc[t] = "running"
  /\ Fault("exit") /\ Lands(t, "dead")
  /\ UNCHANGED <<queue, stop, beat, main, stats>>

\* The handler has returned.  _succeed: ack, and what is made of its exceptions.
Succeed(t) ==
  LET h == held[t] IN
  /\ pc[t] = "running" /\ Lands(t, "check")
  /\ \E mid \in Sweeps :
       \/ /\ Holds(mid, h)
          /\ Changes(mid, h[1], D!Released(mid[h[1]], "done")) /\ Count({"succeeded"})
       \/ mid[h[1]].state = "done" /\ ChangesNothing(mid) /\ Count({"succeeded"})
       \/ /\ mid[h[1]].state \notin {"done", "absent"} /\ ~Holds(mid, h)
          /\ ChangesNothing(mid) /\ Count({"lost_leases"})
       \/ mid[h[1]].state = "absent" /\ ChangesNothing(mid) /\ UNCHANGED stats
  /\ UNCHANGED <<stop, beat, main, faults>>

\* The handler has raised an Exception.  _fail: nack, and what is made of its exceptions.
Fail(t) ==
  LET h == held[t] IN
  /\ pc[t] = "running" /\ Lands(t, "check")
  /\ \E mid \in Sweeps :
       \/ /\ Holds(mid, h)
          /\ \E j \in D!Failed(mid[h[1]]) :
               /\ Changes(mid, h[1], j)
               /\ Count({"failed"} \cup IF j.state = "dead" THEN {"dead"} ELSE {})
       \/ /\ mid[h[1]].state # "absent" /\ ~Holds(mid, h)
          /\ ChangesNothing(mid) /\ Count({"lost_leases"})
       \/ mid[h[1]].state = "absent" /\ ChangesNothing(mid) /\ UNCHANGED stats
  /\ UNCHANGED <<stop, beat, main, faults>>

\* The outcome cannot be recorded: a NobrokerError is logged and the job left
\* leased, anything else ends the thread.
RecordFails(t) ==
  /\ pc[t] = "running"
  /\ \/ Fault("busy") /\ Lands(t, "check")
     \/ Fault("oserror") /\ Lands(t, "dead")
  /\ UNCHANGED <<queue, stop, beat, main, stats>>

-----------------------------------------------------------------------------
(***************************************************************************)
(* _heartbeat_loop.                                                        *)
(***************************************************************************)
InFlight == {held[t] : t \in {u \in Thread : pc[u] = "running"}}

\* The interval is over: the jobs in flight now are those this beat extends.
BeatStarts ==
  /\ beat.at = "waiting" /\ ~stop /\ now >= beat.due
  /\ beat' = [at |-> "beating", due |-> now + BeatTime, todo |-> InFlight]
  /\ UNCHANGED <<queue, pc, held, stop, main, stats, faults>>

\* Slip: the lease is made to end at the next beat.
ExtendToNextBeat ==
  /\ beat.at = "beating"
  /\ \E h \in beat.todo, mid \in Sweeps :
       /\ \/ Holds(mid, h) /\ Changes(mid, h[1], [mid[h[1]] EXCEPT !.deadline = now + Interval])
          \/ ~Holds(mid, h) /\ ChangesNothing(mid)
       /\ beat' = [beat EXCEPT !.todo = @ \ {h}]
  /\ UNCHANGED <<pc, held, stop, main, stats, faults>>

\* One of them is extended, however long the lock was awaited, unless its lease is no
\* longer this worker's.
ExtendOne ==
  /\ beat.at = "beating"
  /\ \E h \in beat.todo, mid \in Sweeps :
       /\ \/ Holds(mid, h) /\ Changes(mid, h[1], [mid[h[1]] EXCEPT !.deadline = @ + Timeout])
          \/ ~Holds(mid, h) /\ ChangesNothing(mid)
       /\ beat' = [beat EXCEPT !.todo = @ \ {h}]
  /\ UNCHANGED <<pc, held, stop, main, stats, faults>>

Over(place) == [at |-> place, due |-> 0, todo |-> {}]

\* extend raises: a NobrokerError, such as a lock that was awaited in vain, loses this
\* beat, anything else ends the heartbeat.
ExtendFails ==
  /\ beat.at = "beating"
  /\ \E h \in beat.todo :
       \/ Fault("busy") /\ beat' = [beat EXCEPT !.todo = @ \ {h}]
       \/ Fault("oserror") /\ beat' = Over("dead")
  /\ UNCHANGED <<queue, pc, held, stop, main, stats>>

BeatEnds ==
  /\ beat.at = "beating" /\ beat.todo = {}
  /\ beat' = [beat EXCEPT !.at = "waiting", !.due = now + Interval]
  /\ UNCHANGED <<queue, pc, held, stop, main, stats, faults>>

HeartbeatStops ==
  /\ beat.at = "waiting" /\ stop
  /\ beat' = Over("ended")
  /\ UNCHANGED <<queue, pc, held, stop, main, stats, faults>>

-----------------------------------------------------------------------------
(***************************************************************************)
(* run and stop.                                                           *)
(***************************************************************************)
\* A signal, or another thread, calls stop().
Stop ==
  /\ ~stop /\ stop' = TRUE
  /\ UNCHANGED <<queue, pc, held, beat, main, stats, faults>>

\* The last thread is joined.
ThreadsJoined ==
  /\ main = "threads" /\ \A t \in Thread : pc[t] \in {"ended", "dead"}
  /\ main' = "heartbeat" /\ stop' = TRUE
  /\ UNCHANGED <<queue, pc, held, beat, stats, faults>>

\* The heartbeat is joined, or still alive after a second.
Return ==
  /\ main = "heartbeat"
  /\ main' = "returned"
  /\ UNCHANGED <<queue, pc, held, stop, beat, stats, faults>>

-----------------------------------------------------------------------------
(***************************************************************************)
(* Peers and time.                                                         *)
(***************************************************************************)
\* Somebody enqueues a job; an id is a uuid, a new job has a new one.
PeerEnqueues ==
  /\ \E i \in Id, mid \in Sweeps, j \in D!Created :
       /\ mid[i] = D!Absent /\ \A u \in used : u[1] # i
       /\ Changes(mid, i, j)
  /\ UNCHANGED worker

\* Another worker leases a job; it completes or fails one it holds.
PeerLeases ==
  /\ \E i \in Id, mid \in Sweeps, token \in Token \ OwnTokens :
       Leases(mid, i, token, Token \ OwnTokens)
  /\ UNCHANGED worker

PeerFinishes ==
  /\ \E i \in Id, mid \in Sweeps :
       /\ mid[i].token \in Token \ OwnTokens
       /\ \E j \in {D!Released(mid[i], "done")} \cup D!Failed(mid[i]) : Changes(mid, i, j)
  /\ UNCHANGED worker

\* Another process purges the queue, or compacts its log and forgets what is done.
PeerRemoves ==
  /\ \E mid \in Sweeps : \E gone \in {{"done"}, {"ready", "leased", "done", "dead"}} :
       jobs' = [i \in Id |-> IF mid[i].state \in gone THEN D!Absent ELSE mid[i]]
  /\ UNCHANGED <<now, used, worker>>

\* Time passes: also within a beat that has calls to make, for as long as they may wait.
\* A beat that is due comes first, and so does putting a job in flight, a few instructions
\* after its lease.
TimePasses ==
  /\ now < MaxTime /\ now' = now + 1
  /\ \/ stop \/ beat.at = "dead"
     \/ beat.at = "waiting" /\ now < beat.due
     \/ beat.at = "beating" /\ beat.todo # {} /\ now < beat.due
  /\ \A t \in Thread : pc[t] # "got"
  /\ UNCHANGED <<jobs, used, worker>>

ThreadStep(t) ==
  \/ Check(t) \/ LeaseOne(t) \/ FindNothing(t) \/ LeaseFails(t) \/ StartHandler(t)
  \/ HandlerExits(t) \/ Succeed(t) \/ Fail(t) \/ RecordFails(t)

Heartbeat == BeatStarts \/ ExtendOne \/ ExtendFails \/ BeatEnds \/ HeartbeatStops

Next ==
  \/ \E t \in Thread : ThreadStep(t)
  \/ Heartbeat
  \/ Stop \/ ThreadsJoined \/ Return
  \/ PeerEnqueues \/ PeerLeases \/ PeerFinishes \/ PeerRemoves
  \/ TimePasses

\* The threads run, the heartbeat apart: the scheduler gives each its turns, and handlers
\* end.
Spec ==
  /\ Init /\ [][Next]_vars
  /\ \A t \in Thread : WF_vars(ThreadStep(t))
  /\ WF_vars(ThreadsJoined \/ Return)

-----------------------------------------------------------------------------
Places == {"check", "lease", "got", "running", "ended", "dead"}

\* The types of the variables; a thread holds a job from the lease to the outcome.
TypeOK ==
  /\ now \in 0..MaxTime /\ jobs \in [Id -> D!Job] /\ used \subseteq Id \X Token
  /\ pc \in [Thread -> Places] /\ held \in [Thread -> (Id \X OwnTokens) \cup {NoJob}]
  /\ \A t \in Thread : held[t] # NoJob <=> pc[t] \in {"got", "running"}
  /\ stop \in BOOLEAN /\ main \in {"threads", "heartbeat", "returned"}
  /\ beat \in [at : {"waiting", "beating", "ended", "dead"}, due : Nat,
               todo : SUBSET (Id \X OwnTokens)]
  /\ stats \in [DOMAIN NoStats -> Nat] /\ faults \in Seq(Faults) /\ Len(faults) <= MaxFaults

\* The parts of the inductive invariant: exactly the leased jobs have a token; what is
\* leased to this worker is in some thread's hands, unless something went wrong; the
\* threads that have passed the check count against the cap; run waits for them all;
\* handles are leases that were given, each to one thread; a beat is never far away, and
\* a job in flight is leased past the end of the next beat that extends it and past as many
\* more as faults may still spoil; what was leased is in a handler's hands or counted again.
TokenIffLeased == \A i \in Id : jobs[i].token # NoToken <=> jobs[i].state = "leased"

OwnLeasesHeld ==
  faults = <<>> => \A i \in Id : jobs[i].token \in OwnTokens =>
    \E t \in Thread : held[t] = <<i, jobs[i].token>>

Leasing == {t \in Thread : pc[t] \in {"lease", "got"}}
RoomUnderCap == stats.leased + Cardinality(Leasing) < MaxJobs + Cardinality(Thread)

Joined == main # "threads" => \A t \in Thread : pc[t] \in {"ended", "dead"}

HandlesUsed == \A t \in Thread : held[t] # NoJob => held[t] \in used
HandlesDiffer == \A t, u \in Thread : held[t] # NoJob /\ held[t] = held[u] => t = u

BeatSoon ==
  /\ beat.at = "waiting" => beat.due <= now + Interval /\ (stop \/ now <= beat.due)
  /\ beat.at = "beating" => beat.due <= now + BeatTime /\ (stop \/ now <= beat.due)
  /\ beat.at = "ended" => stop

\* A wait and a beat.
Round == Interval + BeatTime

\* By when the next beat that extends h is over: the one under way, or the next.
NextBeat(h) ==
  IF beat.at = "waiting" THEN beat.due + BeatTime
  ELSE IF h \in beat.todo THEN beat.due
  ELSE Round + IF beat.todo = {} THEN now ELSE beat.due

\* A lease outlasts the beat it comes just too late for and the round after it; each fault
\* costs a round more.
Spare == (MaxFaults - Len(faults)) * Round
BeatsSuffice == BeatTime + Round + MaxFaults * Round < Timeout

KeptInTime(h, place) ==
  \/ jobs[h[1]].state = "absent"
  \/ /\ Holds(jobs, h)
     /\ IF place = "got" THEN jobs[h[1]].deadline >= now + Timeout
                         ELSE jobs[h[1]].deadline > NextBeat(h) + Spare

InTime ==
  BeatsSuffice /\ ~stop /\ beat.at # "dead" =>
    \A t \in Thread : held[t] # NoJob => KeptInTime(held[t], pc[t])

InHand == {t \in Thread : pc[t] = "running"}
NothingRemoved == \A u \in used : jobs[u[1]].state # "absent"
Balanced ==
  faults = <<>> /\ NothingRemoved =>
    stats.leased = stats.succeeded + stats.failed + stats.lost_leases + Cardinality(InHand)

IInv == /\ TypeOK /\ TokenIffLeased /\ OwnLeasesHeld /\ RoomUnderCap /\ Joined
        /\ HandlesUsed /\ HandlesDiffer /\ BeatSoon /\ InTime /\ Balanced

\* A handler keeps its lease for as long as it runs, though that be many times the
\* visibility timeout, and though beats wait for the lock and be missed, as long as
\* BeatsSuffice; unless the worker was told to stop, the heartbeat died, or the job was
\* purged (_heartbeat_loop).  The code's interval is a third of the visibility timeout: with
\* a lock_timeout as long it does not suffice even if no beat is missed.
LeaseKept ==
  \A t \in Thread :
    pc[t] = "running" /\ ~stop /\ beat.at # "dead" =>
      \/ jobs[held[t][1]].state = "leased" /\ jobs[held[t][1]].token = held[t][2]
      \/ jobs[held[t][1]].state = "absent"

\* The cap is overshot by at most the other threads, which may have passed the check
\* before the last job under it was counted (_reached_cap, _loop).
CapBound == stats.leased <= MaxJobs + Cardinality(Thread) - 1

\* Shutdown abandons nothing: unless an outcome could not be recorded, no job is left
\* leased to this worker when run returns, whenever stop came (_loop runs what it
\* has leased before it looks at the event again).
NothingAbandoned ==
  main = "returned" /\ faults = <<>> => \A i \in Id : jobs[i].token \notin OwnTokens

\* Every job counted as leased is counted once more by its outcome, whoever completed
\* it meanwhile, unless it was purged or forgotten (_succeed, _fail).
Accounted ==
  main = "returned" /\ faults = <<>> /\ NothingRemoved =>
    stats.leased = stats.succeeded + stats.failed + stats.lost_leases

\* A thread does not die of recording an outcome, but only of a handler that raises what
\* is no Exception (_run_one, "Execute one job and record the outcome. Never raises.").
RunOneNeverRaises ==
  [][\A t \in Thread : pc[t] = "running" /\ pc'[t] = "dead" => faults'[Len(faults')] = "exit"]_vars

\* A step of this worker leaves alone what a peer holds, however late its handler
\* reports and its heartbeat extends (_require_lease, with the token of the Job).
Fenced ==
  [][worker' # worker =>
       \A i \in Id : jobs[i].token \in Token \ OwnTokens /\ ~D!Lapsed(jobs[i]) =>
                     jobs'[i] = jobs[i]]_vars

\* A job that changes does so by a reaping and a move that Delivery has, whether this worker
\* or a peer calls: nobody acts on a lease without first seeing whether it has lapsed (_reap).
CallsAreDelivery ==
  [][\A i \in Id : jobs'[i] # jobs[i] =>
       \E mid \in D!Swept(jobs[i]) : jobs'[i] \in D!Moved(mid)]_vars

\* A worker that is told to stop, or has reached its cap, returns from run.
Returns == stop \/ ReachedCap ~> main = "returned"
=============================================================================
