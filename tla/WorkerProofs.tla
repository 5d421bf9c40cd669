---------------------------- MODULE WorkerProofs -----------------------------
(***************************************************************************)
(* What Worker keeps to, for any number of threads, jobs and tokens: it    *)
(* leaves alone what peers hold, shutdown abandons nothing, and the cap is *)
(* overshot by at most the other threads.                                  *)
(***************************************************************************)
EXTENDS Worker, FiniteSetTheorems, TLAPS

(* What is assumed of the constants, and the places of a thread that has no job. *)
LEMMA Constants ==
  /\ IsFiniteSet(Thread) /\ Thread # {} /\ OwnTokens \subseteq Token /\ NoJob \notin Id \X Token
  /\ NoToken \notin Token /\ Delays \subseteq Nat /\ MaxTime \in Nat /\ MaxFaults \in Nat
  /\ Limit \in Nat \ {0} /\ Timeout \in Nat /\ Interval \in Nat \ {0} /\ MaxJobs \in Nat
  /\ BeatTime \in Nat /\ Round \in Nat /\ Round = Interval + BeatTime
BY WorkerAssumption DEF Round

(* A job that is released is one, and has no token. *)
LEMMA ReleasedJob ==
  ASSUME NEW j \in D!Job, NEW state \in {"ready", "done", "dead"}
  PROVE  D!Released(j, state) \in D!Job /\ D!Released(j, state).token = NoToken
                                        /\ D!Released(j, state).state = state
BY DEF D!Released, D!Job

(* So is one that is enqueued. *)
LEMMA CreatedJob ==
  ASSUME NEW j \in D!Created, now \in Nat
  PROVE  j \in D!Job /\ j.token = NoToken /\ j.state = "ready"
<1>1. PICK d \in Delays :
        j = [state |-> "ready", attempts |-> 0, limit |-> Limit, available |-> now + d,
             deadline |-> 0, token |-> NoToken]
  BY DEF D!Created
<1>2. now + d \in Nat /\ Limit \in Nat
  BY Constants
<1> QED
  BY <1>1, <1>2 DEF D!Job

(* So is one that is retried. *)
LEMMA RetriedJob ==
  ASSUME NEW j \in D!Job, NEW d \in Nat, now \in Nat
  PROVE  D!Retried(j, d) \in D!Job /\ D!Retried(j, d).token = NoToken
                                   /\ D!Retried(j, d).state = "ready"
BY ReleasedJob DEF D!Retried, D!Job

(* A job that is leased has the token drawn for it. *)
LEMMA LeasedJob ==
  ASSUME NEW j \in D!Job, NEW d \in Nat, NEW token \in Token, now \in Nat
  PROVE  /\ D!Leased(j, d, token) \in D!Job /\ D!Leased(j, d, token).token = token
         /\ D!Leased(j, d, token).state = "leased"
<1>1. j.attempts + 1 \in Nat /\ now + d \in Nat
  BY DEF D!Job
<1> QED
  BY <1>1 DEF D!Leased, D!Job

(* Failing or reaping a job leaves it without a token. *)
LEMMA LetGo ==
  ASSUME NEW j \in D!Job, now \in Nat, NEW k \in D!Failed(j) \cup D!Reaped(j)
  PROVE  k \in D!Job /\ k.token = NoToken /\ k.state # "leased"
<1>1. k = D!Released(j, "dead") \/ \E d \in Delays : k = D!Retried(j, d)
  BY DEF D!Failed, D!Reaped
<1>2. CASE k = D!Released(j, "dead")
  BY <1>2, ReleasedJob
<1>3. ASSUME NEW d \in Delays, k = D!Retried(j, d) PROVE k \in D!Job /\ k.token = NoToken /\ k.state # "leased"
  BY <1>3, RetriedJob, Constants
<1> QED
  BY <1>1, <1>2, <1>3

(* A reap leaves each job as it was, or takes a lapsed one from its holder. *)
LEMMA SweptJobs ==
  ASSUME jobs \in [Id -> D!Job], now \in Nat, NEW mid \in Sweeps
  PROVE  /\ mid \in [Id -> D!Job]
         /\ \A i \in Id : \/ mid[i] = jobs[i]
                          \/ /\ mid[i].token = NoToken /\ mid[i].state # "leased"
                             /\ D!Lapsed(jobs[i])
<1>1. mid = [i \in Id |-> mid[i]]
  BY DEF Sweeps
<1>2. ASSUME NEW i \in Id
      PROVE  /\ mid[i] \in D!Job
             /\ \/ mid[i] = jobs[i]
                \/ /\ mid[i].token = NoToken /\ mid[i].state # "leased"
                   /\ D!Lapsed(jobs[i])
  <2>1. jobs[i] \in D!Job
    OBVIOUS
  <2>2. CASE D!Lapsed(jobs[i])
    <3>1. mid[i] \in D!Reaped(jobs[i])
      BY <2>2 DEF Sweeps
    <3> QED
      BY <2>1, <2>2, <3>1, LetGo
  <2>3. CASE ~D!Lapsed(jobs[i])
    BY <2>1, <2>3 DEF Sweeps
  <2> QED
    BY <2>2, <2>3
<1> QED
  BY <1>1, <1>2

-----------------------------------------------------------------------------
(***************************************************************************)
(* The jobs.  Loosened: a job is as it was, or was reaped on the way.      *)
(***************************************************************************)
Loosened(k) ==
  \/ jobs'[k] = jobs[k]
  \/ jobs'[k].token = NoToken /\ jobs'[k].state # "leased" /\ D!Lapsed(jobs[k])

QueueTypes == now \in 0..MaxTime /\ jobs \in [Id -> D!Job] /\ used \subseteq Id \X Token

(* A call that changes one job to another that keeps the two rules about jobs. *)
LEMMA OneChanges ==
  ASSUME QueueTypes, TokenIffLeased, NEW mid \in Sweeps, NEW i \in Id, NEW j \in D!Job,
         j.token # NoToken <=> j.state = "leased", jobs' = [mid EXCEPT ![i] = j]
  PROVE  /\ jobs' \in [Id -> D!Job] /\ TokenIffLeased' /\ jobs'[i] = j
         /\ \A k \in Id \ {i} : Loosened(k)
<1>1. now \in Nat
  BY Constants DEF QueueTypes
<1>2. /\ mid \in [Id -> D!Job]
      /\ \A k \in Id : \/ mid[k] = jobs[k]
                       \/ /\ mid[k].token = NoToken /\ mid[k].state # "leased"
                          /\ D!Lapsed(jobs[k])
  BY <1>1, SweptJobs DEF QueueTypes
<1>3. jobs' \in [Id -> D!Job] /\ jobs'[i] = j /\ \A k \in Id \ {i} : jobs'[k] = mid[k]
  BY <1>2
<1>4. \A k \in Id \ {i} : Loosened(k)
  BY <1>2, <1>3 DEF Loosened
<1>5. TokenIffLeased'
  BY <1>3, <1>4 DEF Loosened, TokenIffLeased
<1> QED
  BY <1>3, <1>4, <1>5

(* A call that only reaps. *)
LEMMA NoneChanges ==
  ASSUME QueueTypes, TokenIffLeased, NEW mid \in Sweeps, jobs' = mid
  PROVE  jobs' \in [Id -> D!Job] /\ TokenIffLeased' /\ \A k \in Id : Loosened(k)
<1>1. now \in Nat
  BY Constants DEF QueueTypes
<1>2. jobs' \in [Id -> D!Job] /\ \A k \in Id : Loosened(k)
  BY <1>1, SweptJobs DEF QueueTypes, Loosened
<1> QED
  BY <1>2 DEF Loosened, TokenIffLeased

(* A lease gives the job the token that was drawn. *)
LEMMA OneLeased ==
  ASSUME QueueTypes, TokenIffLeased, NEW mid \in Sweeps, NEW i \in Id,
         NEW tokens \in SUBSET Token, NEW token \in tokens, Leases(mid, i, token, tokens)
  PROVE  /\ QueueTypes' /\ TokenIffLeased' /\ jobs'[i].token = token
         /\ jobs[i].state # "leased" \/ D!Lapsed(jobs[i])
         /\ \A k \in Id \ {i} : Loosened(k)
<1>1. now \in Nat
  BY Constants DEF QueueTypes
<1>2. /\ mid[i] \in D!Job
      /\ mid[i] = jobs[i] \/ D!Lapsed(jobs[i])
  BY <1>1, SweptJobs DEF QueueTypes
<1>3. /\ jobs' = [mid EXCEPT ![i] = D!Leased(mid[i], Timeout, token)]
      /\ now' = now /\ used' = used \cup {<<i, token>>} /\ mid[i].state = "ready"
  BY DEF Leases, Eligible
<1>a. /\ D!Leased(mid[i], Timeout, token) \in D!Job
      /\ D!Leased(mid[i], Timeout, token).token = token
      /\ D!Leased(mid[i], Timeout, token).state = "leased"
  <2>1. Timeout \in Nat /\ token \in Token
    BY Constants
  <2> QED
    BY <1>1, <1>2, <2>1, LeasedJob
<1>4. PICK j \in D!Job : /\ j.token = token /\ j.state = "leased"
                        /\ jobs' = [mid EXCEPT ![i] = j]
  BY <1>3, <1>a
<1>5. j.token # NoToken
  BY <1>4, Constants
<1>6. jobs' \in [Id -> D!Job] /\ TokenIffLeased' /\ jobs'[i] = j
  BY <1>4, <1>5, OneChanges
<1>7. \A k \in Id \ {i} : Loosened(k)
  BY <1>4, <1>5, OneChanges
<1>8. QueueTypes'
  BY <1>3, <1>6 DEF QueueTypes
<1> QED
  BY <1>2, <1>3, <1>4, <1>6, <1>7, <1>8

(* Nobody but this worker draws its tokens, and what peers hold stays theirs. *)
KeepsOwn == \A k \in Id : jobs'[k].token \in OwnTokens => jobs'[k].token = jobs[k].token

LeavesPeers ==
  \A k \in Id : jobs[k].token \in Token \ OwnTokens /\ ~D!Lapsed(jobs[k]) => jobs'[k] = jobs[k]

(* A call that only reaps respects both. *)
LEMMA Reaping ==
  ASSUME QueueTypes, TokenIffLeased, NEW mid \in Sweeps, ChangesNothing(mid)
  PROVE  QueueTypes' /\ TokenIffLeased' /\ KeepsOwn /\ LeavesPeers
<1>1. jobs' = mid /\ now' = now /\ used' = used
  BY DEF ChangesNothing
<1>2. jobs' \in [Id -> D!Job] /\ TokenIffLeased' /\ \A k \in Id : Loosened(k)
  BY <1>1, NoneChanges
<1>3. KeepsOwn /\ LeavesPeers
  BY <1>2, Constants DEF KeepsOwn, LeavesPeers, Loosened
<1> QED
  BY <1>1, <1>2, <1>3 DEF QueueTypes

(* So does one that acts on a job under this worker's lease: h is still its holder. *)
LEMMA Acting ==
  ASSUME QueueTypes, TokenIffLeased, NEW mid \in Sweeps, NEW h \in Id \X OwnTokens, Holds(mid, h),
         NEW j \in D!Job, j.token # NoToken <=> j.state = "leased", j.token \in {h[2], NoToken},
         Changes(mid, h[1], j)
  PROVE  /\ QueueTypes' /\ TokenIffLeased' /\ KeepsOwn /\ LeavesPeers
         /\ jobs'[h[1]].token = j.token
<1> DEFINE i == h[1]
<1>1. i \in Id /\ h[2] \in OwnTokens
  OBVIOUS
<1>2. jobs' = [mid EXCEPT ![i] = j] /\ now' = now /\ used' = used
  BY DEF Changes
<1>3. jobs' \in [Id -> D!Job] /\ TokenIffLeased' /\ jobs'[i] = j
      /\ \A k \in Id \ {i} : Loosened(k)
  BY <1>1, <1>2, OneChanges
<1>4. now \in Nat
  BY Constants DEF QueueTypes
<1>5. mid[i] = jobs[i]
  BY <1>1, <1>4, SweptJobs DEF QueueTypes, Holds
<1>6. jobs[i].token = h[2]
  BY <1>5 DEF Holds
<1>7. KeepsOwn
  <2>1. ASSUME NEW k \in Id, jobs'[k].token \in OwnTokens PROVE jobs'[k].token = jobs[k].token
    <3>1. CASE k = i
      BY <1>3, <1>6, <2>1, <3>1, Constants
    <3>2. CASE k # i
      BY <1>3, <2>1, <3>2, Constants DEF Loosened
    <3> QED
      BY <3>1, <3>2
  <2> QED
    BY <2>1 DEF KeepsOwn
<1>8. LeavesPeers
  BY <1>1, <1>3, <1>6 DEF LeavesPeers, Loosened
<1> QED
  BY <1>2, <1>3, <1>7, <1>8 DEF QueueTypes

(* Every handle a thread or the heartbeat has is one of this worker's. *)
LEMMA Handles ==
  ASSUME TypeOK
  PROVE  /\ \A t \in Thread : pc[t] \in {"running"} => held[t] \in Id \X OwnTokens
         /\ beat.todo \subseteq Id \X OwnTokens
         /\ QueueTypes
BY DEF TypeOK, QueueTypes

(* A thread leases a job. *)
LEMMA LeaseOneStep ==
  ASSUME IInv, NEW t \in Thread, LeaseOne(t)
  PROVE  /\ QueueTypes' /\ TokenIffLeased' /\ LeavesPeers
         /\ \E i \in Id, token \in OwnTokens :
              /\ held' = [held EXCEPT ![t] = <<i, token>>] /\ jobs'[i].token = token
              /\ \A k \in Id \ {i} : Loosened(k)
<1>1. PICK mid \in Sweeps, i \in Id, token \in OwnTokens :
        Leases(mid, i, token, OwnTokens) /\ held' = [held EXCEPT ![t] = <<i, token>>]
  BY DEF LeaseOne
<1>2. QueueTypes /\ TokenIffLeased /\ OwnTokens \in SUBSET Token
  BY Handles, Constants DEF IInv
<1>3. /\ QueueTypes' /\ TokenIffLeased' /\ jobs'[i].token = token
      /\ jobs[i].state # "leased" \/ D!Lapsed(jobs[i])
      /\ \A k \in Id \ {i} : Loosened(k)
  BY <1>1, <1>2, OneLeased
<1>4. jobs[i].token = NoToken \/ D!Lapsed(jobs[i])
  BY <1>2, <1>3 DEF TokenIffLeased
<1>5. LeavesPeers
  BY <1>3, <1>4, Constants DEF LeavesPeers, Loosened
<1> QED
  BY <1>1, <1>3, <1>5

(* A thread records an outcome: the job is not in its name any more. *)
LEMMA OutcomeStep ==
  ASSUME IInv, NEW t \in Thread, Succeed(t) \/ Fail(t)
  PROVE  /\ QueueTypes' /\ TokenIffLeased' /\ KeepsOwn /\ LeavesPeers
         /\ jobs'[held[t][1]].token # held[t][2]
<1> DEFINE h == held[t]
<1>1. h \in Id \X OwnTokens /\ h[1] \in Id /\ h[2] \in OwnTokens /\ h[2] # NoToken
  BY Handles, Constants DEF IInv, Succeed, Fail
<1>2. QueueTypes /\ TokenIffLeased /\ now \in Nat
  BY Handles, Constants DEF IInv, QueueTypes
<1>3. PICK mid \in Sweeps :
        \/ Holds(mid, h) /\ \E j \in {D!Released(mid[h[1]], "done")} \cup D!Failed(mid[h[1]]) :
                               Changes(mid, h[1], j)
        \/ ~Holds(mid, h) /\ ChangesNothing(mid)
  BY DEF Succeed, Fail, Holds
<1>4. mid[h[1]] \in D!Job /\ (mid[h[1]].token # NoToken => mid[h[1]].state = "leased")
  BY <1>1, <1>2, SweptJobs DEF QueueTypes, TokenIffLeased
<1>5. ASSUME Holds(mid, h), NEW j \in {D!Released(mid[h[1]], "done")} \cup D!Failed(mid[h[1]]),
             Changes(mid, h[1], j)
      PROVE  /\ QueueTypes' /\ TokenIffLeased' /\ KeepsOwn /\ LeavesPeers
             /\ jobs'[h[1]].token # h[2]
  <2>1. j \in D!Job /\ j.token = NoToken /\ j.state # "leased"
    BY <1>2, <1>4, <1>5, LetGo, ReleasedJob
  <2> QED
    BY <1>1, <1>2, <1>5, <2>1, Acting
<1>6. ASSUME ~Holds(mid, h), ChangesNothing(mid)
      PROVE  /\ QueueTypes' /\ TokenIffLeased' /\ KeepsOwn /\ LeavesPeers
             /\ jobs'[h[1]].token # h[2]
  <2>1. jobs' = mid
    BY <1>6 DEF ChangesNothing
  <2>2. mid[h[1]].token # h[2]
    BY <1>1, <1>4, <1>6 DEF Holds
  <2> QED
    BY <1>2, <1>6, <2>1, <2>2, Reaping
<1> QED
  BY <1>3, <1>5, <1>6

(* The heartbeat extends a lease that is still this worker's. *)
LEMMA ExtendStep ==
  ASSUME IInv, ExtendOne
  PROVE  QueueTypes' /\ TokenIffLeased' /\ KeepsOwn /\ LeavesPeers
<1>1. PICK h \in beat.todo, mid \in Sweeps :
        \/ Holds(mid, h) /\ Changes(mid, h[1], [mid[h[1]] EXCEPT !.deadline = @ + Timeout])
        \/ ~Holds(mid, h) /\ ChangesNothing(mid)
  BY DEF ExtendOne
<1>2. h \in Id \X OwnTokens /\ QueueTypes /\ TokenIffLeased
  BY Handles DEF IInv
<1>3. CASE ~Holds(mid, h) /\ ChangesNothing(mid)
  BY <1>2, <1>3, Reaping
<1>4. ASSUME Holds(mid, h), Changes(mid, h[1], [mid[h[1]] EXCEPT !.deadline = @ + Timeout])
      PROVE  QueueTypes' /\ TokenIffLeased' /\ KeepsOwn /\ LeavesPeers
  <2>1. mid[h[1]] \in D!Job
    BY <1>2, SweptJobs, Constants DEF QueueTypes
  <2>2. PICK j \in D!Job : /\ j.state = "leased" /\ j.token = h[2]
                          /\ Changes(mid, h[1], j)
    BY <1>4, <2>1, Constants DEF Holds, D!Job
  <2>3. j.token # NoToken
    BY <1>2, <2>2, Constants
  <2> QED
    BY <1>2, <1>4, <2>2, <2>3, Acting
<1> QED
  BY <1>1, <1>3, <1>4

(* Peers enqueue, lease, finish and remove jobs: none of it is in this worker's name. *)
LEMMA PeerStep ==
  ASSUME IInv, PeerEnqueues \/ PeerLeases \/ PeerFinishes \/ PeerRemoves
  PROVE  QueueTypes' /\ TokenIffLeased' /\ KeepsOwn
<1>1. QueueTypes /\ TokenIffLeased /\ now \in Nat
  BY Handles, Constants DEF IInv, QueueTypes
<1>2. ASSUME NEW mid \in Sweeps, NEW i \in Id, NEW j \in D!Job, j.token = NoToken,
             j.state # "leased", Changes(mid, i, j)
      PROVE  QueueTypes' /\ TokenIffLeased' /\ KeepsOwn
  <2>1. jobs' = [mid EXCEPT ![i] = j] /\ now' = now /\ used' = used
    BY <1>2 DEF Changes
  <2>2. jobs' \in [Id -> D!Job] /\ TokenIffLeased' /\ jobs'[i] = j
        /\ \A k \in Id \ {i} : Loosened(k)
    BY <1>1, <1>2, <2>1, OneChanges
  <2>3. KeepsOwn
    BY <1>2, <2>2, Constants DEF KeepsOwn, Loosened
  <2> QED
    BY <1>1, <2>1, <2>2, <2>3 DEF QueueTypes
<1>3. CASE PeerEnqueues
  <2>1. PICK i \in Id, mid \in Sweeps, j \in D!Created : Changes(mid, i, j)
    BY <1>3 DEF PeerEnqueues
  <2>2. j \in D!Job /\ j.token = NoToken /\ j.state = "ready"
    BY <1>1, CreatedJob
  <2> QED
    BY <1>2, <2>1, <2>2
<1>4. CASE PeerLeases
  <2>1. PICK i \in Id, mid \in Sweeps, token \in Token \ OwnTokens :
          Leases(mid, i, token, Token \ OwnTokens)
    BY <1>4 DEF PeerLeases
  <2>2. /\ QueueTypes' /\ TokenIffLeased' /\ jobs'[i].token = token
        /\ \A k \in Id \ {i} : Loosened(k)
    BY <1>1, <2>1, OneLeased
  <2>3. KeepsOwn
    BY <2>2, Constants DEF KeepsOwn, Loosened
  <2> QED
    BY <2>2, <2>3
<1>5. CASE PeerFinishes
  <2>1. PICK i \in Id, mid \in Sweeps :
          \E j \in {D!Released(mid[i], "done")} \cup D!Failed(mid[i]) : Changes(mid, i, j)
    BY <1>5 DEF PeerFinishes
  <2>2. mid[i] \in D!Job
    BY <1>1, SweptJobs DEF QueueTypes
  <2>3. PICK j \in {D!Released(mid[i], "done")} \cup D!Failed(mid[i]) : Changes(mid, i, j)
    BY <2>1
  <2>4. j \in D!Job /\ j.token = NoToken /\ j.state # "leased"
    BY <1>1, <2>2, LetGo, ReleasedJob
  <2> QED
    BY <1>2, <2>3, <2>4
<1>6. CASE PeerRemoves
  <2>1. PICK mid \in Sweeps : \E gone :
          jobs' = [i \in Id |-> IF mid[i].state \in gone THEN D!Absent ELSE mid[i]]
    BY <1>6 DEF PeerRemoves
  <2>2. /\ mid \in [Id -> D!Job]
        /\ \A i \in Id : \/ mid[i] = jobs[i]
                         \/ mid[i].token = NoToken /\ mid[i].state # "leased"
    BY <1>1, SweptJobs DEF QueueTypes
  <2>3. D!Absent \in D!Job /\ D!Absent.token = NoToken /\ D!Absent.state # "leased"
    BY Constants DEF D!Absent, D!Job
  <2>4. \A i \in Id : jobs'[i] \in D!Job /\ (jobs'[i].token # NoToken => jobs'[i] = jobs[i])
                      /\ (jobs'[i].state = "leased" => jobs'[i] = jobs[i])
    BY <2>1, <2>2, <2>3
  <2>5. jobs' \in [Id -> D!Job]
    BY <2>1, <2>4
  <2>6. TokenIffLeased' /\ KeepsOwn
    BY <1>1, <2>4, Constants DEF TokenIffLeased, KeepsOwn
  <2> QED
    BY <1>1, <1>6, <2>5, <2>6 DEF PeerRemoves, QueueTypes
<1> QED
  BY <1>3, <1>4, <1>5, <1>6

-----------------------------------------------------------------------------
(***************************************************************************)
(* The inductive step, one lemma for each part of the invariant.           *)
(***************************************************************************)
(* The steps that call the queue and touch a job that may be this worker's. *)
Calling(t) == LeaseOne(t) \/ FindNothing(t) \/ Succeed(t) \/ Fail(t)

(* The steps of this worker that leave the queue alone. *)
Local(t) == Check(t) \/ LeaseFails(t) \/ StartHandler(t) \/ HandlerExits(t) \/ RecordFails(t)
Around ==
  BeatStarts \/ ExtendFails \/ BeatEnds \/ HeartbeatStops \/ Stop \/ ThreadsJoined \/ Return

(* They do leave it alone. *)
LEMMA LocalLeaves ==
  ASSUME (\E t \in Thread : Local(t)) \/ Around PROVE UNCHANGED queue
BY DEF Local, Around, Check, LeaseFails, StartHandler, HandlerExits, RecordFails, BeatStarts,
       ExtendFails, BeatEnds, HeartbeatStops, Stop, ThreadsJoined, Return

(* Next, sorted by what the proofs tell apart. *)
LEMMA Steps ==
  Next => \/ \E t \in Thread : Calling(t) \/ Local(t)
          \/ ExtendOne \/ Around \/ TimePasses
          \/ PeerEnqueues \/ PeerLeases \/ PeerFinishes \/ PeerRemoves
BY DEF Next, ThreadStep, Heartbeat, Calling, Local, Around

(* The queue's types, and that leased jobs are those with a token. *)
LEMMA QueueStep == IInv /\ [Next]_vars => QueueTypes' /\ TokenIffLeased'
<1> SUFFICES ASSUME IInv, [Next]_vars PROVE QueueTypes' /\ TokenIffLeased'
  OBVIOUS
<1>1. QueueTypes /\ TokenIffLeased
  BY Handles DEF IInv
<1>2. CASE UNCHANGED queue
  BY <1>1, <1>2 DEF queue, QueueTypes, TokenIffLeased
<1>3. ASSUME NEW t \in Thread, Calling(t) PROVE QueueTypes' /\ TokenIffLeased'
  <2>1. CASE FindNothing(t)
    BY <1>1, <2>1, Reaping DEF FindNothing
  <2> QED
    BY <1>3, <2>1, LeaseOneStep, OutcomeStep DEF Calling
<1>4. CASE TimePasses
  BY <1>1, <1>4, Constants DEF TimePasses, QueueTypes, TokenIffLeased
<1>5. CASE UNCHANGED vars
  BY <1>2, <1>5 DEF vars, queue
<1> QED
  BY <1>2, <1>3, <1>4, <1>5, Steps, LocalLeaves, ExtendStep, PeerStep

(* The types of the worker's own variables, and which places hold a job. *)
WorkerTypes ==
  /\ pc \in [Thread -> Places] /\ held \in [Thread -> (Id \X OwnTokens) \cup {NoJob}]
  /\ \A t \in Thread : held[t] # NoJob <=> pc[t] \in {"got", "running"}
BeatTypes ==
  beat \in [at : {"waiting", "beating", "ended", "dead"}, due : Nat,
             todo : SUBSET (Id \X OwnTokens)]
CountTypes ==
  /\ stop \in BOOLEAN /\ main \in {"threads", "heartbeat", "returned"}
  /\ stats \in [DOMAIN NoStats -> Nat] /\ faults \in Seq(Faults) /\ Len(faults) <= MaxFaults

(* A thread that goes from place to place holds what it held, or lets it go. *)
LEMMA ThreadTypes ==
  ASSUME WorkerTypes, NEW t \in Thread, NEW place \in Places, Goto(t, place),
         NEW h \in (Id \X OwnTokens) \cup {NoJob}, held' = [held EXCEPT ![t] = h],
         h # NoJob <=> place \in {"got", "running"}
  PROVE  WorkerTypes'
BY DEF WorkerTypes, Goto

(* Every step keeps the types of the threads. *)
LEMMA WorkerStep == IInv /\ [Next]_vars => WorkerTypes'
<1> SUFFICES ASSUME IInv, [Next]_vars PROVE WorkerTypes'
  OBVIOUS
<1>1. WorkerTypes
  BY DEF IInv, TypeOK, WorkerTypes
<1>2. CASE UNCHANGED <<pc, held>>
  BY <1>1, <1>2 DEF WorkerTypes
<1>3. ASSUME NEW t \in Thread, NEW place \in Places, Goto(t, place), UNCHANGED held,
             pc[t] \in {"got", "running"} <=>
             place \in {"got", "running"}
      PROVE  WorkerTypes'
  BY <1>1, <1>3 DEF WorkerTypes, Goto
<1>4. ASSUME NEW t \in Thread, NEW place \in {"check", "dead"}, Lands(t, place) PROVE WorkerTypes'
  BY <1>1, <1>4 DEF WorkerTypes, Goto, Lands, Places
<1>5. ASSUME NEW t \in Thread, LeaseOne(t) PROVE WorkerTypes'
  <2>1. PICK i \in Id, token \in OwnTokens : held' = [held EXCEPT ![t] = <<i, token>>]
    BY <1>5 DEF LeaseOne
  <2>2. <<i, token>> \in Id \X OwnTokens /\ <<i, token>> # NoJob
    BY Constants
  <2> QED
    BY <1>1, <1>5, <2>1, <2>2, ThreadTypes DEF LeaseOne, Places
<1>6. ASSUME NEW t \in Thread, Calling(t) \/ Local(t) PROVE WorkerTypes'
  <2>1. CASE Check(t) \/ FindNothing(t) \/ LeaseFails(t) \/ StartHandler(t)
    BY <1>3, <2>1 DEF Check, FindNothing, LeaseFails, StartHandler, Places
  <2>2. CASE HandlerExits(t)
    BY <1>3, <1>4, <2>2 DEF HandlerExits, Places
  <2>3. CASE Succeed(t) \/ Fail(t) \/ RecordFails(t)
    BY <1>4, <2>3 DEF Succeed, Fail, RecordFails
  <2> QED
    BY <1>5, <1>6, <2>1, <2>2, <2>3 DEF Calling, Local
<1>7. CASE ExtendOne \/ Around \/ TimePasses \/ PeerEnqueues \/ PeerLeases \/ PeerFinishes
           \/ PeerRemoves
  BY <1>2, <1>7 DEF ExtendOne, Around, TimePasses, PeerEnqueues, PeerLeases, PeerFinishes,
     PeerRemoves, BeatStarts, ExtendFails, BeatEnds, HeartbeatStops, Stop, ThreadsJoined, Return,
     worker
<1> QED
  BY <1>2, <1>6, <1>7, Steps DEF vars, worker

(* The heartbeat extends what threads hold. *)
LEMMA BeatStep == IInv /\ [Next]_vars => BeatTypes'
<1> SUFFICES ASSUME IInv, [Next]_vars PROVE BeatTypes'
  OBVIOUS
<1>1. BeatTypes /\ now \in Nat
  BY Constants DEF IInv, TypeOK, BeatTypes
<1>2. CASE UNCHANGED beat
  BY <1>1, <1>2 DEF BeatTypes
<1>3. CASE BeatStarts
  <2>1. InFlight \subseteq Id \X OwnTokens
    BY DEF IInv, TypeOK, InFlight
  <2>2. now + BeatTime \in Nat
    BY <1>1, Constants
  <2> QED
    BY <1>3, <2>1, <2>2 DEF BeatStarts, BeatTypes
<1>8. ASSUME NEW place \in {"ended", "dead"}, beat' = Over(place) PROVE BeatTypes'
  BY <1>8 DEF Over, BeatTypes
<1>4. CASE ExtendOne \/ ExtendFails
  <2>1. ASSUME NEW h, beat' = [beat EXCEPT !.todo = @ \ {h}] PROVE BeatTypes'
    BY <1>1, <2>1 DEF BeatTypes
  <2> QED
    BY <1>4, <1>8, <2>1 DEF ExtendOne, ExtendFails
<1>5. CASE BeatEnds \/ HeartbeatStops
  <2>1. CASE BeatEnds
    <3>1. now + Interval \in Nat
      BY <1>1, Constants
    <3> QED
      BY <1>1, <2>1, <3>1 DEF BeatEnds, BeatTypes
  <2> QED
    BY <1>5, <1>8, <2>1 DEF HeartbeatStops
<1>6. ASSUME NEW t \in Thread, Calling(t) \/ Local(t) PROVE UNCHANGED beat
  BY <1>6 DEF Calling, Local, Check, LeaseOne, FindNothing, LeaseFails, StartHandler, HandlerExits,
     Succeed, Fail, RecordFails
<1>7. CASE Stop \/ ThreadsJoined \/ Return \/ TimePasses \/ PeerEnqueues \/ PeerLeases
           \/ PeerFinishes \/ PeerRemoves
  BY <1>2, <1>7 DEF Stop, ThreadsJoined, Return, TimePasses, PeerEnqueues, PeerLeases,
     PeerFinishes, PeerRemoves, worker
<1> QED
  BY <1>2, <1>3, <1>4, <1>5, <1>6, <1>7, Steps DEF Around, vars, worker

(* Counting adds one to some counters. *)
LEMMA Counting ==
  ASSUME stats \in [DOMAIN NoStats -> Nat], NEW counters, Count(counters)
  PROVE  /\ stats' \in [DOMAIN NoStats -> Nat]
         /\ \A c \in {"leased", "succeeded", "failed", "lost_leases"} :
              stats'[c] = stats[c] + IF c \in counters THEN 1 ELSE 0
<1>1. {"leased", "succeeded", "failed", "lost_leases"} \subseteq DOMAIN NoStats
  BY DEF NoStats
<1> HIDE DEF NoStats
<1> QED
  BY <1>1 DEF Count

(* A fault is one of those the instance allows. *)
LEMMA Faulting ==
  ASSUME faults \in Seq(Faults), NEW kind, Fault(kind)
  PROVE  faults' \in Seq(Faults) /\ Len(faults') <= MaxFaults /\ faults' # <<>>
BY Constants DEF Fault

(* Every step keeps the types of the counters, the faults and of run's own state. *)
LEMMA CountStep == IInv /\ [Next]_vars => CountTypes'
<1> SUFFICES ASSUME IInv, [Next]_vars PROVE CountTypes'
  OBVIOUS
<1>1. CountTypes
  BY DEF IInv, TypeOK, CountTypes
<1>2. CASE UNCHANGED <<stop, main, stats, faults>>
  BY <1>1, <1>2 DEF CountTypes
<1>3. ASSUME NEW kind, Fault(kind), UNCHANGED <<stop, main, stats>> PROVE CountTypes'
  BY <1>1, <1>3, Faulting DEF CountTypes
<1>4. ASSUME NEW counters, Count(counters), UNCHANGED <<stop, main, faults>> PROVE CountTypes'
  BY <1>1, <1>4, Counting DEF CountTypes
<1>5. ASSUME NEW t \in Thread, Calling(t) \/ Local(t) PROVE CountTypes'
  <2>1. CASE Check(t) \/ LeaseOne(t) \/ FindNothing(t)
    BY <1>2, <2>1 DEF Check, LeaseOne, FindNothing
  <2>2. CASE LeaseFails(t) \/ RecordFails(t)
    BY <1>3, <2>2 DEF LeaseFails, RecordFails
  <2>3. CASE HandlerExits(t)
    BY <1>2, <1>3, <2>3 DEF HandlerExits
  <2>4. CASE StartHandler(t)
    BY <1>4, <2>4 DEF StartHandler
  <2>5. CASE Succeed(t)
    BY <1>2, <1>4, <2>5 DEF Succeed
  <2>6. CASE Fail(t)
    BY <1>2, <1>4, <2>6 DEF Fail
  <2> QED
    BY <1>5, <2>1, <2>2, <2>3, <2>4, <2>5, <2>6 DEF Calling, Local
<1>6. CASE Around
  <2>1. CASE ExtendFails
    BY <1>3, <2>1 DEF ExtendFails
  <2>2. CASE Stop \/ ThreadsJoined \/ Return
    BY <1>1, <2>2 DEF Stop, ThreadsJoined, Return, CountTypes
  <2> QED
    BY <1>2, <1>6, <2>1, <2>2 DEF Around, BeatStarts, BeatEnds, HeartbeatStops
<1>7. CASE ExtendOne \/ TimePasses \/ PeerEnqueues \/ PeerLeases \/ PeerFinishes \/ PeerRemoves
  BY <1>2, <1>7 DEF ExtendOne, TimePasses, PeerEnqueues, PeerLeases, PeerFinishes, PeerRemoves, worker
<1> QED
  BY <1>2, <1>5, <1>6, <1>7, Steps DEF vars, worker

(* What is leased to this worker is in some thread's hands. *)
LEMMA OwnStep == IInv /\ [Next]_vars => OwnLeasesHeld'
<1> SUFFICES ASSUME IInv, [Next]_vars, faults' = <<>>, NEW i \in Id, jobs'[i].token \in OwnTokens
             PROVE  \E t \in Thread : held'[t] = <<i, jobs'[i].token>>
  BY DEF OwnLeasesHeld
<1>1. faults \in Seq(Faults) /\ \A kind : ~Fault(kind)
  BY Faulting DEF IInv, TypeOK
<1>2. QueueTypes /\ TokenIffLeased /\ WorkerTypes /\ NoToken \notin OwnTokens
  BY Handles, Constants DEF IInv, TypeOK, WorkerTypes
<1>3. ASSUME NEW t \in Thread, Calling(t) \/ Local(t) PROVE UNCHANGED faults
  BY <1>1, <1>3 DEF Calling, Local, Check, LeaseOne, FindNothing, LeaseFails, StartHandler,
     HandlerExits, Succeed, Fail, RecordFails
<1>4. CASE ExtendOne \/ Around \/ TimePasses \/ PeerEnqueues \/ PeerLeases \/ PeerFinishes
           \/ PeerRemoves
  <2>1. UNCHANGED <<held, faults>>
    BY <1>1, <1>4 DEF ExtendOne, Around, TimePasses, PeerEnqueues, PeerLeases, PeerFinishes,
       PeerRemoves, BeatStarts, ExtendFails, BeatEnds, HeartbeatStops, Stop, ThreadsJoined,
       Return, worker
  <2>2. KeepsOwn
    <3>1. CASE Around \/ TimePasses
      BY <3>1, LocalLeaves DEF TimePasses, queue, KeepsOwn
    <3> QED
      BY <1>4, <3>1, ExtendStep, PeerStep
  <2> QED
    BY <2>1, <2>2 DEF IInv, OwnLeasesHeld, KeepsOwn
<1>5. ASSUME NEW t \in Thread, LeaseOne(t) PROVE \E u \in Thread : held'[u] = <<i, jobs'[i].token>>
  <2>1. PICK k \in Id, token \in OwnTokens :
          /\ held' = [held EXCEPT ![t] = <<k, token>>] /\ jobs'[k].token = token
          /\ \A m \in Id \ {k} : Loosened(m)
    BY <1>5, LeaseOneStep
  <2>2. CASE i = k
    BY <1>2, <2>1, <2>2 DEF WorkerTypes
  <2>3. CASE i # k
    <3>1. jobs'[i] = jobs[i]
      BY <1>2, <2>1, <2>3 DEF Loosened
    <3>2. PICK u \in Thread : held[u] = <<i, jobs[i].token>>
      BY <1>3, <1>5, <3>1 DEF Calling, IInv, OwnLeasesHeld
    <3>3. u # t
      BY <1>2, <1>5, <3>1, <3>2, Constants DEF LeaseOne, WorkerTypes
    <3> QED
      BY <1>2, <2>1, <3>1, <3>2, <3>3 DEF WorkerTypes
  <2> QED
    BY <2>2, <2>3
<1>6. ASSUME NEW t \in Thread, Succeed(t) \/ Fail(t)
      PROVE  \E u \in Thread : held'[u] = <<i, jobs'[i].token>>
  <2>1. KeepsOwn /\ jobs'[held[t][1]].token # held[t][2]
    BY <1>6, OutcomeStep
  <2>2. jobs[i].token = jobs'[i].token
    BY <2>1 DEF KeepsOwn
  <2>3. PICK u \in Thread : held[u] = <<i, jobs[i].token>>
    BY <1>3, <1>6, <2>2 DEF Calling, IInv, OwnLeasesHeld
  <2>4. u # t
    BY <2>1, <2>2, <2>3
  <2>5. held' = [held EXCEPT ![t] = NoJob]
    BY <1>6 DEF Succeed, Fail, Lands
  <2> QED
    BY <1>2, <2>2, <2>3, <2>4, <2>5 DEF WorkerTypes
<1>7. ASSUME NEW t \in Thread, FindNothing(t) \/ Local(t)
      PROVE  \E u \in Thread : held'[u] = <<i, jobs'[i].token>>
  <2>1. UNCHANGED <<held, faults>>
    BY <1>1, <1>7 DEF FindNothing, Local, Check, LeaseFails, StartHandler, HandlerExits, RecordFails
  <2>2. KeepsOwn
    <3>1. CASE FindNothing(t)
      BY <1>2, <3>1, Reaping DEF FindNothing
    <3>2. CASE Local(t)
      BY <3>2, LocalLeaves DEF queue, KeepsOwn
    <3> QED
      BY <1>7, <3>1, <3>2
  <2> QED
    BY <2>1, <2>2 DEF IInv, OwnLeasesHeld, KeepsOwn
<1>8. CASE UNCHANGED vars
  BY <1>8 DEF IInv, OwnLeasesHeld, vars, queue, worker
<1> QED
  BY <1>4, <1>5, <1>6, <1>7, <1>8, Steps DEF Calling

(* The threads past the check and the jobs counted keep under the cap and the threads. *)
LEMMA RoomStep == IInv /\ [Next]_vars => RoomUnderCap'
<1> SUFFICES ASSUME IInv, [Next]_vars PROVE RoomUnderCap'
  OBVIOUS
<1>1. /\ WorkerTypes /\ stats \in [DOMAIN NoStats -> Nat] /\ stats.leased \in Nat
      /\ stats.leased + Cardinality(Leasing) < MaxJobs + Cardinality(Thread)
  BY DEF IInv, TypeOK, WorkerTypes, RoomUnderCap, NoStats
<1>2. /\ Leasing \subseteq Thread /\ Leasing' \subseteq Thread
      /\ IsFiniteSet(Leasing) /\ IsFiniteSet(Leasing')
      /\ Cardinality(Leasing) \in Nat /\ Cardinality(Leasing') \in Nat
      /\ Cardinality(Thread) \in Nat /\ Cardinality(Leasing') <= Cardinality(Thread)
  <2>1. Leasing \subseteq Thread /\ Leasing' \subseteq Thread
    BY DEF Leasing
  <2> QED
    BY <2>1, FS_Subset, FS_CardinalityType, Constants
<1>3. ASSUME stats'.leased = stats.leased, Leasing' \subseteq Leasing PROVE RoomUnderCap'
  <2>1. Cardinality(Leasing') <= Cardinality(Leasing)
    BY <1>2, <1>3, FS_Subset
  <2> QED
    BY <1>1, <1>2, <1>3, <2>1, Constants DEF RoomUnderCap
<1>4. ASSUME NEW t \in Thread, NEW place, Goto(t, place), place \notin {"lease", "got"} \/ t \in Leasing
      PROVE  Leasing' \subseteq Leasing
  BY <1>1, <1>4 DEF WorkerTypes, Goto, Leasing
<1>5. ASSUME NEW t \in Thread, StartHandler(t) PROVE RoomUnderCap'
  <2>1. t \in Leasing /\ Leasing' = Leasing \ {t}
    BY <1>1, <1>5 DEF WorkerTypes, StartHandler, Goto, Leasing
  <2>2. Cardinality(Leasing') = Cardinality(Leasing) - 1
    BY <1>2, <2>1, FS_RemoveElement
  <2>3. stats'.leased = stats.leased + 1
    BY <1>1, <1>5, Counting DEF StartHandler
  <2> QED
    BY <1>1, <1>2, <2>2, <2>3, Constants DEF RoomUnderCap
<1>6. ASSUME NEW t \in Thread, Check(t) PROVE RoomUnderCap'
  <2>1. UNCHANGED stats
    BY <1>6 DEF Check
  <2>2. CASE ReachedCap \/ stop
    BY <1>3, <1>4, <1>6, <2>1, <2>2 DEF Check
  <2>3. CASE ~ReachedCap
    BY <1>1, <1>2, <2>1, <2>3, Constants DEF ReachedCap, RoomUnderCap
  <2> QED
    BY <2>2, <2>3
<1>7. ASSUME NEW t \in Thread, LeaseOne(t) \/ FindNothing(t) \/ LeaseFails(t) \/ HandlerExits(t)
                               \/ RecordFails(t)
      PROVE  RoomUnderCap'
  <2>1. UNCHANGED stats
    BY <1>7 DEF LeaseOne, FindNothing, LeaseFails, HandlerExits, RecordFails
  <2>2. Leasing' \subseteq Leasing
    BY <1>4, <1>7 DEF LeaseOne, FindNothing, LeaseFails, HandlerExits, RecordFails, Lands, Leasing
  <2> QED
    BY <1>3, <2>1, <2>2
<1>8. ASSUME NEW t \in Thread, Succeed(t) \/ Fail(t) PROVE RoomUnderCap'
  <2>1. UNCHANGED stats \/ \E counters \in SUBSET {"succeeded", "failed", "dead", "lost_leases"} :
                              Count(counters)
    BY <1>8 DEF Succeed, Fail
  <2>2. stats'.leased = stats.leased
    BY <1>1, <2>1, Counting
  <2>3. Leasing' \subseteq Leasing
    BY <1>4, <1>8 DEF Succeed, Fail, Lands
  <2> QED
    BY <1>3, <2>2, <2>3
<1>9. CASE ExtendOne \/ Around \/ TimePasses \/ PeerEnqueues \/ PeerLeases \/ PeerFinishes
           \/ PeerRemoves \/ UNCHANGED vars
  <2>1. UNCHANGED <<pc, stats>>
    BY <1>9 DEF ExtendOne, Around, TimePasses, PeerEnqueues, PeerLeases, PeerFinishes,
       PeerRemoves, BeatStarts, ExtendFails, BeatEnds, HeartbeatStops, Stop, ThreadsJoined,
       Return, worker, vars
  <2> QED
    BY <1>3, <2>1 DEF Leasing
<1> QED
  BY <1>5, <1>6, <1>7, <1>8, <1>9, Steps DEF Calling, Local

(* run waits for every thread. *)
LEMMA JoinedStep == IInv /\ [Next]_vars => Joined'
<1> SUFFICES ASSUME IInv, [Next]_vars PROVE Joined'
  OBVIOUS
<1>1. ASSUME NEW t \in Thread, Calling(t) \/ Local(t)
      PROVE  pc[t] \notin {"ended", "dead"} /\ UNCHANGED main
  BY <1>1 DEF Calling, Local, Check, LeaseOne, FindNothing, LeaseFails, StartHandler, HandlerExits,
     Succeed, Fail, RecordFails
<1>2. CASE ThreadsJoined
  BY <1>2 DEF ThreadsJoined, Joined
<1>3. CASE Return
  BY <1>3 DEF Return, Joined, IInv
<1>4. CASE UNCHANGED <<pc, main>>
  BY <1>4 DEF Joined, IInv
<1>5. CASE ExtendOne \/ TimePasses \/ PeerEnqueues \/ PeerLeases \/ PeerFinishes \/ PeerRemoves
           \/ BeatStarts \/ ExtendFails \/ BeatEnds \/ HeartbeatStops \/ Stop
  BY <1>4, <1>5 DEF ExtendOne, TimePasses, PeerEnqueues, PeerLeases, PeerFinishes, PeerRemoves,
     BeatStarts, ExtendFails, BeatEnds, HeartbeatStops, Stop, worker
<1> QED
  BY <1>1, <1>2, <1>3, <1>4, <1>5, Steps DEF Joined, IInv, Around, vars, worker


-----------------------------------------------------------------------------
(***************************************************************************)
(* Handles.  A lease gives a job a token nobody had, and runs for Timeout. *)
(***************************************************************************)
(* What a lease writes, and that its token is new. *)
Gave(mid, i, token) ==
  /\ mid[i].state = "ready" /\ now' = now
  /\ used' = used \cup {<<i, token>>} /\ \A u \in used : u[2] # token
  /\ jobs'[i].state = "leased" /\ jobs'[i].token = token
  /\ jobs'[i].deadline = now + Timeout
  /\ \A k \in Id \ {i} : jobs'[k] = mid[k]

LEMMA LeaseWrites ==
  ASSUME QueueTypes, NEW mid \in Sweeps, NEW i \in Id, NEW tokens \in SUBSET Token,
         NEW token \in tokens, Leases(mid, i, token, tokens)
  PROVE  Gave(mid, i, token)
<1>1. now \in Nat
  BY Constants DEF QueueTypes
<1>2. mid \in [Id -> D!Job]
  BY <1>1, SweptJobs DEF QueueTypes
<1>3. /\ jobs' = [mid EXCEPT ![i] = D!Leased(mid[i], Timeout, token)]
      /\ now' = now /\ used' = used \cup {<<i, token>>} /\ mid[i].state = "ready"
  BY DEF Leases, Eligible
<1>4. \A u \in used : u[2] # token
  BY DEF Leases
<1>5. /\ D!Leased(mid[i], Timeout, token).state = "leased"
      /\ D!Leased(mid[i], Timeout, token).token = token
      /\ D!Leased(mid[i], Timeout, token).deadline = now + Timeout
  BY <1>2 DEF D!Leased, D!Job
<1> QED
  BY <1>2, <1>3, <1>4, <1>5 DEF Gave

(* Leases that were given stay given; a thread gets one that is new, or none, or keeps its own. *)
LEMMA HandleSteps ==
  ASSUME IInv, [Next]_vars
  PROVE  /\ used \subseteq used'
         /\ \/ held' = held
            \/ \E t \in Thread : held' = [held EXCEPT ![t] = NoJob]
            \/ \E t \in Thread, h \in used' \ used : held' = [held EXCEPT ![t] = h]
<1>1. QueueTypes /\ OwnTokens \in SUBSET Token /\ Token \ OwnTokens \in SUBSET Token
  BY Handles, Constants DEF IInv
<1>2. ASSUME NEW t \in Thread, LeaseOne(t)
      PROVE  used \subseteq used' /\ \E h \in used' \ used : held' = [held EXCEPT ![t] = h]
  <2>1. PICK mid \in Sweeps, i \in Id, token \in OwnTokens :
          Leases(mid, i, token, OwnTokens) /\ held' = [held EXCEPT ![t] = <<i, token>>]
    BY <1>2 DEF LeaseOne
  <2>2. Gave(mid, i, token)
    BY <1>1, <2>1, LeaseWrites
  <2>3. used \subseteq used' /\ <<i, token>> \in used' \ used
    BY <2>2 DEF Gave
  <2> QED
    BY <2>1, <2>3
<1>3. CASE PeerLeases
  <2>1. PICK i \in Id, mid \in Sweeps, token \in Token \ OwnTokens :
          Leases(mid, i, token, Token \ OwnTokens)
    BY <1>3 DEF PeerLeases
  <2>2. Gave(mid, i, token)
    BY <1>1, <2>1, LeaseWrites
  <2> QED
    BY <1>3, <2>2 DEF Gave, PeerLeases, worker
<1>4. ASSUME NEW t \in Thread, FindNothing(t) \/ Check(t) \/ LeaseFails(t) \/ StartHandler(t)
      PROVE  UNCHANGED <<used, held>>
  BY <1>4 DEF FindNothing, ChangesNothing, Check, LeaseFails, StartHandler, queue
<1>5. ASSUME NEW t \in Thread, HandlerExits(t) \/ Succeed(t) \/ Fail(t) \/ RecordFails(t)
      PROVE  used' = used /\ (held' = held \/ held' = [held EXCEPT ![t] = NoJob])
  BY <1>5 DEF HandlerExits, Succeed, Fail, RecordFails, Lands, Changes, ChangesNothing, queue
<1>6. CASE ExtendOne \/ Around \/ TimePasses \/ PeerEnqueues \/ PeerFinishes \/ PeerRemoves
           \/ UNCHANGED vars
  BY <1>6, LocalLeaves DEF ExtendOne, Around, TimePasses, PeerEnqueues, PeerFinishes, PeerRemoves,
     BeatStarts, ExtendFails, BeatEnds, HeartbeatStops, Stop, ThreadsJoined, Return, Changes,
     ChangesNothing, worker, vars, queue
<1> QED
  BY <1>2, <1>3, <1>4, <1>5, <1>6, Steps DEF Calling, Local

(* Handles are leases that were given, each to one thread. *)
LEMMA HandleStep == IInv /\ [Next]_vars => HandlesUsed' /\ HandlesDiffer'
<1> SUFFICES ASSUME IInv, [Next]_vars PROVE HandlesUsed' /\ HandlesDiffer'
  OBVIOUS
<1>1. WorkerTypes /\ HandlesUsed /\ HandlesDiffer /\ used \subseteq used'
  BY HandleSteps DEF IInv, TypeOK, WorkerTypes
<1>2. CASE held' = held
  BY <1>1, <1>2 DEF HandlesUsed, HandlesDiffer
<1>3. ASSUME NEW t \in Thread, held' = [held EXCEPT ![t] = NoJob] PROVE HandlesUsed' /\ HandlesDiffer'
  BY <1>1, <1>3 DEF WorkerTypes, HandlesUsed, HandlesDiffer
<1>4. ASSUME NEW t \in Thread, NEW h \in used' \ used, held' = [held EXCEPT ![t] = h]
      PROVE  HandlesUsed' /\ HandlesDiffer'
  BY <1>1, <1>4 DEF WorkerTypes, HandlesUsed, HandlesDiffer
<1> QED
  BY <1>2, <1>3, <1>4, HandleSteps

(* What the reap that begins a call leaves of a job that has not lapsed. *)
LEMMA NotSwept ==
  ASSUME QueueTypes, NEW mid \in Sweeps, NEW k \in Id, ~D!Lapsed(jobs[k])
  PROVE  mid[k] = jobs[k] /\ mid \in [Id -> D!Job]
<1>1. now \in Nat
  BY Constants DEF QueueTypes
<1> QED
  BY <1>1, SweptJobs DEF QueueTypes

(* A job that was removed stays away: ids are not used again. *)
LEMMA RemovedStays ==
  ASSUME IInv, [Next]_vars, NEW h \in used, jobs[h[1]].state = "absent"
  PROVE  jobs'[h[1]].state = "absent"
<1> DEFINE k == h[1]
<1>1. QueueTypes /\ TokenIffLeased /\ OwnTokens \in SUBSET Token /\ Token \ OwnTokens \in SUBSET Token
  BY Handles, Constants DEF IInv
<1>2. k \in Id /\ ~D!Lapsed(jobs[k])
  BY <1>1 DEF QueueTypes, D!Lapsed
<1>3. \A mid \in Sweeps : mid[k] = jobs[k] /\ mid \in [Id -> D!Job]
  BY <1>1, <1>2, NotSwept
<1>4. ASSUME NEW mid \in Sweeps, NEW i \in Id, NEW tokens \in SUBSET Token,
             NEW token \in tokens, Leases(mid, i, token, tokens)
      PROVE  jobs'[k] = jobs[k]
  <2>1. Gave(mid, i, token)
    BY <1>1, <1>4, LeaseWrites
  <2> QED
    BY <1>2, <1>3, <2>1 DEF Gave
<1>5. ASSUME NEW mid \in Sweeps, NEW i \in Id, i # k, NEW j, Changes(mid, i, j)
      PROVE  jobs'[k] = jobs[k]
  BY <1>2, <1>3, <1>5 DEF Changes
<1>6. ASSUME NEW mid \in Sweeps, ChangesNothing(mid) PROVE jobs'[k] = jobs[k]
  BY <1>3, <1>6 DEF ChangesNothing
<1>7. CASE UNCHANGED jobs
  BY <1>7
<1>8. ASSUME NEW t \in Thread, LeaseOne(t) PROVE jobs'[k] = jobs[k]
  BY <1>1, <1>4, <1>8 DEF LeaseOne
<1>9. ASSUME NEW t \in Thread, FindNothing(t) PROVE jobs'[k] = jobs[k]
  BY <1>6, <1>9 DEF FindNothing
<1>10. ASSUME NEW t \in Thread, Succeed(t) \/ Fail(t) PROVE jobs'[k] = jobs[k]
  <2> DEFINE g == held[t]
  <2>1. g[1] \in Id
    BY <1>10, Handles DEF IInv, Succeed, Fail
  <2>2. PICK mid \in Sweeps :
          \/ Holds(mid, g) /\ \E j : Changes(mid, g[1], j)
          \/ ChangesNothing(mid)
    BY <1>10 DEF Succeed, Fail
  <2>3. Holds(mid, g) => g[1] # k
    BY <1>3 DEF Holds
  <2> QED
    BY <1>5, <1>6, <2>1, <2>2, <2>3
<1>11. CASE ExtendOne
  <2>1. PICK g \in beat.todo, mid \in Sweeps :
          \/ Holds(mid, g) /\ \E j : Changes(mid, g[1], j)
          \/ ChangesNothing(mid)
    BY <1>11 DEF ExtendOne
  <2>2. g[1] \in Id /\ (Holds(mid, g) => g[1] # k)
    BY <1>3, <2>1, Handles DEF Holds, IInv
  <2> QED
    BY <1>5, <1>6, <2>1, <2>2
<1>12. CASE PeerEnqueues
  <2>1. PICK i \in Id, mid \in Sweeps : i # k /\ \E j : Changes(mid, i, j)
    BY <1>12 DEF PeerEnqueues
  <2> QED
    BY <1>5, <2>1
<1>13. CASE PeerLeases
  BY <1>1, <1>4, <1>13 DEF PeerLeases
<1>14. CASE PeerFinishes
  <2>1. PICK i \in Id, mid \in Sweeps : mid[i].token \in Token \ OwnTokens /\ \E j : Changes(mid, i, j)
    BY <1>14 DEF PeerFinishes
  <2>2. i # k
    BY <1>1, <1>2, <1>3, <2>1, Constants DEF TokenIffLeased
  <2> QED
    BY <1>5, <2>1, <2>2
<1>15. CASE PeerRemoves
  <2>1. PICK mid \in Sweeps : \E gone :
          jobs' = [i \in Id |-> IF mid[i].state \in gone THEN D!Absent ELSE mid[i]]
    BY <1>15 DEF PeerRemoves
  <2>2. D!Absent.state = "absent"
    BY DEF D!Absent
  <2> QED
    BY <1>2, <1>3, <2>1, <2>2
<1>16. CASE TimePasses
  BY <1>7, <1>16 DEF TimePasses
<1>17. CASE (\E t \in Thread : Local(t)) \/ Around
  BY <1>7, <1>17, LocalLeaves DEF queue
<1>18. CASE UNCHANGED vars
  BY <1>7, <1>18 DEF vars, queue
<1> QED
  BY <1>8, <1>9, <1>10, <1>11, <1>12, <1>13, <1>14, <1>15, <1>16, <1>17, <1>18, Steps DEF Calling

(* Only its holder, by its outcome or its heartbeat, or a removal changes a job leased *)
(* to this worker on a lease that has not run out.                                      *)
LEMMA LeaseStays ==
  ASSUME IInv, [Next]_vars, ~ExtendOne, NEW h \in Id \X OwnTokens, Holds(jobs, h),
         ~D!Lapsed(jobs[h[1]])
  PROVE  \/ jobs'[h[1]] = jobs[h[1]] \/ jobs'[h[1]].state = "absent"
         \/ \E t \in Thread : (Succeed(t) \/ Fail(t)) /\ held[t] = h
<1> DEFINE k == h[1]
<1>1. QueueTypes /\ TokenIffLeased /\ OwnTokens \in SUBSET Token /\ Token \ OwnTokens \in SUBSET Token
  BY Handles, Constants DEF IInv
<1>2. k \in Id /\ jobs[k].state = "leased" /\ jobs[k].token = h[2] /\ h[2] \in OwnTokens
  BY DEF Holds
<1>3. \A mid \in Sweeps : mid[k] = jobs[k] /\ mid \in [Id -> D!Job]
  BY <1>1, <1>2, NotSwept
<1>4. ASSUME NEW mid \in Sweeps, NEW i \in Id, NEW tokens \in SUBSET Token,
             NEW token \in tokens, Leases(mid, i, token, tokens)
      PROVE  jobs'[k] = jobs[k]
  <2>1. Gave(mid, i, token)
    BY <1>1, <1>4, LeaseWrites
  <2> QED
    BY <1>2, <1>3, <2>1 DEF Gave
<1>5. ASSUME NEW mid \in Sweeps, NEW i \in Id, i # k, NEW j, Changes(mid, i, j)
      PROVE  jobs'[k] = jobs[k]
  BY <1>2, <1>3, <1>5 DEF Changes
<1>6. ASSUME NEW mid \in Sweeps, ChangesNothing(mid) PROVE jobs'[k] = jobs[k]
  BY <1>3, <1>6 DEF ChangesNothing
<1>7. CASE UNCHANGED jobs
  BY <1>7
<1>8. ASSUME NEW t \in Thread, LeaseOne(t) PROVE jobs'[k] = jobs[k]
  BY <1>1, <1>4, <1>8 DEF LeaseOne
<1>9. ASSUME NEW t \in Thread, FindNothing(t) PROVE jobs'[k] = jobs[k]
  BY <1>6, <1>9 DEF FindNothing
<1>10. ASSUME NEW t \in Thread, Succeed(t) \/ Fail(t), held[t] # h PROVE jobs'[k] = jobs[k]
  <2> DEFINE g == held[t]
  <2>1. g \in Id \X OwnTokens
    BY <1>10, Handles DEF IInv, Succeed, Fail
  <2>2. PICK mid \in Sweeps :
          \/ Holds(mid, g) /\ \E j : Changes(mid, g[1], j)
          \/ ChangesNothing(mid)
    BY <1>10 DEF Succeed, Fail
  <2>3. Holds(mid, g) => g[1] # k
    <3>1. ASSUME Holds(mid, g), g[1] = k PROVE g = h
      BY <1>2, <1>3, <2>1, <3>1 DEF Holds
    <3> QED
      BY <1>10, <3>1
  <2> QED
    BY <1>5, <1>6, <2>1, <2>2, <2>3
<1>12. CASE PeerEnqueues
  <2>1. PICK i \in Id, mid \in Sweeps : mid[i] = D!Absent /\ \E j : Changes(mid, i, j)
    BY <1>12 DEF PeerEnqueues
  <2>2. i # k
    BY <1>2, <1>3, <2>1 DEF D!Absent
  <2> QED
    BY <1>5, <2>1, <2>2
<1>13. CASE PeerLeases
  BY <1>1, <1>4, <1>13 DEF PeerLeases
<1>14. CASE PeerFinishes
  <2>1. PICK i \in Id, mid \in Sweeps : mid[i].token \in Token \ OwnTokens /\ \E j : Changes(mid, i, j)
    BY <1>14 DEF PeerFinishes
  <2>2. i # k
    BY <1>2, <1>3, <2>1
  <2> QED
    BY <1>5, <2>1, <2>2
<1>15. CASE PeerRemoves
  <2>1. PICK mid \in Sweeps : \E gone :
          jobs' = [i \in Id |-> IF mid[i].state \in gone THEN D!Absent ELSE mid[i]]
    BY <1>15 DEF PeerRemoves
  <2>2. D!Absent.state = "absent"
    BY DEF D!Absent
  <2> QED
    BY <1>2, <1>3, <2>1, <2>2
<1>16. CASE TimePasses
  BY <1>7, <1>16 DEF TimePasses
<1>17. CASE (\E t \in Thread : Local(t)) \/ Around
  BY <1>7, <1>17, LocalLeaves DEF queue
<1>18. CASE UNCHANGED vars
  BY <1>7, <1>18 DEF vars, queue
<1> QED
  BY <1>8, <1>9, <1>10, <1>12, <1>13, <1>14, <1>15, <1>16, <1>17, <1>18, Steps DEF Calling

-----------------------------------------------------------------------------
(***************************************************************************)
(* Time and the heartbeat.                                                 *)
(***************************************************************************)
(* Once told to stop, always; a heartbeat that died stays dead. *)
LEMMA StopStays == IInv /\ [Next]_vars => (stop => stop') /\ (beat.at = "dead" => beat'.at = "dead")
<1> SUFFICES ASSUME IInv, [Next]_vars
             PROVE  (stop => stop') /\ (beat.at = "dead" => beat'.at = "dead")
  OBVIOUS
<1>1. ASSUME NEW t \in Thread, Calling(t) \/ Local(t) PROVE UNCHANGED <<stop, beat>>
  BY <1>1 DEF Calling, Local, Check, LeaseOne, FindNothing, LeaseFails, StartHandler, HandlerExits,
     Succeed, Fail, RecordFails
<1>2. CASE ExtendOne \/ TimePasses \/ PeerEnqueues \/ PeerLeases \/ PeerFinishes \/ PeerRemoves
           \/ UNCHANGED vars
  BY <1>2 DEF ExtendOne, TimePasses, PeerEnqueues, PeerLeases, PeerFinishes, PeerRemoves, worker, vars
<1>3. CASE Around
  BY <1>3 DEF Around, BeatStarts, ExtendFails, BeatEnds, HeartbeatStops, Stop, ThreadsJoined, Return
<1> QED
  BY <1>1, <1>2, <1>3, Steps

(* The clock waits for the heartbeat and for a thread that is about to start a handler. *)
LEMMA ClockStep ==
  ASSUME IInv, [Next]_vars
  PROVE  \/ now' = now
         \/ TimePasses /\ now' = now + 1 /\ UNCHANGED <<beat, pc, held, stop, faults>>
<1>1. ASSUME NEW t \in Thread, Calling(t) PROVE now' = now
  BY <1>1 DEF Calling, LeaseOne, FindNothing, Succeed, Fail, Changes, ChangesNothing, Leases
<1>2. CASE ExtendOne \/ PeerEnqueues \/ PeerLeases \/ PeerFinishes \/ PeerRemoves \/ UNCHANGED vars
  BY <1>2 DEF ExtendOne, PeerEnqueues, PeerLeases, PeerFinishes, PeerRemoves, Changes,
     ChangesNothing, Leases, vars, queue
<1>3. CASE (\E t \in Thread : Local(t)) \/ Around
  BY <1>3, LocalLeaves DEF queue
<1>4. CASE TimePasses
  BY <1>4 DEF TimePasses, worker
<1> QED
  BY <1>1, <1>2, <1>3, <1>4, Steps

(* A beat is due within the interval, or over in time, and is not passed by. *)
LEMMA BeatSoonStep == IInv /\ [Next]_vars => BeatSoon'
<1> SUFFICES ASSUME IInv, [Next]_vars PROVE BeatSoon'
  OBVIOUS
<1>1. /\ BeatSoon /\ BeatTypes /\ now \in Nat /\ Interval \in Nat /\ BeatTime \in Nat
      /\ beat.due \in Nat /\ (stop => stop') /\ stop \in BOOLEAN /\ stop' \in BOOLEAN
  BY StopStays, CountStep, Constants DEF IInv, TypeOK, BeatTypes, CountTypes
<1>2. CASE now' = now /\ beat'.at = beat.at /\ beat'.due = beat.due
  <2>1. beat.at = "ended" => stop'
    BY <1>1 DEF BeatSoon
  <2>2. beat.at = "waiting" => beat.due <= now + Interval /\ (stop' \/ now <= beat.due)
    BY <1>1 DEF BeatSoon
  <2>3. beat.at = "beating" => beat.due <= now + BeatTime /\ (stop' \/ now <= beat.due)
    BY <1>1 DEF BeatSoon
  <2> QED
    BY <1>2, <2>1, <2>2, <2>3 DEF BeatSoon
<1>3. CASE TimePasses
  BY <1>1, <1>3 DEF TimePasses, worker, BeatSoon
<1>4. CASE BeatEnds \/ HeartbeatStops
  <2>1. CASE BeatEnds
    BY <1>1, <2>1 DEF BeatEnds, queue, BeatSoon, BeatTypes
  <2>2. CASE HeartbeatStops
    <3>1. beat'.at = "ended" /\ stop'
      BY <1>1, <2>2 DEF HeartbeatStops, Over
    <3> QED
      BY <3>1 DEF BeatSoon
  <2> QED
    BY <1>4, <2>1, <2>2
<1>5. CASE BeatStarts
  BY <1>1, <1>5 DEF BeatStarts, queue, BeatSoon
<1>6. CASE ExtendOne \/ ExtendFails
  <2>1. beat'.at = "dead" \/ (now' = now /\ beat'.at = beat.at /\ beat'.due = beat.due)
    <3>1. ASSUME NEW h, beat' = [beat EXCEPT !.todo = @ \ {h}]
          PROVE  beat'.at = beat.at /\ beat'.due = beat.due
      BY <1>1, <3>1 DEF BeatTypes
    <3>2. beat' = Over("dead") => beat'.at = "dead"
      BY DEF Over
    <3> QED
      BY <1>6, <3>1, <3>2 DEF ExtendOne, ExtendFails, Changes, ChangesNothing, queue
  <2> QED
    BY <1>2, <2>1 DEF BeatSoon
<1>7. ASSUME NEW t \in Thread, Calling(t) \/ Local(t) PROVE UNCHANGED beat
  BY <1>7 DEF Calling, Local, Check, LeaseOne, FindNothing, LeaseFails, StartHandler, HandlerExits,
     Succeed, Fail, RecordFails
<1>8. ASSUME Stop \/ ThreadsJoined \/ Return \/ PeerEnqueues \/ PeerLeases \/ PeerFinishes
             \/ PeerRemoves \/ UNCHANGED vars
      PROVE  UNCHANGED beat
  BY <1>8 DEF Stop, ThreadsJoined, Return, PeerEnqueues, PeerLeases, PeerFinishes, PeerRemoves,
     worker, vars
<1> QED
  <2>1. UNCHANGED beat => BeatSoon'
    BY <1>2, <1>3, ClockStep
  <2>2. CASE Around
    BY <1>4, <1>5, <1>6, <1>8, <2>1, <2>2 DEF Around
  <2> QED
    BY <1>3, <1>6, <1>7, <1>8, <2>1, <2>2, Steps

(* What the faults to come may still spoil: a round less with each that has come. *)
LEMMA SpareTypes == TypeOK => Spare \in Nat /\ Spare <= MaxFaults * Round
<1> SUFFICES ASSUME TypeOK PROVE Spare \in Nat /\ Spare <= MaxFaults * Round
  OBVIOUS
<1>1. Len(faults) \in Nat /\ Len(faults) <= MaxFaults /\ MaxFaults \in Nat /\ Round \in Nat
  BY Constants DEF TypeOK
<1>2. \A n, m, k \in Nat : n <= m => (m - n) * k \in Nat /\ (m - n) * k <= m * k
  OBVIOUS
<1> QED
  BY <1>1, <1>2 DEF Spare

LEMMA SpareFault ==
  ASSUME TypeOK, NEW kind, Fault(kind)
  PROVE  Spare' = Spare - Round
<1>1. /\ Len(faults) \in Nat /\ Len(faults') = Len(faults) + 1
      /\ MaxFaults \in Nat /\ Round \in Nat
  BY Constants DEF TypeOK, Fault
<1>2. \A n, m, k \in Nat : (m - (n + 1)) * k = (m - n) * k - k
  OBVIOUS
<1> QED
  BY <1>1, <1>2 DEF Spare

(* Faults only ever grow in number. *)
LEMMA SpareStep ==
  ASSUME IInv, [Next]_vars
  PROVE  Spare' = Spare \/ Spare' = Spare - Round
<1>1. CASE UNCHANGED faults
  BY <1>1 DEF Spare
<1>2. ASSUME NEW kind, Fault(kind) PROVE Spare' = Spare - Round
  BY <1>2, SpareFault DEF IInv
<1>3. ASSUME NEW t \in Thread, Calling(t) \/ Local(t) PROVE UNCHANGED faults \/ \E kind : Fault(kind)
  BY <1>3 DEF Calling, Local, Check, LeaseOne, FindNothing, LeaseFails, StartHandler, HandlerExits,
     Succeed, Fail, RecordFails
<1>4. CASE ExtendOne \/ Around \/ TimePasses \/ PeerEnqueues \/ PeerLeases \/ PeerFinishes
           \/ PeerRemoves \/ UNCHANGED vars
  <2>1. UNCHANGED faults \/ \E kind : Fault(kind)
    BY <1>4 DEF ExtendOne, Around, TimePasses, PeerEnqueues, PeerLeases, PeerFinishes, PeerRemoves,
       BeatStarts, ExtendFails, BeatEnds, HeartbeatStops, Stop, ThreadsJoined, Return, worker, vars
  <2> QED
    BY <1>1, <1>2, <2>1
<1> QED
  BY <1>1, <1>2, <1>3, <1>4, Steps

(* The next beat that may extend a job is over within a beat and a round. *)
LEMMA NextBeatBounds ==
  ASSUME IInv, ~stop, beat.at # "dead", NEW h
  PROVE  NextBeat(h) \in Nat /\ now <= NextBeat(h) /\ NextBeat(h) <= now + BeatTime + Round
<1>1. /\ now \in Nat /\ Interval \in Nat /\ BeatTime \in Nat /\ Round \in Nat
      /\ Round = Interval + BeatTime /\ beat.due \in Nat
  BY Constants DEF IInv, TypeOK
<1>2. \/ beat.at = "waiting" /\ beat.due <= now + Interval /\ now <= beat.due
      \/ beat.at = "beating" /\ beat.due <= now + BeatTime /\ now <= beat.due
  BY DEF IInv, TypeOK, BeatSoon
<1> QED
  BY <1>1, <1>2 DEF NextBeat

(* What a thread that has a job, and keeps it, may do. *)
LEMMA KeepingSteps ==
  ASSUME IInv, [Next]_vars, NEW t \in Thread, held[t] # NoJob, held'[t] = held[t]
  PROVE  \/ pc'[t] = pc[t]
         \/ pc[t] # "got" /\ pc'[t] # "got"
         \/ StartHandler(t)
<1>1. WorkerTypes
  BY DEF IInv, TypeOK, WorkerTypes
<1>2. ASSUME NEW u \in Thread, Calling(u) \/ Local(u), u # t PROVE pc'[t] = pc[t]
  BY <1>1, <1>2 DEF Calling, Local, Check, LeaseOne, FindNothing, LeaseFails, StartHandler, HandlerExits,
     Succeed, Fail, RecordFails, Lands, Goto, WorkerTypes
<1>3. CASE HandlerExits(t) \/ RecordFails(t) \/ Succeed(t) \/ Fail(t)
  BY <1>1, <1>3 DEF HandlerExits, RecordFails, Succeed, Fail, Lands, Goto, WorkerTypes
<1>4. CASE Check(t) \/ LeaseOne(t) \/ FindNothing(t) \/ LeaseFails(t)
  BY <1>1, <1>4 DEF Check, LeaseOne, FindNothing, LeaseFails, WorkerTypes
<1>5. CASE ExtendOne \/ Around \/ TimePasses \/ PeerEnqueues \/ PeerLeases \/ PeerFinishes
           \/ PeerRemoves \/ UNCHANGED vars
  BY <1>5 DEF ExtendOne, Around, TimePasses, PeerEnqueues, PeerLeases, PeerFinishes, PeerRemoves,
     BeatStarts, ExtendFails, BeatEnds, HeartbeatStops, Stop, ThreadsJoined, Return, worker, vars
<1> QED
  BY <1>2, <1>3, <1>4, <1>5, Steps DEF Calling, Local

(* As the heartbeat goes on and faults spoil beats, no job's next beat and the faults *)
(* to come reach further into the future than they did.                               *)
LEMMA NextBeatStep ==
  ASSUME IInv, [Next]_vars, ~stop', beat'.at # "dead", ~ExtendOne,
         NEW t \in Thread, held[t] # NoJob, pc[t] # "got"
  PROVE  NextBeat(held[t])' + Spare' <= NextBeat(held[t]) + Spare \/ held'[t] # held[t]
<1> SUFFICES ASSUME held'[t] = held[t]
             PROVE  NextBeat(held[t])' + Spare' <= NextBeat(held[t]) + Spare
  OBVIOUS
<1> PICK h : h = held[t] /\ h = held'[t]
  OBVIOUS
<1>1. ~stop /\ beat.at # "dead"
  BY StopStays
<1>2. /\ now \in Nat /\ now' \in Nat /\ Interval \in Nat /\ BeatTime \in Nat /\ Round \in Nat
      /\ Round = Interval + BeatTime /\ beat.due \in Nat /\ now <= beat.due
      /\ beat.at \in {"waiting", "beating"} /\ Spare \in Nat /\ Spare' <= Spare /\ Spare' \in Int
  <2>1. TypeOK /\ BeatSoon /\ Spare \in Nat /\ QueueTypes'
    BY SpareTypes, QueueStep DEF IInv
  <2>2. now \in Nat /\ now' \in Nat /\ beat.due \in Nat /\ beat.at \in {"waiting", "beating"}
    BY <1>1, <2>1, Constants DEF TypeOK, BeatSoon, QueueTypes
  <2> QED
    BY <1>1, <2>1, <2>2, SpareStep, Constants DEF BeatSoon
<1>3. NextBeat(h) \in Nat /\ now <= NextBeat(h)
  BY <1>1, NextBeatBounds
<1>4. CASE UNCHANGED <<beat, now>>
  BY <1>2, <1>3, <1>4 DEF NextBeat
<1>5. CASE TimePasses
  <2>1. (beat.at = "waiting" \/ beat.todo # {}) /\ UNCHANGED beat
    BY <1>1, <1>5 DEF TimePasses, worker
  <2> QED
    BY <1>2, <1>3, <2>1 DEF NextBeat
<1>6. CASE BeatStarts
  <2>1. h \in InFlight
    BY DEF IInv, TypeOK, InFlight
  <2>2. /\ beat.at = "waiting" /\ beat.due <= now
        /\ beat'.at = "beating" /\ h \in beat'.todo /\ beat'.due = now + BeatTime
    BY <1>2, <1>6, <2>1 DEF BeatStarts
  <2>3. NextBeat(h) = beat.due + BeatTime /\ NextBeat(h)' = now + BeatTime
    BY <2>2 DEF NextBeat
  <2> QED
    BY <1>2, <2>2, <2>3
<1>7. CASE ExtendFails
  <2>1. PICK g : Fault("busy") /\ beat' = [beat EXCEPT !.todo = @ \ {g}]
    BY <1>2, <1>7 DEF ExtendFails, Over
  <2>2. /\ beat.at = "beating" /\ beat'.at = "beating" /\ now' = now /\ Spare' = Spare - Round
        /\ beat'.todo = beat.todo \ {g} /\ beat'.due = beat.due
    BY <1>7, <2>1, SpareFault DEF ExtendFails, queue, IInv, TypeOK
  <2>3. NextBeat(h)' <= NextBeat(h) + Round
    BY <1>2, <2>2 DEF NextBeat
  <2>4. NextBeat(h)' \in Int
    BY <1>2, <2>2 DEF NextBeat
  <2> QED
    BY <1>2, <1>3, <2>2, <2>3, <2>4
<1>8. CASE BeatEnds
  BY <1>2, <1>8 DEF BeatEnds, queue, NextBeat, IInv, TypeOK
<1>9. CASE HeartbeatStops
  BY <1>1, <1>9 DEF HeartbeatStops
<1>10. ASSUME NEW u \in Thread, Calling(u) \/ Local(u) PROVE UNCHANGED beat
  BY <1>10 DEF Calling, Local, Check, LeaseOne, FindNothing, LeaseFails, StartHandler, HandlerExits,
     Succeed, Fail, RecordFails
<1>11. ASSUME Stop \/ ThreadsJoined \/ Return \/ PeerEnqueues \/ PeerLeases \/ PeerFinishes
              \/ PeerRemoves \/ UNCHANGED vars
      PROVE  UNCHANGED beat
  BY <1>11 DEF Stop, ThreadsJoined, Return, PeerEnqueues, PeerLeases, PeerFinishes, PeerRemoves,
     worker, vars
<1>12. UNCHANGED beat => NextBeat(h)' + Spare' <= NextBeat(h) + Spare
  BY <1>4, <1>5, ClockStep
<1> QED
  BY <1>5, <1>6, <1>7, <1>8, <1>9, <1>10, <1>11, <1>12, Steps DEF Around

(* A lease that is kept in time has not run out yet. *)
LEMMA NotYetLapsed ==
  ASSUME IInv, BeatsSuffice, ~stop, beat.at # "dead", NEW t \in Thread, held[t] # NoJob,
         Holds(jobs, held[t])
  PROVE  ~D!Lapsed(jobs[held[t][1]])
<1> PICK h \in Id \X OwnTokens : h = held[t]
  BY DEF IInv, TypeOK
<1>1. KeptInTime(h, pc[t]) /\ jobs[h[1]].state # "absent"
  BY DEF IInv, InTime, Holds
<1>2. /\ now \in Nat /\ NextBeat(h) \in Nat /\ now <= NextBeat(h) /\ Spare \in Nat
      /\ jobs[h[1]].deadline \in Nat
  <2>1. QueueTypes /\ TypeOK
    BY Handles DEF IInv
  <2>2. now \in Nat /\ jobs[h[1]].deadline \in Nat
    BY <2>1, Constants DEF QueueTypes, D!Job
  <2> QED
    BY <2>1, <2>2, NextBeatBounds, SpareTypes
<1>3. Timeout \in Nat /\ Timeout > 0
  <2>1. MaxFaults \in Nat /\ Round \in Nat /\ BeatTime \in Nat /\ Timeout \in Nat
    BY Constants
  <2>2. \A m, n \in Nat : m * n \in Nat
    OBVIOUS
  <2>3. MaxFaults * Round \in Nat
    BY <2>1, <2>2
  <2> QED
    BY <2>1, <2>3 DEF BeatsSuffice
<1> QED
  BY <1>1, <1>2, <1>3 DEF KeptInTime, D!Lapsed

(* What the thread gets is leased for the whole timeout. *)
LEMMA NewlyKept ==
  ASSUME IInv, NEW t \in Thread, LeaseOne(t)
  PROVE  KeptInTime(held[t], pc[t])'
<1>1. PICK mid \in Sweeps, i \in Id, token \in OwnTokens :
        Leases(mid, i, token, OwnTokens) /\ held' = [held EXCEPT ![t] = <<i, token>>]
  BY DEF LeaseOne
<1>2. QueueTypes /\ OwnTokens \in SUBSET Token /\ now \in Nat
  BY Handles, Constants DEF IInv, QueueTypes
<1>3. Gave(mid, i, token)
  <2>1. Leases(mid, i, token, OwnTokens)
    BY <1>1
  <2> QED
    BY <1>2, <2>1, LeaseWrites
<1>4. pc'[t] = "got" /\ held'[t] = <<i, token>>
  BY <1>1 DEF LeaseOne, Goto, IInv, TypeOK
<1>5. Holds(jobs', held'[t]) /\ jobs'[held'[t][1]].deadline >= now' + Timeout
  BY <1>2, <1>3, <1>4, Constants DEF Gave, Holds
<1> QED
  BY <1>4, <1>5 DEF KeptInTime, Holds

(* The heartbeat gives a job time for the beats to come. *)
LEMMA ExtendKeeps ==
  ASSUME IInv, ExtendOne, BeatsSuffice, ~stop, beat'.at # "dead", NEW t \in Thread, held[t] # NoJob
  PROVE  KeptInTime(held[t], pc[t])'
<1> PICK h \in Id \X OwnTokens : h = held[t]
  BY DEF IInv, TypeOK
<1>1. PICK g \in beat.todo, mid \in Sweeps :
        /\ \/ Holds(mid, g) /\ Changes(mid, g[1], [mid[g[1]] EXCEPT !.deadline = @ + Timeout])
           \/ ~Holds(mid, g) /\ ChangesNothing(mid)
        /\ beat' = [beat EXCEPT !.todo = @ \ {g}]
  BY DEF ExtendOne
<1>2. /\ g \in Id \X OwnTokens /\ held'[t] = h /\ pc'[t] = pc[t] /\ now' = now /\ Spare' = Spare
      /\ beat.at = "beating" /\ beat'.at = "beating" /\ beat'.todo = beat.todo \ {g}
      /\ beat'.due = beat.due
  BY <1>1 DEF ExtendOne, Changes, ChangesNothing, Spare, IInv, TypeOK
<1>3. QueueTypes /\ TokenIffLeased /\ KeptInTime(h, pc[t])
  BY <1>2, Handles DEF IInv, InTime
<1>4. /\ now \in Nat /\ Spare \in Nat /\ Round \in Nat /\ BeatTime \in Nat /\ Timeout \in Nat
      /\ MaxFaults \in Nat /\ beat.due \in Nat /\ now <= beat.due
  BY <1>2, SpareTypes, Constants DEF IInv, TypeOK, BeatSoon
<1>5. /\ NextBeat(h) \in Nat /\ now <= NextBeat(h) /\ NextBeat(h)' \in Nat
      /\ (g # h => NextBeat(h)' <= NextBeat(h)) /\ NextBeat(h)' <= NextBeat(h) + Round
  BY <1>2, <1>4 DEF NextBeat
<1>6. /\ h[1] \in Id /\ g[1] \in Id
      /\ ~D!Lapsed(jobs[h[1]]) \/ jobs[h[1]].state = "absent"
  BY <1>2, <1>3, NotYetLapsed DEF KeptInTime
<1>7. mid[h[1]] = jobs[h[1]] /\ mid \in [Id -> D!Job] /\ h[1] \in Id
  <2>1. ~D!Lapsed(jobs[h[1]]) /\ h[1] \in Id
    BY <1>6 DEF D!Lapsed
  <2> QED
    BY <1>3, <2>1, NotSwept
<1>8. CASE jobs'[h[1]] = jobs[h[1]] /\ (Holds(mid, h) => g # h)
  <2>1. ASSUME Holds(jobs, h) PROVE NextBeat(h)' + Spare <= NextBeat(h) + Spare
    BY <1>4, <1>5, <1>7, <1>8, <2>1 DEF Holds
  <2>2. jobs[h[1]].deadline \in Nat
    BY <1>3, <1>6 DEF QueueTypes, D!Job
  <2>3. CASE jobs[h[1]].state = "absent"
    BY <1>2, <1>8, <2>3 DEF KeptInTime
  <2>4. CASE Holds(jobs, h) /\ pc[t] = "got" /\ jobs[h[1]].deadline >= now + Timeout
    BY <1>2, <1>8, <2>4 DEF KeptInTime, Holds
  <2>5. CASE Holds(jobs, h) /\ pc[t] # "got" /\ jobs[h[1]].deadline > NextBeat(h) + Spare
    <3>1. jobs[h[1]].deadline > NextBeat(h)' + Spare
      BY <1>4, <1>5, <2>1, <2>2, <2>5
    <3> QED
      BY <1>2, <1>8, <2>5, <3>1 DEF KeptInTime, Holds
  <2> QED
    BY <1>3, <2>3, <2>4, <2>5 DEF KeptInTime
<1>9. CASE ~Holds(mid, g) /\ ChangesNothing(mid)
  BY <1>7, <1>8, <1>9 DEF ChangesNothing
<1>10. CASE g # h /\ Holds(mid, g) /\ Changes(mid, g[1], [mid[g[1]] EXCEPT !.deadline = @ + Timeout])
  <2>1. jobs' = [mid EXCEPT ![g[1]] = [mid[g[1]] EXCEPT !.deadline = @ + Timeout]]
    BY <1>10 DEF Changes
  <2>2. CASE g[1] # h[1]
    BY <1>7, <1>8, <1>10, <2>1, <2>2
  <2>3. CASE g[1] = h[1]
    <3>1. g[2] # h[2]
      BY <1>2, <1>10, <2>3
    <3>2. ~Holds(jobs, h)
      BY <1>7, <1>10, <2>3, <3>1 DEF Holds
    <3> QED
      BY <1>3, <1>7, <1>10, <2>3, <3>2 DEF KeptInTime, Holds
  <2> QED
    BY <2>2, <2>3
<1>11. CASE g = h /\ Holds(mid, g) /\ Changes(mid, g[1], [mid[g[1]] EXCEPT !.deadline = @ + Timeout])
  <2>1. jobs[h[1]] \in D!Job /\ jobs[h[1]].state = "leased" /\ jobs[h[1]].token = h[2]
    BY <1>7, <1>11 DEF Holds
  <2>2. jobs'[h[1]] = [jobs[h[1]] EXCEPT !.deadline = @ + Timeout]
    BY <1>7, <1>11 DEF Changes
  <2>3. /\ jobs'[h[1]].state = "leased" /\ jobs'[h[1]].token = h[2]
        /\ jobs'[h[1]].deadline = jobs[h[1]].deadline + Timeout
    BY <2>1, <2>2 DEF D!Job
  <2>4. jobs[h[1]].deadline \in Nat /\ jobs[h[1]].deadline >= now
    BY <1>3, <1>4, <1>5, <2>1 DEF KeptInTime, D!Job
  <2>5. \A m, n \in Nat : m * n \in Nat
    OBVIOUS
  <2>6. MaxFaults * Round \in Nat
    BY <1>4, <2>5
  <2>7. jobs'[h[1]].deadline >= now' + Timeout
    BY <1>2, <1>4, <2>3, <2>4
  <2>8. CASE pc'[t] = "got"
    BY <1>2, <2>3, <2>7, <2>8 DEF KeptInTime, Holds
  <2>9. CASE pc[t] # "got"
    <3>1. jobs[h[1]].deadline > NextBeat(h) + Spare
      BY <1>3, <2>1, <2>9 DEF KeptInTime
    <3>2. jobs'[h[1]].deadline > NextBeat(h)' + Spare'
      BY <1>2, <1>4, <1>5, <2>3, <2>4, <2>6, <3>1 DEF BeatsSuffice
    <3> QED
      BY <1>2, <2>3, <2>9, <3>2 DEF KeptInTime, Holds
  <2> QED
    BY <1>2, <2>8, <2>9
<1> QED
  BY <1>1, <1>9, <1>10, <1>11

(* A thread gets a job by leasing it. *)
LEMMA NewHandle ==
  ASSUME IInv, [Next]_vars, NEW t \in Thread, held'[t] # NoJob, held'[t] # held[t]
  PROVE  LeaseOne(t)
<1>1. WorkerTypes
  BY DEF IInv, TypeOK, WorkerTypes
<1>2. ASSUME NEW u \in Thread, LeaseOne(u), u # t PROVE FALSE
  <2>1. \E h : held' = [held EXCEPT ![u] = h]
    BY <1>2 DEF LeaseOne
  <2> QED
    BY <1>1, <1>2, <2>1 DEF WorkerTypes
<1>3. ASSUME NEW u \in Thread, Succeed(u) \/ Fail(u) \/ HandlerExits(u) \/ RecordFails(u) PROVE FALSE
  <2>1. held' = held \/ held' = [held EXCEPT ![u] = NoJob]
    BY <1>3 DEF HandlerExits, Succeed, Fail, RecordFails, Lands
  <2> QED
    BY <1>1, <2>1 DEF WorkerTypes
<1>4. ASSUME NEW u \in Thread, Check(u) \/ FindNothing(u) \/ LeaseFails(u) \/ StartHandler(u)
      PROVE  held' = held
  BY <1>4 DEF Check, FindNothing, LeaseFails, StartHandler
<1>5. ASSUME ExtendOne \/ Around \/ TimePasses \/ PeerEnqueues \/ PeerLeases \/ PeerFinishes
             \/ PeerRemoves \/ UNCHANGED vars
      PROVE  held' = held
  BY <1>5 DEF ExtendOne, Around, TimePasses, PeerEnqueues, PeerLeases, PeerFinishes, PeerRemoves,
     BeatStarts, ExtendFails, BeatEnds, HeartbeatStops, Stop, ThreadsJoined, Return, worker, vars
<1> QED
  BY <1>2, <1>3, <1>4, <1>5, Steps DEF Calling, Local

(* Jobs in hand stay leased past the beats that extend them. *)
LEMMA InTimeStep == IInv /\ [Next]_vars => InTime'
<1> SUFFICES ASSUME IInv, [Next]_vars, BeatsSuffice, ~stop', beat'.at # "dead",
                    NEW t \in Thread, held'[t] # NoJob
             PROVE  KeptInTime(held[t], pc[t])'
  BY DEF InTime, BeatsSuffice
<1>1. ~stop /\ beat.at # "dead"
  BY StopStays
<1>2. CASE held'[t] # held[t]
  BY <1>2, NewHandle, NewlyKept
<1>3. CASE ExtendOne /\ held'[t] = held[t]
  BY <1>1, <1>3, ExtendKeeps
<1>4. CASE ~ExtendOne /\ held'[t] = held[t]
  <2> PICK h \in Id \X OwnTokens : h = held[t] /\ h = held'[t]
    BY <1>4 DEF IInv, TypeOK
  <2>1. h \in used /\ KeptInTime(h, pc[t])
    BY <1>1, <1>4 DEF IInv, HandlesUsed, InTime
  <2>2. CASE jobs[h[1]].state = "absent"
    <3>1. jobs'[h[1]].state = "absent"
      BY <2>1, <2>2, RemovedStays
    <3> QED
      BY <3>1 DEF KeptInTime
  <2>3. CASE Holds(jobs, h)
    <3>1. ~D!Lapsed(jobs[h[1]])
      BY <1>1, <1>4, <2>3, NotYetLapsed
    <3>2. ~\E u \in Thread : (Succeed(u) \/ Fail(u)) /\ held[u] = h
      BY <1>4, Constants DEF Succeed, Fail, Lands, IInv, TypeOK, HandlesDiffer
    <3>3. jobs'[h[1]] = jobs[h[1]] \/ jobs'[h[1]].state = "absent"
      BY <1>4, <2>3, <3>1, <3>2, LeaseStays
    <3>4. CASE jobs'[h[1]].state = "absent"
      BY <3>4 DEF KeptInTime
    <3>5. CASE jobs'[h[1]] = jobs[h[1]]
      <4>1. Holds(jobs', h) /\ jobs[h[1]].state # "absent"
        BY <2>3, <3>5 DEF Holds
      <4>2. CASE pc'[t] = "got"
        <5>1. pc[t] = "got" /\ now' = now
          BY <1>4, <4>2, KeepingSteps, ClockStep DEF StartHandler, TimePasses, Goto, IInv, TypeOK
        <5> QED
          BY <2>1, <3>5, <4>1, <4>2, <5>1 DEF KeptInTime, Holds
      <4>3. CASE pc[t] = "got" /\ pc'[t] # "got"
        <5>1. StartHandler(t)
          BY <1>4, <4>3, KeepingSteps
        <5>2. now' = now /\ NextBeat(h)' = NextBeat(h) /\ Spare' = Spare
          BY <5>1 DEF StartHandler, queue, NextBeat, Spare
        <5>3. /\ now \in Nat /\ NextBeat(h) \in Nat /\ NextBeat(h) <= now + BeatTime + Round
              /\ Spare \in Nat /\ Spare <= MaxFaults * Round /\ jobs[h[1]].deadline \in Nat
              /\ jobs[h[1]].deadline >= now + Timeout
          <6>1. QueueTypes /\ TypeOK
            BY Handles DEF IInv
          <6>2. now \in Nat /\ jobs[h[1]].deadline \in Nat
            BY <6>1, Constants DEF QueueTypes, D!Job
          <6>3. jobs[h[1]].deadline >= now + Timeout
            BY <2>1, <4>1, <4>3 DEF KeptInTime
          <6> QED
            BY <1>1, <6>1, <6>2, <6>3, NextBeatBounds, SpareTypes
        <5>4. Timeout \in Nat /\ Round \in Nat /\ BeatTime \in Nat /\ MaxFaults * Round \in Nat
          <6>1. \A m, n \in Nat : m * n \in Nat
            OBVIOUS
          <6> QED
            BY <6>1, Constants
        <5>5. jobs'[h[1]].deadline > NextBeat(h)' + Spare'
          BY <3>5, <5>2, <5>3, <5>4 DEF BeatsSuffice
        <5> QED
          BY <4>1, <4>3, <5>5 DEF KeptInTime, Holds
      <4>4. CASE pc[t] # "got" /\ pc'[t] # "got"
        <5>1. NextBeat(h)' + Spare' <= NextBeat(h) + Spare
          BY <1>1, <1>4, <4>4, NextBeatStep
        <5>2. NextBeat(h) + Spare < jobs[h[1]].deadline
          BY <2>1, <4>1, <4>4 DEF KeptInTime
        <5>3. /\ NextBeat(h) \in Int /\ Spare \in Int /\ NextBeat(h)' \in Int /\ Spare' \in Int
              /\ jobs[h[1]].deadline \in Int
          <6>1. NextBeat(h) \in Nat /\ Spare \in Nat
            BY <1>1, NextBeatBounds, SpareTypes DEF IInv
          <6>2. jobs[h[1]].deadline \in Nat
            BY DEF IInv, TypeOK, D!Job
          <6>3. Spare' \in Int
            BY <6>1, SpareStep, Constants
          <6>4. NextBeat(h)' \in Int
            BY QueueStep, BeatStep, Constants DEF QueueTypes, BeatTypes, NextBeat
          <6> QED
            BY <6>1, <6>2, <6>3, <6>4
        <5>4. jobs'[h[1]].deadline > NextBeat(h)' + Spare'
          BY <3>5, <5>1, <5>2, <5>3
        <5> QED
          BY <4>1, <4>4, <5>4 DEF KeptInTime, Holds
      <4> QED
        BY <4>2, <4>3, <4>4
    <3> QED
      BY <3>3, <3>4, <3>5
  <2> QED
    BY <2>1, <2>2, <2>3 DEF KeptInTime
<1> QED
  BY <1>2, <1>3, <1>4

(* Jobs are counted as they are handed out and again as their outcome is recorded. *)
LEMMA BalancedStep == IInv /\ [Next]_vars => Balanced'
<1> SUFFICES ASSUME IInv, [Next]_vars, faults' = <<>>, NothingRemoved'
             PROVE  stats'.leased = stats'.succeeded + stats'.failed + stats'.lost_leases
                                    + Cardinality(InHand')
  BY DEF Balanced, InHand
<1>1. faults \in Seq(Faults) /\ \A kind : ~Fault(kind)
  BY Faulting DEF IInv, TypeOK
<1>2. NothingRemoved
  <2>1. ASSUME NEW u \in used, jobs[u[1]].state = "absent" PROVE FALSE
    <3>1. jobs'[u[1]].state = "absent" /\ u \in used'
      BY <2>1, RemovedStays, HandleSteps
    <3> QED
      BY <3>1 DEF NothingRemoved
  <2> QED
    BY <2>1 DEF NothingRemoved
<1>3. /\ WorkerTypes /\ stats \in [DOMAIN NoStats -> Nat] /\ stats.leased \in Nat
      /\ stats.succeeded \in Nat /\ stats.failed \in Nat /\ stats.lost_leases \in Nat
  BY DEF IInv, TypeOK, WorkerTypes, NoStats
<1>4. /\ IsFiniteSet(InHand) /\ Cardinality(InHand) \in Nat
      /\ IsFiniteSet(InHand') /\ Cardinality(InHand') \in Nat
  <2>1. InHand \subseteq Thread /\ InHand' \subseteq Thread
    BY DEF InHand
  <2> QED
    BY <2>1, FS_Subset, FS_CardinalityType, Constants
<1>5. faults = <<>> =>
        stats.leased = stats.succeeded + stats.failed + stats.lost_leases + Cardinality(InHand)
  BY <1>2 DEF IInv, Balanced
<1>6. CASE faults = <<>> /\ UNCHANGED stats /\ InHand' = InHand
  BY <1>5, <1>6
<1>7. ASSUME NEW t \in Thread, NEW place, Goto(t, place),
             pc[t] \in {"running"} <=> place \in {"running"}
      PROVE  InHand' = InHand
  BY <1>3, <1>7 DEF WorkerTypes, Goto, InHand
<1>8. ASSUME NEW t \in Thread, StartHandler(t)
      PROVE  stats'.leased = stats'.succeeded + stats'.failed + stats'.lost_leases
                             + Cardinality(InHand')
  <2>1. faults = <<>> /\ t \notin InHand /\ InHand' = InHand \cup {t}
    BY <1>3, <1>8 DEF WorkerTypes, StartHandler, Goto, InHand
  <2>2. Cardinality(InHand') = Cardinality(InHand) + 1
    BY <1>4, <2>1, FS_AddElement
  <2>3. /\ stats'.leased = stats.leased + 1 /\ stats'.succeeded = stats.succeeded
        /\ stats'.failed = stats.failed /\ stats'.lost_leases = stats.lost_leases
    BY <1>3, <1>8, Counting DEF StartHandler
  <2> QED
    BY <1>3, <1>4, <1>5, <2>1, <2>2, <2>3
<1>9. ASSUME NEW t \in Thread, Succeed(t) \/ Fail(t)
      PROVE  stats'.leased = stats'.succeeded + stats'.failed + stats'.lost_leases
                             + Cardinality(InHand')
  <2>1. faults = <<>> /\ t \in InHand /\ InHand' = InHand \ {t}
    BY <1>3, <1>9 DEF WorkerTypes, Succeed, Fail, Lands, Goto, InHand
  <2>2. Cardinality(InHand') = Cardinality(InHand) - 1
    BY <1>4, <2>1, FS_RemoveElement
  <2>3. ~\E mid \in Sweeps : mid[held[t][1]].state = "absent" /\ ChangesNothing(mid)
    <3>1. held[t] \in used
      BY <1>9 DEF Succeed, Fail, IInv, TypeOK, HandlesUsed
    <3> QED
      BY <3>1 DEF ChangesNothing, NothingRemoved
  <2>4. \E counters \in {{"succeeded"}, {"lost_leases"}, {"failed"}, {"failed", "dead"}} :
          Count(counters)
    <3>1. CASE Succeed(t)
      BY <2>3, <3>1 DEF Succeed
    <3>2. CASE Fail(t)
      <4>1. \/ \E j : Count({"failed"} \cup IF j.state = "dead" THEN {"dead"} ELSE {})
            \/ Count({"lost_leases"})
        BY <2>3, <3>2 DEF Fail
      <4> QED
        BY <4>1
    <3> QED
      BY <1>9, <3>1, <3>2
  <2>5. /\ stats'.leased = stats.leased
        /\ \/ /\ stats'.succeeded = stats.succeeded + 1 /\ stats'.failed = stats.failed
              /\ stats'.lost_leases = stats.lost_leases
           \/ /\ stats'.succeeded = stats.succeeded /\ stats'.failed = stats.failed + 1
              /\ stats'.lost_leases = stats.lost_leases
           \/ /\ stats'.succeeded = stats.succeeded /\ stats'.failed = stats.failed
              /\ stats'.lost_leases = stats.lost_leases + 1
    <3>1. PICK counters \in {{"succeeded"}, {"lost_leases"}, {"failed"}, {"failed", "dead"}} :
            Count(counters)
      BY <2>4
    <3>2. \A c \in {"leased", "succeeded", "failed", "lost_leases"} :
            stats'[c] = stats[c] + IF c \in counters THEN 1 ELSE 0
      BY <1>3, <3>1, Counting
    <3> QED
      BY <1>3, <3>1, <3>2
  <2>6. stats.leased = stats.succeeded + stats.failed + stats.lost_leases + Cardinality(InHand)
    BY <1>5, <2>1
  <2>7. /\ Cardinality(InHand) \in Nat /\ stats'.succeeded \in Nat /\ stats'.failed \in Nat
        /\ stats'.lost_leases \in Nat
    BY <1>4, CountStep DEF CountTypes, NoStats
  <2>8. stats'.succeeded + stats'.failed + stats'.lost_leases =
        stats.succeeded + stats.failed + stats.lost_leases + 1
    BY <1>3, <2>5, <2>7
  <2>9. stats'.leased = stats.leased /\ stats.leased \in Nat
    BY <1>3, <2>5
  <2>10. stats.succeeded + stats.failed + stats.lost_leases \in Int
    BY <1>3
  <2>11. stats'.leased = (stats.succeeded + stats.failed + stats.lost_leases) + 1
                         + (Cardinality(InHand) - 1)
    BY <2>6, <2>7, <2>9, <2>10
  <2> QED
    BY <2>2, <2>7, <2>8, <2>11
<1>10. ASSUME NEW t \in Thread, Check(t) \/ LeaseOne(t) \/ FindNothing(t) \/ LeaseFails(t)
                                \/ HandlerExits(t) \/ RecordFails(t)
       PROVE  faults = <<>> /\ UNCHANGED stats /\ InHand' = InHand
  <2>1. UNCHANGED <<stats, faults>>
    BY <1>1, <1>10 DEF Check, LeaseOne, FindNothing, LeaseFails, HandlerExits, RecordFails
  <2>2. InHand' = InHand
    BY <1>1, <1>7, <1>10 DEF Check, LeaseOne, FindNothing, LeaseFails, HandlerExits, RecordFails
  <2> QED
    BY <2>1, <2>2
<1>11. ASSUME ExtendOne \/ Around \/ TimePasses \/ PeerEnqueues \/ PeerLeases \/ PeerFinishes
              \/ PeerRemoves \/ UNCHANGED vars
       PROVE  faults = <<>> /\ UNCHANGED stats /\ InHand' = InHand
  <2>1. UNCHANGED <<pc, stats, faults>>
    BY <1>1, <1>11 DEF ExtendOne, Around, TimePasses, PeerEnqueues, PeerLeases, PeerFinishes,
       PeerRemoves, BeatStarts, ExtendFails, BeatEnds, HeartbeatStops, Stop, ThreadsJoined,
       Return, worker, vars
  <2> QED
    BY <2>1 DEF InHand
<1> QED
  BY <1>6, <1>8, <1>9, <1>10, <1>11, Steps DEF Calling, Local

(* The invariant holds at the start. *)
LEMMA InitInv == Init => IInv
<1> SUFFICES ASSUME Init PROVE IInv
  OBVIOUS
<1>1. D!Absent \in D!Job /\ D!Absent.token = NoToken /\ D!Absent.state = "absent"
  BY Constants DEF D!Absent, D!Job
<1>2. QueueTypes /\ TokenIffLeased /\ OwnLeasesHeld
  BY <1>1, Constants DEF Init, QueueTypes, TokenIffLeased, OwnLeasesHeld
<1>3. WorkerTypes /\ BeatTypes
  BY Constants DEF Init, WorkerTypes, BeatTypes, Places
<1>4. CountTypes
  <2>1. NoStats \in [DOMAIN NoStats -> Nat]
    BY DEF NoStats
  <2>2. faults \in Seq(Faults) /\ Len(faults) = 0
    BY DEF Init
  <2>3. stop = FALSE /\ main = "threads" /\ stats = NoStats
    BY DEF Init
  <2>4. Len(faults) <= MaxFaults
    BY <2>2, Constants
  <2> QED
    BY <2>1, <2>2, <2>3, <2>4 DEF CountTypes
<1>5. RoomUnderCap
  <2>1. Leasing = {} /\ stats.leased = 0
    BY DEF Init, Leasing, NoStats
  <2>2. Cardinality(Thread) \in Nat /\ Cardinality(Thread) # 0 /\ Cardinality(Leasing) = 0
    BY <2>1, FS_EmptySet, FS_CardinalityType, Constants
  <2> QED
    BY <2>1, <2>2, Constants DEF RoomUnderCap
<1>6. Joined
  BY DEF Init, Joined
<1>7. HandlesUsed /\ HandlesDiffer /\ InTime
  <2>1. \A t \in Thread : held[t] = NoJob
    BY DEF Init
  <2> QED
    BY <2>1 DEF HandlesUsed, HandlesDiffer, InTime
<1>8. BeatSoon
  BY Constants DEF Init, BeatSoon
<1>9. Balanced
  <2>1. InHand = {} /\ stats = NoStats
    BY DEF Init, InHand
  <2>2. Cardinality(InHand) = 0
    BY <2>1, FS_EmptySet
  <2> QED
    BY <2>1, <2>2 DEF Balanced, NoStats
<1> QED
  BY <1>2, <1>3, <1>4, <1>5, <1>6, <1>7, <1>8, <1>9
     DEF IInv, TypeOK, QueueTypes, WorkerTypes, BeatTypes, CountTypes

-----------------------------------------------------------------------------
(* The types, which leases are held by whom and until when, the room under the cap,   *)
(* what run has waited for, and how the counters add up: true of every state a worker *)
(* and its peers reach.                                                               *)
THEOREM InvariantHolds == Spec => []IInv
<1>1. IInv /\ [Next]_vars => IInv'
  <2> SUFFICES ASSUME IInv, [Next]_vars PROVE IInv'
    OBVIOUS
  <2>1. QueueTypes' /\ TokenIffLeased' /\ WorkerTypes' /\ BeatTypes' /\ CountTypes'
    BY QueueStep, WorkerStep, BeatStep, CountStep
  <2>2. TypeOK'
    BY <2>1 DEF TypeOK, QueueTypes, WorkerTypes, BeatTypes, CountTypes
  <2> QED
    BY <2>1, <2>2, OwnStep, RoomStep, JoinedStep, HandleStep, BeatSoonStep, InTimeStep,
       BalancedStep DEF IInv
<1> QED
  BY InitInv, <1>1, PTL DEF Spec

(* The cap is overshot by at most the other threads, whatever their number. *)
THEOREM CapHolds == Spec => []CapBound
<1>1. IInv => CapBound
  <2> SUFFICES ASSUME IInv PROVE CapBound
    OBVIOUS
  <2>1. IsFiniteSet(Leasing) /\ IsFiniteSet(Thread)
    BY FS_Subset, Constants DEF Leasing
  <2>2. Cardinality(Leasing) \in Nat /\ Cardinality(Thread) \in Nat /\ stats.leased \in Nat
    BY <2>1, FS_CardinalityType DEF IInv, TypeOK, NoStats
  <2> QED
    BY <2>2, Constants DEF IInv, RoomUnderCap, CapBound
<1> QED
  BY InvariantHolds, <1>1, PTL

(* When run returns no job is left leased to this worker, unless something went wrong. *)
THEOREM ShutdownAbandonsNothing == Spec => []NothingAbandoned
<1>1. IInv => NothingAbandoned
  <2> SUFFICES ASSUME IInv, main = "returned", faults = <<>>, NEW i \in Id,
                      jobs[i].token \in OwnTokens
               PROVE  FALSE
    BY DEF NothingAbandoned
  <2>1. PICK t \in Thread : held[t] = <<i, jobs[i].token>>
    BY DEF IInv, OwnLeasesHeld
  <2>2. held[t] # NoJob
    BY <2>1, Constants
  <2>3. pc[t] \in {"got", "running"}
    BY <2>2 DEF IInv, TypeOK
  <2> QED
    BY <2>3 DEF IInv, Joined
<1> QED
  BY InvariantHolds, <1>1, PTL

(* A handler keeps its lease for as long as it runs, whatever the number of threads, if the  *)
(* timeout outlasts a beat it comes too late for, the round after it, and a round more for   *)
(* each fault; where a beat may take as long as the lock is waited for, for each job.        *)
THEOREM LeasesKept == BeatsSuffice => (Spec => []LeaseKept)
<1>1. BeatsSuffice /\ IInv => LeaseKept
  BY DEF IInv, TypeOK, InTime, KeptInTime, Holds, LeaseKept
<1>2. CASE BeatsSuffice
  BY <1>1, <1>2, InvariantHolds, PTL
<1> QED
  BY <1>2

(* What is counted as leased is counted again by its outcome. *)
THEOREM EveryJobAccounted == Spec => []Accounted
<1>1. IInv => Accounted
  <2> SUFFICES ASSUME IInv, main = "returned", faults = <<>>, NothingRemoved
               PROVE  stats.leased = stats.succeeded + stats.failed + stats.lost_leases
    BY DEF Accounted
  <2>1. InHand = {}
    BY DEF IInv, Joined, InHand
  <2>2. Cardinality(InHand) = 0
    BY <2>1, FS_EmptySet
  <2>3. stats.succeeded \in Nat /\ stats.failed \in Nat /\ stats.lost_leases \in Nat
    BY DEF IInv, TypeOK, NoStats
  <2> QED
    BY <2>2, <2>3 DEF IInv, Balanced
<1> QED
  BY InvariantHolds, <1>1, PTL

(* No step of this worker touches a job that a peer holds. *)
THEOREM PeersLeftAlone == Spec => Fenced
<1>1. IInv /\ [Next]_vars => [worker' # worker => LeavesPeers]_vars
  <2> SUFFICES ASSUME IInv, Next, worker' # worker PROVE LeavesPeers
    BY DEF vars
  <2>1. QueueTypes /\ TokenIffLeased
    BY Handles DEF IInv
  <2>2. ASSUME UNCHANGED queue PROVE LeavesPeers
    BY <2>2 DEF queue, LeavesPeers
  <2>3. ASSUME NEW t \in Thread, Calling(t) PROVE LeavesPeers
    <3>1. CASE FindNothing(t)
      BY <2>1, <3>1, Reaping DEF FindNothing
    <3> QED
      BY <2>3, <3>1, LeaseOneStep, OutcomeStep DEF Calling
  <2>4. CASE TimePasses \/ PeerEnqueues \/ PeerLeases \/ PeerFinishes \/ PeerRemoves
    BY <2>4 DEF TimePasses, PeerEnqueues, PeerLeases, PeerFinishes, PeerRemoves
  <2> QED
    BY <2>2, <2>3, <2>4, Steps, LocalLeaves, ExtendStep
<1>2. [worker' # worker => LeavesPeers]_vars =>
      [worker' # worker =>
         \A i \in Id : jobs[i].token \in Token \ OwnTokens /\ ~D!Lapsed(jobs[i]) =>
                       jobs'[i] = jobs[i]]_vars
  BY DEF LeavesPeers
<1> QED
  BY InvariantHolds, <1>1, <1>2, PTL DEF Spec, Fenced

(* A call of this worker's on the job under its lease, or on none, is a move of Delivery. *)
Delivered == \A i \in Id : \E mid \in D!Swept(jobs[i]) : jobs'[i] \in D!Moved(mid)

LEMMA SweptMoves ==
  ASSUME QueueTypes, NEW mid \in Sweeps, NEW i \in Id, NEW j, jobs' = [mid EXCEPT ![i] = j],
         j \in D!Moved(mid[i])
  PROVE  Delivered
<1>1. mid \in [Id -> D!Job] /\ \A k \in Id : mid[k] \in D!Swept(jobs[k])
  <2>1. now \in Nat
    BY Constants DEF QueueTypes
  <2>2. \A k \in Id : mid[k] \in D!Swept(jobs[k])
    BY DEF Sweeps, D!Swept
  <2> QED
    BY <2>1, <2>2, SweptJobs DEF QueueTypes
<1>2. jobs'[i] = j /\ \A k \in Id \ {i} : jobs'[k] = mid[k]
  BY <1>1
<1>3. \A k \in Id : jobs'[k] \in D!Moved(mid[k])
  BY <1>2 DEF D!Moved
<1> QED
  BY <1>1, <1>3 DEF Delivered

(* One that is in a holder's name acts before the lease has lapsed. *)
LEMMA HeldMoves ==
  ASSUME QueueTypes, TokenIffLeased, NEW mid \in Sweeps, NEW i \in Id, mid[i].token # NoToken,
         NEW j, jobs' = [mid EXCEPT ![i] = j],
         j \in {D!Released(mid[i], "done"), [mid[i] EXCEPT !.deadline = @ + Timeout]}
               \cup D!Failed(mid[i])
  PROVE  Delivered
<1>1. mid[i] = jobs[i] \/ mid[i].token = NoToken
  BY SweptJobs, Constants DEF QueueTypes
<1>2. mid[i] = jobs[i] /\ jobs[i].state = "leased"
  BY <1>1 DEF TokenIffLeased
<1>3. ~D!Lapsed(mid[i])
  <2>1. ASSUME D!Lapsed(jobs[i]) PROVE FALSE
    <3>1. mid[i] \in D!Reaped(jobs[i]) /\ jobs[i] \in D!Job /\ now \in Nat
      BY <2>1, Constants DEF Sweeps, QueueTypes
    <3> QED
      BY <1>2, <3>1, LetGo
  <2> QED
    BY <1>2, <2>1
<1>4. [mid[i] EXCEPT !.deadline = @ + Timeout] \in D!Extended(mid[i])
  BY DEF D!Extended
<1>5. j \in D!Moves(mid[i])
  BY <1>2, <1>3, <1>4 DEF D!Moves
<1> QED
  BY <1>5, SweptMoves DEF D!Moved

(* A lease is a grant, under a token that nobody had. *)
LEMMA LeaseMoves ==
  ASSUME QueueTypes, NEW mid \in Sweeps, NEW i \in Id, NEW tokens \in SUBSET Token,
         NEW token \in tokens, Leases(mid, i, token, tokens)
  PROVE  Delivered
<1>1. /\ jobs' = [mid EXCEPT ![i] = D!Leased(mid[i], Timeout, token)]
      /\ mid[i].state = "ready" /\ mid[i].available <= now /\ \A u \in used : u[2] # token
  BY DEF Leases, Eligible
<1>2. token \in D!Unused
  BY <1>1 DEF D!Unused
<1>3. D!Leased(mid[i], Timeout, token) \in D!Granted(mid[i])
  BY <1>2 DEF D!Granted
<1>4. D!Leased(mid[i], Timeout, token) \in D!Moved(mid[i])
  BY <1>1, <1>3 DEF D!Moved, D!Moves
<1> QED
  BY <1>1, <1>4, SweptMoves

LEMMA ReapMoves == ASSUME QueueTypes, NEW mid \in Sweeps, jobs' = mid PROVE Delivered
BY DEF Delivered, Sweeps, D!Swept, D!Moved

(* What becomes of each job is what the contract of Delivery allows, whoever acts. *)
THEOREM CallsFollowContract == Spec => CallsAreDelivery
<1>1. IInv /\ [Next]_vars => [Delivered]_vars
  <2> SUFFICES ASSUME IInv, Next PROVE Delivered
    OBVIOUS
  <2>1. QueueTypes /\ TokenIffLeased /\ OwnTokens \in SUBSET Token /\ Token \ OwnTokens \in SUBSET Token
        /\ NoToken \notin OwnTokens
    BY Handles, Constants DEF IInv
  <2>2. CASE UNCHANGED jobs
    BY <2>2 DEF Delivered, D!Swept, D!Moved
  <2>3. ASSUME NEW t \in Thread, LeaseOne(t) PROVE Delivered
    <3>1. PICK mid \in Sweeps, i \in Id, token \in OwnTokens : Leases(mid, i, token, OwnTokens)
      BY <2>3 DEF LeaseOne
    <3> QED
      BY <2>1, <3>1, LeaseMoves
  <2>4. ASSUME NEW t \in Thread, FindNothing(t) PROVE Delivered
    BY <2>1, <2>4, ReapMoves DEF FindNothing, ChangesNothing
  <2>5. ASSUME NEW t \in Thread, Succeed(t) \/ Fail(t) PROVE Delivered
    <3>1. held[t] \in Id \X OwnTokens
      BY <2>5, Handles DEF IInv, Succeed, Fail
    <3>2. PICK mid \in Sweeps :
            \/ Holds(mid, held[t]) /\ \E j \in {D!Released(mid[held[t][1]], "done")}
                                               \cup D!Failed(mid[held[t][1]]) :
                                         Changes(mid, held[t][1], j)
            \/ ChangesNothing(mid)
      BY <2>5 DEF Succeed, Fail
    <3>3. CASE ChangesNothing(mid)
      BY <2>1, <3>3, ReapMoves DEF ChangesNothing
    <3>4. ASSUME Holds(mid, held[t]), NEW j \in {D!Released(mid[held[t][1]], "done")}
                                                \cup D!Failed(mid[held[t][1]]),
                 Changes(mid, held[t][1], j)
          PROVE  Delivered
      <4>1. mid[held[t][1]].token # NoToken /\ held[t][1] \in Id
        BY <2>1, <3>1, <3>4 DEF Holds
      <4> QED
        BY <2>1, <3>4, <4>1, HeldMoves DEF Changes
    <3> QED
      BY <3>2, <3>3, <3>4
  <2>6. CASE ExtendOne
    <3>1. PICK h \in beat.todo, mid \in Sweeps :
            \/ Holds(mid, h) /\ Changes(mid, h[1], [mid[h[1]] EXCEPT !.deadline = @ + Timeout])
            \/ ChangesNothing(mid)
      BY <2>6 DEF ExtendOne
    <3>2. CASE ChangesNothing(mid)
      BY <2>1, <3>2, ReapMoves DEF ChangesNothing
    <3>3. CASE Holds(mid, h) /\ Changes(mid, h[1], [mid[h[1]] EXCEPT !.deadline = @ + Timeout])
      <4>1. mid[h[1]].token # NoToken /\ h[1] \in Id
        BY <2>1, <3>1, <3>3, Handles DEF Holds, IInv
      <4> QED
        BY <2>1, <3>3, <4>1, HeldMoves DEF Changes
    <3> QED
      BY <3>1, <3>2, <3>3
  <2>7. CASE PeerEnqueues
    <3>1. PICK i \in Id, mid \in Sweeps, j \in D!Created : mid[i] = D!Absent /\ Changes(mid, i, j)
      BY <2>7 DEF PeerEnqueues
    <3>2. mid[i].state = "absent"
      BY <3>1 DEF D!Absent
    <3>3. j \in D!Moved(mid[i])
      BY <3>2 DEF D!Moves, D!Moved
    <3> QED
      BY <2>1, <3>1, <3>3, SweptMoves DEF Changes
  <2>8. CASE PeerLeases
    <3>1. PICK i \in Id, mid \in Sweeps, token \in Token \ OwnTokens :
            Leases(mid, i, token, Token \ OwnTokens)
      BY <2>8 DEF PeerLeases
    <3> QED
      BY <2>1, <3>1, LeaseMoves
  <2>9. CASE PeerFinishes
    <3>1. PICK i \in Id, mid \in Sweeps :
            /\ mid[i].token \in Token \ OwnTokens
            /\ \E j \in {D!Released(mid[i], "done")} \cup D!Failed(mid[i]) : Changes(mid, i, j)
      BY <2>9 DEF PeerFinishes
    <3>2. mid[i].token # NoToken
      BY <3>1, Constants
    <3> QED
      BY <2>1, <3>1, <3>2, HeldMoves DEF Changes
  <2>10. CASE PeerRemoves
    <3>1. PICK mid \in Sweeps, gone \in {{"done"}, {"ready", "leased", "done", "dead"}} :
            jobs' = [i \in Id |-> IF mid[i].state \in gone THEN D!Absent ELSE mid[i]]
      BY <2>10 DEF PeerRemoves
    <3>2. ASSUME NEW i \in Id PROVE \E j \in D!Swept(jobs[i]) : jobs'[i] \in D!Moved(j)
      <4>1. mid[i] \in D!Swept(jobs[i])
        BY DEF Sweeps, D!Swept
      <4>2. (mid[i] = jobs[i] /\ ~D!Lapsed(jobs[i])) \/ mid[i].state # "leased"
        <5>1. now \in Nat /\ jobs[i] \in D!Job
          BY <2>1, Constants DEF QueueTypes
        <5>2. CASE D!Lapsed(jobs[i])
          <6>1. mid[i] \in D!Reaped(jobs[i])
            BY <5>2 DEF Sweeps
          <6> QED
            BY <5>1, <6>1, LetGo
        <5>3. CASE ~D!Lapsed(jobs[i])
          BY <5>3 DEF Sweeps
        <5> QED
          BY <5>2, <5>3
      <4>3. \/ jobs'[i] = mid[i]
            \/ jobs'[i] = D!Absent /\ mid[i].state \in {"ready", "leased", "done", "dead"}
        <5>1. gone \subseteq {"ready", "leased", "done", "dead"}
          OBVIOUS
        <5>2. jobs'[i] = IF mid[i].state \in gone THEN D!Absent ELSE mid[i]
          BY <3>1
        <5> QED
          BY <5>1, <5>2
      <4>4. jobs'[i] \in D!Moved(mid[i])
        <5>1. CASE jobs'[i] = mid[i]
          BY <5>1 DEF D!Moved
        <5>2. CASE jobs'[i] = D!Absent /\ mid[i].state = "leased"
          BY <4>2, <5>2 DEF D!Moved, D!Moves
        <5>3. CASE jobs'[i] = D!Absent /\ mid[i].state \in {"ready", "done", "dead"}
          BY <5>3 DEF D!Moved, D!Moves
        <5> QED
          BY <4>3, <5>1, <5>2, <5>3
      <4> QED
        BY <4>1, <4>4
    <3> QED
      BY <3>2 DEF Delivered
  <2>11. ASSUME (\E t \in Thread : Local(t)) \/ Around \/ TimePasses PROVE UNCHANGED jobs
    BY <2>11, LocalLeaves DEF TimePasses, queue
  <2> QED
    BY <2>2, <2>3, <2>4, <2>5, <2>6, <2>7, <2>8, <2>9, <2>10, <2>11, Steps DEF Calling
<1>2. [Delivered]_vars => [\A i \in Id : jobs'[i] # jobs[i] =>
        \E mid \in D!Swept(jobs[i]) : jobs'[i] \in D!Moved(mid)]_vars
  BY DEF Delivered
<1> QED
  BY InvariantHolds, <1>1, <1>2, PTL DEF Spec, CallsAreDelivery
=============================================================================
