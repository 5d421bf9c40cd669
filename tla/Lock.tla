-------------------------------- MODULE Lock ---------------------------------
(***************************************************************************)
(* The two locks an operation runs under (nobroker/lock.py, and            *)
(* _transaction, __init__ and close of nobroker/queue.py): the thread lock *)
(* of a Queue, then the file lock shared by all processes.                 *)
(*                                                                         *)
(* The kernel's lock belongs to an open file description.  It goes when it *)
(* is unlocked, or when the last descriptor of that description is closed: *)
(* a process that dies drops it, unless a forked child has a copy.         *)
(*                                                                         *)
(* A process has one Queue, used by several threads.  What an operation    *)
(* does under the locks is the subject of Queue.                           *)
(***************************************************************************)
EXTENDS Naturals, FiniteSets

CONSTANTS
  Proc, Thread,      \* processes, and threads
  Home,              \* the process of each thread
  Desc,              \* open file descriptions of the lock file
  None,              \* no description, no thread
  Gone,              \* the thread that held a lock when its process was forked
  Forks,             \* what forked children do: none, keep (descriptors), use (the queue)
  Interrupts,        \* whether a signal may raise in the middle of acquire
  MaxCalls           \* bound: how many calls are made

ASSUME LockAssumption ==
  /\ Home \in [Thread -> Proc]
  /\ None \notin Desc /\ None \notin Thread /\ Gone \notin Thread
  /\ Forks \in {"none", "keep", "use"} /\ Interrupts \in BOOLEAN /\ MaxCalls \in Nat

VARIABLES
  owner,      \* the description that has the kernel's lock
  kept,       \* descriptions that a forked child has open
  life,       \* of each process's Queue: down, opening, open, closed
  fd,         \* the description behind FileLock._fd
  held,       \* FileLock._held
  logOpen,    \* whether the log's descriptor is open
  tlock,      \* who has the thread lock
  pc,         \* where each thread is
  calls,      \* calls made so far
  broken      \* ghost: an interrupt has left a process with the lock

vars == <<owner, kept, life, fd, held, logOpen, tlock, pc, calls, broken>>

Init ==
  /\ owner = None /\ kept = {}
  /\ life = [p \in Proc |-> "down"] /\ fd = [p \in Proc |-> None]
  /\ held = [p \in Proc |-> FALSE] /\ logOpen = [p \in Proc |-> FALSE]
  /\ tlock = [p \in Proc |-> None] /\ pc = [t \in Thread |-> "idle"]
  /\ calls = 0 /\ broken = FALSE

Goto(t, place) == pc' = [pc EXCEPT ![t] = place]

-----------------------------------------------------------------------------
(***************************************************************************)
(* The kernel.                                                             *)
(***************************************************************************)
\* Slip: the lock is taken shared.
GrantableShared(d) == TRUE

\* LOCK_EX | LOCK_NB on description d: its own lock is no obstacle.
Grantable(d) == owner \in {None, d}

\* Who has the lock once d is unlocked.
OwnerWithout(d) == IF owner = d THEN None ELSE owner

\* Who has the lock once process p has closed its descriptor.
OwnerAfterClose(p) ==
  IF fd[p] \in kept \/ \E q \in Proc \ {p} : fd[q] = fd[p] THEN owner ELSE OwnerWithout(fd[p])

Unused(d) == d \notin kept /\ \A p \in Proc : fd[p] # d

-----------------------------------------------------------------------------
(***************************************************************************)
(* One operation: _closed is read before any lock is taken, then come the  *)
(* thread lock, the descriptor, the attempts at the file lock, the work,   *)
(* and the releases in reverse order, whether the work raises or not.      *)
(***************************************************************************)
Call(t) ==
  /\ pc[t] = "idle" /\ life[Home[t]] = "open" /\ calls < MaxCalls
  /\ Goto(t, "entered") /\ calls' = calls + 1
  /\ UNCHANGED <<owner, kept, life, fd, held, logOpen, tlock, broken>>

\* Slip: the thread lock is not waited for.
TakeThreadLockAnyway(t) ==
  /\ pc[t] = "entered"
  /\ tlock' = [tlock EXCEPT ![Home[t]] = t]
  /\ Goto(t, "locking")
  /\ UNCHANGED <<owner, kept, life, fd, held, logOpen, calls, broken>>

TakeThreadLock(t) ==
  /\ pc[t] = "entered" /\ tlock[Home[t]] = None
  /\ tlock' = [tlock EXCEPT ![Home[t]] = t]
  /\ Goto(t, "locking")
  /\ UNCHANGED <<owner, kept, life, fd, held, logOpen, calls, broken>>

\* acquire: a lock already held is a RuntimeError, a descriptor is opened if there
\* is none, also for a queue that was closed in the meantime.
StartAcquire(t) ==
  LET p == Home[t] IN
  /\ pc[t] = "locking"
  /\ \/ held[p] /\ Goto(t, "idle") /\ tlock' = [tlock EXCEPT ![p] = None] /\ UNCHANGED fd
     \/ /\ ~held[p] /\ Goto(t, "polling") /\ UNCHANGED tlock
        /\ \/ fd[p] # None /\ UNCHANGED fd
           \/ fd[p] = None /\ \E d \in Desc : Unused(d) /\ fd' = [fd EXCEPT ![p] = d]
  /\ UNCHANGED <<owner, kept, life, held, logOpen, calls, broken>>

TryLock(t) ==
  LET p == Home[t] IN
  /\ pc[t] = "polling" /\ Grantable(fd[p])
  /\ owner' = fd[p] /\ held' = [held EXCEPT ![p] = TRUE]
  /\ Goto(t, "inside")
  /\ UNCHANGED <<kept, life, fd, logOpen, tlock, calls, broken>>

\* A KeyboardInterrupt is raised after the attempt succeeded, before or after _held
\* is set, and before the with statement is entered.  (A constructor it hits takes
\* its process down: that is Kill.)
Interrupted(t) ==
  LET p == Home[t] IN
  /\ Interrupts /\ ~broken /\ broken' = TRUE
  /\ pc[t] = "polling" /\ Grantable(fd[p]) /\ life[p] # "opening"
  /\ owner' = fd[p] /\ \E flag \in BOOLEAN : held' = [held EXCEPT ![p] = flag]
  /\ tlock' = [tlock EXCEPT ![p] = None] /\ Goto(t, "idle")
  /\ UNCHANGED <<kept, life, fd, logOpen, calls>>

\* Slip: LockTimeoutError leaves the thread lock taken.
GiveUpOutright(t) ==
  /\ pc[t] = "polling" /\ ~Grantable(fd[Home[t]]) /\ life[Home[t]] # "opening"
  /\ Goto(t, "idle")
  /\ UNCHANGED <<owner, kept, life, fd, held, logOpen, tlock, calls, broken>>

\* LockTimeoutError.  A constructor fails with it; its descriptor is never used again.
GiveUp(t) ==
  LET p == Home[t] IN
  /\ pc[t] = "polling" /\ ~Grantable(fd[p])
  /\ tlock' = [tlock EXCEPT ![p] = None] /\ Goto(t, "idle")
  /\ \/ life[p] # "opening" /\ UNCHANGED <<life, fd>>
     \/ /\ life[p] = "opening"
        /\ life' = [life EXCEPT ![p] = "down"] /\ fd' = [fd EXCEPT ![p] = None]
  /\ UNCHANGED <<owner, kept, held, logOpen, calls, broken>>

\* The work.  The log is opened by a constructor, and reopened, even if the queue was
\* closed meanwhile, when a peer has compacted; one that is closed raises CorruptLogError.
Work(t) ==
  LET p == Home[t] IN
  /\ pc[t] = "inside" /\ Goto(t, "worked")
  /\ \E compacted \in BOOLEAN :
       logOpen' = [logOpen EXCEPT ![p] = @ \/ life[p] = "opening" \/ compacted]
  /\ UNCHANGED <<owner, kept, life, fd, held, tlock, calls, broken>>

\* Slip: only the flag is reset.
ReleaseFlag(t) ==
  /\ pc[t] = "worked" /\ Goto(t, "released")
  /\ held' = [held EXCEPT ![Home[t]] = FALSE]
  /\ UNCHANGED <<owner, kept, life, fd, logOpen, tlock, calls, broken>>

Release(t) ==
  /\ pc[t] = "worked" /\ Goto(t, "released")
  /\ held' = [held EXCEPT ![Home[t]] = FALSE] /\ owner' = OwnerWithout(fd[Home[t]])
  /\ UNCHANGED <<kept, life, fd, logOpen, tlock, calls, broken>>

Leave(t) ==
  LET p == Home[t] IN
  /\ pc[t] = "released" /\ Goto(t, "idle") /\ tlock' = [tlock EXCEPT ![p] = None]
  /\ life' = IF life[p] = "opening" THEN [life EXCEPT ![p] = "open"] ELSE life
  /\ UNCHANGED <<owner, kept, fd, held, logOpen, calls, broken>>

-----------------------------------------------------------------------------
(***************************************************************************)
(* A Queue's life.                                                         *)
(***************************************************************************)
\* The constructor takes the file lock only; that no other thread has the object
\* yet is what the thread lock stands for.
Open(t) ==
  LET p == Home[t] IN
  /\ life[p] = "down" /\ pc[t] = "idle" /\ calls < MaxCalls /\ calls' = calls + 1
  /\ life' = [life EXCEPT ![p] = "opening"] /\ tlock' = [tlock EXCEPT ![p] = t]
  /\ Goto(t, "locking")
  /\ UNCHANGED <<owner, kept, fd, held, logOpen, broken>>

CallClose(t) ==
  /\ pc[t] = "idle" /\ life[Home[t]] = "open" /\ calls < MaxCalls /\ calls' = calls + 1
  /\ Goto(t, "closing")
  /\ UNCHANGED <<owner, kept, life, fd, held, logOpen, tlock, broken>>

\* Under the thread lock: an explicit unlock if the flag says so, then the descriptor.
\* A second close returns at once.
Close(t) ==
  LET p == Home[t] IN
  /\ pc[t] = "closing" /\ tlock[p] = None /\ Goto(t, "idle")
  /\ \/ life[p] = "closed" /\ UNCHANGED <<life, logOpen, held, fd, owner>>
     \/ /\ life[p] = "open"
        /\ life' = [life EXCEPT ![p] = "closed"] /\ logOpen' = [logOpen EXCEPT ![p] = FALSE]
        /\ held' = [held EXCEPT ![p] = FALSE] /\ fd' = [fd EXCEPT ![p] = None]
        /\ owner' = IF held[p] THEN OwnerWithout(fd[p]) ELSE OwnerAfterClose(p)
  /\ UNCHANGED <<kept, tlock, calls, broken>>

\* A process dies, at any point.
Kill(p) ==
  /\ life[p] # "down"
  /\ owner' = OwnerAfterClose(p)
  /\ life' = [life EXCEPT ![p] = "down"] /\ fd' = [fd EXCEPT ![p] = None]
  /\ held' = [held EXCEPT ![p] = FALSE] /\ logOpen' = [logOpen EXCEPT ![p] = FALSE]
  /\ tlock' = [tlock EXCEPT ![p] = None]
  /\ pc' = [t \in Thread |-> IF Home[t] = p THEN "idle" ELSE pc[t]]
  /\ UNCHANGED <<kept, calls, broken>>

\* A child of p has a copy of its descriptor.  It does other things, and has the
\* descriptor until it ends (one such child at a time); or it goes on, as process c,
\* with the Queue it was born with.
Fork(p, c) ==
  IF Forks = "use"
  THEN /\ life[p] \in {"open", "closed"} /\ life[c] = "down"
       /\ life' = [life EXCEPT ![c] = life[p]] /\ fd' = [fd EXCEPT ![c] = fd[p]]
       /\ held' = [held EXCEPT ![c] = held[p]] /\ logOpen' = [logOpen EXCEPT ![c] = logOpen[p]]
       /\ tlock' = [tlock EXCEPT ![c] = IF tlock[p] = None THEN None ELSE Gone]
       /\ UNCHANGED <<owner, kept, pc, calls, broken>>
  ELSE /\ Forks = "keep" /\ kept = {} /\ fd[p] # None
       /\ kept' = {fd[p]}
       /\ UNCHANGED <<owner, life, fd, held, logOpen, tlock, pc, calls, broken>>

ChildEnds(d) ==
  /\ d \in kept /\ kept' = kept \ {d}
  /\ owner' = IF \E p \in Proc : fd[p] = d THEN owner ELSE OwnerWithout(d)
  /\ UNCHANGED <<life, fd, held, logOpen, tlock, pc, calls, broken>>

Proceed(t) ==
  \/ TakeThreadLock(t) \/ StartAcquire(t) \/ TryLock(t) \/ GiveUp(t)
  \/ Work(t) \/ Release(t) \/ Leave(t) \/ Close(t)

Next ==
  \/ \E t \in Thread : Proceed(t) \/ Call(t) \/ Open(t) \/ CallClose(t) \/ Interrupted(t)
  \/ \E p \in Proc : Kill(p)
  \/ \E p, c \in Proc : Fork(p, c)
  \/ \E d \in Desc : ChildEnds(d)

\* Threads run, and a clock measures the time-out; nobody need call, die or fork.
Spec == Init /\ [][Next]_vars /\ \A t \in Thread : WF_vars(Proceed(t))

-----------------------------------------------------------------------------
Inside(t) == pc[t] \in {"inside", "worked"}

\* The steps during which a thread has its process's thread lock.
HasThreadLock(t) == pc[t] \in {"locking", "polling", "inside", "worked", "released"}

TypeOK ==
  /\ owner \in Desc \cup {None} /\ kept \subseteq Desc
  /\ life \in [Proc -> {"down", "opening", "open", "closed"}]
  /\ fd \in [Proc -> Desc \cup {None}]
  /\ held \in [Proc -> BOOLEAN] /\ logOpen \in [Proc -> BOOLEAN]
  /\ tlock \in [Proc -> Thread \cup {None, Gone}]
  /\ pc \in [Thread -> {"idle", "entered", "locking", "polling", "inside", "worked",
                        "released", "closing"}]
  /\ calls \in 0..MaxCalls /\ broken \in BOOLEAN

\* No two operations are at work on the queue's files at once, in whatever processes
\* and threads: what Queue takes for granted (_transaction, FileLock).
MutualExclusion == \A t, u \in Thread : Inside(t) /\ Inside(u) => t = u

\* The parts of the inductive invariant: who is past the thread lock has it, and only
\* one of a process is; who is inside has the kernel's lock; no two processes share a
\* description; nobody is in a call of a queue that is down, nor, but its
\* constructor, of one that is being opened.
ThreadLockHeld == \A t \in Thread : HasThreadLock(t) => tlock[Home[t]] = t
DescriptorOpen ==
  \A t \in Thread : pc[t] \in {"polling", "inside", "worked"} => fd[Home[t]] # None
InsideOwns == \A t \in Thread : Inside(t) => owner = fd[Home[t]]
DescriptorsApart == \A p, q \in Proc : fd[p] = fd[q] /\ fd[p] # None => p = q
CallersLive ==
  \A t \in Thread : pc[t] # "idle" =>
    /\ life[Home[t]] # "down"
    /\ life[Home[t]] = "opening" => HasThreadLock(t)

IInv ==
  TypeOK /\ ThreadLockHeld /\ DescriptorOpen /\ InsideOwns /\ DescriptorsApart /\ CallersLive

\* The kernel's lock is never left behind: it belongs to an operation at work, unless
\* the holder was interrupted in acquire, or was killed while a child it had forked
\* lives, which then has the last descriptor (acquire and release, close).
NeverLeftBehind ==
  owner # None /\ ~broken =>
    \/ \E t \in Thread : Inside(t) /\ owner = fd[Home[t]]
    \/ owner \in kept /\ \A p \in Proc : fd[p] # owner

\* Every call ends, by success or LockTimeoutError, whoever dies with the lock, keeps
\* it, or closes the queue meanwhile (acquire polls against a deadline).
CallsEnd == \A t \in Thread : pc[t] # "idle" ~> pc[t] = "idle"
=============================================================================
