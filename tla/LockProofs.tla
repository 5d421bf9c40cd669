----------------------------- MODULE LockProofs ------------------------------
(***************************************************************************)
(* Mutual exclusion of Lock, for any processes, threads and descriptors,   *)
(* as long as no forked child uses the Queue it was born with.             *)
(***************************************************************************)
EXTENDS Lock, TLAPS

(* Each thread has a home, and None is no description and no thread. *)
LEMMA Constants ==
  /\ \A t \in Thread : Home[t] \in Proc
  /\ None \notin Desc /\ None \notin Thread /\ Gone \notin Thread /\ MaxCalls \in Nat
BY LockAssumption

(* The invariant gives mutual exclusion: two threads inside own the same
   description, so they are of one process, whose thread lock has one holder. *)
LEMMA InsideAlone ==
  ASSUME IInv, NEW t \in Thread, NEW u \in Thread, Inside(t),
         HasThreadLock(u), fd[Home[u]] = owner
  PROVE  t = u
<1>1. HasThreadLock(t) /\ fd[Home[t]] # None /\ owner = fd[Home[t]]
  BY DEF IInv, DescriptorOpen, InsideOwns, Inside, HasThreadLock
<1>2. Home[t] = Home[u]
  BY <1>1, Constants DEF IInv, DescriptorsApart
<1> QED
  BY <1>1, <1>2 DEF IInv, ThreadLockHeld

(* Initially nothing is open and nobody is anywhere. *)
LEMMA InitInv == Init => IInv
<1> SUFFICES ASSUME Init PROVE IInv
  OBVIOUS
<1>1. TypeOK
  <2>1. owner \in Desc \cup {None} /\ kept \subseteq Desc /\ calls \in 0..MaxCalls
    BY Constants DEF Init
  <2>2. /\ life \in [Proc -> {"down", "opening", "open", "closed"}]
        /\ fd \in [Proc -> Desc \cup {None}]
        /\ tlock \in [Proc -> Thread \cup {None, Gone}]
        /\ pc \in [Thread -> {"idle", "entered", "locking", "polling", "inside", "worked",
                              "released", "closing"}]
    BY DEF Init
  <2>3. held \in [Proc -> BOOLEAN] /\ logOpen \in [Proc -> BOOLEAN] /\ broken \in BOOLEAN
    BY DEF Init
  <2> QED
    BY <2>1, <2>2, <2>3 DEF TypeOK
<1>2. ThreadLockHeld /\ DescriptorOpen /\ InsideOwns
  BY DEF Init, ThreadLockHeld, DescriptorOpen, InsideOwns, Inside, HasThreadLock
<1>3. DescriptorsApart /\ CallersLive
  BY DEF Init, DescriptorsApart, CallersLive
<1> QED
  BY <1>1, <1>2, <1>3 DEF IInv

(* One step keeps it.  What differs between the actions is whether the owner, a
   descriptor or a thread lock changes. *)
LEMMA StepInv == Forks # "use" /\ IInv /\ [Next]_vars => IInv'
<1> SUFFICES ASSUME Forks # "use", IInv, [Next]_vars PROVE IInv'
  OBVIOUS
<1> USE Constants DEF IInv
<1>1. ASSUME NEW t \in Thread, Call(t) PROVE IInv'
  <2>1. TypeOK'
    BY <1>1 DEF Call, TypeOK, Goto
  <2>2. ThreadLockHeld'
    BY <1>1 DEF Call, ThreadLockHeld, HasThreadLock, Goto
  <2>3. DescriptorOpen'
    BY <1>1 DEF Call, DescriptorOpen, Goto
  <2>4. InsideOwns'
    BY <1>1 DEF Call, InsideOwns, Inside, Goto
  <2>5. DescriptorsApart'
    BY <1>1 DEF Call, DescriptorsApart
  <2>6. CallersLive'
    BY <1>1 DEF Call, HasThreadLock, CallersLive, Goto
  <2> QED
    BY <2>1, <2>2, <2>3, <2>4, <2>5, <2>6
<1>2. ASSUME NEW t \in Thread, TakeThreadLock(t) PROVE IInv'
  <2>1. TypeOK'
    BY <1>2 DEF TakeThreadLock, TypeOK, Goto
  <2>2. ThreadLockHeld'
    BY <1>2 DEF TakeThreadLock, TypeOK, ThreadLockHeld, HasThreadLock, Goto
  <2>3. DescriptorOpen'
    BY <1>2 DEF TakeThreadLock, DescriptorOpen, Goto
  <2>4. InsideOwns'
    BY <1>2 DEF TakeThreadLock, InsideOwns, Inside, Goto
  <2>5. DescriptorsApart'
    BY <1>2 DEF TakeThreadLock, DescriptorsApart
  <2>6. CallersLive'
    BY <1>2 DEF TakeThreadLock, HasThreadLock, CallersLive, Goto
  <2> QED
    BY <2>1, <2>2, <2>3, <2>4, <2>5, <2>6
<1>3. ASSUME NEW t \in Thread, StartAcquire(t) PROVE IInv'
  <2>1. TypeOK'
    BY <1>3 DEF StartAcquire, TypeOK, Goto
  <2>2. ThreadLockHeld'
    BY <1>3 DEF StartAcquire, TypeOK, ThreadLockHeld, HasThreadLock, Goto
  <2>3. DescriptorOpen'
    BY <1>3 DEF StartAcquire, TypeOK, DescriptorOpen, Goto
  <2>4. InsideOwns'
    BY <1>3 DEF StartAcquire, TypeOK, ThreadLockHeld, HasThreadLock, InsideOwns,
       Inside, Goto
  <2>5. DescriptorsApart'
    BY <1>3 DEF StartAcquire, TypeOK, DescriptorsApart, Unused
  <2>6. CallersLive'
    BY <1>3 DEF StartAcquire, TypeOK, HasThreadLock, CallersLive, Goto
  <2> QED
    BY <2>1, <2>2, <2>3, <2>4, <2>5, <2>6
<1>4. ASSUME NEW t \in Thread, TryLock(t) PROVE IInv'
  <2>1. TypeOK'
    BY <1>4 DEF TryLock, TypeOK, Goto
  <2>2. ThreadLockHeld'
    BY <1>4 DEF TryLock, ThreadLockHeld, HasThreadLock, Goto
  <2>3. DescriptorOpen'
    BY <1>4 DEF TryLock, DescriptorOpen, Goto
  <2>4. InsideOwns'
    BY <1>4 DEF TryLock, DescriptorOpen, InsideOwns, Inside, Goto, Grantable
  <2>5. DescriptorsApart'
    BY <1>4 DEF TryLock, DescriptorsApart
  <2>6. CallersLive'
    BY <1>4 DEF TryLock, HasThreadLock, CallersLive, Goto
  <2> QED
    BY <2>1, <2>2, <2>3, <2>4, <2>5, <2>6
<1>5. ASSUME NEW t \in Thread, Interrupted(t) PROVE IInv'
  <2>1. TypeOK'
    BY <1>5 DEF Interrupted, TypeOK, Goto
  <2>2. ThreadLockHeld'
    BY <1>5 DEF Interrupted, TypeOK, ThreadLockHeld, HasThreadLock, Goto
  <2>3. DescriptorOpen'
    BY <1>5 DEF Interrupted, DescriptorOpen, Goto
  <2>4. InsideOwns'
    BY <1>5 DEF Interrupted, DescriptorOpen, InsideOwns, Inside, Goto, Grantable
  <2>5. DescriptorsApart'
    BY <1>5 DEF Interrupted, DescriptorsApart
  <2>6. CallersLive'
    BY <1>5 DEF Interrupted, HasThreadLock, CallersLive, Goto
  <2> QED
    BY <2>1, <2>2, <2>3, <2>4, <2>5, <2>6
<1>6. ASSUME NEW t \in Thread, GiveUp(t) PROVE IInv'
  <2>1. TypeOK'
    BY <1>6 DEF GiveUp, TypeOK, Goto
  <2>2. ThreadLockHeld'
    BY <1>6 DEF GiveUp, TypeOK, ThreadLockHeld, HasThreadLock, Goto
  <2>3. DescriptorOpen'
    BY <1>6 DEF GiveUp, TypeOK, ThreadLockHeld, HasThreadLock, DescriptorOpen, Goto
  <2>4. InsideOwns'
    BY <1>6 DEF GiveUp, TypeOK, ThreadLockHeld, HasThreadLock, InsideOwns, Inside,
       Goto
  <2>5. DescriptorsApart'
    BY <1>6 DEF GiveUp, TypeOK, DescriptorsApart
  <2>6. CallersLive'
    BY <1>6 DEF GiveUp, TypeOK, ThreadLockHeld, HasThreadLock, CallersLive, Goto
  <2> QED
    BY <2>1, <2>2, <2>3, <2>4, <2>5, <2>6
<1>7. ASSUME NEW t \in Thread, Work(t) PROVE IInv'
  <2>1. TypeOK'
    BY <1>7 DEF Work, TypeOK, Goto
  <2>2. ThreadLockHeld'
    BY <1>7 DEF Work, ThreadLockHeld, HasThreadLock, Goto
  <2>3. DescriptorOpen'
    BY <1>7 DEF Work, DescriptorOpen, Goto
  <2>4. InsideOwns'
    BY <1>7 DEF Work, InsideOwns, Inside, Goto
  <2>5. DescriptorsApart'
    BY <1>7 DEF Work, DescriptorsApart
  <2>6. CallersLive'
    BY <1>7 DEF Work, HasThreadLock, CallersLive, Goto
  <2> QED
    BY <2>1, <2>2, <2>3, <2>4, <2>5, <2>6
<1>8. ASSUME NEW t \in Thread, Release(t) PROVE IInv'
  <2>1. TypeOK'
    BY <1>8 DEF Release, TypeOK, Goto, OwnerWithout
  <2>2. ThreadLockHeld'
    BY <1>8 DEF Release, ThreadLockHeld, HasThreadLock, Goto
  <2>3. DescriptorOpen'
    BY <1>8 DEF Release, DescriptorOpen, Goto
  <2>4. InsideOwns'
    BY <1>8, InsideAlone DEF Release, TypeOK, HasThreadLock, InsideOwns, Inside,
       Goto
  <2>5. DescriptorsApart'
    BY <1>8 DEF Release, DescriptorsApart
  <2>6. CallersLive'
    BY <1>8 DEF Release, HasThreadLock, CallersLive, Goto
  <2> QED
    BY <2>1, <2>2, <2>3, <2>4, <2>5, <2>6
<1>9. ASSUME NEW t \in Thread, Leave(t) PROVE IInv'
  <2>1. TypeOK'
    BY <1>9 DEF Leave, TypeOK, Goto
  <2>2. ThreadLockHeld'
    BY <1>9 DEF Leave, TypeOK, ThreadLockHeld, HasThreadLock, Goto
  <2>3. DescriptorOpen'
    BY <1>9 DEF Leave, DescriptorOpen, Goto
  <2>4. InsideOwns'
    BY <1>9 DEF Leave, InsideOwns, Inside, Goto
  <2>5. DescriptorsApart'
    BY <1>9 DEF Leave, DescriptorsApart
  <2>6. CallersLive'
    BY <1>9 DEF Leave, HasThreadLock, CallersLive, Goto
  <2> QED
    BY <2>1, <2>2, <2>3, <2>4, <2>5, <2>6
<1>10. ASSUME NEW t \in Thread, Open(t) PROVE IInv'
  <2>1. TypeOK'
    BY <1>10 DEF Open, TypeOK, Goto
  <2>2. ThreadLockHeld'
    BY <1>10 DEF Open, TypeOK, ThreadLockHeld, HasThreadLock, CallersLive, Goto
  <2>3. DescriptorOpen'
    BY <1>10 DEF Open, DescriptorOpen, Goto
  <2>4. InsideOwns'
    BY <1>10 DEF Open, InsideOwns, Inside, Goto
  <2>5. DescriptorsApart'
    BY <1>10 DEF Open, DescriptorsApart
  <2>6. CallersLive'
    BY <1>10 DEF Open, TypeOK, HasThreadLock, CallersLive, Goto
  <2> QED
    BY <2>1, <2>2, <2>3, <2>4, <2>5, <2>6
<1>11. ASSUME NEW t \in Thread, CallClose(t) PROVE IInv'
  <2>1. TypeOK'
    BY <1>11 DEF CallClose, TypeOK, Goto
  <2>2. ThreadLockHeld'
    BY <1>11 DEF CallClose, ThreadLockHeld, HasThreadLock, Goto
  <2>3. DescriptorOpen'
    BY <1>11 DEF CallClose, DescriptorOpen, Goto
  <2>4. InsideOwns'
    BY <1>11 DEF CallClose, InsideOwns, Inside, Goto
  <2>5. DescriptorsApart'
    BY <1>11 DEF CallClose, DescriptorsApart
  <2>6. CallersLive'
    BY <1>11 DEF CallClose, HasThreadLock, CallersLive, Goto
  <2> QED
    BY <2>1, <2>2, <2>3, <2>4, <2>5, <2>6
<1>12. ASSUME NEW t \in Thread, Close(t) PROVE IInv'
  <2>1. TypeOK'
    BY <1>12 DEF Close, TypeOK, Goto, OwnerWithout, OwnerAfterClose
  <2>2. ThreadLockHeld'
    BY <1>12 DEF Close, ThreadLockHeld, HasThreadLock, Goto
  <2>3. DescriptorOpen'
    BY <1>12 DEF Close, TypeOK, ThreadLockHeld, HasThreadLock, DescriptorOpen, Goto
  <2>4. InsideOwns'
    BY <1>12 DEF Close, TypeOK, ThreadLockHeld, DescriptorsApart, HasThreadLock,
       InsideOwns, Inside, Goto, OwnerWithout, OwnerAfterClose
  <2>5. DescriptorsApart'
    BY <1>12 DEF Close, TypeOK, DescriptorsApart
  <2>6. CallersLive'
    BY <1>12 DEF Close, TypeOK, HasThreadLock, CallersLive, Goto
  <2> QED
    BY <2>1, <2>2, <2>3, <2>4, <2>5, <2>6
<1>13. ASSUME NEW p \in Proc, Kill(p) PROVE IInv'
  <2>1. TypeOK'
    BY <1>13 DEF Kill, TypeOK, OwnerWithout, OwnerAfterClose
  <2>2. ThreadLockHeld'
    BY <1>13 DEF Kill, ThreadLockHeld, HasThreadLock
  <2>3. DescriptorOpen'
    BY <1>13 DEF Kill, DescriptorOpen
  <2>4. InsideOwns'
    BY <1>13 DEF Kill, InsideOwns, Inside, OwnerWithout, OwnerAfterClose
  <2>5. DescriptorsApart'
    BY <1>13 DEF Kill, DescriptorsApart
  <2>6. CallersLive'
    BY <1>13 DEF Kill, HasThreadLock, CallersLive
  <2> QED
    BY <2>1, <2>2, <2>3, <2>4, <2>5, <2>6
<1>14. ASSUME NEW p \in Proc, NEW c \in Proc, Fork(p, c) PROVE IInv'
  <2>1. TypeOK'
    BY <1>14 DEF Fork, TypeOK
  <2>2. ThreadLockHeld'
    BY <1>14 DEF Fork, ThreadLockHeld, HasThreadLock
  <2>3. DescriptorOpen'
    BY <1>14 DEF Fork, DescriptorOpen
  <2>4. InsideOwns'
    BY <1>14 DEF Fork, InsideOwns, Inside
  <2>5. DescriptorsApart'
    BY <1>14 DEF Fork, DescriptorsApart
  <2>6. CallersLive'
    BY <1>14 DEF Fork, HasThreadLock, CallersLive
  <2> QED
    BY <2>1, <2>2, <2>3, <2>4, <2>5, <2>6
<1>15. ASSUME NEW d \in Desc, ChildEnds(d) PROVE IInv'
  <2>1. TypeOK'
    BY <1>15 DEF ChildEnds, TypeOK, OwnerWithout
  <2>2. ThreadLockHeld'
    BY <1>15 DEF ChildEnds, ThreadLockHeld, HasThreadLock
  <2>3. DescriptorOpen'
    BY <1>15 DEF ChildEnds, DescriptorOpen
  <2>4. InsideOwns'
    BY <1>15 DEF ChildEnds, InsideOwns, Inside, OwnerWithout
  <2>5. DescriptorsApart'
    BY <1>15 DEF ChildEnds, DescriptorsApart
  <2>6. CallersLive'
    BY <1>15 DEF ChildEnds, HasThreadLock, CallersLive
  <2> QED
    BY <2>1, <2>2, <2>3, <2>4, <2>5, <2>6
<1>16. CASE UNCHANGED vars
  BY <1>16 DEF vars, TypeOK, ThreadLockHeld, HasThreadLock, DescriptorOpen,
     InsideOwns, Inside, DescriptorsApart, CallersLive
<1> QED
  BY <1>1, <1>2, <1>3, <1>4, <1>5, <1>6, <1>7, <1>8, <1>9, <1>10, <1>11, <1>12,
     <1>13, <1>14, <1>15, <1>16 DEF Next, Proceed

(* In every reachable state the invariant holds. *)
THEOREM InvariantHolds == Forks # "use" => (Spec => []IInv)
<1> SUFFICES ASSUME Forks # "use" PROVE Spec => []IInv
  OBVIOUS
<1>1. IInv /\ [Next]_vars => IInv'
  BY StepInv
<1> QED
  BY InitInv, <1>1, PTL DEF Spec

(* No two operations are at work on the files at once, in whatever threads and
   processes (the with statement of _transaction, queue.py): the assumption under
   which Queue makes each operation one step. *)
THEOREM Exclusion == Forks # "use" => (Spec => []MutualExclusion)
<1> SUFFICES ASSUME Forks # "use" PROVE Spec => []MutualExclusion
  OBVIOUS
<1>1. IInv => MutualExclusion
  <2> SUFFICES ASSUME IInv, NEW t \in Thread, NEW u \in Thread, Inside(t), Inside(u)
               PROVE  t = u
    BY DEF MutualExclusion
  <2>1. HasThreadLock(u) /\ fd[Home[u]] = owner
    BY DEF IInv, InsideOwns, Inside, HasThreadLock
  <2> QED
    BY <2>1, InsideAlone
<1> QED
  BY InvariantHolds, <1>1, PTL

(* One step never leaves the kernel's lock behind. *)
LEMMA StepLeft == Forks # "use" /\ IInv /\ NeverLeftBehind /\ [Next]_vars => NeverLeftBehind'
<1> SUFFICES ASSUME Forks # "use", IInv, NeverLeftBehind, [Next]_vars PROVE NeverLeftBehind'
  OBVIOUS
<1> USE Constants DEF IInv, NeverLeftBehind
<1>1. ASSUME NEW t \in Thread, Call(t) PROVE NeverLeftBehind'
  BY <1>1 DEF Call, Inside, Goto
<1>2. ASSUME NEW t \in Thread, TakeThreadLock(t) PROVE NeverLeftBehind'
  BY <1>2 DEF TakeThreadLock, Inside, Goto
<1>3. ASSUME NEW t \in Thread, StartAcquire(t) PROVE NeverLeftBehind'
  BY <1>3 DEF StartAcquire, TypeOK, Inside, Goto, Unused
<1>4. ASSUME NEW t \in Thread, TryLock(t) PROVE NeverLeftBehind'
  BY <1>4 DEF TryLock, TypeOK, Inside, Goto
<1>5. ASSUME NEW t \in Thread, Interrupted(t) PROVE NeverLeftBehind'
  BY <1>5 DEF Interrupted
<1>6. ASSUME NEW t \in Thread, GiveUp(t) PROVE NeverLeftBehind'
  BY <1>6 DEF GiveUp, TypeOK, ThreadLockHeld, HasThreadLock, Inside, Goto
<1>7. ASSUME NEW t \in Thread, Work(t) PROVE NeverLeftBehind'
  BY <1>7 DEF Work, Inside, Goto
<1>8. ASSUME NEW t \in Thread, Release(t) PROVE NeverLeftBehind'
  BY <1>8 DEF Release, InsideOwns, Inside, OwnerWithout
<1>9. ASSUME NEW t \in Thread, Leave(t) PROVE NeverLeftBehind'
  BY <1>9 DEF Leave, Inside, Goto
<1>10. ASSUME NEW t \in Thread, Open(t) PROVE NeverLeftBehind'
  BY <1>10 DEF Open, Inside, Goto
<1>11. ASSUME NEW t \in Thread, CallClose(t) PROVE NeverLeftBehind'
  BY <1>11 DEF CallClose, Inside, Goto
<1>12. ASSUME NEW t \in Thread, Close(t) PROVE NeverLeftBehind'
  BY <1>12 DEF Close, TypeOK, ThreadLockHeld, HasThreadLock, Inside, Goto,
     OwnerWithout, OwnerAfterClose
<1>13. ASSUME NEW p \in Proc, Kill(p) PROVE NeverLeftBehind'
  BY <1>13 DEF Kill, TypeOK, DescriptorsApart, Inside, OwnerWithout, OwnerAfterClose
<1>14. ASSUME NEW p \in Proc, NEW c \in Proc, Fork(p, c) PROVE NeverLeftBehind'
  BY <1>14 DEF Fork, Inside
<1>15. ASSUME NEW d \in Desc, ChildEnds(d) PROVE NeverLeftBehind'
  BY <1>15 DEF ChildEnds, Inside, OwnerWithout
<1>16. CASE UNCHANGED vars
  BY <1>16 DEF vars, Inside
<1> QED
  BY <1>1, <1>2, <1>3, <1>4, <1>5, <1>6, <1>7, <1>8, <1>9, <1>10, <1>11, <1>12,
     <1>13, <1>14, <1>15, <1>16 DEF Next, Proceed

(* No end of an operation leaves the kernel's lock taken, whoever closes, dies or
   gives up: only an interrupt in acquire can, or a child that outlives its parent. *)
THEOREM LockComesBack == Forks # "use" => (Spec => []NeverLeftBehind)
<1> SUFFICES ASSUME Forks # "use" PROVE Spec => []NeverLeftBehind
  OBVIOUS
<1>1. Init => NeverLeftBehind
  BY DEF Init, NeverLeftBehind
<1>2. IInv /\ NeverLeftBehind /\ [Next]_vars => NeverLeftBehind'
  BY StepLeft
<1> QED
  BY InvariantHolds, <1>1, <1>2, PTL DEF Spec
=============================================================================
