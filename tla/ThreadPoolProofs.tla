-------------------------- MODULE ThreadPoolProofs --------------------------
(***************************************************************************)
(* Order and ownership in the thread pool, for any number of workers and   *)
(* tasks.                                                                  *)
(***************************************************************************)
EXTENDS ThreadPool, TLAPS

Labels == {"loop", "returned", "task", "begun", "inside", "below", "again", "writing"}

\* The types of what the order and the locks depend on.
TypesOK ==
    /\ tasks_ \in Seq(Nat) /\ begun \in Seq(Nat) /\ entered \in Seq(Nat)
    /\ joined \in Nat
    /\ latch_ \in Workers \cup {None}
    /\ pc \in [Workers -> Labels]
    /\ current \in [Workers -> Nat]
    /\ type \in [Workers -> TransactionTypes \cup {None}]
    /\ transaction_lock \in [Workers -> Workers \cup {None}]

\* The first conjunct of TasksEnterInOrder, element by element: the tasks
\* taken are 1, 2, ... and the queue goes on where they end.
QueueGoesOn ==
    /\ Len(begun) + Len(tasks_) = joined
    /\ \A i \in 1 .. Len(begun) : begun[i] = i
    /\ \A i \in 1 .. Len(tasks_) : tasks_[i] = Len(begun) + i

\* From Take to Unlock a worker holds latch_.  Until it has read lock_, lock_
\* leads to its own lock, because nobody else can have set it since.  Only a
\* scan still has its lock when it no longer has the root latch.
LatchIsHeld ==
    \A w \in Workers :
        /\ pc[w] \in {"task", "begun"} => latch_ = w
        /\ pc[w] = "task" => lock_ = w
        /\ transaction_lock[w] # None =>
              /\ transaction_lock[w] = w /\ latch_ = w
              /\ pc[w] \in {"begun", "inside", "below"}
              /\ pc[w] = "below" => type[w] = "MULTIFIND"

\* A worker that has yet to take the root latch has the last task taken, and
\* no task entered the tree after it.
LastEntersNext ==
    /\ \A i, j \in 1 .. Len(entered) : i < j => entered[i] < entered[j]
    /\ \A i \in 1 .. Len(entered) : entered[i] <= Len(begun)
    /\ \A w \in Workers :
          pc[w] \in {"task", "begun"} =>
             /\ current[w] = Len(begun)
             /\ \A i \in 1 .. Len(entered) : entered[i] < Len(begun)

PoolInv == TypesOK /\ QueueGoesOn /\ LatchIsHeld /\ LastEntersNext

\* A new pool satisfies the invariant.
LEMMA PoolInitInv == Init => PoolInv
BY PoolAssumption
   DEF Init, PoolInv, TypesOK, Labels, QueueGoesOn, LatchIsHeld, LastEntersNext

\* Join puts the next number at the end of the queue.
LEMMA JoinStep ==
    ASSUME PoolInv, Join
    PROVE  PoolInv'
<1> USE DEF PoolInv
<1>1. /\ joined' = joined + 1
      /\ tasks_' = Append(tasks_, joined + 1)
      /\ UNCHANGED <<latch_, lock_, pc, begun, current, type, transaction_lock, entered>>
  BY DEF Join, taskVars
<1>2. /\ tasks_' \in Seq(Nat)
      /\ Len(tasks_') = Len(tasks_) + 1
      /\ \A i \in 1 .. Len(tasks_) : tasks_'[i] = tasks_[i]
      /\ tasks_'[Len(tasks_) + 1] = joined + 1
  BY <1>1 DEF TypesOK
<1>3. TypesOK'
  BY <1>1, <1>2 DEF TypesOK
<1>4. QueueGoesOn'
  <2>1. Len(begun) \in Nat /\ Len(tasks_) \in Nat /\ joined = Len(begun) + Len(tasks_)
    BY DEF TypesOK, QueueGoesOn
  <2>2. ASSUME NEW i \in 1 .. Len(tasks_) + 1
        PROVE  tasks_'[i] = Len(begun) + i
    <3>1. CASE i = Len(tasks_) + 1
      BY <1>2, <2>1, <3>1
    <3>2. CASE i \in 1 .. Len(tasks_)
      BY <1>2, <3>2 DEF QueueGoesOn
    <3> QED
      BY <2>1, <3>1, <3>2
  <2>3. Len(begun) + Len(tasks_') = joined'
    BY <1>1, <1>2, <2>1
  <2> QED
    BY <1>1, <1>2, <2>2, <2>3 DEF QueueGoesOn
<1>5. LatchIsHeld' /\ LastEntersNext'
  BY <1>1 DEF LatchIsHeld, LastEntersNext
<1> QED
  BY <1>3, <1>4, <1>5

\* Take moves the head of the queue to the end of the tasks taken.  latch_ is
\* free, so no worker is between Take and Unlock.
LEMMA TakeStep ==
    ASSUME PoolInv, NEW w \in Workers, Take(w)
    PROVE  PoolInv'
<1> USE DEF PoolInv
<1>1. /\ latch_ = None /\ tasks_ # <<>>
      /\ latch_' = w /\ lock_' = w
      /\ current' = [current EXCEPT ![w] = Head(tasks_)]
      /\ tasks_' = Tail(tasks_)
      /\ begun' = Append(begun, Head(tasks_))
      /\ pc' = [pc EXCEPT ![w] = "task"]
      /\ UNCHANGED <<type, transaction_lock, entered, joined>>
  BY DEF Take, Locks, LockOfTask, Popped, Goto, mainVars
<1>2. /\ Head(tasks_) = Len(begun) + 1
      /\ tasks_' \in Seq(Nat)
      /\ Len(tasks_') = Len(tasks_) - 1
      /\ \A i \in 1 .. Len(tasks_') : tasks_'[i] = tasks_[i + 1]
  BY <1>1 DEF TypesOK, QueueGoesOn
<1>3. /\ begun' \in Seq(Nat)
      /\ Len(begun') = Len(begun) + 1
      /\ \A i \in 1 .. Len(begun) : begun'[i] = begun[i]
      /\ begun'[Len(begun) + 1] = Len(begun) + 1
  BY <1>1, <1>2 DEF TypesOK
<1>4. TypesOK'
  BY <1>1, <1>2, <1>3 DEF TypesOK, Labels
<1>5. QueueGoesOn'
  <2>1. /\ Len(begun) \in Nat /\ Len(tasks_) \in Nat /\ Len(tasks_) # 0
        /\ joined = Len(begun) + Len(tasks_)
    BY <1>1 DEF TypesOK, QueueGoesOn
  <2>2. Len(begun') + Len(tasks_') = joined'
    BY <1>1, <1>2, <1>3, <2>1
  <2>3. ASSUME NEW i \in 1 .. Len(begun')
        PROVE  begun'[i] = i
    <3>1. CASE i = Len(begun) + 1
      BY <1>3, <3>1
    <3>2. CASE i \in 1 .. Len(begun)
      BY <1>3, <3>2 DEF QueueGoesOn
    <3> QED
      BY <1>3, <2>1, <3>1, <3>2
  <2>4. ASSUME NEW i \in 1 .. Len(tasks_')
        PROVE  tasks_'[i] = Len(begun') + i
    <3>1. i + 1 \in 1 .. Len(tasks_)
      BY <1>2, <2>1
    <3>2. tasks_[i + 1] = Len(begun) + (i + 1)
      BY <3>1 DEF QueueGoesOn
    <3> QED
      BY <1>2, <1>3, <2>1, <3>2
  <2> QED
    BY <2>2, <2>3, <2>4 DEF QueueGoesOn
<1>6. \A u \in Workers : /\ pc[u] \notin {"task", "begun"}
                         /\ transaction_lock[u] = None
  BY <1>1, PoolAssumption DEF LatchIsHeld
<1>7. LatchIsHeld'
  BY <1>1, <1>6 DEF LatchIsHeld, TypesOK
<1>8. LastEntersNext'
  <2>1. \A i \in 1 .. Len(entered) : entered[i] < Len(begun')
    BY <1>3 DEF LastEntersNext, TypesOK
  <2>2. \A u \in Workers : pc'[u] \in {"task", "begun"} => current'[u] = Len(begun')
    BY <1>1, <1>2, <1>3, <1>6 DEF TypesOK
  <2> QED
    BY <1>1, <1>3, <2>1, <2>2 DEF LastEntersNext, TypesOK
<1> QED
  BY <1>4, <1>5, <1>7, <1>8

\* The other steps of a worker leave the queue alone.
LEMMA WorkerStep ==
    ASSUME PoolInv, NEW w \in Workers,
           \/ PlainTask(w) \/ NewTransaction(w) \/ Unlock(w) \/ UnlockRoot(w)
           \/ TentativeFails(w) \/ Retry(w) \/ Finish(w)
    PROVE  PoolInv'
<1> USE PoolAssumption DEF PoolInv, Goto, mainVars, taskVars
<1>1. UNCHANGED <<tasks_, begun, joined, entered, current, lock_>>
  BY DEF PlainTask, NewTransaction, Unlock, UnlockRoot, TentativeFails, Retry, Finish
<1>2. TypesOK'
  <2>1. CASE PlainTask(w) \/ UnlockRoot(w) \/ TentativeFails(w) \/ Retry(w) \/ Finish(w)
    BY <1>1, <2>1 DEF PlainTask, UnlockRoot, TentativeFails, Retry, Finish, Finishes,
         TypesOK, Labels
  <2>2. CASE NewTransaction(w)
    BY <1>1, <2>2 DEF NewTransaction, TypesOK, Labels, LatchIsHeld
  <2>3. CASE Unlock(w)
    BY <1>1, <2>3 DEF Unlock, TypesOK
  <2> QED
    BY <2>1, <2>2, <2>3
<1>3. QueueGoesOn'
  BY <1>1 DEF QueueGoesOn
<1>4. LatchIsHeld'
  <2>1. CASE PlainTask(w) \/ Finish(w)
    BY <1>1, <2>1 DEF PlainTask, Finish, Finishes, TypesOK, LatchIsHeld
  <2>2. CASE NewTransaction(w)
    BY <1>1, <2>2 DEF NewTransaction, TypesOK, LatchIsHeld
  <2>3. CASE Unlock(w)
    BY <1>1, <2>3 DEF Unlock, MayUnlock, TypesOK, LatchIsHeld
  <2>4. CASE UnlockRoot(w) \/ TentativeFails(w) \/ Retry(w)
    BY <1>1, <2>4 DEF UnlockRoot, TentativeFails, Retry, TypesOK, LatchIsHeld
  <2> QED
    BY <2>1, <2>2, <2>3, <2>4
<1>5. LastEntersNext'
  BY <1>1 DEF PlainTask, NewTransaction, Unlock, UnlockRoot, TentativeFails, Retry, Finish,
       Finishes, TypesOK, LastEntersNext
<1> QED
  BY <1>2, <1>3, <1>4, <1>5

\* A task that takes the root latch is the last one taken, so its number is
\* larger than those of all that entered before.
LEMMA LockRootStep ==
    ASSUME PoolInv, NEW w \in Workers, LockRoot(w)
    PROVE  PoolInv'
<1> USE DEF PoolInv
<1>1. /\ pc[w] = "begun"
      /\ entered' = Append(entered, current[w])
      /\ pc' = [pc EXCEPT ![w] = "inside"]
      /\ UNCHANGED <<tasks_, latch_, lock_, begun, joined, current, type, transaction_lock>>
  BY DEF LockRoot, Goto, mainVars
<1>2. current[w] = Len(begun) /\ current[w] \in Nat
  BY <1>1 DEF LastEntersNext, TypesOK
<1>3. /\ entered' \in Seq(Nat)
      /\ Len(entered') = Len(entered) + 1
      /\ \A i \in 1 .. Len(entered) : entered'[i] = entered[i]
      /\ entered'[Len(entered) + 1] = Len(begun)
  BY <1>1, <1>2 DEF TypesOK
<1>4. TypesOK'
  BY <1>1, <1>3 DEF TypesOK, Labels
<1>5. QueueGoesOn'
  BY <1>1 DEF QueueGoesOn
<1>6. LatchIsHeld'
  BY <1>1 DEF LatchIsHeld, TypesOK
<1>7. \A u \in Workers : pc'[u] \notin {"task", "begun"}
  BY <1>1 DEF LatchIsHeld, TypesOK
<1>8. LastEntersNext'
  BY <1>1, <1>3, <1>7 DEF LastEntersNext, TypesOK
<1> QED
  BY <1>4, <1>5, <1>6, <1>8

\* Sleeping, waking up and the flags of the owner touch nothing of it.
LEMMA SleepStep ==
    ASSUME PoolInv, UNCHANGED <<tasks_, begun, joined, entered, current, type, latch_, lock_,
                                transaction_lock>>,
           \/ UNCHANGED pc
           \/ \E w \in Workers : pc[w] = "loop" /\ pc' = [pc EXCEPT ![w] = "returned"]
    PROVE  PoolInv'
BY DEF PoolInv, TypesOK, Labels, QueueGoesOn, LatchIsHeld, LastEntersNext

\* Every step keeps the invariant.
LEMMA PoolStep == PoolInv /\ [Next]_vars => PoolInv'
<1> SUFFICES ASSUME PoolInv, [Next]_vars
             PROVE  PoolInv'
  OBVIOUS
<1>1. CASE Join
  BY <1>1, JoinStep
<1>2. CASE NotifyOne \/ Terminate \/ NotifyAll \/ JoinWorkers \/ UNCHANGED vars
  BY <1>2, SleepStep DEF NotifyOne, Terminate, NotifyAll, JoinWorkers, vars,
       mainVars, taskVars
<1>3. ASSUME NEW w \in Workers, Steps(w) \/ SpuriousWakeup(w)
      PROVE  PoolInv'
  <2>1. CASE Wait(w) \/ Return(w) \/ SpuriousWakeup(w)
    BY <2>1, SleepStep DEF Wait, Return, SpuriousWakeup, Locks, Goto, mainVars, taskVars
  <2>2. CASE Take(w)
    BY <2>2, TakeStep
  <2>3. CASE LockRoot(w)
    BY <2>3, LockRootStep
  <2> QED
    BY <1>3, <2>1, <2>2, <2>3, WorkerStep DEF Steps
<1> QED
  BY <1>1, <1>2, <1>3 DEF Next

\* The invariant holds throughout.
LEMMA PoolInvHolds == Spec => []PoolInv
BY PoolInitInv, PoolStep, PTL DEF Spec

\* Tasks are taken, and enter the tree, in the order in which they were joined,
\* for any number of workers.
THEOREM OrderIsKept == Spec => []TasksEnterInOrder
<1>1. PoolInv => TasksEnterInOrder
  <2> SUFFICES ASSUME PoolInv
               PROVE  TasksEnterInOrder
    OBVIOUS
  <2>1. begun \o tasks_ = [i \in 1 .. joined |-> i]
    <3> DEFINE all == begun \o tasks_
    <3>1. /\ all \in Seq(Nat)
          /\ Len(all) = joined
          /\ \A i \in 1 .. joined : all[i] = i
      <4>1. /\ begun \in Seq(Nat) /\ tasks_ \in Seq(Nat)
            /\ Len(begun) \in Nat /\ Len(tasks_) \in Nat
            /\ joined = Len(begun) + Len(tasks_)
        BY DEF PoolInv, TypesOK, QueueGoesOn
      <4>2. ASSUME NEW i \in 1 .. joined
            PROVE  all[i] = i
        <5>1. CASE i \in 1 .. Len(begun)
          BY <4>1, <5>1 DEF PoolInv, QueueGoesOn
        <5>2. CASE i - Len(begun) \in 1 .. Len(tasks_)
          <6>1. all[i] = tasks_[i - Len(begun)]
            BY <4>1, <5>2
          <6>2. tasks_[i - Len(begun)] = Len(begun) + (i - Len(begun))
            BY <5>2 DEF PoolInv, QueueGoesOn
          <6> QED
            BY <4>1, <6>1, <6>2
        <5> QED
          BY <4>1, <5>1, <5>2
      <4> QED
        BY <4>1, <4>2
    <3>2. all = [i \in 1 .. Len(all) |-> all[i]]
      <4>1. all \in Seq(Nat)
        BY <3>1
      <4> HIDE DEF all
      <4> QED
        BY <4>1
    <3> QED
      BY <3>1, <3>2
  <2>2. DOMAIN entered = 1 .. Len(entered)
    BY DEF PoolInv, TypesOK
  <2> QED
    BY <2>1, <2>2 DEF PoolInv, LastEntersNext, TasksEnterInOrder
<1> QED
  BY <1>1, PoolInvHolds, PTL

\* A Transaction unlocks the mutex only through the lock of its own worker, and
\* only while that worker holds it.
THEOREM LocksAreOwn == Spec => []LockIsOwn
<1>1. PoolInv => LockIsOwn
  BY DEF PoolInv, LatchIsHeld, LockIsOwn
<1> QED
  BY <1>1, PoolInvHolds, PTL
=============================================================================
