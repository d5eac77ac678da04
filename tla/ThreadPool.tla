----------------------------- MODULE ThreadPool -----------------------------
(***************************************************************************)
(* ThreadPool, and how the tasks of BPlusTreeIndexTS use its mutex.  A     *)
(* worker takes a task and runs it with latch_ held.  A task on the tree   *)
(* asks for the lock of the worker that runs it (GetLock), takes the root  *)
(* latch and only then unlocks latch_ (Transaction::Unlock), so that tasks *)
(* enter the tree in the order in which they were joined although several  *)
(* run at a time.  A scan unlocks at its end only.  An insertion or a      *)
(* removal whose leaf turns out to be unsafe has to come back for the root *)
(* latch to write.  Tasks that are not on the tree never unlock.           *)
(***************************************************************************)
EXTENDS Integers, Sequences, FiniteSets

CONSTANTS
    Workers,
    MaxTasks,   \* bound: number of tasks joined
    None

ASSUME PoolAssumption ==
    /\ Workers # {} /\ IsFiniteSet(Workers)
    /\ MaxTasks \in Nat
    /\ None \notin Workers

\* What a task does on the tree; OPTIMISTIC is an insertion or a removal.
TransactionTypes == {"FIND", "MULTIFIND", "OPTIMISTIC"}

VARIABLES
    tasks_, isTerminated,
    latch_,          \* the worker that holds the mutex; the main thread
                     \* holds it only within one of its steps
    lock_,           \* whose unique_lock the pointer lock_ leads to
    asleep,          \* workers in cv_.wait()
    pc,              \* where a worker is
    current,         \* the task a worker runs
    type,            \* what its task is doing on the tree
    transaction_lock,\* the lock its Transaction was made with
    root_readers, root_writer,  \* who has root_latch_
    main,            \* where the thread that owns the pool is
    joined,          \* number of tasks joined so far
    begun,           \* the tasks taken, in that order
    entered,         \* the tasks that took the root latch, in that order
    finished         \* the tasks that have returned

mainVars == <<main, joined, isTerminated>>
taskVars == <<current, type, transaction_lock, root_readers, root_writer, entered, finished>>
vars == <<tasks_, latch_, lock_, asleep, pc, begun, mainVars, taskVars>>

Init ==
    /\ tasks_ = <<>>
    /\ isTerminated = FALSE
    /\ latch_ = None
    /\ lock_ = None
    /\ asleep = {}
    /\ pc = [w \in Workers |-> "loop"]
    /\ current = [w \in Workers |-> 0]
    /\ type = [w \in Workers |-> None]
    /\ transaction_lock = [w \in Workers |-> None]
    /\ root_readers = {}
    /\ root_writer = None
    /\ main = "running"
    /\ joined = 0
    /\ begun = <<>>
    /\ entered = <<>>
    /\ finished = {}

Goto(w, label) == pc' = [pc EXCEPT ![w] = label]
-----------------------------------------------------------------------------
(* The thread that owns the pool.                                          *)

\* Join up to the end of the block that holds latch_.
Join ==
    /\ main = "running" /\ joined < MaxTasks /\ latch_ = None
    /\ joined' = joined + 1
    /\ tasks_' = Append(tasks_, joined')
    /\ main' = "notify_one"
    /\ UNCHANGED <<isTerminated, latch_, lock_, asleep, pc, begun, taskVars>>

\* Bug: Join does not notify.
NotifyOne_nobody ==
    /\ main = "notify_one"
    /\ main' = "running"
    /\ UNCHANGED <<tasks_, isTerminated, latch_, lock_, asleep, pc, begun, joined, taskVars>>

NotifyOne ==
    /\ main = "notify_one"
    /\ \/ asleep = {} /\ UNCHANGED asleep
       \/ \E w \in asleep : asleep' = asleep \ {w}
    /\ main' = "running"
    /\ UNCHANGED <<tasks_, isTerminated, latch_, lock_, pc, begun, joined, taskVars>>

\* The destructor: the flag is set, then everyone is woken and waited for.
Terminate ==
    /\ main = "running" /\ latch_ = None
    /\ isTerminated' = TRUE
    /\ main' = "notify_all"
    /\ UNCHANGED <<tasks_, latch_, lock_, asleep, pc, begun, joined, taskVars>>

\* Bug: one worker is woken, as after Join.
NotifyAll_one ==
    /\ main = "notify_all"
    /\ \/ asleep = {} /\ UNCHANGED asleep
       \/ \E w \in asleep : asleep' = asleep \ {w}
    /\ main' = "join"
    /\ UNCHANGED <<tasks_, isTerminated, latch_, lock_, pc, begun, joined, taskVars>>

NotifyAll ==
    /\ main = "notify_all"
    /\ asleep' = {}
    /\ main' = "join"
    /\ UNCHANGED <<tasks_, isTerminated, latch_, lock_, pc, begun, joined, taskVars>>

JoinWorkers ==
    /\ main = "join"
    /\ \A w \in Workers : pc[w] = "returned"
    /\ main' = "done"
    /\ UNCHANGED <<tasks_, isTerminated, latch_, lock_, asleep, pc, begun, joined, taskVars>>
-----------------------------------------------------------------------------
(* A worker.                                                               *)

\* It gets latch_ at the head of the loop, or again after cv_.wait().
Locks(w) == pc[w] = "loop" /\ w \notin asleep /\ latch_ = None

Wait(w) ==
    /\ Locks(w) /\ ~ isTerminated /\ tasks_ = <<>>
    /\ asleep' = asleep \cup {w}
    /\ UNCHANGED <<tasks_, latch_, lock_, pc, begun, mainVars, taskVars>>

SpuriousWakeup(w) ==
    /\ w \in asleep
    /\ asleep' = asleep \ {w}
    /\ UNCHANGED <<tasks_, latch_, lock_, pc, begun, mainVars, taskVars>>

Return(w) ==
    /\ Locks(w) /\ isTerminated /\ tasks_ = <<>>
    /\ Goto(w, "returned")
    /\ UNCHANGED <<tasks_, latch_, lock_, asleep, begun, mainVars, taskVars>>

\* Bug: lock_ is set by the first task only.
LockOfTask_first(w) == IF lock_ = None THEN w ELSE lock_

LockOfTask(w) == w

Popped == Tail(tasks_)

Take(w) ==
    /\ Locks(w) /\ tasks_ # <<>>
    /\ latch_' = w
    /\ lock_' = LockOfTask(w)
    /\ current' = [current EXCEPT ![w] = Head(tasks_)]
    /\ tasks_' = Popped
    /\ begun' = Append(begun, Head(tasks_))
    /\ Goto(w, "task")
    /\ UNCHANGED <<asleep, mainVars, type, transaction_lock, root_readers,
                   root_writer, entered, finished>>

\* The task returns, and with it the worker's unique_lock goes out of scope.
Finishes(w) ==
    /\ finished' = finished \cup {current[w]}
    /\ latch_' = IF latch_ = w THEN None ELSE latch_
    /\ Goto(w, "loop")

\* A task that is not on the tree.
PlainTask(w) ==
    /\ pc[w] = "task"
    /\ Finishes(w)
    /\ UNCHANGED <<tasks_, lock_, asleep, begun, mainVars, current, type,
                   transaction_lock, root_readers, root_writer, entered>>

\* new Transaction(pool_->GetLock())
NewTransaction(w) ==
    /\ pc[w] = "task"
    /\ \E ty \in TransactionTypes : type' = [type EXCEPT ![w] = ty]
    /\ transaction_lock' = [transaction_lock EXCEPT ![w] = lock_]
    /\ Goto(w, "begun")
    /\ UNCHANGED <<tasks_, latch_, lock_, asleep, begun, mainVars, current,
                   root_readers, root_writer, entered, finished>>

\* LockRoot for a find, a scan or an optimistic change.
LockRoot(w) ==
    /\ pc[w] = "begun" /\ root_writer = None
    /\ root_readers' = root_readers \cup {w}
    /\ entered' = Append(entered, current[w])
    /\ Goto(w, "inside")
    /\ UNCHANGED <<tasks_, latch_, lock_, asleep, begun, mainVars, current, type,
                   transaction_lock, root_writer, finished>>

\* Bug: the next task may start before this one has the root latch.
MayUnlock_early(w) == pc[w] \in {"begun", "inside", "below"}

\* Once it has the root latch, but a scan only at its end.
MayUnlock(w) == pc[w] = IF type[w] = "MULTIFIND" THEN "below" ELSE "inside"

\* transaction->Unlock()
Unlock(w) ==
    /\ MayUnlock(w) /\ transaction_lock[w] # None
    /\ latch_' = IF latch_ = transaction_lock[w] THEN None ELSE latch_
    /\ transaction_lock' = [transaction_lock EXCEPT ![w] = None]
    /\ UNCHANGED <<tasks_, lock_, asleep, pc, begun, mainVars, current, type,
                   root_readers, root_writer, entered, finished>>

UnlockRoot(w) ==
    /\ pc[w] = "inside"
    /\ type[w] # "MULTIFIND" => transaction_lock[w] = None
    /\ root_readers' = root_readers \ {w}
    /\ Goto(w, "below")
    /\ UNCHANGED <<tasks_, latch_, lock_, asleep, begun, mainVars, current, type,
                   transaction_lock, root_writer, entered, finished>>

\* TentativeInsert or TentativeRemove finds an unsafe leaf, or an insertion
\* finds none.
TentativeFails(w) ==
    /\ pc[w] = "below" /\ type[w] = "OPTIMISTIC"
    /\ Goto(w, "again")
    /\ UNCHANGED <<tasks_, latch_, lock_, asleep, begun, mainVars, taskVars>>

\* The second attempt, which it then has to make.
Retry(w) ==
    /\ pc[w] = "again"
    /\ root_writer = None /\ root_readers = {}
    /\ root_writer' = w
    /\ Goto(w, "writing")
    /\ UNCHANGED <<tasks_, latch_, lock_, asleep, begun, mainVars, current, type,
                   transaction_lock, root_readers, entered, finished>>

Finish(w) ==
    /\ pc[w] = "writing" \/ (pc[w] = "below" /\ transaction_lock[w] = None)
    /\ root_writer' = IF root_writer = w THEN None ELSE root_writer
    /\ type' = [type EXCEPT ![w] = None]
    /\ Finishes(w)
    /\ UNCHANGED <<tasks_, lock_, asleep, begun, mainVars, current,
                   transaction_lock, root_readers, entered>>

Steps(w) ==
    \/ Wait(w) \/ Return(w) \/ Take(w) \/ PlainTask(w) \/ NewTransaction(w)
    \/ LockRoot(w) \/ Unlock(w) \/ UnlockRoot(w) \/ TentativeFails(w)
    \/ Retry(w) \/ Finish(w)

Next ==
    \/ Join \/ NotifyOne \/ Terminate \/ NotifyAll \/ JoinWorkers
    \/ \E w \in Workers : Steps(w) \/ SpuriousWakeup(w)

Spec == Init /\ [][Next]_vars

\* Threads that can go on do, and a call of the main thread that has begun
\* does; neither a Join nor the destructor need ever be called.
FairSpec ==
    /\ Spec
    /\ \A w \in Workers : WF_vars(Steps(w))
    /\ WF_vars(NotifyOne \/ NotifyAll \/ JoinWorkers)
-----------------------------------------------------------------------------
\* Every task that was joined is taken once and in that order: those taken
\* and those in the queue are all there are.  Tasks take the root latch for
\* the first time in that order too, although several workers are at it.  One
\* that has to start again with write latches may be overtaken then.
TasksEnterInOrder ==
    /\ begun \o tasks_ = [i \in 1 .. joined |-> i]
    /\ \A i, j \in DOMAIN entered : i < j => entered[i] < entered[j]

\* The lock a Transaction unlocks is the one its own worker holds: lock_ is
\* shared, and another worker sets it as soon as it gets latch_.
LockIsOwn ==
    \A w \in Workers :
        transaction_lock[w] # None => transaction_lock[w] = w /\ latch_ = w

\* Every task that was joined is run to its end: no wake-up is lost and no
\* worker waits for another one for ever.
TasksFinish == \A i \in 1 .. MaxTasks : joined >= i ~> i \in finished

\* The destructor returns, with nothing left to do.
DestructorReturns ==
    isTerminated ~> (main = "done" /\ finished = 1 .. joined)
=============================================================================
