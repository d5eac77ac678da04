------------------------------- MODULE RWLatch -------------------------------
(***************************************************************************)
(* ReaderWriterLatch, which every page and the root of BPlusTreeTS have.   *)
(* mutex_ is held from the entry of a method to its return except inside   *)
(* wait(), so the code between two waits is one step.  A thread that waits *)
(* is in asleep until it is notified or wakes up by itself, which          *)
(* std::condition_variable allows; it then gets mutex_ back and tests its  *)
(* condition again.                                                        *)
(***************************************************************************)
EXTENDS Integers, FiniteSets

CONSTANTS Threads, MAX_READERS

ASSUME LatchAssumption ==
    /\ IsFiniteSet(Threads)
    /\ MAX_READERS \in Nat \ {0}

VARIABLES
    reader_count_, writer_entered_,
    pc,      \* where each thread is: "RLock", "WLock" in the loops that wait
             \* on reader_, "entered" in the loop that waits on writer_
    asleep   \* the threads inside wait()

vars == <<reader_count_, writer_entered_, pc, asleep>>

At(label) == {t \in Threads : pc[t] = label}

\* The threads that sleep on each condition variable.
OnReader == asleep \cap (At("RLock") \cup At("WLock"))
OnWriter == asleep \cap At("entered")

Init ==
    /\ reader_count_ = 0
    /\ writer_entered_ = FALSE
    /\ pc = [t \in Threads |-> "idle"]
    /\ asleep = {}

NotifyOne(sleepers) ==
    \/ sleepers = {} /\ UNCHANGED asleep
    \/ \E t \in sleepers : asleep' = asleep \ {t}

\* Bug: readers do not look at a writer that waits for them.
MustWait_readers(t) == reader_count_ = MAX_READERS

\* The condition of RLock's loop.
MustWait(t) == writer_entered_ \/ reader_count_ = MAX_READERS

\* t calls the method, or goes on with it after a wait.
Runs(t, label) == pc[t] = "idle" \/ (pc[t] = label /\ t \notin asleep)

RLock(t) ==
    /\ Runs(t, "RLock")
    /\ UNCHANGED writer_entered_
    /\ \/ /\ MustWait(t)
          /\ pc' = [pc EXCEPT ![t] = "RLock"]
          /\ asleep' = asleep \cup {t}
          /\ UNCHANGED reader_count_
       \/ /\ ~ MustWait(t)
          /\ pc' = [pc EXCEPT ![t] = "reading"]
          /\ reader_count_' = reader_count_ + 1
          /\ UNCHANGED asleep

\* Bug: the condition is tested once, before the wait, and not after it.
Drain_once(t) ==
    \/ /\ reader_count_ > 0 /\ pc[t] # "entered"
       /\ pc' = [pc EXCEPT ![t] = "entered"]
       /\ asleep' = asleep \cup {t}
    \/ /\ reader_count_ = 0 \/ pc[t] = "entered"
       /\ pc' = [pc EXCEPT ![t] = "writing"]
       /\ UNCHANGED asleep

\* The second loop of WLock.
Drain(t) ==
    \/ /\ reader_count_ > 0
       /\ pc' = [pc EXCEPT ![t] = "entered"]
       /\ asleep' = asleep \cup {t}
    \/ /\ reader_count_ = 0
       /\ pc' = [pc EXCEPT ![t] = "writing"]
       /\ UNCHANGED asleep

WLock(t) ==
    /\ Runs(t, "WLock")
    /\ UNCHANGED reader_count_
    /\ \/ /\ writer_entered_
          /\ pc' = [pc EXCEPT ![t] = "WLock"]
          /\ asleep' = asleep \cup {t}
          /\ UNCHANGED writer_entered_
       \/ /\ ~ writer_entered_
          /\ writer_entered_' = TRUE
          /\ Drain(t)

WLockResumes(t) ==
    /\ pc[t] = "entered" /\ t \notin asleep
    /\ Drain(t)
    /\ UNCHANGED <<reader_count_, writer_entered_>>

\* Bug: notify_one, with readers and writers waiting on the same variable.
WUnlock_one(t) ==
    /\ pc[t] = "writing"
    /\ writer_entered_' = FALSE
    /\ pc' = [pc EXCEPT ![t] = "idle"]
    /\ NotifyOne(OnReader)
    /\ UNCHANGED reader_count_

WUnlock(t) ==
    /\ pc[t] = "writing"
    /\ writer_entered_' = FALSE
    /\ pc' = [pc EXCEPT ![t] = "idle"]
    /\ asleep' = asleep \ OnReader
    /\ UNCHANGED reader_count_

\* Whom RUnlock wakes, with reader_count_ as it was before.
RUnlockNotifies ==
    \/ writer_entered_ /\ reader_count_ = 1 /\ NotifyOne(OnWriter)
    \/ writer_entered_ /\ reader_count_ # 1 /\ UNCHANGED asleep
    \/ ~ writer_entered_ /\ reader_count_ = MAX_READERS /\ NotifyOne(OnReader)
    \/ ~ writer_entered_ /\ reader_count_ # MAX_READERS /\ UNCHANGED asleep

RUnlock(t) ==
    /\ pc[t] = "reading"
    /\ reader_count_' = reader_count_ - 1
    /\ pc' = [pc EXCEPT ![t] = "idle"]
    /\ RUnlockNotifies
    /\ UNCHANGED writer_entered_

SpuriousWakeup(t) ==
    /\ t \in asleep
    /\ asleep' = asleep \ {t}
    /\ UNCHANGED <<reader_count_, writer_entered_, pc>>

Steps(t) == RLock(t) \/ WLock(t) \/ WLockResumes(t) \/ RUnlock(t) \/ WUnlock(t)

Next == \E t \in Threads : Steps(t) \/ SpuriousWakeup(t)

Spec == Init /\ [][Next]_vars

\* A thread that has begun goes on: it gets mutex_ when it was notified, and
\* it releases a latch it has, as every operation of the tree does.  Nothing
\* makes a thread ask for the latch.
FairSpec == Spec /\ \A t \in Threads : WF_vars(pc[t] # "idle" /\ Steps(t))
-----------------------------------------------------------------------------
Labels == {"idle", "RLock", "WLock", "entered", "reading", "writing"}

\* The variables have their types, and only threads in a wait are asleep.
LatchTypeOK ==
    /\ reader_count_ \in 0 .. MAX_READERS
    /\ writer_entered_ \in BOOLEAN
    /\ pc \in [Threads -> Labels]
    /\ asleep \subseteq At("RLock") \cup At("WLock") \cup At("entered")

\* A thread between WLock and WUnlock is alone: there is no other writer and
\* no reader, whatever woke up in between.
WritersAreAlone ==
    \A t \in At("writing") :
        \A u \in Threads : pc[u] \in {"reading", "writing"} => u = t

\* No wake-up is lost: a thread sleeps on reader_ only while a writer is in,
\* and on writer_ only while there are readers, each of whom will notify.
\* This needs a MAX_READERS that is never reached (it is UINT_MAX): at the
\* limit RUnlock notifies one reader only.
NobodySleepsForNothing ==
    /\ OnReader # {} => writer_entered_
    /\ OnWriter # {} => reader_count_ > 0

\* A writer that has announced itself gets the latch: RLock lets nobody past
\* writer_entered_, and the last reader wakes it.
WritersGetIn ==
    \A t \in Threads : pc[t] = "entered" ~> pc[t] = "writing"
=============================================================================
