---------------------------- MODULE RWLatchProofs ----------------------------
(***************************************************************************)
(* Mutual exclusion and absence of lost wake-ups of ReaderWriterLatch, for *)
(* any number of threads.                                                  *)
(***************************************************************************)
EXTENDS RWLatch, FiniteSetTheorems, TLAPS

\* The writer that is in, if any, is the one writer_entered_ stands for.
WriterIsIn ==
    /\ \A t \in At("entered") \cup At("writing") : writer_entered_
    /\ \A t, u \in At("entered") \cup At("writing") : t = u

\* A thread has the latch for writing only when all readers have left.
ReadersHaveLeft == At("writing") # {} => reader_count_ = 0

\* reader_count_ is the number of threads between RLock and RUnlock.
ReadersAreCounted == reader_count_ = Cardinality(At("reading"))

\* WritersAreAlone is not inductive: it speaks of the threads, the code tests
\* writer_entered_ and reader_count_, and these conjuncts tie them together.
LatchInv ==
    /\ LatchTypeOK
    /\ ReadersAreCounted
    /\ WriterIsIn
    /\ ReadersHaveLeft

\* Moving one thread into or out of the readers changes their number by one,
\* as RLock and RUnlock do with reader_count_.
LEMMA ReadersChange ==
    ASSUME NEW f \in [Threads -> Labels], NEW t \in Threads, NEW l \in Labels,
           NEW g, g = [f EXCEPT ![t] = l],
           NEW R, R = {u \in Threads : f[u] = "reading"},
           NEW S, S = {u \in Threads : g[u] = "reading"}
    PROVE  /\ IsFiniteSet(R) /\ Cardinality(R) \in Nat
           /\ f[t] = "reading" /\ l # "reading" => Cardinality(S) = Cardinality(R) - 1
           /\ f[t] # "reading" /\ l = "reading" => Cardinality(S) = Cardinality(R) + 1
           /\ f[t] # "reading" /\ l # "reading" => Cardinality(S) = Cardinality(R)
           /\ Cardinality(R) = 0 <=> R = {}
<1>1. IsFiniteSet(R)
  BY FS_Subset, LatchAssumption
<1>2. Cardinality(R) \in Nat /\ (Cardinality(R) = 0 <=> R = {})
  BY <1>1, FS_EmptySet, FS_CardinalityType
<1>3. ASSUME f[t] = "reading", l # "reading"
      PROVE  Cardinality(S) = Cardinality(R) - 1
  <2>1. S = R \ {t} /\ t \in R
    BY <1>3
  <2>2. Cardinality(R \ {t}) = IF t \in R THEN Cardinality(R) - 1 ELSE Cardinality(R)
    BY <1>1, FS_RemoveElement
  <2> QED BY <2>1, <2>2
<1>4. ASSUME f[t] # "reading", l = "reading"
      PROVE  Cardinality(S) = Cardinality(R) + 1
  <2>1. S = R \cup {t} /\ t \notin R
    BY <1>4
  <2>2. Cardinality(R \cup {t}) = IF t \in R THEN Cardinality(R) ELSE Cardinality(R) + 1
    BY <1>1, FS_AddElement
  <2> QED BY <2>1, <2>2
<1>5. ASSUME f[t] # "reading", l # "reading" PROVE S = R
  BY <1>5
<1> QED BY <1>1, <1>2, <1>3, <1>4, <1>5

\* LatchInv holds of a latch nobody has used.
LEMMA InitLatchInv == Init => LatchInv
<1> SUFFICES ASSUME Init PROVE LatchInv
  OBVIOUS
<1>1. At("reading") = {} /\ At("entered") = {} /\ At("writing") = {}
  BY DEF Init, At
<1>2. Cardinality({}) = 0
  BY FS_EmptySet
<1>3. reader_count_ \in 0 .. MAX_READERS
  BY LatchAssumption DEF Init
<1>4. pc \in [Threads -> Labels] /\ asleep = {} /\ writer_entered_ \in BOOLEAN
  BY DEF Init, Labels
<1>5. LatchTypeOK
  BY <1>3, <1>4 DEF LatchTypeOK
<1> QED BY <1>1, <1>2, <1>5
        DEF Init, LatchInv, ReadersAreCounted, WriterIsIn, ReadersHaveLeft

\* Every step of every thread keeps LatchInv.
LEMMA NextLatchInv == LatchInv /\ [Next]_vars => LatchInv'
<1> SUFFICES ASSUME LatchInv, [Next]_vars PROVE LatchInv'
  OBVIOUS
<1> USE DEF LatchInv, LatchTypeOK, ReadersAreCounted, WriterIsIn,
            ReadersHaveLeft, At, Labels
<1>1. ASSUME NEW t \in Threads, RLock(t) PROVE LatchInv'
  <2>1. CASE MustWait(t)
    <3>1. pc' = [pc EXCEPT ![t] = "RLock"] /\ pc[t] # "reading"
      BY <1>1, <2>1 DEF RLock, Runs
    <3>2. Cardinality(At("reading")') = Cardinality(At("reading"))
      BY <3>1, ReadersChange
    <3> QED BY <1>1, <2>1, <3>1, <3>2 DEF RLock
  <2>2. CASE ~ MustWait(t)
    <3>1. pc' = [pc EXCEPT ![t] = "reading"] /\ pc[t] \in {"idle", "RLock"}
      BY <1>1, <2>2 DEF RLock, Runs
    <3>2. Cardinality(At("reading")') = Cardinality(At("reading")) + 1
      BY <3>1, ReadersChange
    <3>3. /\ reader_count_' = reader_count_ + 1
          /\ UNCHANGED <<asleep, writer_entered_>> /\ ~ writer_entered_
          /\ reader_count_ # MAX_READERS /\ t \notin asleep
      BY <1>1, <2>2 DEF RLock, Runs, MustWait
    <3>4. reader_count_' \in 0 .. MAX_READERS
      BY <3>3, LatchAssumption
    <3>5. LatchTypeOK'
      BY <3>1, <3>3, <3>4
    <3> QED BY <3>1, <3>2, <3>3, <3>5
  <2> QED BY <2>1, <2>2
<1>2. ASSUME NEW t \in Threads, WLock(t) PROVE LatchInv'
  <2>1. PICK l \in {"WLock", "entered", "writing"} :
          /\ pc' = [pc EXCEPT ![t] = l]
          /\ l = "writing" => reader_count_ = 0 /\ UNCHANGED asleep
          /\ l # "writing" => asleep' = asleep \cup {t}
          /\ l = "WLock" => UNCHANGED writer_entered_
          /\ l # "WLock" => ~ writer_entered_ /\ writer_entered_' = TRUE
    BY <1>2 DEF WLock, Drain
  <2>2. pc[t] \in {"idle", "WLock"} /\ t \notin asleep /\ UNCHANGED reader_count_
    BY <1>2 DEF WLock, Runs
  <2>3. Cardinality(At("reading")') = Cardinality(At("reading"))
    BY <2>1, <2>2, ReadersChange
  <2>4. writer_entered_' \in BOOLEAN
    BY <2>1
  <2>5. LatchTypeOK'
    BY <2>1, <2>2, <2>4
  <2>6. WriterIsIn'
    BY <2>1, <2>2
  <2> QED BY <2>1, <2>2, <2>3, <2>5, <2>6
<1>3. ASSUME NEW t \in Threads, WLockResumes(t) PROVE LatchInv'
  BY <1>3, ReadersChange, LatchAssumption DEF WLockResumes, Drain
<1>4. ASSUME NEW t \in Threads, RUnlock(t) PROVE LatchInv'
  <2>1. /\ pc[t] = "reading" /\ pc' = [pc EXCEPT ![t] = "idle"]
        /\ reader_count_' = reader_count_ - 1 /\ UNCHANGED writer_entered_
    BY <1>4 DEF RUnlock
  <2>2. asleep' \subseteq asleep
    BY <1>4 DEF RUnlock, RUnlockNotifies, NotifyOne
  <2>3. Cardinality(At("reading")') = Cardinality(At("reading")) - 1
    BY <2>1, ReadersChange
  <2>4. reader_count_ # 0
    BY <2>1, ReadersChange
  <2>5. LatchTypeOK'
    BY <2>1, <2>2, <2>4, LatchAssumption
  <2> QED BY <2>1, <2>3, <2>4, <2>5
<1>5. ASSUME NEW t \in Threads, WUnlock(t) PROVE LatchInv'
  <2>1. /\ pc[t] = "writing" /\ pc' = [pc EXCEPT ![t] = "idle"]
        /\ UNCHANGED reader_count_ /\ writer_entered_' = FALSE
        /\ asleep' \subseteq asleep
    BY <1>5 DEF WUnlock
  <2>2. Cardinality(At("reading")') = Cardinality(At("reading"))
    BY <2>1, ReadersChange
  <2>3. LatchTypeOK'
    BY <2>1
  <2>4. WriterIsIn'
    BY <2>1
  <2> QED BY <2>1, <2>2, <2>3, <2>4
<1>6. ASSUME NEW t \in Threads, SpuriousWakeup(t) PROVE LatchInv'
  BY <1>6 DEF SpuriousWakeup
<1>7. CASE UNCHANGED vars
  BY <1>7 DEF vars
<1> QED BY <1>1, <1>2, <1>3, <1>4, <1>5, <1>6, <1>7 DEF Next, Steps

\* A writer excludes every other writer and every reader, for any number of
\* threads, any limit and any spurious wake-ups.
THEOREM MutualExclusion == Spec => []WritersAreAlone
<1>1. LatchInv => WritersAreAlone
  <2> SUFFICES ASSUME LatchInv, NEW t \in At("writing"), NEW u \in Threads,
                      pc[u] \in {"reading", "writing"}
               PROVE  u = t
    BY DEF WritersAreAlone
  <2>1. Cardinality(At("reading")) = 0
    BY DEF LatchInv, ReadersAreCounted, ReadersHaveLeft
  <2>2. IsFiniteSet(At("reading"))
    BY FS_Subset, LatchAssumption DEF At
  <2>3. u \notin At("reading")
    BY <2>1, <2>2, FS_EmptySet
  <2> QED BY <2>3 DEF LatchInv, WriterIsIn, At
<1> QED BY <1>1, InitLatchInv, NextLatchInv, PTL DEF Spec

\* With room for every thread, a thread outside cannot find the counter at
\* its limit.
LEMMA RoomForReaders ==
    ASSUME LatchInv, Cardinality(Threads) <= MAX_READERS,
           NEW t \in Threads, pc[t] # "reading"
    PROVE  reader_count_ # MAX_READERS
<1>1. /\ At("reading") \subseteq Threads /\ At("reading") # Threads
  BY DEF At
<1>2. Cardinality(Threads) \in Nat /\ Cardinality(At("reading")) \in Nat
  BY <1>1, FS_Subset, FS_CardinalityType, LatchAssumption
<1>3. /\ Cardinality(At("reading")) <= Cardinality(Threads)
      /\ Cardinality(At("reading")) # Cardinality(Threads)
  BY <1>1, FS_Subset, LatchAssumption
<1> QED BY <1>2, <1>3, LatchAssumption DEF LatchInv, ReadersAreCounted

\* Every step keeps both conditions under which a thread may sleep: a thread
\* goes to sleep only when they hold, and who makes them false notifies.
LEMMA NextSleep ==
    ASSUME Cardinality(Threads) <= MAX_READERS,
           LatchInv, NobodySleepsForNothing, [Next]_vars
    PROVE  NobodySleepsForNothing'
<1> USE DEF NobodySleepsForNothing, OnReader, OnWriter, At
<1>1. ASSUME NEW t \in Threads, RLock(t) PROVE NobodySleepsForNothing'
  <2>1. pc[t] \in {"idle", "RLock"} /\ UNCHANGED writer_entered_
    BY <1>1 DEF RLock, Runs
  <2>2. CASE MustWait(t)
    <3>1. writer_entered_
      BY <2>1, <2>2, RoomForReaders DEF MustWait
    <3>2. pc' = [pc EXCEPT ![t] = "RLock"] /\ asleep' = asleep \cup {t}
          /\ UNCHANGED reader_count_
      BY <1>1, <2>2 DEF RLock
    <3> QED BY <2>1, <3>1, <3>2 DEF LatchInv, LatchTypeOK
  <2>3. CASE ~ MustWait(t)
    BY <1>1, <2>1, <2>3 DEF RLock, LatchInv, LatchTypeOK
  <2> QED BY <2>2, <2>3
<1>2. ASSUME NEW t \in Threads, WLock(t) PROVE NobodySleepsForNothing'
  BY <1>2 DEF WLock, Runs, Drain, LatchInv, LatchTypeOK
<1>3. ASSUME NEW t \in Threads, WLockResumes(t) PROVE NobodySleepsForNothing'
  BY <1>3 DEF WLockResumes, Drain, LatchInv, LatchTypeOK
<1>4. ASSUME NEW t \in Threads, RUnlock(t) PROVE NobodySleepsForNothing'
  BY <1>4 DEF RUnlock, RUnlockNotifies, NotifyOne, LatchInv, LatchTypeOK, WriterIsIn
<1>5. ASSUME NEW t \in Threads, WUnlock(t) PROVE NobodySleepsForNothing'
  BY <1>5 DEF WUnlock, LatchInv, LatchTypeOK, WriterIsIn
<1>6. ASSUME NEW t \in Threads, SpuriousWakeup(t) PROVE NobodySleepsForNothing'
  BY <1>6 DEF SpuriousWakeup
<1>7. CASE UNCHANGED vars
  BY <1>7 DEF vars
<1> QED BY <1>1, <1>2, <1>3, <1>4, <1>5, <1>6, <1>7 DEF Next, Steps

\* No wake-up is lost, for any number of threads that MAX_READERS has room
\* for: whoever sleeps in RLock or WLock has somebody who will notify it.
THEOREM NoLostWakeups ==
    ASSUME Cardinality(Threads) <= MAX_READERS
    PROVE  Spec => []NobodySleepsForNothing
<1>1. Init => NobodySleepsForNothing
  BY DEF Init, NobodySleepsForNothing, OnReader, OnWriter
<1>2. LatchInv /\ NobodySleepsForNothing /\ [Next]_vars => NobodySleepsForNothing'
  BY NextSleep
<1> QED BY <1>1, <1>2, InitLatchInv, NextLatchInv, PTL DEF Spec
=============================================================================
