------------------------------ MODULE CrabTree ------------------------------
(***************************************************************************)
(* BPlusTreeTS: the tasks of a thread pool change and read one tree, and   *)
(* protect its pages by latch crabbing.  An insertion or a removal first   *)
(* goes down with read latches and writes only its leaf; when the leaf     *)
(* might split or become too small it lets everything go and starts again  *)
(* with write latches, which it keeps on every page that may still change. *)
(*                                                                         *)
(* A step ends where a thread has to wait for a latch, and between two     *)
(* releases of the root latch.  A thread runs one task; how the pool hands *)
(* tasks out is in ThreadPool, how a latch works inside in RWLatch.  A     *)
(* task holds the pool mutex until it has the root latch, a scan until its *)
(* end.  Pages that a merge empties stay: DeletePages goes through the     *)
(* page set, which ReleasePages has cleared, so it deletes nothing.        *)
(***************************************************************************)
EXTENDS TreePages

CONSTANTS
    Threads,
    None,       \* no thread
    MaxPages,   \* bound: pages of the tree
    Starts      \* where a run may start: [keys, threads, tasks], the keys
                \* inserted before, how many threads there are, and the
                \* tasks [type, key, value] each may be given

\* The latches: one for each page, and root_latch_.
RootLatch == 0
PageIds == 1 .. MaxPages
Latches == PageIds \cup {RootLatch}

VARIABLES
    tree,
    latches,   \* [readers, writer] for each latch
    mutex,     \* the thread whose task holds the pool mutex
    threads,   \* what each thread is at, see Idle
    tasks,     \* the tasks a thread may be given
    dict       \* the contents, in the order in which leaves were changed

vars == <<tree, latches, mutex, threads, tasks, dict>>

Contract == INSTANCE Index

\* A thread without a task.  at is the page it has latched last, next the one
\* it waits for, held its page set, node the page it tries to merge; entered
\* that it waits to write and keeps new readers out.  For a scan: the keys it
\* found, those that were there all the time, those that were there at some
\* time, and whether entries moved between leaves.
Idle ==
    [pc |-> "idle", type |-> "FIND", key |-> NoKey, value |-> NoKey,
     at |-> INVALID_PAGE_ID, next |-> INVALID_PAGE_ID, held |-> <<>>,
     node |-> INVALID_PAGE_ID, entered |-> FALSE,
     found |-> <<>>, sure |-> {}, maybe |-> {}, disturbed |-> FALSE]

Finished == [Idle EXCEPT !.pc = "done"]

\* The tree that inserting these keys one after the other leaves; its root
\* stays pinned.
BuiltFrom(keys) ==
    LET t == FoldLeft(LAMBDA t, k : Insert(t, k, k), EmptyTree, keys)
    IN IF t.root = INVALID_PAGE_ID THEN t ELSE FetchPage(t, t.root)

Init ==
    \E s \in Starts :
        /\ tree = BuiltFrom(s.keys)
        /\ latches = [l \in Latches |-> [readers |-> 0, writer |-> FALSE]]
        /\ mutex = None
        /\ \E ts \in SUBSET Threads :
              /\ Cardinality(ts) = s.threads
              /\ threads = [t \in Threads |-> IF t \in ts THEN Idle ELSE Finished]
        /\ tasks = s.tasks
        /\ dict = [k \in Range(s.keys) |-> k]
-----------------------------------------------------------------------------
(* Latches.                                                                *)

Optimistic(type) ==
    type \in {"FIND", "MULTIFIND", "OPTIMISTIC_INSERT", "OPTIMISTIC_DELETE"}

\* Whether a page is latched for writing.
Writes(type, n) ==
    type \in {"INSERT", "DELETE"}
    \/ (type \in {"OPTIMISTIC_INSERT", "OPTIMISTIC_DELETE"} /\ n.leaf)

\* WUnlock resets writer_entered_, whoever had set it.
Unlocked(latch, writes) ==
    IF writes THEN [latch EXCEPT !.writer = FALSE]
              ELSE [latch EXCEPT !.readers = @ - 1]

UnlockRoot(ls, type) == [ls EXCEPT ![RootLatch] = Unlocked(@, ~ Optimistic(type))]

\* A page without a parent takes the root latch along.
UnlatchPage(ls, t, p, type) ==
    LET ls1 == IF t.nodes[p].parent = INVALID_PAGE_ID THEN UnlockRoot(ls, type) ELSE ls
    IN [ls1 EXCEPT ![p] = Unlocked(@, Writes(type, t.nodes[p]))]

ReleasePages(ls, t, ps, type) ==
    FoldLeft(LAMBDA l, p : UnlatchPage(l, t, p, type), ls, ps)

IsInsertSafe(n) == Len(n.array) + 1 < MaxSize(n)

\* Bug: a page that is at its minimum counts as safe.
IsDeleteSafe_minimum(n) == Len(n.array) >= MinSize(n)

IsDeleteSafe(n) == Len(n.array) > MinSize(n)

\* UpdateRootPageId of this tree: the record of the header page and the pin
\* that keeps the root in the pool go from the old root to the new one.
WithRootPinned(t, t1) ==
    IF t.root = t1.root THEN t1
    ELSE LET t2 == UnpinPages(t1, {t.root}) IN
         IF t1.root = INVALID_PAGE_ID THEN t2 ELSE FetchPage(t2, t1.root)
-----------------------------------------------------------------------------
(* A task takes its way down.                                              *)

At(t, label) == threads[t].pc = label

Goes(t, th) == threads' = [threads EXCEPT ![t] = th]

Small(n) == Len(n.array) < MinSize(n)

\* CoalesceOrRedistribute takes the left neighbour, the right one of the
\* first child.
Neighbor(p) ==
    LET a == tree.nodes[tree.nodes[p].parent].array IN NeighborOf(a, ValueIndex(a, p))

\* The latch a thread is about to lock, and whether it does so for writing.
WantsRoot(t) == At(t, "root")
WantsNext(t) == threads[t].pc \in {"down", "along"}
WantsNeighbor(t) ==
    LET n == tree.nodes[threads[t].node] IN
    At(t, "balance") /\ Small(n) /\ n.parent # INVALID_PAGE_ID

Wanted(t) ==
    LET th == threads[t] IN
    IF WantsRoot(t) THEN RootLatch
    ELSE IF WantsNext(t) THEN th.next ELSE Neighbor(th.node)

ForWriting(t) ==
    LET th == threads[t] IN
    IF WantsRoot(t) THEN ~ Optimistic(th.type)
    ELSE WantsNeighbor(t) \/ Writes(th.type, tree.nodes[th.next])

\* Bug: a writer does not wait for the readers.
CanLock_readers(t) == threads[t].entered \/ ~ latches[Wanted(t)].writer

\* The latch is free for the thread: a writer that has announced itself only
\* waits for the readers to leave.
CanLock(t) ==
    LET latch == latches[Wanted(t)] IN
    IF threads[t].entered THEN latch.readers = 0
    ELSE ~ latch.writer /\ (ForWriting(t) => latch.readers = 0)

Locked(t) ==
    IF threads[t].entered THEN latches
    ELSE IF ForWriting(t) THEN [latches EXCEPT ![Wanted(t)].writer = TRUE]
    ELSE [latches EXCEPT ![Wanted(t)].readers = @ + 1]

\* The first half of WLock, when there are readers.
Enters(t) ==
    /\ WantsRoot(t) \/ WantsNext(t) \/ WantsNeighbor(t)
    /\ ForWriting(t) /\ ~ threads[t].entered
    /\ ~ latches[Wanted(t)].writer /\ latches[Wanted(t)].readers > 0
    /\ latches' = [latches EXCEPT ![Wanted(t)].writer = TRUE]
    /\ Goes(t, [threads[t] EXCEPT !.entered = TRUE])
    /\ UNCHANGED <<tree, mutex, tasks, dict>>

\* What scans under way are told of the keys there are, and of entries that
\* move from one leaf to another.
Told(ths, d, moved) ==
    [u \in Threads |->
        IF ths[u].type # "MULTIFIND" \/ ths[u].pc = "done" THEN ths[u]
        ELSE [ths[u] EXCEPT !.sure = @ \cap DOMAIN d, !.maybe = @ \cup DOMAIN d,
                            !.disturbed = @ \/ moved]]

Take(t) ==
    /\ At(t, "idle") /\ mutex = None
    /\ mutex' = t
    /\ \E k \in tasks :
          Goes(t, [Idle EXCEPT !.pc = "root", !.type = k.type, !.key = k.key,
                               !.value = k.value, !.sure = DOMAIN dict,
                               !.maybe = DOMAIN dict])
    /\ UNCHANGED <<tree, latches, tasks, dict>>

\* The second attempt of OptimisticInsert and OptimisticRemove.
Retry(th) ==
    [Idle EXCEPT !.pc = "root", !.key = th.key, !.value = th.value,
                 !.type = IF th.type = "OPTIMISTIC_INSERT" THEN "INSERT" ELSE "DELETE"]

\* There is no root: an insertion goes on to make one.
WithoutRoot(th) ==
    IF th.type = "OPTIMISTIC_INSERT" THEN Retry(th)
    ELSE IF th.type = "INSERT" THEN [th EXCEPT !.pc = "start", !.entered = FALSE]
    ELSE Finished

\* LockRoot, transaction->Unlock() and the test for an empty tree.
LockRoot(t) ==
    LET th == threads[t]
        empty == tree.root = INVALID_PAGE_ID
    IN /\ WantsRoot(t) /\ CanLock(t)
       /\ mutex' = IF mutex = t /\ (th.type # "MULTIFIND" \/ empty) THEN None ELSE mutex
       /\ latches' = IF empty /\ th.type # "INSERT" THEN UnlockRoot(Locked(t), th.type)
                     ELSE Locked(t)
       /\ Goes(t, IF empty THEN WithoutRoot(th)
                  ELSE [th EXCEPT !.pc = "down", !.next = tree.root, !.entered = FALSE])
       /\ UNCHANGED <<tree, tasks, dict>>

\* LatchPage(next_page) and what CrabToLeaf lets go once it has it.
Descends(t) ==
    LET th == threads[t]
        p == th.next
        n == tree.nodes[p]
        last == IF th.at = INVALID_PAGE_ID THEN <<>> ELSE <<th.at>>
        safe == \/ Optimistic(th.type)
                \/ th.type = "INSERT" /\ IsInsertSafe(n)
                \/ th.type = "DELETE" /\ IsDeleteSafe(n)
        free == IF safe /\ last # <<>> THEN th.held \o last ELSE <<>>
    IN /\ latches' = ReleasePages(Locked(t), tree, free, th.type)
       /\ tree' = UnpinPages(FetchPage(tree, p), Range(free))
       /\ Goes(t, [th EXCEPT
             !.at = p, !.entered = FALSE, !.held = IF free = <<>> THEN @ \o last ELSE <<>>,
             !.pc = IF n.leaf THEN "leaf" ELSE "down",
             !.next = IF n.leaf THEN p ELSE Lookup(n.array, th.key)])

CrabToLeaf(t) ==
    /\ At(t, "down") /\ CanLock(t)
    /\ Descends(t)
    /\ UNCHANGED <<mutex, tasks, dict>>
-----------------------------------------------------------------------------
(* What it does at the leaf.                                               *)

\* The leaf is unlatched and unpinned, and t1 is the tree otherwise.
LeavesLeaf(t, t1) ==
    /\ latches' = UnlatchPage(latches, t1, threads[t].at, threads[t].type)
    /\ tree' = UnpinPages(t1, {threads[t].at})

GetValue(t) ==
    /\ At(t, "leaf") /\ threads[t].type = "FIND"
    /\ LeavesLeaf(t, tree)
    /\ Goes(t, Finished)
    /\ UNCHANGED <<mutex, tasks, dict>>

\* A scan on a leaf it has latched: from its key on in the first one, from
\* the beginning in those it gets to along the chain.  On a leaf that a merge
\* has emptied in the meantime the index, 1 after the first entry, never
\* equals the size, 0: the scan reads on in what the page held before, and
\* beyond, until a key tells it to stop.  Nothing is claimed of what it has
\* found then, but it ends on this leaf.
Scans(t, from) ==
    LET th == threads[t]
        n == tree.nodes[th.at]
        rest == SubSeq(n.array, from, Len(n.array))
        stop == SelectInSeq(rest, LAMBDA e : First[e[1]] # First[th.key])
        hits == [i \in DOMAIN IF stop = 0 THEN rest ELSE SubSeq(rest, 1, stop - 1)
                    |-> rest[i][1]]
        ends == stop # 0 \/ n.next = INVALID_PAGE_ID \/ n.array = <<>>
        done == IF th.disturbed THEN Finished
                ELSE [th EXCEPT !.pc = "done", !.found = @ \o hits,
                                !.at = INVALID_PAGE_ID, !.next = INVALID_PAGE_ID]
    IN /\ LeavesLeaf(t, tree)
       /\ Goes(t, IF ends THEN done
                  ELSE [th EXCEPT !.pc = "along", !.found = @ \o hits,
                                  !.at = INVALID_PAGE_ID, !.next = n.next])
       /\ mutex' = IF ends THEN None ELSE mutex
       /\ UNCHANGED <<tasks, dict>>

ScanFirstLeaf(t) ==
    LET a == tree.nodes[threads[t].at].array
        i == KeyIndex(a, threads[t].key)
    IN /\ At(t, "leaf") /\ threads[t].type = "MULTIFIND"
       /\ Scans(t, IF i = 0 THEN Len(a) + 1 ELSE i)

\* LatchPage on the next leaf, with no other page latched.
LatchNextLeaf(t) ==
    LET p == threads[t].next IN
    /\ At(t, "along") /\ CanLock(t)
    /\ latches' = Locked(t)
    /\ tree' = FetchPage(tree, p)
    /\ Goes(t, [threads[t] EXCEPT !.pc = "scan", !.at = p])
    /\ UNCHANGED <<mutex, tasks, dict>>

\* Bug: the index is not set back to the first entry.
ScanNextLeaf_index(t) == At(t, "scan") /\ Scans(t, 2)

ScanNextLeaf(t) == At(t, "scan") /\ Scans(t, 1)

\* The leaf has room, or the thread starts again with write latches.  A key
\* that is there is modified.
TentativeInsert(t) ==
    LET th == threads[t] IN
    /\ At(t, "leaf") /\ th.type = "OPTIMISTIC_INSERT"
    /\ IF IsInsertSafe(tree.nodes[th.at])
       THEN /\ LeavesLeaf(t, [tree EXCEPT !.nodes[th.at].array =
                                  LeafInsert(@, th.key, th.value)])
            /\ dict' = Contract!InsertEntry(dict, th.key, th.value)
            /\ threads' = Told([threads EXCEPT ![t] = Finished], dict', FALSE)
       ELSE /\ LeavesLeaf(t, tree)
            /\ Goes(t, Retry(th))
            /\ UNCHANGED dict
    /\ UNCHANGED <<mutex, tasks>>

TentativeRemove(t) ==
    LET th == threads[t]
        n == tree.nodes[th.at]
    IN /\ At(t, "leaf") /\ th.type = "OPTIMISTIC_DELETE"
       /\ IF ~ IsDeleteSafe(n)
          THEN LeavesLeaf(t, tree) /\ Goes(t, Retry(th)) /\ UNCHANGED dict
          ELSE IF ~ Has(n.array, th.key)
          THEN LeavesLeaf(t, tree) /\ Goes(t, Finished) /\ UNCHANGED dict
          ELSE /\ LeavesLeaf(t, [tree EXCEPT !.nodes[th.at].array =
                                     RemoveAndDeleteRecord(@, th.key)])
               /\ dict' = Contract!DeleteEntry(dict, th.key)
               /\ threads' = Told([threads EXCEPT ![t] = Finished], dict', FALSE)
       /\ UNCHANGED <<mutex, tasks>>
-----------------------------------------------------------------------------
(* Insertion with write latches.                                           *)

\* Insert on an empty tree; IsEmpty was tested in LockRoot.
StartsNewTree(t) ==
    LET th == threads[t] IN
    /\ At(t, "start")
    /\ tree' = WithRootPinned(tree, StartNewTree(tree, th.key, th.value))
    /\ latches' = UnlockRoot(latches, "INSERT")
    /\ dict' = Contract!InsertEntry(dict, th.key, th.value)
    /\ threads' = Told([threads EXCEPT ![t] = Finished], dict', FALSE)
    /\ UNCHANGED <<mutex, tasks>>

\* Bug: the right half of a leaf is linked into the chain and nowhere else.
SplitsUp_chain(t1, p) == UnpinPages(Split(t1, p), {p, NewPageId(t1)})

\* A full leaf is split, and so are the pages above that become full, all of
\* which the thread has latched.
SplitsUp(t1, p) == WithRootPinned(tree, Grown(t1, p))

\* A split of the root unlocks root_latch_ by itself: the old root has a
\* parent then, so unlatching it does not.
InsertsIntoLeaf(t) ==
    LET th == threads[t]
        p == th.at
        t1 == [tree EXCEPT !.nodes[p].array = LeafInsert(@, th.key, th.value)]
        t2 == SplitsUp(t1, p)
        modifies == Has(tree.nodes[p].array, th.key)
        splits == ~ modifies /\ Len(t1.nodes[p].array) = leaf_max_size
        releases == [th EXCEPT !.pc = "release"]
    IN /\ At(t, "leaf") /\ th.type = "INSERT"
       /\ dict' = Contract!InsertEntry(dict, th.key, th.value)
       /\ threads' = Told([threads EXCEPT ![t] =
                              IF modifies \/ splits THEN releases ELSE Finished],
                          dict', FALSE)
       /\ IF splits
          THEN /\ tree' = t2
               /\ latches' = IF t2.root = tree.root THEN latches
                             ELSE UnlockRoot(latches, "INSERT")
          ELSE IF modifies
          THEN tree' = UnpinPages(t1, {p}) /\ UNCHANGED latches
          ELSE LeavesLeaf(t, t1)
       /\ UNCHANGED <<mutex, tasks>>
-----------------------------------------------------------------------------
(* Removal with write latches.                                             *)

Removes(t) ==
    LET th == threads[t]
        p == th.at
    IN /\ At(t, "leaf") /\ th.type = "DELETE"
       /\ IF Has(tree.nodes[p].array, th.key)
          THEN /\ tree' = [tree EXCEPT !.nodes[p].array =
                               RemoveAndDeleteRecord(@, th.key)]
               /\ dict' = Contract!DeleteEntry(dict, th.key)
               /\ threads' = Told([threads EXCEPT ![t] =
                                      [th EXCEPT !.pc = "balance", !.node = p]],
                                  dict', FALSE)
          ELSE /\ tree' = UnpinPages(tree, {p})
               /\ Goes(t, [th EXCEPT !.pc = "release"])
               /\ UNCHANGED dict
       /\ UNCHANGED <<latches, mutex, tasks>>

\* Large enough, or a root that need not shrink.
StaysAsItIs(t) ==
    LET th == threads[t]
        n == tree.nodes[th.node]
    IN /\ At(t, "balance")
       /\ ~ Small(n) \/ (n.parent = INVALID_PAGE_ID /\ Len(n.array) > IF n.leaf THEN 0 ELSE 1)
       /\ tree' = UnpinPages(tree, {th.node})
       /\ Goes(t, [th EXCEPT !.pc = "release", !.node = INVALID_PAGE_ID])
       /\ UNCHANGED <<latches, mutex, tasks, dict>>

\* The root loses its last entry, or all its children but one: root_latch_ is
\* unlocked here, and once more by unlatching the old root, which has no
\* parent, and once more when the page left as the root is unlatched.
ShrinksRoot(t) ==
    LET th == threads[t]
        p == th.node
        n == tree.nodes[p]
        child == IF n.leaf THEN INVALID_PAGE_ID ELSE n.array[1][2]
        t1 == [Adopt(tree, INVALID_PAGE_ID, {child}) EXCEPT !.nodes[p].array = <<>>]
    IN /\ At(t, "balance")
       /\ Small(n) /\ n.parent = INVALID_PAGE_ID
       /\ Len(n.array) = IF n.leaf THEN 0 ELSE 1
       /\ tree' = WithRootPinned(tree, UpdateRootPageId(UnpinPages(t1, {p}), child))
       /\ latches' = UnlockRoot(latches, "DELETE")
       /\ Goes(t, [th EXCEPT !.pc = "release", !.node = INVALID_PAGE_ID])
       /\ UNCHANGED <<mutex, tasks, dict>>

\* CoalesceOrRedistribute: the neighbour is fetched and latched under the
\* parent, which is latched already.
LatchesNeighbor(t) ==
    LET th == threads[t] IN
    /\ WantsNeighbor(t) /\ CanLock(t)
    /\ latches' = Locked(t)
    /\ tree' = FetchPage(FetchPage(tree, tree.nodes[th.node].parent), Wanted(t))
    /\ Goes(t, [th EXCEPT !.pc = "merge", !.next = Wanted(t), !.entered = FALSE])
    /\ UNCHANGED <<mutex, tasks, dict>>

\* Bug: the neighbour is not unlatched.
UnlatchNode_kept(t1, q) == latches

UnlatchNode(t1, q) == UnlatchPage(latches, t1, q, "DELETE")

\* Coalesce: the two pages become one, and the parent is looked at next.
Merges(t) ==
    LET th == threads[t]
        p == th.node
        q == th.next
        parent == tree.nodes[p].parent
        i == ValueIndex(tree.nodes[parent].array, p)
        t1 == IF i = 1 THEN MoveAllTo(tree, p, q, parent, 2)
                       ELSE MoveAllTo(tree, q, p, parent, i)
    IN /\ At(t, "merge")
       /\ Len(tree.nodes[p].array) + Len(tree.nodes[q].array) < MaxSize(tree.nodes[p])
       /\ latches' = UnlatchNode(t1, q)
       /\ tree' = UnpinPages(t1, {p, q})
       /\ threads' = Told([threads EXCEPT ![t] =
                              [th EXCEPT !.pc = "balance", !.node = parent]],
                          dict, tree.nodes[p].leaf)
       /\ UNCHANGED <<mutex, tasks, dict>>

\* Redistribute: one entry moves over from the neighbour.
Redistributes(t) ==
    LET th == threads[t]
        p == th.node
        q == th.next
        parent == tree.nodes[p].parent
        i == ValueIndex(tree.nodes[parent].array, p)
        t1 == Redistribute(tree, q, p, parent, i)
    IN /\ At(t, "merge")
       /\ Len(tree.nodes[p].array) + Len(tree.nodes[q].array) >= MaxSize(tree.nodes[p])
       /\ latches' = UnlatchNode(t1, q)
       /\ tree' = UnpinPages(t1, {parent})
       /\ threads' = Told([threads EXCEPT ![t] =
                              [th EXCEPT !.pc = "release", !.node = INVALID_PAGE_ID]],
                          dict, tree.nodes[p].leaf)
       /\ UNCHANGED <<mutex, tasks, dict>>
-----------------------------------------------------------------------------
(* The end of an insertion that split or found its key, and of a removal.  *)

Releases(t) ==
    LET th == threads[t] IN
    /\ At(t, "release")
    /\ latches' = ReleasePages(latches, tree, th.held, th.type)
    /\ tree' = UnpinPages(tree, Range(th.held))
    /\ Goes(t, [th EXCEPT !.pc = "unlatch", !.held = <<>>])
    /\ UNCHANGED <<mutex, tasks, dict>>

UnlatchesLeaf(t) ==
    LET th == threads[t] IN
    /\ At(t, "unlatch")
    /\ latches' = UnlatchPage(latches, tree, th.at, th.type)
    /\ Goes(t, Finished)
    /\ UNCHANGED <<tree, mutex, tasks, dict>>

Steps(t) ==
    \/ Enters(t) \/ LockRoot(t) \/ CrabToLeaf(t) \/ GetValue(t)
    \/ ScanFirstLeaf(t) \/ LatchNextLeaf(t) \/ ScanNextLeaf(t) \/ TentativeInsert(t)
    \/ TentativeRemove(t) \/ StartsNewTree(t) \/ InsertsIntoLeaf(t)
    \/ Removes(t) \/ StaysAsItIs(t) \/ ShrinksRoot(t) \/ LatchesNeighbor(t)
    \/ Merges(t) \/ Redistributes(t) \/ Releases(t) \/ UnlatchesLeaf(t)

Next == \E t \in Threads : Take(t) \/ Steps(t)

Spec == Init /\ [][Next]_vars
-----------------------------------------------------------------------------
\* Pages hold no more than they have room for, and no latch is given back
\* more often for reading than it was taken.
CrabTypeOK ==
    /\ DOMAIN tree.nodes \subseteq PageIds
    /\ \A p \in DOMAIN tree.nodes : Len(tree.nodes[p].array) < MaxSize(tree.nodes[p])
    /\ latches \in [Latches -> [readers : 0 .. Cardinality(Threads), writer : BOOLEAN]]
    /\ mutex \in Threads \cup {None}

\* A thread that has latched a leaf for its key finds there what the tree
\* has under that key: no split, merge or redistribution by another thread
\* moved the key away while the thread was on its way down.
LeafIsTheRightOne ==
    \A t \in Threads :
        LET th == threads[t]
            a == tree.nodes[th.at].array
        IN At(t, "leaf") =>
              IF th.key \in DOMAIN dict
              THEN Has(a, th.key) /\ a[KeyIndex(a, th.key)][2] = dict[th.key]
              ELSE ~ Has(a, th.key)

\* At any time the tree holds exactly the entries it should: from the root
\* each key is found with its value, and the chain of leaves has them all in
\* order.  No insertion is lost and no removal undone.
NothingIsLost ==
    LET es == Entries(tree) IN
    /\ \A k \in Keys :
          SearchKey(tree, k) = IF k \in DOMAIN dict THEN <<dict[k]>> ELSE <<>>
    /\ {es[i][1] : i \in DOMAIN es} = DOMAIN dict
    /\ \A i \in 1 .. Len(es) - 1 : es[i][1] < es[i + 1][1]

Quiet == \A t \in Threads : threads[t].pc \in {"idle", "done"}

\* When no task is under way every latch is free, the mutex too, only the
\* root is pinned, once, and no page but the root is less than half full; at
\* no time is a page fuller than it may be.
EverythingIsGivenBack ==
    /\ CrabTypeOK
    /\ Quiet =>
          /\ \A l \in Latches : latches[l] = [readers |-> 0, writer |-> FALSE]
          /\ mutex = None
          /\ tree.pins = SetToBag({tree.root} \ {INVALID_PAGE_ID})
          /\ \A p \in DOMAIN tree.nodes :
                LET n == tree.nodes[p] IN
                n.array # <<>> /\ p # tree.root => ~ Small(n)

\* A scan during which no entry moved between leaves returns, in order and
\* once each, every key of its part that was there all the time, and none
\* that never was; it may run along with insertions and splits.
ScansAreComplete ==
    \A t \in Threads :
        LET th == threads[t]
            inPart == {k \in Keys : k >= th.key /\ First[k] = First[th.key]}
        IN At(t, "done") /\ th.type = "MULTIFIND" /\ ~ th.disturbed =>
              /\ th.sure \cap inPart \subseteq Range(th.found)
              /\ Range(th.found) \subseteq th.maybe \cap inPart
              /\ \A i \in 1 .. Len(th.found) - 1 : th.found[i] < th.found[i + 1]

\* What a thread has to wait for.
Waits(t) ==
    \/ At(t, "idle") /\ mutex # None
    \/ (WantsRoot(t) \/ WantsNext(t) \/ WantsNeighbor(t)) /\ ~ CanLock(t)

\* Threads never all wait for each other: on the way down, for a neighbour,
\* along the chain or for the mutex.  Every step brings a task nearer to its
\* end, so all of them come to it.
SomebodyGoesOn ==
    \A t \in Threads : ~ At(t, "done") => \E u \in Threads : ~ At(u, "done") /\ ~ Waits(u)
=============================================================================
