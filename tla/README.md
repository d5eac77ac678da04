# A TLA+ model of the ticket system

This directory holds a formal model of the train ticket system in `src/`, the
TLC configurations that check it on small instances, and the TLAPS proofs of
its main invariants. `PROJECT.json` says which lines each definition models,
what each run checks, which mutation of the code each property catches, and
which hazards of the code the properties are for.

## 1. The system

A single-threaded program (`backend/src/main.cpp`) reads one command per line
and calls one of two managers. The managers keep everything in B+ trees on
disk, one index per table, each with its own buffer pool. The same database
library also has a thread-safe tree with a thread pool, which the program does
not use.

| part | source | state | operations | what is hard |
|---|---|---|---|---|
| program loop | `main.cpp` | none | dispatch, `clean`, `exit`, end of input | commands come in any order, with `clean` and restarts in between |
| `AccountManagement` | `Management.cpp`, `Account.*` | `user_database` (file), `login_pool` (memory) | `add_user`, `login`, `logout`, `modify_profile`, `query_profile` | the pool caches privileges the file also has |
| `map` | `libs/map.hpp` | a red-black tree, which holds `login_pool` | `insert`, `erase`, `find`, `clear`, iterators | insertion and removal rebalance on the way down, before they know what is below |
| `TrainManagement` | `Management.cpp`, `TrainSystem.*` | five databases, `order_num` | `add_train`, `delete_train`, `release_train`, `buy_ticket`, `refund_ticket`, `clean`, `exit` | an order, its entry in the waiting list and the seats live in three files; a refund serves the waiting list from a copy of the seats |
| its queries, `TimeType` | `Management.cpp`, `TrainSystem.*`, `Library.h` | none of their own | `query_train`, `query_ticket`, `query_transfer`, `query_order`, `Sort` | the day a station is left is not the day the train starts; the best transfer is kept through a nested loop |
| `BPlusTreeIndexNTS` | `b_plus_tree_index_nts.cpp` | `size_`, header page | `InsertEntry`, `DeleteEntry`, `ScanKey`, `SearchKey`, `Clear` | `Clear` keeps `size_` |
| `BPlusTreeNTS` and pages | `b_plus_tree_nts.cpp`, `storage/page/*` | leaf and internal pages, `root_page_id_` | insert, remove, search, scan, iterator | splits, merges and redistribution change parents, separators and the leaf chain by hand; every path has its own pins to give back |
| `BufferPoolManager`, `LRUReplacer`, `DiskManager` | `buffer/*`, `disk_manager.cpp` | frames, `page_table_`, free list, LRU queue, file | fetch, new, unpin, flush, delete, `Initialize`, `FlushAllPages` | eviction, dirty flags, restart, a page table that survives `Initialize` |
| `ReaderWriterLatch` | `common/rwlatch.h` | reader count, writer flag, two condition variables | `RLock`, `RUnlock`, `WLock`, `WUnlock` | two kinds of threads sleep on one condition variable |
| `ThreadPool`, `Transaction` | `thread/*`, `transaction.h` | task queue, one mutex, a shared pointer to a lock | `Join`, worker, destructor, `Unlock` | the mutex stays locked into the task, which releases it |
| `BPlusTreeTS` | `b_plus_tree_ts.cpp` | the tree with a latch per page, a latch for the root | optimistic and pessimistic operations | latches are let go early on the way down; an optimistic change starts again with everything let go |

How they interact: the loop calls the managers; a manager calls
`SearchKey`/`ScanKey`, computes on copies and writes back with `InsertEntry`
(which overwrites) and `DeleteEntry`; an index calls its tree; the tree pins and
unpins pages of its pool; the pool reads and writes the file. There are no
transactions: a command that changes three tables makes three calls. In the
threaded variant, tasks are joined to the pool, run by workers, and enter the
tree through the root latch.

What makes each part correct:

* accounts: one root at most; everybody logged in exists; the map that holds the
  pool is a red-black tree with exactly the entries it was given;
* tickets: no seat is sold twice; seats, orders and waiting list agree; order
  IDs are unique, also through `clean` and restart; waiting orders are served
  first come first served; every lookup of a record finds it (the code does not
  test);
* queries: every answer is the one a definition over all rides gives;
* pool: it is a store of pages, whatever is evicted; no frame is lost; a pinned
  page stays;
* tree: it is a dictionary, balanced and linked, and leaves no pins;
* threaded tree: every task comes to the leaf that has its key, no entry is lost,
  all latches and pins are given back, nobody waits for ever;
* latch: exclusion, no lost wake-up, no starvation of writers;
* thread pool: order is kept, everything joined is run, the destructor returns.

## 2. The modules

| module | models | composed of |
|---|---|---|
| `Index` | the dictionary an index is to the managers | |
| `Accounts` | `AccountManagement` | `Index` |
| `Trains` | `TrainManagement`, changing commands | `Accounts`, `Index` |
| `TicketSystem` | the program loop, `clean`, restart, and the properties | `Trains` |
| `Ledger` | abstract: seats computed from orders | |
| `TicketLedger` | the refinement of `Ledger` by `TicketSystem` | `TicketSystem`, `Ledger` |
| `PageStore` | abstract: a page has the content last written | |
| `BufferPool` | pool, replacer and disk manager, with the index's constructor, `Clear` and destructor | `PageStore` |
| `TreePages` | the pages of a B+ tree and what insertion and removal do to them | |
| `BPlusTree` | `BPlusTreeNTS` as an index, the root record | `TreePages`, `Index` |
| `IndexIterator` | the iterator of the index | `BPlusTree` |
| `CrabTree` | `BPlusTreeTS`: several threads with latches on those pages | `TreePages`, `Index` |
| `RedBlackMap` | `sjtu::map`, which `login_pool` is | |
| `Timetable` | `TimeType`, the constructor of `Train`, seats, `Sort` | |
| `Queries` | the four queries, with `release_train` and `buy_ticket` | `Timetable` |
| `RWLatch` | `ReaderWriterLatch` | |
| `ThreadPool` | `ThreadPool`, `Transaction::Unlock`, entry of tasks into the tree | |
| `AccountsProofs`, `TicketProofs`, `TicketLedgerProofs`, `BufferPoolProofs`, `BPlusTreeProofs`, `RWLatchProofs`, `ThreadPoolProofs` | the theorems | the module each is about |
| `TreeShapeProofs` | the lemmas about the shape of a tree on which `BPlusTreeProofs` rests | `TreePages` |

The `MC...` modules only define instances: timetables, symmetry, comparators.
Operators named `x_suffix` are the mutants of `x`: a plausible bug in that code,
which a property has to notice. They are used by no specification.

### Tickets (`Index`, `Accounts`, `Trains`, `TicketSystem`)

Each database is a function from keys to values; the keys keep the structure of
the source's (`<<user, order ID>>`, `<<train, day, order ID>>`), because scans
depend on it. `order_size` is the index's `size_`, which `clean` does not reset
and from which `order_num` is restored at the start. Each command is one
action, guarded by the conditions under which the code does not answer -1; a
rejected command changes nothing and is no step. `buy_ticket` and
`queue_ticket` are the two outcomes of the same function, `refund_pending` and
`refund_start` the two kinds of refund. The loop of a refund is one step per
iteration, with the locals of the call (`tp_daytrain`, the entries fetched) in
`refund`; no other command runs until it is over, as in the program. It is cut
into steps so that the order of the promotions and its termination can be
stated. `restart` is `exit` (or the end of input) and the next start: all files
survive, the login pool and locals do not. Days are integers and a timetable
keeps the day on which each station is left, so that a ticket from a later
station can belong to a train of an earlier day. Prices, clock times, names and
mail addresses decide nothing about these properties and are left out.

### Pool (`BufferPool`)

Frames, the page table with its iteration order (`FlushAllPages` goes along
it), the free list, the LRU queue and the file are variables; a client holds at
most one pin and remembers whether it wrote. The page table and the LRU queue
are both a `linked_hashmap`; `Without` is its `erase`. What a deleted page contained is
forgotten at once: the code leaves it in the file and in the frame, where
nothing can read it before it is overwritten. `live` is the set of pages of the
current tree: after a clean the page table also has entries of the old one. The
constant `ExitAfterClean` says whether a process in which `clean` was called may
end in the model: see finding 3. `WriteData` is a client changing a page it has
pinned, as all code of the tree does.

### Tree (`TreePages`, `BPlusTree`, `IndexIterator`)

Operators have the names of the methods they model, take the tree
`[nodes, root, header, pins]` and return it changed. Pages hold their own parent
and next pointers, so that a step that forgets one leaves a wrong one. `pins` is
a bag: a page fetched twice has to be unpinned twice. The loops of the code are
recursive functions: down to a leaf along the pages, up from it along the
levels, along the chain of leaves in a scan, one value for each iteration. A call of
the index is one step: nothing else runs meanwhile. For a search and a scan there
are two operators each: what they return (`SearchKey`, `ScanKey`), and what they
leave behind (`Searched`, `Scanned`), which is the step: they pin leaf after leaf
and have to give every pin back. `dict` is the dictionary the
calls so far should have left, by the operators of `Index`, which are also what
the managers' modules are built on; properties compare the tree with it. It is
a variable and not a refinement mapping because a lost call is a stuttering
step, which a refinement would accept. A page emptied by a merge is never
deleted by the code and stays in the file unused; the model forgets it. Page
IDs are only compared for equality, so the model takes the smallest one not in
use. The early returns for a full page are modelled; `PagesAreLinked` shows that
they, and the exceptions `"Page overflows."`, never happen. An iterator is
`[tree, ptr, index]`, the tree with the pin the iterator holds.

### Threaded tree (`CrabTree`)

The same pages, with `latches` (one per page and `root_latch_`), the `mutex` of
the thread pool, and for each thread its task, the latch it waits for, and its
page set. A step ends where a thread has to wait for a latch; what a thread does
between two such places touches only pages it has latched. Unlocking is one
step with what comes before it, except between two releases of the root latch,
where others may get in. `dict` follows the changes of leaves, in the order in
which they happen, which is the order the operations take effect in. A scan
records which keys were there throughout and which at some time, so that its
result can be judged without stopping the others. On a leaf emptied by a merge the
code reads what the page held before until a key stops it: the model ends such a
scan there and claims nothing of what it found (`disturbed`). `Starts` gives the trees and
tasks a run begins with.

### Red-black map (`RedBlackMap`)

A node is named by its key, which it keeps for life: the code exchanges nodes,
not entries. `LL` and `LR` take the side as a parameter and so stand for `RR` and
`RL` too. Locals that rotations leave out of date (`GrandP`, `parent`) are passed
on as the code does. An access through a null pointer has no value and would end
a run with an error.

### Queries (`Timetable`, `Queries`)

Times are minutes since June 1st; `transfer` and the constructor convert to and
from month, day, hour and minute. `answer` is the last command and the rows it
printed, as records. The properties define the right answer from the arguments
of `add_train` and from the orders, not from the arrays the code derives: a
ticket is a ride, a transfer a pair of rides that minimises time or cost over
all pairs. `Sort` is the quicksort of the code, on arrays with ties.

### Latch and thread pool (`RWLatch`, `ThreadPool`)

Between two waits a method of the latch holds `mutex_`, so that code is one
step. A thread in `wait()` is in `asleep` until it is notified or wakes up
spuriously; then it tests its condition again. In `ThreadPool` the owner's
`Join` and destructor are cut where `latch_` is released, since workers run
between that and the notification. A task is any of: plain (does not unlock),
an operation that unlocks right after it took the root latch, a scan that
unlocks at its end, an optimistic change. A change whose first attempt fails
has to come back for the root latch to write before it ends; which ones fail is
left open here and decided by the leaf in `CrabTree`. `lock_` is the shared pointer `GetLock` returns.

## 3. The runs

Passing runs:

| run | instance | states | what it shows |
|---|---|---|---|
| `tickets_safety` | 2 users, 3 privileges, 2 trains, 2 timetables, 2 dates, 2 orders | 176,726 | the pool names existing users only, and no second root comes about through any mixture of stale privileges and promotions; the five databases stay consistent, nothing is oversold, IDs stay unique through clean and restart |
| `tickets_waiting_list` | 2 users, 1 train, 3 orders | 228,938 | a refund serves what it fetched oldest first, completely, in one pass, and returns; the counters equal capacity minus tickets at every step, and every purchase, promotion and refund is one the ledger allows, so statuses only move forward |
| `pool` | 2 pins, 3 frames, 4 pages, 2 contents | 1,008,400 | no frame is lost or shared, no page in use is evicted, and the pool implements `PageStore` |
| `tree` | 10 keys, leaves and internal pages of 4; 10 names | 114,537 | every sequence of calls keeps the B+ tree linked, half full, sorted and unpinned; searches, scans and iterators return exactly what they should, also after a restart; every sequence of logins and logouts leaves the pool's map a red-black tree with the right entries |
| `latch` | 4 threads, as many as may read | 1,968 | exclusion; no lost wake-up; writers get in |
| `thread_pool` | 3 workers, 3 tasks | 122,250 | tasks begin and first enter the tree in the order they were joined; all are run, and the destructor returns |
| `crab` | 3 threads on two levels, 2 threads on one to three levels, some ten tasks each | 119,868 | every task comes to the right leaf whatever the others split and merge meanwhile; nothing is lost; latches and pins are given back; somebody can always go on; an undisturbed scan is complete |
| `queries` | 2 networks of 3 trains, 7 dates, 3 orders | 90,520 | every query answers what a definition over all rides says; dates survive conversion; `Sort` sorts |

Why these bounds are enough to meet the interesting cases:

* Three stations with two segments are the smallest line on which orders
  overlap partly, touch at one station, or not at all; the second station is
  left after midnight. Two seats and up to two tickets per order let an order
  fill the train, and three orders are the fewest with one refunded and two
  waiting in both orders of age. The second timetable in `tickets_safety` has
  fewer stations and another sale, so that a train can be deleted and added
  again differently.
* The trees of `crab` are the smallest on which the tasks of two or three threads
  meet in every way: leaves at their minimum next to leaves that are not, pages
  one entry from a split, a removal that takes a level away, and the empty tree.
  Where the root may disappear there are two threads, because of finding 4.
* Ten names reach every case of `remove_adjust`, both double rotations and both
  kinds of replacement; larger maps repeat them.
* The networks of `queries` have departures after midnight and on the last of
  June, two ways of the same time and price, a change that works to the minute,
  one that needs the next day and one that waits for the first day of sale.
* Three frames for the header and two others mean that four pages do not fit:
  eviction, dirty write-back and a full pool all happen. Two clients can pin
  everything.
* With pages of 4 (at most 3 entries between calls, at least 2) ten keys are the
  fewest for which every case occurs: three levels, merging on two levels,
  redistribution between leaves and between internal pages, a shrinking root.
  Every key has a value of its own, as the program's records do, and one has a
  second value, so that modifications are seen. The program's own sizes differ
  only in number: the largest record, a `Train`, gives leaves of about six
  entries, so splits and merges of small pages are not an artefact.
* Four threads are one more than are needed for a writer in, one waiting and a
  reader of each kind. Three workers and tasks let two overtake a third.

`MaxOrders`, `MaxTickets`, `MaxPages` (of `BufferPool` and `CrabTree`) and
`MaxTasks` are the bounds; they are guards of the actions that would exceed
them. `BPlusTree` needs none: its keys bound its pages. Deadlock is checked everywhere
except in `thread_pool` and `crab`, where all tasks come to their end; in `crab`
the invariant `SomebodyGoesOn` says that this is the only end. Symmetry is used only
where no liveness is checked and the permuted values are only compared for
equality.

Fairness. `RefundReturns` assumes that a refund that has begun goes on; a
single-threaded loop does. `WritersGetIn` assumes of each
thread that a call it began goes on when it can get `mutex_`, and that a latch
that was taken is released, as every operation of the tree does; nothing assumes
that a thread asks for the latch. `TasksFinish` and `DestructorReturns` assume
that runnable workers run and that the owner finishes a call it began, but not
that it ever joins a task or destroys the pool. All of it is weak fairness, and
spurious wake-ups have none.

### Findings (violation runs)

1. `accounts_pool`. `modify_profile` writes a new privilege to the database
   only; the repository's README says that the pool's copy has to be changed at
   the same time. The run shows a logged-in user with two different privileges.
   `AtMostOneRoot` holds nevertheless.
2. `tickets_starve`. `refund_ticket` scans the waiting list from the refunded
   order's own ID on. A waiting order older than that is not seen and goes on
   waiting while its seats are free, where the specification of the task
   (`document/Intro_by_assistant.md`) has it served at once. `OlderOrdersFirst`
   and `OnePassIsEnough` therefore speak of the orders the call has fetched.
3. `pool_exit_after_clean`. `Initialize` frees all frames but keeps
   `page_table_`. When the process later ends, `FlushAllPages` follows the
   entries that are left; one may lead to a frame that was freed again and has
   no page ID, the seek to a negative offset fails, and the stream drops this
   and all later writes unnoticed. The run shows a page of the tree lost. So
   that this does not hide everything else, `pool` ends only processes
   that were not cleaned, and `TicketSystem`'s `restart` describes what the
   managers rely on: that files survive.
4. `crab_root`. `AdjustRoot` unlocks `root_latch_`, and unlatching the old root,
   which has no parent, unlocks it once more. `WUnlock` resets the writer flag
   whoever set it, so a writer that came in between is thrown out and a second
   one let in. The run shows two insertions that both find the tree empty and
   both start a new one: one entry is lost. With two operations under way there
   is no third to be harmed, and `crab` passes.

Observed, but claimed by no run: `query_transfer` breaks ties by the running
time of the first train where `document/Intro_by_assistant.md` names its ID; the
queries refuse dates in September on which trains of the last day of August are
still under way, while `buy_ticket` accepts them; `DeletePages` of the threaded
tree goes through a set that is already empty and deletes nothing; a threaded
scan that meets a leaf merged away under it may read on in what the page held
before; `Begin(key)` takes the -1 of a key beyond its leaf for an index.

## 4. The proofs

TLAPS proves, for every value of the constants that satisfies the named
assumptions:

| theorem | states |
|---|---|
| `AccountsAreSound`, `NobodyElseIsLoggedIn` | `AccountSpec => []AccountInv`: types, `LoggedInUsersExist`, `AtMostOneRoot` |
| `TypesAreKept`, `SeatsNeverNegative`, `WaitingListMatches`, `IDsNeverReused`, `LookupsSucceed` | `Spec => []...` of `TicketSystem`: `TypeOK`, `NeverOversold`, `PendingMatchesOrders`, `OrderIDsAreUnique`, `LookupsFind` |
| `FirstComeFirstServed`, `OnePassSuffices` | `Spec => OlderOrdersFirst` and `Spec => OnePassIsEnough`: what a step of a refund may never do |
| `CountersAddUp`, `SystemImplementsLedger` | `Spec => []SeatsAddUp` and `Spec => ImplementsLedger`, the refinement of `Ledger` |
| `NoFrameIsLost`, `PinCountsAreRight`, `PinnedPagesAreKept` | `Spec => []FramesAreAccountedFor`, `Spec => []PinsAreCounted`, `Spec => PinnedPagesStay` of `BufferPool` |
| `PoolImplementsStore` | `Spec => ImplementsPageStore`, the refinement of `PageStore`, when no process exits once it was cleaned |
| `TreeInvariant` | `Spec => []TreeInv` of `BPlusTree`: the pages are a balanced search tree over exactly the entries of the dictionary, with no pin left by any call |
| `SearchTheorem`, `ScanTheorem`, `PagesTheorem` | `Spec => []SearchFindsEverything`, `Spec => []ScanIsComplete` and `Spec => []PagesAreLinked`, which follow from it |
| `MutualExclusion` | `Spec => []WritersAreAlone` of `RWLatch`, with any limit |
| `NoLostWakeups` | `Spec => []NobodySleepsForNothing` when there are no more threads than `MAX_READERS` |
| `OrderIsKept`, `LocksAreOwn` | `Spec => []TasksEnterInOrder` and `Spec => []LockIsOwn` of `ThreadPool` |

Assumptions: `AccountAssumption` (the privileges that occur are 0 to 10),
`TrainAssumption` (timetables are well formed; the bounds are numbers),
`TreeAssumption` (keys are integers other than the one that stands for no key;
the shorter comparator takes an interval of keys for equal; a leaf has room for
two entries and an inner page for four, as every page of 32768 bytes here has: with
three a split would leave an inner page with one child),
`LatchAssumption` (finitely many threads, a positive limit), and the two
assumptions named `PoolAssumption`: of `ThreadPool` (finitely many workers) and
of `BufferPool` (finitely many clients, at least one frame and one page). The
one theorem with a hypothesis of its own is `PoolImplementsStore`; without it
the statement is false, which is finding 3.

*Accounts.* `AccountInv` is inductive as it stands. That there is one root rests
on `add_user` demanding a privilege strictly larger than the new one and on
`modify_profile` doing the same, with the *cached* privilege: at most 10, so
nobody can hand out 10.

*Tickets.* None of the properties is inductive alone. `NeverOversold` needs that
a refund's copy belongs to a day on sale and that the entries it visits are
still in the waiting list; that they can be promoted needs
`PendingMatchesOrders`; that needs IDs to be unique; and looking up the day
needs `LookupsFind`. `TicketInv` is their conjunction together with
`RefundCallIsCurrent`, which ties the locals of a running refund to the
databases. The step lemma has one case per action, and lemmas for the groups of
actions that change the same tables.

*Waiting list.* The two action properties compare a step of a refund with the
orders it has already passed. `PassedOverForGood` says that an entry the scan
passed without serving still does not fit into the refund's copy of the seats:
the refunded seats are added before the scan, and from then on the copy only
shrinks. With it, an order that is promoted has no older one that fits, and at
the end of the scan none fits at all. They speak of the orders the call fetched
(finding 2).

*Ledger.* `Ledger` computes the room of a segment from the set of tickets
(`Tickets`: pairs of an order and a number), so that a step changes a cardinality
by the tickets of one order and no sum over a set has to be taken. `Entry`,
`LedgerOrders` and `LedgerCapacity` are the mapping, and `SeatsNow` the counters,
those in a running refund's copy included. `SeatsAddUp` is inductive over
`TicketInv`; each command is then shown to be a step of the ledger (a purchase is
`Order`, a refund `Cancel`, a promotion `Promote`, a release `Open`, a clean
`Reset`) or, like those about accounts and a step of the scan that serves
nobody, no step at all. The two go through the same cases and are proved
together (`Follows`).

*Pool.* `PinsAreCounted` and `FramesAreAccountedFor` say nothing about which of
the frames that are not free can be trusted, so they are not inductive.
`PoolInv` states the correspondence in both directions: a page of the tree that
the pool has (`Resident`) has a frame that is not free, knows its page, counts
its pins, and is in the queue exactly when there are none (`ResidentHasFrame`);
and a frame that is not free holds such a page (`FrameHasResident`). Entries of
the page table that a clean left behind are in neither, and that is why they do
no harm while the process runs. The header never leaves the last frame, and
remains the first to be flushed. That `UnpinPage` finds the queue not full is a
counting argument (`QueueHasRoom`): the frame itself is not in it. What `FindFrame`
does is stated once (`FindTakesAFrame`, `FindForgetsTheVictim`,
`FindSavesTheVictim`) for both its callers. For the refinement, `CleanIsOnDisk`
says that a page in the pool that is not dirty and that no holder of a pin has
written to is in the file as it is in the pool, so that an eviction without a
write loses nothing; and `NothingIsLeft` that without a clean there are no
leftovers, so that `FlushAllPages` writes every page (`FlushSavesEverything`).
The lists are sequences without duplicates, and a few lemmas say what appending,
erasing and popping do to the set of their elements.

*Tree.* The pages alone do not say which keys belong below which page, so the
proof adds two functions that are not in the program: `part`, the keys for which
`FindLeafPage` comes by a page, and `level`, its height above the leaves. `Shape`
says that they fit: the root has all keys and no parent; every entry of an inner
page leads to a page one level down that calls it its parent and has the keys
between the two separators around it; a leaf holds exactly the entries of `dict`
for its part; and entries are in order. `Chain` says that the next pointer of a
leaf leads to the leaf whose part follows, and that only the leaf with the largest
keys has none. `Well` is both with what the fields of
a page have to be, `Settled` is `Well` with every page of legal size and no pins,
and `Kept` is that or the empty tree. `TreeInv` is `Kept` with `size_` the number
of entries: that number decides nothing in the tree, but `order_num` is restored
from it.

`TreeShapeProofs` has one lemma for each thing that can happen to a shape,
without pins or fields: a change in a leaf (`LeafChange`), a split with its entry
in the parent (`SplitShape`), a merge (`MergeShape`), another cut between two
neighbours (`ShiftShape`), a root more or less (`AddRoot`, `DropRoot`), and the
same for the chain. `BPlusTreeProofs` shows that the methods do these things to
the pages (the lemmas named `...Effect`), with the pins they take and give back.
An insertion goes up from the leaf: `Growing` says that between two
iterations one pinned page may be full and all others are as they should be;
`Shrinking` says for removals that one may be too small. Each iteration keeps this
one level higher or ends with a settled tree (`GrowStepOK`, `ShrinkStepOK`), and
since a tree has no more levels than inner pages and one, the loop has come to
its end after as many iterations. That is an induction over the number of iterations, done with a
set of numbers instead of a predicate (`NatSetInduction`); so is the way down in
`FindLeafPage`, over levels. That a split leaves two
legal halves, and that a neighbour too large for a merge can spare an entry, is
where `<` and `<=` in the code matter: `Halves` has the arithmetic.

A scan starts in the leaf that `FindLeafPage` comes to and goes along the chain.
Along it fewer and fewer pages have larger keys (`Ranks`); that number bounds the
way, so `ChainFrom` is well-defined (`Along`), and by induction over it the chain
from a leaf on lists, in order and with their values, exactly the entries from its
part on (`ChainLists`). What `ScanKey` cuts off at both ends are the keys
below the one it starts from (`RestLists`) and those the standby comparator tells
apart (`HitsList`, where that comparator has to agree with the order of the keys). The
reference picks the i-th value by counting smaller keys; `Places` counts them in
the listing, by a bijection. The same ranks show that a scan comes to an end:
`ScanState` says that after n leaves it has no pin any more, or one on a leaf
whose rank is at most the number of pages less n (`ScanStepOK`), so that after
as many leaves as there are pages none is left (`KeptScanned`).

`TreeInv` has an existential quantifier over `part` and `level`, which TLC cannot
evaluate; the run checks what follows from it.

*Thread pool.* `PoolInv` of `ThreadPoolProofs` adds that the tasks taken are
1, 2, ... and the queue goes on where they end; that a worker holds `latch_` from
taking a task until it unlocks, with `lock_` leading to its own lock until it has
read it; that a task that has let the root latch go and still has to unlock is a
scan; and that the worker that has yet to take the root latch has the last
task taken. Both properties follow.

*Latch.* `LatchInv` adds that `reader_count_` is the number of threads that read
(by the cardinality theorems), that `writer_entered_` is set exactly while one
thread is between announcing itself and `WUnlock`, and that a writer that got in
found no reader. `NobodySleepsForNothing` is inductive over it when the limit
is out of reach: with as many threads, a thread that is about to read is not
among the readers, so the count is below the limit. At the limit the statement
would be false: `RUnlock` wakes one sleeper on `reader_`, which may be a writer.
`MAX_READERS` is `UINT_MAX`, so this does not matter in practice.

Only model-checked:

* all liveness (`RefundReturns`, `WritersGetIn`, `TasksFinish`,
  `DestructorReturns`), which needs fairness and `ENABLED`, out of the provers'
  reach;
* `IterationIsComplete`. The entries from the first leaf on are those of
  `ChainLists`, but the iterators one after the other are a recursive operator;
* the threaded tree. Its pages are those of `TreePages`, but a tree that several
  threads are changing at once is none of `Settled`, `Growing` and `Shrinking`;
* the map and the queries, built on recursive definitions whose results for all
  inputs would need induction over data.

## 5. Not modelled

* A kill of the process. The code writes page count and size in the destructor
  only and has no recovery, so only orderly ends are modelled.
* The widths of integers: `num * price`, and the offset in `ReadPage` (from page
  65536 on), overflow only for values beyond the 32-bit integers TLC computes
  with.
* A `ReadPage` that throws with its page left in the table and pinned: the
  constructor of the index undoes it by hand for the header, and `PinsAreCounted`
  shows that every other page is in the file.
* Tokenising (`Command.cpp`) and string types.
* Of the containers, the vectors and the hash table inside `linked_hashmap`:
  sequences and functions stand for them. Copying of `map`.
* `FileStorage.h`, `ull.h`, `innodb_replacer.cpp` and the log for rollback, which
  are not used.
* Eviction together with threads: `CrabTree` has every page in the pool.
  Liveness of `CrabTree` under fairness, whose state graph is too large for it;
  `SomebodyGoesOn` takes its place.

## 6. Plan

Done, in this order: tickets and their proofs, ledger, pool, tree, latch with
its proofs, thread pool, threaded tree, queries, iterator and map.

Done, proofs: tickets, accounts and latch; then the order of tasks, the waiting
list, the ledger, and the pool with its refinement; then the tree
with its searches and scans.

Next, proofs: the shape of the threaded tree, with one page for each thread that may be full or too small.

Next, models: the life of an index (`Clear`, destructor, constructor) over pool
and tree together, which would also show what a modification that unpins its
leaf as clean (`b_plus_tree_ts.cpp:189`) does under eviction.
