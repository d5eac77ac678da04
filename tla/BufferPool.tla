----------------------------- MODULE BufferPool -----------------------------
(***************************************************************************)
(* BufferPoolManager with its LRUReplacer and DiskManager, opened, cleaned *)
(* and closed by BPlusTreeIndexNTS.  Every method runs under latch_ (or in *)
(* a single thread), so it is one step.  A client stands for one pin that  *)
(* the tree holds: it changes a page only while it has it pinned.  The     *)
(* index keeps one more pin, on the header page, from opening to closing.  *)
(***************************************************************************)
EXTENDS Integers, Sequences, FiniteSets, SequencesExt

CONSTANTS
    Clients,
    PoolSize,        \* pool_size_
    MaxPages,        \* bound: page IDs are 0 .. MaxPages - 1
    Data,            \* what a page may contain
    Zero,            \* the content after ResetMemory
    Records,         \* the header's content after its InsertRecord calls
    None,            \* no page
    ExitAfterClean   \* may a process that was cleaned exit?

PageIds == 0 .. MaxPages - 1
Frames == 0 .. PoolSize - 1
HEADER_PAGE_ID == 0
INVALID_PAGE_ID == -1

ASSUME PoolAssumption ==
    /\ IsFiniteSet(Clients)
    /\ PoolSize \in Nat \ {0}
    /\ MaxPages \in Nat \ {0}
    /\ Zero \in Data /\ Records \in Data
    /\ None \notin PageIds
    /\ ExitAfterClean \in BOOLEAN

VARIABLES
    pages,         \* frame -> [page_id, pin_count, is_dirty, data]
    page_table,    \* page ID -> frame
    table_order,   \* its keys in the order linked_hashmap iterates: of insertion
    free_list,     \* free frames, used from the back
    queue,         \* LRUReplacer: unpinned frames, the oldest first
    disk,          \* the file: page ID -> content
    next_page_id,  \* DiskManager's counter
    live,          \* the header and the pages the tree refers to
    held,          \* client -> the page it has pinned, and whether it wrote
    cleaned        \* has this process been cleaned?

poolVars == <<pages, page_table, table_order, free_list, queue, disk,
              next_page_id, live, held, cleaned>>

Page == [page_id : PageIds \cup {INVALID_PAGE_ID}, pin_count : Nat,
         is_dirty : BOOLEAN, data : Data]

NoPin == [page |-> None, wrote |-> FALSE]

\* erase(find(e)) of a linked_hashmap: the others keep their order.
Without(s, e) ==
    IF e \in Range(s) THEN RemoveAt(s, CHOOSE i \in DOMAIN s : s[i] = e) ELSE s

\* page_table_[p] = f keeps the place of a key that is there already.
Put(table, p, f) == [q \in DOMAIN table \cup {p} |-> IF q = p THEN f ELSE table[q]]
PutOrder(order, p) == IF p \in Range(order) THEN order ELSE Append(order, p)

\* page_table_.erase(page_table_.find(p)).
Erase(table, p) == [q \in DOMAIN table \ {p} |-> table[q]]
EraseOrder(order, p) == Without(order, p)

\* DiskManager.  A page beyond the end of the file cannot be read: ReadPage
\* throws.  PinsAreCounted: every page of the tree is in the file.
ReadPage(file, p) == file[p]
WritePage(file, p, data) == Put(file, p, data)
Truncated == <<>>

\* The loop of the constructor and of Initialize, and the frame it pushes last.
AllFrames == [i \in 1 .. PoolSize |-> i - 1]
LastFrame == PoolSize - 1

FreshPage == [page_id |-> INVALID_PAGE_ID, pin_count |-> 0, is_dirty |-> FALSE,
              data |-> Zero]

\* The header page as the index keeps it: pinned, and dirty since the tree's
\* constructor unpinned it so.
Header(d) == [page_id |-> HEADER_PAGE_ID, pin_count |-> 1, is_dirty |-> TRUE, data |-> d]

\* The index opened on a new file: NewPage gave the header the last frame.
Init ==
    /\ pages = [f \in Frames |-> IF f = LastFrame THEN Header(Records) ELSE FreshPage]
    /\ page_table = [p \in {HEADER_PAGE_ID} |-> LastFrame]
    /\ table_order = <<HEADER_PAGE_ID>>
    /\ free_list = SubSeq(AllFrames, 1, PoolSize - 1)
    /\ queue = <<>>
    /\ disk = [p \in {HEADER_PAGE_ID} |-> Zero]
    /\ next_page_id = 1
    /\ live = {HEADER_PAGE_ID}
    /\ held = [c \in Clients |-> NoPin]
    /\ cleaned = FALSE
-----------------------------------------------------------------------------
\* Bug: a pinned frame stays evictable.
ReplacerPin_nothing(q, f) == q

\* LRUReplacer::Pin: take the frame out if it is there.
ReplacerPin(q, f) == Without(q, f)

\* LRUReplacer::Unpin: to the young end, unless the queue is full.
ReplacerUnpin(q, f) ==
    IF Len(q) >= PoolSize THEN q ELSE Append(ReplacerPin(q, f), f)

\* FindFrame: the free list first, then LRUReplacer::Victim, the oldest unpinned
\* frame.  Its callers give the variables the values defined here.
FrameAvailable == free_list # <<>> \/ queue # <<>>
FromFreeList == free_list # <<>>
FoundFrame == IF FromFreeList THEN free_list[Len(free_list)] ELSE Head(queue)
FreeListAfterFind_no_pop == free_list   \* Bug: pop_back is missing.
FreeListAfterFind ==
    IF FromFreeList THEN SubSeq(free_list, 1, Len(free_list) - 1) ELSE free_list
QueueAfterFind == IF FromFreeList THEN queue ELSE Tail(queue)

\* Bugs: the victim is not written back; it keeps its mapping.
DiskAfterFind_unwritten == disk
TableAfterFind_kept == page_table

\* A dirty victim is written back; a victim loses its mapping.
DiskAfterFind ==
    IF ~FromFreeList /\ pages[FoundFrame].is_dirty
    THEN WritePage(disk, pages[FoundFrame].page_id, pages[FoundFrame].data)
    ELSE disk
TableAfterFind ==
    IF FromFreeList THEN page_table ELSE Erase(page_table, pages[FoundFrame].page_id)
OrderAfterFind ==
    IF FromFreeList THEN table_order
    ELSE EraseOrder(table_order, pages[FoundFrame].page_id)

\* The frame found now holds page p with this content, pinned once.
Load(c, p, data) ==
    /\ pages' = [pages EXCEPT ![FoundFrame] =
                   [page_id |-> p, pin_count |-> 1, is_dirty |-> FALSE, data |-> data]]
    /\ page_table' = Put(TableAfterFind, p, FoundFrame)
    /\ table_order' = PutOrder(OrderAfterFind, p)
    /\ free_list' = FreeListAfterFind
    /\ queue' = ReplacerPin(QueueAfterFind, FoundFrame)
    /\ held' = [held EXCEPT ![c].page = p]

\* FetchPage of a page that is in the pool.
FetchHit(c, p) ==
    /\ held[c] = NoPin
    /\ p \in live
    /\ p \in DOMAIN page_table
    /\ pages' = [pages EXCEPT ![page_table[p]].pin_count = @ + 1]
    /\ queue' = ReplacerPin(queue, page_table[p])
    /\ held' = [held EXCEPT ![c].page = p]
    /\ UNCHANGED <<page_table, table_order, free_list, disk, next_page_id, live, cleaned>>

\* FetchPage of one that is not: it is read from the file.
FetchMiss(c, p) ==
    /\ held[c] = NoPin
    /\ p \in live
    /\ p \notin DOMAIN page_table
    /\ FrameAvailable
    /\ Load(c, p, ReadPage(DiskAfterFind, p))
    /\ disk' = DiskAfterFind
    /\ UNCHANGED <<next_page_id, live, cleaned>>

\* NewPage: a zeroed frame, written out at once under the next page ID.
NewPage(c) ==
    /\ held[c] = NoPin
    /\ next_page_id < MaxPages
    /\ FrameAvailable
    /\ Load(c, next_page_id, Zero)
    /\ disk' = WritePage(DiskAfterFind, next_page_id, Zero)
    /\ live' = live \cup {next_page_id}
    /\ next_page_id' = next_page_id + 1
    /\ UNCHANGED cleaned

\* The tree changes a page that it has pinned.
WriteData(c, d) ==
    /\ held[c] # NoPin
    /\ pages[page_table[held[c].page]].data # d
    /\ pages' = [pages EXCEPT ![page_table[held[c].page]].data = d]
    /\ held' = [held EXCEPT ![c].wrote = TRUE]
    /\ UNCHANGED <<page_table, table_order, free_list, queue, disk, next_page_id,
                   live, cleaned>>

DirtyAfterUnpin(page, wrote) == page.is_dirty \/ wrote

\* UnpinPage, dirty if the client wrote.  Its two refusals (not in the pool, not
\* pinned) are not met by a client that holds a pin: see PinsAreCounted.
UnpinPage(c) ==
    /\ held[c] # NoPin
    /\ LET f == page_table[held[c].page]
       IN  /\ pages[f].pin_count > 0
           /\ pages' = [pages EXCEPT ![f].is_dirty = DirtyAfterUnpin(pages[f], held[c].wrote),
                                     ![f].pin_count = @ - 1]
           /\ queue' = IF pages[f].pin_count = 1 THEN ReplacerUnpin(queue, f)
                                                 ELSE queue
    /\ held' = [held EXCEPT ![c] = NoPin]
    /\ UNCHANGED <<page_table, table_order, free_list, disk, next_page_id, live, cleaned>>

\* FlushPage: written whether dirty or not, pinned or not.
FlushPage(p) ==
    /\ p \in live
    /\ p \in DOMAIN page_table
    /\ disk' = WritePage(disk, p, pages[page_table[p]].data)
    /\ pages' = [pages EXCEPT ![page_table[p]].is_dirty = FALSE]
    /\ UNCHANGED <<page_table, table_order, free_list, queue, next_page_id, live,
                   held, cleaned>>

\* DeletePage as AdjustRoot calls it, when it answers true: the page is not in
\* the pool, or nobody has it pinned and its frame goes to the free list.  The
\* content is still in the frame and in the file, but nobody can read it any
\* more: FindFrame zeroes the frame, and page IDs are not used again before the
\* file is truncated.  The model forgets it at once, to have fewer states.
DeletePage(p) ==
    /\ p \in live \ {HEADER_PAGE_ID}
    /\ \/ /\ p \notin DOMAIN page_table
          /\ \A c \in Clients : held[c].page # p
          /\ UNCHANGED <<pages, page_table, table_order, free_list, queue>>
       \/ /\ p \in DOMAIN page_table
          /\ pages[page_table[p]].pin_count = 0
          /\ page_table' = Erase(page_table, p)
          /\ table_order' = EraseOrder(table_order, p)
          /\ pages' = [pages EXCEPT ![page_table[p]].is_dirty = FALSE,
                                    ![page_table[p]].page_id = INVALID_PAGE_ID,
                                    ![page_table[p]].data = Zero]
          /\ free_list' = Append(free_list, page_table[p])
          /\ queue' = ReplacerPin(queue, page_table[p])
    /\ live' = live \ {p}
    /\ disk' = Erase(disk, p)
    /\ UNCHANGED <<next_page_id, held, cleaned>>
-----------------------------------------------------------------------------
\* FlushAllPages writes each entry of the table, in its order, under the page ID
\* its frame holds.  INVALID_PAGE_ID is an offset before the file: seekp fails,
\* and with failbit set the stream drops this write and every later one, which
\* db_io_.bad() does not notice.
EntryPage(i) == pages[page_table[table_order[i]]]
Entries == DOMAIN table_order
Reached == {i \in Entries : \A j \in 1 .. i : EntryPage(j).page_id # INVALID_PAGE_ID}
Flushed == {EntryPage(i).page_id : i \in Reached}
DiskAfterFlush ==
    [p \in DOMAIN disk \cup Flushed |->
       IF p \in Flushed
       THEN EntryPage(Max({i \in Reached : EntryPage(i).page_id = p})).data
       ELSE disk[p]]

NoClientPins == \A c \in Clients : held[c] = NoPin

\* BPlusTreeIndexNTS::Clear: Initialize makes every frame free and forgets the
\* LRU queue, but leaves page_table_ and the frames as they are; the file is
\* truncated; NewPage makes the header and the new tree unpins it as dirty.
Clear ==
    /\ NoClientPins
    /\ pages' = [pages EXCEPT ![LastFrame] = Header(Records)]
    /\ page_table' = Put(page_table, HEADER_PAGE_ID, LastFrame)
    /\ table_order' = PutOrder(table_order, HEADER_PAGE_ID)
    /\ free_list' = SubSeq(AllFrames, 1, PoolSize - 1)
    /\ queue' = <<>>
    /\ disk' = WritePage(Truncated, HEADER_PAGE_ID, Zero)
    /\ next_page_id' = 1
    /\ live' = {HEADER_PAGE_ID}
    /\ cleaned' = TRUE
    /\ UNCHANGED held

\* The index's destructor and its constructor in the next process.  The page
\* count is saved in the header, which is flushed first: see PinsAreCounted.
Restart ==
    /\ NoClientPins
    /\ cleaned => ExitAfterClean
    /\ disk' = DiskAfterFlush
    /\ pages' = [f \in Frames |-> IF f = LastFrame
                                  THEN Header(DiskAfterFlush[HEADER_PAGE_ID])
                                  ELSE FreshPage]
    /\ page_table' = [p \in {HEADER_PAGE_ID} |-> LastFrame]
    /\ table_order' = <<HEADER_PAGE_ID>>
    /\ free_list' = SubSeq(AllFrames, 1, PoolSize - 1)
    /\ queue' = <<>>
    /\ cleaned' = FALSE
    /\ UNCHANGED <<next_page_id, live, held>>

Next ==
    \/ \E c \in Clients : \/ \E p \in PageIds : FetchHit(c, p) \/ FetchMiss(c, p)
                          \/ NewPage(c)
                          \/ \E d \in Data : WriteData(c, d)
                          \/ UnpinPage(c)
    \/ \E p \in PageIds : FlushPage(p) \/ DeletePage(p)
    \/ Clear
    \/ Restart

Spec == Init /\ [][Next]_poolVars
-----------------------------------------------------------------------------
\* What the tree sees when it fetches page p.
Content(p) == IF p \in DOMAIN page_table THEN pages[page_table[p]].data ELSE disk[p]

Pins(p) == Cardinality({c \in Clients : held[c].page = p})
           + IF p = HEADER_PAGE_ID THEN 1 ELSE 0

\* Types of the pool's state; table_order lists each key of page_table_ once.
PoolTypeOK ==
    /\ pages \in [Frames -> Page]
    /\ DOMAIN page_table \subseteq PageIds
    /\ \A p \in DOMAIN page_table : page_table[p] \in Frames
    /\ Range(table_order) = DOMAIN page_table
    /\ Len(table_order) = Cardinality(DOMAIN page_table)
    /\ Range(free_list) \cup Range(queue) \subseteq Frames
    /\ DOMAIN disk \subseteq PageIds
    /\ \A p \in DOMAIN disk : disk[p] \in Data
    /\ next_page_id \in 1 .. MaxPages
    /\ live \subseteq 0 .. next_page_id - 1
    /\ held \in [Clients -> [page : PageIds \cup {None}, wrote : BOOLEAN]]
    /\ cleaned \in BOOLEAN

\* No frame is lost or handed out twice: whatever sequence of fetches, unpins,
\* deletions and cleans came before, each frame is exactly one of free (once),
\* evictable (once) or pinned.  FindFrame returns -1 only if all are pinned.
FramesAreAccountedFor ==
    /\ Len(free_list) = Cardinality(Range(free_list))
    /\ Len(queue) = Cardinality(Range(queue))
    /\ Range(free_list) \cap Range(queue) = {}
    /\ Frames \ (Range(free_list) \cup Range(queue))
         = {page_table[p] : p \in {q \in live : Pins(q) > 0}}

\* A live page's frame counts the pins on it and knows the page; so UnpinPage
\* of a pin that is held succeeds and eviction takes no page in use.  Entries
\* that a clean left in page_table_ never make a live page share its frame.
\* The header stays in its frame and the first to be flushed, so that the page
\* count the destructor puts there is saved; and every live page is in the
\* file, so that ReadPage finds it.
PinsAreCounted ==
    /\ PoolTypeOK
    /\ table_order[1] = HEADER_PAGE_ID
    /\ live \subseteq DOMAIN disk
    /\ \A c \in Clients : held[c] # NoPin => held[c].page \in live \cap DOMAIN page_table
    /\ \A p \in live \cap DOMAIN page_table :
          /\ pages[page_table[p]].page_id = p
          /\ pages[page_table[p]].pin_count = Pins(p)
          /\ \A q \in live \cap DOMAIN page_table : page_table[q] = page_table[p] => p = q

\* A pinned page keeps its frame: the pointer FetchPage returned stays good until
\* UnpinPage, whatever other clients fetch, create or delete.
KeepsPinnedPages ==
    \A c \in Clients : held[c] # NoPin /\ held'[c].page = held[c].page =>
        /\ held[c].page \in DOMAIN page_table'
        /\ page_table'[held[c].page] = page_table[held[c].page]
PinnedPagesStay == [][KeepsPinnedPages]_poolVars

\* "Flushes all the pages in the buffer pool to disk": after FlushAllPages the
\* file has every page of the tree as the pool has it.
FlushAllPagesKeepsThePages ==
    NoClientPins => \A p \in live : DiskAfterFlush[p] = Content(p)

\* The pool is a store of pages: see PageStore.
Store == INSTANCE PageStore WITH store <- [p \in live |-> Content(p)]
ImplementsPageStore == Store!Spec
=============================================================================
