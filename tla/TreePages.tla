----------------------------- MODULE TreePages ------------------------------
(***************************************************************************)
(* The pages of a B+ tree and what the operations do to them: insertion    *)
(* with splits, removal with merging and redistribution, search and scan,  *)
(* with the pins each call takes and gives back, as BPlusTreeNTS has them. *)
(* BPlusTreeTS does the same to the pages, between its latches.            *)
(*                                                                         *)
(* A page is [leaf, parent, next, array]; array is a sequence of           *)
(* <<key, value>> in a leaf and of <<key, child>> in an internal page,     *)
(* whose first key is never looked at.  Pages have their own parent and    *)
(* next pointers as in the code, so pointers may go stale if a step        *)
(* forgets one.  A tree is [nodes, root, header, pins]: the pages,         *)
(* root_page_id_, the "index" record of the header page, and the bag of    *)
(* pins.  Loops are recursive functions: down along the pages, up along    *)
(* the levels.                                                             *)
(***************************************************************************)
EXTENDS Integers, FiniteSets, Bags, SequencesExt

CONSTANTS
    Keys,               \* the keys that occur, ordered by comparator_
    Values,             \* key -> the values it may be given
    First,              \* the part of a key a standby comparator looks at
    leaf_max_size,
    internal_max_size

INVALID_PAGE_ID == -1
NoKey == 0

\* A merge of an internal page needs a sibling, so a minimum of two children;
\* a leaf needs one entry.  The page sizes the program is built with give more.
ASSUME TreeAssumption ==
    /\ Keys \subseteq Int \ {NoKey}
    /\ DOMAIN Values = Keys
    /\ First \in [Keys -> Int]
    /\ \A j, k \in Keys : j < k => First[j] <= First[k]
    /\ leaf_max_size \in Nat /\ leaf_max_size >= 2
    /\ internal_max_size \in Nat /\ internal_max_size >= 4

EmptyTree == [nodes |-> <<>>, root |-> INVALID_PAGE_ID,
              header |-> INVALID_PAGE_ID, pins |-> EmptyBag]
-----------------------------------------------------------------------------
(* The pool as the tree sees it.                                           *)

FetchPage(t, p) == [t EXCEPT !.pins = @ (+) SetToBag({p})]

\* A page that is not pinned stays so.
UnpinPages(t, ps) == [t EXCEPT !.pins = @ (-) SetToBag(ps)]

\* An ID no page of the tree has.  IDs are only ever compared for equality,
\* so taking the smallest one instead of a new one loses nothing.
NewPageId(t) == Min((1 .. Cardinality(DOMAIN t.nodes) + 1) \ DOMAIN t.nodes)

NewNode(t, p, node) ==
    FetchPage([t EXCEPT !.nodes = [q \in DOMAIN @ \cup {p} |->
                                      IF q = p THEN node ELSE t.nodes[q]]], p)

\* The page is given back (DeletePage), or left behind in the file by a
\* merge: either way nothing leads to it any more.
Drop(t, p) == [t EXCEPT !.nodes = [q \in DOMAIN @ \ {p} |-> t.nodes[q]]]

\* Bug: a root that takes the place of another one is not recorded.
UpdateRootPageId_first(t, p) ==
    [t EXCEPT !.root = p,
              !.header = IF INVALID_PAGE_ID \in {@, p} THEN p ELSE @]

\* The header page is fetched and unpinned again.
UpdateRootPageId(t, p) == [t EXCEPT !.root = p, !.header = p]
-----------------------------------------------------------------------------
(* Pages.                                                                  *)

MaxSize(n) == IF n.leaf THEN leaf_max_size ELSE internal_max_size

MinSize(n) == MaxSize(n) \div 2

\* The first entry whose key is not smaller, 0 when there is none.
KeyIndex(a, key) ==
    LET later == {i \in DOMAIN a : a[i][1] >= key} IN
    IF later = {} THEN 0 ELSE Min(later)

Has(a, key) == KeyIndex(a, key) # 0 /\ a[KeyIndex(a, key)][1] = key

ValueIndex(a, p) ==
    LET places == {i \in DOMAIN a : a[i][2] = p} IN
    IF places = {} THEN 0 ELSE Min(places)

Children(a) == {a[i][2] : i \in DOMAIN a}

\* Bug: a key equal to a separator is looked for on its left.
Lookup_left(a, key) == a[Max({1} \cup {i \in 2 .. Len(a) : a[i][1] < key})][2]

\* The child whose part of the keys holds key.
Lookup(a, key) == a[Max({1} \cup {i \in 2 .. Len(a) : a[i][1] <= key})][2]

\* Insert of a leaf: the array grows unless the key is there already.  A
\* full page is left as it is, which never happens: PagesAreLinked.
LeafInsert(a, key, value) ==
    LET i == KeyIndex(a, key) IN
    IF Len(a) = leaf_max_size THEN a
    ELSE IF i = 0 THEN Append(a, <<key, value>>)
    ELSE IF a[i][1] = key THEN ReplaceAt(a, i, <<key, value>>)
    ELSE InsertAt(a, i, <<key, value>>)

RemoveAndDeleteRecord(a, key) == RemoveAt(a, KeyIndex(a, key))

\* MoveHalfTo: what stays and what goes to the new page.
KeptHalf(n) == SubSeq(n.array, 1, MinSize(n))
MovedHalf(n) == SubSeq(n.array, MinSize(n) + 1, Len(n.array))

SetKeyAt(a, i, key) == ReplaceAt(a, i, <<key, a[i][2]>>)

\* An internal page's array once its first key is the separator above it,
\* which MoveAllTo and MoveLastToFrontOf put there.
WithMiddleKey(a, middle_key) == SetKeyAt(a, 1, middle_key)

\* Unchanged for a full page or a child that is not there, neither of which
\* happens: PagesAreLinked.
InsertNodeAfter(a, old, key, new) ==
    IF Len(a) = internal_max_size \/ ValueIndex(a, old) = 0 THEN a
    ELSE InsertAt(a, ValueIndex(a, old) + 1, <<key, new>>)

\* Bug: children that change their page keep the old parent.
Adopt_nothing(t, p, children) == t

\* SetParentPageId(p) on every page of children.
Adopt(t, p, children) ==
    [t EXCEPT !.nodes = [q \in DOMAIN @ |->
        IF q \in children THEN [t.nodes[q] EXCEPT !.parent = p]
                          ELSE t.nodes[q]]]

\* The page FindLeafPage returns, which it leaves pinned; the pages on the
\* way are pinned and unpinned again.
FindLeafPage(t, key) ==
    LET below[p \in DOMAIN t.nodes] ==
            IF t.nodes[p].leaf THEN p ELSE below[Lookup(t.nodes[p].array, key)]
    IN below[t.root]

\* As many levels as there are inner pages at most have one.
Levels(t) == Cardinality({p \in DOMAIN t.nodes : ~ t.nodes[p].leaf})
-----------------------------------------------------------------------------
(* Insertion.                                                              *)

StartNewTree(t, key, value) ==
    LET p == NewPageId(t) IN
    UpdateRootPageId(
        UnpinPages(NewNode(t, p, [leaf |-> TRUE, parent |-> INVALID_PAGE_ID,
                                  next |-> INVALID_PAGE_ID,
                                  array |-> <<<<key, value>>>>]), {p}), p)

\* MoveHalfTo a new page, which becomes the right neighbour: a leaf is linked
\* into the chain, the children of an internal page change their parent.
Split(t, p) ==
    LET n == t.nodes[p]
        q == NewPageId(t)
        halved == [n EXCEPT !.array = KeptHalf(n), !.next = IF n.leaf THEN q ELSE @]
        t1 == NewNode([t EXCEPT !.nodes[p] = halved], q,
                      [n EXCEPT !.array = MovedHalf(n)])
    IN IF n.leaf THEN t1 ELSE Adopt(t1, q, Children(MovedHalf(n)))

\* old has been split and new is its right half, from key on; both are
\* pinned.  The parent is left pinned, if there was one.
InsertIntoParent(t, old, key, new) ==
    LET p == t.nodes[old].parent
        r == NewPageId(t)
        root == [leaf |-> FALSE, parent |-> INVALID_PAGE_ID, next |-> INVALID_PAGE_ID,
                 array |-> <<<<NoKey, old>>, <<key, new>>>>]
    IN IF p = INVALID_PAGE_ID
       THEN UnpinPages(UpdateRootPageId(Adopt(NewNode(t, r, root), r, {old, new}), r),
                       {r, old, new})
       ELSE [UnpinPages(FetchPage(t, p), {old, new}) EXCEPT
                !.nodes[p].array = InsertNodeAfter(@, old, key, new)]

\* A full page is split, and its right half inserted into its parent.
SplitUp(t, p) ==
    LET q == NewPageId(t)
        t1 == Split(t, p)
    IN InsertIntoParent(t1, p, t1.nodes[q].array[1][1], q)

\* What comes after an insertion into c.page, which is pinned: nothing more
\* if it has room left, or a split, and then the same for its parent.
GrowStep(c) ==
    LET n == c.tree.nodes[c.page] IN
    IF c.page = INVALID_PAGE_ID THEN c
    ELSE IF Len(n.array) < MaxSize(n)
    THEN [tree |-> UnpinPages(c.tree, {c.page}), page |-> INVALID_PAGE_ID]
    ELSE [tree |-> SplitUp(c.tree, c.page), page |-> n.parent]

\* The recursion of InsertIntoParent, from the leaf p upwards.
Grown(t, p) ==
    LET call[n \in 0 .. Levels(t) + 1] ==
            IF n = 0 THEN [tree |-> t, page |-> p] ELSE GrowStep(call[n - 1])
    IN call[Levels(t) + 1].tree

InsertIntoLeaf(t, key, value) ==
    LET p == FindLeafPage(t, key) IN
    Grown([FetchPage(t, p) EXCEPT !.nodes[p].array = LeafInsert(@, key, value)], p)

\* TRUE for an insertion, FALSE for a modification.
Inserts(t, key) ==
    t.root = INVALID_PAGE_ID \/ ~ Has(t.nodes[FindLeafPage(t, key)].array, key)

Insert(t, key, value) ==
    IF t.root = INVALID_PAGE_ID THEN StartNewTree(t, key, value)
                                ELSE InsertIntoLeaf(t, key, value)
-----------------------------------------------------------------------------
(* Removal.                                                                *)

\* The root has become small: an only child takes its place, an empty leaf
\* leaves an empty tree.
AdjustRoot(t, p) ==
    LET n == t.nodes[p]
        t1 == Drop(UnpinPages(t, {p}), p)
        child == n.array[1][2]
    IN IF n.leaf
       THEN IF n.array = <<>> THEN UpdateRootPageId(t1, INVALID_PAGE_ID)
                              ELSE UnpinPages(t, {p})
       ELSE IF Len(n.array) = 1
            THEN UpdateRootPageId(Adopt(t1, INVALID_PAGE_ID, {child}), child)
            ELSE UnpinPages(t, {p})

\* All of right moves to the end of left; right is entry i of their parent.
MoveAllTo(t, left, right, parent, i) ==
    LET n == t.nodes[right]
        middle_key == t.nodes[parent].array[i][1]
        moved == IF n.leaf THEN n.array ELSE WithMiddleKey(n.array, middle_key)
        t1 == [t EXCEPT !.nodes[left].array = @ \o moved,
                        !.nodes[left].next = n.next,
                        !.nodes[right].array = <<>>,
                        !.nodes[parent].array = RemoveAt(@, i)]
    IN IF n.leaf THEN t1 ELSE Adopt(t1, left, Children(moved))

\* The page that was emptied is given back.
Coalesce(t, left, right, parent, i) ==
    Drop(UnpinPages(MoveAllTo(t, left, right, parent, i), {left, right}), right)

\* p takes the first entry of its right neighbour q, entry 2 of the parent.
MoveFirstToEndOf(t, q, p, parent) ==
    LET n == t.nodes[p]
        e == t.nodes[q].array[1]
        middle_key == t.nodes[parent].array[2][1]
        t1 == [t EXCEPT
                 !.nodes[p].array = Append(@, IF n.leaf THEN e ELSE <<middle_key, e[2]>>),
                 !.nodes[q].array = Tail(@),
                 !.nodes[parent].array = SetKeyAt(@, 2, t.nodes[q].array[2][1])]
    IN IF n.leaf THEN t1 ELSE Adopt(t1, p, {e[2]})

\* p, entry i of the parent, takes the last entry of its left neighbour q.
MoveLastToFrontOf(t, q, p, parent, i) ==
    LET n == t.nodes[p]
        e == Last(t.nodes[q].array)
        middle_key == t.nodes[parent].array[i][1]
        rest == IF n.leaf THEN n.array ELSE WithMiddleKey(n.array, middle_key)
        t1 == [t EXCEPT !.nodes[p].array = <<e>> \o rest,
                        !.nodes[q].array = Front(@),
                        !.nodes[parent].array = SetKeyAt(@, i, e[1])]
    IN IF n.leaf THEN t1 ELSE Adopt(t1, p, {e[2]})

\* One entry moves from q to p, which is entry i of their parent.
Redistribute(t, q, p, parent, i) ==
    LET t1 == FetchPage(t, parent)
        t2 == IF i = 1 THEN MoveFirstToEndOf(t1, q, p, parent)
                       ELSE MoveLastToFrontOf(t1, q, p, parent, i)
    IN UnpinPages(t2, {p, q, parent})

\* The child next to entry i of a parent: the one before, the one behind the
\* first.
NeighborOf(a, i) == a[IF i = 1 THEN 2 ELSE i - 1][2]

\* c.page has lost an entry and is pinned; after a merge its parent has, and
\* is.
CoalesceOrRedistribute(c) ==
    LET t == c.tree
        p == c.page
        n == t.nodes[p]
        parent == n.parent
        i == ValueIndex(t.nodes[parent].array, p)
        q == NeighborOf(t.nodes[parent].array, i)
        t1 == FetchPage(FetchPage(t, parent), q)
        t2 == IF i = 1 THEN Coalesce(t1, p, q, parent, 2)
                       ELSE Coalesce(t1, q, p, parent, i)
        done(u) == [tree |-> u, page |-> INVALID_PAGE_ID]
    IN IF p = INVALID_PAGE_ID THEN c
       ELSE IF Len(n.array) >= MinSize(n) THEN done(UnpinPages(t, {p}))
       ELSE IF parent = INVALID_PAGE_ID THEN done(AdjustRoot(t, p))
       ELSE IF Len(t.nodes[q].array) + Len(n.array) < MaxSize(n)
            THEN [tree |-> t2, page |-> parent]
            ELSE done(UnpinPages(Redistribute(t1, q, p, parent, i), {parent}))

\* Its recursion, from the leaf p upwards.
Shrunk(t, p) ==
    LET call[n \in 0 .. Levels(t) + 1] ==
            IF n = 0 THEN [tree |-> t, page |-> p]
                     ELSE CoalesceOrRedistribute(call[n - 1])
    IN call[Levels(t) + 1].tree

\* The pages a search leaves behind: its leaf is pinned and unpinned again.
Searched(t, key) ==
    LET p == FindLeafPage(t, key) IN
    IF t.root = INVALID_PAGE_ID THEN t ELSE UnpinPages(FetchPage(t, p), {p})

\* A key that is not there is only looked for.
RemoveKey(t, key) ==
    LET p == FindLeafPage(t, key)
        t1 == [FetchPage(t, p) EXCEPT
                 !.nodes[p].array = RemoveAndDeleteRecord(@, key)]
    IN IF Inserts(t, key) THEN Searched(t, key) ELSE Shrunk(t1, p)
-----------------------------------------------------------------------------
(* Search and scan.                                                        *)

\* The entries from page p on, along the chain of leaves.
ChainFrom(nodes, p) ==
    LET chain[q \in DOMAIN nodes] ==
            IF nodes[q].next = INVALID_PAGE_ID THEN nodes[q].array
            ELSE nodes[q].array \o chain[nodes[q].next]
    IN chain[p]

\* GetValue(key, result): the values found.
SearchKey(t, key) ==
    IF t.root = INVALID_PAGE_ID THEN <<>>
    ELSE LET a == t.nodes[FindLeafPage(t, key)].array IN
         IF Has(a, key) THEN <<a[KeyIndex(a, key)][2]>> ELSE <<>>

\* GetValue(key, result, new_comparator): from key on, along the chain, up to
\* the first key the standby comparator tells apart from key.
ScanKey(t, key) ==
    IF t.root = INVALID_PAGE_ID THEN <<>>
    ELSE LET p == FindLeafPage(t, key)
             a == t.nodes[p].array
             i == KeyIndex(a, key)
             from == IF i = 0 THEN Len(a) ELSE i - 1
             rest == SubSeq(ChainFrom(t.nodes, p), from + 1, Len(ChainFrom(t.nodes, p)))
             stop == SelectInSeq(rest, LAMBDA e : First[e[1]] # First[key])
             hits == IF stop = 0 THEN rest ELSE SubSeq(rest, 1, stop - 1)
         IN [j \in DOMAIN hits |-> hits[j][2]]

\* A scan is on the leaf c.page, which is pinned.  It unpins it and goes on to
\* the next one, unless this is the last one or has a key beyond those wanted.
ScanStep(c, key) ==
    LET n == c.tree.nodes[c.page]
        left == UnpinPages(c.tree, {c.page})
        stops == \E i \in DOMAIN n.array : First[key] < First[n.array[i][1]]
    IN IF c.page = INVALID_PAGE_ID THEN c
       ELSE IF stops \/ n.next = INVALID_PAGE_ID
       THEN [tree |-> left, page |-> INVALID_PAGE_ID]
       ELSE [tree |-> FetchPage(left, n.next), page |-> n.next]

\* The pages a scan from key leaves behind.
Scanned(t, key) ==
    LET N == Cardinality(DOMAIN t.nodes) + 1
        p == FindLeafPage(t, key)
        call[n \in 0 .. N] == IF n = 0 THEN [tree |-> FetchPage(t, p), page |-> p]
                                       ELSE ScanStep(call[n - 1], key)
    IN IF t.root = INVALID_PAGE_ID THEN t ELSE call[N].tree

Leftmost(t) ==
    LET first[p \in DOMAIN t.nodes] ==
            IF t.nodes[p].leaf THEN p ELSE first[t.nodes[p].array[1][2]]
    IN first[t.root]

\* All entries in the order of the chain of leaves.
Entries(t) ==
    IF t.root = INVALID_PAGE_ID THEN <<>>
    ELSE ChainFrom(t.nodes, Leftmost(t))
=============================================================================
