--------------------------- MODULE IndexIterator ----------------------------
(***************************************************************************)
(* IndexIterator on a tree of BPlusTree, which does not change meanwhile:  *)
(* a page the iterator keeps pinned and a place on it.                     *)
(***************************************************************************)
EXTENDS BPlusTree

IteratorAt(t, p, i) == [tree |-> FetchPage(t, p), ptr |-> p, index |-> i]

\* begin() of a tree that is not empty.
BeginFirst(t) == IteratorAt(t, Leftmost(t), 1)

\* Begin(key).  The index is before the first if key is beyond its leaf.
Begin(t, key) ==
    LET p == FindLeafPage(t, key) IN IteratorAt(t, p, KeyIndex(t.nodes[p].array, key))

isEnd(it) == it.ptr = INVALID_PAGE_ID

GetItem(it) == it.tree.nodes[it.ptr].array[it.index]

\* Bug: the leaf it leaves stays pinned.
Advance_pin(it) ==
    LET n == it.tree.nodes[it.ptr] IN
    IF it.index < Len(n.array) THEN [it EXCEPT !.index = @ + 1]
    ELSE IF n.next = INVALID_PAGE_ID
    THEN [tree |-> UnpinPages(it.tree, {it.ptr}), ptr |-> n.next, index |-> 1]
    ELSE IteratorAt(it.tree, n.next, 1)

\* operator++: on to the next leaf behind the last entry of this one.
Advance(it) ==
    LET n == it.tree.nodes[it.ptr]
        left == UnpinPages(it.tree, {it.ptr})
    IN IF it.index < Len(n.array) THEN [it EXCEPT !.index = @ + 1]
       ELSE IF n.next = INVALID_PAGE_ID THEN [tree |-> left, ptr |-> n.next, index |-> 1]
       ELSE IteratorAt(left, n.next, 1)

\* The destructor.
Destroy(it) == IF isEnd(it) THEN it.tree ELSE UnpinPages(it.tree, {it.ptr})

RECURSIVE IteratorsFrom(_)
IteratorsFrom(it) == <<it>> \o IF isEnd(it) THEN <<>> ELSE IteratorsFrom(Advance(it))
-----------------------------------------------------------------------------
\* An IndexIterator from begin() on meets every entry once and in order and
\* reaches the end, after as many entries as size() says; destroyed at any
\* place, the end included, it leaves no pin.  Begin(key) of a key that is
\* there joins it at that key.
IterationIsComplete ==
    IF tree.root = INVALID_PAGE_ID THEN size_ = 0
    ELSE LET its == IteratorsFrom(BeginFirst(tree))
             items == [i \in 1 .. Len(its) - 1 |-> GetItem(its[i])]
         IN /\ Len(items) = size_
            /\ ToSet(items) = {<<k, dict[k]>> : k \in DOMAIN dict}
            /\ \A i \in 1 .. Len(items) - 1 : items[i][1] < items[i + 1][1]
            /\ \A i \in DOMAIN its : Destroy(its[i]) = tree
            /\ \A i \in DOMAIN items : Begin(tree, items[i][1]) = its[i]
=============================================================================
