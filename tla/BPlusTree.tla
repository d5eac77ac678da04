----------------------------- MODULE BPlusTree ------------------------------
(***************************************************************************)
(* BPlusTreeNTS as an index: one command runs at a time, so InsertEntry,   *)
(* DeleteEntry, a search and a scan are one step each on the pages of      *)
(* TreePages.  SearchKey and ScanKey are what the last two return.         *)
(***************************************************************************)
EXTENDS TreePages

VARIABLES
    tree,   \* the pages
    size_,
    dict    \* what the calls so far should have left, by the contract in Index

vars == <<tree, size_, dict>>

Contract == INSTANCE Index
-----------------------------------------------------------------------------
Init ==
    /\ tree = EmptyTree
    /\ size_ = 0
    /\ dict = Contract!EmptyIndex

InsertEntry(key, value) ==
    /\ tree' = Insert(tree, key, value)
    /\ size_' = size_ + IF Inserts(tree, key) THEN 1 ELSE 0
    /\ dict' = Contract!InsertEntry(dict, key, value)

DeleteEntry(key) ==
    /\ tree' = RemoveKey(tree, key)
    /\ size_' = size_ - IF Inserts(tree, key) THEN 0 ELSE 1
    /\ dict' = Contract!DeleteEntry(dict, key)

Search(key) == tree' = Searched(tree, key) /\ UNCHANGED <<size_, dict>>

Scan(key) == tree' = Scanned(tree, key) /\ UNCHANGED <<size_, dict>>

\* The index is closed and opened again: the root comes from the header page.
Reopen ==
    /\ tree' = [tree EXCEPT !.root = tree.header]
    /\ UNCHANGED <<size_, dict>>

Next ==
    \/ \E k \in Keys : \E v \in Values[k] : InsertEntry(k, v)
    \/ \E k \in Keys : DeleteEntry(k) \/ Search(k) \/ Scan(k)
    \/ Reopen

Spec == Init /\ [][Next]_vars
-----------------------------------------------------------------------------
\* The tree is what it is declared to be.
TreeTypeOK ==
    /\ DOMAIN tree.nodes \subseteq Nat \ {0}
    /\ {tree.root, tree.header} \subseteq DOMAIN tree.nodes \cup {INVALID_PAGE_ID}
    /\ size_ \in Nat
    /\ \A p \in DOMAIN tree.nodes :
          {tree.nodes[p].parent, tree.nodes[p].next}
             \subseteq DOMAIN tree.nodes \cup {INVALID_PAGE_ID}

\* Insert and Remove keep every page but the root at least half full, the
\* root with two children or an entry, and none full, and give every page but
\* the root the parent that has it as a child: CoalesceOrRedistribute and
\* InsertIntoParent go up along these pointers.  They, searches and scans
\* give back every pin: a page left pinned would never leave the pool, and
\* NewNode fails once all frames are pinned.
PagesAreLinked ==
    /\ TreeTypeOK
    /\ tree.pins = EmptyBag
    /\ \A p \in DOMAIN tree.nodes :
          LET n == tree.nodes[p] IN
          /\ Len(n.array) < MaxSize(n)
          /\ IF p = tree.root
             THEN /\ n.parent = INVALID_PAGE_ID
                  /\ Len(n.array) >= IF n.leaf THEN 1 ELSE 2
             ELSE /\ n.parent \in DOMAIN tree.nodes
                  /\ ValueIndex(tree.nodes[n.parent].array, p) # 0
                  /\ Len(n.array) >= MinSize(n)

\* SearchKey answers what the contract says, whatever splits and merges came
\* before and through closing and reopening: the separators lead to the leaf
\* that has the key, with the value stored last.
SearchFindsEverything ==
    \A k \in Keys :
        SearchKey(tree, k) = IF k \in DOMAIN dict THEN <<dict[k]>> ELSE <<>>

\* The values a scan from key should return: those of the keys not smaller
\* that the standby comparator takes for equal, in ascending order.
ScanReference(key) ==
    LET wanted == {k \in DOMAIN dict : k >= key /\ First[k] = First[key]} IN
    [i \in 1 .. Cardinality(wanted) |->
        dict[CHOOSE k \in wanted : Cardinality({j \in wanted : j <= k}) = i]]

\* ScanKey, which follows the chain of leaves, returns what it should; the
\* waiting list and the stations of a train are read this way.
ScanIsComplete == \A k \in Keys : ScanKey(tree, k) = ScanReference(k)
=============================================================================
