------------------------------ MODULE PageStore ------------------------------
(***************************************************************************)
(* What the buffer pool promises the index: every page of the tree has a   *)
(* content, that of the last write to it.  There are no frames, no         *)
(* eviction and no dirty flags here, and closing and reopening the index   *)
(* cannot be seen.                                                         *)
(***************************************************************************)
CONSTANTS PageIds, HEADER_PAGE_ID, Data, Zero, Records

VARIABLES store   \* page of the tree, or the header -> content

OnlyHeader == [p \in {HEADER_PAGE_ID} |-> Records]

Init == store = OnlyHeader

New(p) ==
    /\ p \notin DOMAIN store
    /\ store' = [q \in DOMAIN store \cup {p} |-> IF q = p THEN Zero ELSE store[q]]

Write(p, d) ==
    /\ p \in DOMAIN store
    /\ store' = [store EXCEPT ![p] = d]

Delete(p) == store' = [q \in DOMAIN store \ {p} |-> store[q]]

Clear == store' = OnlyHeader

Next ==
    \/ \E p \in PageIds : New(p) \/ Delete(p) \/ \E d \in Data : Write(p, d)
    \/ Clear

Spec == Init /\ [][Next]_store
=============================================================================
