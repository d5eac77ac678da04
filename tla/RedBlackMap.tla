---------------------------- MODULE RedBlackMap -----------------------------
(***************************************************************************)
(* sjtu::map, the red-black tree behind login_pool.  Insertion and removal *)
(* go from the root to a leaf once and restore the colours on their way    *)
(* down, so that nothing is left to repair above.                          *)
(*                                                                         *)
(* A node is named by its key, which it keeps for life: nodes change       *)
(* places, never entries.  It has its own fa pointer, as in the code, so   *)
(* that a rotation that forgets one leaves it stale.  What the code writes *)
(* twice, for the left and for the right, takes the side as a parameter.   *)
(* An access through nullptr has no value: TLC would report it.            *)
(***************************************************************************)
EXTENDS Integers, FiniteSets, SequencesExt

CONSTANT Names   \* the keys, ordered by Compare

Null == 0        \* nullptr
EndNode == -1    \* end_node

ASSUME NamesAssumption == Names \subseteq Int \ {Null, EndNode}

VARIABLES
    mp,       \* [node, root, head, rear, len]
    entries   \* the keys the calls so far should have left

mapVars == <<mp, entries>>

EmptyMap == [node |-> <<>>, root |-> Null, head |-> Null, rear |-> Null, len |-> 0]

Other(side) == IF side = "left" THEN "right" ELSE "left"

Son(t, n, side) == t.node[n].son[side]

Sons(t, n) == {Son(t, n, "left"), Son(t, n, "right")} \ {Null}

\* The side on which key lies below n.
SideOf(key, n) == IF key < n THEN "left" ELSE "right"

IsRed(t, n) == n # Null /\ t.node[n].color = "RED"

HasRedSon(t, n) == \E m \in Sons(t, n) : IsRed(t, m)

HasTwoSons(t, n) == Null \notin {Son(t, n, "left"), Son(t, n, "right")}

Paint(t, n, color) == [t EXCEPT !.node[n].color = color]

SetSon(t, n, side, m) == [t EXCEPT !.node[n].son[side] = m]

SetFa(t, n, f) == IF n = Null THEN t ELSE [t EXCEPT !.node[n].fa = f]

RECURSIVE Outermost(_, _, _)
Outermost(t, n, side) ==
    IF Son(t, n, side) = Null THEN n ELSE Outermost(t, Son(t, n, side), side)

\* front() and back(), which insert and remove store as head and rear.
WithEnds(t) == [t EXCEPT !.head = Outermost(t, t.root, "left"),
                         !.rear = Outermost(t, t.root, "right")]

RECURSIVE FindFrom(_, _, _)
FindFrom(t, n, key) ==
    IF n \in {Null, key} THEN n ELSE FindFrom(t, Son(t, n, SideOf(key, n)), key)

find(t, key) == FindFrom(t, t.root, key)
-----------------------------------------------------------------------------
(* Rotations.                                                              *)

\* The father of gp, if it has one, takes m for its son instead.
TakePlace(t, gp, m) ==
    LET f == t.node[gp].fa
        side == IF Son(t, f, "left") = gp THEN "left" ELSE "right"
    IN SetFa(IF f = Null THEN t ELSE SetSon(t, f, side, m), m, f)

\* n gets m as a son on that side, if there is an m.
Hang(t, n, side, m) == SetFa(SetSon(t, n, side, m), m, n)

RECURSIVE Topmost(_, _)
Topmost(t, n) == IF t.node[n].fa = Null THEN n ELSE Topmost(t, t.node[n].fa)

Rotated(t, gp, top) ==
    LET u == Paint(Paint(t, gp, "RED"), top, "BLACK") IN
    [u EXCEPT !.root = Topmost(u, u.root)]

\* LL for "left", RR for "right": the son on that side comes up.
LL(t, gp, side) ==
    LET p == Son(t, gp, side)
        u == Hang(TakePlace(t, gp, p), gp, side, Son(t, p, Other(side)))
    IN Rotated(Hang(u, p, Other(side), gp), gp, p)

\* Bug: the subtree left of the one that comes up is forgotten.
LR_lost(t, gp, side) ==
    LET p == Son(t, gp, side)
        n == Son(t, p, Other(side))
        u == Hang(TakePlace(t, gp, n), gp, side, Son(t, n, Other(side)))
        v == SetSon(u, p, Other(side), Null)
    IN Rotated(Hang(Hang(v, n, side, p), n, Other(side), gp), gp, n)

\* LR for "left", RL for "right": that son's inner son comes up.
LR(t, gp, side) ==
    LET p == Son(t, gp, side)
        n == Son(t, p, Other(side))
        u == Hang(TakePlace(t, gp, n), gp, side, Son(t, n, Other(side)))
        v == Hang(u, p, Other(side), Son(t, n, side))
    IN Rotated(Hang(Hang(v, n, side, p), n, Other(side), gp), gp, n)
-----------------------------------------------------------------------------
(* Insertion.                                                              *)

\* Bug: an inner grandson is brought up as if it were an outer one.
insert_adjust_outer(t, gp, p, n) ==
    LET side == IF Son(t, gp, "left") = p THEN "left" ELSE "right" IN
    IF ~IsRed(t, p) THEN t
    ELSE IF p = t.root THEN Paint(t, p, "BLACK")
    ELSE LL(t, gp, side)

\* n has become red; gp and p are the two above it.
insert_adjust(t, gp, p, n) ==
    LET side == IF Son(t, gp, "left") = p THEN "left" ELSE "right" IN
    IF ~IsRed(t, p) THEN t
    ELSE IF p = t.root THEN Paint(t, p, "BLACK")
    ELSE IF Son(t, p, side) = n THEN LL(t, gp, side)
    ELSE LR(t, gp, side)

FreshNode(key, color, f) ==
    key :> [son |-> [left |-> Null, right |-> Null], fa |-> f, color |-> color]

PaintSons(t, n, color, sons) ==
    Paint(Paint(Paint(t, n, color), Son(t, n, "left"), sons), Son(t, n, "right"), sons)

\* The loop of insert.  gp may be out of date after a rotation; the colours
\* then are such that it is not used before it is right again.
RECURSIVE InsertBelow(_, _, _, _, _)
InsertBelow(t, gp, p, n, key) ==
    IF n # Null
    THEN LET split == HasTwoSons(t, n) /\ \A m \in Sons(t, n) : IsRed(t, m)
             u == IF split
                  THEN insert_adjust(PaintSons(t, n, "RED", "BLACK"), gp, p, n)
                  ELSE t
         IN InsertBelow(u, p, n, Son(u, n, SideOf(key, n)), key)
    ELSE LET u == [t EXCEPT !.node = FreshNode(key, "RED", p) @@ @, !.len = @ + 1]
             v == insert_adjust(SetSon(u, p, SideOf(key, p), key), gp, p, key)
         IN WithEnds(Paint(v, v.root, "BLACK"))

insert(t, key) ==
    IF t.root = Null
    THEN [node |-> FreshNode(key, "BLACK", Null), root |-> key, head |-> key,
          rear |-> key, len |-> t.len + 1]
    ELSE InsertBelow(t, t.root, t.root, t.root, key)
-----------------------------------------------------------------------------
(* Removal.  A cursor [t, p, n, b] is the tree and the locals parent, t    *)
(* and t2 of remove: the node reached, its father and its brother.         *)

\* Case 1: no red son at n, which has to become red.  Its father gives its
\* colour, or a red son of the brother comes up in the father's place.
Borrow(w) ==
    LET side == IF Son(w.t, w.p, "left") = w.b THEN "left" ELSE "right"
        outer == Son(w.t, w.b, side)
        up == IF IsRed(w.t, outer) THEN LL(w.t, w.p, side) ELSE LR(w.t, w.p, side)
        red == Paint(up, w.n, "RED")
        painted == IF IsRed(w.t, outer)
                   THEN Paint(Paint(Paint(red, w.b, "RED"), Son(red, w.b, side), "BLACK"),
                              w.p, "BLACK")
                   ELSE Paint(Paint(Paint(red, red.node[w.p].fa, "RED"), w.p, "BLACK"),
                              w.b, "BLACK")
    IN IF ~HasRedSon(w.t, w.b)
       THEN [w EXCEPT !.t = Paint(Paint(Paint(w.t, w.p, "BLACK"), w.n, "RED"), w.b, "RED")]
       ELSE [w EXCEPT !.t = painted, !.b = Son(painted, w.p, side)]

\* Case 2.1: n is the one to be removed and has a red son, which comes up,
\* unless it is the right one of two: then the replacement comes from there.
BringUp(w) ==
    LET side == IF Son(w.t, w.n, "left") # Null THEN "left" ELSE "right"
        up == LL(w.t, w.n, side)
        f == up.node[w.n].fa
        u == Paint(Paint(up, w.n, "RED"), f, "BLACK")
    IN IF HasTwoSons(w.t, w.n) /\ IsRed(w.t, Son(w.t, w.n, "right"))
       THEN w
       ELSE [t |-> u, p |-> f, n |-> w.n, b |-> Son(u, f, side)]

\* One step down towards del.
Down(w, del) ==
    LET side == SideOf(del, w.n) IN
    [t |-> w.t, p |-> w.n, n |-> Son(w.t, w.n, side), b |-> Son(w.t, w.n, Other(side))]

\* Make n red, or go down and make the next one red.
RECURSIVE remove_adjust(_, _)
remove_adjust(w, del) ==
    LET t == w.t
        alike == /\ HasTwoSons(t, w.n)
                 /\ IsRed(t, Son(t, w.n, "left")) = IsRed(t, Son(t, w.n, "right"))
        d == Down(w, del)
        turned == LL(t, d.p, Other(SideOf(del, w.n)))
        u == Paint(Paint(turned, d.p, "RED"), d.b, "BLACK")
        side == IF Son(u, d.b, "left") = d.p THEN "left" ELSE "right"
    IN IF IsRed(t, w.n) THEN w
       ELSE IF w.n = t.root /\ alike THEN [w EXCEPT !.t = PaintSons(t, w.n, "RED", "BLACK")]
       ELSE IF ~HasRedSon(t, w.n) THEN Borrow(w)
       ELSE IF w.n = del THEN BringUp(w)
       ELSE IF t.node[d.n].color = "RED" THEN d
       ELSE remove_adjust([t |-> u, p |-> d.b, n |-> d.p, b |-> Son(u, d.b, Other(side))], del)

\* n, in the middle of the tree, and the smallest node on its right change
\* places and colours; removal goes on below the replacement.
Replace(w) ==
    LET t == w.t
        rep == Outermost(t, Son(t, w.n, "right"), "left")
        f == t.node[rep].fa
        at == TakePlace(Paint(Paint(t, w.n, t.node[rep].color), rep, t.node[w.n].color), w.n, rep)
        u == IF f = w.n THEN Hang(at, rep, "right", w.n)
             ELSE Hang(Hang(at, f, "left", w.n), rep, "right", Son(t, w.n, "right"))
        v == Hang(u, rep, "left", Son(t, w.n, "left"))
        x == Hang(SetSon(v, w.n, "left", Null), w.n, "right", Son(t, rep, "right"))
        y == [x EXCEPT !.root = IF @ = w.n THEN rep ELSE @]
    IN [t |-> y, p |-> rep, n |-> Son(y, rep, "right"), b |-> Son(y, rep, "left")]

\* n has at most a right son, which takes its place; its fa stays as it was.
Unlink(w) ==
    LET side == IF Son(w.t, w.p, "left") = w.n THEN "left" ELSE "right"
        u == SetSon(w.t, w.p, side, Son(w.t, w.n, "right"))
        v == [u EXCEPT !.len = @ - 1,
                       !.node = [m \in DOMAIN u.node \ {w.n} |-> u.node[m]]]
    IN WithEnds(Paint(v, v.root, "BLACK"))

RECURSIVE RemoveBelow(_, _)
RemoveBelow(w, del) ==
    LET a == remove_adjust(w, del) IN
    IF a.n # del THEN RemoveBelow(Down(a, del), del)
    ELSE IF HasTwoSons(a.t, a.n) THEN RemoveBelow(Replace(a), del)
    ELSE Unlink(a)

remove(t, del) ==
    IF t.root = Null THEN t
    ELSE IF t.root = del /\ Sons(t, del) = {} THEN [EmptyMap EXCEPT !.len = t.len - 1]
    ELSE RemoveBelow([t |-> t, p |-> t.root, n |-> t.root, b |-> t.root], del)
-----------------------------------------------------------------------------
(* Iterators.                                                              *)

RECURSIVE Climb(_, _, _)
Climb(t, n, side) ==
    LET f == t.node[n].fa IN
    IF f # Null /\ Son(t, f, side) = n THEN Climb(t, f, side) ELSE f

\* To the neighbour on that side: down if there is a son, up otherwise.
Step(t, n, side) ==
    IF Son(t, n, side) # Null THEN Outermost(t, Son(t, n, side), Other(side))
    ELSE Climb(t, n, side)

\* ++ and --.
Increment(t, n) == IF n = t.rear THEN EndNode ELSE Step(t, n, "right")
Decrement(t, n) == IF n = EndNode THEN Outermost(t, t.root, "right") ELSE Step(t, n, "left")

begin(t) == IF t.root = Null THEN EndNode ELSE t.head
-----------------------------------------------------------------------------
(* The calls the managers make.                                            *)

MapInit == mp = EmptyMap /\ entries = {}

\* login: count is 0, so the entry is new.
InsertName(k) ==
    /\ find(mp, k) = Null
    /\ mp' = insert(mp, k)
    /\ entries' = entries \cup {k}

\* logout: count is 1, and erase(find(k)).
EraseName(k) ==
    /\ find(mp, k) # Null
    /\ mp' = remove(mp, k)
    /\ entries' = entries \ {k}

\* clean and exit.
ClearNames ==
    /\ mp' = EmptyMap
    /\ entries' = {}

MapNext ==
    \/ \E k \in Names : InsertName(k) \/ EraseName(k)
    \/ ClearNames

MapSpec == MapInit /\ [][MapNext]_mapVars
-----------------------------------------------------------------------------
RECURSIVE WalkFrom(_, _)
WalkFrom(t, n) == IF n = EndNode THEN <<>> ELSE <<n>> \o WalkFrom(t, Increment(t, n))

RECURSIVE WalkBack(_, _)
WalkBack(t, n) ==
    IF n = t.head THEN <<n>> ELSE Append(WalkBack(t, Decrement(t, n)), n)

\* Every order of logins and logouts leaves exactly the users who are logged
\* in where find looks for them, and as many of them as size() says: no
\* rotation, exchange or removal loses a subtree or puts it on a wrong side.
\* The permission checks of all commands rest on it.  The iterators, which go
\* along fa, head and rear, meet every entry once and in order, forwards from
\* begin() and backwards from end().
PoolHasItsEntries ==
    LET all == WalkFrom(mp, begin(mp)) IN
    /\ \A k \in Names : find(mp, k) = IF k \in entries THEN k ELSE Null
    /\ mp.len = Cardinality(entries)
    /\ ToSet(all) = entries
    /\ \A i \in 1 .. Len(all) - 1 : all[i] < all[i + 1]
    /\ entries # {} => WalkBack(mp, Decrement(mp, EndNode)) = all

RECURSIVE BlackHeights(_, _)
BlackHeights(t, n) ==
    IF n = Null THEN {0}
    ELSE {h + IF IsRed(t, n) THEN 0 ELSE 1 :
            h \in BlackHeights(t, Son(t, n, "left")) \cup BlackHeights(t, Son(t, n, "right"))}

\* The tree is a red-black tree again after every call, although insert and
\* remove look at it from above only: a black root, no red node below a red
\* one, as many black nodes on every path.
MapIsRedBlack ==
    /\ ~IsRed(mp, mp.root)
    /\ \A n \in DOMAIN mp.node : IsRed(mp, n) => ~HasRedSon(mp, n)
    /\ Cardinality(BlackHeights(mp, mp.root)) = 1
=============================================================================
