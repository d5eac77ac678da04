--------------------------- MODULE BPlusTreeProofs ---------------------------
(***************************************************************************)
(* The B+ tree, for any keys, values and page sizes: searches and scans    *)
(* return what the contract says, and the pages stay linked, at least half *)
(* full and unpinned.                                                      *)
(***************************************************************************)
EXTENDS BPlusTree, TreeShapeProofs

Fields == {"nodes", "root", "header", "pins"}
PageFields == {"leaf", "parent", "next", "array"}

\* A tree and its pages have the fields they should have.
IsTree(t) ==
    /\ DOMAIN t = Fields
    /\ \A x \in DOMAIN t.nodes : DOMAIN t.nodes[x] = PageFields

\* The functions a tree is taken apart into.
Arr(t) == [x \in DOMAIN t.nodes |-> t.nodes[x].array]
Par(t) == [x \in DOMAIN t.nodes |-> t.nodes[x].parent]
Nxt(t) == [x \in DOMAIN t.nodes |-> t.nodes[x].next]

\* u is t with another array in page p.
ArrayChanged(t, p, b, u) ==
    /\ IsTree(u) /\ u.root = t.root /\ u.header = t.header
    /\ DOMAIN u.nodes = DOMAIN t.nodes /\ u.nodes[p].array = b
    /\ \A x \in DOMAIN t.nodes : /\ x # p => u.nodes[x].array = t.nodes[x].array
                                 /\ u.nodes[x].leaf = t.nodes[x].leaf
                                 /\ u.nodes[x].parent = t.nodes[x].parent
                                 /\ u.nodes[x].next = t.nodes[x].next

\* Assigning to the array of a page changes nothing else.
LEMMA ArrayChange ==
    ASSUME NEW t, IsTree(t), NEW p \in DOMAIN t.nodes, NEW b, NEW u,
           u = [t EXCEPT !.nodes[p].array = b]
    PROVE  ArrayChanged(t, p, b, u) /\ u.pins = t.pins
BY DEF IsTree, Fields, PageFields, ArrayChanged

\* FetchPage only pins.
LEMMA FetchEffect ==
    ASSUME NEW t, IsTree(t), NEW p, NEW u, u = FetchPage(t, p)
    PROVE  /\ IsTree(u) /\ u.root = t.root /\ u.header = t.header /\ u.nodes = t.nodes
           /\ u.pins = t.pins (+) SetToBag({p})
BY DEF IsTree, Fields, FetchPage

\* UnpinPages only unpins.
LEMMA UnpinEffect ==
    ASSUME NEW t, IsTree(t), NEW P, NEW u, u = UnpinPages(t, P)
    PROVE  /\ IsTree(u) /\ u.root = t.root /\ u.header = t.header /\ u.nodes = t.nodes
           /\ u.pins = t.pins (-) SetToBag(P)
BY DEF IsTree, Fields, UnpinPages

NodeAdded(t, q, n, u) ==
    /\ IsTree(u) /\ u.root = t.root /\ u.header = t.header
    /\ u.pins = t.pins (+) SetToBag({q})
    /\ DOMAIN u.nodes = DOMAIN t.nodes \cup {q} /\ u.nodes[q] = n
    /\ \A x \in DOMAIN t.nodes : u.nodes[x] = t.nodes[x]

\* NewNode adds a page and pins it.
LEMMA NewNodeEffect ==
    ASSUME NEW t, IsTree(t), NEW q, q \notin DOMAIN t.nodes, NEW n, DOMAIN n = PageFields,
           NEW u, u = NewNode(t, q, n)
    PROVE  NodeAdded(t, q, n, u)
<1>1. PICK v : v = [t EXCEPT !.nodes = [x \in DOMAIN @ \cup {q} |->
                                           IF x = q THEN n ELSE t.nodes[x]]]
  OBVIOUS
<1>2. /\ DOMAIN v = Fields /\ v.root = t.root /\ v.header = t.header /\ v.pins = t.pins
      /\ v.nodes = [x \in DOMAIN t.nodes \cup {q} |-> IF x = q THEN n ELSE t.nodes[x]]
  BY <1>1 DEF IsTree, Fields
<1>3. /\ DOMAIN v.nodes = DOMAIN t.nodes \cup {q} /\ v.nodes[q] = n
      /\ \A x \in DOMAIN t.nodes : v.nodes[x] = t.nodes[x]
  BY <1>2
<1>4. IsTree(v)
  BY <1>2, <1>3 DEF IsTree
<1>5. u = FetchPage(v, q)
  BY <1>1 DEF NewNode
<1> QED BY <1>2, <1>3, <1>4, <1>5, FetchEffect DEF NodeAdded

\* Drop takes a page away.
LEMMA DropEffect ==
    ASSUME NEW t, IsTree(t), NEW q, NEW u, u = Drop(t, q)
    PROVE  /\ IsTree(u) /\ u.root = t.root /\ u.header = t.header /\ u.pins = t.pins
           /\ DOMAIN u.nodes = DOMAIN t.nodes \ {q}
           /\ \A x \in DOMAIN t.nodes : x # q => u.nodes[x] = t.nodes[x]
BY DEF IsTree, Fields, Drop

\* UpdateRootPageId sets the root in memory and in the header page.
LEMMA RootEffect ==
    ASSUME NEW t, IsTree(t), NEW p, NEW u, u = UpdateRootPageId(t, p)
    PROVE  IsTree(u) /\ u.root = p /\ u.header = p /\ u.pins = t.pins /\ u.nodes = t.nodes
BY DEF IsTree, Fields, UpdateRootPageId

\* Adopt sets the parent of some pages.
LEMMA AdoptEffect ==
    ASSUME NEW t, IsTree(t), NEW p, NEW C, NEW u, u = Adopt(t, p, C)
    PROVE  /\ IsTree(u) /\ u.root = t.root /\ u.header = t.header /\ u.pins = t.pins
           /\ DOMAIN u.nodes = DOMAIN t.nodes
           /\ \A x \in DOMAIN t.nodes :
                 /\ u.nodes[x].parent = IF x \in C THEN p ELSE t.nodes[x].parent
                 /\ u.nodes[x].leaf = t.nodes[x].leaf /\ u.nodes[x].array = t.nodes[x].array
                 /\ u.nodes[x].next = t.nodes[x].next
BY DEF IsTree, Fields, PageFields, Adopt

\* A new page has an ID that is not in use.
LEMMA NewId ==
    ASSUME NEW t, IsFiniteSet(DOMAIN t.nodes), DOMAIN t.nodes \subseteq Nat, NEW q, q = NewPageId(t)
    PROVE  q \in Nat /\ q # 0 /\ q \notin DOMAIN t.nodes
<1> DEFINE D == DOMAIN t.nodes
           C == Cardinality(D)
           T == (1 .. C + 1) \ D
<1>1. C \in Nat
  BY FS_CardinalityType
<1>2. IsFiniteSet(1 .. C + 1) /\ Cardinality(1 .. C + 1) = C + 1
  BY <1>1, FS_Interval
<1>3. T # {}
  <2>1. SUFFICES ASSUME T = {} PROVE FALSE
    OBVIOUS
  <2>2. (1 .. C + 1) \subseteq D
    BY <2>1
  <2>3. C + 1 <= C
    BY <1>2, <2>2, FS_Subset
  <2> QED BY <1>1, <2>3
<1>4. T \in SUBSET Nat /\ 0 \notin T
  BY <1>1
<1>5. q = Min(T)
  BY DEF NewPageId
<1>6. q \in T
  <2> HIDE DEF T
  <2> QED BY <1>3, <1>4, <1>5, MinLemma
<1> QED BY <1>4, <1>6

\* ValueIndex finds the entry of a child.
LEMMA ValueIndexLemma ==
    ASSUME NEW a \in Seq(Entry), NEW p, NEW j \in 1 .. Len(a), a[j][2] = p,
           NEW n, n = ValueIndex(a, p)
    PROVE  n \in 1 .. Len(a) /\ a[n][2] = p
<1> DEFINE T == {i \in DOMAIN a : a[i][2] = p}
<1>1. Len(a) \in Nat /\ DOMAIN a = 1 .. Len(a)
  OBVIOUS
<1>2. T # {} /\ T \in SUBSET Nat
  BY <1>1
<1>3. n = Min(T)
  BY <1>2 DEF ValueIndex
<1>4. n \in T
  <2> HIDE DEF T
  <2> QED BY <1>2, <1>3, MinLemma
<1> QED BY <1>1, <1>4

\* The page sizes of a level.
Full(l) == IF l = 0 THEN leaf_max_size ELSE internal_max_size
Half(l) == Full(l) \div 2

\* Half of a full page is enough for a page of its kind, and two halves are
\* not more than a full one.
LEMMA Halves ==
    ASSUME NEW l \in Nat
    PROVE  /\ Full(l) \in Nat /\ Half(l) \in Nat /\ Half(l) >= 1 /\ (l > 0 => Half(l) >= 2)
           /\ 2 * Half(l) <= Full(l) /\ Full(l) <= 2 * Half(l) + 1
BY TreeAssumption DEF Full, Half

\* A tree whose pages are linked as the invariants of TreeShapeProofs say.
Well(t, part, level, d) ==
    /\ IsTree(t)
    /\ Shape(DOMAIN t.nodes, Arr(t), Par(t), t.root, part, level, d)
    /\ Chain(DOMAIN t.nodes, Nxt(t), part, level)
    /\ \A x \in DOMAIN t.nodes : t.nodes[x].leaf <=> level[x] = 0
    /\ t.header = t.root

\* What Well says about the tree as a whole.
LEMMA WellFacts ==
    ASSUME NEW t, NEW part, NEW level, NEW d, Well(t, part, level, d)
    PROVE  /\ IsTree(t) /\ IsFiniteSet(DOMAIN t.nodes) /\ DOMAIN t.nodes \subseteq Nat \ {0}
           /\ t.root \in DOMAIN t.nodes /\ t.header = t.root
           /\ t.nodes[t.root].parent = INVALID_PAGE_ID
<1> DEFINE D == DOMAIN t.nodes
<1>1. /\ IsTree(t) /\ IsFiniteSet(D) /\ D \subseteq Nat \ {0} /\ t.root \in D /\ t.header = t.root
      /\ Arr(t) \in [D -> Seq(Entry)] /\ Par(t) \in [D -> Int] /\ level \in [D -> Nat]
      /\ Par(t)[t.root] = INVALID_PAGE_ID
      /\ \A x \in D : t.nodes[x].leaf <=> level[x] = 0
  BY DEF Well, Shape, Types, Rooted
<1>3. ASSUME NEW x \in D
      PROVE  Arr(t)[x] = t.nodes[x].array /\ Par(t)[x] = t.nodes[x].parent /\ Nxt(t)[x] = t.nodes[x].next
  BY DEF Arr, Par, Nxt
<1> QED BY <1>1, <1>3

\* What Well says about a page.
LEMMA PageFacts ==
    ASSUME NEW t, NEW part, NEW level, NEW d, Well(t, part, level, d), NEW x \in DOMAIN t.nodes
    PROVE  /\ t.nodes[x].array \in Seq(Entry) /\ Len(t.nodes[x].array) \in Nat
           /\ t.nodes[x].parent \in Int /\ t.nodes[x].next \in Int
           /\ level[x] \in Nat /\ (t.nodes[x].leaf <=> level[x] = 0)
           /\ MaxSize(t.nodes[x]) = Full(level[x]) /\ MinSize(t.nodes[x]) = Half(level[x])
           /\ x # t.root => t.nodes[x].parent \in DOMAIN t.nodes
<1> DEFINE D == DOMAIN t.nodes
<1>1. /\ IsTree(t) /\ IsFiniteSet(D) /\ D \subseteq Nat \ {0} /\ t.root \in D /\ t.header = t.root
      /\ Arr(t) \in [D -> Seq(Entry)] /\ Par(t) \in [D -> Int] /\ level \in [D -> Nat]
      /\ Par(t)[t.root] = INVALID_PAGE_ID
      /\ \A y \in D : t.nodes[y].leaf <=> level[y] = 0
  BY DEF Well, Shape, Types, Rooted
<1>2. Nxt(t) \in [D -> Int] /\ \A y \in D : y # t.root => Par(t)[y] \in D
  BY DEF Well, Shape, ChildrenOK, Chain
<1>3. Arr(t)[x] = t.nodes[x].array /\ Par(t)[x] = t.nodes[x].parent /\ Nxt(t)[x] = t.nodes[x].next
  BY DEF Arr, Par, Nxt
<1>4. /\ t.nodes[x].array \in Seq(Entry) /\ Len(t.nodes[x].array) \in Nat
      /\ t.nodes[x].parent \in Int /\ t.nodes[x].next \in Int /\ level[x] \in Nat
      /\ x # t.root => t.nodes[x].parent \in D
  <2>1. Arr(t)[x] \in Seq(Entry) /\ Par(t)[x] \in Int /\ Nxt(t)[x] \in Int /\ level[x] \in Nat
    BY <1>1, <1>2
  <2> QED BY <1>2, <1>3, <2>1
<1>5. MaxSize(t.nodes[x]) = Full(level[x]) /\ MinSize(t.nodes[x]) = Half(level[x])
  BY <1>1 DEF MaxSize, MinSize, Full, Half
<1> QED BY <1>1, <1>4, <1>5

\* u is t with p split, q being the right half.
SplitOf(t, p, q, u) ==
    /\ IsTree(u) /\ u.root = t.root /\ u.header = t.header
    /\ u.pins = t.pins (+) SetToBag({q})
    /\ DOMAIN u.nodes = DOMAIN t.nodes \cup {q}
    /\ u.nodes[q].leaf = t.nodes[p].leaf /\ u.nodes[q].parent = t.nodes[p].parent
    /\ u.nodes[q].next = t.nodes[p].next /\ u.nodes[q].array = MovedHalf(t.nodes[p])
    /\ u.nodes[p].array = KeptHalf(t.nodes[p])
    /\ \A x \in DOMAIN t.nodes :
          /\ u.nodes[x].leaf = t.nodes[x].leaf
          /\ x # p => u.nodes[x].array = t.nodes[x].array
          /\ u.nodes[x].next = IF x = p /\ t.nodes[p].leaf THEN q ELSE t.nodes[x].next
          /\ u.nodes[x].parent =
                IF ~t.nodes[p].leaf /\ x \in Children(MovedHalf(t.nodes[p])) THEN q
                                                                     ELSE t.nodes[x].parent

\* What Split does to the pages, field by field.
LEMMA SplitEffect ==
    ASSUME NEW t, IsTree(t), NEW p \in DOMAIN t.nodes, NEW q, q = NewPageId(t),
           q \notin DOMAIN t.nodes,
           ~t.nodes[p].leaf => q \notin Children(MovedHalf(t.nodes[p])), NEW u, u = Split(t, p)
    PROVE  SplitOf(t, p, q, u)
<1>1. PICK n : n = t.nodes[p]
  OBVIOUS
<1>2. PICK h : h = [n EXCEPT !.array = KeptHalf(n), !.next = IF n.leaf THEN q ELSE @]
  OBVIOUS
<1>3. PICK g : g = [n EXCEPT !.array = MovedHalf(n)]
  OBVIOUS
<1>4. /\ DOMAIN h = PageFields /\ h.leaf = n.leaf /\ h.parent = n.parent /\ h.array = KeptHalf(n)
      /\ h.next = IF n.leaf THEN q ELSE n.next
  BY <1>1, <1>2 DEF IsTree, PageFields
<1>5. /\ DOMAIN g = PageFields /\ g.leaf = n.leaf /\ g.parent = n.parent /\ g.array = MovedHalf(n)
      /\ g.next = n.next
  BY <1>1, <1>3 DEF IsTree, PageFields
<1>6. PICK t0 : t0 = [t EXCEPT !.nodes[p] = h]
  OBVIOUS
<1>7. /\ IsTree(t0) /\ t0.root = t.root /\ t0.header = t.header /\ t0.pins = t.pins
      /\ DOMAIN t0.nodes = DOMAIN t.nodes /\ t0.nodes[p] = h
      /\ \A x \in DOMAIN t.nodes : x # p => t0.nodes[x] = t.nodes[x]
  BY <1>4, <1>6 DEF IsTree, Fields
<1>8. PICK t1 : t1 = NewNode(t0, q, g)
  OBVIOUS
<1>9. /\ IsTree(t1) /\ t1.root = t.root /\ t1.header = t.header
      /\ t1.pins = t.pins (+) SetToBag({q})
      /\ DOMAIN t1.nodes = DOMAIN t.nodes \cup {q} /\ t1.nodes[q] = g /\ t1.nodes[p] = h
      /\ \A x \in DOMAIN t.nodes : x # p => t1.nodes[x] = t.nodes[x]
  <2>1. /\ IsTree(t1) /\ t1.root = t0.root /\ t1.header = t0.header
        /\ t1.pins = t0.pins (+) SetToBag({q})
        /\ DOMAIN t1.nodes = DOMAIN t0.nodes \cup {q} /\ t1.nodes[q] = g
        /\ \A x \in DOMAIN t0.nodes : t1.nodes[x] = t0.nodes[x]
    <3>1. IsTree(t0) /\ q \notin DOMAIN t0.nodes /\ DOMAIN g = PageFields
      BY <1>5, <1>7
    <3>2. NodeAdded(t0, q, g, t1)
      BY <1>8, <3>1, NewNodeEffect
    <3> QED BY <3>2 DEF NodeAdded
  <2> QED BY <1>7, <2>1
<1>10. u = IF n.leaf THEN t1 ELSE Adopt(t1, q, Children(MovedHalf(n)))
  BY <1>1, <1>2, <1>3, <1>6, <1>8 DEF Split
<1>11. CASE n.leaf
  <2>1. u = t1
    BY <1>10, <1>11
  <2> QED BY <1>1, <1>4, <1>5, <1>9, <1>11, <2>1 DEF SplitOf
<1>12. CASE ~n.leaf
  <2>1. u = Adopt(t1, q, Children(MovedHalf(n)))
    BY <1>10, <1>12
  <2>2. PICK C : C = Children(MovedHalf(n))
    OBVIOUS
  <2>3. /\ IsTree(u) /\ u.root = t1.root /\ u.header = t1.header /\ u.pins = t1.pins
        /\ DOMAIN u.nodes = DOMAIN t1.nodes
        /\ \A x \in DOMAIN t1.nodes :
              /\ u.nodes[x].parent = IF x \in C THEN q ELSE t1.nodes[x].parent
              /\ u.nodes[x].leaf = t1.nodes[x].leaf /\ u.nodes[x].array = t1.nodes[x].array
              /\ u.nodes[x].next = t1.nodes[x].next
    BY <1>9, <2>1, <2>2, AdoptEffect
  <2>4. q \notin C
    BY <1>1, <1>12, <2>2
  <2> QED BY <1>1, <1>4, <1>5, <1>9, <1>12, <2>2, <2>3, <2>4 DEF SplitOf
<1> QED BY <1>11, <1>12

\* The halves of an array, of an inner page unless l = 0.
Into(a, m, l, b, c) ==
    /\ b \in Seq(Entry) /\ c \in Seq(Entry) /\ CutInto(a, b, c, m, l)
    /\ Len(b) = m /\ Len(c) = Len(a) - m /\ c[1][1] = a[m + 1][1]

\* The two halves of an array.
LEMMA HalfArrays ==
    ASSUME NEW a \in Seq(Entry), NEW m \in Nat, 0 < m, m < Len(a), NEW l \in Nat,
           NEW b, b = SubSeq(a, 1, m), NEW c, c = SubSeq(a, m + 1, Len(a))
    PROVE  Into(a, m, l, b, c)
<1>1. Len(a) \in Nat
  OBVIOUS
<1>2. b \in Seq(Entry) /\ Len(b) = m /\ \A i \in 1 .. m : b[i] = a[i]
  <2>1. /\ SubSeq(a, 1, m) \in Seq(Entry) /\ Len(SubSeq(a, 1, m)) = m - 1 + 1
        /\ \A i \in 1 .. m - 1 + 1 : SubSeq(a, 1, m)[i] = a[1 + i - 1]
    BY <1>1, SubSeqLemma
  <2>2. m - 1 + 1 = m /\ \A i \in 1 .. m : 1 + i - 1 = i
    OBVIOUS
  <2> QED BY <2>1, <2>2
<1>3. c \in Seq(Entry) /\ Len(c) = Len(a) - m /\ \A i \in 1 .. Len(a) - m : c[i] = a[m + i]
  <2>1. PICK n \in Nat : n = m + 1
    OBVIOUS
  <2>2. /\ SubSeq(a, n, Len(a)) \in Seq(Entry) /\ Len(SubSeq(a, n, Len(a))) = Len(a) - n + 1
        /\ \A i \in 1 .. Len(a) - n + 1 : SubSeq(a, n, Len(a))[i] = a[n + i - 1]
    BY <1>1, <2>1, SubSeqLemma
  <2>3. Len(a) - n + 1 = Len(a) - m /\ \A i \in 1 .. Len(a) - m : n + i - 1 = m + i
    BY <1>1, <2>1
  <2> QED BY <2>1, <2>2, <2>3
<1>4. CutInto(a, b, c, m, l)
  BY <1>2, <1>3 DEF CutInto, SameEntry
<1>5. c[1] = a[m + 1]
  BY <1>1, <1>3
<1> QED BY <1>2, <1>3, <1>4, <1>5 DEF Into

\* The children that move with the second half.
LEMMA HalfChildren ==
    ASSUME NEW a \in Seq(Entry), NEW m \in Nat, 0 < m, m < Len(a), NEW c, c \in Seq(Entry),
           NEW b, NEW l, CutInto(a, b, c, m, l), NEW x
    PROVE  x \in Children(c) <=> \E i \in m + 1 .. Len(a) : a[i][2] = x
<1>1. Len(a) \in Nat /\ Len(c) = Len(a) - m /\ DOMAIN c = 1 .. Len(c)
  BY DEF CutInto
<1>2. \A i \in 1 .. Len(a) - m : c[i][2] = a[m + i][2]
  BY DEF CutInto, SameEntry
<1>3. ASSUME x \in Children(c) PROVE \E i \in m + 1 .. Len(a) : a[i][2] = x
  <2>1. PICK i \in 1 .. Len(a) - m : c[i][2] = x
    BY <1>1, <1>3 DEF Children
  <2>2. m + i \in m + 1 .. Len(a)
    BY <1>1
  <2> QED BY <1>2, <2>1, <2>2
<1>4. ASSUME NEW i \in m + 1 .. Len(a), a[i][2] = x PROVE x \in Children(c)
  <2>1. i - m \in 1 .. Len(a) - m /\ m + (i - m) = i
    BY <1>1
  <2>2. c[i - m][2] = x
    BY <1>2, <1>4, <2>1
  <2> QED BY <1>1, <2>1, <2>2 DEF Children
<1> QED BY <1>3, <1>4

\* InsertAt puts an entry right behind the one at j.
LEMMA InsertedLemma ==
    ASSUME NEW a \in Seq(Entry), NEW j \in 1 .. Len(a), NEW key \in Int, NEW q \in Int,
           NEW b, b = InsertAt(a, j + 1, <<key, q>>)
    PROVE  b \in Seq(Entry) /\ Len(b) = Len(a) + 1 /\ InsertedAfter(a, b, j, key, q)
<1>1. PICK e : e = <<key, q>>
  OBVIOUS
<1>2. e \in Entry /\ e[1] = key /\ e[2] = q
  BY <1>1 DEF Entry, Datum
<1>3. PICK n : n = j + 1
  OBVIOUS
<1>4. Len(a) \in Nat /\ n \in 1 .. Len(a) + 1
  BY <1>3
<1>5. b = InsertAt(a, n, e)
  BY <1>1, <1>3
<1>6. InsertAt(a, n, e) \in Seq(Entry)
  BY <1>2, <1>4, InsertAtLemma
<1>7. Len(InsertAt(a, n, e)) = Len(a) + 1
  BY <1>2, <1>4, InsertAtLemma
<1>8. ASSUME NEW x \in 1 .. Len(a) + 1
      PROVE  InsertAt(a, n, e)[x] = IF x < n THEN a[x] ELSE IF x = n THEN e ELSE a[x - 1]
  BY <1>2, <1>4, InsertAtLemma
<1>9. \A x \in 1 .. Len(a) + 1 : b[x] = IF x < n THEN a[x] ELSE IF x = n THEN e ELSE a[x - 1]
  BY <1>5, <1>8
<1>10. ASSUME NEW i \in 1 .. Len(a), i <= j PROVE b[i] = a[i]
  <2>1. i \in 1 .. Len(a) + 1 /\ i < n
    BY <1>3, <1>4, <1>10
  <2> QED BY <1>9, <2>1
<1>11. b[j + 1][1] = key /\ b[j + 1][2] = q
  BY <1>2, <1>3, <1>4, <1>9
<1>12. ASSUME NEW i \in 1 .. Len(a) + 1, i > j + 1 PROVE b[i] = a[i - 1]
  <2>1. ~(i < n) /\ i # n
    BY <1>3, <1>4, <1>12
  <2> QED BY <1>9, <2>1
<1> QED BY <1>5, <1>6, <1>7, <1>10, <1>11, <1>12 DEF InsertedAfter

\* InsertIntoParent on a page that has a parent.
LEMMA ParentEffect ==
    ASSUME NEW t, IsTree(t), NEW p \in DOMAIN t.nodes, NEW f, f = t.nodes[p].parent,
           f \in DOMAIN t.nodes, f # INVALID_PAGE_ID, NEW key, NEW q,
           NEW u, u = InsertIntoParent(t, p, key, q)
    PROVE  /\ ArrayChanged(t, f, InsertNodeAfter(t.nodes[f].array, p, key, q), u)
           /\ u.pins = (t.pins (+) SetToBag({f})) (-) SetToBag({p, q})
<1>1. PICK v : v = FetchPage(t, f)
  OBVIOUS
<1>2. /\ IsTree(v) /\ v.root = t.root /\ v.header = t.header /\ v.nodes = t.nodes
      /\ v.pins = t.pins (+) SetToBag({f})
  BY <1>1, FetchEffect
<1>3. PICK w : w = UnpinPages(v, {p, q})
  OBVIOUS
<1>4. /\ IsTree(w) /\ w.root = t.root /\ w.header = t.header /\ w.nodes = t.nodes
      /\ w.pins = (t.pins (+) SetToBag({f})) (-) SetToBag({p, q})
  <2>1. /\ IsTree(w) /\ w.root = v.root /\ w.header = v.header /\ w.nodes = v.nodes
        /\ w.pins = v.pins (-) SetToBag({p, q})
    BY <1>2, <1>3, UnpinEffect
  <2> QED BY <1>2, <2>1
<1>5. u = [w EXCEPT !.nodes[f].array = InsertNodeAfter(@, p, key, q)]
  BY <1>1, <1>3 DEF InsertIntoParent
<1>6. u = [w EXCEPT !.nodes[f].array = InsertNodeAfter(t.nodes[f].array, p, key, q)]
  BY <1>4, <1>5
<1>7. f \in DOMAIN w.nodes
  BY <1>4
<1>8. PICK b : b = InsertNodeAfter(t.nodes[f].array, p, key, q)
  OBVIOUS
<1>9. ArrayChanged(w, f, b, u) /\ u.pins = w.pins
  BY <1>4, <1>6, <1>7, <1>8, ArrayChange, SMTT(60)
<1> QED BY <1>4, <1>8, <1>9 DEF ArrayChanged

\* How few entries a page may have, and whether one has too few or too many.
Least(t, level, x) == IF x = t.root THEN IF level[x] = 0 THEN 1 ELSE 2 ELSE Half(level[x])
SizeOK(t, level, x) ==
    Len(t.nodes[x].array) < Full(level[x]) /\ Len(t.nodes[x].array) >= Least(t, level, x)

\* Between two steps of an insertion: page x, which is pinned, may be full.
Growing(t, x, part, level, d) ==
    /\ Well(t, part, level, d) /\ x \in DOMAIN t.nodes /\ t.pins = SetToBag({x})
    /\ \A y \in DOMAIN t.nodes : y # x => SizeOK(t, level, y)
    /\ Len(t.nodes[x].array) <= Full(level[x]) /\ Len(t.nodes[x].array) >= Least(t, level, x)

\* Between two operations.
Settled(t, part, level, d) ==
    /\ Well(t, part, level, d) /\ t.pins = EmptyBag
    /\ \A y \in DOMAIN t.nodes : SizeOK(t, level, y)

\* Nothing pinned is the empty bag.
LEMMA NoPins == SetToBag({}) = EmptyBag
BY DEF SetToBag, EmptyBag

\* The place of a page in its parent.
LEMMA PlaceInParent ==
    ASSUME NEW t, NEW part, NEW level, NEW d, Well(t, part, level, d),
           NEW p \in DOMAIN t.nodes, p # t.root, NEW f, f = t.nodes[p].parent,
           NEW j, j = ValueIndex(t.nodes[f].array, p)
    PROVE  /\ f \in DOMAIN t.nodes /\ f # INVALID_PAGE_ID /\ f # p /\ level[f] = level[p] + 1
           /\ ~t.nodes[f].leaf
           /\ j \in 1 .. Len(t.nodes[f].array) /\ t.nodes[f].array[j][2] = p
<1>1. PICK arr : arr = Arr(t)
  OBVIOUS
<1>2. PICK par : par = Par(t)
  OBVIOUS
<1>3. \A x \in DOMAIN t.nodes : arr[x] = t.nodes[x].array /\ par[x] = t.nodes[x].parent
  BY <1>1, <1>2 DEF Arr, Par
<1>4. Shape(DOMAIN t.nodes, arr, par, t.root, part, level, d)
  BY <1>1, <1>2 DEF Well
<1>5. f \in DOMAIN t.nodes /\ level[f] > 0 /\ \E i \in 1 .. Len(arr[f]) : arr[f][i][2] = p
  BY <1>3, <1>4 DEF Shape, ChildrenOK
<1>6. arr[f] \in Seq(Entry) /\ level[f] \in Nat /\ level[p] \in Nat /\ f \in Nat
  BY <1>4, <1>5, EntryFacts
<1>7. PICK i \in 1 .. Len(arr[f]) : arr[f][i][2] = p
  BY <1>5
<1>8. j \in 1 .. Len(arr[f]) /\ arr[f][j][2] = p
  <2>1. PICK a \in Seq(Entry) : a = arr[f]
    BY <1>6
  <2>2. i \in 1 .. Len(a) /\ a[i][2] = p /\ j = ValueIndex(a, p)
    BY <1>3, <1>5, <1>7, <2>1
  <2> QED BY <2>1, <2>2, ValueIndexLemma
<1>9. level[p] + 1 = level[f]
  <2>1. ChildOK(DOMAIN t.nodes, arr, par, part, level, f, i)
    BY <1>4, <1>5, ChildFacts
  <2> QED BY <1>7, <2>1 DEF ChildOK
<1>10. ~t.nodes[f].leaf
  BY <1>5, <1>6 DEF Well
<1>11. f # INVALID_PAGE_ID /\ f # p
  BY <1>6, <1>9 DEF INVALID_PAGE_ID
<1>12. arr[f] = t.nodes[f].array
  BY <1>3, <1>5
<1> QED BY <1>5, <1>8, <1>9, <1>10, <1>11, <1>12

\* Children are one level below their page.
LEMMA ChildBelow ==
    ASSUME NEW t, NEW part, NEW level, NEW d, Well(t, part, level, d),
           NEW p \in DOMAIN t.nodes, level[p] > 0, NEW i \in 1 .. Len(t.nodes[p].array),
           NEW x, x = t.nodes[p].array[i][2]
    PROVE  x \in DOMAIN t.nodes /\ x # p /\ level[x] + 1 = level[p] /\ t.nodes[x].parent = p
<1>1. PICK arr : arr = Arr(t)
  OBVIOUS
<1>2. PICK par : par = Par(t)
  OBVIOUS
<1>3. \A y \in DOMAIN t.nodes : arr[y] = t.nodes[y].array /\ par[y] = t.nodes[y].parent
  BY <1>1, <1>2 DEF Arr, Par
<1>4. Shape(DOMAIN t.nodes, arr, par, t.root, part, level, d)
  BY <1>1, <1>2 DEF Well
<1>5. ChildOK(DOMAIN t.nodes, arr, par, part, level, p, i)
  BY <1>3, <1>4, ChildFacts
<1>6. x \in DOMAIN t.nodes /\ par[x] = p /\ level[x] + 1 = level[p]
  BY <1>3, <1>5 DEF ChildOK
<1>7. level[x] \in Nat
  BY <1>4, <1>6, EntryFacts
<1> QED BY <1>3, <1>6, <1>7

\* The facts about the first step of SplitUp: p is split, q being the new page.
SplitFacts(t, p, q, m, u, level) ==
    /\ q \in Nat /\ q # 0 /\ q \notin DOMAIN t.nodes /\ SplitOf(t, p, q, u)
    /\ m \in Nat /\ 0 < m /\ m < Len(t.nodes[p].array)
    /\ u.nodes[p].array \in Seq(Entry) /\ u.nodes[q].array \in Seq(Entry)
    /\ CutInto(t.nodes[p].array, u.nodes[p].array, u.nodes[q].array, m, level[p])
    /\ Len(u.nodes[p].array) = m /\ Len(u.nodes[q].array) = Len(t.nodes[p].array) - m
    /\ u.nodes[q].array[1][1] = t.nodes[p].array[m + 1][1]
    /\ t.nodes[p].array[m + 1][1] \in Int
    /\ u.nodes[p].parent = t.nodes[p].parent

\* What a split of a full page leaves: two pages of legal size, in order, and
\* a fresh ID.
LEMMA SplitBasics ==
    ASSUME NEW t, NEW p, NEW part, NEW level, NEW d, Growing(t, p, part, level, d),
           Len(t.nodes[p].array) = Full(level[p])
    PROVE  SplitFacts(t, p, NewPageId(t), Half(level[p]), Split(t, p), level)
<1>q. PICK q : q = NewPageId(t)
  OBVIOUS
<1>u. PICK u : u = Split(t, p)
  OBVIOUS
<1>m. PICK m : m = Half(level[p])
  OBVIOUS
<1>1. PICK D : D = DOMAIN t.nodes
  OBVIOUS
<1>2. Well(t, part, level, d) /\ p \in D
  BY <1>1 DEF Growing
<1>3. /\ IsTree(t) /\ IsFiniteSet(D) /\ D \subseteq Nat \ {0}
      /\ t.nodes[p].array \in Seq(Entry) /\ level[p] \in Nat /\ MinSize(t.nodes[p]) = m
      /\ (t.nodes[p].leaf <=> level[p] = 0)
  BY <1>1, <1>2, <1>m, WellFacts, PageFacts
<1>4. q \in Nat /\ q # 0 /\ q \notin D
  BY <1>1, <1>3, <1>q, NewId
<1>5. PICK a \in Seq(Entry) : a = t.nodes[p].array
  BY <1>3
<1>6. m \in Nat /\ 0 < m /\ m < Len(a)
  <2>1. PICK l \in Nat : l = level[p]
    BY <1>3
  <2>2. Half(l) \in Nat /\ Full(l) \in Nat /\ Half(l) >= 1 /\ 2 * Half(l) <= Full(l)
    BY Halves
  <2>3. m = Half(l) /\ Len(a) = Full(l)
    BY <1>5, <1>m, <2>1
  <2> QED BY <2>2, <2>3
<1>7. PICK b : b = SubSeq(a, 1, m)
  OBVIOUS
<1>8. PICK c : c = SubSeq(a, m + 1, Len(a))
  OBVIOUS
<1>9. KeptHalf(t.nodes[p]) = b /\ MovedHalf(t.nodes[p]) = c
  BY <1>3, <1>5, <1>7, <1>8 DEF KeptHalf, MovedHalf
<1>10. /\ b \in Seq(Entry) /\ c \in Seq(Entry) /\ CutInto(a, b, c, m, level[p])
       /\ Len(b) = m /\ Len(c) = Len(a) - m /\ c[1][1] = a[m + 1][1]
  <2>1. PICK l \in Nat : l = level[p]
    BY <1>3
  <2>2. Into(a, m, l, b, c)
    BY ONLY a \in Seq(Entry), l \in Nat, <1>6, <1>7, <1>8, HalfArrays
  <2> QED BY <2>1, <2>2 DEF Into
<1>11. ASSUME level[p] > 0, NEW x, x \in Children(c) PROVE x \in D /\ x # p
  <2>1. \E i \in m + 1 .. Len(a) : a[i][2] = x
    BY <1>6, <1>10, <1>11, HalfChildren
  <2>2. PICK i \in 1 .. Len(a) : a[i][2] = x
    BY <1>6, <2>1
  <2> QED BY <1>1, <1>2, <1>5, <1>11, <2>2, ChildBelow
<1>12. SplitOf(t, p, q, u)
  <2>1. ~t.nodes[p].leaf => q \notin Children(MovedHalf(t.nodes[p]))
    BY <1>3, <1>4, <1>9, <1>11
  <2>2. p \in DOMAIN t.nodes /\ q \notin DOMAIN t.nodes
    BY <1>1, <1>2, <1>4
  <2> QED BY <1>3, <1>q, <1>u, <2>1, <2>2, SplitEffect
<1>13. u.nodes[p].array = b /\ u.nodes[q].array = c
  BY <1>9, <1>12 DEF SplitOf
<1>14. u.nodes[p].parent = t.nodes[p].parent
  <2>1. ~(~t.nodes[p].leaf /\ p \in Children(MovedHalf(t.nodes[p])))
    BY <1>3, <1>9, <1>11
  <2> QED BY <1>1, <1>2, <1>12, <2>1 DEF SplitOf
<1>15. a[m + 1][1] \in Int
  BY <1>6, KeysAreInts
<1>16. SplitFacts(t, p, q, m, u, level)
  BY <1>1, <1>4, <1>5, <1>6, <1>10, <1>12, <1>13, <1>14, <1>15 DEF SplitFacts
<1> QED BY <1>16, <1>q, <1>u, <1>m

\* A full page that is not the root is split: its parent gets a child more.
LEMMA SplitInner ==
    ASSUME NEW t, NEW p, NEW part, NEW level, NEW d, Growing(t, p, part, level, d),
           Len(t.nodes[p].array) = Full(level[p]), p # t.root,
           NEW f, f = t.nodes[p].parent, NEW u, u = SplitUp(t, p)
    PROVE  \E part2, level2 : /\ Growing(u, f, part2, level2, d)
                              /\ level2[f] = level[p] + 1
                              /\ level2[u.root] = level[t.root]
<1>a. PICK D : D = DOMAIN t.nodes
  OBVIOUS
<1>b. PICK q : q = NewPageId(t)
  OBVIOUS
<1>c. PICK v : v = Split(t, p)
  OBVIOUS
<1>d. PICK m : m = Half(level[p])
  OBVIOUS
<1>e. PICK a : a = t.nodes[p].array
  OBVIOUS
<1>f. PICK key : key = v.nodes[q].array[1][1]
  OBVIOUS
<1>g. PICK j : j = ValueIndex(t.nodes[f].array, p)
  OBVIOUS
<1>1. Well(t, part, level, d) /\ p \in D /\ t.pins = SetToBag({p})
  BY <1>a DEF Growing
<1>2. /\ q \in Nat /\ q # 0 /\ q \notin D /\ SplitOf(t, p, q, v)
      /\ m \in Nat /\ 0 < m /\ m < Len(a)
      /\ v.nodes[p].array \in Seq(Entry) /\ v.nodes[q].array \in Seq(Entry)
      /\ CutInto(a, v.nodes[p].array, v.nodes[q].array, m, level[p])
      /\ Len(v.nodes[p].array) = m /\ Len(v.nodes[q].array) = Len(a) - m
      /\ key = a[m + 1][1] /\ key \in Int
      /\ v.nodes[p].parent = f
  <2>1. SplitFacts(t, p, q, m, v, level)
    BY <1>b, <1>c, <1>d, SplitBasics
  <2> QED BY <1>a, <1>e, <1>f, <2>1 DEF SplitFacts
<1>3. /\ f \in D /\ f # INVALID_PAGE_ID /\ f # p /\ level[f] = level[p] + 1
      /\ j \in 1 .. Len(t.nodes[f].array) /\ t.nodes[f].array[j][2] = p
  BY <1>1, <1>a, <1>g, PlaceInParent, SMTT(30)
<1>4. /\ f # q /\ p # q /\ level[p] \in Nat /\ level[f] \in Nat /\ level[f] > 0
      /\ t.nodes[f].array \in Seq(Entry) /\ a \in Seq(Entry)
      /\ Len(t.nodes[f].array) \in Nat /\ Len(a) \in Nat
  <2>1. level[p] \in Nat /\ a \in Seq(Entry) /\ Len(a) \in Nat
    BY <1>1, <1>a, <1>e, PageFacts
  <2>2. level[f] \in Nat /\ t.nodes[f].array \in Seq(Entry) /\ Len(t.nodes[f].array) \in Nat
    BY <1>1, <1>3, <1>a, PageFacts
  <2> QED BY <1>1, <1>2, <1>3, <2>1, <2>2
<1>5. PICK b : b = InsertNodeAfter(t.nodes[f].array, p, key, q)
  OBVIOUS
<1>6. /\ b \in Seq(Entry) /\ Len(b) = Len(t.nodes[f].array) + 1
      /\ InsertedAfter(t.nodes[f].array, b, j, key, q)
  <2>1. Len(t.nodes[f].array) < internal_max_size
    BY <1>3, <1>4, <1>a DEF Growing, SizeOK, Full
  <2>2. b = InsertAt(t.nodes[f].array, j + 1, <<key, q>>)
    BY <1>3, <1>4, <1>5, <1>g, <2>1, SMTT(60) DEF InsertNodeAfter
  <2>3. PICK c \in Seq(Entry) : c = t.nodes[f].array
    BY <1>4
  <2>4. j \in 1 .. Len(c) /\ key \in Int /\ q \in Int /\ b = InsertAt(c, j + 1, <<key, q>>)
    BY <1>2, <1>3, <2>2, <2>3, SMTT(30)
  <2>5. b \in Seq(Entry) /\ Len(b) = Len(c) + 1 /\ InsertedAfter(c, b, j, key, q)
    BY <2>3, <2>4, InsertedLemma, SMTT(30)
  <2> QED BY <2>3, <2>5
<1>7. /\ IsTree(v) /\ DOMAIN v.nodes = D \cup {q} /\ v.root = t.root /\ v.header = t.header
      /\ v.nodes[f].array = t.nodes[f].array /\ v.pins = SetToBag({p}) (+) SetToBag({q})
  BY <1>1, <1>2, <1>3, <1>a DEF SplitOf
<1>8. u = InsertIntoParent(v, p, key, q)
  BY <1>b, <1>c, <1>f DEF SplitUp
<1>9. ArrayChanged(v, f, b, u) /\ u.pins = (v.pins (+) SetToBag({f})) (-) SetToBag({p, q})
  <2>1. p \in DOMAIN v.nodes /\ f \in DOMAIN v.nodes /\ f = v.nodes[p].parent /\ IsTree(v) /\ f # INVALID_PAGE_ID /\ u = InsertIntoParent(v, p, key, q)
    BY <1>1, <1>2, <1>3, <1>7, <1>8
  <2>2. /\ ArrayChanged(v, f, InsertNodeAfter(v.nodes[f].array, p, key, q), u)
        /\ u.pins = (v.pins (+) SetToBag({f})) (-) SetToBag({p, q})
    BY ONLY <2>1, ParentEffect
  <2> QED BY <1>5, <1>7, <2>2
<1>10. u.pins = SetToBag({f})
  <2>1. SetToBag({p}) (+) SetToBag({q}) = SetToBag({p} \cup {q})
    BY <1>4, PinAdd
  <2>2. PICK A : A = {p, q}
    OBVIOUS
  <2>3. v.pins = SetToBag(A)
    <3>1. {p} \cup {q} = A
      BY <2>2
    <3> QED BY <1>7, <2>1, <3>1
  <2>4. SetToBag(A) (+) SetToBag({f}) = SetToBag(A \cup {f})
    <3>1. f \notin A
      BY <1>3, <1>4, <2>2
    <3> QED BY <3>1, PinAdd
  <2>5. SetToBag(A \cup {f}) (-) SetToBag(A) = SetToBag((A \cup {f}) \ A)
    BY PinSub
  <2>6. (A \cup {f}) \ A = {f}
    BY <1>3, <1>4, <2>2
  <2> QED BY <1>9, <2>2, <2>3, <2>4, <2>5, <2>6
<1>11. DOMAIN u.nodes = D \cup {q} /\ IsTree(u) /\ u.root = t.root /\ u.header = t.root
  BY <1>1, <1>7, <1>9 DEF ArrayChanged, Well
<1>12. /\ u.nodes[p].array = v.nodes[p].array /\ u.nodes[q].array = v.nodes[q].array
       /\ u.nodes[f].array = b
       /\ \A x \in D : x # p /\ x # f => u.nodes[x].array = t.nodes[x].array
  BY <1>1, <1>2, <1>3, <1>4, <1>7, <1>9, <1>a, SMTT(60) DEF ArrayChanged, SplitOf
<1>13. /\ u.nodes[q].parent = f /\ u.nodes[q].next = t.nodes[p].next
       /\ u.nodes[q].leaf = t.nodes[p].leaf
       /\ \A x \in D : u.nodes[x].leaf = t.nodes[x].leaf
       /\ \A x \in D : u.nodes[x].next = IF x = p /\ t.nodes[p].leaf THEN q ELSE t.nodes[x].next
  <2>1. /\ v.nodes[q].parent = f /\ v.nodes[q].next = t.nodes[p].next
        /\ v.nodes[q].leaf = t.nodes[p].leaf
    BY <1>2 DEF SplitOf
  <2>2. ASSUME NEW x \in D
        PROVE  /\ v.nodes[x].leaf = t.nodes[x].leaf
               /\ v.nodes[x].next = IF x = p /\ t.nodes[p].leaf THEN q ELSE t.nodes[x].next
    BY <1>2, <1>a DEF SplitOf
  <2>3. ASSUME NEW x \in D \cup {q}
        PROVE  /\ u.nodes[x].leaf = v.nodes[x].leaf /\ u.nodes[x].next = v.nodes[x].next
               /\ u.nodes[x].parent = v.nodes[x].parent
    BY <1>7, <1>9 DEF ArrayChanged
  <2> QED BY <2>1, <2>2, <2>3
<1>14. ASSUME NEW x \in D
       PROVE  u.nodes[x].parent = IF level[p] > 0 /\ \E i \in m + 1 .. Len(a) : a[i][2] = x
                                  THEN q ELSE t.nodes[x].parent
  <2>1. u.nodes[x].parent = IF ~t.nodes[p].leaf /\ x \in Children(v.nodes[q].array)
                            THEN q ELSE t.nodes[x].parent
    BY <1>2, <1>7, <1>9, <1>a DEF ArrayChanged, SplitOf
  <2>2. ~t.nodes[p].leaf <=> level[p] > 0
    BY <1>1, <1>a, PageFacts
  <2>3. x \in Children(v.nodes[q].array) <=> \E i \in m + 1 .. Len(a) : a[i][2] = x
    BY <1>2, <1>4, HalfChildren
  <2> QED BY <2>1, <2>2, <2>3
<1>15. PICK arr : arr = Arr(t)
  OBVIOUS
<1>16. PICK par : par = Par(t)
  OBVIOUS
<1>17. PICK nxt : nxt = Nxt(t)
  OBVIOUS
<1>18. PICK arr2 : arr2 = Arr(u)
  OBVIOUS
<1>19. PICK par2 : par2 = Par(u)
  OBVIOUS
<1>20. PICK nxt2 : nxt2 = Nxt(u)
  OBVIOUS
<1>21. ASSUME NEW x \in D
       PROVE  arr[x] = t.nodes[x].array /\ par[x] = t.nodes[x].parent /\ nxt[x] = t.nodes[x].next
  BY <1>15, <1>16, <1>17, <1>a DEF Arr, Par, Nxt
<1>22. ASSUME NEW x \in D \cup {q}
       PROVE  arr2[x] = u.nodes[x].array /\ par2[x] = u.nodes[x].parent /\ nxt2[x] = u.nodes[x].next
  BY <1>18, <1>19, <1>20, <1>11 DEF Arr, Par, Nxt
<1>23. Shape(D, arr, par, t.root, part, level, d) /\ Chain(D, nxt, part, level)
  BY <1>1, <1>15, <1>16, <1>17, <1>a DEF Well
<1>24. /\ arr2 \in [D \cup {q} -> Seq(Entry)] /\ par2 \in [D \cup {q} -> Int]
       /\ nxt2 \in [D \cup {q} -> Int]
  <2>1. ASSUME NEW x \in D \cup {q}
        PROVE  u.nodes[x].array \in Seq(Entry) /\ u.nodes[x].parent \in Int /\ u.nodes[x].next \in Int
    <3>1. t.nodes[p].next \in Int /\ f \in Int /\ q \in Int
      BY <1>1, <1>2, <1>a, PageFacts
    <3>2. CASE x = q
      BY <1>2, <1>12, <1>13, <3>1, <3>2
    <3>3. CASE x \in D
      <4>1. t.nodes[x].array \in Seq(Entry) /\ t.nodes[x].parent \in Int /\ t.nodes[x].next \in Int
        BY <1>1, <1>a, <3>3, PageFacts
      <4>2. u.nodes[x].array \in Seq(Entry)
        BY <1>2, <1>6, <1>12, <3>3, <4>1
      <4>3. u.nodes[x].parent \in Int /\ u.nodes[x].next \in Int
        BY <1>13, <1>14, <3>1, <3>3, <4>1
      <4> QED BY <4>2, <4>3
    <3> QED BY <3>2, <3>3
  <2> QED BY <1>11, <1>18, <1>19, <1>20, <2>1 DEF Arr, Par, Nxt
<1>25. Halved(D, arr, par, level, p, q, f, j, m, arr2, par2)
  <2>1. arr[p] = a /\ arr[f] = t.nodes[f].array /\ arr2[p] = v.nodes[p].array /\ arr2[q] = v.nodes[q].array
        /\ arr2[f] = b /\ par2[q] = f
    BY <1>1, <1>3, <1>12, <1>13, <1>21, <1>22, <1>e
  <2>2. \A x \in D : x # p /\ x # f => arr2[x] = arr[x]
    BY <1>12, <1>21, <1>22
  <2>3. \A x \in D : par2[x] = IF level[p] > 0 /\ \E i \in m + 1 .. Len(a) : a[i][2] = x
                              THEN q ELSE par[x]
    BY <1>14, <1>21, <1>22
  <2> QED BY <1>2, <1>6, <1>24, <2>1, <2>2, <2>3, SMTT(30) DEF Halved
<1>26. PICK part2 : part2 = SplitPart(D, part, p, q, key)
  OBVIOUS
<1>27. PICK level2 : level2 = SplitLevel(D, level, p, q)
  OBVIOUS
<1>28. arr[p] = a /\ arr[f] = t.nodes[f].array
  BY <1>1, <1>3, <1>21, <1>e
<1>29. Shape(D \cup {q}, arr2, par2, t.root, part2, level2, d)
  <2>1. /\ j \in 1 .. Len(arr[f]) /\ arr[f][j][2] = p /\ m < Len(arr[p])
        /\ part2 = SplitPart(D, part, p, q, arr[p][m + 1][1])
    BY <1>2, <1>3, <1>26, <1>28
  <2> QED BY ONLY <1>1, <1>2, <1>3, <1>4, <1>23, <1>25, <1>27, <2>1, SplitShape
<1>30. Chain(D \cup {q}, nxt2, part2, level2)
  <2>1. NextSplit(D, nxt, level, p, q, nxt2)
    <3>1. t.nodes[p].leaf <=> level[p] = 0
      BY <1>1, <1>a, PageFacts
    <3> QED BY <1>1, <1>13, <1>21, <1>22, <1>24, <3>1 DEF NextSplit
  <2>2. p \in D /\ q \in Nat /\ q \notin D /\ key \in Int
    BY <1>1, <1>2
  <2> QED BY ONLY <1>23, <1>26, <1>27, <2>1, <2>2, ChainSplit
<1>31. \A x \in D : level2[x] = level[x]
  BY <1>2, <1>27 DEF SplitLevel
<1>32. level2[q] = level[p]
  BY <1>27 DEF SplitLevel
<1>33. Well(u, part2, level2, d)
  <2>1. ASSUME NEW x \in D \cup {q} PROVE u.nodes[x].leaf <=> level2[x] = 0
    <3>1. CASE x = q
      BY <1>1, <1>13, <1>32, <1>a, <3>1, PageFacts
    <3>2. CASE x \in D
      BY <1>1, <1>13, <1>31, <1>a, <3>2, PageFacts
    <3> QED BY <3>1, <3>2
  <2> QED BY <1>11, <1>18, <1>19, <1>20, <1>29, <1>30, <2>1 DEF Well
<1>34. /\ m = Half(level[p]) /\ Len(a) = Full(level[p]) /\ t.root \in D
       /\ Half(level[p]) \in Nat /\ Full(level[p]) \in Nat /\ Half(level[p]) >= 1
       /\ 2 * Half(level[p]) <= Full(level[p])
  <2>1. t.root \in D
    BY <1>1, <1>a, WellFacts
  <2>2. PICK l \in Nat : l = level[p]
    BY <1>4
  <2> QED BY <1>d, <1>e, <2>1, <2>2, Halves
<1>35. ASSUME NEW y \in D \cup {q}, y # f PROVE SizeOK(u, level2, y)
  <2>1. CASE y = p
    <3>1. Len(u.nodes[y].array) = m /\ y # u.root /\ level2[y] = level[p]
      BY <1>1, <1>2, <1>11, <1>12, <1>31, <2>1
    <3> QED BY <1>34, <3>1 DEF SizeOK, Least
  <2>2. CASE y = q
    <3>1. Len(u.nodes[y].array) = Len(a) - m /\ y # u.root /\ level2[y] = level[p]
      BY <1>2, <1>11, <1>12, <1>32, <1>34, <2>2
    <3> QED BY <1>34, <3>1 DEF SizeOK, Least
  <2>3. CASE y \in D /\ y # p
    <3>1. u.nodes[y].array = t.nodes[y].array /\ level2[y] = level[y] /\ u.root = t.root
      BY <1>11, <1>12, <1>31, <1>35, <2>3
    <3>2. SizeOK(t, level, y)
      BY <1>a, <2>3 DEF Growing
    <3> QED BY <3>1, <3>2 DEF SizeOK, Least
  <2> QED BY <2>1, <2>2, <2>3
<1>36. Len(u.nodes[f].array) <= Full(level2[f]) /\ Len(u.nodes[f].array) >= Least(u, level2, f)
  <2>1. Len(u.nodes[f].array) = Len(t.nodes[f].array) + 1 /\ level2[f] = level[f] /\ u.root = t.root
    BY <1>3, <1>6, <1>11, <1>12, <1>31
  <2>2. Len(t.nodes[f].array) < Full(level[f]) /\ Len(t.nodes[f].array) >= Least(t, level, f)
    BY <1>3, <1>a DEF Growing, SizeOK
  <2>3. Full(level[f]) \in Nat /\ Least(t, level, f) \in Nat /\ Least(u, level2, f) = Least(t, level, f)
    <3>1. PICK l \in Nat : l = level[f]
      BY <1>4
    <3>2. Full(l) \in Nat /\ Half(l) \in Nat
      BY Halves
    <3> QED BY <2>1, <3>1, <3>2 DEF Least
  <2> QED BY <1>4, <2>1, <2>2, <2>3, SMTT(30)
<1>37. Growing(u, f, part2, level2, d)
  BY <1>3, <1>10, <1>11, <1>33, <1>35, <1>36 DEF Growing
<1>38. level2[f] = level[p] + 1 /\ level2[u.root] = level[t.root]
  BY <1>3, <1>11, <1>31, <1>34
<1> QED BY <1>37, <1>38

\* u is t with a new root r above p and q, from key on.
NewRootOf(t, p, q, r, key, u) ==
    /\ IsTree(u) /\ u.root = r /\ u.header = r
    /\ u.pins = (t.pins (+) SetToBag({r})) (-) SetToBag({r, p, q})
    /\ DOMAIN u.nodes = DOMAIN t.nodes \cup {r}
    /\ u.nodes[r].leaf = FALSE /\ u.nodes[r].parent = INVALID_PAGE_ID
    /\ u.nodes[r].next = INVALID_PAGE_ID
    /\ u.nodes[r].array = <<<<NoKey, p>>, <<key, q>>>>
    /\ \A x \in DOMAIN t.nodes :
          /\ u.nodes[x].leaf = t.nodes[x].leaf /\ u.nodes[x].array = t.nodes[x].array
          /\ u.nodes[x].next = t.nodes[x].next
          /\ u.nodes[x].parent = IF x = p \/ x = q THEN r ELSE t.nodes[x].parent

\* InsertIntoParent on the root, which makes a new root.
LEMMA NewRootEffect ==
    ASSUME NEW t, IsTree(t), NEW p \in DOMAIN t.nodes, NEW q \in DOMAIN t.nodes, NEW r, NEW key,
           t.nodes[p].parent = INVALID_PAGE_ID, r = NewPageId(t), r \notin DOMAIN t.nodes,
           NEW u, u = InsertIntoParent(t, p, key, q)
    PROVE  NewRootOf(t, p, q, r, key, u)
<1>1. PICK n : n = [leaf |-> FALSE, parent |-> INVALID_PAGE_ID, next |-> INVALID_PAGE_ID,
                    array |-> <<<<NoKey, p>>, <<key, q>>>>]
  OBVIOUS
<1>2. /\ DOMAIN n = PageFields /\ n.leaf = FALSE /\ n.parent = INVALID_PAGE_ID
      /\ n.next = INVALID_PAGE_ID /\ n.array = <<<<NoKey, p>>, <<key, q>>>>
  BY <1>1 DEF PageFields
<1>3. PICK a : a = NewNode(t, r, n)
  OBVIOUS
<1>4. NodeAdded(t, r, n, a)
  BY ONLY IsTree(t), r \notin DOMAIN t.nodes, <1>2, <1>3, NewNodeEffect
<1>5. PICK C : C = {p, q}
  OBVIOUS
<1>6. PICK b : b = Adopt(a, r, C)
  OBVIOUS
<1>7. IsTree(a)
  BY <1>4 DEF NodeAdded
<1>8. /\ IsTree(b) /\ b.root = a.root /\ b.header = a.header /\ b.pins = a.pins
      /\ DOMAIN b.nodes = DOMAIN a.nodes
      /\ \A x \in DOMAIN a.nodes :
            /\ b.nodes[x].parent = IF x \in C THEN r ELSE a.nodes[x].parent
            /\ b.nodes[x].leaf = a.nodes[x].leaf /\ b.nodes[x].array = a.nodes[x].array
            /\ b.nodes[x].next = a.nodes[x].next
  BY ONLY <1>6, <1>7, AdoptEffect
<1>9. PICK c : c = UpdateRootPageId(b, r)
  OBVIOUS
<1>10. IsTree(c) /\ c.root = r /\ c.header = r /\ c.pins = b.pins /\ c.nodes = b.nodes
  BY ONLY <1>8, <1>9, RootEffect
<1>11. u = UnpinPages(c, {r, p, q})
  BY <1>1, <1>3, <1>5, <1>6, <1>9 DEF InsertIntoParent
<1>12. /\ IsTree(u) /\ u.root = r /\ u.header = r /\ u.nodes = c.nodes
       /\ u.pins = c.pins (-) SetToBag({r, p, q})
  BY <1>10, <1>11, UnpinEffect
<1>13. /\ DOMAIN a.nodes = DOMAIN t.nodes \cup {r} /\ a.nodes[r] = n
       /\ a.pins = t.pins (+) SetToBag({r})
       /\ \A x \in DOMAIN t.nodes : a.nodes[x] = t.nodes[x]
  BY <1>4 DEF NodeAdded
<1>14. r \notin C
  BY <1>5
<1>15. u.nodes = b.nodes /\ u.pins = (t.pins (+) SetToBag({r})) (-) SetToBag({r, p, q})
  BY <1>8, <1>10, <1>12, <1>13
<1>16. /\ u.nodes[r].leaf = FALSE /\ u.nodes[r].parent = INVALID_PAGE_ID
       /\ u.nodes[r].next = INVALID_PAGE_ID
       /\ u.nodes[r].array = <<<<NoKey, p>>, <<key, q>>>>
  BY <1>2, <1>8, <1>13, <1>14, <1>15
<1>17. ASSUME NEW x \in DOMAIN t.nodes
       PROVE  /\ u.nodes[x].leaf = t.nodes[x].leaf /\ u.nodes[x].array = t.nodes[x].array
              /\ u.nodes[x].next = t.nodes[x].next
              /\ u.nodes[x].parent = IF x = p \/ x = q THEN r ELSE t.nodes[x].parent
  BY <1>5, <1>8, <1>13, <1>15
<1> QED BY <1>8, <1>12, <1>13, <1>15, <1>16, <1>17 DEF NewRootOf

\* A full root is split: a new root gets the halves as its children.
LEMMA SplitRoot ==
    ASSUME NEW t, NEW p, NEW part, NEW level, NEW d, Growing(t, p, part, level, d),
           Len(t.nodes[p].array) = Full(level[p]), p = t.root, NEW u, u = SplitUp(t, p)
    PROVE  \E part2, level2 : Settled(u, part2, level2, d)
<1>a. PICK D : D = DOMAIN t.nodes
  OBVIOUS
<1>b. PICK q : q = NewPageId(t)
  OBVIOUS
<1>c. PICK v : v = Split(t, p)
  OBVIOUS
<1>d. PICK m : m = Half(level[p])
  OBVIOUS
<1>e. PICK a : a = t.nodes[p].array
  OBVIOUS
<1>f. PICK key : key = v.nodes[q].array[1][1]
  OBVIOUS
<1>g. PICK r : r = NewPageId(v)
  OBVIOUS
<1>1. Well(t, part, level, d) /\ p \in D /\ t.pins = SetToBag({p})
  BY <1>a DEF Growing
<1>2. /\ q \in Nat /\ q # 0 /\ q \notin D /\ SplitOf(t, p, q, v)
      /\ m \in Nat /\ 0 < m /\ m < Len(a)
      /\ v.nodes[p].array \in Seq(Entry) /\ v.nodes[q].array \in Seq(Entry)
      /\ CutInto(a, v.nodes[p].array, v.nodes[q].array, m, level[p])
      /\ Len(v.nodes[p].array) = m /\ Len(v.nodes[q].array) = Len(a) - m
      /\ key = a[m + 1][1] /\ key \in Int
      /\ v.nodes[p].parent = t.nodes[p].parent
  <2>1. SplitFacts(t, p, q, m, v, level)
    BY <1>b, <1>c, <1>d, SplitBasics
  <2> QED BY <1>a, <1>e, <1>f, <2>1 DEF SplitFacts
<1>3. /\ IsFiniteSet(D) /\ D \subseteq Nat \ {0} /\ v.nodes[p].parent = INVALID_PAGE_ID
  BY <1>1, <1>2, <1>a, WellFacts
<1>4. level[p] \in Nat /\ a \in Seq(Entry) /\ Len(a) \in Nat /\ p # q /\ (t.nodes[p].leaf <=> level[p] = 0)
  <2>1. level[p] \in Nat /\ a \in Seq(Entry) /\ Len(a) \in Nat /\ (t.nodes[p].leaf <=> level[p] = 0)
    BY <1>1, <1>a, <1>e, PageFacts
  <2> QED BY <1>1, <1>2, <2>1
<1>5. /\ IsTree(v) /\ DOMAIN v.nodes = D \cup {q} /\ v.pins = SetToBag({p}) (+) SetToBag({q})
  BY <1>1, <1>2, <1>a DEF SplitOf
<1>6. r \in Nat /\ r # 0 /\ r \notin D /\ r # q /\ r # p
  <2>1. IsFiniteSet(D \cup {q}) /\ D \cup {q} \subseteq Nat
    BY <1>2, <1>3, FS_AddElement
  <2>2. r \in Nat /\ r # 0 /\ r \notin D \cup {q}
    BY <1>5, <1>g, <2>1, NewId
  <2> QED BY <1>1, <2>2
<1>7. u = InsertIntoParent(v, p, key, q)
  BY <1>b, <1>c, <1>f DEF SplitUp
<1>8. NewRootOf(v, p, q, r, key, u)
  <2>1. p \in DOMAIN v.nodes /\ q \in DOMAIN v.nodes /\ r \notin DOMAIN v.nodes
    BY <1>1, <1>5, <1>6
  <2> QED BY ONLY <1>3, <1>5, <1>7, <1>g, <2>1, NewRootEffect
<1>9. u.pins = EmptyBag
  <2>1. PICK A : A = {p, q}
    OBVIOUS
  <2>2. v.pins = SetToBag(A)
    <3>1. SetToBag({p}) (+) SetToBag({q}) = SetToBag({p} \cup {q})
      BY <1>4, PinAdd
    <3>2. {p} \cup {q} = A
      BY <2>1
    <3> QED BY <1>5, <3>1, <3>2
  <2>3. PICK B : B = {r, p, q}
    OBVIOUS
  <2>4. A \cup {r} = B /\ r \notin A /\ B \ B = {}
    BY <1>6, <2>1, <2>3
  <2>5. SetToBag(A) (+) SetToBag({r}) = SetToBag(B)
    BY <2>4, PinAdd
  <2>6. SetToBag(B) (-) SetToBag(B) = SetToBag({})
    BY <2>4, PinSub
  <2>7. u.pins = (v.pins (+) SetToBag({r})) (-) SetToBag(B)
    BY <1>8, <2>3 DEF NewRootOf
  <2> QED BY <2>2, <2>5, <2>6, <2>7, NoPins
<1>10. PICK D1 : D1 = D \cup {r}
  OBVIOUS
<1>11. DOMAIN u.nodes = D1 \cup {q} /\ IsTree(u) /\ u.root = r /\ u.header = r
  BY <1>5, <1>8, <1>10 DEF NewRootOf
<1>12. /\ u.nodes[p].array = v.nodes[p].array /\ u.nodes[q].array = v.nodes[q].array
       /\ u.nodes[r].array = <<<<NoKey, p>>, <<key, q>>>>
       /\ \A x \in D : x # p => u.nodes[x].array = t.nodes[x].array
  <2>1. ASSUME NEW x \in D \cup {q} PROVE u.nodes[x].array = v.nodes[x].array
    BY <1>5, <1>8 DEF NewRootOf
  <2>2. \A x \in D : x # p => v.nodes[x].array = t.nodes[x].array
    BY <1>2, <1>a DEF SplitOf
  <2>3. u.nodes[r].array = <<<<NoKey, p>>, <<key, q>>>>
    BY <1>8 DEF NewRootOf
  <2> QED BY <1>1, <2>1, <2>2, <2>3
<1>13. /\ u.nodes[q].parent = r /\ u.nodes[q].next = t.nodes[p].next
       /\ u.nodes[q].leaf = t.nodes[p].leaf
       /\ u.nodes[r].leaf = FALSE /\ u.nodes[r].parent = INVALID_PAGE_ID
       /\ u.nodes[r].next = INVALID_PAGE_ID /\ u.nodes[p].parent = r
  BY <1>1, <1>2, <1>5, <1>8 DEF NewRootOf, SplitOf
<1>14. /\ \A x \in D : u.nodes[x].leaf = t.nodes[x].leaf
       /\ \A x \in D : u.nodes[x].next = IF x = p /\ t.nodes[p].leaf THEN q ELSE t.nodes[x].next
  <2>1. ASSUME NEW x \in D
        PROVE  /\ v.nodes[x].leaf = t.nodes[x].leaf
               /\ v.nodes[x].next = IF x = p /\ t.nodes[p].leaf THEN q ELSE t.nodes[x].next
    BY <1>2, <1>a DEF SplitOf
  <2>2. ASSUME NEW x \in D
        PROVE  u.nodes[x].leaf = v.nodes[x].leaf /\ u.nodes[x].next = v.nodes[x].next
    BY <1>5, <1>8 DEF NewRootOf
  <2> QED BY <2>1, <2>2
<1>15. ASSUME NEW i \in 1 .. Len(a), level[p] > 0 PROVE a[i][2] \in D /\ a[i][2] # p
  BY <1>1, <1>15, <1>a, <1>e, ChildBelow
<1>16. ASSUME NEW x \in D, x # p
       PROVE  u.nodes[x].parent = IF level[p] > 0 /\ \E i \in m + 1 .. Len(a) : a[i][2] = x
                                  THEN q ELSE t.nodes[x].parent
  <2>1. v.nodes[x].parent = IF ~t.nodes[p].leaf /\ x \in Children(v.nodes[q].array)
                            THEN q ELSE t.nodes[x].parent
    BY <1>2, <1>a DEF SplitOf
  <2>2. u.nodes[x].parent = v.nodes[x].parent
    BY <1>2, <1>5, <1>8, <1>16 DEF NewRootOf
  <2>3. x \in Children(v.nodes[q].array) <=> \E i \in m + 1 .. Len(a) : a[i][2] = x
    BY <1>2, <1>4, HalfChildren
  <2> QED BY <1>4, <2>1, <2>2, <2>3
<1>17. PICK arr : arr = Arr(t)
  OBVIOUS
<1>18. PICK par : par = Par(t)
  OBVIOUS
<1>19. PICK nxt : nxt = Nxt(t)
  OBVIOUS
<1>20. ASSUME NEW x \in D
       PROVE  /\ arr[x] = t.nodes[x].array /\ par[x] = t.nodes[x].parent /\ nxt[x] = t.nodes[x].next
              /\ arr[x] \in Seq(Entry) /\ par[x] \in Int /\ nxt[x] \in Int
  <2>1. t.nodes[x].array \in Seq(Entry) /\ t.nodes[x].parent \in Int /\ t.nodes[x].next \in Int
    BY <1>1, <1>a, PageFacts
  <2> QED BY <1>17, <1>18, <1>19, <1>a, <2>1 DEF Arr, Par, Nxt
<1>21. Shape(D, arr, par, p, part, level, d) /\ Chain(D, nxt, part, level)
  BY <1>1, <1>17, <1>18, <1>19, <1>a DEF Well
<1>22. PICK one : one = <<<<NoKey, p>>>>
  OBVIOUS
<1>23. one \in Seq(Entry) /\ Len(one) = 1 /\ one[1][2] = p /\ one[1] = <<NoKey, p>>
  <2>0. p \in Int
    BY <1>1, <1>3
  <2>1. <<NoKey, p>> \in Entry
    BY ONLY <2>0 DEF Entry, Datum, NoKey
  <2> QED BY <1>22, <2>1
<1>24. PICK arr1 : arr1 = [x \in D1 |-> IF x = r THEN one ELSE arr[x]]
  OBVIOUS
<1>25. PICK par1 : par1 = [x \in D1 |-> IF x = r THEN INVALID_PAGE_ID
                                        ELSE IF x = p THEN r ELSE par[x]]
  OBVIOUS
<1>26. PICK nxt1 : nxt1 = [x \in D1 |-> IF x = r THEN INVALID_PAGE_ID ELSE nxt[x]]
  OBVIOUS
<1>27. PICK part1 : part1 = RootPart(D, part, r)
  OBVIOUS
<1>28. PICK level1 : level1 = RootLevel(D, level, p, r)
  OBVIOUS
<1>29. NewRootPages(D, arr, par, p, r, arr1, par1)
  <2>1. arr1 \in [D1 -> Seq(Entry)] /\ par1 \in [D1 -> Int]
    BY <1>6, <1>10, <1>20, <1>23, <1>24, <1>25 DEF INVALID_PAGE_ID
  <2>2. arr1[r] = one /\ par1[r] = INVALID_PAGE_ID /\ par1[p] = r
    BY <1>1, <1>6, <1>10, <1>24, <1>25
  <2>3. \A x \in D : arr1[x] = arr[x] /\ (x # p => par1[x] = par[x])
    BY <1>6, <1>10, <1>24, <1>25
  <2> QED BY <1>10, <1>23, <2>1, <2>2, <2>3 DEF NewRootPages
<1>30. Shape(D1, arr1, par1, r, part1, level1, d)
  <2>1. Shape(D \cup {r}, arr1, par1, r, part1, level1, d)
    BY ONLY <1>6, <1>21, <1>27, <1>28, <1>29, AddRoot
  <2> QED BY <1>10, <2>1
<1>31. /\ \A x \in D : level1[x] = level[x] /\ part1[x] = part[x]
       /\ level1[r] = level[p] + 1
  BY <1>6, <1>27, <1>28 DEF RootPart, RootLevel
<1>32. Chain(D1, nxt1, part1, level1)
  <2>1. SameLinks(D, D1, nxt, part, level, nxt1, part1, level1)
    <3>1. nxt1 \in [D1 -> Int]
      BY <1>10, <1>20, <1>26 DEF INVALID_PAGE_ID
    <3>2. \A x \in D1 : x \notin D => nxt1[x] = INVALID_PAGE_ID /\ level1[x] # 0
      <4>1. level1[r] # 0
        BY ONLY <1>4, <1>31
      <4> QED BY <1>10, <1>26, <4>1
    <3>3. \A x \in D1 : x \in D => nxt1[x] = nxt[x] /\ part1[x] = part[x] /\ level1[x] = level[x]
      BY <1>6, <1>26, <1>31
    <3> QED BY <1>10, <3>1, <3>2, <3>3 DEF SameLinks
  <2> QED BY <1>21, <2>1, ChainKept
<1>33. PICK arr2 : arr2 = Arr(u)
  OBVIOUS
<1>34. PICK par2 : par2 = Par(u)
  OBVIOUS
<1>35. PICK nxt2 : nxt2 = Nxt(u)
  OBVIOUS
<1>36. ASSUME NEW x \in D1 \cup {q}
       PROVE  arr2[x] = u.nodes[x].array /\ par2[x] = u.nodes[x].parent /\ nxt2[x] = u.nodes[x].next
  BY <1>11, <1>33, <1>34, <1>35 DEF Arr, Par, Nxt
<1>37. u.nodes[r].array \in Seq(Entry) /\ Len(u.nodes[r].array) = 2
       /\ u.nodes[r].array[1] = <<NoKey, p>> /\ u.nodes[r].array[2] = <<key, q>>
  <2>0. p \in Int /\ q \in Int /\ key \in Int
    BY <1>1, <1>2, <1>3
  <2>1. <<NoKey, p>> \in Entry /\ <<key, q>> \in Entry
    BY ONLY <2>0 DEF Entry, Datum, NoKey
  <2> QED BY <1>12, <2>1
<1>38. /\ arr2 \in [D1 \cup {q} -> Seq(Entry)] /\ par2 \in [D1 \cup {q} -> Int]
       /\ nxt2 \in [D1 \cup {q} -> Int]
  <2>1. ASSUME NEW x \in D1 \cup {q}
        PROVE  u.nodes[x].array \in Seq(Entry) /\ u.nodes[x].parent \in Int /\ u.nodes[x].next \in Int
    <3>1. t.nodes[p].next \in Int /\ r \in Int /\ q \in Int /\ INVALID_PAGE_ID \in Int
      BY <1>1, <1>2, <1>6, <1>a, PageFacts DEF INVALID_PAGE_ID
    <3>2. CASE x = q
      BY <1>2, <1>12, <1>13, <3>1, <3>2
    <3>3. CASE x = r
      BY <1>13, <1>37, <3>1, <3>3
    <3>4. CASE x \in D
      <4>1. t.nodes[x].array \in Seq(Entry) /\ t.nodes[x].parent \in Int /\ t.nodes[x].next \in Int
        BY <1>1, <1>a, <3>4, PageFacts
      <4>2. u.nodes[x].array \in Seq(Entry)
        BY <1>2, <1>12, <3>4, <4>1
      <4>3. u.nodes[x].parent \in Int
        BY <1>13, <1>16, <3>1, <3>4, <4>1
      <4>4. u.nodes[x].next \in Int
        BY <1>14, <3>1, <3>4, <4>1
      <4> QED BY <4>2, <4>3, <4>4
    <3> QED BY <1>10, <3>2, <3>3, <3>4
  <2> QED BY <1>11, <1>33, <1>34, <1>35, <2>1 DEF Arr, Par, Nxt
<1>39. arr1[p] = a /\ arr1[r] = one /\ level1[p] = level[p] /\ p \in D1 /\ r \in D1
  BY <1>1, <1>6, <1>10, <1>20, <1>24, <1>31, <1>e
<1>40. Halved(D1, arr1, par1, level1, p, q, r, 1, m, arr2, par2)
  <2>1. arr2[p] = v.nodes[p].array /\ arr2[q] = v.nodes[q].array /\ par2[q] = r
    BY <1>12, <1>13, <1>36, <1>39
  <2>2. InsertedAfter(one, arr2[r], 1, key, q)
    <3>1. arr2[r] = u.nodes[r].array
      BY <1>36, <1>39
    <3>2. PICK c : c = arr2[r]
      OBVIOUS
    <3>3. Len(c) = Len(one) + 1 /\ c[1] = one[1] /\ c[1 + 1][1] = key /\ c[1 + 1][2] = q
      BY <1>23, <1>37, <3>1, <3>2, SMTT(60)
    <3>4. \A i \in 1 .. Len(one) : i = 1
      BY <1>23
    <3>5. \A i \in 1 .. Len(one) + 1 : ~(i > 1 + 1)
      BY <1>23
    <3>6. InsertedAfter(one, c, 1, key, q)
      BY <3>3, <3>4, <3>5 DEF InsertedAfter
    <3> QED BY <3>2, <3>6
  <2>3. ASSUME NEW x \in D1, x # p, x # r PROVE arr2[x] = arr1[x]
    BY <1>10, <1>12, <1>20, <1>24, <1>36, <2>3
  <2>4. ASSUME NEW x \in D1
        PROVE  par2[x] = IF level1[p] > 0 /\ \E i \in m + 1 .. Len(a) : a[i][2] = x
                         THEN q ELSE par1[x]
    <3>1. ASSUME level1[p] > 0, NEW i \in m + 1 .. Len(a) PROVE a[i][2] \in D /\ a[i][2] # p
      <4>1. i \in 1 .. Len(a)
        BY <1>2, <1>4
      <4> QED BY <1>15, <1>39, <3>1, <4>1
    <3>2. CASE x = r
      BY <1>6, <1>13, <1>25, <1>36, <1>39, <3>1, <3>2
    <3>3. CASE x = p
      BY <1>6, <1>13, <1>25, <1>36, <1>39, <3>1, <3>3
    <3>4. CASE x \in D /\ x # p
      <4>1. par1[x] = par[x] /\ par2[x] = u.nodes[x].parent
        BY <1>6, <1>25, <1>36, <3>4
      <4> QED BY <1>16, <1>20, <1>39, <3>4, <4>1
    <3> QED BY <1>10, <3>2, <3>3, <3>4
  <2> QED BY <1>2, <1>38, <1>39, <2>1, <2>2, <2>3, <2>4 DEF Halved
<1>41. PICK part2 : part2 = SplitPart(D1, part1, p, q, key)
  OBVIOUS
<1>42. PICK level2 : level2 = SplitLevel(D1, level1, p, q)
  OBVIOUS
<1>43. q \notin D1
  BY <1>2, <1>6, <1>10
<1>44. Shape(D1 \cup {q}, arr2, par2, r, part2, level2, d)
  <2>1. /\ 1 \in 1 .. Len(arr1[r]) /\ arr1[r][1][2] = p /\ m < Len(arr1[p]) /\ level1[r] > 0
        /\ part2 = SplitPart(D1, part1, p, q, arr1[p][m + 1][1])
    <3>1. 1 \in 1 .. Len(one) /\ one[1][2] = p
      BY <1>23
    <3>2. level1[r] > 0
      BY <1>4, <1>31
    <3>3. part2 = SplitPart(D1, part1, p, q, arr1[p][m + 1][1])
      BY <1>2, <1>39, <1>41
    <3> QED BY <1>2, <1>39, <3>1, <3>2, <3>3
  <2> QED BY ONLY <1>2, <1>30, <1>39, <1>40, <1>42, <1>43, <2>1, SplitShape
<1>45. Chain(D1 \cup {q}, nxt2, part2, level2)
  <2>1. NextSplit(D1, nxt1, level1, p, q, nxt2)
    <3>1. nxt2[q] = nxt1[p]
      BY <1>1, <1>6, <1>13, <1>20, <1>26, <1>36, <1>39
    <3>2. ASSUME NEW x \in D1 PROVE nxt2[x] = IF x = p /\ level1[p] = 0 THEN q ELSE nxt1[x]
      <4>1. CASE x = r
        BY <1>6, <1>13, <1>26, <1>36, <4>1
      <4>2. CASE x \in D
        BY <1>4, <1>6, <1>14, <1>20, <1>26, <1>36, <1>39, <4>2
      <4> QED BY <1>10, <4>1, <4>2
    <3> QED BY <1>38, <3>1, <3>2 DEF NextSplit
  <2>2. p \in D1 /\ q \in Nat /\ q \notin D1 /\ key \in Int
    BY <1>2, <1>39, <1>43
  <2> QED BY ONLY <1>30, <1>32, <1>41, <1>42, <2>1, <2>2, ChainSplit
<1>46. /\ \A x \in D : level2[x] = level[x]
       /\ level2[q] = level[p] /\ level2[r] = level[p] + 1
  BY <1>2, <1>6, <1>10, <1>31, <1>39, <1>42, <1>43 DEF SplitLevel
<1>47. Well(u, part2, level2, d)
  <2>1. ASSUME NEW x \in D1 \cup {q} PROVE u.nodes[x].leaf <=> level2[x] = 0
    <3>1. CASE x = q
      BY <1>4, <1>13, <1>46, <3>1
    <3>2. CASE x = r
      BY <1>4, <1>13, <1>46, <3>2
    <3>3. CASE x \in D
      BY <1>1, <1>14, <1>46, <1>a, <3>3, PageFacts
    <3> QED BY <1>10, <3>1, <3>2, <3>3
  <2> QED BY <1>11, <1>33, <1>34, <1>35, <1>44, <1>45, <2>1 DEF Well
<1>48. /\ m = Half(level[p]) /\ Len(a) = Full(level[p])
       /\ Half(level[p]) \in Nat /\ Full(level[p]) \in Nat /\ Half(level[p]) >= 1
       /\ 2 * Half(level[p]) <= Full(level[p])
  <2>1. PICK l \in Nat : l = level[p]
    BY <1>4
  <2> QED BY <1>d, <1>e, <2>1, Halves
<1>49. ASSUME NEW y \in D1 \cup {q} PROVE SizeOK(u, level2, y)
  <2>1. CASE y = p
    <3>1. Len(u.nodes[y].array) = m /\ y # u.root /\ level2[y] = level[p]
      BY <1>1, <1>2, <1>6, <1>11, <1>12, <1>46, <2>1
    <3> QED BY <1>48, <3>1 DEF SizeOK, Least
  <2>2. CASE y = q
    <3>1. Len(u.nodes[y].array) = Len(a) - m /\ y # u.root /\ level2[y] = level[p]
      BY <1>2, <1>6, <1>11, <1>12, <1>46, <2>2
    <3> QED BY <1>48, <3>1 DEF SizeOK, Least
  <2>3. CASE y = r
    <3>1. Len(u.nodes[y].array) = 2 /\ y = u.root /\ level2[y] > 0
      BY <1>4, <1>11, <1>37, <1>46, <2>3
    <3>2. Full(level2[y]) = internal_max_size
      BY <3>1 DEF Full
    <3> QED BY <3>1, <3>2, TreeAssumption DEF SizeOK, Least
  <2>4. CASE y \in D /\ y # p
    <3>1. u.nodes[y].array = t.nodes[y].array /\ level2[y] = level[y] /\ y # u.root /\ y # t.root
      BY <1>6, <1>11, <1>12, <1>46, <2>4
    <3>2. SizeOK(t, level, y)
      BY <1>a, <2>4 DEF Growing
    <3> QED BY <3>1, <3>2 DEF SizeOK, Least
  <2> QED BY <1>10, <2>1, <2>2, <2>3, <2>4
<1>50. Settled(u, part2, level2, d)
  BY <1>9, <1>11, <1>47, <1>49 DEF Settled
<1> QED BY <1>50

-----------------------------------------------------------------------------
(* The loop upwards.                                                       *)

\* Every level below the root's has a page, so there are as many inner pages.
LEMMA Height ==
    ASSUME NEW t, NEW part, NEW level, NEW d, Well(t, part, level, d)
    PROVE  Levels(t) \in Nat /\ level[t.root] <= Levels(t)
<1>a. PICK D : D = DOMAIN t.nodes
  OBVIOUS
<1>h. PICK h : h = level[t.root]
  OBVIOUS
<1> DEFINE T == {x \in D : ~t.nodes[x].leaf}
           S == {n \in Nat : n <= h => \E x \in D : level[x] = h - n}
<1>1. IsFiniteSet(D) /\ t.root \in D /\ h \in Nat
  BY <1>a, <1>h, WellFacts, PageFacts
<1>2. ASSUME NEW x \in D
      PROVE  level[x] \in Nat /\ level[x] <= h /\ (t.nodes[x].leaf <=> level[x] = 0)
  BY <1>a, <1>h, PageFacts DEF Well, Shape, Rooted
<1>3. ASSUME NEW x \in D, level[x] > 0 PROVE \E y \in D : level[y] + 1 = level[x]
  <2>1. Len(Arr(t)[x]) > 0
    BY <1>a, <1>3, ChildFacts DEF Well
  <2>2. Arr(t)[x] = t.nodes[x].array /\ Len(t.nodes[x].array) \in Nat
    BY <1>a, PageFacts DEF Arr
  <2>3. 1 \in 1 .. Len(t.nodes[x].array)
    BY <2>1, <2>2
  <2> QED BY <1>a, <1>3, <2>3, ChildBelow
<1>4. \A n \in Nat : n \in S
  <2>1. 0 \in S
    BY <1>1, <1>h
  <2>2. ASSUME NEW n \in Nat, n \in S PROVE n + 1 \in S
    <3>1. SUFFICES ASSUME n + 1 <= h PROVE \E y \in D : level[y] = h - (n + 1)
      OBVIOUS
    <3>2. PICK x \in D : level[x] = h - n
      BY <1>1, <2>2, <3>1
    <3>3. PICK y \in D : level[y] + 1 = level[x]
      BY <1>1, <1>3, <3>1, <3>2
    <3>4. level[y] = h - (n + 1)
      BY <1>1, <1>2, <3>2, <3>3
    <3> QED BY <3>4
  <2> HIDE DEF S
  <2> QED BY <2>1, <2>2, NatSetInduction
<1>5. PICK g : g = [x \in T |-> level[x]]
  OBVIOUS
<1>6. g \in Surjection(T, 1 .. h)
  <2>1. g \in [T -> 1 .. h]
    BY <1>1, <1>2, <1>5
  <2>2. ASSUME NEW l \in 1 .. h PROVE \E x \in T : g[x] = l
    <3>1. h - l \in Nat /\ h - l <= h /\ h - (h - l) = l
      BY <1>1
    <3>2. PICK x \in D : level[x] = l
      BY <1>4, <3>1
    <3>3. x \in T
      BY <1>1, <1>2, <3>2
    <3> QED BY <1>5, <3>2, <3>3
  <2> HIDE DEF T
  <2> QED BY <2>1, <2>2 DEF Surjection
<1>7. IsFiniteSet(T) /\ Cardinality(T) \in Nat
  <2>1. T \in SUBSET D
    OBVIOUS
  <2> HIDE DEF T
  <2> QED BY <1>1, <2>1, FS_Subset, FS_CardinalityType
<1>8. Cardinality(1 .. h) <= Cardinality(T)
  <2> HIDE DEF T
  <2> QED BY <1>6, <1>7, FS_Surjection
<1>9. Cardinality(1 .. h) = h
  BY <1>1, FS_Interval
<1>10. Levels(t) = Cardinality(T)
  BY <1>a DEF Levels
<1> QED BY <1>7, <1>8, <1>9, <1>10, <1>h

\* Only the pins change.
SamePages(t, u) ==
    IsTree(u) /\ u.nodes = t.nodes /\ u.root = t.root /\ u.header = t.header

\* Pins are no part of Well.
LEMMA WellSame ==
    ASSUME NEW t, NEW u, NEW part, NEW level, NEW d, Well(t, part, level, d), SamePages(t, u)
    PROVE  Well(u, part, level, d) /\ \A y : SizeOK(t, level, y) => SizeOK(u, level, y)
<1>1. Arr(u) = Arr(t) /\ Par(u) = Par(t) /\ Nxt(u) = Nxt(t)
  BY DEF SamePages, Arr, Par, Nxt
<1>2. Well(u, part, level, d)
  BY <1>1 DEF SamePages, Well
<1>3. \A y : SizeOK(t, level, y) => SizeOK(u, level, y)
  BY DEF SamePages, SizeOK, Least
<1> QED BY <1>2, <1>3

\* The states the loop of an insertion goes through.
GrowState(c, n, h, d) ==
    \/ c.page = INVALID_PAGE_ID /\ \E part, level : Settled(c.tree, part, level, d)
    \/ \E part, level : /\ Growing(c.tree, c.page, part, level, d)
                        /\ level[c.page] = n /\ level[c.tree.root] = h

\* One step of the upward loop of an insertion.
LEMMA GrowStepOK ==
    ASSUME NEW c, NEW n \in Nat, NEW h, NEW d, GrowState(c, n, h, d)
    PROVE  GrowState(GrowStep(c), n + 1, h, d)
<1>1. CASE c.page = INVALID_PAGE_ID /\ \E part, level : Settled(c.tree, part, level, d)
  <2>1. GrowStep(c) = c
    BY <1>1 DEF GrowStep
  <2> QED BY <1>1, <2>1 DEF GrowState
<1>2. CASE \E part, level : /\ Growing(c.tree, c.page, part, level, d)
                            /\ level[c.page] = n /\ level[c.tree.root] = h
  <2>1. PICK part, level : /\ Growing(c.tree, c.page, part, level, d)
                           /\ level[c.page] = n /\ level[c.tree.root] = h
    BY <1>2
  <2>2. PICK t : t = c.tree
    OBVIOUS
  <2>3. PICK p : p = c.page
    OBVIOUS
  <2>4. Growing(t, p, part, level, d)
    BY <2>1, <2>2, <2>3
  <2>5. /\ Well(t, part, level, d) /\ p \in DOMAIN t.nodes /\ t.pins = SetToBag({p})
        /\ Len(t.nodes[p].array) <= Full(level[p]) /\ Len(t.nodes[p].array) >= Least(t, level, p)
        /\ \A y \in DOMAIN t.nodes : y # p => SizeOK(t, level, y)
    BY <2>4 DEF Growing
  <2>6. IsTree(t) /\ DOMAIN t.nodes \subseteq Nat \ {0} /\ t.nodes[t.root].parent = INVALID_PAGE_ID
    BY <2>5, WellFacts
  <2>7. MaxSize(t.nodes[p]) = Full(level[p]) /\ Len(t.nodes[p].array) \in Nat /\ level[p] \in Nat
    BY <2>5, PageFacts
  <2>8. p # INVALID_PAGE_ID
    BY <2>5, <2>6 DEF INVALID_PAGE_ID
  <2>9. GrowStep(c) = IF Len(t.nodes[p].array) < Full(level[p])
                      THEN [tree |-> UnpinPages(t, {p}), page |-> INVALID_PAGE_ID]
                      ELSE [tree |-> SplitUp(t, p), page |-> t.nodes[p].parent]
    BY <2>2, <2>3, <2>7, <2>8 DEF GrowStep
  <2>10. PICK e : e = GrowStep(c)
    OBVIOUS
  <2>11. CASE Len(t.nodes[p].array) < Full(level[p])
    <3>1. e.tree = UnpinPages(t, {p}) /\ e.page = INVALID_PAGE_ID
      BY <2>9, <2>10, <2>11
    <3>2. PICK u : u = e.tree
      OBVIOUS
    <3>3. SamePages(t, u) /\ u.pins = SetToBag({p}) (-) SetToBag({p})
      BY <2>5, <2>6, <3>1, <3>2, UnpinEffect DEF SamePages
    <3>4. u.pins = EmptyBag
      <4>1. SetToBag({p}) (-) SetToBag({p}) = SetToBag({p} \ {p})
        BY PinSub
      <4>2. {p} \ {p} = {}
        OBVIOUS
      <4> QED BY <3>3, <4>1, <4>2, NoPins
    <3>5. \A y \in DOMAIN t.nodes : SizeOK(t, level, y)
      BY <2>5, <2>11 DEF SizeOK
    <3>6. Settled(u, part, level, d)
      BY <2>5, <3>3, <3>4, <3>5, WellSame DEF Settled, SamePages
    <3> QED BY <2>10, <3>1, <3>2, <3>6 DEF GrowState
  <2>12. CASE ~(Len(t.nodes[p].array) < Full(level[p]))
    <3>1. Len(t.nodes[p].array) = Full(level[p])
      <4>1. PICK l \in Nat : l = level[p]
        BY <2>7
      <4>2. Full(l) \in Nat
        BY Halves
      <4> QED BY <2>5, <2>7, <2>12, <4>1, <4>2
    <3>2. e.tree = SplitUp(t, p) /\ e.page = t.nodes[p].parent
      BY <2>9, <2>10, <2>12
    <3>3. CASE p = t.root
      <4>1. \E part2, level2 : Settled(e.tree, part2, level2, d)
        BY <2>4, <3>1, <3>2, <3>3, SplitRoot
      <4> QED BY <2>6, <2>10, <3>2, <3>3, <4>1 DEF GrowState
    <3>4. CASE p # t.root
      <4>1. \E part2, level2 : /\ Growing(e.tree, e.page, part2, level2, d)
                               /\ level2[e.page] = level[p] + 1
                               /\ level2[e.tree.root] = level[t.root]
        BY <2>4, <3>1, <3>2, <3>4, SplitInner
      <4> QED BY <2>1, <2>2, <2>3, <2>10, <4>1 DEF GrowState
    <3> QED BY <3>3, <3>4
  <2> QED BY <2>11, <2>12
<1> QED BY <1>1, <1>2 DEF GrowState

\* The states of the loop exist, and Grown takes the last one.
GrowCalls(g, N, c) == g = [n \in 0 .. N |-> IF n = 0 THEN c ELSE GrowStep(g[n - 1])]

\* The upward loop of an insertion has a sequence of intermediate states.
LEMMA GrownCalls ==
    ASSUME NEW c0, NEW M \in Nat
    PROVE  \E g : GrowCalls(g, M, c0)
<1> USE DEF GrowCalls
<1> DEFINE S == {N \in Nat : \E g : GrowCalls(g, N, c0)}
<1>1. 0 \in S
  <2>1. PICK g : g = [n \in 0 .. 0 |-> c0]
    OBVIOUS
  <2>2. g = [n \in 0 .. 0 |-> IF n = 0 THEN c0 ELSE GrowStep(g[n - 1])]
    BY <2>1
  <2> QED BY <2>2
<1>2. ASSUME NEW N \in Nat, N \in S PROVE N + 1 \in S
  <2>1. PICK g : g = [n \in 0 .. N |-> IF n = 0 THEN c0 ELSE GrowStep(g[n - 1])]
    BY <1>2
  <2>2. PICK g2 : g2 = [n \in 0 .. N + 1 |-> IF n <= N THEN g[n] ELSE GrowStep(g[N])]
    OBVIOUS
  <2>3. \A n \in 0 .. N : g2[n] = g[n]
    BY <2>2
  <2>4. ASSUME NEW n \in 0 .. N + 1 PROVE g2[n] = IF n = 0 THEN c0 ELSE GrowStep(g2[n - 1])
    <3>1. CASE n <= N
      <4>1. n \in 0 .. N /\ (n # 0 => n - 1 \in 0 .. N)
        BY <3>1
      <4>2. g[n] = IF n = 0 THEN c0 ELSE GrowStep(g[n - 1])
        BY <2>1, <4>1
      <4> QED BY <2>3, <4>1, <4>2
    <3>2. CASE n = N + 1
      <4>1. n # 0 /\ n - 1 = N /\ N \in 0 .. N /\ ~(n <= N)
        BY <3>2
      <4> QED BY <2>2, <2>3, <4>1
    <3> QED BY <3>1, <3>2
  <2>5. g2 = [n \in 0 .. N + 1 |-> IF n = 0 THEN c0 ELSE GrowStep(g2[n - 1])]
    BY <2>2, <2>4
  <2> QED BY <2>5
<1>3. \A N \in Nat : N \in S
  <2> HIDE DEF S
  <2> QED BY <1>1, <1>2, NatSetInduction
<1> QED BY <1>3

\* Grown is the last of these states.
LEMMA GrownUnfolded ==
    ASSUME NEW t, NEW p,
           \E g : g = [n \in 0 .. Levels(t) + 1 |->
                         IF n = 0 THEN [tree |-> t, page |-> p] ELSE GrowStep(g[n - 1])]
    PROVE  \E g : /\ g = [n \in 0 .. Levels(t) + 1 |->
                         IF n = 0 THEN [tree |-> t, page |-> p] ELSE GrowStep(g[n - 1])]
                  /\ Grown(t, p) = g[Levels(t) + 1].tree
  BY Zenon DEF Grown

\* A leaf with an entry more: whatever has to be split is.
LEMMA GrownOK ==
    ASSUME NEW t, NEW p, NEW part, NEW level, NEW d, Growing(t, p, part, level, d), level[p] = 0
    PROVE  \E part2, level2 : Settled(Grown(t, p), part2, level2, d)
<1>1. Well(t, part, level, d)
  BY DEF Growing
<1>2. PICK N : N = Levels(t) + 1
  OBVIOUS
<1>3. PICK h : h = level[t.root]
  OBVIOUS
<1>4. N \in Nat /\ h \in Nat /\ h < N
  BY <1>1, <1>2, <1>3, Height, WellFacts, PageFacts
<1>5. PICK c0 : c0 = [tree |-> t, page |-> p]
  OBVIOUS
<1>6. \E g : g = [n \in 0 .. N |-> IF n = 0 THEN c0 ELSE GrowStep(g[n - 1])]
  <2>1. \E g : GrowCalls(g, N, c0)
    BY <1>4, GrownCalls
  <2> QED BY <2>1 DEF GrowCalls
<1>7. PICK g : /\ g = [n \in 0 .. N |-> IF n = 0 THEN c0 ELSE GrowStep(g[n - 1])]
               /\ Grown(t, p) = g[N].tree
  BY <1>2, <1>5, <1>6, GrownUnfolded
<1> DEFINE S == {n \in Nat : n <= N => GrowState(g[n], n, h, d)}
<1>8. 0 \in S
  <2>1. g[0] = c0
    BY <1>4, <1>7
  <2>2. c0.tree = t /\ c0.page = p
    BY <1>5
  <2>3. GrowState(c0, 0, h, d)
    BY <1>3, <2>2 DEF GrowState
  <2> QED BY <2>1, <2>3
<1>9. ASSUME NEW n \in Nat, n \in S PROVE n + 1 \in S
  <2>1. SUFFICES ASSUME n + 1 <= N PROVE GrowState(g[n + 1], n + 1, h, d)
    OBVIOUS
  <2>2. GrowState(g[n], n, h, d)
    BY <1>4, <1>9, <2>1
  <2>3. n + 1 \in 0 .. N /\ n + 1 # 0 /\ (n + 1) - 1 = n
    BY <1>4, <2>1
  <2>4. g[n + 1] = GrowStep(g[n])
    BY <1>7, <2>3
  <2> QED BY <2>2, <2>4, GrowStepOK
<1>10. \A n \in Nat : n \in S
  <2> HIDE DEF S
  <2> QED BY <1>8, <1>9, NatSetInduction
<1>11. GrowState(g[N], N, h, d)
  BY <1>4, <1>10
<1>12. CASE g[N].page = INVALID_PAGE_ID /\ \E part2, level2 : Settled(g[N].tree, part2, level2, d)
  BY <1>7, <1>12
<1>13. CASE \E part2, level2 : /\ Growing(g[N].tree, g[N].page, part2, level2, d)
                               /\ level2[g[N].page] = N /\ level2[g[N].tree.root] = h
  <2>1. PICK part2, level2 : /\ Growing(g[N].tree, g[N].page, part2, level2, d)
                             /\ level2[g[N].page] = N /\ level2[g[N].tree.root] = h
    BY <1>13
  <2>2. level2[g[N].page] <= level2[g[N].tree.root]
    BY <2>1 DEF Growing, Well, Shape, Rooted
  <2> QED BY <1>4, <2>1, <2>2
<1> QED BY <1>11, <1>12, <1>13 DEF GrowState

-----------------------------------------------------------------------------
(* The leaf an operation changes.                                          *)

\* What is known of the leaf that a key leads to.
LeafFor(t, part, level, d, key, p) ==
    /\ p \in DOMAIN t.nodes /\ level[p] = 0 /\ key \in part[p] /\ part[p] \in SUBSET Keys
    /\ t.nodes[p].array \in Seq(Entry) /\ InOrder(t.nodes[p].array, 0)
    /\ LeafHolds(t.nodes[p].array, part[p], d)

\* FindLeafPage comes to the leaf whose part has the key.
LEMMA LeafFound ==
    ASSUME NEW t, NEW part, NEW level, NEW d, Well(t, part, level, d), NEW key \in Keys
    PROVE  LeafFor(t, part, level, d, key, FindLeafPage(t, key))
<1>1. PICK arr : arr = Arr(t)
  OBVIOUS
<1>2. PICK par : par = Par(t)
  OBVIOUS
<1>3. PICK D : D = DOMAIN t.nodes
  OBVIOUS
<1>4. PICK root : root = t.root
  OBVIOUS
<1>5. Shape(D, arr, par, root, part, level, d)
  BY <1>1, <1>2, <1>3, <1>4 DEF Well
<1>6. TreeOf(t, D, arr, root, level)
  BY <1>1, <1>3, <1>4 DEF TreeOf, Well, Arr
<1>7. PICK p : p = FindLeafPage(t, key)
  OBVIOUS
<1>8. p \in D /\ level[p] = 0 /\ key \in part[p]
  BY <1>5, <1>6, <1>7, FindLeaf
<1>9. arr[p] = t.nodes[p].array /\ arr[p] \in Seq(Entry) /\ part[p] \in SUBSET Keys
  BY <1>1, <1>3, <1>5, <1>8, EntryFacts DEF Arr
<1>10. InOrder(arr[p], 0) /\ LeafHolds(arr[p], part[p], d)
  BY <1>5, <1>8 DEF Shape, PartsOK, LeavesOK
<1> QED BY <1>3, <1>7, <1>8, <1>9, <1>10 DEF LeafFor

\* Insert and RemoveKey tell whether the key is there.
LEMMA InsertsNew ==
    ASSUME NEW t, NEW part, NEW level, NEW d, Well(t, part, level, d), NEW key \in Keys
    PROVE  /\ t.root # INVALID_PAGE_ID
           /\ Inserts(t, key) <=> key \notin DOMAIN d
<1>1. PICK p : p = FindLeafPage(t, key)
  OBVIOUS
<1>2. LeafFor(t, part, level, d, key, p)
  BY <1>1, LeafFound
<1>3. Has(t.nodes[p].array, key) <=> key \in DOMAIN d
  BY <1>2, LeafFind DEF LeafFor
<1>4. t.root # INVALID_PAGE_ID
  BY WellFacts DEF INVALID_PAGE_ID
<1> QED BY <1>1, <1>3, <1>4 DEF Inserts

\* SearchKey on a tree with pages.
LEMMA SearchFinds ==
    ASSUME NEW t, NEW part, NEW level, NEW d, Well(t, part, level, d), NEW key \in Keys
    PROVE  SearchKey(t, key) = IF key \in DOMAIN d THEN <<d[key]>> ELSE <<>>
<1>1. PICK p : p = FindLeafPage(t, key)
  OBVIOUS
<1>2. LeafFor(t, part, level, d, key, p)
  BY <1>1, LeafFound
<1>3. PICK a : a = t.nodes[p].array
  OBVIOUS
<1>4. /\ Has(a, key) <=> key \in DOMAIN d
      /\ Has(a, key) => a[KeyIndex(a, key)][2] = d[key]
  BY <1>2, <1>3, LeafFind DEF LeafFor
<1>5. t.root # INVALID_PAGE_ID
  BY InsertsNew
<1> QED BY <1>1, <1>3, <1>4, <1>5 DEF SearchKey

\* Changing one key in its leaf keeps the tree well formed.
LEMMA LeafSet ==
    ASSUME NEW t, NEW part, NEW level, NEW d, NEW d2, Well(t, part, level, d), NEW key, NEW p,
           LeafFor(t, part, level, d, key, p), DiffersAt(d, d2, key),
           NEW b \in Seq(Entry), InOrder(b, 0), LeafHolds(b, part[p], d2),
           NEW u, ArrayChanged(t, p, b, u)
    PROVE  Well(u, part, level, d2)
<1>1. PICK arr : arr = Arr(t)
  OBVIOUS
<1>2. PICK par : par = Par(t)
  OBVIOUS
<1>3. PICK D : D = DOMAIN t.nodes
  OBVIOUS
<1>4. PICK root : root = t.root
  OBVIOUS
<1>5. Shape(D, arr, par, root, part, level, d)
  BY <1>1, <1>2, <1>3, <1>4 DEF Well
<1>6. p \in D /\ level[p] = 0 /\ key \in part[p]
  BY <1>3 DEF LeafFor
<1>7. PICK arr2 : arr2 = [arr EXCEPT ![p] = b]
  OBVIOUS
<1>8. Shape(D, arr2, par, root, part, level, d2)
  BY <1>5, <1>6, <1>7, LeafChange
<1>9. Arr(u) = arr2
  BY <1>1, <1>3, <1>6, <1>7 DEF Arr, ArrayChanged
<1>10. Par(u) = par /\ Nxt(u) = Nxt(t)
  BY <1>2 DEF Par, Nxt, ArrayChanged
<1>11. \A x \in D : u.nodes[x].leaf <=> level[x] = 0
  BY <1>3 DEF ArrayChanged, Well
<1> QED BY <1>3, <1>4, <1>8, <1>9, <1>10, <1>11 DEF ArrayChanged, Well

\* The first step of InsertIntoLeaf and of RemoveKey: the leaf is fetched and
\* its array changed.
LEMMA LeafFetched ==
    ASSUME NEW t, IsTree(t), t.pins = EmptyBag, NEW p \in DOMAIN t.nodes, NEW b,
           NEW u, u = [FetchPage(t, p) EXCEPT !.nodes[p].array = b]
    PROVE  ArrayChanged(t, p, b, u) /\ u.pins = SetToBag({p})
<1>1. PICK v : v = FetchPage(t, p)
  OBVIOUS
<1>2. /\ IsTree(v) /\ v.root = t.root /\ v.header = t.header /\ v.nodes = t.nodes
      /\ v.pins = t.pins (+) SetToBag({p})
  BY <1>1, FetchEffect
<1>3. u = [v EXCEPT !.nodes[p].array = b]
  BY <1>1
<1>4. ArrayChanged(v, p, b, u) /\ u.pins = v.pins
  <2>1. IsTree(v) /\ p \in DOMAIN v.nodes
    BY <1>2
  <2> QED BY ONLY <1>3, <2>1, ArrayChange
<1>5. ArrayChanged(t, p, b, u)
  BY <1>2, <1>4 DEF ArrayChanged
<1>6. v.pins = SetToBag({p})
  <2>1. PICK A : A = {}
    OBVIOUS
  <2>2. SetToBag(A) (+) SetToBag({p}) = SetToBag(A \cup {p})
    BY <2>1, PinAdd
  <2>3. A \cup {p} = {p}
    BY <2>1
  <2> QED BY <1>2, <2>1, <2>2, <2>3, NoPins
<1> QED BY <1>4, <1>5, <1>6

\* Insertion into a tree that is not empty, with all its splits, leaves a
\* settled tree for the dictionary with the new value.
LEMMA InsertOK ==
    ASSUME NEW t, NEW part, NEW level, NEW d, NEW d2, Settled(t, part, level, d),
           NEW key \in Keys, NEW value \in Values[key], Gives(d, d2, key, value)
    PROVE  \E part2, level2 : Settled(InsertIntoLeaf(t, key, value), part2, level2, d2)
<1>1. Well(t, part, level, d) /\ t.pins = EmptyBag /\ \A y \in DOMAIN t.nodes : SizeOK(t, level, y)
  BY DEF Settled
<1>2. PICK p : p = FindLeafPage(t, key)
  OBVIOUS
<1>3. LeafFor(t, part, level, d, key, p)
  BY <1>1, <1>2, LeafFound
<1>4. PICK a : a = t.nodes[p].array
  OBVIOUS
<1>5. PICK b : b = LeafInsert(a, key, value)
  OBVIOUS
<1>6. /\ p \in DOMAIN t.nodes /\ level[p] = 0 /\ key \in part[p] /\ part[p] \in SUBSET Keys
      /\ a \in Seq(Entry) /\ InOrder(a, 0) /\ LeafHolds(a, part[p], d)
  BY <1>3, <1>4 DEF LeafFor
<1>7. Len(a) < leaf_max_size /\ Len(a) >= Least(t, level, p)
  BY <1>1, <1>4, <1>6 DEF SizeOK, Full
<1>8. /\ b \in Seq(Entry) /\ InOrder(b, 0) /\ LeafHolds(b, part[p], d2)
      /\ Len(b) \in {Len(a), Len(a) + 1} /\ Len(b) >= 1
  BY <1>5, <1>6, <1>7, LeafInsertLemma
<1>9. PICK u : u = [FetchPage(t, p) EXCEPT !.nodes[p].array = b]
  OBVIOUS
<1>10. IsTree(t)
  BY <1>1, WellFacts
<1>11. ArrayChanged(t, p, b, u) /\ u.pins = SetToBag({p})
  BY <1>1, <1>6, <1>9, <1>10, LeafFetched
<1>12. Well(u, part, level, d2)
  <2>1. DiffersAt(d, d2, key)
    BY DEF Gives
  <2> QED BY <1>1, <1>3, <1>8, <1>11, <2>1, LeafSet
<1>13. Growing(u, p, part, level, d2)
  <2>1. ASSUME NEW y \in DOMAIN u.nodes, y # p PROVE SizeOK(u, level, y)
    <3>1. y \in DOMAIN t.nodes /\ u.nodes[y].array = t.nodes[y].array /\ u.root = t.root
      BY <1>11, <2>1 DEF ArrayChanged
    <3> QED BY <1>1, <3>1 DEF SizeOK, Least
  <2>2. u.nodes[p].array = b /\ u.root = t.root /\ p \in DOMAIN u.nodes
    BY <1>6, <1>11 DEF ArrayChanged
  <2>3. Len(a) \in Nat /\ Full(level[p]) = leaf_max_size /\ leaf_max_size \in Nat
    BY <1>6, TreeAssumption DEF Full
  <2>4. Least(t, level, p) \in Nat
    BY <1>6, Halves DEF Least
  <2>5. Least(u, level, p) = Least(t, level, p)
    BY <2>2 DEF Least
  <2>6. Len(b) <= Full(level[p]) /\ Len(b) >= Least(u, level, p)
    BY <1>7, <1>8, <2>3, <2>4, <2>5
  <2> QED BY <1>11, <1>12, <2>1, <2>2, <2>6 DEF Growing
<1>14. InsertIntoLeaf(t, key, value) = Grown(u, p)
  <2>1. FetchPage(t, p).nodes[p].array = a
    BY <1>4, <1>10, FetchEffect
  <2>2. u = [FetchPage(t, p) EXCEPT !.nodes[p].array = LeafInsert(@, key, value)]
    BY <1>5, <1>9, <2>1
  <2> QED BY <1>2, <2>2 DEF InsertIntoLeaf
<1> QED BY <1>6, <1>13, <1>14, GrownOK

-----------------------------------------------------------------------------
(* An empty tree and its first leaf.                                       *)

Emptied(t, d) ==
    /\ IsTree(t) /\ t.root = INVALID_PAGE_ID /\ t.header = INVALID_PAGE_ID
    /\ DOMAIN t.nodes = {} /\ t.pins = EmptyBag
    /\ \A k \in Keys : k \notin DOMAIN d

\* Insertion into the empty tree leaves a settled tree.
LEMMA StartOK ==
    ASSUME NEW t, NEW d, NEW d2, Emptied(t, d),
           NEW key \in Keys, NEW value \in Values[key], Gives(d, d2, key, value)
    PROVE  \E part2, level2 : Settled(StartNewTree(t, key, value), part2, level2, d2)
<1>1. IsTree(t) /\ DOMAIN t.nodes = {} /\ t.pins = EmptyBag /\ \A k \in Keys : k \notin DOMAIN d
  BY DEF Emptied
<1>2. PICK p : p = NewPageId(t)
  OBVIOUS
<1>3. p \in Nat /\ p # 0 /\ p \notin DOMAIN t.nodes
  <2>1. IsFiniteSet(DOMAIN t.nodes) /\ DOMAIN t.nodes \subseteq Nat
    BY <1>1, FS_EmptySet
  <2> QED BY <1>2, <2>1, NewId
<1>4. PICK b : b = <<<<key, value>>>>
  OBVIOUS
<1>5. b \in Seq(Entry) /\ Len(b) = 1 /\ b[1][1] = key /\ b[1][2] = value
  <2>1. key \in Int /\ value \in Datum
    BY TreeAssumption DEF Datum
  <2>2. <<key, value>> \in Entry
    BY <2>1 DEF Entry
  <2> QED BY <1>4, <2>2
<1>6. PICK n : n = [leaf |-> TRUE, parent |-> INVALID_PAGE_ID, next |-> INVALID_PAGE_ID, array |-> b]
  OBVIOUS
<1>7. /\ DOMAIN n = PageFields /\ n.leaf = TRUE /\ n.parent = INVALID_PAGE_ID
      /\ n.next = INVALID_PAGE_ID /\ n.array = b
  BY <1>6 DEF PageFields
<1>8. PICK v : v = NewNode(t, p, n)
  OBVIOUS
<1>9. NodeAdded(t, p, n, v)
  BY ONLY <1>1, <1>3, <1>7, <1>8, NewNodeEffect
<1>10. /\ IsTree(v) /\ DOMAIN v.nodes = {p} /\ v.nodes[p] = n /\ v.pins = t.pins (+) SetToBag({p})
  BY <1>1, <1>9 DEF NodeAdded
<1>11. PICK w : w = UnpinPages(v, {p})
  OBVIOUS
<1>12. IsTree(w) /\ w.nodes = v.nodes /\ w.pins = v.pins (-) SetToBag({p})
  BY <1>10, <1>11, UnpinEffect
<1>13. PICK u : u = UpdateRootPageId(w, p)
  OBVIOUS
<1>14. u = StartNewTree(t, key, value)
  BY <1>2, <1>4, <1>6, <1>8, <1>11, <1>13 DEF StartNewTree
<1>15. IsTree(u) /\ u.root = p /\ u.header = p /\ u.pins = w.pins /\ u.nodes = w.nodes
  BY <1>12, <1>13, RootEffect
<1>16. u.pins = EmptyBag
  <2>1. PICK A : A = {}
    OBVIOUS
  <2>2. SetToBag(A) (+) SetToBag({p}) = SetToBag(A \cup {p})
    BY <2>1, PinAdd
  <2>3. A \cup {p} = {p} /\ {p} \ {p} = A
    BY <2>1
  <2>4. SetToBag({p}) (-) SetToBag({p}) = SetToBag({p} \ {p})
    BY PinSub
  <2> QED BY <1>1, <1>10, <1>12, <1>15, <2>1, <2>2, <2>3, <2>4, NoPins
<1>17. /\ DOMAIN u.nodes = {p} /\ u.nodes[p].leaf = TRUE /\ u.nodes[p].parent = INVALID_PAGE_ID
       /\ u.nodes[p].next = INVALID_PAGE_ID /\ u.nodes[p].array = b
  BY <1>7, <1>10, <1>12, <1>15
<1>18. PICK part2 : part2 = [x \in {p} |-> Keys]
  OBVIOUS
<1>19. PICK level2 : level2 = [x \in {p} |-> 0]
  OBVIOUS
<1>20. Arr(u) = [x \in {p} |-> b] /\ Par(u) = [x \in {p} |-> INVALID_PAGE_ID]
       /\ Nxt(u) = [x \in {p} |-> INVALID_PAGE_ID]
  BY <1>17 DEF Arr, Par, Nxt
<1>21. InOrder(b, 0) /\ LeafHolds(b, Keys, d2)
  <2>1. \A i \in 1 .. Len(b) : i = 1
    BY <1>5
  <2>2. InOrder(b, 0)
    BY <2>1 DEF InOrder
  <2>3. key \in DOMAIN d2 /\ d2[key] = value /\ \A k \in Keys : k \in DOMAIN d2 => k = key
    BY <1>1 DEF Gives, DiffersAt
  <2>4. \A i \in 1 .. Len(b) : b[i][1] \in Keys /\ b[i][1] \in DOMAIN d2 /\ b[i][2] = d2[b[i][1]]
    BY <1>5, <2>1, <2>3
  <2>5. \A k \in Keys : k \in DOMAIN d2 => \E i \in 1 .. Len(b) : b[i][1] = k
    BY <1>5, <2>3
  <2> QED BY <2>2, <2>4, <2>5 DEF LeafHolds
<1>22. Shape({p}, Arr(u), Par(u), p, part2, level2, d2)
  <2>1. PICK arr : arr = Arr(u)
    OBVIOUS
  <2>2. PICK par : par = Par(u)
    OBVIOUS
  <2>3. arr = [x \in {p} |-> b] /\ par = [x \in {p} |-> INVALID_PAGE_ID] /\ Keys # {}
    BY <1>20, <2>1, <2>2
  <2>4. Shape({p}, arr, par, p, part2, level2, d2)
    BY ONLY <1>3, <1>5, <1>18, <1>19, <1>21, <2>3, FirstLeaf
  <2> QED BY <2>1, <2>2, <2>4
<1>23. Chain({p}, Nxt(u), part2, level2)
  <2>1. Topmost(Keys)
    BY DEF Topmost
  <2> QED BY <1>18, <1>20, <2>1 DEF Chain, Linked, Ended, INVALID_PAGE_ID
<1>24. level2[p] = 0
  BY <1>19
<1>25. Well(u, part2, level2, d2)
  BY <1>15, <1>17, <1>22, <1>23, <1>24 DEF Well
<1>26. SizeOK(u, level2, p)
  <2>1. Full(level2[p]) >= 2 /\ Full(level2[p]) \in Nat /\ Least(u, level2, p) = 1
    BY <1>15, <1>24, TreeAssumption DEF Least, Full
  <2>2. Len(u.nodes[p].array) = 1
    BY <1>5, <1>17
  <2> QED BY <2>1, <2>2 DEF SizeOK
<1>27. Settled(u, part2, level2, d2)
  BY <1>16, <1>17, <1>25, <1>26 DEF Settled
<1> QED BY <1>14, <1>27

-----------------------------------------------------------------------------
(* Removal: a page merges with its neighbour.                              *)

\* The entries that MoveAllTo moves, with the separator key in front of an
\* inner page's.
MovedAll(c, l, key) == IF l = 0 THEN c ELSE WithMiddleKey(c, key)

Joined(b, c, l, key, a) ==
    /\ a \in Seq(Entry) /\ Len(a) = Len(b) + Len(c)
    /\ CutInto(a, b, c, Len(b), l)
    /\ l > 0 => a[Len(b) + 1][1] = key
    /\ \A k \in 1 .. Len(b) : a[k] = b[k]
    /\ \A k \in 1 .. Len(c) : a[Len(b) + k] = MovedAll(c, l, key)[k]

MovedEntries(c, l, key, g) ==
    /\ g \in Seq(Entry) /\ Len(g) = Len(c)
    /\ \A k \in 1 .. Len(c) : /\ g[k][2] = c[k][2] /\ (k > 1 \/ l = 0 => g[k] = c[k])
                              /\ (k = 1 /\ l > 0 => g[k] = <<key, c[k][2]>>)

\* The entries that a merge appends: those of the right page, the first of an
\* inner page with the separator for its key.
LEMMA MovedLemma ==
    ASSUME NEW c \in Seq(Entry), NEW l \in Nat, l > 0 => Len(c) > 0, NEW key \in Int,
           NEW g, g = MovedAll(c, l, key)
    PROVE  MovedEntries(c, l, key, g)
<1>1. Len(c) \in Nat
  OBVIOUS
<1>2. CASE l = 0
  <2>1. g = c
    BY <1>2 DEF MovedAll
  <2> QED BY <1>1, <1>2, <2>1 DEF MovedEntries
<1>3. CASE l > 0
  <2>1. PICK n : n = 1
    OBVIOUS
  <2>2. n \in 1 .. Len(c)
    BY <1>1, <1>3, <2>1
  <2>3. /\ SetKeyAt(c, n, key) \in Seq(Entry) /\ Len(SetKeyAt(c, n, key)) = Len(c)
        /\ \A k \in 1 .. Len(c) :
              SetKeyAt(c, n, key)[k] = IF k = n THEN <<key, c[n][2]>> ELSE c[k]
    BY <2>2, SetKeyLemma
  <2>4. g = SetKeyAt(c, n, key)
    BY <1>3, <2>1 DEF MovedAll, WithMiddleKey
  <2>5. ASSUME NEW k \in 1 .. Len(c)
        PROVE  /\ g[k][2] = c[k][2] /\ (k > 1 \/ l = 0 => g[k] = c[k])
               /\ (k = 1 /\ l > 0 => g[k] = <<key, c[k][2]>>)
    <3>1. g[k] = IF k = 1 THEN <<key, c[1][2]>> ELSE c[k]
      BY <2>1, <2>3, <2>4
    <3>2. CASE k = 1
      BY <3>1, <3>2, <1>3
    <3>3. CASE k > 1
      BY <3>1, <3>3, <1>3
    <3> QED BY <1>1, <3>2, <3>3
  <2> QED BY <2>3, <2>4, <2>5 DEF MovedEntries
<1> QED BY <1>2, <1>3

\* The array of a merged page is the left one followed by these entries.
LEMMA JoinLemma ==
    ASSUME NEW b \in Seq(Entry), NEW c \in Seq(Entry), NEW l \in Nat, l > 0 => Len(c) > 0,
           NEW key \in Int, NEW a, a = b \o MovedAll(c, l, key)
    PROVE  Joined(b, c, l, key, a)
<1>1. PICK g : g = MovedAll(c, l, key)
  OBVIOUS
<1>2. MovedEntries(c, l, key, g)
  BY <1>1, MovedLemma
<1>3. Len(b) \in Nat /\ Len(c) \in Nat
  OBVIOUS
<1>4. g \in Seq(Entry) /\ Len(g) = Len(c)
  BY <1>2 DEF MovedEntries
<1>5. /\ a \in Seq(Entry) /\ Len(a) = Len(b) + Len(c)
      /\ \A k \in 1 .. Len(b) + Len(c) : a[k] = IF k <= Len(b) THEN b[k] ELSE g[k - Len(b)]
  <2>1. /\ b \o g \in Seq(Entry) /\ Len(b \o g) = Len(b) + Len(g)
        /\ \A k \in 1 .. Len(b) + Len(g) :
              (b \o g)[k] = IF k <= Len(b) THEN b[k] ELSE g[k - Len(b)]
    BY <1>4, ConcatLemma
  <2> QED BY <1>1, <1>4, <2>1
<1>6. ASSUME NEW k \in 1 .. Len(b) PROVE a[k] = b[k]
  <2>1. k \in 1 .. Len(b) + Len(c) /\ k <= Len(b)
    BY <1>3
  <2> QED BY <1>5, <2>1
<1>7. ASSUME NEW k \in 1 .. Len(c) PROVE a[Len(b) + k] = g[k]
  <2>1. Len(b) + k \in 1 .. Len(b) + Len(c) /\ ~(Len(b) + k <= Len(b)) /\ (Len(b) + k) - Len(b) = k
    BY <1>3
  <2> QED BY <1>5, <2>1
<1>8. ASSUME NEW k \in 1 .. Len(c) PROVE SameEntry(c[k], a[Len(b) + k], k > 1 \/ l = 0)
  <2>1. g[k][2] = c[k][2] /\ (k > 1 \/ l = 0 => g[k] = c[k])
    BY <1>2 DEF MovedEntries
  <2> QED BY <1>7, <2>1 DEF SameEntry
<1>9. CutInto(a, b, c, Len(b), l)
  <2>1. Len(a) - Len(b) = Len(c)
    BY <1>3, <1>5
  <2> QED BY <1>6, <1>8, <2>1 DEF CutInto
<1>10. l > 0 => a[Len(b) + 1][1] = key
  <2>1. SUFFICES ASSUME l > 0 PROVE a[Len(b) + 1][1] = key
    OBVIOUS
  <2>2. 1 \in 1 .. Len(c)
    BY <1>3, <2>1
  <2>3. g[1] = <<key, c[1][2]>>
    <3>1. \A k \in 1 .. Len(c) : k = 1 /\ l > 0 => g[k] = <<key, c[k][2]>>
      BY <1>2 DEF MovedEntries
    <3> QED BY ONLY <2>1, <2>2, <3>1
  <2>4. a[Len(b) + 1] = g[1]
    BY <1>7, <2>2
  <2> QED BY ONLY <2>3, <2>4
<1> QED BY <1>1, <1>5, <1>6, <1>7, <1>9, <1>10 DEF Joined

\* The pages that call r their parent are its children.
LEMMA ParentOf ==
    ASSUME NEW t, NEW part, NEW level, NEW d, Well(t, part, level, d),
           NEW r \in DOMAIN t.nodes, NEW x \in DOMAIN t.nodes
    PROVE  t.nodes[x].parent = r <=>
              level[r] > 0 /\ \E i \in 1 .. Len(t.nodes[r].array) : t.nodes[r].array[i][2] = x
<1>1. ASSUME t.nodes[x].parent = r
      PROVE  level[r] > 0 /\ \E i \in 1 .. Len(t.nodes[r].array) : t.nodes[r].array[i][2] = x
  <2>1. x # t.root
    <3>1. r # INVALID_PAGE_ID
      BY WellFacts DEF INVALID_PAGE_ID
    <3>2. t.nodes[t.root].parent = INVALID_PAGE_ID
      BY WellFacts
    <3> QED BY <1>1, <3>1, <3>2
  <2>2. PICK j : j = ValueIndex(t.nodes[r].array, x)
    OBVIOUS
  <2>3. /\ level[r] = level[x] + 1
        /\ j \in 1 .. Len(t.nodes[r].array) /\ t.nodes[r].array[j][2] = x
    BY <1>1, <2>1, <2>2, PlaceInParent
  <2>4. level[x] \in Nat
    BY PageFacts
  <2> QED BY <2>3, <2>4
<1>2. ASSUME level[r] > 0, NEW i \in 1 .. Len(t.nodes[r].array), t.nodes[r].array[i][2] = x
      PROVE  t.nodes[x].parent = r
  BY <1>2, ChildBelow
<1> QED BY <1>1, <1>2

\* u is t with all of r moved to l, r being entry i of f.
MergeOf(t, l, r, f, i, g, u) ==
    /\ IsTree(u) /\ u.root = t.root /\ u.header = t.header
    /\ u.pins = t.pins (-) SetToBag({l, r})
    /\ DOMAIN u.nodes = DOMAIN t.nodes \ {r}
    /\ u.nodes[l].array = t.nodes[l].array \o g /\ u.nodes[l].next = t.nodes[r].next
    /\ u.nodes[f].array = RemoveAt(t.nodes[f].array, i)
    /\ \A x \in DOMAIN t.nodes : x # r =>
          /\ u.nodes[x].leaf = t.nodes[x].leaf
          /\ x # l => u.nodes[x].next = t.nodes[x].next
          /\ x # l /\ x # f => u.nodes[x].array = t.nodes[x].array
          /\ u.nodes[x].parent = IF ~t.nodes[r].leaf /\ x \in Children(g)
                                 THEN l ELSE t.nodes[x].parent

\* What Coalesce does to the pages, field by field.
LEMMA MergeEffect ==
    ASSUME NEW t, IsTree(t), NEW l \in DOMAIN t.nodes, NEW r \in DOMAIN t.nodes,
           NEW f \in DOMAIN t.nodes, l # r, l # f, r # f, NEW i, NEW g,
           g = (IF t.nodes[r].leaf THEN t.nodes[r].array
                ELSE WithMiddleKey(t.nodes[r].array, t.nodes[f].array[i][1])),
           NEW u, u = Coalesce(t, l, r, f, i)
    PROVE  MergeOf(t, l, r, f, i, g, u)
<1>1. PICK n : n = t.nodes[r]
  OBVIOUS
<1>a. PICK b : b = t.nodes[l].array \o g
  OBVIOUS
<1>b. PICK c : c = RemoveAt(t.nodes[f].array, i)
  OBVIOUS
<1>c. PICK k : k = n.next
  OBVIOUS
<1>d. PICK z : z = <<>>
  OBVIOUS
<1>2. PICK t1 : t1 = [t EXCEPT !.nodes[l].array = b, !.nodes[l].next = k,
                               !.nodes[r].array = z, !.nodes[f].array = c]
  OBVIOUS
<1>e. PICK s1 : s1 = [t EXCEPT !.nodes[l].array = b]
  OBVIOUS
<1>f. PICK s2 : s2 = [s1 EXCEPT !.nodes[l].next = k]
  OBVIOUS
<1>g. PICK s3 : s3 = [s2 EXCEPT !.nodes[r].array = z]
  OBVIOUS
<1>h. t1 = [s3 EXCEPT !.nodes[f].array = c]
  BY <1>2, <1>e, <1>f, <1>g
<1>3. /\ DOMAIN t1 = Fields /\ t1.root = t.root /\ t1.header = t.header /\ t1.pins = t.pins
      /\ DOMAIN t1.nodes = DOMAIN t.nodes
  BY <1>2 DEF IsTree, Fields
<1>i. ArrayChanged(t, l, b, s1)
  BY <1>e, ArrayChange
<1>j. /\ DOMAIN s2.nodes = DOMAIN t.nodes /\ IsTree(s2) /\ s2.nodes[l].array = b /\ s2.nodes[l].next = k
      /\ \A x \in DOMAIN t.nodes :
            /\ x # l => s2.nodes[x] = s1.nodes[x]
            /\ s2.nodes[x].leaf = s1.nodes[x].leaf /\ s2.nodes[x].parent = s1.nodes[x].parent
  BY <1>f, <1>i DEF ArrayChanged, IsTree, Fields, PageFields
<1>k. ArrayChanged(s2, r, z, s3)
  <2>1. IsTree(s2) /\ r \in DOMAIN s2.nodes
    BY <1>j
  <2> QED BY ONLY <1>g, <2>1, ArrayChange
<1>l. ArrayChanged(s3, f, c, t1)
  <2>1. IsTree(s3) /\ f \in DOMAIN s3.nodes
    BY <1>j, <1>k DEF ArrayChanged
  <2> QED BY ONLY <1>h, <2>1, ArrayChange
<1>m. ASSUME NEW x \in DOMAIN t.nodes
      PROVE  /\ s1.nodes[x].leaf = t.nodes[x].leaf /\ s1.nodes[x].parent = t.nodes[x].parent
             /\ s1.nodes[x].next = t.nodes[x].next /\ (x # l => s1.nodes[x].array = t.nodes[x].array)
  BY <1>i DEF ArrayChanged
<1>n. ASSUME NEW x \in DOMAIN t.nodes
      PROVE  /\ t1.nodes[x].leaf = s2.nodes[x].leaf /\ t1.nodes[x].parent = s2.nodes[x].parent
             /\ t1.nodes[x].next = s2.nodes[x].next
             /\ (x # r /\ x # f => t1.nodes[x].array = s2.nodes[x].array)
  <2>1. /\ s3.nodes[x].leaf = s2.nodes[x].leaf /\ s3.nodes[x].parent = s2.nodes[x].parent
        /\ s3.nodes[x].next = s2.nodes[x].next /\ (x # r => s3.nodes[x].array = s2.nodes[x].array)
    BY <1>j, <1>k DEF ArrayChanged
  <2>2. x \in DOMAIN s3.nodes
    BY <1>j, <1>k DEF ArrayChanged
  <2>3. /\ t1.nodes[x].leaf = s3.nodes[x].leaf /\ t1.nodes[x].parent = s3.nodes[x].parent
        /\ t1.nodes[x].next = s3.nodes[x].next /\ (x # f => t1.nodes[x].array = s3.nodes[x].array)
    BY <1>l, <2>2 DEF ArrayChanged
  <2> QED BY <2>1, <2>3
<1>4. t1.nodes[l].array = t.nodes[l].array \o g /\ t1.nodes[l].next = n.next
  BY <1>a, <1>c, <1>j, <1>n
<1>5. t1.nodes[f].array = RemoveAt(t.nodes[f].array, i)
  BY <1>b, <1>l DEF ArrayChanged
<1>8. IsTree(t1)
  BY <1>l DEF ArrayChanged
<1>9. PICK t2 : t2 = IF n.leaf THEN t1 ELSE Adopt(t1, l, Children(g))
  OBVIOUS
<1>10. /\ IsTree(t2) /\ t2.root = t1.root /\ t2.header = t1.header /\ t2.pins = t1.pins
       /\ DOMAIN t2.nodes = DOMAIN t1.nodes
       /\ \A x \in DOMAIN t1.nodes :
             /\ t2.nodes[x].parent = IF ~n.leaf /\ x \in Children(g) THEN l ELSE t1.nodes[x].parent
             /\ t2.nodes[x].leaf = t1.nodes[x].leaf /\ t2.nodes[x].array = t1.nodes[x].array
             /\ t2.nodes[x].next = t1.nodes[x].next
  <2>1. CASE n.leaf
    BY <1>8, <1>9, <2>1
  <2>2. CASE ~n.leaf
    <3>1. t2 = Adopt(t1, l, Children(g))
      BY <1>9, <2>2
    <3>2. PICK C : C = Children(g)
      OBVIOUS
    <3>3. t2 = Adopt(t1, l, C)
      BY <3>1, <3>2
    <3>4. /\ IsTree(t2) /\ t2.root = t1.root /\ t2.header = t1.header /\ t2.pins = t1.pins
          /\ DOMAIN t2.nodes = DOMAIN t1.nodes
          /\ \A x \in DOMAIN t1.nodes :
                /\ t2.nodes[x].parent = IF x \in C THEN l ELSE t1.nodes[x].parent
                /\ t2.nodes[x].leaf = t1.nodes[x].leaf /\ t2.nodes[x].array = t1.nodes[x].array
                /\ t2.nodes[x].next = t1.nodes[x].next
      BY ONLY <1>8, <3>3, AdoptEffect
    <3> QED BY ONLY <2>2, <3>2, <3>4
  <2> QED BY <2>1, <2>2
<1>11. t2 = MoveAllTo(t, l, r, f, i)
  <2>1. t1 = [t EXCEPT !.nodes[l].array = @ \o g, !.nodes[l].next = n.next,
                       !.nodes[r].array = <<>>, !.nodes[f].array = RemoveAt(@, i)]
    BY ONLY <1>2, <1>a, <1>b, <1>c, <1>d
  <2>2. PICK m : m = t.nodes[f].array[i][1]
    OBVIOUS
  <2>3. g = IF n.leaf THEN n.array ELSE WithMiddleKey(n.array, m)
    BY <1>1, <2>2
  <2>4. CASE n.leaf
    <3>1. g = t.nodes[r].array
      BY <1>1, <2>3, <2>4
    <3>2. MoveAllTo(t, l, r, f, i) =
             [t EXCEPT !.nodes[l].array = @ \o t.nodes[r].array, !.nodes[l].next = t.nodes[r].next,
                       !.nodes[r].array = <<>>, !.nodes[f].array = RemoveAt(@, i)]
      BY ONLY <1>1, <2>4 DEF MoveAllTo
    <3> QED BY ONLY <1>1, <1>9, <2>1, <2>4, <3>1, <3>2
  <2>5. CASE ~n.leaf
    <3>1. g = WithMiddleKey(t.nodes[r].array, t.nodes[f].array[i][1])
      BY <1>1, <2>2, <2>3, <2>5
    <3>2. MoveAllTo(t, l, r, f, i) =
             Adopt([t EXCEPT !.nodes[l].array = @ \o WithMiddleKey(t.nodes[r].array, t.nodes[f].array[i][1]),
                             !.nodes[l].next = t.nodes[r].next,
                             !.nodes[r].array = <<>>, !.nodes[f].array = RemoveAt(@, i)],
                   l, Children(WithMiddleKey(t.nodes[r].array, t.nodes[f].array[i][1])))
      BY ONLY <1>1, <2>5 DEF MoveAllTo
    <3> QED BY ONLY <1>1, <1>9, <2>1, <2>5, <3>1, <3>2
  <2> QED BY <2>4, <2>5
<1>12. PICK t3 : t3 = UnpinPages(t2, {l, r})
  OBVIOUS
<1>13. /\ IsTree(t3) /\ t3.root = t2.root /\ t3.header = t2.header /\ t3.nodes = t2.nodes
       /\ t3.pins = t2.pins (-) SetToBag({l, r})
  BY <1>10, <1>12, UnpinEffect
<1>14. u = Drop(t3, r)
  BY <1>11, <1>12 DEF Coalesce
<1>15. /\ IsTree(u) /\ u.root = t3.root /\ u.header = t3.header /\ u.pins = t3.pins
       /\ DOMAIN u.nodes = DOMAIN t3.nodes \ {r}
       /\ \A x \in DOMAIN t3.nodes : x # r => u.nodes[x] = t3.nodes[x]
  BY <1>13, <1>14, DropEffect
<1>16. /\ u.root = t.root /\ u.header = t.header /\ u.pins = t.pins (-) SetToBag({l, r})
       /\ DOMAIN u.nodes = DOMAIN t.nodes \ {r} /\ IsTree(u)
  BY <1>3, <1>10, <1>13, <1>15
<1>17. ASSUME NEW x \in DOMAIN t.nodes, x # r
       PROVE  /\ u.nodes[x].parent = IF ~n.leaf /\ x \in Children(g) THEN l ELSE t1.nodes[x].parent
              /\ u.nodes[x].leaf = t1.nodes[x].leaf /\ u.nodes[x].array = t1.nodes[x].array
              /\ u.nodes[x].next = t1.nodes[x].next
  BY <1>3, <1>10, <1>13, <1>15, <1>17
<1>18. ASSUME NEW x \in DOMAIN t.nodes, x # r
       PROVE  /\ t1.nodes[x].leaf = t.nodes[x].leaf /\ t1.nodes[x].parent = t.nodes[x].parent
              /\ x # l => t1.nodes[x].next = t.nodes[x].next
              /\ x # l /\ x # f => t1.nodes[x].array = t.nodes[x].array
  <2>1. x # l => s2.nodes[x].next = t.nodes[x].next
    BY <1>j, <1>m
  <2>2. x # l => s2.nodes[x].array = t.nodes[x].array
    BY <1>j, <1>m
  <2>3. s2.nodes[x].leaf = t.nodes[x].leaf /\ s2.nodes[x].parent = t.nodes[x].parent
    BY <1>j, <1>m
  <2> QED BY <1>n, <1>18, <2>1, <2>2, <2>3
<1>19. ASSUME NEW x \in DOMAIN t.nodes, x # r
       PROVE  /\ u.nodes[x].leaf = t.nodes[x].leaf
              /\ x # l => u.nodes[x].next = t.nodes[x].next
              /\ x # l /\ x # f => u.nodes[x].array = t.nodes[x].array
              /\ u.nodes[x].parent = IF ~t.nodes[r].leaf /\ x \in Children(g)
                                     THEN l ELSE t.nodes[x].parent
  BY ONLY x \in DOMAIN t.nodes, x # r, <1>1, <1>17, <1>18
<1>20. u.nodes[l].array = t.nodes[l].array \o g /\ u.nodes[l].next = t.nodes[r].next
  BY <1>1, <1>4, <1>17
<1>21. u.nodes[f].array = RemoveAt(t.nodes[f].array, i)
  BY <1>5, <1>17
<1> QED BY ONLY <1>16, <1>19, <1>20, <1>21 DEF MergeOf

\* A merge leaves a tree, with a page less on the level and an entry less in f.
MergedPages(t, l, r, f, u, level, level2) ==
    /\ DOMAIN u.nodes = DOMAIN t.nodes \ {r} /\ u.root = t.root /\ t.root # r
    /\ \A x \in DOMAIN u.nodes : level2[x] = level[x]
    /\ Len(u.nodes[l].array) = Len(t.nodes[l].array) + Len(t.nodes[r].array)
    /\ Len(u.nodes[f].array) = Len(t.nodes[f].array) - 1
    /\ \A x \in DOMAIN u.nodes : x # l /\ x # f => u.nodes[x].array = t.nodes[x].array

\* l and r are the children of f at entries j and j + 1.
Neighbours(t, l, r, f, j, level) ==
    /\ l \in DOMAIN t.nodes /\ r \in DOMAIN t.nodes /\ f \in DOMAIN t.nodes /\ level[f] > 0
    /\ j \in Nat /\ 0 < j /\ j < Len(t.nodes[f].array)
    /\ t.nodes[f].array[j][2] = l /\ t.nodes[f].array[j + 1][2] = r

\* What holds of two neighbouring children of one page.
LEMMA NeighbourFacts ==
    ASSUME NEW t, NEW part, NEW level, NEW d, Well(t, part, level, d),
           NEW l, NEW r, NEW f, NEW j, Neighbours(t, l, r, f, j, level)
    PROVE  /\ l # r /\ l # f /\ r # f /\ r # t.root /\ l # t.root
           /\ level[l] = level[r] /\ level[l] + 1 = level[f] /\ level[l] \in Nat
           /\ j \in 1 .. Len(t.nodes[f].array) /\ j + 1 \in 1 .. Len(t.nodes[f].array)
           /\ t.nodes[f].array[j + 1][1] \in Int
           /\ t.nodes[l].array \in Seq(Entry) /\ t.nodes[r].array \in Seq(Entry)
           /\ t.nodes[f].array \in Seq(Entry)
           /\ (level[l] > 0 => Len(t.nodes[l].array) > 0)
           /\ (level[l] > 0 => Len(t.nodes[r].array) > 0)
           /\ (t.nodes[l].leaf <=> level[l] = 0) /\ (t.nodes[r].leaf <=> level[l] = 0)
           /\ t.nodes[l].parent = f /\ t.nodes[r].parent = f
<1>1. /\ l \in DOMAIN t.nodes /\ r \in DOMAIN t.nodes /\ f \in DOMAIN t.nodes /\ level[f] > 0
      /\ j \in Nat /\ 0 < j /\ j < Len(t.nodes[f].array)
      /\ t.nodes[f].array[j][2] = l /\ t.nodes[f].array[j + 1][2] = r
  BY DEF Neighbours
<1>2. /\ t.nodes[f].array \in Seq(Entry) /\ Len(t.nodes[f].array) \in Nat /\ level[f] \in Nat
  BY <1>1, PageFacts
<1>3. j \in 1 .. Len(t.nodes[f].array) /\ j + 1 \in 1 .. Len(t.nodes[f].array) /\ j # j + 1
  BY <1>1, <1>2
<1>4. l # f /\ level[l] + 1 = level[f] /\ t.nodes[l].parent = f
  BY <1>1, <1>3, ChildBelow
<1>5. r # f /\ level[r] + 1 = level[f] /\ t.nodes[r].parent = f
  BY <1>1, <1>3, ChildBelow
<1>6. /\ level[l] \in Nat /\ t.nodes[l].array \in Seq(Entry) /\ (t.nodes[l].leaf <=> level[l] = 0)
  BY <1>1, PageFacts
<1>7. /\ level[r] \in Nat /\ t.nodes[r].array \in Seq(Entry) /\ (t.nodes[r].leaf <=> level[r] = 0)
  BY <1>1, PageFacts
<1>8. level[l] = level[r]
  BY <1>4, <1>5, <1>6, <1>7
<1>9. f # INVALID_PAGE_ID /\ t.nodes[t.root].parent = INVALID_PAGE_ID
  BY <1>1, WellFacts DEF INVALID_PAGE_ID
<1>10. PICK arr : arr = Arr(t)
  OBVIOUS
<1>11. PICK par : par = Par(t)
  OBVIOUS
<1>12. Shape(DOMAIN t.nodes, arr, par, t.root, part, level, d)
  BY <1>10, <1>11 DEF Well
<1>13. arr[f] = t.nodes[f].array /\ arr[l] = t.nodes[l].array /\ arr[r] = t.nodes[r].array
  BY <1>1, <1>10 DEF Arr
<1>14. l # r
  <2>1. j \in 1 .. Len(arr[f]) /\ j + 1 \in 1 .. Len(arr[f])
    BY <1>3, <1>13
  <2>2. arr[f][j][2] # arr[f][j + 1][2]
    BY <1>1, <1>3, <1>12, <2>1, DistinctChildren
  <2> QED BY <1>1, <1>13, <2>2
<1>15. t.nodes[f].array[j + 1][1] \in Int
  BY <1>2, <1>3, KeysAreInts
<1>16. level[l] > 0 => Len(t.nodes[l].array) > 0
  BY <1>1, <1>12, <1>13, ChildFacts
<1>17. level[r] > 0 => Len(t.nodes[r].array) > 0
  BY <1>1, <1>12, <1>13, ChildFacts
<1>18. r # t.root /\ l # t.root
  BY <1>4, <1>5, <1>9
<1> QED BY <1>2, <1>3, <1>4, <1>5, <1>6, <1>7, <1>8, <1>14, <1>15, <1>16, <1>17, <1>18

\* Coalesce keeps the tree well formed and gives back two pins.
LEMMA MergeOK ==
    ASSUME NEW t, NEW part, NEW level, NEW d, Well(t, part, level, d),
           NEW l, NEW r, NEW f, NEW j, Neighbours(t, l, r, f, j, level),
           NEW u, u = Coalesce(t, l, r, f, j + 1)
    PROVE  /\ u.pins = t.pins (-) SetToBag({l, r})
           /\ \E part2, level2 : /\ Well(u, part2, level2, d)
                                 /\ MergedPages(t, l, r, f, u, level, level2)
<1>a. PICK D : D = DOMAIN t.nodes
  OBVIOUS
<1>1. /\ l \in D /\ r \in D /\ f \in D /\ level[f] > 0
      /\ j \in Nat /\ 0 < j /\ j < Len(t.nodes[f].array)
      /\ t.nodes[f].array[j][2] = l /\ t.nodes[f].array[j + 1][2] = r
  BY <1>a DEF Neighbours
<1>2. /\ l # r /\ l # f /\ r # f /\ r # t.root /\ l # t.root
      /\ level[l] = level[r] /\ level[l] + 1 = level[f] /\ level[l] \in Nat
      /\ j \in 1 .. Len(t.nodes[f].array) /\ j + 1 \in 1 .. Len(t.nodes[f].array)
      /\ t.nodes[f].array[j + 1][1] \in Int
      /\ t.nodes[l].array \in Seq(Entry) /\ t.nodes[r].array \in Seq(Entry)
      /\ t.nodes[f].array \in Seq(Entry)
      /\ (level[l] > 0 => Len(t.nodes[r].array) > 0)
      /\ (t.nodes[r].leaf <=> level[l] = 0)
  BY NeighbourFacts
<1>3. PICK key \in Int : key = t.nodes[f].array[j + 1][1]
  BY <1>2
<1>4. PICK lv \in Nat : lv = level[l]
  BY <1>2
<1>5. PICK b \in Seq(Entry) : b = t.nodes[l].array
  BY <1>2
<1>6. PICK c \in Seq(Entry) : c = t.nodes[r].array
  BY <1>2
<1>7. PICK g : g = MovedAll(c, lv, key)
  OBVIOUS
<1>8. MergeOf(t, l, r, f, j + 1, g, u)
  <2>1. g = (IF t.nodes[r].leaf THEN t.nodes[r].array
             ELSE WithMiddleKey(t.nodes[r].array, t.nodes[f].array[j + 1][1]))
    BY <1>2, <1>3, <1>4, <1>6, <1>7 DEF MovedAll
  <2>2. IsTree(t) /\ l \in DOMAIN t.nodes /\ r \in DOMAIN t.nodes /\ f \in DOMAIN t.nodes
    BY <1>1, <1>a, WellFacts
  <2>3. l # r /\ l # f /\ r # f
    BY <1>2
  <2> QED BY ONLY u = Coalesce(t, l, r, f, j + 1), <2>1, <2>2, <2>3, MergeEffect
<1>9. PICK a : a = b \o g
  OBVIOUS
<1>10. Joined(b, c, lv, key, a)
  <2>1. lv > 0 => Len(c) > 0
    BY <1>2, <1>4, <1>6
  <2>2. a = b \o MovedAll(c, lv, key)
    BY <1>7, <1>9
  <2> QED BY <2>1, <2>2, JoinLemma
<1>11. /\ a \in Seq(Entry) /\ Len(a) = Len(b) + Len(c) /\ CutInto(a, b, c, Len(b), lv)
       /\ (lv > 0 => a[Len(b) + 1][1] = key)
  BY <1>10 DEF Joined
<1>12. MovedEntries(c, lv, key, g)
  <2>1. lv > 0 => Len(c) > 0
    BY <1>2, <1>4, <1>6
  <2> QED BY <1>7, <2>1, MovedLemma
<1>13. PICK h : h = RemoveAt(t.nodes[f].array, j + 1)
  OBVIOUS
<1>14. /\ h \in Seq(Entry) /\ Len(h) = Len(t.nodes[f].array) - 1
       /\ \A k \in 1 .. Len(t.nodes[f].array) - 1 :
             h[k] = IF k < j + 1 THEN t.nodes[f].array[k] ELSE t.nodes[f].array[k + 1]
  <2>1. PICK s \in Seq(Entry) : s = t.nodes[f].array
    BY <1>2
  <2>2. PICK n : n = j + 1
    OBVIOUS
  <2>3. n \in 1 .. Len(s)
    BY <1>2, <2>1, <2>2
  <2>4. /\ RemoveAt(s, n) \in Seq(Entry) /\ Len(RemoveAt(s, n)) = Len(s) - 1
        /\ \A k \in 1 .. Len(s) - 1 : RemoveAt(s, n)[k] = IF k < n THEN s[k] ELSE s[k + 1]
    BY ONLY s \in Seq(Entry), <2>3, RemoveAtLemma
  <2> QED BY <1>13, <2>1, <2>2, <2>4
<1>15. /\ IsTree(u) /\ u.root = t.root /\ u.header = t.header /\ DOMAIN u.nodes = D \ {r}
       /\ u.pins = t.pins (-) SetToBag({l, r})
       /\ u.nodes[l].array = a /\ u.nodes[l].next = t.nodes[r].next /\ u.nodes[f].array = h
  BY <1>5, <1>8, <1>9, <1>13, <1>a DEF MergeOf
<1>16. ASSUME NEW x \in D, x # r
       PROVE  /\ u.nodes[x].leaf = t.nodes[x].leaf
              /\ x # l => u.nodes[x].next = t.nodes[x].next
              /\ x # l /\ x # f => u.nodes[x].array = t.nodes[x].array
              /\ u.nodes[x].parent = IF ~t.nodes[r].leaf /\ x \in Children(g)
                                     THEN l ELSE t.nodes[x].parent
  BY <1>8, <1>16, <1>a DEF MergeOf
<1>17. ASSUME NEW x \in D, x # r
       PROVE  u.nodes[x].parent = IF t.nodes[x].parent = r THEN l ELSE t.nodes[x].parent
  <2>1. t.nodes[x].parent = r <=> level[r] > 0 /\ \E i \in 1 .. Len(c) : c[i][2] = x
    BY <1>1, <1>6, <1>a, ParentOf
  <2>2. x \in Children(g) <=> \E i \in 1 .. Len(c) : c[i][2] = x
    <3>1. g \in Seq(Entry) /\ Len(g) = Len(c) /\ \A k \in 1 .. Len(c) : g[k][2] = c[k][2]
      BY <1>12 DEF MovedEntries
    <3>2. DOMAIN g = 1 .. Len(c)
      BY <3>1
    <3> QED BY <3>1, <3>2 DEF Children
  <2>3. ~t.nodes[r].leaf <=> level[r] > 0
    BY <1>2
  <2> QED BY <1>16, <1>17, <2>1, <2>2, <2>3
<1>18. PICK arr : arr = Arr(t)
  OBVIOUS
<1>19. PICK par : par = Par(t)
  OBVIOUS
<1>20. PICK nxt : nxt = Nxt(t)
  OBVIOUS
<1>21. ASSUME NEW x \in D
       PROVE  /\ arr[x] = t.nodes[x].array /\ par[x] = t.nodes[x].parent /\ nxt[x] = t.nodes[x].next
              /\ arr[x] \in Seq(Entry) /\ par[x] \in Int /\ nxt[x] \in Int /\ x \in Int
  <2>1. t.nodes[x].array \in Seq(Entry) /\ t.nodes[x].parent \in Int /\ t.nodes[x].next \in Int
    BY <1>a, PageFacts
  <2>2. x \in Int
    BY <1>a, WellFacts
  <2> QED BY <1>18, <1>19, <1>20, <1>a, <2>1, <2>2 DEF Arr, Par, Nxt
<1>22. Shape(D, arr, par, t.root, part, level, d) /\ Chain(D, nxt, part, level)
  BY <1>18, <1>19, <1>20, <1>a DEF Well
<1>23. PICK arr2 : arr2 = Arr(u)
  OBVIOUS
<1>24. PICK par2 : par2 = Par(u)
  OBVIOUS
<1>25. PICK nxt2 : nxt2 = Nxt(u)
  OBVIOUS
<1>26. ASSUME NEW x \in D, x # r
       PROVE  arr2[x] = u.nodes[x].array /\ par2[x] = u.nodes[x].parent /\ nxt2[x] = u.nodes[x].next
  BY <1>15, <1>23, <1>24, <1>25, <1>26 DEF Arr, Par, Nxt
<1>27. ASSUME NEW x \in D, x # r
       PROVE  u.nodes[x].array \in Seq(Entry) /\ u.nodes[x].parent \in Int /\ u.nodes[x].next \in Int
  <2>1. t.nodes[x].array \in Seq(Entry) /\ t.nodes[x].parent \in Int /\ t.nodes[x].next \in Int
    BY <1>21
  <2>2. l \in Int /\ t.nodes[r].next \in Int
    BY <1>1, <1>21
  <2>3. u.nodes[x].parent \in Int
    BY <1>17, <1>27, <2>1, <2>2
  <2>4. u.nodes[x].next \in Int
    BY <1>15, <1>16, <1>27, <2>1, <2>2
  <2>5. u.nodes[x].array \in Seq(Entry)
    BY <1>11, <1>14, <1>15, <1>16, <1>27, <2>1
  <2> QED BY <2>3, <2>4, <2>5
<1>28. /\ arr2 \in [D \ {r} -> Seq(Entry)] /\ par2 \in [D \ {r} -> Int] /\ nxt2 \in [D \ {r} -> Int]
  BY <1>15, <1>23, <1>24, <1>25, <1>27 DEF Arr, Par, Nxt
<1>29. /\ arr[l] = b /\ arr[r] = c /\ arr[f] = t.nodes[f].array /\ arr2[l] = a /\ arr2[f] = h
       /\ level[l] = lv
  BY <1>1, <1>2, <1>4, <1>5, <1>6, <1>15, <1>21, <1>26
<1>30. Merged(D, arr, par, level, l, r, f, j, arr2, par2)
  <2>1. InsertedAfter(h, arr[f], j, key, r)
    <3>1. PICK s : s = t.nodes[f].array
      OBVIOUS
    <3>2. Len(s) \in Nat /\ Len(h) = Len(s) - 1
      BY <1>2, <1>14, <3>1, SMTT(30)
    <3>3. \A k \in 1 .. Len(s) - 1 : h[k] = IF k < j + 1 THEN s[k] ELSE s[k + 1]
      BY <1>14, <3>1
    <3>4. ASSUME NEW i \in 1 .. Len(h), i <= j PROVE s[i] = h[i]
      <4>1. i \in 1 .. Len(s) - 1 /\ i < j + 1
        BY <1>1, <3>2, <3>4
      <4> QED BY <3>3, <4>1
    <3>5. ASSUME NEW i \in 1 .. Len(h) + 1, i > j + 1 PROVE s[i] = h[i - 1]
      <4>1. i - 1 \in 1 .. Len(s) - 1 /\ ~(i - 1 < j + 1) /\ (i - 1) + 1 = i
        BY <1>1, <3>2, <3>5
      <4> QED BY <3>3, <4>1
    <3>6. s[j + 1][1] = key /\ s[j + 1][2] = r /\ Len(s) = Len(h) + 1
      BY <1>1, <1>3, <3>1, <3>2
    <3>7. InsertedAfter(h, s, j, key, r)
      BY ONLY <3>4, <3>5, <3>6 DEF InsertedAfter
    <3> QED BY <1>29, <3>1, <3>7
  <2>2. \A x \in D : x # l /\ x # r /\ x # f => arr2[x] = arr[x]
    BY <1>16, <1>21, <1>26
  <2>3. \A x \in D : x # r => par2[x] = IF par[x] = r THEN l ELSE par[x]
    BY <1>17, <1>21, <1>26
  <2>4. arr[f][j + 1][1] = key
    BY <1>3, <1>29
  <2>5. Len(arr2[l]) = Len(arr[l]) + Len(arr[r]) /\ CutInto(arr2[l], arr[l], arr[r], Len(arr[l]), level[l])
        /\ (level[l] > 0 => arr2[l][Len(arr[l]) + 1][1] = key)
    BY ONLY <1>11, <1>29
  <2> QED BY ONLY <1>28, <1>29, <2>1, <2>2, <2>3, <2>4, <2>5 DEF Merged
<1>31. PICK part2 : part2 = MergePart(D, part, l, r)
  OBVIOUS
<1>32. PICK level2 : level2 = MergeLevel(D, level, r)
  OBVIOUS
<1>33. PICK root : root = t.root
  OBVIOUS
<1>34. Shape(D \ {r}, arr2, par2, root, part2, level2, d)
  <2>1. j \in Nat /\ 0 < j /\ j < Len(arr[f]) /\ arr[f][j][2] = l /\ arr[f][j + 1][2] = r
    BY <1>1, <1>29
  <2>2. Shape(D, arr, par, root, part, level, d)
    BY <1>22, <1>33
  <2> QED BY ONLY <1>1, <1>30, <1>31, <1>32, <2>1, <2>2, MergeShape
<1>35. Chain(D \ {r}, nxt2, part2, level2)
  <2>1. NextMerged(D, nxt, l, r, nxt2)
    <3>1. nxt2[l] = nxt[r]
      BY <1>1, <1>2, <1>15, <1>21, <1>26
    <3>2. \A x \in D : x # l /\ x # r => nxt2[x] = nxt[x]
      BY <1>16, <1>21, <1>26
    <3> QED BY <1>28, <3>1, <3>2 DEF NextMerged
  <2>2. FollowedBy(part[l], part[r])
    <3>1. j \in Nat /\ 0 < j /\ j < Len(arr[f]) /\ l = arr[f][j][2] /\ r = arr[f][j + 1][2]
      BY <1>1, <1>29
    <3>2. Shape(D, arr, par, root, part, level, d) /\ f \in D /\ level[f] > 0
      BY <1>1, <1>22, <1>33
    <3> QED BY ONLY <3>1, <3>2, Siblings
  <2>3. l \in D /\ r \in D /\ l # r /\ level[l] = level[r]
    BY <1>1, <1>2
  <2> QED BY ONLY <1>22, <1>31, <1>32, <2>1, <2>2, <2>3, ChainMerge
<1>36. \A x \in D \ {r} : level2[x] = level[x]
  BY <1>32 DEF MergeLevel
<1>37. Well(u, part2, level2, d)
  <2>1. ASSUME NEW x \in D \ {r} PROVE u.nodes[x].leaf <=> level2[x] = 0
    BY <1>16, <1>36, <1>a DEF Well
  <2>2. t.header = t.root
    BY WellFacts
  <2> QED BY <1>15, <1>23, <1>24, <1>25, <1>33, <1>34, <1>35, <2>1, <2>2 DEF Well
<1>38. MergedPages(t, l, r, f, u, level, level2)
  BY <1>2, <1>5, <1>6, <1>11, <1>14, <1>15, <1>16, <1>36, <1>a DEF MergedPages
<1> QED BY <1>15, <1>37, <1>38

-----------------------------------------------------------------------------
(* Removal: an entry moves between neighbours.                             *)

\* u is t with the entries of l and r, which are those of a, cut after m now.
ShiftOf(t, l, r, f, j, a, m, level, u) ==
    /\ IsTree(u) /\ u.root = t.root /\ u.header = t.header /\ DOMAIN u.nodes = DOMAIN t.nodes
    /\ u.nodes[l].array \in Seq(Entry) /\ u.nodes[r].array \in Seq(Entry)
    /\ CutInto(a, u.nodes[l].array, u.nodes[r].array, m, level[l])
    /\ u.nodes[f].array = SetKeyAt(t.nodes[f].array, j + 1, a[m + 1][1])
    /\ \A x \in DOMAIN t.nodes :
          /\ u.nodes[x].leaf = t.nodes[x].leaf /\ u.nodes[x].next = t.nodes[x].next
          /\ x # l /\ x # r /\ x # f => u.nodes[x].array = t.nodes[x].array
          /\ u.nodes[x].parent =
                IF level[l] > 0 /\ \E i \in m + 1 .. Len(a) : a[i][2] = x THEN r
                ELSE IF t.nodes[x].parent = r THEN l ELSE t.nodes[x].parent

\* All the entries of l and r, as a merge would have them.
JoinOf(t, l, r, f, j, level) ==
    t.nodes[l].array \o MovedAll(t.nodes[r].array, level[l], t.nodes[f].array[j + 1][1])

\* Cutting the entries of two neighbours at another place keeps the tree well
\* formed.
LEMMA ShiftOK ==
    ASSUME NEW t, NEW part, NEW level, NEW d, Well(t, part, level, d),
           NEW l, NEW r, NEW f, NEW j, Neighbours(t, l, r, f, j, level),
           NEW a, a = JoinOf(t, l, r, f, j, level),
           NEW m \in Nat, 0 < m, m < Len(a),
           NEW u, ShiftOf(t, l, r, f, j, a, m, level, u)
    PROVE  /\ Len(u.nodes[f].array) = Len(t.nodes[f].array)
           /\ \E part2 : Well(u, part2, level, d)
<1>a. PICK D : D = DOMAIN t.nodes
  OBVIOUS
<1>1. /\ l \in D /\ r \in D /\ f \in D /\ level[f] > 0
      /\ j \in Nat /\ 0 < j /\ j < Len(t.nodes[f].array)
      /\ t.nodes[f].array[j][2] = l /\ t.nodes[f].array[j + 1][2] = r
  BY <1>a DEF Neighbours
<1>2. /\ l # r /\ l # f /\ r # f /\ level[l] = level[r] /\ level[l] \in Nat
      /\ j + 1 \in 1 .. Len(t.nodes[f].array) /\ t.nodes[f].array[j + 1][1] \in Int
      /\ t.nodes[l].array \in Seq(Entry) /\ t.nodes[r].array \in Seq(Entry)
      /\ t.nodes[f].array \in Seq(Entry)
      /\ (level[l] > 0 => Len(t.nodes[r].array) > 0)
  BY NeighbourFacts
<1>3. PICK key \in Int : key = t.nodes[f].array[j + 1][1]
  BY <1>2
<1>4. PICK lv \in Nat : lv = level[l]
  BY <1>2
<1>5. PICK b \in Seq(Entry) : b = t.nodes[l].array
  BY <1>2
<1>6. PICK c \in Seq(Entry) : c = t.nodes[r].array
  BY <1>2
<1>7. Joined(b, c, lv, key, a)
  <2>1. lv > 0 => Len(c) > 0
    BY <1>2, <1>4, <1>6
  <2>2. a = b \o MovedAll(c, lv, key)
    BY <1>3, <1>4, <1>5, <1>6 DEF JoinOf
  <2> QED BY ONLY b \in Seq(Entry), c \in Seq(Entry), lv \in Nat, key \in Int, <2>1, <2>2, JoinLemma
<1>8. /\ a \in Seq(Entry) /\ Len(a) = Len(b) + Len(c) /\ CutInto(a, b, c, Len(b), lv)
      /\ (lv > 0 => a[Len(b) + 1][1] = key)
  BY <1>7 DEF Joined
<1>9. PICK key2 : key2 = a[m + 1][1]
  OBVIOUS
<1>10. key2 \in Int
  <2>1. Len(a) \in Nat /\ m + 1 \in 1 .. Len(a)
    BY ONLY m \in Nat, 0 < m, m < Len(a), <1>8
  <2> QED BY <1>8, <1>9, <2>1, KeysAreInts
<1>11. PICK h : h = SetKeyAt(t.nodes[f].array, j + 1, key2)
  OBVIOUS
<1>12. /\ h \in Seq(Entry) /\ Len(h) = Len(t.nodes[f].array)
       /\ \A k \in 1 .. Len(t.nodes[f].array) :
             h[k] = IF k = j + 1 THEN <<key2, t.nodes[f].array[j + 1][2]>> ELSE t.nodes[f].array[k]
  <2>1. PICK s \in Seq(Entry) : s = t.nodes[f].array
    BY <1>2
  <2>2. PICK n : n = j + 1
    OBVIOUS
  <2>3. n \in 1 .. Len(s) /\ key2 \in Int
    BY <1>2, <1>10, <2>1, <2>2
  <2>4. /\ SetKeyAt(s, n, key2) \in Seq(Entry) /\ Len(SetKeyAt(s, n, key2)) = Len(s)
        /\ \A k \in 1 .. Len(s) : SetKeyAt(s, n, key2)[k] = IF k = n THEN <<key2, s[n][2]>> ELSE s[k]
    BY ONLY s \in Seq(Entry), <2>3, SetKeyLemma
  <2> QED BY <1>11, <2>1, <2>2, <2>4
<1>13. /\ IsTree(u) /\ u.root = t.root /\ u.header = t.header /\ DOMAIN u.nodes = D
       /\ u.nodes[l].array \in Seq(Entry) /\ u.nodes[r].array \in Seq(Entry)
       /\ CutInto(a, u.nodes[l].array, u.nodes[r].array, m, lv) /\ u.nodes[f].array = h
  BY <1>4, <1>9, <1>11, <1>a DEF ShiftOf
<1>14. ASSUME NEW x \in D
       PROVE  /\ u.nodes[x].leaf = t.nodes[x].leaf /\ u.nodes[x].next = t.nodes[x].next
              /\ x # l /\ x # r /\ x # f => u.nodes[x].array = t.nodes[x].array
              /\ u.nodes[x].parent = IF lv > 0 /\ \E i \in m + 1 .. Len(a) : a[i][2] = x THEN r
                                     ELSE IF t.nodes[x].parent = r THEN l ELSE t.nodes[x].parent
  BY <1>4, <1>a DEF ShiftOf
<1>18. PICK arr : arr = Arr(t)
  OBVIOUS
<1>19. PICK par : par = Par(t)
  OBVIOUS
<1>20. PICK nxt : nxt = Nxt(t)
  OBVIOUS
<1>21. ASSUME NEW x \in D
       PROVE  /\ arr[x] = t.nodes[x].array /\ par[x] = t.nodes[x].parent /\ nxt[x] = t.nodes[x].next
              /\ arr[x] \in Seq(Entry) /\ par[x] \in Int /\ nxt[x] \in Int /\ x \in Int
  <2>1. t.nodes[x].array \in Seq(Entry) /\ t.nodes[x].parent \in Int /\ t.nodes[x].next \in Int
    BY <1>a, PageFacts
  <2>2. x \in Int
    BY <1>a, WellFacts
  <2> QED BY <1>18, <1>19, <1>20, <1>a, <2>1, <2>2 DEF Arr, Par, Nxt
<1>22. Shape(D, arr, par, t.root, part, level, d) /\ Chain(D, nxt, part, level)
  BY <1>18, <1>19, <1>20, <1>a DEF Well
<1>23. PICK arr2 : arr2 = Arr(u)
  OBVIOUS
<1>24. PICK par2 : par2 = Par(u)
  OBVIOUS
<1>25. Nxt(u) = nxt
  <2>1. \A x \in D : u.nodes[x].next = t.nodes[x].next
    BY <1>14
  <2> QED BY ONLY <1>13, <1>20, <1>a, <2>1 DEF Nxt
<1>26. ASSUME NEW x \in D
       PROVE  arr2[x] = u.nodes[x].array /\ par2[x] = u.nodes[x].parent
  BY <1>13, <1>23, <1>24 DEF Arr, Par
<1>27. ASSUME NEW x \in D
       PROVE  u.nodes[x].array \in Seq(Entry) /\ u.nodes[x].parent \in Int
  <2>1. t.nodes[x].array \in Seq(Entry) /\ t.nodes[x].parent \in Int
    BY <1>21
  <2>2. l \in Int /\ r \in Int
    BY <1>1, <1>21
  <2>3. u.nodes[x].parent \in Int
    BY <1>14, <2>1, <2>2
  <2>5. u.nodes[x].array \in Seq(Entry)
    BY <1>12, <1>13, <1>14, <2>1
  <2> QED BY <2>3, <2>5
<1>28. /\ arr2 \in [D -> Seq(Entry)] /\ par2 \in [D -> Int]
  BY <1>13, <1>23, <1>24, <1>27 DEF Arr, Par
<1>29. /\ arr[l] = b /\ arr[r] = c /\ arr[f] = t.nodes[f].array /\ arr2[f] = h
       /\ arr2[l] = u.nodes[l].array /\ arr2[r] = u.nodes[r].array /\ level[l] = lv
  BY <1>1, <1>2, <1>4, <1>5, <1>6, <1>13, <1>21, <1>26
<1>30. Shifted(D, arr, par, level, l, r, f, j, a, m, arr2, par2)
  <2>1. PICK s : s = t.nodes[f].array
    OBVIOUS
  <2>2. j + 1 \in 1 .. Len(s) /\ \A k \in 1 .. Len(s) : h[k] = IF k = j + 1 THEN <<key2, s[j + 1][2]>> ELSE s[k]
    BY <1>2, <1>12, <2>1
  <2>3. h[j + 1] = <<key2, s[j + 1][2]>>
    BY <2>2
  <2>4. h[j + 1][1] = key2 /\ h[j + 1][2] = s[j + 1][2]
    BY ONLY <2>3
  <2>5. s[j + 1][2] = r /\ s[j + 1][1] = key /\ Len(h) = Len(s)
    BY <1>1, <1>3, <1>12, <2>1
  <2>6. \A i \in 1 .. Len(s) : i # j + 1 => h[i] = s[i]
    BY <2>2
  <2>7. /\ Len(arr2[f]) = Len(arr[f]) /\ arr2[f][j + 1][1] = a[m + 1][1] /\ arr2[f][j + 1][2] = r
        /\ arr[f][j + 1][1] = key
        /\ \A i \in 1 .. Len(arr[f]) : i # j + 1 => arr2[f][i] = arr[f][i]
    BY ONLY <1>9, <1>29, <2>1, <2>4, <2>5, <2>6
  <2>8. \A x \in D : x # l /\ x # r /\ x # f => arr2[x] = arr[x]
    BY ONLY <1>14, <1>21, <1>26
  <2>9. \A x \in D : par2[x] = IF level[l] > 0 /\ \E i \in m + 1 .. Len(a) : a[i][2] = x THEN r
                              ELSE IF par[x] = r THEN l ELSE par[x]
    BY ONLY <1>4, <1>14, <1>21, <1>26
  <2>10. /\ a \in Seq(Entry) /\ Len(a) = Len(arr[l]) + Len(arr[r])
         /\ CutInto(a, arr[l], arr[r], Len(arr[l]), level[l])
         /\ (level[l] > 0 => a[Len(arr[l]) + 1][1] = arr[f][j + 1][1])
         /\ CutInto(a, arr2[l], arr2[r], m, level[l])
    BY ONLY <1>8, <1>13, <1>29, <2>7
  <2> QED BY ONLY <1>28, <2>7, <2>8, <2>9, <2>10 DEF Shifted
<1>31. PICK root : root = t.root
  OBVIOUS
<1>32. PICK part2 : Shape(D, arr2, par2, root, part2, level, d) /\ Chain(D, nxt, part2, level)
  <2>1. j \in Nat /\ 0 < j /\ j < Len(arr[f]) /\ arr[f][j][2] = l /\ arr[f][j + 1][2] = r
    BY <1>1, <1>29
  <2>2. Shape(D, arr, par, root, part, level, d)
    BY <1>22, <1>31
  <2>3. l \in D /\ r \in D /\ f \in D /\ level[f] > 0
    BY <1>1
  <2> QED BY ONLY m \in Nat, 0 < m, m < Len(a), <1>22, <1>30, <2>1, <2>2, <2>3, ShiftShape
<1>33. Well(u, part2, level, d)
  <2>1. ASSUME NEW x \in D PROVE u.nodes[x].leaf <=> level[x] = 0
    BY <1>14, <1>a DEF Well
  <2>2. t.header = t.root
    BY WellFacts
  <2> QED BY <1>13, <1>23, <1>24, <1>25, <1>31, <1>32, <2>1, <2>2 DEF Well
<1>34. Len(u.nodes[f].array) = Len(t.nodes[f].array)
  BY <1>12, <1>13
<1> QED BY <1>33, <1>34

\* Three pages get other arrays, and one child of the second another parent.
MovedOf(t, p, b, q, c, f, h, e, u) ==
    /\ IsTree(u) /\ u.root = t.root /\ u.header = t.header /\ u.pins = t.pins
    /\ DOMAIN u.nodes = DOMAIN t.nodes
    /\ u.nodes[p].array = b /\ u.nodes[q].array = c /\ u.nodes[f].array = h
    /\ \A x \in DOMAIN t.nodes :
          /\ u.nodes[x].leaf = t.nodes[x].leaf /\ u.nodes[x].next = t.nodes[x].next
          /\ x # p /\ x # q /\ x # f => u.nodes[x].array = t.nodes[x].array
          /\ u.nodes[x].parent = IF ~t.nodes[p].leaf /\ x = e THEN p ELSE t.nodes[x].parent

ThreeArrays(t, p, b, q, c, f, h) ==
    [t EXCEPT !.nodes[p].array = b, !.nodes[q].array = c, !.nodes[f].array = h]
Rehomed(t, t1, p, e) == IF t.nodes[p].leaf THEN t1 ELSE Adopt(t1, p, {e})

\* What the two kinds of Redistribute do to the pages, field by field.
LEMMA MovedEffect ==
    ASSUME NEW t, IsTree(t), NEW p \in DOMAIN t.nodes, NEW q \in DOMAIN t.nodes,
           NEW f \in DOMAIN t.nodes, p # q, p # f, q # f, NEW b, NEW c, NEW h, NEW e,
           NEW t1, t1 = ThreeArrays(t, p, b, q, c, f, h), NEW u, u = Rehomed(t, t1, p, e)
    PROVE  MovedOf(t, p, b, q, c, f, h, e, u)
<1>1. PICK s1 : s1 = [t EXCEPT !.nodes[p].array = b]
  OBVIOUS
<1>2. PICK s2 : s2 = [s1 EXCEPT !.nodes[q].array = c]
  OBVIOUS
<1>3. t1 = [s2 EXCEPT !.nodes[f].array = h]
  BY <1>1, <1>2 DEF ThreeArrays
<1>4. ArrayChanged(t, p, b, s1) /\ s1.pins = t.pins
  BY <1>1, ArrayChange
<1>5. ArrayChanged(s1, q, c, s2) /\ s2.pins = s1.pins
  <2>1. IsTree(s1) /\ q \in DOMAIN s1.nodes
    BY <1>4 DEF ArrayChanged
  <2> QED BY ONLY <1>2, <2>1, ArrayChange
<1>6. ArrayChanged(s2, f, h, t1) /\ t1.pins = s2.pins
  <2>1. IsTree(s2) /\ f \in DOMAIN s2.nodes
    BY <1>4, <1>5 DEF ArrayChanged
  <2> QED BY ONLY <1>3, <2>1, ArrayChange
<1>7. /\ IsTree(t1) /\ t1.root = t.root /\ t1.header = t.header /\ t1.pins = t.pins
      /\ DOMAIN t1.nodes = DOMAIN t.nodes /\ DOMAIN s1.nodes = DOMAIN t.nodes
      /\ DOMAIN s2.nodes = DOMAIN t.nodes
  BY <1>4, <1>5, <1>6 DEF ArrayChanged
<1>8. ASSUME NEW x \in DOMAIN t.nodes
      PROVE  /\ s1.nodes[x].leaf = t.nodes[x].leaf /\ s1.nodes[x].parent = t.nodes[x].parent
             /\ s1.nodes[x].next = t.nodes[x].next /\ (x # p => s1.nodes[x].array = t.nodes[x].array)
  BY <1>4 DEF ArrayChanged
<1>9. ASSUME NEW x \in DOMAIN t.nodes
      PROVE  /\ s2.nodes[x].leaf = s1.nodes[x].leaf /\ s2.nodes[x].parent = s1.nodes[x].parent
             /\ s2.nodes[x].next = s1.nodes[x].next /\ (x # q => s2.nodes[x].array = s1.nodes[x].array)
  BY <1>5, <1>7 DEF ArrayChanged
<1>10. ASSUME NEW x \in DOMAIN t.nodes
       PROVE  /\ t1.nodes[x].leaf = s2.nodes[x].leaf /\ t1.nodes[x].parent = s2.nodes[x].parent
              /\ t1.nodes[x].next = s2.nodes[x].next /\ (x # f => t1.nodes[x].array = s2.nodes[x].array)
  BY <1>6, <1>7 DEF ArrayChanged
<1>11. s1.nodes[p].array = b /\ s2.nodes[q].array = c /\ t1.nodes[f].array = h
  BY <1>4, <1>5, <1>6 DEF ArrayChanged
<1>12. t1.nodes[p].array = b /\ t1.nodes[q].array = c
  BY <1>9, <1>10, <1>11
<1>13. ASSUME NEW x \in DOMAIN t.nodes
       PROVE  /\ t1.nodes[x].leaf = t.nodes[x].leaf /\ t1.nodes[x].parent = t.nodes[x].parent
              /\ t1.nodes[x].next = t.nodes[x].next
              /\ (x # p /\ x # q /\ x # f => t1.nodes[x].array = t.nodes[x].array)
  BY <1>8, <1>9, <1>10
<1>14. CASE t.nodes[p].leaf
  <2>1. u = t1
    BY <1>14 DEF Rehomed
  <2> QED BY ONLY <1>7, <1>11, <1>12, <1>13, <1>14, <2>1 DEF MovedOf
<1>15. CASE ~t.nodes[p].leaf
  <2>1. PICK C : C = {e}
    OBVIOUS
  <2>2. u = Adopt(t1, p, C)
    BY <1>15, <2>1 DEF Rehomed
  <2>3. /\ IsTree(u) /\ u.root = t1.root /\ u.header = t1.header /\ u.pins = t1.pins
        /\ DOMAIN u.nodes = DOMAIN t1.nodes
        /\ \A x \in DOMAIN t1.nodes :
              /\ u.nodes[x].parent = IF x \in C THEN p ELSE t1.nodes[x].parent
              /\ u.nodes[x].leaf = t1.nodes[x].leaf /\ u.nodes[x].array = t1.nodes[x].array
              /\ u.nodes[x].next = t1.nodes[x].next
    BY ONLY <1>7, <2>2, AdoptEffect
  <2>4. u.nodes[p].array = b /\ u.nodes[q].array = c /\ u.nodes[f].array = h
    BY <1>7, <1>11, <1>12, <2>3
  <2>5. ASSUME NEW x \in DOMAIN t.nodes
        PROVE  /\ u.nodes[x].leaf = t.nodes[x].leaf /\ u.nodes[x].next = t.nodes[x].next
               /\ (x # p /\ x # q /\ x # f => u.nodes[x].array = t.nodes[x].array)
               /\ u.nodes[x].parent = IF x = e THEN p ELSE t.nodes[x].parent
    <3>1. x \in C <=> x = e
      BY <2>1
    <3>2. /\ u.nodes[x].parent = IF x \in C THEN p ELSE t1.nodes[x].parent
          /\ u.nodes[x].leaf = t1.nodes[x].leaf /\ u.nodes[x].array = t1.nodes[x].array
          /\ u.nodes[x].next = t1.nodes[x].next
      BY ONLY x \in DOMAIN t.nodes, <1>7, <2>3
    <3>3. /\ t1.nodes[x].leaf = t.nodes[x].leaf /\ t1.nodes[x].parent = t.nodes[x].parent
          /\ t1.nodes[x].next = t.nodes[x].next
          /\ (x # p /\ x # q /\ x # f => t1.nodes[x].array = t.nodes[x].array)
      BY ONLY x \in DOMAIN t.nodes, <1>13
    <3> QED BY ONLY <3>1, <3>2, <3>3
  <2> QED BY ONLY <1>7, <1>15, <2>3, <2>4, <2>5 DEF MovedOf
<1> QED BY <1>14, <1>15

\* What Append returns.
LEMMA AppendLemma ==
    ASSUME NEW s \in Seq(Entry), NEW e \in Entry, NEW b, b = Append(s, e)
    PROVE  /\ b \in Seq(Entry) /\ Len(b) = Len(s) + 1 /\ b[Len(s) + 1] = e
           /\ \A k \in 1 .. Len(s) : b[k] = s[k]
OBVIOUS

\* What Tail returns.
LEMMA TailLemma ==
    ASSUME NEW s \in Seq(Entry), Len(s) > 0, NEW b, b = Tail(s)
    PROVE  /\ b \in Seq(Entry) /\ Len(b) = Len(s) - 1
           /\ \A k \in 1 .. Len(s) - 1 : b[k] = s[k + 1]
<1>1. s # <<>>
  OBVIOUS
<1> QED BY <1>1, HeadTailProperties

\* What is known of neighbours whose entries are moved.
ShiftSetting(t, l, r, f, j, level, b, c, s, lv, key, g, a) ==
    /\ b = t.nodes[l].array /\ c = t.nodes[r].array /\ s = t.nodes[f].array
    /\ b \in Seq(Entry) /\ c \in Seq(Entry) /\ s \in Seq(Entry)
    /\ Len(b) \in Nat /\ Len(c) \in Nat
    /\ lv \in Nat /\ lv = level[l] /\ key \in Int /\ key = s[j + 1][1]
    /\ g = MovedAll(c, lv, key) /\ MovedEntries(c, lv, key, g)
    /\ a = JoinOf(t, l, r, f, j, level) /\ a = b \o g /\ Joined(b, c, lv, key, a)
    /\ (t.nodes[l].leaf <=> lv = 0) /\ (t.nodes[r].leaf <=> lv = 0)
    /\ l # r /\ l # f /\ r # f /\ IsTree(t)
    /\ l \in DOMAIN t.nodes /\ r \in DOMAIN t.nodes /\ f \in DOMAIN t.nodes
    /\ level[l] = level[r]

\* Names for the arrays of two neighbours and what joins them.
LEMMA ShiftSettingLemma ==
    ASSUME NEW t, NEW part, NEW level, NEW d, Well(t, part, level, d),
           NEW l, NEW r, NEW f, NEW j, Neighbours(t, l, r, f, j, level)
    PROVE  \E b, c, s, lv, key, g, a : ShiftSetting(t, l, r, f, j, level, b, c, s, lv, key, g, a)
<1>1. /\ l # r /\ l # f /\ r # f /\ level[l] = level[r] /\ level[l] \in Nat
      /\ j + 1 \in 1 .. Len(t.nodes[f].array) /\ t.nodes[f].array[j + 1][1] \in Int
      /\ t.nodes[l].array \in Seq(Entry) /\ t.nodes[r].array \in Seq(Entry)
      /\ t.nodes[f].array \in Seq(Entry)
      /\ (level[l] > 0 => Len(t.nodes[r].array) > 0)
      /\ (t.nodes[l].leaf <=> level[l] = 0) /\ (t.nodes[r].leaf <=> level[l] = 0)
  BY NeighbourFacts
<1>2. l \in DOMAIN t.nodes /\ r \in DOMAIN t.nodes /\ f \in DOMAIN t.nodes /\ IsTree(t)
  BY WellFacts DEF Neighbours
<1>3. PICK key \in Int : key = t.nodes[f].array[j + 1][1]
  BY <1>1
<1>4. PICK lv \in Nat : lv = level[l]
  BY <1>1
<1>5. PICK b \in Seq(Entry) : b = t.nodes[l].array
  BY <1>1
<1>6. PICK c \in Seq(Entry) : c = t.nodes[r].array
  BY <1>1
<1>7. PICK s \in Seq(Entry) : s = t.nodes[f].array
  BY <1>1
<1>8. PICK g : g = MovedAll(c, lv, key)
  OBVIOUS
<1>9. PICK a : a = b \o g
  OBVIOUS
<1>10. lv > 0 => Len(c) > 0
  BY <1>1, <1>4, <1>6
<1>11. MovedEntries(c, lv, key, g)
  BY ONLY c \in Seq(Entry), lv \in Nat, key \in Int, <1>8, <1>10, MovedLemma
<1>12. Joined(b, c, lv, key, a)
  <2>1. a = b \o MovedAll(c, lv, key)
    BY <1>8, <1>9
  <2> QED BY ONLY b \in Seq(Entry), c \in Seq(Entry), lv \in Nat, key \in Int, <1>10, <2>1, JoinLemma
<1>13. a = JoinOf(t, l, r, f, j, level)
  BY <1>3, <1>4, <1>5, <1>6, <1>8, <1>9 DEF JoinOf
<1>14. Len(b) \in Nat /\ Len(c) \in Nat
  BY KeysAreInts
<1>15. ShiftSetting(t, l, r, f, j, level, b, c, s, lv, key, g, a)
  BY ONLY b \in Seq(Entry), c \in Seq(Entry), s \in Seq(Entry), lv \in Nat, key \in Int,
          <1>1, <1>2, <1>3, <1>4, <1>5, <1>6, <1>7, <1>8, <1>9, <1>11, <1>12, <1>13, <1>14
     DEF ShiftSetting
<1> QED BY <1>15

\* u is t with an entry moved between l and r, to or from p; the sizes are n1 and n2 now.
ShiftDone(t, l, r, f, j, level, n1, n2, u) ==
    /\ u.pins = t.pins /\ DOMAIN u.nodes = DOMAIN t.nodes /\ u.root = t.root
    /\ Len(u.nodes[l].array) = n1 /\ Len(u.nodes[r].array) = n2
    /\ \A x \in DOMAIN t.nodes : x # l /\ x # r /\ x # f => u.nodes[x].array = t.nodes[x].array
    /\ \E a, m : /\ a = JoinOf(t, l, r, f, j, level) /\ m \in Nat /\ 0 < m /\ m < Len(a)
                 /\ ShiftOf(t, l, r, f, j, a, m, level, u)

\* MoveFirstToEndOf keeps the tree well formed.
LEMMA MoveFirstOK ==
    ASSUME NEW t, NEW part, NEW level, NEW d, Well(t, part, level, d),
           NEW p, NEW q, NEW f, Neighbours(t, p, q, f, 1, level), Len(t.nodes[q].array) >= 2,
           NEW u, u = MoveFirstToEndOf(t, q, p, f)
    PROVE  ShiftDone(t, p, q, f, 1, level, Len(t.nodes[p].array) + 1, Len(t.nodes[q].array) - 1, u)
<1>1. PICK b, c, s, lv, key, g, a : ShiftSetting(t, p, q, f, 1, level, b, c, s, lv, key, g, a)
  BY ShiftSettingLemma
<1>2. /\ b = t.nodes[p].array /\ c = t.nodes[q].array /\ s = t.nodes[f].array
      /\ b \in Seq(Entry) /\ c \in Seq(Entry) /\ s \in Seq(Entry)
      /\ Len(b) \in Nat /\ Len(c) \in Nat /\ lv \in Nat /\ lv = level[p]
      /\ key \in Int /\ key = s[1 + 1][1]
      /\ a = JoinOf(t, p, q, f, 1, level)
      /\ (t.nodes[p].leaf <=> lv = 0) /\ (t.nodes[q].leaf <=> lv = 0)
      /\ p # q /\ p # f /\ q # f /\ IsTree(t) /\ level[p] = level[q]
      /\ p \in DOMAIN t.nodes /\ q \in DOMAIN t.nodes /\ f \in DOMAIN t.nodes
  BY ONLY <1>1 DEF ShiftSetting
<1>3. MovedEntries(c, lv, key, g) /\ Joined(b, c, lv, key, a) /\ g = MovedAll(c, lv, key)
  BY ONLY <1>1 DEF ShiftSetting
<1>z. key = s[2][1]
  <2>1. 1 + 1 = 2
    OBVIOUS
  <2> QED BY ONLY <1>2, <2>1
<1>n. Len(b) \in Nat /\ Len(c) \in Nat
  BY ONLY <1>2
<1>4. Len(c) >= 2 /\ 1 \in 1 .. Len(c) /\ 2 \in 1 .. Len(c)
  BY ONLY Len(t.nodes[q].array) >= 2, <1>2
<1>5. PICK e : e = c[1]
  OBVIOUS
<1>6. PICK e2 : e2 = IF t.nodes[p].leaf THEN e ELSE <<key, e[2]>>
  OBVIOUS
<1>7. e2 = g[1] /\ e2 \in Entry
  <2>1. /\ g \in Seq(Entry) /\ Len(g) = Len(c)
        /\ \A k \in 1 .. Len(c) : /\ (k > 1 \/ lv = 0 => g[k] = c[k])
                                  /\ (k = 1 /\ lv > 0 => g[k] = <<key, c[k][2]>>)
    BY ONLY <1>3 DEF MovedEntries
  <2>2. g[1] \in Entry
    BY ONLY <1>4, <2>1, ElementOfSeq
  <2>3. (lv = 0 => g[1] = c[1]) /\ (lv > 0 => g[1] = <<key, c[1][2]>>)
    BY ONLY <1>4, <2>1
  <2>5. lv \in Nat /\ (t.nodes[p].leaf <=> lv = 0)
    BY ONLY <1>2
  <2>6. CASE lv = 0
    BY ONLY <1>5, <1>6, <2>2, <2>3, <2>5, <2>6
  <2>7. CASE lv > 0
    <3>1. ~t.nodes[p].leaf
      BY ONLY <2>5, <2>7
    <3>2. e2 = <<key, c[1][2]>>
      BY ONLY <1>5, <1>6, <3>1
    <3> QED BY ONLY <2>2, <2>3, <2>7, <3>2
  <2> QED BY ONLY <2>5, <2>6, <2>7
<1>8. PICK b2 : b2 = Append(b, e2)
  OBVIOUS
<1>9. PICK c2 : c2 = Tail(c)
  OBVIOUS
<1>10. PICK h : h = SetKeyAt(s, 2, c[2][1])
  OBVIOUS
<1>11. PICK t1 : t1 = ThreeArrays(t, p, b2, q, c2, f, h)
  OBVIOUS
<1>12. u = Rehomed(t, t1, p, e[2])
  <2>1. PICK q1 : q1 = t.nodes[q].array[2][1]
    OBVIOUS
  <2>2. CASE t.nodes[p].leaf
    <3>1. MoveFirstToEndOf(t, q, p, f) =
             [t EXCEPT !.nodes[p].array = Append(t.nodes[p].array, t.nodes[q].array[1]),
                       !.nodes[q].array = Tail(t.nodes[q].array),
                       !.nodes[f].array = SetKeyAt(t.nodes[f].array, 2, t.nodes[q].array[2][1])]
      BY ONLY <2>2 DEF MoveFirstToEndOf
    <3>2. b2 = Append(t.nodes[p].array, t.nodes[q].array[1])
      BY ONLY <1>2, <1>5, <1>6, <1>8, <2>2
    <3> QED BY ONLY u = MoveFirstToEndOf(t, q, p, f), <1>2, <1>9, <1>10, <1>11, <2>2, <3>1, <3>2 DEF ThreeArrays, Rehomed
  <2>3. CASE ~t.nodes[p].leaf
    <3>1. MoveFirstToEndOf(t, q, p, f) =
             Adopt([t EXCEPT !.nodes[p].array = Append(t.nodes[p].array, <<t.nodes[f].array[2][1], t.nodes[q].array[1][2]>>),
                             !.nodes[q].array = Tail(t.nodes[q].array),
                             !.nodes[f].array = SetKeyAt(t.nodes[f].array, 2, t.nodes[q].array[2][1])],
                   p, {t.nodes[q].array[1][2]})
      BY ONLY <2>3 DEF MoveFirstToEndOf
    <3>2. b2 = Append(t.nodes[p].array, <<t.nodes[f].array[2][1], t.nodes[q].array[1][2]>>)
      BY ONLY <1>2, <1>z, <1>5, <1>6, <1>8, <2>3
    <3> QED BY ONLY u = MoveFirstToEndOf(t, q, p, f), <1>2, <1>5, <1>9, <1>10, <1>11, <2>3, <3>1, <3>2 DEF ThreeArrays, Rehomed
  <2> QED BY <2>2, <2>3
<1>13. PICK child : child = e[2]
  OBVIOUS
<1>14. MovedOf(t, p, b2, q, c2, f, h, child, u)
  <2>1. u = Rehomed(t, t1, p, child)
    BY ONLY <1>12, <1>13
  <2>2. /\ p \in DOMAIN t.nodes /\ q \in DOMAIN t.nodes /\ f \in DOMAIN t.nodes
        /\ p # q /\ p # f /\ q # f /\ IsTree(t)
    BY ONLY <1>2
  <2> QED BY ONLY <1>11, <2>1, <2>2, MovedEffect
<1>15. /\ IsTree(u) /\ u.root = t.root /\ u.header = t.header /\ u.pins = t.pins
       /\ DOMAIN u.nodes = DOMAIN t.nodes
       /\ u.nodes[p].array = b2 /\ u.nodes[q].array = c2 /\ u.nodes[f].array = h
  BY ONLY <1>14 DEF MovedOf
<1>16. ASSUME NEW x \in DOMAIN t.nodes
       PROVE  /\ u.nodes[x].leaf = t.nodes[x].leaf /\ u.nodes[x].next = t.nodes[x].next
              /\ x # p /\ x # q /\ x # f => u.nodes[x].array = t.nodes[x].array
              /\ u.nodes[x].parent = IF ~t.nodes[p].leaf /\ x = child THEN p ELSE t.nodes[x].parent
  BY ONLY x \in DOMAIN t.nodes, <1>14 DEF MovedOf
<1>17. /\ b2 \in Seq(Entry) /\ Len(b2) = Len(b) + 1 /\ b2[Len(b) + 1] = e2
       /\ \A k \in 1 .. Len(b) : b2[k] = b[k]
  BY ONLY <1>2, <1>7, <1>8, AppendLemma
<1>18. /\ c2 \in Seq(Entry) /\ Len(c2) = Len(c) - 1 /\ \A k \in 1 .. Len(c) - 1 : c2[k] = c[k + 1]
  <2>1. Len(c) > 0
    BY ONLY <1>2, <1>4
  <2> QED BY ONLY <1>2, <1>9, <2>1, TailLemma
<1>19. /\ Len(a) = Len(b) + Len(c) /\ \A k \in 1 .. Len(b) : a[k] = b[k]
       /\ \A k \in 1 .. Len(c) : a[Len(b) + k] = g[k]
  BY ONLY <1>3 DEF Joined
<1>20. PICK m : m = Len(b) + 1
  OBVIOUS
<1>21. m \in Nat /\ 0 < m /\ m < Len(a) /\ Len(a) - m = Len(c) - 1
  BY ONLY <1>n, <1>4, <1>19, <1>20
<1>22. \A k \in 2 .. Len(c) : g[k] = c[k]
  <2>1. \A k \in 1 .. Len(c) : k > 1 \/ lv = 0 => g[k] = c[k]
    BY ONLY <1>3 DEF MovedEntries
  <2> QED BY ONLY <1>2, <2>1
<1>23. \A i \in 1 .. Len(c) - 1 : a[m + i] = c[i + 1]
  <2>1. SUFFICES ASSUME NEW i \in 1 .. Len(c) - 1 PROVE a[m + i] = c[i + 1]
    OBVIOUS
  <2>2. i + 1 \in 1 .. Len(c) /\ i + 1 \in 2 .. Len(c) /\ m + i = Len(b) + (i + 1)
    BY ONLY i \in 1 .. Len(c) - 1, <1>n, <1>20
  <2> QED BY ONLY <1>19, <1>22, <2>2
<1>24. CutInto(a, b2, c2, m, level[p])
  <2>1. ASSUME NEW i \in 1 .. m PROVE b2[i] = a[i]
    <3>1. CASE i = m
      <4>1. a[Len(b) + 1] = g[1]
        BY ONLY <1>4, <1>19
      <4> QED BY ONLY <1>7, <1>17, <1>20, <3>1, <4>1
    <3>2. CASE i # m
      <4>1. i \in 1 .. Len(b)
        BY ONLY i \in 1 .. m, <1>2, <1>20, <3>2
      <4> QED BY ONLY <1>17, <1>19, <4>1
    <3> QED BY <3>1, <3>2
  <2>2. ASSUME NEW i \in 1 .. Len(a) - m PROVE SameEntry(c2[i], a[m + i], i > 1 \/ level[p] = 0)
    <3>1. i \in 1 .. Len(c) - 1
      BY ONLY i \in 1 .. Len(a) - m, <1>21
    <3> QED BY ONLY <1>18, <1>23, <3>1 DEF SameEntry
  <2>3. Len(b2) = m /\ Len(c2) = Len(a) - m
    BY ONLY <1>17, <1>18, <1>20, <1>21
  <2> QED BY ONLY <2>1, <2>2, <2>3 DEF CutInto
<1>25. u.nodes[f].array = SetKeyAt(t.nodes[f].array, 1 + 1, a[m + 1][1])
  <2>1. 1 \in 1 .. Len(c) - 1
    BY ONLY <1>2, <1>4
  <2>2. a[m + 1] = c[1 + 1]
    BY ONLY <1>23, <2>1
  <2>3. 1 + 1 = 2
    OBVIOUS
  <2> QED BY ONLY <1>2, <1>10, <1>15, <2>2, <2>3
<1>26. ASSUME NEW x \in DOMAIN t.nodes
       PROVE  u.nodes[x].parent =
                 IF level[p] > 0 /\ \E i \in m + 1 .. Len(a) : a[i][2] = x THEN q
                 ELSE IF t.nodes[x].parent = q THEN p ELSE t.nodes[x].parent
  <2>1. t.nodes[x].parent = q <=> level[q] > 0 /\ \E i \in 1 .. Len(c) : c[i][2] = x
    BY <1>2, ParentOf
  <2>2. (\E i \in m + 1 .. Len(a) : a[i][2] = x) <=> \E k \in 2 .. Len(c) : c[k][2] = x
    <3>1. ASSUME NEW i \in m + 1 .. Len(a), a[i][2] = x PROVE \E k \in 2 .. Len(c) : c[k][2] = x
      <4>1. i - m \in 1 .. Len(c) - 1 /\ m + (i - m) = i /\ (i - m) + 1 \in 2 .. Len(c)
        BY ONLY i \in m + 1 .. Len(a), <1>2, <1>21
      <4>2. a[i] = c[(i - m) + 1]
        BY ONLY <1>23, <4>1
      <4> QED BY ONLY <3>1, <4>1, <4>2
    <3>2. ASSUME NEW k \in 2 .. Len(c), c[k][2] = x PROVE \E i \in m + 1 .. Len(a) : a[i][2] = x
      <4>1. k - 1 \in 1 .. Len(c) - 1 /\ (k - 1) + 1 = k /\ m + (k - 1) \in m + 1 .. Len(a)
        BY ONLY k \in 2 .. Len(c), <1>2, <1>21
      <4>2. a[m + (k - 1)] = c[k]
        BY ONLY <1>23, <4>1
      <4> QED BY ONLY <3>2, <4>1, <4>2
    <3> QED BY ONLY <3>1, <3>2
  <2>3. (\E i \in 1 .. Len(c) : c[i][2] = x) <=> (x = child \/ \E k \in 2 .. Len(c) : c[k][2] = x)
    BY ONLY <1>2, <1>4, <1>5, <1>13
  <2>4. level[q] > 0 => ~(x = child /\ \E k \in 2 .. Len(c) : c[k][2] = x)
    <3>1. SUFFICES ASSUME level[q] > 0, x = child, NEW k \in 2 .. Len(c), c[k][2] = x PROVE FALSE
      OBVIOUS
    <3>2. PICK arr : arr = Arr(t)
      OBVIOUS
    <3>3. PICK par : par = Par(t)
      OBVIOUS
    <3>4. PICK D : D = DOMAIN t.nodes
      OBVIOUS
    <3>5. PICK root : root = t.root
      OBVIOUS
    <3>6. Shape(D, arr, par, root, part, level, d)
      BY <3>2, <3>3, <3>4, <3>5 DEF Well
    <3>7. arr[q] = c /\ q \in D
      BY <1>2, <3>2, <3>4 DEF Arr
    <3>8. 1 \in 1 .. Len(arr[q]) /\ k \in 1 .. Len(arr[q]) /\ 1 # k
      BY ONLY k \in 2 .. Len(c), <1>2, <1>4, <3>7
    <3>9. arr[q][1][2] # arr[q][k][2]
      BY ONLY level[q] > 0, <3>6, <3>7, <3>8, DistinctChildren
    <3> QED BY ONLY <1>5, <1>13, <3>1, <3>7, <3>9
  <2>5. ~t.nodes[p].leaf <=> level[p] > 0
    BY ONLY <1>2
  <2>6. u.nodes[x].parent = IF ~t.nodes[p].leaf /\ x = child THEN p ELSE t.nodes[x].parent
    BY ONLY x \in DOMAIN t.nodes, <1>16
  <2>7. level[p] = level[q]
    BY ONLY <1>2
  <2> QED BY ONLY <2>1, <2>2, <2>3, <2>4, <2>5, <2>6, <2>7
<1>27. ShiftOf(t, p, q, f, 1, a, m, level, u)
  BY ONLY <1>15, <1>16, <1>17, <1>18, <1>24, <1>25, <1>26 DEF ShiftOf
<1>28. Len(u.nodes[p].array) = Len(t.nodes[p].array) + 1 /\ Len(u.nodes[q].array) = Len(t.nodes[q].array) - 1
  BY ONLY <1>2, <1>15, <1>17, <1>18
<1> QED BY ONLY <1>2, <1>15, <1>16, <1>21, <1>27, <1>28 DEF ShiftDone

\* What putting an entry in front returns.
LEMMA ConsLemma ==
    ASSUME NEW e \in Entry, NEW g \in Seq(Entry), NEW b, b = <<e>> \o g
    PROVE  /\ b \in Seq(Entry) /\ Len(b) = Len(g) + 1 /\ b[1] = e
           /\ \A k \in 1 .. Len(g) : b[k + 1] = g[k]
<1>1. PICK s : s = <<e>>
  OBVIOUS
<1>2. s \in Seq(Entry) /\ Len(s) = 1 /\ s[1] = e /\ Len(g) \in Nat
  BY <1>1
<1>3. /\ s \o g \in Seq(Entry) /\ Len(s \o g) = Len(s) + Len(g)
      /\ \A k \in 1 .. Len(s) + Len(g) : (s \o g)[k] = IF k <= Len(s) THEN s[k] ELSE g[k - Len(s)]
  BY <1>2, ConcatLemma
<1>4. b = s \o g
  BY <1>1
<1>5. /\ b \in Seq(Entry) /\ Len(b) = 1 + Len(g)
      /\ \A k \in 1 .. 1 + Len(g) : b[k] = IF k <= 1 THEN s[k] ELSE g[k - 1]
  BY ONLY <1>2, <1>3, <1>4
<1>6. Len(b) = Len(g) + 1
  BY ONLY <1>2, <1>5
<1>7. b[1] = e
  BY ONLY <1>2, <1>5
<1>8. ASSUME NEW k \in 1 .. Len(g) PROVE b[k + 1] = g[k]
  <2>1. k + 1 \in 1 .. 1 + Len(g) /\ ~(k + 1 <= 1) /\ (k + 1) - 1 = k
    BY ONLY k \in 1 .. Len(g), <1>2
  <2> QED BY ONLY <1>5, <2>1
<1> QED BY ONLY <1>5, <1>6, <1>7, <1>8

\* What Front returns.
LEMMA FrontLemma ==
    ASSUME NEW s \in Seq(Entry), Len(s) > 0, NEW b, b = Front(s)
    PROVE  /\ b \in Seq(Entry) /\ Len(b) = Len(s) - 1
           /\ \A k \in 1 .. Len(s) - 1 : b[k] = s[k]
<1>1. PICK n \in Nat : n = Len(s) - 1
  OBVIOUS
<1>2. b = SubSeq(s, 1, n)
  BY <1>1 DEF Front
<1>3. 1 \in Nat /\ 1 <= 1 /\ 1 <= n + 1 /\ n <= Len(s) /\ n - 1 + 1 = n
  BY <1>1
<1>4. /\ SubSeq(s, 1, n) \in Seq(Entry) /\ Len(SubSeq(s, 1, n)) = n - 1 + 1
      /\ \A k \in 1 .. n - 1 + 1 : SubSeq(s, 1, n)[k] = s[1 + k - 1]
  BY <1>3, SubSeqLemma
<1>5. \A k \in 1 .. n : 1 + k - 1 = k
  BY <1>1
<1> QED BY ONLY <1>1, <1>2, <1>3, <1>4, <1>5

\* MoveLastToFrontOf keeps the tree well formed.
LEMMA MoveLastOK ==
    ASSUME NEW t, NEW part, NEW level, NEW d, Well(t, part, level, d),
           NEW p, NEW q, NEW f, NEW j, Neighbours(t, q, p, f, j, level),
           Len(t.nodes[q].array) >= 2, NEW n, n = j + 1,
           NEW u, u = MoveLastToFrontOf(t, q, p, f, n)
    PROVE  ShiftDone(t, q, p, f, j, level, Len(t.nodes[q].array) - 1, Len(t.nodes[p].array) + 1, u)
<1>1. PICK b, c, s, lv, key, g, a : ShiftSetting(t, q, p, f, j, level, b, c, s, lv, key, g, a)
  BY ShiftSettingLemma
<1>2. /\ b = t.nodes[q].array /\ c = t.nodes[p].array /\ s = t.nodes[f].array
      /\ b \in Seq(Entry) /\ c \in Seq(Entry) /\ s \in Seq(Entry)
      /\ Len(b) \in Nat /\ Len(c) \in Nat /\ lv \in Nat /\ lv = level[q]
      /\ key \in Int /\ key = s[j + 1][1]
      /\ a = JoinOf(t, q, p, f, j, level)
      /\ (t.nodes[q].leaf <=> lv = 0) /\ (t.nodes[p].leaf <=> lv = 0)
      /\ q # p /\ q # f /\ p # f /\ IsTree(t) /\ level[q] = level[p]
      /\ p \in DOMAIN t.nodes /\ q \in DOMAIN t.nodes /\ f \in DOMAIN t.nodes
  BY ONLY <1>1 DEF ShiftSetting
<1>3. MovedEntries(c, lv, key, g) /\ Joined(b, c, lv, key, a) /\ g = MovedAll(c, lv, key)
  BY ONLY <1>1 DEF ShiftSetting
<1>z. key = s[n][1]
  BY ONLY n = j + 1, <1>2
<1>n. Len(b) \in Nat /\ Len(c) \in Nat
  BY ONLY <1>2
<1>4. Len(b) >= 2 /\ Len(b) \in 1 .. Len(b) /\ Len(b) > 0
  BY ONLY Len(t.nodes[q].array) >= 2, <1>2
<1>5. PICK e : e = b[Len(b)]
  OBVIOUS
<1>6. e \in Entry
  BY ONLY <1>2, <1>4, <1>5, ElementOfSeq
<1>7. /\ g \in Seq(Entry) /\ Len(g) = Len(c) /\ \A k \in 1 .. Len(c) : g[k][2] = c[k][2]
  BY ONLY <1>3 DEF MovedEntries
<1>8. PICK c2 : c2 = <<e>> \o g
  OBVIOUS
<1>9. PICK b2 : b2 = Front(b)
  OBVIOUS
<1>10. PICK h : h = SetKeyAt(s, n, e[1])
  OBVIOUS
<1>11. PICK t1 : t1 = ThreeArrays(t, p, c2, q, b2, f, h)
  OBVIOUS
<1>12. u = Rehomed(t, t1, p, e[2])
  <2>1. e = Last(t.nodes[q].array)
    BY ONLY <1>2, <1>5 DEF Last
  <2>2. CASE t.nodes[p].leaf
    <3>1. MoveLastToFrontOf(t, q, p, f, n) =
             [t EXCEPT !.nodes[p].array = <<Last(t.nodes[q].array)>> \o t.nodes[p].array,
                       !.nodes[q].array = Front(t.nodes[q].array),
                       !.nodes[f].array = SetKeyAt(t.nodes[f].array, n, Last(t.nodes[q].array)[1])]
      BY ONLY <2>2 DEF MoveLastToFrontOf
    <3>2. g = t.nodes[p].array
      BY ONLY <1>2, <1>3, <2>2 DEF MovedAll
    <3> QED BY ONLY u = MoveLastToFrontOf(t, q, p, f, n), <1>2, <1>8, <1>9, <1>10, <1>11, <2>1, <2>2, <3>1, <3>2 DEF ThreeArrays, Rehomed
  <2>3. CASE ~t.nodes[p].leaf
    <3>1. MoveLastToFrontOf(t, q, p, f, n) =
             Adopt([t EXCEPT !.nodes[p].array = <<Last(t.nodes[q].array)>> \o WithMiddleKey(t.nodes[p].array, t.nodes[f].array[n][1]),
                             !.nodes[q].array = Front(t.nodes[q].array),
                             !.nodes[f].array = SetKeyAt(t.nodes[f].array, n, Last(t.nodes[q].array)[1])],
                   p, {Last(t.nodes[q].array)[2]})
      BY ONLY <2>3 DEF MoveLastToFrontOf
    <3>2. g = WithMiddleKey(t.nodes[p].array, t.nodes[f].array[n][1])
      BY ONLY <1>2, <1>3, <1>z, <2>3 DEF MovedAll
    <3> QED BY ONLY u = MoveLastToFrontOf(t, q, p, f, n), <1>2, <1>8, <1>9, <1>10, <1>11, <2>1, <2>3, <3>1, <3>2 DEF ThreeArrays, Rehomed
  <2> QED BY <2>2, <2>3
<1>13. PICK child : child = e[2]
  OBVIOUS
<1>14. MovedOf(t, p, c2, q, b2, f, h, child, u)
  <2>1. u = Rehomed(t, t1, p, child)
    BY ONLY <1>12, <1>13
  <2>2. /\ p \in DOMAIN t.nodes /\ q \in DOMAIN t.nodes /\ f \in DOMAIN t.nodes
        /\ p # q /\ p # f /\ q # f /\ IsTree(t)
    BY ONLY <1>2
  <2> QED BY ONLY <1>11, <2>1, <2>2, MovedEffect
<1>15. /\ IsTree(u) /\ u.root = t.root /\ u.header = t.header /\ u.pins = t.pins
       /\ DOMAIN u.nodes = DOMAIN t.nodes
       /\ u.nodes[p].array = c2 /\ u.nodes[q].array = b2 /\ u.nodes[f].array = h
  BY ONLY <1>14 DEF MovedOf
<1>16. ASSUME NEW x \in DOMAIN t.nodes
       PROVE  /\ u.nodes[x].leaf = t.nodes[x].leaf /\ u.nodes[x].next = t.nodes[x].next
              /\ x # q /\ x # p /\ x # f => u.nodes[x].array = t.nodes[x].array
              /\ u.nodes[x].parent = IF ~t.nodes[p].leaf /\ x = child THEN p ELSE t.nodes[x].parent
  BY ONLY x \in DOMAIN t.nodes, <1>14 DEF MovedOf
<1>17. /\ c2 \in Seq(Entry) /\ Len(c2) = Len(g) + 1 /\ c2[1] = e
       /\ \A k \in 1 .. Len(g) : c2[k + 1] = g[k]
  BY ONLY <1>6, <1>7, <1>8, ConsLemma
<1>18. /\ b2 \in Seq(Entry) /\ Len(b2) = Len(b) - 1 /\ \A k \in 1 .. Len(b) - 1 : b2[k] = b[k]
  BY ONLY <1>2, <1>4, <1>9, FrontLemma, SMTT(30)
<1>19. /\ Len(a) = Len(b) + Len(c) /\ \A k \in 1 .. Len(b) : a[k] = b[k]
       /\ \A k \in 1 .. Len(c) : a[Len(b) + k] = g[k]
  BY ONLY <1>3 DEF Joined
<1>20. PICK m : m = Len(b) - 1
  OBVIOUS
<1>21. m \in Nat /\ 0 < m /\ m < Len(a) /\ Len(a) - m = Len(c) + 1 /\ m + 1 = Len(b)
  BY ONLY <1>n, <1>4, <1>19, <1>20
<1>22. a[m + 1] = e
  BY ONLY <1>4, <1>5, <1>19, <1>21
<1>23. \A k \in 1 .. Len(c) : a[m + (k + 1)] = g[k]
  <2>1. SUFFICES ASSUME NEW k \in 1 .. Len(c) PROVE a[m + (k + 1)] = g[k]
    OBVIOUS
  <2>2. m + (k + 1) = Len(b) + k
    BY ONLY k \in 1 .. Len(c), <1>n, <1>20
  <2> QED BY ONLY k \in 1 .. Len(c), <1>19, <2>2
<1>24. CutInto(a, b2, c2, m, level[q])
  <2>1. ASSUME NEW i \in 1 .. m PROVE b2[i] = a[i]
    <3>1. i \in 1 .. Len(b) - 1 /\ i \in 1 .. Len(b)
      BY ONLY i \in 1 .. m, <1>n, <1>20
    <3> QED BY ONLY <1>18, <1>19, <3>1
  <2>2. ASSUME NEW i \in 1 .. Len(a) - m PROVE SameEntry(c2[i], a[m + i], i > 1 \/ level[q] = 0)
    <3>0. i \in 1 .. Len(c) + 1
      BY ONLY i \in 1 .. Len(a) - m, <1>21
    <3>1. CASE i = 1
      BY ONLY <1>17, <1>22, <3>1 DEF SameEntry
    <3>2. CASE i # 1
      <4>1. i - 1 \in 1 .. Len(c) /\ (i - 1) + 1 = i
        BY ONLY <1>n, <3>0, <3>2
      <4>2. c2[i] = g[i - 1] /\ a[m + i] = g[i - 1]
        BY ONLY <1>7, <1>17, <1>23, <4>1
      <4> QED BY ONLY <4>2 DEF SameEntry
    <3> QED BY <3>1, <3>2
  <2>3. Len(b2) = m /\ Len(c2) = Len(a) - m
    BY ONLY <1>n, <1>7, <1>17, <1>18, <1>20, <1>21
  <2> QED BY ONLY <2>1, <2>2, <2>3 DEF CutInto
<1>25. u.nodes[f].array = SetKeyAt(t.nodes[f].array, j + 1, a[m + 1][1])
  BY ONLY n = j + 1, <1>2, <1>10, <1>15, <1>22
<1>26. ASSUME NEW x \in DOMAIN t.nodes
       PROVE  u.nodes[x].parent =
                 IF level[q] > 0 /\ \E i \in m + 1 .. Len(a) : a[i][2] = x THEN p
                 ELSE IF t.nodes[x].parent = p THEN q ELSE t.nodes[x].parent
  <2>1. t.nodes[x].parent = p <=> level[p] > 0 /\ \E i \in 1 .. Len(c) : c[i][2] = x
    BY <1>2, ParentOf
  <2>2. (\E i \in m + 1 .. Len(a) : a[i][2] = x) <=> (x = child \/ \E k \in 1 .. Len(c) : c[k][2] = x)
    <3>1. ASSUME NEW i \in m + 1 .. Len(a), a[i][2] = x PROVE x = child \/ \E k \in 1 .. Len(c) : c[k][2] = x
      <4>1. CASE i = m + 1
        BY ONLY <1>13, <1>22, <3>1, <4>1
      <4>2. CASE i # m + 1
        <5>1. PICK k : k = i - (m + 1)
          OBVIOUS
        <5>2. k \in 1 .. Len(c) /\ m + (k + 1) = i
          BY ONLY i \in m + 1 .. Len(a), <1>n, <1>19, <1>21, <4>2, <5>1
        <5>3. a[i] = g[k]
          BY ONLY <1>23, <5>2
        <5> QED BY ONLY <1>7, <3>1, <5>2, <5>3
      <4> QED BY ONLY <4>1, <4>2
    <3>2. ASSUME NEW k \in 1 .. Len(c), c[k][2] = x PROVE \E i \in m + 1 .. Len(a) : a[i][2] = x
      <4>1. m + (k + 1) \in m + 1 .. Len(a)
        BY ONLY k \in 1 .. Len(c), <1>n, <1>19, <1>21
      <4>2. a[m + (k + 1)][2] = x
        BY ONLY k \in 1 .. Len(c), <1>7, <1>23, <3>2
      <4> QED BY ONLY <4>1, <4>2
    <3>3. ASSUME x = child PROVE \E i \in m + 1 .. Len(a) : a[i][2] = x
      <4>1. m + 1 \in m + 1 .. Len(a)
        BY ONLY <1>n, <1>19, <1>21
      <4> QED BY ONLY <1>13, <1>22, <3>3, <4>1
    <3> QED BY ONLY <3>1, <3>2, <3>3
  <2>5. ~t.nodes[p].leaf <=> level[q] > 0
    BY ONLY <1>2
  <2>6. u.nodes[x].parent = IF ~t.nodes[p].leaf /\ x = child THEN p ELSE t.nodes[x].parent
    BY ONLY x \in DOMAIN t.nodes, <1>16
  <2>7. level[p] = level[q]
    BY ONLY <1>2
  <2> QED BY ONLY <2>1, <2>2, <2>5, <2>6, <2>7
<1>27. ShiftOf(t, q, p, f, j, a, m, level, u)
  BY ONLY <1>15, <1>16, <1>17, <1>18, <1>24, <1>25, <1>26 DEF ShiftOf
<1>28. Len(u.nodes[p].array) = Len(t.nodes[p].array) + 1 /\ Len(u.nodes[q].array) = Len(t.nodes[q].array) - 1
  BY ONLY <1>2, <1>7, <1>15, <1>17, <1>18
<1> QED BY ONLY <1>2, <1>15, <1>16, <1>21, <1>27, <1>28 DEF ShiftDone

-----------------------------------------------------------------------------
(* Removal: the root has become small.                                     *)

\* Between two steps of a removal: page x, which is pinned, may have an entry
\* too few.
Shrinking(t, x, part, level, d) ==
    /\ Well(t, part, level, d) /\ x \in DOMAIN t.nodes /\ t.pins = SetToBag({x})
    /\ \A y \in DOMAIN t.nodes : y # x => SizeOK(t, level, y)
    /\ Len(t.nodes[x].array) < Full(level[x]) /\ Len(t.nodes[x].array) + 1 >= Least(t, level, x)

\* A page pinned once and unpinned leaves no pin.
LEMMA LastPin ==
    ASSUME NEW p
    PROVE  SetToBag({p}) (-) SetToBag({p}) = EmptyBag
<1>1. SetToBag({p}) (-) SetToBag({p}) = SetToBag({p} \ {p})
  BY PinSub
<1>2. {p} \ {p} = {}
  OBVIOUS
<1> QED BY <1>1, <1>2, NoPins

\* Unpinning the last page pinned changes no page.
LEMMA UnpinLast ==
    ASSUME NEW t, IsTree(t), NEW p, t.pins = SetToBag({p}), NEW u, u = UnpinPages(t, {p})
    PROVE  SamePages(t, u) /\ u.pins = EmptyBag
<1>1. PICK ps : ps = {p}
  OBVIOUS
<1>2. u = UnpinPages(t, ps)
  BY <1>1
<1>3. /\ IsTree(u) /\ u.root = t.root /\ u.header = t.header /\ u.nodes = t.nodes
      /\ u.pins = t.pins (-) SetToBag(ps)
  BY ONLY IsTree(t), <1>2, UnpinEffect
<1>4. u.pins = SetToBag({p}) (-) SetToBag({p})
  BY ONLY t.pins = SetToBag({p}), <1>1, <1>3
<1>5. u.pins = EmptyBag
  BY ONLY <1>4, LastPin
<1> QED BY ONLY <1>3, <1>5 DEF SamePages

\* Nothing is wrong with x: it is unpinned.
LEMMA ShrinkEnds ==
    ASSUME NEW t, NEW x, NEW part, NEW level, NEW d, Shrinking(t, x, part, level, d),
           Len(t.nodes[x].array) >= Least(t, level, x), NEW u, u = UnpinPages(t, {x})
    PROVE  Settled(u, part, level, d)
<1>1. /\ Well(t, part, level, d) /\ x \in DOMAIN t.nodes /\ t.pins = SetToBag({x})
      /\ \A y \in DOMAIN t.nodes : y # x => SizeOK(t, level, y)
      /\ Len(t.nodes[x].array) < Full(level[x])
  BY DEF Shrinking
<1>2. IsTree(t)
  BY <1>1, WellFacts
<1>3. SamePages(t, u) /\ u.pins = EmptyBag
  BY ONLY u = UnpinPages(t, {x}), <1>1, <1>2, UnpinLast
<1>4. \A y \in DOMAIN t.nodes : SizeOK(t, level, y)
  BY <1>1 DEF SizeOK
<1> QED BY <1>1, <1>3, <1>4, WellSame DEF Settled, SamePages

\* An empty root leaf leaves an empty tree.
LEMMA LastLeafGone ==
    ASSUME NEW t, NEW p, NEW part, NEW level, NEW d, Shrinking(t, p, part, level, d),
           p = t.root, level[p] = 0, t.nodes[p].array = <<>>,
           NEW u, u = UpdateRootPageId(Drop(UnpinPages(t, {p}), p), INVALID_PAGE_ID)
    PROVE  Emptied(u, d)
<1>1. Well(t, part, level, d) /\ p \in DOMAIN t.nodes /\ t.pins = SetToBag({p})
  BY DEF Shrinking
<1>2. PICK v : v = UnpinPages(t, {p})
  OBVIOUS
<1>3. IsTree(v) /\ v.nodes = t.nodes /\ v.pins = EmptyBag
  <2>1. IsTree(t)
    BY <1>1, WellFacts
  <2>2. SamePages(t, v) /\ v.pins = EmptyBag
    BY ONLY <1>1, <1>2, <2>1, UnpinLast
  <2> QED BY ONLY <2>2 DEF SamePages
<1>4. PICK w : w = Drop(v, p)
  OBVIOUS
<1>5. IsTree(w) /\ w.pins = v.pins /\ DOMAIN w.nodes = DOMAIN v.nodes \ {p}
  BY <1>3, <1>4, DropEffect
<1>6. u = UpdateRootPageId(w, INVALID_PAGE_ID)
  BY <1>2, <1>4
<1>7. IsTree(u) /\ u.root = INVALID_PAGE_ID /\ u.header = INVALID_PAGE_ID /\ u.pins = w.pins /\ u.nodes = w.nodes
  BY <1>5, <1>6, RootEffect
<1>8. DOMAIN t.nodes = {p}
  <2>1. SUFFICES ASSUME NEW x \in DOMAIN t.nodes, x # p PROVE FALSE
    BY <1>1
  <2>2. t.nodes[x].parent \in DOMAIN t.nodes /\ level[t.nodes[x].parent] = level[x] + 1 /\ level[x] \in Nat
    BY <1>1, <2>1, PlaceInParent, PageFacts
  <2>3. \A y \in DOMAIN t.nodes : level[y] <= level[t.root]
    BY <1>1 DEF Well, Shape, Rooted
  <2>4. level[t.nodes[x].parent] <= 0
    BY <2>2, <2>3
  <2> QED BY <2>2, <2>4
<1>9. \A k \in Keys : k \notin DOMAIN d
  <2>1. part[p] = Keys
    BY <1>1 DEF Well, Shape, Rooted
  <2>2. LeafHolds(Arr(t)[p], part[p], d)
    BY <1>1 DEF Well, Shape, LeavesOK
  <2>3. Arr(t)[p] = <<>>
    BY <1>1 DEF Arr
  <2>4. \A i \in 1 .. Len(<<>>) : FALSE
    OBVIOUS
  <2>5. \A k \in Keys : k \in DOMAIN d => \E i \in 1 .. Len(<<>>) : Arr(t)[p][i][1] = k
    BY ONLY <2>1, <2>2, <2>3 DEF LeafHolds
  <2> QED BY ONLY <2>4, <2>5
<1> QED BY <1>3, <1>5, <1>7, <1>8, <1>9 DEF Emptied

\* u is t without its root, whose only child c takes its place.
RootDropped(t, c, u) ==
    /\ IsTree(u) /\ u.root = c /\ u.header = c
    /\ DOMAIN u.nodes = DOMAIN t.nodes \ {t.root} /\ u.pins = EmptyBag
    /\ \A x \in DOMAIN u.nodes :
          /\ u.nodes[x].leaf = t.nodes[x].leaf /\ u.nodes[x].array = t.nodes[x].array
          /\ u.nodes[x].next = t.nodes[x].next
          /\ u.nodes[x].parent = IF x = c THEN INVALID_PAGE_ID ELSE t.nodes[x].parent

\* What AdjustRoot does to the pages when the root has one child left.
LEMMA RootDroppedEffect ==
    ASSUME NEW t, IsTree(t), t.pins = SetToBag({t.root}), NEW c,
           NEW u, u = UpdateRootPageId(Adopt(Drop(UnpinPages(t, {t.root}), t.root), INVALID_PAGE_ID, {c}), c)
    PROVE  RootDropped(t, c, u)
<1>0. PICK p : p = t.root
  OBVIOUS
<1>1. PICK v : v = UnpinPages(t, {p})
  OBVIOUS
<1>2. IsTree(v) /\ v.nodes = t.nodes /\ v.pins = EmptyBag
  <2>1. t.pins = SetToBag({p})
    BY <1>0
  <2>2. SamePages(t, v) /\ v.pins = EmptyBag
    BY ONLY IsTree(t), <1>1, <2>1, UnpinLast
  <2> QED BY ONLY <2>2 DEF SamePages
<1>3. PICK w : w = Drop(v, p)
  OBVIOUS
<1>4. /\ IsTree(w) /\ w.pins = v.pins /\ DOMAIN w.nodes = DOMAIN v.nodes \ {p}
      /\ \A x \in DOMAIN v.nodes : x # p => w.nodes[x] = v.nodes[x]
  BY <1>2, <1>3, DropEffect
<1>5. PICK C : C = {c}
  OBVIOUS
<1>6. PICK y : y = Adopt(w, INVALID_PAGE_ID, C)
  OBVIOUS
<1>7. /\ IsTree(y) /\ y.pins = w.pins /\ DOMAIN y.nodes = DOMAIN w.nodes
      /\ \A x \in DOMAIN w.nodes :
            /\ y.nodes[x].parent = IF x \in C THEN INVALID_PAGE_ID ELSE w.nodes[x].parent
            /\ y.nodes[x].leaf = w.nodes[x].leaf /\ y.nodes[x].array = w.nodes[x].array
            /\ y.nodes[x].next = w.nodes[x].next
  BY ONLY <1>4, <1>6, AdoptEffect
<1>8. u = UpdateRootPageId(y, c)
  BY <1>0, <1>1, <1>3, <1>5, <1>6
<1>9. IsTree(u) /\ u.root = c /\ u.header = c /\ u.pins = y.pins /\ u.nodes = y.nodes
  BY ONLY <1>7, <1>8, RootEffect
<1>10. \A x \in DOMAIN u.nodes :
          /\ u.nodes[x].leaf = t.nodes[x].leaf /\ u.nodes[x].array = t.nodes[x].array
          /\ u.nodes[x].next = t.nodes[x].next
          /\ u.nodes[x].parent = IF x = c THEN INVALID_PAGE_ID ELSE t.nodes[x].parent
  BY ONLY <1>2, <1>4, <1>5, <1>7, <1>9
<1> QED BY ONLY <1>0, <1>2, <1>4, <1>7, <1>9, <1>10 DEF RootDropped

\* The only child of the root takes its place.
LEMMA RootGoneOK ==
    ASSUME NEW t, NEW p, NEW part, NEW level, NEW d, Shrinking(t, p, part, level, d),
           p = t.root, level[p] > 0, Len(t.nodes[p].array) = 1,
           NEW c, c = t.nodes[p].array[1][2], NEW u, RootDropped(t, c, u)
    PROVE  \E part2, level2 : Settled(u, part2, level2, d)
<1>0. PICK D : D = DOMAIN t.nodes
  OBVIOUS
<1>1. /\ Well(t, part, level, d) /\ p \in D
      /\ \A y \in D : y # p => SizeOK(t, level, y)
  BY <1>0 DEF Shrinking
<1>2. PICK arr : arr = Arr(t)
  OBVIOUS
<1>3. PICK par : par = Par(t)
  OBVIOUS
<1>4. PICK nxt : nxt = Nxt(t)
  OBVIOUS
<1>5. Shape(D, arr, par, p, part, level, d) /\ Chain(D, nxt, part, level)
  BY <1>0, <1>1, <1>2, <1>3, <1>4 DEF Well
<1>6. /\ IsTree(u) /\ u.root = c /\ u.header = c /\ DOMAIN u.nodes = D \ {p} /\ u.pins = EmptyBag
      /\ \A x \in D \ {p} :
            /\ u.nodes[x].leaf = t.nodes[x].leaf /\ u.nodes[x].array = t.nodes[x].array
            /\ u.nodes[x].next = t.nodes[x].next
            /\ u.nodes[x].parent = IF x = c THEN INVALID_PAGE_ID ELSE t.nodes[x].parent
  BY <1>0 DEF RootDropped
<1>7. PICK arr2 : arr2 = Arr(u)
  OBVIOUS
<1>8. PICK par2 : par2 = Par(u)
  OBVIOUS
<1>9. PICK nxt2 : nxt2 = Nxt(u)
  OBVIOUS
<1>10. \A x \in D : arr[x] = t.nodes[x].array /\ par[x] = t.nodes[x].parent /\ nxt[x] = t.nodes[x].next
  BY ONLY <1>0, <1>2, <1>3, <1>4 DEF Arr, Par, Nxt
<1>11. /\ DOMAIN arr2 = D \ {p} /\ DOMAIN par2 = D \ {p} /\ DOMAIN nxt2 = D \ {p}
       /\ arr2 = [x \in D \ {p} |-> arr2[x]] /\ par2 = [x \in D \ {p} |-> par2[x]]
       /\ nxt2 = [x \in D \ {p} |-> nxt2[x]]
       /\ \A x \in D \ {p} : /\ arr2[x] = u.nodes[x].array /\ par2[x] = u.nodes[x].parent
                             /\ nxt2[x] = u.nodes[x].next
  BY ONLY <1>6, <1>7, <1>8, <1>9 DEF Arr, Par, Nxt
<1>12. \A x \in D : arr[x] \in Seq(Entry) /\ par[x] \in Int /\ nxt[x] \in Int
  BY <1>5 DEF Shape, Types, Chain
<1>13. c \in D /\ c # p /\ level[c] + 1 = level[p]
  <2>1. Len(t.nodes[p].array) = 1 /\ 1 \in 1 .. Len(t.nodes[p].array)
    OBVIOUS
  <2> QED BY <1>0, <1>1, <2>1, ChildBelow, SMTT(60)
<1>14. RootGone(D, arr, par, level, p, c, arr2, par2)
  <2>0. Len(arr[p]) = 1 /\ c = arr[p][1][2] /\ level[p] > 0
    BY <1>1, <1>10
  <2>1. ASSUME NEW x \in D \ {p}
        PROVE  arr2[x] = arr[x] /\ nxt2[x] = nxt[x] /\ par2[x] = IF x = c THEN INVALID_PAGE_ID ELSE par[x]
    BY ONLY x \in D \ {p}, <1>6, <1>10, <1>11
  <2>2. arr2 \in [D \ {p} -> Seq(Entry)] /\ par2 \in [D \ {p} -> Int]
    <3>1. INVALID_PAGE_ID \in Int
      BY DEF INVALID_PAGE_ID
    <3>2. \A x \in D \ {p} : arr2[x] \in Seq(Entry) /\ par2[x] \in Int
      BY ONLY <1>12, <2>1, <3>1
    <3> QED BY ONLY <1>11, <3>2
  <2> QED BY ONLY <1>13, <2>0, <2>1, <2>2 DEF RootGone
<1>15. PICK part2 : part2 = Without(D, part, p)
  OBVIOUS
<1>16. PICK level2 : level2 = Without(D, level, p)
  OBVIOUS
<1>17. Shape(D \ {p}, arr2, par2, c, part2, level2, d)
  <2>1. Shape(D, arr, par, p, part, level, d)
    BY ONLY <1>5
  <2>2. c \in D /\ c # p /\ Shape(D \ {p}, arr2, par2, c, part2, level2, d)
    BY ONLY <1>14, <1>15, <1>16, <2>1, DropRoot
  <2> QED BY ONLY <2>2
<1>18. Chain(D \ {p}, nxt2, part2, level2)
  <2>0. PICK E : E = D \ {p}
    OBVIOUS
  <2>1. \A x \in E : x \in D /\ nxt2[x] = nxt[x] /\ part2[x] = part[x] /\ level2[x] = level[x]
    BY ONLY <1>6, <1>10, <1>11, <1>15, <1>16, <2>0 DEF Without
  <2>2. nxt2 \in [E -> Int]
    <3>1. \A x \in E : nxt2[x] \in Int
      BY ONLY <1>12, <2>1
    <3> QED BY ONLY <1>11, <2>0, <3>1
  <2>3. \A x \in D : level[x] = 0 => x \in E
    BY <2>0
  <2>4. SameLinks(D, E, nxt, part, level, nxt2, part2, level2)
    BY ONLY <2>1, <2>2, <2>3 DEF SameLinks
  <2>5. Chain(E, nxt2, part2, level2)
    BY ONLY <1>5, <2>4, ChainKept
  <2> QED BY <2>0, <2>5
<1>19. \A x \in D \ {p} : u.nodes[x].leaf <=> level2[x] = 0
  <2>1. \A x \in D : t.nodes[x].leaf <=> level[x] = 0
    BY <1>0, <1>1 DEF Well
  <2> QED BY ONLY <1>6, <1>16, <2>1 DEF Without
<1>20. Well(u, part2, level2, d)
  BY ONLY <1>6, <1>7, <1>8, <1>9, <1>17, <1>18, <1>19 DEF Well
<1>21. ASSUME NEW y \in D \ {p} PROVE SizeOK(u, level2, y)
  <2>1. SizeOK(t, level, y) /\ y # t.root
    BY <1>1
  <2>2. level[y] \in Nat /\ Len(t.nodes[y].array) \in Nat
    BY <1>0, <1>1, PageFacts
  <2>3. PICK l \in Nat : l = level[y]
    BY <2>2
  <2>4. Half(l) \in Nat /\ Half(l) >= 1 /\ (l > 0 => Half(l) >= 2)
    BY Halves
  <2>5. level2[y] = l /\ u.nodes[y].array = t.nodes[y].array
    BY ONLY y \in D \ {p}, <1>6, <1>16, <2>3 DEF Without
  <2>6. Len(t.nodes[y].array) < Full(l) /\ Len(t.nodes[y].array) >= Half(l)
    BY ONLY <2>1, <2>3 DEF SizeOK, Least
  <2>7. Len(u.nodes[y].array) >= Least(u, level2, y)
    BY ONLY <2>2, <2>4, <2>5, <2>6 DEF Least
  <2> QED BY ONLY <2>5, <2>6, <2>7 DEF SizeOK
<1>22. Settled(u, part2, level2, d)
  BY ONLY <1>6, <1>20, <1>21 DEF Settled
<1> QED BY <1>22

\* AdjustRoot leaves an empty tree or one with a root that is large enough.
LEMMA AdjustRootOK ==
    ASSUME NEW t, NEW p, NEW part, NEW level, NEW d, Shrinking(t, p, part, level, d),
           p = t.root, NEW u, u = AdjustRoot(t, p)
    PROVE  Emptied(u, d) \/ \E part2, level2 : Settled(u, part2, level2, d)
<1>1. /\ Well(t, part, level, d) /\ p \in DOMAIN t.nodes /\ t.pins = SetToBag({p})
      /\ Len(t.nodes[p].array) + 1 >= Least(t, level, p)
  BY DEF Shrinking
<1>2. /\ t.nodes[p].array \in Seq(Entry) /\ Len(t.nodes[p].array) \in Nat /\ level[p] \in Nat
      /\ (t.nodes[p].leaf <=> level[p] = 0)
  BY <1>1, PageFacts
<1>3. CASE level[p] = 0 /\ t.nodes[p].array = <<>>
  <2>1. u = UpdateRootPageId(Drop(UnpinPages(t, {p}), p), INVALID_PAGE_ID)
    BY ONLY u = AdjustRoot(t, p), <1>2, <1>3 DEF AdjustRoot
  <2> QED BY ONLY Shrinking(t, p, part, level, d), p = t.root, <1>3, <2>1, LastLeafGone
<1>4. CASE level[p] > 0 /\ Len(t.nodes[p].array) = 1
  <2>1. PICK c : c = t.nodes[p].array[1][2]
    OBVIOUS
  <2>2. u = UpdateRootPageId(Adopt(Drop(UnpinPages(t, {p}), p), INVALID_PAGE_ID, {c}), c)
    BY ONLY u = AdjustRoot(t, p), <1>2, <1>4, <2>1 DEF AdjustRoot
  <2>3. IsTree(t)
    BY <1>1, WellFacts
  <2>4. /\ t.pins = SetToBag({t.root})
        /\ u = UpdateRootPageId(Adopt(Drop(UnpinPages(t, {t.root}), t.root), INVALID_PAGE_ID, {c}), c)
    BY ONLY p = t.root, <1>1, <2>2
  <2>5. RootDropped(t, c, u)
    BY ONLY <2>3, <2>4, RootDroppedEffect
  <2> QED BY ONLY Shrinking(t, p, part, level, d), p = t.root, <1>4, <2>1, <2>5, RootGoneOK
<1>5. CASE ~(level[p] = 0 /\ t.nodes[p].array = <<>>) /\ ~(level[p] > 0 /\ Len(t.nodes[p].array) = 1)
  <2>1. u = UnpinPages(t, {p})
    BY ONLY u = AdjustRoot(t, p), <1>2, <1>5 DEF AdjustRoot
  <2>2. t.nodes[p].array # <<>> => Len(t.nodes[p].array) >= 1
    BY ONLY <1>2
  <2>3. Least(t, level, p) = IF level[p] = 0 THEN 1 ELSE 2
    BY ONLY p = t.root DEF Least
  <2>4. Len(t.nodes[p].array) >= Least(t, level, p)
    <3>1. PICK n \in Nat : n = Len(t.nodes[p].array)
      BY ONLY <1>2
    <3>2. CASE level[p] = 0
      <4>1. n >= 1 /\ Least(t, level, p) = 1
        BY ONLY <1>5, <2>2, <2>3, <3>1, <3>2
      <4> QED BY ONLY <3>1, <4>1
    <3>3. CASE level[p] > 0
      <4>1. n # 1 /\ Least(t, level, p) = 2
        BY ONLY <1>2, <1>5, <2>3, <3>1, <3>3
      <4>2. n + 1 >= 2
        BY ONLY <1>1, <3>1, <4>1
      <4>3. n >= 2
        BY ONLY n \in Nat, <4>1, <4>2
      <4> QED BY ONLY <3>1, <4>1, <4>3
    <3> QED BY ONLY <1>2, <3>2, <3>3
  <2>5. Settled(u, part, level, d)
    BY ONLY Shrinking(t, p, part, level, d), <2>1, <2>4, ShrinkEnds
  <2> QED BY <2>5
<1> QED BY ONLY <1>2, <1>3, <1>4, <1>5

-----------------------------------------------------------------------------
(* Removal: one step.                                                      *)

\* All pages but a few are neither too small nor full.
OthersOK(t, level, S) == \A y \in DOMAIN t.nodes : y \notin S => SizeOK(t, level, y)

MergeReady(t, l, r, f, j, part, level, d) ==
    /\ Well(t, part, level, d) /\ Neighbours(t, l, r, f, j, level)
    /\ t.pins = SetToBag({l, r, f}) /\ OthersOK(t, level, {l, r})
    /\ Len(t.nodes[l].array) + Len(t.nodes[r].array) < Full(level[l])
    /\ Len(t.nodes[l].array) + Len(t.nodes[r].array) >= Half(level[l])

\* After a merge only the parent may be too small.
LEMMA MergeStep ==
    ASSUME NEW t, NEW part, NEW level, NEW d, NEW l, NEW r, NEW f, NEW j,
           MergeReady(t, l, r, f, j, part, level, d), NEW u, u = Coalesce(t, l, r, f, j + 1)
    PROVE  \E part2, level2 : /\ Shrinking(u, f, part2, level2, d)
                              /\ level2[f] = level[f] /\ level2[u.root] = level[t.root]
<1>0. /\ Well(t, part, level, d) /\ Neighbours(t, l, r, f, j, level)
      /\ t.pins = SetToBag({l, r, f}) /\ OthersOK(t, level, {l, r})
      /\ Len(t.nodes[l].array) + Len(t.nodes[r].array) < Full(level[l])
      /\ Len(t.nodes[l].array) + Len(t.nodes[r].array) >= Half(level[l])
  BY DEF MergeReady
<1>1. /\ u.pins = t.pins (-) SetToBag({l, r})
      /\ \E part2, level2 : /\ Well(u, part2, level2, d)
                            /\ MergedPages(t, l, r, f, u, level, level2)
  BY ONLY <1>0, u = Coalesce(t, l, r, f, j + 1), MergeOK
<1>2. PICK part2, level2 : Well(u, part2, level2, d) /\ MergedPages(t, l, r, f, u, level, level2)
  BY ONLY <1>1
<1>3. /\ DOMAIN u.nodes = DOMAIN t.nodes \ {r} /\ u.root = t.root /\ t.root # r
      /\ \A x \in DOMAIN u.nodes : level2[x] = level[x]
      /\ Len(u.nodes[l].array) = Len(t.nodes[l].array) + Len(t.nodes[r].array)
      /\ Len(u.nodes[f].array) = Len(t.nodes[f].array) - 1
      /\ \A x \in DOMAIN u.nodes : x # l /\ x # f => u.nodes[x].array = t.nodes[x].array
  BY ONLY <1>2 DEF MergedPages
<1>4. l # r /\ l # f /\ r # f /\ l # t.root
  BY ONLY <1>0, NeighbourFacts
<1>5. l \in DOMAIN t.nodes /\ r \in DOMAIN t.nodes /\ f \in DOMAIN t.nodes
  BY <1>0 DEF Neighbours
<1>6. u.pins = SetToBag({f})
  <2>1. SetToBag({l, r, f}) (-) SetToBag({l, r}) = SetToBag({l, r, f} \ {l, r})
    BY ONLY PinSub
  <2>2. {l, r, f} \ {l, r} = {f}
    BY ONLY <1>4
  <2> QED BY ONLY <1>0, <1>1, <2>1, <2>2
<1>7. \A y \in DOMAIN u.nodes : Least(u, level2, y) = Least(t, level, y)
  BY ONLY <1>3 DEF Least
<1>8. ASSUME NEW y \in DOMAIN u.nodes, y # f PROVE SizeOK(u, level2, y)
  <2>0. level2[y] = level[y] /\ Least(u, level2, y) = Least(t, level, y) /\ y \in DOMAIN t.nodes /\ y # r
    BY ONLY y \in DOMAIN u.nodes, <1>3, <1>7
  <2>1. CASE y = l
    <3>1. Least(t, level, l) = Half(level[l])
      BY ONLY <1>4 DEF Least
    <3>2. /\ Len(u.nodes[l].array) < Full(level[l])
          /\ Len(u.nodes[l].array) >= Half(level[l])
      BY ONLY <1>0, <1>3
    <3>3. level2[l] = level[l] /\ Least(u, level2, l) = Half(level[l])
      BY ONLY <2>0, <2>1, <3>1
    <3> QED BY ONLY <2>1, <3>2, <3>3 DEF SizeOK
  <2>2. CASE y # l
    <3>1. u.nodes[y].array = t.nodes[y].array
      BY ONLY y \in DOMAIN u.nodes, <1>3, <1>8, <2>2
    <3>2. SizeOK(t, level, y)
      BY <1>0, <2>0, <2>2 DEF OthersOK
    <3> QED BY ONLY <2>0, <3>1, <3>2 DEF SizeOK
  <2> QED BY ONLY <2>1, <2>2
<1>9. Len(u.nodes[f].array) < Full(level2[f]) /\ Len(u.nodes[f].array) + 1 >= Least(u, level2, f)
  <2>1. f \in DOMAIN u.nodes
    BY ONLY <1>3, <1>4, <1>5
  <2>2. level2[f] = level[f] /\ Least(u, level2, f) = Least(t, level, f)
    BY ONLY <1>3, <1>7, <2>1
  <2>3. SizeOK(t, level, f)
    BY <1>0, <1>4, <1>5 DEF OthersOK
  <2>4. Len(t.nodes[f].array) < Full(level[f]) /\ Len(t.nodes[f].array) >= Least(t, level, f)
    BY ONLY <2>3 DEF SizeOK
  <2>5. level[f] \in Nat /\ Len(t.nodes[f].array) \in Nat
    BY ONLY <1>0, <1>5, PageFacts
  <2>6. PICK lv \in Nat : lv = level[f]
    BY ONLY <2>5
  <2>7. Full(lv) \in Nat
    BY ONLY lv \in Nat, Halves
  <2>8. PICK n \in Nat : n = Len(t.nodes[f].array)
    BY ONLY <2>5
  <2>9. n < Full(lv) /\ n >= Least(t, level, f) /\ Len(u.nodes[f].array) = n - 1
    BY ONLY <1>3, <2>4, <2>6, <2>8
  <2>10. n - 1 < Full(lv) /\ (n - 1) + 1 = n
    BY ONLY n \in Nat, <2>7, <2>9
  <2> QED BY ONLY <2>2, <2>6, <2>9, <2>10
<1>10. f \in DOMAIN u.nodes /\ t.root \in DOMAIN u.nodes
  <2>1. t.root \in DOMAIN t.nodes
    BY ONLY <1>0, WellFacts
  <2> QED BY ONLY <1>3, <1>4, <1>5, <2>1
<1>11. Shrinking(u, f, part2, level2, d)
  BY ONLY <1>2, <1>6, <1>8, <1>9, <1>10 DEF Shrinking
<1>12. level2[f] = level[f] /\ level2[u.root] = level[t.root]
  BY ONLY <1>3, <1>10
<1> QED BY ONLY <1>11, <1>12

\* After a redistribution no page is too small.
LEMMA ShiftStep ==
    ASSUME NEW t, NEW part, NEW level, NEW d, Well(t, part, level, d),
           NEW l, NEW r, NEW f, NEW j, Neighbours(t, l, r, f, j, level),
           OthersOK(t, level, {l, r}), NEW n1, NEW n2,
           n1 < Full(level[l]), n1 >= Half(level[l]), n2 < Full(level[l]), n2 >= Half(level[l]),
           NEW u, ShiftDone(t, l, r, f, j, level, n1, n2, u)
    PROVE  u.pins = t.pins /\ \E part2 : Well(u, part2, level, d) /\ OthersOK(u, level, {})
<1>1. /\ u.pins = t.pins /\ DOMAIN u.nodes = DOMAIN t.nodes /\ u.root = t.root
      /\ Len(u.nodes[l].array) = n1 /\ Len(u.nodes[r].array) = n2
      /\ \A x \in DOMAIN t.nodes : x # l /\ x # r /\ x # f => u.nodes[x].array = t.nodes[x].array
  BY ONLY ShiftDone(t, l, r, f, j, level, n1, n2, u) DEF ShiftDone
<1>2. PICK a, m : /\ a = JoinOf(t, l, r, f, j, level) /\ m \in Nat /\ 0 < m /\ m < Len(a)
                  /\ ShiftOf(t, l, r, f, j, a, m, level, u)
  BY ONLY ShiftDone(t, l, r, f, j, level, n1, n2, u) DEF ShiftDone
<1>3. /\ Len(u.nodes[f].array) = Len(t.nodes[f].array)
      /\ \E part2 : Well(u, part2, level, d)
  BY ONLY Well(t, part, level, d), Neighbours(t, l, r, f, j, level), <1>2, ShiftOK
<1>4. l # r /\ l # f /\ r # f /\ l # t.root /\ r # t.root /\ level[l] = level[r]
  BY ONLY Well(t, part, level, d), Neighbours(t, l, r, f, j, level), NeighbourFacts
<1>5. ASSUME NEW y \in DOMAIN u.nodes PROVE SizeOK(u, level, y)
  <2>0. Least(u, level, y) = Least(t, level, y) /\ y \in DOMAIN t.nodes
    BY ONLY y \in DOMAIN u.nodes, <1>1 DEF Least
  <2>1. CASE y \in {l, r}
    <3>1. Least(t, level, y) = Half(level[l]) /\ level[y] = level[l]
      BY ONLY <1>4, <2>1 DEF Least
    <3>2. CASE y = l
      BY <1>1, <2>0, <3>1, <3>2 DEF SizeOK
    <3>3. CASE y = r
      BY <1>1, <2>0, <3>1, <3>3 DEF SizeOK
    <3> QED BY ONLY <2>1, <3>2, <3>3
  <2>2. CASE y \notin {l, r}
    <3>1. SizeOK(t, level, y)
      BY <2>0, <2>2 DEF OthersOK
    <3>2. Len(u.nodes[y].array) = Len(t.nodes[y].array)
      BY ONLY <1>1, <1>3, <2>0, <2>2
    <3> QED BY ONLY <2>0, <3>1, <3>2 DEF SizeOK
  <2> QED BY ONLY <2>1, <2>2
<1>6. OthersOK(u, level, {})
  BY ONLY <1>5 DEF OthersOK
<1> QED BY ONLY <1>1, <1>3, <1>6

\* The page next to p, as CoalesceOrRedistribute finds it and fetches it with
\* their parent.
Sibling(t, p, q, f, i, level) ==
    \/ i = 1 /\ Neighbours(t, p, q, f, 1, level)
    \/ \E j : i = j + 1 /\ i # 1 /\ Neighbours(t, q, p, f, j, level)

FetchesSibling(t, p, f, i, q, u) ==
    /\ p # t.root /\ f = t.nodes[p].parent /\ i = ValueIndex(t.nodes[f].array, p)
    /\ q = NeighborOf(t.nodes[f].array, i) /\ u = FetchPage(FetchPage(t, f), q)

SiblingFound(t, p, q, f, i, level, u) ==
    /\ SamePages(t, u) /\ u.pins = SetToBag({p, f, q})
    /\ Sibling(t, p, q, f, i, level)
    /\ q \in DOMAIN t.nodes /\ p # q /\ p # f /\ q # f /\ level[q] = level[p]
    /\ level[f] = level[p] + 1 /\ q # t.root

\* CoalesceOrRedistribute finds the parent of a page that is too small, and a
\* neighbour on its left, or on its right for the first child.
LEMMA SiblingFetched ==
    ASSUME NEW t, NEW p, NEW part, NEW level, NEW d, Shrinking(t, p, part, level, d),
           NEW f, NEW i, NEW q, NEW u, FetchesSibling(t, p, f, i, q, u)
    PROVE  SiblingFound(t, p, q, f, i, level, u)
<1>0. /\ p # t.root /\ f = t.nodes[p].parent /\ i = ValueIndex(t.nodes[f].array, p)
      /\ q = NeighborOf(t.nodes[f].array, i) /\ u = FetchPage(FetchPage(t, f), q)
  BY DEF FetchesSibling
<1>1. /\ Well(t, part, level, d) /\ p \in DOMAIN t.nodes /\ t.pins = SetToBag({p})
      /\ \A y \in DOMAIN t.nodes : y # p => SizeOK(t, level, y)
  BY DEF Shrinking
<1>2. /\ f \in DOMAIN t.nodes /\ f # p /\ level[f] = level[p] + 1
      /\ i \in 1 .. Len(t.nodes[f].array) /\ t.nodes[f].array[i][2] = p
  <2>1. p # t.root /\ f = t.nodes[p].parent /\ i = ValueIndex(t.nodes[f].array, p)
    BY ONLY <1>0
  <2>2. Well(t, part, level, d) /\ p \in DOMAIN t.nodes
    BY ONLY <1>1
  <2> QED BY ONLY <2>1, <2>2, PlaceInParent, SMTT(60)
<1>3. /\ level[p] \in Nat /\ level[f] \in Nat /\ t.nodes[f].array \in Seq(Entry)
      /\ Len(t.nodes[f].array) \in Nat
  BY ONLY <1>1, <1>2, PageFacts
<1>4. level[f] > 0
  BY ONLY <1>2, <1>3
<1>5. Len(t.nodes[f].array) >= 2
  <2>1. SizeOK(t, level, f)
    BY <1>1, <1>2
  <2>2. PICK lv \in Nat : lv = level[f]
    BY ONLY <1>3
  <2>3. Half(lv) \in Nat /\ Half(lv) >= 2
    BY ONLY <1>4, <2>2, Halves
  <2>4. Least(t, level, f) = 2 \/ Least(t, level, f) = Half(lv)
    BY ONLY <1>4, <2>2 DEF Least
  <2>5. Len(t.nodes[f].array) >= Least(t, level, f)
    BY ONLY <2>1 DEF SizeOK
  <2> QED BY ONLY <1>3, <2>3, <2>4, <2>5
<1>6. PICK a \in Seq(Entry) : a = t.nodes[f].array
  BY ONLY <1>3
<1>7. Len(a) \in Nat /\ Len(a) >= 2 /\ i \in 1 .. Len(a) /\ a[i][2] = p /\ q = a[IF i = 1 THEN 2 ELSE i - 1][2]
  BY <1>0, <1>2, <1>3, <1>5, <1>6 DEF NeighborOf
<1>8. ASSUME NEW k \in 1 .. Len(a) PROVE a[k][2] \in DOMAIN t.nodes
  <2>1. k \in 1 .. Len(t.nodes[f].array)
    BY ONLY k \in 1 .. Len(a), <1>6
  <2>2. PICK c : c = t.nodes[f].array[k][2]
    OBVIOUS
  <2>3. c \in DOMAIN t.nodes
    BY ONLY <1>1, <1>2, <1>4, <2>1, <2>2, ChildBelow
  <2> QED BY ONLY <1>6, <2>2, <2>3
<1>9. Sibling(t, p, q, f, i, level)
  <2>1. CASE i = 1
    <3>1. q = a[2][2] /\ 2 \in 1 .. Len(a) /\ 1 + 1 = 2
      BY ONLY <1>7, <2>1
    <3>2. q \in DOMAIN t.nodes
      BY ONLY <1>8, <3>1
    <3>3. a[1][2] = p /\ a[1 + 1][2] = q /\ 1 \in Nat /\ 0 < 1 /\ 1 < Len(a)
      BY ONLY <1>7, <2>1, <3>1
    <3>4. Neighbours(t, p, q, f, 1, level)
      BY ONLY <1>1, <1>2, <1>4, <1>6, <3>2, <3>3 DEF Neighbours
    <3> QED BY ONLY <2>1, <3>4 DEF Sibling
  <2>2. CASE i # 1
    <3>1. PICK j : j = i - 1
      OBVIOUS
    <3>2. j \in Nat /\ 0 < j /\ j < Len(a) /\ i = j + 1 /\ j \in 1 .. Len(a)
      BY ONLY <1>7, <2>2, <3>1
    <3>3. a[j][2] = q /\ a[j + 1][2] = p
      BY ONLY <1>7, <2>2, <3>1, <3>2
    <3>4. q \in DOMAIN t.nodes
      BY ONLY <1>8, <3>2, <3>3
    <3>5. Neighbours(t, q, p, f, j, level)
      BY ONLY <1>1, <1>2, <1>4, <1>6, <3>2, <3>3, <3>4 DEF Neighbours
    <3> QED BY ONLY <2>2, <3>2, <3>5 DEF Sibling
  <2> QED BY ONLY <2>1, <2>2
<1>10. q \in DOMAIN t.nodes /\ p # q /\ p # f /\ q # f /\ level[q] = level[p] /\ q # t.root
  <2>1. CASE Neighbours(t, p, q, f, 1, level)
    <3>1. q \in DOMAIN t.nodes
      BY ONLY <2>1 DEF Neighbours
    <3> QED BY ONLY <1>1, <2>1, <3>1, NeighbourFacts
  <2>2. CASE \E j : Neighbours(t, q, p, f, j, level)
    <3>1. PICK j : Neighbours(t, q, p, f, j, level)
      BY ONLY <2>2
    <3>2. q \in DOMAIN t.nodes
      BY ONLY <3>1 DEF Neighbours
    <3> QED BY ONLY <1>1, <3>1, <3>2, NeighbourFacts
  <2> QED BY ONLY <1>9, <2>1, <2>2 DEF Sibling
<1>11. SamePages(t, u) /\ u.pins = SetToBag({p, f, q})
  <2>1. PICK v : v = FetchPage(t, f)
    OBVIOUS
  <2>2. IsTree(t)
    BY <1>1, WellFacts
  <2>3. /\ IsTree(v) /\ v.root = t.root /\ v.header = t.header /\ v.nodes = t.nodes
        /\ v.pins = t.pins (+) SetToBag({f})
    BY ONLY <2>1, <2>2, FetchEffect
  <2>4. u = FetchPage(v, q)
    BY <1>0, <2>1
  <2>5. /\ IsTree(u) /\ u.root = v.root /\ u.header = v.header /\ u.nodes = v.nodes
        /\ u.pins = v.pins (+) SetToBag({q})
    BY ONLY <2>3, <2>4, FetchEffect
  <2>6. PICK A : A = {p}
    OBVIOUS
  <2>7. PICK B : B = A \cup {f}
    OBVIOUS
  <2>8. f \notin A /\ q \notin B /\ B \cup {q} = {p, f, q}
    BY ONLY <1>2, <1>10, <2>6, <2>7
  <2>9. SetToBag(A) (+) SetToBag({f}) = SetToBag(A \cup {f})
    BY ONLY <2>8, PinAdd
  <2>10. SetToBag(B) (+) SetToBag({q}) = SetToBag(B \cup {q})
    BY ONLY <2>8, PinAdd
  <2> QED BY ONLY <1>1, <2>3, <2>5, <2>6, <2>7, <2>8, <2>9, <2>10 DEF SamePages
<1> QED BY ONLY <1>2, <1>9, <1>10, <1>11 DEF SiblingFound

\* A small page, its neighbour and their parent, all pinned.
SmallPage(t, p, q, f, i, part, level, d) ==
    /\ Well(t, part, level, d) /\ Sibling(t, p, q, f, i, level) /\ t.pins = SetToBag({p, f, q})
    /\ OthersOK(t, level, {p, q}) /\ level[q] = level[p] /\ level[f] = level[p] + 1
    /\ level[p] \in Nat /\ Len(t.nodes[p].array) \in Nat /\ Len(t.nodes[q].array) \in Nat
    /\ Len(t.nodes[p].array) + 1 >= Half(level[p])
    /\ Len(t.nodes[q].array) >= Half(level[p]) /\ Len(t.nodes[q].array) < Full(level[p])

\* What holds when parent and neighbour are pinned.
LEMMA SmallPageFetched ==
    ASSUME NEW t, NEW p, NEW part, NEW level, NEW d, Shrinking(t, p, part, level, d),
           NEW f, NEW i, NEW q, NEW u, FetchesSibling(t, p, f, i, q, u)
    PROVE  SamePages(t, u) /\ SmallPage(u, p, q, f, i, part, level, d)
<1>1. /\ Well(t, part, level, d) /\ p \in DOMAIN t.nodes
      /\ \A y \in DOMAIN t.nodes : y # p => SizeOK(t, level, y)
      /\ Len(t.nodes[p].array) + 1 >= Least(t, level, p)
  BY ONLY Shrinking(t, p, part, level, d) DEF Shrinking
<1>2. /\ SamePages(t, u) /\ u.pins = SetToBag({p, f, q})
      /\ Sibling(t, p, q, f, i, level)
      /\ q \in DOMAIN t.nodes /\ p # q /\ p # f /\ q # f /\ level[q] = level[p]
      /\ level[f] = level[p] + 1 /\ q # t.root
  <2>1. SiblingFound(t, p, q, f, i, level, u)
    BY ONLY Shrinking(t, p, part, level, d), FetchesSibling(t, p, f, i, q, u), SiblingFetched
  <2> QED BY ONLY <2>1 DEF SiblingFound
<1>3. u.nodes = t.nodes
  BY ONLY <1>2 DEF SamePages
<1>4. Well(u, part, level, d) /\ \A y : SizeOK(t, level, y) => SizeOK(u, level, y)
  BY ONLY <1>1, <1>2, WellSame
<1>5. OthersOK(u, level, {p, q})
  BY ONLY <1>1, <1>3, <1>4 DEF OthersOK
<1>6. Sibling(u, p, q, f, i, level)
  BY ONLY <1>2, <1>3 DEF Sibling, Neighbours
<1>7. level[p] \in Nat /\ Len(t.nodes[p].array) \in Nat
  BY ONLY <1>1, PageFacts
<1>8. Len(t.nodes[q].array) \in Nat
  BY ONLY <1>1, <1>2, PageFacts
<1>9. Least(t, level, p) = Half(level[p])
  BY DEF FetchesSibling, Least
<1>10. Len(t.nodes[q].array) >= Half(level[p]) /\ Len(t.nodes[q].array) < Full(level[p])
  <2>1. SizeOK(t, level, q)
    BY ONLY <1>1, <1>2
  <2> QED BY ONLY <1>2, <2>1 DEF SizeOK, Least
<1> QED BY ONLY <1>1, <1>2, <1>3, <1>4, <1>5, <1>6, <1>7, <1>8, <1>9, <1>10 DEF SmallPage

CoalesceOf(t, p, q, f, i) == IF i = 1 THEN Coalesce(t, p, q, f, 2) ELSE Coalesce(t, q, p, f, i)

Mergeable(t, p, q, level) == Len(t.nodes[q].array) + Len(t.nodes[p].array) < Full(level[p])

\* Both kinds of merge hand the loop on to the parent.
LEMMA CoalesceOK ==
    ASSUME NEW t, NEW p, NEW q, NEW f, NEW i, NEW part, NEW level, NEW d,
           SmallPage(t, p, q, f, i, part, level, d),
           Mergeable(t, p, q, level), NEW u, u = CoalesceOf(t, p, q, f, i)
    PROVE  \E part2, level2 : /\ Shrinking(u, f, part2, level2, d)
                              /\ level2[f] = level[f] /\ level2[u.root] = level[t.root]
<1>1. /\ Well(t, part, level, d) /\ Sibling(t, p, q, f, i, level) /\ t.pins = SetToBag({p, f, q})
      /\ OthersOK(t, level, {p, q}) /\ level[q] = level[p] /\ level[f] = level[p] + 1
      /\ level[p] \in Nat /\ Len(t.nodes[p].array) \in Nat /\ Len(t.nodes[q].array) \in Nat
      /\ Len(t.nodes[q].array) >= Half(level[p])
  BY ONLY SmallPage(t, p, q, f, i, part, level, d) DEF SmallPage
<1>2. PICK lv \in Nat : lv = level[p]
  BY ONLY <1>1
<1>3. Half(lv) \in Nat /\ Full(lv) \in Nat
  BY ONLY lv \in Nat, Halves
<1>4. /\ Len(t.nodes[q].array) + Len(t.nodes[p].array) >= Half(level[p])
      /\ Len(t.nodes[p].array) + Len(t.nodes[q].array) >= Half(level[p])
      /\ Len(t.nodes[p].array) + Len(t.nodes[q].array) < Full(level[p])
  <2>1. PICK m \in Nat : m = Len(t.nodes[p].array)
    BY ONLY <1>1
  <2>2. PICK n \in Nat : n = Len(t.nodes[q].array)
    BY ONLY <1>1
  <2>3. n >= Half(lv) /\ n + m < Full(lv)
    BY <1>1, <1>2, <2>1, <2>2 DEF Mergeable
  <2>4. n + m >= Half(lv) /\ m + n >= Half(lv) /\ m + n < Full(lv)
    BY ONLY <1>3, <2>3, m \in Nat, n \in Nat
  <2> QED BY ONLY <1>2, <2>1, <2>2, <2>4
<1>5. CASE i = 1 /\ Neighbours(t, p, q, f, 1, level)
  <2>1. u = Coalesce(t, p, q, f, 1 + 1)
    <3>1. 1 + 1 = 2
      OBVIOUS
    <3>2. u = Coalesce(t, p, q, f, 2)
      BY <1>5 DEF CoalesceOf
    <3> QED BY ONLY <3>1, <3>2
  <2>2. t.pins = SetToBag({p, q, f})
    <3>1. {p, q, f} = {p, f, q}
      OBVIOUS
    <3> QED BY ONLY <1>1, <3>1
  <2>3. \E part2, level2 : /\ Shrinking(u, f, part2, level2, d)
                           /\ level2[f] = level[f] /\ level2[u.root] = level[t.root]
    <3>1. MergeReady(t, p, q, f, 1, part, level, d)
      BY ONLY <1>1, <1>4, <1>5, <2>2 DEF MergeReady
    <3> QED BY ONLY <2>1, <3>1, MergeStep
  <2> QED BY ONLY <2>3
<1>6. CASE \E j : i = j + 1 /\ i # 1 /\ Neighbours(t, q, p, f, j, level)
  <2>1. PICK j : i = j + 1 /\ i # 1 /\ Neighbours(t, q, p, f, j, level)
    BY ONLY <1>6
  <2>2. u = Coalesce(t, q, p, f, j + 1)
    <3>1. u = Coalesce(t, q, p, f, i)
      BY <2>1 DEF CoalesceOf
    <3> QED BY ONLY <2>1, <3>1
  <2>3. t.pins = SetToBag({q, p, f}) /\ OthersOK(t, level, {q, p})
    <3>1. {q, p, f} = {p, f, q} /\ {q, p} = {p, q}
      OBVIOUS
    <3> QED BY ONLY <1>1, <3>1
  <2>4. /\ Len(t.nodes[q].array) + Len(t.nodes[p].array) < Full(level[q])
        /\ Len(t.nodes[q].array) + Len(t.nodes[p].array) >= Half(level[q])
    <3>1. Len(t.nodes[q].array) + Len(t.nodes[p].array) < Full(level[p])
      BY ONLY Mergeable(t, p, q, level) DEF Mergeable
    <3>2. level[q] = level[p]
      BY ONLY <1>1
    <3> QED BY ONLY <1>4, <3>1, <3>2
  <2>5. \E part2, level2 : /\ Shrinking(u, f, part2, level2, d)
                           /\ level2[f] = level[f] /\ level2[u.root] = level[t.root]
    <3>1. MergeReady(t, q, p, f, j, part, level, d)
      BY ONLY <1>1, <2>1, <2>3, <2>4 DEF MergeReady
    <3> QED BY ONLY <2>2, <3>1, MergeStep
  <2> QED BY ONLY <2>5
<1> QED BY ONLY <1>1, <1>5, <1>6 DEF Sibling

\* Both kinds of redistribution end the loop.
LEMMA RedistributeOK ==
    ASSUME NEW t, NEW p, NEW q, NEW f, NEW i, NEW part, NEW level, NEW d,
           SmallPage(t, p, q, f, i, part, level, d), Len(t.nodes[p].array) < Half(level[p]),
           ~(Len(t.nodes[q].array) + Len(t.nodes[p].array) < Full(level[p])),
           NEW u, u = UnpinPages(Redistribute(t, q, p, f, i), {f})
    PROVE  \E part2, level2 : Settled(u, part2, level2, d)
<1>1. /\ Well(t, part, level, d) /\ Sibling(t, p, q, f, i, level) /\ t.pins = SetToBag({p, f, q})
      /\ OthersOK(t, level, {p, q}) /\ level[q] = level[p]
      /\ level[p] \in Nat /\ Len(t.nodes[p].array) \in Nat /\ Len(t.nodes[q].array) \in Nat
      /\ Len(t.nodes[p].array) + 1 >= Half(level[p])
      /\ Len(t.nodes[q].array) < Full(level[p])
  BY ONLY SmallPage(t, p, q, f, i, part, level, d) DEF SmallPage
<1>2. PICK lv \in Nat : lv = level[p]
  BY ONLY <1>1
<1>3. /\ Full(lv) \in Nat /\ Half(lv) \in Nat /\ Half(lv) >= 1
      /\ 2 * Half(lv) <= Full(lv) /\ Full(lv) <= 2 * Half(lv) + 1
  BY ONLY lv \in Nat, Halves
<1>4. PICK m \in Nat : m = Len(t.nodes[p].array)
  BY ONLY <1>1
<1>5. PICK n \in Nat : n = Len(t.nodes[q].array)
  BY ONLY <1>1
<1>6. m < Half(lv) /\ ~(n + m < Full(lv)) /\ n < Full(lv) /\ m + 1 >= Half(lv)
  BY <1>1, <1>2, <1>4, <1>5
<1>7. n >= 2 /\ n - 1 >= Half(lv) /\ n - 1 < Full(lv) /\ m + 1 < Full(lv)
  BY ONLY m \in Nat, n \in Nat, <1>3, <1>6
<1>8. PICK t1 : t1 = FetchPage(t, f)
  OBVIOUS
<1>9. /\ IsTree(t1) /\ t1.root = t.root /\ t1.header = t.header /\ t1.nodes = t.nodes
      /\ t1.pins = t.pins (+) SetToBag({f})
  <2>1. IsTree(t)
    BY ONLY <1>1, WellFacts
  <2> QED BY ONLY <1>8, <2>1, FetchEffect
<1>10. SamePages(t, t1)
  BY ONLY <1>9 DEF SamePages
<1>11. Well(t1, part, level, d) /\ \A y : SizeOK(t, level, y) => SizeOK(t1, level, y)
  BY ONLY <1>1, <1>10, WellSame
<1>12. OthersOK(t1, level, {p, q}) /\ Sibling(t1, p, q, f, i, level)
  BY ONLY <1>1, <1>9, <1>11 DEF OthersOK, Sibling, Neighbours
<1>13. m = Len(t1.nodes[p].array) /\ n = Len(t1.nodes[q].array)
  BY ONLY <1>4, <1>5, <1>9
<1>14. PICK t2 : t2 = IF i = 1 THEN MoveFirstToEndOf(t1, q, p, f) ELSE MoveLastToFrontOf(t1, q, p, f, i)
  OBVIOUS
<1>15. t2.pins = t1.pins /\ \E part2 : Well(t2, part2, level, d) /\ OthersOK(t2, level, {})
  <2>1. CASE i = 1 /\ Neighbours(t1, p, q, f, 1, level)
    <3>1. t2 = MoveFirstToEndOf(t1, q, p, f)
      BY ONLY <1>14, <2>1
    <3>2. Len(t1.nodes[q].array) >= 2
      BY ONLY <1>7, <1>13
    <3>3. ShiftDone(t1, p, q, f, 1, level, Len(t1.nodes[p].array) + 1, Len(t1.nodes[q].array) - 1, t2)
      BY ONLY <1>11, <2>1, <3>1, <3>2, MoveFirstOK
    <3>4. ShiftDone(t1, p, q, f, 1, level, m + 1, n - 1, t2)
      BY ONLY <1>13, <3>3
    <3>5. PICK n1, n2 : n1 = m + 1 /\ n2 = n - 1
      OBVIOUS
    <3>6. /\ ShiftDone(t1, p, q, f, 1, level, n1, n2, t2)
          /\ n1 < Full(level[p]) /\ n1 >= Half(level[p]) /\ n2 < Full(level[p]) /\ n2 >= Half(level[p])
      BY ONLY <1>2, <1>6, <1>7, <3>4, <3>5
    <3> QED BY ONLY <1>11, <1>12, <2>1, <3>6, ShiftStep
  <2>2. CASE \E j : i = j + 1 /\ i # 1 /\ Neighbours(t1, q, p, f, j, level)
    <3>0. PICK j : i = j + 1 /\ i # 1 /\ Neighbours(t1, q, p, f, j, level)
      BY ONLY <2>2
    <3>1. t2 = MoveLastToFrontOf(t1, q, p, f, i)
      BY ONLY <1>14, <3>0
    <3>2. Len(t1.nodes[q].array) >= 2
      BY ONLY <1>7, <1>13
    <3>3. ShiftDone(t1, q, p, f, j, level, Len(t1.nodes[q].array) - 1, Len(t1.nodes[p].array) + 1, t2)
      BY ONLY <1>11, <3>0, <3>1, <3>2, MoveLastOK
    <3>4. ShiftDone(t1, q, p, f, j, level, n - 1, m + 1, t2)
      BY ONLY <1>13, <3>3
    <3>5. PICK n1, n2 : n1 = n - 1 /\ n2 = m + 1
      OBVIOUS
    <3>6. /\ ShiftDone(t1, q, p, f, j, level, n1, n2, t2)
          /\ n1 < Full(level[q]) /\ n1 >= Half(level[q]) /\ n2 < Full(level[q]) /\ n2 >= Half(level[q])
      BY ONLY <1>1, <1>2, <1>6, <1>7, <3>4, <3>5
    <3>7. OthersOK(t1, level, {q, p})
      <4>1. {q, p} = {p, q}
        OBVIOUS
      <4> QED BY ONLY <1>12, <4>1
    <3> QED BY ONLY <1>11, <3>0, <3>6, <3>7, ShiftStep
  <2> QED BY ONLY <1>12, <2>1, <2>2 DEF Sibling
<1>16. PICK part2 : Well(t2, part2, level, d) /\ OthersOK(t2, level, {})
  BY ONLY <1>15
<1>17. PICK A : A = {p, q, f}
  OBVIOUS
<1>18. PICK t3 : t3 = UnpinPages(t2, A)
  OBVIOUS
<1>19. t3 = Redistribute(t, q, p, f, i)
  BY ONLY <1>8, <1>14, <1>17, <1>18 DEF Redistribute
<1>20. /\ IsTree(t3) /\ t3.root = t2.root /\ t3.header = t2.header /\ t3.nodes = t2.nodes
       /\ t3.pins = t2.pins (-) SetToBag(A)
  <2>1. IsTree(t2)
    BY ONLY <1>16, WellFacts
  <2> QED BY ONLY <1>18, <2>1, UnpinEffect
<1>21. t3.pins = SetToBag({f})
  <2>1. {p, f, q} = A
    BY ONLY <1>17
  <2>2. (SetToBag(A) (+) SetToBag({f})) (-) SetToBag(A) = SetToBag({f})
    BY ONLY PinAddSub
  <2> QED BY ONLY <1>1, <1>9, <1>15, <1>20, <2>1, <2>2
<1>22. u = UnpinPages(t3, {f})
  BY <1>19
<1>23. SamePages(t3, u) /\ u.pins = EmptyBag
  BY ONLY <1>20, <1>21, <1>22, UnpinLast
<1>24. SamePages(t2, u)
  BY ONLY <1>20, <1>23 DEF SamePages
<1>25. Well(u, part2, level, d) /\ \A y : SizeOK(t2, level, y) => SizeOK(u, level, y)
  BY ONLY <1>16, <1>24, WellSame
<1>26. DOMAIN u.nodes = DOMAIN t2.nodes
  BY ONLY <1>24 DEF SamePages
<1>27. Settled(u, part2, level, d)
  BY ONLY <1>16, <1>23, <1>25, <1>26 DEF Settled, OthersOK
<1> QED BY <1>27

-----------------------------------------------------------------------------
(* Removal: the loop.                                                      *)

\* A tree as an operation leaves it.
Kept(t, d) == Emptied(t, d) \/ \E part, level : Settled(t, part, level, d)

\* The states the loop of a removal goes through.
ShrinkState(c, n, h, d) ==
    \/ c.page = INVALID_PAGE_ID /\ Kept(c.tree, d)
    \/ \E part, level : /\ Shrinking(c.tree, c.page, part, level, d)
                        /\ level[c.page] = n /\ level[c.tree.root] = h

\* One step of the upward loop of a removal.
LEMMA ShrinkStepOK ==
    ASSUME NEW c, NEW n \in Nat, NEW h, NEW d, ShrinkState(c, n, h, d)
    PROVE  ShrinkState(CoalesceOrRedistribute(c), n + 1, h, d)
<1>0. PICK e : e = CoalesceOrRedistribute(c)
  OBVIOUS
<1>1. CASE c.page = INVALID_PAGE_ID /\ Kept(c.tree, d)
  <2>1. CoalesceOrRedistribute(c) = c
    BY ONLY <1>1 DEF CoalesceOrRedistribute
  <2> QED BY ONLY <1>1, <2>1 DEF ShrinkState
<1>2. CASE \E part, level : /\ Shrinking(c.tree, c.page, part, level, d)
                            /\ level[c.page] = n /\ level[c.tree.root] = h
  <2>1. PICK part, level : /\ Shrinking(c.tree, c.page, part, level, d)
                           /\ level[c.page] = n /\ level[c.tree.root] = h
    BY ONLY <1>2
  <2>2. PICK t : t = c.tree
    OBVIOUS
  <2>3. PICK p : p = c.page
    OBVIOUS
  <2>4. Shrinking(t, p, part, level, d)
    BY ONLY <2>1, <2>2, <2>3
  <2>5. Well(t, part, level, d) /\ p \in DOMAIN t.nodes
    BY ONLY <2>4 DEF Shrinking
  <2>6. DOMAIN t.nodes \subseteq Nat \ {0} /\ t.nodes[t.root].parent = INVALID_PAGE_ID
    BY ONLY <2>5, WellFacts
  <2>7. /\ MaxSize(t.nodes[p]) = Full(level[p]) /\ MinSize(t.nodes[p]) = Half(level[p])
        /\ Len(t.nodes[p].array) \in Nat /\ level[p] \in Nat
        /\ (p # t.root => t.nodes[p].parent \in DOMAIN t.nodes)
    BY ONLY <2>5, PageFacts
  <2>8. p # INVALID_PAGE_ID /\ (t.nodes[p].parent = INVALID_PAGE_ID <=> p = t.root)
    BY ONLY <2>5, <2>6, <2>7 DEF INVALID_PAGE_ID
  <2>9. PICK lv \in Nat : lv = level[p]
    BY ONLY <2>7
  <2>10. Half(lv) \in Nat /\ Half(lv) >= 1 /\ (lv > 0 => Half(lv) >= 2)
    BY ONLY lv \in Nat, Halves
  <2>11. CASE Len(t.nodes[p].array) >= Half(level[p])
    <3>1. e = [tree |-> UnpinPages(t, {p}), page |-> INVALID_PAGE_ID]
      BY ONLY <1>0, <2>2, <2>3, <2>7, <2>8, <2>11 DEF CoalesceOrRedistribute
    <3>2. PICK u : u = UnpinPages(t, {p})
      OBVIOUS
    <3>3. e.tree = u /\ e.page = INVALID_PAGE_ID
      BY ONLY <3>1, <3>2
    <3>4. Len(t.nodes[p].array) >= Least(t, level, p)
      BY ONLY <2>7, <2>9, <2>10, <2>11 DEF Least
    <3>5. Settled(u, part, level, d)
      BY ONLY <2>4, <3>2, <3>4, ShrinkEnds
    <3> QED BY ONLY <1>0, <3>3, <3>5 DEF ShrinkState, Kept
  <2>12. CASE ~(Len(t.nodes[p].array) >= Half(level[p])) /\ p = t.root
    <3>1. e = [tree |-> AdjustRoot(t, p), page |-> INVALID_PAGE_ID]
      BY ONLY <1>0, <2>2, <2>3, <2>7, <2>8, <2>12 DEF CoalesceOrRedistribute
    <3>2. PICK u : u = AdjustRoot(t, p)
      OBVIOUS
    <3>3. e.tree = u /\ e.page = INVALID_PAGE_ID
      BY ONLY <3>1, <3>2
    <3>4. Emptied(u, d) \/ \E part2, level2 : Settled(u, part2, level2, d)
      BY ONLY <2>4, <2>12, <3>2, AdjustRootOK
    <3> QED BY ONLY <1>0, <3>3, <3>4 DEF ShrinkState, Kept
  <2>13. CASE ~(Len(t.nodes[p].array) >= Half(level[p])) /\ p # t.root
    <3>1. PICK f : f = t.nodes[p].parent
      OBVIOUS
    <3>2. PICK i : i = ValueIndex(t.nodes[f].array, p)
      OBVIOUS
    <3>3. PICK q : q = NeighborOf(t.nodes[f].array, i)
      OBVIOUS
    <3>4. PICK t1 : t1 = FetchPage(FetchPage(t, f), q)
      OBVIOUS
    <3>5. FetchesSibling(t, p, f, i, q, t1)
      BY ONLY <2>13, <3>1, <3>2, <3>3, <3>4 DEF FetchesSibling
    <3>6. SamePages(t, t1) /\ SmallPage(t1, p, q, f, i, part, level, d)
      BY ONLY <2>4, <3>5, SmallPageFetched
    <3>7. t1.nodes = t.nodes /\ t1.root = t.root
      BY ONLY <3>6 DEF SamePages
    <3>8. f # INVALID_PAGE_ID
      BY ONLY <2>8, <2>13, <3>1
    <3>9. CASE Len(t.nodes[q].array) + Len(t.nodes[p].array) < Full(level[p])
      <4>1. PICK u : u = CoalesceOf(t1, p, q, f, i)
        OBVIOUS
      <4>2. e = [tree |-> u, page |-> f]
        BY ONLY <1>0, <2>2, <2>3, <2>7, <2>8, <2>13, <3>1, <3>2, <3>3, <3>4, <3>8, <3>9, <4>1
           DEF CoalesceOrRedistribute, CoalesceOf
      <4>3. e.tree = u /\ e.page = f
        BY ONLY <4>2
      <4>4. Mergeable(t1, p, q, level) /\ SmallPage(t1, p, q, f, i, part, level, d)
        BY ONLY <3>6, <3>7, <3>9 DEF Mergeable
      <4>5. \E part2, level2 : /\ Shrinking(u, f, part2, level2, d)
                               /\ level2[f] = level[f] /\ level2[u.root] = level[t1.root]
        BY ONLY <4>1, <4>4, CoalesceOK
      <4>6. level[f] = n + 1 /\ level[t1.root] = h
        <5>1. level[f] = level[p] + 1
          BY ONLY <3>6 DEF SmallPage
        <5> QED BY ONLY <2>1, <2>2, <2>3, <3>7, <5>1
      <4> QED BY ONLY <1>0, <4>3, <4>5, <4>6 DEF ShrinkState
    <3>10. CASE ~(Len(t.nodes[q].array) + Len(t.nodes[p].array) < Full(level[p]))
      <4>1. PICK u : u = UnpinPages(Redistribute(t1, q, p, f, i), {f})
        OBVIOUS
      <4>2. e = [tree |-> u, page |-> INVALID_PAGE_ID]
        BY ONLY <1>0, <2>2, <2>3, <2>7, <2>8, <2>13, <3>1, <3>2, <3>3, <3>4, <3>8, <3>10, <4>1
           DEF CoalesceOrRedistribute
      <4>3. e.tree = u /\ e.page = INVALID_PAGE_ID
        BY ONLY <4>2
      <4>4. /\ ~(Len(t1.nodes[q].array) + Len(t1.nodes[p].array) < Full(level[p]))
            /\ Len(t1.nodes[p].array) < Half(level[p])
        <5>1. PICK m \in Nat : m = Len(t.nodes[p].array)
          BY ONLY <2>7
        <5>2. ~(m >= Half(lv))
          BY ONLY <2>9, <2>13, <5>1
        <5>3. m < Half(lv)
          BY ONLY m \in Nat, <2>10, <5>2
        <5> QED BY ONLY <2>9, <3>7, <3>10, <5>1, <5>3
      <4>5. \E part2, level2 : Settled(u, part2, level2, d)
        BY ONLY <3>6, <4>1, <4>4, RedistributeOK
      <4> QED BY ONLY <1>0, <4>3, <4>5 DEF ShrinkState, Kept
    <3> QED BY ONLY <3>9, <3>10
  <2> QED BY ONLY <2>11, <2>12, <2>13
<1> QED BY ONLY ShrinkState(c, n, h, d), <1>1, <1>2 DEF ShrinkState

\* The states of the loop exist, and Shrunk takes the last one.
ShrinkCalls(g, N, c) ==
    g = [n \in 0 .. N |-> IF n = 0 THEN c ELSE CoalesceOrRedistribute(g[n - 1])]

\* The upward loop of a removal has a sequence of intermediate states.
LEMMA ShrunkCalls ==
    ASSUME NEW c0, NEW M \in Nat
    PROVE  \E g : ShrinkCalls(g, M, c0)
<1> USE DEF ShrinkCalls
<1> DEFINE S == {N \in Nat : \E g : ShrinkCalls(g, N, c0)}
<1>1. 0 \in S
  <2>1. PICK g : g = [n \in 0 .. 0 |-> c0]
    OBVIOUS
  <2>2. g = [n \in 0 .. 0 |-> IF n = 0 THEN c0 ELSE CoalesceOrRedistribute(g[n - 1])]
    BY <2>1
  <2> QED BY <2>2
<1>2. ASSUME NEW N \in Nat, N \in S PROVE N + 1 \in S
  <2>1. PICK g : g = [n \in 0 .. N |-> IF n = 0 THEN c0 ELSE CoalesceOrRedistribute(g[n - 1])]
    BY <1>2
  <2>2. PICK g2 : g2 = [n \in 0 .. N + 1 |-> IF n <= N THEN g[n] ELSE CoalesceOrRedistribute(g[N])]
    OBVIOUS
  <2>3. \A n \in 0 .. N : g2[n] = g[n]
    BY <2>2
  <2>4. ASSUME NEW n \in 0 .. N + 1 PROVE g2[n] = IF n = 0 THEN c0 ELSE CoalesceOrRedistribute(g2[n - 1])
    <3>1. CASE n <= N
      <4>1. n \in 0 .. N /\ (n # 0 => n - 1 \in 0 .. N)
        BY <3>1
      <4>2. g[n] = IF n = 0 THEN c0 ELSE CoalesceOrRedistribute(g[n - 1])
        BY <2>1, <4>1
      <4> QED BY <2>3, <4>1, <4>2
    <3>2. CASE n = N + 1
      <4>1. n # 0 /\ n - 1 = N /\ N \in 0 .. N /\ ~(n <= N)
        BY <3>2
      <4> QED BY <2>2, <2>3, <4>1
    <3> QED BY <3>1, <3>2
  <2>5. g2 = [n \in 0 .. N + 1 |-> IF n = 0 THEN c0 ELSE CoalesceOrRedistribute(g2[n - 1])]
    BY <2>2, <2>4
  <2> QED BY <2>5
<1>3. \A N \in Nat : N \in S
  <2> HIDE DEF S
  <2> QED BY <1>1, <1>2, NatSetInduction
<1> QED BY <1>3

\* Shrunk is the last of these states.
LEMMA ShrunkUnfolded ==
    ASSUME NEW t, NEW p,
           \E g : g = [n \in 0 .. Levels(t) + 1 |->
                         IF n = 0 THEN [tree |-> t, page |-> p] ELSE CoalesceOrRedistribute(g[n - 1])]
    PROVE  \E g : /\ g = [n \in 0 .. Levels(t) + 1 |->
                         IF n = 0 THEN [tree |-> t, page |-> p] ELSE CoalesceOrRedistribute(g[n - 1])]
                  /\ Shrunk(t, p) = g[Levels(t) + 1].tree
  BY Zenon DEF Shrunk

\* A leaf with an entry less: whatever has to be merged or moved is.
LEMMA ShrunkOK ==
    ASSUME NEW t, NEW p, NEW part, NEW level, NEW d, Shrinking(t, p, part, level, d), level[p] = 0
    PROVE  Kept(Shrunk(t, p), d)
<1>1. Well(t, part, level, d)
  BY DEF Shrinking
<1>2. PICK N : N = Levels(t) + 1
  OBVIOUS
<1>3. PICK h : h = level[t.root]
  OBVIOUS
<1>4. N \in Nat /\ h \in Nat /\ h < N
  BY <1>1, <1>2, <1>3, Height, WellFacts, PageFacts
<1>5. PICK c0 : c0 = [tree |-> t, page |-> p]
  OBVIOUS
<1>6. \E g : g = [n \in 0 .. N |-> IF n = 0 THEN c0 ELSE CoalesceOrRedistribute(g[n - 1])]
  <2>1. \E g : ShrinkCalls(g, N, c0)
    BY <1>4, ShrunkCalls
  <2> QED BY <2>1 DEF ShrinkCalls
<1>7. PICK g : /\ g = [n \in 0 .. N |-> IF n = 0 THEN c0 ELSE CoalesceOrRedistribute(g[n - 1])]
               /\ Shrunk(t, p) = g[N].tree
  BY <1>2, <1>5, <1>6, ShrunkUnfolded
<1> DEFINE S == {n \in Nat : n <= N => ShrinkState(g[n], n, h, d)}
<1>8. 0 \in S
  <2>1. g[0] = c0
    BY <1>4, <1>7
  <2>2. c0.tree = t /\ c0.page = p
    BY <1>5
  <2>3. ShrinkState(c0, 0, h, d)
    BY <1>3, <2>2 DEF ShrinkState
  <2> QED BY <2>1, <2>3
<1>9. ASSUME NEW n \in Nat, n \in S PROVE n + 1 \in S
  <2>1. SUFFICES ASSUME n + 1 <= N PROVE ShrinkState(g[n + 1], n + 1, h, d)
    OBVIOUS
  <2>2. ShrinkState(g[n], n, h, d)
    BY <1>4, <1>9, <2>1
  <2>3. n + 1 \in 0 .. N /\ n + 1 # 0 /\ (n + 1) - 1 = n
    BY <1>4, <2>1
  <2>4. g[n + 1] = CoalesceOrRedistribute(g[n])
    BY <1>7, <2>3
  <2> QED BY <2>2, <2>4, ShrinkStepOK
<1>10. \A n \in Nat : n \in S
  <2> HIDE DEF S
  <2> QED BY <1>8, <1>9, NatSetInduction
<1>11. ShrinkState(g[N], N, h, d)
  BY <1>4, <1>10
<1>12. CASE g[N].page = INVALID_PAGE_ID /\ Kept(g[N].tree, d)
  BY <1>7, <1>12
<1>13. CASE \E part2, level2 : /\ Shrinking(g[N].tree, g[N].page, part2, level2, d)
                               /\ level2[g[N].page] = N /\ level2[g[N].tree.root] = h
  <2>1. PICK part2, level2 : /\ Shrinking(g[N].tree, g[N].page, part2, level2, d)
                             /\ level2[g[N].page] = N /\ level2[g[N].tree.root] = h
    BY <1>13
  <2>2. level2[g[N].page] <= level2[g[N].tree.root]
    BY <2>1 DEF Shrinking, Well, Shape, Rooted
  <2> QED BY <1>4, <2>1, <2>2
<1> QED BY <1>11, <1>12, <1>13 DEF ShrinkState

\* Removal of a key that is there leaves a settled tree, or an empty one, for
\* the dictionary without the key.
LEMMA RemoveOK ==
    ASSUME NEW t, NEW part, NEW level, NEW d, NEW d2, Settled(t, part, level, d),
           NEW key \in Keys, key \in DOMAIN d, Drops(d, d2, key)
    PROVE  Kept(RemoveKey(t, key), d2)
<1>1. Well(t, part, level, d) /\ t.pins = EmptyBag /\ \A y \in DOMAIN t.nodes : SizeOK(t, level, y)
  BY DEF Settled
<1>2. PICK p : p = FindLeafPage(t, key)
  OBVIOUS
<1>3. LeafFor(t, part, level, d, key, p)
  BY <1>1, <1>2, LeafFound
<1>4. PICK a : a = t.nodes[p].array
  OBVIOUS
<1>5. PICK b : b = RemoveAndDeleteRecord(a, key)
  OBVIOUS
<1>6. /\ p \in DOMAIN t.nodes /\ level[p] = 0 /\ key \in part[p] /\ part[p] \in SUBSET Keys
      /\ a \in Seq(Entry) /\ InOrder(a, 0) /\ LeafHolds(a, part[p], d)
  BY <1>3, <1>4 DEF LeafFor
<1>7. Len(a) < Full(level[p]) /\ Len(a) >= Least(t, level, p) /\ Len(a) \in Nat
  BY <1>1, <1>4, <1>6 DEF SizeOK
<1>8. b \in Seq(Entry) /\ InOrder(b, 0) /\ LeafHolds(b, part[p], d2) /\ Len(b) = Len(a) - 1
  <2>1. PICK P : P = part[p]
    OBVIOUS
  <2>2. key \in P /\ P \in SUBSET Keys /\ LeafHolds(a, P, d) /\ a \in Seq(Entry) /\ InOrder(a, 0)
    BY ONLY <1>6, <2>1
  <2>3. b \in Seq(Entry) /\ InOrder(b, 0) /\ LeafHolds(b, P, d2) /\ Len(b) = Len(a) - 1
    BY ONLY key \in DOMAIN d, Drops(d, d2, key), <1>5, <2>2, LeafRemoveLemma
  <2> QED BY ONLY <2>1, <2>3
<1>9. PICK u : u = [FetchPage(t, p) EXCEPT !.nodes[p].array = b]
  OBVIOUS
<1>10. IsTree(t)
  BY <1>1, WellFacts
<1>11. ArrayChanged(t, p, b, u) /\ u.pins = SetToBag({p})
  BY <1>1, <1>6, <1>9, <1>10, LeafFetched
<1>12. Well(u, part, level, d2)
  <2>1. DiffersAt(d, d2, key)
    BY DEF Drops
  <2> QED BY <1>1, <1>3, <1>8, <1>11, <2>1, LeafSet
<1>13. Shrinking(u, p, part, level, d2)
  <2>1. ASSUME NEW y \in DOMAIN u.nodes, y # p PROVE SizeOK(u, level, y)
    <3>1. y \in DOMAIN t.nodes /\ u.nodes[y].array = t.nodes[y].array /\ u.root = t.root
      BY <1>11, <2>1 DEF ArrayChanged
    <3> QED BY <1>1, <3>1 DEF SizeOK, Least
  <2>2. u.nodes[p].array = b /\ u.root = t.root /\ p \in DOMAIN u.nodes
    BY <1>6, <1>11 DEF ArrayChanged
  <2>3. Full(level[p]) \in Nat
    BY <1>6, Halves
  <2>4. Least(u, level, p) = Least(t, level, p)
    BY <2>2 DEF Least
  <2>5. Len(b) < Full(level[p]) /\ Len(b) + 1 = Len(a)
    BY ONLY <1>7, <1>8, <2>3
  <2>6. Len(u.nodes[p].array) < Full(level[p]) /\ Len(u.nodes[p].array) + 1 >= Least(u, level, p)
    BY ONLY <1>7, <2>2, <2>4, <2>5
  <2> QED BY ONLY <1>11, <1>12, <2>1, <2>2, <2>6 DEF Shrinking
<1>14. RemoveKey(t, key) = Shrunk(u, p)
  <2>1. FetchPage(t, p).nodes[p].array = a
    BY <1>4, <1>10, FetchEffect
  <2>2. u = [FetchPage(t, p) EXCEPT !.nodes[p].array = RemoveAndDeleteRecord(@, key)]
    BY <1>5, <1>9, <2>1
  <2>3. ~Inserts(t, key)
    BY <1>1, InsertsNew
  <2> QED BY ONLY <1>2, <2>2, <2>3 DEF RemoveKey
<1> QED BY <1>6, <1>13, <1>14, ShrunkOK

-----------------------------------------------------------------------------
(* The operations.                                                         *)

\* Kept depends on the pages, the root and the pins only.
LEMMA KeptSame ==
    ASSUME NEW t, NEW u, NEW d, Kept(t, d), SamePages(t, u), u.pins = t.pins
    PROVE  Kept(u, d)
<1>1. /\ IsTree(u) /\ u.nodes = t.nodes /\ u.root = t.root /\ u.header = t.header
  BY DEF SamePages
<1>2. CASE Emptied(t, d)
  BY <1>1, <1>2 DEF Kept, Emptied
<1>3. CASE \E part, level : Settled(t, part, level, d)
  <2>1. PICK part, level : Settled(t, part, level, d)
    BY <1>3
  <2>2. Well(t, part, level, d) /\ t.pins = EmptyBag /\ \A y \in DOMAIN t.nodes : SizeOK(t, level, y)
    BY ONLY <2>1 DEF Settled
  <2>3. Well(u, part, level, d) /\ \A y : SizeOK(t, level, y) => SizeOK(u, level, y)
    BY ONLY SamePages(t, u), <2>2, WellSame
  <2>4. Settled(u, part, level, d)
    BY ONLY u.pins = t.pins, <1>1, <2>2, <2>3 DEF Settled
  <2> QED BY <2>4 DEF Kept
<1> QED BY <1>2, <1>3 DEF Kept

\* A kept tree has its fields, and its root is the one in the header page.
LEMMA KeptIsTree ==
    ASSUME NEW t, NEW d, Kept(t, d)
    PROVE  IsTree(t) /\ t.header = t.root
<1>1. CASE Emptied(t, d)
  BY <1>1 DEF Emptied
<1>2. CASE \E part, level : Settled(t, part, level, d)
  BY <1>2, WellFacts DEF Settled
<1> QED BY <1>1, <1>2 DEF Kept

\* The first page fetched is the only one pinned.
LEMMA FetchFirst ==
    ASSUME NEW t, IsTree(t), t.pins = EmptyBag, NEW p, NEW u, u = FetchPage(t, p)
    PROVE  SamePages(t, u) /\ u.pins = SetToBag({p})
<1>1. /\ IsTree(u) /\ u.root = t.root /\ u.header = t.header /\ u.nodes = t.nodes
      /\ u.pins = t.pins (+) SetToBag({p})
  BY ONLY IsTree(t), u = FetchPage(t, p), FetchEffect
<1>2. PICK A : A = {}
  OBVIOUS
<1>3. SetToBag(A) (+) SetToBag({p}) = SetToBag(A \cup {p})
  BY ONLY <1>2, PinAdd
<1>4. A \cup {p} = {p}
  BY ONLY <1>2
<1>5. u.pins = SetToBag({p})
  BY ONLY t.pins = EmptyBag, <1>1, <1>2, <1>3, <1>4, NoPins
<1> QED BY ONLY <1>1, <1>5 DEF SamePages

\* SamePages is transitive.
LEMMA SameTwice ==
    ASSUME NEW t, NEW u, NEW v, SamePages(t, u), SamePages(u, v)
    PROVE  SamePages(t, v)
BY ONLY SamePages(t, u), SamePages(u, v) DEF SamePages

\* A kept tree has no pins.
LEMMA KeptUnpinned ==
    ASSUME NEW t, NEW d, Kept(t, d)
    PROVE  t.pins = EmptyBag
BY DEF Kept, Emptied, Settled

\* A search gives back the pin of its leaf.
LEMMA KeptSearched ==
    ASSUME NEW t, NEW d, Kept(t, d), NEW key
    PROVE  Kept(Searched(t, key), d)
<1>1. IsTree(t) /\ t.pins = EmptyBag
  BY ONLY Kept(t, d), KeptIsTree, KeptUnpinned
<1>2. CASE t.root = INVALID_PAGE_ID
  <2>1. Searched(t, key) = t
    BY ONLY <1>2 DEF Searched
  <2> QED BY ONLY Kept(t, d), <2>1
<1>3. CASE t.root # INVALID_PAGE_ID
  <2>1. PICK p : p = FindLeafPage(t, key)
    OBVIOUS
  <2>2. PICK u : u = FetchPage(t, p)
    OBVIOUS
  <2>3. PICK v : v = UnpinPages(u, {p})
    OBVIOUS
  <2>4. Searched(t, key) = v
    BY ONLY <1>3, <2>1, <2>2, <2>3 DEF Searched
  <2>5. SamePages(t, u) /\ u.pins = SetToBag({p})
    BY ONLY <1>1, <2>2, FetchFirst
  <2>6. IsTree(u)
    BY ONLY <2>5 DEF SamePages
  <2>7. SamePages(u, v) /\ v.pins = EmptyBag
    BY ONLY <2>3, <2>5, <2>6, UnpinLast
  <2>8. SamePages(t, v)
    BY ONLY <2>5, <2>7, SameTwice
  <2> QED BY ONLY Kept(t, d), <1>1, <2>4, <2>7, <2>8, KeptSame
<1> QED BY ONLY <1>2, <1>3

\* The states the loop of a scan goes through: after n leaves it has ended
\* without a pin, or it has one leaf pinned, whose rank has gone down.
ScanState(c, t, rank, h, n) ==
    /\ SamePages(t, c.tree)
    /\ \/ c.page = INVALID_PAGE_ID /\ c.tree.pins = EmptyBag
       \/ c.page \in DOMAIN t.nodes /\ c.tree.pins = SetToBag({c.page}) /\ rank[c.page] + n <= h

\* One leaf of a scan.
LEMMA ScanStepOK ==
    ASSUME NEW t, DOMAIN t.nodes \subseteq Nat \ {0}, NEW rank, NEW h \in Nat, NEW n \in Nat,
           Descends(DOMAIN t.nodes, Nxt(t), rank, h), NEW key, NEW c, ScanState(c, t, rank, h, n)
    PROVE  ScanState(ScanStep(c, key), t, rank, h, n + 1)
<1>1. SamePages(t, c.tree)
  BY ONLY ScanState(c, t, rank, h, n) DEF ScanState
<1>2. CASE c.page = INVALID_PAGE_ID /\ c.tree.pins = EmptyBag
  <2>1. ScanStep(c, key) = c
    BY ONLY <1>2 DEF ScanStep
  <2> QED BY ONLY <1>1, <1>2, <2>1 DEF ScanState
<1>3. CASE c.page \in DOMAIN t.nodes /\ c.tree.pins = SetToBag({c.page}) /\ rank[c.page] + n <= h
  <2>1. PICK p, u : p = c.page /\ u = c.tree
    OBVIOUS
  <2>2. p \in DOMAIN t.nodes /\ u.pins = SetToBag({p}) /\ rank[p] + n <= h /\ SamePages(t, u)
    BY ONLY <1>1, <1>3, <2>1
  <2>3. IsTree(u) /\ u.nodes = t.nodes
    BY ONLY <2>2 DEF SamePages
  <2>4. PICK q : q = t.nodes[p].next
    OBVIOUS
  <2>5. PICK v : v = UnpinPages(u, {p})
    OBVIOUS
  <2>6. SamePages(u, v) /\ v.pins = EmptyBag
    BY ONLY <2>2, <2>3, <2>5, UnpinLast
  <2>7. SamePages(t, v)
    BY ONLY <2>2, <2>6, SameTwice
  <2>8. p # INVALID_PAGE_ID
    BY ONLY DOMAIN t.nodes \subseteq Nat \ {0}, <2>2 DEF INVALID_PAGE_ID
  <2>9. PICK w : w = FetchPage(v, q)
    OBVIOUS
  <2>10. PICK e : e = ScanStep(c, key)
    OBVIOUS
  <2>11. \/ e = [tree |-> v, page |-> INVALID_PAGE_ID]
         \/ e = [tree |-> w, page |-> q] /\ q # INVALID_PAGE_ID
    BY ONLY <2>1, <2>3, <2>4, <2>5, <2>8, <2>9, <2>10 DEF ScanStep
  <2>12. CASE e = [tree |-> v, page |-> INVALID_PAGE_ID]
    <3>1. e.tree = v /\ e.page = INVALID_PAGE_ID
      BY ONLY <2>12
    <3> QED BY ONLY <2>6, <2>7, <2>10, <3>1 DEF ScanState
  <2>13. CASE e = [tree |-> w, page |-> q] /\ q # INVALID_PAGE_ID
    <3>1. e.tree = w /\ e.page = q
      BY ONLY <2>13
    <3>2. IsTree(v)
      BY ONLY <2>7 DEF SamePages
    <3>3. SamePages(v, w) /\ w.pins = SetToBag({q})
      BY ONLY <2>6, <2>9, <3>2, FetchFirst
    <3>4. SamePages(t, w)
      BY ONLY <2>7, <3>3, SameTwice
    <3>5. Nxt(t)[p] = q
      BY ONLY <2>2, <2>4 DEF Nxt
    <3>6. /\ q \in DOMAIN t.nodes /\ rank[q] < rank[p] /\ rank[q] \in Nat /\ rank[p] \in Nat
      BY ONLY Descends(DOMAIN t.nodes, Nxt(t), rank, h), <2>2, <2>13, <3>5 DEF Descends
    <3>7. rank[q] + (n + 1) <= h
      BY ONLY h \in Nat, n \in Nat, <2>2, <3>6
    <3> QED BY ONLY <2>10, <3>1, <3>3, <3>4, <3>6, <3>7 DEF ScanState
  <2> QED BY ONLY <2>11, <2>12, <2>13
<1> QED BY ONLY ScanState(c, t, rank, h, n), <1>2, <1>3 DEF ScanState

\* The states of the loop of a scan.
ScanCalls(g, N, c, key) ==
    g = [n \in 0 .. N |-> IF n = 0 THEN c ELSE ScanStep(g[n - 1], key)]

\* They exist.
LEMMA ScannedCalls ==
    ASSUME NEW c0, NEW key, NEW M \in Nat
    PROVE  \E g : ScanCalls(g, M, c0, key)
<1> USE DEF ScanCalls
<1> DEFINE S == {N \in Nat : \E g : ScanCalls(g, N, c0, key)}
<1>1. 0 \in S
  <2>1. PICK g : g = [n \in 0 .. 0 |-> c0]
    OBVIOUS
  <2>2. g = [n \in 0 .. 0 |-> IF n = 0 THEN c0 ELSE ScanStep(g[n - 1], key)]
    BY <2>1
  <2> QED BY <2>2
<1>2. ASSUME NEW N \in Nat, N \in S PROVE N + 1 \in S
  <2>1. PICK g : g = [n \in 0 .. N |-> IF n = 0 THEN c0 ELSE ScanStep(g[n - 1], key)]
    BY <1>2
  <2>2. PICK g2 : g2 = [n \in 0 .. N + 1 |-> IF n <= N THEN g[n] ELSE ScanStep(g[N], key)]
    OBVIOUS
  <2>3. \A n \in 0 .. N : g2[n] = g[n]
    BY <2>2
  <2>4. ASSUME NEW n \in 0 .. N + 1 PROVE g2[n] = IF n = 0 THEN c0 ELSE ScanStep(g2[n - 1], key)
    <3>1. CASE n <= N
      <4>1. n \in 0 .. N /\ (n # 0 => n - 1 \in 0 .. N)
        BY <3>1
      <4>2. g[n] = IF n = 0 THEN c0 ELSE ScanStep(g[n - 1], key)
        BY <2>1, <4>1
      <4> QED BY <2>3, <4>1, <4>2
    <3>2. CASE n = N + 1
      <4>1. n # 0 /\ n - 1 = N /\ N \in 0 .. N /\ ~(n <= N)
        BY <3>2
      <4> QED BY <2>2, <2>3, <4>1
    <3> QED BY <3>1, <3>2
  <2>5. g2 = [n \in 0 .. N + 1 |-> IF n = 0 THEN c0 ELSE ScanStep(g2[n - 1], key)]
    BY <2>2, <2>4
  <2> QED BY <2>5
<1>3. \A N \in Nat : N \in S
  <2> HIDE DEF S
  <2> QED BY <1>1, <1>2, NatSetInduction
<1> QED BY <1>3

\* Scanned is the last of these states.
LEMMA ScannedUnfolded ==
    ASSUME NEW t, NEW key, t.root # INVALID_PAGE_ID,
           \E g : g = [n \in 0 .. Cardinality(DOMAIN t.nodes) + 1 |->
                         IF n = 0 THEN [tree |-> FetchPage(t, FindLeafPage(t, key)),
                                        page |-> FindLeafPage(t, key)]
                                  ELSE ScanStep(g[n - 1], key)]
    PROVE  \E g : /\ g = [n \in 0 .. Cardinality(DOMAIN t.nodes) + 1 |->
                         IF n = 0 THEN [tree |-> FetchPage(t, FindLeafPage(t, key)),
                                        page |-> FindLeafPage(t, key)]
                                  ELSE ScanStep(g[n - 1], key)]
                  /\ Scanned(t, key) = g[Cardinality(DOMAIN t.nodes) + 1].tree
  BY Zenon DEF Scanned

\* A scan comes to an end, and gives back the pins of all its leaves.
LEMMA KeptScanned ==
    ASSUME NEW t, NEW d, Kept(t, d), NEW key \in Keys
    PROVE  Kept(Scanned(t, key), d)
<1>1. IsTree(t) /\ t.pins = EmptyBag
  BY ONLY Kept(t, d), KeptIsTree, KeptUnpinned
<1>2. CASE t.root = INVALID_PAGE_ID
  <2>1. Scanned(t, key) = t
    BY ONLY <1>2 DEF Scanned
  <2> QED BY ONLY Kept(t, d), <2>1
<1>3. CASE t.root # INVALID_PAGE_ID
  <2>1. PICK part, level : Well(t, part, level, d)
    BY ONLY Kept(t, d), <1>3 DEF Kept, Emptied, Settled
  <2>2. DOMAIN t.nodes \subseteq Nat \ {0} /\ IsFiniteSet(DOMAIN t.nodes)
    BY ONLY <2>1, WellFacts
  <2>3. PICK p : p = FindLeafPage(t, key)
    OBVIOUS
  <2>4. p \in DOMAIN t.nodes
    BY ONLY key \in Keys, <2>1, <2>3, LeafFound DEF LeafFor
  <2>5. PICK h \in Nat : h = Cardinality(DOMAIN t.nodes)
    BY ONLY <2>2, FS_CardinalityType
  <2>6. PICK rank : Descends(DOMAIN t.nodes, Nxt(t), rank, h)
    <3>1. PICK D, arr, par, nxt, root :
             D = DOMAIN t.nodes /\ arr = Arr(t) /\ par = Par(t) /\ nxt = Nxt(t) /\ root = t.root
      OBVIOUS
    <3>2. Shape(D, arr, par, root, part, level, d) /\ Chain(D, nxt, part, level)
      BY ONLY <2>1, <3>1 DEF Well
    <3>3. \E rank : Descends(D, nxt, rank, Cardinality(D))
      BY ONLY <3>2, Ranks
    <3> QED BY ONLY <2>5, <3>1, <3>3
  <2>7. PICK u : u = FetchPage(t, p)
    OBVIOUS
  <2>8. SamePages(t, u) /\ u.pins = SetToBag({p})
    BY ONLY <1>1, <2>7, FetchFirst
  <2>9. PICK c0 : c0 = [tree |-> u, page |-> p]
    OBVIOUS
  <2>10. PICK N \in Nat : N = h + 1
    BY ONLY h \in Nat
  <2>11. \E g : g = [n \in 0 .. N |-> IF n = 0 THEN c0 ELSE ScanStep(g[n - 1], key)]
    <3>1. \E g : ScanCalls(g, N, c0, key)
      BY ONLY N \in Nat, ScannedCalls
    <3> QED BY ONLY <3>1 DEF ScanCalls
  <2>12. PICK g : /\ g = [n \in 0 .. N |-> IF n = 0 THEN c0 ELSE ScanStep(g[n - 1], key)]
                  /\ Scanned(t, key) = g[N].tree
    BY ONLY <1>3, <2>3, <2>5, <2>7, <2>9, <2>10, <2>11, ScannedUnfolded
  <2> DEFINE S == {n \in Nat : n <= N => ScanState(g[n], t, rank, h, n)}
  <2>13. 0 \in S
    <3>1. g[0] = c0
      BY ONLY N \in Nat, <2>12
    <3>2. c0.tree = u /\ c0.page = p
      BY ONLY <2>9
    <3>3. rank[p] \in Nat /\ rank[p] <= h
      BY ONLY <2>4, <2>6 DEF Descends
    <3>4. rank[p] + 0 <= h
      BY ONLY h \in Nat, <3>3
    <3>5. ScanState(c0, t, rank, h, 0)
      BY ONLY <2>4, <2>8, <3>2, <3>4 DEF ScanState
    <3> QED BY ONLY <3>1, <3>5
  <2>14. ASSUME NEW n \in Nat, n \in S PROVE n + 1 \in S
    <3>1. SUFFICES ASSUME n + 1 <= N PROVE ScanState(g[n + 1], t, rank, h, n + 1)
      OBVIOUS
    <3>2. n <= N /\ n + 1 \in 0 .. N /\ n + 1 # 0 /\ (n + 1) - 1 = n
      BY ONLY N \in Nat, n \in Nat, <3>1
    <3>3. ScanState(g[n], t, rank, h, n)
      BY ONLY n \in S, <3>2
    <3>4. g[n + 1] = ScanStep(g[n], key)
      BY ONLY <2>12, <3>2
    <3> QED BY ONLY h \in Nat, n \in Nat, <2>2, <2>6, <3>3, <3>4, ScanStepOK
  <2>15. \A n \in Nat : n \in S
    <3> HIDE DEF S
    <3> QED BY ONLY <2>13, <2>14, NatSetInduction
  <2>16. ScanState(g[N], t, rank, h, N)
    BY ONLY N \in Nat, <2>15
  <2>17. SamePages(t, g[N].tree) /\ g[N].tree.pins = EmptyBag
    <3>1. ASSUME g[N].page \in DOMAIN t.nodes, rank[g[N].page] + N <= h PROVE FALSE
      <4>1. rank[g[N].page] \in Nat
        BY ONLY <2>6, <3>1 DEF Descends
      <4> QED BY ONLY h \in Nat, N \in Nat, <2>10, <3>1, <4>1
    <3> QED BY ONLY <2>16, <3>1 DEF ScanState
  <2> QED BY ONLY Kept(t, d), <1>1, <2>12, <2>17, KeptSame
<1> QED BY ONLY <1>2, <1>3

\* The test by which Insert decides between inserting and modifying is right.
LEMMA KeptInserts ==
    ASSUME NEW t, NEW d, Kept(t, d), NEW key \in Keys
    PROVE  Inserts(t, key) <=> key \notin DOMAIN d
<1>1. CASE Emptied(t, d)
  BY <1>1 DEF Emptied, Inserts
<1>2. CASE \E part, level : Settled(t, part, level, d)
  <2>1. PICK part, level : Well(t, part, level, d)
    BY <1>2 DEF Settled
  <2> QED BY ONLY key \in Keys, <2>1, InsertsNew
<1> QED BY <1>1, <1>2 DEF Kept

\* Insert keeps the tree.
LEMMA KeptInsert ==
    ASSUME NEW t, NEW d, NEW d2, Kept(t, d), NEW key \in Keys, NEW value \in Values[key],
           Gives(d, d2, key, value)
    PROVE  Kept(Insert(t, key, value), d2)
<1>1. CASE Emptied(t, d)
  <2>1. Insert(t, key, value) = StartNewTree(t, key, value)
    BY <1>1 DEF Emptied, Insert
  <2>2. \E part2, level2 : Settled(StartNewTree(t, key, value), part2, level2, d2)
    BY <1>1, StartOK
  <2> QED BY ONLY <2>1, <2>2 DEF Kept
<1>2. CASE \E part, level : Settled(t, part, level, d)
  <2>1. PICK part, level : Settled(t, part, level, d)
    BY <1>2
  <2>2. t.root # INVALID_PAGE_ID
    BY <2>1, InsertsNew DEF Settled
  <2>3. Insert(t, key, value) = InsertIntoLeaf(t, key, value)
    BY <2>2 DEF Insert
  <2>4. \E part2, level2 : Settled(InsertIntoLeaf(t, key, value), part2, level2, d2)
    BY <2>1, InsertOK
  <2> QED BY ONLY <2>3, <2>4 DEF Kept
<1> QED BY <1>1, <1>2 DEF Kept

\* RemoveKey keeps the tree, whether the key is there or not.
LEMMA KeptRemove ==
    ASSUME NEW t, NEW d, NEW d2, Kept(t, d), NEW key \in Keys, Drops(d, d2, key),
           key \notin DOMAIN d => d2 = d
    PROVE  Kept(RemoveKey(t, key), d2)
<1>1. CASE key \notin DOMAIN d
  <2>1. Inserts(t, key)
    BY <1>1, KeptInserts
  <2>2. RemoveKey(t, key) = Searched(t, key)
    BY ONLY <2>1 DEF RemoveKey
  <2> QED BY ONLY Kept(t, d), key \notin DOMAIN d => d2 = d, <1>1, <2>2, KeptSearched
<1>2. CASE key \in DOMAIN d
  <2>1. PICK part, level : Settled(t, part, level, d)
    BY <1>2 DEF Kept, Emptied
  <2> QED BY ONLY key \in Keys, Drops(d, d2, key), <1>2, <2>1, RemoveOK
<1> QED BY <1>1, <1>2

-----------------------------------------------------------------------------
(* The invariant.                                                          *)

\* The parts and the levels that Well speaks of are not in the program: they
\* are what its separators and its pages mean.
TreeInv ==
    /\ Kept(tree, dict)
    /\ dict = [k \in DOMAIN dict |-> dict[k]] /\ DOMAIN dict \subseteq Keys
    /\ IsFiniteSet(DOMAIN dict) /\ size_ = Cardinality(DOMAIN dict)

\* The empty index satisfies the invariant.
LEMMA InitInv == Init => TreeInv
<1> SUFFICES ASSUME Init PROVE TreeInv
  OBVIOUS
<1>1. dict = [k \in {} |-> 0] /\ DOMAIN dict = {}
  BY DEF Init, Contract!EmptyIndex
<1>2. Emptied(tree, dict)
  BY <1>1 DEF Init, EmptyTree, Emptied, IsTree, Fields, PageFields
<1>3. IsFiniteSet(DOMAIN dict) /\ size_ = Cardinality(DOMAIN dict)
  BY <1>1, FS_EmptySet DEF Init
<1>4. dict = [k \in DOMAIN dict |-> dict[k]]
  BY <1>1
<1> QED BY <1>1, <1>2, <1>3, <1>4 DEF TreeInv, Kept

\* InsertEntry keeps the invariant.
LEMMA InsertInv ==
    ASSUME TreeInv, NEW key \in Keys, NEW value \in Values[key], InsertEntry(key, value)
    PROVE  TreeInv'
<1>1. /\ Kept(tree, dict) /\ IsFiniteSet(DOMAIN dict) /\ DOMAIN dict \subseteq Keys
      /\ size_ = Cardinality(DOMAIN dict)
  BY DEF TreeInv
<1>2. /\ tree' = Insert(tree, key, value)
      /\ size_' = size_ + IF Inserts(tree, key) THEN 1 ELSE 0
      /\ dict' = [k \in DOMAIN dict \cup {key} |-> IF k = key THEN value ELSE dict[k]]
  BY DEF InsertEntry, Contract!InsertEntry
<1>3. DOMAIN dict' = DOMAIN dict \cup {key} /\ dict' = [k \in DOMAIN dict' |-> dict'[k]]
  BY ONLY <1>2
<1>4. Gives(dict, dict', key, value)
  BY ONLY <1>2 DEF Gives, DiffersAt
<1>5. Kept(tree', dict')
  BY ONLY key \in Keys, value \in Values[key], <1>1, <1>2, <1>4, KeptInsert
<1>6. Inserts(tree, key) <=> key \notin DOMAIN dict
  BY ONLY key \in Keys, <1>1, KeptInserts
<1>7. IsFiniteSet(DOMAIN dict') /\ size_' = Cardinality(DOMAIN dict')
  <2>1. /\ IsFiniteSet(DOMAIN dict \cup {key}) /\ Cardinality(DOMAIN dict) \in Nat
        /\ Cardinality(DOMAIN dict \cup {key}) =
              IF key \in DOMAIN dict THEN Cardinality(DOMAIN dict) ELSE Cardinality(DOMAIN dict) + 1
    BY ONLY <1>1, FS_AddElement, FS_CardinalityType
  <2> QED BY ONLY <1>1, <1>2, <1>3, <1>6, <2>1
<1> QED BY <1>1, <1>3, <1>5, <1>7 DEF TreeInv

\* DeleteEntry keeps the invariant.
LEMMA DeleteInv ==
    ASSUME TreeInv, NEW key \in Keys, DeleteEntry(key)
    PROVE  TreeInv'
<1>1. /\ Kept(tree, dict) /\ IsFiniteSet(DOMAIN dict) /\ DOMAIN dict \subseteq Keys
      /\ size_ = Cardinality(DOMAIN dict) /\ dict = [k \in DOMAIN dict |-> dict[k]]
  BY DEF TreeInv
<1>2. /\ tree' = RemoveKey(tree, key)
      /\ size_' = size_ - IF Inserts(tree, key) THEN 0 ELSE 1
      /\ dict' = [k \in DOMAIN dict \ {key} |-> dict[k]]
  BY DEF DeleteEntry, Contract!DeleteEntry
<1>3. DOMAIN dict' = DOMAIN dict \ {key} /\ dict' = [k \in DOMAIN dict' |-> dict'[k]]
  BY ONLY <1>2
<1>4. Drops(dict, dict', key)
  BY ONLY <1>2 DEF Drops, DiffersAt
<1>5. key \notin DOMAIN dict => dict' = dict
  <2>1. SUFFICES ASSUME key \notin DOMAIN dict PROVE dict' = dict
    OBVIOUS
  <2>2. DOMAIN dict \ {key} = DOMAIN dict
    BY ONLY <2>1
  <2> QED BY ONLY <1>1, <1>2, <2>2
<1>6. Kept(tree', dict')
  BY ONLY key \in Keys, <1>1, <1>2, <1>4, <1>5, KeptRemove
<1>7. Inserts(tree, key) <=> key \notin DOMAIN dict
  BY ONLY key \in Keys, <1>1, KeptInserts
<1>8. IsFiniteSet(DOMAIN dict') /\ size_' = Cardinality(DOMAIN dict')
  <2>1. /\ IsFiniteSet(DOMAIN dict \ {key}) /\ Cardinality(DOMAIN dict) \in Nat
        /\ Cardinality(DOMAIN dict \ {key}) =
              IF key \in DOMAIN dict THEN Cardinality(DOMAIN dict) - 1 ELSE Cardinality(DOMAIN dict)
    BY ONLY <1>1, FS_RemoveElement, FS_CardinalityType
  <2> QED BY ONLY <1>1, <1>2, <1>3, <1>7, <2>1
<1> QED BY <1>1, <1>3, <1>6, <1>8 DEF TreeInv

\* Searches and scans keep the invariant.
LEMMA ReadInv ==
    ASSUME TreeInv, NEW key \in Keys, Search(key) \/ Scan(key)
    PROVE  TreeInv'
<1>1. Kept(tree, dict) /\ dict' = dict /\ size_' = size_
  BY DEF TreeInv, Search, Scan
<1>2. tree' = Searched(tree, key) \/ tree' = Scanned(tree, key)
  BY DEF Search, Scan
<1>3. Kept(tree', dict)
  BY ONLY key \in Keys, <1>1, <1>2, KeptSearched, KeptScanned
<1> QED BY <1>1, <1>3 DEF TreeInv

\* Closing and opening keeps the invariant.
LEMMA ReopenInv ==
    ASSUME TreeInv, Reopen
    PROVE  TreeInv'
<1>1. Kept(tree, dict) /\ tree' = [tree EXCEPT !.root = tree.header] /\ dict' = dict /\ size_' = size_
  BY DEF TreeInv, Reopen
<1>2. IsTree(tree) /\ tree.header = tree.root
  BY ONLY <1>1, KeptIsTree
<1>3. SamePages(tree, tree') /\ tree'.pins = tree.pins
  BY ONLY <1>1, <1>2 DEF SamePages, IsTree, Fields
<1>4. Kept(tree', dict)
  BY ONLY <1>1, <1>3, KeptSame
<1> QED BY <1>1, <1>4 DEF TreeInv

\* Whatever is inserted, removed, read and reopened, the pages are those of a B+
\* tree whose leaves together have exactly the entries of the index, with
\* their values, no page is pinned any more, and size_ counts the entries.
THEOREM TreeInvariant == Spec => []TreeInv
<1>1. ASSUME TreeInv, [Next]_vars PROVE TreeInv'
  <2>1. ASSUME NEW k \in Keys, NEW v \in Values[k], InsertEntry(k, v) PROVE TreeInv'
    BY ONLY TreeInv, <2>1, InsertInv
  <2>2. ASSUME NEW k \in Keys, DeleteEntry(k) PROVE TreeInv'
    BY ONLY TreeInv, <2>2, DeleteInv
  <2>3. ASSUME NEW k \in Keys, Search(k) \/ Scan(k) PROVE TreeInv'
    BY ONLY TreeInv, <2>3, ReadInv
  <2>4. CASE Reopen
    BY ONLY TreeInv, <2>4, ReopenInv
  <2>5. CASE UNCHANGED vars
    BY ONLY TreeInv, <2>5 DEF vars, TreeInv
  <2> QED BY ONLY [Next]_vars, <2>1, <2>2, <2>3, <2>4, <2>5 DEF Next
<1> QED BY <1>1, InitInv, PTL DEF Spec

\* A search finds every entry of the index with the value stored last and
\* nothing else, for any keys and page sizes, whatever splits, merges and
\* redistributions InsertEntry and DeleteEntry caused before, and through
\* closing and reopening.
THEOREM SearchTheorem == Spec => []SearchFindsEverything
<1>1. ASSUME TreeInv PROVE SearchFindsEverything
  <2>1. Kept(tree, dict)
    BY ONLY TreeInv DEF TreeInv
  <2>2. ASSUME NEW k \in Keys
        PROVE  SearchKey(tree, k) = IF k \in DOMAIN dict THEN <<dict[k]>> ELSE <<>>
    <3>1. CASE Emptied(tree, dict)
      <4>1. tree.root = INVALID_PAGE_ID /\ k \notin DOMAIN dict
        BY ONLY k \in Keys, <3>1 DEF Emptied
      <4> QED BY ONLY <4>1 DEF SearchKey
    <3>2. CASE \E part, level : Settled(tree, part, level, dict)
      <4>1. PICK part, level : Well(tree, part, level, dict)
        BY ONLY <3>2 DEF Settled
      <4> QED BY ONLY k \in Keys, <4>1, SearchFinds
    <3> QED BY ONLY <2>1, <3>1, <3>2 DEF Kept
  <2> QED BY ONLY <2>2 DEF SearchFindsEverything
<1> QED BY <1>1, TreeInvariant, PTL

\* A page of a settled tree has a legal size and leads to its parent, which has
\* it as a child.
LEMMA SettledLinked ==
    ASSUME NEW t, NEW part, NEW level, NEW d, Settled(t, part, level, d), NEW p \in DOMAIN t.nodes
    PROVE  /\ {t.nodes[p].parent, t.nodes[p].next} \subseteq DOMAIN t.nodes \cup {INVALID_PAGE_ID}
           /\ Len(t.nodes[p].array) < MaxSize(t.nodes[p])
           /\ IF p = t.root
              THEN /\ t.nodes[p].parent = INVALID_PAGE_ID
                   /\ Len(t.nodes[p].array) >= IF t.nodes[p].leaf THEN 1 ELSE 2
              ELSE /\ t.nodes[p].parent \in DOMAIN t.nodes
                   /\ ValueIndex(t.nodes[t.nodes[p].parent].array, p) # 0
                   /\ Len(t.nodes[p].array) >= MinSize(t.nodes[p])
<1>1. Well(t, part, level, d) /\ \A y \in DOMAIN t.nodes : SizeOK(t, level, y)
  BY DEF Settled
<1>2. /\ MaxSize(t.nodes[p]) = Full(level[p]) /\ MinSize(t.nodes[p]) = Half(level[p])
      /\ (t.nodes[p].leaf <=> level[p] = 0)
      /\ (p # t.root => t.nodes[p].parent \in DOMAIN t.nodes)
  BY ONLY p \in DOMAIN t.nodes, <1>1, PageFacts
<1>3. t.nodes[t.root].parent = INVALID_PAGE_ID
  BY ONLY <1>1, WellFacts
<1>4. t.nodes[p].next \in DOMAIN t.nodes \cup {INVALID_PAGE_ID}
  <2>1. Nxt(t)[p] = t.nodes[p].next
    BY DEF Nxt
  <2>2. Nxt(t)[p] # INVALID_PAGE_ID => Nxt(t)[p] \in DOMAIN t.nodes
    BY <1>1 DEF Well, Chain, Linked
  <2> QED BY ONLY <2>1, <2>2
<1>5. Len(t.nodes[p].array) < Full(level[p]) /\ Len(t.nodes[p].array) >= Least(t, level, p)
  BY <1>1 DEF SizeOK
<1>6. CASE p = t.root
  <2>1. Least(t, level, p) = IF t.nodes[p].leaf THEN 1 ELSE 2
    BY ONLY <1>2, <1>6 DEF Least
  <2> QED BY ONLY <1>2, <1>3, <1>4, <1>5, <1>6, <2>1
<1>7. CASE p # t.root
  <2>1. Least(t, level, p) = Half(level[p])
    BY ONLY <1>7 DEF Least
  <2>2. PICK f : f = t.nodes[p].parent
    OBVIOUS
  <2>3. PICK j : j = ValueIndex(t.nodes[f].array, p)
    OBVIOUS
  <2>4. j \in 1 .. Len(t.nodes[f].array)
    BY ONLY p \in DOMAIN t.nodes, <1>1, <1>7, <2>2, <2>3, PlaceInParent
  <2>5. j # 0
    BY ONLY <2>4
  <2> QED BY ONLY <1>2, <1>4, <1>5, <1>7, <2>1, <2>2, <2>3, <2>5
<1> QED BY ONLY <1>6, <1>7

\* After every operation the pages but the root are at least half full and
\* none is full, each is an entry of the page it calls its parent, which is
\* what CoalesceOrRedistribute and InsertIntoParent go up along, and every
\* page is unpinned as often as it was fetched; for any keys and page sizes.
THEOREM PagesTheorem == Spec => []PagesAreLinked
<1>1. ASSUME TreeInv PROVE PagesAreLinked
  <2>1. Kept(tree, dict) /\ size_ = Cardinality(DOMAIN dict) /\ IsFiniteSet(DOMAIN dict)
    BY ONLY TreeInv DEF TreeInv
  <2>2. size_ \in Nat
    BY ONLY <2>1, FS_CardinalityType
  <2>3. CASE Emptied(tree, dict)
    <3>1. /\ DOMAIN tree.nodes = {} /\ tree.pins = EmptyBag
          /\ tree.root = INVALID_PAGE_ID /\ tree.header = INVALID_PAGE_ID
      BY ONLY <2>3 DEF Emptied
    <3> QED BY ONLY <2>2, <3>1 DEF PagesAreLinked, TreeTypeOK
  <2>4. CASE \E part, level : Settled(tree, part, level, dict)
    <3>1. PICK part, level : Settled(tree, part, level, dict)
      BY ONLY <2>4
    <3>2. Well(tree, part, level, dict) /\ tree.pins = EmptyBag
      BY ONLY <3>1 DEF Settled
    <3>3. /\ DOMAIN tree.nodes \subseteq Nat \ {0} /\ tree.root \in DOMAIN tree.nodes
          /\ tree.header = tree.root
      BY ONLY <3>2, WellFacts
    <3>4. TreeTypeOK
      <4>1. ASSUME NEW p \in DOMAIN tree.nodes
            PROVE  {tree.nodes[p].parent, tree.nodes[p].next} \subseteq DOMAIN tree.nodes \cup {INVALID_PAGE_ID}
        BY ONLY p \in DOMAIN tree.nodes, <3>1, SettledLinked
      <4> QED BY ONLY <2>2, <3>3, <4>1 DEF TreeTypeOK
    <3>5. ASSUME NEW p \in DOMAIN tree.nodes
          PROVE  /\ Len(tree.nodes[p].array) < MaxSize(tree.nodes[p])
                 /\ IF p = tree.root
                    THEN /\ tree.nodes[p].parent = INVALID_PAGE_ID
                         /\ Len(tree.nodes[p].array) >= IF tree.nodes[p].leaf THEN 1 ELSE 2
                    ELSE /\ tree.nodes[p].parent \in DOMAIN tree.nodes
                         /\ ValueIndex(tree.nodes[tree.nodes[p].parent].array, p) # 0
                         /\ Len(tree.nodes[p].array) >= MinSize(tree.nodes[p])
      BY ONLY p \in DOMAIN tree.nodes, <3>1, SettledLinked
    <3> QED BY ONLY <3>2, <3>4, <3>5 DEF PagesAreLinked
  <2> QED BY ONLY <2>1, <2>3, <2>4 DEF Kept
<1> QED BY <1>1, TreeInvariant, PTL
-----------------------------------------------------------------------------
(* Scans.                                                                  *)

\* From a leaf on, the chain lists the keys from those of the leaf on.
LEMMA ChainFound ==
    ASSUME NEW t, NEW part, NEW level, NEW d, Well(t, part, level, d),
           NEW p \in DOMAIN t.nodes, level[p] = 0
    PROVE  /\ Listing(ChainFrom(t.nodes, p), Upper(part[p]), d)
           /\ Begins(t.nodes[p].array, part[p], ChainFrom(t.nodes, p))
<1>1. PICK D, arr, par, nxt, root :
         D = DOMAIN t.nodes /\ arr = Arr(t) /\ par = Par(t) /\ nxt = Nxt(t) /\ root = t.root
  OBVIOUS
<1>2. Shape(D, arr, par, root, part, level, d) /\ Chain(D, nxt, part, level)
  BY <1>1 DEF Well
<1>3. \A q \in D : arr[q] = t.nodes[q].array /\ nxt[q] = t.nodes[q].next
  BY ONLY <1>1 DEF Arr, Nxt
<1>4. PICK rank : Descends(D, nxt, rank, Cardinality(D))
  BY ONLY <1>2, Ranks
<1>5. PICK h \in Nat : h = Cardinality(D)
  <2>1. IsFiniteSet(D)
    BY ONLY <1>2 DEF Shape, Types
  <2> QED BY ONLY <2>1, FS_CardinalityType
<1>6. PICK g0 : GoesAlong(g0, D, nxt, arr)
  BY ONLY h \in Nat, <1>4, <1>5, Along
<1>7. PICK nodes : nodes = t.nodes
  OBVIOUS
<1>8. \A f : GoesAlong(f, D, nxt, arr) <=> GoesAlongNodes(f, nodes)
  <2>1. ASSUME NEW f PROVE GoesAlong(f, D, nxt, arr) <=> GoesAlongNodes(f, nodes)
    <3> DEFINE A(q) == IF nxt[q] = INVALID_PAGE_ID THEN arr[q] ELSE arr[q] \o f[nxt[q]]
               B(q) == IF nodes[q].next = INVALID_PAGE_ID THEN nodes[q].array
                       ELSE nodes[q].array \o f[nodes[q].next]
    <3>1. D = DOMAIN nodes /\ \A q \in D : A(q) = B(q)
      BY ONLY <1>1, <1>3, <1>7
    <3>2. [q \in D |-> A(q)] = [q \in DOMAIN nodes |-> B(q)]
      <4> HIDE DEF A, B
      <4> QED BY ONLY <3>1
    <3>3. (f = [q \in D |-> A(q)]) <=> (f = [q \in DOMAIN nodes |-> B(q)])
      <4> HIDE DEF A, B
      <4> QED BY ONLY <3>2
    <3> QED BY ONLY <3>3, Zenon DEF GoesAlong, GoesAlongNodes
  <2> QED BY ONLY <2>1
<1>9. PICK g : GoesAlongNodes(g, nodes) /\ ChainFrom(nodes, p) = g[p]
  BY ONLY <1>6, <1>8, ChainUnfolded
<1>10. GoesAlong(g, D, nxt, arr)
  BY ONLY <1>8, <1>9
<1>11. Listing(g[p], Upper(part[p]), d) /\ Begins(arr[p], part[p], g[p])
  BY ONLY p \in DOMAIN t.nodes, level[p] = 0, <1>1, <1>2, <1>10, ChainLists
<1> QED BY ONLY p \in DOMAIN t.nodes, <1>1, <1>3, <1>7, <1>9, <1>11

\* ScanKey on a tree with pages returns the values of a listing of the keys
\* it should return.
LEMMA ScanLists ==
    ASSUME NEW t, NEW part, NEW level, NEW d, Well(t, part, level, d), NEW key \in Keys
    PROVE  \E h : Listing(h, Wanted(key), d) /\ ScanKey(t, key) = ValuesOf(h)
<1>1. PICK p : p = FindLeafPage(t, key)
  OBVIOUS
<1>2. LeafFor(t, part, level, d, key, p)
  BY ONLY Well(t, part, level, d), key \in Keys, <1>1, LeafFound
<1>3. /\ p \in DOMAIN t.nodes /\ level[p] = 0 /\ key \in part[p] /\ part[p] \in SUBSET Keys
      /\ t.nodes[p].array \in Seq(Entry) /\ InOrder(t.nodes[p].array, 0)
  BY ONLY <1>2 DEF LeafFor
<1>4. PICK a \in Seq(Entry) : a = t.nodes[p].array
  BY ONLY <1>3
<1>5. PICK P \in SUBSET Keys : P = part[p]
  BY ONLY <1>3
<1>6. PICK c : c = ChainFrom(t.nodes, p)
  OBVIOUS
<1>7. Listing(c, Upper(P), d) /\ Begins(a, P, c)
  BY ONLY Well(t, part, level, d), <1>3, <1>4, <1>5, <1>6, ChainFound
<1>8. PICK i, m : i = KeyIndex(a, key) /\ m = IF i = 0 THEN Len(a) ELSE i - 1
  OBVIOUS
<1>9. PICK b : b = SubSeq(c, m + 1, Len(c))
  OBVIOUS
<1>10. InOrder(a, 0) /\ key \in P
  BY ONLY <1>3, <1>4, <1>5
<1>11. Listing(b, From(key), d)
  BY ONLY a \in Seq(Entry), P \in SUBSET Keys, <1>7, <1>8, <1>9, <1>10, RestLists
<1>12. PICK stop : Stops(b, key, stop)
  BY DEF Stops
<1>13. PICK h : h = IF stop = 0 THEN b ELSE SubSeq(b, 1, stop - 1)
  OBVIOUS
<1>14. Listing(h, Wanted(key), d)
  BY ONLY key \in Keys, <1>11, <1>12, <1>13, HitsList
<1>15. t.root # INVALID_PAGE_ID
  BY ONLY Well(t, part, level, d), key \in Keys, InsertsNew
<1>16. ScanKey(t, key) = ValuesOf(h)
  BY ONLY <1>1, <1>4, <1>6, <1>8, <1>9, <1>12, <1>13, <1>15 DEF ScanKey, Stops, ValuesOf
<1> QED BY ONLY <1>14, <1>16

\* A scan follows the chain of leaves, past any number of splits and merges,
\* and returns the values of exactly the keys that are not below the one it
\* starts from and that the standby comparator takes for equal, in ascending
\* order; for any keys, page sizes and standby comparator that agrees with the
\* order of the keys.
THEOREM ScanTheorem == Spec => []ScanIsComplete
<1>1. ASSUME TreeInv PROVE ScanIsComplete
  <2>1. Kept(tree, dict) /\ DOMAIN dict \subseteq Keys
    BY ONLY TreeInv DEF TreeInv
  <2>2. ASSUME NEW k \in Keys PROVE ScanKey(tree, k) = ScanReference(k)
    <3>1. PICK W : W = {j \in DOMAIN dict : j >= k /\ First[j] = First[k]}
      OBVIOUS
    <3>2. ScanReference(k) = ByRank(dict, W)
      BY ONLY <3>1 DEF ScanReference, ByRank
    <3>3. CASE Emptied(tree, dict)
      <4>1. tree.root = INVALID_PAGE_ID /\ W = {}
        BY ONLY <2>1, <3>1, <3>3 DEF Emptied
      <4>2. ScanKey(tree, k) = <<>>
        BY ONLY <4>1 DEF ScanKey
      <4>3. Cardinality(W) = 0
        BY ONLY <4>1, FS_EmptySet
      <4>4. 1 .. Cardinality(W) = {}
        BY ONLY <4>3
      <4> QED BY ONLY <3>2, <4>2, <4>4 DEF ByRank
    <3>4. CASE \E part, level : Settled(tree, part, level, dict)
      <4>1. PICK part, level : Well(tree, part, level, dict)
        BY ONLY <3>4 DEF Settled
      <4>2. PICK h : Listing(h, Wanted(k), dict) /\ ScanKey(tree, k) = ValuesOf(h)
        BY ONLY k \in Keys, <4>1, ScanLists
      <4>3. W = {j \in DOMAIN dict : j \in Wanted(k)}
        BY ONLY <2>1, <3>1 DEF Wanted
      <4>4. ValuesOf(h) = ByRank(dict, W)
        BY ONLY <4>2, <4>3, ListingValues
      <4> QED BY ONLY <3>2, <4>2, <4>4
    <3> QED BY ONLY <2>1, <3>3, <3>4 DEF Kept
  <2> QED BY ONLY <2>2 DEF ScanIsComplete
<1> QED BY <1>1, TreeInvariant, PTL
=============================================================================
