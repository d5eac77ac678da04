------------------------- MODULE TreeShapeProofs -------------------------
(***************************************************************************)
(* What splits, merges and changes of the root do to the shape of a B+     *)
(* tree and to its chain of leaves, and what the chain lists, for any      *)
(* keys, values and page sizes.                                            *)
(*                                                                         *)
(* The argument gives every page the part of the keys that FindLeafPage    *)
(* looks for below it, and a level.  Neither is in the program.  A tree is *)
(* taken apart into functions on its pages D: arr, par and nxt for the     *)
(* fields of a page, part and level for what is added.                     *)
(***************************************************************************)
EXTENDS TreePages, FiniteSetTheorems, SequenceTheorems,
        WellFoundedInduction, NaturalsInduction, TLAPS

Datum == Int \cup UNION {Values[k] : k \in Keys}

Entry == Int \X Datum

\* Entry i of an inner page is the one to follow for key k.
Between(a, i, k) ==
    /\ i > 1 => a[i][1] <= k
    /\ i < Len(a) => k < a[i + 1][1]

\* Keys ascend; the first one of an inner page does not count.
InOrder(a, l) ==
    \A i, j \in 1 .. Len(a) : i < j /\ (l = 0 \/ i > 1) => a[i][1] < a[j][1]

Convex(P) == \A i, j \in P : \A k \in Keys : i < k /\ k < j => k \in P

\* A leaf has the entries of d for its part of the keys.
LeafHolds(a, P, d) ==
    /\ \A i \in 1 .. Len(a) :
          a[i][1] \in P /\ a[i][1] \in DOMAIN d /\ a[i][2] = d[a[i][1]]
    /\ \A k \in P : k \in DOMAIN d => \E i \in 1 .. Len(a) : a[i][1] = k

\* Child c has its part of the keys of p, entry i of which leads to it.
ChildOK(D, arr, par, part, level, p, i) ==
    LET c == arr[p][i][2] IN
    /\ c \in D /\ par[c] = p /\ level[c] + 1 = level[p]
    /\ \A k \in Keys : k \in part[c] <=> k \in part[p] /\ Between(arr[p], i, k)
    /\ i > 1 => arr[p][i][1] \in part[p]

Leads(D, arr, par, part, level, p) ==
    /\ Len(arr[p]) > 0
    /\ \A i \in 1 .. Len(arr[p]) : ChildOK(D, arr, par, part, level, p, i)

Types(D, arr, par, part, level) ==
    /\ IsFiniteSet(D) /\ D \subseteq Nat \ {0}
    /\ arr \in [D -> Seq(Entry)] /\ par \in [D -> Int]
    /\ part \in [D -> SUBSET Keys] /\ level \in [D -> Nat]

Rooted(D, par, part, level, root) ==
    /\ root \in D /\ par[root] = INVALID_PAGE_ID /\ part[root] = Keys
    /\ \A p \in D : level[p] <= level[root]

\* Every page but the root is a child of its parent.
ChildrenOK(D, arr, par, level, root) ==
    \A p \in D : p # root =>
        /\ par[p] \in D /\ level[par[p]] > 0
        /\ \E i \in 1 .. Len(arr[par[p]]) : arr[par[p]][i][2] = p

PartsOK(D, arr, part, level) ==
    \A p \in D : part[p] # {} /\ Convex(part[p]) /\ InOrder(arr[p], level[p])

LeavesOK(D, arr, part, level, d) ==
    /\ \A p \in D : level[p] = 0 => LeafHolds(arr[p], part[p], d)
    /\ \A p, q \in D : level[p] = 0 /\ level[q] = 0 /\ p # q => part[p] \cap part[q] = {}

InnerOK(D, arr, par, part, level) ==
    \A p \in D : level[p] > 0 => Leads(D, arr, par, part, level, p)

Shape(D, arr, par, root, part, level, d) ==
    /\ Types(D, arr, par, part, level)
    /\ Rooted(D, par, part, level, root)
    /\ ChildrenOK(D, arr, par, level, root)
    /\ PartsOK(D, arr, part, level)
    /\ LeavesOK(D, arr, part, level, d)
    /\ InnerOK(D, arr, par, part, level)
-----------------------------------------------------------------------------
(* Sequences.                                                              *)

\* What SubSeq returns.
LEMMA SubSeqLemma ==
    ASSUME NEW S, NEW s \in Seq(S), NEW i \in Nat, NEW j \in Nat,
           1 <= i, i <= j + 1, j <= Len(s)
    PROVE  /\ SubSeq(s, i, j) \in Seq(S) /\ Len(SubSeq(s, i, j)) = j - i + 1
           /\ \A k \in 1 .. j - i + 1 : SubSeq(s, i, j)[k] = s[i + k - 1]
  OBVIOUS

\* What concatenation returns.
LEMMA ConcatLemma ==
    ASSUME NEW S, NEW s \in Seq(S), NEW t \in Seq(S)
    PROVE  /\ s \o t \in Seq(S) /\ Len(s \o t) = Len(s) + Len(t)
           /\ \A k \in 1 .. Len(s) + Len(t) :
                 (s \o t)[k] = IF k <= Len(s) THEN s[k] ELSE t[k - Len(s)]
  BY ConcatProperties

\* What RemoveAt returns: the entries behind i move up by one.
LEMMA RemoveAtLemma ==
    ASSUME NEW S, NEW s \in Seq(S), NEW i \in 1 .. Len(s)
    PROVE  /\ RemoveAt(s, i) \in Seq(S) /\ Len(RemoveAt(s, i)) = Len(s) - 1
           /\ \A k \in 1 .. Len(s) - 1 :
                 RemoveAt(s, i)[k] = IF k < i THEN s[k] ELSE s[k + 1]
<1>a. PICK a : a = SubSeq(s, 1, i - 1)
  OBVIOUS
<1>b. PICK b : b = SubSeq(s, i + 1, Len(s))
  OBVIOUS
<1>1. a \in Seq(S) /\ Len(a) = i - 1 /\ \A k \in 1 .. i - 1 : a[k] = s[k]
  BY <1>a, SubSeqLemma
<1>2. b \in Seq(S) /\ Len(b) = Len(s) - i /\ \A k \in 1 .. Len(s) - i : b[k] = s[i + k]
  BY <1>b, SubSeqLemma
<1>3. RemoveAt(s, i) = a \o b
  BY <1>a, <1>b DEF RemoveAt
<1>4. /\ a \o b \in Seq(S) /\ Len(a \o b) = Len(a) + Len(b)
      /\ \A k \in 1 .. Len(a) + Len(b) :
            (a \o b)[k] = IF k <= Len(a) THEN a[k] ELSE b[k - Len(a)]
  BY <1>1, <1>2, ConcatLemma
<1>5. ASSUME NEW k \in 1 .. Len(s) - 1
      PROVE  (a \o b)[k] = IF k < i THEN s[k] ELSE s[k + 1]
  <2>1. CASE k < i
    BY <2>1, <1>1, <1>2, <1>4
  <2>2. CASE ~ (k < i)
    <3>1. /\ k \in 1 .. Len(a) + Len(b) /\ ~ (k <= Len(a))
          /\ k - Len(a) \in 1 .. Len(s) - i /\ i + (k - Len(a)) = k + 1
      BY <2>2, <1>1, <1>2
    <3> QED BY <2>2, <1>2, <1>4, <3>1
  <2> QED BY <2>1, <2>2
<1> QED BY <1>1, <1>2, <1>3, <1>4, <1>5

\* What InsertAt returns: the entries from i on move back by one.
LEMMA InsertAtLemma ==
    ASSUME NEW S, NEW s \in Seq(S), NEW i \in 1 .. Len(s) + 1, NEW e \in S
    PROVE  /\ InsertAt(s, i, e) \in Seq(S) /\ Len(InsertAt(s, i, e)) = Len(s) + 1
           /\ \A k \in 1 .. Len(s) + 1 :
                 InsertAt(s, i, e)[k] =
                    IF k < i THEN s[k] ELSE IF k = i THEN e ELSE s[k - 1]
<1>a. PICK a : a = SubSeq(s, 1, i - 1)
  OBVIOUS
<1>b. PICK b : b = SubSeq(s, i, Len(s))
  OBVIOUS
<1>c. PICK c : c = a \o <<e>>
  OBVIOUS
<1>1. a \in Seq(S) /\ Len(a) = i - 1 /\ \A k \in 1 .. i - 1 : a[k] = s[k]
  BY <1>a, SubSeqLemma
<1>2. /\ b \in Seq(S) /\ Len(b) = Len(s) - i + 1
      /\ \A k \in 1 .. Len(s) - i + 1 : b[k] = s[i + k - 1]
  BY <1>b, SubSeqLemma
<1>3. InsertAt(s, i, e) = c \o b
  BY <1>a, <1>b, <1>c DEF InsertAt
<1>4. c \in Seq(S) /\ Len(c) = i /\ \A k \in 1 .. i : c[k] = IF k < i THEN s[k] ELSE e
  <2>1. <<e>> \in Seq(S) /\ Len(<<e>>) = 1 /\ <<e>>[1] = e
    OBVIOUS
  <2>2. /\ c \in Seq(S) /\ Len(c) = Len(a) + 1
        /\ \A k \in 1 .. Len(a) + 1 : c[k] = IF k <= Len(a) THEN a[k] ELSE <<e>>[k - Len(a)]
    BY <1>c, <1>1, <2>1, ConcatLemma
  <2> QED BY <1>1, <2>1, <2>2
<1>5. /\ c \o b \in Seq(S) /\ Len(c \o b) = Len(c) + Len(b)
      /\ \A k \in 1 .. Len(c) + Len(b) :
            (c \o b)[k] = IF k <= Len(c) THEN c[k] ELSE b[k - Len(c)]
  BY <1>4, <1>2, ConcatLemma
<1>6. ASSUME NEW k \in 1 .. Len(s) + 1
      PROVE  (c \o b)[k] = IF k < i THEN s[k] ELSE IF k = i THEN e ELSE s[k - 1]
  <2>1. CASE k <= i
    BY <2>1, <1>4, <1>2, <1>5
  <2>2. CASE ~ (k <= i)
    BY <2>2, <1>4, <1>2, <1>5
  <2> QED BY <2>1, <2>2
<1> QED BY <1>2, <1>3, <1>4, <1>5, <1>6

\* SetKeyAt changes the key of one entry.
LEMMA SetKeyLemma ==
    ASSUME NEW a \in Seq(Entry), NEW i \in 1 .. Len(a), NEW key \in Int
    PROVE  /\ SetKeyAt(a, i, key) \in Seq(Entry) /\ Len(SetKeyAt(a, i, key)) = Len(a)
           /\ \A k \in 1 .. Len(a) :
                 SetKeyAt(a, i, key)[k] = IF k = i THEN <<key, a[i][2]>> ELSE a[k]
<1>1. a[i] \in Entry
  OBVIOUS
<1>2. <<key, a[i][2]>> \in Entry
  BY <1>1 DEF Entry
<1> QED BY <1>2 DEF SetKeyAt, ReplaceAt

-----------------------------------------------------------------------------
(* Induction, and the recursive functions it makes well-defined.           *)

\* Induction over the natural numbers, for a set in place of a predicate.
LEMMA NatSetInduction ==
    ASSUME NEW S, 0 \in S, \A n \in Nat : n \in S => n + 1 \in S
    PROVE  \A n \in Nat : n \in S
<1> DEFINE R == OpToRel(<, Nat)
           U == Nat \ S
<1>1. IsWellFoundedOn(R, Nat)
  BY NatLessThanWellFounded
<1>2. SUFFICES ASSUME U # {} PROVE FALSE
  OBVIOUS
<1>3. PICK x \in U : \A y \in U : ~(<<y, x>> \in R)
  <2>1. U \subseteq Nat
    OBVIOUS
  <2> HIDE DEF R, U
  <2> QED BY <1>1, <1>2, <2>1, WFMin
<1> HIDE DEF R
<1>a. x \in Nat /\ x \notin S
  BY <1>3
<1>4. x # 0 /\ x - 1 \in Nat
  BY <1>a
<1>5. x - 1 \notin U
  <2>1. <<x - 1, x>> \in R
    BY <1>a, <1>4 DEF R, OpToRel
  <2> QED BY <1>3, <2>1
<1>6. x - 1 \in S
  BY <1>4, <1>5
<1> QED BY <1>a, <1>4, <1>6

\* FindLeafPage is the value at the root of the function that leads from a
\* page to the leaf below it, once there is such a function.
LEMMA BelowLemma ==
    ASSUME NEW t, NEW key,
           \E g : g = [p \in DOMAIN t.nodes |->
                         IF t.nodes[p].leaf THEN p ELSE g[Lookup(t.nodes[p].array, key)]]
    PROVE  \E g : /\ g = [p \in DOMAIN t.nodes |->
                         IF t.nodes[p].leaf THEN p ELSE g[Lookup(t.nodes[p].array, key)]]
                  /\ FindLeafPage(t, key) = g[t.root]
  BY Zenon DEF FindLeafPage

\* Pinning a page that is not pinned.
LEMMA PinAdd ==
    ASSUME NEW A, NEW p, p \notin A
    PROVE  SetToBag(A) (+) SetToBag({p}) = SetToBag(A \cup {p})
  BY DEF SetToBag, (+)

\* Unpinning pages that are pinned once.
LEMMA PinSub ==
    ASSUME NEW A, NEW B
    PROVE  SetToBag(A) (-) SetToBag(B) = SetToBag(A \ B)
  BY DEF SetToBag, (-)

\* Unpinning what was pinned before leaves what was pinned since.
LEMMA PinAddSub ==
    ASSUME NEW A, NEW B
    PROVE  (SetToBag(A) (+) SetToBag(B)) (-) SetToBag(A) = SetToBag(B)
  BY DEF SetToBag, (+), (-)

-----------------------------------------------------------------------------
(* What a shape says of an entry and of a child.                           *)

\* What Shape says about the fields of a page.
LEMMA EntryFacts ==
    ASSUME NEW D, NEW arr, NEW par, NEW root, NEW part, NEW level, NEW d,
           Shape(D, arr, par, root, part, level, d), NEW p \in D
    PROVE  /\ Len(arr[p]) \in Nat /\ arr[p] \in Seq(Entry) /\ part[p] \subseteq Keys
           /\ part[p] \subseteq Int /\ level[p] \in Nat /\ par[p] \in Int
           /\ p \in Nat /\ p # 0 /\ part[p] # {}
           /\ \A i \in 1 .. Len(arr[p]) : arr[p][i] \in Entry /\ arr[p][i][1] \in Int
<1>1. Keys \subseteq Int
  BY TreeAssumption
<1>2. /\ arr[p] \in Seq(Entry) /\ part[p] \subseteq Keys /\ level[p] \in Nat
      /\ par[p] \in Int /\ p \in Nat /\ p # 0
  BY DEF Shape, Types
<1>3. part[p] # {}
  BY DEF Shape, PartsOK
<1>4. Len(arr[p]) \in Nat /\ \A i \in 1 .. Len(arr[p]) : arr[p][i] \in Entry
  BY <1>2
<1>5. \A e \in Entry : e[1] \in Int
  BY DEF Entry
<1> QED BY <1>1, <1>2, <1>3, <1>4, <1>5

\* What Shape says about the children of an inner page.
LEMMA ChildFacts ==
    ASSUME NEW D, NEW arr, NEW par, NEW root, NEW part, NEW level, NEW d,
           Shape(D, arr, par, root, part, level, d), NEW p \in D, level[p] > 0
    PROVE  /\ Len(arr[p]) > 0
           /\ \A i \in 1 .. Len(arr[p]) : ChildOK(D, arr, par, part, level, p, i)
  BY DEF Shape, InnerOK, Leads

\* Two entries of an inner page lead to two children.
LEMMA DistinctChildren ==
    ASSUME NEW D, NEW arr, NEW par, NEW root, NEW part, NEW level, NEW d,
           Shape(D, arr, par, root, part, level, d), NEW p \in D, level[p] > 0,
           NEW i \in 1 .. Len(arr[p]), NEW j \in 1 .. Len(arr[p]), i # j
    PROVE  arr[p][i][2] # arr[p][j][2]
<1>1. SUFFICES ASSUME NEW x \in 1 .. Len(arr[p]), NEW y \in 1 .. Len(arr[p]), x < y,
                      arr[p][x][2] = arr[p][y][2]
               PROVE  FALSE
  <2>1. Len(arr[p]) \in Nat
    BY EntryFacts
  <2>2. i < j \/ j < i
    BY <2>1
  <2> QED BY <2>2, <1>1
<1>2. /\ Len(arr[p]) \in Nat /\ \A n \in 1 .. Len(arr[p]) : arr[p][n][1] \in Int
  BY EntryFacts
<1>3. ChildOK(D, arr, par, part, level, p, x) /\ ChildOK(D, arr, par, part, level, p, y)
  BY ChildFacts
<1>4. arr[p][x][2] \in D
  BY <1>3 DEF ChildOK
<1>5. PICK k \in part[arr[p][x][2]] : k \in Keys /\ k \in Int
  BY <1>4, EntryFacts, SMTT(30)
<1>6. Between(arr[p], x, k) /\ Between(arr[p], y, k)
  BY <1>1, <1>3, <1>5 DEF ChildOK
<1>7. k < arr[p][x + 1][1] /\ arr[p][y][1] <= k
  BY <1>1, <1>2, <1>6 DEF Between
<1>a. x + 1 \in 1 .. Len(arr[p]) /\ x + 1 > 1 /\ (x + 1 = y \/ x + 1 < y)
  BY <1>1, <1>2
<1>8. x + 1 = y \/ arr[p][x + 1][1] < arr[p][y][1]
  <2>1. InOrder(arr[p], level[p])
    BY DEF Shape, PartsOK
  <2> QED BY <1>a, <2>1 DEF InOrder
<1> QED BY <1>a, <1>2, <1>5, <1>7, <1>8

-----------------------------------------------------------------------------
(* A split: page p, entry j of its parent f, keeps its first m entries and *)
(* the others go to the new page q, entry j + 1 of f.                      *)

\* The key of a page's first entry matters in a leaf only.
SameEntry(e1, e2, keyed) == e1[2] = e2[2] /\ (keyed => e1[1] = e2[1])

\* b is the first m entries of a, the array of a page of level l, c the others.
CutInto(a, b, c, m, l) ==
    /\ Len(b) = m /\ \A i \in 1 .. m : b[i] = a[i]
    /\ Len(c) = Len(a) - m
    /\ \A i \in 1 .. Len(a) - m : SameEntry(c[i], a[m + i], i > 1 \/ l = 0)

\* b has one more entry, <<key, q>>, behind entry j of a.
InsertedAfter(a, b, j, key, q) ==
    /\ Len(b) = Len(a) + 1
    /\ \A i \in 1 .. Len(a) : i <= j => b[i] = a[i]
    /\ b[j + 1][1] = key /\ b[j + 1][2] = q
    /\ \A i \in 1 .. Len(a) + 1 : i > j + 1 => b[i] = a[i - 1]

\* key comes behind entry j of a.
FitsBehind(a, j, key) ==
    /\ key \in Int
    /\ j > 1 => a[j][1] < key
    /\ j < Len(a) => key < a[j + 1][1]

Halved(D, arr, par, level, p, q, f, j, m, arr2, par2) ==
    /\ arr2 \in [D \cup {q} -> Seq(Entry)] /\ par2 \in [D \cup {q} -> Int]
    /\ CutInto(arr[p], arr2[p], arr2[q], m, level[p])
    /\ InsertedAfter(arr[f], arr2[f], j, arr[p][m + 1][1], q)
    /\ \A x \in D : x # p /\ x # f => arr2[x] = arr[x]
    /\ par2[q] = f
    /\ \A x \in D : par2[x] = IF level[p] > 0 /\ \E i \in m + 1 .. Len(arr[p]) : arr[p][i][2] = x
                              THEN q ELSE par[x]

KeysBelow(P, key) == {k \in P : k < key}
KeysFrom(P, key) == {k \in P : k >= key}

SplitPart(D, part, p, q, key) ==
    [x \in D \cup {q} |-> IF x = p THEN KeysBelow(part[p], key)
                          ELSE IF x = q THEN KeysFrom(part[p], key)
                          ELSE part[x]]

SplitLevel(D, level, p, q) == [x \in D \cup {q} |-> IF x = q THEN level[p] ELSE level[x]]

\* The new page's first key is one of p's, and not the smallest.
LEMMA SplitKey ==
    ASSUME NEW D, NEW arr, NEW par, NEW root, NEW part, NEW level, NEW d,
           Shape(D, arr, par, root, part, level, d), NEW p \in D,
           NEW m \in Nat, 0 < m, m < Len(arr[p])
    PROVE  /\ arr[p][m + 1][1] \in part[p]
           /\ \E k \in part[p] : k < arr[p][m + 1][1]
<1>1. Len(arr[p]) \in Nat /\ level[p] \in Nat
  BY EntryFacts
<1>2. m + 1 \in 1 .. Len(arr[p]) /\ m \in 1 .. Len(arr[p]) /\ 1 \in 1 .. Len(arr[p]) /\ 1 < m + 1
  BY <1>1
<1>3. CASE level[p] = 0
  <2>1. LeafHolds(arr[p], part[p], d) /\ InOrder(arr[p], level[p])
    BY <1>3 DEF Shape, LeavesOK, PartsOK
  <2>2. arr[p][m + 1][1] \in part[p] /\ arr[p][1][1] \in part[p]
    BY <1>2, <2>1 DEF LeafHolds
  <2>3. arr[p][1][1] < arr[p][m + 1][1]
    BY <1>2, <1>3, <2>1 DEF InOrder
  <2> QED BY <2>2, <2>3
<1>4. CASE level[p] > 0
  <2>1. ChildOK(D, arr, par, part, level, p, m) /\ ChildOK(D, arr, par, part, level, p, m + 1)
    BY <1>2, <1>4, ChildFacts
  <2>2. arr[p][m + 1][1] \in part[p]
    BY <1>2, <2>1 DEF ChildOK
  <2>3. arr[p][m][2] \in D
    BY <2>1 DEF ChildOK
  <2>4. PICK k \in part[arr[p][m][2]] : k \in Keys
    BY <2>3, EntryFacts
  <2>5. k \in part[p] /\ Between(arr[p], m, k)
    BY <2>1, <2>4 DEF ChildOK
  <2>6. k < arr[p][m + 1][1]
    BY <2>5 DEF Between
  <2> QED BY <2>2, <2>5, <2>6
<1> QED BY <1>1, <1>3, <1>4

\* Keys of entries are integers.
LEMMA KeysAreInts ==
    ASSUME NEW a \in Seq(Entry)
    PROVE  Len(a) \in Nat /\ \A i \in 1 .. Len(a) : a[i][1] \in Int
<1>1. \A i \in 1 .. Len(a) : a[i] \in Entry
  OBVIOUS
<1>2. \A e \in Entry : e[1] \in Int
  BY DEF Entry
<1> QED BY <1>1, <1>2

\* A stretch of an array in order is in order.
LEMMA SubOrder ==
    ASSUME NEW a \in Seq(Entry), NEW b \in Seq(Entry), NEW n \in Nat, NEW l \in Nat,
           Len(b) + n <= Len(a), InOrder(a, l),
           \A i \in 1 .. Len(b) : SameEntry(b[i], a[n + i], i > 1 \/ l = 0)
    PROVE  InOrder(b, l)
<1> SUFFICES ASSUME NEW x \in 1 .. Len(b), NEW y \in 1 .. Len(b), x < y, l = 0 \/ x > 1
             PROVE  b[x][1] < b[y][1]
  BY DEF InOrder
<1>1. Len(a) \in Nat /\ Len(b) \in Nat
  OBVIOUS
<1>2. n + x \in 1 .. Len(a) /\ n + y \in 1 .. Len(a) /\ n + x < n + y /\ (l = 0 \/ n + x > 1)
  BY <1>1
<1>3. a[n + x][1] < a[n + y][1]
  BY <1>2 DEF InOrder
<1>4. b[x][1] = a[n + x][1] /\ b[y][1] = a[n + y][1]
  BY <1>1 DEF SameEntry
<1> QED BY <1>3, <1>4

\* One more entry behind entry j of an inner page.
LEMMA InsertOrder ==
    ASSUME NEW a \in Seq(Entry), NEW b \in Seq(Entry), NEW l \in Nat, l > 0,
           NEW j \in 1 .. Len(a), NEW key, NEW q, InOrder(a, l),
           InsertedAfter(a, b, j, key, q), FitsBehind(a, j, key)
    PROVE  InOrder(b, l)
<1> USE DEF InsertedAfter, FitsBehind
<1> SUFFICES ASSUME NEW x \in 1 .. Len(b), NEW y \in 1 .. Len(b), x < y, x > 1
             PROVE  b[x][1] < b[y][1]
  BY DEF InOrder
<1>1. Len(a) \in Nat /\ Len(b) \in Nat
  OBVIOUS
<1>2. \A i \in 1 .. Len(a) : a[i][1] \in Int
  BY KeysAreInts
<1>3. ASSUME NEW v \in 1 .. Len(a), NEW w \in 1 .. Len(a), v < w, v > 1
      PROVE  a[v][1] < a[w][1]
  BY <1>3 DEF InOrder
<1>4. CASE y <= j
  BY <1>1, <1>3, <1>4, SMTT(30)
<1>5. CASE y = j + 1
  <2>1. x \in 1 .. Len(a) /\ x <= j /\ b[x] = a[x] /\ j > 1
    BY <1>1, <1>5
  <2>2. x = j \/ a[x][1] < a[j][1]
    BY <1>1, <1>3, <2>1
  <2> QED BY <1>2, <1>5, <2>1, <2>2
<1>6. CASE y > j + 1
  <2>1. y - 1 \in 1 .. Len(a) /\ y - 1 > j /\ b[y] = a[y - 1] /\ j + 1 \in 1 .. Len(a) /\ j < Len(a)
    BY <1>1, <1>6
  <2>2. j + 1 = y - 1 \/ a[j + 1][1] < a[y - 1][1]
    BY <1>1, <1>3, <2>1
  <2>3. key < a[y - 1][1]
    BY <1>2, <2>1, <2>2, SMTT(30)
  <2>4. CASE x <= j
    <3>1. x \in 1 .. Len(a) /\ x < y - 1 /\ b[x] = a[x]
      BY <1>1, <2>1, <2>4
    <3> QED BY <1>3, <2>1, <3>1
  <2>5. CASE x = j + 1
    BY <2>1, <2>3, <2>5
  <2>6. CASE x > j + 1
    <3>1. x - 1 \in 1 .. Len(a) /\ x - 1 > j /\ b[x] = a[x - 1] /\ x - 1 < y - 1 /\ x - 1 > 1
      BY <1>1, <2>6, <1>6
    <3> QED BY <1>3, <2>1, <3>1
  <2> QED BY <2>4, <2>5, <2>6
<1> QED BY <1>1, <1>4, <1>5, <1>6

\* A part without gaps, cut at a key, leaves two parts without gaps.
LEMMA ConvexCut ==
    ASSUME NEW P \in SUBSET Keys, Convex(P), NEW key \in Int
    PROVE  Convex(KeysBelow(P, key)) /\ Convex(KeysFrom(P, key))
<1>1. Keys \subseteq Int
  BY TreeAssumption
<1>2. ASSUME NEW i \in P, NEW j \in P, NEW k \in Keys, i < k, k < j
      PROVE  k \in P
  BY <1>2 DEF Convex
<1>3. Convex(KeysBelow(P, key))
  <2> SUFFICES ASSUME NEW i \in P, i < key, NEW j \in P, j < key, NEW k \in Keys, i < k, k < j
               PROVE  k \in P /\ k < key
    BY DEF Convex, KeysBelow, KeysFrom
  <2> QED BY <1>1, <1>2
<1>4. Convex(KeysFrom(P, key))
  <2> SUFFICES ASSUME NEW i \in P, i >= key, NEW j \in P, j >= key, NEW k \in Keys, i < k, k < j
               PROVE  k \in P /\ k >= key
    BY DEF Convex, KeysBelow, KeysFrom
  <2> QED BY <1>1, <1>2
<1> QED BY <1>3, <1>4


\* The ways down through a and through its two pieces.
LEMMA BetweenCut ==
    ASSUME NEW a \in Seq(Entry), NEW b \in Seq(Entry), NEW c \in Seq(Entry),
           NEW m \in Nat, 0 < m, m < Len(a), NEW l \in Nat, l > 0, InOrder(a, l),
           CutInto(a, b, c, m, l), NEW k \in Int
    PROVE  /\ \A i \in 1 .. m : Between(a, i, k) <=> Between(b, i, k) /\ k < a[m + 1][1]
           /\ \A i \in 1 .. Len(a) - m :
                 Between(a, m + i, k) <=> Between(c, i, k) /\ k >= a[m + 1][1]
<1> /\ Len(b) = m /\ \A i \in 1 .. m : b[i] = a[i]
    /\ Len(c) = Len(a) - m
    /\ \A i \in 1 .. Len(a) - m : SameEntry(c[i], a[m + i], i > 1)
  BY DEF CutInto, SameEntry
<1>1. /\ Len(a) \in Nat /\ Len(b) \in Nat /\ Len(c) \in Nat
      /\ \A i \in 1 .. Len(a) : a[i][1] \in Int
  BY KeysAreInts
<1>2. ASSUME NEW v \in 1 .. Len(a), NEW w \in 1 .. Len(a), v < w, v > 1
      PROVE  a[v][1] < a[w][1]
  BY <1>2 DEF InOrder
<1>3. m + 1 \in 1 .. Len(a) /\ m + 1 > 1
  BY <1>1
<1>4. ASSUME NEW i \in 1 .. m
      PROVE  Between(a, i, k) <=> Between(b, i, k) /\ k < a[m + 1][1]
  <2>1. i \in 1 .. Len(a) /\ i < Len(a) /\ i + 1 \in 1 .. Len(a) /\ b[i] = a[i]
    BY <1>1
  <2>2. CASE i = m
    BY <1>1, <1>3, <2>1, <2>2 DEF Between
  <2>3. CASE i < m
    <3>1. i + 1 \in 1 .. m /\ i + 1 > 1 /\ i + 1 < m + 1
      BY <2>3
    <3>2. a[i + 1][1] < a[m + 1][1] /\ b[i + 1] = a[i + 1]
      BY <1>2, <1>3, <2>1, <3>1
    <3> QED BY <1>1, <1>3, <2>1, <2>3, <3>2 DEF Between
  <2> QED BY <2>2, <2>3
<1>5. ASSUME NEW i \in 1 .. Len(a) - m
      PROVE  Between(a, m + i, k) <=> Between(c, i, k) /\ k >= a[m + 1][1]
  <2>1. m + i \in 1 .. Len(a) /\ m + i > 1 /\ (i > 1 => c[i][1] = a[m + i][1])
    BY <1>1 DEF SameEntry
  <2>2. /\ m + i < Len(a) <=> i < Len(c)
        /\ m + i < Len(a) => (m + i) + 1 \in 1 .. Len(a) /\ c[i + 1][1] = a[(m + i) + 1][1]
    <3>1. ASSUME m + i < Len(a) PROVE c[i + 1][1] = a[(m + i) + 1][1]
      <4>1. i + 1 \in 1 .. Len(a) - m /\ i + 1 > 1 /\ m + (i + 1) = (m + i) + 1
        BY <1>1, <3>1
      <4>2. SameEntry(c[i + 1], a[m + (i + 1)], i + 1 > 1)
        BY <4>1
      <4> QED BY <4>1, <4>2 DEF SameEntry
    <3> QED BY <1>1, <3>1
  <2>3. i = 1 \/ a[m + 1][1] < a[m + i][1]
    BY <1>1, <1>2, <1>3, <2>1
  <2>4. Between(a, m + i, k) <=> /\ a[m + i][1] <= k
                                 /\ m + i < Len(a) => k < a[(m + i) + 1][1]
    BY ONLY <2>1 DEF Between
  <2>5. Between(c, i, k) <=> /\ i > 1 => a[m + i][1] <= k
                             /\ m + i < Len(a) => k < a[(m + i) + 1][1]
    BY ONLY <2>1, <2>2 DEF Between
  <2>6. a[m + i][1] \in Int /\ a[m + 1][1] \in Int /\ m \in Nat /\ i \in Nat /\ k \in Int /\ i >= 1
    BY <1>1, <1>3, <2>1
  <2>7. CASE i = 1
    BY ONLY <2>4, <2>5, <2>6, <2>7
  <2>8. CASE i > 1
    <3>1. a[m + 1][1] < a[m + i][1]
      BY ONLY <2>3, <2>8
    <3>2. a[m + i][1] <= k => k >= a[m + 1][1]
      BY ONLY <2>6, <3>1
    <3> QED BY ONLY <2>4, <2>5, <2>8, <3>2
  <2> QED BY ONLY <2>6, <2>7, <2>8
<1> QED BY <1>4, <1>5

\* The ways down from a parent before and after an entry is put behind entry j.
LEMMA BetweenInsert ==
    ASSUME NEW a \in Seq(Entry), NEW b \in Seq(Entry), NEW j \in 1 .. Len(a),
           NEW key, NEW q, InsertedAfter(a, b, j, key, q), FitsBehind(a, j, key), NEW k \in Int
    PROVE  /\ \A i \in 1 .. Len(a) : i < j => (Between(b, i, k) <=> Between(a, i, k))
           /\ Between(b, j, k) <=> Between(a, j, k) /\ k < key
           /\ Between(b, j + 1, k) <=> Between(a, j, k) /\ k >= key
           /\ \A i \in 1 .. Len(a) : i > j => (Between(b, i + 1, k) <=> Between(a, i, k))
<1> USE DEF InsertedAfter, FitsBehind
<1>1. /\ Len(a) \in Nat /\ Len(b) \in Nat
      /\ \A i \in 1 .. Len(a) : a[i][1] \in Int
  BY KeysAreInts
<1>2. ASSUME NEW i \in 1 .. Len(a), i > j
      PROVE  b[i + 1] = a[i]
  <2>1. i + 1 \in 1 .. Len(a) + 1 /\ i + 1 > j + 1 /\ (i + 1) - 1 = i
    BY <1>1, <1>2
  <2> QED BY <2>1
<1>3. ASSUME NEW i \in 1 .. Len(a), i < j
      PROVE  Between(b, i, k) <=> Between(a, i, k)
  BY <1>1, <1>3, SMTT(30) DEF Between
<1>4. Between(b, j, k) <=> Between(a, j, k) /\ k < key
  <2>1. CASE j < Len(a)
    BY <1>1, <2>1 DEF Between
  <2>2. CASE j = Len(a)
    BY <1>1, <2>2 DEF Between
  <2> QED BY <1>1, <2>1, <2>2
<1>5. Between(b, j + 1, k) <=> Between(a, j, k) /\ k >= key
  <2>1. CASE j < Len(a)
    <3>1. j + 1 \in 1 .. Len(a) /\ b[(j + 1) + 1] = a[j + 1]
      BY <1>1, <1>2, <2>1
    <3> QED BY <1>1, <2>1, <3>1 DEF Between
  <2>2. CASE j = Len(a)
    BY <1>1, <2>2 DEF Between
  <2> QED BY <1>1, <2>1, <2>2
<1>6. ASSUME NEW i \in 1 .. Len(a), i > j
      PROVE  Between(b, i + 1, k) <=> Between(a, i, k)
  <2>1. i < Len(a) => i + 1 \in 1 .. Len(a) /\ b[(i + 1) + 1] = a[i + 1]
    BY <1>1, <1>2, <1>6
  <2> QED BY <1>1, <1>2, <1>6, <2>1, SMTT(30) DEF Between
<1> QED BY <1>3, <1>4, <1>5, <1>6

\* The halves of a leaf hold the entries of the halves of its part.
LEMMA LeafCut ==
    ASSUME NEW a \in Seq(Entry), NEW b \in Seq(Entry), NEW c \in Seq(Entry),
           NEW m \in Nat, 0 < m, m < Len(a), InOrder(a, 0), NEW P \in SUBSET Keys, NEW d,
           CutInto(a, b, c, m, 0), LeafHolds(a, P, d)
    PROVE  /\ LeafHolds(b, KeysBelow(P, a[m + 1][1]), d)
           /\ LeafHolds(c, KeysFrom(P, a[m + 1][1]), d)
<1> /\ Len(b) = m /\ \A i \in 1 .. m : b[i] = a[i]
    /\ Len(c) = Len(a) - m
    /\ \A i \in 1 .. Len(a) - m : c[i][1] = a[m + i][1] /\ c[i][2] = a[m + i][2]
  BY DEF CutInto, SameEntry
<1> USE DEF KeysBelow, KeysFrom
<1>1. /\ Len(a) \in Nat /\ Len(b) \in Nat /\ Len(c) \in Nat
      /\ \A i \in 1 .. Len(a) : a[i][1] \in Int
  BY KeysAreInts
<1>2. ASSUME NEW v \in 1 .. Len(a), NEW w \in 1 .. Len(a), v < w
      PROVE  a[v][1] < a[w][1]
  BY <1>2 DEF InOrder
<1>3. m + 1 \in 1 .. Len(a)
  BY <1>1
<1>4. ASSUME NEW i \in 1 .. Len(a)
      PROVE  a[i][1] \in P /\ a[i][1] \in DOMAIN d /\ a[i][2] = d[a[i][1]]
  BY DEF LeafHolds
<1>5. ASSUME NEW k \in P, k \in DOMAIN d
      PROVE  \E i \in 1 .. Len(a) : a[i][1] = k
  BY <1>5 DEF LeafHolds
<1>6. LeafHolds(b, KeysBelow(P, a[m + 1][1]), d)
  <2>1. ASSUME NEW i \in 1 .. Len(b)
        PROVE  b[i] = a[i] /\ i \in 1 .. Len(a) /\ a[i][1] < a[m + 1][1]
    <3>1. i \in 1 .. m /\ i \in 1 .. Len(a) /\ i < m + 1
      BY <1>1
    <3> QED BY <1>2, <1>3, <3>1
  <2>2. ASSUME NEW k \in P, k < a[m + 1][1], k \in DOMAIN d
        PROVE  \E i \in 1 .. Len(b) : b[i][1] = k
    <3>1. PICK i \in 1 .. Len(a) : a[i][1] = k
      BY <1>5, <2>2
    <3>2. i <= m
      <4>1. SUFFICES ASSUME i > m PROVE FALSE
        BY <1>1
      <4>2. i = m + 1 \/ a[m + 1][1] < a[i][1]
        BY <1>1, <1>2, <1>3, <4>1
      <4> QED BY <1>1, <1>3, <2>2, <3>1, <4>2
    <3> QED BY <1>1, <3>1, <3>2
  <2> QED BY <1>4, <2>1, <2>2 DEF LeafHolds
<1>7. LeafHolds(c, KeysFrom(P, a[m + 1][1]), d)
  <2>1. ASSUME NEW i \in 1 .. Len(c)
        PROVE  /\ m + i \in 1 .. Len(a) /\ a[m + i][1] >= a[m + 1][1]
               /\ c[i][1] = a[m + i][1] /\ c[i][2] = a[m + i][2]
    <3>1. m + i \in 1 .. Len(a) /\ (i = 1 \/ m + 1 < m + i) /\ i \in 1 .. Len(a) - m
      BY <1>1
    <3>a. c[i][1] = a[m + i][1] /\ c[i][2] = a[m + i][2]
      BY <3>1 DEF SameEntry
    <3>2. i = 1 \/ a[m + 1][1] < a[m + i][1]
      BY <1>2, <1>3, <3>1
    <3> QED BY <1>1, <1>3, <3>1, <3>2, <3>a, SMTT(30)
  <2>2. ASSUME NEW k \in P, k >= a[m + 1][1], k \in DOMAIN d
        PROVE  \E i \in 1 .. Len(c) : c[i][1] = k
    <3>1. PICK i \in 1 .. Len(a) : a[i][1] = k
      BY <1>5, <2>2
    <3>2. i > m
      <4>1. SUFFICES ASSUME i <= m PROVE FALSE
        BY <1>1
      <4>2. a[i][1] < a[m + 1][1]
        BY <1>1, <1>2, <1>3, <4>1
      <4> QED BY <1>1, <1>3, <2>2, <3>1, <4>2
    <3>3. i - m \in 1 .. Len(c) /\ m + (i - m) = i
      BY <1>1, <3>2
    <3>4. c[i - m][1] = a[m + (i - m)][1]
      BY <2>1, <3>3
    <3> QED BY <3>1, <3>3, <3>4
  <2>3. ASSUME NEW i \in 1 .. Len(c)
        PROVE  /\ c[i][1] \in KeysFrom(P, a[m + 1][1])
               /\ c[i][1] \in DOMAIN d /\ c[i][2] = d[c[i][1]]
    BY <1>4, <2>1
  <2> QED BY <2>2, <2>3 DEF LeafHolds
<1> QED BY <1>6, <1>7

\* Split with InsertIntoParent: when page p is halved, q gets the other half
\* and the parent an entry for q, the tree keeps its shape with the part of p
\* cut at the key that went up.
LEMMA SplitShape ==
    ASSUME NEW D, NEW arr, NEW par, NEW root, NEW part, NEW level, NEW d,
           Shape(D, arr, par, root, part, level, d),
           NEW p \in D, NEW f \in D, level[f] > 0,
           NEW j \in 1 .. Len(arr[f]), arr[f][j][2] = p,
           NEW q \in Nat, q # 0, q \notin D,
           NEW m \in Nat, 0 < m, m < Len(arr[p]),
           NEW arr2, NEW par2, Halved(D, arr, par, level, p, q, f, j, m, arr2, par2),
           NEW part2, part2 = SplitPart(D, part, p, q, arr[p][m + 1][1]),
           NEW level2, level2 = SplitLevel(D, level, p, q)
    PROVE  Shape(D \cup {q}, arr2, par2, root, part2, level2, d)
<1> DEFINE key == arr[p][m + 1][1]
<1>1. /\ Len(arr[p]) \in Nat /\ Len(arr[f]) \in Nat /\ level[p] \in Nat /\ level[f] \in Nat
      /\ part[p] \subseteq Int /\ part[p] \subseteq Keys /\ m + 1 \in 1 .. Len(arr[p])
  BY EntryFacts
<1>2. key \in part[p] /\ key \in Int /\ key \in Keys /\ \E k \in part[p] : k < key
  BY <1>1, SplitKey
<1>3. ChildOK(D, arr, par, part, level, f, j)
  BY ChildFacts
<1>4. par[p] = f /\ level[p] + 1 = level[f] /\ p # f /\ p # q /\ f # q
  BY <1>1, <1>3 DEF ChildOK
<1>5. root \in D /\ root # p /\ root # q /\ part[root] = Keys /\ par[root] = -1
  <2>1. root \in D /\ par[root] = INVALID_PAGE_ID /\ part[root] = Keys
    BY DEF Shape, Rooted
  <2>2. f \in Nat
    BY EntryFacts
  <2> QED BY <1>4, <2>1, <2>2 DEF INVALID_PAGE_ID
<1>6. /\ part2 \in [D \cup {q} -> SUBSET Keys]
      /\ part2[p] = KeysBelow(part[p], key) /\ part2[q] = KeysFrom(part[p], key)
      /\ \A x \in D : x # p => part2[x] = part[x]
  <2>1. part \in [D -> SUBSET Keys]
    BY DEF Shape, Types
  <2> QED BY <1>4, <2>1 DEF SplitPart, KeysBelow, KeysFrom
<1>7. /\ level2 \in [D \cup {q} -> Nat] /\ level2[q] = level[p]
      /\ \A x \in D : level2[x] = level[x]
  <2>1. level \in [D -> Nat]
    BY DEF Shape, Types
  <2> QED BY <1>4, <2>1 DEF SplitLevel
<1> HIDE DEF key
\* The pieces of Halved, one by one.
<1>i. CutInto(arr[p], arr2[p], arr2[q], m, level[p]) /\ InsertedAfter(arr[f], arr2[f], j, key, q)
  BY DEF Halved, key
<1>a. /\ Len(arr2[p]) = m /\ \A i \in 1 .. m : arr2[p][i] = arr[p][i]
      /\ Len(arr2[q]) = Len(arr[p]) - m
      /\ \A i \in 1 .. Len(arr[p]) - m :
            SameEntry(arr2[q][i], arr[p][m + i], i > 1 \/ level[p] = 0)
  BY <1>i DEF CutInto
<1>b. /\ Len(arr2[f]) = Len(arr[f]) + 1
      /\ \A i \in 1 .. Len(arr[f]) : i <= j => arr2[f][i] = arr[f][i]
      /\ arr2[f][j + 1][1] = key /\ arr2[f][j + 1][2] = q
      /\ \A i \in 1 .. Len(arr[f]) + 1 : i > j + 1 => arr2[f][i] = arr[f][i - 1]
  BY <1>i DEF InsertedAfter
<1>c. \A x \in D : x # p /\ x # f => arr2[x] = arr[x]
  BY DEF Halved
<1>d. /\ par2[q] = f
      /\ \A x \in D : par2[x] = IF level[p] > 0 /\ \E i \in m + 1 .. Len(arr[p]) : arr[p][i][2] = x
                              THEN q ELSE par[x]
  BY DEF Halved
<1>e. \A x \in D : par[x] # p => par2[x] = par[x]
  <2>1. SUFFICES ASSUME NEW x \in D, par[x] # p, level[p] > 0, NEW i \in m + 1 .. Len(arr[p]),
                        arr[p][i][2] = x
                 PROVE  FALSE
    BY <1>d
  <2>2. i \in 1 .. Len(arr[p])
    BY <1>1
  <2>3. ChildOK(D, arr, par, part, level, p, i)
    BY <2>1, <2>2, ChildFacts
  <2> QED BY <2>1, <2>3 DEF ChildOK
<1>g. FitsBehind(arr[f], j, key)
  <2>1. PICK k \in part[p] : k < key
    BY <1>2
  <2>2. Between(arr[f], j, k) /\ Between(arr[f], j, key)
    BY <1>1, <1>2, <1>3 DEF ChildOK
  <2>3. arr[f][j][1] \in Int
    BY EntryFacts
  <2> QED BY <1>1, <1>2, <2>1, <2>2, <2>3, SMTT(30) DEF Between, FitsBehind
<1>h. /\ arr2[p] \in Seq(Entry) /\ arr2[q] \in Seq(Entry) /\ arr2[f] \in Seq(Entry)
      /\ arr[p] \in Seq(Entry) /\ arr[f] \in Seq(Entry)
  BY EntryFacts DEF Halved
<1>10. Types(D \cup {q}, arr2, par2, part2, level2)
  <2>1. IsFiniteSet(D) /\ D \subseteq Nat \ {0}
    BY DEF Shape, Types
  <2>2. IsFiniteSet(D \cup {q})
    BY <2>1, FS_AddElement
  <2> QED BY <1>6, <1>7, <2>1, <2>2, SMTT(60) DEF Types, Halved
<1>11. Rooted(D \cup {q}, par2, part2, level2, root)
  <2>1. \A x \in D : level[x] <= level[root]
    BY DEF Shape, Rooted
  <2>2. p \in Nat
    BY EntryFacts
  <2>3. par2[root] = INVALID_PAGE_ID
    <3>1. root \in D /\ par[root] = INVALID_PAGE_ID /\ INVALID_PAGE_ID # p
      BY ONLY <1>5, <2>2 DEF INVALID_PAGE_ID
    <3> QED BY ONLY <1>e, <3>1
  <2> QED BY <1>5, <1>6, <1>7, <2>1, <2>3 DEF Rooted
<1>12. PartsOK(D \cup {q}, arr2, part2, level2)
  <2>1. \A x \in D : part[x] # {} /\ Convex(part[x]) /\ InOrder(arr[x], level[x])
    BY DEF Shape, PartsOK
  <2>2. \A x \in D : x # p => part2[x] # {} /\ Convex(part2[x])
    BY <1>6, <2>1
  <2>3. part2[p] # {} /\ part2[q] # {}
    BY <1>1, <1>2, <1>6 DEF KeysBelow, KeysFrom
  <2>4. Convex(part2[p]) /\ Convex(part2[q])
    BY <1>1, <1>2, <1>6, <2>1, ConvexCut, SMTT(30)
  <2>5. InOrder(arr2[p], level2[p])
    <3>1. \A i \in 1 .. Len(arr2[p]) :
             SameEntry(arr2[p][i], arr[p][0 + i], i > 1 \/ level[p] = 0)
      BY <1>a DEF SameEntry
    <3>2. Len(arr2[p]) + 0 <= Len(arr[p])
      BY <1>1, <1>a
    <3> QED BY <1>1, <1>7, <1>h, <2>1, <3>1, <3>2, SubOrder
  <2>6. InOrder(arr2[q], level2[q])
    <3>1. Len(arr2[q]) + m <= Len(arr[p])
      BY <1>1, <1>a
    <3> QED BY <1>1, <1>7, <1>a, <1>h, <2>1, <3>1, SubOrder
  <2>7. InOrder(arr2[f], level2[f])
    <3>1. InOrder(arr[f], level[f]) /\ level2[f] = level[f]
      BY <1>7, <2>1
    <3>2. InOrder(arr2[f], level[f])
      BY <1>1, <1>i, <1>g, <1>h, <3>1, InsertOrder
    <3> QED BY <3>1, <3>2
  <2> QED BY <1>c, <1>7, <2>1, <2>2, <2>3, <2>4, <2>5, <2>6, <2>7 DEF PartsOK
<1>13. LeavesOK(D \cup {q}, arr2, part2, level2, d)
  <2>1. \A x \in D : level[x] = 0 => LeafHolds(arr[x], part[x], d)
    BY DEF Shape, LeavesOK
  <2>2. \A x, y \in D : level[x] = 0 /\ level[y] = 0 /\ x # y => part[x] \cap part[y] = {}
    BY DEF Shape, LeavesOK
  <2>3. ASSUME level[p] = 0
        PROVE  LeafHolds(arr2[p], part2[p], d) /\ LeafHolds(arr2[q], part2[q], d)
    <3>1. InOrder(arr[p], 0)
      BY <2>3 DEF Shape, PartsOK
    <3>2. CutInto(arr[p], arr2[p], arr2[q], m, 0)
      BY <1>i, <2>3
    <3>3. /\ LeafHolds(arr2[p], KeysBelow(part[p], arr[p][m + 1][1]), d)
          /\ LeafHolds(arr2[q], KeysFrom(part[p], arr[p][m + 1][1]), d)
      BY <1>1, <1>h, <2>1, <2>3, <3>1, <3>2, LeafCut
    <3> QED BY <1>6, <3>3 DEF key
  <2>4. ASSUME NEW x \in D, x # p, level[x] = 0
        PROVE  LeafHolds(arr2[x], part2[x], d)
    BY <1>6, <1>c, <2>1, <2>4
  <2>5. \A x \in D : part2[x] \subseteq part[x]
    BY <1>6 DEF KeysBelow
  <2>6. part2[q] \subseteq part[p] /\ part2[p] \cap part2[q] = {}
    BY <1>1, <1>2, <1>6 DEF KeysBelow, KeysFrom
  <2>7. ASSUME NEW x \in D \cup {q}, NEW y \in D \cup {q}, level2[x] = 0, level2[y] = 0, x # y
        PROVE  part2[x] \cap part2[y] = {}
    <3>1. CASE x \in D /\ y \in D
      BY <1>7, <2>2, <2>5, <2>7, <3>1, SMTT(30)
    <3>2. CASE x = q
      BY <1>7, <2>2, <2>5, <2>6, <2>7, <3>2, SMTT(30)
    <3>3. CASE y = q
      BY <1>7, <2>2, <2>5, <2>6, <2>7, <3>3, SMTT(30)
    <3> QED BY <3>1, <3>2, <3>3
  <2> QED BY <1>7, <2>3, <2>4, <2>7 DEF LeavesOK
<1>14. ChildrenOK(D \cup {q}, arr2, par2, level2, root)
  <2>1. \A y \in D : y # root =>
            /\ par[y] \in D /\ level[par[y]] > 0
            /\ \E i \in 1 .. Len(arr[par[y]]) : arr[par[y]][i][2] = y
    BY DEF Shape, ChildrenOK
  <2>2. /\ par2[q] \in D \cup {q} /\ level2[par2[q]] > 0
        /\ \E i \in 1 .. Len(arr2[par2[q]]) : arr2[par2[q]][i][2] = q
    <3>1. j + 1 \in 1 .. Len(arr2[f])
      BY <1>1, <1>b
    <3>2. arr2[f][j + 1][2] = q
      BY ONLY <1>b
    <3>3. par2[q] = f
      BY ONLY <1>d
    <3>4. level2[f] = level[f] /\ f \in D \cup {q}
      BY ONLY f \in D, <1>7
    <3> QED BY ONLY level[f] > 0, <3>1, <3>2, <3>3, <3>4
  <2>3. ASSUME NEW y \in D, y # root, par[y] # p
        PROVE  /\ par2[y] \in D \cup {q} /\ level2[par2[y]] > 0
               /\ \E i \in 1 .. Len(arr2[par2[y]]) : arr2[par2[y]][i][2] = y
    <3>1. par2[y] = par[y] /\ par[y] \in D /\ level2[par2[y]] > 0
      BY <1>e, <1>7, <2>1, <2>3
    <3>2. PICK i \in 1 .. Len(arr[par[y]]) : arr[par[y]][i][2] = y
      BY <2>1, <2>3
    <3>3. CASE par[y] = f
      <4>1. CASE i <= j
        <5>1. i \in 1 .. Len(arr2[f]) /\ arr2[f][i] = arr[f][i]
          BY <1>1, <1>b, <3>2, <3>3, <4>1
        <5> QED BY <3>1, <3>2, <3>3, <5>1
      <4>2. CASE i > j
        <5>1. i + 1 \in 1 .. Len(arr[f]) + 1 /\ i + 1 > j + 1 /\ (i + 1) - 1 = i
          BY <1>1, <3>2, <3>3, <4>2
        <5>2. arr2[f][i + 1] = arr[f][i]
          BY <1>b, <5>1
        <5> QED BY <1>b, <3>1, <3>2, <3>3, <5>1, <5>2, SMTT(30)
      <4> QED BY <1>1, <3>2, <3>3, <4>1, <4>2
    <3>4. CASE par[y] # f
      BY <1>c, <2>3, <3>1, <3>2, <3>4
    <3> QED BY <3>3, <3>4
  <2>4. ASSUME NEW y \in D, y # root, par[y] = p
        PROVE  /\ par2[y] \in D \cup {q} /\ level2[par2[y]] > 0
               /\ \E i \in 1 .. Len(arr2[par2[y]]) : arr2[par2[y]][i][2] = y
    <3>1. level[p] > 0
      BY <2>1, <2>4
    <3>2. CASE \E i \in m + 1 .. Len(arr[p]) : arr[p][i][2] = y
      <4>1. PICK i \in m + 1 .. Len(arr[p]) : arr[p][i][2] = y
        BY <3>2
      <4>2. par2[y] = q
        BY <1>d, <3>1, <3>2
      <4>3. i - m \in 1 .. Len(arr[p]) - m /\ m + (i - m) = i
        BY <1>1
      <4>4. arr2[q][i - m][2] = y
        BY <1>a, <4>1, <4>3, SMTT(30) DEF SameEntry
      <4> QED BY <1>7, <1>a, <3>1, <4>2, <4>3, <4>4
    <3>3. CASE ~ \E i \in m + 1 .. Len(arr[p]) : arr[p][i][2] = y
      <4>1. par2[y] = p
        BY <1>d, <2>4, <3>3
      <4>2. PICK i \in 1 .. Len(arr[p]) : arr[p][i][2] = y
        BY <2>1, <2>4
      <4>3. i \in 1 .. m
        BY <1>1, <3>3, <4>2
      <4> QED BY <1>7, <1>a, <3>1, <4>1, <4>2, <4>3
    <3> QED BY <3>2, <3>3
  <2> QED BY <2>2, <2>3, <2>4 DEF ChildrenOK
<1>15. InnerOK(D \cup {q}, arr2, par2, part2, level2)
  <2> DEFINE OK(x, i) == ChildOK(D \cup {q}, arr2, par2, part2, level2, x, i)
  <2>1. ASSUME NEW x \in D, level[x] > 0, x # p, x # f, NEW i \in 1 .. Len(arr2[x])
        PROVE  OK(x, i)
    <3>1. ChildOK(D, arr, par, part, level, x, i) /\ arr2[x] = arr[x]
      BY <1>c, <2>1, ChildFacts
    <3>2. arr[x][i][2] # p /\ par2[arr[x][i][2]] = x
      BY <1>4, <1>e, <2>1, <3>1 DEF ChildOK
    <3>3. arr[x][i][2] \in D
      BY <3>1 DEF ChildOK
    <3>4. /\ part2[arr[x][i][2]] = part[arr[x][i][2]] /\ part2[x] = part[x]
          /\ level2[arr[x][i][2]] = level[arr[x][i][2]] /\ level2[x] = level[x]
      BY <1>6, <1>7, <2>1, <3>2, <3>3
    <3> QED BY <3>1, <3>2, <3>3, <3>4 DEF ChildOK
  <2>2. ASSUME NEW i \in 1 .. m, level[p] > 0
        PROVE  OK(p, i)
    <3> DEFINE c == arr[p][i][2]
    <3>1. i \in 1 .. Len(arr[p]) /\ arr2[p][i] = arr[p][i]
      BY <1>1, <1>a
    <3>2. ChildOK(D, arr, par, part, level, p, i)
      BY <2>2, <3>1, ChildFacts
    <3>3. c \in D /\ par[c] = p /\ level[c] + 1 = level[p] /\ c # p
      BY <1>1, <3>2, EntryFacts, SMTT(30) DEF ChildOK
    <3>4. par2[c] = p
      <4>1. ASSUME NEW n \in m + 1 .. Len(arr[p]) PROVE arr[p][n][2] # c
        <5>1. n \in 1 .. Len(arr[p]) /\ n # i
          BY <1>1
        <5> QED BY <2>2, <3>1, <5>1, DistinctChildren
      <4> QED BY <1>d, <3>3, <4>1
    <3>5. ASSUME NEW k \in Keys
          PROVE  k \in part2[c] <=> k \in part2[p] /\ Between(arr2[p], i, k)
      <4>1. k \in Int /\ InOrder(arr[p], level[p])
        BY TreeAssumption DEF Shape, PartsOK
      <4>2. Between(arr[p], i, k) <=> Between(arr2[p], i, k) /\ k < arr[p][m + 1][1]
        BY <1>1, <1>h, <1>i, <2>2, <4>1, BetweenCut
      <4>3. k \in part[c] <=> k \in part[p] /\ Between(arr[p], i, k)
        BY <3>2 DEF ChildOK
      <4> QED BY <1>6, <3>3, <4>2, <4>3 DEF KeysBelow, key
    <3>6. i > 1 => arr2[p][i][1] \in part2[p]
      <4>1. InOrder(arr[p], level[p])
        BY DEF Shape, PartsOK
      <4>2. i > 1 => arr[p][i][1] < key
        BY <1>1, <3>1, <4>1 DEF InOrder, key
      <4> QED BY <1>6, <3>1, <3>2, <4>2 DEF ChildOK, KeysBelow
    <3> QED BY <1>7, <3>1, <3>3, <3>4, <3>5, <3>6 DEF ChildOK
  <2>3. ASSUME NEW i \in 1 .. Len(arr[p]) - m, level[p] > 0
        PROVE  OK(q, i)
    <3> DEFINE c == arr[p][m + i][2]
    <3>1. m + i \in 1 .. Len(arr[p]) /\ m + i \in m + 1 .. Len(arr[p]) /\ m + i > 1
      BY <1>1
    <3>a. arr2[q][i][2] = c /\ (i > 1 => arr2[q][i][1] = arr[p][m + i][1])
      BY <1>a DEF SameEntry
    <3>2. ChildOK(D, arr, par, part, level, p, m + i)
      BY <2>3, <3>1, ChildFacts
    <3>3. c \in D /\ par[c] = p /\ level[c] + 1 = level[p] /\ c # p
      BY <1>1, <3>2, EntryFacts, SMTT(30) DEF ChildOK
    <3>4. par2[c] = q
      BY <1>d, <2>3, <3>1, <3>3
    <3>5. ASSUME NEW k \in Keys
          PROVE  k \in part2[c] <=> k \in part2[q] /\ Between(arr2[q], i, k)
      <4>1. k \in Int /\ InOrder(arr[p], level[p])
        BY TreeAssumption DEF Shape, PartsOK
      <4>2. Between(arr[p], m + i, k) <=> Between(arr2[q], i, k) /\ k >= arr[p][m + 1][1]
        BY <1>1, <1>h, <1>i, <2>3, <4>1, BetweenCut
      <4>3. k \in part[c] <=> k \in part[p] /\ Between(arr[p], m + i, k)
        BY <3>2 DEF ChildOK
      <4> QED BY <1>6, <3>3, <4>2, <4>3 DEF KeysFrom, key
    <3>6. i > 1 => arr2[q][i][1] \in part2[q]
      <4>1. InOrder(arr[p], level[p])
        BY DEF Shape, PartsOK
      <4>a. arr[p][m + i][1] \in Int
        BY <3>1, EntryFacts
      <4>2. i > 1 => arr[p][m + i][1] >= key
        <5>1. i > 1 => arr[p][m + 1][1] < arr[p][m + i][1]
          BY <1>1, <3>1, <4>1 DEF InOrder
        <5>2. key = arr[p][m + 1][1]
          BY DEF key
        <5> QED BY <1>2, <4>a, <5>1, <5>2
      <4> QED BY <1>6, <3>1, <3>2, <3>a, <4>2 DEF ChildOK, KeysFrom
    <3> HIDE DEF c
    <3> QED BY <1>7, <3>3, <3>4, <3>5, <3>6, <3>a DEF ChildOK
  <2>4. ASSUME NEW i \in 1 .. Len(arr[f]), i # j, NEW n \in 1 .. Len(arr[f]) + 1,
               arr2[f][n] = arr[f][i], n > 1 => i > 1,
               \A k \in Keys : Between(arr2[f], n, k) <=> Between(arr[f], i, k)
        PROVE  OK(f, n)
    <3>1. ChildOK(D, arr, par, part, level, f, i)
      BY ChildFacts
    <3>2. arr[f][i][2] # p
      BY <2>4, DistinctChildren
    <3>3. par2[arr[f][i][2]] = f
      BY <1>4, <1>e, <3>1 DEF ChildOK
    <3>4. /\ arr[f][i][2] \in D /\ level[arr[f][i][2]] + 1 = level[f]
          /\ \A k \in Keys : k \in part[arr[f][i][2]] <=> k \in part[f] /\ Between(arr[f], i, k)
          /\ i > 1 => arr[f][i][1] \in part[f]
      BY <3>1 DEF ChildOK
    <3>5. part2[arr[f][i][2]] = part[arr[f][i][2]] /\ part2[f] = part[f]
      BY <1>4, <1>6, <3>2, <3>4
    <3>6. level2[arr[f][i][2]] + 1 = level2[f]
      BY <1>7, <3>4
    <3>7. \A k \in Keys : k \in part2[arr[f][i][2]] <=> k \in part2[f] /\ Between(arr2[f], n, k)
      BY <2>4, <3>4, <3>5
    <3>8. n > 1 => arr[f][i][1] \in part2[f]
      BY <2>4, <3>4, <3>5
    <3> QED BY <2>4, <3>3, <3>4, <3>6, <3>7, <3>8 DEF ChildOK
  <2>5. ASSUME NEW k \in Keys
        PROVE  /\ \A i \in 1 .. Len(arr[f]) : i < j => (Between(arr2[f], i, k) <=> Between(arr[f], i, k))
               /\ Between(arr2[f], j, k) <=> Between(arr[f], j, k) /\ k < key
               /\ Between(arr2[f], j + 1, k) <=> Between(arr[f], j, k) /\ k >= key
               /\ \A i \in 1 .. Len(arr[f]) : i > j => (Between(arr2[f], i + 1, k) <=> Between(arr[f], i, k))
    <3>1. k \in Int
      BY TreeAssumption
    <3> QED BY <1>g, <1>h, <1>i, <3>1, BetweenInsert
  <2>6. OK(f, j)
    <3>1. arr2[f][j] = arr[f][j] /\ par2[p] = f
      BY <1>1, <1>4, <1>b, <1>e
    <3> QED BY <1>3, <1>4, <1>6, <1>7, <2>5, <3>1, SMTT(30) DEF ChildOK, KeysBelow
  <2>7. OK(f, j + 1)
    BY <1>1, <1>2, <1>3, <1>4, <1>6, <1>7, <1>b, <1>d, <2>5 DEF ChildOK, KeysFrom
  <2>8. ASSUME NEW n \in 1 .. Len(arr[f]) + 1
        PROVE  OK(f, n)
    <3> HIDE DEF OK
    <3>1. CASE n < j
      <4>0. Len(arr[f]) \in Nat
        BY <1>1
      <4>a. n \in 1 .. Len(arr[f]) /\ n # j /\ n <= j
        BY ONLY n \in 1 .. Len(arr[f]) + 1, j \in 1 .. Len(arr[f]), <3>1, <4>0
      <4>1. n \in 1 .. Len(arr[f]) /\ n # j /\ arr2[f][n] = arr[f][n]
        BY ONLY <1>b, <4>a
      <4> QED BY <2>4, <2>5, <3>1, <4>1
    <3>2. CASE n > j + 1
      <4>1. n - 1 \in 1 .. Len(arr[f]) /\ n - 1 # j /\ n - 1 > j /\ (n - 1) + 1 = n /\ n - 1 > 1
        BY <1>1, <3>2
      <4>2. arr2[f][n] = arr[f][n - 1]
        BY <1>b, <3>2
      <4>3. \A k \in Keys : Between(arr2[f], n, k) <=> Between(arr[f], n - 1, k)
        BY <2>5, <4>1
      <4> QED BY <2>4, <4>1, <4>2, <4>3
    <3>3. n < j \/ n = j \/ n = j + 1 \/ n > j + 1
      BY <1>1
    <3> QED BY <2>6, <2>7, <3>1, <3>2, <3>3
  <2> HIDE DEF OK
  <2>9. ASSUME NEW x \in D \cup {q}, level2[x] > 0
        PROVE  Len(arr2[x]) > 0 /\ \A i \in 1 .. Len(arr2[x]) : OK(x, i)
    <3>1. CASE x = p
      BY <1>7, <1>a, <2>2, <2>9, <3>1
    <3>2. CASE x = q
      <4>1. level[p] > 0 /\ Len(arr2[q]) = Len(arr[p]) - m /\ Len(arr2[q]) > 0
        BY <1>1, <1>7, <1>a, <2>9, <3>2
      <4> QED BY <2>3, <3>2, <4>1
    <3>3. CASE x = f
      BY <1>1, <1>b, <2>8, <3>3
    <3>4. CASE x \in D /\ x # p /\ x # f
      <4>1. level[x] > 0 /\ arr2[x] = arr[x]
        BY <1>7, <1>c, <2>9, <3>4
      <4>2. Len(arr[x]) > 0
        BY <3>4, <4>1, ChildFacts
      <4> QED BY <2>1, <3>4, <4>1, <4>2
    <3> QED BY <3>1, <3>2, <3>3, <3>4
  <2> QED BY <2>9 DEF InnerOK, Leads, OK
<1> QED BY <1>10, <1>11, <1>12, <1>13, <1>14, <1>15 DEF Shape

-----------------------------------------------------------------------------
(* A merge: page q, entry j + 1 of f, moves all of its entries to the end  *)
(* of page p, entry j.                                                     *)

Merged(D, arr, par, level, p, q, f, j, arr2, par2) ==
    /\ arr2 \in [D \ {q} -> Seq(Entry)] /\ par2 \in [D \ {q} -> Int]
    /\ Len(arr2[p]) = Len(arr[p]) + Len(arr[q])
    /\ CutInto(arr2[p], arr[p], arr[q], Len(arr[p]), level[p])
    /\ level[p] > 0 => arr2[p][Len(arr[p]) + 1][1] = arr[f][j + 1][1]
    /\ InsertedAfter(arr2[f], arr[f], j, arr[f][j + 1][1], q)
    /\ \A x \in D : x # p /\ x # q /\ x # f => arr2[x] = arr[x]
    /\ \A x \in D : x # q => par2[x] = IF par[x] = q THEN p ELSE par[x]

MergePart(D, part, p, q) ==
    [x \in D \ {q} |-> IF x = p THEN part[p] \cup part[q] ELSE part[x]]

MergeLevel(D, level, q) == [x \in D \ {q} |-> level[x]]

\* Taking an entry out of an array keeps it in order.
LEMMA RemoveOrder ==
    ASSUME NEW a \in Seq(Entry), NEW b \in Seq(Entry), NEW l \in Nat, l > 0,
           NEW j \in 1 .. Len(a), NEW key, NEW q, InOrder(b, l), InsertedAfter(a, b, j, key, q)
    PROVE  InOrder(a, l)
<1> SUFFICES ASSUME NEW x \in 1 .. Len(a), NEW y \in 1 .. Len(a), x < y, x > 1
             PROVE  a[x][1] < a[y][1]
  BY DEF InOrder
<1>1. Len(a) \in Nat /\ Len(b) = Len(a) + 1
  BY DEF InsertedAfter
<1>2. ASSUME NEW z \in 1 .. Len(a)
      PROVE  \E w \in {z, z + 1} : w \in 1 .. Len(b) /\ b[w] = a[z] /\ (w = z <=> z <= j)
  <2>1. CASE z <= j
    BY <1>1, <2>1 DEF InsertedAfter
  <2>2. CASE z > j
    <3>1. z + 1 \in 1 .. Len(a) + 1 /\ z + 1 > j + 1 /\ (z + 1) - 1 = z
      BY <1>1, <2>2
    <3>2. b[z + 1] = a[z]
      BY <3>1 DEF InsertedAfter
    <3> QED BY <1>1, <2>2, <3>1, <3>2
  <2> QED BY <1>1, <2>1, <2>2
<1>3. PICK v \in {x, x + 1} : v \in 1 .. Len(b) /\ b[v] = a[x] /\ (v = x <=> x <= j)
  BY <1>2
<1>4. PICK w \in {y, y + 1} : w \in 1 .. Len(b) /\ b[w] = a[y] /\ (w = y <=> y <= j)
  BY <1>2
<1>5. v < w /\ v > 1
  BY <1>1, <1>3, <1>4
<1>6. b[v][1] < b[w][1]
  BY <1>3, <1>4, <1>5 DEF InOrder
<1> QED BY <1>3, <1>4, <1>6

\* What one entry of an inner page leads to is convex if its part is.
LEMMA ConvexBetween ==
    ASSUME NEW a \in Seq(Entry), NEW j \in 1 .. Len(a), NEW Q \in SUBSET Keys, Convex(Q),
           NEW P \in SUBSET Keys, \A k \in Keys : k \in P <=> k \in Q /\ Between(a, j, k)
    PROVE  Convex(P)
<1> SUFFICES ASSUME NEW x \in P, NEW y \in P, NEW k \in Keys, x < k, k < y
             PROVE  k \in P
  BY DEF Convex
<1>1. Keys \subseteq Int /\ Len(a) \in Nat /\ \A i \in 1 .. Len(a) : a[i][1] \in Int
  BY TreeAssumption, KeysAreInts
<1>2. k \in Q
  BY DEF Convex
<1>3. Between(a, j, x) /\ Between(a, j, y)
  OBVIOUS
<1>4. Between(a, j, k)
  <2>1. j > 1 => a[j][1] <= k
    BY <1>1, <1>3 DEF Between
  <2>2. j < Len(a) => k < a[j + 1][1]
    <3>1. j < Len(a) => j + 1 \in 1 .. Len(a)
      BY <1>1
    <3> QED BY <1>1, <1>3, <3>1 DEF Between
  <2> QED BY <2>1, <2>2 DEF Between
<1> QED BY <1>2, <1>4

\* key comes between two arrays of level l.
Separates(key, b, c, l) ==
    /\ \A i \in 1 .. Len(b) : l = 0 \/ i > 1 => b[i][1] < key
    /\ \A i \in 1 .. Len(c) : l = 0 \/ i > 1 => c[i][1] >= key
    /\ \A i \in 2 .. Len(c) : l > 0 => key < c[i][1]

\* Two arrays in order, with a key between them, are in order together.
LEMMA JoinOrder ==
    ASSUME NEW a \in Seq(Entry), NEW b \in Seq(Entry), NEW c \in Seq(Entry), NEW l \in Nat,
           Len(a) = Len(b) + Len(c), CutInto(a, b, c, Len(b), l), InOrder(b, l), InOrder(c, l),
           NEW key \in Int, Separates(key, b, c, l), l > 0 => a[Len(b) + 1][1] = key
    PROVE  InOrder(a, l)
<1> USE DEF Separates
<1> DEFINE m == Len(b)
<1> SUFFICES ASSUME NEW x \in 1 .. Len(a), NEW y \in 1 .. Len(a), x < y, l = 0 \/ x > 1
             PROVE  a[x][1] < a[y][1]
  BY DEF InOrder
<1>1. /\ m \in Nat /\ Len(c) \in Nat /\ Len(a) = m + Len(c)
      /\ \A i \in 1 .. Len(b) : b[i][1] \in Int
      /\ \A i \in 1 .. Len(c) : c[i][1] \in Int
  BY KeysAreInts
<1>2. /\ \A i \in 1 .. m : b[i] = a[i]
      /\ \A i \in 1 .. Len(c) : i > 1 \/ l = 0 => c[i][1] = a[m + i][1]
  BY <1>1 DEF CutInto, SameEntry
<1> HIDE DEF m
<1>3. ASSUME NEW z \in 1 .. Len(a), z > m
      PROVE  /\ z - m \in 1 .. Len(c)
             /\ z - m > 1 \/ l = 0 => c[z - m][1] = a[z][1]
             /\ z - m = 1 /\ l > 0 => a[z][1] = key
             /\ a[z][1] >= key
  <2>a. z \in Int /\ z <= m + Len(c) /\ m \in Nat /\ Len(c) \in Nat
    BY <1>1
  <2>1. z - m \in 1 .. Len(c) /\ m + (z - m) = z
    BY <1>3, <2>a
  <2>2. z - m > 1 \/ l = 0 => c[z - m][1] = a[z][1]
    BY <1>2, <2>1
  <2>3. z - m = 1 /\ l > 0 => a[z][1] = key
    BY <1>1, <2>1 DEF m
  <2> QED BY <1>1, <2>1, <2>2, <2>3
<1>4. CASE y <= m
  <2>1. x \in 1 .. Len(b) /\ y \in 1 .. Len(b)
    BY <1>1, <1>4 DEF m
  <2> QED BY <1>2, <2>1 DEF InOrder, m
<1>5. CASE x <= m /\ y > m
  <2>1. x \in 1 .. m /\ a[x] = b[x] /\ b[x][1] < key /\ b[x][1] \in Int
    BY <1>1, <1>2, <1>5 DEF m
  <2>2. a[y][1] >= key /\ a[y][1] \in Int
    <3>1. a[y][1] \in Int
      BY KeysAreInts
    <3> QED BY <1>3, <1>5, <3>1
  <2> QED BY <2>1, <2>2
<1>6. CASE x > m
  <2>1. /\ x - m \in 1 .. Len(c) /\ y - m \in 1 .. Len(c) /\ x - m < y - m
        /\ y - m > 1 /\ c[y - m][1] = a[y][1]
    BY <1>1, <1>3, <1>6
  <2>2. CASE x - m > 1 \/ l = 0
    <3>1. c[x - m][1] = a[x][1]
      BY <1>3, <1>6, <2>2
    <3>2. c[x - m][1] < c[y - m][1]
      BY <2>1, <2>2 DEF InOrder
    <3> QED BY <2>1, <3>1, <3>2
  <2>3. CASE x - m = 1 /\ l > 0
    <3>1. a[x][1] = key
      BY <1>3, <1>6, <2>3
    <3>2. key < c[y - m][1]
      BY <2>1, <2>3
    <3> QED BY <2>1, <3>1, <3>2
  <2> QED BY <2>1, <2>2, <2>3
<1> QED BY <1>1, <1>4, <1>5, <1>6

\* A leaf merged of two holds the entries of both parts.
LEMMA LeafJoin ==
    ASSUME NEW a \in Seq(Entry), NEW b \in Seq(Entry), NEW c \in Seq(Entry),
           NEW P1, NEW P2, NEW d, Len(a) = Len(b) + Len(c), CutInto(a, b, c, Len(b), 0),
           LeafHolds(b, P1, d), LeafHolds(c, P2, d)
    PROVE  LeafHolds(a, P1 \cup P2, d)
<1>1. /\ Len(b) \in Nat /\ Len(c) \in Nat /\ Len(a) = Len(b) + Len(c)
      /\ \A i \in 1 .. Len(b) : b[i] = a[i]
      /\ \A i \in 1 .. Len(c) : c[i][1] = a[Len(b) + i][1] /\ c[i][2] = a[Len(b) + i][2]
  BY DEF CutInto, SameEntry
<1>2. ASSUME NEW i \in 1 .. Len(a)
      PROVE  a[i][1] \in P1 \cup P2 /\ a[i][1] \in DOMAIN d /\ a[i][2] = d[a[i][1]]
  <2>1. CASE i <= Len(b)
    BY <1>1, <2>1 DEF LeafHolds
  <2>2. CASE i > Len(b)
    <3>1. PICK n \in 1 .. Len(c) : i = Len(b) + n
      <4>1. i - Len(b) \in 1 .. Len(c) /\ i = Len(b) + (i - Len(b))
        BY <1>1, <2>2
      <4> QED BY <4>1
    <3>2. c[n][1] = a[i][1] /\ c[n][2] = a[i][2]
      BY <1>1, <3>1
    <3> QED BY <3>1, <3>2 DEF LeafHolds
  <2> QED BY <1>1, <2>1, <2>2
<1>3. ASSUME NEW k \in P1 \cup P2, k \in DOMAIN d
      PROVE  \E i \in 1 .. Len(a) : a[i][1] = k
  <2>1. CASE k \in P1
    <3>1. PICK i \in 1 .. Len(b) : b[i][1] = k
      BY <1>3, <2>1 DEF LeafHolds
    <3> QED BY <1>1, <3>1
  <2>2. CASE k \in P2
    <3>1. PICK i \in 1 .. Len(c) : c[i][1] = k
      BY <1>3, <2>2 DEF LeafHolds
    <3>2. Len(b) + i \in 1 .. Len(a)
      BY <1>1
    <3> QED BY <1>1, <3>1, <3>2
  <2> QED BY <2>1, <2>2
<1> QED BY <1>2, <1>3 DEF LeafHolds

\* The keys of an array that count are keys of the page's part.
LEMMA ArrayKeys ==
    ASSUME NEW D, NEW arr, NEW par, NEW root, NEW part, NEW level, NEW d,
           Shape(D, arr, par, root, part, level, d), NEW p \in D,
           NEW i \in 1 .. Len(arr[p]), level[p] = 0 \/ i > 1
    PROVE  arr[p][i][1] \in part[p]
<1>1. CASE level[p] = 0
  BY <1>1 DEF Shape, LeavesOK, LeafHolds
<1>2. CASE level[p] # 0
  <2>1. level[p] > 0
    BY <1>2, EntryFacts
  <2>2. ChildOK(D, arr, par, part, level, p, i)
    BY <2>1, ChildFacts
  <2> QED BY <1>2, <2>2 DEF ChildOK
<1> QED BY <1>1, <1>2

\* Coalesce: when q is appended to its left neighbour p and its entry removed
\* from the parent, the tree keeps its shape with the parts of both joined.
LEMMA MergeShape ==
    ASSUME NEW D, NEW arr, NEW par, NEW root, NEW part, NEW level, NEW d,
           Shape(D, arr, par, root, part, level, d),
           NEW p \in D, NEW q \in D, NEW f \in D, level[f] > 0,
           NEW j \in Nat, 0 < j, j < Len(arr[f]), arr[f][j][2] = p, arr[f][j + 1][2] = q,
           NEW arr2, NEW par2, Merged(D, arr, par, level, p, q, f, j, arr2, par2),
           NEW part2, part2 = MergePart(D, part, p, q),
           NEW level2, level2 = MergeLevel(D, level, q)
    PROVE  Shape(D \ {q}, arr2, par2, root, part2, level2, d)
<1> DEFINE key == arr[f][j + 1][1]
           m == Len(arr[p])
           E == D \ {q}
<1>1. /\ m \in Nat /\ Len(arr[q]) \in Nat /\ Len(arr[f]) \in Nat /\ level[p] \in Nat
      /\ level[f] \in Nat /\ level[q] \in Nat
      /\ part[p] \subseteq Int /\ part[p] \subseteq Keys
      /\ part[q] \subseteq Int /\ part[q] \subseteq Keys /\ part[f] \subseteq Keys
      /\ arr[p] \in Seq(Entry) /\ arr[q] \in Seq(Entry) /\ arr[f] \in Seq(Entry)
  BY EntryFacts
<1>a. j \in 1 .. Len(arr[f]) /\ j + 1 \in 1 .. Len(arr[f]) /\ j # j + 1
  BY <1>1
<1>2. key \in Int
  BY <1>a, EntryFacts
<1>3. ChildOK(D, arr, par, part, level, f, j) /\ ChildOK(D, arr, par, part, level, f, j + 1)
  BY <1>a, ChildFacts
<1>4. /\ par[p] = f /\ level[p] + 1 = level[f] /\ p # f
      /\ par[q] = f /\ level[q] + 1 = level[f] /\ q # f /\ level[p] = level[q]
  BY <1>1, <1>3 DEF ChildOK
<1>5. p # q
  BY <1>a, DistinctChildren
<1>6. root \in D /\ root # p /\ root # q /\ part[root] = Keys /\ par[root] = -1
  <2>1. root \in D /\ par[root] = INVALID_PAGE_ID /\ part[root] = Keys
    BY DEF Shape, Rooted
  <2>2. f \in Nat
    BY EntryFacts
  <2> QED BY <1>4, <2>1, <2>2 DEF INVALID_PAGE_ID
<1>7. /\ part2 \in [E -> SUBSET Keys] /\ part2[p] = part[p] \cup part[q]
      /\ \A x \in E : x # p => part2[x] = part[x]
  <2>1. part \in [D -> SUBSET Keys]
    BY DEF Shape, Types
  <2> QED BY <1>5, <2>1 DEF MergePart
<1>8. level2 \in [E -> Nat] /\ \A x \in E : level2[x] = level[x]
  <2>1. level \in [D -> Nat]
    BY DEF Shape, Types
  <2> QED BY <2>1 DEF MergeLevel
<1> HIDE DEF key, m
\* The pieces of Merged, one by one.
<1>b. /\ Len(arr2[p]) = m + Len(arr[q]) /\ CutInto(arr2[p], arr[p], arr[q], m, level[p])
      /\ level[p] > 0 => arr2[p][m + 1][1] = key
      /\ InsertedAfter(arr2[f], arr[f], j, key, q)
  BY DEF Merged, key, m
<1>c. \A x \in E : x # p /\ x # f => arr2[x] = arr[x]
  BY DEF Merged
<1>d. \A x \in E : par2[x] = IF par[x] = q THEN p ELSE par[x]
  BY DEF Merged
<1>e. p \in E /\ f \in E /\ arr2[p] \in Seq(Entry) /\ arr2[f] \in Seq(Entry)
  BY <1>4, <1>5 DEF Merged
<1>f. /\ Len(arr[f]) = Len(arr2[f]) + 1
      /\ \A i \in 1 .. Len(arr2[f]) : i <= j => arr[f][i] = arr2[f][i]
      /\ \A i \in 1 .. Len(arr2[f]) + 1 : i > j + 1 => arr[f][i] = arr2[f][i - 1]
      /\ j \in 1 .. Len(arr2[f]) /\ Len(arr2[f]) \in Nat
  <2>1. Len(arr2[f]) \in Nat
    BY <1>e
  <2> QED BY <1>1, <1>a, <1>b, <2>1 DEF InsertedAfter
<1>g. /\ m = Len(arr[p]) /\ \A i \in 1 .. m : arr[p][i] = arr2[p][i]
      /\ Len(arr2[p]) - m = Len(arr[q])
      /\ \A i \in 1 .. Len(arr[q]) : SameEntry(arr[q][i], arr2[p][m + i], i > 1 \/ level[p] = 0)
  <2>1. Len(arr2[p]) - m = Len(arr[q])
    BY <1>1, <1>b
  <2> QED BY <1>b, <2>1 DEF CutInto
<1>h. \A x \in D : InOrder(arr[x], level[x]) /\ Convex(part[x]) /\ part[x] # {}
  BY DEF Shape, PartsOK
<1>i. FitsBehind(arr2[f], j, key)
  <2>1. InOrder(arr[f], level[f])
    BY <1>h
  <2>2. j > 1 => arr[f][j][1] < key
    BY <1>1, <1>a, <2>1 DEF InOrder, key
  <2>3. j < Len(arr2[f]) => key < arr2[f][j + 1][1]
    <3>1. SUFFICES ASSUME j < Len(arr2[f]) PROVE key < arr2[f][j + 1][1]
      OBVIOUS
    <3>2. j + 2 \in 1 .. Len(arr[f]) /\ j + 2 > j + 1 /\ (j + 2) - 1 = j + 1
      BY <1>f, <3>1
    <3>3. arr[f][j + 2] = arr2[f][j + 1]
      BY <1>f, <3>2
    <3>4. arr[f][j + 1][1] < arr[f][j + 2][1]
      BY <1>1, <1>a, <2>1, <3>2 DEF InOrder
    <3> QED BY <3>3, <3>4 DEF key
  <2> QED BY <1>2, <1>f, <2>2, <2>3 DEF FitsBehind
<1>j. ASSUME NEW k \in Keys
      PROVE  /\ \A i \in 1 .. Len(arr2[f]) : i < j => (Between(arr[f], i, k) <=> Between(arr2[f], i, k))
             /\ Between(arr[f], j, k) <=> Between(arr2[f], j, k) /\ k < key
             /\ Between(arr[f], j + 1, k) <=> Between(arr2[f], j, k) /\ k >= key
             /\ \A i \in 1 .. Len(arr2[f]) : i > j => (Between(arr[f], i + 1, k) <=> Between(arr2[f], i, k))
  <2>1. k \in Int
    BY TreeAssumption
  <2>2. /\ arr2[f] \in Seq(Entry) /\ arr[f] \in Seq(Entry) /\ j \in 1 .. Len(arr2[f])
        /\ InsertedAfter(arr2[f], arr[f], j, key, q)
    BY <1>1, <1>b, <1>e, <1>f
  <2> QED BY <1>i, <2>1, <2>2, BetweenInsert
<1>k. ASSUME NEW k \in Keys
      PROVE  /\ k \in part2[p] <=> k \in part[f] /\ Between(arr2[f], j, k)
             /\ k \in part[p] <=> k \in part2[p] /\ k < key
             /\ k \in part[q] <=> k \in part2[p] /\ k >= key
  <2>1. k \in Int
    BY TreeAssumption
  <2>2. k \in part[p] <=> k \in part[f] /\ Between(arr[f], j, k)
    BY <1>3 DEF ChildOK
  <2>3. k \in part[q] <=> k \in part[f] /\ Between(arr[f], j + 1, k)
    BY <1>3 DEF ChildOK
  <2>4. k < key \/ k >= key
    BY <1>2, <2>1
  <2>5. ~(k < key /\ k >= key)
    BY <1>2, <2>1
  <2> QED BY <1>7, <1>j, <2>2, <2>3, <2>4, <2>5
<1>10. Types(E, arr2, par2, part2, level2)
  <2>1. IsFiniteSet(D) /\ D \subseteq Nat \ {0}
    BY DEF Shape, Types
  <2>2. IsFiniteSet(E)
    BY <2>1, FS_Subset
  <2> QED BY <1>7, <1>8, <2>1, <2>2 DEF Types, Merged
<1>11. Rooted(E, par2, part2, level2, root)
  <2>1. \A x \in D : level[x] <= level[root]
    BY DEF Shape, Rooted
  <2>2. q \in Nat
    BY EntryFacts
  <2>3. par2[root] = INVALID_PAGE_ID
    <3>1. root \in E /\ par[root] = INVALID_PAGE_ID /\ INVALID_PAGE_ID # q
      BY ONLY <1>6, <2>2 DEF INVALID_PAGE_ID, E
    <3> QED BY ONLY <1>d, <3>1
  <2> QED BY <1>6, <1>7, <1>8, <2>1, <2>3 DEF Rooted
<1>12. PartsOK(E, arr2, part2, level2)
  <2>1. InOrder(arr2[f], level2[f])
    <3>1. InOrder(arr2[f], level[f])
      BY <1>1, <1>b, <1>e, <1>f, <1>h, RemoveOrder
    <3> QED BY <1>8, <1>e, <3>1
  <2>2. InOrder(arr2[p], level2[p])
    <3>1. \A k \in part[p] : k < key
      BY <1>1, <1>k
    <3>2. \A k \in part[q] : k >= key
      BY <1>1, <1>k
    <3>3. \A i \in 1 .. Len(arr[p]) : level[p] = 0 \/ i > 1 => arr[p][i][1] \in part[p]
      BY <1>1, ArrayKeys
    <3>4. \A i \in 1 .. Len(arr[q]) : level[q] = 0 \/ i > 1 => arr[q][i][1] \in part[q]
      BY <1>1, ArrayKeys
    <3>5. ASSUME NEW i \in 2 .. Len(arr[q]), level[q] > 0 PROVE key < arr[q][i][1]
      <4>1. 1 \in 1 .. Len(arr[q]) /\ 2 \in 1 .. Len(arr[q]) /\ i \in 1 .. Len(arr[q]) /\ 1 < Len(arr[q])
        BY <1>1
      <4>2. ChildOK(D, arr, par, part, level, q, 1) /\ arr[q][1][2] \in D
        BY <3>5, <4>1, ChildFacts DEF ChildOK
      <4>a. PICK c \in D : c = arr[q][1][2]
        BY <4>2
      <4>b. part[c] # {} /\ part[c] \subseteq Keys /\ part[c] \subseteq Int
        BY EntryFacts
      <4>3. PICK k \in part[arr[q][1][2]] : k \in Keys /\ k \in Int
        BY <4>a, <4>b
      <4>4. k \in part[q] /\ Between(arr[q], 1, k)
        BY <4>2, <4>3 DEF ChildOK
      <4>5. k < arr[q][2][1]
        BY <4>1, <4>4 DEF Between
      <4>6. i = 2 \/ arr[q][2][1] < arr[q][i][1]
        BY <1>h, <4>1 DEF InOrder
      <4>7. arr[q][2][1] \in Int /\ arr[q][i][1] \in Int
        BY <4>1, EntryFacts, SMTT(30)
      <4> QED BY <1>2, <3>2, <4>3, <4>4, <4>5, <4>6, <4>7
    <3>6. Separates(key, arr[p], arr[q], level[p])
      BY <1>4, <3>1, <3>2, <3>3, <3>4, <3>5 DEF Separates
    <3>7. /\ Len(arr2[p]) = Len(arr[p]) + Len(arr[q]) /\ CutInto(arr2[p], arr[p], arr[q], Len(arr[p]), level[p])
          /\ level[p] > 0 => arr2[p][Len(arr[p]) + 1][1] = key
      BY <1>b, <1>g
    <3>8. InOrder(arr[p], level[p]) /\ InOrder(arr[q], level[p])
      BY <1>4, <1>h
    <3>9. InOrder(arr2[p], level[p])
      BY <1>1, <1>2, <1>e, <3>6, <3>7, <3>8, JoinOrder
    <3> QED BY <1>8, <1>e, <3>9
  <2>3. Convex(part2[p]) /\ part2[p] # {}
    <3>1. part2[p] \in SUBSET Keys /\ part[f] \in SUBSET Keys
      BY <1>1, <1>7
    <3>2. \A k \in Keys : k \in part2[p] <=> k \in part[f] /\ Between(arr2[f], j, k)
      BY <1>k
    <3>3. Convex(part2[p])
      BY <1>e, <1>f, <1>h, <3>1, <3>2, ConvexBetween
    <3> QED BY <1>7, <1>h, <3>3
  <2>4. \A x \in E : x # p => part2[x] # {} /\ Convex(part2[x])
    BY <1>7, <1>h
  <2>5. \A x \in E : x # p /\ x # f => InOrder(arr2[x], level2[x])
    BY <1>8, <1>c, <1>h
  <2> QED BY <2>1, <2>2, <2>3, <2>4, <2>5 DEF PartsOK
<1>13. LeavesOK(E, arr2, part2, level2, d)
  <2>1. \A x \in D : level[x] = 0 => LeafHolds(arr[x], part[x], d)
    BY DEF Shape, LeavesOK
  <2>2. \A x, y \in D : level[x] = 0 /\ level[y] = 0 /\ x # y => part[x] \cap part[y] = {}
    BY DEF Shape, LeavesOK
  <2>3. ASSUME level[p] = 0
        PROVE  LeafHolds(arr2[p], part2[p], d)
    <3>1. CutInto(arr2[p], arr[p], arr[q], Len(arr[p]), 0) /\ Len(arr2[p]) = Len(arr[p]) + Len(arr[q])
      BY <1>b, <1>g, <2>3
    <3>2. LeafHolds(arr[p], part[p], d) /\ LeafHolds(arr[q], part[q], d)
      BY <1>4, <2>1, <2>3
    <3>3. LeafHolds(arr2[p], part[p] \cup part[q], d)
      BY <1>1, <1>e, <3>1, <3>2, LeafJoin
    <3> QED BY <1>7, <3>3
  <2>4. ASSUME NEW x \in E, x # p, level[x] = 0
        PROVE  LeafHolds(arr2[x], part2[x], d)
    BY <1>7, <1>c, <2>1, <2>4
  <2>5. ASSUME NEW x \in E, NEW y \in E, level[x] = 0, level[y] = 0, x # y
        PROVE  part2[x] \cap part2[y] = {}
    <3>1. CASE x = p
      BY <1>4, <1>7, <2>2, <2>5, <3>1
    <3>2. CASE y = p
      BY <1>4, <1>7, <2>2, <2>5, <3>2
    <3>3. CASE x # p /\ y # p
      BY <1>7, <2>2, <2>5, <3>3
    <3> QED BY <3>1, <3>2, <3>3
  <2> QED BY <1>8, <2>3, <2>4, <2>5 DEF LeavesOK
<1>14. ChildrenOK(E, arr2, par2, level2, root)
  <2>1. \A y \in D : y # root =>
            /\ par[y] \in D /\ level[par[y]] > 0
            /\ \E i \in 1 .. Len(arr[par[y]]) : arr[par[y]][i][2] = y
    BY DEF Shape, ChildrenOK
  <2>2. ASSUME NEW y \in E, y # root
        PROVE  /\ par2[y] \in E /\ level2[par2[y]] > 0
               /\ \E i \in 1 .. Len(arr2[par2[y]]) : arr2[par2[y]][i][2] = y
    <3>1. par[y] \in D /\ level[par[y]] > 0
      BY <2>1, <2>2
    <3>2. PICK i \in 1 .. Len(arr[par[y]]) : arr[par[y]][i][2] = y
      BY <2>1, <2>2
    <3>3. CASE par[y] = q
      <4>1. par2[y] = p /\ level2[p] > 0
        BY <1>4, <1>8, <1>d, <1>e, <2>2, <3>1, <3>3
      <4>2. i \in 1 .. Len(arr[q]) /\ m + i \in 1 .. Len(arr2[p])
        BY <1>1, <1>b, <3>2, <3>3
      <4>3. arr2[p][m + i][2] = y
        BY <1>g, <3>2, <3>3, <4>2 DEF SameEntry
      <4> QED BY <1>e, <4>1, <4>2, <4>3
    <3>4. CASE par[y] = p
      <4>1. par2[y] = p /\ level2[p] > 0
        BY <1>5, <1>8, <1>d, <1>e, <2>2, <3>1, <3>4
      <4>a. i \in 1 .. m
        BY <1>g, <3>2, <3>4
      <4>b. i \in 1 .. m + Len(arr[q])
        BY <1>1, <4>a
      <4>2. i \in 1 .. m /\ i \in 1 .. Len(arr2[p])
        BY <1>b, <4>a, <4>b
      <4>3. arr2[p][i][2] = y
        BY <1>g, <3>2, <3>4, <4>2
      <4> QED BY <1>e, <4>1, <4>2, <4>3
    <3>5. CASE par[y] = f
      <4>1. par2[y] = f /\ level2[f] > 0
        BY <1>4, <1>8, <1>d, <1>e, <2>2, <3>1, <3>5
      <4>2. i # j + 1 /\ i \in 1 .. Len(arr[f])
        BY <2>2, <3>2, <3>5
      <4>3. CASE i <= j
        <5>1. i \in 1 .. Len(arr2[f]) /\ arr2[f][i] = arr[f][i]
          BY <1>f, <4>2, <4>3
        <5> QED BY <1>e, <3>2, <3>5, <4>1, <5>1
      <4>4. CASE i > j + 1
        <5>1. i - 1 \in 1 .. Len(arr2[f]) /\ arr2[f][i - 1] = arr[f][i]
          BY <1>f, <4>2, <4>4
        <5> QED BY <1>e, <3>2, <3>5, <4>1, <5>1
      <4> QED BY <1>1, <4>2, <4>3, <4>4
    <3>6. CASE par[y] # p /\ par[y] # q /\ par[y] # f
      <4>1. par2[y] = par[y] /\ par[y] \in E
        BY <1>d, <2>2, <3>1, <3>6
      <4>2. arr2[par[y]] = arr[par[y]] /\ level2[par[y]] > 0
        BY <1>8, <1>c, <3>1, <3>6, <4>1
      <4> QED BY <3>2, <4>1, <4>2
    <3> QED BY <3>3, <3>4, <3>5, <3>6
  <2> QED BY <2>2 DEF ChildrenOK
<1>15. InnerOK(E, arr2, par2, part2, level2)
  <2> DEFINE OK(x, i) == ChildOK(E, arr2, par2, part2, level2, x, i)
  <2>1. ASSUME NEW x \in E, level[x] > 0, x # p, x # f, NEW i \in 1 .. Len(arr2[x])
        PROVE  OK(x, i)
    <3>1. ChildOK(D, arr, par, part, level, x, i) /\ arr2[x] = arr[x]
      BY <1>c, <2>1, ChildFacts
    <3>2. arr[x][i][2] # p /\ arr[x][i][2] # q /\ arr[x][i][2] \in E
      BY <1>4, <2>1, <3>1 DEF ChildOK
    <3>3. par2[arr[x][i][2]] = x
      BY <1>d, <2>1, <3>1, <3>2 DEF ChildOK
    <3>4. /\ part2[arr[x][i][2]] = part[arr[x][i][2]] /\ part2[x] = part[x]
          /\ level2[arr[x][i][2]] = level[arr[x][i][2]] /\ level2[x] = level[x]
      BY <1>7, <1>8, <2>1, <3>2
    <3> QED BY <3>1, <3>2, <3>3, <3>4 DEF ChildOK
  <2>a. ASSUME level[p] > 0
        PROVE  0 < m /\ m < Len(arr2[p])
    <3>1. Len(arr[p]) > 0 /\ Len(arr[q]) > 0
      BY <1>4, <2>a, ChildFacts
    <3>2. m = Len(arr[p])
      BY <1>g
    <3>3. 0 < m
      BY <3>1, <3>2
    <3>4. m < m + Len(arr[q])
      BY <1>1, <3>1
    <3>5. Len(arr2[p]) = m + Len(arr[q])
      BY <1>b
    <3>6. m < Len(arr2[p])
      BY <3>4, <3>5
    <3> QED BY <3>3, <3>6
  <2>b. ASSUME NEW k \in Keys, level[p] > 0
        PROVE  /\ \A i \in 1 .. m : Between(arr2[p], i, k) <=> Between(arr[p], i, k) /\ k < key
               /\ \A i \in 1 .. Len(arr[q]) : Between(arr2[p], m + i, k) <=> Between(arr[q], i, k) /\ k >= key
    <3>1. k \in Int
      BY TreeAssumption
    <3>2. InOrder(arr2[p], level[p])
      BY <1>8, <1>12, <1>e DEF PartsOK
    <3>3. CutInto(arr2[p], arr[p], arr[q], m, level[p]) /\ arr2[p][m + 1][1] = key
      BY <1>b, <2>b
    <3>4. /\ \A i \in 1 .. m : Between(arr2[p], i, k) <=> Between(arr[p], i, k) /\ k < arr2[p][m + 1][1]
          /\ \A i \in 1 .. Len(arr2[p]) - m :
                 Between(arr2[p], m + i, k) <=> Between(arr[q], i, k) /\ k >= arr2[p][m + 1][1]
      BY <1>1, <1>e, <2>a, <2>b, <3>1, <3>2, <3>3, BetweenCut
    <3> QED BY <1>g, <3>3, <3>4
  <2>2. ASSUME NEW i \in 1 .. m, level[p] > 0
        PROVE  OK(p, i)
    <3> DEFINE c == arr[p][i][2]
    <3>1. i \in 1 .. Len(arr[p]) /\ arr2[p][i] = arr[p][i]
      BY <1>g
    <3>2. ChildOK(D, arr, par, part, level, p, i)
      BY <2>2, <3>1, ChildFacts
    <3>3. c \in D /\ par[c] = p /\ level[c] + 1 = level[p] /\ c # p /\ c # q
      BY <1>1, <1>4, <3>2, EntryFacts DEF ChildOK
    <3>4. c \in E /\ par2[c] = p /\ part2[c] = part[c] /\ level2[c] + 1 = level2[p]
      BY <1>5, <1>7, <1>8, <1>d, <1>e, <3>3
    <3>5. ASSUME NEW k \in Keys
          PROVE  k \in part2[c] <=> k \in part2[p] /\ Between(arr2[p], i, k)
      <4>1. k \in part[c] <=> k \in part[p] /\ Between(arr[p], i, k)
        BY <3>2 DEF ChildOK
      <4>2. Between(arr2[p], i, k) <=> Between(arr[p], i, k) /\ k < key
        BY <2>2, <2>b
      <4> QED BY <1>k, <3>4, <4>1, <4>2
    <3>6. i > 1 => arr2[p][i][1] \in part2[p]
      BY <1>7, <3>1, <3>2 DEF ChildOK
    <3> QED BY <3>1, <3>4, <3>5, <3>6 DEF ChildOK
  <2>3. ASSUME NEW i \in 1 .. Len(arr[q]), level[p] > 0
        PROVE  OK(p, m + i)
    <3> DEFINE c == arr[q][i][2]
    <3>1. arr2[p][m + i][2] = c /\ (i > 1 => arr2[p][m + i][1] = arr[q][i][1])
      BY <1>g DEF SameEntry
    <3>2. ChildOK(D, arr, par, part, level, q, i)
      BY <1>4, <2>3, ChildFacts
    <3>3. c \in D /\ par[c] = q /\ level[c] + 1 = level[p] /\ c # p /\ c # q
      BY <1>1, <1>4, <3>2, EntryFacts DEF ChildOK
    <3>4. c \in E /\ par2[c] = p /\ part2[c] = part[c] /\ level2[c] + 1 = level2[p]
      BY <1>7, <1>8, <1>d, <1>e, <3>3
    <3>5. ASSUME NEW k \in Keys
          PROVE  k \in part2[c] <=> k \in part2[p] /\ Between(arr2[p], m + i, k)
      <4>1. k \in part[c] <=> k \in part[q] /\ Between(arr[q], i, k)
        BY <3>2 DEF ChildOK
      <4>2. Between(arr2[p], m + i, k) <=> Between(arr[q], i, k) /\ k >= key
        BY <2>3, <2>b
      <4> QED BY <1>k, <3>4, <4>1, <4>2
    <3>6. arr2[p][m + i][1] \in part2[p]
      <4>1. CASE i > 1
        BY <1>7, <3>1, <3>2, <4>1 DEF ChildOK
      <4>2. CASE i = 1
        <5>1. key \in part[f] /\ key \in Keys
          BY <1>1, <1>3 DEF ChildOK, key
        <5>2. Between(arr2[f], j, key)
          BY <1>2, <1>e, <1>f, <1>i, KeysAreInts DEF Between, FitsBehind
        <5> QED BY <1>b, <1>k, <2>3, <4>2, <5>1, <5>2
      <4> QED BY <1>1, <4>1, <4>2
    <3> HIDE DEF c
    <3> QED BY <3>1, <3>4, <3>5, <3>6 DEF ChildOK
  <2>4. ASSUME NEW i \in 1 .. Len(arr[f]), i # j, i # j + 1, NEW n \in 1 .. Len(arr2[f]),
               arr2[f][n] = arr[f][i], n > 1 => i > 1,
               \A k \in Keys : Between(arr[f], i, k) <=> Between(arr2[f], n, k)
        PROVE  OK(f, n)
    <3>1. ChildOK(D, arr, par, part, level, f, i)
      BY ChildFacts
    <3>2. arr[f][i][2] # p /\ arr[f][i][2] # q
      BY <1>a, <2>4, DistinctChildren
    <3>4. /\ arr[f][i][2] \in E /\ level[arr[f][i][2]] + 1 = level[f] /\ par[arr[f][i][2]] = f
          /\ \A k \in Keys : k \in part[arr[f][i][2]] <=> k \in part[f] /\ Between(arr[f], i, k)
          /\ i > 1 => arr[f][i][1] \in part[f]
      BY <3>1, <3>2 DEF ChildOK
    <3>3. par2[arr[f][i][2]] = f
      BY <1>4, <1>d, <3>4
    <3>5. part2[arr[f][i][2]] = part[arr[f][i][2]] /\ part2[f] = part[f]
      BY <1>4, <1>7, <1>e, <3>2, <3>4
    <3>6. level2[arr[f][i][2]] + 1 = level2[f]
      BY <1>8, <1>e, <3>4
    <3>7. \A k \in Keys : k \in part2[arr[f][i][2]] <=> k \in part2[f] /\ Between(arr2[f], n, k)
      BY <2>4, <3>4, <3>5
    <3>8. n > 1 => arr[f][i][1] \in part2[f]
      BY <2>4, <3>4, <3>5
    <3> QED BY <2>4, <3>3, <3>4, <3>6, <3>7, <3>8 DEF ChildOK
  <2>6. OK(f, j)
    <3>1. arr2[f][j] = arr[f][j] /\ par2[p] = f /\ part2[f] = part[f] /\ level2[p] + 1 = level2[f]
      BY <1>1, <1>4, <1>7, <1>8, <1>d, <1>e, <1>f, SMTT(30)
    <3>2. j > 1 => arr[f][j][1] \in part[f]
      BY <1>3 DEF ChildOK
    <3> QED BY <1>e, <1>k, <3>1, <3>2 DEF ChildOK
  <2>8. ASSUME NEW n \in 1 .. Len(arr2[f])
        PROVE  OK(f, n)
    <3> HIDE DEF OK
    <3>1. CASE n < j
      <4>1. n \in 1 .. Len(arr[f]) /\ n # j /\ n # j + 1 /\ arr2[f][n] = arr[f][n]
        BY <1>1, <1>f, <3>1, SMTT(30)
      <4> QED BY <1>j, <2>4, <3>1, <4>1
    <3>2. CASE n > j
      <4>1. n + 1 \in 1 .. Len(arr[f]) /\ n + 1 # j /\ n + 1 # j + 1 /\ n + 1 > 1
        BY <1>1, <1>f, <3>2
      <4>2. arr2[f][n] = arr[f][n + 1]
        <5>1. n + 1 \in 1 .. Len(arr2[f]) + 1 /\ n + 1 > j + 1 /\ (n + 1) - 1 = n
          BY <1>f, <3>2
        <5> QED BY <1>f, <5>1
      <4>3. \A k \in Keys : Between(arr[f], n + 1, k) <=> Between(arr2[f], n, k)
        BY <1>j, <3>2
      <4> QED BY <2>4, <4>1, <4>2, <4>3
    <3>3. n < j \/ n = j \/ n > j
      BY <1>1
    <3> QED BY <2>6, <3>1, <3>2, <3>3
  <2> HIDE DEF OK
  <2>9. ASSUME NEW x \in E, level2[x] > 0
        PROVE  Len(arr2[x]) > 0 /\ \A i \in 1 .. Len(arr2[x]) : OK(x, i)
    <3>1. CASE x = p
      <4>1. level[p] > 0
        BY <1>8, <2>9, <3>1
      <4>2. Len(arr2[p]) > 0
        BY <1>1, <2>a, <4>1
      <4>3. ASSUME NEW n \in 1 .. Len(arr2[p])
            PROVE  n \in 1 .. m \/ \E i \in 1 .. Len(arr[q]) : n = m + i
        <5>1. CASE n <= m
          BY <5>1
        <5>2. CASE n > m
          <6>1. n - m \in 1 .. Len(arr[q]) /\ n = m + (n - m)
            BY <1>1, <1>b, <5>2
          <6> QED BY <6>1
        <5> QED BY <1>1, <5>1, <5>2
      <4> QED BY <2>2, <2>3, <3>1, <4>1, <4>2, <4>3
    <3>3. CASE x = f
      BY <1>1, <1>f, <2>8, <3>3
    <3>4. CASE x # p /\ x # f
      <4>1. level[x] > 0 /\ arr2[x] = arr[x]
        BY <1>8, <1>c, <2>9, <3>4
      <4>2. Len(arr[x]) > 0
        BY <3>4, <4>1, ChildFacts
      <4> QED BY <2>1, <3>4, <4>1, <4>2
    <3> QED BY <3>1, <3>3, <3>4
  <2> QED BY <2>9 DEF InnerOK, Leads, OK
<1> QED BY <1>10, <1>11, <1>12, <1>13, <1>14, <1>15 DEF Shape

-----------------------------------------------------------------------------
(* A new root above the old one, and a root that goes.                     *)

NewRootPages(D, arr, par, root, r, arr2, par2) ==
    /\ arr2 \in [D \cup {r} -> Seq(Entry)] /\ par2 \in [D \cup {r} -> Int]
    /\ Len(arr2[r]) = 1 /\ arr2[r][1][2] = root
    /\ \A x \in D : arr2[x] = arr[x]
    /\ par2[r] = INVALID_PAGE_ID /\ par2[root] = r
    /\ \A x \in D : x # root => par2[x] = par[x]

RootPart(D, part, r) == [x \in D \cup {r} |-> IF x = r THEN Keys ELSE part[x]]

RootLevel(D, level, root, r) ==
    [x \in D \cup {r} |-> IF x = r THEN level[root] + 1 ELSE level[x]]

\* A new root above the old one, with the old one as its only child, keeps
\* the shape; the second child comes with the split.
LEMMA AddRoot ==
    ASSUME NEW D, NEW arr, NEW par, NEW root, NEW part, NEW level, NEW d,
           Shape(D, arr, par, root, part, level, d),
           NEW r \in Nat, r # 0, r \notin D,
           NEW arr2, NEW par2, NewRootPages(D, arr, par, root, r, arr2, par2),
           NEW part2, part2 = RootPart(D, part, r),
           NEW level2, level2 = RootLevel(D, level, root, r)
    PROVE  Shape(D \cup {r}, arr2, par2, r, part2, level2, d)
<1>1. /\ root \in D /\ par[root] = INVALID_PAGE_ID /\ part[root] = Keys
      /\ \A x \in D : level[x] <= level[root]
  BY DEF Shape, Rooted
<1>2. level \in [D -> Nat] /\ part \in [D -> SUBSET Keys] /\ IsFiniteSet(D) /\ D \subseteq Nat \ {0}
  BY DEF Shape, Types
<1>3. /\ part2 \in [D \cup {r} -> SUBSET Keys] /\ part2[r] = Keys
      /\ \A x \in D : part2[x] = part[x]
  BY <1>2 DEF RootPart
<1>4. /\ level2 \in [D \cup {r} -> Nat] /\ level2[r] = level[root] + 1
      /\ \A x \in D : level2[x] = level[x]
  BY <1>1, <1>2 DEF RootLevel
<1>5. /\ Len(arr2[r]) = 1 /\ arr2[r][1][2] = root
      /\ \A x \in D : arr2[x] = arr[x]
  BY DEF NewRootPages
<1>6. /\ par2[r] = INVALID_PAGE_ID /\ par2[root] = r
      /\ \A x \in D : x # root => par2[x] = par[x]
  BY DEF NewRootPages
<1>10. Types(D \cup {r}, arr2, par2, part2, level2)
  <2>1. IsFiniteSet(D \cup {r})
    BY <1>2, FS_AddElement
  <2> QED BY <1>2, <1>3, <1>4, <2>1 DEF Types, NewRootPages
<1>11. Rooted(D \cup {r}, par2, part2, level2, r)
  <2>1. \A x \in D : level2[x] <= level2[r]
    BY <1>1, <1>2, <1>4
  <2> QED BY <1>3, <1>4, <1>6, <2>1 DEF Rooted
<1>12. PartsOK(D \cup {r}, arr2, part2, level2)
  <2>1. \A x \in D : part[x] # {} /\ Convex(part[x]) /\ InOrder(arr[x], level[x])
    BY DEF Shape, PartsOK
  <2>2. part2[r] # {} /\ Convex(part2[r])
    BY <1>1, <1>3, <2>1
  <2>3. InOrder(arr2[r], level2[r])
    BY <1>5 DEF InOrder
  <2> QED BY <1>3, <1>4, <1>5, <2>1, <2>2, <2>3 DEF PartsOK
<1>13. LeavesOK(D \cup {r}, arr2, part2, level2, d)
  <2>1. \A x \in D : level[x] = 0 => LeafHolds(arr[x], part[x], d)
    BY DEF Shape, LeavesOK
  <2>2. \A x, y \in D : level[x] = 0 /\ level[y] = 0 /\ x # y => part[x] \cap part[y] = {}
    BY DEF Shape, LeavesOK
  <2>3. level2[r] # 0
    BY <1>1, <1>2, <1>4
  <2> QED BY <1>3, <1>4, <1>5, <2>1, <2>2, <2>3 DEF LeavesOK
<1>14. ChildrenOK(D \cup {r}, arr2, par2, level2, r)
  <2>1. \A y \in D : y # root =>
            /\ par[y] \in D /\ level[par[y]] > 0
            /\ \E i \in 1 .. Len(arr[par[y]]) : arr[par[y]][i][2] = y
    BY DEF Shape, ChildrenOK
  <2>2. level2[r] > 0 /\ \E i \in 1 .. Len(arr2[r]) : arr2[r][i][2] = root
    BY <1>1, <1>2, <1>4, <1>5
  <2>3. ASSUME NEW y \in D, y # root
        PROVE  /\ par2[y] \in D \cup {r} /\ level2[par2[y]] > 0
               /\ \E i \in 1 .. Len(arr2[par2[y]]) : arr2[par2[y]][i][2] = y
    BY <1>4, <1>5, <1>6, <2>1, <2>3
  <2> QED BY <1>6, <2>2, <2>3 DEF ChildrenOK
<1>15. InnerOK(D \cup {r}, arr2, par2, part2, level2)
  <2>1. ASSUME NEW x \in D, level[x] > 0
        PROVE  /\ Len(arr2[x]) > 0
               /\ \A i \in 1 .. Len(arr2[x]) : ChildOK(D \cup {r}, arr2, par2, part2, level2, x, i)
    <3>1. arr2[x] = arr[x] /\ Len(arr[x]) > 0
      BY <1>5, <2>1, ChildFacts
    <3>2. ASSUME NEW i \in 1 .. Len(arr[x])
          PROVE  ChildOK(D \cup {r}, arr2, par2, part2, level2, x, i)
      <4>1. ChildOK(D, arr, par, part, level, x, i)
        BY <2>1, ChildFacts
      <4>2. arr[x][i][2] \in D /\ par[arr[x][i][2]] = x
        BY <4>1 DEF ChildOK
      <4>3. x \in Nat
        BY <1>2
      <4>4. arr[x][i][2] # root
        BY <1>1, <4>2, <4>3 DEF INVALID_PAGE_ID
      <4>5. par2[arr[x][i][2]] = x /\ part2[arr[x][i][2]] = part[arr[x][i][2]]
            /\ level2[arr[x][i][2]] = level[arr[x][i][2]] /\ part2[x] = part[x] /\ level2[x] = level[x]
        BY <1>3, <1>4, <1>6, <4>2, <4>4
      <4> QED BY <3>1, <4>1, <4>2, <4>5 DEF ChildOK
    <3> QED BY <3>1, <3>2
  <2>2. ASSUME NEW i \in 1 .. Len(arr2[r])
        PROVE  ChildOK(D \cup {r}, arr2, par2, part2, level2, r, i)
    <3>1. i = 1
      BY <1>5
    <3>2. \A k \in Keys : Between(arr2[r], 1, k)
      BY <1>5 DEF Between
    <3>3. part2[root] = Keys /\ level2[root] + 1 = level2[r]
      BY <1>1, <1>3, <1>4
    <3> QED BY <1>1, <1>3, <1>5, <1>6, <3>1, <3>2, <3>3 DEF ChildOK
  <2>3. Leads(D \cup {r}, arr2, par2, part2, level2, r)
    BY <1>5, <2>2 DEF Leads
  <2>4. \A x \in D : level2[x] > 0 => Leads(D \cup {r}, arr2, par2, part2, level2, x)
    BY <1>4, <2>1 DEF Leads
  <2> QED BY <2>3, <2>4 DEF InnerOK
<1> QED BY <1>10, <1>11, <1>12, <1>13, <1>14, <1>15 DEF Shape

\* The only child of the root takes its place.
Without(D, g, root) == [x \in D \ {root} |-> g[x]]

RootGone(D, arr, par, level, root, c, arr2, par2) ==
    /\ level[root] > 0 /\ Len(arr[root]) = 1 /\ c = arr[root][1][2]
    /\ arr2 \in [D \ {root} -> Seq(Entry)] /\ par2 \in [D \ {root} -> Int]
    /\ \A x \in D : x # root => arr2[x] = arr[x]
    /\ par2[c] = INVALID_PAGE_ID
    /\ \A x \in D : x # root /\ x # c => par2[x] = par[x]

\* AdjustRoot: a root with one child can be taken away.
LEMMA DropRoot ==
    ASSUME NEW D, NEW arr, NEW par, NEW root, NEW part, NEW level, NEW d,
           Shape(D, arr, par, root, part, level, d),
           NEW c, NEW arr2, NEW par2, RootGone(D, arr, par, level, root, c, arr2, par2),
           NEW part2, part2 = Without(D, part, root),
           NEW level2, level2 = Without(D, level, root)
    PROVE  c \in D /\ c # root /\ Shape(D \ {root}, arr2, par2, c, part2, level2, d)
<1> level[root] > 0 /\ Len(arr[root]) = 1 /\ c = arr[root][1][2]
  BY DEF RootGone
<1> DEFINE E == D \ {root}
<1>1. /\ root \in D /\ par[root] = INVALID_PAGE_ID /\ part[root] = Keys
      /\ \A x \in D : level[x] <= level[root]
  BY DEF Shape, Rooted
<1>2. level \in [D -> Nat] /\ part \in [D -> SUBSET Keys] /\ IsFiniteSet(D) /\ D \subseteq Nat \ {0}
  BY DEF Shape, Types
<1>a. ChildOK(D, arr, par, part, level, root, 1)
  BY <1>1, ChildFacts
<1>3. /\ c \in D /\ par[c] = root /\ level[c] + 1 = level[root]
      /\ \A k \in Keys : k \in part[c] <=> k \in part[root] /\ Between(arr[root], 1, k)
  BY <1>a DEF ChildOK
<1>4. c # root /\ c \in E
  BY <1>1, <1>2, <1>3
<1>5. part[c] = Keys
  <2>1. \A k \in Keys : Between(arr[root], 1, k)
    BY DEF Between
  <2> QED BY <1>1, <1>2, <1>3, <2>1
<1>6. /\ part2 \in [E -> SUBSET Keys] /\ \A x \in E : part2[x] = part[x]
      /\ level2 \in [E -> Nat] /\ \A x \in E : level2[x] = level[x]
  BY <1>2 DEF Without
<1>7. /\ \A x \in E : arr2[x] = arr[x]
      /\ par2[c] = INVALID_PAGE_ID /\ \A x \in E : x # c => par2[x] = par[x]
  BY DEF RootGone
<1>8. \A y \in D : y # root =>
            /\ par[y] \in D /\ level[par[y]] > 0
            /\ \E i \in 1 .. Len(arr[par[y]]) : arr[par[y]][i][2] = y
  BY DEF Shape, ChildrenOK
<1>10. Types(E, arr2, par2, part2, level2)
  <2>1. IsFiniteSet(E)
    BY <1>2, FS_Subset
  <2> QED BY <1>2, <1>6, <2>1 DEF Types, RootGone
<1>11. Rooted(E, par2, part2, level2, c)
  <2>1. ASSUME NEW x \in E PROVE level2[x] <= level2[c]
    <3>1. PICK i \in 1 .. Len(arr[par[x]]) : arr[par[x]][i][2] = x
      BY <1>8
    <3>2. par[x] \in D /\ level[par[x]] > 0
      BY <1>8
    <3>3. ChildOK(D, arr, par, part, level, par[x], i)
      BY <3>2, ChildFacts
    <3>4. level[x] + 1 = level[par[x]]
      BY <3>1, <3>3 DEF ChildOK
    <3>5. level[par[x]] <= level[root]
      BY <1>1, <3>2
    <3>6. level[x] \in Nat /\ level[c] \in Nat /\ level[par[x]] \in Nat /\ level[root] \in Nat
      BY <1>1, <1>2, <1>3, <3>2
    <3> QED BY <1>3, <1>4, <1>6, <3>4, <3>5, <3>6
  <2> QED BY <1>4, <1>5, <1>6, <1>7, <2>1 DEF Rooted
<1>12. PartsOK(E, arr2, part2, level2)
  BY <1>6, <1>7 DEF Shape, PartsOK
<1>13. LeavesOK(E, arr2, part2, level2, d)
  BY <1>6, <1>7 DEF Shape, LeavesOK
<1>14. ChildrenOK(E, arr2, par2, level2, c)
  <2>1. ASSUME NEW y \in E, y # c
        PROVE  /\ par2[y] \in E /\ level2[par2[y]] > 0
               /\ \E i \in 1 .. Len(arr2[par2[y]]) : arr2[par2[y]][i][2] = y
    <3>1. PICK i \in 1 .. Len(arr[par[y]]) : arr[par[y]][i][2] = y
      BY <1>8
    <3>2. par[y] \in D /\ level[par[y]] > 0 /\ par2[y] = par[y]
      BY <1>7, <1>8, <2>1
    <3>3. par[y] # root
      <4>1. SUFFICES ASSUME par[y] = root PROVE FALSE
        OBVIOUS
      <4>2. i = 1
        BY <3>1, <4>1
      <4> QED BY <2>1, <3>1, <4>1, <4>2
    <3> QED BY <1>6, <1>7, <3>1, <3>2, <3>3
  <2> QED BY <2>1 DEF ChildrenOK
<1>15. InnerOK(E, arr2, par2, part2, level2)
  <2>1. ASSUME NEW x \in E, level[x] > 0
        PROVE  /\ Len(arr2[x]) > 0
               /\ \A i \in 1 .. Len(arr2[x]) : ChildOK(E, arr2, par2, part2, level2, x, i)
    <3>1. arr2[x] = arr[x] /\ Len(arr[x]) > 0
      BY <1>7, <2>1, ChildFacts
    <3>2. ASSUME NEW i \in 1 .. Len(arr[x])
          PROVE  ChildOK(E, arr2, par2, part2, level2, x, i)
      <4>1. ChildOK(D, arr, par, part, level, x, i)
        BY <2>1, ChildFacts
      <4>2. arr[x][i][2] \in D /\ par[arr[x][i][2]] = x
        BY <4>1 DEF ChildOK
      <4>3. x \in Nat
        BY <1>2
      <4>4. arr[x][i][2] # root /\ arr[x][i][2] # c
        BY <1>1, <1>3, <4>2, <4>3 DEF INVALID_PAGE_ID
      <4>5. par2[arr[x][i][2]] = x /\ part2[arr[x][i][2]] = part[arr[x][i][2]]
            /\ level2[arr[x][i][2]] = level[arr[x][i][2]] /\ part2[x] = part[x] /\ level2[x] = level[x]
        BY <1>6, <1>7, <4>2, <4>4
      <4> QED BY <3>1, <4>1, <4>2, <4>4, <4>5 DEF ChildOK
    <3> QED BY <3>1, <3>2
  <2> QED BY <1>6, <2>1 DEF InnerOK, Leads
<1> QED BY <1>3, <1>4, <1>10, <1>11, <1>12, <1>13, <1>14, <1>15 DEF Shape
-----------------------------------------------------------------------------
(* A leaf changes, or is the first one.                                    *)

\* d2 is d but for what it says of key.
DiffersAt(d, d2, key) ==
    \A k \in Keys : k # key => /\ k \in DOMAIN d2 <=> k \in DOMAIN d
                               /\ k \in DOMAIN d => d2[k] = d[k]

\* Changing one key in the leaf that has it changes the dictionary the tree
\* stands for at that key and nowhere else.
LEMMA LeafChange ==
    ASSUME NEW D, NEW arr, NEW par, NEW root, NEW part, NEW level, NEW d, NEW d2,
           Shape(D, arr, par, root, part, level, d),
           NEW p \in D, level[p] = 0, NEW key \in part[p], DiffersAt(d, d2, key),
           NEW b \in Seq(Entry), InOrder(b, 0), LeafHolds(b, part[p], d2),
           NEW arr2, arr2 = [arr EXCEPT ![p] = b]
    PROVE  Shape(D, arr2, par, root, part, level, d2)
<1>1. /\ arr2 \in [D -> Seq(Entry)] /\ arr2[p] = b
      /\ \A x \in D : x # p => arr2[x] = arr[x]
  BY DEF Shape, Types
<1>2. Types(D, arr2, par, part, level)
  BY <1>1 DEF Shape, Types
<1>3. Rooted(D, par, part, level, root)
  BY DEF Shape
<1>4. PartsOK(D, arr2, part, level)
  BY <1>1 DEF Shape, PartsOK
<1>5. ChildrenOK(D, arr2, par, level, root)
  <2>1. \A y \in D : y # root =>
            /\ par[y] \in D /\ level[par[y]] > 0
            /\ \E i \in 1 .. Len(arr[par[y]]) : arr[par[y]][i][2] = y
    BY DEF Shape, ChildrenOK
  <2>2. \A y \in D : y # root => par[y] # p
    BY <2>1
  <2> QED BY <1>1, <2>1, <2>2 DEF ChildrenOK
<1>6. InnerOK(D, arr2, par, part, level)
  <2>1. ASSUME NEW x \in D, level[x] > 0
        PROVE  Leads(D, arr2, par, part, level, x)
    <3>1. arr2[x] = arr[x]
      BY <1>1, <2>1
    <3>2. Leads(D, arr, par, part, level, x)
      BY <2>1 DEF Shape, InnerOK
    <3> QED BY <3>1, <3>2 DEF Leads, ChildOK
  <2> QED BY <2>1 DEF InnerOK
<1>7. LeavesOK(D, arr2, part, level, d2)
  <2>1. \A x \in D : level[x] = 0 => LeafHolds(arr[x], part[x], d)
    BY DEF Shape, LeavesOK
  <2>2. \A x, y \in D : level[x] = 0 /\ level[y] = 0 /\ x # y => part[x] \cap part[y] = {}
    BY DEF Shape, LeavesOK
  <2>3. ASSUME NEW x \in D, level[x] = 0, x # p
        PROVE  LeafHolds(arr2[x], part[x], d2)
    <3>1. LeafHolds(arr[x], part[x], d) /\ arr2[x] = arr[x]
      BY <1>1, <2>1, <2>3
    <3>2. key \notin part[x] /\ part[x] \subseteq Keys
      BY <2>2, <2>3, EntryFacts
    <3>3. \A k \in part[x] : (k \in DOMAIN d2 <=> k \in DOMAIN d) /\ (k \in DOMAIN d => d2[k] = d[k])
      BY <3>2 DEF DiffersAt
    <3> QED BY <3>1, <3>3 DEF LeafHolds
  <2> QED BY <1>1, <2>2, <2>3 DEF LeavesOK
<1> QED BY <1>2, <1>3, <1>4, <1>5, <1>6, <1>7 DEF Shape

\* StartNewTree: one leaf is a tree.
LEMMA FirstLeaf ==
    ASSUME NEW p \in Nat, p # 0, NEW b \in Seq(Entry), InOrder(b, 0), NEW d, LeafHolds(b, Keys, d),
           Keys # {}, NEW arr, arr = [x \in {p} |-> b], NEW par, par = [x \in {p} |-> INVALID_PAGE_ID],
           NEW part, part = [x \in {p} |-> Keys], NEW level, level = [x \in {p} |-> 0]
    PROVE  Shape({p}, arr, par, p, part, level, d)
<1>1. arr[p] = b /\ par[p] = INVALID_PAGE_ID /\ part[p] = Keys /\ level[p] = 0
  OBVIOUS
<1>2. Types({p}, arr, par, part, level)
  <2>1. IsFiniteSet({p})
    BY FS_Singleton
  <2>2. INVALID_PAGE_ID \in Int
    BY DEF INVALID_PAGE_ID
  <2> QED BY <2>1, <2>2 DEF Types
<1>3. Rooted({p}, par, part, level, p)
  BY <1>1 DEF Rooted
<1>4. PartsOK({p}, arr, part, level)
  BY <1>1 DEF PartsOK, Convex
<1>5. ChildrenOK({p}, arr, par, level, p)
  BY DEF ChildrenOK
<1>6. InnerOK({p}, arr, par, part, level)
  BY <1>1 DEF InnerOK
<1>7. LeavesOK({p}, arr, part, level, d)
  BY <1>1 DEF LeavesOK
<1> QED BY <1>2, <1>3, <1>4, <1>5, <1>6, <1>7 DEF Shape

-----------------------------------------------------------------------------
(* The chain of leaves: the next one has the part of the keys that follows *)
(* without a gap, and only the leaf with the largest keys has no next one. *)

FollowedBy(P, Q) ==
    \A i \in P : \A j \in Q : i < j /\ \A k \in Keys : i < k /\ k < j => k \in P \cup Q

Topmost(P) == \A i \in P : \A k \in Keys : i < k => k \in P

Linked(D, nxt, part, level) ==
    \A p \in D : nxt[p] # INVALID_PAGE_ID =>
        /\ level[p] = 0 /\ nxt[p] \in D /\ level[nxt[p]] = 0
        /\ FollowedBy(part[p], part[nxt[p]])

Ended(D, nxt, part, level) ==
    \A p \in D : level[p] = 0 /\ nxt[p] = INVALID_PAGE_ID => Topmost(part[p])

Chain(D, nxt, part, level) ==
    /\ nxt \in [D -> Int]
    /\ Linked(D, nxt, part, level)
    /\ Ended(D, nxt, part, level)

\* The upper half of a part without larger keys beyond it.
LEMMA TopmostCut ==
    ASSUME NEW P \in SUBSET Keys, Topmost(P), NEW key \in Int
    PROVE  Topmost(KeysFrom(P, key))
<1>1. Keys \subseteq Int
  BY TreeAssumption
<1> QED BY <1>1 DEF Topmost, KeysFrom

\* Nothing lies beyond the union if nothing lies beyond the second part.
LEMMA TopmostJoin ==
    ASSUME NEW P \in SUBSET Keys, NEW Q \in SUBSET Keys, Q # {}, FollowedBy(P, Q), Topmost(Q)
    PROVE  Topmost(P \cup Q)
<1>1. Keys \subseteq Int
  BY TreeAssumption
<1>2. ASSUME NEW i \in P \cup Q, NEW k \in Keys, i < k
      PROVE  k \in P \cup Q
  <2>1. CASE i \in Q
    BY <1>2, <2>1 DEF Topmost
  <2>2. CASE i \in P
    <3>1. PICK y \in Q : TRUE
      OBVIOUS
    <3>2. k < y \/ k = y \/ y < k
      BY <1>1
    <3>3. CASE k < y
      BY <1>2, <2>2, <3>3 DEF FollowedBy
    <3>4. CASE y < k
      BY <3>4 DEF Topmost
    <3> QED BY <3>2, <3>3, <3>4
  <2> QED BY <2>1, <2>2
<1> QED BY <1>2 DEF Topmost

\* A part that is followed by another has larger keys beyond it.
LEMMA NotTopmost ==
    ASSUME NEW P \in SUBSET Keys, NEW Q \in SUBSET Keys, P # {}, Q # {}, FollowedBy(P, Q)
    PROVE  ~Topmost(P)
<1>1. Keys \subseteq Int
  BY TreeAssumption
<1>2. PICK x \in P, y \in Q : TRUE
  OBVIOUS
<1>3. x < y
  BY <1>2 DEF FollowedBy
<1>4. SUFFICES ASSUME Topmost(P) PROVE FALSE
  OBVIOUS
<1>5. y \in P
  BY <1>2, <1>3, <1>4 DEF Topmost
<1>6. y < y
  BY <1>2, <1>5 DEF FollowedBy
<1> QED BY <1>1, <1>2, <1>6

\* What follows two adjacent parts follows their union.
LEMMA FollowedJoin ==
    ASSUME NEW X \in SUBSET Keys, NEW P \in SUBSET Keys, NEW Q \in SUBSET Keys,
           NEW Y \in SUBSET Keys, P # {}, Q # {}, FollowedBy(P, Q)
    PROVE  /\ FollowedBy(X, P) => FollowedBy(X, P \cup Q)
           /\ FollowedBy(Q, Y) => FollowedBy(P \cup Q, Y)
<1>1. Keys \subseteq Int
  BY TreeAssumption
<1>2. ASSUME FollowedBy(X, P), NEW i \in X, NEW j \in P \cup Q
      PROVE  i < j /\ \A k \in Keys : i < k /\ k < j => k \in X \cup (P \cup Q)
  <2>1. CASE j \in P
    BY <1>2, <2>1 DEF FollowedBy
  <2>2. CASE j \in Q
    <3>1. PICK n \in P : TRUE
      OBVIOUS
    <3>2. i < n /\ n < j
      BY <1>2, <2>2 DEF FollowedBy
    <3>3. ASSUME NEW k \in Keys, i < k, k < j PROVE k \in X \cup (P \cup Q)
      <4>1. k < n \/ k = n \/ n < k
        BY <1>1
      <4>2. CASE k < n
        BY <1>2, <3>3, <4>2 DEF FollowedBy
      <4>3. CASE n < k
        BY <2>2, <3>3, <4>3 DEF FollowedBy
      <4> QED BY <4>1, <4>2, <4>3
    <3> QED BY <1>1, <2>2, <3>2, <3>3
  <2> QED BY <2>1, <2>2
<1>3. ASSUME FollowedBy(Q, Y), NEW i \in P \cup Q, NEW j \in Y
      PROVE  i < j /\ \A k \in Keys : i < k /\ k < j => k \in (P \cup Q) \cup Y
  <2>1. CASE i \in Q
    BY <1>3, <2>1 DEF FollowedBy
  <2>2. CASE i \in P
    <3>1. PICK n \in Q : TRUE
      OBVIOUS
    <3>2. i < n /\ n < j
      BY <1>3, <2>2 DEF FollowedBy
    <3>3. ASSUME NEW k \in Keys, i < k, k < j PROVE k \in (P \cup Q) \cup Y
      <4>1. k < n \/ k = n \/ n < k
        BY <1>1
      <4>2. CASE k < n
        BY <2>2, <3>3, <4>2 DEF FollowedBy
      <4>3. CASE n < k
        BY <1>3, <3>3, <4>3 DEF FollowedBy
      <4> QED BY <4>1, <4>2, <4>3
    <3> QED BY <1>1, <2>2, <3>2, <3>3
  <2> QED BY <2>1, <2>2
<1> QED BY <1>2, <1>3 DEF FollowedBy

\* The halves of a part follow each other, between what came before and after.
LEMMA FollowedCut ==
    ASSUME NEW X \in SUBSET Keys, NEW P \in SUBSET Keys, NEW Y \in SUBSET Keys,
           Convex(P), NEW key \in Int
    PROVE  /\ FollowedBy(KeysBelow(P, key), KeysFrom(P, key))
           /\ FollowedBy(X, P) => FollowedBy(X, KeysBelow(P, key))
           /\ FollowedBy(P, Y) => FollowedBy(KeysFrom(P, key), Y)
<1>1. Keys \subseteq Int
  BY TreeAssumption
<1>2. FollowedBy(KeysBelow(P, key), KeysFrom(P, key))
  BY <1>1 DEF FollowedBy, Convex, KeysBelow, KeysFrom
<1>3. FollowedBy(X, P) => FollowedBy(X, KeysBelow(P, key))
  BY <1>1 DEF FollowedBy, KeysBelow
<1>4. FollowedBy(P, Y) => FollowedBy(KeysFrom(P, key), Y)
  BY <1>1 DEF FollowedBy, KeysFrom
<1> QED BY <1>2, <1>3, <1>4

\* Two parts that one follows have a key in common.
LEMMA FollowedOnce ==
    ASSUME NEW X \in SUBSET Keys, NEW P \in SUBSET Keys, NEW Q \in SUBSET Keys,
           X # {}, P # {}, Q # {}, FollowedBy(P, Q), FollowedBy(X, Q)
    PROVE  X \cap P # {}
<1>1. Keys \subseteq Int
  BY TreeAssumption
<1>2. PICK x \in X, p \in P, q \in Q : TRUE
  OBVIOUS
<1>3. x < q /\ p < q
  BY <1>2 DEF FollowedBy
<1>4. x \notin Q /\ p \notin Q
  <2>1. ~(x < x) /\ ~(p < p)
    BY <1>1
  <2> QED BY <2>1 DEF FollowedBy
<1>5. x < p \/ x = p \/ p < x
  BY <1>1
<1>6. x < p => p \in X
  BY <1>3, <1>4 DEF FollowedBy
<1>7. p < x => x \in P
  BY <1>3, <1>4 DEF FollowedBy
<1> QED BY <1>5, <1>6, <1>7

\* Neighbours below one parent.
LEMMA Siblings ==
    ASSUME NEW D, NEW arr, NEW par, NEW root, NEW part, NEW level, NEW d,
           Shape(D, arr, par, root, part, level, d),
           NEW f \in D, level[f] > 0, NEW j \in Nat, 0 < j, j < Len(arr[f]),
           NEW p, p = arr[f][j][2], NEW q, q = arr[f][j + 1][2]
    PROVE  FollowedBy(part[p], part[q])
<1>1. /\ Len(arr[f]) \in Nat /\ j \in 1 .. Len(arr[f]) /\ j + 1 \in 1 .. Len(arr[f])
      /\ \A i \in 1 .. Len(arr[f]) : arr[f][i][1] \in Int
  BY EntryFacts
<1>2. ChildOK(D, arr, par, part, level, f, j) /\ ChildOK(D, arr, par, part, level, f, j + 1)
  BY <1>1, ChildFacts
<1>3. p \in D /\ q \in D
  BY <1>2 DEF ChildOK
<1>4. part[p] \subseteq Keys /\ part[q] \subseteq Keys /\ Keys \subseteq Int
  BY <1>3, EntryFacts, TreeAssumption
<1>5. \A k \in Keys : /\ k \in part[p] <=> k \in part[f] /\ Between(arr[f], j, k)
                      /\ k \in part[q] <=> k \in part[f] /\ Between(arr[f], j + 1, k)
  BY <1>2 DEF ChildOK
<1>6. Convex(part[f])
  BY DEF Shape, PartsOK
<1> SUFFICES ASSUME NEW x \in part[p], NEW y \in part[q]
             PROVE  x < y /\ \A k \in Keys : x < k /\ k < y => k \in part[p] \cup part[q]
  BY DEF FollowedBy
<1>7. /\ x \in part[f] /\ Between(arr[f], j, x) /\ y \in part[f] /\ Between(arr[f], j + 1, y)
      /\ x \in Int /\ y \in Int
  BY <1>4, <1>5
<1>8. x < arr[f][j + 1][1] /\ arr[f][j + 1][1] <= y /\ x < y
  <2>1. x < arr[f][j + 1][1] /\ arr[f][j + 1][1] <= y
    BY <1>1, <1>7 DEF Between
  <2> QED BY <1>1, <1>7, <2>1
<1>9. ASSUME NEW k \in Keys, x < k, k < y PROVE k \in part[p] \cup part[q]
  <2>1. k \in part[f] /\ k \in Int
    BY <1>4, <1>6, <1>7, <1>9 DEF Convex
  <2>2. CASE k < arr[f][j + 1][1]
    <3>1. Between(arr[f], j, k)
      BY <1>1, <1>7, <1>9, <2>1, <2>2 DEF Between
    <3> QED BY <1>5, <2>1, <3>1
  <2>3. CASE ~(k < arr[f][j + 1][1])
    <3>1. j + 1 < Len(arr[f]) => (j + 1) + 1 \in 1 .. Len(arr[f])
      BY <1>1
    <3>2. Between(arr[f], j + 1, k)
      BY <1>1, <1>7, <1>9, <2>1, <2>3, <3>1 DEF Between
    <3> QED BY <1>5, <2>1, <3>2
  <2> QED BY <2>2, <2>3
<1> QED BY <1>8, <1>9

\* The chain once p is split, the new page being q, or merged with q.
NextSplit(D, nxt, level, p, q, nxt2) ==
    /\ nxt2 \in [D \cup {q} -> Int] /\ nxt2[q] = nxt[p]
    /\ \A x \in D : nxt2[x] = IF x = p /\ level[p] = 0 THEN q ELSE nxt[x]

NextMerged(D, nxt, p, q, nxt2) ==
    /\ nxt2 \in [D \ {q} -> Int] /\ nxt2[p] = nxt[q]
    /\ \A x \in D : x # p /\ x # q => nxt2[x] = nxt[x]

\* The leaves among D and their links are those among E.
SameLinks(D, E, nxt, part, level, nxt2, part2, level2) ==
    /\ nxt2 \in [E -> Int]
    /\ \A x \in E : x \notin D => nxt2[x] = INVALID_PAGE_ID /\ level2[x] # 0
    /\ \A x \in D : level[x] = 0 => x \in E
    /\ \A x \in E : x \in D => nxt2[x] = nxt[x] /\ part2[x] = part[x] /\ level2[x] = level[x]

\* A split keeps the chain of leaves when next is passed on to the new page.
LEMMA ChainSplit ==
    ASSUME NEW D, NEW arr, NEW par, NEW root, NEW part, NEW level, NEW d,
           Shape(D, arr, par, root, part, level, d), NEW nxt, Chain(D, nxt, part, level),
           NEW p \in D, NEW q \in Nat, q \notin D, NEW key \in Int,
           NEW part2, part2 = SplitPart(D, part, p, q, key),
           NEW level2, level2 = SplitLevel(D, level, p, q),
           NEW nxt2, NextSplit(D, nxt, level, p, q, nxt2)
    PROVE  Chain(D \cup {q}, nxt2, part2, level2)
<1> /\ nxt2 \in [D \cup {q} -> Int] /\ nxt2[q] = nxt[p]
    /\ \A x \in D : nxt2[x] = IF x = p /\ level[p] = 0 THEN q ELSE nxt[x]
  BY DEF NextSplit
<1>1. part \in [D -> SUBSET Keys] /\ level \in [D -> Nat]
  BY DEF Shape, Types
<1>2. /\ part2[p] = KeysBelow(part[p], key) /\ part2[q] = KeysFrom(part[p], key)
      /\ \A x \in D : x # p => part2[x] = part[x]
  BY <1>1 DEF SplitPart
<1>3. level2[q] = level[p] /\ \A x \in D : level2[x] = level[x]
  BY <1>1 DEF SplitLevel
<1>4. \A x \in D : nxt[x] # INVALID_PAGE_ID =>
          /\ level[x] = 0 /\ nxt[x] \in D /\ level[nxt[x]] = 0
          /\ FollowedBy(part[x], part[nxt[x]])
  BY DEF Chain, Linked
<1>5. Convex(part[p]) /\ part[p] # {}
  BY DEF Shape, PartsOK
<1>6. FollowedBy(part2[p], part2[q])
  <2>1. part[p] \in SUBSET Keys
    BY <1>1
  <2>2. FollowedBy(KeysBelow(part[p], key), KeysFrom(part[p], key))
    BY <1>5, <2>1, FollowedCut
  <2> QED BY <1>2, <2>2
<1>7. ASSUME NEW x \in D, nxt[x] # INVALID_PAGE_ID, x # p
      PROVE  FollowedBy(part2[x], part2[nxt[x]])
  <2>1. CASE nxt[x] = p
    <3>1. FollowedBy(part[x], part[p]) /\ part[x] \in SUBSET Keys /\ part[p] \in SUBSET Keys
      BY <1>1, <1>4, <1>7, <2>1
    <3>2. FollowedBy(part[x], KeysBelow(part[p], key))
      BY <1>5, <3>1, FollowedCut
    <3> QED BY <1>2, <1>7, <2>1, <3>2
  <2>2. CASE nxt[x] # p
    BY <1>2, <1>4, <1>7, <2>2
  <2> QED BY <2>1, <2>2
<1>8. ASSUME nxt[p] # INVALID_PAGE_ID
      PROVE  FollowedBy(part2[q], part2[nxt[p]])
  <2>1. nxt[p] \in D /\ FollowedBy(part[p], part[nxt[p]])
    BY <1>4, <1>8
  <2>2. nxt[p] # p
    <3>1. SUFFICES ASSUME FollowedBy(part[p], part[p]) PROVE FALSE
      BY <2>1
    <3>2. PICK k \in part[p] : k \in Int
      BY <1>5, EntryFacts
    <3>3. k < k
      BY <3>1 DEF FollowedBy
    <3> QED BY <3>2, <3>3
  <2>3. FollowedBy(KeysFrom(part[p], key), part[nxt[p]])
    <3>1. part[p] \in SUBSET Keys /\ part[nxt[p]] \in SUBSET Keys
      BY <1>1, <2>1
    <3> QED BY <1>5, <2>1, <3>1, FollowedCut
  <2> QED BY <1>2, <2>1, <2>2, <2>3
<1>9. ASSUME NEW x \in D \cup {q}, nxt2[x] # INVALID_PAGE_ID
      PROVE  /\ level2[x] = 0 /\ nxt2[x] \in D \cup {q} /\ level2[nxt2[x]] = 0
             /\ FollowedBy(part2[x], part2[nxt2[x]])
  <2>1. CASE x = q
    BY <1>3, <1>4, <1>8, <1>9, <2>1
  <2>2. CASE x = p /\ level[p] = 0
    BY <1>3, <1>6, <2>2
  <2>3. CASE x \in D /\ ~(x = p /\ level[p] = 0)
    <3>1. nxt2[x] = nxt[x]
      BY <2>3
    <3>2. level[x] = 0 /\ nxt[x] \in D /\ level[nxt[x]] = 0
      BY <1>4, <1>9, <2>3, <3>1
    <3>3. x # p
      BY <2>3, <3>2
    <3> QED BY <1>3, <1>7, <1>9, <2>3, <3>1, <3>2, <3>3
  <2> QED BY <2>1, <2>2, <2>3
<1>10. \A x \in D : level[x] = 0 /\ nxt[x] = INVALID_PAGE_ID => Topmost(part[x])
  BY DEF Chain, Ended
<1>11. ASSUME NEW x \in D \cup {q}, level2[x] = 0, nxt2[x] = INVALID_PAGE_ID
       PROVE  Topmost(part2[x])
  <2>1. CASE x = q
    <3>1. Topmost(part[p]) /\ part[p] \in SUBSET Keys
      BY <1>1, <1>3, <1>10, <1>11, <2>1
    <3>2. Topmost(KeysFrom(part[p], key))
      BY ONLY key \in Int, <3>1, TopmostCut
    <3> QED BY ONLY <1>2, <2>1, <3>2
  <2>2. CASE x = p
    <3>1. level[p] = 0
      BY <1>3, <1>11, <2>2
    <3>2. nxt2[p] = q
      BY <3>1
    <3> QED BY <1>11, <2>2, <3>2 DEF INVALID_PAGE_ID
  <2>3. CASE x \in D /\ x # p
    BY <1>2, <1>3, <1>10, <1>11, <2>3
  <2> QED BY <2>1, <2>2, <2>3
<1> QED BY <1>9, <1>11 DEF Chain, Linked, Ended

\* A merge keeps the chain of leaves when next is taken over.
LEMMA ChainMerge ==
    ASSUME NEW D, NEW arr, NEW par, NEW root, NEW part, NEW level, NEW d,
           Shape(D, arr, par, root, part, level, d), NEW nxt, Chain(D, nxt, part, level),
           NEW p \in D, NEW q \in D, p # q, level[p] = level[q], FollowedBy(part[p], part[q]),
           NEW part2, part2 = MergePart(D, part, p, q),
           NEW level2, level2 = MergeLevel(D, level, q),
           NEW nxt2, NextMerged(D, nxt, p, q, nxt2)
    PROVE  Chain(D \ {q}, nxt2, part2, level2)
<1> /\ nxt2 \in [D \ {q} -> Int] /\ nxt2[p] = nxt[q]
    /\ \A x \in D : x # p /\ x # q => nxt2[x] = nxt[x]
  BY DEF NextMerged
<1>1. part \in [D -> SUBSET Keys] /\ level \in [D -> Nat]
  BY DEF Shape, Types
<1>2. part2[p] = part[p] \cup part[q] /\ \A x \in D : x # p /\ x # q => part2[x] = part[x]
  BY <1>1 DEF MergePart
<1>3. \A x \in D : x # q => level2[x] = level[x]
  BY <1>1 DEF MergeLevel
<1>4. \A x \in D : nxt[x] # INVALID_PAGE_ID =>
          /\ level[x] = 0 /\ nxt[x] \in D /\ level[nxt[x]] = 0
          /\ FollowedBy(part[x], part[nxt[x]])
  BY DEF Chain, Linked
<1>5. \A x \in D : part[x] # {} /\ part[x] \in SUBSET Keys
  BY <1>1 DEF Shape, PartsOK
<1>a. Keys \subseteq Int
  BY TreeAssumption
<1>6. \A x, y \in D : level[x] = 0 /\ level[y] = 0 /\ x # y => part[x] \cap part[y] = {}
  BY DEF Shape, LeavesOK
<1>7. ASSUME NEW x \in D, x # p, x # q, nxt[x] # INVALID_PAGE_ID
      PROVE  nxt[x] # q /\ FollowedBy(part2[x], part2[nxt[x]])
  <2>1. level[x] = 0 /\ nxt[x] \in D /\ level[nxt[x]] = 0 /\ FollowedBy(part[x], part[nxt[x]])
    BY <1>4, <1>7
  <2>2. nxt[x] # q
    <3>1. SUFFICES ASSUME nxt[x] = q PROVE FALSE
      OBVIOUS
    <3>2. part[x] \cap part[p] # {}
      BY <1>5, <2>1, <3>1, FollowedOnce
    <3> QED BY <1>6, <1>7, <2>1, <3>1, <3>2
  <2>3. CASE nxt[x] = p
    <3>1. FollowedBy(part[x], part[p] \cup part[q])
      BY <1>5, <2>1, <2>3, FollowedJoin
    <3> QED BY <1>2, <1>7, <2>2, <2>3, <3>1
  <2>4. CASE nxt[x] # p
    BY <1>2, <1>7, <2>1, <2>2, <2>4
  <2> QED BY <2>3, <2>4
<1>8. ASSUME nxt[q] # INVALID_PAGE_ID
      PROVE  /\ nxt[q] # p /\ nxt[q] # q /\ nxt[q] \in D /\ level[q] = 0 /\ level[nxt[q]] = 0
             /\ FollowedBy(part2[p], part2[nxt[q]])
  <2>1. level[q] = 0 /\ nxt[q] \in D /\ level[nxt[q]] = 0 /\ FollowedBy(part[q], part[nxt[q]])
    BY <1>4, <1>8
  <2>2. PICK x \in part[p], y \in part[q] : x \in Int /\ y \in Int
    BY <1>5, <1>a
  <2>3. x < y
    BY <2>2 DEF FollowedBy
  <2>4. nxt[q] # p
    <3>1. SUFFICES ASSUME FollowedBy(part[q], part[p]) PROVE FALSE
      BY <2>1
    <3>2. y < x
      BY <2>2, <3>1 DEF FollowedBy
    <3> QED BY <2>2, <2>3, <3>2
  <2>5. nxt[q] # q
    <3>1. SUFFICES ASSUME FollowedBy(part[q], part[q]) PROVE FALSE
      BY <2>1
    <3>2. y < y
      BY <2>2, <3>1 DEF FollowedBy
    <3> QED BY <2>2, <3>2
  <2>6. FollowedBy(part[p] \cup part[q], part[nxt[q]])
    BY <1>5, <2>1, FollowedJoin
  <2> QED BY <1>2, <2>1, <2>4, <2>5, <2>6
<1>9. ASSUME NEW x \in D \ {q}, nxt2[x] # INVALID_PAGE_ID
      PROVE  /\ level2[x] = 0 /\ nxt2[x] \in D \ {q} /\ level2[nxt2[x]] = 0
             /\ FollowedBy(part2[x], part2[nxt2[x]])
  <2>1. CASE x = p
    BY <1>3, <1>8, <1>9, <2>1
  <2>2. CASE x # p
    <3>1. nxt2[x] = nxt[x] /\ nxt[x] # INVALID_PAGE_ID
      BY <1>9, <2>2
    <3>2. level[x] = 0 /\ nxt[x] \in D /\ level[nxt[x]] = 0
      BY <1>4, <3>1
    <3> QED BY <1>3, <1>7, <2>2, <3>1, <3>2
  <2> QED BY <2>1, <2>2
<1>10. \A x \in D : level[x] = 0 /\ nxt[x] = INVALID_PAGE_ID => Topmost(part[x])
  BY DEF Chain, Ended
<1>11. ASSUME NEW x \in D \ {q}, level2[x] = 0, nxt2[x] = INVALID_PAGE_ID
       PROVE  Topmost(part2[x])
  <2>1. CASE x = p
    <3>1. Topmost(part[q])
      BY <1>3, <1>10, <1>11, <2>1
    <3>2. Topmost(part[p] \cup part[q])
      BY ONLY p \in D, q \in D, FollowedBy(part[p], part[q]), <1>5, <3>1, TopmostJoin
    <3> QED BY ONLY <1>2, <2>1, <3>2
  <2>2. CASE x # p
    BY <1>2, <1>3, <1>10, <1>11, <2>2
  <2> QED BY <2>1, <2>2
<1> QED BY <1>9, <1>11 DEF Chain, Linked, Ended

\* Pages that keep level, part and next keep the chain.
LEMMA ChainKept ==
    ASSUME NEW D, NEW E, NEW nxt, NEW part, NEW level, Chain(D, nxt, part, level),
           NEW nxt2, NEW part2, NEW level2, SameLinks(D, E, nxt, part, level, nxt2, part2, level2)
    PROVE  Chain(E, nxt2, part2, level2)
<1> /\ nxt2 \in [E -> Int]
    /\ \A x \in E : x \notin D => nxt2[x] = INVALID_PAGE_ID /\ level2[x] # 0
    /\ \A x \in D : level[x] = 0 => x \in E
    /\ \A x \in E : x \in D => nxt2[x] = nxt[x] /\ part2[x] = part[x] /\ level2[x] = level[x]
  BY DEF SameLinks
<1>1. \A x \in D : nxt[x] # INVALID_PAGE_ID =>
          /\ level[x] = 0 /\ nxt[x] \in D /\ level[nxt[x]] = 0
          /\ FollowedBy(part[x], part[nxt[x]])
  BY DEF Chain, Linked
<1>2. ASSUME NEW x \in E, nxt2[x] # INVALID_PAGE_ID
      PROVE  /\ level2[x] = 0 /\ nxt2[x] \in E /\ level2[nxt2[x]] = 0
             /\ FollowedBy(part2[x], part2[nxt2[x]])
  <2>1. x \in D /\ nxt2[x] = nxt[x] /\ part2[x] = part[x] /\ level2[x] = level[x]
    BY <1>2
  <2>2. level[x] = 0 /\ nxt[x] \in D /\ level[nxt[x]] = 0 /\ FollowedBy(part[x], part[nxt[x]])
    BY <1>1, <1>2, <2>1
  <2>3. nxt[x] \in E /\ part2[nxt[x]] = part[nxt[x]] /\ level2[nxt[x]] = level[nxt[x]]
    BY <2>2
  <2> QED BY <2>1, <2>2, <2>3
<1>3. ASSUME NEW x \in E, level2[x] = 0, nxt2[x] = INVALID_PAGE_ID
      PROVE  Topmost(part2[x])
  <2>1. x \in D /\ nxt2[x] = nxt[x] /\ part2[x] = part[x] /\ level2[x] = level[x]
    BY <1>3
  <2> QED BY <1>3, <2>1 DEF Chain, Ended
<1> QED BY <1>2, <1>3 DEF Chain, Linked, Ended

-----------------------------------------------------------------------------
(* The way down.                                                           *)

\* Min of a set of numbers is its least element.
LEMMA MinLemma ==
    ASSUME NEW T \in SUBSET Nat, T # {}
    PROVE  Min(T) \in T /\ \A y \in T : Min(T) <= y
<1> DEFINE R == OpToRel(<, Nat)
<1>1. IsWellFoundedOn(R, Nat)
  BY NatLessThanWellFounded
<1>2. PICK x \in T : \A y \in T : ~(<<y, x>> \in R)
  <2> HIDE DEF R
  <2> QED BY <1>1, WFMin
<1>3. ASSUME NEW y \in T PROVE x <= y
  <2>1. ~(<<y, x>> \in R) /\ x \in Nat /\ y \in Nat
    BY <1>2
  <2>2. ~(y < x)
    BY <2>1 DEF OpToRel
  <2> HIDE DEF R
  <2> QED BY <2>1, <2>2
<1> HIDE DEF R
<1> QED BY <1>3 DEF Min

\* Max of a bounded set of numbers is its greatest element.
LEMMA MaxLemma ==
    ASSUME NEW n \in Nat, NEW T \in SUBSET (0 .. n), T # {}
    PROVE  Max(T) \in T /\ \A y \in T : Max(T) >= y
<1> DEFINE U == {n - y : y \in T}
<1>1. U \in SUBSET Nat /\ U # {}
  <2>1. \A y \in T : n - y \in Nat
    OBVIOUS
  <2>2. U # {}
    OBVIOUS
  <2> QED BY <2>1, <2>2
<1>2. Min(U) \in U /\ \A y \in U : Min(U) <= y
  <2> HIDE DEF U
  <2> QED BY <1>1, MinLemma
<1>3. PICK x \in T : Min(U) = n - x
  BY <1>2
<1>4. ASSUME NEW y \in T PROVE x >= y
  <2>1. n - x <= n - y
    BY <1>2, <1>3
  <2> QED BY <2>1
<1> QED BY <1>4 DEF Max

\* Lookup takes the entry that key lies behind.
LEMMA LookupLemma ==
    ASSUME NEW a \in Seq(Entry), Len(a) > 0, NEW key \in Int
    PROVE  \E i \in 1 .. Len(a) : Lookup(a, key) = a[i][2] /\ Between(a, i, key)
<1> DEFINE T == {1} \cup {i \in 2 .. Len(a) : a[i][1] <= key}
<1>1. Len(a) \in Nat /\ \A i \in 1 .. Len(a) : a[i][1] \in Int
  BY KeysAreInts
<1>2. T \in SUBSET (0 .. Len(a)) /\ T # {}
  BY <1>1
<1>3. PICK x : x = Max(T)
  OBVIOUS
<1>4. x \in T /\ \A y \in T : x >= y
  <2> HIDE DEF T
  <2> QED BY <1>1, <1>2, <1>3, MaxLemma
<1>5. x \in 1 .. Len(a)
  BY <1>1, <1>4
<1>6. x > 1 => a[x][1] <= key
  BY <1>4
<1>7. x < Len(a) => key < a[x + 1][1]
  <2>1. SUFFICES ASSUME x < Len(a) PROVE key < a[x + 1][1]
    OBVIOUS
  <2>2. x + 1 \in 2 .. Len(a) /\ a[x + 1][1] \in Int /\ ~(x >= x + 1)
    BY <1>1, <1>5, <2>1
  <2>3. ~(a[x + 1][1] <= key)
    BY <1>4, <2>2
  <2> QED BY <2>2, <2>3
<1>8. Lookup(a, key) = a[x][2]
  BY <1>3 DEF Lookup
<1> QED BY <1>5, <1>6, <1>7, <1>8 DEF Between

\* A function that goes down level by level is well-defined.
LEMMA Descent ==
    ASSUME NEW D, NEW level \in [D -> Nat], NEW leaf, NEW nx, NEW h \in Nat,
           \A p \in D : level[p] <= h,
           \A p \in D : ~leaf[p] => nx[p] \in D /\ level[nx[p]] < level[p]
    PROVE  \E g : g = [p \in D |-> IF leaf[p] THEN p ELSE g[nx[p]]]
<1> DEFINE Good(g, l) == \A p \in D : level[p] <= l => g[p] = IF leaf[p] THEN p ELSE g[nx[p]]
           S == {l \in Nat : \E g : Good(g, l)}
<1>1. 0 \in S
  <2>1. PICK g : g = [p \in D |-> p]
    OBVIOUS
  <2>2. Good(g, 0)
    <3>1. ASSUME NEW p \in D, level[p] <= 0 PROVE leaf[p]
      <4>1. level[p] = 0
        BY <3>1
      <4>2. ~leaf[p] => level[nx[p]] \in Nat /\ level[nx[p]] < 0
        BY <4>1
      <4> QED BY <4>2
    <3> QED BY <2>1, <3>1
  <2> QED BY <2>2
<1>2. ASSUME NEW l \in Nat, l \in S PROVE l + 1 \in S
  <2>1. PICK g : Good(g, l)
    BY <1>2
  <2>2. PICK g2 : g2 = [p \in D |-> IF level[p] <= l THEN g[p] ELSE IF leaf[p] THEN p ELSE g[nx[p]]]
    OBVIOUS
  <2>3. ASSUME NEW p \in D, level[p] <= l + 1
        PROVE  g2[p] = IF leaf[p] THEN p ELSE g2[nx[p]]
    <3>1. g2[p] = IF leaf[p] THEN p ELSE g[nx[p]]
      BY <2>1, <2>2
    <3>2. ~leaf[p] => g2[nx[p]] = g[nx[p]]
      <4>1. SUFFICES ASSUME ~leaf[p] PROVE g2[nx[p]] = g[nx[p]]
        OBVIOUS
      <4>2. nx[p] \in D /\ level[nx[p]] < level[p]
        BY <4>1
      <4>3. level[nx[p]] <= l
        BY <2>3, <4>2
      <4> QED BY <2>2, <4>2, <4>3
    <3> QED BY <3>1, <3>2
  <2>4. Good(g2, l + 1)
    BY <2>3
  <2> HIDE DEF Good
  <2> QED BY <2>4
<1>3. h \in S
  <2> HIDE DEF S
  <2> QED BY <1>1, <1>2, NatSetInduction
<1>4. PICK g : Good(g, h)
  BY <1>3
<1>5. PICK g2 : g2 = [p \in D |-> g[p]]
  OBVIOUS
<1>6. ASSUME NEW p \in D PROVE g[p] = IF leaf[p] THEN p ELSE g2[nx[p]]
  BY <1>4, <1>5
<1>7. g2 = [p \in D |-> IF leaf[p] THEN p ELSE g2[nx[p]]]
  BY <1>5, <1>6
<1> QED BY <1>7

\* The pages of t and its root.
TreeOf(t, D, arr, root, level) ==
    /\ DOMAIN t.nodes = D /\ t.root = root
    /\ \A p \in D : (t.nodes[p].leaf <=> level[p] = 0) /\ t.nodes[p].array = arr[p]

\* FindLeafPage comes to the leaf whose part has the key.
LEMMA FindLeaf ==
    ASSUME NEW D, NEW arr, NEW par, NEW root, NEW part, NEW level, NEW d,
           Shape(D, arr, par, root, part, level, d), NEW t, TreeOf(t, D, arr, root, level),
           NEW key \in Keys
    PROVE  /\ FindLeafPage(t, key) \in D /\ level[FindLeafPage(t, key)] = 0
           /\ key \in part[FindLeafPage(t, key)]
<1>1. /\ root \in D /\ part[root] = Keys /\ \A x \in D : level[x] <= level[root]
      /\ level \in [D -> Nat] /\ level[root] \in Nat /\ key \in Int
  BY TreeAssumption DEF Shape, Rooted, Types
<1>2. ASSUME NEW p \in D, level[p] # 0
      PROVE  /\ Lookup(arr[p], key) \in D /\ level[Lookup(arr[p], key)] + 1 = level[p]
             /\ key \in part[p] => key \in part[Lookup(arr[p], key)]
  <2>1. level[p] > 0 /\ arr[p] \in Seq(Entry)
    BY <1>2, EntryFacts
  <2>2. Len(arr[p]) > 0
    BY <2>1, ChildFacts
  <2>3. PICK i \in 1 .. Len(arr[p]) : Lookup(arr[p], key) = arr[p][i][2] /\ Between(arr[p], i, key)
    BY <1>1, <2>1, <2>2, LookupLemma
  <2>4. ChildOK(D, arr, par, part, level, p, i)
    BY <2>1, ChildFacts
  <2> QED BY <2>3, <2>4 DEF ChildOK
<1>3. /\ DOMAIN t.nodes = D /\ t.root = root
      /\ \A p \in D : (t.nodes[p].leaf <=> level[p] = 0) /\ t.nodes[p].array = arr[p]
  BY DEF TreeOf
<1>4. PICK leaf, nx : /\ leaf = [p \in D |-> t.nodes[p].leaf]
                      /\ nx = [p \in D |-> Lookup(t.nodes[p].array, key)]
  OBVIOUS
<1>5. \A p \in D : /\ nx[p] = Lookup(arr[p], key) /\ leaf[p] = t.nodes[p].leaf
                   /\ leaf[p] <=> level[p] = 0
  BY <1>3, <1>4
<1>6. \E g : g = [p \in D |-> IF leaf[p] THEN p ELSE g[nx[p]]]
  <2>1. ASSUME NEW p \in D, ~leaf[p] PROVE nx[p] \in D /\ level[nx[p]] < level[p]
    <3>1. level[p] # 0
      BY <1>5, <2>1
    <3>2. nx[p] \in D /\ level[nx[p]] + 1 = level[p]
      BY <1>2, <1>5, <3>1
    <3> QED BY <1>1, <3>2
  <2> QED BY <1>1, <2>1, Descent
<1>7. PICK g : g = [p \in D |-> IF leaf[p] THEN p ELSE g[nx[p]]]
  BY <1>6
<1>8. \E g2 : /\ g2 = [p \in DOMAIN t.nodes |->
                         IF t.nodes[p].leaf THEN p ELSE g2[Lookup(t.nodes[p].array, key)]]
  <2>1. \A p \in D : g[p] = IF t.nodes[p].leaf THEN p ELSE g[Lookup(t.nodes[p].array, key)]
    BY <1>3, <1>5, <1>7
  <2>2. g = [p \in D |-> IF t.nodes[p].leaf THEN p ELSE g[Lookup(t.nodes[p].array, key)]]
    BY <1>7, <2>1
  <2> QED BY <1>3, <2>2
<1>9. PICK g2 : /\ g2 = [p \in DOMAIN t.nodes |->
                         IF t.nodes[p].leaf THEN p ELSE g2[Lookup(t.nodes[p].array, key)]]
                /\ FindLeafPage(t, key) = g2[t.root]
  BY <1>8, BelowLemma
<1>10. \A p \in D : g2[p] = IF level[p] = 0 THEN p ELSE g2[Lookup(arr[p], key)]
  BY <1>3, <1>9
<1> DEFINE S == {l \in Nat : \A p \in D : level[p] = l /\ key \in part[p] =>
                      g2[p] \in D /\ level[g2[p]] = 0 /\ key \in part[g2[p]]}
<1>11. 0 \in S
  BY <1>10
<1>12. ASSUME NEW l \in Nat, l \in S PROVE l + 1 \in S
  <2>1. ASSUME NEW p \in D, level[p] = l + 1, key \in part[p]
        PROVE  g2[p] \in D /\ level[g2[p]] = 0 /\ key \in part[g2[p]]
    <3>1. level[p] # 0
      BY <2>1
    <3>2. g2[p] = g2[Lookup(arr[p], key)]
      BY <1>10, <3>1
    <3>3. Lookup(arr[p], key) \in D /\ level[Lookup(arr[p], key)] + 1 = l + 1 /\ key \in part[Lookup(arr[p], key)]
      BY <1>2, <2>1, <3>1
    <3>4. level[Lookup(arr[p], key)] = l
      BY <1>1, <3>3
    <3> QED BY <1>12, <3>2, <3>3, <3>4
  <2> QED BY <2>1
<1>13. level[root] \in S
  <2> HIDE DEF S
  <2> QED BY <1>1, <1>11, <1>12, NatSetInduction
<1> QED BY <1>1, <1>3, <1>9, <1>13

-----------------------------------------------------------------------------
(* Leaves.                                                                 *)

\* KeyIndex is the first entry that is not smaller than key.
LEMMA KeyIndexLemma ==
    ASSUME NEW a \in Seq(Entry), NEW key \in Int, NEW n, n = KeyIndex(a, key)
    PROVE  \/ n = 0 /\ \A x \in 1 .. Len(a) : a[x][1] < key
           \/ /\ n \in 1 .. Len(a) /\ a[n][1] >= key
              /\ \A x \in 1 .. Len(a) : x < n => a[x][1] < key
<1> DEFINE T == {i \in DOMAIN a : a[i][1] >= key}
<1>1. Len(a) \in Nat /\ DOMAIN a = 1 .. Len(a) /\ \A i \in 1 .. Len(a) : a[i][1] \in Int
  BY KeysAreInts
<1>2. n = IF T = {} THEN 0 ELSE Min(T)
  BY DEF KeyIndex
<1>3. CASE T = {}
  <2>1. \A x \in 1 .. Len(a) : ~(a[x][1] >= key)
    BY <1>1, <1>3
  <2> QED BY <1>1, <1>2, <1>3, <2>1
<1>4. CASE T # {}
  <2>1. T \in SUBSET Nat /\ n = Min(T)
    BY <1>1, <1>2, <1>4
  <2>2. n \in T /\ \A y \in T : n <= y
    <3> HIDE DEF T
    <3> QED BY <1>4, <2>1, MinLemma
  <2>3. n \in 1 .. Len(a) /\ a[n][1] >= key
    BY <1>1, <2>2
  <2>4. ASSUME NEW x \in 1 .. Len(a), x < n PROVE a[x][1] < key
    <3>1. x \notin T
      BY <2>2, <2>3, <2>4
    <3>2. ~(a[x][1] >= key)
      BY <1>1, <3>1
    <3> QED BY <1>1, <3>2
  <2> QED BY <2>3, <2>4
<1> QED BY <1>3, <1>4

\* In the leaf whose part has the key, the search finds it exactly when it is
\* in the dictionary, with its value.
LEMMA LeafFind ==
    ASSUME NEW a \in Seq(Entry), InOrder(a, 0), NEW P \in SUBSET Keys, NEW d, LeafHolds(a, P, d),
           NEW key \in P
    PROVE  /\ Has(a, key) <=> key \in DOMAIN d
           /\ Has(a, key) => KeyIndex(a, key) \in 1 .. Len(a) /\ a[KeyIndex(a, key)][2] = d[key]
<1>1. key \in Int /\ Len(a) \in Nat /\ \A i \in 1 .. Len(a) : a[i][1] \in Int
  BY TreeAssumption, KeysAreInts
<1>2. PICK n : n = KeyIndex(a, key)
  OBVIOUS
<1>3. \/ n = 0 /\ \A x \in 1 .. Len(a) : a[x][1] < key
      \/ /\ n \in 1 .. Len(a) /\ a[n][1] >= key
         /\ \A x \in 1 .. Len(a) : x < n => a[x][1] < key
  BY <1>1, <1>2, KeyIndexLemma
<1>4. Has(a, key) <=> n # 0 /\ a[n][1] = key
  BY <1>2 DEF Has
<1>5. Has(a, key) => n \in 1 .. Len(a) /\ key \in DOMAIN d /\ a[n][2] = d[key]
  BY <1>3, <1>4 DEF LeafHolds
<1>6. ASSUME key \in DOMAIN d PROVE Has(a, key)
  <2>1. PICK x \in 1 .. Len(a) : a[x][1] = key
    BY <1>6 DEF LeafHolds
  <2>2. n \in 1 .. Len(a) /\ a[n][1] >= key /\ n <= x
    BY <1>1, <1>3, <2>1
  <2>3. n = x \/ a[n][1] < a[x][1]
    BY <1>1, <2>2 DEF InOrder
  <2> QED BY <1>1, <1>4, <2>1, <2>2, <2>3
<1> QED BY <1>2, <1>5, <1>6

\* d2 gives key this value, or drops it.
Gives(d, d2, key, value) == key \in DOMAIN d2 /\ d2[key] = value /\ DiffersAt(d, d2, key)
Drops(d, d2, key) == key \notin DOMAIN d2 /\ DiffersAt(d, d2, key)

\* Insertion into a leaf with room keeps it in order and gives the key its
\* value, whether the key was there or not.
LEMMA LeafInsertLemma ==
    ASSUME NEW a \in Seq(Entry), InOrder(a, 0), NEW P \in SUBSET Keys, NEW d, LeafHolds(a, P, d),
           Len(a) < leaf_max_size, NEW key \in P, NEW value \in Values[key],
           NEW d2, Gives(d, d2, key, value), NEW b, b = LeafInsert(a, key, value)
    PROVE  /\ b \in Seq(Entry) /\ InOrder(b, 0) /\ LeafHolds(b, P, d2)
           /\ Len(b) \in {Len(a), Len(a) + 1} /\ Len(b) >= 1
<1>1. key \in Int /\ Len(a) \in Nat /\ \A i \in 1 .. Len(a) : a[i][1] \in Int
  BY TreeAssumption, KeysAreInts
<1>2. PICK n : n = KeyIndex(a, key)
  OBVIOUS
<1>3. \/ n = 0 /\ \A x \in 1 .. Len(a) : a[x][1] < key
      \/ /\ n \in 1 .. Len(a) /\ a[n][1] >= key
         /\ \A x \in 1 .. Len(a) : x < n => a[x][1] < key
  BY <1>1, <1>2, KeyIndexLemma
<1>4. PICK e : e = <<key, value>>
  OBVIOUS
<1>5. e \in Entry /\ e[1] = key /\ e[2] = value
  <2>1. value \in Datum
    BY DEF Datum
  <2> QED BY <1>1, <1>4, <2>1 DEF Entry
<1>6. b = IF n = 0 THEN Append(a, e) ELSE IF a[n][1] = key THEN ReplaceAt(a, n, e) ELSE InsertAt(a, n, e)
  <2>1. Len(a) # leaf_max_size
    BY <1>1, TreeAssumption
  <2> QED BY <1>2, <1>4, <2>1 DEF LeafInsert
<1>7. ASSUME NEW x \in 1 .. Len(a)
      PROVE  a[x][1] \in P /\ a[x][1] \in DOMAIN d /\ a[x][2] = d[a[x][1]]
  BY DEF LeafHolds
<1>8. ASSUME NEW x \in 1 .. Len(a), a[x][1] # key
      PROVE  a[x][1] \in P /\ a[x][1] \in DOMAIN d2 /\ a[x][2] = d2[a[x][1]]
  BY <1>7, <1>8 DEF Gives, DiffersAt
<1>9. ASSUME NEW k \in P, k \in DOMAIN d2, k # key PROVE \E x \in 1 .. Len(a) : a[x][1] = k
  BY <1>9 DEF Gives, DiffersAt, LeafHolds
<1>a. e[1] \in P /\ e[1] \in DOMAIN d2 /\ e[2] = d2[e[1]]
  BY <1>5 DEF Gives
<1>b. ASSUME NEW x \in 1 .. Len(a), NEW y \in 1 .. Len(a), x < y PROVE a[x][1] < a[y][1]
  BY <1>b DEF InOrder
<1>10. CASE n = 0
  <2>1. /\ b \in Seq(Entry) /\ Len(b) = Len(a) + 1 /\ b[Len(a) + 1] = e
        /\ \A x \in 1 .. Len(a) : b[x] = a[x]
    BY <1>5, <1>6, <1>10
  <2>2. \A x \in 1 .. Len(a) : a[x][1] < key
    BY <1>3, <1>10
  <2>3. InOrder(b, 0)
    <3> SUFFICES ASSUME NEW x \in 1 .. Len(b), NEW y \in 1 .. Len(b), x < y PROVE b[x][1] < b[y][1]
      BY DEF InOrder
    <3>1. x \in 1 .. Len(a) /\ (y \in 1 .. Len(a) \/ y = Len(a) + 1)
      BY <1>1, <2>1
    <3> QED BY <1>5, <1>b, <2>1, <2>2, <3>1
  <2>4. \A x \in 1 .. Len(a) : a[x][1] # key
    BY <1>1, <2>2
  <2>5. ASSUME NEW x \in 1 .. Len(b)
        PROVE  b[x][1] \in P /\ b[x][1] \in DOMAIN d2 /\ b[x][2] = d2[b[x][1]]
    <3>1. x \in 1 .. Len(a) \/ x = Len(a) + 1
      BY <1>1, <2>1
    <3> QED BY <1>8, <1>a, <2>1, <2>4, <3>1
  <2>6. ASSUME NEW k \in P, k \in DOMAIN d2 PROVE \E x \in 1 .. Len(b) : b[x][1] = k
    <3>1. CASE k = key
      <4>1. Len(a) + 1 \in 1 .. Len(b)
        BY <1>1, <2>1
      <4> QED BY <1>5, <2>1, <3>1, <4>1
    <3>2. CASE k # key
      <4>1. PICK x \in 1 .. Len(a) : a[x][1] = k
        BY <1>9, <2>6, <3>2
      <4>2. x \in 1 .. Len(b)
        BY <1>1, <2>1
      <4> QED BY <2>1, <4>1, <4>2
    <3> QED BY <3>1, <3>2
  <2>7. LeafHolds(b, P, d2)
    BY <2>5, <2>6 DEF LeafHolds
  <2> QED BY <1>1, <2>1, <2>3, <2>7
<1>11. CASE n # 0 /\ a[n][1] = key
  <2>1. n \in 1 .. Len(a)
    BY <1>3, <1>11
  <2>2. /\ b \in Seq(Entry) /\ Len(b) = Len(a) /\ b[n] = e
        /\ \A x \in 1 .. Len(a) : x # n => b[x] = a[x]
    BY <1>5, <1>6, <1>11, <2>1 DEF ReplaceAt
  <2>3. \A x \in 1 .. Len(a) : b[x][1] = a[x][1]
    BY <1>5, <1>11, <2>2
  <2>4. InOrder(b, 0)
    BY <1>b, <2>2, <2>3 DEF InOrder
  <2>5. \A x \in 1 .. Len(a) : x # n => a[x][1] # key
    BY <1>1, <1>11, <1>b, <2>1
  <2>6. ASSUME NEW x \in 1 .. Len(b)
        PROVE  b[x][1] \in P /\ b[x][1] \in DOMAIN d2 /\ b[x][2] = d2[b[x][1]]
    BY <1>8, <1>a, <2>2, <2>5
  <2>7. ASSUME NEW k \in P, k \in DOMAIN d2 PROVE \E x \in 1 .. Len(b) : b[x][1] = k
    BY <1>9, <1>11, <2>1, <2>2, <2>3, <2>7, SMTT(30)
  <2>8. LeafHolds(b, P, d2)
    BY <2>6, <2>7 DEF LeafHolds
  <2> QED BY <1>1, <2>1, <2>2, <2>4, <2>8
<1>12. CASE n # 0 /\ a[n][1] # key
  <2>1. n \in 1 .. Len(a) /\ a[n][1] > key /\ \A x \in 1 .. Len(a) : x < n => a[x][1] < key
    BY <1>1, <1>3, <1>12
  <2>2. /\ b \in Seq(Entry) /\ Len(b) = Len(a) + 1
        /\ \A x \in 1 .. Len(a) + 1 : b[x] = IF x < n THEN a[x] ELSE IF x = n THEN e ELSE a[x - 1]
    <3>1. n \in 1 .. Len(a) + 1 /\ b = InsertAt(a, n, e)
      BY <1>1, <1>6, <1>12, <2>1
    <3>2. /\ InsertAt(a, n, e) \in Seq(Entry) /\ Len(InsertAt(a, n, e)) = Len(a) + 1
          /\ \A x \in 1 .. Len(a) + 1 :
                InsertAt(a, n, e)[x] = IF x < n THEN a[x] ELSE IF x = n THEN e ELSE a[x - 1]
      <4>1. e \in Entry /\ n \in 1 .. Len(a) + 1
        BY <1>5, <3>1
      <4>2. InsertAt(a, n, e) \in Seq(Entry)
        BY <4>1, InsertAtLemma
      <4>3. Len(InsertAt(a, n, e)) = Len(a) + 1
        BY <4>1, InsertAtLemma
      <4>4. ASSUME NEW x \in 1 .. Len(a) + 1
            PROVE  InsertAt(a, n, e)[x] = IF x < n THEN a[x] ELSE IF x = n THEN e ELSE a[x - 1]
        BY <4>1, InsertAtLemma
      <4> QED BY <4>2, <4>3, <4>4
    <3> QED BY <3>1, <3>2
  <2>3. ASSUME NEW x \in 1 .. Len(a)
        PROVE  a[x][1] # key /\ (x >= n => a[x][1] > key)
    <3>1. x < n \/ x = n \/ n < x
      BY <2>1
    <3>2. n < x => a[n][1] < a[x][1]
      BY <1>b, <2>1
    <3> QED BY <1>1, <2>1, <3>1, <3>2
  <2>4. ASSUME NEW x \in 1 .. Len(b)
        PROVE  \/ x < n /\ x \in 1 .. Len(a) /\ b[x] = a[x]
               \/ x = n /\ b[x] = e
               \/ x > n /\ x - 1 \in 1 .. Len(a) /\ x - 1 >= n /\ b[x] = a[x - 1]
    BY <1>1, <2>1, <2>2
  <2>5. InOrder(b, 0)
    <3> SUFFICES ASSUME NEW x \in 1 .. Len(b), NEW y \in 1 .. Len(b), x < y PROVE b[x][1] < b[y][1]
      BY DEF InOrder
    <3>a. \/ x < n /\ x \in 1 .. Len(a) /\ b[x] = a[x]
          \/ x = n /\ b[x] = e
          \/ x > n /\ x - 1 \in 1 .. Len(a) /\ x - 1 >= n /\ b[x] = a[x - 1]
      BY <2>4
    <3>b. \/ y < n /\ y \in 1 .. Len(a) /\ b[y] = a[y]
          \/ y = n /\ b[y] = e
          \/ y > n /\ y - 1 \in 1 .. Len(a) /\ y - 1 >= n /\ b[y] = a[y - 1]
      BY <2>4
    <3>1. CASE x < n
      <4>1. x \in 1 .. Len(a) /\ b[x] = a[x] /\ a[x][1] < key /\ a[x][1] \in Int
        BY <1>1, <2>1, <3>1, <3>a
      <4>2. CASE y < n
        BY <1>b, <2>1, <3>b, <4>1, <4>2
      <4>3. CASE y = n
        BY <1>5, <2>1, <3>b, <4>1, <4>3
      <4>4. CASE y > n
        <5>1. PICK z \in 1 .. Len(a) : z >= n /\ b[y] = a[z]
          BY <2>1, <3>b, <4>4
        <5>2. a[z][1] > key /\ a[z][1] \in Int
          BY <1>1, <2>3, <5>1
        <5> QED BY <1>1, <4>1, <5>1, <5>2
      <4> QED BY <2>1, <2>2, <4>2, <4>3, <4>4
    <3>2. CASE x = n
      BY <1>1, <1>5, <2>1, <2>3, <3>2, <3>a, <3>b
    <3>3. CASE x > n
      <4>1. x - 1 \in 1 .. Len(a) /\ b[x] = a[x - 1] /\ y - 1 \in 1 .. Len(a) /\ b[y] = a[y - 1] /\ x - 1 < y - 1
        BY <1>1, <2>1, <2>2, <3>3, <3>a, <3>b
      <4> QED BY <1>b, <4>1
    <3> QED BY <2>1, <2>2, <3>1, <3>2, <3>3
  <2>6. ASSUME NEW x \in 1 .. Len(b)
        PROVE  b[x][1] \in P /\ b[x][1] \in DOMAIN d2 /\ b[x][2] = d2[b[x][1]]
    BY <1>8, <1>a, <2>3, <2>4
  <2>7. ASSUME NEW k \in P, k \in DOMAIN d2 PROVE \E x \in 1 .. Len(b) : b[x][1] = k
    <3>1. CASE k = key
      <4>1. n \in 1 .. Len(b) /\ b[n] = e
        BY <1>1, <2>1, <2>2
      <4> QED BY <1>5, <3>1, <4>1
    <3>2. CASE k # key
      <4>1. PICK x \in 1 .. Len(a) : a[x][1] = k
        BY <1>9, <2>7, <3>2
      <4>2. CASE x < n
        BY <1>1, <2>2, <4>1, <4>2
      <4>3. CASE ~(x < n)
        <5>1. x + 1 \in 1 .. Len(a) + 1 /\ ~(x + 1 < n) /\ x + 1 # n /\ (x + 1) - 1 = x
          BY <1>1, <2>1, <4>3
        <5>2. b[x + 1] = a[x]
          BY <2>2, <5>1
        <5> QED BY <2>2, <4>1, <5>1, <5>2
      <4> QED BY <4>2, <4>3
    <3> QED BY <3>1, <3>2
  <2>8. LeafHolds(b, P, d2)
    BY <2>6, <2>7 DEF LeafHolds
  <2> QED BY <1>1, <2>2, <2>5, <2>8
<1> QED BY <1>10, <1>11, <1>12

\* Removal from a leaf keeps it in order and takes exactly the key away.
LEMMA LeafRemoveLemma ==
    ASSUME NEW a \in Seq(Entry), InOrder(a, 0), NEW P \in SUBSET Keys, NEW d, LeafHolds(a, P, d),
           NEW key \in P, key \in DOMAIN d, NEW d2, Drops(d, d2, key),
           NEW b, b = RemoveAndDeleteRecord(a, key)
    PROVE  /\ b \in Seq(Entry) /\ InOrder(b, 0) /\ LeafHolds(b, P, d2) /\ Len(b) = Len(a) - 1
<1>1. key \in Int /\ Len(a) \in Nat /\ \A i \in 1 .. Len(a) : a[i][1] \in Int
  BY TreeAssumption, KeysAreInts
<1>2. PICK n : n = KeyIndex(a, key)
  OBVIOUS
<1>3. n \in 1 .. Len(a) /\ a[n][1] = key
  BY <1>2, LeafFind, ZenonT(40) DEF Has
<1>4. /\ b \in Seq(Entry) /\ Len(b) = Len(a) - 1
      /\ \A x \in 1 .. Len(a) - 1 : b[x] = IF x < n THEN a[x] ELSE a[x + 1]
  <2>1. b = RemoveAt(a, n)
    BY <1>2 DEF RemoveAndDeleteRecord
  <2> QED BY <1>3, <2>1, RemoveAtLemma
<1>b. ASSUME NEW x \in 1 .. Len(a), NEW y \in 1 .. Len(a), x < y PROVE a[x][1] < a[y][1]
  BY <1>b DEF InOrder
<1>5. ASSUME NEW x \in 1 .. Len(b)
      PROVE  \/ x < n /\ x \in 1 .. Len(a) /\ b[x] = a[x]
             \/ x >= n /\ x + 1 \in 1 .. Len(a) /\ b[x] = a[x + 1]
  BY <1>1, <1>3, <1>4
<1>6. InOrder(b, 0)
  <2> SUFFICES ASSUME NEW x \in 1 .. Len(b), NEW y \in 1 .. Len(b), x < y PROVE b[x][1] < b[y][1]
    BY DEF InOrder
  <2>1. PICK v \in 1 .. Len(a) : b[x] = a[v] /\ (v = x \/ (v = x + 1 /\ x >= n)) /\ (x < n => v = x)
    <3>1. CASE x < n
      BY <1>3, <1>4, <1>5, <3>1
    <3>2. CASE x >= n
      BY <1>3, <1>5, <3>2
    <3> QED BY <1>3, <1>4, <3>1, <3>2
  <2>2. PICK w \in 1 .. Len(a) : b[y] = a[w] /\ ((w = y /\ y < n) \/ (w = y + 1 /\ y >= n))
    BY <1>5
  <2>3. v < w
    BY <1>1, <1>3, <1>4, <2>1, <2>2
  <2> QED BY <1>b, <2>1, <2>2, <2>3
<1>7. \A x \in 1 .. Len(a) : x # n => a[x][1] # key
  BY <1>1, <1>3, <1>b
<1>8. ASSUME NEW x \in 1 .. Len(a), x # n
      PROVE  a[x][1] \in P /\ a[x][1] \in DOMAIN d2 /\ a[x][2] = d2[a[x][1]]
  BY <1>7, <1>8 DEF LeafHolds, Drops, DiffersAt
<1>9. ASSUME NEW x \in 1 .. Len(b)
      PROVE  b[x][1] \in P /\ b[x][1] \in DOMAIN d2 /\ b[x][2] = d2[b[x][1]]
  <2>1. PICK v \in 1 .. Len(a) : b[x] = a[v] /\ v # n
    BY <1>1, <1>3, <1>5
  <2> QED BY <1>8, <2>1
<1>10. ASSUME NEW k \in P, k \in DOMAIN d2 PROVE \E x \in 1 .. Len(b) : b[x][1] = k
  <2>1. k # key /\ k \in DOMAIN d
    BY <1>10 DEF Drops, DiffersAt
  <2>2. PICK x \in 1 .. Len(a) : a[x][1] = k
    BY <2>1 DEF LeafHolds
  <2>3. x # n
    BY <1>3, <2>1, <2>2
  <2>4. CASE x < n
    <3>1. x \in 1 .. Len(a) - 1
      BY <1>1, <1>3, <2>4
    <3> QED BY <1>4, <2>2, <2>4, <3>1
  <2>5. CASE x > n
    <3>1. x - 1 \in 1 .. Len(a) - 1 /\ ~(x - 1 < n) /\ (x - 1) + 1 = x
      BY <1>1, <1>3, <2>5
    <3>2. b[x - 1] = a[x]
      BY <1>4, <3>1
    <3> QED BY <1>4, <2>2, <3>1, <3>2
  <2> QED BY <1>3, <2>3, <2>4, <2>5
<1>11. LeafHolds(b, P, d2)
  BY <1>9, <1>10 DEF LeafHolds
<1> QED BY <1>4, <1>6, <1>11

-----------------------------------------------------------------------------
(* Redistribution: a merge, and a split at another place.                  *)

\* What follows a part begins with the next key, so two such parts meet.
LEMMA FollowedTwice ==
    ASSUME NEW P \in SUBSET Keys, NEW Q \in SUBSET Keys, NEW Y \in SUBSET Keys,
           P # {}, Q # {}, Y # {}, FollowedBy(P, Q), FollowedBy(P, Y)
    PROVE  Q \cap Y # {}
<1>1. PICK i \in P : i \in Int
  BY TreeAssumption
<1>2. PICK j \in Q : j \in Int /\ j \in Keys
  BY TreeAssumption
<1>3. PICK y \in Y : y \in Int /\ y \in Keys
  BY TreeAssumption
<1>4. i < j /\ i < y
  BY DEF FollowedBy
<1>5. j \notin P /\ y \notin P
  <2>1. j \in P => j < j
    BY DEF FollowedBy
  <2>2. y \in P => y < y
    BY DEF FollowedBy
  <2> QED BY <1>2, <1>3, <2>1, <2>2
<1>6. CASE j < y
  <2>1. j \in P \cup Y
    BY <1>2, <1>4, <1>6 DEF FollowedBy
  <2> QED BY <1>5, <2>1
<1>7. CASE y < j
  <2>1. y \in P \cup Q
    BY <1>3, <1>4, <1>7 DEF FollowedBy
  <2> QED BY <1>5, <2>1
<1> QED BY <1>2, <1>3, <1>6, <1>7

\* The entries of p and of q, its right neighbour, are those of a, cut after m
\* now.
Shifted(D, arr, par, level, p, q, f, j, a, m, arr2, par2) ==
    /\ arr2 \in [D -> Seq(Entry)] /\ par2 \in [D -> Int]
    /\ a \in Seq(Entry) /\ Len(a) = Len(arr[p]) + Len(arr[q])
    /\ CutInto(a, arr[p], arr[q], Len(arr[p]), level[p])
    /\ level[p] > 0 => a[Len(arr[p]) + 1][1] = arr[f][j + 1][1]
    /\ CutInto(a, arr2[p], arr2[q], m, level[p])
    /\ Len(arr2[f]) = Len(arr[f]) /\ arr2[f][j + 1][1] = a[m + 1][1] /\ arr2[f][j + 1][2] = q
    /\ \A i \in 1 .. Len(arr[f]) : i # j + 1 => arr2[f][i] = arr[f][i]
    /\ \A x \in D : x # p /\ x # q /\ x # f => arr2[x] = arr[x]
    /\ \A x \in D : par2[x] = IF level[p] > 0 /\ \E i \in m + 1 .. Len(a) : a[i][2] = x THEN q
                              ELSE IF par[x] = q THEN p ELSE par[x]

\* Redistribute: when the entries of two neighbours are cut at another place and
\* the separator in the parent set accordingly, the tree keeps its shape and
\* the leaves their chain.
LEMMA ShiftShape ==
    ASSUME NEW D, NEW arr, NEW par, NEW root, NEW part, NEW level, NEW d,
           Shape(D, arr, par, root, part, level, d), NEW nxt, Chain(D, nxt, part, level),
           NEW p \in D, NEW q \in D, NEW f \in D, level[f] > 0,
           NEW j \in Nat, 0 < j, j < Len(arr[f]), arr[f][j][2] = p, arr[f][j + 1][2] = q,
           NEW a, NEW m \in Nat, 0 < m, m < Len(a),
           NEW arr2, NEW par2, Shifted(D, arr, par, level, p, q, f, j, a, m, arr2, par2)
    PROVE  \E part2 : Shape(D, arr2, par2, root, part2, level, d) /\ Chain(D, nxt, part2, level)
<1>f. arr2 \in [D -> Seq(Entry)] /\ par2 \in [D -> Int] /\ a \in Seq(Entry)
  BY DEF Shifted
<1>g. /\ CutInto(a, arr[p], arr[q], Len(arr[p]), level[p]) /\ Len(a) = Len(arr[p]) + Len(arr[q])
      /\ level[p] > 0 => a[Len(arr[p]) + 1][1] = arr[f][j + 1][1]
  BY DEF Shifted
<1>h. CutInto(a, arr2[p], arr2[q], m, level[p])
  BY DEF Shifted
<1>i. Len(arr2[f]) = Len(arr[f]) /\ arr2[f][j + 1][1] = a[m + 1][1] /\ arr2[f][j + 1][2] = q
  BY DEF Shifted
<1>a. \A i \in 1 .. Len(arr[f]) : i # j + 1 => arr2[f][i] = arr[f][i]
  BY DEF Shifted
<1>b. \A x \in D : x # p /\ x # q /\ x # f => arr2[x] = arr[x]
  BY DEF Shifted
<1>c. \A x \in D : par2[x] = IF level[p] > 0 /\ \E i \in m + 1 .. Len(a) : a[i][2] = x THEN q
                             ELSE IF par[x] = q THEN p ELSE par[x]
  BY DEF Shifted
<1>1. /\ arr \in [D -> Seq(Entry)] /\ par \in [D -> Int] /\ level \in [D -> Nat]
      /\ part \in [D -> SUBSET Keys] /\ D \subseteq Nat \ {0}
  BY DEF Shape, Types
<1>2. Len(arr[f]) \in Nat /\ Len(arr[p]) \in Nat /\ Len(arr[q]) \in Nat /\ arr[f] \in Seq(Entry)
  BY EntryFacts
<1>e. Len(a) \in Nat
  BY <1>f, KeysAreInts
<1>3. j \in 1 .. Len(arr[f]) /\ j + 1 \in 1 .. Len(arr[f])
  BY <1>2
<1>4. /\ par[p] = f /\ level[p] + 1 = level[f] /\ par[q] = f /\ level[q] + 1 = level[f]
  <2>1. ChildOK(D, arr, par, part, level, f, j) /\ ChildOK(D, arr, par, part, level, f, j + 1)
    BY <1>3, ChildFacts
  <2> QED BY <2>1 DEF ChildOK
<1>5. p # f /\ q # f /\ p # q /\ level[p] = level[q]
  <2>1. p # q
    <3>1. j # j + 1
      OBVIOUS
    <3> QED BY <1>3, <3>1, DistinctChildren
  <2> QED BY <1>1, <1>4, <2>1, SMTT(30)
<1>6. PICK D1 : D1 = D \ {q}
  OBVIOUS
<1>7. p \in D1 /\ f \in D1 /\ q \notin D1 /\ D1 \cup {q} = D
  BY <1>5, <1>6
<1>8. PICK b : b = RemoveAt(arr[f], j + 1)
  OBVIOUS
<1>9. /\ b \in Seq(Entry) /\ Len(b) = Len(arr[f]) - 1
      /\ \A k \in 1 .. Len(arr[f]) - 1 : b[k] = IF k < j + 1 THEN arr[f][k] ELSE arr[f][k + 1]
  <2>1. PICK g \in Seq(Entry) : g = arr[f]
    BY <1>2
  <2>2. PICK n : n = j + 1
    OBVIOUS
  <2>3. n \in 1 .. Len(g)
    BY <1>3, <2>1, <2>2
  <2>4. /\ RemoveAt(g, n) \in Seq(Entry) /\ Len(RemoveAt(g, n)) = Len(g) - 1
        /\ \A k \in 1 .. Len(g) - 1 : RemoveAt(g, n)[k] = IF k < n THEN g[k] ELSE g[k + 1]
    BY ONLY g \in Seq(Entry), <2>3, RemoveAtLemma
  <2> QED BY <1>8, <2>1, <2>2, <2>4
<1>d. Len(arr[f]) \in Nat /\ Len(b) = Len(arr[f]) - 1
  BY <1>2, <1>9
<1>10. PICK arr1 : arr1 = [x \in D1 |-> IF x = p THEN a ELSE IF x = f THEN b ELSE arr[x]]
  OBVIOUS
<1>11. PICK par1 : par1 = [x \in D1 |-> IF par[x] = q THEN p ELSE par[x]]
  OBVIOUS
<1>12. /\ arr1[p] = a /\ arr1[f] = b /\ \A x \in D1 : x # p /\ x # f => arr1[x] = arr[x]
       /\ \A x \in D1 : par1[x] = IF par[x] = q THEN p ELSE par[x]
  BY <1>5, <1>7, <1>10, <1>11
<1>13. arr1 \in [D1 -> Seq(Entry)] /\ par1 \in [D1 -> Int]
  <2>1. ASSUME NEW x \in D1 PROVE arr1[x] \in Seq(Entry) /\ par1[x] \in Int
    <3>1. x \in D /\ arr[x] \in Seq(Entry) /\ par[x] \in Int /\ p \in Int
      BY <1>1, <1>6
    <3>2. CASE x = p
      BY <1>f, <1>12, <3>1, <3>2
    <3>3. CASE x = f
      BY <1>9, <1>12, <3>1, <3>3
    <3>4. CASE x # p /\ x # f
      BY <1>12, <3>1, <3>4
    <3> QED BY <3>2, <3>3, <3>4
  <2> QED BY <1>10, <1>11, <2>1
<1>14. Merged(D, arr, par, level, p, q, f, j, arr1, par1)
  <2>1. InsertedAfter(b, arr[f], j, arr[f][j + 1][1], q)
    <3>1. Len(arr[f]) = Len(b) + 1
      BY <1>2, <1>9
    <3>2. ASSUME NEW i \in 1 .. Len(b), i <= j PROVE arr[f][i] = b[i]
      <4>1. i \in 1 .. Len(arr[f]) - 1 /\ i < j + 1
        BY <1>d, <3>2
      <4> QED BY <1>9, <4>1
    <3>3. ASSUME NEW i \in 1 .. Len(b) + 1, i > j + 1 PROVE arr[f][i] = b[i - 1]
      <4>1. i - 1 \in 1 .. Len(arr[f]) - 1 /\ ~(i - 1 < j + 1) /\ (i - 1) + 1 = i
        BY <1>d, <3>3
      <4> QED BY <1>9, <4>1
    <3> QED BY <3>1, <3>2, <3>3 DEF InsertedAfter
  <2>2. \A x \in D : x # p /\ x # q /\ x # f => arr1[x] = arr[x]
    BY <1>6, <1>12
  <2>3. \A x \in D : x # q => par1[x] = IF par[x] = q THEN p ELSE par[x]
    BY <1>6, <1>12
  <2> QED BY <1>g, <1>6, <1>12, <1>13, <2>1, <2>2, <2>3 DEF Merged
<1>15. PICK part1 : part1 = MergePart(D, part, p, q)
  OBVIOUS
<1>16. PICK level1 : level1 = MergeLevel(D, level, q)
  OBVIOUS
<1>17. Shape(D1, arr1, par1, root, part1, level1, d)
  <2>1. Shape(D \ {q}, arr1, par1, root, part1, level1, d)
    BY <1>14, <1>15, <1>16, MergeShape
  <2> QED BY <1>6, <2>1
<1>18. \A x \in D1 : level1[x] = level[x]
  BY <1>6, <1>16 DEF MergeLevel
<1>19. Halved(D1, arr1, par1, level1, p, q, f, j, m, arr2, par2)
  <2>1. arr2 \in [D1 \cup {q} -> Seq(Entry)] /\ par2 \in [D1 \cup {q} -> Int]
    BY <1>f, <1>7
  <2>2. CutInto(arr1[p], arr2[p], arr2[q], m, level1[p])
    <3>1. level1[p] = level[p] /\ arr1[p] = a
      BY <1>7, <1>12, <1>18
    <3> QED BY <1>h, <3>1
  <2>3. InsertedAfter(arr1[f], arr2[f], j, arr1[p][m + 1][1], q)
    <3>1. Len(arr2[f]) = Len(b) + 1
      BY ONLY <1>i, <1>d
    <3>2. ASSUME NEW i \in 1 .. Len(b), i <= j PROVE arr2[f][i] = b[i]
      <4>1. i \in 1 .. Len(arr[f]) - 1 /\ i < j + 1 /\ i \in 1 .. Len(arr[f]) /\ i # j + 1
        BY <1>d, <3>2
      <4> QED BY <1>9, <1>a, <4>1
    <3>3. ASSUME NEW i \in 1 .. Len(b) + 1, i > j + 1 PROVE arr2[f][i] = b[i - 1]
      <4>1. /\ i - 1 \in 1 .. Len(arr[f]) - 1 /\ ~(i - 1 < j + 1) /\ (i - 1) + 1 = i
            /\ i \in 1 .. Len(arr[f]) /\ i # j + 1
        BY <1>d, <3>3
      <4> QED BY <1>9, <1>a, <4>1
    <3>4. InsertedAfter(b, arr2[f], j, a[m + 1][1], q)
      BY ONLY <1>i, <3>1, <3>2, <3>3 DEF InsertedAfter
    <3> QED BY <1>12, <3>4
  <2>4. \A x \in D1 : x # p /\ x # f => arr2[x] = arr1[x]
    BY <1>6, <1>12, <1>b
  <2>5. par2[q] = f
    <3>1. ~(level[p] > 0 /\ \E i \in m + 1 .. Len(a) : a[i][2] = q)
      <4>1. SUFFICES ASSUME level[p] > 0, NEW i \in m + 1 .. Len(a), a[i][2] = q PROVE FALSE
        OBVIOUS
      <4>2. i \in 1 .. Len(arr1[p]) /\ level1[p] > 0
        <5>1. i \in 1 .. Len(a)
          BY <1>e
        <5> QED BY <1>7, <1>12, <1>18, <4>1, <5>1
      <4>3. ChildOK(D1, arr1, par1, part1, level1, p, i)
        BY <1>7, <1>17, <4>2, ChildFacts
      <4>4. q \in D1
        BY <1>12, <4>1, <4>3 DEF ChildOK
      <4> QED BY <1>7, <4>4
    <3> QED BY <1>4, <1>5, <1>c, <3>1
  <2>6. \A x \in D1 : par2[x] = IF level1[p] > 0 /\ \E i \in m + 1 .. Len(arr1[p]) : arr1[p][i][2] = x
                                THEN q ELSE par1[x]
    <3>1. SUFFICES ASSUME NEW x \in D1
                   PROVE  par2[x] = IF level1[p] > 0 /\ \E i \in m + 1 .. Len(arr1[p]) : arr1[p][i][2] = x
                                    THEN q ELSE par1[x]
      OBVIOUS
    <3>2. level1[p] = level[p] /\ arr1[p] = a /\ par1[x] = (IF par[x] = q THEN p ELSE par[x]) /\ x \in D
      BY <1>6, <1>7, <1>12, <1>18
    <3>3. par2[x] = IF level[p] > 0 /\ \E i \in m + 1 .. Len(a) : a[i][2] = x THEN q
                    ELSE IF par[x] = q THEN p ELSE par[x]
      BY <1>c, <3>2
    <3> QED BY <3>2, <3>3
  <2> QED BY <2>1, <2>2, <2>3, <2>4, <2>5, <2>6 DEF Halved
<1>20. PICK part2 : part2 = SplitPart(D1, part1, p, q, a[m + 1][1])
  OBVIOUS
<1>21. PICK level2 : level2 = SplitLevel(D1, level1, p, q)
  OBVIOUS
<1>22. level2 = level
  BY <1>1, <1>5, <1>7, <1>18, <1>21 DEF SplitLevel
<1>23. Shape(D, arr2, par2, root, part2, level, d)
  <2>1. /\ p \in D1 /\ f \in D1 /\ level1[f] > 0 /\ j \in 1 .. Len(arr1[f]) /\ arr1[f][j][2] = p
        /\ q \in Nat /\ q # 0 /\ q \notin D1 /\ m \in Nat /\ 0 < m /\ m < Len(arr1[p])
        /\ part2 = SplitPart(D1, part1, p, q, arr1[p][m + 1][1])
    <3>1. j \in 1 .. Len(b) /\ b[j] = arr[f][j]
      BY <1>2, <1>9
    <3> QED BY <1>1, <1>7, <1>12, <1>18, <1>20, <3>1
  <2>2. Shape(D1 \cup {q}, arr2, par2, root, part2, level2, d)
    BY ONLY <1>17, <1>19, <1>21, <2>1, SplitShape
  <2> QED BY <1>7, <1>22, <2>2
<1>24. nxt \in [D -> Int] /\ FollowedBy(part[p], part[q])
  <2>1. nxt \in [D -> Int]
    BY DEF Chain
  <2>2. FollowedBy(part[p], part[q])
    BY Siblings
  <2> QED BY <2>1, <2>2
<1>25. PICK nxt1 : nxt1 = [x \in D1 |-> IF x = p THEN nxt[q] ELSE nxt[x]]
  OBVIOUS
<1>26. Chain(D1, nxt1, part1, level1)
  <2>1. NextMerged(D, nxt, p, q, nxt1)
    BY <1>5, <1>6, <1>24, <1>25 DEF NextMerged
  <2>2. Chain(D \ {q}, nxt1, part1, level1)
    BY ONLY Shape(D, arr, par, root, part, level, d), Chain(D, nxt, part, level), p \in D, q \in D,
            <1>5, <1>15, <1>16, <1>24, <2>1, ChainMerge
  <2> QED BY <1>6, <2>2
<1>27. PICK nxt3 : nxt3 = [x \in D |-> IF x = q THEN nxt[q]
                                      ELSE IF x = p /\ level[p] = 0 THEN q ELSE nxt1[x]]
  OBVIOUS
<1>28. Chain(D, nxt3, part2, level)
  <2>1. NextSplit(D1, nxt1, level1, p, q, nxt3)
    <3>1. q \in Int /\ nxt[q] \in Int /\ level1[p] = level[p]
      BY ONLY q \in D, <1>1, <1>7, <1>18, <1>24
    <3>2. \A x \in D1 : nxt1[x] \in Int
      BY <1>6, <1>24, <1>25
    <3>3. nxt3 \in [D -> Int]
      BY <1>7, <1>27, <3>1, <3>2
    <3>4. nxt3[q] = nxt1[p]
      BY <1>7, <1>25, <1>27
    <3>5. \A x \in D1 : nxt3[x] = IF x = p /\ level1[p] = 0 THEN q ELSE nxt1[x]
      BY <1>6, <1>27, <3>1
    <3> QED BY <1>7, <3>3, <3>4, <3>5 DEF NextSplit
  <2>2. a[m + 1][1] \in Int /\ q \in Nat
    <3>1. m + 1 \in 1 .. Len(a)
      BY <1>e
    <3>2. a[m + 1][1] \in Int
      BY <1>f, <3>1, KeysAreInts
    <3> QED BY <1>1, <3>2
  <2>3. PICK key \in Int : key = a[m + 1][1]
    BY <2>2
  <2>4. part2 = SplitPart(D1, part1, p, q, key)
    BY <1>20, <2>3
  <2>5. Chain(D1 \cup {q}, nxt3, part2, level2)
    BY ONLY key \in Int, <1>7, <1>17, <1>21, <1>26, <2>1, <2>2, <2>4, ChainSplit
  <2> QED BY <1>7, <1>22, <2>5
<1>29. ASSUME NEW x \in D, level[x] = 0 PROVE nxt3[x] = nxt[x]
  <2>1. CASE x = q
    BY <1>27, <2>1
  <2>2. CASE x # p /\ x # q
    BY <1>6, <1>25, <1>27, <2>2
  <2>3. CASE x = p
    <3>0. nxt[p] # INVALID_PAGE_ID
      <4>1. part[p] \in SUBSET Keys /\ part[p] # {}
        BY EntryFacts
      <4>2. part[q] \in SUBSET Keys /\ part[q] # {}
        BY EntryFacts
      <4>3. ~Topmost(part[p])
        BY ONLY <1>24, <4>1, <4>2, NotTopmost
      <4> QED BY <1>29, <2>3, <4>3 DEF Chain, Ended
    <3>1. /\ level[p] = 0 /\ nxt[p] \in D /\ level[nxt[p]] = 0 /\ FollowedBy(part[p], part[nxt[p]])
      BY <3>0 DEF Chain, Linked
    <3>2. PICK y \in D : y = nxt[p]
      BY <3>1
    <3>3. /\ part[p] \in SUBSET Keys /\ part[q] \in SUBSET Keys /\ part[y] \in SUBSET Keys
          /\ part[p] # {} /\ part[q] # {} /\ part[y] # {}
      <4>1. part[p] \in SUBSET Keys /\ part[p] # {}
        BY EntryFacts
      <4>2. part[q] \in SUBSET Keys /\ part[q] # {}
        BY EntryFacts
      <4>3. part[y] \in SUBSET Keys /\ part[y] # {}
        BY EntryFacts
      <4> QED BY <4>1, <4>2, <4>3
    <3>4. part[q] \cap part[y] # {}
      BY <1>24, <3>1, <3>2, <3>3, FollowedTwice
    <3>5. y = q
      BY <1>5, <3>1, <3>2, <3>4 DEF Shape, LeavesOK
    <3> QED BY <1>5, <1>27, <2>3, <3>1, <3>2, <3>5
  <2> QED BY <2>1, <2>2, <2>3
<1>30. Chain(D, nxt, part2, level)
  <2>1. ASSUME NEW x \in D, nxt[x] # INVALID_PAGE_ID
        PROVE  /\ level[x] = 0 /\ nxt[x] \in D /\ level[nxt[x]] = 0
               /\ FollowedBy(part2[x], part2[nxt[x]])
    <3>0. level[x] = 0
      BY <2>1 DEF Chain, Linked
    <3>1. nxt3[x] = nxt[x]
      BY <1>29, <3>0
    <3> QED BY <1>28, <2>1, <3>1 DEF Chain, Linked
  <2>2. ASSUME NEW x \in D, level[x] = 0, nxt[x] = INVALID_PAGE_ID
        PROVE  Topmost(part2[x])
    <3>1. nxt3[x] = nxt[x]
      BY <1>29, <2>2
    <3> QED BY ONLY x \in D, <1>28, <2>2, <3>1 DEF Chain, Ended
  <2> QED BY <1>24, <2>1, <2>2 DEF Chain, Linked, Ended
<1> QED BY <1>23, <1>30
-----------------------------------------------------------------------------
(* Scans.                                                                  *)

\* The entries of d for the keys S, in order.
Listing(a, S, d) == a \in Seq(Entry) /\ InOrder(a, 0) /\ LeafHolds(a, S, d)

\* The keys from those of P on.
Upper(P) == {k \in Keys : \E i \in P : i <= k}

\* c begins with a, which has the keys of P, and goes on with larger ones.
Begins(a, P, c) ==
    /\ Len(a) <= Len(c) /\ \A x \in 1 .. Len(a) : c[x] = a[x]
    /\ \A x \in Len(a) + 1 .. Len(c) : \A k \in P : k < c[x][1]

\* What follows P is the rest of the keys from P on.
LEMMA UpperNext ==
    ASSUME NEW P \in SUBSET Keys, NEW Q \in SUBSET Keys, P # {}, Q # {}, Convex(P), FollowedBy(P, Q)
    PROVE  /\ Upper(P) = P \cup Upper(Q)
           /\ \A i \in P : \A k \in Upper(Q) : i < k
<1>1. Keys \subseteq Int
  BY TreeAssumption
<1>2. PICK q \in Q : q \in Int
  BY <1>1
<1>3. ASSUME NEW i \in P, NEW k \in Upper(Q) PROVE i < k
  <2>1. PICK j \in Q : j <= k
    BY DEF Upper
  <2>2. i < j
    BY DEF FollowedBy
  <2>3. i \in Int /\ j \in Int /\ k \in Int
    BY <1>1 DEF Upper
  <2> QED BY ONLY <2>1, <2>2, <2>3
<1>4. ASSUME NEW k \in Upper(P) PROVE k \in P \cup Upper(Q)
  <2>1. k \in Keys /\ k \in Int
    BY <1>1 DEF Upper
  <2>2. PICK i \in P : i <= k
    BY DEF Upper
  <2>3. i \in Int
    BY <1>1
  <2>4. CASE k = i
    BY <2>4
  <2>5. CASE i < k /\ q <= k
    BY <2>1, <2>5 DEF Upper
  <2>6. CASE i < k /\ k < q
    <3>1. k \in P \cup Q
      BY <2>1, <2>6 DEF FollowedBy
    <3>2. k \in Q => k \in Upper(Q)
      BY <2>1 DEF Upper
    <3> QED BY <3>1, <3>2
  <2> QED BY <1>2, <2>1, <2>2, <2>3, <2>4, <2>5, <2>6
<1>5. ASSUME NEW k \in P PROVE k \in Upper(P)
  BY <1>1 DEF Upper
<1>6. ASSUME NEW k \in Upper(Q) PROVE k \in Upper(P)
  <2>1. PICK i \in P : i \in Int
    BY <1>1
  <2>2. i < k /\ k \in Keys /\ k \in Int
    BY <1>1, <1>3 DEF Upper
  <2>3. i <= k
    BY ONLY <2>1, <2>2
  <2> QED BY <2>2, <2>3 DEF Upper
<1> QED BY <1>3, <1>4, <1>5, <1>6

\* Beyond the last part there is nothing.
LEMMA UpperLast ==
    ASSUME NEW P \in SUBSET Keys, Topmost(P)
    PROVE  Upper(P) = P
<1>1. Keys \subseteq Int
  BY TreeAssumption
<1>2. ASSUME NEW k \in Upper(P) PROVE k \in P
  <2>1. k \in Keys /\ k \in Int
    BY <1>1 DEF Upper
  <2>2. PICK i \in P : i <= k
    BY DEF Upper
  <2>3. i \in Int
    BY <1>1
  <2>4. i = k \/ i < k
    BY ONLY <2>1, <2>2, <2>3
  <2> QED BY <2>1, <2>4 DEF Topmost
<1>3. ASSUME NEW k \in P PROVE k \in Upper(P)
  BY <1>1 DEF Upper
<1> QED BY <1>2, <1>3

\* Ranks of at most h that go down along nx.
Descends(D, nx, rank, h) ==
    /\ rank \in [D -> Nat] /\ \A p \in D : rank[p] <= h
    /\ \A p \in D : nx[p] # INVALID_PAGE_ID => nx[p] \in D /\ rank[nx[p]] < rank[p]

\* g takes a page to the entries from it on.
GoesAlong(g, D, nx, arr) ==
    g = [p \in D |-> IF nx[p] = INVALID_PAGE_ID THEN arr[p] ELSE arr[p] \o g[nx[p]]]

\* The same on the pages of a tree.
GoesAlongNodes(g, nodes) ==
    g = [q \in DOMAIN nodes |-> IF nodes[q].next = INVALID_PAGE_ID THEN nodes[q].array
                                ELSE nodes[q].array \o g[nodes[q].next]]

\* A function that goes along the chain is well-defined when ranks descend.
LEMMA Along ==
    ASSUME NEW D, NEW rank, NEW nx, NEW arr, NEW h \in Nat, Descends(D, nx, rank, h)
    PROVE  \E g : GoesAlong(g, D, nx, arr)
<1> USE DEF Descends
<1> DEFINE Value(g, p) == IF nx[p] = INVALID_PAGE_ID THEN arr[p] ELSE arr[p] \o g[nx[p]]
           Good(g, l) == \A p \in D : rank[p] <= l => g[p] = Value(g, p)
           S == {l \in Nat : \E g : Good(g, l)}
<1>1. 0 \in S
  <2>1. PICK g : g = [p \in D |-> arr[p]]
    OBVIOUS
  <2>2. Good(g, 0)
    <3>1. ASSUME NEW p \in D, rank[p] <= 0 PROVE nx[p] = INVALID_PAGE_ID
      <4>1. rank[p] = 0
        BY <3>1
      <4>2. nx[p] # INVALID_PAGE_ID => rank[nx[p]] \in Nat /\ rank[nx[p]] < 0
        BY <4>1
      <4> QED BY <4>2
    <3> QED BY <2>1, <3>1
  <2> QED BY <2>2
<1>2. ASSUME NEW l \in Nat, l \in S PROVE l + 1 \in S
  <2>1. PICK g : Good(g, l)
    BY <1>2
  <2>2. PICK g2 : g2 = [p \in D |-> IF rank[p] <= l THEN g[p] ELSE Value(g, p)]
    OBVIOUS
  <2>3. ASSUME NEW p \in D, rank[p] <= l + 1
        PROVE  g2[p] = Value(g2, p)
    <3>1. g2[p] = Value(g, p)
      BY <2>1, <2>2
    <3>2. nx[p] # INVALID_PAGE_ID => g2[nx[p]] = g[nx[p]]
      <4>1. SUFFICES ASSUME nx[p] # INVALID_PAGE_ID PROVE g2[nx[p]] = g[nx[p]]
        OBVIOUS
      <4>2. nx[p] \in D /\ rank[nx[p]] < rank[p]
        BY <4>1
      <4>3. rank[nx[p]] <= l
        BY <2>3, <4>2
      <4> QED BY <2>2, <4>2, <4>3
    <3> QED BY <3>1, <3>2
  <2>4. Good(g2, l + 1)
    BY <2>3
  <2> HIDE DEF Good
  <2> QED BY <2>4
<1>3. h \in S
  <2> HIDE DEF S
  <2> QED BY <1>1, <1>2, NatSetInduction
<1>4. PICK g : Good(g, h)
  BY <1>3
<1>5. PICK g2 : g2 = [p \in D |-> g[p]]
  OBVIOUS
<1>6. ASSUME NEW p \in D PROVE g[p] = Value(g2, p)
  BY <1>4, <1>5
<1>7. g2 = [p \in D |-> Value(g2, p)]
  BY <1>5, <1>6
<1> QED BY ONLY <1>7 DEF GoesAlong

\* Along the chain fewer and fewer pages have larger keys.
LEMMA Ranks ==
    ASSUME NEW D, NEW arr, NEW par, NEW root, NEW part, NEW level, NEW d,
           Shape(D, arr, par, root, part, level, d), NEW nxt, Chain(D, nxt, part, level)
    PROVE  \E rank : Descends(D, nxt, rank, Cardinality(D))
<1> DEFINE After(x) == {y \in D : \E k \in part[y] : \A i \in part[x] : i < k}
<1>1. IsFiniteSet(D) /\ \A x \in D : part[x] \in SUBSET Keys /\ part[x] # {}
  BY DEF Shape, Types, PartsOK
<1>2. Keys \subseteq Int
  BY TreeAssumption
<1>3. \A x \in D : After(x) \in SUBSET D
  OBVIOUS
<1>4. \A x \in D : IsFiniteSet(After(x)) /\ Cardinality(After(x)) \in Nat /\ Cardinality(After(x)) <= Cardinality(D)
  <2> HIDE DEF After
  <2> QED BY <1>1, <1>3, FS_Subset, FS_CardinalityType
<1>5. ASSUME NEW x \in D, nxt[x] # INVALID_PAGE_ID
      PROVE  nxt[x] \in D /\ Cardinality(After(nxt[x])) < Cardinality(After(x))
  <2>1. PICK y : y = nxt[x]
    OBVIOUS
  <2>2. y \in D /\ FollowedBy(part[x], part[y])
    BY <1>5, <2>1 DEF Chain, Linked
  <2>3. PICK j \in part[y] : j \in Int
    BY <1>1, <1>2, <2>2
  <2>4. y \in After(x)
    BY <2>2, <2>3 DEF FollowedBy
  <2>5. y \notin After(y)
    <3>1. SUFFICES ASSUME NEW k \in part[y], \A i \in part[y] : i < k PROVE FALSE
      BY <2>2
    <3>2. k < k /\ k \in Int
      BY <1>1, <1>2, <2>2, <3>1
    <3> QED BY ONLY <3>2
  <2>6. ASSUME NEW z \in After(y) PROVE z \in After(x)
    <3>1. PICK k \in part[z] : \A i \in part[y] : i < k
      BY <2>6
    <3>2. j < k /\ z \in D /\ k \in Int
      BY <1>1, <1>2, <2>3, <3>1
    <3>3. ASSUME NEW i \in part[x] PROVE i < k
      <4>1. i < j /\ i \in Int
        BY <1>1, <1>2, <2>2, <2>3 DEF FollowedBy
      <4> QED BY ONLY <2>3, <3>2, <4>1
    <3> QED BY <3>2, <3>3
  <2> HIDE DEF After
  <2>7. PICK A, B : A = After(x) /\ B = After(y)
    OBVIOUS
  <2>8. IsFiniteSet(A) /\ Cardinality(A) \in Nat /\ y \in A
    BY ONLY x \in D, <1>4, <2>4, <2>7
  <2>9. B \in SUBSET (A \ {y})
    BY ONLY <2>5, <2>6, <2>7
  <2>10. IsFiniteSet(A \ {y}) /\ Cardinality(A \ {y}) = Cardinality(A) - 1
    BY ONLY <2>8, FS_RemoveElement
  <2>11. Cardinality(B) <= Cardinality(A \ {y}) /\ Cardinality(B) \in Nat
    BY ONLY <2>9, <2>10, FS_Subset, FS_CardinalityType
  <2>12. Cardinality(B) < Cardinality(A)
    BY ONLY <2>8, <2>10, <2>11
  <2> QED BY ONLY <2>1, <2>2, <2>7, <2>12
<1> HIDE DEF After
<1>6. PICK rank : rank = [x \in D |-> Cardinality(After(x))]
  OBVIOUS
<1>7. rank \in [D -> Nat] /\ \A x \in D : rank[x] <= Cardinality(D)
  BY ONLY <1>4, <1>6
<1>8. \A p \in D : nxt[p] # INVALID_PAGE_ID => nxt[p] \in D /\ rank[nxt[p]] < rank[p]
  BY ONLY <1>5, <1>6
<1> QED BY ONLY <1>7, <1>8 DEF Descends

\* ChainFrom is the value at p of the function that goes along the chain, once
\* there is such a function.
LEMMA ChainUnfolded ==
    ASSUME NEW nodes, NEW p, \E g : GoesAlongNodes(g, nodes)
    PROVE  \E g : GoesAlongNodes(g, nodes) /\ ChainFrom(nodes, p) = g[p]
  BY Zenon DEF ChainFrom, GoesAlongNodes

\* A leaf followed by what the next leaf leads to.
LEMMA ListingJoin ==
    ASSUME NEW a, NEW P \in SUBSET Keys, NEW c, NEW Q \in SUBSET Keys, NEW d,
           Listing(a, P, d), Listing(c, Upper(Q), d), P # {}, Q # {}, Convex(P), FollowedBy(P, Q),
           NEW e, e = a \o c
    PROVE  Listing(e, Upper(P), d) /\ Begins(a, P, e)
<1>1. a \in Seq(Entry) /\ c \in Seq(Entry) /\ Len(a) \in Nat /\ Len(c) \in Nat
  BY KeysAreInts DEF Listing
<1>2. /\ e \in Seq(Entry) /\ Len(e) = Len(a) + Len(c)
      /\ \A k \in 1 .. Len(a) + Len(c) : e[k] = IF k <= Len(a) THEN a[k] ELSE c[k - Len(a)]
  BY ONLY e = a \o c, <1>1, ConcatLemma
<1>3. /\ \A i \in 1 .. Len(a) : a[i][1] \in P /\ a[i][1] \in Int
      /\ \A i \in 1 .. Len(c) : c[i][1] \in Upper(Q) /\ c[i][1] \in Int
  BY <1>1, KeysAreInts DEF Listing, LeafHolds
<1>4. Upper(P) = P \cup Upper(Q) /\ \A i \in P : \A k \in Upper(Q) : i < k
  BY UpperNext
<1>5. /\ \A i \in 1 .. Len(a) : e[i] = a[i]
      /\ \A i \in 1 .. Len(c) : e[Len(a) + i] = c[i]
  <2>1. ASSUME NEW i \in 1 .. Len(a) PROVE e[i] = a[i]
    BY ONLY i \in 1 .. Len(a), <1>1, <1>2
  <2>2. ASSUME NEW i \in 1 .. Len(c) PROVE e[Len(a) + i] = c[i]
    <3>1. /\ Len(a) + i \in 1 .. Len(a) + Len(c) /\ ~(Len(a) + i <= Len(a))
          /\ (Len(a) + i) - Len(a) = i
      BY ONLY i \in 1 .. Len(c), <1>1
    <3> QED BY ONLY <1>2, <3>1
  <2> QED BY <2>1, <2>2
<1>6. Begins(a, P, e)
  <2>1. ASSUME NEW x \in Len(a) + 1 .. Len(e), NEW k \in P PROVE k < e[x][1]
    <3>1. PICK i \in 1 .. Len(c) : x = Len(a) + i
      <4>1. x - Len(a) \in 1 .. Len(c) /\ x = Len(a) + (x - Len(a))
        BY ONLY x \in Len(a) + 1 .. Len(e), <1>1, <1>2
      <4> QED BY ONLY <4>1
    <3>2. e[x] = c[i]
      BY ONLY <1>5, <3>1
    <3> QED BY ONLY k \in P, <1>3, <1>4, <3>2
  <2>2. Len(a) <= Len(e)
    BY ONLY <1>1, <1>2
  <2> QED BY ONLY <1>5, <2>1, <2>2 DEF Begins
<1>7. InOrder(e, 0)
  <2>1. ASSUME NEW i \in 1 .. Len(e), NEW j \in 1 .. Len(e), i < j PROVE e[i][1] < e[j][1]
    <3>1. CASE j <= Len(a)
      <4>1. i \in 1 .. Len(a) /\ j \in 1 .. Len(a)
        BY ONLY <1>1, <1>2, <2>1, <3>1
      <4>2. a[i][1] < a[j][1]
        BY <2>1, <4>1 DEF Listing, InOrder
      <4> QED BY ONLY <1>5, <4>1, <4>2
    <3>2. CASE i <= Len(a) /\ j > Len(a)
      <4>1. i \in 1 .. Len(a) /\ j \in Len(a) + 1 .. Len(e)
        BY ONLY <1>1, <1>2, <2>1, <3>2
      <4>2. e[i] = a[i] /\ a[i][1] \in P
        BY ONLY <1>3, <1>5, <4>1
      <4> QED BY ONLY <1>6, <4>1, <4>2 DEF Begins
    <3>3. CASE i > Len(a)
      <4>1. PICK v \in 1 .. Len(c), w \in 1 .. Len(c) : i = Len(a) + v /\ j = Len(a) + w /\ v < w
        <5>1. /\ i - Len(a) \in 1 .. Len(c) /\ i = Len(a) + (i - Len(a))
              /\ j - Len(a) \in 1 .. Len(c) /\ j = Len(a) + (j - Len(a))
              /\ i - Len(a) < j - Len(a)
          BY ONLY i \in 1 .. Len(e), j \in 1 .. Len(e), <1>1, <1>2, <2>1, <3>3
        <5> QED BY ONLY <5>1
      <4>2. c[v][1] < c[w][1]
        BY <4>1 DEF Listing, InOrder
      <4> QED BY ONLY <1>5, <4>1, <4>2
    <3> QED BY ONLY i \in 1 .. Len(e), j \in 1 .. Len(e), <1>1, <1>2, <2>1, <3>1, <3>2, <3>3
  <2> QED BY ONLY <2>1 DEF InOrder
<1>8. LeafHolds(e, Upper(P), d)
  <2>1. ASSUME NEW x \in 1 .. Len(e)
        PROVE  e[x][1] \in Upper(P) /\ e[x][1] \in DOMAIN d /\ e[x][2] = d[e[x][1]]
    <3>1. CASE x <= Len(a)
      <4>1. x \in 1 .. Len(a)
        BY ONLY x \in 1 .. Len(e), <1>1, <1>2, <3>1
      <4>2. a[x][1] \in P /\ a[x][1] \in DOMAIN d /\ a[x][2] = d[a[x][1]]
        BY <4>1 DEF Listing, LeafHolds
      <4> QED BY ONLY <1>4, <1>5, <4>1, <4>2
    <3>2. CASE x > Len(a)
      <4>1. PICK i \in 1 .. Len(c) : x = Len(a) + i
        <5>1. x - Len(a) \in 1 .. Len(c) /\ x = Len(a) + (x - Len(a))
          BY ONLY x \in 1 .. Len(e), <1>1, <1>2, <3>2
        <5> QED BY ONLY <5>1
      <4>2. c[i][1] \in Upper(Q) /\ c[i][1] \in DOMAIN d /\ c[i][2] = d[c[i][1]]
        BY DEF Listing, LeafHolds
      <4> QED BY ONLY <1>4, <1>5, <4>1, <4>2
    <3> QED BY ONLY x \in 1 .. Len(e), <1>1, <1>2, <3>1, <3>2
  <2>2. ASSUME NEW k \in Upper(P), k \in DOMAIN d PROVE \E x \in 1 .. Len(e) : e[x][1] = k
    <3>1. CASE k \in P
      <4>1. PICK i \in 1 .. Len(a) : a[i][1] = k
        BY <2>2, <3>1 DEF Listing, LeafHolds
      <4>2. i \in 1 .. Len(e) /\ e[i][1] = k
        BY ONLY i \in 1 .. Len(a), <1>1, <1>2, <1>5, <4>1
      <4> QED BY ONLY <4>2
    <3>2. CASE k \in Upper(Q)
      <4>1. PICK i \in 1 .. Len(c) : c[i][1] = k
        BY <2>2, <3>2 DEF Listing, LeafHolds
      <4>2. Len(a) + i \in 1 .. Len(e)
        BY ONLY i \in 1 .. Len(c), <1>1, <1>2
      <4>3. e[Len(a) + i][1] = k
        BY ONLY i \in 1 .. Len(c), <1>5, <4>1
      <4> QED BY ONLY <4>2, <4>3
    <3> QED BY ONLY k \in Upper(P), <1>4, <3>1, <3>2
  <2> QED BY ONLY <2>1, <2>2 DEF LeafHolds
<1> QED BY ONLY <1>2, <1>6, <1>7, <1>8 DEF Listing

\* What the chain leads to from a leaf on: all entries from its part on.
LEMMA ChainLists ==
    ASSUME NEW D, NEW arr, NEW par, NEW root, NEW part, NEW level, NEW d,
           Shape(D, arr, par, root, part, level, d), NEW nxt, Chain(D, nxt, part, level), NEW g,
           GoesAlong(g, D, nxt, arr), NEW x \in D, level[x] = 0
    PROVE  Listing(g[x], Upper(part[x]), d) /\ Begins(arr[x], part[x], g[x])
<1> DEFINE Goal(p) == Listing(g[p], Upper(part[p]), d) /\ Begins(arr[p], part[p], g[p])
<1>1. PICK rank \in [D -> Nat] :
              /\ \A p \in D : rank[p] <= Cardinality(D)
              /\ \A p \in D : nxt[p] # INVALID_PAGE_ID => nxt[p] \in D /\ rank[nxt[p]] < rank[p]
  BY Ranks DEF Descends
<1>2. ASSUME NEW p \in D, level[p] = 0
      PROVE  /\ Listing(arr[p], part[p], d) /\ part[p] \in SUBSET Keys /\ part[p] # {}
             /\ Convex(part[p])
  <2>1. part[p] \in SUBSET Keys /\ part[p] # {} /\ arr[p] \in Seq(Entry)
    BY EntryFacts
  <2>2. Convex(part[p]) /\ InOrder(arr[p], 0) /\ LeafHolds(arr[p], part[p], d)
    BY <1>2 DEF Shape, PartsOK, LeavesOK
  <2> QED BY ONLY <2>1, <2>2 DEF Listing
<1>3. ASSUME NEW p \in D, level[p] = 0, nxt[p] = INVALID_PAGE_ID PROVE Goal(p)
  <2>1. g[p] = arr[p]
    BY <1>3 DEF GoesAlong
  <2>2. Upper(part[p]) = part[p]
    BY <1>2, <1>3, UpperLast DEF Chain, Ended
  <2>3. Len(arr[p]) \in Nat
    BY EntryFacts
  <2>4. Begins(arr[p], part[p], arr[p])
    BY ONLY <2>3 DEF Begins
  <2> QED BY ONLY p \in D, <1>2, <1>3, <2>1, <2>2, <2>4
<1>4. ASSUME NEW p \in D, level[p] = 0, nxt[p] # INVALID_PAGE_ID, Goal(nxt[p]) PROVE Goal(p)
  <2>1. PICK q : q = nxt[p]
    OBVIOUS
  <2>2. q \in D /\ level[q] = 0 /\ FollowedBy(part[p], part[q])
    BY <1>4, <2>1 DEF Chain, Linked
  <2>3. g[p] = arr[p] \o g[q]
    BY <1>4, <2>1 DEF GoesAlong
  <2>4. Listing(g[q], Upper(part[q]), d)
    BY ONLY <1>4, <2>1
  <2>5. part[q] \in SUBSET Keys /\ part[q] # {}
    BY ONLY <1>2, <2>2
  <2>6. /\ Listing(arr[p], part[p], d) /\ part[p] \in SUBSET Keys /\ part[p] # {}
        /\ Convex(part[p])
    BY ONLY p \in D, <1>2, <1>4
  <2>7. PICK P \in SUBSET Keys : P = part[p]
    BY ONLY <2>6
  <2>8. PICK Q \in SUBSET Keys : Q = part[q]
    BY ONLY <2>5
  <2>9. PICK a, c, e : a = arr[p] /\ c = g[q] /\ e = a \o c
    OBVIOUS
  <2>10. /\ Listing(a, P, d) /\ Listing(c, Upper(Q), d) /\ P # {} /\ Q # {} /\ Convex(P)
         /\ FollowedBy(P, Q) /\ e = g[p]
    BY ONLY <2>2, <2>3, <2>4, <2>5, <2>6, <2>7, <2>8, <2>9
  <2>11. Listing(e, Upper(P), d) /\ Begins(a, P, e)
    BY ONLY P \in SUBSET Keys, Q \in SUBSET Keys, <2>9, <2>10, ListingJoin
  <2> QED BY ONLY <2>7, <2>9, <2>10, <2>11
<1> DEFINE S == {n \in Nat : \A p \in D : level[p] = 0 /\ rank[p] <= n => Goal(p)}
<1> HIDE DEF Goal
<1>5. 0 \in S
  <2>1. ASSUME NEW p \in D, level[p] = 0, rank[p] <= 0 PROVE Goal(p)
    <3>1. nxt[p] = INVALID_PAGE_ID
      <4>1. nxt[p] # INVALID_PAGE_ID => rank[nxt[p]] \in Nat /\ rank[nxt[p]] < 0
        BY ONLY rank \in [D -> Nat], p \in D, <1>1, <2>1
      <4> QED BY ONLY <4>1
    <3> QED BY ONLY p \in D, <1>3, <2>1, <3>1
  <2> QED BY ONLY <2>1 DEF S
<1>6. ASSUME NEW n \in Nat, n \in S PROVE n + 1 \in S
  <2>1. ASSUME NEW p \in D, level[p] = 0, rank[p] <= n + 1 PROVE Goal(p)
    <3>1. CASE nxt[p] = INVALID_PAGE_ID
      BY ONLY p \in D, <1>3, <2>1, <3>1
    <3>2. CASE nxt[p] # INVALID_PAGE_ID
      <4>1. nxt[p] \in D /\ rank[nxt[p]] < rank[p]
        BY ONLY p \in D, <1>1, <3>2
      <4>2. rank[nxt[p]] <= n
        BY ONLY rank \in [D -> Nat], n \in Nat, p \in D, <2>1, <4>1
      <4>3. level[nxt[p]] = 0
        BY <3>2 DEF Chain, Linked
      <4>4. Goal(nxt[p])
        BY ONLY <1>6, <4>1, <4>2, <4>3 DEF S
      <4> QED BY ONLY p \in D, <1>4, <2>1, <3>2, <4>4
    <3> QED BY ONLY <3>1, <3>2
  <2>2. n + 1 \in Nat
    OBVIOUS
  <2> QED BY ONLY <2>1, <2>2 DEF S
<1>7. rank[x] \in S
  <2> HIDE DEF S
  <2>1. rank[x] \in Nat
    BY <1>1
  <2> QED BY ONLY <1>5, <1>6, <2>1, NatSetInduction
<1>8. Goal(x)
  <2>1. rank[x] \in Nat /\ rank[x] <= rank[x]
    BY <1>1
  <2> QED BY ONLY x \in D, level[x] = 0, <1>7, <2>1 DEF S
<1> QED BY ONLY <1>8 DEF Goal

\* A stretch of a listing that has exactly the keys of T lists T.
LEMMA ListingCut ==
    ASSUME NEW s, NEW S, NEW d, Listing(s, S, d), NEW m \in Nat, NEW n \in Nat,
           m <= n, n <= Len(s), NEW T \in SUBSET S,
           \A x \in 1 .. Len(s) : s[x][1] \in T <=> m < x /\ x <= n,
           NEW b, b = SubSeq(s, m + 1, n)
    PROVE  Listing(b, T, d)
<1>1. s \in Seq(Entry) /\ Len(s) \in Nat
  BY KeysAreInts DEF Listing
<1>2. b \in Seq(Entry) /\ Len(b) = n - m /\ \A k \in 1 .. n - m : b[k] = s[m + k]
  <2>1. PICK i \in Nat : i = m + 1
    OBVIOUS
  <2>2. 1 <= i /\ i <= n + 1 /\ n - i + 1 = n - m /\ \A k \in 1 .. n - m : i + k - 1 = m + k
    BY ONLY m \in Nat, n \in Nat, m <= n, <2>1
  <2>3. /\ SubSeq(s, i, n) \in Seq(Entry) /\ Len(SubSeq(s, i, n)) = n - i + 1
        /\ \A k \in 1 .. n - i + 1 : SubSeq(s, i, n)[k] = s[i + k - 1]
    BY ONLY i \in Nat, n \in Nat, n <= Len(s), <1>1, <2>2, SubSeqLemma
  <2>4. b = SubSeq(s, i, n)
    BY ONLY b = SubSeq(s, m + 1, n), <2>1
  <2> QED BY ONLY <2>2, <2>3, <2>4
<1>3. \A k \in 1 .. n - m : m + k \in 1 .. Len(s) /\ m < m + k /\ m + k <= n
  BY ONLY m \in Nat, n \in Nat, m <= n, n <= Len(s), <1>1
<1>4. InOrder(b, 0)
  <2>1. ASSUME NEW i \in 1 .. Len(b), NEW j \in 1 .. Len(b), i < j PROVE b[i][1] < b[j][1]
    <3>1. PICK v \in 1 .. Len(s), w \in 1 .. Len(s) : v = m + i /\ w = m + j
      BY ONLY i \in 1 .. Len(b), j \in 1 .. Len(b), <1>2, <1>3
    <3>2. v < w /\ b[i] = s[v] /\ b[j] = s[w]
      BY ONLY m \in Nat, n \in Nat, i \in 1 .. Len(b), j \in 1 .. Len(b), <1>2, <2>1, <3>1
    <3>3. s[v][1] < s[w][1]
      BY <3>2 DEF Listing, InOrder
    <3> QED BY ONLY <3>2, <3>3
  <2> QED BY ONLY <2>1 DEF InOrder
<1>5. LeafHolds(b, T, d)
  <2>1. ASSUME NEW i \in 1 .. Len(b)
        PROVE  b[i][1] \in T /\ b[i][1] \in DOMAIN d /\ b[i][2] = d[b[i][1]]
    <3>1. PICK v \in 1 .. Len(s) : v = m + i /\ m < v /\ v <= n
      BY ONLY i \in 1 .. Len(b), <1>2, <1>3
    <3>2. b[i] = s[v]
      BY ONLY i \in 1 .. Len(b), <1>2, <3>1
    <3>3. s[v][1] \in DOMAIN d /\ s[v][2] = d[s[v][1]]
      BY DEF Listing, LeafHolds
    <3>4. s[v][1] \in T
      BY <3>1
    <3> QED BY ONLY <3>2, <3>3, <3>4
  <2>2. ASSUME NEW k \in T, k \in DOMAIN d PROVE \E i \in 1 .. Len(b) : b[i][1] = k
    <3>1. PICK v \in 1 .. Len(s) : s[v][1] = k
      BY <2>2 DEF Listing, LeafHolds
    <3>2. m < v /\ v <= n
      BY <3>1
    <3>3. v - m \in 1 .. Len(b) /\ m + (v - m) = v
      BY ONLY m \in Nat, n \in Nat, v \in 1 .. Len(s), <1>1, <1>2, <3>2
    <3>4. b[v - m] = s[v]
      BY ONLY <1>2, <3>3
    <3> QED BY ONLY <3>1, <3>3, <3>4
  <2> QED BY ONLY <2>1, <2>2 DEF LeafHolds
<1> QED BY ONLY <1>2, <1>4, <1>5 DEF Listing

\* h has the keys of W with their values; the one at place x has x keys up to it.
Placed(h, W, d) ==
    /\ Cardinality(W) = Len(h)
    /\ \A x \in 1 .. Len(h) : /\ h[x][1] \in W /\ h[x][2] = d[h[x][1]]
                              /\ Cardinality({j \in W : j <= h[x][1]}) = x
    /\ \A k \in W : \E x \in 1 .. Len(h) : k = h[x][1]

\* Every key of a listing is at the place its rank among the keys gives it.
LEMMA Places ==
    ASSUME NEW h, NEW T, NEW d, Listing(h, T, d),
           NEW W, W = {k \in DOMAIN d : k \in T}
    PROVE  Placed(h, W, d)
<1>1. h \in Seq(Entry) /\ Len(h) \in Nat /\ \A i \in 1 .. Len(h) : h[i][1] \in Int
  BY KeysAreInts DEF Listing
<1>2. /\ \A x \in 1 .. Len(h) : h[x][1] \in W /\ h[x][2] = d[h[x][1]]
      /\ \A k \in W : \E x \in 1 .. Len(h) : k = h[x][1]
  BY DEF Listing, LeafHolds
<1>3. \A x, y \in 1 .. Len(h) : x < y => h[x][1] < h[y][1]
  BY DEF Listing, InOrder
<1>4. ASSUME NEW n \in 0 .. Len(h), NEW V \in SUBSET W,
             \A x \in 1 .. Len(h) : h[x][1] \in V <=> x <= n
      PROVE  Cardinality(V) = n
  <2>1. n \in Nat /\ n \in Int /\ 1 \in Int /\ \A x \in 1 .. n : x \in 1 .. Len(h) /\ x <= n
    BY ONLY n \in 0 .. Len(h), <1>1
  <2>2. PICK f : f = [x \in 1 .. n |-> h[x][1]]
    OBVIOUS
  <2>3. f \in [1 .. n -> V]
    BY ONLY <1>4, <2>1, <2>2
  <2>4. ASSUME NEW x \in 1 .. n, NEW y \in 1 .. n, f[x] = f[y] PROVE x = y
    <3>1. h[x][1] = h[y][1] /\ h[x][1] \in Int /\ ~(x < y) /\ ~(y < x)
      <4>1. h[x][1] = h[y][1] /\ h[x][1] \in Int
        BY ONLY x \in 1 .. n, y \in 1 .. n, <1>1, <2>1, <2>2, <2>4
      <4>2. ~(h[x][1] < h[y][1]) /\ ~(h[y][1] < h[x][1])
        BY ONLY <4>1
      <4> QED BY ONLY x \in 1 .. n, y \in 1 .. n, <1>3, <2>1, <4>1, <4>2
    <3> QED BY ONLY x \in 1 .. n, y \in 1 .. n, <2>1, <3>1
  <2>5. ASSUME NEW k \in V PROVE \E x \in 1 .. n : f[x] = k
    <3>1. PICK x \in 1 .. Len(h) : k = h[x][1]
      BY ONLY V \in SUBSET W, k \in V, <1>2
    <3>2. x \in 1 .. n
      BY ONLY x \in 1 .. Len(h), k \in V, <1>1, <1>4, <2>1, <3>1
    <3> QED BY ONLY <2>2, <3>1, <3>2
  <2>6. f \in Bijection(1 .. n, V)
    BY ONLY <2>3, <2>4, <2>5 DEF Bijection, Injection, Surjection, IsInjective
  <2>7. IsFiniteSet(1 .. n) /\ Cardinality(1 .. n) = n
    BY ONLY <2>1, FS_Interval
  <2>8. ExistsBijection(1 .. n, V)
    BY ONLY <2>6 DEF ExistsBijection
  <2> QED BY ONLY <2>7, <2>8, FS_Bijection
<1>5. Cardinality(W) = Len(h)
  <2>1. Len(h) \in 0 .. Len(h) /\ W \in SUBSET W
    BY ONLY <1>1
  <2>2. \A x \in 1 .. Len(h) : h[x][1] \in W <=> x <= Len(h)
    BY ONLY <1>1, <1>2
  <2> QED BY ONLY <1>4, <2>1, <2>2
<1>6. ASSUME NEW x \in 1 .. Len(h) PROVE Cardinality({j \in W : j <= h[x][1]}) = x
  <2>1. PICK V : V = {j \in W : j <= h[x][1]}
    OBVIOUS
  <2>2. x \in 0 .. Len(h) /\ V \in SUBSET W
    BY ONLY x \in 1 .. Len(h), <1>1, <2>1
  <2>3. ASSUME NEW y \in 1 .. Len(h) PROVE h[y][1] \in V <=> y <= x
    <3>1. h[y][1] \in V <=> h[y][1] <= h[x][1]
      BY ONLY y \in 1 .. Len(h), <1>2, <2>1
    <3>2. h[y][1] \in Int /\ h[x][1] \in Int /\ x \in Int /\ y \in Int
      BY ONLY x \in 1 .. Len(h), y \in 1 .. Len(h), <1>1
    <3>3. CASE y <= x
      <4>1. y = x \/ h[y][1] < h[x][1]
        BY ONLY x \in 1 .. Len(h), y \in 1 .. Len(h), <1>3, <3>2, <3>3
      <4> QED BY ONLY <3>1, <3>2, <3>3, <4>1
    <3>4. CASE x < y
      <4>1. h[x][1] < h[y][1]
        BY ONLY x \in 1 .. Len(h), y \in 1 .. Len(h), <1>3, <3>4
      <4> QED BY ONLY <3>1, <3>2, <3>4, <4>1
    <3> QED BY ONLY <3>2, <3>3, <3>4
  <2> QED BY ONLY <1>4, <2>1, <2>2, <2>3
<1> QED BY ONLY <1>2, <1>5, <1>6 DEF Placed

\* The values of h, and those d has for the keys of W in ascending order.
ValuesOf(h) == [j \in DOMAIN h |-> h[j][2]]
ByRank(d, W) ==
    [i \in 1 .. Cardinality(W) |-> d[CHOOSE k \in W : Cardinality({j \in W : j <= k}) = i]]

\* The values of a listing are those that ScanReference takes key by key.
LEMMA ListingValues ==
    ASSUME NEW h, NEW T, NEW d, Listing(h, T, d),
           NEW W, W = {k \in DOMAIN d : k \in T}
    PROVE  ValuesOf(h) = ByRank(d, W)
<1>1. /\ Cardinality(W) = Len(h)
      /\ \A x \in 1 .. Len(h) : /\ h[x][1] \in W /\ h[x][2] = d[h[x][1]]
                                /\ Cardinality({j \in W : j <= h[x][1]}) = x
      /\ \A k \in W : \E x \in 1 .. Len(h) : k = h[x][1]
  <2>1. Placed(h, W, d)
    BY Places
  <2> QED BY ONLY <2>1 DEF Placed
<1>2. DOMAIN h = 1 .. Len(h)
  BY DEF Listing
<1>3. ASSUME NEW i \in 1 .. Len(h)
      PROVE  h[i][2] = d[CHOOSE k \in W : Cardinality({j \in W : j <= k}) = i]
  <2>1. PICK c : c = CHOOSE k \in W : Cardinality({j \in W : j <= k}) = i
    OBVIOUS
  <2>2. h[i][1] \in W /\ Cardinality({j \in W : j <= h[i][1]}) = i
    BY ONLY i \in 1 .. Len(h), <1>1
  <2>3. c \in W /\ Cardinality({j \in W : j <= c}) = i
    BY ONLY <2>1, <2>2
  <2>4. PICK x \in 1 .. Len(h) : c = h[x][1]
    BY ONLY <1>1, <2>3
  <2>5. x = i
    BY ONLY x \in 1 .. Len(h), <1>1, <2>3, <2>4
  <2>6. h[i][2] = d[h[i][1]]
    BY ONLY i \in 1 .. Len(h), <1>1
  <2>7. h[i][2] = d[c]
    BY ONLY <2>4, <2>5, <2>6
  <2> QED BY ONLY <2>1, <2>7, Zenon
<1> QED BY ONLY <1>1, <1>2, <1>3 DEF ValuesOf, ByRank

\* The keys a scan from key goes over, and those it returns.
From(key) == {k \in Keys : k >= key}
Wanted(key) == {k \in Keys : k >= key /\ First[k] = First[key]}

\* From the first entry not below key on, the chain lists the keys from key on.
LEMMA RestLists ==
    ASSUME NEW a \in Seq(Entry), InOrder(a, 0), NEW P \in SUBSET Keys, NEW c, NEW d,
           Listing(c, Upper(P), d), Begins(a, P, c), NEW key \in P,
           NEW i, i = KeyIndex(a, key), NEW m, m = IF i = 0 THEN Len(a) ELSE i - 1,
           NEW b, b = SubSeq(c, m + 1, Len(c))
    PROVE  Listing(b, From(key), d)
<1>1. key \in Int /\ Len(a) \in Nat /\ \A x \in 1 .. Len(a) : a[x][1] \in Int
  BY TreeAssumption, KeysAreInts
<1>2. c \in Seq(Entry) /\ Len(c) \in Nat /\ \A x \in 1 .. Len(c) : c[x][1] \in Int
  BY KeysAreInts DEF Listing
<1>3. \/ i = 0 /\ \A x \in 1 .. Len(a) : a[x][1] < key
      \/ /\ i \in 1 .. Len(a) /\ a[i][1] >= key
         /\ \A x \in 1 .. Len(a) : x < i => a[x][1] < key
  BY <1>1, KeyIndexLemma
<1>4. m \in Nat /\ m <= Len(a)
  BY ONLY m = IF i = 0 THEN Len(a) ELSE i - 1, <1>1, <1>3
<1>5. \A x \in 1 .. Len(a) : a[x][1] >= key <=> m < x
  <2>1. CASE i = 0
    BY ONLY m = IF i = 0 THEN Len(a) ELSE i - 1, <1>1, <1>3, <2>1
  <2>2. CASE i # 0
    <3>1. ASSUME NEW x \in 1 .. Len(a) PROVE a[x][1] >= key <=> m < x
      <4>1. i \in 1 .. Len(a) /\ a[i][1] >= key /\ m = i - 1 /\ (x < i => a[x][1] < key)
        BY ONLY m = IF i = 0 THEN Len(a) ELSE i - 1, x \in 1 .. Len(a), <1>3, <2>2
      <4>2. i < x => a[i][1] < a[x][1]
        BY ONLY InOrder(a, 0), x \in 1 .. Len(a), <4>1 DEF InOrder
      <4>3. a[i][1] \in Int /\ a[x][1] \in Int /\ i \in Int /\ x \in Int
        BY ONLY x \in 1 .. Len(a), <1>1, <4>1
      <4> QED BY ONLY <1>1, <4>1, <4>2, <4>3
    <3> QED BY ONLY <3>1
  <2> QED BY ONLY <2>1, <2>2
<1>6. Len(a) <= Len(c) /\ \A x \in 1 .. Len(a) : c[x] = a[x]
  BY DEF Begins
<1>7. ASSUME NEW x \in 1 .. Len(c) PROVE c[x][1] \in From(key) <=> m < x /\ x <= Len(c)
  <2>1. c[x][1] \in From(key) <=> c[x][1] >= key
    BY DEF Listing, LeafHolds, Upper, From
  <2>2. CASE x <= Len(a)
    <3>1. x \in 1 .. Len(a)
      BY ONLY x \in 1 .. Len(c), <1>1, <1>2, <2>2
    <3> QED BY ONLY x \in 1 .. Len(c), <1>5, <1>6, <2>1, <3>1
  <2>3. CASE Len(a) < x
    <3>1. x \in Len(a) + 1 .. Len(c)
      BY ONLY x \in 1 .. Len(c), <1>1, <1>2, <2>3
    <3>2. key < c[x][1]
      BY <3>1 DEF Begins
    <3> QED BY ONLY x \in 1 .. Len(c), <1>1, <1>2, <1>4, <2>1, <2>3, <3>2
  <2> QED BY ONLY x \in 1 .. Len(c), <1>1, <2>2, <2>3
<1>8. From(key) \in SUBSET Upper(P)
  BY <1>1, TreeAssumption DEF From, Upper
<1>9. m <= Len(c)
  BY ONLY <1>1, <1>2, <1>4, <1>6
<1>10. PICK n \in Nat : n = Len(c)
  BY ONLY <1>2
<1>11. PICK T \in SUBSET Upper(P) : T = From(key)
  BY ONLY <1>8
<1>12. /\ m <= n /\ n <= Len(c) /\ b = SubSeq(c, m + 1, n)
       /\ \A x \in 1 .. Len(c) : c[x][1] \in T <=> m < x /\ x <= n
  BY ONLY b = SubSeq(c, m + 1, Len(c)), <1>7, <1>9, <1>10, <1>11
<1>13. Listing(b, T, d)
  BY ONLY Listing(c, Upper(P), d), n \in Nat, T \in SUBSET Upper(P), <1>4, <1>12, ListingCut
<1> QED BY ONLY <1>11, <1>13

\* The place at which ScanKey stops, 0 when it goes to the end.
Stops(s, key, stop) == stop = SelectInSeq(s, LAMBDA e : First[e[1]] # First[key])

\* Where the scan meets the first key that the standby comparator tells apart.
LEMMA StopLemma ==
    ASSUME NEW s \in Seq(Entry), NEW key, NEW stop, Stops(s, key, stop)
    PROVE  \/ stop = 0 /\ \A x \in 1 .. Len(s) : First[s[x][1]] = First[key]
           \/ /\ stop \in 1 .. Len(s) /\ First[s[stop][1]] # First[key]
              /\ \A x \in 1 .. Len(s) : x < stop => First[s[x][1]] = First[key]
<1> DEFINE I == {x \in 1 .. Len(s) : First[s[x][1]] # First[key]}
<1>1. stop = IF I # {} THEN Min(I) ELSE 0
  BY DEF Stops, SelectInSeq
<1>2. CASE I = {}
  BY <1>1, <1>2
<1>3. CASE I # {}
  <2>1. I \in SUBSET Nat /\ stop = Min(I) /\ Len(s) \in Nat
    BY <1>1, <1>3
  <2>2. stop \in I /\ \A y \in I : stop <= y
    <3> HIDE DEF I
    <3> QED BY ONLY <1>3, <2>1, MinLemma
  <2>3. ASSUME NEW x \in 1 .. Len(s), x < stop PROVE First[s[x][1]] = First[key]
    <3>1. stop \in 1 .. Len(s) /\ ~(stop <= x)
      BY <2>2, <2>3
    <3> QED BY <2>2, <3>1
  <2> QED BY <2>2, <2>3
<1> QED BY <1>2, <1>3

\* What the scan returns before it stops.
LEMMA HitsList ==
    ASSUME NEW s, NEW key \in Keys, NEW d, Listing(s, From(key), d), NEW stop, Stops(s, key, stop),
           NEW h, h = IF stop = 0 THEN s ELSE SubSeq(s, 1, stop - 1)
    PROVE  Listing(h, Wanted(key), d)
<1>1. s \in Seq(Entry) /\ Len(s) \in Nat
  BY KeysAreInts DEF Listing
<1>2. \/ stop = 0 /\ \A x \in 1 .. Len(s) : First[s[x][1]] = First[key]
      \/ /\ stop \in 1 .. Len(s) /\ First[s[stop][1]] # First[key]
         /\ \A x \in 1 .. Len(s) : x < stop => First[s[x][1]] = First[key]
  BY <1>1, StopLemma
<1>3. \A x \in 1 .. Len(s) : s[x][1] \in Keys /\ s[x][1] >= key
  BY DEF Listing, LeafHolds, From
<1>4. Wanted(key) \in SUBSET From(key)
  BY DEF Wanted, From
<1>5. CASE stop = 0
  <2>1. h = s
    BY <1>5
  <2>2. \A x \in 1 .. Len(s) : s[x][1] \in Wanted(key)
    BY ONLY <1>2, <1>3, <1>5 DEF Wanted
  <2>3. LeafHolds(s, Wanted(key), d)
    BY <1>4, <2>2 DEF Listing, LeafHolds
  <2> QED BY <2>1, <2>3 DEF Listing
<1>6. CASE stop # 0
  <2>1. /\ stop \in 1 .. Len(s) /\ First[s[stop][1]] # First[key]
        /\ \A x \in 1 .. Len(s) : x < stop => First[s[x][1]] = First[key]
    BY ONLY <1>2, <1>6
  <2>2. PICK n \in Nat : n = stop - 1
    BY ONLY <1>1, <2>1
  <2>3. ASSUME NEW x \in 1 .. Len(s) PROVE s[x][1] \in Wanted(key) <=> 0 < x /\ x <= n
    <3>1. CASE x < stop
      <4>1. s[x][1] \in Wanted(key)
        BY ONLY x \in 1 .. Len(s), <1>3, <2>1, <3>1 DEF Wanted
      <4> QED BY ONLY x \in 1 .. Len(s), <1>1, <2>1, <2>2, <3>1, <4>1
    <3>2. CASE stop <= x
      <4>1. PICK j, k, l : j = s[stop][1] /\ k = s[x][1] /\ l = key
        OBVIOUS
      <4>2. stop = x \/ j < k
        BY <1>1, <2>1, <3>2, <4>1 DEF Listing, InOrder
      <4>3. j \in Keys /\ k \in Keys /\ l \in Keys /\ j >= l /\ First[j] # First[l]
        BY ONLY key \in Keys, x \in 1 .. Len(s), <1>3, <2>1, <4>1
      <4>4. First[k] # First[l]
        <5>1. /\ j \in Int /\ l \in Int /\ First[j] \in Int /\ First[k] \in Int /\ First[l] \in Int
              /\ (l < j => First[l] <= First[j]) /\ (j < k => First[j] <= First[k])
          BY ONLY <4>3, TreeAssumption
        <5>2. l < j
          BY ONLY <4>3, <5>1
        <5>3. j = k \/ j < k
          BY ONLY <4>1, <4>2
        <5> QED BY ONLY <4>3, <5>1, <5>2, <5>3
      <4>5. s[x][1] \notin Wanted(key)
        BY ONLY <4>1, <4>4 DEF Wanted
      <4> QED BY ONLY x \in 1 .. Len(s), <1>1, <2>1, <2>2, <3>2, <4>5
    <3> QED BY ONLY x \in 1 .. Len(s), <1>1, <2>1, <3>1, <3>2
  <2>4. PICK m \in Nat : m = 0
    OBVIOUS
  <2>5. m <= n /\ n <= Len(s) /\ m + 1 = 1
    BY ONLY <1>1, <2>1, <2>2, <2>4
  <2>6. h = SubSeq(s, m + 1, n)
    BY ONLY h = IF stop = 0 THEN s ELSE SubSeq(s, 1, stop - 1), <1>6, <2>2, <2>5
  <2>7. PICK S, T : S = From(key) /\ T = Wanted(key)
    OBVIOUS
  <2>8. /\ Listing(s, S, d) /\ T \in SUBSET S
        /\ \A x \in 1 .. Len(s) : s[x][1] \in T <=> m < x /\ x <= n
    BY ONLY Listing(s, From(key), d), <1>4, <2>3, <2>4, <2>7
  <2>9. Listing(h, T, d)
    BY ONLY m \in Nat, n \in Nat, <2>5, <2>6, <2>8, ListingCut
  <2> QED BY ONLY <2>7, <2>9
<1> QED BY ONLY <1>5, <1>6
=============================================================================
