--------------------------- MODULE BufferPoolProofs ---------------------------
(***************************************************************************)
(* The buffer pool, for any number of clients, frames and pages: frames    *)
(* are accounted for, pins are counted, pinned pages keep their frames,    *)
(* and the pool is a store of pages.                                       *)
(***************************************************************************)
EXTENDS BufferPool, FiniteSetTheorems, SequenceTheorems,
        WellFoundedInduction, NaturalsInduction, TLAPS

\* The types the proofs need: PoolTypeOK, and that the lists are sequences.
TypesOK ==
    /\ pages \in [Frames -> Page]
    /\ page_table \in [DOMAIN page_table -> Frames]
    /\ DOMAIN page_table \subseteq PageIds
    /\ disk \in [DOMAIN disk -> Data]
    /\ DOMAIN disk \subseteq PageIds
    /\ next_page_id \in 1 .. MaxPages
    /\ live \subseteq 0 .. next_page_id - 1
    /\ live \subseteq DOMAIN disk
    /\ held \in [Clients -> [page : PageIds \cup {None}, wrote : BOOLEAN]]
    /\ cleaned \in BOOLEAN

\* The three lists have no duplicates; the first page to be flushed is the header.
ListsOK ==
    /\ table_order \in Seq(PageIds) /\ IsInjective(table_order)
    /\ Range(table_order) = DOMAIN page_table
    /\ Len(table_order) > 0 /\ table_order[1] = HEADER_PAGE_ID
    /\ free_list \in Seq(Frames) /\ IsInjective(free_list)
    /\ queue \in Seq(Frames) /\ IsInjective(queue)
    /\ Range(free_list) \cap Range(queue) = {}

\* The pages of the tree that the pool has.  page_table_ may have more entries:
\* those that a clean left behind.
Resident == live \cap DOMAIN page_table

\* The pages that somebody has pinned are in the pool, and the header is in
\* the last frame.
PinsAreResident ==
    /\ HEADER_PAGE_ID \in Resident
    /\ page_table[HEADER_PAGE_ID] = LastFrame
    /\ \A c \in Clients : /\ held[c].page # None => held[c].page \in Resident
                          /\ held[c].wrote => held[c].page # None

\* A page of the tree that is in the pool has a frame that is not free, knows
\* the page, counts its pins, and is evictable when there are none.
ResidentHasFrame ==
    \A p \in Resident :
        /\ page_table[p] \notin Range(free_list)
        /\ pages[page_table[p]].page_id = p
        /\ pages[page_table[p]].pin_count = Pins(p)
        /\ page_table[p] \in Range(queue) <=> Pins(p) = 0

\* The other way round: a frame that is not free holds a page of the tree.
FrameHasResident ==
    \A f \in Frames \ Range(free_list) :
        /\ pages[f].page_id \in Resident
        /\ page_table[pages[f].page_id] = f

\* A page that is not dirty, and that nobody who has it pinned has written to,
\* is in the file as it is in the pool.
CleanIsOnDisk ==
    \A p \in Resident :
        \/ pages[page_table[p]].is_dirty
        \/ \E c \in Clients : held[c].page = p /\ held[c].wrote
        \/ disk[p] = pages[page_table[p]].data

\* Only a clean leaves entries behind.
NothingIsLeft == ~cleaned => DOMAIN page_table \subseteq live

PoolInv ==
    /\ TypesOK /\ ListsOK /\ PinsAreResident
    /\ ResidentHasFrame /\ FrameHasResident
    /\ CleanIsOnDisk /\ NothingIsLeft

-----------------------------------------------------------------------------
\* RemoveAt drops one element and moves the later ones up.
LEMMA RemoveAtLemma ==
    ASSUME NEW S, NEW s \in Seq(S), NEW i \in 1 .. Len(s)
    PROVE  /\ RemoveAt(s, i) \in Seq(S)
           /\ Len(RemoveAt(s, i)) = Len(s) - 1
           /\ \A j \in 1 .. Len(s) - 1 :
                 RemoveAt(s, i)[j] = IF j < i THEN s[j] ELSE s[j + 1]
<1> DEFINE a == SubSeq(s, 1, i - 1)
           b == SubSeq(s, i + 1, Len(s))
<1>1. a \in Seq(S) /\ Len(a) = i - 1 /\ \A j \in 1 .. i - 1 : a[j] = s[j]
  OBVIOUS
<1>2. /\ b \in Seq(S) /\ Len(b) = Len(s) - i
      /\ \A j \in 1 .. Len(s) - i : b[j] = s[i + j]
  OBVIOUS
<1>3. RemoveAt(s, i) = a \o b
  BY DEF RemoveAt
<1> HIDE DEF a, b
<1>4. /\ a \o b \in Seq(S) /\ Len(a \o b) = Len(s) - 1
      /\ \A j \in 1 .. Len(s) - 1 : (a \o b)[j] = IF j < i THEN a[j] ELSE b[j - (i - 1)]
  <2>1. Len(a) + Len(b) = Len(s) - 1
    BY <1>1, <1>2
  <2>2. /\ a \o b \in Seq(S) /\ Len(a \o b) = Len(a) + Len(b)
        /\ \A j \in 1 .. Len(a) + Len(b) :
              (a \o b)[j] = IF j <= Len(a) THEN a[j] ELSE b[j - Len(a)]
    BY <1>1, <1>2, ConcatProperties
  <2> QED BY <2>1, <2>2, <1>1
<1>5. ASSUME NEW j \in 1 .. Len(s) - 1
      PROVE  (a \o b)[j] = IF j < i THEN s[j] ELSE s[j + 1]
  <2>1. CASE j < i
    BY <2>1, <1>1, <1>4
  <2>2. CASE ~(j < i)
    <3>1. j - (i - 1) \in 1 .. Len(s) - i /\ i + (j - (i - 1)) = j + 1
      BY <2>2
    <3> QED BY <2>2, <3>1, <1>2, <1>4
  <2> QED BY <2>1, <2>2
<1> QED BY <1>3, <1>4, <1>5

\* Erasing from a list without duplicates takes out exactly the one element and
\* leaves another first element where it is.
LEMMA WithoutLemma ==
    ASSUME NEW S, NEW s \in Seq(S), IsInjective(s), NEW e
    PROVE  /\ Without(s, e) \in Seq(S) /\ IsInjective(Without(s, e))
           /\ Range(Without(s, e)) = Range(s) \ {e}
           /\ Len(s) > 0 /\ s[1] # e => /\ Len(Without(s, e)) > 0
                                        /\ Without(s, e)[1] = s[1]
<1>1. CASE e \notin Range(s)
  BY <1>1 DEF Without
<1>2. CASE e \in Range(s)
  <2> DEFINE i == CHOOSE k \in DOMAIN s : s[k] = e
             w == Without(s, e)
  <2>1. i \in 1 .. Len(s) /\ s[i] = e
    BY <1>2 DEF Range
  <2>2. w = RemoveAt(s, i)
    BY <1>2 DEF Without
  <2> HIDE DEF i
  <2>3. /\ w \in Seq(S) /\ Len(w) = Len(s) - 1
        /\ \A j \in 1 .. Len(s) - 1 : w[j] = IF j < i THEN s[j] ELSE s[j + 1]
    BY <2>1, <2>2, RemoveAtLemma
  <2> HIDE DEF w
  <2>4. DOMAIN w = 1 .. Len(s) - 1 /\ DOMAIN s = 1 .. Len(s)
    BY <2>3
  <2>5. IsInjective(w)
    <3> DEFINE at(j) == IF j < i THEN j ELSE j + 1
    <3>1. \A j \in 1 .. Len(s) - 1 : at(j) \in 1 .. Len(s) /\ w[j] = s[at(j)]
      BY <2>1, <2>3
    <3>2. \A j, k \in 1 .. Len(s) - 1 : at(j) = at(k) => j = k
      BY <2>1
    <3> HIDE DEF at
    <3> QED BY <2>4, <3>1, <3>2 DEF IsInjective
  <2>6. ASSUME NEW x \in Range(w) PROVE x \in Range(s) \ {e}
    <3>1. PICK j \in 1 .. Len(s) - 1 : w[j] = x
      BY <2>4 DEF Range
    <3>2. (x = s[j] /\ j < i) \/ (x = s[j + 1] /\ j + 1 > i)
      BY <3>1, <2>1, <2>3
    <3> QED BY <3>1, <3>2, <2>1, <2>4 DEF Range, IsInjective
  <2>7. ASSUME NEW x \in Range(s) \ {e} PROVE x \in Range(w)
    <3>1. PICK k \in 1 .. Len(s) : s[k] = x
      BY <2>4 DEF Range
    <3>2. CASE k < i
      BY <3>1, <3>2, <2>1, <2>3, <2>4 DEF Range
    <3>3. CASE k > i
      <4>1. k - 1 \in 1 .. Len(s) - 1 /\ w[k - 1] = x
        BY <3>1, <3>3, <2>1, <2>3
      <4> QED BY <4>1, <2>4 DEF Range
    <3> QED BY <3>1, <3>2, <3>3, <2>1
  <2>8. Len(s) > 0 /\ s[1] # e => Len(w) > 0 /\ w[1] = s[1]
    BY <2>1, <2>3
  <2> QED BY <2>3, <2>5, <2>6, <2>7, <2>8 DEF w
<1> QED BY <1>1, <1>2

\* Appending an element that is not there.
LEMMA AppendLemma ==
    ASSUME NEW S, NEW s \in Seq(S), IsInjective(s), NEW e \in S, e \notin Range(s)
    PROVE  /\ Append(s, e) \in Seq(S) /\ IsInjective(Append(s, e))
           /\ Range(Append(s, e)) = Range(s) \cup {e}
           /\ Len(Append(s, e)) > 0
           /\ Len(s) > 0 => Append(s, e)[1] = s[1]
<1> DEFINE a == Append(s, e)
<1>1. /\ a \in Seq(S) /\ Len(a) = Len(s) + 1 /\ Len(s) \in Nat
      /\ DOMAIN a = 1 .. Len(s) + 1 /\ DOMAIN s = 1 .. Len(s)
      /\ \A j \in 1 .. Len(s) : a[j] = s[j]
      /\ a[Len(s) + 1] = e
  OBVIOUS
<1> HIDE DEF a
<1>2. IsInjective(a)
  BY <1>1 DEF IsInjective, Range
<1>3. \A x : x \in Range(a) => x \in Range(s) \cup {e}
  BY <1>1 DEF Range
<1>4. \A x : x \in Range(s) \cup {e} => x \in Range(a)
  BY <1>1 DEF Range
<1> QED BY <1>1, <1>2, <1>3, <1>4 DEF a

\* Taking the last element, as pop_back does.
LEMMA PopBackLemma ==
    ASSUME NEW S, NEW s \in Seq(S), IsInjective(s), s # <<>>,
           NEW t, t = SubSeq(s, 1, Len(s) - 1)
    PROVE  /\ t \in Seq(S) /\ IsInjective(t)
           /\ s[Len(s)] \in Range(s)
           /\ Range(t) = Range(s) \ {s[Len(s)]}
<1>1. /\ Len(s) \in Nat \ {0} /\ DOMAIN s = 1 .. Len(s)
      /\ t \in Seq(S) /\ DOMAIN t = 1 .. Len(s) - 1
      /\ \A j \in 1 .. Len(s) - 1 : t[j] = s[j]
  OBVIOUS
<1>2. IsInjective(t) /\ s[Len(s)] \in Range(s)
  BY <1>1 DEF IsInjective, Range
<1>3. \A x : x \in Range(t) => x \in Range(s) \ {s[Len(s)]}
  BY <1>1 DEF Range, IsInjective
<1>4. ASSUME NEW x \in Range(s) \ {s[Len(s)]} PROVE x \in Range(t)
  <2>1. PICK k \in 1 .. Len(s) : s[k] = x
    BY <1>1 DEF Range
  <2>2. k \in 1 .. Len(s) - 1 /\ t[k] = x
    BY <1>1, <2>1
  <2> QED BY <1>1, <2>2 DEF Range
<1> QED BY <1>1, <1>2, <1>3, <1>4

\* Taking the first element, as Victim does.
LEMMA PopFrontLemma ==
    ASSUME NEW S, NEW s \in Seq(S), IsInjective(s), s # <<>>
    PROVE  /\ Tail(s) \in Seq(S) /\ IsInjective(Tail(s))
           /\ Head(s) \in Range(s)
           /\ Range(Tail(s)) = Range(s) \ {Head(s)}
<1> DEFINE t == Tail(s)
<1>1. /\ Len(s) \in Nat \ {0} /\ DOMAIN s = 1 .. Len(s) /\ Head(s) = s[1]
      /\ t \in Seq(S) /\ DOMAIN t = 1 .. Len(s) - 1
      /\ \A j \in 1 .. Len(s) - 1 : t[j] = s[j + 1]
  OBVIOUS
<1> HIDE DEF t
<1>2. IsInjective(t) /\ Head(s) \in Range(s)
  <2>1. \A j \in DOMAIN t : j + 1 \in DOMAIN s /\ t[j] = s[j + 1]
    BY <1>1
  <2>2. IsInjective(t)
    BY <1>1, <2>1 DEF IsInjective
  <2> QED BY <1>1, <2>2 DEF Range
<1>3. \A x : x \in Range(t) => x \in Range(s) \ {Head(s)}
  BY <1>1 DEF Range, IsInjective
<1>4. ASSUME NEW x \in Range(s) \ {Head(s)} PROVE x \in Range(t)
  <2>1. PICK k \in 1 .. Len(s) : s[k] = x
    BY <1>1 DEF Range
  <2>2. k - 1 \in 1 .. Len(s) - 1 /\ t[k - 1] = x
    BY <1>1, <2>1
  <2> QED BY <1>1, <2>2 DEF Range
<1> QED BY <1>1, <1>2, <1>3, <1>4 DEF t

\* A list without duplicates is as long as the set of its elements is large.
LEMMA LengthIsCardinality ==
    ASSUME NEW S, NEW s \in Seq(S), IsInjective(s)
    PROVE  /\ IsFiniteSet(Range(s))
           /\ Len(s) = Cardinality(Range(s))
<1>1. Len(s) \in Nat /\ DOMAIN s = 1 .. Len(s)
  OBVIOUS
<1>2. s \in Bijection(1 .. Len(s), Range(s))
  <2>1. s \in [1 .. Len(s) -> Range(s)]
    BY <1>1 DEF Range
  <2>2. \A x \in Range(s) : \E i \in 1 .. Len(s) : s[i] = x
    BY <1>1 DEF Range
  <2>3. IsInjective(s)
    BY <1>1 DEF IsInjective
  <2> QED BY <2>1, <2>2, <2>3 DEF Bijection, Injection, Surjection
<1>3. ExistsBijection(1 .. Len(s), Range(s))
  BY <1>2 DEF ExistsBijection
<1>4. IsFiniteSet(1 .. Len(s)) /\ Cardinality(1 .. Len(s)) = Len(s)
  BY <1>1, FS_Interval
<1> QED BY <1>3, <1>4, FS_Bijection

\* The largest index of a set of indices is one of them.
LEMMA MaxLemma ==
    ASSUME NEW n \in Nat, NEW T, T \subseteq 1 .. n, T # {}
    PROVE  Max(T) \in T
<1> DEFINE R == OpToRel(<, Nat)
           D == {n - i : i \in T}
<1>1. IsWellFoundedOn(R, Nat)
  BY NatLessThanWellFounded
<1>2. D \subseteq Nat /\ D # {}
  <2>1. \A i \in T : n - i \in Nat
    OBVIOUS
  <2>2. D # {}
    OBVIOUS
  <2> QED BY <2>1, <2>2
<1>3. PICK x \in D : \A y \in D : ~(<<y, x>> \in R)
  <2> HIDE DEF R, D
  <2> QED BY <1>1, <1>2, WFMin
<1>4. PICK i \in T : x = n - i
  BY <1>3
<1>5. ASSUME NEW j \in T PROVE i >= j
  <2>1. n - j \in D /\ n - j \in Nat /\ x \in Nat
    BY <1>2
  <2>2. ~(<<n - j, x>> \in R)
    BY <1>3, <2>1
  <2>3. ~(n - j < x)
    BY <2>1, <2>2 DEF OpToRel
  <2> QED BY <1>4, <2>3
<1> QED BY <1>5 DEF Max

\* Pins is a natural number, and 0 just for a page that neither a client nor
\* the index has pinned.
LEMMA PinsZero ==
    \A p : /\ Pins(p) \in Nat
           /\ Pins(p) = 0 <=> /\ p # HEADER_PAGE_ID
                              /\ \A c \in Clients : held[c].page # p
<1> TAKE p
<1> DEFINE C == {c \in Clients : held[c].page = p}
<1>1. IsFiniteSet(C)
  BY PoolAssumption, FS_Subset
<1>2. Cardinality(C) \in Nat
  BY <1>1, FS_CardinalityType
<1>3. Cardinality(C) = 0 <=> C = {}
  BY <1>1, FS_EmptySet
<1>4. C = {} <=> \A c \in Clients : held[c].page # p
  OBVIOUS
<1>5. Pins(p) = Cardinality(C) + IF p = HEADER_PAGE_ID THEN 1 ELSE 0
  BY DEF Pins
<1> HIDE DEF C
<1> QED BY <1>2, <1>3, <1>4, <1>5

\* A client that takes a pin adds one to its page and none to the others.
LEMMA PinTaken ==
    ASSUME TypesOK, NEW c \in Clients, held[c].page = None, NEW p \in PageIds,
           held' = [held EXCEPT ![c].page = p]
    PROVE  /\ Pins(p)' = Pins(p) + 1
           /\ \A q \in PageIds : q # p => Pins(q)' = Pins(q)
<1>1. /\ held'[c].page = p
      /\ \A d \in Clients : d # c => held'[d] = held[d]
  BY DEF TypesOK
<1>2. None \notin PageIds
  BY PoolAssumption
<1>3. ASSUME NEW q \in PageIds, q # p PROVE Pins(q)' = Pins(q)
  <2>1. {d \in Clients : held'[d].page = q} = {d \in Clients : held[d].page = q}
    BY <1>1, <1>2, <1>3
  <2> QED BY <2>1 DEF Pins
<1> DEFINE C == {d \in Clients : held[d].page = p}
<1>4. {d \in Clients : held'[d].page = p} = C \cup {c}
  BY <1>1
<1>5. c \notin C
  BY <1>2
<1>6. IsFiniteSet(C)
  BY PoolAssumption, FS_Subset
<1>7. Cardinality(C \cup {c}) = Cardinality(C) + 1 /\ Cardinality(C) \in Nat
  <2> HIDE DEF C
  <2> QED BY <1>5, <1>6, FS_AddElement, FS_CardinalityType
<1>8. Pins(p)' = Pins(p) + 1
  <2>1. Pins(p) = Cardinality(C) + IF p = HEADER_PAGE_ID THEN 1 ELSE 0
    BY DEF Pins
  <2>2. Pins(p)' = Cardinality(C \cup {c}) + IF p = HEADER_PAGE_ID THEN 1 ELSE 0
    BY <1>4 DEF Pins, HEADER_PAGE_ID
  <2> HIDE DEF C
  <2> QED BY <1>7, <2>1, <2>2
<1> QED BY <1>3, <1>8

\* A client that gives its pin back takes one from its page.
LEMMA PinGiven ==
    ASSUME TypesOK, NEW c \in Clients, NEW p \in PageIds, held[c].page = p,
           held' = [held EXCEPT ![c] = NoPin]
    PROVE  /\ Pins(p) = Pins(p)' + 1 /\ Pins(p)' \in Nat
           /\ \A q \in PageIds : q # p => Pins(q)' = Pins(q)
<1>1. /\ held'[c].page = None
      /\ \A d \in Clients : d # c => held'[d] = held[d]
  BY DEF TypesOK, NoPin
<1>2. None \notin PageIds
  BY PoolAssumption
<1>3. ASSUME NEW q \in PageIds, q # p PROVE Pins(q)' = Pins(q)
  <2>1. {d \in Clients : held'[d].page = q} = {d \in Clients : held[d].page = q}
    BY <1>1, <1>2, <1>3
  <2> QED BY <2>1 DEF Pins
<1> DEFINE C == {d \in Clients : held[d].page = p}
<1>4. {d \in Clients : held'[d].page = p} = C \ {c}
  BY <1>1, <1>2
<1>5. c \in C
  OBVIOUS
<1>6. IsFiniteSet(C)
  BY PoolAssumption, FS_Subset
<1>7. Cardinality(C \ {c}) = Cardinality(C) - 1 /\ Cardinality(C) \in Nat
  <2> HIDE DEF C
  <2> QED BY <1>5, <1>6, FS_RemoveElement, FS_CardinalityType
<1>8. Pins(p) = Pins(p)' + 1 /\ Pins(p)' \in Nat
  <2>1. Pins(p) = Cardinality(C) + IF p = HEADER_PAGE_ID THEN 1 ELSE 0
    BY DEF Pins
  <2>2. Pins(p)' = Cardinality(C \ {c}) + IF p = HEADER_PAGE_ID THEN 1 ELSE 0
    BY <1>4 DEF Pins, HEADER_PAGE_ID
  <2>3. Cardinality(C) # 0
    BY <1>5, <1>6, FS_EmptySet
  <2> HIDE DEF C
  <2> QED BY <1>7, <2>1, <2>2, <2>3
<1> QED BY <1>3, <1>8

-----------------------------------------------------------------------------
\* The free list once the header has the last frame.
LEMMA FreshFreeList ==
    ASSUME NEW s, s = SubSeq(AllFrames, 1, PoolSize - 1)
    PROVE  /\ s \in Seq(Frames) /\ IsInjective(s)
           /\ Range(s) = Frames \ {LastFrame}
           /\ LastFrame \in Frames
<1>1. PoolSize \in Nat \ {0}
  BY PoolAssumption
<1>2. AllFrames \in Seq(Frames) /\ Len(AllFrames) = PoolSize
  BY <1>1 DEF AllFrames, Frames
<1>3. /\ s \in Seq(Frames) /\ DOMAIN s = 1 .. PoolSize - 1
      /\ \A i \in 1 .. PoolSize - 1 : s[i] = i - 1
  BY <1>1, <1>2 DEF AllFrames
<1>4. IsInjective(s)
  BY <1>1, <1>3 DEF IsInjective
<1>5. ASSUME NEW f \in Range(s) PROVE f \in Frames \ {LastFrame}
  BY <1>1, <1>3 DEF Range, Frames, LastFrame
<1>6. ASSUME NEW f \in Frames \ {LastFrame} PROVE f \in Range(s)
  <2>1. f + 1 \in 1 .. PoolSize - 1 /\ s[f + 1] = f
    BY <1>1, <1>3 DEF Frames, LastFrame
  <2> QED BY <1>3, <2>1 DEF Range
<1>7. LastFrame \in Frames
  BY <1>1 DEF Frames, LastFrame
<1> QED BY <1>3, <1>4, <1>5, <1>6, <1>7

\* What Init, Clear and Restart leave: only the header is a page of the tree
\* in the pool, in the last frame, and every other frame is free.
FreshPool ==
    /\ Resident = {HEADER_PAGE_ID}
    /\ page_table[HEADER_PAGE_ID] = LastFrame
    /\ free_list = SubSeq(AllFrames, 1, PoolSize - 1)
    /\ queue = <<>>
    /\ \E d \in Data : pages[LastFrame] = Header(d)
    /\ NoClientPins

\* Such a pool satisfies the invariant, whatever is in the other frames.
LEMMA FreshPoolInv ==
    FreshPool /\ TypesOK /\ NothingIsLeft
    /\ table_order \in Seq(PageIds) /\ IsInjective(table_order)
    /\ Range(table_order) = DOMAIN page_table
    /\ Len(table_order) > 0 /\ table_order[1] = HEADER_PAGE_ID
    => PoolInv
<1> SUFFICES ASSUME FreshPool, TypesOK, NothingIsLeft,
                    table_order \in Seq(PageIds), IsInjective(table_order),
                    Range(table_order) = DOMAIN page_table,
                    Len(table_order) > 0, table_order[1] = HEADER_PAGE_ID
             PROVE  PoolInv
  OBVIOUS
<1>1. /\ free_list \in Seq(Frames) /\ IsInjective(free_list)
      /\ Range(free_list) = Frames \ {LastFrame} /\ LastFrame \in Frames
  BY FreshFreeList DEF FreshPool
<1>2. queue \in Seq(Frames) /\ IsInjective(queue) /\ Range(queue) = {}
  BY DEF FreshPool, IsInjective, Range
<1>3. \A c \in Clients : held[c].page = None /\ held[c].wrote = FALSE
  BY DEF FreshPool, NoClientPins, NoPin
<1>4. HEADER_PAGE_ID \in PageIds /\ None # HEADER_PAGE_ID
  BY PoolAssumption DEF PageIds, HEADER_PAGE_ID
<1>5. Pins(HEADER_PAGE_ID) = 1
  <2>1. {c \in Clients : held[c].page = HEADER_PAGE_ID} = {}
    BY <1>3, <1>4
  <2>2. Cardinality({c \in Clients : held[c].page = HEADER_PAGE_ID}) = 0
    BY <2>1, FS_EmptySet
  <2> QED BY <2>2 DEF Pins
<1>6. /\ pages[LastFrame].page_id = HEADER_PAGE_ID
      /\ pages[LastFrame].pin_count = 1
      /\ pages[LastFrame].is_dirty
  BY DEF FreshPool, Header
<1>7. ListsOK
  BY <1>1, <1>2 DEF ListsOK
<1>8. PinsAreResident
  BY <1>3 DEF FreshPool, PinsAreResident
<1>9. ResidentHasFrame
  BY <1>1, <1>2, <1>5, <1>6 DEF FreshPool, ResidentHasFrame
<1>10. FrameHasResident
  BY <1>1, <1>6 DEF FreshPool, FrameHasResident
<1>11. CleanIsOnDisk
  BY <1>6 DEF FreshPool, CleanIsOnDisk
<1> QED BY <1>7, <1>8, <1>9, <1>10, <1>11 DEF PoolInv

\* A frame's record with a header in it is a page.
LEMMA HeaderType == \A d \in Data : Header(d) \in Page
BY PoolAssumption DEF Header, Page, PageIds, HEADER_PAGE_ID

\* The index opened on a new file satisfies the invariant.
LEMMA InitInv == Init => PoolInv
<1> SUFFICES ASSUME Init PROVE PoolInv
  OBVIOUS
<1>1. HEADER_PAGE_ID \in PageIds /\ LastFrame \in Frames /\ Zero \in Data /\ Records \in Data
  BY PoolAssumption DEF PageIds, HEADER_PAGE_ID, LastFrame, Frames
<1>2. FreshPage \in Page
  BY <1>1 DEF FreshPage, Page
<1>3. TypesOK
  <2>1. pages \in [Frames -> Page]
    BY <1>1, <1>2, HeaderType DEF Init
  <2>2. held \in [Clients -> [page : PageIds \cup {None}, wrote : BOOLEAN]]
    BY DEF Init, NoPin
  <2>3. 1 \in 1 .. MaxPages /\ {HEADER_PAGE_ID} \subseteq 0 .. 1 - 1
    BY PoolAssumption DEF HEADER_PAGE_ID
  <2> QED BY <1>1, <2>1, <2>2, <2>3 DEF Init, TypesOK
<1>4. FreshPool
  BY <1>1 DEF Init, FreshPool, Resident, NoClientPins
<1>5. /\ table_order \in Seq(PageIds) /\ IsInjective(table_order)
      /\ Range(table_order) = DOMAIN page_table
      /\ Len(table_order) > 0 /\ table_order[1] = HEADER_PAGE_ID
  BY <1>1 DEF Init, IsInjective, Range
<1>6. NothingIsLeft
  BY DEF Init, NothingIsLeft
<1> QED BY <1>3, <1>4, <1>5, <1>6, FreshPoolInv

-----------------------------------------------------------------------------
\* FindFrame takes a frame out of the free list or the queue, and nothing else.
FindTakesAFrame ==
    /\ FoundFrame \in Frames
    /\ FoundFrame \in Range(free_list) \cup Range(queue)
    /\ FreeListAfterFind \in Seq(Frames) /\ IsInjective(FreeListAfterFind)
    /\ Range(FreeListAfterFind) = Range(free_list) \ {FoundFrame}
    /\ QueueAfterFind \in Seq(Frames) /\ IsInjective(QueueAfterFind)
    /\ Range(QueueAfterFind) = Range(queue) \ {FoundFrame}

LEMMA FindFrameLists ==
    ASSUME ListsOK, FrameAvailable
    PROVE  FindTakesAFrame
<1> USE DEF ListsOK, FindTakesAFrame, FrameAvailable, FoundFrame, FreeListAfterFind,
            QueueAfterFind, FromFreeList
<1>0. Range(free_list) \subseteq Frames /\ Range(queue) \subseteq Frames
  BY DEF Range
<1>1. CASE FromFreeList
  <2>1. /\ FreeListAfterFind \in Seq(Frames) /\ IsInjective(FreeListAfterFind)
        /\ free_list[Len(free_list)] \in Range(free_list)
        /\ Range(FreeListAfterFind) = Range(free_list) \ {free_list[Len(free_list)]}
    BY <1>1, PopBackLemma
  <2> QED BY <1>0, <1>1, <2>1
<1>2. CASE ~FromFreeList
  <2>1. /\ Tail(queue) \in Seq(Frames) /\ IsInjective(Tail(queue))
        /\ Head(queue) \in Range(queue)
        /\ Range(Tail(queue)) = Range(queue) \ {Head(queue)}
    BY <1>2, PopFrontLemma
  <2> QED BY <1>0, <1>2, <2>1
<1> QED BY <1>1, <1>2

\* The page that loses its frame, if there is one, loses its mapping; the pages
\* of the tree that have other frames keep theirs, and the header is one of them.
FindForgetsTheVictim ==
    /\ \A q \in DOMAIN TableAfterFind :
          q \in DOMAIN page_table /\ TableAfterFind[q] = page_table[q]
    /\ \A q \in Resident : q \in DOMAIN TableAfterFind <=> page_table[q] # FoundFrame
    /\ OrderAfterFind \in Seq(PageIds) /\ IsInjective(OrderAfterFind)
    /\ Range(OrderAfterFind) = DOMAIN TableAfterFind
    /\ Len(OrderAfterFind) > 0 /\ OrderAfterFind[1] = HEADER_PAGE_ID

\* The victim's content is in the file, and that of the others is as it was.
FindSavesTheVictim ==
    /\ DiskAfterFind \in [DOMAIN disk -> Data]
    /\ \A q \in live : DiskAfterFind[q] = IF q \in DOMAIN TableAfterFind
                                          THEN disk[q] ELSE Content(q)

\* The header's frame is neither free nor evictable.
LEMMA HeaderIsPinned == PoolInv => LastFrame \notin Range(free_list) \cup Range(queue)
BY PinsZero DEF PoolInv, PinsAreResident, ResidentHasFrame

LEMMA FindFrameTable ==
    ASSUME PoolInv, FrameAvailable
    PROVE  FindForgetsTheVictim /\ FindSavesTheVictim
<1>1. FindTakesAFrame
  BY FindFrameLists DEF PoolInv
<1>2. /\ FoundFrame # LastFrame /\ HEADER_PAGE_ID \in Resident
      /\ page_table[HEADER_PAGE_ID] = LastFrame
  BY <1>1, HeaderIsPinned DEF FindTakesAFrame, PoolInv, PinsAreResident
<1>3. CASE FromFreeList
  <2>1. FoundFrame \in Range(free_list)
    BY <1>1, <1>3, PopBackLemma DEF FoundFrame, FromFreeList, PoolInv, ListsOK
  <2>2. \A q \in Resident : page_table[q] # FoundFrame
    BY <2>1 DEF PoolInv, ResidentHasFrame
  <2>3. TableAfterFind = page_table /\ OrderAfterFind = table_order /\ DiskAfterFind = disk
    BY <1>3 DEF TableAfterFind, OrderAfterFind, DiskAfterFind
  <2>4. \A q \in live : q \notin DOMAIN page_table => Content(q) = disk[q]
    BY DEF Content
  <2>5. Resident \subseteq DOMAIN page_table
    BY DEF Resident
  <2> QED BY <2>2, <2>3, <2>4, <2>5
          DEF PoolInv, ListsOK, TypesOK, FindForgetsTheVictim, FindSavesTheVictim
<1>4. CASE ~FromFreeList
  <2> DEFINE v == pages[FoundFrame].page_id
  <2>1. FoundFrame \in Range(queue) /\ FoundFrame \in Frames
    BY <1>1, <1>4 DEF FindTakesAFrame, FromFreeList, Range
  <2>2. v \in Resident /\ page_table[v] = FoundFrame
    BY <2>1 DEF PoolInv, ListsOK, FrameHasResident
  <2>3. v # HEADER_PAGE_ID
    BY <1>2, <2>2
  <2>4. Pins(v) = 0
    BY <2>1, <2>2 DEF PoolInv, ResidentHasFrame
  <2>5. \A q \in Resident : page_table[q] = FoundFrame => q = v
    BY DEF PoolInv, ResidentHasFrame
  <2>6. TableAfterFind = Erase(page_table, v) /\ OrderAfterFind = Without(table_order, v)
    BY <1>4 DEF TableAfterFind, OrderAfterFind, EraseOrder
  <2>7. /\ DOMAIN TableAfterFind = DOMAIN page_table \ {v}
        /\ \A q \in DOMAIN TableAfterFind : TableAfterFind[q] = page_table[q]
    BY <2>6 DEF Erase
  <2>8. /\ OrderAfterFind \in Seq(PageIds) /\ IsInjective(OrderAfterFind)
        /\ Range(OrderAfterFind) = DOMAIN TableAfterFind
        /\ Len(OrderAfterFind) > 0 /\ OrderAfterFind[1] = HEADER_PAGE_ID
    BY <2>3, <2>6, <2>7, WithoutLemma DEF PoolInv, ListsOK
  <2>9. FindForgetsTheVictim
    BY <2>2, <2>5, <2>7, <2>8 DEF FindForgetsTheVictim, Resident
  <2>10. DiskAfterFind \in [DOMAIN disk -> Data] /\ DiskAfterFind[v] = pages[FoundFrame].data
         /\ \A q \in live \ {v} : DiskAfterFind[q] = disk[q]
    <3>1. v \in live /\ live \subseteq DOMAIN disk /\ disk \in [DOMAIN disk -> Data]
      BY <2>2 DEF Resident, PoolInv, TypesOK
    <3>2. pages[FoundFrame].data \in Data
      BY <2>1 DEF PoolInv, TypesOK, Page
    <3>3. CASE pages[FoundFrame].is_dirty
      <4>1. DiskAfterFind = Put(disk, v, pages[FoundFrame].data)
        BY <1>4, <3>3 DEF DiskAfterFind, WritePage
      <4> HIDE DEF v
      <4> QED BY <3>1, <3>2, <4>1 DEF Put
    <3>4. CASE ~pages[FoundFrame].is_dirty
      <4>1. DiskAfterFind = disk
        BY <1>4, <3>4 DEF DiskAfterFind
      <4>2. disk[v] = pages[FoundFrame].data
        BY <2>2, <2>4, <3>4, PinsZero DEF PoolInv, CleanIsOnDisk
      <4> QED BY <3>1, <4>1, <4>2
    <3> QED BY <3>3, <3>4
  <2>11. Content(v) = pages[FoundFrame].data
    BY <2>2 DEF Content, Resident
  <2>12. \A q \in live : q \notin DOMAIN page_table => Content(q) = disk[q]
    BY DEF Content
  <2> HIDE DEF v
  <2>13. FindSavesTheVictim
    BY <2>7, <2>10, <2>11, <2>12 DEF FindSavesTheVictim
  <2> QED BY <2>9, <2>13
<1> QED BY <1>3, <1>4

\* What Load does to the pool, when page p gets frame f: the frame is in no
\* list any more, p is mapped to it, and only a page that had it loses its mapping.
Loaded(f, p, data) ==
    /\ f \in Frames /\ f \in Range(free_list) \cup Range(queue)
    /\ pages' = [pages EXCEPT ![f] = [page_id |-> p, pin_count |-> 1,
                                      is_dirty |-> FALSE, data |-> data]]
    /\ Range(free_list)' = Range(free_list) \ {f}
    /\ Range(queue)' = Range(queue) \ {f}
    /\ page_table' \in [DOMAIN page_table' -> Frames]
    /\ DOMAIN page_table' \subseteq DOMAIN page_table \cup {p}
    /\ p \in DOMAIN page_table' /\ page_table'[p] = f
    /\ \A q \in DOMAIN page_table' : q # p => page_table'[q] = page_table[q]
    /\ \A q \in Resident : q \in DOMAIN page_table' <=> page_table[q] # f

LEMMA LoadPool ==
    ASSUME PoolInv, FrameAvailable, NEW c \in Clients,
           NEW p \in PageIds \ Resident, NEW data, Load(c, p, data)
    PROVE  Loaded(FoundFrame, p, data) /\ ListsOK'
<1>1. FindTakesAFrame
  BY FindFrameLists DEF PoolInv
<1>2. FindForgetsTheVictim
  BY FindFrameTable
<1>3. free_list' = FreeListAfterFind
  BY DEF Load
<1>4. queue' = Without(QueueAfterFind, FoundFrame)
  BY DEF Load, ReplacerPin
<1>5. /\ queue' \in Seq(Frames) /\ IsInjective(queue')
      /\ Range(queue') = Range(queue) \ {FoundFrame}
  BY <1>1, <1>4, WithoutLemma DEF FindTakesAFrame
<1>6. page_table' = Put(TableAfterFind, p, FoundFrame)
  BY DEF Load
<1>7. /\ DOMAIN page_table' = DOMAIN TableAfterFind \cup {p}
      /\ page_table'[p] = FoundFrame
      /\ \A q \in DOMAIN page_table' : q # p => page_table'[q] = TableAfterFind[q]
      /\ page_table' = [q \in DOMAIN page_table' |-> page_table'[q]]
  BY <1>6 DEF Put
<1>8. table_order' = PutOrder(OrderAfterFind, p)
  BY DEF Load
<1>9. /\ table_order' \in Seq(PageIds) /\ IsInjective(table_order')
      /\ Range(table_order') = DOMAIN page_table'
      /\ Len(table_order') > 0 /\ table_order'[1] = HEADER_PAGE_ID
  <2>1. CASE p \in Range(OrderAfterFind)
    BY <1>2, <1>7, <1>8, <2>1 DEF FindForgetsTheVictim, PutOrder
  <2>2. CASE p \notin Range(OrderAfterFind)
    BY <1>2, <1>7, <1>8, <2>2, AppendLemma DEF FindForgetsTheVictim, PutOrder
  <2> QED BY <2>1, <2>2
<1>10. ListsOK'
  BY <1>1, <1>3, <1>5, <1>9 DEF ListsOK, FindTakesAFrame, PoolInv
<1>11. \A q \in DOMAIN page_table' :
          q # p => q \in DOMAIN page_table /\ page_table'[q] = page_table[q]
  BY <1>2, <1>7 DEF FindForgetsTheVictim
<1>12. page_table' \in [DOMAIN page_table' -> Frames]
  BY <1>1, <1>7, <1>11 DEF FindTakesAFrame, PoolInv, TypesOK
<1>13. \A q \in Resident : q \in DOMAIN page_table' <=> page_table[q] # FoundFrame
  BY <1>2, <1>7 DEF FindForgetsTheVictim
<1> QED BY <1>1, <1>3, <1>5, <1>7, <1>10, <1>11, <1>12, <1>13
        DEF Loaded, Load, FindTakesAFrame

\* FetchMiss and NewPage keep the invariant: what they have in common.
LEMMA LoadStep ==
    ASSUME PoolInv, NEW c \in Clients, held[c] = NoPin,
           NEW p \in PageIds \ Resident, NEW data \in Data, NEW f,
           Loaded(f, p, data), ListsOK', TypesOK',
           held' = [held EXCEPT ![c].page = p],
           live' = live \cup {p}, cleaned' = cleaned,
           disk'[p] = data,
           \A q \in live : q \in DOMAIN page_table' => q = p \/ disk'[q] = disk[q]
    PROVE  PoolInv'
<1>1. /\ \A d \in Clients : d # c => held'[d] = held[d]
      /\ held'[c].page = p /\ held[c].page = None /\ ~held[c].wrote
      /\ ~held'[c].wrote
  BY DEF PoolInv, TypesOK, NoPin
<1>2. /\ Pins(p)' = Pins(p) + 1
      /\ \A q \in PageIds : q # p => Pins(q)' = Pins(q)
  BY <1>1, PinTaken DEF PoolInv
<1>3. Resident \subseteq PageIds /\ HEADER_PAGE_ID \in Resident /\ None \notin PageIds
  BY PoolAssumption DEF Resident, PoolInv, TypesOK, PinsAreResident
<1>4. Pins(p) = 0
  BY <1>3, PinsZero DEF PoolInv, PinsAreResident
<1>5. \A q \in Resident : /\ q # p /\ Pins(q)' = Pins(q)
                          /\ Pins(q) # 0 => page_table[q] # f
  BY <1>2, <1>3 DEF Loaded, PoolInv, ResidentHasFrame
<1>6. Resident' = {q \in Resident : page_table[q] # f} \cup {p}
  BY DEF Resident, Loaded
<1>7. \A q \in Resident : q \in Resident' => page_table'[q] = page_table[q]
  BY <1>5 DEF Loaded, Resident
<1>8. /\ pages'[f] = [page_id |-> p, pin_count |-> 1, is_dirty |-> FALSE, data |-> data]
      /\ \A g \in Frames : g # f => pages'[g] = pages[g]
  BY DEF Loaded, PoolInv, TypesOK
<1>9. \A q \in Resident : page_table[q] \in Frames
  BY DEF Resident, PoolInv, TypesOK
<1>10. PinsAreResident'
  <2>1. \A d \in Clients : held[d].page # None => held[d].page \in Resident'
    <3> SUFFICES ASSUME NEW d \in Clients, held[d].page # None
                 PROVE  held[d].page \in Resident'
      OBVIOUS
    <3>1. held[d].page \in Resident
      BY DEF PoolInv, PinsAreResident
    <3>2. Pins(held[d].page) # 0
      BY PinsZero
    <3> QED BY <3>1, <3>2, <1>5, <1>6
  <2>2. HEADER_PAGE_ID \in Resident' /\ page_table'[HEADER_PAGE_ID] = LastFrame
    <3>1. Pins(HEADER_PAGE_ID) # 0
      BY PinsZero
    <3> QED BY <1>3, <1>5, <1>6, <1>7, <3>1 DEF PoolInv, PinsAreResident
  <2>3. \A d \in Clients : /\ held'[d].page # None => held'[d].page \in Resident'
                           /\ held'[d].wrote => held'[d].page # None
    BY <1>1, <1>6, <2>1 DEF PoolInv, PinsAreResident
  <2> QED BY <2>2, <2>3 DEF PinsAreResident, HEADER_PAGE_ID, LastFrame
<1>11. ResidentHasFrame'
  <2> SUFFICES ASSUME NEW q \in Resident'
               PROVE  /\ page_table'[q] \notin Range(free_list)'
                      /\ pages'[page_table'[q]].page_id = q
                      /\ pages'[page_table'[q]].pin_count = Pins(q)'
                      /\ page_table'[q] \in Range(queue)' <=> Pins(q)' = 0
    BY DEF ResidentHasFrame
  <2>1. CASE q = p
    BY <2>1, <1>2, <1>4, <1>8 DEF Loaded
  <2>2. CASE q # p
    BY <2>2, <1>5, <1>6, <1>7, <1>8, <1>9 DEF Loaded, PoolInv, ResidentHasFrame
  <2> QED BY <2>1, <2>2
<1>12. FrameHasResident'
  <2> SUFFICES ASSUME NEW g \in Frames, g \notin Range(free_list)'
               PROVE  pages'[g].page_id \in Resident' /\ page_table'[pages'[g].page_id] = g
    BY DEF FrameHasResident, Frames
  <2>1. CASE g = f
    BY <2>1, <1>6, <1>8 DEF Loaded
  <2>2. CASE g # f
    <3>1. pages[g].page_id \in Resident /\ page_table[pages[g].page_id] = g
      BY <2>2 DEF Loaded, PoolInv, FrameHasResident
    <3> QED BY <2>2, <3>1, <1>6, <1>7, <1>8
  <2> QED BY <2>1, <2>2
<1>13. CleanIsOnDisk'
  <2> SUFFICES ASSUME NEW q \in Resident'
               PROVE  \/ pages'[page_table'[q]].is_dirty
                      \/ \E d \in Clients : held'[d].page = q /\ held'[d].wrote
                      \/ disk'[q] = pages'[page_table'[q]].data
    BY DEF CleanIsOnDisk
  <2>1. CASE q = p
    BY <2>1, <1>8 DEF Loaded
  <2>2. CASE q # p
    <3>1. q \in Resident /\ page_table[q] # f /\ page_table'[q] = page_table[q]
      BY <2>2, <1>6, <1>7
    <3>2. disk'[q] = disk[q] /\ pages'[page_table'[q]] = pages[page_table[q]]
      BY <2>2, <3>1, <1>8, <1>9 DEF Resident, Loaded
    <3>3. \A d \in Clients : held[d].wrote => held'[d] = held[d]
      BY <1>1
    <3> QED BY <3>1, <3>2, <3>3 DEF PoolInv, CleanIsOnDisk
  <2> QED BY <2>1, <2>2
<1>14. NothingIsLeft'
  BY DEF NothingIsLeft, PoolInv, Loaded
<1> QED BY <1>10, <1>11, <1>12, <1>13, <1>14 DEF PoolInv

\* The types that Load leaves alone or sets.
LEMMA LoadTypes ==
    ASSUME TypesOK, NEW c \in Clients, NEW p \in PageIds, NEW data \in Data, NEW f,
           Loaded(f, p, data), held' = [held EXCEPT ![c].page = p]
    PROVE  /\ pages' \in [Frames -> Page]
           /\ page_table' \in [DOMAIN page_table' -> Frames]
           /\ DOMAIN page_table' \subseteq PageIds
           /\ held' \in [Clients -> [page : PageIds \cup {None}, wrote : BOOLEAN]]
<1>1. [page_id |-> p, pin_count |-> 1, is_dirty |-> FALSE, data |-> data] \in Page
  BY DEF Page
<1>2. pages' \in [Frames -> Page]
  BY <1>1 DEF TypesOK, Loaded
<1>3. held' \in [Clients -> [page : PageIds \cup {None}, wrote : BOOLEAN]]
  BY DEF TypesOK
<1> QED BY <1>2, <1>3 DEF TypesOK, Loaded

\* A fetch from the file.
LEMMA FetchMissStep ==
    ASSUME PoolInv, NEW c \in Clients, NEW p \in PageIds, FetchMiss(c, p)
    PROVE  PoolInv'
<1> DEFINE data == DiskAfterFind[p]
<1>1. /\ held[c] = NoPin /\ p \in live /\ p \notin Resident /\ FrameAvailable
      /\ Load(c, p, data) /\ disk' = DiskAfterFind
      /\ UNCHANGED <<next_page_id, live, cleaned>>
      /\ held' = [held EXCEPT ![c].page = p]
  BY DEF FetchMiss, ReadPage, Resident, Load
<1>2. FindForgetsTheVictim /\ FindSavesTheVictim
  BY <1>1, FindFrameTable
<1>3. live \subseteq DOMAIN disk /\ DOMAIN disk' = DOMAIN disk /\ disk' \in [DOMAIN disk' -> Data]
  BY <1>1, <1>2 DEF PoolInv, TypesOK, FindSavesTheVictim
<1>4. data \in Data /\ disk'[p] = data
  BY <1>1, <1>3
<1>5. Loaded(FoundFrame, p, data) /\ ListsOK'
  BY <1>1, LoadPool
<1>6. \A q \in live : q \in DOMAIN page_table' => q = p \/ disk'[q] = disk[q]
  <2>1. DOMAIN page_table' = DOMAIN TableAfterFind \cup {p}
    BY <1>1 DEF Load, Put
  <2> QED BY <1>1, <1>2, <2>1 DEF FindSavesTheVictim
<1> HIDE DEF data
<1>7. TypesOK'
  BY <1>1, <1>3, <1>4, <1>5, LoadTypes DEF PoolInv, TypesOK
<1>8. live' = live \cup {p}
  BY <1>1
<1> QED BY <1>1, <1>4, <1>5, <1>6, <1>7, <1>8, LoadStep

\* A new page, which is no page of the tree yet but may have an entry in
\* page_table_ that a clean left behind.
LEMMA NewPageStep ==
    ASSUME PoolInv, NEW c \in Clients, NewPage(c)
    PROVE  PoolInv'
<1> DEFINE p == next_page_id
<1>1. /\ held[c] = NoPin /\ p < MaxPages /\ FrameAvailable
      /\ Load(c, p, Zero) /\ disk' = Put(DiskAfterFind, p, Zero)
      /\ live' = live \cup {p} /\ next_page_id' = p + 1 /\ cleaned' = cleaned
      /\ held' = [held EXCEPT ![c].page = p]
  BY DEF NewPage, WritePage, Load
<1>2. p \in PageIds /\ p \notin live
  BY <1>1, PoolAssumption DEF PoolInv, TypesOK, PageIds
<1>3. p \notin Resident /\ Zero \in Data
  BY <1>2, PoolAssumption DEF Resident
<1>4. FindForgetsTheVictim /\ FindSavesTheVictim
  BY <1>1, FindFrameTable
<1>5. Loaded(FoundFrame, p, Zero) /\ ListsOK'
  BY <1>1, <1>2, <1>3, LoadPool
<1> HIDE DEF p
<1>6. /\ DOMAIN disk' = DOMAIN disk \cup {p} /\ disk' \in [DOMAIN disk' -> Data]
      /\ disk'[p] = Zero
      /\ \A q \in DOMAIN disk : q # p => disk'[q] = DiskAfterFind[q]
  BY <1>1, <1>3, <1>4 DEF FindSavesTheVictim, Put
<1>7. \A q \in live : q \in DOMAIN page_table' => q = p \/ disk'[q] = disk[q]
  <2>1. DOMAIN page_table' = DOMAIN TableAfterFind \cup {p}
    BY <1>1 DEF Load, Put
  <2> QED BY <1>4, <1>6, <2>1 DEF FindSavesTheVictim, PoolInv, TypesOK
<1>8. /\ next_page_id' \in 1 .. MaxPages /\ live' \subseteq 0 .. next_page_id' - 1
      /\ live' \subseteq DOMAIN disk' /\ DOMAIN disk' \subseteq PageIds
  BY <1>1, <1>2, <1>6, PoolAssumption DEF PoolInv, TypesOK, p
<1>9. TypesOK'
  BY <1>1, <1>2, <1>3, <1>5, <1>6, <1>8, LoadTypes DEF PoolInv, TypesOK
<1> QED BY <1>1, <1>2, <1>3, <1>5, <1>6, <1>7, <1>9, LoadStep

\* A fetch of a page that is in the pool: one more pin, and no eviction.
LEMMA FetchHitStep ==
    ASSUME PoolInv, NEW c \in Clients, NEW p \in PageIds, FetchHit(c, p)
    PROVE  PoolInv'
<1> DEFINE f == page_table[p]
<1>1. /\ held[c] = NoPin /\ p \in Resident
      /\ pages' = [pages EXCEPT ![f].pin_count = @ + 1]
      /\ queue' = Without(queue, f)
      /\ held' = [held EXCEPT ![c].page = p]
      /\ UNCHANGED <<page_table, table_order, free_list, disk, next_page_id, live, cleaned>>
  BY DEF FetchHit, Resident, ReplacerPin
<1>2. f \in Frames /\ \A q \in Resident : page_table[q] \in Frames
  BY <1>1 DEF PoolInv, TypesOK, Resident
<1>3. /\ \A d \in Clients : d # c => held'[d] = held[d]
      /\ held'[c].page = p /\ held[c].page = None /\ ~held[c].wrote
      /\ ~held'[c].wrote
  BY <1>1 DEF PoolInv, TypesOK, NoPin
<1>4. /\ Pins(p)' = Pins(p) + 1 /\ Pins(p) \in Nat
      /\ \A q \in PageIds : q # p => Pins(q)' = Pins(q)
  BY <1>1, <1>3, PinTaken, PinsZero DEF PoolInv
<1>5. /\ queue' \in Seq(Frames) /\ IsInjective(queue')
      /\ Range(queue') = Range(queue) \ {f}
  BY <1>1, WithoutLemma DEF PoolInv, ListsOK
<1>6. /\ pages'[f] = [pages[f] EXCEPT !.pin_count = @ + 1]
      /\ \A g \in Frames : g # f => pages'[g] = pages[g]
  BY <1>1, <1>2 DEF PoolInv, TypesOK
<1>7. \A g \in Frames : pages[g] \in Page
  BY DEF PoolInv, TypesOK
<1>8. /\ pages'[f].pin_count = pages[f].pin_count + 1
      /\ \A g \in Frames : /\ pages'[g].page_id = pages[g].page_id
                           /\ pages'[g].is_dirty = pages[g].is_dirty
                           /\ pages'[g].data = pages[g].data
  BY <1>2, <1>6, <1>7 DEF Page
<1>9. Resident' = Resident /\ Resident \subseteq PageIds
  BY <1>1 DEF Resident, PoolInv, TypesOK
<1> HIDE DEF f
<1>10. TypesOK'
  <2>1. pages' \in [Frames -> Page]
    <3>1. [pages[f] EXCEPT !.pin_count = @ + 1] \in Page
      BY <1>2, <1>7 DEF Page
    <3> QED BY <1>1, <1>2, <3>1 DEF PoolInv, TypesOK
  <2>2. held' \in [Clients -> [page : PageIds \cup {None}, wrote : BOOLEAN]]
    BY <1>1 DEF PoolInv, TypesOK
  <2> QED BY <1>1, <2>1, <2>2 DEF PoolInv, TypesOK
<1>11. ListsOK'
  BY <1>1, <1>5 DEF PoolInv, ListsOK
<1>12. PinsAreResident'
  BY <1>1, <1>3, <1>9 DEF PoolInv, PinsAreResident, HEADER_PAGE_ID, LastFrame
<1>13. ResidentHasFrame'
  <2> SUFFICES ASSUME NEW q \in Resident
               PROVE  /\ page_table[q] \notin Range(free_list)
                      /\ pages'[page_table[q]].page_id = q
                      /\ pages'[page_table[q]].pin_count = Pins(q)'
                      /\ page_table[q] \in Range(queue') <=> Pins(q)' = 0
    BY <1>1, <1>9 DEF ResidentHasFrame
  <2>1. CASE q = p
    BY <2>1, <1>2, <1>4, <1>5, <1>8 DEF PoolInv, ResidentHasFrame, f
  <2>2. CASE q # p
    <3>1. page_table[q] # f
      BY <2>2, <1>1 DEF PoolInv, ResidentHasFrame, f
    <3> QED BY <2>2, <3>1, <1>2, <1>4, <1>5, <1>6, <1>9 DEF PoolInv, ResidentHasFrame
  <2> QED BY <2>1, <2>2
<1>14. FrameHasResident'
  BY <1>1, <1>8, <1>9 DEF PoolInv, FrameHasResident, Frames
<1>15. CleanIsOnDisk'
  <2> SUFFICES ASSUME NEW q \in Resident
               PROVE  \/ pages'[page_table[q]].is_dirty
                      \/ \E d \in Clients : held'[d].page = q /\ held'[d].wrote
                      \/ disk[q] = pages'[page_table[q]].data
    BY <1>1, <1>9 DEF CleanIsOnDisk
  <2>1. \A d \in Clients : held[d].wrote => held'[d] = held[d]
    BY <1>3
  <2> QED BY <2>1, <1>2, <1>8 DEF PoolInv, CleanIsOnDisk
<1>16. NothingIsLeft'
  BY <1>1 DEF PoolInv, NothingIsLeft
<1> QED BY <1>10, <1>11, <1>12, <1>13, <1>14, <1>15, <1>16 DEF PoolInv

\* WriteData: the client has the page pinned, so it counts as written.
LEMMA WriteDataStep ==
    ASSUME PoolInv, NEW c \in Clients, NEW d \in Data, WriteData(c, d)
    PROVE  PoolInv'
<1> DEFINE p == held[c].page
           f == page_table[p]
<1>1. /\ held[c] # NoPin
      /\ pages' = [pages EXCEPT ![f].data = d]
      /\ held' = [held EXCEPT ![c].wrote = TRUE]
      /\ UNCHANGED <<page_table, table_order, free_list, queue, disk, next_page_id,
                     live, cleaned>>
  BY DEF WriteData
<1>2. p # None
  BY <1>1 DEF PoolInv, TypesOK, PinsAreResident, NoPin
<1>3. p \in Resident
  BY <1>2 DEF PoolInv, PinsAreResident
<1>4. f \in Frames /\ \A q \in Resident : page_table[q] \in Frames
  BY <1>3 DEF PoolInv, TypesOK, Resident
<1>5. /\ \A e \in Clients : e # c => held'[e] = held[e]
      /\ held'[c].wrote
      /\ \A e \in Clients : held'[e].page = held[e].page
  BY <1>1 DEF PoolInv, TypesOK
<1>6. Resident' = Resident
  BY <1>1 DEF Resident
<1>7. \A q : Pins(q)' = Pins(q)
  <2>1. \A q : {e \in Clients : held'[e].page = q} = {e \in Clients : held[e].page = q}
    BY <1>5
  <2> QED BY <2>1 DEF Pins
<1>8. /\ pages'[f] = [pages[f] EXCEPT !.data = d]
      /\ \A g \in Frames : g # f => pages'[g] = pages[g]
  BY <1>1, <1>4 DEF PoolInv, TypesOK
<1>9. \A g \in Frames : pages[g] \in Page
  BY DEF PoolInv, TypesOK
<1>10. \A g \in Frames : /\ pages'[g].page_id = pages[g].page_id
                         /\ pages'[g].is_dirty = pages[g].is_dirty
                         /\ pages'[g].pin_count = pages[g].pin_count
  BY <1>4, <1>8, <1>9 DEF Page
<1>11. TypesOK'
  <2>1. pages' \in [Frames -> Page]
    <3>1. [pages[f] EXCEPT !.data = d] \in Page
      BY <1>4, <1>9 DEF Page
    <3> QED BY <1>1, <1>4, <3>1 DEF PoolInv, TypesOK
  <2>2. held' \in [Clients -> [page : PageIds \cup {None}, wrote : BOOLEAN]]
    BY <1>1 DEF PoolInv, TypesOK
  <2> QED BY <1>1, <2>1, <2>2 DEF PoolInv, TypesOK
<1>12. \A q \in Resident : q # p => page_table[q] # f
  BY <1>3 DEF PoolInv, ResidentHasFrame
<1>13. ListsOK'
  BY <1>1 DEF PoolInv, ListsOK
<1> HIDE DEF f
<1>14. PinsAreResident'
  BY <1>1, <1>2, <1>5, <1>6 DEF PoolInv, PinsAreResident, HEADER_PAGE_ID, LastFrame
<1> HIDE DEF p
<1>15. ResidentHasFrame'
  <2> SUFFICES ASSUME NEW q \in Resident
               PROVE  /\ page_table[q] \notin Range(free_list)
                      /\ pages'[page_table[q]].page_id = q
                      /\ pages'[page_table[q]].pin_count = Pins(q)
                      /\ page_table[q] \in Range(queue) <=> Pins(q) = 0
    BY <1>1, <1>6, <1>7 DEF ResidentHasFrame
  <2> QED BY <1>4, <1>10 DEF PoolInv, ResidentHasFrame
<1>16. FrameHasResident'
  BY <1>1, <1>6, <1>10 DEF PoolInv, FrameHasResident, Frames
<1>17. CleanIsOnDisk'
  <2> SUFFICES ASSUME NEW q \in Resident
               PROVE  \/ pages'[page_table[q]].is_dirty
                      \/ \E e \in Clients : held'[e].page = q /\ held'[e].wrote
                      \/ disk[q] = pages'[page_table[q]].data
    BY <1>1, <1>6 DEF CleanIsOnDisk
  <2>1. CASE q = p
    BY <2>1, <1>5 DEF p
  <2>2. CASE q # p
    <3>1. pages'[page_table[q]] = pages[page_table[q]]
      BY <2>2, <1>4, <1>8, <1>12
    <3>2. \A e \in Clients : held[e].wrote => held'[e].wrote /\ held'[e].page = held[e].page
      BY <1>5
    <3> QED BY <3>1, <3>2 DEF PoolInv, CleanIsOnDisk
  <2> QED BY <2>1, <2>2
<1>18. NothingIsLeft'
  BY <1>1 DEF PoolInv, NothingIsLeft
<1> QED BY <1>11, <1>13, <1>14, <1>15, <1>16, <1>17, <1>18 DEF PoolInv

\* A pinned page leaves room in the queue: ReplacerUnpin never turns it away.
LEMMA QueueHasRoom ==
    ASSUME PoolInv, NEW p \in Resident, Pins(p) # 0
    PROVE  Len(queue) < PoolSize
<1>1. page_table[p] \in Frames /\ page_table[p] \notin Range(queue)
  BY DEF PoolInv, TypesOK, Resident, ResidentHasFrame
<1>2. Range(queue) \subseteq Frames
  BY DEF PoolInv, ListsOK, Range
<1>3. Range(queue) \in SUBSET (Frames \ {page_table[p]})
  BY <1>1, <1>2
<1>4. IsFiniteSet(Frames) /\ Cardinality(Frames) = PoolSize
  <2>1. 0 \in Int /\ PoolSize - 1 \in Int /\ PoolSize \in Nat \ {0}
    BY PoolAssumption
  <2>2. IsFiniteSet(0 .. PoolSize - 1)
        /\ Cardinality(0 .. PoolSize - 1)
             = IF 0 > PoolSize - 1 THEN 0 ELSE PoolSize - 1 - 0 + 1
    BY <2>1, FS_Interval
  <2> QED BY <2>1, <2>2 DEF Frames
<1>5. /\ IsFiniteSet(Frames \ {page_table[p]})
      /\ Cardinality(Frames \ {page_table[p]}) = PoolSize - 1
  BY <1>1, <1>4, FS_RemoveElement
<1>6. Cardinality(Range(queue)) <= PoolSize - 1
  BY <1>3, <1>5, FS_Subset
<1>7. Len(queue) = Cardinality(Range(queue)) /\ Len(queue) \in Nat
  BY LengthIsCardinality DEF PoolInv, ListsOK
<1> QED BY <1>6, <1>7, PoolAssumption

\* UnpinPage: the last pin makes the frame evictable, and the dirty flag keeps
\* what the client wrote from being lost.
LEMMA UnpinPageStep ==
    ASSUME PoolInv, NEW c \in Clients, UnpinPage(c)
    PROVE  PoolInv'
<1>0. PICK p : p = held[c].page
  OBVIOUS
<1> DEFINE f == page_table[p]
<1>1. /\ held[c] # NoPin
      /\ pages' = [pages EXCEPT ![f].is_dirty = pages[f].is_dirty \/ held[c].wrote,
                                ![f].pin_count = @ - 1]
      /\ queue' = IF pages[f].pin_count = 1 THEN ReplacerUnpin(queue, f) ELSE queue
      /\ held' = [held EXCEPT ![c] = NoPin]
      /\ UNCHANGED <<page_table, table_order, free_list, disk, next_page_id, live, cleaned>>
  BY <1>0 DEF UnpinPage, DirtyAfterUnpin
<1>2. p # None
  BY <1>0, <1>1 DEF PoolInv, TypesOK, PinsAreResident, NoPin
<1>3. p \in Resident
  BY <1>0, <1>2 DEF PoolInv, PinsAreResident
<1>4. f \in Frames /\ \A q \in Resident : page_table[q] \in Frames
  BY <1>3 DEF PoolInv, TypesOK, Resident
<1>5. Resident' = Resident /\ Resident \subseteq PageIds /\ p \in PageIds
  BY <1>1, <1>3 DEF Resident, PoolInv, TypesOK
<1>6. /\ Pins(p) = Pins(p)' + 1
      /\ \A q \in PageIds : q # p => Pins(q)' = Pins(q)
  BY <1>0, <1>1, <1>5, PinGiven DEF PoolInv
<1>7. Pins(p) \in Nat /\ Pins(p)' \in Nat
  BY <1>0, <1>1, <1>5, PinGiven, PinsZero DEF PoolInv
<1>8. Pins(p) # 0 /\ pages[f].pin_count = Pins(p) /\ f \notin Range(queue)
  BY <1>0, <1>3, PinsZero DEF PoolInv, ResidentHasFrame
<1>9. /\ \A e \in Clients : e # c => held'[e] = held[e]
      /\ held'[c].page = None /\ ~held'[c].wrote
      /\ held[c].wrote \in BOOLEAN
  BY <1>1 DEF PoolInv, TypesOK, NoPin
<1>10. \A g \in Frames : pages[g] \in Page
  BY DEF PoolInv, TypesOK
<1>11. /\ pages'[f] = [pages[f] EXCEPT !.is_dirty = pages[f].is_dirty \/ held[c].wrote,
                                      !.pin_count = @ - 1]
       /\ \A g \in Frames : g # f => pages'[g] = pages[g]
  BY <1>1, <1>4 DEF PoolInv, TypesOK
<1>12. \A q \in Resident : q # p => page_table[q] # f
  BY <1>3 DEF PoolInv, ResidentHasFrame
<1> HIDE DEF f
<1>13. /\ pages'[f].pin_count = pages[f].pin_count - 1
       /\ pages'[f].is_dirty = (pages[f].is_dirty \/ held[c].wrote)
       /\ \A g \in Frames : /\ pages'[g].page_id = pages[g].page_id
                            /\ pages'[g].data = pages[g].data
  BY <1>4, <1>10, <1>11 DEF Page
<1>14. TypesOK'
  <2>1. pages' \in [Frames -> Page]
    <3>1. pages[f].pin_count - 1 \in Nat
      BY <1>7, <1>8
    <3>2. (pages[f].is_dirty \/ held[c].wrote) \in BOOLEAN
      OBVIOUS
    <3>3. pages'[f] \in Page
      <4> DEFINE b == pages[f].is_dirty \/ held[c].wrote
                 n == pages[f].pin_count - 1
      <4>1. pages'[f] = [pages[f] EXCEPT !.is_dirty = b, !.pin_count = n]
        BY <1>11
      <4>2. b \in BOOLEAN /\ n \in Nat
        BY <3>1, <3>2
      <4> HIDE DEF b, n
      <4> QED BY <1>4, <1>10, <4>1, <4>2 DEF Page
    <3>4. pages' = [g \in Frames |-> IF g = f THEN pages'[f] ELSE pages[g]]
      BY <1>1, <1>4 DEF PoolInv, TypesOK
    <3> QED BY <1>10, <3>3, <3>4
  <2>2. held' \in [Clients -> [page : PageIds \cup {None}, wrote : BOOLEAN]]
    BY <1>1 DEF PoolInv, TypesOK, NoPin
  <2> QED BY <1>1, <2>1, <2>2 DEF PoolInv, TypesOK
<1>15. /\ queue' \in Seq(Frames) /\ IsInjective(queue')
       /\ Range(queue') = IF Pins(p) = 1 THEN Range(queue) \cup {f} ELSE Range(queue)
  <2>1. CASE Pins(p) = 1
    <3>1. queue' = Append(Without(queue, f), f)
      <4>1. Len(queue) < PoolSize
        BY <1>3, <1>8, QueueHasRoom
      <4>2. ~(Len(queue) >= PoolSize)
        BY <4>1, PoolAssumption DEF PoolInv, ListsOK
      <4> QED BY <4>2, <2>1, <1>1, <1>8 DEF ReplacerUnpin, ReplacerPin
    <3>2. Without(queue, f) = queue
      BY <1>8 DEF Without
    <3> QED BY <2>1, <3>1, <3>2, <1>4, <1>8, AppendLemma DEF PoolInv, ListsOK
  <2>2. CASE Pins(p) # 1
    BY <2>2, <1>1, <1>8 DEF PoolInv, ListsOK
  <2> QED BY <2>1, <2>2
<1>16. f \notin Range(free_list)
  BY <1>3 DEF PoolInv, ResidentHasFrame, f
<1>17. ListsOK'
  BY <1>1, <1>15, <1>16 DEF PoolInv, ListsOK
<1>18. PinsAreResident'
  BY <1>1, <1>5, <1>9 DEF PoolInv, PinsAreResident, HEADER_PAGE_ID, LastFrame
<1>19. ResidentHasFrame'
  <2> SUFFICES ASSUME NEW q \in Resident
               PROVE  /\ page_table[q] \notin Range(free_list)
                      /\ pages'[page_table[q]].page_id = q
                      /\ pages'[page_table[q]].pin_count = Pins(q)'
                      /\ page_table[q] \in Range(queue') <=> Pins(q)' = 0
    BY <1>1, <1>5 DEF ResidentHasFrame
  <2>1. CASE q = p
    <3>1. page_table[q] = f
      BY <2>1 DEF f
    <3>2. Pins(p)' = Pins(p) - 1 /\ (Pins(p) = 1 <=> Pins(p)' = 0)
      BY <1>6, <1>7
    <3> QED BY <2>1, <3>1, <3>2, <1>4, <1>8, <1>13, <1>15 DEF PoolInv, ResidentHasFrame
  <2>2. CASE q # p
    <3>1. Pins(q)' = Pins(q) /\ page_table[q] # f /\ pages'[page_table[q]] = pages[page_table[q]]
      BY <2>2, <1>4, <1>5, <1>6, <1>11, <1>12
    <3> QED BY <3>1, <1>15 DEF PoolInv, ResidentHasFrame
  <2> QED BY <2>1, <2>2
<1>20. FrameHasResident'
  <2>1. \A g \in Frames : pages'[g].page_id = pages[g].page_id
    BY <1>13
  <2>2. page_table' = page_table /\ free_list' = free_list /\ Resident' = Resident
    BY <1>1, <1>5
  <2>3. FrameHasResident
    BY DEF PoolInv
  <2> QED BY <2>1, <2>2, <2>3 DEF FrameHasResident, Frames
<1>21. CleanIsOnDisk'
  <2> SUFFICES ASSUME NEW q \in Resident
               PROVE  \/ pages'[page_table[q]].is_dirty
                      \/ \E e \in Clients : held'[e].page = q /\ held'[e].wrote
                      \/ disk[q] = pages'[page_table[q]].data
    BY <1>1, <1>5 DEF CleanIsOnDisk
  <2>1. CASE q = p
    <3>1. page_table[q] = f
      BY <2>1 DEF f
    <3>2. \/ pages[f].is_dirty
          \/ \E e \in Clients : held[e].page = q /\ held[e].wrote
          \/ disk[q] = pages[f].data
      BY <3>1 DEF PoolInv, CleanIsOnDisk
    <3>3. CASE pages[f].is_dirty
      BY <3>1, <3>3, <1>13
    <3>4. ASSUME NEW e \in Clients, held[e].page = q, held[e].wrote
          PROVE  pages'[f].is_dirty \/ (held'[e].page = q /\ held'[e].wrote)
      BY <3>4, <1>9, <1>13
    <3>5. CASE disk[q] = pages[f].data
      BY <3>1, <3>5, <1>4, <1>13
    <3> QED BY <3>1, <3>2, <3>3, <3>4, <3>5
  <2>2. CASE q # p
    <3>1. pages'[page_table[q]] = pages[page_table[q]]
      BY <2>2, <1>4, <1>11, <1>12
    <3>2. \A e \in Clients : held[e].page = q => held'[e] = held[e]
      BY <2>2, <1>0, <1>9
    <3> QED BY <3>1, <3>2 DEF PoolInv, CleanIsOnDisk
  <2> QED BY <2>1, <2>2
<1>22. NothingIsLeft'
  BY <1>1 DEF PoolInv, NothingIsLeft
<1> QED BY <1>14, <1>17, <1>18, <1>19, <1>20, <1>21, <1>22 DEF PoolInv

\* FlushPage: the page is in the file and no longer dirty.
LEMMA FlushPageStep ==
    ASSUME PoolInv, NEW p \in PageIds, FlushPage(p)
    PROVE  PoolInv'
<1> DEFINE f == page_table[p]
<1>1. /\ p \in Resident
      /\ disk' = Put(disk, p, pages[f].data)
      /\ pages' = [pages EXCEPT ![f].is_dirty = FALSE]
      /\ UNCHANGED <<page_table, table_order, free_list, queue, next_page_id, live,
                     held, cleaned>>
  BY DEF FlushPage, WritePage, Resident
<1>2. f \in Frames /\ \A q \in Resident : page_table[q] \in Frames
  BY <1>1 DEF PoolInv, TypesOK, Resident
<1>3. Resident' = Resident /\ Resident \subseteq live /\ live \subseteq DOMAIN disk
  BY <1>1 DEF Resident, PoolInv, TypesOK
<1>4. \A q : Pins(q)' = Pins(q)
  BY <1>1 DEF Pins
<1>5. \A g \in Frames : pages[g] \in Page
  BY DEF PoolInv, TypesOK
<1>6. /\ pages'[f] = [pages[f] EXCEPT !.is_dirty = FALSE]
      /\ \A g \in Frames : g # f => pages'[g] = pages[g]
  BY <1>1, <1>2 DEF PoolInv, TypesOK
<1>7. \A g \in Frames : /\ pages'[g].page_id = pages[g].page_id
                        /\ pages'[g].data = pages[g].data
                        /\ pages'[g].pin_count = pages[g].pin_count
  BY <1>2, <1>5, <1>6 DEF Page
<1>8. \A q \in Resident : q # p => page_table[q] # f
  BY <1>1 DEF PoolInv, ResidentHasFrame
<1>9. /\ disk' \in [DOMAIN disk -> Data] /\ disk'[p] = pages[f].data
      /\ \A q \in DOMAIN disk : q # p => disk'[q] = disk[q]
  <2>1. pages[f].data \in Data /\ p \in DOMAIN disk /\ disk \in [DOMAIN disk -> Data]
    BY <1>1, <1>2, <1>3, <1>5 DEF Page, PoolInv, TypesOK
  <2> HIDE DEF f
  <2> QED BY <1>1, <2>1 DEF Put
<1> HIDE DEF f
<1>10. TypesOK'
  <2>1. [pages[f] EXCEPT !.is_dirty = FALSE] \in Page
    BY <1>2, <1>5 DEF Page
  <2>2. pages' \in [Frames -> Page]
    BY <1>1, <1>2, <2>1 DEF PoolInv, TypesOK
  <2> QED BY <1>1, <1>9, <2>2 DEF PoolInv, TypesOK
<1>11. ListsOK'
  BY <1>1 DEF PoolInv, ListsOK
<1>12. PinsAreResident'
  BY <1>1, <1>3 DEF PoolInv, PinsAreResident, HEADER_PAGE_ID, LastFrame
<1>13. ResidentHasFrame'
  <2> SUFFICES ASSUME NEW q \in Resident
               PROVE  /\ page_table[q] \notin Range(free_list)
                      /\ pages'[page_table[q]].page_id = q
                      /\ pages'[page_table[q]].pin_count = Pins(q)
                      /\ page_table[q] \in Range(queue) <=> Pins(q) = 0
    BY <1>1, <1>3, <1>4 DEF ResidentHasFrame
  <2> QED BY <1>2, <1>7 DEF PoolInv, ResidentHasFrame
<1>14. FrameHasResident'
  BY <1>1, <1>3, <1>7 DEF PoolInv, FrameHasResident, Frames
<1>15. CleanIsOnDisk'
  <2> SUFFICES ASSUME NEW q \in Resident
               PROVE  \/ pages'[page_table[q]].is_dirty
                      \/ \E e \in Clients : held[e].page = q /\ held[e].wrote
                      \/ disk'[q] = pages'[page_table[q]].data
    BY <1>1, <1>3 DEF CleanIsOnDisk
  <2>1. CASE q = p
    BY <2>1, <1>2, <1>7, <1>9 DEF f
  <2>2. CASE q # p
    <3>1. pages'[page_table[q]] = pages[page_table[q]] /\ disk'[q] = disk[q]
      BY <2>2, <1>2, <1>3, <1>6, <1>8, <1>9
    <3> QED BY <3>1 DEF PoolInv, CleanIsOnDisk
  <2> QED BY <2>1, <2>2
<1>16. NothingIsLeft'
  BY <1>1 DEF PoolInv, NothingIsLeft
<1> QED BY <1>10, <1>11, <1>12, <1>13, <1>14, <1>15, <1>16 DEF PoolInv

\* DeletePage: the frame of an unpinned page becomes free.
LEMMA DeletePageStep ==
    ASSUME PoolInv, NEW p \in PageIds, DeletePage(p)
    PROVE  PoolInv'
<1>1. /\ p \in live /\ p # HEADER_PAGE_ID
      /\ live' = live \ {p} /\ disk' = Erase(disk, p)
      /\ UNCHANGED <<next_page_id, held, cleaned>>
  BY DEF DeletePage
<1>2. /\ DOMAIN disk' = DOMAIN disk \ {p} /\ disk' \in [DOMAIN disk' -> Data]
      /\ \A q \in DOMAIN disk' : disk'[q] = disk[q]
  BY <1>1 DEF Erase, PoolInv, TypesOK
<1>3. \A q : Pins(q)' = Pins(q)
  BY <1>1 DEF Pins
<1>4. live' \subseteq 0 .. next_page_id' - 1 /\ live' \subseteq DOMAIN disk'
  BY <1>1, <1>2 DEF PoolInv, TypesOK
<1>5. CASE p \notin DOMAIN page_table
  <2>1. UNCHANGED <<pages, page_table, table_order, free_list, queue>>
    BY <1>5 DEF DeletePage
  <2>2. Resident' = Resident /\ p \notin Resident
    BY <1>1, <1>5, <2>1 DEF Resident
  <2>3. TypesOK'
    BY <1>1, <1>2, <1>4, <2>1 DEF PoolInv, TypesOK
  <2>4. ListsOK' /\ PinsAreResident'
    BY <1>1, <2>1, <2>2 DEF PoolInv, ListsOK, PinsAreResident, HEADER_PAGE_ID, LastFrame
  <2>5. ResidentHasFrame' /\ FrameHasResident'
    BY <1>3, <2>1, <2>2 DEF PoolInv, ResidentHasFrame, FrameHasResident, Frames
  <2>6. CleanIsOnDisk'
    <3>1. \A q \in Resident : disk'[q] = disk[q]
      BY <1>2, <2>2 DEF Resident, PoolInv, TypesOK
    <3> QED BY <1>1, <2>1, <2>2, <3>1 DEF PoolInv, CleanIsOnDisk
  <2>7. NothingIsLeft'
    BY <1>1, <1>5, <2>1 DEF PoolInv, NothingIsLeft
  <2> QED BY <2>3, <2>4, <2>5, <2>6, <2>7 DEF PoolInv
<1>6. CASE p \in DOMAIN page_table
  <2>0. PICK f : f = page_table[p]
    OBVIOUS
  <2>1. /\ pages[f].pin_count = 0
        /\ page_table' = Erase(page_table, p)
        /\ table_order' = Without(table_order, p)
        /\ pages' = [pages EXCEPT ![f].is_dirty = FALSE, ![f].page_id = INVALID_PAGE_ID,
                                  ![f].data = Zero]
        /\ free_list' = Append(free_list, f)
        /\ queue' = Without(queue, f)
    BY <1>6, <2>0 DEF DeletePage, EraseOrder, ReplacerPin
  <2>2. p \in Resident /\ f \in Frames /\ f \notin Range(free_list) /\ Pins(p) = 0
    BY <1>1, <1>6, <2>0, <2>1 DEF Resident, PoolInv, TypesOK, ResidentHasFrame
  <2>3. \A q \in Resident : q # p => page_table[q] # f
    BY <2>0, <2>2 DEF PoolInv, ResidentHasFrame
  <2>4. \A q \in Resident : page_table[q] \in Frames
    BY DEF Resident, PoolInv, TypesOK
  <2>5. Resident' = Resident \ {p}
    BY <1>1, <2>1 DEF Resident, Erase
  <2>6. /\ DOMAIN page_table' = DOMAIN page_table \ {p}
        /\ page_table' \in [DOMAIN page_table' -> Frames]
        /\ \A q \in DOMAIN page_table' : page_table'[q] = page_table[q]
    BY <2>1 DEF Erase, PoolInv, TypesOK
  <2>7. /\ free_list' \in Seq(Frames) /\ IsInjective(free_list')
        /\ Range(free_list') = Range(free_list) \cup {f}
    BY <2>1, <2>2, AppendLemma DEF PoolInv, ListsOK
  <2>8. /\ queue' \in Seq(Frames) /\ IsInjective(queue')
        /\ Range(queue') = Range(queue) \ {f}
    BY <2>1, WithoutLemma DEF PoolInv, ListsOK
  <2>9. /\ table_order' \in Seq(PageIds) /\ IsInjective(table_order')
        /\ Range(table_order') = DOMAIN page_table'
        /\ Len(table_order') > 0 /\ table_order'[1] = HEADER_PAGE_ID
    BY <1>1, <2>1, <2>6, WithoutLemma DEF PoolInv, ListsOK
  <2>10. \A g \in Frames : g # f => pages'[g] = pages[g]
    BY <2>1, <2>2 DEF PoolInv, TypesOK
  <2>11. pages' \in [Frames -> Page]
    <3>1. pages[f] \in Page
      BY <2>2 DEF PoolInv, TypesOK
    <3>2. [pages[f] EXCEPT !.is_dirty = FALSE, !.page_id = INVALID_PAGE_ID,
                           !.data = Zero] \in Page
      BY <3>1, PoolAssumption DEF Page
    <3>3. pages' = [pages EXCEPT ![f] = [pages[f] EXCEPT
             !.is_dirty = FALSE, !.page_id = INVALID_PAGE_ID, !.data = Zero]]
      BY <2>1, <2>2 DEF PoolInv, TypesOK
    <3> QED BY <3>2, <3>3 DEF PoolInv, TypesOK
  <2>12. TypesOK'
    BY <1>1, <1>2, <1>4, <2>6, <2>11 DEF PoolInv, TypesOK
  <2>13. ListsOK'
    BY <2>7, <2>8, <2>9 DEF PoolInv, ListsOK
  <2>14. PinsAreResident'
    <3>1. \A c \in Clients : held[c].page # p
      BY <2>2, PinsZero
    <3>2. HEADER_PAGE_ID \in Resident' /\ page_table'[HEADER_PAGE_ID] = LastFrame
      BY <1>1, <2>5, <2>6 DEF PoolInv, PinsAreResident, Resident
    <3> QED BY <1>1, <2>5, <3>1, <3>2
            DEF PoolInv, PinsAreResident, HEADER_PAGE_ID, LastFrame
  <2>15. \A q \in Resident' : /\ q \in Resident /\ q # p /\ page_table[q] # f
                              /\ page_table'[q] = page_table[q]
                              /\ pages'[page_table[q]] = pages[page_table[q]]
                              /\ disk'[q] = disk[q]
    <3> SUFFICES ASSUME NEW q \in Resident'
                 PROVE  /\ q \in Resident /\ q # p /\ page_table[q] # f
                        /\ page_table'[q] = page_table[q]
                        /\ pages'[page_table[q]] = pages[page_table[q]]
                        /\ disk'[q] = disk[q]
      OBVIOUS
    <3>1. q \in Resident /\ q # p /\ page_table[q] # f
      BY <2>3, <2>5
    <3>2. q \in DOMAIN page_table' /\ q \in DOMAIN disk'
      BY <1>2, <2>6, <3>1 DEF Resident, PoolInv, TypesOK
    <3> QED BY <1>2, <2>4, <2>6, <2>10, <3>1, <3>2
  <2>16. ResidentHasFrame'
    <3> SUFFICES ASSUME NEW q \in Resident'
                 PROVE  /\ page_table'[q] \notin Range(free_list')
                        /\ pages'[page_table'[q]].page_id = q
                        /\ pages'[page_table'[q]].pin_count = Pins(q)'
                        /\ page_table'[q] \in Range(queue') <=> Pins(q)' = 0
      BY DEF ResidentHasFrame
    <3> QED BY <1>3, <2>7, <2>8, <2>15 DEF PoolInv, ResidentHasFrame
  <2>17. FrameHasResident'
    <3> SUFFICES ASSUME NEW g \in Frames, g \notin Range(free_list')
                 PROVE  pages'[g].page_id \in Resident' /\ page_table'[pages'[g].page_id] = g
      BY DEF FrameHasResident, Frames
    <3>1. g # f /\ pages[g].page_id \in Resident /\ page_table[pages[g].page_id] = g
      BY <2>7 DEF PoolInv, FrameHasResident
    <3>2. pages[g].page_id # p
      BY <2>0, <3>1
    <3> QED BY <2>5, <2>10, <2>15, <3>1, <3>2
  <2>18. CleanIsOnDisk'
    <3> SUFFICES ASSUME NEW q \in Resident'
                 PROVE  \/ pages'[page_table'[q]].is_dirty
                        \/ \E d \in Clients : held'[d].page = q /\ held'[d].wrote
                        \/ disk'[q] = pages'[page_table'[q]].data
      BY DEF CleanIsOnDisk
    <3> QED BY <1>1, <2>15 DEF PoolInv, CleanIsOnDisk
  <2>19. NothingIsLeft'
    BY <1>1, <2>6 DEF PoolInv, NothingIsLeft
  <2> QED BY <2>12, <2>13, <2>14, <2>16, <2>17, <2>18, <2>19 DEF PoolInv
<1> QED BY <1>5, <1>6

\* A clean: entries of page_table_ are left behind, but they are of no page of
\* the new tree.
LEMMA ClearStep ==
    ASSUME PoolInv, Clear
    PROVE  PoolInv'
<1>1. /\ NoClientPins /\ held' = held /\ cleaned' = TRUE
      /\ pages' = [pages EXCEPT ![LastFrame] = Header(Records)]
      /\ page_table' = Put(page_table, HEADER_PAGE_ID, LastFrame)
      /\ free_list' = SubSeq(AllFrames, 1, PoolSize - 1) /\ queue' = <<>>
      /\ disk' = Put(<<>>, HEADER_PAGE_ID, Zero)
      /\ next_page_id' = 1 /\ live' = {HEADER_PAGE_ID}
  BY DEF Clear, WritePage, Truncated
<1>2. LastFrame \in Frames /\ HEADER_PAGE_ID \in PageIds /\ Zero \in Data /\ Records \in Data
  BY PoolAssumption DEF LastFrame, Frames, HEADER_PAGE_ID, PageIds
<1>3. HEADER_PAGE_ID \in DOMAIN page_table
  BY DEF PoolInv, PinsAreResident, Resident
<1>4. /\ DOMAIN page_table' = DOMAIN page_table
      /\ page_table' \in [DOMAIN page_table' -> Frames]
      /\ page_table'[HEADER_PAGE_ID] = LastFrame
  BY <1>1, <1>2, <1>3 DEF Put, PoolInv, TypesOK
<1>5. table_order' = table_order
  BY <1>3 DEF Clear, PutOrder, PoolInv, ListsOK
<1>6. disk' = [q \in {HEADER_PAGE_ID} |-> Zero]
  BY <1>1 DEF Put
<1>7. pages' \in [Frames -> Page] /\ pages'[LastFrame] = Header(Records)
  BY <1>1, <1>2, HeaderType DEF PoolInv, TypesOK
<1>8. TypesOK'
  <2>1. 1 \in 1 .. MaxPages /\ {HEADER_PAGE_ID} \subseteq 0 .. 1 - 1
    BY PoolAssumption DEF HEADER_PAGE_ID
  <2>2. DOMAIN disk' = {HEADER_PAGE_ID} /\ disk' \in [DOMAIN disk' -> Data]
    BY <1>2, <1>6
  <2> QED BY <1>1, <1>2, <1>4, <1>7, <2>1, <2>2 DEF PoolInv, TypesOK
<1>9. FreshPool'
  <2>1. Resident' = {HEADER_PAGE_ID}
    BY <1>1, <1>3, <1>4 DEF Resident
  <2>2. NoClientPins'
    BY <1>1 DEF NoClientPins, NoPin
  <2> QED BY <1>1, <1>2, <1>4, <1>7, <2>1, <2>2
          DEF FreshPool, HEADER_PAGE_ID, LastFrame, AllFrames, Header
<1>10. NothingIsLeft'
  BY <1>1 DEF NothingIsLeft
<1>11. (FreshPool /\ TypesOK /\ NothingIsLeft
        /\ table_order \in Seq(PageIds) /\ IsInjective(table_order)
        /\ Range(table_order) = DOMAIN page_table
        /\ Len(table_order) > 0 /\ table_order[1] = HEADER_PAGE_ID)'
  BY <1>4, <1>5, <1>8, <1>9, <1>10 DEF PoolInv, ListsOK, PageIds, HEADER_PAGE_ID
<1> QED BY <1>11, FreshPoolInv, PTL

\* FlushAllPages writes pages: each entry it reaches has a page ID and a content.
LEMMA FlushTypes ==
    ASSUME PoolInv
    PROVE  /\ DiskAfterFlush \in [DOMAIN DiskAfterFlush -> Data]
           /\ DOMAIN disk \subseteq DOMAIN DiskAfterFlush
           /\ DOMAIN DiskAfterFlush \subseteq PageIds
<1>1. Entries = 1 .. Len(table_order) /\ Len(table_order) \in Nat
  BY DEF Entries, PoolInv, ListsOK
<1>2. \A i \in Entries : table_order[i] \in DOMAIN page_table
  BY DEF Entries, PoolInv, ListsOK, Range
<1>3. \A i \in Entries : EntryPage(i) \in Page
  BY <1>2 DEF EntryPage, PoolInv, TypesOK
<1>4. Reached \subseteq Entries /\ \A i \in Reached : EntryPage(i).page_id # INVALID_PAGE_ID
  BY <1>1 DEF Reached
<1>5. Flushed \subseteq PageIds
  BY <1>3, <1>4 DEF Flushed, Page
<1>6. ASSUME NEW p \in Flushed
      PROVE  EntryPage(Max({i \in Reached : EntryPage(i).page_id = p})).data \in Data
  <2> DEFINE T == {i \in Reached : EntryPage(i).page_id = p}
  <2>1. T # {} /\ T \subseteq 1 .. Len(table_order)
    BY <1>1, <1>4 DEF Flushed
  <2>2. Max(T) \in T
    <3> HIDE DEF T
    <3> QED BY <1>1, <2>1, MaxLemma
  <2>3. EntryPage(Max(T)) \in Page
    BY <1>3, <1>4, <2>2
  <2> QED BY <2>3 DEF Page
<1>7. DOMAIN DiskAfterFlush = DOMAIN disk \cup Flushed
  BY DEF DiskAfterFlush
<1>8. \A p \in DOMAIN disk \cup Flushed : DiskAfterFlush[p] \in Data
  BY <1>6 DEF DiskAfterFlush, PoolInv, TypesOK
<1>9. DiskAfterFlush = [p \in DOMAIN disk \cup Flushed |-> DiskAfterFlush[p]]
  BY DEF DiskAfterFlush
<1> QED BY <1>5, <1>7, <1>8, <1>9 DEF PoolInv, TypesOK

\* The index closed and opened again.
LEMMA RestartStep ==
    ASSUME PoolInv, Restart
    PROVE  PoolInv'
<1>1. /\ NoClientPins /\ disk' = DiskAfterFlush
      /\ pages' = [f \in Frames |-> IF f = LastFrame
                                    THEN Header(DiskAfterFlush[HEADER_PAGE_ID])
                                    ELSE FreshPage]
      /\ page_table' = [p \in {HEADER_PAGE_ID} |-> LastFrame]
      /\ table_order' = <<HEADER_PAGE_ID>>
      /\ free_list' = SubSeq(AllFrames, 1, PoolSize - 1) /\ queue' = <<>>
      /\ UNCHANGED <<next_page_id, live, held>> /\ cleaned' = FALSE
  BY DEF Restart
<1>2. LastFrame \in Frames /\ HEADER_PAGE_ID \in PageIds /\ FreshPage \in Page
  BY PoolAssumption DEF LastFrame, Frames, HEADER_PAGE_ID, PageIds, FreshPage, Page
<1>3. HEADER_PAGE_ID \in live /\ live \subseteq DOMAIN disk
  BY DEF PoolInv, PinsAreResident, Resident, TypesOK
<1>4. /\ disk' \in [DOMAIN disk' -> Data] /\ DOMAIN disk' \subseteq PageIds
      /\ live \subseteq DOMAIN disk'
  BY <1>1, <1>3, FlushTypes
<1>5. disk'[HEADER_PAGE_ID] \in Data
  BY <1>3, <1>4
<1>6. pages' \in [Frames -> Page] /\ pages'[LastFrame] = Header(disk'[HEADER_PAGE_ID])
  <2>1. Header(disk'[HEADER_PAGE_ID]) \in Page
    BY <1>5, HeaderType
  <2> QED BY <1>1, <1>2, <2>1
<1>7. DOMAIN page_table' = {HEADER_PAGE_ID} /\ page_table'[HEADER_PAGE_ID] = LastFrame
  BY <1>1
<1>8. TypesOK'
  BY <1>1, <1>2, <1>4, <1>6 DEF PoolInv, TypesOK
<1>9. Resident' = {HEADER_PAGE_ID}
  BY <1>1, <1>3, <1>7 DEF Resident
<1>10. FreshPool'
  <2>1. NoClientPins'
    BY <1>1 DEF NoClientPins, NoPin
  <2> QED BY <1>1, <1>5, <1>6, <1>7, <1>9, <2>1
          DEF FreshPool, HEADER_PAGE_ID, LastFrame, AllFrames, Header
<1>11. NothingIsLeft'
  BY <1>1, <1>3, <1>7 DEF NothingIsLeft
<1>12. (table_order \in Seq(PageIds) /\ IsInjective(table_order)
        /\ Range(table_order) = DOMAIN page_table
        /\ Len(table_order) > 0 /\ table_order[1] = HEADER_PAGE_ID)'
  <2>1. /\ table_order' \in Seq(PageIds) /\ DOMAIN table_order' = {1}
        /\ Len(table_order') = 1 /\ table_order'[1] = HEADER_PAGE_ID
    BY <1>1, <1>2
  <2>2. IsInjective(table_order') /\ Range(table_order') = {HEADER_PAGE_ID}
    BY <2>1 DEF IsInjective, Range
  <2> QED BY <1>7, <2>1, <2>2 DEF PageIds, HEADER_PAGE_ID
<1>13. (FreshPool /\ TypesOK /\ NothingIsLeft
        /\ table_order \in Seq(PageIds) /\ IsInjective(table_order)
        /\ Range(table_order) = DOMAIN page_table
        /\ Len(table_order) > 0 /\ table_order[1] = HEADER_PAGE_ID)'
  BY <1>8, <1>10, <1>11, <1>12
<1> QED BY <1>13, FreshPoolInv, PTL

\* A step that changes nothing.
LEMMA StutterStep == PoolInv /\ UNCHANGED poolVars => PoolInv'
<1> SUFFICES ASSUME PoolInv, UNCHANGED poolVars PROVE PoolInv'
  OBVIOUS
<1>1. UNCHANGED <<pages, page_table, table_order, free_list, queue, disk,
                  next_page_id, live, held, cleaned>>
  BY DEF poolVars
<1>2. Resident' = Resident /\ \A p : Pins(p)' = Pins(p)
  BY <1>1 DEF Resident, Pins
<1>3. TypesOK' /\ ListsOK'
  BY <1>1 DEF PoolInv, TypesOK, ListsOK
<1>4. PinsAreResident'
  BY <1>1, <1>2 DEF PoolInv, PinsAreResident, HEADER_PAGE_ID, LastFrame
<1>5. ResidentHasFrame' /\ FrameHasResident'
  BY <1>1, <1>2 DEF PoolInv, ResidentHasFrame, FrameHasResident, Frames
<1>6. CleanIsOnDisk' /\ NothingIsLeft'
  BY <1>1, <1>2 DEF PoolInv, CleanIsOnDisk, NothingIsLeft
<1> QED BY <1>3, <1>4, <1>5, <1>6 DEF PoolInv

\* Every step keeps the invariant.
LEMMA StepInv == PoolInv /\ [Next]_poolVars => PoolInv'
<1> SUFFICES ASSUME PoolInv, [Next]_poolVars PROVE PoolInv'
  OBVIOUS
<1>1. ASSUME NEW c \in Clients, NEW p \in PageIds, FetchHit(c, p) PROVE PoolInv'
  BY <1>1, FetchHitStep
<1>2. ASSUME NEW c \in Clients, NEW p \in PageIds, FetchMiss(c, p) PROVE PoolInv'
  BY <1>2, FetchMissStep
<1>3. ASSUME NEW c \in Clients, NewPage(c) PROVE PoolInv'
  BY <1>3, NewPageStep
<1>4. ASSUME NEW c \in Clients, NEW d \in Data, WriteData(c, d) PROVE PoolInv'
  BY <1>4, WriteDataStep
<1>5. ASSUME NEW c \in Clients, UnpinPage(c) PROVE PoolInv'
  BY <1>5, UnpinPageStep
<1>6. ASSUME NEW p \in PageIds, FlushPage(p) PROVE PoolInv'
  BY <1>6, FlushPageStep
<1>7. ASSUME NEW p \in PageIds, DeletePage(p) PROVE PoolInv'
  BY <1>7, DeletePageStep
<1>8. CASE Clear
  BY <1>8, ClearStep
<1>9. CASE Restart
  BY <1>9, RestartStep
<1>10. CASE UNCHANGED poolVars
  BY <1>10, StutterStep
<1> QED BY <1>1, <1>2, <1>3, <1>4, <1>5, <1>6, <1>7, <1>8, <1>9, <1>10 DEF Next

LEMMA PoolInvHolds == Spec => []PoolInv
BY InitInv, StepInv, PTL DEF Spec
-----------------------------------------------------------------------------
\* The parts of the properties that runs check follow from the invariant.
LEMMA InvImpliesPins == PoolInv => PinsAreCounted
<1> SUFFICES ASSUME PoolInv PROVE PinsAreCounted
  OBVIOUS
<1>1. Len(table_order) = Cardinality(DOMAIN page_table)
  BY LengthIsCardinality DEF PoolInv, ListsOK
<1>2. Range(free_list) \cup Range(queue) \subseteq Frames
  BY DEF PoolInv, ListsOK, Range
<1>3. PoolTypeOK
  BY <1>1, <1>2 DEF PoolInv, TypesOK, ListsOK, PoolTypeOK
<1>4. \A c \in Clients : held[c] # NoPin => held[c].page \in live \cap DOMAIN page_table
  BY DEF PoolInv, PinsAreResident, TypesOK, NoPin, Resident
<1> QED BY <1>3, <1>4
        DEF PoolInv, TypesOK, ListsOK, ResidentHasFrame, Resident, PinsAreCounted

LEMMA InvImpliesFrames == PoolInv => FramesAreAccountedFor
<1> SUFFICES ASSUME PoolInv PROVE FramesAreAccountedFor
  OBVIOUS
<1>1. /\ Len(free_list) = Cardinality(Range(free_list))
      /\ Len(queue) = Cardinality(Range(queue))
  BY LengthIsCardinality DEF PoolInv, ListsOK
<1> DEFINE F == Frames \ (Range(free_list) \cup Range(queue))
           P == {page_table[p] : p \in {q \in live : Pins(q) > 0}}
<1>2. ASSUME NEW f \in F PROVE f \in P
  <2>1. /\ pages[f].page_id \in Resident /\ page_table[pages[f].page_id] = f
        /\ Pins(pages[f].page_id) # 0
    BY DEF PoolInv, FrameHasResident, ResidentHasFrame
  <2>2. Pins(pages[f].page_id) > 0 /\ pages[f].page_id \in live
    BY <2>1, PinsZero DEF Resident
  <2> QED BY <2>1, <2>2
<1>3. ASSUME NEW f \in P PROVE f \in F
  <2>1. PICK p \in live : Pins(p) > 0 /\ f = page_table[p]
    BY <1>3
  <2>2. p \in Resident
    <3>1. p = HEADER_PAGE_ID \/ \E c \in Clients : held[c].page = p
      BY <2>1, PinsZero
    <3>2. p # None
      BY PoolAssumption DEF PoolInv, TypesOK, PageIds
    <3> QED BY <3>1, <3>2 DEF PoolInv, PinsAreResident
  <2>3. Pins(p) # 0
    BY <2>1
  <2> QED BY <2>1, <2>2, <2>3 DEF PoolInv, TypesOK, ResidentHasFrame, Resident
<1>4. F = P
  <2> HIDE DEF F, P
  <2> QED BY <1>2, <1>3
<1> QED BY <1>1, <1>4 DEF PoolInv, ListsOK, FramesAreAccountedFor

\* No frame is lost or handed out twice: FindFrame and its callers, UnpinPage,
\* DeletePage and Initialize keep every frame free, evictable or pinned.
THEOREM NoFrameIsLost == Spec => []FramesAreAccountedFor
BY PoolInvHolds, InvImpliesFrames, PTL

\* The pin counts of FetchPage, NewPage and UnpinPage are the pins that clients
\* hold, and a clean's leftovers in page_table_ never touch a live page.
THEOREM PinCountsAreRight == Spec => []PinsAreCounted
BY PoolInvHolds, InvImpliesPins, PTL

-----------------------------------------------------------------------------
\* Load takes no frame from a page that is pinned.
LEMMA LoadKeepsPinned ==
    ASSUME PoolInv, NEW p \in PageIds \ Resident, NEW data, NEW f, Loaded(f, p, data)
    PROVE  KeepsPinnedPages
<1> SUFFICES ASSUME NEW c \in Clients, held[c] # NoPin
             PROVE  /\ held[c].page \in DOMAIN page_table'
                    /\ page_table'[held[c].page] = page_table[held[c].page]
  BY DEF KeepsPinnedPages
<1>1. held[c].page \in Resident
  BY DEF PoolInv, TypesOK, PinsAreResident, NoPin
<1>2. Pins(held[c].page) # 0
  BY PinsZero
<1>3. page_table[held[c].page] # f
  BY <1>1, <1>2 DEF PoolInv, ResidentHasFrame, Loaded
<1> QED BY <1>1, <1>3 DEF Loaded

\* Every step of the pool leaves a page that stays pinned in its frame.
LEMMA StepKeepsPinned == PoolInv /\ [Next]_poolVars => [KeepsPinnedPages]_poolVars
<1> SUFFICES ASSUME PoolInv, Next PROVE KeepsPinnedPages
  OBVIOUS
<1>1. \A c \in Clients : held[c] # NoPin => held[c].page \in Resident
  BY DEF PoolInv, TypesOK, PinsAreResident, NoPin
<1>2. ASSUME page_table' = page_table PROVE KeepsPinnedPages
  BY <1>1, <1>2 DEF KeepsPinnedPages, Resident
<1>3. ASSUME NoClientPins PROVE KeepsPinnedPages
  BY <1>3 DEF KeepsPinnedPages, NoClientPins
<1>4. ASSUME NEW c \in Clients, NEW p \in PageIds, FetchHit(c, p) PROVE KeepsPinnedPages
  BY <1>2, <1>4 DEF FetchHit
<1>5. ASSUME NEW c \in Clients, NEW p \in PageIds, FetchMiss(c, p) PROVE KeepsPinnedPages
  <2>1. p \in PageIds \ Resident /\ FrameAvailable /\ Load(c, p, ReadPage(DiskAfterFind, p))
    BY <1>5 DEF FetchMiss, Resident
  <2> QED BY <2>1, LoadPool, LoadKeepsPinned
<1>6. ASSUME NEW c \in Clients, NewPage(c) PROVE KeepsPinnedPages
  <2>1. PICK p : p = next_page_id
    OBVIOUS
  <2>2. p \in PageIds \ Resident
    BY <1>6, <2>1, PoolAssumption DEF NewPage, PoolInv, TypesOK, PageIds, Resident
  <2>3. FrameAvailable /\ Load(c, p, Zero)
    BY <1>6, <2>1 DEF NewPage
  <2> QED BY <2>2, <2>3, LoadPool, LoadKeepsPinned
<1>7. ASSUME NEW c \in Clients, NEW d \in Data, WriteData(c, d) PROVE KeepsPinnedPages
  BY <1>2, <1>7 DEF WriteData
<1>8. ASSUME NEW c \in Clients, UnpinPage(c) PROVE KeepsPinnedPages
  BY <1>2, <1>8 DEF UnpinPage
<1>9. ASSUME NEW p \in PageIds, FlushPage(p) PROVE KeepsPinnedPages
  BY <1>2, <1>9 DEF FlushPage
<1>10. ASSUME NEW p \in PageIds, DeletePage(p) PROVE KeepsPinnedPages
  <2>1. CASE p \notin DOMAIN page_table
    BY <1>2, <1>10, <2>1 DEF DeletePage
  <2>2. CASE p \in DOMAIN page_table
    <3>1. /\ p \in Resident /\ pages[page_table[p]].pin_count = 0
          /\ page_table' = Erase(page_table, p)
      BY <1>10, <2>2 DEF DeletePage, Resident
    <3>2. \A c \in Clients : held[c].page # p
      BY <3>1, PinsZero DEF PoolInv, ResidentHasFrame
    <3> QED BY <1>1, <3>1, <3>2 DEF KeepsPinnedPages, Erase, Resident
  <2> QED BY <2>1, <2>2
<1>11. CASE Clear
  BY <1>3, <1>11 DEF Clear
<1>12. CASE Restart
  BY <1>3, <1>12 DEF Restart
<1> QED BY <1>4, <1>5, <1>6, <1>7, <1>8, <1>9, <1>10, <1>11, <1>12 DEF Next

\* The pointer that FetchPage or NewPage returned stays good until UnpinPage.
THEOREM PinnedPagesAreKept == Spec => PinnedPagesStay
BY PoolInvHolds, StepKeepsPinned, PTL DEF Spec, PinnedPagesStay
-----------------------------------------------------------------------------
\* The store that the pool implements.
TheStore == [p \in live |-> Content(p)]

\* A step that leaves every page its content cannot be seen in the store.
LEMMA SameContents ==
    ASSUME live' = live, \A q \in live : Content(q)' = Content(q)
    PROVE  TheStore' = TheStore
BY DEF TheStore

\* Load leaves the pages of the tree their contents: the victim's is in the file.
LEMMA LoadContents ==
    ASSUME PoolInv, FrameAvailable, NEW c \in Clients,
           NEW p \in PageIds \ Resident, NEW data, Load(c, p, data),
           \A q \in live : q # p => disk'[q] = DiskAfterFind[q]
    PROVE  /\ Content(p)' = data
           /\ \A q \in live : q # p => Content(q)' = Content(q)
<1>0. PICK f : f = FoundFrame
  OBVIOUS
<1>1. Loaded(f, p, data)
  BY <1>0, LoadPool
<1>2. FindForgetsTheVictim /\ FindSavesTheVictim
  BY FindFrameTable
<1>3. DOMAIN page_table' = DOMAIN TableAfterFind \cup {p}
  BY DEF Load, Put
<1>4. /\ pages'[f].data = data
      /\ \A g \in Frames : g # f => pages'[g] = pages[g]
  BY <1>1 DEF Loaded, PoolInv, TypesOK
<1>5. Content(p)' = data
  BY <1>1, <1>4 DEF Content, Loaded
<1>6. ASSUME NEW q \in live, q # p PROVE Content(q)' = Content(q)
  <2>1. CASE q \in DOMAIN page_table'
    <3>1. q \in Resident /\ page_table[q] # f
      BY <1>1, <1>2, <1>3, <1>6, <2>1 DEF FindForgetsTheVictim, Loaded, Resident
    <3>2. page_table'[q] = page_table[q] /\ page_table[q] \in Frames
      BY <1>1, <1>6, <2>1, <3>1 DEF Loaded, PoolInv, TypesOK, Resident
    <3> QED BY <1>4, <2>1, <3>1, <3>2 DEF Content, Resident
  <2>2. CASE q \notin DOMAIN page_table'
    <3>1. Content(q)' = disk'[q]
      BY <2>2 DEF Content
    <3> QED BY <1>2, <1>3, <1>6, <2>2, <3>1 DEF FindSavesTheVictim
  <2> QED BY <2>1, <2>2
<1> QED BY <1>5, <1>6

\* As long as the process was not cleaned, FlushAllPages saves every page.
LEMMA FlushSavesEverything ==
    ASSUME PoolInv, ~cleaned
    PROVE  \A p \in live : DiskAfterFlush[p] = Content(p)
<1>1. DOMAIN page_table = Resident
  BY DEF PoolInv, NothingIsLeft, Resident
<1>2. Entries = DOMAIN table_order /\ Entries = 1 .. Len(table_order) /\ Len(table_order) \in Nat
  BY DEF Entries, PoolInv, ListsOK
<1>3. \A i \in Entries : table_order[i] \in Resident /\ table_order[i] # INVALID_PAGE_ID
  <2>1. INVALID_PAGE_ID \notin PageIds
    BY PoolAssumption DEF PageIds, INVALID_PAGE_ID
  <2>2. \A i \in Entries : table_order[i] \in PageIds /\ table_order[i] \in DOMAIN page_table
    BY <1>2 DEF PoolInv, ListsOK, Range
  <2> QED BY <1>1, <2>1, <2>2
<1>4. \A i \in Entries : EntryPage(i).page_id = table_order[i]
  BY <1>3 DEF EntryPage, PoolInv, ResidentHasFrame
<1>5. Reached = Entries
  BY <1>2, <1>3, <1>4 DEF Reached
<1>6. Flushed = DOMAIN page_table
  BY <1>2, <1>4, <1>5 DEF Flushed, PoolInv, ListsOK, Range
<1> SUFFICES ASSUME NEW p \in live PROVE DiskAfterFlush[p] = Content(p)
  OBVIOUS
<1>7. p \in DOMAIN disk
  BY DEF PoolInv, TypesOK
<1>8. CASE p \notin DOMAIN page_table
  BY <1>6, <1>7, <1>8 DEF DiskAfterFlush, Content
<1>9. CASE p \in DOMAIN page_table
  <2>1. PICK i \in Entries : table_order[i] = p
    BY <1>2, <1>9 DEF PoolInv, ListsOK, Range
  <2>2. {j \in Reached : EntryPage(j).page_id = p} = {i}
    BY <1>2, <1>4, <1>5, <2>1 DEF PoolInv, ListsOK, IsInjective
  <2>3. Max({i}) = i
    BY <1>2 DEF Max
  <2>4. DiskAfterFlush[p] = EntryPage(i).data
    BY <1>6, <1>7, <1>9, <2>2, <2>3 DEF DiskAfterFlush
  <2> QED BY <1>9, <2>1, <2>4 DEF EntryPage, Content
<1> QED BY <1>8, <1>9

\* A change of one frame of a resident page, its mapping and the others kept:
\* the other pages keep their contents.
LEMMA OtherContents ==
    ASSUME PoolInv, NEW p \in Resident, live' = live, page_table' = page_table,
           \A g \in Frames : g # page_table[p] => pages'[g] = pages[g],
           \A q \in live : q # p => disk'[q] = disk[q]
    PROVE  /\ \A q \in live : q # p => Content(q)' = Content(q)
           /\ Content(p)' = pages'[page_table[p]].data
<1>1. Content(p)' = pages'[page_table[p]].data
  BY DEF Content, Resident
<1>2. ASSUME NEW q \in live, q # p PROVE Content(q)' = Content(q)
  <2>1. CASE q \in DOMAIN page_table
    <3>1. page_table[q] # page_table[p] /\ page_table[q] \in Frames
      BY <1>2, <2>1 DEF PoolInv, ResidentHasFrame, Resident, TypesOK
    <3> QED BY <2>1, <3>1 DEF Content
  <2>2. CASE q \notin DOMAIN page_table
    BY <1>2, <2>2 DEF Content
  <2> QED BY <2>1, <2>2
<1> QED BY <1>1, <1>2

\* FetchPage, UnpinPage and FlushPage cannot be seen in the store.
LEMMA FetchContents ==
    ASSUME PoolInv, NEW c \in Clients, NEW p \in PageIds, FetchHit(c, p) \/ FetchMiss(c, p)
    PROVE  TheStore' = TheStore
<1>1. CASE FetchHit(c, p)
  <2>1. /\ p \in Resident /\ UNCHANGED <<page_table, disk, live>>
        /\ pages' = [pages EXCEPT ![page_table[p]].pin_count = @ + 1]
    BY <1>1 DEF FetchHit, Resident
  <2>2. page_table[p] \in Frames /\ pages \in [Frames -> Page]
    BY <2>1 DEF PoolInv, TypesOK, Resident
  <2>3. /\ \A g \in Frames : g # page_table[p] => pages'[g] = pages[g]
        /\ pages'[page_table[p]] = [pages[page_table[p]] EXCEPT !.pin_count = @ + 1]
    BY <2>1, <2>2
  <2>4. pages'[page_table[p]].data = pages[page_table[p]].data
    BY <2>2, <2>3 DEF Page
  <2>5. \A q \in live : q # p => Content(q)' = Content(q)
    BY <2>1, <2>3, OtherContents
  <2>6. Content(p)' = Content(p)
    BY <2>1, <2>4 DEF Content, Resident
  <2> QED BY <2>1, <2>5, <2>6, SameContents
<1>2. CASE FetchMiss(c, p)
  <2>1. /\ p \in PageIds \ Resident /\ p \in live /\ p \notin DOMAIN page_table
        /\ FrameAvailable /\ Load(c, p, DiskAfterFind[p])
        /\ disk' = DiskAfterFind /\ live' = live
    BY <1>2 DEF FetchMiss, ReadPage, Resident
  <2>2. /\ Content(p)' = DiskAfterFind[p]
        /\ \A q \in live : q # p => Content(q)' = Content(q)
    BY <2>1, LoadContents
  <2>3. DiskAfterFind[p] = Content(p)
    BY <2>1, FindFrameTable DEF FindForgetsTheVictim, FindSavesTheVictim
  <2> QED BY <2>1, <2>2, <2>3, SameContents
<1> QED BY <1>1, <1>2

LEMMA UnpinContents ==
    ASSUME PoolInv, NEW c \in Clients, UnpinPage(c)
    PROVE  TheStore' = TheStore
<1>0. PICK p : p = held[c].page
  OBVIOUS
<1>1. /\ held[c] # NoPin /\ UNCHANGED <<page_table, disk, live>>
      /\ pages' = [pages EXCEPT
            ![page_table[p]].is_dirty = DirtyAfterUnpin(pages[page_table[p]], held[c].wrote),
            ![page_table[p]].pin_count = @ - 1]
  BY <1>0 DEF UnpinPage
<1>2. p \in Resident
  BY <1>0, <1>1 DEF PoolInv, TypesOK, PinsAreResident, NoPin
<1>3. page_table[p] \in Frames /\ pages \in [Frames -> Page]
  BY <1>2 DEF PoolInv, TypesOK, Resident
<1>4. /\ \A g \in Frames : g # page_table[p] => pages'[g] = pages[g]
      /\ pages'[page_table[p]].data = pages[page_table[p]].data
  BY <1>1, <1>3 DEF Page
<1>5. \A q \in live : q # p => Content(q)' = Content(q)
  BY <1>1, <1>2, <1>4, OtherContents
<1>6. Content(p)' = Content(p)
  BY <1>1, <1>2, <1>4 DEF Content, Resident
<1> QED BY <1>1, <1>5, <1>6, SameContents

LEMMA FlushContents ==
    ASSUME PoolInv, NEW p \in PageIds, FlushPage(p)
    PROVE  TheStore' = TheStore
<1>1. /\ p \in Resident /\ UNCHANGED <<page_table, live>>
      /\ disk' = Put(disk, p, pages[page_table[p]].data)
      /\ pages' = [pages EXCEPT ![page_table[p]].is_dirty = FALSE]
  BY DEF FlushPage, WritePage, Resident
<1>2. page_table[p] \in Frames /\ pages \in [Frames -> Page] /\ live \subseteq DOMAIN disk
  BY <1>1 DEF PoolInv, TypesOK, Resident
<1>3. /\ \A g \in Frames : g # page_table[p] => pages'[g] = pages[g]
      /\ pages'[page_table[p]].data = pages[page_table[p]].data
  BY <1>1, <1>2 DEF Page
<1>4. \A q \in live : q # p => disk'[q] = disk[q]
  BY <1>1, <1>2 DEF Put
<1>5. \A q \in live : q # p => Content(q)' = Content(q)
  BY <1>1, <1>3, <1>4, OtherContents
<1>6. Content(p)' = Content(p)
  BY <1>1, <1>3 DEF Content, Resident
<1> QED BY <1>1, <1>5, <1>6, SameContents

\* Closing and opening the index cannot be seen either, unless it was cleaned.
LEMMA RestartContents ==
    ASSUME PoolInv, Restart, ~cleaned
    PROVE  TheStore' = TheStore
<1>1. /\ live' = live /\ disk' = DiskAfterFlush
      /\ page_table' = [p \in {HEADER_PAGE_ID} |-> LastFrame]
      /\ pages' = [f \in Frames |-> IF f = LastFrame
                                    THEN Header(DiskAfterFlush[HEADER_PAGE_ID])
                                    ELSE FreshPage]
  BY DEF Restart
<1>2. LastFrame \in Frames
  BY PoolAssumption DEF LastFrame, Frames
<1>3. pages'[LastFrame].data = DiskAfterFlush[HEADER_PAGE_ID]
  BY <1>1, <1>2 DEF Header
<1>4. ASSUME NEW p \in live PROVE Content(p)' = DiskAfterFlush[p]
  BY <1>1, <1>3 DEF Content
<1> QED BY <1>1, <1>4, FlushSavesEverything, SameContents

\* NewPage, WriteData, DeletePage and Clear are the steps of the store.
LEMMA NewContents ==
    ASSUME PoolInv, NEW c \in Clients, NewPage(c)
    PROVE  Store!Next
<1>0. PICK p : p = next_page_id
  OBVIOUS
<1>1. /\ FrameAvailable /\ Load(c, p, Zero)
      /\ disk' = Put(DiskAfterFind, p, Zero) /\ live' = live \cup {p}
  BY <1>0 DEF NewPage, WritePage
<1>2. p \in PageIds /\ p \notin live
  BY <1>0, PoolAssumption DEF NewPage, PoolInv, TypesOK, PageIds
<1>3. \A q \in live : q # p => disk'[q] = DiskAfterFind[q]
  <2>1. DOMAIN DiskAfterFind = DOMAIN disk /\ live \subseteq DOMAIN disk
    BY <1>1, FindFrameTable DEF FindSavesTheVictim, PoolInv, TypesOK
  <2> QED BY <1>1, <2>1 DEF Put
<1>4. Content(p)' = Zero /\ \A q \in live : q # p => Content(q)' = Content(q)
  BY <1>1, <1>2, <1>3, LoadContents DEF Resident
<1>5. TheStore' = [q \in DOMAIN TheStore \cup {p} |-> IF q = p THEN Zero ELSE TheStore[q]]
  BY <1>1, <1>2, <1>4 DEF TheStore
<1>6. Store!New(p)
  BY <1>2, <1>5 DEF Store!New, TheStore
<1> QED BY <1>2, <1>6 DEF Store!Next

LEMMA WriteContents ==
    ASSUME PoolInv, NEW c \in Clients, NEW d \in Data, WriteData(c, d)
    PROVE  Store!Next
<1>0. PICK p : p = held[c].page
  OBVIOUS
<1>1. /\ held[c] # NoPin /\ UNCHANGED <<page_table, disk, live>>
      /\ pages' = [pages EXCEPT ![page_table[p]].data = d]
  BY <1>0 DEF WriteData
<1>2. p \in Resident
  BY <1>0, <1>1 DEF PoolInv, TypesOK, PinsAreResident, NoPin
<1>3. page_table[p] \in Frames /\ pages \in [Frames -> Page] /\ p \in PageIds /\ p \in live
  BY <1>2 DEF PoolInv, TypesOK, Resident
<1>4. /\ \A g \in Frames : g # page_table[p] => pages'[g] = pages[g]
      /\ pages'[page_table[p]].data = d
  BY <1>1, <1>3 DEF Page
<1>5. Content(p)' = d /\ \A q \in live : q # p => Content(q)' = Content(q)
  BY <1>1, <1>2, <1>4, OtherContents
<1>6. TheStore' = [TheStore EXCEPT ![p] = d]
  BY <1>1, <1>3, <1>5 DEF TheStore
<1>7. Store!Write(p, d)
  BY <1>3, <1>6 DEF Store!Write, TheStore
<1> QED BY <1>3, <1>7 DEF Store!Next

LEMMA DeleteContents ==
    ASSUME PoolInv, NEW p \in PageIds, DeletePage(p)
    PROVE  Store!Next
<1>1. p \in live /\ live' = live \ {p} /\ disk' = Erase(disk, p)
  BY DEF DeletePage
<1>2. ASSUME NEW q \in live, q # p PROVE Content(q)' = Content(q)
  <2>1. disk'[q] = disk[q]
    BY <1>1, <1>2 DEF Erase, PoolInv, TypesOK
  <2>2. CASE p \notin DOMAIN page_table
    BY <2>1, <2>2 DEF DeletePage, Content
  <2>3. CASE p \in DOMAIN page_table
    <3>1. /\ page_table' = Erase(page_table, p)
          /\ pages' = [pages EXCEPT ![page_table[p]].is_dirty = FALSE,
                                    ![page_table[p]].page_id = INVALID_PAGE_ID,
                                    ![page_table[p]].data = Zero]
      BY <2>3 DEF DeletePage
    <3>2. CASE q \in DOMAIN page_table
      <4>1. page_table[q] # page_table[p] /\ page_table[q] \in Frames
        BY <1>1, <1>2, <2>3, <3>2 DEF PoolInv, ResidentHasFrame, Resident, TypesOK
      <4>2. page_table'[q] = page_table[q] /\ q \in DOMAIN page_table'
        BY <1>2, <3>1, <3>2 DEF Erase
      <4>3. pages'[page_table[q]] = pages[page_table[q]]
        BY <3>1, <4>1 DEF PoolInv, TypesOK
      <4> QED BY <3>2, <4>2, <4>3 DEF Content
    <3>3. CASE q \notin DOMAIN page_table
      <4>1. q \notin DOMAIN page_table'
        BY <3>1, <3>3 DEF Erase
      <4> QED BY <2>1, <3>3, <4>1 DEF Content
    <3> QED BY <3>2, <3>3
  <2> QED BY <2>2, <2>3
<1>3. TheStore' = [q \in DOMAIN TheStore \ {p} |-> TheStore[q]]
  BY <1>1, <1>2 DEF TheStore
<1>4. Store!Delete(p)
  BY <1>3 DEF Store!Delete, TheStore
<1> QED BY <1>4 DEF Store!Next

LEMMA ClearContents ==
    ASSUME PoolInv, Clear
    PROVE  Store!Next
<1>1. /\ live' = {HEADER_PAGE_ID}
      /\ pages' = [pages EXCEPT ![LastFrame] = Header(Records)]
      /\ page_table' = Put(page_table, HEADER_PAGE_ID, LastFrame)
  BY DEF Clear
<1>2. LastFrame \in Frames
  BY PoolAssumption DEF LastFrame, Frames
<1>3. pages'[LastFrame].data = Records
  BY <1>1, <1>2 DEF Header, PoolInv, TypesOK
<1>4. Content(HEADER_PAGE_ID)' = Records
  BY <1>1, <1>3 DEF Content, Put, HEADER_PAGE_ID
<1>5. TheStore' = [p \in {HEADER_PAGE_ID} |-> Records]
  BY <1>1, <1>4 DEF TheStore, HEADER_PAGE_ID
<1>6. Store!Clear
  BY <1>5 DEF Store!Clear, Store!OnlyHeader, TheStore
<1> QED BY <1>6 DEF Store!Next

\* The pool implements the store of pages, step by step, as long as a process
\* does not exit once it was cleaned: fetches, evictions, unpins, flushes and
\* restarts are not seen, and no write is lost.
THEOREM PoolImplementsStore ==
    ASSUME ~ExitAfterClean
    PROVE  Spec => ImplementsPageStore
<1>1. Init => Store!Init
  <2> SUFFICES ASSUME Init PROVE Store!Init
    OBVIOUS
  <2>1. LastFrame \in Frames
    BY PoolAssumption DEF LastFrame, Frames
  <2>2. Content(HEADER_PAGE_ID) = Records /\ live = {HEADER_PAGE_ID}
    BY <2>1 DEF Init, Content, Header
  <2> QED BY <2>2 DEF Store!Init, Store!OnlyHeader
<1>2. PoolInv /\ [Next]_poolVars => [Store!Next]_TheStore
  <2> SUFFICES ASSUME PoolInv, [Next]_poolVars
               PROVE  Store!Next \/ TheStore' = TheStore
    OBVIOUS
  <2>1. ASSUME NEW c \in Clients, NEW p \in PageIds, FetchHit(c, p) \/ FetchMiss(c, p)
        PROVE  TheStore' = TheStore
    BY <2>1, FetchContents
  <2>2. ASSUME NEW c \in Clients, NewPage(c) PROVE Store!Next
    BY <2>2, NewContents
  <2>3. ASSUME NEW c \in Clients, NEW d \in Data, WriteData(c, d) PROVE Store!Next
    BY <2>3, WriteContents
  <2>4. ASSUME NEW c \in Clients, UnpinPage(c) PROVE TheStore' = TheStore
    BY <2>4, UnpinContents
  <2>5. ASSUME NEW p \in PageIds, FlushPage(p) PROVE TheStore' = TheStore
    BY <2>5, FlushContents
  <2>6. ASSUME NEW p \in PageIds, DeletePage(p) PROVE Store!Next
    BY <2>6, DeleteContents
  <2>7. CASE Clear
    BY <2>7, ClearContents
  <2>8. CASE Restart
    <3>1. ~cleaned
      BY <2>8 DEF Restart
    <3> QED BY <2>8, <3>1, RestartContents
  <2>9. CASE UNCHANGED poolVars
    BY <2>9 DEF poolVars, TheStore, Content
  <2> QED BY <2>1, <2>2, <2>3, <2>4, <2>5, <2>6, <2>7, <2>8, <2>9 DEF Next
<1> QED BY <1>1, <1>2, PoolInvHolds, PTL DEF Spec, ImplementsPageStore, Store!Spec, TheStore
=============================================================================
