---------------------------- MODULE KMallocProofs ---------------------------
(***************************************************************************)
(* kmalloc and kfree: how the blocks lie in the heap and on the free list, *)
(* for every page size, supply and sequence of calls, until something else *)
(* writes to a header.                                                     *)
(***************************************************************************)
EXTENDS KMalloc, FiniteSetTheorems, WellFoundedInduction, TLAPS

HeapEnd == PAGE_UNITS * SUPPLY
Link == Units \cup {NULL}

\* The free list: the slots p[0], the head, to p[n], which links to nothing.
FreeList(p, n) ==
    /\ n \in Nat /\ p \in [0 .. n -> Link] /\ p[0] = 0
    /\ \A i, j \in 0 .. n : p[i] = p[j] => i = j
    /\ \A i \in 0 .. n - 1 : next_free_block[p[i]] = p[i + 1]
    /\ next_free_block[p[n]] = NULL

\* The units lie in one of the pages that were taken.
InPage(first, last) ==
    \E page \in 0 .. used - 1 :
        PAGE_UNITS * page < first /\ last <= PAGE_UNITS * page + PAGE_UNITS

\* A block ends before the first unit of the payload behind it, or with it.
Spaced(headers) ==
    \A g, h \in headers : g < h =>
        /\ g + block_size[g] <= h + 1
        /\ \A b \in DOMAIN live : b.header = g => g + b.units <= h + 1

Shapes(headers) ==
    /\ headers \subseteq Units
    /\ \A u \in Units \ headers : block_size[u] = 0
    /\ \A h \in headers : InPage(h, h + block_size[h])
    /\ \A b \in DOMAIN live : b.header \in headers /\ InPage(b.header, b.header + b.units)
    /\ Spaced(headers)

\* A block that is owned and on the list still, since it was split off
\* itself, has no size left.
OnList(p, n, headers) ==
    \A i \in 0 .. n :
        /\ p[i] \in headers \cup {0}
        /\ \A b \in DOMAIN live : p[i] = b.header => block_size[p[i]] = 0

Layout(p, n, headers) == FreeList(p, n) /\ Shapes(headers) /\ OnList(p, n, headers)

Owned ==
    \A b, c \in DOMAIN live : live[b] = 1 /\ (b.header = c.header => b = c)

BlockType ==
    /\ next_free_block \in [Link -> Link]
    /\ block_size \in [Units -> Nat]
    /\ units \in Requests \cup {Idle}
    /\ used \in 0 .. SUPPLY
    /\ DOMAIN live \subseteq [header : Units, units : Requests]

Scanning(p, n) == (\E i \in 0 .. n : current = p[i]) /\ (units = Idle => current = 0)

\* The blocks ever made, and the free list through them.
BlockInv ==
    /\ BlockType /\ Owned
    /\ \E headers \in SUBSET Units, n \in Nat :
          \E p \in [0 .. n -> Link] : Layout(p, n, headers) /\ Scanning(p, n)

-----------------------------------------------------------------------------
(* Sizes and pages. *)

LEMMA HeapSizes ==
    /\ PAGE_UNITS \in Nat /\ PAGE_UNITS > 0 /\ SUPPLY \in Nat /\ HeapEnd \in Nat
    /\ Units = 1 .. HeapEnd /\ Link = 0 .. HeapEnd
    /\ Requests \subseteq Nat \ {0}
<1>1. PAGE_UNITS \in Nat /\ PAGE_UNITS > 0 /\ SUPPLY \in Nat
  BY UnitsAssumption
<1>2. \A x, y \in Nat : x * y \in Nat
  OBVIOUS
<1>3. HeapEnd \in Nat
  BY <1>1, <1>2 DEF HeapEnd
<1>4. Units = 1 .. HeapEnd
  BY DEF Units, HeapEnd
<1>5. Link = 0 .. HeapEnd
  BY <1>3, <1>4 DEF Link, NULL
<1>6. Requests \subseteq Nat \ {0}
  BY UnitsAssumption
<1> QED
  BY <1>1, <1>3, <1>4, <1>5, <1>6

\* x pages end before the y-th begins, when x < y.
LEMMA PagesInOrder ==
    ASSUME NEW x \in Nat, NEW y \in Nat
    PROVE  /\ PAGE_UNITS * x \in Nat
           /\ x < y => PAGE_UNITS * x + PAGE_UNITS <= PAGE_UNITS * y
<1>1. PAGE_UNITS \in Nat /\ PAGE_UNITS > 0
  BY HeapSizes
<1>2. \A a, b \in Nat : a * b \in Nat
  OBVIOUS
<1>3. ASSUME x < y PROVE PAGE_UNITS * x + PAGE_UNITS <= PAGE_UNITS * y
  <2>1. PICK k \in Nat : y = x + 1 + k
    <3>1. y - x - 1 \in Nat /\ y = x + 1 + (y - x - 1)
      BY <1>3
    <3> QED
      BY <3>1
  <2>2. PAGE_UNITS * y = PAGE_UNITS * x + PAGE_UNITS + PAGE_UNITS * k
    BY <1>1, <2>1
  <2> QED
    BY <1>1, <1>2, <2>2
<1> QED
  BY <1>1, <1>2, <1>3

LEMMA PageOf ==
    ASSUME NEW page \in Nat, NEW u \in Int,
           PAGE_UNITS * page < u, u <= PAGE_UNITS * page + PAGE_UNITS
    PROVE  (u - 1) \div PAGE_UNITS = page
<1>1. PAGE_UNITS \in Nat \ {0} /\ PAGE_UNITS * page \in Nat
  BY HeapSizes, PagesInOrder
<1>2. PICK r \in 0 .. PAGE_UNITS - 1 : u - 1 = PAGE_UNITS * page + r
  <2> DEFINE r == u - 1 - PAGE_UNITS * page
  <2>1. r \in 0 .. PAGE_UNITS - 1 /\ u - 1 = PAGE_UNITS * page + r
    BY <1>1
  <2> QED
    BY <2>1
<1>3. \A w \in Nat \ {0}, q \in Nat : \A k \in 0 .. w - 1 : (w * q + k) \div w = q
  OBVIOUS
<1> QED
  BY <1>1, <1>2, <1>3

LEMMA InPageFacts ==
    ASSUME used \in 0 .. SUPPLY, NEW first \in Int, NEW last \in Int, first <= last,
           InPage(first, last)
    PROVE  /\ SamePage(first, last) /\ last <= used * PAGE_UNITS /\ last <= HeapEnd
           /\ 1 <= first
<1>1. PICK page \in 0 .. used - 1 :
         PAGE_UNITS * page < first /\ last <= PAGE_UNITS * page + PAGE_UNITS
  BY DEF InPage
<1>2. /\ page \in Nat /\ used \in Nat /\ page < used /\ SUPPLY \in Nat
      /\ PAGE_UNITS \in Nat /\ PAGE_UNITS * page \in Nat
  BY <1>1, HeapSizes, PagesInOrder
<1>3. (first - 1) \div PAGE_UNITS = page /\ (last - 1) \div PAGE_UNITS = page
  <2>1. first <= PAGE_UNITS * page + PAGE_UNITS /\ PAGE_UNITS * page < last
    BY <1>1, <1>2
  <2> QED
    BY <1>1, <1>2, <2>1, PageOf
<1>4. PAGE_UNITS * page + PAGE_UNITS <= PAGE_UNITS * used /\ PAGE_UNITS * used \in Nat
  BY <1>2, PagesInOrder
<1>5. PAGE_UNITS * used <= HeapEnd /\ HeapEnd \in Nat
  <2>1. used < SUPPLY => PAGE_UNITS * used + PAGE_UNITS <= PAGE_UNITS * SUPPLY
    BY <1>2, PagesInOrder
  <2> QED
    BY <1>2, <2>1, HeapSizes DEF HeapEnd
<1>6. PAGE_UNITS * used = used * PAGE_UNITS
  BY <1>2
<1> QED
  BY <1>1, <1>2, <1>3, <1>4, <1>5, <1>6 DEF SamePage

LEMMA NatMin ==
    ASSUME NEW S \in SUBSET Nat, S # {}
    PROVE  \E x \in S : \A y \in S : x <= y
<1> DEFINE R == {ss \in Nat \X Nat : ss[1] < ss[2]}
<1>1. OpToRel(<, Nat) = R
  BY Zenon DEF OpToRel
<1>2. IsWellFoundedOn(R, Nat)
  BY <1>1, NatLessThanWellFounded, Zenon
<1> HIDE DEF R
<1>3. PICK x \in S : \A y \in S : ~ (<<y, x>> \in R)
  BY <1>2, WFMin, Zenon
<1>4. \A y, z \in Nat : y < z => <<y, z>> \in R
  BY DEF R
<1>5. ASSUME NEW y \in S PROVE x <= y
  <2>1. x \in Nat /\ y \in Nat
    OBVIOUS
  <2>2. ~(<<y, x>> \in R)
    BY <1>3, Zenon
  <2>3. ~(y < x)
    BY <1>4, <2>1, <2>2, Zenon
  <2> QED
    BY <2>1, <2>3
<1> QED
  BY <1>5

-----------------------------------------------------------------------------
(* The slots of the free list. *)

LEMMA ListFits == ASSUME NEW p, NEW n, FreeList(p, n) PROVE n \in 0 .. HeapEnd
<1>1. /\ n \in Nat /\ p \in [0 .. n -> Link] /\ \A i, j \in 0 .. n : p[i] = p[j] => i = j
  BY DEF FreeList
<1>2. IsFiniteSet(Link) /\ Cardinality(Link) = HeapEnd + 1
  BY HeapSizes, FS_Interval
<1>3. IsFiniteSet(0 .. n) /\ Cardinality(0 .. n) = n + 1
  BY <1>1, FS_Interval
<1>4. ~(Cardinality(Link) < Cardinality(0 .. n))
  BY <1>1, <1>2, <1>3, FS_PigeonHole
<1> QED
  BY <1>1, <1>2, <1>3, <1>4, HeapSizes

\* What the walk reaches in k steps are the first k slots of the list.
LEMMA SlotsOfList ==
    ASSUME NEW p, NEW n, FreeList(p, n)
    PROVE  FreeSlots = {p[i] : i \in 0 .. n} /\ LastSlot = p[n]
<1>1. /\ n \in Nat /\ n \in 0 .. HeapEnd /\ HeapEnd \in Nat /\ p \in [0 .. n -> Link] /\ p[0] = 0
      /\ \A i, j \in 0 .. n : p[i] = p[j] => i = j
      /\ \A i \in 0 .. n - 1 : next_free_block[p[i]] = p[i + 1]
      /\ next_free_block[p[n]] = NULL
  BY HeapSizes, ListFits DEF FreeList
<1> DEFINE K == HeapEnd
           first(k) == {p[i] : i \in {j \in 0 .. n : j <= k}}
           succ(r) == r \cup {next_free_block[x] : x \in r}
           R(g) == [k \in 0 .. K |-> IF k = 0 THEN {0} ELSE succ(g[k - 1])]
           W == [k \in 0 .. K |-> first(k)]
           reach == CHOOSE g : g = R(g)
<1>2. FreeSlots = reach[K]
  BY DEF FreeSlots, HeapEnd
<1>3. first(0) = {0}
  BY <1>1
<1>4. ASSUME NEW k \in 1 .. K PROVE first(k) = succ(first(k - 1))
  <2>1. ASSUME NEW x \in first(k) PROVE x \in succ(first(k - 1))
    <3>1. PICK i \in 0 .. n : i <= k /\ x = p[i]
      BY <2>1
    <3>2. CASE i <= k - 1
      BY <3>1, <3>2
    <3>3. CASE i > k - 1
      <4>1. /\ i - 1 \in 0 .. n - 1 /\ i - 1 \in 0 .. n /\ i - 1 <= k - 1
            /\ next_free_block[p[i - 1]] = p[(i - 1) + 1] /\ (i - 1) + 1 = i
        BY <1>1, <1>4, <3>1, <3>3
      <4>2. p[i - 1] \in first(k - 1)
        BY <4>1
      <4> QED
        BY <3>1, <4>1, <4>2
    <3> QED
      BY <1>4, <3>1, <3>2, <3>3
  <2>2. ASSUME NEW x \in succ(first(k - 1)) PROVE x \in first(k)
    <3>1. CASE x \in first(k - 1)
      BY <1>4, <3>1
    <3>2. CASE x \notin first(k - 1)
      <4>1. PICK i \in 0 .. n : i <= k - 1 /\ x = next_free_block[p[i]]
        BY <2>2, <3>2
      <4>2. CASE i = n
        <5>1. x = p[0]
          BY <1>1, <4>1, <4>2 DEF NULL
        <5>2. 0 \in 0 .. n /\ 0 <= k
          BY <1>1, <1>4
        <5> QED
          BY <5>1, <5>2
      <4>3. CASE i # n
        <5>1. i + 1 \in 0 .. n /\ i + 1 <= k /\ x = p[i + 1]
          BY <1>1, <1>4, <4>1, <4>3
        <5> QED
          BY <5>1
      <4> QED
        BY <4>2, <4>3
    <3> QED
      BY <3>1, <3>2
  <2> HIDE DEF first, succ
  <2> QED
    BY <2>1, <2>2
<1> HIDE DEF first, succ, K
<1>5. K \in Nat
  BY <1>1 DEF K
<1>6. W = R(W)
  <2>1. \A k \in 0 .. K : k # 0 => k - 1 \in 0 .. K
    BY <1>5
  <2> QED
    BY <1>3, <1>4, <1>5, <2>1
<1>7. reach = R(reach)
  <2> HIDE DEF R, W
  <2> QED
    BY <1>6
<1> HIDE DEF reach, W
<1>8. \A k \in 0 .. K : reach[k] = first(k)
  <2> DEFINE S == {k \in 0 .. K : reach[k] # first(k)}
  <2>1. SUFFICES ASSUME S # {} PROVE FALSE
    OBVIOUS
  <2>2. S \in SUBSET Nat
    BY <1>5
  <2>3. PICK k \in S : \A y \in S : k <= y
    <3> HIDE DEF S
    <3> QED
      BY <2>1, <2>2, NatMin
  <2>4. reach[k] = IF k = 0 THEN {0} ELSE succ(reach[k - 1])
    BY <1>7, <2>3
  <2>5. k # 0
    BY <1>3, <2>3, <2>4
  <2>6. k - 1 \in 0 .. K /\ k \in 1 .. K
    BY <1>5, <2>3, <2>5
  <2>7. reach[k - 1] = first(k - 1)
    BY <1>5, <2>3, <2>6
  <2> QED
    BY <1>4, <2>3, <2>4, <2>5, <2>6, <2>7
<1>9. FreeSlots = {p[i] : i \in 0 .. n}
  <2>1. first(K) = {p[i] : i \in 0 .. n}
    BY <1>1 DEF first, K
  <2> QED
    BY <1>2, <1>5, <1>8, <2>1
<1>10. \A s \in FreeSlots : next_free_block[s] = NULL <=> s = p[n]
  <2> SUFFICES ASSUME NEW i \in 0 .. n, next_free_block[p[i]] = NULL PROVE i = n
    BY <1>1, <1>9
  <2>1. SUFFICES ASSUME i # n PROVE FALSE
    OBVIOUS
  <2>2. i \in 0 .. n - 1 /\ i + 1 \in 0 .. n /\ 0 \in 0 .. n
    BY <1>1, <2>1
  <2>3. p[i + 1] = p[0]
    BY <1>1, <2>2 DEF NULL
  <2> QED
    BY <1>1, <2>2, <2>3
<1>11. LastSlot = p[n]
  <2>1. p[n] \in FreeSlots
    BY <1>1, <1>9
  <2> QED
    BY <1>10, <2>1 DEF LastSlot
<1> QED
  BY <1>9, <1>11

\* A block behind the last.
LEMMA ListAppended ==
    ASSUME NEW p, NEW n, FreeList(p, n), NEW b \in Units, \A i \in 0 .. n : p[i] # b,
           next_free_block'[b] = NULL, next_free_block'[p[n]] = b,
           \A x \in Link : x # b /\ x # p[n] => next_free_block'[x] = next_free_block[x]
    PROVE  LET q == [i \in 0 .. n + 1 |-> IF i <= n THEN p[i] ELSE b] IN FreeList(q, n + 1)'
<1>1. /\ n \in Nat /\ p \in [0 .. n -> Link] /\ p[0] = 0
      /\ \A i, j \in 0 .. n : p[i] = p[j] => i = j
      /\ \A i \in 0 .. n - 1 : next_free_block[p[i]] = p[i + 1]
  BY DEF FreeList
<1> DEFINE q == [i \in 0 .. n + 1 |-> IF i <= n THEN p[i] ELSE b]
<1>2. n + 1 \in Nat /\ \A i \in 0 .. n + 1 : i \in Int /\ (i <= n => i \in 0 .. n) /\ (i = n + 1 \/ i <= n)
  BY <1>1
<1>3. (\A i \in 0 .. n : q[i] = p[i]) /\ q[n + 1] = b
  BY <1>1
<1>4. q \in [0 .. n + 1 -> Link]
  BY <1>1, <1>2 DEF Link
<1> HIDE DEF q
<1>5. \A i, j \in 0 .. n + 1 : q[i] = q[j] => i = j
  BY <1>1, <1>2, <1>3
<1>6. b \in Link /\ p[n] \in Link /\ p[n] # b /\ n \in 0 .. n
  BY <1>1 DEF Link
<1>7. next_free_block'[b] = NULL /\ next_free_block'[p[n]] = b
  OBVIOUS
<1>8. \A i \in 0 .. n - 1 : next_free_block'[p[i]] = p[i + 1]
  <2> SUFFICES ASSUME NEW i \in 0 .. n - 1 PROVE next_free_block'[p[i]] = p[i + 1]
    OBVIOUS
  <2>1. i \in 0 .. n /\ i # n
    BY <1>1
  <2>2. p[i] \in Link /\ p[i] # p[n] /\ p[i] # b
    BY <1>1, <1>6, <2>1
  <2> QED
    BY <1>1, <2>2
<1>9. \A i \in 0 .. (n + 1) - 1 : next_free_block'[q[i]] = q[i + 1]
  <2> SUFFICES ASSUME NEW i \in 0 .. (n + 1) - 1 PROVE next_free_block'[q[i]] = q[i + 1]
    OBVIOUS
  <2>1. CASE i = n
    BY <1>3, <1>6, <1>7, <2>1
  <2>2. CASE i # n
    <3>1. i \in 0 .. n - 1 /\ i \in 0 .. n /\ i + 1 \in 0 .. n
      BY <1>1, <2>2
    <3> QED
      BY <1>3, <1>8, <3>1
  <2> QED
    BY <2>1, <2>2
<1>10. q[0] = 0
  BY <1>1, <1>3
<1> QED
  BY <1>2, <1>3, <1>4, <1>5, <1>7, <1>9, <1>10 DEF FreeList, q

\* The list ends at its j-th slot.
LEMMA ListCut ==
    ASSUME NEW p, NEW n, FreeList(p, n), NEW j \in 0 .. n,
           next_free_block'[p[j]] = NULL,
           \A i \in 0 .. n : i < j => next_free_block'[p[i]] = next_free_block[p[i]]
    PROVE  LET q == [i \in 0 .. j |-> p[i]] IN FreeList(q, j)'
<1>1. /\ n \in Nat /\ p \in [0 .. n -> Link] /\ p[0] = 0
      /\ \A i, k \in 0 .. n : p[i] = p[k] => i = k
      /\ \A i \in 0 .. n - 1 : next_free_block[p[i]] = p[i + 1]
  BY DEF FreeList
<1> DEFINE q == [i \in 0 .. j |-> p[i]]
<1>2. j \in Nat /\ 0 .. j \subseteq 0 .. n /\ 0 \in 0 .. j /\ j \in 0 .. j
  BY <1>1
<1>3. \A i \in 0 .. j : q[i] = p[i]
  OBVIOUS
<1>4. q \in [0 .. j -> Link] /\ q[0] = 0
  BY <1>1, <1>2
<1> HIDE DEF q
<1>5. \A i, k \in 0 .. j : q[i] = q[k] => i = k
  BY <1>1, <1>2, <1>3
<1>6. \A i \in 0 .. j - 1 : next_free_block'[q[i]] = q[i + 1]
  <2> SUFFICES ASSUME NEW i \in 0 .. j - 1 PROVE next_free_block'[q[i]] = q[i + 1]
    OBVIOUS
  <2>1. i \in 0 .. n /\ i < j /\ i \in 0 .. n - 1 /\ i \in 0 .. j /\ i + 1 \in 0 .. j
    BY <1>1
  <2> QED
    BY <1>1, <1>3, <2>1
<1>7. next_free_block'[q[j]] = NULL
  BY <1>2, <1>3
<1> QED
  BY <1>2, <1>4, <1>5, <1>6, <1>7 DEF FreeList, q

\* The j-th slot leaves the list.
LEMMA ListWithout ==
    ASSUME NEW p, NEW n, FreeList(p, n), next_free_block \in [Link -> Link],
           NEW j \in 1 .. n,
           next_free_block' = [next_free_block EXCEPT ![p[j - 1]] = next_free_block[p[j]]]
    PROVE  LET q == [i \in 0 .. n - 1 |-> IF i < j THEN p[i] ELSE p[i + 1]]
           IN  FreeList(q, n - 1)'
<1>1. /\ n \in Nat /\ p \in [0 .. n -> Link] /\ p[0] = 0
      /\ \A i, k \in 0 .. n : p[i] = p[k] => i = k
      /\ \A i \in 0 .. n - 1 : next_free_block[p[i]] = p[i + 1]
      /\ next_free_block[p[n]] = NULL
  BY DEF FreeList
<1> DEFINE q == [i \in 0 .. n - 1 |-> IF i < j THEN p[i] ELSE p[i + 1]]
<1>2. /\ n - 1 \in Nat /\ 0 \in 0 .. n - 1 /\ j - 1 \in 0 .. n /\ j \in 0 .. n /\ j - 1 \in 0 .. n - 1
      /\ \A i \in 0 .. n - 1 : i \in 0 .. n /\ i + 1 \in 0 .. n
  BY <1>1
<1>3. /\ \A i \in 0 .. n - 1 : i < j => q[i] = p[i]
      /\ \A i \in 0 .. n - 1 : ~(i < j) => q[i] = p[i + 1]
  OBVIOUS
<1>4. q \in [0 .. n - 1 -> Link] /\ q[0] = 0
  BY <1>1, <1>2
<1> HIDE DEF q
<1>5. \A i, k \in 0 .. n - 1 : q[i] = q[k] => i = k
  <2> SUFFICES ASSUME NEW i \in 0 .. n - 1, NEW k \in 0 .. n - 1, q[i] = q[k] PROVE i = k
    OBVIOUS
  <2> DEFINE at(x) == IF x < j THEN x ELSE x + 1
  <2>1. q[i] = p[at(i)] /\ q[k] = p[at(k)] /\ at(i) \in 0 .. n /\ at(k) \in 0 .. n
    BY <1>2, <1>3
  <2>2. at(i) = at(k)
    <3> HIDE DEF at
    <3> QED
      BY <1>1, <2>1
  <2> QED
    BY <2>2
<1>6. /\ next_free_block'[p[j - 1]] = next_free_block[p[j]]
      /\ \A i \in 0 .. n : i # j - 1 => next_free_block'[p[i]] = next_free_block[p[i]]
  <2>1. \A i \in 0 .. n : p[i] \in Link /\ (i # j - 1 => p[i] # p[j - 1])
    BY <1>1, <1>2
  <2> QED
    BY <1>2, <2>1
<1>7. \A i \in 0 .. (n - 1) - 1 : next_free_block'[q[i]] = q[i + 1]
  <2> SUFFICES ASSUME NEW i \in 0 .. (n - 1) - 1 PROVE next_free_block'[q[i]] = q[i + 1]
    OBVIOUS
  <2>1. i \in 0 .. n - 1 /\ i + 1 \in 0 .. n - 1 /\ i \in 0 .. n /\ i + 1 \in 0 .. n /\ i + 2 = (i + 1) + 1
    BY <1>1
  <2>2. CASE i < j - 1
    BY <1>1, <1>3, <1>6, <2>1, <2>2
  <2>3. CASE i = j - 1
    <3>1. q[i] = p[j - 1] /\ q[i + 1] = p[j + 1] /\ j \in 0 .. n - 1
      <4>1. i + 1 = j /\ i < j /\ ~(i + 1 < j) /\ (i + 1) + 1 = j + 1
        BY <2>3
      <4> QED
        BY <1>3, <2>1, <2>3, <4>1
    <3> QED
      BY <1>1, <1>6, <3>1
  <2>4. CASE i > j - 1
    <3>1. q[i] = p[i + 1] /\ q[i + 1] = p[(i + 1) + 1] /\ i + 1 # j - 1
      <4>1. ~(i < j) /\ ~(i + 1 < j)
        BY <2>4
      <4> QED
        BY <1>3, <2>1, <2>4, <4>1
    <3> QED
      BY <1>1, <1>6, <2>1, <3>1
  <2> QED
    BY <1>2, <2>1, <2>2, <2>3, <2>4
<1>8. next_free_block'[q[n - 1]] = NULL
  <2>1. n - 1 \in 0 .. n - 1 /\ (n - 1) + 1 = n /\ n \in 0 .. n
    BY <1>1
  <2>2. CASE n = j
    <3>1. q[n - 1] = p[j - 1]
      BY <1>3, <2>1, <2>2
    <3> QED
      BY <1>1, <1>6, <2>2, <3>1
  <2>3. CASE n # j
    <3>1. ~(n - 1 < j) /\ n # j - 1
      BY <1>1, <2>3
    <3>2. q[n - 1] = p[n]
      BY <1>3, <2>1, <3>1
    <3> QED
      BY <1>1, <1>6, <2>1, <3>1, <3>2
  <2> QED
    BY <2>2, <2>3
<1> QED
  BY <1>2, <1>4, <1>5, <1>7, <1>8 DEF FreeList, q

LEMMA ListKept ==
    ASSUME NEW p, NEW n, FreeList(p, n),
           \A i \in 0 .. n : next_free_block'[p[i]] = next_free_block[p[i]]
    PROVE  FreeList(p, n)'
BY DEF FreeList

-----------------------------------------------------------------------------
(* What callers own. *)

LEMMA Returned ==
    ASSUME Owned, DOMAIN live \subseteq [header : Units, units : Requests],
           NEW r \in [header : Units, units : Requests],
           \A b \in DOMAIN live : b.header # r.header,
           live' = live (+) SetToBag({r})
    PROVE  /\ DOMAIN live' = DOMAIN live \cup {r} /\ Owned'
           /\ DOMAIN live' \subseteq [header : Units, units : Requests]
<1>1. live' = [e \in DOMAIN live \cup {r} |->
                 (IF e \in DOMAIN live THEN live[e] ELSE 0) + (IF e \in {r} THEN 1 ELSE 0)]
  BY DEF SetToBag, (+)
<1>2. DOMAIN live' = DOMAIN live \cup {r}
  BY <1>1
<1>3. r \notin DOMAIN live
  OBVIOUS
<1>4. \A e \in DOMAIN live' : live'[e] = 1
  <2>1. live'[r] = 0 + 1
    BY <1>1, <1>3
  <2>2. \A e \in DOMAIN live : live'[e] = 1 + 0
    BY <1>1, <1>3 DEF Owned
  <2> QED
    BY <1>2, <2>1, <2>2
<1> QED
  BY <1>2, <1>4 DEF Owned

LEMMA GivenBack ==
    ASSUME Owned, NEW b \in DOMAIN live, live' = live (-) SetToBag({b})
    PROVE  DOMAIN live' = DOMAIN live \ {b} /\ Owned'
<1> DEFINE B == [e \in DOMAIN live |-> IF e \in {b} THEN live[e] - 1 ELSE live[e]]
<1>1. live' = [e \in {d \in DOMAIN B : B[d] > 0} |-> B[e]]
  BY DEF SetToBag, (-)
<1>2. /\ DOMAIN B = DOMAIN live /\ B[b] = 0
      /\ \A e \in DOMAIN live : e # b => B[e] = 1
  BY DEF Owned
<1> HIDE DEF B
<1>3. DOMAIN live' = DOMAIN live \ {b}
  BY <1>1, <1>2
<1>4. \A e \in DOMAIN live' : live'[e] = 1
  BY <1>1, <1>2, <1>3
<1> QED
  BY <1>3, <1>4 DEF Owned

-----------------------------------------------------------------------------
(* Where the blocks are. *)

LEMMA InPageWithin ==
    ASSUME used \in Nat, NEW first \in Int, NEW last \in Int, InPage(first, last),
           NEW a \in Int, NEW b \in Int, first <= a, b <= last
    PROVE  InPage(a, b)
<1>1. PICK page \in 0 .. used - 1 :
         PAGE_UNITS * page < first /\ last <= PAGE_UNITS * page + PAGE_UNITS
  BY DEF InPage
<1>2. PAGE_UNITS * page \in Nat /\ PAGE_UNITS \in Nat
  BY <1>1, HeapSizes, PagesInOrder
<1>3. PAGE_UNITS * page < a /\ b <= PAGE_UNITS * page + PAGE_UNITS
  BY <1>1, <1>2
<1> QED
  BY <1>3 DEF InPage

LEMMA TailPlace ==
    ASSUME BlockType, NEW headers, Shapes(headers), NEW h \in headers,
           NEW u \in Nat \ {0}, block_size[h] > u,
           NEW f, f = h + block_size[h] - u - 1
    PROVE  /\ f \in Units /\ f \in Nat /\ h <= f /\ f + u = h + block_size[h] - 1
           /\ (f # h => f \notin headers)
<1> DEFINE s == block_size[h]
<1>1. headers \subseteq Units /\ InPage(h, h + s) /\ Spaced(headers)
  BY DEF Shapes
<1>2. used \in 0 .. SUPPLY /\ block_size \in [Units -> Nat]
  BY DEF BlockType
<1>3. h \in Nat /\ s \in Nat /\ s > u
  BY <1>1, <1>2, HeapSizes
<1> HIDE DEF s
<1>4. f = h + s - u - 1 /\ f \in Nat /\ h <= f /\ f + u = h + s - 1 /\ f < h + s
  BY <1>3 DEF s
<1>5. h + s <= HeapEnd /\ 1 <= h
  BY <1>1, <1>2, <1>3, InPageFacts
<1>6. f \in Units
  BY <1>3, <1>4, <1>5, HeapSizes
<1>7. f # h => f \notin headers
  <2>1. SUFFICES ASSUME f # h, f \in headers PROVE FALSE
    OBVIOUS
  <2>2. h < f
    BY <1>3, <1>4, <2>1
  <2>3. h + s <= f + 1
    BY <1>1, <2>1, <2>2 DEF Spaced, s
  <2> QED
    BY <1>3, <1>4, <2>3
<1> QED
  BY <1>4, <1>6, <1>7 DEF s

\* The tail is a block of its own, or it is the whole block.
LEMMA TailShapes ==
    ASSUME BlockType, NEW headers, Shapes(headers), NEW h \in headers,
           NEW u \in Nat \ {0}, block_size[h] > u,
           NEW f, f = h + block_size[h] - u - 1,
           \A b \in DOMAIN live : b.header # h,
           block_size'[h] = (IF f = h THEN 0 ELSE block_size[h] - u),
           block_size'[f] = (IF f = h THEN 0 ELSE u),
           \A k \in Units : k # h /\ k # f => block_size'[k] = block_size[k],
           used' = used,
           NEW r, r.header = f, r.units = u, DOMAIN live' = DOMAIN live \cup {r}
    PROVE  Shapes(headers \cup {f})'
<1> DEFINE s == block_size[h]
           after == headers \cup {f}
<1>1. /\ headers \subseteq Units /\ \A k \in Units \ headers : block_size[k] = 0
      /\ \A k \in headers : InPage(k, k + block_size[k])
      /\ \A b \in DOMAIN live : b.header \in headers /\ InPage(b.header, b.header + b.units)
      /\ Spaced(headers)
  BY DEF Shapes
<1>2. /\ used \in 0 .. SUPPLY /\ used \in Nat /\ block_size \in [Units -> Nat]
      /\ \A b \in DOMAIN live : b.header \in Units /\ b.units \in Nat
  <2>1. used \in 0 .. SUPPLY /\ block_size \in [Units -> Nat]
    BY DEF BlockType
  <2>2. DOMAIN live \subseteq [header : Units, units : Requests] /\ Requests \subseteq Nat
    BY HeapSizes DEF BlockType
  <2>3. used \in Nat
    BY <2>1, HeapSizes
  <2> QED
    BY <2>1, <2>2, <2>3
<1>3. h \in Units /\ h \in Nat /\ s \in Nat /\ s > u /\ \A k \in Units : k \in Nat /\ block_size[k] \in Nat
  <2>1. \A k \in Units : k \in Nat /\ block_size[k] \in Nat
    BY <1>2, HeapSizes
  <2> QED
    BY <1>1, <2>1
<1> HIDE DEF s
<1>4. /\ f \in Units /\ f \in Nat /\ h <= f /\ f + u = h + s - 1 /\ f < h + s
      /\ (f # h => f \notin headers)
  <2>1. f \in Units /\ f \in Nat /\ h <= f /\ f + u = h + s - 1 /\ (f # h => f \notin headers)
    BY TailPlace DEF s
  <2> QED
    BY <1>3, <2>1
<1>5. InPage(h, h + s)
  BY <1>1 DEF s
<1>6. f \in Units
  BY <1>4
<1>7. \A k \in headers : h < k => h + s <= k + 1
  BY <1>1 DEF Spaced, s
<1>8. f # h => f \notin headers
  BY <1>4
<1>9. /\ block_size'[h] = IF f = h THEN 0 ELSE s - u
      /\ block_size'[f] = IF f = h THEN 0 ELSE u
      /\ \A k \in Units : k # h /\ k # f => block_size'[k] = block_size[k]
  BY DEF s
<1>10. block_size'[h] \in Nat /\ block_size'[f] \in Nat
  <2>1. s - u \in Nat
    BY <1>3
  <2> QED
    BY <1>9, <2>1
<1>11. r.header = f /\ r.units = u /\ DOMAIN live' = DOMAIN live \cup {r}
  OBVIOUS
<1>12. \A k \in after : InPage(k, k + block_size'[k])
  <2> SUFFICES ASSUME NEW k \in after PROVE InPage(k, k + block_size'[k])
    OBVIOUS
  <2>1. CASE k = h \/ k = f
    <3>1. k \in Nat /\ block_size'[k] \in Nat /\ h <= k
      BY <1>3, <1>4, <1>10, <2>1
    <3>2. k + block_size'[k] <= h + s
      <4>1. CASE k = h
        BY <1>3, <1>9, <4>1
      <4>2. CASE k = f
        BY <1>3, <1>4, <1>9, <4>2
      <4> QED
        BY <2>1, <4>1, <4>2
    <3> QED
      BY <1>2, <1>3, <1>5, <3>1, <3>2, InPageWithin
  <2>2. CASE k # h /\ k # f
    <3>1. k \in Units /\ block_size'[k] = block_size[k] /\ InPage(k, k + block_size[k])
      BY <1>1, <1>9, <2>2
    <3> QED
      BY <3>1
  <2> QED
    BY <2>1, <2>2
<1>13. \A b \in DOMAIN live' : b.header \in after /\ InPage(b.header, b.header + b.units)
  <2> SUFFICES ASSUME NEW b \in DOMAIN live'
               PROVE  b.header \in after /\ InPage(b.header, b.header + b.units)
    OBVIOUS
  <2>1. CASE b \in DOMAIN live
    BY <1>1, <2>1
  <2>2. CASE b = r
    <3>1. h <= f /\ f + u <= h + s /\ f \in Int /\ f + u \in Int
      BY <1>3, <1>4
    <3>2. InPage(f, f + u)
      BY <1>2, <1>3, <1>5, <3>1, InPageWithin
    <3> QED
      BY <1>11, <2>2, <3>2
  <2> QED
    BY <1>11, <2>1, <2>2
<1>14. Spaced(after)'
  <2> SUFFICES ASSUME NEW g \in after, NEW k \in after, g < k
               PROVE  /\ g + block_size'[g] <= k + 1
                      /\ \A b \in DOMAIN live' : b.header = g => g + b.units <= k + 1
    BY DEF Spaced
  <2>1. g \in Nat /\ k \in Nat /\ (k \in headers \/ k = f)
    BY <1>1, <1>3, <1>4
  <2>2. k \in headers /\ h < k => h + s <= k + 1
    BY <1>7
  <2>3. CASE g = f
    <3>1. k \in headers /\ h < k
      BY <1>3, <1>4, <2>1, <2>3
    <3>2. f + u <= k + 1 /\ f <= k + 1
      BY <1>3, <1>4, <2>1, <2>2, <3>1
    <3>3. \A b \in DOMAIN live : b.header # f
      BY <1>1, <1>8
    <3> QED
      BY <1>3, <1>4, <1>9, <1>11, <2>3, <3>2, <3>3
  <2>4. CASE g = h /\ f # h
    <3>1. \A b \in DOMAIN live' : b.header # h
      BY <1>11, <2>4
    <3>2. h + (s - u) <= k + 1
      <4>1. CASE k = f
        BY <1>3, <1>4, <4>1
      <4>2. CASE k \in headers
        BY <1>3, <2>1, <2>2, <2>4, <4>2
      <4> QED
        BY <2>1, <4>1, <4>2
    <3> QED
      BY <1>9, <2>4, <3>1, <3>2
  <2>5. CASE g # h /\ g # f
    <3>1. g \in headers /\ g \in Units /\ block_size'[g] = block_size[g] /\ block_size[g] \in Nat
      BY <1>1, <1>3, <1>9, <2>5
    <3>2. \A b \in DOMAIN live' : b.header = g => b \in DOMAIN live
      BY <1>11, <2>5
    <3>3. \A m \in headers : g < m =>
             /\ g + block_size[g] <= m + 1
             /\ \A b \in DOMAIN live : b.header = g => g + b.units <= m + 1
      BY <1>1, <3>1 DEF Spaced
    <3>4. CASE k \in headers
      BY <3>1, <3>2, <3>3, <3>4
    <3>5. CASE k \notin headers
      <4>1. k = f
        BY <2>1, <3>5
      <4>2. g < h
        <5>1. SUFFICES ASSUME h < g PROVE FALSE
          BY <1>3, <2>1, <2>5
        <5>2. h + s <= g + 1
          BY <1>7, <3>1, <5>1
        <5> QED
          BY <1>3, <1>4, <2>1, <4>1, <5>2
      <4>3. g + block_size[g] <= h + 1 /\ \A b \in DOMAIN live : b.header = g => g + b.units <= h + 1
        BY <3>3, <4>2
      <4>4. g + block_size[g] <= f + 1
        BY <1>3, <1>4, <2>1, <3>1, <4>3
      <4>5. \A b \in DOMAIN live : b.header = g => g + b.units <= f + 1
        BY <1>2, <1>3, <1>4, <2>1, <4>3
      <4> QED
        BY <3>1, <3>2, <4>1, <4>4, <4>5
    <3> QED
      BY <3>4, <3>5
  <2> QED
    BY <2>3, <2>4, <2>5
<1>15. after \subseteq Units /\ \A k \in Units \ after : block_size'[k] = 0
  BY <1>1, <1>6, <1>9
<1>16. Shapes(after)'
  BY <1>12, <1>13, <1>14, <1>15 DEF Shapes, InPage
<1> QED
  BY <1>16

\* A fresh page behind the others is one block.
LEMMA PageShapes ==
    ASSUME BlockType, NEW headers, Shapes(headers), used + 1 <= SUPPLY,
           NEW b, b = used * PAGE_UNITS + 1,
           block_size' = [block_size EXCEPT ![b] = PAGE_UNITS - 1],
           used' = used + 1, live' = live
    PROVE  /\ b \in Units /\ b \notin headers
           /\ block_size' \in [Units -> Nat]
           /\ \A k \in Units : k # b => block_size'[k] = block_size[k]
           /\ Shapes(headers \cup {b})'
<1> DEFINE after == headers \cup {b}
<1>1. /\ headers \subseteq Units /\ \A k \in Units \ headers : block_size[k] = 0
      /\ \A k \in headers : InPage(k, k + block_size[k])
      /\ \A c \in DOMAIN live : c.header \in headers /\ InPage(c.header, c.header + c.units)
      /\ Spaced(headers)
  BY DEF Shapes
<1>2. used \in 0 .. SUPPLY /\ used \in Nat /\ block_size \in [Units -> Nat]
  BY HeapSizes DEF BlockType
<1>3. DOMAIN live \subseteq [header : Units, units : Requests] /\ Requests \subseteq Nat
  BY HeapSizes DEF BlockType
<1>4. \A k \in Units : k \in Nat /\ block_size[k] \in Nat
  BY <1>2, HeapSizes
<1>5. PAGE_UNITS * used \in Nat /\ b = PAGE_UNITS * used + 1 /\ PAGE_UNITS \in Nat /\ PAGE_UNITS > 0
  <2>1. PAGE_UNITS * used = used * PAGE_UNITS
    BY <1>2, HeapSizes
  <2> QED
    BY <1>2, <2>1, HeapSizes, PagesInOrder
<1>6. b \in Units
  <2>1. PAGE_UNITS * used + PAGE_UNITS <= HeapEnd
    BY <1>2, HeapSizes, PagesInOrder DEF HeapEnd
  <2> QED
    BY <1>5, <2>1, HeapSizes
<1>7. /\ block_size'[b] = PAGE_UNITS - 1
      /\ \A k \in Units : k # b => block_size'[k] = block_size[k]
  BY <1>2, <1>6
<1>8. block_size' \in [Units -> Nat]
  <2>1. PAGE_UNITS - 1 \in Nat
    BY <1>5
  <2> QED
    BY <1>2, <2>1
<1>9. ASSUME NEW h \in headers
      PROVE  h + block_size[h] < b /\ h \in Nat /\ h < b /\ block_size[h] \in Nat
  <2>1. h \in Nat /\ block_size[h] \in Nat /\ InPage(h, h + block_size[h])
    BY <1>1, <1>4
  <2>2. h + block_size[h] <= used * PAGE_UNITS
    BY <1>2, <2>1, InPageFacts
  <2> QED
    BY <1>2, <1>5, <2>1, <2>2
<1>10. ASSUME NEW c \in DOMAIN live PROVE c.header + c.units < b
  <2>1. c.header \in Nat /\ c.units \in Nat /\ InPage(c.header, c.header + c.units)
    BY <1>1, <1>3, <1>4
  <2>2. c.header + c.units <= used * PAGE_UNITS
    BY <1>2, <2>1, InPageFacts
  <2> QED
    BY <1>2, <1>5, <2>1, <2>2
<1>11. b \notin headers
  BY <1>5, <1>9
<1>12. \A x, y : InPage(x, y) => InPage(x, y)'
  <2>1. \A page \in 0 .. used - 1 : page \in 0 .. used' - 1
    BY <1>2
  <2> QED
    BY <2>1 DEF InPage
<1>13. \A k \in headers : InPage(k, k + block_size[k])'
  <2> SUFFICES ASSUME NEW k \in headers PROVE InPage(k, k + block_size[k])'
    OBVIOUS
  <2>1. block_size'[k] = block_size[k] /\ InPage(k, k + block_size[k])
    BY <1>1, <1>7, <1>11
  <2>2. PICK page \in 0 .. used - 1 :
           PAGE_UNITS * page < k /\ k + block_size[k] <= PAGE_UNITS * page + PAGE_UNITS
    BY <2>1 DEF InPage
  <2>3. page \in 0 .. used' - 1
    BY <1>2
  <2> QED
    BY <2>1, <2>2, <2>3 DEF InPage
<1>14. InPage(b, b + block_size[b])'
  <2>1. used \in 0 .. used' - 1 /\ b + block_size'[b] = PAGE_UNITS * used + PAGE_UNITS
    BY <1>2, <1>5, <1>7
  <2>2. PAGE_UNITS * used < b /\ b + block_size'[b] <= PAGE_UNITS * used + PAGE_UNITS
    BY <1>5, <2>1
  <2> QED
    BY <2>1, <2>2 DEF InPage
<1>15. Spaced(after)'
  <2> SUFFICES ASSUME NEW g \in after, NEW k \in after, g < k
               PROVE  /\ g + block_size'[g] <= k + 1
                      /\ \A c \in DOMAIN live : c.header = g => g + c.units <= k + 1
    BY DEF Spaced
  <2>1. g \in headers /\ g \in Units /\ block_size'[g] = block_size[g]
    <3>1. CASE g = b
      BY <1>5, <1>9, <3>1
    <3>2. CASE g # b
      BY <1>1, <1>7, <3>2
    <3> QED
      BY <3>1, <3>2
  <2>2. CASE k \in headers
    BY <1>1, <2>1, <2>2 DEF Spaced
  <2>3. CASE k = b
    <3>1. g + block_size[g] <= b + 1
      BY <1>5, <1>9, <2>1
    <3>2. \A c \in DOMAIN live : c.header = g => g + c.units <= b + 1
      <4> SUFFICES ASSUME NEW c \in DOMAIN live, c.header = g PROVE g + c.units <= b + 1
        OBVIOUS
      <4>1. g \in Nat /\ c.units \in Nat /\ g + c.units < b
        BY <1>3, <1>4, <1>10, <2>1
      <4> QED
        BY <1>5, <4>1
    <3> QED
      BY <2>1, <2>3, <3>1, <3>2
  <2> QED
    BY <2>2, <2>3
<1>16. \A c \in DOMAIN live' : c.header \in after /\ InPage(c.header, c.header + c.units)'
  BY <1>1, <1>12
<1>17. after \subseteq Units /\ \A k \in Units \ after : block_size'[k] = 0
  BY <1>1, <1>6, <1>7
<1>18. Shapes(after)'
  BY <1>13, <1>14, <1>15, <1>16, <1>17 DEF Shapes
<1> QED
  BY <1>6, <1>7, <1>8, <1>11, <1>18

-----------------------------------------------------------------------------
(* The steps keep the layout. *)

LEMMA BlockInit == KInit => BlockInv
<1> SUFFICES ASSUME KInit PROVE BlockInv
  OBVIOUS
<1>1. /\ next_free_block = [u \in Link |-> NULL] /\ block_size = [u \in Units |-> 0]
      /\ current = 0 /\ units = Idle /\ used = 0 /\ DOMAIN live = {}
  BY DEF KInit, Link, NULL, EmptyBag, SetToBag
<1>2. BlockType /\ Owned
  BY <1>1, HeapSizes DEF BlockType, Owned, Link
<1> DEFINE p == [i \in 0 .. 0 |-> 0]
<1>3. p \in [0 .. 0 -> Link] /\ p[0] = 0 /\ \A i \in 0 .. 0 : i = 0
  BY DEF Link, NULL
<1>4. FreeList(p, 0)
  BY <1>1, <1>3 DEF FreeList, Link, NULL
<1>5. Shapes({}) /\ OnList(p, 0, {}) /\ Scanning(p, 0)
  BY <1>1, <1>3 DEF Shapes, Spaced, OnList, Scanning
<1> QED
  BY <1>2, <1>3, <1>4, <1>5 DEF BlockInv, Layout

\* The block the scan looks at is on the list, behind the slot it has reached.
LEMMA ScanAt ==
    ASSUME NEW p, NEW n, NEW headers, Layout(p, n, headers), Scanning(p, n), block # NULL
    PROVE  \E j \in 1 .. n : /\ current = p[j - 1] /\ block = p[j] /\ p[j] \in headers
                             /\ \A b \in DOMAIN live : b.header = p[j] => block_size[p[j]] = 0
<1>1. PICK i \in 0 .. n : current = p[i]
  BY DEF Scanning
<1>2. /\ n \in Nat /\ \A k \in 0 .. n - 1 : next_free_block[p[k]] = p[k + 1]
      /\ next_free_block[p[n]] = NULL
      /\ p[0] = 0 /\ \A k, m \in 0 .. n : p[k] = p[m] => k = m
  BY DEF Layout, FreeList
<1>3. i # n
  BY <1>1, <1>2 DEF block
<1>4. i + 1 \in 1 .. n /\ (i + 1) - 1 = i /\ i \in 0 .. n - 1 /\ i + 1 \in 0 .. n /\ 0 \in 0 .. n
  BY <1>1, <1>2, <1>3
<1>5. current = p[(i + 1) - 1] /\ block = p[i + 1]
  BY <1>1, <1>2, <1>4 DEF block
<1>6. p[i + 1] \in headers
  BY <1>2, <1>4 DEF Layout, OnList
<1>7. \A b \in DOMAIN live : b.header = p[i + 1] => block_size[p[i + 1]] = 0
  BY <1>4 DEF Layout, OnList
<1> QED
  BY <1>4, <1>5, <1>6, <1>7

LEMMA BlockTail ==
    ASSUME BlockType, Owned, NEW p, NEW n, NEW headers,
           Layout(p, n, headers), Scanning(p, n), take_tail
    PROVE  /\ BlockInv'
           /\ \A b \in DOMAIN live : block_size'[b.header] = block_size[b.header]
<1>1. PICK j \in 1 .. n : /\ block = p[j] /\ p[j] \in headers
                          /\ \A b \in DOMAIN live : b.header = p[j] => block_size[p[j]] = 0
  <2>1. block # NULL
    BY DEF take_tail
  <2> QED
    BY <2>1, ScanAt
<1> DEFINE h == p[j]
<1>02. PICK u : u = units
  OBVIOUS
<1>03. PICK f : f = h + block_size[h] - u - 1
  OBVIOUS
<1> DEFINE r == [header |-> f, units |-> u]
<1>2. /\ block_size[h] > u /\ u # Idle
      /\ next_free_block' = [next_free_block EXCEPT ![f] = NULL]
      /\ block_size' = [[block_size EXCEPT ![f] = u] EXCEPT ![h] = @ - u]
      /\ live' = live (+) SetToBag({r}) /\ units' = Idle /\ current' = 0 /\ used' = used
  BY <1>1, <1>02, <1>03 DEF take_tail, Return
<1>3. /\ FreeList(p, n) /\ Shapes(headers) /\ OnList(p, n, headers) /\ h \in headers /\ h \in Units
      /\ n \in Nat /\ p \in [0 .. n -> Link] /\ \A k, m \in 0 .. n : p[k] = p[m] => k = m
      /\ headers \subseteq Units /\ p[0] = 0
  BY <1>1 DEF Layout, Shapes, FreeList
<1>4. u \in Requests /\ u \in Nat \ {0}
  BY <1>2, <1>02, HeapSizes DEF BlockType
<1>5. \A b \in DOMAIN live : b.header # h
  <2>1. block_size[h] # 0
    BY <1>2, <1>3, <1>4, HeapSizes DEF BlockType
  <2> QED
    BY <1>1, <2>1
<1>6. f = h + block_size[h] - u - 1
  BY <1>03
<1> HIDE DEF h
<1>7. f \in Units /\ (f # h => f \notin headers)
  BY <1>2, <1>3, <1>4, <1>6, TailPlace
<1>8. \A b \in DOMAIN live : b.header # f
  BY <1>3, <1>5, <1>7 DEF Shapes
<1>9. /\ r \in [header : Units, units : Requests] /\ r.header = f
  BY <1>4, <1>7
<1>10. /\ DOMAIN live' = DOMAIN live \cup {r} /\ Owned'
       /\ DOMAIN live' \subseteq [header : Units, units : Requests]
  <2>1. DOMAIN live \subseteq [header : Units, units : Requests]
    BY DEF BlockType
  <2> HIDE DEF r
  <2> QED
    BY <1>2, <1>8, <1>9, <2>1, Returned
<1>11. /\ block_size' \in [Units -> Nat] /\ (f = h => block_size'[h] = 0)
       /\ \A k \in Units : k # h /\ k # f => block_size'[k] = block_size[k]
       /\ Shapes(headers \cup {f})'
  <2>1. block_size \in [Units -> Nat] /\ block_size[h] \in Nat /\ block_size[h] - u \in Nat
    BY <1>2, <1>3, <1>4 DEF BlockType
  <2>2. /\ block_size'[h] = IF f = h THEN 0 ELSE block_size[h] - u
        /\ block_size'[f] = IF f = h THEN 0 ELSE u
        /\ \A k \in Units : k # h /\ k # f => block_size'[k] = block_size[k]
        /\ block_size' = [k \in Units |-> block_size'[k]]
    <3>1. block_size' = [[block_size EXCEPT ![f] = u] EXCEPT ![h] = @ - u] /\ h \in Units /\ f \in Units
      BY <1>2, <1>3, <1>7
    <3>2. CASE f = h
      <4>1. block_size'[h] = u - u
        BY <2>1, <3>1, <3>2
      <4>2. u - u = 0
        BY <1>4
      <4> QED
        BY <2>1, <3>1, <3>2, <4>1, <4>2
    <3>3. CASE f # h
      BY <2>1, <3>1, <3>3
    <3> QED
      BY <3>2, <3>3
  <2>3. ASSUME NEW k \in Units PROVE block_size'[k] \in Nat
    <3>1. CASE k # h /\ k # f
      BY <2>1, <2>2, <3>1
    <3>2. CASE k = h
      BY <2>1, <2>2, <3>2
    <3>3. CASE k = f
      BY <1>4, <2>2, <3>3
    <3> QED
      BY <3>1, <3>2, <3>3
  <2>4. block_size' \in [Units -> Nat]
    BY <2>2, <2>3
  <2>5. r.header = f /\ r.units = u
    OBVIOUS
  <2> HIDE DEF r
  <2>6. Shapes(headers \cup {f})'
    <3>1. h \in headers /\ Shapes(headers) /\ u \in Nat \ {0} /\ block_size[h] > u /\ used' = used
      BY <1>2, <1>3, <1>4
    <3> QED
      BY <1>5, <1>6, <1>10, <2>2, <2>5, <3>1, TailShapes
  <2> QED
    BY <2>2, <2>4, <2>6
<1> HIDE DEF r
<1>12. BlockType'
  <2>1. next_free_block' \in [Link -> Link]
    BY <1>2 DEF BlockType, Link
  <2> QED
    BY <1>2, <1>10, <1>11, <2>1 DEF BlockType
<1>13. /\ f \in Link /\ next_free_block'[f] = NULL
       /\ \A x \in Link : x # f => next_free_block'[x] = next_free_block[x]
  BY <1>2, <1>7 DEF BlockType, Link
<1>14. \A b \in DOMAIN live : block_size'[b.header] = block_size[b.header]
  <2>1. \A b \in DOMAIN live : b.header \in Units
    BY DEF BlockType
  <2> QED
    BY <1>5, <1>8, <1>11, <2>1
<1>15. \A i \in 0 .. n : /\ p[i] \in headers \cup {0}
                         /\ \A b \in DOMAIN live : p[i] = b.header => block_size[p[i]] = 0
  BY <1>3 DEF OnList
<1>16. CASE f # h
  <2>1. \A i \in 0 .. n : p[i] # f /\ p[i] \in Link
    BY <1>3, <1>7, <1>15, <1>16, HeapSizes
  <2>2. FreeList(p, n)'
    BY <1>3, <1>13, <2>1, ListKept
  <2>3. OnList(p, n, headers \cup {f})'
    <3> SUFFICES ASSUME NEW i \in 0 .. n
                 PROVE  /\ p[i] \in headers \cup {f} \cup {0}
                        /\ \A b \in DOMAIN live' : p[i] = b.header => block_size'[p[i]] = 0
      BY DEF OnList
    <3>1. ASSUME NEW b \in DOMAIN live', p[i] = b.header PROVE block_size'[p[i]] = 0
      <4>1. b \in DOMAIN live
        BY <1>9, <1>10, <2>1, <3>1
      <4> QED
        BY <1>14, <1>15, <3>1, <4>1
    <3> QED
      BY <1>15, <3>1
  <2>4. Scanning(p, n)'
    BY <1>2, <1>3 DEF Scanning
  <2>5. headers \cup {f} \in SUBSET Units
    BY <1>3, <1>7
  <2> QED
    BY <1>3, <1>10, <1>11, <1>12, <1>14, <2>2, <2>3, <2>4, <2>5 DEF BlockInv, Layout
<1>17. CASE f = h
  <2> DEFINE q == [i \in 0 .. j |-> p[i]]
  <2>1. j \in 0 .. n /\ j \in Nat /\ 0 \in 0 .. j /\ 0 .. j \subseteq 0 .. n
    BY <1>3
  <2>2. FreeList(q, j)'
    <3>1. \A i \in 0 .. n : i < j => p[i] # f /\ p[i] \in Link
      BY <1>3, <1>17, <2>1 DEF h
    <3> QED
      BY <1>3, <1>13, <1>17, <2>1, <3>1, ListCut DEF h
  <2>3. (\A i \in 0 .. j : q[i] = p[i]) /\ q \in [0 .. j -> Link]
    BY <1>3, <2>1
  <2> HIDE DEF q
  <2>4. OnList(q, j, headers \cup {f})'
    <3> SUFFICES ASSUME NEW i \in 0 .. j
                 PROVE  /\ q[i] \in headers \cup {f} \cup {0}
                        /\ \A b \in DOMAIN live' : q[i] = b.header => block_size'[q[i]] = 0
      BY DEF OnList
    <3>1. q[i] = p[i] /\ i \in 0 .. n
      BY <2>1, <2>3
    <3>2. ASSUME NEW b \in DOMAIN live', p[i] = b.header PROVE block_size'[p[i]] = 0
      <4>1. CASE b = r
        BY <1>9, <1>11, <1>17, <3>2, <4>1
      <4>2. CASE b \in DOMAIN live
        BY <1>14, <1>15, <3>1, <3>2, <4>2
      <4> QED
        BY <1>10, <4>1, <4>2
    <3> QED
      BY <1>15, <3>1, <3>2
  <2>5. Scanning(q, j)'
    BY <1>2, <1>3, <2>1, <2>3 DEF Scanning
  <2>6. headers \cup {f} \in SUBSET Units
    BY <1>3, <1>7
  <2> QED
    BY <1>10, <1>11, <1>12, <1>14, <2>1, <2>2, <2>3, <2>4, <2>5, <2>6 DEF BlockInv, Layout
<1> QED
  BY <1>16, <1>17

LEMMA BlockWhole ==
    ASSUME BlockType, Owned, NEW p, NEW n, NEW headers,
           Layout(p, n, headers), Scanning(p, n), take_whole
    PROVE  BlockInv'
<1>1. PICK j \in 1 .. n : /\ current = p[j - 1] /\ block = p[j] /\ p[j] \in headers
                          /\ \A b \in DOMAIN live : b.header = p[j] => block_size[p[j]] = 0
  <2>1. block # NULL
    BY DEF take_whole
  <2> QED
    BY <2>1, ScanAt
<1> DEFINE h == p[j]
<1>2. PICK u : u = units
  OBVIOUS
<1> DEFINE r == [header |-> h, units |-> u]
           q == [i \in 0 .. n - 1 |-> IF i < j THEN p[i] ELSE p[i + 1]]
<1>3. /\ block_size[h] = u /\ u # Idle
      /\ next_free_block' = [next_free_block EXCEPT ![p[j - 1]] = next_free_block[p[j]]]
      /\ block_size' = block_size
      /\ live' = live (+) SetToBag({r}) /\ units' = Idle /\ current' = 0 /\ used' = used
  BY <1>1, <1>2 DEF take_whole, Return
<1>4. /\ FreeList(p, n) /\ Shapes(headers) /\ h \in headers /\ headers \subseteq Units /\ h \in Units
      /\ n \in Nat /\ p \in [0 .. n -> Link] /\ \A k, m \in 0 .. n : p[k] = p[m] => k = m
      /\ p[0] = 0
  BY <1>1 DEF Layout, Shapes, FreeList
<1>5. u \in Requests /\ u # 0
  BY <1>2, <1>3, HeapSizes DEF BlockType, Idle
<1>6. \A b \in DOMAIN live : b.header # h
  BY <1>1, <1>3, <1>5
<1>7. r \in [header : Units, units : Requests] /\ r.header = h /\ r.units = u
  BY <1>4, <1>5
<1>8. /\ DOMAIN live' = DOMAIN live \cup {r} /\ Owned'
      /\ DOMAIN live' \subseteq [header : Units, units : Requests]
  <2>1. DOMAIN live \subseteq [header : Units, units : Requests]
    BY DEF BlockType
  <2> HIDE DEF r, h
  <2> QED
    BY <1>3, <1>6, <1>7, <2>1, Returned
<1> HIDE DEF r
<1>9. FreeList(q, n - 1)'
  <2>1. next_free_block \in [Link -> Link]
    BY DEF BlockType
  <2> QED
    BY <1>3, <1>4, <2>1, ListWithout
<1>10. /\ n - 1 \in Nat /\ 0 \in 0 .. n - 1 /\ j \in 0 .. n
       /\ \A i \in 0 .. n - 1 : \E k \in 0 .. n : k # j /\ q[i] = p[k]
  <2>1. n - 1 \in Nat /\ 0 \in 0 .. n - 1 /\ j \in 0 .. n
    BY <1>4
  <2>2. ASSUME NEW i \in 0 .. n - 1 PROVE \E k \in 0 .. n : k # j /\ q[i] = p[k]
    <3>1. CASE i < j
      <4>1. i \in 0 .. n /\ i # j /\ q[i] = p[i]
        BY <1>4, <3>1
      <4> QED
        BY <4>1
    <3>2. CASE ~(i < j)
      <4>1. i + 1 \in 0 .. n /\ i + 1 # j /\ q[i] = p[i + 1]
        BY <1>4, <3>2
      <4> QED
        BY <4>1
    <3> QED
      BY <3>1, <3>2
  <2> QED
    BY <2>1, <2>2
<1>11. q \in [0 .. n - 1 -> Link] /\ q[0] = 0
  BY <1>9 DEF FreeList
<1> HIDE DEF q
<1>12. OnList(q, n - 1, headers)'
  <2> SUFFICES ASSUME NEW i \in 0 .. n - 1
               PROVE  /\ q[i] \in headers \cup {0}
                      /\ \A b \in DOMAIN live' : q[i] = b.header => block_size'[q[i]] = 0
    BY DEF OnList
  <2>1. PICK k \in 0 .. n : k # j /\ q[i] = p[k]
    BY <1>10
  <2>2. p[k] # h
    BY <1>4, <1>10, <2>1
  <2>3. /\ p[k] \in headers \cup {0}
        /\ \A b \in DOMAIN live : p[k] = b.header => block_size[p[k]] = 0
    BY DEF Layout, OnList
  <2> QED
    BY <1>3, <1>7, <1>8, <2>1, <2>2, <2>3
<1>13. Shapes(headers)'
  <2>1. /\ \A k \in Units \ headers : block_size[k] = 0
        /\ \A k \in headers : InPage(k, k + block_size[k])
        /\ \A b \in DOMAIN live : b.header \in headers /\ InPage(b.header, b.header + b.units)
        /\ Spaced(headers)
    BY DEF Layout, Shapes
  <2>2. \A x, y : InPage(x, y)' <=> InPage(x, y)
    BY <1>3 DEF InPage
  <2>3. ASSUME NEW b \in DOMAIN live'
        PROVE  b.header \in headers /\ InPage(b.header, b.header + b.units)
    <3>1. CASE b = r
      BY <1>3, <1>4, <1>7, <2>1, <3>1
    <3>2. CASE b \in DOMAIN live
      BY <2>1, <3>2
    <3> QED
      BY <1>8, <3>1, <3>2
  <2>4. ASSUME NEW g \in headers, NEW k \in headers, g < k
        PROVE  /\ g + block_size[g] <= k + 1
               /\ \A b \in DOMAIN live' : b.header = g => g + b.units <= k + 1
    <3>1. /\ g + block_size[g] <= k + 1
          /\ \A b \in DOMAIN live : b.header = g => g + b.units <= k + 1
      BY <2>1, <2>4 DEF Spaced
    <3> QED
      BY <1>3, <1>7, <1>8, <3>1
  <2>5. Spaced(headers)'
    BY <1>3, <2>4 DEF Spaced
  <2> QED
    BY <1>3, <1>4, <2>1, <2>2, <2>3, <2>5 DEF Shapes
<1>14. BlockType'
  <2>1. next_free_block' \in [Link -> Link]
    <3>1. p[j - 1] \in Link /\ next_free_block[p[j]] \in Link
      BY <1>4 DEF BlockType
    <3> QED
      BY <1>3, <3>1 DEF BlockType
  <2> QED
    BY <1>3, <1>8, <2>1 DEF BlockType
<1>15. Scanning(q, n - 1)'
  BY <1>3, <1>10, <1>11 DEF Scanning
<1>16. headers \in SUBSET Units
  BY <1>4
<1> QED
  BY <1>8, <1>9, <1>10, <1>11, <1>12, <1>13, <1>14, <1>15, <1>16 DEF BlockInv, Layout

LEMMA BlockGrow ==
    ASSUME BlockType, Owned, NEW p, NEW n, NEW headers,
           Layout(p, n, headers), Scanning(p, n), increase_heap_size
    PROVE  /\ BlockInv'
           /\ \A b \in DOMAIN live : block_size'[b.header] = block_size[b.header]
<1>1. num_pages = 1 /\ units # Idle
  <2>1. units \in 1 .. (8 * PAGE_UNITS - 1) /\ units # Idle
    BY UnitsAssumption DEF increase_heap_size, BlockType
  <2>2. \A w \in Nat \ {0} : \A x \in 1 .. w - 1 : x \div w = 0
    OBVIOUS
  <2>3. 8 * PAGE_UNITS \in Nat \ {0}
    BY HeapSizes
  <2>4. units \div (8 * PAGE_UNITS) = 0
    BY <2>1, <2>2, <2>3
  <2> QED
    BY <2>1, <2>4 DEF num_pages
<1>2. PICK b : b = used * PAGE_UNITS + 1
  OBVIOUS
<1>3. /\ FreeList(p, n) /\ Shapes(headers) /\ OnList(p, n, headers) /\ headers \subseteq Units
      /\ n \in Nat /\ p \in [0 .. n -> Link] /\ LastSlot = p[n]
  BY SlotsOfList DEF Layout, Shapes, FreeList
<1>4. /\ used + 1 <= SUPPLY /\ used' = used + 1
      /\ block_size' = [block_size EXCEPT ![b] = PAGE_UNITS - 1]
      /\ next_free_block' = [[next_free_block EXCEPT ![p[n]] = b] EXCEPT ![b] = NULL]
      /\ current' = current /\ units' = units /\ live' = live
  <2>1. 1 * PAGE_UNITS - 1 = PAGE_UNITS - 1
    BY HeapSizes
  <2> QED
    BY <1>1, <1>2, <1>3, <2>1 DEF increase_heap_size, link
<1>5. /\ b \in Units /\ b \notin headers /\ block_size' \in [Units -> Nat]
      /\ \A k \in Units : k # b => block_size'[k] = block_size[k]
      /\ Shapes(headers \cup {b})'
  BY <1>2, <1>3, <1>4, PageShapes
<1>6. /\ \A i \in 0 .. n : /\ p[i] \in headers \cup {0} /\ p[i] # b
                           /\ \A c \in DOMAIN live : p[i] = c.header => block_size[p[i]] = 0
      /\ \A c \in DOMAIN live : c.header \in headers /\ c.header \in Units
  <2>1. b # 0
    BY <1>5, HeapSizes
  <2> QED
    BY <1>3, <1>5, <2>1 DEF OnList, Shapes
<1> DEFINE q == [i \in 0 .. n + 1 |-> IF i <= n THEN p[i] ELSE b]
<1>7. FreeList(q, n + 1)'
  <2>1. next_free_block \in [Link -> Link] /\ b \in Link /\ p[n] \in Link /\ p[n] # b
    BY <1>3, <1>5, <1>6 DEF BlockType, Link
  <2>2. /\ next_free_block'[b] = NULL /\ next_free_block'[p[n]] = b
        /\ \A x \in Link : x # b /\ x # p[n] => next_free_block'[x] = next_free_block[x]
    BY <1>4, <2>1
  <2> QED
    BY <1>3, <1>5, <1>6, <2>2, ListAppended
<1>8. n + 1 \in Nat /\ q \in [0 .. n + 1 -> Link]
  BY <1>3, <1>7 DEF FreeList
<1>9. /\ \A i \in 0 .. n : q[i] = p[i] /\ i \in 0 .. n + 1
      /\ \A i \in 0 .. n + 1 : i \in 0 .. n \/ q[i] = b
  BY <1>3
<1> HIDE DEF q
<1>10. \A c \in DOMAIN live : block_size'[c.header] = block_size[c.header]
  BY <1>5, <1>6
<1>11. OnList(q, n + 1, headers \cup {b})'
  <2> SUFFICES ASSUME NEW i \in 0 .. n + 1
               PROVE  /\ q[i] \in headers \cup {b} \cup {0}
                      /\ \A c \in DOMAIN live : q[i] = c.header => block_size'[q[i]] = 0
    BY <1>4 DEF OnList
  <2>1. CASE i \in 0 .. n
    BY <1>6, <1>9, <1>10, <2>1
  <2>2. CASE q[i] = b
    BY <1>5, <1>6, <2>2
  <2> QED
    BY <1>9, <2>1, <2>2
<1>12. Scanning(q, n + 1)'
  BY <1>4, <1>9 DEF Scanning
<1>13. BlockType'
  <2>1. next_free_block' \in [Link -> Link]
    <3>1. b \in Link /\ p[n] \in Link /\ NULL \in Link
      BY <1>3, <1>5 DEF Link
    <3> QED
      BY <1>4, <3>1 DEF BlockType
  <2>2. used' \in 0 .. SUPPLY
    BY <1>4, HeapSizes DEF BlockType
  <2> QED
    BY <1>4, <1>5, <2>1, <2>2 DEF BlockType
<1>14. headers \cup {b} \in SUBSET Units /\ Owned'
  BY <1>3, <1>4, <1>5 DEF Owned
<1> QED
  BY <1>5, <1>7, <1>8, <1>10, <1>11, <1>12, <1>13, <1>14 DEF BlockInv, Layout

LEMMA BlockFreed ==
    ASSUME BlockType, Owned, NEW p, NEW n, NEW headers,
           Layout(p, n, headers), Scanning(p, n), NEW b \in DOMAIN live, kfree(b)
    PROVE  BlockInv'
<1> DEFINE h == b.header
<1>1. /\ FreeList(p, n) /\ Shapes(headers) /\ OnList(p, n, headers) /\ headers \subseteq Units
      /\ n \in Nat /\ p \in [0 .. n -> Link] /\ LastSlot = p[n] /\ p[0] = 0
      /\ \A k, m \in 0 .. n : p[k] = p[m] => k = m
  BY SlotsOfList DEF Layout, Shapes, FreeList
<1>2. h \in headers /\ h \in Units /\ h \in Link
  BY <1>1 DEF Shapes, Link
<1>3. /\ next_free_block' = [[next_free_block EXCEPT ![p[n]] = h] EXCEPT ![h] = NULL]
      /\ live' = live (-) SetToBag({b}) /\ units = Idle
      /\ block_size' = block_size /\ current' = current /\ units' = units /\ used' = used
  BY <1>1 DEF kfree, link
<1>4. DOMAIN live' = DOMAIN live \ {b} /\ Owned'
  BY <1>3, GivenBack
<1>5. \A c \in DOMAIN live' : c \in DOMAIN live /\ c.header # h
  BY <1>4 DEF Owned
<1>6. next_free_block \in [Link -> Link] /\ current = 0
  BY <1>3 DEF BlockType, Scanning
<1> HIDE DEF h
<1>7. BlockType'
  <2>1. next_free_block' \in [Link -> Link]
    <3>1. p[n] \in Link /\ NULL \in Link
      BY <1>1 DEF Link
    <3> QED
      BY <1>2, <1>3, <1>6, <3>1
  <2> QED
    BY <1>3, <1>4, <2>1 DEF BlockType
<1>8. Shapes(headers)'
  <2>1. \A x, y : InPage(x, y)' <=> InPage(x, y)
    BY <1>3 DEF InPage
  <2>2. Spaced(headers)'
    BY <1>1, <1>3, <1>5 DEF Shapes, Spaced
  <2> QED
    BY <1>1, <1>3, <1>5, <2>1, <2>2 DEF Shapes
<1>9. \A i \in 0 .. n : /\ p[i] \in headers \cup {0}
                        /\ \A c \in DOMAIN live' : p[i] = c.header => block_size'[p[i]] = 0
  BY <1>1, <1>3, <1>5 DEF OnList
<1>10. headers \in SUBSET Units
  BY <1>1
<1>11. CASE \E j \in 0 .. n : p[j] = h
  <2>1. PICK j \in 0 .. n : p[j] = h
    BY <1>11
  <2> DEFINE q == [i \in 0 .. j |-> p[i]]
  <2>2. FreeList(q, j)'
    <3>1. next_free_block'[p[j]] = NULL
      BY <1>2, <1>3, <1>6, <2>1
    <3>2. ASSUME NEW i \in 0 .. n, i < j PROVE next_free_block'[p[i]] = next_free_block[p[i]]
      <4>1. i # j /\ i # n /\ n \in 0 .. n
        BY <1>1, <2>1, <3>2
      <4>2. p[i] # h /\ p[i] # p[n] /\ p[i] \in Link
        BY <1>1, <2>1, <4>1
      <4> QED
        BY <1>3, <1>6, <4>2
    <3> QED
      BY <1>1, <3>1, <3>2, ListCut
  <2>3. j \in Nat /\ 0 \in 0 .. j /\ q \in [0 .. j -> Link] /\ q[0] = 0
        /\ \A i \in 0 .. j : q[i] = p[i] /\ i \in 0 .. n
    BY <1>1, <2>1
  <2> HIDE DEF q
  <2>4. OnList(q, j, headers)' /\ Scanning(q, j)'
    BY <1>3, <1>6, <1>9, <2>3 DEF OnList, Scanning
  <2> QED
    BY <1>4, <1>7, <1>8, <1>10, <2>2, <2>3, <2>4 DEF BlockInv, Layout
<1>12. CASE \A j \in 0 .. n : p[j] # h
  <2> DEFINE q == [i \in 0 .. n + 1 |-> IF i <= n THEN p[i] ELSE h]
  <2>1. FreeList(q, n + 1)'
    <3>1. p[n] \in Link /\ p[n] # h
      BY <1>1, <1>12
    <3>2. /\ next_free_block'[h] = NULL /\ next_free_block'[p[n]] = h
          /\ \A x \in Link : x # h /\ x # p[n] => next_free_block'[x] = next_free_block[x]
      BY <1>2, <1>3, <1>6, <3>1
    <3> QED
      BY <1>1, <1>2, <1>12, <3>2, ListAppended
  <2>2. n + 1 \in Nat /\ q \in [0 .. n + 1 -> Link] /\ q[0] = 0 /\ 0 \in 0 .. n + 1
    BY <1>1, <2>1 DEF FreeList
  <2>3. \A i \in 0 .. n + 1 : (i \in 0 .. n /\ q[i] = p[i]) \/ q[i] = h
    BY <1>1
  <2> HIDE DEF q
  <2>4. OnList(q, n + 1, headers)'
    <3> SUFFICES ASSUME NEW i \in 0 .. n + 1
                 PROVE  /\ q[i] \in headers \cup {0}
                        /\ \A c \in DOMAIN live' : q[i] = c.header => block_size'[q[i]] = 0
      BY DEF OnList
    <3>1. CASE i \in 0 .. n /\ q[i] = p[i]
      BY <1>9, <3>1
    <3>2. CASE q[i] = h
      BY <1>2, <1>5, <3>2
    <3> QED
      BY <2>3, <3>1, <3>2
  <2>5. Scanning(q, n + 1)'
    BY <1>3, <1>6, <2>2 DEF Scanning
  <2> QED
    BY <1>4, <1>7, <1>8, <1>10, <2>1, <2>2, <2>4, <2>5 DEF BlockInv, Layout
<1> QED
  BY <1>11, <1>12

LEMMA BlockStays ==
    ASSUME BlockInv, UNCHANGED <<next_free_block, block_size, used, live>>,
           units' \in Requests \cup {Idle},
           \A p, n, headers : Layout(p, n, headers) /\ Scanning(p, n) => Scanning(p, n)'
    PROVE  BlockInv'
<1>1. \A p, n, headers : Layout(p, n, headers)' <=> Layout(p, n, headers)
  BY DEF Layout, FreeList, Shapes, Spaced, InPage, OnList
<1>2. BlockType' /\ Owned'
  BY DEF BlockInv, BlockType, Owned
<1> QED
  BY <1>1, <1>2 DEF BlockInv

LEMMA BlockNext ==
    ASSUME BlockInv, [KNext]_kvars
    PROVE  /\ BlockInv'
           /\ \A b \in DOMAIN live \cap DOMAIN live' : block_size'[b.header] = block_size[b.header]
<1>1. BlockType /\ Owned
  BY DEF BlockInv
<1>2. PICK headers \in SUBSET Units, n \in Nat :
         \E p \in [0 .. n -> Link] : Layout(p, n, headers) /\ Scanning(p, n)
  BY DEF BlockInv
<1>3. PICK p \in [0 .. n -> Link] : Layout(p, n, headers) /\ Scanning(p, n)
  BY <1>2
<1>4. ASSUME NEW m \in Requests, kmalloc(m) PROVE BlockInv' /\ block_size' = block_size
  <2>1. /\ UNCHANGED <<next_free_block, block_size, used, live>>
        /\ units' = m /\ current' = 0 /\ m # Idle
    BY <1>4, HeapSizes DEF kmalloc, Idle
  <2>2. ASSUME NEW q, NEW k, NEW hs, Layout(q, k, hs) PROVE Scanning(q, k)'
    <3>1. k \in Nat /\ q[0] = 0
      BY <2>2 DEF Layout, FreeList
    <3>2. 0 \in 0 .. k
      BY <3>1
    <3> QED
      BY <2>1, <3>1, <3>2 DEF Scanning
  <2> QED
    BY <2>1, <2>2, BlockStays
<1>5. ASSUME NEW b \in DOMAIN live, kfree(b) PROVE BlockInv' /\ block_size' = block_size
  <2>1. block_size' = block_size
    BY <1>5 DEF kfree
  <2> QED
    BY <1>1, <1>3, <1>5, <2>1, BlockFreed
<1>6. CASE increase_heap_size
  BY <1>1, <1>3, <1>6, BlockGrow
<1>7. CASE kmalloc_null
  <2>1. /\ UNCHANGED <<next_free_block, block_size, used, live>>
        /\ units' = Idle /\ current' = 0
    BY <1>7 DEF kmalloc_null
  <2>2. ASSUME NEW q, NEW k, NEW hs, Layout(q, k, hs) PROVE Scanning(q, k)'
    <3>1. k \in Nat /\ q[0] = 0
      BY <2>2 DEF Layout, FreeList
    <3>2. 0 \in 0 .. k
      BY <3>1
    <3> QED
      BY <2>1, <3>1, <3>2 DEF Scanning
  <2> QED
    BY <2>1, <2>2, BlockStays
<1>8. CASE advance
  <2>1. /\ UNCHANGED <<next_free_block, block_size, used, live>>
        /\ units' = units /\ units # Idle /\ current' = block /\ block # NULL
    BY <1>8 DEF advance
  <2>2. ASSUME NEW q, NEW k, NEW hs, Layout(q, k, hs), Scanning(q, k) PROVE Scanning(q, k)'
    <3>1. PICK j \in 1 .. k : block = q[j]
      BY <2>1, <2>2, ScanAt
    <3>2. k \in Nat
      BY <2>2 DEF Layout, FreeList
    <3>3. j \in 0 .. k
      BY <3>2
    <3> QED
      BY <2>1, <3>1, <3>3 DEF Scanning
  <2> QED
    BY <1>1, <2>1, <2>2, BlockStays DEF BlockType
<1>9. CASE take_tail
  BY <1>1, <1>3, <1>9, BlockTail
<1>10. CASE take_whole
  <2>1. block_size' = block_size
    BY <1>10 DEF take_whole
  <2> QED
    BY <1>1, <1>3, <1>10, <2>1, BlockWhole
<1>11. CASE UNCHANGED memory
  <2>1. /\ UNCHANGED <<next_free_block, block_size, used, live>> /\ units' = units /\ current' = current
    BY <1>11 DEF memory
  <2>2. \A q, k, hs : Layout(q, k, hs) /\ Scanning(q, k) => Scanning(q, k)'
    BY <2>1 DEF Scanning
  <2> QED
    BY <1>1, <2>1, <2>2, BlockStays DEF BlockType
<1>12. CASE Call
  BY <1>4, <1>5, <1>12 DEF Call, BagToSet
<1>13. CASE Step
  <2>1. kmalloc_null \/ advance => block_size' = block_size
    BY DEF kmalloc_null, advance
  <2>2. take_whole => block_size' = block_size
    BY DEF take_whole
  <2>3. increase_heap_size_again => UNCHANGED memory /\ block_size' = block_size
    BY DEF increase_heap_size_again, memory
  <2> QED
    BY <1>6, <1>7, <1>8, <1>9, <1>10, <1>11, <1>13, <2>1, <2>2, <2>3 DEF Step
<1>14. UNCHANGED kvars => UNCHANGED memory /\ block_size' = block_size
  BY DEF kvars, memory
<1>15. Others => UNCHANGED memory /\ block_size' = block_size
  BY DEF Others, alloc_kheap_pages_shared, write_payload, memory
<1> QED
  BY <1>11, <1>12, <1>13, <1>14, <1>15 DEF KNext

LEMMA BlockAlways == KSpec => []BlockInv
<1>1. BlockInv /\ [KNext]_kvars => BlockInv'
  BY BlockNext
<1> QED
  BY <1>1, BlockInit, PTL DEF KSpec

SpoiledType == spoiled \in BOOLEAN

LEMMA SpoiledAlways == KSpec => []SpoiledType
<1>1. KInit => SpoiledType
  BY DEF KInit, SpoiledType
<1>2. SpoiledType /\ [KNext]_kvars => SpoiledType'
  BY Zenon DEF KNext, Call, Step, Others, increase_heap_size_again,
               alloc_kheap_pages_shared, write_payload, kvars, SpoiledType
<1> QED
  BY <1>1, <1>2, PTL DEF KSpec

LEMMA BlockShape ==
    ASSUME BlockInv
    PROVE  \E headers \in SUBSET Units :
              /\ Shapes(headers) /\ FreeSlots \subseteq headers \cup {0}
              /\ current \in Link /\ \E s \in FreeSlots : next_free_block[s] = NULL
<1>1. PICK headers \in SUBSET Units, n \in Nat :
         \E p \in [0 .. n -> Link] : Layout(p, n, headers) /\ Scanning(p, n)
  BY DEF BlockInv
<1>2. PICK p \in [0 .. n -> Link] : Layout(p, n, headers) /\ Scanning(p, n)
  BY <1>1
<1>3. FreeSlots = {p[i] : i \in 0 .. n} /\ next_free_block[p[n]] = NULL /\ n \in 0 .. n
  <2>1. FreeList(p, n)
    BY <1>2 DEF Layout
  <2>2. FreeSlots = {p[i] : i \in 0 .. n}
    BY ONLY <2>1, SlotsOfList
  <2>3. next_free_block[p[n]] = NULL /\ n \in 0 .. n
    BY <2>1 DEF FreeList
  <2> QED
    BY <2>2, <2>3
<1>4. Shapes(headers) /\ \A i \in 0 .. n : p[i] \in headers \cup {0}
  BY <1>2 DEF Layout, OnList
<1>5. current \in Link
  BY <1>2 DEF Scanning
<1> QED
  BY <1>3, <1>4, <1>5

\* The types of kmalloc's variables: no size exceeds the heap, and what the
\* links and the scan point to are units of the heap.
THEOREM BlockTypes == KSpec => []KTypeOK
<1>1. BlockInv /\ SpoiledType => KTypeOK
  <2> SUFFICES ASSUME BlockInv, SpoiledType PROVE KTypeOK
    OBVIOUS
  <2>1. BlockType
    BY DEF BlockInv
  <2>2. PICK headers \in SUBSET Units : Shapes(headers) /\ current \in Link
    BY BlockShape
  <2>3. \A u \in Units : u \in Nat /\ block_size[u] \in Nat
    BY <2>1, HeapSizes DEF BlockType
  <2>4. ASSUME NEW u \in Units PROVE block_size[u] \in 0 .. HeapEnd
    <3>1. CASE u \notin headers
      BY <2>2, <3>1, HeapSizes DEF Shapes
    <3>2. CASE u \in headers
      <4>1. InPage(u, u + block_size[u]) /\ used \in 0 .. SUPPLY
        BY <2>1, <2>2, <3>2 DEF Shapes, BlockType
      <4>2. u + block_size[u] <= HeapEnd
        BY <2>3, <4>1, InPageFacts
      <4> QED
        BY <2>3, <4>2, HeapSizes
    <3> QED
      BY <3>1, <3>2
  <2>5. block_size \in [Units -> 0 .. PAGE_UNITS * SUPPLY]
    BY <2>1, <2>4 DEF BlockType, HeapEnd
  <2>6. next_free_block \in [Units \cup {0} -> Units \cup {NULL}] /\ current \in Units \cup {0}
    BY <2>1, <2>2 DEF BlockType, Link, NULL
  <2> QED
    BY <2>1, <2>5, <2>6 DEF KTypeOK, BlockType, BagToSet, SpoiledType
<1> QED
  BY <1>1, BlockAlways, SpoiledAlways, PTL

\* Until something else writes to a header, the walk of kfree to the last
\* link ends, although a block may be freed
\* that is on the list still: the list then is cut short and never closed
\* to a circle.
THEOREM ListSafe == KSpec => []FreeListEnds
<1>1. BlockInv => FreeListEnds
  BY BlockShape DEF FreeListEnds
<1> QED
  BY <1>1, BlockAlways, PTL

\* Until something else writes to a header, free and owned blocks lie in
\* single pages the heap was given, whatever is split off them and in whatever
\* order they come back.
THEOREM PagesSafe == KSpec => []BlocksInHeap
<1>1. BlockInv => BlocksInHeap
  <2> SUFFICES ASSUME BlockInv PROVE BlocksInHeap
    OBVIOUS
  <2>1. BlockType
    BY DEF BlockInv
  <2>2. PICK headers \in SUBSET Units : Shapes(headers) /\ FreeSlots \subseteq headers \cup {0}
    BY BlockShape
  <2>3. /\ \A u \in Units : u \in Nat /\ block_size[u] \in Nat
        /\ used \in 0 .. SUPPLY
    BY <2>1, HeapSizes DEF BlockType
  <2>4. DOMAIN live \subseteq [header : Units, units : Requests] /\ Requests \subseteq Nat
    BY <2>1, HeapSizes DEF BlockType
  <2>5. ASSUME NEW h \in FreeSlots \ {NULL}
        PROVE  SamePage(h, h + block_size[h]) /\ h + block_size[h] <= used * PAGE_UNITS
    <3>1. h \in headers /\ h \in Units
      BY <2>2 DEF NULL
    <3>2. InPage(h, h + block_size[h])
      BY <2>2, <3>1 DEF Shapes
    <3> QED
      BY <2>3, <3>1, <3>2, InPageFacts
  <2>6. ASSUME NEW b \in DOMAIN live
        PROVE  SamePage(b.header, b.header + b.units) /\ b.header + b.units <= used * PAGE_UNITS
    <3>1. InPage(b.header, b.header + b.units)
      BY <2>2 DEF Shapes
    <3>2. b.header \in Nat /\ b.units \in Nat
      BY <2>3, <2>4
    <3> QED
      BY <2>3, <3>1, <3>2, InPageFacts
  <2> QED
    BY <2>5, <2>6 DEF BlocksInHeap, BagToSet
<1> QED
  BY <1>1, BlockAlways, PTL

\* Until alloc_kheap_pages gives a page twice or a caller's write hits a
\* header, kmalloc gives no block twice, and what two callers own has at most
\* one unit in common: the first behind the header of a tail.
THEOREM OwnersSafe == KSpec => []OwnersApart
<1>1. BlockInv => OwnersApart
  <2> SUFFICES ASSUME BlockInv, NEW b \in DOMAIN live, NEW c \in DOMAIN live
               PROVE  /\ live[b] = 1
                      /\ b # c => /\ b.header # c.header
                                  /\ \A u, v \in Payload(b) \cap Payload(c) : u = v
    BY DEF OwnersApart, BagToSet
  <2>1. live[b] = 1 /\ (b # c => b.header # c.header)
    BY DEF BlockInv, Owned
  <2>2. PICK headers \in SUBSET Units : Shapes(headers)
    BY BlockShape
  <2>3. \A x \in DOMAIN live : x.header \in Nat /\ x.units \in Nat
    <3>1. DOMAIN live \subseteq [header : Units, units : Requests]
      BY DEF BlockInv, BlockType
    <3>2. Units \subseteq Nat /\ Requests \subseteq Nat
      BY HeapSizes
    <3> QED
      BY <3>1, <3>2
  <2>4. ASSUME NEW x \in DOMAIN live, NEW y \in DOMAIN live, x.header < y.header
        PROVE  \A u \in Payload(x) \cap Payload(y) : u = y.header + 1
    <3>1. x.header \in Nat /\ y.header \in Nat /\ x.units \in Nat /\ y.units \in Nat
      BY <2>3
    <3>2. x.header + x.units <= y.header + 1
      BY <2>2, <2>4 DEF Shapes, Spaced
    <3> QED
      BY <3>1, <3>2 DEF Payload
  <2>5. ASSUME b # c, NEW u \in Payload(b) \cap Payload(c), NEW v \in Payload(b) \cap Payload(c)
        PROVE  u = v
    <3>1. b.header < c.header \/ c.header < b.header
      BY <2>1, <2>3, <2>5
    <3> QED
      BY <2>4, <3>1
  <2> QED
    BY <2>1, <2>5
<1> QED
  BY <1>1, BlockAlways, PTL

\* No step of kmalloc or kfree changes the size in the header of a block that
\* stays owned, but for a growth by a page that was in use: the blocks
\* kmalloc splits are owned by nobody.
THEOREM HeadersKept == KSpec => HeaderStable
<1>1. BlockInv /\ [KNext]_kvars =>
        [~spoiled' => \A b \in BagToSet(live) \cap BagToSet(live') :
            block_size'[b.header] = block_size[b.header]]_kvars
  BY BlockNext DEF BagToSet
<1> QED
  BY <1>1, BlockAlways, PTL DEF KSpec, HeaderStable
=============================================================================
