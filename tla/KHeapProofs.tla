----------------------------- MODULE KHeapProofs ----------------------------
(***************************************************************************)
(* The heap's page table never shows a frame of RAM twice, whichever runs  *)
(* of pages are asked for, overlap and are given back, for every size of   *)
(* the bitmap, the page table and the memory.                              *)
(***************************************************************************)
EXTENDS KHeap, FiniteSetTheorems, WellFoundedInduction, TLAPS

Region(d) == d.first .. (d.first + d.size - 1)

Run == [first : Nat \cup {NULL}, size : Nat \ {0}, device : Nat]

RunsInv == DOMAIN runs \subseteq Run /\ \A r \in DOMAIN runs : runs[r] \in Nat \ {0}

\* An entry that shows a frame has its attribute bits.
TableInv ==
    /\ table \in [Slots -> [frame : Nat, low : {0, ATTRIBUTES}]]
    /\ \A s \in Slots : table[s].frame # NoFrame => table[s].low = ATTRIBUTES

\* A frame that shows was handed out, or belongs to a region whose run is
\* still there.
Known ==
    \A s \in Slots : table[s].frame # NoFrame =>
        \/ table[s].frame \in Frames
        \/ \E d \in Devices : /\ table[s].frame \in Region(d)
                              /\ \E r \in DOMAIN runs : r.device = d.first

FrameInv == RunsInv /\ TableInv /\ free \subseteq Frames /\ Known /\ NoFrameShared

-----------------------------------------------------------------------------
(* Bags of runs. *)

LEMMA GivenOut ==
    ASSUME RunsInv, NEW address \in Nat \cup {NULL}, NEW size \in Nat \ {0}, NEW device \in Nat,
           GiveOut(address, size, device)
    PROVE  LET r == [first |-> address, size |-> size, device |-> device] IN
           DOMAIN runs' = DOMAIN runs \cup {r} /\ r \in Run /\ RunsInv'
<1> DEFINE r == [first |-> address, size |-> size, device |-> device]
<1>1. r \in Run
  BY DEF Run
<1> HIDE DEF r
<1>2. runs' = [e \in DOMAIN runs \cup {r} |->
                 (IF e \in DOMAIN runs THEN runs[e] ELSE 0) + (IF e \in {r} THEN 1 ELSE 0)]
  BY DEF GiveOut, SetToBag, (+), r
<1>3. DOMAIN runs' = DOMAIN runs \cup {r}
  BY <1>2
<1>4. \A e \in DOMAIN runs' : runs'[e] \in Nat \ {0}
  BY <1>2, <1>3 DEF RunsInv
<1> QED
  BY <1>1, <1>3, <1>4 DEF RunsInv, r

LEMMA TakenBack ==
    ASSUME RunsInv, NEW run, runs' = runs (-) SetToBag({run})
    PROVE  /\ RunsInv' /\ DOMAIN runs' \subseteq DOMAIN runs
           /\ DOMAIN runs \ {run} \subseteq DOMAIN runs'
<1> DEFINE B == [e \in DOMAIN runs |-> IF e \in {run} THEN runs[e] - 1 ELSE runs[e]]
<1>1. runs' = [e \in {d \in DOMAIN B : B[d] > 0} |-> B[e]]
  BY DEF SetToBag, (-)
<1>2. DOMAIN runs' = {d \in DOMAIN runs : B[d] > 0}
  BY <1>1
<1>3. \A e \in DOMAIN runs : e # run => B[e] > 0
  BY DEF RunsInv
<1>4. \A e \in DOMAIN runs' : runs'[e] \in Nat \ {0}
  <2>1. \A e \in DOMAIN runs : B[e] \in Int
    BY DEF RunsInv
  <2>2. \A e \in DOMAIN runs' : runs'[e] = B[e] /\ e \in DOMAIN runs /\ B[e] > 0
    BY <1>1, <1>2
  <2> HIDE DEF B
  <2> QED
    BY <2>1, <2>2
<1> QED
  BY <1>2, <1>3, <1>4 DEF RunsInv

-----------------------------------------------------------------------------
(* What the operators compute. *)

\* A frame is granted once.
LEMMA GrantedDistinct ==
    ASSUME NEW n \in Nat, NEW j \in 1 .. n, NEW k \in 1 .. n
    PROVE  /\ Granted(n)[k] \in free \cup {NoFrame}
           /\ Granted(n)[j] = Granted(n)[k] /\ Granted(n)[k] # NoFrame => j = k
<1> DEFINE G(i) == IF \E f \in free : Cardinality(Below(f)) = i - 1
                   THEN CHOOSE f \in free : Cardinality(Below(f)) = i - 1
                   ELSE NoFrame
<1>1. \A i \in 1 .. n : Granted(n)[i] = G(i)
  BY DEF Granted
<1>2. \A i \in 1 .. n : (G(i) \in free /\ Cardinality(Below(G(i))) = i - 1) \/ G(i) = NoFrame
  OBVIOUS
<1> HIDE DEF G
<1> QED
  BY <1>1, <1>2

LEMMA NatMin ==
    ASSUME NEW S \in SUBSET Nat, S # {}
    PROVE  \E x \in S : \A y \in S : x <= y
<1> DEFINE R == {ss \in Nat \X Nat : ss[1] < ss[2]}
<1>1. OpToRel(<, Nat) = R
  BY Zenon DEF OpToRel
<1>2. IsWellFoundedOn(R, Nat)
  BY <1>1, NatLessThanWellFounded, Zenon
<1> HIDE DEF R
<1>3. PICK x \in S : \A y \in S : ~ (<<y, x>> \in R)
  BY <1>2, WFMin, Zenon
<1>4. \A y, z \in Nat : y < z => <<y, z>> \in R
  BY DEF R
<1>5. ASSUME NEW y \in S PROVE x <= y
  <2>1. x \in Nat /\ y \in Nat
    OBVIOUS
  <2>2. ~(<<y, x>> \in R)
    BY <1>3, Zenon
  <2>3. ~(y < x)
    BY <1>4, <2>1, <2>2, Zenon
  <2> QED
    BY <2>1, <2>3
<1> QED
  BY <1>5

\* The search yields a place in the lookup table, or its size.
LEMMA FoundInTable ==
    ASSUME NEW buffer, NEW size \in Nat, NEW n
    PROVE  find_continuous_blocks_index(buffer, size, n) \in 0 .. size
<1> DEFINE counted(p) == {j \in 0 .. p : buffer[j] = AVAILABLE}
           ends == {p \in 0 .. (size - 2) : p \in counted(p) /\ Cardinality(counted(p)) = n}
           P(i) == \E p \in ends :
                      i <= p /\ i .. p \subseteq counted(p) /\ (i = 0 \/ i - 1 \notin counted(p))
<1>1. find_continuous_blocks_index(buffer, size, n) =
        IF ends = {} THEN size ELSE CHOOSE i \in 0 .. (size - 1) : P(i)
  BY DEF find_continuous_blocks_index
<1>2. CASE ends = {}
  BY <1>1, <1>2
<1>3. CASE ends # {}
  <2>1. PICK p \in ends : TRUE
    BY <1>3
  <2> DEFINE S == {i \in 0 .. p : i .. p \subseteq counted(p)}
  <2>2. p \in 0 .. (size - 2) /\ p \in counted(p)
    BY <2>1
  <2>3. p .. p \subseteq counted(p) /\ p \in 0 .. p
    BY <2>2
  <2>4. S \in SUBSET Nat /\ S # {}
    BY <2>3
  <2>5. PICK i \in S : \A j \in S : i <= j
    BY <2>4, NatMin
  <2>6. i = 0 \/ i - 1 \notin counted(p)
    <3>1. SUFFICES ASSUME i # 0, i - 1 \in counted(p) PROVE FALSE
      OBVIOUS
    <3>2. (i - 1) .. p \subseteq counted(p)
      BY <3>1
    <3>3. i - 1 \in S
      BY <3>1, <3>2
    <3> QED
      BY <2>5, <3>3
  <2>7. P(i) /\ i \in 0 .. (size - 1)
    <3>1. i \in 0 .. p /\ i .. p \subseteq counted(p)
      OBVIOUS
    <3> HIDE DEF ends, S
    <3> QED
      BY <2>1, <2>2, <2>6, <3>1
  <2> HIDE DEF P, ends
  <2> QED
    BY <1>1, <1>3, <2>7
<1> QED
  BY <1>2, <1>3

NumBytes(n) == (n + 7) \div 8

\* The address is in the lookup table of the first byte that has a free page.
LEMMA AddressFound ==
    ASSUME NEW n \in Nat
    PROVE  LET a == get_free_continuous_blocks_address(n)
               bytes == 0 .. (KHEAP_BITMAP_SIZE - NumBytes(n) - 2)
           IN  \/ a = NULL /\ \A i \in bytes : ~NonZeroByte(i)
               \/ \E i \in bytes : /\ \A j \in bytes : j < i => ~NonZeroByte(j)
                                   /\ a \in 8 * i .. 8 * i + 8 * NumBytes(n)
<1> DEFINE nb == NumBytes(n)
           bytes == 0 .. (KHEAP_BITMAP_SIZE - nb - 2)
           index(i) == find_continuous_blocks_index(parse_lookup_table(i, nb), 8 * nb, n)
           stops == {i \in bytes : NonZeroByte(i) /\ index(i) # -1}
           a == get_free_continuous_blocks_address(n)
<1>1. nb \in Nat
  BY DEF NumBytes
<1> HIDE DEF nb
<1>2. \A i : index(i) \in 0 .. 8 * nb
  BY <1>1, FoundInTable
<1>3. a = IF stops = {} THEN NULL
          ELSE LET i == CHOOSE i \in stops : \A j \in stops : i <= j IN 8 * i + index(i)
  BY DEF get_free_continuous_blocks_address, NumBytes, nb
<1> HIDE DEF index, a
<1>4. stops = {i \in bytes : NonZeroByte(i)}
  BY <1>2
<1>5. bytes \subseteq Nat
  BY SizesAssumption, <1>1
<1> HIDE DEF bytes
<1>6. CASE stops = {}
  BY <1>3, <1>4, <1>6 DEF nb, bytes, a
<1>7. CASE stops # {}
  <2> DEFINE i == CHOOSE i \in stops : \A j \in stops : i <= j
  <2>1. stops \in SUBSET Nat
    BY <1>5
  <2> HIDE DEF stops
  <2>2. i \in stops /\ \A j \in stops : i <= j
    BY <1>7, <2>1, NatMin
  <2>3. a = 8 * i + index(i)
    BY <1>3, <1>7
  <2> HIDE DEF i
  <2>4. i \in bytes /\ i \in Nat /\ \A j \in bytes : j < i => ~NonZeroByte(j)
    BY <1>4, <1>5, <2>1, <2>2
  <2>5. index(i) \in 0 .. 8 * nb /\ 8 * nb \in Nat
    BY <1>1, <1>2
  <2>6. a \in 8 * i .. 8 * i + 8 * nb
    BY <2>3, <2>4, <2>5
  <2> QED
    BY <2>4, <2>6 DEF a, nb, bytes
<1> QED
  BY <1>6, <1>7

LEMMA EntryInTable ==
    ASSUME NEW n \in Nat
    PROVE  LET a == get_free_continuous_blocks_address(n) IN
           /\ a \in Nat \cup {NULL} /\ entry(a) \in Slots
           /\ \A s \in Touched(a, n) : s \in Slots /\ s - entry(a) \in 0 .. n - 1
<1> DEFINE a == get_free_continuous_blocks_address(n)
<1>1. a \in Nat \cup {NULL}
  <2>1. NumBytes(n) \in Nat
    BY DEF NumBytes
  <2>2. ASSUME a # NULL PROVE \E i \in Nat : a \in 8 * i .. 8 * i + 8 * NumBytes(n)
    BY <2>1, <2>2, AddressFound, SizesAssumption
  <2> HIDE DEF a
  <2> QED
    BY <2>1, <2>2
<1> HIDE DEF a
<1>2. PAGE_TABLE_SIZE \in Nat \ {0}
  BY SizesAssumption
<1>3. entry(a) \in Slots
  <2>1. CASE a = NULL
    BY <1>2, <2>1 DEF entry, Slots
  <2>2. CASE a \in Nat
    <3>1. a % PAGE_TABLE_SIZE \in 0 .. PAGE_TABLE_SIZE - 1
      BY <1>2, <2>2
    <3> QED
      BY <1>2, <2>2, <3>1 DEF entry, Slots, NULL
  <2> QED
    BY <1>1, <2>1, <2>2
<1>4. \A s \in Touched(a, n) : s \in Slots /\ s - entry(a) \in 0 .. n - 1
  BY <1>2, <1>3 DEF Touched, Slots
<1> QED
  BY <1>1, <1>3, <1>4 DEF a

-----------------------------------------------------------------------------
(* No frame is shown twice. *)

LEMMA FrameInit == HInit => FrameInv
<1> SUFFICES ASSUME HInit PROVE FrameInv
  OBVIOUS
<1>1. RunsInv
  BY DEF HInit, RunsInv, EmptyBag, SetToBag
<1>2. TableInv
  BY DEF HInit, TableInv, Empty, NoFrame
<1>3. Known /\ NoFrameShared /\ free \subseteq Frames
  BY DEF HInit, Known, NoFrameShared, Empty, NoFrame
<1> QED
  BY <1>1, <1>2, <1>3 DEF FrameInv

LEMMA FrameAlloc ==
    ASSUME FrameInv, NEW n \in RunSizes, alloc_kheap_pages(n)
    PROVE  FrameInv' /\ free' \subseteq free
<1> DEFINE a == get_free_continuous_blocks_address(n)
           F == Granted(n)
<1>1. n \in Nat \ {0}
  BY SizesAssumption
<1>2. /\ a \in Nat \cup {NULL} /\ \A s \in Touched(a, n) : s \in Slots /\ s - entry(a) + 1 \in 1 .. n
      /\ \A s, t \in Touched(a, n) : s - entry(a) + 1 = t - entry(a) + 1 => s = t
  <2>1. a \in Nat \cup {NULL} /\ entry(a) \in Int /\ \A s \in Slots : s \in Int
    BY <1>1, EntryInTable, SizesAssumption DEF Slots, NULL
  <2>2. \A s \in Touched(a, n) : s \in Slots /\ s - entry(a) \in 0 .. n - 1
    BY <1>1, EntryInTable
  <2> HIDE DEF a
  <2> QED
    BY <1>1, <2>1, <2>2
<1>3. /\ table' = [s \in Slots |-> IF s \in Touched(a, n)
                                   THEN [frame |-> F[s - entry(a) + 1], low |-> ATTRIBUTES]
                                   ELSE table[s]]
      /\ free' = free \ {F[k] : k \in 1 .. n}
      /\ GiveOut(a, n, NoFrame)
  BY DEF alloc_kheap_pages
<1>4. \A j, k \in 1 .. n : /\ F[k] \in free \cup {NoFrame}
                           /\ F[j] = F[k] /\ F[k] # NoFrame => j = k
  BY <1>1, GrantedDistinct
<1>5. DOMAIN runs \subseteq DOMAIN runs' /\ RunsInv'
  <2>1. NoFrame \in Nat
    BY DEF NoFrame
  <2> HIDE DEF a
  <2> QED
    BY <1>1, <1>2, <1>3, <2>1, GivenOut DEF FrameInv
<1> DEFINE T == Touched(a, n)
           at(s) == s - entry(a) + 1
<1>6. /\ \A s \in T : s \in Slots /\ at(s) \in 1 .. n
      /\ \A s, t \in T : at(s) = at(t) => s = t
      /\ \A s \in Slots : s \in T => table'[s] = [frame |-> F[at(s)], low |-> ATTRIBUTES]
      /\ \A s \in Slots : s \notin T => table'[s] = table[s]
      /\ table' = [s \in Slots |-> table'[s]]
  BY <1>2, <1>3
<1> HIDE DEF a, F, T, at
<1>7. \A s \in T : table'[s].frame = F[at(s)] /\ table'[s].low = ATTRIBUTES
  BY <1>6
<1>8. \A k \in 1 .. n : F[k] \in Frames \cup {NoFrame} /\ F[k] \in Nat
  <2>1. Frames \subseteq Nat /\ free \subseteq Frames /\ NoFrame \in Nat
    BY SizesAssumption DEF FrameInv, NoFrame
  <2>2. \A k \in 1 .. n : F[k] \in free \cup {NoFrame}
    BY <1>4
  <2> QED
    BY <2>1, <2>2
<1>9. TableInv'
  <2>1. \A s \in Slots : table'[s] \in [frame : Nat, low : {0, ATTRIBUTES}]
    BY <1>6, <1>8 DEF FrameInv, TableInv
  <2>2. table' \in [Slots -> [frame : Nat, low : {0, ATTRIBUTES}]]
    BY <1>6, <2>1
  <2> QED
    BY <1>6, <1>7, <2>2 DEF FrameInv, TableInv
<1>10. Known'
  <2> SUFFICES ASSUME NEW s \in Slots, table'[s].frame # NoFrame
               PROVE  \/ table'[s].frame \in Frames
                      \/ \E d \in Devices : /\ table'[s].frame \in Region(d)
                                            /\ \E r \in DOMAIN runs' : r.device = d.first
    BY DEF Known
  <2>1. CASE s \in T
    BY <1>6, <1>7, <1>8, <2>1
  <2>2. CASE s \notin T
    BY <1>5, <1>6, <2>2 DEF FrameInv, Known
  <2> QED
    BY <2>1, <2>2
<1>11. NoFrameShared'
  <2> SUFFICES ASSUME NEW s \in Slots, table'[s].frame # NoFrame
               PROVE  /\ table'[s].frame \notin free'
                      /\ \A t \in Slots \ {s} : table'[t].frame # table'[s].frame
    BY DEF NoFrameShared
  <2>1. CASE s \in T
    <3>1. table'[s].frame = F[at(s)] /\ at(s) \in 1 .. n /\ F[at(s)] \in free
      BY <1>4, <1>6, <1>7, <2>1
    <3>2. ASSUME NEW t \in Slots \ {s} PROVE table'[t].frame # table'[s].frame
      <4>1. CASE t \in T
        BY <1>4, <1>6, <1>7, <2>1, <3>1, <4>1
      <4>2. CASE t \notin T
        <5>1. table'[t].frame = table[t].frame
          BY <1>6, <4>2
        <5> QED
          BY <3>1, <5>1 DEF FrameInv, NoFrameShared
      <4> QED
        BY <4>1, <4>2
    <3> QED
      BY <1>3, <3>1, <3>2
  <2>2. CASE s \notin T
    <3>1. table'[s].frame = table[s].frame /\ table[s].frame \notin free
      BY <1>6, <2>2 DEF FrameInv, NoFrameShared
    <3>2. ASSUME NEW t \in Slots \ {s} PROVE table'[t].frame # table'[s].frame
      <4>1. CASE t \in T
        BY <1>4, <1>6, <1>7, <3>1, <4>1
      <4>2. CASE t \notin T
        BY <1>6, <3>1, <4>2 DEF FrameInv, NoFrameShared
      <4> QED
        BY <4>1, <4>2
    <3> QED
      BY <1>3, <3>1, <3>2
  <2> QED
    BY <2>1, <2>2
<1> QED
  BY <1>3, <1>5, <1>9, <1>10, <1>11 DEF FrameInv

LEMMA FrameMap ==
    ASSUME FrameInv, NEW d \in Devices, \A r \in DOMAIN runs : r.device # d.first,
           map_physical_address_to_kheap(d)
    PROVE  FrameInv' /\ free' \subseteq free
<1> DEFINE n == d.size
           a == get_free_continuous_blocks_address(n)
           T == Touched(a, n)
           frame(s) == d.first + (s - entry(a))
<1>1. n \in Nat \ {0} /\ d.first \in Nat \ {0}
  BY DevicesAssumption
<1>2. /\ a \in Nat \cup {NULL} /\ \A s \in T : s \in Slots /\ frame(s) \in Region(d) /\ frame(s) \in Nat \ {0}
      /\ \A s, t \in T : frame(s) = frame(t) => s = t
  <2>1. a \in Nat \cup {NULL} /\ entry(a) \in Int /\ \A s \in Slots : s \in Int
    BY <1>1, EntryInTable, SizesAssumption DEF Slots, NULL
  <2>2. \A s \in Touched(a, n) : s \in Slots /\ s - entry(a) \in 0 .. n - 1
    BY <1>1, EntryInTable
  <2> HIDE DEF a
  <2> QED
    BY <1>1, <2>1, <2>2 DEF Region
<1>3. /\ table' = [s \in Slots |-> IF s \in T
                                   THEN [frame |-> frame(s), low |-> ATTRIBUTES]
                                   ELSE table[s]]
      /\ free' = free
      /\ GiveOut(a, n, d.first)
  BY DEF map_physical_address_to_kheap
<1>4. /\ DOMAIN runs \subseteq DOMAIN runs' /\ RunsInv'
      /\ \E r \in DOMAIN runs' : r.device = d.first
  <2>1. RunsInv
    BY DEF FrameInv
  <2> DEFINE r == [first |-> a, size |-> n, device |-> d.first]
  <2>2. DOMAIN runs' = DOMAIN runs \cup {r} /\ RunsInv'
    BY <1>1, <1>2, <1>3, <2>1, GivenOut
  <2>3. r.device = d.first
    OBVIOUS
  <2> HIDE DEF r
  <2> QED
    BY <2>2, <2>3
<1>5. /\ \A s \in Slots : s \in T => table'[s] = [frame |-> frame(s), low |-> ATTRIBUTES]
      /\ \A s \in Slots : s \notin T => table'[s] = table[s]
      /\ table' = [s \in Slots |-> table'[s]]
  BY <1>3
<1> HIDE DEF a, T, frame
<1>6. \A s \in T : table'[s].frame = frame(s) /\ table'[s].low = ATTRIBUTES
  BY <1>2, <1>5
\* No page shows a frame of the region yet.
<1>7. \A s \in Slots : table[s].frame # NoFrame => table[s].frame \notin Region(d)
  <2> SUFFICES ASSUME NEW s \in Slots, table[s].frame # NoFrame, table[s].frame \in Region(d)
               PROVE  FALSE
    OBVIOUS
  <2>1. table[s].frame \notin Frames
    BY DevicesAssumption DEF Region
  <2>2. PICK e \in Devices : /\ table[s].frame \in Region(e)
                             /\ \E r \in DOMAIN runs : r.device = e.first
    BY <2>1 DEF FrameInv, Known
  <2>3. e # d
    BY <2>2
  <2>4. d.first + d.size <= e.first \/ e.first + e.size <= d.first
    BY <2>3, DevicesAssumption
  <2>5. e.first \in Nat /\ e.size \in Nat
    BY DevicesAssumption
  <2> QED
    BY <1>1, <2>2, <2>4, <2>5 DEF Region
<1>8. free \cap Region(d) = {}
  BY DevicesAssumption DEF FrameInv, Region
<1>9. TableInv'
  <2>1. \A s \in Slots : table'[s] \in [frame : Nat, low : {0, ATTRIBUTES}]
    BY <1>2, <1>5 DEF FrameInv, TableInv
  <2>2. table' \in [Slots -> [frame : Nat, low : {0, ATTRIBUTES}]]
    BY <1>5, <2>1
  <2> QED
    BY <1>5, <1>6, <2>2 DEF FrameInv, TableInv
<1>10. Known'
  <2> SUFFICES ASSUME NEW s \in Slots, table'[s].frame # NoFrame
               PROVE  \/ table'[s].frame \in Frames
                      \/ \E e \in Devices : /\ table'[s].frame \in Region(e)
                                            /\ \E r \in DOMAIN runs' : r.device = e.first
    BY DEF Known
  <2>1. CASE s \in T
    BY <1>2, <1>4, <1>6, <2>1
  <2>2. CASE s \notin T
    BY <1>4, <1>5, <2>2 DEF FrameInv, Known
  <2> QED
    BY <2>1, <2>2
<1>11. NoFrameShared'
  <2> SUFFICES ASSUME NEW s \in Slots, table'[s].frame # NoFrame
               PROVE  /\ table'[s].frame \notin free'
                      /\ \A t \in Slots \ {s} : table'[t].frame # table'[s].frame
    BY DEF NoFrameShared
  <2>1. CASE s \in T
    <3>1. table'[s].frame = frame(s) /\ frame(s) \in Region(d)
      BY <1>2, <1>6, <2>1
    <3>2. ASSUME NEW t \in Slots \ {s} PROVE table'[t].frame # table'[s].frame
      <4>1. CASE t \in T
        BY <1>2, <1>6, <2>1, <3>1, <4>1
      <4>2. CASE t \notin T
        BY <1>2, <1>5, <1>7, <2>1, <3>1, <4>2 DEF NoFrame
      <4> QED
        BY <4>1, <4>2
    <3> QED
      BY <1>3, <1>8, <3>1, <3>2
  <2>2. CASE s \notin T
    <3>1. table'[s].frame = table[s].frame /\ table[s].frame \notin free
      BY <1>5, <2>2 DEF FrameInv, NoFrameShared
    <3>2. ASSUME NEW t \in Slots \ {s} PROVE table'[t].frame # table'[s].frame
      <4>1. CASE t \in T
        BY <1>2, <1>6, <1>7, <3>1, <4>1
      <4>2. CASE t \notin T
        BY <1>5, <3>1, <4>2 DEF FrameInv, NoFrameShared
      <4> QED
        BY <4>1, <4>2
    <3> QED
      BY <1>3, <3>1, <3>2
  <2> QED
    BY <2>1, <2>2
<1> QED
  BY <1>3, <1>4, <1>9, <1>10, <1>11 DEF FrameInv

\* A run given back releases nothing: an entry without attribute bits shows
\* no frame.  The runs of devices stay.
LEMMA FreeEffect ==
    ASSUME RunsInv, TableInv, Free
    PROVE  /\ RunsInv' /\ TableInv' /\ free' = free
           /\ \A r \in DOMAIN runs : r.device # NoFrame => r \in DOMAIN runs'
           /\ \A s \in Slots : table'[s] = table[s] \/ table'[s].frame = NoFrame
<1>1. PICK run \in DOMAIN runs :
         run.device = NoFrame /\ free_kheap_pages(run.first, run.size)
         /\ runs' = runs (-) SetToBag({run})
  BY DEF Free, BagToSet
<1>2. /\ RunsInv' /\ \A r \in DOMAIN runs : r.device # NoFrame => r \in DOMAIN runs'
  BY <1>1, TakenBack
<1>3. ASSUME NEW slots \in SUBSET Slots PROVE Released(slots) = {}
  BY SizesAssumption DEF Released, TableInv, NoFrame, ATTRIBUTES
<1>4. /\ free' = free
      /\ table' \in [Slots -> [frame : Nat, low : {0, ATTRIBUTES}]]
      /\ \A s \in Slots : table'[s] = table[s] \/ table'[s] = Empty
  <2>1. CASE ~InWindow(run.first)
    BY <1>1, <2>1 DEF free_kheap_pages, TableInv
  <2>2. CASE InWindow(run.first)
    <3> DEFINE T == Touched(run.first, run.size)
    <3>1. T \in SUBSET Slots
      BY DEF Touched
    <3>2. table' = [s \in Slots |-> IF s \in T THEN Empty ELSE table[s]] /\ free' = free
      BY <1>1, <1>3, <2>2, <3>1 DEF free_kheap_pages
    <3> HIDE DEF T
    <3>3. Empty \in [frame : Nat, low : {0, ATTRIBUTES}]
      BY DEF Empty, NoFrame
    <3> QED
      BY <3>2, <3>3 DEF TableInv
  <2> QED
    BY <2>1, <2>2
<1>5. \A s \in Slots : table'[s] = table[s] \/ table'[s].frame = NoFrame
  BY <1>4 DEF Empty
<1>6. TableInv'
  BY <1>4, <1>5 DEF TableInv
<1> QED
  BY <1>2, <1>4, <1>5, <1>6

LEMMA FrameFree ==
    ASSUME FrameInv, Free
    PROVE  FrameInv' /\ free' \subseteq free
<1>1. /\ RunsInv' /\ TableInv' /\ free' = free
      /\ \A r \in DOMAIN runs : r.device # NoFrame => r \in DOMAIN runs'
      /\ \A s \in Slots : table'[s].frame # NoFrame => table'[s] = table[s]
  BY FreeEffect DEF FrameInv
<1>2. Known'
  BY <1>1, DevicesAssumption DEF FrameInv, Known, NoFrame
<1>3. NoFrameShared'
  BY <1>1 DEF FrameInv, NoFrameShared
<1> QED
  BY <1>1, <1>2, <1>3 DEF FrameInv

LEMMA FrameNext == FrameInv /\ [HNext]_hvars => FrameInv' /\ free' \subseteq free
<1> SUFFICES ASSUME FrameInv, [HNext]_hvars PROVE FrameInv' /\ free' \subseteq free
  OBVIOUS
<1>1. CASE Alloc
  BY <1>1, FrameAlloc DEF Alloc
<1>2. CASE Map
  BY <1>2, FrameMap DEF Map, BagToSet
<1>3. CASE Free
  BY <1>3, FrameFree
<1>4. CASE UNCHANGED hvars
  BY <1>4 DEF hvars, FrameInv, RunsInv, TableInv, Known, NoFrameShared
<1> QED
  BY <1>1, <1>2, <1>3, <1>4 DEF HNext

LEMMA FrameAlways == HSpec => []FrameInv
BY FrameInit, FrameNext, PTL DEF HSpec

\* Whatever runs alloc_kheap_pages and map_physical_address_to_kheap hand out,
\* overlapping ones too, and in whatever order free_kheap_pages takes them
\* back: no two heap pages show the same frame, and none that shows is free.
THEOREM FramesApart == HSpec => []NoFrameShared
<1>1. FrameInv => NoFrameShared
  BY DEF FrameInv
<1> QED
  BY <1>1, FrameAlways, PTL

\* free_kheap_pages passes entries with their attribute bits, so no frame
\* ever goes back to the physical memory manager.
THEOREM FramesKept == HSpec => FramesNeverReturn
<1>1. FrameInv /\ [HNext]_hvars => [free' \subseteq free]_hvars
  BY FrameNext
<1> QED
  BY <1>1, FrameAlways, PTL DEF HSpec, FramesNeverReturn

-----------------------------------------------------------------------------
(* Available pages have empty entries. *)

\* Until the kernel faults, a run that begins in the window ends in it.
WindowInv ==
    /\ ~faulted => \A s \in Slots : bitmap[s] = AVAILABLE => table[s] = Empty
    /\ ~faulted => \A r \in DOMAIN runs : InWindow(r.first) => Inside(r)
    /\ faulted => ~AllInside

LEMMA EntryWraps ==
    ASSUME NEW a \in Nat
    PROVE  /\ a < PAGE_TABLE_SIZE => entry(a) = a
           /\ PAGE_TABLE_SIZE <= a /\ a < 2 * PAGE_TABLE_SIZE => entry(a) = a - PAGE_TABLE_SIZE
<1>1. PAGE_TABLE_SIZE \in Nat \ {0} /\ a # NULL
  BY SizesAssumption DEF NULL
<1>2. ASSUME a < PAGE_TABLE_SIZE PROVE a % PAGE_TABLE_SIZE = a
  BY <1>1, <1>2
<1>3. ASSUME PAGE_TABLE_SIZE <= a, a < 2 * PAGE_TABLE_SIZE
      PROVE  a % PAGE_TABLE_SIZE = a - PAGE_TABLE_SIZE
  BY <1>1, <1>3
<1> QED
  BY <1>1, <1>2, <1>3 DEF entry

\* The bytes a search looks at cover the window.
LEMMA SlotByte ==
    ASSUME NEW n \in Nat, NEW s \in Slots, bitmap[s] = AVAILABLE,
           PAGE_TABLE_SIZE + 8 * NumBytes(n) + 8 <= 8 * KHEAP_BITMAP_SIZE
    PROVE  \E i \in 0 .. (KHEAP_BITMAP_SIZE - NumBytes(n) - 2) :
               NonZeroByte(i) /\ 8 * i <= s /\ s < 8 * i + 8
<1> DEFINE i == s \div 8
<1>1. /\ s \in Nat /\ s < PAGE_TABLE_SIZE /\ PAGE_TABLE_SIZE \in Nat
      /\ KHEAP_BITMAP_SIZE \in Nat /\ NumBytes(n) \in Nat
  BY SizesAssumption DEF Slots, NumBytes
<1>2. i \in Nat /\ 8 * i <= s /\ s < 8 * i + 8 /\ s - 8 * i \in 0 .. 7
  BY <1>1
<1>3. 8 * i + (s - 8 * i) = s
  BY <1>1, <1>2
<1>4. NonZeroByte(i)
  BY <1>2, <1>3 DEF NonZeroByte
<1> HIDE DEF i
<1>5. i \in 0 .. (KHEAP_BITMAP_SIZE - NumBytes(n) - 2)
  BY <1>1, <1>2
<1> QED
  BY <1>2, <1>4, <1>5

\* A run that is handed out covers no available page but its own, also when
\* it wraps to the beginning of the table.
LEMMA TouchedUnavailable ==
    ASSUME NEW n \in RunSizes \cup {d.size : d \in Devices}
    PROVE  LET a == get_free_continuous_blocks_address(n) IN
           \A s \in Touched(a, n) : bitmap[s] = AVAILABLE => a # NULL /\ a <= s /\ s < a + n
<1> DEFINE a == get_free_continuous_blocks_address(n)
           nb == NumBytes(n)
           bytes == 0 .. (KHEAP_BITMAP_SIZE - nb - 2)
<1> SUFFICES ASSUME NEW s \in Touched(a, n), bitmap[s] = AVAILABLE
             PROVE  a # NULL /\ a <= s /\ s < a + n
  OBVIOUS
<1>1. /\ n \in Nat \ {0} /\ nb \in Nat
      /\ 8 * nb + n <= PAGE_TABLE_SIZE /\ PAGE_TABLE_SIZE + 8 * nb + 8 <= 8 * KHEAP_BITMAP_SIZE
      /\ PAGE_TABLE_SIZE \in Nat /\ KHEAP_BITMAP_SIZE \in Nat
  <2>1. n \in Nat \ {0}
    BY SizesAssumption, DevicesAssumption
  <2> QED
    BY <2>1, SizesAssumption, WindowAssumption DEF NumBytes
<1>2. s \in Slots /\ entry(a) <= s /\ s < entry(a) + n /\ s \in Nat /\ s < PAGE_TABLE_SIZE
  BY <1>1 DEF Touched, Slots
<1>3. PICK k \in bytes : NonZeroByte(k) /\ 8 * k <= s /\ s < 8 * k + 8
  BY <1>1, <1>2, SlotByte
<1>4. PICK i \in bytes : /\ \A j \in bytes : j < i => ~NonZeroByte(j)
                         /\ a \in 8 * i .. 8 * i + 8 * nb
  BY <1>1, <1>3, AddressFound
<1> HIDE DEF a, nb
<1>5. /\ i \in Nat /\ k \in Nat /\ i <= k /\ a \in Nat
      /\ 8 * i <= s /\ 8 * i <= a /\ a <= 8 * i + 8 * nb
  <2>1. i \in Nat /\ k \in Nat /\ a \in Nat /\ 8 * i <= a /\ a <= 8 * i + 8 * nb
    BY <1>1, <1>4
  <2>2. ~(k < i)
    BY <1>3, <1>4
  <2> QED
    BY <1>2, <1>3, <2>1, <2>2
<1>6. a < 2 * PAGE_TABLE_SIZE
  BY <1>1, <1>2, <1>5
<1>7. CASE a < PAGE_TABLE_SIZE
  BY <1>2, <1>5, <1>7, EntryWraps DEF NULL
<1>8. CASE PAGE_TABLE_SIZE <= a
  <2>1. entry(a) = a - PAGE_TABLE_SIZE
    BY <1>5, <1>6, <1>8, EntryWraps
  <2>2. s < 8 * i
    BY <1>1, <1>2, <1>5, <2>1
  <2> QED
    BY <1>1, <1>2, <1>5, <2>2
<1> QED
  BY <1>1, <1>5, <1>7, <1>8

LEMMA WindowInit == HInit => WindowInv
BY DEF HInit, WindowInv, EmptyBag, SetToBag

LEMMA WindowPlace ==
    ASSUME RunsInv, WindowInv, ~faulted,
           NEW n \in RunSizes \cup {d.size : d \in Devices}, NEW device \in Nat,
           NEW a, a = get_free_continuous_blocks_address(n),
           bitmap' = IF a = NULL THEN bitmap ELSE turn_bits(a, n, UNAVAILABLE),
           \A s \in Slots \ Touched(a, n) : table'[s] = table[s],
           GiveOut(a, n, device), faulted' = Overruns(a, n)
    PROVE  WindowInv'
<1>1. /\ n \in Nat \ {0} /\ PAGE_TABLE_SIZE \in Nat \ {0}
      /\ PAGE_TABLE_SIZE + 8 * NumBytes(n) + 8 <= 8 * KHEAP_BITMAP_SIZE
  BY SizesAssumption, DevicesAssumption, WindowAssumption DEF NumBytes
<1>2. a \in Nat \cup {NULL} /\ entry(a) \in Slots
  BY <1>1, EntryInTable
<1> DEFINE r == [first |-> a, size |-> n, device |-> device]
<1>3. DOMAIN runs' = DOMAIN runs \cup {r}
  BY <1>1, <1>2, GivenOut
<1>4. r.first = a /\ r.size = n
  OBVIOUS
<1> HIDE DEF r
<1>5. InWindow(a) => a \in Nat /\ entry(a) = a
  BY <1>2, EntryWraps DEF InWindow
<1>6. ASSUME faulted' PROVE ~AllInside'
  <2>1. entry(a) + n > PAGE_TABLE_SIZE
    BY <1>6 DEF Overruns
  <2>2. ~Inside(r)
    BY <1>1, <1>2, <1>4, <1>5, <2>1 DEF Inside, InWindow
  <2> QED
    BY <1>3, <2>2 DEF AllInside, BagToSet
<1>7. ASSUME ~faulted' PROVE \A q \in DOMAIN runs' : InWindow(q.first) => Inside(q)
  <2>1. ~(entry(a) + n > PAGE_TABLE_SIZE)
    BY <1>7 DEF Overruns
  <2>2. InWindow(r.first) => Inside(r)
    BY <1>1, <1>4, <1>5, <2>1 DEF Inside, InWindow
  <2> QED
    BY <1>3, <2>2 DEF WindowInv
<1>8. ASSUME NEW s \in Slots, bitmap'[s] = AVAILABLE PROVE table'[s] = Empty
  <2>1. bitmap[s] = AVAILABLE /\ (a # NULL => ~(a <= s /\ s < a + n))
    <3>1. CASE a = NULL
      BY <1>8, <3>1
    <3>2. CASE a # NULL
      <4>1. s \in HeapPages
        BY SizesAssumption DEF Slots, HeapPages
      <4> QED
        BY <1>8, <3>2, <4>1 DEF turn_bits, AVAILABLE, UNAVAILABLE
    <3> QED
      BY <3>1, <3>2
  <2>2. s \notin Touched(a, n)
    BY <2>1, TouchedUnavailable
  <2> QED
    BY <2>1, <2>2 DEF WindowInv
<1> QED
  BY <1>6, <1>7, <1>8 DEF WindowInv

LEMMA WindowFree ==
    ASSUME RunsInv, WindowInv, ~faulted, Free
    PROVE  WindowInv'
<1>1. PICK run \in DOMAIN runs :
         free_kheap_pages(run.first, run.size) /\ runs' = runs (-) SetToBag({run})
  BY DEF Free, BagToSet
<1>2. DOMAIN runs' \subseteq DOMAIN runs
  BY <1>1, TakenBack
<1> DEFINE a == run.first
           n == run.size
<1>3. a \in Nat \cup {NULL} /\ n \in Nat \ {0} /\ PAGE_TABLE_SIZE \in Nat
  BY SizesAssumption DEF RunsInv, Run
<1>4. CASE ~InWindow(a)
  BY <1>1, <1>2, <1>4 DEF free_kheap_pages, WindowInv
<1>5. CASE InWindow(a)
  <2>1. /\ bitmap' = turn_bits(a, n, AVAILABLE)
        /\ table' = [s \in Slots |-> IF s \in Touched(a, n) THEN Empty ELSE table[s]]
        /\ faulted' = Overruns(a, n)
    BY <1>1, <1>5 DEF free_kheap_pages
  <2>2. a \in Nat /\ entry(a) = a /\ a + n <= PAGE_TABLE_SIZE
    BY <1>3, <1>5, EntryWraps DEF InWindow, WindowInv, Inside
  <2> HIDE DEF a, n
  <2>3. ~faulted'
    <3>1. Overruns(a, n) = FALSE
      BY <1>3, <2>2 DEF Overruns
    <3> QED
      BY <2>1, <3>1
  <2>4. ASSUME NEW s \in Slots, bitmap'[s] = AVAILABLE PROVE table'[s] = Empty
    <3>1. CASE s \in Touched(a, n)
      BY <2>1, <3>1
    <3>2. CASE s \notin Touched(a, n)
      <4>1. ~(a <= s /\ s < a + n)
        BY <2>2, <3>2 DEF Touched
      <4>2. s \in HeapPages
        BY SizesAssumption DEF HeapPages, Slots
      <4> QED
        BY <2>1, <2>4, <3>2, <4>1, <4>2 DEF turn_bits, WindowInv
    <3> QED
      BY <3>1, <3>2
  <2> QED
    BY <1>2, <2>3, <2>4 DEF WindowInv
<1> QED
  BY <1>4, <1>5

LEMMA WindowNext == FrameInv /\ WindowInv /\ [HNext]_hvars => WindowInv'
<1> SUFFICES ASSUME FrameInv, WindowInv, [HNext]_hvars PROVE WindowInv'
  OBVIOUS
<1>1. RunsInv
  BY DEF FrameInv
<1>2. ASSUME ~faulted, NEW n \in RunSizes, alloc_kheap_pages(n)
      PROVE  WindowInv'
  <2> DEFINE a == get_free_continuous_blocks_address(n)
  <2>1. /\ bitmap' = IF a = NULL THEN bitmap ELSE turn_bits(a, n, UNAVAILABLE)
        /\ \A s \in Slots \ Touched(a, n) : table'[s] = table[s]
        /\ GiveOut(a, n, NoFrame) /\ faulted' = Overruns(a, n) /\ NoFrame \in Nat
    BY <1>2 DEF alloc_kheap_pages, NoFrame
  <2> QED
    BY <1>1, <1>2, <2>1, WindowPlace
<1>3. ASSUME ~faulted, NEW d \in Devices, map_physical_address_to_kheap(d)
      PROVE  WindowInv'
  <2> DEFINE n == d.size
             a == get_free_continuous_blocks_address(n)
  <2>1. /\ bitmap' = IF a = NULL THEN bitmap ELSE turn_bits(a, n, UNAVAILABLE)
        /\ \A s \in Slots \ Touched(a, n) : table'[s] = table[s]
        /\ GiveOut(a, n, d.first) /\ faulted' = Overruns(a, n)
    BY <1>3 DEF map_physical_address_to_kheap
  <2>2. d.first \in Nat /\ n \in RunSizes \cup {e.size : e \in Devices}
    BY DevicesAssumption
  <2> QED
    BY <1>1, <1>3, <2>1, <2>2, WindowPlace
<1>4. CASE ~faulted /\ Free
  BY <1>1, <1>4, WindowFree
<1>5. CASE UNCHANGED hvars
  BY <1>5 DEF hvars, WindowInv, AllInside
<1> QED
  BY <1>2, <1>3, <1>4, <1>5 DEF HNext, Alloc, Map

\* A page the next search may choose has an empty entry, even after runs
\* overlapped or wrapped to the beginning of the page table.
THEOREM AvailableSafe == HSpec => []AvailableUnmapped
<1>1. WindowInv => AvailableUnmapped
  BY DEF WindowInv, AvailableUnmapped
<1> QED
  BY <1>1, WindowInit, WindowNext, FrameAlways, PTL DEF HSpec

-----------------------------------------------------------------------------
(* The search of one stretch. *)

\* With the free blocks in one stretch from first on, the n-th of them is
\* n - 1 blocks behind first.
LEMMA OneStretch ==
    ASSUME NEW buffer, NEW size \in Nat, NEW n \in Nat \ {0},
           NEW first \in 0 .. size - 1, NEW last \in first .. size - 1,
           \A j \in 0 .. size - 1 : buffer[j] = AVAILABLE <=> first <= j /\ j <= last
    PROVE  find_continuous_blocks_index(buffer, size, n) =
             IF first + n - 1 <= last /\ first + n < size THEN first ELSE size
<1> DEFINE counted(p) == {j \in 0 .. p : buffer[j] = AVAILABLE}
           ends == {p \in 0 .. (size - 2) : p \in counted(p) /\ Cardinality(counted(p)) = n}
           P(i) == \E p \in ends :
                      i <= p /\ i .. p \subseteq counted(p) /\ (i = 0 \/ i - 1 \notin counted(p))
<1>1. find_continuous_blocks_index(buffer, size, n) =
        IF ends = {} THEN size ELSE CHOOSE i \in 0 .. (size - 1) : P(i)
  BY DEF find_continuous_blocks_index
<1>2. ASSUME NEW p \in first .. last
      PROVE  counted(p) = first .. p /\ Cardinality(counted(p)) = p - first + 1
  <2>1. counted(p) = first .. p
    BY <1>2
  <2>2. Cardinality(first .. p) = p - first + 1
    BY <1>2, FS_Interval
  <2> HIDE DEF counted
  <2> QED
    BY <2>1, <2>2
<1>3. \A p \in 0 .. (size - 2) : p \in counted(p) <=> p \in first .. last
  OBVIOUS
<1> HIDE DEF counted
<1>4. \A p : p \in ends <=> p = first + n - 1 /\ p <= last /\ p <= size - 2
  BY <1>2, <1>3
<1> HIDE DEF ends
<1>5. CASE first + n - 1 <= last /\ first + n < size
  <2> DEFINE q == first + n - 1
  <2>1. q \in ends /\ \A p \in ends : p = q
    BY <1>4, <1>5
  <2>2. counted(q) = first .. q /\ q \in Nat /\ first <= q /\ q < size
    BY <1>2, <1>5
  <2> HIDE DEF q
  <2>3. \A i \in 0 .. (size - 1) :
          P(i) <=> i <= q /\ i .. q \subseteq counted(q) /\ (i = 0 \/ i - 1 \notin counted(q))
    BY <2>1
  <2>4. \A i \in 0 .. (size - 1) :
          i <= q /\ i .. q \subseteq (first .. q) /\ (i = 0 \/ i - 1 \notin first .. q) <=> i = first
    <3> SUFFICES ASSUME NEW i \in 0 .. (size - 1)
                 PROVE  i <= q /\ i .. q \subseteq (first .. q) /\ (i = 0 \/ i - 1 \notin first .. q)
                          <=> i = first
      OBVIOUS
    <3>1. i <= q => i \in i .. q
      BY <2>2
    <3> QED
      BY <2>2, <3>1
  <2> HIDE DEF P
  <2>5. \A i \in 0 .. (size - 1) : P(i) <=> i = first
    BY <2>2, <2>3, <2>4
  <2>6. ends # {}
    BY <2>1
  <2> QED
    BY <1>1, <1>5, <2>5, <2>6
<1>6. CASE ~(first + n - 1 <= last /\ first + n < size)
  <2>1. ends = {}
    BY <1>4, <1>6
  <2> QED
    BY <1>1, <1>6, <2>1
<1> QED
  BY <1>5, <1>6

\* Without a free block the search fails.
LEMMA NoStretch ==
    ASSUME NEW buffer, NEW size \in Nat, NEW n,
           \A j \in 0 .. size - 1 : buffer[j] # AVAILABLE
    PROVE  find_continuous_blocks_index(buffer, size, n) = size
<1> DEFINE counted(p) == {j \in 0 .. p : buffer[j] = AVAILABLE}
<1>1. {p \in 0 .. (size - 2) : p \in counted(p) /\ Cardinality(counted(p)) = n} = {}
  OBVIOUS
<1> QED
  BY <1>1 DEF find_continuous_blocks_index

\* A stretch has a first and a last block.
LEMMA Bounds ==
    ASSUME NEW size \in Nat, NEW S \in SUBSET (0 .. size - 1), S # {},
           \A j, k \in S : j .. k \subseteq S
    PROVE  \E first \in 0 .. size - 1 : \E last \in first .. size - 1 :
               \A j \in 0 .. size - 1 : j \in S <=> first <= j /\ j <= last
<1>1. PICK first \in S : \A j \in S : first <= j
  BY NatMin
<1> DEFINE U == {k \in 0 .. size - 1 : \A j \in S : j <= k}
<1>2. size - 1 \in U /\ U \subseteq Nat
  BY <1>1
<1>3. PICK last \in U : \A k \in U : last <= k
  <2> HIDE DEF U
  <2> QED
    BY <1>2, NatMin
<1>4. last \in S
  <2>1. SUFFICES ASSUME last \notin S PROVE FALSE
    OBVIOUS
  <2>2. \A j \in S : j <= last - 1
    BY <1>3, <2>1
  <2>3. last - 1 \in U
    BY <1>1, <1>3, <2>2
  <2> QED
    BY <1>3, <2>3
<1>5. ASSUME NEW j \in 0 .. size - 1 PROVE j \in S <=> first <= j /\ j <= last
  <2>1. first .. last \subseteq S
    BY <1>1, <1>4
  <2> QED
    BY <1>1, <1>3, <2>1
<1> QED
  BY <1>1, <1>3, <1>5

LEMMA SearchExact ==
    ASSUME NEW buffer, NEW size \in Nat, NEW n \in Nat \ {0}
    PROVE  LET unused == {k \in 0 .. (size - 1) : buffer[k] = AVAILABLE}
               places == {k \in unused : k .. (k + n - 1) \subseteq unused /\ k + n < size}
               found == find_continuous_blocks_index(buffer, size, n)
           IN  (\A j, k \in unused : j .. k \subseteq unused) =>
                 IF places = {} THEN found = size
                 ELSE found \in places /\ \A k \in places : found <= k
<1> DEFINE unused == {k \in 0 .. (size - 1) : buffer[k] = AVAILABLE}
           places == {k \in unused : k .. (k + n - 1) \subseteq unused /\ k + n < size}
           found == find_continuous_blocks_index(buffer, size, n)
<1> SUFFICES ASSUME \A j, k \in unused : j .. k \subseteq unused
             PROVE  IF places = {} THEN found = size
                    ELSE found \in places /\ \A k \in places : found <= k
  OBVIOUS
<1> HIDE DEF found
<1>1. CASE unused = {}
  <2>1. found = size
    BY <1>1, NoStretch DEF found
  <2> QED
    BY <1>1, <2>1
<1>2. CASE unused # {}
  <2>1. PICK first \in 0 .. size - 1 : \E last \in first .. size - 1 :
           \A j \in 0 .. size - 1 : j \in unused <=> first <= j /\ j <= last
    <3>1. unused \in SUBSET (0 .. size - 1)
      OBVIOUS
    <3> HIDE DEF unused
    <3> QED
      BY <1>2, <3>1, Bounds
  <2>2. PICK last \in first .. size - 1 :
           \A j \in 0 .. size - 1 : j \in unused <=> first <= j /\ j <= last
    BY <2>1
  <2>3. found = IF first + n - 1 <= last /\ first + n < size THEN first ELSE size
    <3>1. \A j \in 0 .. size - 1 : buffer[j] = AVAILABLE <=> first <= j /\ j <= last
      BY <2>2
    <3> QED
      BY <3>1, OneStretch DEF found
  <2>4. unused = first .. last
    BY <2>2
  <2> HIDE DEF unused
  <2>5. \A k : k \in places <=> k \in first .. last /\ k + n - 1 <= last /\ k + n < size
    <3>1. \A k \in first .. last : k .. (k + n - 1) \subseteq (first .. last) <=> k + n - 1 <= last
      <4> SUFFICES ASSUME NEW k \in first .. last
                   PROVE  k .. (k + n - 1) \subseteq (first .. last) <=> k + n - 1 <= last
        OBVIOUS
      <4>1. k + n - 1 \in k .. (k + n - 1)
        OBVIOUS
      <4> QED
        BY <4>1
    <3> QED
      BY <2>4, <3>1
  <2> HIDE DEF places
  <2>6. CASE first + n - 1 <= last /\ first + n < size
    BY <2>3, <2>5, <2>6
  <2>7. CASE ~(first + n - 1 <= last /\ first + n < size)
    <3>1. places = {}
      BY <2>5, <2>7
    <3> QED
      BY <2>3, <2>7, <3>1
  <2> QED
    BY <2>6, <2>7
<1> QED
  BY <1>1, <1>2

\* find_continuous_blocks_index finds the first place for the request, but
\* for the last block, in any lookup table whose free blocks are one stretch:
\* of every state, and of every size.
THEOREM SearchSafe == HSpec => []OneStretchExact
<1>1. OneStretchExact
  <2> SUFFICES ASSUME NEW n \in RunSizes,
                      NEW i \in 0 .. (KHEAP_BITMAP_SIZE - ((n + 7) \div 8) - 2)
               PROVE  LET size == 8 * ((n + 7) \div 8)
                          buffer == parse_lookup_table(i, (n + 7) \div 8)
                          unused == {k \in 0 .. (size - 1) : buffer[k] = AVAILABLE}
                          places == {k \in unused : k .. (k + n - 1) \subseteq unused /\ k + n < size}
                          found == find_continuous_blocks_index(buffer, size, n)
                      IN  (\A j, k \in unused : j .. k \subseteq unused) =>
                            IF places = {} THEN found = size
                            ELSE found \in places /\ \A k \in places : found <= k
    BY DEF OneStretchExact
  <2>1. n \in Nat \ {0} /\ 8 * ((n + 7) \div 8) \in Nat
    BY SizesAssumption
  <2> QED
    BY <2>1, SearchExact
<1> QED
  BY <1>1, PTL
=============================================================================
