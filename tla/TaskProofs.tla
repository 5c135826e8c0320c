----------------------------- MODULE TaskProofs -----------------------------
(***************************************************************************)
(* Loading tasks, again and again: the directory in CR3 stays a directory  *)
(* the kernel can run on, every frame in it has one purpose, and a task    *)
(* that is entered has all its pages, for every size of tables and memory  *)
(* and every program.                                                      *)
(***************************************************************************)
EXTENDS Task, WellFoundedInduction, TLAPS

EntryType == [frame : Nat, low : Nat]
Memory == [Frames \cup {NoFrame, BOOT} -> [Index -> EntryType]]
User == 0 .. (KERNEL_PGD_ENTRY_INDEX - 1)
UserPages == 0 .. (KERNEL_VIRTUAL_OFFSET - 1)

\* The directory d has a page at j of its i-th table.
HasPage(m, d, i, j) == m[d][i] # Empty /\ m[m[d][i].frame][j] # Empty
PageAt(m, d, i, j) == m[m[d][i].frame][j].frame

\* The directory d is a tree of tables and pages: no frame is in it twice,
\* and none of it is in U.
Tree(m, d, U) ==
    /\ d \in Frames \ U
    /\ \A i \in User : m[d][i] # Empty => m[d][i].frame \in Frames \ U /\ m[d][i].frame # d
    /\ \A i, k \in User :
          m[d][i] # Empty /\ m[d][k] # Empty /\ m[d][i].frame = m[d][k].frame => i = k
    /\ \A i \in User, j \in Index :
          HasPage(m, d, i, j) => PageAt(m, d, i, j) \in Frames \ U /\ PageAt(m, d, i, j) # d
    /\ \A i, k \in User, j \in Index :
          HasPage(m, d, i, j) /\ m[d][k] # Empty => PageAt(m, d, i, j) # m[d][k].frame
    /\ \A i, k \in User, j, l \in Index :
          HasPage(m, d, i, j) /\ HasPage(m, d, k, l) /\ PageAt(m, d, i, j) = PageAt(m, d, k, l)
          => i = k /\ j = l

\* The kernel can run on the directory d.
Kernel(m, d) ==
    /\ \A i \in KERNEL_PGD_ENTRY_INDEX .. (ENTRIES - 2) : m[d][i] = Entry(KERNEL_TABLES, RW)
    /\ m[d][RECURSIVE_ENTRY] = Entry(d, RW)

-----------------------------------------------------------------------------
(* Numbers. *)

\* What the assumption on the constants says.
LEMMA Sizes ==
    /\ ENTRIES \in Nat /\ KERNEL_PGD_ENTRY_INDEX \in Nat /\ KERNEL_PGD_ENTRY_INDEX < ENTRIES - 1
    /\ USER_SPACE_LIMIT \in Nat /\ USER_SPACE_LIMIT < KERNEL_PGD_ENTRY_INDEX
    /\ BOOT \in Nat \ {0} /\ KERNEL_TABLES \in Nat \ {0} /\ Frames \subseteq Nat \ {0}
    /\ BOOT \notin Frames /\ NoFrame \notin Frames
    /\ User \subseteq Index /\ Index \subseteq Nat
    /\ KERNEL_VIRTUAL_OFFSET \in Nat /\ PAGES \in Nat /\ KERNEL_VIRTUAL_OFFSET < PAGES
<1>1. /\ ENTRIES \in Nat /\ KERNEL_PGD_ENTRY_INDEX \in Nat /\ KERNEL_PGD_ENTRY_INDEX < ENTRIES - 1
      /\ USER_SPACE_LIMIT \in Nat /\ USER_SPACE_LIMIT < KERNEL_PGD_ENTRY_INDEX
      /\ BOOT \in Nat \ {0} /\ KERNEL_TABLES \in Nat \ {0} /\ Frames \subseteq Nat \ {0}
      /\ BOOT \notin Frames
  BY SpaceAssumption
<1>2. NoFrame \notin Frames
  BY <1>1 DEF NoFrame
<1>3. User \subseteq Index /\ Index \subseteq Nat
  BY <1>1 DEF User, Index
<1>4. \A a, b \in Nat : a * b \in Nat
  OBVIOUS
<1>5. KERNEL_VIRTUAL_OFFSET \in Nat
  BY <1>1, <1>4 DEF KERNEL_VIRTUAL_OFFSET
<1>6. PAGES \in Nat /\ KERNEL_VIRTUAL_OFFSET < PAGES
  <2>1. PICK e, k : e = ENTRIES /\ k = KERNEL_PGD_ENTRY_INDEX
    OBVIOUS
  <2>2. e \in Nat /\ k \in Nat /\ k < e - 1
    BY <1>1, <2>1
  <2>3. PICK n \in Nat : e = k + 1 + n
    <3>1. e - k - 1 \in Nat /\ e = k + 1 + (e - k - 1)
      BY <2>2
    <3> QED
      BY <3>1
  <2>4. e * e = k * e + e + n * e /\ k * e \in Nat /\ n * e \in Nat /\ e > 0
    BY <2>2, <2>3
  <2>5. e * e \in Nat /\ k * e < e * e
    BY <2>2, <2>4
  <2> QED
    BY <2>1, <2>5 DEF PAGES, KERNEL_VIRTUAL_OFFSET
<1> QED
  BY <1>1, <1>2, <1>3, <1>5, <1>6

\* Division with remainder, by a number that is not fixed.
LEMMA Division ==
    ASSUME NEW w \in Nat \ {0}, NEW x \in Nat
    PROVE  x \div w \in Nat /\ x = (x \div w) * w + (x % w) /\ x % w \in 0 .. (w - 1)
<1>1. PICK p \in Nat : p = x \div w
  OBVIOUS
<1>2. x = p * w + (x % w) /\ x % w \in 0 .. (w - 1)
  BY <1>1
<1> QED
  BY <1>1, <1>2

\* The quotient by w of what is below q * w.
LEMMA Quotient ==
    ASSUME NEW w \in Nat \ {0}, NEW q \in Nat, NEW x \in Nat, x < q * w
    PROVE  x \div w \in 0 .. (q - 1) /\ x % w \in 0 .. (w - 1)
<1>1. PICK p \in Nat : p = x \div w
  OBVIOUS
<1>2. x = p * w + (x % w) /\ x % w \in 0 .. (w - 1)
  BY <1>1
<1>3. \A a, b \in Nat : a * b \in Nat
  OBVIOUS
<1>4. ASSUME ~(p < q) PROVE FALSE
  <2>1. PICK e \in Nat : p = q + e
    <3>1. p - q \in Nat /\ p = q + (p - q)
      BY <1>4
    <3> QED
      BY <3>1
  <2>2. p * w = q * w + e * w
    BY <2>1
  <2>3. q * w \in Nat /\ e * w \in Nat /\ p * w \in Nat
    BY <1>3
  <2> QED
    BY <1>2, <2>2, <2>3
<1> QED
  BY <1>1, <1>2, <1>4

\* What fits is left alone by a modulus, and so is what is added to it.
LEMMA Modulus ==
    ASSUME NEW w \in Nat \ {0}, NEW x \in Nat, x < w
    PROVE  x % w = x /\ (w + x) % w = x
<1>1. x % w = x
  <2>1. x \div w \in 0 .. (1 - 1)
    <3>1. x < 1 * w
      OBVIOUS
    <3> QED
      BY <3>1, Quotient
  <2>2. PICK p : p = x \div w
    OBVIOUS
  <2>3. p = 0 /\ x = p * w + (x % w) /\ x % w \in Nat
    BY <2>1, <2>2, Division
  <2> QED
    BY <2>3
<1>2. (w + x) % w = x
  <2>1. PICK y : y = w + x
    OBVIOUS
  <2>2. y \in Nat /\ y < 2 * w
    BY <2>1
  <2>3. PICK p, r : p = y \div w /\ r = y % w
    OBVIOUS
  <2>4. p \in 0 .. (2 - 1) /\ y = p * w + r /\ r \in 0 .. (w - 1)
    BY <2>2, <2>3, Quotient, Division
  <2>5. p # 0
    BY <2>1, <2>4
  <2>6. p = 1
    BY <2>4, <2>5
  <2> QED
    BY <2>1, <2>3, <2>4, <2>6
<1> QED
  BY <1>1, <1>2

\* The rounds of mmap: as many as it is asked for, unless the sum wraps.
LEMMA RoundsAre ==
    ASSUME NEW v \in Nat, NEW N \in Nat
    PROVE  /\ Rounds(v, N) \in Nat
           /\ Mappable(v, N) => v + Rounds(v, N) <= KERNEL_VIRTUAL_OFFSET
           /\ v + N < PAGES => End(v, N) = v + N /\ Rounds(v, N) = N
<1>1. PICK w, e : w = PAGES /\ e = End(v, N)
  OBVIOUS
<1>2. w \in Nat \ {0} /\ KERNEL_VIRTUAL_OFFSET \in Nat
  BY <1>1, Sizes
<1>3. e = (v + N) % w
  BY <1>1 DEF End
<1>4. e \in Nat
  <2>1. v + N \in Nat
    OBVIOUS
  <2> QED
    BY <1>2, <1>3, <2>1, Division
<1>5. Rounds(v, N) = IF v < e THEN e - v ELSE 0
  BY <1>1 DEF Rounds
<1>6. v + N < w => e = v + N
  <2>1. v + N \in Nat
    OBVIOUS
  <2> QED
    BY <1>2, <1>3, <2>1, Modulus
<1>7. Mappable(v, N) => v < KERNEL_VIRTUAL_OFFSET /\ e < KERNEL_VIRTUAL_OFFSET
  BY <1>1 DEF Mappable
<1>8. Rounds(v, N) \in Nat /\ (v + N < w => Rounds(v, N) = N)
  BY <1>4, <1>5, <1>6
<1>9. Mappable(v, N) => v + Rounds(v, N) <= KERNEL_VIRTUAL_OFFSET
  BY <1>2, <1>4, <1>5, <1>7
<1> QED
  BY <1>1, <1>6, <1>8, <1>9

\* A user page has its table among the user entries of the directory.
LEMMA PageIndex ==
    ASSUME NEW v \in UserPages
    PROVE  v \div ENTRIES \in User /\ v % ENTRIES \in Index
<1>1. /\ ENTRIES \in Nat \ {0} /\ KERNEL_PGD_ENTRY_INDEX \in Nat /\ v \in Nat
      /\ v < KERNEL_PGD_ENTRY_INDEX * ENTRIES
  BY Sizes DEF UserPages, KERNEL_VIRTUAL_OFFSET
<1> QED
  BY <1>1, Quotient DEF User, Index

\* A set of numbers that is not empty has a least element.
LEMMA NatMin ==
    ASSUME NEW S \in SUBSET Nat, S # {}
    PROVE  \E x \in S : \A y \in S : x <= y
<1> DEFINE R == {ss \in Nat \X Nat : ss[1] < ss[2]}
<1>1. OpToRel(<, Nat) = R
  BY Zenon DEF OpToRel
<1>2. IsWellFoundedOn(R, Nat)
  BY <1>1, NatLessThanWellFounded, Zenon
<1> HIDE DEF R
<1>3. PICK x \in S : \A y \in S : ~ (<<y, x>> \in R)
  BY <1>2, WFMin, Zenon
<1>4. \A y, z \in Nat : y < z => <<y, z>> \in R
  BY DEF R
<1>5. ASSUME NEW y \in S PROVE x <= y
  <2>1. x \in Nat /\ y \in Nat
    OBVIOUS
  <2>2. ~(<<y, x>> \in R)
    BY <1>3, Zenon
  <2>3. ~(y < x)
    BY <1>4, <2>1, <2>2, Zenon
  <2> QED
    BY <2>1, <2>3
<1> QED
  BY <1>5

-----------------------------------------------------------------------------
(* Trees. *)

\* Entries, the zeroed table and junk are what memory holds.
LEMMA Entries ==
    /\ Empty \in EntryType /\ Entry(KERNEL_TABLES, RW) \in EntryType
    /\ \A f \in Nat : /\ Entry(f, RW) \in EntryType /\ Entry(f, RWU) \in EntryType
                      /\ Entry(f, RW) # Empty /\ Entry(f, RWU) # Empty
                      /\ Entry(f, RWU).frame = f
    /\ Zeroed \in [Index -> EntryType] /\ Junk \in [Index -> EntryType]
    /\ \A i \in Index : Zeroed[i] = Empty
<1>1. /\ Empty \in EntryType
      /\ \A f \in Nat : /\ Entry(f, RW) \in EntryType /\ Entry(f, RWU) \in EntryType
                        /\ Entry(f, RW) # Empty /\ Entry(f, RWU) # Empty
                        /\ Entry(f, RWU).frame = f
  BY DEF Empty, Entry, EntryType, RW, RWU
<1>2. Zeroed \in [Index -> EntryType] /\ \A i \in Index : Zeroed[i] = Empty
  BY <1>1 DEF Zeroed
<1>3. Junk \in [Index -> EntryType]
  BY DEF Junk, Entry, EntryType, NoFrame
<1> QED
  BY <1>1, <1>2, <1>3, Sizes

\* What is written elsewhere leaves the tree alone.
LEMMA Elsewhere ==
    ASSUME NEW m, NEW n, NEW d, NEW U, NEW V, Tree(m, d, U), V \subseteq U, n[d] = m[d],
           \A i \in User : m[d][i] # Empty => n[m[d][i].frame] = m[m[d][i].frame]
    PROVE  /\ Tree(n, d, V)
           /\ \A i \in User, j \in Index : HasPage(n, d, i, j) <=> HasPage(m, d, i, j)
<1>1. \A i \in User, j \in Index :
         /\ HasPage(n, d, i, j) <=> HasPage(m, d, i, j)
         /\ HasPage(m, d, i, j) => PageAt(n, d, i, j) = PageAt(m, d, i, j)
  BY DEF HasPage, PageAt
<1> QED
  BY <1>1 DEF Tree

\* A new table t at i of the directory, and a new page f at j of its i-th table.
WithTable(m, d, i, t) == [[m EXCEPT ![d][i] = Entry(t, RWU)] EXCEPT ![t] = Zeroed]
WithPage(m, d, i, j, f) == [m EXCEPT ![m[d][i].frame][j] = Entry(f, RWU)]

TableFits(m, d, U, i, t) ==
    /\ m \in Memory /\ U \subseteq Frames /\ Tree(m, d, U) /\ t \in U
    /\ i \in User /\ m[d][i] = Empty

TableAdded(n, m, d, U, i, t) ==
    /\ n \in Memory /\ Tree(n, d, U \ {t})
    /\ n[d] = [m[d] EXCEPT ![i] = Entry(t, RWU)] /\ n[t] = Zeroed
    /\ n[d][i] = Entry(t, RWU) /\ \A k \in Index : k # i => n[d][k] = m[d][k]
    /\ \A k \in User, j \in Index : HasPage(n, d, k, j) <=> HasPage(m, d, k, j)

PageFits(m, d, U, i, j, f) ==
    /\ m \in Memory /\ U \subseteq Frames /\ Tree(m, d, U) /\ f \in U
    /\ i \in User /\ m[d][i] # Empty /\ j \in Index /\ m[m[d][i].frame][j] = Empty

PageAdded(n, m, d, U, i, j, f) ==
    /\ n \in Memory /\ Tree(n, d, U \ {f}) /\ n[d] = m[d]
    /\ HasPage(n, d, i, j)
    /\ \A k \in User, l \in Index : HasPage(m, d, k, l) => HasPage(n, d, k, l)

\* A zeroed table from the free frames makes a larger tree.
LEMMA AddTable ==
    ASSUME NEW m, NEW d, NEW U, NEW i, NEW t, TableFits(m, d, U, i, t), NEW n,
           n = WithTable(m, d, i, t)
    PROVE  TableAdded(n, m, d, U, i, t)
<1>0. /\ m \in Memory /\ U \subseteq Frames /\ Tree(m, d, U) /\ t \in U
      /\ i \in User /\ m[d][i] = Empty
  BY DEF TableFits
<1> USE <1>0
<1>1. /\ t \in Frames /\ d \in Frames /\ t # d /\ t \in Nat /\ i \in Index
      /\ m[d] \in [Index -> EntryType] /\ d \in DOMAIN m /\ t \in DOMAIN m
  BY Sizes DEF Tree, Memory
<1>2. n[d] = [m[d] EXCEPT ![i] = Entry(t, RWU)] /\ n[t] = Zeroed
      /\ \A f \in Frames \cup {NoFrame, BOOT} : f # d /\ f # t => n[f] = m[f]
  BY <1>1 DEF Memory, WithTable
<1>3. n \in Memory
  <2>1. [m[d] EXCEPT ![i] = Entry(t, RWU)] \in [Index -> EntryType]
    BY <1>1, Entries
  <2> QED
    BY <1>1, <1>2, <2>1, Entries DEF Memory, WithTable
<1>4. n[d][i] = Entry(t, RWU) /\ \A k \in Index : k # i => n[d][k] = m[d][k]
  BY <1>1, <1>2
<1>5. \A k \in User : k # i => n[d][k] = m[d][k]
  BY <1>4, Sizes
<1>6. \A k \in User : m[d][k] # Empty =>
         /\ m[d][k].frame \in Frames \ U /\ m[d][k].frame # d /\ m[d][k].frame # t /\ k # i
         /\ n[m[d][k].frame] = m[m[d][k].frame]
  BY <1>1, <1>2 DEF Tree
<1>7. n[d][i].frame = t /\ n[d][i] # Empty /\ \A j \in Index : n[t][j] = Empty
  BY <1>1, <1>2, <1>4, Entries
<1>8. \A k \in User, j \in Index :
         /\ HasPage(n, d, k, j) <=> HasPage(m, d, k, j)
         /\ HasPage(n, d, k, j) => PageAt(n, d, k, j) = PageAt(m, d, k, j)
  <2> SUFFICES ASSUME NEW k \in User, NEW j \in Index
               PROVE  /\ HasPage(n, d, k, j) <=> HasPage(m, d, k, j)
                      /\ HasPage(n, d, k, j) => PageAt(n, d, k, j) = PageAt(m, d, k, j)
    OBVIOUS
  <2>1. CASE k = i
    BY <1>7, <2>1 DEF HasPage
  <2>2. CASE k # i
    BY <1>5, <1>6, <2>2 DEF HasPage, PageAt
  <2> QED
    BY <2>1, <2>2
<1>9. \A k \in User : n[d][k] # Empty =>
         n[d][k].frame \in Frames \ (U \ {t}) /\ n[d][k].frame # d
  BY <1>1, <1>5, <1>6, <1>7
<1>10. \A k, l \in User :
         n[d][k] # Empty /\ n[d][l] # Empty /\ n[d][k].frame = n[d][l].frame => k = l
  <2>1. \A k, l \in User :
         m[d][k] # Empty /\ m[d][l] # Empty /\ m[d][k].frame = m[d][l].frame => k = l
    BY DEF Tree
  <2>2. \A k \in User : k # i /\ n[d][k] # Empty => n[d][k].frame # t
    BY <1>5, <1>6
  <2> SUFFICES ASSUME NEW k \in User, NEW l \in User, n[d][k] # Empty, n[d][l] # Empty,
                      n[d][k].frame = n[d][l].frame
               PROVE  k = l
    OBVIOUS
  <2>3. CASE k # i /\ l # i
    <3>1. n[d][k] = m[d][k] /\ n[d][l] = m[d][l]
      BY <1>5, <2>3
    <3> QED
      BY <2>1, <3>1
  <2>4. CASE k = i \/ l = i
    BY <1>7, <2>2, <2>4
  <2> QED
    BY <2>3, <2>4
<1>11. \A k \in User, j \in Index : HasPage(n, d, k, j) =>
         PageAt(n, d, k, j) \in Frames \ U /\ PageAt(n, d, k, j) # d
  <2>1. \A k \in User, j \in Index : HasPage(m, d, k, j) =>
           PageAt(m, d, k, j) \in Frames \ U /\ PageAt(m, d, k, j) # d
    BY DEF Tree
  <2> QED
    BY <1>8, <2>1
<1>12. \A k, l \in User, j \in Index :
         HasPage(n, d, k, j) /\ n[d][l] # Empty => PageAt(n, d, k, j) # n[d][l].frame
  <2>1. \A k, l \in User, j \in Index :
         HasPage(m, d, k, j) /\ m[d][l] # Empty => PageAt(m, d, k, j) # m[d][l].frame
    BY DEF Tree
  <2>2. \A k \in User, j \in Index : HasPage(n, d, k, j) => PageAt(n, d, k, j) # n[d][i].frame
    BY <1>7, <1>11
  <2>3. \A k, l \in User, j \in Index : l # i /\ HasPage(n, d, k, j) /\ n[d][l] # Empty =>
           PageAt(n, d, k, j) # n[d][l].frame
    BY <1>5, <1>8, <2>1
  <2> QED
    BY <2>2, <2>3
<1>13. \A k, l \in User, j, o \in Index :
         HasPage(n, d, k, j) /\ HasPage(n, d, l, o) /\ PageAt(n, d, k, j) = PageAt(n, d, l, o)
         => k = l /\ j = o
  <2>1. \A k, l \in User, j, o \in Index :
         HasPage(m, d, k, j) /\ HasPage(m, d, l, o) /\ PageAt(m, d, k, j) = PageAt(m, d, l, o)
         => k = l /\ j = o
    BY DEF Tree
  <2> QED
    BY <1>8, <2>1
<1>14. Tree(n, d, U \ {t})
  BY <1>1, <1>9, <1>10, <1>11, <1>12, <1>13 DEF Tree
<1> QED
  BY <1>2, <1>3, <1>4, <1>8, <1>14 DEF TableAdded

\* So does a page from the free frames.
LEMMA AddPage ==
    ASSUME NEW m, NEW d, NEW U, NEW i, NEW j, NEW f, PageFits(m, d, U, i, j, f), NEW n,
           n = WithPage(m, d, i, j, f)
    PROVE  PageAdded(n, m, d, U, i, j, f)
<1>0. /\ m \in Memory /\ U \subseteq Frames /\ Tree(m, d, U) /\ f \in U
      /\ i \in User /\ m[d][i] # Empty /\ j \in Index /\ m[m[d][i].frame][j] = Empty
  BY DEF PageFits
<1> USE <1>0
<1>1. PICK t : t = m[d][i].frame
  OBVIOUS
<1>2. /\ t \in Frames \ U /\ t # d /\ d \in Frames /\ f \in Frames /\ f \in Nat /\ f # t /\ f # d
      /\ m[t] \in [Index -> EntryType]
  BY <1>1, Sizes DEF Tree, Memory
<1>3. n[t] = [m[t] EXCEPT ![j] = Entry(f, RWU)]
      /\ \A g \in Frames \cup {NoFrame, BOOT} : g # t => n[g] = m[g]
  BY <1>1, <1>2 DEF Memory, WithPage
<1>4. n \in Memory
  <2>1. [m[t] EXCEPT ![j] = Entry(f, RWU)] \in [Index -> EntryType]
    BY <1>2, Entries
  <2> QED
    BY <1>1, <1>2, <1>3, <2>1 DEF Memory, WithPage
<1>5. n[d] = m[d]
  BY <1>2, <1>3
<1>6. n[t][j] = Entry(f, RWU) /\ \A l \in Index : l # j => n[t][l] = m[t][l]
  BY <1>2, <1>3
<1>7. HasPage(n, d, i, j) /\ PageAt(n, d, i, j) = f
  BY <1>1, <1>2, <1>5, <1>6, Entries DEF HasPage, PageAt
<1>8. \A k \in User : m[d][k] # Empty =>
         /\ m[d][k].frame \in Frames \ U /\ m[d][k].frame # d /\ m[d][k].frame # f
         /\ k # i => m[d][k].frame # t /\ n[m[d][k].frame] = m[m[d][k].frame]
  BY <1>1, <1>3 DEF Tree
<1>9. ~HasPage(m, d, i, j)
  BY DEF HasPage
<1>10. \A k \in User, l \in Index : k # i \/ l # j =>
         /\ HasPage(n, d, k, l) <=> HasPage(m, d, k, l)
         /\ HasPage(m, d, k, l) => PageAt(n, d, k, l) = PageAt(m, d, k, l)
  <2> SUFFICES ASSUME NEW k \in User, NEW l \in Index, k # i \/ l # j
               PROVE  /\ HasPage(n, d, k, l) <=> HasPage(m, d, k, l)
                      /\ HasPage(m, d, k, l) => PageAt(n, d, k, l) = PageAt(m, d, k, l)
    OBVIOUS
  <2>1. CASE k = i
    BY <1>1, <1>5, <1>6, <2>1 DEF HasPage, PageAt
  <2>2. CASE k # i
    BY <1>5, <1>8, <2>2 DEF HasPage, PageAt
  <2> QED
    BY <2>1, <2>2
<1>11. \A k \in User, l \in Index : HasPage(m, d, k, l) =>
         PageAt(m, d, k, l) \in Frames \ U /\ PageAt(m, d, k, l) # d
  BY DEF Tree
<1>12. \A k \in User, l \in Index : HasPage(n, d, k, l) =>
         PageAt(n, d, k, l) \in Frames \ (U \ {f}) /\ PageAt(n, d, k, l) # d
  BY <1>2, <1>7, <1>10, <1>11
<1>13. \A k, o \in User, l \in Index :
         HasPage(n, d, k, l) /\ n[d][o] # Empty => PageAt(n, d, k, l) # n[d][o].frame
  <2>1. \A k, o \in User, l \in Index :
         HasPage(m, d, k, l) /\ m[d][o] # Empty => PageAt(m, d, k, l) # m[d][o].frame
    BY DEF Tree
  <2>2. \A o \in User : n[d][o] # Empty => PageAt(n, d, i, j) # n[d][o].frame
    BY <1>5, <1>7, <1>8
  <2> SUFFICES ASSUME NEW k \in User, NEW o \in User, NEW l \in Index,
                      HasPage(n, d, k, l), n[d][o] # Empty
               PROVE  PageAt(n, d, k, l) # n[d][o].frame
    OBVIOUS
  <2>3. CASE k = i /\ l = j
    BY <2>2, <2>3
  <2>4. CASE k # i \/ l # j
    <3>1. HasPage(m, d, k, l) /\ PageAt(n, d, k, l) = PageAt(m, d, k, l)
      BY <1>10, <2>4
    <3> QED
      BY <1>5, <2>1, <3>1
  <2> QED
    BY <2>3, <2>4
<1>14. \A k, o \in User, l, p \in Index :
         HasPage(n, d, k, l) /\ HasPage(n, d, o, p) /\ PageAt(n, d, k, l) = PageAt(n, d, o, p)
         => k = o /\ l = p
  <2>1. \A k, o \in User, l, p \in Index :
         HasPage(m, d, k, l) /\ HasPage(m, d, o, p) /\ PageAt(m, d, k, l) = PageAt(m, d, o, p)
         => k = o /\ l = p
    BY DEF Tree
  <2>2. \A k \in User, l \in Index : HasPage(m, d, k, l) => PageAt(m, d, k, l) # f
    BY <1>11
  <2>3. \A k \in User, l \in Index : (k # i \/ l # j) /\ HasPage(n, d, k, l) =>
           HasPage(m, d, k, l) /\ PageAt(n, d, k, l) = PageAt(m, d, k, l) /\ PageAt(n, d, k, l) # f
    BY <1>10, <2>2
  <2> SUFFICES ASSUME NEW k \in User, NEW o \in User, NEW l \in Index, NEW p \in Index,
                      HasPage(n, d, k, l), HasPage(n, d, o, p), PageAt(n, d, k, l) = PageAt(n, d, o, p)
               PROVE  k = o /\ l = p
    OBVIOUS
  <2>4. CASE (k # i \/ l # j) /\ (o # i \/ p # j)
    <3>1. HasPage(m, d, k, l) /\ PageAt(n, d, k, l) = PageAt(m, d, k, l)
      BY <2>3, <2>4
    <3>2. HasPage(m, d, o, p) /\ PageAt(n, d, o, p) = PageAt(m, d, o, p)
      BY <2>3, <2>4
    <3> QED
      BY <2>1, <3>1, <3>2
  <2>5. CASE (k # i \/ l # j) /\ o = i /\ p = j
    BY <1>7, <2>3, <2>5
  <2>6. CASE k = i /\ l = j /\ (o # i \/ p # j)
    BY <1>7, <2>3, <2>6
  <2> QED
    BY <2>4, <2>5, <2>6
<1>15. Tree(n, d, U \ {f})
  <2>1. d \in Frames \ (U \ {f})
    BY DEF Tree
  <2>2. /\ \A k \in User : n[d][k] # Empty => n[d][k].frame \in Frames \ (U \ {f}) /\ n[d][k].frame # d
        /\ \A k, o \in User :
              n[d][k] # Empty /\ n[d][o] # Empty /\ n[d][k].frame = n[d][o].frame => k = o
    BY <1>5 DEF Tree
  <2> QED
    BY <1>12, <1>13, <1>14, <2>1, <2>2 DEF Tree
<1>16. \A k \in User, l \in Index : HasPage(m, d, k, l) => HasPage(n, d, k, l)
  BY <1>7, <1>10
<1> QED
  BY <1>4, <1>5, <1>7, <1>15, <1>16 DEF PageAdded

-----------------------------------------------------------------------------
(* Requests for frames, and mmap. *)

\* What mmap works on.
Rec(s) == /\ s = [mem |-> s.mem, free |-> s.free, exhausted |-> s.exhausted]
          /\ s.exhausted \in BOOLEAN
Space == [mem : Memory, free : SUBSET Frames, exhausted : BOOLEAN]
Fit(s) == s \in Space /\ Tree(s.mem, cr3, s.free) /\ Kernel(s.mem, cr3)

\* The fields of a record mmap works on.
LEMMA Fields ==
    ASSUME NEW m, NEW f, NEW e \in BOOLEAN, NEW s,
           s = [mem |-> m, free |-> f, exhausted |-> e]
    PROVE  Rec(s) /\ s.mem = m /\ s.free = f /\ s.exhausted = e
<1>1. s.mem = m /\ s.free = f /\ s.exhausted = e
  OBVIOUS
<1>2. s.exhausted \in BOOLEAN
  BY <1>1, Zenon
<1> QED
  BY <1>1, <1>2, Zenon DEF Rec

\* allocate_physical_page answers a free frame while there is one.
LEMMA LowestFree ==
    ASSUME NEW s, s.free \subseteq Frames, s.free # {}
    PROVE  Lowest(s) \in s.free
<1>1. s.free \in SUBSET Nat
  BY Sizes
<1>2. \E f \in s.free : \A g \in s.free : f <= g
  BY <1>1, NatMin
<1> QED
  BY <1>2 DEF Lowest

\* What a request for a frame does.
LEMMA Taken ==
    ASSUME NEW r, Rec(r), NEW s, s = Take(r)
    PROVE  /\ Rec(s) /\ s.mem = r.mem /\ s.free = r.free \ {Lowest(r)}
           /\ s.exhausted = (r.exhausted \/ r.free = {})
<1>1. PICK l : l = Lowest(r)
  OBVIOUS
<1>2. PICK m, f, e : r = [mem |-> m, free |-> f, exhausted |-> e] /\ e \in BOOLEAN
  BY DEF Rec
<1>3. r.mem = m /\ r.free = f /\ r.exhausted = e
  BY <1>2
<1>4. s = [r EXCEPT !.free = @ \ {l}, !.exhausted = @ \/ r.free = {}]
  BY <1>1 DEF Take
<1>5. PICK x \in BOOLEAN : x = (e \/ f = {})
  BY Zenon
<1>6. s = [r EXCEPT !.free = f \ {l}, !.exhausted = x]
  BY <1>2, <1>3, <1>4, <1>5
<1>7. s = [mem |-> m, free |-> f \ {l}, exhausted |-> x]
  BY <1>2, <1>6
<1>8. Rec(s) /\ s.mem = m /\ s.free = f \ {l} /\ s.exhausted = x
  BY <1>7, Fields
<1> QED
  BY <1>1, <1>3, <1>5, <1>8, Zenon

\* One round of the loop of mmap.
Round(r, page) ==
    IF page_exists(r, page) THEN r
    ELSE map_user_virtual_address_to_physical(Take(r), page, Lowest(r))

\* With the table that was made, if one was.
Tabled(s, i) ==
    IF s.mem[cr3][i] # Empty THEN s
    ELSE [Take(s) EXCEPT !.mem = WithTable(@, cr3, i, Lowest(s))]

\* What allocating a table does.
LEMMA NewTable ==
    ASSUME NEW s, Rec(s), NEW i, s.mem[cr3][i] = Empty, NEW t, t = Tabled(s, i)
    PROVE  /\ Rec(t)
           /\ t.mem = WithTable(s.mem, cr3, i, Lowest(s))
           /\ t.free = s.free \ {Lowest(s)}
           /\ t.exhausted = (s.exhausted \/ s.free = {})
<1>1. PICK r : r = Take(s)
  OBVIOUS
<1>2. /\ Rec(r) /\ r.mem = s.mem /\ r.free = s.free \ {Lowest(s)}
      /\ r.exhausted = (s.exhausted \/ s.free = {})
  BY <1>1, Taken, Zenon
<1>3. PICK m : m = WithTable(r.mem, cr3, i, Lowest(s))
  OBVIOUS
<1>4. t = [r EXCEPT !.mem = m]
  BY <1>1, <1>3 DEF Tabled
<1>5. t = [mem |-> m, free |-> r.free, exhausted |-> r.exhausted]
  BY <1>2, <1>4 DEF Rec
<1>6. r.exhausted \in BOOLEAN
  BY <1>2 DEF Rec
<1>7. Rec(t) /\ t.mem = m /\ t.free = r.free /\ t.exhausted = r.exhausted
  <2>1. PICK f, e : f = r.free /\ e = r.exhausted
    OBVIOUS
  <2>2. e \in BOOLEAN /\ t = [mem |-> m, free |-> f, exhausted |-> e]
    BY <1>5, <1>6, <2>1
  <2>3. Rec(t) /\ t.mem = m /\ t.free = f /\ t.exhausted = e
    BY <2>2, Fields
  <2> QED
    BY <2>1, <2>3, Zenon
<1> QED
  BY <1>2, <1>3, <1>7, Zenon

\* Whether a table is allocated or not, a refused request is remembered.
LEMMA TabledIs ==
    ASSUME NEW s, Rec(s), NEW i, NEW t, t = Tabled(s, i)
    PROVE  Rec(t) /\ (s.exhausted => t.exhausted)
<1>1. CASE s.mem[cr3][i] # Empty
  BY <1>1, Zenon DEF Tabled
<1>2. CASE s.mem[cr3][i] = Empty
  BY <1>2, NewTable, Zenon
<1> QED
  BY <1>1, <1>2

\* What map_user_virtual_address_to_physical does once the table is there.
LEMMA MapIs ==
    ASSUME NEW s, Rec(s), NEW v, NEW frame, NEW i, i = v \div ENTRIES, NEW j, j = v % ENTRIES,
           NEW t, t = Tabled(s, i), NEW q, q = map_user_virtual_address_to_physical(s, v, frame)
    PROVE  /\ Rec(q) /\ q.free = t.free /\ q.exhausted = t.exhausted
           /\ q.mem = WithPage(t.mem, cr3, i, j, frame)
<1>1. PICK m : m = WithPage(t.mem, cr3, i, j, frame)
  OBVIOUS
<1>2. q = [t EXCEPT !.mem[t.mem[cr3][i].frame][j] = Entry(frame, RWU)]
  BY DEF map_user_virtual_address_to_physical, Tabled, WithTable
<1>3. Rec(t)
  BY TabledIs
<1>4. t.exhausted \in BOOLEAN /\ t = [mem |-> t.mem, free |-> t.free, exhausted |-> t.exhausted]
  BY <1>3 DEF Rec
<1>5. q = [mem |-> m, free |-> t.free, exhausted |-> t.exhausted]
  BY <1>1, <1>2, <1>4 DEF WithPage
<1>6. PICK f, e : f = t.free /\ e = t.exhausted
  OBVIOUS
<1>7. e \in BOOLEAN /\ q = [mem |-> m, free |-> f, exhausted |-> e]
  BY <1>4, <1>5, <1>6
<1>8. Rec(q) /\ q.mem = m /\ q.free = f /\ q.exhausted = e
  BY <1>7, Fields
<1> QED
  BY <1>1, <1>6, <1>8, Zenon

\* Once a request was refused, that is remembered.
LEMMA RoundKeeps ==
    ASSUME NEW r, Rec(r), NEW v, NEW q, q = Round(r, v)
    PROVE  Rec(q) /\ (r.exhausted => q.exhausted)
<1>1. CASE page_exists(r, v)
  BY <1>1, Zenon DEF Round
<1>2. CASE ~page_exists(r, v)
  <2>1. PICK s : s = Take(r)
    OBVIOUS
  <2>2. Rec(s) /\ (r.exhausted => s.exhausted)
    BY <2>1, Taken, Zenon
  <2>3. PICK i, j, l : i = v \div ENTRIES /\ j = v % ENTRIES /\ l = Lowest(r)
    OBVIOUS
  <2>4. PICK t : t = Tabled(s, i)
    OBVIOUS
  <2>5. s.exhausted => t.exhausted
    BY <2>2, <2>4, TabledIs, Zenon
  <2>6. q = map_user_virtual_address_to_physical(s, v, l)
    BY <1>2, <2>1, <2>3, Zenon DEF Round
  <2>7. Rec(q) /\ q.exhausted = t.exhausted
    BY <2>2, <2>3, <2>4, <2>6, MapIs
  <2> QED
    BY <2>2, <2>5, <2>7, Zenon
<1> QED
  BY <1>1, <1>2

\* r became q, and nothing was taken away.
Kept(r, q) ==
    /\ Fit(q) /\ q.free \subseteq r.free
    /\ \A u \in UserPages : page_exists(r, u) => page_exists(q, u)

\* Unless a request is refused, the round maps its page and takes nothing
\* away.
LEMMA RoundMaps ==
    ASSUME NEW r, Fit(r), NEW v \in UserPages, NEW q, q = Round(r, v), ~q.exhausted
    PROVE  Kept(r, q) /\ page_exists(q, v)
<1>0. PICK i, j, d : i = v \div ENTRIES /\ j = v % ENTRIES /\ d = cr3
  OBVIOUS
<1>1. i \in User /\ j \in Index
  BY <1>0, PageIndex
<1>2. r \in Space /\ Tree(r.mem, d, r.free) /\ Kernel(r.mem, d)
  BY <1>0 DEF Fit
<1>3. /\ r.mem \in Memory /\ r.free \subseteq Frames /\ r.exhausted \in BOOLEAN /\ Rec(r)
  BY <1>2 DEF Space, Rec
<1>4. CASE page_exists(r, v)
  BY <1>4 DEF Round, Kept
<1>5. CASE ~page_exists(r, v)
  <2>1. PICK f : f = Lowest(r)
    OBVIOUS
  <2>2. PICK s : s = Take(r)
    OBVIOUS
  <2>3. s.exhausted = (r.exhausted \/ r.free = {})
    BY <1>3, <2>2, Taken, Zenon
  <2>4. Rec(s) /\ s.mem = r.mem /\ s.free = r.free \ {f} /\ (r.free = {} => s.exhausted)
    BY <1>3, <2>1, <2>2, <2>3, Taken, Zenon
  <2>5. PICK t : t = Tabled(s, i)
    OBVIOUS
  <2>6. Rec(t)
    BY <2>4, <2>5, TabledIs
  <2>7. q = map_user_virtual_address_to_physical(s, v, f)
    BY <1>5, <2>1, <2>2, Zenon DEF Round
  <2>8. /\ Rec(q) /\ ~t.exhausted /\ q.free = t.free
        /\ q.mem = WithPage(t.mem, d, i, j, f)
    <3>1. /\ Rec(q) /\ q.exhausted = t.exhausted /\ q.free = t.free
          /\ q.mem = WithPage(t.mem, cr3, i, j, f)
      BY <1>0, <2>4, <2>5, <2>7, MapIs
    <3> QED
      BY <1>0, <3>1, Zenon
  <2>9. PICK U : U = r.free
    OBVIOUS
  <2>10. /\ t.mem \in Memory /\ t.free \subseteq U \ {f} /\ f \in U
         /\ \E V \in SUBSET Frames : f \in V /\ V \ {f} = t.free /\ Tree(t.mem, d, V) /\ V \subseteq U
         /\ t.mem[d][i] # Empty /\ t.mem[t.mem[d][i].frame][j] = Empty
         /\ \A k \in Index : k \notin User => t.mem[d][k] = r.mem[d][k]
         /\ \A k \in User, l \in Index : HasPage(r.mem, d, k, l) => HasPage(t.mem, d, k, l)
    <3>1. CASE r.mem[d][i] # Empty
      <4>1. t = s
        <5>1. s.mem[cr3][i] # Empty
          BY <1>0, <2>4, <3>1
        <5> QED
          BY <2>5, <5>1, Zenon DEF Tabled
      <4>2. r.free # {}
        BY <2>4, <2>8, <4>1
      <4>3. f \in U
        BY <1>3, <2>1, <2>9, <4>2, LowestFree
      <4>4. r.mem[r.mem[d][i].frame][j] = Empty
        BY <1>0, <1>5, <3>1 DEF page_exists
      <4> QED
        BY <1>2, <1>3, <2>4, <2>9, <3>1, <4>1, <4>3, <4>4
    <3>2. CASE r.mem[d][i] = Empty
      <4>1. PICK g : g = Lowest(s)
        OBVIOUS
      <4>2. /\ t.mem = WithTable(s.mem, d, i, g)
            /\ t.free = s.free \ {g} /\ t.exhausted = (s.exhausted \/ s.free = {})
        <5>1. s.mem[cr3][i] = Empty
          BY <1>0, <2>4, <3>2
        <5> QED
          BY <1>0, <2>4, <2>5, <4>1, <5>1, NewTable
      <4>3. t.mem = WithTable(r.mem, d, i, g)
            /\ t.free = s.free \ {g} /\ ~s.exhausted /\ s.free # {}
        BY <2>4, <2>8, <4>2, Zenon
      <4>4. r.free # {}
        BY <2>4, <4>3
      <4>5. f \in U /\ U \subseteq Frames
        BY <1>3, <2>1, <2>9, <4>4, LowestFree
      <4>6. g \in U /\ g # f
        <5>1. g \in s.free
          BY <1>3, <2>4, <4>1, <4>3, LowestFree
        <5> QED
          BY <2>4, <2>9, <5>1
      <4>7. /\ t.mem \in Memory /\ Tree(t.mem, d, U \ {g})
            /\ t.mem[d][i] = Entry(g, RWU) /\ t.mem[g] = Zeroed
            /\ \A k \in Index : k # i => t.mem[d][k] = r.mem[d][k]
            /\ \A k \in User, l \in Index : HasPage(t.mem, d, k, l) <=> HasPage(r.mem, d, k, l)
        <5>1. Tree(r.mem, d, U)
          BY <1>2, <2>9
        <5>2. PICK m : m = r.mem
          OBVIOUS
        <5>3. PICK n : n = t.mem
          OBVIOUS
        <5>4. /\ m \in Memory /\ Tree(m, d, U) /\ m[d][i] = Empty
              /\ n = WithTable(m, d, i, g)
          BY <1>3, <3>2, <4>3, <5>1, <5>2, <5>3
        <5>5. TableFits(m, d, U, i, g)
          BY <1>1, <4>5, <4>6, <5>4 DEF TableFits
        <5>6. TableAdded(n, m, d, U, i, g)
          BY <5>4, <5>5, AddTable
        <5> QED
          BY <5>2, <5>3, <5>6, Zenon DEF TableAdded
      <4>8. t.mem[d][i] # Empty /\ t.mem[t.mem[d][i].frame][j] = Empty
        BY <1>1, <4>5, <4>6, <4>7, Entries, Sizes
      <4>9. t.free = (U \ {g}) \ {f} /\ f \in U \ {g}
        BY <2>4, <2>9, <4>3, <4>5, <4>6
      <4> QED
        BY <1>1, <4>5, <4>7, <4>8, <4>9
    <3> QED
      BY <3>1, <3>2
  <2>11. PICK V \in SUBSET Frames : f \in V /\ V \ {f} = t.free /\ Tree(t.mem, d, V) /\ V \subseteq U
    BY <2>10
  <2>12. /\ q.mem \in Memory /\ Tree(q.mem, d, V \ {f}) /\ q.mem[d] = t.mem[d]
         /\ HasPage(q.mem, d, i, j)
         /\ \A k \in User, l \in Index : HasPage(t.mem, d, k, l) => HasPage(q.mem, d, k, l)
    <3>1. t.mem \in Memory /\ t.mem[d][i] # Empty /\ t.mem[t.mem[d][i].frame][j] = Empty
      BY <2>10
    <3>2. PICK m : m = t.mem
      OBVIOUS
    <3>3. PICK n : n = q.mem
      OBVIOUS
    <3>4. /\ m \in Memory /\ Tree(m, d, V) /\ m[d][i] # Empty /\ m[m[d][i].frame][j] = Empty
          /\ n = WithPage(m, d, i, j, f) /\ V \subseteq Frames
      BY <2>8, <2>11, <3>1, <3>2, <3>3
    <3>5. PageFits(m, d, V, i, j, f)
      BY <1>1, <2>11, <3>4 DEF PageFits
    <3>6. PageAdded(n, m, d, V, i, j, f)
      BY <3>4, <3>5, AddPage
    <3> QED
      BY <3>2, <3>3, <3>6, Zenon DEF PageAdded
  <2>13. q \in Space /\ q.free \subseteq r.free /\ Tree(q.mem, d, q.free)
    <3>1. q.free \in SUBSET Frames /\ q.free = V \ {f} /\ q.free \subseteq r.free
      BY <2>8, <2>9, <2>11
    <3>2. q \in Space
      <4>1. PICK m, U2, e : q = [mem |-> m, free |-> U2, exhausted |-> e] /\ e \in BOOLEAN
        BY <2>8 DEF Rec
      <4>2. m \in Memory /\ U2 \in SUBSET Frames
        BY <2>12, <3>1, <4>1
      <4> QED
        BY <4>1, <4>2 DEF Space
    <3> QED
      BY <2>12, <3>1, <3>2
  <2>14. Kernel(q.mem, d)
    <3>1. \A k \in KERNEL_PGD_ENTRY_INDEX .. (ENTRIES - 1) : k \in Index /\ k \notin User
      BY Sizes DEF Index, User
    <3>2. \A k \in KERNEL_PGD_ENTRY_INDEX .. (ENTRIES - 1) : q.mem[d][k] = r.mem[d][k]
      BY <2>10, <2>12, <3>1
    <3>3. \A k \in KERNEL_PGD_ENTRY_INDEX .. (ENTRIES - 2) : k \in KERNEL_PGD_ENTRY_INDEX .. (ENTRIES - 1)
      BY Sizes
    <3>4. RECURSIVE_ENTRY \in KERNEL_PGD_ENTRY_INDEX .. (ENTRIES - 1)
      BY Sizes DEF RECURSIVE_ENTRY
    <3> QED
      BY <1>2, <3>2, <3>3, <3>4 DEF Kernel
  <2>15. page_exists(q, v)
    BY <1>0, <2>12 DEF page_exists, HasPage
  <2>16. ASSUME NEW u \in UserPages, page_exists(r, u) PROVE page_exists(q, u)
    <3>1. u \div ENTRIES \in User /\ u % ENTRIES \in Index
      BY PageIndex
    <3>2. HasPage(r.mem, d, u \div ENTRIES, u % ENTRIES)
      BY <1>0, <2>16 DEF page_exists, HasPage
    <3>3. HasPage(q.mem, d, u \div ENTRIES, u % ENTRIES)
      BY <2>10, <2>12, <3>1, <3>2
    <3> QED
      BY <1>0, <3>3 DEF page_exists, HasPage
  <2> QED
    BY <1>0, <2>13, <2>14, <2>15, <2>16 DEF Fit, Kept
<1> QED
  BY <1>4, <1>5

\* The rounds of mmap, one after another.
LEMMA LoopIs ==
    ASSUME NEW s, NEW v, NEW N \in Nat
    PROVE  \E a : /\ a[0] = s /\ MapRounds(s, v, N) = a[N]
                  /\ \A k \in 1 .. N : a[k] = Round(a[k - 1], v + k - 1)
<1> DEFINE R(g, n) == [k \in 0 .. n |-> IF k = 0 THEN s ELSE Round(g[k - 1], v + k - 1)]
           after == CHOOSE g : g = R(g, N)
<1>1. MapRounds(s, v, N) = after[N]
  BY DEF MapRounds, Round
<1>2. \A n \in Nat : \E g : g = R(g, n)
  <2> DEFINE S == {n \in Nat : ~ \E g : g = R(g, n)}
  <2>1. SUFFICES ASSUME S # {} PROVE FALSE
    OBVIOUS
  <2>2. PICK n \in S : \A k \in S : n <= k
    <3>1. S \in SUBSET Nat
      OBVIOUS
    <3> HIDE DEF S
    <3> QED
      BY <2>1, <3>1, NatMin
  <2>3. n \in Nat /\ ~ \E g : g = R(g, n)
    BY <2>2
  <2>4. CASE n = 0
    <3> DEFINE g == [k \in 0 .. 0 |-> s]
    <3>1. g = R(g, 0)
      OBVIOUS
    <3> QED
      BY <2>3, <2>4, <3>1
  <2>5. CASE n # 0
    <3>1. n - 1 \in Nat /\ n - 1 \notin S
      BY <2>2, <2>3, <2>5
    <3>2. PICK h : h = R(h, n - 1)
      BY <3>1
    <3> DEFINE g == [k \in 0 .. n |-> IF k < n THEN h[k] ELSE Round(h[n - 1], v + n - 1)]
    <3>3. \A k \in 0 .. (n - 1) : h[k] = IF k = 0 THEN s ELSE Round(h[k - 1], v + k - 1)
      BY <3>2
    <3>4. ASSUME NEW k \in 0 .. n PROVE g[k] = IF k = 0 THEN s ELSE Round(g[k - 1], v + k - 1)
      <4>1. k # 0 => g[k - 1] = h[k - 1]
        BY <2>3
      <4>2. CASE k < n
        <5>1. k \in 0 .. (n - 1) /\ g[k] = h[k]
          BY <2>3, <4>2
        <5> HIDE DEF g
        <5> QED
          BY <3>3, <4>1, <5>1
      <4>3. CASE ~(k < n)
        <5>1. k = n /\ g[k] = Round(h[n - 1], v + n - 1)
          BY <2>3, <4>3
        <5> HIDE DEF g
        <5> QED
          BY <2>5, <4>1, <5>1
      <4> QED
        BY <4>2, <4>3
    <3>5. g = R(g, n)
      BY <3>4
    <3> QED
      BY <2>3, <3>5
  <2> QED
    BY <2>4, <2>5
<1>3. after = R(after, N)
  <2>1. \E g : g = R(g, N)
    BY <1>2
  <2> HIDE DEF R
  <2> QED
    BY <2>1
<1> HIDE DEF after
<1>4. after[0] = s /\ \A k \in 1 .. N : after[k] = Round(after[k - 1], v + k - 1)
  BY <1>3
<1> QED
  BY <1>1, <1>4

\* The loop remembers a refused request.
LEMMA LoopKeeps ==
    ASSUME NEW s, Rec(s), NEW v, NEW N \in Nat, NEW q, q = MapRounds(s, v, N)
    PROVE  Rec(q) /\ (s.exhausted => q.exhausted)
<1>1. PICK a : /\ a[0] = s /\ MapRounds(s, v, N) = a[N]
               /\ \A k \in 1 .. N : a[k] = Round(a[k - 1], v + k - 1)
  BY LoopIs
<1> DEFINE P(k) == Rec(a[k]) /\ (s.exhausted => a[k].exhausted)
           S == {k \in 0 .. N : ~P(k)}
<1>2. SUFFICES ASSUME S # {} PROVE FALSE
  <2>1. N \in 0 .. N
    OBVIOUS
  <2>2. CASE S = {}
    <3>1. P(N)
      BY <2>1, <2>2
    <3> QED
      BY <1>1, <3>1, Zenon
  <2> QED
    BY <2>2, Zenon
<1>3. PICK k \in S : \A l \in S : k <= l
  <2>1. S \in SUBSET Nat
    OBVIOUS
  <2> HIDE DEF S
  <2> QED
    BY <1>2, <2>1, NatMin
<1>4. k \in 0 .. N /\ ~P(k)
  BY <1>3
<1>5. P(0)
  BY <1>1, Zenon
<1>6. k # 0
  BY <1>4, <1>5, Zenon
<1>7. k - 1 \in 0 .. N /\ k - 1 \notin S /\ k \in 1 .. N
  <2>1. k - 1 \in 0 .. N /\ k \in 1 .. N /\ ~(k <= k - 1)
    BY <1>4, <1>6
  <2> HIDE DEF S
  <2> QED
    BY <1>3, <2>1
<1>8. P(k - 1)
  BY <1>7
<1>9. PICK r, o, u : r = a[k - 1] /\ o = a[k] /\ u = v + k - 1
  OBVIOUS
<1>10. Rec(r) /\ (s.exhausted => r.exhausted) /\ o = Round(r, u)
  BY <1>1, <1>7, <1>8, <1>9, Zenon
<1>11. Rec(o) /\ (r.exhausted => o.exhausted)
  BY <1>10, RoundKeeps, Zenon
<1>12. P(k)
  BY <1>9, <1>10, <1>11, Zenon
<1> QED
  BY <1>4, <1>12, Zenon

\* Unless a request is refused, it maps its pages and takes nothing away.
LEMMA LoopMaps ==
    ASSUME NEW s, Fit(s), NEW v \in Nat, NEW N \in Nat, v + N <= KERNEL_VIRTUAL_OFFSET,
           NEW q, q = MapRounds(s, v, N), ~q.exhausted
    PROVE  Kept(s, q) /\ \A u \in v .. (v + N - 1) : page_exists(q, u)
<1>1. PICK a : /\ a[0] = s /\ MapRounds(s, v, N) = a[N]
               /\ \A k \in 1 .. N : a[k] = Round(a[k - 1], v + k - 1)
  BY LoopIs
<1> DEFINE M(k) == \A u \in v .. (v + k - 1) : page_exists(a[k], u)
           P(k) == Rec(a[k]) /\ (a[k].exhausted \/ (Kept(s, a[k]) /\ M(k)))
           S == {k \in 0 .. N : ~P(k)}
<1>2. SUFFICES ASSUME S # {} PROVE FALSE
  <2>1. N \in 0 .. N
    OBVIOUS
  <2>2. CASE S = {}
    <3>1. P(N)
      BY <2>1, <2>2
    <3>2. a[N] = q
      BY <1>1
    <3> QED
      BY <3>1, <3>2, Zenon
  <2> QED
    BY <2>2, Zenon
<1>3. PICK k \in S : \A l \in S : k <= l
  <2>1. S \in SUBSET Nat
    OBVIOUS
  <2> HIDE DEF S
  <2> QED
    BY <1>2, <2>1, NatMin
<1>4. k \in 0 .. N /\ ~P(k)
  BY <1>3
<1>5. P(0)
  <2>1. Rec(s)
    BY DEF Fit, Space, Rec
  <2>2. Kept(s, s)
    BY DEF Kept
  <2>3. M(0)
    OBVIOUS
  <2> QED
    BY <1>1, <2>1, <2>2, <2>3, Zenon
<1>6. k # 0
  BY <1>4, <1>5, Zenon
<1>7. k - 1 \in 0 .. N /\ k - 1 \notin S /\ k \in 1 .. N
  <2>1. k - 1 \in 0 .. N /\ k \in 1 .. N /\ ~(k <= k - 1)
    BY <1>4, <1>6
  <2> HIDE DEF S
  <2> QED
    BY <1>3, <2>1
<1>8. P(k - 1)
  BY <1>7
<1>9. PICK r, o, p : r = a[k - 1] /\ o = a[k] /\ p = v + k - 1
  OBVIOUS
<1>10. Rec(r) /\ o = Round(r, p)
  BY <1>1, <1>7, <1>8, <1>9, Zenon
<1>11. Rec(o) /\ (r.exhausted => o.exhausted)
  BY <1>10, RoundKeeps, Zenon
<1>12. ~o.exhausted /\ ~r.exhausted
  BY <1>4, <1>9, <1>11, Zenon
<1>13. Kept(s, r) /\ \A u \in v .. (v + (k - 1) - 1) : page_exists(r, u)
  BY <1>8, <1>9, <1>12, Zenon
<1>14. p \in UserPages /\ Fit(r)
  <2>1. p \in UserPages
    BY <1>7, <1>9, Sizes DEF UserPages
  <2> QED
    BY <1>13, <2>1 DEF Kept
<1>15. Kept(r, o) /\ page_exists(o, p)
  BY <1>10, <1>12, <1>14, RoundMaps
<1>16. Kept(s, o)
  BY <1>13, <1>15 DEF Kept
<1>17. ASSUME NEW u \in v .. (v + k - 1) PROVE page_exists(o, u)
  <2>1. CASE u = p
    BY <1>15, <2>1
  <2>2. CASE u # p
    <3>1. u \in v .. (v + (k - 1) - 1) /\ u \in UserPages
      BY <1>7, <1>9, <2>2, Sizes DEF UserPages
    <3> QED
      BY <1>13, <1>15, <3>1 DEF Kept
  <2> QED
    BY <2>1, <2>2
<1>18. P(k)
  BY <1>9, <1>11, <1>16, <1>17, Zenon
<1> QED
  BY <1>4, <1>18, Zenon

-----------------------------------------------------------------------------
(* Segments. *)

\* What a program header holds.
LEMMA Header ==
    ASSUME NEW p \in Programs, NEW n \in 1 .. Len(p.segments), NEW g, g = p.segments[n]
    PROVE  /\ g.page \in Nat /\ g.page < PAGES /\ g.memsz \in Nat /\ g.filesz \in Nat
           /\ g.read \in Nat /\ g.read <= g.filesz /\ num_pages(g) \in Nat \ {0}
<1> DEFINE S == 0 .. (WORD - 1)
           H == [load : BOOLEAN, aligned : BOOLEAN, page : 0 .. (PAGES - 1), memsz : S,
                 filesz : S, read : S, flags : STRING]
<1>1. /\ p.segments \in Seq(H) /\ PAGE_SIZE \in Nat \ {0}
      /\ \A i \in DOMAIN p.segments : p.segments[i].read <= p.segments[i].filesz
  BY ProgramAssumption
<1>2. g \in H /\ g.read <= g.filesz
  <2> HIDE DEF H
  <2> QED
    BY <1>1
<1>3. S \subseteq Nat
  OBVIOUS
<1>4. g.page \in 0 .. (PAGES - 1) /\ g.memsz \in Nat /\ g.filesz \in Nat /\ g.read \in Nat
  <2> HIDE DEF S
  <2> QED
    BY <1>2, <1>3
<1>5. g.page \in Nat /\ g.page < PAGES
  BY <1>4, Sizes
<1>6. g.memsz \div PAGE_SIZE \in Nat
  BY <1>1, <1>4, Division
<1> QED
  BY <1>2, <1>4, <1>5, <1>6 DEF num_pages

\* The bytes that are written of a well-formed segment, rounded up to pages,
\* lie in the pages that were asked for.
LEMMA WrittenInside ==
    ASSUME NEW p \in Programs, NEW n \in 1 .. Len(p.segments), NEW g, g = p.segments[n],
           WellFormed(g)
    PROVE  Written(g) \subseteq g.page .. (g.page + num_pages(g) - 1)
<1>1. /\ g.page \in Nat /\ g.page < PAGES /\ g.memsz \in Nat /\ g.filesz \in Nat
      /\ g.read \in Nat /\ g.read <= g.filesz
  BY Header
<1>2. PICK w, x, k, P, W : /\ w = PAGE_SIZE /\ x = g.memsz /\ k = x \div w
                           /\ P = PAGES /\ W = WORD
  OBVIOUS
<1>3. w \in Nat \ {0} /\ x \in Nat /\ k \in Nat /\ P \in Nat \ {0}
  <2>1. w \in Nat \ {0} /\ x \in Nat /\ P \in Nat \ {0}
    BY <1>1, <1>2, Sizes, ProgramAssumption
  <2> QED
    BY <1>2, <2>1, Division
<1>4. num_pages(g) = k + 1
  BY <1>2 DEF num_pages
<1>5. g.filesz <= x /\ g.page + (k + 1) < P
  BY <1>2, <1>4 DEF WellFormed
<1>6. PICK T : T = (k + 1) * w
  OBVIOUS
<1>7. T \in Nat /\ x < T
  <2>1. PICK y, r : y = k * w /\ r = x % w
    OBVIOUS
  <2>2. x = y + r /\ r \in 0 .. (w - 1)
    BY <1>2, <1>3, <2>1, Division
  <2>3. T = y + w /\ y \in Nat
    BY <1>3, <1>6, <2>1
  <2> QED
    BY <1>3, <2>2, <2>3
<1>8. W \in Nat /\ T < W
  <2>1. PICK m \in Nat : P = (k + 1) + m /\ m > 0
    <3>1. P - (k + 1) \in Nat /\ P = (k + 1) + (P - (k + 1)) /\ P - (k + 1) > 0
      BY <1>1, <1>3, <1>5
    <3> QED
      BY <3>1
  <2>2. W = P * w
    BY <1>2 DEF WORD
  <2>3. P * w = T + m * w
    BY <1>3, <1>6, <2>1
  <2>4. m * w \in Nat /\ m * w > 0
    BY <1>3, <2>1
  <2> QED
    BY <1>7, <2>2, <2>3, <2>4
<1>9. PICK A : A = aligned_mem_size(g)
  OBVIOUS
<1>10. A \in Nat /\ x <= A /\ A <= T
  <2>1. T % W = T
    <3>1. W \in Nat \ {0}
      BY <1>7, <1>8
    <3> QED
      BY <1>7, <1>8, <3>1, Modulus
  <2>2. A = IF x % w = 0 THEN x ELSE T % W
    BY <1>2, <1>6, <1>9 DEF aligned_mem_size
  <2> QED
    BY <1>3, <1>7, <2>1, <2>2
<1>11. ASSUME NEW b \in Zeroes(g) PROVE b \in Nat /\ b < T
  <2>1. PICK c, l : c = g.filesz /\ l = (W + A - c) % W
    OBVIOUS
  <2>2. b \in c .. (c + l - 1) /\ x > c
    BY <1>2, <1>9, <1>11, <2>1 DEF Zeroes
  <2>3. PICK y : y = A - c
    OBVIOUS
  <2>4. c \in Nat /\ y \in Nat /\ y < W
    <3>1. c \in Nat
      BY <1>1, <2>1
    <3> QED
      BY <1>3, <1>7, <1>8, <1>10, <2>2, <2>3, <3>1
  <2>5. l = y
    <3>1. W \in Nat \ {0} /\ W + A - c = W + y
      BY <1>7, <1>8, <1>10, <2>3, <2>4
    <3>2. (W + y) % W = y
      BY <2>4, <3>1, Modulus
    <3> QED
      BY <2>1, <3>1, <3>2
  <2> QED
    BY <1>7, <1>10, <2>2, <2>3, <2>4, <2>5
<1>12. ASSUME NEW b \in 0 .. (g.read - 1) \cup Zeroes(g) PROVE b \in Nat /\ b < T
  <2>1. CASE b \in 0 .. (g.read - 1)
    BY <1>1, <1>3, <1>5, <1>7, <2>1
  <2> QED
    BY <1>11, <1>12, <2>1
<1>13. ASSUME NEW b \in 0 .. (g.read - 1) \cup Zeroes(g)
       PROVE  (g.page + b \div PAGE_SIZE) % PAGES \in g.page .. (g.page + num_pages(g) - 1)
  <2>1. b \in Nat /\ b < (k + 1) * w /\ k + 1 \in Nat
    BY <1>3, <1>6, <1>12, <1>13
  <2>2. PICK c : c = b \div w
    OBVIOUS
  <2>3. c \in 0 .. (k + 1 - 1)
    BY <1>3, <2>1, <2>2, Quotient
  <2>4. PICK y : y = g.page + c
    OBVIOUS
  <2>5. y \in Nat /\ y < P /\ y \in g.page .. (g.page + (k + 1) - 1)
    <3>1. PICK v : v = g.page
      OBVIOUS
    <3>2. v \in Nat /\ v + (k + 1) < P /\ y = v + c
      BY <1>1, <1>5, <2>4, <3>1
    <3>3. y \in Nat /\ y < P /\ y \in v .. (v + (k + 1) - 1)
      BY <1>3, <2>3, <3>2
    <3> QED
      BY <3>1, <3>3
  <2>6. y % P = y
    BY <1>3, <2>5, Modulus
  <2> QED
    BY <1>2, <1>4, <2>2, <2>4, <2>5, <2>6
<1> QED
  BY <1>13 DEF Written

\* What is written is written to pages.
LEMMA WrittenNat ==
    ASSUME NEW p \in Programs, NEW n \in 1 .. Len(p.segments), NEW g, g = p.segments[n],
           NEW v \in Written(g)
    PROVE  v \in Nat
<1>1. PICK b \in 0 .. (g.read - 1) \cup Zeroes(g) : v = (g.page + b \div PAGE_SIZE) % PAGES
  BY DEF Written
<1>2. g.page \in Nat /\ g.filesz \in Nat /\ PAGE_SIZE \in Nat \ {0} /\ PAGES \in Nat \ {0}
  <2>1. g.page \in Nat /\ g.filesz \in Nat
    BY Header
  <2>2. PAGE_SIZE \in Nat \ {0}
    BY ProgramAssumption
  <2>3. PAGES \in Nat \ {0}
    BY Sizes
  <2> QED
    BY <2>1, <2>2, <2>3
<1>3. b \in Nat
  <2>1. PICK l : Zeroes(g) \subseteq g.filesz .. l
    BY DEF Zeroes
  <2> QED
    BY <1>2, <2>1
<1>4. PICK c, w : c = b \div PAGE_SIZE /\ w = PAGES
  OBVIOUS
<1>5. c \in Nat /\ w \in Nat \ {0}
  BY <1>2, <1>3, <1>4, Division
<1>6. g.page + c \in Nat
  BY <1>2, <1>5
<1>7. (g.page + c) % w \in 0 .. (w - 1)
  BY <1>5, <1>6, Division
<1> QED
  BY <1>1, <1>4, <1>5, <1>7

\* The first page of a segment is written when a byte was read.
LEMMA WrittenFirst ==
    ASSUME NEW p \in Programs, NEW n \in 1 .. Len(p.segments), NEW g, g = p.segments[n],
           ~file_read_nothing(g)
    PROVE  g.page \in Written(g)
<1>1. g.page \in Nat /\ g.page < PAGES /\ g.read \in Nat /\ PAGE_SIZE \in Nat \ {0}
  BY Header, ProgramAssumption
<1>2. 0 \in 0 .. (g.read - 1)
  BY <1>1 DEF file_read_nothing
<1>3. PICK v, w, P : v = g.page /\ w = PAGE_SIZE /\ P = PAGES
  OBVIOUS
<1>4. v \in Nat /\ w \in Nat \ {0} /\ P \in Nat \ {0} /\ v < P
  BY <1>1, <1>3, Sizes
<1>5. 0 \div w = 0
  <2>1. PICK c : c = 0 \div w
    OBVIOUS
  <2>2. 0 < 1 * w
    BY <1>4
  <2>3. c \in 0 .. (1 - 1)
    BY <1>4, <2>1, <2>2, Quotient
  <2> QED
    BY <2>1, <2>3
<1>6. v % P = v
  BY <1>4, Modulus
<1>7. (g.page + 0 \div PAGE_SIZE) % PAGES = g.page
  BY <1>3, <1>4, <1>5, <1>6
<1> QED
  BY <1>2, <1>7 DEF Written

\* Page v is mapped by the directory d.
Shows(m, d, v) == HasPage(m, d, v \div ENTRIES, v % ENTRIES)

\* What is written to mapped pages leaves the directory and its tables alone.
LEMMA WriteKeeps ==
    ASSUME NEW s, Fit(s), NEW W, W \subseteq UserPages, \A v \in W : page_exists(s, v),
           DOMAIN mem = Frames \cup {NoFrame, BOOT}, NEW q, q = Write(s, W)
    PROVE  Kept(s, q) /\ q.exhausted = s.exhausted
<1>1. PICK m, d, U : m = s.mem /\ d = cr3 /\ U = s.free
  OBVIOUS
<1>2. m \in Memory /\ U \subseteq Frames /\ s.exhausted \in BOOLEAN /\ Tree(m, d, U) /\ Kernel(m, d)
  BY <1>1 DEF Fit, Space
<1>3. s = [mem |-> m, free |-> U, exhausted |-> s.exhausted]
  BY <1>1 DEF Fit, Space
<1>4. PICK F : F = {m[m[d][v \div ENTRIES].frame][v % ENTRIES].frame : v \in W}
  OBVIOUS
<1>5. PICK n : n = [f \in DOMAIN mem |-> IF f \in F THEN Junk ELSE m[f]]
  OBVIOUS
<1>6. q = [s EXCEPT !.mem = n]
  BY <1>1, <1>4, <1>5 DEF Write
<1>7. q = [mem |-> n, free |-> U, exhausted |-> s.exhausted]
  BY <1>3, <1>6
<1>8. n \in Memory
  BY <1>2, <1>5, Entries DEF Memory
<1>9. ASSUME NEW f \in F
      PROVE  f # d /\ \A i \in User : m[d][i] # Empty => f # m[d][i].frame
  <2>1. PICK v \in W : f = m[m[d][v \div ENTRIES].frame][v % ENTRIES].frame
    BY <1>4
  <2>2. PICK k, l : k = v \div ENTRIES /\ l = v % ENTRIES
    OBVIOUS
  <2>3. k \in User /\ l \in Index
    BY <2>2, PageIndex
  <2>4. HasPage(m, d, k, l) /\ f = PageAt(m, d, k, l)
    BY <1>1, <2>1, <2>2 DEF page_exists, HasPage, PageAt
  <2> QED
    BY <1>2, <2>3, <2>4 DEF Tree
<1>10. n[d] = m[d] /\ \A i \in User : m[d][i] # Empty => n[m[d][i].frame] = m[m[d][i].frame]
  BY <1>2, <1>5, <1>9 DEF Tree
<1>11. /\ Tree(n, d, U)
       /\ \A i \in User, j \in Index : HasPage(n, d, i, j) <=> HasPage(m, d, i, j)
  BY <1>2, <1>10, Elsewhere
<1>12. Kernel(n, d)
  BY <1>2, <1>10 DEF Kernel
<1>13. q.mem = n /\ q.free = U /\ q.exhausted = s.exhausted
  BY <1>7
<1>14. Fit(q)
  <2>1. q \in Space
    BY <1>2, <1>7, <1>8 DEF Space
  <2> QED
    BY <1>1, <1>11, <1>12, <1>13, <2>1 DEF Fit
<1>15. ASSUME NEW u \in UserPages, page_exists(s, u) PROVE page_exists(q, u)
  <2>1. u \div ENTRIES \in User /\ u % ENTRIES \in Index
    BY PageIndex
  <2>2. HasPage(m, d, u \div ENTRIES, u % ENTRIES)
    BY <1>1, <1>15 DEF page_exists, HasPage
  <2>3. HasPage(n, d, u \div ENTRIES, u % ENTRIES)
    BY <1>11, <2>1, <2>2
  <2> QED
    BY <1>1, <1>13, <2>3 DEF page_exists, HasPage
<1> QED
  BY <1>1, <1>13, <1>14, <1>15 DEF Kept

-----------------------------------------------------------------------------
(* The invariant. *)

Sound(m, d, U) == m \in Memory /\ U \subseteq Frames /\ Kernel(m, d) /\ Tree(m, d, U)

TTypes ==
    /\ exhausted \in BOOLEAN /\ strayed \in BOOLEAN /\ segment \in Nat \ {0}
    /\ pc \in {"load_segments", "stack", "running"} => program \in Programs

\* Segment n, if load_segments loads it, is mapped.
Segment(n) ==
    Loaded(n) => \A v \in Written(program.segments[n]) : v \in UserPages /\ Shows(mem, cr3, v)

\* The directory in CR3: the boot directory, or a tree no frame of which is
\* free.
Current ==
    /\ mem \in Memory /\ free \subseteq Frames
    /\ cr3 \in Frames \cup {BOOT} /\ Kernel(mem, cr3)
    /\ cr3 # BOOT => Tree(mem, cr3, free)

\* The directory of the task is empty from its allocation until the loader
\* maps something into it; a task whose load fails is freed before that.
Fresh ==
    /\ pc \in {"kernel_stack", "switch"} =>
          vmm \in Frames \ free /\ mem[vmm] = PageDirectory(vmm)
    /\ pc \in {"load_elf", "free_task"} =>
          vmm = cr3 /\ cr3 # BOOT /\ mem[cr3] = PageDirectory(cr3)
    /\ pc \in {"kernel_stack", "switch", "load_elf"} => text_begin = None

\* What the loader has mapped so far.
Progress ==
    /\ pc \in {"load_segments", "stack", "running"} =>
          /\ cr3 # BOOT
          /\ text_begin = None \/ (text_begin \in UserPages /\ Shows(mem, cr3, text_begin))
    /\ pc = "load_segments" =>
          \A n \in 1 .. Len(program.segments) : n < segment => Segment(n)
    /\ pc \in {"stack", "running"} => \A n \in 1 .. Len(program.segments) : Segment(n)
    /\ pc = "running" => \A v \in StackPages : Shows(mem, cr3, v)

TInv == TTypes /\ NoFault /\ (Usual => Current /\ Fresh /\ Progress)

\* What a step does that does not write a segment's bytes.
Quiet == ~faulted /\ ~faulted'

\* Such a step faults nowhere.
LEMMA QuietSteps ==
    ASSUME TTypes', Quiet, Usual' => Current' /\ Fresh' /\ Progress'
    PROVE  TInv'
<1>1. NoFault'
  BY DEF Quiet, NoFault
<1> QED
  BY <1>1 DEF TInv

\* The current state is one mmap can work on.
LEMMA NowFits ==
    ASSUME exhausted \in BOOLEAN
    PROVE  Rec(Now) /\ (Sound(mem, cr3, free) => Fit(Now))
<1>1. Now.mem = mem /\ Now.free = free /\ Now.exhausted = exhausted
  BY DEF Now
<1>2. Rec(Now)
  BY <1>1 DEF Rec, Now
<1>3. ASSUME Sound(mem, cr3, free) PROVE Fit(Now)
  <2>1. Now \in Space
    BY <1>3 DEF Now, Space, Sound
  <2> QED
    BY <1>1, <1>3, <2>1 DEF Fit, Sound
<1> QED
  BY <1>2, <1>3

\* What Kept says of the variables.
LEMMA KeptMeans ==
    ASSUME NEW q, Kept(Now, q)
    PROVE  /\ Sound(q.mem, cr3, q.free)
           /\ \A u \in UserPages : Shows(mem, cr3, u) => Shows(q.mem, cr3, u)
<1>1. Sound(q.mem, cr3, q.free)
  BY DEF Kept, Fit, Space, Sound
<1>2. \A u \in UserPages : page_exists(Now, u) => page_exists(q, u)
  BY DEF Kept
<1>3. \A u : page_exists(Now, u) <=> Shows(mem, cr3, u)
  BY DEF page_exists, Now, Shows, HasPage
<1>4. \A u : page_exists(q, u) <=> Shows(q.mem, cr3, u)
  BY DEF page_exists, Shows, HasPage
<1> QED
  BY <1>1, <1>2, <1>3, <1>4

\* mmap in the current directory: it takes nothing away, and unless the sum
\* wraps it maps what it was asked for.
LEMMA MmapNow ==
    ASSUME exhausted \in BOOLEAN, NEW v \in Nat, NEW N \in Nat, NEW q, q = mmap(Now, v, N)
    PROVE  /\ Rec(q) /\ (exhausted => q.exhausted)
           /\ ~q.exhausted /\ Sound(mem, cr3, free) /\ Mappable(v, N) =>
                 /\ Kept(Now, q)
                 /\ v + N < PAGES => \A u \in v .. (v + N - 1) : page_exists(q, u)
<1>1. PICK s, R : s = Now /\ R = Rounds(v, N)
  OBVIOUS
<1>2. R \in Nat /\ (Mappable(v, N) => v + R <= KERNEL_VIRTUAL_OFFSET) /\ (v + N < PAGES => R = N)
  BY <1>1, RoundsAre
<1>3. Rec(s) /\ (s.exhausted = exhausted) /\ q = MapRounds(s, v, R)
  BY <1>1, NowFits DEF Now, mmap
<1>4. Rec(q) /\ (s.exhausted => q.exhausted)
  BY <1>2, <1>3, LoopKeeps
<1>5. ASSUME ~q.exhausted, Sound(mem, cr3, free), Mappable(v, N)
      PROVE  Kept(Now, q) /\ (v + N < PAGES => \A u \in v .. (v + N - 1) : page_exists(q, u))
  <2>1. Fit(s)
    BY <1>1, <1>5, NowFits
  <2>2. v + R <= KERNEL_VIRTUAL_OFFSET
    BY <1>2, <1>5
  <2>3. Kept(s, q) /\ \A u \in v .. (v + R - 1) : page_exists(q, u)
    BY <1>2, <1>3, <1>5, <2>1, <2>2, LoopMaps
  <2> QED
    BY <1>1, <1>2, <2>3
<1> QED
  BY <1>3, <1>4, <1>5, Zenon

\* A new directory is a tree of its own.
LEMMA FreshTree ==
    ASSUME NEW m \in Memory, NEW U, U \subseteq Frames, NEW d \in Frames \ U, m[d] = PageDirectory(d)
    PROVE  Sound(m, d, U)
<1>1. \A i \in User : m[d][i] = Empty
  BY Sizes DEF PageDirectory, User
<1>2. Tree(m, d, U)
  BY <1>1 DEF Tree, HasPage
<1>3. Kernel(m, d)
  <2>1. \A i \in KERNEL_PGD_ENTRY_INDEX .. (ENTRIES - 2) :
           i \in Index /\ ~(i < KERNEL_PGD_ENTRY_INDEX) /\ i # RECURSIVE_ENTRY
    BY Sizes DEF Index, RECURSIVE_ENTRY
  <2>2. RECURSIVE_ENTRY \in Index /\ ~(RECURSIVE_ENTRY < KERNEL_PGD_ENTRY_INDEX)
    BY Sizes DEF Index, RECURSIVE_ENTRY
  <2> QED
    BY <2>1, <2>2 DEF Kernel, PageDirectory
<1> QED
  BY <1>2, <1>3 DEF Sound

\* Fewer frames are free.
LEMMA LessFree ==
    ASSUME NEW m, NEW d, NEW U, Tree(m, d, U), NEW V, V \subseteq U
    PROVE  Tree(m, d, V)
  BY Elsewhere

-----------------------------------------------------------------------------
(* The steps. *)

\* The invariant holds when load_task is called first.
LEMMA InitInv == TInit => TInv
<1> SUFFICES ASSUME TInit PROVE TInv
  OBVIOUS
<1>1. TTypes
  <2>1. exhausted \in BOOLEAN /\ strayed \in BOOLEAN
    BY Zenon DEF TInit
  <2>2. segment \in Nat \ {0} /\ pc = "idle"
    BY DEF TInit
  <2> QED
    BY <2>1, <2>2 DEF TTypes
<1>2. BOOT \in Frames \cup {NoFrame, BOOT} /\ mem[BOOT] = init_page_directory
  BY DEF TInit
<1>3. mem \in Memory
  <2>1. PageDirectory(BOOT) \in [Index -> EntryType]
    BY Sizes, Entries DEF PageDirectory
  <2>2. init_page_directory \in [Index -> EntryType]
    BY <2>1, Entries DEF init_page_directory
  <2> QED
    BY <2>2, Entries DEF TInit, Memory
<1>4. Kernel(mem, BOOT)
  <2>1. \A i \in KERNEL_PGD_ENTRY_INDEX .. (ENTRIES - 2) :
           i \in Index /\ ~(i < KERNEL_PGD_ENTRY_INDEX) /\ i # RECURSIVE_ENTRY /\ i # 0
    BY Sizes DEF Index, RECURSIVE_ENTRY
  <2>2. RECURSIVE_ENTRY \in Index /\ ~(RECURSIVE_ENTRY < KERNEL_PGD_ENTRY_INDEX) /\ RECURSIVE_ENTRY # 0
    BY Sizes DEF Index, RECURSIVE_ENTRY
  <2> QED
    BY <1>2, <2>1, <2>2 DEF Kernel, PageDirectory, init_page_directory
<1>5. Current
  BY <1>3, <1>4 DEF TInit, Current
<1>6. Fresh /\ Progress
  BY DEF TInit, Fresh, Progress
<1> QED
  BY <1>1, <1>5, <1>6 DEF TInv, TInit, NoFault

\* A new directory goes to a free frame, hence into no tree.
LEMMA AllocInv ==
    ASSUME TInv, alloc_virtual_address_space
    PROVE  TInv'
<1>1. TTypes /\ (Usual => Current /\ Fresh /\ Progress)
  BY DEF TInv
<1>2. PICK dir, s, r : dir = Lowest(Now) /\ s = Take(Now) /\ r = Now
  OBVIOUS
<1>3. PICK target \in {dir} \cup ({tlb} \ {None}) :
         /\ Becomes([s EXCEPT !.mem[target] = PageDirectory(dir)])
         /\ strayed' = (strayed \/ target # dir)
  BY <1>2 DEF alloc_virtual_address_space
<1>4. vmm' = dir /\ text_begin' = None /\ pc' = "kernel_stack" /\ cr3' = cr3 /\ program' = program
      /\ segment' = segment /\ Quiet
  BY <1>2 DEF alloc_virtual_address_space, At, Quiet
<1>5. Rec(r) /\ r.mem = mem /\ r.free = free /\ r.exhausted = exhausted
  BY <1>1, <1>2, NowFits DEF TTypes, Now
<1>6. /\ Rec(s) /\ s.mem = mem /\ s.free = free \ {dir}
      /\ s.exhausted = (exhausted \/ free = {})
  <2>1. /\ Rec(s) /\ s.mem = r.mem /\ s.free = r.free \ {Lowest(r)}
        /\ s.exhausted = (r.exhausted \/ r.free = {})
    BY <1>2, <1>5, Taken, Zenon
  <2> QED
    BY <1>2, <1>5, <2>1, Zenon
<1>7. /\ mem' = [mem EXCEPT ![target] = PageDirectory(dir)] /\ free' = free \ {dir}
      /\ exhausted' = s.exhausted
  <2>1. PICK m, f, e : s = [mem |-> m, free |-> f, exhausted |-> e]
    BY <1>6 DEF Rec
  <2> QED
    BY <1>3, <1>6, <2>1 DEF Becomes
<1>8. exhausted' \in BOOLEAN /\ strayed' \in BOOLEAN
  BY <1>1, <1>3, <1>6, <1>7, Zenon DEF TTypes, Rec
<1>9. TTypes'
  BY <1>1, <1>4, <1>8 DEF TTypes
<1>10. ASSUME Usual' PROVE Current' /\ Fresh' /\ Progress'
  <2>1. Usual /\ target = dir /\ free # {}
    BY <1>3, <1>4, <1>6, <1>7, <1>10, Zenon DEF Usual, Quiet
  <2>2. /\ mem \in Memory /\ free \subseteq Frames
        /\ cr3 \in Frames \cup {BOOT} /\ Kernel(mem, cr3)
        /\ cr3 # BOOT => Tree(mem, cr3, free)
    BY <1>1, <2>1 DEF Current
  <2>3. dir \in free
    BY <1>2, <1>5, <2>1, <2>2, LowestFree
  <2>4. dir \in Frames /\ dir # cr3 /\ dir \in Nat
    BY <2>2, <2>3, Sizes DEF Tree
  <2>5. mem'[dir] = PageDirectory(dir) /\ \A f \in Frames \cup {NoFrame, BOOT} : f # dir => mem'[f] = mem[f]
    BY <1>7, <2>1, <2>2, <2>4 DEF Memory
  <2>6. mem' \in Memory
    <3>1. PageDirectory(dir) \in [Index -> EntryType]
      BY <2>4, Sizes, Entries DEF PageDirectory
    <3> QED
      BY <1>7, <2>2, <2>4, <3>1 DEF Memory
  <2>7. Kernel(mem', cr3)
    BY <2>2, <2>4, <2>5 DEF Kernel
  <2>8. cr3 # BOOT => Tree(mem', cr3, free')
    <3>1. ASSUME cr3 # BOOT PROVE Tree(mem', cr3, free')
      <4>1. Tree(mem, cr3, free)
        BY <2>2, <3>1
      <4>2. mem'[cr3] = mem[cr3]
        BY <2>2, <2>4, <2>5
      <4>3. \A i \in User : mem[cr3][i] # Empty => mem'[mem[cr3][i].frame] = mem[mem[cr3][i].frame]
        BY <2>3, <2>5, <4>1 DEF Tree
      <4>4. free' \subseteq free
        BY <1>7
      <4> QED
        BY <4>1, <4>2, <4>3, <4>4, Elsewhere
    <3> QED
      BY <3>1
  <2>9. Current'
    BY <1>4, <1>7, <2>2, <2>6, <2>7, <2>8 DEF Current
  <2>10. Fresh'
    BY <1>4, <1>7, <2>4, <2>5 DEF Fresh
  <2>11. Progress'
    BY <1>4 DEF Progress
  <2> QED
    BY <2>9, <2>10, <2>11
<1> QED
  BY <1>4, <1>9, <1>10, QuietSteps

\* The kernel stack only takes a frame.
LEMMA StackPageInv ==
    ASSUME TInv, alloc_kernel_stack
    PROVE  TInv'
<1>1. TTypes /\ (Usual => Current /\ Fresh /\ Progress)
  BY DEF TInv
<1>2. PICK s, r : s = Take(Now) /\ r = Now
  OBVIOUS
<1>3. /\ pc = "kernel_stack" /\ pc' = "switch" /\ cr3' = cr3 /\ strayed' = strayed /\ vmm' = vmm
      /\ program' = program /\ segment' = segment /\ text_begin' = text_begin /\ Quiet
      /\ mem' = s.mem /\ free' = s.free /\ exhausted' = s.exhausted
  BY <1>2 DEF alloc_kernel_stack, At, Becomes, Quiet
<1>4. Rec(r) /\ r.mem = mem /\ r.free = free /\ r.exhausted = exhausted
  BY <1>1, <1>2, NowFits DEF TTypes, Now
<1>5. /\ Rec(s) /\ s.mem = mem /\ s.free = free \ {Lowest(r)}
      /\ s.exhausted = (exhausted \/ free = {})
  <2>1. /\ Rec(s) /\ s.mem = r.mem /\ s.free = r.free \ {Lowest(r)}
        /\ s.exhausted = (r.exhausted \/ r.free = {})
    BY <1>2, <1>4, Taken, Zenon
  <2> QED
    BY <1>4, <2>1, Zenon
<1>6. exhausted' \in BOOLEAN /\ (exhausted => exhausted')
  BY <1>3, <1>5, Zenon DEF Rec
<1>7. TTypes'
  BY <1>1, <1>3, <1>6 DEF TTypes
<1>8. ASSUME Usual' PROVE Current' /\ Fresh' /\ Progress'
  <2>1. Usual
    BY <1>3, <1>6, <1>8, Zenon DEF Usual, Quiet
  <2>2. Current /\ Fresh
    BY <1>1, <2>1
  <2>3. free' \subseteq free /\ mem' = mem
    BY <1>3, <1>5
  <2>4. cr3 # BOOT => Tree(mem, cr3, free')
    BY <2>2, <2>3, LessFree DEF Current
  <2>5. Current'
    BY <1>3, <2>2, <2>3, <2>4 DEF Current
  <2>6. Fresh'
    BY <1>3, <2>2, <2>3 DEF Fresh
  <2>7. Progress'
    BY <1>3 DEF Progress
  <2> QED
    BY <2>5, <2>6, <2>7
<1> QED
  BY <1>3, <1>7, <1>8, QuietSteps

\* The new directory becomes the current one.
LEMMA SwitchInv ==
    ASSUME TInv, switch_virtual_address_space
    PROVE  TInv'
<1>1. TTypes /\ (Usual => Current /\ Fresh /\ Progress)
  BY DEF TInv
<1>2. /\ pc = "switch" /\ pc' = "load_elf" /\ cr3' = vmm /\ strayed' = strayed /\ vmm' = vmm
      /\ program' = program /\ segment' = segment /\ text_begin' = text_begin /\ Quiet
      /\ mem' = mem /\ free' = free /\ exhausted' = exhausted
  BY DEF switch_virtual_address_space, At, Quiet
<1>3. TTypes'
  BY <1>1, <1>2 DEF TTypes
<1>4. ASSUME Usual' PROVE Current' /\ Fresh' /\ Progress'
  <2>1. Current /\ Fresh
    BY <1>1, <1>2, <1>4 DEF Usual, Quiet
  <2>2. /\ mem \in Memory /\ free \subseteq Frames /\ text_begin = None
        /\ vmm \in Frames \ free /\ mem[vmm] = PageDirectory(vmm)
    BY <1>2, <2>1 DEF Current, Fresh
  <2>3. PICK m, U, d : m = mem /\ U = free /\ d = vmm
    OBVIOUS
  <2>4. Sound(m, d, U)
    BY <2>2, <2>3, FreshTree
  <2>5. Kernel(mem, vmm) /\ Tree(mem, vmm, free)
    BY <2>3, <2>4 DEF Sound
  <2>6. Current'
    BY <1>2, <2>2, <2>5 DEF Current
  <2>7. Fresh'
    BY <1>2, <2>2, Sizes DEF Fresh
  <2>8. Progress'
    BY <1>2 DEF Progress
  <2> QED
    BY <2>6, <2>7, <2>8
<1> QED
  BY <1>2, <1>3, <1>4, QuietSteps

\* A load that fails leaves the directory empty.
LEMMA FailInv ==
    ASSUME TInv, load_elf_fails
    PROVE  TInv'
<1>1. TTypes /\ (Usual => Current /\ Fresh /\ Progress)
  BY DEF TInv
<1>2. /\ pc = "load_elf" /\ pc' = "free_task" /\ cr3' = cr3 /\ strayed' = strayed /\ vmm' = vmm
      /\ program' = program /\ segment' = segment /\ text_begin' = text_begin /\ Quiet
      /\ mem' = mem /\ free' = free /\ exhausted' = exhausted
  BY DEF load_elf_fails, At, svars, Quiet
<1>3. TTypes'
  BY <1>1, <1>2 DEF TTypes
<1>4. ASSUME Usual' PROVE Current' /\ Fresh' /\ Progress'
  <2>1. Current /\ Fresh
    BY <1>1, <1>2, <1>4 DEF Usual, Quiet
  <2> QED
    BY <1>2, <2>1 DEF Current, Fresh, Progress
<1> QED
  BY <1>2, <1>3, <1>4, QuietSteps

\* The loader starts with nothing mapped.
LEMMA LoadInv ==
    ASSUME TInv, NEW p \in Programs, load_elf(p)
    PROVE  TInv'
<1>1. TTypes /\ (Usual => Current /\ Fresh /\ Progress)
  BY DEF TInv
<1>2. /\ pc = "load_elf" /\ pc' = (IF p.type = "ET_EXEC" THEN "load_segments" ELSE "stack")
      /\ cr3' = cr3 /\ strayed' = strayed /\ vmm' = vmm
      /\ program' = p /\ segment' = 1 /\ text_begin' = text_begin /\ Quiet
      /\ mem' = mem /\ free' = free /\ exhausted' = exhausted
  BY DEF load_elf, At, svars, Quiet
<1>3. TTypes'
  BY <1>1, <1>2 DEF TTypes
<1>4. ASSUME Usual' PROVE Current' /\ Fresh' /\ Progress'
  <2>1. Current /\ Fresh
    BY <1>1, <1>2, <1>4 DEF Usual, Quiet
  <2>2. cr3 # BOOT /\ text_begin = None
    BY <1>2, <2>1 DEF Fresh
  <2>3. Current'
    BY <1>2, <2>1 DEF Current
  <2>4. Fresh'
    BY <1>2 DEF Fresh
  <2>5. Progress'
    <3>1. CASE p.type = "ET_EXEC"
      <4>1. pc' = "load_segments"
        BY <1>2, <3>1
      <4> QED
        BY <1>2, <2>2, <4>1 DEF Progress
    <3>2. CASE p.type # "ET_EXEC"
      <4>1. pc' = "stack"
        BY <1>2, <3>2
      <4>2. \A n : Segment(n)'
        BY <1>2, <3>2 DEF Segment, Loaded
      <4> QED
        BY <1>2, <2>2, <4>1, <4>2 DEF Progress
    <3> QED
      BY <3>1, <3>2
  <2> QED
    BY <2>3, <2>4, <2>5
<1> QED
  BY <1>2, <1>3, <1>4, QuietSteps

\* All headers were seen.
LEMMA DoneInv ==
    ASSUME TInv, load_segments_done
    PROVE  TInv'
<1>1. TTypes /\ (Usual => Current /\ Fresh /\ Progress)
  BY DEF TInv
<1>2. /\ pc = "load_segments" /\ pc' = "stack" /\ segment > Len(program.segments)
      /\ cr3' = cr3 /\ strayed' = strayed /\ vmm' = vmm
      /\ program' = program /\ segment' = segment /\ text_begin' = text_begin /\ Quiet
      /\ mem' = mem /\ free' = free /\ exhausted' = exhausted
  BY DEF load_segments_done, At, svars, Quiet
<1>3. TTypes'
  BY <1>1, <1>2 DEF TTypes
<1>4. ASSUME Usual' PROVE Current' /\ Fresh' /\ Progress'
  <2>1. Current /\ Progress
    BY <1>1, <1>2, <1>4 DEF Usual, Quiet
  <2>2. Len(program.segments) \in Nat /\ segment \in Nat
    BY <1>1, <1>2, ProgramAssumption DEF TTypes
  <2>3. \A n \in 1 .. Len(program.segments) : n < segment
    BY <1>2, <2>2
  <2>4. \A n \in 1 .. Len(program.segments) : Segment(n)
    BY <1>2, <2>1, <2>3 DEF Progress
  <2>5. \A n : Segment(n)' <=> Segment(n)
    BY <1>2 DEF Segment, Loaded
  <2>6. Current' /\ Fresh'
    BY <1>2, <2>1 DEF Current, Fresh
  <2>7. Progress'
    BY <1>2, <2>1, <2>4, <2>5 DEF Progress
  <2> QED
    BY <2>6, <2>7
<1> QED
  BY <1>2, <1>3, <1>4, QuietSteps

\* free_task releases no frame: the directory is empty, and the entry of
\* the directory itself carries attribute bits.
LEMMA FreeInv ==
    ASSUME TInv, free_task
    PROVE  TInv'
<1>1. TTypes /\ (Usual => Current /\ Fresh /\ Progress)
  BY DEF TInv
<1>2. /\ pc = "free_task" /\ pc' = "idle" /\ cr3' = cr3 /\ strayed' = strayed
      /\ program' = program /\ segment' = segment /\ text_begin' = text_begin /\ Quiet
      /\ mem' = mem /\ exhausted' = exhausted
      /\ free' = free \cup Released(FreedEntries(vmm) \cup {Entry(vmm, RW)})
  BY DEF free_task, At, Quiet
<1>3. TTypes'
  BY <1>1, <1>2 DEF TTypes
<1>4. ASSUME Usual' PROVE Current' /\ Fresh' /\ Progress'
  <2>1. Current /\ Fresh
    BY <1>1, <1>2, <1>4 DEF Usual, Quiet
  <2>2. vmm = cr3 /\ cr3 # BOOT /\ mem[cr3] = PageDirectory(cr3)
    BY <1>2, <2>1 DEF Fresh
  <2>3. FreedIndices(vmm) = {}
    BY <2>2, Sizes DEF FreedIndices, PageDirectory, Index
  <2>4. FreedEntries(vmm) = {}
    BY <2>3 DEF FreedEntries
  <2>5. Released(FreedEntries(vmm) \cup {Entry(vmm, RW)}) = {}
    BY <2>4 DEF Released, Entry, RW
  <2>6. free' = free
    BY <1>2, <2>5
  <2> QED
    BY <1>2, <2>1, <2>6 DEF Current, Fresh, Progress
<1> QED
  BY <1>2, <1>3, <1>4, QuietSteps

\* One round of load_segments, for the header it is at.
LEMMA SegmentInv ==
    ASSUME TInv, load_segment
    PROVE  TInv'
<1>1. TTypes /\ (Usual => Current /\ Fresh /\ Progress)
  BY DEF TInv
<1>2. PICK g, N, s : /\ g = program.segments[segment] /\ N = num_pages(g)
                     /\ s = mmap(Now, g.page, N)
  OBVIOUS
<1>3. /\ pc = "load_segments" /\ segment <= Len(program.segments) /\ segment' = segment + 1
      /\ cr3' = cr3 /\ strayed' = strayed /\ vmm' = vmm /\ program' = program /\ ~faulted
  BY DEF load_segment, At
<1>4. skip_segment(g) \/ refuse_segment(g) \/ abandon_segment(g) \/ fill_segment(g)
  BY <1>2 DEF load_segment
<1>5. /\ program \in Programs /\ segment \in Nat \ {0} /\ Len(program.segments) \in Nat
      /\ exhausted \in BOOLEAN /\ strayed \in BOOLEAN
  BY <1>1, <1>3, ProgramAssumption DEF TTypes
<1>6. segment \in 1 .. Len(program.segments)
  BY <1>3, <1>5
<1>7. g.page \in Nat /\ N \in Nat \ {0}
  BY <1>2, <1>5, <1>6, Header
<1>8. WellFormed(g) => g.page + N < PAGES /\ Written(g) \subseteq g.page .. (g.page + N - 1)
  BY <1>2, <1>5, <1>6, WrittenInside DEF WellFormed
<1>9. /\ Rec(s) /\ (exhausted => s.exhausted)
      /\ ~s.exhausted /\ Sound(mem, cr3, free) /\ Mappable(g.page, N) =>
            /\ Kept(Now, s)
            /\ g.page + N < PAGES => \A u \in g.page .. (g.page + N - 1) : page_exists(s, u)
  <2>1. PICK v : v = g.page
    OBVIOUS
  <2>2. v \in Nat /\ N \in Nat /\ s = mmap(Now, v, N)
    BY <1>2, <1>7, <2>1
  <2>3. /\ Rec(s) /\ (exhausted => s.exhausted)
        /\ ~s.exhausted /\ Sound(mem, cr3, free) /\ Mappable(v, N) =>
              /\ Kept(Now, s)
              /\ v + N < PAGES => \A u \in v .. (v + N - 1) : page_exists(s, u)
    BY <1>5, <2>2, MmapNow
  <2> QED
    BY <2>1, <2>3, Zenon
<1>10. ASSUME Mappable(g.page, N), g.page + N < PAGES
       PROVE  g.page .. (g.page + N - 1) \subseteq UserPages
  <2>1. End(g.page, N) = g.page + N
    BY <1>7, <1>10, RoundsAre
  <2> QED
    BY <1>7, <1>10, <2>1, Sizes DEF Mappable, UserPages
<1>11. ASSUME Usual
       PROVE  /\ Sound(mem, cr3, free) /\ cr3 # BOOT /\ cr3 \in Frames \cup {BOOT}
              /\ text_begin = None \/ (text_begin \in UserPages /\ Shows(mem, cr3, text_begin))
              /\ \A n \in 1 .. Len(program.segments) : n < segment => Segment(n)
  BY <1>1, <1>3, <1>11 DEF Current, Progress, Sound
\* A header that is not loaded ends the loop.
<1>12. ASSUME g.load, ~(g.aligned /\ ~file_read_nothing(g) /\ Mappable(g.page, N)),
              NEW n \in 1 .. Len(program.segments), ~(n < segment)
       PROVE  ~Loaded(n)
  <2>1. segment \in 1 .. n
    BY <1>5, <1>12
  <2> QED
    BY <1>2, <1>12, <2>1 DEF Loaded
<1>13. CASE skip_segment(g)
  <2>1. /\ ~g.load /\ pc' = pc /\ mem' = mem /\ free' = free /\ exhausted' = exhausted
        /\ text_begin' = text_begin /\ Quiet
    BY <1>3, <1>13 DEF skip_segment, Quiet
  <2>2. TTypes'
    BY <1>3, <1>5, <2>1 DEF TTypes
  <2>3. ASSUME Usual' PROVE Current' /\ Fresh' /\ Progress'
    <3>1. Usual
      BY <1>3, <2>1, <2>3 DEF Usual, Quiet
    <3>2. \A n : Segment(n)' <=> Segment(n)
      BY <1>3, <2>1 DEF Segment, Loaded
    <3>3. Segment(segment)
      BY <1>2, <2>1 DEF Segment, Loaded
    <3>4. \A n \in 1 .. Len(program.segments) : n < segment + 1 => n < segment \/ n = segment
      BY <1>5
    <3>5. \A n \in 1 .. Len(program.segments) : n < segment + 1 => Segment(n)
      BY <1>11, <3>1, <3>3, <3>4
    <3> QED
      BY <1>3, <1>11, <2>1, <3>1, <3>2, <3>5 DEF Current, Fresh, Progress, Sound
  <2> QED
    BY <2>1, <2>2, <2>3, QuietSteps
<1>14. CASE refuse_segment(g)
  <2>1. /\ g.load /\ (~g.aligned \/ ~Mappable(g.page, N)) /\ pc' = "stack" /\ mem' = mem
        /\ free' = free /\ exhausted' = exhausted /\ text_begin' = text_begin /\ Quiet
    BY <1>2, <1>3, <1>14 DEF refuse_segment, Quiet
  <2>2. TTypes'
    BY <1>3, <1>5, <2>1 DEF TTypes
  <2>3. ASSUME Usual' PROVE Current' /\ Fresh' /\ Progress'
    <3>1. Usual
      BY <1>3, <2>1, <2>3 DEF Usual, Quiet
    <3>2. \A n : Segment(n)' <=> Segment(n)
      BY <1>3, <2>1 DEF Segment, Loaded
    <3>3. \A n \in 1 .. Len(program.segments) : ~(n < segment) => ~Loaded(n)
      BY <1>12, <2>1
    <3>4. \A n \in 1 .. Len(program.segments) : Segment(n)
      BY <1>11, <3>1, <3>3 DEF Segment
    <3> QED
      BY <1>3, <1>11, <2>1, <3>1, <3>2, <3>4 DEF Current, Fresh, Progress, Sound
  <2> QED
    BY <2>1, <2>2, <2>3, QuietSteps
<1>15. CASE abandon_segment(g)
  <2>1. /\ g.load /\ Mappable(g.page, N) /\ file_read_nothing(g) /\ pc' = "stack"
        /\ mem' = s.mem /\ free' = s.free /\ exhausted' = s.exhausted
        /\ text_begin' = text_begin /\ Quiet
    BY <1>2, <1>3, <1>15 DEF abandon_segment, Becomes, Quiet
  <2>2. exhausted' \in BOOLEAN
    BY <1>9, <2>1 DEF Rec
  <2>3. TTypes'
    BY <1>3, <1>5, <2>1, <2>2 DEF TTypes
  <2>4. ASSUME Usual' PROVE Current' /\ Fresh' /\ Progress'
    <3>1. Usual /\ ~s.exhausted
      BY <1>3, <1>9, <2>1, <2>4, Zenon DEF Usual, Quiet
    <3>2. Kept(Now, s)
      BY <1>9, <1>11, <2>1, <3>1
    <3>3. /\ Sound(mem', cr3, free')
          /\ \A u \in UserPages : Shows(mem, cr3, u) => Shows(mem', cr3, u)
      BY <2>1, <3>2, KeptMeans
    <3>4. \A n \in 1 .. Len(program.segments) : ~(n < segment) => ~Loaded(n)
      BY <1>12, <2>1
    <3>5. ASSUME NEW n \in 1 .. Len(program.segments) PROVE Segment(n)'
      <4>1. Loaded(n)' <=> Loaded(n)
        BY <1>3 DEF Loaded
      <4>2. SUFFICES ASSUME Loaded(n), NEW v \in Written(program.segments[n])
                     PROVE  v \in UserPages /\ Shows(mem', cr3, v)
        BY <1>3, <4>1 DEF Segment
      <4>3. v \in UserPages /\ Shows(mem, cr3, v)
        BY <1>11, <3>1, <3>4, <4>2 DEF Segment
      <4> QED
        BY <3>3, <4>3
    <3>6. Current'
      BY <1>3, <1>11, <2>1, <3>1, <3>3 DEF Current, Sound
    <3>7. Fresh'
      BY <2>1 DEF Fresh
    <3>8. Progress'
      BY <1>3, <1>11, <2>1, <3>1, <3>3, <3>5 DEF Progress
    <3> QED
      BY <3>6, <3>7, <3>8
  <2> QED
    BY <2>1, <2>3, <2>4, QuietSteps
<1>16. CASE fill_segment(g)
  <2>1. /\ g.load /\ g.aligned /\ Mappable(g.page, N) /\ ~file_read_nothing(g) /\ pc' = pc
        /\ text_begin' = (IF g.flags = "PF_RX" THEN g.page ELSE text_begin)
        /\ IF \A v \in Written(g) : v < KERNEL_VIRTUAL_OFFSET /\ page_exists(s, v)
           THEN Becomes(Write(s, Written(g))) /\ UNCHANGED faulted
           ELSE Becomes(s) /\ faulted' = TRUE
    BY <1>2, <1>16 DEF fill_segment
  <2>2. PICK q : q = Write(s, Written(g))
    OBVIOUS
  <2>3. q.exhausted = s.exhausted
    <3>1. PICK m, f, e : s = [mem |-> m, free |-> f, exhausted |-> e]
      BY <1>9 DEF Rec
    <3> QED
      BY <2>2, <3>1 DEF Write
  <2>4. exhausted' = s.exhausted /\ s.exhausted \in BOOLEAN
    BY <1>9, <2>1, <2>2, <2>3 DEF Becomes, Rec
  <2>5. TTypes'
    BY <1>3, <1>5, <2>1, <2>4 DEF TTypes
  <2>6. NoFault'
    <3> SUFFICES ASSUME faulted', ~exhausted', ~strayed', WellFormed(g) PROVE FALSE
      <4>1. program'.segments[segment' - 1] = g
        BY <1>2, <1>3, <1>5
      <4>2. WellFormed(program.segments[segment - 1])' <=> WellFormed(g)
        BY <4>1 DEF WellFormed, num_pages
      <4> QED
        BY <4>2, Zenon DEF NoFault
    <3>1. Usual /\ ~s.exhausted
      BY <1>3, <1>9, <2>4, Zenon DEF Usual
    <3>2. \A v \in Written(g) : v \in UserPages /\ page_exists(s, v)
      BY <1>8, <1>9, <1>10, <1>11, <2>1, <3>1
    <3>3. \A v \in Written(g) : v < KERNEL_VIRTUAL_OFFSET /\ page_exists(s, v)
      BY <3>2, Sizes DEF UserPages
    <3> QED
      BY <1>3, <2>1, <3>3
  <2>7. ASSUME Usual' PROVE Current' /\ Fresh' /\ Progress'
    <3>1. Usual /\ ~s.exhausted
      BY <1>3, <1>9, <2>4, <2>7, Zenon DEF Usual
    <3>2. Kept(Now, s)
      BY <1>9, <1>11, <2>1, <3>1
    <3>3. \A v \in Written(g) : page_exists(s, v) /\ v \in UserPages
      <4>1. \A v \in Written(g) : v < KERNEL_VIRTUAL_OFFSET /\ page_exists(s, v)
        BY <2>1, <2>7, Zenon DEF Usual
      <4>2. \A v \in Written(g) : v \in Nat
        BY <1>2, <1>5, <1>6, WrittenNat
      <4> QED
        BY <4>1, <4>2, Sizes DEF UserPages
    <3>4. mem' = q.mem /\ free' = q.free
      <4>1. \A v \in Written(g) : v < KERNEL_VIRTUAL_OFFSET /\ page_exists(s, v)
        BY <2>1, <2>7, Zenon DEF Usual
      <4> QED
        BY <2>1, <2>2, <4>1 DEF Becomes
    <3>5. Kept(s, q)
      <4>1. DOMAIN mem = Frames \cup {NoFrame, BOOT}
        BY <1>11, <3>1 DEF Sound, Memory
      <4>2. Fit(s)
        BY <3>2 DEF Kept
      <4>3. PICK W : W = Written(g)
        OBVIOUS
      <4>4. W \subseteq UserPages /\ (\A v \in W : page_exists(s, v)) /\ q = Write(s, W)
        BY <2>2, <3>3, <4>3
      <4> QED
        BY <4>1, <4>2, <4>4, WriteKeeps
    <3>6. Kept(Now, q)
      BY <3>2, <3>5 DEF Kept
    <3>7. /\ Sound(mem', cr3, free')
          /\ \A u \in UserPages : Shows(mem, cr3, u) => Shows(mem', cr3, u)
      BY <3>4, <3>6, KeptMeans
    <3>8. \A u \in Written(g) : u \in UserPages /\ Shows(mem', cr3, u)
      <4>1. \A u \in Written(g) : page_exists(q, u)
        BY <3>3, <3>5 DEF Kept
      <4>2. \A u : page_exists(q, u) <=> Shows(q.mem, cr3, u)
        BY DEF page_exists, Shows, HasPage
      <4> QED
        BY <3>3, <3>4, <4>1, <4>2
    <3>9. ASSUME NEW n \in 1 .. Len(program.segments), n < segment + 1 PROVE Segment(n)'
      <4>1. Loaded(n)' <=> Loaded(n)
        BY <1>3 DEF Loaded
      <4>2. SUFFICES ASSUME Loaded(n), NEW v \in Written(program.segments[n])
                     PROVE  v \in UserPages /\ Shows(mem', cr3, v)
        BY <1>3, <4>1 DEF Segment
      <4>3. CASE n = segment
        BY <1>2, <3>8, <4>2, <4>3
      <4>4. CASE n # segment
        <5>1. n < segment
          BY <1>5, <3>9, <4>4
        <5>2. v \in UserPages /\ Shows(mem, cr3, v)
          BY <1>11, <3>1, <4>2, <5>1 DEF Segment
        <5> QED
          BY <3>7, <5>2
      <4> QED
        BY <4>3, <4>4
    <3>10. text_begin' = None \/ (text_begin' \in UserPages /\ Shows(mem', cr3, text_begin'))
      <4>1. CASE g.flags = "PF_RX"
        <5>1. g.page \in Written(g)
          BY <1>2, <1>5, <1>6, <2>1, WrittenFirst
        <5> QED
          BY <2>1, <3>8, <4>1, <5>1
      <4>2. CASE g.flags # "PF_RX"
        BY <1>11, <2>1, <3>1, <3>7, <4>2
      <4> QED
        BY <4>1, <4>2
    <3>11. Current'
      BY <1>3, <1>11, <3>1, <3>4, <3>7 DEF Current, Sound
    <3>12. Fresh'
      BY <1>3, <2>1 DEF Fresh
    <3>13. Progress'
      BY <1>3, <1>11, <2>1, <3>1, <3>9, <3>10 DEF Progress
    <3> QED
      BY <3>11, <3>12, <3>13
  <2> QED
    BY <2>5, <2>6, <2>7 DEF TInv
<1> QED
  BY <1>4, <1>13, <1>14, <1>15, <1>16

\* The stack is mapped and takes nothing away.
LEMMA StackInv ==
    ASSUME TInv, load_task_stack
    PROVE  TInv'
<1>1. TTypes /\ (Usual => Current /\ Fresh /\ Progress)
  BY DEF TInv
<1>2. PICK v, s : v = STACK_END - STACK_SIZE /\ s = mmap(Now, v, STACK_SIZE)
  OBVIOUS
<1>3. /\ pc = "stack" /\ pc' = "running" /\ cr3' = cr3 /\ strayed' = strayed /\ vmm' = vmm
      /\ program' = program /\ segment' = segment /\ text_begin' = text_begin /\ Quiet
      /\ mem' = s.mem /\ free' = s.free /\ exhausted' = s.exhausted
  BY <1>2 DEF load_task_stack, At, Becomes, Quiet
<1>4. /\ program \in Programs /\ segment \in Nat \ {0}
      /\ exhausted \in BOOLEAN /\ strayed \in BOOLEAN
  BY <1>1, <1>3 DEF TTypes
<1>5. /\ v \in Nat /\ STACK_SIZE \in Nat /\ v + STACK_SIZE < PAGES /\ Mappable(v, STACK_SIZE)
      /\ StackPages = v .. (v + STACK_SIZE - 1)
  <2>1. /\ v \in Nat /\ STACK_SIZE \in Nat /\ v + STACK_SIZE < PAGES
        /\ v < KERNEL_VIRTUAL_OFFSET /\ v + STACK_SIZE < KERNEL_VIRTUAL_OFFSET
        /\ StackPages = v .. (v + STACK_SIZE - 1)
    BY <1>2, Sizes, ProgramAssumption DEF STACK_END, StackPages
  <2>2. End(v, STACK_SIZE) = v + STACK_SIZE
    BY <2>1, RoundsAre
  <2> QED
    BY <2>1, <2>2 DEF Mappable
<1>6. /\ Rec(s) /\ (exhausted => s.exhausted)
      /\ ~s.exhausted /\ Sound(mem, cr3, free) /\ Mappable(v, STACK_SIZE) =>
            /\ Kept(Now, s)
            /\ v + STACK_SIZE < PAGES => \A u \in v .. (v + STACK_SIZE - 1) : page_exists(s, u)
  BY <1>2, <1>4, <1>5, MmapNow
<1>7. exhausted' \in BOOLEAN
  BY <1>3, <1>6 DEF Rec
<1>8. TTypes'
  BY <1>3, <1>4, <1>7 DEF TTypes
<1>9. ASSUME Usual' PROVE Current' /\ Fresh' /\ Progress'
  <2>1. Usual /\ ~s.exhausted
    BY <1>3, <1>6, <1>9, Zenon DEF Usual, Quiet
  <2>2. /\ Sound(mem, cr3, free) /\ cr3 # BOOT /\ cr3 \in Frames \cup {BOOT}
        /\ text_begin = None \/ (text_begin \in UserPages /\ Shows(mem, cr3, text_begin))
        /\ \A n \in 1 .. Len(program.segments) : Segment(n)
    BY <1>1, <1>3, <2>1 DEF Current, Progress, Sound
  <2>3. Kept(Now, s) /\ \A u \in v .. (v + STACK_SIZE - 1) : page_exists(s, u)
    BY <1>5, <1>6, <2>1, <2>2
  <2>4. /\ Sound(mem', cr3, free')
        /\ \A u \in UserPages : Shows(mem, cr3, u) => Shows(mem', cr3, u)
    BY <1>3, <2>3, KeptMeans
  <2>5. \A u \in StackPages : Shows(mem', cr3, u)
    <3>1. \A u : page_exists(s, u) <=> Shows(s.mem, cr3, u)
      BY DEF page_exists, Shows, HasPage
    <3> QED
      BY <1>3, <1>5, <2>3, <3>1
  <2>6. ASSUME NEW n \in 1 .. Len(program.segments) PROVE Segment(n)'
    <3>1. Loaded(n)' <=> Loaded(n)
      BY <1>3 DEF Loaded
    <3>2. SUFFICES ASSUME Loaded(n), NEW u \in Written(program.segments[n])
                   PROVE  u \in UserPages /\ Shows(mem', cr3, u)
      BY <1>3, <3>1 DEF Segment
    <3>3. u \in UserPages /\ Shows(mem, cr3, u)
      BY <2>2, <3>2 DEF Segment
    <3> QED
      BY <2>4, <3>3
  <2>7. Current'
    BY <1>3, <2>2, <2>4 DEF Current, Sound
  <2>8. Fresh'
    BY <1>3 DEF Fresh
  <2>9. Progress'
    BY <1>3, <2>2, <2>4, <2>5, <2>6 DEF Progress
  <2> QED
    BY <2>7, <2>8, <2>9
<1> QED
  BY <1>3, <1>8, <1>9, QuietSteps

\* A stuttering step.
LEMMA StutterInv ==
    ASSUME TInv, UNCHANGED tvars
    PROVE  TInv'
  BY DEF TInv, TTypes, Usual, NoFault, Current, Fresh, Progress, Segment, Loaded, tvars

\* TInv is an invariant of the loader.
THEOREM Invariance == TSpec => []TInv
<1>1. ASSUME TInv, [TNext]_tvars PROVE TInv'
  <2>1. CASE TNext
    BY <1>1, <2>1, AllocInv, StackPageInv, SwitchInv, FailInv, LoadInv, SegmentInv, DoneInv,
       StackInv, FreeInv DEF TNext
  <2>2. CASE UNCHANGED tvars
    BY <1>1, <2>2, StutterInv
  <2> QED
    BY <1>1, <2>1, <2>2
<1> QED
  BY <1>1, InitInv, PTL DEF TSpec

-----------------------------------------------------------------------------
\* The directory in CR3 keeps its kernel and recursive entries through any
\* number of failed loads, frees and allocations: free_task leaves CR3 where
\* it is, and no later request is granted a frame of it.
THEOREM DirectoryStays == TSpec => []DirectorySurvives
<1>1. TInv => DirectorySurvives
  BY DEF TInv, Current, Kernel, DirectorySurvives, Intact
<1> QED
  BY <1>1, Invariance, PTL

\* load_segments writes a well-formed segment to mapped user pages only, for
\* every size and address: the rounding of what is written never exceeds the
\* rounding of what mmap is asked for.  Nothing is said of a header with more
\* bytes in the file than in memory, or whose end wraps: the code loads them.
THEOREM WellFormedNeverFaults == TSpec => []NoFault
<1>1. TInv => NoFault
  BY DEF TInv
<1> QED
  BY <1>1, Invariance, PTL

\* In the current address space a frame is the directory, one table or one
\* page, and allocate_physical_page does not hand it out.
THEOREM OnePurpose == TSpec => []FramesOwned
<1>1. ASSUME TInv, Usual, cr3 # BOOT
      PROVE  /\ \A p \in Places : FrameAt(p) \notin free
             /\ \A p, q \in Places : p # q => FrameAt(p) # FrameAt(q)
  <2>1. Tree(mem, cr3, free)
    BY <1>1 DEF TInv, Current
  <2> DEFINE Dir(p) == p = <<>> /\ FrameAt(p) = cr3
             Tab(p, i) == mem[cr3][i] # Empty /\ p = <<i>> /\ FrameAt(p) = mem[cr3][i].frame
             Pag(p, i, j) == HasPage(mem, cr3, i, j) /\ p = <<i, j>> /\ FrameAt(p) = PageAt(mem, cr3, i, j)
  <2>2. ASSUME NEW p \in Places
        PROVE  \/ Dir(p)
               \/ \E i \in User : Tab(p, i)
               \/ \E i \in User, j \in Index : Pag(p, i, j)
    <3>1. CASE p = <<>>
      BY <3>1 DEF FrameAt
    <3>2. ASSUME NEW i \in UserTables, p = <<i>> PROVE Tab(p, i) /\ i \in User
      BY <3>2 DEF UserTables, User, FrameAt
    <3>3. ASSUME NEW i \in UserTables, p \in PlacesOf(i)
          PROVE  i \in User /\ \E j \in Index : Pag(p, i, j)
      <4>1. i \in User /\ mem[cr3][i] # Empty
        BY DEF UserTables, User
      <4>2. PICK j \in Index : mem[mem[cr3][i].frame][j] # Empty /\ p = <<i, j>>
        BY <3>3 DEF PlacesOf
      <4>3. FrameAt(p) = PageAt(mem, cr3, i, j)
        BY <4>2 DEF FrameAt, PageAt
      <4> QED
        BY <4>1, <4>2, <4>3 DEF HasPage
    <3> QED
      BY <3>1, <3>2, <3>3 DEF Places
  <2>3. ASSUME NEW p \in Places PROVE FrameAt(p) \notin free
    BY <2>1, <2>2 DEF Tree
  <2>4. ASSUME NEW p \in Places, NEW q \in Places, FrameAt(p) = FrameAt(q) PROVE p = q
    <3>1. ASSUME Dir(p) PROVE p = q
      BY <2>1, <2>2, <2>4, <3>1 DEF Tree
    <3>2. ASSUME NEW i \in User, Tab(p, i) PROVE p = q
      BY <2>1, <2>2, <2>4, <3>2 DEF Tree
    <3>3. ASSUME NEW i \in User, NEW j \in Index, Pag(p, i, j) PROVE p = q
      <4>1. ~Dir(q)
        BY <2>1, <2>4, <3>3 DEF Tree
      <4>2. ASSUME NEW k \in User, Tab(q, k) PROVE FALSE
        BY <2>1, <2>4, <3>3, <4>2 DEF Tree
      <4>3. ASSUME NEW k \in User, NEW l \in Index, Pag(q, k, l) PROVE p = q
        <5>1. \A x, y \in User, z, w \in Index :
                 HasPage(mem, cr3, x, z) /\ HasPage(mem, cr3, y, w)
                 /\ PageAt(mem, cr3, x, z) = PageAt(mem, cr3, y, w) => x = y /\ z = w
          BY <2>1 DEF Tree
        <5>2. i = k /\ j = l
          BY <2>4, <3>3, <4>3, <5>1
        <5> QED
          BY <3>3, <4>3, <5>2
      <4> QED
        BY <2>2, <4>1, <4>2, <4>3
    <3> QED
      BY <2>2, <3>1, <3>2, <3>3
  <2> QED
    BY <2>3, <2>4
<1>2. TInv => FramesOwned
  BY <1>1 DEF FramesOwned
<1> QED
  BY <1>2, Invariance, PTL

\* load_task enters a task with its stack, every segment before the first that
\* could not be loaded, and its text address mapped.
THEOREM EnteredComplete == TSpec => []EnteredMapped
<1>1. ASSUME TInv, pc = "running", Usual
      PROVE  /\ \A v \in StackPages : page_exists(Now, v)
             /\ \A n \in 1 .. Len(program.segments) :
                   Loaded(n) => \A v \in Written(program.segments[n]) : page_exists(Now, v)
             /\ text_begin # None => page_exists(Now, text_begin)
  <2>1. \A u : page_exists(Now, u) <=> Shows(mem, cr3, u)
    BY DEF page_exists, Now, Shows, HasPage
  <2>2. Progress
    BY <1>1 DEF TInv
  <2> QED
    BY <1>1, <2>1, <2>2 DEF Progress, Segment
<1>2. TInv => EnteredMapped
  BY <1>1 DEF EnteredMapped
<1> QED
  BY <1>2, Invariance, PTL
=============================================================================
