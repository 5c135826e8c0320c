----------------------------- MODULE BootProofs -----------------------------
(***************************************************************************)
(* From the memory map to the running kernel: what map_memory marks, and   *)
(* that the ramdisk stays whole, for every map, page size and ramdisk.     *)
(***************************************************************************)
EXTENDS Boot, KHeapProofs

MapEntry == [addr : Nat, len : Nat, available : BOOLEAN]
Frame32 == 0 .. (WORD \div PAGE_SIZE - 1)

-----------------------------------------------------------------------------
(* Multiples of the page size. *)

LEMMA Widths ==
    /\ PAGE_SIZE \in Nat /\ PAGE_SIZE > 0 /\ WORD \in Nat /\ WORD > 0
    /\ WORD \div PAGE_SIZE \in Nat /\ WORD = (WORD \div PAGE_SIZE) * PAGE_SIZE
    /\ ENTRY_SIZE \in Nat /\ ENTRY_SIZE >= 2
BY WidthAssumption

LEMMA Steps ==
    ASSUME NEW a \in Nat, NEW b \in Nat
    PROVE  /\ a * PAGE_SIZE \in Nat
           /\ a < b => a * PAGE_SIZE + PAGE_SIZE <= b * PAGE_SIZE
           /\ a < b <=> a * PAGE_SIZE < b * PAGE_SIZE
           /\ a <= b <=> a * PAGE_SIZE <= b * PAGE_SIZE
<1>1. a * PAGE_SIZE \in Nat /\ b * PAGE_SIZE \in Nat
  BY Widths
<1>2. ASSUME NEW c \in Nat, NEW d \in Nat, c < d
      PROVE  c * PAGE_SIZE + PAGE_SIZE <= d * PAGE_SIZE
  <2>1. PICK e \in Nat : d = c + 1 + e
    <3>1. d - c - 1 \in Nat /\ d = c + 1 + (d - c - 1)
      BY <1>2
    <3> QED
      BY <3>1
  <2>2. d * PAGE_SIZE = c * PAGE_SIZE + PAGE_SIZE + e * PAGE_SIZE /\ e * PAGE_SIZE >= 0
    BY <2>1, Widths
  <2>3. c * PAGE_SIZE \in Nat /\ e * PAGE_SIZE \in Nat
    BY Widths
  <2> QED
    BY <2>2, <2>3, Widths
<1>3. a < b \/ a = b \/ b < a
  OBVIOUS
<1> QED
  BY <1>1, <1>2, <1>3, Widths

LEMMA Boundary ==
    ASSUME NEW x \in Nat
    PROVE  \E q \in Nat : /\ PAGE_BOUNDARY(x) = q * PAGE_SIZE
                          /\ q * PAGE_SIZE <= x /\ x < q * PAGE_SIZE + PAGE_SIZE
<1> DEFINE q == x \div PAGE_SIZE
<1>1. q \in Nat /\ x = q * PAGE_SIZE + (x % PAGE_SIZE) /\ x % PAGE_SIZE \in 0 .. PAGE_SIZE - 1
  BY Widths
<1> HIDE DEF q
<1>2. q * PAGE_SIZE \in Nat
  BY <1>1, Steps
<1> QED
  BY <1>1, <1>2, Widths DEF PAGE_BOUNDARY

LEMMA Truncated ==
    ASSUME NEW x \in Nat
    PROVE  /\ x < WORD => u32(x) = x
           /\ WORD <= x /\ x < 2 * WORD => u32(x) = x - WORD
           /\ u32(x) \in 0 .. WORD - 1
BY Widths DEF u32

\* The frames from A on, of a region of L bytes that holds M whole frames.
LEMMA FramesOfRegion ==
    ASSUME NEW A \in Nat, NEW M \in Nat, NEW L \in Nat, NEW addr \in Nat, NEW f \in Nat,
           M * PAGE_SIZE <= L, L < M * PAGE_SIZE + PAGE_SIZE,
           addr <= A * PAGE_SIZE, A * PAGE_SIZE < addr + PAGE_SIZE
    PROVE  /\ A * PAGE_SIZE <= f * PAGE_SIZE /\ f * PAGE_SIZE < A * PAGE_SIZE + M * PAGE_SIZE
                <=> A <= f /\ f < A + M
           /\ addr <= f * PAGE_SIZE /\ (f + 1) * PAGE_SIZE <= A * PAGE_SIZE + L
                <=> A <= f /\ f < A + M
<1> DEFINE a == A * PAGE_SIZE
           m == M * PAGE_SIZE
           p == f * PAGE_SIZE
<1>1. /\ a \in Nat /\ m \in Nat /\ p \in Nat
      /\ (A + M) * PAGE_SIZE = a + m /\ (f + 1) * PAGE_SIZE = p + PAGE_SIZE
  BY Widths, Steps
<1>2. /\ A <= f <=> a <= p
      /\ f < A => p + PAGE_SIZE <= a
  BY Steps
<1>3. /\ f < A + M <=> p < a + m
      /\ f < A + M => p + PAGE_SIZE <= a + m
      /\ A + M <= f <=> a + m <= p
  <2>1. A + M \in Nat
    OBVIOUS
  <2> QED
    BY <1>1, <2>1, Steps
<1> HIDE DEF a, m, p
<1>4. a <= p /\ p < a + m <=> A <= f /\ f < A + M
  BY <1>2, <1>3
<1>5. M * PAGE_SIZE = m /\ A * PAGE_SIZE = a /\ f * PAGE_SIZE = p
  BY DEF a, m, p
<1>6. addr <= p <=> A <= f
  BY <1>1, <1>2, <1>5, Widths
<1>7. p + PAGE_SIZE <= a + L <=> f < A + M
  BY <1>1, <1>3, <1>5, Widths
<1> QED
  BY <1>1, <1>4, <1>5, <1>6, <1>7

Covers(e, address, end) ==
    /\ e.addr + e.len <= WORD => FramesBetween(address, end) \subseteq WholeFrames(e)
    /\ ~(end < address) => WholeFrames(e) \subseteq FramesBetween(address, end)
    /\ end < address => e.addr + e.len >= WORD

\* A region of L bytes from frame A on, no longer than the address space.
LEMMA CoversRegion ==
    ASSUME NEW A \in Nat, NEW L \in Nat, NEW e \in MapEntry, NEW end,
           e.addr <= A * PAGE_SIZE, A * PAGE_SIZE < e.addr + PAGE_SIZE,
           e.addr + e.len = A * PAGE_SIZE + L, A * PAGE_SIZE < WORD, L < WORD,
           end = u32(A * PAGE_SIZE + PAGE_BOUNDARY(L))
    PROVE  Covers(e, A * PAGE_SIZE, end)
<1> DEFINE a == A * PAGE_SIZE
<1>1. PICK M \in Nat : /\ PAGE_BOUNDARY(L) = M * PAGE_SIZE
                       /\ M * PAGE_SIZE <= L /\ L < M * PAGE_SIZE + PAGE_SIZE
  BY Boundary
<1> DEFINE m == M * PAGE_SIZE
<1>2. a \in Nat /\ m \in Nat /\ a + m \in Nat /\ e.addr \in Nat /\ e.len \in Nat
  BY Steps DEF MapEntry
<1>3. \A f \in Nat : /\ a <= f * PAGE_SIZE /\ f * PAGE_SIZE < a + m <=> A <= f /\ f < A + M
                     /\ e.addr <= f * PAGE_SIZE /\ (f + 1) * PAGE_SIZE <= a + L
                          <=> A <= f /\ f < A + M
  BY <1>1, <1>2, FramesOfRegion
<1>4. Frame32 \subseteq Nat
  BY Widths DEF Frame32
<1>5. end = u32(a + m)
  BY <1>1
<1> HIDE DEF a, m
<1>6. CASE a + m < WORD
  <2>1. end = a + m
    BY <1>2, <1>5, <1>6, Truncated
  <2>2. FramesBetween(a, end) = WholeFrames(e)
    BY <1>3, <1>4, <2>1 DEF FramesBetween, WholeFrames, Frame32, a
  <2>3. ~(end < a)
    BY <1>2, <2>1
  <2> QED
    BY <2>2, <2>3 DEF Covers, a
<1>7. CASE a + m >= WORD
  <2>1. m <= L /\ a < WORD /\ a + m < 2 * WORD /\ e.addr + e.len = a + L
    BY <1>1, <1>2, <1>7, Widths DEF a, m
  <2>2. end = a + m - WORD
    BY <1>2, <1>5, <1>7, <2>1, Truncated, Widths
  <2>3. end < a /\ e.addr + e.len >= WORD
    BY <1>2, <1>7, <2>1, <2>2, Widths
  <2>4. ASSUME e.addr + e.len <= WORD PROVE FramesBetween(a, end) = {}
    <3>1. end \in Int /\ end <= 0
      BY <1>2, <1>7, <2>1, <2>2, <2>4, Widths
    <3>2. \A f \in Frame32 : f * PAGE_SIZE \in Nat
      BY <1>4, Steps
    <3> QED
      BY <3>1, <3>2 DEF FramesBetween, Frame32
  <2> QED
    BY <1>2, <2>2, <2>3, <2>4, Widths DEF Covers, a
<1> QED
  BY <1>2, <1>6, <1>7, Widths

LEMMA NothingBetween ==
    ASSUME NEW a \in Nat
    PROVE  FramesBetween(a, a) = {}
<1>1. \A f \in Frame32 : f \in Nat
  BY Widths DEF Frame32
<1>2. \A f \in Frame32 : f * PAGE_SIZE \in Nat
  BY <1>1, Steps
<1> QED
  BY <1>2 DEF FramesBetween, Frame32

\* A frame whose whole lies behind addr begins at the next boundary or later.
LEMMA WholeBehind ==
    ASSUME NEW e \in MapEntry, NEW f \in WholeFrames(e), NEW A \in Nat,
           A * PAGE_SIZE < e.addr + PAGE_SIZE
    PROVE  /\ f \in Nat /\ A <= f /\ f < WORD \div PAGE_SIZE /\ A * PAGE_SIZE <= f * PAGE_SIZE
           /\ f * PAGE_SIZE < WORD /\ f * PAGE_SIZE + PAGE_SIZE <= e.addr + e.len
<1>1. f \in Nat /\ f < WORD \div PAGE_SIZE /\ e.addr <= f * PAGE_SIZE /\ e.addr \in Nat
      /\ (f + 1) * PAGE_SIZE <= e.addr + e.len
  BY Widths DEF WholeFrames, MapEntry
<1>2. f * PAGE_SIZE < WORD
  BY <1>1, Steps, Widths
<1>3. (f + 1) * PAGE_SIZE = f * PAGE_SIZE + PAGE_SIZE /\ f * PAGE_SIZE \in Nat /\ A * PAGE_SIZE \in Nat
  BY <1>1, Widths, Steps
<1>4. f < A => f * PAGE_SIZE + PAGE_SIZE <= A * PAGE_SIZE
  BY <1>1, Steps
<1>5. A <= f
  BY <1>1, <1>3, <1>4, Widths
<1>6. A * PAGE_SIZE <= f * PAGE_SIZE
  BY <1>1, <1>5, Steps
<1> QED
  BY <1>1, <1>2, <1>3, <1>5, <1>6

\* The rounding of map_memory gains no frame and loses none.
LEMMA AlignedCovers ==
    ASSUME NEW e \in MapEntry, e.addr < WORD => e.len < WORD
    PROVE  /\ aligned(e).address \in Nat
           /\ Covers(e, aligned(e).address, u32(aligned(e).address + aligned(e).len))
<1> DEFINE addr == e.addr
           len == e.len
<1>1. addr \in Nat /\ len \in Nat
  BY DEF MapEntry
<1>2. CASE addr >= WORD
  <2> DEFINE R == aligned(e)
  <2>1. WholeFrames(e) = {}
    <3> SUFFICES ASSUME NEW f \in WholeFrames(e) PROVE FALSE
      OBVIOUS
    <3>1. f * PAGE_SIZE < WORD
      <4>1. 0 * PAGE_SIZE < e.addr + PAGE_SIZE
        BY <1>1, Widths
      <4> QED
        BY <4>1, WholeBehind
    <3>2. addr <= f * PAGE_SIZE /\ f \in Nat
      BY Widths DEF WholeFrames
    <3> QED
      BY <1>1, <1>2, <3>1, <3>2, Steps, Widths
  <2>2. R.address \in Nat
    <3>1. u32(addr) \in Nat
      BY <1>1, Truncated
    <3>2. PICK q \in Nat : PAGE_BOUNDARY(u32(addr)) = q * PAGE_SIZE
      BY <3>1, Boundary
    <3>3. q * PAGE_SIZE + PAGE_SIZE \in Nat
      BY Steps, Widths
    <3>4. NEXT_PAGE_BOUNDARY(u32(addr)) \in Nat
      BY <3>2, <3>3, Truncated DEF NEXT_PAGE_BOUNDARY
    <3> QED
      BY <3>1, <3>4 DEF aligned
  <2>3. ASSUME addr + len <= WORD
        PROVE  R.address = 0 /\ R.len = 0
    <3>1. addr = WORD /\ len = 0
      BY <1>1, <1>2, <2>3, Widths
    <3>2. u32(addr) = 0 /\ u32(len) = 0
      BY <3>1, Widths DEF u32
    <3>3. PAGE_BOUNDARY(0) = 0
      BY Widths DEF PAGE_BOUNDARY
    <3> QED
      BY <3>2, <3>3 DEF aligned
  <2>4. ASSUME addr + len <= WORD
        PROVE  FramesBetween(R.address, u32(R.address + R.len)) = {}
    <3>1. u32(0 + 0) = 0
      BY Truncated, Widths
    <3> QED
      BY <2>3, <2>4, <3>1, NothingBetween
  <2>5. addr + len >= WORD
    BY <1>1, <1>2, Widths
  <2> QED
    BY <2>1, <2>2, <2>4, <2>5 DEF Covers
<1>3. CASE addr < WORD
  <2>1. u32(addr) = addr /\ u32(len) = len /\ len < WORD
    BY <1>1, <1>3, Truncated
  <2>2. CASE PAGE_BOUNDARY(addr) = addr
    <3>1. PICK A \in Nat : A * PAGE_SIZE = addr
      BY <1>1, <2>2, Boundary
    <3>2. aligned(e) = [address |-> addr, len |-> PAGE_BOUNDARY(len)]
      BY <2>1, <2>2 DEF aligned
    <3>3. Covers(e, A * PAGE_SIZE, u32(A * PAGE_SIZE + PAGE_BOUNDARY(len)))
      <4>1. /\ addr <= A * PAGE_SIZE /\ A * PAGE_SIZE < addr + PAGE_SIZE
            /\ addr + len = A * PAGE_SIZE + len /\ A * PAGE_SIZE < WORD
        BY <1>1, <1>3, <3>1, Widths
      <4> QED
        BY <1>1, <2>1, <4>1, CoversRegion
    <3> QED
      BY <1>1, <3>1, <3>2, <3>3
  <2>3. CASE PAGE_BOUNDARY(addr) # addr
    <3>1. PICK q \in Nat : /\ PAGE_BOUNDARY(addr) = q * PAGE_SIZE
                           /\ q * PAGE_SIZE <= addr /\ addr < q * PAGE_SIZE + PAGE_SIZE
      BY <1>1, Boundary
    <3> DEFINE A == q + 1
               a == A * PAGE_SIZE
               next == NEXT_PAGE_BOUNDARY(addr)
    <3>2. a = q * PAGE_SIZE + PAGE_SIZE /\ a \in Nat /\ q * PAGE_SIZE \in Nat /\ A \in Nat
      BY <3>1, Widths, Steps
    <3>3. addr < a /\ addr <= a /\ a < addr + PAGE_SIZE
      BY <1>1, <2>3, <3>1, <3>2, Widths
    <3>4. a <= WORD
      <4>1. q * PAGE_SIZE < (WORD \div PAGE_SIZE) * PAGE_SIZE
        BY <1>1, <1>3, <3>1, <3>2, Widths
      <4>2. q < WORD \div PAGE_SIZE
        BY <4>1, Widths, Steps
      <4>3. q * PAGE_SIZE + PAGE_SIZE <= (WORD \div PAGE_SIZE) * PAGE_SIZE
        BY <4>2, Widths, Steps
      <4> QED
        BY <3>2, <4>3, Widths
    <3>5. next = u32(a)
      BY <3>1, <3>2 DEF NEXT_PAGE_BOUNDARY
    <3>6. next \in Nat
      BY <3>2, <3>5, Truncated
    <3>7. \A f \in WholeFrames(e) : a <= f * PAGE_SIZE /\ f * PAGE_SIZE < WORD
                                    /\ f * PAGE_SIZE \in Nat /\ f * PAGE_SIZE + PAGE_SIZE <= addr + len
      <4> HIDE DEF A
      <4> QED
        BY <3>2, <3>3, WholeBehind, Steps
    <3> HIDE DEF a, next, A
    <3>8. CASE len <= PAGE_SIZE
      <4>1. aligned(e) = [address |-> next, len |-> 0]
        BY <2>1, <2>3, <3>8 DEF aligned, next
      <4>2. u32(next + 0) = next
        BY <3>2, <3>5, <3>6, Truncated, Widths
      <4>3. FramesBetween(next, next) = {}
        BY <3>6, NothingBetween
      <4>4. WholeFrames(e) = {}
        BY <1>1, <3>2, <3>3, <3>7, <3>8, Widths
      <4>5. ~(next < next)
        BY <3>6
      <4> QED
        BY <3>6, <4>1, <4>2, <4>3, <4>4, <4>5 DEF Covers
    <3>9. CASE ~(len <= PAGE_SIZE) /\ a < WORD
      <4> DEFINE L == len - (a - addr)
      <4>1. next = a
        BY <3>2, <3>5, <3>9, Truncated
      <4>2. L \in Nat /\ L < WORD /\ addr + len = a + L
        BY <1>1, <2>1, <3>2, <3>3, <3>9, Widths
      <4>3. aligned(e) = [address |-> a, len |-> PAGE_BOUNDARY(u32(L))]
        BY <2>1, <2>3, <3>9, <4>1 DEF aligned, next
      <4> HIDE DEF L
      <4>4. u32(L) = L
        BY <4>2, Truncated
      <4>5. Covers(e, a, u32(a + PAGE_BOUNDARY(L)))
        BY <3>2, <3>3, <3>9, <4>2, CoversRegion DEF a
      <4> QED
        BY <3>2, <4>3, <4>4, <4>5
    <3>10. CASE ~(len <= PAGE_SIZE) /\ a = WORD
      <4>1. ~(addr + len <= WORD) /\ addr + len >= WORD
        BY <1>1, <3>2, <3>3, <3>10, Widths
      <4>2. WholeFrames(e) = {}
        BY <3>7, <3>10, Widths
      <4>3. aligned(e).address = next
        BY <2>1, <2>3, <3>10 DEF aligned, next
      <4> QED
        BY <3>6, <4>1, <4>2, <4>3 DEF Covers
    <3> QED
      BY <1>1, <3>2, <3>4, <3>8, <3>9, <3>10, Widths
  <2> QED
    BY <2>2, <2>3
<1> QED
  BY <1>1, <1>2, <1>3, Widths

-----------------------------------------------------------------------------
(* The walk over the memory map. *)

\* What the entries read so far have left, and that the walk is behind the
\* table once it has ended.
WalkInv ==
    /\ memory_map \in Tables /\ map_iterator \in Nat \ {0} /\ panicked \in BOOLEAN
    /\ MarkedIsRam
    /\ ~panicked => \A i \in 1 .. Len(memory_map) :
          i < map_iterator /\ memory_map[i].available => WholeFrames(memory_map[i]) \subseteq marked
    /\ PanicOnlyAtTop
    /\ stage # "phy_memory_manager_init" => ~InTable

LEMMA TableFacts ==
    ASSUME memory_map \in Tables
    PROVE  /\ memory_map \in Seq(MapEntry) /\ Len(memory_map) \in Nat \ {0}
           /\ DOMAIN memory_map = 1 .. Len(memory_map)
           /\ ENTRY_SIZE * Len(memory_map) \in Nat
           /\ ENTRY_SIZE * Len(memory_map) >= Len(memory_map) + 1
           /\ \A i \in 1 .. Len(memory_map) :
                 /\ memory_map[i] \in MapEntry
                 /\ memory_map[i].available /\ memory_map[i].addr < WORD => memory_map[i].len < WORD
<1>1. /\ memory_map \in Seq(MapEntry) /\ Len(memory_map) > 0
      /\ \A i \in 1 .. Len(memory_map) :
            memory_map[i].available /\ memory_map[i].addr < WORD => memory_map[i].len < WORD
  BY TablesAssumption DEF MapEntry
<1>2. Len(memory_map) \in Nat \ {0} /\ DOMAIN memory_map = 1 .. Len(memory_map)
  BY <1>1
<1>3. \A i \in 1 .. Len(memory_map) : memory_map[i] \in MapEntry
  BY <1>1
<1> DEFINE n == Len(memory_map)
<1> HIDE DEF n
<1>4. n \in Nat \ {0} /\ n = Len(memory_map)
  BY <1>2 DEF n
<1>5. ENTRY_SIZE * n \in Nat /\ ENTRY_SIZE * n >= n + 1
  <2>1. ENTRY_SIZE * n = 2 * n + (ENTRY_SIZE - 2) * n
    BY <1>4, Widths
  <2>2. (ENTRY_SIZE - 2) * n \in Nat
    BY <1>4, Widths
  <2> QED
    BY <1>4, <2>1, <2>2
<1> QED
  BY <1>1, <1>2, <1>3, <1>4, <1>5

LEMMA WalkEnds == ASSUME WalkInv, ~Walking, ~panicked PROVE ~InTable /\ AllRamMarked
<1>1. /\ memory_map \in Tables /\ map_iterator \in Nat
      /\ \A i \in 1 .. Len(memory_map) :
            i < map_iterator /\ memory_map[i].available => WholeFrames(memory_map[i]) \subseteq marked
  BY DEF WalkInv
<1>2. map_iterator > ENTRY_SIZE * Len(memory_map)
  BY <1>1, TableFacts DEF Walking
<1>3. map_iterator > Len(memory_map) + 1
  BY <1>1, <1>2, TableFacts
<1>4. \A i \in DOMAIN memory_map : i < map_iterator
  BY <1>1, <1>3, TableFacts
<1>5. Ram \subseteq marked
  BY <1>1, <1>4, TableFacts DEF Ram
<1> QED
  BY <1>1, <1>3, <1>5, TableFacts DEF InTable, AllRamMarked

LEMMA WalkInit == BInit => WalkInv
<1> SUFFICES ASSUME BInit PROVE WalkInv
  OBVIOUS
<1>1. /\ memory_map \in Tables /\ map_iterator = 1 /\ marked = {} /\ panicked = FALSE
      /\ stage = "phy_memory_manager_init"
  BY DEF BInit, MInit
<1>2. \A i \in 1 .. Len(memory_map) : ~(i < map_iterator)
  BY <1>1
<1>3. MarkedIsRam /\ PanicOnlyAtTop
  BY <1>1 DEF MarkedIsRam, PanicOnlyAtTop
<1>4. panicked \in BOOLEAN
  BY <1>1, Zenon
<1>5. map_iterator \in Nat \ {0}
  BY <1>1
<1> QED
  BY <1>1, <1>2, <1>3, <1>4, <1>5, Zenon DEF WalkInv

LEMMA WalkStep ==
    ASSUME WalkInv, map_memory, UNCHANGED stage, stage = "phy_memory_manager_init"
    PROVE  WalkInv'
<1>1. /\ memory_map \in Tables /\ map_iterator \in Nat \ {0} /\ panicked = FALSE
      /\ map_iterator' = map_iterator + 1 /\ memory_map' = memory_map
  BY DEF WalkInv, map_memory, Walking, map_entry
<1>2. /\ \A i \in 1 .. Len(memory_map) :
             i < map_iterator /\ memory_map[i].available => WholeFrames(memory_map[i]) \subseteq marked
      /\ InTable /\ Below4GB => marked \subseteq Ram
  BY <1>1 DEF WalkInv, MarkedIsRam
<1>3. stage' = "phy_memory_manager_init"
  OBVIOUS
<1>4. CASE map_iterator <= Len(memory_map)
  <2> DEFINE e == memory_map[map_iterator]
             R == aligned(e)
             end == u32(R.address + R.len)
  <2>1. map_entry(e) /\ e \in MapEntry /\ map_iterator \in DOMAIN memory_map
    BY <1>1, <1>4, TableFacts DEF map_memory
  <2>2. InTable
    BY <1>1, <1>4, TableFacts DEF InTable
  <2>3. CASE ~e.available
    <3>1. marked' = marked /\ panicked' = panicked
      BY <2>1, <2>3 DEF map_entry
    <3>2. \A i \in 1 .. Len(memory_map) : i < map_iterator + 1 => i < map_iterator \/ i = map_iterator
      BY <1>1
    <3>3. /\ MarkedIsRam' /\ PanicOnlyAtTop'
      BY <1>1, <1>2, <2>2, <3>1 DEF MarkedIsRam, PanicOnlyAtTop, Below4GB, Ram
    <3> QED
      BY <1>1, <1>2, <1>3, <2>3, <3>1, <3>2, <3>3 DEF WalkInv
  <2>4. CASE e.available
    <3>1. e.addr < WORD => e.len < WORD
      BY <1>1, <2>1, <2>4, TableFacts
    <3>2. R.address \in Nat /\ Covers(e, R.address, end)
      BY <2>1, <3>1, AlignedCovers
    <3>4. CASE end < R.address
      <4>1. panicked' = TRUE /\ marked' = marked
        BY <2>1, <2>4, <3>4 DEF map_entry
      <4>2. e.addr + e.len >= WORD
        BY <3>2, <3>4 DEF Covers
      <4>3. PanicOnlyAtTop'
        BY <1>1, <2>1, <2>4, <4>2 DEF PanicOnlyAtTop
      <4>4. MarkedIsRam'
        BY <1>1, <1>2, <2>2, <4>1 DEF MarkedIsRam, Below4GB, Ram
      <4> QED
        BY <1>1, <1>3, <4>1, <4>3, <4>4 DEF WalkInv
    <3>5. CASE ~(end < R.address)
      <4>1. panicked' = FALSE /\ marked' = marked \cup FramesBetween(R.address, end)
        BY <1>1, <2>1, <2>4, <3>5 DEF map_entry
      <4>2. WholeFrames(e) \subseteq FramesBetween(R.address, end)
        BY <3>2, <3>5 DEF Covers
      <4>3. \A i \in 1 .. Len(memory_map) : i < map_iterator + 1 => i < map_iterator \/ i = map_iterator
        BY <1>1
      <4>4. ASSUME Below4GB PROVE FramesBetween(R.address, end) \subseteq Ram
        <5>1. FramesBetween(R.address, end) \subseteq WholeFrames(e)
          BY <2>1, <2>4, <3>2, <4>4 DEF Covers, Below4GB
        <5> QED
          BY <2>1, <2>4, <5>1 DEF Ram
      <4>5. MarkedIsRam'
        BY <1>1, <1>2, <2>2, <4>1, <4>4 DEF MarkedIsRam, Below4GB, Ram
      <4>6. PanicOnlyAtTop'
        BY <4>1 DEF PanicOnlyAtTop
      <4>7. \A i \in 1 .. Len(memory_map) :
               i < map_iterator + 1 /\ memory_map[i].available => WholeFrames(memory_map[i]) \subseteq marked'
        BY <1>2, <4>1, <4>2, <4>3
      <4>8. map_iterator' \in Nat \ {0}
        BY <1>1
      <4> HIDE DEF e, R, end
      <4> QED
        BY <1>1, <1>3, <4>1, <4>5, <4>6, <4>7, <4>8 DEF WalkInv, WholeFrames
    <3> QED
      BY <3>4, <3>5
  <2> QED
    BY <2>3, <2>4
<1>5. CASE ~(map_iterator <= Len(memory_map))
  <2>1. PICK e \in Behind : map_entry(e)
    BY <1>5 DEF map_memory
  <2>2. marked \subseteq marked' /\ panicked' \in BOOLEAN
    BY <1>1, <2>1 DEF map_entry
  <2>3. ~InTable'
    BY <1>1, <1>5, TableFacts DEF InTable
  <2>4. MarkedIsRam' /\ PanicOnlyAtTop'
    BY <2>3 DEF MarkedIsRam, PanicOnlyAtTop
  <2>5. \A i \in 1 .. Len(memory_map) : i < map_iterator
    BY <1>1, <1>5, TableFacts
  <2> QED
    BY <1>1, <1>2, <1>3, <2>2, <2>4, <2>5 DEF WalkInv
<1> QED
  BY <1>4, <1>5

LEMMA WalkOver ==
    ASSUME WalkInv, UNCHANGED <<memory_map, map_iterator, marked>>,
           \/ UNCHANGED <<stage, panicked>>
           \/ ~InTable /\ panicked' \in BOOLEAN /\ (panicked' = panicked \/ panicked')
    PROVE  WalkInv'
<1>1. (WholeFrames(memory_map[1])' = WholeFrames(memory_map[1])) /\ Ram' = Ram /\ InTable' = InTable
  BY DEF WholeFrames, Ram, InTable
<1> QED
  BY <1>1 DEF WalkInv, MarkedIsRam, PanicOnlyAtTop, Below4GB, InTable, Ram

LEMMA WalkNext == WalkInv /\ [BNext]_bvars => WalkInv'
<1> SUFFICES ASSUME WalkInv, [BNext]_bvars PROVE WalkInv'
  OBVIOUS
<1>1. CASE map_memory_entry
  BY <1>1, WalkStep DEF map_memory_entry, At
<1>2. CASE phy_memory_manager_init
  <2>1. UNCHANGED mvars /\ ~Walking /\ ~panicked
    BY <1>2 DEF phy_memory_manager_init, At
  <2>2. ~InTable /\ panicked \in BOOLEAN
    BY <2>1, WalkEnds DEF WalkInv
  <2> QED
    BY <2>1, <2>2, WalkOver DEF mvars
<1>3. CASE kheap_init \/ vga_init \/ vfs_init \/ map_initrd \/ run
  <2>1. UNCHANGED mvars /\ stage # "phy_memory_manager_init"
    BY <1>3 DEF kheap_init, vga_init, vfs_init, map_initrd, run, At
  <2>2. ~InTable /\ panicked \in BOOLEAN
    BY <2>1 DEF WalkInv
  <2> QED
    BY <2>1, <2>2, WalkOver DEF mvars
<1>4. CASE make_initrd_fs
  <2>1. /\ UNCHANGED <<memory_map, map_iterator, marked>> /\ stage # "phy_memory_manager_init"
        /\ panicked' = panicked \/ panicked' = TRUE
    BY <1>4 DEF make_initrd_fs, At
  <2>2. ~InTable /\ panicked \in BOOLEAN
    BY <2>1 DEF WalkInv
  <2> QED
    BY <2>1, <2>2, WalkOver
<1>5. CASE UNCHANGED bvars
  BY <1>5, WalkOver DEF bvars, mvars
<1> QED
  BY <1>1, <1>2, <1>3, <1>4, <1>5 DEF BNext

LEMMA WalkAlways == BSpec => []WalkInv
BY WalkInit, WalkNext, PTL DEF BSpec

\* map_memory marks the whole frames of available regions and no others, for
\* every map below 4GB, however its regions are aligned and overlap.
THEOREM MarkedSafe == BSpec => []MarkedExactly
<1>1. WalkInv => MarkedExactly
  BY WalkEnds DEF WalkInv, MarkedExactly, AllRamMarked
<1> QED
  BY <1>1, WalkAlways, PTL

\* map_memory panics over no map whose regions end below the top of the
\* address space.
THEOREM PanicSafe == BSpec => []PanicOnlyAtTop
<1>1. WalkInv => PanicOnlyAtTop
  BY DEF WalkInv
<1> QED
  BY <1>1, WalkAlways, PTL

-----------------------------------------------------------------------------
(* The ramdisk. *)

Available == {f \in marked : KERNEL_END <= f}

\* Frames the heap may show before the ramdisk is mapped: low ones, and the
\* first one behind the kernel, which vfs_init was given.
Early == 0 .. (KERNEL_END - 1) \cup Lowest(Available)

\* What is the ramdisk's shows in its run.
InPlace(d) ==
    \A s \in Slots : table[s].frame \in FramesOf(d) =>
        \/ table[s].frame \in Lowest(Available)
        \/ \E r \in DOMAIN runs : r.device = d.first /\ r.first <= s /\ s < r.first + r.size

\* The order of kmain: while the ramdisk is not registered, at most a run of
\* two pages and one of a single page are taken, and one frame.
StageInv ==
    /\ stage \in {"phy_memory_manager_init", "kheap_init", "vga_init"} =>
          \A s \in Slots : table[s] = Empty
    /\ stage \in {"kheap_init", "vga_init", "vfs_init"} => free = Available
    /\ stage = "vga_init" => \A p \in 0 .. 7 : bitmap[p] = AVAILABLE
    /\ stage = "vfs_init" =>
          /\ \A s \in Slots : table[s].frame < KERNEL_END
          /\ \E x \in Int : \A p \in 0 .. 7 : bitmap[p] = AVAILABLE \/ (x <= p /\ p < x + 2)
    /\ stage \in {"make_initrd_fs", "map_initrd"} =>
          /\ \A s \in Slots : table[s].frame \in Early
          /\ \E p \in 0 .. 7 : bitmap[p] = AVAILABLE
    /\ stage \in {"map_initrd", "running"} =>
          Len(mods) = 1 /\ free \cap FramesOf(mods[1]) = {}
    /\ stage = "running" => InPlace(mods[1])

RamdiskInv ==
    /\ marked \subseteq Frame32 /\ free \subseteq Available
    /\ mods \in {<<>>} \cup {<<d>> : d \in Ramdisks}
    /\ RunsInv /\ TableInv
    /\ StageInv

LEMMA BootSizes ==
    /\ KERNEL_END \in Nat /\ KERNEL_END > 0 /\ LOW_END \in Nat /\ LOW_END < KERNEL_END
    /\ VGA.first \in Nat /\ VGA.size \in 1 .. 2 /\ VGA.first + VGA.size <= LOW_END
    /\ \A d \in Ramdisks :
          /\ d.first \in Nat /\ d.size \in Nat \ {0} /\ KERNEL_END <= d.first
          /\ 8 * NumBytes(d.size) + d.size <= PAGE_TABLE_SIZE
          /\ 8 * NumBytes(d.size) + 16 <= 8 * KHEAP_BITMAP_SIZE
    /\ PAGE_TABLE_SIZE \in Nat /\ KHEAP_BITMAP_SIZE \in Nat
    /\ 0 .. 7 \subseteq HeapPages /\ Slots \subseteq Nat
<1>1. /\ KERNEL_END \in Nat /\ KERNEL_END > 0 /\ LOW_END \in Nat /\ LOW_END < KERNEL_END
      /\ VGA.first \in Nat /\ VGA.size \in 1 .. 2 /\ VGA.first + VGA.size <= LOW_END
  BY BootAssumption
<1>2. \A d \in Ramdisks :
          /\ d.first \in Nat /\ d.size \in Nat \ {0} /\ KERNEL_END <= d.first
          /\ 8 * NumBytes(d.size) + d.size <= PAGE_TABLE_SIZE
          /\ 8 * NumBytes(d.size) + 16 <= 8 * KHEAP_BITMAP_SIZE
  BY BootAssumption DEF NumBytes
<1>3. PAGE_TABLE_SIZE \in Nat /\ KHEAP_BITMAP_SIZE \in Nat /\ KHEAP_BITMAP_SIZE >= 1
  BY SizesAssumption, BootAssumption
<1>4. 0 .. 7 \subseteq HeapPages /\ Slots \subseteq Nat
  BY <1>3 DEF HeapPages, Slots
<1> QED
  BY <1>1, <1>2, <1>3, <1>4

\* What a run of fresh frames does.
LEMMA AllocEffect ==
    ASSUME RunsInv, TableInv, free \subseteq Nat, NEW n \in Nat \ {0}, alloc_kheap_pages(n)
    PROVE  /\ RunsInv' /\ TableInv' /\ DOMAIN runs \subseteq DOMAIN runs' /\ free' \subseteq free
           /\ \A s \in Slots : \/ table'[s] = table[s]
                               \/ \E j \in 1 .. n : table'[s].frame = Granted(n)[j]
           /\ \E a \in Int : \A p \in HeapPages : bitmap'[p] = bitmap[p] \/ (a <= p /\ p < a + n)
<1> DEFINE a == get_free_continuous_blocks_address(n)
           F == Granted(n)
<1>1. /\ a \in Nat \cup {NULL} /\ entry(a) \in Slots
      /\ \A s \in Touched(a, n) : s \in Slots /\ s - entry(a) \in 0 .. n - 1
  BY EntryInTable
<1>2. /\ table' = [s \in Slots |-> IF s \in Touched(a, n)
                                   THEN [frame |-> F[s - entry(a) + 1], low |-> ATTRIBUTES]
                                   ELSE table[s]]
      /\ free' = free \ {F[k] : k \in 1 .. n}
      /\ bitmap' = IF a = NULL THEN bitmap ELSE turn_bits(a, n, UNAVAILABLE)
      /\ GiveOut(a, n, NoFrame)
  BY DEF alloc_kheap_pages
<1>3. \A k \in 1 .. n : F[k] \in free \cup {NoFrame}
  BY GrantedDistinct
<1> HIDE DEF a, F
<1>4. RunsInv' /\ DOMAIN runs \subseteq DOMAIN runs'
  BY <1>1, <1>2, GivenOut DEF NoFrame
<1>5. \A s \in Slots :
         \/ table'[s] = table[s]
         \/ \E j \in 1 .. n : table'[s] = [frame |-> F[j], low |-> ATTRIBUTES]
  <2> SUFFICES ASSUME NEW s \in Slots, s \in Touched(a, n)
               PROVE  \E j \in 1 .. n : table'[s] = [frame |-> F[j], low |-> ATTRIBUTES]
    BY <1>2
  <2>1. s - entry(a) + 1 \in 1 .. n
    BY <1>1, BootSizes
  <2> QED
    BY <1>2, <2>1
<1>6. TableInv'
  <2>1. \A k \in 1 .. n : F[k] \in Nat
    <3>1. free \cup {NoFrame} \subseteq Nat
      BY DEF NoFrame
    <3> QED
      BY <1>3, <3>1
  <2>2. ASSUME NEW s \in Slots
        PROVE  /\ table'[s] \in [frame : Nat, low : {0, ATTRIBUTES}]
               /\ table'[s].frame # NoFrame => table'[s].low = ATTRIBUTES
    <3>1. CASE table'[s] = table[s]
      BY <3>1 DEF TableInv
    <3>2. CASE table'[s] # table[s]
      <4>1. PICK j \in 1 .. n : table'[s] = [frame |-> F[j], low |-> ATTRIBUTES]
        BY <1>5, <3>2
      <4> QED
        BY <2>1, <4>1
    <3> QED
      BY <3>1, <3>2
  <2>3. table' = [s \in Slots |-> table'[s]]
    BY <1>2
  <2> QED
    BY <2>2, <2>3 DEF TableInv
<1>7. \A p \in HeapPages : bitmap'[p] = bitmap[p] \/ (a <= p /\ p < a + n)
  BY <1>2 DEF turn_bits
<1>8. a \in Int
  BY <1>1 DEF NULL
<1> QED
  BY <1>2, <1>4, <1>5, <1>6, <1>7, <1>8 DEF F

\* What a run that shows given frames does.
LEMMA MapEffect ==
    ASSUME RunsInv, TableInv, NEW d, d.first \in Nat, d.size \in Nat \ {0},
           map_physical_address_to_kheap(d),
           NEW a, a = get_free_continuous_blocks_address(d.size)
    PROVE  /\ RunsInv' /\ TableInv' /\ free' = free /\ a \in Int
           /\ DOMAIN runs' = DOMAIN runs \cup {[first |-> a, size |-> d.size, device |-> d.first]}
           /\ \A s \in Slots : \/ s \notin Touched(a, d.size) /\ table'[s] = table[s]
                               \/ s \in Touched(a, d.size) /\ table'[s].frame \in FramesOf(d)
           /\ \A p \in HeapPages : bitmap'[p] = bitmap[p] \/ (a <= p /\ p < a + d.size)
<1> DEFINE n == d.size
<1>1. /\ a \in Nat \cup {NULL} /\ entry(a) \in Slots
      /\ \A s \in Touched(a, n) : s \in Slots /\ s - entry(a) \in 0 .. n - 1
  BY EntryInTable
<1>2. /\ table' = [s \in Slots |-> IF s \in Touched(a, n)
                                   THEN [frame |-> d.first + (s - entry(a)), low |-> ATTRIBUTES]
                                   ELSE table[s]]
      /\ free' = free
      /\ bitmap' = IF a = NULL THEN bitmap ELSE turn_bits(a, n, UNAVAILABLE)
      /\ GiveOut(a, n, d.first)
  BY DEF map_physical_address_to_kheap
<1> HIDE DEF n
<1>3. n \in Nat \ {0} /\ n = d.size
  BY DEF n
<1>4. RunsInv' /\ DOMAIN runs' = DOMAIN runs \cup {[first |-> a, size |-> n, device |-> d.first]}
  BY <1>1, <1>2, <1>3, GivenOut
<1>5. \A s \in Touched(a, n) : d.first + (s - entry(a)) \in FramesOf(d) /\ d.first + (s - entry(a)) \in Nat
  <2>1. entry(a) \in Int /\ \A s \in Slots : s \in Int
    <3>1. \A s \in Slots : s \in Int
      BY BootSizes
    <3> QED
      BY <1>1, <3>1
  <2> QED
    BY <1>1, <1>3, <2>1 DEF FramesOf
<1>6. TableInv'
  <2>1. \A s \in Slots : /\ table'[s] \in [frame : Nat, low : {0, ATTRIBUTES}]
                         /\ table'[s].frame # NoFrame => table'[s].low = ATTRIBUTES
    BY <1>2, <1>5 DEF TableInv
  <2>2. table' = [s \in Slots |-> table'[s]]
    BY <1>2
  <2> QED
    BY <2>1, <2>2 DEF TableInv
<1>7. \A p \in HeapPages : bitmap'[p] = bitmap[p] \/ (a <= p /\ p < a + n)
  BY <1>2 DEF turn_bits
<1>8. a \in Int
  BY <1>1 DEF NULL
<1>9. \A s \in Slots : \/ s \notin Touched(a, n) /\ table'[s] = table[s]
                       \/ s \in Touched(a, n) /\ table'[s].frame \in FramesOf(d)
  BY <1>2, <1>5
<1> QED
  BY <1>2, <1>3, <1>4, <1>6, <1>7, <1>8, <1>9

\* The first frame that is granted is the lowest.
LEMMA FirstGranted ==
    ASSUME marked \subseteq Frame32, free = Available
    PROVE  Granted(1)[1] \in {NoFrame} \cup Lowest(Available)
<1>1. IsFiniteSet(Frame32) /\ Frame32 \subseteq Nat
  <2>1. WORD \div PAGE_SIZE - 1 \in Int
    BY Widths
  <2> QED
    BY <2>1, FS_Interval DEF Frame32
<1>2. free \subseteq Frame32
  BY DEF Available
<1>3. \A f \in free : Below(f) \subseteq Frame32
  BY <1>2 DEF Below
<1>4. \A f \in free : Cardinality(Below(f)) = 0 => Below(f) = {}
  <2>1. \A f \in free : IsFiniteSet(Below(f))
    BY <1>1, <1>3, FS_Subset
  <2> QED
    BY <2>1, FS_EmptySet
<1>5. Granted(1)[1] = IF \E f \in free : Cardinality(Below(f)) = 1 - 1
                      THEN CHOOSE f \in free : Cardinality(Below(f)) = 1 - 1 ELSE NoFrame
  BY DEF Granted
<1>6. CASE \E f \in free : Cardinality(Below(f)) = 0
  <2> DEFINE g == CHOOSE f \in free : Cardinality(Below(f)) = 0
  <2>1. g \in free /\ Cardinality(Below(g)) = 0
    BY <1>6
  <2>2. Granted(1)[1] = g
    BY <1>5, <1>6
  <2> HIDE DEF g
  <2>3. Below(g) = {}
    BY <1>4, <2>1
  <2>4. \A h \in free : g <= h
    BY <1>1, <1>2, <2>1, <2>3 DEF Below
  <2> QED
    BY <2>1, <2>2, <2>4 DEF Lowest
<1>7. CASE ~\E f \in free : Cardinality(Below(f)) = 0
  BY <1>5, <1>7
<1> QED
  BY <1>6, <1>7

-----------------------------------------------------------------------------
(* The steps of kmain keep the invariant. *)

LEMMA RamdiskInit == BInit => RamdiskInv
<1> SUFFICES ASSUME BInit PROVE RamdiskInv
  OBVIOUS
<1>1. /\ marked = {} /\ free = {} /\ stage = "phy_memory_manager_init"
      /\ mods \in {<<>>} \cup {<<d>> : d \in Ramdisks}
      /\ table = [s \in Slots |-> Empty] /\ runs = EmptyBag
  BY DEF BInit, MInit
<1>2. RunsInv
  BY <1>1 DEF RunsInv, EmptyBag, SetToBag
<1>3. TableInv
  BY <1>1 DEF TableInv, Empty, NoFrame
<1>4. StageInv
  BY <1>1 DEF StageInv
<1> QED
  BY <1>1, <1>2, <1>3, <1>4 DEF RamdiskInv

LEMMA RamdiskMarks ==
    ASSUME RamdiskInv, map_memory_entry
    PROVE  RamdiskInv'
<1>1. /\ stage = "phy_memory_manager_init" /\ map_memory /\ UNCHANGED <<stage, mods>>
      /\ UNCHANGED <<bitmap, table, free, runs, faulted>>
  BY DEF map_memory_entry, At, hvars
<1>2. /\ marked \subseteq marked' /\ marked' \subseteq marked \cup Frame32
  <2>1. ASSUME NEW e, map_entry(e) PROVE marked \subseteq marked' /\ marked' \subseteq marked \cup Frame32
    BY <2>1 DEF map_entry, FramesBetween, Frame32
  <2> QED
    BY <1>1, <2>1 DEF map_memory
<1>3. Available \subseteq Available'
  BY <1>2 DEF Available
<1>4. StageInv'
  BY <1>1 DEF StageInv, RamdiskInv
<1> QED
  BY <1>1, <1>2, <1>3, <1>4 DEF RamdiskInv, RunsInv, TableInv

\* Once the frames are marked, they stay as they are.
LEMMA MarkedStays ==
    ASSUME UNCHANGED mvars
    PROVE  marked' = marked /\ Available' = Available /\ Early' = Early
BY DEF mvars, Available, Early, Lowest

LEMMA RamdiskScan ==
    ASSUME RamdiskInv, phy_memory_manager_init
    PROVE  RamdiskInv'
<1>1. /\ stage = "phy_memory_manager_init" /\ stage' = "kheap_init" /\ UNCHANGED mvars
      /\ free' = Available /\ UNCHANGED <<mods, bitmap, table, runs>>
  BY DEF phy_memory_manager_init, At, Available
<1>2. marked' = marked /\ Available' = Available
  BY <1>1, MarkedStays
<1>3. StageInv'
  BY <1>1, <1>2 DEF StageInv, RamdiskInv
<1> QED
  BY <1>1, <1>2, <1>3 DEF RamdiskInv, RunsInv, TableInv

LEMMA RamdiskHeap ==
    ASSUME RamdiskInv, kheap_init
    PROVE  RamdiskInv'
<1>1. /\ stage = "kheap_init" /\ stage' = "vga_init" /\ UNCHANGED mvars
      /\ bitmap' = [p \in HeapPages |-> IF p < 8 * INIT_BYTES THEN AVAILABLE ELSE UNAVAILABLE]
      /\ UNCHANGED <<mods, table, free, runs>>
  BY DEF kheap_init, At
<1>2. marked' = marked /\ Available' = Available
  BY <1>1, MarkedStays
<1>3. \A p \in 0 .. 7 : bitmap'[p] = AVAILABLE
  <2>1. INIT_BYTES \in Nat /\ INIT_BYTES > 0
    BY SizesAssumption, BootAssumption
  <2>2. \A p \in 0 .. 7 : p \in HeapPages /\ p < 8 * INIT_BYTES
    BY <2>1, BootSizes
  <2> QED
    BY <1>1, <2>2
<1>4. StageInv'
  BY <1>1, <1>2, <1>3 DEF StageInv, RamdiskInv
<1> QED
  BY <1>1, <1>2, <1>4 DEF RamdiskInv, RunsInv, TableInv

LEMMA RamdiskVga ==
    ASSUME RamdiskInv, vga_init
    PROVE  RamdiskInv'
<1>1. /\ stage = "vga_init" /\ stage' = "vfs_init" /\ UNCHANGED mvars
      /\ map_physical_address_to_kheap(VGA) /\ UNCHANGED mods
      /\ RunsInv /\ TableInv /\ free = Available
      /\ \A s \in Slots : table[s] = Empty
      /\ \A p \in 0 .. 7 : bitmap[p] = AVAILABLE
  BY DEF vga_init, At, RamdiskInv, StageInv
<1>2. marked' = marked /\ Available' = Available
  BY <1>1, MarkedStays
<1> DEFINE a == get_free_continuous_blocks_address(VGA.size)
<1>3. VGA.first \in Nat /\ VGA.size \in Nat \ {0}
  BY BootSizes
<1>4. /\ RunsInv' /\ TableInv' /\ free' = free /\ a \in Int
      /\ \A s \in Slots : \/ table'[s] = table[s]
                          \/ table'[s].frame \in FramesOf(VGA)
      /\ \A p \in HeapPages : bitmap'[p] = bitmap[p] \/ (a <= p /\ p < a + VGA.size)
  BY <1>1, <1>3, MapEffect
<1> HIDE DEF a
<1>5. \A s \in Slots : table'[s].frame < KERNEL_END
  <2>1. \A f \in FramesOf(VGA) : f < KERNEL_END
    BY BootSizes DEF FramesOf
  <2>2. Empty.frame < KERNEL_END
    BY BootSizes DEF Empty, NoFrame
  <2> QED
    BY <1>1, <1>4, <2>1, <2>2
<1>6. \A p \in 0 .. 7 : bitmap'[p] = AVAILABLE \/ (a <= p /\ p < a + 2)
  <2>1. \A p \in 0 .. 7 : p \in HeapPages /\ p \in Int
    BY BootSizes
  <2>2. \A p \in Int : p < a + VGA.size => p < a + 2
    BY <1>4, BootSizes
  <2> QED
    BY <1>1, <1>4, <2>1, <2>2
<1>7. StageInv'
  BY <1>1, <1>2, <1>4, <1>5, <1>6 DEF StageInv
<1> QED
  BY <1>1, <1>2, <1>4, <1>7 DEF RamdiskInv

LEMMA FreeIsNat == ASSUME RamdiskInv PROVE free \subseteq Nat
<1>1. Frame32 \subseteq Nat
  BY Widths DEF Frame32
<1> QED
  BY <1>1 DEF RamdiskInv, Available

LEMMA RamdiskVfs ==
    ASSUME RamdiskInv, vfs_init
    PROVE  RamdiskInv'
<1>1. /\ stage = "vfs_init" /\ stage' = "make_initrd_fs" /\ UNCHANGED mvars
      /\ alloc_kheap_pages(1) /\ UNCHANGED mods
      /\ RunsInv /\ TableInv /\ free = Available /\ marked \subseteq Frame32
      /\ \A s \in Slots : table[s].frame < KERNEL_END
  BY DEF vfs_init, At, RamdiskInv, StageInv
<1>2. marked' = marked /\ Available' = Available /\ Early' = Early
  BY <1>1, MarkedStays
<1>3. PICK x \in Int : \A p \in 0 .. 7 : bitmap[p] = AVAILABLE \/ (x <= p /\ p < x + 2)
  BY <1>1 DEF RamdiskInv, StageInv
<1>4. free \subseteq Nat
  BY FreeIsNat
<1>5. /\ RunsInv' /\ TableInv' /\ free' \subseteq free
      /\ \A s \in Slots : \/ table'[s] = table[s]
                          \/ \E j \in 1 .. 1 : table'[s].frame = Granted(1)[j]
      /\ \E a \in Int : \A p \in HeapPages : bitmap'[p] = bitmap[p] \/ (a <= p /\ p < a + 1)
  BY <1>1, <1>4, AllocEffect
<1>6. ASSUME NEW s \in Slots PROVE table'[s].frame \in Early
  <2>1. NoFrame \in Early /\ Lowest(Available) \subseteq Early
    BY BootSizes DEF Early, NoFrame
  <2>2. CASE table'[s] = table[s]
    <3>1. table[s].frame \in Nat /\ table[s].frame < KERNEL_END
      BY <1>1 DEF TableInv
    <3> QED
      BY <2>2, <3>1, BootSizes DEF Early
  <2>3. CASE table'[s] # table[s]
    <3>1. table'[s].frame = Granted(1)[1]
      BY <1>5, <2>3
    <3> QED
      BY <1>1, <2>1, <3>1, FirstGranted
  <2> QED
    BY <2>2, <2>3
<1>7. \E p \in 0 .. 7 : bitmap'[p] = AVAILABLE
  <2>1. PICK a \in Int : \A p \in HeapPages : bitmap'[p] = bitmap[p] \/ (a <= p /\ p < a + 1)
    BY <1>5
  <2>2. \A p \in 0 .. 7 : bitmap'[p] = AVAILABLE \/ p = a \/ p = x \/ p = x + 1
    <3> SUFFICES ASSUME NEW p \in 0 .. 7 PROVE bitmap'[p] = AVAILABLE \/ p = a \/ p = x \/ p = x + 1
      OBVIOUS
    <3>1. p \in HeapPages /\ p \in Int
      BY BootSizes
    <3> QED
      BY <1>3, <2>1, <3>1
  <2>3. \E p \in 0 .. 7 : p # a /\ p # x /\ p # x + 1
    <3>1. \/ 0 # a /\ 0 # x /\ 0 # x + 1
          \/ 1 # a /\ 1 # x /\ 1 # x + 1
          \/ 2 # a /\ 2 # x /\ 2 # x + 1
          \/ 3 # a /\ 3 # x /\ 3 # x + 1
      OBVIOUS
    <3> QED
      BY <3>1
  <2> QED
    BY <2>2, <2>3
<1>8. StageInv'
  BY <1>1, <1>2, <1>6, <1>7 DEF StageInv
<1> QED
  BY <1>1, <1>2, <1>5, <1>8 DEF RamdiskInv

\* The module is one of the ramdisks.
LEMMA OneModule ==
    ASSUME RamdiskInv, Len(mods) = 1
    PROVE  mods[1] \in Ramdisks
<1>1. mods # <<>>
  OBVIOUS
<1>2. PICK d \in Ramdisks : mods = <<d>>
  BY <1>1 DEF RamdiskInv
<1> QED
  BY <1>2

LEMMA RamdiskRegistered ==
    ASSUME RamdiskInv, make_initrd_fs
    PROVE  RamdiskInv'
<1>1. /\ stage = "make_initrd_fs" /\ UNCHANGED <<marked, bitmap, table, runs, mods>>
      /\ \/ UNCHANGED <<stage, free>>
         \/ Len(mods) = 1 /\ free' = free \ FramesOf(mods[1]) /\ stage' = "map_initrd"
  BY DEF make_initrd_fs, At
<1>2. Available' = Available /\ Early' = Early
  BY <1>1 DEF Available, Early, Lowest
<1>3. FramesOf(mods[1])' = FramesOf(mods[1])
  BY <1>1 DEF FramesOf
<1>4. StageInv'
  <2>1. CASE UNCHANGED <<stage, free>>
    BY <1>1, <1>2, <2>1 DEF StageInv, RamdiskInv
  <2>2. CASE Len(mods) = 1 /\ free' = free \ FramesOf(mods[1]) /\ stage' = "map_initrd"
    BY <1>1, <1>2, <1>3, <2>2 DEF StageInv, RamdiskInv
  <2> QED
    BY <1>1, <2>1, <2>2
<1> QED
  BY <1>1, <1>2, <1>4 DEF RamdiskInv, RunsInv, TableInv

LEMMA RamdiskMapped ==
    ASSUME RamdiskInv, map_initrd
    PROVE  RamdiskInv'
<1> DEFINE d == mods[1]
           n == d.size
           a == get_free_continuous_blocks_address(n)
<1>1. /\ stage = "map_initrd" /\ stage' = "running" /\ UNCHANGED mvars /\ mods' = mods
      /\ map_physical_address_to_kheap(d)
      /\ RunsInv /\ TableInv /\ Len(mods) = 1 /\ free \cap FramesOf(d) = {}
      /\ \A s \in Slots : table[s].frame \in Early
      /\ \E p \in 0 .. 7 : bitmap[p] = AVAILABLE
  BY DEF map_initrd, At, RamdiskInv, StageInv
<1>2. marked' = marked /\ Available' = Available
  BY <1>1, MarkedStays
<1>3. d \in Ramdisks
  BY <1>1, OneModule
<1> HIDE DEF d
<1>4. /\ d.first \in Nat /\ n \in Nat \ {0} /\ KERNEL_END <= d.first
      /\ 8 * NumBytes(n) + n <= PAGE_TABLE_SIZE
      /\ 8 * NumBytes(n) + 16 <= 8 * KHEAP_BITMAP_SIZE
      /\ PAGE_TABLE_SIZE \in Nat /\ KHEAP_BITMAP_SIZE \in Nat /\ KERNEL_END \in Nat
  BY <1>3, BootSizes
<1>5. NumBytes(n) \in Nat
  BY <1>4 DEF NumBytes
<1>6. /\ RunsInv' /\ TableInv' /\ free' = free
      /\ DOMAIN runs' = DOMAIN runs \cup {[first |-> a, size |-> n, device |-> d.first]}
      /\ \A s \in Slots : \/ s \notin Touched(a, n) /\ table'[s] = table[s]
                          \/ s \in Touched(a, n) /\ table'[s].frame \in FramesOf(d)
  BY <1>1, <1>4, MapEffect
<1>7. a \in 0 .. 8 * NumBytes(n)
  <2> DEFINE bytes == 0 .. (KHEAP_BITMAP_SIZE - NumBytes(n) - 2)
  <2>1. NonZeroByte(0) /\ 0 \in bytes /\ bytes \subseteq Nat
    <3>1. \A k \in 0 .. 7 : 8 * 0 + k = k
      OBVIOUS
    <3> QED
      BY <1>1, <1>4, <1>5, <3>1 DEF NonZeroByte
  <2>2. PICK i \in bytes : /\ \A j \in bytes : j < i => ~NonZeroByte(j)
                           /\ a \in 8 * i .. 8 * i + 8 * NumBytes(n)
    BY <1>4, <2>1, AddressFound
  <2> HIDE DEF bytes, a, n
  <2>3. i = 0
    BY <2>1, <2>2
  <2> QED
    BY <1>5, <2>2, <2>3
<1> HIDE DEF a, n
<1>8. a \in Nat /\ entry(a) = a
  <2>1. a \in Nat /\ a < PAGE_TABLE_SIZE
    BY <1>4, <1>5, <1>7
  <2> QED
    BY <2>1, EntryWraps
<1>9. InPlace(d)'
  <2> SUFFICES ASSUME NEW s \in Slots, table'[s].frame \in FramesOf(d)
               PROVE  \/ table'[s].frame \in Lowest(Available)
                      \/ \E r \in DOMAIN runs' :
                            r.device = d.first /\ r.first <= s /\ s < r.first + r.size
    <3>1. d' = d /\ Lowest(Available)' = Lowest(Available) /\ FramesOf(d)' = FramesOf(d)
      BY <1>1, <1>2 DEF d, FramesOf, Lowest
    <3> QED
      BY <1>2, <3>1 DEF InPlace, FramesOf
  <2>1. CASE s \in Touched(a, n)
    <3>1. a <= s /\ s < a + n
      BY <1>8, <2>1 DEF Touched
    <3> DEFINE r == [first |-> a, size |-> n, device |-> d.first]
    <3>2. r \in DOMAIN runs' /\ r.device = d.first /\ r.first = a /\ r.size = n
      BY <1>6
    <3> HIDE DEF r
    <3> QED
      BY <3>1, <3>2
  <2>2. CASE s \notin Touched(a, n)
    <3>1. table'[s].frame \in Early
      BY <1>1, <1>6, <2>2
    <3>2. \A f \in FramesOf(d) : f \notin 0 .. (KERNEL_END - 1)
      BY <1>4 DEF FramesOf, n
    <3> QED
      BY <3>1, <3>2 DEF Early
  <2> QED
    BY <2>1, <2>2
<1>10. StageInv'
  <2>1. d' = d /\ FramesOf(d)' = FramesOf(d)
    BY <1>1 DEF d, FramesOf
  <2> QED
    BY <1>1, <1>6, <1>9, <2>1 DEF StageInv, d
<1> QED
  BY <1>1, <1>2, <1>6, <1>10 DEF RamdiskInv

\* From then on: fresh frames are none of the ramdisk's, a run given back
\* shows nothing, and the ramdisk's run is never given back.
LEMMA RamdiskRun ==
    ASSUME RamdiskInv, run
    PROVE  RamdiskInv'
<1> DEFINE d == mods[1]
<1>1. /\ stage = "running" /\ stage' = stage /\ UNCHANGED mvars /\ mods' = mods
      /\ Alloc \/ Free
      /\ RunsInv /\ TableInv /\ Len(mods) = 1 /\ free \cap FramesOf(d) = {} /\ InPlace(d)
      /\ free \subseteq Available
  BY DEF run, At, RamdiskInv, StageInv
<1>2. marked' = marked /\ Available' = Available
  BY <1>1, MarkedStays
<1>3. /\ d \in Ramdisks /\ d.first # NoFrame /\ NoFrame \notin FramesOf(d)
  <2>1. d \in Ramdisks
    BY <1>1, OneModule
  <2> HIDE DEF d
  <2> QED
    BY <2>1, BootSizes DEF NoFrame, FramesOf
<1>4. /\ RunsInv' /\ TableInv' /\ free' \subseteq free
      /\ \A r \in DOMAIN runs : r.device # NoFrame => r \in DOMAIN runs'
      /\ \A s \in Slots : table'[s] = table[s] \/ table'[s].frame \in free \cup {NoFrame}
  <2>1. CASE Alloc
    <3>1. PICK n \in RunSizes : alloc_kheap_pages(n)
      BY <2>1 DEF Alloc
    <3>2. n \in Nat \ {0} /\ free \subseteq Nat
      BY SizesAssumption, FreeIsNat
    <3>3. \A j \in 1 .. n : Granted(n)[j] \in free \cup {NoFrame}
      BY <3>2, GrantedDistinct
    <3> QED
      BY <1>1, <3>1, <3>2, <3>3, AllocEffect
  <2>2. CASE Free
    BY <1>1, <2>2, FreeEffect
  <2> QED
    BY <1>1, <2>1, <2>2
<1>5. d' = d /\ FramesOf(d)' = FramesOf(d) /\ Lowest(Available)' = Lowest(Available)
  BY <1>1, <1>2 DEF FramesOf, Lowest
<1> HIDE DEF d
<1>6. InPlace(d)'
  <2> SUFFICES ASSUME NEW s \in Slots, table'[s].frame \in FramesOf(d)
               PROVE  \/ table'[s].frame \in Lowest(Available)
                      \/ \E r \in DOMAIN runs' :
                            r.device = d.first /\ r.first <= s /\ s < r.first + r.size
    BY <1>2, <1>5 DEF InPlace, FramesOf
  <2>1. table'[s] = table[s]
    BY <1>1, <1>3, <1>4
  <2> QED
    BY <1>1, <1>3, <1>4, <2>1 DEF InPlace
<1>7. StageInv'
  <2>1. free' \cap FramesOf(d) = {}
    BY <1>1, <1>4
  <2> QED
    BY <1>1, <1>5, <1>6, <2>1 DEF StageInv, d
<1> QED
  BY <1>1, <1>2, <1>4, <1>7 DEF RamdiskInv

LEMMA RamdiskNext == RamdiskInv /\ [BNext]_bvars => RamdiskInv'
<1> SUFFICES ASSUME RamdiskInv, [BNext]_bvars PROVE RamdiskInv'
  OBVIOUS
<1>1. CASE UNCHANGED bvars
  BY <1>1 DEF bvars, mvars, hvars, RamdiskInv, StageInv, RunsInv, TableInv, InPlace, Available,
              Early, Lowest
<1> QED
  BY <1>1, RamdiskMarks, RamdiskScan, RamdiskHeap, RamdiskVga, RamdiskVfs, RamdiskRegistered,
     RamdiskMapped, RamdiskRun DEF BNext

\* Although make_initrd_fs registers the module's frames only after the first
\* page was allocated: what the heap shows of the ramdisk outside its own run
\* is the lowest frame behind the kernel and nothing else, and no frame of the
\* ramdisk can be handed out, whatever is allocated and freed afterwards.
THEOREM RamdiskSafe == BSpec => []RamdiskKept
<1>1. RamdiskInv => RamdiskKept
  <2> SUFFICES ASSUME RamdiskInv, stage = "running"
               PROVE  /\ Shared \subseteq Lowest(Available)
                      /\ free \cap FramesOf(mods[1]) = {}
    BY DEF RamdiskKept, Available
  <2>1. InPlace(mods[1]) /\ free \cap FramesOf(mods[1]) = {}
    BY DEF RamdiskInv, StageInv
  <2> QED
    BY <2>1 DEF Shared, InPlace, BagToSet
<1>2. BSpec => []RamdiskInv
  BY RamdiskInit, RamdiskNext, PTL DEF BSpec
<1> QED
  BY <1>1, <1>2, PTL
=============================================================================
