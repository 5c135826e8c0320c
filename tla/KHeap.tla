------------------------------- MODULE KHeap --------------------------------
(***************************************************************************)
(* The kernel heap's page manager (kernel/mm/kheap.c): a bitmap of virtual *)
(* pages, one page table for the first PAGE_TABLE_SIZE of them, and runs   *)
(* of pages handed to the rest of the kernel.                              *)
(*                                                                         *)
(* A heap address is the number of its page from KHEAP_BEGIN_ADDRESS on;   *)
(* NULL lies outside the heap.  A page table entry is a frame and its      *)
(* attribute bits.  The physical memory manager appears as PageAllocator,  *)
(* which PhysicalMM implements, granting the lowest free frame as the      *)
(* bitmap scan does.  runs is bookkeeping: what callers were given.        *)
(***************************************************************************)
EXTENDS Integers, FiniteSets, Bags

CONSTANTS
    KHEAP_BITMAP_SIZE,  \* bytes of the bitmap, eight pages each
    INIT_BYTES,         \* bytes of it that kheap_init sets
    PAGE_TABLE_SIZE,    \* entries of kheap_page_tables
    Frames,             \* frames the physical memory manager hands out
    Devices,            \* regions mapped as they are: [first, size] of frames
    RunSizes,           \* numbers of pages callers ask for
    MaxRuns             \* bound: runs handed out and not given back

VARIABLES
    bitmap,     \* kheap_st.bitmap, as a function of the page
    table,      \* kheap_page_tables, through the recursive mapping
    free,       \* frames the physical memory manager would hand out
    runs,       \* a bag of runs given to callers; device: the first frame it shows
    faulted     \* the kernel touched memory past its page table

hvars == <<bitmap, table, free, runs, faulted>>

ASSUME SizesAssumption ==
    /\ {KHEAP_BITMAP_SIZE, INIT_BYTES, PAGE_TABLE_SIZE, MaxRuns} \subseteq Nat
    /\ INIT_BYTES <= KHEAP_BITMAP_SIZE
    /\ 0 < PAGE_TABLE_SIZE /\ PAGE_TABLE_SIZE <= 8 * KHEAP_BITMAP_SIZE
    /\ Frames \subseteq Nat \ {0} /\ RunSizes \subseteq Nat \ {0}

\* The regions lie apart from each other and from the frames handed out.
ASSUME DevicesAssumption ==
    /\ Devices \subseteq [first : Nat \ {0}, size : Nat \ {0}]
    /\ \A d \in Devices : (d.first .. d.first + d.size - 1) \cap Frames = {}
    /\ \A d, e \in Devices : d = e \/ d.first + d.size <= e.first \/ e.first + e.size <= d.first

\* What is asked for at once fits the window twice, and the bitmap goes on
\* behind the window.
ASSUME WindowAssumption ==
    \A n \in RunSizes \cup {d.size : d \in Devices} :
        LET lookup_table_size == 8 * ((n + 7) \div 8) IN
        /\ lookup_table_size + n <= PAGE_TABLE_SIZE
        /\ PAGE_TABLE_SIZE + lookup_table_size + 8 <= 8 * KHEAP_BITMAP_SIZE

HeapPages == 0 .. (8 * KHEAP_BITMAP_SIZE - 1)
Slots == 0 .. (PAGE_TABLE_SIZE - 1)

UNAVAILABLE == 0
AVAILABLE == 1
NULL == -1
NoFrame == 0
ATTRIBUTES == 3                 \* READ_WRITE | PRESENT
Empty == [frame |-> NoFrame, low |-> 0]

-----------------------------------------------------------------------------
turn_bits(first, size, state) ==
    [p \in HeapPages |-> IF first <= p /\ p < first + size THEN state ELSE bitmap[p]]

mutant_find(buffer, size, num_blocks) ==
    LET counted(p) == {j \in 0 .. p : buffer[j] = AVAILABLE}
        ends == {p \in 0 .. (size - 2) : p \in counted(p) /\ Cardinality(counted(p)) = num_blocks}
    IN  IF ends = {} THEN size ELSE CHOOSE p \in ends : TRUE

\* The search of a lookup table for num_blocks free blocks.  A block in use
\* makes the run begin anew but not the count, so the search ends behind the
\* num_blocks-th free block, wherever the others are, with the beginning of
\* the stretch that one is in; the count is tested at the top of a round only,
\* too late for the last block.  There is no return behind the loop: what it
\* yields then is undefined, and in the image the repository ships
\* (grub/kernel.elf) it is the loop counter, the size of the table.
find_continuous_blocks_index(buffer, size, num_blocks) ==
    LET counted(p) == {j \in 0 .. p : buffer[j] = AVAILABLE}
        ends == {p \in 0 .. (size - 2) : p \in counted(p) /\ Cardinality(counted(p)) = num_blocks}
    IN  IF ends = {} THEN size
        ELSE CHOOSE i \in 0 .. (size - 1) : \E p \in ends :
               i <= p /\ i .. p \subseteq counted(p) /\ (i = 0 \/ i - 1 \notin counted(p))

\* The lookup table of num_bytes bytes from byte i on.
parse_lookup_table(i, num_bytes) ==
    [k \in 0 .. (8 * num_bytes - 1) |-> bitmap[8 * i + k]]

NonZeroByte(i) == \E k \in 0 .. 7 : bitmap[8 * i + k] = AVAILABLE

\* The page get_free_continuous_blocks_address finds: in the first byte that
\* has a free page and whose search does not fail.
get_free_continuous_blocks_address(num_pages) ==
    LET num_bytes == (num_pages + 7) \div 8
        index(i) == find_continuous_blocks_index(
                      parse_lookup_table(i, num_bytes), 8 * num_bytes, num_pages)
        stops == {i \in 0 .. (KHEAP_BITMAP_SIZE - num_bytes - 2) :
                    NonZeroByte(i) /\ index(i) # -1}
    IN  IF stops = {} THEN NULL
        ELSE LET i == CHOOSE i \in stops : \A j \in stops : i <= j
             IN  8 * i + index(i)

\* ADDRESS_TO_PAGE_TABLE_ENTRY: the window is aligned to a whole table, and
\* an address past it wraps to the entries at its beginning.
entry(address) == IF address = NULL THEN 0 ELSE address % PAGE_TABLE_SIZE

\* The entries a loop over a run touches before it leaves the table.
Touched(address, size) ==
    {s \in Slots : entry(address) <= s /\ s < entry(address) + size}

Overruns(address, size) == entry(address) + size > PAGE_TABLE_SIZE

\* What allocate_physical_page answers, n times in a row: the lowest frames
\* in turn, and NULL once nothing is left.
Below(f) == {g \in free : g < f}

Granted(n) ==
    [k \in 1 .. n |->
        IF \E f \in free : Cardinality(Below(f)) = k - 1
        THEN CHOOSE f \in free : Cardinality(Below(f)) = k - 1
        ELSE NoFrame]

GiveOut(address, size, device) ==
    runs' = runs (+) SetToBag({[first |-> address, size |-> size, device |-> device]})

mutant_alloc_one_bit(num_pages) ==
    LET address == get_free_continuous_blocks_address(num_pages)
        frames  == Granted(num_pages)
    IN  /\ bitmap' = IF address = NULL THEN bitmap
                     ELSE turn_bits(address, 1, UNAVAILABLE)
        /\ table' = [s \in Slots |->
              IF s \in Touched(address, num_pages)
              THEN [frame |-> frames[s - entry(address) + 1], low |-> ATTRIBUTES]
              ELSE table[s]]
        /\ free' = free \ {frames[k] : k \in 1 .. num_pages}
        /\ GiveOut(address, num_pages, NoFrame)
        /\ faulted' = Overruns(address, num_pages)

\* A run backed by fresh frames.  Nothing checks the answer of the physical
\* manager: a page it refuses is mapped to frame 0, and a run that was not
\* found is mapped at the beginning of the table.
alloc_kheap_pages(num_pages) ==
    LET address == get_free_continuous_blocks_address(num_pages)
        frames  == Granted(num_pages)
    IN  /\ bitmap' = IF address = NULL THEN bitmap
                     ELSE turn_bits(address, num_pages, UNAVAILABLE)
        /\ table' = [s \in Slots |->
              IF s \in Touched(address, num_pages)
              THEN [frame |-> frames[s - entry(address) + 1], low |-> ATTRIBUTES]
              ELSE table[s]]
        /\ free' = free \ {frames[k] : k \in 1 .. num_pages}
        /\ GiveOut(address, num_pages, NoFrame)
        /\ faulted' = Overruns(address, num_pages)

\* A run that shows the frames of a device region.  The region is meant to
\* be registered with the physical manager, but the call passes a number of
\* pages for the end address and is rejected.
map_physical_address_to_kheap(device) ==
    LET address == get_free_continuous_blocks_address(device.size) IN
    /\ bitmap' = IF address = NULL THEN bitmap
                 ELSE turn_bits(address, device.size, UNAVAILABLE)
    /\ table' = [s \in Slots |->
          IF s \in Touched(address, device.size)
          THEN [frame |-> device.first + (s - entry(address)), low |-> ATTRIBUTES]
          ELSE table[s]]
    /\ GiveOut(address, device.size, device.first)
    /\ faulted' = Overruns(address, device.size)
    /\ UNCHANGED free

\* The frames free_physical_page takes back from the entries of a run: an
\* entry is passed with its attribute bits, and an address that is not page
\* aligned is rejected.
Released(slots) == {table[s].frame : s \in {t \in slots : table[t].low = 0}} \cap Frames

InWindow(address) == address # NULL /\ address < PAGE_TABLE_SIZE

mutant_free_keeps_entries(address, size) ==
    IF ~InWindow(address) THEN UNCHANGED <<bitmap, table, free, faulted>>
    ELSE /\ bitmap' = turn_bits(address, size, AVAILABLE)
         /\ free' = free \cup {table[s].frame : s \in Touched(address, size)}
         /\ faulted' = Overruns(address, size)
         /\ UNCHANGED table

mutant_free_masked(address, size) ==
    IF ~InWindow(address) THEN UNCHANGED <<bitmap, table, free, faulted>>
    ELSE /\ bitmap' = turn_bits(address, size, AVAILABLE)
         /\ free' = free \cup {table[s].frame : s \in Touched(address, size)}
         /\ table' = [s \in Slots |->
               IF s \in Touched(address, size) THEN Empty ELSE table[s]]
         /\ faulted' = Overruns(address, size)

\* The heap's pages become available, their frames do not.
free_kheap_pages(address, size) ==
    IF ~InWindow(address) THEN UNCHANGED <<bitmap, table, free, faulted>>
    ELSE /\ bitmap' = turn_bits(address, size, AVAILABLE)
         /\ free' = free \cup Released(Touched(address, size))
         /\ table' = [s \in Slots |->
               IF s \in Touched(address, size) THEN Empty ELSE table[s]]
         /\ faulted' = Overruns(address, size)

-----------------------------------------------------------------------------
\* kheap_init
HInit ==
    /\ bitmap = [p \in HeapPages |-> IF p < 8 * INIT_BYTES THEN AVAILABLE ELSE UNAVAILABLE]
    /\ table = [s \in Slots |-> Empty]
    /\ free = Frames
    /\ runs = EmptyBag
    /\ faulted = FALSE

Alloc == \E n \in RunSizes : BagCardinality(runs) < MaxRuns /\ alloc_kheap_pages(n)

\* Each region is mapped once, by the code that owns the device.
Map == \E d \in Devices :
    /\ BagCardinality(runs) < MaxRuns
    /\ \A run \in BagToSet(runs) : run.device # d.first
    /\ map_physical_address_to_kheap(d)

\* A caller gives back a run it was given, never a device's.
Free == \E run \in BagToSet(runs) :
    /\ run.device = NoFrame
    /\ free_kheap_pages(run.first, run.size)
    /\ runs' = runs (-) SetToBag({run})

HNext == ~faulted /\ (Alloc \/ Map \/ Free)

HSpec == HInit /\ [][HNext]_hvars

-----------------------------------------------------------------------------
PagesOf(run) == run.first .. (run.first + run.size - 1)

\* Two pages of the heap never show the same frame of RAM, and no frame the
\* heap shows can be handed out again, even after runs overlapped and were
\* given back in any order.  (Frame 0 stands for every refused page.)
NoFrameShared ==
    \A s \in Slots : table[s].frame # NoFrame =>
        /\ table[s].frame \notin free
        /\ \A t \in Slots \ {s} : table[t].frame # table[s].frame

\* All runs so far lie inside the window the page table covers.
Inside(run) == run.first # NULL /\ run.first + run.size <= PAGE_TABLE_SIZE

AllInside == \A run \in BagToSet(runs) : Inside(run)

\* The bitmap and the page table agree on what is unused: a page the next
\* search may choose has an empty entry, as long as every run lies inside
\* the window, although runs may overlap.
AvailableUnmapped ==
    AllInside => \A s \in Slots : bitmap[s] = AVAILABLE => table[s] = Empty

\* "Search for num_pages free bytes": pages handed to one caller are not
\* handed to another.
RunsDisjoint ==
    \A r, q \in BagToSet(runs) :
        /\ r # q => PagesOf(r) \cap PagesOf(q) = {}
        /\ runs[r] = 1

\* The search of a lookup table with one stretch of free blocks is exact but
\* for the last block: it yields the first place where the request fits if
\* that place ends before the last block, and the end of the table otherwise.
\* (Across holes it does neither, see RunsDisjoint.)
OneStretchExact ==
    \A n \in RunSizes :
        LET num_bytes == (n + 7) \div 8
            size == 8 * num_bytes
        IN  \A i \in 0 .. (KHEAP_BITMAP_SIZE - num_bytes - 2) :
              LET buffer == parse_lookup_table(i, num_bytes)
                  unused == {k \in 0 .. (size - 1) : buffer[k] = AVAILABLE}
                  places == {k \in unused : k .. (k + n - 1) \subseteq unused /\ k + n < size}
                  found == find_continuous_blocks_index(buffer, size, n)
              IN  (\A j, k \in unused : j .. k \subseteq unused) =>
                    IF places = {} THEN found = size
                    ELSE found \in places /\ \A k \in places : found <= k

\* Frames only ever leave the physical memory manager: a run that is given
\* back returns none of them, since free_kheap_pages passes page table entries
\* with their attribute bits; so no page of an overlapping run that somebody
\* else still uses loses its frame to a third caller.
FramesNeverReturn == [][free' \subseteq free]_hvars
=============================================================================
