---------------------------- MODULE AddressSpace ----------------------------
(***************************************************************************)
(* Address spaces (kernel/mm/virtual_mm_manager.c): page directories, the  *)
(* one in CR3, and the user pages mapped through its recursive entry.      *)
(*                                                                         *)
(* mem holds what lies in a page frame when it is read as a table of ENTRIES*)
(* entries, a page directory or a page table.  A virtual page is its       *)
(* directory index times ENTRIES plus its table index.  The physical       *)
(* manager appears as PageAllocator, lowest frame first: it answers frame  *)
(* 0 when nothing is left, and rejects what is not page aligned.           *)
(*                                                                         *)
(* The directory of a new address space is written through a page of the   *)
(* kernel heap.  tlb is the frame the processor may still have cached for  *)
(* that heap page: tlb_flush invalidates the page at address 0 only.       *)
(***************************************************************************)
EXTENDS Integers, FiniteSets

CONSTANTS
    ENTRIES,            \* entries of a page directory and of a page table
    USER_SPACE_LIMIT,   \* free_virtual_address_space stops before this entry
    KERNEL_PGD_ENTRY_INDEX, \* entries from here to the last but one: kernel, heap
    Frames,             \* frames of RAM the physical manager hands out
    BOOT,               \* the frame of init_page_directory
    KERNEL_TABLES       \* the frame the kernel's entries point to

ASSUME SpaceAssumption ==
    /\ {ENTRIES, USER_SPACE_LIMIT, KERNEL_PGD_ENTRY_INDEX, BOOT, KERNEL_TABLES}
         \cup Frames \subseteq Nat \ {0}
    /\ USER_SPACE_LIMIT < KERNEL_PGD_ENTRY_INDEX
    /\ KERNEL_PGD_ENTRY_INDEX < ENTRIES - 1
    /\ BOOT \notin Frames /\ KERNEL_TABLES \notin Frames

VARIABLES
    mem,        \* what the frames hold
    free,       \* frames the physical manager would hand out
    cr3,        \* the frame of the current page directory
    tlb,        \* a frame cached for the heap page of directories, or None
    exhausted,  \* bookkeeping: a request for a frame was refused
    strayed     \* bookkeeping: a directory was written through a stale translation

svars == <<mem, free, cr3, tlb, exhausted, strayed>>
Index == 0 .. (ENTRIES - 1)
PAGES == ENTRIES * ENTRIES      \* pages a virtual address can name
KERNEL_VIRTUAL_OFFSET == KERNEL_PGD_ENTRY_INDEX * ENTRIES
RECURSIVE_ENTRY == ENTRIES - 1

NoFrame == 0
None == -1
RW == 3             \* READ_WRITE | PRESENT
RWU == 7            \* READ_WRITE | PRESENT | USER
Entry(frame, low) == [frame |-> frame, low |-> low]
Empty == Entry(0, 0)

Zeroed == [i \in Index |-> Empty]
Junk == [i \in Index |-> Entry(NoFrame, 1)]     \* whatever the RAM holds

-----------------------------------------------------------------------------
\* allocate_physical_page, on a record of mem, free and exhausted.
Lowest(s) == IF s.free = {} THEN NoFrame
             ELSE CHOOSE f \in s.free : \A g \in s.free : f <= g

Take(s) == [s EXCEPT !.free = @ \ {Lowest(s)},
                     !.exhausted = @ \/ s.free = {}]

Now == [mem |-> mem, free |-> free, exhausted |-> exhausted]

Becomes(s) == mem' = s.mem /\ free' = s.free /\ exhausted' = s.exhausted

mutant_page_directory(dir) ==
    [i \in Index |->
        IF i < KERNEL_PGD_ENTRY_INDEX THEN Empty ELSE Entry(KERNEL_TABLES, RW)]

\* The directory alloc_page_dir writes for the frame dir: kernel and heap
\* entries, and the recursive one.
PageDirectory(dir) ==
    [i \in Index |->
        IF i < KERNEL_PGD_ENTRY_INDEX THEN Empty
        ELSE IF i = RECURSIVE_ENTRY THEN Entry(dir, RW)
        ELSE Entry(KERNEL_TABLES, RW)]

\* The directory paging_init starts with also maps low memory to itself.
init_page_directory == [PageDirectory(BOOT) EXCEPT ![0] = Entry(KERNEL_TABLES, RW)]

mutant_released(entries) == {e.frame : e \in entries} \cap Frames

\* Frames free_physical_page takes back: entries that are page aligned.
Released(entries) == {e.frame : e \in {x \in entries : x.low = 0}} \cap Frames

\* What the loops of free_virtual_address_space pass to free_physical_page:
\* the entries of dir below the limit, and for each the entries of the table
\* that the directory in CR3 has at this index.
FreedIndices(dir) == {i \in 0 .. (USER_SPACE_LIMIT - 1) : mem[dir][i] # Empty}

FreedEntries(dir) ==
    {mem[dir][i] : i \in FreedIndices(dir)}
      \cup UNION {{mem[mem[cr3][i].frame][j] : j \in Index} \ {Empty} : i \in FreedIndices(dir)}

-----------------------------------------------------------------------------
\* page_exists, in the current directory.
page_exists(s, v) ==
    /\ s.mem[cr3][v \div ENTRIES] # Empty
    /\ s.mem[s.mem[cr3][v \div ENTRIES].frame][v % ENTRIES] # Empty

mutant_map(s, v, frame) ==
    LET i == v \div ENTRIES
        t == Lowest(s)
        tabled == [Take(s) EXCEPT !.mem = [[@ EXCEPT ![cr3][i] = Entry(t, RWU)]
                                              EXCEPT ![t] = Zeroed]]
    IN  [tabled EXCEPT !.mem[tabled.mem[cr3][i].frame][v % ENTRIES] = Entry(frame, RWU)]

\* A page table is allocated and zeroed when the directory has none.
map_user_virtual_address_to_physical(s, v, frame) ==
    LET i == v \div ENTRIES
        t == Lowest(s)
        tabled == IF s.mem[cr3][i] # Empty THEN s
                  ELSE [Take(s) EXCEPT !.mem = [[@ EXCEPT ![cr3][i] = Entry(t, RWU)]
                                                  EXCEPT ![t] = Zeroed]]
    IN  [tabled EXCEPT !.mem[tabled.mem[cr3][i].frame][v % ENTRIES] = Entry(frame, RWU)]

\* virtual_address + num_pages * PAGE_SIZE, in pages and as wide as an address.
End(v, num_pages) == (v + num_pages) % PAGES

\* mmap accepts the range.
Mappable(v, num_pages) ==
    v < KERNEL_VIRTUAL_OFFSET /\ End(v, num_pages) < KERNEL_VIRTUAL_OFFSET

\* The rounds of its loop, which ends at once when the sum has wrapped.
Rounds(v, num_pages) ==
    IF v < End(v, num_pages) THEN End(v, num_pages) - v ELSE 0

\* In each of them a page that exists is kept, and another one gets a fresh
\* frame, frame 0 when there is none.
MapRounds(s, v, rounds) ==
    LET after[k \in 0 .. rounds] ==
          IF k = 0 THEN s
          ELSE LET r == after[k - 1] page == v + k - 1 IN
               IF page_exists(r, page) THEN r
               ELSE map_user_virtual_address_to_physical(Take(r), page, Lowest(r))
    IN  after[rounds]

mmap(s, v, num_pages) == MapRounds(s, v, Rounds(v, num_pages))

\* The kernel can run: its own entries and the recursive one are in place.
Intact ==
    /\ \A i \in KERNEL_PGD_ENTRY_INDEX .. (ENTRIES - 2) :
          mem[cr3][i] = Entry(KERNEL_TABLES, RW)
    /\ mem[cr3][RECURSIVE_ENTRY] = Entry(cr3, RW)

=============================================================================
