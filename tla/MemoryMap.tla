----------------------------- MODULE MemoryMap ------------------------------
(***************************************************************************)
(* map_memory (kernel/mm/physical_mm_manager.c): the walk over the memory  *)
(* map GRUB leaves behind, marking whole page frames available.            *)
(*                                                                         *)
(* Addresses and lengths are 64 bits wide in the map and are truncated to  *)
(* uint32_t; WORD stands for 2^32.  Memory from map_addr on is a sequence  *)
(* of map entries: the table itself, then whatever lies behind it.  The    *)
(* bound of the walk is map_addr + map_length where map_length counts      *)
(* bytes and the pointer steps by entries, so the walk covers ENTRY_SIZE   *)
(* times as many entries as the table has.  Every entry's own size field   *)
(* is taken to be that of one entry, as GRUB writes it: a step is one on.  *)
(***************************************************************************)
EXTENDS Integers, Sequences

CONSTANTS
    PAGE_SIZE,      \* bytes in a page frame
    WORD,           \* the size of the 32 bit address space, a multiple of PAGE_SIZE
    ENTRY_SIZE,     \* bytes of one map entry
    Tables,         \* the memory maps GRUB may pass: sequences of entries
    Behind          \* the entries that may be read behind the table

ASSUME WidthAssumption ==
    /\ PAGE_SIZE \in Nat \ {0} /\ WORD \in Nat \ {0} /\ WORD % PAGE_SIZE = 0
    /\ ENTRY_SIZE \in Nat /\ ENTRY_SIZE >= 2

\* A map has an entry, and no region of RAM that begins below 4GB is 4GB long:
\* firmware and devices lie between.
ASSUME TablesAssumption ==
    LET MapEntry == [addr : Nat, len : Nat, available : BOOLEAN] IN
    /\ Behind \subseteq MapEntry
    /\ \A t \in Tables :
          /\ t \in Seq(MapEntry) /\ Len(t) > 0
          /\ \A i \in 1 .. Len(t) : t[i].available /\ t[i].addr < WORD => t[i].len < WORD

VARIABLES
    memory_map,     \* the table GRUB passed
    map_iterator,   \* index of the entry the walk has reached
    marked,         \* frames whose bit map_memory has turned on
    panicked        \* kernel_panic was called

mvars == <<memory_map, map_iterator, marked, panicked>>

u32(x) == x % WORD

PAGE_BOUNDARY(x) == x - (x % PAGE_SIZE)
NEXT_PAGE_BOUNDARY(x) == u32(PAGE_BOUNDARY(x) + PAGE_SIZE)

mutant_round_length_up(entry) ==
    LET address == u32(entry.addr) len == u32(entry.len) IN
    IF PAGE_BOUNDARY(address) = address
    THEN [address |-> address, len |-> u32(PAGE_BOUNDARY(len + PAGE_SIZE - 1))]
    ELSE [address |-> NEXT_PAGE_BOUNDARY(address), len |-> PAGE_BOUNDARY(len)]

\* The page aligned address and length the loop body computes for an entry;
\* length 0 stands for the entry it skips.
aligned(entry) ==
    LET address == u32(entry.addr)
        len     == u32(entry.len)
        next    == NEXT_PAGE_BOUNDARY(address)
    IN  IF PAGE_BOUNDARY(address) = address
        THEN [address |-> address, len |-> PAGE_BOUNDARY(len)]
        ELSE IF len <= PAGE_SIZE
        THEN [address |-> next, len |-> 0]
        ELSE [address |-> next,
              len |-> PAGE_BOUNDARY(u32(len - (next - entry.addr)))]

\* change_pages_state(begin, end, PAGE_AVAILABLE) for aligned bounds.
FramesBetween(begin, end) ==
    {f \in 0 .. (WORD \div PAGE_SIZE - 1) :
        begin <= f * PAGE_SIZE /\ f * PAGE_SIZE < end}

\* The loop condition: the bound is map_length entries, not bytes, away.
Walking == ~panicked /\ map_iterator <= ENTRY_SIZE * Len(memory_map)

mutant_panic_on_empty(entry) ==
    LET region == aligned(entry)
        end    == u32(region.address + region.len)
    IN  /\ panicked' = (entry.available /\ end <= region.address)
        /\ marked' = IF entry.available
                     THEN marked \cup FramesBetween(region.address, end) ELSE marked
        /\ map_iterator' = map_iterator + 1
        /\ UNCHANGED memory_map

\* One round of the loop.  A region whose end wraps around is rejected by
\* change_pages_state, and the kernel panics.
map_entry(entry) ==
    LET region == aligned(entry)
        end    == u32(region.address + region.len)
    IN  /\ IF ~entry.available
           THEN UNCHANGED <<marked, panicked>>
           ELSE IF end < region.address
           THEN panicked' = TRUE /\ UNCHANGED marked
           ELSE /\ marked' = marked \cup FramesBetween(region.address, end)
                /\ UNCHANGED panicked
        /\ map_iterator' = map_iterator + 1
        /\ UNCHANGED memory_map

MInit ==
    /\ memory_map \in Tables
    /\ map_iterator = 1
    /\ marked = {}
    /\ panicked = FALSE

map_memory ==
    /\ Walking
    /\ IF map_iterator <= Len(memory_map)
       THEN map_entry(memory_map[map_iterator])
       ELSE \E entry \in Behind : map_entry(entry)

-----------------------------------------------------------------------------
\* The frames of the address space that lie wholly inside the entry.
WholeFrames(entry) ==
    {f \in 0 .. (WORD \div PAGE_SIZE - 1) :
        /\ entry.addr <= f * PAGE_SIZE
        /\ (f + 1) * PAGE_SIZE <= entry.addr + entry.len}

Ram == UNION {WholeFrames(memory_map[i]) :
                i \in {j \in DOMAIN memory_map : memory_map[j].available}}

\* The entries read so far are entries of the map.
InTable == map_iterator <= Len(memory_map) + 1

\* The available regions of the map end below or at the top of the address
\* space.
Below4GB ==
    \A i \in DOMAIN memory_map :
        memory_map[i].available => memory_map[i].addr + memory_map[i].len <= WORD

\* Every frame map_memory marks available from the entries of a map below
\* 4GB lies wholly in a region the map calls available: no frame is shared
\* with a reserved region or a device.
MarkedIsRam == InTable /\ Below4GB => marked \subseteq Ram

\* A walk that ends without a panic has marked every such frame, however the
\* regions are aligned and whatever was read behind the map.
AllRamMarked == ~Walking /\ ~panicked => Ram \subseteq marked

\* Rounding both ends of a region gains no frame and loses none.
MarkedExactly == MarkedIsRam /\ AllRamMarked

\* The kernel panics over an entry of the map only when an available region
\* ends at or beyond the top of the address space.
PanicOnlyAtTop ==
    InTable /\ panicked => \E i \in DOMAIN memory_map :
        memory_map[i].available /\ memory_map[i].addr + memory_map[i].len >= WORD
=============================================================================
