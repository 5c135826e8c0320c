----------------------------- MODULE PhysicalMM -----------------------------
(***************************************************************************)
(* The physical memory manager (kernel/mm/physical_mm_manager.c): one bit  *)
(* per page frame, 1 when the frame may be handed out, and a flag that     *)
(* caches "the last scan found nothing".                                   *)
(*                                                                         *)
(* A page frame is named by its number, which is also its bit index in the *)
(* bitmap.  An address is the frame it lies in and its offset in the       *)
(* frame: PAGE_BOUNDARY(a) = a exactly when a.low = 0, and a page table    *)
(* entry is an address whose low bits are the attributes.  NULL is the     *)
(* address of frame 0.                                                     *)
(*                                                                         *)
(* ram, held, reserved and early are bookkeeping the code does not keep:   *)
(* what map_memory found, what callers were given, what they registered,   *)
(* and which registered frames were already given out at that time.        *)
(***************************************************************************)
EXTENDS Naturals

CONSTANTS
    BITMAP_SIZE,    \* bytes in the bitmap, eight page frames each
    LOW_END,        \* frame of the address 0xff000
    KERNEL_START,   \* frame of the linker symbol kernel_start
    KERNEL_END,     \* frame of the linker symbol kernel_end
    RamMaps,        \* the sets of whole frames map_memory may find
    RegionBounds,   \* frames at which callers begin and end a region
    LowBits         \* offsets in a frame of the addresses callers pass

Pages == 0 .. (8 * BITMAP_SIZE - 1)

ASSUME LayoutAssumption ==
    /\ BITMAP_SIZE \in Nat /\ KERNEL_START \in Nat
    /\ LOW_END \in Pages /\ KERNEL_END \in Pages
    /\ 0 < LOW_END /\ LOW_END <= KERNEL_START /\ KERNEL_START <= KERNEL_END

ASSUME InputsAssumption ==
    /\ RamMaps \subseteq SUBSET Pages
    /\ RegionBounds \subseteq Pages
    /\ LowBits \subseteq Nat

\* error_codes.h
SUCCESS == 0
INVALID_ARGUMENT == 4

\* page_state_t
PAGE_UNAVAILABLE == 0
PAGE_AVAILABLE == 1

NULL == 0

Address(p) == [page |-> p, low |-> 0]

VARIABLES
    bitmap,             \* physical_memory.bitmap, as a function of the frame
    no_page_available,  \* physical_memory.no_page_available
    ram, held, reserved, early,
    answer              \* what the latest allocation returned

vars == <<bitmap, no_page_available, ram, held, reserved, early, answer>>

-----------------------------------------------------------------------------
\* The bitmap and the code change_page_state leaves behind.
change_page_state(bm, address, state) ==
    IF address.low # 0
    THEN [code |-> INVALID_ARGUMENT, bitmap |-> bm]
    ELSE [code |-> SUCCESS, bitmap |-> [bm EXCEPT ![address.page] = state]]

mutant_inclusive_end(bm, begin, end, state) ==
    [code |-> SUCCESS, bitmap |-> [p \in Pages |->
        IF begin.page <= p /\ p <= end.page THEN state ELSE bm[p]]]

mutant_decrement(bm, begin, end, state) ==
    [code |-> SUCCESS, bitmap |-> [p \in Pages |->
        IF begin.page <= p /\ p < end.page
        THEN (IF state = PAGE_AVAILABLE THEN bm[p] + 1 ELSE bm[p] - 1) ELSE bm[p]]]

\* The frames of [begin, end) change state; misaligned or reversed bounds
\* are rejected before anything changes.
change_pages_state(bm, begin, end, state) ==
    IF begin.low # 0 \/ end.low # 0 \/ end.page < begin.page
    THEN [code |-> INVALID_ARGUMENT, bitmap |-> bm]
    ELSE [code |-> SUCCESS, bitmap |-> [p \in Pages |->
            IF begin.page <= p /\ p < end.page THEN state ELSE bm[p]]]

mutant_kernel_not_excluded(found) ==
    change_pages_state(
        [p \in Pages |-> IF p \in found THEN PAGE_AVAILABLE ELSE PAGE_UNAVAILABLE],
        Address(0), Address(LOW_END), PAGE_UNAVAILABLE).bitmap

\* The bitmap after boot, from the frames map_memory marked available.
phy_memory_manager_init(found) ==
    LET mapped == [p \in Pages |->
                     IF p \in found THEN PAGE_AVAILABLE ELSE PAGE_UNAVAILABLE]
        low == change_pages_state(mapped, Address(0), Address(LOW_END),
                                  PAGE_UNAVAILABLE).bitmap
    IN  change_pages_state(low, Address(KERNEL_START), Address(KERNEL_END),
                           PAGE_UNAVAILABLE).bitmap

-----------------------------------------------------------------------------
\* The byte the allocation scan starts from.
FirstByte == KERNEL_END \div 8

\* bitmap[i] != 0
NonZero(bm, i) == \E k \in 0 .. 7 : bm[8 * i + k] = PAGE_AVAILABLE

\* get_msb_index(bitmap[i]) = k: bit 0 is the most significant one, so this
\* is the lowest frame of the byte that is available.
get_msb_index(bm, i, k) ==
    /\ bm[8 * i + k] = PAGE_AVAILABLE
    /\ \A j \in 0 .. 7 : j < k => bm[8 * i + j] # PAGE_AVAILABLE

\* p is the frame at which the scan stops: the first byte that is not zero,
\* and in it the first bit that is set.
Located(bm, p) ==
    \E i \in FirstByte .. (BITMAP_SIZE - 1) :
        /\ NonZero(bm, i)
        /\ \A j \in FirstByte .. (BITMAP_SIZE - 1) : j < i => ~NonZero(bm, j)
        /\ \E k \in 0 .. 7 : get_msb_index(bm, i, k) /\ p = 8 * i + k

\* The scan runs off the end of the bitmap.
NothingLocated(bm) ==
    \A i \in FirstByte .. (BITMAP_SIZE - 1) : ~NonZero(bm, i)

mutant_bit_not_cleared ==
    /\ ~no_page_available
    /\ \E p \in Pages :
        /\ Located(bitmap, p)
        /\ held' = held \cup {p}
        /\ answer' = p
    /\ UNCHANGED <<bitmap, no_page_available, ram, reserved, early>>

allocate_physical_page ==
    /\ ~no_page_available
    /\ \E p \in Pages :
        /\ Located(bitmap, p)
        /\ bitmap' = change_page_state(bitmap, Address(p), PAGE_UNAVAILABLE).bitmap
        /\ held' = held \cup {p}
        /\ answer' = p
    /\ UNCHANGED <<no_page_available, ram, reserved, early>>

\* allocate_physical_page returning NULL: by the flag, or after a full scan.
allocate_physical_page_null ==
    /\ no_page_available \/ NothingLocated(bitmap)
    /\ no_page_available' = TRUE
    /\ answer' = NULL
    /\ UNCHANGED <<bitmap, ram, held, reserved, early>>

mutant_flag_kept(a) ==
    LET done == change_page_state(bitmap, a, PAGE_AVAILABLE) IN
    /\ bitmap' = done.bitmap
    /\ held' = IF done.code = SUCCESS THEN held \ {a.page} ELSE held
    /\ UNCHANGED <<no_page_available, ram, reserved, early, answer>>

\* The caller returns the frame of a, a page it holds.  The code it gets
\* back, which no caller looks at, is the value of the comparison
\* change_page_state(...) == SUCCESS.
free_physical_page(a) ==
    LET done == change_page_state(bitmap, a, PAGE_AVAILABLE)
        freed == done.code = SUCCESS
    IN  /\ bitmap' = done.bitmap
        /\ no_page_available' = IF freed THEN FALSE ELSE no_page_available
        /\ held' = IF freed THEN held \ {a.page} ELSE held
        /\ UNCHANGED <<ram, reserved, early, answer>>

\* The frames that may ever be handed out: RAM but for low memory and the
\* kernel image.
Usable == {p \in ram : LOW_END <= p /\ ~(KERNEL_START <= p /\ p < KERNEL_END)}

Region(begin, end) == {p \in Pages : begin.page <= p /\ p < end.page}

\* Whatever region the caller names becomes unavailable, the frames someone
\* holds included: kmain registers the ramdisk after vfs_init took a frame.
register_physical_pages(begin, end) ==
    LET done == change_pages_state(bitmap, begin, end, PAGE_UNAVAILABLE)
        region == IF done.code = SUCCESS THEN Region(begin, end) ELSE {}
    IN  /\ bitmap' = done.bitmap
        /\ reserved' = reserved \cup region
        /\ early' = (early \ region) \cup (region \cap held)
        /\ UNCHANGED <<no_page_available, ram, held, answer>>

\* Callers unregister usable memory that was registered and that nobody holds.
unregister_physical_pages(begin, end) ==
    LET done == change_pages_state(bitmap, begin, end, PAGE_AVAILABLE)
        region == IF done.code = SUCCESS THEN Region(begin, end) ELSE {}
    IN  /\ Region(begin, end) \subseteq (reserved \cap Usable) \ held
        /\ bitmap' = done.bitmap
        /\ reserved' = reserved \ region
        /\ early' = early \ region
        /\ UNCHANGED <<no_page_available, ram, held, answer>>

-----------------------------------------------------------------------------
Init ==
    /\ ram \in RamMaps
    /\ bitmap = phy_memory_manager_init(ram)
    /\ no_page_available = FALSE
    /\ held = {}
    /\ reserved = {}
    /\ early = {}
    /\ answer = NULL

Bounds == [page : RegionBounds, low : LowBits]

Next ==
    \/ allocate_physical_page
    \/ allocate_physical_page_null
    \/ \E a \in [page : held, low : LowBits] : free_physical_page(a)
    \/ \E begin, end \in Bounds : register_physical_pages(begin, end)

Spec == Init /\ [][Next]_vars

\* The interface declares unregister_physical_pages too; nothing in the
\* kernel calls it.
NextAll ==
    \/ Next
    \/ \E begin, end \in Bounds : unregister_physical_pages(begin, end)

SpecAll == Init /\ [][NextAll]_vars

-----------------------------------------------------------------------------
TypeOK ==
    /\ bitmap \in [Pages -> {PAGE_UNAVAILABLE, PAGE_AVAILABLE}]
    /\ no_page_available \in BOOLEAN
    /\ ram \in SUBSET Pages
    /\ held \in SUBSET Pages
    /\ reserved \in SUBSET Pages
    /\ early \in SUBSET reserved
    /\ answer \in Pages

\* The bitmap never loses or invents a frame: a bit is set exactly for the
\* usable frames that nobody holds and that no registration withdrew, through
\* any sequence of allocations, releases (rejected ones too) and
\* registrations.  A registration withdraws no frame that was held when it
\* was made: releasing the frame sets its bit again.
Accounting ==
    \A p \in Pages : bitmap[p] = PAGE_AVAILABLE
                      <=> /\ p \in Usable /\ p \notin held
                          /\ p \in reserved => p \in early

\* A caller is never given a frame of low memory or of the kernel image, so
\* NULL is never a frame someone holds; a registered frame is held only if
\* it was already held when it was registered; and every frame a caller
\* holds is one the next scan would look at once it is returned.
HandedOut ==
    /\ held \subseteq Usable
    /\ held \cap reserved \subseteq early
    /\ \A p \in held : 8 * FirstByte <= p

\* While the cached flag says that nothing is left, nothing is: the early
\* return of allocate_physical_page refuses no request a scan would serve.
FlagSound == no_page_available => NothingLocated(bitmap)

\* The frames the scan can reach and would hand out.
Reachable == {p \in Pages : 8 * FirstByte <= p /\ bitmap[p] = PAGE_AVAILABLE}

\* The bitmap and its flag implement the abstract page allocator.
Allocator == INSTANCE PageAllocator
    WITH Frames <- Pages \ {NULL}, Nothing <- NULL, free <- Reachable

ImplementsAllocator == Allocator!PSpec
=============================================================================
