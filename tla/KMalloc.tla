------------------------------ MODULE KMalloc -------------------------------
(***************************************************************************)
(* The kernel's block allocator (kernel/mm/kmalloc.c).                     *)
(*                                                                         *)
(* Memory is counted in units of sizeof(block_header_t) = 8 bytes, numbered*)
(* from 1, page after page in the order kmalloc gets them.  A header takes *)
(* one unit: next_free_block and block_size are functions of the unit.     *)
(* Unit 0 is NULL as a pointer, and next_free_block[0] is                  *)
(* blocks_info.free_blocks, so that a block_header_t** such as "current"   *)
(* is the unit whose next_free_block it points to.                         *)
(*                                                                         *)
(* A call of kmalloc runs in steps, one per round of its loop.             *)
(*                                                                         *)
(* live and spoiled are bookkeeping: the blocks callers own, with the      *)
(* units they asked for; and whether something other than kmalloc and      *)
(* kfree may have written to a header.  That happens when                  *)
(* alloc_kheap_pages gives out a page that is in use (KHeap's RunsDisjoint)*)
(* and when a caller writes to a payload in which a header lies.  Memory   *)
(* then holds anything, and the model says no more.                        *)
(***************************************************************************)
EXTENDS Integers, Bags

CONSTANTS
    PAGE_UNITS,     \* units in a page: PAGE_SIZE / sizeof(block_header_t)
    SUPPLY,         \* bound: pages kmalloc gets that nobody else has
    Requests,       \* sizes callers ask for, in units
    MaxLive         \* bound: blocks callers own at a time

\* The kernel asks kmalloc for single structures: less than eight pages.
ASSUME UnitsAssumption ==
    /\ PAGE_UNITS \in Nat \ {0} /\ SUPPLY \in Nat /\ MaxLive \in Nat
    /\ Requests \subseteq 1 .. (8 * PAGE_UNITS - 1)

Units == 1 .. (PAGE_UNITS * SUPPLY)
NULL == 0
Idle == 0           \* no request is being served

VARIABLES
    next_free_block, block_size,
    current,        \* the slot the scan has reached
    units,          \* the request being served, or Idle
    used,           \* pages taken from the supply
    live,           \* bag of [header, units] that callers own
    spoiled

memory == <<next_free_block, block_size, current, units, used, live>>
kvars == <<next_free_block, block_size, current, units, used, live, spoiled>>

\* The block the scan looks at: *current.
block == next_free_block[current]

\* The slots of the free list: the head and every free block's link.  The
\* list ends with NULL, which is the number of the head again.
FreeSlots ==
    LET reach[k \in 0 .. PAGE_UNITS * SUPPLY] ==
          IF k = 0 THEN {0}
          ELSE LET r == reach[k - 1] IN r \cup {next_free_block[s] : s \in r}
    IN  reach[PAGE_UNITS * SUPPLY]

\* The slot that ends the list.
LastSlot == CHOOSE s \in FreeSlots : next_free_block[s] = NULL

-----------------------------------------------------------------------------
mutant_link(b) == [next_free_block EXCEPT ![LastSlot] = b]

\* The list after kfree appended b: the old last slot points to b, and only
\* then b's own link is cleared.
link(b) == [[next_free_block EXCEPT ![LastSlot] = b] EXCEPT ![b] = NULL]

kfree(b) ==
    /\ units = Idle
    /\ next_free_block' = link(b.header)
    /\ live' = live (-) SetToBag({b})
    /\ UNCHANGED <<block_size, current, units, used>>

\* kmalloc is called; the scan starts at &blocks_info.free_blocks.
kmalloc(n) ==
    /\ units = Idle
    /\ units' = n
    /\ current' = 0
    /\ UNCHANGED <<next_free_block, block_size, used, live>>

Return(header) ==
    /\ live' = live (+) SetToBag({[header |-> header, units |-> units]})
    /\ units' = Idle
    /\ current' = 0
    /\ UNCHANGED used

\* The pages increase_heap_size asks for: units divided by the bytes of a page.
num_pages == units \div (8 * PAGE_UNITS) + 1

mutant_grow ==
    /\ units # Idle /\ block = NULL
    /\ used + num_pages <= SUPPLY
    /\ LET b == used * PAGE_UNITS + 1 IN
       /\ block_size' = [block_size EXCEPT ![b] = num_pages * PAGE_UNITS]
       /\ next_free_block' = link(b)
       /\ used' = used + num_pages
    /\ UNCHANGED <<current, units, live>>

\* The end of the list: the heap grows by a block of whole pages, freed into
\* the list, and the round goes on with it.  Here the pages are new ones.
increase_heap_size ==
    /\ units # Idle /\ block = NULL
    /\ used + num_pages <= SUPPLY
    /\ LET b == used * PAGE_UNITS + 1 IN
       /\ block_size' = [block_size EXCEPT ![b] = num_pages * PAGE_UNITS - 1]
       /\ next_free_block' = link(b)
       /\ used' = used + num_pages
    /\ UNCHANGED <<current, units, live>>

\* The page alloc_kheap_pages gives is in use, by kmalloc or by another of
\* its callers: its first unit becomes the header of a free block, and its
\* other units are those of a frame mapped afresh or of the one before.
increase_heap_size_again ==
    /\ units # Idle /\ block = NULL
    /\ spoiled' = TRUE
    /\ UNCHANGED memory

\* alloc_kheap_pages returns NULL, which takes a bitmap that is zero in all
\* the bytes it looks at: increase_heap_size fails and kmalloc returns NULL.
kmalloc_null ==
    /\ units # Idle /\ block = NULL
    /\ units' = Idle
    /\ current' = 0
    /\ UNCHANGED <<next_free_block, block_size, used, live>>

mutant_advance ==
    /\ units # Idle /\ block # NULL
    /\ block_size[block] < units
    /\ current' = 0
    /\ UNCHANGED <<next_free_block, block_size, units, used, live>>

\* The block is too small: on to the next one.
advance ==
    /\ units # Idle /\ block # NULL
    /\ block_size[block] < units
    /\ current' = block
    /\ UNCHANGED <<next_free_block, block_size, units, used, live>>

mutant_take_tail ==
    /\ units # Idle /\ block # NULL
    /\ block_size[block] > units
    /\ LET free_block == block + block_size[block] - units - 1 IN
       /\ next_free_block' = [next_free_block EXCEPT ![free_block] = NULL]
       /\ block_size' = [[block_size EXCEPT ![free_block] = units]
                          EXCEPT ![block] = @ - units - 1]
       /\ Return(free_block)

\* A larger block gives its tail.  free_block may be the block itself, when
\* it is one unit larger than the request: the two size assignments and the
\* link then fall on the same header.
take_tail ==
    /\ units # Idle /\ block # NULL
    /\ block_size[block] > units
    /\ LET free_block == block + block_size[block] - units - 1 IN
       /\ next_free_block' = [next_free_block EXCEPT ![free_block] = NULL]
       /\ block_size' = [[block_size EXCEPT ![free_block] = units]
                          EXCEPT ![block] = @ - units]
       /\ Return(free_block)

mutant_take_whole ==
    /\ units # Idle /\ block # NULL
    /\ block_size[block] = units
    /\ Return(block)
    /\ UNCHANGED <<next_free_block, block_size>>

\* A block of just the size leaves the list.
take_whole ==
    /\ units # Idle /\ block # NULL
    /\ block_size[block] = units
    /\ next_free_block' = [next_free_block EXCEPT ![current] = next_free_block[block]]
    /\ Return(block)
    /\ UNCHANGED block_size

-----------------------------------------------------------------------------
(* What others do to the memory of the allocator.                          *)

Payload(b) == (b.header + 1) .. (b.header + b.units)

\* The headers kmalloc and kfree will read again.
Headers == (FreeSlots \ {NULL}) \cup {b.header : b \in BagToSet(live)}

\* The owner of b writes to all of its memory, over a header that lies there.
write_payload(b) ==
    /\ units = Idle
    /\ Payload(b) \cap Headers # {}
    /\ spoiled' = TRUE
    /\ UNCHANGED memory

\* alloc_kheap_pages gives a page of kmalloc's to another of its callers.
alloc_kheap_pages_shared ==
    /\ units = Idle /\ used > 0
    /\ spoiled' = TRUE
    /\ UNCHANGED memory

-----------------------------------------------------------------------------
KInit ==
    /\ next_free_block = [u \in Units \cup {0} |-> NULL]
    /\ block_size = [u \in Units |-> 0]
    /\ current = 0
    /\ units = Idle
    /\ used = 0
    /\ live = EmptyBag
    /\ spoiled = FALSE

Call ==
    /\ ~spoiled /\ UNCHANGED spoiled
    /\ \/ \E n \in Requests : BagCardinality(live) < MaxLive /\ kmalloc(n)
       \/ \E b \in BagToSet(live) : kfree(b)

Step ==
    /\ ~spoiled
    /\ \/ /\ UNCHANGED spoiled
          /\ \/ increase_heap_size \/ kmalloc_null
             \/ advance \/ take_tail \/ take_whole
       \/ increase_heap_size_again

Others ==
    /\ ~spoiled
    /\ alloc_kheap_pages_shared \/ \E b \in BagToSet(live) : write_payload(b)

KNext == Call \/ Step \/ Others

\* The processor runs a call to its end; callers need not call.
KSpec == KInit /\ [][KNext]_kvars /\ WF_kvars(Step)

-----------------------------------------------------------------------------
KTypeOK ==
    /\ next_free_block \in [Units \cup {0} -> Units \cup {NULL}]
    /\ block_size \in [Units -> 0 .. PAGE_UNITS * SUPPLY]
    /\ current \in Units \cup {0}
    /\ units \in Requests \cup {Idle}
    /\ used \in 0 .. SUPPLY
    /\ \A b \in BagToSet(live) : b.header \in Units /\ b.units \in Requests
    /\ spoiled \in BOOLEAN

\* As long as nobody else wrote to a header, the free list ends: kfree's walk
\* to its last link returns, even when a block is freed that a split left on
\* the list with its header shared.
FreeListEnds == ~spoiled => \E s \in FreeSlots : next_free_block[s] = NULL

SamePage(u, v) == (u - 1) \div PAGE_UNITS = (v - 1) \div PAGE_UNITS

\* As long as nobody else wrote to a header, every free block, header to last
\* unit, lies in one page that was taken from the kernel heap, and so does
\* every block a caller owns: no header is read and no payload written in a
\* page that was never mapped.
BlocksInHeap == ~spoiled =>
    /\ \A h \in FreeSlots \ {NULL} :
          /\ SamePage(h, h + block_size[h])
          /\ h + block_size[h] <= used * PAGE_UNITS
    /\ \A b \in BagToSet(live) :
          /\ SamePage(b.header, b.header + b.units)
          /\ b.header + b.units <= used * PAGE_UNITS

\* As long as nobody else wrote to a header, no two callers own the same
\* block, and what two of them own has at most one unit in common.  A page
\* that alloc_kheap_pages gives twice ends this: its blocks may then be given
\* to two callers.
OwnersApart == ~spoiled =>
    \A b, c \in BagToSet(live) :
        /\ live[b] = 1
        /\ b # c => /\ b.header # c.header
                    /\ \A u, v \in Payload(b) \cap Payload(c) : u = v

\* While a caller owns a block, no step of kmalloc or kfree changes the size
\* in its header, which kfree will believe when the block comes back, unless
\* the heap grew by a page that was in use.
HeaderStable ==
    [][~spoiled' => \A b \in BagToSet(live) \cap BagToSet(live') :
          block_size'[b.header] = block_size[b.header]]_kvars

\* Every call of kmalloc returns, or goes on with a page that was in use
\* before; a request above a page then dereferences the NULL at the end of
\* the list.
KmallocReturns == (units # Idle) ~> (units = Idle \/ spoiled)

\* "a pointer to the memory block requested": what a caller may write holds
\* no other caller's block header.
HeadersOutsidePayloads ==
    \A b, c \in BagToSet(live) : b.header \notin Payload(c)
=============================================================================
