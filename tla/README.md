# MikeOS: specifications, model checks and proofs

MikeOS is a small 32 bit x86 kernel in C: it is loaded by GRUB, builds its own
memory management, echoes the keyboard on the text console, mounts a ramdisk
and can load an ELF program.  It has no tests.  This directory holds TLA+
modules of its core, TLC configurations that check them on small instances, and
TLAPS proofs of the properties that matter most.

Where C leaves a result open (a missing `return`, the order of two loads), the
models follow the kernel image the repository ships, `grub/kernel.elf`.

## Inventory

| part | state | operations | works with | what is hard |
|---|---|---|---|---|
| physical memory manager (`mm/physical_mm_manager.c`) | one bit per frame, flag "last scan found nothing" | init, allocate, free, register, unregister | kheap, virtual memory, boot | the flag is a cache; calls may be rejected; the scan starts in the kernel's last byte |
| memory map walk (same file) | walk over GRUB's map | `map_memory` | fills the bitmap | rounding at both ends, 64 to 32 bits, the walk's bound |
| kernel heap pages (`mm/kheap.c`) | bitmap of heap pages, one page table | alloc, map a physical region, free | physical manager below; kmalloc, tasks, console, ramdisk above | holes in the bitmap, a search without a failure value, nothing left |
| block allocator (`mm/kmalloc.c`) | free list threaded through the heap | `kmalloc`, `kfree`, growth | kheap below; everything above | splits, units and bytes, a list that must stay a list |
| console and keyboard (`drivers/vga`, `drivers/keyboard`) | cursor x, y | print, flush; echo from the interrupt | main thread and IRQ1 share the cursor | unprotected interleaving |
| virtual memory (`mm/virtual_mm_manager.c`) | page directories, CR3 | alloc, free, switch, `mmap` | physical manager, kheap, kmalloc | frees through whatever CR3 holds; out of memory |
| tasks, ELF (`multitask/`) | task, its address space and stacks | alloc, load, free | virtual memory, files | failure half way |
| files, VFS, initrd (`fs/`) | offset, mount point, inode table, the strings of the modes | open, read, write, seek, close, mount | kmalloc, list | unsigned arithmetic, a comparison that writes, allocations refused half way |
| list (`data_structures/list.c`) | nodes, iterator | add, pop, remove, iterate | kmalloc | the iterator after a removal |
| ATA (`drivers/ata`) | device table; the drives' status | init, read, write | drives, through ports | a protocol with a drive that runs beside the driver; waits without end |
| IRQ, IDT (`irq.c`, `idt.c`, `interrupt.asm`) | gates, handlers; the controllers' masks and in-service bits | set up, register, dispatch, acknowledge | keyboard, controllers | interrupts are enabled before gates and handlers exist |
| boot (`entry.c`) | how far `kmain` has come | `kmain` | memory map, physical manager, heap, ramdisk | the ramdisk is registered after frames were handed out |
| device registry, GDT, TSS, system calls, exceptions, logger, libc, port I/O | constant tables or none | | | see "Not modelled" |

`PROJECT.json` lists every component with its files, every definition with the
lines it models, and every hazard with the line where it bites.

## Modules

```
PageAllocator        what a page allocator promises           (abstract)
   ^ refines
PhysicalMM           bitmap, scan, cached flag                PhysicalMMProofs
MemoryMap            the walk that yields PhysicalMM's RamMaps
KHeap                heap pages over an abstract page allocator  KHeapProofs
   ^ both extended by
Boot                 kmain: walk, heap, VGA buffer, first page, ramdisk
                                                              BootProofs
KMalloc              blocks inside the pages KHeap hands out  KMallocProofs
AddressSpace         page directories, CR3, mmap, over an abstract page allocator
   ^ extends
Task                 load_task: address space, ELF file, stack, failure
                                                              TaskProofs
Console              cursor, main thread and keyboard IRQ     InterruptProofs
List                 linked list with iterator, and a user of one
   ^ extends
FileSystem           files over the VFS and the ramdisk       FileSystemProofs
Ata                  driver and drives                        AtaProofs
Irq                  controllers, gates, handlers, keyboard   InterruptProofs
```

Each component has an `MC...` module with its instance and a `.cfg` per run.
Definitions named `mutant_...` stand next to the definition they deform; each is
a plausible bug (a dropped test, an off-by-one, a missing reset) with which some
property is violated.  They are part of no specification.

**PhysicalMM.**  A frame is its bit index; an address is a frame and an offset,
so that a page table entry passed by mistake for an address is an address with a
nonzero offset.  `bitmap` and `no_page_available` are the code's; `ram`, `held`,
`reserved` and `early` record what the map offered, what callers were given, what
they registered, and which registered frames were given out already at that time.  `allocate_physical_page` and `allocate_physical_page_null` are
the two outcomes of one function; `Located` is the scan's stop, bytes first and
`get_msb_index` in the byte.  `Next` has the operations the kernel calls,
`NextAll` adds `unregister_physical_pages`, which the header declares and nothing
calls.  Callers are assumed to free frames they hold; they may pass misaligned
addresses, and may register frames somebody holds, as `kmain` does when the
ramdisk lies where `vfs_init`'s page was taken.

**PageAllocator.**  A frame is granted while it is free, a request is refused
only when nothing is free.  `PhysicalMM!Allocator` maps `free` to the available
bits from the scan's first byte on.

**MemoryMap.**  `map_memory` one entry a step.  Addresses and lengths are cut to
a word.  The loop's bound is `map_length` entries away although `map_length`
counts bytes, so after the table the walk reads arbitrary entries (`Behind`).
The size field of an entry is taken to be that of one entry, as GRUB writes it.

**KHeap.**  `find_continuous_blocks_index` is the loop in closed form: the index
where its counters meet the request, or, falling off its end, the size of the
buffer.  `KHeap` has the bitmap, the page table through the recursive mapping, the frames
that are left, and the bag of runs callers own.  The entry of an address wraps
at the end of the table (`ADDRESS_TO_PAGE_TABLE_ENTRY` masks), a run that leaves
the table ends the model (`faulted`), a run that was not found is mapped at entry
0, a refused frame is frame 0: all as in the code.  The physical manager is the
abstract one, granting the lowest free frame, and it rejects addresses with low
bits.

**KMalloc.**  Memory in units of a header (8 bytes).  `next_free_block` and
`block_size` are functions of the unit, and the slot 0 is
`blocks_info.free_blocks`, so that the code's `block_header_t** current` is a
unit.  One step is one round of `kmalloc`'s loop.  Growth either gets pages that
are new to kmalloc, or NULL, or a page that is in use already, which the search of
`KHeap` can give (`increase_heap_size_again`); the heap may also give one of
kmalloc's pages to somebody else, and the owner of a block may write over a header
that lies in its payload (`kmalloc_headers` shows that one can).  After the last
three memory holds anything: `spoiled` is set, the model stops, and the
properties say what holds until then.

**AddressSpace, Task.**  `mem` is what a frame holds when it is read as a
directory or table; a virtual page is a directory index and a table index.
`map_user_virtual_address_to_physical` and `mmap` are functions from one memory
to the next, so that the loop over a range is a recursive function.  The end of
the range is a sum as wide as an address (`End`): when it wraps, `mmap` succeeds
and maps nothing.  The
recursive directory entry is real: the kernel can take a step only while the
directory in CR3 has its kernel entries and points to itself (`Intact`).  `tlb`
is the frame the processor may still have cached for the heap page through which
directories are written.  `Task` runs `load_task` call by call, with every
outcome of `load_elf`: no file or a rejected header (`load_elf_fails`), a
relocatable file of which nothing is loaded, headers that are skipped, refused,
abandoned after mapping, or filled.  The pages a segment is written to (`Written`)
are computed from `p_filesz` and `p_memsz` as the code does, which checks neither
against the other; a write outside what is mapped below the kernel ends the model
(`faulted`).  A failed load frees the directory CR3
points to and the kernel may try again; a task that was entered runs on.
Nothing calls `load_task` in this revision; the model is of its interface.
Two things are bounds of the model: the heap always has a page
(`alloc_kheap_pages` returns NULL only when every byte of bitmap it looks at is
zero, long after it has outgrown its page table), and `kmalloc`'s small blocks take
no new page.

**Boot.**  `kmain` call by call over the walk of `MemoryMap` and the operations
of `KHeap`: the frames the walk marked, without low memory and the kernel, are
what the heap is given; the VGA buffer is mapped, `vfs_init` takes the first
page, and only then is the ramdisk registered and mapped.  After that the heap
is used in any order.  `register_ramdisk`, which `entry.c` calls, is not in the
repository; it is modelled by what `entry.c` uses it for, and it may refuse, at
which `kmain` panics.

**List, FileSystem.**  The list's operations are functions from one list to the
next, with freed nodes that keep their words.  `FileSystem` uses them for the
mount points `vfs_open` visits; `UseList` is a user of a list of its own (a
behaviour is either one of files or one of that user, since they share
nothing).  Arithmetic is that of `uint32_t` and `int32_t`, with `WORD` values.  A
byte of a file is its place on the ramdisk, so that a read beside the file shows.
`mode_text` is what the string literals have become: `strncmp` writes a NUL into
both of its arguments.  `kmalloc` may refuse any request; what the kernel then
writes through NULL, and the calls through the ramdisk's NULL `write`, end the
model (`crashed`).

**Ata.**  The driver takes one wait, one data word, or one run of register writes
with nothing read between them, a step; the drives are the environment and finish
what they are busy with, or fail, at any time between.  The writes of
`ata_pio28_pre_stages` and the command are one step: a drive only looks at its
registers when the command comes.  Both drives of a channel share the registers, and one that is busy or
holds data ignores them.  `spoiled`, `undriven` and `writes` record where driver
and drive lost step, whether a word was used that nobody provided, and which
writes were asked for, those of no sectors included; the properties are stated relative to them, so that each
says how far the damage of a missing wait can go.

**Irq.**  The two controllers, the interrupt flag and the keyboard's line are
the environment.  The initialisation words go to the controllers one a step, as
the controllers interpret them: the words the code calls ICW3 and ICW4 arrive as
ICW4 and as a mask.  (The processor mode this leaves in the controllers is not
modelled; emulators ignore it.)  Keys and device lines rise between any two steps.
The slave's lines are never unmasked.  The keyboard's handler may not come back:
the echo of a backspace calls past the table of handlers (`cpu = "wild"`, the
`wild` of `Console`).

**Console.**  The main thread makes one access to `vga_state.x` or `.y` a step,
with loaded values in registers; the handler runs with interrupts off and is one
step.  Up to `MaxBurst` keys may strike between two accesses.  Any characters are
printed and echoed but '\r': the table has a handler for it, but no string of the
kernel contains it and no key maps to it.

## Runs

| run | spec and instance | properties | shows |
|---|---|---|---|
| `physical` | `Spec`; 24 frames, kernel ending inside a byte, three RAM layouts, misaligned addresses | TypeOK, Accounting, HandedOut, FlagSound, ImplementsAllocator | no frame is lost, invented or handed out from low memory, the kernel or a region registered before; the cached flag hides nothing; the bitmap implements the abstract allocator |
| `boot` | `BSpec`; 6 frames of 4 bytes, every start and length of a region, a second region, regions above the top, entries behind the map, three places for the ramdisk | MarkedExactly, PanicOnlyAtTop, RamdiskKept | rounding is exact; a panic needs a region that ends at the top; the late registration costs the ramdisk its first frame at most |
| `kheap` | `HSpec`; 16 entries, 24 pages initialised, 4 frames, two device regions, 3 runs | NoFrameShared, AvailableUnmapped, OneStretchExact, FramesNeverReturn | even overlapping runs never show a frame twice or let it be handed out again; the search is exact on one stretch but for the last block; no frame comes back |
| `kheap_runs_disjoint` | same | RunsDisjoint **violated** | two callers own one page |
| `kmalloc` | `KSpec`; 2 pages of 5 units, requests of 1, 2, 3 and 6 units, 3 live blocks | KTypeOK, FreeListEnds, BlocksInHeap, OwnersApart, HeaderStable, KmallocReturns | until a page is given twice or a header overwritten: the list stays finite, blocks stay in the heap, owners share at most one unit, calls return |
| `kmalloc_headers` | same | HeadersOutsidePayloads **violated** | a header lies in another caller's payload |
| `console` | `CSpec`; 6 columns, 4 rows, one key, backspace included, between any two accesses | CursorWithinLimits, WritesInBuffer | races never let the cursor or a write escape |
| `task` | `TSpec`; tables of 4 entries, 12 frames, all programs of up to two headers, some with `p_filesz` above `p_memsz` or an end that wraps | DirectorySurvives, NoFault, FramesOwned, EnteredMapped | a failed load's directory goes on serving the kernel; only a malformed header is written outside its mapping; an entered task has its stack and segments |
| `task_stale_tlb` | same | FlushSuffices **violated** | the next load overwrites the directory in CR3 through a stale translation |
| `fs` | `Spec`; words of 6 values, files of 1 and 2 bytes, two handles, every offset, jump and length; a list of 3 nodes | ModesHonoured, ReadsExact, ReadsInFile, NoLeak, ContentsRight, NoDanglingNode, IteratorInPlace | what the NULs in the literals and the wrapping arithmetic can and cannot do; no open or close leaks; the list and its iterator stay in order |
| `ata` | `Spec`; sectors of 2 words, counts below 3, 8 addresses, a write of no sectors, every pair of drives on a channel, a floating bus, a second channel | DrivesFound, ReadExact, OthersUntouched, FirstSectorProvided, CallsEnd | which drives are found, what a read delivers, what a write can reach, which calls end |
| `irq` | `Spec`; the timer's and a slave line, 3 keys | TakenIsPrepared, ServiceEnds, KeysRead | `sti` before the gates is harmless because all is masked; every key is read unless one was pending at the reset or a backspace's echo ran wild |

### Bounds

* *Frames, pages, units.*  Three bytes of bitmap hold the three cases of the
  scan: a first byte shared with the kernel, a full one, the last one.  Two
  bitmap bytes of mapped heap pages and one beyond show runs inside, across and
  past the table.  Two pages of five units give every split: rest, no rest, one
  unit left.
* `MaxRuns`, `MaxLive` (3): one to be split or freed, one behind, one in front.
* `MaxBurst`: keys between two accesses.  `TAB * MaxBurst <= SCREEN_ROWS` is a
  real assumption: `y = x = 0` copies x into y after keys may have moved x, and
  seven tabs there would put y beyond row 25.  For the real screen it allows six
  keys between two instructions.
* Twelve frames and tables of four entries: up to six failed loads before a
  refusal, or one load of two segments with two tables; one directory entry
  below `USER_SPACE_LIMIT`, one above it that holds the stack, one of the kernel.
  The properties of `Task` are stated until a frame is refused (`exhausted`): a
  refused table is frame 0, and nothing holds of a kernel that runs on it.  A
  page has two bytes and an address 32 values: sizes of 31 and 24 bytes wrap
  in `mmap`, and 4 bytes in the file do not fit a segment of one.
* `Boot`: six frames hold low memory with the VGA buffer (two), the kernel and
  three frames for the ramdisk and the heap; four runs exhaust them.  `RunSizes`
  has one size: the sizes are the business of `kheap`.
* `FileSystem`: a word of 6 values is more than twice the longest file, so that
  offsets beyond the end, and sums that wrap to before and into the file, all
  occur.  The modes are the first, a middle one and one that is not there, which
  take the search over every literal.  `ModesHonoured` looks up all fifteen in
  every state.
* `Ata`: two words a sector and two sectors a call give the first, a middle and
  the last word.  A count of 3 wraps to 0 as 256 does, sector 8 to 0 as 2^28 does, and
  a read of two sectors from the last runs beyond the drive.  `MaxRequests` (2):
  one that leaves the channel out of step, one that meets it.  The write of no
  sectors followed by a write of two is the shortest way to sectors nobody named.
* `Irq`: three keys: one in service, one latched, one queued.
* The largest run, `kmalloc`, has 2 million states and takes less than two minutes;
  `ata` (500,000) and `fs` (80,000) take about one.

`CHECK_DEADLOCK FALSE` is set where the system stops: after a panic, when the
heap's table was overrun or all runs are handed out, when a page was given twice or
a header overwritten, when a task was entered or a segment faulted,
after the backspace key's wild call and other calls and writes through NULL, when
the driver waits for a drive that failed, and when all requests or keys are used up.

A type invariant is checked where it says more than the shape of the
variables: of the bitmap and of the free list.  `CTypeOK` is part of a proof.

### Fairness

`KSpec` has weak fairness of the rounds of a call: a single processor runs the
called code on.  `Ata` has weak fairness of `ata_init` and `Transfer` for the same reason,
and of each drive's `serve`: a drive answers at some time, if only with an error.
`Irq` has it of the set up, of the delivery of an interrupt and of its handler.
Callers, requests, keys and device lines have none.  The other
specifications have no liveness property: their operations are loops over fixed
ranges.

## Disagreements with comments and interfaces

Checked by a run of their own (and listed under `findings`):

* the heap's search counts free blocks on both sides of a hole and has no
  failure value, so runs overlap (`kheap.c` l. 90, 132);
* a split of a block subtracts the payload but not the header (`kmalloc.c` l. 87);
* `tlb_flush` invalidates address 0 only (`virtual_mm_manager.c` l. 23): after a
  failed load the next directory is written over the one in CR3.

Shown by a property that says what is true instead:

* `free_kheap_pages` ("Free the actual page", `kheap.c` l. 186) passes entries
  with attribute bits and loses the frames: `FramesNeverReturn`;
* `ata.c` takes any status but 0 for a drive (l. 145): a floating bus and packet
  drives pass, the latter because the signature is compared with 14/15 where they
  show 14/EB; the identification is read without waiting for it (l. 276):
  `DrivesFound` holds up to `Junk` and `spoiled`;
* the busy test (l. 391) reads the drive that was selected last, no status is read
  between sectors (l. 347), 256 sectors become 0, which is also accepted as a count,
  and the sector number is cut to 28 bits: `ReadExact` and `FirstSectorProvided` say
  what is left, and `OthersUntouched` names the sectors that are reached although
  no caller named them (`Told`), those a wide sector number is cut to and the
  256 that a write of no sectors leaves open for the next; an error is waited for forever (l. 311): `CallsEnd`;
* `SEEK_END` adds to the offset (`file.c` l. 151); repeated, it carries the offset
  around 2^32, and a read whose sum wraps returns bytes before the file: `ReadsExact` and
  `ReadsInFile` name just that exception;
* `strncmp` cuts the literals, so that "rb+" becomes "rb" and "w+b" is found as
  "w+": `ModesHonoured` says that no permission is lost;
* `remove_element` leaves the node allocated and the iterator on it:
  `NoDanglingNode`, `IteratorInPlace`;
* the ramdisk's first frame may be `vfs_init`'s too: `RamdiskKept`, and `early` in
  `HandedOut` and `Accounting`: freeing such a frame makes it available again;
* `load_segments` compares `p_filesz` with nothing and `mmap` lets an end that wraps
  pass (`elf_loader.c` l. 180, `virtual_mm_manager.c` l. 187): `NoFault` says that just
  these headers are written outside their mapping;
* a key that waits when the controllers are reset is never read, nor any after
  it, and after a backspace none need be: `KeysRead`.

Built into the models as the code has them, and visible there:
the slave's gates are at 0x70 and its vectors at 0x28, and its interrupts are
acknowledged at the slave only, which no line shows as long as all of them are masked;
`file_write` calls the ramdisk's NULL, `file_open` before the mount calls through a NULL
file system and writes through a refused `kmalloc`; `load_elf` never closes its file;
a refused table in `mmap` is frame 0 and `mmap` reports success;
`free_physical_page` returns the comparison's value, not the code (l. 172; no
caller looks at it); the backspace key has no handler and calls past the table
(`vga.c` l. 128, `wild`); `load_elf` ignores the failure of `load_segments`, and
a relocatable file or one without a text segment is entered at an address nobody
set; a freed address space keeps all its frames, which is also what saves the
kernel that still runs on it (`mutant_released`, which gives them back, violates
`FramesOwned`); memory above 4GB
is folded onto low frames, and the walk continues behind the map (`MarkedIsRam`
is stated up to these two); `unregister_physical_pages` leaves the flag set
(`FlagSound` is stated of `Spec`, not of `SpecAll`); the heap's bitmap covers
more pages than its table (`AvailableUnmapped` is stated for runs inside the
window); growth divides units by bytes, so a request larger than a page grows
the heap until it gives no page, and kmalloc returns NULL, or gives one it gave
before, whose block is linked to itself and its link cleared, so that l. 78
dereferences NULL (`kmalloc` with requests of 6 units); a block one unit larger than the request is split onto itself
and cuts the free list; the console's limits admit column 80 and row 25.

## Proofs

The `...Proofs` modules hold for every value of the constants that satisfies the
named assumptions.  `PROJECT.json` lists each theorem with the property of a run
that it states.

**PhysicalMMProofs.**  From `LayoutAssumption` (low memory, then the kernel,
inside the bitmap) and `InputsAssumption`.

* *TypeSafe, BookSafe, HandedOutSafe*: `SpecAll => []TypeOK`, `[]Accounting`,
  `[]HandedOut`.  The three together are inductive: accounting needs to know
  that a freed frame is usable and, if registered, was held at that time
  (`HandedOut`), and `HandedOut` needs to know that a set bit means just that (`Accounting`).  That held frames
  lie where the scan looks needs the layout: usable frames of the scan's first
  byte are handed out, lower ones never, so nothing unreachable comes back.
  `SpecAll` has `unregister_physical_pages` too; no run exercises that operation,
  because nothing in the kernel calls it.
* *FlagSafe*: `Spec => []FlagSound`.  The flag is set only where `NothingLocated`
  holds, registering clears bits, and the one action that sets a bit resets the
  flag.
* *Refinement*: `Spec => ImplementsAllocator`.  Initial states map to initial
  states; allocation maps to `Grant`, a NULL answer to `Refuse` (by `FlagSound`
  and `NothingLocatedMeaning`, which says that the byte-wise scan misses no
  reachable bit), a release to `Return` or to a stutter when it is rejected, a
  registration to `Withdraw`.

**InterruptProofs.**  The two are proved in one module, each about its own
specification.

* *CursorSafe, BufferSafe*, of `Console`: the invariant `CInv` says, for each
  place of the main thread, which of x and y may be past its limit and what the
  registers still hold; `EchoBound` says what a key can do to the cursor.  The
  flush needs the count of keys since x was stored (`x <= TAB * burst`).
  *BufferSafe* also uses `RoomAssumption`; for the real screen it reads
  26*80 + 80 + 4 < 4096.
* *TakenSafe, ServiceSafe*, of `Irq`: `PicInv` says which word each controller
  expects after each write of `initialize_pic`, that every line is masked after
  the sixth word to each, and that later only the keyboard's is opened;
  `Prepared` says that the keyboard's line is opened only when its gate and
  handler are there; `Service` ties the lines in service to the place of the
  handler.  The masks are bytes: `Masks` says which lines the bytes written mask.

**KHeapProofs.**

* *FramesApart, FramesKept*: `FrameInv` says that every entry of the table
  carries attribute bits and shows a frame that was handed out or belongs to a
  device region whose run is still there (`Known`), so that nothing a release passes on
  is accepted and a granted frame cannot come back.  `DevicesAssumption`: the
  regions are apart from each other and from the RAM.
* *AvailableSafe*: `WindowInv` relates bitmap and table where runs overlap or
  wrap.  It needs `WindowAssumption`, that a request fits the window twice;
  without it TLC finds `AvailableUnmapped` violated, for example with `RunSizes`
  = {3, 16} and a table of 16: a run of the whole table that wraps maps entries
  whose bits are behind the window.
* *SearchSafe*: what the loop of `find_continuous_blocks_index` returns for every
  lookup table whose free blocks are one stretch.

**BootProofs.**

* *MarkedSafe, PanicSafe*: `WalkInv`, one entry at a time.  The rounding is
  proved for every page and word size (`WidthAssumption`); `TablesAssumption`
  has no RAM region of 4GB or more that begins below 4GB, whose length the code
  cuts to a word.
* *RamdiskSafe*: `RamdiskInv`.  `StageInv` says for each stage of `kmain` what has
  been handed out; `Early` is what can be handed out before the ramdisk is
  registered, the lowest available frame; `InPlace` says that what is the ramdisk's shows in
  its run.  `BootAssumption` has the layout and that the ramdisk fits the heap.

**KMallocProofs** (*BlockTypes, ListSafe, PagesSafe, OwnersSafe, HeadersKept*).
`BlockInv` states, while nothing but kmalloc and kfree wrote to a header, that there is a set of headers and a path through them that
the free list follows to its end; that a block lies in one page; that two blocks
overlap by at most the one unit a split does not subtract; and that a block split
onto itself stays on the list with size 0.  The path is a witness, so that no
induction over the list is needed.  `UnitsAssumption` has requests below eight
pages: `num_pages` divides units by the bytes of a page, so a larger request
would be given a block of several pages.

**AtaProofs.**

* *WritesAsked*: `DiskInv`.  Whatever a drive is doing with a write, out of step
  with the driver or not, the sectors it has left are among those `Told` it by a
  request; `ToldReached` compares these with the ones the caller named, which takes
  what the register makes of a count (`CountBound`).
* *Found, ReadsAsked, FirstSector*: `StepInv`, what holds at each place of the
  driver unless `spoiled`: which drive is selected, that the channel is at rest
  between calls (`Calm`, `Rest`), what `ata_init` has found so far (`Identifying`,
  `Registered`) and which word of which sector comes next (`Progressing`).
  `GeometryAssumption` has the sizes and no drive on a floating bus.

**FileSystemProofs.**

* *ReadsAreExact, ReadsStayInside*: `FilesInv` and `LastInv`.  An offset behind
  the end is marked as left there by SEEK_END; from any other the clamp is
  right, and from one behind the end `initrd_read` refuses unless the sum wraps.
  `FilesAssumption` has files below 2^31 bytes, and `ImageAssumption` says that
  the ramdisk lies in memory: its end has an address.
* *ModesSurviveOpens*: `TextInv` says that the literals, however they were cut,
  are compared as they were the first time; `Honoured` goes through the fifteen
  modes once.
* *NothingLeaks*: `MemoryInv`, with `NothingKept`: the list `vfs_open` makes is
  given back whole, so `blocks` counts the mount point and two for each file.
* *ListHoldsWhatItShould, ListNeverDangles, IteratorKeepsPlace*: `ListInv` states
  that the links follow a path (`Path`) whose nodes hold the elements, and that
  there is a set of allocated nodes, closed under the links, that holds the path
  and the iterator (`Reach`): an iterator on a removed node comes back to the
  list or to its end.

**TaskProofs** (*DirectoryStays, WellFormedNeverFaults, OnePurpose, EnteredComplete*).
`TInv`.  While memory lasts, no translation was stale and no segment has faulted
(`Usual`), the directory
in CR3 has its kernel entries, and below them it is a `Tree`: directory, tables and
pages are frames apart from each other and from the free ones (`Current`).  From
its allocation until the loader maps something the task's directory is empty, so
that `free_task`, called only then, releases no frame of the space that stays
current (`Fresh`).  `Progress` says what is mapped after each header.  A round of
`mmap` adds a table (`AddTable`) and a page (`AddPage`) to the tree and takes
nothing away (`RoundMaps`), unless a request is refused, which is remembered
(`RoundKeeps`); `MmapMaps` puts the rounds together, `WriteKeeps` says that the
bytes of a segment change no table, and `WrittenInside` compares the two roundings
of the size of a well formed one.  `SpaceAssumption` has the layout of a directory,
`ProgramAssumption` what a program header can hold and a stack that fits.

What a recursive definition computes is proved with a witness and a least
counterexample (`NatMin`, from the library's well-foundedness of the numbers).
`ChainIs` shows in this way that the nodes read from a list are those of its path,
`LoopIs` that the loop of `mmap` is its rounds one after another.

Only model-checked: liveness (`KmallocReturns`, `CallsEnd`,
`KeysRead`), since the prover does not handle fairness.  Every invariant and every
action property of the passing runs is proved as well.

## Plan

Modelling: the failure paths of `alloc_task`, by composing `Task` with `KHeap`.

## Not modelled

* Descriptor tables, the TSS and the steps of early paging: straight-line code
  that writes constants once, before anything else runs.  The first page
  directory it leaves is `Task`'s initial state.
* Exceptions and panic: they print and halt.  A panic ends a model.
* System calls: the handler prints a line and loops, its dispatch is commented out.
* The entry to user space: segment descriptors, the TSS and a jump.
* The device registry: nothing calls `register_device` or `unregister_device`,
  and nothing reads the table.
* Logger and formatted output: an arbitrary sequence of characters other than '\r'
  in `Console`.
* `fat32.c`, disabled with `#if 0`, the LBA48 part of `ata.c` likewise; the empty
  `pit.c` and `devices.c`; functions nothing calls (`vga_scroll`, `ata_poll`,
  `free_user_virtual_page`, `alloc_mount_point`, `path_depth`, `strtok`, `count_chars`,
  `strspn`, `set_next_free_page_index`); `vfs_write` and `vfs_unmount`, which are empty.
* Port I/O: single instructions.  Colours and characters on the screen; the
  model, size and features of a drive.
