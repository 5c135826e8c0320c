-------------------------------- MODULE Boot --------------------------------
(***************************************************************************)
(* kmain (kernel/entry.c): the order in which the managers are brought up, *)
(* composed of the memory map walk (MemoryMap) and the heap's page manager *)
(* (KHeap), whose frames come from the physical memory manager.            *)
(*                                                                         *)
(* GRUB leaves a memory map and loads the ramdisk into RAM, page aligned   *)
(* where it does as the multiboot header asks, and initrd_gen.py pads it   *)
(* to whole pages; a module that is not aligned ends in a panic.           *)
(* register_ramdisk is not in the repository; it is called for what        *)
(* register_physical_pages does.  The calls of kmain that take no frame    *)
(* (GDT, IDT, IRQs, keyboard, ATA, system calls, TSS) are one step.        *)
(***************************************************************************)
EXTENDS MemoryMap, KHeap

CONSTANTS
    LOW_END,            \* frame of the address 0xff000
    KERNEL_END,         \* frame of kernel_end; the kernel begins at 1MB
    VGA,                \* the VGA buffer: [first, size] of frames
    Ramdisks            \* regions GRUB may load a module to: [first, size]

VARIABLES
    stage,              \* the call kmain has come to
    mods                \* the modules of the multiboot information

bvars == <<mvars, hvars, stage, mods>>

\* The VGA buffer is two pages of low memory; the ramdisk lies behind the
\* kernel, and it and its lookup table fit the heap.
ASSUME BootAssumption ==
    /\ {LOW_END, KERNEL_END} \subseteq Nat
    /\ Frames = 1 .. (WORD \div PAGE_SIZE - 1)
    /\ VGA \in [first : Nat \ {0}, size : 1 .. 2]
    /\ VGA.first + VGA.size <= LOW_END /\ LOW_END < KERNEL_END
    /\ INIT_BYTES > 0
    /\ Ramdisks \subseteq [first : Nat, size : Nat \ {0}]
    /\ \A d \in Ramdisks :
          LET lookup_table_size == 8 * ((d.size + 7) \div 8) IN
          /\ KERNEL_END <= d.first
          /\ lookup_table_size + d.size <= PAGE_TABLE_SIZE
          /\ lookup_table_size + 16 <= 8 * KHEAP_BITMAP_SIZE

FramesOf(d) == d.first .. (d.first + d.size - 1)

\* A ramdisk module lies in RAM behind the kernel.
BInit ==
    /\ MInit
    /\ stage = "phy_memory_manager_init"
    /\ mods \in {<<>>} \cup {<<d>> : d \in {e \in Ramdisks : FramesOf(e) \subseteq Ram}}
    /\ bitmap = [p \in HeapPages |-> UNAVAILABLE]
    /\ table = [s \in Slots |-> Empty]
    /\ free = {}
    /\ runs = EmptyBag
    /\ faulted = FALSE

At(call) == ~panicked /\ ~faulted /\ stage = call

map_memory_entry ==
    /\ At("phy_memory_manager_init")
    /\ map_memory
    /\ UNCHANGED <<stage, mods, hvars>>

\* Low memory and the kernel are taken out, and the scan starts behind the
\* kernel.
phy_memory_manager_init ==
    /\ At("phy_memory_manager_init") /\ ~Walking
    /\ free' = {f \in marked : KERNEL_END <= f}
    /\ stage' = "kheap_init"
    /\ UNCHANGED <<mvars, mods, bitmap, table, runs, faulted>>

kheap_init ==
    /\ At("kheap_init")
    /\ bitmap' = [p \in HeapPages |-> IF p < 8 * INIT_BYTES THEN AVAILABLE ELSE UNAVAILABLE]
    /\ stage' = "vga_init"
    /\ UNCHANGED <<mvars, mods, table, free, runs, faulted>>

vga_init ==
    /\ At("vga_init")
    /\ map_physical_address_to_kheap(VGA)
    /\ stage' = "vfs_init"
    /\ UNCHANGED <<mvars, mods>>

\* The first kmalloc: the heap's first page of its own, with the first frame.
vfs_init ==
    /\ At("vfs_init")
    /\ alloc_kheap_pages(1)
    /\ stage' = "make_initrd_fs"
    /\ UNCHANGED <<mvars, mods>>

mutant_make_initrd_fs ==
    /\ At("make_initrd_fs")
    /\ \E registered \in BOOLEAN :
          IF Len(mods) # 1 \/ ~registered THEN panicked' = TRUE /\ UNCHANGED <<stage, free>>
          ELSE free' = free /\ stage' = "map_initrd" /\ UNCHANGED panicked
    /\ UNCHANGED <<memory_map, map_iterator, marked, bitmap, table, runs, faulted, mods>>

\* The frames of the only module are registered, unless its begin or end is
\* not on a page and register_ramdisk refuses it.
make_initrd_fs ==
    /\ At("make_initrd_fs")
    /\ \E registered \in BOOLEAN :
          IF Len(mods) # 1 \/ ~registered THEN panicked' = TRUE /\ UNCHANGED <<stage, free>>
          ELSE /\ free' = free \ FramesOf(mods[1])
               /\ stage' = "map_initrd"
               /\ UNCHANGED panicked
    /\ UNCHANGED <<memory_map, map_iterator, marked, bitmap, table, runs, faulted, mods>>

\* They are mapped to the heap, and the file system in them is mounted: it
\* has all the operations vfs_mount asks for.
map_initrd ==
    /\ At("map_initrd")
    /\ map_physical_address_to_kheap(mods[1])
    /\ stage' = "running"
    /\ UNCHANGED <<mvars, mods>>

\* What the kernel does with the heap from then on.
run ==
    /\ At("running")
    /\ Alloc \/ Free
    /\ UNCHANGED <<mvars, stage, mods>>

BNext ==
    \/ map_memory_entry
    \/ phy_memory_manager_init
    \/ kheap_init
    \/ vga_init
    \/ vfs_init
    \/ make_initrd_fs
    \/ map_initrd
    \/ run

BSpec == BInit /\ [][BNext]_bvars

-----------------------------------------------------------------------------
\* The frames of the ramdisk that also show in heap pages which are not the
\* ramdisk's.
Shared ==
    {f \in FramesOf(mods[1]) : \E s \in Slots :
        /\ table[s].frame = f
        /\ ~\E r \in BagToSet(runs) :
              r.device = mods[1].first /\ r.first <= s /\ s < r.first + r.size}

Lowest(frames) == {f \in frames : \A g \in frames : f <= g}

\* The ramdisk stays whole: none of its frames ever backs another page of the
\* heap, whatever is allocated and freed, but for its first frame if that is
\* the first frame behind the kernel, which vfs_init was given before the
\* ramdisk was registered.  The late registration costs that frame and no
\* other.
RamdiskKept ==
    stage = "running" /\ ~faulted =>
        /\ Shared \subseteq Lowest({f \in marked : KERNEL_END <= f})
        /\ free \cap FramesOf(mods[1]) = {}
=============================================================================
