-------------------------------- MODULE Task --------------------------------
(***************************************************************************)
(* Loading a task: alloc_task, load_task and free_task                     *)
(* (kernel/multitask/task.c) and the ELF loader                            *)
(* (kernel/multitask/elf_loader.c), over AddressSpace.                     *)
(*                                                                         *)
(* load_task runs in steps; the kernel may call it again whenever it has   *)
(* returned NULL, and a task that was entered runs for ever.  The heap has *)
(* a page for every directory and kernel stack (alloc_kheap_pages returns  *)
(* NULL only long after its page table was outgrown, see KHeap), and       *)
(* kmalloc's blocks fit into pages the heap has.  A program file is its    *)
(* type and its program headers: page of the address, sizes in bytes, and  *)
(* the bytes the file delivers.                                            *)
(***************************************************************************)
EXTENDS AddressSpace, Sequences

CONSTANTS
    PAGE_SIZE,
    STACK_SIZE,     \* pages of the user stack
    Programs        \* program files that pass the tests of their header

WORD == PAGES * PAGE_SIZE       \* addresses and sizes are modulo this

ASSUME ProgramAssumption ==
    LET Size == 0 .. (WORD - 1)
        Header == [load : BOOLEAN, aligned : BOOLEAN, page : 0 .. (PAGES - 1), memsz : Size,
                   filesz : Size, read : Size, flags : STRING] IN
    /\ PAGE_SIZE \in Nat \ {0} /\ STACK_SIZE \in Nat
    /\ STACK_SIZE + 1 < KERNEL_VIRTUAL_OFFSET
    /\ \A p \in Programs :
          /\ p.segments \in Seq(Header)
          /\ \A i \in DOMAIN p.segments : p.segments[i].read <= p.segments[i].filesz

VARIABLES
    pc,             \* the step load_task takes next
    vmm,            \* task->vmm: the frame of its directory, or None
    program,        \* the file being loaded
    segment,        \* index of the next program header
    text_begin,     \* task->text_begin, or None while load_segments has not set it
    faulted         \* a page that is not mapped, or is the kernel's, was written

tvars == <<mem, free, cr3, tlb, exhausted, strayed,
           pc, vmm, program, segment, text_begin, faulted>>

STACK_END == KERNEL_VIRTUAL_OFFSET - 1
StackPages == (STACK_END - STACK_SIZE) .. (STACK_END - 1)

\* The kernel is at a step, on a directory it can run on.
At(step) == Intact /\ ~faulted /\ pc = step

-----------------------------------------------------------------------------
\* alloc_task up to alloc_page_dir: the new directory is written through its
\* heap page, to its frame or to the one the TLB still has for the page; the
\* physical address is read from the page table.
alloc_virtual_address_space ==
    LET dir == Lowest(Now) s == Take(Now) IN
    /\ At("idle")
    /\ \E target \in {dir} \cup ({tlb} \ {None}) :
          /\ Becomes([s EXCEPT !.mem[target] = PageDirectory(dir)])
          /\ strayed' = (strayed \/ target # dir)
          /\ tlb' = target
    /\ vmm' = dir
    /\ text_begin' = None
    /\ pc' = "kernel_stack"
    /\ UNCHANGED <<cr3, program, segment, faulted>>

\* The rest of alloc_task: a page for the kernel stack.
alloc_kernel_stack ==
    /\ At("kernel_stack")
    /\ Becomes(Take(Now))
    /\ pc' = "switch"
    /\ UNCHANGED <<cr3, tlb, strayed, vmm, program, segment, text_begin, faulted>>

\* Loading CR3 drops every cached translation.
switch_virtual_address_space ==
    /\ At("switch")
    /\ cr3' = vmm
    /\ tlb' = None
    /\ pc' = "load_elf"
    /\ UNCHANGED <<mem, free, exhausted, strayed, vmm, program, segment, text_begin, faulted>>

-----------------------------------------------------------------------------
\* load_elf fails before it maps anything: there is no file, it is empty, or
\* its header is not an ELF header or not supported.
load_elf_fails ==
    /\ At("load_elf")
    /\ pc' = "free_task"
    /\ UNCHANGED <<svars, vmm, program, segment, text_begin, faulted>>

\* A relocatable file is accepted and nothing is loaded.
load_elf(p) ==
    /\ At("load_elf")
    /\ program' = p /\ segment' = 1
    /\ pc' = IF p.type = "ET_EXEC" THEN "load_segments" ELSE "stack"
    /\ UNCHANGED <<svars, vmm, text_begin, faulted>>

mutant_num_pages(g) == g.memsz \div PAGE_SIZE

\* The pages mmap is asked for, and the size rounded up to pages.
num_pages(g) == g.memsz \div PAGE_SIZE + 1
aligned_mem_size(g) ==
    IF g.memsz % PAGE_SIZE = 0 THEN g.memsz
    ELSE ((g.memsz \div PAGE_SIZE + 1) * PAGE_SIZE) % WORD

\* The pages that file_read's bytes and the zeroes behind them are written
\* to.  Nothing compares filesz with what was mapped.
Zeroes(g) ==
    LET length == (WORD + aligned_mem_size(g) - g.filesz) % WORD
    IN  IF g.memsz > g.filesz THEN g.filesz .. (g.filesz + length - 1) ELSE {}
Written(g) ==
    {(g.page + b \div PAGE_SIZE) % PAGES : b \in 0 .. (g.read - 1) \cup Zeroes(g)}

\* Address 0 is a NULL buffer to file_read.
file_read_nothing(g) == g.read = 0 \/ g.page = 0

\* What is left in memory of what is written to the pages, translated by the
\* directory in CR3.
Write(s, pages) ==
    LET frames == {s.mem[s.mem[cr3][v \div ENTRIES].frame][v % ENTRIES].frame : v \in pages}
    IN  [s EXCEPT !.mem = [f \in DOMAIN mem |-> IF f \in frames THEN Junk ELSE @[f]]]

\* One round of load_segments on the header g.
skip_segment(g) ==
    /\ ~g.load
    /\ pc' = pc
    /\ UNCHANGED <<mem, free, exhausted, text_begin, faulted>>

\* load_segments returns FAILURE, which load_elf ignores.
refuse_segment(g) ==
    /\ g.load
    /\ ~g.aligned \/ ~Mappable(g.page, num_pages(g))
    /\ pc' = "stack"
    /\ UNCHANGED <<mem, free, exhausted, text_begin, faulted>>

abandon_segment(g) ==
    /\ g.load /\ g.aligned /\ Mappable(g.page, num_pages(g))
    /\ file_read_nothing(g)
    /\ Becomes(mmap(Now, g.page, num_pages(g)))
    /\ pc' = "stack"
    /\ UNCHANGED <<text_begin, faulted>>

fill_segment(g) ==
    LET s == mmap(Now, g.page, num_pages(g)) IN
    /\ g.load /\ g.aligned /\ Mappable(g.page, num_pages(g))
    /\ ~file_read_nothing(g)
    /\ IF \A v \in Written(g) : v < KERNEL_VIRTUAL_OFFSET /\ page_exists(s, v)
       THEN Becomes(Write(s, Written(g))) /\ UNCHANGED faulted
       ELSE Becomes(s) /\ faulted' = TRUE
    /\ text_begin' = IF g.flags = "PF_RX" THEN g.page ELSE text_begin
    /\ pc' = pc

load_segment ==
    /\ At("load_segments") /\ segment <= Len(program.segments)
    /\ LET g == program.segments[segment] IN
          skip_segment(g) \/ refuse_segment(g) \/ abandon_segment(g) \/ fill_segment(g)
    /\ segment' = segment + 1
    /\ UNCHANGED <<cr3, tlb, strayed, vmm, program>>

load_segments_done ==
    /\ At("load_segments") /\ segment > Len(program.segments)
    /\ pc' = "stack"
    /\ UNCHANGED <<svars, vmm, program, segment, text_begin, faulted>>

\* The user stack is mapped, the size being a constant that mmap accepts,
\* and the task is entered.
load_task_stack ==
    /\ At("stack")
    /\ Becomes(mmap(Now, STACK_END - STACK_SIZE, STACK_SIZE))
    /\ pc' = "running"
    /\ UNCHANGED <<cr3, tlb, strayed, vmm, program, segment, text_begin, faulted>>

\* free_task after a failed load: free_virtual_address_space releases pages,
\* tables and the heap page of the directory, whose entry carries attribute
\* bits.  Its reads of the directory leave a translation in the TLB, and CR3
\* still points to it.
free_task ==
    /\ At("free_task")
    /\ free' = free \cup Released(FreedEntries(vmm) \cup {Entry(vmm, RW)})
    /\ tlb' = vmm
    /\ vmm' = None
    /\ pc' = "idle"
    /\ UNCHANGED <<mem, cr3, exhausted, strayed, program, segment, text_begin, faulted>>

-----------------------------------------------------------------------------
TInit ==
    /\ mem = [f \in Frames \cup {NoFrame, BOOT} |->
                IF f = BOOT THEN init_page_directory ELSE Junk]
    /\ free = Frames
    /\ cr3 = BOOT /\ tlb = None
    /\ exhausted = FALSE /\ strayed = FALSE /\ faulted = FALSE
    /\ pc = "idle" /\ vmm = None /\ text_begin = None
    /\ program = [type |-> "ET_REL", segments |-> <<>>] /\ segment = 1

TNext ==
    \/ alloc_virtual_address_space
    \/ alloc_kernel_stack
    \/ switch_virtual_address_space
    \/ load_elf_fails
    \/ \E p \in Programs : load_elf(p)
    \/ load_segment
    \/ load_segments_done
    \/ load_task_stack
    \/ free_task

TSpec == TInit /\ [][TNext]_tvars

-----------------------------------------------------------------------------
Usual == ~exhausted /\ ~strayed /\ ~faulted

\* The kernel goes on running on the directory in CR3, which a failed load
\* has freed and later loads allocate around: its kernel and recursive
\* entries survive while memory lasts, no translation is stale and no segment
\* has run out of its pages.
DirectorySurvives == Usual => Intact

\* A header whose bytes in the file fit into its size in memory, and whose
\* end is an address.
WellFormed(g) == g.filesz <= g.memsz /\ g.page + num_pages(g) < PAGES

\* load_segments writes a segment's size, rounded up to pages by one formula,
\* into what mmap was asked for by another, and checks neither p_filesz nor
\* the end: only a header that is not well formed is written to pages that
\* were not mapped.
NoFault ==
    faulted /\ ~exhausted /\ ~strayed => ~WellFormed(program.segments[segment - 1])

\* The places that hold a frame in the current address space: the directory,
\* its tables and their pages.
UserTables == {i \in 0 .. (KERNEL_PGD_ENTRY_INDEX - 1) : mem[cr3][i] # Empty}
PlacesOf(i) == {<<i, j>> : j \in {k \in Index : mem[mem[cr3][i].frame][k] # Empty}}
Places == {<<>>} \cup {<<i>> : i \in UserTables} \cup UNION {PlacesOf(i) : i \in UserTables}
FrameAt(p) ==
    CASE p = <<>> -> cr3
      [] Len(p) = 1 -> mem[cr3][p[1]].frame
      [] OTHER -> mem[mem[cr3][p[1]].frame][p[2]].frame

\* No frame serves two purposes in the current address space, and none of
\* them is available to allocate_physical_page while the space is current,
\* although free_virtual_address_space may have been called for it.
FramesOwned ==
    Usual /\ cr3 # BOOT =>
        /\ \A p \in Places : FrameAt(p) \notin free
        /\ \A p, q \in Places : p # q => FrameAt(p) # FrameAt(q)

\* The headers load_segments gets to, and loads.
Loaded(n) ==
    /\ program.type = "ET_EXEC" /\ program.segments[n].load
    /\ \A m \in 1 .. n :
          LET g == program.segments[m] IN
          g.load => g.aligned /\ ~file_read_nothing(g) /\ Mappable(g.page, num_pages(g))

\* A task that is entered has its whole stack, every segment before the first
\* one that could not be loaded, and a text address, if one was set, that is
\* mapped: later mappings and tables took nothing away.
EnteredMapped ==
    pc = "running" /\ Usual =>
        /\ \A v \in StackPages : page_exists(Now, v)
        /\ \A n \in 1 .. Len(program.segments) :
              Loaded(n) => \A v \in Written(program.segments[n]) : page_exists(Now, v)
        /\ text_begin # None => page_exists(Now, text_begin)

\* tlb_flush, which free_kheap_pages calls, flushes the TLB: the directory
\* in CR3 survives the next allocation.
FlushSuffices == ~exhausted => Intact
=============================================================================
