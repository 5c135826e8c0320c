------------------------------ MODULE MCBoot --------------------------------
(***************************************************************************)
(* Six frames of four bytes: two of low memory, the VGA buffer among them, *)
(* one of the kernel, three behind it.  Every alignment of the first       *)
(* region of the map and of its end is tried, next to a second region that *)
(* may overlap it, and the ramdisk lies next to the kernel or behind.      *)
(***************************************************************************)
EXTENDS Boot

Region(a, l) == [addr |-> a, len |-> l, available |-> TRUE]

Reserved == [addr |-> 8, len |-> 8, available |-> FALSE]
Second == {Reserved, Region(12, 11)}

\* All regions that begin below 4GB, those that end at the very top
\* included, and some that lie above it.
MCTables ==
    {<<Region(a, l), f>> :
        <<a, l>> \in {x \in (0 .. WORD + 4) \X (0 .. WORD - 1) :
                         x[1] + x[2] <= WORD \/ x[1] >= WORD},
        f \in Second}

\* What a word behind the map may read as, MULTIBOOT_MEMORY_AVAILABLE included.
MCBehind == {Reserved, Region(16, 5)}

MCVGA == [first |-> 1, size |-> 1]

MCRamdisks == {[first |-> 3, size |-> 1], [first |-> 3, size |-> 2], [first |-> 4, size |-> 1]}
=============================================================================
