------------------------------- MODULE MCTask -------------------------------
(***************************************************************************)
(* Tables of four entries: directory entry 0 is freed with its space, 1    *)
(* holds the stack and is not, 2 is the kernel's.  Programs of up to two   *)
(* headers: they share a page, end on a page boundary, are misaligned,     *)
(* deliver no byte, start at address 0, reach into the stack or the kernel,*)
(* have more bytes in the file than in memory, or an end that wraps.       *)
(***************************************************************************)
EXTENDS Task

\* memsz, filesz and the bytes read, on these pages.
Segment(page, size) ==
    [load |-> TRUE, aligned |-> TRUE, page |-> page, memsz |-> size[1], filesz |-> size[2],
     read |-> size[3], flags |-> IF page = 1 THEN "PF_RX" ELSE "PF_RW"]

Segments ==
    {Segment(page, size) : page \in {0, 1, 2, 4, 6, 7},
                           size \in {<<1, 1, 1>>, <<2, 2, 2>>, <<3, 1, 1>>, <<4, 0, 0>>}}
      \cup {Segment(page, size) : page \in {1, 4},
                                  size \in {<<1, 4, 4>>, <<31, 31, 1>>, <<24, 1, 1>>}}

Odd == {[g EXCEPT !.load = FALSE] : g \in {x \in Segments : x.page = 1}}
         \cup {[g EXCEPT !.aligned = FALSE] : g \in {x \in Segments : x.page = 2}}

MCPrograms ==
    {[type |-> "ET_REL", segments |-> <<>>]}
      \cup {[type |-> "ET_EXEC", segments |-> s]
              : s \in UNION {[1 .. n -> Segments \cup Odd] : n \in 0 .. 2}}
=============================================================================
