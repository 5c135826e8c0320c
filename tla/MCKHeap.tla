------------------------------ MODULE MCKHeap -------------------------------
(***************************************************************************)
(* KHeap with a page table of two bitmap bytes and, as in the code, a      *)
(* bitmap initialised far beyond it.  Five frames of RAM run out while     *)
(* runs are still being handed out; the VGA buffer and a ramdisk are       *)
(* mapped as regions.                                                      *)
(***************************************************************************)
EXTENDS KHeap

MCDevices == {[first |-> 11, size |-> 2], [first |-> 30, size |-> 5]}
=============================================================================
