---------------------------- MODULE MCPhysicalMM ----------------------------
(***************************************************************************)
(* PhysicalMM on three bytes of bitmap.  The kernel ends inside the byte   *)
(* the scan starts from (frames 8 and 9 are the kernel's, 10 to 15 are     *)
(* not), frame 3 is the page below 1MB that the init code does not clear,  *)
(* and RAM is either scattered over the last two bytes or ends at the      *)
(* last frame.                                                             *)
(***************************************************************************)
EXTENDS PhysicalMM

MCRamMaps == {{0, 1, 3, 4, 9, 10, 12, 13, 17}, {3, 8, 15, 16, 22, 23}, {5, 9}}
MCRegionBounds == {8, 12, 14, 16, 23}
=============================================================================
