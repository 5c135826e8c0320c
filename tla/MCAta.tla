------------------------------- MODULE MCAta --------------------------------
(***************************************************************************)
(* One channel with every pair of drives or floating, a second one with a  *)
(* drive or nothing.  A register holds counts below 3, so that a request   *)
(* of 3 sectors becomes 0, and so is a request of none; sector 8 does not  *)
(* fit and becomes sector 0; a transfer from the last sector on runs       *)
(* beyond the drive.                                                       *)
(***************************************************************************)
EXTENDS Ata

Attached(a, b, c) == [d \in Drives |-> <<a, b, c, "none">>[d + 1]]

MCMachines ==
    {[kind |-> Attached(a, b, "none"), floating |-> {}] : a \in Kinds, b \in Kinds}
    \cup {[kind |-> Attached("ATA", "none", "ATA"), floating |-> {}],
          [kind |-> Attached("none", "none", "ATA"), floating |-> {0}]}

Read(sector, num) == [write |-> FALSE, sector |-> sector, num |-> num]
Write(sector, num) == [write |-> TRUE, sector |-> sector, num |-> num]

MCRequests == {Read(1, 2), Write(1, 2), Read(0, 3), Write(0, 3), Read(3, 2), Write(8, 1),
               Write(2, 0)}
=============================================================================
