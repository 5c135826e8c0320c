------------------------------- MODULE MCIrq --------------------------------
(***************************************************************************)
(* Irq with the timer and a line of the slave, the primary ATA channel's,  *)
(* both of which rise at any time.                                         *)
(***************************************************************************)
EXTENDS Irq
=============================================================================
