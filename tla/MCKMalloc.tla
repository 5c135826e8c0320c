----------------------------- MODULE MCKMalloc ------------------------------
(***************************************************************************)
(* KMalloc on two pages of five units.  Requests of 1 to 3 units split a   *)
(* page in all ways: with a rest, one unit short of it, to the last unit.  *)
(* A request of 6 units is larger than any block the heap can grow by.     *)
(***************************************************************************)
EXTENDS KMalloc
=============================================================================
