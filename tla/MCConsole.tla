----------------------------- MODULE MCConsole ------------------------------
(***************************************************************************)
(* A screen of six columns and four rows: a tab nearly fills a row, and    *)
(* one key may interrupt between any two accesses.                         *)
(***************************************************************************)
EXTENDS Console
=============================================================================
