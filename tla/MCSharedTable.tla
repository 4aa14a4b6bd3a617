--------------------------- MODULE MCSharedTable ----------------------------
(***************************************************************************)
(* Five elements, four of them checked: 40 ms of checking, as for the 399  *)
(* of the program.  The delays are the program's, in ticks of 10 ms.       *)
(***************************************************************************)
EXTENDS SharedTable

MCGarbage == {0, 1}
=============================================================================
