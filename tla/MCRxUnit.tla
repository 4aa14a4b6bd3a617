------------------------------ MODULE MCRxUnit ------------------------------
(***************************************************************************)
(* The receiver with DATA_WIDTH data bits.                                 *)
(***************************************************************************)
EXTENDS RxUnit
=============================================================================
