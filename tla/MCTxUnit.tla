------------------------------ MODULE MCTxUnit ------------------------------
(***************************************************************************)
(* The transmitter with DATA_WIDTH data bits, every byte of that width.    *)
(***************************************************************************)
EXTENDS TxUnit

MCPayloads == Byte
=============================================================================
