---------------------------- MODULE MCSerialLink ----------------------------
(***************************************************************************)
(* Two data bits, every byte.  A bit lasts 32 clocks at both ends:         *)
(* TX_PERIOD + 1 = 16 * (RX_PERIOD + 1).                                   *)
(***************************************************************************)
EXTENDS SerialLink

MCPayloads == Byte
=============================================================================
