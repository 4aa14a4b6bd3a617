--------------------------- MODULE MCDriftingLink ---------------------------
(***************************************************************************)
(* Two data bits.  A bit lasts 31 clocks at the transmitter, 32 at the     *)
(* receiver: half a bit is lost after 15 bits, where the tests lose it     *)
(* after 260.                                                              *)
(***************************************************************************)
EXTENDS DriftingLink

MCPayloads == {[i \in Bits |-> 1 - i], [i \in Bits |-> i], [i \in Bits |-> 0]}
=============================================================================
