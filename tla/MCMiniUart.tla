----------------------------- MODULE MCMiniUart -----------------------------
(***************************************************************************)
(* Two data bits, bits of 32 clocks at both ends, a message of three       *)
(* characters, and a pointer of size 3: as in the test, where the string   *)
(* "Hello !\n" and a pointer both have 8 bytes.  The boot write falls      *)
(* anywhere in a bit.                                                      *)
(***************************************************************************)
EXTENDS MiniUart

A == [i \in Bits |-> i]
B == [i \in Bits |-> 1 - i]
C == [i \in Bits |-> 1]
NUL == [i \in Bits |-> 0]

MCPayloads == {A, B, C, NUL}
MCMess     == <<A, B, C, NUL>>
MCSettle   == 5 .. 40
OneSettle  == {5}
=============================================================================
