------------------------------- MODULE Frames -------------------------------
(***************************************************************************)
(* Bytes and serial frames, shared by the two ends of the line.            *)
(***************************************************************************)
EXTENDS Naturals, Sequences

CONSTANT DATA_WIDTH         \* static const uint8_t DATA_WIDTH = 8

ASSUME WidthAssumption == DATA_WIDTH \in Nat \ {0}

Bits == 0 .. DATA_WIDTH - 1
Bit  == {0, 1}
Byte == [Bits -> Bit]

\* A byte on the line: start bit, data bits from the least significant one,
\* stop bit.
Frame(b) == [k \in 1 .. DATA_WIDTH + 2 |->
                IF k = 1 THEN 0 ELSE IF k = DATA_WIDTH + 2 THEN 1 ELSE b[k - 2]]

\* What is left of a frame once k of its bits have been put on the line.
Rest(b, k) == [i \in 1 .. DATA_WIDTH + 2 - k |-> Frame(b)[i + k]]
=============================================================================
