---------------------------- MODULE ByteChannel -----------------------------
(***************************************************************************)
(* What a serial link promises to the programs at its ends: the bytes that *)
(* enter it come out, each once, in the order they entered.                *)
(***************************************************************************)
EXTENDS Naturals, Sequences

CONSTANT Byte

VARIABLES chan,     \* bytes in flight
          out       \* the last byte delivered

Init == chan = <<>> /\ out \in Byte

Enter(b) == chan' = Append(chan, b) /\ UNCHANGED out

Leave == /\ chan # <<>>
         /\ out' = Head(chan)
         /\ chan' = Tail(chan)

Next == Leave \/ \E b \in Byte : Enter(b)

Spec == Init /\ [][Next]_<<chan, out>>
=============================================================================
