--------------------------- MODULE FrameReceiver ----------------------------
(***************************************************************************)
(* What the receiver promises: it looks at the line from time to time, a 0 *)
(* seen while no frame is open opens one, the next DATA_WIDTH bits it sees *)
(* are the byte, least significant first, and the bit after them decides:  *)
(* at 1 the byte is handed over, at 0 it is dropped.  No other step        *)
(* changes the byte handed over.  When it looks is not said here.          *)
(***************************************************************************)
EXTENDS Frames

VARIABLES line,     \* the input
          open,     \* a frame has begun
          got,      \* the data bits of that frame seen so far
          byte      \* the last byte handed over

Init == /\ line \in Bit /\ open = FALSE /\ got = <<>> /\ byte \in Byte

Collected == [i \in Bits |-> got[i + 1]]

Start == /\ ~open /\ line = 0
         /\ open' = TRUE
         /\ UNCHANGED <<got, byte>>

Data == /\ open /\ Len(got) < DATA_WIDTH
        /\ got' = Append(got, line)
        /\ UNCHANGED <<open, byte>>

Stop == /\ open /\ Len(got) = DATA_WIDTH
        /\ open' = FALSE
        /\ got' = <<>>
        /\ byte' = IF line = 1 THEN Collected ELSE byte

Abandon == open' = FALSE /\ got' = <<>> /\ UNCHANGED byte

Wait == UNCHANGED <<open, got, byte>>

Next == /\ Start \/ Data \/ Stop \/ Abandon \/ Wait
        /\ line' \in Bit

Spec == Init /\ [][Next]_<<line, open, got, byte>>
=============================================================================
