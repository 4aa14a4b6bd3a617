---------------------------- MODULE FrameSender -----------------------------
(***************************************************************************)
(* What the transmitter promises: a mailbox of one byte in front of a      *)
(* queue of line bits.  A byte leaves the mailbox only when the line queue *)
(* is empty, becomes one complete frame, and the line shows the bits of    *)
(* that frame in order, one per baud pulse, and nothing else.  The owner   *)
(* of the mailbox may overwrite a byte that has not left it yet.           *)
(*                                                                         *)
(* Clearing everything in the middle of a frame costs the next frame as    *)
(* many of its first bits as were already gone of the one cleared.         *)
(***************************************************************************)
EXTENDS Frames

CONSTANT Empty

VARIABLES mail,     \* the byte waiting, or Empty
          queue,    \* the bits of the current frame still to be sent
          line,
          skip      \* bits the next frame will lack

Init == mail = Empty /\ queue = <<>> /\ line = 1 /\ skip = 0

Post(b) == mail' = b
Keep    == UNCHANGED mail
Open    == /\ mail # Empty
           /\ queue = <<>>
           /\ mail' = Empty
           /\ queue' = Rest(mail, skip)
           /\ skip' = 0
           /\ UNCHANGED line
Send    == /\ queue # <<>>
           /\ line' = Head(queue)
           /\ queue' = Tail(queue)
           /\ UNCHANGED skip
Hold    == UNCHANGED <<queue, line, skip>>

Clear   == /\ mail' = Empty /\ queue' = <<>> /\ line' = 1
           /\ skip' = IF queue = <<>> THEN skip ELSE DATA_WIDTH + 2 - Len(queue)

Next == \/ Open
        \/ (Keep \/ \E b \in Byte : Post(b)) /\ (Send \/ Hold)
        \/ Clear

Spec == Init /\ [][Next]_<<mail, queue, line, skip>>
=============================================================================
