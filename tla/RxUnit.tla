------------------------------- MODULE RxUnit -------------------------------
(***************************************************************************)
(* The receiver of the MiniUART (systemC/TP/tp2/src/rx_unit.h).  Sixteen   *)
(* enable pulses make one bit; the line is looked at on the eighth.        *)
(* bit_count counts down: DATA_WIDTH + 2 (10) waiting for a start bit,     *)
(* then the data bits, 1 for the stop bit.  sample_count runs freely: a    *)
(* start bit does not restart it.                                          *)
(*                                                                         *)
(* rxUpdate is a SC_METHOD on clk.pos and reset.neg.  data_rdy is read     *)
(* with its value before the edge; a read in the same activation comes     *)
(* last, so its writes win and it sees the buff_out just assigned.         *)
(***************************************************************************)
EXTENDS Frames

SAMPLES == 16       \* enable pulses in a bit
MIDDLE  == 8        \* the one that looks at the line

VARIABLES rxd,      \* the line, an input
          buff_out, shift_reg, bit_count, sample_count,
          data_rdy, frame_err, output_err, data_out

rxVars == <<buff_out, shift_reg, bit_count, sample_count,
            data_rdy, frame_err, output_err, data_out>>

Waiting == DATA_WIDTH + 2
Zeros   == [i \in Bits |-> 0]

RxTypeOK == /\ rxd \in Bit
            /\ buff_out \in Byte /\ shift_reg \in Byte /\ data_out \in Byte
            /\ bit_count \in 1 .. Waiting
            /\ sample_count \in 0 .. SAMPLES - 1
            /\ data_rdy \in BOOLEAN /\ frame_err \in BOOLEAN /\ output_err \in BOOLEAN

\* After the first activation, which finds reset low.  buff_out and
\* shift_reg are never initialised.
RxInit == /\ rxd \in Bit
          /\ buff_out \in Byte /\ shift_reg \in Byte /\ data_out = Zeros
          /\ bit_count = Waiting /\ sample_count = 0
          /\ data_rdy = FALSE /\ frame_err = FALSE /\ output_err = FALSE

RxReset == /\ sample_count' = 0 /\ bit_count' = Waiting
           /\ data_rdy' = FALSE /\ frame_err' = FALSE /\ output_err' = FALSE
           /\ data_out' = Zeros
           /\ UNCHANGED <<buff_out, shift_reg>>

-----------------------------------------------------------------------------
\* Is the line looked at in this activation, and what for?
Looks(en)    == en /\ sample_count + 1 = MIDDLE
AtStart(en)  == Looks(en) /\ bit_count = Waiting
AtData(en)   == Looks(en) /\ bit_count \in 2 .. Waiting - 1
AtStop(en)   == Looks(en) /\ bit_count = 1
Completes(en) == AtStop(en) /\ rxd = 1

\* Mutant: the bit enters at the wrong end.
Shifted_msb == [i \in Bits |-> IF i = 0 THEN rxd ELSE shift_reg[i - 1]]

\* shift_reg >> 1, then the line in bit 7
Shifted == [i \in Bits |-> IF i = DATA_WIDTH - 1 THEN rxd ELSE shift_reg[i + 1]]

\* Mutant: fifteen pulses to a bit.
Count_short(en) == sample_count' = IF en THEN (sample_count + 1) % (SAMPLES - 1) ELSE sample_count

Count(en) == sample_count' = IF en THEN (sample_count + 1) % SAMPLES ELSE sample_count

WaitStart(en) == /\ AtStart(en)
                 /\ bit_count' = bit_count - (1 - rxd)
                 /\ UNCHANGED <<shift_reg, buff_out>>

TakeData(en) == /\ AtData(en)
                /\ bit_count' = bit_count - 1
                /\ shift_reg' = Shifted
                /\ UNCHANGED buff_out

\* Mutants: a bad stop bit leaves the frame open, or hands the byte over;
\* bit_count is decremented instead of set back.
TakeStop_stays_open(en) == /\ AtStop(en)
                           /\ bit_count' = IF rxd = 1 THEN Waiting ELSE bit_count
                           /\ buff_out' = IF rxd = 1 THEN shift_reg ELSE buff_out
                           /\ UNCHANGED shift_reg
TakeStop_any(en) == /\ AtStop(en) /\ bit_count' = Waiting
                    /\ buff_out' = shift_reg /\ UNCHANGED shift_reg
TakeStop_counts_on(en) == /\ AtStop(en) /\ bit_count' = bit_count - 1
                          /\ buff_out' = IF rxd = 1 THEN shift_reg ELSE buff_out
                          /\ UNCHANGED shift_reg

TakeStop(en) == /\ AtStop(en)
                /\ bit_count' = Waiting
                /\ buff_out' = IF rxd = 1 THEN shift_reg ELSE buff_out
                /\ UNCHANGED shift_reg

Receive(en) == \/ WaitStart(en) \/ TakeData(en) \/ TakeStop(en)
               \/ ~Looks(en) /\ UNCHANGED <<bit_count, shift_reg, buff_out>>

\* Mutants: the read sees the previous byte; data_out is never written.
Status_old_byte(en, rd) ==
    /\ data_rdy'   = (~rd /\ (data_rdy \/ Completes(en)))
    /\ frame_err'  = (~rd /\ (frame_err \/ (AtStop(en) /\ rxd = 0)))
    /\ output_err' = (~rd /\ (output_err \/ (Completes(en) /\ data_rdy)))
    /\ data_out'   = IF rd THEN buff_out ELSE data_out
Status_no_output(en, rd) ==
    /\ data_rdy'   = (~rd /\ (data_rdy \/ Completes(en)))
    /\ frame_err'  = (~rd /\ (frame_err \/ (AtStop(en) /\ rxd = 0)))
    /\ output_err' = (~rd /\ (output_err \/ (Completes(en) /\ data_rdy)))
    /\ UNCHANGED data_out

\* What this activation adds to the status signals, unless a read clears them.
Status(en, rd) ==
    /\ data_rdy'   = (~rd /\ (data_rdy \/ Completes(en)))
    /\ frame_err'  = (~rd /\ (frame_err \/ (AtStop(en) /\ rxd = 0)))
    /\ output_err' = (~rd /\ (output_err \/ (Completes(en) /\ data_rdy)))
    /\ data_out'   = IF rd THEN buff_out' ELSE data_out

\* A rising clock edge with reset high.
RxTick(en, rd) == Count(en) /\ Receive(en) /\ Status(en, rd)

-----------------------------------------------------------------------------
\* The receiver alone: line, enable and read are arbitrary.
Tick  == (\E en, rd \in BOOLEAN : RxTick(en, rd)) /\ rxd' \in Bit
Pulse == (\E rd \in BOOLEAN : RxTick(TRUE, rd)) /\ rxd' \in Bit
Reset == RxReset /\ rxd' \in Bit

Next == Tick \/ Reset

\* The divider never stops pulsing.
Spec == RxInit /\ [][Next]_<<rxd, rxVars>> /\ WF_<<rxd, rxVars>>(Pulse)

-----------------------------------------------------------------------------
DataBits == Waiting - 1 - bit_count     \* data bits seen in the open frame

(***************************************************************************)
(* Safety: the receiver is a FrameReceiver.  The byte in buff_out is       *)
(* exactly the last complete frame seen on the line, whatever shift_reg    *)
(* held at power-up, whatever reads and pulses come in between, and a bad  *)
(* stop bit leaves the previous byte alone.                                *)
(***************************************************************************)
Receiver == INSTANCE FrameReceiver
              WITH line <- rxd,
                   open <- bit_count # Waiting,
                   got  <- IF bit_count = Waiting THEN <<>>
                           ELSE [k \in 1 .. DataBits |-> shift_reg[DATA_WIDTH - DataBits + k - 1]],
                   byte <- buff_out
ReceivesFrames == Receiver!Spec

\* A step that hands a new byte over.
Delivers == /\ bit_count = 1 /\ rxd = 1
            /\ sample_count' = MIDDLE /\ bit_count' = Waiting

(***************************************************************************)
(* Safety: a byte that completes in the very clock of a read is not        *)
(* forgotten: it is announced by data_rdy, or it is what the read puts on  *)
(* data_out.                                                               *)
(***************************************************************************)
NewByteSurvivesRead == [][Delivers => data_rdy' \/ data_out' = buff_out']_<<rxd, rxVars>>

(***************************************************************************)
(* Claim of the comment in rx_unit.h: the previous byte is about to be     *)
(* overwritten, so output_err goes up.  A byte not yet read that a new one *)
(* replaces is either reported, or still reached data_out.                 *)
(***************************************************************************)
LossReported ==
    [][Delivers /\ data_rdy => output_err' \/ data_out' = buff_out]_<<rxd, rxVars>>

(***************************************************************************)
(* Liveness: a frame that was opened, even by noise, is closed.            *)
(***************************************************************************)
FramesClose == bit_count # Waiting ~> bit_count = Waiting
=============================================================================
