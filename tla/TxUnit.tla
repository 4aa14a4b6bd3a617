------------------------------- MODULE TxUnit -------------------------------
(***************************************************************************)
(* The transmitter of the MiniUART (systemC/TP/tp2/src/tx_unit.h): the     *)
(* byte given by load goes to buf, from buf to the shift register reg once *)
(* that is empty, and from reg to txd, one bit per baud pulse.             *)
(*                                                                         *)
(* update_reg is a SC_METHOD on clk.pos and reset.neg.  Signals are read   *)
(* with the value they had before the edge, so the transfer from buf to    *)
(* reg and the shift exclude each other: the first needs reg_empty, the    *)
(* second ~reg_empty.                                                      *)
(***************************************************************************)
EXTENDS Frames

CONSTANTS Payloads,     \* the bytes the CPU side may present
          Undriven      \* a register that has never been written

ASSUME TxAssumption == /\ Payloads \subseteq Byte
                       /\ Undriven \notin Byte

VARIABLES buf, reg, idx, reg_empty, buf_empty, txd

txVars == <<buf, reg, idx, reg_empty, buf_empty, txd>>

TxTypeOK == /\ buf \in Byte \union {Undriven}
            /\ reg \in Byte \union {Undriven}
            /\ idx \in 0 .. DATA_WIDTH + 1
            /\ reg_empty \in BOOLEAN
            /\ buf_empty \in BOOLEAN
            /\ txd \in Bit

\* idx is set by the constructor; the outputs by the first activation of
\* update_reg, which finds reset low.
TxInit == /\ buf = Undriven /\ reg = Undriven /\ idx = 0
          /\ reg_empty = TRUE /\ buf_empty = TRUE /\ txd = 1

\* Mutant: reset leaves the line as it is.
TxReset_keeps_line == /\ reg_empty' = TRUE /\ buf_empty' = TRUE
                      /\ UNCHANGED <<buf, reg, idx, txd>>

\* reset->read() == false.  idx is left where it was.
TxReset == /\ txd' = 1 /\ reg_empty' = TRUE /\ buf_empty' = TRUE
           /\ UNCHANGED <<buf, reg, idx>>

-----------------------------------------------------------------------------
\* load is a level: as long as it is up, data_in is taken at every clock.
Load(d) == buf' = d /\ buf_empty' = FALSE

\* Mutant: the transfer empties buf without filling reg.
Transfer_loses == /\ reg_empty /\ ~buf_empty
                  /\ reg' = buf /\ buf_empty' = TRUE
                  /\ UNCHANGED <<buf, idx, txd, reg_empty>>

Transfer == /\ reg_empty /\ ~buf_empty
            /\ reg' = buf /\ reg_empty' = FALSE /\ buf_empty' = TRUE
            /\ UNCHANGED <<buf, idx, txd>>

ShiftStart == /\ idx = 0
              /\ txd' = 0 /\ idx' = idx + 1
              /\ UNCHANGED reg_empty

\* Mutant: most significant bit first.
ShiftData_msb == /\ idx \in 1 .. DATA_WIDTH
                 /\ txd' = reg[DATA_WIDTH - idx] /\ idx' = idx + 1
                 /\ UNCHANGED reg_empty

ShiftData == /\ idx \in 1 .. DATA_WIDTH
             /\ txd' = reg[idx - 1] /\ idx' = idx + 1
             /\ UNCHANGED reg_empty

\* Mutants: idx is not reset, is reset to the first data bit, reg stays taken.
ShiftStop_no_reset == /\ idx = DATA_WIDTH + 1
                      /\ txd' = 1 /\ idx' = idx + 1 /\ reg_empty' = TRUE
ShiftStop_to_data == /\ idx = DATA_WIDTH + 1
                     /\ txd' = 1 /\ idx' = 1 /\ reg_empty' = TRUE
ShiftStop_keeps_reg == /\ idx = DATA_WIDTH + 1
                       /\ txd' = 1 /\ idx' = 0 /\ UNCHANGED reg_empty

ShiftStop == /\ idx = DATA_WIDTH + 1
             /\ txd' = 1 /\ idx' = 0 /\ reg_empty' = TRUE

\* The second half of update_reg, when it is not the transfer that moves reg.
Shift(en) == IF en /\ ~reg_empty
             THEN (ShiftStart \/ ShiftData \/ ShiftStop) /\ UNCHANGED reg
             ELSE UNCHANGED <<reg, idx, reg_empty, txd>>

\* A rising clock edge with reset high.
TxTick(ld, d, en) ==
    \/ ld /\ Load(d) /\ Shift(en)
    \/ ~ld /\ Transfer
    \/ ~ld /\ ~(reg_empty /\ ~buf_empty) /\ UNCHANGED <<buf, buf_empty>> /\ Shift(en)

-----------------------------------------------------------------------------
\* The transmitter alone: load, data_in and enable are whatever the CPU side
\* and the divider make of them, and reset comes at any time.
Tick  == \E ld, en \in BOOLEAN, d \in Payloads : TxTick(ld, d, en)
Pulse == TxTick(FALSE, buf, TRUE)

Next == Tick \/ TxReset

\* A baud pulse with load down comes back for ever: the divider never stops
\* and the CPU's write cycle ends (testbench.cpp, write).
Spec == TxInit /\ [][Next]_txVars /\ WF_txVars(Pulse)

-----------------------------------------------------------------------------
(***************************************************************************)
(* Safety: the transmitter is a FrameSender.  Every frame on the line is   *)
(* in bit order, made of one byte that the CPU stored, however loads and   *)
(* pulses fall between each other; a byte stored during a frame never      *)
(* changes the bits of that frame.  Frames are complete, but for the one   *)
(* that follows a reset in the middle of a frame: idx survives the reset.  *)
(***************************************************************************)
Sender == INSTANCE FrameSender
            WITH Empty <- Undriven,
                 mail  <- IF buf_empty THEN Undriven ELSE buf,
                 queue <- IF reg_empty THEN <<>> ELSE Rest(reg, idx),
                 line  <- txd,
                 skip  <- IF reg_empty THEN idx ELSE 0
SendsFrames == Sender!Spec

(***************************************************************************)
(* Safety: whenever the shift register is free the line rests at 1, also   *)
(* after a reset: a receiver takes no leftover bit for a start bit.        *)
(***************************************************************************)
IdleIsHigh == reg_empty => txd = 1

(***************************************************************************)
(* Liveness: a frame ends, and a byte in buf moves on to the shift         *)
(* register, however often the CPU side rewrites it.                       *)
(***************************************************************************)
AlwaysDrains == (~reg_empty ~> reg_empty) /\ (~buf_empty ~> buf_empty)

(***************************************************************************)
(* Liveness: idx survives a reset, so the frame after a reset that hit a   *)
(* frame is cut short; but once resets stop at most one frame is lost and  *)
(* every later frame starts at its start bit.                              *)
(***************************************************************************)
Realigns == <>[][~TxReset]_txVars =>
                \/ <>[](reg_empty /\ buf_empty)
                \/ <>[](reg_empty => idx = 0)
=============================================================================
