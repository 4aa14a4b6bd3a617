----------------------------- MODULE SerialLink -----------------------------
(***************************************************************************)
(* The three units of Uart_unit (systemC/TP/tp2/src/uart.h) wired as in    *)
(* the tests: one clock, one divider per direction, and txd looped back to *)
(* rxd (the rtxd signal of test_mini_uart.cpp and test_uart_unit.cpp).     *)
(*                                                                         *)
(* All processes run on the same clock edge and read the signals as they   *)
(* were before it: one step moves all the units.  The CPU side is reduced  *)
(* to what the interrupts let it do: load a byte while the buffer is       *)
(* empty, read while a byte is ready.                                      *)
(***************************************************************************)
EXTENDS Frames

CONSTANTS TX_PERIOD, RX_PERIOD,     \* constructor arguments of Clk_unit
          Payloads, Undriven

VARIABLES cnt_tx, enable_tx, cnt_rx, enable_rx,
          buf, reg, idx, reg_empty, buf_empty, txd,
          buff_out, shift_reg, bit_count, sample_count,
          data_rdy, frame_err, output_err, data_out,
          wire      \* history: bytes whose start bit is out, not yet received

TxClk == INSTANCE ClkDivider WITH Period <- TX_PERIOD, cnt <- cnt_tx, enable <- enable_tx
RxClk == INSTANCE ClkDivider WITH Period <- RX_PERIOD, cnt <- cnt_rx, enable <- enable_rx
Tx    == INSTANCE TxUnit
Rx    == INSTANCE RxUnit WITH rxd <- txd

ASSUME LinkPeriods == TxClk!PeriodFits /\ RxClk!PeriodFits
ASSUME LinkPayloads == Payloads \subseteq Byte

linkVars == <<cnt_tx, enable_tx, cnt_rx, enable_rx,
              buf, reg, idx, reg_empty, buf_empty, txd,
              buff_out, shift_reg, bit_count, sample_count,
              data_rdy, frame_err, output_err, data_out, wire>>

LinkInit == /\ TxClk!DivInit /\ RxClk!DivInit
            /\ Tx!TxInit /\ Rx!RxInit
            /\ buff_out = Rx!Zeros /\ shift_reg = Rx!Zeros  \* see rx_frames for the others
            /\ wire = <<>>

\* A start bit goes out in this step / a byte is received in this step.
Departs == enable_tx /\ ~reg_empty /\ idx = 0
Arrives == Rx!Completes(enable_rx)

Follow == wire' = (IF Arrives /\ wire # <<>> THEN Tail(wire) ELSE wire)
                  \o (IF Departs THEN <<reg>> ELSE <<>>)

\* One rising edge of sys_clk.
Clock(ld, d, rd) == /\ TxClk!DivTick /\ RxClk!DivTick
                    /\ Tx!TxTick(ld, d, enable_tx)
                    /\ Rx!RxTick(enable_rx, rd)
                    /\ Follow

Quiet    == Clock(FALSE, buf, FALSE)
CpuLoads == buf_empty /\ \E d \in Payloads : Clock(TRUE, d, FALSE)
CpuReads == data_rdy /\ Clock(FALSE, buf, TRUE)

LinkNext == Quiet \/ CpuLoads \/ CpuReads

\* sys_clk never stops; the CPU side is free to do nothing.
LinkSpec == LinkInit /\ [][LinkNext]_linkVars /\ WF_linkVars(LinkNext)

-----------------------------------------------------------------------------
(***************************************************************************)
(* Safety: the link is a ByteChannel.  What the receiver hands over is     *)
(* what the transmitter was given: no byte is cut, merged, repeated or     *)
(* made up, for any spacing of the loads.  It needs equal bit lengths at   *)
(* both ends; DriftingLink.tla looks at the ones of the repository.        *)
(***************************************************************************)
Channel == INSTANCE ByteChannel WITH chan <- wire, out <- buff_out
DeliversInOrder == Channel!Spec

(***************************************************************************)
(* Safety: on a loop with equal bit lengths no frame error is ever seen,   *)
(* and at most one byte is in flight: the receiver has the byte before the *)
(* next start bit leaves, although the transmitter reuses reg half a bit   *)
(* before the receiver looks at the stop bit.                              *)
(***************************************************************************)
CleanLine == ~frame_err /\ Len(wire) <= 1

(***************************************************************************)
(* Liveness: a byte that has been loaded is received, and a start bit is   *)
(* never followed by silence.                                              *)
(***************************************************************************)
EveryByteArrives == (~buf_empty ~> wire # <<>>) /\ (wire # <<>> ~> wire = <<>>)
=============================================================================
