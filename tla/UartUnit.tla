------------------------------ MODULE UartUnit ------------------------------
(***************************************************************************)
(* Uart_unit (systemC/TP/tp2/src/uart.h): the divider, transmitter and     *)
(* receiver behind a CPU bus of four-valued signals ce, rd, wr and addr.   *)
(*                                                                         *)
(* interfaceProcess is a SC_METHOD sensitive to ce, rd, wr, addr and       *)
(* data_in only.  It does not run when rx_data changes, and where it finds *)
(* Z or X it writes nothing: load, read and data_out keep their values.    *)
(***************************************************************************)
EXTENDS Frames

CONSTANTS TX_PERIOD, RX_PERIOD, Payloads, Undriven

VARIABLES reset,
          load, tx_data, read, data_out,    \* written by interfaceProcess
          irqTx, irqRx,                     \* written by combinationnal
          cnt_tx, en_tx, cnt_rx, en_rx,
          buf, reg, idx, reg_empty, buf_empty, txd,
          buff_out, shift_reg, bit_count, sample_count,
          d_rdy, f_err, o_err, rx_data

TxClk == INSTANCE ClkDivider WITH Period <- TX_PERIOD, cnt <- cnt_tx, enable <- en_tx
RxClk == INSTANCE ClkDivider WITH Period <- RX_PERIOD, cnt <- cnt_rx, enable <- en_rx
Tx    == INSTANCE TxUnit
Rx    == INSTANCE RxUnit WITH rxd <- txd, data_rdy <- d_rdy, frame_err <- f_err,
                              output_err <- o_err, data_out <- rx_data

ASSUME UartPeriods == TxClk!PeriodFits /\ RxClk!PeriodFits
ASSUME UartPayloads == Payloads \subseteq Byte

\* txd is the line of the loop: Rx!rxd is Tx!txd
busVars  == <<load, tx_data, read, data_out>>
irqVars  == <<irqTx, irqRx>>
unitVars == <<cnt_tx, en_tx, cnt_rx, en_rx, buf, reg, idx, reg_empty, buf_empty, txd,
              buff_out, shift_reg, bit_count, sample_count, d_rdy, f_err, o_err, rx_data>>

Logic == {"0", "1", "Z", "X"}

UartTypeOK == /\ reset \in BOOLEAN
              /\ load \in BOOLEAN /\ read \in BOOLEAN
              /\ tx_data \in Byte \union {Undriven}
              /\ data_out \in Byte \union {Undriven}
              /\ irqTx \in BOOLEAN /\ irqRx \in BOOLEAN
              /\ TxClk!DivTypeOK /\ RxClk!DivTypeOK /\ Tx!TxTypeOK /\ Rx!RxTypeOK

\* The units have been activated once, with reset low; the bus is idle.
UartInit == /\ load = FALSE /\ tx_data = Rx!Zeros /\ read = FALSE /\ data_out = Undriven
            /\ irqTx = FALSE /\ irqRx = FALSE
            /\ TxClk!DivInit /\ RxClk!DivInit /\ Tx!TxInit
            /\ Rx!RxInit /\ buff_out = Rx!Zeros /\ shift_reg = Rx!Zeros

\* One activation of interfaceProcess on the bus values given to it.
\* ctrl_status_reg, at address 1, is "status".
InterfaceProcess(ce, rd, wr, addr, data_in, status) ==
    /\ \/ /\ ce = "0" \/ wr = "0" \/ addr # 0
          /\ load' = FALSE /\ tx_data' = Rx!Zeros
       \/ /\ ce = "1" /\ wr = "1" /\ addr = 0
          /\ load' = TRUE /\ tx_data' = data_in
       \/ /\ ce # "0" /\ wr # "0" /\ addr = 0 /\ ~(ce = "1" /\ wr = "1")
          /\ UNCHANGED <<load, tx_data>>
    /\ \/ /\ ce = "0" \/ rd = "0" \/ addr > 1
          /\ read' = FALSE /\ data_out' = Undriven
       \/ /\ ce = "1" /\ rd = "1" /\ addr <= 1
          /\ read' = (addr = 0)
          /\ data_out' = IF addr = 0 THEN rx_data ELSE status
       \/ /\ ce # "0" /\ rd # "0" /\ addr <= 1 /\ ~(ce = "1" /\ rd = "1")
          /\ UNCHANGED <<read, data_out>>

\* The clocked processes of the three units, on one rising edge of clk.
Edge == IF reset
        THEN /\ TxClk!DivTick /\ RxClk!DivTick
             /\ Tx!TxTick(load, tx_data, en_tx)
             /\ Rx!RxTick(en_rx, read)
        ELSE TxClk!DivReset /\ RxClk!DivReset /\ Tx!TxReset /\ Rx!RxReset

\* Mutant: the transmit interrupt as soon as everything is empty.
Combinationnal_empty == /\ irqTx' = (buf_empty /\ reg_empty)
                        /\ irqRx' = d_rdy

\* One activation of combinationnal.
Combinationnal == /\ irqTx' = (buf_empty /\ ~reg_empty)
                  /\ irqRx' = d_rdy
=============================================================================
