---------------------------- MODULE DriftingLink ----------------------------
(***************************************************************************)
(* The loop of SerialLink with bit lengths that differ, as those of the    *)
(* tests do: TX_PERIOD = 4167 gives 4168 clocks per bit sent, RX_PERIOD =  *)
(* 260 gives 16 * 261 = 4176 clocks per bit received.  sample_count is     *)
(* never restarted by a start bit, so the place in the bit where the line  *)
(* is looked at moves by the difference at every bit, frame or no frame.   *)
(***************************************************************************)
EXTENDS SerialLink, Integers

CONSTANT MAX_BITS       \* horizon: transmitter pulses since the reset

ASSUME HorizonAssumption == MAX_BITS \in Nat

VARIABLE bits           \* transmitter pulses since the reset

driftVars == <<linkVars, bits>>

TxBit == TX_PERIOD + 1                      \* clocks per bit sent
RxBit == Rx!SAMPLES * (RX_PERIOD + 1)       \* clocks per bit received
Drift == RxBit - TxBit

DriftInit == LinkInit /\ bits = 0

DriftClock == /\ bits < MAX_BITS
              /\ LinkNext
              /\ bits' = IF enable_tx THEN bits + 1 ELSE bits

Horizon == bits = MAX_BITS /\ UNCHANGED driftVars

DriftNext == DriftClock \/ Horizon

DriftSpec == DriftInit /\ [][DriftNext]_driftVars

-----------------------------------------------------------------------------
\* Clocks from the start of the n-th bit sent to the n-th look at the line:
\* half a bit, plus the drift of n bits.
Offset(n) == Rx!MIDDLE * (RX_PERIOD + 1) + n * Drift

\* The look that belongs to this bit falls in it, the next one does not.
InStep == Offset(bits) < TxBit /\ 0 < Offset(bits + 1)

(***************************************************************************)
(* Safety: as long as the drift since the reset is below half a bit the    *)
(* receiver hands over exactly the byte that was sent and reports no frame *)
(* error.  With the periods of the tests that is 260 bits, 26 bytes sent   *)
(* back to back.                                                           *)
(***************************************************************************)
InStepDelivers ==
    [][/\ Arrives /\ InStep => wire # <<>> /\ buff_out' = Head(wire)
       /\ InStep' => ~frame_err']_driftVars

(***************************************************************************)
(* Claim of the comment in rx_unit.h: a stop bit at 1 means that the       *)
(* transmission is finished, so what is handed over then is a byte that    *)
(* was sent.                                                               *)
(***************************************************************************)
StopMeansFinished ==
    [][Arrives => wire # <<>> /\ buff_out' = Head(wire)]_driftVars
=============================================================================
