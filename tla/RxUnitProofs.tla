---------------------------- MODULE RxUnitProofs ----------------------------
(***************************************************************************)
(* For every width, and a line, pulses, reads and resets that come as they *)
(* like: the receiver is type correct, implements FrameReceiver, and does  *)
(* not forget a byte that completes in the clock of a read.                *)
(***************************************************************************)
EXTENDS RxUnit, TLAPS

LEMMA Width == DATA_WIDTH \in Nat /\ DATA_WIDTH >= 1 /\ Waiting = DATA_WIDTH + 2
  BY WidthAssumption DEF Waiting

LEMMA Waits == Waiting \in 1 .. Waiting /\ Waiting # 1
  BY Width

-----------------------------------------------------------------------------
(***************************************************************************)
(* Type correctness.                                                       *)
(***************************************************************************)
LEMMA ShiftedIsByte == ASSUME RxTypeOK
                       PROVE  Shifted \in Byte
  BY Width DEF RxTypeOK, Shifted, Byte, Bits, Bit

LEMMA CountStays ==
    ASSUME RxTypeOK, NEW en \in BOOLEAN, Count(en)
    PROVE  sample_count' \in 0 .. SAMPLES - 1
  BY DEF RxTypeOK, Count, SAMPLES

\* The registers that hold the frame.
FrameInv == /\ buff_out \in Byte /\ shift_reg \in Byte
            /\ bit_count \in 1 .. Waiting

LEMMA ReceiveStays ==
    ASSUME RxTypeOK, NEW en \in BOOLEAN, Receive(en)
    PROVE  FrameInv'
<1>0. /\ buff_out \in Byte /\ shift_reg \in Byte
      /\ bit_count \in 1 .. Waiting /\ rxd \in Bit
  BY DEF RxTypeOK
<1>1. CASE WaitStart(en)
  <2>1. bit_count' \in 1 .. Waiting
    BY <1>0, <1>1, Width DEF WaitStart, AtStart, Bit
  <2>2. QED
    BY <1>0, <1>1, <2>1, Zenon DEF WaitStart, FrameInv
<1>2. CASE TakeData(en)
  <2>1. bit_count' \in 1 .. Waiting
    BY <1>0, <1>2, Width DEF TakeData, AtData
  <2>2. QED
    BY <1>0, <1>2, <2>1, ShiftedIsByte, Zenon DEF TakeData, FrameInv
<1>3. CASE TakeStop(en)
  BY <1>0, <1>3, Waits, Zenon DEF TakeStop, FrameInv
<1>4. CASE UNCHANGED <<bit_count, shift_reg, buff_out>>
  BY <1>0, <1>4, Zenon DEF FrameInv
<1>5. QED
  BY <1>1, <1>2, <1>3, <1>4, Zenon DEF Receive

LEMMA TickStays ==
    ASSUME RxTypeOK, NEW en \in BOOLEAN, NEW rd \in BOOLEAN, RxTick(en, rd), rxd' \in Bit
    PROVE  RxTypeOK'
<1>1. sample_count' \in 0 .. SAMPLES - 1
  BY CountStays, Zenon DEF RxTick
<1>2. FrameInv'
  BY ReceiveStays, Zenon DEF RxTick
<1>3. /\ data_rdy' \in BOOLEAN /\ frame_err' \in BOOLEAN /\ output_err' \in BOOLEAN
      /\ data_out' \in Byte
  <2>1. data_out' = IF rd THEN buff_out' ELSE data_out
    BY Zenon DEF RxTick, Status
  <2>2. data_out' \in Byte
    BY <1>2, <2>1, Zenon DEF FrameInv, RxTypeOK
  <2>3. QED
    BY <2>2, Zenon DEF RxTick, Status
<1>4. QED
  BY <1>1, <1>2, <1>3, Zenon DEF RxTypeOK, FrameInv

LEMMA ZerosIsByte == Zeros \in Byte
  BY DEF Zeros, Byte, Bit

LEMMA RxTypeInductive ==
    /\ RxInit => RxTypeOK
    /\ RxTypeOK /\ [Next]_<<rxd, rxVars>> => RxTypeOK'
<1>0. 0 \in 0 .. SAMPLES - 1
  BY DEF SAMPLES
<1>1. RxInit => RxTypeOK
  BY <1>0, ZerosIsByte, Waits, Zenon DEF RxInit, RxTypeOK
<1>2. RxTypeOK /\ Tick => RxTypeOK'
  BY TickStays, Zenon DEF Tick
<1>3. RxTypeOK /\ Reset => RxTypeOK'
  BY <1>0, ZerosIsByte, Waits, Zenon DEF Reset, RxReset, RxTypeOK
<1>4. RxTypeOK /\ UNCHANGED <<rxd, rxVars>> => RxTypeOK'
  BY Zenon DEF RxTypeOK, rxVars
<1>5. QED
  BY <1>1, <1>2, <1>3, <1>4, Zenon DEF Next

(***************************************************************************)
(* Type correctness: bit_count and sample_count stay in a frame and in a   *)
(* bit, and the registers hold bytes, whatever the line does.              *)
(***************************************************************************)
THEOREM RxTypeCorrect == Spec => []RxTypeOK
  BY RxTypeInductive, PTL DEF Spec

-----------------------------------------------------------------------------
(***************************************************************************)
(* The refinement.  The abstract variables, by their names in              *)
(* FrameReceiver: shift_reg fills from the top, so the bits of the open    *)
(* frame are its DataBits highest ones.                                    *)
(***************************************************************************)
Open == bit_count # Waiting
Got  == IF bit_count = Waiting THEN <<>>
        ELSE [k \in 1 .. DataBits |-> shift_reg[DATA_WIDTH - DataBits + k - 1]]

LEMMA GotIsSeq ==
    ASSUME RxTypeOK, bit_count # Waiting
    PROVE  /\ DataBits \in 0 .. DATA_WIDTH
           /\ DataBits = DATA_WIDTH + 1 - bit_count
           /\ Got \in Seq(Bit)
           /\ Len(Got) = DataBits
           /\ \A k \in 1 .. DataBits : Got[k] = shift_reg[DATA_WIDTH - DataBits + k - 1]
<1>1. DataBits \in 0 .. DATA_WIDTH /\ DataBits = DATA_WIDTH + 1 - bit_count
  BY Width DEF RxTypeOK, DataBits
<1>2. Got = [k \in 1 .. DataBits |-> shift_reg[DATA_WIDTH - DataBits + k - 1]]
  BY Zenon DEF Got
<1>3. ASSUME NEW k \in 1 .. DataBits
      PROVE  shift_reg[DATA_WIDTH - DataBits + k - 1] \in Bit
  <2>1. DATA_WIDTH - DataBits + k - 1 \in Bits
    BY <1>1, Width DEF Bits
  <2>2. QED
    BY <2>1 DEF RxTypeOK, Byte
<1>4. QED
  BY <1>1, <1>2, <1>3

LEMMA FunctionIsSeq ==
    ASSUME NEW n \in Nat, NEW f \in [1 .. n -> Bit]
    PROVE  f \in Seq(Bit) /\ Len(f) = n
<1>1. f = [i \in 1 .. n |-> f[i]]
  OBVIOUS
<1>2. \A i \in 1 .. n : f[i] \in Bit
  OBVIOUS
<1>3. QED
  BY <1>1, <1>2

LEMMA StartMaps ==
    ASSUME RxTypeOK, NEW en \in BOOLEAN, WaitStart(en)
    PROVE  Receiver!Start \/ Receiver!Wait
<1>1. /\ bit_count = Waiting /\ bit_count' = bit_count - (1 - rxd)
      /\ shift_reg' = shift_reg /\ buff_out' = buff_out /\ rxd \in Bit
  BY Zenon DEF WaitStart, AtStart, RxTypeOK
<1>2. CASE rxd = 1
  <2>1. bit_count' = Waiting
    BY <1>1, <1>2, Width
  <2>2. QED
    BY <1>1, <2>1, Zenon DEF Receiver!Wait
<1>3. CASE rxd = 0
  <2>1. bit_count' = Waiting - 1 /\ bit_count' # Waiting
    BY <1>1, <1>3, Width
  <2>2. DataBits' = 0
    BY <2>1, Width DEF DataBits
  <2>3. Got = <<>> /\ Got' = <<>>
    BY <1>1, <2>1, <2>2 DEF Got
  <2>4. QED
    BY <1>1, <1>3, <2>1, <2>3, Zenon DEF Receiver!Start, Got
<1>4. QED
  BY <1>1, <1>2, <1>3 DEF Bit

LEMMA DataMaps ==
    ASSUME RxTypeOK, NEW en \in BOOLEAN, TakeData(en)
    PROVE  Receiver!Data
<1>1. /\ bit_count \in 2 .. Waiting - 1 /\ bit_count' = bit_count - 1
      /\ shift_reg' = Shifted /\ buff_out' = buff_out
  BY Zenon DEF TakeData, AtData
<1>2. bit_count # Waiting /\ bit_count' # Waiting /\ bit_count' \in 1 .. Waiting
  BY <1>1, Width
<1>3. DataBits < DATA_WIDTH /\ DataBits' = DataBits + 1 /\ DataBits \in 0 .. DATA_WIDTH
  BY <1>1, Width DEF DataBits
<1>4. Got \in Seq(Bit) /\ Len(Got) = DataBits
  BY <1>2, GotIsSeq
<1>5. Got' = Append(Got, rxd)
  <2>1. Got' = [k \in 1 .. DataBits + 1 |-> Shifted[DATA_WIDTH - (DataBits + 1) + k - 1]]
    BY <1>1, <1>2, <1>3 DEF Got
  <2>2. ASSUME NEW k \in 1 .. DataBits + 1
        PROVE  Shifted[DATA_WIDTH - (DataBits + 1) + k - 1] = Append(Got, rxd)[k]
    <3>1. CASE k = DataBits + 1
      <4>1. DATA_WIDTH - (DataBits + 1) + k - 1 = DATA_WIDTH - 1 /\ DATA_WIDTH - 1 \in Bits
        BY <1>3, <3>1, Width DEF Bits
      <4>2. Shifted[DATA_WIDTH - 1] = rxd
        BY <4>1, Zenon DEF Shifted
      <4>3. Append(Got, rxd)[k] = rxd
        BY <1>4, <3>1
      <4>4. QED
        BY <4>1, <4>2, <4>3
    <3>2. CASE k # DataBits + 1
      <4>1. k \in 1 .. DataBits
        BY <1>3, <3>2
      <4>2. PICK i \in Bits : /\ i = DATA_WIDTH - (DataBits + 1) + k - 1
                              /\ i # DATA_WIDTH - 1
                              /\ i + 1 = DATA_WIDTH - DataBits + k - 1
        BY <1>3, <4>1, Width DEF Bits
      <4>3. Shifted[i] = shift_reg[i + 1]
        BY <4>2, Zenon DEF Shifted
      <4>4. Append(Got, rxd)[k] = Got[k]
        BY <1>3, <1>4, <4>1
      <4>5. Got[k] = shift_reg[DATA_WIDTH - DataBits + k - 1]
        BY <1>2, <4>1, GotIsSeq
      <4>6. QED
        BY <4>2, <4>3, <4>4, <4>5
    <3>3. QED
      BY <3>1, <3>2, Zenon
  <2>3. /\ Append(Got, rxd) \in Seq(Bit) /\ Len(Append(Got, rxd)) = DataBits + 1
    BY <1>3, <1>4 DEF RxTypeOK
  <2>4. ASSUME NEW k \in 1 .. DataBits + 1
        PROVE  Append(Got, rxd)[k] \in Bit
    BY <1>3, <2>3
  <2>5. /\ Got' \in Seq(Bit) /\ Len(Got') = DataBits + 1
        /\ \A k \in 1 .. DataBits + 1 : Got'[k] = Append(Got, rxd)[k]
    <3>1. \A k \in 1 .. DataBits + 1 : Shifted[DATA_WIDTH - (DataBits + 1) + k - 1] \in Bit
      BY <2>2, <2>4
    <3>2. DataBits + 1 \in Nat
      BY <1>3
    <3>3. Got' \in [1 .. DataBits + 1 -> Bit]
      BY <2>1, <3>1
    <3>4. \A k \in 1 .. DataBits + 1 : Got'[k] = Append(Got, rxd)[k]
      BY <2>1, <2>2
    <3>5. QED
      BY <3>2, <3>3, <3>4, FunctionIsSeq
  <2>6. QED
    BY <2>3, <2>5
<1>6. Len(Got) < DATA_WIDTH
  BY <1>3, <1>4
<1>7. QED
  BY <1>1, <1>2, <1>5, <1>6, Zenon DEF Receiver!Data, Got

LEMMA StopMaps ==
    ASSUME RxTypeOK, NEW en \in BOOLEAN, TakeStop(en)
    PROVE  Receiver!Stop
<1>1. /\ bit_count = 1 /\ bit_count' = Waiting
      /\ buff_out' = IF rxd = 1 THEN shift_reg ELSE buff_out
  BY Zenon DEF TakeStop, AtStop
<1>2. bit_count # Waiting
  BY <1>1, Waits
<1>3. DataBits = DATA_WIDTH
  BY <1>1, Width DEF DataBits
<1>4. Len(Got) = DATA_WIDTH
  BY <1>2, <1>3, GotIsSeq
<1>5. [i \in Bits |-> Got[i + 1]] = shift_reg
  <2>1. ASSUME NEW i \in Bits
        PROVE  Got[i + 1] = shift_reg[i]
    <3>1. PICK k \in 1 .. DataBits : k = i + 1 /\ DATA_WIDTH - DataBits + k - 1 = i
      BY <1>3, Width DEF Bits
    <3>2. QED
      BY <1>2, <3>1, GotIsSeq
  <2>2. QED
    BY <2>1 DEF RxTypeOK, Byte
<1>6. Receiver!Collected = shift_reg
  BY <1>5 DEF Receiver!Collected, Receiver!Bits, Bits, Got
<1>7. Got' = <<>>
  BY <1>1, Zenon DEF Got
<1>8. QED
  BY <1>1, <1>2, <1>4, <1>6, <1>7, Zenon DEF Receiver!Stop, Got

LEMMA ReceiverSteps ==
    ASSUME RxTypeOK, [Next]_<<rxd, rxVars>>
    PROVE  [Receiver!Next]_<<rxd, Open, Got, buff_out>>
<1>1. CASE Tick
  <2>1. PICK en, rd \in BOOLEAN : RxTick(en, rd)
    BY <1>1, Zenon DEF Tick
  <2>2. rxd' \in Receiver!Bit
    BY <1>1 DEF Tick, Bit, Receiver!Bit
  <2>3. UNCHANGED <<bit_count, shift_reg, buff_out>> => Receiver!Wait
    BY DEF Receiver!Wait, DataBits
  <2>4. Receiver!Start \/ Receiver!Data \/ Receiver!Stop \/ Receiver!Wait
    BY <2>1, <2>3, StartMaps, DataMaps, StopMaps, Zenon DEF RxTick, Receive
  <2>5. QED
    BY <2>2, <2>4, Zenon DEF Receiver!Next
<1>2. CASE Reset
  <2>1. rxd' \in Receiver!Bit
    BY <1>2 DEF Reset, Bit, Receiver!Bit
  <2>2. Receiver!Abandon
    BY <1>2, Zenon DEF Reset, RxReset, Receiver!Abandon
  <2>3. QED
    BY <2>1, <2>2, Zenon DEF Receiver!Next
<1>3. CASE UNCHANGED <<rxd, rxVars>>
  BY <1>3 DEF rxVars, Open, Got, DataBits
<1>4. QED
  BY <1>1, <1>2, <1>3, Zenon DEF Next

(***************************************************************************)
(* The receiver implements FrameReceiver: for every width the byte it      *)
(* hands over is the last complete frame it saw on the line, bit by bit,   *)
(* and nothing that shift_reg held before.                                 *)
(***************************************************************************)
THEOREM RxReceivesFrames == Spec => ReceivesFrames
<1>1. RxInit => Receiver!Init
  BY Zenon DEF RxInit, Receiver!Init, Bit, Receiver!Bit, Byte, Receiver!Byte, Bits, Receiver!Bits
<1>2. QED
  BY <1>1, ReceiverSteps, RxTypeInductive, PTL
     DEF Spec, ReceivesFrames, Receiver!Spec, Open, Got

-----------------------------------------------------------------------------
\* Only a stop bit at 1, seen on an enable pulse, delivers.
LEMMA DeliversCompletes ==
    ASSUME RxTypeOK, Delivers, NEW en \in BOOLEAN, NEW rd \in BOOLEAN, RxTick(en, rd)
    PROVE  Completes(en)
<1>1. bit_count' # bit_count
  BY Waits DEF Delivers
<1>2. Looks(en)
  BY <1>1, Waits, Zenon DEF RxTick, Receive, WaitStart, AtStart, TakeData, AtData, TakeStop, AtStop
<1>3. QED
  BY <1>2, Zenon DEF Delivers, Completes, AtStop

LEMMA ReadKeepsByte ==
    ASSUME RxTypeOK, [Next]_<<rxd, rxVars>>
    PROVE  [Delivers => data_rdy' \/ data_out' = buff_out']_<<rxd, rxVars>>
<1>1. CASE Tick
  <2>1. PICK en, rd \in BOOLEAN : RxTick(en, rd)
    BY <1>1, Zenon DEF Tick
  <2>2. CASE rd
    BY <2>1, <2>2, Zenon DEF RxTick, Status
  <2>3. CASE ~rd
    <3>1. Delivers => Completes(en)
      BY <2>1, DeliversCompletes
    <3>2. QED
      BY <2>1, <2>3, <3>1, Zenon DEF RxTick, Status
  <2>4. QED
    BY <2>2, <2>3, Zenon
<1>2. CASE Reset
  <2>1. sample_count' # MIDDLE
    BY <1>2 DEF Reset, RxReset, MIDDLE
  <2>2. QED
    BY <2>1, Zenon DEF Delivers
<1>3. CASE UNCHANGED <<rxd, rxVars>>
  BY <1>3, Zenon
<1>4. QED
  BY <1>1, <1>2, <1>3, Zenon DEF Next

(***************************************************************************)
(* For every width: a byte that completes in the clock of a read is        *)
(* announced by data_rdy or is what the read puts on data_out.             *)
(***************************************************************************)
THEOREM RxKeepsNewByte == Spec => NewByteSurvivesRead
  BY ReadKeepsByte, RxTypeInductive, PTL DEF Spec, NewByteSurvivesRead
=============================================================================
