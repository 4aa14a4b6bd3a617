----------------------------- MODULE LinkProofs ------------------------------
(***************************************************************************)
(* The loop of txd to rxd, for every width and every pair of periods: as   *)
(* long as the looks of the receiver fall in step with the bits of the     *)
(* transmitter, one look in each bit, what is received is what was sent.   *)
(* With equal bit lengths that is for ever, and the loop is a ByteChannel; *)
(* with others it is until the drift has eaten up half a bit.              *)
(***************************************************************************)
EXTENDS DriftingLink, TLAPS

T == TxBit
R == RX_PERIOD + 1          \* clocks per sample of the receiver

LEMMA Constants ==
    /\ DATA_WIDTH \in Nat /\ DATA_WIDTH >= 1
    /\ TX_PERIOD \in Nat /\ 0 < TX_PERIOD /\ TX_PERIOD < TxClk!UINT16 /\ T = TX_PERIOD + 1
    /\ RX_PERIOD \in Nat /\ 0 < RX_PERIOD /\ RX_PERIOD < RxClk!UINT16
    /\ R \in Nat /\ R > 1 /\ RxBit = 16 * R /\ Drift = 16 * R - T
    /\ Rx!MIDDLE = 8 /\ Rx!SAMPLES = 16 /\ Rx!Waiting = DATA_WIDTH + 2
<1>1. /\ TX_PERIOD \in Nat /\ 0 < TX_PERIOD /\ TX_PERIOD < TxClk!UINT16
      /\ RX_PERIOD \in Nat /\ 0 < RX_PERIOD /\ RX_PERIOD < RxClk!UINT16
  <2>1. TxClk!PeriodFits => TX_PERIOD \in Nat /\ 0 < TX_PERIOD /\ TX_PERIOD < TxClk!UINT16
    BY SMT DEF TxClk!PeriodFits, TxClk!UINT16
  <2>2. RxClk!PeriodFits => RX_PERIOD \in Nat /\ 0 < RX_PERIOD /\ RX_PERIOD < RxClk!UINT16
    BY SMT DEF RxClk!PeriodFits, RxClk!UINT16
  <2>3. QED
    BY <2>1, <2>2, LinkPeriods, Zenon
<1>2. DATA_WIDTH \in Nat /\ DATA_WIDTH >= 1
  BY WidthAssumption
<1>3. Rx!MIDDLE = 8 /\ Rx!SAMPLES = 16 /\ Rx!Waiting = DATA_WIDTH + 2
  BY DEF Rx!MIDDLE, Rx!SAMPLES, Rx!Waiting
<1>4. T = TX_PERIOD + 1 /\ RxBit = 16 * R /\ Drift = RxBit - T
  BY <1>3 DEF T, R, TxBit, RxBit, Drift
<1>5. QED
  BY <1>1, <1>2, <1>3, <1>4 DEF R

-----------------------------------------------------------------------------
(***************************************************************************)
(* Time.  The clocks since the last pulse of each divider, and the place   *)
(* in the bit of the receiver, counted from the sample in the middle of    *)
(* which the line is looked at: -8 just after a look, 7 before the next.   *)
(***************************************************************************)
PhaseTx == IF enable_tx THEN T ELSE cnt_tx
PhaseRx == IF enable_rx THEN R ELSE cnt_rx
Place   == IF sample_count < 8 THEN sample_count ELSE sample_count - 16
Elapsed == Place * R + PhaseRx

Look == enable_rx /\ sample_count = 7

ClocksOK == /\ cnt_tx \in 0 .. TX_PERIOD /\ enable_tx \in BOOLEAN
            /\ cnt_rx \in 0 .. RX_PERIOD /\ enable_rx \in BOOLEAN
            /\ enable_tx => cnt_tx = 0
            /\ enable_rx => cnt_rx = 0
            /\ sample_count \in 0 .. 15

LEMMA TxTime ==
    ASSUME ClocksOK
    PROVE  /\ PhaseTx \in 0 .. T
           /\ enable_tx <=> PhaseTx = T
  BY Constants DEF ClocksOK, PhaseTx

LEMMA RxTime ==
    ASSUME ClocksOK
    PROVE  /\ Elapsed \in Int /\ Elapsed <= 8 * R
           /\ Look <=> Elapsed = 8 * R
<1>0. R \in Nat /\ R > 1 /\ R = RX_PERIOD + 1 /\ RX_PERIOD \in Nat
  BY Constants DEF R
<1>1. PhaseRx \in 0 .. R /\ (enable_rx <=> PhaseRx = R)
  <2>1. cnt_rx \in 0 .. RX_PERIOD
    BY Zenon DEF ClocksOK
  <2>2. cnt_rx \in 0 .. R /\ cnt_rx # R /\ R \in 0 .. R
    BY <1>0, <2>1
  <2>3. QED
    BY <2>2, Zenon DEF PhaseRx
<1>2. Place \in -8 .. 7 /\ (sample_count = 7 <=> Place = 7)
  <2>1. sample_count \in 0 .. 15
    BY Zenon DEF ClocksOK
  <2>2. QED
    BY <2>1 DEF Place
<1>3. Place * R \in Int
  BY <1>0, <1>2
<1>4. CASE Place = 7
  BY <1>0, <1>1, <1>2, <1>4 DEF Elapsed, Look
<1>5. CASE Place # 7
  <2>1. (6 - Place) * R >= 0
    BY <1>0, <1>1, <1>2, <1>5, SMTT(30)
  <2>2. Place * R = 6 * R - (6 - Place) * R
    BY <1>0, <1>1, <1>2, SMTT(30)
  <2>3. Place * R <= 6 * R
    BY <1>0, <1>1, <1>2, <1>3, <2>1, <2>2
  <2>4. QED
    BY <1>0, <1>1, <1>2, <1>3, <1>5, <2>3 DEF Elapsed, Look
<1>6. QED
  BY <1>4, <1>5

\* Both counts grow by one at every clock, and fall back by a bit, one at a
\* pulse of the transmitter, the other at a look at the line.
LEMMA TimePasses ==
    ASSUME ClocksOK, TxClk!DivTick, RxClk!DivTick, Rx!Count(enable_rx)
    PROVE  /\ ClocksOK'
           /\ PhaseTx' = IF enable_tx THEN PhaseTx + 1 - T ELSE PhaseTx + 1
           /\ Elapsed' = IF Look THEN Elapsed + 1 - 16 * R ELSE Elapsed + 1
<1>1. /\ cnt_tx' = (IF cnt_tx = TX_PERIOD THEN 0 ELSE cnt_tx + 1)
      /\ enable_tx' = (~enable_tx /\ cnt_tx = TX_PERIOD)
  <2>1. TxClk!Bump(cnt_tx) = IF cnt_tx = TX_PERIOD THEN 0 ELSE cnt_tx + 1
    BY Constants, SMT DEF ClocksOK, TxClk!Bump, TxClk!UINT16
  <2>2. QED
    BY <2>1, Zenon DEF TxClk!DivTick
<1>2. /\ cnt_rx' = (IF cnt_rx = RX_PERIOD THEN 0 ELSE cnt_rx + 1)
      /\ enable_rx' = (~enable_rx /\ cnt_rx = RX_PERIOD)
  <2>1. RxClk!Bump(cnt_rx) = IF cnt_rx = RX_PERIOD THEN 0 ELSE cnt_rx + 1
    BY Constants, SMT DEF ClocksOK, RxClk!Bump, RxClk!UINT16
  <2>2. QED
    BY <2>1, Zenon DEF RxClk!DivTick
<1>3. sample_count' = IF ~enable_rx THEN sample_count
                      ELSE IF sample_count = 15 THEN 0 ELSE sample_count + 1
  BY Constants DEF ClocksOK, Rx!Count
<1>4. ClocksOK'
  <2>1. /\ cnt_tx' \in 0 .. TX_PERIOD /\ (cnt_tx = TX_PERIOD => cnt_tx' = 0)
        /\ cnt_rx' \in 0 .. RX_PERIOD /\ (cnt_rx = RX_PERIOD => cnt_rx' = 0)
    BY <1>1, <1>2, Constants DEF ClocksOK
  <2>2. sample_count' \in 0 .. 15
    BY <1>3 DEF ClocksOK
  <2>3. QED
    BY <1>1, <1>2, <2>1, <2>2, Zenon DEF ClocksOK
<1>5. PhaseTx' = IF enable_tx THEN PhaseTx + 1 - T ELSE PhaseTx + 1
  <2>1. CASE enable_tx
    <3>1. cnt_tx = 0 /\ enable_tx' = FALSE /\ cnt_tx' = 0 + 1
      <4>1. cnt_tx = 0 /\ cnt_tx # TX_PERIOD
        BY <2>1, Constants DEF ClocksOK
      <4>2. QED
        BY <1>1, <2>1, <4>1, Zenon
    <3>2. QED
      BY <2>1, <3>1, Constants DEF PhaseTx
  <2>2. CASE ~enable_tx
    <3>1. cnt_tx \in Nat
      BY Constants DEF ClocksOK
    <3>2. CASE cnt_tx = TX_PERIOD
      <4>1. enable_tx' = TRUE
        BY <1>1, <2>2, <3>2, Zenon
      <4>2. QED
        BY <2>2, <3>2, <4>1, Constants DEF PhaseTx
    <3>3. CASE cnt_tx # TX_PERIOD
      <4>1. enable_tx' = FALSE /\ cnt_tx' = cnt_tx + 1
        BY <1>1, <2>2, <3>3, Zenon
      <4>2. QED
        BY <2>2, <4>1, Zenon DEF PhaseTx
    <3>4. QED
      BY <3>2, <3>3, Zenon
  <2>3. QED
    BY <2>1, <2>2, Zenon
<1>6. PhaseRx' = IF enable_rx THEN PhaseRx + 1 - R ELSE PhaseRx + 1
  <2>1. CASE enable_rx
    <3>1. cnt_rx = 0 /\ enable_rx' = FALSE /\ cnt_rx' = 0 + 1
      <4>1. cnt_rx = 0 /\ cnt_rx # RX_PERIOD
        BY <2>1, Constants DEF ClocksOK
      <4>2. QED
        BY <1>2, <2>1, <4>1, Zenon
    <3>2. QED
      BY <2>1, <3>1, Constants DEF PhaseRx, R
  <2>2. CASE ~enable_rx
    <3>1. CASE cnt_rx = RX_PERIOD
      <4>1. enable_rx' = TRUE
        BY <1>2, <2>2, <3>1, Zenon
      <4>2. QED
        BY <2>2, <3>1, <4>1, Constants DEF PhaseRx, R
    <3>2. CASE cnt_rx # RX_PERIOD
      <4>1. enable_rx' = FALSE /\ cnt_rx' = cnt_rx + 1
        BY <1>2, <2>2, <3>2, Zenon
      <4>2. QED
        BY <2>2, <4>1, Zenon DEF PhaseRx
    <3>3. QED
      BY <3>1, <3>2, Zenon
  <2>3. QED
    BY <2>1, <2>2, Zenon
<1>7. Place' = IF ~enable_rx THEN Place
               ELSE IF sample_count = 7 THEN Place - 15 ELSE Place + 1
  BY <1>3 DEF ClocksOK, Place
<1>8. /\ Place \in Int /\ PhaseRx \in Int /\ R \in Int
      /\ (Place + 1) * R = Place * R + R
      /\ (Place - 15) * R = Place * R - 15 * R
      /\ Place * R \in Int
  <2>1. Place \in Int /\ PhaseRx \in Int /\ R \in Int
    BY Constants DEF ClocksOK, Place, PhaseRx
  <2>2. QED
    BY <2>1, SMTT(30)
<1>9. Elapsed' = IF Look THEN Elapsed + 1 - 16 * R ELSE Elapsed + 1
  BY <1>6, <1>7, <1>8 DEF Elapsed, Look, ClocksOK, R
<1>10. QED
  BY <1>4, <1>5, <1>9

-----------------------------------------------------------------------------
(***************************************************************************)
(* The frame.  looked says whether the line has been looked at since the   *)
(* last bit was put on it, and lag by how much the looks have shifted      *)
(* since the reset.                                                        *)
(***************************************************************************)
Timing(lag, looked) == PhaseTx = lag + (IF looked THEN 16 * R ELSE 0) + Elapsed

\* idx bits of the frame of reg are out, of which the last may be unseen.
SeenBits(looked) == IF looked THEN idx ELSE idx - 1
OnLine == IF idx = 1 THEN 0 ELSE reg[idx - 2]

Idle == /\ idx = 0 /\ txd = 1 /\ wire = <<>>
        /\ bit_count = Rx!Waiting

InFrame(looked) ==
    /\ idx \in 1 .. DATA_WIDTH + 1 /\ ~reg_empty
    /\ txd = OnLine /\ wire = <<reg>>
    /\ bit_count = Rx!Waiting - SeenBits(looked)
    /\ \A j \in Bits : j < Rx!DataBits => shift_reg[DATA_WIDTH - Rx!DataBits + j] = reg[j]

\* The stop bit is out and unseen: reg may hold the next byte already.
Stopping == /\ idx = 0 /\ txd = 1 /\ wire = <<shift_reg>>
            /\ bit_count = 1

Shape(looked) == Idle \/ InFrame(looked) \/ (~looked /\ Stopping)

TxOK == /\ buf_empty \in BOOLEAN /\ (~buf_empty => buf \in Byte)
        /\ reg_empty \in BOOLEAN /\ (~reg_empty => reg \in Byte)
RxOK == /\ shift_reg \in Byte /\ buff_out \in Byte
        /\ frame_err = FALSE

LinkInv(lag) == /\ ClocksOK /\ TxOK /\ RxOK
                /\ \E looked \in BOOLEAN : Timing(lag, looked) /\ Shape(looked)

\* Bit for bit, a look and no other in each bit: InStep, from the lag.
LagFits(lag) == /\ lag \in Int
                /\ 8 * R + lag < T
                /\ 0 < 8 * R + lag + Drift

LEMMA LagBounds ==
    ASSUME ClocksOK, NEW lag, LagFits(lag), NEW looked \in BOOLEAN, Timing(lag, looked)
    PROVE  /\ enable_tx => looked = TRUE /\ ~Look
           /\ Look => looked = FALSE
<1>1. /\ PhaseTx \in 0 .. T /\ (enable_tx <=> PhaseTx = T)
      /\ Elapsed \in Int /\ Elapsed <= 8 * R /\ (Look <=> Elapsed = 8 * R)
  BY TxTime, RxTime
<1>2. /\ lag \in Int /\ 8 * R + lag < T /\ 0 < 8 * R + lag + Drift
      /\ R \in Nat /\ Drift = 16 * R - T /\ T \in Nat
  BY Constants DEF LagFits
<1>3. CASE looked = TRUE
  <2>1. PhaseTx = lag + 16 * R + Elapsed
    BY <1>3 DEF Timing
  <2>2. ~Look
    BY <1>1, <1>2, <2>1
  <2>3. QED
    BY <1>3, <2>2
<1>4. CASE looked = FALSE
  <2>1. PhaseTx = lag + 0 + Elapsed
    BY <1>4 DEF Timing
  <2>2. ~enable_tx
    BY <1>1, <1>2, <2>1
  <2>3. QED
    BY <1>4, <2>2
<1>5. QED
  BY <1>3, <1>4

\* A pulse starts a new bit and shifts the looks by the drift of a bit; a
\* look marks the bit as seen.
NextLooked(looked) == IF enable_tx THEN FALSE ELSE IF Look THEN TRUE ELSE looked
NextLag(lag) == IF enable_tx THEN lag + Drift ELSE lag

LEMMA TimingKeeps ==
    ASSUME ClocksOK, TxClk!DivTick, RxClk!DivTick, Rx!Count(enable_rx),
           NEW lag, LagFits(lag), NEW looked \in BOOLEAN, Timing(lag, looked)
    PROVE  PhaseTx' = NextLag(lag) + (IF NextLooked(looked) THEN 16 * R ELSE 0) + Elapsed'
<1>1. /\ PhaseTx \in Int /\ Elapsed \in Int /\ lag \in Int
      /\ R \in Nat /\ Drift = 16 * R - T /\ T \in Nat
  BY TxTime, RxTime, Constants DEF LagFits
<1>2. /\ PhaseTx' = IF enable_tx THEN PhaseTx + 1 - T ELSE PhaseTx + 1
      /\ Elapsed' = IF Look THEN Elapsed + 1 - 16 * R ELSE Elapsed + 1
  BY TimePasses
<1>3. CASE enable_tx
  <2>1. looked = TRUE /\ ~Look
    BY <1>3, LagBounds
  <2>2. PhaseTx = lag + 16 * R + Elapsed
    BY <2>1 DEF Timing
  <2>3. PhaseTx' = PhaseTx + 1 - T /\ Elapsed' = Elapsed + 1
    BY <1>2, <1>3, <2>1, Zenon
  <2>4. NextLag(lag) = lag + Drift /\ NextLooked(looked) = FALSE
    BY <1>3, Zenon DEF NextLag, NextLooked
  <2>5. QED
    BY <1>1, <2>2, <2>3, <2>4
<1>4. CASE ~enable_tx /\ Look
  <2>1. looked = FALSE
    BY <1>4, LagBounds
  <2>2. PhaseTx = lag + 0 + Elapsed
    BY <2>1 DEF Timing
  <2>3. PhaseTx' = PhaseTx + 1 /\ Elapsed' = Elapsed + 1 - 16 * R
    BY <1>2, <1>4, Zenon
  <2>4. NextLag(lag) = lag /\ NextLooked(looked) = TRUE
    BY <1>4, Zenon DEF NextLag, NextLooked
  <2>5. QED
    BY <1>1, <2>2, <2>3, <2>4
<1>5. CASE ~enable_tx /\ ~Look
  <2>1. PhaseTx' = PhaseTx + 1 /\ Elapsed' = Elapsed + 1
    BY <1>2, <1>5, Zenon
  <2>2. NextLag(lag) = lag /\ NextLooked(looked) = looked
    BY <1>5, Zenon DEF NextLag, NextLooked
  <2>3. QED
    BY <1>1, <2>1, <2>2 DEF Timing
<1>6. QED
  BY <1>3, <1>4, <1>5, Zenon

-----------------------------------------------------------------------------
(***************************************************************************)
(* The two sides of the line in one clock.                                 *)
(***************************************************************************)
Shifts == /\ Tx!ShiftStart \/ Tx!ShiftData \/ Tx!ShiftStop
          /\ reg' = reg /\ reg_empty = FALSE
Rests  == /\ idx' = idx /\ txd' = txd
          /\ ~reg_empty => reg' = reg /\ reg_empty' = FALSE

LEMMA TxSide ==
    ASSUME TxOK, NEW ld \in BOOLEAN, NEW d, ld => d \in Byte, Tx!TxTick(ld, d, enable_tx)
    PROVE  /\ TxOK'
           /\ enable_tx /\ ~reg_empty => Shifts
           /\ ~(enable_tx /\ ~reg_empty) => Rests
<1>1. ASSUME Tx!Shift(enable_tx)
      PROVE  /\ reg_empty' \in BOOLEAN /\ (~reg_empty' => reg' \in Byte)
             /\ enable_tx /\ ~reg_empty => Shifts
             /\ ~(enable_tx /\ ~reg_empty) => Rests
  <2>1. CASE enable_tx /\ ~reg_empty
    <3>1. Tx!ShiftStart \/ Tx!ShiftData \/ Tx!ShiftStop
      BY <1>1, <2>1, Zenon DEF Tx!Shift
    <3>2. reg' = reg /\ reg \in Byte /\ reg_empty = FALSE
      BY <1>1, <2>1, Zenon DEF Tx!Shift, TxOK
    <3>3. reg_empty' \in BOOLEAN
      BY <3>1, <3>2, Zenon DEF Tx!ShiftStart, Tx!ShiftData, Tx!ShiftStop
    <3>4. QED
      BY <2>1, <3>1, <3>2, <3>3, Zenon DEF Shifts
  <2>2. CASE ~(enable_tx /\ ~reg_empty)
    <3>1. reg' = reg /\ idx' = idx /\ reg_empty' = reg_empty /\ txd' = txd
      BY <1>1, <2>2, Zenon DEF Tx!Shift
    <3>2. reg_empty' \in BOOLEAN /\ (~reg_empty' => reg' \in Byte)
      BY <3>1, Zenon DEF TxOK
    <3>3. Rests
      BY <3>1, Zenon DEF TxOK, Rests
    <3>4. QED
      BY <2>2, <3>2, <3>3, Zenon
  <2>3. QED
    BY <2>1, <2>2, Zenon
<1>2. CASE ld /\ Tx!Load(d) /\ Tx!Shift(enable_tx)
  <2>1. buf' \in Byte /\ buf_empty' \in BOOLEAN
    BY <1>2, Zenon DEF Tx!Load
  <2>2. QED
    BY <1>1, <1>2, <2>1, Zenon DEF TxOK
<1>3. CASE Tx!Transfer
  <2>1. /\ reg_empty /\ ~buf_empty /\ reg' = buf /\ buf \in Byte
        /\ reg_empty' = FALSE /\ buf_empty' = TRUE /\ idx' = idx /\ txd' = txd
    BY <1>3, Zenon DEF Tx!Transfer, TxOK
  <2>2. QED
    BY <2>1, Zenon DEF TxOK, Rests
<1>4. CASE UNCHANGED <<buf, buf_empty>> /\ Tx!Shift(enable_tx)
  <2>1. buf_empty' \in BOOLEAN /\ (~buf_empty' => buf' \in Byte)
    BY <1>4, Zenon DEF TxOK
  <2>2. QED
    BY <1>1, <1>4, <2>1, Zenon DEF TxOK
<1>5. QED
  BY <1>2, <1>3, <1>4, Zenon DEF Tx!TxTick

LEMMA Looking == ASSUME ClocksOK
                 PROVE  Rx!Looks(enable_rx) <=> Look
  BY Constants DEF ClocksOK, Rx!Looks, Look

\* Without a look the receiver only counts.
LEMMA RxCounts ==
    ASSUME ClocksOK, RxOK, ~Look, NEW rd \in BOOLEAN, Rx!RxTick(enable_rx, rd)
    PROVE  /\ bit_count' = bit_count /\ shift_reg' = shift_reg /\ buff_out' = buff_out
           /\ frame_err' = FALSE /\ ~Arrives
<1>1. ~Rx!AtStart(enable_rx) /\ ~Rx!AtData(enable_rx) /\ ~Rx!AtStop(enable_rx)
  BY Looking, Zenon DEF Rx!AtStart, Rx!AtData, Rx!AtStop
<1>2. bit_count' = bit_count /\ shift_reg' = shift_reg /\ buff_out' = buff_out
  BY <1>1, Zenon DEF Rx!RxTick, Rx!Receive, Rx!WaitStart, Rx!TakeData, Rx!TakeStop
<1>3. frame_err' = FALSE
  BY <1>1, Zenon DEF Rx!RxTick, Rx!Status, RxOK
<1>4. ~Arrives
  BY <1>1, Zenon DEF Arrives, Rx!Completes
<1>5. QED
  BY <1>2, <1>3, <1>4, Zenon

\* A look, by what the receiver waits for.
LEMMA RxLooks ==
    ASSUME ClocksOK, RxOK, Look, NEW rd \in BOOLEAN, Rx!RxTick(enable_rx, rd),
           bit_count \in 1 .. Rx!Waiting
    PROVE  /\ Arrives <=> bit_count = 1 /\ txd = 1
           /\ ~(bit_count = 1 /\ txd = 0) => frame_err' = FALSE
           /\ bit_count = Rx!Waiting => /\ bit_count' = bit_count - (1 - txd)
                                        /\ UNCHANGED <<shift_reg, buff_out>>
           /\ bit_count \in 2 .. Rx!Waiting - 1 => /\ bit_count' = bit_count - 1
                                                   /\ shift_reg' = Rx!Shifted
                                                   /\ buff_out' = buff_out
           /\ bit_count = 1 => /\ bit_count' = Rx!Waiting
                               /\ shift_reg' = shift_reg
                               /\ buff_out' = IF txd = 1 THEN shift_reg ELSE buff_out
<1>1. Rx!Looks(enable_rx)
  BY Looking
<1>2. /\ Rx!AtStart(enable_rx) <=> bit_count = Rx!Waiting
      /\ Rx!AtData(enable_rx) <=> bit_count \in 2 .. Rx!Waiting - 1
      /\ Rx!AtStop(enable_rx) <=> bit_count = 1
  BY <1>1, Zenon DEF Rx!AtStart, Rx!AtData, Rx!AtStop
<1>3. /\ bit_count = Rx!Waiting => bit_count # 1 /\ bit_count \notin 2 .. Rx!Waiting - 1
      /\ bit_count = 1 => bit_count \notin 2 .. Rx!Waiting - 1
  BY Constants
<1>4. Rx!WaitStart(enable_rx) \/ Rx!TakeData(enable_rx) \/ Rx!TakeStop(enable_rx)
  BY <1>1, Zenon DEF Rx!RxTick, Rx!Receive
<1>5. (Arrives <=> bit_count = 1 /\ txd = 1) /\ (~(bit_count = 1 /\ txd = 0) => frame_err' = FALSE)
  BY <1>2, Zenon DEF Arrives, Rx!Completes, Rx!RxTick, Rx!Status, RxOK
<1>6. CASE bit_count = Rx!Waiting
  BY <1>2, <1>3, <1>4, <1>5, <1>6, Zenon DEF Rx!WaitStart, Rx!TakeData, Rx!TakeStop
<1>7. CASE bit_count \in 2 .. Rx!Waiting - 1
  BY <1>2, <1>3, <1>4, <1>5, <1>7, Zenon DEF Rx!WaitStart, Rx!TakeData, Rx!TakeStop
<1>8. CASE bit_count = 1
  BY <1>2, <1>3, <1>4, <1>5, <1>8, Zenon DEF Rx!WaitStart, Rx!TakeData, Rx!TakeStop
<1>9. bit_count = Rx!Waiting \/ bit_count \in 2 .. Rx!Waiting - 1 \/ bit_count = 1
  BY Constants
<1>10. QED
  BY <1>6, <1>7, <1>8, <1>9, Zenon

-----------------------------------------------------------------------------
(***************************************************************************)
(* The three kinds of clock: a pulse of the transmitter, a look of the     *)
(* receiver, neither.                                                      *)
(***************************************************************************)
\* What the wire holds in each of the shapes.
LEMMA WireHolds ==
    ASSUME TxOK, RxOK, NEW looked \in BOOLEAN, Shape(looked)
    PROVE  /\ wire \in Seq(Byte) /\ Len(wire) <= 1
           /\ txd \in Bit /\ bit_count \in 1 .. Rx!Waiting
<1>1. CASE Idle
  BY <1>1, Constants DEF Idle, Bit
<1>2. CASE InFrame(looked)
  <2>1. reg \in Byte /\ idx \in 1 .. DATA_WIDTH + 1
    BY <1>2 DEF InFrame, TxOK
  <2>2. wire \in Seq(Byte) /\ Len(wire) = 1
    BY <1>2, <2>1 DEF InFrame
  <2>3. txd \in Bit
    BY <1>2, <2>1, Constants DEF InFrame, OnLine, Byte, Bits, Bit
  <2>4. bit_count \in 1 .. Rx!Waiting
    BY <1>2, <2>1, Constants DEF InFrame, SeenBits
  <2>5. QED
    BY <2>2, <2>3, <2>4
<1>3. CASE Stopping
  <2>1. shift_reg \in Byte /\ wire = <<shift_reg>> /\ txd = 1 /\ bit_count = 1
    BY <1>3 DEF Stopping, RxOK
  <2>2. QED
    BY <2>1, Constants DEF Bit
<1>4. QED
  BY <1>1, <1>2, <1>3 DEF Shape

LEMMA WireKeeps ==
    ASSUME Follow, ~Arrives, ~Departs, wire \in Seq(Byte)
    PROVE  wire' = wire
<1>1. wire' = wire \o <<>>
  BY Zenon DEF Follow
<1>2. QED
  BY <1>1

Unmoved == bit_count' = bit_count /\ shift_reg' = shift_reg /\ buff_out' = buff_out

LEMMA PulseShape ==
    ASSUME TxOK, RxOK, Shape(TRUE), enable_tx,
           ~reg_empty => Shifts, reg_empty => Rests,
           Unmoved, ~Arrives, Follow
    PROVE  /\ Shape(FALSE)'
           /\ wire' = wire \/ (reg \in Byte /\ wire' = Append(wire, reg))
<1>0. wire \in Seq(Byte)
  BY WireHolds
<1>1. CASE Idle /\ reg_empty
  <2>1. idx' = idx /\ txd' = txd
    BY <1>1 DEF Rests
  <2>2. wire' = wire
    BY <1>0, <1>1, WireKeeps DEF Departs
  <2>3. Idle'
    BY <1>1, <2>1, <2>2 DEF Idle, Unmoved, Rx!Waiting
  <2>4. QED
    BY <2>2, <2>3 DEF Shape
<1>2. CASE Idle /\ ~reg_empty
  <2>1. idx = 0 /\ wire = <<>> /\ bit_count = DATA_WIDTH + 2
    BY <1>2, Constants DEF Idle
  <2>2. Tx!ShiftStart
    BY <1>2, <2>1, Constants DEF Shifts, Tx!ShiftData, Tx!ShiftStop
  <2>3. txd' = 0 /\ idx' = 1 /\ reg' = reg /\ reg_empty' = reg_empty /\ reg \in Byte
    BY <1>2, <2>1, <2>2 DEF Tx!ShiftStart, Shifts, TxOK
  <2>4. wire' = <<>> \o <<reg>>
    BY <1>2, <2>1 DEF Follow, Departs
  <2>5. wire' = <<reg'>> /\ wire' = Append(wire, reg)
    BY <2>1, <2>3, <2>4
  <2>6. bit_count' = DATA_WIDTH + 2
    BY <2>1 DEF Unmoved
  <2>7. InFrame(FALSE)'
    BY <1>2, <2>3, <2>5, <2>6, Constants
       DEF InFrame, OnLine, SeenBits, Rx!Waiting, Rx!DataBits, Bits
  <2>8. QED
    BY <2>3, <2>5, <2>7 DEF Shape
<1>3. CASE InFrame(TRUE)
  <2>1. /\ idx \in 1 .. DATA_WIDTH + 1 /\ ~reg_empty /\ wire = <<reg>>
        /\ bit_count = DATA_WIDTH + 2 - idx /\ reg \in Byte
    BY <1>3, Constants DEF InFrame, SeenBits, TxOK
  <2>2. reg' = reg /\ (Tx!ShiftData \/ Tx!ShiftStop)
    BY <2>1 DEF Shifts, Tx!ShiftStart
  <2>3. wire' = wire
    BY <1>0, <2>1, WireKeeps DEF Departs
  <2>4. CASE Tx!ShiftData
    <3>1. /\ idx \in 1 .. DATA_WIDTH /\ idx' = idx + 1 /\ txd' = reg[idx - 1]
          /\ reg_empty' = reg_empty
      BY <2>4 DEF Tx!ShiftData
    <3>2. idx' \in 1 .. DATA_WIDTH + 1 /\ idx' # 1 /\ idx' - 2 = idx - 1
      BY <3>1, Constants
    <3>3. txd' = OnLine'
      BY <2>2, <3>1, <3>2 DEF OnLine
    <3>4. bit_count' = (Rx!Waiting - SeenBits(FALSE))'
      BY <2>1, <3>1, Constants DEF Unmoved, SeenBits, Rx!Waiting
    <3>5. \A j \in Bits : j < Rx!DataBits' => shift_reg'[DATA_WIDTH - Rx!DataBits' + j] = reg'[j]
      BY <1>3, <2>2 DEF InFrame, Unmoved, Rx!DataBits, Rx!Waiting
    <3>6. InFrame(FALSE)'
      BY <2>1, <2>2, <2>3, <3>1, <3>2, <3>3, <3>4, <3>5, Zenon DEF InFrame, Bits
    <3>7. QED
      BY <2>3, <3>6 DEF Shape
  <2>5. CASE Tx!ShiftStop
    <3>1. idx = DATA_WIDTH + 1 /\ idx' = 0 /\ txd' = 1
      BY <2>5 DEF Tx!ShiftStop
    <3>2. bit_count = 1 /\ Rx!DataBits = DATA_WIDTH
      BY <2>1, <3>1, Constants DEF Rx!DataBits
    <3>3. \A j \in Bits : shift_reg[j] = reg[j]
      BY <1>3, <3>2, Constants DEF InFrame, Bits
    <3>4. shift_reg = reg
      BY <2>1, <3>3 DEF RxOK, Byte
    <3>5. Stopping'
      BY <2>1, <2>3, <3>1, <3>2, <3>4 DEF Stopping, Unmoved
    <3>6. QED
      BY <2>3, <3>5 DEF Shape
  <2>6. QED
    BY <2>2, <2>4, <2>5
<1>4. QED
  BY <1>1, <1>2, <1>3 DEF Shape

LEMMA LookShape ==
    ASSUME ClocksOK, TxOK, RxOK, Shape(FALSE), Look, ~enable_tx, Rests,
           NEW rd \in BOOLEAN, Rx!RxTick(enable_rx, rd), Follow
    PROVE  /\ Shape(TRUE)' /\ RxOK'
           /\ \/ ~Arrives /\ UNCHANGED <<wire, buff_out>>
              \/ Arrives /\ wire # <<>> /\ buff_out' = Head(wire) /\ wire' = Tail(wire)
<1>0. /\ wire \in Seq(Byte) /\ txd \in Bit /\ bit_count \in 1 .. Rx!Waiting
      /\ shift_reg \in Byte /\ buff_out \in Byte
      /\ ~Departs
  BY WireHolds DEF RxOK, Departs
<1>1. CASE Idle
  <2>1. txd = 1 /\ bit_count = Rx!Waiting /\ bit_count # 1 /\ bit_count \in Nat
    BY <1>1, Constants DEF Idle
  <2>2. bit_count' = bit_count - (1 - txd) /\ UNCHANGED <<shift_reg, buff_out>>
        /\ frame_err' = FALSE /\ ~Arrives
    BY <1>0, <2>1, RxLooks
  <2>3. bit_count' = bit_count
    BY <2>1, <2>2
  <2>4. wire' = wire
    BY <1>0, <2>2, WireKeeps
  <2>5. Idle'
    BY <1>1, <2>3, <2>4 DEF Idle, Rests, Rx!Waiting
  <2>6. QED
    BY <1>0, <2>2, <2>4, <2>5 DEF Shape, RxOK
<1>2. CASE InFrame(FALSE)
  <2>1. /\ idx \in 1 .. DATA_WIDTH + 1 /\ ~reg_empty /\ wire = <<reg>>
        /\ bit_count = DATA_WIDTH + 3 - idx /\ reg \in Byte /\ txd = OnLine
        /\ bit_count # 1
    BY <1>2, Constants DEF InFrame, SeenBits, TxOK
  <2>2. /\ reg' = reg /\ idx' = idx /\ txd' = txd /\ reg_empty' = FALSE
    BY <2>1 DEF Rests
  <2>3. ~Arrives /\ frame_err' = FALSE
    BY <1>0, <2>1, RxLooks
  <2>4. wire' = wire
    BY <1>0, <2>3, WireKeeps
  <2>5. CASE idx = 1
    <3>1. txd = 0 /\ bit_count = Rx!Waiting
      BY <2>1, <2>5, Constants DEF OnLine
    <3>2. bit_count' = bit_count - (1 - txd) /\ UNCHANGED <<shift_reg, buff_out>>
      BY <1>0, <3>1, RxLooks
    <3>3. bit_count' = DATA_WIDTH + 1
      BY <3>1, <3>2, Constants
    <3>4. InFrame(TRUE)'
      BY <2>1, <2>2, <2>4, <2>5, <3>3, Constants
         DEF InFrame, OnLine, SeenBits, Rx!Waiting, Rx!DataBits, Bits
    <3>5. QED
      BY <1>0, <2>3, <2>4, <3>2, <3>4 DEF Shape, RxOK
  <2>6. CASE idx # 1
    <3>1. bit_count \in 2 .. Rx!Waiting - 1
      BY <2>1, <2>6, Constants
    <3>2. bit_count' = bit_count - 1 /\ shift_reg' = Rx!Shifted /\ buff_out' = buff_out
      BY <1>0, <3>1, RxLooks
    <3>3. shift_reg' = [i \in Bits |-> IF i = DATA_WIDTH - 1 THEN txd ELSE shift_reg[i + 1]]
      BY <3>2 DEF Rx!Shifted, Rx!Bits, Bits
    <3>4. shift_reg' \in Byte
      BY <1>0, <3>3, Constants DEF Byte, Bits
    <3>5. Rx!DataBits = idx - 2 /\ Rx!DataBits' = idx - 1
      BY <2>1, <3>2, Constants DEF Rx!DataBits, Rx!Waiting
    <3>6. txd = reg[idx - 2]
      BY <2>1, <2>6 DEF OnLine
    <3>7. ASSUME NEW j \in Bits, j < idx - 1
          PROVE  shift_reg'[DATA_WIDTH - (idx - 1) + j] = reg[j]
      <4>1. DATA_WIDTH - (idx - 1) + j \in Bits
        BY <2>1, <2>6, <3>7, Constants DEF Bits
      <4>2. CASE j = idx - 2
        BY <2>1, <3>3, <3>6, <4>1, <4>2, Constants DEF Bits
      <4>3. CASE j # idx - 2
        <5>1. /\ j < idx - 2 /\ DATA_WIDTH - (idx - 1) + j # DATA_WIDTH - 1
              /\ DATA_WIDTH - (idx - 1) + j + 1 = DATA_WIDTH - (idx - 2) + j
          BY <2>1, <3>7, <4>3, Constants DEF Bits
        <5>2. shift_reg[DATA_WIDTH - (idx - 2) + j] = reg[j]
          BY <1>2, <3>5, <5>1 DEF InFrame
        <5>3. QED
          BY <3>3, <4>1, <5>1, <5>2
      <4>4. QED
        BY <4>2, <4>3
    <3>8. bit_count' = (Rx!Waiting - SeenBits(TRUE))'
      BY <2>1, <2>2, <3>2, Constants DEF SeenBits, Rx!Waiting
    <3>9. txd' = OnLine'
      BY <2>1, <2>2 DEF OnLine
    <3>10. InFrame(TRUE)'
      BY <2>1, <2>2, <2>4, <3>5, <3>7, <3>8, <3>9 DEF InFrame, Bits
    <3>11. QED
      BY <1>0, <2>3, <2>4, <3>2, <3>4, <3>10 DEF Shape, RxOK
  <2>7. QED
    BY <2>5, <2>6
<1>3. CASE Stopping
  <2>1. idx = 0 /\ txd = 1 /\ txd # 0 /\ wire = <<shift_reg>> /\ bit_count = 1
    BY <1>3 DEF Stopping
  <2>2. /\ Arrives /\ frame_err' = FALSE /\ bit_count' = Rx!Waiting
        /\ shift_reg' = shift_reg /\ buff_out' = shift_reg
    BY <1>0, <2>1, RxLooks
  <2>3. wire # <<>> /\ Head(wire) = shift_reg /\ Tail(wire) = <<>>
    BY <2>1
  <2>4. wire' = Tail(wire) \o <<>>
    BY <1>0, <2>2, <2>3, Zenon DEF Follow
  <2>5. wire' = <<>>
    BY <2>3, <2>4
  <2>6. Idle'
    BY <2>1, <2>2, <2>5 DEF Idle, Rests, Rx!Waiting
  <2>7. QED
    BY <1>0, <2>2, <2>3, <2>5, <2>6 DEF Shape, RxOK
<1>4. QED
  BY <1>1, <1>2, <1>3 DEF Shape

LEMMA QuietShape ==
    ASSUME TxOK, RxOK, NEW looked \in BOOLEAN, Shape(looked), ~enable_tx, Rests,
           Unmoved, ~Arrives, Follow
    PROVE  Shape(looked)' /\ wire' = wire
<1>1. wire' = wire
  BY WireHolds, WireKeeps DEF Departs
<1>2. CASE Idle
  BY <1>1, <1>2 DEF Idle, Shape, Rests, Unmoved, Rx!Waiting
<1>3. CASE InFrame(looked)
  <2>1. reg' = reg /\ idx' = idx /\ txd' = txd /\ reg_empty' = FALSE
    BY <1>3 DEF InFrame, Rests
  <2>2. InFrame(looked)'
    BY <1>1, <1>3, <2>1
       DEF InFrame, SeenBits, OnLine, Unmoved, Rx!Waiting, Rx!DataBits, Bits
  <2>3. QED
    BY <1>1, <2>2 DEF Shape
<1>4. CASE Stopping /\ ~looked
  BY <1>1, <1>4 DEF Stopping, Shape, Rests, Unmoved
<1>5. QED
  BY <1>2, <1>3, <1>4 DEF Shape

-----------------------------------------------------------------------------
(***************************************************************************)
(* One clock of the loop.                                                  *)
(***************************************************************************)
ByteLeaves  == wire # <<>> /\ buff_out' = Head(wire) /\ wire' = Tail(wire)
ChannelStep == [Channel!Next]_<<wire, buff_out>>

LEMMA ChannelMoves ==
    /\ ByteLeaves => ChannelStep
    /\ reg \in Byte /\ wire' = Append(wire, reg) /\ buff_out' = buff_out => ChannelStep
    /\ UNCHANGED <<wire, buff_out>> => ChannelStep
<1>1. ByteLeaves => Channel!Leave
  BY Zenon DEF ByteLeaves, Channel!Leave
<1>2. ASSUME reg \in Byte, wire' = Append(wire, reg), buff_out' = buff_out
      PROVE  Channel!Enter(reg)
  BY <1>2, Zenon DEF Channel!Enter
<1>3. QED
  BY <1>1, <1>2, Zenon DEF ChannelStep, Channel!Next

LEMMA ClockKeeps ==
    ASSUME NEW lag, LagFits(lag), LinkInv(lag),
           NEW ld \in BOOLEAN, NEW d, ld => d \in Byte, NEW rd \in BOOLEAN, Clock(ld, d, rd),
           NEW next, next = NextLag(lag)
    PROVE  /\ LinkInv(next)'
           /\ Arrives => ByteLeaves
           /\ ChannelStep
<1>1. PICK looked \in BOOLEAN : Timing(lag, looked) /\ Shape(looked)
  BY Zenon DEF LinkInv
<1>2. ClocksOK /\ TxOK /\ RxOK
  BY Zenon DEF LinkInv
<1>3. /\ TxClk!DivTick /\ RxClk!DivTick /\ Tx!TxTick(ld, d, enable_tx)
      /\ Rx!RxTick(enable_rx, rd) /\ Rx!Count(enable_rx) /\ Follow
  BY Zenon DEF Clock, Rx!RxTick
<1>4. /\ ClocksOK'
      /\ PhaseTx' = next + (IF NextLooked(looked) THEN 16 * R ELSE 0) + Elapsed'
  BY <1>1, <1>2, <1>3, TimePasses, TimingKeeps
<1>5. /\ TxOK'
      /\ enable_tx /\ ~reg_empty => Shifts
      /\ ~(enable_tx /\ ~reg_empty) => Rests
  BY <1>2, <1>3, TxSide
<1>6. (enable_tx => looked = TRUE /\ ~Look) /\ (Look => looked = FALSE)
  BY <1>1, <1>2, LagBounds
<1>7. ASSUME NEW seen \in BOOLEAN, seen = NextLooked(looked), Shape(seen)', RxOK'
      PROVE  LinkInv(next)'
  <2>1. Timing(next, seen)'
    BY <1>4, <1>7 DEF Timing, R
  <2>2. QED
    BY <1>4, <1>5, <1>7, <2>1, Zenon DEF LinkInv
<1>8. CASE enable_tx
  <2>1. Unmoved /\ ~Arrives /\ frame_err' = FALSE
    BY <1>2, <1>3, <1>6, <1>8, RxCounts, Zenon DEF Unmoved
  <2>2. /\ Shape(FALSE)'
        /\ wire' = wire \/ (reg \in Byte /\ wire' = Append(wire, reg))
    BY <1>1, <1>2, <1>3, <1>5, <1>6, <1>8, <2>1, PulseShape, Zenon
  <2>3. FALSE = NextLooked(looked)
    BY <1>8, Zenon DEF NextLooked
  <2>4. RxOK'
    BY <1>2, <2>1, Zenon DEF RxOK, Unmoved
  <2>5. ChannelStep
    BY <2>1, <2>2, ChannelMoves, Zenon DEF Unmoved
  <2>6. QED
    BY <1>7, <2>1, <2>2, <2>3, <2>4, <2>5, Zenon
<1>9. CASE ~enable_tx /\ Look
  <2>1. /\ Shape(TRUE)' /\ RxOK'
        /\ \/ ~Arrives /\ UNCHANGED <<wire, buff_out>>
           \/ Arrives /\ ByteLeaves
    BY <1>1, <1>2, <1>3, <1>5, <1>6, <1>9, LookShape, Zenon DEF ByteLeaves
  <2>2. TRUE = NextLooked(looked)
    BY <1>9, Zenon DEF NextLooked
  <2>3. ChannelStep
    BY <2>1, ChannelMoves, Zenon
  <2>4. QED
    BY <1>7, <2>1, <2>2, <2>3, Zenon
<1>10. CASE ~enable_tx /\ ~Look
  <2>1. Unmoved /\ ~Arrives /\ frame_err' = FALSE
    BY <1>2, <1>3, <1>10, RxCounts, Zenon DEF Unmoved
  <2>2. Shape(looked)' /\ wire' = wire
    BY <1>1, <1>2, <1>3, <1>5, <1>10, <2>1, QuietShape, Zenon
  <2>3. looked = NextLooked(looked)
    BY <1>10, Zenon DEF NextLooked
  <2>4. RxOK'
    BY <1>2, <2>1, Zenon DEF RxOK, Unmoved
  <2>5. ChannelStep
    BY <2>1, <2>2, ChannelMoves, Zenon DEF Unmoved
  <2>6. QED
    BY <1>7, <2>1, <2>2, <2>3, <2>4, <2>5, Zenon
<1>11. QED
  BY <1>8, <1>9, <1>10, Zenon

LEMMA LinkKeeps ==
    ASSUME NEW lag, LagFits(lag), LinkInv(lag), LinkNext,
           NEW next, next = NextLag(lag)
    PROVE  /\ LinkInv(next)'
           /\ Arrives => ByteLeaves
           /\ ChannelStep
<1>1. CASE Quiet
  BY <1>1, ClockKeeps, Zenon DEF Quiet
<1>2. CASE CpuLoads
  <2>1. PICK d \in Payloads : Clock(TRUE, d, FALSE)
    BY <1>2, Zenon DEF CpuLoads
  <2>2. d \in Byte
    BY LinkPayloads
  <2>3. QED
    BY <2>1, <2>2, ClockKeeps, Zenon
<1>3. CASE CpuReads
  BY <1>3, ClockKeeps, Zenon DEF CpuReads
<1>4. QED
  BY <1>1, <1>2, <1>3, Zenon DEF LinkNext

LEMMA LinkStarts == LinkInit => LinkInv(0)
<1> SUFFICES ASSUME LinkInit PROVE LinkInv(0)
  OBVIOUS
<1>1. /\ cnt_tx = 0 /\ enable_tx = FALSE /\ cnt_rx = 0 /\ enable_rx = FALSE
      /\ buf_empty = TRUE /\ reg_empty = TRUE /\ idx = 0 /\ txd = 1
      /\ bit_count = Rx!Waiting /\ sample_count = 0 /\ frame_err = FALSE
      /\ wire = <<>>
  BY Zenon DEF LinkInit, TxClk!DivInit, RxClk!DivInit, Tx!TxInit, Rx!RxInit
<1>2. shift_reg \in Byte /\ buff_out \in Byte
  BY DEF LinkInit, Rx!Zeros, Rx!Bits, Bits, Byte, Bit
<1>3. ClocksOK
  <2>1. 0 \in 0 .. TX_PERIOD /\ 0 \in 0 .. RX_PERIOD /\ 0 \in 0 .. 15
    BY Constants
  <2>2. QED
    BY <1>1, <2>1, Zenon DEF ClocksOK
<1>4. TxOK /\ RxOK
  BY <1>1, <1>2, Zenon DEF TxOK, RxOK
<1>5. Timing(0, FALSE)
  <2>1. PhaseTx = 0 /\ PhaseRx = 0 /\ Place = 0
    BY <1>1 DEF PhaseTx, PhaseRx, Place
  <2>2. QED
    BY <2>1, Constants DEF Timing, Elapsed
<1>6. Shape(FALSE)
  BY <1>1, Zenon DEF Shape, Idle
<1>7. QED
  BY <1>3, <1>4, <1>5, <1>6, Zenon DEF LinkInv

LEMMA LinkStutters ==
    ASSUME NEW lag, LinkInv(lag), UNCHANGED linkVars
    PROVE  LinkInv(lag)'
BY DEF linkVars, LinkInv, ClocksOK, TxOK, RxOK, Timing, PhaseTx, PhaseRx, Place, Elapsed,
       Shape, Idle, InFrame, Stopping, SeenBits, OnLine, T, R, TxBit,
       Rx!Waiting, Rx!DataBits, Bits, Byte, Bit

-----------------------------------------------------------------------------
(***************************************************************************)
(* Equal bit lengths: nothing ever shifts.                                 *)
(***************************************************************************)
EqualRates == TxBit = RxBit

LEMMA EqualRatesFit ==
    ASSUME EqualRates
    PROVE  LagFits(0) /\ NextLag(0) = 0
<1>1. T = 16 * R /\ Drift = 0 /\ R \in Nat /\ R > 1
  <2>1. T = RxBit
    BY DEF EqualRates, T
  <2>2. QED
    <3>1. R \in Nat /\ R > 1 /\ RxBit = 16 * R /\ Drift = 16 * R - T
      BY Constants
    <3>2. QED
      BY <2>1, <3>1
<1>2. LagFits(0)
  BY <1>1 DEF LagFits
<1>3. NextLag(0) = 0
  BY <1>1 DEF NextLag
<1>4. QED
  BY <1>2, <1>3

LEMMA EqualRatesInductive ==
    ASSUME EqualRates
    PROVE  LinkInv(0) /\ [LinkNext]_linkVars => LinkInv(0)' /\ ChannelStep
<1> SUFFICES ASSUME LinkInv(0), [LinkNext]_linkVars
             PROVE  LinkInv(0)' /\ ChannelStep
  OBVIOUS
<1>1. LagFits(0) /\ NextLag(0) = 0
  BY EqualRatesFit
<1>2. CASE LinkNext
  BY <1>1, <1>2, LinkKeeps
<1>3. CASE UNCHANGED linkVars
  <2>1. UNCHANGED <<wire, buff_out>>
    BY <1>3 DEF linkVars
  <2>2. QED
    BY <1>3, <2>1, LinkStutters, ChannelMoves
<1>4. QED
  BY <1>2, <1>3

(***************************************************************************)
(* With equal bit lengths, whatever the width and the periods and however  *)
(* the loads fall: no frame error, and never more than one byte in flight. *)
(***************************************************************************)
THEOREM EqualRatesClean == EqualRates => (LinkSpec => []CleanLine)
<1> SUFFICES ASSUME EqualRates PROVE LinkSpec => []CleanLine
  OBVIOUS
<1>1. LinkInv(0) => CleanLine
  BY WireHolds DEF LinkInv, CleanLine, RxOK
<1>2. LinkInv(0) /\ [LinkNext]_linkVars => LinkInv(0)'
  BY EqualRatesInductive
<1>3. QED
  BY <1>1, <1>2, LinkStarts, PTL DEF LinkSpec

(***************************************************************************)
(* With equal bit lengths the loop implements ByteChannel, for every width *)
(* and every pair of such periods: the bytes sent are received, each once, *)
(* in order.                                                               *)
(***************************************************************************)
THEOREM EqualRatesDeliver == EqualRates => (LinkSpec => DeliversInOrder)
<1> SUFFICES ASSUME EqualRates PROVE LinkSpec => DeliversInOrder
  OBVIOUS
<1>1. LinkInit => Channel!Init
  BY DEF LinkInit, Channel!Init, Rx!Zeros, Rx!Bits, Bits, Byte, Bit
<1>2. LinkInv(0) /\ [LinkNext]_linkVars => LinkInv(0)' /\ [Channel!Next]_<<wire, buff_out>>
  BY EqualRatesInductive DEF ChannelStep
<1>3. QED
  BY <1>1, <1>2, LinkStarts, PTL DEF LinkSpec, DeliversInOrder, Channel!Spec

-----------------------------------------------------------------------------
(***************************************************************************)
(* Any two bit lengths: nothing goes wrong while the looks are in step.    *)
(***************************************************************************)
Inv(n) == \E lag \in Int : lag = n * Drift /\ LagFits(lag) /\ LinkInv(lag)

DriftInv == bits \in Nat /\ (InStep => Inv(bits))

LEMMA InStepFits ==
    ASSUME NEW n \in Nat
    PROVE  /\ n * Drift \in Int /\ (n + 1) * Drift = n * Drift + Drift
           /\ Offset(n) = 8 * R + n * Drift
           /\ Offset(n + 1) = 8 * R + n * Drift + Drift
<1>1. Drift \in Int /\ R \in Nat
  BY Constants
<1>2. n * Drift \in Int /\ (n + 1) * Drift = n * Drift + Drift /\ (n + 1) * Drift \in Int
  BY <1>1, SMTT(30)
<1>3. Offset(n) = 8 * R + n * Drift /\ Offset(n + 1) = 8 * R + (n + 1) * Drift
  BY Constants DEF Offset, R
<1>4. QED
  BY <1>1, <1>2, <1>3

\* The drift goes one way: what is in step now has been in step before.
LEMMA InStepBefore ==
    ASSUME NEW n \in Nat,
           Offset(n + 1) < TxBit, 0 < Offset(n + 2)
    PROVE  Offset(n) < TxBit /\ 0 < Offset(n + 1)
<1> DEFINE m == n * Drift
<1>1. /\ T = TxBit /\ R \in Nat /\ R > 1 /\ Drift = 16 * R - T /\ T \in Nat /\ T > 1
  BY Constants DEF T
<1>2. /\ m \in Int
      /\ Offset(n) = 8 * R + m /\ Offset(n + 1) = 8 * R + m + Drift
  BY InStepFits
<1>3. Offset(n + 2) = 8 * R + m + 2 * Drift
  <2>1. n + 1 \in Nat /\ (n + 1) + 1 = n + 2
    OBVIOUS
  <2>2. Offset((n + 1) + 1) = 8 * R + (n + 1) * Drift + Drift /\ (n + 1) * Drift = m + Drift
    BY <2>1, InStepFits
  <2>3. QED
    BY <1>1, <1>2, <2>1, <2>2
<1>4. (Drift >= 0 => m >= 0) /\ (Drift < 0 => m <= 0)
  BY <1>1, SMTT(30)
<1> HIDE DEF m
<1>5. CASE Drift >= 0
  BY <1>1, <1>2, <1>3, <1>4, <1>5
<1>6. CASE Drift < 0
  BY <1>1, <1>2, <1>3, <1>4, <1>6
<1>7. QED
  BY <1>1, <1>5, <1>6

LEMMA DriftStarts == DriftInit => DriftInv
<1> SUFFICES ASSUME DriftInit PROVE DriftInv
  OBVIOUS
<1>1. bits = 0 /\ LinkInv(0)
  BY LinkStarts DEF DriftInit
<1>2. Drift \in Int /\ 0 * Drift = 0
  BY Constants
<1>3. InStep => LagFits(0)
  BY <1>1, <1>2, InStepFits DEF InStep, LagFits, T
<1>4. QED
  BY <1>1, <1>2, <1>3 DEF DriftInv, Inv

LEMMA DriftKeeps ==
    ASSUME DriftInv, DriftClock
    PROVE  /\ DriftInv'
           /\ InStep /\ Arrives => ByteLeaves
           /\ InStep' => frame_err' = FALSE
<1>1. bits \in Nat /\ LinkNext /\ bits' = IF enable_tx THEN bits + 1 ELSE bits
  BY DEF DriftInv, DriftClock
<1>2. bits' \in Nat
  BY <1>1
<1>3. InStep' => InStep
  <2> SUFFICES ASSUME InStep' PROVE InStep
    OBVIOUS
  <2>1. Offset(bits') < TxBit /\ 0 < Offset(bits' + 1)
    BY DEF InStep, Offset, TxBit, Drift, RxBit, Rx!MIDDLE, Rx!SAMPLES
  <2>2. CASE bits' = bits
    BY <2>1, <2>2 DEF InStep
  <2>3. CASE bits' = bits + 1
    <3>1. bits' + 1 = bits + 2
      BY <1>1, <2>3
    <3>2. QED
      BY <1>1, <2>1, <2>3, <3>1, InStepBefore DEF InStep
  <2>4. QED
    BY <1>1, <2>2, <2>3
<1>4. ASSUME InStep
      PROVE  /\ Arrives => ByteLeaves
             /\ \E next \in Int : next = bits' * Drift /\ LinkInv(next)'
  <2>1. PICK lag \in Int : lag = bits * Drift /\ LagFits(lag) /\ LinkInv(lag)
    BY <1>4 DEF DriftInv, Inv
  <2>2. PICK next : next = NextLag(lag)
    OBVIOUS
  <2>3. LinkInv(next)' /\ (Arrives => ByteLeaves)
    BY <1>1, <2>1, <2>2, LinkKeeps
  <2>4. next \in Int /\ next = bits' * Drift
    BY <1>1, <2>1, <2>2, InStepFits, Constants DEF NextLag
  <2>5. QED
    BY <2>3, <2>4
<1>5. ASSUME InStep'
      PROVE  Inv(bits)' /\ frame_err' = FALSE
  <2>1. PICK next \in Int : next = bits' * Drift /\ LinkInv(next)'
    BY <1>3, <1>4, <1>5
  <2>2. Offset(bits') < TxBit /\ 0 < Offset(bits' + 1)
    BY <1>5 DEF InStep, Offset, TxBit, Drift, RxBit, Rx!MIDDLE, Rx!SAMPLES
  <2>3. LagFits(next)
    BY <1>2, <2>1, <2>2, InStepFits DEF LagFits, T
  <2>4. LagFits(next)'
    BY <2>3 DEF LagFits, Drift, RxBit, TxBit, T, R, Rx!SAMPLES
  <2>5. Inv(bits)'
    BY <2>1, <2>4 DEF Inv, Drift, RxBit, TxBit, Rx!SAMPLES
  <2>6. QED
    BY <2>1, <2>5 DEF LinkInv, RxOK
<1>6. QED
  BY <1>2, <1>3, <1>4, <1>5 DEF DriftInv

(***************************************************************************)
(* For every width, every pair of periods and any horizon: as long as the  *)
(* drift since the reset keeps one look in each bit, what is handed over   *)
(* is the byte that was sent, and no frame error is seen.                  *)
(***************************************************************************)
THEOREM DriftDelivers == DriftSpec => InStepDelivers
<1> DEFINE Deed == /\ Arrives /\ InStep => wire # <<>> /\ buff_out' = Head(wire)
                   /\ InStep' => ~frame_err'
<1>1. DriftInv /\ [DriftNext]_driftVars => DriftInv' /\ [Deed]_driftVars
  <2> SUFFICES ASSUME DriftInv, [DriftNext]_driftVars
               PROVE  DriftInv' /\ [Deed]_driftVars
    OBVIOUS
  <2>1. CASE DriftClock
    BY <2>1, DriftKeeps, Zenon DEF ByteLeaves
  <2>2. CASE UNCHANGED driftVars
    <3>1. UNCHANGED linkVars /\ bits' = bits
      BY <2>2 DEF driftVars
    <3>2. InStep' <=> InStep
      BY <3>1 DEF InStep, Offset, TxBit, Drift, RxBit, Rx!MIDDLE, Rx!SAMPLES
    <3>3. Inv(bits) => Inv(bits)'
      <4> SUFFICES ASSUME Inv(bits) PROVE Inv(bits)'
        OBVIOUS
      <4>1. PICK lag \in Int : lag = bits * Drift /\ LagFits(lag) /\ LinkInv(lag)
        BY DEF Inv
      <4>2. LinkInv(lag)' /\ LagFits(lag)'
        BY <3>1, <4>1, LinkStutters DEF LagFits, Drift, RxBit, TxBit, T, R, Rx!SAMPLES
      <4>3. QED
        BY <3>1, <4>1, <4>2 DEF Inv, Drift, RxBit, TxBit, Rx!SAMPLES
    <3>4. QED
      BY <2>2, <3>1, <3>2, <3>3, Zenon DEF DriftInv
  <2>3. QED
    BY <2>1, <2>2 DEF DriftNext, Horizon
<1>2. QED
  BY <1>1, DriftStarts, PTL DEF DriftSpec, InStepDelivers

(***************************************************************************)
(* The periods of the tests: the looks are in step for the first 260 bits  *)
(* after the reset, 26 bytes sent back to back, and never again.           *)
(***************************************************************************)
THEOREM DriftOfTheTests ==
    ASSUME TX_PERIOD = 4167, RX_PERIOD = 260, bits \in Nat
    PROVE  InStep <=> bits < 260
<1>1. TxBit = 4168 /\ Drift = 8
  BY DEF TxBit, RxBit, Drift, Rx!SAMPLES
<1>2. Offset(bits) = 2088 + bits * 8 /\ Offset(bits + 1) = 2088 + (bits + 1) * 8
  BY <1>1 DEF Offset, Rx!MIDDLE
<1>3. QED
  BY <1>1, <1>2 DEF InStep
-----------------------------------------------------------------------------
(***************************************************************************)
(* The same facts as formulas, for a system that the link is a part of.    *)
(***************************************************************************)
LEMMA LinkTimes ==
    ClocksOK => /\ PhaseTx \in 0 .. T /\ (enable_tx <=> PhaseTx = T)
                /\ Elapsed \in Int /\ Elapsed <= 8 * R /\ (Look <=> Elapsed = 8 * R)
  BY TxTime, RxTime

LEMMA LinkTimePasses ==
    ClocksOK /\ TxClk!DivTick /\ RxClk!DivTick /\ Rx!Count(enable_rx) =>
        /\ PhaseTx' = IF enable_tx THEN PhaseTx + 1 - T ELSE PhaseTx + 1
        /\ Elapsed' = IF Look THEN Elapsed + 1 - 16 * R ELSE Elapsed + 1
  BY TimePasses

LEMMA LinkApart == \A lag : LagFits(lag) /\ LinkInv(lag) => ~(enable_tx /\ Look)
  BY LagBounds, Zenon DEF LinkInv

LEMMA LinkMoves ==
    \A lag, next, d : \A ld, rd \in BOOLEAN :
        /\ LagFits(lag) /\ LinkInv(lag) /\ next = NextLag(lag)
        /\ Clock(ld, d, rd) /\ (ld => d \in Byte)
        => LinkInv(next)' /\ (Arrives => ByteLeaves)
  BY ClockKeeps, Zenon

LEMMA LinkRests == \A lag : LinkInv(lag) /\ UNCHANGED linkVars => LinkInv(lag)'
  BY LinkStutters, Zenon
=============================================================================
