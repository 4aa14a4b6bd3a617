---------------------------- MODULE TxUnitProofs ----------------------------
(***************************************************************************)
(* For every width, every set of bytes, and resets at any time: the        *)
(* transmitter is type correct, rests its line at 1, and implements        *)
(* FrameSender.                                                            *)
(***************************************************************************)
EXTENDS TxUnit, TLAPS

LEMMA Width == DATA_WIDTH \in Nat /\ DATA_WIDTH >= 1
  BY WidthAssumption

\* The registers hold bytes whenever their flags say so.
TxInv == /\ TxTypeOK
         /\ ~buf_empty => buf \in Byte
         /\ ~reg_empty => reg \in Byte
         /\ IdleIsHigh

(***************************************************************************)
(* What is left of a frame, bit by bit: its head is the bit idx selects,   *)
(* its tail is what is left after that bit.                                *)
(***************************************************************************)
LEMMA FrameBits ==
    ASSUME NEW b \in Byte, NEW k \in 0 .. DATA_WIDTH + 1
    PROVE  /\ Frame(b)[k + 1] \in Bit
           /\ k = 0 => Frame(b)[k + 1] = 0
           /\ k \in 1 .. DATA_WIDTH => Frame(b)[k + 1] = b[k - 1]
           /\ k = DATA_WIDTH + 1 => Frame(b)[k + 1] = 1
  BY Width DEF Frame, Byte, Bits, Bit

LEMMA RestIsSeq ==
    ASSUME NEW b \in Byte, NEW k \in 0 .. DATA_WIDTH + 2
    PROVE  /\ Rest(b, k) \in Seq(Bit)
           /\ Len(Rest(b, k)) = DATA_WIDTH + 2 - k
           /\ \A i \in 1 .. DATA_WIDTH + 2 - k : Rest(b, k)[i] = Frame(b)[i + k]
<1>1. DATA_WIDTH + 2 - k \in Nat
  BY Width
<1>2. \A i \in 1 .. DATA_WIDTH + 2 - k : Frame(b)[i + k] \in Bit
  <2>1. ASSUME NEW i \in 1 .. DATA_WIDTH + 2 - k
        PROVE  Frame(b)[i + k] \in Bit
    <3>1. PICK j \in 0 .. DATA_WIDTH + 1 : j + 1 = i + k
      BY Width
    <3>2. QED
      BY <3>1, FrameBits
  <2>2. QED
    BY <2>1
<1>3. QED
  BY <1>1, <1>2 DEF Rest

LEMMA RestShifts ==
    ASSUME NEW b \in Byte, NEW k \in 0 .. DATA_WIDTH + 1
    PROVE  /\ Rest(b, k) # <<>>
           /\ Head(Rest(b, k)) = Frame(b)[k + 1]
           /\ Tail(Rest(b, k)) = Rest(b, k + 1)
<1>1. /\ Rest(b, k) \in Seq(Bit) /\ Len(Rest(b, k)) = DATA_WIDTH + 2 - k
      /\ Rest(b, k + 1) \in Seq(Bit) /\ Len(Rest(b, k + 1)) = DATA_WIDTH + 1 - k
  <2>1. k \in 0 .. DATA_WIDTH + 2 /\ k + 1 \in 0 .. DATA_WIDTH + 2
    BY Width
  <2>2. DATA_WIDTH + 2 - (k + 1) = DATA_WIDTH + 1 - k
    BY Width
  <2>3. QED
    BY <2>1, <2>2, RestIsSeq
<1>2. Rest(b, k) # <<>>
  BY <1>1, Width
<1>3. Head(Rest(b, k)) = Frame(b)[k + 1]
  <2>1. k \in 0 .. DATA_WIDTH + 2 /\ 1 \in 1 .. DATA_WIDTH + 2 - k /\ 1 + k = k + 1
    BY Width
  <2>2. Rest(b, k)[1] = Frame(b)[1 + k]
    BY <2>1, RestIsSeq
  <2>3. Head(Rest(b, k)) = Rest(b, k)[1]
    BY <1>1, <1>2
  <2>4. QED
    BY <2>1, <2>2, <2>3
<1>4. \A i \in 1 .. DATA_WIDTH + 1 - k : Tail(Rest(b, k))[i] = Rest(b, k + 1)[i]
  BY <1>1, <1>2, RestIsSeq, Width
<1>5. Tail(Rest(b, k)) \in Seq(Bit) /\ Len(Tail(Rest(b, k))) = DATA_WIDTH + 1 - k
  BY <1>1, <1>2, Width
<1>6. QED
  BY <1>1, <1>2, <1>3, <1>4, <1>5

LEMMA RestEnds == ASSUME NEW b \in Byte
                  PROVE  Rest(b, DATA_WIDTH + 2) = <<>>
<1>1. DATA_WIDTH + 2 \in 0 .. DATA_WIDTH + 2 /\ DATA_WIDTH + 2 - (DATA_WIDTH + 2) = 0
  BY Width
<1>2. Rest(b, DATA_WIDTH + 2) \in Seq(Bit) /\ Len(Rest(b, DATA_WIDTH + 2)) = 0
  BY <1>1, RestIsSeq
<1>3. QED
  BY <1>2

-----------------------------------------------------------------------------
\* The second half of update_reg: nothing, or one bit of the frame of reg.
Sends == /\ ~reg_empty
         /\ reg' = reg
         /\ txd' = Frame(reg)[idx + 1]
         /\ idx' = IF idx = DATA_WIDTH + 1 THEN 0 ELSE idx + 1
         /\ idx = DATA_WIDTH + 1 => reg_empty' = TRUE
         /\ idx # DATA_WIDTH + 1 => reg_empty' = FALSE

Holds == UNCHANGED <<reg, idx, reg_empty, txd>>

LEMMA ShiftCases ==
    ASSUME TxInv, NEW en \in BOOLEAN, Shift(en)
    PROVE  Sends \/ Holds
<1>1. CASE ~(en /\ ~reg_empty)
  BY <1>1, Zenon DEF Shift, Holds
<1>2. CASE en /\ ~reg_empty
  <2>1. (ShiftStart \/ ShiftData \/ ShiftStop) /\ reg' = reg
    BY <1>2, Zenon DEF Shift
  <2>2. /\ ~reg_empty /\ reg_empty = FALSE /\ reg \in Byte
        /\ idx \in 0 .. DATA_WIDTH + 1
    BY <1>2, Zenon DEF TxInv, TxTypeOK
  <2>3. CASE ShiftStart
    <3>1. idx = 0 /\ txd' = 0 /\ idx' = idx + 1
      BY <2>3, Zenon DEF ShiftStart
    <3>2. reg_empty' = FALSE
      BY <2>2, <2>3, Zenon DEF ShiftStart
    <3>3. idx # DATA_WIDTH + 1 /\ txd' = Frame(reg)[idx + 1]
      BY <2>2, <3>1, FrameBits, Width
    <3>4. QED
      BY <2>1, <2>2, <3>1, <3>2, <3>3, Zenon DEF Sends
  <2>4. CASE ShiftData
    <3>1. idx \in 1 .. DATA_WIDTH /\ txd' = reg[idx - 1] /\ idx' = idx + 1
      BY <2>4, Zenon DEF ShiftData
    <3>2. reg_empty' = FALSE
      BY <2>2, <2>4, Zenon DEF ShiftData
    <3>3. idx # DATA_WIDTH + 1 /\ txd' = Frame(reg)[idx + 1]
      BY <2>2, <3>1, FrameBits, Width
    <3>4. QED
      BY <2>1, <2>2, <3>1, <3>2, <3>3, Zenon DEF Sends
  <2>5. CASE ShiftStop
    <3>1. idx = DATA_WIDTH + 1 /\ txd' = 1 /\ idx' = 0
      BY <2>5, Zenon DEF ShiftStop
    <3>2. reg_empty' = TRUE
      BY <2>5, Zenon DEF ShiftStop
    <3>3. txd' = Frame(reg)[idx + 1]
      BY <2>2, <3>1, FrameBits
    <3>4. QED
      BY <2>1, <2>2, <3>1, <3>2, <3>3, Zenon DEF Sends
  <2>6. QED
    BY <2>1, <2>3, <2>4, <2>5, Zenon
<1>3. QED
  BY <1>1, <1>2, Zenon

\* The half of the invariant about reg, idx and the line.
LineInv == /\ reg \in Byte \union {Undriven} /\ idx \in 0 .. DATA_WIDTH + 1
           /\ reg_empty \in BOOLEAN /\ txd \in Bit
           /\ ~reg_empty => reg \in Byte
           /\ reg_empty => txd = 1
BufInv == /\ buf \in Byte \union {Undriven} /\ buf_empty \in BOOLEAN
          /\ ~buf_empty => buf \in Byte

LEMMA InvParts == TxInv <=> LineInv /\ BufInv
  BY Zenon DEF TxInv, TxTypeOK, IdleIsHigh, LineInv, BufInv

LEMMA ShiftLine ==
    ASSUME TxInv, Sends \/ Holds
    PROVE  LineInv'
<1>0. LineInv
  BY InvParts
<1>1. CASE Holds
  BY <1>0, <1>1, Zenon DEF LineInv, Holds
<1>2. CASE Sends
  <2>1. reg \in Byte /\ reg' = reg
    BY <1>0, <1>2, Zenon DEF LineInv, Sends
  <2>2. /\ idx \in 0 .. DATA_WIDTH + 1
        /\ txd' = Frame(reg)[idx + 1]
        /\ idx' = IF idx = DATA_WIDTH + 1 THEN 0 ELSE idx + 1
    BY <1>0, <1>2, Zenon DEF LineInv, Sends
  <2>3. /\ idx' \in 0 .. DATA_WIDTH + 1 /\ txd' \in Bit
        /\ idx = DATA_WIDTH + 1 => txd' = 1
    BY <2>1, <2>2, FrameBits, Width
  <2>4. CASE idx = DATA_WIDTH + 1
    BY <1>2, <2>1, <2>3, <2>4, Zenon DEF LineInv, Sends
  <2>5. CASE idx # DATA_WIDTH + 1
    BY <1>2, <2>1, <2>3, <2>5, Zenon DEF LineInv, Sends
  <2>6. QED
    BY <2>4, <2>5, Zenon
<1>3. QED
  BY <1>1, <1>2, Zenon

LEMMA TickInv ==
    ASSUME TxInv, NEW ld \in BOOLEAN, NEW en \in BOOLEAN, NEW d \in Payloads, TxTick(ld, d, en)
    PROVE  TxInv'
<1>0. LineInv /\ BufInv
  BY InvParts
<1>1. CASE Load(d) /\ Shift(en)
  <2>1. d \in Byte
    BY TxAssumption
  <2>2. BufInv'
    BY <1>1, <2>1, Zenon DEF Load, BufInv
  <2>3. QED
    BY <1>1, <2>2, ShiftCases, ShiftLine, InvParts DEF TxInv, TxTypeOK, LineInv, BufInv, IdleIsHigh
<1>2. CASE Transfer
  <2>1. buf \in Byte
    BY <1>0, <1>2, Zenon DEF Transfer, BufInv
  <2>2. BufInv' /\ LineInv'
    BY <1>0, <1>2, <2>1, Zenon DEF Transfer, BufInv, LineInv
  <2>3. QED
    BY <2>2, Zenon DEF TxInv, TxTypeOK, LineInv, BufInv, IdleIsHigh
<1>3. CASE UNCHANGED <<buf, buf_empty>> /\ Shift(en)
  <2>1. BufInv'
    BY <1>0, <1>3, Zenon DEF BufInv
  <2>2. LineInv'
    BY <1>3, ShiftCases, ShiftLine
  <2>3. QED
    BY <2>1, <2>2, Zenon DEF TxInv, TxTypeOK, LineInv, BufInv, IdleIsHigh
<1>4. QED
  BY <1>1, <1>2, <1>3, Zenon DEF TxTick

LEMMA ResetInv == ASSUME TxInv, TxReset
                  PROVE  TxInv'
<1>1. 1 \in Bit
  BY DEF Bit
<1>2. QED
  BY <1>1, Zenon DEF TxInv, TxTypeOK, IdleIsHigh, TxReset

LEMMA TxInvInductive == (TxInit => TxInv) /\ (TxInv /\ [Next]_txVars => TxInv')
<1>1. TxInit => TxInv
  <2>1. 1 \in Bit /\ 0 \in 0 .. DATA_WIDTH + 1
    BY Width DEF Bit
  <2>2. QED
    BY <2>1, Zenon DEF TxInit, TxInv, TxTypeOK, IdleIsHigh
<1>2. TxInv /\ UNCHANGED txVars => TxInv'
  <2> SUFFICES ASSUME TxInv, UNCHANGED txVars
               PROVE  TxInv'
    OBVIOUS
  <2>1. /\ UNCHANGED <<buf, buf_empty>>
        /\ Holds
    BY Zenon DEF txVars, Holds
  <2>2. LineInv'
    BY <2>1, ShiftLine
  <2>3. BufInv'
    BY <2>1, InvParts, Zenon DEF BufInv
  <2>4. QED
    BY <2>2, <2>3, Zenon DEF TxInv, TxTypeOK, LineInv, BufInv, IdleIsHigh
<1>3. TxInv /\ Tick => TxInv'
  BY TickInv, Zenon DEF Tick
<1>4. QED
  BY <1>1, <1>2, <1>3, ResetInv, Zenon DEF Next

(***************************************************************************)
(* Type correctness: idx never leaves the frame, whatever the order of     *)
(* loads, pulses and resets.                                               *)
(***************************************************************************)
THEOREM TxTypeCorrect == Spec => []TxTypeOK
<1>1. TxInv => TxTypeOK
  BY DEF TxInv
<1>2. QED
  BY TxInvInductive, <1>1, PTL DEF Spec

(***************************************************************************)
(* The line rests at 1 whenever the shift register is free, also after a   *)
(* reset in the middle of a frame.                                         *)
(***************************************************************************)
THEOREM LineRestsHigh == Spec => []IdleIsHigh
<1>1. TxInv => IdleIsHigh
  BY DEF TxInv
<1>2. QED
  BY TxInvInductive, <1>1, PTL DEF Spec

-----------------------------------------------------------------------------
(***************************************************************************)
(* The refinement.  The abstract variables, by their names in FrameSender. *)
(***************************************************************************)
Mail  == IF buf_empty THEN Undriven ELSE buf
Queue == IF reg_empty THEN <<>> ELSE Rest(reg, idx)
Skip  == IF reg_empty THEN idx ELSE 0

MapsSend == Queue # <<>> /\ txd' = Head(Queue) /\ Queue' = Tail(Queue) /\ Skip' = Skip
MapsHold == Queue' = Queue /\ txd' = txd /\ Skip' = Skip

LEMMA SendMaps ==
    ASSUME TxInv, Sends
    PROVE  MapsSend
<1>1. reg \in Byte /\ ~reg_empty /\ idx \in 0 .. DATA_WIDTH + 1
  BY Zenon DEF TxInv, TxTypeOK, Sends
<1>2. /\ reg' = reg /\ txd' = Frame(reg)[idx + 1]
      /\ idx' = IF idx = DATA_WIDTH + 1 THEN 0 ELSE idx + 1
      /\ Queue = Rest(reg, idx) /\ Skip = 0
  BY <1>1, Zenon DEF Sends, Queue, Skip
<1>3. Queue # <<>> /\ Head(Queue) = Frame(reg)[idx + 1] /\ Tail(Queue) = Rest(reg, idx + 1)
  BY <1>1, <1>2, RestShifts
<1>4. CASE idx = DATA_WIDTH + 1
  <2>1. reg_empty' = TRUE /\ idx' = 0
    BY <1>2, <1>4, Zenon DEF Sends
  <2>2. Queue' = <<>> /\ Skip' = 0
    BY <2>1, Zenon DEF Queue, Skip
  <2>3. idx + 1 = DATA_WIDTH + 2
    BY <1>4, Width
  <2>4. Rest(reg, idx + 1) = <<>>
    BY <1>1, <2>3, RestEnds
  <2>5. QED
    BY <1>2, <1>3, <2>2, <2>4, Zenon DEF MapsSend
<1>5. CASE idx # DATA_WIDTH + 1
  <2>1. reg_empty' = FALSE /\ idx' = idx + 1
    BY <1>2, <1>5, Zenon DEF Sends
  <2>2. Queue' = Rest(reg', idx') /\ Skip' = 0
    BY <2>1, Zenon DEF Queue, Skip
  <2>3. Queue' = Rest(reg, idx + 1)
    BY <1>2, <2>1, <2>2
  <2>4. QED
    BY <1>2, <1>3, <2>2, <2>3, Zenon DEF MapsSend
<1>6. QED
  BY <1>4, <1>5, Zenon

LEMMA ShiftMaps ==
    ASSUME TxInv, NEW en \in BOOLEAN, Shift(en)
    PROVE  MapsSend \/ MapsHold
<1>1. CASE Holds
  <2>1. reg' = reg /\ idx' = idx /\ reg_empty' = reg_empty /\ txd' = txd
    BY <1>1, Zenon DEF Holds
  <2>2. QED
    BY <2>1 DEF MapsHold, Queue, Skip
<1>2. CASE Sends
  BY <1>2, SendMaps
<1>3. QED
  BY <1>1, <1>2, ShiftCases

LEMMA TransferMaps ==
    ASSUME TxInv, Transfer
    PROVE  Sender!Open
<1>1. /\ reg_empty /\ ~buf_empty /\ buf \in Byte
      /\ reg' = buf /\ reg_empty' = FALSE /\ buf_empty' = TRUE
      /\ idx' = idx /\ txd' = txd
  BY Zenon DEF TxInv, Transfer
<1>2. Mail = buf /\ Mail' = Undriven /\ Mail # Undriven
  BY <1>1, TxAssumption DEF Mail
<1>3. Queue = <<>> /\ Skip = idx /\ Skip' = 0
  BY <1>1, Zenon DEF Queue, Skip
<1>4. Queue' = Rest(reg', idx')
  BY <1>1, Zenon DEF Queue
<1>5. Queue' = Rest(Mail, Skip)
  BY <1>1, <1>2, <1>3, <1>4
<1>6. Queue' = Sender!Rest(Mail, Skip)
  BY <1>5 DEF Sender!Rest, Sender!Frame, Rest, Frame
<1>7. QED
  BY <1>1, <1>2, <1>3, <1>6, Zenon DEF Sender!Open, Mail, Queue, Skip

LEMMA ResetMaps ==
    ASSUME TxInv, TxReset
    PROVE  Sender!Clear
<1>1. /\ txd' = 1 /\ reg_empty' = TRUE /\ buf_empty' = TRUE /\ idx' = idx
      /\ idx \in 0 .. DATA_WIDTH + 1 /\ reg_empty \in BOOLEAN
      /\ ~reg_empty => reg \in Byte
  BY Zenon DEF TxInv, TxTypeOK, TxReset
<1>2. Mail' = Undriven /\ Queue' = <<>> /\ Skip' = idx
  BY <1>1, Zenon DEF Mail, Queue, Skip
<1>3. idx = IF Queue = <<>> THEN Skip ELSE DATA_WIDTH + 2 - Len(Queue)
  <2>1. CASE reg_empty
    BY <2>1, Zenon DEF Queue, Skip
  <2>2. CASE ~reg_empty
    <3>1. Queue = Rest(reg, idx) /\ reg \in Byte
      BY <1>1, <2>2, Zenon DEF Queue
    <3>2. idx \in 0 .. DATA_WIDTH + 2
      BY <1>1, Width
    <3>3. Queue # <<>> /\ Len(Queue) = DATA_WIDTH + 2 - idx
      BY <1>1, <3>1, <3>2, RestShifts, RestIsSeq
    <3>4. QED
      BY <1>1, <3>3, Width
  <2>3. QED
    BY <2>1, <2>2, Zenon
<1>4. QED
  BY <1>1, <1>2, <1>3, Zenon DEF Sender!Clear, Mail, Queue, Skip

LEMMA TickMaps ==
    ASSUME TxInv, NEW ld \in BOOLEAN, NEW en \in BOOLEAN, NEW d \in Payloads, TxTick(ld, d, en)
    PROVE  Sender!Next
<1>1. ASSUME Shift(en)
      PROVE  Sender!Send \/ Sender!Hold
  <2>1. MapsSend => Sender!Send
    BY Zenon DEF MapsSend, Sender!Send, Queue, Skip
  <2>2. MapsHold => Sender!Hold
    BY Zenon DEF MapsHold, Sender!Hold, Queue, Skip
  <2>3. QED
    BY <1>1, <2>1, <2>2, ShiftMaps
<1>2. CASE Load(d) /\ Shift(en)
  <2>1. d \in Sender!Byte
    BY TxAssumption DEF Byte, Bits, Bit, Sender!Byte, Sender!Bits, Sender!Bit
  <2>2. Mail' = d
    BY <1>2, Zenon DEF Load, Mail
  <2>3. Sender!Post(d)
    BY <2>2, Zenon DEF Sender!Post, Mail
  <2>4. QED
    BY <1>1, <1>2, <2>1, <2>3, Zenon DEF Sender!Next
<1>3. CASE Transfer
  BY <1>3, TransferMaps, Zenon DEF Sender!Next
<1>4. CASE UNCHANGED <<buf, buf_empty>> /\ Shift(en)
  <2>1. Mail' = Mail
    BY <1>4 DEF Mail
  <2>2. Sender!Keep
    BY <2>1, Zenon DEF Sender!Keep, Mail
  <2>3. QED
    BY <1>1, <1>4, <2>2, Zenon DEF Sender!Next
<1>5. QED
  BY <1>2, <1>3, <1>4, Zenon DEF TxTick

(***************************************************************************)
(* The transmitter implements FrameSender: for every width, whatever loads *)
(* and pulses do, the line shows the bits of whole frames of stored bytes, *)
(* in order, but for the frame a reset beheads.                            *)
(***************************************************************************)
THEOREM TxSendsFrames == Spec => SendsFrames
<1>1. TxInit => Sender!Init
  BY Zenon DEF TxInit, Sender!Init
<1>2. TxInv /\ [Next]_txVars => [Sender!Next]_<<Mail, Queue, txd, Skip>>
  <2> SUFFICES ASSUME TxInv, [Next]_txVars
               PROVE  [Sender!Next]_<<Mail, Queue, txd, Skip>>
    OBVIOUS
  <2>1. CASE Tick
    BY <2>1, TickMaps, Zenon DEF Tick
  <2>2. CASE TxReset
    BY <2>2, ResetMaps, Zenon DEF Sender!Next
  <2>3. CASE UNCHANGED txVars
    BY <2>3 DEF txVars, Mail, Queue, Skip
  <2>4. QED
    BY <2>1, <2>2, <2>3, Zenon DEF Next
<1>3. QED
  BY <1>1, <1>2, TxInvInductive, PTL DEF Spec, SendsFrames, Sender!Spec, Mail, Queue, Skip
=============================================================================
