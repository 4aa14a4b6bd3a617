--------------------------- MODULE MiniUartProofs ---------------------------
(***************************************************************************)
(* The looped back UART of test_mini_uart.cpp and its bench, for every     *)
(* width, every pair of periods and every message.                         *)
(***************************************************************************)
EXTENDS MiniUart, Integers, SequenceTheorems, FiniteSetTheorems, TLAPS

TxDiv == INSTANCE ClkDividerProofs
            WITH Period <- TX_PERIOD, cnt <- cnt_tx, enable <- en_tx
RxDiv == INSTANCE ClkDividerProofs
            WITH Period <- RX_PERIOD, cnt <- cnt_rx, enable <- en_rx

\* What ClkDividerProofs shows of a divider, for the two of this system.
LEMMA TxDivider == TxClk!Spec => TxClk!PulsesEveryPeriod
<1>1. TxClk!UINT16 = TxDiv!UINT16
  BY DEF TxClk!UINT16, TxDiv!UINT16
<1>2. TxClk!PeriodFits => TxDiv!PeriodFits
  BY <1>1, Zenon DEF TxClk!PeriodFits, TxDiv!PeriodFits
<1>3. TxClk!DivInit => TxDiv!DivInit
  BY Zenon DEF TxClk!DivInit, TxDiv!DivInit
<1>4. [TxClk!Next]_(TxClk!divVars) => [TxDiv!Next]_(TxDiv!divVars)
  <2>1. TxClk!Bump(cnt_tx) = TxDiv!Bump(cnt_tx)
    BY <1>1, Zenon DEF TxClk!Bump, TxDiv!Bump
  <2>2. TxClk!DivTick => TxDiv!DivTick
    BY <2>1, Zenon DEF TxClk!DivTick, TxDiv!DivTick
  <2>3. TxClk!DivReset => TxDiv!DivReset
    BY Zenon DEF TxClk!DivReset, TxDiv!DivReset
  <2>4. QED
    BY <2>2, <2>3, Zenon DEF TxClk!Next, TxDiv!Next, TxClk!divVars, TxDiv!divVars
<1>5. TxDiv!Spec => TxDiv!PulsesEveryPeriod
  BY <1>2, UartPeriods, TxDiv!DivImplementsBaud, Zenon
<1>6. TxDiv!B!Init => TxClk!B!Init
  BY Zenon DEF TxDiv!B!Init, TxClk!B!Init
<1>7. [TxDiv!B!Next]_<<cnt_tx, en_tx>> => [TxClk!B!Next]_<<cnt_tx, en_tx>>
  BY Zenon DEF TxDiv!B!Next, TxDiv!B!Restart, TxDiv!B!Count, TxDiv!B!Pulse,
               TxClk!B!Next, TxClk!B!Restart, TxClk!B!Count, TxClk!B!Pulse
<1>8. QED
  BY <1>3, <1>4, <1>5, <1>6, <1>7, PTL
  DEF TxClk!Spec, TxDiv!Spec, TxClk!PulsesEveryPeriod, TxDiv!PulsesEveryPeriod,
      TxClk!B!Spec, TxDiv!B!Spec

LEMMA RxDivider == RxClk!Spec => RxClk!PulsesEveryPeriod
<1>1. RxClk!UINT16 = RxDiv!UINT16
  BY DEF RxClk!UINT16, RxDiv!UINT16
<1>2. RxClk!PeriodFits => RxDiv!PeriodFits
  BY <1>1, Zenon DEF RxClk!PeriodFits, RxDiv!PeriodFits
<1>3. RxClk!DivInit => RxDiv!DivInit
  BY Zenon DEF RxClk!DivInit, RxDiv!DivInit
<1>4. [RxClk!Next]_(RxClk!divVars) => [RxDiv!Next]_(RxDiv!divVars)
  <2>1. RxClk!Bump(cnt_rx) = RxDiv!Bump(cnt_rx)
    BY <1>1, Zenon DEF RxClk!Bump, RxDiv!Bump
  <2>2. RxClk!DivTick => RxDiv!DivTick
    BY <2>1, Zenon DEF RxClk!DivTick, RxDiv!DivTick
  <2>3. RxClk!DivReset => RxDiv!DivReset
    BY Zenon DEF RxClk!DivReset, RxDiv!DivReset
  <2>4. QED
    BY <2>2, <2>3, Zenon DEF RxClk!Next, RxDiv!Next, RxClk!divVars, RxDiv!divVars
<1>5. RxDiv!Spec => RxDiv!PulsesEveryPeriod
  BY <1>2, UartPeriods, RxDiv!DivImplementsBaud, Zenon
<1>6. RxDiv!B!Init => RxClk!B!Init
  BY Zenon DEF RxDiv!B!Init, RxClk!B!Init
<1>7. [RxDiv!B!Next]_<<cnt_rx, en_rx>> => [RxClk!B!Next]_<<cnt_rx, en_rx>>
  BY Zenon DEF RxDiv!B!Next, RxDiv!B!Restart, RxDiv!B!Count, RxDiv!B!Pulse,
               RxClk!B!Next, RxClk!B!Restart, RxClk!B!Count, RxClk!B!Pulse
<1>8. QED
  BY <1>3, <1>4, <1>5, <1>6, <1>7, PTL
  DEF RxClk!Spec, RxDiv!Spec, RxClk!PulsesEveryPeriod, RxDiv!PulsesEveryPeriod,
      RxClk!B!Spec, RxDiv!B!Spec

(***************************************************************************)
(* Both dividers keep their period: whatever the other units and the bench *)
(* do, a step of the system is a tick, a reset or a rest of each divider   *)
(* (Edge; the resets come with the level resetTest leaves).                *)
(***************************************************************************)
THEOREM DividersPulseOnTime == Spec => PulsesOnTime
<1>1. Init => TxClk!DivInit /\ RxClk!DivInit
  BY Zenon DEF Init, UartInit
<1>2. [Next]_vars => [TxClk!Next]_(TxClk!divVars) /\ [RxClk!Next]_(RxClk!divVars)
  <2>1. MoveUnits => TxClk!Next /\ RxClk!Next
    BY Zenon DEF MoveUnits, Edge, TxClk!Next, RxClk!Next
  <2>2. UNCHANGED unitVars => UNCHANGED TxClk!divVars /\ UNCHANGED RxClk!divVars
    BY Zenon DEF unitVars, TxClk!divVars, RxClk!divVars
  <2>3. QED
    BY <2>1, <2>2, Zenon DEF Next, RunThreads, Interrupts, vars
<1>3. QED
  BY <1>1, <1>2, TxDivider, RxDivider, PTL
  DEF Spec, TxClk!Spec, RxClk!Spec, PulsesOnTime

-----------------------------------------------------------------------------
Level(w, t, sig) == Drives[w[t]][sig]

LEMMA DrivenLevels ==
    ASSUME NEW w \in [Threads -> DOMAIN Drives], NEW t \in Threads, NEW sig \in {"ce", "wr", "rd"}
    PROVE  /\ Level(w, t, sig) \in {"0", "1", "Z"}
           /\ Level(w, t, "wr") = "1" <=> w[t] = "w_strobe"
           /\ w[t] = "w_strobe" => Level(w, t, "ce") = "1"
           /\ Level(w, t, "rd") = "1" <=> w[t] \in {"r_select", "r_sample"}
           /\ w[t] \in {"r_select", "r_sample"} => Level(w, t, "ce") = "1"
           /\ w[t] = "w_end" => Level(w, t, "wr") = "0"
<1>1. w[t] \in DOMAIN Drives
  OBVIOUS
<1>2. QED
  BY <1>1, SMT DEF Level, Drives

LEMMA ResolvedLevels ==
    ASSUME NEW w \in [Threads -> DOMAIN Drives], NEW sig \in {"ce", "wr", "rd"}
    PROVE  \/ Resolve(w, sig) = "Z" /\ \A t \in Threads : Level(w, t, sig) = "Z"
           \/ /\ Resolve(w, sig) = "X"
              /\ \E t, u \in Threads : Level(w, t, sig) = "0" /\ Level(w, u, sig) = "1"
           \/ /\ Resolve(w, sig) \in {"0", "1"}
              /\ \E t \in Threads : Level(w, t, sig) = Resolve(w, sig)
              /\ \A t \in Threads : Level(w, t, sig) \in {Resolve(w, sig), "Z"}
<1> DEFINE vs == {Level(w, t, sig) : t \in Threads} \ {"Z"}
<1>1. Resolve(w, sig) = IF vs = {} THEN "Z"
                        ELSE IF Cardinality(vs) = 1 THEN CHOOSE v \in vs : TRUE ELSE "X"
  BY Zenon DEF Resolve, Level
<1>2. vs \subseteq {"0", "1"}
  BY DrivenLevels
<1>3. IsFiniteSet(vs) /\ (Cardinality(vs) = 1 <=> \E v : vs = {v})
  <2>1. IsFiniteSet({"0", "1"})
    <3>1. IsFiniteSet({"0"} \union {"1"})
      BY FS_Singleton, FS_AddElement, Zenon
    <3>2. {"0"} \union {"1"} = {"0", "1"}
      OBVIOUS
    <3>3. QED
      BY <3>1, <3>2, Zenon
  <2>2. IsFiniteSet(vs)
    BY <1>2, <2>1, FS_Subset, Zenon
  <2>3. QED
    BY <2>2, FS_Singleton, Zenon
<1>4. CASE vs = {}
  BY <1>1, <1>4
<1>5. CASE vs = {"0"} \/ vs = {"1"}
  <2>1. PICK v \in {"0", "1"} : vs = {v}
    BY <1>5
  <2>2. Cardinality(vs) = 1 /\ vs # {} /\ (CHOOSE z \in vs : TRUE) = v
    BY <1>3, <2>1
  <2>3. Resolve(w, sig) = v
    BY <1>1, <2>2, Zenon
  <2>4. (\E t \in Threads : Level(w, t, sig) = v) /\ \A t \in Threads : Level(w, t, sig) \in {v, "Z"}
    BY <2>1
  <2>5. QED
    BY <2>1, <2>3, <2>4
<1>6. CASE vs = {"0", "1"}
  <2>1. Cardinality(vs) # 1 /\ vs # {}
    BY <1>3, <1>6
  <2>2. Resolve(w, sig) = "X"
    BY <1>1, <2>1, Zenon
  <2>3. QED
    BY <1>6, <2>2
<1>7. QED
  BY <1>2, <1>4, <1>5, <1>6

\* The bus when it is written to, and after the write.
LEMMA StrobeLevels ==
    ASSUME NEW w \in [Threads -> DOMAIN Drives]
    PROVE  /\ \A t \in Threads : w[t] = "w_strobe" =>
                /\ Resolve(w, "ce") \in {"1", "X"}
                /\ Resolve(w, "wr") \in {"1", "X"}
           /\ (\A t \in Threads : w[t] # "w_strobe") => Resolve(w, "wr") # "1"
           /\ (\A t \in Threads : w[t] # "w_strobe") /\ (\E t \in Threads : w[t] = "w_end")
                => Resolve(w, "wr") = "0"
<1>1. \A t \in Threads : /\ Level(w, t, "wr") \in {"0", "1", "Z"}
                         /\ Level(w, t, "wr") = "1" <=> w[t] = "w_strobe"
                         /\ w[t] = "w_strobe" => Level(w, t, "ce") = "1"
                         /\ w[t] = "w_end" => Level(w, t, "wr") = "0"
  BY DrivenLevels
<1>2. \A t \in Threads : w[t] = "w_strobe" => Resolve(w, "ce") \in {"1", "X"}
  BY <1>1, ResolvedLevels, SMT
<1>3. \A t \in Threads : w[t] = "w_strobe" => Resolve(w, "wr") \in {"1", "X"}
  BY <1>1, ResolvedLevels, SMT
<1>4. (\A t \in Threads : w[t] # "w_strobe") => Resolve(w, "wr") # "1"
  BY <1>1, ResolvedLevels, SMT
<1>5. (\A t \in Threads : w[t] # "w_strobe") /\ (\E t \in Threads : w[t] = "w_end")
                => Resolve(w, "wr") = "0"
  BY <1>1, ResolvedLevels, SMT
<1>6. QED
  BY <1>2, <1>3, <1>4, <1>5, Zenon

LEMMA StrobeData ==
    ASSUME NEW w, NEW c, NEW u \in Threads, w[u] = "w_strobe",
           \A t \in Threads : w[t] = "w_strobe" => t = u
    PROVE  ResolveData(w, c) = c[u]
<1>1. {c[t] : t \in {v \in Threads : w[v] = "w_strobe"}} = {c[u]}
  BY Zenon
<1>2. Cardinality({c[u]}) = 1 /\ (CHOOSE v \in {c[u]} : TRUE) = c[u]
  BY FS_Singleton
<1>3. QED
  BY <1>1, <1>2, Zenon DEF ResolveData
-----------------------------------------------------------------------------
(***************************************************************************)
(* The writers.  The characters are counted: those that have left, the one *)
(* in the shift register, the one in the buffer.                           *)
(***************************************************************************)

\* reg holds a byte whose start bit is not out yet.
Waits == ~reg_empty /\ idx = 0
Queued == Len(departed) + (IF Waits THEN 1 ELSE 0)
Held == Queued + (IF buf_empty THEN 0 ELSE 1)

Writers == {"main", "tx_isr"}
Writes(t) == at[t] \in {"w_select", "w_strobe"}
\* main_thread has not finished its boot write.
Booting == at["main"] \in {"resetTest", "settle", "w_select", "w_strobe"}

\* The waits a thread may be in.
Stations ==
    /\ at \in [Threads -> DOMAIN Drives]
    /\ Booting \/ at["main"] \in {"w_end", "idle"}
    /\ at["tx_isr"] \in {"w_select", "w_strobe", "w_end", "idle"}
    /\ at["rx_isr"] \in {"r_select", "r_sample", "r_end", "idle"}
    /\ timer \in [Threads -> Nat]
    /\ \A t \in Threads : at[t] = "idle" => timer[t] = 0
    /\ char \in [Threads -> Byte \union {Undriven}]

\* The registers and the line hold the message, each character in its turn.
Content ==
    /\ reg_empty \in BOOLEAN /\ buf_empty \in BOOLEAN
    /\ reg_empty => idx = 0
    /\ departed \in Seq(Byte)
    /\ \A i \in 1 .. Len(departed) : departed[i] = MESS[i]
    /\ Waits => reg = MESS[Len(departed) + 1]
    /\ ~buf_empty => buf = MESS[Held]
    /\ cpt_car \in 0 .. SIZEOF_MESS
    /\ Held \in {cpt_car, cpt_car + 1}
    /\ ~buf_empty => Held = cpt_car + 1

\* Until the boot write, and while reset is low, the transmitter is empty.
AtBoot ==
    /\ reset \in BOOLEAN
    /\ Booting => /\ at["tx_isr"] = "idle" /\ cpt_car = 0
                  /\ departed = <<>> /\ reg_empty
                  /\ at["main"] # "w_strobe" => buf_empty
    /\ ~reset => departed = <<>> /\ reg_empty /\ buf_empty

\* The character that a thread is about to write, or writes, is the next one.
Write ==
    /\ load \in BOOLEAN
    /\ load => \E t \in Writers : at[t] = "w_strobe" /\ tx_data = char[t]
    /\ \A t \in Writers : Writes(t) =>
          /\ char[t] = MESS[cpt_car + 1]
          /\ buf_empty => Held = cpt_car
          /\ ~buf_empty => load

\* An interrupt that is about to rise finds the buffer's character gone to reg.
TxIrq ==
    /\ irqTx \in BOOLEAN
    /\ phase # "irq" => irqTx = (buf_empty /\ ~reg_empty)
    /\ phase = "irq" /\ ~irqTx /\ buf_empty /\ ~reg_empty =>
         idx = 0 /\ Held = cpt_car + 1 /\ \A t \in Writers : ~Writes(t)

MsgInv == Stations /\ Content /\ AtBoot /\ Write /\ TxIrq
-----------------------------------------------------------------------------
\* What a change of the bus, or none, does to load, when only u may write.
LEMMA LoadFollows ==
    ASSUME at \in [Threads -> DOMAIN Drives], at' \in [Threads -> DOMAIN Drives],
           load \in BOOLEAN, Propagate, NEW u \in Threads,
           load => at[u] = "w_strobe" /\ tx_data = char[u],
           \A t \in Threads : t # u => at[t] # "w_strobe" /\ at'[t] # "w_strobe",
           at[u] = "w_strobe" => \/ at'[u] = "w_strobe" /\ char'[u] = char[u]
                                 \/ at'[u] = "w_end"
    PROVE  /\ load' \in BOOLEAN
           /\ load' => at'[u] = "w_strobe" /\ tx_data' = char'[u]
           /\ load /\ at'[u] = "w_strobe" => load'
<1> DEFINE ce == Resolve(at', "ce")
           wr == Resolve(at', "wr")
           data == ResolveData(at', char')
           Same == load' = load /\ tx_data' = tx_data
<1>1. \/ ce = "0" \/ wr = "0"
      \/ ce = "1" /\ wr = "1" /\ load' = TRUE /\ tx_data' = data
      \/ Same
  BY Zenon DEF Propagate, Bus, busVars, InterfaceProcess
<1>2. CASE at'[u] = "w_strobe"
  <2>1. ce \in {"1", "X"} /\ wr \in {"1", "X"} /\ data = char'[u]
    <3>1. ce \in {"1", "X"} /\ wr \in {"1", "X"}
      BY <1>2, StrobeLevels
    <3>2. data = char'[u]
      BY <1>2, StrobeData
    <3>3. QED
      BY <3>1, <3>2
  <2>2. CASE load' = TRUE /\ tx_data' = data
    BY <1>2, <2>1, <2>2, Zenon
  <2>3. CASE Same
    <3>1. load => tx_data = char'[u]
      BY <1>2, Zenon
    <3>2. QED
      BY <1>2, <2>3, <3>1, Zenon
  <2>4. QED
    BY <1>1, <2>1, <2>2, <2>3
<1>3. CASE at'[u] # "w_strobe"
  <2>1. wr # "1" /\ (at'[u] = "w_end" => wr = "0")
    <3>1. \A t \in Threads : at'[t] # "w_strobe"
      BY <1>3, Zenon
    <3>2. QED
      BY <3>1, StrobeLevels, Zenon
  <2>2. CASE ~load
    <3>1. load' = FALSE
      BY <2>1, <2>2, Zenon DEF Propagate, Bus, busVars, InterfaceProcess
    <3>2. QED
      BY <1>3, <3>1, Zenon
  <2>3. CASE load
    <3>1. at[u] = "w_strobe" /\ wr = "0"
      BY <1>3, <2>1, <2>3, Zenon
    <3>2. Resolve(at, "wr") # "0"
      BY <3>1, StrobeLevels
    <3>3. Bus(at', char') # Bus(at, char)
      BY <3>1, <3>2 DEF Bus
    <3>4. InterfaceProcess(ce, Resolve(at', "rd"), wr, 0, data, Undriven)
      BY <3>3 DEF Propagate, Bus
    <3>5. load' = FALSE
      BY <3>1, <3>4 DEF InterfaceProcess
    <3>6. QED
      BY <1>3, <3>5, Zenon
  <2>4. QED
    BY <2>2, <2>3, Zenon
<1>4. QED
  BY <1>2, <1>3, Zenon
-----------------------------------------------------------------------------
LEMMA MessIsBytes ==
    /\ SIZEOF_MESS \in Nat /\ Len(MESS) \in Nat /\ SIZEOF_MESS < Len(MESS)
    /\ \A i \in 1 .. SIZEOF_MESS + 1 : MESS[i] \in Byte
<1>1. MESS \in Seq(Byte) /\ SIZEOF_MESS \in Nat /\ SIZEOF_MESS < Len(MESS)
  BY BenchAssumption, UartPayloads
<1>2. QED
  BY <1>1

\* The shift register moves what it holds to the line, and nothing else.
LEMMA ShiftMoves ==
    ASSUME Content, Tx!Shift(en_tx),
           departed' = IF en_tx /\ ~reg_empty /\ idx = 0 THEN Append(departed, reg)
                                                         ELSE departed
    PROVE  /\ reg_empty' \in BOOLEAN /\ (reg_empty' => idx' = 0)
           /\ reg_empty => reg_empty' /\ departed' = departed
           /\ departed' \in Seq(Byte)
           /\ \A i \in 1 .. Len(departed') : departed'[i] = MESS[i]
           /\ Waits' => reg' = MESS[Len(departed') + 1]
           /\ Queued' = Queued
<1> DEFINE n == Len(departed)
<1>0. /\ n \in Nat /\ departed \in Seq(Byte)
      /\ \A i \in 1 .. n : departed[i] = MESS[i]
  BY DEF Content
<1>1. CASE en_tx /\ Waits
  <2>1. Tx!ShiftStart /\ reg' = reg
    <3>1. Tx!ShiftData => idx \in 1 .. DATA_WIDTH
      BY Zenon DEF Tx!ShiftData
    <3>2. Tx!ShiftStop => idx = DATA_WIDTH + 1
      BY Zenon DEF Tx!ShiftStop
    <3>3. idx = 0 /\ idx \notin 1 .. DATA_WIDTH /\ idx # DATA_WIDTH + 1
      BY <1>1, WidthAssumption DEF Waits
    <3>4. QED
      BY <1>1, <3>1, <3>2, <3>3, Zenon DEF Waits, Tx!Shift
  <2>2. reg_empty' = FALSE /\ idx' = 1 /\ reg_empty = FALSE /\ idx = 0
    <3>1. reg_empty = FALSE /\ reg_empty' = reg_empty
      BY <1>1, <2>1, Zenon DEF Waits, Content, Tx!ShiftStart
    <3>2. idx = 0 /\ idx' = 1
      BY <2>1 DEF Tx!ShiftStart
    <3>3. QED
      BY <3>1, <3>2, Zenon
  <2>3. reg = MESS[n + 1] /\ n + 1 \in 1 .. SIZEOF_MESS + 1
    <3>1. reg = MESS[n + 1] /\ cpt_car \in 0 .. SIZEOF_MESS /\ Held \in {cpt_car, cpt_car + 1}
      BY <1>1, Zenon DEF Content
    <3>2. Held = n + 1 + 0 \/ Held = n + 1 + 1
      BY <1>1 DEF Held, Queued
    <3>3. QED
      BY <1>0, <3>1, <3>2, MessIsBytes
  <2>4. reg \in Byte
    BY <2>3, MessIsBytes
  <2>5. departed' = Append(departed, reg)
    BY <1>1, Zenon DEF Waits
  <2>6. /\ departed' \in Seq(Byte) /\ Len(departed') = n + 1
        /\ \A i \in 1 .. n + 1 : departed'[i] = MESS[i]
    BY <1>0, <2>3, <2>4, <2>5
  <2>7. ~Waits' /\ Queued = n + 1 /\ Queued' = n + 1
    <3>1. ~Waits'
      BY <2>2 DEF Waits
    <3>2. QED
      BY <1>0, <1>1, <2>6, <3>1 DEF Queued
  <2>8. QED
    BY <2>2, <2>6, <2>7, Zenon
<1>2. CASE ~(en_tx /\ Waits)
  <2>1. departed' = departed
    BY <1>2, Zenon DEF Waits
  <2>2. /\ reg_empty' \in BOOLEAN /\ reg' = reg
        /\ reg_empty' => idx' = 0
        /\ reg_empty => reg_empty'
        /\ Waits' <=> Waits
    <3>1. CASE en_tx /\ ~reg_empty
      <4>0. idx # 0 /\ reg_empty = FALSE
        BY <1>2, <3>1, Zenon DEF Waits, Content
      <4>1. (Tx!ShiftData \/ Tx!ShiftStop) /\ reg' = reg
        BY <3>1, <4>0, Zenon DEF Tx!Shift, Tx!ShiftStart
      <4>2. CASE Tx!ShiftData
        <5>1. reg_empty' = FALSE
          BY <4>0, <4>2, Zenon DEF Tx!ShiftData
        <5>2. idx' # 0
          BY <4>2, WidthAssumption DEF Tx!ShiftData
        <5>3. QED
          BY <4>0, <4>1, <5>1, <5>2, Zenon DEF Waits
      <4>3. CASE Tx!ShiftStop
        BY <4>0, <4>1, <4>3, Zenon DEF Tx!ShiftStop, Waits
      <4>4. QED
        BY <4>1, <4>2, <4>3, Zenon
    <3>2. CASE ~(en_tx /\ ~reg_empty)
      <4>1. reg' = reg /\ idx' = idx /\ reg_empty' = reg_empty
        BY <3>2, Zenon DEF Tx!Shift
      <4>2. QED
        BY <4>1, Zenon DEF Content, Waits
    <3>3. QED
      BY <3>1, <3>2, Zenon
  <2>3. Waits' => reg' = MESS[Len(departed') + 1]
    BY <2>1, <2>2, Zenon DEF Content
  <2>4. Queued' = Queued
    BY <2>1, <2>2, Zenon DEF Queued
  <2>5. QED
    BY <1>0, <2>1, <2>2, <2>3, <2>4, Zenon
<1>3. QED
  BY <1>1, <1>2, Zenon

\* Facts of the invariant in the form the steps use.
LEMMA Counted ==
    ASSUME Content
    PROVE  /\ cpt_car \in Nat /\ cpt_car <= SIZEOF_MESS /\ Queued \in Nat
           /\ buf_empty => Held = Queued
           /\ ~buf_empty => Held = Queued + 1 /\ Queued = cpt_car
           /\ Len(departed) \in Nat
           /\ ~Waits => Queued = Len(departed)
           /\ Waits => Queued = Len(departed) + 1
<1>1. departed \in Seq(Byte) /\ cpt_car \in 0 .. SIZEOF_MESS /\ (~buf_empty => Held = cpt_car + 1)
  BY Zenon DEF Content
<1>2. Len(departed) \in Nat /\ cpt_car \in Nat /\ cpt_car <= SIZEOF_MESS
  BY <1>1, MessIsBytes
<1>3. (~Waits => Queued = Len(departed)) /\ (Waits => Queued = Len(departed) + 1)
  BY <1>2 DEF Queued
<1>4. (buf_empty => Held = Queued) /\ (~buf_empty => Held = Queued + 1)
  BY <1>2, <1>3 DEF Held
<1>5. QED
  BY <1>1, <1>2, <1>3, <1>4

LEMMA MoveKeeps ==
    ASSUME MsgInv, MoveUnits
    PROVE  MsgInv'
<1>0. /\ phase = "edge" /\ phase' = "irq"
      /\ at' = at /\ timer' = timer /\ char' = char /\ cpt_car' = cpt_car
      /\ reset' = reset /\ load' = load /\ tx_data' = tx_data /\ irqTx' = irqTx
      /\ Stations /\ Content /\ AtBoot /\ Write /\ TxIrq
  BY Zenon DEF MsgInv, MoveUnits, benchVars, busVars, irqVars
<1>1. Stations' /\ (Booting' <=> Booting) /\ \A t \in Writers : (Writes(t)' <=> Writes(t))
  BY <1>0, Zenon DEF Stations, Booting, Writes
<1>2. phase # "irq"
  BY <1>0
<1>3. irqTx = (buf_empty /\ ~reg_empty)
  BY <1>0, <1>2, Zenon DEF TxIrq
<1>4. CASE ~reset
  <2>1. departed = <<>> /\ reg_empty = TRUE /\ buf_empty = TRUE
    BY <1>0, <1>4, Zenon DEF AtBoot, Content
  <2>2. /\ reg_empty' = reg_empty /\ buf_empty' = buf_empty
        /\ idx' = idx /\ reg' = reg /\ buf' = buf
    BY <1>4, <2>1, Zenon DEF MoveUnits, Edge, Tx!TxReset
  <2>3. departed' = departed
    BY <1>4, Zenon DEF MoveUnits
  <2>4. (Waits' <=> Waits) /\ Queued' = Queued /\ Held' = Held
    BY <2>2, <2>3, Zenon DEF Waits, Queued, Held
  <2>5. Content' /\ AtBoot' /\ Write'
    BY <1>0, <1>1, <2>2, <2>3, <2>4, Zenon DEF Content, AtBoot, Write
  <2>6. TxIrq'
    BY <1>0, <2>1, <2>2, Zenon DEF TxIrq
  <2>7. QED
    BY <1>1, <2>5, <2>6, Zenon DEF MsgInv
<1>5. CASE reset
  <2>0. /\ Tx!TxTick(load, tx_data, en_tx)
        /\ departed' = IF en_tx /\ ~reg_empty /\ idx = 0 THEN Append(departed, reg)
                                                         ELSE departed
    BY <1>5, Zenon DEF MoveUnits, Edge
  <2>1. CASE load /\ Tx!Load(tx_data) /\ Tx!Shift(en_tx)
    <3>1. PICK t \in Writers : at[t] = "w_strobe" /\ tx_data = char[t]
      BY <1>0, <2>1, Zenon DEF Write
    <3>2. Writes(t)
      BY <3>1 DEF Writes
    <3>3. tx_data = MESS[cpt_car + 1] /\ (buf_empty => Held = cpt_car)
      BY <1>0, <3>1, <3>2, Zenon DEF Write
    <3>4. buf' = tx_data /\ buf_empty' = FALSE
      BY <2>1, Zenon DEF Tx!Load
    <3>5. /\ reg_empty' \in BOOLEAN /\ (reg_empty' => idx' = 0)
          /\ reg_empty => reg_empty' /\ departed' = departed
          /\ departed' \in Seq(Byte)
          /\ \A i \in 1 .. Len(departed') : departed'[i] = MESS[i]
          /\ Waits' => reg' = MESS[Len(departed') + 1]
          /\ Queued' = Queued
      BY <1>0, <2>0, <2>1, ShiftMoves
    <3>6. Held' = cpt_car + 1
      <4>1. Queued = cpt_car
        BY <1>0, <3>3, Counted
      <4>2. Held' = Queued' + 1
        BY <3>4 DEF Held
      <4>3. QED
        BY <3>5, <4>1, <4>2
    <3>7. Content'
      <4>1. Held' \in {cpt_car', cpt_car' + 1} /\ buf' = MESS[Held']
        BY <1>0, <3>3, <3>4, <3>6
      <4>2. cpt_car' \in 0 .. SIZEOF_MESS
        BY <1>0, Zenon DEF Content
      <4>3. QED
        BY <1>0, <3>4, <3>5, <3>6, <4>1, <4>2, Zenon DEF Content
    <3>8. AtBoot'
      <4>1. Booting => at["main"] = "w_strobe"
        <5>1. t = "tx_isr" => ~Booting
          <6>1. at["tx_isr"] = "w_strobe" => at["tx_isr"] # "idle"
            OBVIOUS
          <6>2. QED
            BY <1>0, <3>1, <6>1, Zenon DEF AtBoot
        <5>2. QED
          BY <3>1, <5>1 DEF Writers
      <4>2. reset' = TRUE
        BY <1>0, <1>5, Zenon DEF AtBoot
      <4>3. Booting => departed' = departed /\ reg_empty'
        BY <1>0, <3>5, Zenon DEF AtBoot
      <4>4. QED
        BY <1>0, <1>1, <4>1, <4>2, <4>3, Zenon DEF AtBoot
    <3>9. Write'
      BY <1>0, <1>1, <2>1, <3>4, Zenon DEF Write
    <3>10. TxIrq'
      BY <1>0, <3>4, Zenon DEF TxIrq
    <3>11. QED
      BY <1>1, <3>7, <3>8, <3>9, <3>10, Zenon DEF MsgInv
  <2>2. CASE ~load /\ Tx!Transfer
    <3>1. /\ reg_empty /\ ~buf_empty /\ reg' = buf
          /\ reg_empty' = FALSE /\ buf_empty' = TRUE /\ idx' = idx
      BY <2>2, Zenon DEF Tx!Transfer
    <3>2. departed' = departed /\ idx' = 0
      BY <1>0, <2>0, <3>1, Zenon DEF Content
    <3>3. \A t \in Writers : ~Writes(t)
      BY <1>0, <2>2, <3>1, Zenon DEF Write
    <3>4. ~Booting
      <4>1. Booting => at["main"] = "w_strobe"
        BY <1>0, <3>1, Zenon DEF AtBoot
      <4>2. at["main"] # "w_strobe"
        BY <3>3 DEF Writes, Writers
      <4>3. QED
        BY <4>1, <4>2, Zenon
    <3>5. Waits' /\ ~Waits
      BY <3>1, <3>2, Zenon DEF Waits
    <3>6. /\ Len(departed) \in Nat /\ Queued = Len(departed) /\ Held = Len(departed) + 1
          /\ Queued' = Len(departed) + 1 /\ Held' = Len(departed) + 1
          /\ Held = cpt_car + 1
      <4>1. Len(departed) \in Nat /\ Queued = Len(departed) /\ Held = Queued + 1 /\ Queued = cpt_car
        BY <1>0, <3>1, <3>5, Counted, Zenon
      <4>2. Queued' = Len(departed) + 1
        BY <3>2, <3>5, <4>1 DEF Queued
      <4>3. Held' = Queued'
        BY <3>1, <4>1, <4>2 DEF Held
      <4>4. QED
        BY <4>1, <4>2, <4>3
    <3>7. reg' = MESS[Len(departed') + 1]
      <4>1. buf = MESS[Held]
        BY <1>0, <3>1, Zenon DEF Content
      <4>2. QED
        BY <3>1, <3>2, <3>6, <4>1, Zenon
    <3>8. Content'
      <4>1. Held' \in {cpt_car', cpt_car' + 1}
        BY <1>0, <3>6
      <4>2. QED
        BY <1>0, <3>1, <3>2, <3>7, <4>1, Zenon DEF Content
    <3>9. AtBoot'
      BY <1>0, <1>1, <1>5, <3>4, Zenon DEF AtBoot
    <3>10. Write'
      BY <1>0, <1>1, <3>3, Zenon DEF Write
    <3>11. TxIrq'
      <4>1. Held' = cpt_car' + 1
        BY <1>0, <3>6, Zenon
      <4>2. QED
        BY <1>0, <1>1, <3>2, <3>3, <4>1, Zenon DEF TxIrq
    <3>12. QED
      BY <1>1, <3>8, <3>9, <3>10, <3>11, Zenon DEF MsgInv
  <2>3. CASE ~load /\ UNCHANGED <<buf, buf_empty>> /\ Tx!Shift(en_tx)
    <3>1. buf' = buf /\ buf_empty' = buf_empty
      BY <2>3
    <3>2. /\ reg_empty' \in BOOLEAN /\ (reg_empty' => idx' = 0)
          /\ reg_empty => reg_empty' /\ departed' = departed
          /\ departed' \in Seq(Byte)
          /\ \A i \in 1 .. Len(departed') : departed'[i] = MESS[i]
          /\ Waits' => reg' = MESS[Len(departed') + 1]
          /\ Queued' = Queued
      BY <1>0, <2>0, <2>3, ShiftMoves
    <3>3. Held' = Held
      BY <3>1, <3>2, Zenon DEF Held
    <3>4. Content'
      BY <1>0, <3>1, <3>2, <3>3, Zenon DEF Content
    <3>5. AtBoot'
      BY <1>0, <1>1, <1>5, <3>1, <3>2, Zenon DEF AtBoot
    <3>6. Write'
      BY <1>0, <1>1, <3>1, <3>3, Zenon DEF Write
    <3>7. TxIrq'
      BY <1>0, <1>3, <3>1, <3>2, Zenon DEF TxIrq
    <3>8. QED
      BY <1>1, <3>4, <3>5, <3>6, <3>7, Zenon DEF MsgInv
  <2>4. QED
    BY <2>0, <2>1, <2>2, <2>3, Zenon DEF Tx!TxTick
<1>6. QED
  BY <1>4, <1>5, Zenon

-----------------------------------------------------------------------------
\* One thread at a time writes: the boot write, then the transmit interrupt.
Active == IF Booting THEN "main" ELSE "tx_isr"

LEMMA OneActive ==
    ASSUME Stations, AtBoot
    PROVE  /\ Active \in Writers
           /\ \A t \in Threads : t # Active => at[t] \notin {"w_select", "w_strobe"}
<1>1. CASE Booting
  <2>1. Active = "main" /\ at["tx_isr"] = "idle"
    BY <1>1, Zenon DEF Active, AtBoot
  <2>2. at["rx_isr"] \notin {"w_select", "w_strobe"}
    BY DEF Stations
  <2>3. QED
    BY <2>1, <2>2 DEF Threads, Writers
<1>2. CASE ~Booting
  <2>1. Active = "tx_isr" /\ at["main"] \in {"w_end", "idle"}
    BY <1>2, Zenon DEF Active, Stations
  <2>2. at["rx_isr"] \notin {"w_select", "w_strobe"}
    BY DEF Stations
  <2>3. QED
    BY <2>1, <2>2 DEF Threads, Writers
<1>3. QED
  BY <1>1, <1>2

UnitsRest == /\ UNCHANGED <<reg_empty, buf_empty, idx, reg, buf, departed>>
             /\ Waits' = Waits /\ Queued' = Queued /\ Held' = Held

LEMMA UnitsStay ==
    ASSUME UNCHANGED unitVars, UNCHANGED departed
    PROVE  UnitsRest
<1>1. UNCHANGED <<reg_empty, buf_empty, idx, reg, buf, departed>>
  BY DEF unitVars
<1>2. Waits' = Waits
  BY <1>1 DEF Waits
<1>3. Queued' = Queued
  BY <1>1, <1>2, Zenon DEF Queued
<1>4. Held' = Held
  BY <1>1, <1>3, Zenon DEF Held
<1>5. QED
  BY <1>1, <1>2, <1>3, <1>4, Zenon DEF UnitsRest

\* A step of the bench that begins no write but the boot write keeps Write.
LEMMA WriteFollows ==
    ASSUME Stations, Stations', Content, AtBoot, Write, Propagate, UnitsRest, cpt_car' = cpt_car,
           \A t \in Threads : t # Active => at'[t] # "w_strobe",
           at[Active] = "w_strobe" => \/ at'[Active] = "w_strobe" /\ char'[Active] = char[Active]
                                      \/ at'[Active] = "w_end",
           \A t \in Writers : at'[t] \in {"w_select", "w_strobe"} =>
                \/ Writes(t) /\ char'[t] = char[t]
                \/ t = "main" /\ at[t] = "settle" /\ char'[t] = MESS[cpt_car + 1]
    PROVE  Write'
<1>0. Active \in Writers /\ \A t \in Threads : t # Active => ~Writes(t) /\ at[t] # "w_strobe"
  BY OneActive DEF Writes
<1>00. Active \in Threads /\ Writers \subseteq Threads
  BY <1>0 DEF Writers, Threads
<1>1. load => at[Active] = "w_strobe" /\ tx_data = char[Active]
  BY <1>0, <1>00, Zenon DEF Write
<1>2. /\ load' \in BOOLEAN
      /\ load' => at'[Active] = "w_strobe" /\ tx_data' = char'[Active]
      /\ load /\ at'[Active] = "w_strobe" => load'
  <2>1. /\ at \in [Threads -> DOMAIN Drives] /\ at' \in [Threads -> DOMAIN Drives]
        /\ load \in BOOLEAN
    BY Zenon DEF Stations, Write
  <2>2. PICK u \in Threads : u = Active
    BY <1>00
  <2>3. /\ load => at[u] = "w_strobe" /\ tx_data = char[u]
        /\ \A t \in Threads : t # u => at[t] # "w_strobe" /\ at'[t] # "w_strobe"
        /\ at[u] = "w_strobe" => \/ at'[u] = "w_strobe" /\ char'[u] = char[u]
                                 \/ at'[u] = "w_end"
    BY <1>0, <1>1, <2>2, Zenon
  <2>4. /\ load' \in BOOLEAN
        /\ load' => at'[u] = "w_strobe" /\ tx_data' = char'[u]
        /\ load /\ at'[u] = "w_strobe" => load'
    BY <2>1, <2>3, LoadFollows
  <2>5. QED
    BY <2>2, <2>4, Zenon
<1>3. ASSUME NEW t \in Writers, Writes(t)'
      PROVE  /\ char'[t] = MESS[cpt_car' + 1]
             /\ buf_empty' => Held' = cpt_car'
             /\ ~buf_empty' => load'
  <2>1. at'[t] \in {"w_select", "w_strobe"}
    BY <1>3 DEF Writes
  <2>2. CASE Writes(t) /\ char'[t] = char[t]
    <3>1. /\ char'[t] = MESS[cpt_car' + 1]
          /\ buf_empty' => Held' = cpt_car'
          /\ ~buf_empty' => load
      BY <2>2, Zenon DEF Write, UnitsRest
    <3>2. ASSUME load PROVE load'
      <4>1. t = Active
        BY <1>0, <1>00, <2>2, Zenon
      <4>2. at[t] = "w_strobe"
        BY <1>1, <3>2, <4>1, Zenon
      <4>3. at'[t] = "w_strobe"
        BY <2>1, <4>1, <4>2
      <4>4. QED
        BY <1>2, <3>2, <4>1, <4>3, Zenon
    <3>3. QED
      BY <3>1, <3>2, Zenon
  <2>3. CASE t = "main" /\ at[t] = "settle" /\ char'[t] = MESS[cpt_car + 1]
    <3>1. Booting /\ at["main"] # "w_strobe"
      BY <2>3 DEF Booting
    <3>2. buf_empty /\ cpt_car = 0 /\ departed = <<>> /\ reg_empty
      BY <3>1, Zenon DEF AtBoot
    <3>3. Held = 0
      <4>1. ~Waits
        BY <3>2, Zenon DEF Waits
      <4>2. QED
        BY <3>2, <4>1 DEF Queued, Held
    <3>4. QED
      BY <2>3, <3>2, <3>3, Zenon DEF UnitsRest
  <2>4. QED
    BY <2>1, <2>2, <2>3, Zenon
<1>4. QED
  BY <1>0, <1>2, <1>3, Zenon DEF Write

\* Where a thread whose wait ends goes, and for how long.
LEMMA NextWait ==
    ASSUME NEW w \in DOMAIN Drives, w # "idle"
    PROVE  /\ After[w] \in DOMAIN Drives
           /\ After[w] # "settle" => Clocks[After[w]] \in Nat
           /\ After[w] = "idle" => Clocks[After[w]] = 0
           /\ w = "resetTest" => After[w] = "settle"
           /\ w = "settle" => After[w] = "w_select"
           /\ w = "w_select" => After[w] = "w_strobe"
           /\ w = "w_strobe" => After[w] = "w_end"
           /\ w = "w_end" => After[w] = "idle"
           /\ w = "r_select" => After[w] = "r_sample"
           /\ w = "r_sample" => After[w] = "r_end"
           /\ w = "r_end" => After[w] = "idle"
  BY DEF After, Clocks, Drives

LEMMA RunMoves ==
    ASSUME Stations, RunThreads, cpt_car \in 0 .. SIZEOF_MESS
    PROVE  /\ Stations'
           /\ \A t \in Threads :
                \/ at'[t] = at[t]
                \/ Due(t) /\ at[t] # "idle" /\ at'[t] = After[at[t]]
           /\ \A t \in Threads : at[t] # "settle" \/ at'[t] = "settle" => char'[t] = char[t]
           /\ \A t \in Threads : at[t] = "settle" /\ at'[t] # "settle" =>
                                        char'[t] = MESS[cpt_car + 1]
<1>0. /\ at \in [Threads -> DOMAIN Drives] /\ timer \in [Threads -> Nat]
      /\ char \in [Threads -> Byte \union {Undriven}]
      /\ \A t \in Threads : at[t] = "idle" => timer[t] = 0
  BY Zenon DEF Stations
<1>1. \A t \in Threads : at'[t] = IF Due(t) THEN After[at[t]] ELSE at[t]
  BY Zenon DEF RunThreads
<1>2. \A t \in Threads : Due(t) => at[t] # "idle"
  BY <1>0 DEF Due
<1>3. \A t \in Threads : at'[t] = at[t] \/ (Due(t) /\ at[t] # "idle" /\ at'[t] = After[at[t]])
  BY <1>1, <1>2, Zenon
<1>4. \A t \in Threads : at'[t] \in DOMAIN Drives
  <2> TAKE t \in Threads
  <2>1. at[t] \in DOMAIN Drives
    BY <1>0
  <2>2. QED
    BY <1>3, <2>1, NextWait, Zenon
<1>5. at' \in [Threads -> DOMAIN Drives]
  <2>1. at' = [t \in Threads |-> at'[t]]
    BY Zenon DEF RunThreads
  <2>2. QED
    BY <1>4, <2>1, Zenon
<1>6. \A t \in Threads : at[t] = "settle" /\ Due(t) <=> at[t] = "settle" /\ at'[t] # "settle"
  BY <1>1, NextWait DEF Drives
<1>7. \A t \in Threads : char'[t] = IF Due(t) /\ at[t] = "settle" THEN MESS[cpt_car + 1]
                                                                  ELSE char[t]
  BY Zenon DEF RunThreads
<1>8. /\ \A t \in Threads : at[t] # "settle" \/ at'[t] = "settle" => char'[t] = char[t]
      /\ \A t \in Threads : at[t] = "settle" /\ at'[t] # "settle" => char'[t] = MESS[cpt_car + 1]
  BY <1>6, <1>7, Zenon
<1>9. char' \in [Threads -> Byte \union {Undriven}]
  <2>1. char' = [t \in Threads |-> char'[t]]
    BY Zenon DEF RunThreads
  <2>2. MESS[cpt_car + 1] \in Byte
    BY MessIsBytes
  <2>3. \A t \in Threads : char'[t] \in Byte \union {Undriven}
    BY <1>0, <1>7, <2>2
  <2>4. QED
    BY <2>1, <2>3, Zenon
<1>10. /\ timer' \in [Threads -> Nat]
       /\ \A t \in Threads : at'[t] = "idle" => timer'[t] = 0
  <2>1. PICK s \in SETTLE :
           timer' = [t \in Threads |->
                     IF ~Due(t) THEN IF timer[t] = 0 THEN 0 ELSE timer[t] - 1
                     ELSE IF at'[t] = "settle" THEN s
                     ELSE Clocks[at'[t]]]
    BY Zenon DEF RunThreads
  <2>2. s \in Nat
    BY BenchAssumption
  <2>3. ASSUME NEW t \in Threads
        PROVE  timer'[t] \in Nat /\ (at'[t] = "idle" => timer'[t] = 0)
    <3>1. CASE Due(t)
      <4>1. /\ timer'[t] = IF at'[t] = "settle" THEN s ELSE Clocks[at'[t]]
            /\ at'[t] = After[at[t]]
        BY <1>1, <2>1, <3>1, Zenon
      <4>2. at[t] \in DOMAIN Drives /\ at[t] # "idle"
        BY <1>0, <1>2, <3>1
      <4>3. QED
        BY <2>2, <4>1, <4>2, NextWait
    <3>2. CASE ~Due(t)
      <4>1. timer'[t] = (IF timer[t] = 0 THEN 0 ELSE timer[t] - 1) /\ at'[t] = at[t]
        BY <1>1, <2>1, <3>2, Zenon
      <4>2. timer[t] \in Nat
        BY <1>0
      <4>3. QED
        BY <1>0, <4>1, <4>2
    <3>3. QED
      BY <3>1, <3>2
  <2>4. timer' = [t \in Threads |-> timer'[t]]
    BY <2>1, Zenon
  <2>5. QED
    BY <2>3, <2>4, Zenon
<1>11. /\ Booting' \/ at'["main"] \in {"w_end", "idle"}
       /\ at'["tx_isr"] \in {"w_select", "w_strobe", "w_end", "idle"}
       /\ at'["rx_isr"] \in {"r_select", "r_sample", "r_end", "idle"}
  <2>1. /\ at["main"] \in {"resetTest", "settle", "w_select", "w_strobe", "w_end", "idle"}
        /\ at["tx_isr"] \in {"w_select", "w_strobe", "w_end", "idle"}
        /\ at["rx_isr"] \in {"r_select", "r_sample", "r_end", "idle"}
    BY DEF Stations, Booting
  <2>2. "main" \in Threads /\ "tx_isr" \in Threads /\ "rx_isr" \in Threads
    BY DEF Threads
  <2>3. at'["main"] \in {"resetTest", "settle", "w_select", "w_strobe", "w_end", "idle"}
    BY <1>3, <2>1, <2>2, NextWait DEF Drives
  <2>4. at'["tx_isr"] \in {"w_select", "w_strobe", "w_end", "idle"}
    BY <1>3, <2>1, <2>2, NextWait DEF Drives
  <2>5. at'["rx_isr"] \in {"r_select", "r_sample", "r_end", "idle"}
    BY <1>3, <2>1, <2>2, NextWait DEF Drives
  <2>6. QED
    BY <2>3, <2>4, <2>5 DEF Booting
<1>12. QED
  BY <1>3, <1>5, <1>8, <1>9, <1>10, <1>11, Zenon DEF Stations

LEMMA RunKeeps ==
    ASSUME MsgInv, RunThreads
    PROVE  MsgInv'
<1>0. /\ phase = "bus" /\ phase' = "edge" /\ cpt_car' = cpt_car
      /\ Propagate /\ irqTx' = irqTx /\ UnitsRest
      /\ Stations /\ Content /\ AtBoot /\ Write /\ TxIrq
      /\ cpt_car \in 0 .. SIZEOF_MESS
  <2>1. UnitsRest
    BY UnitsStay, Zenon DEF RunThreads
  <2>2. QED
    BY <2>1, Zenon DEF MsgInv, RunThreads, irqVars, Content
<1>1. /\ Stations'
      /\ \A t \in Threads : \/ at'[t] = at[t]
                            \/ Due(t) /\ at[t] # "idle" /\ at'[t] = After[at[t]]
      /\ \A t \in Threads : at[t] # "settle" \/ at'[t] = "settle" => char'[t] = char[t]
      /\ \A t \in Threads : at[t] = "settle" /\ at'[t] # "settle" => char'[t] = MESS[cpt_car + 1]
  BY <1>0, RunMoves, Zenon
<1>2. \A t \in Threads : at[t] \in DOMAIN Drives
  BY <1>0 DEF Stations
<1>3. Content'
  BY <1>0, Zenon DEF Content, UnitsRest
<1>4. Booting' => Booting
  <2>1. "main" \in Threads
    BY DEF Threads
  <2>2. CASE at'["main"] = at["main"]
    BY <2>2 DEF Booting
  <2>3. CASE at["main"] # "idle" /\ at'["main"] = After[at["main"]]
    BY <1>0, <1>2, <2>1, <2>3, NextWait DEF Booting, Stations
  <2>4. QED
    BY <1>1, <2>1, <2>2, <2>3, Zenon
<1>5. AtBoot'
  <2>1. Booting => at'["tx_isr"] = "idle"
    BY <1>0, <1>1, Zenon DEF AtBoot, Threads
  <2>2. Booting' /\ at'["main"] # "w_strobe" => at["main"] # "w_strobe"
    BY <1>1, <1>2, NextWait DEF Booting, Threads
  <2>3. CASE Due("main") /\ at["main"] = "resetTest"
    <3>1. Booting /\ at["main"] # "w_strobe"
      BY <2>3 DEF Booting
    <3>2. departed = <<>> /\ reg_empty /\ buf_empty
      BY <1>0, <3>1, Zenon DEF AtBoot
    <3>3. reset' \in BOOLEAN
      BY <2>3, BenchAssumption, Zenon DEF RunThreads
    <3>4. QED
      BY <1>0, <1>4, <2>1, <2>2, <3>2, <3>3, Zenon DEF AtBoot, UnitsRest
  <2>4. CASE ~(Due("main") /\ at["main"] = "resetTest")
    <3>1. reset' = reset
      BY <2>4, Zenon DEF RunThreads
    <3>2. QED
      BY <1>0, <1>4, <2>1, <2>2, <3>1, Zenon DEF AtBoot, UnitsRest
  <2>5. QED
    BY <2>3, <2>4, Zenon
<1>6. Write'
  <2>0. /\ Active \in Writers
        /\ \A t \in Threads : t # Active => at[t] \notin {"w_select", "w_strobe"}
    BY <1>0, OneActive
  <2>1. ASSUME NEW t \in Threads, at'[t] = "w_strobe"
        PROVE  at[t] \in {"w_select", "w_strobe"}
    <3>1. at'[t] = at[t] \/ (at[t] # "idle" /\ at'[t] = After[at[t]])
      BY <1>1
    <3>2. QED
      BY <1>2, <2>1, <3>1, NextWait DEF Drives
  <2>2. ASSUME NEW t \in Threads, at[t] = "w_strobe"
        PROVE  (at'[t] = "w_strobe" /\ char'[t] = char[t]) \/ at'[t] = "w_end"
    <3>1. at'[t] = at[t] \/ (at[t] # "idle" /\ at'[t] = After[at[t]])
      BY <1>1
    <3>2. char'[t] = char[t]
      BY <1>1, <2>2
    <3>3. QED
      BY <1>2, <2>2, <3>1, <3>2, NextWait
  <2>3. ASSUME NEW t \in Writers, at'[t] \in {"w_select", "w_strobe"}
        PROVE  \/ Writes(t) /\ char'[t] = char[t]
               \/ t = "main" /\ at[t] = "settle" /\ char'[t] = MESS[cpt_car + 1]
    <3>0. t \in Threads
      BY DEF Writers, Threads
    <3>1. at'[t] = at[t] \/ (at[t] # "idle" /\ at'[t] = After[at[t]])
      BY <1>1, <3>0
    <3>2. at[t] \in {"settle", "w_select", "w_strobe"}
      BY <1>2, <2>3, <3>0, <3>1, NextWait DEF Drives
    <3>3. at[t] = "settle" => t = "main"
      BY <1>0 DEF Stations, Writers
    <3>4. CASE at[t] = "settle"
      <4>1. at'[t] # "settle"
        BY <2>3
      <4>2. QED
        BY <1>1, <3>0, <3>3, <3>4, <4>1, Zenon
    <3>5. CASE at[t] \in {"w_select", "w_strobe"}
      <4>1. at[t] # "settle"
        BY <3>5
      <4>2. QED
        BY <1>1, <3>0, <3>5, <4>1, Zenon DEF Writes
    <3>6. QED
      BY <3>2, <3>4, <3>5
  <2>4. Active \in Threads
    BY <2>0 DEF Writers, Threads
  <2>5. \A t \in Threads : t # Active => at'[t] # "w_strobe"
    BY <2>0, <2>1, Zenon
  <2>6. at[Active] = "w_strobe" => \/ at'[Active] = "w_strobe" /\ char'[Active] = char[Active]
                                   \/ at'[Active] = "w_end"
    BY <2>2, <2>4, Zenon
  <2>7. QED
    BY <1>0, <1>1, <2>3, <2>5, <2>6, WriteFollows, Zenon
<1>7. TxIrq'
  <2>1. phase # "irq" /\ phase' # "irq"
    BY <1>0
  <2>2. QED
    BY <1>0, <2>1, Zenon DEF TxIrq, UnitsRest
<1>8. QED
  BY <1>1, <1>3, <1>5, <1>6, <1>7, Zenon DEF MsgInv

LEMMA IrqMoves ==
    ASSUME MsgInv, Interrupts
    PROVE  /\ Stations'
           /\ at'["main"] = at["main"]
           /\ at'["tx_isr"] = IF WakeTx THEN "w_select" ELSE at["tx_isr"]
           /\ at'["rx_isr"] = IF WakeRx THEN "r_select" ELSE at["rx_isr"]
           /\ cpt_car' = IF WakeTx THEN cpt_car + 1 ELSE cpt_car
           /\ char'["main"] = char["main"]
           /\ char'["tx_isr"] = IF WakeTx THEN MESS[cpt_car' + 1] ELSE char["tx_isr"]
<1>0. /\ Stations /\ at \in [Threads -> DOMAIN Drives] /\ timer \in [Threads -> Nat]
      /\ char \in [Threads -> Byte \union {Undriven}]
      /\ \A t \in Threads : at[t] = "idle" => timer[t] = 0
      /\ cpt_car \in 0 .. SIZEOF_MESS
  BY Zenon DEF MsgInv, Stations, Content
<1>1. /\ at'["main"] = at["main"]
      /\ at'["tx_isr"] = IF WakeTx THEN "w_select" ELSE at["tx_isr"]
      /\ at'["rx_isr"] = IF WakeRx THEN "r_select" ELSE at["rx_isr"]
  <2>1. at' = [t \in Threads |-> IF t = "tx_isr" /\ WakeTx THEN "w_select"
                                 ELSE IF t = "rx_isr" /\ WakeRx THEN "r_select"
                                 ELSE at[t]]
    BY Zenon DEF Interrupts
  <2>2. QED
    BY <2>1 DEF Threads
<1>2. at' \in [Threads -> DOMAIN Drives]
  <2>1. at' = [t \in Threads |-> at'[t]]
    BY Zenon DEF Interrupts
  <2>2. \A t \in Threads : at'[t] \in DOMAIN Drives
    BY <1>0, <1>1 DEF Threads, Drives
  <2>3. QED
    BY <2>1, <2>2, Zenon
<1>3. \A t \in Threads : timer'[t] = IF at'[t] # at[t] THEN Clocks[at'[t]] ELSE timer[t]
  BY Zenon DEF Interrupts
<1>4. timer' \in [Threads -> Nat] /\ \A t \in Threads : at'[t] = "idle" => timer'[t] = 0
  <2>1. timer' = [t \in Threads |-> timer'[t]]
    BY Zenon DEF Interrupts
  <2>2. ASSUME NEW t \in Threads
        PROVE  timer'[t] \in Nat /\ (at'[t] = "idle" => timer'[t] = 0)
    <3>1. at'[t] = at[t] \/ at'[t] = "w_select" \/ at'[t] = "r_select"
      BY <1>1 DEF Threads
    <3>2. QED
      BY <1>0, <1>3, <3>1 DEF Clocks
  <2>3. QED
    BY <2>1, <2>2, Zenon
<1>5. cpt_car' = IF WakeTx THEN cpt_car + 1 ELSE cpt_car
  BY Zenon DEF Interrupts
<1>6. /\ char' \in [Threads -> Byte \union {Undriven}]
      /\ char'["main"] = char["main"]
      /\ char'["tx_isr"] = IF WakeTx THEN MESS[cpt_car' + 1] ELSE char["tx_isr"]
  <2>1. CASE WakeTx
    <3>1. char' = [char EXCEPT !["tx_isr"] = MESS[cpt_car' + 1]]
      BY <2>1, Zenon DEF Interrupts
    <3>2. MESS[cpt_car' + 1] \in Byte
      <4>1. cpt_car' = cpt_car + 1 /\ cpt_car < SIZEOF_MESS
        BY <1>5, <2>1, Zenon DEF WakeTx
      <4>2. QED
        BY <1>0, <4>1, MessIsBytes
    <3>3. char'["main"] = char["main"] /\ char'["tx_isr"] = MESS[cpt_car' + 1]
      BY <1>0, <3>1 DEF Threads
    <3>4. char' \in [Threads -> Byte \union {Undriven}]
      BY <1>0, <3>1, <3>2
    <3>5. QED
      BY <2>1, <3>3, <3>4, Zenon
  <2>2. CASE ~WakeTx
    <3>1. char' = char
      BY <2>2, Zenon DEF Interrupts
    <3>2. QED
      BY <1>0, <2>2, <3>1, Zenon
  <2>3. QED
    BY <2>1, <2>2, Zenon
<1>7. /\ Booting' \/ at'["main"] \in {"w_end", "idle"}
      /\ at'["tx_isr"] \in {"w_select", "w_strobe", "w_end", "idle"}
      /\ at'["rx_isr"] \in {"r_select", "r_sample", "r_end", "idle"}
  <2>1. Booting' <=> Booting
    BY <1>1, Zenon DEF Booting
  <2>2. QED
    BY <1>0, <1>1, <2>1 DEF Stations
<1>8. QED
  BY <1>1, <1>2, <1>4, <1>5, <1>6, <1>7, Zenon DEF Stations

LEMMA IrqKeeps ==
    ASSUME MsgInv, Interrupts
    PROVE  MsgInv'
<1>0. /\ phase = "irq" /\ phase' = "bus" /\ reset' = reset
      /\ Propagate /\ UnitsRest /\ irqTx' = (buf_empty /\ ~reg_empty)
      /\ Stations /\ Content /\ AtBoot /\ Write /\ TxIrq
      /\ cpt_car \in 0 .. SIZEOF_MESS
  <2>1. UnitsRest
    BY UnitsStay, Zenon DEF Interrupts, histVars
  <2>2. QED
    BY <2>1, Zenon DEF MsgInv, Interrupts, Combinationnal, Content
<1>1. /\ Stations'
      /\ at'["main"] = at["main"]
      /\ at'["tx_isr"] = IF WakeTx THEN "w_select" ELSE at["tx_isr"]
      /\ at'["rx_isr"] = IF WakeRx THEN "r_select" ELSE at["rx_isr"]
      /\ cpt_car' = IF WakeTx THEN cpt_car + 1 ELSE cpt_car
      /\ char'["main"] = char["main"]
      /\ char'["tx_isr"] = IF WakeTx THEN MESS[cpt_car' + 1] ELSE char["tx_isr"]
  BY IrqMoves, Zenon
<1>2. Booting' <=> Booting
  BY <1>1, Zenon DEF Booting
<1>3. TxIrq'
  <2>1. phase' # "irq"
    BY <1>0
  <2>2. irqTx' \in BOOLEAN
    BY <1>0, Zenon DEF Content
  <2>3. QED
    BY <1>0, <2>1, <2>2, Zenon DEF TxIrq, UnitsRest
<1>4. CASE WakeTx
  <2>1. /\ buf_empty /\ ~reg_empty /\ ~irqTx /\ cpt_car < SIZEOF_MESS
        /\ cpt_car' = cpt_car + 1
    BY <1>0, <1>1, <1>4, Zenon DEF WakeTx
  <2>2. Held = cpt_car + 1 /\ \A t \in Writers : ~Writes(t)
    BY <1>0, <2>1, Zenon DEF TxIrq
  <2>3. ~Booting
    BY <1>0, <2>1, Zenon DEF AtBoot
  <2>4. Content'
    <3>1. cpt_car' \in 0 .. SIZEOF_MESS /\ Held = cpt_car'
      BY <1>0, <2>1, <2>2, MessIsBytes
    <3>2. Held' = cpt_car' /\ Held' \in {cpt_car', cpt_car' + 1}
      BY <1>0, <3>1, Zenon DEF UnitsRest
    <3>3. QED
      BY <1>0, <2>1, <3>1, <3>2, Zenon DEF Content, UnitsRest
  <2>5. AtBoot'
    BY <1>0, <1>2, <2>3, Zenon DEF AtBoot, UnitsRest
  <2>6. Write'
    <3>1. ~load
      BY <1>0, <2>2 DEF Write, Writes
    <3>2. at'["tx_isr"] = "w_select" /\ char'["tx_isr"] = MESS[cpt_car' + 1]
      BY <1>1, <1>4, Zenon
    <3>3. load' = FALSE
      <4>1. at["main"] # "w_strobe" /\ at["tx_isr"] # "w_strobe"
        BY <2>2 DEF Writes, Writers
      <4>2. /\ at["rx_isr"] # "w_strobe" /\ at'["rx_isr"] # "w_strobe"
            /\ at'["main"] # "w_strobe" /\ at'["tx_isr"] # "w_strobe"
        BY <1>0, <1>1, <3>2, <4>1 DEF Stations
      <4>3. \A t \in Threads : at[t] # "w_strobe" /\ at'[t] # "w_strobe"
        BY <4>1, <4>2 DEF Threads
      <4>4. at \in [Threads -> DOMAIN Drives] /\ at' \in [Threads -> DOMAIN Drives]
        BY <1>0, <1>1, Zenon DEF Stations
      <4>5. load \in BOOLEAN /\ "tx_isr" \in Threads
        BY <1>0 DEF Write, Threads
      <4>6. load' \in BOOLEAN /\ (load' => at'["tx_isr"] = "w_strobe")
        BY <1>0, <3>1, <4>3, <4>4, <4>5, LoadFollows
      <4>7. QED
        BY <4>2, <4>6, Zenon
    <3>4. ~Writes("main")'
      BY <1>1, <2>2 DEF Writes, Writers
    <3>5. \A t \in Writers : Writes(t)' => t = "tx_isr"
      BY <3>4 DEF Writers
    <3>6. buf_empty' /\ Held' = cpt_car'
      BY <1>0, <2>1, <2>2, Zenon DEF UnitsRest
    <3>7. QED
      BY <3>2, <3>3, <3>5, <3>6, Zenon DEF Write
  <2>7. QED
    BY <1>1, <1>3, <2>4, <2>5, <2>6, Zenon DEF MsgInv
<1>5. CASE ~WakeTx
  <2>1. /\ cpt_car' = cpt_car
        /\ \A t \in Writers : at'[t] = at[t] /\ char'[t] = char[t]
    BY <1>1, <1>5 DEF Writers
  <2>2. Content'
    BY <1>0, <2>1, Zenon DEF Content, UnitsRest
  <2>3. AtBoot'
    BY <1>0, <1>1, <1>2, <1>5, <2>1, Zenon DEF AtBoot, UnitsRest
  <2>4. Write'
    <3>0. /\ Active \in Writers
          /\ \A t \in Threads : t # Active => at[t] \notin {"w_select", "w_strobe"}
      BY <1>0, OneActive
    <3>1. \A t \in Threads : t # Active => at'[t] # "w_strobe"
      BY <1>1, <2>1, <3>0 DEF Stations, Threads, Writers
    <3>2. at[Active] = "w_strobe" => at'[Active] = "w_strobe" /\ char'[Active] = char[Active]
      BY <2>1, <3>0, Zenon
    <3>3. \A t \in Writers : at'[t] \in {"w_select", "w_strobe"} => Writes(t) /\ char'[t] = char[t]
      BY <2>1, Zenon DEF Writes
    <3>4. QED
      BY <1>0, <1>1, <2>1, <3>1, <3>2, <3>3, WriteFollows, Zenon
  <2>5. QED
    BY <1>1, <1>3, <2>2, <2>3, <2>4, Zenon DEF MsgInv
<1>6. QED
  BY <1>4, <1>5, Zenon

-----------------------------------------------------------------------------
LEMMA MsgStarts == Init => MsgInv
<1> SUFFICES ASSUME Init PROVE MsgInv
  OBVIOUS
<1>1. /\ at = [t \in Threads |-> IF t = "main" THEN "resetTest" ELSE "idle"]
      /\ timer = [t \in Threads |-> Clocks[at[t]]]
      /\ char = [t \in Threads |-> Undriven]
      /\ cpt_car = 0 /\ departed = <<>> /\ phase = "edge" /\ reset = TRUE
  BY Zenon DEF Init
<1>2. /\ load = FALSE /\ irqTx = FALSE
      /\ reg_empty = TRUE /\ buf_empty = TRUE /\ idx = 0
  BY Zenon DEF Init, UartInit, Tx!TxInit
<1>3. at["main"] = "resetTest" /\ at["tx_isr"] = "idle" /\ at["rx_isr"] = "idle"
  BY <1>1 DEF Threads
<1>4. Stations
  <2>1. at \in [Threads -> DOMAIN Drives]
    BY <1>1 DEF Drives
  <2>2. timer \in [Threads -> Nat] /\ \A t \in Threads : at[t] = "idle" => timer[t] = 0
    BY <1>1 DEF Clocks
  <2>3. char \in [Threads -> Byte \union {Undriven}]
    BY <1>1
  <2>4. QED
    BY <1>3, <2>1, <2>2, <2>3 DEF Stations, Booting
<1>5. ~Waits /\ Queued = 0 /\ Held = 0
  BY <1>1, <1>2 DEF Waits, Queued, Held
<1>6. Content
  BY <1>1, <1>2, <1>5, MessIsBytes DEF Content
<1>7. AtBoot
  BY <1>1, <1>2, <1>3 DEF AtBoot
<1>8. Write
  BY <1>2, <1>3 DEF Write, Writes, Writers
<1>9. TxIrq
  BY <1>1, <1>2 DEF TxIrq
<1>10. QED
  BY <1>4, <1>6, <1>7, <1>8, <1>9, Zenon DEF MsgInv

LEMMA MsgStutters == ASSUME MsgInv, UNCHANGED vars
                     PROVE  MsgInv'
<1>1. /\ at' = at /\ timer' = timer /\ char' = char /\ cpt_car' = cpt_car
      /\ phase' = phase /\ reset' = reset /\ load' = load /\ tx_data' = tx_data
      /\ irqTx' = irqTx /\ UnitsRest
  BY UnitsStay, Zenon DEF vars, busVars, irqVars
<1>2. Stations' /\ Content'
  BY <1>1, Zenon DEF MsgInv, Stations, Content, Booting, UnitsRest
<1>3. AtBoot' /\ Write' /\ TxIrq'
  BY <1>1, Zenon DEF MsgInv, AtBoot, Write, TxIrq, Booting, Writes, UnitsRest
<1>4. QED
  BY <1>2, <1>3, Zenon DEF MsgInv

LEMMA MsgInvariant == Spec => []MsgInv
<1>1. MsgInv /\ [Next]_vars => MsgInv'
  BY RunKeeps, MoveKeeps, IrqKeeps, MsgStutters, Zenon DEF Next
<1>2. QED
  BY <1>1, MsgStarts, PTL DEF Spec

(***************************************************************************)
(* The bytes on the line are the message, in order, as far as they go: for *)
(* every message, width, pair of periods and delay of the boot write, in   *)
(* step or not, main_thread and tx_isr never send a character twice, skip  *)
(* one, or overwrite one in the buffer.                                    *)
(***************************************************************************)
THEOREM MessageIsSent == Spec => []SendsMessage
<1>1. MsgInv => SendsMessage
  <2> SUFFICES ASSUME MsgInv PROVE SendsMessage
    OBVIOUS
  <2> DEFINE n == Len(departed)
  <2>1. Content
    BY DEF MsgInv
  <2>2. departed \in Seq(Byte) /\ \A i \in 1 .. n : departed[i] = MESS[i]
    BY <2>1, Zenon DEF Content
  <2>3. n \in Nat /\ n <= Len(MESS)
    <3>1. n \in Nat /\ Queued \in {n, n + 1}
      BY <2>1, Counted
    <3>2. Held \in {Queued, Queued + 1} /\ Held \in {cpt_car, cpt_car + 1}
      BY <2>1, Counted DEF Content
    <3>3. QED
      BY <2>1, <3>1, <3>2, Counted, MessIsBytes
  <2>4. SubSeq(departed, 1, n) = SubSeq(MESS, 1, n)
    <3>1. MESS \in Seq(Byte)
      BY BenchAssumption, UartPayloads
    <3>2. QED
      BY <2>2, <2>3, <3>1
  <2>5. QED
    BY <2>3, <2>4 DEF SendsMessage, IsPrefix
<1>2. QED
  BY <1>1, MsgInvariant, PTL

-----------------------------------------------------------------------------
(***************************************************************************)
(* The loop.  The units between their resets are the SerialLink that       *)
(* LinkProofs is about, with the bytes that have left and not arrived on   *)
(* its wire: its invariant says where in a bit the line is looked at.      *)
(***************************************************************************)

OnWire == SubSeq(departed, Len(received) + 1, Len(departed))

L == INSTANCE LinkProofs
        WITH enable_tx <- en_tx, enable_rx <- en_rx, data_rdy <- d_rdy, frame_err <- f_err,
             output_err <- o_err, data_out <- rx_data, wire <- OnWire, MAX_BITS <- 0, bits <- 0

R == RX_PERIOD + 1          \* clocks per sample of the receiver
T == TX_PERIOD + 1          \* clocks per bit of the transmitter
Drift == 16 * R - T
\* Clocks since the last pulse of the transmitter, and clocks to and since
\* the look at the line: 8 * R at a look, 1 - 8 * R just after it.
PhaseTx == L!PhaseTx
Elapsed == L!Elapsed

LEMMA Lengths ==
    /\ R \in Nat /\ R >= 2 /\ T \in Nat /\ T >= 2
    /\ Drift \in Int /\ 16 * R \in Nat /\ 8 * R \in Nat /\ 16 * R = 8 * R + 8 * R /\ 8 * R >= 16
    /\ L!T = T /\ L!R = R /\ L!Drift = Drift /\ L!TxBit = T /\ L!RxBit = 16 * R
<1>1. /\ TX_PERIOD \in Nat /\ 0 < TX_PERIOD /\ RX_PERIOD \in Nat /\ 0 < RX_PERIOD
  <2>1. TxClk!PeriodFits => TX_PERIOD \in Nat /\ 0 < TX_PERIOD
    BY SMT DEF TxClk!PeriodFits, TxClk!UINT16
  <2>2. RxClk!PeriodFits => RX_PERIOD \in Nat /\ 0 < RX_PERIOD
    BY SMT DEF RxClk!PeriodFits, RxClk!UINT16
  <2>3. QED
    BY <2>1, <2>2, UartPeriods, Zenon
<1>2. L!R = R
  BY Zenon DEF L!R, R
<1>3. L!T = T /\ L!TxBit = T
  BY Zenon DEF L!T, L!TxBit, T
<1>4. L!RxBit = 16 * R
  <2>1. L!Rx!SAMPLES = 16
    BY DEF L!Rx!SAMPLES
  <2>2. QED
    BY <2>1, Zenon DEF L!RxBit, R
<1>5. L!Drift = Drift
  BY <1>3, <1>4, Zenon DEF L!Drift, Drift
<1>6. QED
  BY <1>1, <1>2, <1>3, <1>4, <1>5 DEF T, R, Drift

LEMMA LinkAssumed ==
    /\ DATA_WIDTH \in Nat \ {0} /\ 0 \in Nat
    /\ L!TxClk!PeriodFits /\ L!RxClk!PeriodFits
    /\ Payloads \subseteq L!Byte
<1>1. L!TxClk!UINT16 = TxClk!UINT16
  BY DEF L!TxClk!UINT16, TxClk!UINT16
<1>2. L!RxClk!UINT16 = RxClk!UINT16
  BY DEF L!RxClk!UINT16, RxClk!UINT16
<1>3. TxClk!PeriodFits => L!TxClk!PeriodFits
  BY <1>1, Zenon DEF TxClk!PeriodFits, L!TxClk!PeriodFits
<1>4. RxClk!PeriodFits => L!RxClk!PeriodFits
  BY <1>2, Zenon DEF RxClk!PeriodFits, L!RxClk!PeriodFits
<1>5. L!Byte = Byte
  BY Zenon DEF L!Byte, Byte, L!Bits, Bits, L!Bit, Bit
<1>6. QED
  BY <1>3, <1>4, <1>5, WidthAssumption, UartPeriods, UartPayloads, Zenon

LEMMA LinkFacts ==
    /\ L!ClocksOK => /\ L!PhaseTx \in 0 .. L!T /\ (en_tx <=> L!PhaseTx = L!T)
                     /\ L!Elapsed \in Int /\ L!Elapsed <= 8 * L!R
                     /\ (L!Look <=> L!Elapsed = 8 * L!R)
    /\ L!ClocksOK /\ L!TxClk!DivTick /\ L!RxClk!DivTick /\ L!Rx!Count(en_rx) =>
          /\ L!PhaseTx' = (IF en_tx THEN L!PhaseTx + 1 - L!T ELSE L!PhaseTx + 1)
          /\ L!Elapsed' = (IF L!Look THEN L!Elapsed + 1 - 16 * L!R ELSE L!Elapsed + 1)
    /\ \A lag : L!LagFits(lag) /\ L!LinkInv(lag) => ~(en_tx /\ L!Look)
    /\ \A lag, next, d : \A ld, rd \in BOOLEAN :
          /\ L!LagFits(lag) /\ L!LinkInv(lag) /\ next = L!NextLag(lag)
          /\ L!Clock(ld, d, rd) /\ (ld => d \in L!Byte)
          => L!LinkInv(next)' /\ (L!Arrives => L!ByteLeaves)
    /\ \A lag : L!LinkInv(lag) /\ UNCHANGED L!linkVars => L!LinkInv(lag)'
    /\ L!LinkInit => L!LinkInv(0)
<1>1. L!ClocksOK => /\ L!PhaseTx \in 0 .. L!T /\ (en_tx <=> L!PhaseTx = L!T)
                     /\ L!Elapsed \in Int /\ L!Elapsed <= 8 * L!R
                     /\ (L!Look <=> L!Elapsed = 8 * L!R)
  BY LinkAssumed, L!LinkTimes, Zenon
<1>2. L!ClocksOK /\ L!TxClk!DivTick /\ L!RxClk!DivTick /\ L!Rx!Count(en_rx) =>
          /\ L!PhaseTx' = (IF en_tx THEN L!PhaseTx + 1 - L!T ELSE L!PhaseTx + 1)
          /\ L!Elapsed' = (IF L!Look THEN L!Elapsed + 1 - 16 * L!R ELSE L!Elapsed + 1)
  BY LinkAssumed, L!LinkTimePasses, Zenon
<1>3. \A lag : L!LagFits(lag) /\ L!LinkInv(lag) => ~(en_tx /\ L!Look)
  BY LinkAssumed, L!LinkApart, Zenon
<1>4. \A lag, next, d : \A ld, rd \in BOOLEAN :
          /\ L!LagFits(lag) /\ L!LinkInv(lag) /\ next = L!NextLag(lag)
          /\ L!Clock(ld, d, rd) /\ (ld => d \in L!Byte)
          => L!LinkInv(next)' /\ (L!Arrives => L!ByteLeaves)
  BY LinkAssumed, L!LinkMoves, Zenon
<1>5. \A lag : L!LinkInv(lag) /\ UNCHANGED L!linkVars => L!LinkInv(lag)'
  BY LinkAssumed, L!LinkRests, Zenon
<1>6. L!LinkInit => L!LinkInv(0)
  BY LinkAssumed, L!LinkStarts, Zenon
<1>7. QED
  BY <1>1, <1>2, <1>3, <1>4, <1>5, <1>6, Zenon

\* The processes of the units are those of the link.
LEMMA TheTicks ==
  ASSUME NEW ld, NEW d, NEW en, NEW rd
  PROVE
  /\ TxClk!DivTick <=> L!TxClk!DivTick
  /\ RxClk!DivTick <=> L!RxClk!DivTick
  /\ Tx!TxTick(ld, d, en) <=> L!Tx!TxTick(ld, d, en)
  /\ Rx!RxTick(en, rd) <=> L!Rx!RxTick(en, rd)
  /\ Rx!Completes(en) <=> L!Rx!Completes(en)
<1>1. L!TxClk!DivTick <=> TxClk!DivTick
  <2>1. L!TxClk!UINT16 = TxClk!UINT16
    BY DEF L!TxClk!UINT16, TxClk!UINT16
  <2>2. L!TxClk!Bump(cnt_tx) = TxClk!Bump(cnt_tx)
    BY <2>1, Zenon DEF L!TxClk!Bump, TxClk!Bump
  <2>3. QED
    BY <2>2, Zenon DEF L!TxClk!DivTick, TxClk!DivTick
<1>2. L!RxClk!DivTick <=> RxClk!DivTick
  <2>1. L!RxClk!UINT16 = RxClk!UINT16
    BY DEF L!RxClk!UINT16, RxClk!UINT16
  <2>2. L!RxClk!Bump(cnt_rx) = RxClk!Bump(cnt_rx)
    BY <2>1, Zenon DEF L!RxClk!Bump, RxClk!Bump
  <2>3. QED
    BY <2>2, Zenon DEF L!RxClk!DivTick, RxClk!DivTick
<1>3. L!Tx!TxTick(ld, d, en) <=> Tx!TxTick(ld, d, en)
  <2>1. L!Tx!Shift(en) <=> Tx!Shift(en)
    BY Zenon DEF L!Tx!Shift, L!Tx!ShiftStart, L!Tx!ShiftData, L!Tx!ShiftStop,
                 Tx!Shift, Tx!ShiftStart, Tx!ShiftData, Tx!ShiftStop
  <2>2. QED
    BY <2>1, Zenon DEF L!Tx!TxTick, L!Tx!Load, L!Tx!Transfer, Tx!TxTick, Tx!Load, Tx!Transfer
<1>4. /\ L!Rx!Looks(en) <=> Rx!Looks(en)
      /\ L!Rx!Waiting = Rx!Waiting /\ L!Rx!SAMPLES = Rx!SAMPLES
      /\ L!Rx!Shifted = Rx!Shifted
  <2>1. L!Rx!MIDDLE = Rx!MIDDLE /\ L!Rx!SAMPLES = Rx!SAMPLES
    BY DEF L!Rx!MIDDLE, Rx!MIDDLE, L!Rx!SAMPLES, Rx!SAMPLES
  <2>2. QED
    BY <2>1, Zenon DEF L!Rx!Looks, Rx!Looks, L!Rx!Waiting, Rx!Waiting, L!Rx!Shifted, Rx!Shifted,
         L!Rx!Bits, Rx!Bits
<1>5. /\ L!Rx!AtStart(en) <=> Rx!AtStart(en)
      /\ L!Rx!AtData(en) <=> Rx!AtData(en)
      /\ L!Rx!AtStop(en) <=> Rx!AtStop(en)
  BY <1>4, Zenon DEF L!Rx!AtStart, L!Rx!AtData, L!Rx!AtStop, Rx!AtStart, Rx!AtData, Rx!AtStop
<1>6. Rx!Completes(en) <=> L!Rx!Completes(en)
  BY <1>5, Zenon DEF L!Rx!Completes, Rx!Completes
<1>7. Rx!Receive(en) <=> L!Rx!Receive(en)
  BY <1>4, <1>5, Zenon DEF L!Rx!Receive, L!Rx!WaitStart, L!Rx!TakeData, L!Rx!TakeStop,
                           Rx!Receive, Rx!WaitStart, Rx!TakeData, Rx!TakeStop
<1>8. Rx!RxTick(en, rd) <=> L!Rx!RxTick(en, rd)
  <2>1. Rx!Count(en) <=> L!Rx!Count(en)
    BY <1>4, Zenon DEF L!Rx!Count, Rx!Count
  <2>2. Rx!Status(en, rd) <=> L!Rx!Status(en, rd)
    BY <1>5, <1>6, Zenon DEF L!Rx!Status, Rx!Status
  <2>3. QED
    BY <1>7, <2>1, <2>2, Zenon DEF L!Rx!RxTick, Rx!RxTick
<1>9. QED
  BY <1>1, <1>2, <1>3, <1>6, <1>8, Zenon

Got == Len(received)

\* When the looks have moved by lag clocks since the start they still fall
\* in their bit, with the clocks of an access to the bus to spare.
Fits(lag) == lag \in Int /\ 8 < 8 * R + lag /\ 8 * R + lag + 4 < T /\ 8 * R + lag + 4 < 16 * R
             /\ 0 < 8 * R + lag + Drift
\* A bit sent moves the looks.
NextOf(lag) == IF en_tx THEN lag + Drift ELSE lag

LEMMA Times ==
  ASSUME L!ClocksOK
  PROVE  /\ PhaseTx \in 0 .. T /\ (en_tx <=> PhaseTx = T)
         /\ Elapsed \in Int /\ Elapsed <= 8 * R /\ (L!Look <=> Elapsed = 8 * R)
  BY LinkFacts, Lengths, Zenon DEF PhaseTx, Elapsed

LEMMA FitsLag ==
  ASSUME NEW lag, Fits(lag)
  PROVE  L!LagFits(lag) /\ L!NextLag(lag) = NextOf(lag)
<1>1. 8 * R + lag < T
  BY Lengths DEF Fits
<1>2. L!LagFits(lag) <=> lag \in Int /\ 8 * R + lag < T /\ 0 < 8 * R + lag + Drift
  BY Lengths, Zenon DEF L!LagFits
<1>3. L!NextLag(lag) = NextOf(lag)
  BY Lengths, Zenon DEF L!NextLag, NextOf
<1>4. QED
  BY <1>1, <1>2, <1>3, Zenon DEF Fits

\* What has been received is the beginning of what has left.
Received == /\ received \in Seq(Byte) /\ departed \in Seq(Byte)
            /\ Got <= Len(departed)
            /\ \A i \in 1 .. Got : received[i] = departed[i]

\* What Head, Tail and Append do to the rest of a sequence.
LEMMA Pieces ==
  ASSUME NEW s \in Seq(Byte), NEW j \in Nat, j <= Len(s)
  PROVE  /\ SubSeq(s, j + 1, Len(s)) \in Seq(Byte)
         /\ SubSeq(s, j + 1, Len(s)) = <<>> <=> j = Len(s)
         /\ SubSeq(s, j + 2, Len(s)) \in Seq(Byte)
         /\ j = Len(s) => SubSeq(s, j + 2, Len(s)) = <<>>
         /\ j < Len(s) => /\ Tail(SubSeq(s, j + 1, Len(s))) = SubSeq(s, j + 2, Len(s))
                          /\ Head(SubSeq(s, j + 1, Len(s))) = s[j + 1]
<1>0. Len(s) \in Nat
  OBVIOUS
<1>1. SubSeq(s, j + 1, Len(s)) \in Seq(Byte) /\ SubSeq(s, j + 2, Len(s)) \in Seq(Byte)
  BY <1>0
<1>2. SubSeq(s, j + 1, Len(s)) = <<>> <=> j = Len(s)
  <2>1. Len(SubSeq(s, j + 1, Len(s))) = Len(s) - j
    BY <1>0
  <2>2. SubSeq(s, j + 1, Len(s)) = <<>> <=> Len(SubSeq(s, j + 1, Len(s))) = 0
    BY <1>1, EmptySeq
  <2>3. QED
    BY <1>0, <2>1, <2>2
<1>3. j = Len(s) => SubSeq(s, j + 2, Len(s)) = <<>>
  BY <1>0
<1>4. j < Len(s) => /\ Tail(SubSeq(s, j + 1, Len(s))) = SubSeq(s, j + 2, Len(s))
                    /\ Head(SubSeq(s, j + 1, Len(s))) = s[j + 1]
  <2> SUFFICES ASSUME j < Len(s)
               PROVE  /\ Tail(SubSeq(s, j + 1, Len(s))) = SubSeq(s, j + 2, Len(s))
                      /\ Head(SubSeq(s, j + 1, Len(s))) = s[j + 1]
    OBVIOUS
  <2>1. j + 1 \in 1 .. Len(s) /\ Len(s) \in (j + 1) .. Len(s) /\ (j + 1) + 1 = j + 2
    BY <1>0
  <2>2. /\ Head(SubSeq(s, j + 1, Len(s))) = s[j + 1]
        /\ Tail(SubSeq(s, j + 1, Len(s))) = SubSeq(s, (j + 1) + 1, Len(s))
    BY <2>1, HeadTailOfSubSeq, Zenon
  <2>3. QED
    BY <2>1, <2>2, Zenon
<1>5. QED
  BY <1>1, <1>2, <1>3, <1>4, Zenon

LEMMA Longer ==
  ASSUME NEW s \in Seq(Byte), NEW j \in Nat, j <= Len(s), NEW b \in Byte
  PROVE  SubSeq(Append(s, b), j + 1, Len(Append(s, b))) = SubSeq(s, j + 1, Len(s)) \o <<b>>
<1> DEFINE a == Append(s, b)
           n == Len(s)
<1>0. /\ n \in Nat /\ a \in Seq(Byte) /\ Len(a) = n + 1 /\ a[n + 1] = b
      /\ a = s \o <<b>> /\ <<b>> \in Seq(Byte)
  OBVIOUS
<1>1. j + 1 \in 1 .. Len(a) /\ n + 1 \in (j + 1) .. Len(a) /\ (n + 1) - 1 = n
  BY <1>0
<1>2. SubSeq(a, j + 1, n + 1) = SubSeq(a, j + 1, (n + 1) - 1) \o <<a[n + 1]>>
  BY <1>0, <1>1, SubSeqRecursiveSecond, Zenon
<1>3. SubSeq(a, j + 1, n) = SubSeq(s, j + 1, n)
  <2>1. CASE j = n
    BY <1>0, <2>1
  <2>2. CASE j < n
    <3>1. j + 1 \in 1 .. Len(s) /\ n \in 1 .. Len(s)
      BY <1>0, <2>2
    <3>2. QED
      <4>1. SubSeq(s \o <<b>>, j + 1, n) = SubSeq(s, j + 1, n)
        BY <1>0, <3>1, SubSeqOfConcat1
      <4>2. QED
        BY <1>0, <4>1, Zenon
  <2>3. QED
    <3>1. j = n \/ j < n
      BY <1>0
    <3>2. QED
      BY <3>1, <2>1, <2>2, Zenon
<1>4. QED
  BY <1>0, <1>1, <1>2, <1>3, Zenon

\* The histories move as the wire of the loop does.
LEMMA WireFollows ==
  ASSUME Received, NEW b, NEW c, NEW arr \in BOOLEAN, NEW dep \in BOOLEAN,
         ~(arr /\ dep), dep => b \in Byte,
         received' = IF arr THEN Append(received, c) ELSE received,
         departed' = IF dep THEN Append(departed, b) ELSE departed
  PROVE  OnWire' = (IF arr /\ OnWire # <<>> THEN Tail(OnWire) ELSE OnWire)
                     \o (IF dep THEN <<b>> ELSE <<>>)
<1>0. /\ Got \in Nat /\ Len(departed) \in Nat /\ Got <= Len(departed) /\ departed \in Seq(Byte)
      /\ received \in Seq(Byte)
  BY DEF Received, Got
<1>1. OnWire = SubSeq(departed, Got + 1, Len(departed)) /\ OnWire \in Seq(Byte)
  BY <1>0, Pieces DEF OnWire, Got
<1>2. \A s \in Seq(Byte) : s \o <<>> = s
  OBVIOUS
<1>3. CASE ~arr /\ ~dep
  <2>1. OnWire' = OnWire
    BY <1>3, Zenon DEF OnWire
  <2>2. QED
    BY <1>1, <1>2, <1>3, <2>1, Zenon
<1>4. CASE ~arr /\ dep
  <2>1. OnWire' = SubSeq(Append(departed, b), Got + 1, Len(Append(departed, b)))
    BY <1>4, Zenon DEF OnWire, Got
  <2>2. OnWire' = OnWire \o <<b>>
    <3>1. b \in Byte
      BY <1>4, Zenon
    <3>2. QED
      BY <1>0, <1>1, <2>1, <3>1, Longer, Zenon
  <2>3. QED
    BY <1>4, <2>2, Zenon
<1>5. CASE arr /\ ~dep
  <2>1. OnWire' = SubSeq(departed, Got + 2, Len(departed))
    <3>1. received' = Append(received, c) /\ departed' = departed
      BY <1>5, Zenon
    <3>2. Len(Append(received, c)) = Got + 1
      BY <1>0 DEF Got
    <3>3. Len(received') + 1 = Got + 2
      BY <1>0, <3>1, <3>2
    <3>4. QED
      BY <3>1, <3>3, Zenon DEF OnWire
  <2>2. Got = Len(departed) \/ Got < Len(departed)
    BY <1>0
  <2>3. OnWire' \in Seq(Byte)
    BY <1>0, <2>1, Pieces, Zenon
  <2>4. OnWire' = IF OnWire # <<>> THEN Tail(OnWire) ELSE OnWire
    <3>1. CASE Got = Len(departed)
      <4>1. OnWire = <<>> /\ OnWire' = <<>>
        BY <1>0, <1>1, <2>1, <3>1, Pieces, Zenon
      <4>2. QED
        BY <4>1, Zenon
    <3>2. CASE Got < Len(departed)
      <4>1. OnWire # <<>> /\ OnWire' = Tail(OnWire)
        <5>1. Got # Len(departed)
          BY <1>0, <3>2
        <5>2. QED
          BY <1>0, <1>1, <2>1, <3>2, <5>1, Pieces, Zenon
      <4>2. QED
        BY <4>1, Zenon
    <3>3. QED
      BY <2>2, <3>1, <3>2, Zenon
  <2>5. QED
    BY <1>2, <1>5, <2>3, <2>4, Zenon
<1>6. QED
  BY <1>3, <1>4, <1>5, Zenon

-----------------------------------------------------------------------------
(***************************************************************************)
(* The threads against the clocks of the units.  A read takes three clocks *)
(* from the look that completes a byte, and all the while the transmitter  *)
(* is in the middle of a bit; a write of tx_isr begins with a pulse of the *)
(* transmitter and takes five clocks: the two never meet.                  *)
(***************************************************************************)

\* Clocks that are left to tx_isr in its write.
SendLeft == timer["tx_isr"] + (IF at["tx_isr"] = "w_select" THEN 4
                               ELSE IF at["tx_isr"] = "w_strobe" THEN 1 ELSE 0)

\* The boot write: no byte leaves before it has released the bus.
BootEnds ==
    /\ at["main"] = "resetTest" => reset
    /\ at["main"] # "idle" => departed = <<>>
    /\ at["main"] = "w_end" => /\ timer["main"] = 1
                               /\ phase = "edge" => reg_empty
                               /\ phase # "bus" => at["tx_isr"] = "idle"

\* tx_isr writes in the first clocks of a bit, or before the first byte.
SendsEarly ==
    /\ at["tx_isr"] = "w_select" => phase = "bus" /\ timer["tx_isr"] = 1
    /\ at["tx_isr"] \in {"w_strobe", "w_end"} => at["main"] = "idle"
    /\ at["tx_isr"] # "idle" =>
         /\ ~reg_empty /\ timer["tx_isr"] >= 1 /\ SendLeft <= 5
         /\ departed = <<>> \/ PhaseTx + SendLeft <= (IF phase = "edge" THEN 6 ELSE 7)
    /\ idx # 0 => departed # <<>>
    /\ reg_empty /\ ~buf_empty => departed = <<>> \/ PhaseTx = 1
    /\ phase = "irq" /\ ~irqTx /\ buf_empty /\ ~reg_empty => departed = <<>> \/ PhaseTx = 2

\* The receiver: no error, and buff_out is the last byte received.
Hears ==
    /\ Received
    /\ d_rdy \in BOOLEAN /\ o_err = FALSE /\ f_err = FALSE
    /\ Got >= 1 => buff_out = received[Got]

\* rx_isr reads a byte in the three clocks after the look that completes it.
ReadsAtOnce ==
    /\ read \in BOOLEAN
    /\ phase # "irq" => irqRx = d_rdy
    /\ at["rx_isr"] # "idle" \/ d_rdy => Got >= 1
    /\ at["rx_isr"] = "idle" =>
         ~read /\ (d_rdy => phase = "irq" /\ ~irqRx /\ Elapsed = 1 - 8 * R)
    /\ at["rx_isr"] # "idle" => timer["rx_isr"] = 1
    /\ at["rx_isr"] = "r_select" =>
         phase = "bus" /\ read /\ d_rdy /\ Elapsed = 1 - 8 * R /\ data_out = rx_data
    /\ at["rx_isr"] = "r_sample" =>
         /\ read /\ (d_rdy <=> phase = "edge")
         /\ Elapsed = (IF phase = "edge" THEN 1 ELSE 2) - 8 * R
    /\ at["rx_isr"] = "r_end" =>
         ~read /\ ~d_rdy /\ Elapsed = (IF phase = "edge" THEN 2 ELSE 3) - 8 * R

\* What the i-th read returns; a byte is fresh until its read samples the bus.
Late(i) == IF i = 1 THEN Rx!Zeros ELSE received[i - 1]
Fresh == d_rdy /\ at["rx_isr"] \in {"idle", "r_select"}
PrintsLate ==
    /\ printed \in Seq(Byte) /\ Len(printed) = IF Fresh THEN Got - 1 ELSE Got
    /\ \A i \in 1 .. Len(printed) : printed[i] = Late(i)
    /\ rx_data = Late(IF d_rdy THEN Got ELSE Got + 1)

\* The inductive invariant, when the looks have moved by lag clocks.
BenchInv(lag) == /\ reset => L!LinkInv(lag)
                 /\ BootEnds /\ SendsEarly /\ Hears /\ ReadsAtOnce /\ PrintsLate

-----------------------------------------------------------------------------
\* While a byte is read the transmitter is in the middle of a bit.
LEMMA ReadTime ==
    ASSUME NEW lag, Fits(lag), L!LinkInv(lag), Elapsed \in 1 - 8 * R .. 3 - 8 * R
    PROVE  PhaseTx \in Int /\ PhaseTx > 8 /\ PhaseTx < T /\ ~en_tx /\ ~L!Look
<1>1. PICK looked \in BOOLEAN : L!Timing(lag, looked)
  BY Zenon DEF L!LinkInv
<1>2. L!ClocksOK
  BY Zenon DEF L!LinkInv
<1>3. PhaseTx = lag + (IF looked THEN 16 * R ELSE 0) + Elapsed
  BY <1>1, Lengths, Zenon DEF L!Timing, PhaseTx, Elapsed
<1>4. /\ PhaseTx \in 0 .. T /\ (en_tx <=> PhaseTx = T)
      /\ Elapsed \in Int /\ (L!Look <=> Elapsed = 8 * R)
  BY <1>2, Times, Zenon
<1>5. /\ lag \in Int /\ 8 < 8 * R + lag /\ 8 * R + lag + 4 < T /\ 8 * R + lag + 4 < 16 * R
  BY Zenon DEF Fits
<1>6. PICK r \in Nat, t \in Nat, p \in Int, e \in Int :
         r = R /\ t = T /\ p = PhaseTx /\ e = Elapsed
  BY <1>4, Lengths
<1>7. /\ p >= 0 /\ e >= 1 - 8 * r /\ e <= 3 - 8 * r /\ r >= 2
      /\ 8 < 8 * r + lag /\ 8 * r + lag + 4 < t /\ 8 * r + lag + 4 < 16 * r
      /\ p = lag + (IF looked THEN 16 * r ELSE 0) + e
  BY <1>3, <1>4, <1>5, <1>6, Lengths
<1>8. p > 8 /\ p < t /\ e # 8 * r
  <2>1. CASE looked = TRUE
    BY <1>5, <1>6, <1>7, <2>1
  <2>2. CASE looked = FALSE
    BY <1>5, <1>6, <1>7, <2>2
  <2>3. QED
    BY <2>1, <2>2
<1>9. PhaseTx \in Int /\ PhaseTx > 8 /\ PhaseTx < T /\ PhaseTx # T /\ Elapsed # 8 * R
  BY <1>6, <1>8
<1>10. QED
  BY <1>4, <1>9, Zenon

\* While a byte is read nobody else uses the bus.
LEMMA ReadAlone ==
    ASSUME NEW lag, Fits(lag), MsgInv, BenchInv(lag), at["rx_isr"] # "idle" \/ d_rdy
    PROVE  /\ at["main"] = "idle" /\ at["tx_isr"] = "idle"
           /\ reset = TRUE /\ departed # <<>> /\ PhaseTx \in Int /\ PhaseTx > 8
<1>1. at["rx_isr"] \in {"r_select", "r_sample", "r_end"} \/ (at["rx_isr"] = "idle" /\ d_rdy)
  BY DEF MsgInv, Stations
<1>2. departed # <<>> /\ Got >= 1
  <2>1. Got >= 1 /\ Got <= Len(departed) /\ Got \in Nat
    BY DEF BenchInv, ReadsAtOnce, Hears, Received, Got
  <2>2. QED
    BY <2>1, EmptySeq
<1>3. reset = TRUE
  BY <1>2, Zenon DEF MsgInv, AtBoot
<1>4. at["main"] = "idle"
  BY <1>2, Zenon DEF BenchInv, BootEnds
<1>5. Elapsed \in {1 - 8 * R, 2 - 8 * R, 3 - 8 * R}
  BY <1>1 DEF BenchInv, ReadsAtOnce
<1>6. Elapsed \in 1 - 8 * R .. 3 - 8 * R
  BY <1>5, Lengths
<1>7. PhaseTx > 8 /\ PhaseTx \in Int
  BY <1>3, <1>6, ReadTime, Zenon DEF BenchInv
<1>8. at["tx_isr"] = "idle"
  <2> SUFFICES ASSUME at["tx_isr"] # "idle" PROVE FALSE
    OBVIOUS
  <2>1. SendLeft >= 1 /\ SendLeft \in Int
    <3>1. timer["tx_isr"] >= 1 /\ timer["tx_isr"] \in Nat
      BY DEF BenchInv, SendsEarly, MsgInv, Stations, Threads
    <3>2. QED
      BY <3>1 DEF SendLeft
  <2>2. PhaseTx + SendLeft <= (IF phase = "edge" THEN 6 ELSE 7)
    BY <1>2, Zenon DEF BenchInv, SendsEarly
  <2>3. PICK p \in Int, l \in Int : p = PhaseTx /\ l = SendLeft
    BY <1>7, <2>1
  <2>4. QED
    BY <1>7, <2>1, <2>2, <2>3
<1>9. QED
  BY <1>2, <1>3, <1>4, <1>7, <1>8, Zenon

Reading == {"r_select", "r_sample"}

\* A thread that is alone on the bus has the levels it drives.
LEMMA LoneDriver ==
    ASSUME NEW w \in [Threads -> DOMAIN Drives], NEW u \in Threads,
           \A t \in Threads : t # u => w[t] = "idle"
    PROVE  /\ w[u] = "w_strobe" => Resolve(w, "ce") = "1" /\ Resolve(w, "wr") = "1"
           /\ w[u] \in Reading => Resolve(w, "ce") = "1" /\ Resolve(w, "rd") = "1"
           /\ w[u] = "r_end" => Resolve(w, "rd") = "0"
<1>1. ASSUME NEW sig \in {"ce", "wr", "rd"}
      PROVE  Resolve(w, sig) = Level(w, u, sig)
  <2>1. \A t \in Threads : t # u => Level(w, t, sig) = "Z"
    BY DEF Level, Drives
  <2>2. QED
    BY <2>1, ResolvedLevels, SMT
<1>2. /\ w[u] = "w_strobe" => Level(w, u, "ce") = "1" /\ Level(w, u, "wr") = "1"
      /\ w[u] \in Reading => Level(w, u, "ce") = "1" /\ Level(w, u, "rd") = "1"
      /\ w[u] = "r_end" => Level(w, u, "rd") = "0"
  BY DEF Level, Drives, Reading
<1>3. QED
  BY <1>1, <1>2

\* Nobody drives rd but a thread that reads.
LEMMA NobodyReads ==
    ASSUME NEW w \in [Threads -> DOMAIN Drives], \A t \in Threads : w[t] \notin Reading
    PROVE  Resolve(w, "rd") # "1"
<1>1. \A t \in Threads : Level(w, t, "rd") # "1"
  BY DrivenLevels DEF Reading
<1>2. QED
  BY <1>1, ResolvedLevels, SMT

\* What a change of the bus, or none, does to read.
LEMMA ReadFollows ==
    ASSUME at \in [Threads -> DOMAIN Drives], at' \in [Threads -> DOMAIN Drives],
           read \in BOOLEAN, Propagate
    PROVE  /\ (\A t \in Threads : at'[t] \notin Reading) => read' \in BOOLEAN /\ (read' => read)
           /\ at'["rx_isr"] \in Reading /\ at'["main"] = "idle" /\ at'["tx_isr"] = "idle" =>
                /\ read => read' = TRUE
                /\ (\A t \in Threads : at[t] \notin Reading) => read' = TRUE /\ data_out' = rx_data
           /\ /\ at'["rx_isr"] = "r_end" /\ at'["main"] = "idle" /\ at'["tx_isr"] = "idle"
              /\ at["rx_isr"] = "r_sample" /\ at["main"] = "idle" /\ at["tx_isr"] = "idle"
              => read' = FALSE
<1> DEFINE ce == Resolve(at', "ce")
           rd == Resolve(at', "rd")
<1>1. \/ rd = "1" /\ ce = "1" /\ read' = (0 = 0) /\ data_out' = IF 0 = 0 THEN rx_data ELSE Undriven
      \/ (ce = "0" \/ rd = "0" \/ 0 > 1) /\ read' = FALSE
      \/ read' = read /\ ~(ce = "1" /\ rd = "1") /\ ce # "0" /\ rd # "0"
      \/ read' = read /\ Bus(at', char') = Bus(at, char)
  BY Zenon DEF Propagate, Bus, busVars, InterfaceProcess
<1>2. \/ rd = "1" /\ ce = "1" /\ read' = TRUE /\ data_out' = rx_data
      \/ (ce = "0" \/ rd = "0") /\ read' = FALSE
      \/ read' = read /\ ~(ce = "1" /\ rd = "1") /\ rd # "0"
      \/ read' = read /\ Bus(at', char') = Bus(at, char)
  <2>1. (0 = 0) = TRUE /\ ~(0 > 1)
    OBVIOUS
  <2>2. (IF 0 = 0 THEN rx_data ELSE Undriven) = rx_data
    OBVIOUS
  <2>3. QED
    BY <1>1, <2>1, <2>2, Zenon
<1>3. Bus(at', char') = Bus(at, char) => rd = Resolve(at, "rd")
  BY DEF Bus
<1>4. (\A t \in Threads : at'[t] \notin Reading) => read' \in BOOLEAN /\ (read' => read)
  <2>1. (\A t \in Threads : at'[t] \notin Reading) => rd # "1"
    BY NobodyReads
  <2>2. QED
    BY <1>2, <2>1
<1>5. ASSUME at'["rx_isr"] \in Reading, at'["main"] = "idle", at'["tx_isr"] = "idle"
      PROVE  /\ read => read' = TRUE
             /\ (\A t \in Threads : at[t] \notin Reading) => read' = TRUE /\ data_out' = rx_data
  <2>1. "rx_isr" \in Threads /\ \A t \in Threads : t # "rx_isr" => at'[t] = "idle"
    BY <1>5 DEF Threads
  <2>2. ce = "1" /\ rd = "1"
    BY <1>5, <2>1, LoneDriver
  <2>3. (\A t \in Threads : at[t] \notin Reading) => Resolve(at, "rd") # "1"
    BY NobodyReads
  <2>4. QED
    BY <1>2, <1>3, <2>2, <2>3
<1>6. ASSUME at'["rx_isr"] = "r_end", at'["main"] = "idle", at'["tx_isr"] = "idle",
             at["rx_isr"] = "r_sample", at["main"] = "idle", at["tx_isr"] = "idle"
      PROVE  read' = FALSE
  <2>1. "rx_isr" \in Threads /\ \A t \in Threads : t # "rx_isr" => at'[t] = "idle" /\ at[t] = "idle"
    BY <1>6 DEF Threads
  <2>2. rd = "0"
    BY <1>6, <2>1, LoneDriver
  <2>3. Resolve(at, "rd") = "1"
    BY <1>6, <2>1, LoneDriver DEF Reading
  <2>4. QED
    BY <1>2, <1>3, <2>2, <2>3
<1>7. QED
  BY <1>4, <1>5, <1>6, Zenon

\* The units and their time rest while the bench moves.
LEMMA TimeRests ==
    ASSUME UNCHANGED unitVars, UNCHANGED <<departed, received>>, NEW lag
    PROVE  /\ PhaseTx' = PhaseTx /\ Elapsed' = Elapsed /\ Got' = Got
           /\ L!LinkInv(lag) => L!LinkInv(lag)'
           /\ UNCHANGED <<reg_empty, buf_empty, idx, d_rdy, o_err, f_err, buff_out, rx_data>>
           /\ UNCHANGED <<departed, received>>
<1>1. /\ cnt_tx' = cnt_tx /\ en_tx' = en_tx /\ cnt_rx' = cnt_rx /\ en_rx' = en_rx
      /\ sample_count' = sample_count
      /\ UNCHANGED <<reg_empty, buf_empty, idx, d_rdy, o_err, f_err, buff_out, rx_data>>
      /\ UNCHANGED <<departed, received>> /\ departed' = departed /\ received' = received
  BY Zenon DEF unitVars
<1>2. PhaseTx' = PhaseTx
  BY <1>1, Zenon DEF PhaseTx, L!PhaseTx, L!T, L!TxBit
<1>3. Elapsed' = Elapsed
  BY <1>1, Zenon DEF Elapsed, L!Elapsed, L!Place, L!PhaseRx, L!R
<1>4. Got' = Got
  BY <1>1, Zenon DEF Got
<1>5. OnWire' = OnWire
  BY <1>1, Zenon DEF OnWire
<1>6. UNCHANGED L!linkVars
  BY <1>5, Zenon DEF L!linkVars, unitVars
<1>7. L!LinkInv(lag) => L!LinkInv(lag)'
  BY <1>6, LinkFacts, Zenon
<1>8. QED
  BY <1>1, <1>2, <1>3, <1>4, <1>7, Zenon

\* The receiver rests with its signals and histories.
LEMMA HearsRests ==
    ASSUME Hears, UNCHANGED <<d_rdy, o_err, f_err, buff_out>>, UNCHANGED <<departed, received>>
    PROVE  Hears'
  BY Zenon DEF Hears, Received, Got

\* Where the waits that end, and those that do not, lead.
LEMMA RunTimers ==
    ASSUME Stations, RunThreads
    PROVE  \A t \in Threads :
              /\ Due(t) => /\ at'[t] = After[at[t]]
                           /\ at'[t] # "settle" => timer'[t] = Clocks[at'[t]]
              /\ ~Due(t) => /\ at'[t] = at[t]
                            /\ timer'[t] = IF timer[t] = 0 THEN 0 ELSE timer[t] - 1
<1>1. \A t \in Threads : at'[t] = IF Due(t) THEN After[at[t]] ELSE at[t]
  BY Zenon DEF RunThreads
<1>2. PICK s \in SETTLE :
           timer' = [t \in Threads |->
                     IF ~Due(t) THEN IF timer[t] = 0 THEN 0 ELSE timer[t] - 1
                     ELSE IF at'[t] = "settle" THEN s
                     ELSE Clocks[at'[t]]]
  BY Zenon DEF RunThreads
<1>3. QED
  BY <1>1, <1>2, Zenon

\* The sender's waits in one step of the threads.
LEMMA RunSends ==
    ASSUME MsgInv, SendsEarly, RunThreads, at["tx_isr"] # "idle"
    PROVE  /\ at'["tx_isr"] \in {"w_strobe", "w_end", "idle"}
           /\ at'["tx_isr"] # "idle" => timer'["tx_isr"] >= 1 /\ SendLeft' = SendLeft - 1
           /\ SendLeft \in Int
<1>0. "tx_isr" \in Threads
  BY DEF Threads
<1>1. /\ at["tx_isr"] \in {"w_select", "w_strobe", "w_end"} /\ timer["tx_isr"] \in Nat
      /\ timer["tx_isr"] >= 1
      /\ at["tx_isr"] = "w_select" => timer["tx_isr"] = 1
  BY <1>0 DEF MsgInv, Stations, SendsEarly
<1>2. /\ Due("tx_isr") => /\ at'["tx_isr"] = After[at["tx_isr"]]
                          /\ at'["tx_isr"] # "settle" => timer'["tx_isr"] = Clocks[at'["tx_isr"]]
      /\ ~Due("tx_isr") => /\ at'["tx_isr"] = at["tx_isr"]
                           /\ timer'["tx_isr"] = IF timer["tx_isr"] = 0 THEN 0
                                                 ELSE timer["tx_isr"] - 1
  BY <1>0, RunTimers, Zenon DEF MsgInv
<1>3. CASE Due("tx_isr")
  <2>1. timer["tx_isr"] = 1
    BY <1>3 DEF Due
  <2>2. CASE at["tx_isr"] = "w_select"
    <3>1. at'["tx_isr"] = "w_strobe" /\ timer'["tx_isr"] = 3
      BY <1>2, <1>3, <2>2 DEF After, Clocks
    <3>2. QED
      BY <2>1, <2>2, <3>1 DEF SendLeft
  <2>3. CASE at["tx_isr"] = "w_strobe"
    <3>1. at'["tx_isr"] = "w_end" /\ timer'["tx_isr"] = 1
      BY <1>2, <1>3, <2>3 DEF After, Clocks
    <3>2. QED
      BY <2>1, <2>3, <3>1 DEF SendLeft
  <2>4. CASE at["tx_isr"] = "w_end"
    <3>1. at'["tx_isr"] = "idle"
      BY <1>2, <1>3, <2>4 DEF After
    <3>2. QED
      BY <2>1, <2>4, <3>1 DEF SendLeft
  <2>5. QED
    BY <1>1, <2>2, <2>3, <2>4
<1>4. CASE ~Due("tx_isr")
  <2>1. timer["tx_isr"] >= 2 /\ at["tx_isr"] \in {"w_strobe", "w_end"}
    BY <1>1, <1>4 DEF Due
  <2>2. at'["tx_isr"] = at["tx_isr"] /\ timer'["tx_isr"] = timer["tx_isr"] - 1
    BY <1>1, <1>2, <1>4, <2>1
  <2>3. QED
    BY <1>1, <2>1, <2>2 DEF SendLeft
<1>5. QED
  BY <1>3, <1>4, Zenon

\* What a read returns is a byte.
LEMMA LateIsByte ==
    ASSUME Hears, Got >= 1
    PROVE  Late(Got) \in Byte /\ Got \in Nat
<1>1. Got \in Nat /\ received \in Seq(Byte) /\ Got = Len(received)
  BY DEF Hears, Received, Got
<1>2. Rx!Zeros \in Byte
  BY DEF Rx!Zeros, Rx!Bits, Bits, Byte, Bit
<1>3. Got # 1 => received[Got - 1] \in Byte
  BY <1>1
<1>4. QED
  BY <1>1, <1>2, <1>3, Zenon DEF Late

\* The threads run: "bus".
LEMMA RunBench ==
    ASSUME MsgInv, NEW lag, Fits(lag), BenchInv(lag), RunThreads
    PROVE  BenchInv(lag)'
<1>0. /\ MsgInv' /\ phase = "bus" /\ phase' = "edge" /\ Propagate
      /\ irqTx' = irqTx /\ irqRx' = irqRx
      /\ BootEnds /\ SendsEarly /\ Hears /\ ReadsAtOnce /\ PrintsLate
  BY RunKeeps, Zenon DEF RunThreads, BenchInv, irqVars
<1>1. /\ PhaseTx' = PhaseTx /\ Elapsed' = Elapsed /\ Got' = Got
      /\ L!LinkInv(lag) => L!LinkInv(lag)'
      /\ UNCHANGED <<reg_empty, buf_empty, idx, d_rdy, o_err, f_err, buff_out, rx_data>>
      /\ UNCHANGED <<departed, received>>
  BY TimeRests, Zenon DEF RunThreads
<1>2. \A t \in Threads :
              /\ Due(t) => /\ at'[t] = After[at[t]]
                           /\ at'[t] # "settle" => timer'[t] = Clocks[at'[t]]
              /\ ~Due(t) => /\ at'[t] = at[t]
                            /\ timer'[t] = IF timer[t] = 0 THEN 0 ELSE timer[t] - 1
  BY RunTimers, Zenon DEF MsgInv
<1>3. /\ at \in [Threads -> DOMAIN Drives] /\ at' \in [Threads -> DOMAIN Drives]
      /\ \A t \in Threads : at[t] = "idle" => timer[t] = 0 /\ at'[t] = "idle"
      /\ "main" \in Threads /\ "tx_isr" \in Threads /\ "rx_isr" \in Threads
  <2>1. \A t \in Threads : at[t] = "idle" => timer[t] = 0 /\ ~Due(t)
    BY DEF MsgInv, Stations, Due
  <2>2. QED
    BY <1>0, <1>2, <2>1 DEF MsgInv, Stations, Threads
<1>4. (reset' => reset) /\ (at'["main"] = "resetTest" => reset')
  <2>1. CASE Due("main") /\ at["main"] = "resetTest"
    <3>1. reset /\ at'["main"] # "resetTest"
      BY <1>0, <1>2, <1>3, <2>1 DEF BootEnds, After
    <3>2. QED
      BY <3>1, Zenon
  <2>2. CASE ~(Due("main") /\ at["main"] = "resetTest")
    <3>1. reset' = reset
      BY <2>2, Zenon DEF RunThreads
    <3>2. at'["main"] = "resetTest" => at["main"] = "resetTest"
      <4>1. at["main"] \in DOMAIN Drives
        BY <1>3
      <4>2. Due("main") => at["main"] # "idle" /\ at'["main"] = After[at["main"]]
        BY <1>2, <1>3 DEF Due
      <4>3. ~Due("main") => at'["main"] = at["main"]
        BY <1>2, <1>3
      <4>4. QED
        BY <4>1, <4>2, <4>3, NextWait DEF Drives
    <3>3. QED
      BY <1>0, <3>1, <3>2, Zenon DEF BootEnds
  <2>3. QED
    BY <2>1, <2>2, Zenon
<1>5. reset' => L!LinkInv(lag)'
  BY <1>1, <1>4, Zenon DEF BenchInv
<1>6. BootEnds'
  <2>1. at'["main"] # "idle" => departed' = <<>>
    BY <1>0, <1>1, <1>3, Zenon DEF BootEnds
  <2>2. ASSUME at'["main"] = "w_end"
        PROVE  timer'["main"] = 1 /\ reg_empty' /\ at'["tx_isr"] = "idle"
    <3>1. at["main"] # "w_end"
      BY <1>0, <1>2, <1>3, <2>2 DEF BootEnds, Due, After
    <3>2. Due("main") /\ at'["main"] = After[at["main"]]
      BY <1>2, <1>3, <2>2, <3>1
    <3>3. at["main"] = "w_strobe"
      <4>1. at["main"] \in DOMAIN Drives
        BY <1>3
      <4>2. at["main"] # "idle"
        BY <1>3, <2>2
      <4>3. QED
        BY <2>2, <3>2, <4>1, <4>2, NextWait DEF Drives
    <3>4. timer'["main"] = 1
      BY <1>2, <1>3, <2>2, <3>2 DEF Clocks
    <3>5. Booting
      BY <3>3 DEF Booting
    <3>6. at["tx_isr"] = "idle" /\ reg_empty
      BY <3>5, Zenon DEF MsgInv, AtBoot
    <3>7. QED
      BY <1>1, <1>3, <3>4, <3>6, Zenon
  <2>3. QED
    BY <1>4, <2>1, <2>2, Zenon DEF BootEnds
<1>7. SendsEarly'
  <2>1. at'["tx_isr"] # "idle" => at["tx_isr"] # "idle"
    BY <1>3
  <2>2. ASSUME at'["tx_isr"] # "idle"
        PROVE  /\ ~reg_empty' /\ timer'["tx_isr"] >= 1 /\ SendLeft' <= 5
               /\ departed' = <<>> \/ PhaseTx' + SendLeft' <= 6
               /\ at'["tx_isr"] \in {"w_strobe", "w_end"} /\ at'["main"] = "idle"
    <3>1. /\ at'["tx_isr"] \in {"w_strobe", "w_end"} /\ timer'["tx_isr"] >= 1
          /\ SendLeft' = SendLeft - 1 /\ SendLeft \in Int
      BY <1>0, <2>1, <2>2, RunSends
    <3>2. /\ ~reg_empty /\ SendLeft <= 5
          /\ departed = <<>> \/ PhaseTx + SendLeft <= 7
      BY <1>0, <2>1, <2>2 DEF SendsEarly
    <3>3. departed # <<>> => PhaseTx' + SendLeft' <= 6
      <4> SUFFICES ASSUME departed # <<>> PROVE PhaseTx' + SendLeft' <= 6
        OBVIOUS
      <4>1. reset = TRUE
        BY Zenon DEF MsgInv, AtBoot
      <4>2. PhaseTx \in Int
        <5>1. PhaseTx \in 0 .. T
          BY <4>1, Times, Zenon DEF BenchInv, L!LinkInv
        <5>2. QED
          BY <5>1, Lengths
      <4>3. PICK p \in Int, l \in Int : p = PhaseTx /\ l = SendLeft
        BY <3>1, <4>2
      <4>4. p + l <= 7
        BY <3>2, <4>3
      <4>5. p + (l - 1) <= 6
        BY <4>4
      <4>6. PhaseTx' = p /\ SendLeft' = l - 1
        BY <1>1, <3>1, <4>3, Zenon
      <4>7. QED
        BY <4>5, <4>6, Zenon
    <3>4. at'["main"] = "idle"
      <4>1. at["tx_isr"] \in {"w_select", "w_strobe", "w_end"}
        BY <2>1, <2>2 DEF MsgInv, Stations
      <4>2. CASE at["main"] = "idle"
        BY <1>3, <4>2
      <4>3. CASE at["main"] # "idle"
        <5>1. ~Booting
          BY <2>1, <2>2, Zenon DEF MsgInv, AtBoot
        <5>2. at["main"] = "w_end"
          BY <4>3, <5>1 DEF MsgInv, Stations
        <5>3. Due("main")
          BY <1>0, <5>2 DEF BootEnds, Due
        <5>4. QED
          BY <1>2, <1>3, <5>2, <5>3 DEF After
      <4>4. QED
        BY <4>2, <4>3
    <3>5. SendLeft' <= 5
      BY <3>1, <3>2
    <3>6. QED
      BY <1>1, <3>1, <3>2, <3>3, <3>4, <3>5, Zenon
  <2>3. at'["tx_isr"] # "w_select"
    BY <2>2
  <2>4. at'["tx_isr"] \in {"w_strobe", "w_end"} => at'["main"] = "idle"
    BY <2>2
  <2>5. /\ idx' # 0 => departed' # <<>>
        /\ reg_empty' /\ ~buf_empty' => departed' = <<>> \/ PhaseTx' = 1
    BY <1>0, <1>1, Zenon DEF SendsEarly
  <2>6. phase' # "irq" /\ phase' = "edge" /\ (IF phase' = "edge" THEN 6 ELSE 7) = 6
    BY <1>0
  <2>7. QED
    BY <2>2, <2>3, <2>4, <2>5, <2>6, Zenon DEF SendsEarly
<1>8. Hears'
  BY <1>0, <1>1, HearsRests, Zenon
<1>9. /\ at["rx_isr"] = "idle" => at'["rx_isr"] = "idle"
      /\ at["rx_isr"] = "r_select" => at'["rx_isr"] = "r_sample" /\ timer'["rx_isr"] = 1
      /\ at["rx_isr"] = "r_sample" => at'["rx_isr"] = "r_end" /\ timer'["rx_isr"] = 1
      /\ at["rx_isr"] = "r_end" => at'["rx_isr"] = "idle"
      /\ at["rx_isr"] \in {"idle", "r_select", "r_sample", "r_end"}
  <2>1. at["rx_isr"] \in {"idle", "r_select", "r_sample", "r_end"}
    BY DEF MsgInv, Stations
  <2>2. at["rx_isr"] # "idle" => Due("rx_isr")
    BY <1>0 DEF ReadsAtOnce, Due
  <2>3. QED
    BY <1>2, <1>3, <2>1, <2>2 DEF After, Clocks
<1>10. at["rx_isr"] # "idle" => /\ at["main"] = "idle" /\ at["tx_isr"] = "idle"
                                /\ at'["main"] = "idle" /\ at'["tx_isr"] = "idle"
  BY <1>3, ReadAlone, Zenon
<1>11. /\ (\A t \in Threads : at'[t] \notin Reading) => read' \in BOOLEAN /\ (read' => read)
       /\ at'["rx_isr"] \in Reading /\ at'["main"] = "idle" /\ at'["tx_isr"] = "idle" =>
            (read => read' = TRUE)
       /\ /\ at'["rx_isr"] = "r_end" /\ at'["main"] = "idle" /\ at'["tx_isr"] = "idle"
          /\ at["rx_isr"] = "r_sample" /\ at["main"] = "idle" /\ at["tx_isr"] = "idle"
          => read' = FALSE
  BY <1>0, <1>3, ReadFollows, Zenon DEF ReadsAtOnce
<1>12. at'["rx_isr"] \notin Reading => \A t \in Threads : at'[t] \notin Reading
  BY <1>0 DEF MsgInv, Stations, Threads, Reading, Booting
<1>13. ReadsAtOnce'
  <2>0. /\ (phase' # "irq" => irqRx' = d_rdy') /\ phase' = "edge" /\ phase' # "bus"
        /\ irqRx = d_rdy /\ d_rdy' = d_rdy /\ Elapsed' = Elapsed /\ Got' = Got
    <3>1. phase # "irq" /\ phase' # "bus"
      BY <1>0
    <3>2. QED
      BY <1>0, <1>1, <3>1, Zenon DEF ReadsAtOnce
  <2>1. CASE at["rx_isr"] = "idle"
    <3>1. at'["rx_isr"] = "idle" /\ ~read /\ ~d_rdy
      <4>1. phase # "irq"
        BY <1>0
      <4>2. QED
        BY <1>0, <1>9, <2>1, <4>1, Zenon DEF ReadsAtOnce
    <3>2. read' = FALSE
      <4>1. at'["rx_isr"] \notin Reading
        BY <3>1 DEF Reading
      <4>2. read' \in BOOLEAN /\ (read' => read)
        BY <1>11, <1>12, <4>1, Zenon
      <4>3. QED
        BY <3>1, <4>2, Zenon
    <3>3. QED
      BY <2>0, <3>1, <3>2 DEF ReadsAtOnce
  <2>2. CASE at["rx_isr"] = "r_select"
    <3>1. at'["rx_isr"] = "r_sample" /\ timer'["rx_isr"] = 1
      BY <1>9, <2>2
    <3>2. read /\ d_rdy /\ Elapsed = 1 - 8 * R /\ Got >= 1
      BY <1>0, <2>2 DEF ReadsAtOnce
    <3>3. read' = TRUE
      <4>1. at'["rx_isr"] \in Reading /\ at["rx_isr"] # "idle"
        BY <2>2, <3>1 DEF Reading
      <4>2. QED
        BY <1>10, <1>11, <3>2, <4>1, Zenon
    <3>4. (IF phase' = "edge" THEN 1 ELSE 2) = 1
      BY <2>0
    <3>5. QED
      BY <2>0, <3>1, <3>2, <3>3, <3>4 DEF ReadsAtOnce
  <2>3. CASE at["rx_isr"] = "r_sample"
    <3>1. at'["rx_isr"] = "r_end" /\ timer'["rx_isr"] = 1
      BY <1>9, <2>3
    <3>2. ~d_rdy /\ Elapsed = 2 - 8 * R /\ Got >= 1
      BY <1>0, <2>3 DEF ReadsAtOnce
    <3>3. read' = FALSE
      <4>1. at["rx_isr"] # "idle"
        BY <2>3
      <4>2. QED
        BY <1>10, <1>11, <2>3, <3>1, <4>1, Zenon
    <3>4. QED
      BY <2>0, <3>1, <3>2, <3>3 DEF ReadsAtOnce
  <2>4. CASE at["rx_isr"] = "r_end"
    <3>1. at'["rx_isr"] = "idle" /\ ~read /\ ~d_rdy
      BY <1>0, <1>9, <2>4 DEF ReadsAtOnce
    <3>2. read' = FALSE
      <4>1. at'["rx_isr"] \notin Reading
        BY <3>1 DEF Reading
      <4>2. read' \in BOOLEAN /\ (read' => read)
        BY <1>11, <1>12, <4>1, Zenon
      <4>3. QED
        BY <3>1, <4>2, Zenon
    <3>3. QED
      BY <2>0, <3>1, <3>2 DEF ReadsAtOnce
  <2>5. QED
    BY <1>9, <2>1, <2>2, <2>3, <2>4
<1>14. PrintsLate'
  <2>1. received' = received /\ rx_data' = rx_data /\ d_rdy' = d_rdy /\ Got' = Got
    BY <1>1, Zenon
  <2>2. \A i : Late(i)' = Late(i)
    BY <2>1, Zenon DEF Late, Rx!Zeros, Rx!Bits, Bits
  <2>3. CASE at["rx_isr"] = "r_select"
    <3>1. d_rdy /\ data_out = rx_data /\ Got >= 1 /\ Due("rx_isr")
      BY <1>0, <2>3 DEF ReadsAtOnce, Due
    <3>2. printed' = Append(printed, rx_data)
      BY <2>3, <3>1, Zenon DEF RunThreads
    <3>3. Fresh /\ ~Fresh'
      BY <1>9, <2>1, <2>3, <3>1 DEF Fresh
    <3>4. /\ printed \in Seq(Byte) /\ Len(printed) = Got - 1
          /\ \A i \in 1 .. Len(printed) : printed[i] = Late(i)
          /\ rx_data = Late(Got) /\ Got \in Nat
      BY <1>0, <3>1, <3>3 DEF PrintsLate, Hears, Received, Got
    <3>5. rx_data \in Byte
      BY <1>0, <3>1, <3>4, LateIsByte
    <3>6. /\ printed' \in Seq(Byte) /\ Len(printed') = Got
          /\ \A i \in 1 .. Got : printed'[i] = Late(i)
      BY <3>1, <3>2, <3>4, <3>5
    <3>7. /\ Len(printed') = IF Fresh' THEN Got' - 1 ELSE Got'
          /\ \A i \in 1 .. Len(printed') : printed'[i] = Late(i)'
          /\ rx_data' = Late(Got)
      BY <2>1, <2>2, <3>3, <3>4, <3>6, Zenon
    <3>8. QED
      BY <2>1, <2>2, <3>1, <3>6, <3>7, Zenon DEF PrintsLate
  <2>4. CASE at["rx_isr"] # "r_select"
    <3>1. printed' = printed
      BY <2>4, Zenon DEF RunThreads
    <3>2. Fresh' = Fresh
      <4>1. at["rx_isr"] \in {"idle", "r_select"} /\ d_rdy
              <=> at'["rx_isr"] \in {"idle", "r_select"} /\ d_rdy
        BY <1>0, <1>9, <2>4 DEF ReadsAtOnce
      <4>2. QED
        BY <2>1, <4>1, Zenon DEF Fresh
    <3>3. QED
      BY <1>0, <2>1, <2>2, <3>1, <3>2, Zenon DEF PrintsLate
  <2>5. QED
    BY <2>3, <2>4
<1>15. QED
  BY <1>5, <1>6, <1>7, <1>8, <1>13, <1>14, Zenon DEF BenchInv

\* The interrupts: "irq".
LEMMA IrqBench ==
    ASSUME MsgInv, NEW lag, Fits(lag), BenchInv(lag), Interrupts
    PROVE  BenchInv(lag)'
<1>0. /\ MsgInv' /\ phase = "irq" /\ phase' = "bus" /\ Propagate /\ reset' = reset
      /\ irqRx' = d_rdy /\ printed' = printed
      /\ BootEnds /\ SendsEarly /\ Hears /\ ReadsAtOnce /\ PrintsLate
  BY IrqKeeps, Zenon DEF Interrupts, BenchInv, Combinationnal, histVars
<1>1. /\ PhaseTx' = PhaseTx /\ Elapsed' = Elapsed /\ Got' = Got
      /\ L!LinkInv(lag) => L!LinkInv(lag)'
      /\ UNCHANGED <<reg_empty, buf_empty, idx, d_rdy, o_err, f_err, buff_out, rx_data>>
      /\ UNCHANGED <<departed, received>>
  BY TimeRests, Zenon DEF Interrupts, histVars
<1>2. /\ at'["main"] = at["main"]
      /\ at'["tx_isr"] = IF WakeTx THEN "w_select" ELSE at["tx_isr"]
      /\ at'["rx_isr"] = IF WakeRx THEN "r_select" ELSE at["rx_isr"]
  BY IrqMoves, Zenon
<1>3. \A t \in Threads : timer'[t] = IF at'[t] # at[t] THEN Clocks[at'[t]] ELSE timer[t]
  BY Zenon DEF Interrupts
<1>4. /\ at \in [Threads -> DOMAIN Drives] /\ at' \in [Threads -> DOMAIN Drives]
      /\ "main" \in Threads /\ "tx_isr" \in Threads /\ "rx_isr" \in Threads
  BY <1>0 DEF MsgInv, Stations, Threads
<1>5. reset' => L!LinkInv(lag)'
  BY <1>0, <1>1, Zenon DEF BenchInv
<1>6. BootEnds'
  <2>1. timer'["main"] = timer["main"]
    BY <1>2, <1>3, <1>4, Zenon
  <2>2. phase' # "edge" /\ phase' = "bus"
    BY <1>0
  <2>3. QED
    BY <1>0, <1>1, <1>2, <2>1, <2>2, Zenon DEF BootEnds
<1>7. SendsEarly'
  <2>1. /\ idx' # 0 => departed' # <<>>
        /\ reg_empty' /\ ~buf_empty' => departed' = <<>> \/ PhaseTx' = 1
    BY <1>0, <1>1, Zenon DEF SendsEarly
  <2>2. phase' # "irq" /\ phase' = "bus" /\ (IF phase' = "edge" THEN 6 ELSE 7) = 7
    BY <1>0
  <2>3. CASE WakeTx
    <3>1. at["tx_isr"] = "idle" /\ ~irqTx /\ buf_empty /\ ~reg_empty
      BY <2>3, Zenon DEF WakeTx, Interrupts, Combinationnal
    <3>2. at'["tx_isr"] = "w_select" /\ timer'["tx_isr"] = 1
      BY <1>2, <1>3, <1>4, <2>3, <3>1 DEF Clocks
    <3>3. SendLeft' = 5
      BY <3>2 DEF SendLeft
    <3>4. departed = <<>> \/ PhaseTx = 2
      BY <1>0, <3>1, Zenon DEF SendsEarly
    <3>5. departed' = <<>> \/ PhaseTx' + SendLeft' <= 7
      BY <1>1, <3>3, <3>4
    <3>6. ~reg_empty' /\ timer'["tx_isr"] >= 1 /\ SendLeft' <= 5
      BY <1>1, <3>1, <3>2, <3>3
    <3>7. at'["tx_isr"] \notin {"w_strobe", "w_end"}
      BY <3>2
    <3>8. QED
      BY <2>1, <2>2, <3>2, <3>5, <3>6, <3>7, Zenon DEF SendsEarly
  <2>4. CASE ~WakeTx
    <3>1. at'["tx_isr"] = at["tx_isr"] /\ timer'["tx_isr"] = timer["tx_isr"]
      BY <1>2, <1>3, <1>4, <2>4, Zenon
    <3>2. SendLeft' = SendLeft
      BY <3>1, Zenon DEF SendLeft
    <3>3. (IF phase = "edge" THEN 6 ELSE 7) = 7 /\ phase # "bus"
      BY <1>0
    <3>4. QED
      BY <1>0, <1>1, <1>2, <2>1, <2>2, <3>1, <3>2, <3>3, Zenon DEF SendsEarly
  <2>5. QED
    BY <2>3, <2>4, Zenon
<1>8. Hears'
  BY <1>0, <1>1, HearsRests, Zenon
<1>9. /\ (\A t \in Threads : at'[t] \notin Reading) => read' \in BOOLEAN /\ (read' => read)
      /\ at'["rx_isr"] \in Reading /\ at'["main"] = "idle" /\ at'["tx_isr"] = "idle" =>
           /\ read => read' = TRUE
           /\ (\A t \in Threads : at[t] \notin Reading) => read' = TRUE /\ data_out' = rx_data
  BY <1>0, <1>4, ReadFollows, Zenon DEF ReadsAtOnce
<1>10. /\ at'["rx_isr"] \notin Reading => \A t \in Threads : at'[t] \notin Reading
       /\ at["rx_isr"] \notin Reading => \A t \in Threads : at[t] \notin Reading
  BY <1>0 DEF MsgInv, Stations, Threads, Reading, Booting
<1>11. at["rx_isr"] # "idle" \/ d_rdy => at'["main"] = "idle" /\ at'["tx_isr"] = "idle"
  <2> SUFFICES ASSUME at["rx_isr"] # "idle" \/ d_rdy
               PROVE  at'["main"] = "idle" /\ at'["tx_isr"] = "idle"
    OBVIOUS
  <2>1. /\ at["main"] = "idle" /\ at["tx_isr"] = "idle"
        /\ departed # <<>> /\ PhaseTx \in Int /\ PhaseTx > 8
    BY ReadAlone, Zenon
  <2>2. ~WakeTx
    <3>1. PhaseTx # 2
      BY <2>1
    <3>2. QED
      BY <1>0, <2>1, <3>1, Zenon DEF WakeTx, SendsEarly, Interrupts, Combinationnal
  <2>3. QED
    BY <1>2, <2>1, <2>2, Zenon
<1>12. at["rx_isr"] \in {"idle", "r_sample", "r_end"}
  BY <1>0 DEF MsgInv, Stations, ReadsAtOnce
<1>13. /\ (phase' # "irq" => irqRx' = d_rdy') /\ phase' = "bus" /\ phase' # "edge"
       /\ d_rdy' = d_rdy /\ Elapsed' = Elapsed /\ Got' = Got /\ rx_data' = rx_data
  BY <1>0, <1>1
<1>14. ReadsAtOnce' /\ Fresh' = Fresh
  <2>1. CASE at["rx_isr"] = "idle" /\ d_rdy
    <3>1. WakeRx /\ Elapsed = 1 - 8 * R /\ Got >= 1
      BY <1>0, <2>1, Zenon DEF WakeRx, ReadsAtOnce
    <3>2. at'["rx_isr"] = "r_select" /\ timer'["rx_isr"] = 1
      BY <1>2, <1>3, <1>4, <2>1, <3>1 DEF Clocks
    <3>3. read' = TRUE /\ data_out' = rx_data
      <4>1. at'["rx_isr"] \in Reading /\ at["rx_isr"] \notin Reading
        BY <2>1, <3>2 DEF Reading
      <4>2. QED
        BY <1>9, <1>10, <1>11, <2>1, <4>1, Zenon
    <3>4. ReadsAtOnce'
      BY <1>13, <2>1, <3>1, <3>2, <3>3 DEF ReadsAtOnce
    <3>5. Fresh' = Fresh
      BY <1>13, <2>1, <3>2 DEF Fresh
    <3>6. QED
      BY <3>4, <3>5
  <2>2. CASE ~(at["rx_isr"] = "idle" /\ d_rdy)
    <3>1. at'["rx_isr"] = at["rx_isr"] /\ timer'["rx_isr"] = timer["rx_isr"]
      <4>1. ~WakeRx
        BY <1>0, <2>2, Zenon DEF WakeRx
      <4>2. QED
        BY <1>2, <1>3, <1>4, <4>1, Zenon
    <3>2. Fresh' = Fresh
      BY <1>13, <3>1, Zenon DEF Fresh
    <3>3. ~d_rdy
      BY <1>0, <1>12, <2>2 DEF ReadsAtOnce
    <3>4. CASE at["rx_isr"] = "r_sample"
      <4>1. read /\ Elapsed = 2 - 8 * R /\ Got >= 1 /\ timer["rx_isr"] = 1
        BY <1>0, <3>4 DEF ReadsAtOnce
      <4>2. read' = TRUE
        <5>1. at'["rx_isr"] \in Reading /\ at["rx_isr"] # "idle"
          BY <3>1, <3>4 DEF Reading
        <5>2. QED
          BY <1>9, <1>11, <4>1, <5>1, Zenon
      <4>3. QED
        BY <1>13, <3>1, <3>2, <3>3, <3>4, <4>1, <4>2 DEF ReadsAtOnce
    <3>5. CASE at["rx_isr"] \in {"idle", "r_end"}
      <4>1. ~read
        BY <1>0, <3>5 DEF ReadsAtOnce
      <4>2. read' = FALSE
        <5>1. at'["rx_isr"] \notin Reading
          BY <3>1, <3>5 DEF Reading
        <5>2. read' \in BOOLEAN /\ (read' => read)
          BY <1>9, <1>10, <5>1, Zenon
        <5>3. QED
          BY <4>1, <5>2, Zenon
      <4>3. at["rx_isr"] = "r_end" => Elapsed = 3 - 8 * R /\ Got >= 1 /\ timer["rx_isr"] = 1
        BY <1>0 DEF ReadsAtOnce
      <4>4. QED
        BY <1>13, <3>1, <3>2, <3>3, <3>5, <4>2, <4>3 DEF ReadsAtOnce
    <3>6. QED
      BY <1>12, <3>4, <3>5
  <2>3. QED
    BY <2>1, <2>2, Zenon
<1>15. PrintsLate'
  <2>1. \A i : Late(i)' = Late(i)
    BY <1>1, Zenon DEF Late, Rx!Zeros, Rx!Bits, Bits
  <2>2. QED
    BY <1>0, <1>13, <1>14, <2>1, Zenon DEF PrintsLate
<1>16. QED
  BY <1>5, <1>6, <1>7, <1>8, <1>14, <1>15, Zenon DEF BenchInv

\* A rising edge of sys_clk out of reset is a step of the link.
LEMMA MoveLink ==
    ASSUME MsgInv, NEW lag, Fits(lag), L!LinkInv(lag), Hears, read \in BOOLEAN, MoveUnits, reset,
           NEW next, next = NextOf(lag)
    PROVE  /\ L!LinkInv(next)'
           /\ PhaseTx' = IF en_tx THEN PhaseTx + 1 - T ELSE PhaseTx + 1
           /\ Elapsed' = IF Elapsed = 8 * R THEN Elapsed + 1 - 16 * R ELSE Elapsed + 1
           /\ Rx!Completes(en_rx) => /\ Elapsed = 8 * R /\ ~(en_tx /\ ~reg_empty /\ idx = 0)
                                     /\ Got < Len(departed) /\ shift_reg = departed[Got + 1]
                                     /\ received' = Append(received, shift_reg)
                                     /\ shift_reg \in Byte /\ buff_out' = shift_reg
           /\ ~Rx!Completes(en_rx) => received' = received /\ buff_out' = buff_out
           /\ en_tx /\ ~reg_empty /\ idx = 0 => reg \in Byte
<1> DEFINE dep == en_tx /\ ~reg_empty /\ idx = 0
<1>0. /\ TxClk!DivTick /\ RxClk!DivTick
      /\ Tx!TxTick(load, tx_data, en_tx) /\ Rx!RxTick(en_rx, read)
      /\ departed' = IF dep THEN Append(departed, reg) ELSE departed
      /\ received' = IF Rx!Completes(en_rx) THEN Append(received, shift_reg) ELSE received
  BY Zenon DEF MoveUnits, Edge
<1>1. /\ L!ClocksOK /\ Received
      /\ shift_reg \in L!Byte /\ (~reg_empty => reg \in L!Byte) /\ L!Byte = Byte
  BY Zenon DEF L!LinkInv, L!TxOK, L!RxOK, Hears, L!Byte, Byte, L!Bits, Bits, L!Bit, Bit
<1>2. Rx!Completes(en_rx) => L!Look
  <2>1. Rx!Completes(en_rx) => en_rx /\ sample_count + 1 = 8
    BY DEF Rx!Completes, Rx!AtStop, Rx!Looks, Rx!MIDDLE
  <2>2. sample_count + 1 = 8 => sample_count = 7
    <3>1. sample_count \in 0 .. 15
      BY <1>1, Zenon DEF L!ClocksOK
    <3>2. QED
      BY <3>1
  <2>3. QED
    BY <2>1, <2>2, Zenon DEF L!Look
<1>3. L!LagFits(lag) /\ next = L!NextLag(lag)
  BY FitsLag, Zenon
<1>4. ~(en_tx /\ L!Look)
  BY <1>3, LinkFacts, Zenon
<1>5. OnWire' = (IF Rx!Completes(en_rx) /\ OnWire # <<>> THEN Tail(OnWire) ELSE OnWire)
                   \o (IF dep THEN <<reg>> ELSE <<>>)
  <2>1. PICK arr \in BOOLEAN : arr <=> Rx!Completes(en_rx)
    OBVIOUS
  <2>2. PICK d \in BOOLEAN : d <=> dep
    OBVIOUS
  <2>3. /\ ~(arr /\ d) /\ (d => reg \in Byte)
        /\ received' = IF arr THEN Append(received, shift_reg) ELSE received
        /\ departed' = IF d THEN Append(departed, reg) ELSE departed
    BY <1>0, <1>1, <1>2, <1>4, <2>1, <2>2, Zenon
  <2>4. OnWire' = (IF arr /\ OnWire # <<>> THEN Tail(OnWire) ELSE OnWire)
                   \o (IF d THEN <<reg>> ELSE <<>>)
    BY <1>1, <2>3, WireFollows, Zenon
  <2>5. QED
    BY <2>1, <2>2, <2>4, Zenon
<1>6. load \in BOOLEAN /\ (load => tx_data \in Byte)
  <2>1. load \in BOOLEAN
    BY DEF MsgInv, Write
  <2>2. ASSUME load PROVE tx_data \in Byte
    <3>1. PICK t \in Writers : at[t] = "w_strobe" /\ tx_data = char[t]
      BY <2>2, Zenon DEF MsgInv, Write
    <3>2. char[t] = MESS[cpt_car + 1]
      BY <3>1 DEF MsgInv, Write, Writes
    <3>3. cpt_car \in 0 .. SIZEOF_MESS
      BY Zenon DEF MsgInv, Content
    <3>4. QED
      BY <3>1, <3>2, <3>3, MessIsBytes
  <2>3. QED
    BY <2>1, <2>2
<1>7. L!Clock(load, tx_data, read)
  <2>1. /\ L!TxClk!DivTick /\ L!RxClk!DivTick
        /\ L!Tx!TxTick(load, tx_data, en_tx) /\ L!Rx!RxTick(en_rx, read)
        /\ (Rx!Completes(en_rx) <=> L!Rx!Completes(en_rx))
    BY <1>0, TheTicks, Zenon
  <2>2. L!Follow
    BY <1>5, <2>1, Zenon DEF L!Follow, L!Arrives, L!Departs
  <2>3. QED
    BY <2>1, <2>2, Zenon DEF L!Clock
<1>8. L!LinkInv(next)' /\ (L!Arrives => L!ByteLeaves)
  BY <1>1, <1>3, <1>6, <1>7, LinkFacts, Zenon
<1>9. /\ PhaseTx' = IF en_tx THEN PhaseTx + 1 - T ELSE PhaseTx + 1
      /\ Elapsed' = IF L!Look THEN Elapsed + 1 - 16 * R ELSE Elapsed + 1
  <2>1. L!TxClk!DivTick /\ L!RxClk!DivTick /\ L!Rx!Count(en_rx)
    BY <1>7, Zenon DEF L!Clock, L!Rx!RxTick
  <2>2. QED
    BY <1>1, <2>1, LinkFacts, Lengths, Zenon DEF PhaseTx, Elapsed
<1>10. L!Look <=> Elapsed = 8 * R
  BY <1>1, Times, Zenon
<1>11. ASSUME Rx!Completes(en_rx)
       PROVE  /\ Got < Len(departed) /\ shift_reg = departed[Got + 1]
              /\ buff_out' = shift_reg
  <2>1. L!Arrives
    BY <1>11, TheTicks, Zenon DEF L!Arrives
  <2>2. OnWire # <<>> /\ buff_out' = Head(OnWire)
    BY <1>8, <2>1, Zenon DEF L!ByteLeaves
  <2>3. Got \in Nat /\ Got <= Len(departed) /\ departed \in Seq(Byte)
    BY <1>1 DEF Received, Got
  <2>4. OnWire = SubSeq(departed, Got + 1, Len(departed))
    BY Zenon DEF OnWire, Got
  <2>5. Got # Len(departed)
    BY <2>2, <2>3, <2>4, Pieces, Zenon
  <2>6. Got < Len(departed)
    BY <2>3, <2>5
  <2>7. Head(OnWire) = departed[Got + 1]
    BY <2>3, <2>4, <2>6, Pieces, Zenon
  <2>8. buff_out' = shift_reg
    <3>1. Rx!Looks(en_rx) /\ bit_count = 1 /\ txd = 1
      BY <1>11, Zenon DEF Rx!Completes, Rx!AtStop
    <3>2. bit_count # Rx!Waiting /\ bit_count \notin 2 .. Rx!Waiting - 1
      BY <3>1, WidthAssumption DEF Rx!Waiting
    <3>3. Rx!TakeStop(en_rx)
      BY <1>0, <3>1, <3>2, Zenon DEF Rx!RxTick, Rx!Receive, Rx!WaitStart, Rx!AtStart,
                                     Rx!TakeData, Rx!AtData
    <3>4. QED
      BY <3>1, <3>3, Zenon DEF Rx!TakeStop
  <2>9. QED
    BY <2>2, <2>6, <2>7, <2>8, Zenon
<1>12. ASSUME ~Rx!Completes(en_rx)
       PROVE  buff_out' = buff_out
  <2>1. CASE Rx!TakeStop(en_rx)
    <3>1. txd # 1 /\ buff_out' = IF txd = 1 THEN shift_reg ELSE buff_out
      BY <1>12, <2>1, Zenon DEF Rx!TakeStop, Rx!Completes
    <3>2. QED
      BY <3>1, Zenon
  <2>2. CASE ~Rx!TakeStop(en_rx)
    BY <1>0, <2>2, Zenon DEF Rx!RxTick, Rx!Receive, Rx!WaitStart, Rx!TakeData
  <2>3. QED
    BY <2>1, <2>2
<1>13. Rx!Completes(en_rx) => Elapsed = 8 * R /\ ~dep
  BY <1>2, <1>4, <1>10, Zenon
<1>14. QED
  BY <1>0, <1>1, <1>8, <1>9, <1>10, <1>11, <1>12, <1>13, Zenon

\* What a rising edge leaves alone.
LEMMA MoveFrame ==
    ASSUME MoveUnits
    PROVE  /\ phase = "edge" /\ phase' = "irq"
           /\ at' = at /\ timer' = timer /\ char' = char /\ cpt_car' = cpt_car
           /\ printed' = printed /\ reset' = reset
           /\ load' = load /\ tx_data' = tx_data /\ read' = read /\ data_out' = data_out
           /\ irqTx' = irqTx /\ irqRx' = irqRx
  BY Zenon DEF MoveUnits, benchVars, busVars, irqVars

\* While reset is low the bench waits and the units stay as they are.
LEMMA ResetBench ==
    ASSUME MsgInv, NEW lag, BenchInv(lag), MoveUnits, ~reset
    PROVE  BenchInv(lag)'
<1>1. departed = <<>> /\ reg_empty = TRUE /\ buf_empty = TRUE /\ idx = 0
  BY Zenon DEF MsgInv, AtBoot, Content
<1>2. Got = 0 /\ received \in Seq(Byte)
  BY <1>1 DEF BenchInv, Hears, Received, Got
<1>3. at["rx_isr"] = "idle" /\ d_rdy = FALSE /\ read = FALSE
  BY <1>2 DEF BenchInv, ReadsAtOnce, Hears
<1>4. at["tx_isr"] = "idle"
  BY <1>1, Zenon DEF BenchInv, SendsEarly
<1>5. /\ reg_empty' = TRUE /\ buf_empty' = TRUE /\ idx' = 0
      /\ d_rdy' = FALSE /\ f_err' = FALSE /\ o_err' = FALSE /\ rx_data' = Rx!Zeros
  BY <1>1, Zenon DEF MoveUnits, Edge, Tx!TxReset, Rx!RxReset
<1>6. departed' = departed /\ received' = received /\ Got' = Got
  BY Zenon DEF MoveUnits, Got
<1>7. /\ phase = "edge" /\ phase' = "irq" /\ at' = at /\ timer' = timer /\ reset' = reset
      /\ printed' = printed /\ read' = read
  BY MoveFrame, Zenon
<1>8. BootEnds'
  <2>1. phase # "bus" /\ phase' # "edge"
    BY <1>7
  <2>2. QED
    BY <1>6, <1>7, <2>1, Zenon DEF BenchInv, BootEnds
<1>9. SendsEarly'
  BY <1>1, <1>4, <1>5, <1>6, <1>7 DEF SendsEarly
<1>10. Hears'
  <2>1. ~(Got' >= 1)
    BY <1>2, <1>6
  <2>2. Received'
    BY <1>6, Zenon DEF BenchInv, Hears, Received
  <2>3. QED
    BY <1>5, <2>1, <2>2 DEF Hears
<1>11. ReadsAtOnce'
  BY <1>3, <1>5, <1>7 DEF ReadsAtOnce
<1>12. PrintsLate'
  <2>1. ~Fresh /\ ~Fresh'
    BY <1>3, <1>5 DEF Fresh
  <2>2. printed = <<>>
    <3>1. printed \in Seq(Byte) /\ Len(printed) = 0
      BY <1>2, <2>1, Zenon DEF BenchInv, PrintsLate
    <3>2. QED
      BY <3>1, EmptySeq
  <2>3. Late(1)' = Rx!Zeros
    <3>1. Late(1)' = Rx!Zeros'
      BY DEF Late
    <3>2. QED
      BY <3>1, Zenon DEF Rx!Zeros, Rx!Bits
  <2>4. QED
    BY <1>2, <1>5, <1>6, <1>7, <2>1, <2>2, <2>3 DEF PrintsLate
<1>13. QED
  BY <1>7, <1>8, <1>9, <1>10, <1>11, <1>12, Zenon DEF BenchInv

\* Out of reset: the time of the transmitter, between two of its pulses.
LEMMA PulseTime ==
    ASSUME NEW lag, Fits(lag), L!LinkInv(lag),
           PhaseTx' = IF en_tx THEN PhaseTx + 1 - T ELSE PhaseTx + 1
    PROVE  /\ PhaseTx \in Int /\ (PhaseTx <= 8 => ~en_tx)
           /\ en_tx => PhaseTx' = 1
           /\ ~en_tx => PhaseTx' = PhaseTx + 1
<1>1. L!ClocksOK
  BY Zenon DEF L!LinkInv
<1>2. PhaseTx \in 0 .. T /\ (en_tx <=> PhaseTx = T)
  BY <1>1, Times, Zenon
<1>3. /\ lag \in Int /\ 8 < 8 * R + lag /\ 8 * R + lag + 4 < T
  BY Zenon DEF Fits
<1>4. PICK t \in Nat, p \in Int, h \in Int : t = T /\ p = PhaseTx /\ h = 8 * R + lag
  BY <1>2, <1>3, Lengths
<1>5. 8 < h /\ h + 4 < t
  BY <1>3, <1>4, Zenon
<1>6. t > 12 /\ (p <= 8 => p # t)
  BY <1>4, <1>5
<1>7. en_tx => PhaseTx' = 1
  <2>1. t + 1 - t = 1
    BY <1>4
  <2>2. QED
    BY <1>2, <1>4, <2>1, Zenon
<1>8. PhaseTx <= 8 => PhaseTx # T
  BY <1>4, <1>6, Zenon
<1>9. PhaseTx \in Int
  BY <1>4
<1>10. QED
  BY <1>2, <1>7, <1>8, <1>9, Zenon

\* No byte leaves while main_thread is at its boot.
LEMMA MoveBoot ==
    ASSUME MsgInv, BootEnds, MoveUnits
    PROVE  /\ BootEnds'
           /\ at["main"] # "idle" => departed' = departed /\ reg_empty
<1>1. /\ phase = "edge" /\ phase' = "irq" /\ at' = at /\ timer' = timer /\ reset' = reset
  BY MoveFrame, Zenon
<1>2. at["main"] # "idle" => reg_empty
  <2>1. Booting => reg_empty
    BY Zenon DEF MsgInv, AtBoot
  <2>2. at["main"] = "w_end" => reg_empty
    BY <1>1, Zenon DEF BootEnds
  <2>3. QED
    BY <2>1, <2>2 DEF MsgInv, Stations
<1>3. at["main"] # "idle" => departed' = departed
  BY <1>2, Zenon DEF MoveUnits
<1>4. phase # "bus" /\ phase' # "edge"
  BY <1>1
<1>5. QED
  BY <1>1, <1>2, <1>3, <1>4, Zenon DEF BootEnds

\* The transmit interrupt is done with its write long before the next pulse.
LEMMA MoveSends ==
    ASSUME MsgInv, BootEnds, SendsEarly, NEW lag, Fits(lag), L!LinkInv(lag), MoveUnits, reset,
           PhaseTx' = IF en_tx THEN PhaseTx + 1 - T ELSE PhaseTx + 1
    PROVE  SendsEarly'
<1> DEFINE dep == en_tx /\ ~reg_empty /\ idx = 0
<1>0. /\ phase = "edge" /\ phase' = "irq" /\ at' = at /\ timer' = timer /\ irqTx' = irqTx
      /\ Tx!TxTick(load, tx_data, en_tx)
      /\ departed' = IF dep THEN Append(departed, reg) ELSE departed
  <2>1. /\ Tx!TxTick(load, tx_data, en_tx)
        /\ departed' = IF dep THEN Append(departed, reg) ELSE departed
    BY Zenon DEF MoveUnits, Edge
  <2>2. QED
    BY <2>1, MoveFrame, Zenon
<1>1. /\ PhaseTx \in Int /\ (PhaseTx <= 8 => ~en_tx)
      /\ (en_tx => PhaseTx' = 1) /\ (~en_tx => PhaseTx' = PhaseTx + 1)
  BY PulseTime, Zenon
<1>2. departed \in Seq(Byte)
  BY Zenon DEF MsgInv, Content
<1>3. departed # <<>> => departed' # <<>>
  BY <1>0, <1>2
<1>4. dep => departed' # <<>>
  BY <1>0, <1>2
<1>5. Tx!Shift(en_tx) \/ Tx!Transfer
  BY <1>0, Zenon DEF Tx!TxTick
<1>6. /\ reg_empty' /\ ~reg_empty => en_tx /\ idx # 0
      /\ idx' # 0 /\ idx = 0 => dep
  <2>1. CASE Tx!Transfer
    BY <2>1, Zenon DEF Tx!Transfer
  <2>2. CASE Tx!Shift(en_tx)
    <3>1. CASE en_tx /\ ~reg_empty
      <4>1. Tx!ShiftStart \/ Tx!ShiftData => ~reg_empty'
        BY <3>1, Zenon DEF Tx!ShiftStart, Tx!ShiftData
      <4>2. Tx!ShiftStop => idx # 0
        BY WidthAssumption DEF Tx!ShiftStop
      <4>3. Tx!ShiftStart \/ Tx!ShiftData \/ Tx!ShiftStop
        BY <2>2, <3>1, Zenon DEF Tx!Shift
      <4>4. QED
        BY <3>1, <4>1, <4>2, <4>3, Zenon
    <3>2. CASE ~(en_tx /\ ~reg_empty)
      BY <2>2, <3>2, Zenon DEF Tx!Shift
    <3>3. QED
      BY <3>1, <3>2, Zenon
  <2>3. QED
    BY <1>5, <2>1, <2>2, Zenon
<1>7. ASSUME at["tx_isr"] # "idle"
      PROVE  /\ ~reg_empty' /\ timer'["tx_isr"] >= 1 /\ SendLeft' <= 5
             /\ departed' = <<>> \/ PhaseTx' + SendLeft' <= 7
  <2>1. /\ ~reg_empty /\ timer["tx_isr"] >= 1 /\ SendLeft <= 5
        /\ departed = <<>> \/ PhaseTx + SendLeft <= 6
    BY <1>0, <1>7, Zenon DEF SendsEarly
  <2>2. SendLeft \in Int /\ SendLeft >= 1 /\ SendLeft' = SendLeft
    <3>1. timer["tx_isr"] \in Nat
      BY DEF MsgInv, Stations, Threads
    <3>2. SendLeft \in Int /\ SendLeft >= 1
      BY <2>1, <3>1 DEF SendLeft
    <3>3. QED
      BY <1>0, <3>2, Zenon DEF SendLeft
  <2>3. PICK p \in Int, l \in Int : p = PhaseTx /\ l = SendLeft
    BY <1>1, <2>2
  <2>4. departed # <<>> => ~en_tx /\ PhaseTx' + SendLeft' <= 7
    <3> SUFFICES ASSUME departed # <<>> PROVE ~en_tx /\ PhaseTx' + SendLeft' <= 7
      OBVIOUS
    <3>1. p + l <= 6 /\ l >= 1
      BY <2>1, <2>2, <2>3
    <3>2. p <= 8 /\ (p + 1) + l <= 7
      BY <3>1
    <3>3. ~en_tx
      BY <1>1, <2>3, <3>2, Zenon
    <3>4. PhaseTx' = p + 1 /\ SendLeft' = l
      BY <1>1, <2>2, <2>3, <3>3, Zenon
    <3>5. QED
      BY <3>2, <3>3, <3>4, Zenon
  <2>5. ~reg_empty'
    <3>1. idx # 0 => departed # <<>>
      BY Zenon DEF SendsEarly
    <3>2. QED
      BY <1>6, <2>1, <2>4, <3>1, Zenon
  <2>6. departed = <<>> /\ departed' # <<>> => PhaseTx' + SendLeft' <= 7
    <3> SUFFICES ASSUME departed = <<>>, departed' # <<>> PROVE PhaseTx' + SendLeft' <= 7
      OBVIOUS
    <3>1. PhaseTx' = 1
      BY <1>0, <1>1, Zenon
    <3>2. QED
      BY <2>1, <2>2, <3>1
  <2>7. timer'["tx_isr"] >= 1 /\ SendLeft' <= 5
    BY <1>0, <2>1, <2>2
  <2>8. QED
    BY <2>4, <2>5, <2>6, <2>7, Zenon
<1>8. at["tx_isr"] # "w_select"
  <2>1. phase # "bus"
    BY <1>0
  <2>2. QED
    BY <2>1, Zenon DEF SendsEarly
<1>9. idx' # 0 => departed' # <<>>
  BY <1>3, <1>4, <1>6, Zenon DEF SendsEarly
<1>10. /\ reg_empty' /\ ~buf_empty' => departed' = <<>> \/ PhaseTx' = 1
       /\ ~irqTx' /\ buf_empty' /\ ~reg_empty' => departed' = <<>> \/ PhaseTx' = 2
  <2>0. irqTx = (buf_empty /\ ~reg_empty)
    <3>1. phase # "irq"
      BY <1>0
    <3>2. QED
      BY <3>1, Zenon DEF MsgInv, TxIrq
  <2>1. CASE load /\ Tx!Load(tx_data) /\ Tx!Shift(en_tx)
    <3>1. buf_empty' = FALSE
      BY <2>1, Zenon DEF Tx!Load
    <3>2. PICK t \in Writers : at[t] = "w_strobe"
      BY <2>1, Zenon DEF MsgInv, Write
    <3>3. CASE t = "main"
      <4>1. Booting
        BY <3>2, <3>3 DEF Booting
      <4>2. departed = <<>> /\ reg_empty
        BY <4>1, Zenon DEF MsgInv, AtBoot
      <4>3. QED
        BY <1>0, <3>1, <4>2, Zenon
    <3>4. CASE t = "tx_isr"
      <4>1. at["tx_isr"] # "idle"
        BY <3>2, <3>4
      <4>2. QED
        BY <1>7, <3>1, <4>1, Zenon
    <3>5. QED
      BY <3>3, <3>4 DEF Writers
  <2>2. CASE Tx!Transfer
    <3>1. /\ reg_empty /\ ~buf_empty /\ ~reg_empty'
      BY <2>2, Zenon DEF Tx!Transfer
    <3>2. departed' = departed /\ (departed = <<>> \/ PhaseTx = 1)
      BY <1>0, <3>1, Zenon DEF SendsEarly
    <3>3. PhaseTx = 1 => PhaseTx' = 2
      BY <1>1
    <3>4. QED
      BY <3>1, <3>2, <3>3, Zenon
  <2>3. CASE /\ ~(reg_empty /\ ~buf_empty) /\ UNCHANGED <<buf, buf_empty>> /\ Tx!Shift(en_tx)
    <3>1. buf_empty' = buf_empty
      BY <2>3
    <3>2. ASSUME reg_empty', ~buf_empty' PROVE PhaseTx' = 1
      <4>1. ~buf_empty
        BY <3>1, <3>2
      <4>2. ~reg_empty
        BY <2>3, <4>1, Zenon
      <4>3. QED
        BY <1>1, <1>6, <3>2, <4>2, Zenon
    <3>3. reg_empty => reg_empty'
      BY <2>3, Zenon DEF Tx!Shift
    <3>4. ~(~irqTx' /\ buf_empty' /\ ~reg_empty')
      BY <1>0, <2>0, <3>1, <3>3, Zenon
    <3>5. QED
      BY <3>2, <3>4, Zenon
  <2>4. QED
    BY <1>0, <2>1, <2>2, <2>3, Zenon DEF Tx!TxTick
<1>11. (IF phase' = "edge" THEN 6 ELSE 7) = 7
  BY <1>0
<1>12. at'["tx_isr"] \in {"w_strobe", "w_end"} => at'["main"] = "idle"
  BY <1>0, Zenon DEF SendsEarly
<1>13. at'["tx_isr"] # "w_select" /\ at'["tx_isr"] = at["tx_isr"]
  BY <1>0, <1>8, Zenon
<1>14. QED
  BY <1>7, <1>9, <1>10, <1>11, <1>12, <1>13, Zenon DEF SendsEarly

\* What the stations of the receive interrupt say at a rising edge.
LEMMA AtEdge ==
    ASSUME Stations, ReadsAtOnce, phase = "edge"
    PROVE  /\ at["rx_isr"] \in {"idle", "r_sample", "r_end"}
           /\ at["rx_isr"] = "idle" => ~read /\ ~d_rdy
           /\ at["rx_isr"] = "r_sample" => read /\ d_rdy /\ Elapsed = 1 - 8 * R /\ Got >= 1
           /\ at["rx_isr"] = "r_end" => ~read /\ ~d_rdy /\ Elapsed = 2 - 8 * R /\ Got >= 1
           /\ read \in BOOLEAN
           /\ at["rx_isr"] # "idle" => timer["rx_isr"] = 1
           /\ irqRx = d_rdy
<1>1. at["rx_isr"] \in {"idle", "r_select", "r_sample", "r_end"}
  BY Zenon DEF Stations
<1>2. phase # "irq" /\ phase # "bus" /\ (IF phase = "edge" THEN 1 ELSE 2) = 1
      /\ (IF phase = "edge" THEN 2 ELSE 3) = 2
  OBVIOUS
<1>3. at["rx_isr"] # "r_select" /\ irqRx = d_rdy /\ read \in BOOLEAN
  BY <1>2, Zenon DEF ReadsAtOnce
<1>4. at["rx_isr"] = "idle" => ~read /\ ~d_rdy
  BY <1>2, Zenon DEF ReadsAtOnce
<1>5. at["rx_isr"] = "r_sample" => read /\ d_rdy /\ Elapsed = 1 - 8 * R /\ Got >= 1
  BY <1>2 DEF ReadsAtOnce
<1>6. at["rx_isr"] = "r_end" => ~read /\ ~d_rdy /\ Elapsed = 2 - 8 * R /\ Got >= 1
  BY <1>2 DEF ReadsAtOnce
<1>7. at["rx_isr"] # "idle" => timer["rx_isr"] = 1
  BY Zenon DEF ReadsAtOnce
<1>8. QED
  BY <1>1, <1>3, <1>4, <1>5, <1>6, <1>7

\* Out of reset: the byte that is complete is read at once, and the next one
\* is a frame away.
LEMMA MoveReceives ==
    ASSUME MsgInv, NEW lag, Fits(lag), L!LinkInv(lag), Hears, ReadsAtOnce, PrintsLate,
           MoveUnits, reset
    PROVE  Hears' /\ ReadsAtOnce' /\ PrintsLate'
<1> DEFINE dep == en_tx /\ ~reg_empty /\ idx = 0
           done == Rx!Completes(en_rx)
<1>0. /\ phase = "edge" /\ phase' = "irq" /\ at' = at /\ timer' = timer
      /\ printed' = printed /\ read' = read /\ irqRx' = irqRx
      /\ Rx!Status(en_rx, read)
      /\ departed' = IF dep THEN Append(departed, reg) ELSE departed
  <2>1. /\ Rx!Status(en_rx, read)
        /\ departed' = IF dep THEN Append(departed, reg) ELSE departed
    BY Zenon DEF MoveUnits, Edge, Rx!RxTick
  <2>2. QED
    BY <2>1, MoveFrame, Zenon
<1>1. /\ at["rx_isr"] \in {"idle", "r_sample", "r_end"}
      /\ at["rx_isr"] = "idle" => ~read /\ ~d_rdy
      /\ at["rx_isr"] = "r_sample" => read /\ d_rdy /\ Elapsed = 1 - 8 * R /\ Got >= 1
      /\ at["rx_isr"] = "r_end" => ~read /\ ~d_rdy /\ Elapsed = 2 - 8 * R /\ Got >= 1
      /\ read \in BOOLEAN
      /\ at["rx_isr"] # "idle" => timer["rx_isr"] = 1
      /\ irqRx = d_rdy
  BY <1>0, AtEdge, Zenon DEF MsgInv
<1>2. /\ f_err' = FALSE
      /\ Elapsed' = IF Elapsed = 8 * R THEN Elapsed + 1 - 16 * R ELSE Elapsed + 1
      /\ done => /\ Elapsed = 8 * R /\ ~dep
                 /\ Got < Len(departed) /\ shift_reg = departed[Got + 1]
                 /\ received' = Append(received, shift_reg)
                 /\ shift_reg \in Byte /\ buff_out' = shift_reg
      /\ ~done => received' = received /\ buff_out' = buff_out
      /\ dep => reg \in Byte
  <2>1. PICK next : next = NextOf(lag)
    OBVIOUS
  <2>2. QED
    BY <1>1, <2>1, MoveLink, Zenon DEF L!LinkInv, L!RxOK
<1>3. /\ Received /\ Got \in Nat /\ Len(departed) \in Nat /\ Got <= Len(departed)
      /\ received \in Seq(Byte) /\ departed \in Seq(Byte)
      /\ \A i \in 1 .. Got : received[i] = departed[i]
      /\ d_rdy \in BOOLEAN /\ o_err = FALSE /\ f_err = FALSE
      /\ Got >= 1 => buff_out = received[Got]
  BY DEF Hears, Received, Got
<1>4. /\ Elapsed' = IF Elapsed = 8 * R THEN 1 - 8 * R ELSE Elapsed + 1
      /\ Elapsed = 1 - 8 * R => Elapsed # 8 * R /\ Elapsed' = 2 - 8 * R
      /\ Elapsed = 2 - 8 * R => Elapsed # 8 * R /\ Elapsed' = 3 - 8 * R
  <2>1. PICK h \in Nat, s \in Nat : h = 8 * R /\ s = 16 * R
    BY Lengths
  <2>2. s = h + h /\ h >= 16
    BY <2>1, Lengths, Zenon
  <2>3. h + 1 - s = 1 - h /\ 1 - h # h /\ 2 - h # h /\ (1 - h) + 1 = 2 - h /\ (2 - h) + 1 = 3 - h
    BY <2>2
  <2>4. Elapsed' = IF Elapsed = h THEN Elapsed + 1 - s ELSE Elapsed + 1
    BY <1>2, <2>1, Zenon
  <2>5. Elapsed = h => Elapsed' = 1 - h
    BY <2>3, <2>4, Zenon
  <2>6. Elapsed = 1 - h => Elapsed # h /\ Elapsed' = 2 - h
    BY <2>3, <2>4, Zenon
  <2>7. Elapsed = 2 - h => Elapsed # h /\ Elapsed' = 3 - h
    BY <2>3, <2>4, Zenon
  <2>8. QED
    BY <2>1, <2>4, <2>5, <2>6, <2>7, Zenon
<1>5. done => at["rx_isr"] = "idle" /\ ~read /\ ~d_rdy /\ Elapsed' = 1 - 8 * R
  BY <1>1, <1>2, <1>4
<1>6. /\ d_rdy' = (~read /\ (d_rdy \/ done))
      /\ o_err' = (~read /\ (o_err \/ (done /\ d_rdy)))
      /\ rx_data' = IF read THEN buff_out' ELSE rx_data
  BY <1>0, Zenon DEF Rx!Status
<1>7. d_rdy' <=> done
  <2>1. d_rdy => read
    BY <1>1
  <2>2. d_rdy' <=> (~read /\ (d_rdy \/ done))
    BY <1>6
  <2>3. QED
    BY <1>5, <2>1, <2>2, Zenon
<1>8. CASE done
  <2>1. /\ received' = Append(received, shift_reg) /\ departed' = departed
        /\ shift_reg \in Byte /\ shift_reg = departed[Got + 1] /\ Got + 1 <= Len(departed)
        /\ buff_out' = shift_reg
    BY <1>0, <1>2, <1>3, <1>8
  <2>2. /\ received' \in Seq(Byte) /\ Len(received') = Got + 1 /\ received'[Got + 1] = shift_reg
        /\ \A i \in 1 .. Got : received'[i] = received[i]
    BY <1>3, <2>1 DEF Got
  <2>3. Got' = Got + 1
    BY <2>2 DEF Got
  <2>4. Hears'
    <3>1. \A i \in 1 .. Got + 1 : received'[i] = departed[i]
      BY <1>3, <2>1, <2>2
    <3>2. Got + 1 <= Len(departed) /\ received' \in Seq(Byte) /\ departed \in Seq(Byte)
      BY <1>3, <2>1, <2>2, Zenon
    <3>3. Received'
      BY <2>1, <2>3, <3>1, <3>2, Zenon DEF Received
    <3>4. o_err' = FALSE
      <4>1. o_err' = (~read /\ (o_err \/ (done /\ d_rdy)))
        BY <1>6, Zenon
      <4>2. ~d_rdy /\ o_err = FALSE
        BY <1>3, <1>5, <1>8, Zenon
      <4>3. QED
        BY <4>1, <4>2
    <3>5. f_err' = FALSE
      BY <1>2, Zenon
    <3>6. buff_out' = received'[Got']
      BY <2>1, <2>2, <2>3
    <3>7. d_rdy' \in BOOLEAN
      BY <1>6
    <3>8. QED
      BY <3>3, <3>4, <3>5, <3>6, <3>7, Zenon DEF Hears
  <2>5. ReadsAtOnce'
    <3>1. /\ at'["rx_isr"] = "idle" /\ read' = read /\ ~read /\ Elapsed' = 1 - 8 * R
          /\ phase' = "irq" /\ ~irqRx' /\ Got' >= 1
      <4>1. Got + 1 >= 1
        BY <1>3
      <4>2. ~irqRx'
        BY <1>0, <1>1, <1>5, <1>8
      <4>3. Got' >= 1
        BY <2>3, <4>1
      <4>4. QED
        BY <1>0, <1>5, <1>8, <4>2, <4>3, Zenon
    <3>2. read' = FALSE
      BY <1>1, <3>1
    <3>3. QED
      BY <3>1, <3>2 DEF ReadsAtOnce
  <2>6. PrintsLate'
    <3>1. ~Fresh /\ at["rx_isr"] = "idle" /\ ~read
      BY <1>5, <1>8 DEF Fresh
    <3>2. Fresh'
      BY <1>0, <1>7, <1>8, <3>1 DEF Fresh
    <3>3. /\ printed \in Seq(Byte) /\ Len(printed) = Got
          /\ \A i \in 1 .. Got : printed[i] = Late(i)
          /\ rx_data = Late(Got + 1)
      BY <1>3, <1>5, <1>8, <3>1 DEF PrintsLate
    <3>4. rx_data' = rx_data
      BY <1>6, <3>1, Zenon
    <3>5. ASSUME NEW i \in 1 .. Got + 1 PROVE Late(i)' = Late(i)
      <4>1. CASE i = 1
        BY <4>1 DEF Late, Rx!Zeros, Rx!Bits
      <4>2. CASE i # 1
        <5>1. i - 1 \in 1 .. Got
          BY <1>3, <4>2
        <5>2. received'[i - 1] = received[i - 1]
          BY <2>2, <5>1
        <5>3. QED
          BY <4>2, <5>2, Zenon DEF Late
      <4>3. QED
        BY <4>1, <4>2
    <3>6. \A i \in 1 .. Got : printed'[i] = Late(i)'
      <4>1. \A i \in 1 .. Got : i \in 1 .. Got + 1
        BY <1>3
      <4>2. QED
        BY <1>0, <3>3, <3>5, <4>1, Zenon
    <3>7. Len(printed') = Got' - 1
      BY <1>0, <1>3, <2>3, <3>3
    <3>8. rx_data' = (Late(Got))'
      <4>1. Got + 1 \in 1 .. Got + 1
        BY <1>3
      <4>2. (Late(Got))' = IF Got + 1 = 1 THEN Rx!Zeros' ELSE received'[(Got + 1) - 1]
        BY <2>3, Zenon DEF Late
      <4>3. rx_data' = IF Got + 1 = 1 THEN Rx!Zeros' ELSE received'[(Got + 1) - 1]
        <5>1. \A i \in 1 .. Got + 1 : Late(i) = IF i = 1 THEN Rx!Zeros' ELSE received'[i - 1]
          BY <3>5, Zenon DEF Late
        <5>2. QED
          BY <3>3, <3>4, <4>1, <5>1, Zenon
      <4>4. QED
        BY <4>2, <4>3, Zenon
    <3>9. /\ Len(printed') = Got /\ printed' \in Seq(Byte)
          /\ Len(printed') = IF Fresh' THEN Got' - 1 ELSE Got'
          /\ rx_data' = (Late(IF d_rdy THEN Got ELSE Got + 1))'
      <4>1. (Late(IF d_rdy THEN Got ELSE Got + 1))' = (Late(Got))'
        BY <1>7, <1>8, Zenon DEF Late
      <4>2. QED
        BY <1>0, <3>2, <3>3, <3>7, <3>8, <4>1, Zenon
    <3>10. \A i \in 1 .. Len(printed') : printed'[i] = Late(i)'
      BY <3>6, <3>9, Zenon
    <3>11. QED
      BY <3>9, <3>10, Zenon DEF PrintsLate
  <2>7. QED
    BY <2>4, <2>5, <2>6
<1>9. CASE ~done
  <2>1. received' = received /\ buff_out' = buff_out /\ Got' = Got /\ ~d_rdy'
    BY <1>2, <1>7, <1>9, Zenon DEF Got
  <2>2. Hears'
    <3>1. /\ departed' \in Seq(Byte) /\ Got <= Len(departed')
          /\ \A i \in 1 .. Got : received[i] = departed'[i]
      <4>1. CASE dep
        <5>1. departed' = Append(departed, reg) /\ reg \in Byte
          BY <1>0, <1>2, <4>1, Zenon
        <5>2. QED
          BY <1>3, <5>1
      <4>2. CASE ~dep
        BY <1>0, <1>3, <4>2, Zenon
      <4>3. QED
        BY <4>1, <4>2
    <3>2. Received'
      BY <1>3, <2>1, <3>1, Zenon DEF Received
    <3>3. o_err' = FALSE
      BY <1>3, <1>6, <1>9
    <3>4. f_err' = FALSE
      BY <1>2, Zenon
    <3>5. d_rdy' \in BOOLEAN
      BY <1>6
    <3>6. Got' >= 1 => buff_out' = received'[Got']
      BY <1>3, <2>1, Zenon
    <3>7. QED
      BY <3>2, <3>3, <3>4, <3>5, <3>6, Zenon DEF Hears
  <2>3. d_rdy' = FALSE
    BY <1>6, <2>1
  <2>4. ReadsAtOnce'
    <3>1. CASE at["rx_isr"] = "idle"
      BY <1>0, <1>1, <2>1, <2>3, <3>1 DEF ReadsAtOnce
    <3>2. CASE at["rx_isr"] = "r_sample"
      <4>1. Elapsed' = 2 - 8 * R /\ read /\ Got >= 1 /\ timer["rx_isr"] = 1
        BY <1>1, <1>4, <3>2
      <4>2. QED
        BY <1>0, <1>1, <2>1, <2>3, <3>2, <4>1 DEF ReadsAtOnce
    <3>3. CASE at["rx_isr"] = "r_end"
      <4>1. Elapsed' = 3 - 8 * R /\ ~read /\ Got >= 1 /\ timer["rx_isr"] = 1
        BY <1>1, <1>4, <3>3
      <4>2. QED
        BY <1>0, <1>1, <2>1, <2>3, <3>3, <4>1 DEF ReadsAtOnce
    <3>4. QED
      BY <1>1, <3>1, <3>2, <3>3
  <2>5. PrintsLate'
    <3>1. ~Fresh /\ ~Fresh'
      BY <1>1, <2>3 DEF Fresh
    <3>2. /\ printed \in Seq(Byte) /\ Len(printed) = Got
          /\ \A i \in 1 .. Got : printed[i] = Late(i)
          /\ rx_data = Late(IF d_rdy THEN Got ELSE Got + 1)
      BY <3>1 DEF PrintsLate
    <3>3. \A i : Late(i)' = Late(i)
      BY <2>1, Zenon DEF Late, Rx!Zeros, Rx!Bits, Bits
    <3>4. rx_data' = Late(Got + 1)
      <4>1. CASE at["rx_isr"] = "r_sample"
        <5>1. read /\ Got >= 1 /\ Got \in Nat
          BY <1>1, <1>3, <4>1
        <5>2. rx_data' = received[Got]
          BY <1>3, <1>6, <2>1, <5>1, Zenon
        <5>3. Got + 1 # 1 /\ (Got + 1) - 1 = Got
          BY <5>1
        <5>4. QED
          BY <5>2, <5>3, Zenon DEF Late
      <4>2. CASE at["rx_isr"] # "r_sample"
        <5>1. ~read /\ ~d_rdy
          BY <1>1, <4>2
        <5>2. QED
          BY <1>6, <3>2, <5>1, Zenon
      <4>3. QED
        BY <4>1, <4>2
    <3>5. QED
      <4>1. Len(printed') = IF Fresh' THEN Got' - 1 ELSE Got'
        BY <1>0, <2>1, <3>1, <3>2, Zenon
      <4>2. rx_data' = (Late(IF d_rdy THEN Got ELSE Got + 1))'
        BY <2>1, <3>3, <3>4, Zenon
      <4>3. \A i \in 1 .. Len(printed') : printed'[i] = Late(i)'
        BY <1>0, <3>2, <3>3, Zenon
      <4>4. QED
        BY <1>0, <3>2, <4>1, <4>2, <4>3, Zenon DEF PrintsLate
  <2>6. QED
    BY <2>2, <2>4, <2>5
<1>10. QED
  BY <1>8, <1>9

\* The units move: "edge".
LEMMA MoveBench ==
    ASSUME MsgInv, NEW lag, Fits(lag), BenchInv(lag), MoveUnits,
           NEW next, next = IF reset THEN NextOf(lag) ELSE lag
    PROVE  BenchInv(next)'
<1>1. CASE ~reset
  BY <1>1, ResetBench, Zenon
<1>2. CASE reset
  <2>1. /\ L!LinkInv(lag) /\ BootEnds /\ SendsEarly /\ Hears /\ ReadsAtOnce /\ PrintsLate
    BY <1>2, Zenon DEF BenchInv
  <2>2. /\ L!LinkInv(next)'
        /\ PhaseTx' = IF en_tx THEN PhaseTx + 1 - T ELSE PhaseTx + 1
    <3>1. next = NextOf(lag) /\ read \in BOOLEAN
      BY <1>2, <2>1, Zenon DEF ReadsAtOnce
    <3>2. QED
      BY <1>2, <2>1, <3>1, MoveLink, Zenon
  <2>3. BootEnds' /\ SendsEarly'
    BY <1>2, <2>1, <2>2, MoveBoot, MoveSends, Zenon
  <2>4. Hears' /\ ReadsAtOnce' /\ PrintsLate'
    BY <1>2, <2>1, MoveReceives, Zenon
  <2>5. QED
    BY <2>2, <2>3, <2>4, Zenon DEF BenchInv
<1>3. QED
  BY <1>1, <1>2

\* The first state, and the steps in which nothing happens.
LEMMA BenchStarts == Init => BenchInv(0)
<1> SUFFICES ASSUME Init PROVE BenchInv(0)
  OBVIOUS
<1>1. /\ reset = TRUE /\ phase = "edge"
      /\ at = [t \in Threads |-> IF t = "main" THEN "resetTest" ELSE "idle"]
      /\ departed = <<>> /\ received = <<>> /\ printed = <<>>
      /\ UartInit
  BY Zenon DEF Init
<1>2. /\ read = FALSE /\ irqRx = FALSE
      /\ TxClk!DivInit /\ RxClk!DivInit /\ Tx!TxInit
      /\ Rx!RxInit /\ buff_out = Rx!Zeros /\ shift_reg = Rx!Zeros
  BY <1>1, Zenon DEF UartInit
<1>3. /\ reg_empty = TRUE /\ buf_empty = TRUE /\ idx = 0
      /\ d_rdy = FALSE /\ o_err = FALSE /\ f_err = FALSE /\ rx_data = Rx!Zeros
  BY <1>2, Zenon DEF Tx!TxInit, Rx!RxInit
<1>4. at["main"] = "resetTest" /\ at["tx_isr"] = "idle" /\ at["rx_isr"] = "idle"
  BY <1>1 DEF Threads
<1>5. Got = 0 /\ Len(departed) = 0
  BY <1>1 DEF Got
<1>6. L!LinkInv(0)
  <2>1. OnWire = <<>>
    BY <1>1 DEF OnWire
  <2>2. L!TxClk!DivInit /\ L!RxClk!DivInit
    BY <1>2, Zenon DEF L!TxClk!DivInit, L!RxClk!DivInit, TxClk!DivInit, RxClk!DivInit
  <2>3. L!Tx!TxInit
    BY <1>2, Zenon DEF L!Tx!TxInit, Tx!TxInit
  <2>4. L!Rx!RxInit /\ L!Rx!Zeros = Rx!Zeros
    <3>1. L!Rx!Waiting = Rx!Waiting
      BY Zenon DEF L!Rx!Waiting, Rx!Waiting
    <3>2. L!Rx!Zeros = Rx!Zeros
      BY Zenon DEF L!Rx!Zeros, Rx!Zeros, L!Rx!Bits, Rx!Bits
    <3>3. QED
      BY <1>2, <3>1, <3>2, Zenon DEF L!Rx!RxInit, Rx!RxInit, L!Rx!Bit, Rx!Bit,
           L!Rx!Byte, Rx!Byte, L!Rx!Bits, Rx!Bits
  <2>5. L!LinkInit
    BY <1>2, <2>1, <2>2, <2>3, <2>4, Zenon DEF L!LinkInit
  <2>6. QED
    BY <2>5, LinkFacts, Zenon
<1>7. BootEnds
  BY <1>1, <1>4 DEF BootEnds
<1>8. SendsEarly
  BY <1>1, <1>3, <1>4 DEF SendsEarly
<1>9. Hears
  <2>1. Received
    BY <1>1, <1>5 DEF Received
  <2>2. ~(Got >= 1)
    BY <1>5
  <2>3. d_rdy \in BOOLEAN /\ o_err = FALSE /\ f_err = FALSE
    BY <1>3
  <2>4. QED
    BY <2>1, <2>2, <2>3, Zenon DEF Hears
<1>10. ReadsAtOnce
  BY <1>1, <1>2, <1>3, <1>4 DEF ReadsAtOnce
<1>11. PrintsLate
  <2>1. ~Fresh
    BY <1>3 DEF Fresh
  <2>2. QED
    BY <1>1, <1>3, <1>5, <2>1 DEF PrintsLate, Late
<1>12. QED
  BY <1>6, <1>7, <1>8, <1>9, <1>10, <1>11, Zenon DEF BenchInv

LEMMA BenchStutters ==
    ASSUME NEW lag, BenchInv(lag), UNCHANGED vars
    PROVE  BenchInv(lag)'
<1>1. /\ at' = at /\ timer' = timer /\ phase' = phase /\ reset' = reset /\ read' = read
      /\ data_out' = data_out /\ irqTx' = irqTx /\ irqRx' = irqRx /\ printed' = printed
      /\ UNCHANGED unitVars /\ UNCHANGED <<departed, received>>
  BY Zenon DEF vars, busVars, irqVars
<1>2. /\ PhaseTx' = PhaseTx /\ Elapsed' = Elapsed /\ Got' = Got
      /\ L!LinkInv(lag) => L!LinkInv(lag)'
      /\ UNCHANGED <<reg_empty, buf_empty, idx, d_rdy, o_err, f_err, buff_out, rx_data>>
      /\ UNCHANGED <<departed, received>>
  BY <1>1, TimeRests, Zenon
<1>3. SendLeft' = SendLeft /\ Fresh' = Fresh
  BY <1>1, <1>2, Zenon DEF SendLeft, Fresh
<1>4. BootEnds' /\ SendsEarly'
  BY <1>1, <1>2, <1>3, Zenon DEF BenchInv, BootEnds, SendsEarly
<1>5. Hears'
  BY <1>2, HearsRests, Zenon DEF BenchInv
<1>6. ReadsAtOnce'
  BY <1>1, <1>2, Zenon DEF BenchInv, ReadsAtOnce
<1>7. PrintsLate'
  <2>1. \A i : Late(i)' = Late(i)
    BY <1>2, Zenon DEF Late, Rx!Zeros, Rx!Bits, Bits
  <2>2. QED
    BY <1>1, <1>2, <1>3, <2>1, Zenon DEF BenchInv, PrintsLate
<1>8. QED
  BY <1>1, <1>2, <1>4, <1>5, <1>6, <1>7, Zenon DEF BenchInv

-----------------------------------------------------------------------------
\* What the invariant says of the properties.
LEMMA PrefixHolds ==
    ASSUME NEW S, NEW s \in Seq(S), NEW t \in Seq(S), Len(s) <= Len(t),
           \A i \in 1 .. Len(s) : s[i] = t[i]
    PROVE  IsPrefix(s, t)
<1>1. SubSeq(s, 1, Len(s)) = SubSeq(t, 1, Len(s))
  OBVIOUS
<1>2. QED
  BY <1>1 DEF IsPrefix

LEMMA BenchReceives ==
    ASSUME NEW lag, BenchInv(lag)
    PROVE  ReceivesMessage
<1>1. Received /\ o_err = FALSE /\ f_err = FALSE
  BY Zenon DEF BenchInv, Hears
<1>2. IsPrefix(received, departed)
  BY <1>1, PrefixHolds DEF Received, Got
<1>3. QED
  BY <1>1, <1>2 DEF ReceivesMessage

LEMMA BenchPrints ==
    ASSUME NEW lag, BenchInv(lag)
    PROVE  PrintsOneReadLate
<1> DEFINE all == <<Rx!Zeros>> \o received
<1>1. /\ printed \in Seq(Byte) /\ received \in Seq(Byte) /\ Got \in Nat
      /\ \A i \in 1 .. Len(printed) : printed[i] = Late(i)
      /\ Len(printed) = Got \/ (Len(printed) = Got - 1)
  BY DEF BenchInv, PrintsLate, Hears, Received, Got
<1>2. Rx!Zeros \in Byte
  BY DEF Rx!Zeros, Rx!Bits, Bits, Byte, Bit
<1>3. /\ all \in Seq(Byte) /\ Len(all) = Got + 1
      /\ all[1] = Rx!Zeros
      /\ \A i \in 2 .. Got + 1 : all[i] = received[i - 1]
  BY <1>1, <1>2 DEF Got
<1>4. Len(printed) <= Len(all) /\ Len(printed) \in Nat /\ Len(printed) <= Got
  BY <1>1, <1>3
<1>5. \A i \in 1 .. Len(printed) : printed[i] = all[i]
  <2> TAKE i \in 1 .. Len(printed)
  <2>1. CASE i = 1
    BY <1>1, <1>3, <2>1 DEF Late
  <2>2. CASE i # 1
    <3>1. i \in 2 .. Got + 1
      BY <1>1, <1>4, <2>2
    <3>2. printed[i] = received[i - 1]
      BY <1>1, <2>2, Zenon DEF Late
    <3>3. QED
      BY <1>3, <3>1, <3>2, Zenon
  <2>3. QED
    BY <2>1, <2>2
<1>6. QED
  <2>1. IsPrefix(printed, all)
    BY <1>1, <1>3, <1>4, <1>5, PrefixHolds, Zenon
  <2>2. QED
    BY <2>1, Zenon DEF PrintsOneReadLate

LEMMA BenchAccesses ==
    ASSUME MsgInv, NEW lag, Fits(lag), BenchInv(lag)
    PROVE  AccessesGoThrough
<1>0. at \in [Threads -> DOMAIN Drives]
  BY Zenon DEF MsgInv, Stations
<1>1. at["rx_isr"] # "idle" => at["main"] = "idle" /\ at["tx_isr"] = "idle"
  BY ReadAlone, Zenon
<1>2. ASSUME NEW t \in Threads, at[t] = "w_strobe"
      PROVE  \A u \in Threads : u # t => at[u] = "idle"
  <2>1. CASE t = "main"
    <3>1. Booting
      BY <1>2, <2>1 DEF Booting
    <3>2. at["tx_isr"] = "idle"
      BY <3>1, Zenon DEF MsgInv, AtBoot
    <3>3. QED
      BY <1>1, <1>2, <2>1, <3>2 DEF Threads
  <2>2. CASE t = "tx_isr"
    <3>1. at["main"] = "idle"
      BY <1>2, <2>2 DEF BenchInv, SendsEarly
    <3>2. QED
      BY <1>1, <1>2, <2>2, <3>1 DEF Threads
  <2>3. t # "rx_isr"
    BY <1>2 DEF MsgInv, Stations
  <2>4. QED
    BY <2>1, <2>2, <2>3 DEF Threads
<1>3. ASSUME NEW t \in Threads, at[t] \in Reading
      PROVE  \A u \in Threads : u # t => at[u] = "idle"
  <2>1. t = "rx_isr"
    BY <1>3 DEF Threads, Reading, MsgInv, Stations, Booting
  <2>2. QED
    BY <1>1, <1>3, <2>1 DEF Threads, Reading
<1>4. ASSUME NEW t \in Threads
      PROVE  /\ at[t] = "w_strobe" => Resolve(at, "ce") = "1" /\ Resolve(at, "wr") = "1"
             /\ at[t] \in Reading => Resolve(at, "ce") = "1" /\ Resolve(at, "rd") = "1"
  BY <1>0, <1>2, <1>3, LoneDriver
<1>5. QED
  BY <1>4, Zenon DEF AccessesGoThrough, Reading

\* Every step keeps the invariant, with the lag that the step leaves.
LEMMA BenchKeeps ==
    ASSUME MsgInv, NEW lag, Fits(lag), BenchInv(lag), Next,
           NEW next, next = IF phase = "edge" /\ reset THEN NextOf(lag) ELSE lag
    PROVE  BenchInv(next)'
<1>1. CASE RunThreads
  <2>1. phase # "edge"
    BY <1>1 DEF RunThreads
  <2>2. BenchInv(lag)'
    BY <1>1, RunBench, Zenon
  <2>3. QED
    BY <2>1, <2>2, Zenon
<1>2. CASE Interrupts
  <2>1. phase # "edge"
    BY <1>2 DEF Interrupts
  <2>2. BenchInv(lag)'
    BY <1>2, IrqBench, Zenon
  <2>3. QED
    BY <2>1, <2>2, Zenon
<1>3. CASE MoveUnits
  <2>1. phase = "edge"
    BY <1>3, Zenon DEF MoveUnits
  <2>2. next = IF reset THEN NextOf(lag) ELSE lag
    BY <2>1, Zenon
  <2>3. QED
    BY <1>3, <2>2, MoveBench, Zenon
<1>4. QED
  BY <1>1, <1>2, <1>3, Zenon DEF Next

-----------------------------------------------------------------------------
(***************************************************************************)
(* Equal bit lengths: the looks never move.                                *)
(***************************************************************************)
EqualRates == TX_PERIOD + 1 = 16 * (RX_PERIOD + 1)

LEMMA EqualRatesFit == EqualRates => Fits(0) /\ Drift = 0
<1> SUFFICES ASSUME EqualRates PROVE Fits(0) /\ Drift = 0
  OBVIOUS
<1>1. T = 16 * R
  BY Zenon DEF EqualRates, T, R
<1>2. PICK h \in Nat, s \in Nat : h = 8 * R /\ s = 16 * R
  BY Lengths
<1>3. s = h + h /\ h >= 16 /\ T = s
  BY <1>1, <1>2, Lengths, Zenon
<1>4. Drift = 0
  <2>1. s - s = 0
    BY <1>2
  <2>2. QED
    BY <1>2, <1>3, <2>1, Zenon DEF Drift
<1>5. /\ 0 \in Int /\ 8 < h + 0 /\ h + 0 + 4 < s /\ 0 < h + 0 + 0
  BY <1>3
<1>6. QED
  BY <1>2, <1>3, <1>4, <1>5, Zenon DEF Fits

LEMMA EqualRatesInvariant == EqualRates => (Spec => [](MsgInv /\ BenchInv(0)))
<1> SUFFICES ASSUME EqualRates PROVE Spec => [](MsgInv /\ BenchInv(0))
  OBVIOUS
<1>1. Fits(0) /\ Drift = 0
  BY EqualRatesFit, Zenon
<1>2. MsgInv /\ BenchInv(0) /\ [Next]_vars => BenchInv(0)'
  <2>1. ASSUME MsgInv, BenchInv(0), Next PROVE BenchInv(0)'
    <3>1. PICK next : next = IF phase = "edge" /\ reset THEN NextOf(0) ELSE 0
      OBVIOUS
    <3>2. next = 0
      <4>1. 0 + 0 = 0
        OBVIOUS
      <4>2. NextOf(0) = 0
        BY <1>1, <4>1, Zenon DEF NextOf
      <4>3. QED
        BY <3>1, <4>2, Zenon
    <3>3. BenchInv(next)'
      BY <1>1, <2>1, <3>1, BenchKeeps, Zenon
    <3>4. QED
      BY <3>2, <3>3, Zenon
  <2>2. QED
    BY <2>1, BenchStutters, Zenon
<1>3. QED
  BY <1>2, BenchStarts, MsgInvariant, PTL DEF Spec

(***************************************************************************)
(* With equal bit lengths, for every width, message and delay of the boot  *)
(* write: the bytes received are the bytes sent, without an error, and     *)
(* rx_isr has read each before the next is there (rx_unit.h, testbench.cpp)*)
(***************************************************************************)
THEOREM EqualRatesReceive == EqualRates => (Spec => []ReceivesMessage)
<1> SUFFICES ASSUME EqualRates PROVE Spec => []ReceivesMessage
  OBVIOUS
<1>1. BenchInv(0) => ReceivesMessage
  BY BenchReceives, Zenon
<1>2. QED
  BY <1>1, EqualRatesInvariant, PTL

(***************************************************************************)
(* With equal bit lengths rx_isr reads every byte once, and prints each    *)
(* with the read that follows its own (interfaceProcess samples rx_data    *)
(* when the bus cycle begins).                                             *)
(***************************************************************************)
THEOREM EqualRatesPrint == EqualRates => (Spec => []PrintsOneReadLate)
<1> SUFFICES ASSUME EqualRates PROVE Spec => []PrintsOneReadLate
  OBVIOUS
<1>1. BenchInv(0) => PrintsOneReadLate
  BY BenchPrints, Zenon
<1>2. QED
  BY <1>1, EqualRatesInvariant, PTL

(***************************************************************************)
(* With equal bit lengths no two accesses to the bus overlap, although     *)
(* bus_mutex of the bench is never locked.                                 *)
(***************************************************************************)
THEOREM EqualRatesAccess == EqualRates => (Spec => []AccessesGoThrough)
<1> SUFFICES ASSUME EqualRates PROVE Spec => []AccessesGoThrough
  OBVIOUS
<1>1. Fits(0)
  BY EqualRatesFit, Zenon
<1>2. MsgInv /\ BenchInv(0) => AccessesGoThrough
  BY <1>1, BenchAccesses, Zenon
<1>3. QED
  BY <1>2, EqualRatesInvariant, PTL

-----------------------------------------------------------------------------
(***************************************************************************)
(* Any bit lengths: as long as the drift leaves room for an access.  bits  *)
(* counts the pulses of the transmitter, as DriftingLink does.             *)
(***************************************************************************)
VARIABLE bits           \* transmitter pulses since the start

CountBits == bits' = IF phase = "edge" /\ reset /\ en_tx THEN bits + 1 ELSE bits

CountedSpec == Init /\ bits = 0 /\ [][Next /\ CountBits]_<<vars, bits>>

InTime == Fits(bits * Drift)

\* Arithmetic of the drift.
LEMMA DriftOf ==
    ASSUME NEW n \in Nat
    PROVE  /\ n * Drift \in Int /\ (n + 1) * Drift = n * Drift + Drift
           /\ Drift >= 0 => n * Drift >= 0
           /\ Drift < 0 => n * Drift <= 0
<1>1. Drift \in Int
  BY Lengths
<1>2. PICK d \in Int : d = Drift
  BY <1>1
<1>3. n * d \in Int /\ (n + 1) * d = n * d + d
  BY SMTT(30)
<1>4. (d >= 0 => n * d >= 0) /\ (d < 0 => n * d <= 0)
  BY SMTT(30)
<1>5. QED
  BY <1>2, <1>3, <1>4, Zenon

\* The drift goes one way: what leaves room now has left room before.
LEMMA FitsBefore ==
    ASSUME NEW n \in Nat, Fits((n + 1) * Drift)
    PROVE  Fits(n * Drift)
<1>1. /\ n * Drift \in Int /\ (n + 1) * Drift = n * Drift + Drift
      /\ Drift >= 0 => n * Drift >= 0
      /\ Drift < 0 => n * Drift <= 0
  BY DriftOf, Zenon
<1>2. PICK m \in Int, d \in Int, h \in Nat, t \in Nat :
           m = n * Drift /\ d = Drift /\ h = 8 * R /\ t = T
  BY <1>1, Lengths
<1>3. /\ 16 * R = h + h /\ h >= 16 /\ d = (h + h) - t
      /\ (n + 1) * Drift = m + d
  BY <1>1, <1>2, Lengths, Zenon DEF Drift
<1>4. /\ 8 < h + (m + d) /\ h + (m + d) + 4 < t /\ h + (m + d) + 4 < h + h
      /\ 0 < h + (m + d) + d
  BY <1>2, <1>3, Zenon DEF Fits
<1>5. (d >= 0 => m >= 0) /\ (d < 0 => m <= 0)
  BY <1>1, <1>2, Zenon
<1>6. 8 < h + m /\ h + m + 4 < t /\ h + m + 4 < h + h /\ 0 < h + m + d
  <2>1. CASE d >= 0
    BY <1>3, <1>4, <1>5, <2>1
  <2>2. CASE d < 0
    BY <1>3, <1>4, <1>5, <2>2
  <2>3. QED
    BY <2>1, <2>2
<1>7. QED
  BY <1>2, <1>3, <1>6, Zenon DEF Fits

\* The inductive invariant, with the lag that the bits have made.
CountedInv == /\ MsgInv /\ bits \in Nat
              /\ InTime => \E lag : lag = bits * Drift /\ BenchInv(lag)

LEMMA CountedKeeps ==
    ASSUME CountedInv, Next, CountBits
    PROVE  CountedInv'
<1>1. MsgInv'
  BY RunKeeps, MoveKeeps, IrqKeeps, Zenon DEF Next, CountedInv
<1>2. bits' \in Nat /\ (bits' = bits \/ bits' = bits + 1)
  BY DEF CountedInv, CountBits
<1>3. Drift' = Drift /\ R' = R /\ T' = T
  BY Zenon DEF Drift, R, T
<1>4. InTime' <=> Fits(bits' * Drift)
  BY <1>3, Zenon DEF InTime, Fits
<1>5. ASSUME InTime'
      PROVE  \E lag : lag = bits' * Drift /\ BenchInv(lag)'
  <2>1. Fits(bits * Drift)
    BY <1>2, <1>4, <1>5, FitsBefore, Zenon DEF CountedInv
  <2>2. PICK lag : lag = bits * Drift /\ BenchInv(lag)
    BY <2>1, Zenon DEF CountedInv, InTime
  <2>3. PICK next : next = IF phase = "edge" /\ reset THEN NextOf(lag) ELSE lag
    OBVIOUS
  <2>4. BenchInv(next)'
    BY <2>1, <2>2, <2>3, BenchKeeps, Zenon DEF CountedInv
  <2>5. next = bits' * Drift
    <3>1. (bits + 1) * Drift = bits * Drift + Drift
      BY DriftOf, Zenon DEF CountedInv
    <3>2. QED
      BY <2>2, <2>3, <3>1, Zenon DEF NextOf, CountBits
  <2>6. QED
    BY <2>4, <2>5, Zenon
<1>6. (\E lag : lag = bits * Drift /\ BenchInv(lag))'
        <=> \E lag : lag = bits' * Drift /\ BenchInv(lag)'
  BY <1>3, Zenon
<1>7. QED
  BY <1>1, <1>2, <1>5, <1>6, Zenon DEF CountedInv

LEMMA CountedInvariant == CountedSpec => []CountedInv
<1>1. Init /\ bits = 0 => CountedInv
  <2> SUFFICES ASSUME Init, bits = 0 PROVE CountedInv
    OBVIOUS
  <2>1. bits * Drift = 0 /\ bits \in Nat
    BY Lengths
  <2>2. QED
    BY <2>1, MsgStarts, BenchStarts, Zenon DEF CountedInv
<1>2. CountedInv /\ [Next /\ CountBits]_<<vars, bits>> => CountedInv'
  <2>1. ASSUME CountedInv, UNCHANGED vars, bits' = bits PROVE CountedInv'
    <3>1. MsgInv'
      BY <2>1, MsgStutters, Zenon DEF CountedInv
    <3>2. InTime' <=> InTime
      BY <2>1, Zenon DEF InTime, Fits, Drift, R, T
    <3>3. (\E lag : lag = bits * Drift /\ BenchInv(lag))'
            <=> \E lag : lag = bits * Drift /\ BenchInv(lag)'
      BY <2>1, Zenon DEF Drift, R, T
    <3>4. InTime => \E lag : lag = bits * Drift /\ BenchInv(lag)'
      BY <2>1, BenchStutters, Zenon DEF CountedInv
    <3>5. QED
      BY <2>1, <3>1, <3>2, <3>3, <3>4, Zenon DEF CountedInv
  <2>2. QED
    BY <2>1, CountedKeeps, Zenon
<1>3. QED
  BY <1>1, <1>2, PTL DEF CountedSpec

(***************************************************************************)
(* For every pair of periods: as long as the drift has left the looks in   *)
(* their bits, with room for an access, the bytes received are the bytes   *)
(* sent, read once each, and no two accesses overlap.                      *)
(***************************************************************************)
THEOREM DriftIsHarmless ==
    CountedSpec => [](InTime => ReceivesMessage /\ PrintsOneReadLate /\ AccessesGoThrough)
<1>1. CountedInv => (InTime => ReceivesMessage /\ PrintsOneReadLate /\ AccessesGoThrough)
  <2> SUFFICES ASSUME CountedInv, InTime
               PROVE  ReceivesMessage /\ PrintsOneReadLate /\ AccessesGoThrough
    OBVIOUS
  <2>1. PICK lag : lag = bits * Drift /\ BenchInv(lag)
    BY Zenon DEF CountedInv
  <2>2. Fits(lag) /\ MsgInv
    BY <2>1, Zenon DEF InTime, CountedInv
  <2>3. QED
    BY <2>1, <2>2, BenchReceives, BenchPrints, BenchAccesses, Zenon
<1>2. QED
  BY <1>1, CountedInvariant, PTL

(***************************************************************************)
(* With the periods of test_mini_uart.cpp, 4167 and 260, the three hold    *)
(* for the first 259 bits; the 8 ms that program simulates are 76 bits.    *)
(***************************************************************************)
THEOREM BenchOfTheTest ==
    TX_PERIOD = 4167 /\ RX_PERIOD = 260 =>
        (CountedSpec =>
            [](bits <= 259 => ReceivesMessage /\ PrintsOneReadLate /\ AccessesGoThrough))
<1> SUFFICES ASSUME TX_PERIOD = 4167, RX_PERIOD = 260
             PROVE  CountedSpec =>
                      [](bits <= 259 => ReceivesMessage /\ PrintsOneReadLate /\ AccessesGoThrough)
  OBVIOUS
<1>1. CountedInv /\ bits <= 259 => InTime
  <2> SUFFICES ASSUME bits \in Nat, bits <= 259 PROVE InTime
    BY DEF CountedInv
  <2>1. R = 261 /\ T = 4168 /\ Drift = 8
    BY DEF R, T, Drift
  <2>2. QED
    BY <2>1 DEF InTime, Fits
<1>2. QED
  BY <1>1, CountedInvariant, DriftIsHarmless, PTL
=============================================================================
