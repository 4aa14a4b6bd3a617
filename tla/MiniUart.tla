------------------------------ MODULE MiniUart ------------------------------
(***************************************************************************)
(* The system of test_mini_uart.cpp: Uart_unit, looped back on itself, and *)
(* the three threads of TestBench (testbench.cpp) that drive its bus.      *)
(*                                                                         *)
(* A clock period has three steps, which is the order of the delta cycles: *)
(*   "bus"   the threads whose wait ends now run, then interfaceProcess;   *)
(*   "edge"  sys_clk, one delta behind the clock, moves the three units;   *)
(*   "irq"   combinationnal, then the interrupt threads its edges wake,    *)
(*           then interfaceProcess.                                        *)
(* Each thread has its own driver on the resolved signals.                 *)
(***************************************************************************)
EXTENDS UartUnit, FiniteSets, SequencesExt

CONSTANTS MESS,             \* the message with its terminating NUL
          SIZEOF_MESS,      \* sizeof(mess), the size of a pointer
          RELEASE_LEVELS,   \* what resetTest may write to reset at its end
          SETTLE            \* clocks between resetTest and the boot write

ASSUME BenchAssumption == /\ MESS \in Seq(Payloads)
                          /\ SIZEOF_MESS \in Nat /\ SIZEOF_MESS < Len(MESS)
                          /\ RELEASE_LEVELS \subseteq BOOLEAN
                          /\ SETTLE \subseteq Nat \ {0}

VARIABLES phase,
          at,           \* the wait each thread is in
          timer,        \* clocks before it ends
          char,         \* the data_ argument of its current write
          cpt_car,
          departed, received, printed   \* histories of bytes

benchVars == <<at, timer, char, cpt_car>>
histVars  == <<departed, received, printed>>
vars == <<phase, at, timer, char, cpt_car, departed, received, printed,
          reset, busVars, irqVars, unitVars>>

Threads == {"main", "tx_isr", "rx_isr"}

\* The waits of the threads, in order, with their length in clocks and the
\* values their thread drives meanwhile: resetTest, write, read.
After == [resetTest |-> "settle", settle |-> "w_select",
          w_select |-> "w_strobe", w_strobe |-> "w_end", w_end |-> "idle",
          r_select |-> "r_sample", r_sample |-> "r_end", r_end |-> "idle"]
Clocks == [resetTest |-> 20, w_select |-> 1, w_strobe |-> 3, w_end |-> 1,
           r_select |-> 1, r_sample |-> 1, r_end |-> 1, idle |-> 0]
\* Mutant: the bus is not released after an access.
Drives_no_release ==
          [resetTest |-> [ce |-> "0", wr |-> "0", rd |-> "0"],
           w_select  |-> [ce |-> "1", wr |-> "0", rd |-> "0"],
           w_strobe  |-> [ce |-> "1", wr |-> "1", rd |-> "0"],
           w_end     |-> [ce |-> "0", wr |-> "0", rd |-> "0"],
           r_select  |-> [ce |-> "1", wr |-> "0", rd |-> "1"],
           r_sample  |-> [ce |-> "1", wr |-> "0", rd |-> "1"],
           r_end     |-> [ce |-> "0", wr |-> "0", rd |-> "0"],
           settle    |-> [ce |-> "Z", wr |-> "Z", rd |-> "Z"],
           idle      |-> [ce |-> "0", wr |-> "0", rd |-> "0"]]

Drives == [resetTest |-> [ce |-> "0", wr |-> "0", rd |-> "0"],
           w_select  |-> [ce |-> "1", wr |-> "0", rd |-> "0"],
           w_strobe  |-> [ce |-> "1", wr |-> "1", rd |-> "0"],
           w_end     |-> [ce |-> "0", wr |-> "0", rd |-> "0"],
           r_select  |-> [ce |-> "1", wr |-> "0", rd |-> "1"],
           r_sample  |-> [ce |-> "1", wr |-> "0", rd |-> "1"],
           r_end     |-> [ce |-> "0", wr |-> "0", rd |-> "0"],
           settle    |-> [ce |-> "Z", wr |-> "Z", rd |-> "Z"],
           idle      |-> [ce |-> "Z", wr |-> "Z", rd |-> "Z"]]

\* Resolution of sc_signal_resolved over the drivers of the threads.
Resolve(w, sig) == LET vs == {Drives[w[t]][sig] : t \in Threads} \ {"Z"}
                   IN  IF vs = {} THEN "Z"
                       ELSE IF Cardinality(vs) = 1 THEN CHOOSE v \in vs : TRUE
                       ELSE "X"
ResolveData(w, c) == LET vs == {c[t] : t \in {u \in Threads : w[u] = "w_strobe"}}
                     IN  IF Cardinality(vs) = 1 THEN CHOOSE v \in vs : TRUE ELSE Undriven
Bus(w, c) == <<Resolve(w, "ce"), Resolve(w, "rd"), Resolve(w, "wr"), ResolveData(w, c)>>

\* interfaceProcess runs when the threads have changed the bus.  All accesses
\* of the bench are at address 0, so the status is never looked at.
Propagate == LET b == Bus(at', char')
             IN  IF b = Bus(at, char) THEN UNCHANGED busVars
                 ELSE InterfaceProcess(b[1], b[2], b[3], 0, b[4], Undriven)

-----------------------------------------------------------------------------
\* main_thread has run up to its first wait, in resetTest.
Init == /\ UartInit
        /\ reset = TRUE
        /\ phase = "edge"
        /\ at = [t \in Threads |-> IF t = "main" THEN "resetTest" ELSE "idle"]
        /\ timer = [t \in Threads |-> Clocks[at[t]]]
        /\ char = [t \in Threads |-> Undriven]
        /\ cpt_car = 0
        /\ departed = <<>> /\ received = <<>> /\ printed = <<>>

Due(t) == timer[t] = 1

\* "bus": the threads whose wait ends move to their next one.
RunThreads ==
    /\ phase = "bus" /\ phase' = "edge"
    /\ at' = [t \in Threads |-> IF Due(t) THEN After[at[t]] ELSE at[t]]
    /\ \E s \in SETTLE :
         timer' = [t \in Threads |->
                     IF ~Due(t) THEN IF timer[t] = 0 THEN 0 ELSE timer[t] - 1
                     ELSE IF at'[t] = "settle" THEN s
                     ELSE Clocks[at'[t]]]
    /\ char' = [t \in Threads |-> IF Due(t) /\ at[t] = "settle"
                                  THEN MESS[cpt_car + 1] ELSE char[t]]
    /\ IF Due("main") /\ at["main"] = "resetTest" THEN reset' \in RELEASE_LEVELS
       ELSE UNCHANGED reset
    /\ printed' = IF Due("rx_isr") /\ at["rx_isr"] = "r_select"
                  THEN Append(printed, data_out) ELSE printed
    /\ Propagate
    /\ UNCHANGED <<cpt_car, departed, received, irqVars, unitVars>>

\* "edge": one rising edge of sys_clk.
MoveUnits ==
    /\ phase = "edge" /\ phase' = "irq"
    /\ Edge
    /\ departed' = IF reset /\ en_tx /\ ~reg_empty /\ idx = 0
                   THEN Append(departed, reg) ELSE departed
    /\ received' = IF reset /\ Rx!Completes(en_rx)
                   THEN Append(received, shift_reg) ELSE received
    /\ UNCHANGED <<benchVars, printed, reset, busVars, irqVars>>

\* "irq": an interrupt thread that waits for it sees a rising edge; one that
\* is in the middle of a bus cycle does not.
WakeTx == at["tx_isr"] = "idle" /\ ~irqTx /\ irqTx' /\ cpt_car < SIZEOF_MESS
WakeRx == at["rx_isr"] = "idle" /\ ~irqRx /\ irqRx'

Interrupts ==
    /\ phase = "irq" /\ phase' = "bus"
    /\ Combinationnal
    /\ at' = [t \in Threads |-> IF t = "tx_isr" /\ WakeTx THEN "w_select"
                                ELSE IF t = "rx_isr" /\ WakeRx THEN "r_select"
                                ELSE at[t]]
    /\ timer' = [t \in Threads |-> IF at'[t] # at[t] THEN Clocks[at'[t]] ELSE timer[t]]
    /\ cpt_car' = IF WakeTx THEN cpt_car + 1 ELSE cpt_car
    /\ char' = IF WakeTx THEN [char EXCEPT !["tx_isr"] = MESS[cpt_car' + 1]] ELSE char
    /\ Propagate
    /\ UNCHANGED <<histVars, reset, unitVars>>

Next == RunThreads \/ MoveUnits \/ Interrupts

\* The simulation runs: time advances.
Spec == Init /\ [][Next]_vars /\ WF_vars(Next)
-----------------------------------------------------------------------------
TypeOK == /\ UartTypeOK
          /\ phase \in {"bus", "edge", "irq"}
          /\ at \in [Threads -> DOMAIN Drives]
          /\ timer \in [Threads -> Nat]
          /\ char \in [Threads -> Byte \union {Undriven}]
          /\ cpt_car \in 0 .. SIZEOF_MESS
          /\ departed \in Seq(Byte) /\ received \in Seq(Byte)
          /\ printed \in Seq(Byte \union {Undriven})

(***************************************************************************)
(* Safety: the interrupt driven chain of writes sends the message: no      *)
(* character is sent twice, skipped, or overwritten in the buffer by the   *)
(* next one, although each write holds load for three clocks.              *)
(***************************************************************************)
SendsMessage == IsPrefix(departed, MESS)

(***************************************************************************)
(* Safety: what the receiver hands over is what was sent, and the receive  *)
(* interrupt is served before the next byte is there.                      *)
(***************************************************************************)
ReceivesMessage == IsPrefix(received, departed) /\ ~o_err /\ ~f_err

(***************************************************************************)
(* Safety: although bus_mutex is never locked, no access is spoilt by      *)
(* another thread's drivers.  The first transmit interrupt comes while the *)
(* boot write still drives ce to 0, but not while an access is under way.  *)
(***************************************************************************)
AccessesGoThrough ==
    \A t \in Threads :
        /\ at[t] = "w_strobe" => Resolve(at, "ce") = "1" /\ Resolve(at, "wr") = "1"
        /\ at[t] \in {"r_select", "r_sample"} =>
                Resolve(at, "ce") = "1" /\ Resolve(at, "rd") = "1"

(***************************************************************************)
(* Safety: every byte is read once.  A read returns what rx_data held when *)
(* the bus cycle began, the byte of the read before: the bytes printed are *)
(* the bytes received, one read late.                                      *)
(***************************************************************************)
PrintsOneReadLate == IsPrefix(printed, <<Rx!Zeros>> \o received)

(***************************************************************************)
(* Liveness: the whole message gets through, no interrupt edge is lost     *)
(* while its thread is busy with a bus cycle, if the units are out of      *)
(* reset.  At the level that testbench.cpp leaves, nothing is ever sent.   *)
(***************************************************************************)
MessageGetsThrough == <>[](IF reset THEN received = MESS ELSE departed = <<>>)

(***************************************************************************)
(* Safety: both dividers keep their period whatever the other units and    *)
(* the bench do, and through the resets of the bench.                      *)
(***************************************************************************)
PulsesOnTime == TxClk!PulsesEveryPeriod /\ RxClk!PulsesEveryPeriod

-----------------------------------------------------------------------------
(***************************************************************************)
(* Claim of testbench.cpp:17-18: the first character, which main_thread    *)
(* prints as "Write Boot" and writes, leaves.                              *)
(***************************************************************************)
BootWriteDeparts == <>(departed # <<>>)
=============================================================================
