----------------------------- MODULE ClkDivider -----------------------------
(***************************************************************************)
(* One of the two baud rate dividers of Clk_unit (systemC/TP/tp2/src/      *)
(* clk_unit.h).  update_tx and update_rx are the same process on different *)
(* members (cnt_tx, tx_period, enable_tx / cnt_rx, rx_period, enable_rx):  *)
(* a UART instantiates this module twice.                                  *)
(*                                                                         *)
(* The process is a SC_METHOD on clk.pos and reset.neg.  It reads the      *)
(* value enable had before the edge, whatever it has already written in    *)
(* the same activation, and its last write wins.                           *)
(***************************************************************************)
EXTENDS Naturals

CONSTANT Period             \* tx_period or rx_period, a uint16_t

UINT16 == 65536             \* cnt_tx, cnt_rx : uint16_t

\* What the instances assume of their period: UartUnit.tla, SerialLink.tla.
PeriodFits == Period \in 1 .. UINT16 - 1

VARIABLES cnt, enable

divVars == <<cnt, enable>>

DivTypeOK == cnt \in 0 .. Period /\ enable \in BOOLEAN

DivInit == cnt = 0 /\ enable = FALSE

\* reset->read() == false, on a clock edge or on the falling edge of reset
DivReset == enable' = FALSE /\ cnt' = 0

\* Mutant: the wrap comes one clock late.
Bump_late(c) == LET d == (c + 1) % UINT16 IN IF d > Period + 1 THEN 0 ELSE d

\* ++cnt on 16 bits, then back to 0 once past the period
Bump(c) == LET d == (c + 1) % UINT16 IN IF d > Period THEN 0 ELSE d

\* Mutant: the second toggle is missing.
DivTick_one_toggle == /\ enable' = (IF cnt = Period THEN ~enable ELSE enable)
                      /\ cnt' = Bump(cnt)

\* A rising clock edge with reset high.  Both tests toggle the value read
\* before the edge, so a signal that is up always comes down.
DivTick == /\ enable' = (~enable /\ cnt = Period)
           /\ cnt' = Bump(cnt)

Next == DivReset \/ DivTick

Spec == DivInit /\ [][Next]_divVars

-----------------------------------------------------------------------------
(***************************************************************************)
(* Safety: an observer of enable sees exactly one pulse every Period + 1   *)
(* clocks, one clock wide, from any reset on.                              *)
(***************************************************************************)
B == INSTANCE Baud WITH age <- cnt, pulse <- enable
PulsesEveryPeriod == B!Spec
=============================================================================
