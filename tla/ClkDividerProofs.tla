-------------------------- MODULE ClkDividerProofs --------------------------
(***************************************************************************)
(* For every period from 1 to 65535: the counter stays in range and the    *)
(* divider implements Baud.                                                *)
(***************************************************************************)
EXTENDS ClkDivider, TLAPS

\* The pulse comes with the wrap: without this the second test of update_tx
\* could swallow the next pulse.
DivInv == DivTypeOK /\ (enable => cnt = 0)

LEMMA PeriodRange ==
    ASSUME PeriodFits
    PROVE  Period \in Nat /\ 0 < Period /\ Period < UINT16
  BY SMT DEF PeriodFits, UINT16

(***************************************************************************)
(* ++cnt_tx on 16 bits, then the comparison with tx_period: the counter    *)
(* goes from 0 to the period and back to 0, whatever the period.           *)
(***************************************************************************)
LEMMA BumpCounts ==
    ASSUME PeriodFits, NEW c \in 0 .. Period
    PROVE  Bump(c) = IF c = Period THEN 0 ELSE c + 1
  BY PeriodRange, SMT DEF Bump, UINT16

\* What a clock edge does to the counter, from the invariant.
LEMMA TickCounts ==
    ASSUME PeriodFits, DivTypeOK, DivTick
    PROVE  /\ cnt' = IF cnt = Period THEN 0 ELSE cnt + 1
           /\ cnt' \in 0 .. Period
           /\ cnt = Period => cnt' = 0
<1>1. cnt \in 0 .. Period
  BY DEF DivTypeOK
<1>2. cnt' = IF cnt = Period THEN 0 ELSE cnt + 1
  BY <1>1, BumpCounts, Zenon DEF DivTick
<1>3. QED
  BY <1>1, <1>2, PeriodRange

LEMMA DivInvInductive ==
    ASSUME PeriodFits
    PROVE  Spec => []DivInv
<1>1. DivInit => DivInv
  <2>1. 0 \in 0 .. Period
    BY PeriodRange
  <2>2. QED
    BY <2>1, Zenon DEF DivInit, DivInv, DivTypeOK
<1>2. DivInv /\ [Next]_divVars => DivInv'
  <2> SUFFICES ASSUME DivInv, [Next]_divVars
               PROVE  DivInv'
    OBVIOUS
  <2>1. CASE DivReset
    <3>1. 0 \in 0 .. Period
      BY PeriodRange
    <3>2. QED
      BY <2>1, <3>1, Zenon DEF DivReset, DivInv, DivTypeOK
  <2>2. CASE DivTick
    <3>1. cnt' \in 0 .. Period /\ (cnt = Period => cnt' = 0)
      BY <2>2, TickCounts, Zenon DEF DivInv
    <3>2. enable' \in BOOLEAN /\ (enable' => cnt = Period)
      BY <2>2, Zenon DEF DivTick
    <3>3. QED
      BY <3>1, <3>2, Zenon DEF DivInv, DivTypeOK
  <2>3. CASE UNCHANGED divVars
    BY <2>3, Zenon DEF divVars, DivInv, DivTypeOK
  <2>4. QED
    BY <2>1, <2>2, <2>3 DEF Next
<1>3. QED
  BY <1>1, <1>2, PTL DEF Spec

(***************************************************************************)
(* Type correctness of the divider (update_tx, update_rx).                 *)
(***************************************************************************)
THEOREM DivTypeCorrect ==
    ASSUME PeriodFits
    PROVE  Spec => []DivTypeOK
<1>1. DivInv => DivTypeOK
  BY DEF DivInv
<1>2. QED
  BY <1>1, DivInvInductive, PTL

(***************************************************************************)
(* The divider gives exactly one pulse, one clock wide, every Period + 1   *)
(* clocks: update_tx and update_rx implement Baud.                         *)
(***************************************************************************)
THEOREM DivImplementsBaud ==
    ASSUME PeriodFits
    PROVE  Spec => PulsesEveryPeriod
<1>1. DivInit => B!Init
  BY DEF DivInit, B!Init
<1>2. DivInv /\ [Next]_divVars => [B!Next]_<<cnt, enable>>
  <2> SUFFICES ASSUME DivInv, [Next]_divVars
               PROVE  [B!Next]_<<cnt, enable>>
    OBVIOUS
  <2>1. CASE DivReset
    BY <2>1 DEF DivReset, B!Next, B!Restart
  <2>2. CASE DivTick
    <3>1. cnt' = IF cnt = Period THEN 0 ELSE cnt + 1
      BY <2>2, TickCounts, Zenon DEF DivInv
    <3>2. CASE cnt = Period
      <4>1. cnt' = 0
        BY <3>1, <3>2, Zenon
      <4>2. cnt # 0
        BY <3>2, PeriodRange
      <4>3. enable' = TRUE
        BY <2>2, <3>2, <4>2, Zenon DEF DivTick, DivInv
      <4>4. QED
        BY <3>2, <4>1, <4>3, Zenon DEF B!Next, B!Pulse
    <3>3. CASE cnt # Period
      <4>1. cnt < Period
        <5>1. cnt \in 0 .. Period
          BY DEF DivInv, DivTypeOK
        <5>2. QED
          BY <3>3, <5>1, PeriodRange
      <4>2. cnt' = cnt + 1
        BY <3>1, <3>3, Zenon
      <4>3. enable' = FALSE
        BY <2>2, <3>3, Zenon DEF DivTick
      <4>4. QED
        BY <4>1, <4>2, <4>3, Zenon DEF B!Next, B!Count
    <3>4. QED
      BY <3>2, <3>3
  <2>3. CASE UNCHANGED divVars
    BY <2>3, Zenon DEF divVars
  <2>4. QED
    BY <2>1, <2>2, <2>3 DEF Next
<1>3. QED
  BY <1>1, <1>2, DivInvInductive, PTL DEF Spec, PulsesEveryPeriod, B!Spec
=============================================================================
