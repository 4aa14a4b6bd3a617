--------------------------- MODULE RtosLabsProofs ---------------------------
(***************************************************************************)
(* The RTOS labs, one after the other.  Lab 3-1: for every table size,     *)
(* every constNumber and all delays, the program is type correct, and the  *)
(* inspector never finds the table inconsistent.  When the delays leave    *)
(* room in the period no activation is lost, and when moreover constNumber *)
(* makes up for the activations that are counted down, the table stays     *)
(* where it is for ever.  Lab 2-4: for every length of the queue and any   *)
(* number of edges, the counts are displayed in order, none twice, and     *)
(* lost only behind a whole queue.                                         *)
(***************************************************************************)
EXTENDS SharedTable, PushButton, SequenceTheorems, TLAPS

-----------------------------------------------------------------------------
(***************************************************************************)
(* Lab 3-1                                                                 *)
(***************************************************************************)
LEMMA Sizes ==
    /\ TABLE_SIZE \in Nat /\ TABLE_SIZE > 1
    /\ CONST_NUMBER \in Int /\ GARBAGE \subseteq Int
    /\ ACTIVATIONS \in Nat
    /\ PERIOD \in Nat /\ TIMER_WORK \in Nat /\ TIMER_WORK < PERIOD
    /\ TABLE_WORK \in Nat /\ PAUSE \in Nat /\ PAUSE >= 1
  BY TableAssumption

LEMMA Ranges ==
    /\ 0 \in Elements /\ Last \in Elements
    /\ \A i \in Elements : i < Last => i + 1 \in Elements
    /\ 0 \in 0 .. PERIOD /\ PERIOD \in 0 .. PERIOD /\ TIMER_WORK \in 0 .. PERIOD
    /\ 0 \in 0 .. TABLE_WORK /\ TABLE_WORK \in 0 .. TABLE_WORK
    /\ 0 \in 0 .. PAUSE /\ 1 \in 0 .. PAUSE /\ PAUSE \in 0 .. PAUSE
    /\ 0 \in 0 .. ACTIVATIONS /\ ACTIVATIONS \in 0 .. ACTIVATIONS
    /\ \A n \in 0 .. ACTIVATIONS : n # 0 => n - 1 \in 0 .. ACTIVATIONS
  BY Sizes DEF Elements, Last

LEMMA LessBounds == ASSUME NEW m \in Nat, NEW n \in 0 .. m
                    PROVE  Less(n) \in 0 .. m
  BY DEF Less

(***************************************************************************)
(* Each task's own steps keep its type; the other tasks do not touch it.   *)
(***************************************************************************)
LEMMA InitType == Init => TypeOK
<1>1. Init => TimerType /\ IncType /\ DecType
  BY Sizes, Ranges DEF Init, TimerType, IncType, DecType
<1>2. Init => InspType
  <2>. DEFINE no == FALSE
  <2>1. Init => insp = [pc |-> "mutex", left |-> 0, i |-> 0, reference |-> 0, error |-> no]
    BY DEF Init
  <2>2. no \in BOOLEAN
    OBVIOUS
  <2>. HIDE DEF no
  <2>3. QED
    BY <2>1, <2>2, Ranges DEF InspType
<1>3. Init => SharedType
  BY DEF Init, SharedType, Elements, Free
<1>4. Init => FlagType
  BY Zenon DEF Init, FlagType
<1>5. QED
  BY <1>1, <1>2, <1>3, <1>4 DEF TypeOK

LEMMA TimerStepsType ==
    ASSUME TypeOK, TimerWakes \/ TimerGives
    PROVE  TypeOK'
<1>1. TimerType'
  BY Sizes, Ranges DEF TypeOK, TimerType, TimerWakes, TimerGives
<1>2. IncType' /\ DecType' /\ InspType' /\ SharedType'
  BY DEF TypeOK, IncType, DecType, InspType, SharedType, TimerWakes, TimerGives
<1>3. FlagType'
  BY Zenon DEF TypeOK, FlagType, TimerWakes, TimerGives
<1>4. QED
  BY <1>1, <1>2, <1>3 DEF TypeOK

LEMMA IncStepsType ==
    ASSUME TypeOK, Inc
    PROVE  TypeOK'
<1>0. IncType /\ SharedType
  BY DEF TypeOK
<1>1. TimerType' /\ DecType' /\ InspType'
  BY DEF TypeOK, TimerType, DecType, InspType, Inc
<1>2. IncType'
  <2>1. CASE IncStarts
    <3>1. PICK c \in Int : inc' = [inc EXCEPT !.pc = "sem", !.const = c]
      BY <2>1, Sizes DEF IncStarts
    <3>2. QED
      BY <1>0, <3>1 DEF IncType
  <2>2. CASE IncTakesSem
    <3>1. inc' = IF inc.activation = 0 THEN [inc EXCEPT !.pc = "mutex"]
                                       ELSE [inc EXCEPT !.activation = @ - 1]
      BY <2>2 DEF IncTakesSem
    <3>2. QED
      BY <1>0, <3>1, Ranges DEF IncType
  <2>3. CASE IncTakesMutex
    BY <1>0, <2>3, Ranges DEF IncTakesMutex, IncType
  <2>4. CASE IncAdds
    BY <1>0, <2>4, Ranges DEF IncAdds, IncType
  <2>5. CASE IncGivesMutex
    BY <1>0, <2>5, Ranges DEF IncGivesMutex, IncType
  <2>6. CASE IncEnds
    BY <1>0, <2>6, Ranges DEF IncEnds, IncType
  <2>7. QED
    BY <2>1, <2>2, <2>3, <2>4, <2>5, <2>6 DEF Inc
<1>3. SharedType'
  <2>1. CASE IncAdds
    BY <1>0, <2>1 DEF IncAdds, IncType, SharedType
  <2>2. CASE IncStarts \/ IncTakesSem \/ IncTakesMutex \/ IncGivesMutex \/ IncEnds
    BY <1>0, <2>2 DEF IncStarts, IncTakesSem, IncTakesMutex, IncGivesMutex, IncEnds,
                      SharedType, Free
  <2>3. QED
    BY <2>1, <2>2 DEF Inc
<1>4. FlagType'
  BY Zenon DEF TypeOK, FlagType, Inc, IncStarts, IncTakesSem, IncTakesMutex, IncAdds,
               IncGivesMutex, IncEnds
<1>5. QED
  BY <1>1, <1>2, <1>3, <1>4 DEF TypeOK

LEMMA DecStepsType ==
    ASSUME TypeOK, Dec
    PROVE  TypeOK'
<1>0. DecType /\ SharedType
  BY DEF TypeOK
<1>1. TimerType' /\ IncType' /\ InspType'
  BY DEF TypeOK, TimerType, IncType, InspType, Dec
<1>2. DecType'
  <2>1. CASE DecTakesSem \/ DecTakesMutex
    BY <1>0, <2>1, Ranges DEF DecTakesSem, DecTakesMutex, DecType
  <2>2. CASE DecSubtracts \/ DecGivesMutex \/ DecEnds
    BY <1>0, <2>2, Ranges DEF DecSubtracts, DecGivesMutex, DecEnds, DecType
  <2>3. QED
    BY <2>1, <2>2 DEF Dec
<1>3. SharedType'
  <2>1. CASE DecSubtracts
    BY <1>0, <2>1 DEF DecSubtracts, DecType, SharedType
  <2>2. CASE DecTakesSem \/ DecTakesMutex \/ DecGivesMutex \/ DecEnds
    BY <1>0, <2>2 DEF DecTakesSem, DecTakesMutex, DecGivesMutex, DecEnds, SharedType, Free
  <2>3. QED
    BY <2>1, <2>2 DEF Dec
<1>4. FlagType'
  BY Zenon DEF TypeOK, FlagType, Dec, DecTakesSem, DecTakesMutex, DecSubtracts,
               DecGivesMutex, DecEnds
<1>5. QED
  BY <1>1, <1>2, <1>3, <1>4 DEF TypeOK

LEMMA InspStepsType ==
    ASSUME TypeOK, Insp
    PROVE  TypeOK'
<1>0. InspType /\ SharedType
  BY DEF TypeOK
<1>1. TimerType' /\ IncType' /\ DecType'
  BY DEF TypeOK, TimerType, IncType, DecType, Insp
<1>2. FlagType'
  BY Zenon DEF TypeOK, FlagType, Insp
<1>3. InspType'
  <2>1. CASE InspTakesMutex
    <3>1. Table[0] \in Int
      BY <1>0, Ranges DEF SharedType
    <3>2. QED
      BY <2>1, <3>1, Ranges DEF InspTakesMutex, InspType
  <2>2. CASE InspCompares
    <3>. DEFINE error == insp.error \/ Table[insp.i] # insp.reference + insp.i
                next  == insp.i + 1
                left  == IF insp.i + 1 < Last THEN 1 ELSE 0
    <3>1. insp' = [insp EXCEPT !.error = error, !.i = next, !.left = left]
      BY <2>2, Zenon DEF InspCompares
    <3>2. error \in BOOLEAN
      OBVIOUS
    <3>3. next \in Elements /\ left \in 0 .. PAUSE
      BY <1>0, <2>2, Ranges DEF InspCompares, InspType
    <3>. HIDE DEF error, next, left
    <3>4. QED
      BY <1>0, <3>1, <3>2, <3>3 DEF InspType
  <2>3. CASE InspGivesMutex
    BY <1>0, <2>3, Ranges DEF InspGivesMutex, InspType
  <2>4. CASE InspEnds
    <3>1. PICK pc \in {"exited", "mutex"} : insp' = [insp EXCEPT !.pc = pc]
      BY <2>4, Zenon DEF InspEnds
    <3>2. QED
      BY <1>0, <3>1 DEF InspType
  <2>5. QED
    BY <2>1, <2>2, <2>3, <2>4 DEF Insp
<1>4. SharedType'
  BY <1>0 DEF Insp, InspTakesMutex, InspCompares, InspGivesMutex, InspEnds, SharedType, Free
<1>5. QED
  BY <1>1, <1>2, <1>3, <1>4 DEF TypeOK

LEMMA TickType ==
    ASSUME TypeOK, Tick
    PROVE  TypeOK'
<1>1. TimerType'
  BY Sizes, LessBounds DEF TypeOK, TimerType, Tick
<1>2. IncType' /\ DecType'
  BY Sizes, LessBounds DEF TypeOK, IncType, DecType, Tick
<1>3. InspType'
  BY Sizes, LessBounds DEF TypeOK, InspType, Tick
<1>4. SharedType'
  BY DEF TypeOK, SharedType, Tick
<1>5. FlagType'
  BY Zenon DEF TypeOK, FlagType, Tick
<1>6. QED
  BY <1>1, <1>2, <1>3, <1>4, <1>5 DEF TypeOK

LEMMA OtherStepsType ==
    ASSUME TypeOK, AppMainExits \/ UNCHANGED vars
    PROVE  TypeOK'
<1>1. UNCHANGED <<Table, mutex, timer, inc, dec, insp>>
  BY DEF AppMainExits, vars
<1>2. TimerType' /\ IncType' /\ DecType'
  BY <1>1 DEF TypeOK, TimerType, IncType, DecType
<1>3. InspType' /\ SharedType'
  BY <1>1 DEF TypeOK, InspType, SharedType
<1>4. FlagType'
  BY Zenon DEF TypeOK, FlagType, AppMainExits, vars
<1>5. QED
  BY <1>2, <1>3, <1>4 DEF TypeOK

LEMMA NextType == TypeOK /\ [Next]_vars => TypeOK'
  BY TimerStepsType, IncStepsType, DecStepsType, InspStepsType, TickType, OtherStepsType
     DEF Next

(***************************************************************************)
(* Type correctness: loop indices stay in the table, delays in their       *)
(* bounds, for the whole life of the four tasks.                           *)
(***************************************************************************)
THEOREM TableTypeCorrect == Spec => []TypeOK
  BY InitType, NextType, PTL DEF Spec

-----------------------------------------------------------------------------
(***************************************************************************)
(* Why the inspector finds nothing: a task that is in its loop, or that    *)
(* compares, holds the mutex, and the elements a loop has passed are ahead *)
(* of the others by what that loop adds, so that with nobody in a loop     *)
(* Table[i] = Table[0] + i.                                                *)
(***************************************************************************)
Holders == /\ inc.pc = "loop" => mutex = "inc"
           /\ dec.pc = "loop" => mutex = "dec"
           /\ insp.pc = "check" => mutex = "insp"

Pending(i) == (IF inc.pc = "loop" /\ i < inc.i THEN inc.const ELSE 0)
              - (IF dec.pc = "loop" /\ i < dec.i THEN 1 ELSE 0)

Shifted(base) == \A i \in Elements \ {Last} : Table[i] = base + i + Pending(i)

InStep == \E base \in Int : Shifted(base)

Checking == insp.pc = "check" => insp.reference = Table[0]

TableInv == TypeOK /\ Holders /\ InStep /\ Checking /\ NeverInconsistent

(***************************************************************************)
(* How far the table is shifted changes only when a loop is complete: by   *)
(* constNumber for IncTable, by one for DecTable.                          *)
(***************************************************************************)
LEMMA IncShifts ==
    ASSUME TypeOK, Holders, Inc, NEW base \in Int, Shifted(base), ~IncGivesMutex
    PROVE  Shifted(base)'
<1>0. IncType /\ DecType /\ SharedType /\ UNCHANGED <<dec, insp>>
  BY DEF TypeOK, Inc
<1>1. CASE IncTakesMutex
  <2>1. inc.pc = "mutex" /\ inc'.pc = "loop" /\ inc'.i = 0 /\ mutex = "free" /\ Table' = Table
    BY <1>0, <1>1 DEF IncTakesMutex, IncType, Free
  <2>2. dec.pc # "loop"
    BY <2>1 DEF Holders
  <2>3. \A i \in Elements : ~(i < inc'.i) /\ dec'.pc # "loop"
    BY <1>0, <2>1, <2>2, Sizes DEF Elements
  <2>4. \A i \in Elements : Pending(i)' = 0 - 0 /\ Pending(i) = 0 - 0
    BY <2>1, <2>2, <2>3, Zenon DEF Pending
  <2>5. QED
    BY <2>1, <2>4 DEF Shifted
<1>2. CASE IncAdds
  <2>1. /\ inc.pc = "loop" /\ inc'.pc = "loop" /\ inc'.i = inc.i + 1 /\ inc.i < Last
        /\ inc'.const = inc.const /\ inc.const \in Int /\ inc.i \in Elements
        /\ Table' = [Table EXCEPT ![inc.i] = @ + inc.const]
    BY <1>0, <1>2 DEF IncAdds, IncType
  <2>2. dec.pc # "loop"
    BY <2>1 DEF Holders
  <2>3. \A i \in Elements : /\ Pending(i) = IF i < inc.i THEN inc.const ELSE 0
                            /\ Pending(i)' = IF i < inc.i + 1 THEN inc.const ELSE 0
    BY <1>0, <2>1, <2>2 DEF Pending
  <2>4. ASSUME NEW i \in Elements \ {Last}
        PROVE  Table'[i] = base + i + Pending(i)'
    <3>1. /\ Table \in [Elements -> Int] /\ i \in Int /\ inc.i \in Int
      BY <1>0, <2>1, Sizes DEF SharedType, Elements
    <3>2. CASE i = inc.i
      <4>1. Pending(i) = 0 /\ Pending(i)' = inc.const
        BY <2>3, <3>1, <3>2
      <4>2. Table'[i] = Table[i] + inc.const
        BY <2>1, <3>1, <3>2
      <4>3. QED
        BY <2>1, <3>1, <4>1, <4>2 DEF Shifted
    <3>3. CASE i # inc.i
      <4>1. Pending(i)' = Pending(i)
        BY <2>3, <3>1, <3>3
      <4>2. Table'[i] = Table[i]
        BY <2>1, <3>1, <3>3
      <4>3. QED
        BY <4>1, <4>2 DEF Shifted
    <3>4. QED
      BY <3>2, <3>3
  <2>5. QED
    BY <2>4 DEF Shifted
<1>3. CASE IncStarts \/ IncTakesSem \/ IncEnds
  <2>1. inc.pc # "loop" /\ inc'.pc # "loop" /\ Table' = Table
    BY <1>0, <1>3 DEF IncStarts, IncTakesSem, IncEnds, IncType
  <2>2. QED
    BY <1>0, <2>1 DEF Shifted, Pending
<1>4. QED
  BY <1>1, <1>2, <1>3 DEF Inc

LEMMA IncGivesShifts ==
    ASSUME TypeOK, Holders, Inc, NEW base \in Int, Shifted(base), IncGivesMutex,
           NEW const \in Int, inc.const = const
    PROVE  Shifted(base + const)'
<1>1. /\ inc.pc = "loop" /\ inc'.pc = "work" /\ inc.i = Last
      /\ Table' = Table /\ UNCHANGED <<dec, insp>>
  BY DEF Inc, IncGivesMutex, TypeOK, IncType
<1>2. dec.pc # "loop"
  BY <1>1 DEF Holders
<1>3. \A i \in Elements \ {Last} : i < inc.i
  BY <1>1, Sizes DEF Elements, Last
<1>4. \A i \in Elements \ {Last} : Pending(i) = const - 0 /\ Pending(i)' = 0 - 0
  BY <1>1, <1>2, <1>3 DEF Pending
<1>5. QED
  BY <1>1, <1>4, Sizes DEF Shifted, Elements

LEMMA DecShifts ==
    ASSUME TypeOK, Holders, Dec, NEW base \in Int, Shifted(base), ~DecGivesMutex
    PROVE  Shifted(base)'
<1>0. IncType /\ DecType /\ SharedType /\ UNCHANGED <<inc, insp>>
  BY DEF TypeOK, Dec
<1>1. CASE DecTakesMutex
  <2>1. dec.pc = "mutex" /\ dec'.pc = "loop" /\ dec'.i = 0 /\ mutex = "free" /\ Table' = Table
    BY <1>0, <1>1 DEF DecTakesMutex, DecType, Free
  <2>2. inc.pc # "loop"
    BY <2>1 DEF Holders
  <2>3. \A i \in Elements : ~(i < dec'.i) /\ inc'.pc # "loop"
    BY <1>0, <2>1, <2>2, Sizes DEF Elements
  <2>4. \A i \in Elements : Pending(i)' = 0 - 0 /\ Pending(i) = 0 - 0
    BY <2>1, <2>2, <2>3, Zenon DEF Pending
  <2>5. QED
    BY <2>1, <2>4 DEF Shifted
<1>2. CASE DecSubtracts
  <2>1. /\ dec.pc = "loop" /\ dec'.pc = "loop" /\ dec'.i = dec.i + 1 /\ dec.i < Last
        /\ dec.i \in Elements
        /\ Table' = [Table EXCEPT ![dec.i] = @ - 1]
    BY <1>0, <1>2 DEF DecSubtracts, DecType
  <2>2. inc.pc # "loop"
    BY <2>1 DEF Holders
  <2>3. \A i \in Elements : /\ Pending(i) = 0 - (IF i < dec.i THEN 1 ELSE 0)
                            /\ Pending(i)' = 0 - (IF i < dec.i + 1 THEN 1 ELSE 0)
    BY <1>0, <2>1, <2>2 DEF Pending
  <2>4. ASSUME NEW i \in Elements \ {Last}
        PROVE  Table'[i] = base + i + Pending(i)'
    <3>1. /\ Table \in [Elements -> Int] /\ i \in Int /\ dec.i \in Int
      BY <1>0, <2>1, Sizes DEF SharedType, Elements
    <3>2. CASE i = dec.i
      <4>1. Pending(i) = 0 /\ Pending(i)' = -1
        BY <2>3, <3>1, <3>2
      <4>2. Table'[i] = Table[i] - 1
        BY <2>1, <3>1, <3>2
      <4>3. QED
        BY <3>1, <4>1, <4>2 DEF Shifted
    <3>3. CASE i # dec.i
      <4>1. Pending(i)' = Pending(i)
        BY <2>3, <3>1, <3>3
      <4>2. Table'[i] = Table[i]
        BY <2>1, <3>1, <3>3
      <4>3. QED
        BY <4>1, <4>2 DEF Shifted
    <3>4. QED
      BY <3>2, <3>3
  <2>5. QED
    BY <2>4 DEF Shifted
<1>3. CASE DecTakesSem \/ DecEnds
  <2>1. dec.pc # "loop" /\ dec'.pc # "loop" /\ Table' = Table
    BY <1>0, <1>3 DEF DecTakesSem, DecEnds, DecType
  <2>2. QED
    BY <1>0, <2>1 DEF Shifted, Pending
<1>4. QED
  BY <1>1, <1>2, <1>3 DEF Dec

LEMMA DecGivesShifts ==
    ASSUME TypeOK, Holders, Dec, NEW base \in Int, Shifted(base), DecGivesMutex
    PROVE  Shifted(base - 1)'
<1>1. /\ dec.pc = "loop" /\ dec'.pc = "work" /\ dec.i = Last
      /\ Table' = Table /\ UNCHANGED <<inc, insp>>
  BY DEF Dec, DecGivesMutex, TypeOK, DecType
<1>2. inc.pc # "loop"
  BY <1>1 DEF Holders
<1>3. \A i \in Elements \ {Last} : i < dec.i
  BY <1>1, Sizes DEF Elements, Last
<1>4. \A i \in Elements \ {Last} : Pending(i) = 0 - 1 /\ Pending(i)' = 0 - 0
  BY <1>1, <1>2, <1>3 DEF Pending
<1>5. QED
  BY <1>1, <1>4, Sizes DEF Shifted, Elements

LEMMA IncInv ==
    ASSUME TableInv, Inc
    PROVE  TableInv'
<1>0. TypeOK /\ TypeOK' /\ IncType /\ Holders /\ UNCHANGED <<dec, insp>>
  BY IncStepsType DEF TableInv, TypeOK, Inc
<1>1. Holders' /\ Checking'
  <2>1. CASE IncTakesMutex
    BY <1>0, <2>1 DEF IncTakesMutex, IncType, Free, Holders, Checking, TableInv
  <2>2. CASE IncAdds
    <3>1. inc.pc = "loop" /\ inc'.pc = "loop" /\ mutex' = mutex
      BY <1>0, <2>2 DEF IncAdds, IncType
    <3>2. QED
      BY <1>0, <3>1 DEF Holders, Checking
  <2>3. CASE IncGivesMutex
    BY <1>0, <2>3 DEF IncGivesMutex, IncType, Holders, Checking
  <2>4. CASE IncStarts \/ IncTakesSem \/ IncEnds
    <3>1. inc'.pc # "loop" /\ Table' = Table /\ mutex' = mutex
      BY <1>0, <2>4 DEF IncStarts, IncTakesSem, IncEnds, IncType
    <3>2. QED
      BY <1>0, <3>1 DEF TableInv, Holders, Checking
  <2>5. QED
    BY <2>1, <2>2, <2>3, <2>4 DEF Inc
<1>2. InStep'
  <2>1. PICK base \in Int : Shifted(base)
    BY DEF TableInv, InStep
  <2>2. CASE IncGivesMutex
    <3>1. PICK const \in Int : inc.const = const
      BY <1>0 DEF IncType
    <3>2. base + const \in Int /\ Shifted(base + const)'
      BY <1>0, <2>1, <2>2, <3>1, IncGivesShifts
    <3>3. QED
      BY <3>2 DEF InStep
  <2>3. QED
    BY <1>0, <2>1, <2>2, IncShifts DEF InStep
<1>3. QED
  BY <1>0, <1>1, <1>2 DEF TableInv, NeverInconsistent

LEMMA DecInv ==
    ASSUME TableInv, Dec
    PROVE  TableInv'
<1>0. TypeOK /\ TypeOK' /\ DecType /\ Holders /\ UNCHANGED <<inc, insp>>
  BY DecStepsType DEF TableInv, TypeOK, Dec
<1>1. Holders' /\ Checking'
  <2>1. CASE DecTakesMutex
    BY <1>0, <2>1 DEF DecTakesMutex, DecType, Free, Holders, Checking, TableInv
  <2>2. CASE DecSubtracts
    <3>1. dec.pc = "loop" /\ dec'.pc = "loop" /\ mutex' = mutex
      BY <1>0, <2>2 DEF DecSubtracts, DecType
    <3>2. QED
      BY <1>0, <3>1 DEF Holders, Checking
  <2>3. CASE DecGivesMutex
    BY <1>0, <2>3 DEF DecGivesMutex, DecType, Holders, Checking
  <2>4. CASE DecTakesSem \/ DecEnds
    <3>1. dec'.pc # "loop" /\ Table' = Table /\ mutex' = mutex
      BY <1>0, <2>4 DEF DecTakesSem, DecEnds, DecType
    <3>2. QED
      BY <1>0, <3>1 DEF TableInv, Holders, Checking
  <2>5. QED
    BY <2>1, <2>2, <2>3, <2>4 DEF Dec
<1>2. InStep'
  <2>1. PICK base \in Int : Shifted(base)
    BY DEF TableInv, InStep
  <2>2. CASE DecGivesMutex
    <3>1. base - 1 \in Int /\ Shifted(base - 1)'
      BY <1>0, <2>1, <2>2, DecGivesShifts
    <3>2. QED
      BY <3>1 DEF InStep
  <2>3. QED
    BY <1>0, <2>1, <2>2, DecShifts DEF InStep
<1>3. QED
  BY <1>0, <1>1, <1>2 DEF TableInv, NeverInconsistent

LEMMA InspInv ==
    ASSUME TableInv, Insp
    PROVE  TableInv'
<1>0. TypeOK /\ TypeOK' /\ InspType /\ InspType' /\ SharedType
  BY InspStepsType DEF TableInv, TypeOK
<1>1. UNCHANGED <<Table, inc, dec>>
  BY DEF Insp
<1>2. InStep'
  <2>1. \A i \in Elements : Pending(i)' = Pending(i)
    BY <1>1 DEF Pending
  <2>2. QED
    BY <1>1, <2>1 DEF TableInv, InStep, Shifted
<1>3. CASE InspTakesMutex
  <2>1. /\ mutex = "free" /\ mutex' = "insp"
        /\ insp'.pc = "check" /\ insp'.reference = Table[0] /\ insp'.error = FALSE
    BY <1>3 DEF InspTakesMutex, Free
  <2>2. Holders' /\ Checking'
    BY <1>1, <2>1 DEF TableInv, Holders, Checking
  <2>3. NeverInconsistent'
    BY <2>1, Zenon DEF NeverInconsistent
  <2>4. QED
    BY <1>0, <1>2, <2>2, <2>3 DEF TableInv
<1>4. CASE InspCompares
  <2>1. /\ insp.pc = "check" /\ insp.i < Last /\ insp.i \in Elements \ {Last}
        /\ insp'.pc = "check" /\ insp'.reference = insp.reference /\ mutex' = mutex
    BY <1>0, <1>4 DEF InspCompares, InspType, Elements
  <2>2. inc.pc # "loop" /\ dec.pc # "loop" /\ insp.reference = Table[0]
    BY <2>1 DEF TableInv, Holders, Checking
  <2>3. PICK base \in Int : \A i \in Elements \ {Last} : Table[i] = base + i + Pending(i)
    BY DEF TableInv, InStep, Shifted
  <2>4. \A i \in Elements : Pending(i) = 0
    BY <2>2 DEF Pending
  <2>5. 0 \in Elements \ {Last}
    BY Sizes DEF Elements, Last
  <2>6. Table[insp.i] = insp.reference + insp.i
    BY <2>1, <2>2, <2>3, <2>4, <2>5, Sizes DEF Elements
  <2>7. NeverInconsistent'
    <3>1. insp'.error = (insp.error \/ Table[insp.i] # insp.reference + insp.i)
      BY <1>0, <1>4, Zenon DEF InspCompares, InspType
    <3>2. QED
      BY <2>6, <3>1, Zenon DEF TableInv, NeverInconsistent
  <2>8. Holders' /\ Checking'
    BY <1>1, <2>1 DEF TableInv, Holders, Checking
  <2>9. QED
    BY <1>0, <1>2, <2>7, <2>8 DEF TableInv
<1>5. CASE InspGivesMutex \/ InspEnds
  <2>1. insp'.pc # "check" /\ (mutex' = mutex \/ (insp.pc = "check" /\ mutex' = "free"))
    <3>1. CASE InspGivesMutex
      BY <1>0, <3>1 DEF InspGivesMutex, InspType, Free
    <3>2. CASE InspEnds
      <4>1. PICK pc \in {"exited", "mutex"} : insp' = [insp EXCEPT !.pc = pc]
        BY <3>2, Zenon DEF InspEnds
      <4>2. mutex' = mutex
        BY <3>2, Zenon DEF InspEnds
      <4>3. QED
        BY <1>0, <4>1, <4>2 DEF InspType
    <3>3. QED
      BY <1>5, <3>1, <3>2
  <2>2. Holders' /\ Checking'
    BY <1>1, <2>1 DEF TableInv, Holders, Checking
  <2>3. insp'.error = insp.error
    BY <1>0, <1>5 DEF InspGivesMutex, InspEnds, InspType
  <2>4. NeverInconsistent'
    BY <2>3, Zenon DEF TableInv, NeverInconsistent
  <2>5. QED
    BY <1>0, <1>2, <2>2, <2>4 DEF TableInv
<1>6. QED
  BY <1>3, <1>4, <1>5 DEF Insp

\* The timer, the tick and app_main leave the table and the pcs alone.
LEMMA OtherInv ==
    ASSUME TableInv, TimerWakes \/ TimerGives \/ AppMainExits \/ Tick \/ UNCHANGED vars
    PROVE  TableInv'
<1>1. TypeOK'
  BY TimerStepsType, TickType, OtherStepsType DEF TableInv
<1>2. /\ UNCHANGED <<Table, mutex>>
      /\ inc'.pc = inc.pc /\ inc'.i = inc.i /\ inc'.const = inc.const
      /\ dec'.pc = dec.pc /\ dec'.i = dec.i
      /\ insp'.pc = insp.pc /\ insp'.reference = insp.reference
  BY DEF TableInv, TypeOK, IncType, DecType, InspType, TimerWakes, TimerGives, AppMainExits,
         Tick, vars
<1>3. insp'.error = insp.error
  BY DEF TableInv, TypeOK, InspType, TimerWakes, TimerGives, AppMainExits, Tick, vars
<1>4. Holders' /\ Checking'
  BY <1>2 DEF TableInv, Holders, Checking
<1>5. InStep'
  <2>1. \A i \in Elements : Pending(i)' = Pending(i)
    BY <1>2 DEF Pending
  <2>2. QED
    BY <1>2, <2>1 DEF TableInv, InStep, Shifted
<1>6. NeverInconsistent'
  BY <1>3, Zenon DEF TableInv, NeverInconsistent
<1>7. QED
  BY <1>1, <1>4, <1>5, <1>6 DEF TableInv

LEMMA InitInv == Init => TableInv
<1>. SUFFICES ASSUME Init
              PROVE  TableInv
  OBVIOUS
<1>1. inc.pc # "loop" /\ dec.pc # "loop" /\ insp.pc # "check"
  BY DEF Init
<1>2. \A i \in Elements : Pending(i) = 0
  BY <1>1 DEF Pending
<1>3. \A i \in Elements \ {Last} : Table[i] = 0 + i + Pending(i)
  BY <1>2, Sizes DEF Init, Elements
<1>4. NeverInconsistent
  BY Zenon DEF Init, NeverInconsistent
<1>5. QED
  BY <1>1, <1>3, <1>4, InitType DEF TableInv, Holders, Checking, InStep, Shifted

(***************************************************************************)
(* The inspector never reports "Consistancy error in Table", for every     *)
(* table size, every constNumber (a garbage one included), all delays, and *)
(* every order in which the three tasks get the mutex.                     *)
(***************************************************************************)
THEOREM InspectorNeverComplains == Spec => []NeverInconsistent
<1>1. TableInv /\ [Next]_vars => TableInv'
  BY IncInv, DecInv, InspInv, OtherInv DEF Next
<1>2. TableInv => NeverInconsistent
  BY DEF TableInv
<1>3. QED
  BY InitInv, <1>1, <1>2, PTL DEF Spec

-----------------------------------------------------------------------------
(***************************************************************************)
(* Time.  When the timer gives the semaphores both tasks have finished the *)
(* previous round: Due(n) says that n ticks are enough for what is left of *)
(* it, the inspector taking the mutex first and a second time between the  *)
(* two tasks, and one task kept off the core while the other computes.     *)
(***************************************************************************)
IncPending == semInc \/ inc.pc \in {"mutex", "loop"}
DecPending == semDec \/ dec.pc \in {"mutex", "loop"}
IncLeft == IF inc.pc = "work" THEN inc.left ELSE 0
DecLeft == IF dec.pc = "work" THEN dec.left ELSE 0

\* How long the inspector may keep the mutex from a task that waits for it.
Wait == IF insp.pc = "check" THEN insp.left + (IF insp.i < Last THEN Last - 1 - insp.i ELSE 0)
        ELSE IF insp.pc = "pause" /\ insp.left > 0 THEN 0
        ELSE Last

Due(n) == /\ IncPending /\ DecPending => Wait + Last + 2 * TABLE_WORK <= n
          /\ IncPending /\ ~DecPending =>
                IF DecLeft > 0 THEN DecLeft + Last + TABLE_WORK <= n ELSE Wait + TABLE_WORK <= n
          /\ DecPending /\ ~IncPending =>
                IF IncLeft > 0 THEN IncLeft + Last + TABLE_WORK <= n ELSE Wait + TABLE_WORK <= n
          /\ ~IncPending /\ ~DecPending => IncLeft <= n /\ DecLeft <= n

\* The mutex is held by a task that is using it; a semaphore is given to a
\* task that has nothing left to compute.
UseInv == /\ mutex = "inc"  => inc.pc = "loop"
          /\ mutex = "dec"  => dec.pc = "loop"
          /\ mutex = "insp" => insp.pc = "check"
          /\ semInc => inc.pc \in {"start", "sem", "work"} /\ IncLeft = 0
          /\ semDec => dec.pc \in {"sem", "work"} /\ DecLeft = 0
          /\ insp.pc = "check" => insp.left <= 1 /\ (insp.left = 1 => insp.i < Last)

TimeInv == /\ timer.pc = "delay" => Due(timer.left)
           /\ timer.pc = "work" => Due(0) /\ timer.next = (PERIOD - TIMER_WORK) + timer.left

\* What the delays of the program have to leave room for.
RoomInPeriod == 2 * (Last + TABLE_WORK) <= PERIOD - TIMER_WORK

LEMMA Works == TABLE_WORK > 0
  BY TableAssumption

LEMMA DueBounds ==
    ASSUME TypeOK, UseInv
    PROVE  /\ Wait \in 0 .. Last /\ Last \in Nat
           /\ IncLeft \in 0 .. TABLE_WORK /\ DecLeft \in 0 .. TABLE_WORK
           /\ IncLeft > 0 => ~IncPending
           /\ DecLeft > 0 => ~DecPending
<1>1. IncType /\ DecType /\ InspType
  BY DEF TypeOK
<1>2. Last \in Nat
  BY Sizes DEF Last
<1>3. Wait \in 0 .. Last
  BY <1>1, <1>2, Sizes DEF InspType, UseInv, Wait, Elements, Last
<1>4. IncLeft \in 0 .. TABLE_WORK /\ DecLeft \in 0 .. TABLE_WORK
  BY <1>1, Sizes DEF IncType, DecType, IncLeft, DecLeft
<1>5. (IncLeft > 0 => ~IncPending) /\ (DecLeft > 0 => ~DecPending)
  BY DEF IncLeft, DecLeft, IncPending, DecPending, UseInv
<1>6. QED
  BY <1>2, <1>3, <1>4, <1>5

\* With no tick left for it the previous round is over.
LEMMA DueZero ==
    ASSUME TypeOK, UseInv, Due(0)
    PROVE  ~IncPending /\ ~DecPending /\ IncLeft = 0 /\ DecLeft = 0
  BY DueBounds, Works, Sizes DEF Due

LEMMA IncUse ==
    ASSUME TypeOK, UseInv, Inc
    PROVE  UseInv'
<1>1. IncType /\ UNCHANGED <<semDec, dec, insp>>
  BY DEF TypeOK, Inc
<1>2. DecLeft' = DecLeft
  BY <1>1 DEF DecLeft
<1>3. CASE IncStarts
  <2>1. /\ inc.pc = "start" /\ inc'.pc = "sem" /\ UNCHANGED <<semInc, mutex>>
    BY <1>1, <1>3 DEF IncStarts, IncType
  <2>2. QED
    BY <1>1, <1>2, <2>1 DEF UseInv, IncLeft
<1>4. CASE IncTakesSem
  <2>1. inc.pc = "sem" /\ ~semInc' /\ mutex' = mutex
    BY <1>4 DEF IncTakesSem
  <2>2. QED
    BY <1>1, <1>2, <2>1 DEF UseInv
<1>5. CASE IncTakesMutex
  <2>1. inc.pc = "mutex" /\ inc'.pc = "loop" /\ mutex' = "inc" /\ semInc' = semInc
    BY <1>1, <1>5 DEF IncTakesMutex, IncType
  <2>2. QED
    BY <1>1, <1>2, <2>1 DEF UseInv
<1>6. CASE IncAdds
  <2>1. inc.pc = "loop" /\ inc'.pc = "loop" /\ UNCHANGED <<semInc, mutex>>
    BY <1>1, <1>6 DEF IncAdds, IncType
  <2>2. QED
    BY <1>1, <1>2, <2>1 DEF UseInv
<1>7. CASE IncGivesMutex
  <2>1. inc.pc = "loop" /\ mutex' = "free" /\ semInc' = semInc
    BY <1>7 DEF IncGivesMutex, Free
  <2>2. QED
    BY <1>1, <1>2, <2>1 DEF UseInv
<1>8. CASE IncEnds
  <2>1. /\ inc.pc = "work" /\ inc'.pc = "sem" /\ UNCHANGED <<semInc, mutex>>
    BY <1>1, <1>8 DEF IncEnds, IncType
  <2>2. QED
    BY <1>1, <1>2, <2>1 DEF UseInv, IncLeft
<1>9. QED
  BY <1>3, <1>4, <1>5, <1>6, <1>7, <1>8 DEF Inc

LEMMA DecUse ==
    ASSUME TypeOK, UseInv, Dec
    PROVE  UseInv'
<1>1. DecType /\ UNCHANGED <<semInc, inc, insp>>
  BY DEF TypeOK, Dec
<1>2. IncLeft' = IncLeft
  BY <1>1 DEF IncLeft
<1>3. CASE DecTakesSem
  <2>1. dec.pc = "sem" /\ ~semDec' /\ mutex' = mutex
    BY <1>3 DEF DecTakesSem
  <2>2. QED
    BY <1>1, <1>2, <2>1 DEF UseInv
<1>4. CASE DecTakesMutex
  <2>1. dec.pc = "mutex" /\ dec'.pc = "loop" /\ mutex' = "dec" /\ semDec' = semDec
    BY <1>1, <1>4 DEF DecTakesMutex, DecType
  <2>2. QED
    BY <1>1, <1>2, <2>1 DEF UseInv
<1>5. CASE DecSubtracts
  <2>1. dec.pc = "loop" /\ dec'.pc = "loop" /\ UNCHANGED <<semDec, mutex>>
    BY <1>1, <1>5 DEF DecSubtracts, DecType
  <2>2. QED
    BY <1>1, <1>2, <2>1 DEF UseInv
<1>6. CASE DecGivesMutex
  <2>1. dec.pc = "loop" /\ mutex' = "free" /\ semDec' = semDec
    BY <1>6 DEF DecGivesMutex, Free
  <2>2. QED
    BY <1>1, <1>2, <2>1 DEF UseInv
<1>7. CASE DecEnds
  <2>1. /\ dec.pc = "work" /\ dec'.pc = "sem" /\ UNCHANGED <<semDec, mutex>>
    BY <1>1, <1>7 DEF DecEnds, DecType
  <2>2. QED
    BY <1>1, <1>2, <2>1 DEF UseInv, DecLeft
<1>8. QED
  BY <1>3, <1>4, <1>5, <1>6, <1>7 DEF Dec

\* The inspector never makes the others wait for longer than they would have.
LEMMA InspUse ==
    ASSUME TypeOK, UseInv, Insp
    PROVE  UseInv' /\ Wait' \in 0 .. Wait
<1>1. InspType /\ InspType' /\ UNCHANGED <<semInc, semDec, inc, dec>>
  BY InspStepsType DEF TypeOK, Insp
<1>2. IncLeft' = IncLeft /\ DecLeft' = DecLeft /\ Last \in Nat /\ Wait \in 0 .. Last
  BY <1>1, DueBounds DEF IncLeft, DecLeft
<1>3. CASE InspTakesMutex
  <2>1. /\ insp.pc = "mutex" /\ mutex' = "insp" /\ insp'.pc = "check"
        /\ insp'.left = 1 /\ insp'.i = 0
    BY <1>3 DEF InspTakesMutex
  <2>2. 0 < Last
    BY Sizes DEF Last
  <2>3. Wait = Last /\ Wait' = 1 + (Last - 1 - 0)
    BY <2>1, <2>2 DEF Wait
  <2>4. UseInv'
    BY <1>1, <1>2, <2>1, <2>2 DEF UseInv
  <2>5. QED
    BY <1>2, <2>3, <2>4
<1>4. CASE InspCompares
  <2>1. /\ insp.pc = "check" /\ insp.left = 0 /\ insp.i < Last /\ insp.i \in Int
        /\ insp'.pc = "check" /\ insp'.i = insp.i + 1
        /\ insp'.left = (IF insp.i + 1 < Last THEN 1 ELSE 0) /\ mutex' = mutex
    BY <1>1, <1>4, Sizes DEF InspCompares, InspType, Elements
  <2>2. Wait = 0 + (Last - 1 - insp.i)
    BY <2>1 DEF Wait
  <2>3. Wait' = IF insp.i + 1 < Last THEN 1 + (Last - 1 - (insp.i + 1)) ELSE 0 + 0
    BY <2>1 DEF Wait
  <2>4. UseInv'
    BY <1>1, <1>2, <2>1 DEF UseInv
  <2>5. QED
    BY <1>2, <2>1, <2>2, <2>3, <2>4
<1>5. CASE InspGivesMutex
  <2>1. /\ mutex' = "free" /\ insp'.pc = "pause" /\ insp'.left = PAUSE /\ insp.pc = "check"
    BY <1>1, <1>5 DEF InspGivesMutex, InspType, Free
  <2>2. Wait' = 0
    BY <2>1, Sizes DEF Wait
  <2>3. UseInv'
    BY <1>1, <1>2, <2>1 DEF UseInv
  <2>4. QED
    BY <1>2, <2>2, <2>3
<1>6. CASE InspEnds
  <2>1. PICK pc \in {"exited", "mutex"} : insp' = [insp EXCEPT !.pc = pc]
    BY <1>6, Zenon DEF InspEnds
  <2>2. mutex' = mutex
    BY <1>6, Zenon DEF InspEnds
  <2>3. insp.pc = "pause" /\ insp.left = 0 /\ insp'.pc \in {"exited", "mutex"}
    BY <1>1, <1>6, <2>1 DEF InspEnds, InspType
  <2>4. Wait = Last /\ Wait' = Last
    BY <2>3 DEF Wait
  <2>5. UseInv'
    BY <1>1, <1>2, <2>2, <2>3 DEF UseInv
  <2>6. QED
    BY <1>2, <2>4, <2>5
<1>7. QED
  BY <1>3, <1>4, <1>5, <1>6 DEF Insp

-----------------------------------------------------------------------------
(***************************************************************************)
(* The steps of the tasks take no tick and leave no more to do.            *)
(***************************************************************************)
LEMMA IncDue ==
    ASSUME TypeOK, UseInv, Inc, NEW n \in Nat, Due(n)
    PROVE  Due(n)'
<1>1. IncType /\ UNCHANGED <<semDec, dec, insp>>
  BY DEF TypeOK, Inc
<1>2. (DecPending' <=> DecPending) /\ DecLeft' = DecLeft /\ Wait' = Wait
  BY <1>1 DEF DecPending, DecLeft, Wait
<1>3. \/ (IncPending' <=> IncPending) /\ IncLeft' = IncLeft
      \/ IncPending /\ ~IncPending' /\ IncLeft = 0 /\ IncLeft' \in {0, TABLE_WORK}
  <2>1. CASE IncStarts \/ IncTakesMutex \/ IncAdds
    <3>1. /\ inc.pc \in {"start", "mutex", "loop"} /\ semInc' = semInc
          /\ inc'.pc = (IF inc.pc = "start" THEN "sem" ELSE "loop")
      BY <1>1, <2>1 DEF IncStarts, IncTakesMutex, IncAdds, IncType
    <3>2. QED
      BY <3>1 DEF IncPending, IncLeft
  <2>2. CASE IncTakesSem
    <3>1. inc.pc = "sem" /\ semInc /\ ~semInc' /\ inc'.pc \in {"mutex", "sem"}
      BY <1>1, <2>2 DEF IncTakesSem, IncType
    <3>2. QED
      BY <3>1 DEF IncPending, IncLeft
  <2>3. CASE IncGivesMutex
    <3>1. inc.pc = "loop" /\ inc'.pc = "work" /\ inc'.left = TABLE_WORK /\ semInc' = semInc
      BY <1>1, <2>3 DEF IncGivesMutex, IncType
    <3>2. ~semInc
      BY <3>1 DEF UseInv
    <3>3. QED
      BY <3>1, <3>2 DEF IncPending, IncLeft
  <2>4. CASE IncEnds
    <3>1. inc.pc = "work" /\ inc.left = 0 /\ inc'.pc = "sem" /\ semInc' = semInc
      BY <1>1, <2>4 DEF IncEnds, IncType
    <3>2. QED
      BY <3>1 DEF IncPending, IncLeft
  <2>5. QED
    BY <2>1, <2>2, <2>3, <2>4 DEF Inc
<1>4. QED
  BY <1>2, <1>3, DueBounds, Works, Sizes DEF Due

LEMMA DecDue ==
    ASSUME TypeOK, UseInv, Dec, NEW n \in Nat, Due(n)
    PROVE  Due(n)'
<1>1. DecType /\ UNCHANGED <<semInc, inc, insp>>
  BY DEF TypeOK, Dec
<1>2. (IncPending' <=> IncPending) /\ IncLeft' = IncLeft /\ Wait' = Wait
  BY <1>1 DEF IncPending, IncLeft, Wait
<1>3. \/ (DecPending' <=> DecPending) /\ DecLeft' = DecLeft
      \/ DecPending /\ ~DecPending' /\ DecLeft = 0 /\ DecLeft' = TABLE_WORK
  <2>1. CASE DecTakesMutex \/ DecSubtracts
    <3>1. dec.pc \in {"mutex", "loop"} /\ semDec' = semDec /\ dec'.pc = "loop"
      BY <1>1, <2>1 DEF DecTakesMutex, DecSubtracts, DecType
    <3>2. QED
      BY <3>1 DEF DecPending, DecLeft
  <2>2. CASE DecTakesSem
    <3>1. dec.pc = "sem" /\ semDec /\ dec'.pc = "mutex"
      BY <1>1, <2>2 DEF DecTakesSem, DecType
    <3>2. QED
      BY <3>1 DEF DecPending, DecLeft
  <2>3. CASE DecGivesMutex
    <3>1. dec.pc = "loop" /\ dec'.pc = "work" /\ dec'.left = TABLE_WORK /\ semDec' = semDec
      BY <1>1, <2>3 DEF DecGivesMutex, DecType
    <3>2. ~semDec
      BY <3>1 DEF UseInv
    <3>3. QED
      BY <3>1, <3>2 DEF DecPending, DecLeft
  <2>4. CASE DecEnds
    <3>1. dec.pc = "work" /\ dec.left = 0 /\ dec'.pc = "sem" /\ semDec' = semDec
      BY <1>1, <2>4 DEF DecEnds, DecType
    <3>2. QED
      BY <3>1 DEF DecPending, DecLeft
  <2>5. QED
    BY <2>1, <2>2, <2>3, <2>4 DEF Dec
<1>4. QED
  BY <1>2, <1>3, DueBounds, Works, Sizes DEF Due

LEMMA InspDue ==
    ASSUME TypeOK, UseInv, Insp, NEW n \in Nat, Due(n)
    PROVE  Due(n)'
<1>1. UNCHANGED <<semInc, semDec, inc, dec>>
  BY DEF Insp
<1>2. /\ (IncPending' <=> IncPending) /\ IncLeft' = IncLeft
      /\ (DecPending' <=> DecPending) /\ DecLeft' = DecLeft
  BY <1>1 DEF IncPending, IncLeft, DecPending, DecLeft
<1>3. /\ Wait \in Int /\ Last \in Int /\ Wait' \in Int /\ Wait' <= Wait /\ Wait <= Last
      /\ IncLeft \in Int /\ DecLeft \in Int /\ TABLE_WORK \in Int
  BY InspUse, DueBounds, Sizes
<1>4. PICK w \in Int, v \in Int, last \in Int, work \in Int :
        w = Wait /\ v = Wait' /\ last = Last /\ work = TABLE_WORK
  BY <1>3
<1>5. /\ Wait + Last + 2 * TABLE_WORK <= n => Wait' + Last + 2 * TABLE_WORK <= n
      /\ Wait + TABLE_WORK <= n => Wait' + TABLE_WORK <= n
  <2>1. v <= w
    BY <1>3, <1>4
  <2>2. /\ w + last + 2 * work <= n => v + last + 2 * work <= n
        /\ w + work <= n => v + work <= n
    BY <2>1
  <2>3. QED
    BY <1>4, <2>2
<1>6. Due(n)'
  <2>1. CASE IncPending /\ DecPending
    BY <1>2, <1>5, <2>1 DEF Due
  <2>2. CASE IncPending /\ ~DecPending
    <3>1. CASE DecLeft > 0
      BY <1>2, <2>2, <3>1 DEF Due
    <3>2. CASE ~(DecLeft > 0)
      BY <1>2, <1>5, <2>2, <3>2 DEF Due
    <3>3. QED
      BY <3>1, <3>2
  <2>3. CASE DecPending /\ ~IncPending
    <3>1. CASE IncLeft > 0
      BY <1>2, <2>3, <3>1 DEF Due
    <3>2. CASE ~(IncLeft > 0)
      BY <1>2, <1>5, <2>3, <3>2 DEF Due
    <3>3. QED
      BY <3>1, <3>2
  <2>4. CASE ~IncPending /\ ~DecPending
    BY <1>2, <2>4 DEF Due
  <2>5. QED
    BY <2>1, <2>2, <2>3, <2>4
<1>7. QED
  BY <1>6

-----------------------------------------------------------------------------
(***************************************************************************)
(* A tick brings the previous round one tick nearer to its end.            *)
(***************************************************************************)
\* With nobody computing, a task that still has to update the table waits for
\* the inspector.
LEMMA Blocked ==
    ASSUME TypeOK, UseInv, Tick, ~TimerReady, IncPending \/ DecPending,
           IncLeft = 0, DecLeft = 0
    PROVE  mutex = "insp"
<1>1. mutex \in {"free", "inc", "dec", "insp"}
  BY DEF TypeOK, SharedType, Free
<1>2. ~IncReady /\ ~DecReady
  <2>1. ~Computes(inc) /\ ~Computes(dec)
    BY DEF Computes, IncLeft, DecLeft
  <2>2. QED
    BY <2>1 DEF Tick, Core0Done
<1>3. inc.pc # "loop" /\ dec.pc # "loop"
  BY <1>2 DEF IncReady, DecReady
<1>4. mutex # "inc" /\ mutex # "dec"
  BY <1>3 DEF UseInv
<1>5. CASE IncPending
  <2>1. ~semInc
    BY <1>2 DEF UseInv, IncReady, IncLeft
  <2>2. inc.pc = "mutex"
    BY <1>3, <1>5, <2>1 DEF IncPending
  <2>3. QED
    BY <1>1, <1>2, <1>4, <2>2 DEF IncReady, Free
<1>6. CASE DecPending
  <2>1. ~semDec
    BY <1>2 DEF UseInv, DecReady, DecLeft
  <2>2. dec.pc = "mutex"
    BY <1>3, <1>6, <2>1 DEF DecPending
  <2>3. QED
    BY <1>1, <1>2, <1>4, <2>2 DEF DecReady, Free
<1>7. QED
  BY <1>5, <1>6

LEMMA TickLeft ==
    ASSUME TypeOK, UseInv, Tick
    PROVE  /\ (IncPending' <=> IncPending) /\ IncLeft' = Less(IncLeft)
           /\ (DecPending' <=> DecPending) /\ DecLeft' = Less(DecLeft)
           /\ Wait' \in 0 .. Last /\ (mutex = "insp" => Wait' = Wait - 1)
           /\ UseInv'
<1>1. IncType /\ DecType /\ InspType
  BY DEF TypeOK
<1>2. /\ UNCHANGED <<semInc, semDec, mutex>>
      /\ inc'.pc = inc.pc /\ inc'.left = Less(inc.left)
      /\ dec'.pc = dec.pc /\ dec'.left = Less(dec.left)
      /\ insp'.pc = insp.pc /\ insp'.i = insp.i /\ insp'.left = Less(insp.left)
  BY <1>1 DEF Tick, IncType, DecType, InspType
<1>3. /\ (IncPending' <=> IncPending) /\ IncLeft' = Less(IncLeft)
      /\ (DecPending' <=> DecPending) /\ DecLeft' = Less(DecLeft)
  BY <1>2 DEF IncPending, DecPending, IncLeft, DecLeft, Less
<1>4. Last \in Nat /\ insp.left \in Nat /\ insp.i \in Nat /\ insp.i <= Last
  BY <1>1, Sizes DEF InspType, Elements, Last
<1>5. insp.pc = "check" => insp.left = 1 /\ insp.i < Last
  BY <1>4 DEF Tick, InspReady, UseInv
<1>6. Wait' \in 0 .. Last /\ (insp.pc = "check" => Wait' = Wait - 1)
  <2>1. CASE insp.pc = "check"
    <3>1. Wait = 1 + (Last - 1 - insp.i) /\ Wait' = 0 + (Last - 1 - insp.i)
      BY <1>2, <1>5, <2>1 DEF Wait, Less
    <3>2. QED
      BY <1>4, <1>5, <2>1, <3>1
  <2>2. CASE insp.pc # "check"
    <3>1. Wait' \in {0, Last}
      BY <1>2, <2>2 DEF Wait
    <3>2. QED
      BY <1>4, <2>2, <3>1
  <2>3. QED
    BY <2>1, <2>2
<1>7. UseInv'
  <2>1. (IncLeft = 0 => IncLeft' = 0) /\ (DecLeft = 0 => DecLeft' = 0)
    BY <1>3 DEF Less
  <2>2. insp'.pc = "check" => insp'.left = 0
    BY <1>2, <1>5 DEF Less
  <2>3. QED
    BY <1>2, <2>1, <2>2 DEF UseInv
<1>8. QED
  BY <1>3, <1>6, <1>7 DEF UseInv

LEMMA TickDue ==
    ASSUME TypeOK, UseInv, Tick, ~TimerReady, NEW n \in Nat, n > 0, Due(n)
    PROVE  Due(n - 1)'
<1>1. \A m \in Nat : Less(m) = IF m = 0 THEN 0 ELSE m - 1
  BY DEF Less
<1>2. /\ Wait \in 0 .. Last /\ Last \in Nat
      /\ IncLeft \in Nat /\ DecLeft \in Nat /\ TABLE_WORK \in Nat
      /\ (IncLeft > 0 => ~IncPending) /\ (DecLeft > 0 => ~DecPending)
  BY DueBounds, Sizes
<1>3. /\ (IncPending' <=> IncPending) /\ IncLeft' = (IF IncLeft = 0 THEN 0 ELSE IncLeft - 1)
      /\ (DecPending' <=> DecPending) /\ DecLeft' = (IF DecLeft = 0 THEN 0 ELSE DecLeft - 1)
      /\ Wait' \in Int /\ 0 <= Wait' /\ Wait' <= Last
  BY <1>1, <1>2, TickLeft
<1>4. (IncPending \/ DecPending) /\ IncLeft = 0 /\ DecLeft = 0 => Wait' = Wait - 1
  BY TickLeft, Blocked
<1>5. CASE IncPending /\ DecPending
  <2>1. IncPending' /\ DecPending'
    BY <1>3, <1>5
  <2>2. Wait + Last + 2 * TABLE_WORK <= n
    BY <1>5 DEF Due
  <2>3. Wait' + Last + 2 * TABLE_WORK <= n - 1
    <3>1. Wait' = Wait - 1
      BY <1>2, <1>4, <1>5
    <3>2. QED
      BY <1>2, <2>2, <3>1
  <2>4. QED
    BY <2>1, <2>3 DEF Due
<1>6. CASE IncPending /\ ~DecPending
  <2>1. IncPending' /\ ~DecPending'
    BY <1>3, <1>6
  <2>2. CASE DecLeft > 0
    <3>1. DecLeft + Last + TABLE_WORK <= n
      BY <1>6, <2>2 DEF Due
    <3>2. DecLeft' = DecLeft - 1
      BY <1>2, <1>3, <2>2
    <3>3. DecLeft' + Last + TABLE_WORK <= n - 1
      BY <1>2, <2>2, <3>1, <3>2
    <3>4. Wait' + TABLE_WORK <= n - 1
      <4>1. PICK v \in Int, last \in Int, work \in Int, left \in Int :
              v = Wait' /\ last = Last /\ work = TABLE_WORK /\ left = DecLeft
        BY <1>2, <1>3
      <4>2. v <= last /\ left + last + work <= n /\ left >= 1
        BY <1>2, <1>3, <2>2, <3>1, <4>1
      <4>3. v + work <= n - 1
        BY <4>2
      <4>4. QED
        BY <4>1, <4>3
    <3>5. QED
      BY <2>1, <3>3, <3>4 DEF Due
  <2>3. CASE DecLeft = 0
    <3>1. Wait + TABLE_WORK <= n
      BY <1>6, <2>3 DEF Due
    <3>2. DecLeft' = 0 /\ Wait' = Wait - 1
      BY <1>2, <1>3, <1>4, <1>6, <2>3
    <3>3. Wait' + TABLE_WORK <= n - 1
      BY <1>2, <3>1, <3>2
    <3>4. QED
      BY <2>1, <3>2, <3>3 DEF Due
  <2>4. QED
    BY <1>2, <2>2, <2>3
<1>7. CASE DecPending /\ ~IncPending
  <2>1. DecPending' /\ ~IncPending'
    BY <1>3, <1>7
  <2>2. CASE IncLeft > 0
    <3>1. IncLeft + Last + TABLE_WORK <= n
      BY <1>7, <2>2 DEF Due
    <3>2. IncLeft' = IncLeft - 1
      BY <1>2, <1>3, <2>2
    <3>3. IncLeft' + Last + TABLE_WORK <= n - 1
      BY <1>2, <2>2, <3>1, <3>2
    <3>4. Wait' + TABLE_WORK <= n - 1
      <4>1. PICK v \in Int, last \in Int, work \in Int, left \in Int :
              v = Wait' /\ last = Last /\ work = TABLE_WORK /\ left = IncLeft
        BY <1>2, <1>3
      <4>2. v <= last /\ left + last + work <= n /\ left >= 1
        BY <1>2, <1>3, <2>2, <3>1, <4>1
      <4>3. v + work <= n - 1
        BY <4>2
      <4>4. QED
        BY <4>1, <4>3
    <3>5. QED
      BY <2>1, <3>3, <3>4 DEF Due
  <2>3. CASE IncLeft = 0
    <3>1. Wait + TABLE_WORK <= n
      BY <1>7, <2>3 DEF Due
    <3>2. IncLeft' = 0 /\ Wait' = Wait - 1
      BY <1>2, <1>3, <1>4, <1>7, <2>3
    <3>3. Wait' + TABLE_WORK <= n - 1
      BY <1>2, <3>1, <3>2
    <3>4. QED
      BY <2>1, <3>2, <3>3 DEF Due
  <2>4. QED
    BY <1>2, <2>2, <2>3
<1>8. CASE ~IncPending /\ ~DecPending
  <2>1. ~IncPending' /\ ~DecPending'
    BY <1>3, <1>8
  <2>2. IncLeft <= n /\ DecLeft <= n
    BY <1>8 DEF Due
  <2>3. IncLeft' <= n - 1 /\ DecLeft' <= n - 1
    BY <1>2, <1>3, <2>2
  <2>4. QED
    BY <2>1, <2>3 DEF Due
<1>9. QED
  BY <1>5, <1>6, <1>7, <1>8

\* A tick while the timer computes finds the round over, and leaves it over.
LEMMA TickOver ==
    ASSUME TypeOK, UseInv, Tick, Due(0)
    PROVE  Due(0)'
<1>1. ~IncPending /\ ~DecPending /\ IncLeft = 0 /\ DecLeft = 0
  BY DueZero
<1>2. ~IncPending' /\ ~DecPending' /\ IncLeft' = 0 /\ DecLeft' = 0
  BY <1>1, TickLeft DEF Less
<1>3. QED
  BY <1>2 DEF Due

-----------------------------------------------------------------------------
RoundInv == TypeOK /\ UseInv /\ TimeInv

LEMMA InitRound == Init => RoundInv
<1>1. Init => UseInv
  BY DEF Init, UseInv, Free
<1>2. ASSUME Init
      PROVE  TimeInv
  <2>1. /\ inc.pc = "start" /\ dec.pc = "sem" /\ ~semInc /\ ~semDec
        /\ timer.pc = "delay" /\ timer.left = PERIOD
    BY <1>2 DEF Init
  <2>2. ~IncPending /\ ~DecPending /\ IncLeft = 0 /\ DecLeft = 0
    BY <2>1 DEF IncPending, DecPending, IncLeft, DecLeft
  <2>3. QED
    BY <2>1, <2>2, Sizes DEF TimeInv, Due
<1>3. QED
  BY <1>1, <1>2, InitType DEF RoundInv

LEMMA TasksRound ==
    ASSUME RoundInv, Inc \/ Dec \/ Insp
    PROVE  RoundInv'
<1>1. TypeOK /\ UseInv /\ TimeInv /\ TypeOK' /\ TimerType /\ timer' = timer
  BY IncStepsType, DecStepsType, InspStepsType DEF RoundInv, TypeOK, Inc, Dec, Insp
<1>2. UseInv'
  BY <1>1, IncUse, DecUse, InspUse
<1>3. timer.left \in Nat /\ timer.pc \in {"delay", "work"}
  BY <1>1, Sizes DEF TimerType
<1>4. PICK n \in Nat : n = IF timer.pc = "delay" THEN timer.left ELSE 0
  BY <1>3
<1>5. Due(n) /\ (timer.pc = "work" => timer.next = (PERIOD - TIMER_WORK) + timer.left)
  BY <1>1, <1>3, <1>4 DEF TimeInv
<1>6. Due(n)'
  BY <1>1, <1>5, IncDue, DecDue, InspDue
<1>7. TimeInv'
  <2>1. timer'.pc = "delay" => n = timer'.left
    BY <1>1, <1>4
  <2>2. timer'.pc = "work" => n = 0
    BY <1>1, <1>4
  <2>3. QED
    BY <1>1, <1>5, <1>6, <2>1, <2>2 DEF TimeInv
<1>8. QED
  BY <1>1, <1>2, <1>7 DEF RoundInv

LEMMA TickRound ==
    ASSUME RoundInv, Tick
    PROVE  RoundInv'
<1>1. TypeOK /\ UseInv /\ TimeInv /\ TypeOK' /\ TimerType
  BY TickType DEF RoundInv, TypeOK
<1>2. UseInv'
  BY <1>1, TickLeft
<1>3. /\ timer.left \in Nat /\ timer.next \in Nat /\ timer.pc \in {"delay", "work"}
      /\ timer'.pc = timer.pc
      /\ timer'.left = Less(timer.left) /\ timer'.next = Less(timer.next)
  BY <1>1, Sizes DEF TimerType, Tick
<1>4. CASE timer.pc = "delay"
  <2>1. timer.left > 0 /\ ~TimerReady
    BY <1>3, <1>4 DEF Tick, Core0Done, TimerReady, Computes
  <2>2. PICK n \in Nat : n = timer.left
    BY <1>3
  <2>3. Due(n)
    BY <1>1, <1>4, <2>2 DEF TimeInv
  <2>4. Due(n - 1)'
    BY <1>1, <2>1, <2>2, <2>3, TickDue
  <2>5. timer'.left = n - 1
    BY <1>3, <2>1, <2>2 DEF Less
  <2>6. TimeInv'
    BY <1>3, <1>4, <2>4, <2>5 DEF TimeInv
  <2>7. QED
    BY <1>1, <1>2, <2>6 DEF RoundInv
<1>5. CASE timer.pc = "work"
  <2>1. timer.left > 0
    BY <1>3, <1>5 DEF Tick, Core0Done, TimerReady, Computes
  <2>2. Due(0) /\ timer.next = (PERIOD - TIMER_WORK) + timer.left
    BY <1>1, <1>5 DEF TimeInv
  <2>3. Due(0)'
    BY <1>1, <2>2, TickOver
  <2>4. timer'.next = (PERIOD - TIMER_WORK) + timer'.left
    BY <1>3, <2>1, <2>2, Sizes DEF Less
  <2>5. TimeInv'
    BY <1>3, <1>5, <2>3, <2>4 DEF TimeInv
  <2>6. QED
    BY <1>1, <1>2, <2>5 DEF RoundInv
<1>6. QED
  BY <1>3, <1>4, <1>5

\* The timer wakes and gives: everything of the previous round is over, and the
\* room in the period is enough for the next.
LEMMA TimerRound ==
    ASSUME RoundInv, RoomInPeriod, TimerWakes \/ TimerGives
    PROVE  RoundInv'
<1>1. TypeOK /\ UseInv /\ TimeInv /\ TypeOK' /\ TimerType
  BY TimerStepsType DEF RoundInv, TypeOK
<1>2. UNCHANGED <<mutex, inc, dec, insp>>
  BY DEF TimerWakes, TimerGives
<1>3. Due(0)
  BY <1>1 DEF TimeInv, TimerWakes, TimerGives
<1>4. ~IncPending /\ ~DecPending /\ IncLeft = 0 /\ DecLeft = 0
  BY <1>1, <1>3, DueZero
<1>5. IncLeft' = 0 /\ DecLeft' = 0 /\ Wait' = Wait
  BY <1>2, <1>4 DEF IncLeft, DecLeft, Wait
<1>6. UseInv'
  <2>1. /\ inc.pc \in {"start", "sem", "work"} /\ dec.pc \in {"sem", "work"}
    BY <1>1, <1>4 DEF TypeOK, IncType, DecType, IncPending, DecPending
  <2>2. QED
    BY <1>1, <1>2, <1>5, <2>1 DEF UseInv
<1>7. CASE TimerWakes
  <2>1. /\ UNCHANGED <<semInc, semDec>> /\ timer'.pc = "work"
        /\ timer'.left = TIMER_WORK /\ timer'.next = PERIOD
    BY <1>1, <1>7 DEF TimerWakes, TimerType
  <2>2. ~IncPending' /\ ~DecPending'
    BY <1>2, <1>4, <2>1 DEF IncPending, DecPending
  <2>3. TimeInv'
    BY <1>5, <2>1, <2>2, Sizes DEF TimeInv, Due
  <2>4. QED
    BY <1>1, <1>6, <2>3 DEF RoundInv
<1>8. CASE TimerGives
  <2>1. timer.pc = "work" /\ timer.left = 0 /\ timer'.pc = "delay" /\ timer'.left = timer.next
    BY <1>1, <1>8 DEF TimerGives, TimerType
  <2>2. timer'.left = PERIOD - TIMER_WORK
    BY <1>1, <2>1, Sizes DEF TimeInv
  <2>3. IncPending' /\ DecPending'
    BY <1>8 DEF TimerGives, IncPending, DecPending
  <2>4. Wait + Last + 2 * TABLE_WORK <= PERIOD - TIMER_WORK
    BY <1>1, DueBounds, Sizes DEF RoomInPeriod
  <2>5. TimeInv'
    BY <1>5, <2>1, <2>2, <2>3, <2>4 DEF TimeInv, Due
  <2>6. QED
    BY <1>1, <1>6, <2>5 DEF RoundInv
<1>9. QED
  BY <1>7, <1>8

LEMMA OtherRound ==
    ASSUME RoundInv, AppMainExits \/ UNCHANGED vars
    PROVE  RoundInv'
<1>1. UNCHANGED <<semInc, semDec, mutex, timer, inc, dec, insp>>
  BY DEF AppMainExits, vars
<1>2. TypeOK'
  BY OtherStepsType DEF RoundInv
<1>3. UseInv'
  BY <1>1 DEF RoundInv, UseInv, IncLeft, DecLeft
<1>4. TimeInv'
  BY <1>1 DEF RoundInv, TimeInv, Due, IncPending, DecPending, IncLeft, DecLeft, Wait
<1>5. QED
  BY <1>2, <1>3, <1>4 DEF RoundInv

LEMMA RoundCorrect == RoomInPeriod => (Spec => []RoundInv)
<1>. SUFFICES ASSUME RoomInPeriod
              PROVE  Spec => []RoundInv
  OBVIOUS
<1>1. RoundInv /\ [Next]_vars => RoundInv'
  BY TasksRound, TickRound, TimerRound, OtherRound DEF Next
<1>2. QED
  BY InitRound, <1>1, PTL DEF Spec

(***************************************************************************)
(* When the delays leave room in the period, no activation is lost: the    *)
(* timer finds both semaphores taken whenever it gives them, for every     *)
(* table size and every order in which the tasks get core 0 and the mutex. *)
(* The delays of lab3-1_main.c leave room: twice 40 ms of checking and     *)
(* 50 ms of computation in 250 ms less 20 ms.                              *)
(***************************************************************************)
THEOREM NoActivationLost == RoomInPeriod => (Spec => NoLostActivation)
<1>. SUFFICES ASSUME RoomInPeriod
              PROVE  Spec => NoLostActivation
  OBVIOUS
<1>1. ASSUME RoundInv, [Next]_vars, timer.pc = "work", timer'.pc = "delay"
      PROVE  ~semInc /\ ~semDec
  <2>1. Due(0) /\ TypeOK /\ UseInv
    BY <1>1 DEF RoundInv, TimeInv
  <2>2. QED
    BY <2>1, DueZero DEF IncPending, DecPending
<1>2. RoundInv /\ [Next]_vars =>
        [(timer.pc = "work" /\ timer'.pc = "delay") => ~semInc /\ ~semDec]_vars
  BY <1>1
<1>3. QED
  BY RoundCorrect, <1>2, PTL DEF Spec, NoLostActivation

-----------------------------------------------------------------------------
(***************************************************************************)
(* Balance.  IncTable has used up an activation once it has counted down,  *)
(* or has added constNumber; DecTable once it has subtracted.              *)
(***************************************************************************)
Token(b) == IF b THEN 1 ELSE 0
Countdown == IF inc.pc = "work" THEN ACTIVATIONS ELSE inc.activation
Base == Countdown + Token(DecPending) - Token(IncPending)

BalanceInv == /\ Shifted(Base)
              /\ inc.pc \in {"mutex", "loop", "work"} => inc.activation = 0
              /\ IF inc.pc = "start" THEN frame ELSE inc.const = CONST_NUMBER

Compensates == CONST_NUMBER = ACTIVATIONS + 1

LEMMA Tokens == \A b : Token(b) \in {0, 1} /\ (b => Token(b) = 1) /\ (~b => Token(b) = 0)
  BY DEF Token

LEMMA BaseBounds ==
    ASSUME TypeOK
    PROVE  /\ Base \in Int /\ Countdown \in 0 .. ACTIVATIONS
           /\ Token(IncPending) \in {0, 1} /\ Token(DecPending) \in {0, 1}
<1>1. Countdown \in 0 .. ACTIVATIONS
  BY Sizes DEF Countdown, TypeOK, IncType
<1>2. Token(IncPending) \in {0, 1} /\ Token(DecPending) \in {0, 1}
  BY Tokens
<1>3. PICK c \in Int, d \in Int, e \in Int :
        c = Countdown /\ d = Token(DecPending) /\ e = Token(IncPending)
  BY <1>1, <1>2, Sizes
<1>4. Base \in Int
  BY <1>3 DEF Base
<1>5. QED
  BY <1>1, <1>2, <1>4

\* IncTable: a countdown of one uses up one activation, and so does the whole
\* of an addition, which also starts the countdown again.
LEMMA IncBase ==
    ASSUME TypeOK, UseInv, BalanceInv, Compensates, Inc
    PROVE  IF IncGivesMutex THEN Base' = Base + CONST_NUMBER ELSE Base' = Base
<1>0. IncType /\ UNCHANGED <<semDec, dec>>
  BY DEF TypeOK, Inc
<1>1. PICK d \in Int : d = Token(DecPending) /\ d = Token(DecPending')
  BY <1>0, BaseBounds DEF DecPending, Token
<1>2. PICK a \in Int : a = inc.activation
  BY <1>0 DEF IncType
<1>3. CASE IncStarts \/ IncTakesMutex \/ IncAdds
  <2>1. /\ inc.pc \in {"start", "mutex", "loop"} /\ semInc' = semInc
        /\ inc'.pc = (IF inc.pc = "start" THEN "sem" ELSE "loop")
        /\ inc'.activation = a
    BY <1>0, <1>2, <1>3 DEF IncStarts, IncTakesMutex, IncAdds, IncType
  <2>2. Countdown' = a /\ Countdown = a
    BY <1>2, <2>1 DEF Countdown
  <2>3. IncPending' <=> IncPending
    BY <2>1 DEF IncPending
  <2>4. Token(IncPending') = Token(IncPending)
    BY <2>3, Zenon DEF Token
  <2>5. ~IncGivesMutex
    <3>1. inc'.pc # "work"
      BY <2>1
    <3>2. QED
      BY <1>0, <3>1 DEF IncGivesMutex, IncType
  <2>6. QED
    BY <1>1, <2>2, <2>4, <2>5 DEF Base
<1>4. CASE IncTakesSem
  <2>1. /\ inc.pc = "sem" /\ IncPending /\ ~semInc'
        /\ inc'.pc = (IF a = 0 THEN "mutex" ELSE "sem")
        /\ inc'.activation = (IF a = 0 THEN a ELSE a - 1)
    BY <1>0, <1>2, <1>4 DEF IncTakesSem, IncType, IncPending
  <2>2. Countdown = a /\ Countdown' = (IF a = 0 THEN a ELSE a - 1)
    BY <1>2, <2>1 DEF Countdown
  <2>3. Token(IncPending) = 1 /\ Token(IncPending') = (IF a = 0 THEN 1 ELSE 0)
    BY <2>1 DEF IncPending, Token
  <2>4. ~IncGivesMutex
    BY <2>1 DEF IncGivesMutex
  <2>5. Base = a + d - 1 /\ Base' = a + d - 1
    <3>1. Base = a + d - 1
      BY <1>1, <2>2, <2>3 DEF Base
    <3>2. CASE a = 0
      BY <1>1, <2>2, <2>3, <3>2 DEF Base
    <3>3. CASE a # 0
      <4>1. Base' = (a - 1) + d - 0
        BY <1>1, <2>2, <2>3, <3>3 DEF Base
      <4>2. QED
        BY <3>1, <4>1
    <3>4. QED
      BY <3>1, <3>2, <3>3
  <2>6. QED
    BY <2>4, <2>5
<1>5. CASE IncGivesMutex
  <2>1. /\ inc.pc = "loop" /\ inc'.pc = "work" /\ inc'.activation = a /\ semInc' = semInc
    BY <1>0, <1>2, <1>5 DEF IncGivesMutex, IncType
  <2>2. a = 0 /\ ~semInc
    BY <1>2, <2>1 DEF BalanceInv, UseInv
  <2>3. IncPending /\ ~IncPending'
    BY <2>1, <2>2 DEF IncPending
  <2>4. Token(IncPending) = 1 /\ Token(IncPending') = 0
    BY <2>3 DEF Token
  <2>5. Countdown = 0 /\ Countdown' = ACTIVATIONS
    BY <1>2, <2>1, <2>2 DEF Countdown
  <2>6. Base = 0 + d - 1 /\ Base' = ACTIVATIONS + d - 0
    BY <1>1, <2>4, <2>5 DEF Base
  <2>7. QED
    BY <1>5, <2>6, Sizes DEF Compensates
<1>6. CASE IncEnds
  <2>1. /\ inc.pc = "work" /\ inc'.pc = "sem" /\ inc'.activation = ACTIVATIONS
        /\ semInc' = semInc
    BY <1>0, <1>6 DEF IncEnds, IncType
  <2>2. Countdown' = ACTIVATIONS /\ Countdown = ACTIVATIONS
    BY <2>1 DEF Countdown
  <2>3. IncPending' <=> IncPending
    BY <2>1 DEF IncPending
  <2>4. Token(IncPending') = Token(IncPending)
    BY <2>3, Zenon DEF Token
  <2>5. ~IncGivesMutex
    BY <2>1 DEF IncGivesMutex
  <2>6. QED
    BY <1>1, <2>2, <2>4, <2>5 DEF Base
<1>7. QED
  BY <1>3, <1>4, <1>5, <1>6 DEF Inc

LEMMA DecBase ==
    ASSUME TypeOK, UseInv, Dec
    PROVE  IF DecGivesMutex THEN Base' = Base - 1 ELSE Base' = Base
<1>0. DecType /\ UNCHANGED <<semInc, inc>>
  BY DEF TypeOK, Dec
<1>1. PICK c \in Int, e \in Int : /\ c = Countdown /\ c = Countdown'
                                  /\ e = Token(IncPending) /\ e = Token(IncPending')
  BY <1>0, BaseBounds, Sizes DEF Countdown, IncPending, Token
<1>2. CASE DecGivesMutex
  <2>1. dec.pc = "loop" /\ dec'.pc = "work" /\ semDec' = semDec
    BY <1>0, <1>2 DEF DecGivesMutex, DecType
  <2>2. ~semDec
    BY <2>1 DEF UseInv
  <2>3. Token(DecPending) = 1 /\ Token(DecPending') = 0
    BY <2>1, <2>2 DEF DecPending, Token
  <2>4. Base = c + 1 - e /\ Base' = c + 0 - e
    BY <1>1, <2>3 DEF Base
  <2>5. QED
    BY <1>2, <2>4
<1>3. CASE DecTakesSem \/ DecTakesMutex \/ DecSubtracts \/ DecEnds
  <2>1. DecPending' <=> DecPending
    <3>1. CASE DecTakesSem
      <4>1. dec'.pc = "mutex" /\ semDec
        BY <1>0, <3>1 DEF DecTakesSem, DecType
      <4>2. QED
        BY <4>1 DEF DecPending
    <3>2. CASE DecTakesMutex \/ DecSubtracts
      <4>1. dec.pc \in {"mutex", "loop"} /\ dec'.pc = "loop"
        BY <1>0, <3>2 DEF DecTakesMutex, DecSubtracts, DecType
      <4>2. QED
        BY <4>1 DEF DecPending
    <3>3. CASE DecEnds
      <4>1. dec.pc = "work" /\ dec'.pc = "sem" /\ semDec' = semDec
        BY <1>0, <3>3 DEF DecEnds, DecType
      <4>2. QED
        BY <4>1 DEF DecPending
    <3>4. QED
      BY <1>3, <3>1, <3>2, <3>3
  <2>2. Token(DecPending') = Token(DecPending)
    BY <2>1, Zenon DEF Token
  <2>3. ~DecGivesMutex
    <3>1. ~(dec.pc = "loop" /\ dec'.pc = "work")
      BY <1>0, <1>3 DEF DecTakesSem, DecTakesMutex, DecSubtracts, DecEnds, DecType
    <3>2. QED
      BY <1>0, <3>1 DEF DecGivesMutex, DecType
  <2>4. QED
    BY <1>1, <2>2, <2>3 DEF Base
<1>4. QED
  BY <1>2, <1>3 DEF Dec

-----------------------------------------------------------------------------
RoundsInv == TableInv /\ RoundInv /\ BalanceInv

LEMMA InitRounds == Init => RoundsInv
<1>. SUFFICES ASSUME Init
              PROVE  RoundsInv
  OBVIOUS
<1>1. inc.pc = "start" /\ inc.activation = 0 /\ dec.pc = "sem" /\ ~semInc /\ ~semDec
      /\ insp.pc = "mutex"
  BY DEF Init
<1>2. frame
  BY Zenon DEF Init
<1>3. ~IncPending /\ ~DecPending /\ Countdown = 0
  BY <1>1 DEF IncPending, DecPending, Countdown
<1>4. Base = 0 + 0 - 0
  BY <1>3 DEF Base, Token
<1>5. \A i \in Elements : Pending(i) = 0
  BY <1>1 DEF Pending
<1>6. Shifted(Base)
  BY <1>4, <1>5, Sizes DEF Init, Shifted, Elements
<1>7. QED
  BY <1>1, <1>2, <1>6, InitInv, InitRound DEF RoundsInv, BalanceInv

LEMMA IncRounds ==
    ASSUME RoundsInv, Compensates, Inc
    PROVE  BalanceInv'
<1>1. TypeOK /\ UseInv /\ Holders /\ BalanceInv /\ IncType /\ frame' = frame
  BY DEF RoundsInv, TableInv, RoundInv, TypeOK, Inc
<1>2. PICK base \in Int : base = Base
  BY <1>1, BaseBounds
<1>3. Shifted(base)
  BY <1>1, <1>2 DEF BalanceInv
<1>4. Shifted(Base)'
  <2>1. CASE IncGivesMutex
    <3>1. inc.const = CONST_NUMBER /\ CONST_NUMBER \in Int
      BY <1>1, <2>1, Sizes DEF BalanceInv, IncGivesMutex
    <3>2. Shifted(base + CONST_NUMBER)'
      BY <1>1, <1>3, <2>1, <3>1, IncGivesShifts
    <3>3. Base' = base + CONST_NUMBER
      BY <1>1, <1>2, <2>1, IncBase
    <3>4. QED
      BY <3>2, <3>3 DEF Shifted
  <2>2. CASE ~IncGivesMutex
    <3>1. Shifted(base)'
      BY <1>1, <1>3, <2>2, IncShifts
    <3>2. Base' = base
      BY <1>1, <1>2, <2>2, IncBase
    <3>3. QED
      BY <3>1, <3>2 DEF Shifted
  <2>3. QED
    BY <2>1, <2>2
<1>5. /\ inc'.pc \in {"mutex", "loop", "work"} => inc'.activation = 0
      /\ inc'.pc # "start" /\ inc'.const = CONST_NUMBER
  <2>1. CASE IncStarts
    <3>1. frame /\ inc.pc = "start"
      BY <1>1, <2>1 DEF BalanceInv, IncStarts
    <3>2. inc' = [inc EXCEPT !.pc = "sem", !.const = CONST_NUMBER]
      BY <2>1, <3>1 DEF IncStarts
    <3>3. QED
      BY <1>1, <3>2 DEF IncType
  <2>2. CASE IncTakesSem \/ IncTakesMutex \/ IncAdds \/ IncGivesMutex \/ IncEnds
    <3>1. inc.pc # "start" /\ inc'.pc # "start" /\ inc'.const = inc.const
      BY <1>1, <2>2 DEF IncTakesSem, IncTakesMutex, IncAdds, IncGivesMutex, IncEnds, IncType
    <3>2. inc'.pc \in {"mutex", "loop", "work"} => inc'.activation = 0
      <4>1. CASE IncTakesSem
        BY <1>1, <4>1 DEF IncTakesSem, IncType
      <4>2. CASE IncTakesMutex \/ IncAdds \/ IncGivesMutex
        <5>1. inc.pc \in {"mutex", "loop"} /\ inc'.activation = inc.activation
          BY <1>1, <4>2 DEF IncTakesMutex, IncAdds, IncGivesMutex, IncType
        <5>2. QED
          BY <1>1, <5>1 DEF BalanceInv
      <4>3. CASE IncEnds
        BY <1>1, <4>3 DEF IncEnds, IncType
      <4>4. QED
        BY <2>2, <4>1, <4>2, <4>3
    <3>3. QED
      BY <1>1, <3>1, <3>2 DEF BalanceInv
  <2>3. QED
    BY <2>1, <2>2 DEF Inc
<1>6. QED
  BY <1>4, <1>5 DEF BalanceInv

LEMMA DecRounds ==
    ASSUME RoundsInv, Dec
    PROVE  BalanceInv'
<1>1. TypeOK /\ UseInv /\ Holders /\ BalanceInv /\ UNCHANGED <<inc, frame>>
  BY DEF RoundsInv, TableInv, RoundInv, Dec
<1>2. PICK base \in Int : base = Base
  BY <1>1, BaseBounds
<1>3. Shifted(base)
  BY <1>1, <1>2 DEF BalanceInv
<1>4. Shifted(Base)'
  <2>1. CASE DecGivesMutex
    <3>1. Shifted(base - 1)' /\ Base' = base - 1
      BY <1>1, <1>2, <1>3, <2>1, DecGivesShifts, DecBase
    <3>2. QED
      BY <3>1 DEF Shifted
  <2>2. CASE ~DecGivesMutex
    <3>1. Shifted(base)' /\ Base' = base
      BY <1>1, <1>2, <1>3, <2>2, DecShifts, DecBase
    <3>2. QED
      BY <3>1 DEF Shifted
  <2>3. QED
    BY <2>1, <2>2
<1>5. QED
  BY <1>1, <1>4 DEF BalanceInv

\* Both semaphores are given at once, to tasks that have used up the last ones.
LEMMA TimerRounds ==
    ASSUME RoundsInv, TimerWakes \/ TimerGives
    PROVE  BalanceInv'
<1>1. TypeOK /\ UseInv /\ TimeInv /\ BalanceInv /\ UNCHANGED <<Table, inc, dec, frame>>
  BY DEF RoundsInv, TableInv, RoundInv, TimerWakes, TimerGives
<1>2. Due(0)
  BY <1>1 DEF TimeInv, TimerWakes, TimerGives
<1>3. ~IncPending /\ ~DecPending
  BY <1>1, <1>2, DueZero
<1>4. PICK c \in Int : c = Countdown /\ c = Countdown'
  BY <1>1, BaseBounds, Sizes DEF Countdown
<1>5. Base = c + 0 - 0
  BY <1>3, <1>4 DEF Base, Token
<1>6. Base' = c
  <2>1. CASE TimerWakes
    <3>1. ~IncPending' /\ ~DecPending'
      BY <1>1, <1>3, <2>1 DEF TimerWakes, IncPending, DecPending
    <3>2. Base' = c + 0 - 0
      BY <1>4, <3>1 DEF Base, Token
    <3>3. QED
      BY <3>2
  <2>2. CASE TimerGives
    <3>1. IncPending' /\ DecPending'
      BY <2>2 DEF TimerGives, IncPending, DecPending
    <3>2. Base' = c + 1 - 1
      BY <1>4, <3>1 DEF Base, Token
    <3>3. QED
      BY <3>2
  <2>3. QED
    BY <2>1, <2>2
<1>7. \A i : Pending(i)' = Pending(i)
  BY <1>1 DEF Pending
<1>8. QED
  BY <1>1, <1>5, <1>6, <1>7 DEF BalanceInv, Shifted

LEMMA OtherRounds ==
    ASSUME RoundsInv, Insp \/ AppMainExits \/ Tick \/ UNCHANGED vars
    PROVE  BalanceInv'
<1>1. IncType /\ DecType /\ BalanceInv
  BY DEF RoundsInv, TableInv, RoundInv, TypeOK
<1>2. /\ UNCHANGED <<Table, semInc, semDec>>
      /\ inc'.pc = inc.pc /\ inc'.i = inc.i /\ inc'.const = inc.const
      /\ inc'.activation = inc.activation
      /\ dec'.pc = dec.pc /\ dec'.i = dec.i
  BY <1>1 DEF Insp, AppMainExits, Tick, vars, IncType, DecType
<1>3. Base' = Base
  BY <1>2 DEF Base, Countdown, Token, IncPending, DecPending
<1>4. \A i : Pending(i)' = Pending(i)
  BY <1>2 DEF Pending
<1>5. IF inc'.pc = "start" THEN frame' ELSE inc'.const = CONST_NUMBER
  <2>1. CASE AppMainExits
    <3>1. inc.pc # "start"
      BY <2>1 DEF AppMainExits, IncReady
    <3>2. QED
      BY <1>1, <1>2, <3>1 DEF BalanceInv
  <2>2. CASE Insp \/ Tick \/ UNCHANGED vars
    <3>1. frame' = frame
      BY <2>2 DEF Insp, Tick, vars
    <3>2. QED
      BY <1>1, <1>2, <3>1 DEF BalanceInv
  <2>3. QED
    BY <2>1, <2>2
<1>6. QED
  BY <1>1, <1>2, <1>3, <1>4, <1>5 DEF BalanceInv, Shifted

LEMMA BalancedRounds ==
    ASSUME RoundsInv, Compensates
    PROVE  Balanced
<1>1. TypeOK /\ Holders /\ BalanceInv /\ IncType
  BY DEF RoundsInv, TableInv, RoundInv, TypeOK
<1>2. PICK c \in Int, d \in {0, 1}, e \in {0, 1} :
        /\ c = Countdown /\ d = Token(DecPending) /\ e = Token(IncPending)
        /\ 0 <= c /\ c <= ACTIVATIONS
  BY <1>1, BaseBounds, Sizes
<1>3. Base = c + d - e
  BY <1>2 DEF Base
<1>4. ASSUME NEW i \in Elements \ {Last}
      PROVE  Table[i] - i \in -1 .. CONST_NUMBER
  <2>1. i \in Int /\ CONST_NUMBER = ACTIVATIONS + 1 /\ ACTIVATIONS \in Nat
    BY Sizes DEF Elements, Compensates
  <2>2. Table[i] = c + d - e + i + Pending(i)
    BY <1>1, <1>3, <1>4 DEF BalanceInv, Shifted
  <2>3. CASE inc.pc = "loop"
    <3>1. c = 0 /\ e = 1 /\ inc.const = CONST_NUMBER
      BY <1>1, <1>2, <2>3 DEF BalanceInv, Countdown, IncPending, Token
    <3>2. dec.pc # "loop"
      BY <1>1, <2>3 DEF Holders
    <3>3. Pending(i) = CONST_NUMBER - 0 \/ Pending(i) = 0 - 0
      BY <2>3, <3>1, <3>2 DEF Pending
    <3>4. QED
      BY <1>2, <2>1, <2>2, <3>1, <3>3
  <2>4. CASE dec.pc = "loop"
    <3>1. d = 1
      BY <1>2, <2>4 DEF DecPending, Token
    <3>2. inc.pc # "loop"
      BY <1>1, <2>4 DEF Holders
    <3>3. Pending(i) = 0 - 1 \/ Pending(i) = 0 - 0
      BY <2>4, <3>2 DEF Pending
    <3>4. QED
      BY <1>2, <2>1, <2>2, <3>1, <3>3
  <2>5. CASE inc.pc # "loop" /\ dec.pc # "loop"
    <3>1. Pending(i) = 0 - 0
      BY <2>5 DEF Pending
    <3>2. Table[i] = (c + d - e) + i
      BY <1>2, <2>1, <2>2, <3>1
    <3>3. c + d - e \in Int /\ -1 <= c + d - e /\ c + d - e <= ACTIVATIONS + 1
      BY <1>2, <2>1
    <3>4. QED
      BY <2>1, <3>2, <3>3
  <2>6. QED
    BY <2>3, <2>4, <2>5
<1>5. QED
  BY <1>4 DEF Balanced

(***************************************************************************)
(* IncTable and DecTable compensate each other for ever, when constNumber  *)
(* is the number of rounds between two additions (5 = activationNumber +   *)
(* 1) and the delays leave room in the period: no element ever leaves the  *)
(* range that one round needs.  The invariant shows on the way that        *)
(* IncTable reads constNumber while the frame of app_main is alive.        *)
(***************************************************************************)
THEOREM TableStaysBalanced == RoomInPeriod /\ Compensates => (Spec => []Balanced)
<1>. SUFFICES ASSUME RoomInPeriod, Compensates
              PROVE  Spec => []Balanced
  OBVIOUS
<1>1. /\ TableInv /\ [Next]_vars => TableInv'
      /\ RoundInv /\ [Next]_vars => RoundInv'
  BY IncInv, DecInv, InspInv, OtherInv, TasksRound, TickRound, TimerRound, OtherRound DEF Next
<1>2. RoundsInv /\ [Next]_vars => RoundsInv'
  <2>1. RoundsInv /\ [Next]_vars => BalanceInv'
    BY IncRounds, DecRounds, TimerRounds, OtherRounds DEF Next
  <2>2. QED
    BY <1>1, <2>1 DEF RoundsInv
<1>3. RoundsInv => Balanced
  BY BalancedRounds
<1>4. QED
  BY InitRounds, <1>2, <1>3, PTL DEF Spec

-----------------------------------------------------------------------------
(***************************************************************************)
(* Lab 2-4                                                                 *)
(***************************************************************************)
\* CountsInOrder, of any sequence of counts and number of edges handled.
InOrder(s, n) ==
    /\ \A i, j \in 1 .. Len(s) : i < j => s[i] < s[j]
    /\ \A i \in 1 .. Len(s) : s[i] \in 1 .. n
    /\ \A i \in 1 .. Len(s) : i <= MESS_QUEUE_MAX_LENGTH => s[i] = i
    /\ n > Len(s) => Len(s) >= MESS_QUEUE_MAX_LENGTH

LEMMA InOrderIsIt == CountsInOrder <=> InOrder(Counts, isrCount)
  BY Zenon DEF CountsInOrder, InOrder

-----------------------------------------------------------------------------
\* Append and \o
LEMMA AppendOne ==
    ASSUME NEW s \in Seq(Nat), NEW x \in Nat
    PROVE  /\ Append(s, x) \in Seq(Nat)
           /\ Len(Append(s, x)) = Len(s) + 1
           /\ \A i \in 1 .. Len(s) : Append(s, x)[i] = s[i]
           /\ Append(s, x)[Len(s) + 1] = x
  BY SMT

LEMMA ConcatAppend ==
    ASSUME NEW s \in Seq(Nat), NEW t \in Seq(Nat), NEW x \in Nat
    PROVE  s \o Append(t, x) = Append(s \o t, x)
<1> DEFINE a == s \o Append(t, x)
           b == Append(s \o t, x)
<1>1. a \in Seq(Nat) /\ b \in Seq(Nat)
  BY AppendOne, ConcatProperties
<1>2. Len(a) = Len(b)
  BY AppendOne, ConcatProperties
<1>3. \A i \in 1 .. Len(a) : a[i] = b[i]
  BY SMT
<1>4. QED
  BY <1>1, <1>2, <1>3, SeqEqual

LEMMA ConcatMovesHead ==
    ASSUME NEW s \in Seq(Nat), NEW t \in Seq(Nat), t # <<>>
    PROVE  Append(s, Head(t)) \o Tail(t) = s \o t
<1> DEFINE a == Append(s, Head(t)) \o Tail(t)
           b == s \o t
<1>0. Head(t) \in Nat /\ Tail(t) \in Seq(Nat) /\ Len(t) \in Nat \ {0}
  BY HeadTailProperties, EmptySeq
<1>1. a \in Seq(Nat) /\ b \in Seq(Nat)
  BY <1>0, AppendOne, ConcatProperties
<1>2. Len(a) = Len(b)
  BY <1>0, AppendOne, ConcatProperties, HeadTailProperties
<1>3. \A i \in 1 .. Len(a) : a[i] = b[i]
  BY <1>0, SMT
<1>4. QED
  BY <1>1, <1>2, <1>3, SeqEqual

-----------------------------------------------------------------------------
(***************************************************************************)
(* ++isrCount, then a send with room in the queue: nothing is missing      *)
(* among the first, so the new count is the next one there.                *)
(***************************************************************************)
LEMMA NextCountInOrder ==
    ASSUME NEW s \in Seq(Nat), NEW n \in Nat, InOrder(s, n)
    PROVE  InOrder(Append(s, n + 1), n + 1)
<1> DEFINE t == Append(s, n + 1)
<1>1. /\ t \in Seq(Nat) /\ Len(t) = Len(s) + 1 /\ t[Len(s) + 1] = n + 1
      /\ \A i \in 1 .. Len(s) : t[i] = s[i]
  BY AppendOne
<1>2. Len(s) \in Nat /\ MESS_QUEUE_MAX_LENGTH \in Nat
  BY LenProperties, QueueAssumption
<1>3. Len(s) < MESS_QUEUE_MAX_LENGTH => n = Len(s)
  <2> SUFFICES ASSUME Len(s) < MESS_QUEUE_MAX_LENGTH PROVE n = Len(s)
    OBVIOUS
  <2>1. n <= Len(s)
    BY <1>2 DEF InOrder
  <2>2. Len(s) # 0 => s[Len(s)] = Len(s) /\ s[Len(s)] \in 1 .. n
    BY <1>2 DEF InOrder
  <2>3. QED
    BY <1>2, <2>1, <2>2
<1> HIDE DEF t
<1>3a. \A i \in 1 .. Len(t) : i \in 1 .. Len(s) \/ i = Len(s) + 1
  BY <1>1, <1>2
<1>4. \A i, j \in 1 .. Len(t) : i < j => t[i] < t[j]
  <2> SUFFICES ASSUME NEW i \in 1 .. Len(t), NEW j \in 1 .. Len(t), i < j
               PROVE  t[i] < t[j]
    OBVIOUS
  <2>1. i \in 1 .. Len(s) /\ t[i] = s[i] /\ s[i] \in 1 .. n
    BY <1>1, <1>2 DEF InOrder
  <2>2. CASE j = Len(s) + 1
    BY <1>1, <2>1, <2>2
  <2>3. CASE j \in 1 .. Len(s)
    BY <1>1, <2>1, <2>3 DEF InOrder
  <2>4. QED
    BY <1>3a, <2>2, <2>3, Zenon
<1>5. \A i \in 1 .. Len(t) : t[i] \in 1 .. n + 1
  <2> SUFFICES ASSUME NEW i \in 1 .. Len(t) PROVE t[i] \in 1 .. n + 1
    OBVIOUS
  <2>1. CASE i \in 1 .. Len(s)
    <3>1. t[i] = s[i] /\ s[i] \in 1 .. n
      BY <1>1, <2>1, Zenon DEF InOrder
    <3>2. QED
      BY <3>1
  <2>2. CASE i = Len(s) + 1
    BY <1>1, <2>2
  <2>3. QED
    BY <1>3a, <2>1, <2>2, Zenon
<1>6. \A i \in 1 .. Len(t) : i <= MESS_QUEUE_MAX_LENGTH => t[i] = i
  <2> SUFFICES ASSUME NEW i \in 1 .. Len(t), i <= MESS_QUEUE_MAX_LENGTH PROVE t[i] = i
    OBVIOUS
  <2>1. CASE i \in 1 .. Len(s)
    BY <1>1, <2>1, Zenon DEF InOrder
  <2>2. CASE i = Len(s) + 1
    BY <1>1, <1>2, <1>3, <2>2
  <2>3. QED
    BY <1>3a, <2>1, <2>2, Zenon
<1>7. n + 1 > Len(t) => Len(t) >= MESS_QUEUE_MAX_LENGTH
  BY <1>1, <1>2 DEF InOrder
<1>8. QED
  BY <1>4, <1>5, <1>6, <1>7 DEF InOrder, t

\* ++isrCount, and the queue is full: a count is lost behind a whole queue.
LEMMA LostCountInOrder ==
    ASSUME NEW s \in Seq(Nat), NEW n \in Nat, InOrder(s, n),
           Len(s) >= MESS_QUEUE_MAX_LENGTH
    PROVE  InOrder(s, n + 1)
  BY QueueAssumption, LenProperties DEF InOrder

-----------------------------------------------------------------------------
LEMMA ButtonTypeInductive == ButtonSpec => []ButtonTypeOK
<1>1. ButtonInit => ButtonTypeOK
  <2>1. /\ {0} \subseteq 0 .. MAX_EDGES /\ 0 \in Nat
        /\ <<>> \in Seq(Nat)
    BY EdgesAssumption
  <2>2. QED
    BY <2>1, Zenon DEF ButtonInit, ButtonTypeOK
<1>2. ButtonTypeOK /\ [ButtonNext]_buttonVars => ButtonTypeOK'
  <2> SUFFICES ASSUME ButtonTypeOK, [ButtonNext]_buttonVars PROVE ButtonTypeOK'
    OBVIOUS
  <2>0. /\ edges \in 0 .. MAX_EDGES /\ isrCount \in Nat
        /\ countQueue \in Seq(Nat) /\ seen \in Seq(Nat)
    BY DEF ButtonTypeOK
  <2>1. CASE Falls
    <3>1. edges < MAX_EDGES /\ edges' = edges + 1
      BY <2>1 DEF Falls
    <3>2. edges' \in 0 .. MAX_EDGES
      BY <2>0, <3>1, EdgesAssumption
    <3>3. QED
      BY <2>1, <3>2, Zenon DEF Falls, ButtonTypeOK
  <2>2. CASE Rises
    BY <2>2, Zenon DEF Rises, ButtonTypeOK
  <2>3. CASE Push_button_isr_handler
    <3>1. isrCount' = isrCount + 1 /\ countQueue' = Sent(countQueue, isrCount')
      BY <2>3 DEF Push_button_isr_handler
    <3>2. isrCount' \in Nat /\ countQueue' \in Seq(Nat)
      BY <2>0, <3>1, AppendOne DEF Sent
    <3>3. QED
      BY <2>3, <3>2, Zenon DEF Push_button_isr_handler, ButtonTypeOK
  <2>4. CASE vCounterTask
    <3>1. CASE TakesCount
      <4>1. /\ countQueue' \in Seq(Nat) /\ seen' \in Seq(Nat)
        BY <2>0, <3>1, HeadTailProperties, AppendOne DEF TakesCount
      <4>2. QED
        BY <2>4, <3>1, <4>1, Zenon DEF TakesCount, vCounterTask, ButtonTypeOK
    <3>2. CASE GivesUp \/ Polls \/ DelayEnds
      BY <2>4, <3>2, Zenon DEF GivesUp, Polls, DelayEnds, vCounterTask, ButtonTypeOK
    <3>3. QED
      BY <2>4, <3>1, <3>2 DEF vCounterTask
  <2>5. CASE UNCHANGED buttonVars
    BY <2>5, Zenon DEF buttonVars, ButtonTypeOK
  <2>6. QED
    BY <2>1, <2>2, <2>3, <2>4, <2>5 DEF ButtonNext
<1>3. QED
  BY <1>1, <1>2, PTL DEF ButtonSpec

LEMMA CountsStep ==
    ASSUME ButtonTypeOK, CountsInOrder, [ButtonNext]_buttonVars
    PROVE  CountsInOrder'
<1>0. seen \in Seq(Nat) /\ countQueue \in Seq(Nat) /\ isrCount \in Nat /\ Counts \in Seq(Nat)
  BY ConcatProperties DEF ButtonTypeOK, Counts
<1>1. InOrder(Counts, isrCount)
  BY InOrderIsIt
<1>2. CASE Push_button_isr_handler
  <2>1. seen' = seen /\ isrCount' = isrCount + 1 /\ countQueue' = Sent(countQueue, isrCount + 1)
    BY <1>2 DEF Push_button_isr_handler
  <2>2. CASE Len(countQueue) < MESS_QUEUE_MAX_LENGTH
    <3>1. Counts' = Append(Counts, isrCount + 1)
      BY <1>0, <2>1, <2>2, ConcatAppend DEF Sent, Counts
    <3>2. InOrder(Counts', isrCount')
      BY <1>0, <1>1, <2>1, <3>1, NextCountInOrder
    <3>3. QED
      BY <3>2, Zenon DEF CountsInOrder, InOrder
  <2>3. CASE ~(Len(countQueue) < MESS_QUEUE_MAX_LENGTH)
    <3>1. Counts' = Counts
      BY <2>1, <2>3 DEF Sent, Counts
    <3>2. Len(Counts) >= MESS_QUEUE_MAX_LENGTH
      BY <1>0, <2>3, ConcatProperties, LenProperties, QueueAssumption DEF Counts
    <3>3. InOrder(Counts', isrCount')
      BY <1>0, <1>1, <2>1, <3>1, <3>2, LostCountInOrder
    <3>4. QED
      BY <3>3, Zenon DEF CountsInOrder, InOrder
  <2>4. QED
    BY <2>2, <2>3
<1>3. CASE TakesCount /\ vCounterTask
  <2>1. Counts' = Counts /\ isrCount' = isrCount
    BY <1>0, <1>3, ConcatMovesHead DEF TakesCount, vCounterTask, Counts
  <2>2. QED
    BY <2>1, Zenon DEF CountsInOrder
<1>4. CASE \/ Falls \/ Rises \/ UNCHANGED buttonVars
           \/ (GivesUp \/ Polls \/ DelayEnds) /\ vCounterTask
  <2>1. seen' = seen /\ countQueue' = countQueue /\ isrCount' = isrCount
    BY <1>4, Zenon DEF Falls, Rises, GivesUp, Polls, DelayEnds, vCounterTask, buttonVars
  <2>2. QED
    BY <2>1, Zenon DEF CountsInOrder, Counts
<1>5. QED
  BY <1>2, <1>3, <1>4, Zenon DEF ButtonNext, vCounterTask

(***************************************************************************)
(* For every queue length: the counts appear in order and without          *)
(* repetition, and none of the first MESS_QUEUE_MAX_LENGTH is lost         *)
(* (xQueueSend from the interrupt handler, its result not looked at).      *)
(***************************************************************************)
THEOREM ButtonCountsInOrder == ButtonSpec => []CountsInOrder
<1>1. ButtonInit => CountsInOrder
  BY QueueAssumption DEF ButtonInit, CountsInOrder, Counts
<1>2. ButtonTypeOK /\ CountsInOrder /\ [ButtonNext]_buttonVars => CountsInOrder'
  BY CountsStep
<1>3. QED
  BY <1>1, <1>2, ButtonTypeInductive, PTL DEF ButtonSpec
=============================================================================
