---------------------------- MODULE SharedTable -----------------------------
(***************************************************************************)
(* The FreeRTOS program of RTOS/tp3/main/lab3-1_main.c: a timer task wakes *)
(* IncTable and DecTable every 250 ms, each updates the elements of Table  *)
(* one by one under a mutex, and an inspector on the other core checks     *)
(* that the elements still differ by one.                                  *)
(*                                                                         *)
(* Time is counted in scheduler ticks of 10 ms.  vTaskDelay,               *)
(* vTaskDelayUntil and COMPUTE_IN_TIME_MS all end at a tick count, a       *)
(* preempted computation included; a computation occupies its core.        *)
(* Everything else takes no tick.  Timer (priority 5), IncTable and        *)
(* DecTable (both 3) and app_main (1) share core 0, Inspector has core 1.  *)
(* While one of IncTable and DecTable computes the other may or may not    *)
(* get a time slice.                                                       *)
(***************************************************************************)
EXTENDS Integers

CONSTANTS TABLE_SIZE,
          CONST_NUMBER,     \* constNumber of app_main
          GARBAGE,          \* what is read from its stack frame once it is gone
          ACTIVATIONS,      \* activationNumber = 4
          PERIOD,           \* pdMS_TO_TICKS(250)
          TIMER_WORK,       \* COMPUTE_IN_TIME_MS(20)
          TABLE_WORK,       \* COMPUTE_IN_TIME_MS(50)
          PAUSE             \* vTaskDelay(2)

ASSUME TableAssumption ==
    /\ TABLE_SIZE \in Nat /\ TABLE_SIZE > 1
    /\ CONST_NUMBER \in Int /\ GARBAGE \subseteq Int
    /\ ACTIVATIONS \in Nat
    /\ {PERIOD, TIMER_WORK, TABLE_WORK, PAUSE} \subseteq Nat \ {0}
    /\ TIMER_WORK < PERIOD

Elements == 0 .. TABLE_SIZE - 1
Last     == TABLE_SIZE - 1      \* the loops stop before it

Free == "free"

VARIABLES Table,
          semInc, semDec,       \* binary semaphores: given or not
          mutex,                \* its holder, or Free
          timer, inc, dec, insp,    \* the tasks: [pc, left], and their locals
          frame                 \* is the stack frame of app_main alive?

vars == <<Table, semInc, semDec, mutex, timer, inc, dec, insp, frame>>

TimerType == timer \in [pc : {"delay", "work"}, left : 0 .. PERIOD, next : 0 .. PERIOD]
IncType   == inc \in [pc : {"start", "sem", "mutex", "loop", "work"}, left : 0 .. TABLE_WORK,
                      i : Elements, const : Int, activation : 0 .. ACTIVATIONS]
DecType   == dec \in [pc : {"sem", "mutex", "loop", "work"}, left : 0 .. TABLE_WORK,
                      i : Elements]
InspType  == insp \in [pc : {"mutex", "check", "pause", "exited"}, left : 0 .. PAUSE,
                       i : Elements, reference : Int, error : BOOLEAN]
SharedType == /\ Table \in [Elements -> Int]
              /\ mutex \in {Free, "inc", "dec", "insp"}
FlagType  == semInc \in BOOLEAN /\ semDec \in BOOLEAN /\ frame \in BOOLEAN

TypeOK == TimerType /\ IncType /\ DecType /\ InspType /\ SharedType /\ FlagType

\* app_main has resumed the scheduler.
Init ==
    /\ Table = [i \in Elements |-> i]
    /\ semInc = FALSE /\ semDec = FALSE /\ mutex = Free
    /\ timer = [pc |-> "delay", left |-> PERIOD, next |-> PERIOD]
    /\ inc = [pc |-> "start", left |-> 0, i |-> 0, const |-> 0, activation |-> 0]
    /\ dec = [pc |-> "sem", left |-> 0, i |-> 0]
    /\ insp = [pc |-> "mutex", left |-> 0, i |-> 0, reference |-> 0, error |-> FALSE]
    /\ frame = TRUE

-----------------------------------------------------------------------------
\* vTaskTimer.  next counts to the following 250 ms date.
TimerWakes == /\ timer.pc = "delay" /\ timer.left = 0
              /\ timer' = [timer EXCEPT !.pc = "work", !.left = TIMER_WORK, !.next = PERIOD]
              /\ UNCHANGED <<Table, semInc, semDec, mutex, inc, dec, insp, frame>>

TimerGives == /\ timer.pc = "work" /\ timer.left = 0
              /\ semInc' = TRUE /\ semDec' = TRUE
              /\ timer' = [timer EXCEPT !.pc = "delay", !.left = timer.next]
              /\ UNCHANGED <<Table, mutex, inc, dec, insp, frame>>

\* The timer task preempts the other tasks of core 0 while it computes.
TimerReady == timer.pc = "work" \/ timer.left = 0

-----------------------------------------------------------------------------
\* vTaskIncTable.  Its parameter points into the frame of app_main.
IncStarts == /\ inc.pc = "start"
             /\ \E c \in IF frame THEN {CONST_NUMBER} ELSE GARBAGE :
                  inc' = [inc EXCEPT !.pc = "sem", !.const = c]
             /\ UNCHANGED <<Table, semInc, mutex>>

\* Mutant: the semaphore is looked at, not taken.
IncTakesSem_peeks == /\ inc.pc = "sem" /\ semInc
                     /\ inc' = IF inc.activation = 0
                               THEN [inc EXCEPT !.pc = "mutex"]
                               ELSE [inc EXCEPT !.activation = @ - 1]
                     /\ UNCHANGED <<Table, semInc, mutex>>

IncTakesSem == /\ inc.pc = "sem" /\ semInc
               /\ semInc' = FALSE
               /\ inc' = IF inc.activation = 0
                         THEN [inc EXCEPT !.pc = "mutex"]
                         ELSE [inc EXCEPT !.activation = @ - 1]
               /\ UNCHANGED <<Table, mutex>>

IncTakesMutex == /\ inc.pc = "mutex" /\ mutex = Free
                 /\ mutex' = "inc"
                 /\ inc' = [inc EXCEPT !.pc = "loop", !.i = 0]
                 /\ UNCHANGED <<Table, semInc>>

\* Mutant: the loop bound includes the last element.
IncAdds_past_last == /\ inc.pc = "loop" /\ inc.i <= Last
                     /\ Table' = [Table EXCEPT ![inc.i] = @ + inc.const]
                     /\ inc' = [inc EXCEPT !.i = @ + 1]
                     /\ UNCHANGED <<semInc, mutex>>

IncAdds == /\ inc.pc = "loop" /\ inc.i < Last
           /\ Table' = [Table EXCEPT ![inc.i] = @ + inc.const]
           /\ inc' = [inc EXCEPT !.i = @ + 1]
           /\ UNCHANGED <<semInc, mutex>>

IncGivesMutex == /\ inc.pc = "loop" /\ inc.i = Last
                 /\ mutex' = Free
                 /\ inc' = [inc EXCEPT !.pc = "work", !.left = TABLE_WORK]
                 /\ UNCHANGED <<Table, semInc>>

IncEnds == /\ inc.pc = "work" /\ inc.left = 0
           /\ inc' = [inc EXCEPT !.pc = "sem", !.activation = ACTIVATIONS]
           /\ UNCHANGED <<Table, semInc, mutex>>

Inc == /\ ~TimerReady
       /\ IncStarts \/ IncTakesSem \/ IncTakesMutex \/ IncAdds \/ IncGivesMutex \/ IncEnds
       /\ UNCHANGED <<semDec, timer, dec, insp, frame>>

-----------------------------------------------------------------------------
\* vTaskDecTable.
DecTakesSem == /\ dec.pc = "sem" /\ semDec
               /\ semDec' = FALSE
               /\ dec' = [dec EXCEPT !.pc = "mutex"]
               /\ UNCHANGED <<Table, mutex>>

\* Mutant: the mutex is not waited for.
DecTakesMutex_no_wait == /\ dec.pc = "mutex"
                         /\ mutex' = "dec"
                         /\ dec' = [dec EXCEPT !.pc = "loop", !.i = 0]
                         /\ UNCHANGED <<Table, semDec>>

DecTakesMutex == /\ dec.pc = "mutex" /\ mutex = Free
                 /\ mutex' = "dec"
                 /\ dec' = [dec EXCEPT !.pc = "loop", !.i = 0]
                 /\ UNCHANGED <<Table, semDec>>

DecSubtracts == /\ dec.pc = "loop" /\ dec.i < Last
                /\ Table' = [Table EXCEPT ![dec.i] = @ - 1]
                /\ dec' = [dec EXCEPT !.i = @ + 1]
                /\ UNCHANGED <<semDec, mutex>>

DecGivesMutex == /\ dec.pc = "loop" /\ dec.i = Last
                 /\ mutex' = Free
                 /\ dec' = [dec EXCEPT !.pc = "work", !.left = TABLE_WORK]
                 /\ UNCHANGED <<Table, semDec>>

DecEnds == /\ dec.pc = "work" /\ dec.left = 0
           /\ dec' = [dec EXCEPT !.pc = "sem"]
           /\ UNCHANGED <<Table, semDec, mutex>>

Dec == /\ ~TimerReady
       /\ DecTakesSem \/ DecTakesMutex \/ DecSubtracts \/ DecGivesMutex \/ DecEnds
       /\ UNCHANGED <<semInc, timer, inc, insp, frame>>

-----------------------------------------------------------------------------
\* vTaskInspector, on core 1.  ets_delay_us(100) for each element, with the
\* elements so scaled that one of them takes a tick.
InspTakesMutex == /\ insp.pc = "mutex" /\ mutex = Free
                  /\ mutex' = "insp"
                  /\ insp' = [pc |-> "check", left |-> 1, i |-> 0,
                              reference |-> Table[0], error |-> FALSE]

InspCompares == /\ insp.pc = "check" /\ insp.left = 0 /\ insp.i < Last
                /\ insp' = [insp EXCEPT !.error = @ \/ Table[insp.i] # insp.reference + insp.i,
                                        !.i = @ + 1,
                                        !.left = IF insp.i + 1 < Last THEN 1 ELSE 0]
                /\ UNCHANGED mutex

\* Mutant: the mutex is not given back.
InspGivesMutex_keeps == /\ insp.pc = "check" /\ insp.i = Last
                        /\ insp' = [insp EXCEPT !.pc = "pause", !.left = PAUSE]
                        /\ UNCHANGED mutex

InspGivesMutex == /\ insp.pc = "check" /\ insp.i = Last
                  /\ mutex' = Free
                  /\ insp' = [insp EXCEPT !.pc = "pause", !.left = PAUSE]

InspEnds == /\ insp.pc = "pause" /\ insp.left = 0
            /\ insp' = [insp EXCEPT !.pc = IF insp.error THEN "exited" ELSE "mutex"]
            /\ UNCHANGED mutex

Insp == /\ InspTakesMutex \/ InspCompares \/ InspGivesMutex \/ InspEnds
        /\ UNCHANGED <<Table, semInc, semDec, timer, inc, dec, frame>>

-----------------------------------------------------------------------------
Computes(t) == t.pc = "work" /\ t.left > 0

IncReady == \/ inc.pc \in {"start", "loop"}
            \/ inc.pc = "sem" /\ semInc
            \/ inc.pc = "mutex" /\ mutex = Free
            \/ inc.pc = "work" /\ inc.left = 0
DecReady == \/ dec.pc = "loop"
            \/ dec.pc = "sem" /\ semDec
            \/ dec.pc = "mutex" /\ mutex = Free
            \/ dec.pc = "work" /\ dec.left = 0
InspReady == \/ insp.pc = "mutex" /\ mutex = Free
             \/ insp.pc \in {"check", "pause"} /\ insp.left = 0

\* Mutant: app_main ends without waiting for its turn.
AppMainExits_at_once == /\ frame
                        /\ frame' = FALSE
                        /\ UNCHANGED <<Table, semInc, semDec, mutex, timer, inc, dec, insp>>

\* vTaskDelete(NULL): app_main runs when the other tasks of core 0 sleep.
AppMainExits == /\ frame
                /\ ~TimerReady
                /\ ~IncReady /\ ~Computes(inc) /\ ~DecReady /\ ~Computes(dec)
                /\ frame' = FALSE
                /\ UNCHANGED <<Table, semInc, semDec, mutex, timer, inc, dec, insp>>

\* A tick: core 1 has nothing left to do in this one, and core 0 is either
\* occupied by a computation or has nothing left to do either.
Less(n) == IF n = 0 THEN 0 ELSE n - 1

Core0Done == IF TimerReady THEN Computes(timer)
             ELSE Computes(inc) \/ Computes(dec) \/ ~(IncReady \/ DecReady)

Tick == /\ ~InspReady /\ insp.pc # "exited" /\ Core0Done
        /\ timer' = [timer EXCEPT !.left = Less(@), !.next = Less(@)]
        /\ inc' = [inc EXCEPT !.left = Less(@)]
        /\ dec' = [dec EXCEPT !.left = Less(@)]
        /\ insp' = [insp EXCEPT !.left = Less(@)]
        /\ UNCHANGED <<Table, semInc, semDec, mutex, frame>>

Next == \/ TimerWakes \/ TimerGives
        \/ Inc \/ Dec \/ Insp
        \/ AppMainExits
        \/ Tick

\* Both cores run their tasks and the tick interrupt never stops.
Spec == /\ Init /\ [][Next]_vars
        /\ WF_vars(TimerWakes \/ TimerGives) /\ WF_vars(Inc) /\ WF_vars(Dec)
        /\ WF_vars(Insp) /\ WF_vars(Tick)

-----------------------------------------------------------------------------
(***************************************************************************)
(* Safety: the inspector never finds the elements out of step, although    *)
(* both other tasks update them one at a time while it looks at them one   *)
(* at a time from the other core.                                          *)
(***************************************************************************)
NeverInconsistent == ~insp.error

(***************************************************************************)
(* Safety: the two tasks compensate each other for ever: every element     *)
(* stays between its first value less one and that value plus constNumber. *)
(* One activation lost by either task would add up, round after round.     *)
(***************************************************************************)
Balanced == \A i \in Elements \ {Last} : Table[i] - i \in -1 .. CONST_NUMBER

(***************************************************************************)
(* Safety: the timer never gives a semaphore that is still given, which    *)
(* would lose an activation: waiting for the mutex and both computations   *)
(* fit in the period.                                                      *)
(***************************************************************************)
NoLostActivation ==
    [][(timer.pc = "work" /\ timer'.pc = "delay") => ~semInc /\ ~semDec]_vars

(***************************************************************************)
(* Liveness: each task gets the mutex whenever it wants it, although       *)
(* nothing orders the tasks that wait for it.                              *)
(***************************************************************************)
EveryoneGetsTheMutex ==
    /\ inc.pc = "mutex" ~> inc.pc = "loop"
    /\ dec.pc = "mutex" ~> dec.pc = "loop"
    /\ insp.pc = "mutex" ~> insp.pc = "check"
=============================================================================
