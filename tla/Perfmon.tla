------------------------------ MODULE Perfmon -------------------------------
(***************************************************************************)
(* The profiling commands of mydevice_ioctl (tp3/TP_IOCTL/mydevice.c):     *)
(* IOCTL_PERFMON_START resets the cycle counter and keeps its value in     *)
(* val1, IOCTL_PERFMON_STOP reads it into val2 and prints the difference.  *)
(* val1, val2 and the counter are global, the commands are not locked.     *)
(***************************************************************************)
EXTENDS Integers

CONSTANTS Profilers,        \* processes that call ioctl
          WORD              \* of the u32 variables: 2^32

ASSUME PerfAssumption == WORD \in Nat /\ WORD > 1

VARIABLES ccnt, val1, val2,
          pm,               \* where each process is
          elapsed,          \* history: cycles since val1 was read, and at the
          measured          \* last stop; WORD: too many, or not one interval

perfVars == <<ccnt, val1, val2, pm, elapsed, measured>>

PerfInit == /\ ccnt \in 0 .. WORD - 1 /\ val1 = 0 /\ val2 = 0
            /\ pm = [p \in Profilers |-> "idle"]
            /\ elapsed = WORD /\ measured = WORD

\* The processor runs on; the counter wraps.  Until the first start it may
\* be disabled: nothing says that there is a cycle.
Cycle == /\ ccnt' = (ccnt + 1) % WORD
         /\ elapsed' = IF elapsed < WORD THEN elapsed + 1 ELSE elapsed
         /\ UNCHANGED <<val1, val2, pm, measured>>

Steps(p, from, to) == pm[p] = from /\ pm' = [pm EXCEPT ![p] = to]

\* perfmon_ioctl_start: enable and reset, then read the counter.
ResetCounter(p) == /\ Steps(p, "idle", "starting")
                   /\ ccnt' = 0
                   /\ elapsed' = WORD
                   /\ UNCHANGED <<val1, val2, measured>>

\* Mutant: the start of the measurement is read into the wrong variable.
ReadStart_val2(p) == /\ Steps(p, "starting", "idle")
                     /\ val2' = ccnt
                     /\ elapsed' = 0 /\ measured' = WORD
                     /\ UNCHANGED <<ccnt, val1>>

ReadStart(p) == /\ Steps(p, "starting", "idle")
                /\ val1' = ccnt
                /\ elapsed' = 0 /\ measured' = WORD
                /\ UNCHANGED <<ccnt, val2>>

\* perfmon_ioctl_stop: read the counter, then print val2 - val1.
ReadStop(p) == /\ Steps(p, "idle", "printing")
               /\ val2' = ccnt
               /\ measured' = elapsed
               /\ UNCHANGED <<ccnt, val1, elapsed>>

\* %d prints an unsigned number as a signed one.
Signed(n) == IF n < WORD \div 2 THEN n ELSE n - WORD
Printed   == Signed((val2 - val1) % WORD)

PrintTime(p) == /\ Steps(p, "printing", "idle")
                /\ UNCHANGED <<ccnt, val1, val2, elapsed, measured>>

\* mydevice_ioctl takes the commands of any process in any order.
PerfNext == \/ Cycle
            \/ \E p \in Profilers : ResetCounter(p) \/ ReadStart(p) \/ ReadStop(p) \/ PrintTime(p)

PerfSpec == PerfInit /\ [][PerfNext]_perfVars
-----------------------------------------------------------------------------
(***************************************************************************)
(* Safety: what is printed is the time from the last start to the last     *)
(* stop, whichever processes gave them, up to the range of the counter and *)
(* through its wrap; from half the range on as a negative number.  Not so  *)
(* where a start has reset the counter and not yet read it when the stop   *)
(* reads it, or has read it between the stop and its print.                *)
(***************************************************************************)
PrintsLastInterval ==
    \A p \in Profilers : pm[p] = "printing" /\ measured < WORD => Printed = Signed(measured)
=============================================================================
