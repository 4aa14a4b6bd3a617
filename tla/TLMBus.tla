------------------------------- MODULE TLMBus -------------------------------
(***************************************************************************)
(* The transaction level bus of systemC/TP/tp3/src: TLMBus (tlm_bus.h),    *)
(* the masters that call writeToSlave and readToSlave (master_module.h),   *)
(* and the memory behind it (slave_module.h), with the two interrupt lines.*)
(*                                                                         *)
(* SystemC threads are coroutines: a thread runs alone from one wait to    *)
(* the next, which is one action here.  notify() without argument makes    *)
(* ready the threads that are waiting at that moment, and no other: a      *)
(* notification nobody waits for is lost.  Time passes only when no thread *)
(* is ready; which sleepers wake together is left open, and so is the      *)
(* order in which ready threads run.                                       *)
(***************************************************************************)
EXTENDS Naturals

CONSTANTS Masters,      \* the threads that call the bus (boot_thread in main.cpp)
          None,
          MEM_SIZE,     \* mem_size of the slave, 1024 in main.cpp
          Addresses,    \* addresses the masters use, below 2^31
          Values

Cells == 0 .. MEM_SIZE - 1
Irqs  == {0, 1}

ASSUME BusAssumption == /\ None \notin Masters
                        /\ MEM_SIZE \in Nat \ {0}
                        /\ Addresses \subseteq Nat
                        /\ Values # {}

VARIABLES owner,            \* mutex: its owner, or None
          addr, data, is_read,
          mem,              \* of the slave
          result,           \* what the last readToSlave of a master returned
          master, slave, timer, isr, irq

busVars == <<owner, addr, data, is_read>>
vars == <<owner, addr, data, is_read, mem, result, master, slave, timer, isr, irq>>

\* master: "sleep" in one of the wait(.., SC_MS) of boot_thread, "call" ready
\*         to make a call, "locking" in mutex.lock(), waiting for m_free,
\*         "retry" woken by m_free, "acking" in wait(ackToMasterEV), "acked"
\*         woken from it.  req is the call being made.
Calls == [op : {"write", "read"}, addr : Addresses, data : Values]

MasterStates == [pc : {"sleep", "call"}]
                \union [pc : {"locking", "retry", "acking", "acked"}, req : Calls]

TypeOK == /\ owner \in Masters \union {None}
          /\ addr \in Addresses \union {0}
          /\ data \in Values /\ is_read \in BOOLEAN
          /\ mem \in [Cells -> Values]
          /\ result \in [Masters -> Values]
          /\ master \in [Masters -> MasterStates]
          /\ slave \in {"start", "wait", "ready"}
          /\ timer \in {"start", "sleep", "ready"}
          /\ isr \in [Irqs -> {"start", "wait", "ready"}]
          /\ irq \in Irqs

\* Nothing is initialised: neither the members of the bus nor the memory.
\* Every thread is ready; masters first wait 10 ms.
Init == /\ owner = None /\ addr = 0 /\ data \in Values /\ is_read = FALSE
        /\ mem \in [Cells -> Values] /\ result \in [Masters -> Values]
        /\ master = [m \in Masters |-> [pc |-> "sleep"]]
        /\ slave = "start" /\ timer = "start"
        /\ isr = [i \in Irqs |-> "start"] /\ irq = 0

-----------------------------------------------------------------------------
\* Threads that wait for the event of rwToSlaveEV, ackToMasterEV, m_free.
NotifySlave  == slave' = IF slave = "wait" THEN "ready" ELSE slave
Woken(from, to) == [m \in Masters |-> IF master[m].pc = from
                                      THEN [master[m] EXCEPT !.pc = to] ELSE master[m]]

\* Mutant: without mutex.lock().
Post_no_lock(m, r) ==
    /\ owner' = m
    /\ addr' = r.addr
    /\ data' = IF r.op = "write" THEN r.data ELSE data
    /\ is_read' = (r.op = "read")
    /\ NotifySlave
    /\ master' = [master EXCEPT ![m] = [pc |-> "acking", req |-> r]]

\* writeToSlave / readToSlave up to its wait: with the mutex free, the
\* request is posted and the slave notified.
Post(m, r) == /\ owner = None
              /\ owner' = m
              /\ addr' = r.addr
              /\ data' = IF r.op = "write" THEN r.data ELSE data
              /\ is_read' = (r.op = "read")
              /\ NotifySlave
              /\ master' = [master EXCEPT ![m] = [pc |-> "acking", req |-> r]]

Block(m, r) == /\ owner # None
               /\ master' = [master EXCEPT ![m] = [pc |-> "locking", req |-> r]]
               /\ UNCHANGED <<busVars, slave>>

Call(m) == /\ master[m].pc = "call"
           /\ \E r \in Calls : Post(m, r) \/ Block(m, r)
           /\ UNCHANGED <<mem, result, timer, isr, irq>>

Retry(m) == /\ master[m].pc = "retry"
            /\ Post(m, master[m].req) \/ Block(m, master[m].req)
            /\ UNCHANGED <<mem, result, timer, isr, irq>>

\* Mutants: the mutex is kept; it is given back without notifying m_free.
Return_keeps_lock(m) ==
    /\ master[m].pc = "acked"
    /\ result' = IF master[m].req.op = "read"
                 THEN [result EXCEPT ![m] = data] ELSE result
    /\ master' = [master EXCEPT ![m] = [pc |-> "sleep"]]
    /\ UNCHANGED <<owner, addr, data, is_read, mem, slave, timer, isr, irq>>
Return_silent(m) ==
    /\ master[m].pc = "acked"
    /\ owner' = IF owner = m THEN None ELSE owner
    /\ result' = IF master[m].req.op = "read"
                 THEN [result EXCEPT ![m] = data] ELSE result
    /\ master' = [master EXCEPT ![m] = [pc |-> "sleep"]]
    /\ UNCHANGED <<addr, data, is_read, mem, slave, timer, isr, irq>>

\* After wait(ackToMasterEV): unlock, then return data, with no wait between
\* them, and on to the next wait of the caller.
Return(m) == /\ master[m].pc = "acked"
             /\ owner' = IF owner = m THEN None ELSE owner
             /\ result' = IF master[m].req.op = "read"
                          THEN [result EXCEPT ![m] = data] ELSE result
             /\ master' = [(IF owner = m THEN Woken("locking", "retry") ELSE master)
                             EXCEPT ![m] = [pc |-> "sleep"]]
             /\ UNCHANGED <<addr, data, is_read, mem, slave, timer, isr, irq>>

-----------------------------------------------------------------------------
\* main_thread of the slave, from one wait(rwEvent) to the next.  An address
\* past the memory gets no answer.
Ack == master' = Woken("acking", "acked")

SlaveStart == slave = "start" /\ slave' = "wait"
              /\ UNCHANGED <<busVars, mem, result, master, timer, isr, irq>>

\* Mutant: a write is not acknowledged.
ServeWrite_no_ack == /\ slave = "ready" /\ ~is_read /\ addr < MEM_SIZE
                     /\ mem' = [mem EXCEPT ![addr] = data]
                     /\ slave' = "wait"
                     /\ UNCHANGED <<busVars, result, master, timer, isr, irq>>

ServeWrite == /\ slave = "ready" /\ ~is_read /\ addr < MEM_SIZE
              /\ mem' = [mem EXCEPT ![addr] = data]
              /\ Ack
              /\ slave' = "wait"
              /\ UNCHANGED <<busVars, result, timer, isr, irq>>

\* Mutant: the acknowledgement without the data.
ServeRead_no_data == /\ slave = "ready" /\ is_read /\ addr < MEM_SIZE
                     /\ Ack
                     /\ slave' = "wait"
                     /\ UNCHANGED <<busVars, mem, result, timer, isr, irq>>

ServeRead == /\ slave = "ready" /\ is_read /\ addr < MEM_SIZE
             /\ data' = mem[addr]
             /\ Ack
             /\ slave' = "wait"
             /\ UNCHANGED <<owner, addr, is_read, mem, result, timer, isr, irq>>

Ignore == /\ slave = "ready" /\ addr >= MEM_SIZE
          /\ slave' = "wait"
          /\ UNCHANGED <<busVars, mem, result, master, timer, isr, irq>>

\* interrupt_thread: every 100 ms one interrupt, the two lines in turn.
TimerStart == timer = "start" /\ timer' = "sleep"
              /\ UNCHANGED <<busVars, mem, result, master, slave, isr, irq>>

\* Mutants: no wait between two interrupts; the line is counted up.
NotifyIrq_no_wait == /\ timer = "ready"
                     /\ isr' = [isr EXCEPT ![irq] = IF @ = "wait" THEN "ready" ELSE @]
                     /\ irq' = 1 - irq
                     /\ UNCHANGED <<busVars, mem, result, master, slave, timer>>
NotifyIrq_counts == /\ timer = "ready"
                    /\ timer' = "sleep"
                    /\ isr' = [isr EXCEPT ![irq] = IF @ = "wait" THEN "ready" ELSE @]
                    /\ irq' = irq + 1
                    /\ UNCHANGED <<busVars, mem, result, master, slave>>

NotifyIrq == /\ timer = "ready"
             /\ timer' = "sleep"
             /\ isr' = [isr EXCEPT ![irq] = IF @ = "wait" THEN "ready" ELSE @]
             /\ irq' = 1 - irq
             /\ UNCHANGED <<busVars, mem, result, master, slave>>

\* isr0_thread, isr1_thread
HandleIrq(i) == /\ isr[i] \in {"start", "ready"}
                /\ isr' = [isr EXCEPT ![i] = "wait"]
                /\ UNCHANGED <<busVars, mem, result, master, slave, timer, irq>>

-----------------------------------------------------------------------------
Runs(m)  == Call(m) \/ Retry(m) \/ Return(m)
SlaveRuns == SlaveStart \/ ServeWrite \/ ServeRead \/ Ignore
TimerRuns == TimerStart \/ NotifyIrq

Idle == /\ \A m \in Masters : master[m].pc \in {"sleep", "locking", "acking"}
        /\ slave = "wait" /\ timer = "sleep"
        /\ \A i \in Irqs : isr[i] = "wait"

\* Time passes: some of the sleepers reach the end of their wait together.
TimePasses ==
    /\ Idle
    /\ \E S \in SUBSET {m \in Masters : master[m].pc = "sleep"} :
         master' = [m \in Masters |-> IF m \in S THEN [pc |-> "call"] ELSE master[m]]
    /\ timer' \in {"sleep", "ready"}
    /\ UNCHANGED <<busVars, mem, result, slave, isr, irq>>

Next == \/ \E m \in Masters : Runs(m)
        \/ SlaveRuns
        \/ TimerRuns
        \/ \E i \in Irqs : HandleIrq(i)
        \/ TimePasses

\* The kernel runs every ready thread before time passes.  The interrupt
\* thread never stops sleeping and waking.
Spec == /\ Init /\ [][Next]_vars
        /\ \A m \in Masters : WF_vars(Runs(m))
        /\ WF_vars(SlaveRuns) /\ WF_vars(TimerRuns)
        /\ \A i \in Irqs : WF_vars(HandleIrq(i))

-----------------------------------------------------------------------------
\* A call has been made from Call on, although it may have to lock the mutex
\* first; it is done when the slave has acknowledged it, and what readToSlave
\* will return is then in data.
calls == [m \in Masters |->
            CASE master[m].pc \in {"sleep", "call"} -> [stage |-> "none"]
              [] master[m].pc = "acked" ->
                    [stage |-> "done", req |-> master[m].req, answer |-> data]
              [] OTHER -> [stage |-> "made", req |-> master[m].req]]

(***************************************************************************)
(* Safety: the bus implements SharedMemory.  Every call that returns has   *)
(* taken effect once, on its own cell and with its own data, and a read    *)
(* returns what the cell held at that instant, although readToSlave reads  *)
(* data after it has given the mutex back, one data member carries both    *)
(* directions, and one acknowledgement is for whoever waits.               *)
(***************************************************************************)
Memory == INSTANCE SharedMemory WITH call <- calls
ImplementsMemory == Memory!Spec

(***************************************************************************)
(* Safety: only the owner of the mutex has a request on the bus, so an     *)
(* acknowledgement never wakes another master than the one it is for.      *)
(***************************************************************************)
OneRequest ==
    \A m \in Masters : master[m].pc \in {"acking", "acked"} <=> owner = m

(***************************************************************************)
(* Safety: no notification of rwToSlaveEV is lost.  A master that waits    *)
(* for an answer has its request in front of a slave that is ready, or     *)
(* used an address the slave does not answer.                              *)
(***************************************************************************)
NoLostRequest ==
    \A m \in Masters : master[m].pc = "acking" =>
        /\ addr = master[m].req.addr
        /\ is_read = (master[m].req.op = "read")
        /\ slave = "ready" \/ addr >= MEM_SIZE

(***************************************************************************)
(* Safety: nobody is left waiting for a mutex that is free.                *)
(***************************************************************************)
NoLostRelease ==
    (\E m \in Masters : master[m].pc = "locking") => owner # None

(***************************************************************************)
(* Safety: an interrupt always finds its thread waiting for it.            *)
(***************************************************************************)
NoLostInterrupt == [][irq' # irq => isr[irq] = "wait"]_vars

(***************************************************************************)
(* Liveness: the bus is given back after a request that the slave answers, *)
(* one with an address in its memory.                                      *)
(***************************************************************************)
BusIsReleased == (owner # None /\ addr < MEM_SIZE) ~> owner = None
=============================================================================
