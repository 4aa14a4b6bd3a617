---------------------------- MODULE TLMBusProofs ----------------------------
(***************************************************************************)
(* For any number of masters, any memory size and any calls: the mutex     *)
(* keeps requests apart, no notification that matters is lost, nobody      *)
(* waits for a mutex that is free, and the calls implement an atomic       *)
(* memory.                                                                 *)
(***************************************************************************)
EXTENDS TLMBus, TLAPS

\* The part of TypeOK the argument needs.
MastersOK == /\ owner \in Masters \union {None}
             /\ master \in [Masters -> MasterStates]

\* A slave that is ready has a request to serve, and nobody calls before the
\* slave has reached its wait.
SlaveOK == /\ slave \in {"start", "wait", "ready"}
           /\ slave = "ready" => \E m \in Masters : master[m].pc = "acking"
           /\ slave = "start" => \A m \in Masters : master[m].pc = "sleep"

BusInv == MastersOK /\ SlaveOK /\ OneRequest /\ NoLostRequest /\ NoLostRelease

-----------------------------------------------------------------------------
\* What is in a master's state, by its pc.
LEMMA StateFacts ==
    ASSUME NEW s \in MasterStates
    PROVE  \/ s.pc \in {"sleep", "call"}
           \/ s.pc \in {"locking", "retry", "acking", "acked"} /\ s.req \in Calls
  BY DEF MasterStates

LEMMA NewStates ==
    ASSUME NEW r \in Calls
    PROVE  /\ [pc |-> "sleep"] \in MasterStates /\ [pc |-> "call"] \in MasterStates
           /\ [pc |-> "locking", req |-> r] \in MasterStates
           /\ [pc |-> "acking", req |-> r] \in MasterStates
  BY DEF MasterStates

(***************************************************************************)
(* notify() on the event of m_free or ackToMasterEV: the masters that wait *)
(* for it become ready and keep their call, the others are untouched.      *)
(***************************************************************************)
LEMMA WokenFacts ==
    ASSUME master \in [Masters -> MasterStates],
           NEW from \in {"locking", "acking"}, NEW to \in {"retry", "acked"}
    PROVE  /\ Woken(from, to) \in [Masters -> MasterStates]
           /\ \A m \in Masters :
                IF master[m].pc = from
                THEN Woken(from, to)[m].pc = to /\ Woken(from, to)[m].req = master[m].req
                ELSE Woken(from, to)[m] = master[m]
<1>1. ASSUME NEW m \in Masters, master[m].pc = from
      PROVE  /\ [master[m] EXCEPT !.pc = to] \in MasterStates
             /\ [master[m] EXCEPT !.pc = to].pc = to
             /\ [master[m] EXCEPT !.pc = to].req = master[m].req
  <2>1. master[m] \in [pc : {"locking", "retry", "acking", "acked"}, req : Calls]
    BY <1>1 DEF MasterStates
  <2>2. [master[m] EXCEPT !.pc = to] \in [pc : {"locking", "retry", "acking", "acked"}, req : Calls]
    BY <2>1
  <2>3. QED
    BY <2>1, <2>2 DEF MasterStates
<1>2. QED
  BY <1>1 DEF Woken

(***************************************************************************)
(* Posting a request: the mutex was free, so no request is on the bus and  *)
(* the slave is in its wait, where the notification finds it.              *)
(***************************************************************************)
LEMMA PostInv ==
    ASSUME BusInv, NEW m \in Masters, NEW r \in Calls,
           master[m].pc \in {"call", "retry"}, Post(m, r)
    PROVE  BusInv'
<1>1. /\ owner = None /\ owner' = m /\ None \notin Masters
      /\ master' = [master EXCEPT ![m] = [pc |-> "acking", req |-> r]]
      /\ addr' = r.addr /\ is_read' = (r.op = "read")
  BY BusAssumption, Zenon DEF Post
<1>2. /\ MastersOK'
      /\ master'[m].pc = "acking" /\ master'[m].req = r
      /\ \A n \in Masters \ {m} : master'[n] = master[n]
  BY <1>1, NewStates DEF BusInv, MastersOK
<1>3. \A n \in Masters : master[n].pc \notin {"acking", "acked"}
  BY <1>1 DEF BusInv, OneRequest
<1>4. slave = "wait" /\ slave' = "ready"
  BY <1>3 DEF BusInv, SlaveOK, Post, NotifySlave
<1>5. SlaveOK'
  BY <1>2, <1>4 DEF SlaveOK
<1>6. OneRequest'
  BY <1>1, <1>2, <1>3 DEF OneRequest
<1>7. NoLostRequest'
  <2>1. \A n \in Masters : master'[n].pc = "acking" => n = m
    BY <1>2, <1>3
  <2>2. is_read' = (master'[m].req.op = "read") /\ addr' = master'[m].req.addr
    BY <1>1, <1>2
  <2>3. QED
    BY <1>4, <2>1, <2>2 DEF NoLostRequest
<1>8. NoLostRelease'
  BY <1>1 DEF NoLostRelease
<1>9. QED
  BY <1>2, <1>5, <1>6, <1>7, <1>8 DEF BusInv

LEMMA BlockInv ==
    ASSUME BusInv, NEW m \in Masters, NEW r \in Calls,
           master[m].pc \in {"call", "retry"}, Block(m, r)
    PROVE  BusInv'
<1>1. /\ owner # None /\ UNCHANGED <<owner, addr, data, is_read, slave>>
      /\ master' = [master EXCEPT ![m] = [pc |-> "locking", req |-> r]]
  BY DEF Block, busVars
<1>2. /\ MastersOK'
      /\ master'[m].pc = "locking"
      /\ \A n \in Masters \ {m} : master'[n] = master[n]
  BY <1>1, NewStates DEF BusInv, MastersOK
<1>3. SlaveOK'
  BY <1>1, <1>2 DEF BusInv, SlaveOK
<1>4. OneRequest'
  BY <1>1, <1>2 DEF BusInv, OneRequest
<1>5. NoLostRequest'
  BY <1>1, <1>2 DEF BusInv, NoLostRequest
<1>6. NoLostRelease'
  BY <1>1 DEF NoLostRelease
<1>7. QED
  BY <1>2, <1>3, <1>4, <1>5, <1>6 DEF BusInv

LEMMA ReturnInv ==
    ASSUME BusInv, NEW m \in Masters, Return(m)
    PROVE  BusInv'
<1>1. /\ master[m].pc = "acked" /\ owner = m /\ m # None
      /\ owner' = None /\ UNCHANGED <<addr, is_read, slave>>
      /\ master' = [Woken("locking", "retry") EXCEPT ![m] = [pc |-> "sleep"]]
  BY BusAssumption DEF Return, BusInv, OneRequest
<1>. DEFINE W == Woken("locking", "retry")
<1>2. /\ W \in [Masters -> MasterStates]
      /\ \A n \in Masters : IF master[n].pc = "locking" THEN W[n].pc = "retry" ELSE W[n] = master[n]
  BY WokenFacts DEF BusInv, MastersOK
<1>. HIDE DEF W
<1>3. /\ MastersOK'
      /\ master'[m].pc = "sleep"
      /\ \A n \in Masters \ {m} : IF master[n].pc = "locking" THEN master'[n].pc = "retry"
                                                              ELSE master'[n] = master[n]
  <2>1. [pc |-> "sleep"] \in MasterStates
    BY DEF MasterStates
  <2>2. master' = [W EXCEPT ![m] = [pc |-> "sleep"]]
    BY <1>1 DEF W
  <2>3. master' \in [Masters -> MasterStates] /\ master'[m] = [pc |-> "sleep"]
    BY <1>2, <2>1, <2>2
  <2>4. \A n \in Masters \ {m} : master'[n] = W[n]
    BY <1>2, <2>2
  <2>5. QED
    BY <1>1, <1>2, <2>3, <2>4 DEF MastersOK
<1>4. \A n \in Masters : master[n].pc \in {"acking", "acked"} => n = m
  BY <1>1 DEF BusInv, OneRequest
<1>5. \A n \in Masters : master'[n].pc \notin {"locking", "acking", "acked"}
  BY <1>3, <1>4
<1>6. SlaveOK'
  BY <1>1, <1>4, <1>5 DEF BusInv, SlaveOK
<1>7. OneRequest' /\ NoLostRequest' /\ NoLostRelease'
  BY <1>1, <1>5, BusAssumption DEF OneRequest, NoLostRequest, NoLostRelease
<1>8. QED
  BY <1>3, <1>6, <1>7 DEF BusInv

-----------------------------------------------------------------------------
LEMMA AnswerInv ==
    ASSUME BusInv, ServeWrite \/ ServeRead
    PROVE  BusInv'
<1>1. /\ slave = "ready" /\ slave' = "wait" /\ UNCHANGED owner
      /\ master' = Woken("acking", "acked")
  BY DEF ServeWrite, ServeRead, Ack, busVars
<1>2. /\ master' \in [Masters -> MasterStates]
      /\ \A n \in Masters : IF master[n].pc = "acking" THEN master'[n].pc = "acked"
                                                       ELSE master'[n] = master[n]
  BY <1>1, WokenFacts DEF BusInv, MastersOK
<1>3. \A n \in Masters : master'[n].pc # "acking"
  BY <1>2
<1>4. MastersOK' /\ SlaveOK'
  BY <1>1, <1>2 DEF BusInv, MastersOK, SlaveOK
<1>5. OneRequest'
  BY <1>1, <1>2 DEF BusInv, OneRequest
<1>6. NoLostRequest' /\ NoLostRelease'
  BY <1>1, <1>2, <1>3 DEF BusInv, NoLostRequest, NoLostRelease
<1>7. QED
  BY <1>4, <1>5, <1>6 DEF BusInv

LEMMA IgnoreInv ==
    ASSUME BusInv, Ignore
    PROVE  BusInv'
<1>1. /\ addr >= MEM_SIZE /\ slave' = "wait"
      /\ UNCHANGED <<owner, addr, is_read, master>>
  BY DEF Ignore, busVars
<1>2. MastersOK' /\ SlaveOK' /\ OneRequest' /\ NoLostRelease'
  BY <1>1 DEF BusInv, MastersOK, SlaveOK, OneRequest, NoLostRelease
<1>3. NoLostRequest'
  BY <1>1 DEF BusInv, NoLostRequest
<1>4. QED
  BY <1>2, <1>3 DEF BusInv

\* The slave's first step, the interrupts and their threads, and stuttering.
LEMMA OtherInv ==
    ASSUME BusInv,
           \/ SlaveStart \/ TimerRuns \/ UNCHANGED vars
           \/ \E i \in Irqs : HandleIrq(i)
    PROVE  BusInv'
<1>1. /\ UNCHANGED <<owner, addr, is_read, master>>
      /\ slave' = slave \/ (slave = "start" /\ slave' = "wait")
  BY DEF SlaveStart, TimerRuns, TimerStart, NotifyIrq, HandleIrq, vars, busVars
<1>2. MastersOK' /\ SlaveOK' /\ OneRequest' /\ NoLostRelease'
  BY <1>1 DEF BusInv, MastersOK, SlaveOK, OneRequest, NoLostRelease
<1>3. NoLostRequest'
  BY <1>1 DEF BusInv, SlaveOK, NoLostRequest
<1>4. QED
  BY <1>2, <1>3 DEF BusInv

LEMMA TimeInv ==
    ASSUME BusInv, TimePasses
    PROVE  BusInv'
<1>1. slave = "wait" /\ UNCHANGED <<owner, addr, is_read, slave>>
  BY DEF TimePasses, Idle, busVars
<1>2. PICK S \in SUBSET {m \in Masters : master[m].pc = "sleep"} :
        master' = [m \in Masters |-> IF m \in S THEN [pc |-> "call"] ELSE master[m]]
  BY DEF TimePasses
<1>3. /\ MastersOK'
      /\ \A m \in Masters : \/ master[m].pc = "sleep" /\ master'[m].pc = "call"
                            \/ master'[m] = master[m]
  <2>1. [pc |-> "call"] \in MasterStates
    BY DEF MasterStates
  <2>2. QED
    BY <1>1, <1>2, <2>1 DEF BusInv, MastersOK
<1>4. SlaveOK' /\ OneRequest' /\ NoLostRelease'
  BY <1>1, <1>3 DEF BusInv, SlaveOK, OneRequest, NoLostRelease
<1>5. NoLostRequest'
  BY <1>1, <1>3 DEF BusInv, NoLostRequest
<1>6. QED
  BY <1>3, <1>4, <1>5 DEF BusInv

-----------------------------------------------------------------------------
LEMMA InitBusInv == Init => BusInv
<1>. SUFFICES ASSUME Init
              PROVE  BusInv
  OBVIOUS
<1>1. /\ owner = None /\ slave = "start"
      /\ master \in [Masters -> MasterStates]
      /\ \A m \in Masters : master[m].pc = "sleep"
  BY DEF Init, MasterStates
<1>2. QED
  BY <1>1, BusAssumption DEF BusInv, MastersOK, SlaveOK, OneRequest, NoLostRequest, NoLostRelease

LEMMA NextBusInv == BusInv /\ [Next]_vars => BusInv'
<1>. SUFFICES ASSUME BusInv, [Next]_vars
              PROVE  BusInv'
  OBVIOUS
<1>1. CASE \E m \in Masters : Runs(m)
  <2>1. PICK m \in Masters : Call(m) \/ Retry(m) \/ Return(m)
    BY <1>1 DEF Runs
  <2>2. CASE Call(m)
    BY <2>2, PostInv, BlockInv DEF Call
  <2>3. CASE Retry(m)
    <3>1. master[m].pc = "retry" /\ master[m].req \in Calls
      BY <2>3, StateFacts DEF Retry, BusInv, MastersOK
    <3>2. QED
      BY <2>3, <3>1, PostInv, BlockInv DEF Retry
  <2>4. CASE Return(m)
    BY <2>4, ReturnInv
  <2>5. QED
    BY <2>1, <2>2, <2>3, <2>4
<1>2. CASE SlaveRuns
  BY <1>2, AnswerInv, IgnoreInv, OtherInv DEF SlaveRuns
<1>3. CASE TimerRuns \/ UNCHANGED vars \/ \E i \in Irqs : HandleIrq(i)
  BY <1>3, OtherInv
<1>4. CASE TimePasses
  BY <1>4, TimeInv
<1>5. QED
  BY <1>1, <1>2, <1>3, <1>4 DEF Next

(***************************************************************************)
(* Only the owner of the mutex has a request on the bus, for any number of *)
(* masters: an acknowledgement wakes nobody else.                          *)
(***************************************************************************)
THEOREM RequestsAreExclusive == Spec => []OneRequest
<1>1. BusInv => OneRequest
  BY DEF BusInv
<1>2. QED
  BY InitBusInv, NextBusInv, <1>1, PTL DEF Spec

(***************************************************************************)
(* Immediate notification is enough here: a master that waits for its      *)
(* answer has its own request in front of a ready slave, or used an        *)
(* address past the memory.                                                *)
(***************************************************************************)
THEOREM RequestsAreSeen == Spec => []NoLostRequest
<1>1. BusInv => NoLostRequest
  BY DEF BusInv
<1>2. QED
  BY InitBusInv, NextBusInv, <1>1, PTL DEF Spec

(***************************************************************************)
(* However many masters wait in mutex.lock() and whoever takes the mutex   *)
(* first after an unlock, nobody is left waiting for a free mutex.         *)
(***************************************************************************)
THEOREM ReleasesAreSeen == Spec => []NoLostRelease
<1>1. BusInv => NoLostRelease
  BY DEF BusInv
<1>2. QED
  BY InitBusInv, NextBusInv, <1>1, PTL DEF Spec

-----------------------------------------------------------------------------
(***************************************************************************)
(* The calls as the masters see them.  Why the slave serves the right one, *)
(* and why a read returns what the cell held although data is read after   *)
(* the unlock: from the post to the return nobody else can post.           *)
(***************************************************************************)
DataOK == /\ addr \in Nat /\ data \in Values
          /\ mem \in [Cells -> Values]
          /\ result \in [Masters -> Values]

\* A write on the bus has its data there.
WriteOK == \A m \in Masters :
               master[m].pc = "acking" /\ master[m].req.op = "write" => data = master[m].req.data

MemInv == BusInv /\ DataOK /\ WriteOK

MemStep == [Memory!Next]_<<mem, result, calls>>

\* The call of a master, by its pc.
LEMMA CallOf ==
    ASSUME NEW m \in Masters
    PROVE  /\ master[m].pc \in {"sleep", "call"} => calls[m] = Memory!NoCall
           /\ master[m].pc \in {"locking", "retry", "acking"} =>
                calls[m] = Memory!Made(master[m].req)
           /\ master[m].pc = "acked" => calls[m] = Memory!Done(master[m].req, data)
  BY DEF calls, Memory!NoCall, Memory!Made, Memory!Done

LEMMA CallOfNext ==
    ASSUME NEW m \in Masters
    PROVE  /\ master'[m].pc \in {"sleep", "call"} => calls'[m] = Memory!NoCall
           /\ master'[m].pc \in {"locking", "retry", "acking"} =>
                calls'[m] = Memory!Made(master'[m].req)
           /\ master'[m].pc = "acked" => calls'[m] = Memory!Done(master'[m].req, data')
  BY DEF calls, Memory!NoCall, Memory!Made, Memory!Done

\* A master whose state has not changed has the same call.
LEMMA SameCall ==
    ASSUME MastersOK, NEW m \in Masters, master'[m] = master[m],
           data' = data \/ master[m].pc # "acked"
    PROVE  calls'[m] = calls[m]
<1>1. master[m].pc \in {"sleep", "call", "locking", "retry", "acking", "acked"}
  BY StateFacts DEF MastersOK
<1>2. QED
  BY <1>1, CallOf, CallOfNext

LEMMA SameCalls ==
    ASSUME \A m \in Masters : calls'[m] = calls[m]
    PROVE  calls' = calls
<1>1. calls = [m \in Masters |-> calls[m]] /\ calls' = [m \in Masters |-> calls'[m]]
  BY DEF calls
<1>2. QED
  BY <1>1

LEMMA OneCall ==
    ASSUME NEW m \in Masters, NEW c, calls'[m] = c,
           \A n \in Masters \ {m} : calls'[n] = calls[n]
    PROVE  Memory!Sets(m, c)
<1>1. calls = [n \in Masters |-> calls[n]] /\ calls' = [n \in Masters |-> calls'[n]]
  BY DEF calls
<1>2. [calls EXCEPT ![m] = c] = [n \in Masters |-> IF n = m THEN c ELSE calls[n]]
  BY <1>1
<1>3. calls' = [n \in Masters |-> IF n = m THEN c ELSE calls[n]]
  BY <1>1
<1>4. QED
  BY <1>2, <1>3 DEF Memory!Sets

\* A call that starts is made, one that tries the mutex again has been made.
LEMMA MakeMem ==
    ASSUME MemInv, NEW m \in Masters, NEW r \in Calls,
           \/ master[m].pc = "call"
           \/ master[m].pc = "retry" /\ r = master[m].req,
           NEW to \in {"locking", "acking"},
           master' = [master EXCEPT ![m] = [pc |-> to, req |-> r]],
           data' = data \/ \A n \in Masters : master[n].pc # "acked",
           UNCHANGED <<mem, result>>
    PROVE  MemStep
<1>1. /\ master'[m].pc = to /\ master'[m].req = r
      /\ \A n \in Masters \ {m} : master'[n] = master[n]
  BY DEF MemInv, BusInv, MastersOK
<1>2. calls'[m] = Memory!Made(r)
  BY <1>1, CallOfNext
<1>3. \A n \in Masters \ {m} : calls'[n] = calls[n]
  BY <1>1, SameCall DEF MemInv, BusInv
<1>4. CASE master[m].pc = "call"
  <2>1. calls[m].stage = "none"
    BY <1>4, CallOf DEF Memory!NoCall
  <2>2. Memory!Sets(m, Memory!Made(r))
    BY <1>2, <1>3, OneCall
  <2>3. Memory!Make(m)
    BY <2>1, <2>2 DEF Memory!Make
  <2>4. QED
    BY <2>3 DEF MemStep, Memory!Next
<1>5. CASE master[m].pc = "retry" /\ r = master[m].req
  <2>1. calls[m] = Memory!Made(r)
    BY <1>5, CallOf
  <2>2. calls' = calls
    BY <1>2, <1>3, <2>1, SameCalls
  <2>3. QED
    BY <2>2 DEF MemStep
<1>6. QED
  BY <1>4, <1>5

LEMMA PostMem ==
    ASSUME MemInv, NEW m \in Masters, NEW r \in Calls, Post(m, r), UNCHANGED <<mem, result>>,
           \/ master[m].pc = "call"
           \/ master[m].pc = "retry" /\ r = master[m].req
    PROVE  DataOK' /\ WriteOK' /\ MemStep
<1>1. /\ owner = None /\ addr' = r.addr /\ data' = (IF r.op = "write" THEN r.data ELSE data)
      /\ master' = [master EXCEPT ![m] = [pc |-> "acking", req |-> r]]
  BY DEF Post
<1>2. r.addr \in Nat /\ r.data \in Values
  BY BusAssumption DEF Calls
<1>3. DataOK'
  BY <1>1, <1>2 DEF MemInv, DataOK
<1>4. \A n \in Masters : master[n].pc \notin {"acking", "acked"}
  BY <1>1, BusAssumption DEF MemInv, BusInv, OneRequest
<1>5. /\ master'[m].req = r
      /\ \A n \in Masters \ {m} : master'[n].pc # "acking"
  BY <1>1, <1>4 DEF MemInv, BusInv, MastersOK
<1>6. WriteOK'
  BY <1>1, <1>5 DEF WriteOK
<1>7. MemStep
  BY <1>1, <1>4, MakeMem
<1>8. QED
  BY <1>3, <1>6, <1>7

LEMMA BlockMem ==
    ASSUME MemInv, NEW m \in Masters, NEW r \in Calls, Block(m, r), UNCHANGED <<mem, result>>,
           \/ master[m].pc = "call"
           \/ master[m].pc = "retry" /\ r = master[m].req
    PROVE  DataOK' /\ WriteOK' /\ MemStep
<1>1. /\ UNCHANGED <<addr, data>>
      /\ master' = [master EXCEPT ![m] = [pc |-> "locking", req |-> r]]
  BY DEF Block, busVars
<1>2. \A n \in Masters : master'[n] = master[n] \/ master'[n].pc = "locking"
  BY <1>1 DEF MemInv, BusInv, MastersOK
<1>3. DataOK' /\ WriteOK'
  BY <1>1, <1>2 DEF MemInv, DataOK, WriteOK
<1>4. MemStep
  BY <1>1, MakeMem
<1>5. QED
  BY <1>3, <1>4

LEMMA ReturnMem ==
    ASSUME MemInv, NEW m \in Masters, Return(m)
    PROVE  DataOK' /\ WriteOK' /\ MemStep
<1>1. /\ master[m].pc = "acked" /\ owner = m
      /\ result' = (IF master[m].req.op = "read" THEN [result EXCEPT ![m] = data] ELSE result)
      /\ UNCHANGED <<addr, data, mem>>
      /\ master' = [Woken("locking", "retry") EXCEPT ![m] = [pc |-> "sleep"]]
  BY BusAssumption DEF Return, MemInv, BusInv, OneRequest
<1>2. DataOK'
  BY <1>1 DEF MemInv, DataOK
<1>3. /\ master'[m].pc = "sleep"
      /\ \A n \in Masters \ {m} :
            IF master[n].pc = "locking"
            THEN master'[n].pc = "retry" /\ master'[n].req = master[n].req
            ELSE master'[n] = master[n]
  <2>. DEFINE W == Woken("locking", "retry")
  <2>1. /\ W \in [Masters -> MasterStates]
        /\ \A n \in Masters : IF master[n].pc = "locking"
                              THEN W[n].pc = "retry" /\ W[n].req = master[n].req
                              ELSE W[n] = master[n]
    BY WokenFacts DEF MemInv, BusInv, MastersOK
  <2>2. master' = [W EXCEPT ![m] = [pc |-> "sleep"]]
    BY <1>1
  <2>. HIDE DEF W
  <2>3. master'[m] = [pc |-> "sleep"] /\ \A n \in Masters \ {m} : master'[n] = W[n]
    BY <2>1, <2>2
  <2>4. QED
    BY <2>1, <2>3
<1>4. \A n \in Masters : master'[n].pc # "acking"
  <2>1. \A n \in Masters \ {m} : master[n].pc # "acking"
    BY <1>1 DEF MemInv, BusInv, OneRequest
  <2>2. QED
    BY <1>3, <2>1
<1>5. MemStep
  <2>1. calls[m] = Memory!Done(master[m].req, data)
    BY <1>1, CallOf
  <2>2. calls'[m] = Memory!NoCall
    BY <1>3, CallOfNext
  <2>3. ASSUME NEW n \in Masters \ {m}
        PROVE  calls'[n] = calls[n]
    <3>1. CASE master[n].pc = "locking"
      BY <1>3, <3>1, CallOf, CallOfNext
    <3>2. CASE master[n].pc # "locking"
      BY <1>1, <1>3, <3>2, SameCall DEF MemInv, BusInv
    <3>3. QED
      BY <3>1, <3>2
  <2>4. Memory!Sets(m, Memory!NoCall)
    BY <2>2, <2>3, OneCall
  <2>5. calls[m].stage = "done" /\ calls[m].req = master[m].req /\ calls[m].answer = data
    BY <2>1 DEF Memory!Done
  <2>6. Memory!Return(m)
    BY <1>1, <2>4, <2>5 DEF Memory!Return
  <2>7. QED
    BY <2>6 DEF MemStep, Memory!Next
<1>6. QED
  BY <1>2, <1>4, <1>5 DEF WriteOK

\* The slave serves the call of the one master that waits for its answer.
LEMMA AnswerMem ==
    ASSUME MemInv, ServeWrite \/ ServeRead
    PROVE  DataOK' /\ WriteOK' /\ MemStep
<1>1. /\ slave = "ready" /\ addr < MEM_SIZE /\ UNCHANGED <<owner, addr, result>>
      /\ master' = Woken("acking", "acked")
  BY DEF ServeWrite, ServeRead, Ack, busVars
<1>2. addr \in Cells
  BY <1>1, BusAssumption DEF MemInv, DataOK, Cells
<1>3. \A n \in Masters : IF master[n].pc = "acking"
                         THEN master'[n].pc = "acked" /\ master'[n].req = master[n].req
                         ELSE master'[n] = master[n]
  BY <1>1, WokenFacts DEF MemInv, BusInv, MastersOK
<1>4. PICK p \in Masters : master[p].pc = "acking"
  BY <1>1 DEF MemInv, BusInv, SlaveOK
<1>5. \A n \in Masters \ {p} : master[n].pc \notin {"acking", "acked"}
  BY <1>4 DEF MemInv, BusInv, OneRequest
<1>6. /\ master[p].req.addr = addr /\ is_read = (master[p].req.op = "read")
      /\ master[p].req.op \in {"write", "read"}
      /\ master[p].req.op = "write" => data = master[p].req.data
  <2>1. master[p].req \in Calls
    BY <1>4, StateFacts DEF MemInv, BusInv, MastersOK
  <2>2. master[p].req.op \in {"write", "read"}
    BY <2>1 DEF Calls
  <2>3. QED
    BY <1>4, <2>2 DEF MemInv, BusInv, NoLostRequest, WriteOK
<1>7. \A n \in Masters : master'[n].pc # "acking"
  BY <1>3
<1>8. /\ calls[p] = Memory!Made(master[p].req)
      /\ calls'[p] = Memory!Done(master[p].req, data')
      /\ \A n \in Masters \ {p} : calls'[n] = calls[n]
  <2>1. calls[p] = Memory!Made(master[p].req)
    BY <1>4, CallOf
  <2>2. calls'[p] = Memory!Done(master[p].req, data')
    BY <1>3, <1>4, CallOfNext
  <2>3. \A n \in Masters \ {p} : calls'[n] = calls[n]
    BY <1>3, <1>5, SameCall DEF MemInv, BusInv
  <2>4. QED
    BY <2>1, <2>2, <2>3
<1>9. /\ Memory!Sets(p, Memory!Done(master[p].req, data'))
      /\ calls[p].stage = "made" /\ calls[p].req = master[p].req
  BY <1>8, OneCall DEF Memory!Made
<1>10. CASE ServeWrite
  <2>1. ~is_read /\ mem' = [mem EXCEPT ![addr] = data] /\ UNCHANGED <<data, result>>
    BY <1>10, Zenon DEF ServeWrite, busVars
  <2>2. DataOK'
    BY <1>1, <1>2, <2>1 DEF MemInv, DataOK
  <2>3. master[p].req.op = "write" /\ data = master[p].req.data
    BY <1>6, <2>1
  <2>4. Memory!Write(p)
    BY <1>2, <1>6, <1>9, <2>1, <2>3, Zenon DEF Memory!Write
  <2>5. QED
    BY <1>7, <2>2, <2>4 DEF MemStep, Memory!Next, WriteOK
<1>11. CASE ServeRead
  <2>1. is_read /\ data' = mem[addr] /\ UNCHANGED <<mem, result>>
    BY <1>11, Zenon DEF ServeRead
  <2>2. DataOK'
    BY <1>1, <1>2, <2>1 DEF MemInv, DataOK
  <2>3. master[p].req.op = "read"
    BY <1>6, <2>1
  <2>4. Memory!Read(p)
    BY <1>2, <1>6, <1>9, <2>1, <2>3, Zenon DEF Memory!Read
  <2>5. QED
    BY <1>7, <2>2, <2>4 DEF MemStep, Memory!Next, WriteOK
<1>12. QED
  BY <1>10, <1>11

\* The steps that touch neither the bus nor the memory nor any call.
LEMMA OtherMem ==
    ASSUME MemInv, UNCHANGED <<addr, data, mem, result>>,
           \A m \in Masters : \/ master'[m] = master[m]
                              \/ master[m].pc = "sleep" /\ master'[m].pc = "call"
    PROVE  DataOK' /\ WriteOK' /\ MemStep
<1>1. DataOK' /\ WriteOK'
  BY DEF MemInv, DataOK, WriteOK
<1>2. ASSUME NEW m \in Masters
      PROVE  calls'[m] = calls[m]
  <2>1. CASE master'[m] = master[m]
    BY <2>1, SameCall DEF MemInv, BusInv
  <2>2. CASE master[m].pc = "sleep" /\ master'[m].pc = "call"
    BY <2>2, CallOf, CallOfNext
  <2>3. QED
    BY <2>1, <2>2
<1>3. calls' = calls
  BY <1>2, SameCalls
<1>4. QED
  BY <1>1, <1>3 DEF MemStep

LEMMA NextMemInv == MemInv /\ [Next]_vars => MemInv' /\ MemStep
<1>. SUFFICES ASSUME MemInv, [Next]_vars
              PROVE  DataOK' /\ WriteOK' /\ MemStep
  BY NextBusInv DEF MemInv
<1>1. CASE \E m \in Masters : Runs(m)
  <2>1. PICK m \in Masters : Call(m) \/ Retry(m) \/ Return(m)
    BY <1>1 DEF Runs
  <2>2. CASE Call(m)
    BY <2>2, BlockMem, PostMem DEF Call
  <2>3. CASE Retry(m)
    <3>1. master[m].req \in Calls
      BY <2>3, StateFacts DEF Retry, MemInv, BusInv, MastersOK
    <3>2. QED
      BY <2>3, <3>1, BlockMem, PostMem DEF Retry
  <2>4. CASE Return(m)
    BY <2>4, ReturnMem
  <2>5. QED
    BY <2>1, <2>2, <2>3, <2>4
<1>2. CASE ServeWrite \/ ServeRead
  BY <1>2, AnswerMem
<1>3. CASE SlaveStart \/ Ignore \/ TimerRuns \/ UNCHANGED vars \/ \E i \in Irqs : HandleIrq(i)
  <2>1. UNCHANGED <<addr, data, mem, result, master>>
    BY <1>3 DEF SlaveStart, Ignore, TimerRuns, TimerStart, NotifyIrq, HandleIrq, vars, busVars
  <2>2. QED
    BY <2>1, OtherMem
<1>4. CASE TimePasses
  <2>1. UNCHANGED <<addr, data, mem, result>>
    BY <1>4 DEF TimePasses, busVars
  <2>2. \A m \in Masters : \/ master'[m] = master[m]
                           \/ master[m].pc = "sleep" /\ master'[m].pc = "call"
    BY <1>4 DEF TimePasses, MemInv, BusInv, MastersOK
  <2>3. QED
    BY <2>1, <2>2, OtherMem
<1>5. QED
  BY <1>1, <1>2, <1>3, <1>4 DEF Next, SlaveRuns

(***************************************************************************)
(* The bus implements an atomic memory: a call that returns has taken      *)
(* effect in one step, on its own cell and with its own data, and a read   *)
(* returns what the cell held in that step, for any masters, any memory    *)
(* size and any addresses; one past the memory never takes effect.         *)
(***************************************************************************)
THEOREM BusImplementsMemory == Spec => ImplementsMemory
<1>1. Init => MemInv /\ Memory!Init
  <2>1. Init => DataOK /\ WriteOK
    BY DEF Init, DataOK, WriteOK
  <2>2. Init => Memory!Init
    BY DEF Init, Memory!Init, Memory!NoCall, calls
  <2>3. QED
    BY <2>1, <2>2, InitBusInv DEF MemInv
<1>2. QED
  BY <1>1, NextMemInv, PTL DEF Spec, ImplementsMemory, Memory!Spec, MemStep
-----------------------------------------------------------------------------
\* When the interrupt thread is about to notify, both handlers are waiting:
\* time passed only once they were, and a handler that waits stays so.
IrqInv == /\ irq \in Irqs
          /\ timer = "ready" => \A i \in Irqs : isr[i] = "wait"

LEMMA NextIrqInv == IrqInv /\ [Next]_vars => IrqInv'
<1> SUFFICES ASSUME IrqInv, [Next]_vars PROVE IrqInv'
  OBVIOUS
<1>1. CASE NotifyIrq
  BY <1>1 DEF NotifyIrq, IrqInv, Irqs
<1>2. CASE TimePasses
  BY <1>2 DEF TimePasses, Idle, IrqInv
<1>3. ASSUME NEW i \in Irqs, HandleIrq(i)
      PROVE  IrqInv'
  BY <1>3 DEF HandleIrq, IrqInv
<1>4. CASE TimerStart
  BY <1>4 DEF TimerStart, IrqInv
<1>5. CASE SlaveRuns \/ (\E m \in Masters : Runs(m)) \/ UNCHANGED vars
  <2>1. UNCHANGED <<timer, isr, irq>>
    BY <1>5 DEF SlaveRuns, SlaveStart, ServeWrite, ServeRead, Ignore,
                Runs, Call, Retry, Return, vars
  <2>2. QED
    BY <2>1 DEF IrqInv
<1>6. QED
  BY <1>1, <1>2, <1>3, <1>4, <1>5 DEF Next, TimerRuns

(***************************************************************************)
(* Whatever the masters do and in whatever order the ready threads run, an *)
(* interrupt finds its handler waiting: none is lost.                      *)
(***************************************************************************)
THEOREM InterruptsAreSeen == Spec => NoLostInterrupt
<1>1. Init => IrqInv
  BY DEF Init, IrqInv, Irqs
<1>2. IrqInv /\ [Next]_vars => [irq' # irq => isr[irq] = "wait"]_vars
  <2> SUFFICES ASSUME IrqInv, Next, irq' # irq PROVE isr[irq] = "wait"
    BY DEF vars
  <2>1. NotifyIrq
    BY DEF Next, Runs, Call, Retry, Return, SlaveRuns, SlaveStart, ServeWrite, ServeRead,
           Ignore, TimerRuns, TimerStart, HandleIrq, TimePasses
  <2>2. QED
    BY <2>1 DEF NotifyIrq, IrqInv
<1>3. QED
  BY <1>1, <1>2, NextIrqInv, PTL DEF Spec, NoLostInterrupt
=============================================================================
