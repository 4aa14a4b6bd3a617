-------------------------- MODULE LinuxLabsProofs ---------------------------
(***************************************************************************)
(* The Linux labs, one after the other.  The drivers: for any processes    *)
(* and any size of the buffer, loading is all or nothing as far as the     *)
(* code looks, reads see the last writes, and the LEDs follow the buffer.  *)
(* The profiling commands: for any processes and any width of the counter, *)
(* the time printed is that from the last start to the last stop.  The     *)
(* video player: for every even width and height, every screen at least as *)
(* wide and any number of frames, each pixel is drawn in its place from    *)
(* its own bytes, and the frames follow each other in the file.            *)
(***************************************************************************)
EXTENDS CharDrivers, Perfmon, VideoFrame, TLAPS

-----------------------------------------------------------------------------
(***************************************************************************)
(* Remainders.  Of a pixel's position the remainder is the column, of the  *)
(* difference of two counter values it is the time between them.           *)
(***************************************************************************)
LEMMA NoMultipleBetween ==
    ASSUME NEW w \in Nat, NEW d \in Int, -w < w * d, w * d < w
    PROVE  d = 0
<1>1. CASE d >= 1
  <2>1. w * d = w + w * (d - 1) /\ w * (d - 1) >= 0
    BY <1>1, SMTT(30)
  <2>2. QED
    BY <2>1
<1>2. CASE d <= -1
  <2>1. w * d = -w + w * (d + 1) /\ w * (d + 1) <= 0
    BY <1>2, SMTT(30)
  <2>2. QED
    BY <2>1
<1>3. QED
  BY <1>1, <1>2

LEMMA ColumnOf ==
    ASSUME NEW q \in Int, NEW r \in Nat, NEW w \in Nat, r < w
    PROVE  (q * w + r) % w = r
<1> DEFINE a == q * w + r
<1>1. a \in Int
  BY SMTT(30)
<1>2. /\ a % w \in 0 .. w - 1 /\ a \div w \in Int
      /\ a = w * (a \div w) + (a % w)
  BY <1>1, SMTT(30)
<1> DEFINE k == a \div w
           m == a % w
<1>3. k \in Int /\ m \in Nat /\ m < w /\ a = w * k + m
  BY <1>2
<1> HIDE DEF a, k, m
<1>4. w * (k - q) = r - m
  <2>1. q * w + r = w * k + m
    BY <1>3 DEF a
  <2>2. QED
    BY <1>3, <2>1, SMTT(30)
<1>5. k - q \in Int /\ -w < w * (k - q) /\ w * (k - q) < w
  BY <1>3, <1>4
<1>6. k - q = 0
  BY <1>5, NoMultipleBetween, Zenon
<1>7. r = m
  BY <1>3, <1>4, <1>6
<1>8. QED
  BY <1>7 DEF a, m

-----------------------------------------------------------------------------
(***************************************************************************)
(* The drivers.                                                            *)
(***************************************************************************)
Phases == {"out", "map", "allocate", "live", "unregister", "unmap", "free", "stuck"}
Calls  == [op : {"none", "read", "write", "store"}, at : Nat, count : 0 .. MAX_BUFFER_SIZE,
           byte : Bytes]

DrvTypeOK == /\ built \subseteq Drivers
             /\ chrdev \in [Majors -> Drivers \cup {None}]
             /\ phase \in [Drivers -> Phases]
             /\ buffer \in [Drivers -> [Cells -> Bytes] \cup {None}]
             /\ file \in [Processes -> Drivers \cup {None, Stale}]
             /\ call \in [Processes -> Calls]
             /\ settled \in [Drivers -> [Cells -> SUBSET Bytes]]
             /\ met \in [Processes -> SUBSET Processes] /\ late \subseteq Processes

\* A system call is that of an open file, and only leds_write goes on to store.
CallsHaveFiles == /\ \A p \in Processes : call[p].op # "none" => file[p] \in Drivers
                  /\ \A p \in Processes : call[p].op = "store" => file[p] = "leds"

LEMMA Constants ==
    /\ MAX_BUFFER_SIZE \in Nat \ {0} /\ 0 \in Cells
    /\ None \notin Drivers /\ None \notin [Cells -> Bytes]
    /\ Stale \notin Drivers /\ "leds" \in Drivers
    /\ \A d \in Drivers : MAJOR[d] \in Majors
    /\ NoCall \in Calls
  BY DriversAssumption DEF Cells, Drivers, Stale, Majors, MAJOR, NoCall, Calls, Bytes

-----------------------------------------------------------------------------
LEMMA DrvTypeInit == DrvInit => DrvTypeOK
<1> SUFFICES ASSUME DrvInit PROVE DrvTypeOK
  OBVIOUS
<1>1. built \subseteq Drivers
  BY DEF DrvInit, Drivers
<1>2. phase \in [Drivers -> Phases]
  BY DEF DrvInit, Phases
<1>3. call \in [Processes -> Calls]
  BY Constants DEF DrvInit
<1>4. settled \in [Drivers -> [Cells -> SUBSET Bytes]] /\ met \in [Processes -> SUBSET Processes]
  BY DEF DrvInit
<1>5. QED
  BY <1>1, <1>2, <1>3, <1>4 DEF DrvInit, DrvTypeOK

LEMMA GoesType ==
    ASSUME DrvTypeOK, NEW d \in Drivers, NEW from, NEW to \in Phases, Goes(d, from, to)
    PROVE  phase' \in [Drivers -> Phases]
  BY DEF Goes, DrvTypeOK

\* The call of p ends.
LEMMA EndMet ==
    ASSUME DrvTypeOK, NEW p \in Processes, met' = [met EXCEPT ![p] = {}]
    PROVE  /\ met' \in [Processes -> SUBSET Processes]
           /\ \A q \in Processes \ {p} : met'[q] = met[q]
  BY DEF DrvTypeOK

LEMMA SettlesType ==
    ASSUME DrvTypeOK, NEW p \in Processes, Settles(p), file[p] \in Drivers
    PROVE  /\ settled' \in [Drivers -> [Cells -> SUBSET Bytes]]
           /\ met' \in [Processes -> SUBSET Processes]
<1>1. settled[file[p]] \in [Cells -> SUBSET Bytes] /\ {p} \cup met[p] \in SUBSET Bytes
  BY DEF DrvTypeOK, Bytes
<1>2. settled' = [settled EXCEPT ![file[p]] =
                    [i \in Cells |-> IF i < call[p].count /\ phase[file[p]] = "live"
                                     THEN {p} \cup met[p] ELSE settled[file[p]][i]]]
  BY DEF Settles
<1> DEFINE new == [i \in Cells |-> IF i < call[p].count /\ phase[file[p]] = "live"
                                   THEN {p} \cup met[p] ELSE settled[file[p]][i]]
<1>3. new \in [Cells -> SUBSET Bytes]
  BY <1>1
<1> HIDE DEF new
<1>4. settled' \in [Drivers -> [Cells -> SUBSET Bytes]]
  BY <1>2, <1>3 DEF DrvTypeOK, new
<1>5. QED
  BY <1>4, EndMet DEF Settles

LEMMA ModuleType ==
    ASSUME DrvTypeOK, Module
    PROVE  DrvTypeOK'
<1> USE Constants
<1>1. ASSUME NEW d \in built, RegisterChrdev(d) \/ MajorIsBusy(d), UNCHANGED <<built, call>>
      PROVE  DrvTypeOK'
  <2>1. d \in Drivers
    BY DEF DrvTypeOK
  <2>2. phase' \in [Drivers -> Phases]
    BY <1>1, <2>1, GoesType DEF RegisterChrdev, MajorIsBusy, Phases
  <2>3. chrdev' \in [Majors -> Drivers \cup {None}]
    BY <1>1, <2>1 DEF RegisterChrdev, MajorIsBusy, DrvTypeOK
  <2>4. QED
    BY <1>1, <2>2, <2>3 DEF RegisterChrdev, MajorIsBusy, history, DrvTypeOK
<1>2. ASSUME NEW d \in built, Allocate(d), UNCHANGED <<built, call>>
      PROVE  DrvTypeOK'
  <2> DEFINE fresh == [i \in Cells |-> IF i = 0 THEN NUL ELSE Garbage]
  <2>1. d \in Drivers /\ fresh \in [Cells -> Bytes]
    BY DEF DrvTypeOK, Bytes
  <2>2. phase' \in [Drivers -> Phases]
    BY <1>2, <2>1, GoesType DEF Allocate, Phases
  <2>3. buffer' = [buffer EXCEPT ![d] = fresh]
    BY <1>2 DEF Allocate
  <2>4. settled' = [settled EXCEPT ![d] = [i \in Cells |-> {buffer'[d][i]}]]
    BY <1>2 DEF Allocate
  <2> HIDE DEF fresh
  <2>5. buffer' \in [Drivers -> [Cells -> Bytes] \cup {None}] /\ buffer'[d] = fresh
    BY <2>1, <2>3 DEF DrvTypeOK
  <2>6. settled' \in [Drivers -> [Cells -> SUBSET Bytes]]
    <3>1. [i \in Cells |-> {buffer'[d][i]}] \in [Cells -> SUBSET Bytes]
      BY <2>1, <2>5
    <3>2. QED
      BY <2>4, <3>1 DEF DrvTypeOK
  <2>7. QED
    BY <1>2, <2>2, <2>5, <2>6 DEF Allocate, DrvTypeOK
<1>3. ASSUME NEW d \in built, AllocateFails(d) \/ UnregisterChrdev(d), UNCHANGED <<built, call>>
      PROVE  DrvTypeOK'
  <2>1. d \in Drivers
    BY DEF DrvTypeOK
  <2>2. phase' \in [Drivers -> Phases]
    BY <1>3, <2>1, GoesType DEF AllocateFails, UnregisterChrdev, Phases
  <2>3. chrdev' \in [Majors -> Drivers \cup {None}]
    BY <1>3, <2>1 DEF AllocateFails, UnregisterChrdev, DrvTypeOK
  <2>4. QED
    BY <1>3, <2>2, <2>3 DEF AllocateFails, UnregisterChrdev, history, DrvTypeOK
<1>4. ASSUME NEW d \in built, Rmmod(d), UNCHANGED <<built, call>>
      PROVE  DrvTypeOK'
  <2>1. d \in Drivers
    BY DEF DrvTypeOK
  <2>2. phase' \in [Drivers -> Phases]
    BY <1>4, <2>1, GoesType DEF Rmmod, Phases
  <2>3. settled' \in [Drivers -> [Cells -> SUBSET Bytes]]
    BY <1>4, <2>1 DEF Rmmod, DrvTypeOK
  <2>4. QED
    BY <1>4, <2>2, <2>3 DEF Rmmod, DrvTypeOK
<1>5. ASSUME MapRegisters \/ MapFaults \/ UnmapRegisters, UNCHANGED <<built, call>>
      PROVE  DrvTypeOK'
  <2>1. phase' \in [Drivers -> Phases]
    BY <1>5, GoesType DEF MapRegisters, MapFaults, UnmapRegisters, Phases
  <2>2. QED
    BY <1>5, <2>1 DEF MapRegisters, MapFaults, UnmapRegisters, history, DrvTypeOK
<1>6. ASSUME NEW d \in built, Free(d), UNCHANGED built
      PROVE  DrvTypeOK'
  <2>1. d \in Drivers
    BY DEF DrvTypeOK
  <2>2. phase' \in [Drivers -> Phases]
    BY <1>6, <2>1, GoesType DEF Free, Phases
  <2>3. /\ buffer' \in [Drivers -> [Cells -> Bytes] \cup {None}]
        /\ file' \in [Processes -> Drivers \cup {None, Stale}]
        /\ call' \in [Processes -> Calls]
        /\ met' \in [Processes -> SUBSET Processes]
    BY <1>6, <2>1 DEF Free, DrvTypeOK
  <2>4. QED
    BY <1>6, <2>2, <2>3 DEF Free, DrvTypeOK
<1>7. QED
  BY <1>1, <1>2, <1>3, <1>4, <1>5, <1>6 DEF Module

LEMMA CallType ==
    ASSUME DrvTypeOK, NEW p \in Processes
    PROVE  /\ call[p].op \in {"none", "read", "write", "store"}
           /\ call[p].at \in Nat /\ call[p].count \in 0 .. MAX_BUFFER_SIZE
           /\ call[p].byte \in Bytes
  BY DEF DrvTypeOK, Calls

\* What the steps of the processes do to the calls
LEMMA BeginCall ==
    ASSUME DrvTypeOK, NEW p \in Processes, NEW op \in {"read", "write"},
           NEW count \in 0 .. MAX_BUFFER_SIZE, Begin(p, op, count)
    PROVE  /\ call' = [call EXCEPT ![p] = [op |-> op, at |-> 0, count |-> count, byte |-> NUL]]
           /\ call' \in [Processes -> Calls]
           /\ call'[p].op = op /\ call'[p].at = 0 /\ call'[p].count = count
           /\ met' \in [Processes -> SUBSET Processes]
           /\ \A r \in Peers(p) : Writing(r) => r \in met'[p]
           /\ op = "write" => \A q \in Peers(p) : p \in met'[q]
           /\ \A q \in Processes \ {p} : met[q] \subseteq met'[q]
<1>2. call' = [call EXCEPT ![p] = [op |-> op, at |-> 0, count |-> count, byte |-> NUL]]
  BY DEF Begin
<1>3. [op |-> op, at |-> 0, count |-> count, byte |-> NUL] \in Calls
  BY DEF Calls, Bytes
<1>4. call' \in [Processes -> Calls]
  BY <1>2, <1>3 DEF DrvTypeOK
<1>5. call'[p] = [op |-> op, at |-> 0, count |-> count, byte |-> NUL]
  BY <1>2 DEF DrvTypeOK
<1>6. met' = [q \in Processes |->
                IF q = p THEN {r \in Peers(p) : Writing(r)}
                ELSE met[q] \cup {r \in {p} : q \in Peers(r) /\ op = "write"}]
  BY Zenon DEF Begin
<1>7. Peers(p) \subseteq Processes \ {p}
  BY DEF Peers
<1>8. QED
  BY <1>2, <1>4, <1>5, <1>6, <1>7 DEF DrvTypeOK

\* One of the four operations that begin a call.
Begins(p) == \E op \in {"read", "write"}, count \in 0 .. MAX_BUFFER_SIZE : Begin(p, op, count)

LEMMA Beginning ==
    ASSUME NEW p \in Processes,
           \/ Read(p) \/ IoctlSetMsg(p) \/ IoctlGetMsg(p)
           \/ \E count \in 0 .. MAX_BUFFER_SIZE : Write(p, count)
    PROVE  Begins(p)
<1>1. MAX_BUFFER_SIZE \in 0 .. MAX_BUFFER_SIZE
  BY Constants
<1>2. QED
  BY <1>1, Zenon DEF Begins, Read, IoctlSetMsg, IoctlGetMsg, Write

LEMMA CopyCall ==
    ASSUME DrvTypeOK, NEW p \in Processes, CopyFromUser(p) \/ CopyToUser(p)
    PROVE  /\ call' \in [Processes -> Calls]
           /\ \A q \in Processes \ {p} : call'[q] = call[q]
           /\ call'[p].op = call[p].op /\ call'[p].at = call[p].at + 1
           /\ call'[p].count = call[p].count
           /\ call[p].at \in Cells /\ call[p].at < call[p].count
<1>1. call' = [call EXCEPT ![p].at = call[p].at + 1]
  BY DEF CopyFromUser, CopyToUser
<1>2. call[p] \in Calls
  BY DEF DrvTypeOK
<1>3. call[p].at \in Nat /\ call[p].at + 1 \in Nat /\ call[p].count \in 0 .. MAX_BUFFER_SIZE
  BY CallType
<1>4. [call[p] EXCEPT !.at = call[p].at + 1] \in Calls
  BY <1>2, <1>3 DEF Calls
<1>5. call' = [call EXCEPT ![p] = [call[p] EXCEPT !.at = call[p].at + 1]]
  BY <1>1
<1>6. call'[p] = [call[p] EXCEPT !.at = call[p].at + 1]
  BY <1>5 DEF DrvTypeOK
<1>7. call' \in [Processes -> Calls] /\ \A q \in Processes \ {p} : call'[q] = call[q]
  BY <1>4, <1>5 DEF DrvTypeOK
<1>8. /\ call'[p].op = call[p].op /\ call'[p].at = call[p].at + 1
      /\ call'[p].count = call[p].count
  BY <1>2, <1>6 DEF Calls
<1>9. call[p].at < call[p].count
  BY DEF CopyFromUser, CopyToUser, Copying
<1>10. call[p].at \in Cells
  BY <1>3, <1>9, Constants DEF Cells
<1>11. QED
  BY <1>7, <1>8, <1>9, <1>10

LEMMA CopyBuffer ==
    ASSUME DrvTypeOK, NEW p \in Processes, CopyFromUser(p)
    PROVE  /\ file[p] \in Drivers /\ buffer[file[p]] \in [Cells -> Bytes]
           /\ buffer' \in [Drivers -> [Cells -> Bytes] \cup {None}]
           /\ \A d \in Drivers : d # file[p] => buffer'[d] = buffer[d]
           /\ buffer'[file[p]] \in [Cells -> Bytes]
           /\ \A i \in Cells : buffer'[file[p]][i] = IF i = call[p].at THEN p ELSE buffer[file[p]][i]
<1> DEFINE d == file[p]
           i == call[p].at
           new == [buffer[d] EXCEPT ![i] = p]
<1>1. d \in Drivers /\ buffer[d] # None
  BY DEF CopyFromUser, InCall
<1>2. buffer[d] \in [Cells -> Bytes]
  BY <1>1 DEF DrvTypeOK
<1>3. i \in Cells
  BY CopyCall
<1>4. buffer' = [buffer EXCEPT ![d] = new]
  BY DEF CopyFromUser
<1>5. new \in [Cells -> Bytes]
  BY <1>2, <1>3 DEF Bytes
<1>6. \A j \in Cells : new[j] = IF j = i THEN p ELSE buffer[d][j]
  BY <1>2, <1>3
<1> HIDE DEF d, i, new
<1>7. buffer' \in [Drivers -> [Cells -> Bytes] \cup {None}]
  BY <1>4, <1>5 DEF DrvTypeOK
<1>8. buffer'[d] = new
  BY <1>1, <1>4 DEF DrvTypeOK
<1>9. \A e \in Drivers : e # d => buffer'[e] = buffer[e]
  BY <1>1, <1>4 DEF DrvTypeOK
<1>10. QED
  BY <1>1, <1>2, <1>5, <1>6, <1>7, <1>8, <1>9 DEF d, i

\* The end of a call: p is idle or, in leds, about to store the byte.
LEMMA EndCall ==
    ASSUME DrvTypeOK, NEW p \in Processes, call' = [call EXCEPT ![p] = NoCall]
    PROVE  /\ call' \in [Processes -> Calls]
           /\ \A q \in Processes \ {p} : call'[q] = call[q]
           /\ call'[p].op = "none" /\ call'[p].at = 0
<1>1. call'[p] = NoCall
  BY DEF DrvTypeOK
<1>2. QED
  BY <1>1, Constants DEF DrvTypeOK, NoCall

LEMMA LoadCall ==
    ASSUME DrvTypeOK, NEW p \in Processes, LoadLed(p)
    PROVE  /\ call' \in [Processes -> Calls]
           /\ \A q \in Processes \ {p} : call'[q] = call[q]
           /\ call'[p].op = "store" /\ call'[p].at = 0
           /\ call'[p].byte = buffer["leds"][0] /\ buffer["leds"][0] \in Bytes
<1> DEFINE b == buffer["leds"][0]
           c == [op |-> "store", at |-> 0, count |-> 0, byte |-> b]
<1>2. call' = [call EXCEPT ![p] = c]
  BY DEF LoadLed
<1>3. b \in Bytes
  BY Constants DEF LoadLed, DrvTypeOK
<1> HIDE DEF b
<1>4. c \in Calls
  BY <1>3, Constants DEF Calls
<1>5. call'[p] = c
  BY <1>2 DEF DrvTypeOK
<1>6. QED
  BY <1>2, <1>3, <1>4, <1>5 DEF DrvTypeOK, b

LEMMA ProcessType ==
    ASSUME DrvTypeOK, CallsHaveFiles, NEW p \in Processes, Process(p)
    PROVE  DrvTypeOK'
<1>0. UNCHANGED <<built, chrdev, phase>> /\ DrvTypeOK
  BY DEF Process
<1>1. ASSUME NEW m \in Majors, Open(p, m)
      PROVE  DrvTypeOK'
  <2>1. chrdev[m] \in Drivers
    BY <1>1 DEF Open, DrvTypeOK
  <2>2. file' \in [Processes -> Drivers \cup {None, Stale}]
    BY <1>1, <2>1 DEF Open, DrvTypeOK
  <2>3. QED
    BY <1>0, <1>1, <2>2 DEF Open, history, DrvTypeOK
<1>2. CASE Release(p)
  <2>1. file' \in [Processes -> Drivers \cup {None, Stale}]
    BY <1>2 DEF Release, DrvTypeOK
  <2>2. QED
    BY <1>0, <1>2, <2>1 DEF Release, history, DrvTypeOK
<1>3. CASE Begins(p)
  <2>1. PICK op \in {"read", "write"}, count \in 0 .. MAX_BUFFER_SIZE : Begin(p, op, count)
    BY <1>3 DEF Begins
  <2>2. call' \in [Processes -> Calls] /\ met' \in [Processes -> SUBSET Processes]
    BY <2>1, BeginCall
  <2>3. UNCHANGED <<buffer, file, settled, late>>
    BY <2>1 DEF Begin
  <2>4. QED
    BY <1>0, <2>2, <2>3 DEF DrvTypeOK
<1>4. CASE CopyFromUser(p)
  <2>1. UNCHANGED <<file, settled, met, late>>
    BY <1>4 DEF CopyFromUser, history
  <2>2. QED
    BY <1>0, <1>4, <2>1, CopyCall, CopyBuffer DEF DrvTypeOK
<1>5. CASE CopyToUser(p)
  <2>1. UNCHANGED <<buffer, file, settled, met, late>>
    BY <1>5 DEF CopyToUser, history
  <2>2. QED
    BY <1>0, <1>5, <2>1, CopyCall DEF DrvTypeOK
<1>6. CASE ReadReturns(p)
  <2>1. UNCHANGED <<buffer, file, settled, late>> /\ met' \in [Processes -> SUBSET Processes]
    BY <1>6, EndMet DEF ReadReturns
  <2>2. call' \in [Processes -> Calls]
    BY <1>6, EndCall DEF ReadReturns
  <2>3. QED
    BY <1>0, <2>1, <2>2 DEF DrvTypeOK
<1>7. CASE WriteReturns(p) \/ LoadLed(p)
  <2>1. UNCHANGED <<buffer, file, late>>
    BY <1>7 DEF WriteReturns, LoadLed
  <2>2. call' \in [Processes -> Calls]
    BY <1>7, EndCall, LoadCall DEF WriteReturns
  <2>3. Settles(p) /\ file[p] \in Drivers
    BY <1>7 DEF WriteReturns, LoadLed, InCall
  <2>4. QED
    BY <1>0, <2>1, <2>2, <2>3, SettlesType DEF DrvTypeOK
<1>8. CASE StoreLed(p)
  <2>1. UNCHANGED <<buffer, file, settled, met>> /\ late' \subseteq Processes
    BY <1>8 DEF StoreLed
  <2>2. call' \in [Processes -> Calls]
    BY <1>8, EndCall DEF StoreLed
  <2>3. QED
    BY <1>0, <2>1, <2>2 DEF DrvTypeOK
<1>9. CASE Killed(p)
  <2>1. UNCHANGED <<buffer, settled>> /\ late' \subseteq Processes
    BY <1>9 DEF Killed, DrvTypeOK
  <2>2. call' \in [Processes -> Calls] /\ met' \in [Processes -> SUBSET Processes]
    BY <1>9, EndCall, EndMet DEF Killed
  <2>3. file' \in [Processes -> Drivers \cup {None, Stale}]
    BY <1>9 DEF Killed, DrvTypeOK
  <2>4. QED
    BY <1>0, <2>1, <2>2, <2>3 DEF DrvTypeOK
<1>10. QED
  BY <1>1, <1>2, <1>3, <1>4, <1>5, <1>6, <1>7, <1>8, <1>9, Beginning DEF Process

LEMMA CallsHaveFilesStep ==
    ASSUME DrvTypeOK, CallsHaveFiles, [DrvNext]_drvVars
    PROVE  CallsHaveFiles'
<1>1. CASE Module /\ ~\E d \in built : Free(d)
  <2>1. UNCHANGED <<file, call>>
    BY <1>1 DEF Module, RegisterChrdev, MajorIsBusy, Allocate, AllocateFails, Rmmod,
                UnregisterChrdev, MapRegisters, MapFaults, UnmapRegisters
  <2>2. QED
    BY <2>1 DEF CallsHaveFiles
<1>2. ASSUME NEW d \in built, Free(d)
      PROVE  CallsHaveFiles'
  BY <1>2 DEF Free, CallsHaveFiles, NoCall
<1>3. ASSUME NEW p \in Processes, Process(p)
      PROVE  CallsHaveFiles'
  <2>1. CASE \E m \in Majors : Open(p, m)
    <3>1. call' = call /\ \A q \in Processes \ {p} : file'[q] = file[q]
      BY <2>1 DEF Open, DrvTypeOK
    <3>2. file[p] = None
      BY <2>1 DEF Open
    <3>3. QED
      BY <3>1, <3>2, Constants DEF CallsHaveFiles
  <2>2. CASE Release(p)
    <3>1. call' = call /\ \A q \in Processes \ {p} : file'[q] = file[q]
      BY <2>2 DEF Release, DrvTypeOK
    <3>2. QED
      BY <2>2, <3>1 DEF Release, CallsHaveFiles
  <2>3. CASE Begins(p)
    <3>1. file' = file /\ file[p] \in Drivers /\ \A q \in Processes \ {p} : call'[q] = call[q]
      BY <2>3 DEF Begins, Begin, DrvTypeOK
    <3>2. call'[p].op # "store"
      BY <2>3, BeginCall DEF Begins
    <3>3. QED
      BY <3>1, <3>2 DEF CallsHaveFiles
  <2>4. CASE CopyFromUser(p) \/ CopyToUser(p)
    <3>1. file' = file /\ \A q \in Processes : call'[q].op = call[q].op
      BY <2>4, CopyCall DEF CopyFromUser, CopyToUser
    <3>2. QED
      BY <3>1 DEF CallsHaveFiles
  <2>5. CASE ReadReturns(p) \/ WriteReturns(p) \/ LoadLed(p) \/ StoreLed(p)
    <3>1. file' = file /\ file[p] \in Drivers /\ \A q \in Processes \ {p} : call'[q] = call[q]
      BY <2>5, EndCall, LoadCall DEF ReadReturns, WriteReturns, LoadLed, StoreLed, InCall
    <3>2. call'[p].op = "store" => file[p] = "leds"
      BY <2>5, EndCall DEF ReadReturns, WriteReturns, LoadLed, StoreLed
    <3>3. QED
      BY <3>1, <3>2 DEF CallsHaveFiles
  <2>6. CASE Killed(p)
    <3>1. /\ call'[p].op = "none"
          /\ \A q \in Processes \ {p} : call'[q] = call[q] /\ file'[q] = file[q]
      BY <2>6, EndCall DEF Killed, DrvTypeOK
    <3>2. QED
      BY <3>1 DEF CallsHaveFiles
  <2>7. QED
    BY <1>3, <2>1, <2>2, <2>3, <2>4, <2>5, <2>6, Beginning DEF Process
<1>4. CASE UNCHANGED drvVars
  BY <1>4 DEF drvVars, CallsHaveFiles
<1>5. QED
  BY <1>1, <1>2, <1>3, <1>4 DEF DrvNext, Module

LEMMA DrvTypeInductive == DrvSpec => [](DrvTypeOK /\ CallsHaveFiles)
<1>1. DrvInit => DrvTypeOK /\ CallsHaveFiles
  BY DrvTypeInit DEF DrvInit, CallsHaveFiles, NoCall
<1>2. DrvTypeOK /\ CallsHaveFiles /\ [DrvNext]_drvVars => (DrvTypeOK /\ CallsHaveFiles)'
  <2>1. ASSUME DrvTypeOK, UNCHANGED drvVars PROVE DrvTypeOK'
    BY <2>1 DEF drvVars, history, DrvTypeOK
  <2>2. QED
    BY <2>1, CallsHaveFilesStep, ModuleType, ProcessType DEF DrvNext
<1>3. QED
  BY <1>1, <1>2, PTL DEF DrvSpec

-----------------------------------------------------------------------------
(***************************************************************************)
(* What module_init and module_exit leave step by step: a driver holds its *)
(* major number from register_chrdev to unregister_chrdev, which is why    *)
(* neither of two drivers of one number can give back the other's.         *)
(***************************************************************************)
Registered == {"map", "stuck", "allocate", "live", "unregister"}

LoadInv ==
    /\ \A d \in Drivers :
          /\ chrdev[MAJOR[d]] = d <=> phase[d] \in Registered
          /\ phase[d] \in {"out", "map", "allocate", "stuck"} => buffer[d] = None
          /\ phase[d] = "live" => buffer[d] # None
    /\ phase["leds"] \in {"out", "map", "free"} => registers = "unmapped"
    /\ \A d \in Drivers \ {"leds"} : phase[d] \notin {"map", "stuck", "unmap"}

LEMMA LoadIsWhole == LoadInv => DriverIsWhole
  BY Zenon DEF LoadInv, Registered, DriverIsWhole

\* One driver goes on, the others stay.
LEMMA GoesOn ==
    ASSUME DrvTypeOK, NEW d \in Drivers, NEW from, NEW to, Goes(d, from, to)
    PROVE  phase[d] = from /\ phase'[d] = to /\ \A e \in Drivers \ {d} : phase'[e] = phase[e]
  BY DEF Goes, DrvTypeOK

LEMMA LoadModule ==
    ASSUME DrvTypeOK, LoadInv, Module
    PROVE  LoadInv'
<1> USE Constants
<1>0. built \subseteq Drivers
  BY DEF DrvTypeOK
<1>1. ASSUME NEW d \in built, RegisterChrdev(d)
      PROVE  LoadInv'
  <2>1. /\ phase[d] = "out" /\ phase'[d] = (IF d = "leds" THEN "map" ELSE "allocate")
        /\ \A e \in Drivers \ {d} : phase'[e] = phase[e]
    BY <1>0, <1>1, GoesOn DEF RegisterChrdev
  <2>2. /\ chrdev[MAJOR[d]] = None /\ chrdev'[MAJOR[d]] = d
        /\ \A m \in Majors \ {MAJOR[d]} : chrdev'[m] = chrdev[m]
    BY <1>0, <1>1 DEF RegisterChrdev, DrvTypeOK
  <2>3. UNCHANGED <<buffer, registers>>
    BY <1>1 DEF RegisterChrdev
  <2>4. \A e \in Drivers : chrdev'[MAJOR[e]] = e <=> phase'[e] \in Registered
    BY <1>0, <2>1, <2>2 DEF LoadInv, Registered
  <2>5. QED
    BY <1>0, <2>1, <2>3, <2>4 DEF LoadInv, Registered
<1>2. ASSUME NEW d \in built, MajorIsBusy(d)
      PROVE  LoadInv'
  BY <1>0, <1>2, GoesOn DEF MajorIsBusy, LoadInv
<1>3. CASE MapRegisters \/ MapFaults \/ UnmapRegisters
  <2>1. UNCHANGED <<chrdev, buffer>> /\ \A e \in Drivers \ {"leds"} : phase'[e] = phase[e]
    BY <1>3, GoesOn DEF MapRegisters, MapFaults, UnmapRegisters
  <2>2. CASE MapRegisters \/ MapFaults
    <3>1. phase["leds"] = "map" /\ phase'["leds"] \in {"allocate", "stuck"}
      BY <2>2, GoesOn DEF MapRegisters, MapFaults
    <3>2. QED
      BY <2>1, <3>1 DEF LoadInv, Registered
  <2>3. CASE UnmapRegisters
    <3>1. phase["leds"] = "unmap" /\ phase'["leds"] = "free" /\ registers' = "unmapped"
      BY <2>3, GoesOn DEF UnmapRegisters
    <3>2. QED
      BY <2>1, <3>1 DEF LoadInv, Registered
  <2>4. QED
    BY <1>3, <2>2, <2>3
<1>4. ASSUME NEW d \in built, Allocate(d)
      PROVE  LoadInv'
  <2>1. /\ phase[d] = "allocate" /\ phase'[d] = "live"
        /\ \A e \in Drivers \ {d} : phase'[e] = phase[e]
    BY <1>0, <1>4, GoesOn DEF Allocate
  <2>2. buffer'[d] # None /\ \A e \in Drivers \ {d} : buffer'[e] = buffer[e]
    <3>1. [i \in Cells |-> IF i = 0 THEN NUL ELSE Garbage] \in [Cells -> Bytes]
      BY DEF Bytes
    <3>2. QED
      BY <1>0, <1>4, <3>1 DEF Allocate, DrvTypeOK
  <2>3. UNCHANGED <<chrdev, registers>>
    BY <1>4 DEF Allocate
  <2>4. QED
    BY <1>0, <2>1, <2>2, <2>3 DEF LoadInv, Registered
<1>5. ASSUME NEW d \in built, AllocateFails(d) \/ Rmmod(d)
      PROVE  LoadInv'
  <2>1. /\ phase[d] \in {"allocate", "live"} /\ phase'[d] = "unregister"
        /\ \A e \in Drivers \ {d} : phase'[e] = phase[e]
    BY <1>0, <1>5, GoesOn DEF AllocateFails, Rmmod
  <2>2. UNCHANGED <<chrdev, registers, buffer>>
    BY <1>5 DEF AllocateFails, Rmmod
  <2>3. QED
    BY <1>0, <2>1, <2>2 DEF LoadInv, Registered
<1>6. ASSUME NEW d \in built, UnregisterChrdev(d)
      PROVE  LoadInv'
  <2>1. /\ phase[d] = "unregister" /\ phase'[d] = (IF d = "leds" THEN "unmap" ELSE "free")
        /\ \A e \in Drivers \ {d} : phase'[e] = phase[e]
    BY <1>0, <1>6, GoesOn DEF UnregisterChrdev
  <2>2. /\ chrdev[MAJOR[d]] = d /\ chrdev'[MAJOR[d]] = None
        /\ \A m \in Majors \ {MAJOR[d]} : chrdev'[m] = chrdev[m]
    BY <1>0, <1>6, <2>1 DEF UnregisterChrdev, DrvTypeOK, LoadInv, Registered
  <2>3. UNCHANGED <<buffer, registers>>
    BY <1>6 DEF UnregisterChrdev
  <2>4. \A e \in Drivers : chrdev'[MAJOR[e]] = e <=> phase'[e] \in Registered
    BY <1>0, <2>1, <2>2 DEF LoadInv, Registered
  <2>5. QED
    BY <1>0, <2>1, <2>3, <2>4 DEF LoadInv, Registered
<1>7. ASSUME NEW d \in built, Free(d)
      PROVE  LoadInv'
  <2>1. /\ phase[d] = "free" /\ phase'[d] = "out"
        /\ \A e \in Drivers \ {d} : phase'[e] = phase[e]
    BY <1>0, <1>7, GoesOn DEF Free
  <2>2. buffer'[d] = None /\ \A e \in Drivers \ {d} : buffer'[e] = buffer[e]
    BY <1>0, <1>7 DEF Free, DrvTypeOK
  <2>3. UNCHANGED <<chrdev, registers>>
    BY <1>7 DEF Free
  <2>4. QED
    BY <1>0, <2>1, <2>2, <2>3 DEF LoadInv, Registered
<1>8. QED
  BY <1>1, <1>2, <1>3, <1>4, <1>5, <1>6, <1>7 DEF Module

\* A process changes buffers, but makes and frees none.
LEMMA LoadProcess ==
    ASSUME DrvTypeOK, LoadInv, NEW p \in Processes, Process(p)
    PROVE  LoadInv'
<1>1. UNCHANGED <<chrdev, phase, registers>>
  BY DEF Process
<1>2. \A d \in Drivers : buffer'[d] = None <=> buffer[d] = None
  <2>1. CASE CopyFromUser(p)
    BY <2>1, CopyBuffer, Constants
  <2>2. CASE ~CopyFromUser(p)
    <3>1. UNCHANGED buffer
      BY <2>2 DEF Process, Open, Release, Read, Write, IoctlSetMsg, IoctlGetMsg, Begin,
             CopyToUser, ReadReturns, WriteReturns, LoadLed, StoreLed, Killed
    <3>2. QED
      BY <3>1
  <2>3. QED
    BY <2>1, <2>2
<1>3. QED
  BY <1>1, <1>2 DEF LoadInv, Registered

LEMMA LoadInductive == DrvSpec => []LoadInv
<1>1. DrvInit => LoadInv
  BY Constants DEF DrvInit, LoadInv, Registered
<1>2. DrvTypeOK /\ LoadInv /\ [DrvNext]_drvVars => LoadInv'
  <2>1. ASSUME LoadInv, UNCHANGED drvVars PROVE LoadInv'
    BY <2>1 DEF drvVars, LoadInv
  <2>2. QED
    BY <2>1, LoadModule, LoadProcess DEF DrvNext
<1>3. QED
  BY <1>1, <1>2, DrvTypeInductive, PTL DEF DrvSpec

(***************************************************************************)
(* For any processes and any buffer: a driver that is loaded is registered *)
(* and has its buffer, one that is not has left nothing, through a busy    *)
(* major number, a failed kmalloc and failed mappings (module_init and     *)
(* module_exit of the three drivers).                                      *)
(***************************************************************************)
THEOREM DriversAreWhole == DrvSpec => []DriverIsWhole
  BY LoadInductive, LoadIsWhole, PTL

-----------------------------------------------------------------------------
Uses(p, d) == p \in Processes /\ file[p] = d
Covers(p, d, i) == Uses(p, d) /\ Writing(p) /\ i < call[p].at

(***************************************************************************)
(* The buffer and its history.  A byte of a loaded driver is what the      *)
(* settled writes left, or a write that is under way has put it there; two *)
(* calls of which one writes have met; and what a write has passed over is *)
(* its own or of a write it has met.                                       *)
(***************************************************************************)
NoBufferNoCopy ==
    \A d \in Drivers, p \in Processes :
       buffer[d] = None /\ file[p] = d => call[p].at = 0 /\ call[p].op # "store"

IdleAtStart == \A p \in Processes : call[p].op = "none" => call[p].at = 0

CopiesInRange == \A p \in Processes : Writing(p) => call[p].at <= call[p].count

Copies(p) == call[p].op \in {"read", "write"}

CallsHaveMet ==
    \A p \in Processes : Copies(p) =>
       \A q \in Processes \ {p} : file[q] = file[p] /\ Writing(q) => q \in met[p]

WritesAreMet ==
    \A p \in Processes : Writing(p) =>
       \A i \in Cells : i < call[p].at => buffer[file[p]][i] \in {p} \cup met[p]

SettledIsThere ==
    \A d \in Drivers, i \in Cells : phase[d] = "live" =>
       \/ buffer[d][i] \in settled[d][i]
       \/ \E q \in Processes : Covers(q, d, i) /\ buffer[d][i] = q

CopyInv == /\ NoBufferNoCopy /\ IdleAtStart /\ CopiesInRange
           /\ CallsHaveMet /\ WritesAreMet /\ SettledIsThere

LEMMA ReadsAreCovered ==
    ASSUME DrvTypeOK, CopyInv
    PROVE  ReadsLastWrites
<1> SUFFICES ASSUME NEW p \in Processes, InCall(p, "read"), Copying(p), phase[file[p]] = "live"
             PROVE  buffer[file[p]][call[p].at] \in settled[file[p]][call[p].at] \cup met[p]
  BY DEF ReadsLastWrites
<1>1. file[p] \in Drivers /\ call[p].op = "read"
  BY DEF InCall
<1>2. call[p].at \in Cells
  BY CallType, Constants DEF Copying, Cells
<1>3. \A q \in Processes : Covers(q, file[p], call[p].at) => q \in met[p]
  BY <1>1 DEF CopyInv, CallsHaveMet, Copies, Covers, Uses, Writing
<1>4. QED
  BY <1>1, <1>2, <1>3 DEF CopyInv, SettledIsThere

\* Steps that leave buffer, calls, files and their history alone.
LEMMA CopyInvStutters ==
    ASSUME CopyInv, UNCHANGED <<buffer, call, file, settled, met>>,
           \A d \in Drivers : phase'[d] = "live" <=> phase[d] = "live"
    PROVE  CopyInv'
<1>1. NoBufferNoCopy' /\ IdleAtStart' /\ CopiesInRange'
  BY Zenon DEF CopyInv, NoBufferNoCopy, IdleAtStart, CopiesInRange, Writing
<1>2. CallsHaveMet' /\ WritesAreMet'
  BY Zenon DEF CopyInv, CallsHaveMet, WritesAreMet, Copies, Writing
<1>3. SettledIsThere'
  <2> SUFFICES ASSUME NEW d \in Drivers, NEW i \in Cells, phase'[d] = "live"
               PROVE  \/ buffer[d][i] \in settled[d][i]
                      \/ \E q \in Processes : Covers(q, d, i)' /\ buffer[d][i] = q
    BY DEF SettledIsThere
  <2>1. \A q \in Processes : Covers(q, d, i) => Covers(q, d, i)'
    BY DEF Covers, Uses, Writing
  <2>2. QED
    BY <2>1 DEF CopyInv, SettledIsThere
<1>4. QED
  BY <1>1, <1>2, <1>3 DEF CopyInv

LEMMA CopyModule ==
    ASSUME DrvTypeOK, CallsHaveFiles, LoadInv, CopyInv, Module
    PROVE  CopyInv'
<1> USE Constants
<1>0. built \subseteq Drivers
  BY DEF DrvTypeOK
<1>1. ASSUME NEW d \in built, \/ RegisterChrdev(d) \/ MajorIsBusy(d)
                              \/ AllocateFails(d) \/ UnregisterChrdev(d),
             UNCHANGED call
      PROVE  CopyInv'
  <2>1. UNCHANGED <<buffer, file, settled, met>>
    BY <1>1 DEF RegisterChrdev, MajorIsBusy, AllocateFails, UnregisterChrdev, history
  <2>2. \A e \in Drivers : phase'[e] = "live" <=> phase[e] = "live"
    <3>1. PICK from \in {"out", "allocate", "unregister"},
               to \in {"map", "allocate", "out", "unregister", "unmap", "free"} : Goes(d, from, to)
      BY <1>1 DEF RegisterChrdev, MajorIsBusy, AllocateFails, UnregisterChrdev
    <3>2. QED
      BY <1>0, <3>1, GoesOn
  <2>3. QED
    BY <1>1, <2>1, <2>2, CopyInvStutters
<1>2. ASSUME MapRegisters \/ MapFaults \/ UnmapRegisters, UNCHANGED call
      PROVE  CopyInv'
  <2>1. UNCHANGED <<buffer, file, settled, met>>
    BY <1>2 DEF MapRegisters, MapFaults, UnmapRegisters, history
  <2>2. \A e \in Drivers : phase'[e] = "live" <=> phase[e] = "live"
    BY <1>2, GoesOn DEF MapRegisters, MapFaults, UnmapRegisters
  <2>3. QED
    BY <1>2, <2>1, <2>2, CopyInvStutters
<1>3. ASSUME NEW d \in built, Allocate(d), UNCHANGED call
      PROVE  CopyInv'
  <2>1. /\ phase[d] = "allocate" /\ phase'[d] = "live"
        /\ \A e \in Drivers \ {d} : phase'[e] = phase[e]
    BY <1>0, <1>3, GoesOn DEF Allocate
  <2>2. buffer[d] = None
    BY <1>0, <2>1 DEF LoadInv
  <2>3. /\ buffer'[d] # None /\ \A e \in Drivers \ {d} : buffer'[e] = buffer[e]
        /\ \A i \in Cells : settled'[d][i] = {buffer'[d][i]}
        /\ \A e \in Drivers \ {d} : settled'[e] = settled[e]
    <3>1. [i \in Cells |-> IF i = 0 THEN NUL ELSE Garbage] \in [Cells -> Bytes]
      BY DEF Bytes
    <3>2. buffer'[d] # None /\ \A e \in Drivers \ {d} : buffer'[e] = buffer[e]
      BY <1>0, <1>3, <3>1 DEF Allocate, DrvTypeOK
    <3>3. /\ settled'[d] = [i \in Cells |-> {buffer'[d][i]}]
          /\ \A e \in Drivers \ {d} : settled'[e] = settled[e]
      BY <1>0, <1>3 DEF Allocate, DrvTypeOK
    <3>4. QED
      BY <3>2, <3>3
  <2>4. UNCHANGED <<call, file, met>>
    BY <1>3 DEF Allocate
  <2>5. NoBufferNoCopy'
    BY <2>3, <2>4 DEF CopyInv, NoBufferNoCopy
  <2>6. IdleAtStart' /\ CopiesInRange' /\ CallsHaveMet'
    BY <2>4, Zenon DEF CopyInv, IdleAtStart, CopiesInRange, CallsHaveMet, Copies, Writing
  <2>7. WritesAreMet'
    <3> SUFFICES ASSUME NEW p \in Processes, Writing(p), NEW i \in Cells, i < call[p].at
                 PROVE  buffer'[file[p]][i] \in {p} \cup met[p]
      BY <2>4 DEF WritesAreMet, Writing
    <3>1. file[p] \in Drivers
      BY DEF CallsHaveFiles, Writing
    <3>2. file[p] # d
      BY <2>2, <3>1 DEF CopyInv, NoBufferNoCopy, Cells
    <3>3. QED
      BY <2>3, <3>1, <3>2 DEF CopyInv, WritesAreMet
  <2>8. SettledIsThere'
    BY <2>1, <2>3, <2>4 DEF CopyInv, SettledIsThere, Covers, Uses, Writing
  <2>9. QED
    BY <2>5, <2>6, <2>7, <2>8 DEF CopyInv
<1>4. ASSUME NEW d \in built, Rmmod(d), UNCHANGED call
      PROVE  CopyInv'
  <2>1. phase'[d] # "live" /\ \A e \in Drivers \ {d} : phase'[e] = phase[e]
    BY <1>0, <1>4, GoesOn DEF Rmmod
  <2>2. \A e \in Drivers \ {d} : settled'[e] = settled[e]
    BY <1>0, <1>4 DEF Rmmod, DrvTypeOK
  <2>3. UNCHANGED <<buffer, call, file, met>>
    BY <1>4 DEF Rmmod
  <2>4. NoBufferNoCopy' /\ IdleAtStart' /\ CopiesInRange' /\ CallsHaveMet' /\ WritesAreMet'
    BY <2>3, Zenon DEF CopyInv, NoBufferNoCopy, IdleAtStart, CopiesInRange, CallsHaveMet,
                       WritesAreMet, Copies, Writing
  <2>5. SettledIsThere'
    BY <2>1, <2>2, <2>3 DEF CopyInv, SettledIsThere, Covers, Uses, Writing
  <2>6. QED
    BY <2>4, <2>5 DEF CopyInv
<1>5. ASSUME NEW d \in built, Free(d)
      PROVE  CopyInv'
  <2>1. phase[d] # "live" /\ phase'[d] # "live" /\ \A e \in Drivers \ {d} : phase'[e] = phase[e]
    BY <1>0, <1>5, GoesOn DEF Free
  <2>2. \A e \in Drivers \ {d} : buffer'[e] = buffer[e]
    BY <1>0, <1>5 DEF Free, DrvTypeOK
  <2>3. /\ \A p \in Processes : file[p] # d =>
              file'[p] = file[p] /\ call'[p] = call[p] /\ met'[p] = met[p]
        /\ \A p \in Processes : file[p] = d =>
              file'[p] = Stale /\ call'[p].op = "none" /\ call'[p].at = 0
        /\ settled' = settled
    BY <1>5 DEF Free, NoCall
  <2>4. \A p \in Processes : file'[p] # d
    BY <1>0, <2>3
  <2>5. NoBufferNoCopy'
    BY <2>2, <2>3, <2>4 DEF CopyInv, NoBufferNoCopy
  <2>6. IdleAtStart' /\ CopiesInRange'
    BY <2>3 DEF CopyInv, IdleAtStart, CopiesInRange, Writing
  <2>7. CallsHaveMet'
    BY <2>3 DEF CopyInv, CallsHaveMet, Copies, Writing
  <2>8. WritesAreMet'
    <3> SUFFICES ASSUME NEW p \in Processes, Writing(p)', NEW i \in Cells, i < call'[p].at
                 PROVE  buffer'[file'[p]][i] \in {p} \cup met'[p]
      BY DEF WritesAreMet
    <3>1. file[p] # d /\ call'[p] = call[p] /\ file'[p] = file[p] /\ met'[p] = met[p]
      BY <2>3 DEF Writing
    <3>2. file[p] \in Drivers
      BY <3>1 DEF Writing, CallsHaveFiles
    <3>3. QED
      BY <2>2, <3>1, <3>2 DEF CopyInv, WritesAreMet, Writing
  <2>9. SettledIsThere'
    BY <1>0, <2>1, <2>2, <2>3 DEF CopyInv, SettledIsThere, Covers, Uses, Writing
  <2>10. QED
    BY <2>5, <2>6, <2>7, <2>8, <2>9 DEF CopyInv
<1>6. QED
  BY <1>1, <1>2, <1>3, <1>4, <1>5 DEF Module

\* p opens or closes its file, or a call of p copies nothing and ends: what
\* the others have under way stays as it is.
Ends(p) == /\ call'[p].op \in {"none", "store"} /\ call'[p].at = 0
           /\ \A q \in Processes \ {p} :
                 call'[q] = call[q] /\ file'[q] = file[q] /\ met'[q] = met[q]
           /\ phase' = phase /\ buffer' = buffer

LEMMA EndingKeeps ==
    ASSUME DrvTypeOK, CallsHaveFiles, CopyInv, NEW p \in Processes, Ends(p),
           call'[p].op = "store" => file'[p] \in Drivers /\ buffer[file'[p]] # None
    PROVE  NoBufferNoCopy' /\ CopiesInRange' /\ CallsHaveMet' /\ WritesAreMet'
<1>1. NoBufferNoCopy'
  BY DEF CopyInv, NoBufferNoCopy, Ends
<1>2. CopiesInRange'
  BY DEF CopyInv, CopiesInRange, Ends, Writing
<1>3. CallsHaveMet'
  BY DEF CopyInv, CallsHaveMet, Ends, Copies, Writing
<1>4. WritesAreMet'
  BY DEF CopyInv, WritesAreMet, Ends, Writing
<1>5. QED
  BY <1>1, <1>2, <1>3, <1>4

\* The end of a write that is not of a loaded driver, or of another call.
LEMMA UnsettledEnd ==
    ASSUME DrvTypeOK, CallsHaveFiles, CopyInv, NEW p \in Processes, Ends(p),
           ~Writing(p) \/ phase[file[p]] # "live", settled' = settled
    PROVE  SettledIsThere'
<1> SUFFICES ASSUME NEW d \in Drivers, NEW i \in Cells, phase[d] = "live",
                    buffer[d][i] \notin settled[d][i]
             PROVE  \E q \in Processes : Covers(q, d, i)' /\ buffer[d][i] = q
  BY DEF SettledIsThere, Ends
<1>1. PICK q \in Processes : Covers(q, d, i) /\ buffer[d][i] = q
  BY DEF CopyInv, SettledIsThere
<1>2. q # p
  BY <1>1 DEF Covers, Uses
<1>3. QED
  BY <1>1, <1>2 DEF Covers, Uses, Writing, Ends

(***************************************************************************)
(* A write returns: where it has passed there is its own byte or that of a *)
(* write it has met, the others are as settled as before.                  *)
(***************************************************************************)
LEMMA SettledEnd ==
    ASSUME DrvTypeOK, CallsHaveFiles, CopyInv, NEW p \in Processes, Ends(p),
           Writing(p), ~Copying(p), Settles(p)
    PROVE  SettledIsThere'
<1>1. file[p] \in Drivers
  BY DEF Writing, CallsHaveFiles
<1>2. call[p].at = call[p].count
  BY CallType DEF CopyInv, CopiesInRange, Copying
<1>3. /\ \A d \in Drivers \ {file[p]} : settled'[d] = settled[d]
      /\ \A i \in Cells : settled'[file[p]][i] =
            IF i < call[p].at /\ phase[file[p]] = "live" THEN {p} \cup met[p]
                                                         ELSE settled[file[p]][i]
  BY <1>1, <1>2 DEF Settles, DrvTypeOK
<1> SUFFICES ASSUME NEW d \in Drivers, NEW i \in Cells, phase[d] = "live"
             PROVE  \/ buffer[d][i] \in settled'[d][i]
                    \/ \E q \in Processes : Covers(q, d, i)' /\ buffer[d][i] = q
  BY DEF SettledIsThere, Ends
<1>4. CASE d = file[p] /\ i < call[p].at
  BY <1>3, <1>4 DEF CopyInv, WritesAreMet
<1>5. CASE ~(d = file[p] /\ i < call[p].at)
  <2>1. settled'[d][i] = settled[d][i]
    BY <1>3, <1>5
  <2>2. ASSUME NEW q \in Processes, Covers(q, d, i) PROVE Covers(q, d, i)'
    <3>1. q # p
      BY <1>5, <2>2 DEF Covers, Uses
    <3>2. QED
      BY <2>2, <3>1 DEF Covers, Uses, Writing, Ends
  <2>3. QED
    BY <2>1, <2>2 DEF CopyInv, SettledIsThere
<1>6. QED
  BY <1>4, <1>5

\* Nothing of a loaded driver is missing but the register of leds, so no
\* other call on it is killed.
LEMMA KilledUnloaded ==
    ASSUME DrvTypeOK, CallsHaveFiles, LoadInv, NEW p \in Processes, Killed(p),
           call[p].op # "none"
    PROVE  /\ file[p] \in Drivers
           /\ \/ phase[file[p]] # "live"
              \/ call[p].op = "store" /\ registers = "unmapped"
<1>1. file[p] \in Drivers /\ file[p] # Stale
  BY Constants DEF CallsHaveFiles
<1>2. \/ buffer[file[p]] = None
      \/ call[p].op = "store" /\ registers = "unmapped"
  BY <1>1 DEF Killed, Faults, Needs
<1>3. QED
  BY <1>1, <1>2 DEF LoadInv

LEMMA CopyProcess ==
    ASSUME DrvTypeOK, CallsHaveFiles, LoadInv, CopyInv, NEW p \in Processes, Process(p)
    PROVE  CopyInv'
<1> USE Constants
<1>0. UNCHANGED phase
  BY DEF Process
<1>1. CASE (\E m \in Majors : Open(p, m)) \/ Release(p)
  <2>1. /\ UNCHANGED <<buffer, call, settled, met>>
        /\ \A q \in Processes \ {p} : file'[q] = file[q]
    BY <1>1 DEF Open, Release, history, DrvTypeOK
  <2>2. call[p].op = "none"
    BY <1>1 DEF Open, Release, CallsHaveFiles
  <2>3. call[p].at = 0
    BY <1>1, <2>2 DEF CopyInv, IdleAtStart
  <2>4. Ends(p)
    BY <1>0, <2>1, <2>2, <2>3 DEF Ends
  <2>5. QED
    BY <2>1, <2>2, <2>4, EndingKeeps, UnsettledEnd DEF CopyInv, Writing, IdleAtStart
<1>2. CASE Begins(p)
  <2>1. PICK op \in {"read", "write"}, count \in 0 .. MAX_BUFFER_SIZE : Begin(p, op, count)
    BY <1>2 DEF Begins
  <2>2. /\ call'[p].op = op /\ call'[p].at = 0 /\ call'[p].count = count
        /\ \A q \in Processes \ {p} : call'[q] = call[q]
    BY <2>1, BeginCall DEF Begin, DrvTypeOK
  <2>3. UNCHANGED <<buffer, file, settled>> /\ file[p] \in Drivers /\ call[p].op = "none"
    BY <2>1 DEF Begin
  <2>4. /\ \A r \in Peers(p) : Writing(r) => r \in met'[p]
        /\ op = "write" => \A q \in Peers(p) : p \in met'[q]
        /\ \A q \in Processes \ {p} : met[q] \subseteq met'[q]
    BY <2>1, BeginCall
  <2>5. NoBufferNoCopy' /\ IdleAtStart'
    BY <2>1, <2>2, <2>3 DEF CopyInv, NoBufferNoCopy, IdleAtStart
  <2>6. CopiesInRange'
    BY <2>2 DEF CopyInv, CopiesInRange, Writing
  <2>7. CallsHaveMet'
    <3> SUFFICES ASSUME NEW r \in Processes, NEW q \in Processes \ {r}, Copies(r)',
                        file[q] = file[r], Writing(q)'
                 PROVE  q \in met'[r]
      BY <2>3 DEF CallsHaveMet
    <3>1. CASE r = p
      BY <2>2, <2>4, <3>1 DEF Peers, Writing
    <3>2. CASE q = p
      BY <2>2, <2>4, <3>2 DEF Peers, Copies, Writing
    <3>3. CASE r # p /\ q # p
      BY <2>2, <2>4, <3>3 DEF CopyInv, CallsHaveMet, Copies, Writing
    <3>4. QED
      BY <3>1, <3>2, <3>3
  <2>8. WritesAreMet'
    <3> SUFFICES ASSUME NEW r \in Processes, Writing(r)', NEW i \in Cells, i < call'[r].at
                 PROVE  buffer[file[r]][i] \in {r} \cup met'[r]
      BY <2>3 DEF WritesAreMet
    <3>1. r # p
      BY <2>2 DEF Cells
    <3>2. QED
      BY <2>2, <2>4, <3>1 DEF CopyInv, WritesAreMet, Writing
  <2>9. SettledIsThere'
    <3>1. \A q \in Processes, d \in Drivers, i \in Cells : Covers(q, d, i) => Covers(q, d, i)'
      BY <2>2, <2>3 DEF Covers, Uses, Writing
    <3>2. QED
      BY <1>0, <2>3, <3>1 DEF CopyInv, SettledIsThere
  <2>10. QED
    BY <2>5, <2>6, <2>7, <2>8, <2>9 DEF CopyInv
<1>3. CASE CopyFromUser(p)
  <2> DEFINE d == file[p]
             k == call[p].at
  <2>1. UNCHANGED <<file, settled, met>>
    BY <1>3 DEF CopyFromUser, history
  <2>2. /\ \A q \in Processes \ {p} : call'[q] = call[q]
        /\ call'[p].op = "write" /\ call[p].op = "write"
        /\ call'[p].at = k + 1 /\ call'[p].count = call[p].count
        /\ k \in Cells /\ k < call[p].count
    BY <1>3, CopyCall DEF CopyFromUser, InCall
  <2>3. /\ d \in Drivers /\ buffer'[d] # None /\ buffer[d] # None
        /\ \A e \in Drivers : e # d => buffer'[e] = buffer[e]
        /\ \A i \in Cells : buffer'[d][i] = IF i = k THEN p ELSE buffer[d][i]
    BY <1>3, CopyBuffer
  <2>4. call[p].count \in Nat /\ k \in Nat
    BY CallType
  <2> HIDE DEF d, k
  <2>5. NoBufferNoCopy'
    BY <2>1, <2>2, <2>3 DEF CopyInv, NoBufferNoCopy, d
  <2>6. CopiesInRange' /\ IdleAtStart'
    BY <2>2, <2>4 DEF CopyInv, CopiesInRange, IdleAtStart, Writing
  <2>7. CallsHaveMet'
    BY <2>1, <2>2 DEF CopyInv, CallsHaveMet, Copies, Writing
  <2>8. WritesAreMet'
    <3> SUFFICES ASSUME NEW r \in Processes, Writing(r)', NEW i \in Cells, i < call'[r].at
                 PROVE  buffer'[file[r]][i] \in {r} \cup met[r]
      BY <2>1 DEF WritesAreMet
    <3>1. Writing(r) /\ file[r] \in Drivers
      BY <2>2 DEF Writing, CallsHaveFiles
    <3>2. CASE file[r] = d /\ i = k
      <4>1. buffer'[file[r]][i] = p
        BY <2>3, <3>2
      <4>2. r # p => p \in met[r]
        BY <2>2, <3>1, <3>2 DEF CopyInv, CallsHaveMet, Copies, Writing, d
      <4>3. QED
        BY <4>1, <4>2
    <3>3. CASE ~(file[r] = d /\ i = k)
      <4>1. buffer'[file[r]][i] = buffer[file[r]][i]
        BY <2>3, <3>1, <3>3
      <4>2. i < call[r].at
        BY <2>2, <2>4, <3>3 DEF Cells, d, k
      <4>3. QED
        BY <3>1, <4>1, <4>2 DEF CopyInv, WritesAreMet
    <3>4. QED
      BY <3>2, <3>3
  <2>9. SettledIsThere'
    <3> SUFFICES ASSUME NEW e \in Drivers, NEW i \in Cells, phase[e] = "live"
                 PROVE  \/ buffer'[e][i] \in settled[e][i]
                        \/ \E q \in Processes : Covers(q, e, i)' /\ buffer'[e][i] = q
      BY <1>0, <2>1 DEF SettledIsThere
    <3>1. \A q \in Processes : Covers(q, e, i) => Covers(q, e, i)'
      BY <2>1, <2>2, <2>4 DEF Covers, Uses, Writing, Cells, k
    <3>2. CASE e = d /\ i = k
      <4>1. Covers(p, e, i)' /\ buffer'[e][i] = p
        BY <2>1, <2>2, <2>3, <2>4, <3>2 DEF Covers, Uses, Writing, d
      <4>2. QED
        BY <4>1
    <3>3. CASE ~(e = d /\ i = k)
      <4>1. buffer'[e][i] = buffer[e][i]
        BY <2>3, <3>3
      <4>2. QED
        BY <3>1, <4>1 DEF CopyInv, SettledIsThere
    <3>4. QED
      BY <3>2, <3>3
  <2>10. QED
    BY <2>5, <2>6, <2>7, <2>8, <2>9 DEF CopyInv
<1>4. CASE CopyToUser(p)
  <2>1. UNCHANGED <<buffer, file, settled, met>> /\ buffer[file[p]] # None
    BY <1>4 DEF CopyToUser, history
  <2>2. /\ \A q \in Processes \ {p} : call'[q] = call[q]
        /\ call'[p].op = "read" /\ call[p].op = "read"
    BY <1>4, CopyCall DEF CopyToUser, InCall
  <2>3. NoBufferNoCopy' /\ CopiesInRange' /\ IdleAtStart'
    BY <2>1, <2>2 DEF CopyInv, NoBufferNoCopy, CopiesInRange, IdleAtStart, Writing
  <2>4. CallsHaveMet' /\ WritesAreMet'
    BY <2>1, <2>2 DEF CopyInv, CallsHaveMet, WritesAreMet, Copies, Writing
  <2>5. SettledIsThere'
    <3>1. \A q \in Processes, d \in Drivers, i \in Cells : Covers(q, d, i) => Covers(q, d, i)'
      BY <2>1, <2>2 DEF Covers, Uses, Writing
    <3>2. QED
      BY <1>0, <2>1, <3>1 DEF CopyInv, SettledIsThere
  <2>6. QED
    BY <2>3, <2>4, <2>5 DEF CopyInv
<1>5. CASE ReadReturns(p) \/ StoreLed(p)
  <2>1. UNCHANGED <<buffer, file, settled>> /\ ~Writing(p)
    BY <1>5 DEF ReadReturns, StoreLed, InCall, Writing
  <2>2. \A q \in Processes \ {p} : met'[q] = met[q]
    BY <1>5, EndMet DEF ReadReturns, StoreLed
  <2>3. Ends(p) /\ IdleAtStart'
    BY <1>0, <1>5, <2>1, <2>2, EndCall DEF ReadReturns, StoreLed, Ends, CopyInv, IdleAtStart
  <2>4. call'[p].op = "none"
    BY <1>5, EndCall DEF ReadReturns, StoreLed
  <2>5. QED
    BY <2>1, <2>3, <2>4, EndingKeeps, UnsettledEnd DEF CopyInv
<1>6. CASE WriteReturns(p) \/ LoadLed(p)
  <2>1. UNCHANGED <<buffer, file>> /\ Writing(p) /\ ~Copying(p) /\ Settles(p)
    BY <1>6 DEF WriteReturns, LoadLed, InCall, Writing
  <2>2. Ends(p) /\ IdleAtStart'
    <3>1. \A q \in Processes \ {p} : met'[q] = met[q]
      BY <2>1, EndMet DEF Settles
    <3>2. QED
      BY <1>0, <1>6, <2>1, <3>1, EndCall, LoadCall DEF WriteReturns, Ends, CopyInv, IdleAtStart
  <2>3. call'[p].op = "store" => file'[p] \in Drivers /\ buffer[file'[p]] # None
    BY <1>6, <2>1, EndCall DEF WriteReturns, LoadLed, InCall
  <2>4. QED
    BY <2>1, <2>2, <2>3, EndingKeeps, SettledEnd DEF CopyInv
<1>7. CASE Killed(p)
  <2>1. /\ call'[p].op = "none" /\ call'[p].at = 0 /\ UNCHANGED <<buffer, settled>>
        /\ \A q \in Processes \ {p} : call'[q] = call[q] /\ file'[q] = file[q]
    BY <1>7, EndCall DEF Killed, DrvTypeOK
  <2>2. \A q \in Processes \ {p} : met'[q] = met[q]
    BY <1>7, EndMet DEF Killed
  <2>3. Ends(p) /\ IdleAtStart'
    BY <1>0, <2>1, <2>2 DEF Ends, CopyInv, IdleAtStart
  <2>4. Writing(p) => phase[file[p]] # "live"
    BY <1>7, KilledUnloaded DEF Writing
  <2>5. QED
    BY <2>1, <2>3, <2>4, EndingKeeps, UnsettledEnd DEF CopyInv
<1>8. QED
  BY <1>1, <1>2, <1>3, <1>4, <1>5, <1>6, <1>7, Beginning DEF Process

LEMMA CopyInductive == DrvSpec => []CopyInv
<1>1. DrvInit => CopyInv
  <2> SUFFICES ASSUME DrvInit PROVE CopyInv
    OBVIOUS
  <2>1. \A q \in Processes : call[q].op = "none" /\ call[q].at = 0
    BY DEF DrvInit, NoCall
  <2>2. \A d \in Drivers : phase[d] = "out"
    BY DEF DrvInit
  <2>3. QED
    BY <2>1, <2>2 DEF CopyInv, NoBufferNoCopy, CopiesInRange, IdleAtStart,
                      CallsHaveMet, WritesAreMet, SettledIsThere, Copies, Writing
<1>2. DrvTypeOK /\ CallsHaveFiles /\ LoadInv /\ CopyInv /\ [DrvNext]_drvVars => CopyInv'
  <2>1. ASSUME CopyInv, UNCHANGED drvVars PROVE CopyInv'
    BY <2>1, CopyInvStutters DEF drvVars, history
  <2>2. QED
    BY <2>1, CopyModule, CopyProcess DEF DrvNext
<1>3. QED
  BY <1>1, <1>2, DrvTypeInductive, LoadInductive, PTL DEF DrvSpec

(***************************************************************************)
(* For any processes and any size of the buffer: a read of a loaded driver *)
(* copies bytes of the writes that covered them last or of writes that     *)
(* overlapped with these or with the read (copy_to_user and copy_from_user *)
(* without a lock, in read, write and ioctl).                              *)
(***************************************************************************)
THEOREM ReadsAreOfLastWrites == DrvSpec => []ReadsLastWrites
<1>1. DrvTypeOK /\ CopyInv => ReadsLastWrites
  BY ReadsAreCovered
<1>2. QED
  BY <1>1, DrvTypeInductive, CopyInductive, PTL

-----------------------------------------------------------------------------
\* A write of leds that will still store the first byte of the buffer.
WillStore(p) == /\ file[p] = "leds"
                /\ \/ Writing(p) /\ call[p].at > 0
                   \/ call[p].op = "store" /\ call[p].byte = buffer["leds"][0]
SomeoneWillStore == \E p \in Processes : WillStore(p)

\* leds is loaded and has its data register.
Lit == phase["leds"] = "live" /\ registers = "mapped"

(***************************************************************************)
(* The register and the buffer differ only as long as the write that made  *)
(* the difference, or one after it, has its store before it; and a store   *)
(* that comes too late is known as such.                                   *)
(***************************************************************************)
LedInv ==
    IF Lit
    THEN /\ ledOrder = "kept" => led = buffer["leds"][0] \/ SomeoneWillStore
         /\ \A p \in Processes : InCall(p, "store") /\ p \notin late => SomeoneWillStore
    ELSE ledOrder # "kept"

LEMMA LedShown ==
    ASSUME LedInv
    PROVE  LedFollowsBuffer
  BY DEF LedInv, LedFollowsBuffer, Lit, SomeoneWillStore, WillStore, Writing

\* A step after which leds is not loaded or has no register.
LEMMA LedUnloaded ==
    ASSUME ~Lit', ledOrder' # "kept"
    PROVE  LedInv'
  BY DEF LedInv

\* A step that leaves the register, the first byte, and who is to store it.
LEMMA LedKept ==
    ASSUME LedInv, UNCHANGED <<led, ledOrder>>, Lit' <=> Lit,
           Lit => buffer'["leds"][0] = buffer["leds"][0],
           \A q \in Processes : WillStore(q) => WillStore(q)',
           \A q \in Processes : InCall(q, "store")' /\ q \notin late'
                              => InCall(q, "store") /\ q \notin late
    PROVE  LedInv'
<1>1. SomeoneWillStore => SomeoneWillStore'
  BY DEF SomeoneWillStore
<1>2. QED
  BY <1>1 DEF LedInv

LEMMA LedModule ==
    ASSUME DrvTypeOK, CallsHaveFiles, LoadInv, CopyInv, LedInv, Module
    PROVE  LedInv'
<1> USE Constants
<1>0. built \subseteq Drivers
  BY DEF DrvTypeOK
<1>1. ASSUME UNCHANGED <<registers, led, file, call, late, ledOrder>>, phase'["leds"] = phase["leds"],
             buffer'["leds"] = buffer["leds"]
      PROVE  LedInv'
  BY <1>1, LedKept DEF Lit, WillStore, Writing, InCall
<1>2. ASSUME NEW d \in built, \/ RegisterChrdev(d) \/ MajorIsBusy(d)
                              \/ AllocateFails(d) \/ UnregisterChrdev(d),
             UNCHANGED call
      PROVE  LedInv'
  <2>1. UNCHANGED <<buffer, registers, file, led, late, ledOrder>>
    BY <1>2 DEF RegisterChrdev, MajorIsBusy, AllocateFails, UnregisterChrdev, history
  <2>2. PICK from \in {"out", "allocate", "unregister"},
             to \in {"map", "allocate", "out", "unregister", "unmap", "free"} : Goes(d, from, to)
    BY <1>2 DEF RegisterChrdev, MajorIsBusy, AllocateFails, UnregisterChrdev
  <2>3. CASE d = "leds"
    BY <1>0, <2>1, <2>2, <2>3, GoesOn, LedUnloaded DEF LedInv, Lit
  <2>4. CASE d # "leds"
    BY <1>0, <1>1, <1>2, <2>1, <2>2, <2>4, GoesOn
  <2>5. QED
    BY <2>3, <2>4
<1>3. ASSUME MapRegisters \/ MapFaults \/ UnmapRegisters
      PROVE  LedInv'
  <2>1. phase["leds"] # "live" /\ phase'["leds"] # "live" /\ ledOrder' = ledOrder
    BY <1>3, GoesOn DEF MapRegisters, MapFaults, UnmapRegisters, history
  <2>2. QED
    BY <2>1, LedUnloaded DEF LedInv, Lit
<1>4. ASSUME NEW d \in built, Allocate(d), UNCHANGED call
      PROVE  LedInv'
  <2>1. /\ phase[d] = "allocate" /\ phase'[d] = "live"
        /\ \A e \in Drivers \ {d} : phase'[e] = phase[e]
    BY <1>0, <1>4, GoesOn DEF Allocate
  <2>2. UNCHANGED <<registers, led, file, call, late, ledOrder>>
    BY <1>4 DEF Allocate
  <2>3. CASE d = "leds"
    <3>1. buffer["leds"] = None /\ ledOrder # "kept"
      BY <2>1, <2>3 DEF LoadInv, LedInv, Lit
    <3>2. \A p \in Processes : ~InCall(p, "store")'
      BY <2>2, <3>1 DEF CopyInv, NoBufferNoCopy, InCall, CallsHaveFiles
    <3>3. QED
      BY <2>2, <3>1, <3>2 DEF LedInv
  <2>4. CASE d # "leds"
    <3>1. buffer'["leds"] = buffer["leds"]
      BY <1>0, <1>4, <2>4 DEF Allocate, DrvTypeOK
    <3>2. QED
      BY <1>1, <2>1, <2>2, <2>4, <3>1
  <2>5. QED
    BY <2>3, <2>4
<1>5. ASSUME NEW d \in built, Rmmod(d), UNCHANGED call
      PROVE  LedInv'
  <2>1. phase'[d] # "live" /\ \A e \in Drivers \ {d} : phase'[e] = phase[e]
    BY <1>0, <1>5, GoesOn DEF Rmmod
  <2>2. CASE d = "leds"
    BY <1>5, <2>1, <2>2, LedUnloaded DEF Rmmod, Lit
  <2>3. CASE d # "leds"
    BY <1>1, <1>5, <2>1, <2>3 DEF Rmmod
  <2>4. QED
    BY <2>2, <2>3
<1>6. ASSUME NEW d \in built, Free(d)
      PROVE  LedInv'
  <2>1. /\ phase[d] # "live" /\ phase'[d] # "live"
        /\ \A e \in Drivers \ {d} : phase'[e] = phase[e]
    BY <1>0, <1>6, GoesOn DEF Free
  <2>2. UNCHANGED <<registers, led, ledOrder>>
    BY <1>6 DEF Free
  <2>3. CASE d = "leds"
    BY <2>1, <2>2, <2>3, LedUnloaded DEF LedInv, Lit
  <2>4. CASE d # "leds"
    <3>1. buffer'["leds"] = buffer["leds"]
      BY <1>0, <1>6, <2>4 DEF Free, DrvTypeOK
    <3>2. /\ \A p \in Processes : file[p] # d => file'[p] = file[p] /\ call'[p] = call[p]
          /\ \A p \in Processes : file[p] = d => call'[p].op = "none"
          /\ late' = {p \in late : file[p] # d}
      BY <1>6 DEF Free, NoCall
    <3>3. \A q \in Processes : WillStore(q) => WillStore(q)'
      BY <2>4, <3>1, <3>2 DEF WillStore, Writing
    <3>4. \A q \in Processes : InCall(q, "store")' /\ q \notin late'
                             => InCall(q, "store") /\ q \notin late
      BY <3>2 DEF InCall
    <3>5. QED
      BY <2>1, <2>2, <2>4, <3>1, <3>3, <3>4, LedKept DEF Lit
  <2>5. QED
    BY <2>3, <2>4
<1>7. QED
  BY <1>2, <1>3, <1>4, <1>5, <1>6 DEF Module

LEMMA LedProcess ==
    ASSUME DrvTypeOK, CallsHaveFiles, LoadInv, CopyInv, LedInv, NEW p \in Processes, Process(p)
    PROVE  LedInv'
<1> USE Constants
<1>0. UNCHANGED <<phase, registers>> /\ (Lit' <=> Lit)
  BY DEF Process, Lit
\* Steps of p that neither begin nor end anything that will store.
<1>1. ASSUME UNCHANGED <<led, ledOrder, buffer>>, call'[p].op # "store", late' = late,
             \A q \in Processes \ {p} : call'[q] = call[q] /\ file'[q] = file[q],
             ~WillStore(p)
      PROVE  LedInv'
  <2>1. \A q \in Processes : WillStore(q) => WillStore(q)'
    BY <1>1 DEF WillStore, Writing
  <2>2. \A q \in Processes : InCall(q, "store")' /\ q \notin late'
                           => InCall(q, "store") /\ q \notin late
    BY <1>1 DEF InCall
  <2>3. QED
    BY <1>0, <1>1, <2>1, <2>2, LedKept
<1>2. CASE (\E m \in Majors : Open(p, m)) \/ Release(p)
  <2>1. /\ UNCHANGED <<buffer, call, led, late, ledOrder>>
        /\ \A q \in Processes \ {p} : file'[q] = file[q]
    BY <1>2 DEF Open, Release, history, DrvTypeOK
  <2>2. call[p].op = "none"
    BY <1>2 DEF Open, Release, CallsHaveFiles
  <2>3. QED
    BY <1>1, <2>1, <2>2 DEF WillStore, Writing
<1>3. CASE Begins(p)
  <2>1. PICK op \in {"read", "write"}, count \in 0 .. MAX_BUFFER_SIZE : Begin(p, op, count)
    BY <1>3 DEF Begins
  <2>2. call'[p].op = op /\ \A q \in Processes \ {p} : call'[q] = call[q]
    BY <2>1, BeginCall DEF Begin, DrvTypeOK
  <2>3. UNCHANGED <<buffer, file, led, late, ledOrder>> /\ call[p].op = "none"
    BY <2>1 DEF Begin
  <2>4. QED
    BY <1>1, <2>1, <2>2, <2>3 DEF WillStore, Writing
<1>4. CASE CopyFromUser(p)
  <2>1. UNCHANGED <<file, led, late, ledOrder>>
    BY <1>4 DEF CopyFromUser, history
  <2>2. /\ \A q \in Processes \ {p} : call'[q] = call[q]
        /\ call'[p].op = "write" /\ call[p].op = "write" /\ call'[p].at > 0
    <3>1. call[p].at \in Nat
      BY CallType
    <3>2. /\ \A q \in Processes \ {p} : call'[q] = call[q]
          /\ call'[p].op = "write" /\ call[p].op = "write" /\ call'[p].at = call[p].at + 1
      BY <1>4, CopyCall DEF CopyFromUser, InCall
    <3>3. QED
      BY <3>1, <3>2
  <2>3. CASE file[p] = "leds"
    <3>1. WillStore(p)'
      BY <2>1, <2>2, <2>3 DEF WillStore, Writing
    <3>2. QED
      BY <1>0, <2>1, <3>1 DEF LedInv, SomeoneWillStore
  <2>4. CASE file[p] # "leds"
    <3>1. buffer'["leds"] = buffer["leds"]
      BY <1>4, <2>4, CopyBuffer
    <3>2. \A q \in Processes : WillStore(q) => WillStore(q)'
      BY <2>1, <2>2, <2>4, <3>1 DEF WillStore, Writing
    <3>3. \A q \in Processes : InCall(q, "store")' /\ q \notin late'
                             => InCall(q, "store") /\ q \notin late
      BY <2>1, <2>2 DEF InCall
    <3>4. QED
      BY <1>0, <2>1, <3>1, <3>2, <3>3, LedKept
  <2>5. QED
    BY <2>3, <2>4
<1>5. CASE CopyToUser(p)
  <2>1. UNCHANGED <<buffer, file, led, late, ledOrder>>
    BY <1>5 DEF CopyToUser, history
  <2>2. /\ \A q \in Processes \ {p} : call'[q] = call[q]
        /\ call'[p].op = "read" /\ call[p].op = "read"
    BY <1>5, CopyCall DEF CopyToUser, InCall
  <2>3. QED
    BY <1>1, <2>1, <2>2 DEF WillStore, Writing
<1>6. CASE ReadReturns(p) \/ WriteReturns(p)
  <2>1. UNCHANGED <<buffer, file, led, late, ledOrder>>
    BY <1>6 DEF ReadReturns, WriteReturns
  <2>2. call'[p].op = "none" /\ \A q \in Processes \ {p} : call'[q] = call[q]
    BY <1>6, EndCall DEF ReadReturns, WriteReturns
  <2>3. ~WillStore(p)
    BY <1>6 DEF ReadReturns, WriteReturns, InCall, WillStore, Writing
  <2>4. QED
    BY <1>1, <2>1, <2>2, <2>3
<1>7. CASE LoadLed(p)
  <2>1. UNCHANGED <<buffer, file, led, late, ledOrder>> /\ file[p] = "leds"
    BY <1>7 DEF LoadLed
  <2>2. WillStore(p)'
    BY <1>7, <2>1, LoadCall DEF WillStore
  <2>3. QED
    BY <1>0, <2>1, <2>2 DEF LedInv, SomeoneWillStore
<1>8. CASE StoreLed(p)
  <2>1. /\ UNCHANGED <<buffer, file>> /\ led' = call[p].byte
        /\ late' = {q \in Processes \ {p} : InCall(q, "store")}
        /\ ledOrder' = IF Lit /\ p \notin late THEN "kept" ELSE "unknown"
        /\ InCall(p, "store") /\ file[p] = "leds"
    BY <1>8 DEF StoreLed, Lit, InCall, CallsHaveFiles
  <2>2. call'[p].op = "none" /\ \A q \in Processes \ {p} : call'[q] = call[q]
    BY <1>8, EndCall DEF StoreLed
  <2>3. \A q \in Processes : InCall(q, "store")' => q \in late'
    BY <2>1, <2>2 DEF InCall
  <2>4. ASSUME Lit, p \notin late
        PROVE  led' = buffer["leds"][0] \/ SomeoneWillStore'
    <3>1. PICK q \in Processes : WillStore(q)
      BY <2>1, <2>4 DEF LedInv, SomeoneWillStore
    <3>2. CASE q = p
      BY <2>1, <3>1, <3>2 DEF WillStore, Writing, InCall
    <3>3. CASE q # p
      BY <2>1, <2>2, <3>1, <3>3 DEF WillStore, Writing, SomeoneWillStore
    <3>4. QED
      BY <3>2, <3>3
  <2>5. CASE Lit /\ p \notin late
    BY <1>0, <2>1, <2>3, <2>4, <2>5 DEF LedInv
  <2>6. CASE ~(Lit /\ p \notin late)
    BY <1>0, <2>1, <2>3, <2>6 DEF LedInv
  <2>7. QED
    BY <2>5, <2>6
<1>9. CASE Killed(p)
  <2>1. /\ UNCHANGED <<buffer, led, ledOrder>> /\ late' = late \ {p}
        /\ call'[p].op = "none"
        /\ \A q \in Processes \ {p} : call'[q] = call[q] /\ file'[q] = file[q]
    BY <1>9, EndCall DEF Killed, DrvTypeOK
  <2>2. CASE ~Lit
    BY <1>0, <2>1, <2>2, LedUnloaded DEF LedInv
  <2>3. CASE Lit
    <3>1. ~WillStore(p)
      BY <1>9, <2>3, KilledUnloaded DEF Lit, WillStore, Writing
    <3>2. \A q \in Processes : WillStore(q) => WillStore(q)'
      BY <2>1, <3>1 DEF WillStore, Writing
    <3>3. \A q \in Processes : InCall(q, "store")' /\ q \notin late'
                             => InCall(q, "store") /\ q \notin late
      BY <2>1 DEF InCall
    <3>4. QED
      BY <1>0, <2>1, <3>2, <3>3, LedKept
  <2>4. QED
    BY <2>2, <2>3
<1>10. QED
  BY <1>2, <1>3, <1>4, <1>5, <1>6, <1>7, <1>8, <1>9, Beginning DEF Process

LEMMA LedInductive == DrvSpec => []LedInv
<1>1. DrvInit => LedInv
  BY Constants DEF DrvInit, LedInv, Lit
<1>2. DrvTypeOK /\ CallsHaveFiles /\ LoadInv /\ CopyInv /\ LedInv /\ [DrvNext]_drvVars => LedInv'
  <2>1. ASSUME LedInv, UNCHANGED drvVars PROVE LedInv'
    BY <2>1, LedKept DEF drvVars, history, Lit, WillStore, Writing, InCall
  <2>2. QED
    BY <2>1, LedModule, LedProcess DEF DrvNext
<1>3. QED
  BY <1>1, <1>2, DrvTypeInductive, LoadInductive, CopyInductive, PTL DEF DrvSpec

(***************************************************************************)
(* For any processes and any size of the buffer: while no write of leds is *)
(* under way the register shows the first byte of the buffer, unless the   *)
(* last store was overtaken (leds_write: copy, load, store, no lock).      *)
(***************************************************************************)
THEOREM LedsFollowBuffer == DrvSpec => []LedFollowsBuffer
<1>1. LedInv => LedFollowsBuffer
  BY LedShown
<1>2. QED
  BY <1>1, LedInductive, PTL

-----------------------------------------------------------------------------
(***************************************************************************)
(* The profiling commands.                                                 *)
(***************************************************************************)
PerfTypeOK == /\ ccnt \in 0 .. WORD - 1
              /\ val1 \in 0 .. WORD - 1 /\ val2 \in 0 .. WORD - 1
              /\ pm \in [Profilers -> {"idle", "starting", "printing"}]
              /\ elapsed \in 0 .. WORD /\ measured \in 0 .. WORD

\* now is c cycles after val1 on a counter of WORD values.
After(now, c) == now = val1 + c \/ now = val1 + c - WORD

\* The counter runs on from val1, and a stop that has seen it keeps what it saw.
PerfInv == /\ PerfTypeOK
           /\ elapsed < WORD => After(ccnt, elapsed)
           /\ measured < WORD => After(val2, measured)

LEMMA Modulus == WORD \in Nat /\ WORD > 1
  BY PerfAssumption

LEMMA NextCount ==
    ASSUME NEW n \in 0 .. WORD - 1
    PROVE  (n + 1) % WORD = IF n = WORD - 1 THEN 0 ELSE n + 1
<1>1. CASE n = WORD - 1
  <2>1. n + 1 = 1 * WORD + 0
    BY <1>1, Modulus
  <2>2. (1 * WORD + 0) % WORD = 0
    BY Modulus, ColumnOf
  <2>3. QED
    BY <1>1, <2>1, <2>2
<1>2. CASE n # WORD - 1
  <2>1. n + 1 = 0 * WORD + (n + 1) /\ n + 1 \in Nat /\ n + 1 < WORD
    BY <1>2, Modulus
  <2>2. (0 * WORD + (n + 1)) % WORD = n + 1
    BY <2>1, Modulus, ColumnOf
  <2>3. QED
    BY <1>2, <2>1, <2>2
<1>3. QED
  BY <1>1, <1>2

\* The unsigned difference is the time that has passed.
LEMMA Difference ==
    ASSUME NEW now \in 0 .. WORD - 1, NEW c \in 0 .. WORD - 1,
           val1 \in 0 .. WORD - 1, After(now, c)
    PROVE  (now - val1) % WORD = c
<1>1. CASE now = val1 + c
  <2>1. now - val1 = 0 * WORD + c
    BY <1>1, Modulus
  <2>2. (0 * WORD + c) % WORD = c
    BY Modulus, ColumnOf
  <2>3. QED
    BY <2>1, <2>2
<1>2. CASE now = val1 + c - WORD
  <2>1. now - val1 = (-1) * WORD + c
    BY <1>2, Modulus
  <2>2. ((-1) * WORD + c) % WORD = c
    BY Modulus, ColumnOf
  <2>3. QED
    BY <2>1, <2>2
<1>3. QED
  BY <1>1, <1>2 DEF After

LEMMA CycleKeeps == ASSUME PerfInv, Cycle
                    PROVE  PerfInv'
<1>1. ccnt' = IF ccnt = WORD - 1 THEN 0 ELSE ccnt + 1
  BY NextCount DEF PerfInv, PerfTypeOK, Cycle
<1>2. PerfTypeOK'
  BY <1>1, Modulus DEF PerfInv, PerfTypeOK, Cycle
<1>3. elapsed' < WORD => After(ccnt, elapsed)'
  BY <1>1, Modulus DEF PerfInv, PerfTypeOK, Cycle, After
<1>4. measured' < WORD => After(val2, measured)'
  BY DEF PerfInv, Cycle, After
<1>5. QED
  BY <1>2, <1>3, <1>4 DEF PerfInv

LEMMA ProfilerKeeps ==
    ASSUME PerfInv, NEW p \in Profilers,
           ResetCounter(p) \/ ReadStart(p) \/ ReadStop(p) \/ PrintTime(p)
    PROVE  PerfInv'
<1>1. PerfTypeOK'
  <2>1. pm' \in [Profilers -> {"idle", "starting", "printing"}]
    BY DEF PerfInv, PerfTypeOK, ResetCounter, ReadStart, ReadStop, PrintTime, Steps
  <2>2. QED
    BY <2>1, Modulus DEF PerfInv, PerfTypeOK, ResetCounter, ReadStart, ReadStop, PrintTime
<1>2. CASE ResetCounter(p)
  BY <1>1, <1>2, Modulus DEF PerfInv, ResetCounter, After
<1>3. CASE ReadStart(p)
  \* The interval begins with nothing elapsed.
  <2>1. val1' = ccnt /\ ccnt' = ccnt /\ elapsed' = 0 /\ measured' = WORD /\ ccnt \in Nat
    BY <1>3 DEF ReadStart, PerfInv, PerfTypeOK
  <2>2. QED
    BY <1>1, <2>1, Modulus DEF PerfInv, After
<1>4. CASE ReadStop(p)
  BY <1>1, <1>4 DEF PerfInv, ReadStop, After
<1>5. CASE PrintTime(p)
  BY <1>1, <1>5 DEF PerfInv, PrintTime, After
<1>6. QED
  BY <1>2, <1>3, <1>4, <1>5

LEMMA PerfInvInductive == PerfSpec => []PerfInv
<1>1. PerfInit => PerfInv
  BY Modulus DEF PerfInit, PerfInv, PerfTypeOK
<1>2. PerfInv /\ [PerfNext]_perfVars => PerfInv'
  <2> SUFFICES ASSUME PerfInv, [PerfNext]_perfVars PROVE PerfInv'
    OBVIOUS
  <2>1. CASE UNCHANGED perfVars
    BY <2>1 DEF perfVars, PerfInv, PerfTypeOK, After
  <2>2. QED
    BY <2>1, CycleKeeps, ProfilerKeeps DEF PerfNext
<1>3. QED
  BY <1>1, <1>2, PTL DEF PerfSpec

(***************************************************************************)
(* For any number of processes, giving START and STOP in any order, and    *)
(* any width of the counter, from any value of it: what is printed is the  *)
(* time from the last start to the last stop, through a wrap of the        *)
(* counter, and from half its range on with %d's sign.                     *)
(***************************************************************************)
THEOREM MeasuresLastInterval == PerfSpec => []PrintsLastInterval
<1>1. PerfInv => PrintsLastInterval
  <2> SUFFICES ASSUME PerfInv, NEW p \in Profilers, pm[p] = "printing", measured < WORD
               PROVE  Printed = Signed(measured)
    BY DEF PrintsLastInterval
  <2>1. measured \in 0 .. WORD - 1 /\ After(val2, measured)
    BY Modulus DEF PerfInv, PerfTypeOK
  <2>2. (val2 - val1) % WORD = measured
    BY <2>1, Difference DEF PerfInv, PerfTypeOK
  <2>3. QED
    BY <2>2 DEF Printed
<1>2. QED
  BY <1>1, PerfInvInductive, PTL

-----------------------------------------------------------------------------
(***************************************************************************)
(* The video player.                                                       *)
(***************************************************************************)
\* Half the width and the height: the size of the chrominance planes
w2 == VIDEO_WIDTH \div 2
h2 == VIDEO_HEIGHT \div 2

LEMMA Halves ==
    /\ VIDEO_WIDTH \in Nat /\ VIDEO_WIDTH = 2 * w2 /\ w2 \in Nat \ {0}
    /\ VIDEO_HEIGHT \in Nat /\ VIDEO_HEIGHT = 2 * h2 /\ h2 \in Nat \ {0}
    /\ frame_buffer_line \in Nat /\ FRAME_NUMBER \in Nat
  BY VideoAssumption, SMT DEF w2, h2

\* The present pixel is the one in column c of line l.
At(l, c) == /\ inc_Y  = l * VIDEO_WIDTH + c
            /\ pos_fb = l * frame_buffer_line + c
            /\ inc_UV = (l \div 2) * w2 + c \div 2
            /\ line_number = l

Lines   == 0 .. VIDEO_HEIGHT - 1
Columns == 0 .. VIDEO_WIDTH - 1

\* PixelInPlace, the place behind the last pixel when a frame is done, and the
\* ranges of the counters
VideoInv == /\ frame_num \in 0 .. FRAME_NUMBER
            /\ inc_Y \in 0 .. Size
            /\ inc_Y < Size => \E l \in Lines, c \in Columns : At(l, c)
            /\ inc_Y = Size => At(VIDEO_HEIGHT, 0)

\* A position of the frame is less than its size, and not on its last line
\* unless a whole line follows.
LEMMA SizeBounds ==
    ASSUME NEW l \in Lines, NEW c \in Columns
    PROVE  /\ Size \in Nat
           /\ l * VIDEO_WIDTH + c \in Nat
           /\ l * VIDEO_WIDTH + c < Size
           /\ l = VIDEO_HEIGHT - 1 => l * VIDEO_WIDTH + VIDEO_WIDTH = Size
<1>1. /\ VIDEO_WIDTH \in Nat /\ VIDEO_HEIGHT \in Nat
      /\ l \in Nat /\ c \in Nat /\ c < VIDEO_WIDTH /\ l <= VIDEO_HEIGHT - 1
  BY Halves DEF Lines, Columns
<1>2. (VIDEO_HEIGHT - 1 - l) * VIDEO_WIDTH >= 0
  BY <1>1, SMTT(30)
<1>3. Size = l * VIDEO_WIDTH + VIDEO_WIDTH + (VIDEO_HEIGHT - 1 - l) * VIDEO_WIDTH
  BY <1>1, SMTT(30) DEF Size
<1>4. l * VIDEO_WIDTH \in Nat
  BY <1>1, SMTT(30)
<1>5. l = VIDEO_HEIGHT - 1 => (VIDEO_HEIGHT - 1 - l) * VIDEO_WIDTH = 0
  BY <1>1, SMTT(30)
<1>6. Size \in Nat
  BY <1>1, SMTT(30) DEF Size
<1>7. QED
  BY <1>1, <1>2, <1>3, <1>4, <1>5, <1>6

(***************************************************************************)
(* The last column: the next pixel is the first of the next line, and the  *)
(* chrominance index is back at its line's start or on the next line.      *)
(***************************************************************************)
LEMMA NewLineMoves ==
    ASSUME NEW l \in Lines, At(l, VIDEO_WIDTH - 1), inc_Y' = inc_Y + 1, NewLine
    PROVE  /\ inc_Y' = l * VIDEO_WIDTH + VIDEO_WIDTH
           /\ At(l + 1, 0)'
<1>1. /\ VIDEO_WIDTH \in Nat /\ VIDEO_WIDTH = 2 * w2 /\ w2 \in Nat /\ w2 # 0
      /\ l \in Nat /\ frame_buffer_line \in Nat
  BY Halves DEF Lines
<1>2. inc_Y' = l * VIDEO_WIDTH + VIDEO_WIDTH
  <2>1. l * VIDEO_WIDTH \in Nat
    BY <1>1, SMTT(30)
  <2>2. QED
    BY <1>1, <2>1 DEF At
<1>3. inc_Y' = (l + 1) * VIDEO_WIDTH + 0
  BY <1>1, <1>2, SMTT(30)
<1>4. pos_fb' = (l + 1) * frame_buffer_line + 0
  <2>1. l * frame_buffer_line \in Nat
    BY <1>1, SMTT(30)
  <2>2. pos_fb' = l * frame_buffer_line + frame_buffer_line
    BY <1>1, <2>1 DEF At, NewLine
  <2>3. QED
    BY <1>1, <2>2, SMTT(30)
<1>5. inc_UV' = ((l + 1) \div 2) * w2 + 0 \div 2
  <2>0. l \div 2 \in Nat /\ (l \div 2) * w2 \in Nat
    BY <1>1, SMTT(30)
  <2>1. inc_UV = (l \div 2) * w2 + (w2 - 1)
    BY <1>1, <2>0 DEF At
  <2>2. CASE l % 2 = 0
    <3>1. (l + 1) \div 2 = l \div 2
      BY <1>1, <2>2
    <3>2. inc_UV' = inc_UV - w2 + 1
      BY <1>1, <2>2 DEF At, NewLine, w2
    <3>3. QED
      BY <1>1, <2>0, <2>1, <3>1, <3>2
  <2>3. CASE l % 2 = 1
    <3>1. (l + 1) \div 2 = (l \div 2) + 1
      BY <1>1, <2>3
    <3>2. inc_UV' = inc_UV + 1
      BY <1>1, <2>3 DEF At, NewLine
    <3>3. ((l \div 2) + 1) * w2 = (l \div 2) * w2 + w2
      BY <1>1, <2>0, SMTT(30)
    <3>4. QED
      BY <1>1, <2>0, <2>1, <3>1, <3>2, <3>3
  <2>4. QED
    BY <1>1, <2>2, <2>3
<1>6. line_number' = l + 1
  BY DEF At, NewLine
<1>7. QED
  BY <1>2, <1>3, <1>4, <1>5, <1>6, Zenon DEF At

\* Any other column: the width is even, so the parity of inc_Y is the column's.
LEMMA SameLineMoves ==
    ASSUME NEW l \in Lines, NEW c \in Columns, At(l, c), inc_Y' = inc_Y + 1, SameLine
    PROVE  At(l, c + 1)'
<1>1. /\ VIDEO_WIDTH = 2 * w2 /\ w2 \in Nat /\ l \in Nat /\ c \in Nat
      /\ frame_buffer_line \in Nat
  BY Halves DEF Lines, Columns
<1>2. /\ l * VIDEO_WIDTH \in Nat /\ l * VIDEO_WIDTH = 2 * (l * w2) /\ l * w2 \in Nat
      /\ l * frame_buffer_line \in Nat /\ l \div 2 \in Nat /\ (l \div 2) * w2 \in Nat
  BY <1>1, SMTT(30)
<1>3. inc_Y' = l * VIDEO_WIDTH + (c + 1) /\ pos_fb' = l * frame_buffer_line + (c + 1)
  BY <1>1, <1>2 DEF At, SameLine
<1>4. inc_Y % 2 = c % 2
  <2>1. inc_Y = 2 * (l * w2) + c
    BY <1>2 DEF At
  <2>2. QED
    BY <1>1, <1>2, <2>1
<1>5. inc_UV' = (l \div 2) * w2 + (c + 1) \div 2
  <2>1. (c + 1) \div 2 = IF c % 2 = 1 THEN (c \div 2) + 1 ELSE c \div 2
    BY <1>1
  <2>2. inc_UV' = IF c % 2 = 1 THEN inc_UV + 1 ELSE inc_UV
    BY <1>4, Zenon DEF SameLine
  <2>3. inc_UV = (l \div 2) * w2 + c \div 2 /\ c \div 2 \in Nat
    BY <1>1 DEF At
  <2>4. QED
    BY <1>2, <2>1, <2>2, <2>3
<1>6. QED
  BY <1>3, <1>5, Zenon DEF At, SameLine

LEMMA PixelKeeps ==
    ASSUME VideoInv, Pixel
    PROVE  VideoInv'
<1>1. inc_Y < Size /\ inc_Y' = inc_Y + 1 /\ frame_num' = frame_num
  BY DEF Pixel, Drawing
<1>2. PICK l \in Lines, c \in Columns : At(l, c)
  BY <1>1 DEF VideoInv
<1>3. /\ VIDEO_WIDTH \in Nat /\ VIDEO_HEIGHT \in Nat /\ l \in Nat /\ c \in Nat
      /\ c < VIDEO_WIDTH /\ VIDEO_WIDTH # 0
  BY Halves DEF Lines, Columns
<1>4. inc_Y % VIDEO_WIDTH = c
  BY <1>2, <1>3, ColumnOf DEF At
<1>5. Size \in Nat /\ inc_Y \in Nat /\ inc_Y' \in 0 .. Size
  BY <1>1, SizeBounds DEF VideoInv
<1>6. inc_Y' < Size => (\E i \in Lines, j \in Columns : At(i, j)')
  <2>1. CASE c = VIDEO_WIDTH - 1
    <3>1. NewLine
      BY <1>4, <2>1 DEF Pixel
    <3>2. inc_Y' = l * VIDEO_WIDTH + VIDEO_WIDTH /\ At(l + 1, 0)'
      BY <1>1, <1>2, <2>1, <3>1, NewLineMoves
    <3>3. CASE l = VIDEO_HEIGHT - 1
      BY <1>5, <3>2, <3>3, SizeBounds
    <3>4. CASE l # VIDEO_HEIGHT - 1
      <4>1. l + 1 \in Lines /\ 0 \in Columns
        BY <1>3, <3>4 DEF Lines, Columns
      <4>2. QED
        BY <3>2, <4>1, Zenon
    <3>5. QED
      BY <3>3, <3>4
  <2>2. CASE c # VIDEO_WIDTH - 1
    <3>1. SameLine
      BY <1>3, <1>4, <2>2 DEF Pixel
    <3>2. At(l, c + 1)'
      BY <1>1, <1>2, <3>1, SameLineMoves
    <3>3. c + 1 \in Columns
      BY <1>3, <2>2 DEF Columns
    <3>4. QED
      BY <3>2, <3>3, Zenon
  <2>3. QED
    BY <2>1, <2>2
<1>7. inc_Y' = Size => At(VIDEO_HEIGHT, 0)'
  <2> SUFFICES ASSUME inc_Y' = Size PROVE At(VIDEO_HEIGHT, 0)'
    OBVIOUS
  <2>1. inc_Y' = l * VIDEO_WIDTH + (c + 1) /\ l * VIDEO_WIDTH \in Nat
    <3>1. l * VIDEO_WIDTH \in Nat
      BY <1>3, SMTT(30)
    <3>2. QED
      BY <1>1, <1>2, <1>3, <3>1 DEF At
  <2>2. c = VIDEO_WIDTH - 1
    <3>1. CASE c # VIDEO_WIDTH - 1
      <4>1. c + 1 \in Columns
        BY <1>3, <3>1 DEF Columns
      <4>2. l * VIDEO_WIDTH + (c + 1) < Size
        BY <4>1, SizeBounds
      <4>3. QED
        BY <1>5, <2>1, <4>2
    <3>2. QED
      BY <3>1
  <2>3. NewLine
    BY <1>4, <2>2 DEF Pixel
  <2>4. inc_Y' = l * VIDEO_WIDTH + VIDEO_WIDTH /\ At(l + 1, 0)'
    BY <1>1, <1>2, <2>2, <2>3, NewLineMoves
  <2>5. l = VIDEO_HEIGHT - 1
    <3>1. CASE l # VIDEO_HEIGHT - 1
      <4>1. l + 1 \in Lines /\ 0 \in Columns
        BY <1>3, <3>1 DEF Lines, Columns
      <4>2. (l + 1) * VIDEO_WIDTH + 0 < Size
        BY <4>1, SizeBounds
      <4>3. (l + 1) * VIDEO_WIDTH = l * VIDEO_WIDTH + VIDEO_WIDTH
        BY <1>3, SMTT(30)
      <4>4. QED
        BY <1>3, <1>5, <2>1, <2>4, <4>2, <4>3
    <3>2. QED
      BY <3>1
  <2>6. l + 1 = VIDEO_HEIGHT
    BY <1>3, <2>5
  <2>7. QED
    BY <2>4, <2>6, Zenon
<1>8. QED
  BY <1>1, <1>5, <1>6, <1>7, Zenon DEF VideoInv, Lines, Columns, Size

LEMMA FrameStarts ==
    /\ Size \in Nat /\ Size > 0 /\ 0 # Size
    /\ 0 \in Lines /\ 0 \in Columns
    /\ 0 = 0 * VIDEO_WIDTH + 0 /\ 0 = 0 * frame_buffer_line + 0
    /\ 0 = (0 \div 2) * w2 + 0 \div 2
<1>1. Size \in Nat /\ Size > 0
  BY Halves, SMTT(30) DEF Size
<1>2. 0 \in Lines /\ 0 \in Columns
  BY Halves DEF Lines, Columns
<1>3. QED
  BY <1>1, <1>2, Halves

LEMMA VideoInvInductive == VideoSpec => []VideoInv
<1>1. VideoInit => VideoInv
  <2>1. VideoInit => At(0, 0)
    BY FrameStarts DEF VideoInit, At
  <2>2. 0 \in 0 .. FRAME_NUMBER /\ 0 \in 0 .. Size
    BY FrameStarts, Halves
  <2>3. QED
    BY <2>1, <2>2, FrameStarts, Zenon DEF VideoInit, VideoInv
<1>2. VideoInv /\ [VideoNext]_frameVars => VideoInv'
  <2> SUFFICES ASSUME VideoInv, [VideoNext]_frameVars PROVE VideoInv'
    OBVIOUS
  <2>1. CASE Pixel
    BY <2>1, PixelKeeps
  <2>2. CASE NextFrame
    <3>1. At(0, 0)'
      BY <2>2, FrameStarts DEF NextFrame, At
    <3>2. frame_num' \in 0 .. FRAME_NUMBER /\ inc_Y' \in 0 .. Size
      BY <2>2, FrameStarts, Halves DEF NextFrame, VideoInv
    <3>3. inc_Y' = 0
      BY <2>2 DEF NextFrame
    <3>4. QED
      BY <3>1, <3>2, <3>3, FrameStarts, Zenon DEF VideoInv, Lines, Columns, Size
  <2>3. CASE UNCHANGED frameVars
    BY <2>3, Zenon DEF frameVars, VideoInv, At, Lines, Columns, Size
  <2>4. QED
    BY <2>1, <2>2, <2>3 DEF VideoNext
<1>3. QED
  BY <1>1, <1>2, PTL DEF VideoSpec

-----------------------------------------------------------------------------
(***************************************************************************)
(* For every even size of video, every screen and any number of frames,    *)
(* YUVtoRGB draws each pixel in its place from its luminance and from the  *)
(* chrominance of its block.                                               *)
(***************************************************************************)
THEOREM PixelsInPlace == VideoSpec => []PixelInPlace
<1>1. VideoInv => PixelInPlace
  BY Zenon DEF VideoInv, PixelInPlace, Drawing, At, Lines, Columns, w2
<1>2. QED
  BY <1>1, VideoInvInductive, PTL

\* A quarter of the size is a number of bytes: the planes follow each other.
LEMMA Planes ==
    ASSUME NEW n \in Nat
    PROVE  /\ w2 * h2 \in Nat
           /\ Size = 4 * (w2 * h2)
           /\ Y(n) \in Nat
           /\ U(n) = Y(n) + Size
           /\ V(n) = U(n) + w2 * h2
           /\ Y(n + 1) = V(n) + w2 * h2
<1> DEFINE q == w2 * h2
<1>1. q \in Nat /\ Size = 4 * q
  BY Halves, SMTT(30) DEF Size
<1> HIDE DEF q
<1>2. (Size * 6) \div 4 = 6 * q /\ (Size * 5) \div 4 = 5 * q
  BY <1>1
<1>3. n * (6 * q) \in Nat /\ (n + 1) * (6 * q) = n * (6 * q) + 6 * q
  BY <1>1, SMTT(30)
<1>4. Y(n) = n * (6 * q) /\ Y(n + 1) = (n + 1) * (6 * q)
  BY <1>2 DEF Y
<1>5. U(n) = Y(n) + Size /\ V(n) = Y(n) + 5 * q
  BY <1>2 DEF U, V
<1>6. QED
  BY <1>1, <1>3, <1>4, <1>5 DEF q

(***************************************************************************)
(* For every even size of video and any number of frames: done with a      *)
(* frame, the indices of YUVtoRGB stand at the ends of its planes, each    *)
(* where the next plane begins, and the last where readVideo finds the     *)
(* next frame.                                                             *)
(***************************************************************************)
THEOREM FramesFollowEachOther == VideoSpec => []FramesFollow
<1>1. VideoInv => FramesFollow
  <2> SUFFICES ASSUME VideoInv, inc_Y = Size PROVE
        /\ Y(frame_num) + inc_Y  = U(frame_num)
        /\ U(frame_num) + inc_UV = V(frame_num)
        /\ V(frame_num) + inc_UV = Y(frame_num + 1)
    BY DEF FramesFollow
  <2>1. frame_num \in Nat
    BY Halves DEF VideoInv
  <2>2. inc_UV = w2 * h2
    <3>1. inc_UV = h2 * w2 + 0 \div 2
      BY Zenon DEF VideoInv, At, h2
    <3>2. h2 * w2 = w2 * h2 /\ h2 * w2 \in Nat
      BY Halves, SMTT(30)
    <3>3. QED
      BY <3>1, <3>2
  <2>3. QED
    BY <2>1, <2>2, Planes
<1>2. QED
  BY <1>1, VideoInvInductive, PTL
=============================================================================
