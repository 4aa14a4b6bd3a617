---------------------------- MODULE CharDrivers -----------------------------
(***************************************************************************)
(* The three character drivers of linux_emb, written from one template:    *)
(* mydevice (tp2/character_driver), leds (tp2/led_driver) and mydevice     *)
(* with ioctl commands (tp3/TP_IOCTL), loaded and unloaded while processes *)
(* open, read, write and control them.                                     *)
(*                                                                         *)
(* Nothing is locked: a copy from or to user space goes byte by byte, and  *)
(* every step may be followed by one of another process.  A process writes *)
(* its own name in every byte.                                             *)
(***************************************************************************)
EXTENDS Naturals, Sequences

CONSTANTS Processes, MAX_BUFFER_SIZE, None

Drivers == {"mydevice", "leds", "mydevice_ioctl"}
MAJOR   == [mydevice |-> 255, leds |-> 255, mydevice_ioctl |-> 259]
Majors  == {255, 259}

NUL     == "NUL"
Garbage == "garbage"        \* what kmalloc leaves in a byte
Cells == 0 .. MAX_BUFFER_SIZE - 1
Bytes == Processes \cup {NUL, Garbage}
Stale == "stale"            \* a file whose driver is gone

ASSUME DriversAssumption ==
    MAX_BUFFER_SIZE \in Nat \ {0} /\ None \notin Drivers /\ None \notin [Cells -> Bytes]

VARIABLES built,            \* the modules of the lab session
          chrdev,           \* the driver registered for a major number
          phase,            \* where module loading or unloading is
          buffer,
          registers,        \* of the LEDs: mapped or not
          led,              \* the LED data register
          file,             \* the open file of a process
          call,             \* its system call
          settled,          \* history: the bytes that writes may have left
          met,              \* history: whose writes have met the call
          late,             \* history: stores to led that another has overtaken
          ledOrder          \* history: was the last store to led in order?

history == <<settled, met, late, ledOrder>>
drvVars == <<built, chrdev, phase, buffer, registers, led, file, call, history>>

NoCall == [op |-> "none", at |-> 0, count |-> 0, byte |-> NUL]

\* The device nodes exist, no module is loaded.
DrvInit == /\ built \in {{"mydevice", "leds"}, {"mydevice_ioctl"}}
           /\ chrdev = [m \in Majors |-> None]
           /\ phase = [d \in Drivers |-> "out"]
           /\ buffer = [d \in Drivers |-> None]
           /\ registers = "unmapped" /\ led = NUL
           /\ file = [p \in Processes |-> None]
           /\ call = [p \in Processes |-> NoCall]
           /\ settled = [d \in Drivers |-> [i \in Cells |-> {}]]
           /\ met = [p \in Processes |-> {}]
           /\ late = {} /\ ledOrder = "unknown"

-----------------------------------------------------------------------------
\* insmod: module_init of the driver.
Goes(d, from, to) == phase[d] = from /\ phase' = [phase EXCEPT ![d] = to]

RegisterChrdev(d) ==
    /\ chrdev[MAJOR[d]] = None
    /\ Goes(d, "out", IF d = "leds" THEN "map" ELSE "allocate")
    /\ chrdev' = [chrdev EXCEPT ![MAJOR[d]] = d]
    /\ UNCHANGED <<buffer, registers, led, file, history>>

\* Mutant: a busy major number is handled by the common error exit.
MajorIsBusy_fail(d) ==
    /\ chrdev[MAJOR[d]] # None
    /\ Goes(d, "out", "unregister")
    /\ UNCHANGED <<chrdev, buffer, registers, led, file, history>>

\* The error is returned at once, nothing is undone.
MajorIsBusy(d) ==
    /\ chrdev[MAJOR[d]] # None
    /\ Goes(d, "out", "out")
    /\ UNCHANGED <<chrdev, buffer, registers, led, file, history>>

\* request_mem_region and ioremap may fail, which leds_init does not look at.
\* Without its data register the driver goes on.
MapRegisters ==
    /\ Goes("leds", "map", "allocate")
    /\ registers' \in {"mapped", "unmapped"}
    /\ UNCHANGED <<chrdev, buffer, led, file, history>>

\* Without the tri-state register its iowrite8 faults: insmod is killed, and
\* the module stays for good as it is.
MapFaults ==
    /\ Goes("leds", "map", "stuck")
    /\ registers' \in {"mapped", "unmapped"}
    /\ UNCHANGED <<chrdev, buffer, led, file, history>>

\* kmalloc, then memset of the first byte only.
Allocate(d) ==
    /\ Goes(d, "allocate", "live")
    /\ buffer' = [buffer EXCEPT ![d] = [i \in Cells |-> IF i = 0 THEN NUL ELSE Garbage]]
    /\ settled' = [settled EXCEPT ![d] = [i \in Cells |-> {buffer'[d][i]}]]
    /\ UNCHANGED <<chrdev, registers, led, file, met, late, ledOrder>>

AllocateFails(d) ==
    /\ Goes(d, "allocate", "unregister")
    /\ UNCHANGED <<chrdev, buffer, registers, led, file, history>>

-----------------------------------------------------------------------------
\* rmmod, which an open file does not hold up because the drivers leave
\* .owner unset; and the module_exit that it or a failed load calls.
Rmmod(d) ==
    /\ Goes(d, "live", "unregister")
    /\ settled' = [settled EXCEPT ![d] = [i \in Cells |-> {}]]
    /\ ledOrder' = IF d = "leds" THEN "unknown" ELSE ledOrder
    /\ UNCHANGED <<chrdev, buffer, registers, led, file, met, late>>

UnregisterChrdev(d) ==
    /\ Goes(d, "unregister", IF d = "leds" THEN "unmap" ELSE "free")
    /\ chrdev' = [chrdev EXCEPT ![MAJOR[d]] = None]
    /\ UNCHANGED <<buffer, registers, led, file, history>>

UnmapRegisters ==
    /\ Goes("leds", "unmap", "free")
    /\ registers' = "unmapped"
    /\ UNCHANGED <<chrdev, buffer, led, file, history>>

\* kfree if there is a buffer; then the kernel drops the module, in the
\* middle of a call or not.
Free(d) ==
    /\ Goes(d, "free", "out")
    /\ buffer' = [buffer EXCEPT ![d] = None]
    /\ file' = [p \in Processes |-> IF file[p] = d THEN Stale ELSE file[p]]
    /\ call' = [p \in Processes |-> IF file[p] = d THEN NoCall ELSE call[p]]
    /\ met' = [p \in Processes |-> IF file[p] = d THEN {} ELSE met[p]]
    /\ late' = {p \in late : file[p] # d}
    /\ UNCHANGED <<chrdev, registers, led, settled, ledOrder>>

Module == \/ /\ \/ \E d \in built : \/ RegisterChrdev(d) \/ MajorIsBusy(d)
                                    \/ Allocate(d) \/ AllocateFails(d)
                                    \/ Rmmod(d) \/ UnregisterChrdev(d)
                \/ MapRegisters \/ MapFaults \/ UnmapRegisters
             /\ UNCHANGED <<built, call>>
          \/ (\E d \in built : Free(d)) /\ UNCHANGED built

-----------------------------------------------------------------------------
\* The file operations.  chrdev_open looks the major number up, so /dev/leds
\* and /dev/mydevice are the same device.
Open(p, m) == /\ file[p] = None /\ chrdev[m] # None
              /\ file' = [file EXCEPT ![p] = chrdev[m]]
              /\ UNCHANGED <<buffer, led, call, history>>

Release(p) == /\ file[p] \in Drivers /\ call[p].op = "none"
              /\ file' = [file EXCEPT ![p] = None]
              /\ UNCHANGED <<buffer, led, call, history>>

Peers(p)   == {q \in Processes \ {p} : file[q] = file[p] /\ call[q].op \in {"read", "write"}}
Writing(p) == call[p].op = "write"

\* A call copies count bytes; a write meets every copy under way.
Begin(p, op, count) ==
    /\ file[p] \in Drivers /\ call[p].op = "none"
    /\ call' = [call EXCEPT ![p] = [op |-> op, at |-> 0, count |-> count, byte |-> NUL]]
    /\ met' = [q \in Processes |->
                 IF q = p THEN {r \in Peers(p) : Writing(r)}
                 ELSE met[q] \cup {r \in {p} : q \in Peers(r) /\ op = "write"}]
    /\ UNCHANGED <<buffer, led, file, settled, late, ledOrder>>

\* read copies the whole buffer whatever count is.
Read(p)         == Begin(p, "read", MAX_BUFFER_SIZE)
Write(p, count) == Begin(p, "write", count)
IoctlSetMsg(p)  == file[p] = "mydevice_ioctl" /\ Begin(p, "write", MAX_BUFFER_SIZE)
IoctlGetMsg(p)  == file[p] = "mydevice_ioctl" /\ Begin(p, "read", MAX_BUFFER_SIZE)

InCall(p, op) == file[p] \in Drivers /\ call[p].op = op
Copying(p)    == call[p].at < call[p].count

\* Mutant: the copy starts at the second byte.
CopyFromUser_shifted(p) ==
    /\ InCall(p, "write") /\ Copying(p) /\ buffer[file[p]] # None
    /\ buffer' = [buffer EXCEPT ![file[p]][(call[p].at + 1) % MAX_BUFFER_SIZE] = p]
    /\ call' = [call EXCEPT ![p].at = @ + 1]
    /\ UNCHANGED <<led, file, history>>

CopyFromUser(p) ==
    /\ InCall(p, "write") /\ Copying(p) /\ buffer[file[p]] # None
    /\ buffer' = [buffer EXCEPT ![file[p]][call[p].at] = p]
    /\ call' = [call EXCEPT ![p].at = @ + 1]
    /\ UNCHANGED <<led, file, history>>

CopyToUser(p) ==
    /\ InCall(p, "read") /\ Copying(p) /\ buffer[file[p]] # None
    /\ call' = [call EXCEPT ![p].at = @ + 1]
    /\ UNCHANGED <<buffer, led, file, history>>

ReadReturns(p) ==
    /\ InCall(p, "read") /\ ~Copying(p)
    /\ call' = [call EXCEPT ![p] = NoCall]
    /\ met' = [met EXCEPT ![p] = {}]
    /\ UNCHANGED <<buffer, led, file, settled, late, ledOrder>>

\* History: the write of p ends; where it has been, it or those it met wrote last.
Settles(p) ==
    /\ met' = [met EXCEPT ![p] = {}]
    /\ settled' = [settled EXCEPT ![file[p]] =
                     [i \in Cells |-> IF i < call[p].count /\ phase[file[p]] = "live"
                                      THEN {p} \cup met[p] ELSE @[i]]]

WriteReturns(p) ==
    /\ InCall(p, "write") /\ ~Copying(p) /\ file[p] # "leds"
    /\ call' = [call EXCEPT ![p] = NoCall]
    /\ Settles(p)
    /\ UNCHANGED <<buffer, led, file, late, ledOrder>>

\* Mutant: the byte that was passed is stored, not that of the buffer.
LoadLed_passed(p) ==
    /\ InCall(p, "write") /\ ~Copying(p) /\ file[p] = "leds" /\ buffer["leds"] # None
    /\ call' = [call EXCEPT ![p] = [op |-> "store", at |-> 0, count |-> 0, byte |-> p]]
    /\ Settles(p)
    /\ UNCHANGED <<buffer, led, file, late, ledOrder>>

\* leds_write goes on: it reads the first byte of the buffer again and
\* stores it in the register.
LoadLed(p) ==
    /\ InCall(p, "write") /\ ~Copying(p) /\ file[p] = "leds" /\ buffer["leds"] # None
    /\ call' = [call EXCEPT ![p] = [op |-> "store", at |-> 0, count |-> 0,
                                    byte |-> buffer["leds"][0]]]
    /\ Settles(p)
    /\ UNCHANGED <<buffer, led, file, late, ledOrder>>

StoreLed(p) ==
    /\ InCall(p, "store") /\ registers = "mapped"
    /\ led' = call[p].byte
    /\ ledOrder' = IF phase["leds"] = "live" /\ p \notin late THEN "kept" ELSE "unknown"
    /\ late' = {q \in Processes \ {p} : InCall(q, "store")}
    /\ call' = [call EXCEPT ![p] = NoCall]
    /\ UNCHANGED <<buffer, file, settled, met>>

\* An access to what is not there: the kernel kills the process.
Needs(p)  == IF Copying(p) THEN {"buffer"}
             ELSE IF call[p].op = "store" THEN {"registers"}
             ELSE IF file[p] = "leds" /\ call[p].op = "write" THEN {"buffer"}
             ELSE {}
Faults(p) == \/ file[p] = Stale
             \/ /\ call[p].op # "none" /\ file[p] \in Drivers
                /\ \/ "buffer" \in Needs(p) /\ buffer[file[p]] = None
                   \/ "registers" \in Needs(p) /\ registers = "unmapped"

Killed(p) == /\ Faults(p)
             /\ file' = [file EXCEPT ![p] = None]
             /\ call' = [call EXCEPT ![p] = NoCall]
             /\ met' = [met EXCEPT ![p] = {}]
             /\ late' = late \ {p}
             /\ UNCHANGED <<buffer, led, settled, ledOrder>>

Process(p) == /\ \/ \E m \in Majors : Open(p, m)
                 \/ Release(p) \/ Read(p) \/ IoctlSetMsg(p) \/ IoctlGetMsg(p)
                 \/ \E count \in 0 .. MAX_BUFFER_SIZE : Write(p, count)
                 \/ CopyFromUser(p) \/ CopyToUser(p) \/ ReadReturns(p) \/ WriteReturns(p)
                 \/ LoadLed(p) \/ StoreLed(p) \/ Killed(p)
              /\ UNCHANGED <<built, chrdev, phase, registers>>

DrvNext == Module \/ \E p \in Processes : Process(p)

DrvSpec == DrvInit /\ [][DrvNext]_drvVars
-----------------------------------------------------------------------------
(***************************************************************************)
(* Safety: loading is all or nothing as far as the code looks.  A driver   *)
(* whose insmod has succeeded is the one registered for its major number   *)
(* and has its buffer; one that is not loaded has left nothing behind,     *)
(* also where kmalloc failed half way or the major number was another      *)
(* driver's.  A live leds may lack its register, and one whose insmod was  *)
(* killed in leds_init is neither loaded nor out.                          *)
(***************************************************************************)
DriverIsWhole ==
    \A d \in Drivers :
       /\ phase[d] = "live" => chrdev[MAJOR[d]] = d /\ buffer[d] # None
       /\ phase[d] = "out"  => chrdev[MAJOR[d]] # d /\ buffer[d] = None
       /\ d = "leds" /\ phase[d] = "out" => registers = "unmapped"

(***************************************************************************)
(* Safety: without a lock, every byte a read copies from a loaded driver   *)
(* was left there by the last write that covered it or by one that         *)
(* overlapped with that write or with the read: overlapping writes may be  *)
(* mixed, but no byte is of a message that another has covered since.      *)
(***************************************************************************)
ReadsLastWrites ==
    \A p \in Processes :
       InCall(p, "read") /\ Copying(p) /\ phase[file[p]] = "live"
       => buffer[file[p]][call[p].at] \in settled[file[p]][call[p].at] \cup met[p]

(***************************************************************************)
(* Safety: the LEDs show the first byte of the buffer whenever nobody      *)
(* writes, even after writes that overlapped, unless the store of one of   *)
(* them fell between the load and the store of another.                    *)
(***************************************************************************)
LedFollowsBuffer ==
    phase["leds"] = "live" /\ ledOrder = "kept"
        /\ (\A p \in Processes : file[p] = "leds" => call[p].op \notin {"write", "store"})
    => led = buffer["leds"][0]
=============================================================================
