# Specifications of the Elec5 laboratory programs

The repository holds the laboratory work of an embedded systems course: SystemC
models (`systemC/TP`), FreeRTOS programs for the ESP32 (`RTOS`), Linux drivers
and applications (`linux_emb`), a UVM environment (`verif`), and diagrams, SoC
exercises and course documents. Most of its files are the vendored SystemC
2.3.3, vendor IP and generated material. The specifications here model the
programs that were written for the laboratories and that have a behaviour over
time: the MiniUART and the transaction level bus in SystemC, the FreeRTOS
programs with a queue, an interrupt or a shared table, the Linux character
drivers with their profiling commands, and the frame buffer player.

## 1. Inventory

### Modelled

| Part | Source | State it keeps | Operations | What makes it correct |
|---|---|---|---|---|
| Baud rate dividers | `systemC/TP/tp2/src/clk_unit.h` | a 16 bit counter and an enable signal per direction | clock edge, reset | one pulse of one clock every period + 1 clocks |
| Transmitter | `.../tx_unit.h` | `buf`, `reg`, `idx`, two flags, the line | load, transfer, shift, reset | the line carries whole frames of the stored bytes; a byte stored always leaves; it recovers from a reset in mid frame |
| Receiver | `.../rx_unit.h` | shift register, two counters, output byte, three status signals | sample, read, reset | it hands over exactly the frames on the line; a byte is announced; an overwritten byte is reported |
| Assembly and CPU bus | `.../uart.h` | load, read, data and interrupt signals | `interfaceProcess`, `combinationnal` | accesses reach the units; interrupts are edges that someone waits for |
| Test bench | `.../testbench.{h,cpp}`, `test_mini_uart.cpp` | three threads in their waits, the message index | reset, boot write, transmit and receive interrupt threads | the whole message is sent, looped back, read and printed |
| TLM bus | `systemC/TP/tp3/src/*.h`, `main.cpp` | mutex, request registers, memory, interrupt lines | `writeToSlave`, `readToSlave`, slave thread, interrupt threads | every call takes effect once, on its own cell, as on an atomic memory; the mutex comes back; no notification is lost |
| Message queue | `RTOS/tp2/main/lab2-3_main.c` | the queue, three tasks with their computations and dates | send without timeout, receive with 300 ms, computing function task | a message never waits behind another; the timeout ends once between two messages |
| Push button | `RTOS/tp2-4/main/lab2-4_main.c` | pin level, count, queue, polling task | interrupt handler, receive, poll | counts are displayed in order, none twice, and the first ones, as many as the queue holds, are never lost; the task comes back to wait |
| Character drivers | `linux_emb/tp2/character_driver/mydevice.c`, `tp2/led_driver/leds.c`, `tp3/TP_IOCTL/mydevice.c` | registration, buffer, registers, open files | load (with its failures), unload, open, release, read, write, ioctl | loading is all or nothing as far as the code looks; a read copies bytes of the last writes; the LEDs follow the buffer |
| Profiling commands | `tp3/TP_IOCTL/mydevice.c` | cycle counter, `val1`, `val2` | start, stop | the time printed is that from the last start to the last stop |
| Frame buffer player | `linux_emb/tp4/TP_FRAMEBUFFER/videodisplay.c` | four running indices, frame number | `YUVtoRGB`, `readVideo` | every pixel at its place, from its own bytes; frames follow each other |
| Shared table | `RTOS/tp3/main/lab3-1_main.c` | table, two semaphores, mutex, four tasks | timer, increment, decrement, inspection, exit of `app_main` | the inspector never finds the table inconsistent; no activation is lost |

How they interact:

- In the MiniUART everything runs on one clock. The dividers pulse the
  transmitter and the receiver, `txd` is looped to `rxd` by the tests, the test
  bench drives a resolved four-valued bus, and the interrupt signals wake its
  threads *on their edges only*.
- On the TLM bus, masters call methods of the bus object, which locks an
  `sc_mutex`, writes shared registers, notifies an `sc_event` and waits for
  another. `notify()` is immediate: nobody waiting, nothing happens.
- In lab 2-3 a sender and a receiver of equal priority share one core tick by
  tick, below a function task; they meet only in the queue. In lab 2-4 the
  interrupt handler sends the number of edges to a task that polls the same pin.
- In the drivers, processes meet in the one buffer of a driver, and with `insmod`
  and `rmmod` in the registration of a major number. `mydevice` and `leds` have
  the same number, 255: the second to be loaded is refused.
- In lab 3-1 the timer task gives two binary semaphores every 250 ms; two tasks
  on core 0 update the table under a mutex, a third on core 1 checks it.

The hard behaviours are: signals that keep their old value until the next delta
cycle, so that conditions and assignments of one activation see different
times; sampling points that are never realigned; edges and notifications that
are lost when the thread is elsewhere; resets that leave part of the state;
threads that share signals without a lock; element by element updates beside a
reader on another core or byte by byte copies without a lock; drivers half
loaded or unloaded; indices that run along side by side. `PROJECT.json` lists
each at its line ("hazards").

### Not modelled

| Part | Why |
|---|---|
| RTOS labs 1-1 to 1-3 | tasks that only compute and print: no shared data, and how long they compute depends on the processor |
| SystemC `tp1`, `exo1` | modules of a single process whose steps are one assignment each |
| SystemC `exo2`, transactor of Lab4 | unfinished: `DF_Display.cpp` is empty and `DF_Display.h:13` does not compile; the transactor is a template with gaps. A network that was never built has no behaviour to be faithful to |
| OpenCL vector addition | API calls in a row and a kernel without shared writes |
| UVM scoreboards (`verif`) | the scoreboard of day 3 keeps one expected byte and replaces it at every access to address 0. Whether the next write comes before the frame on the line has ended is a matter of a few clocks: of the access times of the vendor's verification IP and of the third party UART it drives, under a commercial simulator. Open times would give mismatches that cannot happen. The scoreboard of day 2 is a FIFO with one writer and one reader |
| Other test mains of the MiniUART | stimuli for a wave viewer; read as documentation of the units |
| `tlm_master_bus_if.h`, `tlm_slave_bus_if.h` | pure virtual interfaces |
| SystemC 2.3.3 | vendored, about 250 000 lines, most of the lines in this repository. The mutex, immediate notification, waking of waiting threads, advance of time and resolution of several drivers are modelled as the programs use them, and mapped to the kernel's lines; channels, tracing, data types and the rest are not |
| FreeRTOS, Linux kernel | not in the repository: queue, semaphores, ticks, registration and memory as the programs use them (map entries marked external) |
| UML, SoC and power exercises, vendor RTL, course documents | diagrams, templates, third party code and text |

Most of what has a behaviour over time and was written for the laboratories is
modelled. The share of all lines in the repository that the models stand for is
small because of the vendored SystemC.

## 2. Modules

| Module | What it is | Code |
|---|---|---|
| `Baud` | abstract divider: an hourglass that pulses when it runs out | |
| `ClkDivider` | `update_tx` / `update_rx`, with the two tests on the enable signal in the code's order | `clk_unit.h` |
| `Frames` | bytes, frames, what is left of a frame | `tx_unit.h`, types |
| `FrameSender` | abstract transmitter: a mailbox before a queue of line bits | |
| `TxUnit` | `update_reg`, one operator per branch | `tx_unit.h` |
| `FrameReceiver` | abstract receiver: open, collect, deliver or drop | |
| `RxUnit` | `rxUpdate` | `rx_unit.h` |
| `ByteChannel` | abstract link: a FIFO of bytes | |
| `SerialLink` | dividers, transmitter and receiver on one clock, line looped back, CPU side reduced to loads and reads | `uart.h` wiring |
| `DriftingLink` | the same with bit lengths that differ | `uart.h`, periods of the tests |
| `UartUnit` | `Uart_unit` complete: units, `interfaceProcess`, `combinationnal` | `uart.h` |
| `MiniUart` | `UartUnit` with the threads of the test bench and the resolved bus | `testbench.*`, `test_mini_uart.cpp` |
| `SharedMemory` | abstract bus: a memory on which each call takes effect once, between its beginning and its return | |
| `TLMBus` | bus, masters, slave, interrupt threads | `systemC/TP/tp3/src` |
| `RtosQueue` | the bounded queue of the RTOS labs: a send that fails when it is full | `lab2-3_main.c`, `lab2-4_main.c` |
| `MsgQueue` | sender, receiver, function task on one core, in ticks | `lab2-3_main.c` |
| `PushButton` | pin, interrupt handler, polling task | `lab2-4_main.c` |
| `CharDrivers` | the three drivers, loaded and unloaded under processes that use them | `mydevice.c` (twice), `leds.c` |
| `Perfmon` | the profiling commands on a wrapping counter | `tp3/TP_IOCTL/mydevice.c` |
| `VideoFrame` | the indices of the player | `videodisplay.c` |
| `SharedTable` | the four tasks, `app_main`, cores and ticks | `lab3-1_main.c` |
| `MC...` | values for the constants of the module they extend; `MCQueueLabs` and `MCLinuxLabs` hold programs that run on one board at different times, and a variable says which | |
| `...Proofs` | theorems about the modules they extend; `LinkProofs` is about `SerialLink` and `DriftingLink`, `RtosLabsProofs` about `SharedTable` and `PushButton`, `LinuxLabsProofs` about `CharDrivers`, `Perfmon` and `VideoFrame` | |

How code becomes state and actions:

- *SystemC methods* (`ClkDivider`, `TxUnit`, `RxUnit`, `UartUnit`): an action is
  one activation. Signals are read unprimed and written primed, which is the
  delta-cycle rule; a plain C++ member that the code reads after it has written
  it in the same activation appears primed (`buff_out'` in `Status`). Clocked
  units move together because they run in the same delta cycle.
- *`MiniUart`* splits a clock period in the three groups of delta cycles in
  which threads, units and interrupts run (`phase`). Every thread has its own
  driver on the resolved signals; `Resolve` is the resolution of
  `sc_signal_resolved`. A thread is the wait it is in (`at`) and the clocks
  left (`timer`).
- *SystemC threads* (`TLMBus`): an action is what a thread does from one
  `wait` to the next, since threads are coroutines. `lock()` on a held mutex,
  `wait(event)` and timed waits are program counter values; time passes only
  when no thread is ready.
- *FreeRTOS tasks* (`SharedTable`): an action is a kernel call or the update of
  one element. Core 0 runs the timer task before the other two; core 1 runs the
  inspector. Time is counted in ticks of 10 ms and a tick passes when neither
  core has anything left to do in it.
- *Lab 2-3* (`MsgQueue`): a computation is a wait for a date, as in the
  program, so that `left` also counts down while another task has the core, and
  the core is needed to go on. `turn` is the time slicing of equal priorities.
- *Lab 2-4* (`PushButton`): the pin keeps one pending edge; when it is served,
  and how often the button bounces, is free. The delay of the poll and the 5 s
  timeout may end at any time.
- *Drivers* (`CharDrivers`): an action is one step that another process or the
  other end of `insmod`/`rmmod` can observe: one byte copied, the load and the
  store of `leds_write`, each stage of loading. An access to a buffer or register
  that is not there kills the process, as a kernel fault does; `insmod` of
  `leds` dies of one too when a mapping has failed, and leaves the driver
  registered (`MapFaults`). `settled`, `met`, `late` and `ledOrder` are histories:
  which bytes the last writes can have left in a cell, whose writes have met a
  call, whose store was overtaken, and whether the last store to the LEDs came
  in order. They restrict no action. So are `elapsed` and `measured` of `Perfmon`.
- *Mutants*: operators named `X_something` beside `X` are wrong variants of `X`,
  kept to make sure that every property fails on some plausible error.

Abstractions: bytes have `DATA_WIDTH` bits with a value each; text printed by
the programs is left out except for the bytes of the message; the priority among
`IncTable` and `DecTable` (equal in the code) is a free choice.

## 3. Runs

| Run | Instance | Distinct states | Shows |
|---|---|---|---|
| `tx_frames` | 2 data bits, all bytes, loads, pulses and resets arbitrary | 257 | `TxTypeOK`, `IdleIsHigh`, `SendsFrames` (implements `FrameSender`), `AlwaysDrains`, `Realigns` |
| `rx_frames` | 2 data bits, line, pulses, reads and resets arbitrary, registers uninitialised | 31 744 | `RxTypeOK`, `ReceivesFrames` (implements `FrameReceiver`), `NewByteSurvivesRead`, `FramesClose` |
| `link_equal_rates` | bit of 32 clocks at both ends, all bytes | 149 921 | `CleanLine`, `DeliversInOrder` (implements `ByteChannel`), `EveryByteArrives` |
| `link_drift` | bit of 31 clocks sent, 32 received, 20 bits | 772 549 | `InStepDelivers`: right below half a bit of drift |
| `uart_message` | message of 3 characters and NUL, pointer size 3, boot write at any of 36 phases, reset left at either level | 5 123 | `SendsMessage`, `ReceivesMessage`, `AccessesGoThrough`, `PrintsOneReadLate`, `MessageGetsThrough`, `PulsesOnTime` (both dividers implement `Baud`) |
| `bus_calls` | 2 masters, 2 cells, 1 address past the memory, 2 values | 89 760 | `OneRequest`, `NoLostRequest`, `NoLostRelease`, `ImplementsMemory`, `NoLostInterrupt`, `BusIsReleased` |
| `table_lab` | the delays of the program, 5 elements | 9 112 | `TypeOK`, `NeverInconsistent`, `Balanced`, `NoLostActivation`, `EveryoneGetsTheMutex` |
| `queue_labs` | labs 2-3 and 2-4: the delays and the queue length of the programs, 8 edges | 5 144 | `EveryMessageIsAwaited`, `TimeoutsAlternate`; `CountsInOrder`, `QueueDrains` |
| `linux_labs` | 2 processes, 2 bytes; a counter of 6 values; a video of 6 by 4 pixels on lines of 8, 3 frames | 797 725 | `DriverIsWhole`, `ReadsLastWrites`, `LedFollowsBuffer`; `PrintsLastInterval`; `PixelInPlace`, `FramesFollow` |
| `rx_overrun`, `link_slip` | as `rx_frames` and `link_drift`, with 24 bits | | disagreements, see section 5 |
| `uart_boot` | as `uart_message`, with the reset left as `testbench.cpp:54` leaves it | | the same |

Why the bounds are enough:

- *Dividers.* Periods 31 and 1 in the runs, 4167 and 260 in the tests; every 16
  bit period is proved.
- *Two data bits.* `DATA_WIDTH` enters only through the position of the data
  bits; two have a first, a last, and tell the bit orders apart. What the
  runs check of the transmitter, of the receiver, of the loop and of the whole
  UART is proved for every width.
- *Bits of 32 clocks.* Sixteen samples of two clocks are the least for which the
  receiver's pulse is a pulse. The state keeps the phase between the dividers,
  so every spacing of loads within a bit is there. The safety properties of the
  loop and of `MiniUart` are proved for all periods.
- *`MAX_BITS`* is the horizon of `DriftingLink`, 20 bits for the pass run (four
  frames; half a bit of drift is reached after 15) and 24 for the other. With
  the periods of the tests the same limit is 260 bits: 4168 clocks are sent per
  bit and 4176 received (`DriftOfTheTests`). `InStep` looks at the bit under way
  and at the next one, so that it is right for a receiver that runs ahead as for
  one that falls behind.
- *Three masters* on one cell were checked as well (715 200 states) with the
  same outcome; the bus safety properties are proved for any number.
- *Five elements*: four comparisons of one tick each take the 40 ms that 399
  comparisons of 100 us take. The safety properties are proved for every size.
- *Eight edges* are more than the five messages of the queue, so that counts are
  dropped while others wait, and `QueueDrains` empties a full queue.
  `CountsInOrder` is proved for any number.
- *Lab 2-3* has no bound: the dates of the three tasks repeat, and the run goes
  through the whole period for both orders of the equal tasks.
- *Two bytes* have a first one, which is the one the LEDs show and the one that
  `memset` clears, and a last one; a copy can be cut between them. Two processes
  are two writers, or a writer and a reader; the properties of the drivers are
  proved for any number of both.
- *A counter of 6 values* wraps after each of the places where a measurement can
  be, and differences reach both halves of its range; `PrintsLastInterval` is
  proved for every width of the counter.
- *6 by 4 pixels*: two pairs of lines and three blocks in each, on a screen
  line that is longer; the properties are proved for every even size.
- *`Balanced`* is what bounds the table; there is no bound on the rounds.

The test bench may leave the reset at either level in `uart_message`: at the one
at which the units run, as `test_uart_unit.cpp:52` does, the message gets
through; at the one `testbench.cpp:54` leaves, no byte ever departs. The message
is as long as a pointer in the program (8 characters on a 64 bit host) and in
the run (3): the bound at `testbench.cpp:25` is `sizeof` of a pointer and the
index is incremented before it is used, so that on such a host the terminating
NUL is sent after the message. `SendsMessage` and `MessageGetsThrough` are about
the message with its NUL. Characters beyond would be read past the string on
hosts with longer pointers; `BenchAssumption` excludes this.

## 4. Fairness

- `TxUnit`, `RxUnit`: a pulse of the divider with no load (transmitter)
  comes back for ever. The divider is a clocked method with no condition that
  stops it, and a write cycle of the bench lasts three clocks. A reset that
  stays is not excluded: weak fairness is on the pulse alone, and `Realigns` is
  about behaviours in which resets end.
- `SerialLink`, `MiniUart`: the clock goes on. Nothing is assumed of the CPU
  side, which may do nothing for ever.
- `TLMBus`: the SystemC kernel runs every ready thread before time passes, so
  each thread is treated fairly. No fairness on `TimePasses`, nor on masters
  that stop calling. `sc_mutex` promises nothing about who gets it next, and no
  property says that every master gets its turn.
- Lab 2-3: the core goes on and time passes; no property needs more. Lab 2-4: a
  pending interrupt is served and the only task of the program gets its turn.
  Nothing is assumed of the button: `QueueDrains` is about behaviours in which it
  is released for good.
- The Linux labs have safety properties only: no process must go on.
- `SharedTable`: both cores run their ready tasks and ticks go on. Nothing is
  assumed about who gets the mutex; `EveryoneGetsTheMutex` follows from the
  delays.

## 5. What the runs found

| Run | Where | Disagreement |
|---|---|---|
| `rx_overrun` | `rx_unit.h:80` | the comment at line 62 announces `output_err` when an unread byte is overwritten; a read in the clock that completes the next byte clears the flag set in the same activation and the byte is lost in silence |
| `link_slip` | `rx_unit.h:43` | the comment at line 59 takes a stop bit at 1 for the end of the transmission; a start bit does not restart `sample_count`, so unequal bit lengths add up over frames until a byte that was never sent is handed over with a good stop bit |
| `uart_boot` | `testbench.cpp:54` | the bench prints "Write Boot" with the first character (line 17) and writes it (line 18); `resetTest` has just left reset at false, the level at which the units are held in reset (`tx_unit.h:30`; `test_uart_unit.cpp:52` releases them with true): neither this character nor another ever leaves |

Other things the models show, without a run of their own:

- With the reset released, which the bench itself never does, each of its reads
  would return the byte of the read before: `interfaceProcess` is not sensitive
  to `rx_data` (`uart.h:63`), which changes a clock after `read` rises
  (`PrintsOneReadLate`).
- The comment at `lab2-3_main.c:122` calls the receiver's wait infinite; its
  timeout of 300 ms ends once before every message (`TimeoutsAlternate`).
- `mydevice` and `leds` share major number 255: only one of them can be loaded.
- The drivers leave `.owner` unset, so that `rmmod` succeeds while a file is
  open or a call is under way; the next access is to a driver that is gone.
- Two writes to the LEDs may leave them different from the buffer, when the
  store of one falls between the load and the store of the other.
- `leds_init` does not look at the results of `request_mem_region` and `ioremap`
  (`leds.c:67-69`): `insmod` can succeed without a data register, and the first
  write is then killed at its store; or it dies itself at line 70 and leaves its
  major number taken for good. `DriverIsWhole` therefore promises no registers to
  a loaded `leds`, and `LedFollowsBuffer` speaks of stores that were made.
- The difference of the two counter values is printed with `%d`: from 2^31
  cycles on it is negative. A start by another process restarts the measurement,
  and what is printed is the time since the last start, whoever gave it. Only
  when the stop falls between the reset and the read of a start, or a start
  between the read and the print of a stop, is it no interval at all.

## 6. Proofs

All are checked by `tlapm`. They rest on the named assumptions about the
constants, which the runs evaluate: `WidthAssumption`, `TxAssumption`;
`LinkPeriods`, `UartPeriods` (periods a 16 bit counter can count),
`LinkPayloads`, `UartPayloads` (what is sent are bytes); `BenchAssumption` (the
message with its NUL is longer than a pointer, as section 3 explains),
`HorizonAssumption`; `BusAssumption`, `TableAssumption`, `QueueAssumption`,
`EdgesAssumption`, `DriversAssumption`, `PerfAssumption` and `VideoAssumption`.
`ClkDivider` is used with several periods and assumes nothing: its theorems have
`PeriodFits` as a hypothesis. Conditions beyond these are hypotheses in the
theorems, named where they are used below.

**The UART**

- **`ClkDividerProofs`**: `DivTypeCorrect` and `DivImplementsBaud` for every
  period from 1 to 65535. Invariant: the type, and `enable => cnt = 0`. Without
  the second part, the test that ends a pulse could also swallow the beginning
  of the next one. `BumpCounts` shows that the 16 bit addition never wraps by
  itself below the period.
- **`TxUnitProofs`**: `TxTypeCorrect`, `LineRestsHigh` and `TxSendsFrames` (the
  refinement of `FrameSender`) for every width, set of bytes and placing of
  loads, pulses and resets. Invariant `TxInv`: a register holds a byte whenever
  its flag says so, and the line is at 1 when the shift register is free. The
  lemmas `RestShifts` and `RestEnds` say that the bit `idx` selects is the head
  of what is left of the frame and that nothing is left after the stop bit;
  `ShiftCases` reduces the branches of the shift to "one bit of the frame" or
  "nothing". After a reset `idx` is what the next frame will lack, which is the
  variable `skip` of `FrameSender`.
- **`RxUnitProofs`**: `RxTypeCorrect`, `RxReceivesFrames` (the refinement of
  `FrameReceiver`) and `RxKeepsNewByte`, for every width and any line, pulses,
  reads and resets. The invariant is the type itself. `shift_reg` fills from the
  top and is never cleared, so the bits of the open frame are its `DataBits`
  highest ones: `DataMaps` shows that one more shift appends the line to them,
  `StopMaps` that after the last one nothing older is left, `ReceiverSteps`
  puts the branches together. `RxKeepsNewByte` needs that only a stop bit at 1
  on an enable pulse delivers (`DeliversCompletes`).
- **`LinkProofs`**, the loop of `txd` to `rxd`. `EqualRatesClean` (`CleanLine`) and
  `EqualRatesDeliver` (the refinement of `ByteChannel`), for every width, all
  periods with equal bit lengths and any spacing of loads; `DriftDelivers`
  (`InStepDelivers`) for all periods; `DriftOfTheTests`: with the periods of the
  tests, `InStep` is `bits < 260`. The invariant is `LinkInv(lag)`, where `lag` is
  by how many clocks the looks of the receiver have moved in the bits of the
  transmitter since the reset. It gives the phase of both dividers within a bit
  as one number (`PhaseTx`, `Elapsed`) and ties the two by `lag` (`Timing`), so
  that there is exactly one look in every bit; and it ties the registers at both
  ends by `Shape`: nothing under way, or the receiver has collected exactly the
  bits of `wire` that the transmitter has put on the line, or the transmitter has
  gone on while the receiver has still to look at the stop bit. With equal bit
  lengths `lag` is 0 for ever; otherwise it changes with every bit (`NextLag`)
  and the invariant holds as long as `InStep` does.
- **`MiniUartProofs`**, the unit with its bench, for every message, width, pointer
  size, both levels the reset may be left at and every phase of the boot write.
  - `DividersPulseOnTime`: both dividers implement `Baud` through the resets of
    the bench, from `ClkDividerProofs`.
  - `MessageIsSent` (`SendsMessage`), for all periods. `MsgInv` follows a
    character from the index of the bench to the line: where the threads can be
    (`Stations`), what the unit holds in either register (`Content`, `Queued`,
    `Held`), and for each of the two writers that its data is stored exactly
    once while the buffer is free (`AtBoot`, `Write`, `TxIrq`). It has to count
    the edges of the interrupt: one that comes while the thread is not waiting
    would end the message.
  - `EqualRatesReceive`, `EqualRatesPrint` and `EqualRatesAccess`
    (`ReceivesMessage`, `PrintsOneReadLate`, `AccessesGoThrough`), for all periods
    with equal bit lengths. Invariant `BenchInv(lag)`: the loop is that of
    `LinkInv(lag)` from the end of the reset on, and what keeps the threads apart
    without the mutex is time: the transmit thread writes in the first clocks of
    a bit (`SendsEarly`), the receive thread reads in the three clocks after the
    look that completes a byte (`ReadsAtOnce`, `Hears`), in the middle of one;
    what is printed is one read behind (`PrintsLate`).
  - `DriftIsHarmless`: the same for all periods, while the drift leaves the looks
    room for an access on both sides (`Fits`). `CountedSpec` adds the number of
    bits sent to the state; it restricts no action. `BenchOfTheTest`: with 4167
    and 260 that is for the first 259 bits, and `test_mini_uart.cpp` simulates 8
    ms, 76 bits.

**The bus**

- **`TLMBusProofs`**: `RequestsAreExclusive`, `RequestsAreSeen`,
  `ReleasesAreSeen`, `BusImplementsMemory` and `InterruptsAreSeen`, for any
  masters, memory size and values. The first three are inductive only together,
  with the states of the masters and the slave (`BusInv`): that the slave is in
  its wait when a request is posted needs that no other request is open, which
  needs the mutex, whose release needs that the master woken is the owner. The
  refinement (`ImplementsMemory`) follows from it. A call is made when the master
  begins it, locked out or not, and takes effect when the slave serves it: then
  `addr` and `is_read` are those of the call that holds the mutex, and of a write
  `data` too (`WriteOK`), and no other master is acknowledged. Between the
  acknowledgement and the `return data` after the unlock there is no `wait`, so
  that no other request changes the answer: the slave is not ready while a master
  is acknowledged. For the interrupts (`IrqInv`): time passes only once their
  threads are in their waits, and they are notified only after time has passed.

**The RTOS labs** (`RtosLabsProofs`)

- *Lab 3-1*, for every table size and all delays. `TableTypeCorrect` and
  `InspectorNeverComplains`: `TableInv` says that whoever is in its loop holds the
  mutex (`Holders`), that all elements are the same amount away from their first
  values but for the part of a loop already done (`InStep`), and that the
  inspector's reference is still the first element (`Checking`).
- `NoActivationLost`, under `RoomInPeriod`:
  `2 * (Last + TABLE_WORK) <= PERIOD - TIMER_WORK`, which is 18 <= 23 in the
  program. The invariant `TimeInv` says that the tasks can be done before the
  timer gives again: `Due(n)` is, for each combination of what is still open, an
  upper bound of the ticks it takes, with the inspector in the mutex first and
  again between the two tasks, and one task kept off the core by the other. Each
  tick has to bring it down by one (`TickRound`), whatever order the tasks get
  the core and the mutex in. `UseInv` rules out a semaphore that is given to a
  task still computing.
- `TableStaysBalanced`, under `RoomInPeriod` and `Compensates`, that
  `CONST_NUMBER = ACTIVATIONS + 1` (5 = 4 + 1 in the program): the table is
  `Base` away from its first values, a function of the activations counted so
  far and of the two tasks that have yet to use theirs (`BalanceInv`). It needs
  that no activation is lost (`RoundsInv`).
- *Lab 2-4*, for every queue length and any number of edges:
  `ButtonCountsInOrder`. The counts displayed and those in the queue are one
  sequence, to which the handler appends, and of which the task only moves the
  border: with the type, `CountsInOrder` is inductive as it stands.
  `NextCountInOrder` is the step with room in the queue, `LostCountInOrder` the
  one without.

**The Linux labs** (`LinuxLabsProofs`)

- *Drivers*: `DriversAreWhole`, `ReadsAreOfLastWrites`, `LedsFollowBuffer`, for any
  processes and buffer size. `LoadInv` gives for every stage of loading and
  unloading what is registered, allocated and mapped; that a driver holds its
  major number exactly from registration on is what keeps the refused one from
  undoing it. `CopyInv` ties each byte of the buffer to its history: it is among
  those the last writes can have left, or a write under way has passed over it
  (`SettledIsThere`); two calls of which one writes have met (`CallsHaveMet`), and
  what a write has passed over is its own byte or of one it has met
  (`WritesAreMet`), which is what it settles when it ends (`SettledEnd`). `LedInv`:
  with a register (`Lit`), it and the buffer differ only while a write that has
  changed the buffer has its store still before it, and a store that was
  overtaken is known as such.
- *Profiling commands*: `MeasuresLastInterval` (`PrintsLastInterval`), for any
  processes, commands in any order and every width of the counter. `PerfInv`: the
  counter is as many cycles `After` `val1` as have elapsed since `val1` was read,
  once around its end or not, and `val2` as many as were measured; `Difference` is
  the unsigned subtraction over that wrap.
- *Player*: `PixelsInPlace` and `FramesFollowEachOther`, for every even size, screen
  line and number of frames. `VideoInv` gives the four indices as functions of
  line and column, also behind the last pixel, where they stand at the ends of
  the planes; what is left is arithmetic of products and halves (the area of an
  even size is a multiple of four: `Planes`), in lemmas of its own because the
  solver does not multiply.

Assumptions on the data that the code does not check: a write to a driver is not
longer than its buffer (the applications pass less); the video has even sides,
as those of the program; `int` products in `readVideo` stay below 2^31, which
holds up to 1553 frames of 1280 by 720.

Only model-checked:

- the liveness properties, since fairness and `ENABLED` are outside this prover:
  `AlwaysDrains`, `FramesClose`, `EveryByteArrives`, `MessageGetsThrough`,
  `BusIsReleased`, `EveryoneGetsTheMutex`, `QueueDrains`; and `Realigns`, which is
  about behaviours in which resets end. The invariant of `NoActivationLost` gives
  the safety side of `EveryoneGetsTheMutex`: whenever the timer works again, both
  tasks have had the mutex;
- lab 2-3: `EveryMessageIsAwaited` and `TimeoutsAlternate` are about the delays of
  the program as they are. The three dates have a common period, and the run
  goes through it; which condition on delays in general the properties follow
  from is open.

## 7. What is left

In the order in which it would be taken up:

1. Lab 2-3: a condition on its three delays under which a message never waits
   behind another, and its proof.
2. The transactor between bus and UART (`Lab4`) and the data flow network
   (`exo2`), when their sources are complete.
3. The scoreboard of the UVM lab, with the access times of the verification IP
   taken from a simulation.

A run answers one question of one composition; a question of a smaller instance
goes into the larger run.
