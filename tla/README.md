# A verification model of the TMC temperature readout firmware

The firmware runs on a Nios II soft processor in a MAX 10 FPGA. It measures the
2N2222 temperature sensors of four boards through twelve AD7124-8 converters
(SPI), prints the results on a UART, receives heater commands from a host on the
same serial line and sets the heaters' LTC2605 DACs (I2C). Below the program lie
the board support package (the HAL and the drivers, which are part of the
repository) and the cores of the system. This directory holds TLA+ models of its
hardware and software, the TLC runs that check them and the proofs that TLAPS
checks. Here and in comments, `main.c` is
`software/tmc_temperature_readout/tmc_temperature_readout_main.c`,
`i2c_opencores.c` the copy beside it, which is the one the Makefile builds, and
files of the HAL and the drivers are those of `software/nios2_sw_bsp`.

## Inventory

| Component | State | Operations | Talks to | Hard part |
|---|---|---|---|---|
| Pass timing: `timer_0`, `handle_timer_interrupts()`, the wait in `main()` | counter, run bit, TO, control register; `loop_done` | arm, elapse, report, wait, clear | interrupt line; `loop_done` is read by `read_rx_fifo()`, too | interrupt against three stores of `main()` |
| RS-232 receiver `rs232_des.v` | synchroniser, bit counters, shift register | one clock edge | pushes into the FIFO | clock error, metastability, breaks |
| Receive FIFO `fifo_1024_8` and PIOs | words, output register, edge detector, PIO registers | push, pop, register accesses | `read_rx_fifo_char()` | flags and data that lag; full FIFO |
| Command link `read_rx_fifo()`, drain loop | `str1`, `nbytes`, FIFO | poll, store, terminate, time out, execute, calibrate | FIFO, pass clock, DAC write | timeout in the middle of a line; reused buffer |
| Command text `execute_cmd()` | chunk state | one chunk | DAC write | string conversions, integer widths |
| DAC write `write_ltc2605()`, `i2c_opencores.c` | four bytes per frame | I2C_start, I2C_write | registers of the I2C master | polls of a registered flag; refused bytes |
| I2C master `i2c_master_*.v` | bit, byte and register level | one clock edge | bus lines | clock stretching, arbitration |
| ADC measurement: `setup_conv()`, `read_chan()`, `calibrate_ad7124_8()`, `print_table()` | result arrays | configure, sleep, read | SPI | results read a fixed time after the start |
| SPI master `tmc_nios2_spi_0`, `altera_avalon_spi.c` | shift and holding registers, credits | one command | 12 converters through the MISO multiplexer | one byte in flight |
| Console UART `tmc_nios2_uart_0`, `altera_avalon_uart_*.c` | rings, control shadow, settings | read, write, close, ioctl, interrupt | host, CTS | rings and shadow shared with the handler |
| JTAG UART and `altera_avalon_jtag_uart_*.c` | rings, FIFOs, seconds of silence | the same | debugger, alarms | rings without a lock; a host that leaves |
| HAL alarms `alt_alarm_start()`, `alt_tick()` | list, times, roll-over flags | start, stop, tick, callback | system clock; users: profiler, JTAG UART | roll-over; a list changed while it is walked |
| HAL descriptors `alt_open()` ... | descriptor table, device lists | open, close, lock, read, ... | drivers | failed opens, high-water mark, prefixes |
| Interrupt dispatch, exception entry | tables, enables, frames | register, disable, dispatch, trap, nest | all handlers | half-written entries, return addresses |
| On-chip flash and driver | cells, protection, status | read, erase, write | flash controller | operations that fail half way |
| HAL time, heap, profiler, printing | ticks, heap end, lists, characters | gettimeofday, sbrk, mcount, printf | timer, alarms | word sizes; handlers in between |
| Address map | - | one access | interconnect and all cores | two descriptions of the same addresses |
| Board wiring `tmc_firmware_top.v`, `config_ind.v`, PLL | - | combinational | everything | - |

What makes each component correct: the timer loses no period and reports none
twice; the receiver passes on what was sent; FIFO and PIOs are a queue; commands
are executed once, in order, as sent, whatever came before them; each DAC frame
and each SPI command reaches its chip exactly as asked; each printed value is
the result of the conversion in its column; the consoles carry every byte once
and in order; alarms are called when they are due; handlers run for what asked for
them; errors are reported and leave nothing behind; every loop that waits ends.

## Modules

| Module | Models |
|---|---|
| `IntervalTimer` | `tmc_nios2_timer_0.v`: the next value of every register on a clock edge, given the bus access |
| `LoopTimer` | the timer, the handler and the timing skeleton of `main()`; one action per register access or flag access |
| `PassClock` | abstract: armed, elapsed once, cleared |
| `CommandText` | `execute_cmd()`, and a reference grammar of command lines |
| `CommandLink` | `read_rx_fifo_char()`, `read_rx_fifo()`, the drain loop and the wait of `main()`, over the FIFO and a `PassClock` |
| `CommandService` | abstract: what the link promises the host |
| `Rs232Des` | `rs232_des.v`, `sync.v`, `negedge_detector.v`, and a host |
| `RxFifo` | `fifo_1024_8.v`, `posedge_detector.v`, the three PIOs, the register accesses of `read_rx_fifo_char()` |
| `ByteQueue` | abstract: a bounded queue of bytes |
| `I2cMaster` | the three Verilog modules of the I2C master |
| `DacWrite` | `write_ltc2605()` and the driver over `I2cMaster`, with a slave |
| `SpiMaster` | `tmc_nios2_spi_0.v` and the MISO multiplexer, one clock edge |
| `SpiCommand` | `alt_avalon_spi_command()` over `SpiMaster`, with the converters' shift registers |
| `SpiTransaction` | abstract: a command exchanges its bytes with its chip and returns the answers |
| `Ad7124` | the converter: conversions and calibrations that take time, results, errors (external) |
| `AdcMeasure` | the measurements of a pass, the table, the calibration |
| `UartDriver` | UART, interrupt driver and polled driver of the console, with CTS |
| `JtagUart` | the same for the JTAG UART, with a host that comes and goes |
| `ConsoleIoctl` | `ioctl()` of both consoles, and the alarm that counts the silence of the JTAG host |
| `Alarms` | `alt_alarm_start()`, `alt_alarm_stop()`, `alt_tick()` and the list they share |
| `AlarmClock` | abstract: an alarm is called when it is due and at no other time |
| `IrqDispatch` | `alt_iic_isr_register()`, critical sections, `alt_irq_handler()` |
| `Exceptions` | exception entry and exit, instruction exceptions, nested interrupts |
| `Files` | `alt_main()`'s start-up, `open()`, `close()`, locks, flags, and the calls handed on to drivers |
| `OnchipFlash` | `altera_onchip_flash.c` over a controller that may fail |
| `HalTime` | system clock and timestamp drivers, wall clock, delay loops |
| `Profiler` | `sbrk()`, `mcount`, the histogram of the program counter |
| `Printing` | `alt_log_printf()` and its hooks, `alt_printf()`, the buffers of `alt_putchar()` |
| `SystemMap` | `system.h`, register headers and linker map against interconnect, cores and interrupt mapper |
| `*_proofs` | theorems about `LoopTimer`, `SpiCommand`, `AdcMeasure`, `DacWrite`; in `CommandLink_proofs` `CommandLink`, `RxFifo` and `Rs232Des`, in `Interrupts_proofs` `IrqDispatch` and `Alarms`, in `Consoles_proofs` `UartDriver` and `JtagUart`, in `Library_proofs` `Exceptions`, `ConsoleIoctl`, `OnchipFlash`, `Files`, `HalTime` and `Profiler` |
| `MC...` | constants of the runs, and the parts that share a run |

How they fit: `LoopTimer` implements `PassClock` (checked, and proved for every
period), and `CommandLink` uses `PassClock` in place of the timer. `RxFifo`
implements `ByteQueue` (checked, and proved for every depth); `CommandLink` uses a
sequence with the same steps (`Arrive`, `Poll`). `CommandLink` implements `CommandService`. `Rs232Des` is what
stands behind `ByteComes` of `RxFifo`, and `DacWrite` behind the append to
`executed` in `CommandLink`. `SpiCommand` implements `SpiTransaction`, whose
commands are the register accesses that `AdcMeasure` takes in one step. `Alarms`
implements `AlarmClock`, which is what calls `nios2_pcsample` in `Profiler` and
`altera_avalon_jtag_uart_timeout` in `JtagUart` and `ConsoleIoctl`. The sections
that those modules take as one step because interrupts are disabled rest on
`DispatchHolds` of `IrqDispatch`.

### LoopTimer

`pc` is the statement `main()` is at, `isr` the one the handler is at. `main()`
does not move while the handler runs, and the handler starts between any two
steps of `main()` once it is registered and the timer's `irq` is up. Each
access to a timer register is one clock edge with that access; between accesses
any number of plain edges (`Clock`) pass. The measurements (`Measure`) and the
drain (`Drain`) are steps of any length, since they touch neither timer nor flag.
The model is independent of the real period (6 s, not the 3 s that the comments at
main.c:548 and 701 mention: the load value is 0x11E1A2FF at 50 MHz).
`age` counts the edges since the last START, up to `AgeCap` = Period + 2.

### CommandText and CommandLink

Characters are ASCII codes. `Tokens` and `Strtok` are what the calls of `strtok()`
return and leave behind; `Atoi` is `atoi()`; both are libc and modelled by what
they compute. `Chunk` is one turn of the loop of `execute_cmd()`. Numbers of more
than nine digits overflow `atoi()`'s int, which C leaves undefined, and are kept
out of the inputs.

In `CommandLink` every statement of `read_rx_fifo()` that reads the FIFO or
`loop_done`, or stores into `str1`, is an action. `str1` is an array with some cells behind
it (`Beyond`), initially of any content in `InitialBytes`: the real one is an
uninitialised local. The host's characters arrive at any time. `Calibrate` holds
the CPU until the period is over, because its two sleeps (11 s) exceed the period.

`CommandService` says what survives of this for the host: while the pass has time
left and the line fits, whole lines, each with exactly its own commands; otherwise
fragments, with no promise about what they execute. That weakness is real
(see Findings).

### Rs232Des and RxFifo

One step of `Rs232Des` is one clock edge at the real 50 MHz and 115200 baud. A line that changes
at an edge may be caught late (metastability of the first flip-flop). The host's bit time is not
the receiver's: `HostAssumption` says how far it may be off, which is 414 to 459 cycles instead of 434. It is
exact, for with 413 or 460 cycles `ReceivedAsSent` is violated, and so it is when only one cycle of high line is between
a break and the next frame, which the synchroniser may miss; a gap of g leaves the line high for g + 1 cycles. The FIFO
is taken as not full; the line carries frames and pauses only, no glitches (see Noted without a run). `RxFifo` has the full case. There, a step is one clock edge
on which a byte may arrive and the CPU may make its next access. The vendor's
`scfifo` is modelled by its parameters: no show-ahead,
overflow and underflow checking, a written word readable from the second edge.
The FIFO is 512 deep (`lpm_numwords`) although it is called `fifo_1024_8`.

### I2cMaster and DacWrite

The core's registers are three records, one per Verilog module, and an edge
computes each from the values before it. The driver makes the same register
accesses in the same order as `I2C_init()`, `I2C_start()` and `I2C_write()`; a write stays on
the bus for two edges, as `wb_ack_o` is registered. The slave is external: it
collects bits, answers each byte with ACK or NACK as it likes, and may stretch SCL.
I2C_init()'s write of IACK has no effect, since the core ignores the command
register while it is disabled. `ClkCnt` must not be 0 (here it is 99): the bit
controller would take its old command a second time.

### SpiMaster, SpiCommand, AdcMeasure

The SPI core is one record and `NextCore` gives its value behind an edge. An
access of the driver lasts two edges and any number of edges may pass between
two accesses. A chip that is selected shifts on the edges of SCLK and answers
whatever it likes. RXDATA may hold a byte from before the first command. Half a bit is `Divisor` edges, 500 in the code;
`SpiAssumption` asks for more than 2. A command writes at least one byte, as those of every caller do.

`AdcMeasure` has one step per register access of `setup_conv()`, `read_chan()` and
the calibration. Converters take any time up to `ConvTime`, `GainTime`, `OffsTime`;
nothing waits for them but `usleep()`. `SleepAssumption` says that the sleeps are
as long: main.c:583 gives 133 ms for a conversion and means to sleep 160 ms, and
main.c:52 gets this with `115*1000` ("oddly"), because the delay loop of this
processor takes more cycles than alt_busy_sleep.c assumes. A build in which that is
no longer so breaks the assumption, and with it `TableIsOfThisPass`. A result
carries, as history, the registers, coefficients and the pass it was made with. No tick comes
between the start of a conversion and the read of ERR behind it (under a millisecond).

### UartDriver, JtagUart, ConsoleIoctl

The shipped build defines `ALT_USE_SMALL_DRIVERS`, so that its console is the
polled driver; the interrupt drivers are in the same files, are what a build
without that option gets, and are where the hard cases are. Both are modelled.
Bytes are numbered, so that `BytesInOrder` compares what came out with what
went in. A handler's accesses are steps of their own, since the hardware moves between
them; a section with the interrupts disabled is one step. The UART's `rxd` is not
connected on this board and the JTAG UART is not a standard stream; the
models take the drivers as they are. A program uses the calls of one of the two
drivers, since a build has only one of them. The loops of the JTAG driver read `host_inactive` afresh,
although it is not volatile: a compiler that keeps it in a register would wait for ever.
`ConsoleIoctl` leaves out requests for speed 0 that would be accepted: the driver divides by it.

### Alarms, IrqDispatch, Exceptions

`nticks` and alarm times are words of `TickRange` values (2^32 in the code). A callback may
set its alarm again or start another one; it may not stop the alarm behind it on the list,
for `alt_tick()` has read that one already and would go round in it for ever.
In `IrqDispatch` a device holds its line until its handler has served it; every
store of a registration is a step. `Exceptions` has the registers that the entry code
saves, the address it returns to, and handlers that let more urgent ones in by
`alt_irq_interruptible()`. Handlers themselves raise no exceptions.

### Files, OnchipFlash, HalTime, Profiler, Printing, SystemMap

- `Files`: a program uses descriptors it holds, or -1. With a released descriptor
  the calls go through a null pointer. `alt_sys_init()` registers one device or
  filesystem in a step; `registered` counts them.
- `OnchipFlash`: a byte is one bit wide, TRUE when erased; an operation succeeds,
  fails, or is refused, and takes any time up to the controller's own limit, which is
  below the driver's (350 ms against 700 ms). `SECTOR_READ_PROTECTION_MODE` makes
  sectors 3 to 5 unavailable although `system.h` enables the third.
- `HalTime`: the handler runs within a period and the period divides a second. The
  sleeps are not exact multiples of the longest loop: there the loop runs 2^32 times more. A
  timestamp after the full period is 0, as one comment of the driver says and another denies (see Noted without a run).
- `Profiler`: a handler is one step, the heap of the run is large enough for the profiler (nobody looks at the -1),
  the text is a whole number of buckets, and all functions hash to one list. `sampling.starts` counts the starts
  of the sampler's alarm; when it was started twice (see Noted without a run) no more samples are taken in the model, for the list
  of alarms is no longer one.
- `Printing`: the directives by what they print at a reduced word size. The log's
  `%` conversions know no precision: it is read over, as the model does. "^D" stands for
  the end-of-transmission character that the echo of `write()` must not pass on.
- `SystemMap`: an access names a register field by the software's headers, and the
  hardware side says which bits of which slave it reaches.

## Runs

There are six passing runs. Where a run has several *parts*, they share no
state: a behaviour is one of one part (`part`, chosen by the initial state) and
the others stay at rest, which checks each by itself in one run.

| Run | Question | Bounds |
|---|---|---|
| `loop_timer` | no lost wakeup, no short pass, refinement of `PassClock`, measuring goes on | Period 12: longer than the access sequences of handler and main(), so that every relative timing occurs |
| `command_link` | *receiver*: bytes received as sent. *fifo*: flags, refinement of `ByteQueue`, every byte taken. *drain*: no store outside `str1`, refinement of `CommandService`, measuring goes on, FIFO emptied. *text*: `execute_cmd()` against the grammar | two frames of four kinds, bit times of 414, 434, 459 cycles (the shortest, the nominal and the longest that work), back to back and with gaps of 1, 434, 2000 cycles; depth 3, 6 bytes: empty, wrap, full and loss; two commands, a calibration and an unfinished line, with a FIFO of 12 and a buffer of 8 for 19 characters: both overflow, a line fills the buffer exactly; all lines of up to 6 pieces, of which one is a whole command but for its end: two whole commands, and words before, between and behind them |
| `dac_write` | frames as requested, acknowledges, clean bus, no false arbitration loss, the polling loops end | two frames, every pattern of refusals, clock stretching of any length; prescale 1 instead of 99 (every bit phase takes two edges instead of 100, which only removes idle edges) |
| `converters` | *bus*: no overrun, refinement of `SpiTransaction`, calls return. *measurements*: the table is of this pass, errors are of their result, a calibration holds | a write and a read of two bytes, bytes of 3 bits, half a bit of 4 edges; three chips on two MISO lines; two converters and two channels instead of 12 and 6, any order of passes and calibrations, one input out of range |
| `hal` | *uart*, *jtag*: bytes in order, calls return and bytes drain. *alarms*: refinement of `AlarmClock`. *irq*: handlers match and sections hold | rings of 2 and 3, a FIFO of 2, programs of up to four calls, a host that disconnects, one turn of CTS; words of 2 bits and three alarms: the roll-over comes every fourth tick; two lines and two handlers |
| `library` | *flash*, *files*, *time*, *map*, *profiler*, *printing*, *exceptions*, *ioctl*: one property each, two for the profiler (blocks, arcs), and the lock of a device | three sectors of one block, the last unavailable, two calls that fail in every way; 5 descriptors; a word of 5 bits and a second of 12 us; the real address map; three arcs and one sample per bucket; all formats of two directives; five instructions and three lines; speeds 0, 2, 5 of a 12 Hz clock and INT_MAX = 6 |
| `command_text_separators`, `command_link_sent`, `dac_write_fault`, `uart_deadlock`, `uart_errors`, `settimeofday` | *violated*: see Findings | those of the passing runs, but for a time that is set later (`settimeofday`) |

`command_link`, `hal` and `library` do not check deadlock, because some of their
parts end when their input is used up (frames, lines, calls). A part that must go on is covered by a
liveness property instead. The passing runs take from half a minute to about
three minutes each.

### Fairness

- `LoopTimer`: weak fairness of the clock edge, of the handler and of `main()`. The oscillator
  does not stop, an enabled interrupt is taken, and the CPU executes instructions.
- `CommandLink`: the same for `Elapse` (a theorem of `LoopTimer`'s run) and `main()`; the
  host owes nothing, not even the end of a line. The fairness of `main()` is written with its
  enabling condition spelled out, which says the same and is cheaper to evaluate.
- `RxFifo`: the CPU goes on polling. The deserialiser owes nothing.
- `DacWrite`: the clock and the CPU run, and the slave lets go of SCL again and
  again. Without the last assumption the driver's loops do hang: they have no timeout.
- `SpiCommand`: the clock and the CPU run. The chips owe nothing.
- `UartDriver`: the UART shifts, the CPU runs and takes its interrupts, CTS rises
  again, and a byte comes while the program reads. Nothing makes the host send otherwise.
- `JtagUart`: the host, as long as it is there, takes what is there, sends and pauses;
  the CPU runs. A host that leaves owes nothing, and the calls return by the alarm.

## Proofs

Eight modules, with no assumption beyond the named ones on the constants:

**`LoopTimer_proofs`**, for every `Period` in Nat \ {0}: `TypeCorrect`, `WakeupNeverLost`,
`NoShortPass`, `RestartFromRest` are the four
invariants of run `loop_timer`; `Implementation` says that `LoopTimer` refines `PassClock`.
None of the invariants is inductive. `NoLostWakeup`, say, does not know that a
running counter will be reloaded, that the handler is registered or that TO will not be
cleared by someone else. `IInv` says instead that a pass is always in exactly one of four stages:
`Counting` (with age + counter = Period), `Elapsed` (TO set), `Reporting` (the handler
between its stores), `Done` (`loop_done` set), and that outside a pass the timer is
at rest. Three lemmas about a clock edge (at rest, counting, with a control
write) carry the arithmetic; one lemma per group of actions shows which stage follows
which; refinement follows because only `StartTimer`, `IsrSetDone` and `ClearDone` change the
pair (armed, `loop_done`).

**`CommandLink_proofs`**, for every `RX_BUF_SIZE` above 1, every depth, every `Script` and every initial content of
memory: `LinkTypeCorrect`, `StoresCorrect` (nothing is stored outside of `str1`) and `PassedOn` (what
`execute_cmd()` finds in `str1` are the characters read since its last call, at most one line of them, and a NUL behind
a whole line that fits). `StoresInBounds` is not inductive, as it does not say why a `store` is reached with room left:
`Fits` bounds `nbytes` at every label and ties it to the number of characters read, and `Ended` says that no earlier
character ended the line. `PassedOn` is also the exact border of finding 1: the NUL is
promised for whole lines, and a line that is cut has none.
In the same module, for every `Depth` above 0 and any number of bytes: `FlagsCorrect` (a read pulse never
finds the FIFO empty, a write pulse never finds it full) and `QueueImplemented`
(refinement of `ByteQueue`). The flags are old when they are relied on, so that the
invariant has to say for how long they stay true: `Seen` (a "not empty" that the CPU
has read, or is about to read, holds until its pulse), `Room` (a word on its way has a
place), `Pulse` (the edge detector lags one edge) and `InHand` (between the pulse and the end of the read the
output register holds the one byte the CPU gets). The queue is output register, store
and input register in a row; the lemmas about sequences say that moving a word from
one to the next leaves their concatenation alone.
And for every clock and baud rate, all frames, any number of them, all pauses and every bit time within
`HostAssumption`: `BytesAreReceived`. The invariant has no table of sampling instants. Host and
receiver both count the cycles of a frame (`Elapsed`, `Counted`), and `InStep` says that the receiver is two or three cycles behind,
which is its synchroniser, from the edge it starts on to the stop bit. The rest is arithmetic: the lemma about bit times turns
`HostAssumption` into the statement that the cycle in which the receiver looks at bit k is in bit k of the host, two cycles or more behind its beginning,
and in the stop bit with three left, early enough to be idle before the next start bit. `BitSettles` and `PauseSettles` say what the flip-flops hold as a bit ages; without
the second a break could be followed by an edge that nobody sent. `BitsTaken` and `AllPassedOn` follow the byte from the line to `written`.

**`DacWrite_proofs`**, for every `ClkCnt` of 1 to 65535 (the prescaler's register), every list of requests, and a slave that stretches
the clock and refuses bytes as it likes, on a bus without a short circuit (`~Faults`; with one, finding 3 applies): `FramesAreAsRequested`,
`ReturnsTheAcknowledge`, `ArbitrationIsKept` and the action property `BusIsClean`. None of them is inductive: a
frame is right only because each of its bits was on the line at the right edge. `DacInv` has three layers.
`Registered`, `Commanded` and `Paired` relate the driver's position, CR and TIP, and the states of byte and bit controller; a byte is under
way exactly while the driver polls. `Ticks` is what makes the prescaler drop out of everything else: two ticks are
at least two edges apart, so that at a tick the delayed copy of the SCL output equals it, and the core's counter waits while the slave holds SCL.
A prescaler of 0 would break it, which is why the assumption excludes it. `Shifting` says where in the shift register, including its two steps of delay, the rest of the byte is.
The layer of the lines has one part for each stage: `Resting`, `Starting`, `Writing`, `Answered`, `Stopping` say for every state of the bit controller which
levels the lines have and what the slave has seen; a bit counts as seen from the edge at which it finds SCL high. `Framed` and `Acknowledged` count
frames and follow the answer from the slave through the core to the caller. The lemma `Sees` draws from these which events the slave may take part in, in
which state; the rest is one lemma for each part of the invariant.

**`SpiCommand_proofs`**, for every width and every divisor above 2, every script and every speed of the CPU against
the core: `NothingOverruns` and `CommandsAreTransactions` (refinement of `SpiTransaction`). `NoOverrun` looks at single
edges; what keeps it true is that driver and core share one byte. `Engine` and `OneByte` say where that byte is
(held, transmitting, or ready to be read) and tie it to `credits`; `Seen` says that what the driver read in the status still
holds when it acts on it. The refinement needs the bits as well: `Selection` (the chip select is asserted from the second
access of a call to its last), `Transmission` (after k bits, the shift register holds the rest of the byte and k bits of the answer),
`Exchanged` (the chip has seen the bytes written, but for the one under way) and `ReadBack` (which of the answers are
discarded and which stored).

**`AdcMeasure_proofs`**, for every number of converters, up to six channels, and all times that `SleepAssumption`
admits: `PrintedIsMeasured`, `ErrorsAreOfTheResult` and `CalibrationIsKept`. `Place` says which batch main() is at.
`Converting` says how far each converter has been set up, that the present batch is the one it works on, that what is left of its
conversion is no more than what is left of `usleep()`, and that it is therefore idle when it is read; this is the one place where
`SleepAssumption` is used, and where a build that breaks it would fail. `Tables` says which rows
are filled, by batch: no later batch overwrites a row, because no two batches have a row in common.

**`Interrupts_proofs`**, for every number of lines and every set of handlers: `IrqTypeCorrect` and
`DispatchCorrect`. `IrqInv` says which entries of the table may be half written (only that of the registration under way, and
only at the steps in between), that interrupts are disabled there, and that an enabled line always has a handler;
`Enabled` relates PIE, the program's section, the registration and the handler that runs. That `Lowest` finds a member of a set
of lines needs the well-foundedness of the naturals, which the library's theorems give.
In the same module, for every set of alarms and every word size: `AlarmTypeCorrect` and `AlarmsImplementClock`
(refinement of `AlarmClock`). The list is a ring in which `next` and `previous` are inverse (`IsList`), and
its order is a rank of the alarms (`Ranked`), so that no induction over the list is needed. `Ahead` says that whatever `alt_tick()` must not miss,
an alarm that is due or a flag that the roll-over has outdated, is not behind the entry it is at; insertion
at the head and removal during the walk keep that. `InTime` says that no alarm of the present turn is overdue.

**`Consoles_proofs`**, for every ring and FIFO size, every set of programs, and any number of bytes, turns of CTS and departures of
the host: `JtagBytesInOrder`, `UartBytesInOrder` and, for the run that has both, `BothConsolesInOrder`. The lemmas at
the beginning are about rings: what is between two indices, as a sequence, and what putting and taking bytes does to it.
In `JtagInv` every byte is numbered and each place holds a stretch of numbers (`JtagOut`, `JtagIn`); the rings have no
lock, so `JtagCopy` says that the slots `write()` has computed from its snapshot of the handler's index are still free when
the handler has moved it, and `JtagRoom` that the space the handler has read from the FIFO is still there when it writes. The UART may lose bytes, so that its invariant is about ordered sequences one below the other
(`UartOut`, `UartIn`) and accounts for the others in `lost` and `dropped`. `UartSeen` says that what the handler and the polls saw in the status is still
true when they act on it, `UartPut` that the slot `write()` has found stays free. Only a handler that is called for CTS
writes without a look at TRDY and may overwrite a byte. `UartTurns` bounds that loss: it counts the turns of CTS whose event the
handler has still to see or to act on (`TurnAhead`, `TurnSeen`), and the bytes lost and those together are at most the turns so far. On the way in the
theorem accounts for every byte dropped, but does not say that a byte with an error is (finding 6), nor that a full ring refuses one (see Noted without a run).

**`Library_proofs`**, for every set of lines, every program, every choice of instructions that fault and every depth of
nesting: `ExceptionsAreServed`. `Nested` says that every frame but the top one belongs to a handler that lets others in, that the
CPU accepts interrupts exactly when the top one does, and that a nested entry still finds a line to serve: it can
therefore not be taken for a faulting instruction. `Returns` says where the lowest frame will continue, which is one further
while `resume` holds the address to skip to. `Urgent` bounds what is above a handler, what the mask admits and what
will be restored by the priority of the handler; `alt_irq_non_interruptible()` is safe only because the mask it puts back is bounded too.
For every frequency, built-in speed, set of speeds and time-out: `SettingsAreKept`. `SpeedSet` says that the settings in the driver
always pass its own check, which is why a refused request is undone completely; `SilenceCounted` that the
count of silent seconds stops below the value that means "for ever".
For every page and word size, every partition into sectors and regions, all calls and all failures: `ReportsAreTrue`. `FlashAsReported`
speaks of calls that have returned; `FlashInv` follows them. `Polled` says that age of an erasure and polls left add up to the
driver's limit, so that the controller, which gives up earlier, is never left erasing; `Erased` that a status "passed" is of the
page that was asked for, and not an old one; `Programmed` that the words up to `data_offset` hold the data and the others what
programming started from, so that clearing bits is enough; `Behind` that the blocks before the present one hold theirs.
For every number of descriptors, all devices, filesystems and names, and all calls of a program that uses what it holds:
`DescriptorsAreTheirs` and `LockIsExclusive`. `Searched` says that a descriptor that has a lock is a device's and at most the
highest ever allocated, so that `open()`, which looks no further, sees every lock; that is also true of a lock taken on standard
input, output or error, which `alt_open_fd()` overwrites without allocating them, because `open()` has raised the limit before.
`OpenedAs` follows device and mode from `open()` on; `OwnerIsDirectory` is the
comparison of `alt_find_file()`, where a mount point may end in a slash or not and the character behind it decides.
For every length of a second, a word and a timer register, every period that divides a second, and every sequence of calls in
which the time is set before its microseconds fill a word (finding 5 is what happens later): `TimeIsKept`. `InCharge` says that only
the driver the build asks for has the timer, and that timeouts are ticks or one that is pending; `SetBack` that the time at reset,
which may be negative, is the one set less what had elapsed; `TicksElapsed` that seconds from a quotient and microseconds from a
product never drift apart. `Stamping` is the invariant of the timestamp: between start and roll-over
counter and clocks add up to full scale, and a snapshot keeps what it was when the halves are read. `RoundsBounded` is `usleep()`.
For every heap, every size of slab and entry, every program, every handler and every order in which they allocate: `BlocksAreApart`, as long as no
`sbrk()` has failed for the profiler. Without that condition it is false, as an entry would be carved from address -1. `HeapSafe` counts what is left of the slab as
one more block, which is nobody's, so that carving an entry from it and starting a new slab are both steps from one set of disjoint blocks to
another; `BufferKept` says that the buffer of the samples is one of them, at its full length.

Only model-checked:

- all liveness properties: fairness and ENABLED are beyond the prover;
- `ParsesLine` and the refinement of `CommandService`: `Tokens` and `Atoi` are recursive over the characters of a line,
  and induction over data is beyond the installed provers;
- the fault run of `DacWrite`: with a short circuit the frames are not promised, and one statement is violated (finding 3);
- `ArcsRecorded`, `PrintingKept`: counts of a sequence of calls and digits of a number, that is sums over data and powers of a base;
- `AccessesArrive` is about constants only, and TLC evaluates all of them.

## Findings

1. `command_link_sent`: main.c:345-349. When the period ends in the middle of a
   line, the string is returned without its terminator, and `execute_cmd()` reads
   on into an earlier line. "c 1 2 3" and then "c 4 5 " cut off set DAC 5 of board 4 to 3.
2. `command_text_separators`: main.c:381. The comment names ' ' and '\n' as
   separators; only ' ' is one. "c 67 0 \n" executes with data 0.
3. `dac_write_fault`: i2c_opencores.c:75. After a lost arbitration `I2C_start()` returns
   ACK. The caller ignores the result today.
4. `uart_deadlock`: altera_avalon_uart_init.c:262. The second look at CTS, meant to avoid a
   deadlock, does not undo an earlier throttling: CTS that rises between the two looks of a
   handler called for a received byte leaves the transmitter off for ever. Not in the shipped build (small drivers).
5. `settimeofday`: alt_settod.c:83. The product of ticks and microseconds is cut to 32 bits there
   and not in `gettimeofday()`; after 72 minutes the time set is not the time read. No system clock in the shipped build.
6. `uart_errors`: altera_avalon_uart_init.c:162. "If there was an error, discard the data": the byte is left in RXDATA with its error
   cleared, and the next interrupt takes it for a good one. Not in the shipped build (small drivers).

Noted without a run:

- the receiver (rs232_des.v:83-92) does not look at the line again in the middle of the start bit, so
  that a low glitch on an idle line is passed on as the byte 0xFF; the line of the model has no glitches;
- a full receive ring of the interrupt-driven UART (altera_avalon_uart_init.c:182) turns the receive interrupt off, but a handler
  called for the transmitter or for CTS stores a byte all the same, and so may one that comes behind a `read()` that enables RRDY:
  the full ring is an empty one. `BytesInOrder` accounts for what is forgotten and does not exclude it. Not in the shipped build;
- the profiler (alt_gmon.c:167-170) tests and clears `pcsample_need_init` with the interrupts enabled, so that a handler in
  between makes main start the sampler a second time, with a second histogram and an alarm that is twice in its list
  (`sampling.starts` = 2 in `Profiler`). Not in the shipped build, which does not profile;
- alt_sbrk.c:46-48 says that bounds are not checked and memory is allocated even if it overflows; line 88 checks them, and
  `BlocksApart` rests on it;
- altera_avalon_timer_ts.c:92-94 says that `alt_timestamp()` returns -1 when the timer has run its full period; it returns 0, as
  lines 57-58 of the same file say and `TimestampKept` requires;
- a write to the flash that begins where no region is registered, as in sectors 3 to 5 of this device, returns 0 and writes
  nothing (altera_onchip_flash.c:329, against line 299), and a range that runs out of a region loses its tail. The run has
  both, and `FlashAsReported` promises nothing about their data;
- the drain loop (main.c:690) has no bound of its own, so a
  host that never pauses keeps `main()` from measuring; the comments on the
  period are off by a factor of two;
- `alt_fd_lock()` (alt_fd_lock.c:61) stops its search one before the highest descriptor and
  so grants a lock on a device that the highest one has open;
- a read of the flash (altera_onchip_flash.c:73) reports only the state of its last word;
- `altera_avalon_uart.h`:240 passes `PARITY == 'N'` where the macro expects whether there is
  parity, so that the settings of a UART without parity say that it has one;
- the comment "Return code was 0: Skip" of the exception entry says the opposite of its code;
- the heartbeat of the log (alt_log_printf.c:470) comes every interval plus one ticks;
- `write()` of the small UART driver with length 0 does not end.

## Not modelled

- CPU, PLL, memories, system ID and the Verilog of the flash controller: generated vendor IP. What the
  models take from them is stated where they use it.
- Arbitration, traffic limiters and width adapters of the interconnect: they order accesses, which
  the models take one at a time, and do not choose among destinations.
- `alt_exception_muldiv.S`: pure arithmetic. Caches and DMA: the system has none. `crt0.S` and `alt_load()`
  run once before anything concurrent exists. The system calls that only return an error.
- The LED and I/O enable outputs and `config_ind.v` have no behaviour worth a model.
- `I2C_read()`, byte reads and the interrupt of the I2C core: never used.
- Layout of the printed table; bits on the line of the console's transmitter.

## Plan

1. Done: the command path from the serial line to the I2C bus; the measurements from the SPI bus to the table; the consoles,
   the HAL's interrupts, alarms, files, time, heap, flash and printing; the address map. Proofs for `LoopTimer`, `RxFifo`,
   `CommandLink`, `DacWrite`, `IrqDispatch`, `SpiCommand`, `AdcMeasure`, `Alarms`, `Exceptions`, `OnchipFlash`, `Files`, `HalTime`, `Profiler`, `Rs232Des` and the consoles.
2. Models to come: the deserialiser of the console's receive side against `Rs232Des`, and the flash controller's Verilog.
