# Verification of the RTOS hardware abstraction layer

TLA+ models of the drivers under `src/hal/source`, checked with TLC on small
instances and, where marked, proved with TLAPS for every value of the constants.
`PROJECT.json` lists the runs, the mutants of the code each property must catch,
the source lines every definition stands for, the hazards and the theorems.

## 1. Inventory

The layer is a set of drivers for one chip family. Each driver has a `hal_*`
interface for tasks, an interrupt handler, and registers. Tasks are preempted by
handlers and by each other; some drivers guard shared state with a spin lock that
disables interrupts, others with a mutex or with nothing. Beyond interrupts, the
concurrency is between the core and hardware that moves on its own: the DMA
engine, the I2C bus, the other core behind the message box, the image pipeline.

| component | state | operations | what is hard | what makes it correct |
|---|---|---|---|---|
| DMA channel manager (`dma/hal_dma.c`) | array of channels (used, list of descriptors, callback, cyclic), enable and status registers | request, install callback, prepare (memory, device, cyclic), start, stop, free, free descriptors, status, interrupt | handler works on a snapshot; callback runs outside the lock; free does not stop the hardware | one holder per channel; descriptors owned by one list; hardware never walks freed memory; callback only for the transfer that earned it |
| DMA clients (`test/dma/test_dma.c`, TWI) | position in the order of calls | the order of calls | the interface relies on it | as above |
| TWI engine (`twi/hal_twi.c`) | message list, index (also error code), status, semaphore, bus | transfer, interrupt state machine | timeout against late interrupt; one variable for count and error | OK only when all bytes moved; every call returns |
| Message box, AMP (`msgbox/msgbox_amp`) | linked list of endpoints, enable register, hardware queues | allocate, free, send, interrupt, standby | handler walks a list under change; unlocked register update; full queues | no word lost, repeated or reordered; list walkable at any time; words do not wait unseen |
| Message box, SX (`msgbox/msgbox_sx`) | send and receive buffers per channel | send, interrupt for both directions | second send before the first ended; retry in the handler | `tx_done` once for each message; words in order, none lost |
| ISP statistics (`vin/vin_stat`, part of `vin_isp/sunxi_isp.c`) | three buffers, flags between handler and worker | load and save interrupt, worker | hardware, handler and worker at three paces; load and save served out of order | a copied buffer is fresh, complete, in order; statistics never stop |
| VIN pipeline (`vin/vin.c` and the sub-devices) | memory, stream counter and hardware path of each sub-device; counters of the logic devices that videos share; the DMA interrupt of four channels | probe, start, wait for exposure, stop, free, in the order of `csi_init`; interrupts and work queues | two videos share devices, the first is freed while the second streams; one interrupt line for four channels | a shared part is on while a user needs it and off after the last; freed devices are left alone; `csi_init` comes back |
| VIN TDM (`vin/vin_tdm`) | receivers, their stream counter | probe, start, stop, remove | closed by the last ISP, not by its own stop | closes after the ISP, and does close |
| ISP server and link | handle, work item, shared tables | init, run, reset, exit | order against the interrupt | server exists while handler uses it |
| UART (`uart/hal_uart.c`) | who has the port, a mailbox of received bytes, the registers, some of which share addresses | init, control, deinit, standby, send, receive, switch reception, flow control, loopback, interrupt | interrupt enabled before its mailbox exists; registers whose address holds the divisor for a while; a write of the line control register that a busy line refuses | each byte is received once and in order or its loss has a name; an open port receives; it runs at the rate asked for |
| GPIO | interrupt descriptors per bank, registers | request, free, enable, handler, suspend, resume | handler runs before its pending bit is cleared; the registers of many pins are changed without a lock; free leaves the registers alone | no edge forgotten, none answered twice; a handler gets its own data |
| Clock tree (`ccmu`) | enable counts, rates, parents | get, enable, disable, set rate | recursion through parents; lookup | an enabled clock has enabled parents |
| RTC (`rtc`) | day counter, time, alarm day and time, callback | read, set, set alarm, enable, interrupt | the clock ticks between any two accesses; date and time are two registers; a write takes effect later | a reading is a moment the clock showed; a setting is exact; an alarm calls once, in time |
| Reset control, PWM | few registers, counted init | config, enable | shared pair of channels | output is what was asked |
| Register layers, sensors, ISP algorithms and tables | register images | single writes, numeric code | none that a model would show | not modelled |

Interactions: TWI and UART are clients of clocks, resets and GPIO, and TWI in its offload mode of DMA;
sensors are clients of TWI; the VIN pipeline drives the sensors, the statistics
feed the ISP server, whose parameters return to the hardware through the
interrupt handler; the message box carries data to the other core.

`hazards` in `PROJECT.json` says at which line each of these bites and which
properties would notice.

## 2. Modules

| module | models | abstract part |
|---|---|---|
| `Dma` | `hal_dma.c`: all calls, the handler in its steps, the hardware | a descriptor list is the set of its items |
| `DmaClient` | `Dma` with clients that follow the order of calls of `test_dma.c` | extends `Dma`; each action is a call of `Dma` with its place in the order |
| `DmaProofs` | theorems about the two | |
| `Twi` | `hal_twi_xfer` in engine mode, `hal_twi_handler`, the semaphore, the bus | bytes are counted, not carried |
| `Mailbox` | what the message box promises: a queue per channel | the abstract specification |
| `MsgboxAmp` | `msgbox_amp.c` on the receiving core, the senders of the other core, the hardware queues | a word is its sender and number |
| `MsgboxSx` | the three files of `msgbox_sx` with a task per endpoint, the handler with its two callbacks, the other core | a word is its number; implements `Mailbox` too |
| `VinPipeline` | `csi_init` with the calls it makes to each sub-device, `vin_isr`, the frame half of `isp_isr`, the work queues, on both boards of the configuration | the calls are a sequence made from the lists of the code; register values, sizes and clocks are left out |
| `Gpio` | the pin interrupts of one bank of `hal_gpio.c`, standby, and the pins | a register is the set of pins whose bit is one |
| `Rtc` | `hal_rtc.c` with the calendar of `rtc-lib.c`: readings, settings, the alarm and its interrupt, and the clock | hours, minutes and seconds are one number |
| `IspStat` | `vin_h3a.c`, the load and save halves of `isp_isr`, the worker | statistics are "saved since handed out" |
| `Uart` | one port of `hal_uart.c`: the owner's calls register by register, receivers, senders, the handler register by register, the line | a byte is its number; word format and FIFO triggers are left out; implements `ByteLine` |
| `ByteLine` | what a port promises its receiver: each byte once and in order, or dropped | the abstract specification |
| `SerialProofs` | theorems about `Twi` and about `Uart`, which name nothing alike | |
| `MsgboxAmpProofs`, `MsgboxSxProofs`, `IspStatProofs`, `VinPipelineProofs`, `GpioProofs`, `RtcProofs` | theorems about the component they are named after | |
| `MCDma`, `MCTwi`, `MCMsgboxAmp`, `MCMsgboxSx`, `MCIspStat`, `MCVinPipeline`, `MCGpio`, `MCRtc`, `MCUart` | instances: symmetry sets, call lists, boards, views | |

How the models follow the code:

* **Grain.** A section under a lock, or a handler that nothing can interrupt, is
  one step; everything else is a step per access to shared state. `Dma` keeps
  apart the two unlocked writes of `hal_dma_callback_install`, the read and the
  acknowledgement of the status registers, and each turn of the handler's loop
  with its callback outside the lock. `MsgboxAmp` keeps apart the read and the
  write of the enable register and each pointer of the list. `IspStat` keeps apart
  the write of the address register and the look at the pending bit after it.
  `Twi` keeps apart the poll that gives START up and the reset that follows its prints,
  with the interrupt on. `MsgboxSx` and `Gpio` keep apart the read and the write of every
  shared register, and `Gpio` the call of a handler and the acknowledgement after it, and the
  registers a resume writes one after the other. `Rtc` keeps apart
  the four reads of a reading, each wait and write of a setting, and the
  acknowledgement of an alarm and its disabling. `Uart` keeps apart
  every write that the handler or a sender can come between: each register of a change of
  rate, the claim of the port, its interrupt and its mailbox, and in the handler each read
  of a register. In `VinPipeline`
  a step is one call to one sub-device, the grain at which `vin.c` works.
* **Cores.** `Smp` in `Dma` chooses one core (the handler runs to its end before a
  task) or two. The other modules have one core, which thread and handler share;
  the other core of the message boxes runs in parallel.
* **Composition.** `DmaClient` extends `Dma`, and its steps are shown to be steps of
  `Dma`. `MsgboxAmp` and `MsgboxSx` instantiate `Mailbox` and implement it, `Uart` `ByteLine`. `IspStat`
  and `VinPipeline` look at one ISP from two sides: `VinPipeline` at its life, with
  frames reduced to what exposure has seen, `IspStat` at the buffers while it
  streams.
* **Hardware** is nondeterministic: when it moves, and in `Twi` what it answers.
* **Names** of variables and actions are those of the code; operators ending in
  a lower-case suffix after `_` (`SlotFree_any`, `Acked_all`, ...) are the plausible
  mistakes the properties are tested against, and nothing else uses them.

Assumptions about what is outside the repository:

* `hal_spin_lock_irqsave` excludes handlers and the other core;
  `hal_sem_timedwait` may expire whenever no token is there.
* DMA: a channel walks the list it was started with; `hal_dma_stop` takes effect
  before it returns; the end of a list that is not circular halts the channel.
* TWI: clearing the interrupt flag lets the controller go on; a soft reset drops
  what it does. Calls come one at a time (the comment at `hal_twi.c:1623`).
* Message box: the pending bit stays while the queue holds a word; a word written
  to a full queue is lost. Every endpoint has a read channel, one sender per
  channel, and `hal_msgbox_free_channel`, which takes no mutex, overlaps no other
  call, nor standby. Standby loses the enable register of the core, which is what
  `msgbox_resume` restores, and keeps the queues. On the SX side the hardware keeps a
  sending channel pending while its queue has room.
* VIN: allocations and requests of interrupts succeed; what freed memory holds is
  unknown, so a counter read from it may say anything, and the byte behind
  `tdm_probe_flag` too (`vin_tdm.c:1435`). The macro `ISP_SERVER_FASTINIT` is defined,
  hence the MIPI receiver and the sensor are not stopped.
* GPIO: a pin whose function is EINT latches the edge its type names, masked or not;
  ones written to the status register clear; a pin belongs to one task at a time, and
  tasks make their calls in the order of `test_gpio.c`; edges that change nothing are
  left out. Standby may take the power of the bank at any time after `hal_gpio_suspend`, or
  leave it; without power the registers are what they are after a reset (nothing
  enabled, no pin EINT), nothing stays pending and no edge is latched. `hal_gpio_resume`
  is one `memcpy`, taken to write in the order of addresses: functions, trigger types, then enable
  bits and status.
* RTC: which of the driver's three builds is used, and the layout of the registers, is
  decided by a platform header that is not in the repository; the model is the one
  with a day counter, `SUNXI_SIMPLIFIED_TIMER`. A write to date or time takes effect
  later, until when its LOSC_CTRL bit is set and another write is lost; the alarm goes
  off as the clock comes to its time. Calls that change something do not overlap; one
  task at a time reads the clock beside them. `hal_rtc_day_to_ymd` keeps its last result in static
  variables and returns it for day 0; the model has one arbitrary date, `LastDate`, for what
  they hold. Each call brings a time structure of its own.
* UART: a port whose clock is off neither receives nor interrupts. While DLAB is on, reads of
  RBR and writes of THR reach the divisor; a write of LCR on a line in use is refused and
  interrupts, unless FORCECFG is on, until USR is read (the comments at `hal_uart.c:307`,
  317 and 395). A received byte interrupts at once or later (trigger level, timeout), the
  rest at once. The mailbox is the OS layer's: sending from the handler to a full one is
  refused. Standby comes between calls of the owner and loses the registers; callers
  end their receives and sends before they close the port; one task receives at a time.
* ISP: the address register takes effect at the next load and keeps its value;
  this is what the two stages LOAD_SET and SAVE_SET of a buffer presuppose. Whether
  a load clears PARA_READY is left open.

## 3. Runs

| run | question | instance | states |
|---|---|---|---|
| `dma_wait` | is a callback only run for the transfer its owner waits for; is every transfer reported | 2 clients, 2 channels, 3 items, 2 cores, single transfers | 36 400 |
| `dma_poll` | has a channel one holder, a callback its own parameter; does hardware ever walk freed memory, does memory leak | 3 clients, 1 channel, 3 items, 2 periods, 2 cores, mixed transfers | 61 259 |
| `twi` | is OK only said when all bytes moved; where do surplus tokens go; does every call return | 4 calls of 5 shapes | 35 251 |
| `twi_irq` | (violation) is the interrupt off when nothing is transferred | 2 calls | |
| `msgbox` | is the list walkable at any time; is the channel a queue; are words seen and taken, do calls return | 2 tasks, 3 endpoints on 2 channels, 1 sender, 2 words, overlapping allocations, frees, standby | 203 747 |
| `msgbox_sx` | is each message sent once and reported once; are both directions queues | 2 endpoints, 4 channels, a queue of 1, a message of 2 words or 2 messages | 228 250 |
| `stat` | is a buffer always found; are copies fresh and in order; do they keep coming | 3 buffers, numbers mod 8, lost limit 2, prompt interrupts | 1 004 870 |
| `stat_copy` | (violation) does hardware save to a buffer being copied | 3 buffers, numbers mod 16, lost limit 10 | |
| `vin` | is a shared part on while it is needed and off at the end; who touches freed devices; does `csi_init` return | both boards, 1 and 2 videos, 2 frames of exposure | 2 339 |
| `rtc` | is a reading a moment the clock showed, a setting exact, an alarm in time | 2 tasks, 2 changing calls and 2 ticks around midnight at the end of a month, settings ahead and back; a reading of each of 3 654 days | 3 043 601 |
| `uart` | is each byte received once and in order or dropped; has the handler a mailbox; does an open port receive, at its rate; do calls return | 3 calls of the owner, a receiver, a sender, FIFO and mailbox of 1, 2 bytes, the first from a peer or looped back, 2 rates | 437 167 |
| `gpio` | does a handler get its own data and run for its own edge; which edges are forgotten | 2 tasks, 2 pins of which they share one, 2 trigger types, 3 edges, standby with and without power | 1 657 862 |

Why the bounds are enough. In DMA the interesting cases need clients that pass one
channel from hand to hand (`dma_poll`, three of them), a channel each (`dma_wait`), and
a heap that runs out: three items for lists of up to two do that. In TWI a surplus token
needs one call to time out or to have its START given up, is consumed by the next and
can be renewed by a third, so four calls show every pattern twice; the call shapes are
those of the callers: a write, a ten-bit address, a read of one byte, and a register
number followed by a read of one and of several bytes (the last but one byte is where
the acknowledgement changes). In the message box three endpoints give a head, a middle
and a tail, two of them on one channel so that the interrupt outlives an endpoint;
messages of two words fill a queue of one. On the SX side a message longer than the
queue makes the handler meet a full queue in its middle; one endpoint has its sending
channel before its receiving one in the handler's loop and one after it. The boards of
`vin` are those of the code. In `gpio` the lower of two pins gets the second edge, since
the handler serves it first, and the higher one passes from task to task; two tasks
suffice to undo each other's register write. In `rtc` a day has two seconds and the
calls begin on the eve of a month's last day, so that a tick, midnight and the month's
end come within two ticks, and one of the settings moves the date back; the calendar is
checked by a reading of every day of 1970-73, 1999-2001 and 2095-97, which has every
place in the leap cycle and 2000. On the UART three calls make the patterns that go
through state a call leaves: init, deinit and init again (IER and the claim survive),
init, a refused interrupt and init, init, control and standby; two bytes exceed the FIFO
and the mailbox of one each, so that both overflow. The statistics have the three
buffers of the code; only the width of the frame number and the limit of lost frames (10
in the code) are smaller: the limit only sets how long the handler waits for the
worker's flag. `InWindow` keeps a worker that has work within half the width of the
frame number, 2^31 frames in the code.

`MCDma` uses symmetry for clients and items, and `MCRtc` for tasks, in runs of
invariants only. The view of `MCIspStat` identifies states that differ by a rotation of all
frame numbers, which the code only compares; no liveness property is checked
under a view.

Deadlock is checked, except where the system stops because its calls are bounded
(`twi`, `twi_irq`, `uart`) or `csi_init` has returned (`vin`).

Fairness. `dma_wait`: the hardware ends a list that is not circular (strong, since it
may raise package interrupts again and again before), an asserted interrupt is taken and
its handler returns, a client with a transfer in progress is scheduled (strong, as on
one core the handler comes first). `twi`: the core runs the handler, and the thread
inside a call; nothing is assumed of the bus, since the timeout covers its silence.
`msgbox`: tasks inside a call, the handler, and a sender inside a message go on; standby
may last for ever. `msgbox_sx`: tasks inside a call and the handler go on, and the other
core reads what is sent to it. `stat`: frames keep coming, interrupts are taken, and the
worker, which needs the core between two interrupts, gets it when it could again and
again. `vin`: `csi_init` goes on, sensors that are on send frames, the handler is taken,
and the work queues, of higher priority than the busy loop of `csi_init`, run. `gpio`:
the handler is taken and returns, and a resume that has begun to write ends; standby may
last for ever. `uart`: the handler goes on, and the owner inside a call, which gets the
core between two interrupts when it could again and again. Nothing is assumed of tasks
that are between calls.

### What the runs found

* `twi_irq`: after a timeout `hal_twi_engine_do_xfer` leaves the interrupt enabled,
  against the comment at `hal_twi.c:1519`. A completion that comes then posts the
  semaphore for nobody. A call whose START is given up can leave a token too: between the poll
  (line 345) and the reset (1659) the interrupt is on, and the handler may complete the
  transfer while the call returns RETRY. `overrun` counts these; each leaves one token
  more. `InStep` shows that tokens of timeouts do not accumulate and that nothing else
  leaves one, `OkMeansDone` that no token makes a later call report success it did not have. A call
  that takes a surplus token returns FAIL with its messages published and the interrupt
  on, so that the handler works in a frame that is gone; `NoDeadFrame` shows that it takes one of
  the two to come to that.
* `stat_copy`: a buffer can be copied while the hardware saves the next frame to
  it, against the comment at `vin_h3a.c:29`. It takes a worker that publishes its
  parameters between the load and the save interrupt of a frame.
* `WordsSeen` and `WordsTaken` hold while allocations do not overlap (`overlapped`):
  two that do, or one and the resume after standby, can lose an enable bit, as the register
  is changed outside the mutex. A
  free can leave an interrupt enabled that no endpoint serves (`Orphaned`). `msgbox_sx`
  and `gpio` have the same unlocked update: `raced` names the channels and pins that
  were written while another task was between its read and its write, and the
  properties go on to hold for all others. No document says who must
  serialise, and the GPIO code says in its comments that a lock is missing, so these
  are hazards and not findings.
* `vin`: on the board with two sensors the first video is freed while the second
  streams. `FreedIsIdle` shows that freed devices are then read only to stop the
  second video, and `ShutDownComplete` that ISP and TDM, whose devices or counters
  outlive it, are dark in the end whatever that read returns, while the rest of the
  path is only when the freed counters still say what they said.
* `gpio`: edges the code cannot keep are those between the call of a pin's handler and
  its acknowledgement, those that the restored status clears, and, where standby takes
  the power of the bank, those pending then and those that come before functions and
  types are restored. `EdgeAnswered` names these kinds, besides pins written while
  another task had read the register (`raced`), and shows that no other edge goes
  unanswered. The handler serves the lowest pin with a status, enabled or not, so the
  handler of a disabled pin can run when another pin interrupts; between the two writes
  of a request it can run with NULL (`HandlersPaired`).
* `rtc`: 2000 is misread from 29 February on, since the leap test takes the year counted
  from 1900 (`hal_rtc.c:279`), and 31 December walks past its row of the table; day 0
  gives the date of the conversion before (`hal_rtc.c:240`; all `Misread`). A reading compares
  dates to see that nothing came between (305): if in one round the date goes away, comes back and
  goes away again (midnight, a setting back, midnight), old and new are mixed unseen. `turns` counts
  this, and `GetIsRight` shows that it takes all three; one setting or one midnight
  never does it. A time set just before midnight loses a day when midnight
  comes before the date is written. A setting that fails leaves the clock at zero.
* `rtc`, alarms that `hal_rtc_setalarm` accepts with 0 and that do not come in time: one of
  another month is accepted up to 255 days ahead and programmed to a wrong day, as
  only the days of the month are subtracted; so is one when midnight comes between the reading
  (558) and the programming (579), as the day counter is read again (both `DayRight`). One whose time
  comes between the reading and the enabling (649) never calls back: the hardware compares for
  equality and nothing looks at the clock again (`TooLate`; the second half of `AlarmOnTime`
  shows that it stays silent). One that takes the place of an alarm that goes off meanwhile calls
  back at once, since the one before is acknowledged before it is disabled (`Slipped`). An alarm is due
  no more when the clock is set, the driver is initialised again, a call that disables
  it finds it pending, or it goes off with no callback registered. `AlarmOnTime` shows of
  every other alarm that it calls back once and in time.
* `uart`: in the first init no byte can reach the handler before there is a mailbox, since
  IER is still zero; a deinit leaves IER as it is, so in every later one it can, and the
  byte is lost (`HandlerHasMailbox`). An init whose interrupt is refused has
  claimed the port already: the next one succeeds with a port that never receives
  (`botched` in `OpenReceives`).
* `uart`: while a rate is being set nothing masks the interrupt and nobody stops
  senders. A byte that interrupts then is not to be had: the handler reads the
  divisor again and again, fills the mailbox with it and never ends (`Stormed`), so that no
  task sees what it wrote; that is why `LineSpec` can promise that junk is never
  received. A byte sent goes into the divisor and leaves a wrong rate
  (`crossed` in `DivisorRight`). A modem line that changes under flow control is the other loop: its
  interrupt is not acknowledged.
* `uart`: the mailbox refuses what it has no room for, and nobody is told
  (`lost["full"]`); so the stress test, which sends up to 4096 bytes through loopback
  before it receives the first (`test_uart.c:222`), has to lose what exceeds the 128 of
  the mailbox.
* `CallbackEarned` is for clients that wait for their callback. A client that polls, as
  `test_dma.c` does, may free the channel between the handler's snapshot and its call,
  and the next holder's callback come for a transfer that was not its own; `NoNullDesc`
  and `CallbackPaired` are what holds for polling clients.
* `FreeChannelMasked` holds for clients that do one kind of transfer; one that did a
  cyclic and then a single transfer on the same channel leaves an enable bit.
* `CopyIsFresh` needs interrupts served before the hardware's next event: served
  late, load comes before save and a buffer is taken before it was saved to.

## 4. Proofs

Everything here is proved for all values of the constants, from the assumptions the
modules state about them (TLC evaluates those in every run) and from the hypotheses
named below. In each case the property alone is not inductive; the invariant that is
stands in the component's module, was checked with TLC first, on the instances of
section 3, and is what the
proof is about: one lemma per conjunct or group of conjuncts, in it a step per
action that can disturb it. Of these invariants the runs go on to check only the one of
`msgbox`, which is what the handler relies on; for the rest they check what follows
from them. To check one again, name it among the invariants of its component's run.

**`DmaProofs`**, for any clients, channels and memory, in whatever order the clients
call. `Inductive` proves the invariant `IInv`: types, `ChannelExclusive`,
`ListsOwned`, `CallbackPaired`, and what makes them inductive: `CallState` (a call
in progress has the handle it needs) and `CallbackHeld` (callback and parameter of
a channel are its holder's). `CallbackPaired` alone is not inductive: the handler
copies two words that were written at different times, and only `CallbackHeld`
with `ChannelExclusive` says that they name one client. No run lets clients call in
any order: that `IInv` holds then is shown by the proof alone.

The second half of `DmaProofs` is about the clients of `DmaClient`.
`ClientsImplementDma` proves that every step of the composition is a step of `Dma` or
leaves it unchanged, so that `IInv` carries over. `ClientInductive` proves `ClientInv`,
which adds `PhaseHeld` (the phase of a client agrees with its handle and its call),
`RunsForHolder` (a channel runs only for a holder that started it, on the channel's own
list) and `CyclicHasList` (a channel is marked cyclic only while its holder has its list
prepared). From these follow `NoStaleDescriptors`, `HandlerNeverFaults` and
`FreeMeansStopped`: `hal_dma_chan_free` touches no hardware, so each rests on the stop
that came before, which the invariant remembers as a phase. `NothingLeaks` needs
`ListForTransfer`: a prepare overwrites the list it finds, so it must find none.
`FreeMeansMasked` is for clients that do one kind of transfer, single or cyclic (with
both it is false, section 3): then only one enable bit of a channel is ever set, the one
its last type names. `WaitInductive` and `CallbacksEarned` are for clients that do
single transfers and wait for the callback, which the interface offers; `test_dma.c`
polls `hal_dma_tx_status` instead (line 122). The strengthening is `EndIsAwaited`: an
end of queue is latched or in the snapshot of the handler, not both, and its holder has
still to be told. It is what excludes the late callback for a transfer that the
channel's next holder started.

**`SerialProofs`**, first part, on the TWI transfer: for any messages, any number of
calls and any answers of the bus. `TypeCorrect`; `CallsInStep` and `FramesAlive` from
`StepInv`, which counts what is owed: tokens of the semaphore and one more while the
interrupt is on, since a completion turns the interrupt off as it posts. A START given
up stays in the count until its reset (`InCall`), and a completion in that window moves
from it to `overrun`. `TwiInvariant` proves the whole of `IInv`, and `SuccessIsDone`
follows; its core is `InMessage`: the bytes that crossed the bus are those before the
pointer in the message before the index. Both assume that no list is as long as the code
of a failure: `msgs_idx` holds both, and a list of 32 messages, say, would be reported
as sent when its address was not acknowledged. The callers in the repository pass one
message or two.

**`SerialProofs`**, second part, on one UART port: for any number of senders, any depth of FIFO
and mailbox, any rates, with or without a peer. `UartInvariant` proves `UartInv`. Its
parts lean on each other in this order. `CallInv` says in which call the owner is at
each step. `WindowInv` says that DLAB is on in two steps of a change of rate and nowhere
else; this needs that FORCECFG is on by then (or the write would be refused), and that
the busy interrupt, whose handler writes LCR without DLAB, cannot come in that window.
The latter is `BusyInv`: a write is only refused while the interrupt is not
granted, off or about to be taken. `PortInv` ties interrupt, mailbox, clock and IER to the
calls. `IsrInv` is what makes junk harmless: if the handler has read the divisor, DLAB is on
and the FIFO is not empty, so it reads again, and no task runs until DLAB is off, which needs a task.
`BytesInOrder` then goes through by the places of bytes (`InOrder`), with a lemma for each
way a byte changes its place. `BytesAccounted`, `MailboxThere`, `OpenPortReceives`,
`RateKept` (from `RateInv`) and `SentBytesKept` (from `SendInv`) follow.
`LineKept` proves that the port implements `ByteLine`, where the mailbox, the hand of the
handler and the FIFO are one set of bytes on their way. Since `BytesInOrder` holds before and
after a step, that set is what came less what was received and lost, so a step is known by what it
does to these three (`ByteMoves`): it brings a byte, delivers one, or drops some, which
were on their way as they are neither received nor lost before.

**`MsgboxAmpProofs`**, for any tasks, endpoints, channels and words. `ListKept` proves
`ListInv`: between any two steps of overlapping allocations, a free, standby and the
handler, the list is one chain of the listed endpoints (`Chain`) and the pointers of all
loops are on it (`Pointed`). What a pointer reaches is defined by the sets closed
under `next`, so that no induction along the list is needed. `EndpointsSeeWords` adds `SeenInv`:
while calls do not overlap the copy of the enable register a task has is good. `BoxInvariant`
adds the queues, and `MailboxKept` proves that the box implements `Mailbox`, if no two
senders write one channel (`OneWriter`, whose breach lets the second write fill
the place the first has seen free).

**`MsgboxSxProofs`**, for any endpoints, channels, messages and depth of the queue.
`SxInvariant` proves `IInv`: the queues, and for every channel whose enable bit was not
written over (`raced`) that the words sent and to come make up the messages (`Counted`), that a task
about to write the register has read the bit as it is (`BitCurrent`), that the handler serves only a
message somebody waits for (`ServedWhenBusy`) and that the bit is off while `tx_done`
is called, which may send the next message (`OffWhenTold`). `DoneOnce` and
`MailboxKept` follow, the second without any hypothesis.

**`IspStatProofs`**, for any number of buffers and width of the frame number.
`StagesKept` and `OneEach` hold for any order of interrupts, served early or
late. `ThreeAreEnough`: with at least three buffers (the code has three) the handler finds
one; one may be locked and one saved to. With prompt interrupts (`Prompt`; false without, section 3)
`FreshInductive` says where the statistics of each buffer are (`OnItsWay`), and `FreshCopies` follows.
`InOrderTaken` proves `TakenInOrder` if moreover the frame number has at least two
bits. Its invariant `OrderInv` counts all numbers from the one taken last
(`Lag`): the buffers to come have different lags, the newest number is among
them, those ready are older than those to come, and no lag is over half the width. The last is the
delicate part (`NotTooLate`): `InWindow` bounds the worker while it has work, and when it has none
the newest number may stand one further, provided an older buffer will be taken first.

**`VinPipelineProofs`**, for any boards that `BoardAssumption` admits: any of four videos
used, online or not, with or without a TDM. First the list of calls: `InitCalls` proves
that `csi_init` makes each call it owes once, in the order of `Rank`, so that a call is left
exactly if it comes later than the next one, and what has been called is arithmetic on ranks.
`PipelineInvariant` says how the rest follows from the calls left (`Left`):
a device lives until its `remove` (`DeviceInv`), a channel is on from `on` to
`off` (`PathInv`), the counter of a shared part is the number of videos between the two as long
as its device is not freed (`CountInv`), a part that is on has a video to keep it on or
freed memory was read (`DarkInv`), and no part is off under a stream (`LightInv`).
`FreedStaysIdle` and `ShutDown` follow for every board. `TopsFollow` is for boards of one or two
videos: with three the first to stop after the first was freed reads a counter of freed memory
and may switch off what the last still streams through. The two boards of the configuration have
one and two.

**`GpioProofs`**, for any tasks, pins, trigger types and edges. `DescriptorsFollow` proves
the invariant `Inv`: types, `ValuesRead` (what a task is about to write fits the
register), `PinsOwned` (no pin has two tasks), `DescFollows` (handler and data of a
pin follow from the calls its task has made) and `CallFollows` (what the handler
called is what the descriptor holds: tasks stand still meanwhile) and `CopyKept` (a bank
that has lost its registers has a copy to restore).
`HandlersPaired`
is not inductive alone: it only speaks of states in which a handler runs, and needs
`DescFollows` for all others. `ValuesRead` is needed because the registers are written
from values read earlier. `HandlersAlwaysPaired` follows. It rests on callers that
share no pin at one time, which is the caller's duty (`gpio` assumes it too).
`NoCallWithoutEdge` proves `NoSpuriousCall` from `StatusIsNews`: a status is younger
than the last run of the pin's handler, but for the pin being served, whose status is
cleared only after the call.

**`RtcProofs`**, for any tasks, bounds, first day and dates asked for. `RtcInvariant`
proves `IInv`: at most one call changes something; what a reader has in hand
(`Reads`: what it read was shown in this round, and how often the date has changed
since bounds what can be mixed), how far a setting has come and which of its two writes has taken
effect (`Setting`), how an alarm stands to the clock (`AlarmInv`), and that one enabled too late has
its time behind it (`LateInv`). `SetExact` and `AlarmInTime` follow
from it. `ReadIsRight` also needs the calendar: that the loops of
`hal_rtc_day_to_ymd` invert the day count for every day `Readable` admits, not only the
3 654 the run reads. The assumption on dates is `DatesAssumption`: `hal_rtc_settime` checks the
year of its argument and nothing else, so month and time are taken to be in range (a
month out of range reads past the table).

Loops are recursive functions in the models (`Oldest` of `IspStat`, `afterYears` of `Rtc`). The
induction theorems of the library take an operator, which the provers cannot
instantiate; what a loop computes is proved instead by the least counterexample:
`LeastExists`, from the library's well-founded order of the naturals, gives the first turn at which
the claim would fail.

Only model-checked is

* liveness and whatever rests on fairness, out of the prover's reach: `TransferEnds`, `CallReturns`,
  `WordsTaken`, `CallsReturn`, `SendsComplete`, `StatsKeepComing`, `InitReturns`,
  `FirstFrames`, `EdgeAnswered` and `OwnerReturns`.

## 5. Not modelled

* `hal_dma_slave_config` (writes configuration no property reads); byte counts of
  `hal_dma_tx_status`.
* TWI: the offload mode and its DMA path, which `hal_twi_init` leaves out of the
  build (`#if 1`, `hal_twi.c:2040`); init and uninit.
* Message box: endpoints without a read channel, callbacks that
  send on the AMP side; on the SX side the second box, direction registers and clocks.
* ISP: the error interrupts, whose reset is compiled out; the contents of the
  parameters (hence not the parameters lost when the load half clears `load_flag`
  before it tests it, `sunxi_isp.c:751`).
* VIN: failing probes, the board on which two videos share a sensor (not compiled
  in), image sizes and formats, clocks, the error interrupts of the TDM, the tables
  that start the ISP server.
* GPIO: level and both-edge triggers, debounce, further banks, and the accessors of
  data, drive and pull. The edges of a pin are bounded: one that never rests would
  starve the pins after it, as the handler serves the lowest.
* RTC: `hal_rtc_getalarm`, deinit, the boot flags, and the two builds without the day
  counter; that `hal_rtc_settime` adds one to the month in its caller's structure
  (`hal_rtc.c:376`), so that a caller who passes the same one again asks for the next month.
* UART: the polling reads, which nothing in the repository calls, breaks and line errors,
  the poll wakeup.
* Clock tree, PWM: not yet, see the plan. Reset control and the memory for
  DMA are sequential and tiny.
* Register layers, sensors, image tuning and its tables: single writes and numeric
  code. They are most of the repository: about 70 000 of its 88 844 lines are
  sensor and ISP parameter tables and their headers, so the share of lines the
  models stand for is small and will stay so, whatever is added.

## 6. Plan

Done so far: the DMA manager and its clients, the TWI engine, both message boxes, the
ISP statistics, the VIN pipeline, the GPIO interrupts, the RTC and the UART, each with its
proofs. Every invariant and every action property a run checks is proved. Next, in this
order:

1. `Clk`: gates that several clocks share, changed with no lock (`clk_periph.c:99`) and
   tested before they are switched (`clk_periph.c:256`); the cached rate after a change
   of parent (`clk.c:549`), against `clk.h`.
2. `Pwm`: pairs and dividers.
