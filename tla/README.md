# Kruspix in TLA+

Kruspix is a small preemptive kernel in Rust for the Raspberry Pi 3 (BCM2837,
arm64, one core in use). This directory holds TLA+ models of its parts, the TLC
configurations that check them on small instances, and theorems about them that
TLAPS proves for every instance. Paths below are relative to the kernel's
`src/`.

    tlc -config MCSched.cfg MCSched.tla      # one of the runs
    tlapm SchedProofs.tla                    # one of the proof modules

`PROJECT.json` lists every run with its properties, the source lines each
definition stands for, the hazards the properties are for, and one deliberate
bug per property that makes the property fail.

## 1. The system

| Component | State it keeps | Operations | Talks to |
|---|---|---|---|
| Scheduler (`kernel/sched.rs`, `kernel/cpu.rs`, `arch/arm64/cpu.rs`) | `new_queue`, `ready_queue`, `terminated_queue`, `current_task`, each `Task.state` and saved context, the core's reschedule flag | `add_task`, `start_sched`, `yield_task`, `exit`, `sleep`, context switch | driven by the alarm's interrupt; used by every task |
| Interrupts (`kernel/irq.rs`, `arch/arm64/kernel/entry.rs`, `drivers/interrupt_controller/*`) | root and chained controllers, ranges of virtual numbers, handler table | register a controller or a handler, enable a line, dispatch until nothing is pending, reschedule on the way out | calls handlers of drivers; calls `yield_task` |
| Locks (`kernel/sync/*`) | the lock bit, the status and data of a `OnceLock`, the saved interrupt mask of a guard | `lock`, `lock_irq`, `try_lock`, `without_irq_fiq`, `with_addr_lock`, `OnceLock::set/get` | everything |
| Physical memory (`mm/mod.rs`, `mm/memory.rs`, `mm/frame_allocator.rs`) | memory map minus reserved areas, one bitmap of frames | boot calculation, `alloc_frame`, `dealloc_frame` | heap, DMA buffers |
| Heap (`mm/heap_allocator.rs`) | a free list per size class, a list of freed page runs, the size of the heap | `alloc`, `dealloc`, `refill_head`, `alloc_heap_page` | frames, page tables; used by tasks and by handlers |
| Page tables (`arch/arm64/mm/mmu/*`) | the kernel's translation tables | map a page, invalidate | heap, DMA, I/O memory |
| Time (`kernel/time.rs`, `drivers/timer/*`) | counters of 32 and 64 bits, deadlines, a handler per alarm | `sleep`, `busy_wait`, `schedule_at/after` | scheduler |
| Mailbox and firmware (`drivers/mailbox/*`, `drivers/syscon/*`) | the FIFOs of the VideoCore, a software queue of received messages | `send`, `receive`, `property` | framebuffer, USB power, clocks |
| DMA and framebuffer (`drivers/dma_controller/*`, `drivers/display/*`) | channels, control blocks; a character grid, cursor | `copy_2d`, scroll, draw | console |
| Terminal, shell, UART (`kernel/terminal.rs`, `kernel/shell.rs`, `kernel/console.rs`, `drivers/serial/*`, `common/ring_array.rs`) | the line being edited, listeners, commands, two UART rings | `poll`, `read`, `write`, registration | UART, keyboard, framebuffer |
| USB host (`drivers/usb/*`) | the keyboard's transfer, its phase, retry counters and watchdog, root and hub ports, the keyboard's last report | enumerate, poll, channel and port interrupt, recover, stop | keyboard, IRQ, time |
| Driver model (`drivers/mod.rs`) | devices not yet initialised | rounds of `try_init` until nobody makes progress | all drivers, device tree |
| Device tree (`kernel/devicetree/*`) | the blob; later a tree of nodes with decoded properties | early lookups over the blob, building the tree, lookup by path, alias, phandle, translation of addresses | memory map, early console, every driver |
| Watchdog and power (`kernel/watchdog.rs`, `kernel/power.rs`, `drivers/watchdog/*`) | the timeout, the counter's registers | start, stop, acknowledge, set the timeout, restart, power off | shell |
| RNG, clocks | small | read; rates | drivers |

### What is hard in it

* **Everything is interleaved.** The scheduler preempts kernel code wherever
  interrupts are enabled, handlers run on the stack of whoever was interrupted,
  and a task resumes inside the `schedule()` call it left by, with the mask of
  its own context. Whether masks, queues and the reschedule flag still fit
  together depends on the order of events, not on any one function.
* **Locks.** `SpinLock::lock` leaves interrupts enabled and `lock_irq` masks
  them. One core only: spinning on a lock whose holder is preempted ends only
  if the spinner can itself be preempted.
* **USB.** Two tasks poll one transfer; an interrupt handler completes it; a
  watchdog takes it away by time alone and works on the hardware with the lock
  released; the keyboard can be unplugged during all of this.
* **Nothing is ever freed twice or lost?** Heap and frame allocators, DMA
  buffers that a device still writes to, tasks that end on their own stack.
* **Boundaries.** 32-bit counters that wrap, ranges of interrupt numbers, full
  rings, exhausted frames.
* **Partial failure.** A driver that fails half way is tried again; a DMA copy
  that times out half way is repeated by the CPU; a USB request may have been
  carried out although its answer is lost.
* **Two of a kind.** The device tree is parsed twice by different code; boot
  messages have three destinations one after the other; the screen and the line
  buffer are two copies of what was typed.

`PROJECT.json`, "hazards", has them one by one at their lines.

## 2. The modules

### Sched: the scheduler and its interrupts

One step is one stretch of code that no interrupt can cut. `yield_task`,
`add_task`'s push and `terminate_task` run under `without_irq_fiq`, so
everything from the first queue access to `switch_context` is one action
(`Schedule` with `KeepCurrent` and `SwitchTo`). What happens between those
stretches is a step each: `TakeIrq`, one turn of the dispatch loop
(`DispatchAlarm`, `DispatchDevice`), its end (`DispatchDone`, with the
reschedule), `LeaveCritical` (returning from `schedule()`, on whatever stack
runs now) and `ReturnFromIrq`.

| Variable | Code |
|---|---|
| `newQ`, `readyQ`, `termQ`, `current` | the fields of `Scheduler` |
| `state`, `nextTid` | `Task.state`, `NEXT_TID` |
| `ctxMask`, `masked` | `ArchContext.daif`, `DAIF.I` |
| `stack` | what lies on each kernel stack above the task's own code: an interrupt frame with its SPSR, a critical section with its DAIF handle |
| `flag` | `LocalData.schedule_flag` |
| `alarm`, `lines` | the core-local timer and the peripherals' lines |
| `place` | where the task's own code is: running, in `wfi`, back from it, between the two `Task::new` of `add_task` |

Two peculiarities of the code are kept: `add_task` first builds a `Task` that
it drops (a thread id is spent), and `terminated_queue` is never drained.

`RunQueue` is what the scheduler promises: one first-in first-out line, one
task on the processor, idle when nobody waits. `Sched` implements it with
`waiting <- readyQ \o newQ`.

### SpinLocks: the lock discipline

A routine of the kernel is reduced to what it does to locks and to the
interrupt mask, in order, as a sequence of operations (`Ways`). Tasks and
handlers execute routines, are preempted between any two operations if
interrupts are enabled, and spin on a lock that is taken. How tasks are
switched is taken from `Sched`: only with interrupts enabled in their own code,
which is `MaskDiscipline`.

### OnceLock: the write-once cell

Each access to `status` and to `data` is a step, so that threads meet between
the exchange, the write and the closing store. `WriteOnce` is the abstract
cell; `OnceLock` implements it.

### UsbInterrupt: the keyboard's transfer

Everything under `lock_irq`, and one part of the interrupt handler, is a step.
`recover_wedged_interrupt_channel` runs unlocked, so each register access in it
that another step can disturb is a step of its own (`at`). The channel answers
with any outcome the handler distinguishes (`hcint`), may end a transaction
at any time or never, and may be `wedged`: then it neither ends its
transaction nor halts in the 100 ms `halt_channel` waits. An interrupt raised
before its mask was written is still delivered (`haint`). The transfer is
submitted once, during the driver's setup, so the module starts there. `Usb`
composes it with the search for the keyboard (below), whose last step but one
submits it.

### MemoryMap, Frames, Heap, BlockPool: memory

`MemoryMap` is `calc_available_mem`: the operators follow its passes over the
array of 32 regions, because which regions a pass looks at (`skip`), and what it
overwrites, is where it could go wrong. `Frames` is the bitmap allocator that
`init_phys_mem` builds on the largest region left, with the words of its bitmap.
`Heap` extends both and goes from the memory map of the device tree through
`setup_page_tables` and `init_heap` to the requests of tasks.

The caller inside the allocator holds its lock, so there is one `call` at a
time. But it takes its frames under another lock, one at a time: one for the
page and up to two for page tables that are missing. In between, other tasks
take and drop DMA buffers (`NewBuffer`, `DropBuffer`). That is why `TakePage`,
`TakeTable` and the end of the call (`InitHead`, `RefillHead`, `AllocPages`) are
separate steps.

| Variable | Code |
|---|---|
| `start`, `total`, `bitmap` | `BitMapFrameAllocator`, with the bitmap's words in the frames it manages |
| `boot` | the arguments of `init_phys_mem`, `kernel_region` last among the reserved |
| `heads`, `multiPage` | `Heap.heads` as the sequences their links form, `Heap.multi_page_list` |
| `pages`, `tables`, `buffers` | the frames behind the heap's pages (`HEAP_SIZE` is their number), behind page tables, and in `UsbDmaBuffer`s |
| `inUse` | what callers hold |
| `call` | how far the request under the lock is |

`BlockPool` is what `GlobalAlloc` promises (blocks in use are large enough,
aligned, disjoint), and `Heap` implements it. The model stops where a page
without a frame is mapped (section 3, observations): its blocks would share memory with those
of every other such page.

### IrqDomains and DriverInit: interrupts from the device tree to the handler

`IrqDomains` is `kernel/irq.rs` over the two controllers: the core-local one is
the root, and the peripherals' controller hangs on its line 8 and is a handler
with a loop of its own. Registration, translation, handlers and enabling are
operators with the code's guards, so that a driver can be composed of them;
dispatch is three actions (`TakeIrq`, one `DispatchTurn`, `DispatchDone`) on a
stack of `loops`. `PendingBasic` is the hardware's basic pending register,
`Decode` what the driver makes of its lowest bit.

`DriverInit` extends it with `init_platform_drivers`. Each driver's `try_init` is
the sequence of its steps that can fail or that others depend on, with the error
each failure is turned into: `Retry` keeps the node for the next round, anything
else drops it. What was registered before a failure stays registered. A refusal
of the hardware or the firmware (`TryAsk`) may come or not; every other failure
follows from the state.

| Variable | Code |
|---|---|
| `nextVirq`, `root`, `controllers`, `handlers` | `NEXT_VIRQ_BASE`, `ROOT_CONTROLLER`, `CONTROLLERS`, `GLOBAL_HANDLERS` |
| `enabled`, `raised` | the enable registers of the controllers; the devices' lines |
| `loops` | `global_irq_dispatch` and, inside it, `handle_irq` of the peripherals' controller |
| `left`, `retained`, `progress` | the round of `uninitialized_device_nodes.retain` |
| `try` | the `try_init` that runs, and the `virq` it resolved |
| `bound`, `services`, `taken` | `DEVICE_MANAGER.bindings`, the write-once cells of the drivers, `MailboxClient.lock` |
| `phase`, `refused`, `raises` | where boot is; whose last try the hardware refused; the bound on raises |

The model has the nine nodes that take an interrupt or depend on another;
clocks, the power manager and the random number generator do neither, and the
system timer translates its line but never enables it.

### DmaChannel, FbConsole, TextLog: the framebuffer console

`DmaChannel` is one DMA channel with its driver: `copy_2d` in its parts
(`StartTransfer`, turns of `wait_for_transfer`, `AbortChannel`), the channel's
interrupt, and the engine, which copies row by row, ends, meets a bus error, or
does nothing while it is polled. A reset may time out (`StartFails`,
`AbortChannel(FALSE)`), and then the channel goes on copying.

`FbConsole` extends it with the console. `write` holds the console's lock with
interrupts masked, takes one byte at a time (`Byte`), and a byte that passes the
last row leads through `scroll` (`pc`): by DMA, or by the CPU if there is no
engine, if it refused, or after it failed once (`dma_failed`). The framebuffer is
rows of cells: a glyph fills a cell, and a text row of pixels moves as one.

| Variable | Code |
|---|---|
| `chan`, `block`, `polls`, `irq_complete`, `irq_error` | the channel's registers and progress, `DmaControlBlock`, the wait loop, the two atomics |
| `geo`, `fb` | `DrawContext` and the memory behind it |
| `col`, `row`, `ansi_state`, `dma_failed`, `locked` | `FbConsoleState` and its lock |
| `log`, `torn`, `written` | history: the text (`TextLog`), rows an abandoned transfer may have moved, a bound |

`TextLog` says what the bytes mean without a screen: a text of lines, whose last
ones are visible. It has no scrolling, so `ScreenShowsText` compares two
different computations. `TextLog` follows an escape sequence through the states
of the code. `FbTable` puts beside it the text by the state table of the driver's
documentation (`fb_console.rs:33-43`), which differs in one row.

### Fdt, DeviceTree, TreeLookup: the device tree

The blob is a sequence of tokens. `Fdt` has the functions that work on it
directly before there is a heap; `DeviceTree` is the loop of `from_fdt` that
builds the tree, one token a step, with the decoding of properties and the
panics it contains; `TreeLookup` has the lookups on the finished tree. A run
starts from a source tree, flattens it (the work of a device tree compiler,
external) and may damage the blob: padding, a property after a child, an
unknown token, an early end. Names are a base and a unit address, cells hold
`0 .. CellBase - 1` so that two of them make a number, and paths are sequences.

### Ring, Consoles, Keyboard, Watchdog, Terminal: from a key to a reset

Four small modules with operators and actions, and one that composes them.
`Ring` is `RingArray`, with the wrap-around and both ways to read it.
`Consoles` sends messages to the boot ring, the early console or the system
consoles. `Keyboard` decodes reports, which come in the interrupt handler, and
adds auto-repeat when it is read, in the shell's task. `Watchdog` is the
counter, its commands and the restart built on it.

`Terminal` boots a board (`Boot`), chooses the system terminal, and then runs the
shell's task (`ShellTask`): poll the inputs in turn, empty each one's ring, take
its bytes through the line discipline, and run the line. Interrupts put bytes
into the rings between any two of these steps.

| Variable | Code |
|---|---|
| `con`, `printed` | `BOOT_CONSOLE`, `EARLY_CONSOLE`, `SYSTEM_CONSOLES`; as history what each device was sent, and which kind of console came first, after how many messages (`opened`) |
| `kbd`, `alive` | `KeyboardState`; whether the interrupt transfer still exists |
| `down`, `held`, `news`, `strokes` | the keyboard itself, and a bound |
| `fitted`, `wdt`, `waiting`, `machine` | whether the watchdog is registered, its registers, `busy_wait`, the board |
| `outputs`, `inputs`, `chosen`, `term` | `OUTPUT_DEVICES`, `INPUT_DEVICES`, what `/chosen` names, `SYSTEM_TERMINAL` |
| `line`, `batch`, `at`, `next` | `line_buffer`, the bytes just read, where the shell's task is |
| `uart`, `coming` | the serial device's ring; a bound |
| `edited`, `screen`, `entered`, `asked`, `due` | history: what was typed, the last row of each output, what was handed over, which reset is due |

`screen` is the last row of every output as it stands since the last newline, with
the `Width` of that output. A byte in the last column begins the next row, and a
backspace stays in the first column, as in `fb_console.rs:359-386`; of the terminal
at the far end of the serial line the same is assumed. A row is `whole` while the
line that began with the prompt is still on it, `wrapped` when it is a later one,
and `told` once a kernel message was printed over it. While the shell runs the USB
driver prints such messages: when it begins to recover a wedged channel
(`bcm2708_usb.rs:1431`), and when a channel does not halt (line 1017), from
whichever task or handler is at it, so `KernelMessage` may come between any two steps once there is a keyboard. It stands
for a piece of a message, since the serial device's bytes are not written under
one lock; for that reason a `told` row stays one until the next newline.

The shell's commands do not appear by name: a line that is not empty may be any
of them. Ages of a held key stop at `MaxHold`, past which nothing tells them
apart.

### UsbDevices, UsbControl, UsbEnum: the search for a keyboard

`UsbDevices` is the bus: who listens to which address, what a request does to a
device, how many units it answers with, and its packet id (external; written
from how the driver uses it). `UsbControl` is the polled control transfer; a step
is one transaction, and `xfer` is the stack of `control_transfer`,
`transfer_packet_polling` and `run_single_transaction_polling`. A transaction
passes, is refused for now (NAK, NYET), fails, or passes with its answer lost.
`UsbEnum` is the controller's bring-up and `enumerate_boot_keyboard`: `todo` holds
the requests still to send to a device, `then` where the driver goes on. Any
error but that of `SET_IDLE` ends the search, as the `?` of the code does. Devices
may be pulled out at any time.

`Usb` is the whole driver: the search, `SubmitInterruptIn` as part of its step
`RegisterKeyboard`, and then the transfer's own steps (`Poll`). The search runs at
boot with interrupts masked, so nothing of the transfer moves during it. As bounds,
the transfer is followed only after a search without a fault, of which it keeps
nothing, and for keyboards of one kind, with split transactions or without
(`Followed`, `UsesSplit`); the theorems hold for both.

Lengths are in units: 2 for 8 bytes in `mps` and 10 for the control buffer, so that a
configuration can be shorter than a packet, take several, or be too long.

### Proof modules

One per component: `SchedProofs` (which begins with facts about sequences used as
queues without duplicates), `SyncProofs` (`SpinLocks` and then `OnceLock`, which share
nothing else), `UsbInterruptProofs`,
`HeapProofs` (the frames first, then the blocks in them), `DriverInitProofs` (with
`IrqDomains`), `UsbEnumProofs`, `TerminalProofs` (rings, watchdog, consoles, input and line), and
`FbConsoleProofs` (with `TextLog` and `DmaChannel`).

## 3. What is checked

| Run | Instance | Shows |
|---|---|---|
| `sched` | 7 thread ids (two tasks of `start_kernel`, one more at run time), one peripheral, two raises | `OneHome`: no task is lost, queued twice, or run again after it exited. `MaskDiscipline`: interrupts are masked exactly while the current stack is in the scheduler or a handler, and every suspended stack restores the right mask. `FlagStaysInIrq`: no interrupt inherits another's reschedule. `ImplementsRunQueue`, `EveryReadyTaskRuns`, `HaltedCoreWakes` |
| `sync` | two tasks, six task routines, five handler routines; apart from that, three threads and two values on one `OnceLock` | No lock a handler takes is ever found taken (`HandlerLocksNeverWaitedFor`); handles nest (`MasksNest`). `DataGuarded`: a reader sees a complete value, and nobody writes one that can be read. `ImplementsWriteOnce`, `SetReturns` |
| `spin_locks_heap` | the same | **Violated**: see finding 1 |
| `usb` | seven buses: a keyboard alone, behind a fast or a slow hub, behind other, broken or too talkative devices, none; three faults or removals; two retries. Then two pollers, split transactions, the retry limits of the code (8 and 4) | `AddressesUnique`: no two devices listen to one address. `KeyboardIsFound`: the search is right, and a registered keyboard is configured. `SearchEnds`. `TypeOK`: both retry counters keep their limits. `RecoveryIsExclusive`, `NoDmaWithoutBuffer`, `ReportNotDropped`, `TransferNeverStuck` |
| `usb_freeze` | the transfer alone, limits 2 and 2 | **Violated**: see finding 2 |
| `heap` | four memory maps, pages of two units, blocks of one and two, bitmap words of four bits, page tables of two entries, five heap pages, three blocks in use, one DMA buffer | `FramesHaveOneHolder`: no frame has two holders, none leaks, none is refused while free. `BlocksPartitionHeap`: free lists and callers share the heap without overlap. `ImplementsBlockPool` |
| `reserved_memory` | the same maps | **Violated**: see finding 3 |
| `driver_init` | the nine nodes with the board's lines in 1440 orders, three raises | `EnabledLinesAreServed`: whatever fails, a line that is let through leads to its own device's handler. `VirqsAreUnique`: ranges do not overlap, handlers are under the number their device resolves to. `LeftOutOnlyByFailure`: no round too few. `BootEnds`, `LinesAreServed` |
| `display` | screens of 2x3 and 1x2 characters with padding, two that `try_init` refuses; with and without a DMA engine; five bytes; two polls | `ScreenShowsText`: between two bytes the screen is the end of the text (escape sequences as the code follows them), but for rows an abandoned transfer touched. `DmaConfined`: DMA moves only the framebuffer and only while the console waits, or never again is used. `WritesReturn` |
| `display_table` | a screen of 2x3 characters, five bytes | **Violated**: see finding 4 |
| `devicetree` | ten trees, each blob as it is and damaged in four ways at every place | `TreeIsTheSource`: the tree is what was flattened, or boot stops. `SameNode`: both parsers find the same node by path or alias. `SameAddress`: both translate addresses the same way, through the windows of the source. `ReservedIsKnown`: every reserved region is reported |
| `terminal` | four boards: serial line and watchdog; the same with a timeout in the device tree that the register cannot hold; keyboard and framebuffer; everything and nothing chosen. Rings of two; rows of three and four columns; five bytes on the serial line, or two strokes | `NothingTypedIsLost`: no byte is lost but the oldest of a full ring, none changes place, and the line is what its bytes mean. `ScreenShowsLine`: every output shows the prompt and the line, or on a later row the end of the line. `ResetsAsPromised`: the board resets exactly when the commands say. `MessagesAreKept`: from the first console on no boot message is lost, doubled or out of order, nor are more than the oldest of those before an early console. `NoStuckKey`: in the end only a key that is down repeats |

### Bounds, and why they suffice

* `MaxTid = 7`. `add_task` spends two ids per task, so seven ids give three
  tasks besides idle: enough that the line has a middle, that a spawn meets a
  preemption while another task waits, and that two tasks exit in either order.
  With fewer tasks no order but one is possible in the line. The safety
  properties are proved for any `MaxTid`.
* `MaxRaises = 2`: a peripheral's interrupt can arrive during the dispatch of
  the alarm's and once more afterwards. The alarm itself is not bounded.
* SpinLocks: two tasks, since one core runs one and a deadlock needs one more
  that holds the lock; interrupts do not nest, so one handler context. Routines
  are called any number of times.
* OnceLock: three threads give a winner, a loser that spins, and a reader. `MCSync`
  runs it beside SpinLocks; they share no state, so each moves only while the other
  is where it began.
* UsbInterrupt: the two tasks that do poll; the retry limits are the code's own
  constants, since `TypeOK` says that both counters respect them.
* Heap: the memory maps cut a region in the middle, at both edges and off the
  frame boundaries, one has a region that is cut in each of three passes, and in one
  a region is reserved as a whole. The bitmap's frame has room
  for eight bits and a region has 12 to 16 frames, so the bitmap takes two
  frames, its words are filled in turn, and the last one has bits behind the
  region's end. Five pages and tables of two entries make the heap need new
  tables of both levels, and use up the smaller regions. Both classes, a request
  whose alignment is larger than its size, and one of several pages occur.
* DriverInit: the two controllers, the timer, and the chain mailbox, firmware,
  USB come in all 720 orders, with the UART, DMA and framebuffer before or after
  them, so each dependency is met in both directions and boot takes from one to
  several rounds. Three raises let an interrupt come during the dispatch of
  another, and two lines of one controller be pending at once.
* FbConsole: five bytes fill the small screens twice over, so that wraps,
  newlines and backspaces meet at the last row and a scroll follows a scroll.
  Two polls let the engine end before, between and after them; one field of a
  control block is too small for the second screen's padding. For the state table
  three bytes are enough: ESC, ESC and a printable one.
* TreeLookup: the trees have two levels of buses, cells of one and two, defaults,
  windows of which the second matches, an alias, a node named like another one
  level down, and each way in which a blob makes boot panic.
* Terminal: rings of two are overwritten by the third byte and wrap at once; a
  fifo of two lets one interrupt fill a ring. Two strokes give a key with a
  modifier, two keys at once (rollover), or a key that is typed again. The
  watchdog's three seconds are six ticks of a register that holds seven; the device
  tree's four seconds are eight, of which it keeps none. With three columns a line
  of two bytes wraps on the framebuffer, with four one of three on the serial line,
  and five bytes lead past a wrap and back.
* UsbEnum: two retries make one that helps and one that is the last, in both
  loops; three faults let a fault meet the consequences of two others. The
  longest descriptor takes five packets.

`CHECK_DEADLOCK FALSE` is set where the system may stop: DriverInit (once
booted, and with the raises used up, nothing happens), Heap (the frames are used
up), SpinLocks (the kernel can really hang there, finding 1), Usb (a search without
a keyboard is over, and a transfer that was stopped is not submitted again),
FbConsole (the bytes are used up), TreeLookup (boot has panicked) and Terminal (the
board is off).

### Fairness, and what justifies it

* `Sched`: the hardware delivers (alarm expires, pending unmasked interrupt is
  taken), and the kernel's own code runs on (a dispatch turn, leaving a
  critical section, returning from an interrupt). Tasks get **no** fairness: a
  task may loop for ever, and the others still run. Serving a device and leaving
  the loop need strong fairness, because the alarm can expire during the loop
  and comes first; the 10 ms it is armed with are far longer than a turn.
* `OnceLock`: each thread goes on, which is what the scheduler gives it
  (`EveryReadyTaskRuns`).
* `UsbInterrupt`: time passes, pollers poll, a channel that is not wedged halts
  when asked. No transaction is assumed ever to end and no interrupt to come.
* `DriverInit`: the boot code runs on (`Driving`), and the core takes interrupts
  and goes through its loops (`Dispatch`). No device is assumed to raise its
  line. `LinesAreServed` is about finitely many raises: a device that
  raises its line again and again can keep the dispatch loop, in the model as on
  the board, because the lowest bit wins.

* `FbConsole`: the code's own steps go on. The engine owes nothing.
* `Terminal`: the shell's task is run again and again (`EveryReadyTaskRuns`), and
  time and the watchdog's counter pass. Keys, reports and interrupts owe nothing:
  `NoStuckKey` holds although every report may be lost.
* `UsbEnum`: the driver's steps go on, since every wait in it has a timeout. A
  device may answer "not ready" whenever it is asked.

### Findings

1. `NobodySpinsMasked` (code bug). The heap and frame locks are taken with
   `lock()` by tasks with interrupts enabled, and with interrupts masked in
   `Scheduler::add_task` and in the tick's `push_back`. `SpinLock` leaves
   masking to its callers in its own words (`kernel/sync/spin_lock.rs:14`). A
   task preempted inside the allocator leaves the next one spinning, masked, on
   the only core.
2. `ArmingNeverFreezes` (comment and code differ). The recovery halts the
   channel with interrupts enabled so that 100 ms of waiting cannot freeze the
   system (`drivers/usb/bcm2708_usb.rs:1422-1424`); when that halt times out the
   next poll halts it again in `arm_channel`, under `lock_irq`.

3. `FramesAvoidReserved` (code bug). `calc_available_mem` skips the first `mem_skip`
   regions *of non-zero size* (`mm/memory.rs:18`), but `mem_skip` counts array
   entries. A region that a reserved area swallows whole has size 0 from then on, so
   the next pass skips one too many, and that part is never cut by the areas that
   come later. With memory (0,4), (10,40) and (0,4), (12,2), (20,2) reserved, the
   last one is in what the kernel prints under "Available physical memory regions:"
   (`mm/mod.rs:42`), and the frame allocator is created over it. On the run's
   maps whose regions are only cut the property holds.
4. `ScreenShowsDocumentedText` (documentation and code differ). By the state table
   of the console "Escape | anything else | Normal (2-char seq consumed)"
   (`drivers/display/fb_console.rs:33-43`). On an ESC the code stays in `Escape`
   (line 338), so that it consumes one byte more. Everything else in the table is
   what the code does: `ScreenShowsText` holds.

### Observations without a run of their own

* `alloc` returns null if the list is empty after a refill
  (`mm/heap_allocator.rs:123-125`), but a refill always fills it: `alloc_heap_page`
  (line 82) maps whatever `alloc_frame` returned, null included. Out of frames, the
  heap hands out blocks in physical frame 0, in every new page the same.
* For bit 20 of the basic pending register `pending_hwirq` returns
  `20 + 42 + 40 = 102` (`bcm2836_armctrl_ic.rs:202`); the line of GPU interrupt 62 is
  70, and the controller's last is 71. No driver uses that line yet (it is the
  EMMC controller's); one that did would never be served.
* Device tree. `ranges` are decoded with the cell counts known so far
  (`prop.rs:81-84`), so a bus whose `#address-cells` come after its `ranges` is
  translated wrongly. On a bus without `ranges`, or with empty ones, the early
  translation passes on and the late one stops (`fdt/mod.rs:265-292`,
  `node.rs:154-177`). A register that fills its window exactly fails the assertion
  of `node.rs:184`. A status of "ok" panics (`std_prop.rs:64`, `prop.rs:47`), and only
  the first memory node's `reg` is used (`fdt/mod.rs:351-352`). `SameAddress` says
  which trees it is about (`Regular`); the others are in the run too.
* Console. The rows that a given-up transfer moved are moved once more by the CPU.
* Messages. If the first console is a system console, because `/chosen` does not name
  the serial device, `register_console` does not look at the boot ring
  (`console.rs:28-39`): what it holds is never shown. `MessagesAreKept` promises
  nothing of those messages; it does of all that come later.
* Terminal. On a row that is not the first of its line a backspace cannot go back to
  the row above (`fb_console.rs:377-385`), while the line buffer loses its last byte:
  after an overlong line was erased, screen and line differ.
  `ScreenShowsLine` asks only that such a row shows the end of the line, or nothing.
  A USB warning printed while the shell waits stands in the middle of the line, which
  is not written again after it; the property asks nothing of that line.
  The registry's lock is held while a command's handler runs (`shell.rs:111-116`).
  The limit on a hold clears `previous_report`, so a key that is still down is
  typed once more by the next idle report, and starts to repeat again; the
  comment at `bcm2708_usb.rs:58-60` calls it a hard upper bound.
* Watchdog. `set-timeout 0` passes the shell's check and panics on the device's
  assertion; every watchdog command panics on a board without one; the timeout
  of the device tree is not checked (`bcm2835_pm.rs:124-132`), and from 16 seconds on
  the register keeps only its low bits. The second board of the `terminal` run has
  such a timeout: after a start with it the reset may come at any time (`Unknown`), but
  not after a stop, and a restart comes when it should.
* USB. A configuration longer than the control buffer (1024 bytes) in a lower
  port ends the search before the keyboard's port is reached, and so does any
  device that fails. A `max_packet_size0` of 0 would loop for ever in the data
  stage. A hub that takes more than 60 ms for a reset leaves a device at address 0
  behind when the next port is reset. `find_interrupt_in_endpoint` looks at the
  endpoints of all alternate settings.
* Memory. Freed runs of pages go on a list that nothing is taken from
  (the code says so with a TODO), which the model keeps.
* USB transfer. The watchdog may fire when a
  report has just arrived but its handler has not run. The recovery then clears
  `HCINT` and the report is lost, which is why `ReportNotDropped` exempts the
  phase `Recovering`; and a wedged channel outlives its DMA buffer, because
  `stop_interrupt_with_error` ignores the halt's error, which is why
  `NoDmaWithoutBuffer` speaks of channels that still work.

## 4. What is proved

For every value of the constants, from the assumptions named in the modules,
which TLC evaluates in every run (`MaxTid` a positive natural number, `MaxRaises`
a natural number; `None` and the outcomes of `set` are not values for `OnceLock`;
those of the other modules are with their theorems):

* `SchedProofs!Invariance`: `SafetySpec => []IInv`, with
  `IInv == TypeOK /\ OneHome /\ MaskDiscipline /\ FlagStaysInIrq /\ BootState /\ IdleLives`.
  The four properties are not inductive alone. `BootState` says that before
  `start_sched` nothing but `newQ` is in use, otherwise the first switch could
  enter a stack with frames on it. `IdleLives` says that idle is never
  terminated or missing, otherwise `SwitchTo(Idle, ...)` revives a dead task.
  `OneHome` needs `MaskDiscipline` (an interrupted task is `Running`), which
  needs `TypeOK`. The proof has one lemma per action; all callers of
  `schedule()` share `ScheduleHome` (queues) and `ScheduleMask` (stacks).
  `TypeCorrect`, `TasksHaveOneHome`, `MasksFollowStacks` and `FlagIsConsumed`
  follow.
* `SchedProofs!SchedImplementsLine`: `SafetySpec => Line!RQSafety`. Adding a
  task is `Spawn`, a switch with a running task is `Rotate`, an exit is
  `Finish`, everything else stutters. The associativity of
  appending (`ConcatAppend`) carries the argument that two queues are one.
* `SyncProofs`, `OnceLock`: `OnceLockInvariance`, `DataIsGuarded`, `LosersFindAValue`,
  `OnceLockImplementsWriteOnce`, for any number of threads.
* `UsbInterruptProofs`: `Invariance` of `IInv`, which is `TypeOK` in three
  parts, `RecoveryIsExclusive`, `NoDmaWithoutBuffer` and `ChannelQuiet`, for any
  set of pollers and any two retry limits. The first two are inductive
  together. `ChannelQuiet` says what the channel can still do in each phase (an
  executing channel has nothing to report; a transfer that waits for its
  interval has a channel that is off or hangs; a report ends the transaction it
  belongs to): without it an idle transfer could be armed over a report, and
  `ReportsAreDelivered` needs that it cannot. The lemmas follow the three kinds
  of steps: `PollerIInv`, `HandlerIInv`, `HardwareIInv`. `CountersAreBounded`,
  `OneRecoveryAtATime`, `DmaHasABuffer` and the action property
  `ReportsAreDelivered` follow.
* `SyncProofs`, `SpinLocks`: `MasksAlwaysNest` and `HandlersNeverSpin`, for any set of
  tasks and whichever routines they and the handlers run
  (`SpinLocksAssumption`: the handler is not a task, and no task calls a
  handler's routine). A routine is a sequence of lock and mask operations. `Runs`
  reads what is left of it as a path through pairs of a mask depth and the
  handler locks held, and demands that it ends with neither. `RunsConcat` lets
  routines be put together, and the lemmas `AllocatorGuard`, `PlainGuard`,
  `MaskedSection` and `IrqGuard` say that each way to take a lock in the code is
  a round trip; `TaskRoutine` and `HandlerRoutine` follow for every routine.
  `IInv` is `Types`, `MasksNest`, `SavedMasks` (only a task's
  outermost handle remembers unmasked interrupts), `IrqIdle` (no handler is left
  half done) and `RoutinesRun` (every context's remainder is
  such a path from where it stands). The last one is the strengthening that
  counts: it makes the holder of a handler's lock masked, hence the one that
  executes.
* `HeapProofs`: `EveryFrameHasOneHolder` (`FramesHaveOneHolder`), for every region,
  page size, word size and load. Assumed: sizes are positive
  (`PageSizeAssumption`, `WordBitsAssumption`, `FrameWordsAssumption`,
  `MinFramesAssumption`), block sizes ascend, each divides the next, and the last is
  a page (`BlockSizeAssumption`, as powers of two do), layouts are aligned to a class (`LayoutAssumption`), and
  what `calc_available_mem` returns are regions with natural bounds
  (`RegionsAssumption`, which TLC evaluates; the fold itself is out of reach of
  the proofs). `IInv` is `BitmapType`, `ListsType`, `CallShape` (a frame waits to be
  mapped only inside a call) and `OneHolder`, which is the property without its
  last part. That part, nothing is refused while free, follows from
  `SearchIsComplete`: the search by words and bits meets every frame, which
  rests on the quotient and remainder of a frame's number being its only
  place (`Split`, `Unique`). `Layout` shows that the bitmap's own frames fit, for any
  region that passes `new`.
* `HeapProofs`, the memory map: `RegionDiffIsExact` says that `region_diff` is the
  difference of two regions' bytes in all five of its cases. `FramesStayInRegion` says
  that the frames, after `new` rounds the region's start up and its end down, lie
  inside the region. Whether they avoid what is reserved depends on the passes of
  `calc_available_mem`, and for some maps they do not (finding 3): nothing is proved
  about that.
* `HeapProofs`, the blocks: `HeapIsPartitioned` (`BlocksPartitionHeap`) and
  `HeapImplementsPool` (`ImplementsBlockPool`), for any chain of block sizes and any
  load. `BlocksInv` says that the free lists and the blocks in use are apart and
  together fill the heap (`Partition`; while a call is unfinished, the heap as it was
  before that call), that a block is aligned to its class (`Aligned`), and for whom a
  call waits (`CallWaits`: a list is refilled only while it is empty). Without
  `Aligned` the pool's promise of alignment does not follow. The arithmetic is in
  `PageOfBlocks` (the blocks cut from a fresh page tile it). There is one lemma for
  each way a block changes hands: `BlockTaken`, `BlockReturned`, `ListFilled` (a
  refilled list) and `PagesTaken` (a large block).
* `DriverInitProofs`: `VirqsStayUnique` and `EnabledLinesStayServed`, for every order of
  the nodes, every set of drivers among those of the code, every choice of lines and
  any bound on raises. Assumed: lines exist on their controller and no two devices
  share one (`LinesAssumption`: the board's device trees), the nodes have drivers
  (`NodesAssumption`), `None` is neither a try nor a domain. `IInv` is `DomainsApart`,
  `HandlersFound`, `LinesHandled`, `AlarmResolved`, `TrySteps` and `Rounds`. Domains are
  only ever appended, with numbers above all others, so what a line resolves to
  never changes. `TrySteps` connects the driver that is being initialised with what
  its earlier steps left behind: a driver about to enable its line has
  registered its own handler under it, in this try or in one that failed.
* `DriverInitProofs!NobodyForgotten` (`LeftOutOnlyByFailure`), for every order of the
  nodes and whatever the firmware or the hardware answers. Hypothesis: `WholeBoard`.
  The device tree is complete (the controllers are there, each node once in each order,
  and whatever a driver waits for is given by some node), and the two interrupt
  controllers' domains fit below `MAX_IRQS`. Without the first a driver may wait for what
  nobody gives; without the second a controller is turned down that nobody refused. TLC
  evaluates `WholeBoard` for the board of the run (`MCWholeBoard`). `BootInv` says where
  each node is (`NodesPlaced`: bound, waiting, being tried, or refused), that a node
  which waits has not yet done what cannot be done twice (`NothingTwice`: registering
  again is an error, and a driver whose try failed after it could never be bound),
  what a try so far and a bound node have brought about (`StepsTold`, `BoundTold`),
  that the numbers used up are those of the controllers that are set up (`NumbersUsed`),
  and why a node is retained (`RetainedFor`: a driver was bound in this round, so there
  is another, or the node was refused, or it waits for one that is not bound).
* `UsbEnumProofs`: `AddressesStayUnique` (`AddressesUnique`), for every bus, any number
  of faults, and any number of retries (`UsbControlAssumption`, `TreesAssumption`).
  `AddressesUnique` alone is not inductive: that the device at address 0 is the only
  one depends on how far the search is. `AddressesGiven` says that devices done with
  have addresses below `next_address`; `AddressAwaited` and `StatusAwaited` say when a
  device may listen to address 0 or already to `next_address` (the request was carried
  out, its answer is missing); `RequestsInPlace` and `TransferInPlace` that the
  requests still to be sent, and the one on the bus, belong to that place in the
  search. A SET_ADDRESS can then reach only the device just reset.
* `UsbEnumProofs!KeyboardIsAlwaysFound` (`KeyboardIsFound`), for every bus, any number of
  faults and removals, and any number of retries. Hypothesis: `UsualDevices`. The control
  buffer takes a device descriptor, and the devices' control packets are at least 8 bytes
  long and their configurations at least the 9 bytes of a header, as the standard
  demands: the driver asks with these sizes before it knows the device, so that of a
  smaller packet it would take the first part for the whole. TLC evaluates it for the
  buses of the run (`MCUsualDevices`). `FoundInv` adds `SearchInv` to the property while
  the search is under way: which place is looked at (`SearchPlace`), what is left to be
  asked there (`ListPlanned`; `Describes`, `Prepares` and `AsksHub` say which request
  comes with how many left), that the transfer on the bus is the first of these, goes to
  that place and has as much of the answer as the device sent (`TransferKnown`), what
  the answers told of the device (`DeviceKnown`), what the device was told, if it is
  still there (`DeviceTold`), what the hub said of the port (`StatusKnown`), and that no
  keyboard was passed over (`PortsPassed`). `PortsPowered` is needed because a port
  without power ignores its reset. `RightOneAnswers` uses `AddressesUnique` and
  `AddressesGiven`: what answers is the device at the place. `NextPart` is the arithmetic of
  a data stage, where the host's packets are no longer than the device's: a short
  packet, or all that was asked, means that the answer is complete.
* `TerminalProofs`, the rings: `EmptyRing`, `PushRepresents`, `RepresentedIsHeld`, for
  rings of any size: an empty or cleared ring represents nothing, `push` represents
  one item more, and from what a ring represents `iter` and `drain` both return the
  newest items, oldest first (`HoldsNewest`). `Turn` is the arithmetic of one turn
  around the buffer. `PushAllRepresents` says the same of a whole batch (`PushAll`, a
  fold). The library's induction theorems cannot be used for that; the lemma `Climb`
  replaces them: a set of numbers that has 0 and with each number the next one has
  all up to `n`. `FoldExists` shows with it that the function exists which `FoldLeft`
  chooses, and from its equation follow the empty batch and the longer one.
* `TerminalProofs!TypedIsNotLost` (`NothingTypedIsLost`) and `ScreensShowTheLine`
  (`ScreenShowsLine`), for rings and reports of any size, any boards and any number of
  bytes and strokes. Assumed: rings have a slot, the prompt's output is not a byte
  that can be typed (`TerminalAssumption`), and a key pressed is in the layout or is
  caps lock (`KeyboardAssumption`). `InputInv` says that the keyboard's and the
  UART's ring represent all bytes that came (`Represents`), and that a key which
  repeats has a byte to repeat. Reports are
  folds over their usages, and `KeyDownOk` is the one step of it. `LineInv` says
  that the line buffer is what the edited bytes mean, that every output's row
  fits the line while the shell's task reads (`RowFits`: the prompt and then the line
  on a whole row, the end of it on a later one), and that the line is empty
  elsewhere. Widths are any numbers from 2, and a kernel message may come at any
  time; it ends what is claimed of that line.
  `Meant` is not defined by running the line discipline again: a byte survives if no
  later backspace reaches it, which is counted (`Surviving`), and the line is the
  surviving bytes in their order. `MeantAppend` proves that one byte more does to it
  what `process_byte` does to the line buffer; it needs that a backspace takes the
  last survivor (`LastIsOpen`) and that the others keep their rank (`RanksMore`).
* `TerminalProofs!MessagesStayKept` (`MessagesAreKept`), for a boot ring of any size and
  any number of messages. `MessagesInv` uses the ring's theorems: before there
  is a console the boot ring represents all messages (`Represents(con.boot, UpTo(printed))`)
  and no device has seen one; afterwards the devices together have seen every message
  that is `Owed`: all those since the first console, and if that was the early one,
  as many before it as the ring holds. One lemma for each way to write or to hand
  over: `WriteFollows`, `EarlyFollows`, `ListedFollows`, `RetiredFollows`.
* `TerminalProofs!ResetsWhenDue` (`ResetsAsPromised`), for any frequency, any limits
  of the timeout (`WatchdogAssumption`: the longest accepted timeout fits the
  register), and any timeout in the device tree, checked or not. `WatchdogInv` says
  that while a reset is configured the register holds what is due, unless what is
  due is `Unknown` (`TimeoutLoaded`: a timeout no longer than the register is loaded
  as it is), and that after a restart or power-off the shell still waits longer
  than that.
* `FbConsoleProofs`: `ScreenKeepsShowingText` (`ScreenShowsText`) and `DmaStaysConfined`
  (`DmaConfined`), for any layouts the firmware may answer, any font size and any
  limits of the DMA driver. Assumed: the sizes are natural and the font's positive
  (`FbConsoleAssumption`), the five control characters differ from each other and
  from the printable ones (`TextLogAssumption`). `IInv` is `GeoInv` (`try_init` accepted
  the layout), `ChannelInv` and `ScreenInv`. `ChannelInv` says that an active channel
  carries out the console's own transfer, is waited for or given up for good, and that
  an END the console waits for means all rows: else a stale END could
  end the next scroll early. `ScreenInv` says how far the screen lags behind the log at
  each point of `scroll`: not moved (`UnmovedShown`), moved up to the row the engine has
  reached (`MovingShown`), moved but for the last row (`MovedShown`); rows in `torn` are
  exempt, and a channel left running only ever adds to them. `WrittenLog` says what a
  byte does to the log, `SetOnBoth` and `NewLineOnScreen` that the screen follows.
  `ScrollFits` is the arithmetic of the control block, from what `try_init` checks.

Only model-checked:

* All liveness properties: the proof system has no support for ENABLED.
* `calc_available_mem` (the folds of `MemoryMap`), which is not right for every map
  (finding 3).
* `TreeLookup`, whose lookups and token loop are recursive.

## 5. What is not modelled, and why

* Secondary cores: the kernel parks them (`ROADMAP.md`), all models have one.
* Memory ordering: on one core, program order is what a preempted task leaves.
  `OnceLock` is the exception in spirit, but its accesses are acquire/release.
* FIQ: masked and unmasked together with IRQ, no FIQ source is enabled.
* In `Sched`, interrupts during boot: they are enabled between the drivers'
  initialisation and `start_sched`, but the alarm, the only one whose handler
  asks for a reschedule, is armed by `start_sched` with interrupts masked.
* The mailbox's interrupt path beside `receive`: the firmware is only asked at
  boot, by one driver at a time and with interrupts masked, so that `receive`
  and the handler never meet. `DriverInit` has the call as one step that may fail.
* The system timer's alarm: it is registered, nobody schedules it.
* `init_local_devices` and `disable_irq` of the controllers: never called.
* Counters kept for the `fbstats` command, the wording of messages and answers,
  the spelling of commands, and all key codes beyond one of each kind.
* The UART's transmit side: a register that is polled.
* Properties of the device tree that nothing reads, interrupt maps.
* Hubs behind the first one: the code leaves them alone. `cancel_interrupt_in`:
  no caller.
* Fonts, EDID, panic output, assembly entry code beyond the frames it pushes,
  clocks (mostly `todo!()`), Bluetooth, Ethernet, WLAN, SD, pin control, PL011
  (empty).

## 6. Plan

Modelled and checked so far: everything in section 2. Next, in this order:

1. `TimeKeeping`: conversion of durations to ticks, `busy_wait` and `sleep` against
   the counter; deadlines are never early.
2. `LockTable`: `try_lock`, `with_global_lock` and the hashed locks of
   `with_addr_lock`.
3. The page tables' descriptors and the mailbox's two receive paths.
